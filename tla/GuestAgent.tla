----------------------------- MODULE GuestAgent -----------------------------
(* One question put to one guest's agent: the script inspect and summary    *)
(* run against its socket (inspect._GA_SCRIPT), and what the host makes of  *)
(* the answers: who is logged in, which GPUs there are, which keys the      *)
(* guest accepts. Each is "unknown" (None), "none" ({}), or a set.          *)
(* Requests and answers share one stream: the agent answers in order, the   *)
(* script stops waiting after a timeout, and the answer comes all the same. *)
(* A file is its meaning; one that is read by another's name parses to      *)
(* nothing, unless it is of the same kind.                                  *)
EXTENDS Naturals, Sequences, SequencesExt, FiniteSets, TLC

CONSTANTS None,
          Guests,    \* guests that may be asked
          Stubs,     \* accounts whose shell allows no login
          Stale,     \* most answers an earlier client left unread
          Timeouts,  \* timeouts that spend the budget
          Digits,    \* session ids that are digits only
          MaxNodes, MaxUids, MaxSids, MaxToks  \* caps of the script's walks

VARIABLES guest,     \* .files, .users (guest-get-users), .on, .gpus
          opened,    \* handles open in the guest, by the file they are of
          owed,      \* requests the agent has not answered
          line,      \* answers the script has not received
          todo,      \* what the script has still to ask, in order
          step,      \* "ask", then "read" and "close" of Head(todo)
          handle,    \* what it reads and closes
          waiting,   \* the request was sent
          info,      \* the script's result
          timeouts, late,  \* late: the budget is spent
          crossed    \* some answer was taken for another request's
stream == <<opened, owed, line>>
script == <<todo, step, handle, info>>
agentVars == <<guest, stream, script, waiting, timeouts, late, crossed>>

Passwd == <<"passwd">>
Keys == <<"authorized_keys">>
Node(n) == <<"node", n>>
Stat == <<"stat">>
Docker == <<"docker">>
Unix == <<"unix">>
Utmp == <<"utmp">>
SessionsDir == <<"sessions">>
Nsswitch == <<"nsswitch">>
User(u) == <<"user", u>>
Session(s) == <<"session", s>>

Do(what, path) == [do |-> what, path |-> path]
Facts == {"host-name", "interfaces", "disks", "fsinfo"}
Script == <<Do("sync", <<>>), Do("host-name", <<>>), Do("interfaces", <<>>),
            Do("disks", <<>>), Do("fsinfo", <<>>), Do("users", <<>>),
            Do("file", Passwd), Do("file", Keys), Do("file", Node(1)),
            Do("file", Stat), Do("probe", Docker), Do("file", Unix),
            Do("probe", Utmp), Do("probe", SessionsDir), Do("file", Nsswitch)>>

(* The guest: device nodes are numbered up to its GPUs, utmp lists the      *)
(* logins that the agent tells, passwd its own accounts, and all of them    *)
(* where it is the only source; a login of one has a state file of its      *)
(* user's and one of a session, which names nobody else.                    *)
GuestAssumption ==
    /\ {Stale, MaxNodes, MaxUids, MaxSids, MaxToks} \subseteq Nat
    /\ None \notin BOOLEAN /\ None # {}
    /\ \A g \in Guests :
          LET Has(p, kind) == p \in DOMAIN g.files /\ g.files[p].kind = kind
              Listed(p) == Range(g.files[p].of)
          IN  /\ \A p \in DOMAIN g.files :
                    /\ DOMAIN g.files[p] = {"kind", "of", "read"}
                    /\ g.files[p].of \in Seq(Listed(p))
                    /\ p = Keys => g.files[p].kind = "keys"
                    /\ \A kind \in {"passwd", "nsswitch", "node"} :
                          p[1] = kind => g.files[p].kind = kind
                    /\ g.files[p].kind = "session" => Listed(p) \subseteq g.on
              /\ g.gpus \in Nat /\ \A n \in 1..g.gpus : Node(n) \in DOMAIN g.files
              /\ g.on \cap Stubs = {} /\ g.users \subseteq g.on
              /\ Utmp \in DOMAIN g.files => g.users = g.on
              /\ Nsswitch \in DOMAIN g.files /\ Listed(Nsswitch) \subseteq {"files"} =>
                    g.on \subseteq Listed(Passwd)
              /\ \A u \in g.on \cap Listed(Passwd) :
                    /\ Has(User(u), "user")
                    /\ \E s \in Listed(User(u)) :
                          Has(Session(s), "session") /\ u \in Listed(Session(s))
ASSUME GuestAssumption

Done == todo = <<>>

NoInfo == [ran |-> FALSE, users |-> None, docker |-> None, utmp |-> None,
           logind |-> None, complete |-> FALSE, before |-> {}, gpu_complete |-> FALSE,
           files |-> <<>>, partial |-> {}]

AgentInit ==
        /\ guest \in Guests
        /\ opened = {} /\ owed = <<>>
        /\ \E n \in 0..Stale :
             line = [i \in 1..n |-> [to |-> Do("earlier", <<>>), kind |-> "error", of |-> <<>>]]
        /\ todo = Script /\ step = "ask" /\ handle = <<>> /\ waiting = FALSE
        /\ info = NoInfo /\ timeouts = 0 /\ late = FALSE /\ crossed = FALSE

---------------------------------------------------------------------------
(* The agent. A file may be too long for one read, or not readable, or not *)
(* opened: a policy denies it, or guest-file-open is blocked.              *)

Text(p) == LET f == guest.files[p]
           IN IF f.read = "short" THEN [f EXCEPT !.of = Front(@)] ELSE f
Opens(p) == p \in DOMAIN guest.files /\ guest.files[p].read # "denied"

Reply(kind, of) ==
    /\ owed' = Tail(owed)
    /\ line' = Append(line, [to |-> Head(owed), kind |-> kind, of |-> of])
    /\ UNCHANGED <<guest, script, waiting, timeouts, late, crossed>>

AnswerCommand ==
    /\ ~Done /\ owed # <<>> /\ UNCHANGED opened
    /\ \/ Head(owed).do = "sync" /\ Reply("id", {})
       \/ Head(owed).do \in Facts /\ (Reply("list", {None}) \/ Reply("error", {}))
       \/ Head(owed).do = "users" /\ (Reply("list", guest.users) \/ Reply("error", {}))

AnswerFile ==
    /\ ~Done /\ owed # <<>>
    /\ LET p == Head(owed).path IN
       \/ /\ Head(owed).do = "open" /\ Opens(p)
          /\ opened' = opened \cup {p} /\ Reply("handle", p)
       \/ /\ Head(owed).do = "open" /\ ~Opens(p)
          /\ UNCHANGED opened /\ Reply("error", {})
       \/ /\ Head(owed).do = "read" /\ UNCHANGED opened
          /\ IF p \in opened /\ guest.files[p].read # "error"
             THEN Reply("text", Text(p)) ELSE Reply("error", {})
       \/ /\ Head(owed).do = "close"
          /\ opened' = opened \ {p} /\ Reply("done", {})

---------------------------------------------------------------------------
(* The script.                                                             *)

Task == Head(todo)
Is(t, kind) == t.path # <<>> /\ t.path[1] = kind

(* What a text means, read as a file of some kind; and those elements of a *)
(* sequence that are in a set.                                              *)
NoText == [kind |-> "none", of |-> <<>>, read |-> "whole"]
Parsed(text, kind) == IF text.kind = kind THEN text.of ELSE <<>>
File(inf, p) == IF p \in DOMAIN inf.files THEN inf.files[p] ELSE NoText

Those(s, S) ==
    LET kept[n \in 0..Len(s)] ==
          IF n = 0 THEN <<>>
          ELSE IF s[n] \in S THEN Append(kept[n - 1], s[n]) ELSE kept[n - 1]
    IN kept[Len(s)]

Uids(inf) == LET all == Parsed(File(inf, Passwd), "passwd")
             IN Those(all, Range(all) \ Stubs)
Capped(s, n) == SubSeq(s, 1, IF Len(s) > n THEN n ELSE Len(s))

(* Whether the accounts walked are all there are: the whole of passwd, no  *)
(* source of others but systemd, and fewer accounts than the cap.          *)
Sources == {"files", "compat", "systemd"}
AllAccounts_Got(inf) ==
    /\ Passwd \in DOMAIN inf.files
    /\ Range(Parsed(File(inf, Nsswitch), "nsswitch")) \subseteq Sources
    /\ Len(Uids(inf)) < MaxUids
AllAccounts(inf) ==
    /\ Passwd \in DOMAIN inf.files \ inf.partial
    /\ Range(Parsed(File(inf, Nsswitch), "nsswitch")) \subseteq Sources
    /\ Len(Uids(inf)) < MaxUids

(* An id that is not of digits is passed over.                             *)
NewSessions(text) ==
    LET sids == Those(Capped(Parsed(text, "user"), MaxToks), Digits)
        all == [i \in 1..Len(sids) |-> Do("file", Session(sids[i]))]
    IN Those(all, Range(all) \ Range(todo))
OfSessions(tasks) == {t \in Range(tasks) : Is(t, "session")}
Sessions(text) == Those(todo, OfSessions(todo)) \o NewSessions(text)

Added(files, path, text) ==
    [p \in DOMAIN files \cup {path} |-> IF p = path THEN text ELSE files[p]]

(* What reading a file adds: NoText is none of it, short is not all of it. *)
Read(inf, t, text, short) ==
    LET got == text.kind # "none"
        now == [inf EXCEPT
                  !.files = IF got THEN Added(@, t.path, text) ELSE @,
                  !.partial = IF short THEN @ \cup {t.path} ELSE @,
                  !.gpu_complete = @ \/ (Is(t, "node") /\ ~got /\ ~short)]
    IN CASE t.path = Nsswitch ->
              [now EXCEPT !.complete = AllAccounts(now), !.before = now.partial]
         [] Is(t, "user") -> [now EXCEPT !.complete = @ /\ Len(Sessions(text)) <= MaxSids
                                                        /\ Len(Parsed(text, "user")) <= MaxToks]
         [] OTHER -> now

Rest(inf, t, text) ==
    CASE Is(t, "node") /\ text.kind # "none" /\ t.path[2] < MaxNodes ->
           <<Do("file", Node(t.path[2] + 1))>> \o Tail(todo)
      [] t.path = Nsswitch ->
           Tail(todo) \o [i \in 1..Len(Capped(Uids(inf), MaxUids)) |-> Do("file", User(Uids(inf)[i]))]
      [] Is(t, "user") ->
           Those(Tail(todo), Range(todo) \ OfSessions(todo)) \o Capped(Sessions(text), MaxSids)
      [] OTHER -> Tail(todo)

Finish(inf, rest) == info' = inf /\ todo' = rest /\ step' = "ask" /\ UNCHANGED handle
FinishRead(text, short) ==
    Finish(Read(info, Task, text, short), Rest(Read(info, Task, text, short), Task, text))
ThenClose(inf, rest) ==
    info' = inf /\ todo' = <<Task>> \o rest /\ step' = "close" /\ UNCHANGED handle

(* Some tasks depend on what is known by then.                             *)
Wanted(t) ==
    CASE t.path = Unix -> info.docker = TRUE
      [] t.path = Utmp -> info.users = {}
      [] t.path = SessionsDir -> info.users \in {None, {}} /\ info.utmp # TRUE
      [] t.path = Nsswitch -> info.logind = TRUE
      [] OTHER -> TRUE

Request ==
    CASE step # "ask" -> Do(step, handle)
      [] step = "ask" /\ Task.do \in {"file", "probe"} -> Do("open", Task.path)
      [] OTHER -> Task

Ask ==
    /\ ~Done /\ ~waiting
    /\ step = "ask" => Wanted(Task) /\ ~late
    /\ owed' = Append(owed, Request) /\ waiting' = TRUE
    /\ UNCHANGED <<guest, opened, line, script, timeouts, late, crossed>>

(* The budget is spent, or, for GPUs, all but a floor of it: what is left  *)
(* is not asked, and a walk of accounts that stops is not complete.        *)
Skip_Complete ==
    /\ ~Done /\ ~waiting /\ step = "ask"
    /\ late \/ ~Wanted(Task) \/ Is(Task, "node")
    /\ IF Task.path = Nsswitch /\ Wanted(Task)
       THEN FinishRead(NoText, FALSE)
       ELSE Finish(info, Tail(todo))
    /\ UNCHANGED <<guest, stream, waiting, timeouts, late, crossed>>
Skip ==
    /\ ~Done /\ ~waiting /\ step = "ask"
    /\ late \/ ~Wanted(Task) \/ Is(Task, "node")
    /\ IF Task.path = Nsswitch /\ Wanted(Task)
       THEN FinishRead(NoText, FALSE)
       ELSE Finish([info EXCEPT !.complete = @ /\ ~Is(Task, "user") /\ ~Is(Task, "session")],
                   Tail(todo))
    /\ UNCHANGED <<guest, stream, waiting, timeouts, late, crossed>>

HeardCommand(got) ==
    /\ Task.do \in Facts \cup {"users"}
    /\ Finish(IF Task.do = "users" /\ got.kind = "list" THEN [info EXCEPT !.users = got.of]
              ELSE info, Tail(todo))

(* Not to answer is not to say that the file is missing.                   *)
HeardOpen_Missing(got) ==
    /\ Task.do = "file" /\ step = "ask"
    /\ IF got.kind = "handle"
       THEN handle' = got.of /\ step' = "read" /\ UNCHANGED <<todo, info>>
       ELSE FinishRead(NoText, FALSE)
HeardOpen(got) ==
    /\ Task.do = "file" /\ step = "ask"
    /\ IF got.kind = "handle"
       THEN handle' = got.of /\ step' = "read" /\ UNCHANGED <<todo, info>>
       ELSE FinishRead(NoText, got.kind = "timeout")

HeardProbe(got) ==
    /\ Task.do = "probe" /\ step = "ask"
    /\ LET says == IF got.kind = "timeout" THEN None ELSE got.kind = "handle"
           inf == CASE Task.path = Docker -> [info EXCEPT !.docker = says]
                    [] Task.path = Utmp -> [info EXCEPT !.utmp = says]
                    [] Task.path = SessionsDir -> [info EXCEPT !.logind = says]
       IN IF got.kind = "handle"
          THEN /\ handle' = got.of /\ info' = inf /\ step' = "close" /\ UNCHANGED todo
          ELSE Finish(inf, Tail(todo))

HeardRead_Whole(got) ==
    /\ step = "read"
    /\ LET text == IF got.kind = "text" THEN got.of ELSE NoText
           inf == Read(info, Task, text, got.kind # "text")
       IN ThenClose(inf, Rest(inf, Task, text))
HeardRead(got) ==
    /\ step = "read"
    /\ LET text == IF got.kind = "text" THEN got.of ELSE NoText
           short == got.kind # "text" \/ got.of.read = "short"
           inf == Read(info, Task, text, short)
       IN ThenClose(inf, Rest(inf, Task, text))

HeardClose(got) == step = "close" /\ Finish(info, Tail(todo))

Heard(got) == HeardCommand(got) \/ HeardOpen(got) \/ HeardProbe(got)
              \/ HeardRead(got) \/ HeardClose(got)

(* A line is taken with whatever has come after it, and that is dropped.   *)
Receive ==
    /\ ~Done /\ waiting /\ line # <<>> /\ Task.do # "sync"
    /\ Heard(Head(line)) /\ line' = <<>> /\ waiting' = FALSE
    /\ crossed' = (crossed \/ Head(line).to # Request)
    /\ UNCHANGED <<guest, opened, owed, timeouts, late>>

GiveUp ==
    /\ ~Done /\ waiting /\ line = <<>> /\ Task.do # "sync"
    /\ Heard([kind |-> "timeout"]) /\ waiting' = FALSE
    /\ timeouts' = timeouts + 1 /\ late' = (late \/ timeouts' >= Timeouts)
    /\ UNCHANGED <<guest, stream, crossed>>

(* Lines an earlier client left are read until the answer to guest-sync.   *)
Sync ==
    /\ ~Done /\ waiting /\ line # <<>> /\ Task.do = "sync"
    /\ IF Head(line).kind = "id"
       THEN Finish([info EXCEPT !.ran = TRUE], Tail(todo)) /\ waiting' = FALSE
       ELSE UNCHANGED <<script, waiting>>
    /\ line' = <<>> /\ UNCHANGED <<guest, opened, owed, timeouts, late, crossed>>

(* No sync, an exception, or the host's own timeout: nothing is reported.  *)
Lose ==
    /\ ~Done /\ Finish(NoInfo, <<>>) /\ waiting' = FALSE
    /\ owed' = <<>> /\ line' = <<>>
    /\ UNCHANGED <<guest, opened, timeouts, late, crossed>>

Slow == /\ ~Done /\ info.ran /\ ~late /\ late' = TRUE
        /\ UNCHANGED <<guest, stream, script, waiting, timeouts, crossed>>

AgentNext ==
    AnswerCommand \/ AnswerFile \/ Ask \/ Skip \/ Receive \/ GiveUp \/ Sync \/ Lose \/ Slow
AgentSpec == AgentInit /\ [][AgentNext]_agentVars

---------------------------------------------------------------------------
(* What the host concludes.                                                *)

LogindSession_Any(text) == IF text.kind \in {"session", "manager"} THEN Range(text.of) ELSE {}
LogindSession(text) == IF text.kind = "session" THEN Range(text.of) ELSE {}

Resolve_Empty(found, complete) == found
Resolve(found, complete) == IF found # {} \/ complete THEN found ELSE None

UtmpSessions == IF info.users = None THEN None
                ELSE Resolve(info.users \ {None}, info.utmp = TRUE /\ None \notin info.users)
LogindSessions ==
    IF info.logind # TRUE THEN None
    ELSE Resolve(UNION {LogindSession(info.files[p]) :
                          p \in {q \in DOMAIN info.files : q[1] = "session"}},
                 info.complete /\ info.partial = info.before)
SshSessions == IF UtmpSessions # None THEN UtmpSessions ELSE LogindSessions

VmSessions == IF ~info.ran THEN None ELSE SshSessions

GuestGpus ==
    Resolve({p \in DOMAIN info.files : p[1] = "node" /\ info.files[p].kind = "node"},
            info.gpu_complete)
AcceptedKeys ==
    IF Keys \notin DOMAIN info.files THEN None
    ELSE Resolve(Range(Parsed(info.files[Keys], "keys")), Keys \notin info.partial)

---------------------------------------------------------------------------
(* Properties.                                                             *)

Nobody == Done /\ VmSessions = {}
LocalOn == guest.on \cap Range(guest.files[Passwd].of)

(* Whom the walk overlooks though it is complete: an account that passwd    *)
(* need not list, one whose state file does not open, and one whose         *)
(* sessions have ids that are not of digits, or files that do not open.     *)
SessionOf(u, s) == /\ Session(s) \in DOMAIN guest.files
                   /\ guest.files[Session(s)].kind = "session"
                   /\ u \in Range(guest.files[Session(s)].of)
Sids(u) == Range(guest.files[User(u)].of)
OtherSources ==
    \/ Nsswitch \notin DOMAIN info.files \ info.partial
    \/ Range(info.files[Nsswitch].of) \cap {"compat", "systemd"} # {}
Overlooked(u) ==
    \/ u \notin LocalOn /\ OtherSources
    \/ u \in LocalOn /\ ~Opens(User(u))
    \/ u \in LocalOn /\ \A s \in Sids(u) :
                            SessionOf(u, s) => s \notin Digits \/ ~Opens(Session(s))

(* "Nobody is logged in" is said only of a guest nobody is logged in on, or *)
(* else by the walk, of a guest all of whose logins it overlooks: not for a *)
(* budget spent, a short or failed read, a cap, a source of accounts that   *)
(* passwd does not hold, or an agent without utmp.                          *)
NobodyIsOn ==
    Nobody /\ ~crossed =>
        guest.on = {} \/ (UtmpSessions = None /\ \A u \in guest.on : Overlooked(u))

(* Likewise "no GPU" and "accepts no keys": of a guest that has none, or    *)
(* whose first device node does not open.                                   *)
NothingIsThere ==
    Done /\ info.ran /\ ~crossed =>
        /\ GuestGpus = {} => guest.gpus = 0 \/ ~Opens(Node(1))
        /\ AcceptedKeys = {} => guest.files[Keys].of = <<>>

(* Who is named is logged in, even where answers were taken for others: no *)
(* manager that lingers without a login is.                                *)
NamedAreOn == Done /\ VmSessions # None => VmSessions \subseteq guest.on

AllOpen == \A p \in DOMAIN guest.files : Opens(p)
AllDigits == \A p \in DOMAIN guest.files : p[1] = "session" => p[2] \in Digits

(* "Nobody" is never said on answers meant for other requests, where every  *)
(* file opens and every id is of digits: "none" has to mean that it looked  *)
(* everywhere (inspect.py:1049-1050).                                       *)
NoneMeansNobody == Nobody /\ AllOpen /\ AllDigits => LocalOn = {}
=============================================================================
