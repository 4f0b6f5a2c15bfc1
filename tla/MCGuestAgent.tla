---------------------------- MODULE MCGuestAgent ----------------------------
EXTENDS GuestAgent
(* daemon has a stub for a shell; remote is no account of the guest's own.  *)
Whole(kind, of) == [kind |-> kind, of |-> of, read |-> "whole"]
SidOf == [root |-> 1, ubuntu |-> 2, remote |-> 3]
Disk(on, utmp, sources, gpus, keys) ==
    (Passwd :> Whole("passwd", <<"daemon", "root", "ubuntu">>))
    @@ (Keys :> Whole("keys", keys))
    @@ [p \in {Stat, Unix} |-> Whole("text", <<>>)]
    @@ [p \in {Node(n) : n \in 1..gpus} |-> Whole("node", <<"gfx">>)]
    @@ (IF utmp THEN Utmp :> Whole("text", <<>>) ELSE <<>>)
    @@ (SessionsDir :> [kind |-> "text", of |-> <<>>, read |-> "error"])
    @@ (IF sources = <<>> THEN <<>> ELSE Nsswitch :> Whole("nsswitch", sources))
    @@ [p \in {User(u) : u \in on} |-> Whole("user", <<SidOf[p[2]], 4>>)]
    @@ [p \in {Session(SidOf[u]) : u \in on} |->
          Whole("session", <<CHOOSE u \in on : SidOf[u] = p[2]>>)]
Guest(on, utmp, sources, gpus, keys) ==
    [files |-> Disk(on, utmp, sources, gpus, keys), on |-> on, gpus |-> gpus,
     users |-> IF utmp THEN on ELSE {}]
Lingering(g) ==
    [g EXCEPT !.files = @ @@ (User("root") :> Whole("user", <<1>>))
                          @@ (Session(1) :> Whole("manager", <<"root">>))]
Ubuntu(gpus) == Guest({"ubuntu"}, FALSE, <<"files">>, gpus, <<"k">>)
Sound ==
    {Lingering(Guest({}, FALSE, <<"files">>, 0, <<>>))} \cup
    {[Ubuntu(0) EXCEPT !.files[Passwd].of = <<"root", "dev", "ops", "ubuntu">>]} \cup
    {Guest(on, FALSE, sources, 0, <<>>) :
       on \in {{}, {"ubuntu"}, {"remote"}}, sources \in {<<>>, <<"files", "sss">>}}
    \cup {Guest(on, TRUE, <<>>, 0, <<>>) : on \in {{}, {"ubuntu"}}}
    \cup {Guest({"root", "ubuntu"}, FALSE, <<"files">>, 0, <<>>),
          Guest({"remote"}, FALSE, <<"files", "systemd">>, 0, <<>>)}
    \cup {Ubuntu(gpus) : gpus \in 0..2}
(* At most one file of a guest does not read well, or none of them opens;  *)
(* and ubuntu's session is "c1", or not among the first two of its ids.    *)
C1 == 9
MCDigits == 1..5
Odd(g, p, bad) == [g EXCEPT !.files[p].read = bad]
MCGuests ==
    Sound
    \cup UNION {{Odd(g, p, bad) : bad \in {"short", "error", "denied"},
                   p \in {q \in {Passwd, Keys, Nsswitch, User("ubuntu"), Session(2)} :
                            q \in DOMAIN g.files /\ g.files[q].of # <<>>}} :
                  g \in {h \in Sound : "ubuntu" \in h.on /\ h.gpus = 0 /\ h.users = {}}}
    \cup {Odd(Ubuntu(1), Node(1), bad) : bad \in {"error", "denied"}}
    \cup {[Ubuntu(1) EXCEPT !.files = [p \in DOMAIN @ |-> [@[p] EXCEPT !.read = "denied"]]]}
    \cup {[Ubuntu(0) EXCEPT !.files = (User("ubuntu") :> Whole("user", <<4, C1>>))
                                      @@ (Session(C1) :> Whole("session", <<"ubuntu">>)) @@ @],
          [Ubuntu(0) EXCEPT !.files[User("ubuntu")].of = <<4, 5, 2>>]}
=============================================================================
