---------------------------- MODULE GuestShutdown ----------------------------
(***************************************************************************)
(* Every way this tool takes guests and stacks down: `qemu-tool down` with *)
(* a VM name, a stack name, nothing or --all (cli, shutdown, down_all) and *)
(* `quick-start down`.  A command works from what it can see (docker ps,   *)
(* then /proc, either of which can fail), asks the guest agents, waits up  *)
(* to a deadline, asks the operator, and stops the containers.             *)
(*                                                                         *)
(* One command at a time; nobody brings up, meanwhile, a guest that the    *)
(* command is about.  Any other guest may start, and any guest may power   *)
(* off, hang or crash at any moment.                                       *)
(***************************************************************************)
EXTENDS Integers, Sequences, FiniteSets

CONSTANTS
  Guests, Names, Stacks,
  Bare,       \* the home of a guest no stack runs
  Name,       \* [Guests -> Names], the -name of its QEMU
  Home,       \* [Guests -> Stacks \union {Bare}], its compose project
  Mine,       \* the stacks a container of which runs as the caller
  Quick,      \* the stack of quick-start
  QuickNames, \* VM_NAME_PREFIX-1 .. VM_NAME_PREFIX-VM_COUNT
  MaxVerbs    \* bound: commands started

ASSUME GuestAssumption == Name \in [Guests -> Names] /\ Home \in [Guests -> Stacks \union {Bare}]
ASSUME StackAssumption == Mine \subseteq Stacks /\ Quick \in Stacks /\ Bare \notin Stacks
(* The settings are those the stack was rendered from. *)
ASSUME QuickAssumption ==
  /\ QuickNames \in Seq(Names) /\ QuickNames # << >>
  /\ \A g \in Guests : Home[g] = Quick => \E i \in 1 .. Len(QuickNames) : Name[g] = QuickNames[i]
ASSUME BoundAssumption == MaxVerbs \in Nat

Commands ==
  [kind : {"vm"}, target : Names, dry : BOOLEAN] \union
  [kind : {"stack"}, target : Stacks, dry : BOOLEAN] \union
  [kind : {"every", "all"}, target : {Bare}, dry : BOOLEAN] \union
  [kind : {"quick"}, target : {Quick}, dry : {FALSE}]

VARIABLES
  guest,   \* per guest: "off", "on", "stopping" (asked, powering off), "cut"
  up,      \* the stacks with a running container
  cmd, pc, \* the command and its step
  index,   \* quick-start: which of its guests it is at
  reach,   \* the guests whose agent can be reached: their container is known
  ask,     \* the guests still to be asked
  asked,   \* the guests whose agent took the request
  named,   \* the guests the operator has been warned about
  unseen,  \* running guests a scan did not show, taken for not running
  todo,    \* the stacks to tear down
  said,    \* "off": "All guest(s) powered off.", "nothing": "Nothing was stopped."
  verbs

world   == <<guest, up>>
request == <<reach, ask, asked>>
report  == <<named, unseen, said>>
process == <<cmd, pc, index, todo>>
vars    == <<world, request, report, process, verbs>>

Running == {g \in Guests : guest[g] \in {"on", "stopping"}}

Matches(g) ==
  \/ cmd.kind = "vm" /\ Name[g] = cmd.target
  \/ cmd.kind = "quick" /\ Name[g] = QuickNames[index]
  \/ cmd.kind = "stack" /\ Home[g] = cmd.target
  \/ cmd.kind \in {"every", "all"}

(* What a command is about: all it may stop. *)
Concerns(g) == IF cmd.kind \in {"quick", "stack"} THEN Home[g] = cmd.target ELSE Matches(g)

Init ==
  /\ guest \in [Guests -> {"off", "on"}]
  /\ up = {s \in Stacks : \E g \in Guests : Home[g] = s /\ guest[g] # "off"}
  /\ cmd = [kind |-> "quick", target |-> Quick, dry |-> FALSE]
  /\ pc = "idle" /\ index = 1 /\ todo = {}
  /\ reach = {} /\ ask = {} /\ asked = {}
  /\ named = {} /\ unseen = {} /\ said = "none" /\ verbs = 0

-----------------------------------------------------------------------------
(* The world.                                                              *)

Boot(g) ==
  /\ g \notin Running
  /\ pc = "idle" \/ ~(Concerns(g) \/ Matches(g))
  /\ guest' = [guest EXCEPT ![g] = "on"]
  /\ up' = up \union ({Home[g]} \ {Bare})
  /\ UNCHANGED <<request, report, process, verbs>>

PowerOff(g) ==
  /\ g \in Running
  /\ guest' = [guest EXCEPT ![g] = "off"]
  /\ UNCHANGED <<up, request, report, process, verbs>>

-----------------------------------------------------------------------------
(* A command.  `down TARGET` is about a stack only if discovery finds it   *)
(* running; any other name is a VM's.                                      *)
Start(c) ==
  /\ pc = "idle" /\ verbs < MaxVerbs
  /\ c.kind = "stack" => c.target \in up
  /\ cmd' = c /\ pc' = "list" /\ index' = 1 /\ todo' = {} /\ verbs' = verbs + 1
  /\ ask' = {} /\ asked' = {} /\ reach' = {}
  /\ named' = {} /\ unseen' = {} /\ said' = "none"
  /\ UNCHANGED world

(* quick-start down goes through its guests by name, then takes the stack  *)
(* down without a prompt.                                                  *)
NextName ==
  \/ /\ index < Len(QuickNames)
     /\ pc' = "list" /\ index' = index + 1 /\ UNCHANGED todo
  \/ /\ index = Len(QuickNames)
     /\ pc' = "teardown" /\ todo' = {Quick} /\ UNCHANGED index

(* shutdown.run returned. *)
Return ==
  /\ \/ cmd.kind = "quick" /\ NextName
     \/ cmd.kind \in {"stack", "all"} /\ pc' = "discover" /\ UNCHANGED <<index, todo>>
     \/ cmd.kind \in {"vm", "every"} /\ pc' = "idle" /\ UNCHANGED <<index, todo>>
  /\ UNCHANGED cmd

(* shutdown.run ended in sys.exit, which quick-start down takes as a note. *)
Exit ==
  /\ \/ cmd.kind = "quick" /\ NextName
     \/ cmd.kind # "quick" /\ pc' = "idle" /\ UNCHANGED <<index, todo>>
  /\ UNCHANGED cmd

(* Mutant: quick-start asks shutdown.run(None), the convenient spelling. *)
Sought_Node == {g \in Running : cmd.kind # "quick" => Matches(g)}

(* The running guests the command line means. *)
Sought == {g \in Running : Matches(g)}

(* collect(), and the selection.  A process whose cmdline cannot be read   *)
(* (hidepid) is not seen at all.  The stack of a guest is known by the     *)
(* name of its container, from its cgroup and docker ps: if either cannot  *)
(* be read, the guest is none of the stack.                                *)
Listed(seen, known) == IF cmd.kind = "stack" THEN known ELSE seen

List(seen, known) ==
  /\ pc = "list" /\ seen \subseteq Sought /\ known \subseteq {g \in seen : Home[g] # Bare}
  /\ reach' = known \union {g \in seen : Home[g] = Bare} /\ ask' = Listed(seen, known) /\ asked' = {}
  /\ unseen' = unseen \union (Sought \ Listed(seen, known))
  /\ said' = "none"
  /\ UNCHANGED <<world, named, verbs>>
  /\ \/ /\ Listed(seen, known) # {} /\ ~cmd.dry
        /\ pc' = "ask" /\ UNCHANGED <<cmd, index, todo>>
     \/ Listed(seen, known) # {} /\ cmd.dry /\ Return
     \/ Listed(seen, known) = {} /\ cmd.kind \notin {"vm", "quick"} /\ Return
     \/ Listed(seen, known) = {} /\ cmd.kind \in {"vm", "quick"} /\ Exit

(* /proc cannot be read: an error, which names the guest of quick-start. *)
ListFails ==
  /\ pc = "list"
  /\ named' = IF cmd.kind = "quick" THEN named \union {g \in Guests : Matches(g)} ELSE named
  /\ ask' = {} /\ asked' = {} /\ said' = "none"
  /\ Exit
  /\ UNCHANGED <<world, reach, unseen, verbs>>

(* Mutant: a guest without an answering agent is skipped, not reported. *)
Ask_Silent(g, taken, ok) ==
  /\ pc = "ask" /\ g \in ask
  /\ (taken \/ ok) => g \in Running /\ g \in reach
  /\ guest' = IF taken THEN [guest EXCEPT ![g] = "stopping"] ELSE guest
  /\ ask' = ask \ {g}
  /\ asked' = IF ok THEN asked \union {g} ELSE asked
  /\ UNCHANGED <<up, reach, report, process, verbs>>

(* One guest-shutdown over the agent.  Without the container's name the    *)
(* request is tried on the host, where there is no such socket.  Silence   *)
(* after the request is success; an answer docker exec does not bring back *)
(* in 30 s is a failure, of a request that may have been taken.            *)
Ask(g, taken, ok) ==
  /\ pc = "ask" /\ g \in ask
  /\ (taken \/ ok) => g \in Running /\ g \in reach
  /\ guest' = IF taken THEN [guest EXCEPT ![g] = "stopping"] ELSE guest
  /\ ask' = ask \ {g}
  /\ asked' = IF ok THEN asked \union {g} ELSE asked
  /\ named' = IF ok THEN named ELSE named \union {g}
  /\ UNCHANGED <<up, reach, unseen, said, process, verbs>>

(* Nobody accepted: an error, so that the containers are not stopped. *)
Asked ==
  /\ pc = "ask" /\ ask = {}
  /\ \/ asked = {} /\ Exit
     \/ asked # {} /\ pc' = "wait" /\ UNCHANGED <<cmd, index, todo>>
  /\ reach' = {}
  /\ UNCHANGED <<world, ask, asked, report, verbs>>

(* _still_running goes by name. *)
Left == {g \in Running : \E a \in asked : Name[g] = Name[a]}

(* Mutant: the wait is over when the first guest is gone. *)
Poll_First(proc) ==
  /\ pc = "wait"
  /\ proc => asked \ Running # {}
  /\ unseen' = IF proc THEN unseen ELSE unseen \union Left
  /\ said' = "off"
  /\ Return
  /\ UNCHANGED <<world, request, named, verbs>>

(* Nobody is left: or /proc, or the entries of those that are, cannot be   *)
(* read.                                                                   *)
Poll(proc) ==
  /\ pc = "wait"
  /\ proc => Left = {}
  /\ unseen' = unseen \union Left
  /\ said' = "off"
  /\ Return
  /\ UNCHANGED <<world, request, named, verbs>>

(* Mutant: the deadline only ends a wait in which nobody is left. *)
TimeOut_Never(hidden) ==
  /\ pc = "wait" /\ Left = {} /\ hidden = {}
  /\ Return
  /\ UNCHANGED <<world, request, report, verbs>>

(* The warning names those the last look shows. *)
TimeOut(hidden) ==
  /\ pc = "wait" /\ hidden \subseteq Left
  /\ named' = named \union (Left \ hidden)
  /\ unseen' = unseen \union hidden
  /\ Return
  /\ UNCHANGED <<world, request, said, verbs>>

(* discover() again, after the shutdown: the stack, or mine (root's are    *)
(* all of them).                                                           *)
Found(docker) ==
  {s \in up : docker /\ (IF cmd.kind = "stack" THEN s = cmd.target ELSE s \in Mine)}

Discover(docker) ==
  /\ pc = "discover"
  /\ todo' = Found(docker)
  /\ pc' = IF Found(docker) = {} \/ cmd.dry THEN "idle" ELSE "confirm"
  /\ UNCHANGED <<world, request, report, cmd, index, verbs>>

Confirm(yes) ==
  /\ pc = "confirm"
  /\ pc' = IF yes THEN "teardown" ELSE "idle"
  /\ said' = IF yes THEN said ELSE "nothing"
  /\ UNCHANGED <<world, request, named, unseen, cmd, index, todo, verbs>>

(* docker compose down of one stack: it may fail halfway. *)
Teardown(s, S, ok) ==
  /\ pc = "teardown" /\ s \in todo
  /\ S \subseteq {g \in Running : Home[g] = s}
  /\ ok => S = {g \in Running : Home[g] = s}
  /\ guest' = [g \in Guests |-> IF g \in S THEN "cut" ELSE guest[g]]
  /\ up' = IF ok THEN up \ {s} ELSE up
  /\ todo' = todo \ {s}
  /\ pc' = IF todo = {s} THEN "idle" ELSE pc
  /\ UNCHANGED <<request, report, cmd, index, verbs>>

(* Ctrl-C is not a SystemExit: the command ends. *)
Interrupt ==
  /\ pc # "idle" /\ pc' = "idle"
  /\ index' = 1 /\ todo' = {} /\ ask' = {} /\ reach' = {}
  /\ UNCHANGED <<world, asked, report, cmd, verbs>>

Step ==
  \/ \E seen \in SUBSET Sought : \E known \in SUBSET seen : List(seen, known)
  \/ \E docker \in BOOLEAN : Discover(docker)
  \/ Asked
  \/ \E g \in Guests, taken, ok \in BOOLEAN : Ask(g, taken, ok)
  \/ Poll(TRUE)
  \/ \E hidden \in SUBSET Left : TimeOut(hidden)
  \/ \E yes \in BOOLEAN : Confirm(yes)
  \/ \E s \in Stacks, S \in SUBSET Running, ok \in BOOLEAN : Teardown(s, S, ok)

ProcFails == ListFails \/ Poll(FALSE)

Next ==
  \/ \E g \in Guests : Boot(g) \/ PowerOff(g)
  \/ \E c \in Commands : Start(c)
  \/ Step \/ ProcFails \/ Interrupt

(* The command runs on (every wait in it has a time limit, the operator    *)
(* answers the prompt); a guest need not ever power off.                   *)
Spec == Init /\ [][Next]_vars /\ WF_vars(Step)

-----------------------------------------------------------------------------
(* Properties.                                                             *)

TypeOK ==
  /\ guest \in [Guests -> {"off", "on", "stopping", "cut"}] /\ up \subseteq Stacks
  /\ cmd \in Commands
  /\ pc \in {"idle", "list", "ask", "wait", "discover", "confirm", "teardown"}
  /\ index \in 1 .. Len(QuickNames) /\ todo \subseteq Stacks
  /\ reach \subseteq Guests /\ ask \subseteq Guests /\ asked \subseteq Guests
  /\ named \subseteq Guests /\ unseen \subseteq Guests /\ said \in {"none", "off", "nothing"}
  /\ verbs \in Nat

(* A guest is never cut off without the operator having been told its      *)
(* name, by the same command and before it happens; the one exception are  *)
(* the guests a scan did not show: docker ps or /proc did not answer, or   *)
(* their own entries could not be read.  A guest that is seen is never     *)
(* lost because another one is not.                                        *)
Excused == named \union unseen
Promise == INSTANCE CleanStop WITH named <- Excused
StopsClean == Promise!Spec

(* A command asks only guests it is about, cuts only those of the stack it *)
(* names or of the caller's own, and a dry run or a `down` of VMs cuts     *)
(* none.                                                                   *)
MayCut(g) ==
  /\ ~cmd.dry
  /\ \/ cmd.kind \in {"stack", "quick"} /\ Home[g] = cmd.target
     \/ cmd.kind = "all" /\ Home[g] \in Mine
OnlyTargets ==
  [][\A g \in Guests : guest'[g] # guest[g] =>
       /\ guest'[g] = "stopping" => ~cmd.dry /\ Concerns(g)
       /\ guest'[g] = "cut" => MayCut(g)]_vars

(* "All guest(s) powered off" is said of guests that have, or that the     *)
(* poll could not see.  Several guests, a poll between any two of them     *)
(* going, and a timeout whose last look comes later.                       *)
PoweredOffIsTrue ==
  pc # "idle" /\ said = "off" => asked \cap Running \subseteq unseen

(* Every command ends, whatever the guests do. *)
VerbEnds == pc # "idle" ~> pc = "idle"

=============================================================================
