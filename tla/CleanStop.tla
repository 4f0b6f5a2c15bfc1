------------------------------ MODULE CleanStop ------------------------------
(***************************************************************************)
(* What taking a stack down promises its operator.  `docker compose down`  *)
(* sends SIGTERM to QEMU, a power cut for the guest; so every guest is     *)
(* asked to power off first, and one that is cut all the same has been     *)
(* named, before it happens.  GuestShutdown implements this.               *)
(***************************************************************************)
CONSTANT Guests

VARIABLES
  guest,   \* "off", "on", "stopping" (asked, going down), "cut"
  named    \* the guests the operator has been told will not stop cleanly

vars == <<guest, named>>

Running(g) == guest[g] \in {"on", "stopping"}

Init == guest \in [Guests -> {"off", "on", "stopping"}] /\ named = {}

(* A command begins with a clean slate, and adds to it as it learns more. *)
Begin   == named' = {} /\ UNCHANGED guest
Tell(S) == named' = named \union S /\ UNCHANGED guest

Ask(g) == guest[g] = "on" /\ guest' = [guest EXCEPT ![g] = "stopping"] /\ UNCHANGED named

(* The agent took the request, and the operator is told that it may not have. *)
AskAndTell(g) ==
  /\ guest[g] = "on" /\ guest' = [guest EXCEPT ![g] = "stopping"]
  /\ named' = named \union {g}

Boot(g)     == ~Running(g) /\ guest' = [guest EXCEPT ![g] = "on"] /\ UNCHANGED named
PowerOff(g) == Running(g) /\ guest' = [guest EXCEPT ![g] = "off"] /\ UNCHANGED named

Cut(S) ==
  /\ \A g \in S : Running(g) /\ g \in named
  /\ guest' = [g \in Guests |-> IF g \in S THEN "cut" ELSE guest[g]]
  /\ UNCHANGED named

Next ==
  \/ Begin
  \/ \E S \in SUBSET Guests : Tell(S) \/ Cut(S)
  \/ \E g \in Guests : Ask(g) \/ AskAndTell(g) \/ Boot(g) \/ PowerOff(g)

Spec == Init /\ [][Next]_vars
=============================================================================
