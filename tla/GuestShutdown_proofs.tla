------------------------ MODULE GuestShutdown_proofs ------------------------
(***************************************************************************)
(* GuestShutdown implements CleanStop, for any guests, stacks and names:   *)
(* whatever `down` it is and whatever fails, no guest is cut off that the  *)
(* operator was not told of. And it goes for nobody else's: see OwnNames.  *)
(***************************************************************************)
EXTENDS GuestShutdown, TLAPS

(* quick-start has at least one guest to go through. *)
LEMMA QuickCount ==
  /\ 1 \in 1 .. Len(QuickNames)
  /\ \A i \in 1 .. Len(QuickNames) : i < Len(QuickNames) => i + 1 \in 1 .. Len(QuickNames)
<1>1. Len(QuickNames) \in Nat /\ Len(QuickNames) # 0
  BY QuickAssumption
<1> QED
  BY <1>1

LEMMA Successor == \A v \in Nat : v + 1 \in Nat
OBVIOUS

(* The command records the modelled command lines make. *)
LEMMA QuickCommand == [kind |-> "quick", target |-> Quick, dry |-> FALSE] \in Commands
BY DEF Commands

(* The steps, with what a scan shows and a stop reaches any sets of guests. *)
LEMMA Steps ==
  ASSUME Next
  PROVE  \/ \E g \in Guests : Boot(g) \/ PowerOff(g)
         \/ \E c \in Commands : Start(c)
         \/ \E seen, known \in SUBSET Guests : List(seen, known)
         \/ \E docker \in BOOLEAN : Discover(docker)
         \/ ListFails \/ Asked \/ Interrupt
         \/ \E g \in Guests, taken, ok \in BOOLEAN : Ask(g, taken, ok)
         \/ \E proc \in BOOLEAN : Poll(proc)
         \/ \E hidden \in SUBSET Guests : TimeOut(hidden)
         \/ \E yes \in BOOLEAN : Confirm(yes)
         \/ \E s \in Stacks, S \in SUBSET Guests, ok \in BOOLEAN : Teardown(s, S, ok)
<1>1. Sought \subseteq Guests /\ Left \subseteq Guests /\ Running \subseteq Guests
  BY DEF Sought, Left, Running
<1>2. CASE \E seen \in SUBSET Sought : \E known \in SUBSET seen : List(seen, known)
  BY <1>1, <1>2
<1>3. CASE \E hidden \in SUBSET Left : TimeOut(hidden)
  BY <1>1, <1>3
<1>4. CASE \E s \in Stacks, S \in SUBSET Running, ok \in BOOLEAN : Teardown(s, S, ok)
  BY <1>1, <1>4
<1> QED
  BY <1>2, <1>3, <1>4 DEF Next, Step, ProcFails

(* Every variable keeps its type in every reachable state. *)
THEOREM TypeCorrect == Spec => []TypeOK
<1> USE StackAssumption
<1>1. Init => TypeOK
  <2> SUFFICES ASSUME Init
               PROVE  TypeOK
    OBVIOUS
  <2>1. guest \in [Guests -> {"off", "on", "stopping", "cut"}] /\ up \subseteq Stacks
    BY DEF Init
  <2>2. cmd \in Commands
    BY QuickCommand DEF Init
  <2> QED
    BY <2>1, <2>2, QuickCount DEF Init, TypeOK
<1>2. TypeOK /\ [Next]_vars => TypeOK'
  <2> SUFFICES ASSUME TypeOK, [Next]_vars
               PROVE  TypeOK'
    OBVIOUS
  <2> USE DEF TypeOK, world, request, report, process
  <2>1. ASSUME NEW g \in Guests, Boot(g)
        PROVE  TypeOK'
    BY <2>1, GuestAssumption DEF Boot
  <2>2. ASSUME NEW g \in Guests, PowerOff(g)
        PROVE  TypeOK'
    BY <2>2 DEF PowerOff
  <2>3. ASSUME NEW c \in Commands, Start(c)
        PROVE  TypeOK'
    <3>1. index' \in 1 .. Len(QuickNames)
      BY <2>3, QuickCount DEF Start
    <3>2. verbs' \in Nat
      <4>1. verbs' = verbs + 1
        BY <2>3 DEF Start
      <4> QED
        BY <4>1, Successor
    <3> QED
      BY <2>3, <3>1, <3>2 DEF Start
  <2>4. ASSUME NEW seen \in SUBSET Guests, NEW known \in SUBSET Guests, List(seen, known)
        PROVE  TypeOK'
    BY <2>4, QuickCount DEF List, Listed, Sought, Running, Return, Exit, NextName
  <2>5. CASE ListFails
    <3>1. named' \subseteq Guests
      BY <2>5 DEF ListFails
    <3>2. cmd' = cmd /\ index' \in 1 .. Len(QuickNames) /\ todo' \subseteq Stacks
      BY <2>5, QuickCount DEF ListFails, Exit, NextName
    <3>3. pc' \in {"idle", "list", "teardown"}
      BY <2>5 DEF ListFails, Exit, NextName
    <3> QED
      BY <2>5, <3>1, <3>2, <3>3 DEF ListFails
  <2>6. ASSUME NEW g \in Guests, NEW taken \in BOOLEAN, NEW ok \in BOOLEAN, Ask(g, taken, ok)
        PROVE  TypeOK'
    BY <2>6 DEF Ask
  <2>7. CASE Asked
    BY <2>7, QuickCount DEF Asked, Exit, NextName
  <2>8. ASSUME NEW proc \in BOOLEAN, Poll(proc)
        PROVE  TypeOK'
    BY <2>8, QuickCount DEF Poll, Left, Running, Return, NextName
  <2>9. ASSUME NEW hidden \in SUBSET Guests, TimeOut(hidden)
        PROVE  TypeOK'
    BY <2>9, QuickCount DEF TimeOut, Left, Running, Return, NextName
  <2>10. ASSUME NEW docker \in BOOLEAN, Discover(docker)
         PROVE  TypeOK'
    BY <2>10 DEF Discover, Found
  <2>11. ASSUME NEW yes \in BOOLEAN, Confirm(yes)
         PROVE  TypeOK'
    BY <2>11 DEF Confirm
  <2>12. ASSUME NEW s \in Stacks, NEW S \in SUBSET Guests, NEW ok \in BOOLEAN, Teardown(s, S, ok)
         PROVE  TypeOK'
    BY <2>12 DEF Teardown
  <2>13. CASE Interrupt
    BY <2>13, QuickCount DEF Interrupt
  <2>14. CASE UNCHANGED vars
    BY <2>14 DEF vars
  <2> QED
    BY <2>1, <2>2, <2>3, <2>4, <2>5, <2>6, <2>7, <2>8, <2>9, <2>10, <2>11, <2>12, <2>13, <2>14, Steps
<1> QED
  BY <1>1, <1>2, PTL DEF Spec

-----------------------------------------------------------------------------
(* The inductive invariant.  At every step of a command each guest it is   *)
(* about is either gone, named (or hidden by a failure), still to be asked *)
(* or awaited; the sets to be asked and awaited are empty where the        *)
(* containers get stopped.  quick-start repeats this name by name, and     *)
(* what it has established of one guest holds on while it is at the next.  *)

Safe(g) == g \in Running => g \in Excused

Asking  == pc = "ask" => ~cmd.dry /\ \A g \in Guests : Matches(g) => Safe(g) \/ g \in ask \/ g \in asked
Waiting == pc = "wait" => ~cmd.dry /\ \A g \in Guests : Matches(g) => Safe(g) \/ g \in asked

Settled ==
  cmd.kind # "quick" /\ pc \in {"discover", "confirm", "teardown"} =>
    /\ cmd.kind \in {"stack", "all"}
    /\ cmd.dry \/ \A g \in Guests : Matches(g) => Safe(g)
    /\ pc # "discover" => ~cmd.dry
    /\ cmd.kind = "stack" /\ pc # "discover" => todo \subseteq {cmd.target}

QuickSettled ==
  cmd.kind = "quick" =>
    /\ pc \notin {"discover", "confirm"}
    /\ pc # "idle" => \A g \in Guests : Home[g] = Quick =>
         \A i \in 1 .. Len(QuickNames) : i < index /\ Name[g] = QuickNames[i] => Safe(g)
    /\ pc = "teardown" => todo \subseteq {Quick} /\ \A g \in Guests : Home[g] = Quick => Safe(g)

Accounted == Asking /\ Waiting /\ Settled /\ QuickSettled

(* What the kinds of command fix. *)
LEMMA Kinds ==
  \A c \in Commands :
    /\ c.kind \in {"vm", "stack", "every", "all", "quick"}
    /\ c.kind = "quick" => c.target = Quick /\ ~c.dry
BY DEF Commands

(* Up to the last name, "before the next" is "before this one, or this one". *)
LEMMA Before ==
  \A i, n \in 1 .. Len(QuickNames) :
    /\ i < n + 1 => i < n \/ i = n
    /\ n = Len(QuickNames) => i < n \/ i = n
<1>1. Len(QuickNames) \in Nat
  BY QuickAssumption
<1> QED
  BY <1>1

(* A step that moves no guest and forgets no warning keeps Safe. *)
LEMMA StillSafe ==
  ASSUME TypeOK, guest' = guest, named \subseteq named', unseen \subseteq unseen',
         NEW g \in Guests, Safe(g)
  PROVE  Safe(g)'
BY DEF Safe, Running, Excused

(* quick-start going on: if the guests of the name it was at are safe, so  *)
(* are all those before the next name, or all of the stack at the end.     *)
LEMMA NextNameLemma ==
  ASSUME TypeOK, Accounted, cmd.kind = "quick", pc # "idle", NextName, cmd' = cmd,
         guest' = guest, named \subseteq named', unseen \subseteq unseen',
         \A g \in Guests : Name[g] = QuickNames[index] => Safe(g)'
  PROVE  Accounted'
<1>1. index \in 1 .. Len(QuickNames)
  BY DEF TypeOK
<1>2. ASSUME NEW g \in Guests, Home[g] = Quick, NEW i \in 1 .. Len(QuickNames),
             i < index \/ i = index, Name[g] = QuickNames[i]
      PROVE  Safe(g)'
  <2>1. CASE i = index
    BY <1>2, <2>1
  <2>2. CASE i < index
    BY <1>2, <2>2, StillSafe DEF Accounted, QuickSettled
  <2> QED
    BY <1>2, <2>1, <2>2
<1>3. CASE index < Len(QuickNames) /\ pc' = "list" /\ index' = index + 1
  BY <1>1, <1>2, <1>3, Before DEF Accounted, Asking, Waiting, Settled, QuickSettled
<1>4. CASE index = Len(QuickNames) /\ pc' = "teardown" /\ todo' = {Quick} /\ UNCHANGED index
  <2>1. \A g \in Guests : Home[g] = Quick => Safe(g)'
    BY <1>1, <1>2, <1>4, Before, QuickAssumption
  <2> QED
    BY <1>4, <2>1 DEF Accounted, Asking, Waiting, Settled, QuickSettled
<1> QED
  BY <1>3, <1>4 DEF NextName

(* shutdown.run returning with its guests safe, in any command. *)
LEMMA ReturnLemma ==
  ASSUME TypeOK, Accounted, pc # "idle", Return,
         guest' = guest, named \subseteq named', unseen \subseteq unseen',
         cmd.dry \/ \A g \in Guests : Matches(g) => Safe(g)'
  PROVE  Accounted'
<1> USE Kinds DEF Return
<1>1. cmd' = cmd /\ cmd \in Commands
  BY DEF TypeOK
<1>2. CASE cmd.kind = "quick"
  <2>1. \A g \in Guests : Name[g] = QuickNames[index] => Safe(g)'
    BY <1>1, <1>2 DEF Matches
  <2> QED
    BY <1>1, <1>2, <2>1, NextNameLemma
<1>3. CASE cmd.kind \in {"stack", "all"}
  <2>1. pc' = "discover"
    BY <1>3
  <2>2. \A g \in Guests : Matches(g)' = Matches(g)
    BY <1>1, <1>3 DEF Matches
  <2> QED
    BY <1>1, <1>3, <2>1, <2>2 DEF Accounted, Asking, Waiting, Settled, QuickSettled
<1>4. CASE cmd.kind \in {"vm", "every"}
  BY <1>1, <1>4 DEF Accounted, Asking, Waiting, Settled, QuickSettled
<1> QED
  BY <1>1, <1>2, <1>3, <1>4

(* The same where shutdown.run exits: other commands end. *)
LEMMA ExitLemma ==
  ASSUME TypeOK, Accounted, pc # "idle", Exit,
         guest' = guest, named \subseteq named', unseen \subseteq unseen',
         cmd.kind = "quick" => \A g \in Guests : Matches(g) => Safe(g)'
  PROVE  Accounted'
<1>1. CASE cmd.kind = "quick"
  <2>1. \A g \in Guests : Name[g] = QuickNames[index] => Safe(g)'
    BY <1>1 DEF Matches
  <2> QED
    BY <1>1, <2>1, NextNameLemma DEF Exit
<1>2. CASE cmd.kind # "quick"
  BY <1>2 DEF Exit, Accounted, Asking, Waiting, Settled, QuickSettled
<1> QED
  BY <1>1, <1>2

(* At every reachable state each guest a command is about is accounted for. *)
THEOREM AccountKept == Spec => [](TypeOK /\ Accounted)
<1>1. Init => Accounted
  BY DEF Init, Accounted, Asking, Waiting, Settled, QuickSettled
<1>2. TypeOK /\ Accounted /\ [Next]_vars => Accounted'
  <2> SUFFICES ASSUME TypeOK, Accounted, [Next]_vars
               PROVE  Accounted'
    OBVIOUS
  <2>1. ASSUME NEW g \in Guests, Boot(g)
        PROVE  Accounted'
    <3>1. \A h \in Guests : h # g => guest'[h] = guest[h]
      BY <2>1 DEF Boot, TypeOK
    <3>2. \A h \in Guests : h # g /\ Safe(h) => Safe(h)'
      BY <2>1, <3>1 DEF Boot, Safe, Running, Excused, report
    <3>3. \A h \in Guests : Matches(h)' = Matches(h)
      BY <2>1 DEF Boot, Matches, process
    <3>4. CASE pc = "idle"
      BY <2>1, <3>4 DEF Boot, process, Accounted, Asking, Waiting, Settled, QuickSettled
    <3>5. CASE ~(Concerns(g) \/ Matches(g))
      <4>1. cmd.kind = "quick" => Home[g] # Quick
        BY <3>5, Kinds DEF TypeOK, Concerns
      <4> QED
        BY <2>1, <3>2, <3>3, <3>5, <4>1
           DEF Boot, process, request, Accounted, Asking, Waiting, Settled, QuickSettled
    <3> QED
      BY <2>1, <3>4, <3>5 DEF Boot
  <2>2. ASSUME NEW g \in Guests, PowerOff(g)
        PROVE  Accounted'
    <3>1. \A h \in Guests : Safe(h) => Safe(h)'
      BY <2>2 DEF PowerOff, TypeOK, Safe, Running, Excused, report
    <3>2. \A h \in Guests : Matches(h)' = Matches(h)
      BY <2>2 DEF PowerOff, Matches, process
    <3> QED
      BY <2>2, <3>1, <3>2
         DEF PowerOff, process, request, Accounted, Asking, Waiting, Settled, QuickSettled
  <2>3. ASSUME NEW c \in Commands, Start(c)
        PROVE  Accounted'
    <3>1. \A i \in 1 .. Len(QuickNames) : ~(i < 1)
      BY QuickAssumption
    <3> QED
      BY <2>3, <3>1 DEF Start, Accounted, Asking, Waiting, Settled, QuickSettled
  <2>4. ASSUME NEW seen \in SUBSET Guests, NEW known \in SUBSET Guests, List(seen, known)
        PROVE  Accounted'
    <3>1. guest' = guest /\ named' = named /\ unseen \subseteq unseen' /\ pc = "list"
      BY <2>4 DEF List, world
    <3>2. \A g \in Guests : Matches(g) /\ g \notin Listed(seen, known) => Safe(g)'
      BY <2>4 DEF List, Listed, Sought, Safe, Running, Excused, world
    <3>3. CASE Listed(seen, known) # {} /\ ~cmd.dry /\ pc' = "ask" /\ UNCHANGED <<cmd, index, todo>>
      <4>1. ask' = Listed(seen, known)
        BY <2>4 DEF List
      <4>2. \A g \in Guests : Matches(g)' = Matches(g)
        BY <3>3 DEF Matches
      <4>3. \A g \in Guests : Safe(g) => Safe(g)'
        BY <3>1, StillSafe
      <4> QED
        BY <3>1, <3>2, <3>3, <4>1, <4>2, <4>3 DEF Accounted, Asking, Waiting, Settled, QuickSettled
    <3>4. CASE Listed(seen, known) # {} /\ cmd.dry /\ Return
      BY <3>1, <3>4, ReturnLemma
    <3>5. CASE Listed(seen, known) = {} /\ Return
      BY <3>1, <3>2, <3>5, ReturnLemma
    <3>6. CASE Listed(seen, known) = {} /\ Exit
      BY <3>1, <3>2, <3>6, ExitLemma
    <3> QED
      BY <2>4, <3>3, <3>4, <3>5, <3>6 DEF List
  <2>5. CASE ListFails
    <3>1. guest' = guest /\ named \subseteq named' /\ unseen' = unseen /\ pc = "list" /\ Exit
      BY <2>5 DEF ListFails, world
    <3>2. cmd.kind = "quick" => \A g \in Guests : Matches(g) => Safe(g)'
      BY <2>5 DEF ListFails, Safe, Excused
    <3> QED
      BY <3>1, <3>2, ExitLemma
  <2>6. ASSUME NEW g \in Guests, NEW taken \in BOOLEAN, NEW ok \in BOOLEAN, Ask(g, taken, ok)
        PROVE  Accounted'
    <3>1. \A h \in Guests : Safe(h) => Safe(h)'
      BY <2>6 DEF Ask, TypeOK, Safe, Running, Excused
    <3>2. \A h \in Guests : Matches(h)' = Matches(h)
      BY <2>6 DEF Ask, Matches, process
    <3>3. Safe(g)' \/ g \in asked'
      BY <2>6 DEF Ask, Safe, Excused
    <3>4. \A h \in Guests : h \in ask \/ h \in asked => h = g \/ h \in ask' \/ h \in asked'
      BY <2>6 DEF Ask
    <3>5. pc = "ask" /\ pc' = "ask" /\ cmd' = cmd /\ index' = index
      BY <2>6 DEF Ask, process
    <3>6. Asking'
      BY <3>1, <3>2, <3>3, <3>4, <3>5 DEF Accounted, Asking
    <3>7. QuickSettled'
      BY <3>1, <3>5 DEF Accounted, QuickSettled
    <3> QED
      BY <3>5, <3>6, <3>7 DEF Accounted, Waiting, Settled
  <2>7. CASE Asked
    <3>1. guest' = guest /\ named' = named /\ unseen' = unseen /\ asked' = asked /\ pc = "ask"
      BY <2>7 DEF Asked, world, request, report
    <3>2. \A g \in Guests : Safe(g)' = Safe(g)
      BY <3>1 DEF Safe, Running, Excused
    <3>3. CASE asked = {} /\ Exit
      <4>1. \A g \in Guests : Matches(g) => Safe(g)'
        BY <2>7, <3>1, <3>2, <3>3 DEF Asked, Accounted, Asking
      <4> QED
        BY <3>1, <3>3, <4>1, ExitLemma
    <3>4. CASE pc' = "wait" /\ UNCHANGED <<cmd, index, todo>>
      <4>1. \A g \in Guests : Matches(g)' = Matches(g)
        BY <3>4 DEF Matches
      <4>2. Waiting'
        BY <2>7, <3>1, <3>2, <3>4, <4>1 DEF Asked, Accounted, Asking, Waiting
      <4> QED
        BY <3>1, <3>2, <3>4, <4>2 DEF Accounted, Asking, Settled, QuickSettled
    <3> QED
      BY <2>7, <3>3, <3>4 DEF Asked
  <2>8. ASSUME NEW proc \in BOOLEAN, Poll(proc)
        PROVE  Accounted'
    <3>1. guest' = guest /\ named' = named /\ unseen \subseteq unseen' /\ pc = "wait" /\ Return
      BY <2>8 DEF Poll, world
    <3>2. \A g \in Guests : Safe(g) => Safe(g)'
      BY <3>1, StillSafe
    <3>3. \A g \in Guests : g \in asked => Safe(g)'
      BY <2>8, <3>1 DEF Poll, Left, Safe, Running, Excused
    <3>4. \A g \in Guests : Matches(g) => Safe(g)'
      BY <3>1, <3>2, <3>3 DEF Accounted, Waiting
    <3> QED
      BY <3>1, <3>4, ReturnLemma
  <2>9. ASSUME NEW hidden \in SUBSET Guests, TimeOut(hidden)
        PROVE  Accounted'
    <3>1. guest' = guest /\ named \subseteq named' /\ unseen \subseteq unseen' /\ pc = "wait" /\ Return
      BY <2>9 DEF TimeOut, world
    <3>2. \A g \in Guests : Safe(g) => Safe(g)'
      BY <3>1, StillSafe
    <3>3. \A g \in Guests : g \in asked => Safe(g)'
      BY <2>9, <3>1 DEF TimeOut, Left, Safe, Running, Excused
    <3>4. \A g \in Guests : Matches(g) => Safe(g)'
      BY <3>1, <3>2, <3>3 DEF Accounted, Waiting
    <3> QED
      BY <3>1, <3>4, ReturnLemma
  <2>10. ASSUME NEW docker \in BOOLEAN, Discover(docker)
         PROVE  Accounted'
    <3>1. \A g \in Guests : Safe(g)' = Safe(g) /\ Matches(g)' = Matches(g)
      BY <2>10 DEF Discover, world, report, Safe, Running, Excused, Matches
    <3>2. cmd.kind = "stack" => todo' \subseteq {cmd.target}
      BY <2>10 DEF Discover, Found
    <3>3. pc = "discover" /\ cmd' = cmd /\ pc' \in {"idle", "confirm"} /\ (pc' = "confirm" => ~cmd.dry)
      BY <2>10 DEF Discover
    <3> QED
      BY <3>1, <3>2, <3>3 DEF Accounted, Asking, Waiting, Settled, QuickSettled
  <2>11. ASSUME NEW yes \in BOOLEAN, Confirm(yes)
         PROVE  Accounted'
    <3>1. \A g \in Guests : Safe(g)' = Safe(g) /\ Matches(g)' = Matches(g)
      BY <2>11 DEF Confirm, world, Safe, Running, Excused, Matches
    <3>2. pc = "confirm" /\ cmd' = cmd /\ todo' = todo /\ pc' \in {"idle", "teardown"}
      BY <2>11 DEF Confirm
    <3> QED
      BY <3>1, <3>2 DEF Accounted, Asking, Waiting, Settled, QuickSettled
  <2>12. ASSUME NEW s \in Stacks, NEW S \in SUBSET Guests, NEW ok \in BOOLEAN, Teardown(s, S, ok)
         PROVE  Accounted'
    <3>1. \A g \in Guests : Safe(g) => Safe(g)'
      BY <2>12 DEF Teardown, report, Safe, Running, Excused
    <3>2. \A g \in Guests : Matches(g)' = Matches(g)
      BY <2>12 DEF Teardown, Matches
    <3>3. /\ pc = "teardown" /\ pc' \in {"idle", "teardown"} /\ cmd' = cmd /\ index' = index
          /\ todo' \subseteq todo
      BY <2>12 DEF Teardown
    <3> QED
      BY <3>1, <3>2, <3>3 DEF Accounted, Asking, Waiting, Settled, QuickSettled
  <2>13. CASE Interrupt
    BY <2>13 DEF Interrupt, Accounted, Asking, Waiting, Settled, QuickSettled
  <2>14. CASE UNCHANGED vars
    BY <2>14 DEF vars, world, request, report, process, Accounted, Asking, Waiting, Settled,
                 QuickSettled, Safe, Running, Excused, Matches
  <2> QED
    BY <2>1, <2>2, <2>3, <2>4, <2>5, <2>6, <2>7, <2>8, <2>9, <2>10, <2>11, <2>12, <2>13, <2>14, Steps
<1>3. Spec => []TypeOK
  BY TypeCorrect
<1> QED
  BY <1>1, <1>2, <1>3, PTL DEF Spec

-----------------------------------------------------------------------------
(* The refinement: each step is a step of CleanStop or a stutter of it.    *)

LEMMA Reported ==
  ASSUME TypeOK, TypeOK', guest' = guest, named \subseteq named', unseen \subseteq unseen'
  PROVE  Promise!Next
<1>1. Excused \subseteq Excused' /\ Excused' \in SUBSET Guests
  BY DEF TypeOK, Excused
<1>2. Promise!Tell(Excused')
  BY <1>1 DEF Promise!Tell
<1> QED
  BY <1>1, <1>2 DEF Promise!Next

(* Every `down` stops guests the way CleanStop promises. *)
THEOREM StopsCleanly == Spec => StopsClean
<1>1. Init => Promise!Init
  BY DEF Init, Promise!Init, Excused
<1>2. /\ TypeOK /\ TypeOK' /\ Accounted /\ [Next]_vars
      => [Promise!Next]_(Promise!vars)
  <2> SUFFICES ASSUME TypeOK, TypeOK', Accounted, [Next]_vars, ~UNCHANGED Promise!vars
               PROVE  Promise!Next
    OBVIOUS
  <2>1. ASSUME NEW g \in Guests, Boot(g)
        PROVE  Promise!Next
    <3>1. Promise!Boot(g)
      BY <2>1 DEF Boot, Running, Excused, report, Promise!Boot, Promise!Running
    <3> QED
      BY <3>1 DEF Promise!Next
  <2>2. ASSUME NEW g \in Guests, PowerOff(g)
        PROVE  Promise!Next
    <3>1. Promise!PowerOff(g)
      BY <2>2 DEF PowerOff, Running, Excused, report, Promise!PowerOff, Promise!Running
    <3> QED
      BY <3>1 DEF Promise!Next
  <2>3. ASSUME NEW c \in Commands, Start(c)
        PROVE  Promise!Next
    <3>1. Promise!Begin
      BY <2>3 DEF Start, world, Excused, Promise!Begin
    <3> QED
      BY <3>1 DEF Promise!Next
  <2>4. ASSUME \/ \E seen, known \in SUBSET Guests : List(seen, known)
               \/ \E docker \in BOOLEAN : Discover(docker)
        PROVE  Promise!Next
    <3>1. guest' = guest /\ named \subseteq named' /\ unseen \subseteq unseen'
      <4>1. CASE \E seen, known \in SUBSET Guests : List(seen, known)
        <5>1. guest' = guest /\ named' = named
          BY <4>1 DEF List, world
        <5>2. unseen \subseteq unseen'
          BY <4>1 DEF List
        <5> QED
          BY <5>1, <5>2
      <4>2. CASE \E docker \in BOOLEAN : Discover(docker)
        BY <4>2 DEF Discover, world, report
      <4> QED
        BY <2>4, <4>1, <4>2
    <3> QED
      BY <3>1, Reported
  <2>5. CASE ListFails
    BY <2>5, Reported DEF ListFails, world
  <2>6. ASSUME NEW g \in Guests, NEW taken \in BOOLEAN, NEW ok \in BOOLEAN, Ask(g, taken, ok)
        PROVE  Promise!Next
    <3>1. named \subseteq named' /\ unseen' = unseen
      BY <2>6 DEF Ask
    <3>2. CASE guest' = guest
      BY <3>1, <3>2, Reported
    <3>3. CASE guest' # guest
      <4>1. taken /\ guest' = [guest EXCEPT ![g] = "stopping"] /\ guest[g] = "on"
        <5>1. taken /\ guest' = [guest EXCEPT ![g] = "stopping"]
          BY <2>6, <3>3 DEF Ask
        <5>2. guest[g] \in {"on", "stopping"}
          BY <2>6, <5>1 DEF Ask, Running
        <5>3. guest[g] # "stopping"
          BY <3>3, <5>1 DEF TypeOK
        <5> QED
          BY <5>1, <5>2, <5>3
      <4>2. CASE ok
        <5>1. Promise!Ask(g)
          BY <2>6, <4>1, <4>2 DEF Ask, Excused, Promise!Ask
        <5> QED
          BY <5>1 DEF Promise!Next
      <4>3. CASE ~ok
        <5>1. Excused' = Excused \union {g}
          BY <2>6, <4>3 DEF Ask, Excused
        <5>2. Promise!AskAndTell(g)
          BY <4>1, <5>1 DEF Promise!AskAndTell
        <5> QED
          BY <5>2 DEF Promise!Next
      <4> QED
        BY <4>2, <4>3
    <3> QED
      BY <3>2, <3>3
  <2>7. CASE Asked
    BY <2>7, Reported DEF Asked, world, report
  <2>8. ASSUME \/ \E proc \in BOOLEAN : Poll(proc)
               \/ \E hidden \in SUBSET Guests : TimeOut(hidden)
        PROVE  Promise!Next
    BY <2>8, Reported DEF Poll, TimeOut, world
  <2>9. ASSUME NEW yes \in BOOLEAN, Confirm(yes)
        PROVE  Promise!Next
    BY <2>9, Reported DEF Confirm, world
  <2>10. ASSUME NEW s \in Stacks, NEW S \in SUBSET Guests, NEW ok \in BOOLEAN, Teardown(s, S, ok)
         PROVE  Promise!Next
    <3>1. \A g \in S : g \in Guests /\ g \in Running /\ Home[g] = s
      BY <2>10 DEF Teardown
    <3>2. \A g \in S : g \in Excused
      <4>1. pc = "teardown" /\ s \in todo
        BY <2>10 DEF Teardown
      <4>2. CASE cmd.kind = "quick"
        BY <3>1, <4>1, <4>2 DEF Accounted, QuickSettled, Safe
      <4>3. CASE cmd.kind # "quick"
        <5>1. \A g \in S : Matches(g)
          BY <3>1, <4>1, <4>3 DEF Accounted, Settled, Matches
        <5> QED
          BY <3>1, <4>1, <4>3, <5>1 DEF Accounted, Settled, Safe
      <4> QED
        BY <4>2, <4>3
    <3>3. Promise!Cut(S)
      BY <2>10, <3>1, <3>2 DEF Teardown, Running, report, Excused, Promise!Cut, Promise!Running
    <3> QED
      BY <3>3 DEF Promise!Next
  <2>11. CASE Interrupt
    BY <2>11, Reported DEF Interrupt, world, report
  <2>12. CASE UNCHANGED vars
    BY <2>12 DEF vars, world, report, Excused, Promise!vars
  <2> QED
    BY <2>1, <2>2, <2>3, <2>4, <2>5, <2>6, <2>7, <2>8, <2>9, <2>10, <2>11, <2>12, Steps
<1>3. Spec => [](TypeOK /\ Accounted)
  BY AccountKept
<1> QED
  BY <1>1, <1>2, <1>3, PTL DEF Spec, StopsClean, Promise!Spec

-----------------------------------------------------------------------------
(* Two stacks with one name prefix have quick-start down ask the guests of  *)
(* both. Where the names are quick-start's own, a command asks only guests  *)
(* it is about, and what it has decided to tear down is what it may.        *)
OwnNames ==
  \A g \in Guests : \A i \in 1 .. Len(QuickNames) : Name[g] = QuickNames[i] => Home[g] = Quick

Aimed ==
  /\ pc # "idle" => \A g \in ask \union asked : Concerns(g)
  /\ pc \in {"ask", "wait", "confirm", "teardown"} => ~cmd.dry
  /\ pc \in {"ask", "wait"} => said = "none"
  /\ pc \in {"discover", "confirm"} => cmd.kind \in {"stack", "all"}
  /\ pc = "teardown" => cmd.kind \in {"stack", "all", "quick"}
  /\ pc \in {"confirm", "teardown"} =>
       todo \subseteq (IF cmd.kind = "all" THEN Mine ELSE {cmd.target})

LEMMA MatchesConcerns ==
  ASSUME OwnNames, TypeOK, NEW g \in Guests, Matches(g)
  PROVE  Concerns(g)
<1>1. cmd.kind = "quick" => cmd.target = Quick
  BY Kinds DEF TypeOK
<1>2. index \in 1 .. Len(QuickNames)
  BY DEF TypeOK
<1> QED
  BY <1>1, <1>2 DEF OwnNames, Matches, Concerns

(* Both ways a shutdown.run ends keep what is asked, and the aim.           *)
LEMMA GoingOn ==
  ASSUME TypeOK, Aimed, pc # "idle", pc # "discover", pc # "confirm", pc # "teardown",
         Return \/ Exit, \A g \in ask' \union asked' : Concerns(g)
  PROVE  Aimed'
<1>1. cmd' = cmd /\ cmd \in Commands
  BY DEF TypeOK, Return, Exit
<1>2. \A g \in Guests : Concerns(g) => (cmd.kind # "vm" /\ cmd.kind # "quick" => Concerns(g)')
  BY <1>1 DEF Concerns, Matches
<1>3. ASSUME NEW g \in ask' \union asked', pc' # "idle"
      PROVE  Concerns(g)'
  <2>1. Concerns(g)
    OBVIOUS
  <2> QED
    BY <1>1, <1>3, <2>1, Kinds DEF Concerns, Matches, Return, Exit
<1>4. cmd.kind = "quick" => ~cmd.dry /\ cmd.target = Quick
  BY <1>1, Kinds
<1>5. pc' \in {"idle", "list", "discover", "teardown"}
  BY DEF Return, Exit, NextName
<1>6. /\ pc' = "discover" => cmd.kind \in {"stack", "all"}
      /\ pc' = "teardown" => cmd.kind = "quick" /\ todo' = {Quick}
  BY DEF Return, Exit, NextName
<1> QED
  BY <1>1, <1>3, <1>4, <1>5, <1>6 DEF Aimed

LEMMA AimKept == ASSUME OwnNames PROVE Spec => [](TypeOK /\ Aimed)
<1>1. Init => Aimed
  BY DEF Init, Aimed
<1>2. TypeOK /\ Aimed /\ [Next]_vars => Aimed'
  <2> SUFFICES ASSUME TypeOK, Aimed, [Next]_vars
               PROVE  Aimed'
    OBVIOUS
  <2>u. ASSUME UNCHANGED <<cmd, pc, index, todo, ask, asked, said>>
        PROVE  Aimed'
    BY <2>u DEF Aimed, Concerns, Matches
  <2>1. ASSUME NEW g \in Guests, Boot(g) \/ PowerOff(g)
        PROVE  Aimed'
    BY <2>1, <2>u DEF Boot, PowerOff, request, report, process
  <2>2. ASSUME NEW c \in Commands, Start(c)
        PROVE  Aimed'
    BY <2>2 DEF Start, Aimed
  <2>3. ASSUME NEW seen \in SUBSET Guests, NEW known \in SUBSET Guests, List(seen, known)
        PROVE  Aimed'
    <3>1. pc = "list" /\ ask' = Listed(seen, known) /\ asked' = {} /\ said' = "none"
      BY <2>3 DEF List
    <3>2. \A g \in ask' \union asked' : g \in Guests /\ Concerns(g)
      BY <2>3, <3>1, MatchesConcerns DEF List, Listed, Sought, Running
    <3>3. CASE Return \/ Exit
      BY <3>1, <3>2, <3>3, GoingOn
    <3>4. CASE ~cmd.dry /\ pc' = "ask" /\ UNCHANGED <<cmd, index, todo>>
      BY <3>1, <3>2, <3>4 DEF Aimed, Concerns, Matches
    <3> QED
      BY <2>3, <3>3, <3>4 DEF List
  <2>4. CASE ListFails
    BY <2>4, GoingOn DEF ListFails
  <2>5. ASSUME NEW g \in Guests, NEW taken \in BOOLEAN, NEW ok \in BOOLEAN, Ask(g, taken, ok)
        PROVE  Aimed'
    BY <2>5 DEF Ask, process, Aimed, Concerns, Matches
  <2>6. CASE Asked
    <3>1. pc = "ask" /\ ask = {} /\ UNCHANGED <<ask, asked, said>>
      BY <2>6 DEF Asked, request, report
    <3>2. CASE Exit
      BY <3>1, <3>2, GoingOn DEF Aimed
    <3>3. CASE pc' = "wait" /\ UNCHANGED <<cmd, index, todo>>
      BY <3>1, <3>3 DEF Aimed, Concerns, Matches
    <3> QED
      BY <2>6, <3>2, <3>3 DEF Asked
  <2>7. ASSUME \/ \E proc \in BOOLEAN : Poll(proc)
               \/ \E hidden \in SUBSET Guests : TimeOut(hidden)
        PROVE  Aimed'
    <3>1. pc = "wait" /\ UNCHANGED <<ask, asked>> /\ Return
      BY <2>7 DEF Poll, TimeOut, request
    <3> QED
      BY <3>1, GoingOn DEF Aimed
  <2>8. ASSUME NEW docker \in BOOLEAN, Discover(docker)
        PROVE  Aimed'
    <3>1. /\ pc = "discover" /\ pc' \in {"idle", "confirm"} /\ todo' = Found(docker)
          /\ UNCHANGED <<cmd, index, ask, asked, said>>
          /\ pc' = "confirm" => ~cmd.dry
      BY <2>8 DEF Discover, request, report
    <3>2. cmd.kind \in {"stack", "all"}
      BY <3>1 DEF Aimed
    <3>3. todo' \subseteq (IF cmd.kind = "all" THEN Mine ELSE {cmd.target})
      BY <3>1, <3>2 DEF Found
    <3> QED
      BY <3>1, <3>2, <3>3 DEF Aimed, Concerns, Matches
  <2>9. ASSUME NEW yes \in BOOLEAN, Confirm(yes)
        PROVE  Aimed'
    BY <2>9 DEF Confirm, request, Aimed, Concerns, Matches
  <2>10. ASSUME NEW s \in Stacks, NEW S \in SUBSET Guests, NEW ok \in BOOLEAN, Teardown(s, S, ok)
         PROVE  Aimed'
    BY <2>10 DEF Teardown, request, report, Aimed, Concerns, Matches
  <2>11. CASE Interrupt
    BY <2>11 DEF Interrupt, Aimed
  <2>12. CASE UNCHANGED vars
    BY <2>12, <2>u DEF vars, request, report, process
  <2> QED
    BY <2>1, <2>2, <2>3, <2>4, <2>5, <2>6, <2>7, <2>8, <2>9, <2>10, <2>11, <2>12, Steps
<1> QED
  BY <1>1, <1>2, TypeCorrect, PTL DEF Spec

(* Whatever fails, a command asks only guests it is about, and cuts only   *)
(* those of the stack it names or of the caller's own.                     *)
THEOREM Targeted == ASSUME OwnNames PROVE Spec => OnlyTargets
<1> DEFINE Kept == \A g \in Guests : guest'[g] # guest[g] =>
                      /\ guest'[g] = "stopping" => ~cmd.dry /\ Concerns(g)
                      /\ guest'[g] = "cut" => MayCut(g)
<1>1. TypeOK /\ Aimed /\ [Next]_vars => [Kept]_vars
  <2> SUFFICES ASSUME TypeOK, Aimed, [Next]_vars, NEW g \in Guests, guest'[g] # guest[g]
               PROVE  /\ guest'[g] = "stopping" => ~cmd.dry /\ Concerns(g)
                      /\ guest'[g] = "cut" => MayCut(g)
    OBVIOUS
  <2>1. ASSUME NEW h \in Guests, Boot(h) \/ PowerOff(h)
        PROVE  guest'[g] \in {"on", "off"}
    BY <2>1 DEF Boot, PowerOff, TypeOK
  <2>2. ASSUME NEW h \in Guests, NEW taken \in BOOLEAN, NEW ok \in BOOLEAN, Ask(h, taken, ok)
        PROVE  guest'[g] = "stopping" /\ ~cmd.dry /\ Concerns(g)
    <3>1. pc = "ask" /\ h \in ask /\ g = h /\ taken
      BY <2>2 DEF Ask, TypeOK
    <3> QED
      BY <2>2, <3>1 DEF Ask, TypeOK, Aimed
  <2>3. ASSUME NEW s \in Stacks, NEW S \in SUBSET Guests, NEW ok \in BOOLEAN, Teardown(s, S, ok)
        PROVE  guest'[g] = "cut" /\ MayCut(g)
    <3>1. pc = "teardown" /\ s \in todo /\ g \in S /\ Home[g] = s /\ guest'[g] = "cut"
      BY <2>3 DEF Teardown, Running
    <3>2. ~cmd.dry /\ cmd.kind \in {"stack", "all", "quick"}
      BY <3>1 DEF Aimed
    <3>3. todo \subseteq (IF cmd.kind = "all" THEN Mine ELSE {cmd.target})
      BY <3>1 DEF Aimed
    <3> QED
      BY <3>1, <3>2, <3>3 DEF MayCut
  <2>4. CASE UNCHANGED guest
    BY <2>4
  <2> QED
    BY <2>1, <2>2, <2>3, <2>4, Steps
       DEF Start, List, ListFails, Asked, Poll, TimeOut, Discover,
           Confirm, Interrupt, vars, world
<1> QED
  BY <1>1, AimKept, PTL DEF Spec, OnlyTargets

(* "All guest(s) powered off" is true when it is said, and stays true for  *)
(* the rest of the command.                                                *)
THEOREM PoweredOff == ASSUME OwnNames PROVE Spec => []PoweredOffIsTrue
<1>1. Init => PoweredOffIsTrue
  BY DEF Init, PoweredOffIsTrue
<1>2. TypeOK /\ Aimed /\ PoweredOffIsTrue /\ [Next]_vars => PoweredOffIsTrue'
  <2> SUFFICES ASSUME TypeOK, Aimed, PoweredOffIsTrue, [Next]_vars,
                      pc' # "idle", said' = "off"
               PROVE  asked' \intersect Running' \subseteq unseen'
    BY DEF PoweredOffIsTrue
  <2>1. ASSUME pc # "idle", said = "off", asked' = asked, unseen \subseteq unseen',
               \A g \in asked : g \in Running' => g \in Running
        PROVE  asked' \intersect Running' \subseteq unseen'
    BY <2>1 DEF PoweredOffIsTrue
  <2>2. ASSUME NEW g \in Guests, Boot(g)
        PROVE  asked' \intersect Running' \subseteq unseen'
    <3>1. pc # "idle" /\ g \notin asked
      BY <2>2 DEF Boot, process, Aimed
    <3>2. \A h \in Guests : h # g => guest'[h] = guest[h]
      BY <2>2 DEF Boot, TypeOK
    <3> QED
      BY <2>1, <2>2, <3>1, <3>2 DEF Boot, request, report, process, Running
  <2>3. ASSUME NEW g \in Guests, PowerOff(g)
        PROVE  asked' \intersect Running' \subseteq unseen'
    <3>1. \A h \in Guests : h \in Running' => h \in Running
      BY <2>3 DEF PowerOff, TypeOK, Running
    <3> QED
      BY <2>1, <2>3, <3>1 DEF PowerOff, request, report, process, TypeOK
  <2>4. ASSUME NEW proc \in BOOLEAN, Poll(proc)
        PROVE  asked' \intersect Running' \subseteq unseen'
    <3>1. Left \subseteq unseen' /\ guest' = guest /\ asked' = asked
      BY <2>4 DEF Poll, world, request
    <3> QED
      BY <3>1 DEF Left, Running
  <2>5. ASSUME NEW s \in Stacks, NEW S \in SUBSET Guests, NEW ok \in BOOLEAN, Teardown(s, S, ok)
        PROVE  asked' \intersect Running' \subseteq unseen'
    <3>1. \A h \in Guests : h \in Running' => h \in Running
      BY <2>5 DEF Teardown, Running
    <3> QED
      BY <2>1, <2>5, <3>1 DEF Teardown, request, report, TypeOK
  <2>6. ASSUME NEW yes \in BOOLEAN, Confirm(yes)
        PROVE  asked' \intersect Running' \subseteq unseen'
    BY <2>1, <2>6 DEF Confirm, world, request, Running
  <2>7. ASSUME NEW docker \in BOOLEAN, Discover(docker)
        PROVE  asked' \intersect Running' \subseteq unseen'
    BY <2>1, <2>7 DEF Discover, world, request, report, Running
  <2>8. CASE UNCHANGED vars
    BY <2>1, <2>8 DEF vars, world, request, report, process, Running
  <2>9. ASSUME \/ \E c \in Commands : Start(c)
               \/ \E seen, known \in SUBSET Guests : List(seen, known)
               \/ ListFails
               \/ \E hidden \in SUBSET Guests : TimeOut(hidden)
               \/ \E g \in Guests, taken, ok \in BOOLEAN : Ask(g, taken, ok)
               \/ Asked \/ Interrupt
        PROVE  FALSE
    BY <2>9 DEF Start, List, ListFails, TimeOut, Ask, Asked, Interrupt, report, Aimed
  <2> QED
    BY <2>2, <2>3, <2>4, <2>5, <2>6, <2>7, <2>8, <2>9, Steps
<1> QED
  BY <1>1, <1>2, AimKept, PTL DEF Spec
=============================================================================
