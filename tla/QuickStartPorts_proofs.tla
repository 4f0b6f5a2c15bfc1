----------------------- MODULE QuickStartPorts_proofs -----------------------
(***************************************************************************)
(* What quick-start tells its verbs of the ports, for any number of guests *)
(* and of verbs, any ports, and any length of the scan.                    *)
(***************************************************************************)
EXTENDS QuickStartPorts, WellFoundedInduction, TLAPS

(* A nonempty set of ports has a smallest one.                             *)
LEMMA MinIsLeast ==
  ASSUME NEW S, S \subseteq Nat, S # {}
  PROVE  Min(S) \in S /\ \A y \in S : Min(S) <= y
<1> DEFINE R == {ss \in Nat \X Nat : ss[1] < ss[2]}
<1>1. IsWellFoundedOn(R, Nat)
  BY NatLessThanWellFounded DEF OpToRel
<1>2. PICK x \in S : \A y \in S : <<y, x>> \notin R
  <2> HIDE DEF R
  <2> QED BY <1>1, WFMin
<1>3. ASSUME NEW y \in S PROVE x <= y
  <2>1. x \in Nat /\ y \in Nat /\ <<y, x>> \in Nat \X Nat
    OBVIOUS
  <2>2. y < x => <<y, x>> \in R
    BY <2>1
  <2> QED
    BY <1>2, <2>1, <2>2
<1> QED
  BY <1>3 DEF Min

(* _next_free_port answers with a port of its scan.                        *)
LEMMA ScanMovesOn ==
  ASSUME NEW start \in Nat
  PROVE  NextFreePort(start) \in Nat /\ NextFreePort(start) >= start
<1> DEFINE free == {q \in start .. (start + Scan - 1) : PortFree(q)}
<1>1. free \subseteq Nat
  BY ScanAssumption
<1>2. CASE free = {}
  BY <1>2 DEF NextFreePort
<1>3. CASE free # {}
  <2>1. Min(free) \in free
    BY <1>1, <1>3, MinIsLeast
  <2>2. Min(free) \in Nat /\ Min(free) >= start
    BY <2>1, ScanAssumption
  <2> QED
    BY <1>3, <2>2 DEF NextFreePort
<1> QED
  BY <1>2, <1>3

LEMMA Sorts ==
  /\ Ssh \in Keys
  /\ NoPorts \in [Keys -> Nat]
  /\ \A k \in Keys : NoPorts[k] = 0
BY DEF Keys, Ssh, NoPorts, Absent

(* A value is a port, and the guests' next range lies above the present.   *)
LEMMA ValueIsPort ==
  ASSUME layer \in [Keys -> Nat], NEW k \in Keys
  PROVE  Value(k) \in Nat \ {0}
BY DefaultAssumption DEF Value, Absent

LEMMA NextRange ==
  ASSUME layer \in [Keys -> Nat]
  PROVE  /\ NextFreePort(Value(Ssh) + VMs) \in Nat \ {0}
         /\ NextFreePort(Value(Ssh) + VMs) >= Value(Ssh) + VMs
<1>1. Value(Ssh) \in Nat \ {0} /\ Value(Ssh) + VMs \in Nat \ {0}
  BY ValueIsPort, Sorts, VMsAssumption
<1> QED
  BY <1>1, ScanMovesOn

(* Every variable keeps its type; a scan that finds nothing still answers  *)
(* with a port.                                                            *)
THEOREM TypeCorrect == Spec => []TypeOK
<1> USE Sorts, BoundAssumption, FlagsAssumption
<1>1. Init => TypeOK
  <2> SUFFICES ASSUME Init PROVE TypeOK
    OBVIOUS
  <2>1. verbs \in 0..MaxVerbs /\ attempt \in 0..2 /\ tried \in Nat /\ taken \subseteq Foreign
    BY DEF Init, Absent
  <2>2. kept \in BOOLEAN /\ metrics \in BOOLEAN /\ inNetwork \in BOOLEAN /\ verb \in Verbs
    BY DEF Init, Verbs
  <2>3. pc = "idle" /\ layer = NoPorts /\ yaml = NoPorts /\ stack = NoPorts /\ stuck = NoPorts
    BY DEF Init
  <2> QED
    BY <2>1, <2>2, <2>3 DEF TypeOK
<1>2. TypeOK /\ [Next]_vars => TypeOK'
  <2> SUFFICES ASSUME TypeOK, [Next]_vars
               PROVE  TypeOK'
    OBVIOUS
  <2> USE DEF TypeOK, files, docker, flags
  <2>1. ASSUME NEW v \in Verbs, NEW m \in MetricsFlags, NEW n \in NetworkFlags, Start(v, m, n)
        PROVE  TypeOK'
    <3>1. pc' \in {"resolve", "wait", "down"}
      BY <2>1 DEF Start, Verbs
    <3>2. m \in BOOLEAN /\ n \in BOOLEAN
      OBVIOUS
    <3>3. attempt' \in 0..2 /\ tried' \in Nat /\ verbs' \in 0..MaxVerbs
      BY <2>1 DEF Start, Absent
    <3> QED
      BY <2>1, <3>1, <3>2, <3>3 DEF Start
  <2>2. CASE Resolve
    <3>1. \A k \in Keys : /\ Value(k) \in Nat
                          /\ NextFreePort(Value(k) + 1) \in Nat
      BY ValueIsPort, ScanMovesOn
    <3>2. layer' \in [Keys -> Nat]
      BY <2>2, <3>1, NextRange DEF Resolve, Absent
    <3> QED
      BY <2>2, <3>2 DEF Resolve
  <2>3. CASE Confirm
    BY <2>3 DEF Confirm
  <2>4. CASE Generate
    BY <2>4, ValueIsPort DEF Generate, Values
  <2>5. CASE UpCheck
    <3>1. layer' \in [Keys -> Nat]
      <4>1. CASE layer' = layer
        BY <4>1
      <4>2. CASE layer' # layer
        <5>1. layer' = [k \in Keys |-> CASE k = Ssh -> NextFreePort(Value(Ssh) + VMs)
                                         [] k # Ssh /\ metrics  -> Value(k)
                                         [] k # Ssh /\ ~metrics -> Absent]
          BY <2>5, <4>2 DEF UpCheck
        <5> QED
          BY <5>1, NextRange, ValueIsPort DEF Absent
      <4> QED
        BY <4>1, <4>2
    <3>2. pc' \in {"regenerate", "compose"}
      BY <2>5 DEF UpCheck
    <3> QED
      BY <2>5, <3>1, <3>2 DEF UpCheck, RemoveStuck
  <2>6. CASE GrafanaHeld
    BY <2>6 DEF GrafanaHeld, RemoveStuck
  <2>7. CASE ComposeUp
    BY <2>7 DEF ComposeUp, Wanted
  <2>8. CASE ComposeFails
    BY <2>8 DEF ComposeFails, Wanted
  <2>9. CASE Retry
    BY <2>9 DEF Retry, ComposeDown
  <2>10. CASE Healthy
    BY <2>10 DEF Healthy
  <2>11. CASE WaitForGuests \/ Down \/ Killed \/ Elsewhere
    BY <2>11 DEF WaitForGuests, Down, ComposeDown, Killed, Elsewhere
  <2>12. CASE UNCHANGED vars
    BY <2>12 DEF vars
  <2> QED
    BY <2>1, <2>2, <2>3, <2>4, <2>5, <2>6, <2>7, <2>8, <2>9, <2>10, <2>11, <2>12
    DEF Next, Verb
<1> QED
  BY <1>1, <1>2, PTL DEF Spec

-----------------------------------------------------------------------------
(* What each step of `up` leaves for the next: from the moment the stack   *)
(* is generated, env.ports and the YAML say the same but between a remap   *)
(* and the regeneration it is followed by, a try starts without containers *)
(* of an earlier one unless it could not remove them, and the second try   *)
(* starts from the ports the first one failed with and ends past all of    *)
(* them.                                                                   *)
InStep ==
  /\ pc \in {"resolve", "confirm", "generate"} => attempt = 1
  /\ pc \in {"check", "compose", "retry", "health"} => yaml = Values
  /\ pc \in {"regenerate", "compose"} => stuck = NoPorts \/ kept
  /\ pc = "check" /\ attempt = 2 => tried = Value(Ssh)
  /\ pc \in {"regenerate", "compose"} /\ attempt = 2 /\ ~inNetwork =>
       tried + VMs <= Value(Ssh)
  /\ UpAgreesWithItself

LEMMA StepsFollow == Spec => [](TypeOK /\ InStep)
<1> USE Sorts
<1>1. Init => InStep
  BY DEF Init, InStep, UpAgreesWithItself
<1>2. TypeOK /\ InStep /\ [Next]_vars => InStep'
  <2> SUFFICES ASSUME TypeOK, InStep, [Next]_vars
               PROVE  InStep'
    OBVIOUS
  <2> USE DEF InStep, UpAgreesWithItself, files, docker, flags
  <2>s. ASSUME UNCHANGED layer PROVE Values' = Values /\ \A k \in Keys : Value(k)' = Value(k)
    BY <2>s DEF Values, Value
  <2>1. ASSUME NEW v \in Verbs, NEW m \in MetricsFlags, NEW n \in NetworkFlags, Start(v, m, n)
        PROVE  InStep'
    BY <2>1 DEF Start, Verbs
  <2>2. CASE Resolve \/ Confirm
    BY <2>2 DEF Resolve, Confirm
  <2>3. CASE Generate
    BY <2>3, <2>s DEF Generate
  <2>4. CASE UpCheck
    <3>1. /\ pc = "check"
          /\ stuck' = NoPorts \/ kept'
          /\ UNCHANGED <<yaml, flags, attempt, tried>>
      BY <2>4 DEF UpCheck, RemoveStuck
    <3>2. CASE ~(~inNetwork /\ (GuestPortsTaken(Value(Ssh)) # {} \/ attempt = 2))
      <4>1. UNCHANGED layer /\ pc' = "compose"
        BY <2>4, <3>2 DEF UpCheck
      <4> QED
        BY <3>1, <3>2, <4>1, <2>s
    <3>3. CASE ~inNetwork /\ (GuestPortsTaken(Value(Ssh)) # {} \/ attempt = 2)
      <4>1. pc' = "regenerate"
        BY <2>4, <3>3 DEF UpCheck
      <4>2. layer'[Ssh] = NextFreePort(Value(Ssh) + VMs)
        BY <2>4, <3>3 DEF UpCheck
      <4>3. layer'[Ssh] # 0 /\ layer'[Ssh] >= Value(Ssh) + VMs
        BY <4>2, NextRange DEF TypeOK
      <4>4. Value(Ssh)' >= Value(Ssh) + VMs
        BY <4>3 DEF Value, Absent
      <4> QED
        BY <3>1, <4>1, <4>4
    <3> QED
      BY <3>2, <3>3
  <2>5. CASE GrafanaHeld
    BY <2>5 DEF GrafanaHeld, RemoveStuck
  <2>6. CASE ComposeUp
    <3>1. ~kept => \A k \in Keys : (k = Ssh \/ metrics) => stack'[k] = yaml[k]
      BY <2>6 DEF ComposeUp, Wanted
    <3>2. \A k \in Keys : yaml[k] = Value(k)
      BY <2>6 DEF ComposeUp, Values
    <3>3. /\ pc = "compose" /\ pc' = "health"
          /\ UNCHANGED <<layer, yaml, metrics, kept>>
      BY <2>6 DEF ComposeUp
    <3>4. ~kept' => \A k \in Keys : k = Ssh \/ metrics' => stack'[k] = Value(k)'
      BY <2>s, <3>1, <3>2, <3>3
    <3>5. yaml' = Values'
      BY <2>s, <3>3
    <3> QED
      BY <3>3, <3>4, <3>5
  <2>7. CASE ComposeFails
    BY <2>7, <2>s DEF ComposeFails
  <2>8. CASE Retry
    <3>1. yaml[Ssh] = Value(Ssh)
      BY <2>8 DEF Retry, Values
    <3>2. /\ pc = "retry" /\ pc' = "check" /\ tried' = yaml[Ssh]
          /\ UNCHANGED <<layer, yaml>>
      BY <2>8 DEF Retry
    <3>3. tried' = Value(Ssh)' /\ yaml' = Values'
      BY <2>s, <3>1, <3>2
    <3> QED
      BY <3>2, <3>3
  <2>9. CASE Healthy
    BY <2>9, <2>s DEF Healthy
  <2>10. CASE WaitForGuests \/ Down \/ Killed
    BY <2>10 DEF WaitForGuests, Down, ComposeDown, Killed
  <2>11. CASE Elsewhere \/ UNCHANGED vars
    <3>1. UNCHANGED <<layer, yaml, stack, stuck, verb, metrics, inNetwork, pc, attempt, tried, kept>>
      BY <2>11 DEF Elsewhere, vars
    <3>2. UpAgreesWithItself'
      BY <2>s, <3>1
    <3> QED
      BY <2>s, <3>1, <3>2
  <2> QED
    BY <2>1, <2>2, <2>3, <2>4, <2>5, <2>6, <2>7, <2>8, <2>9, <2>10, <2>11
    DEF Next, Verb
<1> QED
  BY <1>1, <1>2, TypeCorrect, PTL DEF Spec

(* Whoever waits for the guests of an `up` waits at the ports its          *)
(* containers publish, remaps and retries included, unless Docker kept     *)
(* containers of an earlier try.                                           *)
THEOREM UpAgrees == Spec => []UpAgreesWithItself
<1>1. InStep => UpAgreesWithItself
  BY DEF InStep
<1> QED
  BY <1>1, StepsFollow, PTL

(* The second try asks for none of the first one's guest ports, whatever   *)
(* is taken: also where the scan finds no free port and gives up.          *)
THEOREM RetryMoves == Spec => []RetryMovesOn
<1>1. TypeOK /\ InStep => RetryMovesOn
  <2> SUFFICES ASSUME TypeOK, InStep, pc = "compose", attempt = 2, ~inNetwork
               PROVE  GuestPorts(yaml[Ssh]) \intersect GuestPorts(tried) = {}
    BY DEF RetryMovesOn
  <2>1. yaml[Ssh] \in Nat /\ tried \in Nat /\ tried + VMs <= yaml[Ssh]
    BY Sorts DEF TypeOK, InStep, Values
  <2> QED
    BY <2>1, VMsAssumption DEF GuestPorts
<1> QED
  BY <1>1, StepsFollow, PTL
=============================================================================
