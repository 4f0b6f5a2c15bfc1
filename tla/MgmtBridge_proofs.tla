-------------------------- MODULE MgmtBridge_proofs --------------------------
(* Theorems about MgmtBridge, for every set of processes and ports and any *)
(* number of faults.                                                       *)
EXTENDS MgmtBridge, TLAPS

(* The subnet of a process is one of Subnets, and its rules are rules. *)
LEMMA NetInSubnets ==
  \A p \in Procs : /\ Mine(p) \in Ports /\ Net(p) \in Subnets
                   /\ \A k \in RuleKinds : Rule(p, k) \in RuleIds
  BY PortAssumption DEF Mine, Net, Subnets, Rule, RuleKinds, RuleIds

(* Processes in networks of their own have no rule in common, and no two   *)
(* kinds of rule are one.                                                  *)
LEMMA RulesDistinct ==
  DistinctNetworks =>
    \A p, q \in Procs : \A j, k \in RuleKinds :
      p # q \/ j # k => Rule(p, j) # Rule(q, k)
  BY DEF DistinctNetworks, Rule, RuleKinds

(* Every variable keeps its type, faults and kills included. *)
THEOREM TypeCorrect == Spec => []TypeOK
<1>1. Init => TypeOK
  BY FaultAssumption DEF Init, TypeOK, Labels, Checked, Unchecked
<1>2. TypeOK /\ [Next]_vars => TypeOK'
  <2> SUFFICES ASSUME TypeOK, [Next]_vars PROVE TypeOK'
    OBVIOUS
  <2>s. CASE UNCHANGED vars
    BY <2>s DEF vars, net, bridge, tap, dns, own, hist, TypeOK, Labels, Checked, Unchecked
  <2>n. ASSUME NEW p \in Procs, Clean(p) \/ Fault(p)
        PROVE  TypeOK'
    <3> USE NetInSubnets, FaultAssumption DEF Go, net, bridge, tap, dns, own, hist, TypeOK, Labels, Checked, Unchecked
    <3>f. faults' \in 0..MaxFaults
      BY <2>n DEF Clean, Fault
    <3>1. CASE LinkShow(p)
      BY <3>f, <3>1 DEF LinkShow
    <3>2. CASE LinkAdd(p)
      BY <3>f, <3>2 DEF LinkAdd
    <3>3. CASE AddrAdd(p)
      BY <3>f, <3>3 DEF AddrAdd
    <3>4. CASE LinkUp(p)
      BY <3>f, <3>4 DEF LinkUp
    <3>5. CASE IpRead(p)
      BY <3>f, <3>5 DEF IpRead, Exposes
    <3>6. CASE IpSet(p)
      BY <3>f, <3>6 DEF IpSet, Exposes
    <3>7. ASSUME NEW k \in RuleKinds, RuleShow(p, k)
           PROVE  TypeOK'
      BY <3>f, <3>7 DEF RuleShow, RuleKinds, ShowAt, AddAt, DeleteAt, AfterAdd, AfterTd
    <3>8. ASSUME NEW k \in RuleKinds, RuleAdd(p, k)
           PROVE  TypeOK'
      BY <3>f, <3>8 DEF RuleAdd, RuleKinds, ShowAt, AddAt, DeleteAt, AfterAdd, AfterTd
    <3>9. CASE DnsShow(p)
      BY <3>f, <3>9 DEF DnsShow
    <3>10. CASE DnsStart(p)
      BY <3>f, <3>10 DEF DnsStart
    <3>11. CASE TapShow(p)
      BY <3>f, <3>11 DEF TapShow
    <3>12. CASE TapAdd(p)
      BY <3>f, <3>12 DEF TapAdd
    <3>13. CASE TapMaster(p)
      BY <3>f, <3>13 DEF TapMaster
    <3>14. CASE TapUp(p)
      BY <3>f, <3>14 DEF TapUp
    <3>15. CASE Exec(p)
      BY <3>f, <3>15 DEF Exec, Ends
    <3>16. CASE GuestExits(p)
      BY <3>f, <3>16 DEF GuestExits
    <3>17. CASE Boot(p)
      BY <3>f, <3>17 DEF Boot
    <3>18. CASE AnsibleEnds(p)
      BY <3>f, <3>18 DEF AnsibleEnds
    <3>19. CASE AnsibleFails(p)
      BY <3>f, <3>19 DEF AnsibleFails, ExitsThrough, Ends
    <3>20. CASE GenExits(p)
      BY <3>f, <3>20 DEF GenExits, ExitsThrough, Ends
    <3>21. CASE TdDns(p)
      BY <3>f, <3>21 DEF TdDns, Succeeds
    <3>22. ASSUME NEW k \in RuleKinds, RuleDelete(p, k)
           PROVE  TypeOK'
      BY <3>f, <3>22 DEF RuleDelete, Succeeds, RuleKinds, ShowAt, AddAt, DeleteAt, AfterAdd, AfterTd
    <3>23. CASE TdTap(p)
      BY <3>f, <3>23 DEF TdTap, Succeeds
    <3>24. CASE TdLink(p)
      BY <3>f, <3>24 DEF TdLink, Succeeds
    <3>25. CASE TdOurs(p)
      BY <3>f, <3>25 DEF TdOurs, Returns, Ends
    <3>26. CASE TdOff(p)
      BY <3>f, <3>26 DEF TdOff, Unclaims
    <3>27. CASE IpUnreadable(p)
      BY <3>f, <3>27 DEF IpUnreadable
    <3>28. CASE CommandFails(p)
      <4>1. {"tdDns", "gone"} \subseteq Labels
        OBVIOUS
      <4> HIDE DEF Labels, Checked, Unchecked
      <4> QED
        BY <3>f, <3>28, <4>1 DEF CommandFails, ExitsThrough, Ends
    <3>29. CASE Kill(p)
      BY <3>f, <3>29 DEF Kill, Ends
    <3>30. CASE TdDnsFails(p)
      BY <3>f, <3>30 DEF TdDnsFails, Fails
    <3>31. CASE TdFails(p)
      BY <3>f, <3>31 DEF TdFails, Fails, AfterTd
    <3>32. CASE TdScanFails(p)
      BY <3>f, <3>32 DEF TdScanFails
    <3>33. CASE TdOffFails(p)
      BY <3>f, <3>33 DEF TdOffFails, Unclaims
    <3> QED
      BY <2>n, <3>1, <3>2, <3>3, <3>4, <3>5, <3>6, <3>7, <3>8, <3>9, <3>10, <3>11, <3>12, <3>13, <3>14, <3>15, <3>16, <3>17,
         <3>18, <3>19, <3>20, <3>21, <3>22, <3>23, <3>24, <3>25, <3>26, <3>27, <3>28, <3>29, <3>30, <3>31, <3>32, <3>33
         DEF Clean, Ensure, Uses, TearsDown, Fault
  <2> QED
    BY <2>s, <2>n DEF Next
<1> QED
  BY <1>1, <1>2, PTL DEF Spec

(* A host that was forwarding before the first VM is never switched off.   *)
(* By itself the property is not inductive: the proof needs that nobody    *)
(* claims the switch of such a host (NobodyClaims).                        *)
THEOREM HostForwarding == Spec => []HostForwardingKept
<1>1. Init => NobodyClaims
  BY DEF Init, NobodyClaims
<1>2. TypeOK /\ NobodyClaims /\ [Next]_vars => NobodyClaims'
  <2> SUFFICES ASSUME TypeOK, NobodyClaims, [Next]_vars PROVE NobodyClaims'
    OBVIOUS
  <2>s. CASE UNCHANGED vars
    BY <2>s DEF vars, net, bridge, tap, dns, own, hist, NobodyClaims, TypeOK, Labels, Checked, Unchecked
  <2>n. ASSUME NEW p \in Procs, Clean(p) \/ Fault(p)
        PROVE  NobodyClaims'
    <3> USE NetInSubnets DEF Go, net, bridge, tap, dns, own, hist, NobodyClaims, TypeOK, Labels, Checked, Unchecked
    <3>1. CASE LinkShow(p)
      BY <3>1 DEF LinkShow
    <3>2. CASE LinkAdd(p)
      BY <3>2 DEF LinkAdd
    <3>3. CASE AddrAdd(p)
      BY <3>3 DEF AddrAdd
    <3>4. CASE LinkUp(p)
      BY <3>4 DEF LinkUp
    <3>5. CASE IpRead(p)
      BY <3>5 DEF IpRead, Exposes
    <3>6. CASE IpSet(p)
      BY <3>6 DEF IpSet, Exposes
    <3>7. ASSUME NEW k \in RuleKinds, RuleShow(p, k)
           PROVE  NobodyClaims'
      BY <3>7 DEF RuleShow, RuleKinds, ShowAt, AddAt, DeleteAt, AfterAdd, AfterTd
    <3>8. ASSUME NEW k \in RuleKinds, RuleAdd(p, k)
           PROVE  NobodyClaims'
      BY <3>8 DEF RuleAdd, RuleKinds, ShowAt, AddAt, DeleteAt, AfterAdd, AfterTd
    <3>9. CASE DnsShow(p)
      BY <3>9 DEF DnsShow
    <3>10. CASE DnsStart(p)
      BY <3>10 DEF DnsStart
    <3>11. CASE TapShow(p)
      BY <3>11 DEF TapShow
    <3>12. CASE TapAdd(p)
      BY <3>12 DEF TapAdd
    <3>13. CASE TapMaster(p)
      BY <3>13 DEF TapMaster
    <3>14. CASE TapUp(p)
      BY <3>14 DEF TapUp
    <3>15. CASE Exec(p)
      BY <3>15 DEF Exec, Ends
    <3>16. CASE GuestExits(p)
      BY <3>16 DEF GuestExits
    <3>17. CASE Boot(p)
      BY <3>17 DEF Boot
    <3>18. CASE AnsibleEnds(p)
      BY <3>18 DEF AnsibleEnds
    <3>19. CASE AnsibleFails(p)
      BY <3>19 DEF AnsibleFails, ExitsThrough, Ends
    <3>20. CASE GenExits(p)
      BY <3>20 DEF GenExits, ExitsThrough, Ends
    <3>21. CASE TdDns(p)
      BY <3>21 DEF TdDns, Succeeds
    <3>22. ASSUME NEW k \in RuleKinds, RuleDelete(p, k)
           PROVE  NobodyClaims'
      BY <3>22 DEF RuleDelete, Succeeds, RuleKinds, ShowAt, AddAt, DeleteAt, AfterAdd, AfterTd
    <3>23. CASE TdTap(p)
      BY <3>23 DEF TdTap, Succeeds
    <3>24. CASE TdLink(p)
      BY <3>24 DEF TdLink, Succeeds
    <3>25. CASE TdOurs(p)
      BY <3>25 DEF TdOurs, Returns, Ends
    <3>26. CASE TdOff(p)
      BY <3>26 DEF TdOff, Unclaims
    <3>27. CASE IpUnreadable(p)
      BY <3>27 DEF IpUnreadable
    <3>28. CASE CommandFails(p)
      BY <3>28 DEF CommandFails, ExitsThrough, Ends
    <3>29. CASE Kill(p)
      BY <3>29 DEF Kill, Ends
    <3>30. CASE TdDnsFails(p)
      BY <3>30 DEF TdDnsFails, Fails
    <3>31. CASE TdFails(p)
      BY <3>31 DEF TdFails, Fails, AfterTd
    <3>32. CASE TdScanFails(p)
      BY <3>32 DEF TdScanFails
    <3>33. CASE TdOffFails(p)
      BY <3>33 DEF TdOffFails, Unclaims
    <3> QED
      BY <2>n, <3>1, <3>2, <3>3, <3>4, <3>5, <3>6, <3>7, <3>8, <3>9, <3>10, <3>11, <3>12, <3>13, <3>14, <3>15, <3>16, <3>17,
         <3>18, <3>19, <3>20, <3>21, <3>22, <3>23, <3>24, <3>25, <3>26, <3>27, <3>28, <3>29, <3>30, <3>31, <3>32, <3>33
         DEF Clean, Ensure, Uses, TearsDown, Fault
  <2> QED
    BY <2>s, <2>n DEF Next
<1>3. NobodyClaims => HostForwardingKept
  BY DEF NobodyClaims, HostForwardingKept
<1> QED
  BY <1>1, <1>2, <1>3, TypeCorrect, PTL DEF Spec

(* On distinct ports in distinct subnets every stage of setting a network  *)
(* up stands on what the stages before it made sure of.                    *)
LEMMA StagesIntact == Spec => []EveryStageIntact
<1>1. Init => EveryStageIntact
  <2>1. \A k \in RuleKinds : "linkShow" \notin HasRule[k]
    BY DEF HasRule, HasDns, HasTap, HasJoin, RuleKinds
  <2>2. "linkShow" \notin HasLink
    BY <2>1 DEF HasLink, HasAddr, HasUp, PastIp, RuleKinds
  <2>3. "linkShow" \notin HasAddr \union HasUp \union HasDns \union HasTap \union HasJoin
    BY <2>1 DEF HasAddr, HasUp, PastIp, HasDns, HasTap, HasJoin, RuleKinds
  <2> QED
    BY <2>1, <2>2, <2>3 DEF Init, EveryStageIntact
<1>2. TypeOK /\ EveryStageIntact /\ [Next]_vars => EveryStageIntact'
  <2> SUFFICES ASSUME TypeOK, EveryStageIntact, [Next]_vars PROVE EveryStageIntact'
    OBVIOUS
  <2>s. CASE UNCHANGED vars
    BY <2>s DEF vars, net, bridge, tap, dns, own, hist, EveryStageIntact, HasLink, HasAddr, HasUp, PastIp, HasRule, HasDns, HasTap, HasJoin, DistinctNetworks, RuleKinds, TypeOK, Labels, Checked, Unchecked
  <2>n. ASSUME NEW p \in Procs, Clean(p) \/ Fault(p)
        PROVE  EveryStageIntact'
    <3> USE NetInSubnets, RulesDistinct DEF Go, net, bridge, tap, dns, own, hist, EveryStageIntact, HasLink, HasAddr, HasUp, PastIp, HasRule, HasDns, HasTap, HasJoin, DistinctNetworks, RuleKinds, TypeOK, Labels, Checked, Unchecked
    <3>1. CASE LinkShow(p)
      BY <3>1 DEF LinkShow
    <3>2. CASE LinkAdd(p)
      BY <3>2 DEF LinkAdd
    <3>3. CASE AddrAdd(p)
      BY <3>3 DEF AddrAdd
    <3>4. CASE LinkUp(p)
      BY <3>4 DEF LinkUp
    <3>5. CASE IpRead(p)
      BY <3>5 DEF IpRead, Exposes
    <3>6. CASE IpSet(p)
      BY <3>6 DEF IpSet, Exposes
    <3>7. ASSUME NEW k \in RuleKinds, RuleShow(p, k)
           PROVE  EveryStageIntact'
      BY <3>7 DEF RuleShow, RuleKinds, ShowAt, AddAt, DeleteAt, AfterAdd, AfterTd
    <3>8. ASSUME NEW k \in RuleKinds, RuleAdd(p, k)
           PROVE  EveryStageIntact'
      BY <3>8 DEF RuleAdd, RuleKinds, ShowAt, AddAt, DeleteAt, AfterAdd, AfterTd
    <3>9. CASE DnsShow(p)
      BY <3>9 DEF DnsShow
    <3>10. CASE DnsStart(p)
      BY <3>10 DEF DnsStart
    <3>11. CASE TapShow(p)
      BY <3>11 DEF TapShow
    <3>12. CASE TapAdd(p)
      BY <3>12 DEF TapAdd
    <3>13. CASE TapMaster(p)
      BY <3>13 DEF TapMaster
    <3>14. CASE TapUp(p)
      BY <3>14 DEF TapUp
    <3>15. CASE Exec(p)
      BY <3>15 DEF Exec, Ends
    <3>16. CASE GuestExits(p)
      BY <3>16 DEF GuestExits
    <3>17. CASE Boot(p)
      BY <3>17 DEF Boot
    <3>18. CASE AnsibleEnds(p)
      BY <3>18 DEF AnsibleEnds
    <3>19. CASE AnsibleFails(p)
      BY <3>19 DEF AnsibleFails, ExitsThrough, Ends
    <3>20. CASE GenExits(p)
      BY <3>20 DEF GenExits, ExitsThrough, Ends
    <3>21. CASE TdDns(p)
      BY <3>21 DEF TdDns, Succeeds
    <3>22. ASSUME NEW k \in RuleKinds, RuleDelete(p, k)
           PROVE  EveryStageIntact'
      BY <3>22 DEF RuleDelete, Succeeds, RuleKinds, ShowAt, AddAt, DeleteAt, AfterAdd, AfterTd
    <3>23. CASE TdTap(p)
      BY <3>23 DEF TdTap, Succeeds
    <3>24. CASE TdLink(p)
      BY <3>24 DEF TdLink, Succeeds
    <3>25. CASE TdOurs(p)
      BY <3>25 DEF TdOurs, Returns, Ends
    <3>26. CASE TdOff(p)
      BY <3>26 DEF TdOff, Unclaims
    <3>27. CASE IpUnreadable(p)
      BY <3>27 DEF IpUnreadable
    <3>28. CASE CommandFails(p)
      BY <3>28 DEF CommandFails, ExitsThrough, Ends
    <3>29. CASE Kill(p)
      BY <3>29 DEF Kill, Ends
    <3>30. CASE TdDnsFails(p)
      BY <3>30 DEF TdDnsFails, Fails
    <3>31. CASE TdFails(p)
      BY <3>31 DEF TdFails, Fails, AfterTd
    <3>32. CASE TdScanFails(p)
      BY <3>32 DEF TdScanFails
    <3>33. CASE TdOffFails(p)
      BY <3>33 DEF TdOffFails, Unclaims
    <3> QED
      BY <2>n, <3>1, <3>2, <3>3, <3>4, <3>5, <3>6, <3>7, <3>8, <3>9, <3>10, <3>11, <3>12, <3>13, <3>14, <3>15, <3>16, <3>17,
         <3>18, <3>19, <3>20, <3>21, <3>22, <3>23, <3>24, <3>25, <3>26, <3>27, <3>28, <3>29, <3>30, <3>31, <3>32, <3>33
         DEF Clean, Ensure, Uses, TearsDown, Fault
  <2> QED
    BY <2>s, <2>n DEF Next
<1> QED
  BY <1>1, <1>2, TypeCorrect, PTL DEF Spec

(* Distinct ports in distinct subnets never disturb each other's guest,    *)
(* whatever the other processes do and wherever they fail or are killed.   *)
THEOREM NetworkIntact == Spec => []GuestNetworkIntact
<1>1. EveryStageIntact => GuestNetworkIntact
  BY DEF EveryStageIntact, GuestNetworkIntact, HasLink, HasAddr, HasUp, PastIp, HasRule, HasDns, HasTap, HasJoin, RuleKinds
<1> QED
  BY <1>1, StagesIntact, PTL

(* No restore of the switch by another process takes forwarding away from  *)
(* a running guest, but for the recorded exceptions.  The proof needs that *)
(* the bridge of a process past the switch is there for any later scan to  *)
(* see (EveryStageIntact).                                                 *)
THEOREM GuestsKeepForwarding == Spec => []ForwardingForGuests
<1>1. Init => NobodyAboutToClear
  BY DEF Init, NobodyAboutToClear, PastIp, HasRule, HasDns, HasTap, HasJoin
<1>2. TypeOK /\ EveryStageIntact /\ NobodyAboutToClear /\ [Next]_vars => NobodyAboutToClear'
  <2> SUFFICES ASSUME TypeOK, EveryStageIntact, NobodyAboutToClear, [Next]_vars PROVE NobodyAboutToClear'
    OBVIOUS
  <2>s. CASE UNCHANGED vars
    BY <2>s DEF vars, net, bridge, tap, dns, own, hist, NobodyAboutToClear, HasLink, HasAddr, HasUp, PastIp, HasRule, HasDns, HasTap, HasJoin, DistinctNetworks, TypeOK, Labels, Checked, Unchecked
  <2>n. ASSUME NEW p \in Procs, Clean(p) \/ Fault(p)
        PROVE  NobodyAboutToClear'
    <3> USE NetInSubnets DEF Go, net, bridge, tap, dns, own, hist, NobodyAboutToClear, HasLink, HasAddr, HasUp, PastIp, HasRule, HasDns, HasTap, HasJoin, DistinctNetworks, TypeOK, Labels, Checked, Unchecked
    <3>1. CASE LinkShow(p)
      BY <3>1 DEF LinkShow
    <3>2. CASE LinkAdd(p)
      BY <3>2 DEF LinkAdd
    <3>3. CASE AddrAdd(p)
      BY <3>3 DEF AddrAdd
    <3>4. CASE LinkUp(p)
      BY <3>4 DEF LinkUp
    <3>5. CASE IpRead(p)
      BY <3>5 DEF IpRead, Exposes
    <3>6. CASE IpSet(p)
      BY <3>6 DEF IpSet, Exposes
    <3>7. ASSUME NEW k \in RuleKinds, RuleShow(p, k)
           PROVE  NobodyAboutToClear'
      BY <3>7 DEF RuleShow, RuleKinds, ShowAt, AddAt, DeleteAt, AfterAdd, AfterTd
    <3>8. ASSUME NEW k \in RuleKinds, RuleAdd(p, k)
           PROVE  NobodyAboutToClear'
      BY <3>8 DEF RuleAdd, RuleKinds, ShowAt, AddAt, DeleteAt, AfterAdd, AfterTd
    <3>9. CASE DnsShow(p)
      BY <3>9 DEF DnsShow
    <3>10. CASE DnsStart(p)
      BY <3>10 DEF DnsStart
    <3>11. CASE TapShow(p)
      BY <3>11 DEF TapShow
    <3>12. CASE TapAdd(p)
      BY <3>12 DEF TapAdd
    <3>13. CASE TapMaster(p)
      BY <3>13 DEF TapMaster
    <3>14. CASE TapUp(p)
      BY <3>14 DEF TapUp
    <3>15. CASE Exec(p)
      BY <3>15 DEF Exec, Ends
    <3>16. CASE GuestExits(p)
      BY <3>16 DEF GuestExits
    <3>17. CASE Boot(p)
      BY <3>17 DEF Boot
    <3>18. CASE AnsibleEnds(p)
      BY <3>18 DEF AnsibleEnds
    <3>19. CASE AnsibleFails(p)
      BY <3>19 DEF AnsibleFails, ExitsThrough, Ends
    <3>20. CASE GenExits(p)
      BY <3>20 DEF GenExits, ExitsThrough, Ends
    <3>21. CASE TdDns(p)
      BY <3>21 DEF TdDns, Succeeds
    <3>22. ASSUME NEW k \in RuleKinds, RuleDelete(p, k)
           PROVE  NobodyAboutToClear'
      BY <3>22 DEF RuleDelete, Succeeds, RuleKinds, ShowAt, AddAt, DeleteAt, AfterAdd, AfterTd
    <3>23. CASE TdTap(p)
      BY <3>23 DEF TdTap, Succeeds
    <3>24. CASE TdLink(p)
      BY <3>24 DEF TdLink, Succeeds
    <3>25. CASE TdOurs(p)
      BY <3>25 DEF TdOurs, Returns, Ends, EveryStageIntact
    <3>26. CASE TdOff(p)
      BY <3>26 DEF TdOff, Unclaims
    <3>27. CASE IpUnreadable(p)
      BY <3>27 DEF IpUnreadable
    <3>28. CASE CommandFails(p)
      BY <3>28 DEF CommandFails, ExitsThrough, Ends
    <3>29. CASE Kill(p)
      BY <3>29 DEF Kill, Ends
    <3>30. CASE TdDnsFails(p)
      BY <3>30 DEF TdDnsFails, Fails
    <3>31. CASE TdFails(p)
      BY <3>31 DEF TdFails, Fails, AfterTd
    <3>32. CASE TdScanFails(p)
      BY <3>32 DEF TdScanFails
    <3>33. CASE TdOffFails(p)
      BY <3>33 DEF TdOffFails, Unclaims
    <3> QED
      BY <2>n, <3>1, <3>2, <3>3, <3>4, <3>5, <3>6, <3>7, <3>8, <3>9, <3>10, <3>11, <3>12, <3>13, <3>14, <3>15, <3>16, <3>17,
         <3>18, <3>19, <3>20, <3>21, <3>22, <3>23, <3>24, <3>25, <3>26, <3>27, <3>28, <3>29, <3>30, <3>31, <3>32, <3>33
         DEF Clean, Ensure, Uses, TearsDown, Fault
  <2> QED
    BY <2>s, <2>n DEF Next
<1>3. NobodyAboutToClear => ForwardingForGuests
  BY DEF NobodyAboutToClear, ForwardingForGuests, PastIp, HasRule, HasDns, HasTap, HasJoin
<1> QED
  BY <1>1, <1>2, <1>3, TypeCorrect, StagesIntact, PTL DEF Spec

(* What a process has let go of, and not yet left behind.                  *)
GoneLink == {"tdOurs", "tdOff", "post"}
GoneTap  == GoneLink \union {"tdLink"}
GoneRule == [to   |-> GoneTap \union {"tdTap"},
             from |-> GoneTap \union {"tdTap", "tdTo"},
             nat  |-> GoneTap \union {"tdTap", "tdTo", "tdFrom"}]
GoneDns  == GoneRule["nat"] \union {"tdNat"}

(* The inductive form of NothingLeftBehind: a rule is there at most once,  *)
(* as it is added only where it was not found, so that one -D removes it;  *)
(* and a dnsmasq without its pid file is one whose kill failed.            *)
LetGoInOrder ==
  DistinctNetworks =>
    \A p \in Procs :
      /\ Mine(p) \in dnsmasq \ pids => "tdDns" \in failed[p]
      /\ pc[p] \in GoneDns =>
           (Mine(p) \in dnsmasq \union pids => "tdDns" \in failed[p])
      /\ \A k \in RuleKinds :
           /\ rules[Rule(p, k)] \in {0, 1}
           /\ pc[p] = AddAt[k] => rules[Rule(p, k)] = 0
           /\ pc[p] \in GoneRule[k] =>
                rules[Rule(p, k)] = 0 \/ DeleteAt[k] \in failed[p]
      /\ pc[p] \in GoneTap  => (Mine(p) \in taps => "tdTap" \in failed[p])
      /\ pc[p] \in GoneLink => (Mine(p) \in bridges => "tdLink" \in failed[p])

(* On distinct ports in distinct subnets, a gen-vm past a teardown has     *)
(* nothing left on the host but what the failed commands of that teardown  *)
(* were to remove, however many teardowns others ran meanwhile.            *)
THEOREM NothingLeft == Spec => []NothingLeftBehind
<1>1. Init => LetGoInOrder
  BY NetInSubnets DEF Init, LetGoInOrder, GoneDns, GoneRule, GoneTap, GoneLink, RuleKinds, AddAt
<1>2. TypeOK /\ LetGoInOrder /\ [Next]_vars => LetGoInOrder'
  <2> SUFFICES ASSUME TypeOK, LetGoInOrder, [Next]_vars PROVE LetGoInOrder'
    OBVIOUS
  <2>s. CASE UNCHANGED vars
    BY <2>s DEF vars, net, bridge, tap, dns, own, hist, LetGoInOrder, GoneDns, GoneRule, GoneTap, GoneLink, DistinctNetworks, RuleKinds, AddAt, DeleteAt, TypeOK, Labels, Checked, Unchecked
  <2>n. ASSUME NEW p \in Procs, Clean(p) \/ Fault(p)
        PROVE  LetGoInOrder'
    <3> USE NetInSubnets, RulesDistinct DEF Go, net, bridge, tap, dns, own, hist, LetGoInOrder, GoneDns, GoneRule, GoneTap, GoneLink, DistinctNetworks, RuleKinds, AddAt, DeleteAt, TypeOK, Labels, Checked, Unchecked
    <3>1. CASE LinkShow(p)
      BY <3>1 DEF LinkShow
    <3>2. CASE LinkAdd(p)
      BY <3>2 DEF LinkAdd
    <3>3. CASE AddrAdd(p)
      BY <3>3 DEF AddrAdd
    <3>4. CASE LinkUp(p)
      BY <3>4 DEF LinkUp
    <3>5. CASE IpRead(p)
      BY <3>5 DEF IpRead, Exposes
    <3>6. CASE IpSet(p)
      BY <3>6 DEF IpSet, Exposes
    <3>7. ASSUME NEW k \in RuleKinds, RuleShow(p, k)
           PROVE  LetGoInOrder'
      BY <3>7 DEF RuleShow, RuleKinds, ShowAt, AddAt, DeleteAt, AfterAdd, AfterTd
    <3>8. ASSUME NEW k \in RuleKinds, RuleAdd(p, k)
           PROVE  LetGoInOrder'
      BY <3>8 DEF RuleAdd, RuleKinds, ShowAt, AddAt, DeleteAt, AfterAdd, AfterTd
    <3>9. CASE DnsShow(p)
      BY <3>9 DEF DnsShow
    <3>10. CASE DnsStart(p)
      BY <3>10 DEF DnsStart
    <3>11. CASE TapShow(p)
      BY <3>11 DEF TapShow
    <3>12. CASE TapAdd(p)
      BY <3>12 DEF TapAdd
    <3>13. CASE TapMaster(p)
      BY <3>13 DEF TapMaster
    <3>14. CASE TapUp(p)
      BY <3>14 DEF TapUp
    <3>15. CASE Exec(p)
      BY <3>15 DEF Exec, Ends
    <3>16. CASE GuestExits(p)
      BY <3>16 DEF GuestExits
    <3>17. CASE Boot(p)
      BY <3>17 DEF Boot
    <3>18. CASE AnsibleEnds(p)
      BY <3>18 DEF AnsibleEnds
    <3>19. CASE AnsibleFails(p)
      BY <3>19 DEF AnsibleFails, ExitsThrough, Ends
    <3>20. CASE GenExits(p)
      BY <3>20 DEF GenExits, ExitsThrough, Ends
    <3>21. CASE TdDns(p)
      BY <3>21 DEF TdDns, Succeeds
    <3>22. ASSUME NEW k \in RuleKinds, RuleDelete(p, k)
           PROVE  LetGoInOrder'
      BY <3>22 DEF RuleDelete, Succeeds, RuleKinds, ShowAt, AddAt, DeleteAt, AfterAdd, AfterTd
    <3>23. CASE TdTap(p)
      BY <3>23 DEF TdTap, Succeeds
    <3>24. CASE TdLink(p)
      BY <3>24 DEF TdLink, Succeeds
    <3>25. CASE TdOurs(p)
      BY <3>25 DEF TdOurs, Returns, Ends
    <3>26. CASE TdOff(p)
      BY <3>26 DEF TdOff, Unclaims
    <3>27. CASE IpUnreadable(p)
      BY <3>27 DEF IpUnreadable
    <3>28. CASE CommandFails(p)
      BY <3>28 DEF CommandFails, ExitsThrough, Ends
    <3>29. CASE Kill(p)
      BY <3>29 DEF Kill, Ends
    <3>30. CASE TdDnsFails(p)
      BY <3>30 DEF TdDnsFails, Fails
    <3>31. CASE TdFails(p)
      BY <3>31 DEF TdFails, Fails, AfterTd
    <3>32. CASE TdScanFails(p)
      BY <3>32 DEF TdScanFails
    <3>33. CASE TdOffFails(p)
      BY <3>33 DEF TdOffFails, Unclaims
    <3> QED
      BY <2>n, <3>1, <3>2, <3>3, <3>4, <3>5, <3>6, <3>7, <3>8, <3>9, <3>10, <3>11, <3>12, <3>13, <3>14, <3>15, <3>16, <3>17,
         <3>18, <3>19, <3>20, <3>21, <3>22, <3>23, <3>24, <3>25, <3>26, <3>27, <3>28, <3>29, <3>30, <3>31, <3>32, <3>33
         DEF Clean, Ensure, Uses, TearsDown, Fault
  <2> QED
    BY <2>s, <2>n DEF Next
<1>3. LetGoInOrder => NothingLeftBehind
  BY DEF LetGoInOrder, NothingLeftBehind, GoneDns, GoneRule, GoneTap, GoneLink, RuleKinds, DeleteAt
<1> QED
  BY <1>1, <1>2, <1>3, TypeCorrect, PTL DEF Spec

=============================================================================
