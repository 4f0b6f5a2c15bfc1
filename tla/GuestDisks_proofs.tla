------------------------- MODULE GuestDisks_proofs -------------------------
(***************************************************************************)
(* Proofs about the images directory, for every number of guests, tags and *)
(* runs and every set of modes: the types, that gen-vm builds its overlay  *)
(* on the published image it was asked for, that the owner's overlay fits  *)
(* its backing file, and that up leaves the overlays it finds alone.       *)
(***************************************************************************)
EXTENDS GuestDisks, TLAPS

(* A step of gen-vm only occurs in the modes that have it, and at most one *)
(* of gen-vm and qcow works on a VM.                                       *)
Stages(v) ==
  /\ pc[v] # "idle" => cleaner[v] = "idle"
  /\ pc[v] \in {"check", "pull", "unpack", "ref"} => job[v].mode = "image"
  /\ pc[v] \in {"bake", "baking", "rename"} => job[v].mode \in {"ansible", "bake"}
  /\ pc[v] \in {"baking", "rename"} => ~Pulled(v) /\ ~Published(v)
  /\ pc[v] \in {"unpack", "ref"} /\ Pulled(v) => ~job[v].force

(* quick-start runs one gen-vm at a time, for a guest without an overlay.  *)
UpsOwn(v) ==
  pc[v] # "idle" /\ job[v].by = "up" =>
     upPc = "make" /\ upAt = v /\ overlay[v] = None

(* The recorded tag tells the truth about a file that is there, but for a  *)
(* pull that was begun over it; where none was recorded none is trusted.   *)
RefTrue(v) ==
  Published(v) =>
    /\ pc[v] \notin {"unpack", "ref"} /\ v \notin cut =>
          (ref[v] # None /\ backing[v] # None => backing[v] = ref[v])
    /\ pc[v] \in {"unpack", "ref"} /\ v \notin cut => ref[v] = None
    /\ pc[v] = "ref" => backing[v] = job[v].tag
    /\ pc[v] = "overlay" /\ job[v].mode = "image" => backing[v] = job[v].tag \/ v \in cut

(* The owner's overlay fits; during a pull there is none. *)
OverlayFits(v) ==
  /\ overlay[v] = v => base[v] # None
  /\ Pulled(v) /\ overlay[v] = v => base[v] = backing[v]
  /\ Pulled(v) /\ pc[v] = "pull" => job[v].force \/ overlay[v] # v
  /\ Pulled(v) /\ pc[v] \in {"unpack", "ref"} => overlay[v] # v

IndInv ==
  /\ TypeOK
  /\ \A v \in VMs : Stages(v) /\ UpsOwn(v) /\ RefTrue(v) /\ OverlayFits(v)

-----------------------------------------------------------------------------
(* Where the numbers the steps write belong. *)
LEMMA Sorts ==
  /\ None \in Contents /\ Unfinished \in Contents
  /\ \A t \in Tags : t \in Contents /\ t \in Int /\ t # None /\ t # Unfinished
  /\ \A n \in 0 .. MaxGens : T + n \in Contents
  /\ \A v \in VMs : v \in 0 .. Alone /\ v \in 1 .. (N + 1) /\ v + 1 \in 1 .. (N + 1)
                     /\ v # Alone /\ v # None
  /\ None \in 0 .. Alone /\ Alone \in 0 .. Alone
  /\ 1 \in Tags /\ 1 \in VMs /\ 1 \in 1 .. (N + 1)
  /\ None \in Int
BY NAssumption, TAssumption, BoundAssumption
   DEF Contents, Tags, VMs, None, Unfinished, Alone

(* The types of job[v] and pc[v]. *)
Jobset == [mode : AllModes, tag : Tags, force : BOOLEAN, noBacking : BOOLEAN,
           by : {"user", "up"}]
Steps  == {"idle", "check", "pull", "unpack", "ref", "bake", "baking", "rename", "overlay"}

LEMMA Jobs == NoJob \in Jobset
BY Sorts DEF NoJob, AllModes, Jobset

LEMMA Ups == newest \in Tags /\ newest < T => newest + 1 \in Tags
BY TAssumption DEF Tags

LEMMA UpTo == \A n, m \in Nat : n \in 0 .. m /\ n < m => n + 1 \in 0 .. m
OBVIOUS

LEMMA FirstSteps ==
  \A m \in AllModes :
    /\ FirstStep[m] \in {"check", "overlay", "bake"}
    /\ FirstStep[m] = "check" <=> m = "image"
    /\ FirstStep[m] = "bake" <=> m \in {"ansible", "bake"}
BY DEF AllModes, FirstStep

(* What is so once gen-vm has begun. *)
Begun(w, m, t, who) ==
  /\ pc' \in [VMs -> Steps] /\ job' \in [VMs -> Jobset]
  /\ pc[w] = "idle" /\ cleaner[w] = "idle"
  /\ pc'[w] \in {"check", "overlay", "bake"}
  /\ pc'[w] = "check" <=> m = "image"
  /\ pc'[w] = "bake" <=> m \in {"ansible", "bake"}
  /\ job'[w].mode = m /\ job'[w].tag = t /\ job'[w].by = who
  /\ \A x \in VMs \ {w} : pc'[x] = pc[x] /\ job'[x] = job[x]

LEMMA Began ==
  ASSUME TypeOK, NEW w \in VMs, NEW m \in AllModes, NEW t \in Tags, NEW f \in BOOLEAN, NEW nb \in BOOLEAN,
         NEW who \in {"user", "up"}, Begin(w, m, t, f, nb, who)
  PROVE  Begun(w, m, t, who)
<1> DEFINE new == [mode |-> m, tag |-> t, force |-> f, noBacking |-> nb, by |-> who]
<1>1. pc' = [pc EXCEPT ![w] = FirstStep[m]] /\ job' = [job EXCEPT ![w] = new]
  BY DEF Begin, Goes
<1>2. pc[w] = "idle" /\ cleaner[w] = "idle"
  BY DEF Begin, Free
<1>3. pc \in [VMs -> Steps] /\ job \in [VMs -> Jobset]
  BY DEF TypeOK, Steps, Jobset
<1>4. new \in Jobset
  BY <1>3 DEF Jobset
<1>5. new.mode = m /\ new.tag = t /\ new.by = who
  OBVIOUS
<1>6. job' \in [VMs -> Jobset] /\ job'[w] = new /\ \A x \in VMs \ {w} : job'[x] = job[x]
  <2> HIDE DEF new
  <2> QED
    BY <1>1, <1>3, <1>4
<1>7. FirstStep[m] \in Steps
  BY FirstSteps DEF Steps
<1>8. pc' \in [VMs -> Steps] /\ pc'[w] = FirstStep[m] /\ \A x \in VMs \ {w} : pc'[x] = pc[x]
  BY <1>1, <1>3, <1>7
<1> QED
  BY <1>2, <1>5, <1>6, <1>8, FirstSteps DEF Begun

(* gen-vm by hand, and the one of quick-start. *)
LEMMA ByHand ==
  ASSUME TypeOK, NEW w \in VMs, GenVm(w)
  PROVE  /\ \E m \in AllModes, t \in Tags : Begun(w, m, t, "user")
         /\ gens < MaxGens /\ gens' = gens + 1
         /\ UNCHANGED <<disk, newest, up, cleaner, running, hist, ups>>
<1>1. PICK m \in AllModes, t \in Tags, f \in BOOLEAN, nb \in BOOLEAN : Begin(w, m, t, f, nb, "user")
  BY ModesAssumption DEF GenVm
<1>2. Begun(w, m, t, "user")
  BY <1>1, Began
<1> QED
  BY <1>2 DEF GenVm

LEMMA ByUp ==
  ASSUME TypeOK, UpMake
  PROVE  /\ upPc = "make" /\ upAt \in VMs /\ overlay[upAt] = None
         /\ \E m \in AllModes : Begun(upAt, m, newest, "up")
         /\ UNCHANGED <<disk, newest, up, cleaner, running, hist, count>>
<1>1. PICK m \in AllModes : upAt \in VMs /\ Begin(upAt, m, newest, FALSE, FALSE, "up")
  BY DEF UpMake, UpNext, AllModes
<1>2. Begun(upAt, m, newest, "up")
  BY <1>1, Began DEF TypeOK
<1> QED
  BY <1>1, <1>2 DEF UpMake, UpNext

LEMMA StartsSound == Init => IndInv
<1> SUFFICES ASSUME Init PROVE IndInv
  OBVIOUS
<1>1. TypeOK
  BY Sorts, Jobs, BoundAssumption DEF Init, TypeOK, Jobset
<1>2. \A v \in VMs : Stages(v) /\ UpsOwn(v)
  BY DEF Init, Stages, UpsOwn
<1>3. \A v \in VMs : RefTrue(v)
  BY DEF Init, RefTrue, None
<1>4. \A v \in VMs : OverlayFits(v)
  BY Sorts DEF Init, OverlayFits
<1> QED
  BY <1>1, <1>2, <1>3, <1>4 DEF IndInv

LEMMA TypeStep ==
  ASSUME TypeOK, \A v \in VMs : Stages(v) /\ UpsOwn(v), [Next]_vars
  PROVE  TypeOK'
<1> USE Sorts, Jobs, Ups, UpTo, BoundAssumption, ModesAssumption
<1> USE DEF TypeOK, Jobset, disk, up, count, hist
  <1>1. CASE Upgrade
    BY <1>1 DEF Upgrade
  <1>2. CASE UpStart
    BY <1>2 DEF UpStart
  <1>3. CASE UpClean
    BY <1>3 DEF UpClean, Remove, Free
  <1>4. CASE UpKeep
    BY <1>4 DEF UpKeep, UpNext
  <1>5. CASE UpMake
    BY <1>5, ByUp DEF Begun, Steps, Jobset
  <1>6. CASE UpEnds
    BY <1>6 DEF UpEnds, Free
  <1>7. ASSUME NEW w \in VMs, GenVm(w)
        PROVE  TypeOK'
    BY <1>7, ByHand DEF Begun, Steps, Jobset
  <1>8. ASSUME NEW w \in VMs, Check(w)
        PROVE  TypeOK'
    <2>1. pc' = [pc EXCEPT ![w] = "overlay"] \/ pc' = [pc EXCEPT ![w] = "pull"]
      BY <1>8 DEF Check, Goes
    <2>2. overlay' \in [VMs -> 0 .. Alone] /\ base' \in [VMs -> Contents]
      <3>1. CASE Remove(w)
        BY <3>1 DEF Remove
      <3>2. CASE UNCHANGED <<overlay, base>>
        BY <3>2
      <3> QED
        BY <1>8, <3>1, <3>2 DEF Check
    <2> QED
      BY <1>8, <2>1, <2>2 DEF Check
  <1>9. ASSUME NEW w \in VMs, Unpack(w)
        PROVE  TypeOK'
    BY <1>9 DEF Unpack, Goes
  <1>10. ASSUME NEW w \in VMs, Unpacked(w)
        PROVE  TypeOK'
    BY <1>10 DEF Unpacked, Goes
  <1>11. ASSUME NEW w \in VMs, WriteRef(w)
        PROVE  TypeOK'
    BY <1>11 DEF WriteRef, Goes
  <1>12. ASSUME NEW w \in VMs, Bake(w)
        PROVE  TypeOK'
    <2>1. job[w].mode \in {"ansible", "bake"}
      BY <1>12 DEF Bake, Stages
    <2> QED
      BY <1>12, <2>1 DEF Bake, Goes
  <1>13. ASSUME NEW w \in VMs, Baked(w)
        PROVE  TypeOK'
    BY <1>13 DEF Baked, Goes
  <1>14. ASSUME NEW w \in VMs, Rename(w)
        PROVE  TypeOK'
    <2>1. job[w].by = "up" => upAt + 1 \in 1 .. (N + 1)
      BY <1>14 DEF Rename, UpsOwn
    <2>2. upPc' = upPc /\ upAt' \in 1 .. (N + 1)
      BY <1>14, <2>1 DEF Rename, Finish
    <2>3. pc' = [pc EXCEPT ![w] = "idle"] /\ job' = [job EXCEPT ![w] = NoJob]
      BY <1>14 DEF Rename, Finish, Goes
    <2>4. overlay' \in [VMs -> 0 .. Alone] /\ base' \in [VMs -> Contents]
      BY <1>14 DEF Rename, Place, Target
    <2> QED
      BY <1>14, <2>2, <2>3, <2>4 DEF Rename
  <1>15. ASSUME NEW w \in VMs, MakeOverlay(w)
        PROVE  TypeOK'
    <2>1. job[w].by = "up" => upAt + 1 \in 1 .. (N + 1)
      BY <1>15 DEF MakeOverlay, UpsOwn
    <2>2. upPc' = upPc /\ upAt' \in 1 .. (N + 1)
      BY <1>15, <2>1 DEF MakeOverlay, Finish
    <2>3. pc' = [pc EXCEPT ![w] = "idle"] /\ job' = [job EXCEPT ![w] = NoJob]
      BY <1>15 DEF MakeOverlay, Finish, Goes
    <2>4. overlay' \in [VMs -> 0 .. Alone] /\ base' \in [VMs -> Contents]
      BY <1>15 DEF MakeOverlay, Place, Target
    <2> QED
      BY <1>15, <2>2, <2>3, <2>4 DEF MakeOverlay
  <1>16. ASSUME NEW w \in VMs, GenDies(w)
        PROVE  TypeOK'
    <2>1. pc' = [pc EXCEPT ![w] = "idle"] /\ job' = [job EXCEPT ![w] = NoJob]
      BY <1>16 DEF GenDies, Goes
    <2>2. backing' \in [VMs -> Contents]
      BY <1>16 DEF GenDies
    <2>3. upPc' \in {"idle", "clean", "make"}
      BY <1>16 DEF GenDies
    <2>4. job' \in [VMs -> Jobset] /\ pc' \in [VMs -> Steps]
      BY <2>1 DEF Jobset, Steps
    <2>5. UNCHANGED <<ref, overlay, base, newest, upAt, cleaner, running, hist, gens, ups>>
      BY <1>16 DEF GenDies
    <2> QED
      BY <2>2, <2>3, <2>4, <2>5 DEF Jobset, Steps
  <1>17. ASSUME NEW w \in VMs, CleanAsk(w)
        PROVE  TypeOK'
    BY <1>17 DEF CleanAsk, Free
  <1>18. ASSUME NEW w \in VMs, CleanBlind(w)
        PROVE  TypeOK'
    BY <1>18 DEF CleanBlind, Free
  <1>19. ASSUME NEW w \in VMs, CleanRemove(w)
        PROVE  TypeOK'
    BY <1>19 DEF CleanRemove, Remove
  <1>20. ASSUME NEW w \in VMs, CleanCreate(w)
        PROVE  TypeOK'
    <2>1. overlay' \in [VMs -> 0 .. Alone] /\ base' \in [VMs -> Contents]
      <3>1. CASE Place(w, w, backing[w])
        BY <3>1 DEF Place
      <3>2. CASE UNCHANGED <<overlay, base>>
        BY <3>2
      <3> QED
        BY <1>20, <3>1, <3>2 DEF CleanCreate
    <2> QED
      BY <1>20, <2>1 DEF CleanCreate
  <1>21. ASSUME NEW w \in VMs, CleanEnds(w)
        PROVE  TypeOK'
    BY <1>21 DEF CleanEnds
  <1>22. ASSUME NEW w \in VMs, GuestStarts(w)
        PROVE  TypeOK'
    BY <1>22 DEF GuestStarts
  <1>23. ASSUME NEW w \in VMs, GuestStops(w)
        PROVE  TypeOK'
    BY <1>23 DEF GuestStops
  <1>24. CASE UNCHANGED vars
    BY <1>24 DEF vars
  <1> QED
    BY <1>1, <1>2, <1>3, <1>4, <1>5, <1>6, <1>7, <1>8, <1>9, <1>10, <1>11, <1>12, <1>13, <1>14,
       <1>15, <1>16, <1>17, <1>18, <1>19, <1>20, <1>21, <1>22, <1>23, <1>24 DEF Next, Gen, Clean, Up

LEMMA StagesStep ==
  ASSUME TypeOK, NEW v \in VMs, [Next]_vars,
         Stages(v), UpsOwn(v), RefTrue(v), OverlayFits(v)
  PROVE  Stages(v)'
<1> USE Sorts
<1> USE DEF TypeOK, disk, up, count, hist, NoJob, Stages, Pulled, Published
  <1>1. CASE Upgrade
    BY <1>1 DEF Upgrade
  <1>2. CASE UpStart
    BY <1>2 DEF UpStart
  <1>3. CASE UpClean
    BY <1>3 DEF UpClean, Remove, Free
  <1>4. CASE UpKeep
    BY <1>4 DEF UpKeep, UpNext
  <1>5. CASE UpMake
    BY <1>5, ByUp DEF Begun, Steps, Jobset
  <1>6. CASE UpEnds
    BY <1>6 DEF UpEnds, Free
  <1>7. ASSUME NEW w \in VMs, GenVm(w)
        PROVE  Stages(v)'
    BY <1>7, ByHand DEF Begun, Steps, Jobset
  <1>8. ASSUME NEW w \in VMs, Check(w)
        PROVE  Stages(v)'
    BY <1>8 DEF Check, Goes, Remove, UpToDate
  <1>9. ASSUME NEW w \in VMs, Unpack(w)
        PROVE  Stages(v)'
    BY <1>9 DEF Unpack, Goes
  <1>10. ASSUME NEW w \in VMs, Unpacked(w)
        PROVE  Stages(v)'
    BY <1>10 DEF Unpacked, Goes
  <1>11. ASSUME NEW w \in VMs, WriteRef(w)
        PROVE  Stages(v)'
    BY <1>11 DEF WriteRef, Goes
  <1>12. ASSUME NEW w \in VMs, Bake(w)
        PROVE  Stages(v)'
    BY <1>12 DEF Bake, Goes
  <1>13. ASSUME NEW w \in VMs, Baked(w)
        PROVE  Stages(v)'
    BY <1>13 DEF Baked, Goes
  <1>14. ASSUME NEW w \in VMs, Rename(w)
        PROVE  Stages(v)'
    BY <1>14 DEF Rename, Place, Finish, Goes
  <1>15. ASSUME NEW w \in VMs, MakeOverlay(w)
        PROVE  Stages(v)'
    BY <1>15 DEF MakeOverlay, Place, Finish, Goes, Target
  <1>16. ASSUME NEW w \in VMs, GenDies(w)
        PROVE  Stages(v)'
    BY <1>16 DEF GenDies, Goes
  <1>17. ASSUME NEW w \in VMs, CleanAsk(w)
        PROVE  Stages(v)'
    BY <1>17 DEF CleanAsk, Free
  <1>18. ASSUME NEW w \in VMs, CleanBlind(w)
        PROVE  Stages(v)'
    BY <1>18 DEF CleanBlind, Free
  <1>19. ASSUME NEW w \in VMs, CleanRemove(w)
        PROVE  Stages(v)'
    BY <1>19 DEF CleanRemove, Remove
  <1>20. ASSUME NEW w \in VMs, CleanCreate(w)
        PROVE  Stages(v)'
    BY <1>20 DEF CleanCreate, Place
  <1>21. ASSUME NEW w \in VMs, CleanEnds(w)
        PROVE  Stages(v)'
    BY <1>21 DEF CleanEnds
  <1>22. ASSUME NEW w \in VMs, GuestStarts(w)
        PROVE  Stages(v)'
    BY <1>22 DEF GuestStarts
  <1>23. ASSUME NEW w \in VMs, GuestStops(w)
        PROVE  Stages(v)'
    BY <1>23 DEF GuestStops
  <1>24. CASE UNCHANGED vars
    BY <1>24 DEF vars
  <1> QED
    BY <1>1, <1>2, <1>3, <1>4, <1>5, <1>6, <1>7, <1>8, <1>9, <1>10, <1>11, <1>12, <1>13, <1>14,
       <1>15, <1>16, <1>17, <1>18, <1>19, <1>20, <1>21, <1>22, <1>23, <1>24 DEF Next, Gen, Clean, Up

LEMMA UpsOwnStep ==
  ASSUME TypeOK, NEW v \in VMs, Stages(v), \A x \in VMs : UpsOwn(x), [Next]_vars
  PROVE  UpsOwn(v)'
<1> USE Sorts
<1> USE DEF TypeOK, disk, up, count, hist, NoJob, Stages, UpsOwn
  <1>1. CASE Upgrade
    BY <1>1 DEF Upgrade
  <1>2. CASE UpStart
    BY <1>2 DEF UpStart
  <1>3. CASE UpClean
    BY <1>3 DEF UpClean, Remove, Free
  <1>4. CASE UpKeep
    BY <1>4 DEF UpKeep, UpNext
  <1>5. CASE UpMake
    BY <1>5, ByUp DEF Begun, Steps, Jobset
  <1>6. CASE UpEnds
    BY <1>6 DEF UpEnds, Free
  <1>7. ASSUME NEW w \in VMs, GenVm(w)
        PROVE  UpsOwn(v)'
    BY <1>7, ByHand DEF Begun, Steps, Jobset
  <1>8. ASSUME NEW w \in VMs, Check(w)
        PROVE  UpsOwn(v)'
    BY <1>8 DEF Check, Goes, Remove, UpToDate
  <1>9. ASSUME NEW w \in VMs, Unpack(w)
        PROVE  UpsOwn(v)'
    BY <1>9 DEF Unpack, Goes
  <1>10. ASSUME NEW w \in VMs, Unpacked(w)
        PROVE  UpsOwn(v)'
    BY <1>10 DEF Unpacked, Goes
  <1>11. ASSUME NEW w \in VMs, WriteRef(w)
        PROVE  UpsOwn(v)'
    BY <1>11 DEF WriteRef, Goes
  <1>12. ASSUME NEW w \in VMs, Bake(w)
        PROVE  UpsOwn(v)'
    BY <1>12 DEF Bake, Goes
  <1>13. ASSUME NEW w \in VMs, Baked(w)
        PROVE  UpsOwn(v)'
    BY <1>13 DEF Baked, Goes
  <1>14. ASSUME NEW w \in VMs, Rename(w)
        PROVE  UpsOwn(v)'
    BY <1>14 DEF Rename, Place, Finish, Goes
  <1>15. ASSUME NEW w \in VMs, MakeOverlay(w)
        PROVE  UpsOwn(v)'
    BY <1>15 DEF MakeOverlay, Place, Finish, Goes, Target
  <1>16. ASSUME NEW w \in VMs, GenDies(w)
        PROVE  UpsOwn(v)'
    BY <1>16 DEF GenDies, Goes
  <1>17. ASSUME NEW w \in VMs, CleanAsk(w)
        PROVE  UpsOwn(v)'
    BY <1>17 DEF CleanAsk, Free
  <1>18. ASSUME NEW w \in VMs, CleanBlind(w)
        PROVE  UpsOwn(v)'
    BY <1>18 DEF CleanBlind, Free
  <1>19. ASSUME NEW w \in VMs, CleanRemove(w)
        PROVE  UpsOwn(v)'
    BY <1>19 DEF CleanRemove, Remove
  <1>20. ASSUME NEW w \in VMs, CleanCreate(w)
        PROVE  UpsOwn(v)'
    BY <1>20 DEF CleanCreate, Place
  <1>21. ASSUME NEW w \in VMs, CleanEnds(w)
        PROVE  UpsOwn(v)'
    BY <1>21 DEF CleanEnds
  <1>22. ASSUME NEW w \in VMs, GuestStarts(w)
        PROVE  UpsOwn(v)'
    BY <1>22 DEF GuestStarts
  <1>23. ASSUME NEW w \in VMs, GuestStops(w)
        PROVE  UpsOwn(v)'
    BY <1>23 DEF GuestStops
  <1>24. CASE UNCHANGED vars
    BY <1>24 DEF vars
  <1> QED
    BY <1>1, <1>2, <1>3, <1>4, <1>5, <1>6, <1>7, <1>8, <1>9, <1>10, <1>11, <1>12, <1>13, <1>14,
       <1>15, <1>16, <1>17, <1>18, <1>19, <1>20, <1>21, <1>22, <1>23, <1>24 DEF Next, Gen, Clean, Up

LEMMA RefTrueStep ==
  ASSUME TypeOK, NEW v \in VMs, [Next]_vars,
         Stages(v), UpsOwn(v), RefTrue(v), OverlayFits(v)
  PROVE  RefTrue(v)'
<1> USE Sorts
<1> USE DEF TypeOK, disk, up, count, NoJob, RefTrue, Published, Stages, hist
  <1>1. CASE Upgrade
    BY <1>1 DEF Upgrade
  <1>2. CASE UpStart
    BY <1>2 DEF UpStart
  <1>3. CASE UpClean
    BY <1>3 DEF UpClean, Remove, Free
  <1>4. CASE UpKeep
    BY <1>4 DEF UpKeep, UpNext
  <1>5. CASE UpMake
    BY <1>5, ByUp DEF Begun, Steps, Jobset
  <1>6. CASE UpEnds
    BY <1>6 DEF UpEnds, Free
  <1>7. ASSUME NEW w \in VMs, GenVm(w)
        PROVE  RefTrue(v)'
    <2>1. PICK m \in AllModes, t \in Tags : Begun(w, m, t, "user")
      BY <1>7, ByHand
    <2>2. UNCHANGED <<backing, ref, newest, writers, cut>>
      BY <1>7, ByHand
    <2>3. CASE v = w
      BY <2>1, <2>2, <2>3 DEF Begun
    <2>4. CASE v # w
      BY <2>1, <2>2, <2>4 DEF Begun
    <2> QED
      BY <2>3, <2>4
  <1>8. ASSUME NEW w \in VMs, Check(w)
        PROVE  RefTrue(v)'
    <2>1. CASE v # w
      BY <1>8, <2>1 DEF Check, Goes
    <2>2. CASE v = w
      <3>1. UNCHANGED <<backing, ref, newest, job, writers, cut>> /\ pc[v] = "check" /\ job[v].mode = "image"
        BY <1>8, <2>2 DEF Check
      <3>2. CASE UpToDate(v)
        <4>1. pc'[v] = "overlay"
          BY <1>8, <2>2, <3>2 DEF Check, Goes
        <4> QED
          BY <3>1, <3>2, <4>1 DEF UpToDate
      <3>3. CASE ~UpToDate(v)
        <4>1. pc'[v] = "pull"
          BY <1>8, <2>2, <3>3 DEF Check, Goes
        <4> QED
          BY <3>1, <4>1
      <3> QED
        BY <3>2, <3>3
    <2> QED
      BY <2>1, <2>2
  <1>9. ASSUME NEW w \in VMs, Unpack(w)
        PROVE  RefTrue(v)'
    <2>1. CASE v # w
      BY <1>9, <2>1 DEF Unpack, Goes
    <2>2. CASE v = w
      <3>1. ref' = ref /\ pc'[v] = "unpack"
        BY <1>9, <2>2 DEF Unpack, Goes
      <3>2. v \notin cut' => ref[v] = None
        BY <1>9, <2>2 DEF Unpack
      <3> QED
        BY <3>1, <3>2
    <2> QED
      BY <2>1, <2>2
  <1>10. ASSUME NEW w \in VMs, Unpacked(w)
        PROVE  RefTrue(v)'
    BY <1>10 DEF Unpacked, Goes
  <1>11. ASSUME NEW w \in VMs, WriteRef(w)
        PROVE  RefTrue(v)'
    BY <1>11 DEF WriteRef, Goes
  <1>12. ASSUME NEW w \in VMs, Bake(w)
        PROVE  RefTrue(v)'
    BY <1>12 DEF Bake, Goes
  <1>13. ASSUME NEW w \in VMs, Baked(w)
        PROVE  RefTrue(v)'
    BY <1>13 DEF Baked, Goes
  <1>14. ASSUME NEW w \in VMs, Rename(w)
        PROVE  RefTrue(v)'
    BY <1>14 DEF Rename, Place, Finish, Goes
  <1>15. ASSUME NEW w \in VMs, MakeOverlay(w)
        PROVE  RefTrue(v)'
    BY <1>15 DEF MakeOverlay, Place, Finish, Goes, Target
  <1>16. ASSUME NEW w \in VMs, GenDies(w)
        PROVE  RefTrue(v)'
    BY <1>16 DEF GenDies, Goes
  <1>17. ASSUME NEW w \in VMs, CleanAsk(w)
        PROVE  RefTrue(v)'
    BY <1>17 DEF CleanAsk, Free
  <1>18. ASSUME NEW w \in VMs, CleanBlind(w)
        PROVE  RefTrue(v)'
    BY <1>18 DEF CleanBlind, Free
  <1>19. ASSUME NEW w \in VMs, CleanRemove(w)
        PROVE  RefTrue(v)'
    BY <1>19 DEF CleanRemove, Remove
  <1>20. ASSUME NEW w \in VMs, CleanCreate(w)
        PROVE  RefTrue(v)'
    BY <1>20 DEF CleanCreate, Place
  <1>21. ASSUME NEW w \in VMs, CleanEnds(w)
        PROVE  RefTrue(v)'
    BY <1>21 DEF CleanEnds
  <1>22. ASSUME NEW w \in VMs, GuestStarts(w)
        PROVE  RefTrue(v)'
    BY <1>22 DEF GuestStarts
  <1>23. ASSUME NEW w \in VMs, GuestStops(w)
        PROVE  RefTrue(v)'
    BY <1>23 DEF GuestStops
  <1>24. CASE UNCHANGED vars
    BY <1>24 DEF vars
  <1> QED
    BY <1>1, <1>2, <1>3, <1>4, <1>5, <1>6, <1>7, <1>8, <1>9, <1>10, <1>11, <1>12, <1>13, <1>14,
       <1>15, <1>16, <1>17, <1>18, <1>19, <1>20, <1>21, <1>22, <1>23, <1>24 DEF Next, Gen, Clean, Up

LEMMA OverlayFitsStep ==
  ASSUME TypeOK, NEW v \in VMs, [Next]_vars,
         Stages(v), UpsOwn(v), RefTrue(v), OverlayFits(v)
  PROVE  OverlayFits(v)'
<1> USE Sorts
<1> USE DEF TypeOK, disk, up, count, hist, NoJob, OverlayFits, Pulled, Stages
  <1>1. CASE Upgrade
    BY <1>1 DEF Upgrade
  <1>2. CASE UpStart
    BY <1>2 DEF UpStart
  <1>3. CASE UpClean
    BY <1>3 DEF UpClean, Remove, Free
  <1>4. CASE UpKeep
    BY <1>4 DEF UpKeep, UpNext
  <1>5. CASE UpMake
    BY <1>5, ByUp DEF Begun, Steps, Jobset
  <1>6. CASE UpEnds
    BY <1>6 DEF UpEnds, Free
  <1>7. ASSUME NEW w \in VMs, GenVm(w)
        PROVE  OverlayFits(v)'
    <2>1. PICK m \in AllModes, t \in Tags : Begun(w, m, t, "user")
      BY <1>7, ByHand
    <2>2. UNCHANGED <<backing, overlay, base, writers>>
      BY <1>7, ByHand
    <2>3. CASE v = w
      BY <2>1, <2>2, <2>3 DEF Begun
    <2>4. CASE v # w
      BY <2>1, <2>2, <2>4 DEF Begun
    <2> QED
      BY <2>3, <2>4
  <1>8. ASSUME NEW w \in VMs, Check(w)
        PROVE  OverlayFits(v)'
    BY <1>8 DEF Check, Goes, Remove, UpToDate
  <1>9. ASSUME NEW w \in VMs, Unpack(w)
        PROVE  OverlayFits(v)'
    BY <1>9 DEF Unpack, Goes
  <1>10. ASSUME NEW w \in VMs, Unpacked(w)
        PROVE  OverlayFits(v)'
    BY <1>10 DEF Unpacked, Goes
  <1>11. ASSUME NEW w \in VMs, WriteRef(w)
        PROVE  OverlayFits(v)'
    BY <1>11 DEF WriteRef, Goes
  <1>12. ASSUME NEW w \in VMs, Bake(w)
        PROVE  OverlayFits(v)'
    BY <1>12 DEF Bake, Goes
  <1>13. ASSUME NEW w \in VMs, Baked(w)
        PROVE  OverlayFits(v)'
    BY <1>13 DEF Baked, Goes
  <1>14. ASSUME NEW w \in VMs, Rename(w)
        PROVE  OverlayFits(v)'
    BY <1>14 DEF Rename, Place, Finish, Goes
  <1>15. ASSUME NEW w \in VMs, MakeOverlay(w)
        PROVE  OverlayFits(v)'
    BY <1>15 DEF MakeOverlay, Place, Finish, Goes, Target
  <1>16. ASSUME NEW w \in VMs, GenDies(w)
        PROVE  OverlayFits(v)'
    BY <1>16 DEF GenDies, Goes
  <1>17. ASSUME NEW w \in VMs, CleanAsk(w)
        PROVE  OverlayFits(v)'
    BY <1>17 DEF CleanAsk, Free
  <1>18. ASSUME NEW w \in VMs, CleanBlind(w)
        PROVE  OverlayFits(v)'
    BY <1>18 DEF CleanBlind, Free
  <1>19. ASSUME NEW w \in VMs, CleanRemove(w)
        PROVE  OverlayFits(v)'
    BY <1>19 DEF CleanRemove, Remove
  <1>20. ASSUME NEW w \in VMs, CleanCreate(w)
        PROVE  OverlayFits(v)'
    BY <1>20 DEF CleanCreate, Place
  <1>21. ASSUME NEW w \in VMs, CleanEnds(w)
        PROVE  OverlayFits(v)'
    BY <1>21 DEF CleanEnds
  <1>22. ASSUME NEW w \in VMs, GuestStarts(w)
        PROVE  OverlayFits(v)'
    BY <1>22 DEF GuestStarts
  <1>23. ASSUME NEW w \in VMs, GuestStops(w)
        PROVE  OverlayFits(v)'
    BY <1>23 DEF GuestStops
  <1>24. CASE UNCHANGED vars
    BY <1>24 DEF vars
  <1> QED
    BY <1>1, <1>2, <1>3, <1>4, <1>5, <1>6, <1>7, <1>8, <1>9, <1>10, <1>11, <1>12, <1>13, <1>14,
       <1>15, <1>16, <1>17, <1>18, <1>19, <1>20, <1>21, <1>22, <1>23, <1>24 DEF Next, Gen, Clean, Up

-----------------------------------------------------------------------------
LEMMA Inductive == Spec => []IndInv
<1>1. IndInv /\ [Next]_vars => IndInv'
  <2> SUFFICES ASSUME IndInv, [Next]_vars
               PROVE  IndInv'
    OBVIOUS
  <2>1. TypeOK'
    BY TypeStep DEF IndInv
  <2>2. ASSUME NEW v \in VMs
        PROVE  Stages(v)' /\ UpsOwn(v)' /\ RefTrue(v)' /\ OverlayFits(v)'
    BY StagesStep, UpsOwnStep, RefTrueStep, OverlayFitsStep DEF IndInv
  <2> QED
    BY <2>1, <2>2 DEF IndInv
<1> QED
  BY StartsSound, <1>1, PTL DEF Spec

(* Every variable keeps its type in every reachable state. *)
THEOREM TypeCorrect == Spec => []TypeOK
<1>1. IndInv => TypeOK
  BY DEF IndInv
<1> QED
  BY <1>1, Inductive, PTL

(* _fetch_backing_image: whatever was killed before, and in whatever order *)
(* the tags are asked for, gen-vm builds its overlay on the published      *)
(* image it was asked for, but for a pull killed over a recorded tag.      *)
THEOREM ImageAsAsked == Spec => []AskedImage
<1>1. IndInv => AskedImage
  BY DEF IndInv, AskedImage, RefTrue
<1> QED
  BY <1>1, Inductive, PTL

(* "Removing stale overlay": the owner of a backing image never has an     *)
(* overlay over a content that file no longer has.                         *)
THEOREM OwnerSound == Spec => []OwnOverlaySound
<1>1. IndInv => OwnOverlaySound
  BY DEF IndInv, OwnOverlaySound, OverlayFits
<1> QED
  BY <1>1, Inductive, PTL

-----------------------------------------------------------------------------
(* What one step does to an overlay that was there. *)
Kept(v) ==
  overlay[v] # None /\ overlay'[v] # overlay[v] =>
     \/ upPc = "clean" /\ upAt = v
     \/ pc[v] # "idle" /\ job[v].by = "user"
     \/ cleaner[v] # "idle"

LEMMA KeptStep ==
  ASSUME TypeOK, NEW v \in VMs, UpsOwn(v), Next
  PROVE  Kept(v)
<1> USE DEF TypeOK, Kept, UpsOwn, disk
<1>1. CASE Upgrade \/ UpStart \/ UpKeep \/ UpMake \/ UpEnds
  BY <1>1 DEF Upgrade, UpStart, UpKeep, UpMake, UpEnds
<1>2. CASE UpClean
  BY <1>2 DEF UpClean, Remove
<1>3. ASSUME NEW w \in VMs,
             \/ GenVm(w) \/ Unpack(w) \/ Unpacked(w) \/ WriteRef(w) \/ Bake(w)
             \/ Baked(w) \/ GenDies(w) \/ CleanAsk(w) \/ CleanBlind(w) \/ CleanEnds(w)
             \/ GuestStarts(w) \/ GuestStops(w)
      PROVE  Kept(v)
  BY <1>3 DEF GenVm, Unpack, Unpacked, WriteRef, Bake, Baked, GenDies,
                  CleanAsk, CleanBlind, CleanEnds, GuestStarts, GuestStops
<1>4. ASSUME NEW w \in VMs, Check(w)
      PROVE  Kept(v)
  BY <1>4 DEF Check, Remove
<1>5. ASSUME NEW w \in VMs, Rename(w) \/ MakeOverlay(w)
      PROVE  Kept(v)
  BY <1>5 DEF Rename, MakeOverlay, Place
<1>6. ASSUME NEW w \in VMs, CleanRemove(w) \/ CleanCreate(w)
      PROVE  Kept(v)
  BY <1>6 DEF CleanRemove, CleanCreate, Remove, Place
<1> QED
  BY <1>1, <1>2, <1>3, <1>4, <1>5, <1>6 DEF Next, Gen, Clean, Up

(* make_overlays: an overlay that exists is only removed or replaced by    *)
(* --clean-overlays, by a gen-vm the user runs or by qcow --clean.         *)
THEOREM OverlaysKept == Spec => UpKeepsOverlays
<1>1. IndInv /\ [Next]_vars => [\A v \in VMs : Kept(v)]_vars
  <2> SUFFICES ASSUME IndInv, Next
               PROVE  \A v \in VMs : Kept(v)
    OBVIOUS
  <2> QED
    BY KeptStep DEF IndInv
<1>2. [\A v \in VMs : Kept(v)]_vars =>
        [\A v \in VMs : overlay[v] # None /\ overlay'[v] # overlay[v] =>
          \/ upPc = "clean" /\ upAt = v
          \/ pc[v] # "idle" /\ job[v].by = "user"
          \/ cleaner[v] # "idle"]_vars
  BY DEF Kept
<1> QED
  BY <1>1, <1>2, Inductive, PTL DEF Spec, UpKeepsOverlays
=============================================================================
