------------------------- MODULE GuestAccess_proofs -------------------------
(* Two proofs about what opens a guest to its owner, and what it then says. *)
(* QuickStartImages: the keypair and the account quick-start uses, for any  *)
(* number of images, accounts, directories and verbs. GuestAgent: what the  *)
(* host concludes from a guest's agent, for any guests, caps, timeouts and  *)
(* answers left over. There the argument is that the script is in one of    *)
(* two halves, before and after it knows the accounts, and that as long as  *)
(* no answer was taken for another's, what it has not heard it still asks.  *)
EXTENDS QuickStartImages, GuestAgent, SequenceTheorems, WellFoundedInduction, TLAPS

---------------------------------------------------------------------------
(* QuickStartImages.                                                       *)

(* Every variable keeps its type in every reachable state. *)
THEOREM TypeCorrect == Spec => []TypeOK
<1> USE PinAssumption, AccountAssumption, DirAssumption, BoundAssumption, CarriesAssumption
<1>1. Init => TypeOK
  <2> SUFFICES ASSUME Init PROVE TypeOK
    OBVIOUS
  <2>1. /\ NoLayer \in [pin : Pins \union {NoPin}, dir : Dirs \union {Absent}]
        /\ NoKeys \in [pub : Pins \union {NoPin}, private : Pins \union {NoPin}]
    BY DEF NoLayer, NoKeys
  <2>2. /\ keyDir \in [ref : Pins \union {NoPin}, key : Pins \union {NoPin},
                       info : Pins \union {NoPin}] /\ over \in BOOLEAN
    BY DEF Init
  <2>3. /\ xml \in [Variants -> Pins] /\ writable \subseteq Dirs
        /\ layer \in [Variants -> [pin : Pins \union {NoPin}, dir : Dirs \union {Absent}]]
        /\ login \in [Variants -> Logins \union {Absent}]
        /\ keys \in [Dirs -> [pub : Pins \union {NoPin}, private : Pins \union {NoPin}]]
    BY <2>1 DEF Init
  <2>4. variant \in Variants /\ verb \in Verbs /\ pc = "idle" /\ username \in Logins
        /\ verbs \in 0 .. MaxVerbs
    BY DEF Init, Verbs
  <2> QED
    BY <2>2, <2>3, <2>4 DEF TypeOK
<1>2. TypeOK /\ [Next]_vars => TypeOK'
  <2> SUFFICES ASSUME TypeOK, [Next]_vars
               PROVE  TypeOK'
    OBVIOUS
  <2> USE DEF TypeOK, env, stackDir, guestKey, process, NoPin, Absent, Pins
  <2>1. CASE Upgrade
    BY <2>1 DEF Upgrade
  <2>2. CASE RemoveStack
    BY <2>2 DEF RemoveStack, NoLayer
  <2>3. ASSUME NEW v \in Verbs, NEW of \in Variants,
               NEW images \in writable \union {Absent}, Start(v, of, images)
        PROVE  TypeOK'
    BY <2>3 DEF Start, PinOf, DirOf, Verbs
  <2>4. CASE AdoptLogin
    BY <2>4 DEF AdoptLogin, Adopt, Login
  <2>5. CASE Preflight
    <3>1. layer' \in [Variants -> [pin : Pins \union {NoPin}, dir : Dirs \union {Absent}]]
      <4> DEFINE Layers == [pin : Pins \union {NoPin}, dir : Dirs \union {Absent}]
      <4>1. \A d \in writable : [pin |-> NoPin, dir |-> d] \in Layers
        OBVIOUS
      <4>2. layer \in [Variants -> Layers]
        OBVIOUS
      <4> HIDE DEF Layers
      <4>3. \/ layer' = layer
            \/ \E d \in writable : layer' = [layer EXCEPT ![variant] = [pin |-> NoPin, dir |-> d]]
        BY <2>5 DEF Preflight
      <4> QED BY <4>1, <4>2, <4>3 DEF Layers
    <3>2. pc' \in {"wait", "idle", "confirm"}
      BY <2>5 DEF Preflight, AfterPreflight
    <3>3. UNCHANGED <<xml, writable, login, keyDir, over, keys, verb, variant, username, verbs>>
      BY <2>5 DEF Preflight
    <3> QED
      BY <3>1, <3>2, <3>3
  <2>6. CASE Confirm
    BY <2>6 DEF Confirm
  <2>7. CASE Fetch
    BY <2>7 DEF Fetch
  <2>8. CASE Pull
    <3>1. PICK files \in SUBSET Carries[Pin] : keyDir' = Written(files) /\ Overwrites(files)
      BY <2>8 DEF Pull
    <3>2. Pin \in Pins \union {NoPin}
      BY DEF Pin, PinOf
    <3>3. /\ keyDir' \in [ref : Pins \union {NoPin}, key : Pins \union {NoPin},
                          info : Pins \union {NoPin}]
      BY <3>1, <3>2 DEF Written
    <3>4. over' \in BOOLEAN /\ pc' \in {"idle", "ref"}
      BY <2>8, <3>1 DEF Overwrites, Pull
    <3>5. UNCHANGED <<xml, writable, layer, login, keys, verb, variant, username, verbs>>
      BY <2>8 DEF Pull
    <3> QED
      BY <3>3, <3>4, <3>5
  <2>9. CASE WriteRef
    BY <2>9 DEF WriteRef, Pin, PinOf
  <2>10. CASE ReadoptLogin
    BY <2>10 DEF ReadoptLogin, Adopt, Login
  <2>11. CASE PublishPub
    <3> DEFINE Both == [pub : Pins \union {NoPin}, private : Pins \union {NoPin}]
               both == [keys[Dir] EXCEPT !.pub = IF @ = NoPin THEN keyDir.key ELSE @]
    <3>1. Dir \in Dirs => both \in Both
      BY <2>11
    <3>2. keys' = [keys EXCEPT ![Dir] = both]
      BY <2>11 DEF PublishPub
    <3> HIDE DEF both, Both
    <3>3. keys' \in [Dirs -> Both]
      BY <3>1, <3>2 DEF Both
    <3>4. pc' = "private" /\ UNCHANGED <<xml, writable, layer, login, keyDir, over, verb, variant, username, verbs>>
      BY <2>11 DEF PublishPub
    <3> QED BY <3>3, <3>4 DEF Both
  <2>12. CASE PublishPrivate
    <3> DEFINE Both == [pub : Pins \union {NoPin}, private : Pins \union {NoPin}]
               both == [keys[Dir] EXCEPT !.private = IF @ = NoPin THEN keyDir.key ELSE @]
    <3>1. Dir \in Dirs => both \in Both
      BY <2>12
    <3>2. keys' = [keys EXCEPT ![Dir] = both]
      BY <2>12 DEF PublishPrivate
    <3> HIDE DEF both, Both
    <3>3. keys' \in [Dirs -> Both]
      BY <3>1, <3>2 DEF Both
    <3>4. pc' = "compose" /\ UNCHANGED <<xml, writable, layer, login, keyDir, over, verb, variant, username, verbs>>
      BY <2>12 DEF PublishPrivate
    <3> QED BY <3>3, <3>4 DEF Both
  <2>13. CASE Compose
    BY <2>13 DEF Compose
  <2>14. CASE Wait \/ Killed
    BY <2>14 DEF Wait, Killed
  <2>15. CASE UNCHANGED vars
    BY <2>15 DEF vars
  <2> QED
    BY <2>1, <2>2, <2>3, <2>4, <2>5, <2>6, <2>7, <2>8, <2>9, <2>10, <2>11, <2>12,
       <2>13, <2>14, <2>15 DEF Next
<1> QED
  BY <1>1, <1>2, PTL DEF Spec

-----------------------------------------------------------------------------
(* The inductive form of KeyIsPinned.  While no pull over it is open, a    *)
(* recorded image's files are there: a pull that begins without a record   *)
(* leaves none, and one that begins over a record is excepted until a pull *)
(* ends.  A verb past the fetch stands on the record of its own pin.       *)
Have(p) ==
  /\ "key" \in Carries[p] => keyDir.key = p
  /\ "info" \in Carries[p] => keyDir.info = p

RefHonest ==
  /\ ~over /\ keyDir.ref # NoPin => Have(keyDir.ref)
  /\ pc = "ref" => Have(Pin) /\ keyDir.key # NoPin
  /\ Fetched => keyDir.ref = Pin /\ keyDir.key # NoPin

(* What the record is worth, in every reachable state. *)
LEMMA Recorded == Spec => []RefHonest
<1> USE PinAssumption, CarriesAssumption
<1>1. Init => RefHonest
  BY DEF Init, RefHonest, Fetched
<1>2. TypeOK /\ RefHonest /\ [Next]_vars => RefHonest'
  <2> SUFFICES ASSUME TypeOK, RefHonest, [Next]_vars
               PROVE  RefHonest'
    OBVIOUS
  <2> USE DEF TypeOK, RefHonest, Have, Fetched, Pin, PinOf, env, stackDir, guestKey, process,
              NoPin, Pins
  <2>1. CASE Upgrade
    BY <2>1 DEF Upgrade
  <2>2. CASE RemoveStack
    BY <2>2 DEF RemoveStack, NoLayer
  <2>3. ASSUME NEW v \in Verbs, NEW of \in Variants,
               NEW images \in writable \union {Absent}, Start(v, of, images)
        PROVE  RefHonest'
    BY <2>3 DEF Start
  <2>4. CASE AdoptLogin
    BY <2>4 DEF AdoptLogin
  <2>5. CASE Preflight
    BY <2>5 DEF Preflight, AfterPreflight
  <2>6. CASE Confirm
    BY <2>6 DEF Confirm
  <2>7. CASE Fetch
    BY <2>7 DEF Fetch
  <2>8. CASE Pull
    <3> HIDE DEF Pin, Have, Fetched
    <3>1. PICK files \in SUBSET Carries[Pin] :
             /\ keyDir' = Written(files) /\ Overwrites(files)
             /\ \/ pc' = "idle"
                \/ files = Carries[Pin] /\ keyDir'.key # NoPin /\ pc' = "ref"
      BY <2>8 DEF Pull
    <3>2. Pin' = Pin
      BY <2>8 DEF Pull, Pin
    <3>3. ~Fetched'
      BY <3>1 DEF Fetched
    <3>4. ~over' /\ keyDir'.ref # NoPin => Have(keyDir.ref)' /\ keyDir'.ref = keyDir.ref
      <4>1. keyDir'.ref = keyDir.ref
        BY <3>1 DEF Written
      <4>2. CASE files = {} /\ ~over
        BY <3>1, <4>1, <4>2 DEF Written, Have
      <4>3. CASE (files # {} \/ over) /\ keyDir.ref # NoPin
        BY <3>1, <4>3 DEF Overwrites
      <4>4. CASE over
        BY <3>1, <4>4 DEF Overwrites
      <4> QED
        BY <4>1, <4>2, <4>3, <4>4
    <3>5. pc' = "ref" => Have(Pin)' /\ keyDir'.key # NoPin
      BY <3>1, <3>2 DEF Written, Have
    <3> QED
      BY <3>3, <3>4, <3>5
  <2>9. CASE WriteRef
    BY <2>9 DEF WriteRef
  <2>10. CASE ReadoptLogin
    BY <2>10 DEF ReadoptLogin
  <2>11. CASE PublishPub
    BY <2>11 DEF PublishPub
  <2>12. CASE PublishPrivate
    BY <2>12 DEF PublishPrivate
  <2>13. CASE Compose
    BY <2>13 DEF Compose
  <2>14. CASE Wait \/ Killed
    BY <2>14 DEF Wait, Killed
  <2>15. CASE UNCHANGED vars
    BY <2>15 DEF vars
  <2> QED
    BY <2>1, <2>2, <2>3, <2>4, <2>5, <2>6, <2>7, <2>8, <2>9, <2>10, <2>11, <2>12,
       <2>13, <2>14, <2>15 DEF Next
<1> QED
  BY <1>1, <1>2, TypeCorrect, PTL DEF Spec

(* A verb's key and account file are those of the image it pins, as far as *)
(* it ships them, however the variants pin images and however many verbs   *)
(* were killed in or between the files before it, unless it was in a pull  *)
(* over the files of a recorded image.                                     *)
THEOREM KeyPinned == Spec => []KeyIsPinned
<1>1. TypeOK /\ RefHonest => KeyIsPinned
  <2> SUFFICES ASSUME TypeOK, RefHonest, Fetched, ~over
               PROVE  Have(Pin)
    BY DEF KeyIsPinned, Have
  <2>1. keyDir.ref = Pin /\ keyDir.key # NoPin
    BY DEF RefHonest
  <2>2. Pin \in Pins
    BY <2>1 DEF TypeOK, Pin, PinOf, NoPin
  <2>3. Pin # NoPin
    BY <2>2, PinAssumption DEF Pins, NoPin
  <2> QED
    BY <2>1, <2>3 DEF RefHonest
<1> QED
  BY <1>1, Recorded, TypeCorrect, PTL

-----------------------------------------------------------------------------
(* The inductive form of AccountAgrees: agreement begins with the adoption *)
(* every verb makes, so a test that goes from preflight straight to the    *)
(* wait has it too.                                                        *)
AccountKept ==
  pc \in {"preflight", "publish", "private", "compose", "wait"} =>
    /\ keyDir.info # NoPin => username = Account[keyDir.info]
    /\ Login = username

(* Every verb that waits for the guests uses the account of the image's    *)
(* own vm-info.json, and the layers name the same account to the others.   *)
THEOREM AccountAgreed == Spec => []AccountAgrees
<1> USE PinAssumption, AccountAssumption, DirAssumption
<1>1. Init => AccountKept
  BY DEF Init, AccountKept
<1>2. TypeOK /\ AccountKept /\ [Next]_vars => AccountKept'
  <2> SUFFICES ASSUME TypeOK, AccountKept, [Next]_vars
               PROVE  AccountKept'
    OBVIOUS
  <2> USE DEF TypeOK, AccountKept, Login, env, stackDir, guestKey, process, NoPin, Absent, Pins
  <2>1. CASE Upgrade
    BY <2>1 DEF Upgrade
  <2>2. CASE RemoveStack
    BY <2>2 DEF RemoveStack, NoLayer
  <2>3. ASSUME NEW v \in Verbs, NEW of \in Variants,
               NEW images \in writable \union {Absent}, Start(v, of, images)
        PROVE  AccountKept'
    BY <2>3 DEF Start
  <2>4. CASE AdoptLogin
    BY <2>4 DEF AdoptLogin, Adopt
  <2>5. CASE Preflight
    BY <2>5 DEF Preflight, AfterPreflight
  <2>6. CASE Confirm
    BY <2>6 DEF Confirm
  <2>7. CASE Fetch
    BY <2>7 DEF Fetch
  <2>8. CASE Pull
    BY <2>8 DEF Pull, Written, Overwrites
  <2>9. CASE WriteRef
    BY <2>9 DEF WriteRef
  <2>10. CASE ReadoptLogin
    BY <2>10 DEF ReadoptLogin, Adopt
  <2>11. CASE PublishPub
    BY <2>11 DEF PublishPub
  <2>12. CASE PublishPrivate
    BY <2>12 DEF PublishPrivate
  <2>13. CASE Compose
    BY <2>13 DEF Compose
  <2>14. CASE Wait \/ Killed
    BY <2>14 DEF Wait, Killed
  <2>15. CASE UNCHANGED vars
    BY <2>15 DEF vars
  <2> QED
    BY <2>1, <2>2, <2>3, <2>4, <2>5, <2>6, <2>7, <2>8, <2>9, <2>10, <2>11, <2>12,
       <2>13, <2>14, <2>15 DEF Next
<1>3. AccountKept => AccountAgrees
  BY DEF AccountKept, AccountAgrees
<1> QED
  BY <1>1, <1>2, <1>3, TypeCorrect, PTL DEF Spec

-----------------------------------------------------------------------------
(* The inductive form of BothHalves, one half at a time; that there is a   *)
(* key to publish is Recorded.                                             *)
HalvesKept ==
  /\ pc \in {"private", "compose"} => keys[Dir].pub # NoPin
  /\ pc = "compose" => keys[Dir].private # NoPin

(* A run that gets as far as the stack has published both halves of the    *)
(* guest's key in the images directory it uses.                            *)
THEOREM HalvesPublished == Spec => []BothHalves
<1> USE PinAssumption, DirAssumption
<1>1. Init => HalvesKept
  BY DEF Init, HalvesKept
<1>2. TypeOK /\ RefHonest /\ HalvesKept /\ [Next]_vars => HalvesKept'
  <2> SUFFICES ASSUME TypeOK, RefHonest, HalvesKept, [Next]_vars
               PROVE  HalvesKept'
    OBVIOUS
  <2> USE DEF TypeOK, RefHonest, Fetched, HalvesKept, Dir, DirOf, env, stackDir, guestKey, process,
              NoPin, Absent, Pins
  <2>1. CASE Upgrade
    BY <2>1 DEF Upgrade
  <2>2. CASE RemoveStack
    BY <2>2 DEF RemoveStack, NoLayer
  <2>3. ASSUME NEW v \in Verbs, NEW of \in Variants,
               NEW images \in writable \union {Absent}, Start(v, of, images)
        PROVE  HalvesKept'
    BY <2>3 DEF Start
  <2>4. CASE AdoptLogin
    BY <2>4 DEF AdoptLogin, Adopt
  <2>5. CASE Preflight
    BY <2>5 DEF Preflight, AfterPreflight
  <2>6. CASE Confirm
    BY <2>6 DEF Confirm
  <2>7. CASE Fetch
    BY <2>7 DEF Fetch
  <2>8. CASE Pull
    BY <2>8 DEF Pull, Written, Overwrites
  <2>9. CASE WriteRef
    BY <2>9 DEF WriteRef
  <2>10. CASE ReadoptLogin
    BY <2>10 DEF ReadoptLogin, Adopt
  <2>11. CASE PublishPub
    BY <2>11 DEF PublishPub
  <2>12. CASE PublishPrivate
    BY <2>12 DEF PublishPrivate
  <2>13. CASE Compose
    BY <2>13 DEF Compose
  <2>14. CASE Wait \/ Killed
    BY <2>14 DEF Wait, Killed
  <2>15. CASE UNCHANGED vars
    BY <2>15 DEF vars
  <2> QED
    BY <2>1, <2>2, <2>3, <2>4, <2>5, <2>6, <2>7, <2>8, <2>9, <2>10, <2>11, <2>12,
       <2>13, <2>14, <2>15 DEF Next
<1>3. HalvesKept => BothHalves
  BY DEF HalvesKept, BothHalves
<1> QED
  BY <1>1, <1>2, <1>3, TypeCorrect, Recorded, PTL DEF Spec

---------------------------------------------------------------------------
(* The guest agent. What is still to be asked: while a handle is closed,   *)
(* its task is done.                                                       *)
Left == IF step = "close" THEN Tail(todo) ELSE todo
Paths(left) == {t.path : t \in Range(left)}

EarlyTask(t) ==
    \/ t.do \in Facts \cup {"sync", "users"} /\ t.path = <<>>
    \/ t.do = "file" /\ t.path \in {Passwd, Keys, Stat, Unix}
    \/ t.do = "file" /\ Is(t, "node") /\ t.path[2] \in Nat /\ t.path = Node(t.path[2])
    \/ t.do = "probe" /\ t.path \in {Docker, Utmp, SessionsDir}
WalkTask(t) == t.do = "file" /\ (Is(t, "user") \/ Is(t, "session"))
NoWalk(paths) == \A p \in paths : p[1] \notin {"user", "session"}

(* The script has two halves: up to nsswitch it asks a list that is fixed  *)
(* but for the device nodes, and then it walks accounts and sessions.      *)
Opening(inf, left) ==
    /\ left # <<>> /\ left[Len(left)] = Do("file", Nsswitch)
    /\ \A i \in 1..(Len(left) - 1) : EarlyTask(left[i])
    /\ inf.complete = FALSE /\ NoWalk(inf.partial)
Walking(inf, left) ==
    /\ \A i \in DOMAIN left : WalkTask(left[i])
    /\ NoWalk(inf.before)

InfoOK(inf) ==
    /\ inf = [ran |-> inf.ran, users |-> inf.users, docker |-> inf.docker,
              utmp |-> inf.utmp, logind |-> inf.logind, complete |-> inf.complete,
              before |-> inf.before, gpu_complete |-> inf.gpu_complete,
              files |-> inf.files, partial |-> inf.partial]
    /\ inf.complete \in BOOLEAN /\ inf.gpu_complete \in BOOLEAN
    /\ inf.before \subseteq inf.partial
Halves(inf, left) == Opening(inf, left) \/ Walking(inf, left)

Shape ==
    /\ guest \in Guests /\ opened \subseteq DOMAIN guest.files
    /\ todo \in Seq(Range(todo)) /\ step \in {"ask", "read", "close"}
    /\ todo = <<>> => step = "ask"
    /\ step = "read" => Task.do = "file"
    /\ step = "close" => Task.do \in {"file", "probe"}
    /\ InfoOK(info) /\ Halves(info, Left)

(* An answer in the line is a true one of the request it is to, whichever  *)
(* request it will be taken for.                                           *)
Texts == {Text(q) : q \in DOMAIN guest.files}
Lists == {{}, {None}, guest.users}
Truthful(m) ==
    /\ m.to.do = "open" =>
          IF Opens(m.to.path)
          THEN m.kind = "handle" /\ m.of = m.to.path ELSE m.kind = "error"
    /\ m.to.do = "read" /\ m.kind = "text" =>
          m.to.path \in DOMAIN guest.files /\ m.of = Text(m.to.path)
    /\ m.to.do = "users" /\ m.kind = "list" => m.of = guest.users
    /\ m.kind = "text" => m.of \in Texts
    /\ m.kind = "list" => m.of \in Lists
LineTrue == line \in Seq(Range(line)) /\ \A i \in DOMAIN line : Truthful(line[i])

(* Whatever was taken for what, only the guest's texts are told.           *)
OnlyTexts(inf) ==
    /\ \A p \in DOMAIN inf.files : inf.files[p] \in Texts
    /\ inf.users \in Lists \cup {None}

(* What the answers to its own requests told the script.                   *)
SomeNode(inf) == \E p \in DOMAIN inf.files : p[1] = "node"
FilesKnown(inf) ==
    \A p \in DOMAIN inf.files :
        /\ p \in DOMAIN guest.files /\ inf.files[p] = Text(p)
        /\ guest.files[p].read = "short" => p \in inf.partial
LoginsKnown(inf) ==
    /\ inf.users \in {None, guest.users}
    /\ inf.utmp = TRUE => Utmp \in DOMAIN guest.files
NodesKnown(inf, left) ==
    /\ inf.gpu_complete => guest.gpus = 0 \/ ~Opens(Node(1)) \/ SomeNode(inf)
    /\ \A t \in Range(left) : Is(t, "node") => t.path = Node(1) \/ SomeNode(inf)

(* No account on the guest is forgotten by a walk that is complete: its    *)
(* state file or its session is yet to be read, or its session was.        *)
Good(u, s) ==
    Opens(User(u)) /\ SessionOf(u, s) /\ s \in Digits /\ Opens(Session(s))
Walked(inf, left) ==
    /\ Passwd \in DOMAIN inf.files \ inf.partial
    /\ Range(Parsed(File(inf, Nsswitch), "nsswitch")) \subseteq Sources
    /\ \A u \in LocalOn : \A s \in Sids(u) : Good(u, s) =>
          \/ User(u) \in Paths(left) \/ Session(s) \in Paths(left)
          \/ Session(s) \in DOMAIN inf.files
Followed(inf, left) == inf.complete /\ inf.partial = inf.before => Walked(inf, left)

Known(inf, left) ==
    FilesKnown(inf) /\ LoginsKnown(inf) /\ NodesKnown(inf, left) /\ Followed(inf, left)

AgentInv ==
    /\ Shape /\ LineTrue /\ OnlyTexts(info)
    /\ crossed \/ (Known(info, Left) /\ (step = "read" => handle = Task.path))

---------------------------------------------------------------------------
(* Sequences.                                                              *)

(* A nonempty set of numbers has a least one.                              *)
LEMMA Least ==
  ASSUME NEW T, T \subseteq Nat, T # {}
  PROVE  \E m \in T : \A k \in T : m <= k
<1> DEFINE R == {ss \in Nat \X Nat : ss[1] < ss[2]}
<1>1. IsWellFoundedOn(R, Nat)
  BY NatLessThanWellFounded DEF OpToRel
<1>2. PICK m \in T : \A k \in T : <<k, m>> \notin R
  <2> HIDE DEF R
  <2> QED BY <1>1, WFMin
<1>3. ASSUME NEW k \in T PROVE m <= k
  <2>1. k \in Nat /\ m \in Nat
    OBVIOUS
  <2>2. ~(k < m)
    BY <1>2, <2>1
  <2> QED BY <2>1, <2>2
<1> QED BY <1>3

(* The function by which Those is defined.                                 *)
Kept(f, n, s, S) ==
    f = [i \in 0..n |-> IF i = 0 THEN <<>>
                        ELSE IF s[i] \in S THEN Append(f[i - 1], s[i]) ELSE f[i - 1]]

LEMMA SomeKept ==
  ASSUME NEW s, NEW S, NEW n \in Nat
  PROVE  \E f : Kept(f, n, s, S)
<1> DEFINE bad == {m \in Nat : ~ \E f : Kept(f, m, s, S)}
<1> SUFFICES ASSUME bad # {} PROVE FALSE
  OBVIOUS
<1>1. PICK m \in bad : \A k \in bad : m <= k
  <2>1. bad \subseteq Nat
    OBVIOUS
  <2> HIDE DEF bad
  <2> QED BY <2>1, Least
<1>2. CASE m = 0
  <2> DEFINE f == [i \in 0..0 |-> <<>>]
  <2>1. Kept(f, 0, s, S)
    BY DEF Kept
  <2> QED BY <1>1, <1>2, <2>1
<1>3. CASE m # 0
  <2>1. m - 1 \in Nat /\ m - 1 \notin bad
    BY <1>1, <1>3
  <2>2. PICK f : Kept(f, m - 1, s, S)
    BY <2>1
  <2> DEFINE g == [i \in 0..m |->
                     IF i # m THEN f[i]
                     ELSE IF s[m] \in S THEN Append(f[m - 1], s[m]) ELSE f[m - 1]]
  <2>3. \A i \in 0..(m - 1) : f[i] = IF i = 0 THEN <<>>
                ELSE IF s[i] \in S THEN Append(f[i - 1], s[i]) ELSE f[i - 1]
    BY <2>1, <2>2 DEF Kept
  <2>4. ASSUME NEW i \in 0..m
        PROVE  g[i] = IF i = 0 THEN <<>>
                      ELSE IF s[i] \in S THEN Append(g[i - 1], s[i]) ELSE g[i - 1]
    <3>1. i # 0 => i - 1 \in 0..m /\ i - 1 # m /\ g[i - 1] = f[i - 1]
      BY <2>1
    <3>2. CASE i = m
      BY <1>3, <3>1, <3>2
    <3>3. CASE i # m
      <4>1. i \in 0..(m - 1) /\ g[i] = f[i]
        BY <3>3, <2>1
      <4> HIDE DEF g
      <4> QED BY <2>3, <3>1, <4>1
    <3> QED BY <3>2, <3>3
  <2>5. g = [i \in 0..m |-> g[i]]
    OBVIOUS
  <2> HIDE DEF g
  <2>6. Kept(g, m, s, S)
    BY <2>4, <2>5 DEF Kept
  <2> QED BY <1>1, <2>6
<1> QED BY <1>2, <1>3

(* Those(s, S) is a sequence of the elements of s in S.                    *)
LEMMA ThoseAre ==
  ASSUME NEW A, NEW s \in Seq(A), NEW S
  PROVE  Those(s, S) \in Seq(A) /\ Range(Those(s, S)) = Range(s) \cap S
<1> DEFINE f == CHOOSE g : Kept(g, Len(s), s, S)
           Fine(n) == f[n] \in Seq(A) /\ Range(f[n]) = {s[i] : i \in 1..n} \cap S
           bad == {n \in 0..Len(s) : ~Fine(n)}
<1>1. Len(s) \in Nat /\ DOMAIN s = 1..Len(s) /\ \A i \in 1..Len(s) : s[i] \in A
  BY LenProperties
<1>2. Kept(f, Len(s), s, S)
  BY <1>1, SomeKept
<1>3. Those(s, S) = f[Len(s)]
  BY DEF Those, Kept
<1> HIDE DEF f
<1>4. \A i \in 0..Len(s) : f[i] = IF i = 0 THEN <<>>
              ELSE IF s[i] \in S THEN Append(f[i - 1], s[i]) ELSE f[i - 1]
  BY <1>1, <1>2 DEF Kept
<1>5. bad = {}
  <2> SUFFICES ASSUME bad # {} PROVE FALSE
    OBVIOUS
  <2>1. PICK m \in bad : \A k \in bad : m <= k
    <3>1. bad \subseteq Nat
      BY <1>1
    <3> HIDE DEF bad
    <3> QED BY <3>1, Least
  <2>2. CASE m = 0
    <3>1. f[0] = <<>>
      BY <1>1, <1>4
    <3>2. {s[i] : i \in 1..0} = {} /\ Range(<<>>) = {} /\ <<>> \in Seq(A)
      BY EmptySeq DEF Range
    <3> QED BY <2>1, <2>2, <3>1, <3>2
  <2>3. CASE m # 0
    <3>0. m \in 0..Len(s)
      OBVIOUS
    <3>1. m \in 1..Len(s) /\ m - 1 \in 0..Len(s) /\ m - 1 \notin bad
      <4> HIDE DEF bad
      <4>2. m \in 1..Len(s) /\ m - 1 \in 0..Len(s) /\ m - 1 \in Int /\ ~(m <= m - 1)
        BY <1>1, <2>3, <3>0
      <4> QED BY <2>1, <4>2
    <3>2. Fine(m - 1)
      BY <3>1
    <3> HIDE DEF bad
    <3>3. {s[i] : i \in 1..m} = {s[i] : i \in 1..(m - 1)} \cup {s[m]}
      BY <3>1
    <3>4. CASE s[m] \in S
      <4>1. f[m] = Append(f[m - 1], s[m])
        BY <1>4, <2>3, <3>0, <3>4
      <4>2. f[m] \in Seq(A) /\ Range(f[m]) = Range(f[m - 1]) \cup {s[m]}
        <5> DEFINE r == f[m - 1]
                   e == s[m]
        <5>1. r \in Seq(A) /\ e \in A /\ f[m] = Append(r, e)
          BY <1>1, <3>1, <3>2, <4>1
        <5> HIDE DEF r, e
        <5> DEFINE q == <<e>>
        <5>2. f[m] = r \o q /\ q \in Seq(A) /\ Range(q) = {e}
          BY <5>1, AppendIsConcat DEF Range
        <5> HIDE DEF q
        <5>3. r \o q \in Seq(A)
          BY <5>1, <5>2, ConcatProperties
        <5>4. Range(r \o q) = Range(r) \cup Range(q)
          BY <5>1, <5>2, RangeConcatenation
        <5>5. f[m] \in Seq(A) /\ Range(f[m]) = Range(r) \cup {e}
          BY <5>2, <5>3, <5>4
        <5> QED BY <5>5 DEF r, e
      <4>3. Fine(m)
        BY <3>2, <3>3, <3>4, <4>2
      <4> QED BY <2>1, <4>3 DEF bad
    <3>5. CASE s[m] \notin S
      <4>1. f[m] = f[m - 1]
        BY <1>4, <2>3, <3>0, <3>5
      <4>2. Fine(m)
        BY <3>2, <3>3, <3>5, <4>1
      <4> QED BY <2>1, <4>2 DEF bad
    <3> QED BY <3>4, <3>5
  <2> QED BY <2>2, <2>3
<1>6. Fine(Len(s))
  <2>1. Len(s) \in 0..Len(s)
    BY <1>1
  <2> HIDE DEF Fine
  <2> QED BY <1>5, <2>1
<1>7. Range(s) = {s[i] : i \in 1..Len(s)}
  BY <1>1 DEF Range
<1> QED BY <1>3, <1>6, <1>7

LEMMA CappedIs ==
  ASSUME NEW A, NEW s \in Seq(A), NEW n \in Nat
  PROVE  /\ Capped(s, n) \in Seq(A) /\ Range(Capped(s, n)) \subseteq Range(s)
         /\ Len(s) <= n => Capped(s, n) = s
<1> DEFINE m == IF Len(s) > n THEN n ELSE Len(s)
<1>1. Len(s) \in Nat /\ DOMAIN s = 1..Len(s) /\ \A i \in 1..Len(s) : s[i] \in A
  BY LenProperties
<1>2. m \in Nat /\ m <= Len(s) /\ \A i \in 1..m : s[i] \in A
  BY <1>1
<1>3. Capped(s, n) = SubSeq(s, 1, m)
  BY DEF Capped
<1>4. Len(s) <= n => m = Len(s)
  <2>1. Len(s) <= n => ~(Len(s) > n)
    BY <1>1
  <2> QED BY <2>1
<1> HIDE DEF m
<1>5. /\ SubSeq(s, 1, m) \in Seq(A) /\ Len(SubSeq(s, 1, m)) = m
      /\ \A i \in 1..m : SubSeq(s, 1, m)[i] = s[i]
  BY <1>2, SubSeqProperties
<1>6. Range(SubSeq(s, 1, m)) \subseteq Range(s)
  <2>1. DOMAIN SubSeq(s, 1, m) = 1..m
    BY <1>5, LenProperties
  <2> QED BY <1>1, <1>2, <1>5, <2>1 DEF Range
<1>7. SubSeq(s, 1, Len(s)) = s
  BY SubSeqFull
<1> QED BY <1>3, <1>4, <1>5, <1>6, <1>7

LEMMA HeadAndTail ==
  ASSUME NEW s, s \in Seq(Range(s)), s # <<>>
  PROVE  /\ Head(s) = s[1] /\ Head(s) \in Range(s) /\ Tail(s) \in Seq(Range(s))
         /\ Len(Tail(s)) = Len(s) - 1 /\ Len(s) \in Nat \ {0}
         /\ DOMAIN s = 1..Len(s) /\ DOMAIN Tail(s) = 1..(Len(s) - 1)
         /\ \A i \in 1..(Len(s) - 1) : Tail(s)[i] = s[i + 1]
         /\ Range(s) = {Head(s)} \cup Range(Tail(s))
<1> DEFINE A == Range(s)
<1>1. s \in Seq(A)
  OBVIOUS
<1>2. Len(s) \in Nat \ {0} /\ DOMAIN s = 1..Len(s)
  BY <1>1, LenProperties, EmptySeq
<1> HIDE DEF A
<1>3. /\ Head(s) \in A /\ Tail(s) \in Seq(A) /\ Len(Tail(s)) = Len(s) - 1
      /\ \A i \in 1..Len(Tail(s)) : Tail(s)[i] = s[i + 1]
  BY <1>1, HeadTailProperties
<1>4. Head(s) = s[1]
  BY <1>1
<1>5. DOMAIN Tail(s) = 1..(Len(s) - 1)
  BY <1>3, LenProperties
<1>6. Range(s) = {Head(s)} \cup Range(Tail(s))
  <2> DEFINE n == Len(s)
             r == Tail(s)
  <2>1. n \in Nat /\ n # 0 /\ \A i \in 1..(n - 1) : i + 1 \in 1..n /\ r[i] = s[i + 1]
    BY <1>2, <1>3
  <2>2. DOMAIN s = 1..n /\ DOMAIN r = 1..(n - 1) /\ Head(s) = s[1]
    BY <1>2, <1>4, <1>5
  <2> HIDE DEF n, r
  <2>3. \A i \in 1..n : i = 1 \/ (i - 1 \in 1..(n - 1) /\ r[i - 1] = s[i])
    BY <2>1
  <2>4. 1 \in 1..n
    BY <2>1
  <2>5. Range(s) \subseteq {Head(s)} \cup Range(r)
    BY <2>2, <2>3 DEF Range
  <2>6. {Head(s)} \cup Range(r) \subseteq Range(s)
    BY <2>1, <2>2, <2>4 DEF Range
  <2> QED BY <2>5, <2>6 DEF r
<1> QED BY <1>2, <1>3, <1>4, <1>5, <1>6 DEF A

(* The elements of a concatenation, by position and as a set.              *)
LEMMA Joined ==
  ASSUME NEW A, NEW s \in Seq(A), NEW t \in Seq(A)
  PROVE  /\ s \o t \in Seq(A) /\ Range(s \o t) = Range(s) \cup Range(t)
         /\ DOMAIN (s \o t) = 1..(Len(s) + Len(t))
         /\ Len(s \o t) = Len(s) + Len(t) /\ Len(s) \in Nat /\ Len(t) \in Nat
         /\ \A i \in 1..(Len(s) + Len(t)) :
               (s \o t)[i] = IF i <= Len(s) THEN s[i] ELSE t[i - Len(s)]
<1>1. /\ s \o t \in Seq(A) /\ Len(s \o t) = Len(s) + Len(t)
      /\ \A i \in 1..(Len(s) + Len(t)) :
            (s \o t)[i] = IF i <= Len(s) THEN s[i] ELSE t[i - Len(s)]
  BY ConcatProperties
<1>2. Range(s \o t) = Range(s) \cup Range(t)
  BY RangeConcatenation
<1> QED BY <1>1, <1>2, LenProperties

LEMMA Joins ==
  ASSUME NEW s, s \in Seq(Range(s)), NEW t, t \in Seq(Range(t))
  PROVE  /\ s \o t \in Seq(Range(s \o t)) /\ Range(s \o t) = Range(s) \cup Range(t)
         /\ DOMAIN (s \o t) = 1..(Len(s) + Len(t))
         /\ Len(s \o t) = Len(s) + Len(t) /\ Len(s) \in Nat /\ Len(t) \in Nat
         /\ \A i \in 1..(Len(s) + Len(t)) :
               (s \o t)[i] = IF i <= Len(s) THEN s[i] ELSE t[i - Len(s)]
<1> DEFINE A == Range(s) \cup Range(t)
<1>1. s \in Seq(A)
  BY SeqMonotonic
<1>2. t \in Seq(A)
  BY SeqMonotonic
<1> HIDE DEF A
<1>3. s \o t \in Seq(Range(s \o t))
  BY <1>1, <1>2, ConcatProperties, SeqOfRange
<1> QED BY <1>1, <1>2, <1>3, Joined

(* Every element of a sequence is at some position of it.                  *)
LEMMA Positions ==
  ASSUME NEW s, s \in Seq(Range(s))
  PROVE  /\ Len(s) \in Nat /\ DOMAIN s = 1..Len(s)
         /\ \A x \in Range(s) : \E i \in 1..Len(s) : s[i] = x
         /\ \A i \in 1..Len(s) : s[i] \in Range(s)
         /\ s # <<>> <=> Len(s) # 0
<1> DEFINE A == Range(s)
<1>1. s \in Seq(A)
  OBVIOUS
<1> HIDE DEF A
<1>2. Len(s) \in Nat /\ DOMAIN s = 1..Len(s) /\ (s # <<>> <=> Len(s) # 0)
  BY <1>1, LenProperties, EmptySeq
<1> QED BY <1>2 DEF Range

LEMMA NoElement == Range(<<>>) = {} /\ <<>> \in Seq(Range(<<>>)) /\ Len(<<>>) = 0
<1>1. DOMAIN <<>> = {}
  OBVIOUS
<1> QED BY <1>1, EmptySeq DEF Range

---------------------------------------------------------------------------
(* Files.                                                                  *)

LEMMA TextIs ==
  ASSUME guest \in Guests, NEW q \in DOMAIN guest.files
  PROVE  /\ Text(q).kind = guest.files[q].kind /\ Text(q).read = guest.files[q].read
         /\ Text(q).of \in Seq(Range(Text(q).of))
         /\ Range(Text(q).of) \subseteq Range(guest.files[q].of)
         /\ guest.files[q].read # "short" => Text(q) = guest.files[q]
<1> DEFINE f == guest.files[q]
           short == [f EXCEPT !.of = Front(@)]
<1>1. DOMAIN f = {"kind", "of", "read"} /\ f.of \in Seq(Range(f.of))
  BY GuestAssumption DEF GuestAssumption
<1>2. Text(q) = IF f.read = "short" THEN short ELSE f
  BY DEF Text
<1> HIDE DEF f
<1>3. short.kind = f.kind /\ short.read = f.read /\ short.of = Front(f.of)
  BY <1>1
<1>4. Front(f.of) \in Seq(Range(Front(f.of))) /\ Range(Front(f.of)) \subseteq Range(f.of)
  <2> DEFINE s == f.of
             n == Len(s) - 1
             r == SubSeq(s, 1, n)
  <2>1. Front(f.of) = r
    BY DEF Front
  <2>2. s \in Seq(Range(s)) /\ Len(s) \in Nat /\ DOMAIN s = 1..Len(s)
    BY <1>1, Positions
  <2> HIDE DEF s
  <2>3. n \in Int /\ 1 \in Int /\ \A i \in 1..n : s[i] \in Range(s)
    BY <2>2 DEF Range
  <2> HIDE DEF n
  <2>4. r \in Seq(Range(s))
    BY <2>3, SubSeqProperties
  <2> HIDE DEF r
  <2>5. r \in Seq(Range(r)) /\ Range(r) \subseteq Range(s)
    BY <2>4, SeqOfRange, RangeOfSeq
  <2> QED BY <2>1, <2>5 DEF s
<1> HIDE DEF short
<1> QED BY <1>1, <1>2, <1>3, <1>4 DEF f

(* What is read is a text of the guest, or none.                           *)
LEMMA TextOrNone ==
  ASSUME guest \in Guests, NEW text \in Texts \cup {NoText}
  PROVE  text.of \in Seq(Range(text.of)) /\ Parsed(text, "user") \in Seq(Range(text.of))
<1>1. CASE text = NoText
  BY <1>1, NoElement DEF NoText, Parsed
<1>2. CASE text \in Texts
  <2>1. text.of \in Seq(Range(text.of))
    BY <1>2, TextIs DEF Texts
  <2>2. <<>> \in Seq(Range(text.of))
    BY EmptySeq
  <2> QED BY <2>1, <2>2 DEF Parsed
<1> QED BY <1>1, <1>2

FewIds(text) == Len(Sessions(text)) <= MaxSids /\ Len(Parsed(text, "user")) <= MaxToks

(* What an answer to t makes of what was known.                            *)
IsRead(now, inf, t, text, short) ==
    LET got == text.kind # "none" IN
    /\ InfoOK(now)
    /\ now.files = IF got THEN Added(inf.files, t.path, text) ELSE inf.files
    /\ now.partial = IF short THEN inf.partial \cup {t.path} ELSE inf.partial
    /\ now.gpu_complete = (inf.gpu_complete \/ (Is(t, "node") /\ ~got /\ ~short))
    /\ now.users = inf.users /\ now.utmp = inf.utmp
    /\ t.path = Nsswitch => now.complete = AllAccounts(now) /\ now.before = now.partial
    /\ t.path # Nsswitch => now.before = inf.before /\ (now.complete => inf.complete)
    /\ t.path # Nsswitch /\ Is(t, "user") /\ now.complete => FewIds(text)

LEMMA ReadIs ==
  ASSUME NEW inf, InfoOK(inf), NEW t, NEW text, NEW short \in BOOLEAN
  PROVE  IsRead(Read(inf, t, text, short), inf, t, text, short)
<1> DEFINE got == text.kind # "none"
           files == IF got THEN Added(inf.files, t.path, text) ELSE inf.files
           partial == IF short THEN inf.partial \cup {t.path} ELSE inf.partial
           gpus == inf.gpu_complete \/ (Is(t, "node") /\ ~got /\ ~short)
           mid == [inf EXCEPT !.files = files, !.partial = partial, !.gpu_complete = gpus]
           now == Read(inf, t, text, short)
           few == FewIds(text)
<1>1. now = CASE t.path = Nsswitch ->
                   [mid EXCEPT !.complete = AllAccounts(mid), !.before = mid.partial]
              [] Is(t, "user") -> [mid EXCEPT !.complete = @ /\ Len(Sessions(text)) <= MaxSids
                                                             /\ Len(Parsed(text, "user")) <= MaxToks]
              [] OTHER -> mid
  BY Zenon DEF Read, FewIds
<1> HIDE DEF few, now
<1>2. partial \in {inf.partial, inf.partial \cup {t.path}} /\ gpus \in BOOLEAN
  BY DEF InfoOK
<1> HIDE DEF files, partial, gpus
<1>3. mid = [ran |-> inf.ran, users |-> inf.users, docker |-> inf.docker,
             utmp |-> inf.utmp, logind |-> inf.logind, complete |-> inf.complete,
             before |-> inf.before, gpu_complete |-> gpus,
             files |-> files, partial |-> partial]
  <2>1. inf = [ran |-> inf.ran, users |-> inf.users, docker |-> inf.docker,
               utmp |-> inf.utmp, logind |-> inf.logind, complete |-> inf.complete,
               before |-> inf.before, gpu_complete |-> inf.gpu_complete,
               files |-> inf.files, partial |-> inf.partial]
    BY DEF InfoOK
  <2> DEFINE m1 == [inf EXCEPT !.files = files]
             m2 == [m1 EXCEPT !.partial = partial]
  <2>2. m1 = [ran |-> inf.ran, users |-> inf.users, docker |-> inf.docker,
              utmp |-> inf.utmp, logind |-> inf.logind, complete |-> inf.complete,
              before |-> inf.before, gpu_complete |-> inf.gpu_complete,
              files |-> files, partial |-> inf.partial]
    BY <2>1
  <2> HIDE DEF m1
  <2>3. m2 = [ran |-> inf.ran, users |-> inf.users, docker |-> inf.docker,
              utmp |-> inf.utmp, logind |-> inf.logind, complete |-> inf.complete,
              before |-> inf.before, gpu_complete |-> inf.gpu_complete,
              files |-> files, partial |-> partial]
    BY <2>2
  <2> HIDE DEF m2
  <2>4. mid = [m2 EXCEPT !.gpu_complete = gpus]
    BY DEF m1, m2
  <2> QED BY <2>3, <2>4
<1> HIDE DEF mid
<1>4. mid.partial = partial /\ mid.files = files
  BY <1>3
<1>5. AllAccounts(mid) \in BOOLEAN
  BY DEF AllAccounts
<1>6. CASE t.path = Nsswitch
  <2> DEFINE all == AllAccounts(mid)
  <2>1. now = [mid EXCEPT !.complete = all, !.before = mid.partial]
    BY <1>1, <1>6 DEF Is, Nsswitch
  <2>2. all \in BOOLEAN
    BY <1>5
  <2> HIDE DEF all
  <2>3. now = [ran |-> inf.ran, users |-> inf.users, docker |-> inf.docker,
               utmp |-> inf.utmp, logind |-> inf.logind, complete |-> all,
               before |-> partial, gpu_complete |-> gpus,
               files |-> files, partial |-> partial]
    BY <1>3, <1>4, <2>1
  <2>4. AllAccounts(now) = AllAccounts(mid)
    BY <1>4, <2>3 DEF AllAccounts, Uids, File
  <2> QED BY <1>2, <1>6, <2>2, <2>3, <2>4 DEF IsRead, InfoOK, now, files, partial, gpus, all
<1>7. CASE t.path # Nsswitch /\ Is(t, "user")
  <2>1. now = [mid EXCEPT !.complete = @ /\ few]
    BY <1>1, <1>7 DEF few, FewIds
  <2>2. now = [ran |-> inf.ran, users |-> inf.users, docker |-> inf.docker,
               utmp |-> inf.utmp, logind |-> inf.logind, complete |-> inf.complete /\ few,
               before |-> inf.before, gpu_complete |-> gpus,
               files |-> files, partial |-> partial]
    BY <1>3, <2>1
  <2>3. /\ InfoOK(now) /\ now.files = files /\ now.partial = partial
        /\ now.gpu_complete = gpus /\ now.users = inf.users /\ now.utmp = inf.utmp
        /\ now.before = inf.before /\ (now.complete => inf.complete /\ few)
    BY <1>2, <2>2 DEF InfoOK
  <2> QED BY <1>7, <2>3 DEF IsRead, now, files, partial, gpus, few
<1>8. CASE t.path # Nsswitch /\ ~Is(t, "user")
  <2>1. now = mid
    BY <1>1, <1>8
  <2>2. /\ InfoOK(now) /\ now.files = files /\ now.partial = partial
        /\ now.gpu_complete = gpus /\ now.users = inf.users /\ now.utmp = inf.utmp
        /\ now.before = inf.before /\ now.complete = inf.complete
    BY <1>2, <1>3, <2>1 DEF InfoOK
  <2> QED BY <1>8, <2>2 DEF IsRead, now, files, partial, gpus
<1> QED BY <1>6, <1>7, <1>8

LEMMA ReadTexts ==
  ASSUME NEW inf, InfoOK(inf), OnlyTexts(inf), NEW t, NEW text \in Texts \cup {NoText},
         NEW short \in BOOLEAN
  PROVE  OnlyTexts(Read(inf, t, text, short))
<1> DEFINE now == Read(inf, t, text, short)
<1>0. IsRead(now, inf, t, text, short)
  BY ReadIs
<1> HIDE DEF now
<1>1. /\ now.files = IF text.kind # "none" THEN Added(inf.files, t.path, text) ELSE inf.files
      /\ now.users = inf.users
  BY <1>0 DEF IsRead
<1>2. text.kind # "none" => text \in Texts
  BY DEF NoText
<1>3. \A p \in DOMAIN now.files : now.files[p] \in Texts
  BY <1>1, <1>2 DEF OnlyTexts, Added
<1> QED BY <1>1, <1>3 DEF OnlyTexts, now

(* What a task got was of its own file, and it was told so if it is short, *)
(* or if there is an answer still to come.                                 *)
Honest(t, text, short) ==
    \/ text = NoText /\ (short \/ ~Opens(t.path) \/ t.path = Nsswitch)
    \/ /\ t.path \in DOMAIN guest.files /\ text = Text(t.path)
       /\ text.read = "short" => short

LEMMA ReadKnows ==
  ASSUME guest \in Guests, NEW inf, InfoOK(inf), FilesKnown(inf), LoginsKnown(inf),
         NEW t, NEW text, NEW short \in BOOLEAN, Honest(t, text, short)
  PROVE  /\ FilesKnown(Read(inf, t, text, short)) /\ LoginsKnown(Read(inf, t, text, short))
         /\ text.kind # "none" =>
               /\ t.path \in DOMAIN guest.files /\ text = Text(t.path)
               /\ ~short => text = guest.files[t.path]
<1> DEFINE now == Read(inf, t, text, short)
           got == text.kind # "none"
<1>0. IsRead(now, inf, t, text, short)
  BY ReadIs
<1> HIDE DEF now
<1>1. /\ now.files = IF got THEN Added(inf.files, t.path, text) ELSE inf.files
      /\ now.partial = IF short THEN inf.partial \cup {t.path} ELSE inf.partial
      /\ now.users = inf.users /\ now.utmp = inf.utmp
  BY <1>0 DEF IsRead
<1>2. got => /\ t.path \in DOMAIN guest.files /\ text = Text(t.path)
             /\ text.read = "short" => short
  BY DEF Honest, NoText
<1>3. got => /\ guest.files[t.path].read = "short" => short
             /\ ~short => text = guest.files[t.path]
  BY <1>2, TextIs
<1> HIDE DEF got
<1>4. FilesKnown(now)
  <2> SUFFICES ASSUME NEW p \in DOMAIN now.files
               PROVE  /\ p \in DOMAIN guest.files /\ now.files[p] = Text(p)
                      /\ guest.files[p].read = "short" => p \in now.partial
    BY DEF FilesKnown
  <2>1. CASE got /\ p = t.path
    BY <1>1, <1>2, <1>3, <2>1 DEF Added
  <2>2. CASE ~(got /\ p = t.path)
    <3>1. p \in DOMAIN inf.files /\ now.files[p] = inf.files[p]
      BY <1>1, <2>2 DEF Added
    <3> QED BY <1>1, <3>1 DEF FilesKnown
  <2> QED BY <2>1, <2>2
<1>5. LoginsKnown(now)
  BY <1>1 DEF LoginsKnown
<1> QED BY <1>2, <1>3, <1>4, <1>5 DEF now, got

(* Device nodes are asked for in order, the next where there was one.      *)
LEMMA ReadNodes ==
  ASSUME guest \in Guests, NEW inf, InfoOK(inf), NEW left, NodesKnown(inf, left),
         NEW t, t \in Range(left), NEW text, NEW short \in BOOLEAN, Honest(t, text, short),
         NEW rest, \A x \in Range(rest) : \/ x \in Range(left)
                                          \/ ~Is(x, "node")
                                          \/ text.kind # "none" /\ Is(t, "node")
  PROVE  NodesKnown(Read(inf, t, text, short), rest)
<1> DEFINE now == Read(inf, t, text, short)
           got == text.kind # "none"
<1>0. IsRead(now, inf, t, text, short)
  BY ReadIs
<1> HIDE DEF now
<1>1. /\ now.files = IF got THEN Added(inf.files, t.path, text) ELSE inf.files
      /\ now.gpu_complete = (inf.gpu_complete \/ (Is(t, "node") /\ ~got /\ ~short))
  BY <1>0 DEF IsRead
<1>2. SomeNode(inf) => SomeNode(now)
  BY <1>1 DEF SomeNode, Added
<1>3. Is(t, "node") /\ got => SomeNode(now)
  BY <1>1 DEF SomeNode, Is, Added
<1>4. ASSUME Is(t, "node"), ~got, ~short, Opens(Node(1))
      PROVE  guest.gpus = 0 \/ SomeNode(inf)
  <2>1. t.path # Nsswitch
    BY <1>4 DEF Is, Nsswitch
  <2>2. ~Opens(t.path)
    <3> SUFFICES ASSUME Opens(t.path) PROVE FALSE
      OBVIOUS
    <3>1. text = Text(t.path) /\ t.path \in DOMAIN guest.files
      BY <1>4, <2>1 DEF Honest
    <3>2. text.kind = guest.files[t.path].kind
      BY <3>1, TextIs
    <3>3. t.path[1] = "node" => guest.files[t.path].kind = "node"
      BY <3>1, GuestAssumption DEF GuestAssumption
    <3> QED BY <1>4, <3>2, <3>3 DEF Is
  <2>3. t.path # Node(1)
    BY <1>4, <2>2
  <2> QED BY <1>4, <2>3 DEF NodesKnown
<1> QED BY <1>1, <1>2, <1>3, <1>4 DEF NodesKnown, now

---------------------------------------------------------------------------
(* What is asked next.                                                     *)

(* In the first half: the list goes on, after another device node maybe.   *)
LEMMA OpeningRest ==
  ASSUME NEW inf, todo \in Seq(Range(todo)), Opening(inf, todo), Task.path # Nsswitch,
         NEW text, NEW now, now.complete = FALSE, NoWalk(now.partial)
  PROVE  LET rest == Rest(now, Task, text) IN
         /\ rest \in Seq(Range(rest)) /\ Opening(now, rest)
         /\ \A x \in Range(rest) : x \in Range(todo) \/ (text.kind # "none" /\ Is(Task, "node"))
<1> DEFINE next == Do("file", Node(Task.path[2] + 1))
           more == Is(Task, "node") /\ text.kind # "none" /\ Task.path[2] < MaxNodes
           pre == IF more THEN <<next>> ELSE <<>>
           r == Tail(todo)
           rest == pre \o r
           n == Len(todo)
<1>1. /\ Task = todo[1] /\ r \in Seq(Range(todo)) /\ Len(r) = n - 1 /\ n \in Nat \ {0}
      /\ \A i \in 1..(n - 1) : r[i] = todo[i + 1]
      /\ Range(r) \subseteq Range(todo)
  BY HeadAndTail DEF Opening, Task
<1>2. n > 1 /\ EarlyTask(Task)
  <2>1. todo[n] = Do("file", Nsswitch) /\ \A i \in 1..(n - 1) : EarlyTask(todo[i])
    BY DEF Opening
  <2>2. n # 1
    BY <1>1, <2>1 DEF Do
  <2> QED BY <1>1, <2>1, <2>2
<1>3. ~Is(Task, "user")
  BY <1>2 DEF EarlyTask, Is, Passwd, Keys, Stat, Unix, Docker, Utmp, SessionsDir, Node
<1>4. r \in Seq(Range(r)) /\ r # <<>> /\ DOMAIN r = 1..(n - 1)
  <2> DEFINE A == Range(todo)
  <2>1. r \in Seq(A) /\ Len(r) = n - 1 /\ Len(r) # 0
    BY <1>1, <1>2
  <2> HIDE DEF A, r, n
  <2>2. r \in Seq(Range(r))
    BY <2>1, SeqOfRange
  <2> QED BY <2>1, <2>2, Positions
<1>5. Rest(now, Task, text) = rest
  <2>1. <<>> \o r = r
    BY <1>4, ConcatEmptySeq
  <2>2. Rest(now, Task, text) = IF more THEN <<next>> \o r ELSE r
    BY <1>3 DEF Rest, Is, Nsswitch
  <2> QED BY <2>1, <2>2
<1>6. more => next.do = "file" /\ EarlyTask(next)
  <2> SUFFICES ASSUME more PROVE next.do = "file" /\ EarlyTask(next)
    OBVIOUS
  <2>1. Task.path[2] \in Nat
    BY <1>2 DEF EarlyTask, Is, Passwd, Keys, Stat, Unix, Docker, Utmp, SessionsDir
  <2>2. next.path = Node(Task.path[2] + 1) /\ next.do = "file"
    BY DEF Do
  <2>3. next.path # <<>> /\ next.path[1] = "node" /\ next.path[2] = Task.path[2] + 1
    BY <2>2 DEF Node
  <2> QED BY <2>1, <2>2, <2>3 DEF EarlyTask, Is
<1>7. /\ pre \in Seq(Range(pre)) /\ Range(pre) \subseteq {next} /\ Len(pre) \in {0, 1}
      /\ ~more => Range(pre) = {} /\ Len(pre) = 0
      /\ more => Len(pre) = 1 /\ pre[1] = next
  <2>1. <<next>> \in Seq({next}) /\ Len(<<next>>) = 1 /\ <<next>>[1] = next
    OBVIOUS
  <2> DEFINE one == <<next>>
  <2>2. one \in Seq(Range(one)) /\ Range(one) \subseteq {next}
    <3>1. one \in Seq({next})
      BY <2>1
    <3> HIDE DEF one
    <3> QED BY <3>1, SeqOfRange, RangeOfSeq
  <2>3. CASE more
    BY <2>1, <2>2, <2>3
  <2>4. CASE ~more
    BY <2>4, NoElement
  <2> QED BY <2>3, <2>4
<1> HIDE DEF pre, r, next
<1>8. /\ rest \in Seq(Range(rest)) /\ Range(rest) = Range(pre) \cup Range(r)
      /\ Len(rest) = Len(pre) + Len(r)
      /\ \A i \in 1..(Len(pre) + Len(r)) :
            rest[i] = IF i <= Len(pre) THEN pre[i] ELSE r[i - Len(pre)]
  BY <1>4, <1>7, Joins
<1> HIDE DEF rest
<1>9. Opening(now, rest)
  <2> DEFINE k == Len(pre)
  <2>1. k \in {0, 1} /\ Len(rest) = k + n - 1 /\ n \in Nat /\ n > 1
    BY <1>1, <1>2, <1>7, <1>8
  <2>2. /\ \A i \in 1..k : rest[i] = next /\ EarlyTask(next)
        /\ \A i \in (k + 1)..(k + n - 1) : rest[i] = todo[i - k + 1]
    <3>1. ASSUME NEW i \in 1..k PROVE rest[i] = next /\ EarlyTask(next)
      <4>1. k = 1 /\ i = 1
        <5> HIDE DEF k
        <5> QED BY <2>1
      <4>2. more
        <5> HIDE DEF more
        <5> QED BY <1>7, <4>1
      <4> QED BY <1>1, <1>6, <1>7, <1>8, <2>1, <4>1, <4>2
    <3>2. ASSUME NEW i \in (k + 1)..(k + n - 1) PROVE rest[i] = todo[i - k + 1]
      <4>1. i \in 1..(k + Len(r)) /\ ~(i <= k) /\ i - k \in 1..(n - 1)
        BY <1>1, <2>1
      <4> QED BY <1>1, <1>8, <4>1
    <3> QED BY <3>1, <3>2
  <2> HIDE DEF k
  <2>3. rest[k + n - 1] = Do("file", Nsswitch)
    <3>1. k + n - 1 \in (k + 1)..(k + n - 1) /\ (k + n - 1) - k + 1 = n
      BY <2>1
    <3> QED BY <2>2, <3>1 DEF Opening
  <2>4. ASSUME NEW i \in 1..(k + n - 1 - 1) PROVE EarlyTask(rest[i])
    <3>1. CASE i \in 1..k
      BY <2>2, <3>1
    <3>2. CASE i \notin 1..k
      <4>1. i \in (k + 1)..(k + n - 1) /\ i - k + 1 \in 1..(n - 1)
        BY <2>1, <3>2
      <4> QED BY <2>2, <4>1 DEF Opening
    <3> QED BY <3>1, <3>2
  <2>5. rest # <<>>
    BY <1>8, <2>1, Positions
  <2> QED BY <2>1, <2>3, <2>4, <2>5 DEF Opening
<1> QED BY <1>1, <1>5, <1>7, <1>8, <1>9 DEF rest

(* A list that begins with nsswitch's task in the first half has no other. *)
LEMMA OnlyNsswitch ==
  ASSUME NEW inf, todo \in Seq(Range(todo)), Opening(inf, todo), Task.path = Nsswitch
  PROVE  Tail(todo) = <<>> /\ Task = Do("file", Nsswitch)
<1> DEFINE n == Len(todo)
           r == Tail(todo)
<1>1. /\ Task = todo[1] /\ r \in Seq(Range(todo)) /\ Len(r) = n - 1 /\ n \in Nat \ {0}
  BY HeadAndTail DEF Opening, Task
<1>2. ~EarlyTask(Task)
  BY DEF EarlyTask, Is, Passwd, Keys, Stat, Unix, Docker, Utmp, SessionsDir, Nsswitch
<1>3. n = 1
  BY <1>1, <1>2 DEF Opening
<1>4. todo[1] = Do("file", Nsswitch)
  BY <1>3 DEF Opening
<1>5. r = <<>>
  <2> DEFINE A == Range(todo)
  <2>1. r \in Seq(A) /\ Len(r) = 0
    BY <1>1, <1>3
  <2> HIDE DEF A, r
  <2> QED BY <2>1, EmptySeq
<1> QED BY <1>1, <1>4, <1>5

LEMMA UidsAre ==
  ASSUME guest \in Guests, NEW inf, OnlyTexts(inf)
  PROVE  /\ Uids(inf) \in Seq(Range(Uids(inf)))
         /\ Range(Uids(inf)) = Range(Parsed(File(inf, Passwd), "passwd")) \ Stubs
<1> DEFINE f == File(inf, Passwd)
           all == Parsed(f, "passwd")
<1>1. f \in Texts \cup {NoText}
  BY DEF File, OnlyTexts
<1>2. f.of \in Seq(Range(f.of))
  BY <1>1, TextOrNone
<1>3. <<>> \in Seq(Range(f.of))
  BY EmptySeq
<1>4. all \in Seq(Range(f.of))
  BY <1>2, <1>3 DEF Parsed
<1>5. Uids(inf) = Those(all, Range(all) \ Stubs)
  BY DEF Uids
<1> HIDE DEF all, f
<1>6. Uids(inf) \in Seq(Range(f.of)) /\ Range(Uids(inf)) = Range(all) \cap (Range(all) \ Stubs)
  BY <1>4, <1>5, ThoseAre
<1>7. Uids(inf) \in Seq(Range(Uids(inf)))
  BY <1>6, SeqOfRange
<1> QED BY <1>6, <1>7 DEF all, f

(* After nsswitch: one task for each account, as far as the cap.           *)
LEMMA AccountsRest ==
  ASSUME guest \in Guests, NEW inf, todo \in Seq(Range(todo)), Opening(inf, todo),
         Task.path = Nsswitch, NEW text, NEW now, OnlyTexts(now)
  PROVE  LET rest == Rest(now, Task, text) IN
         /\ rest \in Seq(Range(rest)) /\ \A i \in DOMAIN rest : WalkTask(rest[i])
         /\ \A x \in Range(rest) : ~Is(x, "node")
         /\ Len(Uids(now)) <= MaxUids => \A u \in Range(Uids(now)) : User(u) \in Paths(rest)
<1> DEFINE c == Capped(Uids(now), MaxUids)
           rest == [i \in 1..Len(c) |-> Do("file", User(Uids(now)[i]))]
<1>1. Rest(now, Task, text) = Tail(todo) \o rest
  BY DEF Rest, Is, Nsswitch
<1>2. Uids(now) \in Seq(Range(Uids(now))) /\ MaxUids \in Nat
  BY UidsAre, GuestAssumption DEF GuestAssumption
<1>3. Len(c) \in Nat /\ (Len(Uids(now)) <= MaxUids => c = Uids(now))
  BY <1>2, CappedIs, LenProperties
<1> HIDE DEF c
<1>4. DOMAIN rest = 1..Len(c) /\ Len(rest) = Len(c)
      /\ \A i \in 1..Len(c) : rest[i] = Do("file", User(Uids(now)[i]))
  BY <1>3
<1>5. rest \in Seq(Range(rest))
  <2>1. \A i \in 1..Len(c) : rest[i] \in Range(rest)
    BY <1>4 DEF Range
  <2>2. rest = [i \in 1..Len(c) |-> rest[i]]
    BY <1>4
  <2> DEFINE A == Range(rest)
  <2> HIDE DEF rest, A
  <2>3. [i \in 1..Len(c) |-> rest[i]] \in Seq(A)
    BY <1>3, <2>1, IsASeq DEF A
  <2> QED BY <2>2, <2>3 DEF A
<1>6. Rest(now, Task, text) = rest
  <2>1. Tail(todo) = <<>>
    BY OnlyNsswitch
  <2> HIDE DEF rest
  <2>2. <<>> \o rest = rest
    BY <1>5, ConcatEmptySeq
  <2> QED BY <1>1, <2>1, <2>2
<1> HIDE DEF rest
<1>7. \A i \in DOMAIN rest : WalkTask(rest[i]) /\ ~Is(rest[i], "node")
  BY <1>4 DEF WalkTask, Is, Do, User
<1>8. \A x \in Range(rest) : ~Is(x, "node")
  BY <1>7 DEF Range
<1>9. ASSUME Len(Uids(now)) <= MaxUids, NEW u \in Range(Uids(now)) PROVE User(u) \in Paths(rest)
  <2>1. PICK i \in 1..Len(Uids(now)) : Uids(now)[i] = u
    BY <1>2, Positions
  <2>2. rest[i] = Do("file", User(u)) /\ rest[i] \in Range(rest)
    BY <1>3, <1>4, <1>9, <2>1 DEF Range
  <2> QED BY <2>2 DEF Paths, Do
<1> QED BY <1>5, <1>6, <1>7, <1>8, <1>9

(* In the walk, a state file adds sessions and drops none, within the cap. *)
LEMMA WalkRest ==
  ASSUME guest \in Guests, NEW inf, todo \in Seq(Range(todo)), todo # <<>>, Walking(inf, todo),
         NEW text \in Texts \cup {NoText}, NEW now
  PROVE  LET rest == Rest(now, Task, text) IN
         /\ rest \in Seq(Range(rest)) /\ \A i \in DOMAIN rest : WalkTask(rest[i])
         /\ \A x \in Range(rest) : ~Is(x, "node")
         /\ ~Is(Task, "user") \/ FewIds(text) =>
               /\ Range(Tail(todo)) \subseteq Range(rest)
               /\ Is(Task, "user") => \A s \in Range(Parsed(text, "user")) \cap Digits :
                                        Session(s) \in Paths(rest)
<1> DEFINE r == Tail(todo)
           toks == Parsed(text, "user")
           p == Those(Capped(toks, MaxToks), Digits)
           all == [i \in 1..Len(p) |-> Do("file", Session(p[i]))]
           new == Those(all, Range(all) \ Range(todo))
           old == Those(todo, OfSessions(todo))
           both == old \o new
           users == Those(r, Range(todo) \ OfSessions(todo))
           c == Capped(both, MaxSids)
<1>1. /\ Task = todo[1] /\ r \in Seq(Range(todo)) /\ Range(todo) = {Task} \cup Range(r)
      /\ r \in Seq(Range(r))
  <2>1. /\ Task = todo[1] /\ r \in Seq(Range(todo)) /\ Range(todo) = {Task} \cup Range(r)
    BY HeadAndTail DEF Task
  <2> QED BY <2>1, SeqOfRange
<1>2. \A x \in Range(todo) : WalkTask(x) /\ ~Is(x, "node")
  BY DEF Walking, Range, WalkTask, Is
<1>3. Task.path # Nsswitch /\ ~Is(Task, "node")
  BY <1>1, <1>2 DEF WalkTask, Is, Nsswitch
<1>4. CASE ~Is(Task, "user")
  <2>1. Rest(now, Task, text) = r
    BY <1>3, <1>4 DEF Rest
  <2>2. \A i \in DOMAIN r : WalkTask(r[i])
    BY <1>1, <1>2 DEF Range
  <2> QED BY <1>1, <1>2, <1>4, <2>1, <2>2
<1>5. CASE Is(Task, "user")
  <2>1. Sessions(text) = both /\ Rest(now, Task, text) = users \o c
    BY <1>3, <1>5 DEF Rest, Sessions, NewSessions
  <2>0. /\ p \in Seq(Range(p))
        /\ Len(toks) <= MaxToks => Range(p) = Range(toks) \cap Digits
    <3> DEFINE k == Capped(toks, MaxToks)
    <3>1. toks \in Seq(Range(toks)) /\ MaxToks \in Nat
      BY TextOrNone, SeqOfRange, GuestAssumption DEF GuestAssumption
    <3> HIDE DEF toks
    <3>2. k \in Seq(Range(k)) /\ (Len(toks) <= MaxToks => k = toks)
      BY <3>1, CappedIs, SeqOfRange
    <3> HIDE DEF k
    <3>3. p = Those(k, Digits)
      BY DEF k
    <3> HIDE DEF p
    <3>4. p \in Seq(Range(k)) /\ Range(p) = Range(k) \cap Digits
      BY <3>2, <3>3, ThoseAre
    <3> QED BY <3>2, <3>4, SeqOfRange
  <2>2. /\ all \in Seq(Range(all)) /\ \A x \in Range(all) : WalkTask(x) /\ ~Is(x, "node") /\ Is(x, "session")
        /\ \A s \in Range(p) : Do("file", Session(s)) \in Range(all)
    <3>2. p \in Seq(Range(p)) /\ Len(p) \in Nat /\ DOMAIN p = 1..Len(p)
      BY <2>0, LenProperties
    <3> HIDE DEF p
    <3>4. DOMAIN all = 1..Len(p) /\ \A i \in 1..Len(p) : all[i] = Do("file", Session(p[i]))
      BY <3>2
    <3>5. all = [i \in 1..Len(p) |-> all[i]]
      BY <3>4
    <3> HIDE DEF all
    <3>6. \A i \in 1..Len(p) : all[i] \in Range(all)
      BY <3>4 DEF Range
    <3>7. all \in Seq(Range(all))
      <4> DEFINE A == Range(all)
      <4> HIDE DEF A
      <4>1. [i \in 1..Len(p) |-> all[i]] \in Seq(A)
        BY <3>2, <3>6, IsASeq DEF A
      <4> QED BY <3>5, <4>1 DEF A
    <3>8. \A x \in Range(all) : WalkTask(x) /\ ~Is(x, "node") /\ Is(x, "session")
      BY <3>4 DEF Range, WalkTask, Is, Do, Session
    <3>9. \A s \in Range(p) : Do("file", Session(s)) \in Range(all)
      BY <3>2, <3>4 DEF Range
    <3> QED BY <3>7, <3>8, <3>9 DEF all, p
  <2> HIDE DEF all, p, toks
  <2>3. new \in Seq(Range(new)) /\ Range(new) = Range(all) \cap (Range(all) \ Range(todo))
    BY <2>2, ThoseAre, SeqOfRange
  <2>4. old \in Seq(Range(old)) /\ Range(old) = Range(todo) \cap OfSessions(todo)
    BY ThoseAre, SeqOfRange
  <2>5. users \in Seq(Range(users)) /\ Range(users) = Range(r) \cap (Range(todo) \ OfSessions(todo))
    <3>1. users \in Seq(Range(r)) /\ Range(users) = Range(r) \cap (Range(todo) \ OfSessions(todo))
      <4> HIDE DEF r
      <4> QED BY <1>1, ThoseAre
    <3> HIDE DEF users
    <3> QED BY <3>1, SeqOfRange
  <2> HIDE DEF new, old, users
  <2>6. both \in Seq(Range(both)) /\ Range(both) = Range(old) \cup Range(new)
    BY <2>3, <2>4, Joins
  <2>7. MaxSids \in Nat
    BY GuestAssumption DEF GuestAssumption
  <2> HIDE DEF both
  <2>8. c \in Seq(Range(c)) /\ Range(c) \subseteq Range(both) /\ (Len(both) <= MaxSids => c = both)
    BY <2>6, <2>7, CappedIs, SeqOfRange
  <2> HIDE DEF c
  <2> DEFINE rest == users \o c
  <2>9. rest \in Seq(Range(rest)) /\ Range(rest) = Range(users) \cup Range(c)
    BY <2>5, <2>8, Joins
  <2> HIDE DEF rest
  <2>10. \A x \in Range(rest) : WalkTask(x) /\ ~Is(x, "node")
    BY <1>1, <1>2, <2>2, <2>3, <2>4, <2>5, <2>6, <2>8, <2>9
  <2>11. \A i \in DOMAIN rest : WalkTask(rest[i])
    BY <2>10 DEF Range
  <2>12. ASSUME Len(both) <= MaxSids, Len(toks) <= MaxToks
         PROVE  /\ Range(r) \subseteq Range(rest)
                /\ \A s \in Range(toks) \cap Digits : Session(s) \in Paths(rest)
    <3>1. Range(rest) = Range(users) \cup Range(old) \cup Range(new)
      BY <2>6, <2>8, <2>9, <2>12
    <3>2. Range(r) \subseteq Range(rest)
      BY <1>1, <2>4, <2>5, <3>1
    <3>3. ASSUME NEW s \in Range(p) PROVE Do("file", Session(s)) \in Range(rest)
      <4> DEFINE x == Do("file", Session(s))
      <4>1. x \in Range(all) /\ Is(x, "session")
        BY <2>2, <3>3
      <4> HIDE DEF x
      <4>2. x \in Range(todo) => x \in Range(old)
        BY <2>4, <4>1 DEF OfSessions
      <4> QED BY <2>3, <3>1, <4>1, <4>2 DEF x
    <3>4. ASSUME NEW s \in Range(p) PROVE Session(s) \in Paths(rest)
      <4>1. Do("file", Session(s)).path = Session(s)
        BY DEF Do
      <4> QED BY <3>3, <4>1 DEF Paths
    <3> QED BY <2>0, <2>12, <3>2, <3>4
  <2> QED BY <1>5, <2>1, <2>9, <2>10, <2>11, <2>12 DEF rest, toks, FewIds
<1> QED BY <1>4, <1>5

---------------------------------------------------------------------------
(* The script's steps.                                                     *)

StateOK(inf, left) ==
    InfoOK(inf) /\ OnlyTexts(inf) /\ left \in Seq(Range(left)) /\ Halves(inf, left)

LEMMA OpeningTask ==
  ASSUME NEW inf, todo \in Seq(Range(todo)), Opening(inf, todo), Task.path # Nsswitch
  PROVE  EarlyTask(Task)
<1>1. Task = todo[1] /\ Len(todo) \in Nat \ {0}
  BY HeadAndTail DEF Opening, Task
<1>2. Len(todo) # 1
  BY <1>1 DEF Opening, Do
<1>3. 1 \in 1..(Len(todo) - 1)
  <2> DEFINE n == Len(todo)
  <2>1. n \in Nat /\ n # 0 /\ n # 1
    BY <1>1, <1>2
  <2> HIDE DEF n
  <2>2. 1 \in 1..(n - 1)
    BY <2>1
  <2> QED BY <2>2 DEF n
<1> QED BY <1>1, <1>3 DEF Opening

LEMMA OpeningRead ==
  ASSUME Shape, Opening(info, todo), OnlyTexts(info), Task.do = "file", Task.path # Nsswitch,
         NEW text \in Texts \cup {NoText}, NEW short \in BOOLEAN
  PROVE  LET now == Read(info, Task, text, short)
             rest == Rest(now, Task, text)
         IN  /\ StateOK(now, rest)
             /\ Known(info, todo) /\ Honest(Task, text, short) => Known(now, rest)
<1> DEFINE now == Read(info, Task, text, short)
           rest == Rest(now, Task, text)
<1>1. IsRead(now, info, Task, text, short) /\ OnlyTexts(now)
  BY ReadIs, ReadTexts DEF Shape
<1>2. ASSUME Known(info, todo), Honest(Task, text, short)
      PROVE  FilesKnown(now) /\ LoginsKnown(now)
  BY <1>2, ReadKnows DEF Shape, Known
<1>3. ASSUME Known(info, todo), Honest(Task, text, short),
             \A x \in Range(rest) : \/ x \in Range(todo) \/ ~Is(x, "node")
                                    \/ text.kind # "none" /\ Is(Task, "node")
      PROVE  NodesKnown(now, rest)
  <2>1. Task \in Range(todo)
    BY HeadAndTail DEF Opening, Shape, Task
  <2> QED BY <1>3, <2>1, ReadNodes DEF Shape, Known
<1> HIDE DEF now
<1>4. EarlyTask(Task)
  BY OpeningTask DEF Shape
<1>5. InfoOK(now) /\ now.complete = FALSE
  BY <1>1 DEF IsRead, Opening, InfoOK
<1>6. NoWalk(now.partial)
  <2>1. Task.path[1] \notin {"user", "session"}
    BY <1>4 DEF EarlyTask, Facts, Is, Passwd, Keys, Stat, Unix, Node
  <2> QED BY <1>1, <2>1 DEF IsRead, Opening, NoWalk
<1>7. /\ rest \in Seq(Range(rest)) /\ Opening(now, rest)
      /\ \A x \in Range(rest) : x \in Range(todo) \/ (text.kind # "none" /\ Is(Task, "node"))
  BY <1>5, <1>6, OpeningRest DEF Shape
<1> HIDE DEF rest
<1>8. Followed(now, rest)
  BY <1>5 DEF Followed
<1> QED BY <1>1, <1>2, <1>3, <1>5, <1>7, <1>8 DEF StateOK, Halves, Known, now, rest

(* With nsswitch read, every account of the guest's own is to be asked for, *)
(* or the walk is not complete.                                            *)
LEMMA AccountsFollowed ==
  ASSUME guest \in Guests, NEW now, OnlyTexts(now), FilesKnown(now), NEW rest,
         now.complete = AllAccounts(now),
         Len(Uids(now)) <= MaxUids => \A u \in Range(Uids(now)) : User(u) \in Paths(rest)
  PROVE  Followed(now, rest)
<1> SUFFICES ASSUME AllAccounts(now) PROVE Walked(now, rest)
  BY DEF Followed
<1>1. /\ Passwd \in DOMAIN now.files \ now.partial
      /\ Range(Parsed(File(now, Nsswitch), "nsswitch")) \subseteq Sources
      /\ Len(Uids(now)) < MaxUids
  BY DEF AllAccounts
<1>2. Passwd \in DOMAIN guest.files /\ now.files[Passwd] = guest.files[Passwd]
  BY <1>1, TextIs DEF FilesKnown
<1>3. guest.files[Passwd].kind = "passwd" /\ guest.on \cap Stubs = {}
  BY <1>2, GuestAssumption DEF GuestAssumption, Passwd
<1>4. Parsed(File(now, Passwd), "passwd") = guest.files[Passwd].of
  BY <1>1, <1>2, <1>3 DEF Parsed, File
<1>5. LocalOn \subseteq Range(Uids(now))
  BY <1>3, <1>4, UidsAre DEF LocalOn
<1>6. Len(Uids(now)) <= MaxUids
  BY <1>1, UidsAre, LenProperties, GuestAssumption DEF GuestAssumption
<1> QED BY <1>1, <1>5, <1>6 DEF Walked

LEMMA AccountsRead ==
  ASSUME Shape, Opening(info, todo), OnlyTexts(info), Task.path = Nsswitch,
         NEW text \in Texts \cup {NoText}, NEW short \in BOOLEAN
  PROVE  LET now == Read(info, Task, text, short)
             rest == Rest(now, Task, text)
         IN  /\ StateOK(now, rest)
             /\ Known(info, todo) /\ Honest(Task, text, short) => Known(now, rest)
<1> DEFINE now == Read(info, Task, text, short)
           rest == Rest(now, Task, text)
<1>1. IsRead(now, info, Task, text, short) /\ OnlyTexts(now)
  BY ReadIs, ReadTexts DEF Shape
<1>2. ASSUME Known(info, todo), Honest(Task, text, short)
      PROVE  FilesKnown(now) /\ LoginsKnown(now)
  BY <1>2, ReadKnows DEF Shape, Known
<1>3. ASSUME Known(info, todo), Honest(Task, text, short), \A x \in Range(rest) : ~Is(x, "node")
      PROVE  NodesKnown(now, rest)
  <2>1. Task \in Range(todo)
    BY HeadAndTail DEF Opening, Shape, Task
  <2> QED BY <1>3, <2>1, ReadNodes DEF Shape, Known
<1> HIDE DEF now
<1>4. /\ rest \in Seq(Range(rest)) /\ \A i \in DOMAIN rest : WalkTask(rest[i])
      /\ \A x \in Range(rest) : ~Is(x, "node")
      /\ Len(Uids(now)) <= MaxUids => \A u \in Range(Uids(now)) : User(u) \in Paths(rest)
  BY <1>1, AccountsRest DEF Shape
<1> HIDE DEF rest
<1>5. NoWalk(now.before)
  <2>1. now.before \subseteq info.partial \cup {Nsswitch} /\ Nsswitch[1] = "nsswitch"
    BY <1>1 DEF IsRead, Nsswitch
  <2> QED BY <2>1 DEF NoWalk, Opening
<1>6. now.complete = AllAccounts(now) /\ InfoOK(now)
  BY <1>1 DEF IsRead
<1>7. ASSUME Known(info, todo), Honest(Task, text, short) PROVE Known(now, rest)
  <2>1. FilesKnown(now) /\ LoginsKnown(now) /\ NodesKnown(now, rest)
    BY <1>2, <1>3, <1>4, <1>7
  <2>2. Followed(now, rest)
    BY <1>1, <1>4, <1>6, <2>1, AccountsFollowed DEF Shape
  <2> QED BY <2>1, <2>2 DEF Known
<1> QED BY <1>1, <1>4, <1>5, <1>6, <1>7 DEF StateOK, Halves, Walking, now, rest

(* A walk that stays complete has read this file, and asks for what it     *)
(* names.                                                                  *)
LEMMA WalkFollowed ==
  ASSUME guest \in Guests, InfoOK(info), todo \in Seq(Range(todo)), todo # <<>>,
         Walking(info, todo), Followed(info, todo), WalkTask(Task),
         NEW text, NEW short \in BOOLEAN, Honest(Task, text, short), NEW now,
         IsRead(now, info, Task, text, short), FilesKnown(now), NEW rest,
         ~Is(Task, "user") \/ FewIds(text) =>
            /\ Range(Tail(todo)) \subseteq Range(rest)
            /\ Is(Task, "user") => \A s \in Range(Parsed(text, "user")) \cap Digits :
                                     Session(s) \in Paths(rest)
  PROVE  Followed(now, rest)
<1> SUFFICES ASSUME now.complete, now.partial = now.before PROVE Walked(now, rest)
  BY DEF Followed
<1>1. Task.path # Nsswitch /\ Task.path[1] \in {"user", "session"}
  BY DEF WalkTask, Is, Nsswitch
<1>2. /\ info.complete /\ now.before = info.before /\ info.partial \subseteq now.partial
      /\ info.before \subseteq info.partial
      /\ Is(Task, "user") => FewIds(text)
  BY <1>1 DEF IsRead, InfoOK
<1>3. ~short
  BY <1>1, <1>2 DEF IsRead, Walking, NoWalk
<1>4. Walked(info, todo) /\ now.partial = info.partial
  BY <1>2 DEF Followed
<1>5. /\ Range(Tail(todo)) \subseteq Range(rest)
      /\ Is(Task, "user") => \A s \in Range(Parsed(text, "user")) \cap Digits :
                               Session(s) \in Paths(rest)
  BY <1>2
<1>6. now.files = IF text.kind # "none" THEN Added(info.files, Task.path, text) ELSE info.files
  BY DEF IsRead
<1>7. DOMAIN info.files \subseteq DOMAIN now.files
  BY <1>6 DEF Added
<1>8. File(now, Nsswitch) = File(info, Nsswitch)
  BY <1>1, <1>6 DEF File, Added
<1>9. Range(todo) = {Task} \cup Range(Tail(todo))
  BY HeadAndTail DEF Task
<1>10. \A p \in Paths(todo) : p = Task.path \/ p \in Paths(rest)
  BY <1>5, <1>9 DEF Paths
<1>11. ASSUME NEW u \in LocalOn, NEW s \in Sids(u), Good(u, s)
       PROVE  User(u) \in Paths(rest) \/ Session(s) \in Paths(rest) \/ Session(s) \in DOMAIN now.files
  <2>1. User(u) \in Paths(todo) \/ Session(s) \in Paths(todo) \/ Session(s) \in DOMAIN info.files
    BY <1>4, <1>11 DEF Walked
  <2>2. CASE Session(s) = Task.path
    <3>1. text = Text(Session(s)) /\ Session(s) \in DOMAIN guest.files
      BY <1>1, <1>3, <1>11, <2>2 DEF Honest, Good, SessionOf
    <3>2. text.kind = "session"
      BY <1>11, <3>1, TextIs DEF Good, SessionOf
    <3>3. Session(s) \in DOMAIN now.files
      BY <1>6, <2>2, <3>2 DEF Added
    <3> QED BY <3>3
  <2>3. CASE User(u) = Task.path
    <3>1. User(u) \in DOMAIN guest.files /\ guest.files[User(u)].kind = "user"
      BY GuestAssumption DEF GuestAssumption, LocalOn
    <3>2. text = Text(User(u)) /\ (text.read = "short" => short)
      BY <1>1, <1>3, <1>11, <2>3, <3>1 DEF Honest, Good
    <3>3. text = guest.files[User(u)]
      BY <1>3, <3>1, <3>2, TextIs
    <3>4. Is(Task, "user")
      <4>1. User(u) # <<>> /\ User(u)[1] = "user"
        BY DEF User
      <4> QED BY <2>3, <4>1 DEF Is
    <3>5. s \in Range(Parsed(text, "user")) \cap Digits
      BY <1>11, <3>1, <3>3 DEF Parsed, Sids, Good
    <3> QED BY <1>5, <3>4, <3>5
  <2> QED BY <1>7, <1>10, <2>1, <2>2, <2>3
<1> QED BY <1>4, <1>7, <1>8, <1>11 DEF Walked

LEMMA WalkRead ==
  ASSUME Shape, Walking(info, todo), todo # <<>>, OnlyTexts(info),
         NEW text \in Texts \cup {NoText}, NEW short \in BOOLEAN
  PROVE  LET now == Read(info, Task, text, short)
             rest == Rest(now, Task, text)
         IN  /\ StateOK(now, rest)
             /\ Known(info, todo) /\ Honest(Task, text, short) => Known(now, rest)
<1> DEFINE now == Read(info, Task, text, short)
           rest == Rest(now, Task, text)
<1>1. IsRead(now, info, Task, text, short) /\ OnlyTexts(now)
  BY ReadIs, ReadTexts DEF Shape
<1>2. ASSUME Known(info, todo), Honest(Task, text, short)
      PROVE  FilesKnown(now) /\ LoginsKnown(now)
  BY <1>2, ReadKnows DEF Shape, Known
<1>3. ASSUME Known(info, todo), Honest(Task, text, short), \A x \in Range(rest) : ~Is(x, "node")
      PROVE  NodesKnown(now, rest)
  <2>1. Task \in Range(todo)
    BY HeadAndTail DEF Shape, Task
  <2> QED BY <1>3, <2>1, ReadNodes DEF Shape, Known
<1> HIDE DEF now
<1>4. WalkTask(Task) /\ Task.path # Nsswitch
  <2>1. Task = todo[1] /\ 1 \in DOMAIN todo
    BY HeadAndTail DEF Shape, Task
  <2> QED BY <2>1 DEF Walking, WalkTask, Is, Nsswitch
<1>5. /\ rest \in Seq(Range(rest)) /\ \A i \in DOMAIN rest : WalkTask(rest[i])
      /\ \A x \in Range(rest) : ~Is(x, "node")
      /\ ~Is(Task, "user") \/ FewIds(text) =>
            /\ Range(Tail(todo)) \subseteq Range(rest)
            /\ Is(Task, "user") => \A s \in Range(Parsed(text, "user")) \cap Digits :
                                     Session(s) \in Paths(rest)
  BY WalkRest DEF Shape
<1> HIDE DEF rest
<1>6. NoWalk(now.before) /\ InfoOK(now)
  BY <1>1, <1>4 DEF IsRead, Walking
<1>7. ASSUME Known(info, todo), Honest(Task, text, short) PROVE Known(now, rest)
  <2>1. FilesKnown(now) /\ LoginsKnown(now) /\ NodesKnown(now, rest)
    BY <1>2, <1>3, <1>5, <1>7
  <2>2. Followed(now, rest)
    BY <1>1, <1>4, <1>5, <1>7, <2>1, WalkFollowed DEF Shape, Known
  <2> QED BY <2>1, <2>2 DEF Known
<1> QED BY <1>1, <1>5, <1>6, <1>7 DEF StateOK, Halves, Walking, now, rest

LEMMA ReadStep ==
  ASSUME Shape, todo # <<>>, step # "close", OnlyTexts(info), Task.do = "file",
         NEW text \in Texts \cup {NoText}, NEW short \in BOOLEAN
  PROVE  LET now == Read(info, Task, text, short)
             rest == Rest(now, Task, text)
         IN  /\ StateOK(now, rest)
             /\ Known(info, Left) /\ Honest(Task, text, short) => Known(now, rest)
<1>1. Left = todo /\ (Opening(info, todo) \/ Walking(info, todo))
  BY DEF Left, Shape, Halves
<1>2. CASE Opening(info, todo) /\ Task.path # Nsswitch
  BY <1>1, <1>2, OpeningRead
<1>3. CASE Opening(info, todo) /\ Task.path = Nsswitch
  BY <1>1, <1>3, AccountsRead
<1>4. CASE Walking(info, todo)
  BY <1>1, <1>4, WalkRead
<1> QED BY <1>1, <1>2, <1>3, <1>4

(* A task that is done, or left out, with nothing read.                    *)
LEMMA DropStep ==
  ASSUME Shape, todo # <<>>, step # "close", NEW inf, InfoOK(inf), OnlyTexts(inf),
         inf.complete = FALSE, inf.files = info.files, inf.partial = info.partial,
         inf.before = info.before, inf.gpu_complete = info.gpu_complete
  PROVE  /\ StateOK(inf, Tail(todo))
         /\ Known(info, Left) /\ LoginsKnown(inf) => Known(inf, Tail(todo))
<1> DEFINE r == Tail(todo)
           n == Len(todo)
<1>1. /\ Left = todo /\ n \in Nat \ {0} /\ Range(todo) = {Head(todo)} \cup Range(r)
      /\ r \in Seq(Range(todo)) /\ Len(r) = n - 1
      /\ DOMAIN todo = 1..n /\ DOMAIN r = 1..(n - 1) /\ \A i \in 1..(n - 1) : r[i] = todo[i + 1]
  BY HeadAndTail DEF Shape, Left
<1>2. r \in Seq(Range(r))
  BY <1>1, SeqOfRange
<1>3. r # <<>> <=> n - 1 # 0
  BY <1>1, <1>2, Positions
<1> HIDE DEF r
<1>4. Halves(inf, r)
  <2>1. CASE Opening(info, todo) /\ n = 1
    <3>1. NoWalk(inf.before)
      BY <2>1 DEF Opening, InfoOK, NoWalk
    <3> QED BY <1>1, <2>1, <3>1 DEF Halves, Walking
  <2>2. CASE Opening(info, todo) /\ n # 1
    <3>1. r[n - 1] = todo[n] /\ \A i \in 1..(n - 1 - 1) : r[i] = todo[i + 1] /\ i + 1 \in 1..(n - 1)
      BY <1>1, <2>2
    <3>2. r # <<>> /\ Len(r) = n - 1
      BY <1>1, <1>3, <2>2
    <3> HIDE DEF n
    <3>3. \A i \in 1..(n - 1) : EarlyTask(todo[i])
      BY <2>2 DEF Opening, n
    <3>4. todo[n] = Do("file", Nsswitch) /\ NoWalk(inf.partial)
      BY <2>2 DEF Opening, n
    <3> QED BY <3>1, <3>2, <3>3, <3>4 DEF Halves, Opening
  <2>3. CASE Walking(info, todo)
    <3>1. \A i \in 1..(n - 1) : i + 1 \in 1..n
      BY <1>1
    <3> QED BY <1>1, <2>3, <3>1 DEF Halves, Walking
  <2> QED BY <1>1, <2>1, <2>2, <2>3 DEF Shape, Halves
<1>5. ASSUME Known(info, todo), LoginsKnown(inf) PROVE Known(inf, r)
  <2>1. FilesKnown(inf)
    BY <1>5 DEF Known, FilesKnown
  <2>2. NodesKnown(inf, r)
    BY <1>1, <1>5 DEF Known, NodesKnown, SomeNode
  <2>3. Followed(inf, r)
    BY DEF Followed
  <2> QED BY <1>5, <2>1, <2>2, <2>3 DEF Known
<1> QED BY <1>1, <1>2, <1>4, <1>5 DEF StateOK, r

(* What an action leaves behind when it ends a task, or its read.          *)
LEMMA Finished ==
  ASSUME Shape, NEW inf, NEW rest, StateOK(inf, rest), Finish(inf, rest),
         guest' = guest, opened' \subseteq DOMAIN guest.files
  PROVE  Shape' /\ OnlyTexts(info)' /\ info' = inf /\ Left' = rest /\ step' = "ask"
<1>1. info' = inf /\ todo' = rest /\ step' = "ask"
  BY DEF Finish
<1>2. Left' = rest
  BY <1>1 DEF Left
<1>3. OnlyTexts(info)'
  BY <1>1 DEF StateOK, OnlyTexts, Texts, Text, Lists
<1>4. Shape'
  BY <1>1, <1>2 DEF StateOK, Shape, InfoOK, Halves, Opening, Walking, NoWalk
<1> QED BY <1>1, <1>2, <1>3, <1>4

LEMMA ThenClosed ==
  ASSUME Shape, NEW inf, NEW rest, StateOK(inf, rest), ThenClose(inf, rest), Task.do = "file",
         guest' = guest, opened' \subseteq DOMAIN guest.files
  PROVE  Shape' /\ OnlyTexts(info)' /\ info' = inf /\ Left' = rest /\ step' = "close"
<1> DEFINE one == <<Task>>
<1>1. info' = inf /\ todo' = one \o rest /\ step' = "close"
  BY DEF ThenClose
<1>2. one \in Seq(Range(one)) /\ Len(one) = 1 /\ one[1] = Task
  <2>1. one \in Seq({Task}) /\ Len(one) = 1 /\ one[1] = Task
    OBVIOUS
  <2> HIDE DEF one
  <2> QED BY <2>1, SeqOfRange
<1> HIDE DEF one
<1>3. rest \in Seq(Range(rest))
  BY DEF StateOK
<1>4. /\ todo' \in Seq(Range(todo')) /\ Len(todo') = 1 + Len(rest) /\ Len(rest) \in Nat
      /\ \A i \in 1..(1 + Len(rest)) : todo'[i] = IF i <= 1 THEN one[i] ELSE rest[i - 1]
  <2> DEFINE cat == one \o rest
  <2>1. /\ cat \in Seq(Range(cat)) /\ Len(cat) = Len(one) + Len(rest) /\ Len(rest) \in Nat
        /\ \A i \in 1..(Len(one) + Len(rest)) :
              cat[i] = IF i <= Len(one) THEN one[i] ELSE rest[i - Len(one)]
    BY <1>2, <1>3, Joins
  <2>2. todo' = cat
    BY <1>1
  <2> HIDE DEF cat
  <2> QED BY <1>2, <2>1, <2>2
<1>5. todo' # <<>>
  BY <1>4, Positions
<1>6. Head(todo') = Task
  <2>1. Head(todo') = todo'[1]
    BY <1>4, <1>5, HeadAndTail
  <2> QED BY <1>2, <1>4, <2>1
<1>7. Tail(todo') = rest
  <2> DEFINE r == Tail(todo')
             A == Range(todo') \cup Range(rest)
  <2>1. /\ r \in Seq(Range(todo')) /\ Len(r) = Len(todo') - 1
        /\ \A i \in 1..(Len(todo') - 1) : r[i] = todo'[i + 1]
    BY <1>4, <1>5, HeadAndTail
  <2>2. r \in Seq(A)
    <3> HIDE DEF r
    <3> QED BY <2>1, SeqMonotonic
  <2>3. rest \in Seq(A)
    BY <1>3, SeqMonotonic
  <2>4. Len(r) = Len(rest) /\ \A i \in 1..Len(rest) : r[i] = rest[i]
    <3>1. ASSUME NEW i \in 1..Len(rest) PROVE r[i] = rest[i]
      <4>1. i \in 1..(Len(todo') - 1) /\ i + 1 \in 1..(1 + Len(rest)) /\ ~(i + 1 <= 1) /\ (i + 1) - 1 = i
        BY <1>4
      <4>2. r[i] = todo'[i + 1]
        BY <2>1, <4>1
      <4> QED BY <1>4, <4>1, <4>2
    <3> QED BY <1>4, <2>1, <3>1
  <2> HIDE DEF r, A
  <2>5. r = rest
    BY <2>2, <2>3, <2>4, SeqEqual
  <2> QED BY <2>5 DEF r
<1>8. Left' = rest
  BY <1>1, <1>7 DEF Left
<1>9. OnlyTexts(info)'
  BY <1>1 DEF StateOK, OnlyTexts, Texts, Text, Lists
<1>10. Shape'
  BY <1>1, <1>4, <1>5, <1>6, <1>8 DEF StateOK, Shape, InfoOK, Halves, Opening, Walking, NoWalk, Task
<1> QED BY <1>1, <1>8, <1>9, <1>10

LEMMA Carried ==
  ASSUME guest' = guest, NEW inf, NEW left, info' = inf, Left' = left, Known(inf, left)
  PROVE  Known(info, Left)'
<1>1. FilesKnown(info)' /\ LoginsKnown(info)'
  BY DEF Known, FilesKnown, LoginsKnown, Text
<1>2. NodesKnown(info, Left)'
  BY DEF Known, NodesKnown, SomeNode, Opens
<1>3. Followed(info, Left)'
  BY DEF Known, Followed, Walked, LocalOn, Sids, Good, SessionOf, Opens, Paths, File
<1> QED BY <1>1, <1>2, <1>3 DEF Known

(* The tasks of either half that are not files.                            *)
LEMMA NotFile ==
  ASSUME Shape, todo # <<>>, step = "ask", Task.do # "file"
  PROVE  Opening(info, todo) /\ EarlyTask(Task) /\ info.complete = FALSE
<1>1. Left = todo /\ Task = todo[1] /\ Len(todo) \in Nat \ {0} /\ DOMAIN todo = 1..Len(todo)
  BY HeadAndTail DEF Shape, Left, Task
<1>2. ~Walking(info, todo)
  BY <1>1 DEF Walking, WalkTask
<1>3. Opening(info, todo)
  BY <1>1, <1>2 DEF Shape, Halves
<1>4. Task.path # Nsswitch
  BY <1>3, OnlyNsswitch DEF Shape, Do
<1> QED BY <1>3, <1>4, OpeningTask DEF Shape, Opening

---------------------------------------------------------------------------
(* What the script makes of an answer.                                     *)

Sensible(got) ==
    /\ got.kind = "text" => got.of \in Texts
    /\ got.kind = "list" => got.of \in Lists
Ours(got) == got.kind = "timeout" \/ (got.to = Request /\ Truthful(got))
Knows == Known(info, Left) /\ (step = "read" => handle = Task.path)

LEMMA AskRequest ==
  ASSUME step = "ask"
  PROVE  /\ Task.do \in {"file", "probe"} => Request = Do("open", Task.path)
         /\ Task.do \notin {"file", "probe"} => Request = Task
  BY DEF Request

LEMMA CommandHeard ==
  ASSUME Shape, todo # <<>>, OnlyTexts(info), NEW got, HeardCommand(got), Sensible(got),
         guest' = guest, opened' = opened
  PROVE  Shape' /\ OnlyTexts(info)' /\ (Knows /\ Ours(got) => Knows')
<1> DEFINE inf == IF Task.do = "users" /\ got.kind = "list" THEN [info EXCEPT !.users = got.of]
                  ELSE info
<1>1. /\ Task.do \in Facts \cup {"users"} /\ Finish(inf, Tail(todo))
      /\ Task.do \notin {"file", "probe"}
  BY DEF HeardCommand, Facts
<1>2. step = "ask"
  BY <1>1 DEF Shape
<1>3. info.complete = FALSE
  BY <1>1, <1>2, NotFile
<1>4. /\ InfoOK(inf) /\ inf.complete = FALSE /\ inf.files = info.files
      /\ inf.partial = info.partial /\ inf.before = info.before
      /\ inf.gpu_complete = info.gpu_complete /\ inf.utmp = info.utmp
      /\ inf.users = IF Task.do = "users" /\ got.kind = "list" THEN got.of ELSE info.users
  <2>1. info = [ran |-> info.ran, users |-> info.users, docker |-> info.docker,
                utmp |-> info.utmp, logind |-> info.logind, complete |-> info.complete,
                before |-> info.before, gpu_complete |-> info.gpu_complete,
                files |-> info.files, partial |-> info.partial]
    BY DEF Shape, InfoOK
  <2> DEFINE told == [info EXCEPT !.users = got.of]
  <2>2. told = [ran |-> info.ran, users |-> got.of, docker |-> info.docker,
                utmp |-> info.utmp, logind |-> info.logind, complete |-> info.complete,
                before |-> info.before, gpu_complete |-> info.gpu_complete,
                files |-> info.files, partial |-> info.partial]
    BY <2>1
  <2> HIDE DEF told
  <2>3. InfoOK(told)
    BY <2>2 DEF Shape, InfoOK
  <2>4. inf = IF Task.do = "users" /\ got.kind = "list" THEN told ELSE info
    BY DEF told
  <2> HIDE DEF inf
  <2> QED BY <1>3, <2>2, <2>3, <2>4 DEF Shape
<1> HIDE DEF inf
<1>5. OnlyTexts(inf)
  BY <1>4 DEF OnlyTexts, Sensible
<1>6. /\ StateOK(inf, Tail(todo))
      /\ Known(info, Left) /\ LoginsKnown(inf) => Known(inf, Tail(todo))
  BY <1>2, <1>4, <1>5, DropStep
<1>7. Shape' /\ OnlyTexts(info)' /\ info' = inf /\ Left' = Tail(todo) /\ step' = "ask"
  BY <1>1, <1>6, Finished DEF Shape
<1>8. ASSUME Knows, Ours(got) PROVE LoginsKnown(inf)
  <2>1. Task.do = "users" /\ got.kind = "list" => got.of = guest.users
    BY <1>1, <1>2, <1>8, AskRequest DEF Ours, Truthful
  <2> QED BY <1>4, <1>8, <2>1 DEF Knows, Known, LoginsKnown
<1> QED BY <1>6, <1>7, <1>8, Carried DEF Knows

LEMMA OpenHeard ==
  ASSUME Shape, todo # <<>>, OnlyTexts(info), NEW got, HeardOpen(got),
         guest' = guest, opened' = opened
  PROVE  Shape' /\ OnlyTexts(info)' /\ (Knows /\ Ours(got) => Knows')
<1>1. Task.do = "file" /\ step = "ask" /\ Left = todo
  BY DEF HeardOpen, Left
<1>2. CASE got.kind = "handle"
  <2>1. handle' = got.of /\ step' = "read" /\ todo' = todo /\ info' = info
    BY <1>2 DEF HeardOpen
  <2>2. Left' = Left /\ Task' = Task
    BY <1>1, <2>1 DEF Left, Task
  <2>3. Shape'
    BY <1>1, <2>1, <2>2 DEF Shape, InfoOK, Halves, Opening, Walking, NoWalk
  <2>4. OnlyTexts(info)'
    BY <2>1 DEF OnlyTexts, Texts, Text, Lists
  <2>5. ASSUME Knows, Ours(got) PROVE handle' = Task.path
    <3>1. got.to = Do("open", Task.path) /\ Truthful(got)
      BY <1>1, <1>2, <2>5, AskRequest DEF Ours
    <3>2. Do("open", Task.path).do = "open" /\ Do("open", Task.path).path = Task.path
      BY DEF Do
    <3>3. got.kind = "handle" => got.of = got.to.path
      BY <3>1, <3>2 DEF Truthful
    <3> QED BY <1>2, <2>1, <3>1, <3>2, <3>3
  <2> QED BY <2>1, <2>2, <2>3, <2>4, <2>5, Carried DEF Knows
<1>3. CASE got.kind # "handle"
  <2> DEFINE short == got.kind = "timeout"
             now == Read(info, Task, NoText, short)
             rest == Rest(now, Task, NoText)
  <2>1. Finish(now, rest) /\ short \in BOOLEAN
    BY <1>3 DEF HeardOpen, FinishRead
  <2>2. StateOK(now, rest) /\ (Known(info, Left) /\ Honest(Task, NoText, short) => Known(now, rest))
    BY <1>1, ReadStep
  <2>3. ASSUME Ours(got) PROVE Honest(Task, NoText, short)
    <3>1. CASE ~short
      <4>1. got.to = Do("open", Task.path) /\ Truthful(got)
        BY <1>1, <2>3, <3>1, AskRequest DEF Ours
      <4>2. Do("open", Task.path).do = "open" /\ Do("open", Task.path).path = Task.path
        BY DEF Do
      <4>3. ~Opens(Task.path)
        BY <1>3, <4>1, <4>2 DEF Truthful
      <4> QED BY <4>3 DEF Honest
    <3> QED BY <3>1 DEF Honest
  <2> HIDE DEF rest, now
  <2>4. Shape' /\ OnlyTexts(info)' /\ info' = now /\ Left' = rest /\ step' = "ask"
    BY <2>1, <2>2, Finished DEF Shape
  <2> QED BY <2>2, <2>3, <2>4, Carried DEF Knows
<1> QED BY <1>2, <1>3

LEMMA ProbeHeard ==
  ASSUME Shape, todo # <<>>, OnlyTexts(info), NEW got, HeardProbe(got),
         guest' = guest, opened' = opened
  PROVE  Shape' /\ OnlyTexts(info)' /\ (Knows /\ Ours(got) => Knows')
<1> DEFINE says == IF got.kind = "timeout" THEN None ELSE got.kind = "handle"
           inf == CASE Task.path = Docker -> [info EXCEPT !.docker = says]
                    [] Task.path = Utmp -> [info EXCEPT !.utmp = says]
                    [] Task.path = SessionsDir -> [info EXCEPT !.logind = says]
<1>1. /\ Task.do = "probe" /\ step = "ask"
      /\ got.kind = "handle" =>
            info' = inf /\ step' = "close" /\ UNCHANGED todo
      /\ got.kind # "handle" => Finish(inf, Tail(todo))
  BY Zenon DEF HeardProbe
<1>2. info.complete = FALSE /\ Task.path \in {Docker, Utmp, SessionsDir}
  BY <1>1, NotFile DEF EarlyTask, Facts
<1>3. says = TRUE => got.kind = "handle"
  <2>1. got.kind = "timeout" => says = None
    OBVIOUS
  <2>2. got.kind # "timeout" => says = (got.kind = "handle")
    OBVIOUS
  <2>3. None # TRUE
    BY GuestAssumption DEF GuestAssumption
  <2> HIDE DEF says
  <2> QED BY <2>1, <2>2, <2>3
<1> HIDE DEF says
<1>4. info = [ran |-> info.ran, users |-> info.users, docker |-> info.docker,
              utmp |-> info.utmp, logind |-> info.logind, complete |-> info.complete,
              before |-> info.before, gpu_complete |-> info.gpu_complete,
              files |-> info.files, partial |-> info.partial]
  BY DEF Shape, InfoOK
<1>5. inf = [ran |-> info.ran, users |-> info.users,
             docker |-> IF Task.path = Docker THEN says ELSE info.docker,
             utmp |-> IF Task.path = Utmp THEN says ELSE info.utmp,
             logind |-> IF Task.path = SessionsDir THEN says ELSE info.logind,
             complete |-> info.complete, before |-> info.before,
             gpu_complete |-> info.gpu_complete,
             files |-> info.files, partial |-> info.partial]
  <2>1. CASE Task.path = Docker
    <3>1. Docker # Utmp /\ Docker # SessionsDir
      BY DEF Docker, Utmp, SessionsDir
    <3>2. inf = [info EXCEPT !.docker = says]
      BY <2>1, <3>1
    <3> QED BY <1>4, <2>1, <3>1, <3>2
  <2>2. CASE Task.path = Utmp
    <3>1. Utmp # Docker /\ Utmp # SessionsDir
      BY DEF Docker, Utmp, SessionsDir
    <3>2. inf = [info EXCEPT !.utmp = says]
      BY <2>2, <3>1
    <3> QED BY <1>4, <2>2, <3>1, <3>2
  <2>3. CASE Task.path = SessionsDir
    <3>1. SessionsDir # Docker /\ SessionsDir # Utmp
      BY DEF Docker, Utmp, SessionsDir
    <3>2. inf = [info EXCEPT !.logind = says]
      BY <2>3, <3>1
    <3> QED BY <1>4, <2>3, <3>1, <3>2
  <2> QED BY <1>2, <2>1, <2>2, <2>3
<1> HIDE DEF inf
<1>6. /\ InfoOK(inf) /\ inf.complete = FALSE /\ inf.files = info.files
      /\ inf.partial = info.partial /\ inf.before = info.before
      /\ inf.gpu_complete = info.gpu_complete /\ inf.users = info.users
      /\ inf.utmp = IF Task.path = Utmp THEN says ELSE info.utmp
  BY <1>2, <1>5 DEF Shape, InfoOK
<1>7. OnlyTexts(inf)
  BY <1>6 DEF OnlyTexts
<1>8. /\ StateOK(inf, Tail(todo))
      /\ Known(info, Left) /\ LoginsKnown(inf) => Known(inf, Tail(todo))
  BY <1>1, <1>6, <1>7, DropStep
<1>9. Shape' /\ OnlyTexts(info)' /\ info' = inf /\ Left' = Tail(todo) /\ step' # "read"
  <2>1. CASE got.kind # "handle"
    BY <1>1, <1>8, <2>1, Finished DEF Shape
  <2>2. CASE got.kind = "handle"
    <3>1. info' = inf /\ step' = "close" /\ todo' = todo
      BY <1>1, <2>2
    <3>2. Left' = Tail(todo) /\ Task' = Task
      BY <3>1 DEF Left, Task
    <3>3. OnlyTexts(info)'
      BY <1>7, <3>1 DEF OnlyTexts, Texts, Text, Lists
    <3>4. Shape'
      BY <1>1, <1>8, <3>1, <3>2 DEF StateOK, Shape, InfoOK, Halves, Opening, Walking, NoWalk
    <3> QED BY <3>1, <3>2, <3>3, <3>4
  <2> QED BY <2>1, <2>2
<1>10. ASSUME Knows, Ours(got) PROVE LoginsKnown(inf)
  <2>1. Task.path = Utmp /\ got.kind = "handle" => Utmp \in DOMAIN guest.files
    <3>1. Do("open", Task.path).do = "open" /\ Do("open", Task.path).path = Task.path
      BY DEF Do
    <3>2. got.kind = "handle" => got.to = Do("open", Task.path) /\ Truthful(got)
      BY <1>1, <1>10, AskRequest DEF Ours
    <3> QED BY <3>1, <3>2 DEF Truthful, Opens
  <2> QED BY <1>3, <1>6, <1>10, <2>1 DEF Knows, Known, LoginsKnown
<1> QED BY <1>8, <1>9, <1>10, Carried DEF Knows

LEMMA ReadHeard ==
  ASSUME Shape, todo # <<>>, OnlyTexts(info), NEW got, HeardRead(got), Sensible(got),
         guest' = guest, opened' = opened
  PROVE  Shape' /\ OnlyTexts(info)' /\ (Knows /\ Ours(got) => Knows')
<1> DEFINE text == IF got.kind = "text" THEN got.of ELSE NoText
           short == got.kind # "text" \/ got.of.read = "short"
           now == Read(info, Task, text, short)
           rest == Rest(now, Task, text)
<1>1. step = "read" /\ ThenClose(now, rest)
  BY DEF HeardRead
<1>2. Task.do = "file" /\ text \in Texts \cup {NoText} /\ short \in BOOLEAN
  BY <1>1 DEF Shape, Sensible
<1>3. ASSUME Knows, Ours(got) PROVE Honest(Task, text, short)
  <2>1. CASE got.kind = "text"
    <3>1. got.to = Do("read", Task.path) /\ Truthful(got)
      BY <1>1, <1>3, <2>1 DEF Ours, Knows, Request
    <3>2. Do("read", Task.path).do = "read" /\ Do("read", Task.path).path = Task.path
      BY DEF Do
    <3>3. Task.path \in DOMAIN guest.files /\ got.of = Text(Task.path)
      BY <2>1, <3>1, <3>2 DEF Truthful
    <3> QED BY <2>1, <3>3 DEF Honest
  <2>2. CASE got.kind # "text"
    BY <2>2 DEF Honest
  <2> QED BY <2>1, <2>2
<1> HIDE DEF text, short
<1>4. StateOK(now, rest) /\ (Known(info, Left) /\ Honest(Task, text, short) => Known(now, rest))
  BY <1>1, <1>2, ReadStep
<1> HIDE DEF rest, now
<1>5. Shape' /\ OnlyTexts(info)' /\ info' = now /\ Left' = rest /\ step' = "close"
  BY <1>1, <1>2, <1>4, ThenClosed DEF Shape
<1> QED BY <1>3, <1>4, <1>5, Carried DEF Knows

LEMMA CloseHeard ==
  ASSUME Shape, todo # <<>>, OnlyTexts(info), NEW got, HeardClose(got),
         guest' = guest, opened' = opened
  PROVE  Shape' /\ OnlyTexts(info)' /\ (Knows => Knows')
<1>1. step = "close" /\ Finish(info, Tail(todo)) /\ Left = Tail(todo)
  BY DEF HeardClose, Left
<1>2. Left \in Seq(Range(Left))
  BY <1>1, HeadAndTail, SeqOfRange DEF Shape
<1>3. StateOK(info, Left)
  BY <1>2 DEF Shape, StateOK
<1>4. Shape' /\ OnlyTexts(info)' /\ info' = info /\ Left' = Left /\ step' = "ask"
  BY <1>1, <1>3, Finished DEF Shape
<1> QED BY <1>4, Carried DEF Knows

LEMMA HeardStep ==
  ASSUME Shape, todo # <<>>, OnlyTexts(info), NEW got, Heard(got), Sensible(got),
         guest' = guest, opened' = opened
  PROVE  Shape' /\ OnlyTexts(info)' /\ (Knows /\ Ours(got) => Knows')
<1>1. CASE HeardCommand(got)
  BY <1>1, CommandHeard
<1>2. CASE HeardOpen(got)
  BY <1>2, OpenHeard
<1>3. CASE HeardProbe(got)
  BY <1>3, ProbeHeard
<1>4. CASE HeardRead(got)
  BY <1>4, ReadHeard
<1>5. CASE HeardClose(got)
  BY <1>5, CloseHeard
<1> QED BY <1>1, <1>2, <1>3, <1>4, <1>5 DEF Heard

---------------------------------------------------------------------------
(* Every step keeps the invariant.                                         *)

LEMMA Begun ==
  ASSUME AgentInit
  PROVE  AgentInv
<1> USE DEF AgentInit
<1>1. /\ Script \in Seq(Range(Script)) /\ Script # <<>> /\ Len(Script) = 15
      /\ DOMAIN Script = 1..15
  <2> DEFINE A == {Script[1], Script[2], Script[3], Script[4], Script[5], Script[6],
                   Script[7], Script[8], Script[9], Script[10], Script[11], Script[12],
                   Script[13], Script[14], Script[15]}
  <2>1. Script \in Seq(A) /\ Len(Script) = 15
    BY DEF Script
  <2> HIDE DEF A
  <2>2. Script \in Seq(Range(Script))
    BY <2>1, SeqOfRange
  <2>3. DOMAIN Script = 1..Len(Script) /\ Script # <<>>
    <3>1. Len(Script) # 0
      BY <2>1
    <3> QED BY <2>2, <3>1, Positions
  <2>4. DOMAIN Script = 1..15
    BY <2>1, <2>3
  <2> QED BY <2>1, <2>2, <2>3, <2>4
<1>2. /\ Script[1] = Do("sync", <<>>) /\ Script[2] = Do("host-name", <<>>)
      /\ Script[3] = Do("interfaces", <<>>) /\ Script[4] = Do("disks", <<>>)
      /\ Script[5] = Do("fsinfo", <<>>) /\ Script[6] = Do("users", <<>>)
      /\ Script[7] = Do("file", Passwd) /\ Script[8] = Do("file", Keys)
      /\ Script[9] = Do("file", Node(1)) /\ Script[10] = Do("file", Stat)
      /\ Script[11] = Do("probe", Docker) /\ Script[12] = Do("file", Unix)
      /\ Script[13] = Do("probe", Utmp) /\ Script[14] = Do("probe", SessionsDir)
      /\ Script[15] = Do("file", Nsswitch)
  BY DEF Script
<1>3. EarlyTask(Do("file", Node(1)))
  <2>1. Node(1) # <<>> /\ Node(1)[1] = "node" /\ Node(1)[2] = 1
    BY DEF Node
  <2> QED BY <2>1 DEF EarlyTask, Is, Do
<1>4. \A i \in 1..14 : EarlyTask(Script[i])
  <2>1. \A i \in 1..14 : i \in 1..6 \/ i \in {7, 8, 9, 10, 11, 12, 13, 14}
    OBVIOUS
  <2>2. \A i \in {1, 2, 3, 4, 5, 6} : EarlyTask(Script[i])
    BY <1>2 DEF EarlyTask, Do, Facts
  <2>3. \A i \in {7, 8, 10, 11, 12, 13, 14} : EarlyTask(Script[i])
    BY <1>2 DEF EarlyTask, Do
  <2>4. \A i \in 1..6 : i \in {1, 2, 3, 4, 5, 6}
    OBVIOUS
  <2> QED BY <1>2, <1>3, <2>1, <2>2, <2>3, <2>4
<1>5. \A x \in Range(Script) : Is(x, "node") => x.path = Node(1)
  <2>1. \A i \in 1..15 : i \in 1..6 \/ i \in {7, 8, 9, 10, 11, 12, 13, 14, 15}
    OBVIOUS
  <2>2. \A i \in {1, 2, 3, 4, 5, 6} : ~Is(Script[i], "node")
    BY <1>2 DEF Is, Do
  <2>3. \A i \in {7, 8, 10, 11, 12, 13, 14, 15} : ~Is(Script[i], "node")
    BY <1>2 DEF Is, Do, Passwd, Keys, Stat, Docker, Unix, Utmp, SessionsDir, Nsswitch
  <2>4. Script[9].path = Node(1)
    BY <1>2 DEF Do
  <2>5. \A i \in 1..6 : i \in {1, 2, 3, 4, 5, 6}
    OBVIOUS
  <2> QED BY <1>1, <2>1, <2>2, <2>3, <2>4, <2>5 DEF Range
<1> HIDE DEF Script
<1>6. DOMAIN NoInfo.files = {} /\ InfoOK(NoInfo)
  BY DEF NoInfo, InfoOK
<1>7. Opening(NoInfo, Script)
  BY <1>1, <1>2, <1>4 DEF Opening, NoInfo, NoWalk
<1>8. Left = Script /\ info = NoInfo /\ todo = Script
  BY DEF Left
<1>9. Shape
  BY <1>1, <1>6, <1>7, <1>8 DEF Shape, Halves
<1>10. LineTrue
  <2> PICK n \in 0..Stale :
        line = [i \in 1..n |-> [to |-> Do("earlier", <<>>), kind |-> "error", of |-> <<>>]]
    OBVIOUS
  <2>1. n \in Nat
    BY GuestAssumption DEF GuestAssumption
  <2>2. DOMAIN line = 1..n /\ \A i \in 1..n : line[i].kind = "error" /\ line[i].to.do = "earlier"
    BY DEF Do
  <2>3. line = [i \in 1..n |-> line[i]] /\ \A i \in 1..n : line[i] \in Range(line)
    BY DEF Range
  <2> DEFINE A == Range(line)
  <2> HIDE DEF A
  <2>4. [i \in 1..n |-> line[i]] \in Seq(A)
    BY <2>1, <2>3, IsASeq DEF A
  <2>5. \A i \in 1..n : Truthful(line[i])
    BY <2>2 DEF Truthful
  <2> QED BY <2>2, <2>3, <2>4, <2>5 DEF LineTrue, A
<1>11. OnlyTexts(info)
  BY <1>6 DEF OnlyTexts, NoInfo
<1>12. Known(info, Left)
  <2>1. FilesKnown(info)
    BY <1>6 DEF FilesKnown
  <2>2. LoginsKnown(info)
    BY GuestAssumption DEF GuestAssumption, LoginsKnown, NoInfo
  <2>3. NodesKnown(info, Left)
    BY <1>5, <1>8 DEF NodesKnown, NoInfo
  <2>4. Followed(info, Left)
    BY DEF Followed, NoInfo
  <2> QED BY <2>1, <2>2, <2>3, <2>4 DEF Known
<1> QED BY <1>9, <1>10, <1>11, <1>12 DEF AgentInv

(* Steps the script's state is not touched by.                             *)
LEMMA Aside ==
  ASSUME AgentInv, UNCHANGED <<guest, script, crossed>>, opened' \subseteq DOMAIN guest.files,
         LineTrue'
  PROVE  AgentInv'
<1>1. guest' = guest /\ todo' = todo /\ step' = step /\ handle' = handle /\ info' = info
      /\ crossed' = crossed
  BY DEF script
<1>2. Left' = Left /\ Task' = Task
  BY <1>1 DEF Left, Task
<1>3. Shape'
  BY <1>1, <1>2 DEF AgentInv, Shape, InfoOK, Halves, Opening, Walking, NoWalk
<1>4. OnlyTexts(info)'
  BY <1>1 DEF AgentInv, OnlyTexts, Texts, Text, Lists
<1>5. Known(info, Left) => Known(info, Left)'
  BY <1>1, <1>2, Carried
<1> QED BY <1>1, <1>2, <1>3, <1>4, <1>5 DEF AgentInv

LEMMA SameLine ==
  ASSUME LineTrue, guest' = guest, line' = line
  PROVE  LineTrue'
  BY DEF LineTrue, Truthful, Texts, Text, Lists, Opens

LEMMA Emptied ==
  ASSUME line' = <<>>
  PROVE  LineTrue'
  BY NoElement DEF LineTrue, Truthful

LEMMA Answered ==
  ASSUME AgentInv, NEW kind, NEW of, Reply(kind, of), opened' \subseteq DOMAIN guest.files,
         Truthful([to |-> Head(owed), kind |-> kind, of |-> of])
  PROVE  AgentInv'
<1> DEFINE m == [to |-> Head(owed), kind |-> kind, of |-> of]
           A == Range(line) \cup {m}
<1>1. line' = Append(line, m) /\ guest' = guest /\ UNCHANGED <<script, crossed>>
  BY DEF Reply
<1>2. Truthful(m)
  OBVIOUS
<1>3. line \in Seq(A)
  BY SeqMonotonic DEF AgentInv, LineTrue
<1>4. Len(line) \in Nat /\ DOMAIN line = 1..Len(line)
  BY <1>3, LenProperties
<1>5. m \in A
  OBVIOUS
<1> HIDE DEF m, A
<1>6. /\ line' \in Seq(A) /\ Len(line') = Len(line) + 1
      /\ \A i \in 1..Len(line) : line'[i] = line[i]
      /\ line'[Len(line) + 1] = m
  BY <1>1, <1>3, <1>5, AppendProperties
<1>7. line' \in Seq(Range(line')) /\ DOMAIN line' = 1..(Len(line) + 1)
  BY <1>6, SeqOfRange, LenProperties
<1>8. \A i \in 1..(Len(line) + 1) : Truthful(line'[i])
  <2>1. \A i \in 1..Len(line) : Truthful(line[i])
    BY <1>4 DEF AgentInv, LineTrue
  <2>2. \A i \in 1..(Len(line) + 1) : i = Len(line) + 1 \/ i \in 1..Len(line)
    BY <1>4
  <2> QED BY <1>2, <1>6, <2>1, <2>2
<1>9. ASSUME NEW i \in 1..(Len(line) + 1)
      PROVE  Truthful(line[i])'
  <2>1. Truthful(line'[i])
    BY <1>8, <1>9
  <2>2. \A p : Text(p)' = Text(p)
    BY <1>1 DEF Text
  <2>3. Texts' = Texts /\ Lists' = Lists
    BY <1>1, <2>2 DEF Texts, Lists
  <2>4. \A p : Opens(p)' = Opens(p)
    BY <1>1 DEF Opens
  <2> QED BY <1>1, <2>1, <2>2, <2>3, <2>4 DEF Truthful
<1>10. LineTrue'
  BY <1>7, <1>9 DEF LineTrue
<1> QED BY <1>1, <1>10, Aside

LEMMA AnswerStep ==
  ASSUME AgentInv, AnswerCommand \/ AnswerFile
  PROVE  AgentInv'
<1> DEFINE p == Head(owed).path
           Msg(kind, of) == [to |-> Head(owed), kind |-> kind, of |-> of]
<1>1. opened \subseteq DOMAIN guest.files
  BY DEF AgentInv, Shape
<1>2. CASE AnswerCommand
  <2>1. opened' = opened
    BY <1>2 DEF AnswerCommand
  <2>2. CASE Head(owed).do = "sync" /\ Reply("id", {})
    <3>1. Truthful(Msg("id", {}))
      BY <2>2 DEF Truthful
    <3> QED BY <1>1, <2>1, <2>2, <3>1, Answered
  <2>3. CASE Head(owed).do \in Facts /\ Reply("list", {None})
    <3>1. Truthful(Msg("list", {None}))
      BY <2>3 DEF Truthful, Lists, Facts
    <3> QED BY <1>1, <2>1, <2>3, <3>1, Answered
  <2>4. CASE Head(owed).do = "users" /\ Reply("list", guest.users)
    <3>1. Truthful(Msg("list", guest.users))
      BY <2>4 DEF Truthful, Lists
    <3> QED BY <1>1, <2>1, <2>4, <3>1, Answered
  <2>5. CASE Head(owed).do \in Facts \cup {"users"} /\ Reply("error", {})
    <3>1. Truthful(Msg("error", {}))
      BY <2>5 DEF Truthful, Facts
    <3> QED BY <1>1, <2>1, <2>5, <3>1, Answered
  <2> QED BY <1>2, <2>2, <2>3, <2>4, <2>5 DEF AnswerCommand
<1>3. CASE AnswerFile
  <2>1. CASE Head(owed).do = "open" /\ Opens(p) /\ opened' = opened \cup {p}
             /\ Reply("handle", p)
    <3>1. Truthful(Msg("handle", p))
      BY <2>1 DEF Truthful
    <3>2. opened' \subseteq DOMAIN guest.files
      BY <1>1, <2>1 DEF Opens
    <3> QED BY <2>1, <3>1, <3>2, Answered
  <2>2. CASE Head(owed).do = "open" /\ ~Opens(p) /\ opened' = opened
             /\ Reply("error", {})
    <3>1. Truthful(Msg("error", {}))
      BY <2>2 DEF Truthful
    <3> QED BY <1>1, <2>2, <3>1, Answered
  <2>3. CASE Head(owed).do = "read" /\ opened' = opened /\ p \in opened /\ Reply("text", Text(p))
    <3>1. p \in DOMAIN guest.files /\ Text(p) \in Texts
      BY <1>1, <2>3 DEF Texts
    <3>2. Truthful(Msg("text", Text(p)))
      BY <2>3, <3>1 DEF Truthful
    <3> QED BY <1>1, <2>3, <3>2, Answered
  <2>4. CASE Head(owed).do = "read" /\ opened' = opened /\ Reply("error", {})
    <3>1. Truthful(Msg("error", {}))
      BY <2>4 DEF Truthful
    <3> QED BY <1>1, <2>4, <3>1, Answered
  <2>5. CASE Head(owed).do = "close" /\ opened' = opened \ {p} /\ Reply("done", {})
    <3>1. Truthful(Msg("done", {}))
      BY <2>5 DEF Truthful
    <3>2. opened' \subseteq DOMAIN guest.files
      BY <1>1, <2>5
    <3> QED BY <2>5, <3>1, <3>2, Answered
  <2> QED BY <1>3, <2>1, <2>2, <2>3, <2>4, <2>5 DEF AnswerFile
<1> QED BY <1>2, <1>3

LEMMA SkipStep ==
  ASSUME AgentInv, Skip
  PROVE  AgentInv'
<1>1. /\ Shape /\ OnlyTexts(info) /\ step = "ask" /\ todo # <<>> /\ LineTrue /\ Left = todo
      /\ guest' = guest /\ opened' = opened /\ line' = line /\ crossed' = crossed
  BY DEF AgentInv, Skip, Done, stream, Left
<1>2. LineTrue'
  BY <1>1, SameLine
<1>3. CASE Task.path = Nsswitch /\ Wanted(Task)
  <2> DEFINE now == Read(info, Task, NoText, FALSE)
             rest == Rest(now, Task, NoText)
  <2>1. Finish(now, rest)
    BY <1>3 DEF Skip, FinishRead
  <2>2. Task.do = "file"
    <3>1. Task = todo[1] /\ 1 \in DOMAIN todo
      BY <1>1, HeadAndTail DEF Shape, Task
    <3>2. Walking(info, todo) => WalkTask(Task)
      BY <3>1 DEF Walking
    <3>3. Opening(info, todo) => Task = Do("file", Nsswitch)
      BY <1>1, <1>3, OnlyNsswitch DEF Shape
    <3> QED BY <1>1, <3>2, <3>3 DEF Shape, Halves, WalkTask, Do
  <2>3. Honest(Task, NoText, FALSE)
    BY <1>3 DEF Honest
  <2>4. StateOK(now, rest) /\ (Known(info, Left) => Known(now, rest))
    BY <1>1, <2>2, <2>3, ReadStep
  <2> HIDE DEF rest, now
  <2>5. Shape' /\ OnlyTexts(info)' /\ info' = now /\ Left' = rest /\ step' = "ask"
    BY <1>1, <2>1, <2>4, Finished DEF Shape
  <2> QED BY <1>1, <1>2, <2>4, <2>5, Carried DEF AgentInv
<1>4. CASE ~(Task.path = Nsswitch /\ Wanted(Task))
  <2> DEFINE still == info.complete /\ ~Is(Task, "user") /\ ~Is(Task, "session")
             inf == [info EXCEPT !.complete = still]
  <2>1. Finish(inf, Tail(todo))
    BY <1>4 DEF Skip
  <2>2. still = FALSE
    <3>1. Task = todo[1] /\ 1 \in DOMAIN todo
      BY <1>1, HeadAndTail DEF Shape, Task
    <3>2. Walking(info, todo) => WalkTask(Task)
      BY <3>1 DEF Walking
    <3> QED BY <1>1, <3>2 DEF Shape, Halves, WalkTask, Opening
  <2> HIDE DEF still
  <2>3. inf = [ran |-> info.ran, users |-> info.users, docker |-> info.docker,
               utmp |-> info.utmp, logind |-> info.logind, complete |-> still,
               before |-> info.before, gpu_complete |-> info.gpu_complete,
               files |-> info.files, partial |-> info.partial]
    <3>1. info = [ran |-> info.ran, users |-> info.users, docker |-> info.docker,
                  utmp |-> info.utmp, logind |-> info.logind, complete |-> info.complete,
                  before |-> info.before, gpu_complete |-> info.gpu_complete,
                  files |-> info.files, partial |-> info.partial]
      BY <1>1 DEF Shape, InfoOK
    <3> QED BY <3>1
  <2> HIDE DEF inf
  <2>4. /\ InfoOK(inf) /\ inf.complete = FALSE /\ inf.files = info.files
        /\ inf.partial = info.partial /\ inf.before = info.before
        /\ inf.gpu_complete = info.gpu_complete /\ inf.users = info.users /\ inf.utmp = info.utmp
    BY <1>1, <2>2, <2>3 DEF Shape, InfoOK
  <2>5. OnlyTexts(inf)
    BY <1>1, <2>4 DEF OnlyTexts
  <2>6. /\ StateOK(inf, Tail(todo))
        /\ Known(info, Left) /\ LoginsKnown(inf) => Known(inf, Tail(todo))
    BY <1>1, <2>4, <2>5, DropStep
  <2>7. Known(info, Left) => LoginsKnown(inf)
    BY <2>4 DEF Known, LoginsKnown
  <2>8. Shape' /\ OnlyTexts(info)' /\ info' = inf /\ Left' = Tail(todo) /\ step' = "ask"
    BY <1>1, <2>1, <2>6, Finished DEF Shape
  <2> QED BY <1>1, <1>2, <2>6, <2>7, <2>8, Carried DEF AgentInv
<1> QED BY <1>3, <1>4

LEMMA ReceiveStep ==
  ASSUME AgentInv, Receive
  PROVE  AgentInv'
<1> DEFINE got == Head(line)
<1>1. /\ Shape /\ OnlyTexts(info) /\ todo # <<>> /\ guest' = guest /\ opened' = opened
      /\ Heard(got) /\ line' = <<>> /\ crossed' = (crossed \/ got.to # Request)
  BY DEF AgentInv, Receive, Done
<1>2. Truthful(got)
  <2>1. line \in Seq(Range(line)) /\ line # <<>>
    BY DEF AgentInv, LineTrue, Receive
  <2>2. got = line[1] /\ 1 \in DOMAIN line
    BY <2>1, HeadAndTail
  <2> QED BY <2>2 DEF AgentInv, LineTrue
<1> HIDE DEF got
<1>3. Sensible(got)
  BY <1>2 DEF Sensible, Truthful
<1>4. Shape' /\ OnlyTexts(info)' /\ (Knows /\ Ours(got) => Knows')
  BY <1>1, <1>3, HeardStep
<1>5. LineTrue'
  BY <1>1, Emptied
<1>6. crossed' \/ Knows'
  <2>1. CASE ~crossed /\ got.to = Request
    <3>1. Knows /\ Ours(got)
      BY <1>2, <2>1 DEF AgentInv, Knows, Ours
    <3> QED BY <1>4, <3>1
  <2>2. CASE crossed \/ got.to # Request
    BY <1>1, <2>2
  <2> QED BY <2>1, <2>2
<1> QED BY <1>4, <1>5, <1>6 DEF AgentInv, Knows

LEMMA GiveUpStep ==
  ASSUME AgentInv, GiveUp
  PROVE  AgentInv'
<1> DEFINE got == [kind |-> "timeout"]
<1>1. /\ Shape /\ OnlyTexts(info) /\ todo # <<>> /\ guest' = guest /\ opened' = opened
      /\ Heard(got) /\ line' = line /\ crossed' = crossed /\ LineTrue
  BY DEF AgentInv, GiveUp, Done, stream
<1>2. Sensible(got) /\ Ours(got)
  BY DEF Sensible, Ours
<1> HIDE DEF got
<1>3. Shape' /\ OnlyTexts(info)' /\ (Knows => Knows')
  BY <1>1, <1>2, HeardStep
<1>4. LineTrue'
  BY <1>1, SameLine
<1> QED BY <1>1, <1>3, <1>4 DEF AgentInv, Knows

LEMMA SyncStep ==
  ASSUME AgentInv, Sync
  PROVE  AgentInv'
<1>1. /\ Shape /\ OnlyTexts(info) /\ todo # <<>> /\ guest' = guest /\ opened' = opened
      /\ Task.do = "sync" /\ line' = <<>> /\ crossed' = crossed
  BY DEF AgentInv, Sync, Done
<1>2. LineTrue'
  BY <1>1, Emptied
<1>3. CASE Head(line).kind = "id"
  <2> DEFINE ran == TRUE
             inf == [info EXCEPT !.ran = ran]
  <2>1. Finish(inf, Tail(todo))
    BY <1>3 DEF Sync
  <2> HIDE DEF ran
  <2>2. step = "ask"
    BY <1>1 DEF Shape
  <2>3. info.complete = FALSE
    BY <1>1, <2>2, NotFile
  <2>4. inf = [ran |-> ran, users |-> info.users, docker |-> info.docker,
               utmp |-> info.utmp, logind |-> info.logind, complete |-> info.complete,
               before |-> info.before, gpu_complete |-> info.gpu_complete,
               files |-> info.files, partial |-> info.partial]
    <3>1. info = [ran |-> info.ran, users |-> info.users, docker |-> info.docker,
                  utmp |-> info.utmp, logind |-> info.logind, complete |-> info.complete,
                  before |-> info.before, gpu_complete |-> info.gpu_complete,
                  files |-> info.files, partial |-> info.partial]
      BY <1>1 DEF Shape, InfoOK
    <3> QED BY <3>1
  <2> HIDE DEF inf
  <2>5. /\ InfoOK(inf) /\ inf.complete = FALSE /\ inf.files = info.files
        /\ inf.partial = info.partial /\ inf.before = info.before
        /\ inf.gpu_complete = info.gpu_complete /\ inf.users = info.users /\ inf.utmp = info.utmp
    BY <1>1, <2>3, <2>4 DEF Shape, InfoOK
  <2>6. OnlyTexts(inf)
    BY <1>1, <2>5 DEF OnlyTexts
  <2>7. /\ StateOK(inf, Tail(todo))
        /\ Known(info, Left) /\ LoginsKnown(inf) => Known(inf, Tail(todo))
    BY <1>1, <2>2, <2>5, <2>6, DropStep
  <2>8. Known(info, Left) => LoginsKnown(inf)
    BY <2>5 DEF Known, LoginsKnown
  <2>9. Shape' /\ OnlyTexts(info)' /\ info' = inf /\ Left' = Tail(todo) /\ step' = "ask"
    BY <1>1, <2>1, <2>7, Finished DEF Shape
  <2> QED BY <1>1, <1>2, <2>7, <2>8, <2>9, Carried DEF AgentInv
<1>4. CASE Head(line).kind # "id"
  <2>1. UNCHANGED <<guest, script, crossed>> /\ opened' \subseteq DOMAIN guest.files
    BY <1>1, <1>4 DEF Sync, Shape
  <2> QED BY <1>2, <2>1, Aside
<1> QED BY <1>3, <1>4

LEMMA LoseStep ==
  ASSUME AgentInv, Lose
  PROVE  AgentInv'
<1>1. /\ Shape /\ guest' = guest /\ opened' = opened /\ Finish(NoInfo, <<>>)
      /\ line' = <<>> /\ crossed' = crossed
  BY DEF AgentInv, Lose
<1>2. DOMAIN NoInfo.files = {} /\ InfoOK(NoInfo)
  BY DEF NoInfo, InfoOK
<1>3. Walking(NoInfo, <<>>)
  BY DEF Walking, NoInfo, NoWalk
<1>4. StateOK(NoInfo, <<>>)
  BY <1>2, <1>3, NoElement DEF StateOK, Halves, OnlyTexts, NoInfo
<1>5. Known(NoInfo, <<>>)
  <2>1. FilesKnown(NoInfo)
    BY <1>2 DEF FilesKnown
  <2>2. LoginsKnown(NoInfo)
    BY GuestAssumption DEF GuestAssumption, LoginsKnown, NoInfo
  <2>3. NodesKnown(NoInfo, <<>>)
    BY NoElement DEF NodesKnown, NoInfo
  <2>4. Followed(NoInfo, <<>>)
    BY DEF Followed, NoInfo
  <2> QED BY <2>1, <2>2, <2>3, <2>4 DEF Known
<1>6. Shape' /\ OnlyTexts(info)' /\ info' = NoInfo /\ Left' = <<>> /\ step' = "ask"
  BY <1>1, <1>4, Finished DEF Shape
<1>7. LineTrue'
  BY <1>1, Emptied
<1> QED BY <1>1, <1>5, <1>6, <1>7, Carried DEF AgentInv

LEMMA AgentStep ==
  ASSUME AgentInv, [AgentNext]_agentVars
  PROVE  AgentInv'
<1>1. CASE AnswerCommand \/ AnswerFile
  BY <1>1, AnswerStep
<1>2. CASE Ask \/ Slow \/ UNCHANGED agentVars
  <2>1. /\ guest' = guest /\ opened' = opened /\ line' = line
        /\ UNCHANGED <<guest, script, crossed>>
    BY <1>2 DEF Ask, Slow, agentVars, stream, script
  <2>2. LineTrue' /\ opened' \subseteq DOMAIN guest.files
    BY <2>1, SameLine DEF AgentInv, Shape
  <2> QED BY <2>1, <2>2, Aside
<1>3. CASE Skip
  BY <1>3, SkipStep
<1>4. CASE Receive
  BY <1>4, ReceiveStep
<1>5. CASE GiveUp
  BY <1>5, GiveUpStep
<1>6. CASE Sync
  BY <1>6, SyncStep
<1>7. CASE Lose
  BY <1>7, LoseStep
<1> QED BY <1>1, <1>2, <1>3, <1>4, <1>5, <1>6, <1>7 DEF AgentNext

LEMMA AgentAlways == AgentSpec => []AgentInv
<1>1. AgentInit => AgentInv
  BY Begun
<1>2. AgentInv /\ [AgentNext]_agentVars => AgentInv'
  BY AgentStep
<1> QED BY <1>1, <1>2, PTL DEF AgentSpec

---------------------------------------------------------------------------
(* What the host concludes.                                                *)

LEMMA EmptyFound ==
  ASSUME NEW found, NEW complete, Resolve(found, complete) = {}
  PROVE  found = {} /\ complete
<1>1. None # {}
  BY GuestAssumption DEF GuestAssumption
<1> QED BY <1>1 DEF Resolve

(* What is known of a file not read short is all of it.                    *)
LEMMA WholeFile ==
  ASSUME guest \in Guests, FilesKnown(info), NEW p \in DOMAIN info.files \ info.partial
  PROVE  p \in DOMAIN guest.files /\ info.files[p] = guest.files[p]
  BY TextIs DEF FilesKnown

LEMMA AtTheEnd ==
  ASSUME AgentInv, Done
  PROVE  /\ guest \in Guests /\ Paths(Left) = {} /\ NoWalk(info.before)
         /\ OnlyTexts(info) /\ (crossed \/ Known(info, Left))
<1>1. Left = <<>>
  BY DEF Done, AgentInv, Shape, Left
<1>2. Walking(info, Left)
  BY <1>1 DEF AgentInv, Shape, Halves, Opening
<1> QED BY <1>1, <1>2, NoElement DEF AgentInv, Shape, Paths, Walking

(* A walk that was complete and found no session: nobody is on.            *)
LEMMA WalkedNobody ==
  ASSUME AgentInv, Done, ~crossed, LogindSessions = {}, NEW u \in guest.on
  PROVE  Overlooked(u)
<1> DEFINE found == UNION {LogindSession(info.files[p]) :
                             p \in {q \in DOMAIN info.files : q[1] = "session"}}
<1>1. LogindSessions # None
  BY GuestAssumption DEF GuestAssumption
<1>2. Resolve(found, info.complete /\ info.partial = info.before) = {}
  BY <1>1 DEF LogindSessions
<1> HIDE DEF found
<1>3. found = {} /\ info.complete /\ info.partial = info.before
  BY <1>2, EmptyFound
<1>4. /\ guest \in Guests /\ FilesKnown(info) /\ Walked(info, Left)
      /\ Paths(Left) = {} /\ NoWalk(info.partial)
  BY <1>3, AtTheEnd DEF Known, Followed
<1>5. CASE u \in LocalOn
  <2>1. ASSUME NEW s \in Sids(u) PROVE ~Good(u, s)
    <3> SUFFICES ASSUME Good(u, s) PROVE FALSE
      OBVIOUS
    <3>1. Session(s) \in DOMAIN info.files
      BY <1>4, <1>5 DEF Walked
    <3>2. Session(s) \notin info.partial /\ Session(s)[1] = "session"
      BY <1>4 DEF NoWalk, Session
    <3>3. info.files[Session(s)] = guest.files[Session(s)]
      BY <1>4, <3>1, <3>2, WholeFile
    <3>4. u \in LogindSession(info.files[Session(s)])
      BY <3>3 DEF LogindSession, Good, SessionOf
    <3> QED BY <1>3, <3>1, <3>2, <3>4 DEF found
  <2> QED BY <1>5, <2>1 DEF Overlooked, Good
<1>6. CASE u \notin LocalOn
  <2> SUFFICES ASSUME ~OtherSources PROVE FALSE
    BY <1>6 DEF Overlooked
  <2>1. Nsswitch \in DOMAIN info.files \ info.partial
    BY DEF OtherSources
  <2>2. Nsswitch \in DOMAIN guest.files /\ info.files[Nsswitch] = guest.files[Nsswitch]
    BY <1>4, <2>1, WholeFile
  <2>3. guest.files[Nsswitch].kind = "nsswitch"
    BY <1>4, <2>2, GuestAssumption DEF GuestAssumption, Nsswitch
  <2>4. Range(guest.files[Nsswitch].of) \subseteq Sources
    BY <1>4, <2>1, <2>2, <2>3 DEF Walked, File, Parsed
  <2>5. Range(guest.files[Nsswitch].of) \subseteq {"files"}
    BY <2>2, <2>4 DEF OtherSources, Sources
  <2>6. guest.on \subseteq Range(guest.files[Passwd].of)
    BY <1>4, <2>2, <2>5, GuestAssumption DEF GuestAssumption
  <2> QED BY <1>6, <2>6 DEF LocalOn
<1> QED BY <1>5, <1>6

(* inspect and summary report that nobody is logged in only of a guest on   *)
(* which nobody is, or all of whose logins the walk of accounts overlooks   *)
(* (inspect._ssh_sessions, summary._vm_sessions).                           *)
THEOREM NobodySaid == AgentSpec => []NobodyIsOn
<1>1. AgentInv => NobodyIsOn
  <2> SUFFICES ASSUME AgentInv, Done, VmSessions = {}, ~crossed
               PROVE  guest.on = {} \/ (UtmpSessions = None /\ \A u \in guest.on : Overlooked(u))
    BY DEF NobodyIsOn, Nobody
  <2>1. None # {}
    BY GuestAssumption DEF GuestAssumption
  <2>2. SshSessions = {}
    BY <2>1 DEF VmSessions
  <2>3. CASE UtmpSessions = {}
    <3>1. info.users # None
      BY <2>1, <2>3 DEF UtmpSessions
    <3>2. Resolve(info.users \ {None}, info.utmp = TRUE /\ None \notin info.users) = {}
      BY <2>3, <3>1 DEF UtmpSessions
    <3>3. info.users \ {None} = {} /\ info.utmp = TRUE /\ None \notin info.users
      BY <3>2, EmptyFound
    <3>4. guest \in Guests /\ guest.users = {} /\ Utmp \in DOMAIN guest.files
      BY <3>1, <3>3, AtTheEnd DEF Known, LoginsKnown
    <3>5. guest.on = {}
      BY <3>4, GuestAssumption DEF GuestAssumption
    <3> QED BY <3>5
  <2>4. CASE UtmpSessions # {}
    <3>1. LogindSessions = {} /\ UtmpSessions = None
      BY <2>2, <2>4 DEF SshSessions
    <3> QED BY <3>1, WalkedNobody
  <2> QED BY <2>3, <2>4
<1> QED BY <1>1, AgentAlways, PTL

(* "No GPU" and "accepts no key" are said only of a guest that has none, or *)
(* whose first device node does not open (inspect._gpu_devices,             *)
(* _guest_accepted_keys).                                                   *)
THEOREM NothingSaid == AgentSpec => []NothingIsThere
<1>1. AgentInv => NothingIsThere
  <2> SUFFICES ASSUME AgentInv, Done, info.ran, ~crossed
               PROVE  /\ GuestGpus = {} => guest.gpus = 0 \/ ~Opens(Node(1))
                      /\ AcceptedKeys = {} => guest.files[Keys].of = <<>>
    BY DEF NothingIsThere
  <2>1. guest \in Guests /\ FilesKnown(info) /\ NodesKnown(info, Left)
    BY AtTheEnd DEF Known
  <2>2. ASSUME GuestGpus = {} PROVE guest.gpus = 0 \/ ~Opens(Node(1))
    <3> DEFINE found == {p \in DOMAIN info.files : p[1] = "node" /\ info.files[p].kind = "node"}
    <3>1. Resolve(found, info.gpu_complete) = {}
      BY <2>2 DEF GuestGpus
    <3> HIDE DEF found
    <3>2. found = {} /\ info.gpu_complete
      BY <3>1, EmptyFound
    <3>3. ~SomeNode(info)
      <4> SUFFICES ASSUME NEW p \in DOMAIN info.files, p[1] = "node" PROVE FALSE
        BY DEF SomeNode
      <4>1. p \in DOMAIN guest.files /\ info.files[p] = Text(p)
        BY <2>1 DEF FilesKnown
      <4>2. info.files[p].kind = "node"
        BY <2>1, <4>1, TextIs, GuestAssumption DEF GuestAssumption
      <4> QED BY <3>2, <4>2 DEF found
    <3> QED BY <2>1, <3>2, <3>3 DEF NodesKnown
  <2>3. ASSUME AcceptedKeys = {} PROVE guest.files[Keys].of = <<>>
    <3>1. None # {}
      BY GuestAssumption DEF GuestAssumption
    <3>2. /\ Keys \in DOMAIN info.files
          /\ Resolve(Range(Parsed(info.files[Keys], "keys")), Keys \notin info.partial) = {}
      BY <2>3, <3>1 DEF AcceptedKeys
    <3>3. Range(Parsed(info.files[Keys], "keys")) = {} /\ Keys \notin info.partial
      BY <3>2, EmptyFound
    <3>4. Keys \in DOMAIN guest.files /\ info.files[Keys] = guest.files[Keys]
      BY <2>1, <3>2, <3>3, WholeFile
    <3>5. /\ guest.files[Keys].kind = "keys"
          /\ guest.files[Keys].of \in Seq(Range(guest.files[Keys].of))
      BY <2>1, <3>4, GuestAssumption DEF GuestAssumption
    <3>6. Range(guest.files[Keys].of) = {}
      BY <3>3, <3>4, <3>5 DEF Parsed
    <3> DEFINE listed == guest.files[Keys].of
    <3> HIDE DEF listed
    <3>7. listed \in Seq(Range(listed)) /\ Range(listed) = {}
      BY <3>5, <3>6 DEF listed
    <3>8. Len(listed) = 0
      <4>1. Len(listed) \in Nat /\ \A i \in 1..Len(listed) : listed[i] \in Range(listed)
        BY <3>7, Positions
      <4>2. Len(listed) # 0 => 1 \in 1..Len(listed)
        BY <4>1
      <4> QED BY <3>7, <4>1, <4>2
    <3>9. listed = <<>>
      BY <3>7, <3>8, Positions
    <3> QED BY <3>9 DEF listed
  <2> QED BY <2>2, <2>3
<1> QED BY <1>1, AgentAlways, PTL

(* Whoever is named is logged in, whichever request an answer was to       *)
(* (inspect.vm_sessions, _logind_session).                                 *)
THEOREM NamedSaid == AgentSpec => []NamedAreOn
<1>1. AgentInv => NamedAreOn
  <2> SUFFICES ASSUME AgentInv, Done, VmSessions # None
               PROVE  VmSessions \subseteq guest.on
    BY DEF NamedAreOn
  <2>1. guest \in Guests /\ OnlyTexts(info)
    BY AtTheEnd
  <2>2. CASE UtmpSessions # None
    <3>1. info.users # None /\ UtmpSessions = info.users \ {None}
      BY <2>2 DEF UtmpSessions, Resolve
    <3>2. guest.users \subseteq guest.on
      BY <2>1, GuestAssumption DEF GuestAssumption
    <3>3. info.users \in {{}, {None}, guest.users}
      BY <2>1, <3>1 DEF OnlyTexts, Lists
    <3> QED BY <2>2, <3>1, <3>2, <3>3 DEF VmSessions, SshSessions
  <2>3. CASE UtmpSessions = None
    <3> DEFINE found == UNION {LogindSession(info.files[p]) :
                                 p \in {q \in DOMAIN info.files : q[1] = "session"}}
    <3>1. VmSessions = LogindSessions
      BY <2>3 DEF VmSessions, SshSessions
    <3>2. LogindSessions = found
      BY <3>1 DEF LogindSessions, Resolve
    <3>3. ASSUME NEW p \in DOMAIN info.files PROVE LogindSession(info.files[p]) \subseteq guest.on
      <4>1. PICK q \in DOMAIN guest.files : info.files[p] = Text(q)
        BY <2>1 DEF OnlyTexts, Texts
      <4>2. /\ Text(q).kind = guest.files[q].kind
            /\ Range(Text(q).of) \subseteq Range(guest.files[q].of)
        BY <2>1, TextIs
      <4>3. guest.files[q].kind = "session" => Range(guest.files[q].of) \subseteq guest.on
        BY <2>1, GuestAssumption DEF GuestAssumption
      <4> QED BY <4>1, <4>2, <4>3 DEF LogindSession
    <3>4. found \subseteq guest.on
      BY <3>3
    <3> QED BY <3>1, <3>2, <3>4
  <2> QED BY <2>2, <2>3
<1> QED BY <1>1, AgentAlways, PTL
=============================================================================
