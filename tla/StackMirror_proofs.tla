------------------------ MODULE StackMirror_proofs ------------------------
(***************************************************************************)
(* The mirror of the repository's assets, for any repository, any output   *)
(* directory, any fleet's data paths and any interference: data is kept,   *)
(* the mirror touches nothing behind a link, success means mirrored,       *)
(* --check is exact, and what cannot be pruned costs no asset its files.   *)
(***************************************************************************)
EXTENDS StackMirror, SequenceTheorems, TLAPS

-----------------------------------------------------------------------------
(* Paths and their prefixes.                                               *)

LEMMA Lengths == \A p \in Paths : p \in Seq(STRING) /\ Len(p) \in Nat /\ Len(p) > 0
<1> SUFFICES ASSUME NEW p \in Paths
             PROVE  p \in Seq(STRING) /\ Len(p) \in Nat /\ Len(p) > 0
  OBVIOUS
<1>1. p \in Seq(STRING) /\ Len(p) > 0
  BY StackAssumption DEF PathsAssumption
<1> QED
  BY <1>1, LenProperties

LEMMA Prefix ==
  \A p, q \in Paths :
     IsPrefixOf(p, q) <=> Len(p) <= Len(q) /\ \A i \in 1 .. Len(p) : p[i] = q[i]
<1> SUFFICES ASSUME NEW p \in Paths, NEW q \in Paths
             PROVE  IsPrefixOf(p, q) <=> Len(p) <= Len(q) /\ \A i \in 1 .. Len(p) : p[i] = q[i]
  OBVIOUS
<1>1. p \in Seq(STRING) /\ q \in Seq(STRING) /\ Len(p) \in Nat /\ Len(q) \in Nat
  BY Lengths
<1>2. CASE Len(p) <= Len(q)
  <2> DEFINE b == SubSeq(q, 1, Len(p))
  <2>1. b \in Seq(STRING) /\ Len(b) = Len(p) /\ \A i \in 1 .. Len(p) : b[i] = q[i]
    BY <1>1, <1>2, SubSeqProperties
  <2>2. b = p <=> \A i \in 1 .. Len(p) : p[i] = b[i]
    <3> HIDE DEF b
    <3> QED
      BY <1>1, <2>1, SeqEqual
  <2> QED
    BY <1>2, <2>1, <2>2 DEF IsPrefixOf
<1>3. CASE ~(Len(p) <= Len(q))
  BY <1>3 DEF IsPrefixOf
<1> QED
  BY <1>2, <1>3

LEMMA PrefixOrder ==
  /\ \A p \in Paths : IsPrefixOf(p, p)
  /\ \A p, q, r \in Paths : IsPrefixOf(p, q) /\ IsPrefixOf(q, r) => IsPrefixOf(p, r)
  /\ \A p, q, r \in Paths : IsPrefixOf(p, r) /\ IsPrefixOf(q, r)
        => IsPrefixOf(p, q) \/ IsPrefixOf(q, p)
  /\ \A p, a \in Paths : Len(a) = 1 /\ IsPrefixOf(p, a) => p = a
<1>1. \A p \in Paths : IsPrefixOf(p, p)
  <2> SUFFICES ASSUME NEW p \in Paths
               PROVE  IsPrefixOf(p, p)
    OBVIOUS
  <2>1. Len(p) <= Len(p)
    BY Lengths
  <2> QED
    BY <2>1, Prefix
<1>2. \A p, q, r \in Paths : IsPrefixOf(p, q) /\ IsPrefixOf(q, r) => IsPrefixOf(p, r)
  <2> SUFFICES ASSUME NEW p \in Paths, NEW q \in Paths, NEW r \in Paths,
                      IsPrefixOf(p, q), IsPrefixOf(q, r)
               PROVE  IsPrefixOf(p, r)
    OBVIOUS
  <2>1. Len(p) <= Len(q) /\ Len(q) <= Len(r)
    BY Prefix
  <2>2. \A i \in 1 .. Len(p) : i \in 1 .. Len(q)
    BY <2>1, Lengths
  <2>3. \A i \in 1 .. Len(p) : p[i] = r[i]
    BY <2>2, Prefix
  <2> QED
    BY <2>1, <2>3, Lengths, Prefix
<1>3. \A p, q, r \in Paths : IsPrefixOf(p, r) /\ IsPrefixOf(q, r)
        => IsPrefixOf(p, q) \/ IsPrefixOf(q, p)
  <2> SUFFICES ASSUME NEW p \in Paths, NEW q \in Paths, NEW r \in Paths,
                      IsPrefixOf(p, r), IsPrefixOf(q, r)
               PROVE  IsPrefixOf(p, q) \/ IsPrefixOf(q, p)
    OBVIOUS
  <2>1. (\A i \in 1 .. Len(p) : p[i] = r[i]) /\ (\A i \in 1 .. Len(q) : q[i] = r[i])
    BY Prefix
  <2>2. CASE Len(p) <= Len(q)
    BY <2>1, <2>2, Prefix, Lengths
  <2>3. CASE Len(q) <= Len(p)
    BY <2>1, <2>3, Prefix, Lengths
  <2> QED
    BY <2>2, <2>3, Lengths
<1>4. \A p, a \in Paths : Len(a) = 1 /\ IsPrefixOf(p, a) => p = a
  <2> SUFFICES ASSUME NEW p \in Paths, NEW a \in Paths, Len(a) = 1, IsPrefixOf(p, a)
               PROVE  p = a
    OBVIOUS
  <2>1. Len(p) = 1 /\ \A i \in 1 .. Len(p) : p[i] = a[i]
    BY Prefix, Lengths
  <2> QED
    BY <2>1, Lengths, SeqEqual
<1> QED
  BY <1>1, <1>2, <1>3, <1>4

-----------------------------------------------------------------------------
Tops == {a \in Paths : Len(a) = 1 /\ Is(a, Source)}

LEMMA OwnedTops == \A s \in Settings : Owned(s) \subseteq Tops
BY StackAssumption DEF SourceAssumption, DataAssumption, Owned, Referred, Tops, Is

Diffs == [missing : SUBSET Paths, modified : SUBSET Paths, retyped : SUBSET Paths,
          extra : SUBSET Paths, unowned : SUBSET Paths]

TypeOK ==
  /\ tree \in [Paths -> Kinds] /\ outside \in [Paths -> Kinds]
  /\ settings \in Settings /\ fleet \in Settings
  /\ aliased \subseteq Paths /\ place \in [Files -> PlaceKinds]
  /\ rendered \in [Files -> (SUBSET Paths) \union {Torn}]
  /\ pc \in {"idle", "write", "assets", "retype", "prune"}
  /\ diff \in Diffs
  /\ exit \in {"none", "ok", "problems", "died"}
  /\ problems \in BOOLEAN /\ failed \in BOOLEAN /\ quiet \in BOOLEAN /\ edits \in Nat

(* What the difference a run works on can be.                               *)
Sound ==
  /\ WellFormed(tree)
  /\ pc \in {"idle", "write"} => diff = NoDiff
  /\ pc \in {"assets", "retype", "prune"} => todo \subseteq Tops
  /\ pc \in {"retype", "prune"} =>
       /\ asset \in Tops /\ asset \notin todo /\ diff.extra \subseteq Under(asset)
  /\ pc = "retype" => diff.retyped \subseteq Under(asset)
  /\ \A p \in diff.extra : ~Is(p, Source) /\ ~Kept(p, fleet)
  /\ \A p \in diff.retyped : Is(p, Source)

LEMMA NoDiffType == /\ NoDiff \in Diffs /\ NoDiff.extra = {} /\ NoDiff.retyped = {}
                    /\ NoDiff.unowned = {}
BY DEF NoDiff, Diffs

(* Links is empty where the asset is compared path by path.                 *)
LEMMA DiffLemma ==
  ASSUME NEW a \in Tops, NEW t \in [Paths -> Kinds], NEW s \in Settings,
         outside \in [Paths -> Kinds]
  PROVE  /\ AssetDiff(a, t, s) \in Diffs
         /\ AssetDiff(a, t, s).extra \subseteq
              {p \in Under(a) : ~Is(p, Source) /\ ~Kept(p, s)}
         /\ AssetDiff(a, t, s).retyped \subseteq {p \in Under(a) : Is(p, Source) /\ Retyped(p, t)}
         /\ AssetDiff(a, t, s).unowned = {} =>
              /\ a \notin Links(a, t)
              /\ \/ AssetDiff(a, t, s).retyped = {a}
                 \/ /\ Links(a, t) = {} /\ ~(a \in Present(a, t) /\ Retyped(a, t))
                    /\ Extra(a, t, s) = AssetDiff(a, t, s).extra
<1> DEFINE both == {p \in Present(a, t) : Is(p, Source)}
           retyped == {p \in both : Retyped(p, t)}
           edited == {p \in both : Source[p] = "repo" /\ Looks(p, t) = "user"}
           d == AssetDiff(a, t, s)
<1>1. /\ Present(a, t) \subseteq Under(a) /\ Under(a) \subseteq Paths
      /\ Links(a, t) \subseteq Under(a) /\ a \in Paths /\ Is(a, Source)
      /\ Missing(a, t) \subseteq Paths
      /\ Extra(a, t, s) \subseteq {p \in Under(a) : ~Is(p, Source) /\ ~Kept(p, s)}
  BY DEF Present, Under, Links, Missing, Extra, Tops
<1>2. a \in Under(a)
  BY <1>1, PrefixOrder DEF Under
<1>3. CASE a \in Links(a, t)
  <2>1. d = [NoDiff EXCEPT !.unowned = {a}]
    BY <1>3 DEF AssetDiff
  <2> QED
    BY <2>1, <1>1 DEF NoDiff, Diffs
<1>4. CASE a \notin Links(a, t) /\ a \in retyped
  <2>1. d = [NoDiff EXCEPT !.modified = {a}, !.retyped = {a}]
    BY <1>4 DEF AssetDiff
  <2> QED
    BY <2>1, <1>1, <1>2, <1>4 DEF NoDiff, Diffs
<1>5. CASE Links(a, t) # {} /\ a \notin Links(a, t) /\ a \notin retyped
  <2>1. d = [NoDiff EXCEPT !.unowned = Links(a, t)]
    BY <1>5 DEF AssetDiff
  <2> QED
    BY <2>1, <1>1, <1>5 DEF NoDiff, Diffs
<1>6. CASE Links(a, t) = {} /\ a \notin retyped
  <2>1. d = [missing |-> Missing(a, t), modified |-> retyped \union edited,
             retyped |-> retyped, extra |-> Extra(a, t, s), unowned |-> {}]
    BY <1>6 DEF AssetDiff
  <2>2. retyped \subseteq Paths /\ edited \subseteq Paths
    BY <1>1
  <2>3. d \in Diffs
    BY <2>1, <2>2, <1>1 DEF Diffs
  <2> QED
    BY <2>1, <2>3, <1>1, <1>6
<1> QED
  BY <1>3, <1>4, <1>5, <1>6

(* What a removal leaves.                                                   *)
LEMMA EntriesClosed ==
  ASSUME TypeOK, WellFormed(tree), NEW p \in Paths, ~Beyond(p), NEW q \in Entries(p)
  PROVE  ~Beyond(q) /\ Entries(q) \subseteq Entries(p)
<1>1. q \in Paths /\ IsPrefixOf(p, q) /\ Is(q, tree)
  BY DEF Entries, Under
<1>2. ~Beyond(q)
  BY <1>1 DEF Beyond, WellFormed
<1>3. Under(q) \subseteq Under(p)
  BY <1>1, PrefixOrder DEF Under
<1> QED
  BY <1>2, <1>3 DEF Entries

LEMMA Removing ==
  ASSUME TypeOK, WellFormed(tree), NEW p \in Paths, NEW g \in SUBSET Entries(p),
         ~Beyond(p) => \A q \in g : Entries(q) \subseteq g,
         Gone(p, g)
  PROVE  /\ tree' \in [Paths -> Kinds] /\ outside' \in [Paths -> Kinds]
         /\ WellFormed(tree')
         /\ \A x \in Paths : tree'[x] # tree[x] => x \in g /\ IsPrefixOf(p, x) /\ tree'[x] = "none"
         /\ ~Beyond(p) => outside' = outside /\ tree' = Without(tree, g)
<1>1. CASE Beyond(p)
  <2>1. tree' = tree /\ outside' = Without(outside, g)
    BY <1>1 DEF Gone
  <2> QED
    BY <1>1, <2>1 DEF TypeOK, Without, WellFormed, Kinds
<1>2. CASE ~Beyond(p)
  <2>1. tree' = Without(tree, g) /\ outside' = outside
    BY <1>2 DEF Gone
  <2>2. \A x \in g : x \in Paths /\ IsPrefixOf(p, x) /\ Is(x, tree)
    BY <1>2 DEF Entries, Under
  <2>3. tree' \in [Paths -> Kinds] /\ \A x \in Paths : tree'[x] = IF x \in g THEN "none" ELSE tree[x]
    BY <2>1 DEF TypeOK, Without, Kinds
  <2>4. ASSUME NEW x \in Paths, Is(x, tree'), NEW y \in Above(x)
        PROVE  tree'[y] = "dir"
    <3>1. x \notin g /\ Is(x, tree) /\ y \in Paths /\ IsPrefixOf(y, x)
      BY <2>3, <2>4 DEF Is, Above
    <3>2. tree[y] = "dir"
      BY <3>1, <2>4 DEF WellFormed
    <3>3. ASSUME y \in g
          PROVE  FALSE
      <4>1. ~Beyond(y)
        BY <3>3, <1>2, EntriesClosed
      <4>2. x \in Entries(y)
        BY <4>1, <3>1 DEF Entries, Under
      <4> QED
        BY <4>2, <3>3, <3>1, <1>2
    <3> QED
      BY <3>1, <3>2, <3>3, <2>3
  <2> QED
    BY <2>1, <2>2, <2>3, <2>4, <1>2 DEF WellFormed, TypeOK
<1> QED
  BY <1>1, <1>2

LEMMA PartOfLemma ==
  ASSUME TypeOK, WellFormed(tree), NEW p \in Paths,
         \/ Gone(p, Entries(p))
         \/ \E g \in PartOf(p) : Gone(p, g)
  PROVE  \E g \in SUBSET Entries(p) :
           /\ ~Beyond(p) => \A q \in g : Entries(q) \subseteq g
           /\ Gone(p, g)
<1>1. CASE Gone(p, Entries(p))
  BY <1>1, EntriesClosed
<1>2. CASE \E g \in PartOf(p) : Gone(p, g)
  BY <1>2 DEF PartOf
<1> QED
  BY <1>1, <1>2

(* The file copy2 puts inside a directory is right below it.                *)
LEMMA InnerBelow ==
  ASSUME NEW p \in Paths, Inner(p) \in Paths
  PROVE  /\ IsPrefixOf(p, Inner(p)) /\ Inner(p) # p
         /\ \A q \in Paths : IsPrefixOf(q, Inner(p)) /\ q # Inner(p) => IsPrefixOf(q, p)
<1>1. p \in Seq(STRING) /\ Len(p) \in Nat /\ Len(p) > 0
  BY Lengths
<1>2. p[Len(p)] \in STRING
  BY <1>1, ElementOfSeq
<1>3. /\ Len(Inner(p)) = Len(p) + 1
      /\ \A i \in 1 .. Len(p) : Inner(p)[i] = p[i]
  BY <1>1, <1>2, AppendProperties DEF Inner
<1>4. IsPrefixOf(p, Inner(p)) /\ Inner(p) # p
  BY <1>1, <1>3, Prefix
<1>5. ASSUME NEW q \in Paths, IsPrefixOf(q, Inner(p)), q # Inner(p)
      PROVE  IsPrefixOf(q, p)
  <2>1. Len(q) \in Nat /\ Len(q) <= Len(p) + 1 /\ \A i \in 1 .. Len(q) : q[i] = Inner(p)[i]
    BY <1>3, <1>5, Prefix, Lengths
  <2>2. Len(q) # Len(p) + 1
    <3> SUFFICES ASSUME Len(q) = Len(p) + 1
                 PROVE  FALSE
      OBVIOUS
    <3>1. IsPrefixOf(Inner(p), q)
      BY <2>1, <1>3, Prefix
    <3> QED
      BY <3>1, <2>1, <1>3, <1>5, Lengths, SeqEqual
  <2>3. Len(q) <= Len(p) /\ \A i \in 1 .. Len(q) : i \in 1 .. Len(p)
    BY <2>1, <2>2, <1>1
  <2> QED
    BY <2>1, <2>3, <1>3, Prefix
<1> QED
  BY <1>4, <1>5

(* What a copy leaves: a directory tree again, changed only where the asset *)
(* is the repository's or inside what is a file there; with no link in the  *)
(* way and no directory for a file, nothing but the repository's entries,   *)
(* and all of them if nothing failed.                                       *)
Plain(a) == \A p \in Wanted(a) : Source[p] = "repo" => Looks(p, tree) # "dir"
LEMMA Copying ==
  ASSUME TypeOK, WellFormed(tree), asset \in Tops, NEW bad, NEW torn, Copy(bad, torn)
  PROVE  /\ tree' \in [Paths -> Kinds] /\ outside' \in [Paths -> Kinds]
         /\ WellFormed(tree')
         /\ \A p \in Paths : \/ tree'[p] = tree[p]
                             \/ p \in Wanted(asset)
                             \/ /\ p \in Under(asset) /\ ~Is(p, Source) /\ tree'[p] = "user"
                                /\ \E q \in Wanted(asset) :
                                     /\ Source[q] = "repo" /\ p = Inner(q) /\ ~Plain(asset)
         /\ \A p \in Wanted(asset) : tree'[p] \in {tree[p], Source[p], "user"}
         /\ bad \union Blocked(bad) = {} /\ Plain(asset) /\ Links(asset, tree) = {} =>
              \A p \in Wanted(asset) : tree'[p] = Source[p]
         /\ Links(asset, tree) = {} => outside' = outside
<1> DEFINE whole == Wanted(asset) \ (bad \union Blocked(bad))
           placed == {p \in whole : Landing(p) = p}
           stray == {Landing(p) : p \in (whole \ placed) \union torn}
<1>1. tree' = Copied(placed, stray, tree, FALSE) /\ outside' = Copied(placed, stray, outside, TRUE)
  BY DEF Copy
<1>2. /\ Source \in [Paths -> {"none", "dir", "repo"}]
      /\ \A p \in Paths : Source[p] # "none" => \A q \in Above(p) : Source[q] = "dir"
      /\ \A p \in Paths : Source[p] = "repo" => Inner(p) \in Paths
  BY StackAssumption DEF SourceAssumption, InnerAssumption
<1>3. /\ asset \in Paths /\ Len(asset) = 1
      /\ \A p \in Wanted(asset) : p \in Paths /\ p \in Under(asset) /\ IsPrefixOf(asset, p)
                                 /\ Is(p, Source)
  BY DEF Tops, Wanted, Under
<1>4. /\ bad \subseteq Wanted(asset) /\ torn \subseteq Wanted(asset) \ Blocked(bad)
      /\ torn \subseteq bad /\ \A p \in torn : Source[p] = "repo"
  BY DEF Copy
<1>5. placed \subseteq Wanted(asset)
  OBVIOUS
<1>6. ASSUME NEW x \in stray
      PROVE  /\ x \in Paths /\ x \in Under(asset)
             /\ Looks(x, tree) # "dir"
             /\ \/ x \in torn
                \/ \E p \in Wanted(asset) : /\ Source[p] = "repo" /\ x = Inner(p) /\ Looks(p, tree) = "dir"
                                            /\ ~Is(x, Source) /\ IsPrefixOf(p, x) /\ x # p
  <2>1. PICK p \in (whole \ placed) \union torn : x = Landing(p)
    OBVIOUS
  <2>2. p \in Wanted(asset) /\ p \notin Blocked(bad)
    BY <1>4
  <2>3. CASE x = p
    <3>1. p \in torn
      BY <2>1, <2>3
    <3>2. Source[p] = "repo" /\ Looks(Landing(p), tree) # "dir"
      BY <3>1, <2>2, <1>4 DEF Blocked
    <3> QED
      BY <3>1, <3>2, <2>1, <2>2, <2>3, <1>3
  <2>4. CASE x # p
    <3>1. Source[p] = "repo" /\ Looks(p, tree) = "dir" /\ x = Inner(p)
      BY <2>1, <2>4 DEF Landing
    <3>2. x \in Paths
      BY <3>1, <2>2, <1>2, <1>3
    <3>3. IsPrefixOf(p, x)
      BY <3>1, <3>2, <2>2, <1>3, InnerBelow
    <3>4. IsPrefixOf(asset, x) /\ ~Is(x, Source)
      <4>1. IsPrefixOf(asset, x)
        BY <3>2, <3>3, <2>2, <1>3, PrefixOrder
      <4>2. p \in Above(x)
        BY <3>3, <2>2, <2>4, <1>3 DEF Above
      <4> QED
        BY <4>1, <4>2, <3>1, <3>2, <1>2 DEF Is
    <3>5. Looks(x, tree) # "dir"
      BY <2>1, <2>2, <3>1 DEF Blocked
    <3> QED
      BY <3>1, <3>2, <3>3, <3>4, <3>5, <2>2, <2>4 DEF Under
  <2> QED
    BY <2>3, <2>4
<1>7. \A x \in Paths : tree'[x] = CASE Through(x, tree) -> tree[x]
                                   [] ~Through(x, tree) /\ x \in placed -> Source[x]
                                   [] ~Through(x, tree) /\ x \in stray \ placed -> "user"
                                   [] OTHER -> tree[x]
  BY <1>1 DEF Copied, Through
<1>8. \A x \in Paths : outside'[x] = CASE ~Through(x, tree) -> outside[x]
                                      [] Through(x, tree) /\ x \in placed -> Source[x]
                                      [] Through(x, tree) /\ x \in stray \ placed -> "user"
                                      [] OTHER -> outside[x]
  BY <1>1 DEF Copied, Through
<1>9. tree' \in [Paths -> Kinds] /\ outside' \in [Paths -> Kinds]
  <2> HIDE DEF placed, stray
  <2>1. \A t \in [Paths -> Kinds], b \in BOOLEAN : Copied(placed, stray, t, b) \in [Paths -> Kinds]
    BY <1>2 DEF Copied, Kinds
  <2> QED
    BY <1>1, <2>1 DEF TypeOK
<1>10. ASSUME Links(asset, tree) = {}, NEW p \in Under(asset)
       PROVE  ~Through(p, tree)
  <2> SUFFICES ASSUME NEW q \in Paths, IsPrefixOf(q, p), tree[q] = "link"
               PROVE  FALSE
    BY DEF Through
  <2>1. IsPrefixOf(asset, p) /\ p \in Paths
    BY <1>10 DEF Under
  <2>2. IsPrefixOf(asset, q)
    BY <2>1, <1>3, PrefixOrder
  <2> QED
    BY <2>2, <1>10 DEF Links, Under
<1> HIDE DEF placed, stray
<1>11. ASSUME NEW p \in Paths, p \notin Wanted(asset), tree'[p] # tree[p]
       PROVE  /\ p \in Under(asset) /\ ~Is(p, Source) /\ tree'[p] = "user"
              /\ \E q \in Wanted(asset) : Source[q] = "repo" /\ p = Inner(q) /\ ~Plain(asset)
  <2>1. p \in stray /\ tree'[p] = "user"
    BY <1>5, <1>7, <1>11
  <2> QED
    BY <2>1, <1>4, <1>6, <1>11 DEF Plain
<1>12. \A p \in Wanted(asset) : tree'[p] \in {tree[p], Source[p], "user"}
  BY <1>3, <1>7
<1>13. WellFormed(tree')
  <2> SUFFICES ASSUME NEW x \in Paths, Is(x, tree'), NEW y \in Above(x)
               PROVE  tree'[y] = "dir"
    BY DEF WellFormed
  <2>1. y \in Paths /\ IsPrefixOf(y, x) /\ y # x
    BY DEF Above
  <2>a. ASSUME tree[y] = "dir"
        PROVE  tree'[y] = "dir"
    <3>1. CASE ~Through(y, tree) /\ y \in placed
      <4>1. Source[y] # "repo"
        BY <3>1, <2>a, <2>1, <1>2 DEF placed, Landing, Looks, Inner
      <4> QED
        BY <3>1, <4>1, <2>1, <1>2, <1>3, <1>5, <1>7 DEF Is
    <3>2. CASE ~Through(y, tree) /\ y \in stray \ placed
      BY <3>2, <2>a, <1>6 DEF Looks
    <3> QED
      BY <3>1, <3>2, <2>a, <2>1, <1>7
  <2>2. CASE tree'[x] = tree[x]
    BY <2>2, <2>a, <2>1 DEF WellFormed, Is
  <2>3. CASE tree'[x] # tree[x]
    <3>1. ~Through(x, tree) /\ x \in placed \union stray
      BY <2>3, <1>7
    <3>2. ~Through(y, tree)
      BY <2>1, <3>1, PrefixOrder DEF Through
    <3>3. CASE x \in placed \union torn
      <4>1. x \in Wanted(asset) /\ x \notin Blocked(bad)
        BY <3>3, <1>4 DEF placed
      <4>2. Source[y] = "dir"
        BY <4>1, <1>2, <1>3 DEF Is
      <4>3. IsPrefixOf(asset, y)
        BY <2>1, <4>1, <1>3, PrefixOrder
      <4>4. y \in Wanted(asset) /\ Landing(y) = y
        BY <4>2, <4>3, <2>1 DEF Wanted, Under, Is, Landing
      <4>5. y \notin Unmade(bad)
        BY <4>1, <2>1 DEF Blocked
      <4>6. CASE Looks(y, tree) = "dir"
        BY <4>6, <3>2, <2>a DEF Looks
      <4>7. CASE Looks(y, tree) # "dir"
        <5>1. y \notin bad
          BY <4>2, <4>4, <4>5, <4>7 DEF Unmade
        <5>2. y \notin Blocked(bad)
          <6> SUFFICES ASSUME y \in Blocked(bad)
                       PROVE  x \in Blocked(bad)
            BY <4>1
          <6>1. PICK q \in Unmade(bad) : IsPrefixOf(q, y)
            BY <4>2 DEF Blocked
          <6>2. q \in Paths
            BY <1>3 DEF Unmade
          <6>3. IsPrefixOf(q, x)
            BY <6>1, <6>2, <2>1, PrefixOrder
          <6> QED
            BY <6>1, <6>3, <4>1 DEF Blocked
        <5>3. y \in placed
          BY <4>4, <5>1, <5>2 DEF placed
        <5> QED
          BY <5>3, <4>2, <3>2, <2>1, <1>7
      <4> QED
        BY <4>6, <4>7
    <3>4. CASE x \in stray /\ x \notin torn
      <4>1. PICK p \in Wanted(asset) : /\ Source[p] = "repo" /\ x = Inner(p)
                                        /\ Looks(p, tree) = "dir" /\ IsPrefixOf(p, x) /\ x # p
        BY <3>4, <1>6
      <4>2. ~Through(p, tree)
        BY <4>1, <3>1, <1>3, PrefixOrder DEF Through
      <4>3. tree[p] = "dir"
        BY <4>1, <4>2 DEF Looks
      <4>4. y = p \/ y \in Above(p)
        BY <4>1, <2>1, <1>3, InnerBelow DEF Above
      <4>5. tree[y] = "dir"
        BY <4>3, <4>4, <1>3 DEF WellFormed, Is
      <4> QED
        BY <4>5, <2>a
    <3> QED
      BY <3>1, <3>3, <3>4
  <2> QED
    BY <2>2, <2>3
<1>14. ASSUME Links(asset, tree) = {}
       PROVE  outside' = outside
  <2>1. \A p \in Paths : p \in placed \union stray => ~Through(p, tree)
    BY <1>3, <1>5, <1>6, <1>10, <1>14
  <2>2. \A p \in Paths : outside'[p] = outside[p]
    BY <2>1, <1>8
  <2> QED
    BY <2>2, <1>9 DEF TypeOK
<1>15. ASSUME bad \union Blocked(bad) = {}, Plain(asset), Links(asset, tree) = {}, NEW p \in Wanted(asset)
       PROVE  tree'[p] = Source[p]
  <2>1. p \in placed
    BY <1>15 DEF placed, Plain, Landing
  <2> QED
    BY <2>1, <1>3, <1>7, <1>10, <1>15
<1> QED
  BY <1>9, <1>11, <1>12, <1>13, <1>14, <1>15

LEMMA DiedSound ==
  ASSUME TypeOK, Sound, Died, WellFormed(tree'), tree' \in [Paths -> Kinds],
         outside' \in [Paths -> Kinds], rendered' \in [Files -> (SUBSET Paths) \union {Torn}],
         edits' \in Nat, quiet' \in BOOLEAN, failed' \in BOOLEAN,
         UNCHANGED <<aliased, place, settings, fleet, problems>>
  PROVE  TypeOK' /\ Sound'
BY NoDiffType DEF Died, TypeOK, Sound

(* An edit, and a link to the repository's own, leave a tree.               *)
LEMMA EditSound ==
  ASSUME WellFormed(tree), NEW p \in Paths, NEW k, Edit(p, k), tree \in [Paths -> Kinds]
  PROVE  WellFormed(tree')
<1> SUFFICES ASSUME NEW x \in Paths, Is(x, tree'), NEW y \in Above(x)
             PROVE  tree'[y] = "dir"
  BY DEF WellFormed
<1>1. y \in Paths /\ IsPrefixOf(y, x) /\ y # x
  BY DEF Above
<1>2. \A q \in Paths : tree'[q] = IF q = p THEN k ELSE tree[q]
  BY DEF Edit
<1>3. CASE x = p
  BY <1>1, <1>2, <1>3 DEF Edit, Is
<1>4. CASE x # p
  <2>1. tree[y] = "dir" /\ Is(x, tree)
    BY <1>2, <1>4 DEF WellFormed, Is
  <2>2. y = p => k = "dir"
    BY <1>1, <1>4, <2>1 DEF Edit, Under
  <2> QED
    BY <1>1, <1>2, <2>1, <2>2
<1> QED
  BY <1>3, <1>4

LEMMA AliasSound ==
  ASSUME WellFormed(tree), NEW a \in Paths, Alias(a), tree \in [Paths -> Kinds]
  PROVE  tree' \in [Paths -> Kinds] /\ WellFormed(tree')
<1>1. /\ tree' = [q \in Paths |-> IF q = a THEN "link" ELSE IF q \in Under(a) THEN "none" ELSE tree[q]]
      /\ Len(a) = 1
  BY DEF Alias
<1>2. tree' \in [Paths -> Kinds]
  BY <1>1 DEF Kinds
<1>3. ASSUME NEW x \in Paths, Is(x, tree'), NEW y \in Above(x)
      PROVE  tree'[y] = "dir"
  <2>1. y \in Paths /\ IsPrefixOf(y, x) /\ y # x
    BY DEF Above
  <2>2. x # a
    BY <2>1, <1>1, PrefixOrder
  <2>3. x \notin Under(a) /\ Is(x, tree)
    BY <2>2, <1>1, <1>3 DEF Is
  <2>4. y \notin Under(a) /\ y # a
    BY <2>1, <2>3, PrefixOrder DEF Under
  <2> QED
    BY <1>1, <2>1, <2>3, <2>4 DEF WellFormed
<1> QED
  BY <1>2, <1>3 DEF WellFormed

LEMMA Successor == \A n \in Nat : n + 1 \in Nat
OBVIOUS

(* Every variable keeps its type, the output directory stays a tree, and    *)
(* what a run works on is the difference it found (Sound).                  *)
THEOREM TypeCorrect == Spec => [](TypeOK /\ Sound)
<1>1. Init => TypeOK /\ Sound
  <2> SUFFICES ASSUME Init
               PROVE  TypeOK /\ Sound
    OBVIOUS
  <2>1. tree \in [Paths -> Kinds] /\ WellFormed(tree)
    BY StackAssumption DEF TreesAssumption, Init
  <2>2. outside \in [Paths -> Kinds]
    BY StackAssumption DEF TreesAssumption, Init, Kinds
  <2>3. place \in [Files -> PlaceKinds] /\ rendered \in [Files -> (SUBSET Paths) \union {Torn}]
    BY StackAssumption DEF FilesAssumption, Init
  <2> QED
    BY <2>1, <2>2, <2>3, NoDiffType DEF Init, TypeOK, Sound
<1>2. TypeOK /\ Sound /\ [Next]_vars => TypeOK' /\ Sound'
  <2> SUFFICES ASSUME TypeOK, Sound, [Next]_vars
               PROVE  TypeOK' /\ Sound'
    OBVIOUS
  <2>s. WellFormed(tree)
    BY DEF Sound
  <2>1. CASE Start
    <3>1. UNCHANGED <<tree, outside, aliased, place, settings, edits, rendered, diff>>
          /\ diff = NoDiff
      BY <2>1 DEF Start, world, Sound
    <3> QED
      BY <2>1, <3>1, NoDiffType DEF Start, TypeOK, Sound
  <2>2. ASSUME NEW f \in Files, Write(f)
        PROVE  TypeOK' /\ Sound'
    <3>1. UNCHANGED <<tree, outside, aliased, place, settings, edits, diff, fleet, asset,
                      problems, exit, failed, quiet>>
          /\ diff = NoDiff
      BY <2>2 DEF Write, world, Sound
    <3>2. rendered' \in [Files -> (SUBSET Paths) \union {Torn}]
      BY <2>2, StackAssumption DEF Write, TypeOK, DataAssumption
    <3>3. pc' = "assets" => todo' \subseteq Tops
      BY <2>2, OwnedTops DEF Write, TypeOK
    <3>4. pc' \in {"assets", "write"}
      BY <2>2 DEF Write
    <3>5. TypeOK'
      BY <3>1, <3>2, <3>4 DEF TypeOK
    <3>6. WellFormed(tree') /\ (\A p \in diff'.extra : ~Is(p, Source) /\ ~Kept(p, fleet'))
          /\ (\A p \in diff'.retyped : Is(p, Source))
      BY <3>1, NoDiffType DEF Sound
    <3> QED
      BY <3>1, <3>3, <3>4, <3>5, <3>6 DEF Sound
  <2>3. ASSUME NEW a \in Paths, Compare(a)
        PROVE  TypeOK' /\ Sound'
    <3>1. UNCHANGED <<tree, outside, aliased, place, settings, edits, rendered, fleet, exit,
                      failed, quiet>>
      BY <2>3 DEF Compare, world
    <3>2. /\ pc = "assets" /\ a \in todo /\ asset' = a /\ todo' = todo \ {a}
          /\ diff' = AssetDiff(a, tree, fleet)
          /\ pc' = IF diff'.unowned = {} THEN "retype" ELSE "assets"
          /\ problems' \in BOOLEAN
      BY <2>3 DEF Compare, TypeOK, Refusal
    <3>3. a \in Tops
      BY <3>2 DEF Sound
    <3>4. /\ diff' \in Diffs
          /\ diff'.extra \subseteq {p \in Under(a) : ~Is(p, Source) /\ ~Kept(p, fleet)}
          /\ diff'.retyped \subseteq {p \in Under(a) : Is(p, Source)}
      BY <3>2, <3>3, DiffLemma DEF TypeOK
    <3>5. TypeOK'
      BY <3>1, <3>2, <3>4 DEF TypeOK
    <3>6. todo' \subseteq Tops /\ WellFormed(tree')
      BY <3>1, <3>2 DEF Sound
    <3> QED
      BY <3>1, <3>2, <3>3, <3>4, <3>5, <3>6 DEF Sound
  <2>4. ASSUME NEW p \in Paths, Retype(p)
        PROVE  TypeOK' /\ Sound'
    <3>1. UNCHANGED <<aliased, place, settings, edits, rendered, fleet, problems, failed, quiet>>
          /\ pc = "retype" /\ p \in diff.retyped
      BY <2>4 DEF Retype
    <3>2. /\ tree' \in [Paths -> Kinds] /\ outside' \in [Paths -> Kinds] /\ WellFormed(tree')
      <4>1. \/ Gone(p, Entries(p))
            \/ \E g \in PartOf(p) : Gone(p, g)
        BY <2>4 DEF Retype
      <4> QED
        BY <4>1, <2>s, PartOfLemma, Removing
    <3>3. CASE Died
      BY <3>1, <3>2, <3>3, DiedSound DEF TypeOK
    <3>4. CASE diff' = [diff EXCEPT !.retyped = @ \ {p}] /\ UNCHANGED <<pc, exit, todo, asset>>
      <4>1. diff' \in Diffs /\ diff'.retyped = diff.retyped \ {p} /\ diff'.extra = diff.extra
        BY <3>4 DEF TypeOK, Diffs
      <4>2. TypeOK'
        BY <3>1, <3>2, <3>4, <4>1 DEF TypeOK
      <4> QED
        BY <3>1, <3>2, <3>4, <4>1, <4>2 DEF Sound
    <3> QED
      BY <2>4, <3>3, <3>4 DEF Retype
  <2>5. ASSUME NEW bad, NEW torn, Copy(bad, torn)
        PROVE  TypeOK' /\ Sound'
    <3>1. UNCHANGED <<aliased, place, settings, rendered, fleet, problems, quiet>>
          /\ pc = "retype" /\ asset \in Tops /\ edits' \in Nat /\ failed' \in BOOLEAN
      BY <2>5, Successor DEF Copy, Sound, TypeOK
    <3>2. /\ tree' \in [Paths -> Kinds] /\ outside' \in [Paths -> Kinds] /\ WellFormed(tree')
      BY <2>5, <2>s, <3>1, Copying
    <3>3. CASE Died
      BY <3>1, <3>2, <3>3, DiedSound DEF TypeOK
    <3>4. CASE pc' = "prune" /\ UNCHANGED <<exit, diff, todo, asset>>
      <4>1. TypeOK'
        BY <3>1, <3>2, <3>4 DEF TypeOK
      <4> QED
        BY <3>1, <3>2, <3>4, <4>1 DEF Sound
    <3> QED
      BY <2>5, <3>3, <3>4 DEF Copy
  <2>6. ASSUME NEW p \in Paths, Prune(p)
        PROVE  TypeOK' /\ Sound'
    <3>1. UNCHANGED <<aliased, place, settings, edits, rendered, fleet, failed, quiet>>
          /\ pc = "prune" /\ p \in diff.extra
      BY <2>6 DEF Prune
    <3>2. /\ tree' \in [Paths -> Kinds] /\ outside' \in [Paths -> Kinds] /\ WellFormed(tree')
      <4>1. \/ Gone(p, Entries(p))
            \/ \E g \in PartOf(p) : Gone(p, g)
        BY <2>6 DEF Prune
      <4> QED
        BY <4>1, <2>s, PartOfLemma, Removing
    <3>3. diff' = [diff EXCEPT !.extra = @ \ {p}] /\ UNCHANGED <<pc, exit, todo, asset>>
          /\ problems' \in BOOLEAN
      BY <2>6 DEF Prune, PruneFails, TypeOK
    <3>4. diff' \in Diffs /\ diff'.extra = diff.extra \ {p} /\ diff'.retyped = diff.retyped
      BY <3>3 DEF TypeOK, Diffs
    <3>5. TypeOK'
      BY <3>1, <3>2, <3>3, <3>4 DEF TypeOK
    <3> QED
      BY <3>1, <3>2, <3>3, <3>4, <3>5 DEF Sound
  <2>7. CASE NextAsset
    <3>1. UNCHANGED <<tree, outside, aliased, place, settings, edits, rendered, fleet, todo,
                      asset, diff, problems, exit, failed, quiet>>
          /\ pc = "prune" /\ pc' = "assets"
      BY <2>7 DEF NextAsset, world
    <3>2. TypeOK'
      BY <3>1 DEF TypeOK
    <3> QED
      BY <3>1, <3>2 DEF Sound
  <2>8. CASE Finish
    <3>1. UNCHANGED <<tree, outside, aliased, place, settings, edits, rendered, fleet, todo,
                      problems, failed, quiet>>
          /\ pc' = "idle" /\ exit' \in {"ok", "problems"} /\ diff' = NoDiff
      BY <2>8 DEF Finish, world
    <3>2. TypeOK'
      BY <3>1, NoDiffType DEF TypeOK
    <3> QED
      BY <3>1, <3>2, NoDiffType DEF Sound
  <2>9. CASE Kill
    <3>1. edits' \in Nat /\ quiet' \in BOOLEAN
      BY <2>9, Successor DEF Kill, TypeOK
    <3>2. UNCHANGED <<tree, outside, aliased, place, settings, rendered, fleet, problems,
                      failed>> /\ Died
      BY <2>9 DEF Kill
    <3> QED
      BY <3>1, <3>2, <2>s, DiedSound DEF TypeOK
  <2>10. ASSUME NEW p \in Paths, NEW k \in Kinds \ {"repo"}, Edit(p, k)
         PROVE  TypeOK' /\ Sound'
    <3>1. tree' \in [Paths -> Kinds] /\ WellFormed(tree')
      BY <2>10, <2>s, EditSound DEF Edit, TypeOK
    <3>2. UNCHANGED <<outside, place, settings, rendered, pc, fleet, todo, asset, diff, problems,
                      exit, failed>>
          /\ edits' \in Nat /\ quiet' \in BOOLEAN /\ aliased' \subseteq Paths
      BY <2>10, Successor DEF Edit, TypeOK
    <3>3. TypeOK'
      BY <3>1, <3>2 DEF TypeOK
    <3> QED
      BY <3>1, <3>2, <3>3 DEF Sound
  <2>11. CASE Resettle
    <3>1. UNCHANGED <<tree, outside, aliased, place, rendered, pc, fleet, todo, asset, diff,
                      problems, exit, failed, quiet>>
          /\ edits' \in Nat /\ settings' \in Settings
      BY <2>11, Successor DEF Resettle, TypeOK
    <3> QED
      BY <3>1 DEF TypeOK, Sound
  <2>12. ASSUME NEW f \in Files, WriteFails(f)
         PROVE  TypeOK' /\ Sound'
    <3>1. UNCHANGED <<tree, outside, aliased, place, settings, fleet, problems, quiet>>
          /\ Died /\ failed' \in BOOLEAN /\ edits' \in Nat
      BY <2>12, Successor DEF WriteFails, Fails, world, TypeOK
    <3>2. rendered' \in [Files -> (SUBSET Paths) \union {Torn}]
      BY <2>12 DEF WriteFails, TypeOK
    <3> QED
      BY <3>1, <3>2, <2>s, DiedSound DEF TypeOK
  <2>13. ASSUME NEW a \in Paths, CompareFails(a)
         PROVE  TypeOK' /\ Sound'
    <3>1. UNCHANGED <<tree, outside, aliased, place, settings, rendered, fleet, problems, quiet>>
          /\ Died /\ failed' \in BOOLEAN /\ edits' \in Nat
      BY <2>13, Successor DEF CompareFails, Fails, world, TypeOK
    <3> QED
      BY <3>1, <2>s, DiedSound DEF TypeOK
  <2>14. ASSUME NEW f \in Files, NEW k \in PlaceKinds, EditFile(f, k)
         PROVE  TypeOK' /\ Sound'
    <3>1. UNCHANGED <<tree, outside, aliased, settings, pc, fleet, todo, asset, diff, problems,
                      exit, failed>>
          /\ edits' \in Nat /\ quiet' \in BOOLEAN /\ place' \in [Files -> PlaceKinds]
          /\ rendered' \in [Files -> (SUBSET Paths) \union {Torn}]
      BY <2>14, Successor DEF EditFile, TypeOK
    <3> QED
      BY <3>1 DEF TypeOK, Sound
  <2>15. ASSUME NEW a \in Paths, Alias(a)
         PROVE  TypeOK' /\ Sound'
    <3>1. tree' \in [Paths -> Kinds] /\ WellFormed(tree')
      BY <2>15, <2>s, AliasSound DEF TypeOK
    <3>2. UNCHANGED <<outside, place, settings, rendered, pc, fleet, todo, asset, diff, problems,
                      exit, failed>>
          /\ edits' \in Nat /\ quiet' \in BOOLEAN /\ aliased' \subseteq Paths
      BY <2>15, Successor DEF Alias, TypeOK
    <3>3. TypeOK'
      BY <3>1, <3>2 DEF TypeOK
    <3> QED
      BY <3>1, <3>2, <3>3 DEF Sound
  <2>16. CASE UNCHANGED vars
    BY <2>16 DEF vars, TypeOK, Sound
  <2> QED
    BY <2>1, <2>2, <2>3, <2>4, <2>5, <2>6, <2>7, <2>8, <2>9, <2>10, <2>11, <2>12, <2>13, <2>14,
       <2>15, <2>16 DEF Next, Run, Others
<1> QED
  BY <1>1, <1>2, PTL DEF Spec

-----------------------------------------------------------------------------
(* While nobody else is at work, what was found when the asset was compared *)
(* stays what is there: no link in the way, and what blocks the copy (an    *)
(* entry of the wrong type) is what is still to be replaced.                *)
Wrong(p) == tree[p] \notin {"none", "link"} /\ (tree[p] = "dir") # (Source[p] = "dir")
Alone ==
  /\ pc = "retype" =>
       /\ diff.retyped = {asset} \/ Links(asset, tree) = {}
       /\ \A q \in diff.retyped : Wrong(q)
       /\ diff.retyped = {asset} \/ \A p \in Wanted(asset) : Wrong(p) => p \in diff.retyped
  /\ pc = "prune" => Links(asset, tree) = {}

LEMMA NotNested ==
  ASSUME WellFormed(tree), NEW p \in Paths, NEW q \in Paths, Is(p, Source), Wrong(p),
         Is(q, Source), tree[q] # "none", IsPrefixOf(p, q)
  PROVE  p = q
<1> SUFFICES ASSUME p # q
             PROVE  FALSE
  OBVIOUS
<1>1. p \in Above(q)
  BY DEF Above
<1>2. Source[p] = "dir" /\ tree[p] = "dir"
  BY <1>1, StackAssumption DEF SourceAssumption, WellFormed, Is
<1> QED
  BY <1>2 DEF Wrong

LEMMA LinkFree ==
  ASSUME NEW a \in Tops, Links(a, tree) = {}, NEW p \in Under(a)
  PROVE  ~Beyond(p) /\ ~Through(p, tree)
<1> SUFFICES ASSUME NEW q \in Paths, IsPrefixOf(q, p), tree[q] = "link"
             PROVE  FALSE
  BY DEF Beyond, Through, Above
<1>1. IsPrefixOf(a, q)
  BY PrefixOrder DEF Under, Tops
<1> QED
  BY <1>1 DEF Links, Under

LEMMA EntriesUnder ==
  ASSUME NEW a \in Paths, NEW p \in Under(a), NEW x \in Entries(p)
  PROVE  x \in Under(a) /\ IsPrefixOf(p, x) /\ x \in Paths
<1>1. p \in Paths /\ IsPrefixOf(a, p) /\ x \in Paths /\ IsPrefixOf(p, x)
  BY DEF Under, Entries
<1> QED
  BY <1>1, PrefixOrder DEF Under

LEMMA TopIsFree == \A a \in Tops : ~Beyond(a) /\ (Through(a, tree) => tree[a] = "link")
BY PrefixOrder DEF Tops, Beyond, Above, Through

(* A run alone comes to the copy with nothing in its way.                   *)
LEMMA CopyIsFree ==
  ASSUME Alone, pc = "retype", diff.retyped = {}, asset \in Tops
  PROVE  Links(asset, tree) = {} /\ Plain(asset) /\ Blocked({}) = {}
<1>1. Links(asset, tree) = {} /\ \A p \in Wanted(asset) : ~Wrong(p)
  BY DEF Alone
<1>2. \A p \in Wanted(asset) : p \in Under(asset)
  BY DEF Wanted
<1>3. \A p \in Wanted(asset) : Looks(p, tree) = tree[p] /\ tree[p] # "link"
  BY <1>1, <1>2, LinkFree DEF Looks, Links
<1>4. Plain(asset)
  BY <1>1, <1>3 DEF Plain, Wrong
<1>5. Unmade({}) = {}
  BY <1>1, <1>3 DEF Unmade, Wrong, Is
<1>6. Blocked({}) = {}
  BY <1>4, <1>5 DEF Blocked, Landing, Plain
<1> QED
  BY <1>1, <1>4, <1>6

LEMMA AloneKept == Spec => [](quiet => Alone)
<1>1. Init => (quiet => Alone)
  BY DEF Init
<1>2. TypeOK /\ Sound /\ (quiet => Alone) /\ [Next]_vars => (quiet => Alone)'
  <2> SUFFICES ASSUME TypeOK, Sound, quiet => Alone, [Next]_vars, quiet'
               PROVE  Alone'
    OBVIOUS
  <2>s. WellFormed(tree)
    BY DEF Sound
  <2>1. CASE Start \/ NextAsset \/ Finish \/ (\E f \in Files : Write(f) \/ WriteFails(f))
             \/ \E a \in Paths : CompareFails(a)
    <3>1. pc' \notin {"retype", "prune"}
      BY <2>1 DEF Start, NextAsset, Finish, Write, WriteFails, CompareFails, Fails, Died
    <3> QED
      BY <3>1 DEF Alone
  <2>2. ASSUME NEW a \in Paths, Compare(a)
        PROVE  Alone'
    <3>1. CASE pc' = "assets"
      BY <3>1 DEF Alone
    <3>2. CASE pc' = "retype"
      <4>1. /\ a \in Tops /\ asset' = a /\ diff' = AssetDiff(a, tree, fleet)
            /\ diff'.unowned = {} /\ tree' = tree
        BY <2>2, <3>2 DEF Compare, Sound, world
      <4>2. /\ a \notin Links(a, tree)
            /\ diff'.retyped \subseteq {q \in Under(a) : Is(q, Source) /\ Retyped(q, tree)}
            /\ \/ diff'.retyped = {a}
               \/ Links(a, tree) = {} /\ ~(a \in Present(a, tree) /\ Retyped(a, tree))
        BY <4>1, DiffLemma DEF TypeOK
      <4>3. ASSUME NEW p \in diff'.retyped
            PROVE  Wrong(p)
        <5>1. ~Through(p, tree) /\ tree[p] # "link"
          <6>1. CASE p = a
            BY <4>1, <4>2, <6>1, TopIsFree DEF Links
          <6>2. CASE Links(a, tree) = {}
            BY <4>1, <4>2, <6>2, LinkFree DEF Links
          <6> QED
            BY <4>2, <6>1, <6>2
        <5> QED
          BY <4>2, <5>1 DEF Retyped, Looks, Wrong
      <4>4. ASSUME diff'.retyped # {a}, NEW p \in Wanted(a), Wrong(p)
            PROVE  p \in diff'.retyped
        <5>1. Looks(p, tree) = tree[p] /\ Links(a, tree) = {} /\ p \in Under(a) /\ Is(p, Source)
          BY <4>1, <4>2, <4>4, LinkFree DEF Looks, Wanted
        <5>2. Retyped(p, tree) /\ p \in Present(a, tree)
          BY <5>1, <4>4 DEF Retyped, Wrong, Present
        <5>3. AssetDiff(a, tree, fleet).retyped =
                {q \in {x \in Present(a, tree) : Is(x, Source)} : Retyped(q, tree)}
          <6>1. a \notin {q \in {x \in Present(a, tree) : Is(x, Source)} : Retyped(q, tree)}
            BY <4>2, <4>4
          <6> QED
            BY <5>1, <6>1 DEF AssetDiff
        <5> QED
          BY <5>1, <5>2, <5>3, <4>1
      <4>5. \A p \in Paths : Wrong(p)' = Wrong(p)
        BY <4>1 DEF Wrong
      <4>6. diff'.retyped \subseteq Paths /\ Wanted(a) \subseteq Paths
        BY <4>2 DEF Under, Wanted
      <4> QED
        BY <4>1, <4>2, <4>3, <4>4, <4>5, <4>6, <3>2 DEF Alone, Links, Wanted
    <3> QED
      BY <2>2, <3>1, <3>2 DEF Compare
  <2>3. ASSUME NEW p \in Paths, Retype(p)
        PROVE  Alone'
    <3>1. CASE Died
      BY <3>1 DEF Died, Alone
    <3>2. CASE /\ Gone(p, Entries(p))
               /\ diff' = [diff EXCEPT !.retyped = @ \ {p}] /\ UNCHANGED <<pc, exit, todo, asset>>
      <4>1. pc = "retype" /\ pc' = "retype" /\ p \in diff.retyped /\ asset' = asset /\ quiet
        BY <2>3, <3>2 DEF Retype
      <4>2. diff'.retyped = diff.retyped \ {p}
        BY <3>2 DEF TypeOK, Diffs
      <4>3. asset \in Tops /\ p \in Under(asset) /\ Is(p, Source) /\ Wrong(p)
        BY <4>1 DEF Sound, Alone
      <4>4. ~Beyond(p)
        BY <4>1, <4>3, LinkFree, TopIsFree DEF Alone
      <4>5. tree' = Without(tree, Entries(p))
        BY <3>2, <4>4 DEF Gone
      <4>6. \A x \in Paths : tree'[x] = IF x \in Entries(p) THEN "none" ELSE tree[x]
        BY <4>5 DEF Without
      <4>7. \A x \in Entries(p) : x \in Under(asset) /\ IsPrefixOf(p, x) /\ x \in Paths
        BY <4>3, EntriesUnder DEF Tops
      <4>8. diff.retyped = {asset} => \A x \in Under(asset) : tree'[x] = "none"
        BY <4>1, <4>4, <4>6 DEF Entries, Is, Under
      <4>9. Links(asset, tree') = {}
        <5>1. CASE diff.retyped = {asset}
          BY <5>1, <4>8 DEF Links
        <5>2. CASE Links(asset, tree) = {}
          BY <5>2, <4>6 DEF Links, Under
        <5> QED
          BY <5>1, <5>2, <4>1 DEF Alone
      <4>10. ASSUME NEW x \in diff'.retyped
             PROVE  Wrong(x)'
        <5>1. x \in Paths /\ x # p /\ Wrong(x) /\ Is(x, Source)
          BY <4>1, <4>2, <4>10 DEF Alone, Sound, Under
        <5>2. x \notin Entries(p)
          BY <5>1, <4>3, <4>7, <2>s, NotNested DEF Wrong
        <5> QED
          BY <5>1, <5>2, <4>6 DEF Wrong
      <4>11. ASSUME NEW x \in Wanted(asset), Wrong(x)'
             PROVE  x \in diff'.retyped
        <5>1. x \in Under(asset) /\ x \in Paths /\ x \notin Entries(p) /\ tree'[x] = tree[x]
          BY <4>6, <4>11 DEF Wrong, Under, Wanted
        <5>2. Wrong(x)
          BY <5>1, <4>11 DEF Wrong
        <5>3. diff.retyped # {asset}
          BY <5>1, <4>8, <4>11 DEF Wrong
        <5>4. x \in diff.retyped
          BY <5>2, <5>3, <4>1, <4>11 DEF Alone
        <5>5. p \in Entries(p)
          BY <4>3, <4>4, PrefixOrder DEF Entries, Under, Is, Wrong
        <5> QED
          BY <5>1, <5>4, <5>5, <4>2
      <4> QED
        BY <4>1, <4>9, <4>10, <4>11 DEF Alone, Links, Wanted
    <3> QED
      BY <2>3, <3>1, <3>2 DEF Retype
  <2>4. ASSUME NEW bad, NEW torn, Copy(bad, torn)
        PROVE  Alone'
    <3>1. CASE Died
      BY <3>1 DEF Died, Alone
    <3>2. CASE pc' = "prune" /\ UNCHANGED <<exit, diff, todo, asset>>
      <4>1. pc = "retype" /\ diff.retyped = {} /\ asset \in Tops /\ quiet
        BY <2>4 DEF Copy, Sound
      <4>2. Links(asset, tree) = {}
        BY <4>1, CopyIsFree
      <4>3. \A p \in Paths : tree'[p] \in {tree[p], Source[p], "user"}
        BY <2>4, <2>s, <4>1, Copying
      <4>4. \A p \in Paths : Source[p] # "link"
        BY StackAssumption DEF SourceAssumption
      <4>5. Links(asset, tree') = {}
        BY <4>2, <4>3, <4>4 DEF Links, Under
      <4> QED
        BY <3>2, <4>5 DEF Alone, Links
    <3> QED
      BY <2>4, <3>1, <3>2 DEF Copy
  <2>5. ASSUME NEW p \in Paths, Prune(p)
        PROVE  Alone'
    <3>1. pc = "prune" /\ pc' = "prune" /\ asset' = asset /\ quiet
      BY <2>5 DEF Prune, PruneFails
    <3>2. /\ \/ Gone(p, Entries(p))
             \/ \E g \in PartOf(p) : Gone(p, g)
      BY <2>5 DEF Prune
    <3>3. \A x \in Paths : tree'[x] # tree[x] => tree'[x] = "none"
      BY <3>2, <2>s, PartOfLemma, Removing
    <3>4. Links(asset, tree') = {}
      BY <3>1, <3>3 DEF Alone, Links, Under
    <3> QED
      BY <3>1, <3>4 DEF Alone, Links
  <2>6. ASSUME Others, ~Resettle
        PROVE  FALSE
    BY <2>6 DEF Others, Kill, Edit, EditFile, Alias
  <2>7. CASE Resettle \/ UNCHANGED vars
    <3>1. UNCHANGED <<tree, pc, asset, diff, quiet>>
      BY <2>7 DEF Resettle, vars
    <3> QED
      BY <3>1 DEF Alone, Links, Wrong
  <2> QED
    BY <2>1, <2>2, <2>3, <2>4, <2>5, <2>6, <2>7 DEF Next, Run
<1> QED
  BY <1>1, <1>2, TypeCorrect, PTL DEF Spec

(* A run alone in the directory deletes and writes nothing that lies behind *)
(* a link, but for a generated file that is one.                            *)
THEOREM NothingOutside == Spec => MirrorStaysInside
<1> DEFINE Inside == /\ outside' = outside
                     /\ Exposed' = Exposed \/ \E f \in todo : Write(f) \/ WriteFails(f)
<1>1. TypeOK /\ Sound /\ (quiet => Alone) /\ [Next]_vars => [quiet /\ quiet' => Inside]_vars
  <2> SUFFICES ASSUME TypeOK, Sound, Alone, [Next]_vars, quiet, quiet'
               PROVE  Inside
    OBVIOUS
  <2>1. ASSUME NEW p \in Paths, Retype(p) \/ Prune(p)
        PROVE  Inside
    <3>1. ~Beyond(p)
      BY <2>1, LinkFree, TopIsFree DEF Retype, Prune, Sound, Alone
    <3>2. UNCHANGED <<outside, place, rendered>>
      BY <2>1, <3>1 DEF Retype, Prune, Gone
    <3> QED
      BY <3>2 DEF Exposed
  <2>2. ASSUME NEW bad, NEW torn, Copy(bad, torn)
        PROVE  Inside
    <3>1. asset \in Tops /\ Links(asset, tree) = {}
      BY <2>2, CopyIsFree DEF Copy, Sound
    <3>2. UNCHANGED <<outside, place, rendered>>
      BY <2>2, <3>1, Copying DEF Sound, Copy
    <3> QED
      BY <3>2 DEF Exposed
  <2>3. CASE UNCHANGED <<outside, place, rendered>>
    BY <2>3 DEF Exposed
  <2>4. CASE \E f \in Files : Write(f) \/ WriteFails(f)
    BY <2>4 DEF Write, WriteFails, world
  <2>5. CASE Others
    BY <2>3, <2>5 DEF Others, Kill, Resettle, Edit, EditFile, Alias
  <2> QED
    BY <2>1, <2>2, <2>3, <2>4, <2>5
       DEF Next, Run, Start, NextAsset, Finish, Compare, CompareFails, world, vars
<1> QED
  BY <1>1, TypeCorrect, AloneKept, PTL DEF Spec, MirrorStaysInside

(* A prefix of protected data, or data below it, is no path of the          *)
(* repository's but a directory above it.                                   *)
LEMMA ProtectedLemma ==
  ASSUME NEW s \in Settings, NEW r \in Protected(s), NEW q \in Paths
  PROVE  /\ r \in Paths /\ ~Is(r, Source)
         /\ IsPrefixOf(r, q) => ~Is(q, Source)
         /\ IsPrefixOf(q, r) /\ Is(q, Source) => Source[q] = "dir" /\ q \in Above(r)
<1>1. r \in s /\ r \in Paths /\ ~Is(r, Source)
  BY StackAssumption DEF Protected, DataAssumption
<1>2. Source \in [Paths -> {"none", "dir", "repo"}]
      /\ \A p \in Paths : Source[p] # "none" => \A x \in Above(p) : Source[x] = "dir"
  BY StackAssumption DEF SourceAssumption
<1>3. \A x \in Above(r) : Source[x] # "repo"
  BY <1>1, StackAssumption DEF DataAssumption
<1> QED
  BY <1>1, <1>2, <1>3 DEF Is, Above

(* What the fleet keeps its data in survives every step of a run.           *)
THEOREM DataKept == Spec => ReferencedDataKept
<1> DEFINE Survives == \A p \in Paths :
                          tree'[p] # tree[p] /\ (\E r \in Protected(fleet) : IsPrefixOf(r, p))
                          => \/ Others
                             \/ ~quiet /\ \E q \in diff.retyped : IsPrefixOf(q, p)
<1>1. TypeOK /\ Sound /\ (quiet => Alone) /\ [Next]_vars => [Survives]_vars
  <2> SUFFICES ASSUME TypeOK, Sound, quiet => Alone, [Next]_vars,
                      NEW p \in Paths, NEW r \in Protected(fleet), IsPrefixOf(r, p),
                      ~Others, ~(~quiet /\ \E q \in diff.retyped : IsPrefixOf(q, p))
               PROVE  tree'[p] = tree[p]
    OBVIOUS
  <2>r. r \in Paths /\ ~Is(r, Source) /\ ~Is(p, Source)
    BY ProtectedLemma DEF TypeOK
  <2>1. ASSUME NEW q \in Paths, Retype(q), tree'[p] # tree[p]
        PROVE  FALSE
    <3>1. pc = "retype" /\ q \in diff.retyped /\ Is(q, Source)
      BY <2>1 DEF Retype, Sound
    <3>2. \/ Gone(q, Entries(q))
          \/ \E g \in PartOf(q) : Gone(q, g)
      BY <2>1 DEF Retype
    <3>3. PICK g \in SUBSET Entries(q) :
            /\ ~Beyond(q) => \A x \in g : Entries(x) \subseteq g
            /\ Gone(q, g)
      BY <3>2, PartOfLemma DEF Sound
    <3>4. IsPrefixOf(q, p) /\ p \in g
      BY <2>1, <3>3, Removing DEF Sound
    <3>5. tree[p] # "none"
      <4>1. ~Beyond(q)
        BY <2>1, <3>3 DEF Gone
      <4> QED
        BY <4>1, <3>4 DEF Entries, Is
    <3>6. quiet /\ Alone
      BY <3>1, <3>4
    <3>7. IsPrefixOf(q, r)
      BY <3>1, <3>4, <2>r, ProtectedLemma, PrefixOrder DEF TypeOK
    <3>8. Source[q] = "dir" /\ q \in Above(r)
      BY <3>1, <3>7, ProtectedLemma DEF TypeOK
    <3>9. tree[q] # "dir"
      BY <3>1, <3>6, <3>8 DEF Alone, Wrong
    <3>10. q # p
      BY <3>1, <2>r
    <3> QED
      BY <3>4, <3>5, <3>9, <3>10 DEF Sound, WellFormed, Is, Above
  <2>2. ASSUME NEW bad, NEW torn, Copy(bad, torn), tree'[p] # tree[p]
        PROVE  FALSE
    <3>1. pc = "retype" /\ asset \in Tops
      BY <2>2 DEF Copy, Sound
    <3>2. p \notin Wanted(asset)
      BY <2>r DEF Wanted
    <3>3. PICK q \in Wanted(asset) : Source[q] = "repo" /\ p = Inner(q)
      BY <2>2, <3>1, <3>2, Copying DEF Sound
    <3>4. q \in Paths /\ Inner(q) \in Paths
      BY <3>3 DEF Wanted, Under
    <3>5. CASE r = p
      <4>1. q \in Above(r)
        BY <3>3, <3>4, <3>5, InnerBelow DEF Above
      <4> QED
        BY <3>3, <4>1, StackAssumption DEF DataAssumption, Protected, TypeOK
    <3>6. CASE r # p
      <4>1. IsPrefixOf(r, q)
        BY <3>3, <3>4, <3>6, <2>r, InnerBelow
      <4> QED
        BY <3>3, <3>4, <4>1, ProtectedLemma DEF TypeOK, Is
    <3> QED
      BY <3>5, <3>6
  <2>3. ASSUME NEW q \in Paths, Prune(q), tree'[p] # tree[p]
        PROVE  FALSE
    <3>1. q \in diff.extra /\ ~Kept(q, fleet)
      BY <2>3 DEF Prune, Sound
    <3>2. \/ Gone(q, Entries(q))
          \/ \E g \in PartOf(q) : Gone(q, g)
      BY <2>3 DEF Prune
    <3>3. IsPrefixOf(q, p)
      BY <2>3, <3>2, PartOfLemma, Removing DEF Sound
    <3>4. Shields(r, q)
      BY <3>3, <2>r, PrefixOrder DEF Shields
    <3> QED
      BY <3>1, <3>4 DEF Kept
  <2>4. CASE UNCHANGED tree
    BY <2>4
  <2> QED
    BY <2>1, <2>2, <2>3, <2>4
       DEF Next, Run, Start, NextAsset, Finish, Write, WriteFails, Compare, CompareFails, world, vars
<1> QED
  BY <1>1, TypeCorrect, AloneKept, PTL DEF Spec, ReferencedDataKept

-----------------------------------------------------------------------------
(* Where an asset has no link on it and is not of the wrong type, the       *)
(* difference is empty of what is missing, changed and extra exactly if the *)
(* asset is mirrored.                                                       *)
LEMMA ExactLemma ==
  ASSUME TypeOK, NEW a \in Tops, NEW s \in Settings
  PROVE  (LET d == AssetDiff(a, tree, s)
          IN d.missing = {} /\ d.modified = {} /\ d.extra = {} /\ d.unowned = {})
         <=> Mirrored(a, s)
<1> DEFINE both == {p \in Present(a, tree) : Is(p, Source)}
           retyped == {p \in both : Retyped(p, tree)}
           edited == {p \in both : Source[p] = "repo" /\ Looks(p, tree) = "user"}
           d == AssetDiff(a, tree, s)
<1>1. Source \in [Paths -> {"none", "dir", "repo"}] /\ tree \in [Paths -> Kinds]
  BY StackAssumption DEF SourceAssumption, TypeOK
<1>2. a \in Under(a) /\ Under(a) \subseteq Paths
  BY PrefixOrder DEF Under, Tops
<1>3. CASE a \in Links(a, tree)
  <2>1. d = [NoDiff EXCEPT !.unowned = {a}]
    BY <1>3 DEF AssetDiff
  <2>2. d.unowned # {}
    BY <2>1 DEF NoDiff
  <2> QED
    BY <2>2, <1>2, <1>3 DEF Mirrored, Links
<1>4. CASE a \notin Links(a, tree) /\ a \in retyped
  <2>1. d = [NoDiff EXCEPT !.modified = {a}, !.retyped = {a}]
    BY <1>4 DEF AssetDiff
  <2>2. d.modified # {}
    BY <2>1 DEF NoDiff
  <2>3. ~Through(a, tree)
    BY <1>2, <1>4, TopIsFree DEF Links
  <2>4. tree[a] # Source[a] /\ Is(a, Source)
    BY <1>4, <2>3 DEF Retyped, Looks
  <2> QED
    BY <2>2, <2>4, <1>2 DEF Mirrored
<1>5. CASE Links(a, tree) # {} /\ a \notin Links(a, tree) /\ a \notin retyped
  <2>1. d = [NoDiff EXCEPT !.unowned = Links(a, tree)]
    BY <1>5 DEF AssetDiff
  <2>2. d.unowned # {}
    BY <2>1, <1>5 DEF NoDiff
  <2> QED
    BY <2>2, <1>5 DEF Mirrored, Links
<1>6. CASE Links(a, tree) = {} /\ a \notin retyped
  <2>1. d = [missing |-> Missing(a, tree), modified |-> retyped \union edited,
             retyped |-> retyped, extra |-> Extra(a, tree, s), unowned |-> {}]
    BY <1>6 DEF AssetDiff
  <2>2. \A p \in Under(a) : Looks(p, tree) = tree[p] /\ tree[p] # "link"
    BY <1>6, LinkFree DEF Looks, Links
  <2>3. Present(a, tree) = {p \in Under(a) : tree[p] # "none"}
    BY <2>2 DEF Present
  <2>4. Missing(a, tree) = {} <=> \A p \in Under(a) : Is(p, Source) => tree[p] # "none"
    BY <2>3 DEF Missing
  <2>5. Extra(a, tree, s) = {} <=>
          \A p \in Under(a) : ~Is(p, Source) /\ tree[p] # "none" => Kept(p, s)
    BY <2>3 DEF Extra
  <2>6. retyped \union edited = {} <=>
          \A p \in Under(a) : Is(p, Source) /\ tree[p] # "none" =>
            /\ (tree[p] = "dir") = (Source[p] = "dir")
            /\ ~(Source[p] = "repo" /\ tree[p] = "user")
    BY <2>2, <2>3 DEF Retyped
  <2>7. \A p \in Under(a) : Is(p, Source) =>
          (tree[p] = Source[p] <=>
             /\ tree[p] # "none"
             /\ (tree[p] = "dir") = (Source[p] = "dir")
             /\ ~(Source[p] = "repo" /\ tree[p] = "user"))
    BY <2>2, <1>1, <1>2 DEF Is, Kinds
  <2>8. Mirrored(a, s) <=>
          /\ \A p \in Under(a) : Is(p, Source) => tree[p] = Source[p]
          /\ \A p \in Under(a) : ~Is(p, Source) /\ tree[p] # "none" => Kept(p, s)
    BY <2>2 DEF Mirrored, Is
  <2> QED
    BY <2>1, <2>4, <2>5, <2>6, <2>7, <2>8
<1> QED
  BY <1>3, <1>4, <1>5, <1>6

(* --check says up to date of exactly the directories a regeneration leaves *)
(* as they are.                                                             *)
THEOREM CheckExact == Spec => []CheckIsExact
<1>1. TypeOK => CheckIsExact
  <2> SUFFICES ASSUME TypeOK
               PROVE  CheckIsExact
    OBVIOUS
  <2>1. \A a \in Owned(settings) : a \in Tops /\ settings \in Settings
    BY OwnedTops DEF TypeOK
  <2> QED
    BY <2>1, ExactLemma DEF CheckIsExact, UpToDate
<1> QED
  BY <1>1, TypeCorrect, PTL

-----------------------------------------------------------------------------
(* The asset at hand holds besides the repository's entries only what is    *)
(* shielded or still to be pruned; those before it are mirrored.            *)
OnlyExtra(p) == Is(p, tree) => Kept(p, fleet) \/ p \in diff.extra
AllDone == /\ \A a \in Owned(fleet) : Mirrored(a, fleet)
           /\ \A f \in Files : rendered[f] = fleet
Progress ==
  /\ pc = "write" => \A f \in Files \ todo : rendered[f] = fleet
  /\ pc \in {"assets", "retype", "prune"} =>
       /\ \A f \in Files : rendered[f] = fleet
       /\ \A a \in Owned(fleet) \ todo : (pc # "assets" /\ a = asset) \/ Mirrored(a, fleet)
  /\ pc = "retype" =>
       diff.retyped = {asset} \/ \A p \in Under(asset) : ~Is(p, Source) => OnlyExtra(p)
  /\ pc = "prune" =>
       \A p \in Under(asset) : IF Is(p, Source) THEN tree[p] = Source[p] ELSE OnlyExtra(p)
  /\ pc = "idle" /\ exit = "ok" => AllDone

LEMMA Apart ==
  ASSUME NEW a \in Tops, NEW b \in Tops, a # b
  PROVE  Under(a) \cap Under(b) = {}
<1> SUFFICES ASSUME NEW p \in Paths, IsPrefixOf(a, p), IsPrefixOf(b, p)
             PROVE  a = b
  BY DEF Under
<1> QED
  BY PrefixOrder DEF Tops

LEMMA MirroredSame ==
  ASSUME NEW a \in Tops, NEW s \in Settings, Mirrored(a, s),
         \A p \in Under(a) : tree'[p] = tree[p]
  PROVE  Mirrored(a, s)'
BY DEF Mirrored, Is

LEMMA ProgressKept ==
  Spec => [](/\ exit = "ok" => pc = "idle" /\ ~problems
             /\ quiet /\ ~problems => Progress)
<1> DEFINE J == /\ exit = "ok" => pc = "idle" /\ ~problems
                /\ quiet /\ ~problems => Progress
<1>1. Init => J
  BY DEF Init
<1>2. J /\ [Next]_vars => (exit = "ok" => pc = "idle" /\ ~problems)'
  <2> SUFFICES ASSUME exit = "ok" => pc = "idle" /\ ~problems, [Next]_vars
               PROVE  exit' = "ok" => pc' = "idle" /\ ~problems'
    OBVIOUS
  <2> QED
    BY DEF Next, Run, Others, Start, Copy, NextAsset, Finish, Write, WriteFails, Compare,
           CompareFails, Fails, Retype, Prune, PruneFails, Kill, Resettle, Edit, EditFile, Alias,
           Died, vars
<1>3. TypeOK /\ Sound /\ (quiet => Alone) /\ J /\ [Next]_vars
        => (quiet /\ ~problems => Progress)'
  <2> SUFFICES ASSUME TypeOK, Sound, quiet => Alone, J, [Next]_vars, quiet', ~problems'
               PROVE  Progress'
    OBVIOUS
  <2>t. \A a \in Owned(fleet) : a \in Tops
    BY OwnedTops DEF TypeOK
  <2>1. CASE Start
    <3>1. pc' = "write" /\ todo' = Files
      BY <2>1 DEF Start
    <3> QED
      BY <3>1 DEF Progress
  <2>2. ASSUME NEW f \in Files, Write(f)
        PROVE  Progress'
    <3>1. /\ pc = "write" /\ quiet /\ ~problems /\ f \in todo
          /\ UNCHANGED <<fleet, aliased>> /\ rendered' = [rendered EXCEPT ![f] = fleet]
      BY <2>2 DEF Write, world
    <3>2. \A g \in Files \ todo : rendered[g] = fleet
      BY <3>1 DEF Progress
    <3>3. \A g \in Files \ (todo \ {f}) : rendered'[g] = fleet
      BY <3>1, <3>2 DEF TypeOK
    <3>4. CASE todo = {f}
      <4>1. pc' = "assets" /\ todo' = Owned(fleet)
        BY <2>2, <3>4 DEF Write
      <4>2. \A a \in Owned(fleet)' : a \in todo'
        BY <4>1, <3>1 DEF Owned, Referred
      <4> QED
        BY <4>1, <4>2, <3>1, <3>3, <3>4 DEF Progress
    <3>5. CASE todo # {f}
      <4>1. pc' = "write" /\ todo' = todo \ {f}
        BY <2>2, <3>5 DEF Write
      <4> QED
        BY <4>1, <3>1, <3>3 DEF Progress
    <3> QED
      BY <3>4, <3>5
  <2>3. ASSUME NEW a \in Paths, Compare(a)
        PROVE  Progress'
    <3>1. /\ pc = "assets" /\ a \in todo /\ asset' = a /\ todo' = todo \ {a}
          /\ diff' = AssetDiff(a, tree, fleet)
          /\ UNCHANGED <<tree, outside, aliased, rendered, fleet, quiet>>
          /\ ~problems /\ diff'.unowned = {}
      BY <2>3 DEF Compare, world, Refusal
    <3>2. pc' = "retype"
      BY <2>3, <3>1 DEF Compare
    <3>3. a \in Tops
      BY <3>1 DEF Sound
    <3>4. \/ diff'.retyped = {a}
          \/ Links(a, tree) = {} /\ Extra(a, tree, fleet) = diff'.extra
      BY <3>1, <3>3, DiffLemma DEF TypeOK
    <3>5. ASSUME Links(a, tree) = {}, Extra(a, tree, fleet) = diff'.extra,
                 NEW p \in Under(a), ~Is(p, Source), Is(p, tree)
          PROVE  Kept(p, fleet) \/ p \in diff'.extra
      <4>1. Looks(p, tree) = tree[p]
        BY <3>3, <3>5, LinkFree DEF Looks
      <4> QED
        BY <3>5, <4>1 DEF Extra, Present, Is
    <3>6. ASSUME NEW b \in Owned(fleet) \ todo', b # a
          PROVE  Mirrored(b, fleet)'
      <4>1. Mirrored(b, fleet)
        BY <3>1, <3>6 DEF Progress
      <4> QED
        BY <4>1, <3>1 DEF Mirrored, Is
    <3>7. \A f \in Files : rendered'[f] = fleet
      BY <3>1 DEF Progress
    <3>8. diff'.retyped = {a} \/ \A p \in Under(a) : ~Is(p, Source) => OnlyExtra(p)'
      BY <3>1, <3>4, <3>5 DEF OnlyExtra, Is
    <3>9. \A b \in Owned(fleet)' \ todo' : b = a \/ Mirrored(b, fleet)'
      BY <3>1, <3>6 DEF Owned, Referred
    <3> QED
      BY <3>1, <3>2, <3>7, <3>8, <3>9 DEF Progress
  <2>4. ASSUME NEW p \in Paths, Retype(p)
        PROVE  Progress'
    <3>1. CASE Died
      BY <3>1 DEF Died, Progress
    <3>2. CASE /\ Gone(p, Entries(p))
               /\ diff' = [diff EXCEPT !.retyped = @ \ {p}] /\ UNCHANGED <<pc, exit, todo, asset>>
      <4>1. pc = "retype" /\ p \in diff.retyped /\ quiet /\ ~problems
            /\ UNCHANGED <<aliased, fleet, rendered>>
        BY <2>4, <3>2 DEF Retype
      <4>2. diff'.retyped = diff.retyped \ {p} /\ diff'.extra = diff.extra
        BY <3>2 DEF TypeOK, Diffs
      <4>3. asset \in Tops /\ p \in Under(asset)
        BY <4>1 DEF Sound
      <4>4. ~Beyond(p)
        BY <4>1, <4>3, LinkFree, TopIsFree DEF Alone
      <4>5. \A x \in Paths : tree'[x] = IF x \in Entries(p) THEN "none" ELSE tree[x]
        BY <3>2, <4>4 DEF Gone, Without
      <4>6. \A x \in Entries(p) : x \in Under(asset)
        BY <4>3, EntriesUnder DEF Tops
      <4>7. ASSUME NEW b \in Owned(fleet) \ todo, b # asset
            PROVE  Mirrored(b, fleet)'
        <5>1. Mirrored(b, fleet)
          BY <4>1, <4>7 DEF Progress
        <5>2. \A x \in Under(b) : tree'[x] = tree[x]
          BY <4>3, <4>5, <4>6, <4>7, <2>t, Apart DEF Under
        <5>3. Mirrored(b, fleet')
          BY <5>1, <4>1
        <5> QED
          BY <5>1, <5>2, <4>1, <2>t, MirroredSame DEF TypeOK, Mirrored, Is
      <4>8. \A x \in Under(asset) : ~Is(x, Source) => OnlyExtra(x)'
        <5>1. CASE diff.retyped = {asset}
          <6>1. \A x \in Under(asset) : tree'[x] = "none"
            BY <5>1, <4>1, <4>4, <4>5 DEF Entries, Is, Under
          <6> QED
            BY <6>1 DEF OnlyExtra, Is
        <5>2. CASE \A x \in Under(asset) : ~Is(x, Source) => OnlyExtra(x)
          BY <5>2, <4>1, <4>2, <4>5 DEF OnlyExtra, Is, Under
        <5> QED
          BY <5>1, <5>2, <4>1 DEF Progress
      <4>9. \A b \in Owned(fleet)' \ todo' : b = asset \/ Mirrored(b, fleet)'
        BY <3>2, <4>1, <4>7 DEF Owned, Referred
      <4> QED
        BY <3>2, <4>1, <4>8, <4>9 DEF Progress
    <3> QED
      BY <2>4, <3>1, <3>2 DEF Retype
  <2>5. ASSUME NEW bad, NEW torn, Copy(bad, torn)
        PROVE  Progress'
    <3>1. CASE Died
      BY <3>1 DEF Died, Progress
    <3>2. CASE pc' = "prune" /\ UNCHANGED <<exit, diff, todo, asset>>
      <4>1. pc = "retype" /\ diff.retyped = {} /\ quiet /\ ~problems /\ asset \in Tops
            /\ UNCHANGED <<aliased, fleet, rendered>> /\ WellFormed(tree)
        BY <2>5 DEF Copy, Sound
      <4>2. bad \union Blocked(bad) = {}
        BY <2>5, <3>2, <4>1 DEF Copy, Died
      <4>3. Links(asset, tree) = {} /\ Plain(asset)
        BY <4>1, CopyIsFree
      <4>4. \A x \in Paths : tree'[x] = tree[x] \/ x \in Wanted(asset)
        BY <2>5, <4>1, <4>3, Copying
      <4>5. \A x \in Under(asset) : Is(x, Source) => tree'[x] = Source[x]
        BY <2>5, <4>1, <4>2, <4>3, Copying DEF Wanted
      <4>6. \A x \in Under(asset) : ~Is(x, Source) => OnlyExtra(x)'
        BY <3>2, <4>1, <4>4 DEF Progress, OnlyExtra, Is, Under, Wanted
      <4>7. ASSUME NEW b \in Owned(fleet) \ todo, b # asset
            PROVE  Mirrored(b, fleet)'
        <5>1. Mirrored(b, fleet)
          BY <4>1, <4>7 DEF Progress
        <5>2. \A x \in Under(b) : tree'[x] = tree[x]
          BY <4>1, <4>4, <4>7, <2>t, Apart DEF Under, Wanted
        <5> QED
          BY <5>1, <5>2, <4>1 DEF Mirrored, Is
      <4>8. \A b \in Owned(fleet)' \ todo' : b = asset \/ Mirrored(b, fleet)'
        BY <3>2, <4>1, <4>7 DEF Owned, Referred
      <4> QED
        BY <3>2, <4>1, <4>5, <4>6, <4>8 DEF Progress
    <3> QED
      BY <2>5, <3>1, <3>2 DEF Copy
  <2>6. ASSUME NEW p \in Paths, Prune(p)
        PROVE  Progress'
    <3>1. /\ pc = "prune" /\ p \in diff.extra /\ quiet /\ UNCHANGED <<aliased, fleet, rendered>>
          /\ Gone(p, Entries(p)) /\ ~problems
          /\ diff' = [diff EXCEPT !.extra = @ \ {p}] /\ UNCHANGED <<pc, exit, todo, asset>>
      BY <2>6 DEF Prune
    <3>2. diff'.extra = diff.extra \ {p}
      BY <3>1 DEF TypeOK, Diffs
    <3>3. asset \in Tops /\ p \in Under(asset) /\ ~Is(p, Source)
      BY <3>1 DEF Sound
    <3>4. ~Beyond(p)
      BY <3>1, <3>3, LinkFree DEF Alone
    <3>5. \A x \in Paths : tree'[x] = IF x \in Entries(p) THEN "none" ELSE tree[x]
      BY <3>1, <3>4 DEF Gone, Without
    <3>6. \A x \in Entries(p) : x \in Under(asset) /\ IsPrefixOf(p, x) /\ x \in Paths
      BY <3>3, EntriesUnder DEF Tops
    <3>7. \A x \in Entries(p) : ~Is(x, Source)
      <4> SUFFICES ASSUME NEW x \in Entries(p), Is(x, Source)
                   PROVE  FALSE
        OBVIOUS
      <4>1. x # p
        BY <3>3
      <4>2. p \in Above(x)
        BY <3>3, <3>6, <4>1 DEF Above, Under
      <4> QED
        BY <3>3, <3>6, <4>2, StackAssumption DEF SourceAssumption, Is
    <3>8. \A x \in Under(asset) : IF Is(x, Source) THEN tree[x] = Source[x] ELSE OnlyExtra(x)
      BY <3>1 DEF Progress
    <3>9. \A x \in Under(asset) : Is(x, Source) => tree'[x] = Source[x]
      BY <3>5, <3>7, <3>8 DEF Under
    <3>10. ASSUME NEW x \in Under(asset), ~Is(x, Source)
           PROVE  OnlyExtra(x)'
      <4>1. x \in Paths /\ (Is(x, tree) => Kept(x, fleet) \/ x \in diff.extra)
        BY <3>8, <3>10 DEF OnlyExtra, Under
      <4>2. x = p => tree'[x] = "none"
        BY <3>3, <3>4, <3>5, PrefixOrder DEF Entries, Is, Under
      <4>3. Is(x, tree') => Is(x, tree) /\ x # p
        BY <4>1, <4>2, <3>5 DEF Is
      <4> QED
        BY <4>1, <4>3, <3>1, <3>2 DEF OnlyExtra
    <3>11. ASSUME NEW b \in Owned(fleet) \ todo, b # asset
           PROVE  Mirrored(b, fleet)'
      <4>1. Mirrored(b, fleet)
        BY <3>1, <3>11 DEF Progress
      <4>2. \A x \in Under(b) : tree'[x] = tree[x]
        BY <3>3, <3>5, <3>6, <3>11, <2>t, Apart DEF Under
      <4> QED
        BY <4>1, <4>2, <3>1 DEF Mirrored, Is
    <3>12. \A b \in Owned(fleet)' \ todo' : b = asset \/ Mirrored(b, fleet)'
      BY <3>1, <3>11 DEF Owned, Referred
    <3> QED
      BY <3>1, <3>9, <3>10, <3>12 DEF Progress
  <2>7. CASE NextAsset
    <3>1. /\ pc = "prune" /\ pc' = "assets" /\ diff.extra = {} /\ quiet /\ ~problems
          /\ UNCHANGED <<tree, aliased, rendered, fleet, todo, asset, diff>>
      BY <2>7 DEF NextAsset, world
    <3>2. Links(asset, tree) = {}
      BY <3>1 DEF Alone
    <3>3. \A p \in Under(asset) : IF Is(p, Source) THEN tree[p] = Source[p]
                                  ELSE Is(p, tree) => Kept(p, fleet)
      BY <3>1 DEF Progress, OnlyExtra
    <3>4. Mirrored(asset, fleet)
      BY <3>2, <3>3 DEF Mirrored, Links
    <3>5. \A b \in Owned(fleet) \ todo : Mirrored(b, fleet)
      BY <3>1, <3>4 DEF Progress
    <3>6. \A b \in Owned(fleet)' \ todo' : Mirrored(b, fleet)'
      BY <3>1, <3>5 DEF Owned, Referred, Mirrored, Is
    <3> QED
      BY <3>1, <3>6 DEF Progress
  <2>8. CASE Finish
    <3>1. /\ pc = "assets" /\ todo = {} /\ pc' = "idle" /\ quiet /\ ~problems
          /\ UNCHANGED <<tree, aliased, rendered, fleet>>
      BY <2>8 DEF Finish, world
    <3>2. AllDone
      BY <3>1 DEF Progress, AllDone
    <3>3. AllDone'
      BY <3>1, <3>2 DEF AllDone, Owned, Referred, Mirrored, Is
    <3> QED
      BY <3>1, <3>3 DEF Progress
  <2>9. ASSUME Others, ~Resettle
        PROVE  FALSE
    BY <2>9 DEF Others, Kill, Edit, EditFile, Alias
  <2>10. CASE Resettle \/ UNCHANGED vars
    <3>1. UNCHANGED <<tree, aliased, rendered, pc, fleet, todo, asset, diff, problems, exit, quiet>>
      BY <2>10 DEF Resettle, vars
    <3>2. quiet /\ ~problems /\ Progress
      BY <3>1
    <3> QED
      BY <3>1, <3>2 DEF Progress, OnlyExtra, AllDone, Owned, Referred, Mirrored, Is
  <2>11. CASE (\E f \in Files : WriteFails(f)) \/ \E a \in Paths : CompareFails(a)
    BY <2>11 DEF WriteFails, CompareFails, Fails, Died, Progress
  <2> QED
    BY <2>1, <2>2, <2>3, <2>4, <2>5, <2>6, <2>7, <2>8, <2>9, <2>10, <2>11 DEF Next, Run
<1> QED
  BY <1>1, <1>2, <1>3, TypeCorrect, AloneKept, PTL DEF Spec

(* A run that says it succeeded, undisturbed, has mirrored every asset and  *)
(* rendered all three files, whatever was killed before it.                 *)
THEOREM SuccessMirrors == Spec => []SuccessIsMirrored
<1>1. (exit = "ok" => pc = "idle" /\ ~problems) /\ (quiet /\ ~problems => Progress)
        => SuccessIsMirrored
  BY DEF Progress, AllDone, SuccessIsMirrored
<1> QED
  BY <1>1, ProgressKept, PTL

-----------------------------------------------------------------------------
(* Nothing the repository has is ever missing from an asset the run is past *)
(* and did not refuse.                                                      *)
Whole(a) == \A p \in Wanted(a) : tree[p] = Source[p]
NoLoss ==
  /\ pc \in {"assets", "retype", "prune"} =>
       \A a \in Owned(fleet) \ todo : Complete(a) \/ (pc = "retype" /\ a = asset)
  /\ pc = "prune" => Whole(asset)
  /\ pc = "idle" => FailuresCostNoAsset

LEMMA CompleteSame ==
  ASSUME NEW a \in Tops, Complete(a), \A p \in Under(a) : tree'[p] = tree[p]
  PROVE  Complete(a)'
BY DEF Complete, Wanted, Links, Is

(* An entry of the wrong type that could not be removed is still there.     *)
LEMMA DiedOfStuck ==
  ASSUME TypeOK, Sound, NEW p \in Paths, ~Beyond(p), Wrong(p), Is(p, Source),
         ~Through(p, tree), ~Removable(p), NEW g \in PartOf(p), Gone(p, g), stuck' = stuck
  PROVE  Retyped(p, tree)' /\ Entries(p)' \cap stuck' # {}
<1>1. p \in Entries(p) /\ tree[p] # "link" /\ tree[p] # "none"
  BY PrefixOrder DEF Entries, Under, Is, Wrong
<1>2. PICK x \in Entries(p) : x \in stuck
  BY <1>1 DEF Removable
<1>3. g \subseteq Entries(p) \ stuck /\ p \notin g
  BY DEF PartOf
<1>4. \A y \in Paths : tree'[y] = IF y \in g THEN "none" ELSE tree[y]
  BY DEF Gone, Without
<1>5. tree'[p] = tree[p] /\ tree'[x] = tree[x] /\ x \in Under(p) /\ Is(x, tree)
  BY <1>2, <1>3, <1>4 DEF Entries, Under
<1>6. \A y \in Paths : tree'[y] = "link" => tree[y] = "link"
  BY <1>4
<1>7. ~Through(p, tree)' /\ ~Beyond(p)'
  BY <1>6 DEF Through, Beyond, Above
<1>8. x \in Entries(p)'
  BY <1>5, <1>7 DEF Entries, Is
<1>9. Looks(p, tree)' = tree[p]
  BY <1>5, <1>7 DEF Looks
<1> QED
  BY <1>1, <1>2, <1>8, <1>9 DEF Retyped, Wrong

LEMMA NoLossKept == Spec => []((exit # "none" => pc = "idle") /\ (quiet => NoLoss))
<1> DEFINE J == (exit # "none" => pc = "idle") /\ (quiet => NoLoss)
<1>1. Init => J
  BY DEF Init
<1>2. J /\ [Next]_vars => (exit # "none" => pc = "idle")'
  <2> SUFFICES ASSUME exit # "none" => pc = "idle", [Next]_vars
               PROVE  exit' # "none" => pc' = "idle"
    OBVIOUS
  <2> QED
    BY DEF Next, Run, Others, Start, Copy, NextAsset, Finish, Write, WriteFails, Compare,
           CompareFails, Fails, Retype, Prune, PruneFails, Kill, Resettle, Edit, EditFile, Alias,
           Died, vars
<1>3. TypeOK /\ Sound /\ (quiet => Alone) /\ J /\ [Next]_vars => (quiet => NoLoss)'
  <2> SUFFICES ASSUME TypeOK, Sound, quiet => Alone, J, [Next]_vars, quiet'
               PROVE  NoLoss'
    OBVIOUS
  <2>t. \A a \in Owned(fleet) : a \in Tops
    BY OwnedTops DEF TypeOK
  <2>s. WellFormed(tree)
    BY DEF Sound
  <2>1. CASE Start
    <3>1. pc' = "write"
      BY <2>1 DEF Start
    <3> QED
      BY <3>1 DEF NoLoss
  <2>2. ASSUME NEW f \in Files, Write(f)
        PROVE  NoLoss'
    <3>1. pc' = "write" \/ (pc' = "assets" /\ todo' = Owned(fleet) /\ UNCHANGED <<fleet, aliased>>)
      BY <2>2 DEF Write, world
    <3>2. pc' = "assets" => \A a \in Owned(fleet)' : a \in todo'
      BY <3>1 DEF Owned, Referred
    <3> QED
      BY <3>1, <3>2 DEF NoLoss
  <2>3. ASSUME NEW a \in Paths, Compare(a)
        PROVE  NoLoss'
    <3>1. /\ pc = "assets" /\ a \in todo /\ asset' = a /\ todo' = todo \ {a}
          /\ diff' = AssetDiff(a, tree, fleet)
          /\ UNCHANGED <<tree, outside, aliased, fleet, quiet>>
          /\ pc' = IF diff'.unowned = {} THEN "retype" ELSE "assets"
      BY <2>3 DEF Compare, world
    <3>2. \A b \in Owned(fleet) \ todo : Complete(b)'
      BY <3>1 DEF NoLoss, Complete, Links, Is
    <3>3. diff'.unowned # {} => Links(a, tree) # {}
      <4>1. AssetDiff(a, tree, fleet).unowned # {} => Links(a, tree) # {}
        BY DEF AssetDiff, NoDiff
      <4> QED
        BY <3>1, <4>1
    <3>4. \A b \in Owned(fleet)' \ todo' : Complete(b)' \/ (pc' = "retype" /\ b = a)
      BY <3>1, <3>2, <3>3 DEF Owned, Referred, Complete, Links
    <3> QED
      BY <3>1, <3>4 DEF NoLoss
  <2>4. ASSUME NEW p \in Paths, Retype(p)
        PROVE  NoLoss'
    <3>1. /\ pc = "retype" /\ p \in diff.retyped /\ quiet /\ asset \in Tops
          /\ p \in Under(asset) /\ Is(p, Source) /\ UNCHANGED <<aliased, fleet, stuck>>
      BY <2>4 DEF Retype, Sound
    <3>2. ~Beyond(p) /\ Wrong(p) /\ ~Through(p, tree)
      BY <3>1, LinkFree, TopIsFree DEF Alone, Wrong
    <3>3. CASE /\ Gone(p, Entries(p))
               /\ diff' = [diff EXCEPT !.retyped = @ \ {p}] /\ UNCHANGED <<pc, exit, todo, asset>>
      <4>1. \A x \in Paths : tree'[x] = IF x \in Entries(p) THEN "none" ELSE tree[x]
        BY <3>2, <3>3 DEF Gone, Without
      <4>2. \A x \in Entries(p) : x \in Under(asset)
        BY <3>1, EntriesUnder DEF Tops
      <4>3. ASSUME NEW b \in Owned(fleet) \ todo, b # asset
            PROVE  Complete(b)'
        <5>1. Complete(b)
          BY <3>1, <4>3 DEF NoLoss
        <5>2. \A x \in Under(b) : tree'[x] = tree[x]
          BY <3>1, <4>1, <4>2, <4>3, <2>t, Apart DEF Under
        <5> QED
          BY <5>1, <5>2, <4>3, <2>t, CompleteSame
      <4>4. \A b \in Owned(fleet)' \ todo' : Complete(b)' \/ b = asset
        BY <3>1, <3>3, <4>3 DEF Owned, Referred
      <4> QED
        BY <3>1, <3>3, <4>4 DEF NoLoss
    <3>4. CASE Died /\ ~Removable(p) /\ \E g \in PartOf(p) : Gone(p, g)
      <4>1. PICK g \in PartOf(p) : Gone(p, g)
        BY <3>4
      <4>2. Retyped(p, tree)' /\ Entries(p)' \cap stuck' # {}
        BY <3>1, <3>2, <3>4, <4>1, DiedOfStuck
      <4>3. FailuresCostNoAsset'
        <5>1. \E q \in Paths : /\ Is(q, Source) /\ Retyped(q, tree)'
                               /\ Entries(q)' \cap stuck' # {}
          BY <4>2, <3>1
        <5> QED
          BY <5>1, <3>4 DEF FailuresCostNoAsset, Is, Died
      <4> QED
        BY <3>4, <4>3 DEF Died, NoLoss
    <3> QED
      BY <2>4, <3>3, <3>4 DEF Retype
  <2>5. ASSUME NEW bad, NEW torn, Copy(bad, torn)
        PROVE  NoLoss'
    <3>1. /\ pc = "retype" /\ diff.retyped = {} /\ quiet /\ asset \in Tops
          /\ UNCHANGED <<aliased, fleet>>
      BY <2>5 DEF Copy, Sound
    <3>2. Links(asset, tree) = {} /\ Plain(asset) /\ Blocked({}) = {}
      BY <3>1, CopyIsFree
    <3>3. CASE bad # {}
      <4>1. Died /\ failed'
        BY <2>5, <3>3 DEF Copy
      <4> QED
        BY <4>1 DEF Died, NoLoss, FailuresCostNoAsset
    <3>4. CASE bad = {}
      <4>1. bad \union Blocked(bad) = {}
        BY <3>2, <3>4
      <4>2. pc' = "prune" /\ UNCHANGED <<exit, diff, todo, asset>>
        BY <2>5, <4>1 DEF Copy
      <4>3. \A x \in Paths : tree'[x] = tree[x] \/ x \in Wanted(asset)
        BY <2>5, <2>s, <3>1, <3>2, Copying
      <4>4. \A x \in Wanted(asset) : tree'[x] = Source[x]
        BY <2>5, <2>s, <3>1, <3>2, <4>1, Copying
      <4>5. Whole(asset)'
        BY <4>2, <4>4 DEF Whole, Wanted
      <4>6. ASSUME NEW b \in Owned(fleet) \ todo, b # asset
            PROVE  Complete(b)'
        <5>1. Complete(b)
          BY <3>1, <4>6 DEF NoLoss
        <5>2. \A x \in Under(b) : tree'[x] = tree[x]
          BY <3>1, <4>3, <4>6, <2>t, Apart DEF Under, Wanted
        <5> QED
          BY <5>1, <5>2, <4>6, <2>t, CompleteSame
      <4>7. \A b \in Owned(fleet)' \ todo' : Complete(b)'
        BY <3>1, <4>2, <4>4, <4>6 DEF Owned, Referred, Complete, Wanted
      <4> QED
        BY <4>2, <4>5, <4>7 DEF NoLoss
    <3> QED
      BY <3>3, <3>4
  <2>6. ASSUME NEW p \in Paths, Prune(p)
        PROVE  NoLoss'
    <3>1. /\ pc = "prune" /\ p \in diff.extra /\ quiet /\ UNCHANGED <<aliased, fleet>>
          /\ UNCHANGED <<pc, exit, todo, asset>>
          /\ asset \in Tops /\ p \in Under(asset) /\ ~Is(p, Source)
      BY <2>6 DEF Prune, PruneFails, Sound
    <3>2. \/ Gone(p, Entries(p))
          \/ \E g \in PartOf(p) : Gone(p, g)
      BY <2>6 DEF Prune
    <3>3. \A x \in Paths : tree'[x] # tree[x] => IsPrefixOf(p, x)
      BY <3>2, <2>s, PartOfLemma, Removing
    <3>4. ASSUME NEW x \in Paths, IsPrefixOf(p, x)
          PROVE  x \in Under(asset) /\ ~Is(x, Source)
      <4>1. x \in Under(asset)
        BY <3>1, <3>4, PrefixOrder DEF Under, Tops
      <4>2. Is(x, Source) => Is(p, Source)
        BY <3>4, StackAssumption DEF SourceAssumption, Is, Above
      <4> QED
        BY <4>1, <4>2, <3>1
    <3>5. \A x \in Paths : Is(x, Source) => tree'[x] = tree[x]
      BY <3>3, <3>4
    <3>6. Whole(asset)'
      BY <3>1, <3>5 DEF NoLoss, Whole, Wanted, Under
    <3>7. ASSUME NEW b \in Owned(fleet) \ todo, b # asset
          PROVE  Complete(b)'
      <4>1. Complete(b)
        BY <3>1, <3>7 DEF NoLoss
      <4>2. \A x \in Under(b) : tree'[x] = tree[x]
        BY <3>1, <3>3, <3>4, <3>7, <2>t, Apart DEF Under
      <4> QED
        BY <4>1, <4>2, <3>7, <2>t, CompleteSame
    <3>8. Complete(asset)'
      BY <3>1, <3>6 DEF Complete, Whole
    <3>9. \A b \in Owned(fleet)' \ todo' : Complete(b)'
      BY <3>1, <3>7, <3>8 DEF Owned, Referred
    <3> QED
      BY <3>1, <3>6, <3>9 DEF NoLoss
  <2>7. CASE NextAsset
    <3>1. /\ pc = "prune" /\ pc' = "assets" /\ quiet
          /\ UNCHANGED <<tree, outside, aliased, fleet, todo, asset, diff>>
      BY <2>7 DEF NextAsset, world
    <3>2. \A b \in Owned(fleet)' \ todo' : Complete(b)'
      BY <3>1 DEF NoLoss, Owned, Referred, Complete, Links
    <3> QED
      BY <3>1, <3>2 DEF NoLoss
  <2>8. CASE Finish
    <3>1. /\ pc = "assets" /\ todo = {} /\ pc' = "idle" /\ quiet
          /\ UNCHANGED <<tree, outside, aliased, fleet>>
      BY <2>8 DEF Finish, world
    <3>2. \A b \in Owned(fleet) : Complete(b)
      BY <3>1 DEF NoLoss
    <3>3. \A b \in Owned(fleet)' : Complete(b)'
      BY <3>1, <3>2 DEF Owned, Referred, Complete, Links
    <3> QED
      BY <3>1, <3>3 DEF NoLoss, FailuresCostNoAsset
  <2>9. ASSUME Others, ~Resettle
        PROVE  FALSE
    BY <2>9 DEF Others, Kill, Edit, EditFile, Alias
  <2>10. CASE Resettle \/ UNCHANGED vars
    <3>1. UNCHANGED <<tree, outside, aliased, stuck, pc, fleet, todo, asset, diff, exit, failed, quiet>>
      BY <2>10 DEF Resettle, vars
    <3>2. quiet /\ NoLoss
      BY <3>1
    <3>3. \A b : Complete(b)' = Complete(b)
      BY <3>1 DEF Complete, Links
    <3>4. Owned(fleet)' = Owned(fleet)
      BY <3>1 DEF Owned, Referred
    <3>5. FailuresCostNoAsset => FailuresCostNoAsset'
      BY <3>1, <3>3, <3>4 DEF FailuresCostNoAsset, Is, Retyped, Looks, Through, Entries, Beyond
    <3>6. Whole(asset) => Whole(asset)'
      BY <3>1 DEF Whole
    <3> QED
      BY <3>1, <3>2, <3>3, <3>4, <3>5, <3>6 DEF NoLoss
  <2>11. CASE (\E f \in Files : WriteFails(f)) \/ \E a \in Paths : CompareFails(a)
    <3>1. Died /\ failed'
      BY <2>11 DEF WriteFails, CompareFails, Fails
    <3> QED
      BY <3>1 DEF Died, NoLoss, FailuresCostNoAsset
  <2> QED
    BY <2>1, <2>2, <2>3, <2>4, <2>5, <2>6, <2>7, <2>8, <2>9, <2>10, <2>11 DEF Next, Run
<1> QED
  BY <1>1, <1>2, <1>3, TypeCorrect, AloneKept, PTL DEF Spec

(* What cannot be pruned costs no asset its files, and a run that does not  *)
(* come to its end was ended by a failure or a stuck entry.                 *)
THEOREM FailuresAreContained == Spec => []FailuresCostNoAsset
<1>1. (exit # "none" => pc = "idle") /\ (quiet => NoLoss) => FailuresCostNoAsset
  BY DEF NoLoss, FailuresCostNoAsset
<1> QED
  BY <1>1, NoLossKept, PTL
=============================================================================
