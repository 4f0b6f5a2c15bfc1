------------------------- MODULE FleetStart_proofs -------------------------
(* Proofs about FleetStart, for fleets of any size, any profiles and any   *)
(* number of crashes: what plan() accepts is laid out as it must be, and no *)
(* order of starts, health checks and registrations breaks what the files  *)
(* promised. The first part is arithmetic and sequences: how devices are   *)
(* numbered, named and put in order. Of the second part the core is Mesh,  *)
(* while nothing dies, and Alive, whatever dies.                           *)
EXTENDS FleetStart, FiniteSetTheorems, SequenceTheorems, WellFoundedInduction, TLAPS

---------------------------------------------------------------------------
(* Rows and places.                                                        *)

(* What a quotient and a remainder are, and that nothing else is.          *)
LEMMA QuotientIs ==
  ASSUME NEW a \in Int, NEW b \in Int, b > 0, NEW q, q = a \div b, NEW r, r = a % b
  PROVE  q \in Int /\ r \in 0..(b - 1) /\ a = b * q + r
  OBVIOUS

LEMMA DivModIs ==
  ASSUME NEW b \in Int, b > 0, NEW q \in Int, NEW r \in 0..(b - 1)
  PROVE  (q * b + r) \div b = q /\ (q * b + r) % b = r
<1> DEFINE a == q * b + r
<1>1. a \in Int
  OBVIOUS
<1>2. PICK u \in Int : u = a \div b
  BY <1>1
<1>3. PICK v \in 0..(b - 1) : v = a % b
  BY <1>1
<1>4. a = b * u + v
  BY <1>1, <1>2, <1>3, QuotientIs
<1>5. u = q /\ v = r
  <2>1. CASE u > q
    <3>1. b * (u - q) >= b /\ b * (u - q) = b * u - b * q
      BY <2>1
    <3> QED BY <3>1, <1>4
  <2>2. CASE u < q
    <3>1. b * (q - u) >= b /\ b * (q - u) = b * q - b * u
      BY <2>2
    <3> QED BY <3>1, <1>4
  <2> QED BY <2>1, <2>2, <1>4
<1> QED BY <1>2, <1>3, <1>5

(* Places in rows of one length, numbered through.                         *)
LEMMA RowAt ==
  ASSUME NEW c \in Nat, NEW per \in Int, NEW o \in 1..(c * per)
  PROVE  \E n \in 1..c, d \in 1..per : /\ o = (n - 1) * per + d
                                       /\ (o - 1) \div per = n - 1 /\ (o - 1) % per = d - 1
<1>1. c * per >= 1 /\ per >= 1 /\ c \in Nat /\ o \in Int /\ o >= 1 /\ o <= c * per
  <2>1. c \in Nat /\ o \in Int /\ o >= 1 /\ o <= c * per /\ c * per \in Int
    OBVIOUS
  <2> QED BY <2>1
<1>2. PICK q \in Int : q = (o - 1) \div per
  BY <1>1
<1>3. PICK r \in 0..(per - 1) : r = (o - 1) % per
  BY <1>1
<1>4. o - 1 = per * q + r
  BY <1>1, <1>2, <1>3, QuotientIs
<1>5. q >= 0
  <2> SUFFICES ASSUME q <= -1 PROVE FALSE
    OBVIOUS
  <2>1. per * q <= -per
    BY <1>1
  <2> QED BY <2>1, <1>1, <1>4
<1>6. q < c
  <2> SUFFICES ASSUME q >= c PROVE FALSE
    BY <1>1
  <2>1. per * q >= c * per
    BY <1>1
  <2> QED BY <2>1, <1>1, <1>4
<1>7. /\ q + 1 \in 1..c /\ r + 1 \in 1..per
      /\ o = ((q + 1) - 1) * per + (r + 1) /\ q = (q + 1) - 1 /\ r = (r + 1) - 1
  BY <1>1, <1>4, <1>5, <1>6
<1> QED BY <1>2, <1>3, <1>7

(* A place tells its row and its place there.                              *)
LEMMA RowOf ==
  ASSUME NEW c \in Nat, NEW per \in Int, NEW n \in 1..c, NEW d \in 1..per
  PROVE  /\ (n - 1) * per + d \in 1..(c * per)
         /\ ((n - 1) * per + d - 1) \div per = n - 1 /\ ((n - 1) * per + d - 1) % per = d - 1
<1> DEFINE o == (n - 1) * per + d
<1>1. n \in Int /\ 1 <= n /\ n <= c /\ d \in Int /\ 1 <= d /\ d <= per
  OBVIOUS
<1>2. (n - 1) * per >= 0 /\ (n - 1) * per + per = n * per /\ n * per <= c * per
      /\ (n - 1) * per \in Int /\ n * per \in Int /\ c * per \in Int
  BY <1>1
<1>3. o \in 1..(c * per)
  BY <1>1, <1>2
<1>4. o - 1 = (n - 1) * per + (d - 1) /\ d - 1 \in 0..(per - 1) /\ per > 0 /\ n - 1 \in Int
  BY <1>1, <1>2
<1>5. (o - 1) \div per = n - 1 /\ (o - 1) % per = d - 1
  <2> HIDE DEF o
  <2> QED BY <1>4, DivModIs
<1> QED BY <1>3, <1>5

Placed(o, c, per) == \E n \in 1..c, d \in 1..per : o = (n - 1) * per + d

(* Every place is one in some row.                                         *)
LEMMA PlacedIs ==
  ASSUME NEW c \in Nat, NEW per \in Int, NEW o, o \in 1..(c * per)
  PROVE  Placed(o, c, per)
  BY RowAt DEF Placed

(* Rows that fit are counted by the quotient.                              *)
LEMMA FullRows ==
  ASSUME NEW k \in Int, NEW w \in Int, w > 0, NEW g \in Int, g >= 1, g * w <= k
  PROVE  g \in 1..(k \div w)
<1>1. PICK q \in Int : q = k \div w
  OBVIOUS
<1>2. PICK r \in 0..(w - 1) : r = k % w
  OBVIOUS
<1>3. k = w * q + r
  BY <1>1, <1>2, QuotientIs
<1>4. g <= q
  <2> SUFFICES ASSUME q <= g - 1 PROVE FALSE
    OBVIOUS
  <2>1. w * q <= w * (g - 1) /\ w * (g - 1) = w * g - w /\ w * g = g * w
    OBVIOUS
  <2> QED BY <1>3, <2>1
<1> QED BY <1>1, <1>4

---------------------------------------------------------------------------
(* Finite sets.                                                            *)
(* The values of a function on a finite set are finitely many, ...         *)
LEMMA ImageFinite ==
  ASSUME NEW S, IsFiniteSet(S), NEW f
  PROVE  IsFiniteSet({f[x] : x \in S})
<1> DEFINE T == {f[x] : x \in S}
           g == [x \in S |-> f[x]]
<1>1. g \in Surjection(S, T)
  BY DEF Surjection
<1> HIDE DEF g, T
<1>2. IsFiniteSet(T)
  BY <1>1, FS_Surjection
<1> QED BY <1>2 DEF T

(* ... as many as there are arguments if no two share one.                 *)
LEMMA ImageCard ==
  ASSUME NEW S, IsFiniteSet(S), NEW f, \A x, y \in S : f[x] = f[y] => x = y
  PROVE  Cardinality({f[x] : x \in S}) = Cardinality(S)
<1> DEFINE T == {f[x] : x \in S}
           g == [x \in S |-> f[x]]
<1>1. g \in Surjection(S, T)
  BY DEF Surjection
<1>2. g \in Injection(S, T)
  BY DEF Injection, IsInjective
<1> HIDE DEF g, T
<1>3. Cardinality(T) = Cardinality(S)
  BY <1>1, <1>2, FS_Surjection
<1> QED BY <1>3 DEF T

---------------------------------------------------------------------------
(* A sequence of n values, the part of a sequence from one place on, and    *)
(* two sequences put one after the other.                                  *)
SeqOver(X, f, n) == f \in Seq(X) /\ Len(f) = n
From(c, m, l, t) == \A i \in 1..l : t[i] = c[m + i]
IsBoth(r, f, t) == r = f \o t

(* A function on 1..n is a sequence; a part of a sequence, two in a row.   *)
LEMMA FunIsSeq ==
  ASSUME NEW X, NEW n \in Nat, NEW f \in [1..n -> X]
  PROVE  SeqOver(X, f, n)
  BY DEF SeqOver

LEMMA PartIs ==
  ASSUME NEW X, NEW c, NEW n \in Nat, SeqOver(X, c, n), NEW m \in Nat, NEW l \in Nat, m + l <= n,
         NEW k, k = m + l, NEW t, t = SubSeq(c, m + 1, k)
  PROVE  SeqOver(X, t, l) /\ From(c, m, l, t)
<1>1. c \in Seq(X) /\ Len(c) = n /\ m + 1 \in Int /\ k \in Int /\ k - (m + 1) + 1 = l
      /\ (IF m + 1 <= k THEN k - (m + 1) + 1 ELSE 0) = l
  BY DEF SeqOver
<1>2. \A i \in (m + 1)..k : c[i] \in X
  BY <1>1
<1>3. /\ SubSeq(c, m + 1, k) \in Seq(X)
      /\ Len(SubSeq(c, m + 1, k)) = IF m + 1 <= k THEN k - (m + 1) + 1 ELSE 0
      /\ \A i \in 1..(k - (m + 1) + 1) : SubSeq(c, m + 1, k)[i] = c[(m + 1) + i - 1]
  BY <1>1, <1>2, SubSeqProperties
<1>4. \A i \in 1..l : (m + 1) + i - 1 = m + i
  OBVIOUS
<1>5. t \in Seq(X) /\ Len(t) = l /\ \A i \in 1..l : t[i] = c[m + i]
  BY <1>1, <1>3, <1>4, Zenon
<1> QED BY <1>5 DEF SeqOver, From

LEMMA Both ==
  ASSUME NEW X, NEW f, NEW t, NEW l \in Nat, NEW k \in Nat, SeqOver(X, f, l), SeqOver(X, t, k),
         NEW r, IsBoth(r, f, t)
  PROVE  SeqOver(X, r, l + k) /\ From(r, 0, l, f) /\ From(r, l, k, t)
<1>1. f \in Seq(X) /\ t \in Seq(X) /\ Len(f) = l /\ Len(t) = k /\ r = f \o t
  BY DEF SeqOver, IsBoth
<1>2. r \in Seq(X) /\ Len(r) = l + k
  <2>1. f \o t \in Seq(X) /\ Len(f \o t) = Len(f) + Len(t)
    BY <1>1, ConcatProperties
  <2> QED BY <1>1, <2>1, Zenon
<1>3. ASSUME NEW i \in 1..l PROVE f[i] = r[0 + i]
  <2>1. (f \o t)[i] = f[i]
    BY <1>1
  <2>2. 0 + i = i
    OBVIOUS
  <2> QED BY <1>1, <2>1, <2>2, Zenon
<1>4. ASSUME NEW i \in 1..k PROVE t[i] = r[l + i]
  BY <1>1
<1> QED BY <1>2, <1>3, <1>4 DEF SeqOver, From

Places(la, lb, m) ==
    /\ m \in Nat /\ m <= la /\ m <= lb /\ 2 * m \in Nat /\ la - m \in Nat /\ lb - m \in Nat
    /\ 2 * m + (la - m) = m + la /\ (m + la) + (lb - m) = la + lb /\ m + la \in Nat
    /\ \A i \in 1..m : /\ 2 * i - 1 \in 1..(2 * m) /\ 2 * i \in 1..(2 * m)
                       /\ 0 + (2 * i - 1) = 2 * i - 1 /\ 0 + 2 * i = 2 * i
                       /\ (2 * i - 1) % 2 = 1 /\ (2 * i) % 2 # 1
                       /\ (2 * i - 1 + 1) \div 2 = i /\ (2 * i) \div 2 = i
    /\ \A i \in 1..(2 * m) : /\ i \in 1..(m + la) /\ 0 + i = i
                             /\ IF i % 2 = 1 THEN (i + 1) \div 2 \in 1..m ELSE i \div 2 \in 1..m
    /\ \A i \in 1..m : i \in 1..la /\ i \in 1..lb
    /\ \A i \in (m + 1)..la : i - m \in 1..(la - m) /\ m + (i - m) = i /\ 2 * m + (i - m) = m + i
                             /\ m + i \in 1..(m + la) /\ 0 + (m + i) = m + i
    /\ \A i \in (m + 1)..lb : i - m \in 1..(lb - m) /\ m + (i - m) = i /\ (m + la) + (i - m) = la + i

(* The arithmetic of taking turns.                                         *)
LEMMA RoundRobinPlaces ==
  ASSUME NEW la \in Nat, NEW lb \in Nat, NEW m, m = IF la < lb THEN la ELSE lb
  PROVE  Places(la, lb, m)
  BY DEF Places

(* One of each, and what is left of either.                                *)
LEMMA RoundRobinIs ==
  ASSUME NEW X, NEW a, NEW b, NEW la \in Nat, NEW lb \in Nat, SeqOver(X, a, la), SeqOver(X, b, lb),
         NEW m, m = IF la < lb THEN la ELSE lb
  PROVE  /\ SeqOver(X, RoundRobin(a, b), la + lb)
         /\ \A i \in 1..m : RoundRobin(a, b)[2 * i - 1] = a[i] /\ RoundRobin(a, b)[2 * i] = b[i]
         /\ \A i \in (m + 1)..la : RoundRobin(a, b)[m + i] = a[i]
         /\ \A i \in (m + 1)..lb : RoundRobin(a, b)[la + i] = b[i]
<1> DEFINE f == [i \in 1..(2 * m) |-> IF i % 2 = 1 THEN a[(i + 1) \div 2] ELSE b[i \div 2]]
           ta == SubSeq(a, m + 1, la)
           tb == SubSeq(b, m + 1, lb)
           g == f \o ta
           r == g \o tb
           ka == la - m
           kb == lb - m
           kf == 2 * m
           kg == m + la
<1>0. Places(la, lb, m)
  BY RoundRobinPlaces
<1>1. /\ m \in Nat /\ m <= la /\ m <= lb /\ kf \in Nat /\ ka \in Nat /\ kb \in Nat
      /\ kf + ka = kg /\ kg + kb = la + lb /\ kg \in Nat
  BY <1>0 DEF Places
<1>2. \A i \in 1..m : /\ 2 * i - 1 \in 1..kf /\ 2 * i \in 1..kf
                      /\ 0 + (2 * i - 1) = 2 * i - 1 /\ 0 + 2 * i = 2 * i
                      /\ (2 * i - 1) % 2 = 1 /\ (2 * i) % 2 # 1
                      /\ (2 * i - 1 + 1) \div 2 = i /\ (2 * i) \div 2 = i
  BY <1>0 DEF Places
<1>3. \A i \in 1..kf : /\ i \in 1..kg /\ 0 + i = i
                       /\ IF i % 2 = 1 THEN (i + 1) \div 2 \in 1..m ELSE i \div 2 \in 1..m
  BY <1>0 DEF Places
<1>4. /\ \A i \in 1..m : i \in 1..la /\ i \in 1..lb
      /\ \A i \in (m + 1)..la : i - m \in 1..ka /\ m + (i - m) = i /\ kf + (i - m) = m + i
                               /\ m + i \in 1..kg /\ 0 + (m + i) = m + i
      /\ \A i \in (m + 1)..lb : i - m \in 1..kb /\ m + (i - m) = i /\ kg + (i - m) = la + i
  BY <1>0 DEF Places
<1>5. (\A i \in 1..la : a[i] \in X) /\ (\A i \in 1..lb : b[i] \in X)
  BY DEF SeqOver
<1>6. /\ RoundRobin(a, b) = r /\ IsBoth(g, f, ta) /\ IsBoth(r, g, tb)
      /\ ta = SubSeq(a, m + 1, la) /\ tb = SubSeq(b, m + 1, lb) /\ la = m + ka /\ lb = m + kb
      /\ m + ka <= la /\ m + kb <= lb
  <2>1. Len(a) = la /\ Len(b) = lb
    BY DEF SeqOver
  <2>2. la = m + ka /\ lb = m + kb /\ m + ka <= la /\ m + kb <= lb
    BY <1>1
  <2> QED BY <2>1, <2>2 DEF RoundRobin, IsBoth
<1>7. f = [i \in 1..kf |-> f[i]]
  OBVIOUS
<1>8. ASSUME NEW i \in 1..kf PROVE f[i] = IF i % 2 = 1 THEN a[(i + 1) \div 2] ELSE b[i \div 2]
  OBVIOUS
<1> HIDE DEF f, ta, tb, ka, kb, kf, kg, g, r
<1>9. f \in [1..kf -> X]
  <2>1. ASSUME NEW i \in 1..kf PROVE f[i] \in X
    <3>1. CASE i % 2 = 1
      <4>1. (i + 1) \div 2 \in 1..la
        BY <1>3, <1>4, <3>1
      <4> QED BY <1>5, <1>8, <3>1, <4>1
    <3>2. CASE i % 2 # 1
      <4>1. i \div 2 \in 1..lb
        BY <1>3, <1>4, <3>2
      <4> QED BY <1>5, <1>8, <3>2, <4>1
    <3> QED BY <3>1, <3>2
  <2> QED BY <1>7, <2>1, Zenon
<1>10. SeqOver(X, f, kf)
  BY <1>1, <1>9, FunIsSeq
<1>11. SeqOver(X, ta, ka) /\ From(a, m, ka, ta) /\ SeqOver(X, tb, kb) /\ From(b, m, kb, tb)
  BY <1>1, <1>6, PartIs
<1>12. SeqOver(X, g, kg) /\ From(g, 0, kf, f) /\ From(g, kf, ka, ta)
  <2>1. SeqOver(X, g, kf + ka) /\ From(g, 0, kf, f) /\ From(g, kf, ka, ta)
    BY <1>1, <1>6, <1>10, <1>11, Both
  <2> QED BY <2>1, <1>1
<1>13. SeqOver(X, r, la + lb) /\ From(r, 0, kg, g) /\ From(r, kg, kb, tb)
  <2>1. SeqOver(X, r, kg + kb) /\ From(r, 0, kg, g) /\ From(r, kg, kb, tb)
    BY <1>1, <1>6, <1>11, <1>12, Both
  <2> QED BY <2>1, <1>1
<1>14. ASSUME NEW i \in 1..m PROVE r[2 * i - 1] = a[i] /\ r[2 * i] = b[i]
  <2> DEFINE j == 2 * i - 1
             k == 2 * i
  <2>1. /\ j \in 1..kf /\ k \in 1..kf /\ j \in 1..kg /\ k \in 1..kg /\ 0 + j = j /\ 0 + k = k
        /\ j % 2 = 1 /\ k % 2 # 1 /\ (j + 1) \div 2 = i /\ k \div 2 = i
    BY <1>2, <1>3
  <2> HIDE DEF j, k
  <2>2. f[j] = a[i] /\ f[k] = b[i]
    BY <1>8, <2>1
  <2>3. r[j] = f[j] /\ r[k] = f[k]
    <3>1. f[j] = g[0 + j] /\ f[k] = g[0 + k] /\ g[j] = r[0 + j] /\ g[k] = r[0 + k]
      BY <1>12, <1>13, <2>1, Zenon DEF From
    <3> QED BY <2>1, <3>1
  <2> QED BY <2>2, <2>3 DEF j, k
<1>15. ASSUME NEW i \in (m + 1)..la PROVE r[m + i] = a[i]
  <2> DEFINE j == i - m
             k == m + i
  <2>1. j \in 1..ka /\ m + j = i /\ kf + j = k /\ k \in 1..kg /\ 0 + k = k
    BY <1>4
  <2> HIDE DEF j, k
  <2>2. ta[j] = a[m + j] /\ ta[j] = g[kf + j] /\ g[k] = r[0 + k]
    BY <1>11, <1>12, <1>13, <2>1, Zenon DEF From
  <2> QED BY <2>1, <2>2 DEF k
<1>16. ASSUME NEW i \in (m + 1)..lb PROVE r[la + i] = b[i]
  <2> DEFINE j == i - m
  <2>1. j \in 1..kb /\ m + j = i /\ kg + j = la + i
    BY <1>4
  <2> HIDE DEF j
  <2>2. tb[j] = b[m + j] /\ tb[j] = r[kg + j]
    BY <1>11, <1>13, <2>1, Zenon DEF From
  <2> QED BY <2>1, <2>2
<1> QED BY <1>6, <1>13, <1>14, <1>15, <1>16

(* Rows of one length, one after the other.                                *)
Flat(ss, w, i) == [j \in 1..(i * w) |-> ss[(j - 1) \div w + 1][((j - 1) % w) + 1]]
AreRows(X, ss, n, w) == \A g \in 1..n : SeqOver(X, ss[g], w)
FlatHolds(f, ss, w, i) == \A g \in 1..i, e \in 1..w : f[(g - 1) * w + e] = ss[g][e]

(* Rows one after the other, as a function of the place, ...               *)
LEMMA FlatAt ==
  ASSUME NEW X, NEW n \in Nat, NEW w \in Nat, NEW ss, AreRows(X, ss, n, w), NEW i \in 0..n
  PROVE  SeqOver(X, Flat(ss, w, i), i * w) /\ FlatHolds(Flat(ss, w, i), ss, w, i)
<1> DEFINE f == Flat(ss, w, i)
           k == i * w
<1>1. i \in Nat /\ k \in Nat /\ w \in Int /\ \A g \in 1..i : g \in 1..n
  BY DEF k
<1>2. f = [j \in 1..k |-> f[j]] /\ \A j \in 1..k : f[j] = ss[(j - 1) \div w + 1][((j - 1) % w) + 1]
  BY DEF Flat
<1> HIDE DEF f
<1>3. ASSUME NEW g \in 1..i, NEW e \in 1..w
      PROVE  f[(g - 1) * w + e] = ss[g][e]
  <2> DEFINE j == (g - 1) * w + e
  <2>1. j \in 1..k /\ (j - 1) \div w = g - 1 /\ (j - 1) % w = e - 1
    BY <1>1, RowOf
  <2>2. g - 1 + 1 = g /\ e - 1 + 1 = e
    OBVIOUS
  <2> HIDE DEF j, k
  <2>3. f[j] = ss[g][e]
    BY <1>2, <2>1, <2>2, Zenon
  <2> QED BY <2>3 DEF j
<1>4. ASSUME NEW j \in 1..k
      PROVE  f[j] \in X
  <2>1. PICK g \in 1..i, e \in 1..w : j = (g - 1) * w + e
    BY <1>1, RowAt
  <2>2. f[j] = ss[g][e]
    BY <1>3, <2>1
  <2>3. SeqOver(X, ss[g], w)
    BY <1>1 DEF AreRows
  <2> QED BY <2>2, <2>3 DEF SeqOver
<1> HIDE DEF k
<1>5. f \in [1..k -> X]
  BY <1>2, <1>4, Zenon
<1>6. SeqOver(X, f, k)
  BY <1>1, <1>5, FunIsSeq
<1> QED BY <1>3, <1>6 DEF f, k, FlatHolds

(* ... are what is there after one row fewer, and the last row.            *)
LEMMA FlatStep ==
  ASSUME NEW X, NEW n \in Nat, NEW w \in Nat, NEW ss, AreRows(X, ss, n, w), NEW i \in 1..n
  PROVE  IsBoth(Flat(ss, w, i), Flat(ss, w, i - 1), ss[i])
<1> DEFINE p == i - 1
           f == Flat(ss, w, i)
           h == Flat(ss, w, p)
           t == ss[i]
           r == h \o t
           kp == p * w
           k == i * w
<1>1. i \in 0..n /\ p \in 0..n /\ kp \in Nat /\ k = kp + w /\ p \in Nat /\ i \in Nat /\ k \in Nat
      /\ \A g \in 1..i : g = i \/ g \in 1..p
  OBVIOUS
<1>2. IsBoth(r, h, t)
  BY DEF IsBoth
<1> HIDE DEF f, h, t, r, p, kp, k
<1>3. SeqOver(X, f, k) /\ FlatHolds(f, ss, w, i) /\ SeqOver(X, h, kp) /\ FlatHolds(h, ss, w, p)
  BY <1>1, FlatAt DEF f, h, k, kp
<1>4. SeqOver(X, t, w)
  BY DEF t, AreRows
<1>5. SeqOver(X, r, kp + w) /\ From(r, 0, kp, h) /\ From(r, kp, w, t)
  BY <1>1, <1>2, <1>3, <1>4, Both
<1>6. ASSUME NEW j \in 1..k PROVE f[j] = r[j]
  <2>1. PICK g \in 1..i, e \in 1..w : j = (g - 1) * w + e
    <3>1. j \in 1..(i * w) /\ w \in Int
      BY DEF k
    <3> QED BY <1>1, <3>1, RowAt
  <2>2. f[j] = ss[g][e]
    BY <1>3, <2>1 DEF FlatHolds
  <2>3. CASE g \in 1..p
    <3>1. j \in 1..kp
      BY <1>1, <2>1, <2>3, RowOf DEF kp
    <3>2. h[j] = ss[g][e]
      BY <1>3, <2>1, <2>3 DEF FlatHolds
    <3>3. 0 + j = j
      BY <3>1, <1>1
    <3>4. h[j] = r[0 + j]
      BY <1>5, <3>1 DEF From
    <3> QED BY <2>2, <3>2, <3>3, <3>4
  <2>4. CASE g = i
    <3>1. r[kp + e] = t[e]
      BY <1>5 DEF From
    <3>2. kp + e = j
      BY <2>1, <2>4 DEF kp, p
    <3> QED BY <2>2, <2>4, <3>1, <3>2 DEF t
  <2> QED BY <1>1, <2>3, <2>4
<1>7. f = r
  <2>1. f \in Seq(X) /\ r \in Seq(X) /\ Len(f) = k /\ Len(r) = k
    BY <1>1, <1>3, <1>5 DEF SeqOver
  <2>2. \A j \in 1..Len(f) : f[j] = r[j]
    BY <1>6, <2>1
  <2> QED BY <2>1, <2>2, SeqEqual
<1> QED BY <1>7 DEF f, r, h, t, p, IsBoth

IsFlat(ss, h) == h = [i \in 1..Len(ss) |-> IF i = 1 THEN ss[i] ELSE h[i - 1] \o ss[i]]

(* FlattenSeq is defined by recursion: it takes the function the           *)
(* recursion chooses, and there is one, the rows as a function of the      *)
(* place; the least place where another differed would have no reason to.  *)
LEMMA FlattenIsChosen ==
  ASSUME NEW ss, Len(ss) # 0
  PROVE  FlattenSeq(ss) = (CHOOSE h : IsFlat(ss, h))[Len(ss)]
  BY DEF FlattenSeq, IsFlat

LEMMA FlattenIs ==
  ASSUME NEW X, NEW n \in Nat \ {0}, NEW w \in Nat, NEW ss, Len(ss) = n, AreRows(X, ss, n, w)
  PROVE  SeqOver(X, FlattenSeq(ss), n * w) /\ FlatHolds(FlattenSeq(ss), ss, w, n)
<1> DEFINE h == CHOOSE g : IsFlat(ss, g)
           v == [i \in 1..n |-> Flat(ss, w, i)]
<1>1. n \in Nat
  OBVIOUS
<1>2. Flat(ss, w, 1) = ss[1]
  <2> DEFINE f == Flat(ss, w, 1)
             t == ss[1]
  <2>1. 1 \in 1..n /\ 1 \in 0..n /\ 1 * w = w /\ 1 \in 1..1 /\ (1 - 1) * w = 0
    OBVIOUS
  <2>2. SeqOver(X, f, 1 * w) /\ FlatHolds(f, ss, w, 1)
    BY <2>1, FlatAt
  <2> HIDE DEF f
  <2>3. SeqOver(X, t, w)
    BY <2>1 DEF AreRows
  <2>4. ASSUME NEW e \in 1..w PROVE f[e] = t[e]
    <3>1. f[(1 - 1) * w + e] = ss[1][e]
      BY <2>1, <2>2 DEF FlatHolds
    <3>2. (1 - 1) * w + e = e
      OBVIOUS
    <3> QED BY <3>1, <3>2
  <2>5. f \in Seq(X) /\ t \in Seq(X) /\ Len(f) = Len(t) /\ Len(f) = w
    BY <2>1, <2>2, <2>3 DEF SeqOver
  <2> HIDE DEF t
  <2>6. f = t
    BY <2>4, <2>5, SeqEqual
  <2> QED BY <2>6 DEF f, t
<1>3. \A i \in 1..n : Flat(ss, w, i) = Flat(ss, w, i - 1) \o ss[i]
  <2>1. \A i \in 1..n : IsBoth(Flat(ss, w, i), Flat(ss, w, i - 1), ss[i])
    BY <1>1, FlatStep
  <2> QED BY <2>1, Zenon DEF IsBoth
<1>4. IsFlat(ss, v)
  <2>1. ASSUME NEW i \in 1..n
        PROVE  v[i] = IF i = 1 THEN ss[i] ELSE v[i - 1] \o ss[i]
    <3>1. CASE i = 1
      BY <1>2, <3>1
    <3>2. CASE i # 1
      <4>1. i - 1 \in 1..n
        BY <3>2
      <4>2. v[i] = Flat(ss, w, i) /\ v[i - 1] = Flat(ss, w, i - 1)
        BY <4>1
      <4> HIDE DEF v
      <4> QED BY <1>3, <3>2, <4>2
    <3> QED BY <3>1, <3>2
  <2>2. v = [i \in 1..n |-> v[i]]
    OBVIOUS
  <2> HIDE DEF v
  <2> QED BY <2>1, <2>2 DEF IsFlat
<1>5. IsFlat(ss, h)
  <2> HIDE DEF v
  <2> QED BY <1>4
<1>6. \A i \in 1..n : v[i] = Flat(ss, w, i)
  OBVIOUS
<1> HIDE DEF h, v
<1>7. \A i \in 1..n : h[i] = IF i = 1 THEN ss[i] ELSE h[i - 1] \o ss[i]
  BY <1>5 DEF IsFlat
<1> DEFINE Wrong == {i \in 1..n : h[i] # Flat(ss, w, i)}
           R == OpToRel(<, Nat)
<1>8. Wrong = {}
  <2> SUFFICES ASSUME Wrong # {} PROVE FALSE
    OBVIOUS
  <2>1. PICK m \in Wrong : \A k \in Wrong : <<k, m>> \notin R
    <3>1. IsWellFoundedOn(R, Nat)
      BY NatLessThanWellFounded
    <3>2. Wrong \subseteq Nat
      OBVIOUS
    <3> HIDE DEF R, Wrong
    <3> QED BY <3>1, <3>2, WFMin
  <2>2. m \in 1..n /\ h[m] # Flat(ss, w, m)
    OBVIOUS
  <2>3. CASE m = 1
    BY <1>2, <1>7, <2>2, <2>3
  <2>4. CASE m # 1
    <3> DEFINE p == m - 1
    <3>1. p \in 1..n /\ p < m /\ p \in Nat /\ m \in Nat
      BY <2>2, <2>4
    <3>2. <<p, m>> \in R
      BY <3>1 DEF OpToRel
    <3>3. h[p] = Flat(ss, w, p)
      BY <2>1, <3>1, <3>2
    <3>4. h[m] = h[p] \o ss[m]
      BY <1>7, <2>2, <2>4
    <3>5. Flat(ss, w, m) = Flat(ss, w, p) \o ss[m]
      BY <1>3, <2>2
    <3> QED BY <2>2, <3>3, <3>4, <3>5
  <2> QED BY <2>3, <2>4
<1>9. FlattenSeq(ss) = h[n]
  BY FlattenIsChosen DEF h
<1>10. n \in 1..n /\ n \in 0..n
  OBVIOUS
<1>11. h[n] = Flat(ss, w, n)
  BY <1>8, <1>10
<1> QED BY <1>9, <1>10, <1>11, FlatAt

(* A GPU with its NICs before it, GPU by GPU; then the NICs left over.     *)
Group(r, nics, gpus, per, g) ==
    /\ \A e \in 1..per : r[(g - 1) * (per + 1) + e] = nics[(g - 1) * per + e]
    /\ r[(g - 1) * (per + 1) + (per + 1)] = gpus[g]
Groups(r, nics, gpus, per, lg) == \A g \in 1..lg : Group(r, nics, gpus, per, g)
Left(r, nics, lg, per, ln) == \A i \in (lg * per + 1)..ln : r[lg + i] = nics[i]

IsAppend(r, c, x) == r = Append(c, x)
Appended(X, r, c, n, x) ==
    SeqOver(X, r, n + 1) /\ r[n + 1] = x /\ \A i \in 1..n : r[i] = c[i]

(* One value more.                                                         *)
LEMMA AppendIs ==
  ASSUME NEW X, NEW c, NEW n \in Nat, SeqOver(X, c, n), NEW x \in X, NEW r, IsAppend(r, c, x)
  PROVE  Appended(X, r, c, n, x)
<1>1. c \in Seq(X) /\ Len(c) = n
  BY DEF SeqOver
<1>2. Append(c, x) \in Seq(X) /\ Len(Append(c, x)) = n + 1
  BY <1>1
<1>3. Append(c, x)[n + 1] = x
  BY <1>1
<1>4. \A i \in 1..n : Append(c, x)[i] = c[i]
  BY <1>1
<1>5. SeqOver(X, Append(c, x), n + 1)
  BY <1>2 DEF SeqOver
<1> QED BY <1>3, <1>4, <1>5 DEF Appended, IsAppend

(* Groups of two NICs or more, as the code slices them, ...                *)
LEMMA GroupedMany ==
  ASSUME NEW X, NEW nics, NEW ln \in Nat, SeqOver(X, nics, ln), NEW gpus, NEW lg \in Nat, lg >= 1, SeqOver(X, gpus, lg),
         NEW per \in Nat, per >= 2, lg * per <= ln
  PROVE  LET r == GroupSocksForSwitches(nics, gpus, per)
         IN  SeqOver(X, r, ln + lg) /\ Groups(r, nics, gpus, per, lg) /\ Left(r, nics, lg, per, ln)
<1> DEFINE w == per + 1
           m == lg * per
           ss == [i \in 1..lg |-> Append(SubSeq(nics, (i - 1) * per + 1, i * per), gpus[i])]
           f == FlattenSeq(ss)
           t == SubSeq(nics, m + 1, ln)
           r == f \o t
           lf == lg * w
           lt == ln - m
<1>1. /\ w \in Nat /\ m \in Nat /\ m <= ln /\ lf \in Nat /\ lt \in Nat /\ lf = m + lg /\ lf + lt = ln + lg
      /\ lg \in Nat
      /\ \A i \in 1..lg : i * per <= m /\ i * per \in Nat /\ (i - 1) * per \in Nat
                         /\ i * per = (i - 1) * per + per
  OBVIOUS
<1>2. GroupSocksForSwitches(nics, gpus, per) = r
  <2> DEFINE End(i) == IF i * per > Len(nics) THEN Len(nics) ELSE i * per
  <2>1. Len(nics) = ln /\ Len(gpus) = lg
    BY DEF SeqOver
  <2>2. \A i \in 1..lg : End(i) = i * per
    BY <1>1, <2>1
  <2>3. ss = [i \in 1..lg |-> Append(SubSeq(nics, (i - 1) * per + 1, End(i)), gpus[i])]
    <3> HIDE DEF End
    <3> QED BY <2>2
  <2>4. ~(per <= 1)
    OBVIOUS
  <2> HIDE DEF ss
  <2> QED BY <2>1, <2>3, <2>4 DEF GroupSocksForSwitches
<1>3. Len(ss) = lg /\ \A i \in 1..lg : ss[i] = Append(SubSeq(nics, (i - 1) * per + 1, i * per), gpus[i])
  OBVIOUS
<1>4. IsBoth(r, f, t)
  BY DEF IsBoth
<1> HIDE DEF ss, f, t, r
<1>5. ASSUME NEW i \in 1..lg
      PROVE  /\ SeqOver(X, ss[i], w) /\ ss[i][w] = gpus[i]
             /\ \A e \in 1..per : ss[i][e] = nics[(i - 1) * per + e]
  <2> DEFINE a == (i - 1) * per
             b == i * per
             c == SubSeq(nics, a + 1, b)
  <2>1. a \in Nat /\ b = a + per /\ a + per <= ln
    BY <1>1
  <2>2. gpus[i] \in X
    BY DEF SeqOver
  <2>3. c = SubSeq(nics, a + 1, b) /\ ss[i] = Append(c, gpus[i])
    BY <1>3
  <2> HIDE DEF a, b, c
  <2>4. SeqOver(X, c, per) /\ From(nics, a, per, c)
    BY <2>1, <2>3, PartIs
  <2>5. /\ SeqOver(X, ss[i], per + 1) /\ ss[i][per + 1] = gpus[i]
        /\ \A e \in 1..per : ss[i][e] = c[e]
    <3>1. IsAppend(ss[i], c, gpus[i])
      BY <2>3 DEF IsAppend
    <3>2. Appended(X, ss[i], c, per, gpus[i])
      BY <2>2, <2>4, <3>1, AppendIs
    <3> QED BY <3>2 DEF Appended
  <2> QED BY <2>4, <2>5 DEF From, a
<1>6. SeqOver(X, f, lf) /\ FlatHolds(f, ss, w, lg)
  <2>1. AreRows(X, ss, lg, w)
    BY <1>5 DEF AreRows
  <2> HIDE DEF w
  <2> QED BY <1>1, <1>3, <2>1, FlattenIs DEF f
<1>7. SeqOver(X, t, lt) /\ From(nics, m, lt, t)
  <2>1. t = SubSeq(nics, m + 1, ln) /\ ln = m + lt /\ m + lt <= ln
    BY <1>1 DEF t
  <2> HIDE DEF m, lt
  <2> QED BY <1>1, <2>1, PartIs
<1>8. SeqOver(X, r, ln + lg) /\ From(r, 0, lf, f) /\ From(r, lf, lt, t)
  <2> HIDE DEF lf, lt
  <2>1. SeqOver(X, r, lf + lt) /\ From(r, 0, lf, f) /\ From(r, lf, lt, t)
    BY <1>1, <1>4, <1>6, <1>7, Both
  <2> QED BY <1>1, <2>1
<1>9. ASSUME NEW g \in 1..lg, NEW e \in 1..w PROVE r[(g - 1) * w + e] = ss[g][e]
  <2> DEFINE j == (g - 1) * w + e
  <2>1. j \in 1..lf
    BY <1>1, RowOf
  <2>2. f[j] = ss[g][e]
    BY <1>6 DEF FlatHolds
  <2> HIDE DEF j, lf
  <2>3. f[j] = r[0 + j] /\ 0 + j = j
    BY <1>1, <1>8, <2>1 DEF From
  <2> QED BY <2>2, <2>3 DEF j
<1>10. Groups(r, nics, gpus, per, lg)
  <2> SUFFICES ASSUME NEW g \in 1..lg PROVE Group(r, nics, gpus, per, g)
    BY DEF Groups
  <2>1. w \in 1..w /\ \A e \in 1..per : e \in 1..w
    BY <1>1
  <2>2. r[(g - 1) * w + w] = gpus[g]
    <3>1. r[(g - 1) * w + w] = ss[g][w]
      BY <1>9, <2>1
    <3> QED BY <1>5, <3>1
  <2>3. ASSUME NEW e \in 1..per PROVE r[(g - 1) * w + e] = nics[(g - 1) * per + e]
    <3>1. r[(g - 1) * w + e] = ss[g][e]
      BY <1>9, <2>1
    <3> QED BY <1>5, <3>1
  <2> QED BY <2>2, <2>3 DEF Group
<1>11. Left(r, nics, lg, per, ln)
  <2> SUFFICES ASSUME NEW i \in (m + 1)..ln PROVE r[lg + i] = nics[i]
    BY DEF Left
  <2> DEFINE j == i - m
  <2>1. j \in 1..lt /\ m + j = i /\ lf + j = lg + i
    BY <1>1
  <2> HIDE DEF j, lf, lt, m
  <2>2. t[j] = nics[m + j] /\ t[j] = r[lf + j]
    BY <1>7, <1>8, <2>1 DEF From
  <2> QED BY <2>1, <2>2
<1> QED BY <1>2, <1>8, <1>10, <1>11

(* ... and of one NIC, where it takes turns.                               *)
LEMMA GroupedOne ==
  ASSUME NEW X, NEW nics, NEW ln \in Nat, SeqOver(X, nics, ln), NEW gpus, NEW lg \in Nat, lg >= 1, SeqOver(X, gpus, lg),
         lg <= ln
  PROVE  LET r == GroupSocksForSwitches(nics, gpus, 1)
         IN  SeqOver(X, r, ln + lg) /\ Groups(r, nics, gpus, 1, lg) /\ Left(r, nics, lg, 1, ln)
<1> DEFINE r == RoundRobin(nics, gpus)
<1>1. GroupSocksForSwitches(nics, gpus, 1) = r
  BY DEF GroupSocksForSwitches
<1>2. lg \in Nat /\ lg = IF ln < lg THEN ln ELSE lg
  OBVIOUS
<1> HIDE DEF r
<1>3. /\ SeqOver(X, r, ln + lg)
      /\ \A i \in 1..lg : r[2 * i - 1] = nics[i] /\ r[2 * i] = gpus[i]
      /\ \A i \in (lg + 1)..ln : r[lg + i] = nics[i]
  BY <1>2, RoundRobinIs DEF r
<1>4. ASSUME NEW g \in 1..lg PROVE Group(r, nics, gpus, 1, g)
  <2>1. (g - 1) * (1 + 1) + (1 + 1) = 2 * g /\ (g - 1) * (1 + 1) + 1 = 2 * g - 1 /\ (g - 1) * 1 + 1 = g
    OBVIOUS
  <2>2. \A e \in 1..1 : e = 1
    OBVIOUS
  <2>3. r[(g - 1) * (1 + 1) + (1 + 1)] = gpus[g]
    BY <1>3, <2>1
  <2>4. r[(g - 1) * (1 + 1) + 1] = nics[(g - 1) * 1 + 1]
    BY <1>3, <2>1
  <2> QED BY <2>2, <2>3, <2>4 DEF Group
<1>5. lg * 1 = lg
  OBVIOUS
<1> QED BY <1>1, <1>3, <1>4, <1>5 DEF Groups, Left

---------------------------------------------------------------------------
(* Devices are numbered through, guest by guest: device o of a kind is the *)
(* d-th of guest n.                                                        *)
DeviceIs(s, per, o, n, d) ==
    /\ o = (n - 1) * per + d
    /\ Devices(s, per)[o] = [n |-> n, d |-> d, o |-> o]

(* Every number is some guest's device.                                    *)
LEMMA DeviceAt ==
  ASSUME NEW s, s.count \in Nat, NEW per \in Int, NEW o \in 1..(s.count * per)
  PROVE  \E n \in 1..s.count, d \in 1..per : DeviceIs(s, per, o, n, d)
<1> DEFINE c == s.count
<1>1. c \in Nat /\ o \in 1..(c * per)
  OBVIOUS
<1>2. Devices(s, per)[o] = [n |-> (o - 1) \div per + 1, d |-> ((o - 1) % per) + 1, o |-> o]
  BY DEF Devices
<1> HIDE DEF c
<1>3. PICK n \in 1..c, d \in 1..per : /\ o = (n - 1) * per + d
                                      /\ (o - 1) \div per = n - 1 /\ (o - 1) % per = d - 1
  BY <1>1, RowAt
<1>4. n - 1 + 1 = n /\ d - 1 + 1 = d
  BY <1>1
<1> QED BY <1>2, <1>3, <1>4 DEF c, DeviceIs

(* The device of a guest and number is where it is looked for.             *)
LEMMA DeviceOf ==
  ASSUME NEW s, s.count \in Nat, NEW per \in Int, NEW n \in 1..s.count, NEW d \in 1..per
  PROVE  /\ (n - 1) * per + d \in 1..(s.count * per)
         /\ Devices(s, per)[(n - 1) * per + d] = [n |-> n, d |-> d, o |-> (n - 1) * per + d]
<1> DEFINE c == s.count
           o == (n - 1) * per + d
<1>1. c \in Nat /\ n \in 1..c
  OBVIOUS
<1> HIDE DEF c
<1>2. o \in 1..(c * per) /\ (o - 1) \div per = n - 1 /\ (o - 1) % per = d - 1
  BY <1>1, RowOf
<1> HIDE DEF o
<1>3. Devices(s, per)[o] = [n |-> (o - 1) \div per + 1, d |-> ((o - 1) % per) + 1, o |-> o]
  BY <1>2 DEF Devices, c
<1>4. n - 1 + 1 = n /\ d - 1 + 1 = d
  BY <1>1
<1> QED BY <1>2, <1>3, <1>4 DEF c, o

(* A name tells its kind, its guest and its number.                        *)
Named(x, kind, n, d, per) == x[1] = kind /\ x[2] = n /\ (per # 1 => x[3] = d)

(* The name of a device is its kind, its guest and, unless it is the only  *)
(* one, its number.                                                        *)
LEMMA NameTells ==
  ASSUME NEW kind, NEW n, NEW d, NEW per
  PROVE  Named(<<kind>> \o DevSuffix(n, d, per), kind, n, d, per)
<1>1. CASE per = 1
  <2>1. (<<kind>> \o <<n>>)[1] = kind /\ (<<kind>> \o <<n>>)[2] = n
    OBVIOUS
  <2> QED BY <1>1, <2>1 DEF DevSuffix, Named
<1>2. CASE per # 1
  <2>1. /\ (<<kind>> \o <<n, d>>)[1] = kind /\ (<<kind>> \o <<n, d>>)[2] = n
        /\ (<<kind>> \o <<n, d>>)[3] = d
    OBVIOUS
  <2> QED BY <1>2, <2>1 DEF DevSuffix, Named
<1> QED BY <1>1, <1>2

---------------------------------------------------------------------------
(* The services of a fleet that was not refused.                           *)
Accepted(s) ==
    {s.count, s.ernic, s.rocjitsu, s.sdxi, s.width} \subseteq Int /\ ~Refused(s)

(* The numbers of a fleet that was not refused.                            *)
LEMMA Sizes ==
  ASSUME NEW s, Accepted(s)
  PROVE  /\ s.count \in Nat \ {0} /\ s.ernic \in Nat \ {0} /\ s.rocjitsu \in Nat \ {0}
         /\ s.sdxi \in Int /\ s.width \in Int
         /\ NicCount(s) \in 1..MESH_MAX /\ NicCount(s) = s.count * s.ernic
<1>1. /\ s.count \in Int /\ s.ernic \in Int /\ s.rocjitsu \in Int
      /\ s.count >= 1 /\ s.ernic >= 1 /\ s.rocjitsu >= 1 /\ s.sdxi \in Int /\ s.width \in Int
  BY DEF Accepted, Refused
<1>2. s.count * s.ernic \in Int /\ s.count * s.ernic >= 1
  <2>1. \A a \in Int, b \in Int : a >= 1 /\ b >= 1 => a * b \in Int /\ a * b >= 1
    OBVIOUS
  <2> QED BY <1>1, <2>1
<1>3. ~(NicCount(s) > MESH_MAX)
  BY DEF Accepted, Refused
<1>4. NicCount(s) \in 1..MESH_MAX
  BY <1>2, <1>3 DEF NicCount, MESH_MAX
<1> QED BY <1>1, <1>4 DEF NicCount

(* NIC o of the fleet is NIC d of guest n, by number and by name.          *)
NicIs(s, o, n, d) ==
    /\ o = (n - 1) * s.ernic + d
    /\ Devices(s, s.ernic)[o] = [n |-> n, d |-> d, o |-> o]
    /\ NicAt(s, o) = Nic(s, [n |-> n, d |-> d, o |-> o])
    /\ NicAt(s, o)[1] = "ernic" /\ NicAt(s, o)[2] = n
    /\ s.ernic # 1 => NicAt(s, o)[3] = d

(* Every NIC of the fleet is one of a guest.                               *)
LEMMA NicNamed ==
  ASSUME NEW s, Accepted(s), NEW o \in 1..NicCount(s)
  PROVE  \E n \in 1..s.count, d \in 1..s.ernic : NicIs(s, o, n, d)
<1>1. s.count \in Nat /\ s.ernic \in Int /\ o \in 1..(s.count * s.ernic)
  BY Sizes
<1>2. PICK n \in 1..s.count, d \in 1..s.ernic :
        /\ o = (n - 1) * s.ernic + d
        /\ Devices(s, s.ernic)[o] = [n |-> n, d |-> d, o |-> o]
  <2>1. \E n \in 1..s.count, d \in 1..s.ernic : DeviceIs(s, s.ernic, o, n, d)
    BY <1>1, DeviceAt
  <2> QED BY <2>1 DEF DeviceIs
<1>3. NicAt(s, o) = Nic(s, [n |-> n, d |-> d, o |-> o])
  BY <1>2 DEF NicAt
<1>4. NicAt(s, o) = <<"ernic">> \o DevSuffix(n, d, s.ernic)
  BY <1>3 DEF Nic
<1>6. NicAt(s, o)[1] = "ernic" /\ NicAt(s, o)[2] = n /\ (s.ernic # 1 => NicAt(s, o)[3] = d)
  <2>1. Named(NicAt(s, o), "ernic", n, d, s.ernic)
    BY <1>4, NameTells
  <2> QED BY <2>1 DEF Named
<1>7. NicIs(s, o, n, d)
  BY <1>2, <1>3, <1>6 DEF NicIs
<1> QED BY <1>7

(* No two NICs share a name.                                               *)
LEMMA NicAtTells ==
  ASSUME NEW s, Accepted(s), NEW o \in 1..NicCount(s), NEW p \in 1..NicCount(s),
         NicAt(s, o) = NicAt(s, p)
  PROVE  o = p
<1>1. PICK n \in 1..s.count, d \in 1..s.ernic : NicIs(s, o, n, d)
  BY NicNamed
<1>2. PICK m \in 1..s.count, e \in 1..s.ernic : NicIs(s, p, m, e)
  BY NicNamed
<1>3. n = m
  BY <1>1, <1>2 DEF NicIs
<1>4. d = e
  <2>1. CASE s.ernic = 1
    BY <2>1
  <2>2. CASE s.ernic # 1
    BY <2>2, <1>1, <1>2 DEF NicIs
  <2> QED BY <2>1, <2>2
<1> QED BY <1>1, <1>2, <1>3, <1>4 DEF NicIs

(* The NICs, by their number in the fleet.                                 *)
LEMMA NicsAre ==
  ASSUME NEW s, Accepted(s)
  PROVE  /\ Nics(s) = {NicAt(s, o) : o \in 1..NicCount(s)}
         /\ Range(Devices(s, s.ernic)) = {Devices(s, s.ernic)[o] : o \in 1..NicCount(s)}
<1>1. DOMAIN Devices(s, s.ernic) = 1..NicCount(s)
  BY Sizes DEF Devices
<1>2. Range(Devices(s, s.ernic)) = {Devices(s, s.ernic)[o] : o \in 1..NicCount(s)}
  BY <1>1 DEF Range
<1> QED BY <1>2 DEF Nics, NicAt

(* What is waited for, by a NIC and by a guest.                            *)
LEMMA ComposeNic ==
  ASSUME NEW s, Accepted(s), NEW p, NEW o \in 1..NicCount(s)
  PROVE  /\ NicAt(s, o) \in DOMAIN Compose(s, p)
         /\ Compose(s, p)[NicAt(s, o)] = WorkerDeps(s, o)
<1> DEFINE nics == Range(Devices(s, s.ernic))
           The(x) == CHOOSE v \in nics : x \in {Nic(s, v), Tapsetup(s, v)}
           x == NicAt(s, o)
<1>1. x[1] = "ernic" /\ x \in Nics(s)
  <2>1. PICK n \in 1..s.count, d \in 1..s.ernic : NicIs(s, o, n, d)
    BY NicNamed
  <2> QED BY <2>1, NicsAre DEF NicIs
<1>2. Devices(s, s.ernic)[o] \in nics /\ x = Nic(s, Devices(s, s.ernic)[o])
  BY NicsAre DEF NicAt
<1>3. ASSUME NEW v \in nics, x \in {Nic(s, v), Tapsetup(s, v)}
      PROVE  v.o = o
  <2>1. PICK q \in 1..NicCount(s) : v = Devices(s, s.ernic)[q]
    BY NicsAre
  <2>2. PICK n \in 1..s.count, d \in 1..s.ernic : NicIs(s, q, n, d)
    BY NicNamed
  <2>3. v = [n |-> n, d |-> d, o |-> q] /\ NicAt(s, q) = Nic(s, v)
        /\ Tapsetup(s, v) = <<"tapsetup">> \o DevSuffix(n, d, s.ernic)
    BY <2>1, <2>2 DEF Tapsetup, NicIs
  <2>4. Tapsetup(s, v)[1] = "tapsetup"
    BY <2>3, NameTells DEF Named
  <2>5. x # Tapsetup(s, v)
    BY <1>1, <2>4
  <2>6. x = NicAt(s, q)
    BY <1>3, <2>3, <2>5
  <2>7. q = o
    BY <2>6, NicAtTells
  <2> QED BY <2>3, <2>7
<1>4. The(x).o = o
  <2>1. \E v \in nics : x \in {Nic(s, v), Tapsetup(s, v)}
    BY <1>2
  <2> HIDE DEF nics, x
  <2> QED BY <2>1, <1>3
<1>5. x \in DOMAIN Compose(s, p)
  BY <1>1 DEF Compose
<1>6. Compose(s, p)[x] = WorkerDeps(s, The(x).o)
  <2> HIDE DEF x
  <2> QED BY <1>1 DEF Compose
<1> QED BY <1>4, <1>5, <1>6

LEMMA ComposeQemu ==
  ASSUME NEW s, Accepted(s), NEW p, NEW n \in 1..s.count
  PROVE  /\ Qemu(n) \in DOMAIN Compose(s, p)
         /\ Compose(s, p)[Qemu(n)] = QemuDeps(s, n)
         /\ Qemu(n)[1] = "qemu" /\ Qemu(n)[2] = n
<1>1. Qemu(n)[1] = "qemu" /\ Qemu(n)[2] = n /\ Qemu(n) \in Qemus(s)
  BY DEF Qemu, Qemus
<1>2. Qemu(n) \in DOMAIN Compose(s, p)
  BY <1>1 DEF Compose
<1>3. Compose(s, p)[Qemu(n)] = QemuDeps(s, Qemu(n)[2])
  <2> DEFINE x == Qemu(n)
  <2>1. x[1] = "qemu" /\ x \in Qemus(s)
    BY <1>1
  <2> HIDE DEF x
  <2>2. Compose(s, p)[x] = QemuDeps(s, x[2])
    BY <2>1 DEF Compose
  <2> QED BY <2>2 DEF x
<1> QED BY <1>1, <1>2, <1>3

---------------------------------------------------------------------------
(* Starting.                                                               *)
SvcStates == {"absent", "starting", "bound", "ready", "dead"}
Verdicts == {"starting", "healthy", "unhealthy"}

Shapes ==
    /\ settings \in Settings
    /\ phase \in {"plan", "refused", "rendered", "up", "failed", "started"}
    /\ phase \notin {"plan", "refused"} => Accepted(settings)
    /\ ~Running => nextNode = 1 /\ crashed = {}
    /\ Running => /\ \E p \in Profiles : stack = Compose(settings, p)
                  /\ svc \in [Names -> SvcStates]
                  /\ health \in [Names -> Verdicts]
                  /\ node \in [Nics(settings) -> Nat \cup {NoNode}]
                  /\ nextNode \in Nat \ {0}

(* While nothing died: the workers register one after the other.           *)
Svc(o) == svc[NicAt(settings, o)]
Registered(o) == IF o <= nextNode
                 THEN Svc(o) = "ready" /\ node[NicAt(settings, o)] = o - 1
                 ELSE Svc(o) # "ready" /\ node[NicAt(settings, o)] = NoNode
Mesh ==
    Running /\ crashed = {} =>
        /\ node[Manager] \in {NoNode, 0}
        /\ \A o \in 1..NicCount(settings) :
              /\ Svc(o) # "dead"
              /\ health[NicAt(settings, o)] = "healthy" => Svc(o) = "ready"
              /\ o >= 2 => Registered(o)
              /\ o >= 3 /\ Svc(o) # "absent" => o - 1 <= nextNode

(* What is healthy has its socket, and so has what a guest was started on, *)
(* unless it died since.                                                   *)
Socks(n) == Range(QemuService(settings, n).userdev)
Alive ==
    Running =>
        /\ \A x \in Names : health[x] = "healthy" => svc[x] \in {"bound", "ready"}
        /\ \A n \in 1..settings.count : \A y \in Socks(n) :
              svc[Qemu(n)] # "absent" => svc[y] \in {"bound", "ready"} \/ y \in crashed

(* What plan() accepts.                                                    *)
LEMMA AcceptedSettings ==
  ASSUME NEW s \in Settings, ~Refused(s)
  PROVE  Accepted(s)
  BY FleetAssumption DEF FleetAssumption, Accepted

(* A fleet that is not yet planned.                                        *)
LEMMA InitShapes == Init => Shapes /\ Mesh
  BY DEF Init, Shapes, Mesh, Running

(* What a service's step changes.                                          *)
LEMMA Effects ==
  ASSUME Shapes, Running, NEW x \in Names, Works(x) \/ Fails(x)
  PROVE  /\ UNCHANGED <<settings, stack, phase>>
         /\ svc' \in [Names -> SvcStates] /\ health' \in [Names -> Verdicts]
         /\ node' \in [Nics(settings) -> Nat \cup {NoNode}] /\ nextNode' \in Nat \ {0}
<1> USE DEF Shapes, Running, SvcStates, Verdicts
<1>1. CASE StartService(x)
  BY <1>1 DEF StartService
<1>2. CASE MakeTap(x)
  BY <1>2 DEF MakeTap, Becomes
<1>3. CASE Bind(x)
  BY <1>3 DEF Bind, Becomes
<1>4. CASE Listen(x)
  BY <1>4 DEF Listen, Becomes, NoNode
<1>5. CASE Register(x)
  <2>1. nextNode \in Nat \ {0} /\ nextNode' = nextNode + 1
    BY <1>5 DEF Register
  <2>2. nextNode' \in Nat \ {0} /\ nextNode \in Nat \cup {NoNode}
    BY <2>1
  <2>3. node' \in [Nics(settings) -> Nat \cup {NoNode}]
    BY <1>5, <2>2 DEF Register
  <2>4. svc' \in [Names -> SvcStates]
    BY <1>5 DEF Register, Becomes
  <2> QED BY <1>5, <2>2, <2>3, <2>4 DEF Register
<1>6. CASE Attach(x)
  BY <1>6 DEF Attach, Becomes
<1>7. CASE Serve(x)
  BY <1>7 DEF Serve, Becomes
<1>8. CASE Restart(x)
  BY <1>8 DEF Restart, Becomes
<1>9. CASE CheckPasses(x)
  BY <1>9 DEF CheckPasses
<1>10. CASE GiveUpOnTap(x)
  BY <1>10 DEF GiveUpOnTap, Dies, Becomes
<1>11. CASE Crash(x)
  <2>1. svc' \in [Names -> SvcStates]
    BY <1>11 DEF Crash, Becomes
  <2>2. node' \in [Nics(settings) -> Nat \cup {NoNode}]
    BY <1>11 DEF Crash, Becomes
  <2> QED BY <2>1, <2>2, <1>11 DEF Crash
<1>12. CASE CheckFails(x)
  BY <1>12 DEF CheckFails
<1>13. CASE InstallFails(x)
  BY <1>13 DEF InstallFails
<1> QED BY <1>1, <1>2, <1>3, <1>4, <1>5, <1>6, <1>7, <1>8, <1>9, <1>10, <1>11, <1>12, <1>13
          DEF Works, Fails

(* The shapes are kept.                                                    *)
LEMMA ShapesStep == Shapes /\ [Next]_vars => Shapes'
<1> SUFFICES ASSUME Shapes, [Next]_vars PROVE Shapes'
  OBVIOUS
<1>1. CASE Plan
  BY <1>1, AcceptedSettings DEF Plan, Shapes, Running
<1>2. CASE Up
  <2>1. PICK p \in Profiles : stack' = Compose(settings, p)
    BY <1>2 DEF Up
  <2> DEFINE names == DOMAIN stack'
  <2>2. /\ phase' = "up" /\ phase = "rendered" /\ UNCHANGED <<settings, nextNode, crashed>>
        /\ svc' = [x \in names |-> "absent"] /\ health' = [x \in names |-> "starting"]
        /\ node' = [x \in Nics(settings) |-> NoNode]
    BY <1>2 DEF Up
  <2>3. Nics(settings)' = Nics(settings)
    BY <2>2
  <2>4. names = Names'
    BY DEF Names
  <2>5. svc' \in [names -> SvcStates] /\ health' \in [names -> Verdicts]
    <3> HIDE DEF names
    <3> QED BY <2>2 DEF SvcStates, Verdicts
  <2>6. node' \in [Nics(settings) -> Nat \cup {NoNode}]
    BY <2>2
  <2> HIDE DEF names
  <2> QED BY <2>1, <2>2, <2>3, <2>4, <2>5, <2>6 DEF Shapes, Running
<1>3. CASE UpFails \/ UpEnds
  BY <1>3 DEF UpFails, UpEnds, Shapes, Running, Names
<1>4. ASSUME Running, NEW x \in Names, Works(x) \/ Fails(x) PROVE Shapes'
  BY <1>4, Effects DEF Shapes, Running, Names
<1>5. CASE UNCHANGED vars
  BY <1>5 DEF vars, Shapes, Running, Names
<1> QED BY <1>1, <1>2, <1>3, <1>4, <1>5 DEF Next, Work

---------------------------------------------------------------------------
(* The mesh.                                                               *)
LEMMA NicsHere ==
  ASSUME Shapes, Running
  PROVE  /\ Accepted(settings) /\ NicCount(settings) \in 1..MESH_MAX
         /\ \A o \in 1..NicCount(settings) :
              /\ NicAt(settings, o) \in Names /\ NicAt(settings, o) \in Nics(settings)
              /\ NicAt(settings, o)[1] = "ernic"
              /\ stack[NicAt(settings, o)] = WorkerDeps(settings, o)
<1>1. Accepted(settings)
  BY DEF Shapes, Running
<1>2. PICK p \in Profiles : stack = Compose(settings, p)
  BY DEF Shapes
<1>3. ASSUME NEW o \in 1..NicCount(settings)
      PROVE  /\ NicAt(settings, o) \in Names /\ NicAt(settings, o) \in Nics(settings)
             /\ NicAt(settings, o)[1] = "ernic"
             /\ stack[NicAt(settings, o)] = WorkerDeps(settings, o)
  <2>1. PICK n \in 1..settings.count, d \in 1..settings.ernic : NicIs(settings, o, n, d)
    BY <1>1, NicNamed
  <2> QED BY <1>1, <1>2, <2>1, ComposeNic, NicsAre DEF Names, NicIs
<1> QED BY <1>1, <1>3, Sizes

(* Nothing called an ernic but the NICs.                                   *)
LEMMA ErnicIsNic ==
  ASSUME Shapes, Running, NEW x \in Names, IsNic(x)
  PROVE  \E o \in 1..NicCount(settings) : x = NicAt(settings, o)
<1> DEFINE s == settings
<1>1. PICK p : stack = Compose(settings, p)
  BY DEF Shapes
<1>2. \/ x \in Nics(s) \/ x \in Gpus(s) \/ x \in Sdxis(s) \/ x \in Qemus(s) \/ x \in Tapsetups(s)
      \/ x \in Metrics(s) \/ x \in Lmcache(s)
  BY <1>1 DEF Names, Compose
<1>3. ASSUME NEW kind, NEW n, NEW d, NEW per, x = <<kind>> \o DevSuffix(n, d, per)
      PROVE  kind = "ernic"
  BY <1>3, NameTells DEF Named, IsNic
<1>4. x \notin Gpus(s)
  <2> SUFFICES ASSUME NEW v, x = Gpu(s, v) PROVE FALSE
    BY DEF Gpus
  <2>1. x = <<"rocjitsu">> \o DevSuffix(v.n, v.d, s.rocjitsu)
    BY DEF Gpu
  <2>2. "rocjitsu" = "ernic"
    BY <2>1, <1>3
  <2> QED BY <2>2
<1>5. x \notin Sdxis(s)
  <2> SUFFICES ASSUME NEW v, x = Sdxi(s, v) PROVE FALSE
    BY DEF Sdxis
  <2>1. x = <<"sdxi">> \o DevSuffix(v.n, v.d, s.sdxi)
    BY DEF Sdxi
  <2>2. "sdxi" = "ernic"
    BY <2>1, <1>3
  <2> QED BY <2>2
<1>6. x \notin Tapsetups(s)
  <2> SUFFICES ASSUME NEW v, x = Tapsetup(s, v) PROVE FALSE
    BY DEF Tapsetups
  <2>1. x = <<"tapsetup">> \o DevSuffix(v.n, v.d, s.ernic)
    BY DEF Tapsetup
  <2>2. "tapsetup" = "ernic"
    BY <2>1, <1>3
  <2> QED BY <2>2
<1>7. x \notin Qemus(s) /\ x \notin Metrics(s) /\ x \notin Lmcache(s)
  BY DEF Qemus, Qemu, Metrics, Lmcache, IsNic
<1>8. x \in Nics(s)
  BY <1>2, <1>4, <1>5, <1>6, <1>7
<1>9. Accepted(s)
  BY DEF Shapes, Running
<1> QED BY <1>8, <1>9, NicsAre

(* A step that registers nobody.                                           *)
LEMMA MeshKept ==
  ASSUME Shapes, Mesh, Running, crashed = {}, UNCHANGED <<settings, nextNode>>,
         node'[Manager] \in {NoNode, 0},
         \A o \in 1..NicCount(settings) :
            /\ o >= 2 => node'[NicAt(settings, o)] = node[NicAt(settings, o)]
            /\ svc'[NicAt(settings, o)] # "dead"
            /\ health'[NicAt(settings, o)] = "healthy" => svc'[NicAt(settings, o)] = "ready"
            /\ o >= 2 => (svc'[NicAt(settings, o)] = "ready" <=> Svc(o) = "ready")
            /\ o >= 3 /\ Svc(o) = "absent" /\ svc'[NicAt(settings, o)] # "absent" => o - 1 <= nextNode
  PROVE  Mesh'
<1>1. Manager' = Manager /\ NicCount(settings)' = NicCount(settings)
      /\ \A o \in 1..NicCount(settings) : NicAt(settings, o)' = NicAt(settings, o)
  BY DEF Manager
<1>2. ASSUME NEW o \in 1..NicCount(settings)
      PROVE  /\ Svc(o)' # "dead"
             /\ health'[NicAt(settings, o)] = "healthy" => Svc(o)' = "ready"
             /\ o >= 2 => Registered(o)'
             /\ o >= 3 /\ Svc(o)' # "absent" => o - 1 <= nextNode'
  BY <1>1, <1>2 DEF Mesh, Svc, Registered
<1> QED BY <1>1, <1>2 DEF Mesh

(* A step that leaves the NICs alone but for what Docker says of them.     *)
LEMMA MeshBeside ==
  ASSUME Shapes, Mesh, Running, crashed = {}, UNCHANGED <<settings, nextNode, node>>,
         \A o \in 1..NicCount(settings) :
            /\ svc'[NicAt(settings, o)] = svc[NicAt(settings, o)]
            /\ health'[NicAt(settings, o)] = "healthy"
                  => health[NicAt(settings, o)] = "healthy" \/ Svc(o) = "ready"
  PROVE  Mesh'
<1>1. ASSUME NEW o \in 1..NicCount(settings)
      PROVE  /\ svc'[NicAt(settings, o)] # "dead"
             /\ health'[NicAt(settings, o)] = "healthy" => svc'[NicAt(settings, o)] = "ready"
             /\ (svc'[NicAt(settings, o)] = "ready" <=> Svc(o) = "ready")
             /\ Svc(o) = "absent" => svc'[NicAt(settings, o)] = "absent"
  BY <1>1 DEF Mesh, Svc
<1>2. node'[Manager] \in {NoNode, 0}
  BY DEF Mesh
<1> QED BY <1>1, <1>2, MeshKept

(* The step of one NIC, which is neither to register nor to die.           *)
LEMMA MeshMoves ==
  ASSUME Shapes, Mesh, Running, crashed = {}, UNCHANGED <<settings, nextNode, health>>,
         NEW o \in 1..NicCount(settings), NEW st,
         Svc(o) # "ready", st \notin {"ready", "dead"} \/ (o = 1 /\ st = "ready"),
         o >= 3 /\ Svc(o) = "absent" => o - 1 <= nextNode,
         svc' = [svc EXCEPT ![NicAt(settings, o)] = st],
         node'[Manager] \in {NoNode, 0},
         \A q \in 2..NicCount(settings) : node'[NicAt(settings, q)] = node[NicAt(settings, q)]
  PROVE  Mesh'
<1> DEFINE N == NicCount(settings)
<1>1. N \in 1..MESH_MAX /\ svc \in [Names -> SvcStates]
      /\ \A q \in 1..N : NicAt(settings, q) \in Names
  BY NicsHere DEF Shapes
<1>2. \A q \in 1..N : svc'[NicAt(settings, q)] = IF q = o THEN st ELSE Svc(q)
  BY <1>1, NicAtTells, NicsHere DEF Svc
<1>3. ASSUME NEW q \in 1..N
      PROVE  /\ q >= 2 => node'[NicAt(settings, q)] = node[NicAt(settings, q)]
             /\ svc'[NicAt(settings, q)] # "dead"
             /\ health'[NicAt(settings, q)] = "healthy" => svc'[NicAt(settings, q)] = "ready"
             /\ q >= 2 => (svc'[NicAt(settings, q)] = "ready" <=> Svc(q) = "ready")
             /\ q >= 3 /\ Svc(q) = "absent" /\ svc'[NicAt(settings, q)] # "absent" => q - 1 <= nextNode
  <2>1. q \in Int /\ (q >= 2 => q \in 2..N)
    BY <1>1
  <2>2. CASE q = o
    <3>1. svc'[NicAt(settings, q)] = st /\ Svc(q) # "ready" /\ health[NicAt(settings, q)] # "healthy"
      BY <1>2, <2>2 DEF Mesh
    <3> QED BY <2>1, <2>2, <3>1
  <2>3. CASE q # o
    BY <1>2, <2>1, <2>3 DEF Mesh
  <2> QED BY <2>2, <2>3
<1> QED BY <1>3, MeshKept

(* A worker started when the one before it was registered, so it is next.  *)
LEMMA MeshRegisters ==
  ASSUME Shapes, Mesh, Running, crashed = {}, NEW x \in Names, Register(x)
  PROVE  Mesh'
<1> DEFINE N == NicCount(settings)
<1>1. /\ x # Manager /\ svc[x] = "bound" /\ svc' = [svc EXCEPT ![x] = "ready"]
      /\ node' = [node EXCEPT ![x] = nextNode] /\ nextNode' = nextNode + 1
      /\ UNCHANGED <<settings, health>> /\ IsNic(x)
  BY DEF Register, Becomes
<1>2. N \in 1..MESH_MAX /\ svc \in [Names -> SvcStates] /\ nextNode \in Nat \ {0}
      /\ node \in [Nics(settings) -> Nat \cup {NoNode}] /\ Accepted(settings)
      /\ \A q \in 1..N : NicAt(settings, q) \in Names /\ NicAt(settings, q) \in Nics(settings)
  BY NicsHere DEF Shapes
<1>3. PICK o \in 1..N : x = NicAt(settings, o)
  BY <1>1, ErnicIsNic
<1>4. o >= 2 /\ Svc(o) = "bound" /\ Svc(o) # "ready"
  BY <1>1, <1>2, <1>3 DEF Manager, Svc
<1>5. o = nextNode + 1
  <2>1. ~(o <= nextNode)
    BY <1>4 DEF Mesh, Registered
  <2>2. o >= 3 => o - 1 <= nextNode
    BY <1>4 DEF Mesh
  <2> QED BY <1>2, <1>4, <2>1, <2>2
<1>6. ASSUME NEW q \in 1..N
      PROVE  /\ svc'[NicAt(settings, q)] = IF q = o THEN "ready" ELSE Svc(q)
             /\ node'[NicAt(settings, q)] = IF q = o THEN nextNode ELSE node[NicAt(settings, q)]
  BY <1>1, <1>2, <1>3, NicAtTells DEF Svc
<1>7. Manager' = Manager /\ N' = N
      /\ \A q \in 1..N : NicAt(settings, q)' = NicAt(settings, q)
  BY <1>1 DEF Manager
<1>8. node'[Manager] \in {NoNode, 0}
  BY <1>2, <1>4, <1>6 DEF Mesh, Manager
<1>9. ASSUME NEW q \in 1..N
      PROVE  /\ Svc(q)' # "dead"
             /\ health'[NicAt(settings, q)] = "healthy" => Svc(q)' = "ready"
             /\ q >= 2 => Registered(q)'
             /\ q >= 3 /\ Svc(q)' # "absent" => q - 1 <= nextNode'
  <2>1. Svc(q)' = IF q = o THEN "ready" ELSE Svc(q)
    BY <1>6, <1>7 DEF Svc
  <2>2. q \in Int /\ nextNode \in Int /\ o \in Int
    BY <1>2
  <2>3. CASE q = o
    <3>1. Svc(q)' = "ready" /\ node'[NicAt(settings, q)] = nextNode /\ q = nextNode' /\ nextNode = q - 1
      BY <1>1, <1>2, <1>5, <1>6, <2>1, <2>3
    <3>2. q <= nextNode' /\ q - 1 <= nextNode'
      BY <1>1, <2>2, <3>1
    <3>3. Registered(q)'
      BY <1>7, <3>1, <3>2 DEF Registered
    <3> QED BY <3>1, <3>2, <3>3
  <2>4. CASE q # o
    <3>1. Svc(q)' = Svc(q) /\ node'[NicAt(settings, q)] = node[NicAt(settings, q)]
      BY <1>6, <2>1, <2>4
    <3>2. q <= nextNode' <=> q <= nextNode
      BY <1>1, <1>5, <2>2, <2>4
    <3>3. /\ Svc(q) # "dead" /\ (health[NicAt(settings, q)] = "healthy" => Svc(q) = "ready")
          /\ q >= 2 => Registered(q)
          /\ q >= 3 /\ Svc(q) # "absent" => q - 1 <= nextNode
      BY DEF Mesh
    <3> QED BY <1>1, <1>7, <2>2, <3>1, <3>2, <3>3 DEF Registered
  <2> QED BY <2>3, <2>4
<1> QED BY <1>7, <1>8, <1>9 DEF Mesh

(* The NICs are there after a step that keeps the shapes, too.             *)
LEMMA NicsAfter ==
  (Shapes /\ Running => /\ NicCount(settings) \in 1..MESH_MAX
                        /\ \A o \in 1..NicCount(settings) :
                              NicAt(settings, o) \in Names /\ NicAt(settings, o) \in Nics(settings))'
<1>1. Shapes /\ Running => /\ NicCount(settings) \in 1..MESH_MAX
                           /\ \A o \in 1..NicCount(settings) :
                                NicAt(settings, o) \in Names /\ NicAt(settings, o) \in Nics(settings)
  BY NicsHere
<1> QED BY <1>1, PTL

(* Every step keeps the mesh in order as long as nothing dies.             *)
LEMMA MeshStep == Shapes /\ Mesh /\ [Next]_vars => Mesh'
<1> SUFFICES ASSUME Shapes, Mesh, [Next]_vars, Running', crashed' = {} PROVE Mesh'
  BY DEF Mesh
<1>1. CASE Plan
  BY <1>1 DEF Plan, Running
<1>2. CASE Up
  <2>1. /\ phase = "rendered" /\ nextNode = 1 /\ UNCHANGED <<settings, nextNode, crashed, taps>> /\ phase' = "up"
        /\ svc' = [x \in DOMAIN stack' |-> "absent"] /\ health' = [x \in DOMAIN stack' |-> "starting"]
        /\ node' = [x \in Nics(settings) |-> NoNode]
    BY <1>2 DEF Up, Shapes, Running
  <2>2. Shapes' /\ Running'
    BY ShapesStep
  <2>3. /\ NicCount(settings)' \in 1..MESH_MAX
        /\ \A o \in 1..NicCount(settings)' :
             NicAt(settings, o)' \in Names' /\ NicAt(settings, o)' \in Nics(settings)'
    BY <2>2, NicsAfter
  <2>4. ASSUME NEW o \in 1..NicCount(settings)'
        PROVE  /\ Svc(o)' = "absent" /\ health'[NicAt(settings, o)'] = "starting"
               /\ node'[NicAt(settings, o)'] = NoNode
    BY <2>1, <2>3 DEF Svc, Names
  <2>5. \A o \in 1..NicCount(settings)' : o \in Int /\ (o >= 2 => ~(o <= nextNode'))
    BY <2>1, <2>3
  <2>6. Manager' = NicAt(settings, 1)' /\ 1 \in 1..NicCount(settings)'
    BY <2>3 DEF Manager
  <2>7. \A o \in 1..NicCount(settings)' : o >= 2 => Registered(o)'
    BY <2>4, <2>5 DEF Registered
  <2> QED BY <2>4, <2>6, <2>7 DEF Mesh
<1>3. CASE UpFails \/ UpEnds \/ UNCHANGED vars
  <2>1. UNCHANGED <<settings, svc, health, node, nextNode, crashed>> /\ Running
    BY <1>3 DEF UpFails, UpEnds, vars, Running
  <2> QED BY <2>1 DEF Mesh, Svc, Registered, Manager
<1>4. ASSUME Running, NEW x \in Names, Works(x) \/ Fails(x) PROVE Mesh'
  <2> DEFINE N == NicCount(settings)
  <2>0. svc \in [Names -> SvcStates] /\ health \in [Names -> Verdicts] /\ Accepted(settings)
        /\ \A o \in 1..N : /\ NicAt(settings, o) \in Names /\ IsNic(NicAt(settings, o))
                           /\ stack[NicAt(settings, o)] = WorkerDeps(settings, o)
    BY <1>4, NicsHere DEF Shapes, IsNic
  <2>1. crashed = {}
    BY <1>4 DEF Works, Fails, StartService, MakeTap, Bind, Listen, Register, Attach, Serve, Restart,
                CheckPasses, InstallFails, GiveUpOnTap, Crash, CheckFails, Dies
  <2>2. CASE StartService(x) /\ IsNic(x)
    <3>1. PICK o \in 1..N : x = NicAt(settings, o)
      BY <1>4, <2>2, ErnicIsNic
    <3>2. /\ svc[x] = "absent" /\ svc' = [svc EXCEPT ![x] = "starting"]
          /\ UNCHANGED <<settings, health, node, nextNode>>
          /\ \A d \in WorkerDeps(settings, o) : Met(d)
      BY <2>0, <2>2, <3>1 DEF StartService
    <3>3. o >= 3 => o - 1 <= nextNode
      <4> SUFFICES ASSUME o >= 3 PROVE o - 1 <= nextNode
        OBVIOUS
      <4> DEFINE q == o - 1
      <4>0. q \in 1..N /\ q >= 2 /\ o # 1
        BY <1>4, NicsHere
      <4>1. Met(On(NicAt(settings, q), "healthy"))
        BY <3>2, <4>0 DEF WorkerDeps
      <4> HIDE DEF q
      <4>2. health[NicAt(settings, q)] = "healthy"
        BY <4>1 DEF Met, On
      <4>3. Svc(q) = "ready" /\ Registered(q)
        BY <1>4, <2>1, <4>0, <4>2 DEF Mesh
      <4> QED BY <4>3 DEF Registered, q
    <3>4. Svc(o) = "absent" /\ node'[Manager] \in {NoNode, 0}
      BY <1>4, <2>1, <3>1, <3>2 DEF Svc, Mesh
    <3> QED BY <1>4, <2>1, <3>1, <3>2, <3>3, <3>4, MeshMoves
  <2>3. CASE Bind(x)
    <3>1. PICK o \in 1..N : x = NicAt(settings, o)
      BY <1>4, <2>3, ErnicIsNic DEF Bind
    <3>2. /\ svc[x] = "starting" /\ svc' = [svc EXCEPT ![x] = "bound"]
          /\ UNCHANGED <<settings, health, node, nextNode>>
      BY <2>3 DEF Bind, Becomes
    <3>3. Svc(o) = "starting" /\ node'[Manager] \in {NoNode, 0}
      BY <1>4, <2>1, <3>1, <3>2 DEF Svc, Mesh
    <3> QED BY <1>4, <2>1, <3>1, <3>2, <3>3, MeshMoves
  <2>4. CASE Listen(x)
    <3>1. /\ x = Manager /\ svc[x] = "bound" /\ svc' = [svc EXCEPT ![x] = "ready"]
          /\ node' = [node EXCEPT ![x] = 0] /\ UNCHANGED <<settings, health, nextNode>>
      BY <2>4 DEF Listen, Becomes
    <3>2. 1 \in 1..N /\ x = NicAt(settings, 1) /\ node \in [Nics(settings) -> Nat \cup {NoNode}]
          /\ x \in Nics(settings)
      BY <1>4, <3>1, NicsHere DEF Manager, Shapes
    <3>3. Svc(1) = "bound" /\ node'[Manager] = 0
      BY <3>1, <3>2 DEF Svc
    <3>4. \A q \in 2..N : node'[NicAt(settings, q)] = node[NicAt(settings, q)]
      BY <2>0, <3>1, <3>2, NicAtTells
    <3> QED BY <1>4, <2>1, <3>1, <3>2, <3>3, <3>4, MeshMoves
  <2>5. CASE Register(x)
    BY <1>4, <2>1, <2>5, MeshRegisters
  <2>6. CASE /\ StartService(x) \/ MakeTap(x) \/ Attach(x) \/ Serve(x) \/ Restart(x)
             /\ ~IsNic(x)
    <3>1. UNCHANGED <<settings, health, node, nextNode>> /\ (\E st : svc' = [svc EXCEPT ![x] = st])
      BY <2>6 DEF StartService, MakeTap, Attach, Serve, Restart, Becomes
    <3>2. \A o \in 1..N : svc'[NicAt(settings, o)] = svc[NicAt(settings, o)]
      BY <2>0, <2>6, <3>1
    <3> QED BY <1>4, <2>1, <3>1, <3>2, MeshBeside
  <2>7. ~((MakeTap(x) \/ Attach(x) \/ Serve(x) \/ Restart(x)) /\ IsNic(x))
    <3>1. CASE Restart(x) /\ IsNic(x)
      <4>1. PICK o \in 1..N : x = NicAt(settings, o)
        BY <1>4, <3>1, ErnicIsNic
      <4>2. Svc(o) = "dead"
        BY <3>1, <4>1 DEF Restart, Svc
      <4> QED BY <1>4, <2>1, <4>2 DEF Mesh
    <3> QED BY <3>1 DEF MakeTap, Attach, Serve, IsNic
  <2>8. CASE CheckPasses(x)
    <3>1. UNCHANGED <<settings, svc, node, nextNode>> /\ svc[x] = "ready"
          /\ health' = [health EXCEPT ![x] = "healthy"]
      BY <2>8 DEF CheckPasses, Healthy
    <3>2. \A o \in 1..N : health'[NicAt(settings, o)] = "healthy"
                            => health[NicAt(settings, o)] = "healthy" \/ Svc(o) = "ready"
      BY <2>0, <3>1 DEF Svc
    <3> QED BY <1>4, <2>1, <3>1, <3>2, MeshBeside
  <2>9. CASE CheckFails(x)
    <3>1. UNCHANGED <<settings, svc, node, nextNode>>
          /\ health' = [health EXCEPT ![x] = "unhealthy"]
      BY <2>9 DEF CheckFails
    <3>2. \A o \in 1..N : health'[NicAt(settings, o)] = "healthy" => health[NicAt(settings, o)] = "healthy"
      BY <2>0, <3>1
    <3> QED BY <1>4, <2>1, <3>1, <3>2, MeshBeside
  <2>10. CASE GiveUpOnTap(x) \/ Crash(x)
    BY <2>10 DEF GiveUpOnTap, Crash, Dies
  <2>11. CASE InstallFails(x)
    <3>1. UNCHANGED <<settings, svc, health, node, nextNode>>
      BY <2>11 DEF InstallFails
    <3> QED BY <1>4, <2>1, <3>1, MeshBeside
  <2> QED BY <1>4, <2>2, <2>3, <2>4, <2>5, <2>6, <2>7, <2>8, <2>9, <2>10, <2>11 DEF Works, Fails
<1> QED BY <1>1, <1>2, <1>3, <1>4 DEF Next, Work

(* As long as nothing died, every NIC that registered has the node id that *)
(* the GID resolver computes from its MAC: each worker is started when the *)
(* one before it is healthy, so it is registered next (gen_compose.py:     *)
(* 1280-1335).                                                             *)
THEOREM NodeIds == Spec => []NodeIdIsMacByte
<1>1. Shapes /\ Mesh => NodeIdIsMacByte
  <2> SUFFICES ASSUME Shapes, Mesh, Running, crashed = {}, NEW o \in 1..NicCount(settings)
               PROVE  node[NicAt(settings, o)] \in {NoNode, Mac(o)[2] - 1}
    BY DEF NodeIdIsMacByte
  <2>1. NicCount(settings) \in 1..MESH_MAX
    BY NicsHere
  <2>2. o \in 1..MESH_MAX /\ Mac(o)[2] = o
    BY <2>1 DEF MESH_MAX, Mac
  <2>3. CASE o = 1
    BY <2>2, <2>3 DEF Mesh, Manager
  <2>4. CASE o >= 2
    BY <2>2, <2>4 DEF Mesh, Registered
  <2> QED BY <2>2, <2>3, <2>4
<1>2. Spec => [](Shapes /\ Mesh)
  BY InitShapes, ShapesStep, MeshStep, PTL DEF Spec
<1> QED BY <1>1, <1>2, PTL

---------------------------------------------------------------------------
(* The order in which a guest attaches its devices.                        *)
Has(r, n, c, l) == \A i \in 1..l : \E j \in 1..n : r[j] = c[i]

(* Nothing is lost and nothing is added by grouping.                       *)
LEMMA GroupSocksIs ==
  ASSUME NEW X, NEW nics, NEW ln \in Nat, SeqOver(X, nics, ln), NEW gpus, NEW lg \in Nat, lg >= 1, SeqOver(X, gpus, lg),
         NEW per \in Nat, per <= 1 \/ lg * per <= ln, NEW r, r = GroupSocksForSwitches(nics, gpus, per)
  PROVE  SeqOver(X, r, ln + lg) /\ Has(r, ln + lg, nics, ln) /\ Has(r, ln + lg, gpus, lg)
<1>1. CASE per >= 1 /\ lg * per <= ln
  <2>1. SeqOver(X, r, ln + lg) /\ Groups(r, nics, gpus, per, lg) /\ Left(r, nics, lg, per, ln)
    <3>1. CASE per = 1
      <4>1. lg <= ln
        BY <1>1, <3>1
      <4> QED BY <3>1, <4>1, GroupedOne
    <3>2. CASE per >= 2
      BY <1>1, <3>2, GroupedMany
    <3> QED BY <1>1, <3>1, <3>2
  <2> DEFINE w == per + 1
             k == lg * per
  <2>2. w \in Nat /\ k \in Nat /\ k + lg <= ln + lg /\ lg * w = k + lg /\ lg \in Nat /\ w \in 1..w
        /\ \A e \in 1..per : e \in 1..w
    BY <1>1
  <2>3. ASSUME NEW g \in 1..lg, NEW e \in 1..w PROVE (g - 1) * w + e \in 1..(ln + lg)
    <3> DEFINE j == (g - 1) * w + e
    <3>1. j \in 1..(lg * w)
      BY <2>2, RowOf
    <3> HIDE DEF j, w, k
    <3> QED BY <2>2, <3>1 DEF j
  <2>4. ASSUME NEW i \in 1..lg PROVE \E j \in 1..(ln + lg) : r[j] = gpus[i]
    BY <2>1, <2>2, <2>3 DEF Groups, Group
  <2>5. ASSUME NEW i \in 1..ln PROVE \E j \in 1..(ln + lg) : r[j] = nics[i]
    <3>1. CASE i \in 1..k
      <4>1. PICK g \in 1..lg, e \in 1..per : i = (g - 1) * per + e
        <5>1. i \in 1..(lg * per)
          BY <3>1
        <5>2. Placed(i, lg, per)
          BY <5>1, PlacedIs
        <5> QED BY <5>2 DEF Placed
      <4>2. r[(g - 1) * w + e] = nics[i]
        BY <2>1, <4>1 DEF Groups, Group
      <4> QED BY <2>2, <2>3, <4>2
    <3>2. CASE i \in (k + 1)..ln
      <4>1. r[lg + i] = nics[i] /\ lg + i \in 1..(ln + lg)
        BY <2>1, <2>2, <3>2 DEF Left
      <4> QED BY <4>1
    <3> QED BY <2>2, <3>1, <3>2
  <2> QED BY <2>1, <2>4, <2>5 DEF Has
<1>2. CASE per <= 1 /\ ~(per >= 1 /\ lg * per <= ln)
  <2> DEFINE m == IF ln < lg THEN ln ELSE lg
             n == ln + lg
  <2>1. m \in Nat /\ n \in Nat /\ m = IF ln < lg THEN ln ELSE lg
    OBVIOUS
  <2>2. /\ \A i \in 1..m : 2 * i - 1 \in 1..n /\ 2 * i \in 1..n
        /\ \A i \in 1..ln : i \in 1..m \/ (i \in (m + 1)..ln /\ m + i \in 1..n)
        /\ \A i \in 1..lg : i \in 1..m \/ (i \in (m + 1)..lg /\ ln + i \in 1..n)
    OBVIOUS
  <2>3. r = RoundRobin(nics, gpus)
    BY <1>2 DEF GroupSocksForSwitches
  <2> HIDE DEF m
  <2>4. /\ SeqOver(X, r, n)
        /\ \A i \in 1..m : r[2 * i - 1] = nics[i] /\ r[2 * i] = gpus[i]
        /\ \A i \in (m + 1)..ln : r[m + i] = nics[i]
        /\ \A i \in (m + 1)..lg : r[ln + i] = gpus[i]
    <3>1. lg \in Nat
      OBVIOUS
    <3> QED BY <2>1, <2>3, <3>1, RoundRobinIs
  <2> HIDE DEF n
  <2>5. ASSUME NEW i \in 1..ln PROVE \E j \in 1..n : r[j] = nics[i]
    BY <2>2, <2>4
  <2>6. ASSUME NEW i \in 1..lg PROVE \E j \in 1..n : r[j] = gpus[i]
    BY <2>2, <2>4
  <2> QED BY <2>4, <2>5, <2>6 DEF Has, n
<1> QED BY <1>1, <1>2

(* The share of a GPU: as many as all GPUs can have.                       *)
LEMMA PerSwitch ==
  ASSUME NEW s, Accepted(s)
  PROVE  /\ NicsPerSwitch(s) \in Nat
         /\ NicsPerSwitch(s) <= 1 \/ s.rocjitsu * NicsPerSwitch(s) <= s.ernic
         /\ s.ernic \div s.rocjitsu \in Nat /\ s.rocjitsu * (s.ernic \div s.rocjitsu) <= s.ernic
<1> DEFINE a == s.ernic
           b == s.rocjitsu
<1>1. a \in Nat \ {0} /\ b \in Nat \ {0} /\ s.width \in Int
  BY Sizes
<1>2. NicsPerSwitch(s) = IF s.width > 0 THEN a \div b ELSE 1
  BY <1>1 DEF NicsPerSwitch
<1> HIDE DEF a, b
<1>3. PICK q \in Int : q = a \div b
  BY <1>1
<1>4. PICK r \in 0..(b - 1) : r = a % b
  BY <1>1
<1>5. a = b * q + r
  BY <1>1, <1>3, <1>4, QuotientIs
<1>6. q >= 0
  <2> SUFFICES ASSUME q <= -1 PROVE FALSE
    OBVIOUS
  <2>1. b * q <= -b
    BY <1>1
  <2> QED BY <2>1, <1>1, <1>5
<1>7. q \in Nat /\ b * q <= a
  <2>1. b * q \in Int
    BY <1>1
  <2> QED BY <1>1, <1>5, <1>6, <2>1
<1> QED BY <1>2, <1>3, <1>7 DEF a, b

(* What guest n attaches: the devices that are its own, all of them.       *)
Own(s, n) == Range(VmNics(s, n)) \cup Range(VmGpus(s, n)) \cup Range(VmSdxi(s, n))
Grouped(s, n) == GroupSocksForSwitches(VmNics(s, n), VmGpus(s, n), NicsPerSwitch(s))
SdxiCount(s) == IF s.sdxi < 0 THEN 0 ELSE s.sdxi

(* A guest's devices as sequences.                                         *)
LEMMA OwnAre ==
  ASSUME NEW s, Accepted(s), NEW n
  PROVE  /\ SeqOver(Own(s, n), VmNics(s, n), s.ernic) /\ SeqOver(Own(s, n), VmGpus(s, n), s.rocjitsu)
         /\ SeqOver(Own(s, n), VmSdxi(s, n), SdxiCount(s)) /\ SdxiCount(s) \in Nat
         /\ Range(VmNics(s, n)) = {VmNics(s, n)[d] : d \in 1..s.ernic}
         /\ Range(VmGpus(s, n)) = {VmGpus(s, n)[d] : d \in 1..s.rocjitsu}
         /\ Range(VmSdxi(s, n)) = {VmSdxi(s, n)[d] : d \in 1..SdxiCount(s)}
<1> DEFINE X == Own(s, n)
           a == VmNics(s, n)
           b == VmGpus(s, n)
           c == VmSdxi(s, n)
           k == SdxiCount(s)
<1>1. s.ernic \in Nat /\ s.rocjitsu \in Nat /\ s.sdxi \in Int
  BY Sizes
<1>2. k \in Nat /\ 1..s.sdxi = 1..k
  BY <1>1 DEF SdxiCount
<1>3. /\ DOMAIN a = 1..s.ernic /\ a = [d \in 1..s.ernic |-> a[d]]
      /\ DOMAIN b = 1..s.rocjitsu /\ b = [d \in 1..s.rocjitsu |-> b[d]]
      /\ DOMAIN c = 1..s.sdxi /\ c = [d \in 1..s.sdxi |-> c[d]]
  BY DEF VmNics, VmGpus, VmSdxi
<1> HIDE DEF a, b, c, k
<1>4. /\ Range(a) = {a[d] : d \in 1..s.ernic} /\ Range(b) = {b[d] : d \in 1..s.rocjitsu}
      /\ Range(c) = {c[d] : d \in 1..k}
  BY <1>2, <1>3, Zenon DEF Range
<1>5. X = Range(a) \cup Range(b) \cup Range(c)
  BY DEF Own, a, b, c
<1> HIDE DEF X
<1>6. a \in [1..s.ernic -> X] /\ b \in [1..s.rocjitsu -> X] /\ c \in [1..k -> X]
  <2>1. \A d \in 1..s.ernic : a[d] \in X
    BY <1>4, <1>5
  <2>2. \A d \in 1..s.rocjitsu : b[d] \in X
    BY <1>4, <1>5
  <2>3. \A d \in 1..k : c[d] \in X
    BY <1>4, <1>5
  <2>4. c = [d \in 1..k |-> c[d]]
    BY <1>2, <1>3, Zenon
  <2> QED BY <1>3, <2>1, <2>2, <2>3, <2>4, Zenon
<1>7. SeqOver(X, a, s.ernic) /\ SeqOver(X, b, s.rocjitsu) /\ SeqOver(X, c, k)
  BY <1>1, <1>2, <1>6, FunIsSeq
<1> QED BY <1>2, <1>4, <1>7 DEF X, a, b, c, k

(* A guest attaches its groups first, and attaches what is its own.        *)
LEMMA UserdevIs ==
  ASSUME NEW s, Accepted(s), NEW n
  PROVE  /\ SeqOver(Own(s, n), VfioUserdev(s, n), s.ernic + s.rocjitsu + SdxiCount(s))
         /\ From(VfioUserdev(s, n), 0, s.ernic + s.rocjitsu, Grouped(s, n))
         /\ Range(VfioUserdev(s, n)) = Own(s, n)
<1> DEFINE X == Own(s, n)
           a == VmNics(s, n)
           b == VmGpus(s, n)
           c == VmSdxi(s, n)
           f == Grouped(s, n)
           r == VfioUserdev(s, n)
           ka == s.ernic
           kb == s.rocjitsu
           kc == SdxiCount(s)
           kf == ka + kb
           k == kf + kc
           per == NicsPerSwitch(s)
<1>1. /\ ka \in Nat /\ kb \in Nat \ {0} /\ kb \in Nat /\ kc \in Nat /\ kf \in Nat /\ k \in Nat
      /\ per \in Nat /\ (per <= 1 \/ kb * per <= ka)
  <2>1. ka \in Nat \ {0} /\ kb \in Nat \ {0} /\ kc \in Nat
    BY Sizes, OwnAre
  <2>2. per \in Nat /\ (per <= 1 \/ kb * per <= ka)
    BY PerSwitch
  <2> HIDE DEF ka, kb, kc, per
  <2> QED BY <2>1, <2>2
<1>2. f = GroupSocksForSwitches(a, b, per) /\ IsBoth(r, f, c)
  BY DEF Grouped, VfioUserdev, IsBoth
<1>3. SeqOver(X, a, ka) /\ SeqOver(X, b, kb) /\ SeqOver(X, c, kc)
  BY OwnAre
<1>4. X = {a[d] : d \in 1..ka} \cup {b[d] : d \in 1..kb} \cup {c[d] : d \in 1..kc}
  <2>1. Range(a) = {a[d] : d \in 1..ka} /\ Range(b) = {b[d] : d \in 1..kb} /\ Range(c) = {c[d] : d \in 1..kc}
    BY OwnAre
  <2>2. X = Range(a) \cup Range(b) \cup Range(c)
    BY DEF Own
  <2> HIDE DEF X, a, b, c, ka, kb, kc
  <2> QED BY <2>1, <2>2
<1>5. \A d \in 1..kf : d \in 1..k /\ 0 + d = d
  BY <1>1
<1>6. \A d \in 1..kc : kf + d \in 1..k
  BY <1>1
<1> HIDE DEF X, a, b, c, f, r, ka, kb, kc, per
<1>7. SeqOver(X, f, ka + kb) /\ Has(f, ka + kb, a, ka) /\ Has(f, ka + kb, b, kb)
  BY <1>1, <1>2, <1>3, GroupSocksIs
<1> HIDE DEF kf
<1>8. SeqOver(X, r, kf + kc) /\ From(r, 0, kf, f) /\ From(r, kf, kc, c)
  BY <1>1, <1>2, <1>3, <1>7, Both DEF kf
<1> HIDE DEF k
<1>9. SeqOver(X, r, k)
  BY <1>8 DEF k
<1>10. Range(r) = {r[d] : d \in 1..k}
  <2>1. DOMAIN r = 1..k
    BY <1>1, <1>9 DEF SeqOver
  <2> QED BY <2>1, Zenon DEF Range
<1>11. Range(r) \subseteq X
  <2>1. \A d \in 1..k : r[d] \in X
    BY <1>1, <1>9 DEF SeqOver
  <2> QED BY <1>10, <2>1
<1>12. \A d \in 1..kf : f[d] \in Range(r)
  <2> SUFFICES ASSUME NEW d \in 1..kf PROVE f[d] \in Range(r)
    OBVIOUS
  <2>1. f[d] = r[0 + d]
    BY <1>8 DEF From
  <2> QED BY <1>5, <1>10, <2>1
<1>13. \A d \in 1..kc : c[d] \in Range(r)
  <2> SUFFICES ASSUME NEW d \in 1..kc PROVE c[d] \in Range(r)
    OBVIOUS
  <2>1. c[d] = r[kf + d]
    BY <1>8 DEF From
  <2> QED BY <1>6, <1>10, <2>1
<1>14. (\A d \in 1..ka : a[d] \in Range(r)) /\ (\A d \in 1..kb : b[d] \in Range(r))
  BY <1>7, <1>12 DEF Has, kf
<1>15. Range(r) = X
  BY <1>4, <1>11, <1>13, <1>14
<1> QED BY <1>8, <1>15 DEF X, f, r, ka, kb, kc, kf


(* A guest's device is one of the fleet's.                                 *)
LEMMA DeviceHere ==
  ASSUME NEW s, s.count \in Nat, NEW per \in Int, NEW n \in 1..s.count, NEW d \in 1..per
  PROVE  /\ VmDevices(per, n)[d] \in Range(Devices(s, per))
         /\ VmDevices(per, n)[d] = Devices(s, per)[(n - 1) * per + d]
<1> DEFINE o == (n - 1) * per + d
           devs == Devices(s, per)
<1>1. o \in 1..(s.count * per) /\ devs[o] = [n |-> n, d |-> d, o |-> o]
  BY DeviceOf
<1>2. VmDevices(per, n)[d] = [n |-> n, d |-> d, o |-> o]
  BY DEF VmDevices
<1>3. DOMAIN devs = 1..(s.count * per)
  BY DEF Devices
<1> HIDE DEF devs, o
<1>4. devs[o] \in Range(devs)
  BY <1>1, <1>3 DEF Range
<1> QED BY <1>1, <1>2, <1>4 DEF devs, o

(* ... and has a service, which the guest waits for.                       *)
LEMMA OwnExist ==
  ASSUME NEW s, Accepted(s), NEW n \in 1..s.count, NEW y \in Own(s, n)
  PROVE  /\ y \in Nics(s) \cup Gpus(s) \cup Sdxis(s)
         /\ On(y, "healthy") \in QemuDeps(s, n)
<1>1. s.count \in Nat /\ s.ernic \in Int /\ s.rocjitsu \in Int /\ s.sdxi \in Int
  BY Sizes
<1>2. On(y, "healthy") \in QemuDeps(s, n)
  BY DEF Own, QemuDeps
<1>3. CASE y \in Range(VmNics(s, n))
  <2>1. PICK d \in 1..s.ernic : y = Nic(s, VmDevices(s.ernic, n)[d])
    BY <1>3 DEF VmNics, Range
  <2>2. VmDevices(s.ernic, n)[d] \in Range(Devices(s, s.ernic))
    BY <1>1, DeviceHere
  <2> QED BY <1>2, <2>1, <2>2 DEF Nics
<1>4. CASE y \in Range(VmGpus(s, n))
  <2>1. PICK d \in 1..s.rocjitsu : y = Gpu(s, VmDevices(s.rocjitsu, n)[d])
    BY <1>4 DEF VmGpus, Range
  <2>2. VmDevices(s.rocjitsu, n)[d] \in Range(Devices(s, s.rocjitsu))
    BY <1>1, DeviceHere
  <2> QED BY <1>2, <2>1, <2>2 DEF Gpus
<1>5. CASE y \in Range(VmSdxi(s, n))
  <2>1. PICK d \in 1..s.sdxi : y = Sdxi(s, VmDevices(s.sdxi, n)[d])
    BY <1>5 DEF VmSdxi, Range
  <2>2. VmDevices(s.sdxi, n)[d] \in Range(Devices(s, s.sdxi))
    BY <1>1, DeviceHere
  <2> QED BY <1>2, <2>1, <2>2 DEF Sdxis
<1> QED BY <1>3, <1>4, <1>5 DEF Own

---------------------------------------------------------------------------
(* Guests.                                                                 *)
LEMMA GuestsHere ==
  ASSUME Shapes, Running, NEW n \in 1..settings.count
  PROVE  /\ Qemu(n) \in Names /\ Qemu(n)[1] = "qemu" /\ Qemu(n)[2] = n
         /\ \A y \in Socks(n) : y \in Names /\ On(y, "healthy") \in stack[Qemu(n)]
<1>1. Accepted(settings)
  BY DEF Shapes, Running
<1>2. PICK p \in Profiles : stack = Compose(settings, p)
  BY DEF Shapes
<1>3. /\ Qemu(n) \in Names /\ Qemu(n)[1] = "qemu" /\ Qemu(n)[2] = n
      /\ stack[Qemu(n)] = QemuDeps(settings, n)
  BY <1>1, <1>2, ComposeQemu DEF Names
<1>4. ASSUME NEW y \in Socks(n)
      PROVE  y \in Names /\ On(y, "healthy") \in stack[Qemu(n)]
  <2>1. y \in Own(settings, n)
    BY <1>1, UserdevIs DEF Socks, QemuService
  <2>2. y \in Nics(settings) \cup Gpus(settings) \cup Sdxis(settings)
        /\ On(y, "healthy") \in QemuDeps(settings, n)
    BY <1>1, <2>1, OwnExist
  <2>3. y \in Names
    BY <1>2, <2>2 DEF Names, Compose
  <2> QED BY <1>3, <2>2, <2>3
<1> QED BY <1>3, <1>4

(* A guest that exited is missing a device that died, or its program.      *)
Missing(n) == crashed \cap Socks(n) # {} \/ failed[Qemu(n)] = PipxInstall(settings)
Lost ==
    Running => /\ \A n \in 1..settings.count :
                     /\ svc[Qemu(n)] = "dead" => Missing(n)
                     /\ Qemu(n) \in DOMAIN failed /\ failed[Qemu(n)] \in 0..PipxInstall(settings)

Live == {"bound", "ready"}

(* A step keeps Alive if what it stops died, what it calls healthy is,     *)
(* and the guest it starts has all it needs.                               *)
LEMMA AliveKept ==
  ASSUME Shapes, Alive, Running, UNCHANGED <<settings, stack>>, crashed \subseteq crashed',
         \A x \in Names : svc[x] \in Live /\ svc'[x] \notin Live => x \in crashed' /\ health'[x] # "healthy",
         \A x \in Names : health'[x] = "healthy" => health[x] = "healthy" \/ svc'[x] \in Live,
         \A n \in 1..settings.count : svc[Qemu(n)] = "absent" /\ svc'[Qemu(n)] # "absent"
                                         => \A y \in Socks(n) : svc'[y] \in Live
  PROVE  Alive'
<1>1. Names' = Names /\ \A n : Socks(n)' = Socks(n)
  BY DEF Names, Socks
<1>2. ASSUME NEW x \in Names, health'[x] = "healthy" PROVE svc'[x] \in Live
  BY <1>2 DEF Alive, Live
<1>3. ASSUME NEW n \in 1..settings.count, NEW y \in Socks(n), svc'[Qemu(n)] # "absent"
      PROVE  svc'[y] \in Live \/ y \in crashed'
  <2>1. y \in Names
    BY <1>3, GuestsHere
  <2>2. CASE svc[Qemu(n)] = "absent"
    BY <1>3, <2>2
  <2>3. CASE svc[Qemu(n)] # "absent"
    <3>1. svc[y] \in Live \/ y \in crashed
      BY <1>3, <2>3 DEF Alive, Live
    <3> QED BY <2>1, <3>1
  <2> QED BY <2>2, <2>3
<1> QED BY <1>1, <1>2, <1>3 DEF Alive, Live

(* A step of service x that is not to start it.                            *)
LEMMA AliveMoves ==
  ASSUME Shapes, Alive, Running, UNCHANGED <<settings, stack>>, crashed \subseteq crashed',
         NEW x \in Names, svc[x] # "absent", NEW st \in SvcStates, svc' = [svc EXCEPT ![x] = st],
         svc[x] \in Live /\ st \notin Live => x \in crashed' /\ health'[x] # "healthy",
         \A y \in Names : health'[y] = "healthy" => health[y] = "healthy" \/ svc'[y] \in Live
  PROVE  Alive'
<1>1. svc \in [Names -> SvcStates]
  BY DEF Shapes
<1>2. \A y \in Names : svc'[y] = IF y = x THEN st ELSE svc[y]
  BY <1>1
<1>3. \A n \in 1..settings.count : svc[Qemu(n)] = "absent" => svc'[Qemu(n)] = "absent"
  BY <1>2, GuestsHere
<1>4. \A y \in Names : svc[y] \in Live /\ svc'[y] \notin Live => y \in crashed' /\ health'[y] # "healthy"
  BY <1>2
<1> QED BY <1>3, <1>4, AliveKept

(* Every step is such a step.                                              *)
LEMMA AliveStep == Shapes /\ Alive /\ [Next]_vars => Alive'
<1> SUFFICES ASSUME Shapes, Alive, [Next]_vars PROVE Alive'
  OBVIOUS
<1>1. CASE Plan
  BY <1>1 DEF Plan, Running, Alive
<1>2. CASE Up
  <2>1. /\ phase = "rendered" /\ UNCHANGED <<settings, crashed>>
        /\ svc' = [x \in DOMAIN stack' |-> "absent"] /\ health' = [x \in DOMAIN stack' |-> "starting"]
    BY <1>2 DEF Up
  <2>2. PICK p \in Profiles : stack' = Compose(settings, p)
    BY <1>2 DEF Up
  <2>3. Accepted(settings)
    BY <2>1 DEF Shapes
  <2>4. \A n \in 1..settings.count : svc'[Qemu(n)] = "absent"
    BY <2>1, <2>2, <2>3, ComposeQemu
  <2>5. \A x \in Names' : health'[x] = "starting"
    BY <2>1 DEF Names
  <2> QED BY <2>1, <2>4, <2>5 DEF Alive
<1>3. CASE UpFails \/ UpEnds \/ UNCHANGED vars
  <2>1. UNCHANGED <<settings, stack, svc, health, crashed>> /\ (Running' => Running)
    BY <1>3 DEF UpFails, UpEnds, vars, Running
  <2> QED BY <2>1 DEF Alive, Names, Socks
<1>4. ASSUME Running, NEW x \in Names, Works(x) \/ Fails(x) PROVE Alive'
  <2>0. svc \in [Names -> SvcStates] /\ health \in [Names -> Verdicts]
        /\ UNCHANGED <<settings, stack>> /\ svc[x] \in SvcStates
    BY <1>4, Effects DEF Shapes
  <2>1. CASE StartService(x)
    <3>1. /\ svc[x] = "absent" /\ svc' = [svc EXCEPT ![x] = "starting"] /\ UNCHANGED <<health, crashed>>
          /\ \A d \in stack[x] : Met(d)
      BY <2>1 DEF StartService
    <3>2. \A y \in Names : svc'[y] = IF y = x THEN "starting" ELSE svc[y]
      BY <2>0, <3>1
    <3>3. \A y \in Names : svc[y] \in Live => svc'[y] \in Live
      BY <3>1, <3>2 DEF Live
    <3>4. ASSUME NEW n \in 1..settings.count, svc[Qemu(n)] = "absent", svc'[Qemu(n)] # "absent",
                 NEW y \in Socks(n)
          PROVE  svc'[y] \in Live
      <4>1. Qemu(n) = x
        BY <1>4, <3>2, <3>4, GuestsHere
      <4>2. y \in Names /\ Met(On(y, "healthy"))
        BY <1>4, <3>1, <4>1, GuestsHere
      <4>3. health[y] = "healthy"
        BY <4>2 DEF Met, On
      <4>4. svc[y] \in Live
        BY <1>4, <4>2, <4>3 DEF Alive, Live
      <4> QED BY <3>3, <4>2, <4>4
    <3> QED BY <1>4, <2>0, <3>1, <3>3, <3>4, AliveKept
  <2>2. CASE MakeTap(x) \/ Bind(x) \/ Listen(x) \/ Register(x) \/ Attach(x) \/ Serve(x) \/ Restart(x)
    <3>1. PICK st \in SvcStates : svc' = [svc EXCEPT ![x] = st] /\ (svc[x] \in Live => st \in Live)
      BY <2>2 DEF MakeTap, Bind, Listen, Register, Attach, Serve, Restart, Becomes, SvcStates, Live
    <3>2. svc[x] # "absent" /\ UNCHANGED <<health, crashed>>
      BY <2>2 DEF MakeTap, Bind, Listen, Register, Attach, Serve, Restart
    <3> QED BY <1>4, <2>0, <3>1, <3>2, AliveMoves
  <2>3. CASE CheckPasses(x)
    <3>1. svc[x] = "ready" /\ health' = [health EXCEPT ![x] = "healthy"] /\ UNCHANGED <<svc, crashed>>
      BY <2>3 DEF CheckPasses, Healthy
    <3>2. \A y \in Names : health'[y] = "healthy" => health[y] = "healthy" \/ svc'[y] \in Live
      BY <2>0, <3>1 DEF Live
    <3> QED BY <1>4, <2>0, <3>1, <3>2, AliveKept
  <2>4. CASE CheckFails(x)
    <3>1. health' = [health EXCEPT ![x] = "unhealthy"] /\ UNCHANGED <<svc, crashed>>
      BY <2>4 DEF CheckFails
    <3>2. \A y \in Names : health'[y] = "healthy" => health[y] = "healthy"
      BY <2>0, <3>1
    <3> QED BY <1>4, <2>0, <3>1, <3>2, AliveKept
  <2>5. CASE GiveUpOnTap(x) \/ (Crash(x) /\ x # Manager)
    <3>1. /\ svc' = [svc EXCEPT ![x] = "dead"] /\ health' = [health EXCEPT ![x] = "starting"]
          /\ crashed' = crashed \cup {x} /\ svc[x] # "absent"
      BY <2>5 DEF GiveUpOnTap, Crash, Dies, Becomes
    <3>2. \A y \in Names : health'[y] = "healthy" => y # x /\ health[y] = "healthy"
      BY <2>0, <3>1
    <3>3. "dead" \in SvcStates /\ x \in crashed' /\ health'[x] # "healthy"
      BY <2>0, <3>1 DEF SvcStates
    <3> QED BY <1>4, <2>0, <3>1, <3>2, <3>3, AliveMoves
  <2>6. CASE Crash(x) /\ x = Manager
    <3>1. /\ health' = [health EXCEPT ![x] = "starting"]
          /\ crashed' = crashed \cup {x} /\ svc[x] \in Live
          /\ svc' = [y \in Names |-> IF y = x THEN "dead"
                       ELSE IF IsNic(y) /\ svc[y] = "ready" THEN "bound" ELSE svc[y]]
      BY <2>6 DEF Crash, Live
    <3>2. \A y \in Names : health'[y] = "healthy" => y # x /\ health[y] = "healthy"
      BY <2>0, <3>1
    <3>3. \A y \in Names : svc[y] \in Live /\ svc'[y] \notin Live => y \in crashed' /\ health'[y] # "healthy"
      BY <3>1, <3>2 DEF Live
    <3>4. \A n \in 1..settings.count : svc[Qemu(n)] = "absent" => svc'[Qemu(n)] = "absent"
      BY <1>4, <3>1, GuestsHere DEF Live
    <3> QED BY <1>4, <2>0, <3>1, <3>2, <3>3, <3>4, AliveKept
  <2>7. CASE InstallFails(x)
    <3>1. UNCHANGED <<svc, health, crashed>>
      BY <2>7 DEF InstallFails
    <3> QED BY <1>4, <2>0, <3>1, AliveKept
  <2> QED BY <1>4, <2>1, <2>2, <2>3, <2>4, <2>5, <2>6, <2>7 DEF Works, Fails
<1> QED BY <1>1, <1>2, <1>3, <1>4 DEF Next, Work

(* A QEMU exits at a socket that is missing, and what is missing died; or   *)
(* it is not there to be started, and every round to install it failed.    *)
LEMMA LostStep == Shapes /\ Alive /\ Lost /\ [Next]_vars => Lost'
<1> SUFFICES ASSUME Shapes, Alive, Lost, [Next]_vars PROVE Lost'
  OBVIOUS
<1>0. PipxInstall(settings) \in {1, 5}
  BY DEF PipxInstall
<1>1. CASE Plan
  BY <1>1 DEF Plan, Running, Lost
<1>2. CASE Up
  <2>1. /\ phase = "rendered" /\ UNCHANGED settings /\ svc' = [x \in DOMAIN stack' |-> "absent"]
        /\ failed' = [x \in {y \in DOMAIN stack' : Installs(y)} |-> 0]
    BY <1>2 DEF Up
  <2>2. PICK p \in Profiles : stack' = Compose(settings, p)
    BY <1>2 DEF Up
  <2>3. Accepted(settings)
    BY <2>1 DEF Shapes
  <2>4. \A n \in 1..settings.count : svc'[Qemu(n)] = "absent" /\ Qemu(n) \in DOMAIN stack' /\ Installs(Qemu(n))
    BY <2>1, <2>2, <2>3, ComposeQemu DEF Installs
  <2>5. \A n \in 1..settings.count : Qemu(n) \in DOMAIN failed' /\ failed'[Qemu(n)] = 0
    BY <2>1, <2>4
  <2> QED BY <1>0, <2>1, <2>4, <2>5 DEF Lost, PipxInstall
<1>3. CASE UpFails \/ UpEnds \/ UNCHANGED vars
  <2>1. UNCHANGED <<settings, svc, crashed, failed>> /\ (Running' => Running)
    BY <1>3 DEF UpFails, UpEnds, vars, Running
  <2> QED BY <2>1 DEF Lost, Missing, Socks
<1>4. ASSUME Running, NEW x \in Names, Works(x) \/ Fails(x) PROVE Lost'
  <2> SUFFICES ASSUME NEW n \in 1..settings.count
               PROVE  /\ svc'[Qemu(n)] = "dead" => Missing(n)'
                      /\ Qemu(n) \in DOMAIN failed' /\ failed'[Qemu(n)] \in 0..PipxInstall(settings)
    <3>1. UNCHANGED settings
      BY <1>4, Effects
    <3> QED BY <3>1 DEF Lost, PipxInstall
  <2>0. svc \in [Names -> SvcStates] /\ Qemu(n) \in Names /\ Qemu(n)[1] = "qemu" /\ Qemu(n)[2] = n
        /\ UNCHANGED settings /\ Qemu(n) \in DOMAIN failed /\ failed[Qemu(n)] \in 0..PipxInstall(settings)
    BY <1>4, GuestsHere, Effects DEF Shapes, Lost
  <2>1. crashed \subseteq crashed' /\ PipxInstall(settings)' = PipxInstall(settings)
        /\ Socks(n)' = Socks(n)
    <3>1. crashed \subseteq crashed'
      BY <1>4 DEF Works, Fails, StartService, MakeTap, Bind, Listen, Register, Attach, Serve, Restart,
                  CheckPasses, InstallFails, GiveUpOnTap, Crash, CheckFails, Dies
    <3> QED BY <2>0, <3>1 DEF PipxInstall, Socks
  <2>2. CASE InstallFails(x)
    <3>1. /\ svc[x] = "starting" /\ failed[x] < PipxInstall(settings) /\ svc' = svc
          /\ failed' = [failed EXCEPT ![x] = @ + 1]
      BY <2>2 DEF InstallFails
    <3>2. DOMAIN failed' = DOMAIN failed
      BY <3>1
    <3>3. CASE x = Qemu(n)
      <4>1. failed'[Qemu(n)] = failed[Qemu(n)] + 1
        BY <2>0, <3>1, <3>3
      <4>2. failed[Qemu(n)] + 1 \in 0..PipxInstall(settings)
        BY <1>0, <2>0, <3>1, <3>3
      <4> QED BY <2>0, <3>1, <3>2, <3>3, <4>1, <4>2
    <3>4. CASE x # Qemu(n)
      <4>1. failed'[Qemu(n)] = failed[Qemu(n)]
        BY <2>0, <3>1, <3>4
      <4>2. svc[Qemu(n)] = "dead" => Missing(n)
        BY <1>4 DEF Lost
      <4>3. svc'[Qemu(n)] = "dead" => Missing(n)'
        BY <2>1, <3>1, <4>1, <4>2 DEF Missing
      <4> QED BY <2>0, <3>2, <4>1, <4>3
    <3> QED BY <3>3, <3>4
  <2>3. CASE ~InstallFails(x)
    <3>0. UNCHANGED failed
      BY <1>4, <2>3 DEF Works, Fails, StartService, MakeTap, Bind, Listen, Register, Attach, Serve, Restart,
                CheckPasses, GiveUpOnTap, Crash, CheckFails
    <3> SUFFICES ASSUME svc'[Qemu(n)] = "dead" PROVE Missing(n)
      BY <2>0, <2>1, <3>0 DEF Missing
    <3>1. CASE svc[Qemu(n)] = "dead"
      BY <1>4, <3>1 DEF Lost
    <3>2. CASE svc[Qemu(n)] # "dead" /\ Attach(x)
      <4>1. x = Qemu(n)
        BY <1>4, <2>0, <3>2 DEF Attach, Becomes
      <4>2. ~(Installed(x) /\ \A y \in Socks(n) : svc[y] \in Live) /\ svc[Qemu(n)] = "starting"
        BY <2>0, <3>2, <4>1 DEF Attach, Becomes, Socks, Live
      <4>3. CASE ~Installed(x)
        BY <1>0, <2>0, <4>1, <4>3 DEF Installed, Missing
      <4>4. ASSUME NEW y \in Socks(n), svc[y] \notin Live PROVE Missing(n)
        <5>1. y \in crashed
          BY <1>4, <4>2, <4>4 DEF Alive, Live
        <5> QED BY <5>1 DEF Missing
      <4> QED BY <4>2, <4>3, <4>4
    <3>3. CASE svc[Qemu(n)] # "dead" /\ ~Attach(x)
      <4>1. CASE GiveUpOnTap(x)
        BY <2>0, <3>3, <4>1 DEF GiveUpOnTap, Dies, Becomes, HasTap, IsNic
      <4>2. CASE Crash(x)
        BY <2>0, <3>3, <4>2 DEF Crash, Becomes
      <4>3. CASE MakeTap(x) \/ StartService(x) \/ Bind(x) \/ Listen(x) \/ Register(x) \/ Restart(x)
        <5>1. PICK st : svc' = [svc EXCEPT ![x] = st] /\ st # "dead"
          BY <4>3 DEF StartService, MakeTap, Bind, Listen, Register, Restart, Becomes
        <5> QED BY <2>0, <3>3, <5>1
      <4>4. CASE Serve(x)
        <5>1. x # Qemu(n) /\ \E st : svc' = [svc EXCEPT ![x] = st]
          BY <2>0, <4>4 DEF Serve, Becomes
        <5> QED BY <2>0, <3>3, <5>1
      <4>5. CASE CheckPasses(x) \/ CheckFails(x)
        BY <3>3, <4>5 DEF CheckPasses, CheckFails
      <4> QED BY <1>4, <2>3, <3>3, <4>1, <4>2, <4>3, <4>4, <4>5 DEF Works, Fails
    <3> QED BY <3>1, <3>2, <3>3
  <2> QED BY <2>2, <2>3
<1> QED BY <1>1, <1>2, <1>3, <1>4 DEF Next, Work

(* A guest is lost only to a crash of a server it attaches, or to an       *)
(* installation all of whose rounds failed: it starts when all it attaches *)
(* is healthy, what was healthy has its socket until it dies, and a failed *)
(* round is followed by another as long as there is one, whatever the      *)
(* order of starts, checks and restarts (gen_compose.py:1077-1091,         *)
(* 1417-1441).                                                             *)
THEOREM GuestsStart == Spec => []GuestsLostOnlyToFailures
<1>1. Init => Alive /\ Lost
  BY DEF Init, Alive, Lost, Running
<1>2. Lost => GuestsLostOnlyToFailures
  BY DEF Lost, Missing, GuestsLostOnlyToFailures, Socks
<1>3. Spec => []Lost
  BY <1>1, InitShapes, ShapesStep, AliveStep, LostStep, PTL DEF Spec
<1> QED BY <1>2, <1>3, PTL

---------------------------------------------------------------------------
(* What the files say.                                                     *)
LEMMA NicOfGuest ==
  ASSUME NEW s, Accepted(s), NEW n \in 1..s.count, NEW d \in 1..s.ernic
  PROVE  /\ (n - 1) * s.ernic + d \in 1..NicCount(s)
         /\ VmNics(s, n)[d] = NicAt(s, (n - 1) * s.ernic + d)
<1> DEFINE o == (n - 1) * s.ernic + d
<1>1. s.count \in Nat /\ s.ernic \in Int /\ NicCount(s) = s.count * s.ernic
  BY Sizes
<1>2. o \in 1..(s.count * s.ernic)
  BY <1>1, DeviceOf
<1>3. VmDevices(s.ernic, n)[d] = Devices(s, s.ernic)[o]
  BY <1>1, DeviceHere
<1> HIDE DEF o
<1>4. VmNics(s, n)[d] = Nic(s, VmDevices(s.ernic, n)[d])
  BY DEF VmNics
<1> QED BY <1>1, <1>2, <1>3, <1>4 DEF NicAt, o

(* A NIC is attached by the guest it is numbered for.                      *)
LEMMA OwnNics ==
  ASSUME NEW s, Accepted(s), NEW n \in 1..s.count, NEW o \in 1..NicCount(s)
  PROVE  NicAt(s, o) \in Own(s, n) <=> \E d \in 1..s.ernic : o = (n - 1) * s.ernic + d
<1>1. NicAt(s, o)[1] = "ernic"
  BY NicNamed DEF NicIs
<1>2. NicAt(s, o) \notin Range(VmGpus(s, n))
  <2> SUFFICES ASSUME NEW d \in 1..s.rocjitsu, NicAt(s, o) = VmGpus(s, n)[d] PROVE FALSE
    BY OwnAre
  <2> DEFINE v == VmDevices(s.rocjitsu, n)[d]
  <2>1. NicAt(s, o) = <<"rocjitsu">> \o DevSuffix(v.n, v.d, s.rocjitsu)
    BY DEF VmGpus, Gpu
  <2> HIDE DEF v
  <2>2. NicAt(s, o)[1] = "rocjitsu"
    BY <2>1, NameTells DEF Named
  <2> QED BY <1>1, <2>2
<1>3. NicAt(s, o) \notin Range(VmSdxi(s, n))
  <2> SUFFICES ASSUME NEW d \in 1..s.sdxi, NicAt(s, o) = VmSdxi(s, n)[d] PROVE FALSE
    BY DEF VmSdxi, Range
  <2> DEFINE v == VmDevices(s.sdxi, n)[d]
  <2>1. NicAt(s, o) = <<"sdxi">> \o DevSuffix(v.n, v.d, s.sdxi)
    BY DEF VmSdxi, Sdxi
  <2> HIDE DEF v
  <2>2. NicAt(s, o)[1] = "sdxi"
    BY <2>1, NameTells DEF Named
  <2> QED BY <1>1, <2>2
<1>4. Range(VmNics(s, n)) = {VmNics(s, n)[d] : d \in 1..s.ernic}
  BY OwnAre
<1>5. NicAt(s, o) \in Own(s, n) <=> NicAt(s, o) \in {VmNics(s, n)[d] : d \in 1..s.ernic}
  BY <1>2, <1>3, <1>4 DEF Own
<1>6. ASSUME NEW d \in 1..s.ernic
      PROVE  NicAt(s, o) = VmNics(s, n)[d] <=> o = (n - 1) * s.ernic + d
  <2> DEFINE p == (n - 1) * s.ernic + d
  <2>1. p \in 1..NicCount(s) /\ VmNics(s, n)[d] = NicAt(s, p)
    BY NicOfGuest
  <2> HIDE DEF p
  <2>2. NicAt(s, o) = NicAt(s, p) <=> o = p
    BY <2>1, NicAtTells
  <2> QED BY <2>1, <2>2 DEF p
<1> QED BY <1>5, <1>6

(* The three files agree: a guest attaches exactly the NICs whose MACs and *)
(* addresses the inventory lists for it, on the port it publishes, and     *)
(* Prometheus scrapes addresses that are given out (gen_compose.py:        *)
(* 1871-2079).                                                             *)
THEOREM Artifacts == Spec => []ArtifactsAgree
<1>1. Shapes => ArtifactsAgree
  <2> SUFFICES ASSUME Shapes, Planned PROVE ArtifactsAgree
    BY DEF ArtifactsAgree
  <2> DEFINE s == settings
             NicsOf(n) == {o \in 1..NicCount(s) : NicService(s, o).sock \in Range(QemuService(s, n).userdev)}
  <2>1. Accepted(s)
    BY DEF Shapes, Planned
  <2> HIDE DEF s
  <2>2. ASSUME NEW n \in 1..s.count
        PROVE  /\ Inventory(s)[n].port = QemuService(s, n).port
               /\ {<<e.mac, e.ip>> : e \in Range(Inventory(s)[n].nics)} = {NicService(s, o).gids : o \in NicsOf(n)}
    <3> DEFINE ord(d) == (n - 1) * s.ernic + d
               told == [d \in 1..s.ernic |-> [mac |-> Mac(ord(d)), ip |-> Ip(ord(d))]]
    <3>1. Inventory(s)[n] = [port |-> n - 1, nics |-> told]
      BY DEF Inventory, InventoryNics
    <3>2. {<<e.mac, e.ip>> : e \in Range(told)} = {<<Mac(ord(d)), Ip(ord(d))>> : d \in 1..s.ernic}
      <4>1. DOMAIN told = 1..s.ernic
            /\ \A d \in 1..s.ernic : told[d].mac = Mac(ord(d)) /\ told[d].ip = Ip(ord(d))
        OBVIOUS
      <4> HIDE DEF told, ord
      <4>2. Range(told) = {told[d] : d \in 1..s.ernic}
        BY <4>1, Zenon DEF Range
      <4> QED BY <4>1, <4>2
    <3>3. NicsOf(n) = {o \in 1..NicCount(s) : NicAt(s, o) \in Own(s, n)}
      BY <2>1, UserdevIs DEF NicService, QemuService
    <3>4. NicsOf(n) = {ord(d) : d \in 1..s.ernic}
      <4>1. \A o \in 1..NicCount(s) : NicAt(s, o) \in Own(s, n) <=> \E d \in 1..s.ernic : o = ord(d)
        BY <2>1, OwnNics
      <4>2. \A d \in 1..s.ernic : ord(d) \in 1..NicCount(s)
        BY <2>1, NicOfGuest
      <4> HIDE DEF ord, NicsOf
      <4> QED BY <3>3, <4>1, <4>2
    <3>5. \A o : NicService(s, o).gids = <<Mac(o), Ip(o)>>
      BY DEF NicService
    <3>6. Inventory(s)[n].port = QemuService(s, n).port
      BY <3>1 DEF QemuService
    <3> HIDE DEF ord, NicsOf, told
    <3>7. {NicService(s, o).gids : o \in NicsOf(n)} = {<<Mac(ord(d)), Ip(ord(d))>> : d \in 1..s.ernic}
      BY <3>4, <3>5
    <3> QED BY <3>1, <3>2, <3>6, <3>7
  <2>3. Prometheus(s) \subseteq {e[2] : e \in Addresses(s)}
    <3> SUFFICES ASSUME NEW a \in Prometheus(s) PROVE \E e \in Addresses(s) : e[2] = a
      OBVIOUS
    <3>1. CASE a \in {<<NET_QEMU, n>> : n \in 1..s.count}
      <4>1. PICK n \in 1..s.count : a = <<NET_QEMU, n>>
        BY <3>1
      <4>2. <<Qemu(n), a>> \in Addresses(s)
        BY <4>1 DEF Addresses
      <4> QED BY <4>2
    <3>2. CASE a \in {<<NET_INFRA, InfraOctet[x]>> : x \in {<<"exporter">>} \cup Lmcache(s)}
      <4>1. PICK x \in {<<"exporter">>} \cup Lmcache(s) : a = <<NET_INFRA, InfraOctet[x]>>
        BY <3>2
      <4>2. x \in Metrics(s) \cup Lmcache(s)
        BY DEF Metrics
      <4>3. <<x, a>> \in Addresses(s)
        BY <4>1, <4>2 DEF Addresses
      <4> QED BY <4>3
    <3> QED BY <3>1, <3>2 DEF Prometheus
  <2> QED BY <2>2, <2>3 DEF ArtifactsAgree, s
<1>2. Spec => []Shapes
  BY InitShapes, ShapesStep, PTL DEF Spec
<1> QED BY <1>1, <1>2, PTL

(* In any fleet whose switches are as wide as a GPU and its share of the   *)
(* NICs, the order in which a guest attaches its devices puts every GPU    *)
(* under a switch with exactly its NICs (gen_compose.py:677-687, run_vm.py: *)
(* 445-464).                                                               *)
THEOREM SwitchFits == Spec => []SwitchHoldsAGpuAndItsNics
<1>1. Shapes => SwitchHoldsAGpuAndItsNics
  <2> DEFINE s == settings
             per == s.ernic \div s.rocjitsu
             w == per + 1
  <2> SUFFICES ASSUME Shapes, Planned, per >= 1, s.width = per + 1,
                      NEW n \in 1..s.count, NEW g \in 1..s.rocjitsu
               PROVE  Range(Switches(s, n)[g]) =
                         {VmGpus(s, n)[g]} \cup {VmNics(s, n)[d] : d \in ((g - 1) * per + 1)..(g * per)}
    BY DEF SwitchHoldsAGpuAndItsNics
  <2>1. Accepted(s)
    BY DEF Shapes, Planned
  <2> DEFINE socks == VfioUserdev(s, n)
             nics == VmNics(s, n)
             gpus == VmGpus(s, n)
             X == Own(s, n)
             ln == s.ernic
             lg == s.rocjitsu
             kf == ln + lg
             k == kf + SdxiCount(s)
             f == Grouped(s, n)
             t == SubSeq(socks, (g - 1) * w + 1, g * w)
  <2>2. /\ ln \in Nat /\ lg \in Nat /\ lg >= 1 /\ per \in Nat /\ per >= 1 /\ w \in Nat /\ lg * per <= ln
        /\ SdxiCount(s) \in Nat /\ g \in 1..lg
    <3>1. ln \in Nat \ {0} /\ lg \in Nat \ {0} /\ SdxiCount(s) \in Nat /\ g \in 1..lg
      BY <2>1, Sizes, OwnAre
    <3>2. per \in Nat /\ lg * per <= ln
      BY <2>1, PerSwitch
    <3> HIDE DEF per, ln, lg
    <3> QED BY <3>1, <3>2
  <2>3. SeqOver(X, socks, k) /\ From(socks, 0, kf, f)
    BY <2>1, UserdevIs
  <2>4. SeqOver(X, nics, ln) /\ SeqOver(X, gpus, lg)
    BY <2>1, OwnAre
  <2>5. f = GroupSocksForSwitches(nics, gpus, per)
    <3>1. s.width > 0 /\ s.rocjitsu > 0
      BY <2>2
    <3> QED BY <3>1 DEF Grouped, NicsPerSwitch
  <2> HIDE DEF per, s
  <2>6. Groups(f, nics, gpus, per, lg)
    <3> HIDE DEF f, nics, gpus, X, ln, lg
    <3>1. CASE per = 1
      <4>1. lg <= ln
        BY <2>2, <3>1
      <4> QED BY <2>2, <2>4, <2>5, <3>1, <4>1, GroupedOne
    <3>2. CASE per >= 2
      BY <2>2, <2>4, <2>5, <3>2, GroupedMany
    <3> QED BY <2>2, <3>1, <3>2
  <2> HIDE DEF socks, nics, gpus, X, ln, lg, f
  <2>7. /\ k \in Nat /\ (g - 1) * w \in Nat /\ (g - 1) * w + w = g * w /\ g * w <= k
        /\ \A e \in 1..w : (g - 1) * w + e \in 1..kf /\ 0 + ((g - 1) * w + e) = (g - 1) * w + e
        /\ \A e \in 1..w : e \in 1..per \/ e = per + 1
        /\ \A e \in 1..per : e \in 1..w
        /\ w \in 1..w
    <3>1. lg * w = lg * per + lg /\ lg * w <= kf
      BY <2>2
    <3>2. (g - 1) * w \in Nat /\ (g - 1) * w + w = g * w /\ g * w <= lg * w
      BY <2>2
    <3>3. \A e \in 1..w : (g - 1) * w + e \in 1..(lg * w)
      BY <2>2, RowOf
    <3>4. lg * w \in Int /\ g * w \in Int /\ kf \in Nat /\ k \in Nat /\ kf <= k
      BY <2>2
    <3>5. \A e \in 1..w : (g - 1) * w + e \in 1..kf
      BY <3>1, <3>3, <3>4
    <3>6. g * w <= k
      BY <3>1, <3>2, <3>4
    <3>7. \A e \in 1..w : 0 + ((g - 1) * w + e) = (g - 1) * w + e
      BY <3>2
    <3> QED BY <2>2, <3>2, <3>4, <3>5, <3>6, <3>7
  <2>8. Switches(s, n)[g] = t
    <3>1. g \in 1..(Len(socks) \div s.width)
      <4> HIDE DEF k, w
      <4>0. k \in Int /\ w \in Int /\ w > 0 /\ g \in Int /\ g * w <= k /\ g >= 1
        BY <2>2, <2>7 DEF w
      <4>1. g \in 1..(k \div w)
        BY <4>0, FullRows
      <4>3. Len(socks) = k /\ s.width = w
        BY <2>3 DEF SeqOver, s, per, w
      <4> QED BY <4>1, <4>3
    <3>2. s.width = w
      BY DEF s, per
    <3> QED BY <3>1, <3>2 DEF Switches, socks
  <2>9. SeqOver(X, t, w) /\ From(socks, (g - 1) * w, w, t)
    <3> DEFINE m == (g - 1) * w
               l == g * w
    <3>1. m \in Nat /\ m + w <= k /\ l = m + w /\ t = SubSeq(socks, m + 1, l)
      BY <2>7
    <3> HIDE DEF m, l, t, k
    <3>2. SeqOver(X, t, w) /\ From(socks, m, w, t)
      BY <2>2, <2>3, <2>7, <3>1, PartIs
    <3> QED BY <3>2 DEF m
  <2>10. ASSUME NEW e \in 1..w PROVE t[e] = f[(g - 1) * w + e]
    <3> DEFINE j == (g - 1) * w + e
    <3>1. j \in 1..kf /\ 0 + j = j
      BY <2>7
    <3>2. t[e] = socks[j]
      BY <2>9 DEF From
    <3> HIDE DEF j, t
    <3>3. f[j] = socks[0 + j]
      BY <2>3, <3>1 DEF From
    <3> QED BY <3>1, <3>2, <3>3 DEF j
  <2>11. Range(t) = {t[e] : e \in 1..w}
    <3>1. DOMAIN t = 1..w
      BY <2>9 DEF SeqOver
    <3> HIDE DEF t
    <3> QED BY <3>1, Zenon DEF Range
  <2>12. t[w] = gpus[g] /\ \A e \in 1..per : t[e] = nics[(g - 1) * per + e]
    <3>1. Group(f, nics, gpus, per, g)
      BY <2>2, <2>6 DEF Groups
    <3> HIDE DEF t
    <3>2. f[(g - 1) * w + w] = gpus[g] /\ \A e \in 1..per : f[(g - 1) * w + e] = nics[(g - 1) * per + e]
      BY <3>1 DEF Group
    <3> QED BY <2>7, <2>10, <3>2
  <2>13. {nics[d] : d \in ((g - 1) * per + 1)..(g * per)} = {nics[(g - 1) * per + e] : e \in 1..per}
    <3> DEFINE a == (g - 1) * per
    <3>1. a \in Nat /\ g * per = a + per
      BY <2>2
    <3> HIDE DEF a
    <3>2. \A d \in (a + 1)..(a + per) : d - a \in 1..per /\ a + (d - a) = d
      BY <2>2, <3>1
    <3>3. \A e \in 1..per : a + e \in (a + 1)..(a + per)
      BY <2>2, <3>1
    <3>4. {nics[d] : d \in (a + 1)..(a + per)} = {nics[a + e] : e \in 1..per}
      BY <3>2, <3>3
    <3> QED BY <3>1, <3>4 DEF a
  <2>14. Range(t) = {gpus[g]} \cup {nics[(g - 1) * per + e] : e \in 1..per}
    <3> HIDE DEF t, w
    <3>1. \A e \in 1..w : e \in 1..per \/ e = w
      BY <2>7 DEF w
    <3>2. \A e \in 1..per : e \in 1..w
      BY <2>7
    <3>3. w \in 1..w
      BY <2>7
    <3> QED BY <2>11, <2>12, <3>1, <3>2, <3>3
  <2> QED BY <2>8, <2>13, <2>14 DEF nics, gpus
<1>2. Spec => []Shapes
  BY InitShapes, ShapesStep, PTL DEF Spec
<1> QED BY <1>1, <1>2, PTL


---------------------------------------------------------------------------
(* Addresses.                                                              *)
DevEntry(s, e, kind, per, net) ==
    \E n \in 1..s.count, d \in 1..per :
       e = << <<kind>> \o DevSuffix(n, d, per), <<net, (n - 1) * per + d>> >>
GuestEntry(s, e) == \E n \in 1..s.count : e = <<Qemu(n), <<NET_QEMU, n>>>>
InfraNames == {<<"exporter">>, <<"prometheus">>, <<"coordinator">>, <<"grafana">>,
               <<"lmcache-stats">>, <<"loki">>, <<"alloy">>}
InfraEntry(e) == \E x \in InfraNames : e = <<x, <<NET_INFRA, InfraOctet[x]>>>>

(* The devices of one kind, from their numbers.                            *)
LEMMA DevEntries ==
  ASSUME NEW s, s.count \in Nat, NEW per \in Int, NEW v \in Range(Devices(s, per)), NEW kind, NEW net
  PROVE  DevEntry(s, << <<kind>> \o DevSuffix(v.n, v.d, per), <<net, v.o>> >>, kind, per, net)
<1> DEFINE devs == Devices(s, per)
<1>1. DOMAIN devs = 1..(s.count * per)
  BY DEF Devices
<1> HIDE DEF devs
<1>2. PICK o \in 1..(s.count * per) : v = devs[o]
  BY <1>1 DEF Range, devs
<1>3. Placed(o, s.count, per)
  BY PlacedIs
<1>4. PICK n \in 1..s.count, d \in 1..per : o = (n - 1) * per + d
  BY <1>3 DEF Placed
<1> DEFINE p == (n - 1) * per + d
<1>5. devs[p] = [n |-> n, d |-> d, o |-> p]
  BY DeviceOf DEF devs
<1>6. v = devs[p]
  BY <1>2, <1>4
<1>7. v.n = n /\ v.d = d /\ v.o = p
  <2> HIDE DEF p
  <2> QED BY <1>5, <1>6
<1> QED BY <1>7 DEF DevEntry

(* An address is a device's, a guest's or a service's.                     *)
LEMMA Entries ==
  ASSUME NEW s, Accepted(s), NEW e \in Addresses(s)
  PROVE  \/ DevEntry(s, e, "ernic", s.ernic, NET_ERNIC)
         \/ DevEntry(s, e, "rocjitsu", s.rocjitsu, NET_ROCJITSU)
         \/ DevEntry(s, e, "sdxi", s.sdxi, NET_SDXI)
         \/ GuestEntry(s, e)
         \/ InfraEntry(e)
<1>1. s.count \in Nat /\ s.ernic \in Int /\ s.rocjitsu \in Int /\ s.sdxi \in Int
  BY Sizes
<1>2. CASE e \in {<<Nic(s, v), NicAddr(v.o)>> : v \in Range(Devices(s, s.ernic))}
  BY <1>1, <1>2, DevEntries DEF Nic, NicAddr
<1>3. CASE e \in {<<Gpu(s, v), <<NET_ROCJITSU, v.o>>>> : v \in Range(Devices(s, s.rocjitsu))}
  BY <1>1, <1>3, DevEntries DEF Gpu
<1>4. CASE e \in {<<Sdxi(s, v), <<NET_SDXI, v.o>>>> : v \in Range(Devices(s, s.sdxi))}
  BY <1>1, <1>4, DevEntries DEF Sdxi
<1>5. CASE e \in {<<Qemu(n), <<NET_QEMU, n>>>> : n \in 1..s.count}
  BY <1>5 DEF GuestEntry
<1>6. CASE e \in {<<x, <<NET_INFRA, InfraOctet[x]>>>> : x \in Metrics(s) \cup Lmcache(s)}
  <2>1. Metrics(s) \cup Lmcache(s) \subseteq InfraNames
    BY DEF Metrics, Lmcache, InfraNames
  <2> HIDE DEF InfraNames
  <2> QED BY <1>6, <2>1 DEF InfraEntry
<1> QED BY <1>2, <1>3, <1>4, <1>5, <1>6 DEF Addresses

(* One service, one address: among the devices of a kind, ...              *)
Matched(e, f) == e[1] = f[1] <=> e[2] = f[2]

LEMMA DevMatched ==
  ASSUME NEW s, s.count \in Nat, NEW per \in Int, NEW kind, NEW net, NEW e, NEW f,
         DevEntry(s, e, kind, per, net), DevEntry(s, f, kind, per, net)
  PROVE  Matched(e, f)
<1>1. PICK n \in 1..s.count, d \in 1..per :
         e = << <<kind>> \o DevSuffix(n, d, per), <<net, (n - 1) * per + d>> >>
  BY DEF DevEntry
<1>2. PICK m \in 1..s.count, c \in 1..per :
         f = << <<kind>> \o DevSuffix(m, c, per), <<net, (m - 1) * per + c>> >>
  BY DEF DevEntry
<1> DEFINE x == <<kind>> \o DevSuffix(n, d, per)
           y == <<kind>> \o DevSuffix(m, c, per)
           o == (n - 1) * per + d
           p == (m - 1) * per + c
<1>3. Named(x, kind, n, d, per) /\ Named(y, kind, m, c, per)
  BY NameTells
<1>4. n = m /\ d = c => x = y /\ o = p
  OBVIOUS
<1>5. o = p => n = m /\ d = c
  <2> DEFINE k == s.count
  <2>0. k \in Nat /\ n \in 1..k /\ m \in 1..k /\ n \in Int /\ m \in Int /\ d \in Int /\ c \in Int
    OBVIOUS
  <2> HIDE DEF k
  <2>1. (o - 1) \div per = n - 1 /\ (o - 1) % per = d - 1
    BY <2>0, RowOf
  <2>2. (p - 1) \div per = m - 1 /\ (p - 1) % per = c - 1
    BY <2>0, RowOf
  <2> HIDE DEF o, p
  <2>3. o = p => n - 1 = m - 1 /\ d - 1 = c - 1
    BY <2>1, <2>2
  <2> QED BY <2>0, <2>3
<1>6. e[1] = x /\ f[1] = y /\ e[2] = <<net, o>> /\ f[2] = <<net, p>>
  BY <1>1, <1>2
<1> HIDE DEF x, y, o, p
<1>7. x = y => n = m /\ d = c
  <2> SUFFICES ASSUME x = y PROVE n = m /\ d = c
    OBVIOUS
  <2>1. n = m
    BY <1>3 DEF Named
  <2>2. CASE per = 1
    BY <2>1, <2>2
  <2>3. CASE per # 1
    BY <1>3, <2>1, <2>3 DEF Named
  <2> QED BY <2>2, <2>3
<1>8. <<net, o>> = <<net, p>> <=> o = p
  OBVIOUS
<1> QED BY <1>4, <1>5, <1>6, <1>7, <1>8 DEF Matched

(* ... among the services of the fleet, ...                                *)
LEMMA InfraMatched ==
  ASSUME NEW e, NEW f, InfraEntry(e), InfraEntry(f)
  PROVE  Matched(e, f)
<1>1. PICK x \in InfraNames : e = <<x, <<NET_INFRA, InfraOctet[x]>>>>
  BY DEF InfraEntry
<1>2. PICK y \in InfraNames : f = <<y, <<NET_INFRA, InfraOctet[y]>>>>
  BY DEF InfraEntry
<1>3. /\ InfraOctet[<<"exporter">>] = 10 /\ InfraOctet[<<"prometheus">>] = 11
      /\ InfraOctet[<<"coordinator">>] = 12 /\ InfraOctet[<<"grafana">>] = 13
      /\ InfraOctet[<<"lmcache-stats">>] = 14 /\ InfraOctet[<<"loki">>] = 15
      /\ InfraOctet[<<"alloy">>] = 16
  BY DEF InfraOctet
<1> HIDE DEF InfraOctet
<1>4. InfraOctet[x] = InfraOctet[y] => x = y
  BY <1>3 DEF InfraNames
<1>5. e[1] = x /\ f[1] = y /\ (e[2] = f[2] <=> InfraOctet[x] = InfraOctet[y])
  BY <1>1, <1>2
<1> QED BY <1>4, <1>5 DEF Matched

(* ... and between any two.                                                *)
NetOf(kind) == IF kind = "ernic" THEN NET_ERNIC ELSE IF kind = "rocjitsu" THEN NET_ROCJITSU
               ELSE IF kind = "sdxi" THEN NET_SDXI ELSE IF kind = "qemu" THEN NET_QEMU ELSE NET_INFRA
Tagged(e, net) == NetOf(e[1][1]) = net /\ e[2][1] = net

(* Names and networks tell the kinds apart alike.                          *)
LEMMA EntryTells ==
  ASSUME NEW s, NEW e
  PROVE  /\ DevEntry(s, e, "ernic", s.ernic, NET_ERNIC) => Tagged(e, NET_ERNIC)
         /\ DevEntry(s, e, "rocjitsu", s.rocjitsu, NET_ROCJITSU) => Tagged(e, NET_ROCJITSU)
         /\ DevEntry(s, e, "sdxi", s.sdxi, NET_SDXI) => Tagged(e, NET_SDXI)
         /\ GuestEntry(s, e) => Tagged(e, NET_QEMU)
         /\ InfraEntry(e) => Tagged(e, NET_INFRA)
<1>1. ASSUME NEW kind, NEW per, NEW net, DevEntry(s, e, kind, per, net)
      PROVE  e[1][1] = kind /\ e[2][1] = net
  <2>1. PICK n \in 1..s.count, d \in 1..per :
          e = << <<kind>> \o DevSuffix(n, d, per), <<net, (n - 1) * per + d>> >>
    BY <1>1 DEF DevEntry
  <2> DEFINE x == <<kind>> \o DevSuffix(n, d, per)
  <2>2. x[1] = kind
    BY NameTells DEF Named
  <2>3. e[1] = x /\ e[2][1] = net
    BY <2>1
  <2> QED BY <2>2, <2>3
<1>2. DevEntry(s, e, "ernic", s.ernic, NET_ERNIC) => Tagged(e, NET_ERNIC)
  BY <1>1 DEF Tagged, NetOf
<1>3. DevEntry(s, e, "rocjitsu", s.rocjitsu, NET_ROCJITSU) => Tagged(e, NET_ROCJITSU)
  BY <1>1 DEF Tagged, NetOf
<1>4. DevEntry(s, e, "sdxi", s.sdxi, NET_SDXI) => Tagged(e, NET_SDXI)
  BY <1>1 DEF Tagged, NetOf
<1>5. GuestEntry(s, e) => Tagged(e, NET_QEMU)
  BY DEF GuestEntry, Qemu, Tagged, NetOf
<1>6. InfraEntry(e) => Tagged(e, NET_INFRA)
  <2> SUFFICES ASSUME NEW x \in InfraNames, e = <<x, <<NET_INFRA, InfraOctet[x]>>>> PROVE Tagged(e, NET_INFRA)
    BY DEF InfraEntry
  <2>1. NetOf(x[1]) = NET_INFRA
    BY DEF InfraNames, NetOf
  <2> QED BY <2>1 DEF Tagged
<1> QED BY <1>2, <1>3, <1>4, <1>5, <1>6

(* Of any two entries, both name and address agree or neither does.        *)
LEMMA AllMatched ==
  ASSUME NEW s, Accepted(s), NEW e \in Addresses(s), NEW f \in Addresses(s)
  PROVE  Matched(e, f)
<1> USE DEF NET_ERNIC, NET_ROCJITSU, NET_SDXI, NET_QEMU, NET_INFRA
<1>1. s.count \in Nat /\ s.ernic \in Int /\ s.rocjitsu \in Int /\ s.sdxi \in Int
  BY Sizes
<1>2. ASSUME NEW m, NEW n, m # n, Tagged(e, m), Tagged(f, n)
      PROVE  Matched(e, f)
  BY <1>2 DEF Tagged, Matched
<1>3. ASSUME GuestEntry(s, e), GuestEntry(s, f)
      PROVE  Matched(e, f)
  BY <1>3 DEF GuestEntry, Qemu, Matched
<1>4. CASE DevEntry(s, e, "ernic", s.ernic, NET_ERNIC)
  <2>1. CASE DevEntry(s, f, "ernic", s.ernic, NET_ERNIC)
    BY <1>1, <1>4, <2>1, DevMatched
  <2>2. CASE ~DevEntry(s, f, "ernic", s.ernic, NET_ERNIC)
    BY <1>2, <1>4, <2>2, EntryTells, Entries
  <2> QED BY <2>1, <2>2
<1>5. CASE DevEntry(s, e, "rocjitsu", s.rocjitsu, NET_ROCJITSU)
  <2>1. CASE DevEntry(s, f, "rocjitsu", s.rocjitsu, NET_ROCJITSU)
    BY <1>1, <1>5, <2>1, DevMatched
  <2>2. CASE ~DevEntry(s, f, "rocjitsu", s.rocjitsu, NET_ROCJITSU)
    BY <1>2, <1>5, <2>2, EntryTells, Entries
  <2> QED BY <2>1, <2>2
<1>6. CASE DevEntry(s, e, "sdxi", s.sdxi, NET_SDXI)
  <2>1. CASE DevEntry(s, f, "sdxi", s.sdxi, NET_SDXI)
    BY <1>1, <1>6, <2>1, DevMatched
  <2>2. CASE ~DevEntry(s, f, "sdxi", s.sdxi, NET_SDXI)
    BY <1>2, <1>6, <2>2, EntryTells, Entries
  <2> QED BY <2>1, <2>2
<1>7. CASE GuestEntry(s, e)
  BY <1>2, <1>3, <1>7, EntryTells, Entries
<1>8. CASE InfraEntry(e)
  BY <1>2, <1>8, EntryTells, Entries, InfraMatched
<1> QED BY <1>4, <1>5, <1>6, <1>7, <1>8, Entries

(* Finitely many addresses.                                                *)
LEMMA AddressesFinite ==
  ASSUME NEW s, Accepted(s)
  PROVE  IsFiniteSet(Addresses(s))
<1>1. s.count \in Nat /\ s.ernic \in Int /\ s.rocjitsu \in Int /\ s.sdxi \in Int
  BY Sizes
<1>2. ASSUME NEW per \in Int PROVE IsFiniteSet(Range(Devices(s, per)))
  <2> DEFINE devs == Devices(s, per)
             k == s.count * per
             I == 1..k
  <2>1. k \in Int
    BY <1>1
  <2>2. DOMAIN devs = I
    BY DEF Devices
  <2> HIDE DEF devs, k
  <2>3. IsFiniteSet(I)
    BY <2>1, FS_Interval
  <2> HIDE DEF I
  <2>4. IsFiniteSet({devs[i] : i \in I})
    BY <2>3, ImageFinite
  <2>5. Range(devs) = {devs[i] : i \in I}
    BY <2>2, Zenon DEF Range
  <2> QED BY <2>4, <2>5 DEF devs
<1> DEFINE D(per) == Range(Devices(s, per))
           fn == [v \in D(s.ernic) |-> <<Nic(s, v), NicAddr(v.o)>>]
           fg == [v \in D(s.rocjitsu) |-> <<Gpu(s, v), <<NET_ROCJITSU, v.o>>>>]
           fs == [v \in D(s.sdxi) |-> <<Sdxi(s, v), <<NET_SDXI, v.o>>>>]
           G == 1..s.count
           fq == [n \in G |-> <<Qemu(n), <<NET_QEMU, n>>>>]
           I == Metrics(s) \cup Lmcache(s)
           fi == [x \in I |-> <<x, <<NET_INFRA, InfraOctet[x]>>>>]
<1>3. Addresses(s) = (((({fn[v] : v \in D(s.ernic)} \cup {fg[v] : v \in D(s.rocjitsu)})
                          \cup {fs[v] : v \in D(s.sdxi)}) \cup {fq[n] : n \in G}) \cup {fi[x] : x \in I})
  BY DEF Addresses
<1>4. IsFiniteSet(G)
  BY <1>1, FS_Interval
<1>5. IsFiniteSet(I)
  <2> DEFINE all == (((((({} \cup {<<"exporter">>}) \cup {<<"prometheus">>}) \cup {<<"loki">>}) \cup {<<"alloy">>})
                      \cup {<<"grafana">>}) \cup {<<"coordinator">>}) \cup {<<"lmcache-stats">>}
  <2>1. IsFiniteSet(all)
    BY FS_EmptySet, FS_AddElement
  <2>2. I \subseteq all
    BY DEF Metrics, Lmcache
  <2> HIDE DEF all, I
  <2> QED BY <2>1, <2>2, FS_Subset
<1>6. IsFiniteSet(D(s.ernic)) /\ IsFiniteSet(D(s.rocjitsu)) /\ IsFiniteSet(D(s.sdxi))
  BY <1>1, <1>2
<1> HIDE DEF D, fn, fg, fs, G, fq, I, fi
<1>7. /\ IsFiniteSet({fn[v] : v \in D(s.ernic)}) /\ IsFiniteSet({fg[v] : v \in D(s.rocjitsu)})
      /\ IsFiniteSet({fs[v] : v \in D(s.sdxi)}) /\ IsFiniteSet({fq[n] : n \in G})
      /\ IsFiniteSet({fi[x] : x \in I})
  BY <1>4, <1>5, <1>6, ImageFinite
<1> DEFINE A1 == {fn[v] : v \in D(s.ernic)}
           A2 == {fg[v] : v \in D(s.rocjitsu)}
           A3 == {fs[v] : v \in D(s.sdxi)}
           A4 == {fq[n] : n \in G}
           A5 == {fi[x] : x \in I}
<1>8. /\ IsFiniteSet(A1) /\ IsFiniteSet(A2) /\ IsFiniteSet(A3) /\ IsFiniteSet(A4) /\ IsFiniteSet(A5)
      /\ Addresses(s) = (((A1 \cup A2) \cup A3) \cup A4) \cup A5
  BY <1>3, <1>7
<1> HIDE DEF A1, A2, A3, A4, A5
<1>9. IsFiniteSet((((A1 \cup A2) \cup A3) \cup A4) \cup A5)
  BY <1>8, FS_Union
<1> QED BY <1>8, <1>9

(* In every fleet plan() accepts, no two services share an address and no  *)
(* service has two, and the addresses of NICs and guests, and the last     *)
(* bytes of the MACs, fit in a byte (gen_compose.py:616-665).              *)
THEOREM Addressing == Spec => []AddressesFit
<1>1. Shapes => AddressesFit
  <2> SUFFICES ASSUME Shapes, Planned PROVE AddressesFit
    BY DEF AddressesFit
  <2> DEFINE s == settings
             a == Addresses(s)
             byName == [e \in a |-> e[1]]
             byAddr == [e \in a |-> e[2]]
  <2>1. Accepted(s)
    BY DEF Shapes, Planned
  <2>2. IsFiniteSet(a)
    BY <2>1, AddressesFinite
  <2>3. s.count \in Nat \ {0} /\ s.ernic \in Nat \ {0} /\ NicCount(s) \in 1..MESH_MAX
        /\ NicCount(s) = s.count * s.ernic
    BY <2>1, Sizes
  <2>4. \A e, f \in a : byName[e] = byName[f] <=> byAddr[e] = byAddr[f]
    BY <2>1, AllMatched DEF Matched
  <2>5. \A e \in a : e = <<e[1], e[2]>>
    BY <2>1, Entries DEF DevEntry, GuestEntry, InfraEntry
  <2>6. \A e \in a : e = <<byName[e], byAddr[e]>>
    BY <2>5
  <2>7. {e[1] : e \in a} = {byName[e] : e \in a} /\ {e[2] : e \in a} = {byAddr[e] : e \in a}
    OBVIOUS
  <2>8. /\ Cardinality({byName[e] : e \in a}) = Cardinality(a)
        /\ Cardinality({byAddr[e] : e \in a}) = Cardinality(a)
    <3> HIDE DEF a, byName, byAddr
    <3>1. \A e, f \in a : byName[e] = byName[f] => e = f
      BY <2>4, <2>6
    <3>2. \A e, f \in a : byAddr[e] = byAddr[f] => e = f
      BY <2>4, <2>6
    <3> QED BY <2>2, <3>1, <3>2, ImageCard
  <2>9. ASSUME NEW e \in a, e[2][1] \in {NET_ERNIC, NET_QEMU} PROVE e[2][2] \in 1..254
    <3>1. CASE DevEntry(s, e, "ernic", s.ernic, NET_ERNIC)
      <4>1. PICK n \in 1..s.count, d \in 1..s.ernic : e[2][2] = (n - 1) * s.ernic + d
        BY <3>1 DEF DevEntry
      <4> DEFINE o == (n - 1) * s.ernic + d
      <4>2. o \in 1..NicCount(s)
        BY <2>1, NicOfGuest
      <4>3. e[2][2] = o
        BY <4>1
      <4> HIDE DEF o
      <4>4. o \in 1..64
        BY <2>3, <4>2 DEF MESH_MAX
      <4> QED BY <4>3, <4>4
    <3>2. CASE GuestEntry(s, e)
      <4>1. PICK n \in 1..s.count : e[2][2] = n
        BY <3>2 DEF GuestEntry
      <4>2. s.count <= s.count * s.ernic
        <5>1. \A c \in Nat, k \in Nat \ {0} : c <= c * k
          OBVIOUS
        <5> QED BY <2>3, <5>1
      <4>3. s.count <= 64
        BY <2>3, <4>2 DEF MESH_MAX
      <4> QED BY <2>3, <4>1, <4>3
    <3>3. e[2][1] # NET_ROCJITSU /\ e[2][1] # NET_SDXI /\ e[2][1] # NET_INFRA
      BY <2>9 DEF NET_ERNIC, NET_ROCJITSU, NET_SDXI, NET_QEMU, NET_INFRA
    <3> QED BY <2>1, <3>1, <3>2, <3>3, Entries, EntryTells DEF Tagged
  <2>10. ASSUME NEW o \in 1..NicCount(s) PROVE Ip(o) \in 11..254 /\ Mac(o)[2] = o
    <3>1. o \in 1..64
      BY <2>3 DEF MESH_MAX
    <3> QED BY <3>1 DEF Ip, Mac
  <2> HIDE DEF s, a
  <2> QED BY <2>7, <2>8, <2>9, <2>10 DEF AddressesFit, s, a
<1>2. Spec => []Shapes
  BY InitShapes, ShapesStep, PTL DEF Spec
<1> QED BY <1>1, <1>2, PTL
=============================================================================
