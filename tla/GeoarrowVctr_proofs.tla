-------------------------- MODULE GeoarrowVctr_proofs --------------------------
(***************************************************************************)
(* Theorems about vectors of features, for any number of arrays of any     *)
(* lengths with any nulls, and subsets of any length: handlers, is.na(),   *)
(* as_narrow_array() and the stream of arrays give the features that a     *)
(* plain vector would have. The lemmas are about the sums that are the     *)
(* offsets of the arrays, and about FlattenSeq, which says what features   *)
(* all arrays together have.                                               *)
(*                                                                         *)
(* c() numbers the features of all arrays anew, whatever the indices of    *)
(* its arguments, so the theorems assume that it is given whole vectors    *)
(* (~CombineSubsets).                                                      *)
(***************************************************************************)
EXTENDS GeoarrowVctr, SequenceTheorems, FiniteSetTheorems, WellFoundedInduction, TLAPS

(***************************************************************************)
(* Induction over the numbers, and what recursive definitions compute      *)
(***************************************************************************)

(* A set of numbers that has 0, and with each number the next one, has     *)
(* them all.                                                               *)
LEMMA NatSet ==
  ASSUME NEW S, 0 \in S, \A n \in Nat : n \in S => n + 1 \in S
  PROVE  Nat \subseteq S
<1> DEFINE T == Nat \ S
           R == OpToRel(<, Nat)
<1>1. SUFFICES ASSUME T # {} PROVE FALSE
  OBVIOUS
<1>2. IsWellFoundedOn(R, Nat) /\ T \subseteq Nat
  BY NatLessThanWellFounded
<1>3. PICK x \in T : \A y \in T : ~(<<y, x>> \in R)
  <2> HIDE DEF R, T
  <2>1. QED
    BY <1>1, <1>2, WFMin
<1>4. x \in Nat /\ x \notin S /\ x # 0
  OBVIOUS
<1>5. x - 1 \in Nat /\ x - 1 + 1 = x
  BY <1>4
<1>6. x - 1 \in T /\ <<x - 1, x>> \in R
  BY <1>4, <1>5 DEF OpToRel
<1>7. QED
  BY <1>3, <1>6

(* A nonempty set of numbers has a least one.                              *)
LEMMA NatLeast ==
  ASSUME NEW S \in SUBSET Nat, S # {}
  PROVE  \E x \in S : \A y \in S : x <= y
<1> DEFINE R == OpToRel(<, Nat)
<1>1. PICK x \in S : \A y \in S : ~(<<y, x>> \in R)
  <2>1. IsWellFoundedOn(R, Nat)
    BY NatLessThanWellFounded
  <2> HIDE DEF R
  <2>2. QED
    BY <2>1, WFMin
<1>2. ASSUME NEW y \in S PROVE x <= y
  <2>1. ~(<<y, x>> \in R) /\ x \in Nat /\ y \in Nat
    BY <1>1
  <2>2. QED
    BY <2>1 DEF OpToRel
<1>3. QED
  BY <1>2

(* Sums(s) adds up the numbers of s.                                       *)
LEMMA SumsIs ==
  ASSUME NEW s \in Seq(Nat)
  PROVE  /\ Sums(s) \in [0 .. Len(s) -> Nat] /\ Sums(s)[0] = 0
         /\ \A j \in 1 .. Len(s) : Sums(s)[j] = Sums(s)[j - 1] + s[j]
<1>1. PICK m \in Nat : m = Len(s)
  BY LenProperties
<1>2. \A j \in 1 .. m : s[j] \in Nat
  BY <1>1, ElementOfSeq
<1> DEFINE Good(n) == {f \in [0 .. n -> Nat] : f[0] = 0 /\ \A j \in 1 .. n : f[j] = f[j - 1] + s[j]}
           S == {n \in Nat : n <= m => Good(n) # {}}
<1>3. 0 \in S
  <2>1. [i \in 0 .. 0 |-> 0] \in Good(0)
    OBVIOUS
  <2>2. QED
    BY <2>1
<1>4. ASSUME NEW n \in Nat, n \in S PROVE n + 1 \in S
  <2>1. ASSUME n + 1 <= m PROVE Good(n + 1) # {}
    <3>1. PICK f : f \in Good(n)
      <4> HIDE DEF Good
      <4>1. n <= m /\ Good(n) # {}
        BY <1>4, <2>1
      <4>2. QED
        BY <4>1
    <3> DEFINE g == [i \in 0 .. n + 1 |-> IF i <= n THEN f[i] ELSE f[n] + s[n + 1]]
    <3>2. s[n + 1] \in Nat /\ f \in [0 .. n -> Nat]
      BY <1>2, <2>1, <3>1
    <3>3. g \in [0 .. n + 1 -> Nat]
      BY <3>2
    <3>4. g[0] = 0 /\ \A j \in 1 .. n + 1 : g[j] = g[j - 1] + s[j]
      <4>1. g[0] = 0 /\ g[n + 1] = g[n + 1 - 1] + s[n + 1]
        BY <3>1, <3>2
      <4>2. \A j \in 1 .. n : g[j] = f[j] /\ g[j - 1] = f[j - 1] /\ f[j] = f[j - 1] + s[j]
        BY <3>1
      <4> HIDE DEF g
      <4>3. QED
        BY <4>1, <4>2
    <3>5. g \in Good(n + 1)
      BY <3>3, <3>4
    <3>6. QED
      BY <3>5
  <2> HIDE DEF Good
  <2>2. QED
    BY <2>1
<1>5. Nat \subseteq S
  <2> HIDE DEF S
  <2>1. QED
    BY <1>3, <1>4, NatSet
<1>6. PICK f : f \in Good(m)
  <2> HIDE DEF Good
  <2>1. m \in S
    BY <1>5
  <2>2. QED
    BY <2>1
<1>7. f = [j \in 0 .. Len(s) |-> IF j = 0 THEN 0 ELSE f[j - 1] + s[j]]
  BY <1>1, <1>6
<1>8. Sums(s) = [j \in 0 .. Len(s) |-> IF j = 0 THEN 0 ELSE Sums(s)[j - 1] + s[j]]
  BY <1>7 DEF Sums
<1> DEFINE g == Sums(s)
<1>9. g = [j \in 0 .. m |-> IF j = 0 THEN 0 ELSE g[j - 1] + s[j]]
  BY <1>1, <1>8
<1> HIDE DEF g
<1>10. DOMAIN g = 0 .. m /\ g[0] = 0 /\ \A j \in 1 .. m : g[j] = g[j - 1] + s[j]
  BY <1>9
<1> DEFINE U == {n \in Nat : n <= m => g[n] \in Nat}
<1>11. Nat \subseteq U
  <2>1. 0 \in U
    BY <1>10
  <2>2. ASSUME NEW n \in Nat, n \in U PROVE n + 1 \in U
    <3>1. ASSUME n + 1 <= m PROVE g[n + 1] \in Nat
      <4>1. g[n + 1] = g[n + 1 - 1] + s[n + 1] /\ n + 1 - 1 = n /\ n <= m /\ s[n + 1] \in Nat
        BY <1>10, <1>2, <3>1
      <4>2. QED
        BY <2>2, <4>1
    <3>2. QED
      BY <3>1
  <2> HIDE DEF U
  <2>3. QED
    BY <2>1, <2>2, NatSet
<1>12. g = [j \in 0 .. m |-> g[j]] /\ \A j \in 0 .. m : g[j] \in Nat
  <2>1. \A j \in 0 .. m : j \in U
    BY <1>11
  <2>2. g = [j \in 0 .. m |-> g[j]]
    BY <1>9
  <2>3. QED
    BY <2>1, <2>2
<1>13. g \in [0 .. m -> Nat]
  BY <1>12
<1>14. QED
  BY <1>1, <1>10, <1>13 DEF g
(***************************************************************************)
(* FlattenSeq                                                               *)
(***************************************************************************)

(* G gives what the first sequences of s are, one after the other.         *)
Joins(s, S, G) ==
  /\ G \in [0 .. Len(s) -> Seq(S)]
  /\ G[0] = << >>
  /\ \A i \in 1 .. Len(s) : G[i] = G[i - 1] \o s[i]

(* There is such a function.                                               *)
LEMMA JoinsExists ==
  ASSUME NEW S, NEW s \in Seq(Seq(S))
  PROVE  \E G : Joins(s, S, G)
<1>1. PICK m \in Nat : m = Len(s)
  BY LenProperties
<1>2. \A j \in 1 .. m : s[j] \in Seq(S)
  BY <1>1, ElementOfSeq
<1> DEFINE Good(n, f) ==
             /\ f \in [0 .. n -> Seq(S)]
             /\ f[0] = << >>
             /\ \A j \in 1 .. n : f[j] = f[j - 1] \o s[j]
           T == {n \in Nat : n <= m => \E f : Good(n, f)}
<1>3. 0 \in T
  <2>1. << >> \in Seq(S)
    OBVIOUS
  <2> DEFINE f == [i \in 0 .. 0 |-> << >>]
  <2>2. Good(0, f)
    BY <2>1
  <2> HIDE DEF Good
  <2>3. QED
    BY <2>2
<1>4. ASSUME NEW n \in Nat, n \in T PROVE n + 1 \in T
  <2>1. ASSUME n + 1 <= m PROVE \E f : Good(n + 1, f)
    <3>1. PICK f : Good(n, f)
      <4> HIDE DEF Good
      <4>1. n <= m
        BY <2>1
      <4>2. QED
        BY <1>4, <4>1
    <3>2. s[n + 1] \in Seq(S) /\ f[n] \in Seq(S)
      BY <1>2, <2>1, <3>1
    <3> DEFINE new == f[n] \o s[n + 1]
               g == [i \in 0 .. n + 1 |-> IF i <= n THEN f[i] ELSE new]
    <3>3. new \in Seq(S)
      BY <3>2, ConcatProperties
    <3>4. g[n + 1] = new /\ \A i \in 0 .. n : g[i] = f[i]
      <4> HIDE DEF new
      <4>1. QED
        OBVIOUS
    <3>5. g \in [0 .. n + 1 -> Seq(S)]
      <4> HIDE DEF new
      <4>1. QED
        BY <3>1, <3>3
    <3> HIDE DEF g
    <3>6. ASSUME NEW j \in 1 .. n + 1 PROVE g[j] = g[j - 1] \o s[j]
      <4>1. CASE j = n + 1
        <5>1. j - 1 = n /\ n \in 0 .. n
          BY <4>1
        <5>2. QED
          BY <3>4, <4>1, <5>1
      <4>2. CASE j # n + 1
        <5>1. j \in 1 .. n /\ j \in 0 .. n /\ j - 1 \in 0 .. n
          BY <4>2
        <5>2. f[j] = f[j - 1] \o s[j]
          BY <3>1, <5>1
        <5>3. QED
          BY <3>4, <5>1, <5>2
      <4>3. QED
        BY <4>1, <4>2
    <3>7. g[0] = << >>
      BY <3>1, <3>4
    <3>8. Good(n + 1, g)
      BY <3>5, <3>6, <3>7
    <3> HIDE DEF Good
    <3>9. QED
      BY <3>8
  <2> HIDE DEF Good
  <2>2. QED
    BY <2>1
<1>5. m \in T
  <2> HIDE DEF T
  <2>1. QED
    BY <1>3, <1>4, NatSet
<1>6. \E f : Good(m, f)
  <2> HIDE DEF Good
  <2>1. QED
    BY <1>5
<1>7. QED
  BY <1>1, <1>6 DEF Joins

(* FlattenSeq(s) is its last value.                                        *)
LEMMA FlattenIs ==
  ASSUME NEW S, NEW s \in Seq(Seq(S)), NEW G, Joins(s, S, G)
  PROVE  FlattenSeq(s) = G[Len(s)] /\ FlattenSeq(s) \in Seq(S)
<1>1. PICK m \in Nat : m = Len(s)
  BY LenProperties
<1>2. /\ G \in [0 .. m -> Seq(S)] /\ G[0] = << >>
      /\ \A i \in 1 .. m : G[i] = G[i - 1] \o s[i]
  BY <1>1 DEF Joins
<1>3. CASE m = 0
  <2>1. s = << >> /\ FlattenSeq(s) = s
    BY <1>1, <1>3, EmptySeq DEF FlattenSeq
  <2>2. QED
    BY <1>1, <1>2, <1>3, <2>1
<1>4. CASE m > 0
  <2>1. s[1] = G[0] \o s[1] /\ s[1] \in Seq(S)
    <3>1. s[1] \in Seq(S)
      BY <1>1, <1>4, ElementOfSeq
    <3>2. QED
      BY <1>2, <3>1, ConcatEmptySeq
  <2> DEFINE g == [i \in 1 .. m |-> G[i]]
             H == CHOOSE f : f = [i \in 1 .. m |-> IF i = 1 THEN s[i] ELSE f[i - 1] \o s[i]]
  <2>2. g = [i \in 1 .. m |-> IF i = 1 THEN s[i] ELSE g[i - 1] \o s[i]]
    <3>1. ASSUME NEW i \in 1 .. m
          PROVE  G[i] = IF i = 1 THEN s[i] ELSE g[i - 1] \o s[i]
      <4>1. G[i] = G[i - 1] \o s[i]
        BY <1>2
      <4>2. CASE i = 1
        <5>1. i - 1 = 0
          BY <4>2
        <5>2. G[i] = s[1]
          BY <2>1, <4>1, <4>2, <5>1
        <5>3. QED
          BY <4>2, <5>2
      <4>3. CASE i # 1
        <5>1. i - 1 \in 1 .. m
          BY <4>3
        <5>2. g[i - 1] = G[i - 1]
          BY <5>1
        <5>3. QED
          BY <4>1, <4>3, <5>2
      <4>4. QED
        BY <4>2, <4>3
    <3>2. QED
      BY <3>1
  <2>3. H = [i \in 1 .. m |-> IF i = 1 THEN s[i] ELSE H[i - 1] \o s[i]]
    BY <2>2
  <2>4. FlattenSeq(s) = H[m]
    BY <1>1, <1>4 DEF FlattenSeq
  <2> HIDE DEF H
  <2>5. H[1] = s[1] /\ \A i \in 2 .. m : H[i] = H[i - 1] \o s[i]
    <3>1. ASSUME NEW i \in 1 .. m PROVE H[i] = IF i = 1 THEN s[i] ELSE H[i - 1] \o s[i]
      BY <2>3, Zenon
    <3>2. H[1] = s[1]
      <4>1. 1 \in 1 .. m
        BY <1>4
      <4>2. QED
        BY <3>1, <4>1
    <3>3. ASSUME NEW i \in 2 .. m PROVE H[i] = H[i - 1] \o s[i]
      <4>1. i \in 1 .. m /\ i # 1
        OBVIOUS
      <4>2. QED
        BY <3>1, <4>1
    <3>4. QED
      BY <3>2, <3>3
  <2> DEFINE T == {n \in Nat : n + 1 <= m => H[n + 1] = G[n + 1]}
  <2>6. 0 \in T
    <3>1. G[1] = G[0] \o s[1]
      <4>1. 1 \in 1 .. m /\ 1 - 1 = 0
        BY <1>4
      <4>2. G[1] = G[1 - 1] \o s[1]
        BY <1>2, <4>1
      <4>3. QED
        BY <4>1, <4>2
    <3>2. H[0 + 1] = G[0 + 1] /\ 0 \in Nat
      <4>1. 0 + 1 = 1
        OBVIOUS
      <4>2. QED
        BY <2>1, <2>5, <3>1, <4>1
    <3>3. QED
      BY <3>2
  <2>7. ASSUME NEW n \in Nat, n \in T PROVE n + 1 \in T
    <3>1. ASSUME n + 1 + 1 <= m PROVE H[n + 1 + 1] = G[n + 1 + 1]
      <4>1. PICK k \in Nat : k = n + 1 + 1
        OBVIOUS
      <4>2. k \in 2 .. m /\ k \in 1 .. m /\ k - 1 = n + 1
        BY <3>1, <4>1
      <4>3. H[n + 1] = G[n + 1]
        BY <2>7, <3>1
      <4>4. H[k] = H[k - 1] \o s[k]
        BY <2>5, <4>2, Zenon
      <4>5. G[k] = G[k - 1] \o s[k]
        BY <1>2, <4>2, Zenon
      <4>6. QED
        BY <4>1, <4>2, <4>3, <4>4, <4>5
    <3>2. QED
      BY <3>1
  <2>8. m - 1 \in T /\ m - 1 + 1 = m
    <3> HIDE DEF T
    <3>1. m - 1 \in Nat
      BY <1>4
    <3>2. QED
      BY <2>6, <2>7, <3>1, NatSet
  <2>9. QED
    BY <1>1, <1>2, <2>4, <2>8
<1>5. QED
  BY <1>3, <1>4

(* One more sequence comes last.                                           *)
LEMMA FlattenAppend ==
  ASSUME NEW S, NEW s \in Seq(Seq(S)), NEW t \in Seq(S)
  PROVE  /\ FlattenSeq(Append(s, t)) = FlattenSeq(s) \o t
         /\ FlattenSeq(s) \in Seq(S)
<1>1. PICK m \in Nat : m = Len(s)
  BY LenProperties
<1>2. PICK G : Joins(s, S, G)
  BY JoinsExists
<1>3. FlattenSeq(s) = G[m] /\ FlattenSeq(s) \in Seq(S)
  BY <1>1, <1>2, FlattenIs
<1>4. /\ G \in [0 .. m -> Seq(S)] /\ G[0] = << >>
      /\ \A i \in 1 .. m : G[i] = G[i - 1] \o s[i]
  BY <1>1, <1>2 DEF Joins
<1>5. PICK r \in Seq(Seq(S)) : r = Append(s, t)
  BY AppendProperties
<1>6. Len(r) = m + 1 /\ r[m + 1] = t /\ \A i \in 1 .. m : r[i] = s[i]
  BY <1>1, <1>5, AppendProperties
<1> DEFINE new == FlattenSeq(s) \o t
           g == [i \in 0 .. m + 1 |-> IF i <= m THEN G[i] ELSE new]
<1>7. new \in Seq(S)
  BY <1>3, ConcatProperties
<1>8. g[m + 1] = new /\ \A i \in 0 .. m : g[i] = G[i]
  OBVIOUS
<1>9. g \in [0 .. m + 1 -> Seq(S)]
  <2> HIDE DEF new
  <2>1. QED
    BY <1>4, <1>7
<1> HIDE DEF g
<1>10. ASSUME NEW i \in 1 .. m + 1 PROVE g[i] = g[i - 1] \o r[i]
  <2>1. CASE i = m + 1
    <3>1. i - 1 = m /\ m \in 0 .. m
      BY <2>1
    <3>2. QED
      BY <1>3, <1>6, <1>8, <2>1, <3>1
  <2>2. CASE i # m + 1
    <3>1. i \in 1 .. m /\ i \in 0 .. m /\ i - 1 \in 0 .. m
      BY <2>2
    <3>2. QED
      BY <1>4, <1>6, <1>8, <3>1
  <2>3. QED
    BY <2>1, <2>2
<1> HIDE DEF new
<1>11. g[0] = << >>
  BY <1>4, <1>8
<1>12. Joins(r, S, g)
  BY <1>6, <1>9, <1>10, <1>11 DEF Joins
<1>13. FlattenSeq(r) = g[m + 1]
  BY <1>6, <1>12, FlattenIs
<1>14. QED
  BY <1>3, <1>5, <1>8, <1>13 DEF new
(* off[j]: how many elements the first j sequences of s have.              *)
Adds(s, off) ==
  /\ off \in [0 .. Len(s) -> Nat]
  /\ off[0] = 0
  /\ \A j \in 1 .. Len(s) : off[j] = off[j - 1] + Len(s[j])

(* These numbers grow.                                                     *)
LEMMA AddsGrow ==
  ASSUME NEW S, NEW s \in Seq(Seq(S)), NEW off, Adds(s, off),
         NEW j \in 0 .. Len(s), NEW i \in 0 .. j
  PROVE  off[i] <= off[j] /\ off[i] \in Nat /\ off[j] \in Nat
<1>1. PICK m \in Nat : m = Len(s)
  BY LenProperties
<1>2. off \in [0 .. m -> Nat] /\ \A k \in 1 .. m : off[k] = off[k - 1] + Len(s[k])
  BY <1>1 DEF Adds
<1>3. \A k \in 1 .. m : Len(s[k]) \in Nat
  <2>1. ASSUME NEW k \in 1 .. m PROVE Len(s[k]) \in Nat
    <3>1. s[k] \in Seq(S)
      BY <1>1, ElementOfSeq
    <3>2. QED
      BY <3>1, LenProperties
  <2>2. QED
    BY <2>1
<1> DEFINE T == {n \in Nat : i + n <= m => off[i] <= off[i + n]}
<1>4. i \in Nat /\ off[i] \in Nat /\ i <= m /\ j \in 0 .. m /\ off[j] \in Nat
  <2>1. j \in 0 .. m /\ i \in 0 .. m
    BY <1>1
  <2>2. QED
    BY <1>2, <2>1
<1>5. 0 \in T
  BY <1>4
<1>6. ASSUME NEW n \in Nat, n \in T PROVE n + 1 \in T
  <2>1. ASSUME i + (n + 1) <= m PROVE off[i] <= off[i + (n + 1)]
    <3>1. PICK k \in Nat : k = i + (n + 1)
      BY <1>4
    <3>2. k \in 1 .. m /\ k - 1 = i + n /\ k - 1 \in 0 .. m /\ k \in 0 .. m
      BY <1>4, <2>1, <3>1
    <3>3. off[k] = off[k - 1] + Len(s[k]) /\ off[k - 1] \in Nat /\ Len(s[k]) \in Nat
      BY <1>2, <1>3, <3>2
    <3>4. off[i] <= off[k - 1]
      BY <1>6, <3>2
    <3>5. off[i] <= off[k]
      BY <1>4, <3>3, <3>4
    <3>6. QED
      BY <3>1, <3>5
  <2>2. QED
    BY <2>1
<1>7. j - i \in T
  <2> HIDE DEF T
  <2>1. j - i \in Nat
    OBVIOUS
  <2>2. QED
    BY <1>5, <1>6, <2>1, NatSet
<1>8. i + (j - i) = j
  BY <1>4
<1>9. QED
  BY <1>4, <1>7, <1>8

(* Every position lies in one of the sequences.                            *)
LEMMA AddsFind ==
  ASSUME NEW S, NEW s \in Seq(Seq(S)), NEW off, Adds(s, off),
         NEW k \in 1 .. off[Len(s)]
  PROVE  \E j \in 1 .. Len(s) : off[j - 1] < k /\ k <= off[j]
<1>1. PICK m \in Nat : m = Len(s)
  BY LenProperties
<1>2. off \in [0 .. m -> Nat] /\ off[0] = 0
  BY <1>1 DEF Adds
<1> DEFINE T == {j \in 0 .. m : k <= off[j]}
<1>3. m \in T
  BY <1>1
<1>4. PICK j \in T : \A i \in T : j <= i
  <2>1. T \subseteq Nat /\ T # {}
    BY <1>3
  <2> HIDE DEF T
  <2>2. QED
    BY <2>1, NatLeast
<1>5. j \in 1 .. m /\ j - 1 \in 0 .. m /\ j - 1 < j
  BY <1>2, <1>4
<1>6. ~(k <= off[j - 1]) /\ k <= off[j]
  BY <1>4, <1>5
<1>7. off[j - 1] \in Nat /\ k \in Int
  <2>1. off[m] \in Nat /\ off[j - 1] \in Nat
    BY <1>2, <1>5
  <2>2. QED
    BY <1>1, <2>1
<1>8. off[j - 1] < k
  BY <1>6, <1>7
<1>9. QED
  BY <1>1, <1>5, <1>6, <1>8

(* Where the elements of s are in FlattenSeq(s).                           *)
LEMMA FlattenAt ==
  ASSUME NEW S, NEW s \in Seq(Seq(S)), NEW off, Adds(s, off)
  PROVE  /\ FlattenSeq(s) \in Seq(S)
         /\ Len(FlattenSeq(s)) = off[Len(s)]
         /\ \A j \in 1 .. Len(s) : \A k \in 1 .. Len(s[j]) :
              /\ off[j - 1] + k \in 1 .. off[Len(s)]
              /\ FlattenSeq(s)[off[j - 1] + k] = s[j][k]
<1>1. PICK m \in Nat : m = Len(s)
  BY LenProperties
<1>2. PICK G : Joins(s, S, G)
  BY JoinsExists
<1>3. FlattenSeq(s) = G[m] /\ FlattenSeq(s) \in Seq(S)
  BY <1>1, <1>2, FlattenIs
<1>4. /\ G \in [0 .. m -> Seq(S)] /\ G[0] = << >>
      /\ \A i \in 1 .. m : G[i] = G[i - 1] \o s[i]
  BY <1>1, <1>2 DEF Joins
<1>5. /\ off \in [0 .. m -> Nat] /\ off[0] = 0
      /\ \A j \in 1 .. m : off[j] = off[j - 1] + Len(s[j])
  BY <1>1 DEF Adds
<1> DEFINE Placed(n) == \A j \in 1 .. n : \A k \in 1 .. Len(s[j]) :
              off[j - 1] + k \in 1 .. off[n] /\ G[n][off[j - 1] + k] = s[j][k]
           T == {n \in Nat : n <= m => Len(G[n]) = off[n] /\ Placed(n)}
<1>6. 0 \in T
  BY <1>4, <1>5
<1>7. ASSUME NEW n \in Nat, n \in T PROVE n + 1 \in T
  <2>1. ASSUME n + 1 <= m PROVE Len(G[n + 1]) = off[n + 1] /\ Placed(n + 1)
    <3>1. PICK p \in 1 .. m : p = n + 1 /\ p - 1 = n
      BY <2>1
    <3>2. Len(G[n]) = off[n] /\ Placed(n)
      <4> HIDE DEF Placed
      <4>1. QED
        BY <1>7, <2>1
    <3>3. G[n] \in Seq(S) /\ s[p] \in Seq(S)
      <4>1. n \in 0 .. m
        BY <2>1
      <4>2. QED
        BY <1>1, <1>4, <4>1, ElementOfSeq
    <3>4. G[p] = G[n] \o s[p] /\ off[p] = off[n] + Len(s[p])
      BY <1>4, <1>5, <3>1
    <3>5. /\ off[n] \in Nat /\ Len(s[p]) \in Nat /\ off[p] \in Nat
      <4>1. n \in 0 .. m /\ p \in 0 .. m
        BY <2>1, <3>1
      <4>2. QED
        BY <1>5, <3>3, <4>1, LenProperties
    <3>6. /\ Len(G[p]) = off[n] + Len(s[p])
          /\ \A i \in 1 .. off[n] + Len(s[p]) :
               G[p][i] = IF i <= off[n] THEN G[n][i] ELSE s[p][i - off[n]]
      <4> HIDE DEF Placed
      <4>1. Len(G[n] \o s[p]) = Len(G[n]) + Len(s[p])
            /\ \A i \in 1 .. Len(G[n]) + Len(s[p]) : (G[n] \o s[p])[i] =
                 IF i <= Len(G[n]) THEN G[n][i] ELSE s[p][i - Len(G[n])]
        BY <3>3, ConcatProperties
      <4>2. Len(G[n]) = off[n] /\ G[p] = G[n] \o s[p]
        BY <3>2, <3>4
      <4>3. QED
        BY <4>1, <4>2, Zenon
    <3>7. ASSUME NEW j \in 1 .. p, NEW k \in 1 .. Len(s[j])
          PROVE  off[j - 1] + k \in 1 .. off[p] /\ G[p][off[j - 1] + k] = s[j][k]
      <4>1. CASE j = p
        <5>1. k \in Nat /\ k >= 1 /\ k <= Len(s[p]) /\ off[j - 1] = off[n]
          BY <3>1, <3>5, <4>1
        <5>2. PICK q \in Nat : q = off[n] + k
          BY <3>5, <5>1
        <5>3. q \in 1 .. off[n] + Len(s[p]) /\ ~(q <= off[n]) /\ q - off[n] = k
          <6>1. PICK a \in Nat : a = off[n]
            BY <3>5
          <6>2. PICK b \in Nat : b = Len(s[p])
            BY <3>5
          <6>3. q = a + k
            BY <5>2, <6>1
          <6>4. k <= b
            BY <5>1, <6>2
          <6>5. q \in 1 .. a + b /\ ~(q <= a) /\ q - a = k
            <7>1. k \in Nat /\ k >= 1
              BY <5>1
            <7> HIDE DEF Placed, T
            <7>2. QED
              BY <6>3, <6>4, <7>1
          <6>6. QED
            BY <6>1, <6>2, <6>5
        <5>4. G[p][q] = s[p][q - off[n]]
          BY <3>6, <5>3
        <5>5. QED
          BY <3>4, <4>1, <5>1, <5>2, <5>3, <5>4
      <4>2. CASE j # p
        <5>1. j \in 1 .. n
          BY <3>1, <4>2
        <5>2. PICK q \in 1 .. off[n] : q = off[j - 1] + k /\ G[n][q] = s[j][k]
          BY <3>2, <5>1
        <5>3. q \in 1 .. off[n] + Len(s[p]) /\ q <= off[n]
          BY <3>5
        <5>4. G[p][q] = G[n][q]
          BY <3>6, <5>3
        <5>5. QED
          BY <3>4, <5>2, <5>3, <5>4
      <4>3. QED
        BY <4>1, <4>2
    <3>8. QED
      BY <3>1, <3>4, <3>6, <3>7
  <2> HIDE DEF Placed
  <2>2. QED
    BY <2>1
<1>8. m \in T
  <2> HIDE DEF T
  <2>1. QED
    BY <1>6, <1>7, NatSet
<1>9. QED
  BY <1>1, <1>3, <1>8

(* The same of one element.                                                *)
LEMMA FlattenPlace ==
  ASSUME NEW S, NEW s \in Seq(Seq(S)), NEW off, Adds(s, off),
         NEW j \in 1 .. Len(s), NEW k \in 1 .. Len(s[j])
  PROVE  FlattenSeq(s)[off[j - 1] + k] = s[j][k]
BY FlattenAt

(* Sequences can be put behind another one first.                          *)
LEMMA ConcatFirst ==
  ASSUME NEW S, NEW a \in Seq(S), NEW b \in Seq(S), NEW c \in Seq(S)
  PROVE  a \o (b \o c) = (a \o b) \o c
BY ConcatAssociative

(* The elements of two sequences of sequences follow one another.          *)
LEMMA FlattenConcat ==
  ASSUME NEW S, NEW s \in Seq(Seq(S)), NEW t \in Seq(Seq(S))
  PROVE  FlattenSeq(s \o t) = FlattenSeq(s) \o FlattenSeq(t)
<1>1. PICK m \in Nat : m = Len(s)
  BY LenProperties
<1>2. PICK n \in Nat : n = Len(t)
  BY LenProperties
<1>3. PICK G : Joins(s, S, G)
  BY JoinsExists
<1>4. PICK H : Joins(t, S, H)
  BY JoinsExists
<1>5. /\ FlattenSeq(s) = G[m] /\ FlattenSeq(t) = H[n]
      /\ G[m] \in Seq(S)
  BY <1>1, <1>2, <1>3, <1>4, FlattenIs
<1>6. /\ G \in [0 .. m -> Seq(S)] /\ G[0] = << >>
      /\ \A i \in 1 .. m : G[i] = G[i - 1] \o s[i]
  BY <1>1, <1>3 DEF Joins
<1>7. /\ H \in [0 .. n -> Seq(S)] /\ H[0] = << >>
      /\ \A i \in 1 .. n : H[i] = H[i - 1] \o t[i]
  BY <1>2, <1>4 DEF Joins
<1>8. PICK r \in Seq(Seq(S)) : r = s \o t
  BY ConcatProperties
<1>9. /\ Len(r) = m + n
      /\ \A i \in 1 .. m + n : r[i] = IF i <= m THEN s[i] ELSE t[i - m]
  BY <1>1, <1>2, <1>8, ConcatProperties
<1> DEFINE After(i) == G[m] \o H[i]
           g == [i \in 0 .. m + n |-> IF i <= m THEN G[i] ELSE After(i - m)]
<1>10. \A i \in 0 .. n : H[i] \in Seq(S) /\ After(i) \in Seq(S)
  BY <1>5, <1>7, ConcatProperties
<1>11. After(0) = G[m]
  BY <1>5, <1>7, ConcatEmptySeq
<1>12. ASSUME NEW i \in 1 .. n PROVE After(i) = After(i - 1) \o t[i]
  <2>1. H[i] = H[i - 1] \o t[i] /\ H[i - 1] \in Seq(S) /\ t[i] \in Seq(S)
    <3>1. i - 1 \in 0 .. n
      OBVIOUS
    <3>2. t[i] \in Seq(S)
      BY <1>2, ElementOfSeq
    <3>3. QED
      BY <1>7, <1>10, <3>1, <3>2
  <2>2. G[m] \o H[i] = (G[m] \o H[i - 1]) \o t[i]
    <3>1. \A a, b, c \in Seq(S) : a \o (b \o c) = (a \o b) \o c
      BY ConcatFirst
    <3>2. G[m] \o (H[i - 1] \o t[i]) = (G[m] \o H[i - 1]) \o t[i]
      BY <1>5, <2>1, <3>1, Zenon
    <3>3. QED
      BY <2>1, <3>2
  <2>3. QED
    BY <2>1, <2>2
<1> HIDE DEF After
<1>13. /\ \A i \in 0 .. m : g[i] = G[i]
       /\ \A i \in 0 .. n : g[m + i] = After(i)
  <2>1. ASSUME NEW i \in 0 .. n PROVE g[m + i] = After(i)
    <3>1. m + i \in 0 .. m + n /\ m + i - m = i
      OBVIOUS
    <3>2. CASE i = 0
      BY <1>11, <3>1, <3>2
    <3>3. CASE i # 0
      <4>1. ~(m + i <= m)
        BY <3>3
      <4>2. g[m + i] = After(m + i - m)
        BY <3>1, <4>1
      <4>3. QED
        BY <3>1, <4>2
    <3>4. QED
      BY <3>2, <3>3
  <2>2. \A i \in 0 .. m : g[i] = G[i]
    OBVIOUS
  <2> HIDE DEF g
  <2>3. QED
    BY <2>1, <2>2
<1>14. g \in [0 .. m + n -> Seq(S)]
  <2>1. ASSUME NEW i \in 0 .. m + n
        PROVE  (IF i <= m THEN G[i] ELSE After(i - m)) \in Seq(S)
    BY <1>6, <1>10
  <2>2. QED
    BY <2>1
<1> HIDE DEF g
<1>15. ASSUME NEW i \in 1 .. m + n PROVE g[i] = g[i - 1] \o r[i]
  <2>1. i <= m \/ i > m
    OBVIOUS
  <2>2. CASE i <= m
    <3>1. i \in 1 .. m /\ i \in 0 .. m /\ i - 1 \in 0 .. m
      BY <2>2
    <3>2. r[i] = s[i]
      BY <1>9, <2>2
    <3>3. QED
      BY <1>6, <1>13, <3>1, <3>2
  <2>3. CASE i > m
    <3>1. PICK k \in 1 .. n : i = m + k /\ k = i - m
      BY <2>3
    <3>2. k \in 0 .. n /\ k - 1 \in 0 .. n /\ i - 1 = m + (k - 1)
      BY <3>1
    <3>3. g[i] = After(k) /\ g[i - 1] = After(k - 1)
      BY <1>13, <3>1, <3>2
    <3>4. r[i] = t[k]
      BY <1>9, <2>3, <3>1
    <3>5. QED
      BY <1>12, <3>3, <3>4
  <2>4. QED
    BY <2>1, <2>2, <2>3
<1>16. Joins(r, S, g)
  <2>1. 0 \in 0 .. m
    OBVIOUS
  <2>2. g[0] = << >>
    BY <1>6, <1>13, <2>1
  <2>3. QED
    BY <1>9, <1>14, <1>15, <2>2 DEF Joins
<1>17. FlattenSeq(r) = g[m + n]
  BY <1>9, <1>16, FlattenIs
<1>18. g[m + n] = After(n)
  BY <1>13
<1>19. QED
  BY <1>5, <1>8, <1>17, <1>18 DEF After
(***************************************************************************)
(* Chunks and their features                                                *)
(***************************************************************************)
ChunkType == [features : Seq(Int), nullCount : Int]
FeaturesOf(chunks) == [j \in DOMAIN chunks |-> chunks[j].features]
Flat(chunks) == FlattenSeq(FeaturesOf(chunks))

(* Offsets() are the positions of the chunks' features in Flat().          *)
LEMMA OffsetsAdd ==
  ASSUME NEW chunks \in Seq(ChunkType)
  PROVE  /\ FeaturesOf(chunks) \in Seq(Seq(Int))
         /\ Len(FeaturesOf(chunks)) = Len(chunks)
         /\ \A j \in 1 .. Len(chunks) :
              /\ chunks[j].features \in Seq(Int) /\ chunks[j].nullCount \in Int
              /\ FeaturesOf(chunks)[j] = chunks[j].features
         /\ Adds(FeaturesOf(chunks), Offsets(chunks))
         /\ DOMAIN Offsets(chunks) = 0 .. Len(chunks)
<1>1. PICK m \in Nat : m = Len(chunks)
  BY LenProperties
<1>2. DOMAIN chunks = 1 .. m
  BY <1>1, LenProperties
<1>3. ASSUME NEW j \in 1 .. m
      PROVE  /\ chunks[j].features \in Seq(Int) /\ chunks[j].nullCount \in Int
             /\ Len(chunks[j].features) \in Nat
  <2>1. chunks[j] \in ChunkType
    BY <1>1, ElementOfSeq
  <2>2. chunks[j].features \in Seq(Int) /\ chunks[j].nullCount \in Int
    BY <2>1 DEF ChunkType
  <2>3. QED
    BY <2>2, LenProperties
<1>4. PICK f \in Seq(Seq(Int)) : f = FeaturesOf(chunks)
  <2>1. [j \in 1 .. m |-> chunks[j].features] \in Seq(Seq(Int))
    BY <1>3
  <2>2. QED
    BY <1>2, <2>1 DEF FeaturesOf
<1>5. Len(f) = m /\ \A j \in 1 .. m : f[j] = chunks[j].features
  <2>1. f = [j \in 1 .. m |-> chunks[j].features]
    BY <1>2, <1>4 DEF FeaturesOf
  <2>2. QED
    BY <2>1
<1>6. PICK lens \in Seq(Nat) : lens = [j \in DOMAIN chunks |-> Len(chunks[j].features)]
  <2> DEFINE L(j) == Len(chunks[j].features)
  <2>1. [j \in 1 .. m |-> L(j)] \in Seq(Nat)
    <3>1. \A j \in 1 .. m : L(j) \in Nat
      BY <1>3
    <3> HIDE DEF L
    <3>2. QED
      BY <3>1
  <2>2. QED
    BY <1>2, <2>1
<1>7. Len(lens) = m /\ \A j \in 1 .. m : lens[j] = Len(chunks[j].features)
  <2>1. lens = [j \in 1 .. m |-> Len(chunks[j].features)]
    BY <1>2, <1>6
  <2>2. QED
    BY <2>1
<1>8. PICK off : off = Offsets(chunks) /\ off = Sums(lens)
  BY <1>6 DEF Offsets
<1>9. /\ off \in [0 .. m -> Nat] /\ off[0] = 0
      /\ \A j \in 1 .. m : off[j] = off[j - 1] + lens[j]
  BY <1>7, <1>8, SumsIs
<1>10. ASSUME NEW j \in 1 .. m PROVE off[j] = off[j - 1] + Len(f[j])
  BY <1>5, <1>7, <1>9
<1>11. Adds(f, off)
  BY <1>5, <1>9, <1>10 DEF Adds
<1>12. QED
  BY <1>1, <1>3, <1>4, <1>5, <1>8, <1>9, <1>11

(* Flat(chunks) has Total(chunks) features.                                *)
LEMMA FlatIs ==
  ASSUME NEW chunks \in Seq(ChunkType)
  PROVE  /\ Flat(chunks) \in Seq(Int)
         /\ Total(chunks) \in Nat
         /\ Len(Flat(chunks)) = Total(chunks)
         /\ Total(chunks) = Offsets(chunks)[Len(chunks)]
<1>1. PICK f \in Seq(Seq(Int)) : f = FeaturesOf(chunks)
  BY OffsetsAdd
<1>2. PICK off : off = Offsets(chunks)
  OBVIOUS
<1>3. PICK m \in Nat : m = Len(chunks)
  BY LenProperties
<1>4. Adds(f, off) /\ Len(f) = m
  BY <1>1, <1>2, <1>3, OffsetsAdd
<1>5. FlattenSeq(f) \in Seq(Int) /\ Len(FlattenSeq(f)) = off[m]
  BY <1>4, FlattenAt
<1>6. off[m] \in Nat
  BY <1>4 DEF Adds
<1>7. QED
  BY <1>1, <1>2, <1>3, <1>5, <1>6 DEF Flat, Total

(* geoarrow_handle_vctr() finds feature k of all: the search for its chunk *)
(* ends, at the chunk that has it.                                         *)
LEMMA FeatureIs ==
  ASSUME NEW chunks \in Seq(ChunkType), NEW k \in 1 .. Total(chunks)
  PROVE  /\ Feature(chunks, k) = Flat(chunks)[k]
         /\ \E j \in 1 .. Len(chunks) :
              /\ Offsets(chunks)[j - 1] < k /\ k <= Offsets(chunks)[j]
              /\ k - Offsets(chunks)[j - 1] \in 1 .. Len(chunks[j].features)
              /\ Flat(chunks)[k] = chunks[j].features[k - Offsets(chunks)[j - 1]]
<1>1. PICK f \in Seq(Seq(Int)) : f = FeaturesOf(chunks)
  BY OffsetsAdd
<1>2. PICK off : off = Offsets(chunks)
  OBVIOUS
<1>3. PICK m \in Nat : m = Len(chunks)
  BY LenProperties
<1>4. /\ Adds(f, off) /\ Len(f) = m /\ DOMAIN off = 0 .. m
      /\ \A j \in 1 .. m : f[j] = chunks[j].features
  BY <1>1, <1>2, <1>3, OffsetsAdd
<1>5. Total(chunks) = off[m] /\ Total(chunks) \in Nat /\ k \in Nat /\ k >= 1
  BY <1>2, <1>3, FlatIs
<1>6. /\ off \in [0 .. m -> Nat] /\ off[0] = 0
      /\ \A j \in 1 .. m : off[j] = off[j - 1] + Len(f[j])
  BY <1>4 DEF Adds
<1> DEFINE In(j) == k <= off[j] /\ \A i \in 1 .. j - 1 : off[i] < k
<1>7. \E j \in 1 .. m : In(j)
  <2>1. PICK j \in 1 .. m : off[j - 1] < k /\ k <= off[j]
    BY <1>4, <1>5, AddsFind
  <2>2. ASSUME NEW i \in 1 .. j - 1 PROVE off[i] < k
    <3>1. j - 1 \in 0 .. Len(f) /\ i \in 0 .. j - 1
      BY <1>4
    <3>2. off[i] <= off[j - 1] /\ off[i] \in Nat /\ off[j - 1] \in Nat
      BY <1>4, <3>1, AddsGrow
    <3>3. QED
      BY <1>5, <2>1, <3>2
  <2>3. QED
    BY <2>1, <2>2
<1>8. PICK j \in 1 .. m : j = ChunkOf(off, k) /\ In(j)
  <2>1. Cardinality(DOMAIN off) - 1 = m
    <3>1. Cardinality(0 .. m) = m - 0 + 1
      BY FS_Interval
    <3>2. QED
      BY <1>4, <3>1
  <2>2. ChunkOf(off, k) = CHOOSE i \in 1 .. m : In(i)
    BY <2>1 DEF ChunkOf
  <2> HIDE DEF In
  <2>3. QED
    BY <1>7, <2>2
<1>9. off[j - 1] < k /\ k <= off[j]
  <2>1. CASE j = 1
    BY <1>5, <1>6, <1>8, <2>1
  <2>2. CASE j # 1
    BY <1>8, <2>2
  <2>3. QED
    BY <1>8, <2>1, <2>2
<1>10. PICK i \in Nat : i = k - off[j - 1] /\ off[j - 1] \in Nat
  <2>1. off[j - 1] \in Nat
    <3>1. j - 1 \in 0 .. m
      OBVIOUS
    <3>2. QED
      BY <1>6, <3>1
  <2>2. QED
    BY <1>5, <1>9, <2>1
<1>11. i \in 1 .. Len(f[j]) /\ off[j - 1] + i = k
  <2>1. off[j] = off[j - 1] + Len(f[j])
    BY <1>6
  <2>2. Len(f[j]) \in Nat
    <3>1. f[j] \in Seq(Int)
      BY <1>4, ElementOfSeq
    <3>2. QED
      BY <3>1, LenProperties
  <2>3. PICK a \in Nat : a = off[j - 1]
    BY <1>10
  <2>4. PICK b \in Nat : b = Len(f[j])
    BY <2>2
  <2>5. i = k - a /\ a < k /\ k <= a + b
    BY <1>9, <1>10, <2>1, <2>3, <2>4
  <2>6. i \in 1 .. b /\ a + i = k
    BY <1>5, <2>5
  <2>7. QED
    BY <2>3, <2>4, <2>6
<1>12. FlattenSeq(f)[k] = f[j][i]
  <2>1. FlattenSeq(f)[off[j - 1] + i] = f[j][i]
    <3>1. Adds(f, off) /\ j \in 1 .. Len(f) /\ i \in 1 .. Len(f[j])
      BY <1>4, <1>11
    <3>2. QED
      BY <3>1, FlattenPlace
  <2>2. QED
    BY <1>11, <2>1
<1>13. Feature(chunks, k) = chunks[j].features[i]
  <2>1. ~(k = NA \/ k < 1 \/ k > Total(chunks))
    BY <1>5 DEF NA
  <2>2. QED
    BY <1>2, <1>8, <1>10, <2>1 DEF Feature
<1>14. QED
  BY <1>1, <1>2, <1>3, <1>4, <1>9, <1>10, <1>11, <1>12, <1>13 DEF Flat

(* An NA index gives a null.                                               *)
LEMMA FeatureNA ==
  ASSUME NEW chunks PROVE Feature(chunks, NA) = Null
BY DEF Feature

(* The features of chunks that follow one another, and of one chunk.       *)
LEMMA FlatConcat ==
  ASSUME NEW c \in Seq(ChunkType), NEW d \in Seq(ChunkType)
  PROVE  Flat(c \o d) = Flat(c) \o Flat(d)
<1>1. PICK m \in Nat : m = Len(c)
  BY LenProperties
<1>2. PICK n \in Nat : n = Len(d)
  BY LenProperties
<1>3. PICK cd \in Seq(ChunkType) : cd = c \o d
  BY ConcatProperties
<1>4. /\ Len(cd) = m + n
      /\ \A i \in 1 .. m + n : cd[i] = IF i <= m THEN c[i] ELSE d[i - m]
  BY <1>1, <1>2, <1>3, ConcatProperties
<1>5. PICK f \in Seq(Seq(Int)) : f = FeaturesOf(c) /\ Len(f) = m
                              /\ \A j \in 1 .. m : f[j] = c[j].features
  BY <1>1, OffsetsAdd
<1>6. PICK g \in Seq(Seq(Int)) : g = FeaturesOf(d) /\ Len(g) = n
                              /\ \A j \in 1 .. n : g[j] = d[j].features
  BY <1>2, OffsetsAdd
<1>7. PICK h \in Seq(Seq(Int)) : h = FeaturesOf(cd) /\ Len(h) = m + n
                              /\ \A j \in 1 .. m + n : h[j] = cd[j].features
  BY <1>4, OffsetsAdd
<1>8. PICK fg \in Seq(Seq(Int)) :
        /\ fg = f \o g /\ Len(fg) = m + n
        /\ \A i \in 1 .. m + n : fg[i] = IF i <= m THEN f[i] ELSE g[i - m]
  <2>1. f \o g \in Seq(Seq(Int)) /\ Len(f \o g) = Len(f) + Len(g)
        /\ \A i \in 1 .. Len(f) + Len(g) :
             (f \o g)[i] = IF i <= Len(f) THEN f[i] ELSE g[i - Len(f)]
    BY ConcatProperties
  <2>2. Len(f) = m /\ Len(g) = n
    BY <1>5, <1>6
  <2>3. QED
    BY <2>1, <2>2, Zenon
<1>9. ASSUME NEW i \in 1 .. m + n PROVE h[i] = fg[i]
  <2>1. CASE i <= m
    <3>1. i \in 1 .. m
      BY <2>1
    <3>2. f[i] = c[i].features
      BY <1>5, <3>1
    <3>3. h[i] = cd[i].features /\ cd[i] = c[i] /\ fg[i] = f[i]
      BY <1>4, <1>7, <1>8, <2>1
    <3>4. QED
      BY <3>2, <3>3
  <2>2. CASE ~(i <= m)
    <3>1. i - m \in 1 .. n
      BY <2>2
    <3>2. QED
      BY <1>4, <1>6, <1>7, <1>8, <2>2, <3>1
  <2>3. QED
    BY <2>1, <2>2
<1>10. h = fg
  BY <1>7, <1>8, <1>9, SeqEqual
<1>11. QED
  BY <1>3, <1>5, <1>6, <1>7, <1>8, <1>10, FlattenConcat DEF Flat

(* FlattenSeq of nothing, and of one sequence.                             *)
LEMMA FlattenShort ==
  ASSUME NEW S, NEW t \in Seq(S)
  PROVE  FlattenSeq(<< >>) = << >> /\ FlattenSeq(<<t>>) = t
<1>1. FlattenSeq(<< >>) = << >>
  BY DEF FlattenSeq
<1>2. PICK s \in Seq(Seq(S)) : s = << >>
  BY EmptySeq
<1>3. FlattenSeq(Append(s, t)) = FlattenSeq(s) \o t
  BY FlattenAppend
<1>4. Append(s, t) = <<t>>
  BY <1>2
<1>5. << >> \o t = t
  BY ConcatEmptySeq
<1>6. QED
  BY <1>1, <1>2, <1>3, <1>4, <1>5

(* The features of one chunk.                                              *)
LEMMA FlatOne ==
  ASSUME NEW c \in ChunkType
  PROVE  /\ <<c>> \in Seq(ChunkType)
         /\ Flat(<<c>>) = c.features
<1>1. c.features \in Seq(Int)
  BY DEF ChunkType
<1>2. FeaturesOf(<<c>>) = <<c.features>>
  BY DEF FeaturesOf
<1>3. QED
  BY <1>1, <1>2, FlattenShort DEF Flat
(***************************************************************************)
(* Vectors                                                                  *)
(***************************************************************************)

(* A chunk that says it has no nulls has none.                             *)
NullsCounted(c) ==
  \A k \in 1 .. Len(c.features) : c.features[k] = Null => c.nullCount # 0

(* The indices are NA or resolve.                                          *)
IsVctr(x) ==
  /\ x \in [type : Types, chunks : Seq(ChunkType), indices : Seq(Int)]
  /\ \A j \in 1 .. Len(x.chunks) : NullsCounted(x.chunks[j])
  /\ \A i \in 1 .. Len(x.indices) :
       x.indices[i] = NA \/ x.indices[i] \in 1 .. Total(x.chunks)

(* A chunk that is made of features counts its nulls, or says that it has  *)
(* not.                                                                    *)
LEMMA NewChunkIs ==
  ASSUME NEW features \in Seq(Int), NEW known \in BOOLEAN
  PROVE  /\ NewChunk(features, known) \in ChunkType
         /\ NewChunk(features, known).features = features
         /\ NullsCounted(NewChunk(features, known))
<1>1. PICK n \in Nat : n = Len(features)
  BY LenProperties
<1> DEFINE N == {k \in DOMAIN features : features[k] = Null}
<1>2. DOMAIN features = 1 .. n
  BY <1>1, LenProperties
<1>3. IsFiniteSet(N) /\ Cardinality(N) \in Nat
  <2>1. IsFiniteSet(1 .. n)
    BY FS_Interval
  <2>2. IsFiniteSet(N)
    BY <1>2, <2>1, FS_Subset
  <2>3. QED
    BY <2>2, FS_CardinalityType
<1>4. NullsIn(features) = Cardinality(N)
  BY DEF NullsIn
<1>5. (\E k \in 1 .. n : features[k] = Null) => Cardinality(N) # 0
  <2>1. ASSUME NEW k \in 1 .. n, features[k] = Null PROVE Cardinality(N) # 0
    <3>1. N # {}
      BY <1>2, <2>1
    <3> HIDE DEF N
    <3>2. QED
      BY <1>3, <3>1, FS_EmptySet
  <2>2. QED
    BY <2>1
<1> HIDE DEF N
<1> DEFINE c == NewChunk(features, known)
<1>6. /\ c = [features |-> features, nullCount |-> c.nullCount]
      /\ c.nullCount \in Int
      /\ c.nullCount = 0 => Cardinality(N) = 0
  BY <1>3, <1>4 DEF NewChunk
<1> HIDE DEF c
<1>7. c.features = features /\ c \in ChunkType
  BY <1>6 DEF ChunkType
<1>8. NullsCounted(c)
  BY <1>1, <1>5, <1>6, <1>7 DEF NullsCounted
<1>9. QED
  BY <1>7, <1>8 DEF c

(* What wk handlers read of a vector.                                      *)
LEMMA HandledIs ==
  ASSUME NEW x, IsVctr(x)
  PROVE  /\ Handled(x) \in Seq(Int)
         /\ Len(Handled(x)) = Len(x.indices)
         /\ \A i \in 1 .. Len(x.indices) :
              /\ x.indices[i] = NA => Handled(x)[i] = Null
              /\ x.indices[i] # NA =>
                   x.indices[i] \in 1 .. Total(x.chunks)
                     /\ Handled(x)[i] = Flat(x.chunks)[x.indices[i]]
<1>1. x.indices \in Seq(Int) /\ x.chunks \in Seq(ChunkType)
  BY DEF IsVctr
<1>2. PICK n \in Nat : n = Len(x.indices) /\ DOMAIN x.indices = 1 .. n
  BY <1>1, LenProperties
<1> DEFINE h(i) == Feature(x.chunks, x.indices[i])
<1>3. Handled(x) = [i \in 1 .. n |-> h(i)]
  BY <1>2 DEF Handled
<1>4. ASSUME NEW i \in 1 .. n
      PROVE  /\ h(i) \in Int
             /\ x.indices[i] = NA => h(i) = Null
             /\ x.indices[i] # NA => x.indices[i] \in 1 .. Total(x.chunks)
                                    /\ h(i) = Flat(x.chunks)[x.indices[i]]
  <2>1. CASE x.indices[i] = NA
    BY <2>1, FeatureNA DEF Null
  <2>2. CASE x.indices[i] # NA
    <3>1. PICK k \in 1 .. Total(x.chunks) : k = x.indices[i]
      BY <1>2, <2>2 DEF IsVctr
    <3>2. Feature(x.chunks, k) = Flat(x.chunks)[k]
      BY <1>1, FeatureIs
    <3>3. Flat(x.chunks)[k] \in Int
      <4>1. Flat(x.chunks) \in Seq(Int) /\ Len(Flat(x.chunks)) = Total(x.chunks)
        BY <1>1, FlatIs
      <4>2. QED
        BY <4>1, ElementOfSeq
    <3>4. QED
      BY <2>2, <3>1, <3>2, <3>3
  <2>3. QED
    BY <2>1, <2>2
<1> HIDE DEF h
<1>5. Handled(x) \in Seq(Int) /\ Len(Handled(x)) = n /\ \A i \in 1 .. n : Handled(x)[i] = h(i)
  BY <1>3, <1>4
<1>6. QED
  BY <1>2, <1>4, <1>5

(* A vector without indices of its own is well formed.                     *)
LEMMA NewVctrIs ==
  ASSUME NEW type \in Types, NEW chunks \in Seq(ChunkType),
         \A j \in 1 .. Len(chunks) : NullsCounted(chunks[j])
  PROVE  /\ IsVctr(NewVctr(type, chunks))
         /\ NewVctr(type, chunks).chunks = chunks
         /\ NewVctr(type, chunks).type = type
         /\ IsWhole(NewVctr(type, chunks))
<1>1. PICK n \in Nat : n = Total(chunks)
  BY FlatIs
<1>2. PICK s : s = SeqLen(n)
  OBVIOUS
<1>3. s \in Seq(Int) /\ Len(s) = n /\ \A i \in 1 .. n : s[i] = i
  BY <1>2 DEF SeqLen
<1>4. PICK x : x = NewVctr(type, chunks)
  OBVIOUS
<1>5. x = [type |-> type, chunks |-> chunks, indices |-> s]
  BY <1>1, <1>2, <1>4 DEF NewVctr
<1>6. x.type = type /\ x.chunks = chunks /\ x.indices = s
  BY <1>5
<1>7. x \in [type : Types, chunks : Seq(ChunkType), indices : Seq(Int)]
  BY <1>3, <1>5
<1>8. IsVctr(x)
  BY <1>1, <1>3, <1>6, <1>7 DEF IsVctr
<1>9. IsWhole(x)
  BY <1>1, <1>2, <1>6 DEF IsWhole
<1>10. QED
  BY <1>4, <1>6, <1>8, <1>9

(* wk handlers read all features of a vector without indices of its own.   *)
LEMMA WholeHandled ==
  ASSUME NEW x, IsVctr(x), IsWhole(x)
  PROVE  Handled(x) = Flat(x.chunks)
<1>1. x.chunks \in Seq(ChunkType)
  BY DEF IsVctr
<1>2. PICK f \in Seq(Int) : f = Flat(x.chunks) /\ Len(f) = Total(x.chunks)
  BY <1>1, FlatIs
<1>3. PICK n \in Nat : n = Total(x.chunks)
  BY <1>1, FlatIs
<1>4. PICK s : s = x.indices
  OBVIOUS
<1>5. s = [i \in 1 .. n |-> i]
  BY <1>3, <1>4 DEF IsWhole, SeqLen
<1>6. Len(s) = n /\ \A i \in 1 .. n : s[i] = i /\ s[i] # NA
  BY <1>5 DEF NA
<1>7. PICK h \in Seq(Int) : h = Handled(x) /\ Len(h) = n
  BY <1>4, <1>6, HandledIs
<1>8. ASSUME NEW i \in 1 .. n PROVE h[i] = f[i]
  <2>1. i \in 1 .. Len(x.indices) /\ x.indices[i] = i /\ x.indices[i] # NA
    BY <1>4, <1>6
  <2>2. QED
    BY <1>2, <1>7, <2>1, HandledIs
<1>9. h = f
  BY <1>2, <1>3, <1>7, <1>8, SeqEqual
<1>10. QED
  BY <1>2, <1>7, <1>9

(* geoarrow_vctr(x, schema): its chunks hold the features of x, if x is    *)
(* cast or has no indices of its own.                                      *)
LEMMA CastedIs ==
  ASSUME NEW x, IsVctr(x), NEW type \in Types, IsWhole(x) \/ x.type # type
  PROVE  /\ Casted(x, type).chunks \in Seq(ChunkType)
         /\ \A j \in 1 .. Len(Casted(x, type).chunks) : NullsCounted(Casted(x, type).chunks[j])
         /\ Flat(Casted(x, type).chunks) = Handled(x)
<1>1. CASE x.type = type
  <2>1. Casted(x, type) = x /\ IsWhole(x)
    BY <1>1 DEF Casted
  <2>2. QED
    BY <2>1, WholeHandled DEF IsVctr
<1>2. CASE x.type # type
  <2>1. PICK h \in Seq(Int) : h = Handled(x)
    BY HandledIs
  <2>2. PICK c \in ChunkType : c = NewChunk(h, TRUE) /\ c.features = h /\ NullsCounted(c)
    <3>1. PICK known \in BOOLEAN : known = TRUE
      BY Zenon
    <3>2. QED
      BY <3>1, NewChunkIs
  <2>3. Casted(x, type).chunks = <<c>>
    BY <1>2, <2>1, <2>2 DEF Casted, NewVctr
  <2>4. <<c>> \in Seq(ChunkType) /\ Flat(<<c>>) = h
    BY <2>2, FlatOne
  <2>5. \A j \in 1 .. Len(<<c>>) : NullsCounted(<<c>>[j])
    <3>1. ASSUME NEW j \in 1 .. Len(<<c>>) PROVE <<c>>[j] = c
      OBVIOUS
    <3>2. QED
      BY <2>2, <3>1
  <2>6. QED
    BY <2>1, <2>3, <2>4, <2>5, Zenon
<1>3. QED
  BY <1>1, <1>2

(* c(): the features of both.                                              *)
LEMMA ConcatenatedIs ==
  ASSUME NEW x, IsVctr(x), NEW y, IsVctr(y),
         IsWhole(x) \/ x.type # PType2(x, y),
         IsWhole(y) \/ y.type # PType2(x, y)
  PROVE  /\ IsVctr(Concatenated(x, y))
         /\ Handled(Concatenated(x, y)) = Handled(x) \o Handled(y)
<1>1. PICK type \in Types : type = PType2(x, y)
  BY VctrAssumption DEF PType2, IsVctr
<1>2. PICK a \in Seq(ChunkType) :
        /\ a = Casted(x, type).chunks /\ Flat(a) = Handled(x)
        /\ \A j \in 1 .. Len(a) : NullsCounted(a[j])
  BY <1>1, CastedIs
<1>3. PICK b \in Seq(ChunkType) :
        /\ b = Casted(y, type).chunks /\ Flat(b) = Handled(y)
        /\ \A j \in 1 .. Len(b) : NullsCounted(b[j])
  BY <1>1, CastedIs
<1>4. PICK m \in Nat : m = Len(a)
  BY LenProperties
<1>5. PICK n \in Nat : n = Len(b)
  BY LenProperties
<1>6. PICK c \in Seq(ChunkType) : c = a \o b
  BY ConcatProperties
<1>7. Len(c) = m + n /\ \A i \in 1 .. m + n : c[i] = IF i <= m THEN a[i] ELSE b[i - m]
  BY <1>4, <1>5, <1>6, ConcatProperties
<1>8. ASSUME NEW j \in 1 .. m + n PROVE NullsCounted(c[j])
  <2>1. CASE j <= m
    BY <1>2, <1>4, <1>7, <2>1
  <2>2. CASE ~(j <= m)
    <3>1. j - m \in 1 .. n
      BY <2>2
    <3>2. c[j] = b[j - m]
      BY <1>7, <2>2
    <3>3. QED
      BY <1>3, <1>5, <3>1, <3>2
  <2>3. QED
    BY <2>1, <2>2
<1>9. PICK z : z = Concatenated(x, y) /\ z = NewVctr(type, c)
  BY <1>1, <1>2, <1>3, <1>6 DEF Concatenated
<1>10. IsVctr(z) /\ z.chunks = c /\ IsWhole(z)
  BY <1>7, <1>8, <1>9, NewVctrIs
<1>11. Handled(z) = Flat(c)
  BY <1>10, WholeHandled
<1>12. Flat(c) = Handled(x) \o Handled(y)
  BY <1>2, <1>3, <1>6, FlatConcat
<1>13. QED
  BY <1>9, <1>10, <1>11, <1>12
(* Elements of BoundedSeq are sequences.                                   *)
LEMMA BoundedSeqIs ==
  ASSUME NEW S, NEW n \in Nat, NEW s \in BoundedSeq(S, n)
  PROVE  s \in Seq(S)
BY DEF BoundedSeq, SeqOf

(* Arrays as they come are well formed vectors without indices.            *)
LEMMA ConstructedIs ==
  ASSUME NEW first \in Nat, NEW n \in Nat, NEW x \in Constructed(first, n)
  PROVE  IsVctr(x) /\ IsWhole(x)
<1> DEFINE Sum(l) == Sums(l)[Len(l)]
<1>1. PICK lens \in BoundedSeq(ChunkLengths, n) :
        x \in { NewVctr(type, Arrays(first, lens, nulls, known)) :
                type \in Types, nulls \in NullSets(Sum(lens)), known \in BOOLEAN }
  BY DEF Constructed
<1>2. PICK type \in Types, nulls \in NullSets(Sum(lens)), known \in BOOLEAN :
        x = NewVctr(type, Arrays(first, lens, nulls, known))
  BY <1>1
<1>3. lens \in Seq(Nat)
  <2>1. lens \in Seq(ChunkLengths)
    BY BoundedSeqIs
  <2>2. PICK l \in Nat : l = Len(lens) /\ lens \in [1 .. l -> ChunkLengths]
    BY <2>1, LenProperties
  <2>3. lens \in [1 .. l -> Nat]
    BY <2>2, VctrAssumption
  <2>4. QED
    BY <2>3
<1>4. PICK m \in Nat : m = Len(lens) /\ DOMAIN lens = 1 .. m
  BY <1>3, LenProperties
<1> DEFINE c(j) == NewChunk([k \in 1 .. lens[j] |->
                          LET i == Sums(lens)[j - 1] + k
                          IN  IF i \in nulls THEN Null ELSE first + i], known)
<1>5. ASSUME NEW j \in 1 .. m
      PROVE  c(j) \in ChunkType /\ NullsCounted(c(j))
  <2>1. lens[j] \in Nat
    BY <1>3, <1>4, ElementOfSeq
  <2>2. Sums(lens)[j - 1] \in Nat
    <3>1. j - 1 \in 0 .. Len(lens)
      BY <1>4
    <3>2. QED
      BY <1>3, <3>1, SumsIs
  <2> DEFINE f(k) == LET i == Sums(lens)[j - 1] + k IN IF i \in nulls THEN Null ELSE first + i
  <2>3. \A k \in 1 .. lens[j] : f(k) \in Int
    BY <2>1, <2>2 DEF Null
  <2> HIDE DEF f
  <2>4. PICK features \in Seq(Int) : features = [k \in 1 .. lens[j] |-> f(k)]
    <3>1. PICK l \in Nat : l = lens[j]
      BY <2>1
    <3>2. [k \in 1 .. l |-> f(k)] \in Seq(Int)
      BY <2>3, <3>1
    <3>3. QED
      BY <3>1, <3>2
  <2>5. c(j) = NewChunk(features, known)
    BY <2>4 DEF f
  <2> HIDE DEF c
  <2>6. QED
    BY <2>5, NewChunkIs
<1>6. x = NewVctr(type, [j \in 1 .. m |-> c(j)])
  BY <1>2, <1>4 DEF Arrays
<1> HIDE DEF c
<1>7. PICK chunks \in Seq(ChunkType) : chunks = [j \in 1 .. m |-> c(j)]
  <2>1. \A j \in 1 .. m : c(j) \in ChunkType
    BY <1>5
  <2>2. [j \in 1 .. m |-> c(j)] \in Seq(ChunkType)
    BY <2>1
  <2>3. QED
    BY <2>2
<1>8. \A j \in 1 .. Len(chunks) : NullsCounted(chunks[j])
  BY <1>5, <1>7
<1>9. QED
  BY <1>6, <1>7, <1>8, NewVctrIs

(* geoarrow_c_compute() with a filter.                                     *)
LEMMA FilteredIs ==
  ASSUME NEW c \in ChunkType, NEW filter \in Seq(Int)
  PROVE  /\ Filtered(c, filter) \in Seq(Int)
         /\ Len(Filtered(c, filter)) = Len(filter)
         /\ \A i \in 1 .. Len(filter) :
              Filtered(c, filter)[i] =
                IF filter[i] = NA \/ filter[i] < 1 \/ filter[i] > Len(c.features)
                THEN Null ELSE c.features[filter[i]]
<1>1. PICK n \in Nat : n = Len(filter) /\ DOMAIN filter = 1 .. n
  BY LenProperties
<1>2. PICK f \in Seq(Int) : f = c.features
  BY DEF ChunkType
<1>3. PICK m \in Nat : m = Len(f)
  BY LenProperties
<1> DEFINE g(i) == IF filter[i] = NA \/ filter[i] < 1 \/ filter[i] > m
                   THEN Null ELSE f[filter[i]]
<1>4. Filtered(c, filter) = [i \in 1 .. n |-> g(i)]
  BY <1>1, <1>2, <1>3 DEF Filtered
<1>5. ASSUME NEW i \in 1 .. n PROVE g(i) \in Int
  <2>1. PICK k \in Int : k = filter[i]
    BY <1>1, ElementOfSeq
  <2>2. CASE k = NA \/ k < 1 \/ k > m
    BY <2>1, <2>2 DEF Null
  <2>3. CASE ~(k = NA \/ k < 1 \/ k > m)
    <3>1. k \in 1 .. Len(f)
      BY <1>3, <2>3
    <3>2. f[k] \in Int
      BY <3>1, ElementOfSeq
    <3>3. QED
      BY <2>1, <2>3, <3>2
  <2>4. QED
    BY <2>2, <2>3
<1>6. \A i \in 1 .. n : g(i) = IF filter[i] = NA \/ filter[i] < 1 \/ filter[i] > Len(c.features)
                              THEN Null ELSE c.features[filter[i]]
  BY <1>2, <1>3
<1> HIDE DEF g
<1>7. /\ Filtered(c, filter) \in Seq(Int) /\ Len(Filtered(c, filter)) = n
      /\ \A i \in 1 .. n : Filtered(c, filter)[i] = g(i)
  BY <1>4, <1>5
<1>8. QED
  BY <1>1, <1>6, <1>7

(* The same of one feature.                                                *)
LEMMA FilteredAt ==
  ASSUME NEW c \in ChunkType, NEW filter \in Seq(Int), NEW i \in 1 .. Len(filter)
  PROVE  Filtered(c, filter)[i] =
           IF filter[i] = NA \/ filter[i] < 1 \/ filter[i] > Len(c.features)
           THEN Null ELSE c.features[filter[i]]
BY FilteredIs

(* is_identity_slice(): the indices are those of all features.             *)
LEMMA IdentitySliceIs ==
  ASSUME NEW indices \in Seq(Int), NEW len \in Nat, IsIdentitySlice(indices, len)
  PROVE  Len(indices) = len /\ \A i \in 1 .. Len(indices) : indices[i] = i
<1>1. PICK n \in Nat : n = Len(indices)
  BY LenProperties
<1>2. /\ indices # << >> /\ indices[1] = 1 /\ indices[n] = len
      /\ \A i \in 2 .. n : indices[i] - indices[i - 1] = 1
  BY <1>1 DEF IsIdentitySlice, IsSlice
<1>3. n > 0
  BY <1>1, <1>2, EmptySeq
<1>4. \A i \in 1 .. n : indices[i] \in Int
  BY <1>1, ElementOfSeq
<1> DEFINE T == {k \in Nat : k + 1 <= n => indices[k + 1] = k + 1}
<1>5. 0 \in T
  BY <1>2
<1>6. ASSUME NEW k \in Nat, k \in T PROVE k + 1 \in T
  <2>1. ASSUME k + 1 + 1 <= n PROVE indices[k + 1 + 1] = k + 1 + 1
    <3>1. PICK i \in 2 .. n : i = k + 1 + 1 /\ i - 1 = k + 1
      BY <2>1
    <3>2. i \in 1 .. n /\ i - 1 \in 1 .. n
      OBVIOUS
    <3>3. indices[i] - indices[i - 1] = 1 /\ indices[i - 1] = k + 1
      BY <1>2, <1>6, <2>1, <3>1
    <3>4. indices[i] \in Int /\ indices[i - 1] \in Int
      BY <1>4, <3>2
    <3>5. QED
      BY <3>1, <3>3, <3>4
  <2>2. QED
    BY <2>1
<1>7. Nat \subseteq T
  <2> HIDE DEF T
  <2>1. QED
    BY <1>5, <1>6, NatSet
<1>8. ASSUME NEW i \in 1 .. n PROVE indices[i] = i
  <2>1. i - 1 \in T
    <3>1. i - 1 \in Nat
      OBVIOUS
    <3> HIDE DEF T
    <3>2. QED
      BY <1>7, <3>1
  <2>2. i - 1 + 1 = i
    OBVIOUS
  <2>3. QED
    BY <2>1, <2>2
<1>9. QED
  BY <1>1, <1>2, <1>3, <1>8

(* The chunks as_narrow_array() works with: at least one, and only an      *)
(* empty one if there were none.                                           *)
LEMMA NarrowSingle ==
  ASSUME NEW x, IsVctr(x), NEW c \in ChunkType,
         x.chunks = <<c>> \/ (x.chunks = << >> /\ c = EmptyChunk)
  PROVE  /\ \A i \in 1 .. Len(x.indices) :
              \/ x.indices[i] = NA /\ Handled(x)[i] = Null
              \/ /\ x.indices[i] \in 1 .. Len(c.features)
                 /\ Handled(x)[i] = c.features[x.indices[i]]
         /\ Filtered(c, x.indices) = Handled(x)
         /\ IsIdentitySlice(x.indices, Len(c.features)) => c.features = Handled(x)
<1>1. x.indices \in Seq(Int) /\ x.chunks \in Seq(ChunkType)
  BY DEF IsVctr
<1>2. Flat(x.chunks) = c.features /\ c.features \in Seq(Int)
  <2>1. c.features \in Seq(Int)
    BY DEF ChunkType
  <2>2. CASE x.chunks = <<c>>
    BY <2>1, <2>2, FlatOne
  <2>3. CASE x.chunks = << >> /\ c = EmptyChunk
    <3>1. c.features = << >> /\ FeaturesOf(<< >>) = << >>
      BY <2>3 DEF EmptyChunk, FeaturesOf
    <3>2. FlattenSeq(<< >>) = << >>
      BY <2>1, FlattenShort
    <3>3. QED
      BY <2>1, <2>3, <3>1, <3>2 DEF Flat
  <2>4. QED
    BY <2>2, <2>3
<1>3. PICK m \in Nat : m = Len(c.features) /\ m = Total(x.chunks)
  BY <1>1, <1>2, FlatIs
<1>4. PICK s \in Seq(Int) : s = x.indices
  BY <1>1
<1>5. PICK n \in Nat : n = Len(s)
  BY LenProperties
<1>6. PICK h \in Seq(Int) : h = Handled(x) /\ Len(h) = n
  BY <1>4, <1>5, HandledIs
<1>7. PICK f \in Seq(Int) : f = c.features
  BY <1>2
<1>8. ASSUME NEW i \in 1 .. n
      PROVE  (s[i] = NA /\ h[i] = Null) \/ (s[i] \in 1 .. m /\ h[i] = f[s[i]])
  BY <1>2, <1>3, <1>4, <1>5, <1>6, <1>7, HandledIs
<1>9. Filtered(c, s) = h
  <2>1. PICK g \in Seq(Int) : g = Filtered(c, s) /\ Len(g) = n
    BY <1>5, FilteredIs
  <2>2. ASSUME NEW i \in 1 .. n PROVE g[i] = h[i]
    <3>1. g[i] = IF s[i] = NA \/ s[i] < 1 \/ s[i] > m THEN Null ELSE f[s[i]]
      <4>1. i \in 1 .. Len(s)
        BY <1>5
      <4>2. Filtered(c, s)[i] = IF s[i] = NA \/ s[i] < 1 \/ s[i] > Len(c.features)
                                THEN Null ELSE c.features[s[i]]
        BY <4>1, FilteredIs
      <4>3. QED
        BY <1>3, <1>7, <2>1, <4>2
    <3>2. CASE s[i] = NA /\ h[i] = Null
      BY <3>1, <3>2
    <3>3. CASE s[i] \in 1 .. m /\ h[i] = f[s[i]]
      <4>1. PICK k \in 1 .. m : k = s[i]
        BY <3>3
      <4>2. ~(k = NA \/ k < 1 \/ k > m)
        BY DEF NA
      <4>3. QED
        BY <3>1, <3>3, <4>1, <4>2
    <3>4. QED
      BY <1>8, <3>2, <3>3
  <2>3. QED
    BY <1>6, <2>1, <2>2, SeqEqual
<1>10. ASSUME IsIdentitySlice(s, m) PROVE f = h
  <2>1. n = m /\ \A i \in 1 .. n : s[i] = i
    BY <1>5, <1>10, IdentitySliceIs
  <2>2. ASSUME NEW i \in 1 .. n PROVE f[i] = h[i]
    <3>1. s[i] = i /\ s[i] # NA
      BY <2>1 DEF NA
    <3>2. QED
      BY <1>8, <3>1
  <2>3. QED
    BY <1>3, <1>6, <1>7, <2>1, <2>2, SeqEqual
<1>11. QED
  BY <1>3, <1>4, <1>5, <1>6, <1>7, <1>8, <1>9, <1>10

(* as_narrow_array() is exact on each of its paths.                        *)
LEMMA NarrowIs ==
  ASSUME NEW x, IsVctr(x)
  PROVE  AsNarrowArray(x) = Handled(x)
<1>1. PICK chunks \in Seq(ChunkType) : chunks = x.chunks
  BY DEF IsVctr
<1>2. PICK n \in Nat : n = Len(chunks)
  BY LenProperties
<1>3. CASE n > 1
  <2>1. chunks # << >>
    BY <1>2, <1>3
  <2>2. QED
    BY <1>1, <1>2, <1>3, <2>1 DEF AsNarrowArray, ChunksOf
<1>4. CASE n <= 1
  <2>1. \E c \in ChunkType :
          /\ ChunksOf(x) = <<c>>
          /\ x.chunks = <<c>> \/ (x.chunks = << >> /\ c = EmptyChunk)
    <3>1. CASE n = 0
      <4>1. x.chunks = << >>
        BY <1>1, <1>2, <3>1, EmptySeq
      <4>2. EmptyChunk \in ChunkType
        BY DEF EmptyChunk, ChunkType
      <4>3. QED
        BY <4>1, <4>2 DEF ChunksOf
    <3>2. CASE n = 1
      <4>1. PICK c \in ChunkType : c = chunks[1]
        <5>1. 1 \in 1 .. Len(chunks)
          BY <1>2, <3>2
        <5>2. QED
          BY <5>1, ElementOfSeq
      <4>2. <<c>> \in Seq(ChunkType) /\ Len(<<c>>) = 1 /\ <<c>>[1] = c
        OBVIOUS
      <4>3. \A i \in 1 .. Len(chunks) : chunks[i] = <<c>>[i]
        BY <1>2, <3>2, <4>1, <4>2
      <4>4. chunks = <<c>> /\ chunks # << >>
        <5>1. chunks = <<c>>
          BY <1>2, <3>2, <4>2, <4>3, SeqEqual
        <5>2. QED
          BY <5>1
      <4>5. QED
        BY <1>1, <4>4 DEF ChunksOf
    <3>3. QED
      BY <1>4, <3>1, <3>2
  <2>2. PICK c \in ChunkType :
          /\ ChunksOf(x) = <<c>>
          /\ x.chunks = <<c>> \/ (x.chunks = << >> /\ c = EmptyChunk)
    BY <2>1
  <2>3. /\ Filtered(c, x.indices) = Handled(x)
        /\ IsIdentitySlice(x.indices, Len(c.features)) => c.features = Handled(x)
    BY <2>2, NarrowSingle
  <2>4. ~(Len(<<c>>) > 1) /\ <<c>>[1] = c
    OBVIOUS
  <2>5. QED
    BY <2>2, <2>3, <2>4 DEF AsNarrowArray
<1>5. QED
  BY <1>3, <1>4

(* is.na() is exact: if no chunk admits nulls, no index gives one.         *)
LEMMA NAIs ==
  ASSUME NEW x, IsVctr(x), NEW i \in 1 .. Len(x.indices)
  PROVE  IsNA(x)[i] <=> Handled(x)[i] = Null
<1>1. x.indices \in Seq(Int) /\ DOMAIN x.indices = 1 .. Len(x.indices)
  <2>1. x.indices \in Seq(Int)
    BY DEF IsVctr
  <2>2. QED
    BY <2>1, LenProperties
<1>2. IsNA(x)[i] <=> x.indices[i] = NA \/ (AnyArrayNA(x) /\ Handled(x)[i] = Null)
  BY <1>1 DEF IsNA
<1>3. x.indices[i] = NA => Handled(x)[i] = Null
  BY HandledIs
<1>4. ASSUME x.indices[i] # NA, Handled(x)[i] = Null PROVE AnyArrayNA(x)
  <2>1. PICK chunks \in Seq(ChunkType) : chunks = x.chunks
    BY DEF IsVctr
  <2>2. PICK k \in 1 .. Total(chunks) : k = x.indices[i] /\ Flat(chunks)[k] = Null
    BY <1>4, <2>1, HandledIs
  <2>3. PICK j \in 1 .. Len(chunks) :
          /\ k - Offsets(chunks)[j - 1] \in 1 .. Len(chunks[j].features)
          /\ Flat(chunks)[k] = chunks[j].features[k - Offsets(chunks)[j - 1]]
    BY FeatureIs
  <2>4. chunks[j].nullCount # 0
    <3>1. NullsCounted(chunks[j])
      BY <2>1 DEF IsVctr
    <3>2. QED
      BY <2>2, <2>3, <3>1 DEF NullsCounted
  <2>5. j \in DOMAIN chunks
    BY LenProperties
  <2>6. QED
    BY <2>1, <2>4, <2>5 DEF AnyArrayNA
<1>5. QED
  BY <1>2, <1>3, <1>4
(***************************************************************************)
(* The stream of arrays                                                     *)
(***************************************************************************)

(* A nonempty bounded set of numbers has a greatest one.                   *)
LEMMA MaxIs ==
  ASSUME NEW n \in Nat, NEW S \in SUBSET (0 .. n), S # {}
  PROVE  Max(S) \in S /\ \A y \in S : y <= Max(S)
<1> DEFINE U == {y \in 0 .. n : \A x \in S : x <= y}
<1>1. PICK m \in U : \A y \in U : m <= y
  <2>1. n \in U /\ U \subseteq Nat
    OBVIOUS
  <2> HIDE DEF U
  <2>2. QED
    BY <2>1, NatLeast
<1>2. m \in 0 .. n /\ \A x \in S : x <= m
  BY <1>1
<1>3. m \in S
  <2>1. SUFFICES ASSUME m \notin S PROVE FALSE
    OBVIOUS
  <2>2. \A x \in S : x <= m - 1
    BY <1>2, <2>1
  <2>3. m - 1 \in 0 .. n
    <3>1. PICK x \in 0 .. n : x <= m - 1
      BY <2>2
    <3>2. QED
      BY <1>2, <3>1
  <2>4. m - 1 \in U
    BY <2>2, <2>3
  <2>5. m <= m - 1
    <3> HIDE DEF U
    <3>1. QED
      BY <1>1, <2>4
  <2>6. QED
    BY <1>2, <2>5
<1>4. \E x \in S : \A y \in S : x >= y
  BY <1>2, <1>3
<1>5. Max(S) \in S /\ \A y \in S : Max(S) >= y
  BY <1>4 DEF Max
<1>6. QED
  BY <1>5

(* The features of chunk j in Flat(chunks).                                *)
LEMMA FlatPlace ==
  ASSUME NEW chunks \in Seq(ChunkType), NEW j \in 1 .. Len(chunks)
  PROVE  /\ chunks[j] \in ChunkType
         /\ Len(chunks[j].features) \in Nat
         /\ Offsets(chunks)[j - 1] \in Nat /\ Offsets(chunks)[0] = 0
         /\ Offsets(chunks)[j] = Offsets(chunks)[j - 1] + Len(chunks[j].features)
         /\ \A k \in 1 .. Len(chunks[j].features) :
              Flat(chunks)[Offsets(chunks)[j - 1] + k] = chunks[j].features[k]
<1>1. PICK f \in Seq(Seq(Int)) : f = FeaturesOf(chunks)
  BY OffsetsAdd
<1>2. PICK off : off = Offsets(chunks)
  OBVIOUS
<1>3. PICK m \in Nat : m = Len(chunks)
  BY LenProperties
<1>4. /\ Adds(f, off) /\ Len(f) = m
      /\ f[j] = chunks[j].features /\ f[j] \in Seq(Int)
  BY <1>1, <1>2, <1>3, OffsetsAdd
<1>5. /\ off \in [0 .. m -> Nat] /\ off[0] = 0
      /\ off[j] = off[j - 1] + Len(f[j])
  BY <1>3, <1>4 DEF Adds
<1>6. off[j - 1] \in Nat /\ Len(f[j]) \in Nat
  <2>1. j - 1 \in 0 .. m
    BY <1>3
  <2>2. QED
    BY <1>4, <1>5, <2>1, LenProperties
<1>7. ASSUME NEW k \in 1 .. Len(f[j]) PROVE FlattenSeq(f)[off[j - 1] + k] = f[j][k]
  <2>1. Adds(f, off) /\ j \in 1 .. Len(f) /\ k \in 1 .. Len(f[j])
    BY <1>3, <1>4
  <2>2. QED
    BY <2>1, FlattenPlace
<1>8. chunks[j] \in ChunkType
  BY ElementOfSeq
<1>9. QED
  BY <1>1, <1>2, <1>4, <1>5, <1>6, <1>7, <1>8 DEF Flat

(* Part of a sequence.                                                     *)
LEMMA PartIs ==
  ASSUME NEW S, NEW s \in Seq(S), NEW a \in Nat, NEW b \in Nat, a <= b, b <= Len(s)
  PROVE  /\ SubSeq(s, a + 1, b) \in Seq(S)
         /\ Len(SubSeq(s, a + 1, b)) = b - a
         /\ \A i \in 1 .. b - a : SubSeq(s, a + 1, b)[i] = s[a + i]
<1>1. \A i \in a + 1 .. b : s[i] \in S
  <2>1. ASSUME NEW i \in a + 1 .. b PROVE s[i] \in S
    <3>1. i \in 1 .. Len(s)
      BY LenProperties
    <3>2. QED
      BY <3>1, ElementOfSeq
  <2>2. QED
    BY <2>1
<1>2. /\ SubSeq(s, a + 1, b) \in Seq(S)
      /\ Len(SubSeq(s, a + 1, b)) = IF a + 1 <= b THEN b - (a + 1) + 1 ELSE 0
      /\ \A i \in 1 .. b - (a + 1) + 1 : SubSeq(s, a + 1, b)[i] = s[a + 1 + i - 1]
  BY <1>1, SubSeqProperties
<1>3. /\ b - (a + 1) + 1 = b - a
      /\ (IF a + 1 <= b THEN b - (a + 1) + 1 ELSE 0) = b - a
      /\ \A i \in 1 .. b - a : a + 1 + i - 1 = a + i
  OBVIOUS
<1>4. QED
  BY <1>2, <1>3

(* R's subtraction keeps NAs.                                              *)
LEMMA MinusIs ==
  ASSUME NEW t \in Seq(Int), NEW o \in Nat
  PROVE  \E u \in Seq(Int) :
           /\ u = Minus(t, o) /\ Len(u) = Len(t)
           /\ \A i \in 1 .. Len(t) : u[i] = IF t[i] = NA THEN NA ELSE t[i] - o
<1> DEFINE d(i) == IF t[i] = NA THEN NA ELSE t[i] - o
<1>1. PICK m \in Nat : m = Len(t) /\ DOMAIN t = 1 .. m
  BY LenProperties
<1>2. \A i \in 1 .. m : d(i) \in Int
  <2>1. ASSUME NEW i \in 1 .. m PROVE d(i) \in Int
    <3>1. t[i] \in Int
      BY <1>1, ElementOfSeq
    <3>2. QED
      BY <3>1 DEF NA
  <2>2. QED
    BY <2>1
<1>3. Minus(t, o) = [i \in 1 .. m |-> d(i)]
  BY <1>1 DEF Minus
<1> HIDE DEF d
<1>4. PICK u \in Seq(Int) : /\ u = [i \in 1 .. m |-> d(i)] /\ Len(u) = m
                           /\ \A i \in 1 .. m : u[i] = d(i)
  <2>1. /\ [i \in 1 .. m |-> d(i)] \in Seq(Int)
        /\ Len([i \in 1 .. m |-> d(i)]) = m
    BY <1>2
  <2>2. QED
    BY <2>1
<1>5. QED
  BY <1>1, <1>3, <1>4 DEF d

(* A chunk cast with the indices that it has, less its offset, gives the   *)
(* features of these indices, whatever NAs are between them.               *)
LEMMA ChunkExact ==
  ASSUME NEW x, IsVctr(x), NEW p \in 1 .. Len(x.chunks),
         NEW a \in Nat, NEW b \in Nat, a <= b, b <= Len(x.indices),
         \A k \in a + 1 .. b :
           \/ x.indices[k] = NA
           \/ /\ Offsets(x.chunks)[p - 1] < x.indices[k]
              /\ x.indices[k] <= Offsets(x.chunks)[p]
  PROVE  Filtered(x.chunks[p], Minus(SubSeq(x.indices, a + 1, b), Offsets(x.chunks)[p - 1]))
           = SubSeq(Handled(x), a + 1, b)
<1>1. PICK chunks \in Seq(ChunkType) : chunks = x.chunks
  BY DEF IsVctr
<1>2. PICK s \in Seq(Int) : s = x.indices
  BY DEF IsVctr
<1>3. PICK n \in Nat : n = Len(s)
  BY LenProperties
<1>4. PICK h \in Seq(Int) : h = Handled(x) /\ Len(h) = n
  BY <1>2, <1>3, HandledIs
<1>5. PICK o \in Nat : o = Offsets(chunks)[p - 1]
  BY <1>1, FlatPlace
<1>6. PICK c \in ChunkType : c = chunks[p]
  BY <1>1, FlatPlace
<1>7. PICK len \in Nat :
        /\ len = Len(c.features) /\ Offsets(chunks)[p] = o + len
        /\ \A k \in 1 .. len : Flat(chunks)[o + k] = c.features[k]
  BY <1>1, <1>5, <1>6, FlatPlace
<1>8. PICK t \in Seq(Int) : /\ t = SubSeq(s, a + 1, b) /\ Len(t) = b - a
                           /\ \A i \in 1 .. b - a : t[i] = s[a + i]
  <2>1. b <= Len(s)
    BY <1>2
  <2> DEFINE w == SubSeq(s, a + 1, b)
  <2>2. w \in Seq(Int) /\ Len(w) = b - a /\ \A i \in 1 .. b - a : w[i] = s[a + i]
    BY <2>1, PartIs
  <2> HIDE DEF w
  <2>3. \E t \in Seq(Int) : t = w /\ Len(t) = b - a /\ \A i \in 1 .. b - a : t[i] = s[a + i]
    BY <2>2
  <2>4. QED
    BY <2>3 DEF w
<1>9. PICK g \in Seq(Int) : /\ g = SubSeq(h, a + 1, b) /\ Len(g) = b - a
                           /\ \A i \in 1 .. b - a : g[i] = h[a + i]
  <2>1. b <= Len(h)
    BY <1>2, <1>3, <1>4
  <2> DEFINE w == SubSeq(h, a + 1, b)
  <2>2. w \in Seq(Int) /\ Len(w) = b - a /\ \A i \in 1 .. b - a : w[i] = h[a + i]
    BY <2>1, PartIs
  <2> HIDE DEF w
  <2>3. \E g \in Seq(Int) : g = w /\ Len(g) = b - a /\ \A i \in 1 .. b - a : g[i] = h[a + i]
    BY <2>2
  <2>4. QED
    BY <2>3 DEF w
<1>10. PICK m \in Nat : m = b - a
  OBVIOUS
<1>11. PICK u \in Seq(Int) : /\ u = Minus(t, o) /\ Len(u) = m
                            /\ \A i \in 1 .. m : u[i] = IF t[i] = NA THEN NA ELSE t[i] - o
  <2>1. Len(t) = m
    BY <1>8, <1>10
  <2>2. QED
    BY <2>1, MinusIs
<1>12. PICK r \in Seq(Int) : r = Filtered(c, u) /\ Len(r) = m
  BY <1>11, FilteredIs
<1>13. ASSUME NEW i \in 1 .. m PROVE r[i] = g[i]
  <2>1. PICK k \in 1 .. n : k = a + i /\ k \in a + 1 .. b
    BY <1>2, <1>3, <1>10
  <2>2. t[i] = s[k] /\ g[i] = h[k]
    BY <1>8, <1>9, <1>10, <2>1
  <2>3. r[i] = IF u[i] = NA \/ u[i] < 1 \/ u[i] > len THEN Null ELSE c.features[u[i]]
    <3>1. i \in 1 .. Len(u)
      BY <1>11
    <3>2. Filtered(c, u)[i] = IF u[i] = NA \/ u[i] < 1 \/ u[i] > Len(c.features)
                              THEN Null ELSE c.features[u[i]]
      BY <3>1, FilteredAt
    <3>3. QED
      BY <1>7, <1>12, <3>2
  <2>4. CASE s[k] = NA
    <3>1. u[i] = NA
      BY <1>11, <2>2, <2>4
    <3>2. h[k] = Null
      BY <1>2, <1>3, <1>4, <2>4, HandledIs
    <3>3. QED
      BY <2>2, <2>3, <3>1, <3>2
  <2>5. CASE s[k] # NA
    <3>1. PICK f \in Int : f = s[k]
      BY <1>3, ElementOfSeq
    <3>2. o < f /\ f <= o + len
      BY <1>1, <1>2, <1>5, <1>7, <2>1, <2>5, <3>1
    <3>3. PICK q \in 1 .. len : q = f - o /\ o + q = f
      <4>1. f - o \in 1 .. len /\ o + (f - o) = f
        BY <3>2
      <4>2. QED
        BY <4>1
    <3>4. u[i] = q
      BY <1>11, <2>2, <2>5, <3>1, <3>3
    <3>5. ~(q = NA \/ q < 1 \/ q > len)
      BY DEF NA
    <3>6. r[i] = c.features[q]
      BY <2>3, <3>4, <3>5
    <3>7. h[k] = Flat(chunks)[f]
      BY <1>1, <1>2, <1>3, <1>4, <2>5, <3>1, HandledIs
    <3>8. Flat(chunks)[f] = c.features[q]
      <4>1. Flat(chunks)[o + q] = c.features[q]
        BY <1>7
      <4>2. QED
        BY <3>3, <4>1
    <3>9. QED
      BY <2>2, <3>6, <3>7, <3>8
  <2>6. QED
    BY <2>4, <2>5
<1>14. r = g
  BY <1>9, <1>10, <1>12, <1>13, SeqEqual
<1>15. QED
  BY <1>1, <1>2, <1>4, <1>5, <1>6, <1>8, <1>9, <1>11, <1>12, <1>14
(***************************************************************************)
(* The invariant                                                            *)
(***************************************************************************)
StreamType ==
  [phase : {"idle", "chunks", "done"}, i : Nat, begin : Nat, end : Nat, last : Nat,
   arrays : Seq(Seq(Int)), aligned : BOOLEAN]

(* Between chunks: the indices up to `last` are resolved, and those after  *)
(* it are beyond the chunks seen so far.                                   *)
ChunksInv ==
  /\ Len(v.chunks) > 1
  /\ AllIncreasing(v.indices)
  /\ stream.i \in 1 .. Len(v.chunks) + 1
  /\ stream.end = Offsets(v.chunks)[stream.i - 1]
  /\ stream.last <= Len(v.indices)
  /\ \A k \in stream.last + 1 .. Len(v.indices) :
       v.indices[k] # NA => v.indices[k] > stream.end
  /\ stream.aligned => Streamed = SubSeq(want, 1, stream.last)

StreamInv ==
  /\ stream \in StreamType
  /\ stream.phase = "idle" => stream = Idle
  /\ stream.phase = "chunks" => ChunksInv
  /\ StreamExact

VctrInv == IsVctr(v) /\ want = Handled(v) /\ StreamInv

(* What the invariant says in terms of sequences.                          *)
LEMMA VctrInvIs ==
  ASSUME VctrInv
  PROVE  /\ v.chunks \in Seq(ChunkType) /\ v.indices \in Seq(Int)
         /\ want \in Seq(Int) /\ Len(want) = Len(v.indices)
         /\ Len(v.indices) \in Nat /\ Len(v.chunks) \in Nat
BY HandledIs, LenProperties DEF VctrInv, IsVctr

(* An idle stream.                                                         *)
LEMMA IdleIs ==
  Idle \in StreamType /\ Idle.phase = "idle"
<1>1. << >> \in Seq(Seq(Int))
  BY EmptySeq
<1>2. PICK b \in BOOLEAN : b = TRUE
  BY Zenon
<1>3. PICK idle : /\ idle = Idle
                  /\ idle = [phase |-> "idle", i |-> 1, begin |-> 0, end |-> 0, last |-> 0,
                             arrays |-> << >>, aligned |-> b]
  BY <1>2 DEF Idle
<1>4. idle \in StreamType /\ idle.phase = "idle"
  BY <1>1, <1>3 DEF StreamType
<1>5. QED
  BY <1>3, <1>4

(* A step after which the stream is idle.                                  *)
LEMMA VctrStep ==
  ASSUME stream' = Idle, IsVctr(v)', want' = Handled(v)'
  PROVE  VctrInv'
<1>1. stream' \in StreamType /\ stream'.phase = "idle" /\ stream' = Idle
  BY IdleIs
<1>2. stream'.phase # "chunks" /\ stream'.phase # "done"
  BY <1>1
<1>3. StreamInv'
  BY <1>1, <1>2 DEF StreamInv, StreamExact
<1>4. QED
  BY <1>3 DEF VctrInv

(* The stream starts idle.                                                 *)
LEMMA InitVctr ==
  ASSUME Init
  PROVE  VctrInv
<1>1. v \in Constructed(0, MaxChunks)
  BY DEF Init
<1>2. IsVctr(v) /\ IsWhole(v)
  BY <1>1, ConstructedIs, VctrAssumption
<1>3. want = Flat(v.chunks)
  BY DEF Init, Flat, FeaturesOf
<1>4. want = Handled(v)
  BY <1>2, <1>3, WholeHandled
<1>5. stream \in StreamType /\ stream.phase = "idle" /\ stream = Idle
  BY IdleIs DEF Init
<1>6. StreamInv
  BY <1>5 DEF StreamInv, StreamExact
<1>7. QED
  BY <1>2, <1>4, <1>6 DEF VctrInv

(* A subset of the indices takes the same of the features.                 *)
LEMMA SubsetKeeps ==
  ASSUME VctrInv, Subset
  PROVE  VctrInv'
<1>1. PICK selection \in BoundedSeq(0 .. Len(v.indices), MaxLength) : Restore(selection)
  BY DEF Subset
<1>2. selection \in Seq(0 .. Len(v.indices))
  BY <1>1, BoundedSeqIs, VctrAssumption
<1>3. PICK m \in Nat : m = Len(selection) /\ DOMAIN selection = 1 .. m
  BY <1>2, LenProperties
<1>4. PICK n \in Nat : n = Len(v.indices)
  BY VctrInvIs
<1>5. \A i \in 1 .. m : selection[i] \in 0 .. n
  BY <1>2, <1>3, <1>4, ElementOfSeq
<1>6. PICK s \in Seq(Int) : s = v.indices
  BY VctrInvIs
<1> DEFINE t(i) == IF selection[i] = 0 THEN NA ELSE s[selection[i]]
           w(i) == IF selection[i] = 0 THEN Null ELSE want[selection[i]]
<1>7. /\ v' = [v EXCEPT !.indices = [i \in 1 .. m |-> t(i)]]
      /\ want' = [i \in 1 .. m |-> w(i)]
      /\ stream = Idle /\ UNCHANGED stream
  BY <1>1, <1>3, <1>6 DEF Restore
<1>8. ASSUME NEW i \in 1 .. m
      PROVE  /\ t(i) \in Int
             /\ t(i) = NA \/ t(i) \in 1 .. Total(v.chunks)
             /\ w(i) = Feature(v.chunks, t(i))
  <2>1. CASE selection[i] = 0
    BY <2>1, FeatureNA DEF NA
  <2>2. CASE selection[i] # 0
    <3>1. PICK k \in 1 .. n : k = selection[i]
      BY <1>5, <2>2
    <3>2. s[k] \in Int /\ (s[k] = NA \/ s[k] \in 1 .. Total(v.chunks))
      <4>1. s[k] \in Int
        BY <1>4, <1>6, ElementOfSeq
      <4>2. QED
        BY <1>4, <1>6, <4>1 DEF VctrInv, IsVctr
    <3>3. want[k] = Feature(v.chunks, s[k])
      <4>1. DOMAIN v.indices = 1 .. n
        BY <1>4, VctrInvIs, LenProperties
      <4>2. QED
        BY <1>6, <4>1 DEF VctrInv, Handled
    <3>4. QED
      BY <2>2, <3>1, <3>2, <3>3
  <2>3. QED
    BY <2>1, <2>2
<1> HIDE DEF t, w
<1>9. PICK r \in Seq(Int) : /\ r = [i \in 1 .. m |-> t(i)] /\ Len(r) = m /\ DOMAIN r = 1 .. m
                           /\ \A i \in 1 .. m : r[i] = t(i)
  <2>1. \A i \in 1 .. m : t(i) \in Int
    BY <1>8
  <2>2. /\ [i \in 1 .. m |-> t(i)] \in Seq(Int)
        /\ Len([i \in 1 .. m |-> t(i)]) = m
    BY <2>1
  <2>3. QED
    BY <2>2
<1>10. v \in [type : Types, chunks : Seq(ChunkType), indices : Seq(Int)]
  BY DEF VctrInv, IsVctr
<1>11. v' = [v EXCEPT !.indices = r]
  BY <1>7, <1>9
<1>12. /\ v' \in [type : Types, chunks : Seq(ChunkType), indices : Seq(Int)]
       /\ v'.chunks = v.chunks /\ v'.indices = r
  BY <1>10, <1>11
<1>13. IsVctr(v)'
  <2>1. \A j \in 1 .. Len(v.chunks) : NullsCounted(v.chunks[j])
    BY DEF VctrInv, IsVctr
  <2>2. \A i \in 1 .. m : r[i] = NA \/ r[i] \in 1 .. Total(v.chunks)
    BY <1>8, <1>9
  <2>3. QED
    BY <1>9, <1>12, <2>1, <2>2 DEF IsVctr
<1>14. want' = Handled(v)'
  <2>1. Handled(v)' = [i \in 1 .. m |-> Feature(v.chunks, r[i])]
    BY <1>9, <1>12 DEF Handled
  <2>2. \A i \in 1 .. m : w(i) = Feature(v.chunks, r[i])
    BY <1>8, <1>9
  <2>3. QED
    BY <1>7, <2>1, <2>2
<1>15. QED
  BY <1>7, <1>13, <1>14, VctrStep

(* c() puts the features of both behind one another, if each vector is     *)
(* cast or has all of its features.                                        *)
LEMMA ConcatKeeps ==
  ASSUME VctrInv, ~CombineSubsets, NEW w, IsVctr(w),
         \/ Concat(v, w) /\ want' = want \o Handled(w)
         \/ Concat(w, v) /\ want' = Handled(w) \o want
  PROVE  VctrInv'
<1>1. IsVctr(v) /\ want = Handled(v)
  BY DEF VctrInv
<1>2. ASSUME NEW x, NEW y, IsVctr(x), IsVctr(y), Concat(x, y),
             want' = Handled(x) \o Handled(y)
      PROVE  VctrInv'
  <2>1. /\ IsWhole(x) \/ x.type # PType2(x, y)
        /\ IsWhole(y) \/ y.type # PType2(x, y)
        /\ v' = Concatenated(x, y)
        /\ stream = Idle /\ UNCHANGED stream
    BY <1>2 DEF Concat
  <2>2. IsVctr(Concatenated(x, y)) /\ Handled(Concatenated(x, y)) = Handled(x) \o Handled(y)
    BY <1>2, <2>1, ConcatenatedIs
  <2>3. IsVctr(v)' /\ want' = Handled(v)'
    BY <1>2, <2>1, <2>2
  <2>4. QED
    BY <2>1, <2>3, VctrStep
<1>3. QED
  BY <1>1, <1>2

(* The same for any other argument.                                        *)
LEMMA CombineKeeps ==
  ASSUME VctrInv, ~CombineSubsets, CombineVctr
  PROVE  VctrInv'
<1>1. PICK w \in Constructed(Total(v.chunks), 1) :
        \/ Concat(v, w) /\ want' = want \o Handled(w)
        \/ Concat(w, v) /\ want' = Handled(w) \o want
  BY DEF CombineVctr
<1>2. Total(v.chunks) \in Nat
  BY VctrInvIs, FlatIs
<1>3. IsVctr(w)
  BY <1>2, ConstructedIs
<1>4. QED
  BY <1>1, <1>3, ConcatKeeps
(* A stream that is done without chunk by chunk steps.                     *)
LEMMA DoneStep ==
  ASSUME VctrInv, UNCHANGED <<v, want>>, NEW arrays \in Seq(Seq(Int)),
         StreamDone(arrays), FlattenSeq(arrays) = want
  PROVE  VctrInv'
<1>1. stream' = [Idle EXCEPT !.phase = "done", !.arrays = arrays]
  BY DEF StreamDone
<1>2. Idle \in StreamType
  BY IdleIs
<1>3. /\ stream' \in StreamType
      /\ stream'.phase = "done" /\ stream'.arrays = arrays
  BY <1>1, <1>2 DEF StreamType
<1>4. stream'.phase # "idle" /\ stream'.phase # "chunks"
  BY <1>3
<1>5. StreamExact'
  BY <1>3 DEF StreamExact, Streamed
<1>6. StreamInv'
  BY <1>3, <1>4, <1>5 DEF StreamInv
<1>7. IsVctr(v)' /\ want' = Handled(v)'
  BY DEF VctrInv
<1>8. QED
  BY <1>6, <1>7 DEF VctrInv

(* A vector without features gives no arrays.                              *)
LEMMA EmptyKeeps ==
  ASSUME VctrInv, StreamEmpty
  PROVE  VctrInv'
<1>1. PICK arrays \in Seq(Seq(Int)) : arrays = << >>
  BY EmptySeq
<1>2. v.indices = << >> /\ StreamDone(<< >>) /\ UNCHANGED <<v, want>>
  BY DEF StreamEmpty
<1>3. want = << >>
  BY <1>2, VctrInvIs, EmptySeq
<1>4. FlattenSeq(<< >>) = << >>
  BY EmptySeq, FlattenShort
<1>5. QED
  BY <1>1, <1>2, <1>3, <1>4, DoneStep

(* A vector with one array, or whose features arrow takes, gives one.      *)
LEMMA SingleKeeps ==
  ASSUME VctrInv, StreamSingle \/ StreamTake
  PROVE  VctrInv'
<1>1. UNCHANGED <<v, want>> /\ want \in Seq(Int)
  BY VctrInvIs DEF StreamSingle, StreamTake
<1>2. StreamDone(<<want>>)
  <2>1. AsNarrowArray(v) = want /\ Take(v) = want
    BY NarrowIs DEF VctrInv, Take
  <2>2. QED
    BY <2>1 DEF StreamSingle, StreamTake
<1>3. PICK arrays \in Seq(Seq(Int)) : arrays = <<want>>
  <2>1. PICK w \in Seq(Int) : w = want
    BY <1>1
  <2>2. <<w>> \in Seq(Seq(Int))
    OBVIOUS
  <2>3. QED
    BY <2>1, <2>2
<1>4. FlattenSeq(<<want>>) = want
  BY <1>1, FlattenShort
<1>5. QED
  BY <1>1, <1>2, <1>3, <1>4, DoneStep

(* Before the first chunk, nothing is resolved.                            *)
LEMMA StartKeeps ==
  ASSUME VctrInv, StreamStart
  PROVE  VctrInv'
<1>1. /\ UNCHANGED <<v, want>> /\ stream = Idle
      /\ Len(v.chunks) > 1 /\ AllIncreasing(v.indices)
      /\ stream' = [stream EXCEPT !.phase = "chunks"]
  BY DEF StreamStart
<1>2. stream \in StreamType
  BY <1>1, IdleIs
<1>3. /\ stream.i = 1 /\ stream.end = 0 /\ stream.last = 0 /\ stream.arrays = << >>
  BY <1>1 DEF Idle
<1>4. /\ stream' \in StreamType /\ stream'.phase = "chunks"
      /\ stream'.i = 1 /\ stream'.end = 0 /\ stream'.last = 0 /\ stream'.arrays = << >>
  BY <1>1, <1>2, <1>3 DEF StreamType
<1>5. /\ v.chunks \in Seq(ChunkType) /\ v.indices \in Seq(Int) /\ want \in Seq(Int)
      /\ Len(v.indices) \in Nat /\ Len(v.chunks) \in Nat
  BY VctrInvIs
<1>6. Offsets(v.chunks)[0] = 0
  BY <1>5, OffsetsAdd DEF Adds
<1>7. \A k \in 1 .. Len(v.indices) : v.indices[k] # NA => v.indices[k] > 0
  <2>1. Total(v.chunks) \in Nat
    BY <1>5, FlatIs
  <2>2. QED
    BY <2>1 DEF VctrInv, IsVctr
<1>8. FlattenSeq(<< >>) = SubSeq(want, 1, 0)
  <2>1. FlattenSeq(<< >>) = << >>
    BY <1>5, FlattenShort
  <2>2. SubSeq(want, 1, 0) = << >>
    BY SubSeqEmpty
  <2>3. QED
    BY <2>1, <2>2
<1>9. ChunksInv'
  <2>1. stream'.i \in 1 .. Len(v.chunks) + 1 /\ stream'.i - 1 = 0
    BY <1>4, <1>5
  <2>2. stream'.last <= Len(v.indices)
    BY <1>4, <1>5
  <2>3. \A k \in stream'.last + 1 .. Len(v.indices) :
          v.indices[k] # NA => v.indices[k] > stream'.end
    BY <1>4, <1>7
  <2>4. Streamed' = SubSeq(want, 1, stream'.last)
    BY <1>4, <1>8 DEF Streamed
  <2>5. QED
    BY <1>1, <1>4, <1>6, <2>1, <2>2, <2>3, <2>4 DEF ChunksInv
<1>10. stream'.phase # "idle" /\ stream'.phase # "done"
  BY <1>4
<1>11. StreamInv'
  BY <1>4, <1>9, <1>10 DEF StreamInv, StreamExact
<1>12. IsVctr(v)' /\ want' = Handled(v)'
  BY <1>1 DEF VctrInv
<1>13. QED
  BY <1>11, <1>12 DEF VctrInv

(* The next chunk: where it ends.                                          *)
LEMMA AtChunkIs ==
  ASSUME VctrInv, AtChunk
  PROVE  /\ stream \in StreamType /\ stream.phase = "chunks" /\ ChunksInv
         /\ stream.i \in 1 .. Len(v.chunks)
         /\ v.chunks[stream.i] \in ChunkType
         /\ Len(v.chunks[stream.i].features) \in Nat
         /\ stream.end + Len(v.chunks[stream.i].features) = Offsets(v.chunks)[stream.i]
         /\ Offsets(v.chunks)[stream.i] \in Nat
<1>1. stream \in StreamType /\ stream.phase = "chunks" /\ ChunksInv
  BY DEF VctrInv, StreamInv, AtChunk
<1>2. stream.i \in 1 .. Len(v.chunks) /\ stream.end = Offsets(v.chunks)[stream.i - 1]
  BY <1>1, VctrInvIs DEF ChunksInv, AtChunk
<1>3. PICK i \in 1 .. Len(v.chunks) : i = stream.i
  BY <1>2
<1>4. /\ v.chunks[i] \in ChunkType
      /\ Len(v.chunks[i].features) \in Nat
      /\ Offsets(v.chunks)[i - 1] \in Nat
      /\ Offsets(v.chunks)[i] = Offsets(v.chunks)[i - 1] + Len(v.chunks[i].features)
  BY VctrInvIs, FlatPlace
<1>5. Offsets(v.chunks)[i] \in Nat
  BY <1>4
<1>6. QED
  BY <1>1, <1>2, <1>3, <1>4, <1>5

(* A chunk without matching indices is passed.                             *)
LEMMA SkipKeeps ==
  ASSUME VctrInv, StreamSkip
  PROVE  VctrInv'
<1>1. /\ AtChunk /\ Matching(stream.i) = {} /\ UNCHANGED <<v, want>>
      /\ stream' = [stream EXCEPT !.i = @ + 1,
                                  !.end = @ + Len(v.chunks[stream.i].features)]
  BY DEF StreamSkip
<1>2. /\ stream \in StreamType /\ stream.phase = "chunks" /\ ChunksInv
      /\ stream.i \in 1 .. Len(v.chunks)
      /\ Len(v.chunks[stream.i].features) \in Nat
  BY <1>1, AtChunkIs
<1>3. PICK i \in 1 .. Len(v.chunks) : i = stream.i
  BY <1>2
<1>4. PICK e \in Nat : e = stream.end + Len(v.chunks[i].features) /\ e = Offsets(v.chunks)[i]
  BY <1>1, <1>3, AtChunkIs
<1>5. stream' = [stream EXCEPT !.i = i + 1, !.end = e]
  BY <1>1, <1>3, <1>4
<1>6. /\ stream' \in StreamType /\ stream'.phase = "chunks" /\ stream'.i = i + 1
      /\ stream'.end = e /\ stream'.last = stream.last /\ stream'.arrays = stream.arrays
      /\ stream'.aligned = stream.aligned
  <2>1. stream' \in StreamType
    <3>1. PICK j \in Nat : j = i + 1
      OBVIOUS
    <3>2. stream \in StreamType /\ stream' = [stream EXCEPT !.i = j, !.end = e]
      BY <1>2, <1>5, <3>1
    <3>3. QED
      BY <3>2 DEF StreamType
  <2>2. /\ stream'.phase = stream.phase /\ stream'.i = i + 1
        /\ stream'.end = e /\ stream'.last = stream.last /\ stream'.arrays = stream.arrays
    BY <1>2, <1>5 DEF StreamType
  <2>3. stream'.aligned = stream.aligned
    BY <1>2, <1>5, Zenon DEF StreamType
  <2>4. QED
    BY <1>2, <2>1, <2>2, <2>3
<1>7. \A k \in stream.last + 1 .. Len(v.indices) : v.indices[k] # NA => v.indices[k] > e
  <2>1. ASSUME NEW k \in stream.last + 1 .. Len(v.indices), v.indices[k] # NA
        PROVE  v.indices[k] > e
    <3>1. ~(v.indices[k] <= e)
      BY <1>1, <1>3, <1>4, <2>1 DEF Matching
    <3>2. v.indices[k] \in Int
      <4>1. v.indices \in Seq(Int) /\ stream.last \in Nat /\ Len(v.indices) \in Nat
        BY <1>2, VctrInvIs DEF StreamType
      <4>2. k \in 1 .. Len(v.indices)
        BY <4>1
      <4>3. QED
        BY <4>1, <4>2, ElementOfSeq
    <3>3. QED
      BY <3>1, <3>2
  <2>2. QED
    BY <2>1
<1>8. ChunksInv'
  <2>1. i + 1 \in 1 .. Len(v.chunks) + 1 /\ i + 1 - 1 = i
    BY VctrInvIs
  <2>2. QED
    BY <1>1, <1>2, <1>4, <1>6, <1>7, <2>1 DEF ChunksInv, Streamed
<1>9. stream'.phase # "idle" /\ stream'.phase # "done"
  BY <1>6
<1>10. StreamInv'
  BY <1>6, <1>8, <1>9 DEF StreamInv, StreamExact
<1>11. QED
  BY <1>1, <1>10 DEF VctrInv
(* Which indices the next array takes: all of them resolve in chunk i, and *)
(* those after them do not.                                                *)
LEMMA MatchingIs ==
  ASSUME VctrInv, AtChunk, Matching(stream.i) # {}
  PROVE  \E b \in Nat :
           /\ b = Max(Matching(stream.i))
           /\ stream.last <= b /\ b <= Len(v.indices)
           /\ \A k \in stream.last + 1 .. b :
                \/ v.indices[k] = NA
                \/ /\ Offsets(v.chunks)[stream.i - 1] < v.indices[k]
                   /\ v.indices[k] <= Offsets(v.chunks)[stream.i]
           /\ \A k \in b + 1 .. Len(v.indices) :
                v.indices[k] # NA => v.indices[k] > Offsets(v.chunks)[stream.i]
<1>1. PICK s \in Seq(Int) : s = v.indices
  BY VctrInvIs
<1>2. PICK n \in Nat : n = Len(s) /\ DOMAIN s = 1 .. n
  BY LenProperties
<1>3. PICK e \in Nat : /\ e = Offsets(v.chunks)[stream.i]
                      /\ e = stream.end + Len(v.chunks[stream.i].features)
  BY AtChunkIs
<1>4. PICK a \in Nat : a = stream.last /\ a <= n
  BY <1>1, <1>2, AtChunkIs DEF StreamType, ChunksInv
<1>5. PICK o \in Nat : o = stream.end /\ o = Offsets(v.chunks)[stream.i - 1]
  BY AtChunkIs DEF StreamType, ChunksInv
<1> DEFINE M == {k \in a + 1 .. n : s[k] # NA /\ s[k] <= e}
<1>6. Matching(stream.i) = M
  BY <1>1, <1>2, <1>3, <1>4 DEF Matching
<1>7. PICK b \in M : b = Max(M) /\ \A k \in M : k <= b
  <2>1. M \in SUBSET (0 .. n) /\ M # {}
    BY <1>6
  <2> HIDE DEF M
  <2>2. QED
    BY <2>1, MaxIs
<1>8. b \in a + 1 .. n /\ s[b] # NA /\ s[b] <= e
  OBVIOUS
<1>9. \A k \in 1 .. n : s[k] \in Int
  BY <1>2, ElementOfSeq
<1>10. \A k \in a + 1 .. n : s[k] # NA => s[k] > o
  BY <1>1, <1>2, <1>4, <1>5, AtChunkIs DEF ChunksInv
<1>11. ASSUME NEW k \in a + 1 .. b, s[k] # NA PROVE o < s[k] /\ s[k] <= e
  <2>1. k \in a + 1 .. n /\ k \in 1 .. n /\ b \in 1 .. n
    BY <1>8
  <2>2. s[k] > o /\ s[k] \in Int /\ s[b] \in Int
    BY <1>9, <1>10, <1>11, <2>1
  <2>3. s[k] <= s[b]
    <3>1. CASE k = b
      BY <2>2, <3>1
    <3>2. CASE k # b
      <4>1. k < b
        BY <1>8, <3>2
      <4>2. AllIncreasing(s)
        BY <1>1, AtChunkIs DEF ChunksInv
      <4>3. QED
        BY <1>2, <1>8, <1>11, <2>1, <4>1, <4>2 DEF AllIncreasing
    <3>3. QED
      BY <3>1, <3>2
  <2>4. QED
    BY <1>8, <2>2, <2>3
<1>12. ASSUME NEW k \in b + 1 .. n, s[k] # NA PROVE s[k] > e
  <2>1. k \in a + 1 .. n /\ k \in 1 .. n /\ ~(k <= b)
    BY <1>8
  <2>2. ~(s[k] <= e)
    BY <1>7, <1>12, <2>1
  <2>3. s[k] \in Int
    BY <1>9, <2>1
  <2>4. QED
    BY <2>2, <2>3
<1>13. b \in Nat /\ a <= b /\ b <= n
  BY <1>8
<1> HIDE DEF M
<1>14. QED
  BY <1>1, <1>2, <1>3, <1>4, <1>5, <1>6, <1>7, <1>11, <1>12, <1>13

(* A chunk with matching indices gives their features, if                  *)
(* array_index_begin is its offset.                                        *)
LEMMA ChunkKeeps ==
  ASSUME VctrInv, StreamChunk
  PROVE  VctrInv'
<1>1. AtChunk /\ Matching(stream.i) # {} /\ UNCHANGED <<v, want>>
  BY DEF StreamChunk
<1>2. /\ stream \in StreamType /\ stream.phase = "chunks" /\ ChunksInv
      /\ stream.i \in 1 .. Len(v.chunks)
  BY <1>1, AtChunkIs
<1>3. PICK i \in 1 .. Len(v.chunks) : i = stream.i
  BY <1>2
<1>4. PICK c \in ChunkType : c = v.chunks[i]
  BY <1>1, <1>3, AtChunkIs
<1>5. PICK len \in Nat : len = Len(c.features)
  BY <1>1, <1>3, <1>4, AtChunkIs
<1>6. PICK e \in Nat : e = stream.end + len /\ e = Offsets(v.chunks)[i]
  BY <1>1, <1>3, <1>4, <1>5, AtChunkIs
<1>7. PICK a \in Nat : a = stream.last
  BY <1>2 DEF StreamType
<1>8. PICK o \in Nat : o = stream.begin
  BY <1>2 DEF StreamType
<1>9. PICK b \in Nat :
        /\ b = Max(Matching(i))
        /\ a <= b /\ b <= Len(v.indices)
        /\ \A k \in a + 1 .. b :
             \/ v.indices[k] = NA
             \/ /\ Offsets(v.chunks)[i - 1] < v.indices[k]
                /\ v.indices[k] <= Offsets(v.chunks)[i]
        /\ \A k \in b + 1 .. Len(v.indices) : v.indices[k] # NA => v.indices[k] > e
  BY <1>1, <1>3, <1>6, <1>7, MatchingIs
<1>10. PICK g \in Seq(Int) : g = Filtered(c, Minus(SubSeq(v.indices, a + 1, b), o))
  <2>1. SubSeq(v.indices, a + 1, b) \in Seq(Int)
    BY <1>9, VctrInvIs, PartIs
  <2>2. PICK t \in Seq(Int) : t = SubSeq(v.indices, a + 1, b)
    BY <2>1
  <2>3. PICK u \in Seq(Int) : u = Minus(t, o)
    BY MinusIs
  <2>4. QED
    BY <2>2, <2>3, FilteredIs
<1>11. PICK r \in Seq(Seq(Int)) : r = stream.arrays
  BY <1>2 DEF StreamType
<1>12. PICK q \in Seq(Seq(Int)) : q = Append(r, g) /\ FlattenSeq(q) = FlattenSeq(r) \o g
  BY AppendProperties, FlattenAppend
<1>13. PICK al \in BOOLEAN : al = (stream.aligned /\ stream.begin = stream.end)
  BY Zenon
<1>14. stream' = [stream EXCEPT !.i = i + 1, !.begin = o + len, !.end = e, !.last = b,
                               !.arrays = q, !.aligned = al]
  BY <1>3, <1>4, <1>5, <1>6, <1>7, <1>8, <1>9, <1>10, <1>11, <1>12, <1>13 DEF StreamChunk
<1>15. /\ stream' \in StreamType /\ stream'.phase = "chunks" /\ stream'.i = i + 1
       /\ stream'.end = e /\ stream'.last = b /\ stream'.arrays = q
       /\ stream'.aligned => stream.aligned /\ stream.begin = stream.end
  <2>1. PICK j \in Nat : j = i + 1
    OBVIOUS
  <2>2. PICK d \in Nat : d = o + len
    OBVIOUS
  <2>3. stream' = [stream EXCEPT !.i = j, !.begin = d, !.end = e, !.last = b,
                                !.arrays = q, !.aligned = al]
    BY <1>14, <2>1, <2>2
  <2>4. stream' \in StreamType
    BY <1>2, <2>3 DEF StreamType
  <2>5. /\ stream'.phase = stream.phase /\ stream'.i = j
        /\ stream'.end = e /\ stream'.last = b /\ stream'.arrays = q
    BY <1>2, <2>3 DEF StreamType
  <2>6. stream'.aligned = al
    BY <1>2, <2>3, Zenon DEF StreamType
  <2>7. stream'.aligned => stream.aligned /\ stream.begin = stream.end
    BY <1>13, <2>6, Zenon
  <2>8. QED
    BY <1>2, <2>1, <2>4, <2>5, <2>7
<1>16. ASSUME stream.aligned, stream.begin = stream.end
       PROVE  FlattenSeq(q) = SubSeq(want, 1, b)
  <2>1. o = Offsets(v.chunks)[i - 1]
    BY <1>2, <1>3, <1>8, <1>16 DEF ChunksInv
  <2>2. IsVctr(v) /\ Handled(v) = want
    BY DEF VctrInv
  <2>3. g = SubSeq(want, a + 1, b)
    BY <1>4, <1>9, <1>10, <2>1, <2>2, ChunkExact
  <2>4. FlattenSeq(r) = SubSeq(want, 1, a)
    BY <1>2, <1>7, <1>11, <1>16 DEF ChunksInv, Streamed
  <2>5. SubSeq(want, 1, a) \o SubSeq(want, a + 1, b) = SubSeq(want, 1, b)
    <3>1. PICK w \in Seq(Int) : w = want
      BY VctrInvIs
    <3>2. PICK n \in Nat : n = Len(w) /\ n = Len(v.indices)
      BY <3>1, VctrInvIs
    <3>3. 1 \in 1 .. Len(w) + 1 /\ a \in 1 - 1 .. Len(w) /\ b \in a .. Len(w)
      BY <1>9, <3>2
    <3>4. QED
      BY <3>1, <3>3, ConcatAdjacentSubSeq
  <2>6. QED
    BY <1>12, <2>3, <2>4, <2>5
<1>17. ChunksInv'
  <2>1. i + 1 \in 1 .. Len(v.chunks) + 1 /\ i + 1 - 1 = i
    BY VctrInvIs
  <2>2. stream'.aligned => Streamed' = SubSeq(want, 1, b)
    BY <1>15, <1>16 DEF Streamed
  <2>3. Len(v.chunks) > 1 /\ AllIncreasing(v.indices)
    BY <1>2 DEF ChunksInv
  <2>4. QED
    BY <1>1, <1>6, <1>9, <1>15, <2>1, <2>2, <2>3 DEF ChunksInv
<1>18. stream'.phase # "idle" /\ stream'.phase # "done"
  BY <1>15
<1>19. StreamInv'
  BY <1>15, <1>17, <1>18 DEF StreamInv, StreamExact
<1>20. QED
  BY <1>1, <1>19 DEF VctrInv

(* After the last chunk only NAs are left, and they become nulls.          *)
LEMMA TailKeeps ==
  ASSUME VctrInv, StreamTail
  PROVE  VctrInv'
<1>1. AtTail /\ UNCHANGED <<v, want>>
  BY DEF StreamTail
<1>2. stream \in StreamType /\ stream.phase = "chunks" /\ ChunksInv
  BY <1>1 DEF VctrInv, StreamInv, AtTail
<1>3. PICK n \in Nat : n = Len(v.indices)
  BY VctrInvIs
<1>4. PICK a \in Nat : a = stream.last /\ a <= n
  BY <1>2, <1>3 DEF StreamType, ChunksInv
<1>5. PICK w \in Seq(Int) : w = want /\ Len(w) = n
  BY <1>3, VctrInvIs
<1>6. PICK r \in Seq(Seq(Int)) : r = stream.arrays
  BY <1>2 DEF StreamType
<1>7. stream.end = Total(v.chunks) /\ Total(v.chunks) \in Nat
  <2>1. stream.i = Len(v.chunks) + 1
    <3>1. PICK m \in Nat : m = Len(v.chunks)
      BY VctrInvIs
    <3>2. stream.i \in 1 .. m + 1 /\ stream.i > m
      BY <1>1, <1>2, <3>1 DEF ChunksInv, AtTail
    <3>3. QED
      BY <3>1, <3>2
  <2>2. stream.i - 1 = Len(v.chunks)
    BY <2>1, VctrInvIs
  <2>3. QED
    BY <1>2, <2>2, VctrInvIs, FlatIs DEF ChunksInv
<1>8. ASSUME NEW k \in a + 1 .. n PROVE w[k] = Null
  <2>1. v.indices[k] # NA => v.indices[k] > Total(v.chunks)
    BY <1>2, <1>3, <1>4, <1>7 DEF ChunksInv
  <2>2. k \in 1 .. n
    OBVIOUS
  <2>3. v.indices[k] = NA
    <3>1. v.indices[k] = NA \/ v.indices[k] \in 1 .. Total(v.chunks)
      BY <1>3, <2>2 DEF VctrInv, IsVctr
    <3>2. QED
      BY <1>7, <2>1, <3>1
  <2>4. QED
    BY <1>3, <1>5, <2>2, <2>3, HandledIs DEF VctrInv
<1>9. stream.aligned => FlattenSeq(r) = SubSeq(w, 1, a)
  BY <1>2, <1>4, <1>5, <1>6 DEF ChunksInv, Streamed
<1>10. PICK q \in Seq(Seq(Int)) :
         /\ stream' = [stream EXCEPT !.phase = "done", !.arrays = q]
         /\ stream.aligned => FlattenSeq(q) = w
  <2>1. CASE a = n
    <3>1. stream' = [stream EXCEPT !.phase = "done", !.arrays = r]
      BY <1>3, <1>4, <1>6, <2>1 DEF StreamTail
    <3>2. SubSeq(w, 1, n) = w
      BY <1>5, SubSeqFull
    <3>3. QED
      BY <1>9, <2>1, <3>1, <3>2
  <2>2. CASE a # n
    <3>1. PICK c \in ChunkType : c = v.chunks[1]
      <4>1. PICK chunks \in Seq(ChunkType) : chunks = v.chunks
        BY VctrInvIs
      <4>2. 1 \in 1 .. Len(chunks)
        BY <1>2, <4>1, LenProperties DEF ChunksInv
      <4>3. QED
        BY <4>1, <4>2, ElementOfSeq
    <3>2. PICK m \in Nat : m = n - a
      BY <1>4
    <3>3. PICK t \in Seq(Int) : /\ t = [k \in 1 .. m |-> NA] /\ Len(t) = m
                               /\ \A k \in 1 .. m : t[k] = NA
      <4>1. [k \in 1 .. m |-> NA] \in Seq(Int) /\ Len([k \in 1 .. m |-> NA]) = m
        BY DEF NA
      <4>2. QED
        BY <4>1
    <3>4. PICK g \in Seq(Int) : g = Filtered(c, t) /\ Len(g) = m
      <4>1. Filtered(c, t) \in Seq(Int) /\ Len(Filtered(c, t)) = Len(t)
        BY FilteredIs
      <4> DEFINE z == Filtered(c, t)
      <4>2. z \in Seq(Int) /\ Len(z) = m
        BY <3>3, <4>1
      <4> HIDE DEF z
      <4>3. \E g \in Seq(Int) : g = z /\ Len(g) = m
        BY <4>2
      <4>4. QED
        BY <4>3 DEF z
    <3>5. \A k \in 1 .. m : g[k] = Null
      <4>1. ASSUME NEW k \in 1 .. m PROVE g[k] = Null
        <5>1. k \in 1 .. Len(t) /\ t[k] = NA
          BY <3>3
        <5>2. QED
          BY <3>4, <5>1, FilteredAt
      <4>2. QED
        BY <4>1
    <3>6. PICK p \in Seq(Int) : /\ p = SubSeq(w, a + 1, n) /\ Len(p) = m
                               /\ \A k \in 1 .. m : p[k] = w[a + k]
      <4>1. a \in Nat /\ n \in Nat /\ a <= n /\ n <= Len(w)
        BY <1>4, <1>5
      <4>2. /\ SubSeq(w, a + 1, n) \in Seq(Int) /\ Len(SubSeq(w, a + 1, n)) = n - a
            /\ \A k \in 1 .. n - a : SubSeq(w, a + 1, n)[k] = w[a + k]
        BY <4>1, PartIs
      <4>3. /\ SubSeq(w, a + 1, n) \in Seq(Int) /\ Len(SubSeq(w, a + 1, n)) = m
            /\ \A k \in 1 .. m : SubSeq(w, a + 1, n)[k] = w[a + k]
        BY <3>2, <4>2
      <4> DEFINE z == SubSeq(w, a + 1, n)
      <4>4. z \in Seq(Int) /\ Len(z) = m /\ \A k \in 1 .. m : z[k] = w[a + k]
        BY <4>3
      <4> HIDE DEF z
      <4>5. \E p \in Seq(Int) : p = z /\ Len(p) = m /\ \A k \in 1 .. m : p[k] = w[a + k]
        BY <4>4
      <4>6. QED
        BY <4>5 DEF z
    <3>7. \A k \in 1 .. m : p[k] = Null
      <4>1. ASSUME NEW k \in 1 .. m PROVE p[k] = Null
        <5>1. a + k \in a + 1 .. n
          BY <3>2
        <5>2. QED
          BY <1>8, <3>6, <5>1
      <4>2. QED
        BY <4>1
    <3>8. g = p
      BY <3>4, <3>5, <3>6, <3>7, SeqEqual
    <3>9. PICK q \in Seq(Seq(Int)) : q = Append(r, g) /\ FlattenSeq(q) = FlattenSeq(r) \o g
      BY AppendProperties, FlattenAppend
    <3>10. stream' = [stream EXCEPT !.phase = "done", !.arrays = q]
      <4>1. n - a = Len(v.indices) - stream.last /\ stream.last # Len(v.indices)
        BY <1>3, <1>4, <2>2
      <4>2. QED
        BY <1>6, <3>1, <3>2, <3>3, <3>4, <3>9, <4>1 DEF StreamTail
    <3>11. SubSeq(w, 1, a) \o SubSeq(w, a + 1, n) = w
      <4>1. 1 \in 1 .. Len(w) + 1 /\ a \in 1 - 1 .. Len(w) /\ n \in a .. Len(w)
        BY <1>4, <1>5
      <4>2. SubSeq(w, 1, a) \o SubSeq(w, a + 1, n) = SubSeq(w, 1, n)
        BY <4>1, ConcatAdjacentSubSeq
      <4>3. SubSeq(w, 1, n) = w
        BY <1>5, SubSeqFull
      <4>4. QED
        BY <4>2, <4>3
    <3>12. stream.aligned => FlattenSeq(q) = w
      BY <1>9, <3>6, <3>8, <3>9, <3>11
    <3>13. QED
      BY <3>10, <3>12
  <2>3. QED
    BY <2>1, <2>2
<1>11. /\ stream' \in StreamType /\ stream'.phase = "done" /\ stream'.arrays = q
  BY <1>2, <1>10 DEF StreamType
<1>12. stream'.aligned = stream.aligned
  BY <1>2, <1>10, Zenon DEF StreamType
<1>13. StreamExact'
  BY <1>1, <1>5, <1>10, <1>11, <1>12 DEF StreamExact, Streamed
<1>14. stream'.phase # "idle" /\ stream'.phase # "chunks"
  BY <1>11
<1>15. StreamInv'
  BY <1>11, <1>13, <1>14 DEF StreamInv
<1>16. QED
  BY <1>1, <1>15 DEF VctrInv

(* Every step keeps the invariant.                                         *)
LEMMA NextVctr ==
  ASSUME VctrInv, [Next]_vars, ~CombineSubsets
  PROVE  VctrInv'
<1>1. CASE Subset
  BY <1>1, SubsetKeeps
<1>2. CASE CombineVctr
  BY <1>2, CombineKeeps
<1>3. CASE StreamEmpty
  BY <1>3, EmptyKeeps
<1>4. CASE StreamSingle
  BY <1>4, SingleKeeps
<1>5. CASE StreamTake
  BY <1>5, SingleKeeps
<1>6. CASE StreamStart
  BY <1>6, StartKeeps
<1>7. CASE StreamSkip
  BY <1>7, SkipKeeps
<1>8. CASE StreamChunk
  BY <1>8, ChunkKeeps
<1>9. CASE StreamTail
  BY <1>9, TailKeeps
<1>10. CASE StreamRead
  BY <1>10, VctrStep DEF StreamRead, VctrInv
<1>11. CASE UNCHANGED vars
  BY <1>11 DEF vars, VctrInv, StreamInv, ChunksInv, StreamExact, Streamed
<1>12. QED
  BY <1>1, <1>2, <1>3, <1>4, <1>5, <1>6, <1>7, <1>8, <1>9, <1>10, <1>11 DEF Next

(***************************************************************************)
(* Theorems                                                                 *)
(***************************************************************************)

(* The invariant holds in every reachable state.                           *)
THEOREM VctrInvariant ==
  ASSUME ~CombineSubsets
  PROVE  Spec => []VctrInv
<1>1. Init => VctrInv
  BY InitVctr
<1>2. VctrInv /\ [Next]_vars => VctrInv'
  BY NextVctr
<1>3. QED
  BY <1>1, <1>2, PTL DEF Spec

(* Whatever subsets and combinations made the vector, wk handlers read     *)
(* from it the features a plain vector would hold.                         *)
THEOREM VctrValuesKept ==
  ASSUME ~CombineSubsets
  PROVE  Spec => []ValuesKept
<1>1. VctrInv => ValuesKept
  BY DEF VctrInv, ValuesKept
<1>2. QED
  BY <1>1, VctrInvariant, PTL

(* as_narrow_array() gives them, whichever way it goes.                    *)
THEOREM VctrNarrowExact ==
  ASSUME ~CombineSubsets
  PROVE  Spec => []NarrowExact
<1>1. VctrInv => NarrowExact
  BY NarrowIs DEF VctrInv, NarrowExact
<1>2. QED
  BY <1>1, VctrInvariant, PTL

(* is.na() is exact, although it trusts the null counts of the arrays.     *)
THEOREM VctrNAExact ==
  ASSUME ~CombineSubsets
  PROVE  Spec => []NAExact
<1>1. VctrInv => NAExact
  <2>1. ASSUME VctrInv, NEW i \in DOMAIN want PROVE IsNA(v)[i] <=> want[i] = Null
    <3>1. IsVctr(v) /\ want = Handled(v)
      BY <2>1 DEF VctrInv
    <3>2. i \in 1 .. Len(v.indices)
      BY <2>1, VctrInvIs, LenProperties
    <3>3. QED
      BY <3>1, <3>2, NAIs
  <2>2. QED
    BY <2>1 DEF NAExact
<1>2. QED
  BY <1>1, VctrInvariant, PTL

(* The stream of arrays gives the features in order, as long as            *)
(* array_index_begin is the offset of each chunk that gives an array.      *)
THEOREM VctrStreamExact ==
  ASSUME ~CombineSubsets
  PROVE  Spec => []StreamExact
<1>1. VctrInv => StreamExact
  BY DEF VctrInv, StreamInv
<1>2. QED
  BY <1>1, VctrInvariant, PTL
==============================================================================
