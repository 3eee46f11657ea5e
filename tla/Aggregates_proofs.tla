--------------------------- MODULE Aggregates_proofs ---------------------------
(***************************************************************************)
(* Theorems about the two operations that reduce an array to one value,    *)
(* for any readers, any data and any length of array: the row of           *)
(* global_bounds is the bounding box of the coordinates read, and the      *)
(* types of geoparquet_types are those of the features.                    *)
(*                                                                         *)
(* The proofs need little of the read loop: that nothing is called after   *)
(* it is over, and that `dim` is what was last announced.                  *)
(***************************************************************************)
EXTENDS Aggregates, TLAPS

(***************************************************************************)
(* global_bounds                                                           *)
(***************************************************************************)

(* What the min and max arrays of a bounder hold until a null is read.     *)
Bounds == (-Infinity) .. Infinity
BounderType == [min : [Bounder!Slots -> Bounds], max : [Bounder!Slots -> Bounds]]
Finite(k) == seen[k] \ {Bounder!NaN}
KindSet == {"X", "Y", "Z", "M"}

(* The row release() would write: slot j of the two bounders combined.     *)
RowMin(j) == Bounder!StdMin(xyzm.min[j], xym.min[Bounder!XymMap[j]])
RowMax(j) == Bounder!StdMax(xyzm.max[j], xym.max[Bounder!XymMap[j]])
BoundsKind(j, min, max) == Bounder!IsBoundOf(min, max, Finite(Bounder!KindOf[j + 1]))

RowIsNull == sawNull /\ ~nullIsEmpty

(* The bounder in use is the one of the dimensions last announced; the two *)
(* bounders together bound what was read, although neither knows which of  *)
(* it was its own; a null that counts ends the reading.                    *)
BounderInv ==
  /\ active = IF dim = "XYM" THEN "xym" ELSE "xyzm"
  /\ seen \in [KindSet -> SUBSET (Ordinates \cup {Bounder!NaN})]
  /\ rowReleased \in BOOLEAN
  /\ rowReleased => phase = "read"
  /\ RowIsNull =>
       phase = "read" /\ xyzm = Bounder!NullBounder /\ xym = Bounder!NullBounder
  /\ ~RowIsNull =>
       /\ xyzm \in BounderType /\ xym \in BounderType
       /\ \A j \in Bounder!Slots :
            IF rowReleased THEN BoundsKind(j, xyzm.min[j], xyzm.max[j])
                           ELSE BoundsKind(j, RowMin(j), RowMax(j))

(***************************************************************************)
(* geoparquet_types                                                        *)
(***************************************************************************)
Collected(g) == includeEmpty \/ ~g.empty

CollectorInv ==
  /\ lastDim = dim
  /\ released \in {"no", "yes", "threw"}
  /\ released # "no" => phase = "read"
  /\ \A g \in roots : g.dim \in AllDims
  /\ allTypes = Collector!Pairs({g \in roots : Collected(g)})
  /\ emptyTypes = Collector!Pairs({g \in roots : ~Collected(g)})
  /\ ReleasedTypesExact

AggregatesInv ==
  /\ op \in {"global_bounds", "geoparquet_types"}
  /\ op = "global_bounds" => BounderInv
  /\ op = "geoparquet_types" => CollectorInv

(***************************************************************************)
(* Minima and maxima                                                       *)
(***************************************************************************)

(* Ordinates lie strictly between the infinities, and NaN is none of them. *)
LEMMA OrdinateRange ==
  /\ Infinity \in Nat /\ Bounder!NaN = Infinity + 1
  /\ \A v \in Ordinates : v \in Int /\ -Infinity < v /\ v < Infinity /\ v # Bounder!NaN
BY OrdinateAssumption DEF Bounder!NaN

(* Without NaN, std::min() and std::max() are what they are called.        *)
LEMMA MinMaxOfBounds ==
  ASSUME NEW a \in Bounds, NEW b \in Bounds
  PROVE  /\ Bounder!StdMin(a, b) = (IF b < a THEN b ELSE a)
         /\ Bounder!StdMax(a, b) = (IF a < b THEN b ELSE a)
         /\ Bounder!StdMin(a, b) \in Bounds /\ Bounder!StdMax(a, b) \in Bounds
BY OrdinateRange DEF Bounds, Bounder!StdMin, Bounder!StdMax, Bounder!Less

(* A NaN ordinate leaves a bound as it is; any other one enters it.        *)
LEMMA MinMaxOfOrdinate ==
  ASSUME NEW a \in Bounds, NEW v \in Ordinates \cup {Bounder!NaN}
  PROVE  /\ Bounder!StdMin(a, v) = (IF v # Bounder!NaN /\ v < a THEN v ELSE a)
         /\ Bounder!StdMax(a, v) = (IF v # Bounder!NaN /\ a < v THEN v ELSE a)
         /\ Bounder!StdMin(a, v) \in Bounds /\ Bounder!StdMax(a, v) \in Bounds
BY OrdinateRange DEF Bounds, Bounder!StdMin, Bounder!StdMax, Bounder!Less

(* Whichever of two bounders takes an ordinate, what they bound together   *)
(* is bounded by the two afterwards.                                       *)
LEMMA BoundWithOrdinate ==
  ASSUME NEW S \in SUBSET (Ordinates \cup {Bounder!NaN}),
         NEW v \in Ordinates \cup {Bounder!NaN},
         NEW mn \in Bounds, NEW mx \in Bounds, NEW mn2, NEW mx2,
         Bounder!IsBoundOf(mn, mx, S \ {Bounder!NaN}),
         mn2 = (IF v # Bounder!NaN /\ v < mn THEN v ELSE mn),
         mx2 = (IF v # Bounder!NaN /\ mx < v THEN v ELSE mx)
  PROVE  Bounder!IsBoundOf(mn2, mx2, (S \cup {v}) \ {Bounder!NaN})
<1>1. CASE v = Bounder!NaN
  <2>1. (S \cup {v}) \ {Bounder!NaN} = S \ {Bounder!NaN}
    BY <1>1
  <2>2. QED
    BY <1>1, <2>1
<1>2. CASE v # Bounder!NaN /\ S \ {Bounder!NaN} = {}
  <2>1. (S \cup {v}) \ {Bounder!NaN} = {v}
    BY <1>2
  <2>2. mn2 = v /\ mx2 = v
    BY <1>2, OrdinateRange DEF Bounder!IsBoundOf
  <2>3. QED
    BY <1>2, <2>1, <2>2, OrdinateRange DEF Bounder!IsBoundOf
<1>3. CASE v # Bounder!NaN /\ S \ {Bounder!NaN} # {}
  <2>1. /\ mn \in S \ {Bounder!NaN} /\ mx \in S \ {Bounder!NaN}
        /\ \A u \in S \ {Bounder!NaN} : mn <= u /\ u <= mx
    BY <1>3 DEF Bounder!IsBoundOf
  <2>2. \A u \in (S \ {Bounder!NaN}) \cup {v} : u \in Int
    BY <1>3, OrdinateRange
  <2>3. \A u \in (S \ {Bounder!NaN}) \cup {v} : mn2 <= u /\ u <= mx2
    BY <1>3, <2>1, <2>2
  <2>4. {mn2, mx2} \subseteq (S \ {Bounder!NaN}) \cup {v}
    BY <2>1
  <2>5. (S \cup {v}) \ {Bounder!NaN} = (S \ {Bounder!NaN}) \cup {v}
    BY <1>3
  <2>6. QED
    BY <2>3, <2>4, <2>5 DEF Bounder!IsBoundOf
<1>4. QED
  BY <1>1, <1>2, <1>3

(***************************************************************************)
(* Coordinates                                                             *)
(***************************************************************************)

(* add_coord() changes the slots the coordinate has, each by itself.       *)
LEMMA AddCoordSlots ==
  ASSUME NEW b \in BounderType, NEW n \in 0 .. 4,
         NEW coord \in [1 .. n -> Ordinates \cup {Bounder!NaN}]
  PROVE  /\ Bounder!AddCoord(b, coord) \in BounderType
         /\ \A j \in Bounder!Slots :
              /\ Bounder!AddCoord(b, coord).min[j] =
                   IF j < n THEN Bounder!StdMin(b.min[j], coord[j + 1]) ELSE b.min[j]
              /\ Bounder!AddCoord(b, coord).max[j] =
                   IF j < n THEN Bounder!StdMax(b.max[j], coord[j + 1]) ELSE b.max[j]
<1>1. Len(coord) = n
  OBVIOUS
<1>2. \A j \in Bounder!Slots : j < n => coord[j + 1] \in Ordinates \cup {Bounder!NaN}
  BY DEF Bounder!Slots
<1>3. \A j \in Bounder!Slots : b.min[j] \in Bounds /\ b.max[j] \in Bounds
  BY DEF BounderType
<1> DEFINE mn(j) == IF j < n THEN Bounder!StdMin(b.min[j], coord[j + 1]) ELSE b.min[j]
           mx(j) == IF j < n THEN Bounder!StdMax(b.max[j], coord[j + 1]) ELSE b.max[j]
<1>4. \A j \in Bounder!Slots : mn(j) \in Bounds /\ mx(j) \in Bounds
  BY <1>2, <1>3, MinMaxOfOrdinate
<1>5. Bounder!AddCoord(b, coord) =
        [min |-> [j \in Bounder!Slots |-> mn(j)], max |-> [j \in Bounder!Slots |-> mx(j)]]
  BY <1>1 DEF Bounder!AddCoord
<1> HIDE DEF mn, mx
<1>6. /\ Bounder!AddCoord(b, coord) \in BounderType
      /\ \A j \in Bounder!Slots : /\ Bounder!AddCoord(b, coord).min[j] = mn(j)
                                  /\ Bounder!AddCoord(b, coord).max[j] = mx(j)
  BY <1>4, <1>5 DEF BounderType
<1>7. QED
  BY <1>6 DEF mn, mx

(* The slot of the bounder in use that has the ordinates of row slot j.    *)
SlotOf(j, d) == IF d = "XYM" THEN Bounder!XymMap[j] ELSE j

(* The ordinates of one kind in a coordinate of dimensions d.              *)
OfKind(coord, d, k) ==
  {coord[i] : i \in {l \in DOMAIN coord : Bounder!Kinds(d)[l] = k}}

(* A coordinate has at most four ordinates.                                *)
LEMMA KindCount ==
  ASSUME NEW d
  PROVE  Len(Bounder!Kinds(d)) \in 0 .. 4
<1>1. Bounder!Kinds(d) \in {<<"X", "Y">>, <<"X", "Y", "Z">>, <<"X", "Y", "M">>,
                           <<"X", "Y", "Z", "M">>, << >>}
  BY DEF Bounder!Kinds
<1>2. QED
  BY <1>1

(* Of each kind a coordinate has at most one ordinate, and it is where the *)
(* bounder of its dimensions looks for it.                                 *)
LEMMA KindInSlot ==
  ASSUME NEW d, NEW coord \in [1 .. Len(Bounder!Kinds(d)) -> Ordinates \cup {Bounder!NaN}],
         NEW j \in Bounder!Slots
  PROVE  /\ SlotOf(j, d) \in Bounder!Slots
         /\ OfKind(coord, d, Bounder!KindOf[j + 1]) =
              IF SlotOf(j, d) < Len(Bounder!Kinds(d)) THEN {coord[SlotOf(j, d) + 1]} ELSE {}
<1> USE DEF Bounder!Slots, Bounder!KindOf, SlotOf, OfKind, Bounder!XymMap
<1>1. CASE d = "XY"
  <2>1. Bounder!Kinds(d) = <<"X", "Y">>
    BY <1>1 DEF Bounder!Kinds
  <2>2. QED
    BY <1>1, <2>1
<1>2. CASE d = "XYZ"
  <2>1. Bounder!Kinds(d) = <<"X", "Y", "Z">>
    BY <1>2 DEF Bounder!Kinds
  <2>2. QED
    BY <1>2, <2>1
<1>3. CASE d = "XYM"
  <2>1. Bounder!Kinds(d) = <<"X", "Y", "M">>
    BY <1>3 DEF Bounder!Kinds
  <2>2. QED
    BY <1>3, <2>1, SMTT(60)
<1>4. CASE d = "XYZM"
  <2>1. Bounder!Kinds(d) = <<"X", "Y", "Z", "M">>
    BY <1>4 DEF Bounder!Kinds
  <2>2. QED
    BY <1>4, <2>1, SMTT(60)
<1>5. CASE d \notin {"XY", "XYZ", "XYM", "XYZM"}
  <2>1. Bounder!Kinds(d) = << >>
    BY <1>5 DEF Bounder!Kinds
  <2>2. QED
    BY <1>5, <2>1
<1>6. QED
  BY <1>1, <1>2, <1>3, <1>4, <1>5

(* Combining after one bounder took an ordinate is as if the combination   *)
(* had taken it: the minimum of three does not depend on the order.        *)
LEMMA CombineWithOrdinate ==
  ASSUME NEW a \in Bounds, NEW b \in Bounds, NEW v \in Ordinates \cup {Bounder!NaN}
  PROVE  LET mn == Bounder!StdMin(a, b)
             mx == Bounder!StdMax(a, b)
             mn2 == IF v # Bounder!NaN /\ v < mn THEN v ELSE mn
             mx2 == IF v # Bounder!NaN /\ mx < v THEN v ELSE mx
         IN  /\ Bounder!StdMin(Bounder!StdMin(a, v), b) = mn2
             /\ Bounder!StdMin(a, Bounder!StdMin(b, v)) = mn2
             /\ Bounder!StdMax(Bounder!StdMax(a, v), b) = mx2
             /\ Bounder!StdMax(a, Bounder!StdMax(b, v)) = mx2
<1>1. /\ Bounder!StdMin(a, v) \in Bounds /\ Bounder!StdMin(b, v) \in Bounds
      /\ Bounder!StdMax(a, v) \in Bounds /\ Bounder!StdMax(b, v) \in Bounds
  BY MinMaxOfOrdinate
<1>2. /\ Bounder!StdMin(a, v) = (IF v # Bounder!NaN /\ v < a THEN v ELSE a)
      /\ Bounder!StdMin(b, v) = (IF v # Bounder!NaN /\ v < b THEN v ELSE b)
      /\ Bounder!StdMax(a, v) = (IF v # Bounder!NaN /\ a < v THEN v ELSE a)
      /\ Bounder!StdMax(b, v) = (IF v # Bounder!NaN /\ b < v THEN v ELSE b)
  BY MinMaxOfOrdinate
<1>3. \A x, y \in Bounds : /\ Bounder!StdMin(x, y) = (IF y < x THEN y ELSE x)
                           /\ Bounder!StdMax(x, y) = (IF x < y THEN y ELSE x)
  BY MinMaxOfBounds
<1>4. a \in Int /\ b \in Int /\ (v # Bounder!NaN => v \in Int)
  BY OrdinateRange DEF Bounds
<1>5. QED
  BY <1>1, <1>2, <1>3, <1>4

(***************************************************************************)
(* The calls on GlobalBounder                                              *)
(***************************************************************************)

(* A coordinate enters the bounder of its dimensions, and so the row, by   *)
(* the kind of each ordinate.                                              *)
LEMMA CallCoordsBounds ==
  ASSUME BounderInv, Bounder!CallCoords
  PROVE  BounderInv'
<1>1. /\ phase = "geometry"
      /\ UNCHANGED <<phase, dim, nullIsEmpty, active, rowReleased, sawNull>>
  BY DEF Bounder!CallCoords, Bounder!Coords
<1>2. /\ ~rowReleased /\ ~RowIsNull
      /\ xyzm \in BounderType /\ xym \in BounderType
      /\ \A j \in Bounder!Slots : BoundsKind(j, RowMin(j), RowMax(j))
  BY <1>1 DEF BounderInv
<1>3. PICK coord \in [1 .. Len(Bounder!Kinds(dim)) -> Ordinates \cup {Bounder!NaN}] :
        /\ IF active = "xym" THEN xym' = Bounder!AddCoord(xym, coord) /\ UNCHANGED xyzm
           ELSE xyzm' = Bounder!AddCoord(xyzm, coord) /\ UNCHANGED xym
        /\ seen' = [k \in DOMAIN seen |-> seen[k] \cup OfKind(coord, dim, k)]
  BY DEF Bounder!CallCoords, OfKind
<1> DEFINE n == Len(Bounder!Kinds(dim))
<1>4. n \in 0 .. 4
  BY KindCount
<1>5. seen' \in [KindSet -> SUBSET (Ordinates \cup {Bounder!NaN})]
  <2>1. \A k : OfKind(coord, dim, k) \subseteq Ordinates \cup {Bounder!NaN}
    BY <1>3 DEF OfKind
  <2>2. QED
    BY <1>3, <2>1 DEF BounderInv
<1> DEFINE Added(b, c, l) ==
             /\ c.min[l] = IF l < n THEN Bounder!StdMin(b.min[l], coord[l + 1]) ELSE b.min[l]
             /\ c.max[l] = IF l < n THEN Bounder!StdMax(b.max[l], coord[l + 1]) ELSE b.max[l]
<1>6. /\ Bounder!AddCoord(xyzm, coord) \in BounderType
      /\ \A l \in Bounder!Slots : Added(xyzm, Bounder!AddCoord(xyzm, coord), l)
  BY <1>2, <1>4, AddCoordSlots
<1>7. /\ Bounder!AddCoord(xym, coord) \in BounderType
      /\ \A l \in Bounder!Slots : Added(xym, Bounder!AddCoord(xym, coord), l)
  BY <1>2, <1>4, AddCoordSlots
<1>8. /\ dim = "XYM" => /\ UNCHANGED xyzm
                        /\ \A l \in Bounder!Slots : Added(xym, xym', l)
      /\ dim # "XYM" => /\ UNCHANGED xym
                        /\ \A l \in Bounder!Slots : Added(xyzm, xyzm', l)
  <2>1. active = IF dim = "XYM" THEN "xym" ELSE "xyzm"
    BY DEF BounderInv
  <2> HIDE DEF n, Added
  <2>2. QED
    BY <1>3, <1>6, <1>7, <2>1
<1>9. xyzm' \in BounderType /\ xym' \in BounderType
  BY <1>2, <1>3, <1>6, <1>7
<1>10. ASSUME NEW j \in Bounder!Slots
       PROVE  BoundsKind(j, RowMin(j), RowMax(j))'
  <2> DEFINE k == Bounder!KindOf[j + 1]
             i == Bounder!XymMap[j]
             s == SlotOf(j, dim)
             S == seen[k]
  <2>1. k \in KindSet /\ i \in Bounder!Slots
    BY DEF Bounder!Slots, Bounder!KindOf, KindSet, Bounder!XymMap
  <2>2. /\ xyzm.min[j] \in Bounds /\ xym.min[i] \in Bounds
        /\ xyzm.max[j] \in Bounds /\ xym.max[i] \in Bounds
    BY <1>2, <2>1 DEF BounderType
  <2>3. S \in SUBSET (Ordinates \cup {Bounder!NaN})
    BY <2>1 DEF BounderInv
  <2>4. Bounder!IsBoundOf(RowMin(j), RowMax(j), S \ {Bounder!NaN})
    BY <1>2 DEF BoundsKind, Finite
  <2>5. seen'[k] = S \cup OfKind(coord, dim, k)
    BY <1>3, <2>1 DEF BounderInv
  <2>6. /\ s \in Bounder!Slots
        /\ OfKind(coord, dim, k) = IF s < n THEN {coord[s + 1]} ELSE {}
    BY <1>3, KindInSlot
  <2>7. CASE s < n
    <3> DEFINE v == coord[s + 1]
    <3>1. v \in Ordinates \cup {Bounder!NaN}
      BY <1>3, <1>4, <2>6, <2>7 DEF Bounder!Slots
    <3>2. \/ /\ xym'.min[i] = Bounder!StdMin(xym.min[i], v)
             /\ xym'.max[i] = Bounder!StdMax(xym.max[i], v)
             /\ UNCHANGED xyzm
          \/ /\ xyzm'.min[j] = Bounder!StdMin(xyzm.min[j], v)
             /\ xyzm'.max[j] = Bounder!StdMax(xyzm.max[j], v)
             /\ UNCHANGED xym
      BY <1>8, <2>1, <2>7 DEF SlotOf
    <3> DEFINE mn == RowMin(j)
               mx == RowMax(j)
    <3>3. /\ RowMin(j)' = IF v # Bounder!NaN /\ v < mn THEN v ELSE mn
          /\ RowMax(j)' = IF v # Bounder!NaN /\ mx < v THEN v ELSE mx
      BY <2>2, <3>1, <3>2, CombineWithOrdinate DEF RowMin, RowMax
    <3>4. mn \in Bounds /\ mx \in Bounds
      BY <2>2, MinMaxOfBounds DEF RowMin, RowMax
    <3>5. seen'[k] = S \cup {v}
      BY <2>5, <2>6, <2>7
    <3> HIDE DEF v, mn, mx
    <3>6. Bounder!IsBoundOf(RowMin(j)', RowMax(j)', (S \cup {v}) \ {Bounder!NaN})
      BY <2>3, <2>4, <3>1, <3>3, <3>4, BoundWithOrdinate DEF mn, mx
    <3>7. QED
      BY <3>5, <3>6 DEF BoundsKind, Finite
  <2>8. CASE ~(s < n)
    <3>1. /\ xym'.min[i] = xym.min[i] /\ xym'.max[i] = xym.max[i]
          /\ xyzm'.min[j] = xyzm.min[j] /\ xyzm'.max[j] = xyzm.max[j]
      BY <1>8, <2>1, <2>8 DEF SlotOf
    <3>2. seen'[k] = S
      BY <2>5, <2>6, <2>8
    <3>3. QED
      BY <2>4, <3>1, <3>2 DEF BoundsKind, Finite, RowMin, RowMax
  <2>9. QED
    BY <2>7, <2>8
<1>11. QED
  BY <1>1, <1>2, <1>5, <1>9, <1>10 DEF BounderInv, RowIsNull

(* A change of dimensions chooses the bounder, and nothing else.           *)
LEMMA DimensionsBounds ==
  ASSUME BounderInv,
         active' = IF dim' = "XYM" THEN "xym" ELSE "xyzm",
         UNCHANGED <<nullIsEmpty, xyzm, xym, rowReleased, seen, sawNull>>,
         phase \in {"start", "feature", "geometry"}
  PROVE  BounderInv'
<1>1. ~rowReleased /\ ~RowIsNull
  BY DEF BounderInv
<1>2. QED
  BY <1>1 DEF BounderInv, RowIsNull, Finite, BoundsKind, RowMin, RowMax

(* read_meta() announces dimensions to GlobalBounder.                      *)
LEMMA CallReadMetaBounds ==
  ASSUME BounderInv, Bounder!CallReadMeta
  PROVE  BounderInv'
<1>1. /\ phase = "start"
      /\ active' = IF dim' = "XYM" THEN "xym" ELSE "xyzm"
      /\ UNCHANGED <<nullIsEmpty, xyzm, xym, rowReleased, seen, sawNull>>
  BY DEF Bounder!CallReadMeta, Bounder!ReadMeta, Bounder!NewDimensions
<1>2. QED
  BY <1>1, DimensionsBounds

(* geom_start() announces them only when they changed.                     *)
LEMMA CallGeomStartBounds ==
  ASSUME BounderInv, Bounder!CallGeomStart
  PROVE  BounderInv'
<1>1. PICK t \in Bounder!GeometryTypes \cup {Bounder!Unrecognized},
          sz \in -1 .. MaxParts, d \in BoundsDims :
        /\ Bounder!GeomStart(t, sz, d, "CONTINUE")
        /\ IF d = dim THEN UNCHANGED active ELSE Bounder!NewDimensions(d)
        /\ UNCHANGED <<nullIsEmpty, xyzm, xym, rowReleased, seen, sawNull>>
  BY DEF Bounder!CallGeomStart
<1>2. phase \in {"feature", "geometry"} /\ dim' = d
  BY <1>1 DEF Bounder!GeomStart
<1>3. active' = IF dim' = "XYM" THEN "xym" ELSE "xyzm"
  BY <1>1, <1>2 DEF BounderInv, Bounder!NewDimensions
<1>4. QED
  BY <1>1, <1>2, <1>3, DimensionsBounds

(* A null that counts makes both bounders null and stops the reader.       *)
LEMMA CallNullFeatBounds ==
  ASSUME BounderInv, Bounder!CallNullFeat
  PROVE  BounderInv'
<1>1. /\ phase = "feature"
      /\ UNCHANGED <<dim, nullIsEmpty, active, rowReleased, seen>>
      /\ sawNull'
  BY DEF Bounder!CallNullFeat, Bounder!NullFeat
<1>2. ~rowReleased /\ ~RowIsNull
  BY <1>1 DEF BounderInv
<1>3. CASE nullIsEmpty
  <2>1. UNCHANGED <<xyzm, xym>>
    BY <1>3 DEF Bounder!CallNullFeat
  <2>2. ~RowIsNull'
    BY <1>1, <1>3 DEF RowIsNull
  <2>3. QED
    BY <1>1, <1>2, <2>1, <2>2 DEF BounderInv, Finite, BoundsKind, RowMin, RowMax
<1>4. CASE ~nullIsEmpty
  <2>1. phase' = "read"
    BY <1>4 DEF Bounder!CallNullFeat, Bounder!NullFeat, Bounder!Unwind
  <2>2. xyzm' = Bounder!NullBounder /\ xym' = Bounder!NullBounder
    BY <1>4 DEF Bounder!CallNullFeat
  <2>3. RowIsNull'
    BY <1>1, <1>4 DEF RowIsNull
  <2>4. QED
    BY <1>1, <2>1, <2>2, <2>3 DEF BounderInv
<1>5. QED
  BY <1>3, <1>4

(* The calls GlobalBounder does not handle happen before the row is out.   *)
LEMMA CallOtherBounds ==
  ASSUME BounderInv, Bounder!CallOther
  PROVE  BounderInv'
<1>1. /\ UNCHANGED <<dim, nullIsEmpty, xyzm, xym, active, rowReleased, seen, sawNull>>
      /\ phase # "read"
  BY DEF Bounder!CallOther, Bounder!FeatStart, Bounder!RingStart, Bounder!RingEnd,
         Bounder!GeomEnd, Bounder!FeatEnd, Bounder!ReadDone
<1>2. ~rowReleased /\ ~RowIsNull
  BY <1>1 DEF BounderInv
<1>3. QED
  BY <1>1, <1>2 DEF BounderInv, RowIsNull, Finite, BoundsKind, RowMin, RowMax

(* release() combines the bounders slot by slot.                           *)
LEMMA ReleaseBounds ==
  ASSUME BounderInv, Bounder!Release
  PROVE  BounderInv'
<1>1. /\ phase = "read" /\ phase' = "read" /\ ~rowReleased /\ rowReleased' = TRUE
      /\ xyzm' = Bounder!AddBounder(xyzm, xym)
      /\ UNCHANGED <<dim, nullIsEmpty, xym, active, seen, sawNull>>
  BY DEF Bounder!Release, Bounder!readerVars
<1>2. \A j \in Bounder!Slots : /\ xyzm'.min[j] = RowMin(j) /\ xyzm'.max[j] = RowMax(j)
                               /\ Bounder!XyzmMap[j] = j
                               /\ Bounder!XymMap[j] \in Bounder!Slots
  BY <1>1 DEF Bounder!AddBounder, RowMin, RowMax, Bounder!XyzmMap, Bounder!XymMap,
              Bounder!Slots
<1>3. CASE RowIsNull
  <2>1. xyzm = Bounder!NullBounder /\ xym = Bounder!NullBounder
    BY <1>3 DEF BounderInv
  <2>2. \A j \in Bounder!Slots : /\ RowMin(j) = Bounder!NaN /\ RowMax(j) = Bounder!NaN
    BY <1>2, <2>1 DEF RowMin, RowMax, Bounder!NullBounder, Bounder!StdMin,
                      Bounder!StdMax, Bounder!Less
  <2>3. xyzm' = [min |-> [j \in Bounder!Slots |-> RowMin(j)],
                 max |-> [j \in Bounder!Slots |-> RowMax(j)]]
    BY <1>1, <1>2 DEF Bounder!AddBounder, RowMin, RowMax
  <2>4. xyzm' = Bounder!NullBounder
    BY <2>2, <2>3 DEF Bounder!NullBounder
  <2>5. QED
    BY <1>1, <1>3, <2>1, <2>4 DEF BounderInv, RowIsNull
<1>4. CASE ~RowIsNull
  <2>1. /\ xyzm \in BounderType /\ xym \in BounderType
        /\ \A j \in Bounder!Slots : BoundsKind(j, RowMin(j), RowMax(j))
    BY <1>1, <1>4 DEF BounderInv
  <2>2. \A j \in Bounder!Slots : RowMin(j) \in Bounds /\ RowMax(j) \in Bounds
    BY <1>2, <2>1, MinMaxOfBounds DEF RowMin, RowMax, BounderType
  <2>3. xyzm' = [min |-> [j \in Bounder!Slots |-> RowMin(j)],
                 max |-> [j \in Bounder!Slots |-> RowMax(j)]]
    BY <1>1, <1>2 DEF Bounder!AddBounder, RowMin, RowMax
  <2>4. xyzm' \in BounderType
    BY <2>2, <2>3 DEF BounderType
  <2>5. \A j \in Bounder!Slots : BoundsKind(j, xyzm.min[j], xyzm.max[j])'
    BY <1>1, <1>2, <2>1 DEF BoundsKind, Finite
  <2>6. QED
    BY <1>1, <1>4, <2>1, <2>4, <2>5 DEF BounderInv, RowIsNull
<1>5. QED
  BY <1>3, <1>4

(* Every call on GlobalBounder, and release(), keeps the invariant.        *)
LEMMA BounderStep ==
  ASSUME BounderInv, Bounder!Next
  PROVE  BounderInv'
BY CallReadMetaBounds, CallNullFeatBounds, CallGeomStartBounds, CallCoordsBounds,
   CallOtherBounds, ReleaseBounds DEF Bounder!Next

(***************************************************************************)
(* The calls on GeoParquetTypeCollector                                    *)
(***************************************************************************)

(* Adding a geometry to the roots adds its type to those of its kind.      *)
LEMMA PairsOneMore ==
  ASSUME NEW G, NEW g
  PROVE  Collector!Pairs(G \cup {g}) = Collector!Pairs(G) \cup {<<g.type, g.dim>>}
BY DEF Collector!Pairs

(* What read_meta() and geom_start() announce is the reader's dimensions,  *)
(* so that the pair a root geometry adds is its own.                       *)
LEMMA CallReadMetaTypes ==
  ASSUME CollectorInv, Collector!CallReadMeta
  PROVE  CollectorInv'
<1>1. /\ phase = "start" /\ lastDim' = dim'
      /\ UNCHANGED <<includeEmpty, allTypes, emptyTypes, released, result, roots>>
  BY DEF Collector!CallReadMeta, Collector!ReadMeta, Collector!NewDimensions
<1>2. released = "no"
  BY <1>1 DEF CollectorInv
<1>3. QED
  BY <1>1, <1>2 DEF CollectorInv, Collected, Collector!Pairs, ReleasedTypesExact,
                    Collector!ReleasedTypesExact

(* geom_start() of a root puts its type on the list of its kind.           *)
LEMMA CallGeomStartTypes ==
  ASSUME CollectorInv, Collector!CallGeomStart
  PROVE  CollectorInv'
<1>1. PICK t \in Collector!GeometryTypes \cup {Collector!Unrecognized},
          sz \in -1 .. MaxParts, d \in Dims :
        /\ Collector!GeomStart(t, sz, d, "ABORT_FEATURE")
        /\ IF d = dim THEN UNCHANGED lastDim ELSE Collector!NewDimensions(d)
        /\ IF ~includeEmpty /\ sz = 0
           THEN emptyTypes' = emptyTypes \cup {<<t, lastDim'>>} /\ UNCHANGED allTypes
           ELSE allTypes' = allTypes \cup {<<t, lastDim'>>} /\ UNCHANGED emptyTypes
        /\ roots' = roots \cup {[type |-> t, dim |-> d, empty |-> sz = 0]}
        /\ UNCHANGED <<includeEmpty, released, result>>
  BY DEF Collector!CallGeomStart
<1> DEFINE g == [type |-> t, dim |-> d, empty |-> sz = 0]
<1>2. phase \in {"feature", "geometry"} /\ dim' = d
  BY <1>1 DEF Collector!GeomStart
<1>3. lastDim' = d
  BY <1>1, <1>2 DEF CollectorInv, Collector!NewDimensions
<1>4. released = "no" /\ released' = "no"
  BY <1>1, <1>2 DEF CollectorInv
<1>5. \A r \in roots' : r.dim \in AllDims
  BY <1>1, ReaderAssumption DEF CollectorInv
<1>6. \A r \in roots : Collected(r)' <=> Collected(r)
  BY <1>1 DEF Collected
<1>7. ASSUME /\ emptyTypes' = Collector!Pairs({r \in roots' : ~Collected(r)'})
             /\ allTypes' = Collector!Pairs({r \in roots' : Collected(r)'})
      PROVE  CollectorInv'
  <2>1. /\ released' # "no" => phase' = "read"
        /\ released' \in {"no", "yes", "threw"}
        /\ ReleasedTypesExact'
    BY <1>4 DEF ReleasedTypesExact, Collector!ReleasedTypesExact
  <2>2. lastDim' = dim'
    BY <1>2, <1>3
  <2>3. QED
    BY <1>5, <1>7, <2>1, <2>2 DEF CollectorInv
<1>8. CASE ~includeEmpty /\ sz = 0
  <2>1. ~Collected(g)'
    BY <1>1, <1>8 DEF Collected
  <2>2. /\ {r \in roots' : Collected(r)'} = {r \in roots : Collected(r)}
        /\ {r \in roots' : ~Collected(r)'} = {r \in roots : ~Collected(r)} \cup {g}
    BY <1>1, <1>6, <2>1
  <2>3. Collector!Pairs({r \in roots : ~Collected(r)} \cup {g}) =
          Collector!Pairs({r \in roots : ~Collected(r)}) \cup {<<t, d>>}
    <3>1. \A G : Collector!Pairs(G \cup {g}) =
                  Collector!Pairs(G) \cup {<<g.type, g.dim>>}
      BY PairsOneMore
    <3>2. QED
      BY <3>1
  <2>4. /\ emptyTypes' = Collector!Pairs({r \in roots' : ~Collected(r)'})
        /\ allTypes' = Collector!Pairs({r \in roots' : Collected(r)'})
    BY <1>1, <1>3, <1>8, <2>2, <2>3 DEF CollectorInv
  <2>5. QED
    BY <1>7, <2>4
<1>9. CASE ~(~includeEmpty /\ sz = 0)
  <2>1. Collected(g)'
    BY <1>1, <1>9 DEF Collected
  <2>2. /\ {r \in roots' : Collected(r)'} = {r \in roots : Collected(r)} \cup {g}
        /\ {r \in roots' : ~Collected(r)'} = {r \in roots : ~Collected(r)}
    BY <1>1, <1>6, <2>1
  <2>3. Collector!Pairs({r \in roots : Collected(r)} \cup {g}) =
          Collector!Pairs({r \in roots : Collected(r)}) \cup {<<t, d>>}
    <3>1. \A G : Collector!Pairs(G \cup {g}) =
                  Collector!Pairs(G) \cup {<<g.type, g.dim>>}
      BY PairsOneMore
    <3>2. QED
      BY <3>1
  <2>4. /\ emptyTypes' = Collector!Pairs({r \in roots' : ~Collected(r)'})
        /\ allTypes' = Collector!Pairs({r \in roots' : Collected(r)'})
    BY <1>1, <1>3, <1>9, <2>2, <2>3 DEF CollectorInv
  <2>5. QED
    BY <1>7, <2>4
<1>10. QED
  BY <1>8, <1>9

(* The other calls come before release() and change nothing.               *)
LEMMA CallOtherTypes ==
  ASSUME CollectorInv, Collector!CallOther
  PROVE  CollectorInv'
<1>1. /\ phase # "read" /\ UNCHANGED dim
      /\ UNCHANGED <<includeEmpty, lastDim, allTypes, emptyTypes, released, result, roots>>
  BY DEF Collector!CallOther, Collector!FeatStart, Collector!NullFeat, Collector!FeatEnd,
         Collector!ReadDone
<1>2. released = "no"
  BY <1>1 DEF CollectorInv
<1>3. QED
  BY <1>1, <1>2 DEF CollectorInv, Collected, Collector!Pairs, ReleasedTypesExact,
                    Collector!ReleasedTypesExact

(* release() finds only dimensions it knows, and takes the empty types     *)
(* only when there are no others.                                          *)
LEMMA ReleaseTypes ==
  ASSUME CollectorInv, Collector!Release, op = "geoparquet_types", UNCHANGED op
  PROVE  CollectorInv'
<1> DEFINE full == {g \in roots : Collected(g)}
           empty == {g \in roots : ~Collected(g)}
           types == IF allTypes = {} THEN emptyTypes ELSE allTypes
<1>1. /\ phase = "read" /\ phase' = "read"
      /\ UNCHANGED <<dim, includeEmpty, lastDim, allTypes, emptyTypes, roots>>
  BY DEF Collector!Release, Collector!readerVars
<1>2. /\ allTypes = Collector!Pairs(full) /\ emptyTypes = Collector!Pairs(empty)
      /\ \A g \in roots : g.dim \in AllDims
  BY DEF CollectorInv
<1>3. \A item \in types : item[2] \in AllDims
  BY <1>2 DEF Collector!Pairs
<1>4. released' = "yes" /\ result' = {Collector!MakeType(item) : item \in types}
  BY <1>3 DEF Collector!Release, Collector!AllDims, AllDims
<1>5. allTypes = {} <=> full = {}
  BY <1>2 DEF Collector!Pairs
<1>6. types = Collector!Pairs(IF full = {} THEN empty ELSE full)
  BY <1>2, <1>5
<1>7. (IF includeEmpty \/ Collector!NonEmpty = {} THEN roots ELSE Collector!NonEmpty) =
        (IF full = {} THEN empty ELSE full)
  BY DEF Collected, Collector!NonEmpty
<1>8. Collector!ReleasedTypesExact'
  BY <1>1, <1>4, <1>6, <1>7
  DEF Collector!ReleasedTypesExact, Collector!TypesOf, Collector!NonEmpty
<1>9. QED
  BY <1>1, <1>4, <1>8 DEF CollectorInv, Collected, Collector!Pairs, ReleasedTypesExact

(* Every call on GeoParquetTypeCollector, and release(), keeps it.         *)
LEMMA CollectorStep ==
  ASSUME CollectorInv, Collector!Next, op = "geoparquet_types", UNCHANGED op
  PROVE  CollectorInv'
BY CallReadMetaTypes, CallGeomStartTypes, CallOtherTypes, ReleaseTypes DEF Collector!Next

(***************************************************************************)
(* Theorems                                                                *)
(***************************************************************************)

(* What create_builder() makes has read nothing.                           *)
LEMMA InitAggregates == Init => AggregatesInv
<1>1. ASSUME op = "global_bounds", Bounder!Init
      PROVE  BounderInv
  <2>1. /\ dim = Unknown /\ active = "xyzm" /\ rowReleased = FALSE
        /\ xyzm = Bounder!NewBounder /\ xym = Bounder!NewBounder
        /\ seen = [k \in KindSet |-> {}] /\ ~RowIsNull
    BY <1>1 DEF Bounder!Init, Bounder!ReaderInit, Bounder!NewGlobalBounder, RowIsNull,
                KindSet, Bounder!Unknown, Unknown
  <2>2. Bounder!NewBounder \in BounderType
    BY OrdinateRange DEF Bounder!NewBounder, BounderType, Bounds
  <2>3. ASSUME NEW j \in Bounder!Slots
        PROVE  BoundsKind(j, RowMin(j), RowMax(j))
    <3>1. Bounder!XymMap[j] \in Bounder!Slots /\ Bounder!KindOf[j + 1] \in KindSet
      BY DEF Bounder!XymMap, Bounder!Slots, Bounder!KindOf, KindSet
    <3>2. RowMin(j) = Infinity /\ RowMax(j) = -Infinity
      BY <2>1, <3>1 DEF RowMin, RowMax, Bounder!NewBounder, Bounder!StdMin, Bounder!StdMax
    <3>3. Finite(Bounder!KindOf[j + 1]) = {}
      BY <2>1, <3>1 DEF Finite
    <3>4. QED
      BY <3>2, <3>3 DEF BoundsKind, Bounder!IsBoundOf
  <2>4. QED
    BY <2>1, <2>2, <2>3 DEF BounderInv, Unknown
<1>2. ASSUME op = "geoparquet_types", Collector!Init
      PROVE  CollectorInv
  BY <1>2 DEF Collector!Init, Collector!ReaderInit, Collector!NewCollector, CollectorInv,
              Collector!Pairs, ReleasedTypesExact, Collector!ReleasedTypesExact,
              Collector!Unknown, Unknown
<1>3. QED
  BY <1>1, <1>2 DEF Init, AggregatesInv

(* Only the operation that was asked for runs.                             *)
LEMMA AggregatesStep == AggregatesInv /\ [Next]_vars => AggregatesInv'
<1> SUFFICES ASSUME AggregatesInv, [Next]_vars
             PROVE  AggregatesInv'
  OBVIOUS
<1>1. CASE ComputeBounds
  <2>1. BounderInv'
    BY <1>1, BounderStep DEF AggregatesInv, ComputeBounds
  <2>2. QED
    BY <1>1, <2>1 DEF AggregatesInv, ComputeBounds
<1>2. CASE ComputeTypes
  <2>1. CollectorInv'
    BY <1>2, CollectorStep DEF AggregatesInv, ComputeTypes
  <2>2. QED
    BY <1>2, <2>1 DEF AggregatesInv, ComputeTypes
<1>3. CASE UNCHANGED vars
  <2>1. UNCHANGED <<op, phase, dim>> /\ UNCHANGED bounderVars /\ UNCHANGED collectorVars
    BY <1>3 DEF vars, readerVars
  <2>2. BounderInv => BounderInv'
    BY <2>1 DEF bounderVars, BounderInv, RowIsNull, BoundsKind, Finite, RowMin, RowMax
  <2>3. CollectorInv => CollectorInv'
    BY <2>1 DEF collectorVars, CollectorInv, Collected, ReleasedTypesExact,
                Collector!ReleasedTypesExact, Collector!NonEmpty, Collector!Pairs,
                Collector!TypesOf, Collector!MakeType
  <2>4. QED
    BY <2>1, <2>2, <2>3 DEF AggregatesInv
<1>4. QED
  BY <1>1, <1>2, <1>3 DEF Next

(* The invariant of both operations, always.                               *)
THEOREM AggregatesInvariant == Spec => []AggregatesInv
BY InitAggregates, AggregatesStep, PTL DEF Spec

(* Whatever dimensions the features of an array have and in whatever order *)
(* they come, with NaN ordinates between them, the row global_bounds       *)
(* releases holds for each of x, y, z and m the least and the greatest of  *)
(* the ordinates read, and (Infinity, -Infinity) where there was none      *)
(* (GlobalBounder::release() with its two maps of slots).                  *)
THEOREM ReleasedRowIsBox == Spec => []ReleasedIsBox
<1>1. AggregatesInv => ReleasedIsBox
  BY DEF AggregatesInv, BounderInv, RowIsNull, BoundsKind, Finite, ReleasedIsBox,
         Bounder!ReleasedIsBox
<1>2. QED
  BY <1>1, AggregatesInvariant, PTL

(* The row is NaN throughout exactly if a null feature was read and nulls  *)
(* do not count as empty, since an ordinate that is NaN never gets in.     *)
THEOREM ReleasedRowIsNull == Spec => []RowNullIffNull
<1>1. AggregatesInv => RowNullIffNull
  <2> SUFFICES ASSUME AggregatesInv, op = "global_bounds", rowReleased, ~RowIsNull
               PROVE  xyzm # Bounder!NullBounder
    BY DEF AggregatesInv, BounderInv, RowIsNull, RowNullIffNull, Bounder!RowNullIffNull
  <2>1. xyzm.min[0] \in Bounds
    BY DEF AggregatesInv, BounderInv, BounderType, Bounder!Slots
  <2>2. Bounder!NullBounder.min[0] = Infinity + 1
    BY OrdinateRange DEF Bounder!NullBounder, Bounder!Slots
  <2>3. QED
    BY <2>1, <2>2, OrdinateRange DEF Bounds
<1>2. QED
  BY <1>1, AggregatesInvariant, PTL

(* release() of GeoParquetTypeCollector never throws, and writes the types *)
(* of all features with include_empty, else those of the non-empty ones,   *)
(* or of the empty ones when there is nothing else; WKB whose type is not  *)
(* recognized has a type without a name.                                   *)
THEOREM ReleasedTypes == Spec => []ReleasedTypesExact
<1>1. AggregatesInv => ReleasedTypesExact
  BY DEF AggregatesInv, CollectorInv, ReleasedTypesExact
<1>2. QED
  BY <1>1, AggregatesInvariant, PTL
==============================================================================
