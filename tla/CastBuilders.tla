----------------------------- MODULE CastBuilders -----------------------------
(***************************************************************************)
(* The builders geoarrow_compute(op = "cast") can write to, as operators   *)
(* on records: PointArrayBuilder, LinestringArrayBuilder,                  *)
(* PolygonArrayBuilder, MultiArrayBuilder<Child> and the arrow-hpp list    *)
(* builders they own. A handler method is an operator that returns         *)
(* [res, b]: its Handler::Result (or "THROW") and the builder after it.    *)
(*                                                                         *)
(* Data is reduced to what decides whether the output is a valid Arrow     *)
(* array: validity bits, list offsets, and how many doubles were written.  *)
(* reserve() and shrink() change capacities only and are left out.         *)
(***************************************************************************)
EXTENDS Integers, Sequences

CONSTANTS
  IntMax,      (* INT32_MAX: list offsets are int32_t                       *)
  NullIsEmpty  (* the "null_is_empty" option                                *)

ASSUME BuilderAssumption == IntMax \in Nat /\ NullIsEmpty \in BOOLEAN

PointDims == {"XY", "XYZ", "XYM", "XYZM"}
CoordSize(d) ==
  CASE d = "XYZM" -> 4
    [] d \in {"XYZ", "XYM"} -> 3
    [] OTHER -> 2

Ret(r, builder) == [res |-> r, b |-> builder]

(***************************************************************************)
(* ListArrayBuilder: one validity bit per element and one offset more.     *)
(***************************************************************************)
NarrowNot(n) == n  \* (mutant) 64-bit value kept

Narrow(n) ==  \* int64_t to int32_t
  IF n \in (-IntMax - 1) .. IntMax THEN n
  ELSE ((n + IntMax + 1) % (2 * (IntMax + 1))) - (IntMax + 1)

NewList == [valid |-> << >>, offsets |-> <<0>>]

(* (mutant) No offset for a null element.                                  *)
FinishElementNoOffset(l, childSize, notNull) ==
  [valid |-> Append(l.valid, notNull),
   offsets |-> IF notNull THEN Append(l.offsets, Narrow(childSize)) ELSE l.offsets]

FinishElement(l, childSize, notNull) ==
  [valid |-> Append(l.valid, notNull), offsets |-> Append(l.offsets, Narrow(childSize))]

(***************************************************************************)
(* PointArrayBuilder: four fixed-size list builders, of which `active` is  *)
(* builder_. Of ranges_ only its size() is ever read.                      *)
(***************************************************************************)
NewPoint ==
  [dims |-> "UNKNOWN", active |-> "XY", size |-> 0, ranges |-> 0,
   sub |-> [d \in PointDims |-> [valid |-> << >>, doubles |-> 0]]]

AppendPoints(s, n, doubles, notNull) ==
  [valid |-> s.valid \o [i \in 1 .. n |-> notNull], doubles |-> s.doubles + doubles]

WritePoints(p, n, doubles, notNull) ==
  [dims |-> p.dims, active |-> p.active, size |-> p.size + n, ranges |-> p.ranges,
   sub |-> [p.sub EXCEPT ![p.active] = AppendPoints(@, n, doubles, notNull)]]

(* (mutant) Only the first announcement selects a sub-builder.             *)
PointNewDimensionsOnce(p, d) ==
  IF d = p.dims \/ p.ranges > 0 THEN p
  ELSE [dims |-> d, active |-> IF d \in PointDims THEN d ELSE "XY", size |-> p.size,
        ranges |-> p.ranges + 1, sub |-> p.sub]

PointNewDimensions(p, d) ==
  IF d = p.dims THEN p
  ELSE [dims |-> d, active |-> IF d \in PointDims THEN d ELSE "XY", size |-> p.size,
        ranges |-> p.ranges + 1, sub |-> p.sub]

PointNullFeat(p) ==
  Ret("ABORT_FEATURE", WritePoints(p, 1, CoordSize(p.active), NullIsEmpty))

PointCoords(p, n, coordSize) == WritePoints(p, n, n * coordSize, TRUE)

(* (mutant) An empty geometry writes no NaN point.                         *)
PointGeomStartNoNaN(p, t, sz) ==
  IF sz = 0 \/ t = "POINT" \/ (sz = 1 /\ t = "MULTIPOINT") THEN Ret("CONTINUE", p)
  ELSE Ret("THROW", p)

PointGeomStart(p, t, sz) ==
  IF sz = 0 THEN Ret("CONTINUE", PointCoords(p, 1, CoordSize(p.active)))
  ELSE IF t = "POINT" \/ (sz = 1 /\ t = "MULTIPOINT") THEN Ret("CONTINUE", p)
  ELSE Ret("THROW", p)

(***************************************************************************)
(* LinestringArrayBuilder and PolygonArrayBuilder count their elements     *)
(* twice: size_ of the builder itself (what a parent list reads) and the   *)
(* elements of the ListArrayBuilder they own.                              *)
(***************************************************************************)
NewLinestring == [size |-> 0, list |-> NewList, points |-> NewPoint]

LinestringFinish(b, notNull) ==
  [size |-> b.size + 1, list |-> FinishElement(b.list, b.points.size, notNull),
   points |-> b.points]

(* (mutant) null_feat() answers CONTINUE, so feat_end() is called as well. *)
LinestringNullFeatContinues(b) == Ret("CONTINUE", LinestringFinish(b, FALSE))

LinestringNullFeat(b) == Ret("ABORT_FEATURE", LinestringFinish(b, FALSE))

(* (mutant) size_ is not incremented for an empty linestring.              *)
LinestringGeomStartNoCount(b, t, sz) ==
  IF sz = 0
  THEN Ret("ABORT_FEATURE", [b EXCEPT !.list = FinishElement(@, b.points.size, TRUE)])
  ELSE IF t = "LINESTRING" \/ (sz = 1 /\ t = "MULTILINESTRING") THEN Ret("CONTINUE", b)
  ELSE Ret("THROW", b)

LinestringGeomStart(b, t, sz) ==
  IF sz = 0 THEN Ret("ABORT_FEATURE", LinestringFinish(b, TRUE))
  ELSE IF t = "LINESTRING" \/ (sz = 1 /\ t = "MULTILINESTRING") THEN Ret("CONTINUE", b)
  ELSE Ret("THROW", b)

LinestringFeatEnd(b) == LinestringFinish(b, TRUE)

NewPolygon == [size |-> 0, list |-> NewList, rings |-> NewList, points |-> NewPoint]

PolygonFinish(b, notNull) ==
  [size |-> b.size + 1, list |-> FinishElement(b.list, Len(b.rings.valid), notNull),
   rings |-> b.rings, points |-> b.points]

PolygonNullFeat(b) == Ret("ABORT_FEATURE", PolygonFinish(b, FALSE))

PolygonGeomStart(b, t, sz) ==
  IF sz = 0 THEN Ret("ABORT_FEATURE", PolygonFinish(b, TRUE))
  ELSE IF t = "POLYGON" \/ (sz = 1 /\ t = "MULTIPOLYGON") THEN Ret("CONTINUE", b)
  ELSE Ret("THROW", b)

PolygonRingEnd(b) ==
  [size |-> b.size, list |-> b.list,
   rings |-> FinishElement(b.rings, b.points.size, TRUE), points |-> b.points]

PolygonFeatEnd(b) == PolygonFinish(b, TRUE)

(***************************************************************************)
(* Dispatch on the class of a simple builder: a template argument of       *)
(* MultiArrayBuilder, a virtual call otherwise. Methods a class does not   *)
(* override are Handler's, which do nothing.                               *)
(***************************************************************************)
NewSimple(k) ==
  CASE k = "POINT" -> NewPoint
    [] k = "LINESTRING" -> NewLinestring
    [] k = "POLYGON" -> NewPolygon

SimpleNullFeat(k, b) ==
  CASE k = "POINT" -> PointNullFeat(b)
    [] k = "LINESTRING" -> LinestringNullFeat(b)
    [] k = "POLYGON" -> PolygonNullFeat(b)

SimpleGeomStart(k, b, t, sz) ==
  CASE k = "POINT" -> PointGeomStart(b, t, sz)
    [] k = "LINESTRING" -> LinestringGeomStart(b, t, sz)
    [] k = "POLYGON" -> PolygonGeomStart(b, t, sz)

SimpleFeatEnd(k, b) ==
  CASE k = "POINT" -> b
    [] k = "LINESTRING" -> LinestringFeatEnd(b)
    [] k = "POLYGON" -> PolygonFeatEnd(b)

SimpleRingEnd(k, b) == IF k = "POLYGON" THEN PolygonRingEnd(b) ELSE b

PointsOf(k, b) == IF k = "POINT" THEN b ELSE b.points

WithPoints(k, b, p) ==
  CASE k = "POINT" -> p
    [] k = "LINESTRING" -> [size |-> b.size, list |-> b.list, points |-> p]
    [] k = "POLYGON" -> [size |-> b.size, list |-> b.list, rings |-> b.rings, points |-> p]

SimpleNewDimensions(k, b, d) == WithPoints(k, b, PointNewDimensions(PointsOf(k, b), d))

SimpleCoords(k, b, n, coordSize) ==
  WithPoints(k, b, PointCoords(PointsOf(k, b), n, coordSize))

(***************************************************************************)
(* MultiArrayBuilder<Child, ParentType, ChildType>; k is ChildType.        *)
(***************************************************************************)
ChildType(p) ==
  CASE p = "MULTIPOINT"      -> "POINT"
    [] p = "MULTILINESTRING" -> "LINESTRING"
    [] p = "MULTIPOLYGON"    -> "POLYGON"

MultiRec(level, list, child) == [level |-> level, list |-> list, child |-> child]

NewMulti(p) == MultiRec(0, NewList, NewSimple(ChildType(p)))

WithChild(b, child) == MultiRec(b.level, b.list, child)

MultiFinish(b, level, notNull) ==
  MultiRec(level, FinishElement(b.list, b.child.size, notNull), b.child)

MultiFeatStartStale(b) == b  \* (mutant) level_ of the last feature is kept

MultiFeatStart(b) == MultiRec(0, b.list, b.child)

MultiNullFeat(b) == Ret("ABORT_FEATURE", MultiFinish(b, b.level, FALSE))

(* geom_start() handed to the child. The child's result is ignored,        *)
(* whatever it is; an exception of the child still propagates.             *)
MultiPass(b, levels, child) ==
  Ret(IF child.res = "THROW" THEN "THROW" ELSE "CONTINUE",
      MultiRec(b.level + levels, b.list, child.b))

(* (mutant) A promoted child geometry does not count as a level.           *)
MultiGeomStartOneLevel(p, b, t, sz) ==
  LET child == SimpleGeomStart(ChildType(p), b.child, t, sz)
  IN  IF b.level >= 1 THEN MultiPass(b, 1, child)
      ELSE IF sz = 0 THEN Ret("ABORT_FEATURE", MultiFinish(b, b.level + 1, TRUE))
      ELSE IF t = p THEN Ret("CONTINUE", MultiRec(b.level + 1, b.list, b.child))
      ELSE IF t = ChildType(p) THEN MultiPass(b, 1, child)
      ELSE Ret("THROW", b)

MultiGeomStart(p, b, t, sz) ==
  LET child == SimpleGeomStart(ChildType(p), b.child, t, sz)
  IN  IF b.level >= 1 THEN MultiPass(b, 1, child)
      ELSE IF sz = 0 THEN Ret("ABORT_FEATURE", MultiFinish(b, b.level + 1, TRUE))
      ELSE IF t = p THEN Ret("CONTINUE", MultiRec(b.level + 1, b.list, b.child))
      ELSE IF t = ChildType(p) THEN MultiPass(b, 2, child)
      ELSE Ret("THROW", b)

(* (mutant) The end of the parent geometry ends a child feature as well.   *)
MultiGeomEndAlways(p, b) ==
  MultiRec(b.level - 1, b.list,
           IF b.level - 1 >= 0 THEN SimpleFeatEnd(ChildType(p), b.child) ELSE b.child)

MultiGeomEnd(p, b) ==
  MultiRec(b.level - 1, b.list,
           IF b.level - 1 > 0 THEN SimpleFeatEnd(ChildType(p), b.child) ELSE b.child)

MultiFeatEnd(b) == MultiFinish(b, b.level, TRUE)

(***************************************************************************)
(* Types of the builders.                                                  *)
(***************************************************************************)
OffsetSet == (-IntMax - 1) .. IntMax
ListType == [valid : Seq(BOOLEAN), offsets : Seq(OffsetSet)]
PointType ==
  [dims : PointDims \cup {"UNKNOWN"}, active : PointDims, size : Nat, ranges : Nat,
   sub : [PointDims -> [valid : Seq(BOOLEAN), doubles : Nat]]]
LinestringType == [size : Nat, list : ListType, points : PointType]
PolygonType == [size : Nat, list : ListType, rings : ListType, points : PointType]
SimpleType(k) ==
  CASE k = "POINT" -> PointType
    [] k = "LINESTRING" -> LinestringType
    [] k = "POLYGON" -> PolygonType
MultiType(p) == [level : Nat, list : ListType, child : SimpleType(ChildType(p))]
===============================================================================
