------------------------------- MODULE CastArray -------------------------------
(***************************************************************************)
(* geoarrow_compute(op = "cast"): an ArrayView (FeatureReader) reads one   *)
(* array into one of the cast builders (CastBuilders), which is then       *)
(* released as an Arrow array. One action per call on the handler.         *)
(***************************************************************************)
EXTENDS FeatureReader, CastBuilders

CONSTANT Targets  (* the geometry types cast to                            *)

ASSUME TargetAssumption == Targets \subseteq SimpleTypes \cup MultiTypes

VARIABLES
  target,   (* the class of the builder create_builder() made               *)
  b,        (* that builder                                                 *)
  released  (* "no", "yes" (release() moved the array out) or "threw"       *)

vars == <<readerVars, target, b, released>>

Multi == target \in MultiTypes

(* Handler methods of the builder in use (virtual calls).                  *)
NullFeatCall == IF Multi THEN MultiNullFeat(b) ELSE SimpleNullFeat(target, b)

GeomStartCall(x, t, sz) ==
  IF Multi THEN MultiGeomStart(target, x, t, sz) ELSE SimpleGeomStart(target, x, t, sz)

NewDimensionsCall(d) ==
  IF Multi THEN WithChild(b, SimpleNewDimensions(ChildType(target), b.child, d))
  ELSE SimpleNewDimensions(target, b, d)

CoordsCall(n) ==
  IF Multi THEN WithChild(b, SimpleCoords(ChildType(target), b.child, n, CoordSize(dim)))
  ELSE SimpleCoords(target, b, n, CoordSize(dim))

RingEndCall ==
  IF Multi THEN WithChild(b, SimpleRingEnd(ChildType(target), b.child))
  ELSE SimpleRingEnd(target, b)

(* The fixed-size list array of coordinates at the bottom of the output.   *)
Points == IF Multi THEN PointsOf(ChildType(target), b.child) ELSE PointsOf(target, b)

Init ==
  /\ ReaderInit
  /\ target \in Targets
  /\ b = IF Multi THEN NewMulti(target) ELSE NewSimple(target)
  /\ released = "no"

CallReadMeta ==
  \E t \in GeometryTypes \cup {Unknown}, d \in Dims \cup {Unknown} :
    /\ ReadMeta(t, d)
    /\ b' = NewDimensionsCall(d)
    /\ UNCHANGED <<target, released>>

CallFeatStart ==
  /\ FeatStart
  /\ b' = IF Multi THEN MultiFeatStart(b) ELSE b
  /\ UNCHANGED <<target, released>>

CallNullFeat ==
  /\ NullFeat(NullFeatCall.res)
  /\ b' = NullFeatCall.b
  /\ UNCHANGED <<target, released>>

CallGeomStart ==
  \E t \in GeometryTypes \cup {Unrecognized}, sz \in -1 .. MaxParts, d \in Dims :
    LET x == IF d = dim THEN b ELSE NewDimensionsCall(d)
        c == GeomStartCall(x, t, sz)
    IN  /\ GeomStart(t, sz, d, c.res)
        /\ b' = c.b
        /\ UNCHANGED <<target, released>>

(* ring_start() only reserves.                                             *)
CallRingStart ==
  /\ \E sz \in -1 .. MaxParts : RingStart(sz)
  /\ UNCHANGED <<target, b, released>>

CallCoords ==
  \E n \in 1 .. MaxParts :
    /\ Coords(n)
    /\ b' = CoordsCall(n)
    /\ UNCHANGED <<target, released>>

CallRingEnd ==
  /\ RingEnd
  /\ b' = RingEndCall
  /\ UNCHANGED <<target, released>>

CallGeomEnd ==
  /\ GeomEnd
  /\ b' = IF Multi THEN MultiGeomEnd(target, b) ELSE b
  /\ UNCHANGED <<target, released>>

CallFeatEnd ==
  /\ FeatEnd
  /\ b' = IF Multi THEN MultiFeatEnd(b) ELSE SimpleFeatEnd(target, b)
  /\ UNCHANGED <<target, released>>

CallReadDone ==
  /\ ReadDone
  /\ UNCHANGED <<target, b, released>>

(* (mutant) A range check that lets one change of dimensions through.      *)
ReleaseAllowsChange ==
  /\ phase = "read"
  /\ released = "no"
  /\ released' = IF Points.ranges > 2 THEN "threw" ELSE "yes"
  /\ UNCHANGED <<readerVars, target, b>>

(* release() of the builder reaches PointArrayBuilder::release(), which    *)
(* refuses an array whose dimensions changed more than once.               *)
Release ==
  /\ phase = "read"
  /\ released = "no"
  /\ released' = IF Points.ranges > 1 THEN "threw" ELSE "yes"
  /\ UNCHANGED <<readerVars, target, b>>

Next ==
  \/ CallReadMeta
  \/ CallFeatStart
  \/ CallNullFeat
  \/ CallGeomStart
  \/ CallRingStart
  \/ CallCoords
  \/ CallRingEnd
  \/ CallGeomEnd
  \/ CallFeatEnd
  \/ CallReadDone
  \/ Release

Spec == Init /\ [][Next]_vars

(***************************************************************************)
(* Reading the output back, level by level, as a consumer of the Arrow     *)
(* array would.                                                            *)
(***************************************************************************)
ElementSize(l, i) == l.offsets[i + 1] - l.offsets[i]

ElementLines(outer, inner, i) ==
  [j \in 1 .. ElementSize(outer, i) |-> ElementSize(inner, outer.offsets[i] + j)]

Element(i) ==
  CASE target \in {"LINESTRING", "MULTIPOINT"} -> ElementSize(b.list, i)
    [] target = "POLYGON" -> ElementLines(b.list, b.rings, i)
    [] target = "MULTILINESTRING" -> ElementLines(b.list, b.child.list, i)
    [] target = "MULTIPOLYGON" ->
         [j \in 1 .. ElementSize(b.list, i) |->
            ElementLines(b.child.list, b.child.rings, b.list.offsets[i] + j)]

(* The element a feature must become: a single part is the whole value of  *)
(* a simple target and the only part of a multi target, NULL is empty.     *)
Expected(f) ==
  LET parts == f.parts
      first == IF parts = << >> THEN << >> ELSE parts[1]
  IN  CASE target = "LINESTRING" -> IF first = << >> THEN 0 ELSE first[1]
        [] target = "POLYGON" -> first
        [] target = "MULTIPOINT" -> Len(parts)
        [] target = "MULTILINESTRING" -> [i \in 1 .. Len(parts) |-> parts[i][1]]
        [] target = "MULTIPOLYGON" -> parts

Outer == IF target = "POINT" THEN Points.sub[Points.active] ELSE b.list

AtRest == phase \in {"between", "read"}

(* The nested lists of the output, outermost first.                        *)
Lists ==
  CASE target = "POINT" -> << >>
    [] target \in {"LINESTRING", "MULTIPOINT"} -> <<b.list>>
    [] target = "POLYGON" -> <<b.list, b.rings>>
    [] target = "MULTILINESTRING" -> <<b.list, b.child.list>>
    [] target = "MULTIPOLYGON" -> <<b.list, b.child.list, b.child.rings>>

(* The length of the array below the k-th list.                            *)
LengthBelow(k) ==
  IF k < Len(Lists) THEN Len(Lists[k + 1].valid)
  ELSE Len(Points.sub[Points.active].valid)

(***************************************************************************)
(* Types                                                                   *)
(***************************************************************************)
BuilderType == IF Multi THEN MultiType(target) ELSE SimpleType(target)

(* Every variable has its type; for the builder this says that offsets are *)
(* int32_t and that no counter becomes negative (level_ in particular,     *)
(* which geom_end() decrements).                                           *)
TypeOK ==
  /\ ReaderTypeOK
  /\ target \in Targets
  /\ released \in {"no", "yes", "threw"}
  /\ b \in BuilderType

(***************************************************************************)
(* Safety                                                                  *)
(***************************************************************************)

(* Between two features a list output has exactly one element per feature  *)
(* read, null exactly where the feature was: every path through the        *)
(* callbacks (feat_end(), or ABORT_FEATURE from null_feat() or             *)
(* geom_start()) finishes the element once.                                *)
OneElementPerFeature ==
  AtRest /\ target # "POINT" =>
    /\ Len(b.list.valid) = Len(features)
    /\ \A i \in 1 .. Len(features) : b.list.valid[i] = ~features[i].null

(* A point array has no feature-level bookkeeping: null_feat(), an empty   *)
(* geom_start() and each coordinate write a point. Still every feature     *)
(* writes exactly one, counting the four sub-builders together (size_).    *)
OnePointPerFeature ==
  AtRest /\ target = "POINT" => b.size = Len(features)

(* Each finished element, decoded through the nested offsets, is the       *)
(* feature that was read: no part, ring or vertex is lost, repeated or     *)
(* attributed to a neighbour. Only while no child is longer than INT32_MAX.*)
InRange == \A k \in 1 .. Len(Lists) : LengthBelow(k) <= IntMax

ElementsMatch ==
  AtRest /\ target # "POINT" /\ Points.ranges <= 1 /\ InRange =>
    \A i \in 1 .. Len(features) : Element(i) = Expected(features[i])

(* A released array satisfies the Arrow layout: at each level one offset   *)
(* more than elements, starting at 0, never decreasing, the last one equal *)
(* to the length of the child; and the coordinate buffer holds item_size   *)
(* doubles per point.                                                      *)
WellFormed(l, childLength) ==
  /\ Len(l.offsets) = Len(l.valid) + 1
  /\ l.offsets[1] = 0
  /\ \A i \in 1 .. Len(l.valid) : l.offsets[i] <= l.offsets[i + 1]
  /\ l.offsets[Len(l.offsets)] = childLength

ReleasedValid ==
  released = "yes" /\ InRange =>
    /\ \A k \in 1 .. Len(Lists) : WellFormed(Lists[k], LengthBelow(k))
    /\ LET p == Points.sub[Points.active]
       IN  p.doubles = CoordSize(Points.active) * Len(p.valid)

(* level_ of a MultiArrayBuilder is the number of open geometries, plus    *)
(* one while a bare child geometry (a POINT among MULTIPOINTs) is promoted:*)
(* the child's feature is ended exactly when a child geometry ends.        *)
OpenGeometries == IF Top.type = "RING" THEN Len(stack) - 1 ELSE Len(stack)

LevelTracksDepth ==
  Multi /\ phase = "geometry" =>
    b.level = OpenGeometries + (IF stack[1].type = ChildType(target) THEN 1 ELSE 0)

(***************************************************************************)
(* What the tests expect and the code does not do: see the README.         *)
(***************************************************************************)

(* tests/testthat/test-compute.R, "can cast all null/empty examples":      *)
(* is.na() of the released array is is.na() of the source.                 *)
ReleasedNullsMatch ==
  released = "yes" => Len(Outer.valid) = Len(features)

===============================================================================
