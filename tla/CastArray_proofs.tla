---------------------------- MODULE CastArray_proofs ----------------------------
(***************************************************************************)
(* Theorems about casting an array: for any reader, any target, any        *)
(* bounds, any INT32_MAX and any data, the builder keeps its types, the    *)
(* level of a multi-geometry builder follows the depth of the geometry,    *)
(* every feature read is one element of the output, what is released is    *)
(* valid, and its elements are the features that were read.                *)
(*                                                                         *)
(* First the builders' operators (what each handler method does to its     *)
(* builder), then one lemma per call, then the theorems.                   *)
(***************************************************************************)
EXTENDS CastArray, FeatureReader_proofs

(***************************************************************************)
(* Lists                                                                   *)
(***************************************************************************)

(* A conversion to int32_t gives an int32_t.                               *)
LEMMA NarrowType ==
  ASSUME NEW n \in Int
  PROVE  Narrow(n) \in OffsetSet
<1> DEFINE w == 2 * (IntMax + 1)
<1>1. IntMax \in Nat
  BY BuilderAssumption
<1>2. CASE n \in (-IntMax - 1) .. IntMax
  BY <1>2 DEF Narrow, OffsetSet
<1>3. CASE n \notin (-IntMax - 1) .. IntMax
  <2>1. Narrow(n) = ((n + IntMax + 1) % w) - (IntMax + 1)
    BY <1>3 DEF Narrow
  <2>2. w \in Nat \ {0} /\ n + IntMax + 1 \in Int
    BY <1>1
  <2>3. ASSUME NEW m \in Int, NEW d \in Nat \ {0}
        PROVE  m % d \in 0 .. d - 1
    OBVIOUS
  <2>4. (n + IntMax + 1) % w \in 0 .. w - 1
    BY <2>2, <2>3
  <2>5. QED
    BY <1>1, <2>1, <2>4 DEF OffsetSet
<1>4. QED
  BY <1>2, <1>3

(* An empty ListArrayBuilder is well typed.                                *)
LEMMA NewListType == NewList \in ListType
BY BuilderAssumption DEF NewList, ListType, OffsetSet

(* The elements of a list are those of fs, null where fs is.               *)
Matches(l, fs) ==
  /\ Len(l.valid) = Len(fs)
  /\ \A i \in 1 .. Len(fs) : l.valid[i] = ~fs[i].null

(* Finishing an element adds exactly one, with the validity asked for.     *)
LEMMA FinishElementType ==
  ASSUME NEW l \in ListType, NEW n \in Int, NEW notNull \in BOOLEAN
  PROVE  /\ FinishElement(l, n, notNull) \in ListType
         /\ FinishElement(l, n, notNull).valid = Append(l.valid, notNull)
<1>1. l.valid \in Seq(BOOLEAN) /\ l.offsets \in Seq(OffsetSet)
  BY DEF ListType
<1>2. Append(l.valid, notNull) \in Seq(BOOLEAN)
  BY <1>1, AppendProperties
<1>3. Append(l.offsets, Narrow(n)) \in Seq(OffsetSet)
  BY <1>1, NarrowType, AppendProperties
<1>4. QED
  BY <1>2, <1>3 DEF FinishElement, ListType

(* finish_element() extends a list that matches the features read by one   *)
(* more feature.                                                           *)
LEMMA FinishElementMatches ==
  ASSUME NEW l \in ListType, NEW fs \in Seq(FeatureType), Matches(l, fs),
         NEW f \in FeatureType, NEW n \in Int
  PROVE  Matches(FinishElement(l, n, ~f.null), Append(fs, f))
<1> DEFINE v == Append(l.valid, ~f.null)
           gs == Append(fs, f)
<1>1. FinishElement(l, n, ~f.null).valid = v
  BY FinishElementType DEF FeatureType
<1>2. l.valid \in Seq(BOOLEAN) /\ Len(l.valid) = Len(fs) /\ Len(fs) \in Nat
  BY LenProperties DEF ListType, Matches
<1>3. /\ Len(v) = Len(fs) + 1 /\ v[Len(fs) + 1] = ~f.null
      /\ \A i \in 1 .. Len(fs) : v[i] = l.valid[i]
  BY <1>2, AppendProperties DEF FeatureType
<1>4. /\ Len(gs) = Len(fs) + 1 /\ gs[Len(fs) + 1] = f
      /\ \A i \in 1 .. Len(fs) : gs[i] = fs[i]
  BY <1>2, AppendProperties
<1>5. ASSUME NEW i \in 1 .. Len(gs)
      PROVE  v[i] = ~gs[i].null
  <2>1. CASE i = Len(fs) + 1
    BY <2>1, <1>3, <1>4
  <2>2. CASE i \in 1 .. Len(fs)
    BY <2>2, <1>3, <1>4 DEF Matches
  <2>3. QED
    BY <1>2, <1>4, <1>5, <2>1, <2>2
<1>6. QED
  BY <1>1, <1>3, <1>4, <1>5 DEF Matches

(***************************************************************************)
(* Points                                                                  *)
(***************************************************************************)
LEMMA CoordSizeType == \A d : CoordSize(d) \in Nat
BY DEF CoordSize

(* Writing points keeps a PointArrayBuilder well typed.                    *)
LEMMA WritePointsType ==
  ASSUME NEW p \in PointType, NEW n \in Nat, NEW doubles \in Nat, NEW notNull \in BOOLEAN
  PROVE  WritePoints(p, n, doubles, notNull) \in PointType
<1> DEFINE ST == [valid : Seq(BOOLEAN), doubles : Nat]
           s == p.sub[p.active]
<1>1. /\ p.active \in PointDims /\ p.sub \in [PointDims -> ST]
      /\ p.size \in Nat /\ p.ranges \in Nat /\ p.dims \in PointDims \cup {"UNKNOWN"}
  BY DEF PointType
<1>2. s \in ST
  BY <1>1
<1>3. s.valid \in Seq(BOOLEAN) /\ s.doubles \in Nat
  BY <1>2
<1>4. [i \in 1 .. n |-> notNull] \in Seq(BOOLEAN)
  BY IsASeq
<1>5. AppendPoints(s, n, doubles, notNull) \in ST
  <2>1. s.valid \o [i \in 1 .. n |-> notNull] \in Seq(BOOLEAN)
    BY <1>3, <1>4, ConcatProperties
  <2>2. QED
    BY <1>3, <2>1 DEF AppendPoints
<1>6. [p.sub EXCEPT ![p.active] = AppendPoints(@, n, doubles, notNull)] \in [PointDims -> ST]
  BY <1>1, <1>5
<1>7. QED
  BY <1>1, <1>6 DEF WritePoints, PointType

(* An empty PointArrayBuilder is well typed.                               *)
LEMMA NewPointType == NewPoint \in PointType
BY DEF NewPoint, PointType, PointDims

(* new_dimensions() of PointArrayBuilder keeps its type.                   *)
LEMMA PointNewDimensionsType ==
  ASSUME NEW p \in PointType, NEW d
  PROVE  d \in PointDims \cup {"UNKNOWN"} => PointNewDimensions(p, d) \in PointType
<1>1. /\ p.active \in PointDims /\ p.ranges \in Nat /\ p.size \in Nat
      /\ p.sub \in [PointDims -> [valid : Seq(BOOLEAN), doubles : Nat]]
  BY DEF PointType
<1>2. "XY" \in PointDims
  BY DEF PointDims
<1>3. QED
  BY <1>1, <1>2 DEF PointNewDimensions, PointType

(* coords() of PointArrayBuilder keeps its type.                           *)
LEMMA PointCoordsType ==
  ASSUME NEW p \in PointType, NEW n \in Nat, NEW d
  PROVE  PointCoords(p, n, CoordSize(d)) \in PointType
<1>1. CoordSize(d) \in Nat /\ n * CoordSize(d) \in Nat
  BY CoordSizeType
<1>2. QED
  BY <1>1, WritePointsType DEF PointCoords

(* null_feat() of PointArrayBuilder keeps its type and ends the feature.   *)
LEMMA PointNullFeatType ==
  ASSUME NEW p \in PointType
  PROVE  PointNullFeat(p).b \in PointType /\ PointNullFeat(p).res = "ABORT_FEATURE"
BY WritePointsType, CoordSizeType, BuilderAssumption DEF PointNullFeat, Ret

(* geom_start() of PointArrayBuilder keeps its type; it never ends the     *)
(* feature.                                                                *)
LEMMA PointGeomStartType ==
  ASSUME NEW p \in PointType, NEW t, NEW sz \in Int
  PROVE  /\ PointGeomStart(p, t, sz).b \in PointType
         /\ PointGeomStart(p, t, sz).res \in Results
BY PointCoordsType DEF PointGeomStart, Ret, Results

(***************************************************************************)
(* Builders of lists. Each answer of a callback to its reader either       *)
(* finishes an element and says ABORT_FEATURE, or leaves the list alone.   *)
(***************************************************************************)
Finished(y, x, notNull) == \E n \in Int : y.list = FinishElement(x.list, n, notNull)

Answers(c, x, notNull) ==
  /\ c.res \in {"CONTINUE", "ABORT_FEATURE", "THROW"}
  /\ IF c.res = "ABORT_FEATURE" THEN Finished(c.b, x, notNull) ELSE c.b.list = x.list

(* Finishing a linestring keeps the type and adds one element to its list. *)
LEMMA LinestringFinishType ==
  ASSUME NEW x \in LinestringType, NEW notNull \in BOOLEAN
  PROVE  /\ LinestringFinish(x, notNull) \in LinestringType
         /\ Finished(LinestringFinish(x, notNull), x, notNull)
<1>1. /\ x.list \in ListType /\ x.points \in PointType
      /\ x.size \in Nat /\ x.points.size \in Int
  BY DEF LinestringType, PointType
<1>2. FinishElement(x.list, x.points.size, notNull) \in ListType
  BY <1>1, FinishElementType
<1>3. QED
  BY <1>1, <1>2 DEF LinestringFinish, LinestringType, Finished

(* Finishing a polygon keeps the type and adds one element to its outer    *)
(* list.                                                                   *)
LEMMA PolygonFinishType ==
  ASSUME NEW x \in PolygonType, NEW notNull \in BOOLEAN
  PROVE  /\ PolygonFinish(x, notNull) \in PolygonType
         /\ Finished(PolygonFinish(x, notNull), x, notNull)
<1>1. /\ x.list \in ListType /\ x.rings \in ListType /\ x.points \in PointType
      /\ x.size \in Nat
  BY DEF PolygonType
<1>2. Len(x.rings.valid) \in Int
  <2>1. x.rings.valid \in Seq(BOOLEAN)
    BY <1>1 DEF ListType
  <2>2. QED
    BY <2>1, LenProperties
<1>3. FinishElement(x.list, Len(x.rings.valid), notNull) \in ListType
  BY <1>1, <1>2, FinishElementType
<1>4. QED
  BY <1>1, <1>2, <1>3 DEF PolygonFinish, PolygonType, Finished

(* geom_start() of LinestringArrayBuilder finishes the element exactly if  *)
(* it ends the feature.                                                    *)
LEMMA LinestringGeomStartType ==
  ASSUME NEW x \in LinestringType, NEW t, NEW sz \in Int
  PROVE  /\ LinestringGeomStart(x, t, sz).b \in LinestringType
         /\ Answers(LinestringGeomStart(x, t, sz), x, TRUE)
BY LinestringFinishType DEF LinestringGeomStart, Ret, Answers

(* geom_start() of PolygonArrayBuilder finishes the element exactly if it  *)
(* ends the feature.                                                       *)
LEMMA PolygonGeomStartType ==
  ASSUME NEW x \in PolygonType, NEW t, NEW sz \in Int
  PROVE  /\ PolygonGeomStart(x, t, sz).b \in PolygonType
         /\ Answers(PolygonGeomStart(x, t, sz), x, TRUE)
BY PolygonFinishType DEF PolygonGeomStart, Ret, Answers

(* ring_end() of PolygonArrayBuilder leaves the outer list alone.          *)
LEMMA PolygonRingEndType ==
  ASSUME NEW x \in PolygonType
  PROVE  PolygonRingEnd(x) \in PolygonType /\ PolygonRingEnd(x).list = x.list
<1>1. /\ x.list \in ListType /\ x.rings \in ListType /\ x.points \in PointType
      /\ x.size \in Nat /\ x.points.size \in Int
  BY DEF PolygonType, PointType
<1>2. FinishElement(x.rings, x.points.size, TRUE) \in ListType
  BY <1>1, FinishElementType
<1>3. QED
  BY <1>1, <1>2 DEF PolygonRingEnd, PolygonType

(***************************************************************************)
(* The simple builders together.                                           *)
(***************************************************************************)
LEMMA SimpleNewType ==
  ASSUME NEW k \in SimpleTypes
  PROVE  /\ NewSimple(k) \in SimpleType(k)
         /\ k # "POINT" => NewSimple(k).list = NewList
<1>1. NewLinestring \in LinestringType /\ NewLinestring.list = NewList
  BY NewListType, NewPointType DEF NewLinestring, LinestringType
<1>2. NewPolygon \in PolygonType /\ NewPolygon.list = NewList
  BY NewListType, NewPointType DEF NewPolygon, PolygonType
<1>3. CASE k = "POINT"
  BY <1>3, NewPointType DEF NewSimple, SimpleType
<1>4. CASE k = "LINESTRING"
  BY <1>1, <1>4 DEF NewSimple, SimpleType
<1>5. CASE k = "POLYGON"
  BY <1>2, <1>5 DEF NewSimple, SimpleType
<1>6. QED
  BY <1>3, <1>4, <1>5 DEF SimpleTypes

(* null_feat() of every simple builder ends the feature; list builders add *)
(* a null element.                                                         *)
LEMMA SimpleNullFeatType ==
  ASSUME NEW k \in SimpleTypes, NEW x \in SimpleType(k)
  PROVE  /\ SimpleNullFeat(k, x).b \in SimpleType(k)
         /\ SimpleNullFeat(k, x).res \in Results
         /\ k # "POINT" => Answers(SimpleNullFeat(k, x), x, FALSE)
<1>1. CASE k = "POINT"
  BY <1>1, PointNullFeatType DEF SimpleNullFeat, SimpleType, Results
<1>2. CASE k = "LINESTRING"
  BY <1>2, LinestringFinishType
     DEF SimpleNullFeat, LinestringNullFeat, SimpleType, Ret, Answers, Results
<1>3. CASE k = "POLYGON"
  BY <1>3, PolygonFinishType
     DEF SimpleNullFeat, PolygonNullFeat, SimpleType, Ret, Answers, Results
<1>4. QED
  BY <1>1, <1>2, <1>3 DEF SimpleTypes

(* geom_start() of every simple builder adds an element exactly if it ends *)
(* the feature.                                                            *)
LEMMA SimpleGeomStartType ==
  ASSUME NEW k \in SimpleTypes, NEW x \in SimpleType(k), NEW t, NEW sz \in Int
  PROVE  /\ SimpleGeomStart(k, x, t, sz).b \in SimpleType(k)
         /\ SimpleGeomStart(k, x, t, sz).res \in Results
         /\ k # "POINT" => Answers(SimpleGeomStart(k, x, t, sz), x, TRUE)
<1>1. CASE k = "POINT"
  BY <1>1, PointGeomStartType DEF SimpleGeomStart, SimpleType
<1>2. CASE k = "LINESTRING"
  BY <1>2, LinestringGeomStartType DEF SimpleGeomStart, SimpleType, Answers, Results
<1>3. CASE k = "POLYGON"
  BY <1>3, PolygonGeomStartType DEF SimpleGeomStart, SimpleType, Answers, Results
<1>4. QED
  BY <1>1, <1>2, <1>3 DEF SimpleTypes

(* feat_end() of every simple list builder adds one element.               *)
LEMMA SimpleFeatEndType ==
  ASSUME NEW k \in SimpleTypes, NEW x \in SimpleType(k)
  PROVE  /\ SimpleFeatEnd(k, x) \in SimpleType(k)
         /\ k # "POINT" => Finished(SimpleFeatEnd(k, x), x, TRUE)
<1>1. CASE k = "POINT"
  BY <1>1 DEF SimpleFeatEnd
<1>2. CASE k = "LINESTRING"
  BY <1>2, LinestringFinishType DEF SimpleFeatEnd, LinestringFeatEnd, SimpleType
<1>3. CASE k = "POLYGON"
  BY <1>3, PolygonFinishType DEF SimpleFeatEnd, PolygonFeatEnd, SimpleType
<1>4. QED
  BY <1>1, <1>2, <1>3 DEF SimpleTypes

(* ring_end() of every simple builder leaves the outer list alone.         *)
LEMMA SimpleRingEndType ==
  ASSUME NEW k \in SimpleTypes, NEW x \in SimpleType(k)
  PROVE  /\ SimpleRingEnd(k, x) \in SimpleType(k)
         /\ k # "POINT" => SimpleRingEnd(k, x).list = x.list
BY PolygonRingEndType DEF SimpleRingEnd, SimpleType, SimpleTypes

(* The coordinates of every simple builder are a PointArrayBuilder, and can*)
(* be replaced.                                                            *)
LEMMA SimplePointsType ==
  ASSUME NEW k \in SimpleTypes, NEW x \in SimpleType(k)
  PROVE  /\ PointsOf(k, x) \in PointType
         /\ \A p \in PointType : /\ WithPoints(k, x, p) \in SimpleType(k)
                                 /\ k # "POINT" => WithPoints(k, x, p).list = x.list
<1>1. CASE k = "POINT"
  BY <1>1 DEF PointsOf, WithPoints, SimpleType
<1>2. CASE k = "LINESTRING"
  BY <1>2 DEF PointsOf, WithPoints, SimpleType, LinestringType
<1>3. CASE k = "POLYGON"
  BY <1>3 DEF PointsOf, WithPoints, SimpleType, PolygonType
<1>4. QED
  BY <1>1, <1>2, <1>3 DEF SimpleTypes

(* new_dimensions() of every simple builder leaves the outer list alone.   *)
LEMMA SimpleNewDimensionsType ==
  ASSUME NEW k \in SimpleTypes, NEW x \in SimpleType(k), NEW d \in PointDims \cup {"UNKNOWN"}
  PROVE  /\ SimpleNewDimensions(k, x, d) \in SimpleType(k)
         /\ k # "POINT" => SimpleNewDimensions(k, x, d).list = x.list
BY SimplePointsType, PointNewDimensionsType DEF SimpleNewDimensions

(* coords() of every simple builder leaves the outer list alone.           *)
LEMMA SimpleCoordsType ==
  ASSUME NEW k \in SimpleTypes, NEW x \in SimpleType(k), NEW n \in Nat, NEW d
  PROVE  /\ SimpleCoords(k, x, n, CoordSize(d)) \in SimpleType(k)
         /\ k # "POINT" => SimpleCoords(k, x, n, CoordSize(d)).list = x.list
BY SimplePointsType, PointCoordsType DEF SimpleCoords

(***************************************************************************)
(* Multi-geometry builders.                                                *)
(***************************************************************************)
LEMMA ChildTypeIsSimple ==
  ASSUME NEW p \in MultiTypes
  PROVE  ChildType(p) \in SimpleTypes /\ ChildType(p) # p
BY DEF MultiTypes, ChildType, SimpleTypes

(* The members of a MultiArrayBuilder.                                     *)
LEMMA MultiParts ==
  ASSUME NEW p \in MultiTypes, NEW x \in MultiType(p)
  PROVE  /\ x.level \in Nat /\ x.list \in ListType
         /\ x.child \in SimpleType(ChildType(p))
         /\ x.child.size \in Int
<1>1. /\ x.level \in Nat /\ x.list \in ListType
      /\ x.child \in SimpleType(ChildType(p))
  BY DEF MultiType
<1>2. ASSUME NEW k \in SimpleTypes, NEW y \in SimpleType(k)
      PROVE  y.size \in Int
  BY DEF SimpleTypes, SimpleType, PointType, LinestringType, PolygonType
<1>3. QED
  BY <1>1, <1>2, ChildTypeIsSimple

(* A MultiArrayBuilder put together from well typed members is well typed. *)
LEMMA MultiRecType ==
  ASSUME NEW p \in MultiTypes, NEW level \in Nat, NEW list \in ListType,
         NEW child \in SimpleType(ChildType(p))
  PROVE  /\ MultiRec(level, list, child) \in MultiType(p)
         /\ MultiRec(level, list, child).level = level
         /\ MultiRec(level, list, child).list = list
BY DEF MultiRec, MultiType

(* An empty MultiArrayBuilder is well typed.                               *)
LEMMA MultiNewType ==
  ASSUME NEW p \in MultiTypes
  PROVE  NewMulti(p) \in MultiType(p) /\ NewMulti(p).list = NewList
BY MultiRecType, ChildTypeIsSimple, SimpleNewType, NewListType DEF NewMulti

(* Finishing a multi-geometry keeps the type and adds one element.         *)
LEMMA MultiFinishType ==
  ASSUME NEW p \in MultiTypes, NEW x \in MultiType(p), NEW level \in Nat,
         NEW notNull \in BOOLEAN
  PROVE  /\ MultiFinish(x, level, notNull) \in MultiType(p)
         /\ MultiFinish(x, level, notNull).level = level
         /\ Finished(MultiFinish(x, level, notNull), x, notNull)
<1> DEFINE list == FinishElement(x.list, x.child.size, notNull)
<1>1. list \in ListType
  BY MultiParts, FinishElementType
<1>2. /\ MultiRec(level, list, x.child) \in MultiType(p)
      /\ MultiRec(level, list, x.child).level = level
      /\ MultiRec(level, list, x.child).list = list
  BY <1>1, MultiParts, MultiRecType
<1>3. QED
  BY <1>2, MultiParts DEF MultiFinish, Finished

(* Handing geom_start() to the child touches neither the list of the       *)
(* parent nor its own answer: CONTINUE, unless the child throws.           *)
LEMMA MultiPassType ==
  ASSUME NEW p \in MultiTypes, NEW x \in MultiType(p), NEW levels \in Nat,
         NEW child, child.b \in SimpleType(ChildType(p))
  PROVE  /\ MultiPass(x, levels, child).b \in MultiType(p)
         /\ MultiPass(x, levels, child).b.level = x.level + levels
         /\ MultiPass(x, levels, child).b.list = x.list
         /\ MultiPass(x, levels, child).res \in {"CONTINUE", "THROW"}
<1>1. x.level + levels \in Nat
  BY MultiParts
<1>2. QED
  BY <1>1, MultiParts, MultiRecType DEF MultiPass, Ret

(* geom_start() of MultiArrayBuilder: level_ grows by one with CONTINUE,   *)
(* and by one more for a promoted part; an element is added exactly if the *)
(* feature ends.                                                           *)
LEMMA MultiGeomStartType ==
  ASSUME NEW p \in MultiTypes, NEW x \in MultiType(p), NEW t, NEW sz \in Int
  PROVE  \A c : c = MultiGeomStart(p, x, t, sz) =>
           /\ c.b \in MultiType(p)
           /\ Answers(c, x, TRUE)
           /\ c.res = "CONTINUE" =>
                /\ c.b.level = IF x.level >= 1 \/ t = p THEN x.level + 1 ELSE x.level + 2
                /\ x.level >= 1 \/ t \in {p, ChildType(p)}
<1> SUFFICES ASSUME NEW c, c = MultiGeomStart(p, x, t, sz)
             PROVE  /\ c.b \in MultiType(p)
                    /\ Answers(c, x, TRUE)
                    /\ c.res = "CONTINUE" =>
                         /\ c.b.level = IF x.level >= 1 \/ t = p THEN x.level + 1
                                                                ELSE x.level + 2
                         /\ x.level >= 1 \/ t \in {p, ChildType(p)}
  OBVIOUS
<1> DEFINE child == SimpleGeomStart(ChildType(p), x.child, t, sz)
<1>0. /\ x.level \in Nat /\ x.list \in ListType
      /\ child.b \in SimpleType(ChildType(p))
      /\ ChildType(p) # p
  BY MultiParts, ChildTypeIsSimple, SimpleGeomStartType
<1>1. CASE x.level >= 1
  <2>1. c = MultiPass(x, 1, child)
    BY <1>1 DEF MultiGeomStart
  <2>2. /\ c.b \in MultiType(p)
        /\ c.b.level = x.level + 1
        /\ c.b.list = x.list
        /\ c.res \in {"CONTINUE", "THROW"}
    <3> HIDE DEF child
    <3>1. QED
      BY <1>0, <2>1, MultiPassType
  <2>3. QED
    BY <1>0, <1>1, <2>2 DEF Answers
<1>2. CASE ~(x.level >= 1) /\ sz = 0
  <2>1. c = Ret("ABORT_FEATURE", MultiFinish(x, x.level + 1, TRUE))
    BY <1>2 DEF MultiGeomStart
  <2>2. c.res = "ABORT_FEATURE" /\ c.b = MultiFinish(x, x.level + 1, TRUE)
    BY <2>1 DEF Ret
  <2>3. x.level + 1 \in Nat
    BY <1>0
  <2>4. c.b \in MultiType(p) /\ Finished(c.b, x, TRUE)
    BY <2>2, <2>3, MultiFinishType
  <2>5. QED
    BY <2>2, <2>4 DEF Answers
<1>3. CASE ~(x.level >= 1) /\ sz # 0 /\ t = p
  <2>1. c = Ret("CONTINUE", MultiRec(x.level + 1, x.list, x.child))
    BY <1>3 DEF MultiGeomStart
  <2>2. c.res = "CONTINUE" /\ c.b = MultiRec(x.level + 1, x.list, x.child)
    BY <2>1 DEF Ret
  <2>3. x.level + 1 \in Nat
    BY <1>0
  <2>4. c.b \in MultiType(p) /\ c.b.level = x.level + 1 /\ c.b.list = x.list
    BY <1>0, <2>2, <2>3, MultiParts, MultiRecType
  <2>5. QED
    BY <1>3, <2>2, <2>4 DEF Answers
<1>4. CASE ~(x.level >= 1) /\ sz # 0 /\ t # p /\ t = ChildType(p)
  <2>1. c = MultiPass(x, 2, child)
    BY <1>4 DEF MultiGeomStart
  <2>2. /\ c.b \in MultiType(p)
        /\ c.b.level = x.level + 2
        /\ c.b.list = x.list
        /\ c.res \in {"CONTINUE", "THROW"}
    <3> HIDE DEF child
    <3>1. QED
      BY <1>0, <2>1, MultiPassType
  <2>3. QED
    BY <1>0, <1>4, <2>2 DEF Answers
<1>5. CASE ~(x.level >= 1) /\ sz # 0 /\ t # p /\ t # ChildType(p)
  <2>1. c = Ret("THROW", x)
    BY <1>5 DEF MultiGeomStart
  <2>2. QED
    BY <2>1 DEF Ret, Answers
<1>6. QED
  BY <1>1, <1>2, <1>3, <1>4, <1>5

(* geom_end() of MultiArrayBuilder, called with an open level, closes one  *)
(* level and adds no element to the outer list.                            *)
LEMMA MultiGeomEndType ==
  ASSUME NEW p \in MultiTypes, NEW x \in MultiType(p), x.level >= 1
  PROVE  /\ MultiGeomEnd(p, x) \in MultiType(p)
         /\ MultiGeomEnd(p, x).level = x.level - 1
         /\ MultiGeomEnd(p, x).list = x.list
<1>1. x.level - 1 \in Nat /\ x.list \in ListType
  BY MultiParts
<1>2. SimpleFeatEnd(ChildType(p), x.child) \in SimpleType(ChildType(p))
  BY MultiParts, ChildTypeIsSimple, SimpleFeatEndType
<1>3. QED
  BY <1>1, <1>2, MultiParts, MultiRecType DEF MultiGeomEnd

(* A method that only reaches the child.                                   *)
LEMMA WithChildType ==
  ASSUME NEW p \in MultiTypes, NEW x \in MultiType(p),
         NEW child \in SimpleType(ChildType(p))
  PROVE  /\ WithChild(x, child) \in MultiType(p)
         /\ WithChild(x, child).level = x.level
         /\ WithChild(x, child).list = x.list
BY MultiParts, MultiRecType DEF WithChild

(***************************************************************************)
(* The inductive invariant. LevelTracksDepth alone is not inductive: that  *)
(* level_ starts at 0 for each feature comes from feat_start(), and a      *)
(* geometry is known to be open only because the stack is well formed.     *)
(* OneElementPerFeature speaks of rest only; it is inductive when stated   *)
(* of every state, since a callback finishes an element exactly when it    *)
(* ends the feature.                                                       *)
(***************************************************************************)
LevelReset == Multi /\ phase = "feature" => b.level = 0

ElementsCounted == target # "POINT" => Matches(b.list, features)

IInv ==
  /\ TypeOK
  /\ StackWellFormed
  /\ LevelReset
  /\ LevelTracksDepth
  /\ ElementsCounted

(* The builder in use has the type that the target stands for.             *)
LEMMA TargetKind ==
  ASSUME TypeOK
  PROVE  /\ Multi => target \in MultiTypes /\ b \in MultiType(target)
         /\ ~Multi => target \in SimpleTypes /\ b \in SimpleType(target)
         /\ Multi => target # "POINT"
         /\ target # "POINT" => b.list \in ListType
<1>1. target \in SimpleTypes \cup MultiTypes /\ b \in BuilderType
  BY TargetAssumption DEF TypeOK
<1>2. CASE Multi
  BY <1>1, <1>2, MultiParts DEF Multi, BuilderType, MultiTypes
<1>3. CASE ~Multi
  <2>1. target \in SimpleTypes /\ b \in SimpleType(target)
    BY <1>1, <1>3 DEF Multi, BuilderType
  <2>2. target # "POINT" => b.list \in ListType
    BY <2>1 DEF SimpleTypes, SimpleType, LinestringType, PolygonType
  <2>3. QED
    BY <1>3, <2>1, <2>2
<1>4. QED
  BY <1>2, <1>3

(* No call changes the class of the builder.                               *)
LEMMA SameTarget ==
  ASSUME UNCHANGED target
  PROVE  Multi' = Multi /\ BuilderType' = BuilderType
BY DEF Multi, BuilderType

(* Every announcement of dimensions is one PointArrayBuilder knows.        *)
LEMMA AnnouncedDims == Dims \cup {Unknown} \subseteq PointDims \cup {"UNKNOWN"}
BY ReaderAssumption DEF AllDims, PointDims, Unknown

(***************************************************************************)
(* What each call does to the builder, whatever its class.                 *)
(***************************************************************************)
LEMMA NewDimensionsCallType ==
  ASSUME TypeOK, NEW d \in Dims \cup {Unknown}
  PROVE  /\ NewDimensionsCall(d) \in BuilderType
         /\ target # "POINT" => NewDimensionsCall(d).list = b.list
         /\ Multi => NewDimensionsCall(d).level = b.level
<1>1. d \in PointDims \cup {"UNKNOWN"}
  BY AnnouncedDims
<1>2. CASE Multi
  <2>1. SimpleNewDimensions(ChildType(target), b.child, d) \in SimpleType(ChildType(target))
    BY <1>1, <1>2, TargetKind, ChildTypeIsSimple, MultiParts, SimpleNewDimensionsType
  <2>2. QED
    BY <1>2, <2>1, TargetKind, WithChildType DEF NewDimensionsCall, BuilderType
<1>3. CASE ~Multi
  BY <1>1, <1>3, TargetKind, SimpleNewDimensionsType DEF NewDimensionsCall, BuilderType
<1>4. QED
  BY <1>2, <1>3

(* coords() of the builder in use adds no element to the outer list.       *)
LEMMA CoordsCallType ==
  ASSUME TypeOK, NEW n \in Nat
  PROVE  /\ CoordsCall(n) \in BuilderType
         /\ target # "POINT" => CoordsCall(n).list = b.list
         /\ Multi => CoordsCall(n).level = b.level
<1>1. CASE Multi
  <2>1. SimpleCoords(ChildType(target), b.child, n, CoordSize(dim)) \in SimpleType(ChildType(target))
    BY <1>1, TargetKind, ChildTypeIsSimple, MultiParts, SimpleCoordsType
  <2>2. QED
    BY <1>1, <2>1, TargetKind, WithChildType DEF CoordsCall, BuilderType
<1>2. CASE ~Multi
  BY <1>2, TargetKind, SimpleCoordsType DEF CoordsCall, BuilderType
<1>3. QED
  BY <1>1, <1>2

(* ring_end() of the builder in use adds no element to the outer list.     *)
LEMMA RingEndCallType ==
  ASSUME TypeOK
  PROVE  /\ RingEndCall \in BuilderType
         /\ target # "POINT" => RingEndCall.list = b.list
         /\ Multi => RingEndCall.level = b.level
<1>1. CASE Multi
  <2>1. SimpleRingEnd(ChildType(target), b.child) \in SimpleType(ChildType(target))
    BY <1>1, TargetKind, ChildTypeIsSimple, MultiParts, SimpleRingEndType
  <2>2. QED
    BY <1>1, <2>1, TargetKind, WithChildType DEF RingEndCall, BuilderType
<1>2. CASE ~Multi
  BY <1>2, TargetKind, SimpleRingEndType DEF RingEndCall, BuilderType
<1>3. QED
  BY <1>1, <1>2

(* null_feat() of the builder in use ends the feature with a null element. *)
LEMMA NullFeatCallType ==
  ASSUME TypeOK
  PROVE  /\ NullFeatCall.b \in BuilderType
         /\ NullFeatCall.res \in Results
         /\ target # "POINT" => Answers(NullFeatCall, b, FALSE)
<1>1. CASE Multi
  <2>1. target \in MultiTypes /\ b \in MultiType(target) /\ b.level \in Nat
    BY <1>1, TargetKind, MultiParts
  <2>2. /\ NullFeatCall.res = "ABORT_FEATURE"
        /\ NullFeatCall.b = MultiFinish(b, b.level, FALSE)
    BY <1>1 DEF NullFeatCall, MultiNullFeat, Ret
  <2>3. NullFeatCall.b \in MultiType(target) /\ Finished(NullFeatCall.b, b, FALSE)
    BY <2>1, <2>2, MultiFinishType
  <2>4. QED
    BY <1>1, <2>2, <2>3 DEF BuilderType, Answers, Results
<1>2. CASE ~Multi
  BY <1>2, TargetKind, SimpleNullFeatType DEF NullFeatCall, BuilderType
<1>3. QED
  BY <1>1, <1>2

(* geom_start() of the builder in use adds an element exactly if it ends   *)
(* the feature.                                                            *)
LEMMA GeomStartCallType ==
  ASSUME TypeOK, NEW x \in BuilderType, NEW t, NEW sz \in Int,
         NEW c, c = GeomStartCall(x, t, sz)
  PROVE  /\ c.b \in BuilderType
         /\ c.res \in Results
         /\ target # "POINT" => Answers(c, x, TRUE)
         /\ Multi /\ c.res = "CONTINUE" =>
              /\ c.b.level = IF x.level >= 1 \/ t = target THEN x.level + 1 ELSE x.level + 2
              /\ x.level >= 1 \/ t \in {target, ChildType(target)}
<1>1. CASE Multi
  <2>1. target \in MultiTypes /\ x \in MultiType(target)
    BY <1>1, TargetKind DEF BuilderType
  <2>2. c = MultiGeomStart(target, x, t, sz)
    BY <1>1 DEF GeomStartCall
  <2>3. \A cc : cc = MultiGeomStart(target, x, t, sz) =>
        /\ cc.b \in MultiType(target)
        /\ Answers(cc, x, TRUE)
        /\ cc.res = "CONTINUE" =>
             /\ cc.b.level = IF x.level >= 1 \/ t = target THEN x.level + 1 ELSE x.level + 2
             /\ x.level >= 1 \/ t \in {target, ChildType(target)}
    BY <2>1, MultiGeomStartType, Zenon
  <2>4. /\ c.b \in MultiType(target)
        /\ Answers(c, x, TRUE)
        /\ c.res = "CONTINUE" =>
             /\ c.b.level = IF x.level >= 1 \/ t = target THEN x.level + 1 ELSE x.level + 2
             /\ x.level >= 1 \/ t \in {target, ChildType(target)}
    BY <2>2, <2>3
  <2>5. c.res \in Results
    BY <2>4 DEF Answers, Results
  <2>6. QED
    BY <1>1, <2>4, <2>5 DEF BuilderType
<1>2. CASE ~Multi
  <2>1. target \in SimpleTypes /\ x \in SimpleType(target)
    BY <1>2, TargetKind DEF BuilderType
  <2>2. c = SimpleGeomStart(target, x, t, sz)
    BY <1>2 DEF GeomStartCall
  <2>3. QED
    BY <1>2, <2>1, <2>2, SimpleGeomStartType DEF BuilderType
<1>3. QED
  BY <1>1, <1>2

(***************************************************************************)
(* One lemma per call: the inductive invariant is preserved.               *)
(***************************************************************************)

(* The list of a builder, when a call finishes one element with feature f. *)
LEMMA ElementAdded ==
  ASSUME IInv, UNCHANGED target, NEW f \in FeatureType, EndFeature(f),
         target # "POINT" => Finished(b', b, ~f.null)
  PROVE  ElementsCounted'
<1>1. CASE target # "POINT"
  <2>1. PICK n \in Int : b'.list = FinishElement(b.list, n, ~f.null)
    BY <1>1 DEF Finished
  <2>2. /\ b.list \in ListType /\ features \in Seq(FeatureType)
        /\ Matches(b.list, features)
    BY <1>1, TargetKind DEF IInv, TypeOK, ReaderTypeOK, ElementsCounted
  <2>3. features' = Append(features, f)
    BY DEF EndFeature
  <2>4. Matches(b'.list, features')
    BY <2>1, <2>2, <2>3, FinishElementMatches
  <2>5. QED
    BY <2>4 DEF ElementsCounted
<1>2. CASE target = "POINT"
  BY <1>2 DEF ElementsCounted
<1>3. QED
  BY <1>1, <1>2

(* A call that leaves the list and the features alone.                     *)
LEMMA ElementsSame ==
  ASSUME IInv, UNCHANGED <<target, features>>, target # "POINT" => b'.list = b.list
  PROVE  ElementsCounted'
BY DEF IInv, ElementsCounted, Matches

(* The inductive invariant contains that of the read loop.                 *)
LEMMA IInvReader == IInv => ReaderInv
BY DEF IInv, TypeOK, ReaderInv

(* Assembling the invariant after a step.                                  *)
LEMMA IInvNext ==
  ASSUME IInv, UNCHANGED target, ReaderInv', b' \in BuilderType,
         released' \in {"no", "yes", "threw"}, ElementsCounted',
         Multi /\ phase' = "feature" => b'.level = 0,
         Multi /\ phase' = "geometry" => LevelTracksDepth'
  PROVE  IInv'
<1>1. TypeOK'
  BY SameTarget DEF IInv, TypeOK, ReaderInv
<1>2. QED
  BY <1>1, SameTarget DEF IInv, ReaderInv, LevelReset, LevelTracksDepth

(* The inductive invariant holds initially.                                *)
LEMMA InitIInv == Init => IInv
<1> SUFFICES ASSUME Init PROVE IInv
  OBVIOUS
<1>1. ReaderInv
  BY ReaderInitInv DEF Init
<1>2. target \in SimpleTypes \cup MultiTypes
  BY TargetAssumption DEF Init
<1>3. ASSUME Multi
      PROVE  b \in BuilderType /\ b.list = NewList
  <2>1. target \in MultiTypes /\ b = NewMulti(target)
    BY <1>3 DEF Init, Multi
  <2>2. b \in MultiType(target) /\ b.list = NewList
    BY <2>1, MultiNewType
  <2>3. QED
    BY <1>3, <2>2 DEF BuilderType
<1>4. ASSUME ~Multi
      PROVE  b \in BuilderType /\ (target # "POINT" => b.list = NewList)
  <2>1. target \in SimpleTypes /\ b = NewSimple(target)
    BY <1>2, <1>4 DEF Init, Multi
  <2>2. b \in SimpleType(target) /\ (target # "POINT" => b.list = NewList)
    BY <2>1, SimpleNewType
  <2>3. QED
    BY <1>4, <2>2 DEF BuilderType
<1>5. b \in BuilderType /\ (target # "POINT" => b.list = NewList)
  BY <1>3, <1>4
<1>6. ElementsCounted
  BY <1>5 DEF ElementsCounted, Matches, NewList, Init, ReaderInit
<1>7. QED
  BY <1>1, <1>5, <1>6
     DEF IInv, TypeOK, ReaderInv, LevelReset, LevelTracksDepth, Init, ReaderInit

(* read_meta() and the first new_dimensions() preserve the inductive       *)
(* invariant.                                                              *)
LEMMA CallReadMetaInv ==
  ASSUME IInv, CallReadMeta
  PROVE  IInv'
<1>1. PICK t \in GeometryTypes \cup {Unknown}, d \in Dims \cup {Unknown} :
        ReadMeta(t, d) /\ b' = NewDimensionsCall(d) /\ UNCHANGED <<target, released>>
  BY DEF CallReadMeta
<1>2. ReaderInv' /\ UNCHANGED features
  BY <1>1, ReadMetaInv, IInvReader
<1>3. b' \in BuilderType /\ (target # "POINT" => b'.list = b.list)
  BY <1>1, NewDimensionsCallType DEF IInv
<1>4. ElementsCounted'
  BY <1>1, <1>2, <1>3, ElementsSame
<1>5. phase' = "between" /\ released' \in {"no", "yes", "threw"}
  BY <1>1 DEF ReadMeta, IInv, TypeOK
<1>6. QED
  BY <1>1, <1>2, <1>3, <1>4, <1>5, IInvNext

(* feat_start() preserves the inductive invariant: level_ restarts at 0.   *)
LEMMA CallFeatStartInv ==
  ASSUME IInv, CallFeatStart
  PROVE  IInv'
<1>1. /\ FeatStart /\ UNCHANGED <<target, released>>
      /\ b' = IF Multi THEN MultiFeatStart(b) ELSE b
  BY DEF CallFeatStart
<1>2. ReaderInv' /\ UNCHANGED features /\ phase' = "feature"
  BY <1>1, FeatStartInv, IInvReader DEF FeatStart
<1>3. CASE Multi
  <2>1. target \in MultiTypes /\ b \in MultiType(target)
    BY <1>3, TargetKind DEF IInv
  <2>2. b' \in MultiType(target) /\ b'.level = 0 /\ b'.list = b.list
    <3>1. b' = MultiRec(0, b.list, b.child)
      BY <1>1, <1>3 DEF MultiFeatStart
    <3>2. b.list \in ListType /\ b.child \in SimpleType(ChildType(target))
      BY <2>1, MultiParts
    <3>3. QED
      BY <2>1, <3>1, <3>2, MultiRecType
  <2>3. ElementsCounted'
    BY <1>1, <1>2, <2>2, ElementsSame
  <2>4. b' \in BuilderType /\ released' \in {"no", "yes", "threw"}
    BY <1>1, <1>3, <2>2 DEF BuilderType, IInv, TypeOK
  <2>5. QED
    BY <1>1, <1>2, <2>2, <2>3, <2>4, IInvNext
<1>4. CASE ~Multi
  <2>1. b' = b
    BY <1>1, <1>4
  <2>2. ElementsCounted'
    BY <1>1, <1>2, <2>1, ElementsSame
  <2>3. b' \in BuilderType /\ released' \in {"no", "yes", "threw"}
    BY <1>1, <2>1 DEF IInv, TypeOK
  <2>4. QED
    BY <1>1, <1>2, <1>4, <2>2, <2>3, IInvNext
<1>5. QED
  BY <1>3, <1>4

(* A null feature: ABORT_FEATURE ends it, with one null element written.   *)
LEMMA CallNullFeatInv ==
  ASSUME IInv, CallNullFeat
  PROVE  IInv'
<1> DEFINE r == NullFeatCall.res
<1>1. NullFeat(r) /\ b' = NullFeatCall.b /\ UNCHANGED <<target, released>>
  BY DEF CallNullFeat
<1>2. /\ NullFeatCall.b \in BuilderType /\ r \in Results
      /\ target # "POINT" => Answers(NullFeatCall, b, FALSE)
  BY NullFeatCallType DEF IInv
<1>3. ReaderInv'
  BY <1>1, <1>2, NullFeatInv, IInvReader
<1>4. NullFeature \in FeatureType /\ (~NullFeature.null) = FALSE
  BY FeatureTypes, IInvReader DEF NullFeature
<1>5. released' \in {"no", "yes", "threw"}
  BY <1>1 DEF IInv, TypeOK
<1> HIDE DEF r
<1>6. CASE EndFeature(NullFeature) /\ r = "ABORT_FEATURE"
  <2>1. target # "POINT" => Finished(b', b, ~NullFeature.null)
    BY <1>1, <1>2, <1>4, <1>6 DEF Answers, r
  <2>2. ElementsCounted'
    BY <1>1, <1>4, <1>6, <2>1, ElementAdded
  <2>3. phase' = "between"
    BY <1>6 DEF EndFeature
  <2>4. QED
    BY <1>1, <1>2, <1>3, <1>5, <2>2, <2>3, IInvNext
<1>7. CASE r # "ABORT_FEATURE"
  <2>1. target # "POINT" => b'.list = b.list
    BY <1>1, <1>2, <1>7 DEF Answers, r
  <2>2. UNCHANGED features /\ phase' \in {"closing", "read", "failed"}
    BY <1>1, <1>7 DEF NullFeat, Unwind
  <2>3. ElementsCounted'
    BY <1>1, <2>1, <2>2, ElementsSame
  <2>4. QED
    BY <1>1, <1>2, <1>3, <1>5, <2>2, <2>3, IInvNext
<1>8. QED
  BY <1>1, <1>6, <1>7 DEF NullFeat, Unwind

(* Calls inside a geometry that change neither list nor level.             *)
LEMMA InsideGeometryInv ==
  ASSUME IInv, ReaderInv', UNCHANGED <<target, released, features>>,
         phase = "geometry", phase' = "geometry", b' \in BuilderType,
         target # "POINT" => b'.list = b.list,
         Multi => b'.level = b.level,
         OpenGeometries' = OpenGeometries,
         stack'[1].type = stack[1].type
  PROVE  IInv'
<1>1. ElementsCounted'
  BY ElementsSame
<1>2. LevelTracksDepth'
  BY SameTarget DEF IInv, LevelTracksDepth
<1>3. released' \in {"no", "yes", "threw"}
  BY DEF IInv, TypeOK
<1>4. QED
  BY <1>1, <1>2, <1>3, IInvNext

(* geom_start(): the element is finished with ABORT_FEATURE, the geometry  *)
(* is opened with CONTINUE, and the read fails with an exception.          *)
LEMMA CallGeomStartInv ==
  ASSUME IInv, CallGeomStart
  PROVE  IInv'
<1>1. PICK t \in GeometryTypes \cup {Unrecognized}, sz \in -1 .. MaxParts, d \in Dims :
        LET x == IF d = dim THEN b ELSE NewDimensionsCall(d)
            c == GeomStartCall(x, t, sz)
        IN  GeomStart(t, sz, d, c.res) /\ b' = c.b /\ UNCHANGED <<target, released>>
  BY DEF CallGeomStart
<1>2. PICK x : x = IF d = dim THEN b ELSE NewDimensionsCall(d)
  OBVIOUS
<1>3. PICK c : c = GeomStartCall(x, t, sz)
  OBVIOUS
<1>4. GeomStart(t, sz, d, c.res) /\ b' = c.b /\ UNCHANGED <<target, released>>
  BY <1>1, <1>2, <1>3
<1>5. /\ x \in BuilderType
      /\ target # "POINT" => x.list = b.list
      /\ Multi => x.level = b.level
  BY <1>2, NewDimensionsCallType DEF IInv, TypeOK
<1>6. sz \in Int
  BY ReaderAssumption
<1>7. /\ c.b \in BuilderType /\ c.res \in Results
      /\ target # "POINT" => Answers(c, x, TRUE)
      /\ Multi /\ c.res = "CONTINUE" =>
           /\ c.b.level = IF x.level >= 1 \/ t = target THEN x.level + 1 ELSE x.level + 2
           /\ x.level >= 1 \/ t \in {target, ChildType(target)}
  BY <1>3, <1>5, <1>6, GeomStartCallType DEF IInv
<1>8. ReaderInv'
  BY <1>4, <1>6, <1>7, GeomStartInv, IInvReader
<1>9. released' \in {"no", "yes", "threw"}
  BY <1>4 DEF IInv, TypeOK
<1>10. ASSUME c.res = "CONTINUE", t \in GeometryTypes
       PROVE  IInv'
  <2>1. /\ phase' = "geometry" /\ UNCHANGED features
        /\ Len(stack') = Len(stack) + 1
        /\ stack'[1].type = IF stack = << >> THEN t ELSE stack[1].type
        /\ Top'.type = t /\ t # "RING"
        /\ stack # << >> => Top.type # "RING"
        /\ Len(stack) \in Nat
    BY <1>4, <1>6, <1>10, GeomStartPushes, IInvReader
  <2>2. ElementsCounted'
    <3>1. target # "POINT" => b'.list = b.list
      BY <1>4, <1>5, <1>7, <1>10 DEF Answers
    <3>2. QED
      BY <1>4, <2>1, <3>1, ElementsSame
  <2>3. OpenGeometries' = Len(stack) + 1
    BY <2>1 DEF OpenGeometries
  <2>4. ASSUME Multi
        PROVE  LevelTracksDepth'
    <3>1. target \in MultiTypes /\ ChildType(target) # target /\ b.level \in Nat
      BY <2>4, TargetKind, ChildTypeIsSimple, MultiParts DEF IInv
    <3>2. CASE phase = "feature"
      <4>1. stack = << >> /\ Len(stack) = 0 /\ x.level = 0
        BY <1>5, <2>4, <3>2, EmptySeq DEF IInv, LevelReset, StackWellFormed
      <4>2. c.b.level = IF t = target THEN 1 ELSE 2
        BY <1>7, <1>10, <2>4, <4>1
      <4>3. QED
        BY <1>4, <1>7, <1>10, <2>1, <2>3, <2>4, <3>1, <4>1, <4>2 DEF LevelTracksDepth
    <3>3. CASE phase = "geometry"
      <4>1. stack # << >> /\ Len(stack) > 0
        BY <2>1, <3>3, EmptySeq DEF IInv, TypeOK, ReaderTypeOK, StackWellFormed
      <4>2. OpenGeometries = Len(stack)
        BY <2>1, <4>1 DEF OpenGeometries
      <4>3. b.level = Len(stack) + (IF stack[1].type = ChildType(target) THEN 1 ELSE 0)
        BY <2>4, <3>3, <4>2 DEF IInv, LevelTracksDepth
      <4>4. x.level >= 1 /\ x.level = b.level
        BY <1>5, <2>1, <2>4, <4>1, <4>3
      <4>5. c.b.level = b.level + 1
        BY <1>7, <1>10, <2>4, <4>4
      <4>6. QED
        BY <1>4, <2>1, <2>3, <4>1, <4>3, <4>5 DEF LevelTracksDepth
    <3>4. QED
      BY <1>4, <3>2, <3>3 DEF GeomStart
  <2>5. b' \in BuilderType
    BY <1>4, <1>7
  <2>6. QED
    BY <1>4, <1>8, <1>9, <2>1, <2>2, <2>4, <2>5, IInvNext
<1>11. CASE c.res = "ABORT_FEATURE"
  <2>1. EndFeature(Feature(cur))
    <3>1. Outcome(t, c.res) = "ABORT_FEATURE"
      BY <1>11 DEF Outcome
    <3>2. QED
      BY <1>4, <3>1 DEF GeomStart, Unwind
  <2>2. Feature(cur) \in FeatureType /\ (~Feature(cur).null) = TRUE
    BY FeatureTypes, IInvReader DEF Feature
  <2>3. target # "POINT" => Finished(b', b, ~Feature(cur).null)
    BY <1>4, <1>5, <1>7, <1>11, <2>2 DEF Answers, Finished
  <2>4. ElementsCounted'
    BY <1>4, <2>1, <2>2, <2>3, ElementAdded
  <2>5. phase' = "between" /\ b' \in BuilderType
    BY <1>4, <1>7, <2>1 DEF EndFeature
  <2>6. QED
    BY <1>4, <1>8, <1>9, <2>4, <2>5, IInvNext
<1>12. ASSUME c.res \in {"ABORT", "THROW"} \/ (c.res = "CONTINUE" /\ t = Unrecognized)
       PROVE  IInv'
  <2>1. UNCHANGED features /\ phase' \in {"read", "failed"}
    <3>1. Outcome(t, c.res) \in {"ABORT", "THROW"}
      BY <1>12 DEF Outcome
    <3>2. QED
      BY <1>4, <3>1 DEF GeomStart, Unwind
  <2>2. target # "POINT" => b'.list = b.list
    BY <1>4, <1>5, <1>7, <1>12 DEF Answers
  <2>3. ElementsCounted'
    BY <1>4, <2>1, <2>2, ElementsSame
  <2>4. b' \in BuilderType
    BY <1>4, <1>7
  <2>5. QED
    BY <1>4, <1>8, <1>9, <2>1, <2>3, <2>4, IInvNext
<1>13. QED
  BY <1>7, <1>10, <1>11, <1>12 DEF Results

(* ring_start() preserves the inductive invariant: a ring is no level.     *)
LEMMA CallRingStartInv ==
  ASSUME IInv, CallRingStart
  PROVE  IInv'
<1>1. PICK sz \in -1 .. MaxParts : RingStart(sz)
  BY DEF CallRingStart
<1>2. UNCHANGED <<target, b, released>>
  BY DEF CallRingStart
<1>3. sz \in Int
  BY ReaderAssumption
<1>4. /\ ReaderInv' /\ UNCHANGED features
      /\ Len(stack') = Len(stack) + 1 /\ Len(stack) \in Nat
      /\ stack'[1].type = stack[1].type
      /\ Top.type # "RING" /\ Top'.type = "RING"
  BY <1>1, <1>3, RingStartInv, IInvReader
<1>5. OpenGeometries' = OpenGeometries
  BY <1>4 DEF OpenGeometries
<1>6. phase = "geometry" /\ phase' = "geometry"
  BY <1>1 DEF RingStart
<1>7. b' \in BuilderType
  BY <1>2 DEF IInv, TypeOK
<1>8. QED
  BY <1>2, <1>4, <1>5, <1>6, <1>7, InsideGeometryInv

(* coords() preserves the inductive invariant.                             *)
LEMMA CallCoordsInv ==
  ASSUME IInv, CallCoords
  PROVE  IInv'
<1>1. PICK n \in 1 .. MaxParts :
        Coords(n) /\ b' = CoordsCall(n) /\ UNCHANGED <<target, released>>
  BY DEF CallCoords
<1>2. n \in Nat
  BY ReaderAssumption
<1>3. /\ ReaderInv' /\ UNCHANGED features
      /\ Len(stack') = Len(stack)
      /\ stack'[1].type = stack[1].type /\ Top'.type = Top.type
  BY <1>1, <1>2, CoordsInv, IInvReader
<1>4. OpenGeometries' = OpenGeometries
  BY <1>3 DEF OpenGeometries
<1>5. phase = "geometry" /\ phase' = "geometry"
  BY <1>1 DEF Coords
<1>6. /\ b' \in BuilderType
      /\ target # "POINT" => b'.list = b.list
      /\ Multi => b'.level = b.level
  BY <1>1, <1>2, CoordsCallType DEF IInv
<1>7. QED
  BY <1>1, <1>3, <1>4, <1>5, <1>6, InsideGeometryInv

(* ring_end() preserves the inductive invariant.                           *)
LEMMA CallRingEndInv ==
  ASSUME IInv, CallRingEnd
  PROVE  IInv'
<1>1. RingEnd /\ b' = RingEndCall /\ UNCHANGED <<target, released>>
  BY DEF CallRingEnd
<1>2. /\ ReaderInv' /\ UNCHANGED features
      /\ Len(stack) >= 2
      /\ Len(stack') = Len(stack) - 1
      /\ stack'[1] = stack[1]
      /\ Top.type = "RING" /\ Top'.type # "RING"
  BY <1>1, RingEndInv, IInvReader
<1>3. OpenGeometries' = OpenGeometries
  BY <1>2 DEF OpenGeometries
<1>4. phase = "geometry" /\ phase' = "geometry"
  BY <1>1 DEF RingEnd
<1>5. /\ b' \in BuilderType
      /\ target # "POINT" => b'.list = b.list
      /\ Multi => b'.level = b.level
  BY <1>1, RingEndCallType DEF IInv
<1>6. QED
  BY <1>1, <1>2, <1>3, <1>4, <1>5, InsideGeometryInv

(* geom_end(): level_ is at least 1, so that it stays a count.             *)
LEMMA CallGeomEndInv ==
  ASSUME IInv, CallGeomEnd
  PROVE  IInv'
<1>1. /\ GeomEnd /\ UNCHANGED <<target, released>>
      /\ b' = IF Multi THEN MultiGeomEnd(target, b) ELSE b
  BY DEF CallGeomEnd
<1>2. /\ ReaderInv' /\ UNCHANGED features
      /\ Len(stack) >= 1 /\ Top.type # "RING"
      /\ phase' = IF Len(stack) = 1 THEN "closing" ELSE "geometry"
      /\ Len(stack) > 1 => /\ Len(stack') = Len(stack) - 1
                           /\ stack'[1] = stack[1]
                           /\ Top'.type # "RING"
  BY <1>1, GeomEndInv, IInvReader
<1>3. phase = "geometry" /\ released' \in {"no", "yes", "threw"}
  BY <1>1 DEF GeomEnd, IInv, TypeOK
<1>4. OpenGeometries = Len(stack) /\ Len(stack) \in Nat
  BY <1>2, LenProperties DEF OpenGeometries, IInv, TypeOK, ReaderTypeOK
<1>5. CASE Multi
  <2>1. target \in MultiTypes /\ b \in MultiType(target)
    BY <1>5, TargetKind DEF IInv
  <2>2. b.level = Len(stack) + (IF stack[1].type = ChildType(target) THEN 1 ELSE 0)
    BY <1>3, <1>4, <1>5 DEF IInv, LevelTracksDepth
  <2>3. b.level >= 1
    BY <1>2, <1>4, <2>2
  <2>4. b' \in MultiType(target) /\ b'.level = b.level - 1 /\ b'.list = b.list
    BY <1>1, <1>5, <2>1, <2>3, MultiGeomEndType
  <2>5. ElementsCounted'
    BY <1>1, <1>2, <2>4, ElementsSame
  <2>6. ASSUME phase' = "geometry"
        PROVE  LevelTracksDepth'
    <3>1. Len(stack) > 1
      BY <1>2, <1>4, <2>6
    <3>2. OpenGeometries' = Len(stack) - 1
      BY <1>2, <3>1 DEF OpenGeometries
    <3>3. QED
      BY <1>1, <1>2, <1>4, <2>2, <2>4, <3>1, <3>2 DEF LevelTracksDepth
  <2>7. b' \in BuilderType
    BY <1>5, <2>4 DEF BuilderType
  <2>8. phase' # "feature"
    BY <1>2
  <2>9. QED
    BY <1>1, <1>2, <1>3, <2>5, <2>6, <2>7, <2>8, IInvNext
<1>6. CASE ~Multi
  <2>1. b' = b
    BY <1>1, <1>6
  <2>2. ElementsCounted'
    BY <1>1, <1>2, <2>1, ElementsSame
  <2>3. b' \in BuilderType
    BY <2>1 DEF IInv, TypeOK
  <2>4. QED
    BY <1>1, <1>2, <1>3, <1>6, <2>2, <2>3, IInvNext
<1>7. QED
  BY <1>5, <1>6

(* feat_end() finishes the element of a feature that was read to its end.  *)
LEMMA CallFeatEndInv ==
  ASSUME IInv, CallFeatEnd
  PROVE  IInv'
<1>1. /\ FeatEnd /\ UNCHANGED <<target, released>>
      /\ b' = IF Multi THEN MultiFeatEnd(b) ELSE SimpleFeatEnd(target, b)
  BY DEF CallFeatEnd
<1>2. ReaderInv' /\ EndFeature(Feature(cur))
  BY <1>1, FeatEndInv, IInvReader
<1>3. Feature(cur) \in FeatureType /\ (~Feature(cur).null) = TRUE
  BY FeatureTypes, IInvReader DEF Feature
<1>4. b' \in BuilderType /\ (target # "POINT" => Finished(b', b, TRUE))
  <2>1. CASE Multi
    <3>1. target \in MultiTypes /\ b \in MultiType(target) /\ b.level \in Nat
      BY <2>1, TargetKind, MultiParts DEF IInv
    <3>2. b' = MultiFinish(b, b.level, TRUE)
      BY <1>1, <2>1 DEF MultiFeatEnd
    <3>3. b' \in MultiType(target) /\ Finished(b', b, TRUE)
      BY <3>1, <3>2, MultiFinishType
    <3>4. QED
      BY <2>1, <3>3 DEF BuilderType
  <2>2. CASE ~Multi
    BY <1>1, <2>2, TargetKind, SimpleFeatEndType DEF BuilderType, IInv
  <2>3. QED
    BY <2>1, <2>2
<1>5. ElementsCounted'
  <2>1. target # "POINT" => Finished(b', b, ~Feature(cur).null)
    BY <1>3, <1>4 DEF Finished
  <2>2. QED
    BY <1>1, <1>2, <1>3, <2>1, ElementAdded
<1>6. phase' = "between" /\ released' \in {"no", "yes", "threw"}
  BY <1>1, <1>2 DEF EndFeature, IInv, TypeOK
<1>7. QED
  BY <1>1, <1>2, <1>4, <1>5, <1>6, IInvNext

(* The end of the loop preserves the inductive invariant.                  *)
LEMMA CallReadDoneInv ==
  ASSUME IInv, CallReadDone
  PROVE  IInv'
<1>1. ReadDone /\ UNCHANGED <<target, b, released>>
  BY DEF CallReadDone
<1>2. ReaderInv' /\ UNCHANGED features /\ phase' = "read"
  BY <1>1, ReadDoneInv, IInvReader DEF ReadDone
<1>3. ElementsCounted'
  BY <1>1, <1>2, ElementsSame
<1>4. b' \in BuilderType /\ released' \in {"no", "yes", "threw"}
  BY <1>1 DEF IInv, TypeOK
<1>5. QED
  BY <1>1, <1>2, <1>3, <1>4, IInvNext

(* release() preserves the inductive invariant.                            *)
LEMMA ReleaseInv ==
  ASSUME IInv, Release
  PROVE  IInv'
<1>1. /\ UNCHANGED <<readerVars, target, b>> /\ phase = "read"
      /\ released' \in {"no", "yes", "threw"}
  BY DEF Release
<1>2. ReaderInv' /\ UNCHANGED features /\ phase' = "read"
  BY <1>1, IInvReader
     DEF readerVars, ReaderInv, ReaderTypeOK, StackWellFormed
<1>3. ElementsCounted'
  BY <1>1, <1>2, ElementsSame
<1>4. b' \in BuilderType
  BY <1>1 DEF IInv, TypeOK
<1>5. QED
  BY <1>1, <1>2, <1>3, <1>4, IInvNext

(* A stuttering step preserves the inductive invariant.                    *)
LEMMA StutterInv ==
  ASSUME IInv, UNCHANGED vars
  PROVE  IInv'
<1>1. ReaderInv' /\ UNCHANGED <<readerVars, target, b, released>>
  BY IInvReader DEF vars, readerVars, ReaderInv, ReaderTypeOK, StackWellFormed
<1>2. TypeOK' /\ StackWellFormed'
  BY <1>1 DEF ReaderInv, IInv, TypeOK, BuilderType, Multi
<1>3. LevelReset' /\ LevelTracksDepth' /\ ElementsCounted'
  BY <1>1 DEF IInv, LevelReset, LevelTracksDepth, ElementsCounted, Matches,
     OpenGeometries, Top, Multi, readerVars
<1>4. QED
  BY <1>2, <1>3 DEF IInv

(* Every step preserves the inductive invariant.                           *)
LEMMA NextInv == IInv /\ [Next]_vars => IInv'
<1> SUFFICES ASSUME IInv, [Next]_vars PROVE IInv'
  OBVIOUS
<1>1. CASE CallReadMeta
  BY <1>1, CallReadMetaInv
<1>2. CASE CallFeatStart
  BY <1>2, CallFeatStartInv
<1>3. CASE CallNullFeat
  BY <1>3, CallNullFeatInv
<1>4. CASE CallGeomStart
  BY <1>4, CallGeomStartInv
<1>5. CASE CallRingStart
  BY <1>5, CallRingStartInv
<1>6. CASE CallCoords
  BY <1>6, CallCoordsInv
<1>7. CASE CallRingEnd
  BY <1>7, CallRingEndInv
<1>8. CASE CallGeomEnd
  BY <1>8, CallGeomEndInv
<1>9. CASE CallFeatEnd
  BY <1>9, CallFeatEndInv
<1>10. CASE CallReadDone
  BY <1>10, CallReadDoneInv
<1>11. CASE Release
  BY <1>11, ReleaseInv
<1>12. CASE UNCHANGED vars
  BY <1>12, StutterInv
<1>13. QED
  BY <1>1, <1>2, <1>3, <1>4, <1>5, <1>6, <1>7, <1>8, <1>9, <1>10, <1>11, <1>12 DEF Next

(***************************************************************************)
(* The theorems.                                                           *)
(***************************************************************************)

(* The inductive invariant holds in every reachable state of a cast.       *)
THEOREM InductiveInvariant == Spec => []IInv
<1>1. Init => IInv
  BY InitIInv
<1>2. IInv /\ [Next]_vars => IInv'
  BY NextInv
<1>3. QED
  BY <1>1, <1>2, PTL DEF Spec

(* Whatever is cast to whatever, offsets stay int32_t values, validity     *)
(* bits are appended one by one, and no counter (level_, size_) is ever    *)
(* negative.                                                               *)
THEOREM CastTypeCorrect == Spec => []TypeOK
<1>1. IInv => TypeOK
  BY DEF IInv
<1>2. QED
  BY <1>1, InductiveInvariant, PTL

(* level_ of MultiArrayBuilder always equals the number of geometries      *)
(* open, plus one for a promoted child geometry: for any reader, nesting   *)
(* depth and size, including collections inside multi-geometries.          *)
THEOREM CastLevelTracksDepth == Spec => []LevelTracksDepth
<1>1. IInv => LevelTracksDepth
  BY DEF IInv
<1>2. QED
  BY <1>1, InductiveInvariant, PTL

(* Every feature read is exactly one element of a list-typed output, null  *)
(* exactly where the feature was null.                                     *)
THEOREM CastOneElementPerFeature == Spec => []OneElementPerFeature
<1>1. IInv => OneElementPerFeature
  BY DEF IInv, ElementsCounted, Matches, OneElementPerFeature
<1>2. QED
  BY <1>1, InductiveInvariant, PTL

(***************************************************************************)
(* One point per feature. A PointArrayBuilder only counts points, so the   *)
(* invariant says how many the feature being read has written so far: one  *)
(* once its geometry (empty, a POINT, or a MULTIPOINT of one point, which  *)
(* may again be empty) has been passed, and why no second one can follow.  *)
(***************************************************************************)
EmptyFrame(f) == f.type # "RING" /\ f.size = 0 /\ f.count = 0

PointFrame(f) == f.type = "POINT" /\ f.size \in {-1, 1} /\ f.count \in 0 .. 1

PointParent(f) == f.type = "MULTIPOINT" /\ f.size = 1 /\ f.count \in 0 .. 1

(* A multipoint of one member may hold another one (the reader does not    *)
(* look at the type of a member), to any depth.                            *)
OnePointFrames ==
  /\ \A i \in 1 .. Len(stack) - 1 : PointParent(stack[i]) /\ stack[i].count = 1
  /\ EmptyFrame(Top) \/ PointFrame(Top) \/ PointParent(Top)

PointsWritten ==
  CASE phase = "geometry" -> IF Top.size = 0 THEN 1 ELSE Top.count
    [] phase = "closing" -> 1
    [] OTHER -> 0

PointsCounted ==
  target = "POINT" /\ phase # "failed" =>
    /\ b.size = Len(features) + PointsWritten
    /\ phase = "geometry" => OnePointFrames

(* A point builder is not a MultiArrayBuilder.                             *)
LEMMA PointKind ==
  ASSUME IInv, target = "POINT"
  PROVE  ~Multi /\ b \in PointType /\ b.size \in Nat /\ Len(features) \in Nat
<1>1. ~Multi
  BY DEF Multi, MultiTypes
<1>2. b \in PointType
  BY <1>1, TargetKind DEF IInv, SimpleType
<1>3. features \in Seq(FeatureType)
  BY DEF IInv, TypeOK, ReaderTypeOK
<1>4. QED
  BY <1>1, <1>2, <1>3, LenProperties DEF PointType

(* new_dimensions() writes no point; coords() writes n.                    *)
LEMMA PointSizes ==
  ASSUME IInv, target = "POINT"
  PROVE  /\ \A d : NewDimensionsCall(d).size = b.size
         /\ \A n : CoordsCall(n).size = b.size + n
         /\ NullFeatCall.res = "ABORT_FEATURE" /\ NullFeatCall.b.size = b.size + 1
<1>1. ~Multi /\ b \in PointType
  BY PointKind
<1>2. \A d : NewDimensionsCall(d) = PointNewDimensions(b, d)
  BY <1>1 DEF NewDimensionsCall, SimpleNewDimensions, WithPoints, PointsOf
<1>3. \A n : CoordsCall(n) = PointCoords(b, n, CoordSize(dim))
  BY <1>1 DEF CoordsCall, SimpleCoords, WithPoints, PointsOf
<1>4. NullFeatCall = PointNullFeat(b)
  BY <1>1 DEF NullFeatCall, SimpleNullFeat
<1>5. QED
  BY <1>2, <1>3, <1>4 DEF PointNewDimensions, PointCoords, WritePoints, PointNullFeat, Ret

(* geom_start() writes one point for an empty geometry and none otherwise; *)
(* what it lets through is a point, or a multipoint of one point.          *)
LEMMA PointGeomStartSizes ==
  ASSUME IInv, target = "POINT", NEW x \in BuilderType, NEW t, NEW sz,
         NEW c, c = GeomStartCall(x, t, sz)
  PROVE  /\ c.res \in {"CONTINUE", "THROW"}
         /\ c.res = "CONTINUE" =>
              /\ c.b.size = x.size + (IF sz = 0 THEN 1 ELSE 0)
              /\ sz = 0 \/ t = "POINT" \/ (t = "MULTIPOINT" /\ sz = 1)
<1>1. ~Multi /\ x \in PointType
  BY PointKind DEF BuilderType, SimpleType
<1>2. c = PointGeomStart(x, t, sz) /\ x.size \in Nat
  BY <1>1 DEF GeomStartCall, SimpleGeomStart, PointType
<1>3. QED
  BY <1>2 DEF PointGeomStart, PointCoords, WritePoints, Ret

(* The size a reader announces for a point: 1, or none for WKT outside a   *)
(* multi-geometry; 0 only for WKT.                                         *)
LEMMA PointFrameSizes ==
  ASSUME NEW p, NEW sz \in Sizes("POINT", p)
  PROVE  sz \in {-1, 0, 1}
BY DEF Sizes

(* geom_start() of a first geometry.                                       *)
LEMMA FirstPointFrame ==
  ASSUME IInv, PointsCounted, CallGeomStart, target = "POINT", phase = "feature"
  PROVE  PointsCounted'
<1>1. PICK t \in GeometryTypes \cup {Unrecognized}, sz \in -1 .. MaxParts, d \in Dims :
        LET x == IF d = dim THEN b ELSE NewDimensionsCall(d)
            c == GeomStartCall(x, t, sz)
        IN  GeomStart(t, sz, d, c.res) /\ b' = c.b /\ UNCHANGED <<target, released>>
  BY DEF CallGeomStart
<1>2. PICK x : x = IF d = dim THEN b ELSE NewDimensionsCall(d)
  OBVIOUS
<1>3. PICK c : c = GeomStartCall(x, t, sz)
  OBVIOUS
<1>4. GeomStart(t, sz, d, c.res) /\ b' = c.b /\ UNCHANGED <<target, released>>
  BY <1>1, <1>2, <1>3
<1>5. x \in BuilderType /\ x.size = b.size
  BY <1>2, NewDimensionsCallType, PointSizes DEF IInv, TypeOK
<1>6. /\ c.res \in {"CONTINUE", "THROW"}
      /\ c.res = "CONTINUE" =>
           /\ c.b.size = x.size + (IF sz = 0 THEN 1 ELSE 0)
           /\ sz = 0 \/ t = "POINT" \/ (t = "MULTIPOINT" /\ sz = 1)
  BY <1>3, <1>5, PointGeomStartSizes
<1>7. ASSUME c.res = "THROW" \/ t = Unrecognized
      PROVE  PointsCounted'
  <2>1. phase' = "failed"
    <3>1. Outcome(t, c.res) = "THROW"
      BY <1>6, <1>7 DEF Outcome
    <3>2. QED
      BY <1>4, <3>1 DEF GeomStart, Unwind
  <2>2. QED
    BY <2>1 DEF PointsCounted
<1>8. ASSUME c.res = "CONTINUE", t \in GeometryTypes
      PROVE  PointsCounted'
  <2>0. Outcome(t, c.res) = "CONTINUE"
    BY <1>8, KnownOutcome
  <2>1. stack = << >>
    BY IInvReader DEF ReaderInv, StackWellFormed
  <2>2. /\ stack' = Append(<< >>, Frame(t, sz)) /\ phase' = "geometry"
        /\ UNCHANGED features /\ sz \in Sizes(t, "")
    BY <1>4, <2>0, <2>1 DEF GeomStart, Unwind
  <2>3. Frame(t, sz) \in FrameType
    BY <1>8, ReaderAssumption DEF Frame, FrameType
  <2>4. Len(stack') = 1 /\ stack'[1] = Frame(t, sz) /\ Top' = Frame(t, sz)
    BY <2>2, <2>3, PushFirst DEF Top
  <2>5. t = "POINT" => sz \in {-1, 0, 1}
    BY <2>2, PointFrameSizes
  <2>6. OnePointFrames'
    BY <1>6, <1>8, <2>4, <2>5
       DEF OnePointFrames, Frame, EmptyFrame, PointFrame, PointParent,
           GeometryTypes, SimpleTypes, MultiTypes
  <2>7. PointsWritten' = IF sz = 0 THEN 1 ELSE 0
    BY <2>2, <2>4 DEF PointsWritten, Frame
  <2>8. b.size = Len(features)
    BY PointKind DEF PointsCounted, PointsWritten
  <2>9. b'.size = Len(features') + PointsWritten'
    BY <1>4, <1>5, <1>6, <1>8, <2>2, <2>7, <2>8
  <2>10. QED
    BY <2>6, <2>9 DEF PointsCounted
<1>9. QED
  BY <1>6, <1>7, <1>8

(* geom_start() inside a geometry: the single point of a multipoint.       *)
LEMMA NextPointFrame ==
  ASSUME IInv, PointsCounted, CallGeomStart, target = "POINT", phase = "geometry"
  PROVE  PointsCounted'
<1>1. PICK t \in GeometryTypes \cup {Unrecognized}, sz \in -1 .. MaxParts, d \in Dims :
        LET x == IF d = dim THEN b ELSE NewDimensionsCall(d)
            c == GeomStartCall(x, t, sz)
        IN  GeomStart(t, sz, d, c.res) /\ b' = c.b /\ UNCHANGED <<target, released>>
  BY DEF CallGeomStart
<1>2. PICK x : x = IF d = dim THEN b ELSE NewDimensionsCall(d)
  OBVIOUS
<1>3. PICK c : c = GeomStartCall(x, t, sz)
  OBVIOUS
<1>4. GeomStart(t, sz, d, c.res) /\ b' = c.b /\ UNCHANGED <<target, released>>
  BY <1>1, <1>2, <1>3
<1>5. x \in BuilderType /\ x.size = b.size
  BY <1>2, NewDimensionsCallType, PointSizes DEF IInv, TypeOK
<1>6. /\ c.res \in {"CONTINUE", "THROW"}
      /\ c.res = "CONTINUE" =>
           /\ c.b.size = x.size + (IF sz = 0 THEN 1 ELSE 0)
           /\ sz = 0 \/ t = "POINT" \/ (t = "MULTIPOINT" /\ sz = 1)
  BY <1>3, <1>5, PointGeomStartSizes
<1>7. ASSUME c.res = "THROW" \/ t = Unrecognized
      PROVE  PointsCounted'
  <2>1. phase' = "failed"
    <3>1. Outcome(t, c.res) = "THROW"
      BY <1>6, <1>7 DEF Outcome
    <3>2. QED
      BY <1>4, <3>1 DEF GeomStart, Unwind
  <2>2. QED
    BY <2>1 DEF PointsCounted
<1>8. ASSUME c.res = "CONTINUE", t \in GeometryTypes
      PROVE  PointsCounted'
  <2>0. Outcome(t, c.res) = "CONTINUE"
    BY <1>8, KnownOutcome
  <2>1. ReaderInv /\ Len(stack) \in Nat \ {0} /\ Top = stack[Len(stack)] /\ stack # << >>
    BY IInvReader, TopFrame
  <2>2. t \in PartsRead(Top.type) /\ MayGoOn(Top) /\ sz \in Sizes(t, Top.type)
    BY <1>4 DEF GeomStart
  <2>3. /\ PointParent(Top) /\ Top.count = 0
        /\ \A i \in 1 .. Len(stack) - 1 : PointParent(stack[i]) /\ stack[i].count = 1
    <3>1. OnePointFrames
      BY DEF PointsCounted
    <3>2. Top.type # "POINT" /\ ~EmptyFrame(Top)
      BY <2>2, PartsAreOfCollections DEF MultiTypes, MayGoOn, EmptyFrame
    <3>3. PointParent(Top)
      BY <3>1, <3>2 DEF OnePointFrames, PointFrame
    <3>4. Top.count = 0
      BY <2>2, <3>3 DEF PointParent, MayGoOn
    <3>5. QED
      BY <3>1, <3>3, <3>4 DEF OnePointFrames
  <2>4. t = "POINT" => sz \in {-1, 0, 1}
    BY <2>2, PointFrameSizes
  <2>5. /\ stack' = Append(CountOne(1), Frame(t, sz)) /\ phase' = "geometry"
        /\ UNCHANGED features
    BY <1>4, <2>0, <2>1 DEF GeomStart, Unwind
  <2>6. Frame(t, sz) \in FrameType
    BY <1>8, ReaderAssumption DEF Frame, FrameType
  <2>7. /\ Len(stack') = Len(stack) + 1 /\ Top' = Frame(t, sz)
        /\ stack'[Len(stack)] = Counted(Top, 1)
        /\ \A i \in 1 .. Len(stack) - 1 : stack'[i] = stack[i]
    BY <2>1, <2>5, <2>6, PushFrames DEF Top
  <2>8. OnePointFrames'
    <3>1. PointParent(stack'[Len(stack)]) /\ stack'[Len(stack)].count = 1
      BY <2>3, <2>7 DEF PointParent, Counted
    <3>2. \A i \in 1 .. Len(stack') - 1 : PointParent(stack'[i]) /\ stack'[i].count = 1
      BY <2>1, <2>3, <2>7, <3>1
    <3>3. EmptyFrame(Top') \/ PointFrame(Top') \/ PointParent(Top')
      BY <1>6, <1>8, <2>4, <2>7
         DEF Frame, EmptyFrame, PointFrame, PointParent, GeometryTypes, SimpleTypes, MultiTypes
    <3>4. QED
      BY <3>2, <3>3 DEF OnePointFrames
  <2>9. PointsWritten' = IF sz = 0 THEN 1 ELSE 0
    BY <2>5, <2>7 DEF PointsWritten, Frame
  <2>10. b.size = Len(features)
    <3>1. PointsWritten = 0
      BY <2>1, <2>3 DEF PointsWritten, PointParent
    <3>2. QED
      BY <3>1, PointKind DEF PointsCounted
  <2>11. b'.size = Len(features') + PointsWritten'
    BY <1>4, <1>5, <1>6, <1>8, <2>5, <2>9, <2>10
  <2>12. QED
    BY <2>8, <2>11 DEF PointsCounted
<1>9. QED
  BY <1>6, <1>7, <1>8

(* coords() writes the coordinate of the one point that is open.           *)
LEMMA PointCoordsCounted ==
  ASSUME IInv, PointsCounted, CallCoords, target = "POINT"
  PROVE  PointsCounted'
<1>1. PICK n \in 1 .. MaxParts :
        Coords(n) /\ b' = CoordsCall(n) /\ UNCHANGED <<target, released>>
  BY DEF CallCoords
<1>2. /\ phase = "geometry" /\ UNCHANGED <<phase, features>> /\ MayGoOn(Top)
      /\ stack' = CountOne(n) /\ n = IF reader = "native" THEN Top.size ELSE 1
  BY <1>1 DEF Coords
<1>3. ReaderInv /\ Len(stack) \in Nat \ {0} /\ Top = stack[Len(stack)]
  BY <1>2, IInvReader, TopFrame
<1>4. n \in Nat \ {0}
  BY ReaderAssumption
<1>5. /\ Len(stack') = Len(stack)
      /\ stack'[Len(stack)] = Counted(Top, n) /\ Top' = Counted(Top, n)
      /\ \A i \in 1 .. Len(stack) - 1 : stack'[i] = stack[i]
  BY <1>2, <1>3, <1>4, CountFrames DEF Top
<1>6. PointFrame(Top) /\ Top.count = 0 /\ Top.size \in {-1, 1} /\ n = 1
  <2>1. OnePointFrames
    BY <1>2 DEF PointsCounted
  <2>2. ~EmptyFrame(Top) /\ Top.type # "MULTIPOINT"
    BY <1>1, <1>2 DEF Coords, MayGoOn, EmptyFrame
  <2>3. PointFrame(Top)
    BY <2>1, <2>2 DEF OnePointFrames, PointParent
  <2>4. Top.count = 0 /\ Top.size \in {-1, 1}
    BY <1>2, <2>2, <2>3 DEF PointFrame, MayGoOn
  <2>5. QED
    BY <1>2, <1>4, <2>3, <2>4
<1>7. OnePointFrames'
  <2>1. PointFrame(Top')
    BY <1>5, <1>6 DEF PointFrame, Counted
  <2>2. OnePointFrames
    BY <1>2 DEF PointsCounted
  <2>3. QED
    BY <1>5, <2>1, <2>2 DEF OnePointFrames
<1>8. PointsWritten = 0 /\ PointsWritten' = 1
  BY <1>2, <1>5, <1>6 DEF PointsWritten, Counted
<1>9. b'.size = b.size + 1
  BY <1>1, <1>6, PointSizes
<1>10. QED
  BY <1>2, <1>7, <1>8, <1>9, PointKind DEF PointsCounted

(* geom_end(): whatever was open has written its point.                    *)
LEMMA PointGeomEndCounted ==
  ASSUME IInv, PointsCounted, CallGeomEnd, target = "POINT"
  PROVE  PointsCounted'
<1>1. /\ phase = "geometry" /\ MayEnd(Top) /\ UNCHANGED <<target, features>>
      /\ stack' = SubSeq(stack, 1, Len(stack) - 1)
      /\ phase' = IF Len(stack) = 1 THEN "closing" ELSE "geometry"
      /\ b' = b /\ Top.type # "RING"
  BY PointKind DEF CallGeomEnd, GeomEnd
<1>2. ReaderInv /\ Len(stack) \in Nat \ {0} /\ Top = stack[Len(stack)] /\ stack # << >>
  BY <1>1, IInvReader, TopFrame
<1>3. OnePointFrames
  BY <1>1 DEF PointsCounted
<1>4. PointsWritten = 1
  <2>1. Top.size = 0 \/ Top.count = 1
    BY <1>1, <1>2, <1>3
       DEF OnePointFrames, PointFrame, PointParent, EmptyFrame, MayEnd
  <2>2. QED
    BY <1>1, <2>1 DEF PointsWritten
<1>5. CASE Len(stack) = 1
  BY <1>1, <1>4, <1>5 DEF PointsCounted, PointsWritten
<1>6. CASE Len(stack) # 1
  <2>0. Len(stack) - 1 \in 1 .. Len(stack) - 1
    <3>1. ASSUME NEW n \in Nat \ {0}, n # 1
          PROVE  n - 1 \in 1 .. n - 1
      BY <3>1
    <3>2. QED
      BY <1>2, <1>6, <3>1
  <2>1. PointParent(stack[Len(stack) - 1]) /\ stack[Len(stack) - 1].count = 1
    BY <1>3, <2>0 DEF OnePointFrames
  <2>2. /\ Len(stack') = Len(stack) - 1 /\ Top' = stack[Len(stack) - 1]
        /\ \A i \in 1 .. Len(stack') : stack'[i] = stack[i]
    BY <1>1, <1>2, <2>0, PopInv DEF Top
  <2>3. PointsWritten' = 1
    BY <1>1, <1>6, <2>1, <2>2 DEF PointsWritten, PointParent
  <2>4. OnePointFrames'
    BY <1>2, <1>3, <2>1, <2>2 DEF OnePointFrames
  <2>5. QED
    BY <1>1, <1>4, <1>6, <2>3, <2>4 DEF PointsCounted
<1>7. QED
  BY <1>5, <1>6

(* No ring is ever read into a point builder.                              *)
LEMMA PointHasNoRings ==
  ASSUME IInv, PointsCounted, target = "POINT", phase = "geometry"
  PROVE  Top.type # "RING" /\ ~(Top.type = "POLYGON" /\ MayGoOn(Top))
<1>1. ReaderInv /\ Len(stack) \in Nat \ {0} /\ Top = stack[Len(stack)] /\ stack[1].type # "RING"
  BY IInvReader, TopFrame
<1>2. OnePointFrames
  BY DEF PointsCounted
<1>3. QED
  BY <1>1, <1>2 DEF OnePointFrames, PointFrame, PointParent, EmptyFrame, MayGoOn

(* Every step keeps the count of points.                                   *)
LEMMA PointsCountedStep ==
  ASSUME IInv, PointsCounted, [Next]_vars
  PROVE  PointsCounted'
<1> SUFFICES ASSUME target' = "POINT" PROVE PointsCounted'
  BY DEF PointsCounted
<1>0. target = "POINT"
  BY DEF Next, vars, CallReadMeta, CallFeatStart, CallNullFeat, CallGeomStart, CallRingStart,
     CallCoords, CallRingEnd, CallGeomEnd, CallFeatEnd, CallReadDone, Release
<1>1. ~Multi /\ b.size \in Nat /\ Len(features) \in Nat
  BY <1>0, PointKind
<1>2. CASE CallReadMeta
  <2>1. /\ phase = "start" /\ phase' = "between" /\ UNCHANGED features
        /\ \E d : b' = NewDimensionsCall(d)
    BY <1>2 DEF CallReadMeta, ReadMeta
  <2>2. b'.size = b.size
    BY <1>0, <2>1, PointSizes
  <2>3. QED
    BY <1>0, <2>1, <2>2 DEF PointsCounted, PointsWritten
<1>3. CASE CallFeatStart
  BY <1>0, <1>1, <1>3 DEF CallFeatStart, FeatStart, PointsCounted, PointsWritten
<1>4. CASE CallNullFeat
  <2>1. phase = "feature" /\ b' = NullFeatCall.b /\ EndFeature(NullFeature)
    BY <1>0, <1>4, PointSizes DEF CallNullFeat, NullFeat, Unwind
  <2>2. Len(features') = Len(features) + 1
    BY <2>1, AppendProperties, FeatureTypes, IInvReader
       DEF EndFeature, IInv, TypeOK, ReaderTypeOK
  <2>3. b'.size = b.size + 1
    BY <1>0, <2>1, PointSizes
  <2>4. QED
    BY <1>0, <1>1, <2>1, <2>2, <2>3 DEF PointsCounted, PointsWritten, EndFeature
<1>5. CASE CallGeomStart
  <2>1. phase \in {"feature", "geometry"}
    BY <1>5 DEF CallGeomStart, GeomStart
  <2>2. QED
    BY <1>0, <1>5, <2>1, FirstPointFrame, NextPointFrame
<1>6. CASE CallRingStart
  <2>1. phase = "geometry" /\ Top.type = "POLYGON" /\ MayGoOn(Top)
    BY <1>6 DEF CallRingStart, RingStart
  <2>2. QED
    BY <1>0, <2>1, PointHasNoRings
<1>7. CASE CallCoords
  BY <1>0, <1>7, PointCoordsCounted
<1>8. CASE CallRingEnd
  <2>1. phase = "geometry" /\ Top.type = "RING"
    BY <1>8 DEF CallRingEnd, RingEnd
  <2>2. QED
    BY <1>0, <2>1, PointHasNoRings
<1>9. CASE CallGeomEnd
  BY <1>0, <1>9, PointGeomEndCounted
<1>10. CASE CallFeatEnd
  <2>1. phase = "closing" /\ b' = b /\ EndFeature(Feature(cur))
    BY <1>0, <1>1, <1>10 DEF CallFeatEnd, FeatEnd, SimpleFeatEnd
  <2>2. Len(features') = Len(features) + 1
    BY <2>1, AppendProperties, FeatureTypes, IInvReader
       DEF EndFeature, IInv, TypeOK, ReaderTypeOK
  <2>3. QED
    BY <1>0, <1>1, <2>1, <2>2 DEF PointsCounted, PointsWritten, EndFeature
<1>11. CASE CallReadDone
  BY <1>0, <1>1, <1>11 DEF CallReadDone, ReadDone, PointsCounted, PointsWritten
<1>12. CASE Release
  BY <1>12 DEF Release, readerVars, PointsCounted, PointsWritten, OnePointFrames, Top
<1>13. CASE UNCHANGED vars
  BY <1>13 DEF vars, readerVars, PointsCounted, PointsWritten, OnePointFrames, Top
<1>14. QED
  BY <1>2, <1>3, <1>4, <1>5, <1>6, <1>7, <1>8, <1>9, <1>10, <1>11, <1>12, <1>13 DEF Next

(* Cast to points, every feature writes exactly one point, whichever of    *)
(* the three ways it takes: null_feat(), an empty geometry, or the         *)
(* coordinate of a point or of a multipoint of one point.                  *)
THEOREM CastOnePointPerFeature == Spec => []OnePointPerFeature
<1>1. Init => PointsCounted
  BY DEF Init, ReaderInit, PointsCounted, PointsWritten, Multi, MultiTypes, NewSimple, NewPoint
<1>2. IInv /\ PointsCounted /\ [Next]_vars => PointsCounted'
  BY PointsCountedStep
<1>3. IInv /\ PointsCounted => OnePointPerFeature
  <2> SUFFICES ASSUME IInv, PointsCounted, AtRest, target = "POINT"
               PROVE  b.size = Len(features)
    BY DEF OnePointPerFeature
  <2>1. PointsWritten = 0 /\ phase # "failed"
    BY DEF AtRest, PointsWritten
  <2>2. QED
    BY <2>1, PointKind DEF PointsCounted
<1>4. QED
  BY <1>1, <1>2, <1>3, InductiveInvariant, PTL DEF Spec

(***************************************************************************)
(* The released array is a valid Arrow array. What has to hold while it is *)
(* written, for each list builder whose child has n elements: as long as n *)
(* fits int32_t, every offset written so far is at most n and none is less *)
(* than the one before.                                                    *)
(***************************************************************************)
GoodList(l, n) ==
  /\ Len(l.offsets) = Len(l.valid) + 1
  /\ l.offsets[1] = 0
  /\ n <= IntMax =>
       /\ \A i \in 1 .. Len(l.offsets) : l.offsets[i] \in 0 .. n
       /\ \A i \in 1 .. Len(l.valid) : l.offsets[i] <= l.offsets[i + 1]

(* The last offset is the length of the child: nothing was written to the  *)
(* child since the last element was finished.                              *)
Synced(l, n) == l.offsets[Len(l.offsets)] = Narrow(n)

(* A list builder starts with offset 0 over an empty child.                *)
LEMMA NewListGood == GoodList(NewList, 0) /\ Synced(NewList, 0)
BY BuilderAssumption DEF GoodList, Synced, NewList, Narrow

(* The lengths of a list's buffers.                                        *)
LEMMA ListLengths ==
  ASSUME NEW l \in ListType
  PROVE  /\ l.valid \in Seq(BOOLEAN) /\ l.offsets \in Seq(OffsetSet)
         /\ Len(l.valid) \in Nat /\ Len(l.offsets) \in Nat
         /\ \A i \in 1 .. Len(l.offsets) : l.offsets[i] \in Int
<1>1. l.valid \in Seq(BOOLEAN) /\ l.offsets \in Seq(OffsetSet)
  BY DEF ListType
<1>2. \A i \in 1 .. Len(l.offsets) : l.offsets[i] \in OffsetSet
  BY <1>1, ElementOfSeq
<1>3. QED
  BY <1>1, <1>2, BuilderAssumption, LenProperties DEF OffsetSet

(* Elements written to the child leave a list as good as it was.           *)
LEMMA GrowGood ==
  ASSUME NEW l \in ListType, NEW n \in Nat, NEW m \in Nat, n <= m, GoodList(l, n)
  PROVE  GoodList(l, m)
<1>1. /\ Len(l.offsets) = Len(l.valid) + 1 /\ l.offsets[1] = 0
  BY DEF GoodList
<1>2. ASSUME m <= IntMax
      PROVE  /\ \A i \in 1 .. Len(l.offsets) : l.offsets[i] \in 0 .. m
             /\ \A i \in 1 .. Len(l.valid) : l.offsets[i] <= l.offsets[i + 1]
  <2>1. n <= IntMax
    BY <1>2, BuilderAssumption
  <2>2. /\ \A i \in 1 .. Len(l.offsets) : l.offsets[i] \in 0 .. n
        /\ \A i \in 1 .. Len(l.valid) : l.offsets[i] <= l.offsets[i + 1]
    BY <2>1 DEF GoodList
  <2>3. \A i \in 1 .. Len(l.offsets) : l.offsets[i] \in 0 .. m
    BY <2>2
  <2>4. QED
    BY <2>2, <2>3
<1>3. QED
  BY <1>1, <1>2 DEF GoodList

(* finish_element() adds an offset that is the length of the child.        *)
LEMMA FinishGood ==
  ASSUME NEW l \in ListType, NEW n \in Nat, NEW notNull \in BOOLEAN, GoodList(l, n),
         NEW m, m = FinishElement(l, n, notNull)
  PROVE  GoodList(m, n) /\ Synced(m, n) /\ Len(m.valid) = Len(l.valid) + 1
<1> DEFINE k == Len(l.offsets)
           e == Narrow(n)
<1>1. /\ m.valid = Append(l.valid, notNull) /\ m.offsets = Append(l.offsets, e)
  BY DEF FinishElement
<1>2. /\ l.valid \in Seq(BOOLEAN) /\ l.offsets \in Seq(OffsetSet)
      /\ k = Len(l.valid) + 1 /\ Len(l.valid) \in Nat
      /\ e \in OffsetSet /\ e \in Int
      /\ \A i \in 1 .. k : l.offsets[i] \in Int
  <2>1. e \in OffsetSet
    BY NarrowType
  <2>2. e \in Int
    BY <2>1, BuilderAssumption DEF OffsetSet
  <2>3. k = Len(l.valid) + 1
    BY DEF GoodList
  <2>4. QED
    BY <2>1, <2>2, <2>3, ListLengths
<1>3. n <= IntMax => e = n
  BY BuilderAssumption DEF Narrow
<1> HIDE DEF e
<1>4. Len(m.valid) = Len(l.valid) + 1
  BY <1>1, <1>2, AppendProperties
<1>5. /\ Len(m.offsets) = Len(l.offsets) + 1
      /\ m.offsets[Len(l.offsets) + 1] = e
      /\ \A i \in 1 .. Len(l.offsets) : m.offsets[i] = l.offsets[i]
  BY <1>1, <1>2, AppendProperties
<1>6. Len(m.offsets) = Len(m.valid) + 1 /\ m.offsets[1] = 0
  BY <1>2, <1>4, <1>5 DEF GoodList
<1>7. ASSUME n <= IntMax
      PROVE  /\ \A i \in 1 .. Len(m.offsets) : m.offsets[i] \in 0 .. n
             /\ \A i \in 1 .. Len(m.valid) : m.offsets[i] <= m.offsets[i + 1]
  <2>1. /\ \A i \in 1 .. k : l.offsets[i] \in 0 .. n
        /\ \A i \in 1 .. Len(l.valid) : l.offsets[i] <= l.offsets[i + 1]
    BY <1>7 DEF GoodList
  <2>2. ASSUME NEW i \in 1 .. Len(m.offsets)
        PROVE  m.offsets[i] \in 0 .. n
    <3>1. CASE i = k + 1
      BY <1>3, <1>5, <1>7, <3>1
    <3>2. CASE i \in 1 .. k
      BY <1>5, <2>1, <3>2
    <3>3. QED
      BY <1>2, <1>5, <3>1, <3>2
  <2>3. ASSUME NEW i \in 1 .. Len(m.valid)
        PROVE  m.offsets[i] <= m.offsets[i + 1]
    <3>1. CASE i = k
      <4>1. m.offsets[i] = l.offsets[k] /\ m.offsets[i + 1] = n /\ l.offsets[k] \in 0 .. n
        BY <1>2, <1>3, <1>5, <1>7, <2>1, <3>1
      <4>2. QED
        BY <4>1
    <3>2. CASE i \in 1 .. Len(l.valid)
      <4>1. i \in 1 .. k /\ i + 1 \in 1 .. k
        BY <1>2, <3>2
      <4>2. QED
        BY <1>5, <2>1, <3>2, <4>1
    <3>3. QED
      BY <1>2, <1>4, <3>1, <3>2
  <2>4. QED
    BY <2>2, <2>3
<1>8. Synced(m, n)
  BY <1>5 DEF Synced, e
<1>9. QED
  BY <1>4, <1>6, <1>7, <1>8 DEF GoodList

(***************************************************************************)
(* Coordinates. A PointArrayBuilder p that was last told dimensions d: it  *)
(* writes to the sub-builder of d, each sub-builder holds item_size        *)
(* doubles per point, and (lists only, where no point is written before    *)
(* the dimensions are known) while the dimensions never changed all its    *)
(* points are in that sub-builder.                                         *)
(***************************************************************************)
PointsFit(p, d, noNulls) ==
  /\ \A e \in PointDims : p.sub[e].doubles = CoordSize(e) * Len(p.sub[e].valid)
  /\ p.dims = d
  /\ p.active = IF d = Unknown THEN "XY" ELSE d
  /\ p.ranges = 0 <=> d = Unknown
  /\ noNulls =>
       /\ p.ranges = 0 => p.size = 0 /\ \A e \in PointDims : p.sub[e].valid = << >>
       /\ p.ranges <= 1 => p.size = Len(p.sub[p.active].valid)

(* A new PointArrayBuilder has been told nothing and holds nothing.        *)
LEMMA NewPointFit ==
  ASSUME NEW noNulls
  PROVE  PointsFit(NewPoint, Unknown, noNulls)
BY DEF PointsFit, NewPoint, Unknown, PointDims, CoordSize

(* new_dimensions() moves to the sub-builder of the new dimensions.        *)
LEMMA AnnounceFit ==
  ASSUME NEW p \in PointType, NEW d0, NEW d, NEW noNulls, PointsFit(p, d0, noNulls),
         d = d0 \/ d \in PointDims
  PROVE  /\ PointsFit(PointNewDimensions(p, d), d, noNulls)
         /\ PointNewDimensions(p, d).size = p.size
<1>1. CASE d = d0
  BY <1>1 DEF PointsFit, PointNewDimensions
<1>2. CASE d # d0
  <2>1. /\ p.ranges \in Nat /\ d \in PointDims /\ d # Unknown
        /\ p.dims = d0 /\ p.sub \in [PointDims -> [valid : Seq(BOOLEAN), doubles : Nat]]
    BY <1>2 DEF PointType, PointDims, Unknown, PointsFit
  <2> DEFINE q == PointNewDimensions(p, d)
  <2>2. /\ q.dims = d /\ q.active = d /\ q.size = p.size
        /\ q.ranges = p.ranges + 1 /\ q.sub = p.sub
    BY <1>2, <2>1 DEF PointNewDimensions
  <2> HIDE DEF q
  <2>3. noNulls /\ q.ranges <= 1 => q.size = Len(q.sub[q.active].valid)
    <3> SUFFICES ASSUME noNulls, q.ranges <= 1 PROVE q.size = Len(q.sub[q.active].valid)
      OBVIOUS
    <3>1. p.ranges = 0
      BY <2>1, <2>2
    <3>2. p.size = 0 /\ \A e \in PointDims : p.sub[e].valid = << >>
      BY <3>1 DEF PointsFit
    <3>3. Len(p.sub[d].valid) = 0
      BY <2>1, <3>2
    <3>4. QED
      BY <2>2, <3>2, <3>3
  <2>4. q.ranges # 0
    BY <2>1, <2>2
  <2>5. \A e \in PointDims : q.sub[e].doubles = CoordSize(e) * Len(q.sub[e].valid)
    BY <2>2 DEF PointsFit
  <2>6. PointsFit(q, d, noNulls)
    BY <2>1, <2>2, <2>3, <2>4, <2>5 DEF PointsFit
  <2>7. QED
    BY <2>2, <2>6 DEF q
<1>3. QED
  BY <1>1, <1>2

(* The doubles of n more points.                                           *)
LEMMA DoublesAdd ==
  ASSUME NEW e, NEW m \in Nat, NEW n \in Nat
  PROVE  CoordSize(e) * m + n * CoordSize(e) = CoordSize(e) * (m + n)
<1>1. CASE CoordSize(e) = 2
  BY <1>1
<1>2. CASE CoordSize(e) = 3
  BY <1>2
<1>3. CASE CoordSize(e) = 4
  BY <1>3
<1>4. QED
  BY <1>1, <1>2, <1>3 DEF CoordSize

(* The reader and the builder agree on the width of a coordinate.          *)
LEMMA FitWidth ==
  ASSUME NEW p, NEW d, NEW noNulls, PointsFit(p, d, noNulls)
  PROVE  CoordSize(p.active) = CoordSize(d)
BY DEF PointsFit, CoordSize, Unknown

(* n points of the width of the dimensions go to one sub-builder.          *)
LEMMA WriteFit ==
  ASSUME NEW p \in PointType, NEW d, NEW noNulls, PointsFit(p, d, noNulls),
         d # Unknown \/ ~noNulls, NEW n \in Nat, NEW notNull \in BOOLEAN,
         NEW doubles, doubles = n * CoordSize(d)
  PROVE  /\ PointsFit(WritePoints(p, n, doubles, notNull), d, noNulls)
         /\ WritePoints(p, n, doubles, notNull).size = p.size + n
<1> DEFINE ST == [valid : Seq(BOOLEAN), doubles : Nat]
           a == p.active
           s == p.sub[a]
           w == [i \in 1 .. n |-> notNull]
           t == AppendPoints(s, n, doubles, notNull)
           q == WritePoints(p, n, doubles, notNull)
<1>1. /\ a \in PointDims /\ p.sub \in [PointDims -> ST] /\ p.size \in Nat /\ p.ranges \in Nat
  BY DEF PointType
<1>2. s \in ST /\ s.valid \in Seq(BOOLEAN) /\ s.doubles \in Nat /\ Len(s.valid) \in Nat
  BY <1>1, LenProperties
<1>3. w \in Seq(BOOLEAN) /\ Len(w) = n
  BY IsASeq
<1>4. Len(s.valid \o w) = Len(s.valid) + n
  <2> HIDE DEF w, s
  <2>1. QED
    BY <1>2, <1>3, ConcatProperties
<1>5. t.valid = s.valid \o w /\ t.doubles = s.doubles + doubles
  BY DEF AppendPoints
<1>6. t.doubles = CoordSize(a) * Len(t.valid)
  <2>1. s.doubles = CoordSize(a) * Len(s.valid) /\ CoordSize(a) = CoordSize(d)
    BY <1>1, FitWidth DEF PointsFit
  <2>2. CoordSize(a) * Len(s.valid) + n * CoordSize(a) = CoordSize(a) * (Len(s.valid) + n)
    BY <1>2, DoublesAdd
  <2> HIDE DEF a, s, t, w
  <2>3. QED
    BY <1>4, <1>5, <2>1, <2>2
<1>7. /\ q.dims = p.dims /\ q.active = a /\ q.size = p.size + n /\ q.ranges = p.ranges
      /\ q.sub[a] = t /\ \A e \in PointDims \ {a} : q.sub[e] = p.sub[e]
  BY <1>1 DEF WritePoints
<1>8. \A e \in PointDims : q.sub[e].doubles = CoordSize(e) * Len(q.sub[e].valid)
  <2> HIDE DEF t, a, q
  <2>1. QED
    BY <1>6, <1>7 DEF PointsFit
<1>9. ASSUME noNulls
      PROVE  /\ q.ranges # 0
             /\ q.ranges <= 1 => q.size = Len(q.sub[q.active].valid)
  <2>1. p.ranges # 0 /\ (p.ranges <= 1 => p.size = Len(s.valid))
    BY <1>9 DEF PointsFit
  <2> HIDE DEF t, a, s, w, q
  <2>2. Len(q.sub[q.active].valid) = Len(s.valid) + n
    BY <1>4, <1>5, <1>7
  <2>3. QED
    BY <1>7, <2>1, <2>2
<1> HIDE DEF a, s, t, w, q
<1>10. /\ q.dims = d
       /\ q.ranges = 0 <=> d = Unknown
       /\ q.active = IF d = Unknown THEN "XY" ELSE d
  BY <1>7 DEF PointsFit, a
<1>11. PointsFit(q, d, noNulls)
  BY <1>8, <1>9, <1>10 DEF PointsFit
<1>12. QED
  BY <1>7, <1>11 DEF q

(* coords() of PointArrayBuilder.                                          *)
LEMMA CoordsFit ==
  ASSUME NEW p \in PointType, NEW d, NEW noNulls, PointsFit(p, d, noNulls),
         d # Unknown \/ ~noNulls, NEW n \in Nat
  PROVE  /\ PointsFit(PointCoords(p, n, CoordSize(d)), d, noNulls)
         /\ PointCoords(p, n, CoordSize(d)).size >= p.size
<1>1. PICK q : q = WritePoints(p, n, n * CoordSize(d), TRUE)
  OBVIOUS
<1>2. p.size \in Nat
  BY DEF PointType
<1>3. PointsFit(q, d, noNulls) /\ q.size = p.size + n
  BY <1>1, WriteFit
<1>4. q.size >= p.size
  BY <1>2, <1>3
<1>5. PointCoords(p, n, CoordSize(d)) = q
  BY <1>1 DEF PointCoords
<1>6. QED
  BY <1>3, <1>4, <1>5, Zenon

(***************************************************************************)
(* Simple builders: each of their lists is good for what lies below it,    *)
(* and size_, which a parent list reads, is the length of the outer one.   *)
(***************************************************************************)
SimpleGood(k, x) ==
  /\ k \in {"LINESTRING", "POLYGON"} => x.size = Len(x.list.valid)
  /\ k = "LINESTRING" => GoodList(x.list, x.points.size)
  /\ k = "POLYGON" => /\ GoodList(x.list, Len(x.rings.valid))
                      /\ GoodList(x.rings, x.points.size)

ListSynced(k, x) ==
  /\ k = "LINESTRING" => Synced(x.list, x.points.size)
  /\ k = "POLYGON" => Synced(x.list, Len(x.rings.valid))

RingsSynced(k, x) == k = "POLYGON" => Synced(x.rings, x.points.size)

(* The members of the simple builders.                                     *)
LEMMA SimpleParts ==
  ASSUME NEW k \in SimpleTypes, NEW x \in SimpleType(k)
  PROVE  /\ x.size \in Nat
         /\ PointsOf(k, x) \in PointType /\ PointsOf(k, x).size \in Nat
         /\ k = "LINESTRING" =>
              /\ x.list \in ListType /\ x.points \in PointType /\ x.points.size \in Nat
              /\ x = [size |-> x.size, list |-> x.list, points |-> x.points]
         /\ k = "POLYGON" =>
              /\ x.list \in ListType /\ x.rings \in ListType
              /\ x.points \in PointType /\ x.points.size \in Nat
              /\ Len(x.rings.valid) \in Nat
<1>1. CASE k = "POINT"
  BY <1>1 DEF SimpleType, PointType, PointsOf
<1>2. CASE k = "LINESTRING"
  BY <1>2 DEF SimpleType, LinestringType, PointType, PointsOf
<1>3. CASE k = "POLYGON"
  <2>1. /\ x.size \in Nat /\ x.points \in PointType /\ x.points.size \in Nat
        /\ x.list \in ListType /\ x.rings \in ListType
    BY <1>3 DEF SimpleType, PolygonType, PointType
  <2>2. QED
    BY <1>3, <2>1, ListLengths DEF PointsOf
<1>4. QED
  BY <1>1, <1>2, <1>3 DEF SimpleTypes

(* An empty builder.                                                       *)
LEMMA SimpleNewGood ==
  ASSUME NEW k \in SimpleTypes, NEW x, x = NewSimple(k), NEW noNulls
  PROVE  /\ SimpleGood(k, x) /\ ListSynced(k, x) /\ RingsSynced(k, x)
         /\ PointsFit(PointsOf(k, x), Unknown, noNulls) /\ x.size = 0
<1>1. /\ NewPoint.size = 0 /\ Len(NewList.valid) = 0
      /\ PointsFit(NewPoint, Unknown, noNulls)
  BY NewPointFit DEF NewPoint, NewList
<1>2. CASE k = "POINT"
  BY <1>1, <1>2
     DEF NewSimple, SimpleGood, ListSynced, RingsSynced, PointsOf
<1>3. CASE k = "LINESTRING"
  BY <1>1, <1>3, NewListGood
     DEF NewSimple, NewLinestring, SimpleGood, ListSynced, RingsSynced, PointsOf
<1>4. CASE k = "POLYGON"
  BY <1>1, <1>4, NewListGood
     DEF NewSimple, NewPolygon, SimpleGood, ListSynced, RingsSynced, PointsOf
<1>5. QED
  BY <1>2, <1>3, <1>4 DEF SimpleTypes

(* The coordinates of a builder replaced by others: its lists are the      *)
(* same, and still good if there are no fewer coordinates.                 *)
LEMMA WithPointsGood ==
  ASSUME NEW k \in SimpleTypes, NEW x \in SimpleType(k), SimpleGood(k, x),
         NEW p \in PointType, p.size >= PointsOf(k, x).size,
         NEW y, y = WithPoints(k, x, p)
  PROVE  /\ SimpleGood(k, y) /\ PointsOf(k, y) = p
         /\ k # "POINT" => y.size = x.size
         /\ k = "POINT" => y = p
         /\ k = "LINESTRING" => y.list = x.list
         /\ k = "POLYGON" => y.list = x.list /\ y.rings = x.rings
<1>0. p.size \in Nat
  BY DEF PointType
<1>1. CASE k = "POINT"
  BY <1>1 DEF WithPoints, PointsOf, SimpleGood
<1>2. CASE k = "LINESTRING"
  <2>1. y.size = x.size /\ y.list = x.list /\ y.points = p
    BY <1>2 DEF WithPoints
  <2>2. x.list \in ListType /\ x.points.size \in Nat /\ p.size >= x.points.size
    BY <1>2, SimpleParts DEF PointsOf
  <2>3. GoodList(y.list, p.size)
    BY <1>0, <1>2, <2>1, <2>2, GrowGood DEF SimpleGood
  <2>4. QED
    BY <1>2, <2>1, <2>3 DEF SimpleGood, PointsOf
<1>3. CASE k = "POLYGON"
  <2>1. y.size = x.size /\ y.list = x.list /\ y.rings = x.rings /\ y.points = p
    BY <1>3 DEF WithPoints
  <2>2. x.rings \in ListType /\ x.points.size \in Nat /\ p.size >= x.points.size
    BY <1>3, SimpleParts DEF PointsOf
  <2>3. GoodList(y.rings, p.size)
    BY <1>0, <1>3, <2>1, <2>2, GrowGood DEF SimpleGood
  <2>4. QED
    BY <1>3, <2>1, <2>3 DEF SimpleGood, PointsOf
<1>4. QED
  BY <1>1, <1>2, <1>3 DEF SimpleTypes

(* new_dimensions() of a simple builder: no length changes.                *)
LEMMA SimpleAnnounce ==
  ASSUME NEW k \in SimpleTypes, NEW x \in SimpleType(k), SimpleGood(k, x),
         NEW d0, NEW d, NEW noNulls, PointsFit(PointsOf(k, x), d0, noNulls),
         d = d0 \/ d \in PointDims,
         NEW y, y = SimpleNewDimensions(k, x, d)
  PROVE  /\ SimpleGood(k, y) /\ PointsFit(PointsOf(k, y), d, noNulls)
         /\ y.size = x.size
         /\ ListSynced(k, x) => ListSynced(k, y)
         /\ RingsSynced(k, x) => RingsSynced(k, y)
<1> DEFINE p == PointsOf(k, x)
           q == PointNewDimensions(p, d)
<1>1. p \in PointType /\ p.size \in Nat
  BY SimpleParts
<1>2. PointsFit(q, d, noNulls) /\ q.size = p.size
  BY <1>1, AnnounceFit
<1>3. q \in PointType
  <2>1. q = p \/ (d \in PointDims /\ q \in PointType)
    <3>1. CASE d = d0
      BY <3>1 DEF PointNewDimensions, PointsFit
    <3>2. CASE d \in PointDims
      BY <1>1, <3>2, PointNewDimensionsType
    <3>3. QED
      BY <3>1, <3>2
  <2>2. QED
    BY <1>1, <2>1
<1>4. y = WithPoints(k, x, q)
  BY DEF SimpleNewDimensions
<1> HIDE DEF q
<1>5. /\ SimpleGood(k, y) /\ PointsOf(k, y) = q
      /\ k # "POINT" => y.size = x.size
      /\ k = "POINT" => y = q
      /\ k = "LINESTRING" => y.list = x.list
      /\ k = "POLYGON" => y.list = x.list /\ y.rings = x.rings
  BY <1>1, <1>2, <1>3, <1>4, WithPointsGood
<1>6. y.size = x.size
  BY <1>2, <1>5 DEF PointsOf
<1>7. QED
  BY <1>2, <1>5, <1>6 DEF ListSynced, RingsSynced, PointsOf

(* coords() of a simple builder: only the coordinates grow.                *)
LEMMA SimpleWrite ==
  ASSUME NEW k \in SimpleTypes, NEW x \in SimpleType(k), SimpleGood(k, x),
         NEW d, NEW noNulls, PointsFit(PointsOf(k, x), d, noNulls),
         d # Unknown \/ ~noNulls, NEW n \in Nat,
         NEW y, y = SimpleCoords(k, x, n, CoordSize(d))
  PROVE  /\ SimpleGood(k, y) /\ PointsFit(PointsOf(k, y), d, noNulls)
         /\ y.size >= x.size
         /\ k = "POLYGON" => y.list = x.list /\ y.rings = x.rings
<1> DEFINE p == PointsOf(k, x)
           q == PointCoords(p, n, CoordSize(d))
<1>1. p \in PointType /\ p.size \in Nat /\ x.size \in Nat
  BY SimpleParts
<1>2. q \in PointType
  BY <1>1, PointCoordsType
<1>3. PointsFit(q, d, noNulls) /\ q.size >= p.size
  BY <1>1, CoordsFit
<1>4. y = WithPoints(k, x, q)
  BY DEF SimpleCoords
<1> HIDE DEF q
<1>5. /\ SimpleGood(k, y) /\ PointsOf(k, y) = q
      /\ k # "POINT" => y.size = x.size
      /\ k = "POINT" => y = q
      /\ k = "POLYGON" => y.list = x.list /\ y.rings = x.rings
  BY <1>1, <1>2, <1>3, <1>4, WithPointsGood
<1>6. y.size >= x.size
  BY <1>1, <1>3, <1>5 DEF PointsOf
<1>7. QED
  BY <1>3, <1>5, <1>6

(* One more element of a list builder: its list is good and ends where the *)
(* child ends, the rest is as it was.                                      *)
Closed(k, x, y) ==
  /\ SimpleGood(k, y) /\ ListSynced(k, y) /\ y.size = x.size + 1
  /\ PointsOf(k, y) = PointsOf(k, x)
  /\ k = "POLYGON" => y.rings = x.rings

(* A linestring more.                                                      *)
LEMMA LinestringFinishGood ==
  ASSUME NEW x \in LinestringType, SimpleGood("LINESTRING", x), NEW notNull \in BOOLEAN
  PROVE  Closed("LINESTRING", x, LinestringFinish(x, notNull))
<1> DEFINE y == LinestringFinish(x, notNull)
           m == FinishElement(x.list, x.points.size, notNull)
<1>1. y.size = x.size + 1 /\ y.list = m /\ y.points = x.points
  BY DEF LinestringFinish
<1>2. x.list \in ListType /\ x.points.size \in Nat
  BY DEF LinestringType, PointType
<1>3. GoodList(x.list, x.points.size) /\ x.size = Len(x.list.valid)
  BY DEF SimpleGood
<1>4. /\ GoodList(m, x.points.size) /\ Synced(m, x.points.size)
      /\ Len(m.valid) = Len(x.list.valid) + 1
  BY <1>2, <1>3, FinishGood
<1> HIDE DEF y, m
<1>5. Closed("LINESTRING", x, y)
  BY <1>1, <1>3, <1>4 DEF Closed, SimpleGood, ListSynced, PointsOf
<1>6. QED
  BY <1>5 DEF y

(* A polygon more: its rings are finished before it.                       *)
LEMMA PolygonFinishGood ==
  ASSUME NEW x \in PolygonType, SimpleGood("POLYGON", x), NEW notNull \in BOOLEAN
  PROVE  Closed("POLYGON", x, PolygonFinish(x, notNull))
<1> DEFINE y == PolygonFinish(x, notNull)
           n == Len(x.rings.valid)
           m == FinishElement(x.list, n, notNull)
<1>1. y.size = x.size + 1 /\ y.list = m /\ y.rings = x.rings /\ y.points = x.points
  BY DEF PolygonFinish
<1>2. x.list \in ListType /\ x.rings \in ListType
  BY DEF PolygonType
<1>3. n \in Nat
  BY <1>2, ListLengths
<1>4. GoodList(x.list, n) /\ GoodList(x.rings, x.points.size) /\ x.size = Len(x.list.valid)
  BY DEF SimpleGood
<1>5. GoodList(m, n) /\ Synced(m, n) /\ Len(m.valid) = Len(x.list.valid) + 1
  <2> HIDE DEF n
  <2>1. QED
    BY <1>2, <1>3, <1>4, FinishGood
<1> HIDE DEF y, m
<1>6. Closed("POLYGON", x, y)
  BY <1>1, <1>4, <1>5 DEF Closed, SimpleGood, ListSynced, PointsOf
<1>7. QED
  BY <1>6 DEF y

(* feat_end() of a list builder finishes its element.                      *)
LEMMA SimpleFeatEndGood ==
  ASSUME NEW k \in SimpleTypes \ {"POINT"}, NEW x \in SimpleType(k), SimpleGood(k, x)
  PROVE  Closed(k, x, SimpleFeatEnd(k, x))
<1>1. CASE k = "LINESTRING"
  BY <1>1, LinestringFinishGood DEF SimpleFeatEnd, LinestringFeatEnd, SimpleType
<1>2. CASE k = "POLYGON"
  BY <1>2, PolygonFinishGood DEF SimpleFeatEnd, PolygonFeatEnd, SimpleType
<1>3. QED
  BY <1>1, <1>2 DEF SimpleTypes

(* null_feat() of a list builder finishes its element.                     *)
LEMMA SimpleNullFeatGood ==
  ASSUME NEW k \in SimpleTypes \ {"POINT"}, NEW x \in SimpleType(k), SimpleGood(k, x)
  PROVE  Closed(k, x, SimpleNullFeat(k, x).b)
<1>1. CASE k = "LINESTRING"
  <2>1. SimpleNullFeat(k, x).b = LinestringFinish(x, FALSE)
    BY <1>1 DEF SimpleNullFeat, LinestringNullFeat, Ret
  <2>2. QED
    BY <1>1, <2>1, LinestringFinishGood DEF SimpleType
<1>2. CASE k = "POLYGON"
  <2>1. SimpleNullFeat(k, x).b = PolygonFinish(x, FALSE)
    BY <1>2 DEF SimpleNullFeat, PolygonNullFeat, Ret
  <2>2. QED
    BY <1>2, <2>1, PolygonFinishGood DEF SimpleType
<1>3. QED
  BY <1>1, <1>2 DEF SimpleTypes

(* The multi-geometry of a simple type.                                    *)
ParentOf(k) ==
  CASE k = "POINT"      -> "MULTIPOINT"
    [] k = "LINESTRING" -> "MULTILINESTRING"
    [] k = "POLYGON"    -> "MULTIPOLYGON"

(* geom_start() of a list builder finishes an element with ABORT_FEATURE,  *)
(* or changes nothing; it lets through its own type and the multi-geometry *)
(* of that type.                                                           *)
LEMMA SimpleGeomStartGood ==
  ASSUME NEW k \in SimpleTypes \ {"POINT"}, NEW x \in SimpleType(k), SimpleGood(k, x),
         NEW t, NEW sz, NEW c, c = SimpleGeomStart(k, x, t, sz)
  PROVE  /\ c.res = "ABORT_FEATURE" => Closed(k, x, c.b)
         /\ c.res # "ABORT_FEATURE" => c.b = x
         /\ c.res = "CONTINUE" => t \in {k, ParentOf(k)}
         /\ c.res # "THROW" => t \in {k, ParentOf(k)} \/ sz = 0
<1>1. CASE k = "LINESTRING"
  <2>1. c = LinestringGeomStart(x, t, sz)
    BY <1>1 DEF SimpleGeomStart
  <2>2. x \in LinestringType /\ SimpleGood("LINESTRING", x)
    BY <1>1 DEF SimpleType
  <2>3. CASE sz = 0
    <3>1. c.res = "ABORT_FEATURE" /\ c.b = LinestringFinish(x, TRUE)
      BY <2>1, <2>3 DEF LinestringGeomStart, Ret
    <3>2. QED
      BY <1>1, <2>2, <2>3, <3>1, LinestringFinishGood
  <2>4. CASE sz # 0
    BY <1>1, <2>1, <2>4 DEF LinestringGeomStart, Ret, ParentOf
  <2>5. QED
    BY <2>3, <2>4
<1>2. CASE k = "POLYGON"
  <2>1. c = PolygonGeomStart(x, t, sz)
    BY <1>2 DEF SimpleGeomStart
  <2>2. x \in PolygonType /\ SimpleGood("POLYGON", x)
    BY <1>2 DEF SimpleType
  <2>3. CASE sz = 0
    <3>1. c.res = "ABORT_FEATURE" /\ c.b = PolygonFinish(x, TRUE)
      BY <2>1, <2>3 DEF PolygonGeomStart, Ret
    <3>2. QED
      BY <1>2, <2>2, <2>3, <3>1, PolygonFinishGood
  <2>4. CASE sz # 0
    BY <1>2, <2>1, <2>4 DEF PolygonGeomStart, Ret, ParentOf
  <2>5. QED
    BY <2>3, <2>4
<1>3. QED
  BY <1>1, <1>2 DEF SimpleTypes

(* geom_start() of a PointArrayBuilder writes at most one point, of the    *)
(* width of the dimensions it was told.                                    *)
LEMMA PointStartGood ==
  ASSUME NEW p \in PointType, NEW d, NEW noNulls, PointsFit(p, d, noNulls),
         d # Unknown \/ ~noNulls, NEW t, NEW sz, NEW c, c = PointGeomStart(p, t, sz)
  PROVE  PointsFit(c.b, d, noNulls) /\ c.b.size >= p.size
<1>1. p.size \in Nat
  BY DEF PointType
<1>2. CASE sz = 0
  <2>1. c.b = PointCoords(p, 1, CoordSize(d))
    BY <1>2, FitWidth DEF PointGeomStart, Ret
  <2>2. QED
    BY <1>1, <2>1, CoordsFit
<1>3. CASE sz # 0
  BY <1>1, <1>3 DEF PointGeomStart, Ret
<1>4. QED
  BY <1>2, <1>3

(* null_feat() writes one point, whether or not the dimensions are known.  *)
LEMMA PointNullGood ==
  ASSUME NEW p \in PointType, NEW d, NEW noNulls, ~noNulls, PointsFit(p, d, noNulls)
  PROVE  PointsFit(PointNullFeat(p).b, d, noNulls)
<1>1. CoordSize(p.active) = CoordSize(d) /\ CoordSize(d) \in Nat
  BY FitWidth, CoordSizeType
<1>2. CoordSize(p.active) = 1 * CoordSize(d)
  BY <1>1
<1>3. PICK w : w = CoordSize(p.active)
  OBVIOUS
<1>4. PointNullFeat(p).b = WritePoints(p, 1, w, NullIsEmpty) /\ w = 1 * CoordSize(d)
  BY <1>2, <1>3 DEF PointNullFeat, Ret
<1>5. NullIsEmpty \in BOOLEAN /\ 1 \in Nat
  BY BuilderAssumption
<1>6. QED
  BY <1>4, <1>5, WriteFit

(***************************************************************************)
(* The builder in use: a simple builder, or the child of a multi-geometry  *)
(* builder and the list over it.                                           *)
(***************************************************************************)
Kind == IF Multi THEN ChildType(target) ELSE target
PartOf(x) == IF Multi THEN x.child ELSE x

Good(x) ==
  /\ SimpleGood(Kind, PartOf(x))
  /\ Multi => GoodList(x.list, x.child.size)

Fit(x, d) == PointsFit(PointsOf(Kind, PartOf(x)), d, target # "POINT")

OuterSynced(x) == IF Multi THEN Synced(x.list, x.child.size) ELSE ListSynced(target, x)
PartsSynced(x) == Multi => ListSynced(Kind, PartOf(x))
CoordsSynced(x) == RingsSynced(Kind, PartOf(x))

(* What the target says of the builder.                                    *)
LEMMA InUse ==
  ASSUME TypeOK, NEW x \in BuilderType
  PROVE  /\ Kind \in SimpleTypes /\ PartOf(x) \in SimpleType(Kind)
         /\ PartOf(x).size \in Nat
         /\ Multi => /\ target \in MultiTypes /\ x \in MultiType(target)
                     /\ x.list \in ListType /\ x.level \in Nat
                     /\ Kind = ChildType(target) /\ ParentOf(Kind) = target
                     /\ Kind # target /\ target # "POINT" /\ PartOf(x) = x.child
         /\ ~Multi => Kind = target /\ PartOf(x) = x
<1>1. CASE Multi
  <2>1. target \in MultiTypes /\ x \in MultiType(target) /\ target # "POINT"
    BY <1>1, TargetKind DEF BuilderType
  <2>2. /\ x.list \in ListType /\ x.level \in Nat
        /\ x.child \in SimpleType(ChildType(target)) /\ ChildType(target) \in SimpleTypes
        /\ ChildType(target) # target
    BY <2>1, MultiParts, ChildTypeIsSimple
  <2>3. ParentOf(ChildType(target)) = target
    BY <2>1 DEF MultiTypes, ParentOf, ChildType
  <2>4. x.child.size \in Nat
    BY <2>2, SimpleParts
  <2>5. QED
    BY <1>1, <2>1, <2>2, <2>3, <2>4 DEF Kind, PartOf
<1>2. CASE ~Multi
  <2>1. target \in SimpleTypes /\ x \in SimpleType(target)
    BY <1>2, TargetKind DEF BuilderType
  <2>2. QED
    BY <1>2, <2>1, SimpleParts DEF Kind, PartOf
<1>3. QED
  BY <1>1, <1>2

(* The coordinates a consumer reads are those of the part.                 *)
LEMMA PointsInUse == Points = PointsOf(Kind, PartOf(b))
BY DEF Points, Kind, PartOf

(* What WithChild() and MultiRec() put together.                           *)
LEMMA MultiMembers ==
  ASSUME Multi, NEW level, NEW list, NEW child, NEW x
  PROVE  /\ MultiRec(level, list, child).child = child
         /\ MultiRec(level, list, child).list = list
         /\ PartOf(MultiRec(level, list, child)) = child
         /\ WithChild(x, child) = MultiRec(x.level, x.list, child)
BY DEF MultiRec, WithChild, PartOf

(* A child grew inside a good builder.                                     *)
LEMMA ChildGrown ==
  ASSUME TypeOK, Multi, NEW x \in BuilderType, Good(x),
         NEW child \in SimpleType(Kind), SimpleGood(Kind, child), child.size >= x.child.size,
         NEW level, NEW y, y = MultiRec(level, x.list, child)
  PROVE  Good(y) /\ PartOf(y) = child /\ y.list = x.list /\ y.child = child
<1>1. y.child = child /\ y.list = x.list /\ PartOf(y) = child
  BY MultiMembers
<1>2. x.list \in ListType /\ x.child.size \in Nat
  BY InUse
<1>3. child.size \in Nat
  BY InUse, SimpleParts
<1>4. GoodList(x.list, x.child.size)
  BY DEF Good
<1>5. GoodList(y.list, y.child.size)
  BY <1>1, <1>2, <1>3, <1>4, GrowGood
<1>6. QED
  BY <1>1, <1>5 DEF Good

(* new_dimensions() of the builder in use: no length changes.              *)
LEMMA NewDimensionsGood ==
  ASSUME TypeOK, Good(b), Fit(b, dim), NEW d \in Dims \cup {Unknown},
         d = dim \/ d \in Dims, NEW y, y = NewDimensionsCall(d)
  PROVE  /\ Good(y) /\ Fit(y, d)
         /\ OuterSynced(b) => OuterSynced(y)
         /\ PartsSynced(b) => PartsSynced(y)
         /\ CoordsSynced(b) => CoordsSynced(y)
<1> DEFINE s == SimpleNewDimensions(Kind, PartOf(b), d)
<1>1. /\ b \in BuilderType /\ d \in PointDims \cup {"UNKNOWN"}
      /\ d = dim \/ d \in PointDims
  BY AnnouncedDims, ReaderAssumption DEF TypeOK, AllDims, PointDims
<1>2. /\ Kind \in SimpleTypes /\ PartOf(b) \in SimpleType(Kind)
      /\ SimpleGood(Kind, PartOf(b))
      /\ PointsFit(PointsOf(Kind, PartOf(b)), dim, target # "POINT")
  BY <1>1, InUse DEF Good, Fit
<1>3. /\ SimpleGood(Kind, s) /\ PointsFit(PointsOf(Kind, s), d, target # "POINT")
      /\ s.size = PartOf(b).size
      /\ ListSynced(Kind, PartOf(b)) => ListSynced(Kind, s)
      /\ RingsSynced(Kind, PartOf(b)) => RingsSynced(Kind, s)
  <2> DEFINE k == Kind
             x == PartOf(b)
             noNulls == target # "POINT"
  <2>1. /\ k \in SimpleTypes /\ x \in SimpleType(k) /\ SimpleGood(k, x)
        /\ PointsFit(PointsOf(k, x), dim, noNulls)
    BY <1>2
  <2>2. s = SimpleNewDimensions(k, x, d)
    OBVIOUS
  <2> HIDE DEF k, x, noNulls, s
  <2>3. /\ SimpleGood(k, s) /\ PointsFit(PointsOf(k, s), d, noNulls) /\ s.size = x.size
        /\ ListSynced(k, x) => ListSynced(k, s)
        /\ RingsSynced(k, x) => RingsSynced(k, s)
    <3>1. PICK e : e = dim
      OBVIOUS
    <3>2. d = e \/ d \in PointDims
      BY <1>1, <3>1
    <3>3. PointsFit(PointsOf(k, x), e, noNulls)
      BY <2>1, <3>1
    <3>4. QED
      BY <2>1, <2>2, <3>2, <3>3, SimpleAnnounce
  <2>4. QED
    BY <2>3 DEF k, x, noNulls
<1>4. s \in SimpleType(Kind)
  BY <1>1, <1>2, SimpleNewDimensionsType
<1>5. CASE Multi
  <2>1. y = MultiRec(b.level, b.list, s) /\ b.child = PartOf(b)
    BY <1>5, MultiMembers DEF NewDimensionsCall, Kind, PartOf
  <2> HIDE DEF s
  <2>2. Good(y) /\ PartOf(y) = s /\ y.list = b.list /\ y.child = s
    <3>1. PartOf(b).size \in Nat
      BY <1>1, InUse
    <3>2. s.size >= b.child.size
      BY <1>3, <2>1, <3>1
    <3>3. QED
      BY <1>1, <1>3, <1>4, <1>5, <2>1, <3>2, ChildGrown
  <2>3. QED
    BY <1>3, <1>5, <2>1, <2>2 DEF Fit, OuterSynced, PartsSynced, CoordsSynced
<1>6. CASE ~Multi
  <2>1. y = s /\ PartOf(b) = b /\ PartOf(y) = y /\ Kind = target
    BY <1>6 DEF NewDimensionsCall, Kind, PartOf
  <2> HIDE DEF s
  <2>2. QED
    BY <1>3, <1>6, <2>1 DEF Good, Fit, OuterSynced, PartsSynced, CoordsSynced
<1>7. QED
  BY <1>5, <1>6

(* coords() of the builder in use; it leaves the lists of a polygon alone. *)
LEMMA CoordsGood ==
  ASSUME TypeOK, Good(b), Fit(b, dim), dim # Unknown, NEW n \in Nat,
         NEW y, y = CoordsCall(n)
  PROVE  Good(y) /\ Fit(y, dim)
<1> DEFINE s == SimpleCoords(Kind, PartOf(b), n, CoordSize(dim))
<1>1. b \in BuilderType
  BY DEF TypeOK
<1>2. /\ Kind \in SimpleTypes /\ PartOf(b) \in SimpleType(Kind)
      /\ SimpleGood(Kind, PartOf(b))
      /\ PointsFit(PointsOf(Kind, PartOf(b)), dim, target # "POINT")
  BY <1>1, InUse DEF Good, Fit
<1>3. /\ SimpleGood(Kind, s) /\ PointsFit(PointsOf(Kind, s), dim, target # "POINT")
      /\ s.size >= PartOf(b).size
  BY <1>2, SimpleWrite
<1>4. s \in SimpleType(Kind)
  BY <1>2, SimpleCoordsType
<1>5. CASE Multi
  <2>1. y = MultiRec(b.level, b.list, s) /\ b.child = PartOf(b)
    BY <1>5, MultiMembers DEF CoordsCall, Kind, PartOf
  <2> HIDE DEF s
  <2>2. Good(y) /\ PartOf(y) = s
    BY <1>1, <1>3, <1>4, <1>5, <2>1, ChildGrown
  <2>3. QED
    BY <1>3, <2>2 DEF Fit
<1>6. CASE ~Multi
  <2>1. y = s /\ PartOf(y) = y
    BY <1>6 DEF CoordsCall, Kind, PartOf
  <2> HIDE DEF s
  <2>2. QED
    BY <1>3, <1>6, <2>1 DEF Good, Fit
<1>7. QED
  BY <1>5, <1>6

(* ring_end() of a polygon builder ends the ring where the coordinates end.*)
LEMMA SimpleRingEndGood ==
  ASSUME NEW k \in SimpleTypes, NEW x \in SimpleType(k), SimpleGood(k, x),
         NEW y, y = SimpleRingEnd(k, x)
  PROVE  /\ SimpleGood(k, y) /\ RingsSynced(k, y)
         /\ y.size = x.size /\ PointsOf(k, y) = PointsOf(k, x)
<1>1. CASE k # "POLYGON"
  BY <1>1 DEF SimpleRingEnd, RingsSynced
<1>2. CASE k = "POLYGON"
  <2> DEFINE m == FinishElement(x.rings, x.points.size, TRUE)
  <2>1. y.size = x.size /\ y.list = x.list /\ y.rings = m /\ y.points = x.points
    BY <1>2 DEF SimpleRingEnd, PolygonRingEnd
  <2>2. /\ x.list \in ListType /\ x.rings \in ListType /\ x.points.size \in Nat
        /\ Len(x.rings.valid) \in Nat
    BY <1>2, SimpleParts
  <2>3. /\ GoodList(x.list, Len(x.rings.valid)) /\ GoodList(x.rings, x.points.size)
        /\ x.size = Len(x.list.valid)
    BY <1>2 DEF SimpleGood
  <2>4. /\ GoodList(m, x.points.size) /\ Synced(m, x.points.size)
        /\ Len(m.valid) = Len(x.rings.valid) + 1
    BY <2>2, <2>3, FinishGood
  <2> HIDE DEF m
  <2>5. GoodList(x.list, Len(m.valid))
    <3>1. Len(m.valid) \in Nat /\ Len(x.rings.valid) <= Len(m.valid)
      BY <2>2, <2>4
    <3>2. QED
      BY <2>2, <2>3, <3>1, GrowGood
  <2>6. QED
    BY <1>2, <2>1, <2>3, <2>4, <2>5 DEF SimpleGood, RingsSynced, PointsOf
<1>3. QED
  BY <1>1, <1>2

(* ring_end() of the builder in use.                                       *)
LEMMA RingEndGood ==
  ASSUME TypeOK, Good(b), Fit(b, dim), NEW y, y = RingEndCall
  PROVE  Good(y) /\ Fit(y, dim) /\ CoordsSynced(y)
<1> DEFINE s == SimpleRingEnd(Kind, PartOf(b))
<1>1. b \in BuilderType
  BY DEF TypeOK
<1>2. /\ Kind \in SimpleTypes /\ PartOf(b) \in SimpleType(Kind)
      /\ SimpleGood(Kind, PartOf(b)) /\ PartOf(b).size \in Nat
      /\ PointsFit(PointsOf(Kind, PartOf(b)), dim, target # "POINT")
  BY <1>1, InUse DEF Good, Fit
<1>3. /\ SimpleGood(Kind, s) /\ RingsSynced(Kind, s)
      /\ s.size = PartOf(b).size /\ PointsOf(Kind, s) = PointsOf(Kind, PartOf(b))
  BY <1>2, SimpleRingEndGood
<1>4. s \in SimpleType(Kind)
  BY <1>2, SimpleRingEndType
<1>5. CASE Multi
  <2>1. y = MultiRec(b.level, b.list, s) /\ b.child = PartOf(b)
    BY <1>5, MultiMembers DEF RingEndCall, Kind, PartOf
  <2> HIDE DEF s
  <2>2. s.size >= b.child.size
    BY <1>2, <1>3, <2>1
  <2>3. Good(y) /\ PartOf(y) = s
    BY <1>1, <1>3, <1>4, <1>5, <2>1, <2>2, ChildGrown
  <2>4. QED
    BY <1>2, <1>3, <2>3 DEF Fit, CoordsSynced
<1>6. CASE ~Multi
  <2>1. y = s /\ PartOf(y) = y
    BY <1>6 DEF RingEndCall, Kind, PartOf
  <2> HIDE DEF s
  <2>2. QED
    BY <1>2, <1>3, <1>6, <2>1 DEF Good, Fit, CoordsSynced
<1>7. QED
  BY <1>5, <1>6

(* geom_start() of a simple builder, whatever its class.                   *)
LEMMA SimpleStartGood ==
  ASSUME NEW k \in SimpleTypes, NEW x \in SimpleType(k), SimpleGood(k, x),
         NEW d, NEW noNulls, PointsFit(PointsOf(k, x), d, noNulls), d # Unknown,
         NEW t, NEW sz, NEW c, c = SimpleGeomStart(k, x, t, sz)
  PROVE  /\ SimpleGood(k, c.b) /\ PointsFit(PointsOf(k, c.b), d, noNulls)
         /\ c.b.size >= x.size
         /\ RingsSynced(k, x) => RingsSynced(k, c.b)
         /\ c.res = "ABORT_FEATURE" => ListSynced(k, c.b)
         /\ ListSynced(k, x) => ListSynced(k, c.b)
         /\ c.res = "CONTINUE" /\ k # "POINT" => t \in {k, ParentOf(k)}
         /\ c.res # "THROW" => t \in {k, ParentOf(k)} \/ sz = 0
<1>0. x.size \in Nat
  BY SimpleParts
<1>1. CASE k = "POINT"
  <2>1. c = PointGeomStart(x, t, sz) /\ x \in PointType /\ PointsOf(k, x) = x
        /\ PointsOf(k, c.b) = c.b
    BY <1>1 DEF SimpleGeomStart, SimpleType, PointsOf
  <2>2. PointsFit(c.b, d, noNulls) /\ c.b.size >= x.size
    BY <2>1, PointStartGood
  <2>3. c.res # "THROW" => t \in {k, ParentOf(k)} \/ sz = 0
    BY <1>1, <2>1 DEF PointGeomStart, Ret, ParentOf
  <2>4. QED
    BY <1>1, <2>1, <2>2, <2>3 DEF SimpleGood, ListSynced, RingsSynced
<1>2. CASE k # "POINT" /\ c.res = "ABORT_FEATURE"
  <2>1. Closed(k, x, c.b) /\ (t \in {k, ParentOf(k)} \/ sz = 0)
    BY <1>2, SimpleGeomStartGood
  <2>2. k = "POLYGON" => x.rings = c.b.rings /\ c.b.points = x.points
    BY <2>1 DEF Closed, PointsOf
  <2>3. QED
    BY <1>0, <1>2, <2>1, <2>2 DEF Closed, RingsSynced
<1>3. CASE k # "POINT" /\ c.res # "ABORT_FEATURE"
  <2>1. /\ c.b = x
        /\ c.res = "CONTINUE" => t \in {k, ParentOf(k)}
        /\ c.res # "THROW" => t \in {k, ParentOf(k)} \/ sz = 0
    BY <1>3, SimpleGeomStartGood
  <2>2. QED
    BY <1>0, <1>3, <2>1
<1>4. QED
  BY <1>1, <1>2, <1>3

(* The list of a multi-geometry builder, finished.                         *)
LEMMA MultiFinishGood ==
  ASSUME TypeOK, Multi, NEW x \in BuilderType, Good(x), NEW level,
         NEW notNull \in BOOLEAN, NEW y, y = MultiFinish(x, level, notNull)
  PROVE  Good(y) /\ OuterSynced(y) /\ PartOf(y) = PartOf(x)
<1> DEFINE n == x.child.size
           m == FinishElement(x.list, n, notNull)
<1>1. y = MultiRec(level, m, x.child)
  BY DEF MultiFinish
<1>2. x.list \in ListType /\ n \in Nat /\ GoodList(x.list, n) /\ PartOf(x) = x.child
  BY InUse DEF Good
<1>3. GoodList(m, n) /\ Synced(m, n)
  <2> HIDE DEF n
  <2>1. QED
    BY <1>2, FinishGood
<1> HIDE DEF m
<1>4. y.child = x.child /\ y.list = m /\ PartOf(y) = x.child
  BY <1>1, MultiMembers
<1>5. QED
  BY <1>2, <1>3, <1>4 DEF Good, OuterSynced

(* geom_start() of a multi-geometry builder: the feature ends with its     *)
(* list finished; a part goes to the child.                                *)
LEMMA MultiStartGood ==
  ASSUME TypeOK, Multi, NEW x \in BuilderType, Good(x), NEW d, Fit(x, d), d # Unknown,
         NEW t, NEW sz \in Int, NEW c, c = MultiGeomStart(target, x, t, sz)
  PROVE  /\ Good(c.b) /\ Fit(c.b, d)
         /\ CoordsSynced(x) => CoordsSynced(c.b)
         /\ PartsSynced(x) => PartsSynced(c.b)
         /\ c.res = "CONTINUE" /\ x.level >= 1 => t \in {Kind, ParentOf(Kind)} \/ sz = 0
         /\ c.res = "ABORT_FEATURE" => /\ OuterSynced(c.b) /\ PartOf(c.b) = PartOf(x)
                                       /\ x.level = 0
         /\ x.level = 0 /\ t = target => PartOf(c.b) = PartOf(x)
<1> DEFINE k == Kind
           part == PartOf(x)
           child == SimpleGeomStart(k, part, t, sz)
           noNulls == target # "POINT"
<1>1. /\ k \in SimpleTypes /\ part \in SimpleType(k) /\ SimpleGood(k, part)
      /\ PointsFit(PointsOf(k, part), d, noNulls)
      /\ k = ChildType(target) /\ part = x.child /\ x.level \in Nat
  BY InUse DEF Good, Fit
<1>2. /\ SimpleGood(k, child.b) /\ PointsFit(PointsOf(k, child.b), d, noNulls)
      /\ child.b.size >= part.size
      /\ RingsSynced(k, part) => RingsSynced(k, child.b)
      /\ ListSynced(k, part) => ListSynced(k, child.b)
      /\ child.res # "THROW" => t \in {k, ParentOf(k)} \/ sz = 0
  <2> HIDE DEF k, part, noNulls
  <2>1. QED
    BY <1>1, SimpleStartGood
<1>3. SimpleGeomStart(ChildType(target), x.child, t, sz) = child
  BY <1>1
<1>4. child.b \in SimpleType(k)
  <2> HIDE DEF k, part
  <2>1. QED
    BY <1>1, SimpleGeomStartType
<1> HIDE DEF k, part, child, noNulls
<1>5. ASSUME NEW levels, c = MultiPass(x, levels, child)
      PROVE  /\ Good(c.b) /\ Fit(c.b, d) /\ (CoordsSynced(x) => CoordsSynced(c.b))
             /\ PartsSynced(x) => PartsSynced(c.b)
             /\ c.res = "CONTINUE" => t \in {Kind, ParentOf(Kind)} \/ sz = 0
             /\ c.res # "ABORT_FEATURE"
  <2>1. /\ c.b = MultiRec(x.level + levels, x.list, child.b)
        /\ c.res # "ABORT_FEATURE"
        /\ c.res = "CONTINUE" => child.res # "THROW"
    BY <1>5 DEF MultiPass, Ret
  <2>2. Good(c.b) /\ PartOf(c.b) = child.b
    BY <1>1, <1>2, <1>4, <2>1, ChildGrown DEF k
  <2>3. QED
    BY <1>2, <2>1, <2>2 DEF Fit, CoordsSynced, PartsSynced, k, part, noNulls
<1>6. CASE x.level >= 1
  <2>1. c = MultiPass(x, 1, child)
    BY <1>3, <1>6 DEF MultiGeomStart
  <2>2. x.level # 0
    BY <1>1, <1>6
  <2>3. QED
    BY <1>5, <2>1, <2>2
<1>7. CASE ~(x.level >= 1) /\ sz = 0
  <2>1. c.b = MultiFinish(x, x.level + 1, TRUE)
    BY <1>7 DEF MultiGeomStart, Ret
  <2>2. Good(c.b) /\ OuterSynced(c.b) /\ PartOf(c.b) = PartOf(x)
    BY <2>1, MultiFinishGood
  <2>3. x.level = 0
    BY <1>1, <1>7
  <2>4. QED
    BY <1>7, <2>2, <2>3 DEF Fit, CoordsSynced, PartsSynced
<1>8. CASE ~(x.level >= 1) /\ sz # 0 /\ t = target
  <2>1. c.b = MultiRec(x.level + 1, x.list, x.child) /\ c.res = "CONTINUE"
    BY <1>8 DEF MultiGeomStart, Ret
  <2>2. /\ x.child \in SimpleType(Kind) /\ SimpleGood(Kind, x.child)
        /\ x.child.size >= x.child.size
    <3>1. x.child.size \in Nat
      BY <1>1, SimpleParts DEF part, k
    <3>2. QED
      BY <1>1, <3>1 DEF part, k
  <2>3. Good(c.b) /\ PartOf(c.b) = x.child
    BY <2>1, <2>2, ChildGrown
  <2>4. QED
    BY <1>1, <1>8, <2>1, <2>3 DEF Fit, CoordsSynced, PartsSynced, part
<1>9. CASE ~(x.level >= 1) /\ sz # 0 /\ t # target /\ t = ChildType(target)
  <2>1. c = MultiPass(x, 2, child)
    BY <1>3, <1>9 DEF MultiGeomStart
  <2>2. QED
    BY <1>5, <1>9, <2>1
<1>10. CASE ~(x.level >= 1) /\ sz # 0 /\ t # target /\ t # ChildType(target)
  <2>1. c.b = x /\ c.res = "THROW"
    BY <1>10 DEF MultiGeomStart, Ret
  <2>2. QED
    BY <2>1
<1>11. QED
  BY <1>6, <1>7, <1>8, <1>9, <1>10

(* geom_start() of the builder in use.                                     *)
LEMMA GeomStartGood ==
  ASSUME TypeOK, NEW x \in BuilderType, Good(x), NEW d, Fit(x, d), d # Unknown,
         NEW t, NEW sz \in Int, NEW c, c = GeomStartCall(x, t, sz)
  PROVE  /\ Good(c.b) /\ Fit(c.b, d)
         /\ CoordsSynced(x) => CoordsSynced(c.b)
         /\ c.res = "ABORT_FEATURE" => /\ OuterSynced(c.b)
                                       /\ Multi => x.level = 0
         /\ PartsSynced(x) => PartsSynced(c.b)
         /\ Multi /\ x.level >= 1 /\ c.res = "CONTINUE" =>
              t \in {Kind, ParentOf(Kind)} \/ sz = 0
         /\ ~Multi /\ target # "POINT" /\ c.res = "CONTINUE" => t \in {Kind, ParentOf(Kind)}
<1>1. CASE Multi
  <2>1. c = MultiGeomStart(target, x, t, sz)
    BY <1>1 DEF GeomStartCall
  <2>2. /\ Good(c.b) /\ Fit(c.b, d)
        /\ CoordsSynced(x) => CoordsSynced(c.b)
        /\ PartsSynced(x) => PartsSynced(c.b)
        /\ c.res = "CONTINUE" /\ x.level >= 1 => t \in {Kind, ParentOf(Kind)} \/ sz = 0
        /\ c.res = "ABORT_FEATURE" => OuterSynced(c.b) /\ x.level = 0
    BY <1>1, <2>1, MultiStartGood
  <2>3. QED
    BY <1>1, <2>2
<1>2. CASE ~Multi
  <2> DEFINE k == Kind
             noNulls == target # "POINT"
  <2>1. /\ k \in SimpleTypes /\ x \in SimpleType(k) /\ SimpleGood(k, x)
        /\ PointsFit(PointsOf(k, x), d, noNulls) /\ k = target
        /\ c = SimpleGeomStart(k, x, t, sz)
    BY <1>2, InUse DEF Good, Fit, GeomStartCall
  <2> HIDE DEF k, noNulls
  <2>2. /\ SimpleGood(k, c.b) /\ PointsFit(PointsOf(k, c.b), d, noNulls)
        /\ RingsSynced(k, x) => RingsSynced(k, c.b)
        /\ c.res = "ABORT_FEATURE" => ListSynced(k, c.b)
        /\ c.res = "CONTINUE" /\ k # "POINT" => t \in {k, ParentOf(k)}
    BY <2>1, SimpleStartGood
  <2>3. PartOf(x) = x /\ PartOf(c.b) = c.b
    BY <1>2 DEF PartOf
  <2>4. QED
    BY <1>2, <2>1, <2>2, <2>3
       DEF Good, Fit, CoordsSynced, OuterSynced, PartsSynced, k, noNulls
<1>3. QED
  BY <1>1, <1>2

(* null_feat() of the builder in use ends every list of the output.        *)
LEMMA NullFeatGood ==
  ASSUME TypeOK, Good(b), Fit(b, dim)
  PROVE  \A y : y = NullFeatCall.b =>
           /\ Good(y) /\ Fit(y, dim) /\ OuterSynced(y)
           /\ PartsSynced(b) => PartsSynced(y)
           /\ CoordsSynced(b) => CoordsSynced(y)
<1> SUFFICES ASSUME NEW y, y = NullFeatCall.b
             PROVE  /\ Good(y) /\ Fit(y, dim) /\ OuterSynced(y)
                    /\ PartsSynced(b) => PartsSynced(y)
                    /\ CoordsSynced(b) => CoordsSynced(y)
  OBVIOUS
<1>0. b \in BuilderType
  BY DEF TypeOK
<1>1. CASE Multi
  <2>1. y = MultiFinish(b, b.level, FALSE)
    BY <1>1 DEF NullFeatCall, MultiNullFeat, Ret
  <2>2. Good(y) /\ OuterSynced(y) /\ PartOf(y) = PartOf(b)
    BY <1>0, <1>1, <2>1, MultiFinishGood
  <2>3. QED
    BY <2>2 DEF Fit, PartsSynced, CoordsSynced
<1>2. CASE ~Multi /\ target = "POINT"
  <2>1. b \in PointType /\ y = PointNullFeat(b).b
    BY <1>0, <1>2, InUse DEF NullFeatCall, SimpleNullFeat, SimpleType
  <2>2. PartOf(b) = b /\ PartOf(y) = y /\ Kind = "POINT"
    BY <1>2 DEF PartOf, Kind
  <2>3. PICK noNulls : noNulls = (target # "POINT")
    OBVIOUS
  <2>4. PointsFit(b, dim, noNulls) /\ ~noNulls
    BY <1>2, <2>2, <2>3 DEF Fit, PointsOf
  <2>5. PICK d : d = dim
    OBVIOUS
  <2>6. PointsFit(y, d, noNulls)
    BY <2>1, <2>4, <2>5, PointNullGood
  <2>7. Fit(y, dim)
    BY <2>2, <2>3, <2>5, <2>6 DEF Fit, PointsOf
  <2>8. QED
    BY <1>2, <2>2, <2>7
       DEF Good, SimpleGood, OuterSynced, ListSynced, PartsSynced, CoordsSynced, RingsSynced
<1>3. CASE ~Multi /\ target # "POINT"
  <2>1. /\ target \in SimpleTypes \ {"POINT"} /\ b \in SimpleType(target)
        /\ SimpleGood(target, b) /\ y = SimpleNullFeat(target, b).b
        /\ Kind = target /\ PartOf(b) = b /\ PartOf(y) = y
    BY <1>0, <1>3, InUse DEF Good, NullFeatCall, PartOf
  <2>2. Closed(target, b, y)
    BY <2>1, SimpleNullFeatGood
  <2>3. target = "POLYGON" => y.rings = b.rings /\ y.points = b.points
    BY <2>2 DEF Closed, PointsOf
  <2>4. QED
    BY <1>3, <2>1, <2>2, <2>3
       DEF Closed, Good, Fit, OuterSynced, PartsSynced, CoordsSynced, RingsSynced
<1>4. QED
  BY <1>1, <1>2, <1>3

(* feat_end() of the builder in use.                                       *)
LEMMA FeatEndGood ==
  ASSUME TypeOK, Good(b), Fit(b, dim), NEW y,
         y = IF Multi THEN MultiFeatEnd(b) ELSE SimpleFeatEnd(target, b)
  PROVE  /\ Good(y) /\ Fit(y, dim) /\ OuterSynced(y)
         /\ PartsSynced(b) => PartsSynced(y)
         /\ CoordsSynced(b) => CoordsSynced(y)
<1>0. b \in BuilderType
  BY DEF TypeOK
<1>1. CASE Multi
  <2>1. y = MultiFinish(b, b.level, TRUE)
    BY <1>1 DEF MultiFeatEnd
  <2>2. Good(y) /\ OuterSynced(y) /\ PartOf(y) = PartOf(b)
    BY <1>0, <1>1, <2>1, MultiFinishGood
  <2>3. QED
    BY <2>2 DEF Fit, PartsSynced, CoordsSynced
<1>2. CASE ~Multi /\ target = "POINT"
  <2>1. y = b
    BY <1>2 DEF SimpleFeatEnd
  <2>2. QED
    BY <1>2, <2>1 DEF OuterSynced, ListSynced
<1>3. CASE ~Multi /\ target # "POINT"
  <2>1. /\ target \in SimpleTypes \ {"POINT"} /\ b \in SimpleType(target)
        /\ SimpleGood(target, b) /\ y = SimpleFeatEnd(target, b)
        /\ Kind = target /\ PartOf(b) = b /\ PartOf(y) = y
    BY <1>0, <1>3, InUse DEF Good, PartOf
  <2>2. Closed(target, b, y)
    BY <2>1, SimpleFeatEndGood
  <2>3. target = "POLYGON" => y.rings = b.rings /\ y.points = b.points
    BY <2>2 DEF Closed, PointsOf
  <2>4. QED
    BY <1>3, <2>1, <2>2, <2>3
       DEF Closed, Good, Fit, OuterSynced, PartsSynced, CoordsSynced, RingsSynced
<1>4. QED
  BY <1>1, <1>2, <1>3

(* geom_end() of a multi-geometry builder ends the child's feature, unless *)
(* it is the multi-geometry itself that ends.                              *)
LEMMA MultiGeomEndGood ==
  ASSUME TypeOK, Multi, Good(b), Fit(b, dim), b.level >= 1,
         NEW y, y = MultiGeomEnd(target, b)
  PROVE  /\ Good(y) /\ Fit(y, dim)
         /\ CoordsSynced(b) => CoordsSynced(y)
         /\ b.level > 1 \/ PartsSynced(b) => PartsSynced(y)
<1> DEFINE k == Kind
           part == PartOf(b)
           ended == SimpleFeatEnd(k, part)
           child == IF b.level - 1 > 0 THEN ended ELSE part
<1>1. /\ k \in SimpleTypes /\ part \in SimpleType(k) /\ SimpleGood(k, part)
      /\ k = ChildType(target) /\ part = b.child /\ b.level \in Nat /\ part.size \in Nat
      /\ b \in BuilderType
  BY InUse DEF Good, TypeOK
<1>2. y = MultiRec(b.level - 1, b.list, child)
  BY <1>1 DEF MultiGeomEnd
<1>3. /\ SimpleGood(k, ended) /\ ListSynced(k, ended) /\ ended.size >= part.size
      /\ PointsOf(k, ended) = PointsOf(k, part)
      /\ RingsSynced(k, part) => RingsSynced(k, ended)
      /\ ended \in SimpleType(k)
  <2> HIDE DEF k, part
  <2>1. ended \in SimpleType(k)
    BY <1>1, SimpleFeatEndType
  <2>2. CASE k = "POINT"
    BY <1>1, <2>1, <2>2 DEF SimpleFeatEnd, ListSynced
  <2>3. CASE k # "POINT"
    <3>1. Closed(k, part, ended)
      BY <1>1, <2>3, SimpleFeatEndGood
    <3>2. k = "POLYGON" => part.rings = ended.rings /\ ended.points = part.points
      BY <3>1 DEF Closed, PointsOf
    <3> HIDE DEF ended
    <3>3. QED
      BY <1>1, <2>1, <3>1, <3>2 DEF Closed, RingsSynced
  <2>4. QED
    BY <2>2, <2>3
<1>4. /\ child \in SimpleType(k) /\ SimpleGood(k, child) /\ child.size >= b.child.size
      /\ PointsOf(k, child) = PointsOf(k, part)
      /\ RingsSynced(k, part) => RingsSynced(k, child)
      /\ b.level > 1 \/ ListSynced(k, part) => ListSynced(k, child)
  <2> HIDE DEF k, part, ended
  <2>1. CASE b.level - 1 > 0
    BY <1>1, <1>3, <2>1
  <2>2. CASE ~(b.level - 1 > 0)
    BY <1>1, <2>2
  <2>3. QED
    BY <2>1, <2>2
<1> HIDE DEF child, ended, part, k
<1>5. Good(y) /\ PartOf(y) = child
  BY <1>1, <1>2, <1>4, ChildGrown DEF k
<1>6. QED
  BY <1>1, <1>4, <1>5 DEF Fit, CoordsSynced, PartsSynced, k, part

(***************************************************************************)
(* The invariant of the output. Besides good lists: only geometries the    *)
(* target accepts are ever open, so that coordinates are only written      *)
(* inside the part (and ring) that will be finished after them; each level *)
(* of lists is therefore in step with the one below whenever no part (no   *)
(* ring) is open, and the outer one between features.                      *)
(***************************************************************************)
Outside == phase \in {"start", "between", "feature", "read"}
InRing == phase = "geometry" /\ Top.type = "RING"
InPart == phase = "geometry" /\ Top.type \in {Kind, "RING"}

(* A member of a multi-geometry may have any type as long as it is empty:  *)
(* the child finishes an element for it, whatever it is.                   *)
Accepted(f) ==
  \/ f.type \in {Kind, ParentOf(Kind)}
  \/ Kind = "POLYGON" /\ f.type = "RING"
  \/ f.size = 0 /\ f.type # "RING"

FamilyInv ==
  target # "POINT" =>
    \A i \in 1 .. Len(stack) :
      /\ Accepted(stack[i])
      /\ stack[i].type = "RING" => i > 1 /\ stack[i - 1].type = "POLYGON"

SyncInv ==
  phase # "failed" =>
    /\ Outside => OuterSynced(b)
    /\ ~InPart => PartsSynced(b)
    /\ ~InRing => CoordsSynced(b)

GoodInv ==
  /\ Good(b) /\ Fit(b, dim)
  /\ phase = "start" => dim = Unknown
  /\ phase = "geometry" => dim # Unknown

ReleasedInv ==
  /\ released # "no" => phase = "read"
  /\ released = "yes" => Points.ranges <= 1

OutputInv == GoodInv /\ FamilyInv /\ SyncInv /\ ReleasedInv

(* Assembling the invariant after a call: the target never changes.        *)
LEMMA OutputNext ==
  ASSUME UNCHANGED target, Good(b'), Fit(b', dim'), FamilyInv', released' = "no",
         phase' # "start", phase' = "geometry" => dim' # Unknown,
         phase' # "failed" => /\ Outside' => OuterSynced(b')
                              /\ ~InPart' => PartsSynced(b')
                              /\ ~InRing' => CoordsSynced(b')
  PROVE  OutputInv'
<1>1. Multi' = Multi /\ Kind' = Kind
  BY DEF Multi, Kind
<1>2. PartOf(b)' = PartOf(b')
  BY <1>1 DEF PartOf
<1>3. Good(b)' /\ Fit(b, dim)'
  BY <1>1, <1>2 DEF Good, Fit
<1>4. /\ OuterSynced(b)' <=> OuterSynced(b')
      /\ PartsSynced(b)' <=> PartsSynced(b')
      /\ CoordsSynced(b)' <=> CoordsSynced(b')
  BY <1>1, <1>2 DEF OuterSynced, PartsSynced, CoordsSynced
<1>5. SyncInv'
  BY <1>4 DEF SyncInv
<1>6. QED
  BY <1>3, <1>5 DEF OutputInv, GoodInv, ReleasedInv

(* Nothing open: no geometry to complain about.                            *)
LEMMA FamilyEmpty ==
  ASSUME stack' = << >>
  PROVE  FamilyInv'
BY DEF FamilyInv

(* Fewer geometries open.                                                  *)
LEMMA FamilyPop ==
  ASSUME ReaderInv, phase = "geometry", FamilyInv, UNCHANGED target,
         stack' = SubSeq(stack, 1, Len(stack) - 1)
  PROVE  FamilyInv'
<1>1. stack # << >> /\ Len(stack) \in Nat \ {0}
  BY TopFrame
<1>2. Len(stack') = Len(stack) - 1 /\ \A i \in 1 .. Len(stack') : stack'[i] = stack[i]
  BY <1>1, PopInv
<1>3. Kind' = Kind
  BY DEF Kind, Multi
<1>4. ASSUME target # "POINT", NEW i \in 1 .. Len(stack')
      PROVE  /\ Accepted(stack'[i])
             /\ stack'[i].type = "RING" => i > 1 /\ stack'[i - 1].type = "POLYGON"
  <2>1. i \in 1 .. Len(stack) /\ stack'[i] = stack[i]
    BY <1>1, <1>2
  <2>2. i > 1 => i - 1 \in 1 .. Len(stack') /\ stack'[i - 1] = stack[i - 1]
    BY <1>1, <1>2
  <2>3. QED
    BY <1>4, <2>1, <2>2 DEF FamilyInv
<1>5. QED
  BY <1>3, <1>4 DEF FamilyInv, Accepted

(* The same geometries open, one of them with another count.               *)
LEMMA FamilyCount ==
  ASSUME ReaderInv, phase = "geometry", FamilyInv, UNCHANGED target, NEW n \in Nat,
         stack' = CountOne(n)
  PROVE  FamilyInv'
<1>1. /\ Len(stack') = Len(stack) /\ Len(stack) \in Nat \ {0}
      /\ \A i \in 1 .. Len(stack) :
           stack'[i].type = stack[i].type /\ stack'[i].size = stack[i].size
  <2>1. Len(stack) \in Nat \ {0} /\ Top = stack[Len(stack)]
    BY TopFrame
  <2>2. /\ Len(stack') = Len(stack) /\ stack'[Len(stack)] = Counted(Top, n)
        /\ \A i \in 1 .. Len(stack) - 1 : stack'[i] = stack[i]
    BY CountFrames
  <2>3. Counted(Top, n).type = Top.type /\ Counted(Top, n).size = Top.size
    BY DEF Counted
  <2>4. QED
    BY <2>1, <2>2, <2>3
<1>2. Kind' = Kind
  BY DEF Kind, Multi
<1>3. ASSUME target # "POINT", NEW i \in 1 .. Len(stack')
      PROVE  /\ Accepted(stack'[i])
             /\ stack'[i].type = "RING" => i > 1 /\ stack'[i - 1].type = "POLYGON"
  <2>1. /\ i \in 1 .. Len(stack)
        /\ stack'[i].type = stack[i].type /\ stack'[i].size = stack[i].size
    BY <1>1
  <2>2. i > 1 => i - 1 \in 1 .. Len(stack) /\ stack'[i - 1].type = stack[i - 1].type
    BY <1>1
  <2>3. QED
    BY <1>3, <2>1, <2>2 DEF FamilyInv, Accepted
<1>4. QED
  BY <1>2, <1>3 DEF FamilyInv, Accepted

(* One geometry more: an accepted one, or a ring of a polygon.             *)
LEMMA FamilyPush ==
  ASSUME ReaderInv, FamilyInv, UNCHANGED target, NEW f \in FrameType,
         phase \in {"feature", "geometry"},
         stack' = Append(IF stack = << >> THEN stack ELSE CountOne(1), f),
         target # "POINT" =>
           \/ Accepted(f) /\ f.type # "RING"
           \/ /\ phase = "geometry" /\ Top.type = "POLYGON"
              /\ Kind = "POLYGON" /\ f.type = "RING"
  PROVE  FamilyInv'
<1>1. Kind' = Kind
  BY DEF Kind, Multi
<1>2. CASE phase = "feature"
  <2>1. stack = << >>
    BY <1>2 DEF ReaderInv, StackWellFormed
  <2>2. Len(stack') = 1 /\ stack'[1] = f
    BY <2>1, PushFirst
  <2>3. QED
    BY <1>1, <1>2, <2>2 DEF FamilyInv, Accepted
<1>3. CASE phase = "geometry"
  <2>1. stack # << >> /\ Len(stack) \in Nat \ {0} /\ Top = stack[Len(stack)]
    BY <1>3, TopFrame
  <2>2. /\ Len(stack') = Len(stack) + 1
        /\ stack'[Len(stack) + 1] = f
        /\ stack'[Len(stack)] = Counted(Top, 1)
        /\ \A i \in 1 .. Len(stack) - 1 : stack'[i] = stack[i]
    BY <1>3, <2>1, PushFrames
  <2>3. \A i \in 1 .. Len(stack) :
          stack'[i].type = stack[i].type /\ stack'[i].size = stack[i].size
    BY <2>1, <2>2 DEF Counted
  <2>4. ASSUME target # "POINT", NEW i \in 1 .. Len(stack')
        PROVE  /\ Accepted(stack'[i])
               /\ stack'[i].type = "RING" => i > 1 /\ stack'[i - 1].type = "POLYGON"
    <3>1. CASE i = Len(stack) + 1
      <4>1. i > 1 /\ i - 1 = Len(stack) /\ stack'[i - 1].type = Top.type
        BY <2>1, <2>3, <3>1
      <4>2. QED
        BY <2>2, <2>4, <3>1, <4>1, Zenon DEF Accepted
    <3>2. CASE i \in 1 .. Len(stack)
      <4>1. stack'[i].type = stack[i].type /\ stack'[i].size = stack[i].size
        BY <2>3, <3>2
      <4>2. i > 1 => i - 1 \in 1 .. Len(stack) /\ stack'[i - 1].type = stack[i - 1].type
        BY <2>1, <2>3, <3>2
      <4>3. QED
        BY <2>4, <3>2, <4>1, <4>2 DEF FamilyInv, Accepted
    <3>3. i = Len(stack) + 1 \/ i \in 1 .. Len(stack)
      BY <2>1, <2>2
    <3>4. QED
      BY <3>1, <3>2, <3>3, Zenon
  <2>5. QED
    BY <1>1, <2>4 DEF FamilyInv, Accepted
<1>4. QED
  BY <1>2, <1>3

(* Which geometries a target keeps open, seen from the innermost one.      *)
LEMMA TopFamily ==
  ASSUME ReaderInv, phase = "geometry", FamilyInv, target # "POINT"
  PROVE  /\ Accepted(Top)
         /\ MayGoOn(Top) => Top.size # 0
         /\ Top.type = "RING" =>
              Len(stack) > 1 /\ stack[Len(stack) - 1].type = "POLYGON"
<1>1. Len(stack) \in Nat \ {0} /\ Top = stack[Len(stack)] /\ Top \in FrameType
  BY TopFrame
<1>2. Len(stack) \in 1 .. Len(stack)
  BY <1>1
<1>3. MayGoOn(Top) => Top.size # 0
  BY <1>1 DEF MayGoOn, FrameType
<1>4. QED
  BY <1>1, <1>2, <1>3 DEF FamilyInv

(* No point is refused while nothing was released.                         *)
LEMMA NotReleased ==
  ASSUME IInv, OutputInv, phase # "read"
  PROVE  released = "no"
BY DEF OutputInv, ReleasedInv

(* read_meta(): nothing has been written.                                  *)
LEMMA ReadMetaOutput ==
  ASSUME IInv, OutputInv, CallReadMeta
  PROVE  OutputInv'
<1>1. PICK t \in GeometryTypes \cup {Unknown}, d \in Dims \cup {Unknown} :
        ReadMeta(t, d) /\ b' = NewDimensionsCall(d) /\ UNCHANGED <<target, released>>
  BY DEF CallReadMeta
<1>2. phase = "start" /\ phase' = "between" /\ dim' = d /\ stack' = stack
  BY <1>1 DEF ReadMeta
<1>3. /\ TypeOK /\ Good(b) /\ Fit(b, dim) /\ dim = Unknown
      /\ OuterSynced(b) /\ PartsSynced(b) /\ CoordsSynced(b)
  BY <1>2 DEF IInv, OutputInv, GoodInv, SyncInv, Outside, InPart, InRing
<1>4. d = dim \/ d \in Dims
  BY <1>3
<1>5. Good(b') /\ Fit(b', dim') /\ OuterSynced(b') /\ PartsSynced(b') /\ CoordsSynced(b')
  BY <1>1, <1>2, <1>3, <1>4, NewDimensionsGood
<1>6. stack' = << >>
  BY <1>2, IInvReader DEF ReaderInv, StackWellFormed
<1>7. released' = "no"
  BY <1>1, <1>2, NotReleased
<1>8. QED
  BY <1>1, <1>2, <1>5, <1>6, <1>7, FamilyEmpty, OutputNext

(* feat_start() only resets level_.                                        *)
LEMMA FeatStartOutput ==
  ASSUME IInv, OutputInv, CallFeatStart
  PROVE  OutputInv'
<1>1. /\ phase = "between" /\ phase' = "feature" /\ UNCHANGED <<target, released, dim, stack>>
      /\ b' = IF Multi THEN MultiFeatStart(b) ELSE b
  BY DEF CallFeatStart, FeatStart
<1>2. /\ Good(b) /\ Fit(b, dim)
      /\ OuterSynced(b) /\ PartsSynced(b) /\ CoordsSynced(b)
  BY <1>1 DEF OutputInv, GoodInv, SyncInv, Outside, InPart, InRing
<1>3. Good(b') /\ Fit(b', dim') /\ OuterSynced(b') /\ PartsSynced(b') /\ CoordsSynced(b')
  <2>1. CASE Multi
    <3>1. b'.child = b.child /\ b'.list = b.list /\ PartOf(b') = PartOf(b)
      BY <1>1, <2>1 DEF MultiFeatStart, MultiRec, PartOf
    <3>2. QED
      BY <1>1, <1>2, <2>1, <3>1
         DEF Good, Fit, OuterSynced, PartsSynced, CoordsSynced
  <2>2. CASE ~Multi
    <3>1. b' = b
      BY <1>1, <2>2
    <3>2. QED
      BY <1>1, <1>2, <3>1
  <2>3. QED
    BY <2>1, <2>2
<1>4. stack' = << >>
  BY <1>1, IInvReader DEF ReaderInv, StackWellFormed
<1>5. released' = "no"
  BY <1>1, NotReleased
<1>6. QED
  BY <1>1, <1>3, <1>4, <1>5, FamilyEmpty, OutputNext

(* null_feat() finishes the outer list and touches nothing below it.       *)
LEMMA NullFeatOutput ==
  ASSUME IInv, OutputInv, CallNullFeat
  PROVE  OutputInv'
<1>1. /\ phase = "feature" /\ UNCHANGED <<target, released, dim>> /\ b' = NullFeatCall.b
      /\ phase' \in {"closing", "between", "read", "failed"}
      /\ stack' = stack \/ stack' = << >>
  BY DEF CallNullFeat, NullFeat, Unwind, EndFeature
<1>2. /\ TypeOK /\ Good(b) /\ Fit(b, dim) /\ PartsSynced(b) /\ CoordsSynced(b)
  BY <1>1 DEF IInv, OutputInv, GoodInv, SyncInv, Outside, InPart, InRing
<1>3. Good(b') /\ Fit(b', dim') /\ OuterSynced(b') /\ PartsSynced(b') /\ CoordsSynced(b')
  BY <1>1, <1>2, NullFeatGood
<1>4. stack' = << >>
  BY <1>1, IInvReader DEF ReaderInv, StackWellFormed
<1>5. released' = "no"
  BY <1>1, NotReleased
<1>6. QED
  BY <1>1, <1>3, <1>4, <1>5, FamilyEmpty, OutputNext

(* geom_start(): what is in step stays in step, except the lists above the *)
(* geometry that is opened.                                                *)
LEMMA GeomStartOutput ==
  ASSUME IInv, OutputInv, CallGeomStart
  PROVE  OutputInv'
<1>1. PICK t \in GeometryTypes \cup {Unrecognized}, sz \in -1 .. MaxParts, d \in Dims :
        LET x == IF d = dim THEN b ELSE NewDimensionsCall(d)
            c == GeomStartCall(x, t, sz)
        IN  GeomStart(t, sz, d, c.res) /\ b' = c.b /\ UNCHANGED <<target, released>>
  BY DEF CallGeomStart
<1>2. PICK x : x = IF d = dim THEN b ELSE NewDimensionsCall(d)
  OBVIOUS
<1>3. PICK c : c = GeomStartCall(x, t, sz)
  OBVIOUS
<1>4. GeomStart(t, sz, d, c.res) /\ b' = c.b /\ UNCHANGED <<target, released>>
  BY <1>1, <1>2, <1>3
<1>5. phase \in {"feature", "geometry"} /\ dim' = d /\ d # Unknown /\ released' = "no"
  <2>1. phase \in {"feature", "geometry"} /\ dim' = d
    BY <1>4 DEF GeomStart
  <2>2. d # Unknown
    BY ReaderAssumption DEF AllDims, Unknown
  <2>3. QED
    BY <1>4, <2>1, <2>2, NotReleased
<1>6. phase = "geometry" => Top.type \in MultiTypes \cup {"GEOMETRYCOLLECTION"}
  BY <1>4, PartsAreOfCollections DEF GeomStart
<1>7. TypeOK /\ ReaderInv /\ Good(b) /\ Fit(b, dim) /\ CoordsSynced(b) /\ PartsSynced(b)
  <2>1. TypeOK /\ ReaderInv /\ Good(b) /\ Fit(b, dim)
    BY IInvReader DEF IInv, OutputInv, GoodInv
  <2>2. Kind \in SimpleTypes
    BY <2>1, InUse DEF TypeOK
  <2>3. ~InRing /\ ~InPart
    BY <1>5, <1>6, <2>2 DEF InRing, InPart, SimpleTypes, MultiTypes
  <2>4. QED
    BY <1>5, <2>1, <2>3 DEF OutputInv, SyncInv
<1>8. /\ x \in BuilderType /\ Good(x) /\ Fit(x, d)
      /\ PartsSynced(b) => PartsSynced(x)
      /\ CoordsSynced(x)
      /\ Multi => x.level = b.level
  BY <1>2, <1>7, NewDimensionsCallType, NewDimensionsGood DEF TypeOK
<1>9. sz \in Int
  BY ReaderAssumption
<1>10. /\ Good(c.b) /\ Fit(c.b, d) /\ CoordsSynced(c.b)
       /\ PartsSynced(c.b)
       /\ c.res = "ABORT_FEATURE" => OuterSynced(c.b) /\ (Multi => x.level = 0)
       /\ Multi /\ x.level >= 1 /\ c.res = "CONTINUE" =>
            t \in {Kind, ParentOf(Kind)} \/ sz = 0
       /\ ~Multi /\ target # "POINT" /\ c.res = "CONTINUE" => t \in {Kind, ParentOf(Kind)}
  BY <1>3, <1>5, <1>7, <1>8, <1>9, GeomStartGood
<1>11. Multi /\ phase = "geometry" => x.level >= 1
  <2> SUFFICES ASSUME Multi, phase = "geometry" PROVE x.level >= 1
    OBVIOUS
  <2>1. Len(stack) \in Nat \ {0} /\ OpenGeometries = Len(stack)
    BY <1>6, <1>7, TopFrame DEF OpenGeometries, MultiTypes
  <2>2. QED
    BY <1>8, <2>1 DEF IInv, LevelTracksDepth
<1>12. /\ c.res \in Results
       /\ Multi /\ c.res = "CONTINUE" => x.level >= 1 \/ t \in {target, ChildType(target)}
  BY <1>3, <1>7, <1>8, <1>9, GeomStartCallType
<1>13. ASSUME c.res = "CONTINUE", t \in GeometryTypes
       PROVE  OutputInv'
  <2>0. Outcome(t, c.res) = "CONTINUE"
    BY <1>13, KnownOutcome
  <2>1. /\ phase' = "geometry" /\ Top'.type = t /\ t # "RING"
    BY <1>4, <1>7, <1>9, <1>13, GeomStartPushes
  <2>2. stack' = Append(IF stack = << >> THEN stack ELSE CountOne(1), Frame(t, sz))
    BY <1>4, <2>0 DEF GeomStart, Unwind
  <2>3. target # "POINT" => t \in {Kind, ParentOf(Kind)} \/ sz = 0
    <3> SUFFICES ASSUME target # "POINT" PROVE t \in {Kind, ParentOf(Kind)} \/ sz = 0
      OBVIOUS
    <3>1. CASE ~Multi
      BY <1>10, <1>13, <3>1
    <3>2. CASE Multi /\ phase = "feature"
      <4>1. x.level = 0
        BY <1>8, <3>2 DEF IInv, LevelReset
      <4>2. t \in {target, ChildType(target)}
        BY <1>12, <1>13, <3>2, <4>1
      <4>3. QED
        BY <1>7, <3>2, <4>2, InUse DEF TypeOK
    <3>3. CASE Multi /\ phase = "geometry"
      BY <1>10, <1>11, <1>13, <3>3
    <3>4. QED
      BY <1>5, <3>1, <3>2, <3>3
  <2>4. FamilyInv'
    <3>1. /\ Frame(t, sz) \in FrameType /\ Frame(t, sz).type = t
          /\ target # "POINT" => Accepted(Frame(t, sz))
      BY <1>9, <1>13, <2>1, <2>3 DEF Frame, FrameType, Accepted
    <3>2. QED
      BY <1>4, <1>5, <1>7, <2>1, <2>2, <2>3, <3>1, FamilyPush DEF OutputInv
  <2>5. ~Outside'
    BY <2>1 DEF Outside
  <2>6. QED
    BY <1>4, <1>5, <1>10, <2>1, <2>4, <2>5, OutputNext
<1>14. CASE c.res = "ABORT_FEATURE"
  <2>0. Outcome(t, c.res) = "ABORT_FEATURE"
    BY <1>14 DEF Outcome
  <2>1. phase' = "between" /\ stack' = << >>
    BY <1>4, <2>0 DEF GeomStart, Unwind, EndFeature
  <2>2. QED
    BY <1>4, <1>5, <1>10, <1>14, <2>1, FamilyEmpty, OutputNext
<1>15. ASSUME c.res \in {"ABORT", "THROW"} \/ (c.res = "CONTINUE" /\ t = Unrecognized)
       PROVE  OutputInv'
  <2>1. c.res # "ABORT"
    <3>1. CASE target = "POINT"
      BY <1>3, <1>8, <3>1, PointGeomStartSizes
    <3>2. CASE target # "POINT"
      BY <1>3, <1>7, <1>8, <1>9, <3>2, GeomStartCallType DEF Answers
    <3>3. QED
      BY <3>1, <3>2
  <2>2. Outcome(t, c.res) = "THROW"
    BY <1>15, <2>1 DEF Outcome
  <2>3. stack' = << >> /\ phase' = "failed"
    BY <1>4, <2>2 DEF GeomStart, Unwind
  <2>4. QED
    BY <1>4, <1>5, <1>10, <2>3, FamilyEmpty, OutputNext
<1>16. QED
  BY <1>12, <1>13, <1>14, <1>15 DEF Results

(* ring_start(): the rings and the polygon above them are open.            *)
LEMMA RingStartOutput ==
  ASSUME IInv, OutputInv, CallRingStart
  PROVE  OutputInv'
<1>1. PICK sz \in -1 .. MaxParts : RingStart(sz)
  BY DEF CallRingStart
<1>2. /\ UNCHANGED <<target, b, released, dim, phase>> /\ phase = "geometry"
      /\ Top.type = "POLYGON" /\ stack' = Append(CountOne(1), Frame("RING", sz))
  BY <1>1 DEF CallRingStart, RingStart
<1>3. ReaderInv /\ stack # << >> /\ sz \in Int /\ TypeOK
  BY <1>2, IInvReader, TopFrame, ReaderAssumption DEF IInv
<1>4. Top'.type = "RING"
  BY <1>1, <1>3, RingStartInv
<1>5. FamilyInv'
  <2>1. Frame("RING", sz) \in FrameType /\ Frame("RING", sz).type = "RING"
    BY <1>3 DEF Frame, FrameType
  <2>2. target # "POINT" => Kind = "POLYGON"
    <3>1. Kind \in SimpleTypes
      BY <1>3, InUse DEF TypeOK
    <3>2. MayGoOn(Top)
      BY <1>1 DEF RingStart
    <3>3. QED
      BY <1>2, <1>3, <3>1, <3>2, TopFamily DEF OutputInv, Accepted, ParentOf, SimpleTypes
  <2>3. QED
    BY <1>2, <1>3, <2>1, <2>2, FamilyPush DEF OutputInv
<1>6. ~Outside' /\ InPart' /\ InRing'
  BY <1>2, <1>4 DEF Outside, InPart, InRing
<1>7. Good(b') /\ Fit(b', dim') /\ dim' # Unknown
  BY <1>2 DEF OutputInv, GoodInv
<1>8. released' = "no"
  BY <1>2, NotReleased
<1>9. QED
  BY <1>2, <1>5, <1>6, <1>7, <1>8, OutputNext

(* coords(): the part (and the ring) they belong to is open.               *)
LEMMA CoordsOutput ==
  ASSUME IInv, OutputInv, CallCoords
  PROVE  OutputInv'
<1>1. PICK n \in 1 .. MaxParts :
        Coords(n) /\ b' = CoordsCall(n) /\ UNCHANGED <<target, released>>
  BY DEF CallCoords
<1>2. /\ UNCHANGED <<dim, phase>> /\ phase = "geometry" /\ stack' = CountOne(n)
      /\ Top.type \in {"POINT", "LINESTRING", "RING"} /\ n \in Nat
  BY <1>1, ReaderAssumption DEF Coords
<1>3. ReaderInv /\ TypeOK /\ Good(b) /\ Fit(b, dim) /\ dim # Unknown
  BY <1>2, IInvReader DEF IInv, OutputInv, GoodInv
<1>4. Good(b') /\ Fit(b', dim')
  BY <1>1, <1>2, <1>3, CoordsGood
<1>5. Top'.type = Top.type
  BY <1>1, <1>2, <1>3, CoordsInv
<1>6. FamilyInv'
  BY <1>1, <1>2, <1>3, FamilyCount DEF OutputInv
<1>7. Kind' = Kind /\ Kind \in SimpleTypes
  BY <1>1, <1>3, InUse DEF Kind, Multi, TypeOK
<1>8. (InPart' \/ PartsSynced(b')) /\ (InRing' \/ CoordsSynced(b'))
  <2>1. CASE Kind = "POINT"
    BY <2>1 DEF PartsSynced, ListSynced, CoordsSynced, RingsSynced
  <2>2. CASE Kind # "POINT"
    <3>1. target # "POINT"
      BY <2>2 DEF Kind, Multi, MultiTypes
    <3>2. Top.type \in {Kind, ParentOf(Kind)} \/ (Kind = "POLYGON" /\ Top.type = "RING")
      BY <1>1, <1>2, <1>3, <3>1, TopFamily DEF OutputInv, Accepted, Coords
    <3>3. (Kind = "LINESTRING" /\ Top.type = "LINESTRING") \/ Top.type = "RING"
      BY <1>2, <1>7, <2>2, <3>2 DEF ParentOf, SimpleTypes
    <3>4. QED
      BY <1>2, <1>5, <1>7, <3>3 DEF InPart, InRing, CoordsSynced, RingsSynced
  <2>3. QED
    BY <2>1, <2>2
<1>9. ~Outside' /\ released' = "no"
  BY <1>1, <1>2, NotReleased DEF Outside
<1>10. QED
  BY <1>1, <1>2, <1>3, <1>4, <1>6, <1>8, <1>9, OutputNext

(* ring_end(): the rings are in step with the coordinates; the polygon     *)
(* around them is still open.                                              *)
LEMMA RingEndOutput ==
  ASSUME IInv, OutputInv, CallRingEnd
  PROVE  OutputInv'
<1>1. /\ RingEnd /\ b' = RingEndCall /\ UNCHANGED <<target, released, dim, phase>>
      /\ phase = "geometry" /\ Top.type = "RING"
      /\ stack' = SubSeq(stack, 1, Len(stack) - 1)
  BY DEF CallRingEnd, RingEnd
<1>2. ReaderInv /\ TypeOK /\ Good(b) /\ Fit(b, dim) /\ dim # Unknown
  BY <1>1, IInvReader DEF IInv, OutputInv, GoodInv
<1>3. Good(b') /\ Fit(b', dim') /\ CoordsSynced(b')
  BY <1>1, <1>2, RingEndGood
<1>4. FamilyInv'
  BY <1>1, <1>2, FamilyPop DEF OutputInv
<1>5. InPart' \/ PartsSynced(b')
  <2>1. CASE target = "POINT"
    <3>1. ~Multi
      BY <2>1 DEF Multi, MultiTypes
    <3>2. QED
      BY <3>1 DEF PartsSynced
  <2>2. CASE target # "POINT"
    <3>1. /\ Kind = "POLYGON" /\ Len(stack) > 1 /\ stack[Len(stack) - 1].type = "POLYGON"
      <4>1. Kind \in SimpleTypes
        BY <1>2, InUse DEF TypeOK
      <4>2. QED
        BY <1>1, <1>2, <2>2, <4>1, TopFamily DEF OutputInv, Accepted, ParentOf, SimpleTypes
    <3>2. Len(stack) \in Nat \ {0} /\ stack # << >>
      BY <1>1, <1>2, TopFrame
    <3>3. Len(stack') = Len(stack) - 1 /\ \A i \in 1 .. Len(stack') : stack'[i] = stack[i]
      BY <1>1, <1>2, <3>2, PopInv
    <3>4. Top'.type = "POLYGON"
      <4>1. Len(stack') \in 1 .. Len(stack')
        BY <3>1, <3>2, <3>3
      <4>2. QED
        BY <3>1, <3>3, <4>1 DEF Top
    <3>5. Kind' = "POLYGON"
      BY <1>1, <3>1 DEF Kind, Multi
    <3>6. QED
      BY <1>1, <3>4, <3>5 DEF InPart
  <2>3. QED
    BY <2>1, <2>2
<1>6. ~Outside' /\ released' = "no"
  BY <1>1, NotReleased DEF Outside
<1>7. QED
  BY <1>1, <1>2, <1>3, <1>4, <1>5, <1>6, OutputNext

(* geom_end(): the child's feature ends with the part.                     *)
LEMMA GeomEndOutput ==
  ASSUME IInv, OutputInv, CallGeomEnd
  PROVE  OutputInv'
<1>1. /\ UNCHANGED <<target, released, dim>> /\ phase = "geometry" /\ Top.type # "RING"
      /\ stack' = SubSeq(stack, 1, Len(stack) - 1)
      /\ phase' = IF Len(stack) = 1 THEN "closing" ELSE "geometry"
      /\ b' = IF Multi THEN MultiGeomEnd(target, b) ELSE b
  BY DEF CallGeomEnd, GeomEnd
<1>2. ReaderInv /\ TypeOK /\ Good(b) /\ Fit(b, dim) /\ dim # Unknown /\ CoordsSynced(b)
  BY <1>1, IInvReader DEF IInv, OutputInv, GoodInv, SyncInv, InRing
<1>3. FamilyInv'
  BY <1>1, <1>2, FamilyPop DEF OutputInv
<1>4. Good(b') /\ Fit(b', dim') /\ PartsSynced(b') /\ CoordsSynced(b')
  <2>1. CASE ~Multi
    <3>1. b' = b
      BY <1>1, <2>1
    <3>2. QED
      BY <1>1, <1>2, <2>1, <3>1 DEF PartsSynced
  <2>2. CASE Multi
    <3>1. Len(stack) \in Nat \ {0} /\ Top = stack[Len(stack)]
      BY <1>1, <1>2, TopFrame
    <3>2. b.level = Len(stack) + (IF stack[1].type = Kind THEN 1 ELSE 0)
      BY <1>1, <2>2 DEF IInv, LevelTracksDepth, OpenGeometries, Kind
    <3>3. b.level >= 1
      BY <3>1, <3>2
    <3>4. b.level > 1 \/ PartsSynced(b)
      <4>1. CASE Top.type = Kind
        BY <3>1, <3>2, <4>1
      <4>2. CASE Top.type # Kind
        BY <1>1, <4>2 DEF OutputInv, SyncInv, InPart
      <4>3. QED
        BY <4>1, <4>2
    <3>5. b' = MultiGeomEnd(target, b)
      BY <1>1, <2>2
    <3>6. QED
      BY <1>1, <1>2, <2>2, <3>3, <3>4, <3>5, MultiGeomEndGood
  <2>3. QED
    BY <2>1, <2>2
<1>5. ~Outside' /\ released' = "no" /\ phase' # "start"
  BY <1>1, NotReleased DEF Outside
<1>6. QED
  BY <1>1, <1>2, <1>3, <1>4, <1>5, OutputNext

(* feat_end() finishes the outer list.                                     *)
LEMMA FeatEndOutput ==
  ASSUME IInv, OutputInv, CallFeatEnd
  PROVE  OutputInv'
<1>1. /\ phase = "closing" /\ phase' = "between" /\ UNCHANGED <<target, released, dim>>
      /\ stack' = << >>
      /\ b' = IF Multi THEN MultiFeatEnd(b) ELSE SimpleFeatEnd(target, b)
  BY DEF CallFeatEnd, FeatEnd, EndFeature
<1>2. TypeOK /\ Good(b) /\ Fit(b, dim) /\ PartsSynced(b) /\ CoordsSynced(b)
  BY <1>1 DEF IInv, OutputInv, GoodInv, SyncInv, InPart, InRing
<1>3. Good(b') /\ Fit(b', dim') /\ OuterSynced(b') /\ PartsSynced(b') /\ CoordsSynced(b')
  BY <1>1, <1>2, FeatEndGood
<1>4. released' = "no"
  BY <1>1, NotReleased
<1>5. QED
  BY <1>1, <1>3, <1>4, FamilyEmpty, OutputNext

(* The end of the loop writes nothing.                                     *)
LEMMA ReadDoneOutput ==
  ASSUME IInv, OutputInv, CallReadDone
  PROVE  OutputInv'
<1>1. /\ phase = "between" /\ phase' = "read"
      /\ UNCHANGED <<target, released, dim, stack, b>>
  BY DEF CallReadDone, ReadDone
<1>2. /\ Good(b) /\ Fit(b, dim) /\ OuterSynced(b) /\ PartsSynced(b) /\ CoordsSynced(b)
  BY <1>1 DEF OutputInv, GoodInv, SyncInv, Outside, InPart, InRing
<1>3. stack' = << >>
  BY <1>1, IInvReader DEF ReaderInv, StackWellFormed
<1>4. released' = "no"
  BY <1>1, NotReleased
<1>5. Good(b') /\ Fit(b', dim') /\ OuterSynced(b') /\ PartsSynced(b') /\ CoordsSynced(b')
  BY <1>1, <1>2
<1>6. QED
  BY <1>1, <1>3, <1>4, <1>5, FamilyEmpty, OutputNext

(* Nothing changes but whether the array was released.                     *)
LEMMA ReleaseOutput ==
  ASSUME IInv, OutputInv, Release \/ UNCHANGED vars
  PROVE  OutputInv'
<1>1. UNCHANGED <<readerVars, target, b>>
  BY DEF Release, vars
<1>2. /\ GoodInv' /\ FamilyInv' /\ SyncInv'
  BY <1>1
     DEF OutputInv, GoodInv, FamilyInv, Accepted, SyncInv, readerVars, Outside, InPart, InRing, Top,
         Kind, Multi, PartOf, Good, Fit, OuterSynced, PartsSynced, CoordsSynced
<1>3. Points' = Points /\ phase' = phase
  BY <1>1 DEF Points, Multi, readerVars
<1>4. CASE Release
  <2>1. released' = (IF Points.ranges > 1 THEN "threw" ELSE "yes") /\ phase = "read"
    BY <1>4 DEF Release
  <2>2. Points.ranges \in Nat
    <3>1. TypeOK /\ b \in BuilderType
      BY DEF IInv, TypeOK
    <3>2. Points \in PointType
      BY <3>1, PointsInUse, InUse, SimpleParts
    <3>3. QED
      BY <3>2 DEF PointType
  <2>3. ReleasedInv'
    BY <1>3, <2>1, <2>2 DEF ReleasedInv
  <2>4. QED
    BY <1>2, <2>3 DEF OutputInv
<1>5. CASE UNCHANGED vars
  <2>1. UNCHANGED released
    BY <1>5 DEF vars
  <2>2. QED
    BY <1>2, <1>3, <2>1 DEF OutputInv, ReleasedInv
<1>6. QED
  BY <1>4, <1>5

(* Every step keeps the invariant of the output.                           *)
LEMMA OutputStep == IInv /\ OutputInv /\ [Next]_vars => OutputInv'
<1> SUFFICES ASSUME IInv, OutputInv, [Next]_vars PROVE OutputInv'
  OBVIOUS
<1>1. CASE CallReadMeta
  BY <1>1, ReadMetaOutput
<1>2. CASE CallFeatStart
  BY <1>2, FeatStartOutput
<1>3. CASE CallNullFeat
  BY <1>3, NullFeatOutput
<1>4. CASE CallGeomStart
  BY <1>4, GeomStartOutput
<1>5. CASE CallRingStart
  BY <1>5, RingStartOutput
<1>6. CASE CallCoords
  BY <1>6, CoordsOutput
<1>7. CASE CallRingEnd
  BY <1>7, RingEndOutput
<1>8. CASE CallGeomEnd
  BY <1>8, GeomEndOutput
<1>9. CASE CallFeatEnd
  BY <1>9, FeatEndOutput
<1>10. CASE CallReadDone
  BY <1>10, ReadDoneOutput
<1>11. CASE Release \/ UNCHANGED vars
  BY <1>11, ReleaseOutput
<1>12. QED
  BY <1>1, <1>2, <1>3, <1>4, <1>5, <1>6, <1>7, <1>8, <1>9, <1>10, <1>11 DEF Next

(* Nothing has been written at first.                                      *)
LEMMA InitOutput == Init => OutputInv
<1> SUFFICES ASSUME Init PROVE OutputInv
  OBVIOUS
<1>1. /\ phase = "start" /\ dim = Unknown /\ stack = << >> /\ released = "no"
      /\ b = IF Multi THEN NewMulti(target) ELSE NewSimple(target)
      /\ TypeOK /\ b \in BuilderType
  BY InitIInv DEF Init, ReaderInit, IInv, TypeOK
<1>2. Kind \in SimpleTypes
  BY <1>1, InUse
<1>3. PartOf(b) = NewSimple(Kind)
  BY <1>1 DEF PartOf, Kind, NewMulti, MultiRec
<1>4. PICK noNulls : noNulls = (target # "POINT")
  OBVIOUS
<1>5. /\ SimpleGood(Kind, PartOf(b)) /\ ListSynced(Kind, PartOf(b))
      /\ RingsSynced(Kind, PartOf(b))
      /\ PointsFit(PointsOf(Kind, PartOf(b)), Unknown, noNulls) /\ PartOf(b).size = 0
  BY <1>2, <1>3, SimpleNewGood
<1>6. Fit(b, dim)
  BY <1>1, <1>4, <1>5 DEF Fit
<1>7. Good(b) /\ OuterSynced(b)
  <2>1. CASE Multi
    <3>1. b.list = NewList /\ b.child.size = 0
      BY <1>1, <1>5, <2>1 DEF PartOf, NewMulti, MultiRec
    <3>2. QED
      BY <1>5, <2>1, <3>1, NewListGood DEF Good, OuterSynced
  <2>2. CASE ~Multi
    BY <1>5, <2>2 DEF Good, OuterSynced, Kind, PartOf
  <2>3. QED
    BY <2>1, <2>2
<1>8. GoodInv /\ ReleasedInv
  BY <1>1, <1>6, <1>7 DEF GoodInv, ReleasedInv
<1>9. SyncInv
  BY <1>5, <1>7 DEF SyncInv, PartsSynced, CoordsSynced
<1>10. FamilyInv
  BY <1>1 DEF FamilyInv
<1>11. QED
  BY <1>8, <1>9, <1>10 DEF OutputInv

(* The invariant of the output holds in every reachable state.             *)
THEOREM OutputInvariant == Spec => [](IInv /\ OutputInv)
<1>1. Init => IInv /\ OutputInv
  BY InitIInv, InitOutput
<1>2. IInv /\ OutputInv /\ [Next]_vars => (IInv /\ OutputInv)'
  BY NextInv, OutputStep
<1>3. QED
  BY <1>1, <1>2, PTL DEF Spec

(* A list that is good and in step is a valid Arrow list array, if its     *)
(* child is no longer than INT32_MAX.                                      *)
LEMMA SyncedWellFormed ==
  ASSUME NEW l \in ListType, NEW n \in Nat, n <= IntMax, GoodList(l, n), Synced(l, n)
  PROVE  WellFormed(l, n)
<1>1. Narrow(n) = n
  BY BuilderAssumption DEF Narrow
<1>2. QED
  BY <1>1 DEF GoodList, Synced, WellFormed

(* What a consumer finds in a released array: every level is in step, and  *)
(* all points are in the sub-builder that is moved out.                    *)
LEMMA ReleasedParts ==
  ASSUME IInv, OutputInv, released = "yes", NEW n, n = Len(Points.sub[Points.active].valid)
  PROVE  /\ OuterSynced(b) /\ PartsSynced(b) /\ CoordsSynced(b) /\ Good(b)
         /\ Points = PointsOf(Kind, PartOf(b)) /\ n \in Nat
         /\ Points.sub[Points.active].doubles = CoordSize(Points.active) * n
         /\ target # "POINT" => Points.size = n
<1>1. phase = "read" /\ Points.ranges <= 1
  BY DEF OutputInv, ReleasedInv
<1>2. OuterSynced(b) /\ PartsSynced(b) /\ CoordsSynced(b) /\ Good(b) /\ Fit(b, dim)
  BY <1>1 DEF OutputInv, SyncInv, GoodInv, Outside, InPart, InRing
<1>3. Points = PointsOf(Kind, PartOf(b))
  BY PointsInUse
<1>4. Points \in PointType
  <2>1. TypeOK /\ b \in BuilderType
    BY DEF IInv, TypeOK
  <2>2. Kind \in SimpleTypes /\ PartOf(b) \in SimpleType(Kind)
    BY <2>1, InUse
  <2>3. QED
    BY <1>3, <2>2, SimpleParts
<1>5. PICK noNulls : noNulls = (target # "POINT")
  OBVIOUS
<1>6. PointsFit(Points, dim, noNulls)
  BY <1>2, <1>3, <1>5 DEF Fit
<1>7. /\ Points.active \in PointDims
      /\ Points.sub[Points.active].valid \in Seq(BOOLEAN)
  BY <1>4 DEF PointType
<1>8. n \in Nat
  BY <1>7, LenProperties
<1>9. Points.sub[Points.active].doubles = CoordSize(Points.active) * n
  BY <1>6, <1>7, Zenon DEF PointsFit
<1>10. target # "POINT" => Points.size = n
  BY <1>1, <1>5, <1>6 DEF PointsFit
<1>11. QED
  BY <1>2, <1>3, <1>8, <1>9, <1>10

(* The lists of a released part, from the outer one inwards.               *)
LEMMA ReleasedPart ==
  ASSUME NEW k \in SimpleTypes, NEW x \in SimpleType(k), SimpleGood(k, x), ListSynced(k, x),
         RingsSynced(k, x), NEW n \in Nat, n <= IntMax, k # "POINT", x.points.size = n
  PROVE  /\ k = "LINESTRING" => WellFormed(x.list, n)
         /\ k = "POLYGON" => /\ WellFormed(x.rings, n)
                             /\ Len(x.rings.valid) <= IntMax =>
                                  WellFormed(x.list, Len(x.rings.valid))
<1>1. CASE k = "LINESTRING"
  <2>1. GoodList(x.list, n) /\ Synced(x.list, n) /\ x.list \in ListType
    BY <1>1, SimpleParts DEF SimpleGood, ListSynced
  <2>2. QED
    BY <1>1, <2>1, SyncedWellFormed
<1>2. CASE k = "POLYGON"
  <2>1. /\ GoodList(x.rings, n) /\ Synced(x.rings, n) /\ x.rings \in ListType
        /\ GoodList(x.list, Len(x.rings.valid)) /\ Synced(x.list, Len(x.rings.valid))
        /\ x.list \in ListType /\ Len(x.rings.valid) \in Nat
    BY <1>2, SimpleParts DEF SimpleGood, ListSynced, RingsSynced
  <2>2. WellFormed(x.rings, n)
    BY <2>1, SyncedWellFormed
  <2>3. ASSUME Len(x.rings.valid) <= IntMax PROVE WellFormed(x.list, Len(x.rings.valid))
    BY <2>1, <2>3, SyncedWellFormed
  <2>4. QED
    BY <1>2, <2>2, <2>3
<1>3. QED
  BY <1>1, <1>2 DEF SimpleTypes

(* Released arrays are valid: the invariant implies it.                    *)
LEMMA ReleasedIsValid ==
  ASSUME IInv, OutputInv
  PROVE  ReleasedValid
<1> SUFFICES ASSUME released = "yes", InRange
             PROVE  /\ \A k \in 1 .. Len(Lists) : WellFormed(Lists[k], LengthBelow(k))
                    /\ LET p == Points.sub[Points.active]
                       IN  p.doubles = CoordSize(Points.active) * Len(p.valid)
  BY DEF ReleasedValid
<1>1. PICK n : n = Len(Points.sub[Points.active].valid)
  OBVIOUS
<1>2. /\ OuterSynced(b) /\ PartsSynced(b) /\ CoordsSynced(b) /\ Good(b)
      /\ Points = PointsOf(Kind, PartOf(b)) /\ n \in Nat
      /\ Points.sub[Points.active].doubles = CoordSize(Points.active) * n
      /\ target # "POINT" => Points.size = n
  BY <1>1, ReleasedParts
<1>3. TypeOK /\ b \in BuilderType
  BY DEF IInv, TypeOK
<1>4. /\ Kind \in SimpleTypes /\ PartOf(b) \in SimpleType(Kind)
      /\ PartOf(b).size \in Nat
      /\ SimpleGood(Kind, PartOf(b))
      /\ Multi => /\ GoodList(b.list, b.child.size) /\ Synced(b.list, b.child.size)
                  /\ b.list \in ListType /\ Kind = ChildType(target)
                  /\ PartOf(b) = b.child /\ ListSynced(Kind, PartOf(b))
                  /\ target \in MultiTypes
      /\ ~Multi => /\ Kind = target /\ PartOf(b) = b /\ ListSynced(Kind, PartOf(b))
                   /\ target \in SimpleTypes
      /\ RingsSynced(Kind, PartOf(b))
  BY <1>2, <1>3, InUse DEF Good, OuterSynced, PartsSynced, CoordsSynced, Multi
<1>5. \A k \in 1 .. Len(Lists) : LengthBelow(k) <= IntMax
  BY DEF InRange
<1>6. Kind # "POINT" => PartOf(b).points = Points /\ PartOf(b).points.size = n
  <2>1. Kind # "POINT" => target # "POINT"
    BY <1>3, <1>4, TargetKind
  <2>2. QED
    BY <1>2, <2>1 DEF PointsOf
<1>7. n <= IntMax /\ Kind # "POINT" =>
        /\ Kind = "LINESTRING" => WellFormed(PartOf(b).list, n)
        /\ Kind = "POLYGON" => /\ WellFormed(PartOf(b).rings, n)
                               /\ Len(PartOf(b).rings.valid) <= IntMax =>
                                    WellFormed(PartOf(b).list, Len(PartOf(b).rings.valid))
  BY <1>2, <1>4, <1>6, ReleasedPart
<1>8. \A k \in 1 .. Len(Lists) : WellFormed(Lists[k], LengthBelow(k))
  <2>1. CASE target = "POINT"
    <3>1. Len(Lists) = 0
      BY <2>1 DEF Lists
    <3>2. QED
      BY <3>1
  <2>2. CASE target = "LINESTRING"
    <3>1. ~Multi /\ Len(Lists) = 1 /\ Lists[1] = b.list
      BY <2>2 DEF Lists, Multi, MultiTypes
    <3>2. LengthBelow(1) = n
      BY <1>1, <3>1 DEF LengthBelow
    <3>3. WellFormed(b.list, n)
      BY <1>4, <1>5, <1>7, <2>2, <3>1, <3>2
    <3>4. QED
      BY <3>1, <3>2, <3>3
  <2>3. CASE target = "MULTIPOINT"
    <3>1. /\ Multi /\ Len(Lists) = 1 /\ Lists[1] = b.list /\ Kind = "POINT"
      BY <1>4, <2>3 DEF Lists, Multi, MultiTypes, ChildType
    <3>2. LengthBelow(1) = n
      BY <1>1, <3>1 DEF LengthBelow
    <3>3. b.child.size = n
      BY <1>2, <1>4, <2>3, <3>1 DEF PointsOf
    <3>4. WellFormed(b.list, n)
      <4>1. n <= IntMax
        BY <1>5, <3>1, <3>2
      <4>2. GoodList(b.list, n) /\ Synced(b.list, n) /\ b.list \in ListType
        BY <1>4, <3>1, <3>3
      <4>3. QED
        BY <1>2, <4>1, <4>2, SyncedWellFormed
    <3>5. QED
      BY <3>1, <3>2, <3>4
  <2>4. CASE target = "POLYGON"
    <3>1. /\ ~Multi /\ Len(Lists) = 2 /\ Lists[1] = b.list /\ Lists[2] = b.rings
      BY <2>4 DEF Lists, Multi, MultiTypes
    <3>2. LengthBelow(1) = Len(b.rings.valid) /\ LengthBelow(2) = n
      BY <1>1, <3>1 DEF LengthBelow
    <3>3. n <= IntMax /\ Len(b.rings.valid) <= IntMax
      BY <1>5, <3>1, <3>2
    <3>4. WellFormed(b.list, Len(b.rings.valid)) /\ WellFormed(b.rings, n)
      BY <1>4, <1>7, <2>4, <3>1, <3>3
    <3>5. QED
      BY <3>1, <3>2, <3>4
  <2>5. CASE target = "MULTILINESTRING"
    <3>1. /\ Multi /\ Len(Lists) = 2 /\ Lists[1] = b.list /\ Lists[2] = b.child.list
          /\ Kind = "LINESTRING"
      BY <1>4, <2>5 DEF Lists, Multi, MultiTypes, ChildType
    <3>2. LengthBelow(1) = Len(b.child.list.valid) /\ LengthBelow(2) = n
      BY <1>1, <3>1 DEF LengthBelow
    <3>3. b.child.size = Len(b.child.list.valid) /\ b.child.size \in Nat
      BY <1>4, <3>1 DEF SimpleGood
    <3>4. n <= IntMax /\ b.child.size <= IntMax
      BY <1>5, <3>1, <3>2, <3>3
    <3>5. WellFormed(b.child.list, n)
      BY <1>4, <1>7, <3>1, <3>4
    <3>6. WellFormed(b.list, b.child.size)
      BY <1>4, <3>1, <3>3, <3>4, SyncedWellFormed
    <3>7. QED
      BY <3>1, <3>2, <3>3, <3>5, <3>6
  <2>6. CASE target = "MULTIPOLYGON"
    <3>1. /\ Multi /\ Len(Lists) = 3 /\ Lists[1] = b.list /\ Lists[2] = b.child.list
          /\ Lists[3] = b.child.rings /\ Kind = "POLYGON"
      BY <1>4, <2>6 DEF Lists, Multi, MultiTypes, ChildType
    <3>2. /\ LengthBelow(1) = Len(b.child.list.valid)
          /\ LengthBelow(2) = Len(b.child.rings.valid) /\ LengthBelow(3) = n
      BY <1>1, <3>1 DEF LengthBelow
    <3>3. b.child.size = Len(b.child.list.valid) /\ b.child.size \in Nat
      BY <1>4, <3>1 DEF SimpleGood
    <3>4. n <= IntMax /\ b.child.size <= IntMax /\ Len(b.child.rings.valid) <= IntMax
      BY <1>5, <3>1, <3>2, <3>3
    <3>5. WellFormed(b.child.list, Len(b.child.rings.valid)) /\ WellFormed(b.child.rings, n)
      BY <1>4, <1>7, <3>1, <3>4
    <3>6. WellFormed(b.list, b.child.size)
      BY <1>4, <3>1, <3>3, <3>4, SyncedWellFormed
    <3>7. QED
      BY <3>1, <3>2, <3>3, <3>5, <3>6
  <2>7. QED
    BY <1>4, <2>1, <2>2, <2>3, <2>4, <2>5, <2>6 DEF SimpleTypes, MultiTypes
<1>9. QED
  BY <1>1, <1>2, <1>8

(* A released array satisfies the Arrow layout at each level, whatever the *)
(* calls were: one offset more than elements, from 0, never decreasing, up *)
(* to the length of the child, and item_size doubles per point. Only if no *)
(* child is longer than INT32_MAX (list offsets are narrowed to int32_t).  *)
THEOREM CastReleasedValid == Spec => []ReleasedValid
<1>1. IInv /\ OutputInv => ReleasedValid
  BY ReleasedIsValid
<1>2. QED
  BY <1>1, OutputInvariant, PTL

(***************************************************************************)
(* What the output contains. A finished element is decoded through the     *)
(* offsets it lies between, which never change again; so the invariant     *)
(* says that every finished element is the feature it came from, and what  *)
(* the unfinished one would be if it were finished now: the parts ended so *)
(* far are those of the feature being read, and what was written below     *)
(* them since then is its open part (the open ring, the open vertices).    *)
(***************************************************************************)
LastOffset(l) == l.offsets[Len(l.offsets)]
VerticesOf(part) == IF part = << >> THEN 0 ELSE part[1]
FirstPart(parts) == IF parts = << >> THEN << >> ELSE parts[1]

(* Element m of a simple builder x of class k is the part `part`.          *)
PartIs(k, x, m, part) ==
  /\ k = "LINESTRING" => ElementSize(x.list, m) = VerticesOf(part)
  /\ k = "POLYGON" =>
       /\ ElementSize(x.list, m) = Len(part)
       /\ \A j \in 1 .. Len(part) : ElementSize(x.rings, x.list.offsets[m] + j) = part[j]

(* What was written to x after its last element is `part`, of which the    *)
(* last ring may still be open.                                            *)
RingsEnded(part, inRing) == IF inRing THEN Len(part) - 1 ELSE Len(part)

OpenIs(k, x, part, inRing) ==
  /\ k = "LINESTRING" => x.points.size = LastOffset(x.list) + VerticesOf(part)
  /\ k = "POLYGON" =>
       /\ Len(x.rings.valid) = LastOffset(x.list) + RingsEnded(part, inRing)
       /\ \A j \in 1 .. RingsEnded(part, inRing) :
            ElementSize(x.rings, LastOffset(x.list) + j) = part[j]
       /\ x.points.size = LastOffset(x.rings) + (IF inRing THEN part[Len(part)] ELSE 0)

(* No child of a list is longer than an int32_t can say.                   *)
SizesFit(k, x) ==
  /\ PointsOf(k, x).size <= IntMax
  /\ k = "POLYGON" => Len(x.rings.valid) <= IntMax

Exact(x) == SizesFit(Kind, PartOf(x)) /\ (Multi => x.child.size <= IntMax)

(* Element i of the builder in use x is a feature of these parts.          *)
FeatureIs(x, i, parts) ==
  IF Multi
  THEN /\ ElementSize(x.list, i) = Len(parts)
       /\ \A j \in 1 .. Len(parts) : PartIs(Kind, x.child, x.list.offsets[i] + j, parts[j])
  ELSE PartIs(Kind, x, i, FirstPart(parts))

(* What was written to x after its last element: the first n parts, ended, *)
(* and the part that is open.                                              *)
EndedAre(x, parts, n) ==
  /\ x.child.size = LastOffset(x.list) + n
  /\ \A j \in 1 .. n : PartIs(Kind, x.child, LastOffset(x.list) + j, parts[j])

UnfinishedIs(x, parts, n, open, inRing) ==
  /\ OpenIs(Kind, PartOf(x), open, inRing)
  /\ Multi => EndedAre(x, parts, n)

OpenPart == IF Multi THEN IF InPart THEN cur[Len(cur)] ELSE << >> ELSE FirstPart(cur)

(* A point is ended when its coordinates are written, the parts of lists   *)
(* when geom_end() ends the child's feature.                               *)
PartsEnded ==
  IF InPart /\ (Kind # "POINT" \/ Top.count = 0) THEN Len(cur) - 1 ELSE Len(cur)

DecodeInv ==
  target # "POINT" /\ phase # "failed" /\ Exact(b) =>
    /\ \A i \in 1 .. Len(features) : FeatureIs(b, i, features[i].parts)
    /\ UnfinishedIs(b, cur, PartsEnded, OpenPart, InRing)

(* Why `cur` is what the builder was told: a part is opened as the feature *)
(* itself or directly inside the multi-geometry, of which a simple builder *)
(* accepts only one with a single member.                                  *)
NestInv ==
  target # "POINT" =>
    \A i \in 1 .. Len(stack) :
      /\ stack[i].type \in {Kind, ParentOf(Kind), "RING"}
      /\ stack[i].type = ParentOf(Kind) => i = 1
      /\ stack[i].type = Kind => i = 1 \/ (i = 2 /\ stack[1].type = ParentOf(Kind))

OneMember ==
  stack # << >> =>
    IF stack[1].type = ParentOf(Kind)
    THEN stack[1].size = 1 /\ stack[1].count \in 0 .. 1 /\ Len(cur) = stack[1].count
    ELSE Len(cur) = 1

CurInv ==
  target # "POINT" =>
    /\ phase \notin {"geometry", "closing"} => cur = << >>
    /\ InPart => cur # << >>
    /\ InRing => cur[Len(cur)] # << >>
    /\ Kind = "LINESTRING" => \A i \in 1 .. Len(cur) : Len(cur[i]) = 1
    /\ Kind = "POINT" /\ InPart => Top.size \in {-1, 1} /\ Top.count \in 0 .. 1
    /\ ~Multi => Len(cur) <= 1 /\ OneMember

(* A line is a part without rings: its only entry is its length.           *)
LinesInv ==
  target # "POINT" /\ Kind = "LINESTRING" =>
    \A i \in 1 .. Len(features) : \A j \in 1 .. Len(features[i].parts) :
      Len(features[i].parts[j]) = 1

ContentInv == NestInv /\ CurInv /\ LinesInv /\ DecodeInv

(* A list that only had elements appended.                                 *)
Extends(m, l) ==
  /\ Len(l.offsets) <= Len(m.offsets)
  /\ \A i \in 1 .. Len(l.offsets) : m.offsets[i] = l.offsets[i]

(* An element is finished at the length of its child.                      *)
LEMMA FinishExact ==
  ASSUME NEW l \in ListType, NEW n \in Nat, n <= IntMax, GoodList(l, n),
         NEW notNull \in BOOLEAN, NEW m, m = FinishElement(l, n, notNull)
  PROVE  /\ Extends(m, l) /\ LastOffset(m) = n
         /\ Len(m.valid) = Len(l.valid) + 1
         /\ m.offsets[Len(l.valid) + 1] = LastOffset(l)
         /\ ElementSize(m, Len(l.valid) + 1) = n - LastOffset(l)
         /\ LastOffset(l) \in 0 .. n /\ m \in ListType
<1>1. m.offsets = Append(l.offsets, Narrow(n)) /\ m.valid = Append(l.valid, notNull)
  BY DEF FinishElement
<1>2. Narrow(n) = n
  BY BuilderAssumption DEF Narrow
<1>3. /\ l.valid \in Seq(BOOLEAN) /\ l.offsets \in Seq(OffsetSet)
      /\ Len(l.valid) \in Nat /\ Len(l.offsets) = Len(l.valid) + 1
      /\ \A i \in 1 .. Len(l.offsets) : l.offsets[i] \in 0 .. n
  BY ListLengths DEF GoodList
<1>4. n \in OffsetSet
  BY BuilderAssumption DEF OffsetSet
<1>5. /\ Len(m.offsets) = Len(l.offsets) + 1
      /\ m.offsets[Len(l.offsets) + 1] = n
      /\ \A i \in 1 .. Len(l.offsets) : m.offsets[i] = l.offsets[i]
  BY <1>1, <1>2, <1>3, <1>4, AppendProperties
<1>6. Len(m.valid) = Len(l.valid) + 1
  BY <1>1, <1>3, AppendProperties
<1>7. Extends(m, l) /\ LastOffset(m) = n /\ m.offsets[Len(l.valid) + 1] = LastOffset(l)
  BY <1>3, <1>5 DEF Extends, LastOffset
<1>8. ElementSize(m, Len(l.valid) + 1) = n - LastOffset(l)
  BY <1>3, <1>5, <1>7 DEF ElementSize
<1>9. LastOffset(l) \in 0 .. n
  BY <1>3 DEF LastOffset
<1>10. m \in ListType
  BY FinishElementType
<1>11. QED
  BY <1>6, <1>7, <1>8, <1>9, <1>10

(* A list is an extension of itself.                                       *)
LEMMA ExtendsSelf ==
  ASSUME NEW l \in ListType
  PROVE  Extends(l, l)
BY ListLengths DEF Extends

(* A simple builder y that still has every element of x.                   *)
PartsKept(k, x, y) ==
  /\ k # "POINT" => Extends(y.list, x.list)
  /\ k = "POLYGON" => Extends(y.rings, x.rings)

(* Elements that lie within both offsets buffers are the same.             *)
LEMMA SameElement ==
  ASSUME NEW l \in ListType, NEW m, Extends(m, l), Len(l.offsets) = Len(l.valid) + 1,
         NEW i \in 1 .. Len(l.valid)
  PROVE  ElementSize(m, i) = ElementSize(l, i) /\ m.offsets[i] = l.offsets[i]
<1>1. Len(l.valid) \in Nat
  BY ListLengths
<1>2. i \in 1 .. Len(l.offsets) /\ i + 1 \in 1 .. Len(l.offsets)
  BY <1>1
<1>3. QED
  BY <1>2 DEF Extends, ElementSize

(* A finished part is decoded as before, whatever was written after it.    *)
LEMMA PartKept ==
  ASSUME NEW k \in SimpleTypes, NEW x \in SimpleType(k), SimpleGood(k, x), SizesFit(k, x),
         NEW y, PartsKept(k, x, y), NEW m \in 1 .. x.size, NEW part \in Seq(Nat),
         PartIs(k, x, m, part)
  PROVE  PartIs(k, y, m, part)
<1>1. CASE k = "POINT"
  BY <1>1 DEF PartIs
<1>2. CASE k = "LINESTRING"
  <2>1. /\ x.list \in ListType /\ Len(x.list.offsets) = Len(x.list.valid) + 1
        /\ m \in 1 .. Len(x.list.valid) /\ Extends(y.list, x.list)
    BY <1>2, SimpleParts DEF SimpleGood, GoodList, PartsKept
  <2>2. QED
    BY <1>2, <2>1, SameElement DEF PartIs
<1>3. CASE k = "POLYGON"
  <2> DEFINE l == x.list
             r == x.rings
             n == Len(r.valid)
  <2>1. /\ l \in ListType /\ r \in ListType /\ n \in Nat /\ Len(part) \in Nat
        /\ Len(l.offsets) = Len(l.valid) + 1 /\ Len(r.offsets) = n + 1
        /\ m \in 1 .. Len(l.valid) /\ Extends(y.list, l) /\ Extends(y.rings, r)
        /\ Len(l.valid) \in Nat /\ n <= IntMax
    BY <1>3, SimpleParts, ListLengths, LenProperties
       DEF SimpleGood, GoodList, PartsKept, SizesFit
  <2>2. \A i \in 1 .. Len(l.offsets) : l.offsets[i] \in 0 .. n
    BY <1>3, <2>1 DEF SimpleGood, GoodList
  <2>3. m \in 1 .. Len(l.offsets) /\ m + 1 \in 1 .. Len(l.offsets)
    BY <2>1
  <2>4. l.offsets[m] \in 0 .. n /\ l.offsets[m + 1] \in 0 .. n
    BY <2>2, <2>3
  <2>5. /\ l.offsets[m + 1] = l.offsets[m] + Len(part)
        /\ \A j \in 1 .. Len(part) : ElementSize(r, l.offsets[m] + j) = part[j]
    <3>1. /\ ElementSize(l, m) = Len(part)
          /\ \A j \in 1 .. Len(part) : ElementSize(r, l.offsets[m] + j) = part[j]
      BY <1>3 DEF PartIs
    <3>2. l.offsets[m + 1] - l.offsets[m] = Len(part)
      BY <3>1 DEF ElementSize
    <3>3. l.offsets[m] \in Nat /\ l.offsets[m + 1] \in Nat /\ Len(part) \in Nat
      BY <2>1, <2>4
    <3>4. QED
      BY <3>1, <3>2, <3>3
  <2>6. ElementSize(y.list, m) = Len(part) /\ y.list.offsets[m] = l.offsets[m]
    BY <1>3, <2>1, SameElement DEF PartIs
  <2>7. ASSUME NEW j \in 1 .. Len(part)
        PROVE  ElementSize(y.rings, y.list.offsets[m] + j) = part[j]
    <3>1. l.offsets[m] + j \in 1 .. n
      <4>1. ASSUME NEW o \in Nat, NEW w \in Nat, o + w <= n, NEW i \in 1 .. w
            PROVE  o + i \in 1 .. n
        <5> HIDE DEF n
        <5>1. QED
          BY <2>1, <4>1
      <4>2. l.offsets[m] \in Nat /\ l.offsets[m] + Len(part) <= n
        BY <2>1, <2>4, <2>5
      <4>3. QED
        BY <2>1, <4>1, <4>2
    <3>2. ElementSize(y.rings, l.offsets[m] + j) = ElementSize(r, l.offsets[m] + j)
      BY <2>1, <3>1, SameElement
    <3>3. QED
      BY <2>5, <2>6, <3>2
  <2>8. QED
    BY <1>3, <2>6, <2>7 DEF PartIs
<1>4. QED
  BY <1>1, <1>2, <1>3 DEF SimpleTypes

(* The length below the outer list of a simple builder.                    *)
LengthUnder(k, x) == IF k = "POLYGON" THEN Len(x.rings.valid) ELSE x.points.size

(* y is x with the same elements and the same coordinates written.         *)
SamePart(k, x, y) ==
  /\ y.size = x.size /\ PointsOf(k, y).size = PointsOf(k, x).size
  /\ k # "POINT" => y.list = x.list
  /\ k = "POLYGON" => y.rings = x.rings

(* y is x with n more coordinates.                                         *)
Wrote(k, x, y, n) ==
  /\ PointsOf(k, y).size = PointsOf(k, x).size + n
  /\ y.size = IF k = "POINT" THEN x.size + n ELSE x.size
  /\ k # "POINT" => y.list = x.list
  /\ k = "POLYGON" => y.rings = x.rings

(* y is x with its open ring finished.                                     *)
RingFinished(x, y) ==
  /\ y.size = x.size /\ y.list = x.list /\ y.points = x.points
  /\ y.rings = FinishElement(x.rings, x.points.size, TRUE)

(* y is x with its open element finished.                                  *)
PartFinished(k, x, y) ==
  /\ y.size = x.size + 1 /\ y.points = x.points
  /\ \E notNull \in BOOLEAN : y.list = FinishElement(x.list, LengthUnder(k, x), notNull)
  /\ k = "POLYGON" => y.rings = x.rings

(* Finishing the element makes the open part a finished one.               *)
LEMMA PartFinishedIs ==
  ASSUME NEW k \in SimpleTypes \ {"POINT"}, NEW x \in SimpleType(k), SimpleGood(k, x),
         SizesFit(k, x), NEW y, PartFinished(k, x, y),
         NEW part \in Seq(Nat), OpenIs(k, x, part, FALSE)
  PROVE  /\ PartIs(k, y, x.size + 1, part) /\ OpenIs(k, y, << >>, FALSE)
         /\ PartsKept(k, x, y) /\ (SizesFit(k, y) <=> SizesFit(k, x))
<1>0. PICK notNull \in BOOLEAN : y.list = FinishElement(x.list, LengthUnder(k, x), notNull)
  BY DEF PartFinished
<1>1. CASE k = "LINESTRING"
  <2> DEFINE n == x.points.size
             l == x.list
             m == y.list
  <2>1. /\ l \in ListType /\ n \in Nat /\ n <= IntMax /\ GoodList(l, n)
        /\ m = FinishElement(l, n, notNull) /\ x.size = Len(l.valid)
        /\ y.points = x.points
    BY <1>0, <1>1, SimpleParts DEF SimpleGood, SizesFit, PointsOf, LengthUnder, PartFinished
  <2>2. n = LastOffset(l) + VerticesOf(part)
    BY <1>1 DEF OpenIs
  <2>3. /\ Extends(m, l) /\ LastOffset(m) = n
        /\ ElementSize(m, Len(l.valid) + 1) = n - LastOffset(l)
        /\ LastOffset(l) \in 0 .. n
    <3> HIDE DEF n, l, m
    <3>1. QED
      BY <2>1, FinishExact
  <2>4. VerticesOf(part) \in Nat
    <3>1. part # << >> => part[1] \in Nat
      BY EmptySeq, ElementOfSeq, LenProperties
    <3>2. QED
      BY <3>1 DEF VerticesOf
  <2>5. ElementSize(m, Len(l.valid) + 1) = VerticesOf(part)
    BY <2>1, <2>2, <2>3, <2>4
  <2>6. VerticesOf(<< >>) = 0
    BY DEF VerticesOf
  <2>7. QED
    BY <1>1, <2>1, <2>3, <2>5, <2>6 DEF PartIs, OpenIs, PartsKept, SizesFit, PointsOf
<1>2. CASE k = "POLYGON"
  <2> DEFINE n == Len(x.rings.valid)
             l == x.list
             m == y.list
             o == LastOffset(l)
  <2>1. /\ l \in ListType /\ n \in Nat /\ n <= IntMax /\ GoodList(l, n)
        /\ m = FinishElement(l, n, notNull) /\ x.size = Len(l.valid)
        /\ y.points = x.points /\ y.rings = x.rings /\ x.rings \in ListType
        /\ Len(part) \in Nat
    BY <1>0, <1>2, SimpleParts, LenProperties
       DEF SimpleGood, SizesFit, PointsOf, LengthUnder, PartFinished
  <2>2. /\ n = o + Len(part)
        /\ \A j \in 1 .. Len(part) : ElementSize(x.rings, o + j) = part[j]
        /\ x.points.size = LastOffset(x.rings) + 0
    BY <1>2 DEF OpenIs, RingsEnded
  <2>3. /\ Extends(m, l) /\ LastOffset(m) = n
        /\ m.offsets[Len(l.valid) + 1] = o
        /\ ElementSize(m, Len(l.valid) + 1) = n - o
        /\ o \in 0 .. n
    <3> HIDE DEF n, l, m
    <3>1. QED
      BY <2>1, FinishExact
  <2>4. ElementSize(m, Len(l.valid) + 1) = Len(part)
    <3> HIDE DEF n, l, m, o
    <3>1. QED
      BY <2>1, <2>2, <2>3
  <2>5. PartIs(k, y, x.size + 1, part)
    BY <1>2, <2>1, <2>2, <2>3, <2>4 DEF PartIs
  <2>6. Len(<< >>) = 0 /\ RingsEnded(<< >>, FALSE) = 0
    BY DEF RingsEnded
  <2>7. OpenIs(k, y, << >>, FALSE)
    <3>1. n = LastOffset(m) + RingsEnded(<< >>, FALSE)
      <4> HIDE DEF n, m
      <4>1. QED
        BY <2>1, <2>3, <2>6 DEF RingsEnded
    <3>2. Len(y.rings.valid) = LastOffset(y.list) + RingsEnded(<< >>, FALSE)
      BY <2>1, <3>1
    <3>3. y.points.size = LastOffset(y.rings) + 0
      BY <2>1, <2>2
    <3>4. QED
      BY <1>2, <2>6, <3>2, <3>3 DEF OpenIs, RingsEnded
  <2>8. PartsKept(k, x, y) /\ (SizesFit(k, y) <=> SizesFit(k, x))
    BY <1>2, <2>1, <2>3, ExtendsSelf DEF PartsKept, SizesFit, PointsOf
  <2>9. QED
    BY <2>5, <2>7, <2>8
<1>3. QED
  BY <1>1, <1>2 DEF SimpleTypes

(* Nothing written: everything is decoded as before.                       *)
LEMMA SamePartIs ==
  ASSUME NEW k \in SimpleTypes, NEW x \in SimpleType(k), NEW y, SamePart(k, x, y)
  PROVE  /\ PartsKept(k, x, y) /\ (SizesFit(k, y) <=> SizesFit(k, x))
         /\ \A part, r : OpenIs(k, y, part, r) <=> OpenIs(k, x, part, r)
<1>1. PartsKept(k, x, y)
  BY SimpleParts, ExtendsSelf DEF PartsKept, SamePart, SimpleTypes
<1>2. SizesFit(k, y) <=> SizesFit(k, x)
  BY DEF SizesFit, SamePart
<1>3. \A part, r : OpenIs(k, y, part, r) <=> OpenIs(k, x, part, r)
  BY DEF OpenIs, SamePart, PointsOf
<1>4. QED
  BY <1>1, <1>2, <1>3

(* Vertices added to the last ring (or line) of a part.                    *)
LEMMA LastPlusIs ==
  ASSUME NEW part \in Seq(Nat), part # << >>, NEW n \in Nat
  PROVE  /\ LastPlus(part, n) \in Seq(Nat) /\ Len(LastPlus(part, n)) = Len(part)
         /\ Len(part) \in Nat \ {0}
         /\ LastPlus(part, n)[Len(part)] = part[Len(part)] + n
         /\ \A j \in 1 .. Len(part) - 1 : LastPlus(part, n)[j] = part[j]
<1>1. Len(part) \in Nat \ {0} /\ DOMAIN part = 1 .. Len(part)
  BY EmptySeq, LenProperties
<1>2. LastPlus(part, n) \in Seq(Nat)
  BY CoordsRing
<1>3. DOMAIN LastPlus(part, n) = 1 .. Len(part)
  BY <1>1 DEF LastPlus
<1>4. Len(LastPlus(part, n)) = Len(part)
  BY <1>1, <1>2, <1>3, LenProperties
<1>5. LastPlus(part, n)[Len(part)] = part[Len(part)] + n
  BY <1>1 DEF LastPlus
<1>6. ASSUME NEW j \in 1 .. Len(part) - 1
      PROVE  LastPlus(part, n)[j] = part[j]
  <2>0. PICK w : w = Len(part)
    OBVIOUS
  <2>1. j \in 1 .. w /\ j # w
    <3>1. w \in Nat \ {0} /\ j \in 1 .. w - 1
      BY <1>1, <2>0
    <3>2. QED
      BY <3>1
  <2>2. QED
    BY <1>1, <2>0, <2>1 DEF LastPlus
<1>7. QED
  BY <1>1, <1>2, <1>4, <1>5, <1>6

(* Coordinates written to the open line or ring.                           *)
LEMMA WroteIs ==
  ASSUME NEW k \in SimpleTypes \ {"POINT"}, NEW x \in SimpleType(k), SimpleGood(k, x),
         NEW n \in Nat, NEW y, Wrote(k, x, y, n), NEW part \in Seq(Nat), part # << >>,
         k = "LINESTRING" => Len(part) = 1, NEW r, k = "POLYGON" => r = TRUE
  PROVE  /\ PartsKept(k, x, y) /\ (SizesFit(k, y) => SizesFit(k, x))
         /\ OpenIs(k, x, part, r) => OpenIs(k, y, LastPlus(part, n), r)
<1> DEFINE q == LastPlus(part, n)
<1>1. /\ q \in Seq(Nat) /\ Len(q) = Len(part) /\ Len(part) \in Nat \ {0}
      /\ q[Len(part)] = part[Len(part)] + n
      /\ \A j \in 1 .. Len(part) - 1 : q[j] = part[j]
      /\ part[Len(part)] \in Nat
  BY LastPlusIs, ElementOfSeq
<1>2. q # << >>
  BY <1>1, EmptySeq
<1> HIDE DEF q
<1>3. CASE k = "LINESTRING"
  <2>1. /\ y.list = x.list /\ y.points.size = x.points.size + n /\ x.list \in ListType
        /\ x.points.size \in Nat
    BY <1>3, SimpleParts DEF Wrote, PointsOf
  <2>2. VerticesOf(q) = VerticesOf(part) + n /\ VerticesOf(part) \in Nat
    BY <1>1, <1>2, <1>3 DEF VerticesOf
  <2>3. LastOffset(x.list) \in Int
    <3>1. Len(x.list.offsets) \in 1 .. Len(x.list.offsets)
      BY <1>3, <2>1, ListLengths DEF SimpleGood, GoodList
    <3>2. QED
      BY <2>1, <3>1, ListLengths DEF LastOffset
  <2>4. OpenIs(k, x, part, r) => OpenIs(k, y, q, r)
    <3> SUFFICES ASSUME OpenIs(k, x, part, r) PROVE OpenIs(k, y, q, r)
      OBVIOUS
    <3>1. x.points.size = LastOffset(x.list) + VerticesOf(part)
      BY <1>3 DEF OpenIs
    <3>2. y.points.size = LastOffset(y.list) + VerticesOf(q)
      BY <2>1, <2>2, <2>3, <3>1
    <3>3. QED
      BY <1>3, <3>2 DEF OpenIs
  <2>5. QED
    BY <1>3, <2>1, <2>4, ExtendsSelf, BuilderAssumption DEF q, PartsKept, SizesFit, PointsOf
<1>4. CASE k = "POLYGON"
  <2>1. /\ y.list = x.list /\ y.rings = x.rings
        /\ y.points.size = x.points.size + n /\ x.list \in ListType
        /\ x.points.size \in Nat /\ x.rings \in ListType /\ r = TRUE
    BY <1>4, SimpleParts DEF Wrote, PointsOf
  <2>2. RingsEnded(part, r) = Len(part) - 1 /\ RingsEnded(q, r) = Len(part) - 1
    BY <1>1, <2>1 DEF RingsEnded
  <2>3. LastOffset(x.rings) \in Int
    <3>1. Len(x.rings.offsets) \in 1 .. Len(x.rings.offsets)
      <4>1. Len(x.rings.offsets) = Len(x.rings.valid) + 1
        BY <1>4 DEF SimpleGood, GoodList
      <4>2. QED
        BY <2>1, <4>1, ListLengths
    <3>2. QED
      BY <2>1, <3>1, ListLengths DEF LastOffset
  <2>4. OpenIs(k, x, part, r) => OpenIs(k, y, q, r)
    <3> SUFFICES ASSUME OpenIs(k, x, part, r) PROVE OpenIs(k, y, q, r)
      OBVIOUS
    <3>1. /\ Len(x.rings.valid) = LastOffset(x.list) + (Len(part) - 1)
          /\ \A j \in 1 .. Len(part) - 1 :
               ElementSize(x.rings, LastOffset(x.list) + j) = part[j]
          /\ x.points.size = LastOffset(x.rings) + part[Len(part)]
      BY <1>4, <2>1, <2>2 DEF OpenIs
    <3>2. y.points.size = LastOffset(y.rings) + q[Len(q)]
      BY <1>1, <2>1, <2>3, <3>1
    <3>3. QED
      BY <1>1, <1>4, <2>1, <2>2, <3>1, <3>2 DEF OpenIs
  <2>5. PartsKept(k, x, y)
    BY <1>4, <2>1, ExtendsSelf DEF PartsKept
  <2>6. SizesFit(k, y) => SizesFit(k, x)
    <3>1. PointsOf(k, y) = y.points /\ PointsOf(k, x) = x.points
      BY <1>4 DEF PointsOf
    <3>2. y.points.size <= IntMax => x.points.size <= IntMax
      BY <2>1, BuilderAssumption
    <3>3. QED
      BY <2>1, <3>1, <3>2 DEF SizesFit
  <2>7. QED
    BY <2>4, <2>5, <2>6 DEF q
<1>5. QED
  BY <1>3, <1>4 DEF SimpleTypes

(* ring_end(): the open ring becomes the last element of the rings.        *)
LEMMA RingFinishedIs ==
  ASSUME NEW x \in SimpleType("POLYGON"), SimpleGood("POLYGON", x), NEW y,
         RingFinished(x, y), SizesFit("POLYGON", y), NEW part \in Seq(Nat), part # << >>
  PROVE  /\ PartsKept("POLYGON", x, y) /\ SizesFit("POLYGON", x)
         /\ OpenIs("POLYGON", x, part, TRUE) => OpenIs("POLYGON", y, part, FALSE)
<1> DEFINE k == "POLYGON"
           r == x.rings
           m == y.rings
           n == Len(r.valid)
           p == x.points.size
           o == LastOffset(x.list)
           w == Len(part)
<1>1. /\ x.list \in ListType /\ r \in ListType /\ p \in Nat /\ n \in Nat
      /\ w \in Nat \ {0} /\ k \in SimpleTypes
  BY SimpleParts, LenProperties, EmptySeq DEF SimpleTypes
<1>2. /\ y.list = x.list /\ y.points = x.points /\ m = FinishElement(r, p, TRUE)
  BY DEF RingFinished
<1>3. GoodList(r, p) /\ GoodList(x.list, n)
  BY DEF SimpleGood
<1>4. p <= IntMax /\ Len(m.valid) <= IntMax
  BY <1>2 DEF SizesFit, PointsOf
<1>5. /\ Extends(m, r) /\ LastOffset(m) = p /\ Len(m.valid) = n + 1
      /\ ElementSize(m, n + 1) = p - LastOffset(r)
      /\ LastOffset(r) \in 0 .. p
  <2>1. r \in ListType /\ p \in Nat /\ p <= IntMax /\ GoodList(r, p)
    BY <1>1, <1>3, <1>4
  <2>2. PICK notNull \in BOOLEAN : m = FinishElement(r, p, notNull)
    BY <1>2
  <2> HIDE DEF p, r, m
  <2>3. QED
    BY <2>1, <2>2, FinishExact
<1>6. n <= IntMax
  <2> HIDE DEF n
  <2>1. QED
    BY <1>1, <1>4, <1>5, BuilderAssumption
<1>7. PartsKept(k, x, y)
  BY <1>1, <1>2, <1>5, ExtendsSelf DEF PartsKept
<1>8. SizesFit(k, x)
  BY <1>4, <1>6 DEF SizesFit, PointsOf
<1>9. o \in 0 .. n
  <2>1. Len(x.list.offsets) \in 1 .. Len(x.list.offsets)
    <3>1. Len(x.list.offsets) = Len(x.list.valid) + 1 /\ Len(x.list.valid) \in Nat
      BY <1>1, <1>3, ListLengths DEF GoodList
    <3>2. QED
      BY <3>1
  <2>2. QED
    BY <1>3, <1>6, <2>1 DEF GoodList, LastOffset
<1>10. ASSUME OpenIs(k, x, part, TRUE)
       PROVE  OpenIs(k, y, part, FALSE)
  <2>1. /\ n = o + (w - 1)
        /\ \A j \in 1 .. w - 1 : ElementSize(r, o + j) = part[j]
        /\ p = LastOffset(r) + part[w]
    BY <1>10 DEF OpenIs, RingsEnded
  <2>2. part[w] \in Nat
    BY <1>1, ElementOfSeq
  <2> HIDE DEF n, w, o, p
  <2>3. Len(m.valid) = o + w /\ n + 1 = o + w
    BY <1>1, <1>5, <1>9, <2>1
  <2>4. ElementSize(m, o + w) = part[w]
    BY <1>1, <1>5, <2>1, <2>2, <2>3
  <2>5. ASSUME NEW j \in 1 .. w
        PROVE  ElementSize(m, o + j) = part[j]
    <3>1. CASE j = w
      BY <2>4, <3>1
    <3>2. CASE j # w
      <4>1. j \in 1 .. w - 1 /\ o + j \in 1 .. n
        BY <1>1, <1>9, <2>1, <2>5, <3>2
      <4>2. ElementSize(m, o + j) = ElementSize(r, o + j)
        BY <1>1, <1>3, <1>5, <4>1, SameElement DEF GoodList, n
      <4>3. QED
        BY <2>1, <4>1, <4>2
    <3>3. QED
      BY <3>1, <3>2
  <2>6. y.points.size = LastOffset(m) + 0
    <3>1. y.points.size = p /\ LastOffset(m) = p /\ p \in Nat
      BY <1>1, <1>2, <1>5 DEF p
    <3>2. QED
      BY <3>1
  <2>7. QED
    BY <1>2, <2>3, <2>5, <2>6 DEF OpenIs, RingsEnded, o, w
<1>11. QED
  BY <1>7, <1>8, <1>10

(* ring_start(): a ring without vertices is open.                          *)
LEMMA RingOpenedIs ==
  ASSUME NEW x, NEW part \in Seq(Nat), OpenIs("POLYGON", x, part, FALSE)
  PROVE  OpenIs("POLYGON", x, Append(part, 0), TRUE)
<1> DEFINE q == Append(part, 0)
           n == Len(part)
           o == LastOffset(x.list)
<1>1. /\ n \in Nat /\ Len(q) = n + 1 /\ q[n + 1] = 0
      /\ \A j \in 1 .. n : q[j] = part[j]
  BY AppendProperties, LenProperties
<1>2. /\ Len(x.rings.valid) = o + n
      /\ \A j \in 1 .. n : ElementSize(x.rings, o + j) = part[j]
      /\ x.points.size = LastOffset(x.rings) + 0
  BY DEF OpenIs, RingsEnded
<1> HIDE DEF q
<1>3. Len(q) - 1 = n /\ q[Len(q)] = 0
  BY <1>1
<1>4. OpenIs("POLYGON", x, q, TRUE)
  BY <1>1, <1>2, <1>3 DEF OpenIs, RingsEnded
<1>5. QED
  BY <1>4 DEF q

(* geom_start(): a part without vertices or rings is open.                 *)
LEMMA PartOpenedIs ==
  ASSUME NEW k, NEW x, OpenIs(k, x, << >>, FALSE)
  PROVE  OpenIs(k, x, IF k = "LINESTRING" THEN <<0>> ELSE << >>, FALSE)
<1>1. VerticesOf(<<0>>) = 0 /\ VerticesOf(<< >>) = 0
  BY DEF VerticesOf
<1>2. CASE k = "LINESTRING"
  BY <1>1, <1>2 DEF OpenIs
<1>3. CASE k # "LINESTRING"
  BY <1>3
<1>4. QED
  BY <1>2, <1>3

(***************************************************************************)
(* The same for the builder in use.                                        *)
(***************************************************************************)
BuilderKept(x, y) ==
  /\ PartsKept(Kind, PartOf(x), PartOf(y))
  /\ Multi => Extends(y.list, x.list)

BuilderSame(x, y) ==
  /\ SamePart(Kind, PartOf(x), PartOf(y))
  /\ Multi => y.list = x.list

FeatureFinished(x, y) ==
  IF Multi
  THEN /\ y.child = x.child
       /\ \E notNull \in BOOLEAN : y.list = FinishElement(x.list, x.child.size, notNull)
  ELSE PartFinished(Kind, x, y)

(* The first part of a feature is a part.                                 *)
LEMMA FirstPartType ==
  ASSUME NEW parts \in Seq(Seq(Nat))
  PROVE  /\ FirstPart(parts) \in Seq(Nat) /\ Len(parts) \in Nat
         /\ \A j \in 1 .. Len(parts) : parts[j] \in Seq(Nat)
<1>1. Len(parts) \in Nat /\ \A j \in 1 .. Len(parts) : parts[j] \in Seq(Nat)
  BY LenProperties, ElementOfSeq
<1>2. CASE parts = << >>
  BY <1>1, <1>2, EmptySeq DEF FirstPart
<1>3. CASE parts # << >>
  <2>1. Len(parts) # 0
    BY <1>3, EmptySeq
  <2>2. 1 \in 1 .. Len(parts)
    BY <1>1, <2>1
  <2>3. QED
    BY <1>1, <1>3, <2>2 DEF FirstPart
<1>4. QED
  BY <1>2, <1>3

(* A finished feature is decoded as before, whatever was written after it. *)
LEMMA FeatureKept ==
  ASSUME TypeOK, target # "POINT", NEW x \in BuilderType, Good(x), Exact(x),
         NEW y, BuilderKept(x, y), NEW parts \in Seq(Seq(Nat)),
         NEW i \in 1 .. Len(x.list.valid), FeatureIs(x, i, parts)
  PROVE  FeatureIs(y, i, parts)
<1>1. /\ Kind \in SimpleTypes /\ PartOf(x) \in SimpleType(Kind)
      /\ SimpleGood(Kind, PartOf(x)) /\ SizesFit(Kind, PartOf(x))
      /\ PartsKept(Kind, PartOf(x), PartOf(y))
  BY InUse DEF Good, Exact, BuilderKept
<1>2. CASE Multi
  <2> DEFINE l == x.list
             n == x.child.size
  <2>1. /\ PartOf(x) = x.child /\ PartOf(y) = y.child /\ l \in ListType /\ n \in Nat
        /\ GoodList(l, n) /\ n <= IntMax /\ Extends(y.list, l)
    BY <1>2, InUse DEF Good, Exact, BuilderKept, PartOf
  <2>2. /\ Len(l.offsets) = Len(l.valid) + 1 /\ Len(l.valid) \in Nat
        /\ \A j \in 1 .. Len(l.offsets) : l.offsets[j] \in 0 .. n
    BY <2>1, ListLengths DEF GoodList
  <2>3. ElementSize(y.list, i) = ElementSize(l, i) /\ y.list.offsets[i] = l.offsets[i]
    BY <2>1, <2>2, SameElement
  <2>4. /\ ElementSize(l, i) = Len(parts)
        /\ \A j \in 1 .. Len(parts) : PartIs(Kind, x.child, l.offsets[i] + j, parts[j])
    BY <1>2 DEF FeatureIs
  <2>5. Len(parts) \in Nat /\ \A j \in 1 .. Len(parts) : parts[j] \in Seq(Nat)
    BY FirstPartType
  <2>6. l.offsets[i] \in Nat /\ l.offsets[i] + Len(parts) <= n
    <3>1. i \in 1 .. Len(l.offsets) /\ i + 1 \in 1 .. Len(l.offsets)
      BY <2>2
    <3>2. l.offsets[i] \in 0 .. n /\ l.offsets[i + 1] \in 0 .. n
      BY <2>2, <3>1
    <3>3. QED
      BY <2>1, <2>4, <2>5, <3>2 DEF ElementSize
  <2>7. ASSUME NEW j \in 1 .. Len(parts)
        PROVE  PartIs(Kind, y.child, l.offsets[i] + j, parts[j])
    <3>1. l.offsets[i] + j \in 1 .. n
      <4> HIDE DEF l, n
      <4>1. QED
        BY <2>1, <2>5, <2>6, <2>7
    <3>2. PartIs(Kind, x.child, l.offsets[i] + j, parts[j]) /\ parts[j] \in Seq(Nat)
      BY <2>4, <2>5
    <3> HIDE DEF l, n
    <3>3. x.child \in SimpleType(Kind) /\ l.offsets[i] + j \in 1 .. x.child.size
      BY <1>1, <2>1, <3>1 DEF n
    <3>4. QED
      BY <1>1, <2>1, <3>2, <3>3, PartKept
  <2>8. QED
    BY <1>2, <2>3, <2>4, <2>7 DEF FeatureIs
<1>3. CASE ~Multi
  <2>1. PartOf(x) = x /\ PartOf(y) = y /\ Kind # "POINT"
    BY <1>3, InUse DEF PartOf
  <2>2. i \in 1 .. x.size
    BY <1>1, <2>1 DEF SimpleGood, SimpleTypes
  <2>3. FirstPart(parts) \in Seq(Nat) /\ PartIs(Kind, x, i, FirstPart(parts))
    BY <1>3, FirstPartType DEF FeatureIs
  <2>4. PartIs(Kind, y, i, FirstPart(parts))
    BY <1>1, <2>1, <2>2, <2>3, PartKept
  <2>5. QED
    BY <1>3, <2>4 DEF FeatureIs
<1>4. QED
  BY <1>2, <1>3

(* The last offset of a good list is one of its offsets.                   *)
LEMMA LastOffsetGood ==
  ASSUME NEW l \in ListType, NEW n \in Nat, GoodList(l, n), n <= IntMax
  PROVE  LastOffset(l) \in 0 .. n
<1>1. Len(l.offsets) \in 1 .. Len(l.offsets)
  <2>1. Len(l.offsets) = Len(l.valid) + 1 /\ Len(l.valid) \in Nat
    BY ListLengths DEF GoodList
  <2>2. QED
    BY <2>1
<1>2. QED
  BY <1>1 DEF GoodList, LastOffset

(* The parts ended so far are decoded as before, whatever is written to    *)
(* the child after them.                                                   *)
LEMMA EndedKept ==
  ASSUME TypeOK, Multi, NEW x \in BuilderType, Good(x), Exact(x),
         NEW y, y.list = x.list, PartsKept(Kind, x.child, y.child),
         NEW parts \in Seq(Seq(Nat)), NEW n \in 0 .. Len(parts), EndedAre(x, parts, n),
         NEW j \in 1 .. n
  PROVE  PartIs(Kind, y.child, LastOffset(y.list) + j, parts[j])
<1> DEFINE o == LastOffset(x.list)
           s == x.child.size
<1>1. /\ Kind \in SimpleTypes /\ x.child \in SimpleType(Kind) /\ s \in Nat
      /\ SimpleGood(Kind, x.child) /\ SizesFit(Kind, x.child)
      /\ x.list \in ListType /\ GoodList(x.list, s) /\ s <= IntMax
  BY InUse DEF Good, Exact
<1>2. o \in 0 .. s
  <2> HIDE DEF s
  <2>1. QED
    BY <1>1, LastOffsetGood
<1>3. s = o + n /\ PartIs(Kind, x.child, o + j, parts[j])
  BY DEF EndedAre
<1>4. Len(parts) \in Nat /\ parts[j] \in Seq(Nat)
  <2>1. Len(parts) \in Nat /\ \A i \in 1 .. Len(parts) : parts[i] \in Seq(Nat)
    BY FirstPartType
  <2>2. j \in 1 .. Len(parts)
    <3>1. PICK w : w = Len(parts)
      OBVIOUS
    <3>2. w \in Nat /\ n \in 0 .. w /\ j \in 1 .. n
      BY <2>1, <3>1
    <3>3. j \in 1 .. w
      BY <3>2
    <3>4. QED
      BY <3>1, <3>3
  <2>3. QED
    BY <2>1, <2>2
<1>5. o + j \in 1 .. s
  <2> HIDE DEF s, o
  <2>1. n \in Nat
    BY <1>4
  <2>2. QED
    BY <1>1, <1>2, <1>3, <2>1
<1>6. PartIs(Kind, y.child, o + j, parts[j])
  <2> HIDE DEF o
  <2>1. o + j \in 1 .. x.child.size
    BY <1>5 DEF s
  <2>2. QED
    BY <1>1, <1>3, <1>4, <2>1, PartKept
<1>7. QED
  BY <1>6

(* Nothing written: the unfinished element is decoded as before.           *)
LEMMA BuilderSameIs ==
  ASSUME TypeOK, target # "POINT", NEW x \in BuilderType, Good(x),
         NEW y, BuilderSame(x, y)
  PROVE  /\ BuilderKept(x, y) /\ (Exact(y) <=> Exact(x))
         /\ \A open, r :
              OpenIs(Kind, PartOf(y), open, r) <=> OpenIs(Kind, PartOf(x), open, r)
         /\ Multi => y.list = x.list /\ y.child.size = x.child.size
<1>1. /\ Kind \in SimpleTypes /\ PartOf(x) \in SimpleType(Kind)
      /\ SimpleGood(Kind, PartOf(x)) /\ SamePart(Kind, PartOf(x), PartOf(y))
  BY InUse DEF Good, BuilderSame
<1>2. /\ PartsKept(Kind, PartOf(x), PartOf(y))
      /\ SizesFit(Kind, PartOf(y)) <=> SizesFit(Kind, PartOf(x))
      /\ \A part, r : OpenIs(Kind, PartOf(y), part, r) <=> OpenIs(Kind, PartOf(x), part, r)
  BY <1>1, SamePartIs
<1>3. Multi => /\ y.list = x.list /\ y.child.size = x.child.size /\ x.list \in ListType
  BY <1>1, InUse DEF BuilderSame, SamePart, PartOf
<1>4. BuilderKept(x, y)
  BY <1>2, <1>3, ExtendsSelf DEF BuilderKept
<1>5. Exact(y) <=> Exact(x)
  BY <1>2, <1>3 DEF Exact
<1>6. QED
  BY <1>2, <1>3, <1>4, <1>5

(* The unfinished element after a call that ends no part.                  *)
LEMMA StillUnfinished ==
  ASSUME TypeOK, NEW x \in BuilderType, Good(x), Exact(x), NEW y, BuilderKept(x, y),
         Multi => y.list = x.list /\ y.child.size = x.child.size,
         NEW parts \in Seq(Seq(Nat)), NEW n \in 0 .. Len(parts),
         Multi => EndedAre(x, parts, n),
         NEW qs, \A j \in 1 .. n : qs[j] = parts[j],
         NEW open, NEW r, OpenIs(Kind, PartOf(y), open, r)
  PROVE  UnfinishedIs(y, qs, n, open, r)
<1>1. ASSUME Multi
      PROVE  EndedAre(y, qs, n)
  <2>1. PartsKept(Kind, x.child, y.child) /\ y.list = x.list /\ EndedAre(x, parts, n)
    BY <1>1 DEF BuilderKept, PartOf
  <2>2. ASSUME NEW j \in 1 .. n
        PROVE  PartIs(Kind, y.child, LastOffset(y.list) + j, qs[j])
    <3>1. PartIs(Kind, y.child, LastOffset(y.list) + j, parts[j])
      BY <1>1, <2>1, EndedKept
    <3>2. QED
      BY <3>1
  <2>3. QED
    BY <1>1, <2>1, <2>2 DEF EndedAre
<1>2. QED
  BY <1>1 DEF UnfinishedIs

(* ... and after one that ends the part that was open.                     *)
LEMMA PartEndedIs ==
  ASSUME TypeOK, Multi, NEW x \in BuilderType, Good(x), Exact(x), NEW y,
         y.list = x.list, y.child.size = x.child.size + 1,
         PartsKept(Kind, x.child, y.child),
         NEW parts \in Seq(Seq(Nat)), NEW n \in 0 .. Len(parts), n + 1 = Len(parts),
         EndedAre(x, parts, n), PartIs(Kind, y.child, x.child.size + 1, parts[n + 1])
  PROVE  EndedAre(y, parts, n + 1)
<1> DEFINE o == LastOffset(x.list)
           s == x.child.size
<1>1. s \in Nat /\ n \in Nat /\ x.list \in ListType /\ GoodList(x.list, s) /\ s <= IntMax
  BY InUse, FirstPartType DEF Good, Exact
<1>2. o \in 0 .. s
  <2> HIDE DEF s
  <2>1. QED
    BY <1>1, LastOffsetGood
<1>3. s = o + n
  BY DEF EndedAre
<1>4. ASSUME NEW j \in 1 .. n + 1
      PROVE  PartIs(Kind, y.child, o + j, parts[j])
  <2>1. CASE j = n + 1
    <3>1. s + 1 = o + j
      <4> HIDE DEF s, o
      <4>1. QED
        BY <1>1, <1>2, <1>3, <2>1
    <3>2. QED
      BY <2>1, <3>1
  <2>2. CASE j # n + 1
    <3>1. j \in 1 .. n
      BY <1>1, <2>2
    <3>2. QED
      BY <3>1, EndedKept
  <2>3. QED
    BY <2>1, <2>2
<1>5. y.child.size = LastOffset(y.list) + (n + 1)
  <2>1. y.child.size = s + 1 /\ LastOffset(y.list) = o
    OBVIOUS
  <2> HIDE DEF s, o
  <2>2. QED
    BY <1>1, <1>2, <1>3, <2>1
<1>6. QED
  BY <1>4, <1>5 DEF EndedAre

(* Finishing a feature: what was unfinished is its element.                *)
LEMMA FeatureFinishedIs ==
  ASSUME TypeOK, target # "POINT", NEW x \in BuilderType, Good(x), Exact(x), NEW y,
         FeatureFinished(x, y), NEW parts \in Seq(Seq(Nat)),
         UnfinishedIs(x, parts, Len(parts), IF Multi THEN << >> ELSE FirstPart(parts), FALSE)
  PROVE  /\ FeatureIs(y, Len(x.list.valid) + 1, parts)
         /\ UnfinishedIs(y, << >>, 0, << >>, FALSE) /\ BuilderKept(x, y)
<1>1. /\ Kind \in SimpleTypes /\ PartOf(x) \in SimpleType(Kind)
      /\ SimpleGood(Kind, PartOf(x)) /\ SizesFit(Kind, PartOf(x))
  BY InUse DEF Good, Exact
<1>2. CASE Multi
  <2> DEFINE l == x.list
             n == x.child.size
             m == y.list
             i == Len(l.valid) + 1
  <2>1. /\ PartOf(x) = x.child /\ PartOf(y) = y.child /\ l \in ListType /\ n \in Nat
        /\ GoodList(l, n) /\ n <= IntMax /\ y.child = x.child
    BY <1>2, InUse DEF Good, Exact, FeatureFinished, PartOf
  <2>2. PICK notNull \in BOOLEAN : m = FinishElement(l, n, notNull)
    BY <1>2 DEF FeatureFinished
  <2>3. /\ Extends(m, l) /\ LastOffset(m) = n /\ m.offsets[i] = LastOffset(l)
        /\ ElementSize(m, i) = n - LastOffset(l) /\ LastOffset(l) \in 0 .. n
    <3> HIDE DEF l, n, m
    <3>1. QED
      BY <2>1, <2>2, FinishExact
  <2>4. OpenIs(Kind, x.child, << >>, FALSE) /\ EndedAre(x, parts, Len(parts))
    BY <1>2, <2>1 DEF UnfinishedIs
  <2>5. /\ n = LastOffset(l) + Len(parts)
        /\ \A j \in 1 .. Len(parts) : PartIs(Kind, x.child, LastOffset(l) + j, parts[j])
    BY <2>4 DEF EndedAre
  <2>6. ElementSize(m, i) = Len(parts)
    <3>1. Len(parts) \in Nat
      BY FirstPartType
    <3> HIDE DEF l, n, m, i
    <3>2. QED
      BY <2>1, <2>3, <2>5, <3>1
  <2>7. FeatureIs(y, i, parts)
    BY <1>2, <2>1, <2>3, <2>5, <2>6 DEF FeatureIs
  <2>8. EndedAre(y, << >>, 0)
    BY <2>1, <2>3 DEF EndedAre
  <2>9. UnfinishedIs(y, << >>, 0, << >>, FALSE)
    BY <2>1, <2>4, <2>8 DEF UnfinishedIs
  <2>10. SamePart(Kind, PartOf(x), PartOf(y))
    BY <2>1 DEF SamePart
  <2>11. BuilderKept(x, y)
    BY <1>1, <2>3, <2>10, SamePartIs DEF BuilderKept
  <2>12. QED
    BY <2>7, <2>9, <2>11
<1>3. CASE ~Multi
  <2>1. /\ PartOf(x) = x /\ PartOf(y) = y /\ Kind \in SimpleTypes \ {"POINT"}
        /\ PartFinished(Kind, x, y) /\ FirstPart(parts) \in Seq(Nat)
        /\ OpenIs(Kind, x, FirstPart(parts), FALSE)
    BY <1>1, <1>3, InUse, FirstPartType DEF PartOf, FeatureFinished, UnfinishedIs
  <2>2. /\ PartIs(Kind, y, x.size + 1, FirstPart(parts)) /\ OpenIs(Kind, y, << >>, FALSE)
        /\ PartsKept(Kind, x, y)
    BY <1>1, <2>1, PartFinishedIs
  <2>3. x.size = Len(x.list.valid)
    BY <1>1, <2>1 DEF SimpleGood, SimpleTypes
  <2>4. QED
    BY <1>3, <2>1, <2>2, <2>3 DEF FeatureIs, UnfinishedIs, BuilderKept
<1>4. QED
  BY <1>2, <1>3

(***************************************************************************)
(* What each call writes.                                                  *)
(***************************************************************************)

(* The members of a builder whose coordinates are replaced.               *)
LEMMA WithPointsMembers ==
  ASSUME NEW k \in SimpleTypes, NEW x \in SimpleType(k), NEW p, NEW y,
         y = WithPoints(k, x, p)
  PROVE  /\ PointsOf(k, y) = p
         /\ k = "POINT" => y = p
         /\ k # "POINT" => y.size = x.size /\ y.list = x.list
         /\ k = "POLYGON" => y.rings = x.rings
<1>1. CASE k = "POINT"
  BY <1>1 DEF WithPoints, PointsOf
<1>2. CASE k = "LINESTRING"
  BY <1>2 DEF WithPoints, PointsOf
<1>3. CASE k = "POLYGON"
  BY <1>3 DEF WithPoints, PointsOf
<1>4. QED
  BY <1>1, <1>2, <1>3 DEF SimpleTypes

(* new_dimensions() writes nothing.                                        *)
LEMMA NewDimensionsWrites ==
  ASSUME TypeOK, NEW d, NEW y, y = NewDimensionsCall(d)
  PROVE  BuilderSame(b, y)
<1> DEFINE k == Kind
           x == PartOf(b)
           p == PointsOf(k, x)
           q == PointNewDimensions(p, d)
           s == WithPoints(k, x, q)
<1>1. k \in SimpleTypes /\ x \in SimpleType(k)
  BY InUse DEF TypeOK
<1>2. q.size = p.size
  BY DEF PointNewDimensions
<1>3. SamePart(k, x, s)
  <2> HIDE DEF q, k, x
  <2>1. /\ PointsOf(k, s) = q
        /\ k = "POINT" => s = q /\ p = x
        /\ k # "POINT" => s.size = x.size /\ s.list = x.list
        /\ k = "POLYGON" => s.rings = x.rings
    BY <1>1, WithPointsMembers DEF PointsOf
  <2>2. QED
    BY <1>2, <2>1 DEF SamePart
<1>4. SimpleNewDimensions(k, x, d) = s
  BY DEF SimpleNewDimensions
<1>5. PartOf(y) = s /\ (Multi => y.list = b.list)
  <2> HIDE DEF s
  <2>1. QED
    BY <1>4 DEF NewDimensionsCall, PartOf, Kind, WithChild, MultiRec
<1>6. QED
  BY <1>3, <1>5 DEF BuilderSame

(* coords() writes n coordinates.                                          *)
LEMMA CoordsWrites ==
  ASSUME TypeOK, NEW n, NEW y, y = CoordsCall(n)
  PROVE  Wrote(Kind, PartOf(b), PartOf(y), n) /\ (Multi => y.list = b.list)
<1> DEFINE k == Kind
           x == PartOf(b)
           p == PointsOf(k, x)
           q == PointCoords(p, n, CoordSize(dim))
           s == WithPoints(k, x, q)
<1>1. k \in SimpleTypes /\ x \in SimpleType(k)
  BY InUse DEF TypeOK
<1>2. q.size = p.size + n
  BY DEF PointCoords, WritePoints
<1>3. Wrote(k, x, s, n)
  <2> HIDE DEF q, k, x
  <2>1. /\ PointsOf(k, s) = q
        /\ k = "POINT" => s = q /\ p = x
        /\ k # "POINT" => s.size = x.size /\ s.list = x.list
        /\ k = "POLYGON" => s.rings = x.rings
    BY <1>1, WithPointsMembers DEF PointsOf
  <2>2. QED
    BY <1>2, <2>1 DEF Wrote
<1>4. SimpleCoords(k, x, n, CoordSize(dim)) = s
  BY DEF SimpleCoords
<1>5. PartOf(y) = s /\ (Multi => y.list = b.list)
  <2> HIDE DEF s
  <2>1. QED
    BY <1>4 DEF CoordsCall, PartOf, Kind, WithChild, MultiRec
<1>6. QED
  BY <1>3, <1>5

(* ring_end() finishes the ring.                                           *)
LEMMA RingEndWrites ==
  ASSUME TypeOK, Kind = "POLYGON", NEW y, y = RingEndCall
  PROVE  RingFinished(PartOf(b), PartOf(y)) /\ (Multi => y.list = b.list)
<1>1. PartOf(y) = PolygonRingEnd(PartOf(b)) /\ (Multi => y.list = b.list)
  BY DEF RingEndCall, SimpleRingEnd, PartOf, Kind, WithChild, MultiRec
<1>2. QED
  BY <1>1 DEF PolygonRingEnd, RingFinished

(* Finishing an element of a simple builder.                               *)
LEMMA SimpleFinishes ==
  ASSUME NEW k \in SimpleTypes \ {"POINT"}, NEW x, NEW notNull \in BOOLEAN,
         NEW y, y = IF k = "LINESTRING" THEN LinestringFinish(x, notNull)
                    ELSE PolygonFinish(x, notNull)
  PROVE  PartFinished(k, x, y)
<1>1. CASE k = "LINESTRING"
  BY <1>1 DEF LinestringFinish, PartFinished, LengthUnder
<1>2. CASE k = "POLYGON"
  BY <1>2 DEF PolygonFinish, PartFinished, LengthUnder
<1>3. QED
  BY <1>1, <1>2 DEF SimpleTypes

(* feat_end() of a simple builder finishes its element.                   *)
LEMMA SimpleFeatEndWrites ==
  ASSUME NEW k \in SimpleTypes \ {"POINT"}, NEW x, NEW y, y = SimpleFeatEnd(k, x)
  PROVE  PartFinished(k, x, y)
<1>0. PICK notNull \in BOOLEAN : notNull = TRUE
  OBVIOUS
<1>1. y = IF k = "LINESTRING" THEN LinestringFinish(x, notNull) ELSE PolygonFinish(x, notNull)
  BY <1>0 DEF SimpleFeatEnd, LinestringFeatEnd, PolygonFeatEnd, SimpleTypes
<1>2. QED
  BY <1>1, SimpleFinishes

(* Finishing an element of a multi-geometry builder.                       *)
LEMMA MultiFinishWrites ==
  ASSUME Multi, NEW x, NEW level, NEW notNull \in BOOLEAN,
         NEW y, y = MultiFinish(x, level, notNull)
  PROVE  FeatureFinished(x, y)
BY DEF MultiFinish, MultiRec, FeatureFinished

(* null_feat() finishes the feature's element and ends the feature.        *)
LEMMA NullFeatWrites ==
  ASSUME TypeOK, target # "POINT"
  PROVE  /\ NullFeatCall.res = "ABORT_FEATURE"
         /\ \A y : y = NullFeatCall.b => FeatureFinished(b, y)
<1>0. PICK notNull \in BOOLEAN : notNull = FALSE
  OBVIOUS
<1>1. CASE Multi
  <2>1. /\ NullFeatCall.res = "ABORT_FEATURE"
        /\ NullFeatCall.b = MultiFinish(b, b.level, notNull)
    BY <1>0, <1>1 DEF NullFeatCall, MultiNullFeat, Ret
  <2>2. QED
    BY <1>1, <2>1, MultiFinishWrites
<1>2. CASE ~Multi
  <2>1. target \in SimpleTypes \ {"POINT"} /\ Kind = target
    BY <1>2, InUse DEF TypeOK
  <2>2. /\ NullFeatCall.res = "ABORT_FEATURE"
        /\ NullFeatCall.b = IF target = "LINESTRING" THEN LinestringFinish(b, notNull)
                            ELSE PolygonFinish(b, notNull)
    BY <1>0, <1>2, <2>1
       DEF NullFeatCall, SimpleNullFeat, LinestringNullFeat, PolygonNullFeat, Ret, SimpleTypes
  <2>3. \A y : y = NullFeatCall.b => PartFinished(target, b, y)
    BY <2>1, <2>2, SimpleFinishes
  <2>4. QED
    BY <1>2, <2>1, <2>2, <2>3 DEF FeatureFinished
<1>3. QED
  BY <1>1, <1>2

(* feat_end() finishes the feature's element.                              *)
LEMMA FeatEndWrites ==
  ASSUME TypeOK, target # "POINT", NEW y,
         y = IF Multi THEN MultiFeatEnd(b) ELSE SimpleFeatEnd(target, b)
  PROVE  FeatureFinished(b, y)
<1>0. PICK notNull \in BOOLEAN : notNull = TRUE
  OBVIOUS
<1>1. CASE Multi
  <2>1. y = MultiFinish(b, b.level, notNull)
    BY <1>0, <1>1 DEF MultiFeatEnd
  <2>2. QED
    BY <1>1, <2>1, MultiFinishWrites
<1>2. CASE ~Multi
  <2>1. target \in SimpleTypes \ {"POINT"} /\ Kind = target
    BY <1>2, InUse DEF TypeOK
  <2>2. QED
    BY <1>2, <2>1, SimpleFeatEndWrites DEF FeatureFinished
<1>3. QED
  BY <1>1, <1>2

(* geom_end() ends the part of a multi-geometry, or writes nothing.        *)
LEMMA GeomEndWrites ==
  ASSUME TypeOK, Multi, NEW y, y = MultiGeomEnd(target, b)
  PROVE  /\ y.list = b.list
         /\ b.level > 1 /\ Kind # "POINT" => PartFinished(Kind, b.child, y.child)
         /\ ~(b.level > 1) \/ Kind = "POINT" => y.child = b.child
<1>1. /\ b.level \in Nat /\ Kind = ChildType(target) /\ Kind \in SimpleTypes
  BY InUse DEF TypeOK
<1>2. /\ y.list = b.list
      /\ y.child = IF b.level - 1 > 0 THEN SimpleFeatEnd(Kind, b.child) ELSE b.child
  BY <1>1 DEF MultiGeomEnd, MultiRec
<1>3. CASE b.level > 1 /\ Kind # "POINT"
  <2>1. y.child = SimpleFeatEnd(Kind, b.child)
    BY <1>1, <1>2, <1>3
  <2>2. QED
    BY <1>1, <1>2, <1>3, <2>1, SimpleFeatEndWrites
<1>4. CASE ~(b.level > 1)
  BY <1>1, <1>2, <1>4
<1>5. CASE Kind = "POINT"
  BY <1>2, <1>5 DEF SimpleFeatEnd
<1>6. QED
  BY <1>3, <1>4, <1>5

(* geom_start() of a simple builder writes only if the geometry is empty.  *)
LEMMA SimpleStartWrites ==
  ASSUME NEW k \in SimpleTypes, NEW x, NEW t, NEW sz, NEW c, c = SimpleGeomStart(k, x, t, sz)
  PROVE  /\ sz # 0 => /\ c.b = x /\ c.res # "ABORT_FEATURE"
                      /\ c.res = "CONTINUE" =>
                           t = k \/ (t = ParentOf(k) /\ sz = 1)
         /\ sz = 0 /\ k # "POINT" => c.res = "ABORT_FEATURE" /\ PartFinished(k, x, c.b)
<1>0. PICK notNull \in BOOLEAN : notNull = TRUE
  OBVIOUS
<1>1. CASE sz # 0
  <2>1. CASE k = "POINT"
    BY <1>1, <2>1 DEF SimpleGeomStart, PointGeomStart, Ret, ParentOf
  <2>2. CASE k = "LINESTRING"
    BY <1>1, <2>2 DEF SimpleGeomStart, LinestringGeomStart, Ret, ParentOf
  <2>3. CASE k = "POLYGON"
    BY <1>1, <2>3 DEF SimpleGeomStart, PolygonGeomStart, Ret, ParentOf
  <2>4. QED
    BY <1>1, <2>1, <2>2, <2>3 DEF SimpleTypes
<1>2. CASE sz = 0 /\ k # "POINT"
  <2>1. /\ c.res = "ABORT_FEATURE"
        /\ c.b = IF k = "LINESTRING" THEN LinestringFinish(x, notNull)
                 ELSE PolygonFinish(x, notNull)
    BY <1>0, <1>2
       DEF SimpleGeomStart, LinestringGeomStart, PolygonGeomStart, Ret, SimpleTypes
  <2>2. QED
    BY <1>2, <2>1, SimpleFinishes
<1>3. QED
  BY <1>1, <1>2

(* geom_start() of the builder in use: a feature without parts is finished *)
(* at once, anything else writes nothing.                                  *)
LEMMA GeomStartWrites ==
  ASSUME TypeOK, target # "POINT", NEW x \in BuilderType, NEW t, NEW sz,
         Multi /\ x.level >= 1 => sz # 0,
         NEW c, c = GeomStartCall(x, t, sz)
  PROVE  /\ c.res = "CONTINUE" =>
              /\ sz # 0 /\ PartOf(c.b) = PartOf(x) /\ (Multi => c.b.list = x.list)
              /\ ~Multi => t = Kind \/ (t = ParentOf(Kind) /\ sz = 1)
         /\ c.res = "ABORT_FEATURE" =>
              /\ sz = 0 /\ FeatureFinished(x, c.b)
              /\ Multi => ~(x.level >= 1)
<1>0. PICK notNull \in BOOLEAN : notNull = TRUE
  OBVIOUS
<1>1. CASE Multi
  <2>1. c = MultiGeomStart(target, x, t, sz) /\ Kind = ChildType(target) /\ Kind \in SimpleTypes
    BY <1>1, InUse DEF GeomStartCall
  <2> DEFINE child == SimpleGeomStart(Kind, x.child, t, sz)
  <2>2. sz # 0 => child.b = x.child
    BY <2>1, SimpleStartWrites
  <2> HIDE DEF child
  <2>3. CASE sz = 0
    <3>0. ~(x.level >= 1)
      BY <1>1, <2>3
    <3>1. PICK y : y = MultiFinish(x, x.level + 1, notNull)
      OBVIOUS
    <3>2. c = Ret("ABORT_FEATURE", y)
      BY <1>0, <2>1, <2>3, <3>0, <3>1, Zenon DEF MultiGeomStart
    <3>3. c.res = "ABORT_FEATURE" /\ c.b = y
      BY <3>2 DEF Ret
    <3>4. QED
      BY <1>1, <2>3, <3>0, <3>1, <3>3, MultiFinishWrites
  <2>4. CASE sz # 0
    <3>0. SimpleGeomStart(ChildType(target), x.child, t, sz) = child
      BY <2>1 DEF child
    <3>1. \/ c = MultiPass(x, 1, child) \/ c = MultiPass(x, 2, child)
          \/ c = Ret("CONTINUE", MultiRec(x.level + 1, x.list, x.child))
          \/ c = Ret("THROW", x)
      BY <2>1, <2>4, <3>0 DEF MultiGeomStart
    <3>2. /\ c.res # "ABORT_FEATURE"
          /\ c.res = "CONTINUE" => c.b.child = x.child /\ c.b.list = x.list
      BY <2>2, <2>4, <3>1 DEF MultiPass, MultiRec, Ret
    <3>3. QED
      BY <1>1, <2>4, <3>2 DEF PartOf
  <2>5. QED
    BY <2>3, <2>4
<1>2. CASE ~Multi
  <2>1. target \in SimpleTypes \ {"POINT"} /\ Kind = target
    BY <1>2, InUse
  <2>2. c = SimpleGeomStart(target, x, t, sz)
    BY <1>2 DEF GeomStartCall
  <2>3. /\ sz # 0 => /\ c.b = x /\ c.res # "ABORT_FEATURE"
                     /\ c.res = "CONTINUE" => t = target \/ (t = ParentOf(target) /\ sz = 1)
        /\ sz = 0 => c.res = "ABORT_FEATURE" /\ PartFinished(target, x, c.b)
    BY <2>1, <2>2, SimpleStartWrites
  <2>4. QED
    BY <1>2, <2>1, <2>3 DEF FeatureFinished, PartOf
<1>3. QED
  BY <1>1, <1>2

(***************************************************************************)
(* The shape of what is read: one lemma per call.                          *)
(***************************************************************************)

(* The target never changes, so neither does the kind of its parts.       *)
LEMMA KindRigid ==
  ASSUME UNCHANGED target
  PROVE  Kind' = Kind /\ Multi' = Multi
BY DEF Kind, Multi

(* The kinds of geometries, apart from each other.                         *)
LEMMA KindsApart ==
  ASSUME TypeOK
  PROVE  /\ Kind \in {"POINT", "LINESTRING", "POLYGON"}
         /\ ParentOf(Kind) \in MultiTypes /\ ParentOf(Kind) # Kind
         /\ Kind # "RING" /\ ParentOf(Kind) # "RING"
         /\ target # "POINT" /\ Kind = "POINT" => Multi /\ target = "MULTIPOINT"
         /\ Multi => target = ParentOf(Kind)
         /\ ~Multi => target = Kind
<1>1. Kind \in SimpleTypes /\ (Multi => ParentOf(Kind) = target) /\ (~Multi => Kind = target)
  BY InUse DEF TypeOK
<1>2. Kind \in {"POINT", "LINESTRING", "POLYGON"}
  BY <1>1 DEF SimpleTypes
<1>3. QED
  BY <1>1, <1>2 DEF ParentOf, MultiTypes

(* Geometries opened inside another.                                       *)
LEMMA PartOfParent ==
  ASSUME TypeOK, NEW t \in PartTypes(ParentOf(Kind))
  PROVE  t = Kind
BY KindsApart DEF PartTypes, ParentOf

(* Points, lines and polygons have no parts that are geometries.          *)
LEMMA NoPartOfKind ==
  ASSUME TypeOK
  PROVE  PartTypes(Kind) = {}
BY KindsApart DEF PartTypes

(* A polygon opened directly inside the multi-geometry, or as the feature. *)
LEMMA NestPop ==
  ASSUME ReaderInv, phase = "geometry", NestInv, UNCHANGED target,
         stack' = SubSeq(stack, 1, Len(stack) - 1)
  PROVE  NestInv'
<1>1. stack # << >> /\ Len(stack) \in Nat \ {0}
  BY TopFrame
<1>2. Len(stack') = Len(stack) - 1 /\ \A i \in 1 .. Len(stack') : stack'[i] = stack[i]
  BY <1>1, PopInv
<1>3. Kind' = Kind
  BY KindRigid
<1>4. ASSUME target # "POINT", NEW i \in 1 .. Len(stack')
      PROVE  /\ stack'[i].type \in {Kind, ParentOf(Kind), "RING"}
             /\ stack'[i].type = ParentOf(Kind) => i = 1
             /\ stack'[i].type = Kind => i = 1 \/ (i = 2 /\ stack'[1].type = ParentOf(Kind))
  <2>1. i \in 1 .. Len(stack) /\ stack'[i] = stack[i]
    BY <1>1, <1>2
  <2>2. stack'[1] = stack[1]
    <3>1. 1 \in 1 .. Len(stack')
      BY <1>1, <1>2
    <3>2. QED
      BY <1>2, <3>1
  <2>3. QED
    BY <1>4, <2>1, <2>2 DEF NestInv
<1>5. QED
  BY <1>3, <1>4 DEF NestInv

(* Counting in the innermost geometry changes no kind.                    *)
LEMMA NestCount ==
  ASSUME ReaderInv, phase = "geometry", NestInv, UNCHANGED target, NEW n \in Nat,
         stack' = CountOne(n)
  PROVE  NestInv'
<1>1. /\ Len(stack') = Len(stack) /\ Len(stack) \in Nat \ {0}
      /\ \A i \in 1 .. Len(stack) : stack'[i].type = stack[i].type
  BY TopFrame, CountOneProperties
<1>2. Kind' = Kind
  BY KindRigid
<1>3. stack'[1].type = stack[1].type
  BY <1>1
<1>4. QED
  BY <1>1, <1>2, <1>3 DEF NestInv

(* A ring, the part itself or the multi-geometry is opened.                *)
LEMMA NestPush ==
  ASSUME ReaderInv, TypeOK, NestInv, UNCHANGED target, NEW f \in FrameType,
         f.type \in {Kind, ParentOf(Kind), "RING"},
         phase \in {"feature", "geometry"},
         stack' = Append(IF stack = << >> THEN stack ELSE CountOne(1), f),
         target # "POINT" =>
           \/ phase = "feature"
           \/ f.type = "RING"
           \/ f.type = Kind /\ Top.type = ParentOf(Kind)
  PROVE  NestInv'
<1>1. Kind' = Kind /\ Kind # ParentOf(Kind) /\ Kind # "RING" /\ ParentOf(Kind) # "RING"
  BY KindRigid, KindsApart
<1>2. CASE phase = "feature"
  <2>1. stack = << >>
    BY <1>2 DEF ReaderInv, StackWellFormed
  <2>2. Len(stack') = 1 /\ stack'[1] = f
    BY <2>1, PushFirst
  <2>3. QED
    BY <1>1, <2>2 DEF NestInv
<1>3. CASE phase = "geometry"
  <2>1. stack # << >> /\ Len(stack) \in Nat \ {0} /\ Top = stack[Len(stack)]
    BY <1>3, TopFrame
  <2>2. /\ Len(stack') = Len(stack) + 1
        /\ stack'[Len(stack) + 1] = f
        /\ stack'[Len(stack)] = Counted(Top, 1)
        /\ \A i \in 1 .. Len(stack) - 1 : stack'[i] = stack[i]
    BY <1>3, <2>1, PushFrames
  <2>3. \A i \in 1 .. Len(stack) : stack'[i].type = stack[i].type
    BY <2>1, <2>2 DEF Counted
  <2>4. ASSUME target # "POINT", NEW i \in 1 .. Len(stack')
        PROVE  /\ stack'[i].type \in {Kind, ParentOf(Kind), "RING"}
               /\ stack'[i].type = ParentOf(Kind) => i = 1
               /\ stack'[i].type = Kind => i = 1 \/ (i = 2 /\ stack'[1].type = ParentOf(Kind))
    <3>0. 1 \in 1 .. Len(stack) /\ Len(stack) \in 1 .. Len(stack)
      BY <2>1
    <3>1. CASE i = Len(stack) + 1
      <4>1. f.type = "RING" \/ (f.type = Kind /\ Top.type = ParentOf(Kind))
        BY <1>3, <2>4
      <4>2. CASE f.type = "RING"
        BY <1>1, <2>2, <3>1, <4>2
      <4>3. CASE f.type = Kind /\ Top.type = ParentOf(Kind)
        <5>1. Len(stack) = 1
          BY <2>1, <2>4, <3>0, <4>3 DEF NestInv
        <5>2. stack'[1].type = ParentOf(Kind)
          BY <2>1, <2>3, <3>0, <4>3, <5>1
        <5>3. i = 2 /\ stack'[i].type = Kind
          BY <2>2, <3>1, <4>3, <5>1
        <5>4. QED
          BY <1>1, <5>2, <5>3
      <4>4. QED
        BY <4>1, <4>2, <4>3
    <3>2. CASE i \in 1 .. Len(stack)
      BY <2>3, <2>4, <3>0, <3>2 DEF NestInv
    <3>3. i = Len(stack) + 1 \/ i \in 1 .. Len(stack)
      BY <2>1, <2>2
    <3>4. QED
      BY <3>1, <3>2, <3>3, Zenon
  <2>5. QED
    BY <1>1, <2>4 DEF NestInv
<1>4. QED
  BY <1>2, <1>3

(* No geometry is open.                                                   *)
LEMMA NestEmpty ==
  ASSUME stack' = << >>
  PROVE  NestInv'
BY DEF NestInv

(* Which geometries are open.                                              *)
LEMMA OpenFrames ==
  ASSUME TypeOK, ReaderInv, FamilyInv, NestInv, target # "POINT", phase = "geometry"
  PROVE  /\ \/ Top.type = ParentOf(Kind) /\ Len(stack) = 1
            \/ Top.type = Kind /\ Len(stack) = 1
            \/ Top.type = Kind /\ Len(stack) = 2 /\ stack[1].type = ParentOf(Kind)
            \/ /\ Top.type = "RING" /\ Kind = "POLYGON" /\ Len(stack) > 1
               /\ stack[Len(stack) - 1].type = "POLYGON"
         /\ stack[1].type \in {Kind, ParentOf(Kind)}
<1>1. Len(stack) \in Nat \ {0} /\ Top = stack[Len(stack)] /\ stack[1].type # "RING"
  BY TopFrame
<1>2. Len(stack) \in 1 .. Len(stack) /\ 1 \in 1 .. Len(stack)
  BY <1>1
<1>3. stack[1].type \in {Kind, ParentOf(Kind)}
  BY <1>1, <1>2 DEF NestInv
<1>4. CASE Top.type = "RING"
  BY <1>3, <1>4, TopFamily, KindsApart DEF Accepted
<1>5. CASE Top.type = ParentOf(Kind)
  BY <1>1, <1>2, <1>3, <1>5 DEF NestInv
<1>6. CASE Top.type = Kind
  BY <1>1, <1>2, <1>3, <1>6 DEF NestInv
<1>7. QED
  BY <1>1, <1>2, <1>4, <1>5, <1>6 DEF NestInv

(* The first index is before the last, if there are several.              *)
LEMMA OneOfMore ==
  ASSUME NEW n \in Nat \ {0}, n # 1
  PROVE  1 \in 1 .. n - 1
OBVIOUS

(* The last part of the current feature replaced.                          *)
LEMMA LastPart ==
  ASSUME NEW c \in Seq(Seq(Nat)), c # << >>, NEW e \in Seq(Nat),
         NEW q, q = [c EXCEPT ![Len(c)] = e]
  PROVE  /\ q \in Seq(Seq(Nat)) /\ Len(q) = Len(c) /\ Len(c) \in Nat \ {0}
         /\ c[Len(c)] \in Seq(Nat) /\ q[Len(c)] = e
         /\ \A i \in 1 .. Len(c) - 1 : q[i] = c[i]
<1> DEFINE n == Len(c)
<1>1. n \in Nat \ {0} /\ DOMAIN c = 1 .. n
  BY LenProperties, EmptySeq
<1>2. n \in 1 .. n
  BY <1>1
<1>3. q \in Seq(Seq(Nat)) /\ Len(q) = n /\ c[n] \in Seq(Nat)
  BY <1>2, ElementOfSeq, ExceptSeq
<1>4. q[n] = e /\ \A i \in 1 .. n - 1 : q[i] = c[i]
  <2> HIDE DEF n
  <2>1. q = [c EXCEPT ![n] = e]
    BY DEF n
  <2>2. QED
    BY <1>1, <2>1
<1>5. QED
  BY <1>1, <1>3, <1>4

(* The parts of the current feature.                                       *)
LEMMA CurType ==
  ASSUME ReaderInv
  PROVE  cur \in Seq(Seq(Nat)) /\ Len(cur) \in Nat
BY LenProperties DEF ReaderInv, ReaderTypeOK

(* No geometry open: nothing to say of the parts but that there are none.  *)
LEMMA CurEmpty ==
  ASSUME stack' = << >>, phase' # "geometry", UNCHANGED target,
         target # "POINT" => cur' = << >>
  PROVE  CurInv'
BY EmptySeq DEF CurInv, InPart, InRing, OneMember

(* The same number of parts, inside a geometry.                            *)
LEMMA CurInside ==
  ASSUME TypeOK, ReaderInv, CurInv, UNCHANGED target,
         phase = "geometry", phase' = "geometry", stack' # << >>,
         target # "POINT" =>
           /\ Len(cur') = Len(cur)
           /\ Kind = "LINESTRING" => \A i \in 1 .. Len(cur) : Len(cur'[i]) = Len(cur[i])
           /\ InPart' => InPart
           /\ InRing' => cur'[Len(cur)] # << >>
           /\ Kind = "POINT" /\ InPart' => Top'.size \in {-1, 1} /\ Top'.count \in 0 .. 1
           /\ stack'[1].type = stack[1].type
           /\ stack[1].type = ParentOf(Kind) => stack'[1] = stack[1]
  PROVE  CurInv'
<1> SUFFICES ASSUME target # "POINT" PROVE CurInv'
  BY DEF CurInv
<1>1. Kind' = Kind /\ Multi' = Multi
  BY KindRigid
<1>2. stack # << >> /\ cur \in Seq(Seq(Nat)) /\ Len(cur) \in Nat
  BY TopFrame, CurType
<1>3. InPart' => cur' # << >>
  <2>1. InPart' => Len(cur) # 0
    BY <1>2, EmptySeq DEF CurInv
  <2>2. QED
    BY <2>1
<1>4. InRing' => cur'[Len(cur')] # << >>
  OBVIOUS
<1>5. ~Multi => Len(cur') <= 1 /\ OneMember'
  BY <1>1, <1>2 DEF CurInv, OneMember
<1>6. Kind = "LINESTRING" => \A i \in 1 .. Len(cur') : Len(cur'[i]) = 1
  BY DEF CurInv
<1>7. QED
  BY <1>1, <1>3, <1>4, <1>5, <1>6 DEF CurInv

(* read_meta(), feat_start(), null_feat(), feat_end() and the end of the   *)
(* loop: no geometry is open.                                              *)
LEMMA OutsideShape ==
  ASSUME IInv, CurInv, Next, target # "POINT" => cur' = << >>, stack' = << >>,
         phase' # "geometry"
  PROVE  NestInv' /\ CurInv'
<1>1. UNCHANGED target
  BY DEF Next, CallReadMeta, CallFeatStart, CallNullFeat, CallGeomStart, CallRingStart,
         CallCoords, CallRingEnd, CallGeomEnd, CallFeatEnd, CallReadDone, Release
<1>2. QED
  BY <1>1, NestEmpty, CurEmpty

(* ring_start(): one ring more, without vertices.                          *)
LEMMA RingStartShape ==
  ASSUME IInv, OutputInv, NestInv, CurInv, CallRingStart
  PROVE  NestInv' /\ CurInv'
<1>1. PICK sz \in -1 .. MaxParts : RingStart(sz)
  BY DEF CallRingStart
<1>2. /\ UNCHANGED <<target, b, released, dim, phase>> /\ phase = "geometry"
      /\ Top.type = "POLYGON" /\ stack' = Append(CountOne(1), Frame("RING", sz))
      /\ cur' = [cur EXCEPT ![Len(cur)] = Append(@, 0)]
  BY <1>1 DEF CallRingStart, RingStart
<1>3. /\ ReaderInv /\ stack # << >> /\ sz \in Int /\ TypeOK /\ FamilyInv
      /\ Len(stack) \in Nat \ {0} /\ Top = stack[Len(stack)]
      /\ cur \in Seq(Seq(Nat)) /\ Len(cur) \in Nat
  BY <1>2, IInvReader, TopFrame, CurType, ReaderAssumption DEF IInv, OutputInv
<1>4. Frame("RING", sz) \in FrameType /\ Frame("RING", sz).type = "RING"
  BY <1>3 DEF Frame, FrameType
<1>5. NestInv'
  BY <1>2, <1>3, <1>4, NestPush
<1>6. /\ Len(stack') = Len(stack) + 1 /\ stack'[Len(stack)] = Counted(Top, 1)
      /\ \A i \in 1 .. Len(stack) - 1 : stack'[i] = stack[i]
  BY <1>2, <1>3, <1>4, PushFrames
<1>7. ASSUME target # "POINT"
      PROVE  /\ Kind = "POLYGON" /\ InPart /\ cur # << >>
             /\ Len(cur') = Len(cur) /\ cur'[Len(cur)] # << >>
             /\ stack'[1].type = stack[1].type
             /\ stack[1].type = ParentOf(Kind) => stack'[1] = stack[1]
  <2>1. Kind = "POLYGON"
    BY <1>2, <1>3, <1>7, OpenFrames, KindsApart DEF ParentOf
  <2>2. InPart /\ cur # << >>
    BY <1>2, <1>7, <2>1 DEF InPart, CurInv
  <2>3. cur[Len(cur)] \in Seq(Nat)
    BY <1>3, <2>2, EmptySeq, ElementOfSeq
  <2>4. Append(cur[Len(cur)], 0) \in Seq(Nat) /\ Append(cur[Len(cur)], 0) # << >>
    BY <2>3, AppendProperties, EmptySeq
  <2>5. Len(cur') = Len(cur) /\ cur'[Len(cur)] # << >>
    BY <1>2, <1>3, <2>2, <2>4, LastPart
  <2>6. CASE Len(stack) = 1
    <3>1. stack'[1].type = "POLYGON" /\ stack[1].type = "POLYGON"
      BY <1>2, <1>3, <1>6, <2>6 DEF Counted
    <3>2. QED
      BY <2>1, <2>2, <2>5, <3>1 DEF ParentOf
  <2>7. CASE Len(stack) # 1
    <3>0. Len(stack) \in Nat \ {0}
      BY <1>3
    <3>1. 1 \in 1 .. Len(stack) - 1
      BY <2>7, <3>0, OneOfMore
    <3>2. stack'[1] = stack[1]
      BY <1>6, <3>1
    <3>3. QED
      BY <2>1, <2>2, <2>5, <3>2
  <2>8. QED
    BY <2>6, <2>7
<1>8. stack' # << >> /\ phase' = "geometry"
  BY <1>2, <1>3, <1>6, EmptySeq
<1>9. CurInv'
  BY <1>2, <1>3, <1>7, <1>8, CurInside
<1>10. QED
  BY <1>5, <1>9

(* coords(): the count of the innermost geometry grows.                    *)
LEMMA CoordsShape ==
  ASSUME IInv, OutputInv, NestInv, CurInv, CallCoords
  PROVE  NestInv' /\ CurInv'
<1>1. PICK n \in 1 .. MaxParts :
        Coords(n) /\ b' = CoordsCall(n) /\ UNCHANGED <<target, released>>
  BY DEF CallCoords
<1>2. /\ UNCHANGED <<target, phase>> /\ phase = "geometry" /\ n \in Nat \ {0}
      /\ Top.type \in {"POINT", "LINESTRING", "RING"} /\ MayGoOn(Top)
      /\ n = (IF reader = "native" THEN Top.size ELSE 1)
      /\ stack' = CountOne(n)
      /\ cur' = [cur EXCEPT ![Len(cur)] = LastPlus(@, n)]
  BY <1>1, ReaderAssumption DEF Coords
<1>3. /\ ReaderInv /\ stack # << >> /\ TypeOK /\ FamilyInv
      /\ Top = stack[Len(stack)] /\ Top \in FrameType
      /\ cur \in Seq(Seq(Nat)) /\ Len(cur) \in Nat
  BY <1>2, IInvReader, TopFrame, CurType DEF IInv, OutputInv
<1>4. Len(stack) \in Nat \ {0}
  BY <1>2, <1>3, TopFrame
<1>5. NestInv'
  BY <1>2, <1>3, NestCount
<1>6. /\ Len(stack') = Len(stack) /\ stack'[Len(stack)] = Counted(Top, n)
      /\ \A i \in 1 .. Len(stack) - 1 : stack'[i] = stack[i]
  BY <1>2, <1>3, CountFrames
<1>7. ASSUME target # "POINT"
      PROVE  /\ InPart /\ cur # << >> /\ Len(cur') = Len(cur)
             /\ \A i \in 1 .. Len(cur) : Len(cur'[i]) = Len(cur[i])
             /\ InRing' => cur'[Len(cur)] # << >>
             /\ Kind = "POINT" => Top'.size \in {-1, 1} /\ Top'.count \in 0 .. 1
             /\ stack'[1].type = stack[1].type
             /\ stack[1].type = ParentOf(Kind) => stack'[1] = stack[1]
  <2>1. Top.type \in {Kind, "RING"}
    <3>1. Top.type \in {Kind, ParentOf(Kind), "RING"}
      BY <1>2, <1>3, <1>7, OpenFrames
    <3>2. ParentOf(Kind) \in MultiTypes
      BY <1>3, KindsApart
    <3>3. QED
      BY <1>2, <3>1, <3>2 DEF MultiTypes
  <2>2. InPart /\ cur # << >>
    BY <1>2, <1>7, <2>1 DEF InPart, CurInv
  <2>3. cur[Len(cur)] \in Seq(Nat)
    BY <1>3, <2>2, LastPart
  <2>4. LastPlus(cur[Len(cur)], n) \in Seq(Nat)
    BY <1>2, <2>3, CoordsRing
  <2>5. /\ Len(cur') = Len(cur) /\ cur'[Len(cur)] = LastPlus(cur[Len(cur)], n)
        /\ \A i \in 1 .. Len(cur) - 1 : cur'[i] = cur[i]
    BY <1>2, <1>3, <2>2, <2>4, LastPart
  <2>6. Len(LastPlus(cur[Len(cur)], n)) = Len(cur[Len(cur)])
    <3>1. CASE cur[Len(cur)] = << >>
      <4>1. LastPlus(cur[Len(cur)], n) = cur[Len(cur)]
        BY <3>1, EmptySeq DEF LastPlus
      <4>2. QED
        BY <4>1
    <3>2. CASE cur[Len(cur)] # << >>
      BY <1>2, <2>3, <3>2, LastPlusIs
    <3>3. QED
      BY <3>1, <3>2
  <2>7. \A i \in 1 .. Len(cur) : Len(cur'[i]) = Len(cur[i])
    <3> SUFFICES ASSUME NEW i \in 1 .. Len(cur) PROVE Len(cur'[i]) = Len(cur[i])
      OBVIOUS
    <3>1. CASE i = Len(cur)
      BY <2>5, <2>6, <3>1
    <3>2. CASE i # Len(cur)
      <4>1. Len(cur) \in Nat
        BY <1>3
      <4>2. i \in 1 .. Len(cur) - 1
        BY <3>2, <4>1
      <4>3. QED
        BY <2>5, <4>2
    <3>3. QED
      BY <3>1, <3>2
  <2>8. InRing' => cur'[Len(cur)] # << >>
    <3> SUFFICES ASSUME InRing' PROVE cur'[Len(cur)] # << >>
      OBVIOUS
    <3>1. Top'.type = Top.type
      BY <1>6 DEF Top, Counted
    <3>2. cur[Len(cur)] # << >>
      BY <1>2, <1>7, <3>1 DEF InRing, CurInv
    <3>3. Len(cur[Len(cur)]) # 0
      BY <2>3, <3>2, EmptySeq
    <3>4. QED
      BY <2>5, <2>6, <3>3
  <2>9. Kind = "POINT" => Top'.size \in {-1, 1} /\ Top'.count \in 0 .. 1
    <3> SUFFICES ASSUME Kind = "POINT"
                 PROVE Top'.size \in {-1, 1} /\ Top'.count \in 0 .. 1
      OBVIOUS
    <3>1. Top.size \in {-1, 1} /\ Top.count \in 0 .. 1
      BY <1>7, <2>2 DEF CurInv
    <3>2. Top.type = "POINT"
      BY <1>2, <1>3, <1>7, OpenFrames, KindsApart DEF MultiTypes
    <3>3. Top.count = 0
      BY <1>2, <3>1, <3>2 DEF MayGoOn
    <3>4. n = 1
      BY <1>2, <3>1
    <3>5. Top' = Counted(Top, n)
      BY <1>6 DEF Top
    <3>6. QED
      BY <3>1, <3>3, <3>4, <3>5 DEF Counted
  <2>10. CASE Len(stack) = 1
    <3>1. Top.type = Kind
      <4>1. Top.type # "RING"
        BY <1>2, <1>3, <2>10, TopFrame
      <4>2. QED
        BY <2>1, <4>1
    <3>2. stack'[1].type = Kind /\ stack[1].type = Kind /\ Kind # ParentOf(Kind)
      BY <1>3, <1>6, <2>10, <3>1, KindsApart DEF Counted
    <3>3. QED
      BY <2>2, <2>5, <2>7, <2>8, <2>9, <3>2
  <2>11. CASE Len(stack) # 1
    <3>1. 1 \in 1 .. Len(stack) - 1
      BY <1>4, <2>11, OneOfMore
    <3>2. stack'[1] = stack[1]
      BY <1>6, <3>1
    <3>3. QED
      BY <2>2, <2>5, <2>7, <2>8, <2>9, <3>2
  <2>12. QED
    BY <2>10, <2>11
<1>8. stack' # << >> /\ phase' = "geometry"
  BY <1>2, <1>4, <1>6, EmptySeq
<1>9. CurInv'
  BY <1>2, <1>3, <1>7, <1>8, CurInside
<1>10. QED
  BY <1>5, <1>9

(* ring_end(): the polygon is innermost again.                             *)
LEMMA RingEndShape ==
  ASSUME IInv, OutputInv, NestInv, CurInv, CallRingEnd
  PROVE  NestInv' /\ CurInv'
<1>1. /\ UNCHANGED <<target, phase, cur>> /\ phase = "geometry" /\ Top.type = "RING"
      /\ stack' = SubSeq(stack, 1, Len(stack) - 1)
  BY DEF CallRingEnd, RingEnd
<1>2. /\ ReaderInv /\ stack # << >> /\ TypeOK /\ FamilyInv /\ stack[1].type # "RING"
  BY <1>1, IInvReader, TopFrame DEF IInv, OutputInv
<1>3. Len(stack) \in Nat \ {0} /\ Top = stack[Len(stack)]
  BY <1>1, <1>2, TopFrame
<1>4. Len(stack) > 1
  BY <1>1, <1>2, <1>3
<1>5. NestInv'
  BY <1>1, <1>2, NestPop
<1>6. Len(stack') = Len(stack) - 1 /\ \A i \in 1 .. Len(stack') : stack'[i] = stack[i]
  BY <1>1, <1>2, PopInv
<1>7. stack'[1] = stack[1] /\ Len(stack') \in Nat \ {0}
  BY <1>3, <1>4, <1>6
<1>8. Top' = stack[Len(stack) - 1]
  BY <1>3, <1>4, <1>6 DEF Top
<1>9. target # "POINT" => Kind = "POLYGON" /\ Top'.type = "POLYGON" /\ InPart
  BY <1>1, <1>2, <1>8, OpenFrames, KindsApart DEF InPart
<1>10. target # "POINT" => ~InRing' /\ Kind # "POINT" /\ InPart
  BY <1>9 DEF InRing
<1>11. stack' # << >>
  BY <1>7, EmptySeq
<1>12. CurInv'
  BY <1>1, <1>2, <1>7, <1>9, <1>10, <1>11, CurInside
<1>13. QED
  BY <1>5, <1>12

(* geom_end(): no part is open any more.                                   *)
LEMMA GeomEndShape ==
  ASSUME IInv, OutputInv, NestInv, CurInv, CallGeomEnd
  PROVE  NestInv' /\ CurInv' /\ (target # "POINT" => ~InPart')
<1>1. /\ UNCHANGED <<target, cur>> /\ phase = "geometry" /\ Top.type # "RING"
      /\ stack' = SubSeq(stack, 1, Len(stack) - 1)
      /\ phase' = IF Len(stack) = 1 THEN "closing" ELSE "geometry"
  BY DEF CallGeomEnd, GeomEnd
<1>2. /\ ReaderInv /\ stack # << >> /\ TypeOK /\ FamilyInv
  BY <1>1, IInvReader, TopFrame DEF IInv, OutputInv
<1>3. Len(stack) \in Nat \ {0} /\ Top = stack[Len(stack)] /\ Len(cur) \in Nat
  BY <1>1, <1>2, TopFrame, CurType
<1>4. NestInv'
  BY <1>1, <1>2, NestPop
<1>5. Len(stack') = Len(stack) - 1 /\ \A i \in 1 .. Len(stack') : stack'[i] = stack[i]
  BY <1>1, <1>2, PopInv
<1>6. Kind' = Kind /\ Multi' = Multi
  BY <1>1, KindRigid
<1>7. CASE Len(stack) = 1
  <2>1. phase' = "closing"
    BY <1>1, <1>7
  <2>2. ~InPart' /\ ~InRing'
    BY <2>1 DEF InPart, InRing
  <2>3. stack' = << >>
    BY <1>1, <1>7, EmptySeq
  <2>4. CurInv'
    BY <1>1, <1>6, <2>1, <2>2, <2>3 DEF CurInv, OneMember
  <2>5. QED
    BY <1>4, <2>2, <2>4
<1>8. CASE Len(stack) # 1
  <2>1. stack'[1] = stack[1] /\ Len(stack') \in Nat \ {0} /\ stack' # << >>
    BY <1>3, <1>5, <1>8, EmptySeq
  <2>2. phase' = "geometry"
    BY <1>1, <1>8
  <2>3. target # "POINT" => Top'.type = ParentOf(Kind)
    <3> SUFFICES ASSUME target # "POINT" PROVE Top'.type = ParentOf(Kind)
      OBVIOUS
    <3>1. Len(stack) = 2 /\ stack[1].type = ParentOf(Kind)
      BY <1>1, <1>2, <1>8, OpenFrames
    <3>2. QED
      BY <1>5, <2>1, <3>1 DEF Top
  <2>4. target # "POINT" => ~InPart' /\ ~InRing'
    BY <1>2, <1>6, <2>3, KindsApart DEF InPart, InRing
  <2>5. CurInv'
    BY <1>1, <1>2, <2>1, <2>2, <2>4, CurInside
  <2>6. QED
    BY <1>4, <2>4, <2>5
<1>9. QED
  BY <1>7, <1>8

(***************************************************************************)
(* geom_start() opens the multi-geometry, or a part as the feature itself  *)
(* or directly inside the multi-geometry; or it finishes a feature without *)
(* parts; or the read fails.                                               *)
(***************************************************************************)
NewPart(k) == IF k = "POLYGON" THEN << >> ELSE <<0>>

GeometryOpened(t, sz) ==
  /\ phase \in {"feature", "geometry"}
  /\ phase' = "geometry" /\ UNCHANGED features /\ BuilderSame(b, b')
  /\ t \in GeometryTypes /\ t \in {Kind, ParentOf(Kind)} /\ sz \in Int
  /\ stack' = Append(IF stack = << >> THEN stack ELSE CountOne(1), Frame(t, sz))
  /\ cur' = IF t = Kind THEN Append(cur, NewPart(Kind)) ELSE cur
  /\ phase = "geometry" =>
       Len(stack) = 1 /\ Top.type = ParentOf(Kind) /\ t = Kind /\ MayGoOn(Top)
  /\ ~Multi /\ t # Kind => sz = 1
  /\ Kind = "POINT" /\ t = Kind => sz \in {-1, 1}

EmptyFeature(x) ==
  /\ phase = "feature" /\ EndFeature(Feature(cur))
  /\ BuilderSame(b, x) /\ Good(x) /\ FeatureFinished(x, b')

ReadFailed == phase' = "failed" /\ stack' = << >> /\ cur' = << >>

(* If the types fit, geom_start() is called with one that is known.        *)
LEMMA WellTypedStart ==
  ASSUME WellTyped
  PROVE  \A t, sz, d, r : GeomStart(t, sz, d, r) => t \in GeometryTypes
<1> SUFFICES ASSUME NEW t, NEW sz, NEW d, NEW r, GeomStart(t, sz, d, r)
             PROVE  t \in GeometryTypes
  OBVIOUS
<1>1. t \in RootTypes \/ t \in PartTypes(Top.type)
  BY DEF GeomStart, RootsRead, PartsRead, Untyped
<1>2. QED
  BY <1>1, ReaderAssumption DEF PartTypes, GeometryTypes, SimpleTypes

(* What geom_start() does is one of these three.                          *)
LEMMA GeomStartCases ==
  ASSUME IInv, OutputInv, NestInv, CallGeomStart, ~NestedEmpty, WellTyped, target # "POINT"
  PROVE  \/ \E t, sz : GeometryOpened(t, sz)
         \/ \E x \in BuilderType : EmptyFeature(x)
         \/ ReadFailed
<1>1. PICK t \in GeometryTypes, sz \in -1 .. MaxParts, d \in Dims :
        LET x == IF d = dim THEN b ELSE NewDimensionsCall(d)
            c == GeomStartCall(x, t, sz)
        IN  GeomStart(t, sz, d, c.res) /\ b' = c.b /\ UNCHANGED <<target, released>>
  BY WellTypedStart DEF CallGeomStart
<1>2. PICK x : x = IF d = dim THEN b ELSE NewDimensionsCall(d)
  OBVIOUS
<1>3. PICK c : c = GeomStartCall(x, t, sz)
  OBVIOUS
<1>4. GeomStart(t, sz, d, c.res) /\ b' = c.b /\ UNCHANGED <<target, released>>
  BY <1>1, <1>2, <1>3
<1>5. phase \in {"feature", "geometry"} /\ d # Unknown
  <2>1. phase \in {"feature", "geometry"}
    BY <1>4 DEF GeomStart
  <2>2. d # Unknown
    BY ReaderAssumption DEF AllDims, Unknown
  <2>3. QED
    BY <2>1, <2>2
<1>6. phase = "geometry" =>
        /\ t \in PartTypes(Top.type) /\ MayGoOn(Top) /\ sz \in Sizes(t, Top.type)
        /\ sz # 0 /\ Top.type # "RING"
  BY <1>4 DEF GeomStart, PartsRead, Untyped, PartTypes
<1>7. TypeOK /\ ReaderInv /\ Good(b) /\ Fit(b, dim) /\ FamilyInv
  BY IInvReader DEF IInv, OutputInv, GoodInv
<1>8. /\ x \in BuilderType /\ Good(x)
      /\ Multi => x.level = b.level
  BY <1>2, <1>5, <1>7, NewDimensionsCallType, NewDimensionsGood DEF TypeOK
<1>9. BuilderSame(b, x)
  <2>1. CASE d = dim
    BY <1>2, <2>1 DEF BuilderSame, SamePart
  <2>2. CASE d # dim
    BY <1>2, <1>7, <2>2, NewDimensionsWrites
  <2>3. QED
    BY <2>1, <2>2
<1>10. sz \in Int
  BY ReaderAssumption
<1>11. Multi /\ phase = "feature" => x.level = 0
  BY <1>8 DEF IInv, LevelReset
<1>12. Multi /\ phase = "geometry" => x.level >= 1
  <2> SUFFICES ASSUME Multi, phase = "geometry" PROVE x.level >= 1
    OBVIOUS
  <2>1. Len(stack) \in Nat \ {0} /\ OpenGeometries = Len(stack)
    BY <1>6, <1>7, TopFrame DEF OpenGeometries
  <2>2. QED
    BY <1>8, <2>1 DEF IInv, LevelTracksDepth
<1>13. Multi /\ x.level >= 1 => sz # 0
  BY <1>5, <1>6, <1>11
<1>14. /\ c.res = "CONTINUE" =>
            /\ sz # 0 /\ PartOf(c.b) = PartOf(x) /\ (Multi => c.b.list = x.list)
            /\ ~Multi => t = Kind \/ (t = ParentOf(Kind) /\ sz = 1)
       /\ c.res = "ABORT_FEATURE" =>
            /\ sz = 0 /\ FeatureFinished(x, c.b)
            /\ Multi => ~(x.level >= 1)
  BY <1>3, <1>7, <1>8, <1>13, GeomStartWrites
<1>15. /\ c.res \in Results /\ Answers(c, x, TRUE)
       /\ Multi /\ c.res = "CONTINUE" => x.level >= 1 \/ t \in {target, ChildType(target)}
  BY <1>3, <1>7, <1>8, <1>10, GeomStartCallType
<1>16. CASE c.res = "CONTINUE"
  <2>1. /\ phase' = "geometry" /\ UNCHANGED features
        /\ stack' = Append(IF stack = << >> THEN stack ELSE CountOne(1), Frame(t, sz))
        /\ cur' = CASE t \in {"POINT", "LINESTRING"} -> Append(cur, <<0>>)
                    [] t = "POLYGON" -> Append(cur, << >>)
                    [] OTHER -> cur
    BY <1>4, <1>16, KnownOutcome DEF GeomStart, Unwind
  <2>2. BuilderSame(b, b')
    BY <1>4, <1>9, <1>14, <1>16 DEF BuilderSame
  <2>3. phase = "geometry" =>
          Len(stack) = 1 /\ Top.type = ParentOf(Kind) /\ t = Kind /\ MayGoOn(Top)
    <3> SUFFICES ASSUME phase = "geometry"
                 PROVE Len(stack) = 1 /\ Top.type = ParentOf(Kind) /\ t = Kind
      BY <1>6
    <3>1. Top.type # Kind
      BY <1>6, <1>7, NoPartOfKind
    <3>2. Top.type = ParentOf(Kind) /\ Len(stack) = 1
      BY <1>6, <1>7, <3>1, OpenFrames
    <3>3. QED
      BY <1>6, <1>7, <3>2, PartOfParent
  <2>4. t \in {Kind, ParentOf(Kind)}
    <3>1. CASE phase = "geometry"
      BY <2>3, <3>1
    <3>2. CASE phase = "feature" /\ Multi
      BY <1>7, <1>11, <1>15, <1>16, <3>2, InUse DEF TypeOK
    <3>3. CASE ~Multi
      BY <1>14, <1>16, <3>3
    <3>4. QED
      BY <1>5, <3>1, <3>2, <3>3
  <2>5. /\ Kind \in {"POINT", "LINESTRING", "POLYGON"} /\ ParentOf(Kind) \in MultiTypes
        /\ ParentOf(Kind) # Kind
    BY <1>7, KindsApart
  <2>6. cur' = IF t = Kind THEN Append(cur, NewPart(Kind)) ELSE cur
    <3>1. CASE t = Kind
      BY <2>1, <2>5, <3>1 DEF NewPart
    <3>2. CASE t = ParentOf(Kind)
      <4>1. t \notin {"POINT", "LINESTRING", "POLYGON"}
        BY <2>5, <3>2 DEF MultiTypes
      <4>2. QED
        BY <2>1, <2>5, <3>2, <4>1
    <3>3. QED
      BY <2>4, <3>1, <3>2
  <2>7. ~Multi /\ t # Kind => sz = 1
    BY <1>14, <1>16
  <2>8. Kind = "POINT" /\ t = Kind => sz \in {-1, 1}
    <3> SUFFICES ASSUME t = "POINT" PROVE sz \in {-1, 1}
      OBVIOUS
    <3>1. \E p : sz \in Sizes(t, p)
      BY <1>4 DEF GeomStart
    <3>2. sz \in {-1, 0, 1}
      BY <3>1, PointFrameSizes
    <3>3. QED
      BY <1>14, <1>16, <3>2
  <2>9. GeometryOpened(t, sz)
    BY <1>5, <1>10, <2>1, <2>2, <2>3, <2>4, <2>6, <2>7, <2>8 DEF GeometryOpened
  <2>10. QED
    BY <2>9
<1>17. CASE c.res = "ABORT_FEATURE"
  <2>1. EndFeature(Feature(cur))
    BY <1>4, <1>17, KnownOutcome DEF GeomStart, Unwind
  <2>2. phase = "feature"
    BY <1>5, <1>6, <1>14, <1>17
  <2>3. EmptyFeature(x)
    BY <1>4, <1>8, <1>9, <1>14, <1>17, <2>1, <2>2 DEF EmptyFeature
  <2>4. QED
    BY <1>8, <2>3
<1>18. CASE c.res \in {"ABORT", "THROW"}
  <2>1. c.res = "THROW"
    BY <1>15, <1>18 DEF Answers
  <2>2. ReadFailed
    BY <1>4, <2>1, KnownOutcome DEF GeomStart, Unwind, ReadFailed
  <2>3. QED
    BY <2>2
<1>19. QED
  BY <1>15, <1>16, <1>17, <1>18 DEF Results

(* A part without vertices or rings.                                       *)
LEMMA NewPartType ==
  ASSUME NEW k
  PROVE  NewPart(k) \in Seq(Nat) /\ (k = "LINESTRING" => Len(NewPart(k)) = 1)
<1>1. << >> \in Seq(Nat) /\ <<0>> \in Seq(Nat) /\ Len(<<0>>) = 1
  OBVIOUS
<1>2. QED
  BY <1>1 DEF NewPart

(* An opened geometry is innermost, and nested as it may be.              *)
LEMMA OpenedShape ==
  ASSUME IInv, OutputInv, NestInv, CurInv, UNCHANGED target, target # "POINT",
         NEW t, NEW sz, GeometryOpened(t, sz)
  PROVE  NestInv' /\ CurInv' /\ Top' = Frame(t, sz)
<1>1. /\ TypeOK /\ ReaderInv /\ FamilyInv
      /\ cur \in Seq(Seq(Nat)) /\ Len(cur) \in Nat
  BY IInvReader, CurType DEF IInv, OutputInv
<1>2. /\ phase \in {"feature", "geometry"} /\ phase' = "geometry"
      /\ t \in GeometryTypes /\ t \in {Kind, ParentOf(Kind)} /\ sz \in Int
      /\ stack' = Append(IF stack = << >> THEN stack ELSE CountOne(1), Frame(t, sz))
      /\ cur' = (IF t = Kind THEN Append(cur, NewPart(Kind)) ELSE cur)
      /\ phase = "geometry" =>
           Len(stack) = 1 /\ Top.type = ParentOf(Kind) /\ t = Kind /\ MayGoOn(Top)
      /\ ~Multi /\ t # Kind => sz = 1
      /\ Kind = "POINT" /\ t = Kind => sz \in {-1, 1}
  BY DEF GeometryOpened
<1>3. /\ Frame(t, sz) \in FrameType /\ Frame(t, sz).type = t
      /\ Frame(t, sz).size = sz /\ Frame(t, sz).count = 0
  BY <1>2 DEF Frame, FrameType
<1>4. /\ Kind \in {"POINT", "LINESTRING", "POLYGON"} /\ ParentOf(Kind) # Kind
      /\ Kind # "RING" /\ ParentOf(Kind) # "RING"
  BY <1>1, KindsApart
<1>5. NestInv'
  BY <1>1, <1>2, <1>3, NestPush
<1>6. Kind' = Kind /\ Multi' = Multi
  BY KindRigid
<1>7. PICK new \in Seq(Nat) : new = NewPart(Kind) /\ (Kind = "LINESTRING" => Len(new) = 1)
  BY NewPartType
<1>8. t = Kind => /\ cur' \in Seq(Seq(Nat)) /\ Len(cur') = Len(cur) + 1
                  /\ cur'[Len(cur) + 1] = new
                  /\ \A i \in 1 .. Len(cur) : cur'[i] = cur[i]
  <2> SUFFICES ASSUME t = Kind
               PROVE  /\ cur' \in Seq(Seq(Nat)) /\ Len(cur') = Len(cur) + 1
                      /\ cur'[Len(cur) + 1] = new
                      /\ \A i \in 1 .. Len(cur) : cur'[i] = cur[i]
    OBVIOUS
  <2>1. cur' = Append(cur, new)
    BY <1>2, <1>7
  <2>2. PICK c \in Seq(Seq(Nat)) : c = cur
    BY <1>1
  <2>3. PICK q : q = Append(c, new)
    OBVIOUS
  <2>4. /\ q \in Seq(Seq(Nat)) /\ Len(q) = Len(c) + 1 /\ q[Len(c) + 1] = new
        /\ \A i \in 1 .. Len(c) : q[i] = c[i]
    BY <2>3, AppendProperties
  <2>5. cur' = q
    BY <2>1, <2>2, <2>3
  <2>6. QED
    BY <2>2, <2>4, <2>5
<1>9. t # Kind => cur' = cur
  BY <1>2
<1>10. stack' # << >> /\ Top' = Frame(t, sz)
  <2>1. CASE phase = "feature"
    <3>1. Len(stack') = 1 /\ stack'[1] = Frame(t, sz)
      BY <1>1, <1>2, <1>3, <2>1, PushFirst DEF ReaderInv, StackWellFormed
    <3>2. stack' # << >> /\ Top' = stack'[Len(stack')]
      BY <3>1 DEF Top
    <3>3. QED
      BY <3>1, <3>2
  <2>2. CASE phase = "geometry"
    <3>1. stack # << >> /\ Len(stack) = 1
      BY <1>1, <1>2, <2>2, TopFrame
    <3>2. Len(stack') = 2 /\ stack'[2] = Frame(t, sz)
      BY <1>1, <1>2, <1>3, <2>2, <3>1, PushFrames
    <3>3. stack' # << >> /\ Top' = stack'[Len(stack')]
      BY <3>2 DEF Top
    <3>4. QED
      BY <3>2, <3>3
  <2>3. QED
    BY <1>2, <2>1, <2>2
<1>11. /\ InPart' <=> t = Kind
       /\ ~InRing'
  BY <1>2, <1>3, <1>4, <1>6, <1>10 DEF InPart, InRing
<1>12. InPart' => cur' # << >>
  <2> SUFFICES ASSUME t = Kind PROVE cur' # << >>
    BY <1>11
  <2>1. Len(cur') # 0
    BY <1>1, <1>8
  <2>2. QED
    BY <2>1, EmptySeq
<1>13. Kind = "LINESTRING" => \A i \in 1 .. Len(cur') : Len(cur'[i]) = 1
  <2> SUFFICES ASSUME Kind = "LINESTRING", NEW i \in 1 .. Len(cur') PROVE Len(cur'[i]) = 1
    OBVIOUS
  <2>1. \A j \in 1 .. Len(cur) : Len(cur[j]) = 1
    BY DEF CurInv
  <2>2. CASE t # Kind
    BY <1>9, <2>1, <2>2
  <2>3. CASE t = Kind /\ i = Len(cur) + 1
    <3>1. cur'[Len(cur) + 1] = new /\ Len(new) = 1
      BY <1>7, <1>8, <2>3
    <3>2. QED
      BY <2>3, <3>1
  <2>4. CASE t = Kind /\ i # Len(cur) + 1
    <3>0. PICK w \in Nat : w = Len(cur)
      BY <1>1
    <3>1. i \in 1 .. Len(cur)
      BY <1>8, <2>4, <3>0
    <3>2. QED
      BY <1>8, <2>1, <2>4, <3>1
  <2>5. QED
    BY <2>2, <2>3, <2>4
<1>14. Kind = "POINT" /\ InPart' => Top'.size \in {-1, 1} /\ Top'.count \in 0 .. 1
  BY <1>2, <1>3, <1>10, <1>11
<1>15. ASSUME ~Multi
       PROVE  Len(cur') <= 1 /\ OneMember'
  <2>1. CASE phase = "feature"
    <3>1. Len(cur) = 0 /\ stack = << >>
      BY <1>1, <2>1, EmptySeq DEF CurInv, ReaderInv, StackWellFormed
    <3>2. stack'[1] = Frame(t, sz)
      BY <1>2, <1>3, <3>1, PushFirst
    <3>3. CASE t = Kind
      <4>1. stack'[1].type # ParentOf(Kind) /\ Len(cur') = 1
        BY <1>3, <1>4, <1>8, <3>1, <3>2, <3>3
      <4>2. QED
        BY <1>6, <4>1 DEF OneMember
    <3>4. CASE t # Kind
      BY <1>2, <1>3, <1>4, <1>6, <1>9, <1>15, <3>1, <3>2, <3>4 DEF OneMember
    <3>5. QED
      BY <3>3, <3>4
  <2>2. CASE phase = "geometry"
    <3>1. /\ stack # << >> /\ Len(stack) = 1 /\ Top = stack[1] /\ Top.type = ParentOf(Kind)
          /\ t = Kind /\ MayGoOn(Top)
      BY <1>1, <1>2, <2>2, TopFrame
    <3>2. Top.size = 1 /\ Top.count \in 0 .. 1 /\ Len(cur) = Top.count
      BY <1>15, <3>1 DEF CurInv, OneMember
    <3>3. Top.count = 0 /\ Len(cur) = 0
      BY <3>1, <3>2 DEF MayGoOn
    <3>4. stack'[1] = Counted(Top, 1)
      BY <1>1, <1>2, <1>3, <2>2, <3>1, PushFrames
    <3>5. stack'[1].type = ParentOf(Kind) /\ stack'[1].size = 1 /\ stack'[1].count = 1
      BY <3>1, <3>2, <3>3, <3>4 DEF Counted
    <3>6. Len(cur') = 1
      BY <1>8, <3>1, <3>3
    <3>7. QED
      BY <1>6, <3>5, <3>6 DEF OneMember
  <2>3. QED
    BY <1>2, <2>1, <2>2
<1>16. CurInv'
  BY <1>2, <1>6, <1>11, <1>12, <1>13, <1>14, <1>15 DEF CurInv
<1>17. QED
  BY <1>5, <1>10, <1>16

(* geom_start() keeps the shape, whichever of its outcomes it has.        *)
LEMMA GeomStartShape ==
  ASSUME IInv, OutputInv, NestInv, CurInv, CallGeomStart, ~NestedEmpty, WellTyped
  PROVE  NestInv' /\ CurInv'
<1>1. UNCHANGED target
  BY DEF CallGeomStart
<1>2. CASE target = "POINT"
  BY <1>1, <1>2 DEF NestInv, CurInv
<1>3. CASE target # "POINT"
  <2>1. CASE \E t, sz : GeometryOpened(t, sz)
    BY <1>1, <1>3, <2>1, OpenedShape
  <2>2. CASE \E x \in BuilderType : EmptyFeature(x)
    <3>1. phase' = "between" /\ stack' = << >> /\ cur' = << >>
      BY <2>2 DEF EmptyFeature, EndFeature
    <3>2. QED
      BY <1>1, <3>1, NestEmpty, CurEmpty
  <2>3. CASE ReadFailed
    <3>1. phase' = "failed" /\ stack' = << >> /\ cur' = << >>
      BY <2>3 DEF ReadFailed
    <3>2. QED
      BY <1>1, <3>1, NestEmpty, CurEmpty
  <2>4. QED
    BY <1>3, <2>1, <2>2, <2>3, GeomStartCases
<1>4. QED
  BY <1>2, <1>3

(* Every other call leaves no geometry open.                               *)
LEMMA ShapeStep ==
  ASSUME IInv, OutputInv, NestInv, CurInv, [Next]_vars, ~NestedEmpty, WellTyped
  PROVE  NestInv' /\ CurInv'
<1>1. CASE UNCHANGED vars
  BY <1>1 DEF vars, readerVars, NestInv, CurInv, InPart, InRing, OneMember, Top, Kind, Multi
<1>2. phase # "geometry" => stack = << >>
  BY IInvReader DEF ReaderInv, StackWellFormed
<1>3. phase \notin {"geometry", "closing"} /\ target # "POINT" => cur = << >>
  BY DEF CurInv
<1>4. CASE CallReadMeta \/ CallFeatStart \/ CallReadDone \/ Release
  <2>1. /\ phase \in {"start", "between", "read"} /\ phase' # "geometry"
        /\ UNCHANGED <<stack, cur>>
    BY <1>4 DEF CallReadMeta, ReadMeta, CallFeatStart, FeatStart, CallReadDone, ReadDone,
                Release, readerVars
  <2>2. QED
    BY <1>2, <1>3, <1>4, <2>1, OutsideShape DEF Next
<1>5. CASE CallNullFeat
  <2>1. /\ phase = "feature" /\ phase' # "geometry"
        /\ stack' = stack \/ stack' = << >>
        /\ cur' = cur \/ cur' = << >>
    BY <1>5 DEF CallNullFeat, NullFeat, Unwind, EndFeature
  <2>2. QED
    BY <1>2, <1>3, <1>5, <2>1, OutsideShape DEF Next
<1>6. CASE CallFeatEnd
  <2>1. phase' # "geometry" /\ stack' = << >> /\ cur' = << >>
    BY <1>6 DEF CallFeatEnd, FeatEnd, EndFeature
  <2>2. QED
    BY <1>6, <2>1, OutsideShape DEF Next
<1>7. QED
  BY <1>1, <1>4, <1>5, <1>6, GeomStartShape, RingStartShape, CoordsShape, RingEndShape,
     GeomEndShape DEF Next

(***************************************************************************)
(* What the output contains: one lemma per call.                           *)
(***************************************************************************)

(* The invariant after a call, with the target the same.                  *)
LEMMA DecodeNext ==
  ASSUME UNCHANGED target,
         target # "POINT" /\ phase' # "failed" /\ Exact(b') =>
           /\ \A i \in 1 .. Len(features') : FeatureIs(b', i, features'[i].parts)
           /\ UnfinishedIs(b', cur', PartsEnded', OpenPart', InRing')
  PROVE  DecodeInv'
<1>1. Kind' = Kind /\ Multi' = Multi /\ target' = target
  BY KindRigid
<1>2. PartOf(b)' = PartOf(b')
  BY <1>1 DEF PartOf
<1>3. Exact(b)' => Exact(b')
  BY <1>1, <1>2 DEF Exact
<1>4. ASSUME NEW i \in 1 .. Len(features'), FeatureIs(b', i, features'[i].parts)
      PROVE  FeatureIs(b, i, features[i].parts)'
  BY <1>1, <1>4 DEF FeatureIs
<1>5. UnfinishedIs(b', cur', PartsEnded', OpenPart', InRing') =>
        UnfinishedIs(b, cur, PartsEnded, OpenPart, InRing)'
  BY <1>1, <1>2 DEF UnfinishedIs, EndedAre
<1>6. QED
  BY <1>1, <1>3, <1>4, <1>5 DEF DecodeInv

(* Whether a ring is open is all that matters.                             *)
LEMMA RingOpen ==
  ASSUME NEW k, NEW x, NEW part, NEW r, NEW s, r <=> s
  PROVE  OpenIs(k, x, part, r) <=> OpenIs(k, x, part, s)
BY DEF OpenIs, RingsEnded

(* The features read before, whatever the call wrote after them.           *)
LEMMA FeaturesKept ==
  ASSUME IInv, target # "POINT", NEW x \in BuilderType, Good(x), Exact(x),
         Len(x.list.valid) = Len(features), NEW y, BuilderKept(x, y),
         \A i \in 1 .. Len(features) : FeatureIs(x, i, features[i].parts)
  PROVE  \A i \in 1 .. Len(features) : FeatureIs(y, i, features[i].parts)
<1> SUFFICES ASSUME NEW i \in 1 .. Len(features)
             PROVE  FeatureIs(y, i, features[i].parts)
  OBVIOUS
<1>1. features \in Seq(FeatureType) /\ TypeOK
  BY DEF IInv, TypeOK, ReaderTypeOK
<1>2. features[i].parts \in Seq(Seq(Nat))
  <2>1. features[i] \in FeatureType
    BY <1>1, ElementOfSeq
  <2>2. QED
    BY <2>1 DEF FeatureType
<1>3. i \in 1 .. Len(x.list.valid) /\ FeatureIs(x, i, features[i].parts)
  OBVIOUS
<1>4. QED
  BY <1>1, <1>2, <1>3, FeatureKept

(* How many parts are ended, and which one is open.                        *)
LEMMA EndedParts ==
  ASSUME ReaderInv, CurInv, target # "POINT"
  PROVE  /\ PartsEnded \in 0 .. Len(cur)
         /\ ~InPart => PartsEnded = Len(cur) /\ ~InRing
         /\ InPart => Len(cur) \in Nat \ {0} /\ OpenPart = cur[Len(cur)]
         /\ InPart /\ Kind # "POINT" => PartsEnded = Len(cur) - 1
<1>1. cur \in Seq(Seq(Nat)) /\ Len(cur) \in Nat
  BY CurType
<1>2. InPart => Len(cur) \in Nat \ {0} /\ cur # << >>
  BY <1>1, EmptySeq DEF CurInv
<1>3. InPart => OpenPart = cur[Len(cur)]
  <2>1. CASE Multi
    BY <2>1 DEF OpenPart
  <2>2. CASE ~Multi
    BY <1>2, <2>2 DEF OpenPart, FirstPart, CurInv
  <2>3. QED
    BY <2>1, <2>2
<1>4. ~InPart => ~InRing
  BY DEF InPart, InRing
<1>5. \A w \in Nat : w = Len(cur) =>
        /\ PartsEnded \in 0 .. w
        /\ ~InPart => PartsEnded = w
        /\ InPart /\ Kind # "POINT" => PartsEnded = w - 1
  BY <1>2 DEF PartsEnded
<1>6. QED
  BY <1>1, <1>2, <1>3, <1>4, <1>5

(* The same after a call.                                                 *)
LEMMA EndedPartsNext ==
  ASSUME ReaderInv', CurInv', UNCHANGED target, target # "POINT"
  PROVE  /\ cur' \in Seq(Seq(Nat)) /\ Len(cur') \in Nat
         /\ ~InPart' => PartsEnded' = Len(cur') /\ ~InRing'
         /\ InPart' => Len(cur') \in Nat \ {0} /\ OpenPart' = cur'[Len(cur')]
         /\ InPart' /\ Kind # "POINT" => PartsEnded' = Len(cur') - 1
         /\ ~InPart' => OpenPart' = IF Multi THEN << >> ELSE FirstPart(cur')
<1>1. cur' \in Seq(Seq(Nat)) /\ Len(cur') \in Nat
  BY LenProperties DEF ReaderInv, ReaderTypeOK
<1>0. Kind' = Kind /\ Multi' = Multi
  BY KindRigid
<1>2. InPart' => Len(cur') \in Nat \ {0} /\ cur' # << >>
  BY <1>1, EmptySeq DEF CurInv
<1>3. InPart' => OpenPart' = cur'[Len(cur')]
  <2>1. CASE Multi
    BY <1>0, <2>1 DEF OpenPart
  <2>2. CASE ~Multi
    BY <1>0, <1>2, <2>2 DEF OpenPart, FirstPart, CurInv
  <2>3. QED
    BY <2>1, <2>2
<1>4. ~InPart' => ~InRing'
  BY DEF InPart, InRing
<1>5. QED
  BY <1>0, <1>1, <1>2, <1>3, <1>4 DEF PartsEnded, OpenPart

(* What the invariant says of the builder before a call.                   *)
LEMMA DecodedNow ==
  ASSUME IInv, OutputInv, DecodeInv, target # "POINT", phase # "failed", Exact(b)
  PROVE  /\ TypeOK /\ ReaderInv /\ b \in BuilderType /\ Good(b)
         /\ Len(b.list.valid) = Len(features)
         /\ \A i \in 1 .. Len(features) : FeatureIs(b, i, features[i].parts)
         /\ OpenIs(Kind, PartOf(b), OpenPart, InRing)
         /\ Multi => EndedAre(b, cur, PartsEnded)
BY IInvReader
   DEF IInv, TypeOK, OutputInv, GoodInv, ElementsCounted, Matches, DecodeInv, UnfinishedIs

(* A call that ends no part.                                               *)
LEMMA DecodeKept ==
  ASSUME IInv, OutputInv, CurInv, DecodeInv, UNCHANGED <<target, features>>,
         phase # "failed",
         target # "POINT" /\ Exact(b') =>
           /\ Exact(b) /\ BuilderKept(b, b')
           /\ Multi => b'.list = b.list /\ b'.child.size = b.child.size
           /\ PartsEnded' = PartsEnded
           /\ \A j \in 1 .. PartsEnded : cur'[j] = cur[j]
           /\ OpenIs(Kind, PartOf(b), OpenPart, InRing) =>
                OpenIs(Kind, PartOf(b'), OpenPart', InRing')
  PROVE  DecodeInv'
<1> SUFFICES ASSUME target # "POINT", phase' # "failed", Exact(b')
             PROVE  /\ \A i \in 1 .. Len(features') : FeatureIs(b', i, features'[i].parts)
                    /\ UnfinishedIs(b', cur', PartsEnded', OpenPart', InRing')
  BY DecodeNext
<1>1. /\ Exact(b) /\ BuilderKept(b, b')
      /\ Multi => b'.list = b.list /\ b'.child.size = b.child.size
      /\ PartsEnded' = PartsEnded
      /\ \A j \in 1 .. PartsEnded : cur'[j] = cur[j]
      /\ OpenIs(Kind, PartOf(b), OpenPart, InRing) =>
           OpenIs(Kind, PartOf(b'), OpenPart', InRing')
  OBVIOUS
<1>2. /\ TypeOK /\ ReaderInv /\ b \in BuilderType /\ Good(b)
      /\ Len(b.list.valid) = Len(features)
      /\ \A i \in 1 .. Len(features) : FeatureIs(b, i, features[i].parts)
      /\ OpenIs(Kind, PartOf(b), OpenPart, InRing)
      /\ Multi => EndedAre(b, cur, PartsEnded)
  BY <1>1, DecodedNow
<1>3. cur \in Seq(Seq(Nat)) /\ PartsEnded \in 0 .. Len(cur)
  BY <1>2, CurType, EndedParts
<1>4. \A i \in 1 .. Len(features) : FeatureIs(b', i, features[i].parts)
  BY <1>1, <1>2, FeaturesKept
<1>5. OpenIs(Kind, PartOf(b'), OpenPart', InRing')
  BY <1>1, <1>2
<1>6. UnfinishedIs(b', cur', PartsEnded, OpenPart', InRing')
  BY <1>1, <1>2, <1>3, <1>5, StillUnfinished
<1>7. QED
  BY <1>1, <1>4, <1>6

(* A call that writes nothing, outside of the geometries.                  *)
LEMMA OutsideDecode ==
  ASSUME IInv, OutputInv, CurInv, DecodeInv, ReaderInv', CurInv',
         UNCHANGED <<target, features, cur>>, phase \notin {"geometry", "failed"},
         phase' # "geometry", target # "POINT" => BuilderSame(b, b')
  PROVE  DecodeInv'
<1> SUFFICES ASSUME target # "POINT", Exact(b')
             PROVE  /\ Exact(b) /\ BuilderKept(b, b')
                    /\ Multi => b'.list = b.list /\ b'.child.size = b.child.size
                    /\ PartsEnded' = PartsEnded
                    /\ \A j \in 1 .. PartsEnded : cur'[j] = cur[j]
                    /\ OpenIs(Kind, PartOf(b), OpenPart, InRing) =>
                         OpenIs(Kind, PartOf(b'), OpenPart', InRing')
  BY DecodeKept
<1>1. TypeOK /\ ReaderInv /\ b \in BuilderType /\ Good(b)
  BY IInvReader DEF IInv, TypeOK, OutputInv, GoodInv
<1>2. ~InPart /\ ~InPart' /\ ~InRing /\ ~InRing'
  BY DEF InPart, InRing
<1>3. /\ Exact(b) /\ BuilderKept(b, b')
      /\ Multi => b'.list = b.list /\ b'.child.size = b.child.size
      /\ \A open, r : OpenIs(Kind, PartOf(b'), open, r) <=> OpenIs(Kind, PartOf(b), open, r)
  BY <1>1, BuilderSameIs
<1>4. PartsEnded' = PartsEnded /\ OpenPart' = OpenPart
  BY <1>1, <1>2, EndedParts, EndedPartsNext DEF OpenPart
<1>5. OpenIs(Kind, PartOf(b), OpenPart, InRing) => OpenIs(Kind, PartOf(b), OpenPart', InRing')
  BY <1>2, <1>4, RingOpen
<1>6. QED
  BY <1>3, <1>4, <1>5

(* A call that finishes the feature.                                       *)
LEMMA EndedDecode ==
  ASSUME IInv, OutputInv, CurInv, DecodeInv, ReaderInv', CurInv', UNCHANGED target,
         target # "POINT", phase \in {"feature", "closing"},
         NEW x \in BuilderType, BuilderSame(b, x), Good(x), FeatureFinished(x, b'),
         NEW f, f.parts = cur, EndFeature(f)
  PROVE  DecodeInv'
<1> SUFFICES ASSUME Exact(b')
             PROVE  /\ \A i \in 1 .. Len(features') : FeatureIs(b', i, features'[i].parts)
                    /\ UnfinishedIs(b', cur', PartsEnded', OpenPart', InRing')
  BY DecodeNext
<1>1. TypeOK /\ ReaderInv /\ b \in BuilderType /\ Good(b) /\ features \in Seq(FeatureType)
  BY IInvReader DEF IInv, TypeOK, ReaderTypeOK, OutputInv, GoodInv
<1>2. cur \in Seq(Seq(Nat)) /\ Len(cur) \in Nat
  BY <1>1, CurType
<1>3. ~InPart /\ ~InRing /\ PartsEnded = Len(cur)
  BY <1>1, EndedParts DEF InPart
<1>4. /\ phase' = "between" /\ features' = Append(features, f) /\ cur' = << >>
  BY DEF EndFeature
<1>5. /\ ~InPart' /\ ~InRing' /\ PartsEnded' = 0
      /\ OpenPart' = << >>
  BY <1>4, EndedPartsNext, EmptySeq DEF InPart, FirstPart
<1>6. Exact(x)
  <2>1. CASE Multi
    <3>1. b'.child = x.child
      BY <2>1 DEF FeatureFinished
    <3>2. QED
      BY <2>1, <3>1 DEF Exact, PartOf
  <2>2. CASE ~Multi
    <3>1. PartFinished(Kind, x, b') /\ Kind \in SimpleTypes \ {"POINT"}
      BY <1>1, <2>2, InUse DEF FeatureFinished
    <3>2. QED
      BY <2>2, <3>1 DEF Exact, PartOf, PartFinished, SizesFit, PointsOf
  <2>3. QED
    BY <2>1, <2>2
<1>7. /\ Exact(b) /\ BuilderKept(b, x)
      /\ Multi => x.list = b.list /\ x.child.size = b.child.size
      /\ \A open, r : OpenIs(Kind, PartOf(x), open, r) <=> OpenIs(Kind, PartOf(b), open, r)
  BY <1>1, <1>6, BuilderSameIs
<1>8. /\ Len(b.list.valid) = Len(features)
      /\ \A i \in 1 .. Len(features) : FeatureIs(b, i, features[i].parts)
      /\ OpenIs(Kind, PartOf(b), OpenPart, InRing)
      /\ Multi => EndedAre(b, cur, Len(cur))
  BY <1>3, <1>7, DecodedNow
<1>9. Len(x.list.valid) = Len(features)
  <2>1. x.list = b.list
    <3>1. CASE Multi
      BY <1>7, <3>1
    <3>2. CASE ~Multi
      BY <1>1, <3>2, InUse DEF BuilderSame, SamePart, PartOf
    <3>3. QED
      BY <3>1, <3>2
  <2>2. QED
    BY <1>8, <2>1
<1>10. \A i \in 1 .. Len(features) : FeatureIs(x, i, features[i].parts)
  BY <1>1, <1>7, <1>8, FeaturesKept
<1>11. PICK open : open = IF Multi THEN << >> ELSE FirstPart(cur)
  OBVIOUS
<1>12. OpenIs(Kind, PartOf(x), open, FALSE)
  <2>1. OpenPart = open
    BY <1>3, <1>11 DEF OpenPart
  <2>2. OpenIs(Kind, PartOf(b), open, FALSE)
    BY <1>3, <1>8, <2>1, RingOpen
  <2>3. QED
    BY <1>7, <2>2
<1>13. UnfinishedIs(x, cur, Len(cur), open, FALSE)
  <2>1. Len(cur) \in 0 .. Len(cur) /\ \A j \in 1 .. Len(cur) : cur[j] = cur[j]
    BY <1>2
  <2>2. QED
    BY <1>1, <1>2, <1>7, <1>8, <1>12, <2>1, StillUnfinished
<1>14. /\ FeatureIs(b', Len(x.list.valid) + 1, cur)
       /\ UnfinishedIs(b', << >>, 0, << >>, FALSE) /\ BuilderKept(x, b')
  BY <1>1, <1>2, <1>6, <1>11, <1>13, FeatureFinishedIs
<1>15. \A i \in 1 .. Len(features) : FeatureIs(b', i, features[i].parts)
  BY <1>6, <1>9, <1>10, <1>14, FeaturesKept
<1>16. \A i \in 1 .. Len(features') : FeatureIs(b', i, features'[i].parts)
  <2>1. /\ Len(features') = Len(features) + 1 /\ features'[Len(features) + 1] = f
        /\ \A i \in 1 .. Len(features) : features'[i] = features[i]
        /\ Len(features) \in Nat
    BY <1>4, <1>1, LenProperties, AppendProperties
  <2>2. ASSUME NEW i \in 1 .. Len(features') PROVE FeatureIs(b', i, features'[i].parts)
    <3>1. CASE i = Len(features) + 1
      BY <1>9, <1>14, <2>1, <3>1
    <3>2. CASE i # Len(features) + 1
      <4>1. i \in 1 .. Len(features)
        BY <2>1, <3>2
      <4>2. QED
        BY <1>15, <2>1, <4>1
    <3>3. QED
      BY <3>1, <3>2
  <2>3. QED
    BY <2>2
<1>17. UnfinishedIs(b', cur', PartsEnded', OpenPart', InRing')
  <2>1. /\ OpenIs(Kind, PartOf(b'), << >>, FALSE)
        /\ Multi => EndedAre(b', << >>, 0)
    BY <1>14 DEF UnfinishedIs
  <2>2. OpenIs(Kind, PartOf(b'), << >>, InRing')
    BY <1>5, <2>1, RingOpen
  <2>3. QED
    BY <1>4, <1>5, <2>1, <2>2 DEF UnfinishedIs
<1>18. QED
  BY <1>16, <1>17

(* geom_start() opens a part that has nothing yet, or the multi-geometry.  *)
LEMMA OpenedDecode ==
  ASSUME IInv, OutputInv, NestInv, CurInv, DecodeInv, ReaderInv', CurInv', UNCHANGED target,
         target # "POINT", NEW t, NEW sz, GeometryOpened(t, sz)
  PROVE  DecodeInv'
<1> SUFFICES ASSUME Exact(b')
             PROVE  /\ Exact(b) /\ BuilderKept(b, b')
                    /\ Multi => b'.list = b.list /\ b'.child.size = b.child.size
                    /\ PartsEnded' = PartsEnded
                    /\ \A j \in 1 .. PartsEnded : cur'[j] = cur[j]
                    /\ OpenIs(Kind, PartOf(b), OpenPart, InRing) =>
                         OpenIs(Kind, PartOf(b'), OpenPart', InRing')
  BY DecodeKept DEF GeometryOpened
<1>1. /\ TypeOK /\ ReaderInv /\ b \in BuilderType /\ Good(b) /\ FamilyInv
      /\ cur \in Seq(Seq(Nat)) /\ Len(cur) \in Nat
  BY IInvReader, CurType DEF IInv, TypeOK, OutputInv, GoodInv
<1>2. /\ phase \in {"feature", "geometry"} /\ phase' = "geometry" /\ BuilderSame(b, b')
      /\ t \in {Kind, ParentOf(Kind)}
      /\ cur' = (IF t = Kind THEN Append(cur, NewPart(Kind)) ELSE cur)
      /\ phase = "geometry" => Top.type = ParentOf(Kind)
  BY DEF GeometryOpened
<1>3. Kind' = Kind /\ Multi' = Multi
  BY KindRigid
<1>4. /\ Kind \in {"POINT", "LINESTRING", "POLYGON"}
      /\ Kind # "RING" /\ ParentOf(Kind) # "RING" /\ ParentOf(Kind) # Kind
  BY <1>1, KindsApart
<1>5. Top' = Frame(t, sz)
  BY OpenedShape
<1>6. Top'.type = t /\ Top'.count = 0
  BY <1>5 DEF Frame
<1>7. ~InPart /\ ~InRing /\ ~InRing' /\ (InPart' <=> t = Kind)
  BY <1>2, <1>3, <1>4, <1>6 DEF InPart, InRing
<1>8. PartsEnded = Len(cur)
  BY <1>1, <1>7, EndedParts
<1>9. OpenPart = IF Multi THEN << >> ELSE FirstPart(cur)
  BY <1>7 DEF OpenPart
<1>10. /\ Exact(b) /\ BuilderKept(b, b')
       /\ Multi => b'.list = b.list /\ b'.child.size = b.child.size
       /\ \A open, r : OpenIs(Kind, PartOf(b'), open, r) <=> OpenIs(Kind, PartOf(b), open, r)
  BY <1>1, <1>2, BuilderSameIs
<1>11. CASE t = Kind
  <2>1. cur' = Append(cur, NewPart(Kind)) /\ NewPart(Kind) \in Seq(Nat)
    BY <1>2, <1>11, NewPartType
  <2>2. /\ Len(cur') = Len(cur) + 1 /\ cur'[Len(cur) + 1] = NewPart(Kind)
        /\ \A j \in 1 .. Len(cur) : cur'[j] = cur[j]
    <3>1. PICK c \in Seq(Seq(Nat)) : c = cur
      BY <1>1
    <3>2. PICK q : q = Append(c, NewPart(Kind))
      OBVIOUS
    <3>3. /\ Len(q) = Len(c) + 1 /\ q[Len(c) + 1] = NewPart(Kind)
          /\ \A i \in 1 .. Len(c) : q[i] = c[i]
      BY <2>1, <3>2, AppendProperties
    <3>4. QED
      BY <2>1, <3>1, <3>2, <3>3
  <2>3. OpenPart' = NewPart(Kind)
    BY <1>7, <1>11, <2>2, EndedPartsNext
  <2>4. PartsEnded' = Len(cur)
    <3>1. PartsEnded' = Len(cur') - 1
      BY <1>6, <1>7, <1>11 DEF PartsEnded
    <3>2. QED
      BY <1>1, <2>2, <3>1
  <2>5. OpenPart = << >>
    <3>1. CASE Multi
      BY <1>9, <3>1
    <3>2. CASE ~Multi
      <4>1. Len(cur') <= 1
        BY <1>3, <3>2 DEF CurInv
      <4>2. Len(cur) = 0
        BY <1>1, <2>2, <4>1
      <4>3. cur = << >>
        BY <1>1, <4>2, EmptySeq
      <4>4. QED
        BY <1>9, <3>2, <4>3 DEF FirstPart
    <3>3. QED
      BY <3>1, <3>2
  <2>6. ASSUME OpenIs(Kind, PartOf(b), OpenPart, InRing)
        PROVE  OpenIs(Kind, PartOf(b'), OpenPart', InRing')
    <3>1. OpenIs(Kind, PartOf(b), << >>, FALSE)
      BY <1>7, <2>5, <2>6, RingOpen
    <3>2. OpenIs(Kind, PartOf(b), NewPart(Kind), FALSE)
      <4>1. CASE Kind = "POINT"
        BY <4>1 DEF OpenIs
      <4>2. CASE Kind # "POINT"
        <5>1. NewPart(Kind) = IF Kind = "LINESTRING" THEN <<0>> ELSE << >>
          BY <1>4, <4>2 DEF NewPart
        <5>2. QED
          BY <3>1, <5>1, PartOpenedIs
      <4>3. QED
        BY <4>1, <4>2
    <3>3. OpenIs(Kind, PartOf(b'), NewPart(Kind), FALSE)
      BY <1>10, <3>2
    <3>4. QED
      BY <1>7, <2>3, <3>3, RingOpen
  <2>7. QED
    BY <1>8, <1>10, <2>2, <2>4, <2>6
<1>12. CASE t # Kind
  <2>1. cur' = cur /\ ~InPart'
    BY <1>2, <1>7, <1>12
  <2>2. PartsEnded' = PartsEnded /\ OpenPart' = OpenPart
    BY <1>8, <1>9, <2>1, EndedPartsNext
  <2>3. OpenIs(Kind, PartOf(b), OpenPart, InRing) => OpenIs(Kind, PartOf(b), OpenPart', InRing')
    BY <1>7, <2>2, RingOpen
  <2>4. QED
    BY <1>10, <2>1, <2>2, <2>3
<1>13. QED
  BY <1>11, <1>12

(* geom_start(), whichever of its outcomes it has.                        *)
LEMMA GeomStartDecode ==
  ASSUME IInv, OutputInv, NestInv, CurInv, DecodeInv, ReaderInv', CurInv', CallGeomStart,
         ~NestedEmpty, WellTyped
  PROVE  DecodeInv'
<1>1. UNCHANGED target
  BY DEF CallGeomStart
<1>2. CASE target = "POINT"
  BY <1>1, <1>2 DEF DecodeInv
<1>3. CASE target # "POINT"
  <2>1. CASE \E t, sz : GeometryOpened(t, sz)
    BY <1>1, <1>3, <2>1, OpenedDecode
  <2>2. CASE \E x \in BuilderType : EmptyFeature(x)
    <3>1. PICK x \in BuilderType : EmptyFeature(x)
      BY <2>2
    <3>2. Feature(cur).parts = cur
      BY DEF Feature
    <3>3. QED
      BY <1>1, <1>3, <3>1, <3>2, EndedDecode DEF EmptyFeature
  <2>3. CASE ReadFailed
    BY <2>3 DEF ReadFailed, DecodeInv
  <2>4. QED
    BY <1>3, <2>1, <2>2, <2>3, GeomStartCases
<1>4. QED
  BY <1>2, <1>3

(* ring_start(): the open part has one ring more.                          *)
LEMMA RingStartDecode ==
  ASSUME IInv, OutputInv, NestInv, CurInv, DecodeInv, ReaderInv', CurInv', CallRingStart
  PROVE  DecodeInv'
<1>1. PICK sz \in -1 .. MaxParts : RingStart(sz)
  BY DEF CallRingStart
<1>2. /\ UNCHANGED <<target, b, released, features, phase>> /\ phase = "geometry"
      /\ Top.type = "POLYGON" /\ stack' = Append(CountOne(1), Frame("RING", sz))
      /\ cur' = [cur EXCEPT ![Len(cur)] = Append(@, 0)]
  BY <1>1 DEF CallRingStart, RingStart
<1> SUFFICES ASSUME target # "POINT", Exact(b')
             PROVE  /\ Exact(b) /\ BuilderKept(b, b')
                    /\ Multi => b'.list = b.list /\ b'.child.size = b.child.size
                    /\ PartsEnded' = PartsEnded
                    /\ \A j \in 1 .. PartsEnded : cur'[j] = cur[j]
                    /\ OpenIs(Kind, PartOf(b), OpenPart, InRing) =>
                         OpenIs(Kind, PartOf(b'), OpenPart', InRing')
  BY <1>2, DecodeKept
<1>3. /\ TypeOK /\ ReaderInv /\ b \in BuilderType /\ Good(b) /\ FamilyInv
      /\ cur \in Seq(Seq(Nat)) /\ sz \in Int
  BY <1>2, IInvReader, CurType, ReaderAssumption DEF IInv, TypeOK, OutputInv, GoodInv
<1>4. Kind = "POLYGON" /\ Kind' = Kind
  BY <1>2, <1>3, OpenFrames, KindsApart, KindRigid DEF ParentOf
<1>5. stack # << >> /\ Top'.type = "RING"
  BY <1>1, <1>2, <1>3, RingStartInv, TopFrame
<1>6. InPart /\ ~InRing /\ InPart' /\ InRing'
  BY <1>2, <1>4, <1>5 DEF InPart, InRing
<1>7. /\ Len(cur) \in Nat \ {0} /\ OpenPart = cur[Len(cur)] /\ PartsEnded = Len(cur) - 1
      /\ OpenPart' = cur'[Len(cur')] /\ PartsEnded' = Len(cur') - 1
  BY <1>2, <1>3, <1>4, <1>6, EndedParts, EndedPartsNext
<1>8. cur # << >> /\ cur[Len(cur)] \in Seq(Nat)
  BY <1>3, <1>7, EmptySeq, ElementOfSeq
<1>9. PICK part \in Seq(Nat) : part = cur[Len(cur)]
  BY <1>8
<1>10. Append(part, 0) \in Seq(Nat)
  BY AppendProperties
<1>11. /\ Len(cur') = Len(cur) /\ cur'[Len(cur)] = Append(part, 0)
       /\ \A i \in 1 .. Len(cur) - 1 : cur'[i] = cur[i]
  BY <1>2, <1>3, <1>8, <1>9, <1>10, LastPart
<1>12. /\ Exact(b) /\ BuilderKept(b, b')
       /\ Multi => b'.list = b.list /\ b'.child.size = b.child.size
  <2>1. BuilderSame(b, b')
    BY <1>2 DEF BuilderSame, SamePart
  <2>2. QED
    BY <1>2, <1>3, <2>1, BuilderSameIs
<1>13. ASSUME OpenIs(Kind, PartOf(b), OpenPart, InRing)
       PROVE  OpenIs(Kind, PartOf(b'), OpenPart', InRing')
  <2>1. OpenIs("POLYGON", PartOf(b), part, FALSE)
    BY <1>4, <1>6, <1>7, <1>9, <1>13, RingOpen
  <2>2. OpenIs("POLYGON", PartOf(b), Append(part, 0), TRUE)
    BY <2>1, RingOpenedIs
  <2>3. OpenPart' = Append(part, 0)
    BY <1>7, <1>11
  <2>4. OpenIs(Kind, PartOf(b), OpenPart', InRing')
    BY <1>4, <1>6, <2>2, <2>3, RingOpen
  <2>5. QED
    BY <1>2, <2>4
<1>14. QED
  BY <1>7, <1>11, <1>12, <1>13

(* A sequence of one element is not empty.                                *)
LEMMA NotEmpty ==
  ASSUME NEW s, Len(s) = 1
  PROVE  s # << >>
BY EmptySeq

(* coords(): the open line or ring is longer, or the open point ended.     *)
LEMMA CoordsDecode ==
  ASSUME IInv, OutputInv, NestInv, CurInv, DecodeInv, ReaderInv', CurInv', CallCoords
  PROVE  DecodeInv'
<1>1. PICK n \in 1 .. MaxParts :
        Coords(n) /\ b' = CoordsCall(n) /\ UNCHANGED <<target, released>>
  BY DEF CallCoords
<1>2. /\ UNCHANGED <<target, phase, features>> /\ phase = "geometry" /\ n \in Nat \ {0}
      /\ Top.type \in {"POINT", "LINESTRING", "RING"} /\ MayGoOn(Top)
      /\ n = (IF reader = "native" THEN Top.size ELSE 1)
      /\ stack' = CountOne(n)
      /\ cur' = [cur EXCEPT ![Len(cur)] = LastPlus(@, n)]
  BY <1>1, ReaderAssumption DEF Coords
<1> SUFFICES ASSUME target # "POINT", Exact(b')
             PROVE  DecodeInv'
  BY <1>2, DecodeNext
<1>3. /\ TypeOK /\ ReaderInv /\ b \in BuilderType /\ Good(b) /\ FamilyInv
      /\ cur \in Seq(Seq(Nat)) /\ Top \in FrameType
  BY <1>2, IInvReader, CurType, TopFrame DEF IInv, TypeOK, OutputInv, GoodInv
<1>4. /\ Kind \in SimpleTypes /\ PartOf(b) \in SimpleType(Kind)
      /\ SimpleGood(Kind, PartOf(b)) /\ PartOf(b).size \in Nat
      /\ Multi => PartOf(b) = b.child /\ b.list \in ListType
  BY <1>3, InUse DEF Good
<1>5. Kind' = Kind /\ Multi' = Multi /\ Kind # "RING" /\ ParentOf(Kind) \in MultiTypes
  BY <1>2, <1>3, KindRigid, KindsApart
<1>6. Top' = Counted(Top, n)
  <2>1. Len(stack') = Len(stack) /\ stack'[Len(stack)] = Counted(Top, n)
    BY <1>2, <1>3, CountFrames
  <2>2. QED
    BY <2>1 DEF Top
<1>7. /\ Top'.type = Top.type /\ Top'.count = Top.count + n
  BY <1>6 DEF Counted
<1>8. /\ Top.type \in {Kind, "RING"}
      /\ Kind = "POLYGON" => Top.type = "RING"
      /\ Kind # "POLYGON" => Top.type = Kind
  <2>1. Top.type # ParentOf(Kind)
    BY <1>2, <1>5 DEF MultiTypes
  <2>2. Top.type = Kind \/ (Top.type = "RING" /\ Kind = "POLYGON")
    BY <1>2, <1>3, <2>1, OpenFrames
  <2>3. QED
    BY <1>2, <2>2
<1>9. InPart /\ InPart' /\ (InRing <=> Top.type = "RING") /\ (InRing' <=> InRing)
  BY <1>2, <1>5, <1>7, <1>8 DEF InPart, InRing
<1>10. /\ Len(cur) \in Nat \ {0} /\ OpenPart = cur[Len(cur)]
       /\ OpenPart' = cur'[Len(cur')] /\ cur' \in Seq(Seq(Nat))
  BY <1>2, <1>3, <1>9, EndedParts, EndedPartsNext
<1>11. cur # << >> /\ cur[Len(cur)] \in Seq(Nat)
  BY <1>3, <1>10, EmptySeq, ElementOfSeq
<1>12. PICK part \in Seq(Nat) : part = cur[Len(cur)]
  BY <1>11
<1>13. LastPlus(part, n) \in Seq(Nat)
  BY <1>2, CoordsRing
<1>14. /\ Len(cur') = Len(cur) /\ cur'[Len(cur)] = LastPlus(part, n)
       /\ \A i \in 1 .. Len(cur) - 1 : cur'[i] = cur[i]
  BY <1>2, <1>3, <1>11, <1>12, <1>13, LastPart
<1>15. Wrote(Kind, PartOf(b), PartOf(b'), n) /\ (Multi => b'.list = b.list)
  BY <1>1, <1>3, CoordsWrites
<1>16. CASE Kind # "POINT"
  <2>1. PartsEnded = Len(cur) - 1 /\ PartsEnded' = Len(cur) - 1
    BY <1>2, <1>3, <1>9, <1>14, <1>16, EndedParts, EndedPartsNext
  <2>2. Kind = "LINESTRING" => Len(part) = 1
    <3>1. PICK w \in Nat \ {0} : w = Len(cur)
      BY <1>10
    <3>2. w \in 1 .. w
      BY <3>1
    <3>3. QED
      BY <1>12, <3>1, <3>2 DEF CurInv
  <2>3. part # << >>
    <3>1. CASE Kind = "LINESTRING"
      <4>1. Len(part) = 1
        BY <2>2, <3>1
      <4>2. QED
        BY <4>1, NotEmpty
    <3>2. CASE Kind # "LINESTRING"
      <4>1. InRing
        BY <1>4, <1>8, <1>9, <1>16, <3>2 DEF SimpleTypes
      <4>2. QED
        BY <1>12, <4>1 DEF CurInv
    <3>3. QED
      BY <3>1, <3>2
  <2>4. PICK r \in BOOLEAN : (r <=> InRing) /\ (Kind = "POLYGON" => r = TRUE)
    <3>1. CASE InRing
      BY <3>1
    <3>2. CASE ~InRing
      BY <1>8, <1>9, <3>2
    <3>3. QED
      BY <3>1, <3>2
  <2>5. /\ PartsKept(Kind, PartOf(b), PartOf(b'))
        /\ SizesFit(Kind, PartOf(b')) => SizesFit(Kind, PartOf(b))
        /\ OpenIs(Kind, PartOf(b), part, r) => OpenIs(Kind, PartOf(b'), LastPlus(part, n), r)
    BY <1>2, <1>4, <1>15, <1>16, <2>2, <2>3, <2>4, WroteIs
  <2>6. Multi => b'.child.size = b.child.size
    BY <1>4, <1>15, <1>16 DEF Wrote, PartOf
  <2>7. Exact(b) /\ BuilderKept(b, b')
    <3>1. Exact(b)
      BY <2>5, <2>6 DEF Exact
    <3>2. BuilderKept(b, b')
      BY <1>4, <1>15, <2>5, ExtendsSelf DEF BuilderKept
    <3>3. QED
      BY <3>1, <3>2
  <2>8. ASSUME OpenIs(Kind, PartOf(b), OpenPart, InRing)
        PROVE  OpenIs(Kind, PartOf(b'), OpenPart', InRing')
    <3>1. OpenIs(Kind, PartOf(b), part, r)
      BY <1>10, <1>12, <2>4, <2>8, RingOpen
    <3>2. OpenIs(Kind, PartOf(b'), LastPlus(part, n), r)
      BY <2>5, <3>1
    <3>3. OpenPart' = LastPlus(part, n)
      BY <1>10, <1>14
    <3>4. QED
      BY <1>9, <2>4, <3>2, <3>3, RingOpen
  <2>9. QED
    BY <1>2, <1>14, <1>15, <2>1, <2>6, <2>7, <2>8, DecodeKept
<1>17. CASE Kind = "POINT"
  <2>1. Multi /\ PartOf(b) = b.child /\ PartOf(b') = b'.child /\ Top.type = "POINT"
    BY <1>3, <1>8, <1>17, KindsApart DEF PartOf
  <2>2. Top.count = 0 /\ n = 1
    <3>1. Top.size \in {-1, 1} /\ Top.count \in 0 .. 1
      BY <1>9, <1>17 DEF CurInv
    <3>2. Top.count = 0
      BY <1>2, <2>1, <3>1 DEF MayGoOn
    <3>3. QED
      BY <1>2, <3>1, <3>2
  <2>3. PartsEnded = Len(cur) - 1 /\ PartsEnded' = Len(cur)
    <3>1. Top'.count # 0
      BY <1>7, <2>2
    <3>2. QED
      BY <1>5, <1>9, <1>14, <1>17, <2>2, <3>1 DEF PartsEnded
  <2>4. /\ b'.list = b.list /\ b'.child.size = b.child.size + 1
        /\ PointsOf(Kind, b'.child).size = PointsOf(Kind, b.child).size + 1
        /\ b.child.size \in Nat /\ PointsOf(Kind, b.child).size \in Nat
    BY <1>4, <1>15, <1>17, <2>1, <2>2, SimpleParts DEF Wrote
  <2>5. Exact(b)
    <3>1. b'.child.size <= IntMax /\ PointsOf(Kind, b'.child).size <= IntMax
      BY <2>1 DEF Exact, SizesFit
    <3>2. b.child.size <= IntMax /\ PointsOf(Kind, b.child).size <= IntMax
      BY <2>4, <3>1, BuilderAssumption
    <3>3. QED
      BY <1>17, <2>1, <3>2 DEF Exact, SizesFit
  <2>6. BuilderKept(b, b')
    BY <1>4, <1>17, <2>1, <2>4, ExtendsSelf DEF BuilderKept, PartsKept
  <2>7. /\ Len(b.list.valid) = Len(features)
        /\ \A i \in 1 .. Len(features) : FeatureIs(b, i, features[i].parts)
        /\ EndedAre(b, cur, Len(cur) - 1)
    BY <1>2, <2>1, <2>3, <2>5, DecodedNow
  <2>8. \A i \in 1 .. Len(features) : FeatureIs(b', i, features[i].parts)
    BY <1>3, <2>5, <2>6, <2>7, FeaturesKept
  <2>9. UnfinishedIs(b', cur', PartsEnded', OpenPart', InRing')
    <3>1. OpenIs(Kind, PartOf(b'), OpenPart', InRing')
      BY <1>17 DEF OpenIs
    <3>2. \A j \in 1 .. Len(cur) : PartIs(Kind, b'.child, LastOffset(b'.list) + j, cur'[j])
      BY <1>17 DEF PartIs
    <3>3. b'.child.size = LastOffset(b'.list) + Len(cur)
      <4>1. b.child.size = LastOffset(b.list) + (Len(cur) - 1)
        BY <2>7 DEF EndedAre
      <4>2. LastOffset(b.list) \in Int
        <5>1. b.list \in ListType /\ GoodList(b.list, b.child.size) /\ b.child.size <= IntMax
          BY <1>3, <1>4, <2>1, <2>5 DEF Good, Exact
        <5>2. QED
          BY <2>4, <5>1, LastOffsetGood
      <4>3. QED
        BY <1>10, <2>4, <4>1, <4>2
    <3>4. QED
      BY <2>3, <3>1, <3>2, <3>3 DEF UnfinishedIs, EndedAre
  <2>10. QED
    BY <1>2, <2>8, <2>9, DecodeNext
<1>18. QED
  BY <1>16, <1>17

(* ring_end(): the open ring is one of the ended ones.                     *)
LEMMA RingEndDecode ==
  ASSUME IInv, OutputInv, NestInv, CurInv, DecodeInv, ReaderInv', CurInv', CallRingEnd
  PROVE  DecodeInv'
<1>1. /\ UNCHANGED <<target, phase, cur, features>> /\ phase = "geometry" /\ Top.type = "RING"
      /\ stack' = SubSeq(stack, 1, Len(stack) - 1) /\ b' = RingEndCall
  BY DEF CallRingEnd, RingEnd
<1> SUFFICES ASSUME target # "POINT", Exact(b')
             PROVE  /\ Exact(b) /\ BuilderKept(b, b')
                    /\ Multi => b'.list = b.list /\ b'.child.size = b.child.size
                    /\ PartsEnded' = PartsEnded
                    /\ \A j \in 1 .. PartsEnded : cur'[j] = cur[j]
                    /\ OpenIs(Kind, PartOf(b), OpenPart, InRing) =>
                         OpenIs(Kind, PartOf(b'), OpenPart', InRing')
  BY <1>1, DecodeKept
<1>2. /\ TypeOK /\ ReaderInv /\ b \in BuilderType /\ Good(b) /\ FamilyInv
      /\ cur \in Seq(Seq(Nat)) /\ stack # << >>
  BY <1>1, IInvReader, CurType, TopFrame DEF IInv, TypeOK, OutputInv, GoodInv
<1>3. /\ Kind = "POLYGON" /\ Len(stack) > 1 /\ stack[Len(stack) - 1].type = "POLYGON"
      /\ Kind' = Kind
  BY <1>1, <1>2, OpenFrames, KindsApart, KindRigid
<1>4. Len(stack) \in Nat
  BY <1>1, <1>2, TopFrame
<1>5. Len(stack') = Len(stack) - 1 /\ \A i \in 1 .. Len(stack') : stack'[i] = stack[i]
  BY <1>1, <1>2, PopInv
<1>6. Top'.type = "POLYGON"
  BY <1>3, <1>4, <1>5 DEF Top
<1>7. InPart /\ InRing /\ InPart' /\ ~InRing'
  BY <1>1, <1>3, <1>6 DEF InPart, InRing
<1>8. /\ Len(cur) \in Nat \ {0} /\ OpenPart = cur[Len(cur)] /\ PartsEnded = Len(cur) - 1
      /\ OpenPart' = cur'[Len(cur')] /\ PartsEnded' = Len(cur') - 1
  BY <1>1, <1>2, <1>3, <1>7, EndedParts, EndedPartsNext
<1>9. cur # << >> /\ cur[Len(cur)] \in Seq(Nat) /\ cur[Len(cur)] # << >>
  <2>1. cur # << >>
    BY <1>8, EmptySeq
  <2>2. cur[Len(cur)] \in Seq(Nat)
    BY <1>2, <1>8, ElementOfSeq
  <2>3. cur[Len(cur)] # << >>
    BY <1>7 DEF CurInv
  <2>4. QED
    BY <2>1, <2>2, <2>3
<1>10. PICK part \in Seq(Nat) : part = cur[Len(cur)] /\ part # << >>
  BY <1>9
<1>11. RingFinished(PartOf(b), PartOf(b')) /\ (Multi => b'.list = b.list)
  BY <1>1, <1>2, <1>3, RingEndWrites
<1>12. /\ PartOf(b) \in SimpleType("POLYGON") /\ SimpleGood("POLYGON", PartOf(b))
       /\ SizesFit("POLYGON", PartOf(b'))
       /\ Multi => PartOf(b) = b.child /\ b.list \in ListType
  BY <1>2, <1>3, InUse DEF Good, Exact
<1>13. /\ PartsKept("POLYGON", PartOf(b), PartOf(b')) /\ SizesFit("POLYGON", PartOf(b))
       /\ OpenIs("POLYGON", PartOf(b), part, TRUE) =>
            OpenIs("POLYGON", PartOf(b'), part, FALSE)
  BY <1>10, <1>11, <1>12, RingFinishedIs
<1>14. Multi => b'.list = b.list /\ b'.child.size = b.child.size
  BY <1>11, <1>12 DEF RingFinished, PartOf
<1>15. Exact(b) /\ BuilderKept(b, b')
  <2>1. Exact(b)
    BY <1>3, <1>13, <1>14 DEF Exact
  <2>2. BuilderKept(b, b')
    BY <1>3, <1>12, <1>13, <1>14, ExtendsSelf DEF BuilderKept
  <2>3. QED
    BY <2>1, <2>2
<1>16. ASSUME OpenIs(Kind, PartOf(b), OpenPart, InRing)
       PROVE  OpenIs(Kind, PartOf(b'), OpenPart', InRing')
  <2>1. OpenIs("POLYGON", PartOf(b), part, TRUE)
    BY <1>3, <1>7, <1>8, <1>10, <1>16, RingOpen
  <2>2. OpenIs("POLYGON", PartOf(b'), part, FALSE) /\ OpenPart' = part
    BY <1>1, <1>8, <1>10, <1>13, <2>1
  <2>3. QED
    BY <1>3, <1>7, <2>2, RingOpen
<1>17. QED
  BY <1>1, <1>8, <1>14, <1>15, <1>16

(* geom_end(): the open part is one of the ended ones.                     *)
LEMMA GeomEndDecode ==
  ASSUME IInv, OutputInv, NestInv, CurInv, DecodeInv, ReaderInv', CurInv', CallGeomEnd,
         target # "POINT" => ~InPart'
  PROVE  DecodeInv'
<1>1. /\ UNCHANGED <<target, cur, features>> /\ phase = "geometry" /\ Top.type # "RING"
      /\ MayEnd(Top) /\ b' = IF Multi THEN MultiGeomEnd(target, b) ELSE b
  BY DEF CallGeomEnd, GeomEnd
<1> SUFFICES ASSUME target # "POINT", Exact(b')
             PROVE  DecodeInv'
  BY <1>1, DecodeNext
<1>2. /\ TypeOK /\ ReaderInv /\ b \in BuilderType /\ Good(b) /\ FamilyInv
      /\ cur \in Seq(Seq(Nat)) /\ Len(cur) \in Nat
  BY <1>1, IInvReader, CurType DEF IInv, TypeOK, OutputInv, GoodInv
<1>3. /\ Kind \in SimpleTypes /\ PartOf(b) \in SimpleType(Kind)
      /\ SimpleGood(Kind, PartOf(b))
      /\ Multi => /\ PartOf(b) = b.child /\ b.list \in ListType /\ b.level \in Nat
                  /\ Kind = ChildType(target)
  BY <1>2, InUse DEF Good
<1>4. /\ Top.type \in {Kind, ParentOf(Kind)}
      /\ Top.type = Kind => Len(stack) = 1 \/ (Len(stack) = 2 /\ stack[1].type # Kind)
      /\ Top.type # Kind => Len(stack) = 1 /\ stack[1].type # Kind
      /\ stack # << >> /\ Top = stack[Len(stack)] /\ Top \in FrameType
  BY <1>1, <1>2, OpenFrames, KindsApart, TopFrame
<1>5. ~InPart' /\ ~InRing' /\ PartsEnded' = Len(cur)
      /\ OpenPart' = IF Multi THEN << >> ELSE FirstPart(cur)
  BY <1>1, EndedPartsNext
<1>6. ~InRing /\ (InPart <=> Top.type = Kind)
  BY <1>1 DEF InPart, InRing
<1>7. CASE ~Multi
  <2>1. BuilderSame(b, b')
    BY <1>1, <1>7 DEF BuilderSame, SamePart
  <2>2. /\ Exact(b) /\ BuilderKept(b, b')
        /\ \A open, r :
             OpenIs(Kind, PartOf(b'), open, r) <=> OpenIs(Kind, PartOf(b), open, r)
    BY <1>2, <2>1, BuilderSameIs
  <2>3. /\ Len(b.list.valid) = Len(features)
        /\ \A i \in 1 .. Len(features) : FeatureIs(b, i, features[i].parts)
        /\ OpenIs(Kind, PartOf(b), OpenPart, InRing)
    BY <1>1, <2>2, DecodedNow
  <2>4. \A i \in 1 .. Len(features) : FeatureIs(b', i, features[i].parts)
    BY <1>2, <2>2, <2>3, FeaturesKept
  <2>5. OpenPart = OpenPart'
    BY <1>5, <1>7 DEF OpenPart
  <2>6. OpenIs(Kind, PartOf(b), OpenPart', InRing')
    BY <1>5, <1>6, <2>3, <2>5, RingOpen
  <2>7. UnfinishedIs(b', cur', PartsEnded', OpenPart', InRing')
    BY <1>7, <2>2, <2>6 DEF UnfinishedIs
  <2>8. QED
    BY <1>1, <2>4, <2>7, DecodeNext
<1>8. CASE Multi /\ Top.type # Kind
  <2>1. ~(b.level > 1)
    <3>1. Len(stack) = 1 /\ OpenGeometries = 1 /\ stack[1].type # ChildType(target)
      BY <1>1, <1>3, <1>4, <1>8 DEF OpenGeometries
    <3>2. b.level = 1
      BY <1>1, <1>8, <3>1 DEF IInv, LevelTracksDepth
    <3>3. QED
      BY <3>2
  <2>2. b'.list = b.list /\ b'.child = b.child
    BY <1>1, <1>2, <1>8, <2>1, GeomEndWrites
  <2>3. BuilderSame(b, b')
    BY <1>8, <2>2 DEF BuilderSame, SamePart, PartOf
  <2>4. PartsEnded = Len(cur) /\ OpenPart = << >>
    BY <1>2, <1>6, <1>8, EndedParts DEF OpenPart
  <2>5. /\ Exact(b) /\ BuilderKept(b, b')
        /\ \A open, r :
             OpenIs(Kind, PartOf(b'), open, r) <=> OpenIs(Kind, PartOf(b), open, r)
    BY <1>2, <2>3, BuilderSameIs
  <2>6. OpenIs(Kind, PartOf(b), OpenPart, InRing) => OpenIs(Kind, PartOf(b), OpenPart', InRing')
    BY <1>5, <1>6, <1>8, <2>4, RingOpen
  <2>7. QED
    BY <1>1, <1>5, <2>2, <2>4, <2>5, <2>6, DecodeKept
<1>9. CASE Multi /\ Top.type = Kind
  <2>1. b.level > 1
    <3>1. CASE Len(stack) = 1
      <4>1. OpenGeometries = 1 /\ stack[1].type = ChildType(target)
        BY <1>1, <1>3, <1>4, <1>9, <3>1 DEF OpenGeometries
      <4>2. b.level = 2
        BY <1>1, <1>9, <4>1 DEF IInv, LevelTracksDepth
      <4>3. QED
        BY <4>2
    <3>2. CASE Len(stack) = 2 /\ stack[1].type # Kind
      <4>1. OpenGeometries = 2 /\ stack[1].type # ChildType(target)
        BY <1>1, <1>3, <1>4, <1>9, <3>2 DEF OpenGeometries
      <4>2. b.level = 2
        BY <1>1, <1>9, <4>1 DEF IInv, LevelTracksDepth
      <4>3. QED
        BY <4>2
    <3>3. QED
      BY <1>4, <1>9, <3>1, <3>2
  <2>2. /\ Len(cur) \in Nat \ {0} /\ OpenPart = cur[Len(cur)]
        /\ PartsEnded \in 0 .. Len(cur)
        /\ Kind # "POINT" => PartsEnded = Len(cur) - 1
    BY <1>2, <1>6, <1>9, EndedParts
  <2>3. b'.list = b.list /\ PartOf(b') = b'.child
    BY <1>1, <1>2, <1>9, GeomEndWrites DEF PartOf
  <2>4. CASE Kind = "POINT"
    <3>1. b'.child = b.child
      BY <1>1, <1>2, <1>9, <2>4, GeomEndWrites
    <3>2. BuilderSame(b, b')
      BY <1>9, <2>3, <3>1 DEF BuilderSame, SamePart, PartOf
    <3>3. PartsEnded = Len(cur)
      <4>1. Top.size \in {-1, 1} /\ Top.count \in 0 .. 1
        BY <1>6, <1>9, <2>4 DEF CurInv
      <4>2. Top.count # 0
        BY <1>1, <1>4, <4>1 DEF MayEnd
      <4>3. QED
        BY <2>4, <4>2 DEF PartsEnded
    <3>4. Exact(b) /\ BuilderKept(b, b')
      BY <1>2, <3>2, BuilderSameIs
    <3>5. OpenIs(Kind, PartOf(b'), OpenPart', InRing')
      BY <2>4 DEF OpenIs
    <3>6. QED
      BY <1>1, <1>5, <2>3, <3>1, <3>3, <3>4, <3>5, DecodeKept
  <2>5. CASE Kind # "POINT"
    <3>1. PartFinished(Kind, b.child, b'.child)
      BY <1>1, <1>2, <1>9, <2>1, <2>5, GeomEndWrites
    <3>2. PICK part \in Seq(Nat) : part = cur[Len(cur)]
      BY <1>2, <2>2, ElementOfSeq
    <3>3. /\ b'.child.size = b.child.size + 1 /\ b'.child.points = b.child.points
          /\ Kind = "POLYGON" => b'.child.rings = b.child.rings
          /\ b.child.size \in Nat
      BY <1>3, <1>9, <3>1, SimpleParts DEF PartFinished
    <3>4. Exact(b)
      <4>1. SizesFit(Kind, b.child)
        BY <1>9, <2>3, <2>5, <3>3 DEF Exact, SizesFit, PointsOf
      <4>2. b.child.size <= IntMax
        BY <1>9, <3>3, BuilderAssumption DEF Exact
      <4>3. QED
        BY <1>3, <1>9, <4>1, <4>2 DEF Exact
    <3>5. /\ Len(b.list.valid) = Len(features)
          /\ \A i \in 1 .. Len(features) : FeatureIs(b, i, features[i].parts)
          /\ OpenIs(Kind, b.child, part, FALSE)
          /\ EndedAre(b, cur, PartsEnded)
      <4>1. /\ Len(b.list.valid) = Len(features)
            /\ \A i \in 1 .. Len(features) : FeatureIs(b, i, features[i].parts)
            /\ OpenIs(Kind, PartOf(b), OpenPart, InRing)
            /\ EndedAre(b, cur, PartsEnded)
        BY <1>1, <1>9, <3>4, DecodedNow
      <4>2. PICK r \in BOOLEAN : r = FALSE
        OBVIOUS
      <4>3. OpenIs(Kind, b.child, part, InRing) /\ (InRing <=> r)
        BY <1>3, <1>6, <1>9, <2>2, <3>2, <4>1, <4>2
      <4>4. OpenIs(Kind, b.child, part, r)
        BY <4>3, RingOpen
      <4>5. QED
        BY <4>1, <4>2, <4>4
    <3>6. /\ PartIs(Kind, b'.child, b.child.size + 1, part)
          /\ OpenIs(Kind, b'.child, << >>, FALSE) /\ PartsKept(Kind, b.child, b'.child)
      <4>1. SizesFit(Kind, b.child)
        BY <1>3, <1>9, <3>4 DEF Exact
      <4>2. Kind \in SimpleTypes \ {"POINT"} /\ b.child \in SimpleType(Kind)
            /\ SimpleGood(Kind, b.child)
        BY <1>3, <1>9, <2>5
      <4>3. QED
        BY <3>1, <3>5, <4>1, <4>2, PartFinishedIs
    <3>7. BuilderKept(b, b')
      BY <1>3, <1>9, <2>3, <3>6, ExtendsSelf DEF BuilderKept
    <3>8. \A i \in 1 .. Len(features) : FeatureIs(b', i, features[i].parts)
      BY <1>2, <3>4, <3>5, <3>7, FeaturesKept
    <3>9. EndedAre(b', cur, Len(cur))
      <4>1. PICK n : n = PartsEnded
        OBVIOUS
      <4>2. n \in 0 .. Len(cur) /\ n + 1 = Len(cur) /\ cur[n + 1] = part
        BY <2>2, <2>5, <3>2, <4>1
      <4>3. EndedAre(b', cur, n + 1)
        BY <1>2, <1>9, <2>3, <3>3, <3>4, <3>5, <3>6, <4>1, <4>2, PartEndedIs
      <4>4. QED
        BY <4>2, <4>3
    <3>10. OpenIs(Kind, PartOf(b'), OpenPart', InRing')
      BY <1>5, <1>9, <2>3, <3>6, RingOpen
    <3>11. UnfinishedIs(b', cur', PartsEnded', OpenPart', InRing')
      BY <1>1, <1>5, <3>9, <3>10 DEF UnfinishedIs
    <3>12. QED
      BY <1>1, <3>8, <3>11, DecodeNext
  <2>6. QED
    BY <2>4, <2>5
<1>10. QED
  BY <1>7, <1>8, <1>9

(* null_feat(): the feature has no parts, and its element is empty.        *)
LEMMA NullFeatDecode ==
  ASSUME IInv, OutputInv, CurInv, DecodeInv, ReaderInv', CurInv', CallNullFeat
  PROVE  DecodeInv'
<1>1. NullFeat(NullFeatCall.res) /\ b' = NullFeatCall.b /\ UNCHANGED <<target, released>>
  BY DEF CallNullFeat
<1> SUFFICES ASSUME target # "POINT" PROVE DecodeInv'
  BY <1>1 DEF DecodeInv
<1>2. TypeOK /\ b \in BuilderType /\ phase = "feature"
  BY <1>1 DEF IInv, TypeOK, NullFeat
<1>3. Good(b)
  BY <1>2 DEF OutputInv, GoodInv
<1>4. NullFeatCall.res = "ABORT_FEATURE" /\ FeatureFinished(b, b')
  BY <1>1, <1>2, NullFeatWrites
<1>5. EndFeature(NullFeature)
  BY <1>1, <1>2, <1>4 DEF NullFeat, Unwind
<1>6. NullFeature.parts = cur
  BY <1>2 DEF NullFeature, CurInv
<1>7. BuilderSame(b, b)
  BY DEF BuilderSame, SamePart
<1>8. QED
  BY <1>1, <1>2, <1>3, <1>4, <1>5, <1>6, <1>7, EndedDecode

(* feat_end(): the parts that are ended are the feature.                   *)
LEMMA FeatEndDecode ==
  ASSUME IInv, OutputInv, CurInv, DecodeInv, ReaderInv', CurInv', CallFeatEnd
  PROVE  DecodeInv'
<1>1. /\ phase = "closing" /\ EndFeature(Feature(cur))
      /\ b' = (IF Multi THEN MultiFeatEnd(b) ELSE SimpleFeatEnd(target, b))
      /\ UNCHANGED <<target, released>>
  BY DEF CallFeatEnd, FeatEnd
<1> SUFFICES ASSUME target # "POINT" PROVE DecodeInv'
  BY <1>1 DEF DecodeInv
<1>2. TypeOK /\ b \in BuilderType
  BY DEF IInv, TypeOK
<1>3. Good(b)
  BY <1>1 DEF OutputInv, GoodInv
<1>4. FeatureFinished(b, b')
  BY <1>1, <1>2, FeatEndWrites
<1>5. Feature(cur).parts = cur
  BY DEF Feature
<1>6. BuilderSame(b, b)
  BY DEF BuilderSame, SamePart
<1>7. QED
  BY <1>1, <1>2, <1>3, <1>4, <1>5, <1>6, EndedDecode

(* read_meta(), feat_start(), the end of the loop and release() write no   *)
(* element.                                                                *)
LEMMA OtherDecode ==
  ASSUME IInv, OutputInv, CurInv, DecodeInv, ReaderInv', CurInv',
         CallReadMeta \/ CallFeatStart \/ CallReadDone \/ Release
  PROVE  DecodeInv'
<1>1. /\ UNCHANGED <<target, features, cur>>
      /\ phase \in {"start", "between", "read"} /\ phase' # "geometry"
  BY DEF CallReadMeta, ReadMeta, CallFeatStart, FeatStart, CallReadDone, ReadDone,
         Release, readerVars
<1>2. BuilderSame(b, b')
  <2>1. CASE CallReadMeta
    <3>1. PICK d : b' = NewDimensionsCall(d)
      BY <2>1 DEF CallReadMeta
    <3>2. TypeOK
      BY DEF IInv
    <3>3. QED
      BY <3>1, <3>2, NewDimensionsWrites
  <2>2. CASE CallFeatStart
    <3>1. b' = IF Multi THEN MultiFeatStart(b) ELSE b
      BY <2>2 DEF CallFeatStart
    <3>2. Multi => b'.list = b.list /\ b'.child = b.child
      BY <3>1 DEF MultiFeatStart, MultiRec
    <3>3. QED
      BY <3>1, <3>2 DEF BuilderSame, SamePart, PartOf
  <2>3. CASE CallReadDone \/ Release
    <3>1. b' = b
      BY <2>3 DEF CallReadDone, Release
    <3>2. QED
      BY <3>1 DEF BuilderSame, SamePart
  <2>4. QED
    BY <2>1, <2>2, <2>3
<1>3. QED
  BY <1>1, <1>2, OutsideDecode

(* Nothing changes.                                                        *)
LEMMA StutterDecode ==
  ASSUME DecodeInv, UNCHANGED vars
  PROVE  DecodeInv'
BY DEF vars, readerVars, DecodeInv, Exact, SizesFit, FeatureIs, UnfinishedIs, EndedAre,
       OpenIs, PartIs, PartOf, PartsEnded, OpenPart, InPart, InRing, Top, Kind, Multi

(* Every call keeps what is decoded.                                       *)
LEMMA DecodeStep ==
  ASSUME IInv, OutputInv, NestInv, CurInv, DecodeInv, [Next]_vars, ~NestedEmpty, WellTyped
  PROVE  DecodeInv'
<1>1. ReaderInv'
  BY NextInv DEF IInv, TypeOK, ReaderInv
<1>2. CurInv'
  BY ShapeStep
<1>3. CASE CallReadMeta \/ CallFeatStart \/ CallReadDone \/ Release
  BY <1>1, <1>2, <1>3, OtherDecode
<1>4. CASE CallNullFeat
  BY <1>1, <1>2, <1>4, NullFeatDecode
<1>5. CASE CallGeomStart
  BY <1>1, <1>2, <1>5, GeomStartDecode
<1>6. CASE CallRingStart
  BY <1>1, <1>2, <1>6, RingStartDecode
<1>7. CASE CallCoords
  BY <1>1, <1>2, <1>7, CoordsDecode
<1>8. CASE CallRingEnd
  BY <1>1, <1>2, <1>8, RingEndDecode
<1>9. CASE CallGeomEnd
  BY <1>1, <1>2, <1>9, GeomEndShape, GeomEndDecode
<1>10. CASE CallFeatEnd
  BY <1>1, <1>2, <1>10, FeatEndDecode
<1>11. CASE UNCHANGED vars
  BY <1>11, StutterDecode
<1>12. QED
  BY <1>3, <1>4, <1>5, <1>6, <1>7, <1>8, <1>9, <1>10, <1>11 DEF Next

(* A line is a part without rings, when it has been read too.              *)
LEMMA LinesStep ==
  ASSUME ReaderInv, CurInv, LinesInv, [Next]_vars
  PROVE  LinesInv'
<1> SUFFICES ASSUME target' # "POINT", Kind' = "LINESTRING",
                    NEW i \in 1 .. Len(features'), NEW j \in 1 .. Len(features'[i].parts)
             PROVE  Len(features'[i].parts[j]) = 1
  BY DEF LinesInv
<1>1. UNCHANGED target
  BY DEF Next, vars, CallReadMeta, CallFeatStart, CallNullFeat, CallGeomStart, CallRingStart,
         CallCoords, CallRingEnd, CallGeomEnd, CallFeatEnd, CallReadDone, Release
<1>2. Kind' = Kind
  BY <1>1, KindRigid
<1>3. features \in Seq(FeatureType) /\ Len(features) \in Nat
  BY LenProperties DEF ReaderInv, ReaderTypeOK
<1>4. features' = features \/ \E f : features' = Append(features, f) /\ f.parts \in {<< >>, cur}
  <2>1. CASE CallNullFeat
    <3>1. UNCHANGED features \/ EndFeature(NullFeature)
      BY <2>1 DEF CallNullFeat, NullFeat, Unwind
    <3>2. QED
      BY <3>1 DEF EndFeature, NullFeature
  <2>2. CASE CallGeomStart
    <3>1. PICK t, sz, d, r : GeomStart(t, sz, d, r)
      BY <2>2 DEF CallGeomStart
    <3>2. UNCHANGED features \/ EndFeature(Feature(cur))
      BY <3>1 DEF GeomStart, Unwind
    <3>3. QED
      BY <3>2 DEF EndFeature, Feature
  <2>3. CASE CallFeatEnd
    BY <2>3 DEF CallFeatEnd, FeatEnd, EndFeature, Feature
  <2>4. CASE ~(CallNullFeat \/ CallGeomStart \/ CallFeatEnd)
    BY <2>4 DEF Next, vars, readerVars, CallReadMeta, ReadMeta, CallFeatStart, FeatStart,
         CallRingStart, RingStart, CallCoords, Coords, CallRingEnd, RingEnd, CallGeomEnd,
         GeomEnd, CallReadDone, ReadDone, Release
  <2>5. QED
    BY <2>1, <2>2, <2>3, <2>4
<1>5. CASE features' = features
  BY <1>1, <1>2, <1>5 DEF LinesInv
<1>6. ASSUME NEW f, features' = Append(features, f), f.parts \in {<< >>, cur}
      PROVE  Len(features'[i].parts[j]) = 1
  <2>1. CASE i \in 1 .. Len(features)
    <3>1. features'[i] = features[i]
      BY <1>3, <1>6, <2>1
    <3>2. QED
      BY <1>1, <1>2, <2>1, <3>1 DEF LinesInv
  <2>2. CASE i \notin 1 .. Len(features)
    <3>1. features'[i] = f
      BY <1>3, <1>6, <2>2
    <3>2. CASE f.parts = << >>
      BY <3>1, <3>2
    <3>3. CASE f.parts = cur
      BY <1>1, <1>2, <3>1, <3>3 DEF CurInv
    <3>4. QED
      BY <1>6, <3>2, <3>3
  <2>3. QED
    BY <2>1, <2>2
<1>7. QED
  BY <1>4, <1>5, <1>6

(* Every call keeps the invariant of the content.                          *)
LEMMA ContentStep ==
  ASSUME IInv, OutputInv, ContentInv, [Next]_vars, ~NestedEmpty, WellTyped
  PROVE  ContentInv'
BY IInvReader, ShapeStep, DecodeStep, LinesStep DEF ContentInv

(* Nothing has been read and nothing written at first.                     *)
LEMMA InitContent == Init => ContentInv
<1> SUFFICES ASSUME Init, target # "POINT" PROVE ContentInv
  BY DEF ContentInv, NestInv, CurInv, LinesInv, DecodeInv
<1>1. /\ phase = "start" /\ stack = << >> /\ cur = << >> /\ features = << >>
      /\ b = IF Multi THEN NewMulti(target) ELSE NewSimple(target)
      /\ TypeOK
  BY InitIInv DEF Init, ReaderInit, IInv
<1>2. ~InPart /\ ~InRing
  BY <1>1 DEF InPart, InRing
<1>3. NestInv /\ CurInv /\ LinesInv
  BY <1>1, <1>2 DEF NestInv, CurInv, OneMember, LinesInv
<1>4. Kind \in SimpleTypes /\ PartOf(b) = NewSimple(Kind) /\ (Multi => b.list = NewList)
  <2>1. Kind \in SimpleTypes
    BY <1>1, InUse DEF IInv, TypeOK
  <2>2. QED
    BY <1>1, <2>1 DEF PartOf, Kind, NewMulti, MultiRec
<1>5. PartsEnded = 0 /\ OpenPart = << >>
  BY <1>1, <1>2 DEF PartsEnded, OpenPart, FirstPart
<1>6. OpenIs(Kind, NewSimple(Kind), << >>, FALSE) /\ NewSimple(Kind).size = 0
  BY <1>4 DEF SimpleTypes, OpenIs, NewSimple, NewLinestring, NewPolygon, NewPoint, NewList,
              LastOffset, VerticesOf, RingsEnded
<1>7. OpenIs(Kind, PartOf(b), << >>, InRing)
  BY <1>2, <1>4, <1>6, RingOpen
<1>8. Multi => EndedAre(b, cur, 0)
  <2>1. Multi => PartOf(b) = b.child
    BY DEF PartOf
  <2>2. LastOffset(NewList) = 0
    BY DEF LastOffset, NewList
  <2>3. Multi => b.child.size = 0 /\ LastOffset(b.list) = 0
    BY <1>4, <1>6, <2>1, <2>2
  <2>4. QED
    BY <2>3 DEF EndedAre
<1>9. DecodeInv
  BY <1>1, <1>5, <1>7, <1>8 DEF DecodeInv, UnfinishedIs
<1>10. QED
  BY <1>3, <1>9 DEF ContentInv

(* The invariant of the content holds in every reachable state, if no part *)
(* of a multi-geometry is empty or of another type than its own.           *)
THEOREM ContentInvariant ==
  ASSUME ~NestedEmpty, WellTyped
  PROVE  Spec => [](IInv /\ OutputInv /\ ContentInv)
<1>1. Init => IInv /\ OutputInv /\ ContentInv
  BY InitIInv, InitOutput, InitContent
<1>2. IInv /\ OutputInv /\ ContentInv /\ [Next]_vars => (IInv /\ OutputInv /\ ContentInv)'
  BY NextInv, OutputStep, ContentStep
<1>3. QED
  BY <1>1, <1>2, PTL DEF Spec

(* A sequence is the function of its elements.                             *)
LEMMA SameSequence ==
  ASSUME NEW S, NEW s \in Seq(S)
  PROVE  [j \in 1 .. Len(s) |-> s[j]] = s
OBVIOUS

(* The lines between two offsets, decoded.                                 *)
LEMMA LinesAre ==
  ASSUME NEW outer, NEW inner, NEW i, NEW part \in Seq(Nat),
         ElementSize(outer, i) = Len(part),
         \A j \in 1 .. Len(part) : ElementSize(inner, outer.offsets[i] + j) = part[j]
  PROVE  ElementLines(outer, inner, i) = part
<1>1. ElementLines(outer, inner, i) = [j \in 1 .. Len(part) |-> part[j]]
  BY DEF ElementLines
<1>2. QED
  BY <1>1, SameSequence

(* While no child is longer than INT32_MAX, the offsets say the lengths.   *)
LEMMA InRangeExact ==
  ASSUME IInv, OutputInv, AtRest, target # "POINT", Points.ranges <= 1, InRange
  PROVE  Exact(b)
<1>1. PICK n : n = Len(Points.sub[Points.active].valid)
  OBVIOUS
<1>2. phase # "failed" /\ TypeOK /\ b \in BuilderType
  BY DEF AtRest, IInv, TypeOK
<1>3. Points = PointsOf(Kind, PartOf(b)) /\ Good(b) /\ Fit(b, dim)
  BY <1>2, PointsInUse DEF OutputInv, GoodInv
<1>4. Points.size = n
  <2>1. PICK noNulls : noNulls = (target # "POINT")
    OBVIOUS
  <2>2. PointsFit(Points, dim, noNulls)
    BY <1>3, <2>1 DEF Fit
  <2>3. QED
    BY <1>1, <2>1, <2>2 DEF PointsFit
<1>5. /\ Kind \in SimpleTypes /\ PartOf(b) \in SimpleType(Kind) /\ SimpleGood(Kind, PartOf(b))
      /\ Multi => Kind = ChildType(target) /\ PartOf(b) = b.child /\ target \in MultiTypes
      /\ ~Multi => Kind = target /\ PartOf(b) = b /\ target \in SimpleTypes
  BY <1>2, <1>3, InUse DEF Good, Multi
<1>6. \A k \in 1 .. Len(Lists) : LengthBelow(k) <= IntMax
  BY DEF InRange
<1>7. CASE target = "LINESTRING"
  <2>1. ~Multi /\ Len(Lists) = 1
    BY <1>7 DEF Lists, Multi, MultiTypes
  <2>2. n <= IntMax
    BY <1>1, <1>6, <2>1 DEF LengthBelow
  <2>3. QED
    BY <1>3, <1>4, <1>5, <1>7, <2>1, <2>2 DEF Exact, SizesFit
<1>8. CASE target = "MULTIPOINT"
  <2>1. Multi /\ Len(Lists) = 1 /\ Kind = "POINT"
    BY <1>5, <1>8 DEF Lists, Multi, MultiTypes, ChildType
  <2>2. n <= IntMax
    BY <1>1, <1>6, <2>1 DEF LengthBelow
  <2>3. b.child.size = n
    BY <1>3, <1>4, <1>5, <2>1 DEF PointsOf
  <2>4. QED
    BY <1>3, <1>4, <2>1, <2>2, <2>3 DEF Exact, SizesFit
<1>9. CASE target = "POLYGON"
  <2>1. ~Multi /\ Len(Lists) = 2 /\ Lists[2] = b.rings
    BY <1>9 DEF Lists, Multi, MultiTypes
  <2>2. LengthBelow(1) = Len(b.rings.valid) /\ LengthBelow(2) = n
    BY <1>1, <2>1 DEF LengthBelow
  <2>3. n <= IntMax /\ Len(b.rings.valid) <= IntMax
    BY <1>6, <2>1, <2>2
  <2>4. QED
    BY <1>3, <1>4, <1>5, <2>1, <2>3 DEF Exact, SizesFit
<1>10. CASE target = "MULTILINESTRING"
  <2>1. /\ Multi /\ Len(Lists) = 2 /\ Lists[2] = b.child.list /\ Kind = "LINESTRING"
    BY <1>5, <1>10 DEF Lists, Multi, MultiTypes, ChildType
  <2>2. LengthBelow(1) = Len(b.child.list.valid) /\ LengthBelow(2) = n
    BY <1>1, <2>1 DEF LengthBelow
  <2>3. b.child.size = Len(b.child.list.valid)
    BY <1>5, <2>1 DEF SimpleGood
  <2>4. n <= IntMax /\ b.child.size <= IntMax
    BY <1>6, <2>1, <2>2, <2>3
  <2>5. QED
    BY <1>3, <1>4, <2>1, <2>4 DEF Exact, SizesFit
<1>11. CASE target = "MULTIPOLYGON"
  <2>1. /\ Multi /\ Len(Lists) = 3 /\ Lists[2] = b.child.list /\ Lists[3] = b.child.rings
        /\ Kind = "POLYGON"
    BY <1>5, <1>11 DEF Lists, Multi, MultiTypes, ChildType
  <2>2. /\ LengthBelow(1) = Len(b.child.list.valid)
        /\ LengthBelow(2) = Len(b.child.rings.valid) /\ LengthBelow(3) = n
    BY <1>1, <2>1 DEF LengthBelow
  <2>3. b.child.size = Len(b.child.list.valid)
    BY <1>5, <2>1 DEF SimpleGood
  <2>4. n <= IntMax /\ b.child.size <= IntMax /\ Len(b.child.rings.valid) <= IntMax
    BY <1>6, <2>1, <2>2, <2>3
  <2>5. QED
    BY <1>3, <1>4, <1>5, <2>1, <2>4 DEF Exact, SizesFit
<1>12. QED
  BY <1>5, <1>7, <1>8, <1>9, <1>10, <1>11 DEF SimpleTypes, MultiTypes

(* Every finished element is the feature it came from: the invariant       *)
(* implies it.                                                             *)
LEMMA ContentMatches ==
  ASSUME IInv, OutputInv, ContentInv
  PROVE  ElementsMatch
<1> SUFFICES ASSUME AtRest, target # "POINT", Points.ranges <= 1, InRange,
                    NEW i \in 1 .. Len(features)
             PROVE  Element(i) = Expected(features[i])
  BY DEF ElementsMatch
<1>1. FeatureIs(b, i, features[i].parts)
  BY InRangeExact DEF ContentInv, DecodeInv, AtRest
<1>2. PICK parts \in Seq(Seq(Nat)) : parts = features[i].parts
  <2>1. features \in Seq(FeatureType)
    BY DEF IInv, TypeOK, ReaderTypeOK
  <2>2. features[i] \in FeatureType
    BY <2>1, ElementOfSeq
  <2>3. QED
    BY <2>2 DEF FeatureType
<1>3. /\ FirstPart(parts) \in Seq(Nat) /\ \A j \in 1 .. Len(parts) : parts[j] \in Seq(Nat)
  BY FirstPartType
<1>4. TypeOK /\ b \in BuilderType
  BY DEF IInv, TypeOK
<1>5. /\ Multi => Kind = ChildType(target) /\ target \in MultiTypes
      /\ ~Multi => Kind = target /\ target \in SimpleTypes
  BY <1>4, InUse DEF Multi
<1>6. CASE target = "LINESTRING"
  <2>1. ~Multi /\ Kind = "LINESTRING"
    BY <1>5, <1>6 DEF Multi, MultiTypes
  <2>2. ElementSize(b.list, i) = VerticesOf(FirstPart(parts))
    BY <1>1, <1>2, <2>1 DEF FeatureIs, PartIs
  <2>3. QED
    BY <1>2, <1>6, <2>2 DEF Element, Expected, VerticesOf, FirstPart
<1>7. CASE target = "POLYGON"
  <2>1. ~Multi /\ Kind = "POLYGON"
    BY <1>5, <1>7 DEF Multi, MultiTypes
  <2>2. PartIs("POLYGON", b, i, FirstPart(parts))
    BY <1>1, <1>2, <2>1 DEF FeatureIs
  <2>3. ElementLines(b.list, b.rings, i) = FirstPart(parts)
    BY <1>3, <2>2, LinesAre DEF PartIs
  <2>4. QED
    BY <1>2, <1>7, <2>3 DEF Element, Expected, FirstPart
<1>8. CASE target = "MULTIPOINT"
  <2>1. Multi
    BY <1>8 DEF Multi, MultiTypes
  <2>2. ElementSize(b.list, i) = Len(parts)
    BY <1>1, <1>2, <2>1 DEF FeatureIs
  <2>3. QED
    BY <1>2, <1>8, <2>2 DEF Element, Expected
<1>9. CASE target = "MULTILINESTRING"
  <2>1. Multi /\ Kind = "LINESTRING"
    BY <1>5, <1>9 DEF Multi, MultiTypes, ChildType
  <2>2. /\ ElementSize(b.list, i) = Len(parts)
        /\ \A j \in 1 .. Len(parts) :
             PartIs("LINESTRING", b.child, b.list.offsets[i] + j, parts[j])
    BY <1>1, <1>2, <2>1 DEF FeatureIs
  <2>3. ASSUME NEW j \in 1 .. Len(parts)
        PROVE  ElementSize(b.child.list, b.list.offsets[i] + j) = parts[j][1]
    <3>1. Len(parts[j]) = 1
      BY <1>2, <2>1 DEF ContentInv, LinesInv
    <3>2. parts[j] # << >>
      BY <3>1, NotEmpty
    <3>3. QED
      BY <2>2, <3>2 DEF PartIs, VerticesOf
  <2>4. ElementLines(b.list, b.child.list, i) = [j \in 1 .. Len(parts) |-> parts[j][1]]
    BY <2>2, <2>3 DEF ElementLines
  <2>5. QED
    BY <1>2, <1>9, <2>4 DEF Element, Expected
<1>10. CASE target = "MULTIPOLYGON"
  <2>1. Multi /\ Kind = "POLYGON"
    BY <1>5, <1>10 DEF Multi, MultiTypes, ChildType
  <2>2. /\ ElementSize(b.list, i) = Len(parts)
        /\ \A j \in 1 .. Len(parts) :
             PartIs("POLYGON", b.child, b.list.offsets[i] + j, parts[j])
    BY <1>1, <1>2, <2>1 DEF FeatureIs
  <2>3. ASSUME NEW j \in 1 .. Len(parts)
        PROVE  ElementLines(b.child.list, b.child.rings, b.list.offsets[i] + j) = parts[j]
    <3>1. PICK m : m = b.list.offsets[i] + j
      OBVIOUS
    <3>2. PICK part \in Seq(Nat) : part = parts[j]
      BY <1>3
    <3>3. PartIs("POLYGON", b.child, m, part)
      BY <2>2, <3>1, <3>2
    <3>4. ElementLines(b.child.list, b.child.rings, m) = part
      BY <3>3, LinesAre DEF PartIs
    <3>5. QED
      BY <3>1, <3>2, <3>4
  <2>4. [j \in 1 .. ElementSize(b.list, i) |->
           ElementLines(b.child.list, b.child.rings, b.list.offsets[i] + j)] =
        [j \in 1 .. Len(parts) |-> parts[j]]
    BY <2>2, <2>3
  <2>5. Element(i) = parts
    BY <1>10, <2>4, SameSequence DEF Element
  <2>6. QED
    BY <1>2, <1>10, <2>5 DEF Expected
<1>11. QED
  BY <1>5, <1>6, <1>7, <1>8, <1>9, <1>10 DEF SimpleTypes, MultiTypes

(* Each finished element, decoded through the nested offsets, is the       *)
(* feature that was read: no part, ring or vertex is lost, repeated or     *)
(* attributed to a neighbour, for every class of builder and every mixture *)
(* of features, as long as no child is longer than INT32_MAX. The first    *)
(* hypothesis excludes parts that are empty themselves: with them it is    *)
(* false, since MultiArrayBuilder::geom_start() ignores that the child has *)
(* finished such a part already, and geom_end() finishes it again. The     *)
(* second excludes members of another type, as WKB may hold them: a        *)
(* MULTILINESTRING inside a MULTILINESTRING ends the child's feature twice *)
(* as well, with its line and with itself.                                 *)
THEOREM CastElementsMatch == ASSUME ~NestedEmpty, WellTyped PROVE Spec => []ElementsMatch
<1>1. IInv /\ OutputInv /\ ContentInv => ElementsMatch
  BY ContentMatches
<1>2. QED
  BY <1>1, ContentInvariant, PTL
===============================================================================
