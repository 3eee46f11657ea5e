---------------------------- MODULE FeatureReader ----------------------------
(***************************************************************************)
(* The calls an ArrayView makes on a Handler while it reads one array: the *)
(* protocol of handler.hpp, driven by read_features_templ and              *)
(* read_feature_templ of array-view-base.hpp.                              *)
(*                                                                         *)
(* Every reader of the library produces a stream of this form; `reader`    *)
(* says which one is at work, because they announce sizes and dimensions   *)
(* differently:                                                            *)
(*   "native"  PointArrayView .. CollectionArrayView: sizes are known, and *)
(*             read_meta() announces the type and dimensions of the array; *)
(*   "wkb"     WKBReader: sizes are known, POINT always has size 1, the    *)
(*             dimensions are announced when they change;                  *)
(*   "wkt"     WKTReader: size 0 for EMPTY, -1 (unknown) otherwise.        *)
(*                                                                         *)
(* A geometry is chosen call by call, so that one behaviour of this module *)
(* is one array. What the handler answers is a parameter `r` of the        *)
(* actions: a module that models a handler conjoins its own effect.        *)
(***************************************************************************)
EXTENDS Integers, Sequences, FiniteSets

CONSTANTS
  Readers,     (* the readers explored, a subset of the three above         *)
  Dims,        (* the dimensions that occur in the data                     *)
  RootTypes,   (* bound: the geometry types of features                     *)
  MemberTypes, (* bound: the geometry types of parts of collections, and of *)
               (* members of multi-geometries that are not of their type    *)
  NestedEmpty, (* whether a part of a multi-geometry may itself be empty    *)
  WellTyped,   (* whether types in WKB are known and those of members fit:  *)
               (* WKBReader looks at neither before it calls geom_start()   *)
  MaxFeatures, (* bound: features per array                                 *)
  MaxParts,    (* bound: parts, rings or coordinates of one (sub)geometry   *)
  MaxDepth     (* bound: geometries open at the same time                   *)

Unknown == "UNKNOWN"
Unrecognized == "UNRECOGNIZED"
AllDims == {"XY", "XYZ", "XYM", "XYZM"}
MultiTypes == {"MULTIPOINT", "MULTILINESTRING", "MULTIPOLYGON"}
SimpleTypes == {"POINT", "LINESTRING", "POLYGON"}
GeometryTypes == SimpleTypes \cup MultiTypes \cup {"GEOMETRYCOLLECTION"}

ASSUME ReaderAssumption ==
  /\ Readers \subseteq {"native", "wkb", "wkt"}
  /\ Dims \subseteq AllDims
  /\ RootTypes \subseteq GeometryTypes
  /\ MemberTypes \subseteq GeometryTypes
  /\ NestedEmpty \in BOOLEAN
  /\ WellTyped \in BOOLEAN
  /\ MaxFeatures \in Nat
  /\ MaxParts \in Nat \ {0}
  /\ MaxDepth \in Nat \ {0}

(* Handler::Result, and an exception leaving the callback.                 *)
Results == {"CONTINUE", "ABORT", "ABORT_FEATURE", "THROW"}

VARIABLES
  reader,   (* which reader is at work                                      *)
  phase,    (* where the read loop is, see Phases                           *)
  meta,     (* what read_meta() announced: [type, dim]                      *)
  dim,      (* dimensions last announced (dim_, meta_.dimensions)           *)
  stack,    (* the geometries being read, outermost first (the C++ stack)   *)
  cur,      (* history: parts of the current feature, each a sequence of    *)
            (* ring (or line) lengths                                       *)
  features  (* history: one entry per feature read, null or with its parts  *)

readerVars == <<reader, phase, meta, dim, stack, cur, features>>

Phases == {"start", "between", "feature", "geometry", "closing", "read", "failed"}
NullFeature == [null |-> TRUE, parts |-> << >>]
Feature(parts) == [null |-> FALSE, parts |-> parts]

(***************************************************************************)
(* Frames: one per geom_start() or ring_start() that has not ended.        *)
(***************************************************************************)
Frame(t, sz) == [type |-> t, size |-> sz, count |-> 0]
Top == stack[Len(stack)]
Counted(f, n) == [type |-> f.type, size |-> f.size, count |-> f.count + n]
CountOne(n) == [stack EXCEPT ![Len(stack)] = Counted(@, n)]

(* Whether the loop over the parts of the innermost frame runs once more:  *)
(* `i < size` when the size is known; WKT keeps going while it reads ','.  *)
MayGoOn(f) ==
  IF f.size >= 0 THEN f.count < f.size
                 ELSE f.count < (IF f.type = "POINT" THEN 1 ELSE MaxParts)

(* The do-while loops of WKTReader read at least one part; only a ring may *)
(* still be EMPTY after its ring_start(-1).                                *)
MayEnd(f) ==
  IF f.size >= 0 THEN f.count = f.size ELSE f.type = "RING" \/ f.count > 0

PartTypes(t) ==
  CASE t = "MULTIPOINT"      -> {"POINT"}
    [] t = "MULTILINESTRING" -> {"LINESTRING"}
    [] t = "MULTIPOLYGON"    -> {"POLYGON"}
    [] t = "GEOMETRYCOLLECTION" -> MemberTypes
    [] OTHER -> {}

(* The types geom_start() may be called with, for a root and for a part of *)
(* a geometry of type t.                                                   *)
Untyped == reader = "wkb" /\ ~WellTyped

RootsRead == RootTypes \cup (IF Untyped THEN {Unrecognized} ELSE {})

PartsRead(t) ==
  PartTypes(t) \cup
    (IF Untyped /\ t \in MultiTypes \cup {"GEOMETRYCOLLECTION"}
     THEN MemberTypes \cup {Unrecognized} ELSE {})

(* The sizes a reader passes to geom_start() for a geometry of type t in a *)
(* parent of type p ("" for the root).                                     *)
Sizes(t, p) ==
  IF reader # "wkt" THEN IF t = "POINT" THEN {1} ELSE 0 .. MaxParts
  ELSE IF p = "MULTIPOINT" THEN {0, 1} ELSE {0, -1}

RingSizes == IF reader # "wkt" THEN 0 .. MaxParts ELSE {-1}

(***************************************************************************)
(* What the caller of the callback does with its result: HANDLE_OR_RETURN  *)
(* unwinds every read_geometry() on anything but CONTINUE, then            *)
(* HANDLE_CONTINUE_OR_BREAK goes on with the next feature or leaves.       *)
(***************************************************************************)
EndFeature(f) ==
  /\ phase' = "between"
  /\ features' = Append(features, f)
  /\ stack' = << >>
  /\ cur' = << >>

Unwind(r, f) ==
  \/ /\ r = "ABORT_FEATURE"
     /\ EndFeature(f)
  \/ /\ r \in {"ABORT", "THROW"}
     /\ phase' = IF r = "ABORT" THEN "read" ELSE "failed"
     /\ stack' = << >>
     /\ cur' = << >>
     /\ UNCHANGED features

ReaderInit ==
  /\ reader \in Readers
  /\ phase = "start"
  /\ meta = [type |-> Unknown, dim |-> Unknown]
  /\ dim = Unknown
  /\ stack = << >>
  /\ cur = << >>
  /\ features = << >>

(* ArrayView::read_meta(): the native encodings know type and dimensions.  *)
ReadMeta(t, d) ==
  /\ phase = "start"
  /\ IF reader = "native"
     THEN t \in RootTypes \ {"GEOMETRYCOLLECTION"} /\ d \in Dims
     ELSE t = Unknown /\ d = Unknown
  /\ meta' = [type |-> t, dim |-> d]
  /\ dim' = d
  /\ phase' = "between"
  /\ UNCHANGED <<reader, stack, cur, features>>

FeatStart ==
  /\ phase = "between"
  /\ Len(features) < MaxFeatures
  /\ phase' = "feature"
  /\ UNCHANGED <<reader, meta, dim, stack, cur, features>>

NullFeat(r) ==
  /\ phase = "feature"
  /\ \/ /\ r = "CONTINUE"
        /\ phase' = "closing"
        /\ UNCHANGED <<stack, cur, features>>
     \/ Unwind(r, NullFeature)
  /\ UNCHANGED <<reader, meta, dim>>

(* A geometry (root or part) begins: the dimensions are announced if they  *)
(* changed, then geom_start(t, sz) is called, with result r. WKBReader     *)
(* throws for a type it does not know only if the handler goes on.         *)
Outcome(t, r) == IF t = Unrecognized /\ r = "CONTINUE" THEN "THROW" ELSE r

GeomStart(t, sz, d, r) ==
  /\ \/ /\ phase = "feature"
        /\ t \in RootsRead
        /\ meta.type \in {Unknown, t}
        /\ sz \in Sizes(t, "")
     \/ /\ phase = "geometry"
        /\ t \in PartsRead(Top.type)
        /\ MayGoOn(Top)
        /\ sz \in Sizes(t, Top.type)
        /\ Len(stack) < MaxDepth
        /\ sz = 0 => NestedEmpty
        /\ reader = "wkt" /\ Top.type \in MultiTypes => d = dim
  /\ d \in Dims
  /\ meta.dim \in {Unknown, d}
  /\ dim' = d
  /\ \/ /\ Outcome(t, r) = "CONTINUE"
        /\ phase' = "geometry"
        /\ stack' = Append(IF stack = << >> THEN stack ELSE CountOne(1), Frame(t, sz))
        /\ cur' = CASE t \in {"POINT", "LINESTRING"} -> Append(cur, <<0>>)
                    [] t = "POLYGON" -> Append(cur, << >>)
                    [] OTHER -> cur
        /\ UNCHANGED features
     \/ Unwind(Outcome(t, r), Feature(cur))
  /\ UNCHANGED <<reader, meta>>

RingStart(sz) ==
  /\ phase = "geometry"
  /\ Top.type = "POLYGON"
  /\ MayGoOn(Top)
  /\ sz \in RingSizes
  /\ stack' = Append(CountOne(1), Frame("RING", sz))
  /\ cur' = [cur EXCEPT ![Len(cur)] = Append(@, 0)]
  /\ UNCHANGED <<reader, phase, meta, dim, features>>

(* coords(coord, n): the native views pass all coordinates at once, the    *)
(* other readers one at a time. (The native call with n = 0 for an empty   *)
(* sequence changes no handler and is left out.)                           *)
LastPlus(s, n) == [s EXCEPT ![Len(s)] = @ + n]

Coords(n) ==
  /\ phase = "geometry"
  /\ Top.type \in {"POINT", "LINESTRING", "RING"}
  /\ MayGoOn(Top)
  /\ n = IF reader = "native" THEN Top.size ELSE 1
  /\ stack' = CountOne(n)
  /\ cur' = [cur EXCEPT ![Len(cur)] = LastPlus(@, n)]
  /\ UNCHANGED <<reader, phase, meta, dim, features>>

RingEnd ==
  /\ phase = "geometry"
  /\ Top.type = "RING"
  /\ MayEnd(Top)
  /\ stack' = SubSeq(stack, 1, Len(stack) - 1)
  /\ UNCHANGED <<reader, phase, meta, dim, cur, features>>

GeomEnd ==
  /\ phase = "geometry"
  /\ Top.type # "RING"
  /\ MayEnd(Top)
  /\ stack' = SubSeq(stack, 1, Len(stack) - 1)
  /\ phase' = IF Len(stack) = 1 THEN "closing" ELSE "geometry"
  /\ UNCHANGED <<reader, meta, dim, cur, features>>

FeatEnd ==
  /\ phase = "closing"
  /\ EndFeature(Feature(cur))
  /\ UNCHANGED <<reader, meta, dim>>

(* The loop over the features is over (after array_->length of them).      *)
ReadDone ==
  /\ phase = "between"
  /\ phase' = "read"
  /\ UNCHANGED <<reader, meta, dim, stack, cur, features>>

(***************************************************************************)
(* Invariant of the read loop, whatever the handler answers: types, and    *)
(* the shape of the call stack. Geometries are open exactly in phase       *)
(* "geometry"; a ring is open only innermost, inside some geometry.        *)
(***************************************************************************)
FrameType == [type : GeometryTypes \cup {"RING"}, size : Int, count : Nat]
FeatureType == [null : BOOLEAN, parts : Seq(Seq(Nat))]

ReaderTypeOK ==
  /\ reader \in Readers
  /\ phase \in Phases
  /\ meta \in [type : GeometryTypes \cup {Unknown}, dim : Dims \cup {Unknown}]
  /\ dim \in Dims \cup {Unknown}
  /\ stack \in Seq(FrameType)
  /\ cur \in Seq(Seq(Nat))
  /\ features \in Seq(FeatureType)

StackWellFormed ==
  /\ phase = "geometry" <=> stack # << >>
  /\ stack # << >> => stack[1].type # "RING"
  /\ \A i \in 1 .. Len(stack) : stack[i].type = "RING" => i = Len(stack)

(***************************************************************************)
(* The protocol as a specification of its own: the calls any handler may   *)
(* expect, whatever it answers. A callback, or the reader between two      *)
(* callbacks, may also stop a feature or the whole array at any point, and *)
(* a reader that throws may have announced dimensions before.              *)
(***************************************************************************)
CallUnwinds(r) ==
  /\ phase \in {"feature", "geometry", "closing"}
  /\ r # "CONTINUE"
  /\ Unwind(r, Feature(cur))
  /\ dim' \in IF r = "THROW" THEN Dims \cup {dim} ELSE {dim}
  /\ UNCHANGED <<reader, meta>>

ReaderNext ==
  \/ \E t \in RootTypes \cup {Unknown}, d \in Dims \cup {Unknown} : ReadMeta(t, d)
  \/ FeatStart
  \/ \E r \in Results : NullFeat(r) \/ CallUnwinds(r)
  \/ /\ phase \in {"feature", "geometry"}
     /\ \E t \in GeometryTypes \cup {Unrecognized}, sz \in -1 .. MaxParts,
          d \in Dims, r \in Results : GeomStart(t, sz, d, r)
  \/ \E sz \in -1 .. MaxParts : RingStart(sz)
  \/ \E n \in 0 .. MaxParts : Coords(n)
  \/ RingEnd \/ GeomEnd \/ FeatEnd \/ ReadDone

ReaderSpec == ReaderInit /\ [][ReaderNext]_readerVars
==============================================================================
