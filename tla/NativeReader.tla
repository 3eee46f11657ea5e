----------------------------- MODULE NativeReader -----------------------------
(***************************************************************************)
(* PointArrayView .. CollectionArrayView (array-view-geoarrow.hpp): lists  *)
(* over lists over points. An array, and each child of it, may be a slice: *)
(* child_offset() adds the offset of its own level, read_coords() that of  *)
(* the points.                                                             *)
(***************************************************************************)
EXTENDS ArrayReader

CONSTANTS
  NativeTypes, (* bound: the encodings explored                             *)
  LeafOffsets  (* bound: the offsets of the point array                     *)

ASSUME LeafAssumption == LeafOffsets \subseteq Nat

VARIABLES
  levels,  (* the list arrays, outermost first: [offset, offsets]           *)
  leaf,    (* offset of the array of points                                 *)
  starts,  (* per open frame: the element its first part (coordinate) is    *)
  seen     (* history: the coordinates passed on for this feature           *)

nativeVars == <<levels, leaf, starts, seen>>

Depth(t) ==
  CASE t = "POINT" -> 0
    [] t \in {"LINESTRING", "MULTIPOINT"} -> 1
    [] t \in {"POLYGON", "MULTILINESTRING"} -> 2
    [] t = "MULTIPOLYGON" -> 3

(* ListArrayView::child_offset(), child_size() of element e of level l.    *)
ChildOffset(l, e) == levels[l].offsets[levels[l].offset + e + 1]
ChildSize(l, e) == ChildOffset(l, e + 1) - ChildOffset(l, e)

NativeInit ==
  /\ levels = << >>
  /\ leaf = 0
  /\ starts = << >>
  /\ seen = << >>

(* A valid array: every element of a level exists in the next one. `lists` *)
(* are the list arrays that may occur.                                     *)
Fits(ls, n) ==
  \A l \in DOMAIN ls :
    LET elements == IF l = 1 THEN n ELSE ls[l - 1].offsets[Len(ls[l - 1].offsets)]
    IN ls[l].offset + elements < Len(ls[l].offsets)

NativeBegin(t, d, lists) ==
  /\ reader = "native"
  /\ t \in NativeTypes
  /\ Begin(t, d)
  /\ levels' \in [1 .. Depth(t) -> lists]
  /\ Fits(levels', array.length)
  /\ levels' # << >> => levels'[1].offset = array.offset
  /\ leaf' \in IF levels' = << >> THEN {array.offset} ELSE LeafOffsets
  /\ UNCHANGED <<starts, seen>>

(* feat_end(), or a feature given up: the next one starts afresh.          *)
NativeReset ==
  /\ starts' = << >>
  /\ seen' = << >>
  /\ UNCHANGED <<levels, leaf>>

(* geom_start() of element e; a frame at depth l reads list array l.       *)
NativeOpen(t, e) ==
  LET l == Len(stack) + 1 IN
  /\ CallGeomStart(t, IF t = "POINT" THEN 1 ELSE ChildSize(l, e))
  /\ starts' = Append(starts, IF t = "POINT" THEN e ELSE ChildOffset(l, e))
  /\ UNCHANGED <<dim, levels, leaf, seen>>
  /\ UNCHANGED loopVars

PartOf(t) ==
  CASE t = "MULTIPOINT" -> "POINT"
    [] t = "MULTILINESTRING" -> "LINESTRING"
    [] t = "MULTIPOLYGON" -> "POLYGON"

Element == starts[Len(starts)] + Top.count

NativeRoot ==
  /\ Reading
  /\ NativeOpen(meta.type, Row)

NativePart ==
  /\ phase = "geometry"
  /\ Top.type \in MultiTypes
  /\ Top.count < Top.size
  /\ NativeOpen(PartOf(Top.type), Element)

NativeRing ==
  /\ phase = "geometry"
  /\ Top.type = "POLYGON"
  /\ Top.count < Top.size
  /\ CallRingStart(ChildSize(Len(stack) + 1, Element))
  /\ starts' = Append(starts, ChildOffset(Len(stack) + 1, Element))
  /\ UNCHANGED <<levels, leaf, seen>>
  /\ UNCHANGED loopVars

(* PointArrayView::read_coords(): all n coordinates in one call.           *)
(* (mutant) The offset of the points is not added.                         *)
ReadCoordsUnsliced(first, n) == [k \in 1 .. n |-> first + k - 1]
ReadCoords(first, n) == [k \in 1 .. n |-> first + leaf + k - 1]

NativeCoords ==
  /\ phase = "geometry"
  /\ Top.type \in {"POINT", "LINESTRING", "RING"}
  /\ Top.count < Top.size
  /\ CallCoords(Top.size)
  /\ seen' = seen \o ReadCoords(Element, Top.size)
  /\ UNCHANGED <<levels, leaf, starts>>
  /\ UNCHANGED loopVars

NativeEnd ==
  /\ phase = "geometry"
  /\ Top.count = Top.size
  /\ CallEnd
  /\ starts' = SubSeq(starts, 1, Len(starts) - 1)
  /\ UNCHANGED <<levels, leaf, seen>>
  /\ UNCHANGED loopVars

NativeNext ==
  /\ reader = "native"
  /\ \/ NativeRoot \/ NativePart
     \/ NativeRing
     \/ NativeCoords
     \/ NativeEnd
     \/ EndRow /\ NativeReset
     \/ \E r \in Results : GivesUp(r) /\ NativeReset

(***************************************************************************)
(* The first coordinate of row e, by composing the offsets of all levels,  *)
(* of which there are three at most: what the layout of the format says,   *)
(* whatever the loops do. Behind the last level elements are points.       *)
(***************************************************************************)
Below(l, e) == IF l > Len(levels) THEN e ELSE ChildOffset(l, e)
First(e) == leaf + Below(3, Below(2, Below(1, e)))

(* When a row has been read, its coordinates were passed on, each once, in *)
(* order, and no others, through slices at every level (the loops of       *)
(* array-view-geoarrow.hpp:97-169).                                        *)
CoordsExact ==
  reader = "native" /\ phase = "closing" /\ Row # NA /\ ~IsNull(Row) =>
    seen = [k \in 1 .. First(Row + 1) - First(Row) |-> First(Row) + k - 1]
===============================================================================
