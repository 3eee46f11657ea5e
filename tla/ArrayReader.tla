----------------------------- MODULE ArrayReader -----------------------------
(***************************************************************************)
(* The loop around a reader: geoarrow_c_compute (geoarrow-compute.cpp)     *)
(* reads one array through its ArrayView, whole (read_features_templ) or   *)
(* row by row through a filter, and read_feature_templ reads one row.      *)
(*                                                                         *)
(* The variables of FeatureReader are kept by the readers themselves: the  *)
(* modules NativeReader, WKBReader and WKTReader make the calls that their *)
(* data demand, and it is to be shown that these calls follow the protocol *)
(* (FeatureReader!ReaderSpec).                                             *)
(***************************************************************************)
EXTENDS FeatureReader

CONSTANTS
  MaxRows,  (* bound: rows of the array                                     *)
  Offsets   (* bound: the offsets a sliced array may have                   *)

ASSUME LoopAssumption == MaxRows \in Nat /\ Offsets \subseteq Nat

VARIABLES
  array,     (* ArrowArray: [length, offset, nulls], nulls the clear bits   *)
             (* of the validity buffer                                      *)
  filter,    (* the filter of geoarrow_compute(): [kind, values]            *)
  slot,      (* iterations of the loop begun                                *)
  announced  (* the type last passed to new_geometry_type()                 *)

loopVars == <<array, filter, slot, announced>>

NA == -1
Skipped == -2
All == [kind |-> "all", values |-> << >>]

(* The number of iterations, and the row (from 0) the i-th of them reads;  *)
(* NA for the null feature in place of a row. A value of a REAL filter is  *)
(* counted in halves, and truncated when it becomes the row to read.       *)
Iterations == IF filter.kind = "all" THEN array.length ELSE Len(filter.values)

Visit(i) ==
  LET v == filter.values[i]
      n == array.length
  IN CASE filter.kind = "all"     -> i - 1
       [] filter.kind = "logical" -> IF v = NA THEN NA ELSE IF v = 1 THEN i - 1 ELSE Skipped
       [] filter.kind = "integer" -> IF v < 1 \/ v > n THEN NA ELSE v - 1
       [] filter.kind = "real"    -> IF v < 2 \/ v > 2 * n THEN NA ELSE (v - 2) \div 2

Row == Visit(slot)

(* (mutant) The validity buffer is not looked at.                          *)
IsNullNever(row) == FALSE

(* ArrayView::is_null(): the offset of the array is not added.             *)
IsNull(row) == row \in array.nulls

Sliced(n, o) == [length : {n}, offset : {o}, nulls : SUBSET (0 .. o + n - 1)]
Arrays == UNION {Sliced(n, o) : n \in 0 .. MaxRows, o \in Offsets}

LoopInit(filters) ==
  /\ ReaderInit
  /\ array \in Arrays
  /\ filter \in filters
  /\ filter.kind = "logical" => Len(filter.values) = array.length
  /\ slot = 0
  /\ announced = Unknown

(* read_meta() and set_array(). For a whole array array_start() is called  *)
(* next, whose ABORT leaves all rows unread.                               *)
Begin(t, d) ==
  /\ ReadMeta(t, d)
  /\ announced' = t
  /\ UNCHANGED <<array, filter, slot>>

ArrayAborted ==
  /\ slot = 0
  /\ filter.kind = "all"
  /\ ReadDone
  /\ UNCHANGED loopVars

(* (mutant) The loop does not count a row that is skipped.                 *)
NextRowUncounted ==
  /\ phase = "between"
  /\ slot < Iterations
  /\ slot' = IF Visit(slot + 1) = Skipped THEN slot ELSE slot + 1
  /\ phase' = IF Visit(slot + 1) = Skipped THEN "between" ELSE "feature"
  /\ UNCHANGED <<reader, meta, dim, stack, cur, features, array, filter, announced>>

NextRow ==
  /\ phase = "between"
  /\ slot < Iterations
  /\ slot' = slot + 1
  /\ phase' = IF Visit(slot + 1) = Skipped THEN "between" ELSE "feature"
  /\ UNCHANGED <<reader, meta, dim, stack, cur, features, array, filter, announced>>

ReadNull(r) ==
  /\ phase = "feature"
  /\ Row = NA \/ IsNull(Row)
  /\ NullFeat(r)
  /\ UNCHANGED loopVars

EndRow == FeatEnd /\ UNCHANGED loopVars

EndArray ==
  /\ slot = Iterations
  /\ ReadDone
  /\ UNCHANGED loopVars

(* A callback answers otherwise than CONTINUE, in any position: what it was*)
(* called for has happened, and HANDLE_OR_RETURN leaves the reader.        *)
GivesUp(r) == CallUnwinds(r) /\ dim' = dim /\ UNCHANGED loopVars

(***************************************************************************)
(* The calls readers make, answered with CONTINUE.                         *)
(***************************************************************************)
Opened(t) ==
  CASE t \in {"POINT", "LINESTRING"} -> Append(cur, <<0>>)
    [] t = "POLYGON" -> Append(cur, << >>)
    [] OTHER -> cur

(* new_geometry_type() for roots and new_dimensions() for all, called when *)
(* they differ from the last ones. (mutants) For all, and for roots only.  *)
AnnounceTypeOfParts(t) == announced' = t
AnnounceType(t) == announced' = IF stack = << >> THEN t ELSE announced

AnnounceDimOfRoots(d) == dim' = IF stack = << >> THEN d ELSE dim
AnnounceDim(d) == dim' = d

CallGeomStart(t, sz) ==
  /\ phase' = "geometry"
  /\ stack' = Append(IF stack = << >> THEN stack ELSE CountOne(1), Frame(t, sz))
  /\ cur' = Opened(t)
  /\ UNCHANGED <<reader, meta, features>>

CallRingStart(sz) ==
  /\ stack' = Append(CountOne(1), Frame("RING", sz))
  /\ cur' = [cur EXCEPT ![Len(cur)] = Append(@, 0)]
  /\ UNCHANGED <<reader, phase, meta, dim, features>>

CallCoords(n) ==
  /\ stack' = CountOne(n)
  /\ cur' = [cur EXCEPT ![Len(cur)] = LastPlus(@, n)]
  /\ UNCHANGED <<reader, phase, meta, dim, features>>

(* ring_end() or geom_end() for the innermost frame.                       *)
CallEnd ==
  /\ stack' = SubSeq(stack, 1, Len(stack) - 1)
  /\ phase' = IF Len(stack) = 1 THEN "closing" ELSE "geometry"
  /\ UNCHANGED <<reader, meta, dim, cur, features>>

(* A row that is not null is to be read.                                   *)
Reading == phase = "feature" /\ Row # NA /\ ~IsNull(Row)

(* An exception of the reader ends the call.                               *)
Throws ==
  /\ phase' = "failed"
  /\ stack' = << >>
  /\ cur' = << >>
  /\ UNCHANGED <<reader, meta, features>>
==============================================================================
