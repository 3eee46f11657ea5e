------------------------------ MODULE Aggregates ------------------------------
(***************************************************************************)
(* The two operations of geoarrow_compute() that reduce an array to one    *)
(* value: create_builder() makes a GlobalBounder or a                      *)
(* GeoParquetTypeCollector, which a reader then calls. The states of the   *)
(* two handlers are side by side; the one that was not made stays as new.  *)
(***************************************************************************)
EXTENDS FeatureReader, OrdinateOrder

CONSTANTS
  NullIsEmptyOptions, IncludeEmptyOptions, (* what the operations are given *)
  BoundsReaders, BoundsRoots, BoundsDims (* Readers, RootTypes and Dims of  *)
                                         (* arrays that bounds are taken of *)

VARIABLES
  op,  (* the operation create_builder() was asked for                      *)
  nullIsEmpty, xyzm, xym, active, rowReleased, seen, sawNull,
  includeEmpty, lastDim, allTypes, emptyTypes, released, result, roots

bounderVars == <<nullIsEmpty, xyzm, xym, active, rowReleased, seen, sawNull>>
collectorVars == <<includeEmpty, lastDim, allTypes, emptyTypes, released, result, roots>>
vars == <<readerVars, op, bounderVars, collectorVars>>

Bounder ==
  INSTANCE GlobalBounder WITH
    released <- rowReleased, Readers <- BoundsReaders, RootTypes <- BoundsRoots,
    Dims <- BoundsDims

Collector == INSTANCE GeoParquetTypes

(* create_builder().                                                       *)
Init ==
  \/ op = "global_bounds" /\ Bounder!Init /\ Collector!NewCollector(TRUE)
  \/ op = "geoparquet_types" /\ Collector!Init /\ Bounder!NewGlobalBounder(FALSE)

ComputeBounds ==
  op = "global_bounds" /\ Bounder!Next /\ UNCHANGED <<op, collectorVars>>

ComputeTypes ==
  op = "geoparquet_types" /\ Collector!Next /\ UNCHANGED <<op, bounderVars>>

Next == ComputeBounds \/ ComputeTypes

Spec == Init /\ [][Next]_vars

(***************************************************************************)
(* Properties, of each operation those of its module                       *)
(***************************************************************************)

(* The row of global_bounds is the bounding box of all coordinates read,   *)
(* by kind of ordinate, however dimensions alternate (release() of         *)
(* GlobalBounder).                                                         *)
ReleasedIsBox == op = "global_bounds" => Bounder!ReleasedIsBox

(* The row of global_bounds is NaN throughout exactly if a null feature    *)
(* was read and nulls do not count as empty (null_feat()).                 *)
RowNullIffNull == op = "global_bounds" => Bounder!RowNullIffNull

(* The types of geoparquet_types are those of the features' own dimensions *)
(* (release() of GeoParquetTypeCollector).                                 *)
ReleasedTypesExact == op = "geoparquet_types" => Collector!ReleasedTypesExact
==============================================================================
