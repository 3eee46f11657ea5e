---------------------------- MODULE GeoParquetTypes ----------------------------
(***************************************************************************)
(* geoarrow_compute(op = "geoparquet_types"): GeoParquetTypeCollector      *)
(* collects the geometry types (with dimensions) of the features of an     *)
(* array for the GeoParquet metadata. It answers ABORT_FEATURE to the      *)
(* first geom_start() of a feature, so that only root geometries count,    *)
(* and relies on the reader to announce every change of dimensions.        *)
(***************************************************************************)
EXTENDS FeatureReader

CONSTANT IncludeEmptyOptions  (* values of the "include_empty" option       *)

VARIABLES
  includeEmpty, (* include_empty_                                           *)
  lastDim,    (* dim_                                                       *)
  allTypes,   (* all_types_: pairs <<type, dimensions>>                     *)
  emptyTypes, (* empty_types_                                               *)
  released,   (* "no", "yes" or "threw"                                     *)
  result,     (* the types release() wrote                                  *)
  roots       (* history: the root geometries of the features read          *)

vars == <<readerVars, includeEmpty, lastDim, allTypes, emptyTypes, released, result, roots>>

NewCollector(option) ==
  /\ includeEmpty = option
  /\ lastDim = Unknown
  /\ allTypes = {}
  /\ emptyTypes = {}
  /\ released = "no"
  /\ result = {}
  /\ roots = {}

Init == ReaderInit /\ \E option \in IncludeEmptyOptions : NewCollector(option)

NewDimensions(d) == lastDim' = d

CallReadMeta ==
  \E t \in GeometryTypes \cup {Unknown}, d \in Dims \cup {Unknown} :
    /\ ReadMeta(t, d)
    /\ NewDimensions(d)
    /\ UNCHANGED <<includeEmpty, allTypes, emptyTypes, released, result, roots>>

CallGeomStart ==
  \E t \in GeometryTypes \cup {Unrecognized}, sz \in -1 .. MaxParts, d \in Dims :
    /\ GeomStart(t, sz, d, "ABORT_FEATURE")
    /\ IF d = dim THEN UNCHANGED lastDim ELSE NewDimensions(d)
    /\ IF ~includeEmpty /\ sz = 0
       THEN emptyTypes' = emptyTypes \cup {<<t, lastDim'>>} /\ UNCHANGED allTypes
       ELSE allTypes' = allTypes \cup {<<t, lastDim'>>} /\ UNCHANGED emptyTypes
    /\ roots' = roots \cup {[type |-> t, dim |-> d, empty |-> sz = 0]}
    /\ UNCHANGED <<includeEmpty, released, result>>

(* null_feat() is Handler's: CONTINUE, and feat_end() follows.             *)
CallOther ==
  /\ FeatStart \/ NullFeat("CONTINUE") \/ FeatEnd \/ ReadDone
  /\ UNCHANGED <<includeEmpty, lastDim, allTypes, emptyTypes, released, result, roots>>

(* make_type() has no name for types it does not know, and throws for such *)
(* dimensions.                                                             *)
MakeType(item) == IF item[1] = Unrecognized THEN <<"", "">> ELSE item

(* (mutant) The empty types are always added.                              *)
ReleaseUnion ==
  /\ phase = "read" /\ released = "no"
  /\ released' = "yes"
  /\ result' = {MakeType(item) : item \in allTypes \cup emptyTypes}
  /\ UNCHANGED <<readerVars, includeEmpty, lastDim, allTypes, emptyTypes, roots>>

Release ==
  /\ phase = "read" /\ released = "no"
  /\ LET types == IF allTypes = {} THEN emptyTypes ELSE allTypes
     IN  IF \E item \in types : item[1] # Unrecognized /\ item[2] \notin AllDims
         THEN released' = "threw" /\ UNCHANGED result
         ELSE released' = "yes" /\ result' = {MakeType(item) : item \in types}
  /\ UNCHANGED <<readerVars, includeEmpty, lastDim, allTypes, emptyTypes, roots>>

Next == CallReadMeta \/ CallGeomStart \/ CallOther \/ Release

Spec == Init /\ [][Next]_vars

(***************************************************************************)
(* Properties                                                              *)
(***************************************************************************)

(* The released types are those of the features' own dimensions, however   *)
(* they alternate: with include_empty all of them, otherwise those of the  *)
(* non-empty features, or of the empty ones if there is nothing else. WKB  *)
(* of a type that is not recognized is given up before the reader throws,  *)
(* and counts as a type without a name.                                    *)
Pairs(set) == {<<g.type, g.dim>> : g \in set}
TypesOf(set) == {MakeType(item) : item \in Pairs(set)}
NonEmpty == {g \in roots : ~g.empty}

ReleasedTypesExact ==
  released # "no" =>
    /\ released = "yes"
    /\ result = TypesOf(IF includeEmpty \/ NonEmpty = {} THEN roots ELSE NonEmpty)
==============================================================================
