------------------------------ MODULE WKBridge ------------------------------
(***************************************************************************)
(* The two bridges to wk handlers, one behind the other: an ArrayView read *)
(* by geoarrow_handle_stream or geoarrow_handle_vctr calls a               *)
(* WKGeoArrowHandler, which calls a wk_handler_t with ids and metas        *)
(* (geoarrow-handle-wk.cpp); the one of geoarrow_c_compute_handler_new     *)
(* calls a ComputeBuilder (geoarrow-compute-wk.cpp). This is how a         *)
(* geoarrow_vctr is cast when it is assigned to or converted (R/vctr.R).   *)
(*                                                                         *)
(* The reader is FeatureReader; what the builder answers is chosen freely. *)
(***************************************************************************)
EXTENDS FeatureReader

CONSTANTS
  MaxArrays, (* bound: arrays of a stream                                   *)
  Reserved   (* meta_stack_.reserve(): 32                                   *)

ASSUME BridgeAssumption == MaxArrays \in Nat /\ Reserved \in Nat

VARIABLES
  path,     (* "stream" or "vctr": the driver                               *)
  vector,   (* "before", "open", "closing" or "ended"                       *)
  arrays,   (* arrays of the stream not yet read                            *)
  inArray,  (* an array of the stream, or the vctr, is being read           *)
  aborted,  (* history: a callback answered WK_ABORT                        *)
  featId, partIds, ringId, coordId, ringSize, (* the ids of the bridge      *)
  metas,    (* meta_stack_: [type, size, dim] of the geometries begun       *)
  capacity, (* meta_stack_.capacity()                                       *)
  flags,    (* meta_.flags: the dimensions last announced                   *)
  builder   (* builder_handler_t: [type, dim, coordSize]                    *)

driverVars == <<path, vector, arrays, inArray, aborted>>
geometryVars == <<partIds, ringId, coordId, ringSize, metas, capacity>>
vars == <<readerVars, driverVars, featId, geometryVars, flags, builder>>

Answers == {"CONTINUE", "ABORT", "ABORT_FEATURE", "THROW"}
Width == [UNKNOWN |-> 2, XY |-> 2, XYZ |-> 3, XYM |-> 3, XYZM |-> 4]

(* (mutant) meta_stack_ is not reserved.                                   *)
NewHandlerUnreserved ==
  /\ featId = -1 /\ ringId = -1 /\ coordId = -1 /\ ringSize = 0
  /\ partIds = << >> /\ metas = << >>
  /\ capacity = 0
  /\ flags = "XY"

NewHandler ==
  /\ featId = -1 /\ ringId = -1 /\ coordId = -1 /\ ringSize = 0
  /\ partIds = << >> /\ metas = << >>
  /\ capacity = Reserved
  /\ flags = "XY"

Init ==
  /\ ReaderInit
  /\ path \in {"stream", "vctr"}
  /\ vector = "before"
  /\ arrays = IF path = "stream" THEN MaxArrays ELSE 1
  /\ inArray = FALSE
  /\ aborted = FALSE
  /\ NewHandler
  /\ builder = [type |-> Unknown, dim |-> Unknown, coordSize |-> 2]

(* What a feature held is not kept, only that it was read.                 *)
Read == Feature(<< >>)

(* The builder answers r to a call made at this point, and the reader      *)
(* unwinds; a thrown exception becomes an R error, which leaves everything.*)
Stops(r, f) ==
  /\ r # "CONTINUE"
  /\ Unwind(r, f)
  /\ aborted' = (r = "ABORT")
  /\ UNCHANGED <<reader, meta, path, vector, arrays, inArray>>

(***************************************************************************)
(* The drivers. read_meta() fills the vector meta before vector_start(),   *)
(* which the builder's handler passes on.                                  *)
(***************************************************************************)
NewDimensions(d) == flags' = IF d = Unknown THEN "XY" ELSE d

BuilderVectorStart(t, d) == builder' = [builder EXCEPT !.type = t, !.dim = d]

VectorStart(t, d, r) ==
  /\ vector = "before"
  /\ ReadMeta(t, d)
  /\ NewDimensions(d)
  /\ BuilderVectorStart(t, d)
  /\ vector' = IF r = "CONTINUE" THEN "open" ELSE "closing"
  /\ aborted' = (r = "ABORT")
  /\ UNCHANGED <<path, arrays, inArray, featId, geometryVars>>

(* (mutant) Every array of a stream gets a new handler.                    *)
NextArrayNewHandler ==
  /\ vector = "open"
  /\ phase = "between"
  /\ ~inArray
  /\ arrays > 0
  /\ arrays' = arrays - 1
  /\ inArray' = TRUE
  /\ featId' = -1
  /\ UNCHANGED <<readerVars, path, vector, aborted, geometryVars, flags, builder>>

(* (mutant) The result of read_features() is not looked at.                *)
NextArrayAnyway ==
  /\ vector = "open"
  /\ phase \in {"between", "read"}
  /\ phase = "between" => ~inArray
  /\ arrays > 0
  /\ arrays' = arrays - 1
  /\ inArray' = TRUE
  /\ phase' = "between"
  /\ UNCHANGED <<reader, meta, dim, stack, cur, features>>
  /\ UNCHANGED <<path, vector, aborted, featId, geometryVars, flags, builder>>

(* get_next(), set_array() and array_start(); a vctr has all its arrays.   *)
NextArray ==
  /\ vector = "open"
  /\ phase = "between"
  /\ ~inArray
  /\ arrays > 0
  /\ arrays' = arrays - 1
  /\ inArray' = TRUE
  /\ UNCHANGED <<readerVars, path, vector, aborted, featId, geometryVars, flags, builder>>

StreamFails ==
  /\ path = "stream"
  /\ vector = "open"
  /\ phase = "between"
  /\ ~inArray
  /\ phase' = "failed"
  /\ UNCHANGED <<reader, meta, dim, stack, cur, features>>
  /\ UNCHANGED <<driverVars, featId, geometryVars, flags, builder>>

ArrayRead ==
  /\ inArray
  /\ phase = "between"
  /\ inArray' = FALSE
  /\ UNCHANGED <<readerVars, path, vector, arrays, aborted, featId, geometryVars, flags, builder>>

(* (mutant) vector_end() is not called after WK_ABORT.                     *)
LoopDoneAborted ==
  /\ vector = "open"
  /\ phase = "between" /\ ~inArray /\ arrays = 0
  /\ vector' = "closing"
  /\ UNCHANGED <<readerVars, path, arrays, inArray, aborted, featId, geometryVars, flags, builder>>

LoopDone ==
  /\ vector = "open"
  /\ \/ phase = "between" /\ ~inArray /\ arrays = 0
     \/ phase = "read"
  /\ vector' = "closing"
  /\ UNCHANGED <<readerVars, path, arrays, inArray, aborted, featId, geometryVars, flags, builder>>

(* vector_end(), where the builder is released.                            *)
VectorEnd ==
  /\ vector = "closing"
  /\ vector' = "ended"
  /\ UNCHANGED <<readerVars, path, arrays, inArray, aborted, featId, geometryVars, flags, builder>>

(***************************************************************************)
(* The callbacks, each answered r.                                         *)
(***************************************************************************)
(* (mutant) The stacks are left as the feature before left them.           *)
CallFeatStartUncleared(r) ==
  /\ inArray
  /\ phase = "between"
  /\ Len(features) < MaxFeatures
  /\ featId' = featId + 1
  /\ UNCHANGED <<partIds, metas>>
  /\ \/ r = "CONTINUE" /\ FeatStart /\ UNCHANGED driverVars
     \/ Stops(r, NullFeature) /\ UNCHANGED dim
  /\ UNCHANGED <<ringId, coordId, ringSize, capacity, flags, builder>>

CallFeatStart(r) ==
  /\ inArray
  /\ phase = "between"
  /\ Len(features) < MaxFeatures
  /\ featId' = featId + 1
  /\ partIds' = << >>
  /\ metas' = << >>
  /\ \/ r = "CONTINUE" /\ FeatStart /\ UNCHANGED driverVars
     \/ Stops(r, NullFeature) /\ UNCHANGED dim
  /\ UNCHANGED <<ringId, coordId, ringSize, capacity, flags, builder>>

(* Also what the driver of a vctr calls for an index that is missing or out*)
(* of range.                                                               *)
CallNullFeat(r) ==
  /\ phase = "feature"
  /\ \/ r = "CONTINUE" /\ NullFeat(r) /\ UNCHANGED driverVars
     \/ Stops(r, NullFeature) /\ UNCHANGED dim
  /\ UNCHANGED <<featId, geometryVars, flags, builder>>

(* (mutant) The coordinate size is set where the dimensions change.        *)
GeometryStartOnChange(m) ==
  builder' = [type |-> m.type, dim |-> m.dim,
              coordSize |-> IF m.dim = builder.dim THEN builder.coordSize ELSE Width[m.dim]]

(* geometry_start() of the builder: types and dimensions are announced     *)
(* when they differ from those of the geometry before.                     *)
GeometryStart(m) ==
  builder' = [type |-> m.type, dim |-> m.dim, coordSize |-> Width[m.dim]]

PushPart ==
  IF partIds = << >> THEN <<-1>>
  ELSE Append([partIds EXCEPT ![Len(partIds)] = @ + 1], -1)

CallGeomStart(t, sz, d, r) ==
  /\ GeomStart(t, sz, d, r)
  /\ IF d = dim THEN UNCHANGED flags ELSE NewDimensions(d)
  /\ ringId' = -1
  /\ coordId' = -1
  /\ partIds' = PushPart
  /\ metas' = Append(metas, [type |-> t, size |-> sz, dim |-> flags'])
  /\ capacity' = IF Len(metas) = capacity THEN 2 * capacity + 1 ELSE capacity
  /\ GeometryStart(metas'[Len(metas')])
  /\ aborted' = (r = "ABORT")
  /\ UNCHANGED <<path, vector, arrays, inArray, featId, ringSize>>

CallRingStart(sz, r) ==
  /\ phase = "geometry"
  /\ Top.type = "POLYGON"
  /\ MayGoOn(Top)
  /\ sz \in RingSizes
  /\ ringId' = ringId + 1
  /\ coordId' = -1
  /\ ringSize' = sz
  /\ \/ r = "CONTINUE" /\ RingStart(sz) /\ UNCHANGED driverVars
     \/ Stops(r, Read) /\ UNCHANGED dim
  /\ UNCHANGED <<featId, partIds, metas, capacity, flags, builder>>

(* One coord() for each coordinate, up to the k-th, whose answer is r.     *)
CallCoords(n, k, r) ==
  /\ phase = "geometry"
  /\ Top.type \in {"POINT", "LINESTRING", "RING"}
  /\ MayGoOn(Top)
  /\ n = IF reader = "native" THEN Top.size ELSE 1
  /\ coordId' = coordId + k
  /\ \/ r = "CONTINUE" /\ k = n /\ Coords(n) /\ UNCHANGED driverVars
     \/ k \in 1 .. n /\ Stops(r, Read) /\ UNCHANGED dim
  /\ UNCHANGED <<featId, partIds, ringId, ringSize, metas, capacity, flags, builder>>

CallRingEnd(r) ==
  /\ phase = "geometry"
  /\ Top.type = "RING"
  /\ MayEnd(Top)
  /\ \/ r = "CONTINUE" /\ RingEnd /\ UNCHANGED driverVars
     \/ Stops(r, Read) /\ UNCHANGED dim
  /\ UNCHANGED <<featId, geometryVars, flags, builder>>

Front(s) == SubSeq(s, 1, Len(s) - 1)

CallGeomEnd(r) ==
  /\ phase = "geometry"
  /\ Top.type # "RING"
  /\ MayEnd(Top)
  /\ partIds' = Front(partIds)
  /\ metas' = Front(metas)
  /\ \/ r = "CONTINUE" /\ GeomEnd /\ UNCHANGED driverVars
     \/ Stops(r, Read) /\ UNCHANGED dim
  /\ UNCHANGED <<featId, ringId, coordId, ringSize, capacity, flags, builder>>

CallFeatEnd(r) ==
  /\ phase = "closing"
  /\ UNCHANGED dim
  /\ \/ r = "CONTINUE" /\ EndFeature(Read) /\ UNCHANGED <<reader, meta, driverVars>>
     \/ Stops(r, Read)
  /\ UNCHANGED <<featId, geometryVars, flags, builder>>

(* The reader finds an element that it cannot parse.                       *)
ReaderThrows ==
  /\ reader # "native"
  /\ phase \in {"feature", "geometry"}
  /\ Unwind("THROW", Feature(cur))
  /\ UNCHANGED <<reader, meta, dim, driverVars, featId, geometryVars, flags, builder>>

Drive ==
  \/ \E t \in RootTypes \cup {Unknown}, d \in Dims \cup {Unknown}, r \in {"CONTINUE", "ABORT"} :
       VectorStart(t, d, r)
  \/ NextArray \/ StreamFails \/ ArrayRead \/ LoopDone \/ VectorEnd

Next ==
  \/ Drive
  \/ ReaderThrows
  \/ \E r \in Answers :
       \/ CallFeatStart(r) \/ CallNullFeat(r)
       \/ \E t \in GeometryTypes \cup {Unrecognized}, sz \in -1 .. MaxParts, d \in Dims :
            CallGeomStart(t, sz, d, r)
       \/ \E sz \in -1 .. MaxParts : CallRingStart(sz, r)
       \/ \E n \in 0 .. MaxParts, k \in 0 .. MaxParts : CallCoords(n, k, r)
       \/ CallRingEnd(r) \/ CallGeomEnd(r) \/ CallFeatEnd(r)

(* One thread runs the drivers, the reader and the handlers.               *)
Spec == Init /\ [][Next]_vars /\ WF_vars(Next)

(* The geometries open in the reader, without the ring (only innermost).   *)
Open == IF stack # << >> /\ Top.type = "RING" THEN Front(stack) ELSE stack

(* A wk handler is told the position of everything it gets: part ids count *)
(* the parts of the parent, ring and coordinate ids start again with every *)
(* geometry and ring, and the meta passed to the end of a geometry, or     *)
(* with its rings and coordinates, is that of its start, however deep the  *)
(* geometries between were nested and wherever the features before were    *)
(* given up (geoarrow-handle-wk.cpp:79-170). Feature ids go on, past those *)
(* given up and over the arrays of a stream.                               *)
IdsExact ==
  /\ phase \in {"read", "failed"} \/
       featId = Len(features)
                - (IF phase \in {"between", "start"} \/ vector = "ended" THEN 1 ELSE 0)
  /\ phase = "geometry" =>
    /\ Len(metas) = Len(Open) /\ Len(partIds) = Len(Open)
    /\ \A i \in 1 .. Len(Open) : <<metas[i].type, metas[i].size>> = <<Open[i].type, Open[i].size>>
    /\ \A i \in 1 .. Len(Open) :
         Open[i].type \in MultiTypes \cup {"GEOMETRYCOLLECTION"} => partIds[i] = Open[i].count - 1
    /\ Top.type = "RING" => ringSize = Top.size
    /\ metas[Len(metas)].type = "POLYGON" => ringId = Open[Len(Open)].count - 1
    /\ Top.type \in {"POINT", "LINESTRING", "RING"} => coordId = Top.count - 1

(* The coordinates the builder takes out of the pointer it gets are those  *)
(* the reader put there, and their dimensions were announced to it, through*)
(* flags that the bridge keeps for all levels at once and a handler that   *)
(* drops announcements without change (geoarrow-handle-wk.cpp:46-77,       *)
(* geoarrow-compute-wk.cpp:124-147).                                       *)
BuilderInStep ==
  /\ phase = "geometry"
  /\ Top.type \in {"POINT", "LINESTRING", "RING"}
  => builder.dim = dim /\ builder.coordSize = Width[dim]

(* meta_stack_ is never reallocated while geometries nest no deeper than   *)
(* was reserved, as handlers keep the pointers (geoarrow-handle-wk.cpp:30).*)
PointersKept ==
  [][MaxDepth <= Reserved /\ metas # << >> => capacity' = capacity]_vars

(* After WK_ABORT nothing is called any more but vector_end(): the drivers *)
(* take it out of two loops (geoarrow-handle-wk.cpp:214-239, 290-313).     *)
StopsAfterAbort ==
  [][aborted => UNCHANGED <<readerVars, arrays, inArray, featId, geometryVars, builder>>]_vars

(* A call ends with vector_end(), after WK_ABORT too, or with an error.    *)
EndsOrFails == <>(vector = "ended" \/ phase = "failed")
==============================================================================
