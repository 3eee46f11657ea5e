---------------------------- MODULE ArrayReaders ----------------------------
(***************************************************************************)
(* All readers of the library behind one loop: an array in a native        *)
(* encoding, in WKB or in WKT is read row by row, and the calls made are   *)
(* compared with the protocol every Handler is written against.            *)
(***************************************************************************)
EXTENDS NativeReader, WKBReader, WKTReader, CastSchemas

CONSTANTS
  PlainTypes, (* bound: the native encodings explored with data               *)
  ListOffsets, (* bound: the offset buffers of list arrays                  *)
  Filters,  (* bound: the filters of geoarrow_compute() explored            *)
  AnyFrom,  (* bound: the schemas explored with an empty array              *)
  AnyTo     (* bound: the schemas an empty array is cast to                 *)

(* The bounds fit together: the arrays, filters, elements of WKB and texts *)
(* explored hold no more features, parts and levels of nesting than the    *)
(* protocol does. List offsets are those of valid arrays, and schemas have *)
(* the children they claim.                                                *)
ASSUME FilterAssumption ==
  \A f \in Filters :
    /\ f.kind \in {"all", "logical", "integer", "real"}
    /\ f.values \in Seq(Int) /\ Len(f.values) <= MaxFeatures

ASSUME ListAssumption ==
  \A o \in ListOffsets :
    /\ o \in Seq(Nat) /\ Len(o) > 0
    /\ \A j \in 1 .. Len(o) : \A i \in 1 .. j :
         /\ o[i] <= o[j]
         /\ i = j - 1 => o[j] - o[i] <= MaxParts

ASSUME BoundsAssumption ==
  /\ NestedEmpty /\ ~WellTyped
  /\ MaxRows <= MaxFeatures
  /\ MaxDepth > 1 /\ MaxFields < 3 * MaxDepth
  /\ MaxTokens + 1 < 2 * MaxDepth /\ MaxTokens <= 2 * MaxParts

ASSUME SchemasAssumption ==
  /\ PlainTypes \subseteq SimpleTypes \cup MultiTypes
  /\ \A s \in AnyFrom \cup AnyTo : IsSchema(s)

vars == <<readerVars, loopVars, nativeVars, wkbVars, wktVars, schemaVars>>

(* Filters are explored with native arrays, as the loop is the same for    *)
(* all, and schemas with empty arrays: a source of any shape cast to WKT,  *)
(* and a source of the format cast to anything.                            *)
PlainTo == Written("WKT", "XY", FALSE)
Empty == [length |-> 0, offset |-> 0, nulls |-> {}]
DescribedFrom ==
  {Written("LINESTRING", d, FALSE) : d \in Dims} \cup {Written("WKB", "XY", FALSE)}
PlainFrom ==
  {Written(t, "XY", FALSE) : t \in PlainTypes} \cup {Written("WKB", "XY", FALSE), PlainTo}

SchemasInit ==
  \/ SchemaInit(PlainFrom, {PlainTo}) /\ strict = FALSE
  \/ array = Empty /\ (SchemaInit(AnyFrom, {PlainTo}) \/ SchemaInit(DescribedFrom, AnyTo))

Init ==
  /\ LoopInit(Filters)
  /\ reader # "native" => filter = All /\ array.offset = 0 /\ array.length < 2
  /\ array = Empty => filter = All
  /\ SchemasInit
  /\ reader = IF ReaderOf(from) = "none" THEN "wkb" ELSE ReaderOf(from)
  /\ NativeInit
  /\ WKBInit
  /\ WKTInit

Iterate ==
  \/ reader # "wkt" /\ NextRow /\ UNCHANGED <<nativeVars, wkbVars, wktVars>>
  \/ /\ \E r \in Results : ReadNull(r)
     /\ UNCHANGED <<nativeVars, wkbVars, wktVars>>
  \/ EndArray /\ UNCHANGED <<nativeVars, wkbVars, wktVars>>

(* A native view announces what its schema says; an empty array has lists  *)
(* with the single offset 0.                                               *)
ReadDescribed ==
  NativeBegin(source.type, source.dim,
    IF array = Empty THEN {[offset |-> 0, offsets |-> <<0>>]}
    ELSE [offset : Offsets, offsets : ListOffsets])

Read ==
  \/ Iterate
  \/ (ReadDescribed \/ NativeNext) /\ UNCHANGED <<wkbVars, wktVars>>
  \/ WKBNext /\ UNCHANGED <<nativeVars, wktVars>>
  \/ WKTNext /\ UNCHANGED <<nativeVars, wkbVars>>

Progress ==
  \/ view = "open" /\ Read /\ UNCHANGED schemaVars
  \/ /\ phase = "read"
     /\ Finish(dim)
     /\ UNCHANGED <<readerVars, loopVars, nativeVars, wkbVars, wktVars>>

Stopped ==
  /\ ArrayAborted
  /\ UNCHANGED <<nativeVars, wkbVars, wktVars, schemaVars>>

Next == Progress \/ Stopped

(* The loop runs in one thread, which goes on until it is through; what it *)
(* waits for is only itself.                                               *)
Spec == Init /\ [][Next]_vars /\ WF_vars(Progress)

(***************************************************************************)
(* The three readers make the calls of the protocol the handlers' models   *)
(* (CastArray, GlobalBounder, CastSerialized) are driven by: geometries    *)
(* nested as their types allow (in WKB within any multi-geometry or        *)
(* collection, as the reader looks at no type before it calls              *)
(* geom_start()), known sizes kept, rings and coordinates only where they  *)
(* belong, dimensions announced before the geometry they hold for          *)
(* (wkb-reader.hpp:77-202, wkt-reader.hpp:500-718,                         *)
(* array-view-geoarrow.hpp:30-169).                                        *)
(***************************************************************************)
Protocol == ReaderSpec

(* What headers said holds for what follows them, although a reader keeps  *)
(* it in members that every part overwrites and nothing is announced again *)
(* when a part ends. A feature is open only after its own type was         *)
(* announced; the coordinates passed next have as many ordinates as the    *)
(* dimensions announced last; rings and coordinates are decoded in the     *)
(* byte order of their geometry (wkb-reader.hpp:134-142, 204-206,          *)
(* wkt-reader.hpp:505-527).                                                *)
HeadersInForce ==
  /\ Len(heads) = IF reader = "wkb" THEN Len(stack) ELSE 0
  /\ stack # << >> => announced = stack[1].type
  /\ phase = "geometry" /\ Top.type \in {"POINT", "LINESTRING", "RING"} =>
       CASE reader = "wkb" -> heads[Len(heads)].dim = dim
         [] reader = "wkt" -> Top.size # 0 => coordDim = dim
         [] OTHER -> meta.dim = dim
  /\ reader = "wkb" /\ phase = "geometry"
     /\ Top.type \notin MultiTypes \cup {"GEOMETRYCOLLECTION"} =>
       swapping = heads[Len(heads)].swap

(* One feature is passed on for each iteration that is not skipped, also   *)
(* when it was given up; null ones stand for NA or out of range entries of *)
(* the filter and for null rows only, and never for a valid row that the   *)
(* filter selects (geoarrow-compute.cpp:56-108, array-view-base.hpp:47).   *)
(* Holds for an array with offset 0: is_null() does not add the offset.    *)
Selected == {i \in 1 .. slot : Visit(i) # Skipped}

RowsExact ==
  LET nth(k) == CHOOSE i \in Selected : Cardinality({j \in Selected : j <= i}) = k
      null(k) == LET v == Visit(nth(k))
                 IN v = NA \/ v + array.offset \in array.nulls
  IN /\ phase = "between" => Len(features) = Cardinality(Selected)
     /\ array.offset = 0 =>
          \A k \in DOMAIN features :
            /\ features[k].null => null(k)
            /\ features[k].parts # << >> => ~null(k)

(* What a cast returns is what was asked for, see OutputReadable.          *)
CastReadable == OutputReadable(dim)

(* Any call ends, with an array or an error, whatever the data and the     *)
(* answers of the handler: no loop of a parser can turn without consuming  *)
(* input (wkt-reader.hpp:268-285, 592-718: the loops run while ',' is      *)
(* read).                                                                  *)
ReadingEnds == <>(out # NoSchema \/ phase = "failed" \/ view \in {"rejected", "unnamed"})
==============================================================================
