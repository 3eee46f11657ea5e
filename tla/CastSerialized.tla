----------------------------- MODULE CastSerialized -----------------------------
(***************************************************************************)
(* geoarrow_compute(op = "cast") to a serialized encoding: create_builder()*)
(* makes a WKBArrayBuilder or a WKTArrayBuilder as the schema asked for    *)
(* says.                                                                   *)
(***************************************************************************)
EXTENDS SerializedBuilder

VARIABLES
  format,  (* the extension type cast to                                    *)
  firstRing, firstCoord, readable  \* of CastWKT

wktVars == <<firstRing, firstCoord, readable>>
vars == <<readerVars, format, b, open, dims, released, calls, elements, ends, wktVars>>

WKB == INSTANCE CastWKB
WKT == INSTANCE CastWKT

(* create_builder().                                                       *)
Init ==
  \/ format = "wkb" /\ WKB!Init /\ firstRing = TRUE /\ firstCoord = TRUE /\ readable = TRUE
  \/ format = "wkt" /\ WKT!Init

CastToWKB == format = "wkb" /\ WKB!Next /\ UNCHANGED <<format, wktVars>>
CastToWKT == format = "wkt" /\ WKT!Next /\ UNCHANGED format

Next == CastToWKB \/ CastToWKT

Spec == Init /\ [][Next]_vars

(***************************************************************************)
(* Properties, of each format those of its modules, with OffsetsExact and  *)
(* OneElementPerFeature of SerializedBuilder                               *)
(***************************************************************************)
TypeOK == IF format = "wkb" THEN WKB!TypeOK ELSE WKT!TypeOK

(* stack_ holds what the reader has open: in WKB with the counts that wait *)
(* to be written, in WKT with the parts that decide on commas and tags.    *)
StacksAgree == IF format = "wkb" THEN WKB!StacksAgree ELSE WKT!StacksAgree
==============================================================================
