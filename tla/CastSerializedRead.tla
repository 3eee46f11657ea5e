--------------------------- MODULE CastSerializedRead ---------------------------
(***************************************************************************)
(* Casting to a serialized encoding and reading back with the package's    *)
(* own reader of the format.                                               *)
(***************************************************************************)
EXTENDS CastSerialized

WKBRead == INSTANCE CastWKBRead
WKTRead == INSTANCE CastWKTRead

(* The package's own reader of the format reads each element as the calls  *)
(* it was written from.                                                    *)
ElementsReadBack ==
  IF format = "wkb" THEN WKBRead!ElementsReadBack ELSE WKTRead!ElementsReadBack
==============================================================================
