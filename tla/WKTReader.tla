------------------------------ MODULE WKTReader ------------------------------
(***************************************************************************)
(* WKTReader (wkt-reader.hpp) over the text of one element at a time. The  *)
(* text is a sequence of tokens between separators; `ahead` is the one     *)
(* peekChar() and peekUntilSep() see, and what follows it is chosen when   *)
(* it is consumed, so that every text of at most MaxTokens tokens is read. *)
(* The words of a header (SRID=..., the type, Z, M) are one token, and so  *)
(* are the ordinates of a coordinate.                                      *)
(***************************************************************************)
EXTENDS ArrayReader

CONSTANT MaxTokens  (* bound: tokens of an element                          *)
ASSUME TokensAssumption == MaxTokens \in Nat

Tokens == {"header", "EMPTY", "word", "number", "(", ")", ",", "end"}
Letters == {"header", "EMPTY", "word"}

VARIABLES
  ahead,     (* the token at the cursor; "end" when finished()              *)
  fuel,      (* tokens that may still follow                                *)
  expect,    (* where the parser is in the rule of the innermost frame      *)
  flat,      (* MULTIPOINT in the notation (0 0, 1 1)                       *)
  coordDim   (* the dimensions coord_size_ was set for                      *)

wktVars == <<ahead, fuel, expect, flat, coordDim>>

WKTInit ==
  /\ ahead = "end"
  /\ fuel = 0
  /\ expect = "header"
  /\ flat = FALSE
  /\ coordDim = "XY"

Follows == IF fuel = 0 THEN {"end"} ELSE Tokens
Consume ==
  /\ ahead' \in Follows
  /\ fuel' = IF fuel = 0 THEN 0 ELSE fuel - 1
Keep == UNCHANGED <<ahead, fuel>>

(* The text is left; its locals are gone.                                  *)
WKTReset ==
  /\ ahead' = "end" /\ fuel' = 0 /\ expect' = "header" /\ flat' = FALSE
  /\ UNCHANGED coordDim

(* ParserException, rethrown as IOException.                               *)
WKTThrows ==
  /\ Throws
  /\ WKTReset
  /\ UNCHANGED dim
  /\ UNCHANGED loopVars

(* read_buffer(): the text of the next row.                                *)
SetBuffer ==
  /\ phase = "between"
  /\ NextRow
  /\ fuel' = MaxTokens
  /\ ahead' \in Tokens
  /\ expect' = "header"
  /\ UNCHANGED <<flat, coordDim>>

(***************************************************************************)
(* readGeometryWithType(): assertGeometryMeta() and the announcements. The *)
(* size is unknown (-1) unless the word EMPTY follows.                     *)
(***************************************************************************)
SizeAhead == IF ahead' = "EMPTY" THEN 0 ELSE -1

WKTHeader(t, d) ==
  /\ \/ Reading /\ t \in RootTypes
     \/ phase = "geometry" /\ Top.type = "GEOMETRYCOLLECTION" /\ t \in MemberTypes
  /\ expect = "header"
  /\ ahead = "header"
  /\ Consume
  /\ AnnounceType(t)
  /\ AnnounceDim(d)
  /\ coordDim' = d
  /\ CallGeomStart(t, SizeAhead)
  /\ expect' = "open"
  /\ UNCHANGED <<array, filter, slot, flat>>

NoHeader ==
  /\ Reading \/ phase = "geometry"
  /\ expect = "header"
  /\ ahead # "header"
  /\ WKTThrows

(***************************************************************************)
(* assertEMPTYOrOpen(), with which every rule begins; after '(' comes the  *)
(* first item. isNumber() decides on the notation of a MULTIPOINT, whose   *)
(* points have no parenthesis of their own when it is flat.                *)
(***************************************************************************)
Items(t) == IF t = "GEOMETRYCOLLECTION" THEN "header" ELSE "item"

EmptyOrOpen ==
  /\ phase = "geometry"
  /\ expect = "open"
  /\ IF ahead \notin {"EMPTY", "("} THEN WKTThrows
     ELSE /\ Consume
          /\ expect' = IF ahead = "EMPTY" THEN "done" ELSE Items(Top.type)
          /\ flat' = IF ahead = "(" /\ Top.type = "MULTIPOINT"
                     THEN ahead' = "number" ELSE flat
          /\ UNCHANGED <<readerVars, coordDim>>
          /\ UNCHANGED loopVars

Flat == flat /\ Len(stack) > 1 /\ stack[Len(stack) - 1].type = "MULTIPOINT"

(* readCoordinate() and coords(); a POINT ends with ')' of its own unless  *)
(* the notation is flat.                                                   *)
Coordinate ==
  /\ phase = "geometry"
  /\ expect = "item"
  /\ Top.type \in {"POINT", "LINESTRING", "RING"}
  /\ IF ahead # "number" THEN WKTThrows
     ELSE /\ Consume
          /\ CallCoords(1)
          /\ expect' = IF Top.type # "POINT" THEN "separator"
                       ELSE IF Flat THEN "done" ELSE "close"
          /\ UNCHANGED <<flat, coordDim>>
          /\ UNCHANGED loopVars

TooFewOrdinates ==
  /\ phase = "geometry"
  /\ expect = "item"
  /\ ahead = "number"
  /\ Top.type \in {"POINT", "LINESTRING", "RING"}
  /\ WKTThrows

ClosePoint ==
  /\ phase = "geometry"
  /\ expect = "close"
  /\ IF ahead # ")" THEN WKTThrows
     ELSE /\ Consume
          /\ expect' = "done"
          /\ UNCHANGED <<readerVars, flat, coordDim>>
          /\ UNCHANGED loopVars

(* The parts of a multi-geometry: isEMPTY() is asked before geom_start();  *)
(* in the flat notation it is consumed here, and the point is done.        *)
PartType == CHOOSE t \in PartTypes(Top.type) : TRUE

(* (mutant) A point in a MULTIPOINT has no known size.                     *)
PartSizeUnknown == IF ahead = "EMPTY" THEN 0 ELSE -1
PartSize == IF ahead = "EMPTY" THEN 0 ELSE IF PartType = "POINT" THEN 1 ELSE -1

Part ==
  LET size == PartSize IN
  /\ phase = "geometry"
  /\ expect = "item"
  /\ Top.type \in MultiTypes
  /\ CallGeomStart(PartType, size)
  /\ IF flat /\ Top.type = "MULTIPOINT" /\ size = 0
     THEN Consume /\ expect' = "done"
     ELSE Keep /\ expect' = IF flat /\ Top.type = "MULTIPOINT" THEN "item" ELSE "open"
  /\ UNCHANGED <<dim, flat, coordDim>>
  /\ UNCHANGED loopVars

Ring ==
  /\ phase = "geometry"
  /\ expect = "item"
  /\ Top.type = "POLYGON"
  /\ CallRingStart(-1)
  /\ expect' = "open"
  /\ Keep
  /\ UNCHANGED <<flat, coordDim>>
  /\ UNCHANGED loopVars

(* assertOneOf(",)") after an item.                                        *)
Separator ==
  /\ phase = "geometry"
  /\ expect = "separator"
  /\ IF ahead \notin {",", ")"} THEN WKTThrows
     ELSE /\ Consume
          /\ expect' = IF ahead = ")" THEN "done" ELSE Items(Top.type)
          /\ UNCHANGED <<readerVars, flat, coordDim>>
          /\ UNCHANGED loopVars

(* geom_end() or ring_end(); after that of the root, assertFinished().     *)
Done ==
  /\ phase = "geometry"
  /\ expect = "done"
  /\ IF Len(stack) = 1 /\ ahead # "end" THEN WKTThrows
     ELSE /\ CallEnd
          /\ expect' = "separator"
          /\ Keep
          /\ UNCHANGED <<flat, coordDim>>
          /\ UNCHANGED loopVars

WKTBegin == Begin(Unknown, Unknown) /\ UNCHANGED wktVars

WKTNext ==
  /\ reader = "wkt"
  /\ \/ WKTBegin
     \/ SetBuffer
     \/ \E t \in RootTypes \cup MemberTypes, d \in Dims : WKTHeader(t, d)
     \/ NoHeader
     \/ EmptyOrOpen
     \/ Coordinate \/ TooFewOrdinates \/ ClosePoint
     \/ Part \/ Ring \/ Separator \/ Done
     \/ EndRow /\ WKTReset
     \/ \E r \in Results : GivesUp(r) /\ WKTReset
==============================================================================
