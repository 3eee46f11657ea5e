------------------------------ MODULE CastWKTRead ------------------------------
(***************************************************************************)
(* Casting to WKT and reading back: what WKTReader makes of the tokens of  *)
(* each element WKTArrayBuilder wrote.                                     *)
(***************************************************************************)
EXTENDS CastWKT

(* A reading: the calls made, and the position behind what was read, 0     *)
(* when the reader would throw.                                            *)
Failed == [calls |-> << >>, next |-> 0]
Reading(c, next) == [calls |-> c, next |-> next]
Is(tokens, pos, token) == pos \in 1 .. Len(tokens) /\ tokens[pos] = token
Enclosed(before, r, after) ==
  IF r.next = 0 THEN Failed ELSE Reading(before \o r.calls \o after, r.next)

(* readCoordinate()                                                        *)
ReadCoordinate(tokens, pos, d) ==
  IF Is(tokens, pos, Coordinate(d)) THEN Reading(<<CoordCall(d)>>, pos + 1) ELSE Failed

(* readPoint()                                                             *)
ReadPoint(tokens, pos, d) ==
  IF Is(tokens, pos, Empty) THEN Reading(<< >>, pos + 1)
  ELSE IF ~Is(tokens, pos, Left) THEN Failed
  ELSE LET c == ReadCoordinate(tokens, pos + 1, d)
       IN  IF Is(tokens, c.next, Right) THEN Reading(c.calls, c.next + 1) ELSE Failed

RECURSIVE ReadBody(_, _, _, _), ReadItems(_, _, _, _), ReadGeometryWithType(_, _)

(* One pass of a do-while loop: a coordinate, a ring, a part of a          *)
(* multi-geometry or a part of a collection. The other notation of a       *)
(* multipoint, "(0 0, 1 1)", which the reader chooses once per multipoint  *)
(* by isNumber(), is never written by the builder and left out.            *)
ReadItem(kind, tokens, pos, d) ==
  CASE kind \in {"LINESTRING", "RING"} -> ReadCoordinate(tokens, pos, d)
    [] kind = "POLYGON" ->
         Enclosed(<<RingCall>>, ReadBody("RING", tokens, pos, d), <<EndCall>>)
    [] kind = "MULTIPOINT" ->
         Enclosed(<<GeomCall("POINT", d)>>, ReadPoint(tokens, pos, d), <<EndCall>>)
    [] kind = "MULTILINESTRING" ->
         Enclosed(<<GeomCall("LINESTRING", d)>>, ReadBody("LINESTRING", tokens, pos, d), <<EndCall>>)
    [] kind = "MULTIPOLYGON" ->
         Enclosed(<<GeomCall("POLYGON", d)>>, ReadBody("POLYGON", tokens, pos, d), <<EndCall>>)
    [] OTHER -> ReadGeometryWithType(tokens, pos)

(* The loop: assertOneOf(",)") decides whether it goes on.                 *)
ReadItems(kind, tokens, pos, d) ==
  LET item == ReadItem(kind, tokens, pos, d)
  IN  IF item.next = 0 THEN Failed
      ELSE IF Is(tokens, item.next, Right) THEN Reading(item.calls, item.next + 1)
      ELSE IF Is(tokens, item.next, Comma)
           THEN Enclosed(item.calls, ReadItems(kind, tokens, item.next + 1, d), << >>)
      ELSE Failed

(* What follows geom_start() or ring_start(): EMPTY or a list of items.    *)
ReadBody(kind, tokens, pos, d) ==
  IF kind = "POINT" THEN ReadPoint(tokens, pos, d)
  ELSE IF Is(tokens, pos, Empty) THEN Reading(<< >>, pos + 1)
  ELSE IF Is(tokens, pos, Left) THEN ReadItems(kind, tokens, pos + 1, d)
  ELSE Failed

ReadGeometryWithType(tokens, pos) ==
  IF pos \notin 1 .. Len(tokens) \/ tokens[pos].kind # "tag" THEN Failed
  ELSE LET t == tokens[pos].value
           has == pos < Len(tokens) /\ tokens[pos + 1].kind = "dims"
           d == IF has THEN tokens[pos + 1].value ELSE "XY"
       IN  Enclosed(<<GeomCall(t, d)>>,
                    ReadBody(t, tokens, IF has THEN pos + 2 ELSE pos + 1, d),
                    <<EndCall>>)

(* Each finished element is read back as the feature that was written, to  *)
(* its last token, unless the feature has a ring without coordinates or a  *)
(* part of other dimensions than its multi-geometry, or of another type    *)
(* than its members have: brackets, commas and EMPTY are right for every   *)
(* nesting, whatever the feature before was.                               *)
ElementsReadBack ==
  phase \in {"between", "read"} =>
    \A i \in 1 .. Len(elements) :
      IF features[i].null THEN Slice(b, i) = << >>
      ELSE elements[i].readable =>
             ReadGeometryWithType(Slice(b, i), 1)
               = Reading(elements[i].calls, Len(Slice(b, i)) + 1)
==============================================================================
