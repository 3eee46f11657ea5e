------------------------------ MODULE CastWKBRead ------------------------------
(***************************************************************************)
(* Casting to WKB and reading back: what WKBReader::read_geometry() makes  *)
(* of the cells of each element WKBArrayBuilder wrote.                     *)
(***************************************************************************)
EXTENDS CastWKB

(* A reading: the calls made, and the position behind the geometry, 0 when *)
(* the reader would throw.                                                 *)
Failed == [calls |-> << >>, next |-> 0]
Reading(c, next) == [calls |-> c, next |-> next]

Has(cells, pos, kind) == pos \in 1 .. Len(cells) /\ cells[pos].kind = kind

(* read_coords(): n coordinates of dimensions d.                           *)
ReadCoords(cells, pos, n, d) ==
  IF \A i \in pos .. pos + n - 1 : Has(cells, i, "coord") /\ cells[i].dim = d
  THEN Reading([i \in 1 .. n |-> CoordCall(d, cells[pos + i - 1].n = 0)], pos + n)
  ELSE Failed

RECURSIVE ReadRings(_, _, _, _)
ReadRings(cells, pos, n, d) ==
  IF n = 0 THEN Reading(<< >>, pos)
  ELSE IF ~Has(cells, pos, "count") THEN Failed
  ELSE LET ring == ReadCoords(cells, pos + 1, cells[pos].n, d)
           rest == ReadRings(cells, ring.next, n - 1, d)
       IN  IF ring.next = 0 \/ rest.next = 0 THEN Failed
           ELSE Reading(<<RingCall>> \o ring.calls \o <<EndCall>> \o rest.calls, rest.next)

RECURSIVE ReadGeometry(_, _), ReadParts(_, _, _)

(* The parts of a multi-geometry or collection.                            *)
ReadParts(cells, pos, n) ==
  IF n = 0 THEN Reading(<< >>, pos)
  ELSE LET part == ReadGeometry(cells, pos)
           rest == ReadParts(cells, part.next, n - 1)
       IN  IF part.next = 0 \/ rest.next = 0 THEN Failed
           ELSE Reading(part.calls \o rest.calls, rest.next)

ReadGeometry(cells, pos) ==
  IF ~Has(cells, pos, "header") THEN Failed
  ELSE LET t == cells[pos].type
           d == cells[pos].dim
           n == cells[pos + 1].n
           body == CASE t = "POINT" -> ReadCoords(cells, pos + 1, 1, d)
                     [] t # "POINT" /\ ~Has(cells, pos + 1, "count") -> Failed
                     [] t = "LINESTRING" -> ReadCoords(cells, pos + 2, n, d)
                     [] t = "POLYGON" -> ReadRings(cells, pos + 2, n, d)
                     [] OTHER -> ReadParts(cells, pos + 2, n)
       IN  IF body.next = 0 THEN Failed
           ELSE Reading(<<GeomCall(t, d)>> \o body.calls \o <<EndCall>>, body.next)

(* Each finished element is read back as the feature that was written: the *)
(* same calls, with the dimensions of every part and NaN for an empty      *)
(* POINT, up to the last cell of the element.                              *)
ElementsReadBack ==
  phase \in {"between", "read"} =>
    \A i \in 1 .. Len(elements) :
      IF features[i].null THEN Slice(b, i) = << >>
      ELSE ReadGeometry(Slice(b, i), 1) = Reading(elements[i], Len(Slice(b, i)) + 1)
==============================================================================
