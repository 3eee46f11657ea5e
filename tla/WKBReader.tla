------------------------------ MODULE WKBReader ------------------------------
(***************************************************************************)
(* WKBReader (wkb-reader.hpp) over the bytes of one element at a time. A   *)
(* byte, a count and an ordinate are one field each, and `left` counts the *)
(* fields before the end of the element, which may come anywhere: what a   *)
(* field holds is chosen when it is read. check_buffer() throws where a    *)
(* field, or all coordinates of a sequence, would pass the end. What is    *)
(* announced as a member of a multi-geometry may be of any type: the reader*)
(* reads it like any other geometry.                                       *)
(***************************************************************************)
EXTENDS ArrayReader

CONSTANTS
  HeaderFlags, (* bound: byte orders and flags of headers, see Headers        *)
  MaxFields, (* bound: fields of an element                                 *)
  MaxCount   (* bound: counts that are read                                 *)
ASSUME FieldsAssumption == MaxFields \in Nat /\ MaxCount \in 0 .. MaxParts

VARIABLES
  left,     (* size_ - offset_                                              *)
  swapping, (* swapping_: the byte order of the last header                 *)
  heads     (* per open frame: the locals of its read_geometry() call,      *)
            (* [dim, swap]: dimensions (coord_size) and byte order read     *)

wkbVars == <<left, swapping, heads>>

CoordSize == [XY |-> 2, XYZ |-> 3, XYM |-> 3, XYZM |-> 4]

WKBInit == left = 0 /\ swapping = FALSE /\ heads = << >>

(* The EWKB flags and the ISO thousands of the type both set dimensions.   *)
HeaderDim(h) ==
  LET z == h.z \/ h.iso \in {1, 3}
      m == h.m \/ h.iso \in {2, 3}
  IN IF z /\ m THEN "XYZM" ELSE IF z THEN "XYZ" ELSE IF m THEN "XYM" ELSE "XY"

Headers ==
  {[type |-> t, z |-> f.z, m |-> f.m, iso |-> f.iso, srid |-> f.srid, swap |-> f.swap] :
     t \in GeometryTypes \cup {Unrecognized}, f \in HeaderFlags}

ASSUME HeaderAssumption ==
  /\ HeaderFlags \subseteq [z : BOOLEAN, m : BOOLEAN, iso : 0 .. 3, srid : BOOLEAN, swap : BOOLEAN]
  /\ \A f \in HeaderFlags : HeaderDim(f) \in Dims

(* byte order, type, SRID, and the count that a POINT does not have.       *)
HeaderFields(h) ==
  2 + (IF h.srid THEN 1 ELSE 0) + (IF h.type = "POINT" THEN 0 ELSE 1)

(* (mutant) Only the root says.                                            *)
ReadEndianOfRoot(h) == swapping' = IF stack = << >> THEN h.swap ELSE swapping
ReadEndian(h) == swapping' = h.swap

(* read_geometry() up to geom_start(), with n fields left before it. A     *)
(* type that is not recognized is announced and started as well: what the  *)
(* handler answers decides whether the feature or the array is given up,   *)
(* and the exception is thrown only if it answers CONTINUE.                *)
WKBHeader(n, h, sz) ==
  LET d == HeaderDim(h) IN
  /\ h.type = "POINT" => sz = 1
  /\ ReadEndian(h)
  /\ IF n < HeaderFields(h)
     THEN /\ Throws /\ heads' = << >> /\ left' = 0
          /\ UNCHANGED <<dim, announced>>
     ELSE /\ left' = n - HeaderFields(h)
          /\ AnnounceType(h.type)
          /\ AnnounceDim(d)
          /\ IF h.type = Unrecognized
             THEN /\ \E r \in Results : Unwind(Outcome(h.type, r), Feature(cur))
                  /\ heads' = << >>
                  /\ UNCHANGED <<reader, meta>>
             ELSE /\ CallGeomStart(h.type, sz)
                  /\ heads' = Append(heads, [dim |-> d, swap |-> h.swap])
  /\ UNCHANGED <<array, filter, slot>>

ReadRoot(h, sz) ==
  /\ Reading
  /\ h.type \in RootsRead
  /\ \E n \in 0 .. MaxFields : WKBHeader(n, h, sz)

ReadMember(h, sz) ==
  /\ phase = "geometry"
  /\ h.type \in PartsRead(Top.type)
  /\ Top.count < Top.size
  /\ WKBHeader(left, h, sz)

WKBThrows ==
  /\ Throws
  /\ heads' = << >>
  /\ left' = 0
  /\ UNCHANGED <<dim, swapping>>
  /\ UNCHANGED loopVars

ReadRing(sz) ==
  /\ phase = "geometry"
  /\ Top.type = "POLYGON"
  /\ Top.count < Top.size
  /\ IF left < 1 THEN WKBThrows
     ELSE /\ left' = left - 1
          /\ CallRingStart(sz)
          /\ heads' = Append(heads, heads[Len(heads)])
          /\ UNCHANGED swapping
          /\ UNCHANGED loopVars

(* read_coords(): all n coordinates must be there, which is checked once,  *)
(* and then there is one call for each.                                    *)
(* (mutant) One ordinate each is asked for.                                *)
CheckedCount(f, d) == f.count = 0 => left >= f.size
Checked(f, d) == f.count = 0 => left >= CoordSize[d] * f.size

ReadCoord ==
  LET d == heads[Len(heads)].dim IN
  /\ phase = "geometry"
  /\ Top.type \in {"POINT", "LINESTRING", "RING"}
  /\ Top.count < Top.size
  /\ IF ~Checked(Top, d) THEN WKBThrows
     ELSE /\ left' = left - CoordSize[d]
          /\ CallCoords(1)
          /\ UNCHANGED <<swapping, heads>>
          /\ UNCHANGED loopVars

(* (mutant) The locals of an inner call outlive it.                        *)
ReadEndKept ==
  /\ phase = "geometry"
  /\ Top.count = Top.size
  /\ CallEnd
  /\ UNCHANGED <<left, swapping, heads>>
  /\ UNCHANGED loopVars

ReadEnd ==
  /\ phase = "geometry"
  /\ Top.count = Top.size
  /\ CallEnd
  /\ heads' = SubSeq(heads, 1, Len(heads) - 1)
  /\ UNCHANGED <<left, swapping>>
  /\ UNCHANGED loopVars

WKBBegin == Begin(Unknown, Unknown) /\ UNCHANGED wkbVars

WKBNext ==
  /\ reader = "wkb"
  /\ \/ WKBBegin
     \/ \E h \in Headers, sz \in 0 .. MaxCount : ReadRoot(h, sz) \/ ReadMember(h, sz)
     \/ \E sz \in 0 .. MaxCount : ReadRing(sz)
     \/ ReadCoord
     \/ ReadEnd
     \/ EndRow /\ UNCHANGED wkbVars
     \/ \E r \in Results : GivesUp(r) /\ heads' = << >> /\ left' = 0 /\ UNCHANGED swapping

(* No coordinate is read past the end of the element: check_buffer() was   *)
(* asked for the whole sequence (wkb-reader.hpp:179-202).                  *)
WithinElement == left >= 0
==============================================================================
