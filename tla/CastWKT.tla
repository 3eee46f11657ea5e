-------------------------------- MODULE CastWKT --------------------------------
(***************************************************************************)
(* geoarrow_compute(op = "cast") to WKT: an ArrayView (FeatureReader) reads*)
(* into a WKTArrayBuilder. Which tokens a call writes depends on three     *)
(* pieces of state: the stack of open geometries (comma before a part, tag *)
(* only for a root or a part of a collection, bracket or EMPTY), and two   *)
(* flags for the commas between rings and between coordinates.             *)
(*                                                                         *)
(* A token is a cell: a tag ("POINT"), the dimensions behind it (unless    *)
(* XY), a bracket, a comma, EMPTY, or a whole coordinate. Of each open     *)
(* geometry, `open` has the type, the size and the parts so far; elements  *)
(* of the history are its calls together with `readable`.                  *)
(***************************************************************************)
EXTENDS SerializedBuilder

VARIABLES
  firstRing,  (* is_first_ring_                                             *)
  firstCoord, (* is_first_coord_                                            *)
  readable    (* history: whether WKT can express the current feature       *)

builderVars == <<b, open, firstRing, firstCoord, dims, released>>
history == <<calls, readable, elements, ends>>
vars == <<readerVars, builderVars, history>>

Tag(t) == [kind |-> "tag", value |-> t]
DimsToken(d) == IF d \in {"XYZ", "XYM", "XYZM"} THEN <<[kind |-> "dims", value |-> d]>> ELSE << >>
Coordinate(d) == [kind |-> "coord", value |-> d]
Punctuation(p) == [kind |-> "mark", value |-> p]
Left == Punctuation("(")
Right == Punctuation(")")
Comma == Punctuation(",")
Empty == Punctuation("EMPTY")

Part(o) == [type |-> o.type, size |-> o.size, part |-> o.part + 1]
Counting == IF open = << >> THEN open ELSE [open EXCEPT ![Len(open)] = Part(@)]

CoordCall(d) == [call |-> "coord", type |-> "", dim |-> d]

Init ==
  /\ ReaderInit
  /\ \E large \in BOOLEAN : b = NewBinary(large)
  /\ open = << >>
  /\ firstRing = TRUE /\ firstCoord = TRUE
  /\ dims = "XY"
  /\ released = FALSE
  /\ calls = << >> /\ readable = TRUE
  /\ elements = << >>
  /\ ends = << >>

CallReadMeta ==
  \E t \in GeometryTypes \cup {Unknown}, d \in Dims \cup {Unknown} :
    /\ ReadMeta(t, d)
    /\ dims' = d
    /\ UNCHANGED <<b, open, firstRing, firstCoord, released, history>>

CallFeatStart ==
  /\ FeatStart
  /\ open' = << >>
  /\ firstRing' = TRUE /\ firstCoord' = TRUE
  /\ UNCHANGED <<b, dims, released, history>>

Finish(notNull) ==
  /\ b' = FinishElement(b, notNull)
  /\ elements' = Append(elements, [calls |-> calls, readable |-> readable])
  /\ ends' = Append(ends, Len(b.data))
  /\ calls' = << >> /\ readable' = TRUE
  /\ UNCHANGED <<open, firstRing, firstCoord, dims, released>>

(* (mutant) Continues, so that feat_end() is called as well.               *)
CallNullFeatContinue == NullFeat("CONTINUE") /\ Finish(FALSE)

CallNullFeat == NullFeat("ABORT_FEATURE") /\ Finish(FALSE)

(* A part of a multi-geometry has no tag and so no dimensions of its own.  *)
Untagged == open # << >> /\ Back.type # "GEOMETRYCOLLECTION"

(* The tokens geom_start() writes.                                         *)
Separator == IF open # << >> /\ Back.part > 0 THEN <<Comma>> ELSE << >>

Heading(t, sz, d) ==
  Separator
  \o (IF Untagged THEN << >> ELSE <<Tag(t)>> \o DimsToken(d))
  \o <<IF sz = 0 THEN Empty ELSE Left>>

CallGeomStart ==
  \E t \in GeometryTypes \cup {Unrecognized}, sz \in -1 .. MaxParts, d \in Dims :
    /\ t = Unrecognized => Untagged
    /\ GeomStart(t, sz, d, "CONTINUE")
    /\ dims' = IF d = dim THEN dims ELSE d
    /\ b' = WriteBuffer(b, Heading(t, sz, dims'))
    /\ open' = Append(Counting, [type |-> t, size |-> sz, part |-> 0])
    /\ firstRing' = TRUE /\ firstCoord' = TRUE
    /\ calls' = Append(calls, GeomCall(t, d))
    /\ readable' = (readable /\ (Untagged => d = dims /\ t \in PartTypes(Back.type)))
    /\ UNCHANGED <<released, elements, ends>>

(* A type that has no name throws where its tag would be.                  *)
CallGeomStartThrows ==
  \E sz \in -1 .. MaxParts, d \in Dims :
    /\ ~Untagged
    /\ GeomStart(Unrecognized, sz, d, "THROW")
    /\ dims' = IF d = dim THEN dims ELSE d
    /\ b' = WriteBuffer(b, Separator)
    /\ open' = Counting
    /\ UNCHANGED <<firstRing, firstCoord, released, history>>

(* (mutant) is_first_coord_ keeps its value.                               *)
CallRingStartKeepsFirst ==
  /\ \E sz \in -1 .. MaxParts : RingStart(sz)
  /\ b' = WriteBuffer(b, IF firstRing THEN <<Left>> ELSE <<Comma, Left>>)
  /\ firstRing' = FALSE /\ firstCoord' = firstCoord
  /\ calls' = Append(calls, RingCall)
  /\ UNCHANGED <<open, dims, released, readable, elements, ends>>

CallRingStart ==
  /\ \E sz \in -1 .. MaxParts : RingStart(sz)
  /\ b' = WriteBuffer(b, IF firstRing THEN <<Left>> ELSE <<Comma, Left>>)
  /\ firstRing' = FALSE /\ firstCoord' = TRUE
  /\ calls' = Append(calls, RingCall)
  /\ UNCHANGED <<open, dims, released, readable, elements, ends>>

(* n coordinates, a comma before each but the first.                       *)
CoordTokens(n) ==
  LET tokens == [i \in 1 .. 2 * n |-> IF i % 2 = 1 THEN Comma ELSE Coordinate(dim)]
  IN  IF firstCoord THEN Tail(tokens) ELSE tokens

(* (mutant) Room is made for the coordinates only.                         *)
CallCoordsTightRoom ==
  \E n \in 1 .. MaxParts :
    /\ Coords(n)
    /\ b' = Advance(ReserveData(b, n), CoordTokens(n))
    /\ firstCoord' = FALSE
    /\ calls' = calls \o [i \in 1 .. n |-> CoordCall(dim)]
    /\ UNCHANGED <<open, firstRing, dims, released, readable, elements, ends>>

(* reserve_data() makes room for numbers and separators of all coordinates *)
(* at once; write_coord() then advances unchecked.                         *)
CallCoords ==
  \E n \in 1 .. MaxParts :
    /\ Coords(n)
    /\ b' = Advance(ReserveData(b, 2 * n), CoordTokens(n))
    /\ firstCoord' = FALSE
    /\ calls' = calls \o [i \in 1 .. n |-> CoordCall(dim)]
    /\ UNCHANGED <<open, firstRing, dims, released, readable, elements, ends>>

(* A ring without coordinates is written as "()", which is not WKT.        *)
CallRingEnd ==
  /\ RingEnd
  /\ b' = WriteBuffer(b, <<Right>>)
  /\ calls' = Append(calls, EndCall)
  /\ readable' = (readable /\ ~firstCoord)
  /\ UNCHANGED <<open, firstRing, firstCoord, dims, released, elements, ends>>

(* (mutant) An EMPTY geometry stays on the stack.                          *)
CallGeomEndEmptyStays ==
  /\ GeomEnd
  /\ IF open # << >> /\ Back.size # 0
     THEN b' = WriteBuffer(b, <<Right>>) /\ open' = SubSeq(open, 1, Len(open) - 1)
     ELSE UNCHANGED <<b, open>>
  /\ calls' = Append(calls, EndCall)
  /\ UNCHANGED <<firstRing, firstCoord, dims, released, readable, elements, ends>>

CallGeomEnd ==
  /\ GeomEnd
  /\ b' = IF open # << >> /\ Back.size # 0 THEN WriteBuffer(b, <<Right>>) ELSE b
  /\ open' = IF open = << >> THEN open ELSE SubSeq(open, 1, Len(open) - 1)
  /\ calls' = Append(calls, EndCall)
  /\ UNCHANGED <<firstRing, firstCoord, dims, released, readable, elements, ends>>

CallFeatEnd == FeatEnd /\ Finish(TRUE)

CallReadDone == ReadDone /\ UNCHANGED <<builderVars, history>>

Release ==
  /\ phase = "read"
  /\ ~released
  /\ released' = TRUE
  /\ UNCHANGED <<readerVars, b, open, firstRing, firstCoord, dims, history>>

Next ==
  \/ CallReadMeta
  \/ CallFeatStart
  \/ CallNullFeat
  \/ CallGeomStart
  \/ CallGeomStartThrows
  \/ CallRingStart
  \/ CallCoords
  \/ CallRingEnd
  \/ CallGeomEnd
  \/ CallFeatEnd
  \/ CallReadDone
  \/ Release

Spec == Init /\ [][Next]_vars

(***************************************************************************)
(* Properties                                                              *)
(***************************************************************************)
Token == [kind : {"tag", "dims", "coord", "mark"},
          value : GeometryTypes \cup AllDims \cup {Unknown, "(", ")", ",", "EMPTY"}]

OpenType == [type : GeometryTypes \cup {Unrecognized}, size : Int, part : Nat]

TypeOK ==
  /\ ReaderTypeOK
  /\ b \in BinaryOf(Token)
  /\ WidthFits(b)
  /\ open \in Seq(OpenType)
  /\ firstRing \in BOOLEAN /\ firstCoord \in BOOLEAN
  /\ dims \in Dims \cup {"XY", Unknown}
  /\ released \in BOOLEAN
  /\ ends \in Seq(Nat)

(* How many geometries are open: a ring, which is innermost, is not one.   *)
OpenGeometries == IF Top.type = "RING" THEN Len(stack) - 1 ELSE Len(stack)

(* While a feature is read the builder's stack holds the geometries the    *)
(* reader has open, rings left out, each with the parts read so far: what  *)
(* the commas between parts and the tags depend on.                        *)
StacksAgree ==
  phase = "geometry" =>
    /\ Len(open) = OpenGeometries
    /\ \A i \in 1 .. Len(open) :
         /\ open[i].type = stack[i].type
         /\ PartTypes(open[i].type) # {} => open[i].part = stack[i].count
==============================================================================
