-------------------------------- MODULE CastWKB --------------------------------
(***************************************************************************)
(* geoarrow_compute(op = "cast") to WKB: an ArrayView (FeatureReader) reads*)
(* into a WKBArrayBuilder. A geometry's number of parts follows its header *)
(* but may be unknown when the header is written (WKT): a 0 is written, and*)
(* replaced by geom_end() or ring_end() at the position kept on stack_.    *)
(*                                                                         *)
(* The fields of WKB are cells: a header (byte order, type, dimensions), a *)
(* count, or a coordinate. Of each open geometry or ring, `open` has the   *)
(* type, the position of the count, and the size so far.                   *)
(***************************************************************************)
EXTENDS SerializedBuilder

history == <<calls, elements, ends>>
vars == <<readerVars, b, open, dims, released, history>>

Header(t, d) == [kind |-> "header", type |-> t, dim |-> d, n |-> 0]
Count(n) == [kind |-> "count", type |-> "", dim |-> "", n |-> n]
Coord(d, isNaN) == [kind |-> "coord", type |-> "", dim |-> d, n |-> IF isNaN THEN 0 ELSE 1]

Open(t, pos) == [type |-> t, pos |-> pos, size |-> 0]
Larger(o, n) == [type |-> o.type, pos |-> o.pos, size |-> o.size + n]
Grown(n) == IF open = << >> THEN open ELSE [open EXCEPT ![Len(open)] = Larger(@, n)]
Popped == SubSeq(open, 1, Len(open) - 1)

CoordCall(d, isNaN) ==
  [call |-> IF isNaN THEN "nan" ELSE "coord", type |-> "", dim |-> d]

(* Writing is done in the order of the code: reserve_data(), then cells at *)
(* the cursor. A header reserves room for a count and a point as well.     *)
WriteHeader(s, cells) == Advance(ReserveData(s, 3), cells)
WriteCoords(s, cells) == Advance(ReserveData(s, Len(cells)), cells)

Patched(s, pos, n) ==
  [data |-> [s.data EXCEPT ![pos] = Count(n)], large |-> s.large, valid |-> s.valid,
   offsets |-> s.offsets, largeOffsets |-> s.largeOffsets]

Init ==
  /\ ReaderInit
  /\ \E large \in BOOLEAN : b = NewBinary(large)
  /\ open = << >>
  /\ dims = "XY"
  /\ released = FALSE
  /\ calls = << >>
  /\ elements = << >>
  /\ ends = << >>

CallReadMeta ==
  \E t \in GeometryTypes \cup {Unknown}, d \in Dims \cup {Unknown} :
    /\ ReadMeta(t, d)
    /\ dims' = d
    /\ UNCHANGED <<b, open, released, history>>

CallFeatStart ==
  /\ FeatStart
  /\ open' = << >>
  /\ UNCHANGED <<b, dims, released, history>>

Finish(notNull) ==
  /\ b' = FinishElement(b, notNull)
  /\ elements' = Append(elements, calls)
  /\ ends' = Append(ends, Len(b.data))
  /\ calls' = << >>
  /\ UNCHANGED <<open, dims, released>>

(* (mutant) Continues, so that feat_end() is called as well.               *)
CallNullFeatContinue == NullFeat("CONTINUE") /\ Finish(FALSE)

CallNullFeat == NullFeat("ABORT_FEATURE") /\ Finish(FALSE)

(* (mutant) A part is not counted in its parent.                           *)
CallGeomStartNoCount ==
  \E t \in GeometryTypes \cup {Unrecognized}, sz \in -1 .. MaxParts, d \in Dims :
    /\ GeomStart(t, sz, d, "CONTINUE")
    /\ dims' = IF d = dim THEN dims ELSE d
    /\ IF t # "POINT"
       THEN /\ b' = WriteHeader(b, <<Header(t, dims'), Count(0)>>)
            /\ open' = Append(open, Open(t, Len(b.data) + 2))
            /\ calls' = Append(calls, GeomCall(t, d))
       ELSE /\ b' = WriteHeader(b, <<Header(t, dims')>>)
            /\ open' = Append(open, Open(t, 0))
            /\ calls' = Append(calls, GeomCall(t, d))
    /\ UNCHANGED <<released, elements, ends>>

(* An empty POINT is written with NaN coordinates, by coords().            *)
CallGeomStart ==
  \E t \in GeometryTypes \cup {Unrecognized}, sz \in -1 .. MaxParts, d \in Dims :
    /\ GeomStart(t, sz, d, "CONTINUE")
    /\ dims' = IF d = dim THEN dims ELSE d
    /\ IF t # "POINT"
       THEN /\ b' = WriteHeader(b, <<Header(t, dims'), Count(0)>>)
            /\ open' = Append(Grown(1), Open(t, Len(b.data) + 2))
            /\ calls' = Append(calls, GeomCall(t, d))
       ELSE IF sz = 0
       THEN /\ b' = WriteCoords(WriteHeader(b, <<Header(t, dims')>>), <<Coord(dims', TRUE)>>)
            /\ open' = Append(Grown(1), [type |-> t, pos |-> 0, size |-> 1])
            /\ calls' = calls \o <<GeomCall(t, d), CoordCall(d, TRUE)>>
       ELSE /\ b' = WriteHeader(b, <<Header(t, dims')>>)
            /\ open' = Append(Grown(1), Open(t, 0))
            /\ calls' = Append(calls, GeomCall(t, d))
    /\ UNCHANGED <<released, elements, ends>>

CallRingStart ==
  /\ \E sz \in -1 .. MaxParts : RingStart(sz)
  /\ b' = WriteCoords(b, <<Count(0)>>)
  /\ open' = Append(Grown(1), Open("LINESTRING", Len(b.data) + 1))
  /\ calls' = Append(calls, RingCall)
  /\ UNCHANGED <<dims, released, elements, ends>>

CallCoords ==
  \E n \in 1 .. MaxParts :
    /\ Coords(n)
    /\ b' = WriteCoords(b, [i \in 1 .. n |-> Coord(dim, FALSE)])
    /\ open' = Grown(n)
    /\ calls' = calls \o [i \in 1 .. n |-> CoordCall(dim, FALSE)]
    /\ UNCHANGED <<dims, released, elements, ends>>

CallRingEnd ==
  /\ RingEnd
  /\ IF open = << >> THEN UNCHANGED <<b, open>>
     ELSE b' = Patched(b, Back.pos, Back.size) /\ open' = Popped
  /\ calls' = Append(calls, EndCall)
  /\ UNCHANGED <<dims, released, elements, ends>>

(* (mutant) The count is not patched.                                      *)
CallGeomEndNoPatch ==
  /\ GeomEnd
  /\ b' = b
  /\ open' = IF open = << >> THEN open ELSE Popped
  /\ calls' = Append(calls, EndCall)
  /\ UNCHANGED <<dims, released, elements, ends>>

CallGeomEnd ==
  /\ GeomEnd
  /\ b' = IF open # << >> /\ Back.type # "POINT" THEN Patched(b, Back.pos, Back.size) ELSE b
  /\ open' = IF open = << >> THEN open ELSE Popped
  /\ calls' = Append(calls, EndCall)
  /\ UNCHANGED <<dims, released, elements, ends>>

CallFeatEnd == FeatEnd /\ Finish(TRUE)

CallReadDone == ReadDone /\ UNCHANGED <<b, open, dims, released, history>>

Release ==
  /\ phase = "read"
  /\ ~released
  /\ released' = TRUE
  /\ UNCHANGED <<readerVars, b, open, dims, history>>

Next ==
  \/ CallReadMeta
  \/ CallFeatStart
  \/ CallNullFeat
  \/ CallGeomStart
  \/ CallRingStart
  \/ CallCoords
  \/ CallRingEnd
  \/ CallGeomEnd
  \/ CallFeatEnd
  \/ CallReadDone
  \/ Release

Spec == Init /\ [][Next]_vars

(***************************************************************************)
(* Properties                                                              *)
(***************************************************************************)
Cell ==
  [kind : {"header", "count", "coord"}, type : GeometryTypes \cup {Unrecognized, ""},
   dim : Dims \cup {"", "XY", Unknown}, n : Nat]

OpenType == [type : GeometryTypes \cup {Unrecognized}, pos : Nat, size : Nat]

TypeOK ==
  /\ ReaderTypeOK
  /\ b \in BinaryOf(Cell)
  /\ WidthFits(b)
  /\ open \in Seq(OpenType)
  /\ dims \in Dims \cup {"XY", Unknown}
  /\ released \in BOOLEAN
  /\ ends \in Seq(Nat)

(* While a feature is read the stack of the builder is that of the reader: *)
(* each size waiting to be written is the number of parts read, and its    *)
(* place in the data holds a count, although the data grew since.          *)
StacksAgree ==
  phase = "geometry" =>
    /\ Len(open) = Len(stack)
    /\ \A i \in 1 .. Len(stack) :
         open[i].type # "POINT" =>
           /\ open[i].size = stack[i].count
           /\ b.data[open[i].pos].kind = "count"
==============================================================================
