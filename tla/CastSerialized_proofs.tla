-------------------------- MODULE CastSerialized_proofs --------------------------
(***************************************************************************)
(* Theorems about casting to WKB and to WKT: for any reader, any data and  *)
(* any INT32_MAX, the exported offsets are exact although they may be      *)
(* rewritten as 64-bit offsets in the middle of an element, every feature  *)
(* read is one element, and the stack of the writer is that of the reader: *)
(* each count waiting to be patched is where the stack says, and each comma*)
(* and tag is decided by the parts that were read.                         *)
(*                                                                         *)
(* First the operators of the binary builder, for cells of any kind, and   *)
(* the part of the invariant that does not depend on the format; then the  *)
(* two writers, each with what opening, filling and closing a geometry does*)
(* to its stack and one lemma per call.                                    *)
(***************************************************************************)
EXTENDS CastSerialized, FeatureReader_proofs

(***************************************************************************)
(* The binary builder                                                      *)
(***************************************************************************)
Offset32 == (-IntMax - 1) .. IntMax

(* t is s with cells written: same elements, same offsets.                 *)
Written(C, t, s, cells) ==
  /\ t \in BinaryOf(C)
  /\ WidthFits(t)
  /\ Offsets(t) = Offsets(s)
  /\ t.valid = s.valid
  /\ t.data = s.data \o cells

(* The parts of a builder record.                                          *)
LEMMA BinaryParts ==
  ASSUME NEW C, NEW s \in BinaryOf(C)
  PROVE  /\ s.data \in Seq(C) /\ s.large \in BOOLEAN /\ s.valid \in Seq(BOOLEAN)
         /\ s.offsets \in Seq(Offset32) /\ s.largeOffsets \in Seq(Int)
         /\ Len(s.data) \in Nat
BY LenProperties DEF BinaryOf, Offset32

(* Widening the offsets changes none of them.                              *)
LEMMA MakeLargeKeeps ==
  ASSUME NEW C, NEW s \in BinaryOf(C), WidthFits(s)
  PROVE  /\ MakeLarge(s) \in BinaryOf(C)
         /\ MakeLarge(s).large
         /\ WidthFits(MakeLarge(s))
         /\ Offsets(MakeLarge(s)) = Offsets(s)
         /\ MakeLarge(s).valid = s.valid /\ MakeLarge(s).data = s.data
<1>1. /\ s.data \in Seq(C) /\ s.large \in BOOLEAN /\ s.valid \in Seq(BOOLEAN)
      /\ s.offsets \in Seq(Offset32) /\ s.largeOffsets \in Seq(Int)
  BY BinaryParts
<1>2. CASE s.large
  BY <1>2 DEF MakeLarge
<1>3. CASE ~s.large
  <2>1. s.largeOffsets = << >>
    BY <1>3 DEF WidthFits
  <2>2. s.offsets \in Seq(Int)
    <3>1. Offset32 \subseteq Int
      BY IntMaxAssumption DEF Offset32
    <3>2. QED
      BY <1>1, <3>1, SeqMonotonic
  <2>3. s.largeOffsets \o s.offsets = s.offsets
    BY <2>1, <2>2, ConcatEmptySeq
  <2>4. MakeLarge(s) = [data |-> s.data, large |-> TRUE, valid |-> s.valid,
                        offsets |-> << >>, largeOffsets |-> s.offsets]
    BY <1>3, <2>3 DEF MakeLarge
  <2>5. << >> \in Seq(Offset32)
    BY EmptySeq
  <2>6. MakeLarge(s) \in BinaryOf(C)
    BY <1>1, <2>2, <2>4, <2>5 DEF BinaryOf, Offset32
  <2>7. QED
    BY <1>3, <2>4, <2>6 DEF WidthFits, Offsets
<1>4. QED
  BY <1>1, <1>2, <1>3

(* Room for n cells: the offsets are wide enough for them afterwards.      *)
LEMMA ReserveDataKeeps ==
  ASSUME NEW C, NEW s \in BinaryOf(C), WidthFits(s), NEW n \in Nat
  PROVE  /\ ReserveData(s, n) \in BinaryOf(C)
         /\ WidthFits(ReserveData(s, n))
         /\ Offsets(ReserveData(s, n)) = Offsets(s)
         /\ ReserveData(s, n).valid = s.valid /\ ReserveData(s, n).data = s.data
         /\ ReserveData(s, n).large \/ Len(s.data) + n <= IntMax
<1>1. Len(s.data) \in Nat
  BY BinaryParts
<1>2. CASE NeedsMakeLarge(s, n)
  <2>1. ReserveData(s, n) = MakeLarge(s)
    BY <1>2 DEF ReserveData
  <2>2. QED
    BY <2>1, MakeLargeKeeps
<1>3. CASE ~NeedsMakeLarge(s, n)
  <2>1. ReserveData(s, n) = s
    BY <1>3 DEF ReserveData
  <2>2. s.large \/ Len(s.data) + n <= IntMax
    BY <1>1, <1>3, IntMaxAssumption DEF NeedsMakeLarge
  <2>3. QED
    BY <2>1, <2>2
<1>4. QED
  BY <1>2, <1>3

(* Cells written after reserving room for at least as many.                *)
LEMMA AdvanceKeeps ==
  ASSUME NEW C, NEW s \in BinaryOf(C), WidthFits(s), NEW n \in Nat,
         NEW cells \in Seq(C), Len(cells) <= n
  PROVE  Written(C, Advance(ReserveData(s, n), cells), s, cells)
<1> DEFINE r == ReserveData(s, n)
           t == Advance(r, cells)
<1>1. /\ r \in BinaryOf(C) /\ WidthFits(r) /\ Offsets(r) = Offsets(s)
      /\ r.valid = s.valid /\ r.data = s.data
      /\ r.large \/ Len(s.data) + n <= IntMax
  BY ReserveDataKeeps
<1> HIDE DEF r
<1>2. /\ r.data \in Seq(C) /\ r.large \in BOOLEAN /\ r.valid \in Seq(BOOLEAN)
      /\ r.offsets \in Seq(Offset32) /\ r.largeOffsets \in Seq(Int)
  BY <1>1, BinaryParts
<1>3. /\ r.data \o cells \in Seq(C)
      /\ Len(r.data \o cells) = Len(s.data) + Len(cells)
      /\ Len(cells) \in Nat /\ Len(s.data) \in Nat
  BY <1>1, <1>2, ConcatProperties, LenProperties
<1>4. t = [data |-> r.data \o cells, large |-> r.large, valid |-> r.valid,
           offsets |-> r.offsets, largeOffsets |-> r.largeOffsets]
  BY DEF Advance
<1>5. t \in BinaryOf(C)
  BY <1>2, <1>3, <1>4 DEF BinaryOf, Offset32
<1>6. WidthFits(t)
  BY <1>1, <1>3, <1>4, IntMaxAssumption DEF WidthFits
<1>7. Offsets(t) = Offsets(s) /\ t.valid = s.valid /\ t.data = s.data \o cells
  BY <1>1, <1>4 DEF Offsets
<1>8. QED
  BY <1>5, <1>6, <1>7 DEF Written, r

(* Two pieces written one after the other.                                 *)
LEMMA WrittenTwice ==
  ASSUME NEW C, NEW s \in BinaryOf(C), NEW c1 \in Seq(C), NEW c2 \in Seq(C),
         NEW t, Written(C, t, s, c1), NEW u, Written(C, u, t, c2)
  PROVE  Written(C, u, s, c1 \o c2)
<1>1. s.data \in Seq(C)
  BY BinaryParts
<1>2. (s.data \o c1) \o c2 = s.data \o (c1 \o c2)
  <2>1. \A x, y, z \in Seq(C) : (x \o y) \o z = x \o (y \o z)
    BY ConcatAssociative, SMTT(30)
  <2>2. QED
    BY <1>1, <2>1
<1>3. t.data = s.data \o c1 /\ u.data = t.data \o c2
  BY DEF Written
<1>4. u.data = s.data \o (c1 \o c2)
  BY <1>2, <1>3
<1>5. /\ u \in BinaryOf(C) /\ WidthFits(u)
      /\ Offsets(u) = Offsets(s) /\ u.valid = s.valid
  BY DEF Written
<1>6. QED
  BY <1>4, <1>5 DEF Written

(* An element ends where the data ends, in whichever width is in use.      *)
LEMMA FinishElementKeeps ==
  ASSUME NEW C, NEW s \in BinaryOf(C), WidthFits(s), NEW notNull \in BOOLEAN
  PROVE  LET t == FinishElement(s, notNull)
         IN  /\ t \in BinaryOf(C)
             /\ WidthFits(t)
             /\ Offsets(t) = Append(Offsets(s), Len(s.data))
             /\ t.valid = Append(s.valid, notNull)
             /\ t.data = s.data
<1> DEFINE t == FinishElement(s, notNull)
<1>1. /\ s.data \in Seq(C) /\ s.large \in BOOLEAN /\ s.valid \in Seq(BOOLEAN)
      /\ s.offsets \in Seq(Offset32) /\ s.largeOffsets \in Seq(Int)
      /\ Len(s.data) \in Nat
  BY BinaryParts
<1>2. Append(s.valid, notNull) \in Seq(BOOLEAN)
  BY <1>1, AppendProperties
<1>3. CASE s.large
  <2>1. Append(s.largeOffsets, Len(s.data)) \in Seq(Int)
    BY <1>1, AppendProperties
  <2>2. t = [data |-> s.data, large |-> s.large, valid |-> Append(s.valid, notNull),
             offsets |-> s.offsets, largeOffsets |-> Append(s.largeOffsets, Len(s.data))]
    BY <1>3 DEF FinishElement
  <2>3. t \in BinaryOf(C)
    BY <1>1, <1>2, <2>1, <2>2 DEF BinaryOf, Offset32
  <2>4. QED
    BY <1>3, <2>2, <2>3 DEF WidthFits, Offsets
<1>4. CASE ~s.large
  <2>1. Len(s.data) <= IntMax
    BY <1>4 DEF WidthFits
  <2>2. ToInt32(Len(s.data)) = Len(s.data) /\ Len(s.data) \in Offset32
    BY <1>1, <2>1, IntMaxAssumption DEF ToInt32, Offset32
  <2>3. Append(s.offsets, Len(s.data)) \in Seq(Offset32)
    BY <1>1, <2>2, AppendProperties
  <2>4. t = [data |-> s.data, large |-> s.large, valid |-> Append(s.valid, notNull),
             offsets |-> Append(s.offsets, Len(s.data)), largeOffsets |-> s.largeOffsets]
    BY <1>4, <2>2 DEF FinishElement
  <2>5. t \in BinaryOf(C)
    BY <1>1, <1>2, <2>3, <2>4 DEF BinaryOf, Offset32
  <2>6. QED
    BY <1>4, <2>4, <2>5 DEF WidthFits, Offsets
<1>5. QED
  BY <1>3, <1>4

(* Writing behind the data leaves the cells before it alone.               *)
LEMMA WrittenCells ==
  ASSUME NEW C, NEW s \in BinaryOf(C), NEW cells \in Seq(C), NEW t, Written(C, t, s, cells)
  PROVE  /\ Len(s.data) \in Nat /\ Len(cells) \in Nat
         /\ Len(t.data) = Len(s.data) + Len(cells)
         /\ \A i \in 1 .. Len(s.data) : t.data[i] = s.data[i]
         /\ \A i \in 1 .. Len(cells) : t.data[Len(s.data) + i] = cells[i]
<1>1. s.data \in Seq(C) /\ Len(s.data) \in Nat /\ Len(cells) \in Nat
  BY BinaryParts, LenProperties
<1>2. /\ t.data = s.data \o cells
      /\ Len(s.data \o cells) = Len(s.data) + Len(cells)
      /\ \A i \in 1 .. Len(s.data) + Len(cells) : (s.data \o cells)[i] =
           IF i <= Len(s.data) THEN s.data[i] ELSE cells[i - Len(s.data)]
  BY <1>1, ConcatProperties DEF Written
<1>3. QED
  BY <1>1, <1>2

(***************************************************************************)
(* The part of the inductive invariant that both formats share.            *)
(***************************************************************************)
ElementsCounted ==
  /\ Len(b.valid) = Len(features)
  /\ \A i \in 1 .. Len(features) : b.valid[i] = ~features[i].null

Common(C) ==
  /\ ReaderInv
  /\ b \in BinaryOf(C) /\ WidthFits(b)
  /\ dims \in Dims \cup {"XY", Unknown}
  /\ released \in BOOLEAN
  /\ ends \in Seq(Nat)
  /\ OffsetsExact
  /\ ElementsCounted

(* The parts of the invariant the calls start from.                        *)
LEMMA CommonParts ==
  ASSUME NEW C, Common(C)
  PROVE  /\ ReaderInv
         /\ b \in BinaryOf(C) /\ WidthFits(b) /\ b.data \in Seq(C) /\ Len(b.data) \in Nat
         /\ dims \in Dims \cup {"XY", Unknown} /\ released \in BOOLEAN
         /\ dim \in Dims \cup {Unknown}
BY BinaryParts DEF Common, ReaderInv, ReaderTypeOK

(* A step that keeps the elements.                                         *)
LEMMA CommonKept ==
  ASSUME NEW C, Common(C), ReaderInv', UNCHANGED <<features, ends>>,
         b' \in BinaryOf(C), WidthFits(b'), Offsets(b') = Offsets(b), b'.valid = b.valid,
         dims' \in Dims \cup {"XY", Unknown}, released' \in BOOLEAN
  PROVE  Common(C)'
<1>1. Offsets(b') = <<0>> \o ends'
  BY DEF Common, OffsetsExact
<1>2. OffsetsExact'
  BY <1>1 DEF OffsetsExact, Offsets
<1>3. ElementsCounted'
  BY DEF Common, ElementsCounted
<1>4. ends' \in Seq(Nat) /\ WidthFits(b)'
  BY DEF Common, WidthFits
<1>5. QED
  BY <1>2, <1>3, <1>4 DEF Common

(* Cells written behind the data.                                          *)
LEMMA CommonWritten ==
  ASSUME NEW C, Common(C), ReaderInv', UNCHANGED <<features, ends, released>>,
         NEW cells, Written(C, b', b, cells), dims' \in Dims \cup {"XY", Unknown}
  PROVE  Common(C)'
<1>1. /\ b' \in BinaryOf(C) /\ WidthFits(b') /\ Offsets(b') = Offsets(b)
      /\ b'.valid = b.valid
  BY DEF Written
<1>2. released' \in BOOLEAN
  BY CommonParts
<1>3. QED
  BY <1>1, <1>2, CommonKept

(* What finish_element() does, with its validity.                          *)
Finished(notNull) ==
  /\ b' = FinishElement(b, notNull)
  /\ ends' = Append(ends, Len(b.data))
  /\ UNCHANGED <<open, dims, released>>

(* Finishing an element, with its validity, between two features.          *)
LEMMA FinishKept ==
  ASSUME NEW C, Common(C), ReaderInv', NEW f \in FeatureType, NEW notNull \in BOOLEAN,
         notNull = ~f.null, EndFeature(f), Finished(notNull)
  PROVE  Common(C)' /\ phase' = "between"
<1>1. /\ b \in BinaryOf(C) /\ WidthFits(b) /\ ends \in Seq(Nat)
      /\ dims \in Dims \cup {"XY", Unknown} /\ released \in BOOLEAN
  BY DEF Common
<1>2. /\ b' = FinishElement(b, notNull)
      /\ ends' = Append(ends, Len(b.data))
      /\ UNCHANGED <<open, dims, released>>
  BY DEF Finished
<1>3. /\ b' \in BinaryOf(C) /\ WidthFits(b')
      /\ Offsets(b') = Append(Offsets(b), Len(b.data))
      /\ b'.valid = Append(b.valid, notNull)
  BY <1>1, <1>2, FinishElementKeeps
<1>4. Len(b.data) \in Nat /\ b.valid \in Seq(BOOLEAN) /\ features \in Seq(FeatureType)
  BY <1>1, BinaryParts DEF Common, ReaderInv, ReaderTypeOK
<1>5. OffsetsExact'
  <2>1. Offsets(b) = <<0>> \o ends
    BY DEF Common, OffsetsExact
  <2>2. ASSUME NEW s \in Seq(Nat), NEW n \in Nat
        PROVE  Append(<<0>> \o s, n) = <<0>> \o Append(s, n)
    <3>1. <<0>> \in Seq(Nat) /\ <<n>> \in Seq(Nat) /\ <<0>> \o s \in Seq(Nat)
      BY ConcatProperties
    <3>2. Append(<<0>> \o s, n) = (<<0>> \o s) \o <<n>> /\ Append(s, n) = s \o <<n>>
      BY <3>1, AppendIsConcat
    <3>3. (<<0>> \o s) \o <<n>> = <<0>> \o (s \o <<n>>)
      BY <3>1, ConcatAssociative
    <3>4. QED
      BY <3>2, <3>3
  <2>3. Offsets(b') = <<0>> \o ends'
    BY <1>1, <1>2, <1>3, <1>4, <2>1, <2>2
  <2>4. QED
    BY <2>3 DEF OffsetsExact, Offsets
<1>6. ElementsCounted'
  <2>1. /\ Len(b.valid) = Len(features)
        /\ \A i \in 1 .. Len(features) : b.valid[i] = ~features[i].null
    BY DEF Common, ElementsCounted
  <2>2. features' = Append(features, f)
    BY DEF EndFeature
  <2>3. /\ Len(features') = Len(features) + 1 /\ Len(features) \in Nat
        /\ features'[Len(features) + 1] = f
        /\ \A i \in 1 .. Len(features) : features'[i] = features[i]
    BY <1>4, <2>2, AppendProperties, LenProperties
  <2>4. /\ Len(b'.valid) = Len(b.valid) + 1
        /\ b'.valid[Len(b.valid) + 1] = notNull
        /\ \A i \in 1 .. Len(b.valid) : b'.valid[i] = b.valid[i]
    BY <1>3, <1>4, AppendProperties
  <2>5. ASSUME NEW i \in 1 .. Len(features')
        PROVE  b'.valid[i] = ~features'[i].null
    <3>1. CASE i = Len(features) + 1
      BY <2>1, <2>3, <2>4, <3>1
    <3>2. CASE i # Len(features) + 1
      <4>1. i \in 1 .. Len(features)
        BY <2>3, <3>2
      <4>2. b'.valid[i] = b.valid[i] /\ features'[i] = features[i]
        BY <2>1, <2>3, <2>4, <4>1
      <4>3. QED
        BY <2>1, <4>1, <4>2, Zenon
    <3>3. QED
      BY <3>1, <3>2
  <2>6. QED
    BY <2>1, <2>3, <2>4, <2>5 DEF ElementsCounted
<1>7. ends' \in Seq(Nat)
  BY <1>1, <1>2, <1>4, AppendProperties
<1>8. phase' = "between"
  BY DEF EndFeature
<1>9. WidthFits(b)'
  BY <1>3 DEF WidthFits
<1>10. QED
  BY <1>1, <1>2, <1>3, <1>5, <1>6, <1>7, <1>8, <1>9 DEF Common

(* Nothing is written before anything is read.                             *)
LEMMA CommonInit ==
  ASSUME NEW C, ReaderInit, NEW large \in BOOLEAN, b = NewBinary(large), dims = "XY",
         released = FALSE, ends = << >>
  PROVE  Common(C)
<1>1. b = [data |-> << >>, large |-> large, valid |-> << >>,
           offsets |-> IF large THEN << >> ELSE <<0>>,
           largeOffsets |-> IF large THEN <<0>> ELSE << >>]
  BY DEF NewBinary
<1>2. /\ << >> \in Seq(C) /\ << >> \in Seq(BOOLEAN) /\ << >> \in Seq(Offset32)
      /\ << >> \in Seq(Int) /\ << >> \in Seq(Nat) /\ << >> \in Seq(FeatureType)
  BY EmptySeq
<1>3. <<0>> \in Seq(Offset32) /\ <<0>> \in Seq(Int)
  BY IntMaxAssumption DEF Offset32
<1>4. b \in BinaryOf(C)
  <2>1. CASE large
    BY <1>1, <1>2, <1>3, <2>1 DEF BinaryOf, Offset32
  <2>2. CASE ~large
    BY <1>1, <1>2, <1>3, <2>2 DEF BinaryOf, Offset32
  <2>3. QED
    BY <2>1, <2>2
<1>5. WidthFits(b) /\ Offsets(b) = <<0>> /\ b.valid = << >>
  BY <1>1, IntMaxAssumption DEF WidthFits, Offsets
<1>6. OffsetsExact
  <2>1. ends = << >> /\ <<0>> \o << >> = <<0>>
    BY <1>3, ConcatEmptySeq
  <2>2. QED
    BY <1>5, <2>1 DEF OffsetsExact
<1>7. ElementsCounted
  BY <1>5 DEF ElementsCounted, ReaderInit
<1>8. QED
  BY <1>2, <1>4, <1>5, <1>6, <1>7, ReaderInitInv DEF Common

(***************************************************************************)
(* The writer of WKB                                                       *)
(***************************************************************************)

(* The calls of the reader, as CastWKB makes them, are those of FeatureReader.   *)
LEMMA WKBReaderCalls ==
  /\ WKB!ReaderInit => ReaderInit
  /\ \A t, d : WKB!ReadMeta(t, d) => ReadMeta(t, d)
  /\ WKB!FeatStart => FeatStart
  /\ \A r : WKB!NullFeat(r) => NullFeat(r)
  /\ \A t, sz, d, r : WKB!GeomStart(t, sz, d, r) => GeomStart(t, sz, d, r)
  /\ \A sz : WKB!RingStart(sz) => RingStart(sz)
  /\ \A n : WKB!Coords(n) => Coords(n)
  /\ WKB!RingEnd => RingEnd
  /\ WKB!GeomEnd => GeomEnd
  /\ WKB!FeatEnd => FeatEnd
  /\ WKB!ReadDone => ReadDone
<1> USE DEF WKB!GeometryTypes, GeometryTypes, WKB!SimpleTypes, SimpleTypes,
         WKB!MultiTypes, MultiTypes, WKB!Unknown, Unknown
<1>1. WKB!ReaderInit => ReaderInit
  BY DEF WKB!ReaderInit, ReaderInit
<1>2. ASSUME NEW t, NEW d, WKB!ReadMeta(t, d)
      PROVE  ReadMeta(t, d)
  BY <1>2 DEF WKB!ReadMeta, ReadMeta
<1>3. WKB!FeatStart => FeatStart
  BY DEF WKB!FeatStart, FeatStart
<1>4. ASSUME NEW r, WKB!NullFeat(r)
      PROVE  NullFeat(r)
  BY <1>4
     DEF WKB!NullFeat, NullFeat, WKB!Unwind, Unwind, WKB!EndFeature, EndFeature,
         WKB!NullFeature, NullFeature
<1>5. ASSUME NEW t, NEW sz, NEW d, NEW r, WKB!GeomStart(t, sz, d, r)
      PROVE  GeomStart(t, sz, d, r)
  <2>1. /\ WKB!Untyped <=> Untyped
        /\ WKB!Unrecognized = Unrecognized
        /\ \A p : WKB!PartTypes(p) = PartTypes(p)
    BY DEF WKB!Untyped, Untyped, WKB!Unrecognized, Unrecognized, WKB!PartTypes, PartTypes
  <2>2. /\ WKB!RootsRead = RootsRead
        /\ \A p : WKB!PartsRead(p) = PartsRead(p)
        /\ WKB!Outcome(t, r) = Outcome(t, r)
    BY <2>1 DEF WKB!RootsRead, RootsRead, WKB!PartsRead, PartsRead, WKB!Outcome, Outcome
  <2>3. QED
    BY <1>5, <2>2
       DEF WKB!GeomStart, GeomStart, WKB!Sizes, Sizes, WKB!MayGoOn, MayGoOn,
           WKB!Unwind, Unwind, WKB!EndFeature, EndFeature, WKB!Feature, Feature,
           WKB!CountOne, CountOne, WKB!Counted, Counted, WKB!Frame, Frame, WKB!Top, Top
<1>6. ASSUME NEW sz, WKB!RingStart(sz)
      PROVE  RingStart(sz)
  BY <1>6
     DEF WKB!RingStart, RingStart, WKB!RingSizes, RingSizes, WKB!MayGoOn, MayGoOn,
         WKB!CountOne, CountOne, WKB!Counted, Counted, WKB!Frame, Frame, WKB!Top, Top
<1>7. ASSUME NEW n, WKB!Coords(n)
      PROVE  Coords(n)
  BY <1>7
     DEF WKB!Coords, Coords, WKB!LastPlus, LastPlus, WKB!MayGoOn, MayGoOn,
         WKB!CountOne, CountOne, WKB!Counted, Counted, WKB!Top, Top
<1>8. WKB!RingEnd => RingEnd
  BY DEF WKB!RingEnd, RingEnd, WKB!MayEnd, MayEnd, WKB!Top, Top
<1>9. WKB!GeomEnd => GeomEnd
  BY DEF WKB!GeomEnd, GeomEnd, WKB!MayEnd, MayEnd, WKB!Top, Top
<1>10. WKB!FeatEnd => FeatEnd
  BY DEF WKB!FeatEnd, FeatEnd, WKB!EndFeature, EndFeature, WKB!Feature, Feature
<1>11. WKB!ReadDone => ReadDone
  BY DEF WKB!ReadDone, ReadDone
<1> HIDE DEF WKB!GeometryTypes, GeometryTypes, WKB!SimpleTypes, SimpleTypes,
         WKB!MultiTypes, MultiTypes, WKB!Unknown, Unknown
<1>12. QED
  BY <1>1, <1>2, <1>3, <1>4, <1>5, <1>6, <1>7, <1>8, <1>9, <1>10, <1>11, Zenon

(* So are the types, and what is done to the binary builder.               *)
LEMMA WKBSame ==
  /\ WKB!GeometryTypes = GeometryTypes /\ WKB!Unknown = Unknown
  /\ WKB!Unrecognized = Unrecognized
  /\ \A large : WKB!NewBinary(large) = NewBinary(large)
  /\ \A s, n : WKB!ReserveData(s, n) = ReserveData(s, n)
  /\ \A s, cells : WKB!Advance(s, cells) = Advance(s, cells)
  /\ \A s, notNull : WKB!FinishElement(s, notNull) = FinishElement(s, notNull)
  /\ WKB!Back = Back
<1>1. /\ WKB!GeometryTypes = GeometryTypes /\ WKB!Unknown = Unknown
      /\ WKB!Unrecognized = Unrecognized
  BY DEF WKB!GeometryTypes, GeometryTypes, WKB!SimpleTypes, SimpleTypes,
         WKB!MultiTypes, MultiTypes, WKB!Unknown, Unknown, WKB!Unrecognized, Unrecognized
<1>2. ASSUME NEW large
      PROVE  WKB!NewBinary(large) = NewBinary(large)
  BY DEF WKB!NewBinary, NewBinary
<1>3. ASSUME NEW s, NEW n
      PROVE  WKB!ReserveData(s, n) = ReserveData(s, n)
  BY DEF WKB!ReserveData, ReserveData, WKB!NeedsMakeLarge, NeedsMakeLarge,
         WKB!MakeLarge, MakeLarge
<1>4. ASSUME NEW s, NEW cells
      PROVE  WKB!Advance(s, cells) = Advance(s, cells)
  BY DEF WKB!Advance, Advance
<1>5. ASSUME NEW s, NEW notNull
      PROVE  WKB!FinishElement(s, notNull) = FinishElement(s, notNull)
  BY DEF WKB!FinishElement, FinishElement, WKB!ToInt32, ToInt32
<1>6. WKB!Back = Back
  BY DEF WKB!Back, Back
<1>7. QED
  BY <1>1, <1>2, <1>3, <1>4, <1>5, <1>6, Zenon

(***************************************************************************)
(* Between features there may be anything on stack_ (feat_start() clears   *)
(* it), but while a geometry is read it is the call stack of the reader.   *)
(***************************************************************************)
OpenTypeOf(t) == IF t = "RING" THEN "LINESTRING" ELSE t

(* One entry of stack_ and the geometry or ring it stands for.             *)
Agrees(o, f, data) ==
  /\ o.type = OpenTypeOf(f.type)
  /\ o.type # "POINT" => /\ o.size = f.count
                         /\ o.pos \in 1 .. Len(data)
                         /\ data[o.pos].kind = "count"

WKBAgree ==
  /\ phase = "feature" => open = << >>
  /\ phase = "geometry" =>
       /\ Len(open) = Len(stack)
       /\ \A i \in 1 .. Len(stack) : Agrees(open[i], stack[i], b.data)

WKBInv == Common(WKB!Cell) /\ open \in Seq(WKB!OpenType) /\ WKBAgree

(* What the invariant says of the reader alone.                            *)
LEMMA WKBReader == WKBInv => ReaderInv
BY DEF WKBInv, Common

(* What the fields of WKB and the entries of stack_ are.                   *)
LEMMA WKBTypes ==
  /\ WKB!Cell = [kind : {"header", "count", "coord"},
                 type : GeometryTypes \cup {Unrecognized, ""},
                 dim : Dims \cup {"", "XY", Unknown}, n : Nat]
  /\ WKB!OpenType = [type : GeometryTypes \cup {Unrecognized}, pos : Nat, size : Nat]
BY WKBSame DEF WKB!Cell, WKB!OpenType

(* How a header and other fields are written.                              *)
LEMMA WKBWrites ==
  ASSUME NEW s, NEW cells
  PROVE  /\ WKB!WriteHeader(s, cells) = Advance(ReserveData(s, 3), cells)
         /\ WKB!WriteCoords(s, cells) = Advance(ReserveData(s, Len(cells)), cells)
BY WKBSame DEF WKB!WriteHeader, WKB!WriteCoords

(* A step that keeps the elements and agrees on the stack.                 *)
LEMMA WKBKept ==
  ASSUME WKBInv, ReaderInv', UNCHANGED <<features, ends>>,
         b' \in BinaryOf(WKB!Cell), WidthFits(b'),
         Offsets(b') = Offsets(b), b'.valid = b.valid,
         open' \in Seq(WKB!OpenType), dims' \in Dims \cup {"XY", Unknown},
         released' \in BOOLEAN, WKBAgree'
  PROVE  WKBInv'
<1>1. PICK C : C = WKB!Cell
  OBVIOUS
<1>2. Common(C)'
  BY <1>1, CommonKept DEF WKBInv
<1>3. QED
  BY <1>1, <1>2 DEF WKBInv

(* Patching a count changes no other cell, no offset and no element.       *)
LEMMA PatchedKeeps ==
  ASSUME NEW s \in BinaryOf(WKB!Cell), WidthFits(s),
         NEW pos \in 1 .. Len(s.data), NEW n \in Nat
  PROVE  LET t == WKB!Patched(s, pos, n)
         IN  /\ t \in BinaryOf(WKB!Cell)
             /\ WidthFits(t)
             /\ Offsets(t) = Offsets(s)
             /\ t.valid = s.valid
             /\ Len(t.data) = Len(s.data)
             /\ t.data[pos].kind = "count"
             /\ \A i \in 1 .. Len(s.data) : i # pos => t.data[i] = s.data[i]
<1> DEFINE t == WKB!Patched(s, pos, n)
           d == [s.data EXCEPT ![pos] = WKB!Count(n)]
<1>1. /\ s.data \in Seq(WKB!Cell) /\ s.large \in BOOLEAN /\ s.valid \in Seq(BOOLEAN)
      /\ s.offsets \in Seq(Offset32) /\ s.largeOffsets \in Seq(Int)
  BY BinaryParts
<1>2. WKB!Count(n) \in WKB!Cell /\ WKB!Count(n).kind = "count"
  BY WKBTypes DEF WKB!Count
<1>3. /\ d \in Seq(WKB!Cell) /\ Len(d) = Len(s.data)
      /\ \A j \in 1 .. Len(s.data) : d[j] = IF j = pos THEN WKB!Count(n) ELSE s.data[j]
  BY <1>1, <1>2, ExceptSeq
<1>4. t = [data |-> d, large |-> s.large, valid |-> s.valid,
           offsets |-> s.offsets, largeOffsets |-> s.largeOffsets]
  BY DEF WKB!Patched
<1> HIDE DEF d, t
<1>5. t \in BinaryOf(WKB!Cell)
  BY <1>1, <1>3, <1>4 DEF BinaryOf, Offset32
<1>6. WidthFits(t) /\ Offsets(t) = Offsets(s) /\ t.valid = s.valid
  BY <1>3, <1>4 DEF WidthFits, Offsets
<1>7. /\ Len(t.data) = Len(s.data)
      /\ t.data[pos].kind = "count"
      /\ \A i \in 1 .. Len(s.data) : i # pos => t.data[i] = s.data[i]
  BY <1>2, <1>3, <1>4
<1>8. QED
  BY <1>5, <1>6, <1>7 DEF t

(***************************************************************************)
(* The stack of the builder and that of the reader                         *)
(***************************************************************************)

(* Whether two stacks agree, entry by entry.                               *)
StacksMatch(o, s, data) ==
  /\ o \in Seq(WKB!OpenType)
  /\ Len(o) = Len(s)
  /\ \A i \in 1 .. Len(s) : Agrees(o[i], s[i], data)

(* While a geometry is read they agree.                                    *)
LEMMA InsideMatch ==
  ASSUME WKBInv, phase = "geometry"
  PROVE  /\ StacksMatch(open, stack, b.data)
         /\ stack # << >> /\ Len(stack) \in Nat \ {0}
         /\ stack \in Seq(FrameType) /\ open \in Seq(WKB!OpenType)
<1>1. /\ stack \in Seq(FrameType) /\ open \in Seq(WKB!OpenType)
  BY DEF WKBInv, Common, ReaderInv, ReaderTypeOK
<1>2. stack # << >>
  BY DEF WKBInv, Common, ReaderInv, StackWellFormed
<1>3. Len(stack) \in Nat \ {0}
  BY <1>1, <1>2, EmptySeq
<1>4. QED
  BY <1>1, <1>2, <1>3 DEF StacksMatch, WKBInv, WKBAgree

(* Entries of stack_ are well typed, also when they are counted up.        *)
LEMMA OpenTypes ==
  ASSUME NEW t \in GeometryTypes \cup {Unrecognized}, NEW pos \in Nat, NEW size \in Nat
  PROVE  /\ [type |-> t, pos |-> pos, size |-> size] \in WKB!OpenType
         /\ \A o \in WKB!OpenType :
              /\ o.type \in GeometryTypes \cup {Unrecognized}
              /\ o.pos \in Nat /\ o.size \in Nat
              /\ \A n \in Nat : WKB!Larger(o, n) \in WKB!OpenType
<1> DEFINE Entry == [type : GeometryTypes \cup {Unrecognized}, pos : Nat, size : Nat]
<1>1. WKB!OpenType = Entry
  BY WKBTypes
<1>2. [type |-> t, pos |-> pos, size |-> size] \in Entry
  OBVIOUS
<1>3. ASSUME NEW o \in Entry
      PROVE  /\ o.type \in GeometryTypes \cup {Unrecognized}
             /\ o.pos \in Nat /\ o.size \in Nat
             /\ \A n \in Nat : WKB!Larger(o, n) \in Entry
  BY DEF WKB!Larger
<1> HIDE DEF Entry
<1>4. QED
  BY <1>1, <1>2, <1>3

(* Counting parts of the innermost entry, if there is one.                 *)
LEMMA GrownTypes ==
  ASSUME open \in Seq(WKB!OpenType)
  PROVE  WKB!Grown(1) \in Seq(WKB!OpenType)
<1>1. CASE open = << >>
  BY <1>1 DEF WKB!Grown
<1>2. CASE open # << >>
  <2> DEFINE k == Len(open)
             o == WKB!Larger(open[k], 1)
  <2>1. k \in 1 .. Len(open) /\ k \in Nat \ {0}
    BY <1>2, EmptySeq
  <2>2. open[k] \in WKB!OpenType
    BY <2>1, ElementOfSeq
  <2>3. o \in WKB!OpenType
    <3>1. open[k].type \in GeometryTypes \cup {Unrecognized} /\ 1 \in Nat
      BY <2>2, WKBTypes
    <3>2. QED
      BY <2>2, <3>1, OpenTypes
  <2>4. WKB!Grown(1) = [open EXCEPT ![k] = o]
    BY <1>2 DEF WKB!Grown
  <2> HIDE DEF o, k
  <2>5. QED
    BY <2>1, <2>3, <2>4, ExceptSeq
<1>3. QED
  BY <1>1, <1>2

(* An entry agrees whatever is written behind the data.                    *)
LEMMA AgreesLonger ==
  ASSUME NEW o \in WKB!OpenType, NEW f \in FrameType, NEW data, NEW more,
         Agrees(o, f, data), Len(data) \in Nat, Len(more) \in Nat, Len(data) <= Len(more),
         \A i \in 1 .. Len(data) : more[i] = data[i]
  PROVE  Agrees(o, f, more)
<1>1. ASSUME o.type # "POINT"
      PROVE  o.size = f.count /\ o.pos \in 1 .. Len(more) /\ more[o.pos].kind = "count"
  <2>1. o.size = f.count /\ o.pos \in 1 .. Len(data) /\ data[o.pos].kind = "count"
    BY <1>1 DEF Agrees
  <2>2. more[o.pos] = data[o.pos] /\ o.pos \in 1 .. Len(more)
    BY <2>1
  <2>3. QED
    BY <2>1, <2>2
<1>2. o.type = OpenTypeOf(f.type)
  BY DEF Agrees
<1>3. QED
  BY <1>1, <1>2 DEF Agrees

(* Counting n parts in both stacks, while data is appended.                *)
LEMMA GrownMatch ==
  ASSUME WKBInv, phase = "geometry", NEW n \in Nat, NEW more,
         Len(more) \in Nat, Len(b.data) <= Len(more),
         \A i \in 1 .. Len(b.data) : more[i] = b.data[i]
  PROVE  StacksMatch(WKB!Grown(n), CountOne(n), more) /\ CountOne(n) \in Seq(FrameType)
<1>1. /\ Len(open) = Len(stack)
      /\ \A i \in 1 .. Len(stack) : Agrees(open[i], stack[i], b.data)
      /\ stack # << >> /\ Len(stack) \in Nat \ {0}
      /\ stack \in Seq(FrameType) /\ open \in Seq(WKB!OpenType)
  BY InsideMatch DEF StacksMatch
<1>2. open # << >>
  BY <1>1, EmptySeq
<1> DEFINE k == Len(stack)
           o == WKB!Larger(open[k], n)
           f == Counted(stack[k], n)
<1>3. k \in 1 .. Len(open) /\ open[k] \in WKB!OpenType /\ stack[k] \in FrameType
  BY <1>1, ElementOfSeq
<1>4. o \in WKB!OpenType /\ f \in FrameType
  <2>1. f \in FrameType
    BY <1>3 DEF Counted, FrameType
  <2>2. open[k].type \in GeometryTypes \cup {Unrecognized}
    BY <1>3, WKBTypes
  <2>3. o \in WKB!OpenType
    BY <1>3, <2>2, OpenTypes
  <2>4. QED
    BY <2>1, <2>3
<1>5. WKB!Grown(n) = [open EXCEPT ![k] = o] /\ CountOne(n) = [stack EXCEPT ![k] = f]
  BY <1>1, <1>2, <1>3 DEF WKB!Grown, CountOne
<1> HIDE DEF o, f
<1>6. /\ WKB!Grown(n) \in Seq(WKB!OpenType) /\ Len(WKB!Grown(n)) = k
      /\ \A j \in 1 .. k : WKB!Grown(n)[j] = IF j = k THEN o ELSE open[j]
  BY <1>1, <1>3, <1>4, <1>5, ExceptSeq
<1>7. /\ CountOne(n) \in Seq(FrameType) /\ Len(CountOne(n)) = k
      /\ \A j \in 1 .. k : CountOne(n)[j] = IF j = k THEN f ELSE stack[j]
  BY <1>1, <1>3, <1>4, <1>5, ExceptSeq
<1>8. Len(b.data) \in Nat
  BY BinaryParts DEF WKBInv, Common
<1>9. ASSUME NEW i \in 1 .. k
      PROVE  Agrees(WKB!Grown(n)[i], CountOne(n)[i], more)
  <2>1. /\ open[i] \in WKB!OpenType /\ stack[i] \in FrameType
        /\ Agrees(open[i], stack[i], b.data)
    BY <1>1, ElementOfSeq
  <2>2. Agrees(open[i], stack[i], more)
    BY <1>8, <2>1, AgreesLonger
  <2>3. CASE i = k
    <3>1. /\ o.type = open[k].type /\ o.pos = open[k].pos /\ o.size = open[k].size + n
          /\ f.type = stack[k].type /\ f.count = stack[k].count + n
      BY DEF o, f, WKB!Larger, Counted
    <3>2. Agrees(o, f, more)
      BY <2>2, <2>3, <3>1 DEF Agrees
    <3>3. QED
      BY <1>6, <1>7, <2>3, <3>2
  <2>4. CASE i # k
    BY <1>6, <1>7, <2>2, <2>4
  <2>5. QED
    BY <2>3, <2>4
<1>10. QED
  BY <1>6, <1>7, <1>9 DEF StacksMatch

(* Opening a geometry or ring in both stacks, while data is appended.      *)
LEMMA PushMatch ==
  ASSUME NEW o, NEW s \in Seq(FrameType), NEW data, StacksMatch(o, s, data),
         NEW e \in WKB!OpenType, NEW f \in FrameType, Agrees(e, f, data)
  PROVE  StacksMatch(Append(o, e), Append(s, f), data)
<1>1. /\ o \in Seq(WKB!OpenType) /\ Len(o) = Len(s) /\ Len(s) \in Nat
      /\ \A i \in 1 .. Len(s) : Agrees(o[i], s[i], data)
  BY LenProperties DEF StacksMatch
<1>2. /\ Append(o, e) \in Seq(WKB!OpenType) /\ Len(Append(o, e)) = Len(s) + 1
      /\ \A i \in 1 .. Len(s) : Append(o, e)[i] = o[i]
      /\ Append(o, e)[Len(s) + 1] = e
  BY <1>1, AppendProperties
<1>3. /\ Len(Append(s, f)) = Len(s) + 1
      /\ \A i \in 1 .. Len(s) : Append(s, f)[i] = s[i]
      /\ Append(s, f)[Len(s) + 1] = f
  BY AppendProperties
<1>4. ASSUME NEW i \in 1 .. Len(s) + 1
      PROVE  Agrees(Append(o, e)[i], Append(s, f)[i], data)
  <2>1. CASE i = Len(s) + 1
    BY <1>2, <1>3, <2>1
  <2>2. CASE i # Len(s) + 1
    <3>1. i \in 1 .. Len(s)
      BY <1>1, <2>2
    <3>2. QED
      BY <1>1, <1>2, <1>3, <3>1
  <2>3. QED
    BY <2>1, <2>2
<1>5. QED
  BY <1>2, <1>3, <1>4 DEF StacksMatch

(* Closing one in both stacks.                                             *)
LEMMA PopMatch ==
  ASSUME NEW o, NEW s \in Seq(FrameType), NEW data, StacksMatch(o, s, data),
         Len(s) \in Nat \ {0}
  PROVE  StacksMatch(SubSeq(o, 1, Len(o) - 1), SubSeq(s, 1, Len(s) - 1), data)
<1> DEFINE n == Len(s) - 1
<1>1. /\ o \in Seq(WKB!OpenType) /\ Len(o) = Len(s) /\ n \in Nat /\ Len(o) - 1 = n
      /\ \A i \in 1 .. Len(s) : Agrees(o[i], s[i], data)
  BY DEF StacksMatch
<1>2. \A i \in 1 .. n : o[i] \in WKB!OpenType /\ s[i] \in FrameType
  BY <1>1, ElementOfSeq
<1>3. /\ SubSeq(o, 1, n) \in Seq(WKB!OpenType) /\ Len(SubSeq(o, 1, n)) = n
      /\ \A i \in 1 .. n : SubSeq(o, 1, n)[i] = o[i]
  <2> HIDE DEF n
  <2>1. n \in Int /\ \A i \in 1 .. n : o[i] \in WKB!OpenType
    BY <1>1, <1>2
  <2>2. /\ SubSeq(o, 1, n) \in Seq(WKB!OpenType)
        /\ Len(SubSeq(o, 1, n)) = IF 1 <= n THEN n - 1 + 1 ELSE 0
        /\ \A i \in 1 .. n - 1 + 1 : SubSeq(o, 1, n)[i] = o[1 + i - 1]
    BY <2>1, SubSeqProperties
  <2>3. QED
    BY <1>1, <2>2
<1>4. /\ Len(SubSeq(s, 1, n)) = n
      /\ \A i \in 1 .. n : SubSeq(s, 1, n)[i] = s[i]
  <2> HIDE DEF n
  <2>1. n \in Int /\ \A i \in 1 .. n : s[i] \in FrameType
    BY <1>1, <1>2
  <2>2. /\ Len(SubSeq(s, 1, n)) = IF 1 <= n THEN n - 1 + 1 ELSE 0
        /\ \A i \in 1 .. n - 1 + 1 : SubSeq(s, 1, n)[i] = s[1 + i - 1]
    BY <2>1, SubSeqProperties
  <2>3. QED
    BY <1>1, <2>2
<1>5. QED
  BY <1>1, <1>3, <1>4 DEF StacksMatch

(* Patching a count, of this entry or another, keeps every entry.          *)
LEMMA PatchMatch ==
  ASSUME NEW o, NEW s \in Seq(FrameType), NEW data, NEW more, NEW pos,
         StacksMatch(o, s, data), Len(more) = Len(data), more[pos].kind = "count",
         \A i \in 1 .. Len(data) : i # pos => more[i] = data[i]
  PROVE  StacksMatch(o, s, more)
<1>1. ASSUME NEW i \in 1 .. Len(s)
      PROVE  Agrees(o[i], s[i], more)
  BY DEF StacksMatch, Agrees
<1>2. QED
  BY <1>1 DEF StacksMatch

(***************************************************************************)
(* The calls                                                               *)
(***************************************************************************)

(* The parts of the invariant the calls start from.                        *)
LEMMA WKBParts ==
  ASSUME WKBInv
  PROVE  /\ b \in BinaryOf(WKB!Cell) /\ WidthFits(b) /\ b.data \in Seq(WKB!Cell)
         /\ Len(b.data) \in Nat
         /\ open \in Seq(WKB!OpenType) /\ dims \in Dims \cup {"XY", Unknown}
         /\ released \in BOOLEAN /\ dim \in Dims \cup {Unknown}
BY CommonParts DEF WKBInv

(* Cells are well typed.                                                   *)
LEMMA CellTypes ==
  ASSUME NEW t \in GeometryTypes \cup {Unrecognized}, NEW d \in Dims \cup {"XY", Unknown},
         NEW n \in Nat, NEW isNaN \in BOOLEAN
  PROVE  /\ WKB!Header(t, d) \in WKB!Cell /\ WKB!Count(n) \in WKB!Cell
         /\ WKB!Coord(d, isNaN) \in WKB!Cell
BY WKBTypes DEF WKB!Header, WKB!Count, WKB!Coord

(* The calls in terms of the reader and the binary builder.                *)
GeomStartWith(t, sz, d) ==
  IF t # "POINT"
  THEN /\ b' = WKB!WriteHeader(b, <<WKB!Header(t, d), WKB!Count(0)>>)
       /\ open' = Append(WKB!Grown(1), WKB!Open(t, Len(b.data) + 2))
  ELSE IF sz = 0
  THEN /\ b' = WKB!WriteCoords(WKB!WriteHeader(b, <<WKB!Header(t, d)>>),
                               <<WKB!Coord(d, TRUE)>>)
       /\ open' = Append(WKB!Grown(1), [type |-> t, pos |-> 0, size |-> 1])
  ELSE /\ b' = WKB!WriteHeader(b, <<WKB!Header(t, d)>>)
       /\ open' = Append(WKB!Grown(1), WKB!Open(t, 0))

(* read_meta() writes nothing.                                             *)
LEMMA WKBReadMetaInv ==
  ASSUME WKBInv, WKB!CallReadMeta
  PROVE  WKBInv'
<1>1. PICK t \in WKB!GeometryTypes \cup {WKB!Unknown}, d \in Dims \cup {WKB!Unknown} :
        WKB!ReadMeta(t, d) /\ dims' = d /\ UNCHANGED <<b, open, released, WKB!history>>
  BY Zenon DEF WKB!CallReadMeta
<1>2. ReadMeta(t, d) /\ UNCHANGED ends
  BY <1>1, WKBReaderCalls DEF WKB!history
<1>3. ReaderInv' /\ UNCHANGED features
  BY <1>2, ReadMetaInv, WKBReader
<1>4. phase' = "between"
  BY <1>2 DEF ReadMeta
<1>5. WKBAgree'
  BY <1>4 DEF WKBAgree
<1>6. dims' \in Dims \cup {"XY", Unknown}
  BY <1>1, WKBSame
<1>7. QED
  BY <1>1, <1>2, <1>3, <1>5, <1>6, WKBParts, WKBKept

(* feat_start() clears stack_, so that nothing left of an earlier feature  *)
(* is counted or patched.                                                  *)
LEMMA WKBFeatStartInv ==
  ASSUME WKBInv, WKB!CallFeatStart
  PROVE  WKBInv'
<1>1. FeatStart /\ open' = << >> /\ UNCHANGED <<b, dims, released, ends>>
  BY WKBReaderCalls, Zenon DEF WKB!CallFeatStart, WKB!history
<1>2. ReaderInv' /\ UNCHANGED <<features, stack>> /\ phase' = "feature"
  BY <1>1, FeatStartInv, WKBReader DEF FeatStart
<1>3. WKBAgree'
  BY <1>1, <1>2 DEF WKBAgree
<1>4. open' \in Seq(WKB!OpenType)
  BY <1>1, EmptySeq
<1>5. QED
  BY <1>1, <1>2, <1>3, <1>4, WKBParts, WKBKept

(* An element is finished between two features.                            *)
LEMMA WKBFinish ==
  ASSUME WKBInv, ReaderInv', NEW f \in FeatureType, NEW notNull \in BOOLEAN,
         notNull = ~f.null, EndFeature(f), Finished(notNull)
  PROVE  WKBInv'
<1>1. PICK C : C = WKB!Cell
  OBVIOUS
<1>2. Common(C)' /\ phase' = "between"
  BY <1>1, FinishKept DEF WKBInv
<1>3. open' = open
  BY DEF Finished
<1>4. QED
  BY <1>1, <1>2, <1>3 DEF WKBInv, WKBAgree

(* null_feat() finishes a null element and the feature.                    *)
LEMMA WKBNullFeatInv ==
  ASSUME WKBInv, WKB!CallNullFeat
  PROVE  WKBInv'
<1>1. NullFeat("ABORT_FEATURE") /\ Finished(FALSE)
  BY WKBSame, WKBReaderCalls, Zenon DEF WKB!CallNullFeat, WKB!Finish, Finished
<1>2. ReaderInv' /\ EndFeature(NullFeature)
  BY <1>1, NullFeatInv, WKBReader DEF NullFeat, Unwind, Results
<1>3. NullFeature \in FeatureType /\ FALSE = ~NullFeature.null
  BY FeatureTypes, WKBReader DEF NullFeature
<1>4. QED
  BY <1>1, <1>2, <1>3, WKBFinish

(* feat_end() finishes the element of a feature that was read to its end.  *)
LEMMA WKBFeatEndInv ==
  ASSUME WKBInv, WKB!CallFeatEnd
  PROVE  WKBInv'
<1>1. FeatEnd /\ Finished(TRUE)
  BY WKBSame, WKBReaderCalls, Zenon DEF WKB!CallFeatEnd, WKB!Finish, Finished
<1>2. ReaderInv' /\ EndFeature(Feature(cur))
  BY <1>1, FeatEndInv, WKBReader
<1>3. Feature(cur) \in FeatureType /\ TRUE = ~Feature(cur).null
  BY FeatureTypes, WKBReader DEF Feature
<1>4. QED
  BY <1>1, <1>2, <1>3, WKBFinish

(* What geom_start() writes and pushes: the position it keeps is that of   *)
(* the count just written.                                                 *)
LEMMA GeomStartWrites ==
  ASSUME WKBInv, NEW t \in GeometryTypes \cup {Unrecognized}, NEW sz,
         NEW d \in Dims \cup {"XY", Unknown}, GeomStartWith(t, sz, d)
  PROVE  \E cells \in Seq(WKB!Cell), e \in WKB!OpenType :
           /\ Written(WKB!Cell, b', b, cells)
           /\ open' = Append(WKB!Grown(1), e)
           /\ e.type = t
           /\ t # "POINT" => /\ e.size = 0
                             /\ e.pos \in 1 .. Len(b'.data)
                             /\ b'.data[e.pos].kind = "count"
<1>1. /\ b \in BinaryOf(WKB!Cell) /\ WidthFits(b) /\ Len(b.data) \in Nat
      /\ WKB!Header(t, d) \in WKB!Cell /\ WKB!Count(0) \in WKB!Cell
      /\ WKB!Coord(d, TRUE) \in WKB!Cell
  BY WKBParts, CellTypes
<1>2. CASE t # "POINT"
  <2> DEFINE cells == <<WKB!Header(t, d), WKB!Count(0)>>
             e == WKB!Open(t, Len(b.data) + 2)
  <2>1. cells \in Seq(WKB!Cell) /\ Len(cells) = 2 /\ cells[2] = WKB!Count(0)
    BY <1>1
  <2>2. e \in WKB!OpenType /\ e.type = t /\ e.size = 0 /\ e.pos = Len(b.data) + 2
    <3>1. [type |-> t, pos |-> Len(b.data) + 2, size |-> 0] \in WKB!OpenType
      BY <1>1, OpenTypes
    <3>2. QED
      BY <3>1 DEF WKB!Open
  <2>3. b' = Advance(ReserveData(b, 3), cells) /\ open' = Append(WKB!Grown(1), e)
    BY <1>2, WKBWrites DEF GeomStartWith
  <2> HIDE DEF cells, e
  <2>4. Written(WKB!Cell, b', b, cells)
    <3>1. Len(cells) <= 3 /\ 3 \in Nat
      BY <2>1
    <3>2. Written(WKB!Cell, Advance(ReserveData(b, 3), cells), b, cells)
      BY <1>1, <2>1, <3>1, AdvanceKeeps
    <3>3. QED
      BY <2>3, <3>2
  <2>5. /\ Len(b'.data) = Len(b.data) + 2
        /\ b'.data[Len(b.data) + 2] = WKB!Count(0)
    <3>1. /\ Len(b'.data) = Len(b.data) + Len(cells)
          /\ \A i \in 1 .. Len(cells) : b'.data[Len(b.data) + i] = cells[i]
      <4>1. b \in BinaryOf(WKB!Cell)
        BY <1>1
      <4>2. cells \in Seq(WKB!Cell)
        BY <2>1
      <4>3. QED
        BY <2>4, <4>1, <4>2, WrittenCells
    <3>2. 2 \in 1 .. Len(cells)
      BY <2>1
    <3>3. QED
      BY <2>1, <3>1, <3>2
  <2>6. e.pos \in 1 .. Len(b'.data) /\ b'.data[e.pos].kind = "count"
    <3>1. WKB!Count(0).kind = "count"
      BY DEF WKB!Count
    <3>2. QED
      BY <1>1, <2>2, <2>5, <3>1
  <2>7. QED
    BY <2>1, <2>2, <2>3, <2>4, <2>6
<1>3. CASE t = "POINT"
  <2> DEFINE head == <<WKB!Header(t, d)>>
             nan == <<WKB!Coord(d, TRUE)>>
             w == WKB!WriteHeader(b, head)
  <2>1. head \in Seq(WKB!Cell) /\ Len(head) = 1 /\ nan \in Seq(WKB!Cell) /\ Len(nan) = 1
    <3>1. ASSUME NEW c \in WKB!Cell
          PROVE  <<c>> \in Seq(WKB!Cell) /\ Len(<<c>>) = 1
      OBVIOUS
    <3>2. QED
      BY <1>1, <3>1
  <2>2. w = Advance(ReserveData(b, 3), head)
    BY WKBWrites
  <2> HIDE DEF head, nan, w
  <2>3. Written(WKB!Cell, w, b, head)
    <3>1. Len(head) <= 3 /\ 3 \in Nat
      BY <2>1
    <3>2. Written(WKB!Cell, Advance(ReserveData(b, 3), head), b, head)
      BY <1>1, <2>1, <3>1, AdvanceKeeps
    <3>3. QED
      BY <2>2, <3>2
  <2>4. CASE sz = 0
    <3> DEFINE e == [type |-> t, pos |-> 0, size |-> 1]
    <3>1. e \in WKB!OpenType /\ e.type = t /\ open' = Append(WKB!Grown(1), e)
      <4>1. e \in WKB!OpenType
        BY OpenTypes
      <4>2. QED
        BY <1>3, <2>4, <4>1 DEF GeomStartWith
    <3>2. b' = Advance(ReserveData(w, 1), nan)
      <4>1. b' = WKB!WriteCoords(w, nan)
        BY <1>3, <2>4 DEF head, nan, w, GeomStartWith
      <4>2. QED
        BY <2>1, <4>1, WKBWrites
    <3> HIDE DEF e
    <3>3. w \in BinaryOf(WKB!Cell) /\ WidthFits(w)
      BY <2>3 DEF Written
    <3>4. Written(WKB!Cell, b', w, nan)
      <4>1. Len(nan) <= 1 /\ 1 \in Nat
        BY <2>1
      <4>2. Written(WKB!Cell, Advance(ReserveData(w, 1), nan), w, nan)
        BY <2>1, <3>3, <4>1, AdvanceKeeps
      <4>3. QED
        BY <3>2, <4>2
    <3>5. Written(WKB!Cell, b', b, head \o nan)
      BY <1>1, <2>1, <2>3, <3>4, WrittenTwice
    <3>6. head \o nan \in Seq(WKB!Cell)
      BY <2>1, ConcatProperties
    <3>7. QED
      BY <1>3, <3>1, <3>5, <3>6
  <2>5. CASE sz # 0
    <3>1. WKB!Open(t, 0) \in WKB!OpenType /\ WKB!Open(t, 0).type = t
      <4>1. [type |-> t, pos |-> 0, size |-> 0] \in WKB!OpenType
        BY OpenTypes
      <4>2. QED
        BY <4>1 DEF WKB!Open
    <3>2. b' = w /\ open' = Append(WKB!Grown(1), WKB!Open(t, 0))
      BY <1>3, <2>5 DEF head, w, GeomStartWith
    <3>3. QED
      BY <1>3, <2>1, <2>3, <3>1, <3>2
  <2>6. QED
    BY <2>4, <2>5
<1>4. QED
  BY <1>2, <1>3

(* Writing and pushing an entry keeps the stacks in agreement.             *)
LEMMA PushedAgree ==
  ASSUME WKBInv, NEW cells \in Seq(WKB!Cell), NEW e \in WKB!OpenType, NEW f \in FrameType,
         phase \in {"feature", "geometry"}, phase' = "geometry",
         Written(WKB!Cell, b', b, cells),
         open' = Append(WKB!Grown(1), e),
         stack' = Append(IF stack = << >> THEN stack ELSE CountOne(1), f),
         Agrees(e, f, b'.data)
  PROVE  WKBAgree' /\ open' \in Seq(WKB!OpenType)
<1> DEFINE g == WKB!Grown(1)
           s == IF stack = << >> THEN stack ELSE CountOne(1)
<1>1. /\ Len(b.data) \in Nat /\ Len(b'.data) \in Nat /\ Len(b.data) <= Len(b'.data)
      /\ \A i \in 1 .. Len(b.data) : b'.data[i] = b.data[i]
  <2>1. b \in BinaryOf(WKB!Cell)
    BY WKBParts
  <2>2. /\ Len(b.data) \in Nat /\ Len(cells) \in Nat
        /\ Len(b'.data) = Len(b.data) + Len(cells)
        /\ \A i \in 1 .. Len(b.data) : b'.data[i] = b.data[i]
    BY <2>1, WrittenCells
  <2>3. QED
    BY <2>2
<1>2. s \in Seq(FrameType) /\ StacksMatch(g, s, b'.data)
  <2>1. CASE phase = "geometry"
    <3>1. s = CountOne(1)
      BY <2>1, InsideMatch
    <3>2. QED
      BY <1>1, <2>1, <3>1, GrownMatch
  <2>2. CASE phase = "feature"
    <3>1. stack = << >> /\ open = << >>
      BY <2>2 DEF WKBInv, Common, ReaderInv, StackWellFormed, WKBAgree
    <3>2. s = << >> /\ g = << >>
      BY <3>1 DEF WKB!Grown
    <3>3. << >> \in Seq(WKB!OpenType) /\ << >> \in Seq(FrameType) /\ Len(<< >>) = 0
      BY EmptySeq
    <3>4. StacksMatch(<< >>, << >>, b'.data)
      BY <3>3 DEF StacksMatch
    <3>5. QED
      BY <3>2, <3>3, <3>4
  <2>3. QED
    BY <2>1, <2>2
<1>3. StacksMatch(Append(g, e), Append(s, f), b'.data)
  <2> HIDE DEF g, s
  <2>1. QED
    BY <1>2, PushMatch
<1>4. StacksMatch(open', stack', b'.data)
  BY <1>3
<1>5. QED
  BY <1>4 DEF StacksMatch, WKBAgree

(* geom_start() preserves the inductive invariant.                         *)
LEMMA WKBGeomStartInv ==
  ASSUME WKBInv, WKB!CallGeomStart
  PROVE  WKBInv'
<1>0. PICK t \in WKB!GeometryTypes \cup {WKB!Unrecognized}, sz \in -1 .. MaxParts, d \in Dims :
        /\ WKB!GeomStart(t, sz, d, "CONTINUE")
        /\ dims' = IF d = dim THEN dims ELSE d
        /\ GeomStartWith(t, sz, dims')
        /\ UNCHANGED <<released, elements, ends>>
  BY ZenonT(40) DEF WKB!CallGeomStart, GeomStartWith
<1>1. /\ t \in GeometryTypes \cup {Unrecognized} /\ GeomStart(t, sz, d, "CONTINUE")
      /\ dims' = IF d = dim THEN dims ELSE d
      /\ GeomStartWith(t, sz, dims')
      /\ UNCHANGED <<released, elements, ends>>
  BY <1>0, WKBSame, WKBReaderCalls
<1>2. sz \in Int /\ "CONTINUE" \in Results
  BY ReaderAssumption DEF Results
<1>3. ReaderInv' /\ UNCHANGED features
  <2>1. ReaderInv'
    BY <1>1, <1>2, GeomStartInv, WKBReader
  <2>2. CASE t \in GeometryTypes
    <3>1. UNCHANGED features
      BY <1>1, <1>2, <2>2, GeomStartPushes, WKBReader
    <3>2. QED
      BY <2>1, <3>1
  <2>3. CASE t = Unrecognized
    <3>1. GeomStart(Unrecognized, sz, d, "CONTINUE")
      BY <1>1, <2>3
    <3>2. UNCHANGED features
      BY <3>1, UnrecognizedFails
    <3>3. QED
      BY <2>1, <3>2
  <2>4. QED
    BY <1>1, <2>2, <2>3
<1>4. dims' \in Dims \cup {"XY", Unknown}
  BY <1>1, WKBParts
<1>5. PICK cells \in Seq(WKB!Cell), e \in WKB!OpenType :
        /\ Written(WKB!Cell, b', b, cells)
        /\ open' = Append(WKB!Grown(1), e)
        /\ e.type = t
        /\ t # "POINT" => /\ e.size = 0
                          /\ e.pos \in 1 .. Len(b'.data)
                          /\ b'.data[e.pos].kind = "count"
  <2> DEFINE dd == dims'
  <2>1. dd \in Dims \cup {"XY", Unknown}
    BY <1>4
  <2>2. GeomStartWith(t, sz, dd)
    BY <1>1
  <2> HIDE DEF dd
  <2>3. t \in GeometryTypes \cup {Unrecognized}
    BY <1>1
  <2>4. QED
    BY <2>1, <2>2, <2>3, GeomStartWrites
<1>6. ASSUME t \in GeometryTypes
      PROVE  WKBAgree' /\ open' \in Seq(WKB!OpenType)
  <2>1. /\ phase \in {"feature", "geometry"} /\ phase' = "geometry"
        /\ stack' = Append(IF stack = << >> THEN stack ELSE CountOne(1), Frame(t, sz))
    BY <1>1, <1>6, KnownOutcome DEF GeomStart, Unwind
  <2>2. Frame(t, sz) \in FrameType /\ Frame(t, sz).type = t /\ Frame(t, sz).count = 0
    BY <1>2, <1>6 DEF Frame, FrameType
  <2>3. OpenTypeOf(t) = t
    BY <1>6 DEF OpenTypeOf, GeometryTypes, SimpleTypes, MultiTypes
  <2>4. Agrees(e, Frame(t, sz), b'.data)
    BY <1>5, <2>2, <2>3 DEF Agrees
  <2>5. WKBAgree' /\ open' \in Seq(WKB!OpenType)
    BY <1>5, <2>1, <2>2, <2>4, PushedAgree
  <2>6. QED
    BY <2>5
<1>7. ASSUME t = Unrecognized
      PROVE  WKBAgree' /\ open' \in Seq(WKB!OpenType)
  <2>1. phase' = "failed"
    <3>1. GeomStart(Unrecognized, sz, d, "CONTINUE")
      BY <1>1, <1>7
    <3>2. QED
      BY <3>1, UnrecognizedFails
  <2>2. WKB!Grown(1) \in Seq(WKB!OpenType)
    <3>1. open \in Seq(WKB!OpenType)
      BY WKBParts
    <3>2. QED
      BY <3>1, GrownTypes
  <2>3. open' \in Seq(WKB!OpenType)
    BY <1>5, <2>2, AppendProperties
  <2>4. QED
    BY <2>1, <2>3 DEF WKBAgree
<1>8. t \in GeometryTypes \/ t = Unrecognized
  BY <1>1
<1>9. WKBAgree' /\ open' \in Seq(WKB!OpenType)
  BY <1>6, <1>7, <1>8
<1>10. /\ b' \in BinaryOf(WKB!Cell) /\ WidthFits(b') /\ Offsets(b') = Offsets(b)
       /\ b'.valid = b.valid
  BY <1>5 DEF Written
<1>11. released' \in BOOLEAN /\ UNCHANGED ends
  BY <1>1, WKBParts
<1>12. QED
  BY <1>3, <1>4, <1>9, <1>10, <1>11, WKBKept

(* ring_start() preserves the inductive invariant.                         *)
LEMMA WKBRingStartInv ==
  ASSUME WKBInv, WKB!CallRingStart
  PROVE  WKBInv'
<1>1. PICK sz \in -1 .. MaxParts : RingStart(sz)
  BY WKBReaderCalls, Zenon DEF WKB!CallRingStart
<1>2. /\ b' = WKB!WriteCoords(b, <<WKB!Count(0)>>)
      /\ open' = Append(WKB!Grown(1), WKB!Open("LINESTRING", Len(b.data) + 1))
      /\ UNCHANGED <<dims, released, ends>>
  BY Zenon DEF WKB!CallRingStart
<1>3. sz \in Int
  BY ReaderAssumption
<1>4. ReaderInv' /\ UNCHANGED features
  BY <1>1, <1>3, RingStartInv, WKBReader
<1> DEFINE cells == <<WKB!Count(0)>>
           e == WKB!Open("LINESTRING", Len(b.data) + 1)
<1>5. /\ b \in BinaryOf(WKB!Cell) /\ WidthFits(b) /\ Len(b.data) \in Nat
      /\ cells \in Seq(WKB!Cell) /\ Len(cells) = 1 /\ cells[1] = WKB!Count(0)
  <2>1. WKB!Count(0) \in WKB!Cell
    BY WKBTypes DEF WKB!Count
  <2>2. QED
    BY <2>1, WKBParts
<1>6. /\ e \in WKB!OpenType /\ e.type = "LINESTRING"
      /\ e.size = 0 /\ e.pos = Len(b.data) + 1
  <2>1. "LINESTRING" \in GeometryTypes
    BY DEF GeometryTypes, SimpleTypes
  <2>2. [type |-> "LINESTRING", pos |-> Len(b.data) + 1, size |-> 0] \in WKB!OpenType
    BY <1>5, <2>1, OpenTypes
  <2>3. QED
    BY <2>2 DEF WKB!Open
<1>7. b' = Advance(ReserveData(b, 1), cells) /\ open' = Append(WKB!Grown(1), e)
  BY <1>2, <1>5, WKBWrites
<1> HIDE DEF cells, e
<1>8. Written(WKB!Cell, b', b, cells)
  <2>1. Len(cells) <= 1 /\ 1 \in Nat
    BY <1>5
  <2>2. Written(WKB!Cell, Advance(ReserveData(b, 1), cells), b, cells)
    BY <1>5, <2>1, AdvanceKeeps
  <2>3. QED
    BY <1>7, <2>2
<1>9. Len(b'.data) = Len(b.data) + 1 /\ b'.data[Len(b.data) + 1] = WKB!Count(0)
  <2>1. /\ Len(b'.data) = Len(b.data) + Len(cells)
        /\ \A i \in 1 .. Len(cells) : b'.data[Len(b.data) + i] = cells[i]
    <3>1. b \in BinaryOf(WKB!Cell)
      BY <1>5
    <3>2. cells \in Seq(WKB!Cell)
      BY <1>5
    <3>3. QED
      BY <1>8, <3>1, <3>2, WrittenCells
  <2>2. 1 \in 1 .. Len(cells)
    BY <1>5
  <2>3. QED
    BY <1>5, <2>1, <2>2
<1>10. /\ phase = "geometry" /\ phase' = "geometry"
       /\ stack' = Append(CountOne(1), Frame("RING", sz))
  BY <1>1 DEF RingStart
<1>11. stack' = Append(IF stack = << >> THEN stack ELSE CountOne(1), Frame("RING", sz))
  BY <1>10, InsideMatch
<1>12. /\ Frame("RING", sz) \in FrameType
       /\ Frame("RING", sz).type = "RING" /\ Frame("RING", sz).count = 0
  BY <1>3 DEF Frame, FrameType
<1>13. Agrees(e, Frame("RING", sz), b'.data)
  <2>1. WKB!Count(0).kind = "count"
    BY DEF WKB!Count
  <2>2. e.pos \in 1 .. Len(b'.data) /\ b'.data[e.pos].kind = "count"
    BY <1>5, <1>6, <1>9, <2>1
  <2>3. QED
    BY <1>6, <1>12, <2>2 DEF Agrees, OpenTypeOf
<1>14. WKBAgree' /\ open' \in Seq(WKB!OpenType)
  BY <1>5, <1>6, <1>7, <1>8, <1>10, <1>11, <1>12, <1>13, PushedAgree
<1>15. QED
  BY <1>2, <1>4, <1>8, <1>14, WKBParts, WKBKept DEF Written

(* coords() preserves the inductive invariant.                             *)
LEMMA WKBCoordsInv ==
  ASSUME WKBInv, WKB!CallCoords
  PROVE  WKBInv'
<1>1. PICK n \in 1 .. MaxParts :
        /\ Coords(n)
        /\ b' = WKB!WriteCoords(b, [i \in 1 .. n |-> WKB!Coord(dim, FALSE)])
        /\ open' = WKB!Grown(n)
        /\ UNCHANGED <<dims, released, elements, ends>>
  BY WKBReaderCalls, Zenon DEF WKB!CallCoords
<1>2. n \in Nat
  BY <1>1, ReaderAssumption
<1>3. ReaderInv' /\ UNCHANGED features
  BY <1>1, <1>2, CoordsInv, WKBReader
<1>4. phase = "geometry" /\ stack' = CountOne(n)
  BY <1>1 DEF Coords
<1> DEFINE cells == [i \in 1 .. n |-> WKB!Coord(dim, FALSE)]
<1>5. cells \in Seq(WKB!Cell) /\ Len(cells) = n
  <2>1. WKB!Coord(dim, FALSE) \in WKB!Cell
    BY WKBParts, WKBTypes DEF WKB!Coord
  <2> HIDE DEF cells
  <2>2. cells \in [1 .. n -> WKB!Cell] /\ DOMAIN cells = 1 .. n
    BY <2>1 DEF cells
  <2>3. QED
    BY <1>2, <2>2
<1>6. b \in BinaryOf(WKB!Cell) /\ WidthFits(b) /\ b' = Advance(ReserveData(b, n), cells)
  BY <1>1, <1>5, WKBParts, WKBWrites
<1> HIDE DEF cells
<1>7. Written(WKB!Cell, b', b, cells)
  <2>1. Len(cells) <= n
    BY <1>2, <1>5
  <2>2. Written(WKB!Cell, Advance(ReserveData(b, n), cells), b, cells)
    BY <1>2, <1>5, <1>6, <2>1, AdvanceKeeps
  <2>3. QED
    BY <1>6, <2>2
<1>8. /\ Len(b.data) \in Nat /\ Len(b'.data) \in Nat /\ Len(b.data) <= Len(b'.data)
      /\ \A i \in 1 .. Len(b.data) : b'.data[i] = b.data[i]
  <2>1. b \in BinaryOf(WKB!Cell)
    BY <1>6
  <2>2. cells \in Seq(WKB!Cell)
    BY <1>5
  <2>3. /\ Len(b.data) \in Nat /\ Len(cells) \in Nat
        /\ Len(b'.data) = Len(b.data) + Len(cells)
        /\ \A i \in 1 .. Len(b.data) : b'.data[i] = b.data[i]
    BY <1>7, <2>1, <2>2, WrittenCells
  <2>4. QED
    BY <2>3
<1>9. StacksMatch(WKB!Grown(n), CountOne(n), b'.data)
  BY <1>2, <1>4, <1>8, GrownMatch
<1>10. StacksMatch(open', stack', b'.data)
  BY <1>1, <1>4, <1>9
<1>11. WKBAgree' /\ open' \in Seq(WKB!OpenType)
  <2>1. phase' = "geometry"
    BY <1>1 DEF Coords
  <2>2. QED
    BY <1>10, <2>1 DEF StacksMatch, WKBAgree
<1>12. QED
  BY <1>1, <1>3, <1>7, <1>11, WKBParts, WKBKept DEF Written

(* The entry of stack_ on top is that of the innermost geometry or ring.   *)
LEMMA BackAgrees ==
  ASSUME WKBInv, phase = "geometry"
  PROVE  /\ open # << >> /\ Len(open) = Len(stack)
         /\ Back \in WKB!OpenType /\ Agrees(Back, Top, b.data)
<1>1. /\ StacksMatch(open, stack, b.data)
      /\ Len(stack) \in Nat \ {0} /\ open \in Seq(WKB!OpenType)
  BY InsideMatch
<1>2. Len(open) = Len(stack) /\ Len(open) \in 1 .. Len(open)
  BY <1>1 DEF StacksMatch
<1>3. open # << >>
  BY <1>2, EmptySeq
<1>4. Back \in WKB!OpenType
  BY <1>1, <1>2, ElementOfSeq DEF Back
<1>5. Agrees(Back, Top, b.data)
  BY <1>1, <1>2 DEF StacksMatch, Back, Top
<1>6. QED
  BY <1>2, <1>3, <1>4, <1>5

(* Closing the innermost geometry or ring, with its count patched.         *)
LEMMA PoppedPatched ==
  ASSUME WKBInv, phase = "geometry", Back.type # "POINT",
         b' = WKB!Patched(b, Back.pos, Back.size), open' = WKB!Popped,
         stack' = SubSeq(stack, 1, Len(stack) - 1), phase' \in {"geometry", "closing"}
  PROVE  /\ WKBAgree' /\ open' \in Seq(WKB!OpenType)
         /\ b' \in BinaryOf(WKB!Cell) /\ WidthFits(b') /\ Offsets(b') = Offsets(b)
         /\ b'.valid = b.valid
<1>1. /\ b \in BinaryOf(WKB!Cell) /\ WidthFits(b)
      /\ Back \in WKB!OpenType /\ Agrees(Back, Top, b.data)
  BY BackAgrees, WKBParts
<1> DEFINE pos == Back.pos
<1>2. pos \in 1 .. Len(b.data) /\ Back.size \in Nat
  BY <1>1, WKBTypes DEF Agrees
<1> HIDE DEF pos
<1>3. b' = WKB!Patched(b, pos, Back.size)
  BY DEF pos
<1>4. /\ b' \in BinaryOf(WKB!Cell) /\ WidthFits(b') /\ Offsets(b') = Offsets(b)
      /\ b'.valid = b.valid
      /\ Len(b'.data) = Len(b.data)
      /\ b'.data[pos].kind = "count"
      /\ \A i \in 1 .. Len(b.data) : i # pos => b'.data[i] = b.data[i]
  BY <1>1, <1>2, <1>3, PatchedKeeps, SMTT(30)
<1>5. /\ StacksMatch(open, stack, b.data)
      /\ stack \in Seq(FrameType) /\ Len(stack) \in Nat \ {0}
  BY InsideMatch
<1>6. StacksMatch(open, stack, b'.data)
  <2> DEFINE data == b.data
             more == b'.data
  <2>1. /\ StacksMatch(open, stack, data) /\ stack \in Seq(FrameType)
        /\ Len(more) = Len(data) /\ more[pos].kind = "count"
        /\ \A i \in 1 .. Len(data) : i # pos => more[i] = data[i]
    BY <1>4, <1>5
  <2> HIDE DEF data, more
  <2>2. StacksMatch(open, stack, more)
    BY <2>1, PatchMatch
  <2>3. QED
    BY <2>2 DEF more
<1>7. StacksMatch(WKB!Popped, SubSeq(stack, 1, Len(stack) - 1), b'.data)
  BY <1>5, <1>6, PopMatch DEF WKB!Popped
<1>8. StacksMatch(open', stack', b'.data)
  BY <1>7
<1>9. QED
  BY <1>4, <1>8 DEF StacksMatch, WKBAgree

(* Closing a POINT, of which nothing is patched.                           *)
LEMMA PoppedOnly ==
  ASSUME WKBInv, phase = "geometry", b' = b, open' = WKB!Popped,
         stack' = SubSeq(stack, 1, Len(stack) - 1), phase' \in {"geometry", "closing"}
  PROVE  WKBAgree' /\ open' \in Seq(WKB!OpenType)
<1>1. /\ StacksMatch(open, stack, b.data)
      /\ stack \in Seq(FrameType) /\ Len(stack) \in Nat \ {0}
  BY InsideMatch
<1>2. StacksMatch(WKB!Popped, SubSeq(stack, 1, Len(stack) - 1), b.data)
  BY <1>1, PopMatch DEF WKB!Popped
<1>3. StacksMatch(open', stack', b'.data)
  BY <1>2
<1>4. QED
  BY <1>3 DEF StacksMatch, WKBAgree

(* ring_end() preserves the inductive invariant.                           *)
LEMMA WKBRingEndInv ==
  ASSUME WKBInv, WKB!CallRingEnd
  PROVE  WKBInv'
<1>1. /\ RingEnd
      /\ IF open = << >> THEN UNCHANGED <<b, open>>
         ELSE b' = WKB!Patched(b, Back.pos, Back.size) /\ open' = WKB!Popped
      /\ UNCHANGED <<dims, released, elements, ends>>
  BY WKBReaderCalls, WKBSame DEF WKB!CallRingEnd
<1>2. ReaderInv' /\ UNCHANGED features /\ Top.type = "RING"
  BY <1>1, RingEndInv, WKBReader
<1>3. phase = "geometry" /\ phase' = "geometry" /\ stack' = SubSeq(stack, 1, Len(stack) - 1)
  BY <1>1 DEF RingEnd
<1>4. open # << >> /\ Agrees(Back, Top, b.data)
  BY <1>3, BackAgrees
<1>5. Back.type # "POINT"
  BY <1>2, <1>4 DEF Agrees, OpenTypeOf
<1>6. /\ WKBAgree' /\ open' \in Seq(WKB!OpenType)
      /\ b' \in BinaryOf(WKB!Cell) /\ WidthFits(b') /\ Offsets(b') = Offsets(b)
      /\ b'.valid = b.valid
  BY <1>1, <1>3, <1>4, <1>5, PoppedPatched
<1>7. QED
  BY <1>1, <1>2, <1>6, WKBParts, WKBKept

(* geom_end() preserves the inductive invariant.                           *)
LEMMA WKBGeomEndInv ==
  ASSUME WKBInv, WKB!CallGeomEnd
  PROVE  WKBInv'
<1>1. /\ GeomEnd
      /\ b' = IF open # << >> /\ Back.type # "POINT"
              THEN WKB!Patched(b, Back.pos, Back.size) ELSE b
      /\ open' = IF open = << >> THEN open ELSE WKB!Popped
      /\ UNCHANGED <<dims, released, elements, ends>>
  BY WKBReaderCalls, WKBSame DEF WKB!CallGeomEnd
<1>2. ReaderInv' /\ UNCHANGED features
  BY <1>1, GeomEndInv, WKBReader
<1>3. /\ phase = "geometry" /\ phase' \in {"geometry", "closing"}
      /\ stack' = SubSeq(stack, 1, Len(stack) - 1)
  BY <1>1 DEF GeomEnd
<1>4. open # << >>
  BY <1>3, BackAgrees
<1>5. /\ WKBAgree' /\ open' \in Seq(WKB!OpenType)
      /\ b' \in BinaryOf(WKB!Cell) /\ WidthFits(b') /\ Offsets(b') = Offsets(b)
      /\ b'.valid = b.valid
  <2>1. CASE Back.type # "POINT"
    BY <1>1, <1>3, <1>4, <2>1, PoppedPatched
  <2>2. CASE Back.type = "POINT"
    <3>1. b' = b /\ open' = WKB!Popped
      BY <1>1, <1>4, <2>2
    <3>2. WKBAgree' /\ open' \in Seq(WKB!OpenType)
      BY <1>3, <3>1, PoppedOnly
    <3>3. QED
      BY <3>1, <3>2, WKBParts
  <2>3. QED
    BY <2>1, <2>2
<1>6. QED
  BY <1>1, <1>2, <1>5, WKBParts, WKBKept

(* The end of the loop, release() and stuttering write nothing.            *)
LEMMA WKBOtherSteps ==
  ASSUME WKBInv, WKB!CallReadDone \/ WKB!Release \/ UNCHANGED vars
  PROVE  WKBInv'
<1>1. /\ UNCHANGED <<b, open, dims, ends>>
      /\ ReadDone \/ UNCHANGED readerVars
      /\ released' \in {released, TRUE}
  <2>1. CASE WKB!CallReadDone
    BY <2>1, WKBReaderCalls DEF WKB!CallReadDone, WKB!history
  <2>2. CASE WKB!Release
    BY <2>2 DEF WKB!Release, WKB!readerVars, WKB!history, readerVars
  <2>3. CASE UNCHANGED vars
    BY <2>3 DEF vars
  <2>4. QED
    BY <2>1, <2>2, <2>3
<1>2. ReaderInv' /\ UNCHANGED features
  <2>1. CASE ReadDone
    BY <2>1, ReadDoneInv, WKBReader
  <2>2. CASE UNCHANGED readerVars
    BY <2>2, WKBReader DEF readerVars, ReaderInv, ReaderTypeOK, StackWellFormed
  <2>3. QED
    BY <1>1, <2>1, <2>2
<1>3. released' \in BOOLEAN
  BY <1>1, WKBParts
<1>4. WKBAgree'
  <2>1. CASE ReadDone
    BY <2>1 DEF ReadDone, WKBAgree
  <2>2. CASE UNCHANGED readerVars
    <3>1. UNCHANGED <<phase, stack>>
      BY <2>2 DEF readerVars
    <3>2. QED
      BY <1>1, <3>1 DEF WKBAgree, WKBInv, Agrees
  <2>3. QED
    BY <1>1, <2>1, <2>2
<1>5. QED
  BY <1>1, <1>2, <1>3, <1>4, WKBParts, WKBKept DEF Offsets, WidthFits

(* Every step of the writer of WKB preserves its invariant.                *)
LEMMA WKBNextInv ==
  ASSUME WKBInv, WKB!Next \/ UNCHANGED vars
  PROVE  WKBInv'
<1>1. CASE WKB!CallReadMeta
  BY <1>1, WKBReadMetaInv
<1>2. CASE WKB!CallFeatStart
  BY <1>2, WKBFeatStartInv
<1>3. CASE WKB!CallNullFeat
  BY <1>3, WKBNullFeatInv
<1>4. CASE WKB!CallGeomStart
  BY <1>4, WKBGeomStartInv
<1>5. CASE WKB!CallRingStart
  BY <1>5, WKBRingStartInv
<1>6. CASE WKB!CallCoords
  BY <1>6, WKBCoordsInv
<1>7. CASE WKB!CallRingEnd
  BY <1>7, WKBRingEndInv
<1>8. CASE WKB!CallGeomEnd
  BY <1>8, WKBGeomEndInv
<1>9. CASE WKB!CallFeatEnd
  BY <1>9, WKBFeatEndInv
<1>10. CASE WKB!CallReadDone \/ WKB!Release \/ UNCHANGED vars
  BY <1>10, WKBOtherSteps
<1>11. QED
  BY <1>1, <1>2, <1>3, <1>4, <1>5, <1>6, <1>7, <1>8, <1>9, <1>10 DEF WKB!Next

(* A new builder has nothing open.                                         *)
LEMMA WKBInitInv == WKB!Init => WKBInv
<1> SUFFICES ASSUME WKB!Init PROVE WKBInv
  OBVIOUS
<1>1. PICK large \in BOOLEAN : b = NewBinary(large)
  BY WKBSame, Zenon DEF WKB!Init
<1>2. /\ ReaderInit /\ open = << >> /\ dims = "XY" /\ released = FALSE /\ ends = << >>
  BY WKBReaderCalls, Zenon DEF WKB!Init
<1>3. PICK C : C = WKB!Cell
  OBVIOUS
<1>4. Common(C)
  BY <1>1, <1>2, CommonInit
<1>5. open \in Seq(WKB!OpenType)
  BY <1>2, EmptySeq
<1>6. WKBAgree
  BY <1>2 DEF WKBAgree, ReaderInit
<1>7. QED
  BY <1>3, <1>4, <1>5, <1>6 DEF WKBInv

(* What the invariant says in the terms of CastWKB.                        *)
LEMMA WKBImplied == WKBInv => WKB!TypeOK /\ WKB!StacksAgree
<1> SUFFICES ASSUME WKBInv PROVE WKB!TypeOK /\ WKB!StacksAgree
  OBVIOUS
<1>1. WKB!ReaderTypeOK <=> ReaderTypeOK
  BY WKBSame
     DEF WKB!ReaderTypeOK, ReaderTypeOK, WKB!Phases, Phases, WKB!FrameType, FrameType,
         WKB!FeatureType, FeatureType
<1>2. /\ WKB!BinaryOf(WKB!Cell) = BinaryOf(WKB!Cell)
      /\ WKB!WidthFits(b) <=> WidthFits(b)
  BY DEF WKB!BinaryOf, BinaryOf, WKB!WidthFits, WidthFits
<1>3. ReaderTypeOK /\ ends \in Seq(Nat)
  BY DEF WKBInv, Common, ReaderInv
<1>4. WKB!TypeOK
  BY <1>1, <1>2, <1>3, WKBParts, WKBSame DEF WKB!TypeOK
<1>5. WKB!StacksAgree
  BY DEF WKBInv, WKBAgree, Agrees, WKB!StacksAgree
<1>6. QED
  BY <1>4, <1>5

(***************************************************************************)
(* The writer of WKT                                                       *)
(***************************************************************************)

(* The calls of the reader, as CastWKT makes them, are those of FeatureReader.   *)
LEMMA WKTReaderCalls ==
  /\ WKT!ReaderInit => ReaderInit
  /\ \A t, d : WKT!ReadMeta(t, d) => ReadMeta(t, d)
  /\ WKT!FeatStart => FeatStart
  /\ \A r : WKT!NullFeat(r) => NullFeat(r)
  /\ \A t, sz, d, r : WKT!GeomStart(t, sz, d, r) => GeomStart(t, sz, d, r)
  /\ \A sz : WKT!RingStart(sz) => RingStart(sz)
  /\ \A n : WKT!Coords(n) => Coords(n)
  /\ WKT!RingEnd => RingEnd
  /\ WKT!GeomEnd => GeomEnd
  /\ WKT!FeatEnd => FeatEnd
  /\ WKT!ReadDone => ReadDone
<1> USE DEF WKT!GeometryTypes, GeometryTypes, WKT!SimpleTypes, SimpleTypes,
         WKT!MultiTypes, MultiTypes, WKT!Unknown, Unknown
<1>1. WKT!ReaderInit => ReaderInit
  BY DEF WKT!ReaderInit, ReaderInit
<1>2. ASSUME NEW t, NEW d, WKT!ReadMeta(t, d)
      PROVE  ReadMeta(t, d)
  BY <1>2 DEF WKT!ReadMeta, ReadMeta
<1>3. WKT!FeatStart => FeatStart
  BY DEF WKT!FeatStart, FeatStart
<1>4. ASSUME NEW r, WKT!NullFeat(r)
      PROVE  NullFeat(r)
  BY <1>4
     DEF WKT!NullFeat, NullFeat, WKT!Unwind, Unwind, WKT!EndFeature, EndFeature,
         WKT!NullFeature, NullFeature
<1>5. ASSUME NEW t, NEW sz, NEW d, NEW r, WKT!GeomStart(t, sz, d, r)
      PROVE  GeomStart(t, sz, d, r)
  <2>1. /\ WKT!Untyped <=> Untyped
        /\ WKT!Unrecognized = Unrecognized
        /\ \A p : WKT!PartTypes(p) = PartTypes(p)
    BY DEF WKT!Untyped, Untyped, WKT!Unrecognized, Unrecognized, WKT!PartTypes, PartTypes
  <2>2. /\ WKT!RootsRead = RootsRead
        /\ \A p : WKT!PartsRead(p) = PartsRead(p)
        /\ WKT!Outcome(t, r) = Outcome(t, r)
    BY <2>1 DEF WKT!RootsRead, RootsRead, WKT!PartsRead, PartsRead, WKT!Outcome, Outcome
  <2>3. QED
    BY <1>5, <2>2
       DEF WKT!GeomStart, GeomStart, WKT!Sizes, Sizes, WKT!MayGoOn, MayGoOn,
           WKT!Unwind, Unwind, WKT!EndFeature, EndFeature, WKT!Feature, Feature,
           WKT!CountOne, CountOne, WKT!Counted, Counted, WKT!Frame, Frame, WKT!Top, Top
<1>6. ASSUME NEW sz, WKT!RingStart(sz)
      PROVE  RingStart(sz)
  BY <1>6
     DEF WKT!RingStart, RingStart, WKT!RingSizes, RingSizes, WKT!MayGoOn, MayGoOn,
         WKT!CountOne, CountOne, WKT!Counted, Counted, WKT!Frame, Frame, WKT!Top, Top
<1>7. ASSUME NEW n, WKT!Coords(n)
      PROVE  Coords(n)
  BY <1>7
     DEF WKT!Coords, Coords, WKT!LastPlus, LastPlus, WKT!MayGoOn, MayGoOn,
         WKT!CountOne, CountOne, WKT!Counted, Counted, WKT!Top, Top
<1>8. WKT!RingEnd => RingEnd
  BY DEF WKT!RingEnd, RingEnd, WKT!MayEnd, MayEnd, WKT!Top, Top
<1>9. WKT!GeomEnd => GeomEnd
  BY DEF WKT!GeomEnd, GeomEnd, WKT!MayEnd, MayEnd, WKT!Top, Top
<1>10. WKT!FeatEnd => FeatEnd
  BY DEF WKT!FeatEnd, FeatEnd, WKT!EndFeature, EndFeature, WKT!Feature, Feature
<1>11. WKT!ReadDone => ReadDone
  BY DEF WKT!ReadDone, ReadDone
<1> HIDE DEF WKT!GeometryTypes, GeometryTypes, WKT!SimpleTypes, SimpleTypes,
         WKT!MultiTypes, MultiTypes, WKT!Unknown, Unknown
<1>12. QED
  BY <1>1, <1>2, <1>3, <1>4, <1>5, <1>6, <1>7, <1>8, <1>9, <1>10, <1>11, Zenon

(* So are the types, and what is done to the binary builder.               *)
LEMMA WKTSame ==
  /\ WKT!GeometryTypes = GeometryTypes /\ WKT!Unknown = Unknown
  /\ WKT!Unrecognized = Unrecognized
  /\ \A large : WKT!NewBinary(large) = NewBinary(large)
  /\ \A s, n : WKT!ReserveData(s, n) = ReserveData(s, n)
  /\ \A s, cells : WKT!Advance(s, cells) = Advance(s, cells)
  /\ \A s, notNull : WKT!FinishElement(s, notNull) = FinishElement(s, notNull)
  /\ WKT!Back = Back
<1>1. /\ WKT!GeometryTypes = GeometryTypes /\ WKT!Unknown = Unknown
      /\ WKT!Unrecognized = Unrecognized
  BY DEF WKT!GeometryTypes, GeometryTypes, WKT!SimpleTypes, SimpleTypes,
         WKT!MultiTypes, MultiTypes, WKT!Unknown, Unknown, WKT!Unrecognized, Unrecognized
<1>2. ASSUME NEW large
      PROVE  WKT!NewBinary(large) = NewBinary(large)
  BY DEF WKT!NewBinary, NewBinary
<1>3. ASSUME NEW s, NEW n
      PROVE  WKT!ReserveData(s, n) = ReserveData(s, n)
  BY DEF WKT!ReserveData, ReserveData, WKT!NeedsMakeLarge, NeedsMakeLarge,
         WKT!MakeLarge, MakeLarge
<1>4. ASSUME NEW s, NEW cells
      PROVE  WKT!Advance(s, cells) = Advance(s, cells)
  BY DEF WKT!Advance, Advance
<1>5. ASSUME NEW s, NEW notNull
      PROVE  WKT!FinishElement(s, notNull) = FinishElement(s, notNull)
  BY DEF WKT!FinishElement, FinishElement, WKT!ToInt32, ToInt32
<1>6. WKT!Back = Back
  BY DEF WKT!Back, Back
<1>7. QED
  BY <1>1, <1>2, <1>3, <1>4, <1>5, <1>6, Zenon

(* And what is asked of the reader's stack.                                *)
LEMMA WKTStackSame ==
  WKT!Top = Top /\ \A t : WKT!PartTypes(t) = PartTypes(t)
BY DEF WKT!Top, Top, WKT!PartTypes, PartTypes

(***************************************************************************)
(* Of the geometries being read the innermost may be a ring: all others are*)
(* entries of stack_, and where a comma or a tag depends on it, an entry   *)
(* has the parts read so far.                                              *)
(***************************************************************************)
PartAgrees(o, f) ==
  /\ o.type = f.type
  /\ PartTypes(o.type) # {} => o.part = f.count

Geometries(s) == IF s[Len(s)].type = "RING" THEN Len(s) - 1 ELSE Len(s)

PartsMatch(o, s) ==
  /\ o \in Seq(WKT!OpenType)
  /\ Len(o) = Geometries(s)
  /\ \A i \in 1 .. Len(o) : PartAgrees(o[i], s[i])

WKTAgree ==
  /\ phase = "feature" => open = << >>
  /\ phase = "geometry" => PartsMatch(open, stack)

WKTInv ==
  /\ Common(WKT!Token)
  /\ open \in Seq(WKT!OpenType)
  /\ firstRing \in BOOLEAN /\ firstCoord \in BOOLEAN
  /\ WKTAgree

(* What the invariant says of the reader alone.                            *)
LEMMA WKTReader == WKTInv => ReaderInv
BY DEF WKTInv, Common

(* The parts of the invariant the calls start from.                        *)
LEMMA WKTParts ==
  ASSUME WKTInv
  PROVE  /\ b \in BinaryOf(WKT!Token) /\ WidthFits(b) /\ b.data \in Seq(WKT!Token)
         /\ Len(b.data) \in Nat
         /\ open \in Seq(WKT!OpenType) /\ dims \in Dims \cup {"XY", Unknown}
         /\ released \in BOOLEAN /\ dim \in Dims \cup {Unknown}
         /\ firstRing \in BOOLEAN /\ firstCoord \in BOOLEAN
BY CommonParts DEF WKTInv

(* Tokens and the entries of stack_ are well typed.                        *)
LEMMA TokenTypes ==
  /\ \A t \in GeometryTypes : WKT!Tag(t) \in WKT!Token
  /\ \A d \in Dims \cup {"XY", Unknown} : WKT!DimsToken(d) \in Seq(WKT!Token)
  /\ \A d \in Dims \cup {Unknown} : WKT!Coordinate(d) \in WKT!Token
  /\ WKT!Left \in WKT!Token /\ WKT!Right \in WKT!Token
  /\ WKT!Comma \in WKT!Token /\ WKT!Empty \in WKT!Token
<1> DEFINE Token == [kind : {"tag", "dims", "coord", "mark"},
                     value : GeometryTypes \cup AllDims
                               \cup {Unknown, "(", ")", ",", "EMPTY"}]
<1>1. WKT!Token = Token
  BY WKTSame DEF WKT!Token, WKT!AllDims, AllDims
<1>2. \A t \in GeometryTypes : WKT!Tag(t) \in Token
  BY DEF WKT!Tag
<1>3. ASSUME NEW d \in Dims \cup {Unknown}
      PROVE  WKT!Coordinate(d) \in Token
  BY <1>3, ReaderAssumption DEF WKT!Coordinate
<1>4. /\ WKT!Left \in Token /\ WKT!Right \in Token
      /\ WKT!Comma \in Token /\ WKT!Empty \in Token
  BY DEF WKT!Left, WKT!Right, WKT!Comma, WKT!Empty, WKT!Punctuation
<1>5. ASSUME NEW d \in Dims \cup {"XY", Unknown}
      PROVE  WKT!DimsToken(d) \in Seq(Token)
  <2>1. CASE d \in {"XYZ", "XYM", "XYZM"}
    <3>1. WKT!DimsToken(d) = <<[kind |-> "dims", value |-> d]>>
      BY <2>1 DEF WKT!DimsToken
    <3>2. [kind |-> "dims", value |-> d] \in Token
      BY <2>1 DEF AllDims
    <3> HIDE DEF Token
    <3>3. QED
      BY <3>1, <3>2
  <2>2. CASE d \notin {"XYZ", "XYM", "XYZM"}
    <3>1. WKT!DimsToken(d) = << >>
      BY <2>2 DEF WKT!DimsToken
    <3>2. QED
      BY <3>1, EmptySeq
  <2>3. QED
    BY <2>1, <2>2
<1> HIDE DEF Token
<1>6. QED
  BY <1>1, <1>2, <1>3, <1>4, <1>5

(* Entries of stack_ are well typed, also when a part is counted.          *)
LEMMA PartEntries ==
  /\ \A t \in GeometryTypes \cup {Unrecognized}, sz \in Int :
       [type |-> t, size |-> sz, part |-> 0] \in WKT!OpenType
  /\ \A o \in WKT!OpenType : WKT!Part(o) \in WKT!OpenType
<1> DEFINE Entry == [type : GeometryTypes \cup {Unrecognized}, size : Int, part : Nat]
<1>1. WKT!OpenType = Entry
  BY WKTSame DEF WKT!OpenType
<1>2. \A t \in GeometryTypes \cup {Unrecognized}, sz \in Int :
        [type |-> t, size |-> sz, part |-> 0] \in Entry
  OBVIOUS
<1>3. \A o \in Entry : WKT!Part(o) \in Entry
  BY DEF WKT!Part
<1> HIDE DEF Entry
<1>4. QED
  BY <1>1, <1>2, <1>3

(* Counting a part of the innermost entry, if there is one.                *)
LEMMA CountingTypes ==
  ASSUME open \in Seq(WKT!OpenType)
  PROVE  WKT!Counting \in Seq(WKT!OpenType)
<1>1. CASE open = << >>
  BY <1>1 DEF WKT!Counting
<1>2. CASE open # << >>
  <2> DEFINE k == Len(open)
             o == WKT!Part(open[k])
  <2>1. k \in 1 .. Len(open) /\ k \in Nat \ {0}
    BY <1>2, EmptySeq
  <2>2. o \in WKT!OpenType
    BY <2>1, ElementOfSeq, PartEntries
  <2>3. WKT!Counting = [open EXCEPT ![k] = o]
    BY <1>2 DEF WKT!Counting
  <2> HIDE DEF o, k
  <2>4. QED
    BY <2>1, <2>2, <2>3, ExceptSeq
<1>3. QED
  BY <1>1, <1>2

(* What write_buffer() writes.                                             *)
LEMMA BufferWritten ==
  ASSUME NEW s \in BinaryOf(WKT!Token), WidthFits(s), NEW cells \in Seq(WKT!Token)
  PROVE  Written(WKT!Token, WKT!WriteBuffer(s, cells), s, cells)
<1>1. Len(cells) \in Nat /\ Len(cells) <= Len(cells)
  BY LenProperties
<1>2. WKT!WriteBuffer(s, cells) = Advance(ReserveData(s, Len(cells)), cells)
  BY WKTSame DEF WKT!WriteBuffer
<1> DEFINE n == Len(cells)
<1>3. n \in Nat /\ Len(cells) <= n
  BY <1>1
<1> HIDE DEF n
<1>4. Written(WKT!Token, Advance(ReserveData(s, n), cells), s, cells)
  BY <1>3, AdvanceKeeps
<1>5. QED
  BY <1>2, <1>4 DEF n

(* A step that keeps the elements and agrees on the stack.                 *)
LEMMA WKTKept ==
  ASSUME WKTInv, ReaderInv', UNCHANGED <<features, ends>>,
         b' \in BinaryOf(WKT!Token), WidthFits(b'),
         Offsets(b') = Offsets(b), b'.valid = b.valid,
         open' \in Seq(WKT!OpenType), dims' \in Dims \cup {"XY", Unknown},
         released' \in BOOLEAN, firstRing' \in BOOLEAN, firstCoord' \in BOOLEAN, WKTAgree'
  PROVE  WKTInv'
<1>1. PICK C : C = WKT!Token
  OBVIOUS
<1>2. Common(C)'
  BY <1>1, CommonKept DEF WKTInv
<1>3. QED
  BY <1>1, <1>2 DEF WKTInv

(* The types that have parts, and the stacks while a geometry is read.     *)
LEMMA WithParts ==
  ASSUME NEW t, PartTypes(t) # {}
  PROVE  t \notin {"POINT", "LINESTRING", "POLYGON", "RING"}
BY DEF PartTypes

(* While a geometry is read the stacks agree.                              *)
LEMMA InsideParts ==
  ASSUME WKTInv, phase = "geometry"
  PROVE  /\ open \in Seq(WKT!OpenType) /\ Len(open) \in Nat /\ Len(open) = Geometries(stack)
         /\ \A i \in 1 .. Len(open) :
              open[i] \in WKT!OpenType /\ PartAgrees(open[i], stack[i])
         /\ stack \in Seq(FrameType) /\ Len(stack) \in Nat \ {0} /\ stack # << >>
         /\ Top = stack[Len(stack)] /\ Top \in FrameType
         /\ \A i \in 1 .. Len(stack) - 1 : stack[i].type # "RING"
         /\ Len(open) = IF Top.type = "RING" THEN Len(stack) - 1 ELSE Len(stack)
<1>1. open \in Seq(WKT!OpenType) /\ PartsMatch(open, stack)
  BY DEF WKTInv, WKTAgree
<1>2. Len(open) \in Nat /\ \A i \in 1 .. Len(open) : open[i] \in WKT!OpenType
  BY <1>1, LenProperties, ElementOfSeq
<1>3. QED
  BY <1>1, <1>2, TopFrame, WKTReader DEF PartsMatch, Geometries

(* read_meta() writes nothing.                                             *)
LEMMA WKTReadMetaInv ==
  ASSUME WKTInv, WKT!CallReadMeta
  PROVE  WKTInv'
<1>1. PICK t \in WKT!GeometryTypes \cup {WKT!Unknown}, d \in Dims \cup {WKT!Unknown} :
        /\ WKT!ReadMeta(t, d) /\ dims' = d
        /\ UNCHANGED <<b, open, firstRing, firstCoord, released, WKT!history>>
  BY Zenon DEF WKT!CallReadMeta
<1>2. ReadMeta(t, d) /\ UNCHANGED ends
  BY <1>1, WKTReaderCalls DEF WKT!history
<1>3. ReaderInv' /\ UNCHANGED features
  BY <1>2, ReadMetaInv, WKTReader
<1>4. phase' = "between"
  BY <1>2 DEF ReadMeta
<1>5. WKTAgree'
  BY <1>4 DEF WKTAgree
<1>6. dims' \in Dims \cup {"XY", Unknown}
  BY <1>1, WKTSame
<1>7. QED
  BY <1>1, <1>2, <1>3, <1>5, <1>6, WKTParts, WKTKept

(* feat_start() clears stack_, so that no comma or tag depends on what is  *)
(* left of an earlier feature.                                             *)
LEMMA WKTFeatStartInv ==
  ASSUME WKTInv, WKT!CallFeatStart
  PROVE  WKTInv'
<1>1. /\ FeatStart /\ open' = << >> /\ firstRing' = TRUE /\ firstCoord' = TRUE
      /\ UNCHANGED <<b, dims, released, ends>>
  BY WKTReaderCalls, Zenon DEF WKT!CallFeatStart, WKT!history
<1>2. ReaderInv' /\ UNCHANGED <<features, stack>> /\ phase' = "feature"
  BY <1>1, FeatStartInv, WKTReader DEF FeatStart
<1>3. WKTAgree'
  BY <1>1, <1>2 DEF WKTAgree
<1>4. open' \in Seq(WKT!OpenType)
  BY <1>1, EmptySeq
<1>5. QED
  BY <1>1, <1>2, <1>3, <1>4, WKTParts, WKTKept

(* An element is finished between two features.                            *)
LEMMA WKTFinish ==
  ASSUME WKTInv, ReaderInv', NEW f \in FeatureType, NEW notNull \in BOOLEAN,
         notNull = ~f.null, EndFeature(f), Finished(notNull),
         UNCHANGED <<firstRing, firstCoord>>
  PROVE  WKTInv'
<1>1. PICK C : C = WKT!Token
  OBVIOUS
<1>2. Common(C)' /\ phase' = "between"
  BY <1>1, FinishKept DEF WKTInv
<1>3. open' = open
  BY DEF Finished
<1>4. QED
  BY <1>1, <1>2, <1>3 DEF WKTInv, WKTAgree

(* null_feat() finishes a null element and the feature.                    *)
LEMMA WKTNullFeatInv ==
  ASSUME WKTInv, WKT!CallNullFeat
  PROVE  WKTInv'
<1>1. NullFeat("ABORT_FEATURE") /\ Finished(FALSE) /\ UNCHANGED <<firstRing, firstCoord>>
  BY WKTSame, WKTReaderCalls, Zenon DEF WKT!CallNullFeat, WKT!Finish, Finished
<1>2. ReaderInv' /\ EndFeature(NullFeature)
  BY <1>1, NullFeatInv, WKTReader DEF NullFeat, Unwind, Results
<1>3. NullFeature \in FeatureType /\ FALSE = ~NullFeature.null
  BY FeatureTypes, WKTReader DEF NullFeature
<1>4. QED
  BY <1>1, <1>2, <1>3, WKTFinish

(* feat_end() finishes the element of a feature that was read to its end.  *)
LEMMA WKTFeatEndInv ==
  ASSUME WKTInv, WKT!CallFeatEnd
  PROVE  WKTInv'
<1>1. FeatEnd /\ Finished(TRUE) /\ UNCHANGED <<firstRing, firstCoord>>
  BY WKTSame, WKTReaderCalls, Zenon DEF WKT!CallFeatEnd, WKT!Finish, Finished
<1>2. ReaderInv' /\ EndFeature(Feature(cur))
  BY <1>1, FeatEndInv, WKTReader
<1>3. Feature(cur) \in FeatureType /\ TRUE = ~Feature(cur).null
  BY FeatureTypes, WKTReader DEF Feature
<1>4. QED
  BY <1>1, <1>2, <1>3, WKTFinish

(* A step that writes tokens and agrees on the stack.                      *)
LEMMA WKTWritten ==
  ASSUME WKTInv, ReaderInv', UNCHANGED <<features, ends, released>>,
         NEW cells, Written(WKT!Token, b', b, cells),
         open' \in Seq(WKT!OpenType), dims' \in Dims \cup {"XY", Unknown},
         firstRing' \in BOOLEAN, firstCoord' \in BOOLEAN, WKTAgree'
  PROVE  WKTInv'
<1>1. /\ b' \in BinaryOf(WKT!Token) /\ WidthFits(b') /\ Offsets(b') = Offsets(b)
      /\ b'.valid = b.valid
  BY DEF Written
<1>2. released' \in BOOLEAN
  BY WKTParts
<1>3. QED
  BY <1>1, <1>2, WKTKept

(* A comma between parts, a tag with its dimensions unless a multi-geometry*)
(* gives them, and a bracket or EMPTY.                                     *)
LEMMA HeadingTokens ==
  ASSUME NEW t \in GeometryTypes \cup {Unrecognized}, t = Unrecognized => WKT!Untagged,
         NEW sz, NEW d \in Dims \cup {"XY", Unknown}
  PROVE  WKT!Heading(t, sz, d) \in Seq(WKT!Token)
<1> DEFINE comma == WKT!Separator
           tag == IF WKT!Untagged THEN << >> ELSE <<WKT!Tag(t)>> \o WKT!DimsToken(d)
           mark == <<IF sz = 0 THEN WKT!Empty ELSE WKT!Left>>
<1>1. << >> \in Seq(WKT!Token) /\ \A c \in WKT!Token : <<c>> \in Seq(WKT!Token)
  OBVIOUS
<1>2. comma \in Seq(WKT!Token) /\ mark \in Seq(WKT!Token)
  BY <1>1, TokenTypes DEF WKT!Separator
<1>3. ASSUME WKT!Untagged
      PROVE  tag \in Seq(WKT!Token)
  BY <1>1, <1>3
<1>4. ASSUME ~WKT!Untagged
      PROVE  tag \in Seq(WKT!Token)
  <2>1. WKT!Tag(t) \in WKT!Token /\ WKT!DimsToken(d) \in Seq(WKT!Token)
    BY <1>4, TokenTypes
  <2>2. <<WKT!Tag(t)>> \o WKT!DimsToken(d) \in Seq(WKT!Token)
    BY <1>1, <2>1, ConcatProperties
  <2>3. tag \in Seq(WKT!Token)
    BY <1>4, <2>2
  <2>4. QED
    BY <2>3
<1>5. tag \in Seq(WKT!Token)
  BY <1>3, <1>4
<1>6. WKT!Heading(t, sz, d) = (comma \o tag) \o mark
  BY DEF WKT!Heading
<1> HIDE DEF comma, tag, mark
<1>7. QED
  BY <1>2, <1>5, <1>6, ConcatProperties

(* A part is counted in both stacks, and then it is open in both.          *)
LEMMA PushedParts ==
  ASSUME WKTInv, NEW t \in GeometryTypes, NEW sz \in Int, t # "RING",
         phase \in {"feature", "geometry"}, phase = "geometry" => Top.type # "RING",
         open' = Append(WKT!Counting, [type |-> t, size |-> sz, part |-> 0]),
         stack' = Append(IF stack = << >> THEN stack ELSE CountOne(1), Frame(t, sz))
  PROVE  PartsMatch(open', stack')
<1> DEFINE e == [type |-> t, size |-> sz, part |-> 0]
           f == Frame(t, sz)
<1>1. e \in WKT!OpenType /\ f \in FrameType
  BY PartEntries DEF Frame, FrameType
<1>2. PartAgrees(e, f) /\ f.type = t
  BY DEF PartAgrees, Frame
<1> HIDE DEF e, f
<1>3. CASE phase = "feature"
  <2>1. stack = << >> /\ open = << >>
    BY <1>3 DEF WKTInv, Common, ReaderInv, StackWellFormed, WKTAgree
  <2>2. WKT!Counting = << >>
    BY <2>1 DEF WKT!Counting
  <2>3. open' = Append(<< >>, e) /\ stack' = Append(<< >>, f)
    BY <2>1, <2>2 DEF e, f
  <2>4. /\ open' \in Seq(WKT!OpenType) /\ Len(open') = 1 /\ open'[1] = e
        /\ Len(stack') = 1 /\ stack'[1] = f
    <3>1. << >> \in Seq(WKT!OpenType) /\ << >> \in Seq(FrameType) /\ Len(<< >>) = 0
      BY EmptySeq
    <3>2. /\ Append(<< >>, e) \in Seq(WKT!OpenType) /\ Len(Append(<< >>, e)) = 1
          /\ Append(<< >>, e)[1] = e
      BY <1>1, <3>1, AppendProperties
    <3>3. Len(Append(<< >>, f)) = 1 /\ Append(<< >>, f)[1] = f
      BY <1>1, <3>1, AppendProperties
    <3>4. QED
      BY <2>3, <3>2, <3>3
  <2>5. QED
    BY <1>2, <2>4 DEF PartsMatch, Geometries
<1>4. CASE phase = "geometry"
  <2> DEFINE k == Len(stack)
             o == WKT!Part(open[k])
             c == WKT!Counting
             s == CountOne(1)
  <2>1. /\ open \in Seq(WKT!OpenType) /\ Len(open) = k /\ k \in Nat \ {0}
        /\ \A i \in 1 .. k : open[i] \in WKT!OpenType /\ PartAgrees(open[i], stack[i])
        /\ stack \in Seq(FrameType) /\ stack # << >> /\ Top = stack[k]
    BY <1>4, InsideParts
  <2>2. open # << >> /\ k \in 1 .. k /\ 1 \in Nat
    BY <2>1, EmptySeq
  <2>3. c = [open EXCEPT ![k] = o]
    BY <2>1, <2>2 DEF WKT!Counting
  <2>4. o \in WKT!OpenType
    BY <2>1, <2>2, PartEntries
  <2>5. PartAgrees(o, Counted(Top, 1))
    BY <2>1, <2>2 DEF PartAgrees, Counted, WKT!Part
  <2> HIDE DEF o, c
  <2>6. /\ c \in Seq(WKT!OpenType) /\ Len(c) = k
        /\ \A i \in 1 .. k : c[i] = IF i = k THEN o ELSE open[i]
    BY <2>1, <2>3, <2>4, ExceptSeq
  <2>7. /\ s \in Seq(FrameType) /\ Len(s) = k /\ s[k] = Counted(Top, 1)
        /\ \A i \in 1 .. k - 1 : s[i] = stack[i]
    BY <1>4, <2>2, CountFrames, WKTReader
  <2> HIDE DEF k, s
  <2>8. open' = Append(c, e) /\ stack' = Append(s, f)
    BY <2>1 DEF c, e, f, s
  <2>9. /\ open' \in Seq(WKT!OpenType) /\ Len(open') = k + 1 /\ open'[k + 1] = e
        /\ \A i \in 1 .. k : open'[i] = c[i]
    <3>1. /\ Append(c, e) \in Seq(WKT!OpenType) /\ Len(Append(c, e)) = Len(c) + 1
          /\ Append(c, e)[Len(c) + 1] = e
          /\ \A i \in 1 .. Len(c) : Append(c, e)[i] = c[i]
      BY <1>1, <2>6, AppendProperties
    <3>2. QED
      BY <2>6, <2>8, <3>1
  <2>10. /\ Len(stack') = k + 1 /\ stack'[k + 1] = f
         /\ \A i \in 1 .. k : stack'[i] = s[i]
    <3>1. /\ Len(Append(s, f)) = Len(s) + 1
          /\ Append(s, f)[Len(s) + 1] = f
          /\ \A i \in 1 .. Len(s) : Append(s, f)[i] = s[i]
      BY <1>1, <2>7, AppendProperties
    <3>2. QED
      BY <2>7, <2>8, <3>1
  <2>11. ASSUME NEW i \in 1 .. k + 1
         PROVE  PartAgrees(open'[i], stack'[i])
    <3>1. CASE i = k + 1
      BY <1>2, <2>9, <2>10, <3>1
    <3>2. CASE i = k
      BY <2>1, <2>2, <2>5, <2>6, <2>7, <2>9, <2>10, <3>2
    <3>3. CASE i \in 1 .. k - 1
      <4>1. open'[i] = open[i] /\ stack'[i] = stack[i] /\ i \in 1 .. k
        BY <2>1, <2>6, <2>7, <2>9, <2>10, <3>3
      <4>2. QED
        BY <2>1, <4>1
    <3>4. i = k + 1 \/ i = k \/ i \in 1 .. k - 1
      <4>1. k \in Nat
        BY <2>1
      <4>2. QED
        BY <4>1
    <3>5. QED
      BY <3>1, <3>2, <3>3, <3>4
  <2>12. QED
    BY <1>2, <2>9, <2>10, <2>11 DEF PartsMatch, Geometries
<1>5. QED
  BY <1>3, <1>4

(* geom_start() writes the heading of a geometry and pushes it.            *)
LEMMA WKTGeomStartInv ==
  ASSUME WKTInv, WKT!CallGeomStart
  PROVE  WKTInv'
<1>1. PICK t \in WKT!GeometryTypes \cup {WKT!Unrecognized}, sz \in -1 .. MaxParts, d \in Dims :
        /\ t = WKT!Unrecognized => WKT!Untagged
        /\ WKT!GeomStart(t, sz, d, "CONTINUE")
        /\ dims' = IF d = dim THEN dims ELSE d
        /\ b' = WKT!WriteBuffer(b, WKT!Heading(t, sz, dims'))
        /\ open' = Append(WKT!Counting, [type |-> t, size |-> sz, part |-> 0])
        /\ firstRing' = TRUE /\ firstCoord' = TRUE
        /\ UNCHANGED <<released, elements, ends>>
  BY Zenon DEF WKT!CallGeomStart
<1>2. /\ t \in GeometryTypes \cup {Unrecognized} /\ GeomStart(t, sz, d, "CONTINUE")
      /\ t = Unrecognized => WKT!Untagged
  BY <1>1, WKTSame, WKTReaderCalls
<1>3. sz \in Int /\ "CONTINUE" \in Results
  BY ReaderAssumption DEF Results
<1>4. ReaderInv'
  BY <1>2, <1>3, GeomStartInv, WKTReader
<1>5. UNCHANGED features
  <2>1. CASE t \in GeometryTypes
    BY <1>2, <1>3, <2>1, GeomStartPushes, WKTReader
  <2>2. CASE t = Unrecognized
    <3>1. GeomStart(Unrecognized, sz, d, "CONTINUE")
      BY <1>2, <2>2
    <3>2. QED
      BY <3>1, UnrecognizedFails
  <2>3. QED
    BY <1>2, <2>1, <2>2
<1>6. dims' \in Dims \cup {"XY", Unknown}
  BY <1>1, WKTParts
<1>7. Written(WKT!Token, b', b, WKT!Heading(t, sz, dims'))
  <2> DEFINE dd == dims'
  <2>1. dd \in Dims \cup {"XY", Unknown}
    BY <1>6
  <2>2. b' = WKT!WriteBuffer(b, WKT!Heading(t, sz, dd))
    BY <1>1
  <2> HIDE DEF dd
  <2>3. WKT!Heading(t, sz, dd) \in Seq(WKT!Token)
    BY <1>2, <2>1, HeadingTokens
  <2>4. b \in BinaryOf(WKT!Token) /\ WidthFits(b)
    BY WKTParts
  <2>5. Written(WKT!Token, b', b, WKT!Heading(t, sz, dd))
    BY <2>2, <2>3, <2>4, BufferWritten
  <2>6. QED
    BY <2>5 DEF dd
<1>8. ASSUME t \in GeometryTypes
      PROVE  WKTAgree' /\ open' \in Seq(WKT!OpenType)
  <2>1. /\ phase \in {"feature", "geometry"} /\ phase' = "geometry"
        /\ stack' = Append(IF stack = << >> THEN stack ELSE CountOne(1), Frame(t, sz))
        /\ phase = "geometry" => t \in PartsRead(Top.type)
    BY <1>2, <1>8, KnownOutcome DEF GeomStart, Unwind
  <2>2. phase = "geometry" => Top.type # "RING"
    BY <2>1, PartsAreOfCollections DEF MultiTypes
  <2>3. t # "RING"
    BY <1>8 DEF GeometryTypes, SimpleTypes, MultiTypes
  <2>4. open' = Append(WKT!Counting, [type |-> t, size |-> sz, part |-> 0])
    BY <1>1
  <2>5. PartsMatch(open', stack')
    BY <1>3, <1>8, <2>1, <2>2, <2>3, <2>4, PushedParts
  <2>6. QED
    BY <2>1, <2>5 DEF WKTAgree, PartsMatch
<1>9. ASSUME t = Unrecognized
      PROVE  WKTAgree' /\ open' \in Seq(WKT!OpenType)
  <2>1. phase' = "failed"
    <3>1. GeomStart(Unrecognized, sz, d, "CONTINUE")
      BY <1>2, <1>9
    <3>2. QED
      BY <3>1, UnrecognizedFails
  <2>2. [type |-> t, size |-> sz, part |-> 0] \in WKT!OpenType
    BY <1>2, <1>3, PartEntries
  <2>3. open' \in Seq(WKT!OpenType)
    BY <1>1, <2>2, CountingTypes, WKTParts, AppendProperties
  <2>4. QED
    BY <2>1, <2>3 DEF WKTAgree
<1>10. WKTAgree' /\ open' \in Seq(WKT!OpenType)
  BY <1>2, <1>8, <1>9
<1> DEFINE cells == WKT!Heading(t, sz, dims')
<1>11. Written(WKT!Token, b', b, cells)
  BY <1>7
<1> HIDE DEF cells
<1>12. QED
  BY <1>1, <1>4, <1>5, <1>6, <1>10, <1>11, WKTWritten

(* geom_start() of a type without a name throws, with at most a comma      *)
(* written: no element begins or ends.                                     *)
LEMMA WKTGeomStartThrowsInv ==
  ASSUME WKTInv, WKT!CallGeomStartThrows
  PROVE  WKTInv'
<1>1. PICK sz \in -1 .. MaxParts, d \in Dims :
        /\ WKT!GeomStart(WKT!Unrecognized, sz, d, "THROW")
        /\ dims' = IF d = dim THEN dims ELSE d
        /\ b' = WKT!WriteBuffer(b, WKT!Separator)
        /\ open' = WKT!Counting
        /\ UNCHANGED <<firstRing, firstCoord, released, ends>>
  BY Zenon DEF WKT!CallGeomStartThrows, WKT!history
<1>2. GeomStart(Unrecognized, sz, d, "THROW")
  BY <1>1, WKTSame, WKTReaderCalls
<1>3. sz \in Int /\ "THROW" \in Results
  BY ReaderAssumption DEF Results
<1>4. ReaderInv'
  BY <1>2, <1>3, GeomStartInv, WKTReader
<1>5. phase' = "failed" /\ UNCHANGED features
  BY <1>2, UnrecognizedFails
<1>6. dims' \in Dims \cup {"XY", Unknown}
  BY <1>1, WKTParts
<1> DEFINE cells == WKT!Separator
<1>7. cells \in Seq(WKT!Token)
  BY TokenTypes DEF WKT!Separator
<1>8. b' = WKT!WriteBuffer(b, cells)
  BY <1>1
<1> HIDE DEF cells
<1>9. Written(WKT!Token, b', b, cells)
  BY <1>7, <1>8, BufferWritten, WKTParts
<1>10. open' \in Seq(WKT!OpenType)
  BY <1>1, CountingTypes, WKTParts
<1>11. WKTAgree'
  BY <1>5 DEF WKTAgree
<1>12. QED
  BY <1>1, <1>4, <1>5, <1>6, <1>9, <1>10, <1>11, WKTParts, WKTWritten

(* ring_start() writes a bracket; a ring is not pushed.                    *)
LEMMA WKTRingStartInv ==
  ASSUME WKTInv, WKT!CallRingStart
  PROVE  WKTInv'
<1>1. PICK sz \in -1 .. MaxParts : RingStart(sz)
  BY WKTReaderCalls, Zenon DEF WKT!CallRingStart
<1> DEFINE cells == IF firstRing THEN <<WKT!Left>> ELSE <<WKT!Comma, WKT!Left>>
<1>2. /\ b' = WKT!WriteBuffer(b, cells)
      /\ firstRing' = FALSE /\ firstCoord' = TRUE
      /\ UNCHANGED <<open, dims, released, ends>>
  BY Zenon DEF WKT!CallRingStart
<1>3. sz \in Int
  BY ReaderAssumption
<1>4. ReaderInv' /\ UNCHANGED features
  BY <1>1, <1>3, RingStartInv, WKTReader
<1>5. cells \in Seq(WKT!Token)
  BY TokenTypes
<1> HIDE DEF cells
<1>6. Written(WKT!Token, b', b, cells)
  BY <1>2, <1>5, BufferWritten, WKTParts
<1>7. /\ phase = "geometry" /\ phase' = "geometry" /\ Top.type = "POLYGON"
      /\ stack' = Append(CountOne(1), Frame("RING", sz))
  BY <1>1 DEF RingStart
<1> DEFINE k == Len(stack)
           s == CountOne(1)
<1>8. /\ open \in Seq(WKT!OpenType) /\ Len(open) = k /\ k \in Nat \ {0}
      /\ \A i \in 1 .. k : PartAgrees(open[i], stack[i])
      /\ Top = stack[k]
  BY <1>7, InsideParts
<1>9. /\ s \in Seq(FrameType) /\ Len(s) = k /\ s[k] = Counted(Top, 1)
      /\ \A i \in 1 .. k - 1 : s[i] = stack[i]
  BY <1>7, CountFrames, WKTReader
<1>10. Frame("RING", sz) \in FrameType /\ Frame("RING", sz).type = "RING"
  BY <1>3 DEF Frame, FrameType
<1> HIDE DEF k, s
<1>11. /\ Len(stack') = k + 1 /\ stack'[k + 1] = Frame("RING", sz)
       /\ \A i \in 1 .. k : stack'[i] = s[i]
  <2>1. stack' = Append(s, Frame("RING", sz))
    BY <1>7 DEF s
  <2>2. /\ Len(Append(s, Frame("RING", sz))) = Len(s) + 1
        /\ Append(s, Frame("RING", sz))[Len(s) + 1] = Frame("RING", sz)
        /\ \A i \in 1 .. Len(s) : Append(s, Frame("RING", sz))[i] = s[i]
    BY <1>9, <1>10, AppendProperties
  <2>3. QED
    BY <1>9, <2>1, <2>2
<1>12. ASSUME NEW i \in 1 .. k
       PROVE  PartAgrees(open'[i], stack'[i])
  <2>1. PartAgrees(open[i], stack[i]) /\ open' = open
    BY <1>2, <1>8
  <2>2. CASE i = k
    <3>1. open[i].type = "POLYGON" /\ PartTypes("POLYGON") = {}
      BY <1>7, <1>8, <2>1, <2>2, WithParts DEF PartAgrees
    <3>2. stack'[i].type = "POLYGON"
      BY <1>7, <1>9, <1>11, <2>2 DEF Counted
    <3>3. QED
      BY <2>1, <3>1, <3>2 DEF PartAgrees
  <2>3. CASE i # k
    <3>1. stack'[i] = stack[i]
      BY <1>8, <1>9, <1>11, <2>3, SMTT(30)
    <3>2. QED
      BY <2>1, <3>1
  <2>4. QED
    BY <2>2, <2>3
<1>13. PartsMatch(open', stack')
  BY <1>2, <1>8, <1>10, <1>11, <1>12 DEF PartsMatch, Geometries
<1>14. WKTAgree' /\ open' \in Seq(WKT!OpenType)
  BY <1>7, <1>13 DEF WKTAgree, PartsMatch
<1>15. QED
  BY <1>2, <1>4, <1>6, <1>14, WKTParts, WKTWritten

(* The coordinates and the commas before them.                             *)
LEMMA CoordTokenTypes ==
  ASSUME NEW n \in Nat \ {0}, dim \in Dims \cup {Unknown}
  PROVE  WKT!CoordTokens(n) \in Seq(WKT!Token) /\ Len(WKT!CoordTokens(n)) <= 2 * n
<1> DEFINE token(i) == IF i % 2 = 1 THEN WKT!Comma ELSE WKT!Coordinate(dim)
           tokens == [i \in 1 .. 2 * n |-> token(i)]
<1>1. \A i \in 1 .. 2 * n : token(i) \in WKT!Token
  BY TokenTypes
<1>2. WKT!CoordTokens(n) = IF firstCoord THEN Tail(tokens) ELSE tokens
  BY DEF WKT!CoordTokens
<1> HIDE DEF token
<1>3. tokens \in [1 .. 2 * n -> WKT!Token] /\ DOMAIN tokens = 1 .. 2 * n
  BY <1>1
<1> HIDE DEF tokens
<1>4. tokens \in Seq(WKT!Token) /\ Len(tokens) = 2 * n
  BY <1>3
<1>5. tokens # << >>
  BY <1>4
<1>6. Tail(tokens) \in Seq(WKT!Token) /\ Len(Tail(tokens)) = Len(tokens) - 1
  BY <1>4, <1>5, HeadTailProperties
<1>7. QED
  BY <1>2, <1>4, <1>6

(* coords() writes behind room for all of the coordinates.                 *)
LEMMA WKTCoordsInv ==
  ASSUME WKTInv, WKT!CallCoords
  PROVE  WKTInv'
<1>1. PICK n \in 1 .. MaxParts :
        /\ Coords(n)
        /\ b' = WKT!Advance(WKT!ReserveData(b, 2 * n), WKT!CoordTokens(n))
        /\ firstCoord' = FALSE
        /\ UNCHANGED <<open, firstRing, dims, released, elements, ends>>
  BY WKTReaderCalls, Zenon DEF WKT!CallCoords
<1>2. n \in Nat \ {0} /\ 2 * n \in Nat
  BY <1>1, ReaderAssumption
<1>3. ReaderInv' /\ UNCHANGED features
  BY <1>1, <1>2, CoordsInv, WKTReader
<1> DEFINE cells == WKT!CoordTokens(n)
           room == 2 * n
<1>4. cells \in Seq(WKT!Token) /\ Len(cells) <= room /\ room \in Nat
  BY <1>2, CoordTokenTypes, WKTParts
<1>5. b' = Advance(ReserveData(b, room), cells)
  BY <1>1, WKTSame
<1> HIDE DEF cells, room
<1>6. Written(WKT!Token, b', b, cells)
  <2>1. b \in BinaryOf(WKT!Token) /\ WidthFits(b)
    BY WKTParts
  <2>2. Written(WKT!Token, Advance(ReserveData(b, room), cells), b, cells)
    BY <1>4, <2>1, AdvanceKeeps
  <2>3. QED
    BY <1>5, <2>2
<1>7. /\ phase = "geometry" /\ phase' = "geometry" /\ stack' = CountOne(n)
      /\ Top.type \in {"POINT", "LINESTRING", "RING"}
  BY <1>1 DEF Coords
<1> DEFINE k == Len(stack)
<1>8. /\ open \in Seq(WKT!OpenType) /\ Len(open) \in Nat /\ k \in Nat \ {0}
      /\ \A i \in 1 .. Len(open) : PartAgrees(open[i], stack[i])
      /\ Top = stack[k]
      /\ Len(open) = IF Top.type = "RING" THEN k - 1 ELSE k
  BY <1>7, InsideParts
<1>9. /\ Len(stack') = k /\ stack'[k] = Counted(Top, n)
      /\ \A i \in 1 .. k - 1 : stack'[i] = stack[i]
  BY <1>2, <1>7, CountFrames, WKTReader
<1> HIDE DEF k
<1>10. stack'[k].type = Top.type
  BY <1>9 DEF Counted
<1>11. ASSUME NEW i \in 1 .. Len(open)
       PROVE  PartAgrees(open[i], stack'[i])
  <2>1. PartAgrees(open[i], stack[i]) /\ i \in 1 .. k
    BY <1>8
  <2>2. CASE i = k
    <3>1. open[i].type = Top.type /\ PartTypes(open[i].type) = {}
      BY <1>7, <1>8, <2>1, <2>2, WithParts DEF PartAgrees
    <3>2. QED
      BY <1>10, <2>2, <3>1 DEF PartAgrees
  <2>3. CASE i # k
    <3>1. stack'[i] = stack[i]
      BY <1>8, <1>9, <2>1, <2>3
    <3>2. QED
      BY <2>1, <3>1
  <2>4. QED
    BY <2>2, <2>3
<1>12. PartsMatch(open', stack')
  BY <1>1, <1>8, <1>9, <1>10, <1>11 DEF PartsMatch, Geometries
<1>13. WKTAgree' /\ open' \in Seq(WKT!OpenType)
  BY <1>7, <1>12 DEF WKTAgree, PartsMatch
<1>14. QED
  BY <1>1, <1>3, <1>6, <1>13, WKTParts, WKTWritten

(* ring_end() writes a bracket and pops nothing.                           *)
LEMMA WKTRingEndInv ==
  ASSUME WKTInv, WKT!CallRingEnd
  PROVE  WKTInv'
<1> DEFINE cells == <<WKT!Right>>
<1>1. /\ RingEnd /\ b' = WKT!WriteBuffer(b, cells)
      /\ UNCHANGED <<open, firstRing, firstCoord, dims, released, ends>>
  BY WKTReaderCalls, Zenon DEF WKT!CallRingEnd
<1>2. ReaderInv' /\ UNCHANGED features /\ Top.type = "RING" /\ Len(stack') = Len(stack) - 1
  BY <1>1, RingEndInv, WKTReader
<1>3. cells \in Seq(WKT!Token)
  BY TokenTypes
<1> HIDE DEF cells
<1>4. Written(WKT!Token, b', b, cells)
  BY <1>1, <1>3, BufferWritten, WKTParts
<1>5. phase = "geometry" /\ phase' = "geometry" /\ stack' = SubSeq(stack, 1, Len(stack) - 1)
  BY <1>1 DEF RingEnd
<1> DEFINE k == Len(stack)
<1>6. /\ open \in Seq(WKT!OpenType) /\ Len(open) = k - 1 /\ k \in Nat \ {0}
      /\ \A i \in 1 .. k - 1 : PartAgrees(open[i], stack[i])
      /\ stack # << >>
  BY <1>2, <1>5, InsideParts
<1>7. /\ Len(stack') = k - 1
      /\ \A i \in 1 .. k - 1 : stack'[i] = stack[i] /\ stack'[i].type # "RING"
  BY <1>2, <1>5, <1>6, PopInv, WKTReader
<1>8. k - 1 \in 1 .. k - 1
  <2>1. Len(stack) >= 2
    BY <1>1, RingEndInv, WKTReader
  <2>2. QED
    BY <1>6, <2>1
<1> HIDE DEF k
<1>9. PartsMatch(open', stack')
  BY <1>1, <1>6, <1>7, <1>8 DEF PartsMatch, Geometries
<1>10. WKTAgree' /\ open' \in Seq(WKT!OpenType)
  BY <1>5, <1>9 DEF WKTAgree, PartsMatch
<1>11. QED
  BY <1>1, <1>2, <1>4, <1>10, WKTParts, WKTWritten

(* geom_end() pops the geometry that ends.                                 *)
LEMMA PoppedParts ==
  ASSUME WKTInv, phase = "geometry", Top.type # "RING",
         open' = SubSeq(open, 1, Len(open) - 1), stack' = SubSeq(stack, 1, Len(stack) - 1)
  PROVE  open' \in Seq(WKT!OpenType) /\ (Len(stack) # 1 => PartsMatch(open', stack'))
<1> DEFINE k == Len(stack)
<1>1. /\ open \in Seq(WKT!OpenType) /\ Len(open) = k /\ k \in Nat \ {0}
      /\ \A i \in 1 .. k : open[i] \in WKT!OpenType /\ PartAgrees(open[i], stack[i])
      /\ stack # << >>
  BY InsideParts
<1>2. /\ Len(stack') = k - 1
      /\ \A i \in 1 .. k - 1 : stack'[i] = stack[i] /\ stack'[i].type # "RING"
  BY <1>1, PopInv, WKTReader
<1> HIDE DEF k
<1>3. /\ open' \in Seq(WKT!OpenType) /\ Len(open') = k - 1
      /\ \A i \in 1 .. k - 1 : open'[i] = open[i]
  <2> DEFINE n == k - 1
  <2>1. n \in Nat /\ n \in Int /\ \A i \in 1 .. n : open[i] \in WKT!OpenType
    BY <1>1
  <2>2. open' = SubSeq(open, 1, n)
    BY <1>1
  <2> HIDE DEF n
  <2>3. /\ SubSeq(open, 1, n) \in Seq(WKT!OpenType)
        /\ Len(SubSeq(open, 1, n)) = IF 1 <= n THEN n - 1 + 1 ELSE 0
        /\ \A i \in 1 .. n - 1 + 1 : SubSeq(open, 1, n)[i] = open[1 + i - 1]
    BY <2>1, SubSeqProperties
  <2>4. /\ open' \in Seq(WKT!OpenType) /\ Len(open') = n
        /\ \A i \in 1 .. n : open'[i] = open[i]
    BY <2>1, <2>2, <2>3
  <2>5. QED
    BY <2>4 DEF n
<1>4. ASSUME k # 1
      PROVE  PartsMatch(open', stack')
  <2>1. k - 1 \in 1 .. k - 1
    BY <1>1, <1>4
  <2>2. \A i \in 1 .. k - 1 : PartAgrees(open'[i], stack'[i])
    BY <1>1, <1>2, <1>3
  <2>3. QED
    BY <1>2, <1>3, <2>1, <2>2 DEF PartsMatch, Geometries
<1>5. QED
  BY <1>3, <1>4 DEF k

(* A bracket unless EMPTY was written, and nothing stays on stack_.        *)
LEMMA WKTGeomEndInv ==
  ASSUME WKTInv, WKT!CallGeomEnd
  PROVE  WKTInv'
<1> DEFINE cells == <<WKT!Right>>
<1>1. /\ GeomEnd
      /\ b' = WKT!WriteBuffer(b, cells) \/ b' = b
      /\ open' = IF open = << >> THEN open ELSE SubSeq(open, 1, Len(open) - 1)
      /\ UNCHANGED <<firstRing, firstCoord, dims, released, ends>>
  BY WKTReaderCalls DEF WKT!CallGeomEnd
<1>2. ReaderInv' /\ UNCHANGED features /\ Top.type # "RING"
  BY <1>1, GeomEndInv, WKTReader
<1>3. cells \in Seq(WKT!Token)
  BY TokenTypes
<1> HIDE DEF cells
<1>4. /\ phase = "geometry"
      /\ phase' = IF Len(stack) = 1 THEN "closing" ELSE "geometry"
      /\ stack' = SubSeq(stack, 1, Len(stack) - 1)
  BY <1>1 DEF GeomEnd
<1>5. open # << >>
  BY <1>2, <1>4, InsideParts, EmptySeq
<1>6. open' \in Seq(WKT!OpenType) /\ (Len(stack) # 1 => PartsMatch(open', stack'))
  BY <1>1, <1>2, <1>4, <1>5, PoppedParts
<1>7. WKTAgree'
  BY <1>4, <1>6 DEF WKTAgree
<1>8. CASE b' = b
  BY <1>1, <1>2, <1>6, <1>7, <1>8, WKTParts, WKTKept
<1>9. CASE b' = WKT!WriteBuffer(b, cells)
  <2>1. Written(WKT!Token, b', b, cells)
    BY <1>3, <1>9, BufferWritten, WKTParts
  <2>2. QED
    BY <1>1, <1>2, <1>6, <1>7, <2>1, WKTParts, WKTWritten
<1>10. QED
  BY <1>1, <1>8, <1>9

(* The end of the loop, release() and stuttering write nothing.            *)
LEMMA WKTOtherSteps ==
  ASSUME WKTInv, WKT!CallReadDone \/ WKT!Release \/ UNCHANGED vars
  PROVE  WKTInv'
<1>1. /\ UNCHANGED <<b, open, dims, ends, firstRing, firstCoord>>
      /\ ReadDone \/ UNCHANGED readerVars
      /\ released' \in {released, TRUE}
  <2>1. CASE WKT!CallReadDone
    BY <2>1, WKTReaderCalls DEF WKT!CallReadDone, WKT!history, WKT!builderVars
  <2>2. CASE WKT!Release
    BY <2>2 DEF WKT!Release, WKT!readerVars, WKT!history, readerVars
  <2>3. CASE UNCHANGED vars
    BY <2>3 DEF vars, wktVars
  <2>4. QED
    BY <2>1, <2>2, <2>3
<1>2. ReaderInv' /\ UNCHANGED features
  <2>1. CASE ReadDone
    BY <2>1, ReadDoneInv, WKTReader
  <2>2. CASE UNCHANGED readerVars
    BY <2>2, WKTReader DEF readerVars, ReaderInv, ReaderTypeOK, StackWellFormed
  <2>3. QED
    BY <1>1, <2>1, <2>2
<1>3. released' \in BOOLEAN
  BY <1>1, WKTParts
<1>4. WKTAgree'
  <2>1. CASE ReadDone
    BY <2>1 DEF ReadDone, WKTAgree
  <2>2. CASE UNCHANGED readerVars
    <3>1. UNCHANGED <<phase, stack>>
      BY <2>2 DEF readerVars
    <3>2. QED
      BY <1>1, <3>1 DEF WKTAgree, WKTInv
  <2>3. QED
    BY <1>1, <2>1, <2>2
<1>5. QED
  BY <1>1, <1>2, <1>3, <1>4, WKTParts, WKTKept DEF Offsets, WidthFits

(* Every step of the writer of WKT preserves its invariant.                *)
LEMMA WKTNextInv ==
  ASSUME WKTInv, WKT!Next \/ UNCHANGED vars
  PROVE  WKTInv'
<1>1. CASE WKT!CallReadMeta
  BY <1>1, WKTReadMetaInv
<1>2. CASE WKT!CallFeatStart
  BY <1>2, WKTFeatStartInv
<1>3. CASE WKT!CallNullFeat
  BY <1>3, WKTNullFeatInv
<1>4. CASE WKT!CallGeomStart
  BY <1>4, WKTGeomStartInv
<1>5. CASE WKT!CallRingStart
  BY <1>5, WKTRingStartInv
<1>6. CASE WKT!CallCoords
  BY <1>6, WKTCoordsInv
<1>7. CASE WKT!CallRingEnd
  BY <1>7, WKTRingEndInv
<1>8. CASE WKT!CallGeomEnd
  BY <1>8, WKTGeomEndInv
<1>9. CASE WKT!CallFeatEnd
  BY <1>9, WKTFeatEndInv
<1>10. CASE WKT!CallReadDone \/ WKT!Release \/ UNCHANGED vars
  BY <1>10, WKTOtherSteps
<1>11. CASE WKT!CallGeomStartThrows
  BY <1>11, WKTGeomStartThrowsInv
<1>12. QED
  BY <1>1, <1>2, <1>3, <1>4, <1>5, <1>6, <1>7, <1>8, <1>9, <1>10, <1>11 DEF WKT!Next

(* A new builder has nothing open.                                         *)
LEMMA WKTInitInv == WKT!Init => WKTInv
<1> SUFFICES ASSUME WKT!Init PROVE WKTInv
  OBVIOUS
<1>1. PICK large \in BOOLEAN : b = NewBinary(large)
  BY WKTSame, Zenon DEF WKT!Init
<1>2. /\ ReaderInit /\ open = << >> /\ dims = "XY" /\ released = FALSE /\ ends = << >>
      /\ firstRing = TRUE /\ firstCoord = TRUE
  BY WKTReaderCalls, Zenon DEF WKT!Init
<1>3. PICK C : C = WKT!Token
  OBVIOUS
<1>4. Common(C)
  BY <1>1, <1>2, CommonInit
<1>5. open \in Seq(WKT!OpenType)
  BY <1>2, EmptySeq
<1>6. WKTAgree
  BY <1>2 DEF WKTAgree, ReaderInit
<1>7. QED
  BY <1>2, <1>3, <1>4, <1>5, <1>6 DEF WKTInv

(* What the invariant says in the terms of CastWKT.                        *)
LEMMA WKTImplied == WKTInv => WKT!TypeOK /\ WKT!StacksAgree
<1> SUFFICES ASSUME WKTInv PROVE WKT!TypeOK /\ WKT!StacksAgree
  OBVIOUS
<1>1. WKT!ReaderTypeOK <=> ReaderTypeOK
  BY WKTSame
     DEF WKT!ReaderTypeOK, ReaderTypeOK, WKT!Phases, Phases, WKT!FrameType, FrameType,
         WKT!FeatureType, FeatureType
<1>2. /\ WKT!BinaryOf(WKT!Token) = BinaryOf(WKT!Token)
      /\ WKT!WidthFits(b) <=> WidthFits(b)
  BY DEF WKT!BinaryOf, BinaryOf, WKT!WidthFits, WidthFits
<1>3. ReaderTypeOK /\ ends \in Seq(Nat)
  BY DEF WKTInv, Common, ReaderInv
<1>4. WKT!TypeOK
  BY <1>1, <1>2, <1>3, WKTParts, WKTSame DEF WKT!TypeOK
<1>5. ASSUME phase = "geometry"
      PROVE  Len(open) = WKT!OpenGeometries
  BY <1>5, InsideParts, WKTStackSame DEF WKT!OpenGeometries
<1>6. ASSUME phase = "geometry", NEW i \in 1 .. Len(open)
      PROVE  /\ open[i].type = stack[i].type
             /\ WKT!PartTypes(open[i].type) # {} => open[i].part = stack[i].count
  BY <1>6, InsideParts, WKTStackSame DEF PartAgrees
<1>7. WKT!StacksAgree
  BY <1>5, <1>6 DEF WKT!StacksAgree
<1>8. QED
  BY <1>4, <1>7

(***************************************************************************)
(* The theorems.                                                           *)
(***************************************************************************)
IInv ==
  /\ format \in {"wkb", "wkt"}
  /\ format = "wkb" => WKBInv
  /\ format = "wkt" => WKTInv

(* The builder that create_builder() chose is the one that is written to.  *)
LEMMA NextIInv == IInv /\ [Next]_vars => IInv'
<1> SUFFICES ASSUME IInv, [Next]_vars PROVE IInv'
  OBVIOUS
<1>1. format' = format
  BY DEF Next, CastToWKB, CastToWKT, vars
<1>2. CASE format = "wkb"
  <2>1. WKB!Next \/ UNCHANGED vars
    BY <1>2 DEF Next, CastToWKB, CastToWKT
  <2>2. WKBInv'
    BY <1>2, <2>1, WKBNextInv DEF IInv
  <2>3. QED
    BY <1>1, <1>2, <2>2 DEF IInv
<1>3. CASE format = "wkt"
  <2>1. WKT!Next \/ UNCHANGED vars
    BY <1>3 DEF Next, CastToWKB, CastToWKT
  <2>2. WKTInv'
    BY <1>3, <2>1, WKTNextInv DEF IInv
  <2>3. QED
    BY <1>1, <1>3, <2>2 DEF IInv
<1>4. QED
  BY <1>2, <1>3 DEF IInv

(* The inductive invariant holds in every reachable state of a cast to     *)
(* either format.                                                          *)
THEOREM SerializedInvariant == Spec => []IInv
<1>1. Init => IInv
  BY WKBInitInv, WKTInitInv DEF Init, IInv
<1>2. IInv /\ [Next]_vars => IInv'
  BY NextIInv
<1>3. QED
  BY <1>1, <1>2, PTL DEF Spec

(* One offset buffer is in use, and the 32-bit one only while all of the   *)
(* data, of an unfinished element too, is below INT32_MAX.                 *)
THEOREM SerializedTypeCorrect == Spec => []TypeOK
<1>1. IInv => TypeOK
  BY WKBImplied, WKTImplied DEF IInv, TypeOK
<1>2. QED
  BY <1>1, SerializedInvariant, PTL

(* The offsets exported are the ends of the elements, whatever INT32_MAX   *)
(* is and wherever in the data the offsets were widened.                   *)
THEOREM SerializedOffsetsExact == Spec => []OffsetsExact
<1>1. IInv => OffsetsExact
  BY DEF IInv, WKBInv, WKTInv, Common
<1>2. QED
  BY <1>1, SerializedInvariant, PTL

(* Every feature read is exactly one element, null where it was null.      *)
THEOREM SerializedElements == Spec => []OneElementPerFeature
<1>1. IInv => OneElementPerFeature
  BY DEF IInv, WKBInv, WKTInv, Common, ElementsCounted, OneElementPerFeature
<1>2. QED
  BY <1>1, SerializedInvariant, PTL

(* For any reader, nesting depth and size: in WKB each entry of stack_     *)
(* holds the number of parts read so far and the position of a count to    *)
(* replace, in WKT it holds what commas and tags are decided from.         *)
THEOREM SerializedStacksAgree == Spec => []StacksAgree
<1>1. IInv => StacksAgree
  BY WKBImplied, WKTImplied DEF IInv, StacksAgree
<1>2. QED
  BY <1>1, SerializedInvariant, PTL
==================================================================================
