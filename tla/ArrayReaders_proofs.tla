------------------------- MODULE ArrayReaders_proofs -------------------------
(***************************************************************************)
(* The three readers of the library implement the protocol the models of   *)
(* the handlers are driven by (FeatureReader!ReaderSpec), what headers     *)
(* announce is in force where it is used, and no coordinate is read past   *)
(* the end of an element of WKB.                                           *)
(*                                                                         *)
(* The invariant has a part for the loop around the readers and one for    *)
(* each reader. The bounds of the protocol make its parts count: that a    *)
(* reader stays within them has to follow from the size of what it reads.  *)
(***************************************************************************)
EXTENDS ArrayReaders, FeatureReader_proofs, FiniteSetTheorems, WellFoundedInduction

Busy == phase \in {"feature", "geometry", "closing"}
Collects == MultiTypes \cup {"GEOMETRYCOLLECTION"}
OfCoords == {"POINT", "LINESTRING", "RING"}

(* Only multi-geometries and collections hold geometries, of any type, and *)
(* only polygons hold rings.                                               *)
NestInv ==
  \A i \in 1 .. Len(stack) - 1 :
    \/ stack[i].type \in Collects /\ stack[i + 1].type \in GeometryTypes
    \/ stack[i].type = "POLYGON" /\ stack[i + 1].type = "RING"

(* The loop: an iteration ends with at most one feature, and a geometry is *)
(* open only in a row that is not null.                                    *)
LoopInv ==
  /\ array \in Arrays
  /\ filter \in Filters
  /\ filter.kind = "logical" => Len(filter.values) = array.length
  /\ slot \in 0 .. Iterations
  /\ phase = "start" => slot = 0
  /\ Len(features) + (IF Busy THEN 1 ELSE 0) <= slot
  /\ Busy => Row # Skipped
  /\ phase \in {"start", "between", "feature"} => cur = << >>
  /\ phase = "geometry" \/ cur # << >> => Row # NA /\ ~IsNull(Row)

(* What was announced before a geometry is open.                           *)
AnnouncedInv ==
  /\ phase = "geometry" => announced = stack[1].type /\ dim \in Dims
  /\ reader # "native" => meta.type = Unknown /\ meta.dim = Unknown
  /\ reader = "native" /\ phase # "start" =>
       /\ meta.type \in RootTypes \ {"GEOMETRYCOLLECTION"} /\ meta.dim \in Dims
       /\ announced = meta.type /\ dim = meta.dim

(***************************************************************************)
(* The native reader: the frame at depth i reads list array i, and all its *)
(* parts exist in the array below.                                         *)
(***************************************************************************)
FrameDepth(t) == IF t = "RING" THEN 1 ELSE Depth(t)
LastOffset(l) == levels[l].offsets[Len(levels[l].offsets)]

ListLevel == [offset : Nat, offsets : ListOffsets \cup {<<0>>}]

NativeInv ==
  reader = "native" =>
    /\ phase = "start" => levels = << >>
    /\ phase # "start" => levels \in [1 .. Depth(meta.type) -> ListLevel]
    /\ phase # "start" => Fits(levels, array.length)
    /\ Len(starts) = Len(stack)
    /\ starts \in Seq(Nat)
    /\ \A i \in 1 .. Len(stack) :
         /\ stack[i].type # "GEOMETRYCOLLECTION"
         /\ i + FrameDepth(stack[i].type) = Depth(meta.type) + 1
         /\ stack[i].type \in MultiTypes => i = 1
         /\ stack[i].size \in 0 .. MaxParts
         /\ stack[i].type = "POINT" => stack[i].size = 1
         /\ stack[i].type # "POINT" => starts[i] + stack[i].size <= LastOffset(i)

(***************************************************************************)
(* The WKB reader: simple geometries, which have no parts with a header of *)
(* their own, hold the header read last. The rest of a sequence that was   *)
(* begun is within the element. Each geometry that may have parts has      *)
(* taken three fields.                                                     *)
(***************************************************************************)
WKBInv ==
  /\ reader # "wkb" => heads = << >> /\ left = 0
  /\ heads \in Seq([dim : Dims, swap : BOOLEAN])
  /\ left \in Nat
  /\ reader = "wkb" =>
       /\ Len(heads) = Len(stack)
       /\ \A i \in 1 .. Len(stack) :
            /\ stack[i].size \in 0 .. MaxParts
            /\ stack[i].type \notin Collects => heads[i] = [dim |-> dim, swap |-> swapping]
            /\ stack[i].type \in Collects => left + 3 * i <= MaxFields
            /\ stack[i].type \in OfCoords /\ stack[i].count > 0 =>
                 left >= CoordSize[dim] * (stack[i].size - stack[i].count)

(***************************************************************************)
(* The WKT reader: what the rule of each frame has consumed, and with it   *)
(* how many tokens are left for more parts and more depth.                 *)
(***************************************************************************)
Remaining == fuel + (IF ahead = "end" THEN 0 ELSE 1)

RuleInv ==
  phase = "geometry" =>
    /\ \A i \in 1 .. Len(stack) - 1 : stack[i].size = -1 /\ stack[i].count > 0
    /\ Top.size \in {-1, 0} \/ (Top.type = "POINT" /\ Top.size = 1)
    /\ Top.type = "RING" => Top.size = -1
    /\ \/ /\ expect = "open"
          /\ Top.count = 0
          /\ Top.type # "RING" => (Top.size = 0 <=> ahead = "EMPTY")
       \/ /\ expect = "item"
          /\ Top.type # "GEOMETRYCOLLECTION" /\ Top.size # 0
          /\ Top.type = "POINT" => Top.count = 0
       \/ expect = "header" /\ Top.type = "GEOMETRYCOLLECTION" /\ Top.size = -1
       \/ expect = "separator" /\ Top.type # "POINT" /\ Top.size = -1 /\ Top.count > 0
       \/ expect = "close" /\ Top.type = "POINT" /\ Top.size # 0 /\ Top.count = 1
       \/ expect = "done" /\ MayEnd(Top)

TokensInv ==
  phase = "geometry" =>
    LET L == Len(stack) IN
    /\ \A i \in 1 .. L :
         stack[i].type \in Collects =>
           2 * i + Remaining <= MaxTokens + (IF i = L /\ expect = "open" THEN 2 ELSE 1)
    /\ \A i \in 1 .. L - 2 : 2 * stack[i].count + Remaining <= MaxTokens
    /\ L > 1 =>
         2 * stack[L - 1].count + Remaining
           <= MaxTokens + (IF expect = "open" \/ (expect = "item" /\ Top.type = "POINT")
                           THEN 1 ELSE 0)
    /\ expect \in {"open", "separator"} => 2 * Top.count + Remaining <= MaxTokens
    /\ expect \in {"item", "header"} => 2 * Top.count + Remaining <= MaxTokens - 1

WKTInv ==
  reader = "wkt" =>
    /\ ahead \in Tokens
    /\ fuel \in 0 .. MaxTokens
    /\ dim # Unknown => coordDim = dim
    /\ RuleInv
    /\ TokensInv

IInv == ReaderInv /\ NestInv /\ LoopInv /\ AnnouncedInv /\ NativeInv /\ WKBInv /\ WKTInv

(***************************************************************************)
(* What a call does to the open geometries.                                *)
(***************************************************************************)

(* A reader looks for parts in geometries that collect, and for parts of   *)
(* the types of the format at least.                                       *)
LEMMA PartsReadAre ==
  ASSUME NEW t
  PROVE  /\ PartTypes(t) \subseteq PartsRead(t)
         /\ PartsRead(t) # {} => t \in Collects
BY PartsAreOfCollections DEF PartsRead, Collects

(* Every open frame has a type and counts what it has seen.                *)
LEMMA Frames ==
  ASSUME ReaderInv
  PROVE  /\ stack \in Seq(FrameType) /\ Len(stack) \in Nat
         /\ phase = "geometry" <=> Len(stack) > 0
         /\ \A i \in 1 .. Len(stack) :
              /\ stack[i] \in FrameType /\ stack[i].size \in Int /\ stack[i].count \in Nat
              /\ stack[i].type \in GeometryTypes \cup {"RING"}
<1>1. stack \in Seq(FrameType) /\ Len(stack) \in Nat
  BY LenProperties DEF ReaderInv, ReaderTypeOK
<1>2. phase = "geometry" <=> Len(stack) > 0
  BY <1>1, EmptySeq DEF ReaderInv, StackWellFormed
<1>3. \A i \in 1 .. Len(stack) : stack[i] \in FrameType
  BY <1>1, ElementOfSeq
<1>4. QED
  BY <1>1, <1>2, <1>3 DEF FrameType

(* Closing the innermost frame.                                            *)
LEMMA Popped ==
  ASSUME ReaderInv, phase = "geometry", stack' = SubSeq(stack, 1, Len(stack) - 1)
  PROVE  /\ Len(stack') = Len(stack) - 1
         /\ \A i \in 1 .. Len(stack) - 1 : stack'[i] = stack[i]
<1>1. stack # << >>
  BY DEF ReaderInv, StackWellFormed
<1>2. QED
  BY <1>1, PopInv

(* A part may follow the frame it is counted in.                           *)
LEMMA NestPush ==
  ASSUME ReaderInv, NestInv, phase = "geometry", NEW f \in FrameType,
         stack' = Append(CountOne(1), f),
         \/ Top.type \in Collects /\ f.type \in GeometryTypes
         \/ Top.type = "POLYGON" /\ f.type = "RING"
  PROVE  NestInv'
<1> DEFINE n == Len(stack)
<1>1. n \in Nat \ {0} /\ Top = stack[n]
  BY TopFrame
<1>2. /\ Len(stack') = n + 1 /\ stack'[n + 1] = f /\ stack'[n] = Counted(Top, 1)
      /\ \A i \in 1 .. n - 1 : stack'[i] = stack[i]
  BY PushFrames
<1>3. Counted(Top, 1).type = Top.type
  BY DEF Counted
<1> HIDE DEF n
<1>4. \A i \in 1 .. n : stack'[i].type = stack[i].type
  BY <1>1, <1>2, <1>3
<1>5. \A i \in 1 .. n - 1 :
        \/ stack[i].type \in Collects /\ stack[i + 1].type \in GeometryTypes
        \/ stack[i].type = "POLYGON" /\ stack[i + 1].type = "RING"
  BY DEF NestInv, n
<1>6. \A i \in 1 .. Len(stack') - 1 :
        \/ stack'[i].type \in Collects /\ stack'[i + 1].type \in GeometryTypes
        \/ stack'[i].type = "POLYGON" /\ stack'[i + 1].type = "RING"
  <2> SUFFICES ASSUME NEW i \in 1 .. n
               PROVE \/ stack'[i].type \in Collects
                        /\ stack'[i + 1].type \in GeometryTypes
                     \/ stack'[i].type = "POLYGON" /\ stack'[i + 1].type = "RING"
    BY <1>1, <1>2
  <2>1. CASE i = n
    BY <1>1, <1>2, <1>3, <2>1
  <2>2. CASE i # n
    <3>1. i \in 1 .. n - 1 /\ i + 1 \in 1 .. n
      BY <1>1, <2>2
    <3>2. stack'[i].type = stack[i].type /\ stack'[i + 1].type = stack[i + 1].type
      BY <1>4, <3>1
    <3>3. QED
      BY <1>5, <3>1, <3>2
  <2>3. QED
    BY <2>1, <2>2
<1>7. QED
  BY <1>6 DEF NestInv

(* Frames that keep their types keep their nesting.                        *)
LEMMA NestSame ==
  ASSUME NestInv, Len(stack) \in Nat, Len(stack') \in Nat, Len(stack') <= Len(stack),
         \A i \in 1 .. Len(stack') : stack'[i].type = stack[i].type
  PROVE  NestInv'
<1> SUFFICES ASSUME NEW i \in 1 .. Len(stack') - 1
             PROVE \/ stack'[i].type \in Collects
                      /\ stack'[i + 1].type \in GeometryTypes
                   \/ stack'[i].type = "POLYGON" /\ stack'[i + 1].type = "RING"
  BY DEF NestInv
<1>1. i \in 1 .. Len(stack') /\ i + 1 \in 1 .. Len(stack') /\ i \in 1 .. Len(stack) - 1
  OBVIOUS
<1>2. stack'[i].type = stack[i].type /\ stack'[i + 1].type = stack[i + 1].type
  BY <1>1
<1>3. QED
  BY <1>1, <1>2 DEF NestInv

(* Nothing is nested in a single frame, nor in none.                       *)
LEMMA NestFew ==
  ASSUME Len(stack') \in {0, 1}
  PROVE  NestInv'
BY DEF NestInv

(* Every call of the protocol keeps the nesting of the open geometries.    *)
LEMMA NestStep == ReaderInv /\ NestInv /\ [ReaderNext]_readerVars => NestInv'
<1> SUFFICES ASSUME ReaderInv, NestInv, [ReaderNext]_readerVars PROVE NestInv'
  OBVIOUS
<1>1. Len(stack) \in Nat
  BY Frames
<1>2. CASE stack' = stack
  BY <1>1, <1>2, NestSame
<1>3. CASE stack' = << >>
  BY <1>3, NestFew
<1>4. CASE phase = "geometry" /\ stack' = SubSeq(stack, 1, Len(stack) - 1)
  <2>1. /\ Len(stack') = Len(stack) - 1 /\ Len(stack) \in Nat \ {0}
        /\ \A i \in 1 .. Len(stack) - 1 : stack'[i] = stack[i]
    BY <1>4, Popped, TopFrame
  <2>2. QED
    BY <2>1, NestSame
<1>5. ASSUME NEW t \in GeometryTypes \cup {Unrecognized}, NEW sz \in -1 .. MaxParts,
             NEW d \in Dims, NEW r \in Results, GeomStart(t, sz, d, r)
      PROVE  NestInv'
  <2>1. CASE Unwind(Outcome(t, r), Feature(cur))
    BY <1>3, <2>1 DEF Unwind, EndFeature
  <2>2. CASE /\ Outcome(t, r) = "CONTINUE"
             /\ stack' = Append(IF stack = << >> THEN stack ELSE CountOne(1), Frame(t, sz))
    <3>1. t \in GeometryTypes /\ sz \in Int
      BY <2>2, OutcomeTypes, ReaderAssumption
    <3>2. Frame(t, sz) \in FrameType /\ Frame(t, sz).type = t
      BY <3>1 DEF Frame, FrameType
    <3>3. CASE phase = "feature"
      <4>1. stack = << >>
        BY <3>3 DEF ReaderInv, StackWellFormed
      <4>2. QED
        BY <2>2, <3>2, <4>1, PushFirst, NestFew
    <3>4. CASE phase = "geometry"
      <4>1. stack # << >> /\ t \in PartsRead(Top.type)
        BY <1>5, <3>4 DEF ReaderInv, StackWellFormed, GeomStart
      <4>2. Top.type \in Collects
        BY <4>1, PartsReadAre
      <4>3. QED
        BY <2>2, <3>1, <3>2, <3>4, <4>1, <4>2, NestPush
    <3>5. QED
      BY <1>5, <3>3, <3>4 DEF GeomStart
  <2>3. QED
    BY <1>5, <2>1, <2>2 DEF GeomStart
<1>6. ASSUME NEW sz \in -1 .. MaxParts, RingStart(sz) PROVE NestInv'
  <2>1. Frame("RING", sz) \in FrameType /\ Frame("RING", sz).type = "RING"
    BY ReaderAssumption DEF Frame, FrameType
  <2>2. QED
    BY <1>6, <2>1, NestPush DEF RingStart
<1>7. ASSUME NEW n \in 0 .. MaxParts, Coords(n) PROVE NestInv'
  <2>1. n \in Nat /\ phase = "geometry" /\ stack' = CountOne(n)
    BY <1>7, ReaderAssumption DEF Coords
  <2>2. Len(stack') = Len(stack) /\ \A i \in 1 .. Len(stack) : stack'[i].type = stack[i].type
    BY <2>1, CountOneProperties, TopFrame
  <2>3. QED
    BY <1>1, <2>2, NestSame
<1>8. CASE ReaderNext
  BY <1>2, <1>3, <1>4, <1>5, <1>6, <1>7, <1>8, ZenonT(40)
     DEF ReaderNext, ReadMeta, FeatStart, NullFeat, CallUnwinds, Unwind, EndFeature, RingEnd,
         GeomEnd, FeatEnd, ReadDone
<1>9. QED
  BY <1>2, <1>8 DEF readerVars

(***************************************************************************)
(* The calls of the readers are calls of the protocol.                     *)
(***************************************************************************)

(* The first geometry of a feature.                                        *)
LEMMA RootStarts ==
  ASSUME NEW t \in RootTypes, NEW sz, NEW d \in Dims, phase = "feature",
         meta.type \in {Unknown, t}, meta.dim \in {Unknown, d}, sz \in Sizes(t, ""),
         CallGeomStart(t, sz), dim' = d
  PROVE  ReaderNext
<1>1. t \in GeometryTypes /\ t \in RootsRead /\ Outcome(t, "CONTINUE") = "CONTINUE"
  BY KnownOutcome, ReaderAssumption DEF RootsRead
<1>2. GeomStart(t, sz, d, "CONTINUE")
  BY <1>1 DEF GeomStart, CallGeomStart, Opened
<1>3. sz \in -1 .. MaxParts
  BY ReaderAssumption DEF Sizes
<1>4. QED
  BY <1>1, <1>2, <1>3 DEF ReaderNext, Results

(* A part of the innermost geometry.                                       *)
LEMMA PartStarts ==
  ASSUME NEW t \in GeometryTypes, t \in PartsRead(Top.type), NEW sz, NEW d \in Dims,
         phase = "geometry",
         MayGoOn(Top), sz \in Sizes(t, Top.type), Len(stack) < MaxDepth,
         reader = "wkt" /\ Top.type \in MultiTypes => d = dim,
         meta.dim \in {Unknown, d}, CallGeomStart(t, sz), dim' = d
  PROVE  ReaderNext
<1>1. Outcome(t, "CONTINUE") = "CONTINUE"
  BY KnownOutcome
<1>2. GeomStart(t, sz, d, "CONTINUE")
  BY <1>1, BoundsAssumption DEF GeomStart, CallGeomStart, Opened
<1>3. sz \in -1 .. MaxParts
  BY ReaderAssumption DEF Sizes
<1>4. QED
  BY <1>2, <1>3 DEF ReaderNext, Results

(* A ring of the innermost polygon.                                        *)
LEMMA RingStarts ==
  ASSUME NEW sz, phase = "geometry", Top.type = "POLYGON", MayGoOn(Top), sz \in RingSizes,
         CallRingStart(sz)
  PROVE  ReaderNext
<1>1. RingStart(sz) /\ sz \in -1 .. MaxParts
  BY ReaderAssumption DEF RingStart, CallRingStart, RingSizes
<1>2. QED
  BY <1>1 DEF ReaderNext

(* Coordinates of the innermost point, line or ring.                       *)
LEMMA CoordsRead ==
  ASSUME NEW n \in 0 .. MaxParts, phase = "geometry", Top.type \in OfCoords, MayGoOn(Top),
         n = IF reader = "native" THEN Top.size ELSE 1, CallCoords(n)
  PROVE  ReaderNext
<1>1. Coords(n)
  BY DEF Coords, CallCoords, OfCoords
<1>2. QED
  BY <1>1 DEF ReaderNext

(* The end of the innermost ring or geometry.                              *)
LEMMA FrameEnds ==
  ASSUME ReaderInv, phase = "geometry", MayEnd(Top), CallEnd
  PROVE  ReaderNext
<1>1. CASE Top.type = "RING"
  <2>1. Len(stack) # 1
    <3>1. stack[1].type # "RING" /\ Top = stack[Len(stack)]
      BY TopFrame
    <3>2. QED
      BY <1>1, <3>1
  <2>2. RingEnd
    BY <1>1, <2>1 DEF RingEnd, CallEnd
  <2>3. QED
    BY <2>2 DEF ReaderNext
<1>2. CASE Top.type # "RING"
  BY <1>2 DEF ReaderNext, GeomEnd, CallEnd
<1>3. QED
  BY <1>1, <1>2

(* An answer other than CONTINUE.                                          *)
LEMMA AnswerUnwinds ==
  ASSUME NEW r \in Results, GivesUp(r)
  PROVE  ReaderNext
BY DEF ReaderNext, GivesUp

(* An exception of the reader itself, before or after it announced d.      *)
LEMMA ReaderThrows ==
  ASSUME Busy, Throws, dim' \in Dims \cup {dim}
  PROVE  ReaderNext /\ phase' = "failed" /\ stack' = << >>
<1>1. Unwind("THROW", Feature(cur)) /\ UNCHANGED <<reader, meta>>
  BY DEF Throws, Unwind
<1>2. CallUnwinds("THROW")
  BY <1>1 DEF CallUnwinds, Busy
<1>3. QED
  BY <1>2 DEF ReaderNext, Results, Throws

(* Nothing changes which reader is at work.                                *)
LEMMA ReaderKept == [ReaderNext]_readerVars => reader' = reader
BY DEF ReaderNext, readerVars, ReadMeta, FeatStart, NullFeat, CallUnwinds, GeomStart, RingStart,
       Coords, RingEnd, GeomEnd, FeatEnd, ReadDone

(* The number of iterations is within the bound on features.               *)
LEMMA IterationsBounded ==
  ASSUME LoopInv
  PROVE  /\ Iterations \in 0 .. MaxFeatures /\ slot \in Nat /\ slot <= Iterations
         /\ array.length \in 0 .. MaxRows /\ array.offset \in Offsets
         /\ filter \in Filters
         /\ Len(features) \in Int => Len(features) <= slot
<1>1. array.length \in 0 .. MaxRows /\ array.offset \in Offsets
  <2>1. array \in Arrays
    BY DEF LoopInv
  <2>2. PICK n \in 0 .. MaxRows, o \in Offsets : array \in Sliced(n, o)
    BY <2>1 DEF Arrays
  <2>3. array.length \in {n} /\ array.offset \in {o}
    BY <2>2 DEF Sliced
  <2>4. QED
    BY <2>2, <2>3
<1>2. filter.values \in Seq(Int) /\ Len(filter.values) <= MaxFeatures /\ filter \in Filters
  BY FilterAssumption DEF LoopInv
<1>3. Iterations \in 0 .. MaxFeatures
  BY <1>1, <1>2, LenProperties, BoundsAssumption, LoopAssumption, ReaderAssumption DEF Iterations
<1>4. slot \in Nat /\ slot <= Iterations
  BY <1>3, ReaderAssumption DEF LoopInv
<1>5. Len(features) \in Int => Len(features) <= slot
  BY <1>4 DEF LoopInv
<1>6. QED
  BY <1>1, <1>2, <1>3, <1>4, <1>5

(* The next iteration: feat_start(), or a row that the filter skips.       *)
LEMMA NextRowFollows ==
  ASSUME ReaderInv, LoopInv, NextRow
  PROVE  [ReaderNext]_readerVars
<1>1. CASE Visit(slot + 1) = Skipped
  BY <1>1 DEF NextRow, readerVars
<1>2. CASE Visit(slot + 1) # Skipped
  <2>1. Len(features) \in Nat
    BY LenProperties DEF ReaderInv, ReaderTypeOK
  <2>2. Len(features) < MaxFeatures
    BY <2>1, IterationsBounded, ReaderAssumption DEF NextRow
  <2>3. FeatStart
    BY <1>2, <2>2 DEF NextRow, FeatStart
  <2>4. QED
    BY <2>3 DEF ReaderNext
<1>3. QED
  BY <1>1, <1>2

(* The other steps of the loop.                                            *)
LEMMA LoopFollows ==
  /\ \A t, d : Begin(t, d) => ReaderNext
  /\ \A r \in Results : ReadNull(r) => ReaderNext
  /\ EndRow \/ EndArray \/ ArrayAborted => ReaderNext
<1>1. ASSUME NEW t, NEW d, Begin(t, d) PROVE ReaderNext
  <2>1. ReadMeta(t, d) /\ t \in RootTypes \cup {Unknown} /\ d \in Dims \cup {Unknown}
    BY <1>1 DEF Begin, ReadMeta
  <2>2. QED
    BY <2>1 DEF ReaderNext
<1>2. ASSUME NEW r \in Results, ReadNull(r) PROVE ReaderNext
  BY <1>2 DEF ReadNull, ReaderNext
<1>3. EndRow \/ EndArray \/ ArrayAborted => ReaderNext
  BY DEF EndRow, EndArray, ArrayAborted, ReaderNext
<1>4. QED
  BY <1>1, <1>2, <1>3

(***************************************************************************)
(* The loop.                                                               *)
(***************************************************************************)

(* A call within an iteration ends it with at most one feature more, and   *)
(* only what is read after a geometry was begun has parts.                 *)
LEMMA CallsOfRow ==
  ASSUME ReaderInv, ReaderNext, ~FeatStart,
         phase \in {"start", "between", "feature"} => cur = << >>
  PROVE  /\ Len(features) \in Nat /\ Len(features') \in Nat
         /\ Len(features') + (IF Busy' THEN 1 ELSE 0)
              <= Len(features) + (IF Busy THEN 1 ELSE 0)
         /\ Busy' => Busy
         /\ phase' \in {"start", "between", "feature"} => cur' = << >>
         /\ phase' # "start"
         /\ phase' = "geometry" => phase \in {"feature", "geometry"}
         /\ phase' # "geometry" /\ cur' # << >> => phase = "geometry" \/ cur # << >>
<1>1. features \in Seq(FeatureType) /\ Len(features) \in Nat
  BY LenProperties DEF ReaderInv, ReaderTypeOK
<1>2. ASSUME NEW f, EndFeature(f)
      PROVE  /\ Len(features') = Len(features) + 1 /\ phase' = "between" /\ cur' = << >>
  BY <1>1, <1>2, AppendProperties DEF EndFeature
<1>3. ASSUME NEW r, NEW f, Unwind(r, f), Busy
      PROVE  /\ Len(features') \in {Len(features), Len(features) + 1}
             /\ phase' \in {"between", "read", "failed"} /\ cur' = << >>
             /\ phase' # "between" => Len(features') = Len(features)
  BY <1>2, <1>3 DEF Unwind, EndFeature
<1>4. CASE /\ features' = features /\ phase = "start" /\ phase' = "between" /\ cur' = cur
  BY <1>1, <1>4 DEF Busy
<1>5. CASE \E r, f : Unwind(r, f) /\ Busy
  BY <1>1, <1>3, <1>5 DEF Busy
<1>6. CASE /\ phase = "feature" /\ phase' = "closing" /\ features' = features /\ cur' = cur
  BY <1>1, <1>6 DEF Busy
<1>7. CASE /\ phase \in {"feature", "geometry"} /\ phase' = "geometry" /\ features' = features
  BY <1>1, <1>7 DEF Busy
<1>8. CASE /\ phase = "geometry" /\ phase' \in {"geometry", "closing"} /\ features' = features
  BY <1>1, <1>8 DEF Busy
<1>9. CASE phase = "closing" /\ \E f : EndFeature(f)
  BY <1>1, <1>2, <1>9 DEF Busy
<1>10. CASE /\ phase = "between" /\ phase' = "read" /\ features' = features /\ cur' = cur
  BY <1>1, <1>10 DEF Busy
<1>11. QED
  <2>1. CASE \E t \in RootTypes \cup {Unknown}, d \in Dims \cup {Unknown} : ReadMeta(t, d)
    BY <1>4, <2>1 DEF ReadMeta
  <2>2. CASE \E r \in Results : NullFeat(r)
    BY <1>5, <1>6, <2>2 DEF NullFeat, Busy
  <2>3. CASE \E r \in Results : CallUnwinds(r)
    BY <1>5, <2>3 DEF CallUnwinds, Busy
  <2>4. CASE \E t \in GeometryTypes \cup {Unrecognized}, sz \in -1 .. MaxParts,
               d \in Dims, r \in Results : GeomStart(t, sz, d, r)
    <3>1. PICK t, sz, d, r : GeomStart(t, sz, d, r)
      BY <2>4
    <3>2. phase \in {"feature", "geometry"}
      BY <3>1 DEF GeomStart
    <3>3. \/ phase' = "geometry" /\ features' = features
          \/ Unwind(Outcome(t, r), Feature(cur))
      BY <3>1 DEF GeomStart
    <3>4. QED
      BY <1>5, <1>7, <3>2, <3>3 DEF Busy
  <2>5. CASE \E sz \in -1 .. MaxParts : RingStart(sz)
    BY <1>7, <2>5 DEF RingStart
  <2>6. CASE \E n \in 0 .. MaxParts : Coords(n)
    BY <1>7, <2>6 DEF Coords
  <2>7. CASE RingEnd \/ GeomEnd
    BY <1>8, <2>7 DEF RingEnd, GeomEnd
  <2>8. CASE FeatEnd
    BY <1>9, <2>8 DEF FeatEnd
  <2>9. CASE ReadDone
    BY <1>10, <2>9 DEF ReadDone
  <2>10. QED
    BY <2>1, <2>2, <2>3, <2>4, <2>5, <2>6, <2>7, <2>8, <2>9 DEF ReaderNext

(* What the loop reads does not change while a row is read.                *)
LEMMA SameRow ==
  ASSUME UNCHANGED <<array, filter, slot>>
  PROVE  /\ Row' = Row
         /\ IsNull(Row)' <=> IsNull(Row)
         /\ Iterations' = Iterations
BY DEF Row, Visit, IsNull, Iterations

(* Calls within an iteration keep the invariant of the loop.               *)
LEMMA LoopKept ==
  ASSUME ReaderInv, LoopInv, ReaderNext, ~FeatStart, UNCHANGED <<array, filter, slot>>,
         phase = "feature" /\ phase' = "geometry" => Row # NA /\ ~IsNull(Row)
  PROVE  LoopInv'
<1>1. /\ Row' = Row
      /\ IsNull(Row)' <=> IsNull(Row)
      /\ Iterations' = Iterations
  BY SameRow
<1>2. phase \in {"start", "between", "feature"} => cur = << >>
  BY DEF LoopInv
<1>3. /\ Len(features) \in Nat /\ Len(features') \in Nat
      /\ Len(features') + (IF Busy' THEN 1 ELSE 0) <= Len(features) + (IF Busy THEN 1 ELSE 0)
      /\ Busy' => Busy
      /\ phase' \in {"start", "between", "feature"} => cur' = << >>
      /\ phase' # "start"
      /\ phase' = "geometry" => phase \in {"feature", "geometry"}
      /\ phase' # "geometry" /\ cur' # << >> => phase = "geometry" \/ cur # << >>
  BY <1>2, CallsOfRow
<1>4. slot \in Nat /\ Len(features') + (IF Busy' THEN 1 ELSE 0) <= slot'
  <2>1. slot \in Nat /\ Len(features) + (IF Busy THEN 1 ELSE 0) <= slot
    BY IterationsBounded DEF LoopInv
  <2>2. QED
    BY <1>3, <2>1
<1>5. phase' = "geometry" \/ cur' # << >> => Row' # NA /\ ~IsNull(Row)'
  BY <1>1, <1>3 DEF LoopInv
<1>6. Busy' => Row' # Skipped
  BY <1>1, <1>3 DEF LoopInv
<1>7. QED
  BY <1>1, <1>3, <1>4, <1>5, <1>6 DEF LoopInv, Iterations, Arrays

(* The next iteration keeps the invariant of the loop.                     *)
LEMMA NextRowLoop ==
  ASSUME ReaderInv, LoopInv, NextRow
  PROVE  LoopInv'
<1>1. /\ slot \in Nat /\ slot' = slot + 1 /\ slot < Iterations /\ Iterations \in Nat
      /\ UNCHANGED <<array, filter, features, cur>> /\ phase = "between"
  BY IterationsBounded, ReaderAssumption DEF NextRow
<1>2. Iterations' = Iterations /\ Row' = Visit(slot + 1)
  BY <1>1 DEF Iterations, Row, Visit
<1>3. Len(features) \in Nat /\ Len(features) <= slot /\ cur = << >>
  BY <1>1, IterationsBounded, LenProperties DEF LoopInv, ReaderInv, ReaderTypeOK
<1>4. /\ phase' \in {"between", "feature"}
      /\ phase' = "feature" => Row' # Skipped
  BY <1>2 DEF NextRow
<1>5. Len(features') + (IF Busy' THEN 1 ELSE 0) <= slot'
  BY <1>1, <1>3
<1>6. Busy' => Row' # Skipped
  BY <1>4 DEF Busy
<1>7. QED
  BY <1>1, <1>2, <1>3, <1>4, <1>5, <1>6 DEF LoopInv, Arrays

(* The row an iteration reads is one of the array.                         *)
LEMMA RowExists ==
  ASSUME ReaderInv, LoopInv, Busy, Row # NA
  PROVE  Row \in Nat /\ Row < array.length
<1>1. slot \in Nat \ {0} /\ slot <= Iterations
  <2>1. Len(features) \in Nat
    BY LenProperties DEF ReaderInv, ReaderTypeOK
  <2>2. QED
    BY <2>1, IterationsBounded DEF LoopInv
<1>2. /\ array.length \in Nat /\ filter \in Filters /\ Row # Skipped
      /\ filter.kind = "logical" => Len(filter.values) = array.length
      /\ filter.kind \in {"all", "logical", "integer", "real"}
      /\ filter.values \in Seq(Int)
  BY IterationsBounded, FilterAssumption, LoopAssumption DEF LoopInv
<1> DEFINE v == filter.values[slot]
           n == array.length
<1>3. CASE filter.kind = "all"
  BY <1>1, <1>2, <1>3 DEF Row, Visit, Iterations
<1>4. CASE filter.kind # "all"
  <2>1. v \in Int /\ slot <= Len(filter.values)
    <3>1. slot \in 1 .. Len(filter.values)
      BY <1>1, <1>4 DEF Iterations
    <3>2. QED
      BY <1>2, <3>1, ElementOfSeq
  <2>2. CASE filter.kind = "logical"
    BY <1>1, <1>2, <2>1, <2>2 DEF Row, Visit, NA, Skipped
  <2>3. CASE filter.kind = "integer"
    BY <1>1, <1>2, <2>1, <2>3 DEF Row, Visit, NA
  <2>4. CASE filter.kind = "real"
    <3>1. Row = IF v < 2 \/ v > 2 * n THEN NA ELSE (v - 2) \div 2
      BY <2>4 DEF Row, Visit
    <3>2. v >= 2 /\ v <= 2 * n /\ Row = (v - 2) \div 2
      BY <2>1, <3>1, <1>2
    <3>3. PICK x \in Int : x = v
      BY <2>1
    <3>4. PICK m \in Nat : m = n
      BY <1>2
    <3>5. x >= 2 /\ x <= 2 * m => (x - 2) \div 2 \in 0 .. m - 1
      OBVIOUS
    <3>6. QED
      BY <3>2, <3>3, <3>4, <3>5
  <2>5. QED
    BY <1>2, <1>4, <2>2, <2>3, <2>4
<1>5. QED
  BY <1>3, <1>4

(***************************************************************************)
(* Frames and what was announced.                                          *)
(***************************************************************************)

(* Opening a part.                                                         *)
LEMMA Pushed ==
  ASSUME ReaderInv, phase = "geometry", NEW f \in FrameType,
         stack' = Append(CountOne(1), f)
  PROVE  /\ Len(stack) \in Nat \ {0} /\ Len(stack') = Len(stack) + 1
         /\ Top = stack[Len(stack)] /\ Top' = f /\ stack'[Len(stack) + 1] = f
         /\ \A i \in 1 .. Len(stack) :
              /\ stack'[i].type = stack[i].type /\ stack'[i].size = stack[i].size
              /\ stack'[i].count = stack[i].count + (IF i = Len(stack) THEN 1 ELSE 0)
<1>1. /\ Len(stack) \in Nat \ {0} /\ Top = stack[Len(stack)] /\ Top \in FrameType
      /\ \A i \in 1 .. Len(stack) : stack[i] \in FrameType
  BY TopFrame
<1>2. /\ Len(stack') = Len(stack) + 1 /\ stack'[Len(stack) + 1] = f
      /\ stack'[Len(stack)] = Counted(Top, 1)
      /\ \A i \in 1 .. Len(stack) - 1 : stack'[i] = stack[i]
  BY PushFrames
<1>3. \A i \in 1 .. Len(stack) : stack[i].count \in Nat
  BY <1>1 DEF FrameType
<1>4. Top' = f
  BY <1>2 DEF Top
<1>5. QED
  BY <1>1, <1>2, <1>3, <1>4, SMTT(30) DEF Counted

(* Counting coordinates.                                                   *)
LEMMA Advanced ==
  ASSUME ReaderInv, phase = "geometry", NEW n \in Nat, stack' = CountOne(n)
  PROVE  /\ Len(stack) \in Nat \ {0} /\ Len(stack') = Len(stack)
         /\ Top = stack[Len(stack)] /\ Top' = Counted(Top, n)
         /\ \A i \in 1 .. Len(stack) :
              /\ stack'[i].type = stack[i].type /\ stack'[i].size = stack[i].size
              /\ stack'[i].count = stack[i].count + (IF i = Len(stack) THEN n ELSE 0)
<1>1. /\ Len(stack) \in Nat \ {0} /\ Top = stack[Len(stack)] /\ Top \in FrameType
      /\ \A i \in 1 .. Len(stack) : stack[i] \in FrameType
  BY TopFrame
<1>2. /\ Len(stack') = Len(stack)
      /\ stack'[Len(stack)] = Counted(Top, n)
      /\ \A i \in 1 .. Len(stack) - 1 : stack'[i] = stack[i]
  BY CountFrames
<1>3. \A i \in 1 .. Len(stack) : stack[i].count \in Nat
  BY <1>1 DEF FrameType
<1>4. Top' = Counted(Top, n)
  BY <1>2 DEF Top
<1>5. QED
  BY <1>1, <1>2, <1>3, <1>4 DEF Counted

(* Closing a frame: the one around it, if there is one, is innermost.      *)
LEMMA Closed ==
  ASSUME ReaderInv, phase = "geometry", CallEnd
  PROVE  /\ Len(stack) \in Nat \ {0} /\ Len(stack') = Len(stack) - 1
         /\ Top = stack[Len(stack)]
         /\ \A i \in 1 .. Len(stack) - 1 : stack'[i] = stack[i]
         /\ phase' = IF Len(stack) = 1 THEN "closing" ELSE "geometry"
         /\ Len(stack) > 1 => Top' = stack[Len(stack) - 1] /\ Len(stack) - 1 \in 1 .. Len(stack)
<1>1. Len(stack) \in Nat \ {0} /\ Top = stack[Len(stack)]
  BY TopFrame
<1>2. /\ Len(stack') = Len(stack) - 1
      /\ \A i \in 1 .. Len(stack) - 1 : stack'[i] = stack[i]
  BY Popped DEF CallEnd
<1>3. phase' = IF Len(stack) = 1 THEN "closing" ELSE "geometry"
  BY DEF CallEnd
<1>4. Len(stack) > 1 => Top' = stack[Len(stack) - 1]
  BY <1>1, <1>2 DEF Top
<1>5. QED
  BY <1>1, <1>2, <1>3, <1>4

(* Without a header nothing is announced: the first geometry stays.        *)
LEMMA AnnouncedKept ==
  ASSUME ReaderInv, AnnouncedInv, UNCHANGED <<reader, meta, announced, dim>>,
         phase' # "start", phase # "start",
         phase' = "geometry" => /\ phase = "geometry"
                                /\ stack'[1].type = stack[1].type
  PROVE  AnnouncedInv'
BY DEF AnnouncedInv

(* read_meta() of a view.                                                  *)
LEMMA BeginAnnounces ==
  ASSUME NEW t, NEW d, Begin(t, d)
  PROVE  AnnouncedInv' /\ phase' = "between" /\ phase = "start"
BY DEF Begin, ReadMeta, AnnouncedInv

(* The header of a geometry that says its type and dimensions.             *)
LEMMA HeaderAnnounces ==
  ASSUME ReaderInv, AnnouncedInv, reader # "native", NEW t, NEW sz, NEW d \in Dims,
         CallGeomStart(t, sz), AnnounceType(t), AnnounceDim(d),
         Frame(t, sz) \in FrameType, phase \in {"feature", "geometry"}
  PROVE  AnnouncedInv'
<1>1. UNCHANGED <<reader, meta>> /\ dim' = d /\ phase' = "geometry"
  BY DEF CallGeomStart, AnnounceDim
<1>2. announced' = stack'[1].type
  <2>1. CASE phase = "feature"
    <3>1. stack = << >>
      BY <2>1 DEF ReaderInv, StackWellFormed
    <3>2. stack'[1] = Frame(t, sz) /\ announced' = t
      BY <3>1, PushFirst DEF CallGeomStart, AnnounceType
    <3>3. QED
      BY <3>2 DEF Frame
  <2>2. CASE phase = "geometry"
    <3>1. stack # << >> /\ announced = stack[1].type
      BY <2>2 DEF ReaderInv, StackWellFormed, AnnouncedInv
    <3>2. stack' = Append(CountOne(1), Frame(t, sz)) /\ announced' = announced
      BY <3>1 DEF CallGeomStart, AnnounceType
    <3>3. stack'[1].type = stack[1].type
      BY <2>2, <3>2, Pushed
    <3>4. QED
      BY <3>1, <3>2, <3>3
  <2>3. QED
    BY <2>1, <2>2
<1>3. QED
  BY <1>1, <1>2 DEF AnnouncedInv

(* The end of a row, also when it was given up, by whatever answer.        *)
LEMMA RowEnds ==
  ASSUME ReaderInv, LoopInv, AnnouncedInv, NEW r \in Results, EndRow \/ GivesUp(r)
  PROVE  /\ ReaderNext /\ LoopInv' /\ AnnouncedInv'
         /\ Busy /\ phase' \in {"between", "read", "failed"} /\ stack' = << >>
         /\ UNCHANGED <<reader, meta, dim, array>>
<1>1. ReaderNext
  BY LoopFollows, AnswerUnwinds
<1>2. /\ Busy /\ phase' \in {"between", "read", "failed"} /\ stack' = << >>
      /\ UNCHANGED <<reader, meta, dim, array, filter, slot, announced>>
  BY DEF EndRow, FeatEnd, EndFeature, GivesUp, CallUnwinds, Unwind, Busy, loopVars
<1>3. LoopInv'
  BY <1>1, <1>2, LoopKept DEF FeatStart, Busy
<1>4. AnnouncedInv'
  BY <1>2, AnnouncedKept DEF Busy
<1>5. QED
  BY <1>1, <1>2, <1>3, <1>4

(* The steps of the loop between geometries.                               *)
LEMMA RowsIterate ==
  ASSUME ReaderInv, LoopInv, AnnouncedInv, NEW r \in Results,
         NextRow \/ ReadNull(r) \/ EndArray \/ ArrayAborted
  PROVE  /\ [ReaderNext]_readerVars /\ LoopInv' /\ AnnouncedInv'
         /\ stack = << >> /\ stack' = << >>
         /\ phase \in {"between", "feature"} /\ phase' \notin {"start", "geometry"}
         /\ UNCHANGED <<reader, meta, dim, array>>
<1>1. CASE NextRow
  <2>1. [ReaderNext]_readerVars /\ LoopInv'
    BY <1>1, NextRowFollows, NextRowLoop
  <2>2. /\ phase = "between" /\ phase' \in {"between", "feature"}
        /\ UNCHANGED <<reader, meta, dim, stack, array, announced>>
    BY <1>1 DEF NextRow
  <2>3. AnnouncedInv'
    BY <2>2, AnnouncedKept
  <2>4. QED
    BY <2>1, <2>2, <2>3 DEF ReaderInv, StackWellFormed
<1>2. CASE ReadNull(r) \/ EndArray \/ ArrayAborted
  <2>1. ReaderNext
    BY <1>2, LoopFollows
  <2>2. /\ phase \in {"between", "feature"}
        /\ phase' \notin {"start", "geometry", "feature"}
        /\ UNCHANGED <<reader, meta, dim, array, filter, slot, announced>>
        /\ stack' \in {stack, << >>}
    BY <1>2 DEF ReadNull, NullFeat, Unwind, EndFeature, EndArray, ArrayAborted, ReadDone, loopVars
  <2>3. AnnouncedInv'
    BY <2>2, AnnouncedKept
  <2>4. LoopInv'
    BY <2>1, <2>2, LoopKept DEF FeatStart
  <2>5. stack = << >>
    BY <2>2 DEF ReaderInv, StackWellFormed
  <2>6. QED
    BY <2>1, <2>2, <2>3, <2>4, <2>5
<1>3. QED
  BY <1>1, <1>2

(***************************************************************************)
(* The native reader.                                                      *)
(***************************************************************************)

(* How many elements of list array l the arrays around it refer to.        *)
Elements(l) == IF l = 1 THEN array.length ELSE LastOffset(l - 1)

(* The depth of an encoding, and of its parts and rings.                   *)
LEMMA Depths ==
  ASSUME NEW t \in SimpleTypes \cup MultiTypes
  PROVE  /\ Depth(t) \in 0 .. 3 /\ FrameDepth(t) = Depth(t)
         /\ t # "POINT" => Depth(t) > 0
         /\ t \in MultiTypes => /\ PartTypes(t) = {PartOf(t)} /\ PartOf(t) \in SimpleTypes
                                /\ Depth(PartOf(t)) = Depth(t) - 1
         /\ t = "POLYGON" => Depth(t) = 2
BY DEF Depth, FrameDepth, SimpleTypes, MultiTypes, PartTypes, PartOf

(* The offsets of a list array.                                            *)
LEMMA ListOffsetsSorted ==
  ASSUME NEW o \in ListOffsets \cup {<< 0 >>}
  PROVE  /\ o \in Seq(Nat) /\ Len(o) \in Nat \ {0} /\ o[Len(o)] \in Nat
         /\ \A i \in 1 .. Len(o) : o[i] \in Nat /\ o[i] <= o[Len(o)]
         /\ \A i \in 1 .. Len(o) - 1 : o[i] <= o[i + 1] /\ o[i + 1] - o[i] <= MaxParts
<1>1. CASE o = <<0>>
  <2>1. o \in Seq(Nat) /\ Len(o) = 1 /\ o[1] = 0
    BY <1>1
  <2>2. QED
    BY <2>1
<1>2. CASE o \in ListOffsets
  <2>1. /\ o \in Seq(Nat) /\ Len(o) > 0
        /\ \A j \in 1 .. Len(o) : \A i \in 1 .. j :
             /\ o[i] <= o[j]
             /\ i = j - 1 => o[j] - o[i] <= MaxParts
    BY <1>2, ListAssumption
  <2>2. Len(o) \in Nat \ {0} /\ \A i \in 1 .. Len(o) : o[i] \in Nat
    BY <2>1, LenProperties, ElementOfSeq
  <2>3. \A i \in 1 .. Len(o) : o[i] <= o[Len(o)]
    BY <2>1, <2>2
  <2>4. ASSUME NEW i \in 1 .. Len(o) - 1
        PROVE  o[i] <= o[i + 1] /\ o[i + 1] - o[i] <= MaxParts
    <3>1. i + 1 \in 1 .. Len(o) /\ i \in 1 .. i + 1 /\ i = (i + 1) - 1
      BY <2>2
    <3>2. QED
      BY <2>1, <3>1
  <2>5. QED
    BY <2>1, <2>2, <2>3, <2>4
<1>3. QED
  BY <1>1, <1>2

(* An element of a list array has between 0 and MaxParts parts, which all  *)
(* exist in the array below.                                               *)
LEMMA ElementParts ==
  ASSUME NativeInv, reader = "native", phase # "start", Depth(meta.type) \in Nat,
         array.length \in Nat, NEW l \in 1 .. Depth(meta.type), NEW e \in Nat, e < Elements(l)
  PROVE  /\ ChildOffset(l, e) \in Nat /\ ChildSize(l, e) \in 0 .. MaxParts
         /\ ChildOffset(l, e) + ChildSize(l, e) <= LastOffset(l)
<1>1. /\ levels \in [1 .. Depth(meta.type) -> ListLevel]
      /\ Fits(levels, array.length)
  BY DEF NativeInv
<1>2. PICK o : o = levels[l].offsets
  OBVIOUS
<1>3. PICK first : first = levels[l].offset
  OBVIOUS
<1>4. /\ DOMAIN levels = 1 .. Depth(meta.type)
      /\ \A i \in 1 .. Depth(meta.type) :
           levels[i].offset \in Nat /\ levels[i].offsets \in ListOffsets \cup {<<0>>}
  BY <1>1 DEF ListLevel
<1>5. first \in Nat /\ o \in ListOffsets \cup {<<0>>}
  BY <1>2, <1>3, <1>4
<1>6. Elements(l) \in Nat
  <2>1. CASE l = 1
    BY <2>1 DEF Elements
  <2>2. CASE l # 1
    <3>1. l - 1 \in 1 .. Depth(meta.type)
      BY <2>2
    <3>2. LastOffset(l - 1) \in Nat
      BY <1>4, <3>1, ListOffsetsSorted DEF LastOffset
    <3>3. QED
      BY <2>2, <3>2 DEF Elements
  <2>3. QED
    BY <2>1, <2>2
<1>7. first + Elements(l) < Len(o)
  BY <1>1, <1>2, <1>3, <1>4 DEF Fits, Elements, LastOffset
<1>8. /\ o \in Seq(Nat) /\ Len(o) \in Nat \ {0} /\ o[Len(o)] \in Nat
      /\ \A i \in 1 .. Len(o) : o[i] \in Nat /\ o[i] <= o[Len(o)]
      /\ \A i \in 1 .. Len(o) - 1 : o[i] <= o[i + 1] /\ o[i + 1] - o[i] <= MaxParts
  BY <1>5, ListOffsetsSorted
<1>9. PICK k : k = first + e + 1
  OBVIOUS
<1>10. k \in 1 .. Len(o) - 1 /\ k + 1 \in 1 .. Len(o) /\ k \in 1 .. Len(o)
  BY <1>5, <1>6, <1>7, <1>8, <1>9
<1>11. /\ ChildOffset(l, e) = o[k] /\ ChildOffset(l, e + 1) = o[k + 1]
       /\ LastOffset(l) = o[Len(o)]
  <2>1. first + (e + 1) + 1 = k + 1
    BY <1>5, <1>9
  <2>2. QED
    BY <1>2, <1>3, <1>9, <2>1 DEF ChildOffset, LastOffset
<1>12. /\ o[k] \in Nat /\ o[k + 1] \in Nat /\ o[k + 1] <= o[Len(o)]
       /\ o[k] <= o[k + 1] /\ o[k + 1] - o[k] <= MaxParts
  BY <1>8, <1>10
<1>13. PICK a \in Nat, b \in Nat, c \in Nat : a = o[k] /\ b = o[k + 1] /\ c = o[Len(o)]
  BY <1>8, <1>12
<1>14. a <= b /\ b - a <= MaxParts /\ b <= c
  BY <1>12, <1>13
<1>15. ChildOffset(l, e) = a /\ ChildSize(l, e) = b - a /\ LastOffset(l) = c
  BY <1>11, <1>13 DEF ChildSize
<1>16. QED
  BY <1>14, <1>15, ReaderAssumption

(* What is known while a native array is read.                             *)
LEMMA NativeMeta ==
  ASSUME LoopInv, AnnouncedInv, NativeInv, reader = "native", phase # "start"
  PROVE  /\ meta.type \in SimpleTypes \cup MultiTypes /\ meta.type \in RootTypes
         /\ Depth(meta.type) \in 0 .. 3 /\ array.length \in Nat
         /\ meta.dim \in Dims /\ dim = meta.dim
         /\ Len(starts) = Len(stack) /\ starts \in Seq(Nat)
         /\ \A i \in 1 .. Len(stack) :
              /\ stack[i].type # "GEOMETRYCOLLECTION"
              /\ i + FrameDepth(stack[i].type) = Depth(meta.type) + 1
              /\ stack[i].type \in MultiTypes => i = 1
              /\ stack[i].size \in 0 .. MaxParts
              /\ stack[i].type = "POINT" => stack[i].size = 1
              /\ stack[i].type # "POINT" => starts[i] + stack[i].size <= LastOffset(i)
<1>1. meta.type \in RootTypes \ {"GEOMETRYCOLLECTION"} /\ meta.dim \in Dims /\ dim = meta.dim
  BY DEF AnnouncedInv
<1>2. meta.type \in SimpleTypes \cup MultiTypes
  BY <1>1, ReaderAssumption DEF GeometryTypes
<1>3. Depth(meta.type) \in 0 .. 3
  BY <1>2, Depths
<1>4. array.length \in Nat
  BY IterationsBounded, LoopAssumption
<1>5. QED
  BY <1>1, <1>2, <1>3, <1>4 DEF NativeInv

(* A frame more, for element e of its level.                               *)
LEMMA NativePushed ==
  ASSUME NativeInv, reader = "native", phase # "start", Len(stack) \in Nat,
         Depth(meta.type) \in Nat, array.length \in Nat,
         UNCHANGED <<reader, meta, array, levels>>, phase' # "start",
         NEW t, t # "GEOMETRYCOLLECTION", NEW sz \in 0 .. MaxParts, NEW s \in Nat,
         Len(stack) + 1 + FrameDepth(t) = Depth(meta.type) + 1,
         t \in MultiTypes => Len(stack) = 0,
         t = "POINT" => sz = 1,
         t # "POINT" => s + sz <= LastOffset(Len(stack) + 1),
         starts' = Append(starts, s),
         Len(stack') = Len(stack) + 1, stack'[Len(stack) + 1] = Frame(t, sz),
         \A i \in 1 .. Len(stack) :
           stack'[i].type = stack[i].type /\ stack'[i].size = stack[i].size
  PROVE  NativeInv'
<1> DEFINE n == Len(stack)
<1>1. starts \in Seq(Nat) /\ Len(starts) = n
  BY DEF NativeInv
<1>2. /\ starts' \in Seq(Nat) /\ Len(starts') = n + 1 /\ starts'[n + 1] = s
      /\ \A i \in 1 .. n : starts'[i] = starts[i]
  BY <1>1, AppendProperties
<1>3. \A i : LastOffset(i)' = LastOffset(i)
  BY DEF LastOffset
<1>4. \A i \in 1 .. n :
        /\ stack[i].type # "GEOMETRYCOLLECTION"
        /\ i + FrameDepth(stack[i].type) = Depth(meta.type) + 1
        /\ stack[i].type \in MultiTypes => i = 1
        /\ stack[i].size \in 0 .. MaxParts
        /\ stack[i].type = "POINT" => stack[i].size = 1
        /\ stack[i].type # "POINT" => starts[i] + stack[i].size <= LastOffset(i)
  BY DEF NativeInv
<1>5. stack'[n + 1].type = t /\ stack'[n + 1].size = sz
  BY DEF Frame
<1> HIDE DEF n
<1>6. n \in Nat /\ Len(stack') = n + 1
  BY DEF n
<1>7. \A i \in 1 .. n + 1 :
        /\ stack'[i].type # "GEOMETRYCOLLECTION"
        /\ i + FrameDepth(stack'[i].type) = Depth(meta.type) + 1
        /\ stack'[i].type \in MultiTypes => i = 1
        /\ stack'[i].size \in 0 .. MaxParts
        /\ stack'[i].type = "POINT" => stack'[i].size = 1
        /\ stack'[i].type # "POINT" => starts'[i] + stack'[i].size <= LastOffset(i)
  <2> TAKE i \in 1 .. n + 1
  <2>1. CASE i = n + 1
    <3>1. stack'[i].type = t /\ stack'[i].size = sz /\ starts'[i] = s /\ i = Len(stack) + 1
      BY <1>2, <1>5, <2>1 DEF n
    <3>2. QED
      BY <3>1
  <2>2. CASE i # n + 1
    <3>1. i \in 1 .. n
      BY <1>6, <2>2
    <3>2. /\ stack'[i].type = stack[i].type /\ stack'[i].size = stack[i].size
          /\ starts'[i] = starts[i]
      BY <1>2, <3>1 DEF n
    <3>3. QED
      BY <1>4, <3>1, <3>2
  <2>3. QED
    BY <2>1, <2>2
<1>8. Fits(levels, array.length) /\ levels \in [1 .. Depth(meta.type) -> ListLevel]
  BY DEF NativeInv
<1>9. QED
  BY <1>2, <1>3, <1>6, <1>7, <1>8 DEF NativeInv, Fits

(* Frames that keep their element, type and size; the outermost of them.   *)
LEMMA NativeSame ==
  ASSUME NativeInv, reader = "native", phase # "start",
         UNCHANGED <<reader, meta, array, levels>>, phase' # "start",
         Len(stack) \in Nat, Len(stack') \in Nat, Len(stack') <= Len(stack),
         starts' \in Seq(Nat), Len(starts') = Len(stack'),
         \A i \in 1 .. Len(stack') :
           /\ stack'[i].type = stack[i].type /\ stack'[i].size = stack[i].size
           /\ starts'[i] = starts[i]
  PROVE  NativeInv'
<1>1. \A i : LastOffset(i)' = LastOffset(i)
  BY DEF LastOffset
<1>2. Fits(levels, array.length)' /\ levels' \in [1 .. Depth(meta'.type) -> ListLevel]
  BY DEF NativeInv, Fits
<1>3. \A i \in 1 .. Len(stack') : i \in 1 .. Len(stack)
  OBVIOUS
<1>4. \A i \in 1 .. Len(stack') :
        /\ stack'[i].type # "GEOMETRYCOLLECTION"
        /\ i + FrameDepth(stack'[i].type) = Depth(meta'.type) + 1
        /\ stack'[i].type \in MultiTypes => i = 1
        /\ stack'[i].size \in 0 .. MaxParts
        /\ stack'[i].type = "POINT" => stack'[i].size = 1
        /\ stack'[i].type # "POINT" => starts'[i] + stack'[i].size <= LastOffset(i)'
  BY <1>1, <1>3 DEF NativeInv
<1>5. QED
  BY <1>2, <1>4 DEF NativeInv

(* No geometry is open.                                                    *)
LEMMA NativeClosed ==
  ASSUME ReaderInv, NativeInv, reader = "native", phase # "start",
         UNCHANGED <<reader, meta, array, levels>>, phase' # "start",
         stack' = << >>, starts' = << >>
  PROVE  NativeInv'
<1>1. Len(stack) \in Nat
  BY Frames
<1>2. Len(stack') = 0 /\ Len(starts') = 0 /\ starts' \in Seq(Nat)
  BY DEF NativeInv
<1>3. QED
  BY <1>1, <1>2, NativeSame

(* read_meta() of a native view.                                           *)
LEMMA NativeBegins ==
  ASSUME ReaderInv, LoopInv, AnnouncedInv, NativeInv, ReadDescribed
  PROVE  ReaderNext /\ LoopInv' /\ AnnouncedInv' /\ NativeInv'
<1> DEFINE lists == IF array = Empty THEN {[offset |-> 0, offsets |-> <<0>>]}
                    ELSE [offset : Offsets, offsets : ListOffsets]
<1>1. /\ Begin(source.type, source.dim) /\ UNCHANGED <<starts, seen>> /\ reader = "native"
      /\ levels' \in [1 .. Depth(source.type) -> lists] /\ Fits(levels', array.length)
  BY DEF ReadDescribed, NativeBegin
<1>2. ReaderNext
  BY <1>1, LoopFollows
<1>3. AnnouncedInv' /\ phase' = "between" /\ phase = "start"
  BY <1>1, BeginAnnounces
<1>4. /\ UNCHANGED <<array, filter, slot, reader, stack>> /\ meta'.type = source.type
  BY <1>1 DEF Begin, ReadMeta
<1>5. LoopInv'
  BY <1>2, <1>3, <1>4, LoopKept DEF FeatStart
<1>6. stack' = << >> /\ Len(stack') = 0 /\ starts' \in Seq(Nat) /\ Len(starts') = 0
  BY <1>1, <1>3, <1>4 DEF NativeInv, ReaderInv, StackWellFormed
<1>7. lists \subseteq ListLevel
  <2>1. [offset |-> 0, offsets |-> <<0>>] \in ListLevel
    BY DEF ListLevel
  <2>2. [offset : Offsets, offsets : ListOffsets] \subseteq ListLevel
    BY LoopAssumption DEF ListLevel
  <2>3. QED
    BY <2>1, <2>2
<1>8. levels' \in [1 .. Depth(source.type) -> ListLevel]
  <2> HIDE DEF lists
  <2>1. QED
    BY <1>1, <1>7
<1>9. Fits(levels, array.length)'
  BY <1>1, <1>4 DEF Fits
<1>10. NativeInv'
  BY <1>3, <1>4, <1>6, <1>8, <1>9 DEF NativeInv
<1>11. QED
  BY <1>2, <1>3, <1>5, <1>10

(* What geom_start() is passed for element e of the next level.            *)
LEMMA ElementFits ==
  ASSUME NativeInv, reader = "native", phase # "start", Depth(meta.type) \in Nat,
         array.length \in Nat, NEW l \in Nat \ {0}, NEW t, NEW e \in Nat,
         t # "POINT" => l <= Depth(meta.type) /\ e < Elements(l),
         NEW sz, sz = IF t = "POINT" THEN 1 ELSE ChildSize(l, e),
         NEW s, s = IF t = "POINT" THEN e ELSE ChildOffset(l, e)
  PROVE  /\ sz \in 0 .. MaxParts /\ s \in Nat
         /\ t = "POINT" => sz = 1
         /\ t # "POINT" => s + sz <= LastOffset(l)
<1>1. CASE t = "POINT"
  BY <1>1, ReaderAssumption
<1>2. CASE t # "POINT"
  <2>1. l \in 1 .. Depth(meta.type)
    BY <1>2
  <2>2. /\ ChildOffset(l, e) \in Nat /\ ChildSize(l, e) \in 0 .. MaxParts
        /\ ChildOffset(l, e) + ChildSize(l, e) <= LastOffset(l)
    BY <1>2, <2>1, ElementParts
  <2>3. QED
    BY <1>2, <2>2
<1>3. QED
  BY <1>1, <1>2

(* Pushing the first frame.                                                *)
LEMMA PushedRoot ==
  ASSUME ReaderInv, phase = "feature", NEW f \in FrameType,
         stack' = Append(IF stack = << >> THEN stack ELSE CountOne(1), f)
  PROVE  stack = << >> /\ Len(stack) = 0 /\ Len(stack') = 1 /\ stack'[1] = f /\ Top' = f
<1>1. stack = << >>
  BY DEF ReaderInv, StackWellFormed
<1>2. Len(stack') = 1 /\ stack'[1] = f
  BY <1>1, PushFirst
<1>3. QED
  BY <1>1, <1>2 DEF Top

(* The geometry of a row.                                                  *)
LEMMA NativeRoots ==
  ASSUME ReaderInv, LoopInv, AnnouncedInv, NativeInv, reader = "native", NativeRoot
  PROVE  ReaderNext /\ LoopInv' /\ AnnouncedInv' /\ NativeInv'
<1>1. PICK t, sz, s :
        /\ t = meta.type
        /\ sz = IF t = "POINT" THEN 1 ELSE ChildSize(Len(stack) + 1, Row)
        /\ s = IF t = "POINT" THEN Row ELSE ChildOffset(Len(stack) + 1, Row)
  OBVIOUS
<1>2. /\ phase = "feature" /\ Row # NA /\ ~IsNull(Row)
      /\ CallGeomStart(t, sz) /\ starts' = Append(starts, s)
      /\ UNCHANGED <<dim, levels, array, filter, slot, announced>>
  BY <1>1 DEF NativeRoot, NativeOpen, Reading, loopVars
<1>3. /\ t \in SimpleTypes \cup MultiTypes /\ t \in RootTypes
      /\ Depth(t) \in 0 .. 3 /\ array.length \in Nat
      /\ meta.dim \in Dims /\ dim = meta.dim
  BY <1>1, <1>2, NativeMeta
<1>4. stack = << >> /\ Len(stack) = 0
  BY <1>2 DEF ReaderInv, StackWellFormed
<1>5. Row \in Nat /\ Row < array.length
  BY <1>2, RowExists DEF Busy
<1>6. /\ FrameDepth(t) = Depth(t)
      /\ t # "POINT" => Depth(t) > 0
  BY <1>3, Depths
<1>7. /\ sz \in 0 .. MaxParts /\ s \in Nat
      /\ t = "POINT" => sz = 1
      /\ t # "POINT" => s + sz <= LastOffset(1)
  <2>1. t # "POINT" => 1 <= Depth(meta.type) /\ Row < Elements(1)
    BY <1>1, <1>3, <1>5, <1>6 DEF Elements
  <2>2. /\ sz = IF t = "POINT" THEN 1 ELSE ChildSize(1, Row)
        /\ s = IF t = "POINT" THEN Row ELSE ChildOffset(1, Row)
    BY <1>1, <1>4
  <2>3. Depth(meta.type) \in Nat /\ phase # "start"
    BY <1>1, <1>2, <1>3
  <2>4. QED
    BY <1>3, <1>5, <2>1, <2>2, <2>3, ElementFits
<1>8. Frame(t, sz) \in FrameType /\ Frame(t, sz).type = t
  BY <1>3, <1>7, ReaderAssumption DEF Frame, FrameType, GeometryTypes
<1>9. /\ UNCHANGED <<reader, meta>> /\ phase' = "geometry"
      /\ stack' = Append(IF stack = << >> THEN stack ELSE CountOne(1), Frame(t, sz))
  BY <1>2 DEF CallGeomStart
<1>10. Len(stack') = 1 /\ stack'[1] = Frame(t, sz)
  BY <1>2, <1>8, <1>9, PushedRoot
<1>11. sz \in Sizes(t, "")
  BY <1>2, <1>7 DEF Sizes
<1>12. ReaderNext
  <2>1. meta.type \in {Unknown, t} /\ meta.dim \in {Unknown, dim} /\ dim \in Dims /\ dim' = dim
    BY <1>1, <1>2, <1>3
  <2>2. QED
    BY <1>2, <1>3, <1>11, <2>1, RootStarts
<1>13. LoopInv'
  BY <1>2, <1>12, LoopKept DEF FeatStart
<1>14. AnnouncedInv'
  <2>1. announced = t
    BY <1>1, <1>2 DEF AnnouncedInv
  <2>2. QED
    BY <1>1, <1>2, <1>3, <1>8, <1>9, <1>10, <2>1 DEF AnnouncedInv
<1>15. NativeInv'
  <2>1. /\ Len(stack) + 1 + FrameDepth(t) = Depth(meta.type) + 1
        /\ t # "GEOMETRYCOLLECTION"
        /\ t # "POINT" => s + sz <= LastOffset(Len(stack) + 1)
        /\ Len(stack') = Len(stack) + 1 /\ stack'[Len(stack) + 1] = Frame(t, sz)
        /\ phase # "start" /\ phase' # "start" /\ Depth(meta.type) \in Nat /\ Len(stack) \in Nat
        /\ \A i \in 1 .. Len(stack) :
             stack'[i].type = stack[i].type /\ stack'[i].size = stack[i].size
    BY <1>1, <1>2, <1>3, <1>4, <1>6, <1>7, <1>9, <1>10 DEF SimpleTypes, MultiTypes
  <2>2. QED
    BY <1>2, <1>3, <1>4, <1>7, <1>9, <2>1, NativePushed
<1>16. QED
  BY <1>12, <1>13, <1>14, <1>15

(* The element a part is read from exists.                                 *)
LEMMA ElementExists ==
  ASSUME ReaderInv, LoopInv, AnnouncedInv, NativeInv, reader = "native", phase = "geometry",
         Top.type # "POINT", Top.count < Top.size
  PROVE  Element \in Nat /\ Element < Elements(Len(stack) + 1)
<1>1. Len(stack) \in Nat \ {0} /\ Top = stack[Len(stack)] /\ Top \in FrameType
  BY TopFrame
<1>2. PICK L \in Nat \ {0} : L = Len(stack)
  BY <1>1
<1>3. /\ Len(starts) = L /\ starts \in Seq(Nat)
      /\ Depth(meta.type) \in 0 .. 3
      /\ Top.type # "GEOMETRYCOLLECTION"
      /\ L + FrameDepth(Top.type) = Depth(meta.type) + 1
      /\ Top.size \in 0 .. MaxParts
      /\ starts[L] + Top.size <= LastOffset(L)
  <2>1. phase # "start" /\ L \in 1 .. Len(stack) /\ Top = stack[L]
    BY <1>1, <1>2
  <2>2. QED
    BY <1>2, <2>1, NativeMeta
<1>4. Top.type \in GeometryTypes \cup {"RING"} /\ Top.count \in Nat
  BY <1>1 DEF FrameType
<1>5. L \in 1 .. Depth(meta.type)
  <2>1. Top.type = "RING" \/ Top.type \in SimpleTypes \cup MultiTypes
    BY <1>3, <1>4 DEF GeometryTypes
  <2>2. CASE Top.type = "RING"
    BY <1>3, <2>2 DEF FrameDepth
  <2>3. CASE Top.type \in SimpleTypes \cup MultiTypes
    <3>1. FrameDepth(Top.type) \in 1 .. 3
      BY <2>3, Depths
    <3>2. QED
      BY <1>3, <3>1
  <2>4. QED
    BY <2>1, <2>2, <2>3
<1>6. LastOffset(L) \in Nat
  <2>1. levels[L].offsets \in ListOffsets \cup {<<0>>}
    BY <1>5 DEF NativeInv, ListLevel
  <2>2. QED
    BY <2>1, ListOffsetsSorted DEF LastOffset
<1>7. starts[L] \in Nat /\ Element = starts[L] + Top.count
  <2>1. starts[L] \in Nat
    BY <1>3, ElementOfSeq
  <2>2. QED
    BY <1>3, <2>1 DEF Element
<1>8. Elements(Len(stack) + 1) = LastOffset(L)
  BY <1>2 DEF Elements
<1>9. Top.size \in Nat
  BY <1>3, ReaderAssumption
<1>10. QED
  BY <1>3, <1>4, <1>6, <1>7, <1>8, <1>9

(* The innermost geometry of a native array.                               *)
LEMMA NativeTop ==
  ASSUME ReaderInv, LoopInv, AnnouncedInv, NativeInv, reader = "native", phase = "geometry"
  PROVE  /\ Len(stack) \in Nat \ {0} /\ Top = stack[Len(stack)] /\ Top \in FrameType
         /\ Top.count \in Nat /\ Top.size \in 0 .. MaxParts
         /\ Top.type = "POINT" => Top.size = 1
         /\ Top.type \in MultiTypes => Len(stack) = 1
         /\ Len(stack) + FrameDepth(Top.type) = Depth(meta.type) + 1
         /\ Depth(meta.type) \in 0 .. 3 /\ array.length \in Nat
         /\ dim = meta.dim /\ dim \in Dims
         /\ starts \in Seq(Nat) /\ Len(starts) = Len(stack)
<1>1. Len(stack) \in Nat \ {0} /\ Top = stack[Len(stack)] /\ Top \in FrameType
  BY TopFrame
<1>2. phase # "start" /\ Len(stack) \in 1 .. Len(stack)
  BY <1>1
<1>3. Top.count \in Nat
  BY <1>1 DEF FrameType
<1>4. QED
  BY <1>1, <1>2, <1>3, NativeMeta

(* A part of a multi-geometry.                                             *)
LEMMA NativeParts ==
  ASSUME ReaderInv, LoopInv, AnnouncedInv, NativeInv, reader = "native", NativePart
  PROVE  ReaderNext /\ LoopInv' /\ AnnouncedInv' /\ NativeInv'
<1>1. PICK t, sz, s, l :
        /\ t = PartOf(Top.type)
        /\ l = Len(stack) + 1
        /\ sz = IF t = "POINT" THEN 1 ELSE ChildSize(l, Element)
        /\ s = IF t = "POINT" THEN Element ELSE ChildOffset(l, Element)
  OBVIOUS
<1>2. /\ phase = "geometry" /\ Top.type \in MultiTypes /\ Top.count < Top.size
      /\ CallGeomStart(t, sz) /\ starts' = Append(starts, s)
      /\ UNCHANGED <<dim, levels, array, filter, slot, announced>>
  BY <1>1 DEF NativePart, NativeOpen, loopVars
<1>3. /\ Len(stack) = 1 /\ Top.count \in Nat /\ Top.size \in 0 .. MaxParts
      /\ Len(stack) + FrameDepth(Top.type) = Depth(meta.type) + 1
      /\ Depth(meta.type) \in 0 .. 3 /\ array.length \in Nat
      /\ dim = meta.dim /\ dim \in Dims
  BY <1>2, NativeTop
<1>4. Top.type # "POINT" /\ Top.type # "GEOMETRYCOLLECTION"
  BY <1>2 DEF MultiTypes
<1>5. /\ t \in SimpleTypes /\ t \in PartsRead(Top.type) /\ t \in GeometryTypes
      /\ FrameDepth(t) = FrameDepth(Top.type) - 1
      /\ FrameDepth(Top.type) \in 0 .. 3 /\ FrameDepth(t) \in 0 .. 3
      /\ t # "POINT" => FrameDepth(t) > 0
  BY <1>1, <1>2, Depths, PartsReadAre DEF GeometryTypes
<1>6. Element \in Nat /\ Element < Elements(l)
  BY <1>1, <1>2, <1>4, ElementExists
<1>7. /\ sz \in 0 .. MaxParts /\ s \in Nat
      /\ t = "POINT" => sz = 1
      /\ t # "POINT" => s + sz <= LastOffset(l)
  <2>1. t # "POINT" => l <= Depth(meta.type) /\ Element < Elements(l)
    BY <1>1, <1>3, <1>5, <1>6
  <2>2. Depth(meta.type) \in Nat /\ phase # "start" /\ l \in Nat \ {0}
    BY <1>1, <1>2, <1>3
  <2>3. QED
    BY <1>1, <1>3, <1>6, <2>1, <2>2, ElementFits
<1>8. Frame(t, sz) \in FrameType
  BY <1>5, <1>7, ReaderAssumption DEF Frame, FrameType, GeometryTypes
<1>9. stack # << >>
  BY <1>2, TopFrame
<1>10. /\ UNCHANGED <<reader, meta>> /\ phase' = "geometry"
       /\ stack' = Append(CountOne(1), Frame(t, sz))
  BY <1>2, <1>9 DEF CallGeomStart
<1>11. /\ Len(stack') = Len(stack) + 1 /\ stack'[Len(stack) + 1] = Frame(t, sz)
       /\ \A i \in 1 .. Len(stack) :
            stack'[i].type = stack[i].type /\ stack'[i].size = stack[i].size
  BY <1>2, <1>8, <1>10, Pushed
<1>12. ReaderNext
  <2>1. MayGoOn(Top)
    BY <1>2, <1>3 DEF MayGoOn
  <2>2. sz \in Sizes(t, Top.type)
    BY <1>7 DEF Sizes
  <2>3. Len(stack) < MaxDepth
    BY <1>3, BoundsAssumption
  <2>4. dim' = dim /\ meta.dim \in {Unknown, dim}
    BY <1>2, <1>3
  <2>5. QED
    BY <1>2, <1>3, <1>5, <2>1, <2>2, <2>3, <2>4, PartStarts
<1>13. LoopInv'
  BY <1>2, <1>12, LoopKept DEF FeatStart
<1>14. AnnouncedInv'
  <2>1. stack'[1].type = stack[1].type
    BY <1>3, <1>11
  <2>2. QED
    BY <1>2, <1>10, <2>1, AnnouncedKept
<1>15. NativeInv'
  <2>1. /\ Len(stack) + 1 + FrameDepth(t) = Depth(meta.type) + 1
        /\ t # "GEOMETRYCOLLECTION" /\ t \notin MultiTypes
        /\ t # "POINT" => s + sz <= LastOffset(Len(stack) + 1)
        /\ phase # "start" /\ phase' # "start" /\ Depth(meta.type) \in Nat /\ Len(stack) \in Nat
    BY <1>1, <1>2, <1>3, <1>5, <1>7, <1>10 DEF SimpleTypes, MultiTypes
  <2>2. QED
    BY <1>2, <1>3, <1>7, <1>10, <1>11, <2>1, NativePushed
<1>16. QED
  BY <1>12, <1>13, <1>14, <1>15

(* A ring of a polygon.                                                    *)
LEMMA NativeRings ==
  ASSUME ReaderInv, LoopInv, AnnouncedInv, NativeInv, reader = "native", NativeRing
  PROVE  ReaderNext /\ LoopInv' /\ AnnouncedInv' /\ NativeInv'
<1>1. PICK sz, s, l :
        /\ l = Len(stack) + 1
        /\ sz = ChildSize(l, Element)
        /\ s = ChildOffset(l, Element)
  OBVIOUS
<1>2. /\ phase = "geometry" /\ Top.type = "POLYGON" /\ Top.count < Top.size
      /\ CallRingStart(sz) /\ starts' = Append(starts, s)
      /\ UNCHANGED <<levels, array, filter, slot, announced>>
  BY <1>1 DEF NativeRing, loopVars
<1>3. /\ Len(stack) \in Nat \ {0} /\ Top.count \in Nat /\ Top.size \in 0 .. MaxParts
      /\ Len(stack) + FrameDepth(Top.type) = Depth(meta.type) + 1
      /\ Depth(meta.type) \in 0 .. 3 /\ array.length \in Nat
      /\ dim = meta.dim /\ dim \in Dims
  BY <1>2, NativeTop
<1>4. FrameDepth(Top.type) = 2 /\ FrameDepth("RING") = 1
  BY <1>2 DEF FrameDepth, Depth
<1>5. Element \in Nat /\ Element < Elements(l)
  BY <1>1, <1>2, ElementExists
<1>6. sz \in 0 .. MaxParts /\ s \in Nat /\ s + sz <= LastOffset(l)
  <2>1. /\ Depth(meta.type) \in Nat /\ phase # "start" /\ l \in 1 .. Depth(meta.type)
    BY <1>1, <1>2, <1>3, <1>4
  <2>2. QED
    BY <1>1, <1>3, <1>5, <2>1, ElementParts
<1>7. Frame("RING", sz) \in FrameType
  BY <1>6, ReaderAssumption DEF Frame, FrameType
<1>8. /\ UNCHANGED <<reader, meta, dim>> /\ phase' = "geometry"
      /\ stack' = Append(CountOne(1), Frame("RING", sz))
  BY <1>2 DEF CallRingStart
<1>9. /\ Len(stack') = Len(stack) + 1 /\ stack'[Len(stack) + 1] = Frame("RING", sz)
      /\ \A i \in 1 .. Len(stack) :
           stack'[i].type = stack[i].type /\ stack'[i].size = stack[i].size
  BY <1>2, <1>7, <1>8, Pushed
<1>10. ReaderNext
  <2>1. MayGoOn(Top)
    BY <1>2, <1>3 DEF MayGoOn
  <2>2. sz \in RingSizes
    BY <1>6 DEF RingSizes
  <2>3. QED
    BY <1>2, <2>1, <2>2, RingStarts
<1>11. LoopInv'
  BY <1>2, <1>10, LoopKept DEF FeatStart
<1>12. AnnouncedInv'
  <2>1. stack'[1].type = stack[1].type
    BY <1>3, <1>9
  <2>2. QED
    BY <1>2, <1>8, <2>1, AnnouncedKept
<1>13. NativeInv'
  <2>1. /\ Len(stack) + 1 + FrameDepth("RING") = Depth(meta.type) + 1
        /\ "RING" \notin MultiTypes
        /\ s + sz <= LastOffset(Len(stack) + 1)
        /\ phase # "start" /\ phase' # "start" /\ Depth(meta.type) \in Nat /\ Len(stack) \in Nat
    BY <1>1, <1>2, <1>3, <1>4, <1>6, <1>8 DEF MultiTypes
  <2>2. QED
    BY <1>2, <1>3, <1>6, <1>8, <1>9, <2>1, NativePushed
<1>14. QED
  BY <1>10, <1>11, <1>12, <1>13

(* All coordinates of a point, line or ring.                               *)
LEMMA NativeSequences ==
  ASSUME ReaderInv, LoopInv, AnnouncedInv, NativeInv, reader = "native", NativeCoords
  PROVE  ReaderNext /\ LoopInv' /\ AnnouncedInv' /\ NativeInv'
<1>1. PICK n : n = Top.size
  OBVIOUS
<1>2. /\ phase = "geometry" /\ Top.type \in OfCoords /\ Top.count < n
      /\ CallCoords(n) /\ UNCHANGED <<starts, levels, array, filter, slot, announced>>
  BY <1>1 DEF NativeCoords, loopVars, OfCoords
<1>3. /\ Len(stack) \in Nat \ {0} /\ Top.count \in Nat /\ n \in 0 .. MaxParts
      /\ starts \in Seq(Nat) /\ Len(starts) = Len(stack) /\ n \in Nat
  BY <1>1, <1>2, NativeTop, ReaderAssumption
<1>4. /\ UNCHANGED <<reader, meta, dim>> /\ phase' = "geometry" /\ stack' = CountOne(n)
  BY <1>2 DEF CallCoords
<1>5. /\ Len(stack') = Len(stack)
      /\ \A i \in 1 .. Len(stack) :
           stack'[i].type = stack[i].type /\ stack'[i].size = stack[i].size
  BY <1>2, <1>3, <1>4, Advanced
<1>6. ReaderNext
  <2>1. MayGoOn(Top)
    BY <1>1, <1>2, <1>3 DEF MayGoOn
  <2>2. QED
    BY <1>1, <1>2, <1>3, <2>1, CoordsRead
<1>7. LoopInv'
  BY <1>2, <1>6, LoopKept DEF FeatStart
<1>8. AnnouncedInv'
  <2>1. stack'[1].type = stack[1].type
    BY <1>3, <1>5
  <2>2. QED
    BY <1>2, <1>4, <2>1, AnnouncedKept
<1>9. NativeInv'
  BY <1>2, <1>3, <1>4, <1>5, NativeSame
<1>10. QED
  BY <1>6, <1>7, <1>8, <1>9

(* The end of a ring or geometry.                                          *)
LEMMA NativeEnds ==
  ASSUME ReaderInv, LoopInv, AnnouncedInv, NativeInv, reader = "native", NativeEnd
  PROVE  ReaderNext /\ LoopInv' /\ AnnouncedInv' /\ NativeInv'
<1>1. /\ phase = "geometry" /\ Top.count = Top.size /\ CallEnd
      /\ starts' = SubSeq(starts, 1, Len(starts) - 1)
      /\ UNCHANGED <<levels, array, filter, slot, announced>>
  BY DEF NativeEnd, loopVars
<1>2. /\ Len(stack) \in Nat \ {0} /\ Top.count \in Nat
      /\ starts \in Seq(Nat) /\ Len(starts) = Len(stack)
  BY <1>1, NativeTop
<1>3. /\ UNCHANGED <<reader, meta, dim>> /\ phase' = IF Len(stack) = 1 THEN "closing" ELSE "geometry"
      /\ Len(stack') = Len(stack) - 1
      /\ \A i \in 1 .. Len(stack) - 1 : stack'[i] = stack[i]
  BY <1>1, Closed DEF CallEnd
<1>4. /\ starts' \in Seq(Nat) /\ Len(starts') = Len(stack')
      /\ \A i \in 1 .. Len(stack) - 1 : starts'[i] = starts[i]
  <2> DEFINE n == Len(stack) - 1
  <2>1. n \in Nat /\ n <= Len(starts) /\ starts' = SubSeq(starts, 1, n)
    BY <1>1, <1>2
  <2>2. \A i \in 1 .. n : starts[i] \in Nat
    BY <1>2, ElementOfSeq
  <2>3. /\ starts' \in Seq(Nat) /\ Len(starts') = n
        /\ \A i \in 1 .. n : starts'[i] = starts[i]
    <3> HIDE DEF n
    <3>1. QED
      BY <1>2, <2>1, <2>2
  <2>4. QED
    BY <1>3, <2>3
<1>5. ReaderNext
  <2>1. MayEnd(Top)
    BY <1>1, <1>2 DEF MayEnd
  <2>2. QED
    BY <1>1, <2>1, FrameEnds
<1>6. LoopInv'
  BY <1>1, <1>5, LoopKept DEF FeatStart
<1>7. AnnouncedInv'
  <2>1. phase' = "geometry" => stack'[1].type = stack[1].type
    <3>1. CASE Len(stack) = 1
      BY <1>3, <3>1
    <3>2. CASE Len(stack) # 1
      <4>1. 1 \in 1 .. Len(stack) - 1
        BY <1>2, <3>2
      <4>2. QED
        BY <1>3, <4>1
    <3>3. QED
      BY <3>1, <3>2
  <2>2. QED
    BY <1>1, <1>3, <2>1, AnnouncedKept
<1>8. NativeInv'
  <2>1. \A i \in 1 .. Len(stack') :
          /\ stack'[i].type = stack[i].type /\ stack'[i].size = stack[i].size
          /\ starts'[i] = starts[i]
    BY <1>3, <1>4
  <2>2. Len(stack') \in Nat /\ Len(stack') <= Len(stack) /\ phase # "start" /\ phase' # "start"
    BY <1>1, <1>2, <1>3
  <2>3. QED
    BY <1>1, <1>2, <1>3, <1>4, <2>1, <2>2, NativeSame
<1>9. QED
  BY <1>5, <1>6, <1>7, <1>8

(* Every call a native view makes is one of the protocol.                  *)
LEMMA NativeStep ==
  ASSUME ReaderInv, LoopInv, AnnouncedInv, NativeInv, ReadDescribed \/ NativeNext
  PROVE  ReaderNext /\ LoopInv' /\ AnnouncedInv' /\ NativeInv' /\ reader = "native" /\ reader' = reader
<1>1. reader = "native"
  BY DEF ReadDescribed, NativeBegin, NativeNext
<1>2. ASSUME NEW r \in Results, EndRow \/ GivesUp(r), NativeReset
      PROVE  ReaderNext /\ LoopInv' /\ AnnouncedInv' /\ NativeInv'
  <2>1. /\ ReaderNext /\ LoopInv' /\ AnnouncedInv'
        /\ phase # "start" /\ phase' # "start" /\ stack' = << >>
        /\ UNCHANGED <<reader, meta, dim, array>>
    BY <1>2, RowEnds DEF Busy
  <2>2. starts' = << >> /\ UNCHANGED levels
    BY <1>2 DEF NativeReset
  <2>3. QED
    BY <1>1, <2>1, <2>2, NativeClosed
<1>3. "CONTINUE" \in Results
  BY DEF Results
<1>4. ReaderNext /\ LoopInv' /\ AnnouncedInv' /\ NativeInv'
  BY <1>1, <1>2, <1>3, NativeBegins, NativeRoots, NativeParts, NativeRings, NativeSequences,
     NativeEnds DEF NativeNext
<1>5. reader' = reader
  BY <1>4, ReaderKept
<1>6. QED
  BY <1>1, <1>4, <1>5

(***************************************************************************)
(* The WKB reader.                                                         *)
(***************************************************************************)

(* What the first fields of a geometry say.                                *)
LEMMA HeaderFacts ==
  ASSUME NEW h \in Headers
  PROVE  /\ h.type \in GeometryTypes \cup {Unrecognized} /\ h.swap \in BOOLEAN
         /\ HeaderDim(h) \in Dims
         /\ HeaderFields(h) \in 2 .. 4
         /\ h.type # "POINT" => HeaderFields(h) >= 3
<1>1. PICK t \in GeometryTypes \cup {Unrecognized}, f \in HeaderFlags :
        h = [type |-> t, z |-> f.z, m |-> f.m, iso |-> f.iso, srid |-> f.srid, swap |-> f.swap]
  BY DEF Headers
<1>2. /\ f \in [z : BOOLEAN, m : BOOLEAN, iso : 0 .. 3, srid : BOOLEAN, swap : BOOLEAN]
      /\ HeaderDim(f) \in Dims
  BY HeaderAssumption
<1>3. h.type = t /\ h.z = f.z /\ h.m = f.m /\ h.iso = f.iso /\ h.swap = f.swap
  BY <1>1
<1>4. HeaderDim(h) = HeaderDim(f)
  BY <1>3 DEF HeaderDim
<1>5. /\ HeaderFields(h) \in 2 .. 4
      /\ h.type # "POINT" => HeaderFields(h) >= 3
  BY DEF HeaderFields
<1>6. QED
  BY <1>2, <1>3, <1>4, <1>5

(* The ordinates of a coordinate.                                          *)
LEMMA CoordSizes ==
  ASSUME NEW d \in Dims
  PROVE  CoordSize[d] \in {2, 3, 4}
<1>1. d \in AllDims
  BY ReaderAssumption
<1>2. QED
  BY <1>1 DEF AllDims, CoordSize

(* Only the innermost frame holds coordinates, and a frame around one that *)
(* has parts with headers has such parts itself.                           *)
LEMMA OuterFrames ==
  ASSUME ReaderInv, NestInv, phase = "geometry"
  PROVE  /\ \A i \in 1 .. Len(stack) - 1 : stack[i].type \notin OfCoords
         /\ Top.type \in Collects => \A i \in 1 .. Len(stack) : stack[i].type \in Collects
         /\ Top.type = "POLYGON" => \A i \in 1 .. Len(stack) - 1 : stack[i].type \in Collects
<1>1. Len(stack) \in Nat \ {0} /\ Top = stack[Len(stack)]
  BY TopFrame
<1>2. \A i \in 1 .. Len(stack) : stack[i].type = "RING" => i = Len(stack)
  BY DEF ReaderInv, StackWellFormed
<1>3. \A i \in 1 .. Len(stack) - 1 :
        \/ stack[i].type \in Collects
        \/ stack[i].type = "POLYGON" /\ i + 1 = Len(stack) /\ Top.type = "RING"
  BY <1>1, <1>2 DEF NestInv
<1>4. \A t : t \in Collects => t \notin OfCoords /\ t \notin {"POLYGON", "RING"}
  BY DEF Collects, OfCoords, MultiTypes
<1>5. \A i \in 1 .. Len(stack) - 1 : stack[i].type \notin OfCoords
  BY <1>3, <1>4 DEF OfCoords
<1>6. Top.type # "RING" => \A i \in 1 .. Len(stack) - 1 : stack[i].type \in Collects
  BY <1>3
<1>7. Top.type \in Collects => \A i \in 1 .. Len(stack) : stack[i].type \in Collects
  <2> SUFFICES ASSUME Top.type \in Collects, NEW i \in 1 .. Len(stack)
               PROVE  stack[i].type \in Collects
    OBVIOUS
  <2>1. CASE i = Len(stack)
    BY <1>1, <2>1
  <2>2. CASE i # Len(stack)
    BY <1>1, <1>4, <1>6, <2>2
  <2>3. QED
    BY <2>1, <2>2
<1>8. QED
  BY <1>5, <1>6, <1>7

(* Without a geometry, nothing needs to have been announced.               *)
LEMMA AnnouncedFailed ==
  ASSUME AnnouncedInv, reader # "native", UNCHANGED <<reader, meta>>, phase' # "geometry"
  PROVE  AnnouncedInv'
BY DEF AnnouncedInv

(* The reader throws.                                                      *)
LEMMA WKBFailed ==
  ASSUME ReaderInv, LoopInv, AnnouncedInv, reader = "wkb", Busy, Throws,
         dim' \in Dims \cup {dim}, heads' = << >>, left' \in Nat, UNCHANGED <<array, filter, slot>>
  PROVE  ReaderNext /\ LoopInv' /\ AnnouncedInv' /\ WKBInv'
<1>1. ReaderNext /\ phase' = "failed" /\ stack' = << >> /\ UNCHANGED <<reader, meta>>
  BY ReaderThrows DEF Throws
<1>2. LoopInv'
  BY <1>1, LoopKept DEF FeatStart
<1>3. AnnouncedInv'
  BY <1>1, AnnouncedFailed
<1>4. Len(stack') = 0 /\ Len(heads') = 0 /\ heads' \in Seq([dim : Dims, swap : BOOLEAN])
  BY <1>1
<1>5. WKBInv'
  BY <1>1, <1>4 DEF WKBInv
<1>6. QED
  BY <1>1, <1>2, <1>3, <1>5

(* A header either ends the call or opens a geometry.                      *)
LEMMA HeaderRead ==
  ASSUME NEW n \in Nat, NEW h \in Headers, NEW sz, WKBHeader(n, h, sz)
  PROVE  /\ UNCHANGED <<array, filter, slot>> /\ swapping' = h.swap
         /\ h.type = "POINT" => sz = 1
         /\ \/ Throws /\ dim' \in Dims \cup {dim} /\ heads' = << >> /\ left' \in Nat
            \/ /\ h.type = Unrecognized /\ AnnounceDim(HeaderDim(h))
               /\ HeaderFields(h) <= n /\ left' = n - HeaderFields(h)
               /\ \E r \in Results : Unwind(Outcome(h.type, r), Feature(cur))
               /\ heads' = << >> /\ UNCHANGED <<reader, meta>>
            \/ /\ h.type \in GeometryTypes /\ HeaderFields(h) <= n
               /\ left' = n - HeaderFields(h)
               /\ AnnounceType(h.type) /\ AnnounceDim(HeaderDim(h))
               /\ CallGeomStart(h.type, sz)
               /\ heads' = Append(heads, [dim |-> HeaderDim(h), swap |-> h.swap])
<1>1. /\ HeaderDim(h) \in Dims /\ HeaderFields(h) \in 2 .. 4
      /\ h.type \in GeometryTypes \cup {Unrecognized}
  BY HeaderFacts
<1>2. /\ UNCHANGED <<array, filter, slot>> /\ swapping' = h.swap
      /\ h.type = "POINT" => sz = 1
  BY DEF WKBHeader, ReadEndian
<1>3. CASE n < HeaderFields(h)
  BY <1>2, <1>3 DEF WKBHeader
<1>4. CASE ~(n < HeaderFields(h))
  <2>1. /\ left' = n - HeaderFields(h)
        /\ AnnounceType(h.type) /\ AnnounceDim(HeaderDim(h))
        /\ IF h.type = Unrecognized
           THEN /\ \E r \in Results : Unwind(Outcome(h.type, r), Feature(cur))
                /\ heads' = << >> /\ UNCHANGED <<reader, meta>>
           ELSE /\ CallGeomStart(h.type, sz)
                /\ heads' = Append(heads, [dim |-> HeaderDim(h), swap |-> h.swap])
    BY <1>4 DEF WKBHeader
  <2>2. HeaderFields(h) <= n
    BY <1>1, <1>4
  <2>3. QED
    BY <1>1, <1>2, <2>1, <2>2
<1>5. QED
  BY <1>3, <1>4

(* A header of a type the reader does not know ends the feature or the     *)
(* call, as geom_start() answers.                                          *)
LEMMA WKBUnrecognized ==
  ASSUME ReaderInv, LoopInv, AnnouncedInv, reader = "wkb", NEW sz \in 0 .. MaxParts,
         NEW d \in Dims, dim' = d, NEW r \in Results,
         Unwind(Outcome(Unrecognized, r), Feature(cur)), UNCHANGED <<reader, meta>>,
         \/ phase = "feature"
         \/ /\ phase = "geometry" /\ Top.type \in Collects /\ Top.count < Top.size
            /\ Len(stack) < MaxDepth,
         heads' = << >>, left' \in Nat, UNCHANGED <<array, filter, slot>>
  PROVE  ReaderNext /\ LoopInv' /\ AnnouncedInv' /\ WKBInv'
<1>1. Untyped /\ NestedEmpty
  BY BoundsAssumption DEF Untyped
<1>2. meta.type = Unknown /\ meta.dim = Unknown
  BY DEF AnnouncedInv
<1>3. sz \in Sizes(Unrecognized, "") /\ sz \in Sizes(Unrecognized, Top.type)
  BY DEF Sizes, Unrecognized
<1>4. GeomStart(Unrecognized, sz, d, r)
  <2>1. CASE phase = "feature"
    BY <1>1, <1>2, <1>3, <2>1 DEF GeomStart, RootsRead
  <2>2. CASE phase = "geometry"
    <3>1. Unrecognized \in PartsRead(Top.type)
      BY <1>1, <2>2 DEF PartsRead, Collects
    <3>2. MayGoOn(Top)
      BY <2>2, TopFrame DEF MayGoOn, FrameType
    <3>3. QED
      BY <1>1, <1>2, <1>3, <2>2, <3>1, <3>2 DEF GeomStart
  <2>3. QED
    BY <2>1, <2>2
<1>5. ReaderNext
  <2>1. sz \in -1 .. MaxParts
    BY ReaderAssumption
  <2>2. QED
    BY <1>4, <2>1 DEF ReaderNext
<1>6. phase' \in {"between", "read", "failed"} /\ stack' = << >>
  BY DEF Unwind, EndFeature
<1>7. LoopInv'
  BY <1>5, <1>6, LoopKept DEF FeatStart
<1>8. AnnouncedInv'
  BY <1>6, AnnouncedFailed
<1>9. Len(stack') = 0 /\ Len(heads') = 0 /\ heads' \in Seq([dim : Dims, swap : BOOLEAN])
  BY <1>6
<1>10. WKBInv'
  BY <1>9 DEF WKBInv
<1>11. QED
  BY <1>5, <1>7, <1>8, <1>10

(* The header of a feature.                                                *)
LEMMA WKBRoots ==
  ASSUME ReaderInv, NestInv, LoopInv, AnnouncedInv, WKBInv, reader = "wkb",
         NEW h \in Headers, NEW sz \in 0 .. MaxCount, ReadRoot(h, sz)
  PROVE  ReaderNext /\ LoopInv' /\ AnnouncedInv' /\ WKBInv'
<1>1. PICK n \in 0 .. MaxFields : WKBHeader(n, h, sz)
  BY DEF ReadRoot
<1>2. PICK d, t, k : d = HeaderDim(h) /\ t = h.type /\ k = HeaderFields(h)
  OBVIOUS
<1>3. Reading /\ phase = "feature" /\ Busy /\ t \in RootTypes \cup {Unrecognized} /\ n \in Nat
  BY <1>2 DEF ReadRoot, Reading, Busy, RootsRead
<1>4. /\ d \in Dims /\ h.swap \in BOOLEAN /\ k \in 2 .. 4
      /\ t # "POINT" => k >= 3
  BY <1>2, HeaderFacts
<1>5. /\ UNCHANGED <<array, filter, slot>> /\ swapping' = h.swap
      /\ t = "POINT" => sz = 1
  BY <1>1, <1>2, <1>3, HeaderRead
<1>6. CASE Throws /\ dim' \in Dims \cup {dim} /\ heads' = << >> /\ left' \in Nat
  BY <1>3, <1>5, <1>6, WKBFailed
<1>7. CASE /\ t \in GeometryTypes /\ k <= n /\ left' = n - k
           /\ AnnounceType(t) /\ AnnounceDim(d) /\ CallGeomStart(t, sz)
           /\ heads' = Append(heads, [dim |-> d, swap |-> h.swap])
  <2>1. t \in RootTypes
    BY <1>3, <1>7 DEF Unrecognized, GeometryTypes, SimpleTypes, MultiTypes
  <2>2. sz \in 0 .. MaxParts /\ sz \in Nat /\ sz \in Int
    BY FieldsAssumption, ReaderAssumption
  <2>3. Frame(t, sz) \in FrameType
    BY <1>7, <2>2 DEF Frame, FrameType
  <2>4. /\ stack' = Append(IF stack = << >> THEN stack ELSE CountOne(1), Frame(t, sz))
        /\ UNCHANGED <<reader, meta>> /\ dim' = d /\ phase' = "geometry"
    BY <1>7 DEF CallGeomStart, AnnounceDim
  <2>5. stack = << >> /\ Len(stack) = 0 /\ Len(stack') = 1 /\ stack'[1] = Frame(t, sz)
    BY <1>3, <2>3, <2>4, PushedRoot
  <2>6. meta.type = Unknown /\ meta.dim = Unknown
    BY DEF AnnouncedInv
  <2>7. sz \in Sizes(t, "")
    BY <1>5, <2>2 DEF Sizes
  <2>8. ReaderNext
    BY <1>3, <1>4, <1>7, <2>1, <2>4, <2>6, <2>7, RootStarts
  <2>9. LoopInv'
    BY <1>3, <1>5, <2>4, <2>8, LoopKept DEF FeatStart, Reading
  <2>10. AnnouncedInv'
    BY <1>3, <1>4, <1>7, <2>3, HeaderAnnounces
  <2>11. heads \in Seq([dim : Dims, swap : BOOLEAN]) /\ Len(heads) = 0
    BY <2>5 DEF WKBInv
  <2>12. /\ heads' \in Seq([dim : Dims, swap : BOOLEAN]) /\ Len(heads') = 1
         /\ heads'[1] = [dim |-> d, swap |-> h.swap]
    BY <1>4, <1>7, <2>11, AppendProperties
  <2>13. left' \in Nat /\ t \in Collects => left' + 3 <= MaxFields
    BY <1>3, <1>4, <1>7, FieldsAssumption DEF Collects, MultiTypes
  <2>14. WKBInv'
    <3>1. stack'[1].type = t /\ stack'[1].size = sz /\ stack'[1].count = 0
      BY <2>5 DEF Frame
    <3>2. left' \in Nat
      BY <1>4, <1>7, <1>3
    <3>3. \A i \in 1 .. Len(stack') : i = 1
      BY <2>5
    <3>4. QED
      BY <1>5, <2>2, <2>4, <2>5, <2>12, <2>13, <3>1, <3>2, <3>3 DEF WKBInv
  <2>15. QED
    BY <2>8, <2>9, <2>10, <2>14
<1>8. CASE /\ t = Unrecognized /\ k <= n /\ left' = n - k /\ AnnounceDim(d)
           /\ \E r \in Results : Unwind(Outcome(t, r), Feature(cur))
           /\ heads' = << >> /\ UNCHANGED <<reader, meta>>
  <2>1. sz \in 0 .. MaxParts
    BY FieldsAssumption, ReaderAssumption
  <2>2. left' \in Nat /\ dim' = d
    BY <1>3, <1>4, <1>8 DEF AnnounceDim
  <2>3. PICK r \in Results : Unwind(Outcome(Unrecognized, r), Feature(cur))
    BY <1>8
  <2>4. QED
    BY <1>3, <1>4, <1>5, <1>8, <2>1, <2>2, <2>3, WKBUnrecognized
<1>9. QED
  BY <1>1, <1>2, <1>3, <1>6, <1>7, <1>8, HeaderRead

(* A frame more. If a header was read for it, no frame around it relies on *)
(* the one before.                                                         *)
LEMMA WKBPushed ==
  ASSUME ReaderInv, NestInv, WKBInv, reader = "wkb", reader' = reader, phase = "geometry",
         NEW t, NEW sz \in 0 .. MaxParts, NEW d \in Dims, NEW s \in BOOLEAN,
         Frame(t, sz) \in FrameType, stack' = Append(CountOne(1), Frame(t, sz)),
         heads' = Append(heads, [dim |-> d, swap |-> s]), dim' = d, swapping' = s,
         left' \in Nat, left' <= left,
         t \in Collects => left' + 3 * (Len(stack) + 1) <= MaxFields,
         \A i \in 1 .. Len(stack) :
           /\ stack[i].type \notin OfCoords
           /\ stack[i].type \notin Collects => d = dim /\ s = swapping
  PROVE  WKBInv'
<1>1. PICK n \in Nat \ {0} : n = Len(stack)
  BY TopFrame
<1>2. /\ Len(stack') = n + 1 /\ stack'[n + 1] = Frame(t, sz)
      /\ \A i \in 1 .. n : stack'[i].type = stack[i].type /\ stack'[i].size = stack[i].size
  BY <1>1, Pushed
<1>3. /\ heads \in Seq([dim : Dims, swap : BOOLEAN]) /\ Len(heads) = n /\ left \in Nat
      /\ \A i \in 1 .. n :
           /\ stack[i].size \in 0 .. MaxParts
           /\ stack[i].type \notin Collects => heads[i] = [dim |-> dim, swap |-> swapping]
           /\ stack[i].type \in Collects => left + 3 * i <= MaxFields
  BY <1>1 DEF WKBInv
<1>4. /\ heads' \in Seq([dim : Dims, swap : BOOLEAN]) /\ Len(heads') = n + 1
      /\ heads'[n + 1] = [dim |-> d, swap |-> s]
      /\ \A i \in 1 .. n : heads'[i] = heads[i]
  BY <1>3, AppendProperties
<1>5. ASSUME NEW i \in 1 .. n + 1
      PROVE  /\ stack'[i].size \in 0 .. MaxParts
             /\ stack'[i].type \notin Collects => heads'[i] = [dim |-> dim', swap |-> swapping']
             /\ stack'[i].type \in Collects => left' + 3 * i <= MaxFields
             /\ stack'[i].type \in OfCoords /\ stack'[i].count > 0 =>
                  left' >= CoordSize[dim'] * (stack'[i].size - stack'[i].count)
  <2>1. CASE i = n + 1
    <3>1. stack'[i].type = t /\ stack'[i].size = sz /\ stack'[i].count = 0
      BY <1>2, <2>1 DEF Frame
    <3>2. t \in Collects => left' + 3 * i <= MaxFields
      BY <1>1, <2>1
    <3>3. heads'[i] = [dim |-> dim', swap |-> swapping']
      BY <1>4, <2>1
    <3>4. ~(stack'[i].count > 0)
      <4>1. ~(0 > 0)
        OBVIOUS
      <4>2. QED
        BY <3>1, <4>1, Zenon
    <3>5. QED
      BY <3>1, <3>2, <3>3, <3>4, Zenon
  <2>2. CASE i # n + 1
    <3>1. i \in 1 .. n
      BY <2>2
    <3>2. /\ stack'[i].type = stack[i].type /\ stack'[i].size = stack[i].size
          /\ heads'[i] = heads[i] /\ stack[i].type \notin OfCoords
          /\ stack[i].type \notin Collects => d = dim /\ s = swapping
      BY <1>1, <1>2, <1>4, <3>1
    <3>3. left + 3 * i <= MaxFields => left' + 3 * i <= MaxFields
      BY <1>3, <3>1, FieldsAssumption
    <3>4. QED
      BY <1>3, <3>1, <3>2, <3>3
  <2>3. QED
    BY <2>1, <2>2
<1>6. QED
  BY <1>2, <1>4, <1>5 DEF WKBInv

(* A part with a header of its own.                                        *)
LEMMA WKBMembers ==
  ASSUME ReaderInv, NestInv, LoopInv, AnnouncedInv, WKBInv, reader = "wkb",
         NEW h \in Headers, NEW sz \in 0 .. MaxCount, ReadMember(h, sz)
  PROVE  ReaderNext /\ LoopInv' /\ AnnouncedInv' /\ WKBInv'
<1>1. WKBHeader(left, h, sz) /\ left \in Nat
  BY DEF ReadMember, WKBInv
<1>2. PICK d, t, k : d = HeaderDim(h) /\ t = h.type /\ k = HeaderFields(h)
  OBVIOUS
<1>3. /\ phase = "geometry" /\ Busy /\ Top.count < Top.size
      /\ t \in PartsRead(Top.type) /\ Top.type \in Collects
  BY <1>2, PartsReadAre DEF ReadMember, Busy
<1>4. /\ d \in Dims /\ h.swap \in BOOLEAN /\ k \in 2 .. 4
      /\ t # "POINT" => k >= 3
  BY <1>2, HeaderFacts
<1>5. /\ UNCHANGED <<array, filter, slot>> /\ swapping' = h.swap
      /\ t = "POINT" => sz = 1
  BY <1>1, <1>2, HeaderRead
<1>6. PICK n \in Nat \ {0} : n = Len(stack)
  BY <1>3, TopFrame
<1>7. stack # << >> /\ Top = stack[n] /\ Top.count \in Nat
  BY <1>3, <1>6, TopFrame DEF FrameType
<1>8. left + 3 * n <= MaxFields /\ Top.size \in 0 .. MaxParts
  <2>1. n \in 1 .. Len(stack) /\ stack[n].type \in Collects
    BY <1>3, <1>6, <1>7
  <2>2. QED
    BY <1>7, <2>1 DEF WKBInv
<1>9. Len(stack) < MaxDepth
  BY <1>1, <1>6, <1>8, BoundsAssumption, FieldsAssumption, ReaderAssumption
<1>10. sz \in 0 .. MaxParts /\ sz \in Nat /\ sz \in Int
  BY FieldsAssumption, ReaderAssumption
<1>11. CASE Throws /\ dim' \in Dims \cup {dim} /\ heads' = << >> /\ left' \in Nat
  BY <1>3, <1>5, <1>11, WKBFailed
<1>12. CASE /\ t = Unrecognized /\ k <= left /\ left' = left - k /\ AnnounceDim(d)
            /\ \E r \in Results : Unwind(Outcome(t, r), Feature(cur))
            /\ heads' = << >> /\ UNCHANGED <<reader, meta>>
  <2>1. left' \in Nat /\ dim' = d
    BY <1>1, <1>4, <1>12 DEF AnnounceDim
  <2>2. PICK r \in Results : Unwind(Outcome(Unrecognized, r), Feature(cur))
    BY <1>12
  <2>3. QED
    BY <1>3, <1>4, <1>5, <1>9, <1>10, <1>12, <2>1, <2>2, WKBUnrecognized
<1>13. CASE /\ t \in GeometryTypes /\ k <= left /\ left' = left - k
            /\ AnnounceType(t) /\ AnnounceDim(d) /\ CallGeomStart(t, sz)
            /\ heads' = Append(heads, [dim |-> d, swap |-> h.swap])
  <2>1. Frame(t, sz) \in FrameType
    BY <1>10, <1>13 DEF Frame, FrameType
  <2>2. /\ stack' = Append(CountOne(1), Frame(t, sz))
        /\ UNCHANGED <<reader, meta>> /\ dim' = d /\ phase' = "geometry"
    BY <1>7, <1>13 DEF CallGeomStart, AnnounceDim
  <2>3. \A i \in 1 .. n : stack[i].type \in Collects /\ stack[i].type \notin OfCoords
    BY <1>3, <1>6, OuterFrames DEF Collects, MultiTypes, OfCoords
  <2>4. ReaderNext
    <3>1. meta.dim = Unknown
      BY DEF AnnouncedInv
    <3>2. sz \in Sizes(t, Top.type)
      BY <1>5, <1>10 DEF Sizes
    <3>3. MayGoOn(Top)
      BY <1>3, <1>7, <1>8, ReaderAssumption DEF MayGoOn
    <3>4. QED
      BY <1>3, <1>4, <1>9, <1>13, <2>2, <3>1, <3>2, <3>3, PartStarts
  <2>5. LoopInv'
    BY <1>3, <1>5, <2>4, LoopKept DEF FeatStart
  <2>6. AnnouncedInv'
    BY <1>3, <1>4, <1>13, <2>1, HeaderAnnounces
  <2>7. /\ left' \in Nat /\ left' <= left
        /\ t \in Collects => left' + 3 * (Len(stack) + 1) <= MaxFields
    <3>1. t \in Collects => k >= 3
      BY <1>4 DEF Collects, MultiTypes
    <3>2. QED
      BY <1>1, <1>4, <1>6, <1>8, <1>13, <3>1, FieldsAssumption
  <2>8. WKBInv'
    BY <1>3, <1>4, <1>5, <1>6, <1>10, <1>13, <2>1, <2>2, <2>3, <2>7, WKBPushed
  <2>9. QED
    BY <2>4, <2>5, <2>6, <2>8
<1>14. QED
  BY <1>1, <1>2, <1>11, <1>12, <1>13, HeaderRead

(* A ring of a polygon, in the byte order and dimensions of the polygon.   *)
LEMMA WKBRings ==
  ASSUME ReaderInv, NestInv, LoopInv, AnnouncedInv, WKBInv, reader = "wkb",
         NEW sz \in 0 .. MaxCount, ReadRing(sz)
  PROVE  ReaderNext /\ LoopInv' /\ AnnouncedInv' /\ WKBInv'
<1>1. phase = "geometry" /\ Busy /\ Top.type = "POLYGON" /\ Top.count < Top.size
  BY DEF ReadRing, Busy
<1>2. CASE WKBThrows
  <2>1. /\ Throws /\ dim' \in Dims \cup {dim} /\ heads' = << >> /\ left' \in Nat
        /\ UNCHANGED <<array, filter, slot>>
    BY <1>2 DEF WKBThrows, loopVars
  <2>2. QED
    BY <1>1, <2>1, WKBFailed
<1>3. CASE /\ ~(left < 1) /\ left' = left - 1 /\ CallRingStart(sz)
           /\ heads' = Append(heads, heads[Len(heads)])
           /\ UNCHANGED <<swapping, array, filter, slot, announced>>
  <2>1. PICK n \in Nat \ {0} : n = Len(stack)
    BY <1>1, TopFrame
  <2>2. Top = stack[n] /\ Top.count \in Nat
    BY <1>1, <2>1, TopFrame DEF FrameType
  <2>3. Top.type \notin Collects /\ Top.type \notin OfCoords
    BY <1>1 DEF Collects, MultiTypes, OfCoords
  <2>4. sz \in 0 .. MaxParts /\ sz \in Int
    BY FieldsAssumption, ReaderAssumption
  <2>5. Frame("RING", sz) \in FrameType
    BY <2>4 DEF Frame, FrameType
  <2>6. /\ stack' = Append(CountOne(1), Frame("RING", sz))
        /\ UNCHANGED <<reader, meta, dim>> /\ phase' = "geometry"
    BY <1>1, <1>3 DEF CallRingStart
  <2>7. /\ n \in 1 .. Len(stack) /\ Len(heads) = n /\ left \in Nat
        /\ heads[n] = [dim |-> dim, swap |-> swapping] /\ Top.size \in 0 .. MaxParts
        /\ heads \in Seq([dim : Dims, swap : BOOLEAN])
    BY <2>1, <2>2, <2>3 DEF WKBInv
  <2>8. dim \in Dims /\ swapping \in BOOLEAN
    <3>1. heads[n] \in [dim : Dims, swap : BOOLEAN]
      BY <2>1, <2>7, ElementOfSeq
    <3>2. heads[n].dim = dim /\ heads[n].swap = swapping
      BY <2>7
    <3>3. QED
      BY <3>1, <3>2
  <2>9. ReaderNext
    <3>1. MayGoOn(Top)
      BY <1>1, <2>2, <2>7, ReaderAssumption DEF MayGoOn
    <3>2. sz \in RingSizes
      BY <2>4 DEF RingSizes
    <3>3. QED
      BY <1>1, <1>3, <3>1, <3>2, RingStarts
  <2>10. LoopInv'
    BY <1>1, <1>3, <2>9, LoopKept DEF FeatStart
  <2>11. AnnouncedInv'
    <3>1. stack'[1].type = stack[1].type
      BY <1>1, <2>1, <2>5, <2>6, Pushed
    <3>2. QED
      BY <1>1, <1>3, <2>6, <3>1, AnnouncedKept
  <2>12. \A i \in 1 .. n : stack[i].type \notin OfCoords
    BY <1>1, <2>1, <2>2, <2>3, OuterFrames
  <2>13. left' \in Nat /\ left' <= left /\ "RING" \notin Collects
    BY <1>3, <2>7 DEF Collects, MultiTypes
  <2>14. heads' = Append(heads, [dim |-> dim, swap |-> swapping])
    BY <1>3, <2>7
  <2>15. WKBInv'
    BY <1>1, <1>3, <2>1, <2>4, <2>5, <2>6, <2>8, <2>12, <2>13, <2>14, WKBPushed
  <2>16. QED
    BY <2>9, <2>10, <2>11, <2>15
<1>4. QED
  BY <1>2, <1>3 DEF ReadRing, loopVars

(* The rest of a sequence of coordinates of c ordinates each.              *)
LEMMA RestOfSequence ==
  ASSUME NEW c \in {2, 3, 4}, NEW size \in Nat, NEW count \in Nat, count < size,
         NEW rest \in Nat, rest >= c * (size - count)
  PROVE  rest - c \in Nat /\ rest - c >= c * (size - (count + 1))
<1>1. CASE c = 2
  BY <1>1
<1>2. CASE c = 3
  BY <1>2
<1>3. CASE c = 4
  BY <1>3
<1>4. QED
  BY <1>1, <1>2, <1>3

(* A coordinate of a point, line or ring.                                  *)
LEMMA WKBSequences ==
  ASSUME ReaderInv, NestInv, LoopInv, AnnouncedInv, WKBInv, reader = "wkb", ReadCoord
  PROVE  ReaderNext /\ LoopInv' /\ AnnouncedInv' /\ WKBInv'
<1>1. phase = "geometry" /\ Busy /\ Top.type \in OfCoords /\ Top.count < Top.size
  BY DEF ReadCoord, Busy, OfCoords
<1>2. PICK n \in Nat \ {0} : n = Len(stack)
  BY <1>1, TopFrame
<1>3. PICK f : f = Top
  OBVIOUS
<1>4. f = stack[n] /\ f.count \in Nat
  BY <1>1, <1>2, <1>3, TopFrame DEF FrameType
<1>5. n \in 1 .. Len(stack) /\ stack[n].type \in OfCoords /\ stack[n].type \notin Collects
  BY <1>1, <1>2, <1>3, <1>4 DEF Collects, MultiTypes, OfCoords
<1>6. /\ heads \in Seq([dim : Dims, swap : BOOLEAN]) /\ Len(heads) = n /\ left \in Nat
      /\ heads[n] = [dim |-> dim, swap |-> swapping] /\ f.size \in 0 .. MaxParts
      /\ f.count > 0 => left >= CoordSize[dim] * (f.size - f.count)
  BY <1>2, <1>4, <1>5 DEF WKBInv
<1>7. heads[Len(heads)].dim = dim /\ dim \in Dims
  BY <1>1, <1>6 DEF AnnouncedInv
<1>8. CASE WKBThrows
  <2>1. /\ Throws /\ dim' \in Dims \cup {dim} /\ heads' = << >> /\ left' \in Nat
        /\ UNCHANGED <<array, filter, slot>>
    BY <1>8 DEF WKBThrows, loopVars
  <2>2. QED
    BY <1>1, <2>1, WKBFailed
<1>9. CASE /\ Checked(Top, dim) /\ left' = left - CoordSize[dim] /\ CallCoords(1)
           /\ UNCHANGED <<swapping, heads, array, filter, slot, announced>>
  <2>1. PICK c, size, count : c = CoordSize[dim] /\ size = f.size /\ count = f.count
    OBVIOUS
  <2>2. /\ c \in {2, 3, 4} /\ size \in Nat /\ count \in Nat /\ count < size
    BY <1>1, <1>3, <1>4, <1>6, <1>7, <2>1, CoordSizes, ReaderAssumption
  <2>3. left >= c * (size - count)
    <3>1. CASE count = 0
      <4>1. left >= c * size /\ size - count = size
        BY <1>3, <1>9, <2>1, <2>2, <3>1 DEF Checked
      <4>2. QED
        BY <4>1
    <3>2. CASE count # 0
      <4>1. count > 0
        BY <2>2, <3>2
      <4>2. QED
        BY <1>6, <2>1, <4>1
    <3>3. QED
      BY <3>1, <3>2
  <2>4. left' = left - c /\ left' \in Nat /\ left' >= c * (size - (count + 1))
    <3>1. left' = left - c
      BY <1>9, <2>1
    <3>2. QED
      BY <1>6, <2>2, <2>3, <3>1, RestOfSequence
  <2>5. /\ UNCHANGED <<reader, meta, dim>> /\ phase' = "geometry" /\ stack' = CountOne(1)
    BY <1>1, <1>9 DEF CallCoords
  <2>6. /\ Len(stack') = n
        /\ \A i \in 1 .. n :
             /\ stack'[i].type = stack[i].type /\ stack'[i].size = stack[i].size
             /\ stack'[i].count = stack[i].count + (IF i = n THEN 1 ELSE 0)
    BY <1>1, <1>2, <2>5, Advanced
  <2>7. ReaderNext
    <3>1. MayGoOn(Top)
      BY <1>1, <1>3, <2>1, <2>2 DEF MayGoOn
    <3>2. 1 \in 0 .. MaxParts
      BY ReaderAssumption
    <3>3. QED
      BY <1>1, <1>9, <3>1, <3>2, CoordsRead
  <2>8. LoopInv'
    BY <1>1, <1>9, <2>7, LoopKept DEF FeatStart
  <2>9. AnnouncedInv'
    <3>1. stack'[1].type = stack[1].type
      BY <1>2, <2>6
    <3>2. QED
      BY <1>1, <1>9, <2>5, <3>1, AnnouncedKept
  <2>10. ASSUME NEW i \in 1 .. n
         PROVE  /\ stack'[i].size \in 0 .. MaxParts
                /\ stack'[i].type \notin Collects => heads'[i] = [dim |-> dim', swap |-> swapping']
                /\ stack'[i].type \in Collects => left' + 3 * i <= MaxFields
                /\ stack'[i].type \in OfCoords /\ stack'[i].count > 0 =>
                     left' >= CoordSize[dim'] * (stack'[i].size - stack'[i].count)
    <3>1. /\ stack'[i].type = stack[i].type /\ stack'[i].size = stack[i].size
          /\ heads' = heads /\ dim' = dim /\ swapping' = swapping
      BY <1>9, <2>5, <2>6
    <3>2. /\ stack[i].size \in 0 .. MaxParts
          /\ stack[i].type \notin Collects => heads[i] = [dim |-> dim, swap |-> swapping]
          /\ stack[i].type \in Collects => left + 3 * i <= MaxFields
      BY <1>2 DEF WKBInv
    <3>3. left + 3 * i <= MaxFields => left' + 3 * i <= MaxFields
      BY <1>6, <2>2, <2>4, FieldsAssumption
    <3>4. stack[i].type \in OfCoords =>
            left' >= CoordSize[dim'] * (stack'[i].size - stack'[i].count)
      <4>1. CASE i = n
        <5>1. CoordSize[dim'] = c /\ stack'[i].size = size /\ stack'[i].count = count + 1
          BY <1>4, <2>1, <2>6, <3>1, <4>1
        <5>2. QED
          BY <2>4, <5>1
      <4>2. CASE i # n
        <5>1. i \in 1 .. Len(stack) - 1
          BY <1>2, <4>2
        <5>2. QED
          BY <1>1, <5>1, OuterFrames
      <4>3. QED
        BY <4>1, <4>2
    <3>5. QED
      BY <3>1, <3>2, <3>3, <3>4, Zenon
  <2>11. WKBInv'
    BY <1>6, <1>9, <2>4, <2>5, <2>6, <2>10 DEF WKBInv
  <2>12. QED
    BY <2>7, <2>8, <2>9, <2>11
<1>10. QED
  BY <1>7, <1>8, <1>9 DEF ReadCoord, loopVars

(* The end of a ring or geometry.                                          *)
LEMMA WKBEnds ==
  ASSUME ReaderInv, NestInv, LoopInv, AnnouncedInv, WKBInv, reader = "wkb", ReadEnd
  PROVE  ReaderNext /\ LoopInv' /\ AnnouncedInv' /\ WKBInv'
<1>1. /\ phase = "geometry" /\ Top.count = Top.size /\ CallEnd
      /\ heads' = SubSeq(heads, 1, Len(heads) - 1)
      /\ UNCHANGED <<left, swapping, array, filter, slot, announced>>
  BY SMTT(30) DEF ReadEnd, loopVars
<1>2. PICK n \in Nat : n + 1 = Len(stack)
  <2>1. Len(stack) \in Nat \ {0}
    BY <1>1, TopFrame
  <2>2. Len(stack) - 1 \in Nat /\ (Len(stack) - 1) + 1 = Len(stack)
    BY <2>1
  <2>3. QED
    BY <2>2
<1>3. /\ UNCHANGED <<reader, meta, dim>> /\ phase' = IF n = 0 THEN "closing" ELSE "geometry"
      /\ Len(stack') = n
      /\ \A i \in 1 .. n : stack'[i] = stack[i]
  BY <1>1, <1>2, Closed DEF CallEnd
<1>4. /\ heads \in Seq([dim : Dims, swap : BOOLEAN]) /\ Len(heads) = n + 1 /\ left \in Nat
      /\ heads' = SubSeq(heads, 1, n)
  BY <1>1, <1>2 DEF WKBInv
<1>5. /\ heads' \in Seq([dim : Dims, swap : BOOLEAN]) /\ Len(heads') = n
      /\ \A i \in 1 .. n : heads'[i] = heads[i]
  <2>1. PICK S : S = [dim : Dims, swap : BOOLEAN]
    OBVIOUS
  <2>2. heads \in Seq(S)
    BY <1>4, <2>1
  <2>3. \A i \in 1 .. n : heads[i] \in S
    BY <1>2, <1>4, <2>2, ElementOfSeq
  <2>4. /\ heads' \in Seq(S) /\ Len(heads') = n
        /\ \A i \in 1 .. n : heads'[i] = heads[i]
    BY <1>2, <1>4, <2>2, <2>3
  <2>5. QED
    BY <2>1, <2>4
<1>6. ReaderNext
  <2>1. Top.count \in Nat
    BY <1>1, TopFrame DEF FrameType
  <2>2. MayEnd(Top)
    BY <1>1, <2>1 DEF MayEnd
  <2>3. QED
    BY <1>1, <2>2, FrameEnds
<1>7. LoopInv'
  BY <1>1, <1>6, LoopKept DEF FeatStart
<1>8. AnnouncedInv'
  <2>1. phase' = "geometry" => stack'[1].type = stack[1].type
    <3>1. CASE n = 0
      BY <1>3, <3>1
    <3>2. CASE n # 0
      <4>1. 1 \in 1 .. n
        BY <1>2, <3>2
      <4>2. QED
        BY <1>3, <4>1
    <3>3. QED
      BY <3>1, <3>2
  <2>2. phase # "start" /\ phase' # "start"
    BY <1>1, <1>3
  <2>3. QED
    BY <1>1, <1>3, <2>1, <2>2, AnnouncedKept
<1>9. WKBInv'
  <2>1. ASSUME NEW i \in 1 .. n
        PROVE  /\ stack'[i].size \in 0 .. MaxParts
               /\ stack'[i].type \notin Collects => heads'[i] = [dim |-> dim', swap |-> swapping']
               /\ stack'[i].type \in Collects => left' + 3 * i <= MaxFields
               /\ stack'[i].type \in OfCoords /\ stack'[i].count > 0 =>
                    left' >= CoordSize[dim'] * (stack'[i].size - stack'[i].count)
    <3>1. /\ stack'[i] = stack[i] /\ heads'[i] = heads[i]
          /\ dim' = dim /\ swapping' = swapping /\ left' = left
      BY <1>1, <1>3, <1>5
    <3>2. i \in 1 .. Len(stack)
      BY <1>2
    <3>3. /\ stack[i].size \in 0 .. MaxParts
          /\ stack[i].type \notin Collects => heads[i] = [dim |-> dim, swap |-> swapping]
          /\ stack[i].type \in Collects => left + 3 * i <= MaxFields
          /\ stack[i].type \in OfCoords /\ stack[i].count > 0 =>
               left >= CoordSize[dim] * (stack[i].size - stack[i].count)
      BY <3>2, Zenon DEF WKBInv
    <3>4. QED
      BY <3>1, <3>3, Zenon
  <2>2. left' \in Nat /\ reader' = "wkb"
    BY <1>1, <1>3, <1>4
  <2>3. QED
    BY <1>3, <1>5, <2>1, <2>2 DEF WKBInv
<1>10. QED
  BY <1>6, <1>7, <1>8, <1>9

(* No geometry is open.                                                    *)
LEMMA WKBClosed ==
  ASSUME reader' = "wkb", stack' = << >>, heads' = << >>, left' \in Nat
  PROVE  WKBInv'
BY DEF WKBInv

(* Every call the WKB reader makes is one of the protocol.                 *)
LEMMA WKBStep ==
  ASSUME ReaderInv, NestInv, LoopInv, AnnouncedInv, WKBInv, WKBNext
  PROVE  ReaderNext /\ LoopInv' /\ AnnouncedInv' /\ WKBInv' /\ reader = "wkb" /\ reader' = reader
<1>1. reader = "wkb" /\ left \in Nat
  BY DEF WKBNext, WKBInv
<1>2. CASE WKBBegin
  <2>1. /\ ReaderNext /\ AnnouncedInv' /\ phase' = "between" /\ phase = "start"
        /\ UNCHANGED <<array, filter, slot, reader, stack, heads, left>>
    BY <1>2, LoopFollows, BeginAnnounces DEF WKBBegin, Begin, ReadMeta, wkbVars
  <2>2. LoopInv'
    BY <2>1, LoopKept DEF FeatStart
  <2>3. stack = << >> /\ Len(stack) = 0
    BY <2>1 DEF ReaderInv, StackWellFormed
  <2>4. heads = << >>
    BY <1>1, <2>3, EmptySeq DEF WKBInv
  <2>5. QED
    BY <1>1, <2>1, <2>2, <2>3, <2>4, WKBClosed
<1>3. CASE EndRow /\ UNCHANGED wkbVars
  <2>1. "CONTINUE" \in Results /\ phase = "closing" /\ UNCHANGED <<heads, left>>
    BY <1>3 DEF Results, EndRow, FeatEnd, wkbVars
  <2>2. ReaderNext /\ LoopInv' /\ AnnouncedInv' /\ stack' = << >> /\ reader' = reader
    BY <1>3, <2>1, RowEnds
  <2>3. stack = << >> /\ Len(stack) = 0
    BY <2>1 DEF ReaderInv, StackWellFormed
  <2>4. heads = << >>
    BY <1>1, <2>3, EmptySeq DEF WKBInv
  <2>5. QED
    BY <1>1, <2>1, <2>2, <2>4, WKBClosed
<1>4. CASE \E r \in Results : GivesUp(r) /\ heads' = << >> /\ left' = 0 /\ UNCHANGED swapping
  <2>1. /\ ReaderNext /\ LoopInv' /\ AnnouncedInv' /\ stack' = << >> /\ reader' = reader
        /\ heads' = << >> /\ left' \in Nat
    BY <1>4, RowEnds
  <2>2. QED
    BY <1>1, <2>1, WKBClosed
<1>5. ReaderNext /\ LoopInv' /\ AnnouncedInv' /\ WKBInv'
  BY <1>1, <1>2, <1>3, <1>4, WKBRoots, WKBMembers, WKBRings, WKBSequences, WKBEnds DEF WKBNext
<1>6. QED
  BY <1>1, <1>5, ReaderKept

(***************************************************************************)
(* The WKT reader.                                                         *)
(***************************************************************************)

(* A token is consumed, and one more may be seen.                          *)
LEMMA Consumed ==
  ASSUME Consume, fuel \in 0 .. MaxTokens
  PROVE  /\ ahead' \in Tokens /\ fuel' \in 0 .. MaxTokens
         /\ Remaining \in Nat /\ Remaining' \in Nat
         /\ Remaining' <= fuel
         /\ ahead # "end" => Remaining' <= Remaining - 1
<1>1. fuel \in Nat /\ fuel <= MaxTokens /\ MaxTokens \in Nat
  BY TokensAssumption
<1>2. ahead' \in Tokens
  BY DEF Consume, Follows, Tokens
<1>3. CASE fuel = 0
  <2>1. fuel' = 0 /\ ahead' = "end"
    BY <1>3 DEF Consume, Follows
  <2>2. QED
    BY <1>1, <1>2, <1>3, <2>1 DEF Remaining
<1>4. CASE fuel # 0
  <2>1. fuel' = fuel - 1
    BY <1>4 DEF Consume
  <2>2. QED
    BY <1>1, <1>2, <1>4, <2>1 DEF Remaining
<1>5. QED
  BY <1>3, <1>4

(* No geometry is open.                                                    *)
LEMMA WKTClosed ==
  ASSUME WKTInv, reader = "wkt", phase' # "geometry", UNCHANGED coordDim,
         dim' \in {dim, Unknown}, ahead' \in Tokens, fuel' \in 0 .. MaxTokens
  PROVE  WKTInv'
BY DEF WKTInv, RuleInv, TokensInv

(* The reader throws.                                                      *)
LEMMA WKTFailed ==
  ASSUME ReaderInv, LoopInv, AnnouncedInv, WKTInv, reader = "wkt", Busy, WKTThrows
  PROVE  ReaderNext /\ LoopInv' /\ AnnouncedInv' /\ WKTInv'
<1>1. /\ Throws /\ UNCHANGED <<dim, coordDim, array, filter, slot>>
      /\ ahead' = "end" /\ fuel' = 0
  BY DEF WKTThrows, WKTReset, loopVars
<1>2. ReaderNext /\ phase' = "failed" /\ UNCHANGED <<reader, meta>>
  BY <1>1, ReaderThrows DEF Throws
<1>3. LoopInv'
  BY <1>1, <1>2, LoopKept DEF FeatStart
<1>4. AnnouncedInv'
  BY <1>2, AnnouncedFailed
<1>5. WKTInv'
  BY <1>1, <1>2, WKTClosed, TokensAssumption DEF Tokens
<1>6. QED
  BY <1>2, <1>3, <1>4, <1>5

(* What is known of the frames while a text is read.                       *)
LEMMA WKTFrames ==
  ASSUME ReaderInv, WKTInv, reader = "wkt", phase = "geometry",
         NEW n, n = Len(stack)
  PROVE  /\ n \in Nat \ {0} /\ Top = stack[n] /\ Top.count \in Nat /\ Top.size \in Int
         /\ fuel \in 0 .. MaxTokens /\ ahead \in Tokens /\ Remaining \in Nat
         /\ ahead # "end" => Remaining > 0
         /\ dim # Unknown => coordDim = dim
         /\ \A i \in 1 .. n : stack[i].count \in Nat
         /\ \A i \in 1 .. n - 1 : stack[i].size = -1 /\ stack[i].count > 0
         /\ \A i \in 1 .. n :
              stack[i].type \in Collects =>
                2 * i + Remaining <= MaxTokens + (IF i = n /\ expect = "open" THEN 2 ELSE 1)
         /\ \A i \in 1 .. n - 2 : 2 * stack[i].count + Remaining <= MaxTokens
         /\ n > 1 =>
              2 * stack[n - 1].count + Remaining
                <= MaxTokens + (IF expect = "open" \/ (expect = "item" /\ Top.type = "POINT")
                                THEN 1 ELSE 0)
         /\ expect \in {"open", "separator"} => 2 * Top.count + Remaining <= MaxTokens
         /\ expect \in {"item", "header"} => 2 * Top.count + Remaining <= MaxTokens - 1
<1>1. /\ n \in Nat \ {0} /\ Top = stack[n] /\ Top \in FrameType
      /\ \A i \in 1 .. n : stack[i] \in FrameType
  BY TopFrame
<1>2. Top.count \in Nat /\ Top.size \in Int /\ \A i \in 1 .. n : stack[i].count \in Nat
  BY <1>1 DEF FrameType
<1>3. /\ fuel \in 0 .. MaxTokens /\ ahead \in Tokens /\ RuleInv /\ TokensInv
      /\ dim # Unknown => coordDim = dim
  BY DEF WKTInv
<1>4. Remaining \in Nat /\ ahead # "end" => Remaining > 0
  BY <1>3, TokensAssumption DEF Remaining
<1>5. Remaining \in Nat
  BY <1>3, TokensAssumption DEF Remaining
<1>6. \A i \in 1 .. n - 1 : stack[i].size = -1 /\ stack[i].count > 0
  BY <1>3 DEF RuleInv
<1>7. QED
  BY <1>1, <1>2, <1>3, <1>4, <1>5, <1>6 DEF TokensInv

(* A frame more, for which a token was consumed unless it is a part of a   *)
(* multi-geometry or a ring.                                               *)
WKTPush(t, sz) ==
  /\ reader = "wkt" /\ reader' = reader /\ phase = "geometry" /\ phase' = "geometry"
  /\ Top.size = -1 /\ Top.type # "POINT" /\ expect \in {"item", "header"}
  /\ Frame(t, sz) \in FrameType
  /\ stack' = Append(CountOne(1), Frame(t, sz))
  /\ dim' # Unknown => coordDim' = dim'
  /\ ahead' \in Tokens /\ fuel' \in 0 .. MaxTokens
  /\ Remaining' \in Nat /\ Remaining' <= Remaining
  /\ t \in Collects => Top.type \in Collects /\ expect' = "open" /\ Remaining' <= Remaining - 1
  /\ sz \in {-1, 0} \/ (t = "POINT" /\ sz = 1)
  /\ t = "RING" => sz = -1
  /\ \/ expect' = "open" /\ (t # "RING" => (sz = 0 <=> ahead' = "EMPTY"))
     \/ expect' = "item" /\ t = "POINT" /\ sz # 0
     \/ expect' = "done" /\ sz = 0 /\ Remaining' <= Remaining - 1

(* Pushing a frame keeps what is known of the texts that may follow.       *)
LEMMA WKTPushed ==
  ASSUME ReaderInv, WKTInv, NEW t, NEW sz, WKTPush(t, sz)
  PROVE  WKTInv'
<1>1. PICK n, r, q : n = Len(stack) /\ r = Remaining /\ q = Remaining'
  OBVIOUS
<1>0. /\ q <= r
      /\ t \in Collects => Top.type \in Collects /\ expect' = "open" /\ q <= r - 1
      /\ sz \in {-1, 0} \/ (t = "POINT" /\ sz = 1)
      /\ t = "RING" => sz = -1
      /\ \/ expect' = "open" /\ (t # "RING" => (sz = 0 <=> ahead' = "EMPTY"))
         \/ expect' = "item" /\ t = "POINT" /\ sz # 0
         \/ expect' = "done" /\ sz = 0 /\ q <= r - 1
      /\ Top.size = -1 /\ q \in Nat /\ ahead' \in Tokens /\ fuel' \in 0 .. MaxTokens
      /\ dim' # Unknown => coordDim' = dim'
  BY <1>1 DEF WKTPush
<1> DEFINE c(i) == stack[i].count
<1>2. /\ n \in Nat \ {0} /\ Top = stack[n] /\ c(n) \in Nat
      /\ r \in Nat /\ q \in Nat /\ q <= r
      /\ \A i \in 1 .. n : c(i) \in Nat
      /\ \A i \in 1 .. n - 1 : stack[i].size = -1 /\ c(i) > 0
      /\ \A i \in 1 .. n : stack[i].type \in Collects => 2 * i + r <= MaxTokens + 1
      /\ \A i \in 1 .. n - 2 : 2 * c(i) + r <= MaxTokens
      /\ n > 1 => 2 * c(n - 1) + r <= MaxTokens
      /\ 2 * c(n) + r <= MaxTokens - 1
  <2>1. ~(expect = "open") /\ ~(expect = "item" /\ Top.type = "POINT")
    BY DEF WKTPush
  <2>2. MaxTokens + 0 = MaxTokens
    BY TokensAssumption
  <2>3. reader = "wkt" /\ phase = "geometry" /\ expect \in {"item", "header"}
    BY DEF WKTPush
  <2>4. QED
    BY <1>0, <1>1, <2>1, <2>2, <2>3, WKTFrames
<1>3. /\ Len(stack') = n + 1 /\ stack'[n + 1] = Frame(t, sz) /\ Top' = Frame(t, sz)
      /\ \A i \in 1 .. n :
           /\ stack'[i].type = stack[i].type /\ stack'[i].size = stack[i].size
           /\ stack'[i].count = stack[i].count + (IF i = n THEN 1 ELSE 0)
  BY <1>1, Pushed DEF WKTPush
<1>4. Top'.type = t /\ Top'.size = sz /\ Top'.count = 0
  BY <1>3 DEF Frame
<1>5. \A i \in 1 .. (n + 1) - 1 : stack'[i].size = -1 /\ stack'[i].count > 0
  <2> TAKE i \in 1 .. (n + 1) - 1
  <2>1. CASE i = n
    BY <1>0, <1>2, <1>3, <2>1
  <2>2. CASE i # n
    <3>1. i \in 1 .. n - 1 /\ i \in 1 .. n
      BY <1>2, <2>2
    <3>2. stack'[i].size = stack[i].size /\ stack'[i].count = stack[i].count + 0
      BY <1>3, <2>2, <3>1
    <3>3. stack[i].size = -1 /\ c(i) \in Nat /\ c(i) > 0
      BY <1>2, <3>1
    <3>4. QED
      BY <3>2, <3>3
  <2>3. QED
    BY <2>1, <2>2
<1>6. RuleInv'
  <2>1. /\ Top'.size \in {-1, 0} \/ (Top'.type = "POINT" /\ Top'.size = 1)
        /\ Top'.type = "RING" => Top'.size = -1
    BY <1>0, <1>4
  <2>2. CASE expect' = "open" /\ (t # "RING" => (sz = 0 <=> ahead' = "EMPTY"))
    BY <1>3, <1>4, <1>5, <2>1, <2>2 DEF RuleInv
  <2>3. CASE expect' = "item" /\ t = "POINT" /\ sz # 0
    BY <1>3, <1>4, <1>5, <2>1, <2>3 DEF RuleInv
  <2>4. CASE expect' = "done" /\ sz = 0
    <3>1. MayEnd(Top)'
      BY <1>4, <2>4 DEF MayEnd
    <3>2. QED
      BY <1>3, <1>5, <2>1, <2>4, <3>1 DEF RuleInv
  <2>5. QED
    BY <1>0, <2>2, <2>3, <2>4
<1>7. TokensInv'
  <2>1. ASSUME NEW i \in 1 .. n + 1, stack'[i].type \in Collects
        PROVE  2 * i + q <= MaxTokens + (IF i = n + 1 /\ expect' = "open" THEN 2 ELSE 1)
    <3>1. CASE i = n + 1
      <4>1. expect' = "open" /\ q <= r - 1 /\ Top.type \in Collects
        BY <1>0, <1>3, <1>4, <2>1, <3>1
      <4>2. 2 * n + r <= MaxTokens + 1
        BY <1>2, <4>1
      <4>3. MaxTokens \in Nat /\ n \in Nat /\ q \in Nat /\ r \in Nat
        BY <1>2, TokensAssumption
      <4>4. 2 * (n + 1) + q <= MaxTokens + 2
        BY <4>1, <4>2, <4>3
      <4>5. QED
        BY <3>1, <4>1, <4>4
    <3>2. CASE i # n + 1
      <4>1. i \in 1 .. n
        BY <1>2, <3>2
      <4>2. 2 * i + r <= MaxTokens + 1
        BY <1>2, <1>3, <2>1, <4>1
      <4>3. QED
        BY <1>2, <3>2, <4>2, TokensAssumption
    <3>3. QED
      BY <3>1, <3>2
  <2>2. ASSUME NEW i \in 1 .. (n + 1) - 2
        PROVE  2 * stack'[i].count + q <= MaxTokens
    <3>1. i \in 1 .. n /\ i # n
      BY <1>2
    <3>2. stack'[i].count = stack[i].count /\ stack[i].count \in Nat
      BY <1>2, <1>3, <3>1
    <3>3. 2 * c(i) + r <= MaxTokens
      <4>1. CASE i = n - 1
        BY <1>2, <4>1
      <4>2. CASE i # n - 1
        <5>1. i \in 1 .. n - 2
          BY <1>2, <4>2
        <5>2. QED
          BY <1>2, <5>1
      <4>3. QED
        BY <4>1, <4>2
    <3>4. QED
      BY <1>2, <3>2, <3>3, TokensAssumption
  <2>3. 2 * stack'[n].count + q
          <= MaxTokens + (IF expect' = "open" \/ (expect' = "item" /\ Top'.type = "POINT")
                          THEN 1 ELSE 0)
    <3>1. stack'[n].count = c(n) + 1
      BY <1>2, <1>3
    <3>2. CASE expect' = "open" \/ (expect' = "item" /\ t = "POINT")
      BY <1>2, <1>4, <3>1, <3>2, TokensAssumption
    <3>3. CASE expect' = "done" /\ q <= r - 1
      BY <1>2, <1>4, <3>1, <3>3, TokensAssumption
    <3>4. QED
      BY <1>0, <3>2, <3>3
  <2>4. /\ 2 * Top'.count + q <= MaxTokens - 1
        /\ 2 * Top'.count + q <= MaxTokens
    BY <1>2, <1>4, TokensAssumption
  <2>5. n = (n + 1) - 1 /\ Len(stack') = n + 1
    BY <1>2, <1>3
  <2>6. q = Remaining'
    BY <1>1
  <2>7. QED
    BY <2>1, <2>2, <2>3, <2>4, <2>5, <2>6 DEF TokensInv
<1>8. QED
  BY <1>0, <1>6, <1>7 DEF WKTInv

(* Tokens between parts: the frames stay.                                  *)
WKTToken ==
  /\ reader = "wkt" /\ phase = "geometry"
  /\ Consume
  /\ UNCHANGED <<readerVars, coordDim, array, filter, slot, announced>>
  /\ \/ expect = "open" /\ ahead = "EMPTY" /\ expect' = "done"
     \/ expect = "open" /\ ahead = "(" /\ expect' = Items(Top.type)
     \/ expect = "separator" /\ ahead = ")" /\ expect' = "done"
     \/ expect = "separator" /\ ahead = "," /\ expect' = Items(Top.type)
     \/ expect = "close" /\ ahead = ")" /\ expect' = "done"

(* Consuming such a token keeps the invariant.                             *)
LEMMA WKTTokens ==
  ASSUME ReaderInv, LoopInv, AnnouncedInv, WKTInv, WKTToken
  PROVE  [ReaderNext]_readerVars /\ LoopInv' /\ AnnouncedInv' /\ WKTInv'
<1>1. UNCHANGED readerVars /\ UNCHANGED <<array, filter, slot, announced>>
  BY DEF WKTToken
<1>2. /\ UNCHANGED <<reader, phase, meta, dim, stack, cur, features>>
      /\ Top' = Top
  BY <1>1 DEF readerVars, Top
<1>3. LoopInv'
  <2>1. Row' = Row /\ (IsNull(Row)' <=> IsNull(Row)) /\ Iterations' = Iterations
    BY <1>1, SameRow
  <2>2. QED
    BY <1>1, <1>2, <2>1 DEF LoopInv, Busy, Iterations, Arrays
<1>4. AnnouncedInv'
  BY <1>1, <1>2 DEF AnnouncedInv
<1>5. PICK n, r, q : n = Len(stack) /\ r = Remaining /\ q = Remaining'
  OBVIOUS
<1>6. /\ reader = "wkt" /\ phase = "geometry" /\ Consume /\ coordDim' = coordDim
      /\ ahead # "end" /\ expect \in {"open", "separator", "close"}
      /\ expect' \in {"done", "item", "header"}
  BY DEF WKTToken, Items
<1>7. /\ n \in Nat \ {0} /\ Top = stack[n] /\ Top.count \in Nat /\ Top.size \in Int
      /\ fuel \in 0 .. MaxTokens /\ r \in Nat
      /\ dim # Unknown => coordDim = dim
      /\ \A i \in 1 .. n : stack[i].count \in Nat
      /\ \A i \in 1 .. n :
           stack[i].type \in Collects =>
             2 * i + r <= MaxTokens + (IF i = n /\ expect = "open" THEN 2 ELSE 1)
      /\ \A i \in 1 .. n - 2 : 2 * stack[i].count + r <= MaxTokens
      /\ n > 1 =>
           2 * stack[n - 1].count + r
             <= MaxTokens + (IF expect = "open" \/ (expect = "item" /\ Top.type = "POINT")
                             THEN 1 ELSE 0)
      /\ expect \in {"open", "separator"} => 2 * Top.count + r <= MaxTokens
  BY <1>5, <1>6, WKTFrames
<1>8. /\ ahead' \in Tokens /\ fuel' \in 0 .. MaxTokens /\ q \in Nat /\ q <= r - 1
  BY <1>5, <1>6, <1>7, Consumed
<1>9. /\ \A i \in 1 .. n - 1 : stack[i].size = -1 /\ stack[i].count > 0
      /\ Top.size \in {-1, 0} \/ (Top.type = "POINT" /\ Top.size = 1)
      /\ Top.type = "RING" => Top.size = -1
      /\ expect = "open" =>
           Top.count = 0 /\ (Top.type # "RING" => (Top.size = 0 <=> ahead = "EMPTY"))
      /\ expect = "separator" => Top.type # "POINT" /\ Top.size = -1 /\ Top.count > 0
      /\ expect = "close" => Top.type = "POINT" /\ Top.size # 0 /\ Top.count = 1
  BY <1>5, <1>6 DEF WKTInv, RuleInv
<1>10. \/ expect' = "item" /\ Top.type # "GEOMETRYCOLLECTION" /\ Top.size # 0
          /\ (Top.type = "POINT" => Top.count = 0 /\ expect = "open")
       \/ expect' = "header" /\ Top.type = "GEOMETRYCOLLECTION" /\ Top.size = -1
       \/ expect' = "done" /\ MayEnd(Top)
  <2>1. CASE expect = "open" /\ ahead = "EMPTY" /\ expect' = "done"
    BY <1>7, <1>9, <2>1 DEF MayEnd
  <2>2. CASE expect = "open" /\ ahead = "(" /\ expect' = Items(Top.type)
    BY <1>7, <1>9, <2>2 DEF Items
  <2>3. CASE expect = "separator" /\ ahead = ")" /\ expect' = "done"
    BY <1>7, <1>9, <2>3 DEF MayEnd
  <2>4. CASE expect = "separator" /\ ahead = "," /\ expect' = Items(Top.type)
    <3>1. Top.type # "POINT" /\ Top.size = -1
      BY <1>9, <2>4, Zenon
    <3>2. expect' = IF Top.type = "GEOMETRYCOLLECTION" THEN "header" ELSE "item"
      BY <2>4 DEF Items
    <3>3. QED
      BY <3>1, <3>2
  <2>5. CASE expect = "close" /\ ahead = ")" /\ expect' = "done"
    BY <1>7, <1>9, <2>5 DEF MayEnd
  <2>6. QED
    BY <2>1, <2>2, <2>3, <2>4, <2>5 DEF WKTToken
<1>11. RuleInv'
  <2>1. \A i \in 1 .. Len(stack') - 1 : stack'[i].size = -1 /\ stack'[i].count > 0
    BY <1>2, <1>5, <1>9
  <2>2. /\ Top'.size \in {-1, 0} \/ (Top'.type = "POINT" /\ Top'.size = 1)
        /\ Top'.type = "RING" => Top'.size = -1
    BY <1>2, <1>9
  <2>3. \/ expect' = "item" /\ Top'.type # "GEOMETRYCOLLECTION" /\ Top'.size # 0
           /\ (Top'.type = "POINT" => Top'.count = 0)
        \/ expect' = "header" /\ Top'.type = "GEOMETRYCOLLECTION" /\ Top'.size = -1
        \/ expect' = "done" /\ MayEnd(Top)'
    BY <1>2, <1>10 DEF MayEnd
  <2>4. QED
    BY <2>1, <2>2, <2>3 DEF RuleInv
<1>12. TokensInv'
  <2>1. ASSUME NEW i \in 1 .. n, stack[i].type \in Collects
        PROVE  2 * i + q <= MaxTokens + 1
    <3>1. 2 * i + r <= MaxTokens + 2
      BY <1>7, <2>1, TokensAssumption
    <3>2. QED
      BY <1>7, <1>8, <3>1, TokensAssumption
  <2>2. ASSUME NEW i \in 1 .. n - 2
        PROVE  2 * stack[i].count + q <= MaxTokens
    <3>1. i \in 1 .. n
      BY <1>7
    <3>2. 2 * stack[i].count + r <= MaxTokens /\ stack[i].count \in Nat
      BY <1>7, <3>1
    <3>3. QED
      BY <1>7, <1>8, <3>2, TokensAssumption
  <2>3. n > 1 => 2 * stack[n - 1].count + q <= MaxTokens
    <3> SUFFICES ASSUME n > 1 PROVE 2 * stack[n - 1].count + q <= MaxTokens
      OBVIOUS
    <3>1. stack[n - 1].count \in Nat
      BY <1>7
    <3>2. 2 * stack[n - 1].count + r <= MaxTokens + 1
      BY <1>7, <3>1, TokensAssumption
    <3>3. QED
      BY <1>7, <1>8, <3>1, <3>2, TokensAssumption
  <2>4. expect' \in {"item", "header"} => 2 * Top.count + q <= MaxTokens - 1
    <3>1. expect' \in {"item", "header"} => expect \in {"open", "separator"}
      BY DEF WKTToken
    <3>2. QED
      BY <1>7, <1>8, <3>1, TokensAssumption
  <2>5. MaxTokens + 0 = MaxTokens
    BY TokensAssumption
  <2>6. ASSUME n > 1
        PROVE  2 * stack[n - 1].count + q
                 <= MaxTokens + (IF expect' = "open" \/ (expect' = "item" /\ Top.type = "POINT")
                                 THEN 1 ELSE 0)
    <3>1. stack[n - 1].count \in Nat
      BY <1>7, <2>6
    <3>2. QED
      BY <1>7, <1>8, <2>3, <2>6, <3>1, TokensAssumption
  <2>7. ~(expect' = "open") /\ ~(expect' = "separator") /\ q = Remaining' /\ Len(stack') = n
    BY <1>2, <1>5, <1>6
  <2>8. QED
    BY <1>2, <2>1, <2>2, <2>4, <2>6, <2>7 DEF TokensInv
<1>13. WKTInv'
  BY <1>2, <1>6, <1>7, <1>8, <1>11, <1>12 DEF WKTInv
<1>14. QED
  BY <1>1, <1>3, <1>4, <1>13

(* What the rule of the innermost frame has read.                          *)
LEMMA WKTRule ==
  ASSUME ReaderInv, WKTInv, reader = "wkt", phase = "geometry"
  PROVE  /\ Top.size \in {-1, 0} \/ (Top.type = "POINT" /\ Top.size = 1)
         /\ Top.type = "RING" => Top.size = -1
         /\ expect = "item" => /\ Top.type # "GEOMETRYCOLLECTION" /\ Top.size # 0
                               /\ Top.type = "POINT" => Top.count = 0
                               /\ Top.type # "POINT" => Top.size = -1
         /\ expect = "header" => Top.type = "GEOMETRYCOLLECTION" /\ Top.size = -1
         /\ expect = "done" => MayEnd(Top)
<1>1. /\ Top.size \in {-1, 0} \/ (Top.type = "POINT" /\ Top.size = 1)
      /\ Top.type = "RING" => Top.size = -1
      /\ expect = "item" => /\ Top.type # "GEOMETRYCOLLECTION" /\ Top.size # 0
                            /\ Top.type = "POINT" => Top.count = 0
      /\ expect = "header" => Top.type = "GEOMETRYCOLLECTION" /\ Top.size = -1
      /\ expect = "done" => MayEnd(Top)
  BY DEF WKTInv, RuleInv
<1>2. QED
  BY <1>1

(* A coordinate of a point, line or ring.                                  *)
WKTCoordinate ==
  /\ reader = "wkt" /\ phase = "geometry" /\ Top.type \in OfCoords
  /\ expect = "item" /\ ahead = "number"
  /\ Consume
  /\ CallCoords(1)
  /\ \/ Top.type # "POINT" /\ expect' = "separator"
     \/ Top.type = "POINT" /\ expect' \in {"done", "close"}
  /\ UNCHANGED <<coordDim, array, filter, slot, announced>>

(* It is one of the protocol, and the rule goes on.                        *)
LEMMA WKTSequences ==
  ASSUME ReaderInv, NestInv, LoopInv, AnnouncedInv, WKTInv, WKTCoordinate
  PROVE  ReaderNext /\ LoopInv' /\ AnnouncedInv' /\ WKTInv'
<1>1. PICK n, r, q, f, m : /\ n = Len(stack) /\ r = Remaining /\ q = Remaining' /\ f = Top
                           /\ m = f.count
  OBVIOUS
<1>2. /\ reader = "wkt" /\ phase = "geometry" /\ f.type \in OfCoords
      /\ expect = "item" /\ ahead # "end" /\ Consume /\ CallCoords(1)
      /\ \/ f.type # "POINT" /\ expect' = "separator"
         \/ f.type = "POINT" /\ expect' \in {"done", "close"}
      /\ UNCHANGED <<coordDim, array, filter, slot, announced>>
  BY <1>1 DEF WKTCoordinate
<1>3. /\ UNCHANGED <<reader, meta, dim>> /\ phase' = "geometry" /\ stack' = CountOne(1)
  BY <1>2 DEF CallCoords
<1>4. /\ n \in Nat \ {0} /\ f = stack[n] /\ m \in Nat /\ r \in Nat /\ r > 0
      /\ fuel \in 0 .. MaxTokens
      /\ dim # Unknown => coordDim = dim
      /\ \A i \in 1 .. n - 1 : stack[i].size = -1 /\ stack[i].count > 0
      /\ \A i \in 1 .. n : stack[i].count \in Nat
      /\ \A i \in 1 .. n - 2 : 2 * stack[i].count + r <= MaxTokens
      /\ 2 * m + r <= MaxTokens - 1
  BY <1>1, <1>2, WKTFrames
<1>5. /\ \A i \in 1 .. n : stack[i].type \in Collects => 2 * i + r <= MaxTokens + 1
      /\ n > 1 => 2 * stack[n - 1].count + r <= MaxTokens + 1
  <2>1. /\ \A i \in 1 .. n :
             stack[i].type \in Collects =>
               2 * i + r <= MaxTokens + (IF i = n /\ expect = "open" THEN 2 ELSE 1)
        /\ n > 1 =>
             2 * stack[n - 1].count + r
               <= MaxTokens + (IF expect = "open" \/ (expect = "item" /\ Top.type = "POINT")
                               THEN 1 ELSE 0)
    BY <1>1, <1>2, WKTFrames
  <2>2. ~(expect = "open")
    BY <1>2
  <2>3. n > 1 => stack[n - 1].count \in Nat
    BY <1>4
  <2>4. QED
    BY <1>4, <2>1, <2>2, <2>3, TokensAssumption
<1>6. /\ ahead' \in Tokens /\ fuel' \in 0 .. MaxTokens /\ q \in Nat /\ q <= r - 1
  BY <1>1, <1>2, <1>4, Consumed
<1>7. /\ f.size \in {-1, 0} \/ (f.type = "POINT" /\ f.size = 1)
      /\ f.type = "RING" => f.size = -1
      /\ f.type # "GEOMETRYCOLLECTION" /\ f.size # 0
      /\ f.type = "POINT" => m = 0
      /\ f.type # "POINT" => f.size = -1
  BY <1>1, <1>2, WKTRule
<1>8. /\ Len(stack') = n /\ Top' = Counted(f, 1)
      /\ \A i \in 1 .. n :
           /\ stack'[i].type = stack[i].type /\ stack'[i].size = stack[i].size
           /\ stack'[i].count = stack[i].count + (IF i = n THEN 1 ELSE 0)
  BY <1>1, <1>2, <1>3, Advanced
<1>9. Top'.type = f.type /\ Top'.size = f.size /\ Top'.count = m + 1
  BY <1>1, <1>8 DEF Counted
<1>10. ReaderNext
  <2>1. m < MaxParts
    BY <1>4, BoundsAssumption, TokensAssumption, ReaderAssumption
  <2>2. MayGoOn(Top)
    <3>1. CASE f.type = "POINT"
      BY <1>1, <1>7, <3>1 DEF MayGoOn
    <3>2. CASE f.type # "POINT"
      BY <1>1, <1>7, <2>1, <3>2 DEF MayGoOn
    <3>3. QED
      BY <3>1, <3>2
  <2>3. 1 \in 0 .. MaxParts
    BY ReaderAssumption
  <2>4. QED
    BY <1>1, <1>2, <2>2, <2>3, CoordsRead
<1>11. LoopInv'
  BY <1>2, <1>10, LoopKept DEF FeatStart
<1>12. AnnouncedInv'
  <2>1. stack'[1].type = stack[1].type
    BY <1>4, <1>8
  <2>2. QED
    BY <1>2, <1>3, <2>1, AnnouncedKept
<1>13. RuleInv'
  <2>1. \A i \in 1 .. Len(stack') - 1 : stack'[i].size = -1 /\ stack'[i].count > 0
    <3> SUFFICES ASSUME NEW i \in 1 .. n - 1
                 PROVE  stack'[i].size = -1 /\ stack'[i].count > 0
      BY <1>8
    <3>1. i \in 1 .. n /\ i # n
      BY <1>4
    <3>2. stack'[i].size = stack[i].size /\ stack'[i].count = stack[i].count + 0
      BY <1>8, <3>1
    <3>3. QED
      BY <1>4, <3>1, <3>2
  <2>2. /\ Top'.size \in {-1, 0} \/ (Top'.type = "POINT" /\ Top'.size = 1)
        /\ Top'.type = "RING" => Top'.size = -1
    BY <1>7, <1>9
  <2>3. CASE f.type # "POINT" /\ expect' = "separator"
    <3>1. Top'.type # "POINT" /\ Top'.size = -1 /\ Top'.count > 0
      BY <1>4, <1>7, <1>9, <2>3
    <3>2. QED
      BY <2>1, <2>2, <2>3, <3>1 DEF RuleInv
  <2>4. CASE f.type = "POINT" /\ expect' \in {"done", "close"}
    <3>1. Top'.type = "POINT" /\ Top'.size \in {-1, 1} /\ Top'.count = 1
      BY <1>4, <1>7, <1>9, <2>4
    <3>2. MayEnd(Top)' /\ Top'.size # 0
      BY <3>1 DEF MayEnd
    <3>3. QED
      BY <2>1, <2>2, <2>4, <3>1, <3>2 DEF RuleInv
  <2>5. QED
    BY <1>2, <2>3, <2>4
<1>14. TokensInv'
  <2>1. ASSUME NEW i \in 1 .. n, stack'[i].type \in Collects
        PROVE  2 * i + q <= MaxTokens + 1
    <3>1. 2 * i + r <= MaxTokens + 1
      BY <1>5, <1>8, <2>1
    <3>2. QED
      BY <1>4, <1>6, <3>1, TokensAssumption
  <2>2. ASSUME NEW i \in 1 .. n - 2
        PROVE  2 * stack'[i].count + q <= MaxTokens
    <3>1. i \in 1 .. n /\ i # n
      BY <1>4
    <3>2. /\ 2 * stack[i].count + r <= MaxTokens /\ stack[i].count \in Nat
          /\ stack'[i].count = stack[i].count
      BY <1>4, <1>8, <3>1
    <3>3. QED
      BY <1>4, <1>6, <3>2, TokensAssumption
  <2>3. ASSUME n > 1 PROVE 2 * stack'[n - 1].count + q <= MaxTokens
    <3>1. n - 1 \in 1 .. n /\ n - 1 # n
      BY <1>4, <2>3
    <3>2. /\ stack[n - 1].count \in Nat /\ stack'[n - 1].count = stack[n - 1].count
      BY <1>4, <1>8, <3>1
    <3>3. QED
      BY <1>4, <1>5, <1>6, <2>3, <3>2, TokensAssumption
  <2>4. 2 * Top'.count + q <= MaxTokens
    BY <1>4, <1>6, <1>9, TokensAssumption
  <2>5. MaxTokens + 0 = MaxTokens
    BY TokensAssumption
  <2>6. /\ ~(expect' = "open") /\ ~(expect' = "item") /\ ~(expect' = "header")
        /\ q = Remaining' /\ Len(stack') = n
    BY <1>1, <1>2, <1>8
  <2>7. QED
    BY <2>1, <2>2, <2>3, <2>4, <2>5, <2>6 DEF TokensInv
<1>15. WKTInv'
  BY <1>2, <1>3, <1>4, <1>6, <1>13, <1>14 DEF WKTInv
<1>16. QED
  BY <1>10, <1>11, <1>12, <1>15

(* The end of a ring or geometry.                                          *)
WKTEnd ==
  /\ reader = "wkt" /\ phase = "geometry" /\ expect = "done" /\ expect' = "separator"
  /\ CallEnd
  /\ UNCHANGED <<ahead, fuel, coordDim, array, filter, slot, announced>>

(* It is one of the protocol, and the rule of the frame around it goes on. *)
LEMMA WKTEnds ==
  ASSUME ReaderInv, NestInv, LoopInv, AnnouncedInv, WKTInv, WKTEnd
  PROVE  ReaderNext /\ LoopInv' /\ AnnouncedInv' /\ WKTInv'
<1>1. PICK L, r : L = Len(stack) /\ r = Remaining
  OBVIOUS
<1>2. /\ reader = "wkt" /\ phase = "geometry" /\ expect = "done" /\ expect' = "separator"
      /\ CallEnd /\ UNCHANGED <<ahead, fuel, coordDim, array, filter, slot, announced>>
  BY DEF WKTEnd
<1>3. PICK n \in Nat : L = n + 1
  <2>1. L \in Nat \ {0}
    BY <1>1, <1>2, TopFrame
  <2>2. L - 1 \in Nat /\ L = (L - 1) + 1
    BY <2>1
  <2>3. QED
    BY <2>2
<1>4. /\ UNCHANGED <<reader, meta, dim>> /\ phase' = IF n = 0 THEN "closing" ELSE "geometry"
      /\ Len(stack') = n
      /\ \A i \in 1 .. n : stack'[i] = stack[i]
      /\ n > 0 => Top' = stack[n]
  <2>1. /\ Len(stack') = L - 1
        /\ phase' = IF L = 1 THEN "closing" ELSE "geometry"
        /\ \A i \in 1 .. L - 1 : stack'[i] = stack[i]
        /\ L > 1 => Top' = stack[L - 1]
    BY <1>1, <1>2, Closed
  <2>2. L - 1 = n /\ (L = 1 <=> n = 0) /\ (L > 1 <=> n > 0)
    BY <1>3
  <2>3. QED
    BY <1>2, <2>1, <2>2 DEF CallEnd
<1>5. /\ r \in Nat /\ fuel \in 0 .. MaxTokens /\ ahead \in Tokens
      /\ dim # Unknown => coordDim = dim
      /\ \A i \in 1 .. n : stack[i].count \in Nat /\ stack[i].size = -1 /\ stack[i].count > 0
      /\ \A i \in 1 .. n : stack[i].type \in Collects => 2 * i + r <= MaxTokens + 1
      /\ \A i \in 1 .. n - 1 : 2 * stack[i].count + r <= MaxTokens
      /\ n > 0 => 2 * stack[n].count + r <= MaxTokens
  <2>1. /\ r \in Nat /\ fuel \in 0 .. MaxTokens /\ ahead \in Tokens
        /\ dim # Unknown => coordDim = dim
        /\ \A i \in 1 .. L : stack[i].count \in Nat
        /\ \A i \in 1 .. L - 1 : stack[i].size = -1 /\ stack[i].count > 0
        /\ \A i \in 1 .. L :
             stack[i].type \in Collects =>
               2 * i + r <= MaxTokens + (IF i = L /\ expect = "open" THEN 2 ELSE 1)
        /\ \A i \in 1 .. L - 2 : 2 * stack[i].count + r <= MaxTokens
        /\ L > 1 =>
             2 * stack[L - 1].count + r
               <= MaxTokens + (IF expect = "open" \/ (expect = "item" /\ Top.type = "POINT")
                               THEN 1 ELSE 0)
    BY <1>1, <1>2, WKTFrames
  <2>2. ~(expect = "open") /\ ~(expect = "item") /\ MaxTokens + 0 = MaxTokens
    BY <1>2, TokensAssumption
  <2>3. L - 1 = n /\ L - 2 = n - 1 /\ (L > 1 <=> n > 0) /\ \A i \in 1 .. n : i \in 1 .. L
    BY <1>3
  <2>4. QED
    BY <2>1, <2>2, <2>3
<1>6. ReaderNext
  BY <1>2, WKTRule, FrameEnds
<1>7. LoopInv'
  BY <1>2, <1>6, LoopKept DEF FeatStart
<1>8. AnnouncedInv'
  <2>1. phase' = "geometry" => stack'[1].type = stack[1].type
    <3>1. CASE n = 0
      BY <1>4, <3>1
    <3>2. CASE n # 0
      <4>1. 1 \in 1 .. n
        BY <1>3, <3>2
      <4>2. QED
        BY <1>4, <4>1
    <3>3. QED
      BY <3>1, <3>2
  <2>2. phase # "start" /\ phase' # "start"
    BY <1>2, <1>4
  <2>3. QED
    BY <1>2, <1>4, <2>1, <2>2, AnnouncedKept
<1>9. CASE n = 0
  <2>1. phase' # "geometry" /\ dim' = dim /\ ahead' \in Tokens /\ fuel' \in 0 .. MaxTokens
    BY <1>2, <1>4, <1>5, <1>9
  <2>2. WKTInv'
    BY <1>2, <2>1, WKTClosed
  <2>3. QED
    BY <1>6, <1>7, <1>8, <2>2
<1>10. CASE n # 0
  <2>1. n > 0 /\ n \in 1 .. n /\ Top' = stack[n] /\ phase' = "geometry"
    BY <1>3, <1>4, <1>10
  <2>2. stack[n].type \notin OfCoords
    <3>1. n \in 1 .. Len(stack) - 1
      BY <1>1, <1>3, <2>1
    <3>2. QED
      BY <1>2, <3>1, OuterFrames
  <2>3. Top'.type # "POINT" /\ Top'.type # "RING" /\ Top'.size = -1 /\ Top'.count > 0
    BY <1>5, <2>1, <2>2 DEF OfCoords
  <2>4. RuleInv'
    <3>1. \A i \in 1 .. Len(stack') - 1 : stack'[i].size = -1 /\ stack'[i].count > 0
      <4> SUFFICES ASSUME NEW i \in 1 .. n - 1
                   PROVE  stack'[i].size = -1 /\ stack'[i].count > 0
        BY <1>4
      <4>1. i \in 1 .. n
        BY <1>3
      <4>2. QED
        BY <1>4, <1>5, <4>1
    <3>2. QED
      BY <1>2, <2>3, <3>1 DEF RuleInv
  <2>5. TokensInv'
    <3>1. ASSUME NEW i \in 1 .. n, stack'[i].type \in Collects
          PROVE  2 * i + r <= MaxTokens + 1
      BY <1>4, <1>5, <3>1
    <3>2. ASSUME NEW i \in 1 .. n - 1
          PROVE  2 * stack'[i].count + r <= MaxTokens
      <4>1. i \in 1 .. n
        BY <1>3
      <4>2. QED
        BY <1>4, <1>5, <4>1
    <3>3. ASSUME NEW i \in 1 .. n - 2
          PROVE  2 * stack'[i].count + r <= MaxTokens
      <4>1. i \in 1 .. n - 1
        BY <1>3
      <4>2. QED
        BY <3>2, <4>1
    <3>4. n > 1 => 2 * stack'[n - 1].count + r <= MaxTokens
      <4>1. n > 1 => n - 1 \in 1 .. n - 1
        BY <1>3
      <4>2. QED
        BY <3>2, <4>1
    <3>5. 2 * Top'.count + r <= MaxTokens
      BY <1>5, <2>1
    <3>6. MaxTokens + 0 = MaxTokens
      BY TokensAssumption
    <3>7. Remaining' = r
      BY <1>1, <1>2 DEF Remaining
    <3>8. /\ ~(expect' = "open") /\ ~(expect' = "item") /\ ~(expect' = "header")
          /\ Len(stack') = n
      BY <1>2, <1>4
    <3>9. QED
      BY <3>1, <3>3, <3>4, <3>5, <3>6, <3>7, <3>8 DEF TokensInv
  <2>6. WKTInv'
    BY <1>2, <1>4, <1>5, <2>4, <2>5 DEF WKTInv
  <2>7. QED
    BY <1>6, <1>7, <1>8, <2>6
<1>11. QED
  BY <1>9, <1>10

(* The texts that may follow leave room for one part more, at one level    *)
(* more if the part has a header of its own or is one of a multi-geometry. *)
LEMMA WKTRoom ==
  ASSUME ReaderInv, WKTInv, reader = "wkt", phase = "geometry", expect \in {"item", "header"},
         Top.type # "POINT"
  PROVE  /\ Top.size = -1 /\ MayGoOn(Top)
         /\ Top.type \in Collects /\ (expect = "item" \/ ahead = "header") =>
              Len(stack) < MaxDepth
<1>1. PICK n, r, m : n = Len(stack) /\ r = Remaining /\ m = Top.count
  OBVIOUS
<1>2. /\ n \in Nat \ {0} /\ Top = stack[n] /\ m \in Nat /\ r \in Nat
      /\ \A i \in 1 .. n :
           stack[i].type \in Collects =>
             2 * i + r <= MaxTokens + (IF i = n /\ expect = "open" THEN 2 ELSE 1)
      /\ 2 * m + r <= MaxTokens - 1
  BY <1>1, WKTFrames
<1>3. Top.size = -1
  BY WKTRule
<1>4. m < MaxParts
  BY <1>2, BoundsAssumption, TokensAssumption, ReaderAssumption
<1>5. MayGoOn(Top)
  BY <1>1, <1>3, <1>4 DEF MayGoOn
<1>6. ASSUME Top.type \in Collects PROVE n < MaxDepth
  <2>1. n \in 1 .. n /\ stack[n].type \in Collects /\ ~(expect = "open")
    BY <1>2, <1>6
  <2>2. 2 * n + r <= MaxTokens + 1
    BY <1>2, <2>1
  <2>3. QED
    BY <1>2, <2>2, BoundsAssumption, TokensAssumption, ReaderAssumption
<1>7. QED
  BY <1>1, <1>3, <1>5, <1>6

(* A ring of a polygon.                                                    *)
LEMMA WKTRings ==
  ASSUME ReaderInv, LoopInv, AnnouncedInv, WKTInv, reader = "wkt", Ring
  PROVE  ReaderNext /\ LoopInv' /\ AnnouncedInv' /\ WKTInv'
<1>1. /\ phase = "geometry" /\ expect = "item" /\ Top.type = "POLYGON" /\ CallRingStart(-1)
      /\ expect' = "open"
      /\ UNCHANGED <<ahead, fuel, coordDim, array, filter, slot, announced>>
  BY DEF Ring, Keep, loopVars
<1>2. /\ UNCHANGED <<reader, meta, dim>> /\ phase' = "geometry"
      /\ stack' = Append(CountOne(1), Frame("RING", -1))
  BY <1>1 DEF CallRingStart
<1>3. Top.size = -1 /\ MayGoOn(Top)
  BY <1>1, WKTRoom
<1>4. ReaderNext
  <2>1. -1 \in RingSizes
    BY DEF RingSizes
  <2>2. QED
    BY <1>1, <1>3, <2>1, RingStarts
<1>5. Frame("RING", -1) \in FrameType
  BY DEF Frame, FrameType
<1>6. LoopInv'
  BY <1>1, <1>4, LoopKept DEF FeatStart
<1>7. AnnouncedInv'
  <2>1. stack'[1].type = stack[1].type
    <3>1. 1 \in 1 .. Len(stack)
      BY <1>1, TopFrame
    <3>2. QED
      BY <1>1, <1>2, <1>5, <3>1, Pushed
  <2>2. QED
    BY <1>1, <1>2, <2>1, AnnouncedKept
<1>8. /\ Remaining \in Nat /\ Remaining' = Remaining /\ ahead \in Tokens
      /\ fuel \in 0 .. MaxTokens
      /\ dim # Unknown => coordDim = dim
  BY <1>1, WKTFrames DEF Remaining
<1>9. WKTPush("RING", -1)
  <2>1. "RING" \notin Collects /\ Remaining' <= Remaining
    BY <1>8 DEF Collects, MultiTypes
  <2>2. dim' # Unknown => coordDim' = dim'
    BY <1>1, <1>2, <1>8
  <2>3. -1 \in {-1, 0} /\ Top.type # "POINT" /\ expect \in {"item", "header"}
    BY <1>1
  <2>4. /\ ahead' \in Tokens /\ fuel' \in 0 .. MaxTokens /\ Remaining' \in Nat
        /\ phase' = "geometry" /\ reader' = reader
    BY <1>1, <1>2, <1>8
  <2>5. QED
    BY <1>1, <1>2, <1>3, <1>5, <2>1, <2>2, <2>3, <2>4, Zenon DEF WKTPush
<1>10. QED
  BY <1>4, <1>6, <1>7, <1>9, WKTPushed

(* A part of a multi-geometry.                                             *)
LEMMA WKTParts ==
  ASSUME ReaderInv, LoopInv, AnnouncedInv, WKTInv, reader = "wkt", Part
  PROVE  ReaderNext /\ LoopInv' /\ AnnouncedInv' /\ WKTInv'
<1>1. PICK t, sz : t = PartType /\ sz = PartSize
  OBVIOUS
<1>2. /\ phase = "geometry" /\ expect = "item" /\ Top.type \in MultiTypes
      /\ CallGeomStart(t, sz)
      /\ UNCHANGED <<dim, coordDim, array, filter, slot, announced>>
      /\ \/ flat /\ Top.type = "MULTIPOINT" /\ sz = 0 /\ Consume /\ expect' = "done"
         \/ flat /\ Top.type = "MULTIPOINT" /\ sz # 0 /\ Keep /\ expect' = "item"
         \/ ~(flat /\ Top.type = "MULTIPOINT") /\ Keep /\ expect' = "open"
  BY <1>1 DEF Part, loopVars
<1>3. Top.type # "POINT" /\ Top.type \in Collects
  BY <1>2 DEF MultiTypes, Collects
<1>4. /\ t \in PartsRead(Top.type) /\ t \in SimpleTypes /\ t \in GeometryTypes
      /\ t = "POINT" <=> Top.type = "MULTIPOINT"
  <2>1. \A p : p \in PartTypes(Top.type) <=>
             p = IF Top.type = "MULTIPOINT" THEN "POINT"
                 ELSE IF Top.type = "MULTILINESTRING" THEN "LINESTRING" ELSE "POLYGON"
    BY <1>2 DEF PartTypes, MultiTypes
  <2>2. t \in PartTypes(Top.type)
    BY <1>1, <2>1 DEF PartType
  <2>3. QED
    BY <2>1, <2>2, PartsReadAre DEF SimpleTypes, GeometryTypes
<1>5. /\ sz = IF ahead = "EMPTY" THEN 0 ELSE IF t = "POINT" THEN 1 ELSE -1
  BY <1>1 DEF PartSize
<1>6. Top.size = -1 /\ MayGoOn(Top) /\ Len(stack) < MaxDepth
  BY <1>2, <1>3, WKTRoom
<1>7. Frame(t, sz) \in FrameType
  BY <1>4, <1>5 DEF Frame, FrameType, GeometryTypes
<1>8. /\ UNCHANGED <<reader, meta>> /\ phase' = "geometry"
      /\ stack' = Append(CountOne(1), Frame(t, sz))
  <2>1. stack # << >>
    BY <1>2, TopFrame
  <2>2. QED
    BY <1>2, <2>1 DEF CallGeomStart
<1>9. dim \in Dims /\ meta.dim = Unknown
  BY <1>2 DEF AnnouncedInv
<1>10. ReaderNext
  <2>1. sz \in Sizes(t, Top.type)
    BY <1>4, <1>5 DEF Sizes
  <2>2. dim' = dim /\ meta.dim \in {Unknown, dim}
    BY <1>2, <1>9
  <2>3. QED
    BY <1>2, <1>4, <1>6, <1>9, <2>1, <2>2, PartStarts
<1>11. LoopInv'
  BY <1>2, <1>10, LoopKept DEF FeatStart
<1>12. AnnouncedInv'
  <2>1. stack'[1].type = stack[1].type
    <3>1. 1 \in 1 .. Len(stack)
      BY <1>2, TopFrame
    <3>2. QED
      BY <1>2, <1>7, <1>8, <3>1, Pushed
  <2>2. QED
    BY <1>2, <1>8, <2>1, AnnouncedKept
<1>13. /\ Remaining \in Nat /\ ahead \in Tokens /\ fuel \in 0 .. MaxTokens
       /\ dim # Unknown => coordDim = dim
  BY <1>2, WKTFrames
<1>14. WKTPush(t, sz)
  <2>1. t \notin Collects /\ t # "RING"
    BY <1>4 DEF Collects, MultiTypes, SimpleTypes
  <2>2. dim' # Unknown => coordDim' = dim'
    BY <1>2, <1>13
  <2>3. sz \in {-1, 0} \/ (t = "POINT" /\ sz = 1)
    BY <1>5
  <2>4. CASE sz = 0 /\ Consume /\ expect' = "done"
    <3>1. ahead # "end"
      BY <1>5, <2>4
    <3>2. /\ ahead' \in Tokens /\ fuel' \in 0 .. MaxTokens
          /\ Remaining' \in Nat /\ Remaining' <= Remaining - 1
      BY <1>13, <2>4, <3>1, Consumed
    <3>3. Remaining' <= Remaining
      BY <1>13, <3>2
    <3>4. QED
      BY <1>2, <1>3, <1>6, <1>7, <1>8, <2>1, <2>2, <2>3, <2>4, <3>2, <3>3 DEF WKTPush
  <2>5. CASE /\ Keep
             /\ \/ expect' = "open"
                \/ expect' = "item" /\ t = "POINT" /\ sz # 0
    <3>1. ahead' = ahead /\ fuel' = fuel /\ Remaining' = Remaining
      BY <2>5 DEF Keep, Remaining
    <3>2. sz = 0 <=> ahead' = "EMPTY"
      BY <1>5, <3>1
    <3>3. Remaining' <= Remaining
      BY <1>13, <3>1
    <3>4. QED
      BY <1>2, <1>3, <1>6, <1>7, <1>8, <1>13, <2>1, <2>2, <2>3, <2>5, <3>1, <3>2, <3>3
         DEF WKTPush
  <2>6. QED
    BY <1>2, <1>4, <2>4, <2>5
<1>15. QED
  BY <1>10, <1>11, <1>12, <1>14, WKTPushed

(* The header of a feature, or of a part of a collection.                  *)
LEMMA WKTHeaders ==
  ASSUME ReaderInv, LoopInv, AnnouncedInv, WKTInv, reader = "wkt",
         NEW t \in RootTypes \cup MemberTypes, NEW d \in Dims, WKTHeader(t, d)
  PROVE  ReaderNext /\ LoopInv' /\ AnnouncedInv' /\ WKTInv'
<1>1. PICK sz : sz = SizeAhead
  OBVIOUS
<1>2. /\ expect = "header" /\ ahead = "header" /\ ahead # "end" /\ Consume
      /\ AnnounceType(t) /\ AnnounceDim(d) /\ CallGeomStart(t, sz)
      /\ coordDim' = d /\ expect' = "open" /\ UNCHANGED <<array, filter, slot>>
      /\ phase \in {"feature", "geometry"}
  BY <1>1 DEF WKTHeader, Reading
<1>3. sz \in {-1, 0} /\ (sz = 0 <=> ahead' = "EMPTY")
  BY <1>1 DEF SizeAhead
<1>4. t \in GeometryTypes /\ t # "RING"
  BY ReaderAssumption DEF GeometryTypes, SimpleTypes, MultiTypes
<1>5. Frame(t, sz) \in FrameType
  BY <1>3, <1>4 DEF Frame, FrameType
<1>6. /\ UNCHANGED <<reader, meta>> /\ phase' = "geometry" /\ dim' = d
      /\ stack' = Append(IF stack = << >> THEN stack ELSE CountOne(1), Frame(t, sz))
  BY <1>2 DEF CallGeomStart, AnnounceDim
<1>7. AnnouncedInv'
  BY <1>2, <1>5, HeaderAnnounces
<1>8. meta.type = Unknown /\ meta.dim = Unknown
  BY DEF AnnouncedInv
<1>9. fuel \in 0 .. MaxTokens
  BY DEF WKTInv
<1>10. /\ ahead' \in Tokens /\ fuel' \in 0 .. MaxTokens
       /\ Remaining \in Nat /\ Remaining' \in Nat /\ Remaining' <= fuel
       /\ Remaining' <= Remaining - 1
  BY <1>2, <1>9, Consumed
<1>11. CASE phase = "feature"
  <2>1. Reading /\ t \in RootTypes
    BY <1>2, <1>11 DEF WKTHeader
  <2>2. stack = << >> /\ Len(stack') = 1 /\ stack'[1] = Frame(t, sz) /\ Top' = Frame(t, sz)
    BY <1>5, <1>6, <1>11, PushedRoot
  <2>3. sz \in Sizes(t, "")
    BY <1>3 DEF Sizes
  <2>4. ReaderNext
    BY <1>2, <1>6, <1>8, <1>11, <2>1, <2>3, RootStarts
  <2>5. LoopInv'
    BY <1>2, <1>6, <2>1, <2>4, LoopKept DEF FeatStart, Reading
  <2>6. Top'.type = t /\ Top'.size = sz /\ Top'.count = 0
    BY <2>2 DEF Frame
  <2>7. RuleInv'
    <3>1. \A i \in 1 .. Len(stack') - 1 : stack'[i].size = -1 /\ stack'[i].count > 0
      BY <2>2
    <3>2. QED
      BY <1>2, <1>3, <1>4, <2>6, <3>1 DEF RuleInv
  <2>8. TokensInv'
    <3>1. Remaining' \in Nat /\ Remaining' <= MaxTokens
      BY <1>9, <1>10, TokensAssumption
    <3>2. /\ \A i \in 1 .. Len(stack') : i = Len(stack')
          /\ Len(stack') = 1 /\ expect' = "open"
      BY <1>2, <2>2
    <3>3. \A q \in Nat : q <= MaxTokens => 2 * 0 + q <= MaxTokens
      BY TokensAssumption
    <3>4. \A q \in Nat : q <= MaxTokens => 2 * 1 + q <= MaxTokens + 2
      BY TokensAssumption
    <3>5. ~(expect' = "item") /\ ~(expect' = "header")
      BY <3>2
    <3>6. QED
      BY <2>6, <3>1, <3>2, <3>3, <3>4, <3>5 DEF TokensInv
  <2>9. WKTInv'
    BY <1>2, <1>6, <1>10, <2>7, <2>8 DEF WKTInv
  <2>10. QED
    BY <1>7, <2>4, <2>5, <2>9
<1>12. CASE phase = "geometry"
  <2>1. Top.type = "GEOMETRYCOLLECTION" /\ t \in MemberTypes
    BY <1>2, <1>12 DEF WKTHeader, Reading
  <2>2. Top.type \in Collects /\ Top.type # "POINT" /\ Top.type \notin MultiTypes
        /\ t \in PartsRead(Top.type)
    BY <2>1 DEF Collects, MultiTypes, PartTypes, PartsRead
  <2>3. Top.size = -1 /\ MayGoOn(Top) /\ Len(stack) < MaxDepth
    BY <1>2, <1>12, <2>2, WKTRoom
  <2>4. sz \in Sizes(t, Top.type)
    BY <1>3, <2>1 DEF Sizes
  <2>5. ReaderNext
    BY <1>2, <1>4, <1>6, <1>8, <1>12, <2>2, <2>3, <2>4, PartStarts
  <2>6. LoopInv'
    BY <1>2, <1>12, <2>5, LoopKept DEF FeatStart
  <2>7. stack' = Append(CountOne(1), Frame(t, sz))
    BY <1>6, <1>12, TopFrame
  <2>8. WKTPush(t, sz)
    <3>1. Remaining' <= Remaining
      BY <1>10
    <3>2. QED
      BY <1>2, <1>3, <1>4, <1>5, <1>6, <1>10, <1>12, <2>2, <2>3, <2>7, <3>1 DEF WKTPush
  <2>9. QED
    BY <1>7, <2>5, <2>6, <2>8, WKTPushed
<1>13. QED
  BY <1>2, <1>11, <1>12

(* The steps of the loop around the reader.                                *)
LEMMA WKTLoop ==
  ASSUME ReaderInv, LoopInv, AnnouncedInv, WKTInv, reader = "wkt",
         \/ WKTBegin
         \/ SetBuffer
         \/ EndRow /\ WKTReset
         \/ \E r \in Results : GivesUp(r) /\ WKTReset
  PROVE  [ReaderNext]_readerVars /\ LoopInv' /\ AnnouncedInv' /\ WKTInv'
<1>1. ahead \in Tokens /\ fuel \in 0 .. MaxTokens /\ 0 \in 0 .. MaxTokens /\ "end" \in Tokens
  <2>1. ahead \in Tokens /\ fuel \in 0 .. MaxTokens
    BY DEF WKTInv
  <2>2. 0 \in 0 .. MaxTokens
    BY TokensAssumption
  <2>3. "end" \in Tokens
    BY DEF Tokens
  <2>4. QED
    BY <2>1, <2>2, <2>3
<1>2. MaxTokens \in 0 .. MaxTokens
  BY TokensAssumption
<1>3. "CONTINUE" \in Results
  BY DEF Results
<1>4. CASE WKTBegin
  <2>1. /\ ReaderNext /\ AnnouncedInv' /\ phase' = "between" /\ phase = "start"
        /\ UNCHANGED <<array, filter, slot, ahead, fuel, coordDim>>
    BY <1>4, LoopFollows, BeginAnnounces DEF WKTBegin, Begin, wktVars
  <2>2. LoopInv'
    BY <2>1, LoopKept DEF FeatStart
  <2>3. dim' = Unknown
    BY <1>4 DEF WKTBegin, Begin, ReadMeta
  <2>4. QED
    BY <1>1, <2>1, <2>2, <2>3, WKTClosed
<1>5. CASE SetBuffer
  <2>1. /\ NextRow /\ ahead' \in Tokens /\ fuel' = MaxTokens /\ coordDim' = coordDim
    BY <1>5 DEF SetBuffer
  <2>2. /\ [ReaderNext]_readerVars /\ LoopInv' /\ AnnouncedInv' /\ phase' # "geometry"
        /\ dim' = dim
    BY <1>3, <2>1, RowsIterate
  <2>3. QED
    BY <1>2, <2>1, <2>2, WKTClosed
<1>6. ASSUME NEW r \in Results, EndRow \/ GivesUp(r), WKTReset
      PROVE  ReaderNext /\ LoopInv' /\ AnnouncedInv' /\ WKTInv'
  <2>1. /\ ReaderNext /\ LoopInv' /\ AnnouncedInv' /\ phase' # "geometry" /\ dim' = dim
    BY <1>6, RowEnds
  <2>2. ahead' = "end" /\ fuel' = 0 /\ coordDim' = coordDim
    BY <1>6 DEF WKTReset
  <2>3. QED
    BY <1>1, <2>1, <2>2, WKTClosed
<1>7. QED
  BY <1>3, <1>4, <1>5, <1>6

(* Every call the WKT reader makes is one of the protocol.                 *)
LEMMA WKTStep ==
  ASSUME ReaderInv, NestInv, LoopInv, AnnouncedInv, WKTInv, WKTNext
  PROVE  /\ [ReaderNext]_readerVars /\ LoopInv' /\ AnnouncedInv' /\ WKTInv'
         /\ reader = "wkt" /\ reader' = reader
<1>1. reader = "wkt"
  BY DEF WKTNext
<1> SUFFICES [ReaderNext]_readerVars /\ LoopInv' /\ AnnouncedInv' /\ WKTInv'
  BY <1>1, ReaderKept
<1>2. ASSUME Busy, WKTThrows PROVE ReaderNext /\ LoopInv' /\ AnnouncedInv' /\ WKTInv'
  BY <1>1, <1>2, WKTFailed
<1>3. CASE NoHeader
  BY <1>2, <1>3 DEF NoHeader, Reading, Busy
<1>4. CASE EmptyOrOpen
  <2>1. WKTThrows \/ WKTToken
    BY <1>1, <1>4 DEF EmptyOrOpen, WKTToken, loopVars
  <2>2. QED
    BY <1>2, <1>4, <2>1, WKTTokens DEF EmptyOrOpen, Busy
<1>5. CASE Coordinate
  <2>1. WKTThrows \/ WKTCoordinate
    BY <1>1, <1>5 DEF Coordinate, WKTCoordinate, loopVars, OfCoords
  <2>2. QED
    BY <1>2, <1>5, <2>1, WKTSequences DEF Coordinate, Busy
<1>6. CASE TooFewOrdinates
  BY <1>2, <1>6 DEF TooFewOrdinates, Busy
<1>7. CASE ClosePoint
  <2>1. WKTThrows \/ WKTToken
    BY <1>1, <1>7 DEF ClosePoint, WKTToken, loopVars
  <2>2. QED
    BY <1>2, <1>7, <2>1, WKTTokens DEF ClosePoint, Busy
<1>8. CASE Separator
  <2>1. WKTThrows \/ WKTToken
    BY <1>1, <1>8 DEF Separator, WKTToken, loopVars
  <2>2. QED
    BY <1>2, <1>8, <2>1, WKTTokens DEF Separator, Busy
<1>9. CASE Done
  <2>1. WKTThrows \/ WKTEnd
    BY <1>1, <1>9 DEF Done, WKTEnd, Keep, loopVars
  <2>2. QED
    BY <1>2, <1>9, <2>1, WKTEnds DEF Done, Busy
<1>10. QED
  BY <1>1, <1>3, <1>4, <1>5, <1>6, <1>7, <1>8, <1>9, WKTLoop, WKTHeaders, WKTParts, WKTRings
     DEF WKTNext

(***************************************************************************)
(* All readers behind the loop.                                            *)
(***************************************************************************)

(* A native reader that is not at work stays as it is.                     *)
LEMMA NativeRests ==
  ASSUME reader # "native", reader' = reader
  PROVE  NativeInv'
BY DEF NativeInv

(* Likewise for the reader of WKB, whose members are those of no element.   *)
LEMMA WKBRests ==
  ASSUME WKBInv, reader # "wkb", reader' = reader, UNCHANGED wkbVars
  PROVE  WKBInv'
BY DEF WKBInv, wkbVars

(* Likewise for the reader of WKT.                                         *)
LEMMA WKTRests ==
  ASSUME reader # "wkt", reader' = reader
  PROVE  WKTInv'
BY DEF WKTInv

(* Between geometries the loop moves and the readers rest.                 *)
LEMMA LoopMoves ==
  ASSUME IInv, NEW r \in Results, NextRow \/ ReadNull(r) \/ EndArray \/ ArrayAborted,
         UNCHANGED <<nativeVars, wkbVars, wktVars>>
  PROVE  [ReaderNext]_readerVars /\ LoopInv' /\ AnnouncedInv' /\ NativeInv' /\ WKBInv' /\ WKTInv'
<1>1. /\ ReaderInv /\ NestInv /\ LoopInv /\ AnnouncedInv /\ NativeInv /\ WKBInv /\ WKTInv
  BY DEF IInv
<1>2. /\ [ReaderNext]_readerVars /\ LoopInv' /\ AnnouncedInv'
      /\ stack = << >> /\ stack' = << >>
      /\ phase \in {"between", "feature"} /\ phase' \notin {"start", "geometry"}
      /\ UNCHANGED <<reader, meta, dim, array>>
  BY <1>1, RowsIterate
<1>3. UNCHANGED <<levels, starts, heads, left, ahead, fuel, coordDim>> /\ UNCHANGED wkbVars
  BY DEF nativeVars, wkbVars, wktVars
<1>4. Len(stack) = 0
  BY <1>2
<1>5. NativeInv'
  <2>1. CASE reader = "native"
    <3>1. starts = << >>
      BY <1>1, <1>4, <2>1, EmptySeq DEF NativeInv
    <3>2. QED
      BY <1>1, <1>2, <1>3, <2>1, <3>1, NativeClosed
  <2>2. QED
    BY <1>2, <2>1, NativeRests
<1>6. WKBInv'
  <2>1. CASE reader = "wkb"
    <3>1. heads = << >> /\ left \in Nat
      BY <1>1, <1>4, <2>1, EmptySeq DEF WKBInv
    <3>2. QED
      BY <1>2, <1>3, <2>1, <3>1, WKBClosed
  <2>2. QED
    BY <1>1, <1>2, <1>3, <2>1, WKBRests
<1>7. WKTInv'
  <2>1. CASE reader = "wkt"
    <3>1. ahead \in Tokens /\ fuel \in 0 .. MaxTokens
      BY <1>1, <2>1 DEF WKTInv
    <3>2. QED
      BY <1>1, <1>2, <1>3, <2>1, <3>1, WKTClosed
  <2>2. QED
    BY <1>2, <2>1, WKTRests
<1>8. QED
  BY <1>2, <1>5, <1>6, <1>7

(* A step of whichever reader is at work.                                  *)
LEMMA Reads ==
  ASSUME IInv, Read
  PROVE  [ReaderNext]_readerVars /\ LoopInv' /\ AnnouncedInv' /\ NativeInv' /\ WKBInv' /\ WKTInv'
<1>1. /\ ReaderInv /\ NestInv /\ LoopInv /\ AnnouncedInv /\ NativeInv /\ WKBInv /\ WKTInv
  BY DEF IInv
<1>2. CASE Iterate
  <2>1. PICK r \in Results : NextRow \/ ReadNull(r) \/ EndArray
    BY <1>2 DEF Iterate, Results
  <2>2. UNCHANGED <<nativeVars, wkbVars, wktVars>>
    BY <1>2 DEF Iterate
  <2>3. QED
    BY <2>1, <2>2, LoopMoves
<1>3. CASE (ReadDescribed \/ NativeNext) /\ UNCHANGED <<wkbVars, wktVars>>
  <2>1. ReaderNext /\ LoopInv' /\ AnnouncedInv' /\ NativeInv' /\ reader = "native" /\ reader' = reader
    BY <1>1, <1>3, NativeStep
  <2>2. WKBInv' /\ WKTInv'
    BY <1>1, <1>3, <2>1, WKBRests, WKTRests
  <2>3. QED
    BY <2>1, <2>2
<1>4. CASE WKBNext /\ UNCHANGED <<nativeVars, wktVars>>
  <2>1. ReaderNext /\ LoopInv' /\ AnnouncedInv' /\ WKBInv' /\ reader = "wkb" /\ reader' = reader
    BY <1>1, <1>4, WKBStep
  <2>2. NativeInv' /\ WKTInv'
    BY <2>1, NativeRests, WKTRests
  <2>3. QED
    BY <2>1, <2>2
<1>5. CASE WKTNext /\ UNCHANGED <<nativeVars, wkbVars>>
  <2>1. /\ [ReaderNext]_readerVars /\ LoopInv' /\ AnnouncedInv' /\ WKTInv'
        /\ reader = "wkt" /\ reader' = reader
    BY <1>1, <1>5, WKTStep
  <2>2. NativeInv' /\ WKBInv'
    BY <1>1, <1>5, <2>1, NativeRests, WKBRests
  <2>3. QED
    BY <2>1, <2>2
<1>6. QED
  BY <1>2, <1>3, <1>4, <1>5 DEF Read

(* Nothing the invariant speaks of changes.                                *)
LEMMA NothingRead ==
  ASSUME IInv, UNCHANGED <<readerVars, loopVars, nativeVars, wkbVars, wktVars>>
  PROVE  LoopInv' /\ AnnouncedInv' /\ NativeInv' /\ WKBInv' /\ WKTInv'
<1>1. /\ UNCHANGED <<reader, phase, meta, dim, stack, cur, features>>
      /\ UNCHANGED <<array, filter, slot, announced>>
      /\ UNCHANGED <<levels, leaf, starts, seen>>
      /\ UNCHANGED <<left, swapping, heads>>
      /\ UNCHANGED <<ahead, fuel, expect, flat, coordDim>>
  BY DEF readerVars, loopVars, nativeVars, wkbVars, wktVars
<1>2. LoopInv'
  <2>1. Row' = Row /\ (IsNull(Row)' <=> IsNull(Row)) /\ Iterations' = Iterations
    BY <1>1, SameRow
  <2>2. QED
    BY <1>1, <2>1 DEF IInv, LoopInv, Busy
<1>3. AnnouncedInv'
  BY <1>1 DEF IInv, AnnouncedInv
<1>4. NativeInv'
  BY <1>1 DEF IInv, NativeInv, Fits, LastOffset
<1>5. WKBInv'
  BY <1>1 DEF IInv, WKBInv
<1>6. WKTInv'
  BY <1>1 DEF IInv, WKTInv, RuleInv, TokensInv, Remaining, Top, MayEnd
<1>7. QED
  BY <1>2, <1>3, <1>4, <1>5, <1>6

(* Every step is one of the protocol, or none, and keeps the invariant.    *)
LEMMA IInvStep ==
  ASSUME IInv, [Next]_vars
  PROVE  [ReaderNext]_readerVars /\ IInv'
<1>1. /\ [ReaderNext]_readerVars
      /\ LoopInv' /\ AnnouncedInv' /\ NativeInv' /\ WKBInv' /\ WKTInv'
  <2>1. CASE Read
    BY <2>1, Reads
  <2>2. CASE Stopped
    <3>1. "CONTINUE" \in Results
      BY DEF Results
    <3>2. ArrayAborted /\ UNCHANGED <<nativeVars, wkbVars, wktVars>>
      BY <2>2 DEF Stopped
    <3>3. QED
      BY <3>1, <3>2, LoopMoves
  <2>3. CASE UNCHANGED <<readerVars, loopVars, nativeVars, wkbVars, wktVars>>
    <3>1. LoopInv' /\ AnnouncedInv' /\ NativeInv' /\ WKBInv' /\ WKTInv'
      BY <2>3, NothingRead
    <3>2. QED
      BY <2>3, <3>1
  <2>4. QED
    BY <2>1, <2>2, <2>3 DEF Next, Progress, vars
<1>2. ReaderInv'
  BY <1>1, ReaderStep DEF IInv
<1>3. NestInv'
  BY <1>1, NestStep DEF IInv
<1>4. QED
  BY <1>1, <1>2, <1>3 DEF IInv

(* The state before read_meta().                                           *)
LEMMA IInvInit == Init => ReaderInit /\ IInv
<1> SUFFICES ASSUME Init PROVE ReaderInit /\ IInv
  OBVIOUS
<1>1. /\ ReaderInit /\ array \in Arrays /\ filter \in Filters /\ slot = 0
      /\ filter.kind = "logical" => Len(filter.values) = array.length
      /\ levels = << >> /\ starts = << >> /\ left = 0 /\ heads = << >>
      /\ ahead = "end" /\ fuel = 0
  BY DEF Init, LoopInit, NativeInit, WKBInit, WKTInit
<1>2. /\ phase = "start" /\ stack = << >> /\ cur = << >> /\ features = << >>
      /\ meta = [type |-> Unknown, dim |-> Unknown] /\ dim = Unknown
  BY <1>1 DEF ReaderInit
<1>3. ReaderInv
  BY <1>1, ReaderInitInv
<1>4. NestInv
  BY <1>2 DEF NestInv
<1>5. LoopInv
  <2>1. Iterations \in Nat
    <3>1. array.length \in Nat
      <4>1. PICK n \in 0 .. MaxRows, o \in Offsets : array \in Sliced(n, o)
        BY <1>1 DEF Arrays
      <4>2. array.length \in {n} /\ n \in Nat
        BY <4>1, LoopAssumption DEF Sliced
      <4>3. QED
        BY <4>2
    <3>2. Len(filter.values) \in Nat
      BY <1>1, FilterAssumption, LenProperties
    <3>3. QED
      BY <3>1, <3>2 DEF Iterations
  <2>2. 0 \in 0 .. Iterations
    BY <2>1
  <2>3. Len(features) + 0 <= 0
    BY <1>2
  <2>4. ~Busy
    BY <1>2 DEF Busy
  <2>5. QED
    BY <1>1, <1>2, <2>2, <2>3, <2>4 DEF LoopInv
<1>6. AnnouncedInv
  BY <1>2 DEF AnnouncedInv
<1>7. NativeInv
  BY <1>1, <1>2 DEF NativeInv
<1>8. WKBInv
  BY <1>1, <1>2 DEF WKBInv
<1>9. WKTInv
  BY <1>1, <1>2, TokensAssumption DEF WKTInv, RuleInv, TokensInv, Tokens
<1>10. QED
  BY <1>1, <1>3, <1>4, <1>5, <1>6, <1>7, <1>8, <1>9 DEF IInv

(* Every call of every reader is one of the protocol the handlers are      *)
(* written against, whatever the data (wkb-reader.hpp:77-202,              *)
(* wkt-reader.hpp:500-718, array-view-geoarrow.hpp:30-169).                *)
THEOREM ReadersFollowProtocol == Spec => Protocol
<1>1. Init => ReaderInit /\ IInv
  BY IInvInit
<1>2. IInv /\ [Next]_vars => [ReaderNext]_readerVars /\ IInv'
  BY IInvStep
<1>3. QED
  BY <1>1, <1>2, PTL DEF Spec, Protocol, ReaderSpec

(* The readers and the loop around them keep the invariant.                *)
LEMMA ReadersInvariant == Spec => []IInv
<1>1. IInv /\ [Next]_vars => IInv'
  BY IInvStep
<1>2. QED
  BY <1>1, IInvInit, PTL DEF Spec

(* No coordinate is decoded past the end of an element of WKB: what was    *)
(* checked before a sequence covers all of it (wkb-reader.hpp:179-202).    *)
THEOREM ElementsNotOverrun == Spec => []WithinElement
<1>1. IInv => WithinElement
  BY DEF IInv, WKBInv, WithinElement
<1>2. QED
  BY <1>1, ReadersInvariant, PTL

(* What was announced and what headers said is in force where it is used:  *)
(* at every depth, after parts of other dimensions or byte orders          *)
(* (wkb-reader.hpp:134-142, 204-206, wkt-reader.hpp:505-527).              *)
THEOREM HeadersStayInForce == Spec => []HeadersInForce
<1>1. ASSUME IInv PROVE HeadersInForce
  <2>1. /\ ReaderInv /\ AnnouncedInv /\ WKBInv /\ WKTInv
    BY <1>1 DEF IInv
  <2>2. Len(heads) = IF reader = "wkb" THEN Len(stack) ELSE 0
    BY <2>1 DEF WKBInv
  <2>3. stack # << >> => announced = stack[1].type
    BY <2>1 DEF ReaderInv, StackWellFormed, AnnouncedInv
  <2>4. ASSUME phase = "geometry"
        PROVE  /\ Len(stack) \in 1 .. Len(stack) /\ Top = stack[Len(stack)]
               /\ dim \in Dims /\ dim # Unknown
    <3>1. stack # << >> /\ stack \in Seq(FrameType)
      BY <2>1, <2>4 DEF ReaderInv, ReaderTypeOK, StackWellFormed
    <3>2. Len(stack) \in Nat \ {0}
      BY <3>1, EmptySeq, LenProperties
    <3>3. dim \in Dims
      BY <2>1, <2>4 DEF AnnouncedInv
    <3>4. Unknown \notin Dims
      BY ReaderAssumption DEF AllDims, Unknown
    <3>5. QED
      BY <3>2, <3>3, <3>4 DEF Top
  <2>5. ASSUME phase = "geometry", reader = "wkb", Top.type \notin Collects
        PROVE  heads[Len(heads)].dim = dim /\ heads[Len(heads)].swap = swapping
    <3>1. heads[Len(stack)] = [dim |-> dim, swap |-> swapping]
      BY <2>1, <2>4, <2>5 DEF WKBInv
    <3>2. Len(heads) = Len(stack)
      BY <2>2, <2>5
    <3>3. QED
      BY <3>1, <3>2
  <2>6. ASSUME phase = "geometry", Top.type \in OfCoords
        PROVE  CASE reader = "wkb" -> heads[Len(heads)].dim = dim
                 [] reader = "wkt" -> Top.size # 0 => coordDim = dim
                 [] OTHER -> meta.dim = dim
    <3>1. Top.type \notin Collects
      BY <2>6 DEF OfCoords, Collects, MultiTypes
    <3>2. reader \in {"native", "wkb", "wkt"}
      BY <2>1, ReaderAssumption DEF ReaderInv, ReaderTypeOK
    <3>3. reader = "wkt" => coordDim = dim
      BY <2>1, <2>4, <2>6 DEF WKTInv
    <3>4. reader = "native" => meta.dim = dim
      BY <2>1, <2>6 DEF AnnouncedInv
    <3>5. reader = "wkb" => heads[Len(heads)].dim = dim
      BY <2>5, <2>6, <3>1
    <3>6. QED
      BY <3>2, <3>3, <3>4, <3>5
  <2>7. QED
    BY <2>2, <2>3, <2>5, <2>6 DEF HeadersInForce, OfCoords, Collects
<1>2. QED
  BY <1>1, ReadersInvariant, PTL

(***************************************************************************)
(* Rows and features: the k-th feature is that of the k-th row the filter  *)
(* selects. The rows selected are counted as the loop goes on.             *)
(***************************************************************************)
Chosen(i) == {j \in 1 .. i : Visit(j) # Skipped}
Rank(i) == Cardinality(Chosen(i))
NullRow(i) == Visit(i) = NA \/ Visit(i) + array.offset \in array.nulls

RowsInv ==
  /\ phase \in {"start", "between"} => Len(features) = Rank(slot)
  /\ Busy => Len(features) + 1 = Rank(slot)
  /\ Len(features) <= Rank(slot)
  /\ \A k \in 1 .. Rank(slot) : \E i \in Chosen(slot) : Rank(i) = k
  /\ array.offset = 0 =>
       \A i \in Chosen(slot) :
         Rank(i) <= Len(features) =>
           /\ features[Rank(i)].null => NullRow(i)
           /\ features[Rank(i)].parts # << >> => ~NullRow(i)

(* A step leaves the features, or appends the one of the row it ends.      *)
RowKept ==
  /\ UNCHANGED <<array, filter, slot, features>>
  /\ \/ phase \in {"start", "between"} /\ phase' \in {"between", "read"}
     \/ Busy /\ (Busy' \/ phase' \in {"read", "failed"})
     \/ UNCHANGED phase

RowEnded ==
  /\ UNCHANGED <<array, filter, slot>>
  /\ Busy /\ phase' = "between"
  /\ \E f \in {Feature(cur), NullFeature} :
       /\ features' = Append(features, f)
       /\ f.null => Row = NA \/ IsNull(Row)

(* An answer ends the feature, or the array.                               *)
LEMMA RowUnwound ==
  ASSUME NEW r, Unwind(r, Feature(cur)), UNCHANGED <<array, filter, slot>>, Busy
  PROVE  RowKept \/ RowEnded
<1>1. Feature(cur).null = FALSE
  BY DEF Feature
<1>2. CASE EndFeature(Feature(cur))
  BY <1>1, <1>2 DEF EndFeature, RowEnded
<1>3. CASE phase' \in {"read", "failed"} /\ UNCHANGED features
  BY <1>3 DEF RowKept
<1>4. QED
  BY <1>2, <1>3 DEF Unwind

(* An iteration is given up, or ends.                                      *)
LEMMA RowLeft ==
  ASSUME NEW r \in Results, EndRow \/ GivesUp(r)
  PROVE  RowKept \/ RowEnded
<1>1. Feature(cur).null = FALSE
  BY DEF Feature
<1>2. CASE EndRow
  BY <1>1, <1>2 DEF EndRow, FeatEnd, EndFeature, RowEnded, Busy, loopVars
<1>3. CASE GivesUp(r)
  <2>1. Busy /\ Unwind(r, Feature(cur)) /\ UNCHANGED <<array, filter, slot>>
    BY <1>3 DEF GivesUp, CallUnwinds, Busy, loopVars
  <2>2. QED
    BY <2>1, RowUnwound
<1>4. QED
  BY <1>2, <1>3

(* A null row is passed on, and the array ends.                            *)
LEMMA RowPassed ==
  ASSUME NEW r \in Results, ReadNull(r) \/ EndArray \/ ArrayAborted
  PROVE  RowKept \/ RowEnded
<1>1. CASE ReadNull(r)
  <2>1. /\ Busy /\ (Row = NA \/ IsNull(Row)) /\ UNCHANGED <<array, filter, slot>>
        /\ \/ phase' = "closing" /\ UNCHANGED features
           \/ Unwind(r, NullFeature)
    BY <1>1 DEF ReadNull, NullFeat, Busy, loopVars
  <2>2. CASE phase' = "closing" /\ UNCHANGED features
    BY <2>1, <2>2 DEF RowKept, Busy
  <2>3. CASE EndFeature(NullFeature)
    BY <2>1, <2>3 DEF EndFeature, RowEnded
  <2>4. CASE phase' \in {"read", "failed"} /\ UNCHANGED features
    BY <2>1, <2>4 DEF RowKept
  <2>5. QED
    BY <2>1, <2>2, <2>3, <2>4 DEF Unwind
<1>2. CASE EndArray \/ ArrayAborted
  BY <1>2 DEF EndArray, ArrayAborted, ReadDone, RowKept, loopVars
<1>3. QED
  BY <1>1, <1>2

(* The calls within a row, and its failure.                                *)
LEMMA RowGoesOn ==
  ASSUME UNCHANGED <<array, filter, slot, features>>, phase \in {"feature", "geometry"},
         phase' \in {"geometry", "closing", "failed"}
  PROVE  RowKept
BY DEF RowKept, Busy

(* Steps of the native reader.                                             *)
LEMMA NativeRow ==
  ASSUME ReadDescribed \/ NativeNext
  PROVE  RowKept \/ RowEnded
<1>1. CASE ReadDescribed
  BY <1>1 DEF ReadDescribed, NativeBegin, Begin, ReadMeta, RowKept
<1>2. CASE NativeRoot \/ NativePart
  BY <1>2, RowGoesOn DEF NativeRoot, NativePart, NativeOpen, CallGeomStart, Reading, loopVars
<1>3. CASE NativeRing
  BY <1>3, RowGoesOn DEF NativeRing, CallRingStart, loopVars
<1>4. CASE NativeCoords
  BY <1>4, RowGoesOn DEF NativeCoords, CallCoords, loopVars
<1>5. CASE NativeEnd
  BY <1>5, RowGoesOn DEF NativeEnd, CallEnd, loopVars
<1>6. CASE \E r \in Results : EndRow \/ GivesUp(r)
  BY <1>6, RowLeft
<1>7. "CONTINUE" \in Results
  BY DEF Results
<1>8. QED
  BY <1>1, <1>2, <1>3, <1>4, <1>5, <1>6, <1>7 DEF NativeNext

(* Steps of the reader of WKB.                                             *)
LEMMA WKBRow ==
  ASSUME WKBNext
  PROVE  RowKept \/ RowEnded
<1>1. CASE WKBBegin
  BY <1>1 DEF WKBBegin, Begin, ReadMeta, RowKept
<1>2. CASE \E h \in Headers, sz \in 0 .. MaxCount : ReadRoot(h, sz) \/ ReadMember(h, sz)
  <2>1. PICK h, sz : ReadRoot(h, sz) \/ ReadMember(h, sz)
    BY <1>2
  <2>2. phase \in {"feature", "geometry"} /\ \E n : WKBHeader(n, h, sz)
    BY <2>1 DEF ReadRoot, ReadMember, Reading
  <2>3. UNCHANGED <<array, filter, slot>>
    BY <2>2 DEF WKBHeader
  <2>4. CASE UNCHANGED features /\ phase' \in {"geometry", "failed"}
    BY <2>2, <2>3, <2>4, RowGoesOn
  <2>5. CASE \E r \in Results : Unwind(Outcome(h.type, r), Feature(cur))
    <3>1. Busy
      BY <2>2 DEF Busy
    <3>2. QED
      BY <2>3, <2>5, <3>1, RowUnwound
  <2>6. QED
    BY <2>2, <2>4, <2>5 DEF WKBHeader, CallGeomStart, Throws
<1>3. CASE \E sz \in 0 .. MaxCount : ReadRing(sz)
  BY <1>3, RowGoesOn DEF ReadRing, CallRingStart, WKBThrows, Throws, loopVars
<1>4. CASE ReadCoord
  BY <1>4, RowGoesOn DEF ReadCoord, CallCoords, WKBThrows, Throws, loopVars
<1>5. CASE ReadEnd
  BY <1>5, RowGoesOn DEF ReadEnd, CallEnd, loopVars
<1>6. CASE \E r \in Results : EndRow \/ GivesUp(r)
  BY <1>6, RowLeft
<1>7. "CONTINUE" \in Results
  BY DEF Results
<1>8. QED
  BY <1>1, <1>2, <1>3, <1>4, <1>5, <1>6, <1>7 DEF WKBNext

(* Steps of the reader of WKT.                                             *)
LEMMA WKTRow ==
  ASSUME WKTNext
  PROVE  RowKept \/ RowEnded \/ NextRow
<1>1. CASE WKTBegin
  BY <1>1 DEF WKTBegin, Begin, ReadMeta, RowKept
<1>2. CASE SetBuffer
  BY <1>2 DEF SetBuffer
<1>3. CASE \E t \in RootTypes \cup MemberTypes, d \in Dims : WKTHeader(t, d)
  BY <1>3, RowGoesOn DEF WKTHeader, CallGeomStart, Reading
<1>4. ASSUME phase \in {"feature", "geometry"}, WKTThrows PROVE RowKept
  BY <1>4, RowGoesOn DEF WKTThrows, Throws, loopVars
<1>5. ASSUME phase = "geometry", UNCHANGED readerVars, UNCHANGED loopVars PROVE RowKept
  BY <1>5, RowGoesOn DEF readerVars, loopVars
<1>6. CASE NoHeader
  BY <1>4, <1>6 DEF NoHeader, Reading
<1>7. CASE EmptyOrOpen
  BY <1>4, <1>5, <1>7 DEF EmptyOrOpen
<1>8. CASE Coordinate
  BY <1>4, <1>8, RowGoesOn DEF Coordinate, CallCoords, loopVars
<1>9. CASE TooFewOrdinates
  BY <1>4, <1>9 DEF TooFewOrdinates
<1>10. CASE ClosePoint
  BY <1>4, <1>5, <1>10 DEF ClosePoint
<1>11. CASE Part
  BY <1>11, RowGoesOn DEF Part, CallGeomStart, loopVars
<1>12. CASE Ring
  BY <1>12, RowGoesOn DEF Ring, CallRingStart, loopVars
<1>13. CASE Separator
  BY <1>4, <1>5, <1>13 DEF Separator
<1>14. CASE Done
  BY <1>4, <1>14, RowGoesOn DEF Done, CallEnd, loopVars
<1>15. CASE \E r \in Results : EndRow \/ GivesUp(r)
  BY <1>15, RowLeft
<1>16. "CONTINUE" \in Results
  BY DEF Results
<1>17. QED
  BY <1>1, <1>2, <1>3, <1>6, <1>7, <1>8, <1>9, <1>10, <1>11, <1>12, <1>13, <1>14, <1>15, <1>16
     DEF WKTNext

(* A step of the whole.                                                    *)
LEMMA RowStep ==
  ASSUME [Next]_vars
  PROVE  RowKept \/ RowEnded \/ NextRow
<1>1. "CONTINUE" \in Results
  BY DEF Results
<1>2. CASE Iterate
  BY <1>1, <1>2, RowPassed DEF Iterate
<1>3. CASE ReadDescribed \/ NativeNext \/ WKBNext \/ WKTNext
  BY <1>3, NativeRow, WKBRow, WKTRow
<1>4. CASE Stopped
  BY <1>1, <1>4, RowPassed DEF Stopped
<1>5. CASE UNCHANGED <<readerVars, loopVars>>
  BY <1>5 DEF RowKept, readerVars, loopVars
<1>6. QED
  BY <1>2, <1>3, <1>4, <1>5 DEF Next, Progress, Read, vars

(* Rows are counted one by one.                                            *)
LEMMA Ranks ==
  /\ Rank(0) = 0 /\ Chosen(0) = {}
  /\ \A i \in Nat : IsFiniteSet(Chosen(i)) /\ Rank(i) \in Nat
  /\ \A i \in Nat :
       /\ Chosen(i + 1) = IF Visit(i + 1) = Skipped THEN Chosen(i) ELSE Chosen(i) \cup {i + 1}
       /\ Rank(i + 1) = IF Visit(i + 1) = Skipped THEN Rank(i) ELSE Rank(i) + 1
  /\ \A i, j \in Nat : i < j /\ Visit(j) # Skipped => Rank(i) < Rank(j)
<1>1. Chosen(0) = {}
  BY DEF Chosen
<1>2. ASSUME NEW i \in Nat PROVE IsFiniteSet(Chosen(i)) /\ Rank(i) \in Nat
  <2>1. IsFiniteSet(1 .. i)
    BY FS_Interval
  <2>2. Chosen(i) \in SUBSET (1 .. i)
    BY DEF Chosen
  <2>3. IsFiniteSet(Chosen(i))
    BY <2>1, <2>2, FS_Subset
  <2>4. QED
    BY <2>3, FS_CardinalityType DEF Rank
<1>3. ASSUME NEW i \in Nat
      PROVE  /\ Chosen(i + 1) = IF Visit(i + 1) = Skipped THEN Chosen(i) ELSE Chosen(i) \cup {i + 1}
             /\ Rank(i + 1) = IF Visit(i + 1) = Skipped THEN Rank(i) ELSE Rank(i) + 1
  <2>1. \A j : j \in 1 .. i + 1 <=> j \in 1 .. i \/ j = i + 1
    OBVIOUS
  <2>2. Chosen(i + 1) = IF Visit(i + 1) = Skipped THEN Chosen(i) ELSE Chosen(i) \cup {i + 1}
    BY <2>1 DEF Chosen
  <2>3. i + 1 \notin Chosen(i) /\ IsFiniteSet(Chosen(i))
    BY <1>2 DEF Chosen
  <2>4. Cardinality(Chosen(i) \cup {i + 1}) = Cardinality(Chosen(i)) + 1
    BY <2>3, FS_AddElement
  <2>5. QED
    BY <2>2, <2>4 DEF Rank
<1>4. ASSUME NEW i \in Nat, NEW j \in Nat, i < j, Visit(j) # Skipped
      PROVE  Rank(i) < Rank(j)
  <2>1. IsFiniteSet(Chosen(i)) /\ IsFiniteSet(Chosen(j)) /\ Rank(i) \in Nat /\ Rank(j) \in Nat
    BY <1>2
  <2>2. Chosen(i) \in SUBSET Chosen(j)
    BY <1>4 DEF Chosen
  <2>3. j \in Chosen(j) /\ j \notin Chosen(i)
    BY <1>4 DEF Chosen
  <2>4. Rank(i) <= Rank(j) /\ Rank(i) # Rank(j)
    BY <2>1, <2>2, <2>3, FS_Subset DEF Rank
  <2>5. QED
    BY <2>1, <2>4
<1>5. Rank(0) = 0
  BY <1>1, FS_EmptySet DEF Rank
<1>6. QED
  BY <1>1, <1>2, <1>3, <1>4, <1>5

(* What a row is does not change while the array and the filter do not.    *)
LEMMA SameRows ==
  ASSUME UNCHANGED <<array, filter>>
  PROVE  \A i : /\ Chosen(i)' = Chosen(i) /\ Rank(i)' = Rank(i)
                /\ NullRow(i)' <=> NullRow(i)
                /\ Visit(i)' = Visit(i)
BY DEF Chosen, Rank, NullRow, Visit

(* Whether the feature of the row that is read stands for NA or a null.    *)
LEMMA RowOfFeature ==
  ASSUME ReaderInv, LoopInv, Busy, array.offset = 0
  PROVE  /\ Row = NA \/ IsNull(Row) => NullRow(slot)
         /\ cur # << >> => ~NullRow(slot)
<1>1. Row # NA => Row \in Nat
  BY RowExists
<1>2. Row # NA => Row + array.offset = Row
  BY <1>1
<1>3. NullRow(slot) <=> Row = NA \/ IsNull(Row)
  BY <1>2 DEF NullRow, Row, IsNull
<1>4. QED
  BY <1>3 DEF LoopInv

(* A step without a feature.                                               *)
LEMMA RowKeptInv ==
  ASSUME LoopInv, RowsInv, RowKept
  PROVE  RowsInv'
<1>1. \A i : /\ Chosen(i)' = Chosen(i) /\ Rank(i)' = Rank(i)
             /\ NullRow(i)' <=> NullRow(i)
  BY SameRows DEF RowKept
<1>2. UNCHANGED <<array, slot, features>>
  BY DEF RowKept
<1>3. /\ Rank(slot)' = Rank(slot) /\ Chosen(slot)' = Chosen(slot)
  BY <1>1, <1>2
<1>4. /\ phase' \in {"start", "between"} => Len(features') = Rank(slot)'
      /\ Busy' => Len(features') + 1 = Rank(slot)'
  BY <1>2, <1>3 DEF RowKept, RowsInv, Busy
<1>5. QED
  BY <1>1, <1>2, <1>3, <1>4 DEF RowsInv

(* The feature of a row.                                                   *)
LEMMA RowEndedInv ==
  ASSUME ReaderInv, LoopInv, RowsInv, RowEnded
  PROVE  RowsInv'
<1>1. \A i : /\ Chosen(i)' = Chosen(i) /\ Rank(i)' = Rank(i)
             /\ NullRow(i)' <=> NullRow(i)
  BY SameRows DEF RowEnded
<1>2. UNCHANGED <<array, slot>> /\ Busy /\ phase' = "between"
  BY DEF RowEnded
<1>3. PICK f \in {Feature(cur), NullFeature} :
        features' = Append(features, f) /\ (f.null => Row = NA \/ IsNull(Row))
  BY DEF RowEnded
<1>4. features \in Seq(FeatureType) /\ f \in FeatureType /\ Len(features) \in Nat
  BY FeatureTypes, LenProperties DEF ReaderInv, ReaderTypeOK
<1>5. /\ Len(features') = Len(features) + 1 /\ features'[Len(features) + 1] = f
      /\ \A k \in 1 .. Len(features) : features'[k] = features[k]
  BY <1>3, <1>4, AppendProperties
<1>6. Len(features) + 1 = Rank(slot)
  BY <1>2 DEF RowsInv
<1>7. f.parts # << >> => cur # << >>
  BY <1>3 DEF Feature, NullFeature
<1>8. ASSUME array.offset = 0, NEW i \in Chosen(slot), Rank(i) <= Len(features) + 1
      PROVE  /\ features'[Rank(i)].null => NullRow(i)
             /\ features'[Rank(i)].parts # << >> => ~NullRow(i)
  <2>1. slot \in Nat /\ i \in 1 .. slot /\ i \in Nat
    BY IterationsBounded DEF Chosen
  <2>2. Visit(slot) # Skipped
    BY <1>2 DEF LoopInv, Row
  <2>3. CASE i = slot
    BY <1>3, <1>5, <1>6, <1>7, <1>8, <1>2, <2>3, RowOfFeature
  <2>4. CASE i # slot
    <3>1. Rank(i) < Rank(slot) /\ Rank(i) \in Nat
      BY <2>1, <2>2, <2>4, Ranks
    <3>2. Rank(i) > 0
      <4>1. Visit(i) # Skipped
        BY DEF Chosen
      <4>2. QED
        BY <2>1, <4>1, Ranks
    <3>3. Rank(i) \in 1 .. Len(features)
      BY <1>4, <1>6, <3>1, <3>2
    <3>4. QED
      BY <1>5, <1>8, <3>3 DEF RowsInv
  <2>5. QED
    BY <2>3, <2>4
<1>9. ~Busy'
  BY <1>2 DEF Busy
<1>10. Rank(slot)' = Len(features') /\ Chosen(slot)' = Chosen(slot) /\ Len(features') \in Nat
  BY <1>1, <1>2, <1>4, <1>5, <1>6
<1>11. \A k \in 1 .. Rank(slot)' : \E i \in Chosen(slot)' : Rank(i)' = k
  BY <1>1, <1>2, <1>10 DEF RowsInv
<1>12. array'.offset = 0 =>
         \A i \in Chosen(slot)' :
           Rank(i)' <= Len(features') =>
             /\ features'[Rank(i)'].null => NullRow(i)'
             /\ features'[Rank(i)'].parts # << >> => ~NullRow(i)'
  BY <1>1, <1>2, <1>5, <1>8, <1>10
<1>13. QED
  BY <1>2, <1>9, <1>10, <1>11, <1>12 DEF RowsInv

(* The next row.                                                           *)
LEMMA NextRowInv ==
  ASSUME ReaderInv, LoopInv, RowsInv, NextRow
  PROVE  RowsInv'
<1>1. \A i : /\ Chosen(i)' = Chosen(i) /\ Rank(i)' = Rank(i)
             /\ NullRow(i)' <=> NullRow(i)
  BY SameRows DEF NextRow
<1>2. /\ slot \in Nat /\ slot' = slot + 1 /\ phase = "between" /\ UNCHANGED <<array, features>>
      /\ phase' = IF Visit(slot + 1) = Skipped THEN "between" ELSE "feature"
  BY IterationsBounded DEF NextRow
<1>3. /\ Chosen(slot + 1) = IF Visit(slot + 1) = Skipped THEN Chosen(slot)
                            ELSE Chosen(slot) \cup {slot + 1}
      /\ Rank(slot + 1) = IF Visit(slot + 1) = Skipped THEN Rank(slot) ELSE Rank(slot) + 1
      /\ Rank(slot) \in Nat
  BY <1>2, Ranks
<1>4. Len(features) = Rank(slot)
  BY <1>2 DEF RowsInv
<1>5. Chosen(slot)' = Chosen(slot + 1) /\ Rank(slot)' = Rank(slot + 1)
  BY <1>2, SameRows DEF NextRow
<1>6. CASE Visit(slot + 1) = Skipped
  <2>1. Chosen(slot)' = Chosen(slot) /\ Rank(slot)' = Rank(slot) /\ phase' = "between" /\ ~Busy'
    BY <1>2, <1>3, <1>5, <1>6 DEF Busy
  <2>2. QED
    BY <1>1, <1>2, <1>4, <2>1 DEF RowsInv
<1>7. CASE Visit(slot + 1) # Skipped
  <2>1. /\ Chosen(slot)' = Chosen(slot) \cup {slot + 1} /\ Rank(slot)' = Rank(slot) + 1
        /\ phase' = "feature" /\ Rank(slot + 1) = Rank(slot) + 1
    BY <1>2, <1>3, <1>5, <1>7
  <2>2. /\ phase' \notin {"start", "between"}
        /\ Len(features') + 1 = Rank(slot)' /\ Len(features') <= Rank(slot)'
    BY <1>2, <1>3, <1>4, <2>1
  <2>3. ASSUME NEW k \in 1 .. Rank(slot)' PROVE \E i \in Chosen(slot)' : Rank(i)' = k
    <3>1. CASE k = Rank(slot) + 1
      BY <1>1, <2>1, <3>1
    <3>2. CASE k # Rank(slot) + 1
      <4>1. k \in 1 .. Rank(slot)
        BY <1>3, <2>1, <3>2
      <4>2. QED
        BY <1>1, <2>1, <4>1 DEF RowsInv
    <3>3. QED
      BY <3>1, <3>2
  <2>4. ASSUME NEW i \in Chosen(slot)', Rank(i)' <= Len(features') PROVE i \in Chosen(slot)
    <3>1. Rank(i) <= Rank(slot)
      BY <1>1, <1>2, <1>4, <2>4
    <3>2. i # slot + 1
      BY <1>3, <2>1, <3>1
    <3>3. QED
      BY <2>1, <3>2
  <2>5. array'.offset = 0 =>
          \A i \in Chosen(slot)' :
            Rank(i)' <= Len(features') =>
              /\ features'[Rank(i)'].null => NullRow(i)'
              /\ features'[Rank(i)'].parts # << >> => ~NullRow(i)'
    BY <1>1, <1>2, <2>4 DEF RowsInv
  <2>6. QED
    BY <2>2, <2>3, <2>5 DEF RowsInv
<1>8. QED
  BY <1>6, <1>7

(* One feature is passed on for every row the filter selects, and null     *)
(* ones for NA and null rows only, whatever is given up on the way         *)
(* (geoarrow-compute.cpp:56-108, array-view-base.hpp:61-110).              *)
THEOREM OneFeaturePerRow == Spec => []RowsExact
<1>1. Init => RowsInv
  <2> SUFFICES ASSUME Init PROVE RowsInv
    OBVIOUS
  <2>1. phase = "start" /\ features = << >> /\ slot = 0
    BY DEF Init, LoopInit, ReaderInit
  <2>2. Rank(slot) = 0 /\ Chosen(slot) = {}
    BY <2>1, Ranks
  <2>3. Len(features) = 0 /\ ~Busy
    BY <2>1 DEF Busy
  <2>4. QED
    BY <2>2, <2>3 DEF RowsInv
<1>2. IInv /\ RowsInv /\ [Next]_vars => RowsInv'
  BY RowStep, RowKeptInv, RowEndedInv, NextRowInv DEF IInv
<1>3. ASSUME IInv, RowsInv PROVE RowsExact
  <2>1. /\ slot \in Nat /\ Rank(slot) \in Nat /\ Selected = Chosen(slot)
        /\ features \in Seq(FeatureType) /\ Len(features) \in Nat
    BY <1>3, IterationsBounded, Ranks, LenProperties
       DEF IInv, ReaderInv, ReaderTypeOK, Selected, Chosen
  <2>2. \A i \in Selected : {j \in Selected : j <= i} = Chosen(i)
    BY <2>1 DEF Chosen
  <2>3. phase = "between" => Len(features) = Cardinality(Selected)
    BY <1>3, <2>1 DEF RowsInv, Rank
  <2> DEFINE nth(k) == CHOOSE i \in Selected : Cardinality({j \in Selected : j <= i}) = k
  <2>4. ASSUME NEW k \in DOMAIN features
        PROVE  nth(k) \in Selected /\ Rank(nth(k)) = k
    <3>1. k \in 1 .. Rank(slot)
      BY <1>3, <2>1 DEF RowsInv
    <3>2. \E i \in Selected : Rank(i) = k
      BY <1>3, <2>1, <3>1 DEF RowsInv
    <3>3. \E i \in Selected : Cardinality({j \in Selected : j <= i}) = k
      BY <2>2, <3>2 DEF Rank
    <3>4. nth(k) \in Selected /\ Cardinality({j \in Selected : j <= nth(k)}) = k
      BY <3>3
    <3>5. QED
      BY <2>2, <3>4 DEF Rank
  <2>5. ASSUME array.offset = 0, NEW k \in DOMAIN features
        PROVE  /\ features[k].null => NullRow(nth(k))
               /\ features[k].parts # << >> => ~NullRow(nth(k))
    <3>1. k <= Len(features)
      BY <2>1
    <3> HIDE DEF nth
    <3>2. QED
      BY <1>3, <2>1, <2>4, <2>5, <3>1 DEF RowsInv
  <2>6. QED
    BY <2>3, <2>5 DEF RowsExact, NullRow
<1>4. QED
  BY <1>1, <1>2, <1>3, IInvInit, IInvStep, PTL DEF Spec

(***************************************************************************)
(* Coordinates of native arrays: those passed on for a row so far are the  *)
(* ones from its first to the one at which the innermost loop stands. The  *)
(* element that frame i reads is the row or, below, the part of frame      *)
(* i - 1 that was counted last.                                            *)
(***************************************************************************)
Place(l, e) ==
  CASE l = 1 -> First(e)
    [] l = 2 -> leaf + Below(3, Below(2, e))
    [] l = 3 -> leaf + Below(3, e)
    [] OTHER -> leaf + e

ElementAt(i) == IF i = 1 THEN Row ELSE starts[i - 1] + stack[i - 1].count - 1

SeenTo(p) ==
  /\ seen \in Seq(Int)
  /\ p = First(Row) + Len(seen)
  /\ \A k \in 1 .. Len(seen) : seen[k] = First(Row) + k - 1

FramesRead ==
  \A i \in 1 .. Len(stack) :
    /\ starts[i] = Below(i, ElementAt(i))
    /\ starts[i] + stack[i].size = Below(i, ElementAt(i) + 1)

PlacesInv ==
  /\ leaf \in Nat
  /\ reader = "native" =>
       /\ phase \in {"start", "between", "feature"} => seen = << >>
       /\ phase = "geometry" =>
            /\ FramesRead
            /\ Top.type \in OfCoords => Top.count \in {0, Top.size}
            /\ SeenTo(Place(Len(stack) + 1, starts[Len(stack)] + Top.count))
       /\ phase = "closing" /\ Row # NA /\ ~IsNull(Row) => SeenTo(First(Row + 1))

(* An element is where its first part is.                                  *)
LEMMA PlaceBelow ==
  ASSUME Len(levels) \in 0 .. 3, NEW l \in 1 .. 4, NEW e
  PROVE  Place(l, e) = Place(l + 1, Below(l, e))
<1>1. CASE l = 1
  BY <1>1 DEF Place, First
<1>2. CASE l = 2
  BY <1>2 DEF Place
<1>3. CASE l = 3
  BY <1>3 DEF Place
<1>4. CASE l = 4
  <2>1. PICK d \in 0 .. 3 : d = Len(levels)
    OBVIOUS
  <2>2. Below(4, e) = e
    BY <2>1 DEF Below
  <2>3. QED
    BY <1>4, <2>2 DEF Place
<1>5. QED
  BY <1>1, <1>2, <1>3, <1>4

(* Behind the last level elements are coordinates.                         *)
LEMMA PlaceOfLeaf ==
  ASSUME Len(levels) \in 0 .. 3, NEW l \in 1 .. 5, l > Len(levels), NEW e
  PROVE  Place(l, e) = leaf + e
<1>1. \A k \in 1 .. 3 : k >= l => \A x : Below(k, x) = x
  BY DEF Below
<1>2. QED
  BY <1>1 DEF Place, First

(* A native array has a list array for each level of its type.             *)
LEMMA LevelsAre ==
  ASSUME NativeInv, reader = "native", phase # "start", Depth(meta.type) \in 0 .. 3
  PROVE  /\ Len(levels) = Depth(meta.type) /\ DOMAIN levels = 1 .. Depth(meta.type)
         /\ \A l \in 1 .. Depth(meta.type) :
              levels[l].offset \in Nat /\ levels[l].offsets \in ListOffsets \cup {<<0>>}
<1>1. levels \in [1 .. Depth(meta.type) -> ListLevel]
  BY DEF NativeInv
<1>2. PICK d \in 0 .. 3 : d = Depth(meta.type)
  OBVIOUS
<1>3. Len(levels) = d /\ DOMAIN levels = 1 .. d
  BY <1>1, <1>2
<1>4. QED
  BY <1>1, <1>2, <1>3 DEF ListLevel

(* Up to the end of a level, offsets lead into the next one.               *)
LEMMA OffsetExists ==
  ASSUME NativeInv, reader = "native", phase # "start", Depth(meta.type) \in 0 .. 3,
         array.length \in Nat, NEW l \in 1 .. Depth(meta.type), NEW e \in Nat, e <= Elements(l)
  PROVE  ChildOffset(l, e) \in Nat /\ ChildOffset(l, e) <= LastOffset(l)
<1>1. /\ Fits(levels, array.length)
      /\ DOMAIN levels = 1 .. Depth(meta.type)
      /\ \A i \in 1 .. Depth(meta.type) :
           levels[i].offset \in Nat /\ levels[i].offsets \in ListOffsets \cup {<<0>>}
  BY LevelsAre DEF NativeInv
<1>2. PICK o : o = levels[l].offsets
  OBVIOUS
<1>3. PICK first \in Nat : first = levels[l].offset
  BY <1>1
<1>4. o \in ListOffsets \cup {<<0>>}
  BY <1>1, <1>2
<1>5. Elements(l) \in Nat
  <2>1. CASE l = 1
    BY <2>1 DEF Elements
  <2>2. CASE l # 1
    <3>1. l - 1 \in 1 .. Depth(meta.type)
      BY <2>2
    <3>2. LastOffset(l - 1) \in Nat
      BY <1>1, <3>1, ListOffsetsSorted DEF LastOffset
    <3>3. QED
      BY <2>2, <3>2 DEF Elements
  <2>3. QED
    BY <2>1, <2>2
<1>6. first + Elements(l) < Len(o)
  BY <1>1, <1>2, <1>3 DEF Fits, Elements, LastOffset
<1>7. Len(o) \in Nat /\ \A i \in 1 .. Len(o) : o[i] \in Nat /\ o[i] <= o[Len(o)]
  BY <1>4, ListOffsetsSorted
<1>8. PICK k : k = first + e + 1
  OBVIOUS
<1>9. k \in 1 .. Len(o)
  <2>1. PICK m \in Nat : m = Elements(l)
    BY <1>5
  <2>2. PICK n \in Nat : n = Len(o)
    BY <1>7
  <2>3. e <= m /\ first + m < n
    BY <1>6, <2>1, <2>2
  <2>4. QED
    BY <1>8, <2>2, <2>3
<1>10. ChildOffset(l, e) = o[k] /\ LastOffset(l) = o[Len(o)]
  <2>1. levels[l].offset + e + 1 = k
    BY <1>3, <1>8
  <2>2. QED
    BY <1>2, <2>1 DEF ChildOffset, LastOffset
<1>11. QED
  BY <1>7, <1>9, <1>10

(* So every row has a first coordinate, where its last one would follow if *)
(* it has none.                                                            *)
LEMMA FirstIsNat ==
  ASSUME NativeInv, reader = "native", phase # "start", Depth(meta.type) \in 0 .. 3,
         array.length \in Nat, leaf \in Nat, NEW e \in Nat, e <= array.length
  PROVE  First(e) \in Nat
<1>1. Len(levels) = Depth(meta.type)
  BY LevelsAre
<1>2. ASSUME NEW l \in 1 .. 3, NEW x \in Nat, l <= Depth(meta.type) => x <= Elements(l)
      PROVE  Below(l, x) \in Nat /\ (l < Depth(meta.type) => Below(l, x) <= Elements(l + 1))
  <2>1. CASE l > Depth(meta.type)
    BY <1>1, <2>1 DEF Below
  <2>2. CASE l <= Depth(meta.type)
    <3>1. ChildOffset(l, x) \in Nat /\ ChildOffset(l, x) <= LastOffset(l)
      BY <1>2, <2>2, OffsetExists
    <3>2. Below(l, x) = ChildOffset(l, x) /\ Elements(l + 1) = LastOffset(l)
      BY <1>1, <2>2 DEF Below, Elements
    <3>3. QED
      BY <3>1, <3>2
  <2>3. QED
    BY <2>1, <2>2
<1>3. PICK x : x = Below(1, e)
  OBVIOUS
<1>4. x \in Nat /\ (1 < Depth(meta.type) => x <= Elements(2))
  <2>1. e <= Elements(1)
    BY DEF Elements
  <2>2. QED
    BY <1>2, <1>3, <2>1
<1>5. PICK y : y = Below(2, x)
  OBVIOUS
<1>6. y \in Nat /\ (2 < Depth(meta.type) => y <= Elements(3))
  BY <1>2, <1>4, <1>5
<1>7. Below(3, y) \in Nat
  BY <1>2, <1>6
<1>8. QED
  BY <1>3, <1>5, <1>7 DEF First

(* Nothing moves as long as the array and the row stay.                    *)
LEMMA PlacesKept ==
  ASSUME UNCHANGED <<levels, leaf, array, filter, slot>>
  PROVE  /\ Row' = Row
         /\ \A e : First(e)' = First(e)
         /\ \A l, e : Place(l, e)' = Place(l, e) /\ Below(l, e)' = Below(l, e)
<1>1. Row' = Row
  BY DEF Row, Visit
<1>2. \A l, e : Below(l, e)' = Below(l, e)
  BY DEF Below, ChildOffset
<1>3. \A e : First(e)' = First(e)
  BY DEF First, Below, ChildOffset
<1>4. \A l, e : Place(l, e)' = Place(l, e)
  BY DEF Place, First, Below, ChildOffset
<1>5. QED
  BY <1>1, <1>2, <1>3, <1>4

(* Nor is what was passed on forgotten.                                    *)
LEMMA SeenKept ==
  ASSUME UNCHANGED <<levels, leaf, array, filter, slot, seen>>, NEW p, SeenTo(p)
  PROVE  SeenTo(p)'
<1>1. PICK r : r = Row
  OBVIOUS
<1>2. Row' = r /\ First(r)' = First(r)
  BY <1>1, PlacesKept
<1>3. First(Row)' = First(Row)
  BY <1>1, <1>2
<1>4. QED
  BY <1>3 DEF SeenTo

(* The frames of a next state, each with the element it reads.             *)
LEMMA FramesReadNext ==
  ASSUME UNCHANGED <<levels, leaf, array, filter, slot>>,
         \A i \in 1 .. Len(stack') :
           \E e : /\ e = IF i = 1 THEN Row ELSE starts'[i - 1] + stack'[i - 1].count - 1
                  /\ starts'[i] = Below(i, e)
                  /\ starts'[i] + stack'[i].size = Below(i, e + 1)
  PROVE  FramesRead'
<1>1. Row' = Row /\ \A l, e : Below(l, e)' = Below(l, e)
  BY PlacesKept
<1>2. QED
  BY <1>1 DEF FramesRead, ElementAt

(* A next state in which a geometry is open.                               *)
LEMMA CoordsNext ==
  ASSUME PlacesInv, UNCHANGED <<reader, leaf>>, phase' = "geometry", FramesRead',
         NEW n, n = Len(stack'),
         NEW c, c = Top'.count, Top'.type \in OfCoords => c \in {0, Top'.size},
         NEW x, x = starts'[n] + c, NEW p, p = Place(n + 1, x)', SeenTo(p)'
  PROVE  PlacesInv'
<1>1. SeenTo(Place(Len(stack) + 1, starts[Len(stack)] + Top.count))'
  OBVIOUS
<1>2. QED
  BY <1>1 DEF PlacesInv

(* A next state in which none is.                                          *)
LEMMA CoordsRest ==
  ASSUME PlacesInv, UNCHANGED <<reader, leaf>>, phase' # "geometry",
         reader = "native" =>
           /\ phase' # "closing" \/ Row' = NA \/ IsNull(Row)'
           /\ phase' \in {"start", "between", "feature"} => seen' = << >>
  PROVE  PlacesInv'
BY DEF PlacesInv

(* What a frame is opened with for element e of level l.                   *)
LEMMA Opening ==
  ASSUME NativeInv, reader = "native", phase # "start", Depth(meta.type) \in 0 .. 3,
         array.length \in Nat, NEW l \in Nat \ {0},
         NEW t \in SimpleTypes \cup MultiTypes \cup {"RING"}, NEW e \in Nat,
         l + FrameDepth(t) = Depth(meta.type) + 1,
         t # "POINT" => e < Elements(l),
         NEW sz, sz = IF t = "POINT" THEN 1 ELSE ChildSize(l, e),
         NEW s, s = IF t = "POINT" THEN e ELSE ChildOffset(l, e)
  PROVE  s = Below(l, e) /\ s + sz = Below(l, e + 1)
<1>1. Len(levels) = Depth(meta.type)
  BY LevelsAre
<1>2. CASE t = "POINT"
  <2>1. FrameDepth(t) = 0
    BY <1>2 DEF FrameDepth, Depth
  <2>2. l > Len(levels)
    BY <1>1, <2>1
  <2>3. QED
    BY <1>2, <2>2 DEF Below
<1>3. CASE t # "POINT"
  <2>1. FrameDepth(t) \in 1 .. 3
    <3>1. CASE t = "RING"
      BY <3>1 DEF FrameDepth
    <3>2. CASE t \in SimpleTypes \cup MultiTypes
      BY <1>3, <3>2, Depths
    <3>3. QED
      BY <3>1, <3>2
  <2>2. l \in 1 .. Depth(meta.type) /\ ~(l > Len(levels))
    BY <1>1, <2>1
  <2>3. PICK m : m = Elements(l)
    OBVIOUS
  <2>4. m \in Nat
    <3>1. CASE l = 1
      BY <2>3, <3>1 DEF Elements
    <3>2. CASE l # 1
      <4>1. l - 1 \in 1 .. Depth(meta.type)
        BY <2>2, <3>2
      <4>2. LastOffset(l - 1) \in Nat
        BY <4>1, LevelsAre, ListOffsetsSorted DEF LastOffset
      <4>3. QED
        BY <2>3, <3>2, <4>2 DEF Elements
    <3>3. QED
      BY <3>1, <3>2
  <2>5. e <= m /\ e + 1 <= m /\ e + 1 \in Nat
    BY <1>3, <2>3, <2>4
  <2>6. ChildOffset(l, e) \in Nat /\ ChildOffset(l, e + 1) \in Nat
    BY <2>2, <2>3, <2>5, OffsetExists
  <2>7. s = ChildOffset(l, e) /\ sz = ChildOffset(l, e + 1) - ChildOffset(l, e)
    BY <1>3 DEF ChildSize
  <2>8. s + sz = ChildOffset(l, e + 1)
    BY <2>6, <2>7
  <2>9. QED
    BY <2>2, <2>7, <2>8 DEF Below
<1>4. QED
  BY <1>2, <1>3

(* The geometry of a row starts at its first coordinate.                   *)
LEMMA CoordsOfRoot ==
  ASSUME ReaderInv, LoopInv, AnnouncedInv, NativeInv, PlacesInv, reader = "native", NativeRoot
  PROVE  PlacesInv'
<1>1. PICK t, sz, s :
        /\ t = meta.type
        /\ sz = IF t = "POINT" THEN 1 ELSE ChildSize(1, Row)
        /\ s = IF t = "POINT" THEN Row ELSE ChildOffset(1, Row)
  OBVIOUS
<1>2. stack = << >> /\ Len(stack) = 0 /\ phase = "feature" /\ Row # NA /\ ~IsNull(Row)
  BY DEF NativeRoot, Reading, ReaderInv, StackWellFormed
<1>3. /\ CallGeomStart(t, sz) /\ starts' = Append(starts, s)
      /\ UNCHANGED <<dim, levels, leaf, seen, array, filter, slot, announced>>
  BY <1>1, <1>2 DEF NativeRoot, NativeOpen, loopVars
<1>4. /\ t \in SimpleTypes \cup MultiTypes /\ Depth(t) \in 0 .. 3 /\ array.length \in Nat
      /\ starts \in Seq(Nat) /\ Len(starts) = 0
  BY <1>1, <1>2, NativeMeta
<1>5. Row \in Nat /\ Row < array.length
  BY <1>2, RowExists DEF Busy
<1>6. FrameDepth(t) = Depth(t) /\ (t # "POINT" => Depth(t) > 0)
  BY <1>4, Depths
<1>7. s = Below(1, Row) /\ s + sz = Below(1, Row + 1)
  <2>1. 1 + FrameDepth(t) = Depth(meta.type) + 1 /\ phase # "start" /\ Depth(meta.type) \in 0 .. 3
    BY <1>1, <1>2, <1>4, <1>6
  <2>2. t # "POINT" => Row < Elements(1)
    BY <1>5 DEF Elements
  <2>3. QED
    BY <1>1, <1>4, <1>5, <2>1, <2>2, Opening
<1>8. /\ sz \in 0 .. MaxParts /\ s \in Nat
      /\ t = "POINT" => sz = 1
      /\ t # "POINT" => s + sz <= LastOffset(1)
  <2>1. PICK l \in Nat \ {0} : l = 1
    OBVIOUS
  <2>2. PICK e \in Nat : e = Row
    BY <1>5
  <2>3. t # "POINT" => l <= Depth(meta.type) /\ e < Elements(l)
    BY <1>1, <1>4, <1>5, <1>6, <2>1, <2>2 DEF Elements
  <2>4. Depth(meta.type) \in Nat /\ phase # "start" /\ array.length \in Nat
    BY <1>1, <1>2, <1>4
  <2>5. /\ sz = IF t = "POINT" THEN 1 ELSE ChildSize(l, e)
        /\ s = IF t = "POINT" THEN e ELSE ChildOffset(l, e)
    BY <1>1, <2>1, <2>2
  <2>6. /\ sz \in 0 .. MaxParts /\ s \in Nat
        /\ t = "POINT" => sz = 1
        /\ t # "POINT" => s + sz <= LastOffset(l)
    <3>1. CASE t = "POINT"
      BY <2>2, <2>5, <3>1, ReaderAssumption
    <3>2. CASE t # "POINT"
      <4>1. l \in 1 .. Depth(meta.type) /\ e < Elements(l)
        BY <2>1, <2>3, <2>4, <3>2
      <4>2. /\ ChildOffset(l, e) \in Nat /\ ChildSize(l, e) \in 0 .. MaxParts
            /\ ChildOffset(l, e) + ChildSize(l, e) <= LastOffset(l)
        BY <2>4, <4>1, ElementParts
      <4>3. QED
        BY <2>5, <3>2, <4>2
    <3>3. QED
      BY <3>1, <3>2
  <2>7. QED
    BY <2>1, <2>6
<1>9. Frame(t, sz) \in FrameType /\ Frame(t, sz).count = 0 /\ Frame(t, sz).size = sz
  BY <1>4, <1>8, ReaderAssumption DEF Frame, FrameType, GeometryTypes
<1>10. /\ UNCHANGED reader /\ phase' = "geometry"
       /\ stack' = Append(IF stack = << >> THEN stack ELSE CountOne(1), Frame(t, sz))
  BY <1>3 DEF CallGeomStart
<1>11. Len(stack') = 1 /\ stack'[1] = Frame(t, sz) /\ Top' = Frame(t, sz)
  BY <1>2, <1>9, <1>10, PushedRoot
<1>12. starts'[1] = s
  BY <1>3, <1>4, AppendProperties
<1>13. FramesRead'
  <2>1. \A i \in 1 .. Len(stack') : i = 1
    BY <1>11
  <2>2. starts'[1] = Below(1, Row) /\ starts'[1] + stack'[1].size = Below(1, Row + 1)
    BY <1>7, <1>9, <1>11, <1>12
  <2>3. \A i \in 1 .. Len(stack') :
          \E e : /\ e = IF i = 1 THEN Row ELSE starts'[i - 1] + stack'[i - 1].count - 1
                 /\ starts'[i] = Below(i, e)
                 /\ starts'[i] + stack'[i].size = Below(i, e + 1)
    BY <2>1, <2>2
  <2>4. QED
    BY <1>3, <2>3, FramesReadNext
<1>14. PICK f : f = First(Row)
  OBVIOUS
<1>15. SeenTo(f)
  <2>1. seen = << >>
    BY <1>2 DEF PlacesInv
  <2>2. f \in Nat
    <3>1. leaf \in Nat /\ Row <= array.length /\ phase # "start" /\ Depth(meta.type) \in 0 .. 3
      BY <1>1, <1>2, <1>4, <1>5 DEF PlacesInv
    <3>2. QED
      BY <1>4, <1>5, <1>14, <3>1, FirstIsNat
  <2>3. seen \in Seq(Int) /\ Len(seen) = 0
    BY <2>1
  <2>4. QED
    BY <1>14, <2>2, <2>3 DEF SeenTo
<1>16. f = Place(2, s)
  BY <1>7, <1>14 DEF Place, First
<1>17. SeenTo(f)' /\ f = Place(2, s)'
  BY <1>3, <1>15, <1>16, SeenKept, PlacesKept
<1>18. Top'.count = 0 /\ s = starts'[1] + 0
  BY <1>8, <1>9, <1>11, <1>12
<1>19. QED
  BY <1>3, <1>10, <1>11, <1>13, <1>17, <1>18, CoordsNext

(* A part starts where the geometry around it stands.                      *)
LEMMA CoordsOfPart ==
  ASSUME ReaderInv, LoopInv, AnnouncedInv, NativeInv, PlacesInv, reader = "native",
         phase = "geometry", Top.type # "POINT", Top.count < Top.size,
         NEW t \in SimpleTypes \cup {"RING"},
         Len(stack) + 1 + FrameDepth(t) = Depth(meta.type) + 1,
         NEW sz, sz = IF t = "POINT" THEN 1 ELSE ChildSize(Len(stack) + 1, Element),
         NEW s, s = IF t = "POINT" THEN Element ELSE ChildOffset(Len(stack) + 1, Element),
         phase' = "geometry", stack' = Append(CountOne(1), Frame(t, sz)),
         starts' = Append(starts, s),
         UNCHANGED <<reader, levels, leaf, seen, array, filter, slot>>
  PROVE  PlacesInv'
<1>1. PICK n \in Nat \ {0} : n = Len(stack)
  BY NativeTop
<1>2. PICK e \in Nat : e = Element /\ e < Elements(n + 1)
  BY <1>1, ElementExists
<1>3. /\ Top = stack[n] /\ Top.count \in Nat /\ array.length \in Nat
      /\ Depth(meta.type) \in 0 .. 3 /\ starts \in Seq(Nat) /\ Len(starts) = n
  BY <1>1, NativeTop
<1>4. PICK c \in Nat : c = Top.count
  BY <1>3
<1>5. PICK y \in Nat : y = starts[n]
  BY <1>1, <1>3, ElementOfSeq
<1>6. e = y + c
  BY <1>2, <1>3, <1>4, <1>5 DEF Element
<1>7. FrameDepth(t) \in 0 .. 3 /\ (t # "POINT" => FrameDepth(t) > 0)
  BY Depths DEF FrameDepth
<1>8. n + 1 \in 1 .. 4 /\ (t # "POINT" => n + 1 <= Depth(meta.type))
  <2>1. PICK d \in 0 .. 3 : d = Depth(meta.type)
    BY <1>3
  <2>2. PICK below \in 0 .. 3 : below = FrameDepth(t)
    BY <1>7
  <2>3. n + 1 + below = d + 1
    BY <1>1, <2>1, <2>2
  <2>4. t # "POINT" => below > 0
    BY <1>7, <2>2
  <2>5. n + 1 \in 1 .. 4 /\ (t # "POINT" => n + 1 <= d)
    BY <2>3, <2>4
  <2>6. QED
    BY <2>1, <2>5
<1>9. /\ sz = IF t = "POINT" THEN 1 ELSE ChildSize(n + 1, e)
      /\ s = IF t = "POINT" THEN e ELSE ChildOffset(n + 1, e)
  BY <1>1, <1>2
<1>10. s = Below(n + 1, e) /\ s + sz = Below(n + 1, e + 1)
  <2>1. n + 1 + FrameDepth(t) = Depth(meta.type) + 1 /\ phase # "start" /\ n + 1 \in Nat \ {0}
    BY <1>1
  <2>2. QED
    BY <1>2, <1>3, <1>9, <2>1, Opening
<1>11. s \in Nat /\ sz \in 0 .. MaxParts
  <2>1. Depth(meta.type) \in Nat /\ phase # "start" /\ n + 1 \in Nat \ {0}
    BY <1>3
  <2>2. QED
    BY <1>2, <1>3, <1>8, <1>9, <2>1, ElementFits
<1>12. Frame(t, sz) \in FrameType /\ Frame(t, sz).count = 0 /\ Frame(t, sz).size = sz
  BY <1>11, ReaderAssumption DEF Frame, FrameType, GeometryTypes
<1>13. /\ Len(stack') = n + 1 /\ Top' = Frame(t, sz) /\ stack'[n + 1] = Frame(t, sz)
       /\ \A i \in 1 .. n :
            /\ stack'[i].size = stack[i].size
            /\ stack'[i].count = stack[i].count + (IF i = n THEN 1 ELSE 0)
  BY <1>1, <1>12, Pushed
<1>14. starts'[n + 1] = s /\ \A i \in 1 .. n : starts'[i] = starts[i]
  BY <1>3, AppendProperties
<1>15. FramesRead'
  <2>1. ASSUME NEW i \in 1 .. n + 1
        PROVE  \E d : /\ d = IF i = 1 THEN Row ELSE starts'[i - 1] + stack'[i - 1].count - 1
                      /\ starts'[i] = Below(i, d)
                      /\ starts'[i] + stack'[i].size = Below(i, d + 1)
    <3>1. CASE i = n + 1
      <4>1. i # 1 /\ i - 1 = n /\ n \in 1 .. n
        BY <1>1, <3>1
      <4>2. starts'[i - 1] = y /\ stack'[i - 1].count = c + 1
        BY <1>3, <1>4, <1>5, <1>13, <1>14, <4>1
      <4>3. e = starts'[i - 1] + stack'[i - 1].count - 1
        <5>1. e = y + (c + 1) - 1
          BY <1>6
        <5>2. QED
          BY <4>2, <5>1
      <4>4. starts'[i] = s /\ stack'[i].size = sz
        BY <1>12, <1>13, <1>14, <3>1
      <4>5. QED
        BY <1>10, <3>1, <4>1, <4>3, <4>4
    <3>2. CASE i \in 1 .. n
      <4>1. PICK d : d = ElementAt(i)
        OBVIOUS
      <4>2. starts[i] = Below(i, d) /\ starts[i] + stack[i].size = Below(i, d + 1)
        BY <1>1, <3>2, <4>1 DEF PlacesInv, FramesRead
      <4>3. starts'[i] = starts[i] /\ stack'[i].size = stack[i].size
        BY <1>13, <1>14, <3>2
      <4>4. d = IF i = 1 THEN Row ELSE starts'[i - 1] + stack'[i - 1].count - 1
        <5>1. CASE i = 1
          BY <4>1, <5>1 DEF ElementAt
        <5>2. CASE i # 1
          <6>1. i - 1 \in 1 .. n /\ i - 1 # n /\ i - 1 \in 1 .. Len(stack)
            BY <1>1, <3>2, <5>2
          <6>2. stack[i - 1].count \in Nat
            BY <6>1, TopFrame DEF FrameType
          <6>3. PICK j \in 1 .. n : j = i - 1 /\ j # n
            BY <6>1
          <6>4. PICK m \in Nat : m = stack[j].count
            BY <6>2, <6>3
          <6>5. stack'[j].count = m + 0 /\ starts'[j] = starts[j]
            BY <1>13, <1>14, <6>3, <6>4
          <6>6. stack'[j].count = stack[j].count
            <7>1. m + 0 = m
              OBVIOUS
            <7>2. QED
              BY <6>4, <6>5, <7>1, Zenon
          <6>7. d = starts[j] + stack[j].count - 1
            BY <4>1, <5>2, <6>3, Zenon DEF ElementAt
          <6>8. d = starts'[j] + stack'[j].count - 1
            BY <6>5, <6>6, <6>7
          <6>9. d = starts'[i - 1] + stack'[i - 1].count - 1
            BY <6>3, <6>8, Zenon
          <6>10. QED
            BY <5>2, <6>9
        <5>3. QED
          BY <5>1, <5>2
      <4>5. QED
        BY <4>2, <4>3, <4>4
    <3>3. i = n + 1 \/ i \in 1 .. n
      BY <1>1
    <3>4. QED
      BY <3>1, <3>2, <3>3
  <2>2. QED
    BY <1>13, <2>1, FramesReadNext
<1>16. PICK p : p = Place(n + 1, e)
  OBVIOUS
<1>17. SeenTo(p)
  BY <1>1, <1>3, <1>4, <1>5, <1>6, <1>16 DEF PlacesInv
<1>18. p = Place(n + 2, s)
  <2>1. Len(levels) \in 0 .. 3
    BY <1>3, LevelsAre
  <2>2. Place(n + 1, e) = Place(n + 1 + 1, Below(n + 1, e))
    BY <1>8, <2>1, PlaceBelow
  <2>3. n + 1 + 1 = n + 2
    BY <1>1
  <2>4. QED
    BY <1>10, <1>16, <2>2, <2>3
<1>19. PICK k : k = n + 1
  OBVIOUS
<1>20. k + 1 = n + 2
  BY <1>1, <1>19
<1>21. SeenTo(p)' /\ p = Place(k + 1, s)'
  BY <1>17, <1>18, <1>20, SeenKept, PlacesKept
<1>22. Top'.count = 0 /\ s = starts'[k] + 0 /\ k = Len(stack')
  <2>1. starts'[k] = s /\ k = Len(stack') /\ Top'.count = 0
    BY <1>12, <1>13, <1>14, <1>19
  <2>2. s = s + 0
    BY <1>11
  <2>3. QED
    BY <2>1, <2>2
<1>23. QED
  BY <1>15, <1>21, <1>22, CoordsNext

(* The row that is read has coordinates from a first one on.               *)
LEMMA FirstOfRow ==
  ASSUME ReaderInv, LoopInv, AnnouncedInv, NativeInv, PlacesInv, reader = "native",
         Busy, Row # NA
  PROVE  First(Row) \in Nat /\ First(Row + 1) \in Nat
<1>1. PICK r \in Nat : r = Row /\ r < array.length
  BY RowExists
<1>2. phase # "start"
  BY DEF Busy
<1>3. /\ Depth(meta.type) \in 0 .. 3 /\ array.length \in Nat
  BY <1>2, NativeMeta
<1>4. leaf \in Nat /\ r <= array.length /\ r + 1 <= array.length /\ r + 1 \in Nat
  BY <1>1, <1>3 DEF PlacesInv
<1>5. First(r) \in Nat /\ First(r + 1) \in Nat
  BY <1>2, <1>3, <1>4, FirstIsNat
<1>6. QED
  BY <1>1, <1>5

(* All coordinates of a sequence are passed on in one call.                *)
LEMMA CoordsOfSequence ==
  ASSUME ReaderInv, LoopInv, AnnouncedInv, NativeInv, PlacesInv, reader = "native", NativeCoords
  PROVE  PlacesInv'
<1>1. PICK n \in Nat \ {0} : n = Len(stack)
  BY NativeTop DEF NativeCoords
<1>2. /\ phase = "geometry" /\ Top.type \in OfCoords /\ Top.count < Top.size
      /\ CallCoords(Top.size)
      /\ seen' = seen \o ReadCoords(Element, Top.size)
      /\ UNCHANGED <<levels, leaf, starts, array, filter, slot>>
  BY DEF NativeCoords, OfCoords, loopVars
<1>3. /\ Top = stack[n] /\ Top \in FrameType /\ Top.count \in Nat /\ Top.size \in 0 .. MaxParts
      /\ n + FrameDepth(Top.type) = Depth(meta.type) + 1
      /\ Depth(meta.type) \in 0 .. 3 /\ starts \in Seq(Nat) /\ Len(starts) = n
  BY <1>1, <1>2, NativeTop
<1>4. PICK y \in Nat : y = starts[n]
  BY <1>1, <1>3, ElementOfSeq
<1>5. PICK size \in Nat : size = Top.size
  BY <1>3, ReaderAssumption
<1>6. Top.count = 0
  BY <1>2, <1>3, <1>5 DEF PlacesInv
<1>7. Element = y
  BY <1>3, <1>4, <1>6 DEF Element
<1>8. /\ Len(stack') = n /\ Top' = Counted(Top, size) /\ UNCHANGED reader /\ phase' = "geometry"
      /\ \A i \in 1 .. n :
           /\ stack'[i].size = stack[i].size
           /\ stack'[i].count = stack[i].count + (IF i = n THEN size ELSE 0)
  <2>1. stack' = CountOne(size) /\ UNCHANGED reader /\ phase' = "geometry"
    BY <1>2, <1>5 DEF CallCoords
  <2>2. QED
    BY <1>1, <1>2, <1>5, <2>1, Advanced
<1>9. Top'.count = size /\ Top'.size = size
  BY <1>5, <1>6, <1>8 DEF Counted
<1>10. FramesRead'
  <2>1. ASSUME NEW i \in 1 .. n
        PROVE  \E d : /\ d = IF i = 1 THEN Row ELSE starts'[i - 1] + stack'[i - 1].count - 1
                      /\ starts'[i] = Below(i, d)
                      /\ starts'[i] + stack'[i].size = Below(i, d + 1)
    <3>1. PICK d : d = ElementAt(i)
      OBVIOUS
    <3>2. starts[i] = Below(i, d) /\ starts[i] + stack[i].size = Below(i, d + 1)
      BY <1>1, <1>2, <3>1 DEF PlacesInv, FramesRead
    <3>3. starts' = starts /\ stack'[i].size = stack[i].size
      BY <1>2, <1>8
    <3>4. d = IF i = 1 THEN Row ELSE starts'[i - 1] + stack'[i - 1].count - 1
      <4>1. CASE i = 1
        BY <3>1, <4>1 DEF ElementAt
      <4>2. CASE i # 1
        <5>1. PICK j \in 1 .. n : j = i - 1 /\ j # n
          BY <4>2
        <5>2. PICK m \in Nat : m = stack[j].count
          BY <1>1, <1>2, <5>1, TopFrame DEF FrameType
        <5>3. stack'[j].count = m + 0
          BY <1>8, <5>1, <5>2
        <5>4. stack'[j].count = stack[j].count
          BY <5>2, <5>3
        <5>5. d = starts[j] + stack[j].count - 1
          BY <3>1, <4>2, <5>1, Zenon DEF ElementAt
        <5>6. d = starts'[j] + stack'[j].count - 1
          BY <3>3, <5>4, <5>5
        <5>7. d = starts'[i - 1] + stack'[i - 1].count - 1
          BY <5>1, <5>6, Zenon
        <5>8. QED
          BY <4>2, <5>7
      <4>3. QED
        BY <4>1, <4>2
    <3>5. QED
      BY <3>2, <3>3, <3>4
  <2>2. QED
    BY <1>2, <1>8, <2>1, FramesReadNext
<1>11. n + 1 \in 1 .. 5 /\ n + 1 > Len(levels) /\ Len(levels) \in 0 .. 3
  <2>1. PICK d \in 0 .. 3 : d = Depth(meta.type) /\ d = Len(levels)
    BY <1>2, <1>3, LevelsAre
  <2>2. FrameDepth(Top.type) \in {0, 1}
    BY <1>2 DEF OfCoords, FrameDepth, Depth
  <2>3. PICK below \in {0, 1} : below = FrameDepth(Top.type)
    BY <2>2
  <2>4. n + below = d + 1
    BY <1>3, <2>1, <2>3
  <2>5. n + 1 \in 1 .. 5 /\ n + 1 > d
    BY <2>3, <2>4
  <2>6. QED
    BY <2>1, <2>5
<1>12. \A e : Place(n + 1, e) = leaf + e
  BY <1>11, PlaceOfLeaf
<1>13. PICK k \in Nat : k = Len(seen)
  <2>1. SeenTo(Place(n + 1, starts[n] + Top.count))
    BY <1>1, <1>2 DEF PlacesInv
  <2>2. QED
    BY <2>1, LenProperties DEF SeenTo
<1>14. PICK f : f = First(Row)
  OBVIOUS
<1>15. /\ leaf \in Nat /\ seen \in Seq(Int) /\ leaf + y = f + k
       /\ \A i \in 1 .. k : seen[i] = f + i - 1
  <2>1. SeenTo(Place(n + 1, starts[n] + Top.count)) /\ leaf \in Nat
    BY <1>1, <1>2 DEF PlacesInv
  <2>2. starts[n] + Top.count = y
    BY <1>4, <1>6
  <2>3. SeenTo(leaf + y)
    BY <1>12, <2>1, <2>2
  <2>4. QED
    BY <1>13, <1>14, <2>1, <2>3 DEF SeenTo
<1>16. PICK more : more = ReadCoords(y, size)
  OBVIOUS
<1>17. /\ more \in Seq(Int) /\ Len(more) = size
        /\ \A i \in 1 .. size : more[i] = y + leaf + i - 1
  <2>1. more = [i \in 1 .. size |-> y + leaf + i - 1]
    BY <1>16 DEF ReadCoords
  <2>2. \A i \in 1 .. size : y + leaf + i - 1 \in Int
    BY <1>15
  <2>3. more \in [1 .. size -> Int]
    BY <2>1, <2>2
  <2>4. QED
    BY <2>1, <2>3
<1>18. /\ seen' \in Seq(Int) /\ Len(seen') = k + size
       /\ \A i \in 1 .. k + size : seen'[i] = IF i <= k THEN seen[i] ELSE more[i - k]
  <2>1. seen' = seen \o more
    BY <1>2, <1>5, <1>7, <1>16
  <2>2. seen \in Seq(Int) /\ more \in Seq(Int) /\ Len(seen) = k /\ Len(more) = size
    BY <1>13, <1>15, <1>17
  <2>3. /\ seen \o more \in Seq(Int) /\ Len(seen \o more) = Len(seen) + Len(more)
        /\ \A i \in 1 .. Len(seen) + Len(more) :
             (seen \o more)[i] = IF i <= Len(seen) THEN seen[i] ELSE more[i - Len(seen)]
    BY <2>2, ConcatProperties
  <2>4. QED
    BY <2>1, <2>2, <2>3
<1>19. f \in Nat
  <2>1. Busy /\ Row # NA
    BY <1>2 DEF Busy, LoopInv
  <2>2. QED
    BY <1>14, <2>1, FirstOfRow
<1>20. \A i \in 1 .. k + size : seen'[i] = f + i - 1
  <2> TAKE i \in 1 .. k + size
  <2>1. CASE i <= k
    <3>1. i \in 1 .. k
      BY <2>1
    <3>2. QED
      BY <1>15, <1>18, <2>1, <3>1
  <2>2. CASE ~(i <= k)
    <3>1. PICK j \in 1 .. size : j = i - k
      BY <2>2
    <3>2. seen'[i] = more[j]
      BY <1>18, <2>2, <3>1
    <3>3. more[j] = y + leaf + j - 1
      BY <1>17
    <3>4. y + leaf + j - 1 = f + i - 1
      BY <1>15, <1>19, <3>1
    <3>5. QED
      BY <3>2, <3>3, <3>4
  <2>3. QED
    BY <2>1, <2>2
<1>21. PICK p : p = leaf + (y + size)
  OBVIOUS
<1>22. First(Row)' = f
  <2>1. PICK r : r = Row
    OBVIOUS
  <2>2. Row' = r /\ First(r)' = First(r)
    BY <1>2, <2>1, PlacesKept
  <2>3. QED
    BY <1>14, <2>1, <2>2
<1>23. SeenTo(p)'
  <2>1. p = f + (k + size)
    BY <1>15, <1>19, <1>21
  <2>2. QED
    BY <1>18, <1>20, <1>22, <2>1 DEF SeenTo
<1>24. PICK x : x = y + size
  OBVIOUS
<1>25. x = starts'[n] + size
  BY <1>2, <1>4, <1>24
<1>26. p = Place(n + 1, x)'
  BY <1>2, <1>12, <1>21, <1>24, PlacesKept
<1>27. UNCHANGED leaf /\ (Top'.type \in OfCoords => size \in {0, Top'.size})
  BY <1>2, <1>9
<1>28. QED
  BY <1>8, <1>9, <1>10, <1>23, <1>25, <1>26, <1>27, CoordsNext

(* A part, a ring or a geometry was read to its end, where the next begins.*)
LEMMA CoordsOfEnd ==
  ASSUME ReaderInv, NestInv, LoopInv, AnnouncedInv, NativeInv, PlacesInv, reader = "native",
         NativeEnd
  PROVE  PlacesInv'
<1>1. PICK n \in Nat \ {0} : n = Len(stack)
  BY NativeTop DEF NativeEnd
<1>2. /\ phase = "geometry" /\ Top.count = Top.size /\ CallEnd
      /\ starts' = SubSeq(starts, 1, n - 1)
      /\ UNCHANGED <<levels, leaf, seen, array, filter, slot>>
  <2>1. Len(starts) = n
    BY <1>1, NativeTop DEF NativeEnd
  <2>2. QED
    BY <2>1 DEF NativeEnd, loopVars
<1>3. /\ Top = stack[n] /\ Depth(meta.type) \in 0 .. 3 /\ starts \in Seq(Nat) /\ Len(starts) = n
      /\ Top.type \in GeometryTypes \cup {"RING"} /\ Top.type # "GEOMETRYCOLLECTION"
      /\ n + FrameDepth(Top.type) = Depth(meta.type) + 1
  <2>1. n \in 1 .. Len(stack) /\ phase # "start"
    BY <1>1, <1>2
  <2>2. Top = stack[n] /\ Top.type # "GEOMETRYCOLLECTION"
    BY <1>1, <1>2, <2>1, NativeTop, NativeMeta
  <2>3. QED
    BY <1>1, <1>2, <2>2, NativeTop DEF FrameType
<1>4. /\ UNCHANGED reader /\ Len(stack') = n - 1
      /\ \A i \in 1 .. n - 1 : stack'[i] = stack[i]
      /\ phase' = IF n = 1 THEN "closing" ELSE "geometry"
      /\ n > 1 => Top' = stack[n - 1]
  BY <1>1, <1>2, Closed DEF CallEnd
<1>5. PICK e : e = ElementAt(n)
  OBVIOUS
<1>6. PICK next : next = e + 1
  OBVIOUS
<1>7. PICK p : p = Place(n, next)
  OBVIOUS
<1>8. SeenTo(p)
  <2>1. SeenTo(Place(n + 1, starts[n] + stack[n].size))
    BY <1>1, <1>2, <1>3 DEF PlacesInv
  <2>2. starts[n] + stack[n].size = Below(n, next)
    BY <1>1, <1>2, <1>5, <1>6 DEF PlacesInv, FramesRead
  <2>3. n \in 1 .. 4
    <3>1. FrameDepth(Top.type) \in 0 .. 3
      <4>1. Top.type = "RING" \/ Top.type \in SimpleTypes \cup MultiTypes
        BY <1>3 DEF GeometryTypes
      <4>2. QED
        BY <4>1, Depths DEF FrameDepth
    <3>2. QED
      BY <1>3, <3>1
  <2>4. Len(levels) \in 0 .. 3
    BY <1>2, <1>3, LevelsAre
  <2>5. Place(n, next) = Place(n + 1, Below(n, next))
    BY <2>3, <2>4, PlaceBelow
  <2>6. QED
    BY <1>7, <2>1, <2>2, <2>5
<1>9. SeenTo(p)'
  BY <1>2, <1>8, SeenKept
<1>10. CASE n = 1
  <2>1. p = First(Row + 1)
    BY <1>5, <1>6, <1>7, <1>10 DEF ElementAt, Place
  <2>2. PICK r : r = Row + 1
    OBVIOUS
  <2>3. Row' = Row /\ First(r)' = First(r)
    BY <1>2, PlacesKept
  <2>4. First(Row + 1)' = p
    BY <2>1, <2>2, <2>3
  <2>5. SeenTo(First(Row + 1))'
    BY <1>9, <2>4
  <2>6. phase' = "closing" /\ leaf' \in Nat
    BY <1>2, <1>4, <1>10 DEF PlacesInv
  <2>7. QED
    BY <1>4, <2>5, <2>6 DEF PlacesInv
<1>11. CASE n > 1
  <2>1. PICK m \in Nat \ {0} : n = m + 1
    BY <1>11
  <2>2. m = n - 1 /\ m \in 1 .. n - 1 /\ m + 1 = n
    BY <2>1
  <2>3. \A i \in 1 .. m : starts'[i] = starts[i] /\ stack'[i] = stack[i]
    <3>1. m \in Nat /\ m <= Len(starts) /\ starts' = SubSeq(starts, 1, m)
      BY <1>2, <1>3, <2>1, <2>2
    <3>2. \A i \in 1 .. m : starts'[i] = starts[i]
      <4>1. \A i \in 1 .. m : starts[i] \in Nat
        BY <1>3, <3>1, ElementOfSeq
      <4>2. QED
        BY <1>3, <3>1, <4>1
    <3>3. QED
      BY <1>4, <2>2, <3>2
  <2>4. Len(stack') = m /\ Top' = stack[m] /\ phase' = "geometry"
    BY <1>4, <1>11, <2>2
  <2>5. FramesRead'
    <3>1. ASSUME NEW i \in 1 .. m
          PROVE  \E d : /\ d = IF i = 1 THEN Row ELSE starts'[i - 1] + stack'[i - 1].count - 1
                        /\ starts'[i] = Below(i, d)
                        /\ starts'[i] + stack'[i].size = Below(i, d + 1)
      <4>1. PICK d : d = ElementAt(i)
        OBVIOUS
      <4>2. starts[i] = Below(i, d) /\ starts[i] + stack[i].size = Below(i, d + 1)
        <5>1. i \in 1 .. Len(stack)
          BY <1>1, <2>1
        <5>2. QED
          BY <1>2, <4>1, <5>1 DEF PlacesInv, FramesRead
      <4>3. starts'[i] = starts[i] /\ stack'[i] = stack[i]
        BY <2>3
      <4>4. d = IF i = 1 THEN Row ELSE starts'[i - 1] + stack'[i - 1].count - 1
        <5>1. CASE i = 1
          BY <4>1, <5>1 DEF ElementAt
        <5>2. CASE i # 1
          <6>1. PICK j \in 1 .. m : j = i - 1
            BY <5>2
          <6>2. d = starts[j] + stack[j].count - 1
            BY <4>1, <5>2, <6>1, Zenon DEF ElementAt
          <6>3. d = starts'[j] + stack'[j].count - 1
            BY <2>3, <6>2
          <6>4. d = starts'[i - 1] + stack'[i - 1].count - 1
            BY <6>1, <6>3, Zenon
          <6>5. QED
            BY <5>2, <6>4
        <5>3. QED
          BY <5>1, <5>2
      <4>5. QED
        BY <4>2, <4>3, <4>4
    <3>2. QED
      BY <1>2, <2>4, <3>1, FramesReadNext
  <2>6. Top'.type \notin OfCoords
    BY <1>1, <1>2, <2>2, <2>4, OuterFrames
  <2>7. PICK c \in Nat : c = stack[m].count
    <3>1. m \in 1 .. Len(stack)
      BY <1>1, <2>1
    <3>2. QED
      BY <1>2, <3>1, TopFrame DEF FrameType
  <2>8. PICK y \in Nat : y = starts[m]
    <3>1. m \in 1 .. Len(starts)
      BY <1>3, <2>1
    <3>2. QED
      BY <1>3, <3>1, ElementOfSeq
  <2>9. next = y + c
    <3>1. e = starts[m] + stack[m].count - 1
      <4>1. n # 1
        BY <1>11
      <4>2. QED
        BY <1>5, <2>2, <4>1, Zenon DEF ElementAt
    <3>2. e = y + c - 1
      BY <2>7, <2>8, <3>1
    <3>3. QED
      BY <1>6, <3>2
  <2>10. c = Top'.count /\ next = starts'[m] + c
    BY <2>2, <2>3, <2>4, <2>7, <2>8, <2>9
  <2>11. p = Place(m + 1, next)'
    BY <1>2, <1>7, <2>2, PlacesKept
  <2>12. m = Len(stack') /\ UNCHANGED leaf
    BY <1>2, <2>4
  <2>13. QED
    BY <1>4, <1>9, <2>4, <2>5, <2>6, <2>10, <2>11, <2>12, CoordsNext
<1>12. QED
  BY <1>10, <1>11

(* A part of a multi-geometry.                                             *)
LEMMA CoordsOfNativePart ==
  ASSUME ReaderInv, LoopInv, AnnouncedInv, NativeInv, PlacesInv, reader = "native", NativePart
  PROVE  PlacesInv'
<1>1. PICK t, sz, s :
        /\ t = PartOf(Top.type)
        /\ sz = IF t = "POINT" THEN 1 ELSE ChildSize(Len(stack) + 1, Element)
        /\ s = IF t = "POINT" THEN Element ELSE ChildOffset(Len(stack) + 1, Element)
  OBVIOUS
<1>2. /\ phase = "geometry" /\ Top.type \in MultiTypes /\ Top.count < Top.size
      /\ CallGeomStart(t, sz) /\ starts' = Append(starts, s)
      /\ UNCHANGED <<dim, levels, leaf, seen, array, filter, slot, announced>>
  BY <1>1 DEF NativePart, NativeOpen, loopVars
<1>3. /\ Len(stack) \in Nat \ {0} /\ Len(stack) + FrameDepth(Top.type) = Depth(meta.type) + 1
      /\ Depth(meta.type) \in 0 .. 3
  BY <1>2, NativeTop
<1>4. Top.type # "POINT"
  BY <1>2 DEF MultiTypes
<1>5. /\ t \in SimpleTypes /\ FrameDepth(t) = FrameDepth(Top.type) - 1
      /\ FrameDepth(Top.type) \in 0 .. 3
  BY <1>1, <1>2, Depths
<1>6. Len(stack) + 1 + FrameDepth(t) = Depth(meta.type) + 1
  BY <1>3, <1>5
<1>7. stack # << >>
  BY <1>2, TopFrame
<1>8. phase' = "geometry" /\ UNCHANGED reader /\ stack' = Append(CountOne(1), Frame(t, sz))
  BY <1>2, <1>7 DEF CallGeomStart
<1>9. t \in SimpleTypes \cup {"RING"}
  BY <1>5
<1>10. QED
  BY <1>1, <1>2, <1>4, <1>6, <1>8, <1>9, CoordsOfPart

(* A ring of a polygon.                                                    *)
LEMMA CoordsOfRing ==
  ASSUME ReaderInv, LoopInv, AnnouncedInv, NativeInv, PlacesInv, reader = "native", NativeRing
  PROVE  PlacesInv'
<1>1. PICK t, sz, s :
        /\ t = "RING" /\ sz = ChildSize(Len(stack) + 1, Element)
        /\ s = ChildOffset(Len(stack) + 1, Element)
  OBVIOUS
<1>2. /\ phase = "geometry" /\ Top.type = "POLYGON" /\ Top.count < Top.size
      /\ CallRingStart(sz) /\ starts' = Append(starts, s)
      /\ UNCHANGED <<levels, leaf, seen, array, filter, slot, announced>>
  BY <1>1 DEF NativeRing, loopVars
<1>3. /\ Len(stack) \in Nat \ {0} /\ Len(stack) + FrameDepth(Top.type) = Depth(meta.type) + 1
      /\ Depth(meta.type) \in 0 .. 3
  BY <1>2, NativeTop
<1>4. FrameDepth(Top.type) = 2 /\ FrameDepth(t) = 1
  BY <1>1, <1>2 DEF FrameDepth, Depth
<1>5. Len(stack) + 1 + FrameDepth(t) = Depth(meta.type) + 1
  BY <1>3, <1>4
<1>6. phase' = "geometry" /\ UNCHANGED reader /\ stack' = Append(CountOne(1), Frame(t, sz))
  BY <1>1, <1>2 DEF CallRingStart
<1>7. /\ sz = IF t = "POINT" THEN 1 ELSE ChildSize(Len(stack) + 1, Element)
      /\ s = IF t = "POINT" THEN Element ELSE ChildOffset(Len(stack) + 1, Element)
      /\ t \in SimpleTypes \cup {"RING"} /\ Top.type # "POINT"
  BY <1>1, <1>2
<1>8. QED
  BY <1>2, <1>5, <1>6, <1>7, CoordsOfPart

(***************************************************************************)
(* The other steps leave the coordinates alone, or end the feature.        *)
(***************************************************************************)

(* Between rows, and null rows.                                            *)
LEMMA CoordsIterate ==
  ASSUME PlacesInv, NEW r \in Results, NextRow \/ ReadNull(r) \/ EndArray \/ ArrayAborted,
         UNCHANGED nativeVars
  PROVE  PlacesInv'
<1>1. UNCHANGED <<leaf, seen>>
  BY DEF nativeVars
<1>2. CASE NextRow
  <2>1. UNCHANGED reader /\ phase = "between" /\ phase' \in {"between", "feature"}
    BY <1>2 DEF NextRow
  <2>2. QED
    BY <1>1, <2>1, CoordsRest DEF PlacesInv
<1>3. CASE ReadNull(r)
  <2>1. /\ UNCHANGED <<reader, array, filter, slot>> /\ phase = "feature"
        /\ phase' \in {"closing", "between", "read", "failed"}
        /\ Row = NA \/ IsNull(Row)
    BY <1>3 DEF ReadNull, NullFeat, Unwind, EndFeature, loopVars
  <2>2. Row' = NA \/ IsNull(Row)'
    BY <2>1, SameRow
  <2>3. QED
    BY <1>1, <2>1, <2>2, CoordsRest DEF PlacesInv
<1>4. CASE EndArray \/ ArrayAborted
  <2>1. UNCHANGED reader /\ phase' = "read"
    BY <1>4 DEF EndArray, ArrayAborted, ReadDone
  <2>2. QED
    BY <1>1, <2>1, CoordsRest
<1>5. QED
  BY <1>2, <1>3, <1>4

(* The offset of the points is that of the array, or one of its own.       *)
LEMMA CoordsBegin ==
  ASSUME PlacesInv, array.offset \in Nat, ReadDescribed
  PROVE  PlacesInv'
<1>1. UNCHANGED <<reader, seen>> /\ phase = "start" /\ phase' = "between" /\ reader = "native"
  BY DEF ReadDescribed, NativeBegin, Begin, ReadMeta
<1>2. leaf' \in Nat
  <2>1. leaf' \in IF levels' = << >> THEN {array.offset} ELSE LeafOffsets
    BY DEF ReadDescribed, NativeBegin
  <2>2. QED
    BY <2>1, LeafAssumption
<1>3. QED
  BY <1>1, <1>2 DEF PlacesInv

(* A feature ends, or is given up.                                         *)
LEMMA CoordsReset ==
  ASSUME ReaderInv, LoopInv, AnnouncedInv, PlacesInv, NEW r \in Results,
         EndRow \/ GivesUp(r), NativeReset
  PROVE  PlacesInv'
<1>1. UNCHANGED reader /\ phase' \in {"between", "read", "failed"}
  BY RowEnds
<1>2. seen' = << >> /\ UNCHANGED leaf
  BY DEF NativeReset
<1>3. QED
  BY <1>1, <1>2, CoordsRest

(* Steps of the cast around the reader.                                    *)
LEMMA CoordsStay ==
  ASSUME PlacesInv, UNCHANGED <<readerVars, loopVars, nativeVars>>
  PROVE  PlacesInv'
<1>1. /\ UNCHANGED <<reader, phase, stack>> /\ UNCHANGED <<array, filter, slot>>
      /\ UNCHANGED <<levels, leaf, starts, seen>>
  BY DEF readerVars, loopVars, nativeVars
<1>2. CASE reader = "native" /\ phase = "geometry"
  <2>1. PICK n, c, x, p : /\ n = Len(stack) /\ c = Top.count /\ x = starts[n] + c
                          /\ p = Place(n + 1, x)
    OBVIOUS
  <2>2. FramesRead /\ (Top.type \in OfCoords => c \in {0, Top.size}) /\ SeenTo(p)
    BY <1>2, <2>1 DEF PlacesInv
  <2>3. FramesRead'
    <3>1. Row' = Row /\ \A l, e : Below(l, e)' = Below(l, e)
      BY <1>1, PlacesKept
    <3>2. QED
      BY <1>1, <2>2, <3>1 DEF FramesRead, ElementAt
  <2>4. SeenTo(p)' /\ p = Place(n + 1, x)'
    BY <1>1, <2>1, <2>2, SeenKept, PlacesKept
  <2>5. /\ n = Len(stack') /\ c = Top'.count /\ x = starts'[n] + c
        /\ Top'.type \in OfCoords => c \in {0, Top'.size}
        /\ UNCHANGED <<reader, leaf>> /\ phase' = "geometry"
    BY <1>1, <1>2, <2>1, <2>2 DEF Top
  <2>6. QED
    BY <2>3, <2>4, <2>5, CoordsNext
<1>3. CASE reader = "native" /\ phase = "closing" /\ Row # NA /\ ~IsNull(Row)
  <2>1. PICK r, p : r = Row + 1 /\ p = First(r)
    OBVIOUS
  <2>2. SeenTo(p)
    BY <1>3, <2>1 DEF PlacesInv
  <2>3. Row' = Row /\ First(r)' = p
    BY <1>1, <2>1, PlacesKept
  <2>4. First(Row + 1)' = p
    BY <2>1, <2>3
  <2>5. SeenTo(First(Row + 1))'
    BY <1>1, <2>2, <2>4, SeenKept
  <2>6. QED
    BY <1>1, <1>3, <2>5 DEF PlacesInv
<1>4. CASE ~(/\ reader = "native"
             /\ phase = "geometry" \/ (phase = "closing" /\ Row # NA /\ ~IsNull(Row)))
  <2>1. Row' = Row /\ (IsNull(Row)' <=> IsNull(Row))
    BY <1>1, SameRow
  <2>2. QED
    BY <1>1, <1>4, <2>1 DEF PlacesInv
<1>5. QED
  BY <1>2, <1>3, <1>4

(* The coordinates passed on are kept track of by every step.              *)
LEMMA CoordsStep ==
  ASSUME IInv, PlacesInv, [Next]_vars
  PROVE  PlacesInv'
<1>1. ReaderInv /\ NestInv /\ LoopInv /\ AnnouncedInv /\ NativeInv
  BY DEF IInv
<1>2. "CONTINUE" \in Results
  BY DEF Results
<1>3. CASE Iterate
  <2>1. PICK r \in Results : NextRow \/ ReadNull(r) \/ EndArray
    BY <1>3 DEF Iterate, Results
  <2>2. UNCHANGED nativeVars
    BY <1>3 DEF Iterate
  <2>3. QED
    BY <2>1, <2>2, CoordsIterate
<1>4. CASE ReadDescribed
  <2>1. array.offset \in Nat
    <3>1. array \in Arrays
      BY <1>1 DEF LoopInv
    <3>2. PICK n \in 0 .. MaxRows, o \in Offsets : array \in Sliced(n, o)
      BY <3>1 DEF Arrays
    <3>3. array.offset = o
      BY <3>2 DEF Sliced
    <3>4. QED
      BY <3>3, LoopAssumption
  <2>2. QED
    BY <1>4, <2>1, CoordsBegin
<1>5. CASE NativeNext
  BY <1>1, <1>2, <1>5, CoordsOfRoot, CoordsOfNativePart, CoordsOfRing, CoordsOfSequence,
     CoordsOfEnd, CoordsReset DEF NativeNext
<1>6. CASE (WKBNext \/ WKTNext) /\ UNCHANGED nativeVars
  <2>1. reader # "native" /\ leaf' = leaf
    BY <1>6 DEF WKBNext, WKTNext, nativeVars
  <2>2. reader' = reader
    BY IInvStep, ReaderKept
  <2>3. QED
    BY <2>1, <2>2 DEF PlacesInv
<1>7. CASE Stopped
  <2>1. ArrayAborted /\ UNCHANGED nativeVars
    BY <1>7 DEF Stopped
  <2>2. QED
    BY <1>2, <2>1, CoordsIterate
<1>8. CASE UNCHANGED <<readerVars, loopVars, nativeVars>>
  BY <1>8, CoordsStay
<1>9. QED
  BY <1>3, <1>4, <1>5, <1>6, <1>7, <1>8 DEF Next, Progress, Read, vars

(* When a native view has read a row, each of its coordinates was passed   *)
(* on once, in order, and nothing else was, whatever the offsets of the    *)
(* array and of its children, of any depth and length: the loops of        *)
(* array-view-geoarrow.hpp:97-169 with the additions of child_offset() and *)
(* read_coords().                                                          *)
THEOREM CoordsReadExactly == Spec => []CoordsExact
<1>1. Init => PlacesInv
  <2> SUFFICES ASSUME Init PROVE PlacesInv
    OBVIOUS
  <2>1. leaf = 0 /\ seen = << >>
    BY DEF Init, NativeInit
  <2>2. phase = "start"
    BY DEF Init, LoopInit, ReaderInit
  <2>3. QED
    BY <2>1, <2>2 DEF PlacesInv
<1>2. IInv /\ PlacesInv /\ [Next]_vars => PlacesInv'
  BY CoordsStep
<1>3. ASSUME IInv, PlacesInv PROVE CoordsExact
  <2> SUFFICES ASSUME reader = "native", phase = "closing", Row # NA, ~IsNull(Row)
               PROVE  seen = [k \in 1 .. First(Row + 1) - First(Row) |-> First(Row) + k - 1]
    BY DEF CoordsExact
  <2>1. PICK f \in Nat, next \in Nat : f = First(Row) /\ next = First(Row + 1)
    BY <1>3, FirstOfRow DEF IInv, Busy
  <2>2. /\ seen \in Seq(Int) /\ next = f + Len(seen)
        /\ \A k \in 1 .. Len(seen) : seen[k] = f + k - 1
    BY <1>3, <2>1 DEF PlacesInv, SeenTo
  <2>3. PICK n \in Nat : n = Len(seen)
    BY <2>2, LenProperties
  <2>4. n = next - f
    BY <2>2, <2>3
  <2>5. seen = [k \in 1 .. n |-> seen[k]]
    BY <2>2, <2>3
  <2>6. seen = [k \in 1 .. n |-> f + k - 1]
    BY <2>2, <2>3, <2>5
  <2>7. QED
    BY <2>1, <2>4, <2>6
<1>4. QED
  BY <1>1, <1>2, <1>3, IInvInit, IInvStep, PTL DEF Spec

(***************************************************************************)
(* What schemas mean: the recursive function Metas, and the grammar        *)
(***************************************************************************)

(* A set of numbers that has 0, and with each number the next one, has     *)
(* them all.                                                               *)
LEMMA NatSet ==
  ASSUME NEW S, 0 \in S, \A n \in Nat : n \in S => n + 1 \in S
  PROVE  Nat \subseteq S
<1> DEFINE T == Nat \ S
           R == OpToRel(<, Nat)
<1>1. SUFFICES ASSUME T # {} PROVE FALSE
  OBVIOUS
<1>2. IsWellFoundedOn(R, Nat) /\ T \subseteq Nat
  BY NatLessThanWellFounded
<1>3. PICK x \in T : \A y \in T : ~(<<y, x>> \in R)
  <2> HIDE DEF R, T
  <2>1. QED
    BY <1>1, <1>2, WFMin
<1>4. x \in Nat /\ x \notin S /\ x # 0
  OBVIOUS
<1>5. x - 1 \in Nat /\ x - 1 + 1 = x
  BY <1>4
<1>6. x - 1 \in T /\ <<x - 1, x>> \in R
  BY <1>4, <1>5 DEF OpToRel
<1>7. QED
  BY <1>3, <1>6

(* The extensions there are.                                               *)
LEMMA ExtensionIs ==
  ASSUME NEW n
  PROVE  Extension(n) \in {"Point", "Linestring", "Polygon"} \cup Collecting \cup Plain
<1> DEFINE known == {e \in DOMAIN Prefixed : n.ext \in Prefixed[e]}
<1>1. DOMAIN Prefixed = {"Point", "Linestring", "Polygon"} \cup Collecting \cup {"WKB", "WKT"}
  BY DEF Prefixed, Collecting
<1>2. Extension(n) = IF n.ext = Unnamed THEN "None"
                     ELSE IF known = {} THEN "Other" ELSE CHOOSE e \in known : TRUE
  BY DEF Extension
<1>3. known # {} => (CHOOSE e \in known : TRUE) \in known
  OBVIOUS
<1>4. known \subseteq DOMAIN Prefixed
  OBVIOUS
<1> HIDE DEF known
<1>5. PICK x : x = CHOOSE e \in known : TRUE
  OBVIOUS
<1>6. known # {} => x \in DOMAIN Prefixed
  BY <1>3, <1>4, <1>5
<1>7. Extension(n) \in {"None", "Other", x} /\ (Extension(n) = x => known # {} \/ x \in Plain)
  BY <1>2, <1>5 DEF Plain
<1>8. QED
  BY <1>1, <1>6, <1>7 DEF Plain

(* What a level is valid as.                                               *)
LEMMA LevelIs ==
  ASSUME NEW s, NEW m, NEW i,
         NEW e, e = Extension(s[i]), ContainerValid(s[i]),
         NEW child, child = IF s[i].kids = 0 THEN Invalid ELSE m[i + 1]
  PROVE  /\ e = "Point" =>
              LevelMeta(s, m, i) =
                IF /\ s[i].format = "+w" /\ s[i].width = NameLength(s[i + 1].name)
                   /\ child # Invalid /\ s[i + 1].format = "g"
                THEN Valid(e, "POINT", DimOf(s[i + 1].name)) ELSE Invalid
         /\ e = "Linestring" =>
              LevelMeta(s, m, i) =
                IF s[i].format = "+l" /\ child # Invalid /\ child.ext = "Point"
                THEN Valid(e, "LINESTRING", child.dim) ELSE Invalid
         /\ e = "Polygon" =>
              LevelMeta(s, m, i) =
                IF /\ s[i].format = "+l" /\ child # Invalid
                   /\ s[i + 1].format = "+l" /\ m[i + 2].ext = "Point"
                THEN Valid(e, "POLYGON", m[i + 2].dim) ELSE Invalid
         /\ e \in Collecting =>
              LevelMeta(s, m, i) =
                IF s[i].format = "+l" /\ child # Invalid /\ child.ext \in DOMAIN MultiOf
                THEN Valid(e, MultiOf[child.ext], child.dim) ELSE Invalid
         /\ e \in Plain => LevelMeta(s, m, i) = Valid(e, "UNKNOWN", "UNKNOWN")
<1> USE DEF LevelMeta
<1>1. ASSUME e = "Point"
      PROVE  LevelMeta(s, m, i) =
               IF /\ s[i].format = "+w" /\ s[i].width = NameLength(s[i + 1].name)
                  /\ child # Invalid /\ s[i + 1].format = "g"
               THEN Valid(e, "POINT", DimOf(s[i + 1].name)) ELSE Invalid
  BY <1>1 DEF Plain, Collecting
<1>2. ASSUME e = "Linestring"
      PROVE  LevelMeta(s, m, i) =
               IF s[i].format = "+l" /\ child # Invalid /\ child.ext = "Point"
               THEN Valid(e, "LINESTRING", child.dim) ELSE Invalid
  BY <1>2 DEF Plain, Collecting
<1>3. ASSUME e = "Polygon"
      PROVE  LevelMeta(s, m, i) =
               IF /\ s[i].format = "+l" /\ child # Invalid
                   /\ s[i + 1].format = "+l" /\ m[i + 2].ext = "Point"
               THEN Valid(e, "POLYGON", m[i + 2].dim) ELSE Invalid
  BY <1>3 DEF Plain, Collecting
<1>4. ASSUME e \in Collecting
      PROVE  LevelMeta(s, m, i) =
               IF s[i].format = "+l" /\ child # Invalid /\ child.ext \in DOMAIN MultiOf
               THEN Valid(e, MultiOf[child.ext], child.dim) ELSE Invalid
  <2>1. e \notin Plain \cup {"Point", "Linestring", "Polygon"}
    BY <1>4 DEF Collecting, Plain
  <2>2. QED
    BY <1>4, <2>1
<1>5. ASSUME e \in Plain PROVE LevelMeta(s, m, i) = Valid(e, "UNKNOWN", "UNKNOWN")
  BY <1>5
<1>6. QED
  BY <1>1, <1>2, <1>3, <1>4, <1>5

(* A level of a schema is the last, or has a child.                        *)
LEMMA SchemaLevels ==
  ASSUME NEW s, IsSchema(s)
  PROVE  \E w \in Nat \ {0} :
           /\ w = Len(s) /\ 1 .. Len(s) = 1 .. w
           /\ \A i \in 1 .. w :
                /\ i < w => s[i].kids # 0 /\ i + 1 \in 1 .. w
                /\ i >= w => s[i].kids = 0
<1>1. s # << >> /\ s \in Seq({s[i] : i \in DOMAIN s})
  BY DEF IsSchema
<1>2. PICK w \in Nat \ {0} : w = Len(s)
  BY <1>1, LenProperties, EmptySeq
<1>3. ASSUME NEW i \in 1 .. w
      PROVE  /\ i < w => s[i].kids # 0 /\ i + 1 \in 1 .. w
             /\ i >= w => s[i].kids = 0
  <2>1. s[i].kids \in Nat /\ (s[i].kids > 0 <=> i < w)
    BY <1>2 DEF IsSchema
  <2>2. QED
    BY <2>1
<1>4. w = Len(s) /\ 1 .. Len(s) = 1 .. w
  BY <1>2
<1>5. QED
  BY <1>3, <1>4

(* A list that has no child is invalid.                                    *)
LEMMA LastIsNoList ==
  ASSUME NEW s, NEW m, NEW i, s[i].kids = 0, s[i].format = "+l"
  PROVE  LevelMeta(s, m, i) = Invalid
<1>1. ~ContainerValid(s[i])
  BY DEF ContainerValid
<1>2. QED
  BY <1>1 DEF LevelMeta

(* What a level means depends only on what the levels below it do.         *)
LEMMA LevelAgrees ==
  ASSUME NEW s, IsSchema(s), NEW f, NEW g, NEW i \in 1 .. Len(s),
         \A j \in i + 1 .. Len(s) : f[j] = g[j] /\ f[j] = LevelMeta(s, f, j)
  PROVE  LevelMeta(s, f, i) = LevelMeta(s, g, i)
<1>1. PICK w \in Nat \ {0} :
        /\ w = Len(s) /\ 1 .. Len(s) = 1 .. w
        /\ \A l \in 1 .. w :
             /\ l < w => s[l].kids # 0 /\ l + 1 \in 1 .. w
             /\ l >= w => s[l].kids = 0
  BY SchemaLevels
<1>2. s[i].kids # 0 => f[i + 1] = g[i + 1] /\ f[i + 1] = LevelMeta(s, f, i + 1)
  BY <1>1
<1>3. CASE s[i].kids # 0 /\ f[i + 2] # g[i + 2]
  <2>1. PICK n \in 1 .. w : n = i + 1
    BY <1>1, <1>3
  <2>2. s[n].kids = 0
    <3>1. i + 2 \notin i + 1 .. w
      BY <1>1, <1>3
    <3>2. n >= w
      BY <1>1, <2>1, <3>1
    <3>3. QED
      BY <1>1, <3>2
  <2>3. s[n].format = "+l" => f[n] = Invalid
    BY <1>2, <1>3, <2>1, <2>2, LastIsNoList
  <2>4. f[i + 1] = g[i + 1] /\ (s[i + 1].format = "+l" => f[i + 1] = Invalid)
    BY <1>2, <1>3, <2>1, <2>3
  <2>5. QED
    BY <1>3, <2>4 DEF LevelMeta
<1>4. CASE s[i].kids = 0
  BY <1>4 DEF LevelMeta
<1>5. CASE f[i + 1] = g[i + 1] /\ f[i + 2] = g[i + 2]
  BY <1>5 DEF LevelMeta
<1>6. QED
  BY <1>2, <1>3, <1>4, <1>5

(* Meta means the levels of a schema from the last one up.                 *)
LEMMA MetasIs ==
  ASSUME NEW s, IsSchema(s)
  PROVE  \A i \in 1 .. Len(s) : Metas(s)[i] = LevelMeta(s, Metas(s), i)
<1>1. PICK w \in Nat \ {0} : w = Len(s) /\ 1 .. Len(s) = 1 .. w
  BY SchemaLevels
<1> DEFINE Good(f, n) ==
             /\ f = [j \in 1 .. w |-> f[j]]
             /\ \A j \in w - n + 1 .. w : f[j] = LevelMeta(s, f, j)
           S == {n \in Nat : n <= w => \E f : Good(f, n)}
<1>2. 0 \in S
  <2>1. Good([j \in 1 .. w |-> Invalid], 0)
    OBVIOUS
  <2> HIDE DEF Good
  <2>2. QED
    BY <2>1
<1>3. ASSUME NEW n \in Nat, n \in S PROVE n + 1 \in S
  <2>1. ASSUME n + 1 <= w PROVE \E f : Good(f, n + 1)
    <3>1. PICK f : Good(f, n)
      <4> HIDE DEF Good
      <4>1. n <= w
        BY <2>1
      <4>2. QED
        BY <1>3, <4>1
    <3>2. PICK k \in 1 .. w : k = w - n
      BY <2>1
    <3>3. PICK v : v = LevelMeta(s, f, k)
      OBVIOUS
    <3> DEFINE g == [j \in 1 .. w |-> IF j = k THEN v ELSE f[j]]
    <3>4. g[k] = v /\ \A j \in k + 1 .. w : g[j] = f[j] /\ f[j] = LevelMeta(s, f, j)
      <4>1. k + 1 = w - n + 1
        BY <3>2
      <4>2. \A j \in k + 1 .. w : j \in 1 .. w /\ j # k
        BY <3>2
      <4>3. \A j \in k + 1 .. w : f[j] = LevelMeta(s, f, j)
        BY <3>1, <4>1
      <4>4. QED
        BY <3>2, <4>2, <4>3
    <3>5. g = [j \in 1 .. w |-> g[j]]
      OBVIOUS
    <3> HIDE DEF g
    <3>6. ASSUME NEW j \in k .. w PROVE LevelMeta(s, f, j) = LevelMeta(s, g, j)
      <4>1. \A l \in j + 1 .. Len(s) : f[l] = g[l] /\ f[l] = LevelMeta(s, f, l)
        <5>1. \A l \in j + 1 .. Len(s) : l \in k + 1 .. w
          BY <1>1, <3>2, <3>6
        <5>2. QED
          BY <3>4, <5>1
      <4>2. j \in 1 .. Len(s)
        BY <1>1, <3>2, <3>6
      <4>3. QED
        BY <4>1, <4>2, LevelAgrees
    <3>7. ASSUME NEW j \in w - (n + 1) + 1 .. w PROVE g[j] = LevelMeta(s, g, j)
      <4>1. j \in k .. w /\ (j = k \/ j \in k + 1 .. w)
        BY <3>2, <3>7
      <4>2. g[j] = LevelMeta(s, f, j)
        BY <3>3, <3>4, <4>1
      <4>3. QED
        BY <3>6, <4>1, <4>2
    <3>8. QED
      BY <3>5, <3>7
  <2> HIDE DEF Good
  <2>2. QED
    BY <2>1
<1>4. Nat \subseteq S
  <2> HIDE DEF S
  <2>1. QED
    BY <1>2, <1>3, NatSet
<1>5. PICK f : Good(f, w)
  <2> HIDE DEF Good
  <2>1. w \in S
    BY <1>4
  <2>2. QED
    BY <2>1
<1>6. \A j \in 1 .. w : f[j] = LevelMeta(s, f, j)
  BY <1>5
<1>7. f = [j \in 1 .. Len(s) |-> LevelMeta(s, f, j)]
  BY <1>1, <1>5, <1>6
<1>8. Metas(s) = [j \in 1 .. Len(s) |-> LevelMeta(s, Metas(s), j)]
  BY <1>7 DEF Metas
<1> DEFINE g == Metas(s)
<1>9. g = [j \in 1 .. Len(s) |-> LevelMeta(s, g, j)]
  BY <1>8
<1> HIDE DEF g
<1>10. \A j \in 1 .. Len(s) : g[j] = LevelMeta(s, g, j)
  BY <1>9
<1>11. QED
  BY <1>10 DEF g

(* What is valid is not Invalid.                                           *)
LEMMA ValidIs ==
  ASSUME NEW e, NEW t, NEW d
  PROVE  /\ e # "Invalid" => Valid(e, t, d) # Invalid
         /\ Valid(e, t, d).ext = e /\ Valid(e, t, d).type = t /\ Valid(e, t, d).dim = d
         /\ Invalid.ext = "Invalid"
<1>1. /\ Valid(e, t, d).ext = e /\ Valid(e, t, d).type = t /\ Valid(e, t, d).dim = d
      /\ Invalid.ext = "Invalid"
  BY DEF Valid, Invalid
<1>2. QED
  BY <1>1

(* A level means what its extension says, or nothing.                      *)
LEMMA MeaningOf ==
  ASSUME NEW s, IsSchema(s), NEW m, m = Metas(s), NEW i \in 1 .. Len(s)
  PROVE  /\ m[i] = LevelMeta(s, m, i)
         /\ m[i] = Invalid <=> m[i].ext = "Invalid"
         /\ m[i] # Invalid => m[i].ext = Extension(s[i]) /\ ContainerValid(s[i])
         /\ Extension(s[i]) # "Invalid"
         /\ Extension(s[i]) \in Plain => (m[i] # Invalid <=> ContainerValid(s[i]))
<1>1. m[i] = LevelMeta(s, m, i)
  BY MetasIs
<1>2. CASE ~ContainerValid(s[i])
  <2>1. m[i] = Invalid
    BY <1>1, <1>2 DEF LevelMeta
  <2>2. Extension(s[i]) # "Invalid"
    BY ExtensionIs DEF Plain, Collecting
  <2>3. QED
    BY <1>1, <1>2, <2>1, <2>2, ValidIs
<1>3. CASE ContainerValid(s[i])
  <2>1. PICK e : e = Extension(s[i])
    OBVIOUS
  <2>2. e \in {"Point", "Linestring", "Polygon"} \cup Collecting \cup Plain
    BY <2>1, ExtensionIs
  <2>3. e # "Invalid"
    BY <2>2 DEF Collecting, Plain
  <2>4. m[i] = Invalid \/ \E t, d : m[i] = Valid(e, t, d)
    <3>1. PICK child : child = IF s[i].kids = 0 THEN Invalid ELSE m[i + 1]
      OBVIOUS
    <3>2. QED
      BY <1>1, <1>3, <2>1, <2>2, <3>1, LevelIs
  <2>5. e \in Plain => \E t, d : m[i] = Valid(e, t, d)
    BY <1>1, <1>3, <2>1, LevelIs
  <2>6. QED
    BY <1>1, <1>3, <2>1, <2>3, <2>4, <2>5, ValidIs
<1>4. QED
  BY <1>2, <1>3

(* Meta recognises points: coordinates in fixed-size lists.                *)
LEMMA PointMeaning ==
  ASSUME NEW s, IsSchema(s), NEW m, m = Metas(s), NEW i \in 1 .. Len(s)
  PROVE  /\ m[i].ext = "Point" <=> IsPoint(s, i)
         /\ IsPoint(s, i) =>
              m[i].type = "POINT" /\ m[i].dim = DimOf(s[i + 1].name) /\ i + 1 \in 1 .. Len(s)
<1>1. PICK w \in Nat \ {0} :
        /\ w = Len(s) /\ 1 .. Len(s) = 1 .. w
        /\ \A l \in 1 .. w :
             /\ l < w => s[l].kids # 0 /\ l + 1 \in 1 .. w
             /\ l >= w => s[l].kids = 0
  BY SchemaLevels
<1>2. PICK n \in Nat : n = i + 1 /\ (n \in 1 .. w <=> s[i].kids # 0)
  BY <1>1
<1>3. PICK child : child = IF s[i].kids = 0 THEN Invalid ELSE m[n]
  OBVIOUS
<1>4. ASSUME m[i].ext = "Point" PROVE IsPoint(s, i)
  <2>1. m[i] # Invalid /\ Extension(s[i]) = "Point" /\ ContainerValid(s[i])
    BY <1>4, MeaningOf
  <2>2. /\ s[i].format = "+w" /\ s[i].width = NameLength(s[n].name)
        /\ child # Invalid /\ s[n].format = "g"
    BY <1>2, <1>3, <2>1, MeaningOf, LevelIs
  <2>3. s[i].kids = 1 /\ s[i].width > 0
    BY <2>1, <2>2 DEF ContainerValid
  <2>4. n \in 1 .. Len(s) /\ child = m[n]
    BY <1>1, <1>2, <1>3, <2>3
  <2>5. Extension(s[n]) \in Plain
    <3>1. m[n] = LevelMeta(s, m, n) /\ m[n] # Invalid /\ ContainerValid(s[n])
      BY <2>2, <2>4, MeaningOf
    <3>2. Extension(s[n]) \notin {"Point", "Linestring", "Polygon"} \cup Collecting
      BY <2>2, <3>1, LevelIs
    <3>3. QED
      BY <3>2, ExtensionIs
  <2>6. i <= Len(s) /\ n <= Len(s)
    BY <2>4
  <2>7. QED
    BY <1>2, <2>1, <2>2, <2>3, <2>5, <2>6 DEF IsPoint, Named
<1>5. ASSUME IsPoint(s, i)
      PROVE  /\ m[i].ext = "Point" /\ m[i].type = "POINT" /\ m[i].dim = DimOf(s[n].name)
             /\ n \in 1 .. Len(s)
  <2>1. /\ Extension(s[i]) = "Point" /\ s[i].format = "+w" /\ s[i].kids = 1
        /\ s[i].width > 0 /\ s[i].width = NameLength(s[n].name)
        /\ Extension(s[n]) \in Plain /\ s[n].format = "g"
    BY <1>2, <1>5 DEF IsPoint, Named
  <2>2. n \in 1 .. Len(s) /\ child = m[n]
    BY <1>1, <1>2, <1>3, <2>1
  <2>3. ContainerValid(s[i]) /\ ContainerValid(s[n])
    BY <2>1 DEF ContainerValid
  <2>4. child # Invalid
    BY <2>1, <2>2, <2>3, MeaningOf
  <2>5. m[i] = Valid("Point", "POINT", DimOf(s[n].name))
    BY <1>2, <1>3, <2>1, <2>3, <2>4, MeaningOf, LevelIs
  <2>6. QED
    BY <2>2, <2>5, ValidIs
<1>6. QED
  BY <1>2, <1>4, <1>5

(* The child of a list that is valid.                                      *)
LEMMA ListMeaning ==
  ASSUME NEW s, IsSchema(s), NEW m, m = Metas(s), NEW i \in 1 .. Len(s),
         s[i].format = "+l"
  PROVE  /\ ContainerValid(s[i]) <=> s[i].kids = 1
         /\ s[i].kids = 1 => i + 1 \in 1 .. Len(s)
<1>1. PICK w \in Nat \ {0} :
        /\ w = Len(s) /\ 1 .. Len(s) = 1 .. w
        /\ \A l \in 1 .. w :
             /\ l < w => s[l].kids # 0 /\ l + 1 \in 1 .. w
             /\ l >= w => s[l].kids = 0
  BY SchemaLevels
<1>2. s[i].kids = 1 => i + 1 \in 1 .. Len(s)
  BY <1>1
<1>3. ContainerValid(s[i]) <=> s[i].kids = 1
  BY DEF ContainerValid
<1>4. QED
  BY <1>2, <1>3

(* Meta recognises linestrings: lists of points.                           *)
LEMMA LineMeaning ==
  ASSUME NEW s, IsSchema(s), NEW m, m = Metas(s), NEW i \in 1 .. Len(s)
  PROVE  /\ m[i].ext = "Linestring" <=> IsLine(s, i)
         /\ IsLine(s, i) =>
              /\ m[i].type = "LINESTRING" /\ m[i].dim = m[i + 1].dim
              /\ IsPoint(s, i + 1) /\ i + 1 \in 1 .. Len(s)
<1>1. PICK n : n = i + 1
  OBVIOUS
<1>2. PICK child : child = IF s[i].kids = 0 THEN Invalid ELSE m[n]
  OBVIOUS
<1>3. ASSUME m[i].ext = "Linestring" PROVE IsLine(s, i)
  <2>1. m[i] # Invalid /\ Extension(s[i]) = "Linestring" /\ ContainerValid(s[i])
    BY <1>3, MeaningOf
  <2>2. s[i].format = "+l" /\ child # Invalid /\ child.ext = "Point"
    BY <1>1, <1>2, <2>1, MeaningOf, LevelIs
  <2>3. s[i].kids = 1 /\ n \in 1 .. Len(s) /\ child = m[n]
    BY <1>1, <1>2, <2>1, <2>2, ListMeaning
  <2>4. IsPoint(s, n) /\ i <= Len(s)
    BY <2>2, <2>3, PointMeaning
  <2>5. QED
    BY <1>1, <2>1, <2>2, <2>3, <2>4 DEF IsLine, Lists, Named
<1>4. ASSUME IsLine(s, i)
      PROVE  /\ m[i].ext = "Linestring" /\ m[i].type = "LINESTRING" /\ m[i].dim = m[n].dim
             /\ IsPoint(s, n) /\ n \in 1 .. Len(s)
  <2>1. /\ Extension(s[i]) = "Linestring" /\ s[i].format = "+l" /\ s[i].kids = 1
        /\ IsPoint(s, n)
    BY <1>1, <1>4 DEF IsLine, Lists, Named
  <2>2. n \in 1 .. Len(s) /\ child = m[n] /\ ContainerValid(s[i])
    BY <1>1, <1>2, <2>1, ListMeaning
  <2>3. m[n].ext = "Point" /\ child # Invalid
    BY <2>1, <2>2, PointMeaning, ValidIs
  <2>4. m[i] = LevelMeta(s, m, i)
    BY MeaningOf
  <2>5. LevelMeta(s, m, i) = Valid("Linestring", "LINESTRING", m[n].dim)
    BY <1>1, <1>2, <2>1, <2>2, <2>3, LevelIs
  <2>6. QED
    BY <2>1, <2>2, <2>4, <2>5, ValidIs
<1>5. QED
  BY <1>1, <1>3, <1>4

(* ... the rings of polygons, which are called almost anything, ...        *)
LEMMA RingMeaning ==
  ASSUME NEW s, IsSchema(s), NEW m, m = Metas(s), NEW i \in 1 .. Len(s)
  PROVE  /\ IsRing(s, i) <=> m[i] # Invalid /\ s[i].format = "+l" /\ m[i + 1].ext = "Point"
         /\ IsRing(s, i) => IsPoint(s, i + 1) /\ i + 1 \in 1 .. Len(s)
<1>1. PICK n : n = i + 1
  OBVIOUS
<1>2. PICK child : child = IF s[i].kids = 0 THEN Invalid ELSE m[n]
  OBVIOUS
<1>3. ASSUME m[i] # Invalid, s[i].format = "+l", m[n].ext = "Point" PROVE IsRing(s, i)
  <2>1. ContainerValid(s[i])
    BY <1>3, MeaningOf
  <2>2. s[i].kids = 1 /\ n \in 1 .. Len(s)
    BY <1>1, <1>3, <2>1, ListMeaning
  <2>3. IsPoint(s, n) /\ i <= Len(s)
    BY <1>3, <2>2, PointMeaning
  <2>4. Extension(s[i]) # "Point"
    <3>1. "+w" # "+l"
      OBVIOUS
    <3>2. QED
      BY <1>1, <1>2, <1>3, <2>1, <3>1, MeaningOf, LevelIs
  <2>5. Extension(s[i]) # "Polygon"
    <3>1. s[n].format = "+w"
      BY <2>3 DEF IsPoint
    <3>2. QED
      BY <1>1, <1>2, <1>3, <2>1, <3>1, MeaningOf, LevelIs
  <2>6. Extension(s[i]) \in Plain \cup Collecting \cup {"Linestring"}
    BY <2>4, <2>5, ExtensionIs
  <2>7. QED
    BY <1>1, <1>3, <2>2, <2>3, <2>6 DEF IsRing, Lists, Named
<1>4. ASSUME IsRing(s, i)
      PROVE  /\ m[i] # Invalid /\ s[i].format = "+l" /\ m[n].ext = "Point"
             /\ IsPoint(s, n) /\ n \in 1 .. Len(s)
  <2>1. /\ Extension(s[i]) \in Plain \cup Collecting \cup {"Linestring"}
        /\ s[i].format = "+l" /\ s[i].kids = 1 /\ IsPoint(s, n)
    BY <1>1, <1>4 DEF IsRing, Lists, Named
  <2>2. n \in 1 .. Len(s) /\ child = m[n] /\ ContainerValid(s[i])
    BY <1>1, <1>2, <2>1, ListMeaning
  <2>3. m[n].ext = "Point" /\ child # Invalid
    <3>1. m[n].ext = "Point"
      BY <2>1, <2>2, PointMeaning
    <3>2. QED
      BY <2>2, <3>1, ValidIs
  <2>4. PICK e : e = Extension(s[i]) /\ e # "Invalid"
    BY MeaningOf
  <2>5. m[i] # Invalid
    <3>1. e \in Plain => m[i] # Invalid
      BY <2>2, <2>4, MeaningOf
    <3>2. child # Invalid /\ child.ext = "Point" /\ "Point" \in DOMAIN MultiOf
      BY <1>2, <2>1, <2>2, <2>3 DEF MultiOf
    <3>3. e \in Collecting => LevelMeta(s, m, i) = Valid(e, MultiOf[child.ext], child.dim)
      BY <1>1, <1>2, <2>1, <2>2, <2>4, <3>2, LevelIs
    <3>4. ASSUME e = "Linestring" PROVE m[i].ext = "Linestring"
      <4>1. IsLine(s, i)
        BY <1>1, <1>4, <2>1, <2>4, <3>4 DEF IsRing, IsLine, Lists, Named
      <4>2. QED
        BY <4>1, LineMeaning
    <3>5. m[i] = LevelMeta(s, m, i)
      BY MeaningOf
    <3>6. QED
      BY <2>1, <2>4, <3>1, <3>3, <3>4, <3>5, MeaningOf, ValidIs
  <2>6. QED
    BY <2>1, <2>2, <2>3, <2>5
<1>5. QED
  BY <1>1, <1>3, <1>4

(* ... polygons, by their grandchild, ...                                  *)
LEMMA PolygonMeaning ==
  ASSUME NEW s, IsSchema(s), NEW m, m = Metas(s), NEW i \in 1 .. Len(s)
  PROVE  /\ m[i].ext = "Polygon" <=> IsPolygon(s, i)
         /\ IsPolygon(s, i) =>
              /\ m[i].type = "POLYGON" /\ m[i].dim = m[i + 2].dim
              /\ IsPoint(s, i + 2) /\ i + 2 \in 1 .. Len(s)
<1>1. PICK n, k : n = i + 1 /\ k = i + 2 /\ k = n + 1
  OBVIOUS
<1>2. PICK child : child = IF s[i].kids = 0 THEN Invalid ELSE m[n]
  OBVIOUS
<1>3. ASSUME m[i].ext = "Polygon" PROVE IsPolygon(s, i)
  <2>1. m[i] # Invalid /\ Extension(s[i]) = "Polygon" /\ ContainerValid(s[i])
    BY <1>3, MeaningOf
  <2>2. /\ s[i].format = "+l" /\ child # Invalid /\ s[n].format = "+l"
        /\ m[k].ext = "Point"
    BY <1>1, <1>2, <2>1, MeaningOf, LevelIs
  <2>3. s[i].kids = 1 /\ n \in 1 .. Len(s) /\ child = m[n]
    BY <1>1, <1>2, <2>1, <2>2, ListMeaning
  <2>4. IsRing(s, n) /\ i <= Len(s)
    BY <1>1, <2>2, <2>3, RingMeaning
  <2>5. QED
    BY <1>1, <2>1, <2>2, <2>3, <2>4 DEF IsPolygon, Lists, Named
<1>4. ASSUME IsPolygon(s, i)
      PROVE  /\ m[i].ext = "Polygon" /\ m[i].type = "POLYGON" /\ m[i].dim = m[k].dim
             /\ IsPoint(s, k) /\ k \in 1 .. Len(s)
  <2>1. /\ Extension(s[i]) = "Polygon" /\ s[i].format = "+l" /\ s[i].kids = 1
        /\ IsRing(s, n)
    BY <1>1, <1>4 DEF IsPolygon, Lists, Named
  <2>2. n \in 1 .. Len(s) /\ child = m[n] /\ ContainerValid(s[i])
    BY <1>1, <1>2, <2>1, ListMeaning
  <2>3. /\ m[n] # Invalid /\ s[n].format = "+l" /\ m[k].ext = "Point"
        /\ IsPoint(s, k) /\ k \in 1 .. Len(s)
    BY <1>1, <2>1, <2>2, RingMeaning
  <2>4. m[i] = LevelMeta(s, m, i)
    BY MeaningOf
  <2>5. LevelMeta(s, m, i) = Valid("Polygon", "POLYGON", m[k].dim)
    BY <1>1, <1>2, <2>1, <2>2, <2>3, LevelIs
  <2>6. QED
    BY <2>3, <2>4, <2>5, ValidIs
<1>5. QED
  BY <1>1, <1>3, <1>4

(* ... and collections, by what their child is.                            *)
LEMMA CollectionMeaning ==
  ASSUME NEW s, IsSchema(s), NEW m, m = Metas(s), NEW i \in 1 .. Len(s)
  PROVE  /\ m[i].ext \in Collecting <=> IsCollection(s, i)
         /\ IsCollection(s, i) =>
              /\ m[i].ext = Extension(s[i]) /\ i + 1 \in 1 .. Len(s)
              /\ m[i].type = MultiOf[m[i + 1].ext] /\ m[i].dim = m[i + 1].dim
<1>1. PICK n : n = i + 1
  OBVIOUS
<1>2. PICK child : child = IF s[i].kids = 0 THEN Invalid ELSE m[n]
  OBVIOUS
<1>3. DOMAIN MultiOf = {"Point", "Linestring", "Polygon"} /\ "Invalid" \notin Collecting
  BY DEF MultiOf, Collecting
<1>4. ASSUME m[i].ext \in Collecting PROVE IsCollection(s, i)
  <2>1. m[i] # Invalid /\ Extension(s[i]) \in Collecting /\ ContainerValid(s[i])
    BY <1>3, <1>4, MeaningOf
  <2>2. s[i].format = "+l" /\ child # Invalid /\ child.ext \in DOMAIN MultiOf
    BY <1>1, <1>2, <2>1, MeaningOf, LevelIs
  <2>3. s[i].kids = 1 /\ n \in 1 .. Len(s) /\ child = m[n]
    BY <1>1, <1>2, <2>1, <2>2, ListMeaning
  <2>4. IsPoint(s, n) \/ IsLine(s, n) \/ IsPolygon(s, n)
    BY <1>3, <2>2, <2>3, PointMeaning, LineMeaning, PolygonMeaning
  <2>5. QED
    BY <1>1, <2>1, <2>2, <2>3, <2>4 DEF IsCollection, Lists, Named
<1>5. ASSUME IsCollection(s, i)
      PROVE  /\ m[i].ext \in Collecting /\ m[i].ext = Extension(s[i])
             /\ m[i].type = MultiOf[m[n].ext] /\ m[i].dim = m[n].dim /\ n \in 1 .. Len(s)
  <2>1. /\ Extension(s[i]) \in Collecting /\ s[i].format = "+l" /\ s[i].kids = 1
        /\ IsPoint(s, n) \/ IsLine(s, n) \/ IsPolygon(s, n)
    BY <1>1, <1>5 DEF IsCollection, Lists, Named
  <2>2. n \in 1 .. Len(s) /\ child = m[n] /\ ContainerValid(s[i])
    BY <1>1, <1>2, <2>1, ListMeaning
  <2>3. m[n].ext \in {"Point", "Linestring", "Polygon"}
    BY <2>1, <2>2, PointMeaning, LineMeaning, PolygonMeaning
  <2>4. m[n].ext # "Invalid"
    BY <2>3
  <2>5. child # Invalid
    BY <2>2, <2>4, ValidIs
  <2>6. m[i] = Valid(Extension(s[i]), MultiOf[m[n].ext], m[n].dim)
    BY <1>1, <1>2, <1>3, <2>1, <2>2, <2>3, <2>5, MeaningOf, LevelIs
  <2>7. QED
    BY <2>1, <2>2, <2>6, ValidIs
<1>6. QED
  BY <1>1, <1>4, <1>5

(* create_view() has a reader for the schemas of the format and no others. *)
LEMMA ReaderMeaning ==
  ASSUME NEW s, IsSchema(s)
  PROVE  ReaderOf(s) # "none" <=> InFormat(s)
<1>1. PICK m, x : m = Metas(s) /\ x = m[1].ext /\ MetaOf(s) = m[1]
  BY DEF MetaOf
<1>2. 1 \in 1 .. Len(s)
  <2>1. PICK w \in Nat \ {0} : 1 .. Len(s) = 1 .. w
    BY SchemaLevels
  <2>2. QED
    BY <2>1
<1>3. x # "Invalid" => x = Extension(s[1])
  BY <1>1, <1>2, MeaningOf
<1>4. x \in {"Invalid", "Point", "Linestring", "Polygon"} \cup Collecting \cup Plain
  BY <1>3, ExtensionIs
<1>5. Extension(s[1]) \in Plain => (x # "Invalid" <=> ContainerValid(s[1]))
  BY <1>1, <1>2, MeaningOf
<1>6. /\ x = "Point" <=> IsPoint(s, 1)
      /\ x = "Linestring" <=> IsLine(s, 1)
      /\ x = "Polygon" <=> IsPolygon(s, 1)
      /\ x \in Collecting <=> IsCollection(s, 1)
  BY <1>1, <1>2, PointMeaning, LineMeaning, PolygonMeaning, CollectionMeaning
<1>7. 1 <= Len(s)
  BY <1>2
<1>8. IsSerialized(s) <=> /\ x \in {"WKB", "WKT"}
                          /\ s[1].format \in IF x = "WKB" THEN {"z", "Z", "w"}
                                             ELSE {"z", "u", "Z", "U"}
  <2>1. ASSUME IsSerialized(s)
        PROVE  /\ x \in {"WKB", "WKT"}
               /\ s[1].format \in IF x = "WKB" THEN {"z", "Z", "w"} ELSE {"z", "u", "Z", "U"}
    <3>1. Extension(s[1]) \in {"WKB", "WKT"} /\ ContainerValid(s[1])
      BY <2>1 DEF IsSerialized, Named, ContainerValid
    <3>2. Extension(s[1]) \in Plain /\ x # "Invalid"
      BY <1>5, <3>1 DEF Plain
    <3>3. x = Extension(s[1])
      BY <1>3, <3>2
    <3>4. QED
      BY <2>1, <3>1, <3>3 DEF IsSerialized, Named
  <2>2. ASSUME x \in {"WKB", "WKT"},
               s[1].format \in IF x = "WKB" THEN {"z", "Z", "w"} ELSE {"z", "u", "Z", "U"}
        PROVE  IsSerialized(s)
    <3>1. x = Extension(s[1]) /\ ContainerValid(s[1])
      BY <1>3, <1>5, <2>2 DEF Plain
    <3>2. s[1].format = "w" => s[1].width > 0
      BY <3>1 DEF ContainerValid
    <3>3. QED
      BY <1>7, <2>2, <3>1, <3>2 DEF IsSerialized, Named
  <2>3. QED
    BY <2>1, <2>2
<1>9. ReaderOf(s) # "none" <=>
        /\ x \notin {"Invalid", "None", "Other"}
        /\ x = "WKB" => s[1].format \in {"z", "Z", "w"}
        /\ x = "WKT" => s[1].format \in {"z", "u", "Z", "U"}
  BY <1>1 DEF ReaderOf
<1>10. CASE x \in Plain \cup {"Invalid"}
  <2>1. ~(IsPoint(s, 1) \/ IsLine(s, 1) \/ IsPolygon(s, 1) \/ IsCollection(s, 1))
    BY <1>6, <1>10 DEF Plain, Collecting
  <2>2. QED
    BY <1>8, <1>9, <1>10, <2>1 DEF InFormat, Plain
<1>11. CASE x \in {"Point", "Linestring", "Polygon"} \cup Collecting
  <2>1. ReaderOf(s) # "none"
    BY <1>9, <1>11 DEF Collecting
  <2>2. QED
    BY <1>6, <1>11, <2>1 DEF InFormat
<1>12. QED
  BY <1>4, <1>10, <1>11

(* The types that are cast to.                                             *)
LEMMA CastTargets ==
  ASSUME NEW s
  PROVE  /\ CastTarget(s) = "POINT" <=> MetaOf(s).ext = "Point"
         /\ CastTarget(s) = "LINESTRING" <=> MetaOf(s).ext = "Linestring"
         /\ CastTarget(s) = "POLYGON" <=> MetaOf(s).ext = "Polygon"
         /\ CastTarget(s) = "MULTIPOINT" <=> MetaOf(s).ext = "MultiPoint"
         /\ CastTarget(s) = "MULTILINESTRING" <=> MetaOf(s).ext = "MultiLinestring"
         /\ CastTarget(s) = "MULTIPOLYGON" <=> MetaOf(s).ext = "MultiPolygon"
         /\ CastTarget(s) = "WKB" <=> MetaOf(s).ext = "WKB"
         /\ CastTarget(s) = "WKT" <=> MetaOf(s).ext = "WKT"
         /\ CastTarget(s) \in {"POINT", "LINESTRING", "POLYGON", "MULTIPOINT",
                               "MULTILINESTRING", "MULTIPOLYGON", "WKB", "WKT", "none"}
<1>1. PICK e : e = MetaOf(s).ext
  OBVIOUS
<1>2. CASE e \in {"Point", "Linestring", "Polygon"}
  BY <1>1, <1>2 DEF CastTarget
<1>3. CASE e \in {"MultiPoint", "MultiLinestring", "MultiPolygon"}
  BY <1>1, <1>3 DEF CastTarget
<1>4. CASE e \in {"WKB", "WKT"}
  BY <1>1, <1>4 DEF CastTarget
<1>5. CASE e \notin {"Point", "Linestring", "Polygon"}
                     \cup {"MultiPoint", "MultiLinestring", "MultiPolygon"} \cup {"WKB", "WKT"}
  BY <1>1, <1>5 DEF CastTarget
<1>6. QED
  BY <1>2, <1>3, <1>4, <1>5

(* The members of a level.                                                 *)
LEMMA LevelFields ==
  ASSUME NEW f, NEW w, NEW n, NEW e, NEW l, l = Level(f, w, n, e)
  PROVE  /\ l.format = f /\ l.name = n /\ l.ext = e
         /\ f \in {"+w", "w"} => l.width = w
         /\ f \in Nested => l.kids = 1
         /\ f \notin Nested => l.kids = 0
BY DEF Level

(* The level a schema gets around it.                                      *)
LEMMA AroundIs ==
  ASSUME NEW e, NEW s, IsSchema(s), NEW o, o = Around(e, s)
  PROVE  /\ IsSchema(o) /\ Len(o) = Len(s) + 1 /\ Len(s) \in Nat \ {0}
         /\ o[1].format = "+l" /\ o[1].ext = e /\ o[1].kids = 1
         /\ \A i \in 1 .. Len(s) : o[i + 1] = s[i]
<1>1. PICK w \in Nat \ {0} : w = Len(s)
  BY SchemaLevels
<1>2. PICK l : l = Level("+l", 0, Unnamed, e)
  OBVIOUS
<1>3. l.format = "+l" /\ l.ext = e /\ l.kids = 1
  BY <1>2, LevelFields DEF Nested
<1> DEFINE L == {l} \cup {s[i] : i \in DOMAIN s}
<1>4. o = <<l>> \o s /\ s \in Seq(L) /\ <<l>> \in Seq(L)
  <2>1. s \in Seq({s[i] : i \in DOMAIN s})
    BY DEF IsSchema
  <2>2. s \in Seq(L)
    BY <2>1
  <2>3. QED
    BY <1>2, <2>2 DEF Around
<1> HIDE DEF L
<1>5. /\ o \in Seq(L) /\ Len(o) = w + 1 /\ o[1] = l
      /\ \A i \in 1 .. w : o[i + 1] = s[i]
  BY <1>1, <1>4
<1>6. ASSUME NEW j \in 1 .. w + 1
      PROVE  o[j].kids \in Nat /\ (o[j].kids > 0 <=> j < w + 1)
  <2>1. CASE j = 1
    BY <1>1, <1>3, <1>5, <2>1
  <2>2. CASE j # 1
    <3>1. PICK i \in 1 .. w : j = i + 1
      BY <1>1, <1>6, <2>2
    <3>2. o[j] = s[i] /\ s[i].kids \in Nat /\ (s[i].kids > 0 <=> i < w)
      BY <1>1, <1>5, <3>1 DEF IsSchema
    <3>3. QED
      BY <1>1, <3>1, <3>2
  <2>3. QED
    BY <2>1, <2>2
<1>7. IsSchema(o)
  <2>1. o \in Seq({o[i] : i \in DOMAIN o}) /\ o # << >>
    BY <1>5
  <2>2. QED
    BY <1>5, <1>6, <2>1 DEF IsSchema
<1>8. QED
  BY <1>1, <1>3, <1>5, <1>7

(* The names of the extensions.                                            *)
LEMMA ExtensionNames ==
  ASSUME NEW n
  PROVE  /\ n.ext = "geoarrow.point" => Extension(n) = "Point"
         /\ n.ext = "geoarrow.linestring" => Extension(n) = "Linestring"
         /\ n.ext = "geoarrow.polygon" => Extension(n) = "Polygon"
         /\ n.ext = "geoarrow.multipoint" => Extension(n) = "MultiPoint"
         /\ n.ext = "geoarrow.multilinestring" => Extension(n) = "MultiLinestring"
         /\ n.ext = "geoarrow.multipolygon" => Extension(n) = "MultiPolygon"
         /\ n.ext = "geoarrow.wkb" => Extension(n) = "WKB"
         /\ n.ext = "geoarrow.wkt" => Extension(n) = "WKT"
         /\ n.ext = Unnamed => Extension(n) = "None"
<1> DEFINE known == {e \in DOMAIN Prefixed : n.ext \in Prefixed[e]}
<1>1. ASSUME NEW x \in DOMAIN Prefixed, known = {x}, n.ext # Unnamed PROVE Extension(n) = x
  <2>1. Extension(n) = CHOOSE e \in known : TRUE
    BY <1>1 DEF Extension
  <2>2. (CHOOSE e \in known : TRUE) \in known
    BY <1>1
  <2> HIDE DEF known
  <2>3. QED
    BY <1>1, <2>1, <2>2
<1>2. n.ext = "geoarrow.point" => known = {"Point"}
  BY DEF Prefixed
<1>3. n.ext = "geoarrow.linestring" => known = {"Linestring"}
  BY DEF Prefixed
<1>4. n.ext = "geoarrow.polygon" => known = {"Polygon"}
  BY DEF Prefixed
<1>5. n.ext = "geoarrow.multipoint" => known = {"MultiPoint"}
  BY DEF Prefixed
<1>6. n.ext = "geoarrow.multilinestring" => known = {"MultiLinestring"}
  BY DEF Prefixed
<1>7. n.ext = "geoarrow.multipolygon" => known = {"MultiPolygon"}
  BY DEF Prefixed
<1>8. n.ext = "geoarrow.wkb" => known = {"WKB"}
  BY DEF Prefixed
<1>9. n.ext = "geoarrow.wkt" => known = {"WKT"}
  BY DEF Prefixed
<1>10. Unnamed \notin {"geoarrow.point", "geoarrow.linestring", "geoarrow.polygon",
                       "geoarrow.multipoint", "geoarrow.multilinestring",
                       "geoarrow.multipolygon", "geoarrow.wkb", "geoarrow.wkt"}
  BY Zenon DEF Unnamed
<1>11. n.ext = Unnamed => Extension(n) = "None"
  BY DEF Extension
<1>12. {"Point", "Linestring", "Polygon", "MultiPoint", "MultiLinestring", "MultiPolygon",
        "WKB", "WKT"} \subseteq DOMAIN Prefixed
  BY DEF Prefixed
<1> HIDE DEF known
<1>13. QED
  BY <1>1, <1>2, <1>3, <1>4, <1>5, <1>6, <1>7, <1>8, <1>9, <1>10, <1>11, <1>12

(* A schema within another one keeps its meaning.                          *)
LEMMA AroundKeeps ==
  ASSUME NEW e, NEW s, IsSchema(s), NEW o, o = Around(e, s), NEW i \in 1 .. Len(s)
  PROVE  /\ IsPoint(s, i) => IsPoint(o, i + 1)
         /\ IsLine(s, i) => IsLine(o, i + 1)
         /\ IsRing(s, i) => IsRing(o, i + 1)
         /\ IsPolygon(s, i) => IsPolygon(o, i + 1)
<1>1. PICK w \in Nat \ {0} : w = Len(s) /\ Len(o) = w + 1 /\ \A j \in 1 .. w : o[j + 1] = s[j]
  BY AroundIs
<1>2. ASSUME NEW X, NEW j \in 1 .. w + 1, Named(s, j, X)
      PROVE  j \in 1 .. w /\ Named(o, j + 1, X)
  <2>1. j \in 1 .. w /\ Extension(s[j]) \in X
    BY <1>1, <1>2 DEF Named
  <2>2. j + 1 <= Len(o) /\ o[j + 1] = s[j]
    BY <1>1, <2>1
  <2>3. QED
    BY <2>1, <2>2 DEF Named
<1>3. ASSUME NEW j \in 1 .. w + 1, IsPoint(s, j) PROVE j \in 1 .. w /\ IsPoint(o, j + 1)
  <2>1. j \in 1 .. w /\ Named(o, j + 1, {"Point"})
    BY <1>2, <1>3 DEF IsPoint
  <2>2. PICK k \in 1 .. w + 1 : k = j + 1
    BY <2>1
  <2>3. k \in 1 .. w /\ Named(o, k + 1, Plain)
    BY <1>2, <1>3, <2>2 DEF IsPoint
  <2>4. o[k] = s[j] /\ o[k + 1] = s[k]
    BY <1>1, <2>1, <2>2, <2>3
  <2>5. /\ s[j].format = "+w" /\ s[j].kids = 1
        /\ s[j].width > 0 /\ s[j].width = NameLength(s[k].name)
        /\ s[k].format = "g"
    BY <1>3, <2>2 DEF IsPoint
  <2>6. IsPoint(o, k)
    BY <2>1, <2>2, <2>3, <2>4, <2>5 DEF IsPoint
  <2>7. QED
    BY <2>1, <2>2, <2>6
<1>4. ASSUME NEW X, NEW j \in 1 .. w + 1, Lists(s, j, X)
      PROVE  j \in 1 .. w /\ j + 1 \in 1 .. w + 1 /\ Lists(o, j + 1, X)
  <2>1. j \in 1 .. w /\ Named(o, j + 1, X) /\ s[j].format = "+l" /\ s[j].kids = 1
    BY <1>2, <1>4 DEF Lists
  <2>2. o[j + 1] = s[j] /\ j + 1 \in 1 .. w + 1
    BY <1>1, <2>1
  <2>3. QED
    BY <2>1, <2>2 DEF Lists
<1>5. ASSUME NEW j \in 1 .. w + 1
      PROVE  /\ IsLine(s, j) => IsLine(o, j + 1)
             /\ IsRing(s, j) => IsRing(o, j + 1)
  BY <1>3, <1>4 DEF IsLine, IsRing
<1>6. ASSUME NEW j \in 1 .. w + 1, IsPolygon(s, j) PROVE IsPolygon(o, j + 1)
  BY <1>4, <1>5, <1>6 DEF IsPolygon
<1>7. i \in 1 .. w + 1
  BY <1>1
<1>8. QED
  BY <1>3, <1>5, <1>6, <1>7

(* The type of a schema, and the level of its points.                      *)
OfType(t, s) ==
  /\ t = "POINT" => IsPoint(s, 1)
  /\ t = "LINESTRING" => IsLine(s, 1)
  /\ t = "POLYGON" => IsPolygon(s, 1)
  /\ t \in {"MULTIPOINT", "MULTILINESTRING", "MULTIPOLYGON"} => IsCollection(s, 1)
  /\ t = "MULTIPOINT" => Extension(s[1]) = "MultiPoint" /\ IsPoint(s, 2)
  /\ t = "MULTILINESTRING" => Extension(s[1]) = "MultiLinestring" /\ IsLine(s, 2)
  /\ t = "MULTIPOLYGON" => Extension(s[1]) = "MultiPolygon" /\ IsPolygon(s, 2)

Native == {"POINT", "LINESTRING", "POLYGON", "MULTIPOINT", "MULTILINESTRING", "MULTIPOLYGON"}
PointLevel(t) ==
  IF t = "POINT" THEN 1
  ELSE IF t \in {"LINESTRING", "MULTIPOINT"} THEN 2
  ELSE IF t \in {"POLYGON", "MULTILINESTRING"} THEN 3
  ELSE 4

(* Meta finds type and dimensions of a schema.                             *)
LEMMA TypeIs ==
  ASSUME NEW s, IsSchema(s), NEW t \in Native, OfType(t, s), NEW k, k = PointLevel(t)
  PROVE  /\ MetaOf(s).type = t /\ MetaOf(s).dim = DimOf(s[k + 1].name)
         /\ IsPoint(s, k) /\ k \in 1 .. Len(s) /\ k + 1 \in 1 .. Len(s)
         /\ CastTarget(s) = t
<1>1. PICK m : m = Metas(s) /\ MetaOf(s) = m[1]
  BY DEF MetaOf
<1>2. 1 \in 1 .. Len(s)
  <2>1. PICK w \in Nat \ {0} : 1 .. Len(s) = 1 .. w
    BY SchemaLevels
  <2>2. QED
    BY <2>1
<1>3. /\ 1 + 1 = 2 /\ 1 + 2 = 3 /\ 2 + 1 = 3 /\ 2 + 2 = 4 /\ 3 + 1 = 4 /\ 4 + 1 = 5
  OBVIOUS
<1>4. CASE t = "POINT"
  <2>1. IsPoint(s, 1) /\ k = 1
    BY <1>4 DEF OfType, PointLevel
  <2>2. m[1].ext = "Point" /\ m[1].type = "POINT" /\ m[1].dim = DimOf(s[2].name)
        /\ 2 \in 1 .. Len(s)
    BY <1>1, <1>2, <1>3, <2>1, PointMeaning
  <2>3. QED
    BY <1>1, <1>2, <1>3, <1>4, <2>1, <2>2, CastTargets
<1>5. CASE t = "LINESTRING"
  <2>1. IsLine(s, 1) /\ k = 2
    BY <1>5 DEF OfType, PointLevel
  <2>2. m[1].ext = "Linestring" /\ m[1].type = "LINESTRING" /\ m[1].dim = m[2].dim
        /\ IsPoint(s, 2) /\ 2 \in 1 .. Len(s)
    BY <1>1, <1>2, <1>3, <2>1, LineMeaning
  <2>3. m[2].dim = DimOf(s[3].name) /\ 3 \in 1 .. Len(s)
    BY <1>1, <1>3, <2>2, PointMeaning
  <2>4. QED
    BY <1>1, <1>3, <1>5, <2>1, <2>2, <2>3, CastTargets
<1>6. CASE t = "POLYGON"
  <2>1. IsPolygon(s, 1) /\ k = 3
    BY <1>6 DEF OfType, PointLevel
  <2>2. m[1].ext = "Polygon" /\ m[1].type = "POLYGON" /\ m[1].dim = m[3].dim
        /\ IsPoint(s, 3) /\ 3 \in 1 .. Len(s)
    BY <1>1, <1>2, <1>3, <2>1, PolygonMeaning
  <2>3. m[3].dim = DimOf(s[4].name) /\ 4 \in 1 .. Len(s)
    BY <1>1, <1>3, <2>2, PointMeaning
  <2>4. QED
    BY <1>1, <1>3, <1>6, <2>1, <2>2, <2>3, CastTargets
<1>7. ASSUME t \in {"MULTIPOINT", "MULTILINESTRING", "MULTIPOLYGON"}
      PROVE  /\ m[1].ext = Extension(s[1]) /\ 2 \in 1 .. Len(s)
             /\ m[1].type = MultiOf[m[2].ext] /\ m[1].dim = m[2].dim
  <2>1. IsCollection(s, 1)
    BY <1>7 DEF OfType
  <2>2. QED
    BY <1>1, <1>2, <1>3, <2>1, CollectionMeaning
<1>8. CASE t = "MULTIPOINT"
  <2>1. Extension(s[1]) = "MultiPoint" /\ IsPoint(s, 2) /\ k = 2
    BY <1>8 DEF OfType, PointLevel
  <2>2. m[2].ext = "Point" /\ m[2].dim = DimOf(s[3].name) /\ 3 \in 1 .. Len(s)
    BY <1>1, <1>3, <1>7, <1>8, <2>1, PointMeaning
  <2>3. m[1].type = "MULTIPOINT"
    BY <1>7, <1>8, <2>2 DEF MultiOf
  <2>4. QED
    BY <1>1, <1>3, <1>7, <1>8, <2>1, <2>2, <2>3, CastTargets
<1>9. CASE t = "MULTILINESTRING"
  <2>1. Extension(s[1]) = "MultiLinestring" /\ IsLine(s, 2) /\ k = 3
    BY <1>9 DEF OfType, PointLevel
  <2>2. m[2].ext = "Linestring" /\ m[2].dim = m[3].dim /\ IsPoint(s, 3) /\ 3 \in 1 .. Len(s)
    BY <1>1, <1>3, <1>7, <1>9, <2>1, LineMeaning
  <2>3. m[3].dim = DimOf(s[4].name) /\ 4 \in 1 .. Len(s)
    BY <1>1, <1>3, <2>2, PointMeaning
  <2>4. m[1].type = "MULTILINESTRING"
    BY <1>7, <1>9, <2>2 DEF MultiOf
  <2>5. QED
    BY <1>1, <1>3, <1>7, <1>9, <2>1, <2>2, <2>3, <2>4, CastTargets
<1>10. CASE t = "MULTIPOLYGON"
  <2>1. Extension(s[1]) = "MultiPolygon" /\ IsPolygon(s, 2) /\ k = 4
    BY <1>10 DEF OfType, PointLevel
  <2>2. m[2].ext = "Polygon" /\ m[2].dim = m[4].dim /\ IsPoint(s, 4) /\ 4 \in 1 .. Len(s)
    BY <1>1, <1>3, <1>7, <1>10, <2>1, PolygonMeaning
  <2>3. m[4].dim = DimOf(s[5].name) /\ 5 \in 1 .. Len(s)
    BY <1>1, <1>3, <2>2, PointMeaning
  <2>4. m[1].type = "MULTIPOLYGON"
    BY <1>7, <1>10, <2>2 DEF MultiOf
  <2>5. QED
    BY <1>1, <1>3, <1>7, <1>10, <2>1, <2>2, <2>3, <2>4, CastTargets
<1>11. QED
  BY <1>4, <1>5, <1>6, <1>8, <1>9, <1>10 DEF Native

(* The points that are written.                                            *)
LEMMA PointWritten ==
  ASSUME NEW d \in {"XY", "XYZ", "XYM", "XYZM"}, NEW p, p = WrittenPoint(d)
  PROVE  /\ IsSchema(p) /\ Len(p) = 2 /\ IsPoint(p, 1) /\ DimOf(p[2].name) = d
         /\ \A n : NameLength(n) = p[1].width =>
              \/ DimOf(n) \in {d, "UNKNOWN"}
              \/ {DimOf(n), d} = {"XYZ", "XYM"}
<1> DEFINE name == CHOOSE x \in {"xy", "xyz", "xym", "xyzm"} : DimOf(x) = d
<1>1. name \in {"xy", "xyz", "xym", "xyzm"} /\ DimOf(name) = d
  <2>1. \E x \in {"xy", "xyz", "xym", "xyzm"} : DimOf(x) = d
    BY DEF DimOf, DimNames
  <2>2. QED
    BY <2>1
<1>2. p = <<Level("+w", DimLength[name], Unnamed, "geoarrow.point"),
            Level("g", 0, name, Unnamed)>>
  BY DEF WrittenPoint
<1> HIDE DEF name
<1>3. PICK w : w = DimLength[name]
  OBVIOUS
<1>4. PICK a, b : /\ a = Level("+w", w, Unnamed, "geoarrow.point")
                  /\ b = Level("g", 0, name, Unnamed)
  OBVIOUS
<1>5. p = <<a, b>>
  BY <1>2, <1>3, <1>4
<1>6. a.format = "+w" /\ a.width = w /\ a.kids = 1 /\ a.ext = "geoarrow.point"
  BY <1>4, LevelFields DEF Nested
<1>7. b.format = "g" /\ b.name = name /\ b.kids = 0 /\ b.ext = Unnamed
  BY <1>4, LevelFields DEF Nested
<1>8. w = NameLength(name) /\ w > 0 /\ w \in Nat
  BY <1>1, <1>3 DEF NameLength, DimLength
<1>9. Extension(a) = "Point" /\ Extension(b) = "None"
  BY <1>6, <1>7, ExtensionNames
<1>10. Len(p) = 2 /\ p[1] = a /\ p[2] = b /\ p \in Seq({p[i] : i \in DOMAIN p}) /\ p # << >>
  <2>1. Len(p) = 2 /\ p[1] = a /\ p[2] = b /\ p # << >> /\ p \in Seq({a, b})
    BY <1>5
  <2>2. {a, b} = {p[i] : i \in DOMAIN p}
    BY <2>1
  <2>3. QED
    BY <2>1, <2>2
<1>11. IsSchema(p)
  <2>1. \A i \in 1 .. Len(p) : p[i].kids \in Nat /\ (p[i].kids > 0 <=> i < Len(p))
    BY <1>6, <1>7, <1>10
  <2>2. QED
    BY <1>10, <2>1 DEF IsSchema
<1>12. IsPoint(p, 1)
  <2>1. 1 + 1 = 2 /\ 1 <= Len(p) /\ 2 <= Len(p) /\ "None" \in Plain
    BY <1>10 DEF Plain
  <2>2. QED
    BY <1>6, <1>7, <1>8, <1>9, <1>10, <2>1 DEF IsPoint, Named
<1>13. ASSUME NEW n, NameLength(n) = w
       PROVE  \/ DimOf(n) \in {d, "UNKNOWN"}
              \/ {DimOf(n), d} = {"XYZ", "XYM"}
  <2>1. n \in {"xy", "xyz", "xym", "xyzm", "xyzmt", "ab", "item"}
    BY <1>8, <1>13 DEF NameLength, DimLength
  <2>2. /\ w = 2 => n \in {"xy", "ab"} /\ name = "xy"
        /\ w = 3 => n \in {"xyz", "xym"} /\ name \in {"xyz", "xym"}
        /\ w = 4 => n \in {"xyzm", "xyzmt", "item"} /\ name = "xyzm"
        /\ w \in {2, 3, 4}
    BY <1>1, <1>8, <1>13, <2>1 DEF NameLength, DimLength
  <2>3. /\ DimOf("xy") = "XY" /\ DimOf("xyz") = "XYZ" /\ DimOf("xym") = "XYM"
        /\ DimOf("xyzm") = "XYZM" /\ DimOf("xyzmt") = "XYZM"
        /\ DimOf("ab") = "UNKNOWN" /\ DimOf("item") = "UNKNOWN"
    BY DEF DimOf, DimNames
  <2>4. QED
    BY <1>1, <2>2, <2>3
<1>14. QED
  BY <1>1, <1>6, <1>7, <1>10, <1>11, <1>12, <1>13

(* Schemas that are written have the type they are written for, ...        *)
LEMMA WrittenIs ==
  ASSUME NEW d \in {"XY", "XYZ", "XYM", "XYZM"}, NEW t \in Native, NEW large,
         NEW s, s = Written(t, d, large), NEW k, k = PointLevel(t),
         NEW p, p = WrittenPoint(d)
  PROVE  /\ IsSchema(s) /\ OfType(t, s)
         /\ s[k] = p[1] /\ s[k + 1] = p[2]
<1>1. IsSchema(p) /\ Len(p) = 2 /\ IsPoint(p, 1)
  BY PointWritten
<1>2. /\ 1 + 1 = 2 /\ 1 + 2 = 3 /\ 2 + 1 = 3 /\ 3 + 1 = 4 /\ 4 + 1 = 5
      /\ 1 \in 1 .. 2 /\ 2 \in 1 .. 2 /\ 1 \in 1 .. 3 /\ 2 \in 1 .. 3 /\ 3 \in 1 .. 3
      /\ 1 \in 1 .. 4 /\ 2 \in 1 .. 4 /\ 3 \in 1 .. 4 /\ 4 \in 1 .. 4
  OBVIOUS
<1>3. ASSUME NEW e, NEW o, IsSchema(o), NEW r, r = Around(e, o)
      PROVE  /\ IsSchema(r) /\ Len(r) = Len(o) + 1 /\ r[1].ext = e
             /\ \A X : Extension(r[1]) \in X => Lists(r, 1, X)
  <2>1. /\ IsSchema(r) /\ Len(r) = Len(o) + 1 /\ r[1].ext = e /\ Len(o) \in Nat \ {0}
        /\ r[1].format = "+l" /\ r[1].kids = 1
    BY <1>3, AroundIs
  <2>2. 1 <= Len(r)
    BY <2>1
  <2>3. QED
    BY <2>1, <2>2 DEF Lists, Named
<1>4. ASSUME NEW e, NEW o, IsSchema(o), NEW r, r = Around(e, o),
             NEW w \in {2, 3, 4}, w = Len(o)
      PROVE  /\ IsSchema(r) /\ Len(r) = w + 1 /\ r[2] = o[1] /\ r[3] = o[2]
             /\ w = 3 => r[4] = o[3]
             /\ w = 4 => r[4] = o[3] /\ r[5] = o[4]
             /\ IsPoint(o, 1) => IsPoint(r, 2)
             /\ IsLine(o, 1) => IsLine(r, 2)
             /\ IsRing(o, 1) => IsRing(r, 2)
             /\ IsPolygon(o, 1) => IsPolygon(r, 2)
  <2>1. IsSchema(r) /\ Len(r) = w + 1 /\ \A i \in 1 .. w : r[i + 1] = o[i]
    BY <1>4, AroundIs
  <2>2. /\ r[1 + 1] = o[1] /\ r[2 + 1] = o[2] /\ (w > 2 => r[3 + 1] = o[3])
    BY <2>1
  <2>3. w > 3 => r[4 + 1] = o[4]
    BY <2>1
  <2>4. 1 \in 1 .. Len(o)
    BY <1>4
  <2>5. /\ IsPoint(o, 1) => IsPoint(r, 1 + 1)
        /\ IsLine(o, 1) => IsLine(r, 1 + 1)
        /\ IsRing(o, 1) => IsRing(r, 1 + 1)
        /\ IsPolygon(o, 1) => IsPolygon(r, 1 + 1)
    BY <1>4, <2>4, AroundKeeps
  <2>6. QED
    BY <2>1, <2>2, <2>3, <2>5
<1>5. PICK l : l = Around("geoarrow.linestring", p)
  OBVIOUS
<1>6. IsSchema(l) /\ Len(l) = 3 /\ IsLine(l, 1) /\ l[2] = p[1] /\ l[3] = p[2]
  <2>1. IsSchema(l) /\ Len(l) = 3 /\ l[2] = p[1] /\ l[3] = p[2] /\ IsPoint(l, 2)
    <3>1. IsSchema(p) /\ 2 = Len(p) /\ 2 \in {2, 3, 4}
      BY <1>1
    <3>2. QED
      BY <1>1, <1>4, <1>5, <3>1
  <2>2. Lists(l, 1, {"Linestring"})
    BY <1>1, <1>3, <1>5, ExtensionNames
  <2>3. QED
    BY <1>2, <2>1, <2>2 DEF IsLine
<1>7. PICK r : r = Around(Unnamed, p)
  OBVIOUS
<1>8. IsSchema(r) /\ Len(r) = 3 /\ IsRing(r, 1) /\ r[2] = p[1] /\ r[3] = p[2]
  <2>1. IsSchema(r) /\ Len(r) = 3 /\ r[2] = p[1] /\ r[3] = p[2] /\ IsPoint(r, 2)
    <3>1. IsSchema(p) /\ 2 = Len(p) /\ 2 \in {2, 3, 4}
      BY <1>1
    <3>2. QED
      BY <1>1, <1>4, <1>7, <3>1
  <2>2. Lists(r, 1, Plain \cup Collecting \cup {"Linestring"})
    <3>1. Extension(r[1]) = "None"
      BY <1>1, <1>3, <1>7, ExtensionNames
    <3>2. QED
      BY <1>1, <1>3, <1>7, <3>1 DEF Plain
  <2>3. QED
    BY <1>2, <2>1, <2>2 DEF IsRing
<1>9. PICK g : g = Around("geoarrow.polygon", r)
  OBVIOUS
<1>10. IsSchema(g) /\ Len(g) = 4 /\ IsPolygon(g, 1) /\ g[3] = p[1] /\ g[4] = p[2]
  <2>1. IsSchema(g) /\ Len(g) = 4 /\ g[3] = p[1] /\ g[4] = p[2] /\ IsRing(g, 2)
    <3>1. IsSchema(r) /\ 3 = Len(r) /\ 3 \in {2, 3, 4}
      BY <1>8
    <3>2. QED
      BY <1>4, <1>8, <1>9, <3>1
  <2>2. Lists(g, 1, {"Polygon"})
    BY <1>3, <1>8, <1>9, ExtensionNames
  <2>3. QED
    BY <1>2, <2>1, <2>2 DEF IsPolygon
<1>11. CASE t = "POINT"
  BY <1>1, <1>2, <1>11 DEF Written, OfType, PointLevel
<1>12. CASE t = "LINESTRING"
  BY <1>2, <1>5, <1>6, <1>12 DEF Written, WrittenLine, OfType, PointLevel
<1>13. CASE t = "POLYGON"
  BY <1>2, <1>7, <1>9, <1>10, <1>13 DEF Written, WrittenPolygon, OfType, PointLevel
<1>14. CASE t = "MULTIPOINT"
  <2>1. s = Around("geoarrow.multipoint", p) /\ k = 2
    BY <1>14 DEF Written, PointLevel
  <2>2. IsSchema(s) /\ IsPoint(s, 2) /\ s[2] = p[1] /\ s[3] = p[2]
    <3>1. IsSchema(p) /\ 2 = Len(p) /\ 2 \in {2, 3, 4}
      BY <1>1
    <3>2. QED
      BY <1>1, <1>4, <2>1, <3>1
  <2>3. Extension(s[1]) = "MultiPoint"
    BY <1>1, <1>3, <2>1, ExtensionNames
  <2>4. Lists(s, 1, Collecting)
    BY <1>1, <1>3, <2>1, <2>3 DEF Collecting
  <2>5. IsCollection(s, 1)
    BY <1>2, <2>2, <2>4 DEF IsCollection
  <2>6. QED
    BY <1>2, <1>14, <2>1, <2>2, <2>3, <2>5 DEF OfType
<1>15. CASE t = "MULTILINESTRING"
  <2>1. s = Around("geoarrow.multilinestring", l) /\ k = 3
    BY <1>5, <1>15 DEF Written, WrittenLine, PointLevel
  <2>2. IsSchema(s) /\ IsLine(s, 2) /\ s[3] = p[1] /\ s[4] = p[2]
    <3>1. IsSchema(l) /\ 3 = Len(l) /\ 3 \in {2, 3, 4}
      BY <1>6
    <3>2. QED
      BY <1>4, <1>6, <2>1, <3>1
  <2>3. Extension(s[1]) = "MultiLinestring"
    BY <1>3, <1>6, <2>1, ExtensionNames
  <2>4. Lists(s, 1, Collecting)
    BY <1>3, <1>6, <2>1, <2>3 DEF Collecting
  <2>5. IsCollection(s, 1)
    BY <1>2, <2>2, <2>4 DEF IsCollection
  <2>6. QED
    BY <1>2, <1>15, <2>1, <2>2, <2>3, <2>5 DEF OfType
<1>16. CASE t = "MULTIPOLYGON"
  <2>1. s = Around("geoarrow.multipolygon", g) /\ k = 4
    BY <1>7, <1>9, <1>16 DEF Written, WrittenPolygon, PointLevel
  <2>2. IsSchema(s) /\ IsPolygon(s, 2) /\ s[4] = p[1] /\ s[5] = p[2]
    <3>1. IsSchema(g) /\ 4 = Len(g) /\ 4 \in {2, 3, 4}
      BY <1>10
    <3>2. QED
      BY <1>4, <1>10, <2>1, <3>1
  <2>3. Extension(s[1]) = "MultiPolygon"
    BY <1>3, <1>10, <2>1, ExtensionNames
  <2>4. Lists(s, 1, Collecting)
    BY <1>3, <1>10, <2>1, <2>3 DEF Collecting
  <2>5. IsCollection(s, 1)
    BY <1>2, <2>2, <2>4 DEF IsCollection
  <2>6. QED
    BY <1>2, <1>16, <2>1, <2>2, <2>3, <2>5 DEF OfType
<1>17. QED
  BY <1>11, <1>12, <1>13, <1>14, <1>15, <1>16 DEF Native

(* ... and so do schemas of the same format, cast to the same type, whose  *)
(* dimensions have other names of the same length.                         *)
LEMMA FormatIs ==
  ASSUME NEW d \in {"XY", "XYZ", "XYM", "XYZM"}, NEW t \in Native, NEW large,
         NEW s, IsSchema(s), FormatIdentical(Written(t, d, large), s), CastTarget(s) = t
  PROVE  /\ MetaOf(s).type = t
         /\ \/ MetaOf(s).dim \in {d, "UNKNOWN"}
            \/ {MetaOf(s).dim, d} = {"XYZ", "XYM"}
<1>1. PICK k, p, o : k = PointLevel(t) /\ p = WrittenPoint(d) /\ o = Written(t, d, large)
  OBVIOUS
<1>2. IsSchema(o) /\ OfType(t, o) /\ o[k] = p[1]
  BY <1>1, WrittenIs
<1>3. PICK m : m = Metas(s) /\ MetaOf(s) = m[1]
  BY DEF MetaOf
<1>4. \A i \in 1 .. Len(s) : s[i].width = o[i].width /\ s[i].ext = o[i].ext
  BY <1>1 DEF FormatIdentical
<1>5. 1 \in 1 .. Len(s)
  <2>1. PICK w \in Nat \ {0} : 1 .. Len(s) = 1 .. w
    BY SchemaLevels
  <2>2. QED
    BY <2>1
<1>6. ASSUME m[1].ext \in Collecting
      PROVE  /\ IsCollection(s, 1) /\ m[1].ext = Extension(s[1])
             /\ Extension(o[2]) = "Point" => IsPoint(s, 2)
             /\ Extension(o[2]) = "Linestring" => IsLine(s, 2)
             /\ Extension(o[2]) = "Polygon" => IsPolygon(s, 2)
  <2>1. IsCollection(s, 1) /\ m[1].ext = Extension(s[1]) /\ 1 + 1 \in 1 .. Len(s)
    BY <1>3, <1>5, <1>6, CollectionMeaning
  <2>2. 2 \in 1 .. Len(s) /\ (IsPoint(s, 2) \/ IsLine(s, 2) \/ IsPolygon(s, 2))
    <3>1. 1 + 1 = 2
      OBVIOUS
    <3>2. QED
      BY <2>1, <3>1 DEF IsCollection
  <2>3. Extension(s[2]) = Extension(o[2])
    <3>1. s[2].ext = o[2].ext
      BY <1>4, <2>2
    <3>2. QED
      BY <3>1 DEF Extension
  <2>4. /\ IsPoint(s, 2) => Extension(s[2]) = "Point"
        /\ IsLine(s, 2) => Extension(s[2]) = "Linestring"
        /\ IsPolygon(s, 2) => Extension(s[2]) = "Polygon"
    BY DEF IsPoint, IsLine, IsPolygon, Lists, Named
  <2>5. QED
    BY <2>1, <2>2, <2>3, <2>4
<1>7. OfType(t, s)
  <2>1. CASE t \in {"POINT", "LINESTRING", "POLYGON"}
    BY <1>3, <1>5, <2>1, CastTargets, PointMeaning, LineMeaning, PolygonMeaning DEF OfType
  <2>2. CASE t = "MULTIPOINT"
    <3>1. m[1].ext = "MultiPoint" /\ Extension(o[2]) = "Point"
      BY <1>2, <1>3, <2>2, CastTargets DEF OfType, IsPoint, Named
    <3>2. QED
      BY <1>6, <2>2, <3>1 DEF OfType, Collecting
  <2>3. CASE t = "MULTILINESTRING"
    <3>1. m[1].ext = "MultiLinestring" /\ Extension(o[2]) = "Linestring"
      BY <1>2, <1>3, <2>3, CastTargets DEF OfType, IsLine, Lists, Named
    <3>2. QED
      BY <1>6, <2>3, <3>1 DEF OfType, Collecting
  <2>4. CASE t = "MULTIPOLYGON"
    <3>1. m[1].ext = "MultiPolygon" /\ Extension(o[2]) = "Polygon"
      BY <1>2, <1>3, <2>4, CastTargets DEF OfType, IsPolygon, Lists, Named
    <3>2. QED
      BY <1>6, <2>4, <3>1 DEF OfType, Collecting
  <2>5. QED
    BY <2>1, <2>2, <2>3, <2>4 DEF Native
<1>8. /\ MetaOf(s).type = t /\ MetaOf(s).dim = DimOf(s[k + 1].name)
      /\ IsPoint(s, k) /\ k \in 1 .. Len(s)
  BY <1>1, <1>7, TypeIs
<1>9. s[k].width = NameLength(s[k + 1].name) /\ s[k].width = p[1].width
  BY <1>2, <1>4, <1>8 DEF IsPoint
<1>10. \A n : NameLength(n) = p[1].width =>
          \/ DimOf(n) \in {d, "UNKNOWN"}
          \/ {DimOf(n), d} = {"XYZ", "XYM"}
  BY <1>1, PointWritten
<1>11. QED
  BY <1>8, <1>9, <1>10

(* WKB and WKT that are written, and the same formats.                     *)
LEMMA SerializedIs ==
  ASSUME NEW d, NEW t \in {"WKB", "WKT"}, NEW large, NEW s, IsSchema(s),
         \/ s = Written(t, d, large)
         \/ FormatIdentical(Written(t, d, large), s) /\ CastTarget(s) = t
  PROVE  MetaOf(s).ext = t /\ ReaderOf(s) # "none"
<1>1. PICK o, l : /\ o = Written(t, d, large) /\ o = <<l>> /\ o[1] = l
                  /\ l.format \in IF t = "WKB" THEN {"z", "Z"} ELSE {"u", "U"}
                  /\ Extension(l) = t
  <2>1. PICK f : /\ f = IF t = "WKB" THEN IF large THEN "Z" ELSE "z"
                     ELSE IF large THEN "U" ELSE "u"
                 /\ f \in IF t = "WKB" THEN {"z", "Z"} ELSE {"u", "U"}
    OBVIOUS
  <2>2. PICK e : /\ e = IF t = "WKB" THEN "geoarrow.wkb" ELSE "geoarrow.wkt"
    OBVIOUS
  <2>3. PICK l : l = Level(f, 0, Unnamed, e)
    OBVIOUS
  <2>4. Written(t, d, large) = <<l>>
    BY <2>1, <2>2, <2>3 DEF Written
  <2>5. l.format = f /\ l.ext = e
    BY <2>3, LevelFields
  <2>6. Extension(l) = t
    BY <2>2, <2>5, ExtensionNames
  <2>7. QED
    BY <2>1, <2>4, <2>5, <2>6
<1>2. 1 \in 1 .. Len(s)
  <2>1. PICK w \in Nat \ {0} : 1 .. Len(s) = 1 .. w
    BY SchemaLevels
  <2>2. QED
    BY <2>1
<1>3. s[1].format = l.format /\ s[1].ext = l.ext
  BY <1>1, <1>2 DEF FormatIdentical
<1>4. MetaOf(s).ext = t
  <2>1. Extension(s[1]) = t
    BY <1>1, <1>3 DEF Extension
  <2>2. ContainerValid(s[1])
    BY <1>1, <1>3 DEF ContainerValid
  <2>3. QED
    BY <1>2, <2>1, <2>2, MeaningOf DEF MetaOf, Plain
<1>5. QED
  BY <1>1, <1>3, <1>4 DEF ReaderOf

(***************************************************************************)
(* What a cast accepts and returns: the schemas                            *)
(***************************************************************************)

(* All schemas written are schemas.                                        *)
LEMMA WrittenSchema ==
  ASSUME NEW d \in AllDims, NEW t \in Native \cup {"WKB", "WKT"}, NEW large
  PROVE  IsSchema(Written(t, d, large))
<1>1. CASE t \in Native
  BY <1>1, WrittenIs DEF AllDims
<1>2. CASE t \in {"WKB", "WKT"}
  <2>1. PICK f, e : Written(t, d, large) = <<Level(f, 0, Unnamed, e)>> /\ f \notin Nested
    BY <1>2 DEF Written, Nested
  <2>2. PICK l : l = Level(f, 0, Unnamed, e) /\ l.kids = 0
    BY <2>1, LevelFields
  <2>3. Written(t, d, large) = <<l>>
    BY <2>1, <2>2
  <2>4. PICK s : s = <<l>>
    OBVIOUS
  <2>5. Len(s) = 1 /\ s[1] = l /\ s # << >> /\ s \in Seq({l})
    BY <2>4
  <2>6. {l} = {s[i] : i \in DOMAIN s}
    BY <2>5
  <2>7. \A i \in 1 .. Len(s) : s[i].kids \in Nat /\ (s[i].kids > 0 <=> i < Len(s))
    BY <2>2, <2>5
  <2>8. IsSchema(s)
    BY <2>5, <2>6, <2>7 DEF IsSchema
  <2>9. QED
    BY <2>3, <2>4, <2>8
<1>3. QED
  BY <1>1, <1>2

(* What is known of the schemas: nothing is returned before all is read,   *)
(* and then what was written for the dimensions announced last, or what    *)
(* was asked for if it has the same format.                                *)
Announced == IF dim = "UNKNOWN" THEN "XY" ELSE dim
Large == strict /\ to[1].format \in {"Z", "U"}

SchemasInv ==
  /\ IsSchema(from) /\ IsSchema(to)
  /\ target = CastTarget(to)
  /\ view = "rejected" <=> ReaderOf(from) = "none" \/ target = "none"
  /\ out # NoSchema => phase = "read" /\ view = "open"
  /\ out \notin {NoSchema, Refused} =>
       LET written == Written(target, Announced, Large)
       IN IF ~strict THEN out = written ELSE FormatIdentical(written, to) /\ out = to

(* Before a schema is released nothing is claimed of it.                  *)
LEMMA SchemasInvInit == Init => SchemasInv
<1> SUFFICES ASSUME Init PROVE SchemasInv
  OBVIOUS
<1>1. SchemaInit(PlainFrom, {PlainTo}) \/ SchemaInit(AnyFrom, {PlainTo})
        \/ SchemaInit(DescribedFrom, AnyTo)
  BY DEF Init, SchemasInit
<1>2. /\ target = CastTarget(to) /\ out = NoSchema
      /\ view = "rejected" <=> ReaderOf(from) = "none" \/ target = "none"
  BY <1>1 DEF SchemaInit
<1>3. IsSchema(PlainTo)
  BY WrittenSchema DEF PlainTo, AllDims
<1>4. \A s \in PlainFrom : IsSchema(s)
  <2>1. ASSUME NEW t \in PlainTypes PROVE IsSchema(Written(t, "XY", FALSE))
    <3>1. t \in Native
      BY SchemasAssumption DEF SimpleTypes, MultiTypes, Native
    <3>2. QED
      BY <3>1, WrittenSchema DEF AllDims
  <2>2. IsSchema(Written("WKB", "XY", FALSE))
    BY WrittenSchema DEF AllDims
  <2>3. QED
    BY <1>3, <2>1, <2>2 DEF PlainFrom
<1>5. \A s \in DescribedFrom : IsSchema(s)
  <2>1. ASSUME NEW d \in Dims PROVE IsSchema(Written("LINESTRING", d, FALSE))
    BY ReaderAssumption, WrittenSchema DEF Native
  <2>2. IsSchema(Written("WKB", "XY", FALSE))
    BY WrittenSchema DEF AllDims
  <2>3. QED
    BY <2>1, <2>2 DEF DescribedFrom
<1>6. \A s \in AnyFrom \cup AnyTo : IsSchema(s)
  BY SchemasAssumption
<1>7. IsSchema(from) /\ IsSchema(to)
  BY <1>1, <1>3, <1>4, <1>5, <1>6 DEF SchemaInit
<1>8. QED
  BY <1>2, <1>7 DEF SchemasInv

(* When all is read, no reader takes a step.                               *)
LEMMA ReadIsRead == phase = "read" /\ [ReaderNext]_readerVars => UNCHANGED readerVars
BY DEF ReaderNext, ReadMeta, FeatStart, NullFeat, CallUnwinds, RingStart, Coords, RingEnd,
       GeomEnd, FeatEnd, ReadDone

(* What is released is what the invariant says, and stays.                 *)
LEMMA SchemasInvStep ==
  ASSUME IInv, SchemasInv, [Next]_vars
  PROVE  SchemasInv'
<1>1. [ReaderNext]_readerVars
  BY IInvStep
<1>2. phase = "read" => UNCHANGED <<phase, dim>>
  BY <1>1, ReadIsRead DEF readerVars
<1>3. CASE UNCHANGED schemaVars
  <2>1. UNCHANGED <<from, to, strict, target, view, out>>
    BY <1>3 DEF schemaVars
  <2>2. (out # NoSchema => phase = "read" /\ view = "open")'
    BY <1>2, <2>1 DEF SchemasInv
  <2>3. out \notin {NoSchema, Refused} => Announced' = Announced /\ Large' = Large
    BY <1>2, <2>1 DEF SchemasInv, Announced, Large
  <2>4. QED
    BY <2>1, <2>2, <2>3 DEF SchemasInv
<1>4. CASE phase = "read" /\ Finish(dim)
  <2>1. UNCHANGED <<from, to, strict, target, view>> /\ view = "open"
    BY <1>4 DEF Finish
  <2>2. UNCHANGED <<phase, dim>>
    BY <1>2, <1>4
  <2>3. Announced' = Announced /\ Large' = Large
    BY <2>1, <2>2 DEF Announced, Large
  <2>4. out' = IF ~strict THEN Written(target, Announced, Large)
               ELSE IF FormatIdentical(Written(target, Announced, Large), to) THEN to ELSE Refused
    BY <1>4 DEF Finish, Announced, Large
  <2>5. QED
    BY <1>4, <2>1, <2>2, <2>3, <2>4 DEF SchemasInv
<1>5. QED
  BY <1>3, <1>4 DEF Next, Progress, Stopped, vars

(* A schema is accepted exactly if it is one of the format, however many   *)
(* levels it has and whatever they are: the checks of a level, its child   *)
(* and its grandchild add up to a grammar (meta.hpp:58-281,                *)
(* factory.hpp:55-86).                                                     *)
THEOREM SchemasAccepted == Spec => []AcceptedExactly
<1>1. SchemasInv => AcceptedExactly
  BY ReaderMeaning DEF SchemasInv, AcceptedExactly
<1>2. QED
  BY <1>1, IInvInit, IInvStep, SchemasInvInit, SchemasInvStep, PTL DEF Spec

(* What a cast returns is read back as the type that was asked for, with   *)
(* the dimensions announced last, or, for a strict cast, with others that  *)
(* have as many ordinates (compute-builder.hpp:113-123,                    *)
(* arrow-hpp/schema.hpp:265-302).                                          *)
THEOREM SchemasReadable == Spec => []CastReadable
<1>1. ASSUME IInv, SchemasInv PROVE CastReadable
  <2> SUFFICES ASSUME out \notin {NoSchema, Refused}
               PROVE  IF target \in {"WKB", "WKT"}
                      THEN MetaOf(out).ext = target /\ ReaderOf(out) # "none"
                      ELSE /\ MetaOf(out).type = target
                           /\ \/ dim \in {MetaOf(out).dim, "UNKNOWN"}
                              \/ /\ strict
                                 /\ {MetaOf(out).dim, dim} \in {{"XYZ", "XYM"}, {"UNKNOWN", dim}}
    BY DEF CastReadable, OutputReadable
  <2>1. PICK d \in AllDims : d = Announced /\ (dim = d \/ dim = "UNKNOWN")
    BY <1>1, ReaderAssumption DEF IInv, ReaderInv, ReaderTypeOK, Announced, Unknown, AllDims
  <2>2. /\ IF ~strict THEN out = Written(target, d, Large)
           ELSE FormatIdentical(Written(target, d, Large), to) /\ out = to
        /\ target = CastTarget(to) /\ IsSchema(to) /\ target # "none"
    BY <1>1, <2>1 DEF SchemasInv
  <2>3. target \in Native \cup {"WKB", "WKT"}
    BY <2>2, CastTargets DEF Native
  <2>4. CASE target \in {"WKB", "WKT"}
    <3>1. IsSchema(out)
      BY <2>2, <2>3, WrittenSchema
    <3>2. QED
      BY <2>2, <2>4, <3>1, SerializedIs
  <2>5. CASE target \in Native /\ ~strict
    <3>1. PICK k, p : k = PointLevel(target) /\ p = WrittenPoint(d)
      OBVIOUS
    <3>2. out = Written(target, d, Large) /\ d \in {"XY", "XYZ", "XYM", "XYZM"}
      BY <2>2, <2>5 DEF AllDims
    <3>3. IsSchema(out) /\ OfType(target, out) /\ out[k + 1] = p[2]
      BY <2>5, <3>1, <3>2, WrittenIs
    <3>4. MetaOf(out).type = target /\ MetaOf(out).dim = DimOf(out[k + 1].name)
      BY <2>5, <3>1, <3>3, TypeIs
    <3>5. DimOf(p[2].name) = d
      BY <3>1, <3>2, PointWritten
    <3>6. target \notin {"WKB", "WKT"}
      BY <2>5 DEF Native
    <3>7. QED
      BY <2>1, <3>3, <3>4, <3>5, <3>6
  <2>6. CASE target \in Native /\ strict
    <3>1. /\ FormatIdentical(Written(target, d, Large), to) /\ out = to
          /\ d \in {"XY", "XYZ", "XYM", "XYZM"}
      BY <2>2, <2>6 DEF AllDims
    <3>2. /\ MetaOf(out).type = target
          /\ \/ MetaOf(out).dim \in {d, "UNKNOWN"}
             \/ {MetaOf(out).dim, d} = {"XYZ", "XYM"}
      BY <2>2, <2>6, <3>1, FormatIs
    <3>3. target \notin {"WKB", "WKT"}
      BY <2>6 DEF Native
    <3>4. QED
      BY <2>1, <2>6, <3>2, <3>3
  <2>7. QED
    BY <2>3, <2>4, <2>5, <2>6
<1>2. QED
  BY <1>1, IInvInit, IInvStep, SchemasInvInit, SchemasInvStep, PTL DEF Spec
=============================================================================
