------------------------- MODULE FeatureReader_proofs -------------------------
(***************************************************************************)
(* Lemmas about the read loop: every call keeps its types and the shape of *)
(* its stack, for any reader and whatever result the handler returns. The  *)
(* modules that conjoin a handler to the calls cite them.                  *)
(***************************************************************************)
EXTENDS FeatureReader, SequenceTheorems, TLAPS

ReaderInv == ReaderTypeOK /\ StackWellFormed

(* The read loop starts with nothing open (array-view-base.hpp:61-70).     *)
LEMMA ReaderInitInv == ReaderInit => ReaderInv
BY DEF ReaderInit, ReaderInv, ReaderTypeOK, StackWellFormed, Phases, Unknown

(* Finishing a feature appends one entry and closes everything.            *)
LEMMA EndFeatureInv ==
  ASSUME ReaderInv, NEW f \in FeatureType, EndFeature(f),
         UNCHANGED <<reader, meta>>, dim' \in Dims \cup {Unknown}
  PROVE  /\ ReaderInv'
         /\ Len(features') = Len(features) + 1
         /\ features'[Len(features) + 1] = f
         /\ \A i \in 1 .. Len(features) : features'[i] = features[i]
<1>1. features' \in Seq(FeatureType)
  BY DEF ReaderInv, ReaderTypeOK, EndFeature
<1>2. ReaderInv'
  BY <1>1 DEF ReaderInv, ReaderTypeOK, StackWellFormed, EndFeature, Phases
<1>3. QED
  BY <1>2, AppendProperties DEF ReaderInv, ReaderTypeOK, EndFeature

(* The features a reader reports are either null or carry their parts.     *)
LEMMA FeatureTypes ==
  ASSUME ReaderInv
  PROVE  NullFeature \in FeatureType /\ Feature(cur) \in FeatureType
BY DEF ReaderInv, ReaderTypeOK, NullFeature, Feature, FeatureType

(* An unwinding (HANDLE_OR_RETURN) closes every open geometry.             *)
LEMMA UnwindInv ==
  ASSUME ReaderInv, NEW r \in Results, NEW f \in FeatureType, Unwind(r, f),
         UNCHANGED <<reader, meta>>, dim' \in Dims \cup {Unknown}
  PROVE  ReaderInv'
<1>1. CASE EndFeature(f)
  BY <1>1, EndFeatureInv
<1>2. CASE /\ phase' \in {"read", "failed"}
           /\ stack' = << >> /\ cur' = << >>
           /\ UNCHANGED features
  BY <1>2 DEF ReaderInv, ReaderTypeOK, StackWellFormed, Phases
<1>3. QED
  BY <1>1, <1>2 DEF Unwind

(* Counting parts of the innermost geometry changes nothing else.          *)
LEMMA CountOneProperties ==
  ASSUME ReaderInv, stack # << >>, NEW n \in Nat
  PROVE  /\ CountOne(n) \in Seq(FrameType)
         /\ Len(CountOne(n)) = Len(stack)
         /\ \A i \in 1 .. Len(stack) : CountOne(n)[i].type = stack[i].type
<1>1. /\ stack \in Seq(FrameType)
      /\ Len(stack) \in Nat \ {0}
      /\ stack[Len(stack)] \in FrameType
  BY EmptySeq, ElementOfSeq, LenProperties DEF ReaderInv, ReaderTypeOK
<1> DEFINE e == Counted(stack[Len(stack)], n)
<1>2. e \in FrameType /\ e.type = stack[Len(stack)].type
  BY <1>1 DEF FrameType, Counted
<1>3. CountOne(n) = [stack EXCEPT ![Len(stack)] = e]
  BY <1>1 DEF CountOne
<1>4. QED
  BY <1>1, <1>2, <1>3, ExceptSeq

(* Opening a frame keeps the stack well formed unless a ring is on top.    *)
LEMMA PushInv ==
  ASSUME ReaderInv, NEW f \in FrameType, NEW s,
         s = IF stack = << >> THEN stack ELSE CountOne(1),
         stack # << >> => Top.type # "RING",
         stack = << >> => f.type # "RING"
  PROVE  /\ Append(s, f) \in Seq(FrameType)
         /\ Append(s, f) # << >>
         /\ Len(Append(s, f)) = Len(stack) + 1
         /\ Append(s, f)[1].type # "RING"
         /\ Append(s, f)[1].type = IF stack = << >> THEN f.type ELSE stack[1].type
         /\ Append(s, f)[Len(stack) + 1] = f
         /\ \A i \in 1 .. Len(Append(s, f)) :
              Append(s, f)[i].type = "RING" => i = Len(Append(s, f))
<1>1. /\ s \in Seq(FrameType)
      /\ Len(s) = Len(stack) /\ Len(s) \in Nat
      /\ \A i \in 1 .. Len(s) : s[i].type = stack[i].type
  BY CountOneProperties, LenProperties DEF ReaderInv, ReaderTypeOK
<1>2. /\ Append(s, f) \in Seq(FrameType)
      /\ Len(Append(s, f)) = Len(s) + 1
      /\ \A i \in 1 .. Len(s) : Append(s, f)[i] = s[i]
      /\ Append(s, f)[Len(s) + 1] = f
      /\ Append(s, f) # << >>
  BY <1>1, AppendProperties
<1>3. \A i \in 1 .. Len(s) : s[i].type # "RING"
  BY <1>1 DEF ReaderInv, StackWellFormed, Top
<1>4. stack = << >> <=> Len(s) = 0
  BY <1>1, EmptySeq DEF ReaderInv, ReaderTypeOK
<1>5. QED
  BY <1>1, <1>2, <1>3, <1>4

(* Popping the innermost frame keeps the others.                           *)
LEMMA PopInv ==
  ASSUME ReaderInv, stack # << >>, NEW s, s = SubSeq(stack, 1, Len(stack) - 1)
  PROVE  /\ s \in Seq(FrameType)
         /\ Len(s) = Len(stack) - 1
         /\ s = << >> <=> Len(stack) = 1
         /\ \A i \in 1 .. Len(s) : s[i] = stack[i] /\ s[i].type # "RING"
<1>1. /\ stack \in Seq(FrameType)
      /\ Len(stack) \in Nat \ {0}
      /\ \A i \in 1 .. Len(stack) : stack[i] \in FrameType
  BY EmptySeq, ElementOfSeq, LenProperties DEF ReaderInv, ReaderTypeOK
<1> DEFINE n == Len(stack) - 1
<1>2. n \in Nat /\ \A i \in 1 .. n : stack[i] \in FrameType
  BY <1>1
<1>3. /\ s \in Seq(FrameType)
      /\ Len(s) = Len(stack) - 1
      /\ \A i \in 1 .. Len(stack) - 1 : s[i] = stack[i]
  <2> HIDE DEF n
  <2>1. s = SubSeq(stack, 1, n)
    BY DEF n
  <2>2. /\ s \in Seq(FrameType)
        /\ Len(s) = IF 1 <= n THEN n - 1 + 1 ELSE 0
        /\ \A i \in 1 .. n - 1 + 1 : s[i] = stack[1 + i - 1]
    BY <1>2, <2>1, SubSeqProperties
  <2>3. Len(s) = n /\ \A i \in 1 .. n : s[i] = stack[i]
    BY <1>2, <2>2
  <2>4. QED
    BY <2>2, <2>3 DEF n
<1>4. \A i \in 1 .. Len(s) : stack[i].type # "RING"
  BY <1>1, <1>3 DEF ReaderInv, StackWellFormed
<1>5. s = << >> <=> Len(s) = 0
  BY <1>3, EmptySeq
<1>6. QED
  BY <1>1, <1>3, <1>4, <1>5

(* The innermost frame is one of the open ones.                            *)
LEMMA TopFrame ==
  ASSUME ReaderInv, phase = "geometry"
  PROVE  /\ stack \in Seq(FrameType) /\ Len(stack) \in Nat \ {0}
         /\ Top = stack[Len(stack)] /\ Top \in FrameType
         /\ \A i \in 1 .. Len(stack) : stack[i] \in FrameType
         /\ \A i \in 1 .. Len(stack) - 1 : stack[i].type # "RING"
         /\ stack # << >> /\ stack[1].type # "RING"
<1>1. stack \in Seq(FrameType) /\ stack # << >>
  BY DEF ReaderInv, ReaderTypeOK, StackWellFormed
<1>2. Len(stack) \in Nat \ {0} /\ \A i \in 1 .. Len(stack) : stack[i] \in FrameType
  BY <1>1, EmptySeq, ElementOfSeq, LenProperties
<1>3. QED
  BY <1>1, <1>2 DEF Top, ReaderInv, StackWellFormed

(* Counting changes the count of the innermost frame.                      *)
LEMMA CountFrames ==
  ASSUME ReaderInv, phase = "geometry", NEW n \in Nat
  PROVE  /\ CountOne(n) \in Seq(FrameType) /\ Len(CountOne(n)) = Len(stack)
         /\ CountOne(n)[Len(stack)] = Counted(Top, n)
         /\ \A i \in 1 .. Len(stack) - 1 : CountOne(n)[i] = stack[i]
<1>1. /\ stack \in Seq(FrameType) /\ Len(stack) \in Nat \ {0} /\ stack # << >>
      /\ Top = stack[Len(stack)]
  BY TopFrame
<1>2. CountOne(n) = [stack EXCEPT ![Len(stack)] = Counted(Top, n)]
  BY <1>1 DEF CountOne
<1>3. DOMAIN stack = 1 .. Len(stack)
  BY <1>1, LenProperties
<1>4. /\ CountOne(n)[Len(stack)] = Counted(Top, n)
      /\ \A i \in 1 .. Len(stack) - 1 : CountOne(n)[i] = stack[i]
  <2> DEFINE l == Len(stack)
             e == Counted(Top, n)
             c == CountOne(n)
  <2> HIDE DEF l, e, c
  <2>1. c = [stack EXCEPT ![l] = e] /\ DOMAIN stack = 1 .. l /\ l \in Nat \ {0}
    BY <1>1, <1>2, <1>3 DEF l, e, c
  <2>2. c[l] = e /\ \A i \in 1 .. l - 1 : c[i] = stack[i]
    BY <2>1
  <2>3. QED
    BY <2>2 DEF l, e, c
<1>5. QED
  BY <1>1, <1>4, CountOneProperties

(* Opening a part counts it in its parent and puts a new frame on top.     *)
LEMMA PushFrames ==
  ASSUME ReaderInv, phase = "geometry", NEW f \in FrameType,
         stack' = Append(CountOne(1), f)
  PROVE  /\ Len(stack') = Len(stack) + 1
         /\ stack'[Len(stack) + 1] = f
         /\ stack'[Len(stack)] = Counted(Top, 1)
         /\ \A i \in 1 .. Len(stack) - 1 : stack'[i] = stack[i]
<1>1. /\ CountOne(1) \in Seq(FrameType) /\ Len(CountOne(1)) = Len(stack)
      /\ CountOne(1)[Len(stack)] = Counted(Top, 1)
      /\ \A i \in 1 .. Len(stack) - 1 : CountOne(1)[i] = stack[i]
  BY CountFrames
<1>2. Len(stack) \in Nat \ {0}
  BY TopFrame
<1> DEFINE c == CountOne(1)
<1> HIDE DEF c
<1>3. c \in Seq(FrameType) /\ Len(c) = Len(stack) /\ stack' = Append(c, f)
  BY <1>1 DEF c
<1>4. /\ Len(stack') = Len(c) + 1 /\ stack'[Len(c) + 1] = f
      /\ \A i \in 1 .. Len(c) : stack'[i] = c[i]
  BY <1>3, AppendProperties
<1>5. QED
  BY <1>1, <1>2, <1>3, <1>4 DEF c

(* The first geometry of a feature is alone on the stack.                  *)
LEMMA PushFirst ==
  ASSUME NEW f \in FrameType, stack' = Append(<< >>, f)
  PROVE  Len(stack') = 1 /\ stack'[1] = f
BY AppendProperties

(* The parts of the feature being read stay sequences of lengths.          *)
LEMMA RingStartParts ==
  ASSUME NEW c \in Seq(Seq(Nat))
  PROVE  [c EXCEPT ![Len(c)] = Append(@, 0)] \in Seq(Seq(Nat))
<1>1. Len(c) \in Nat /\ DOMAIN c = 1 .. Len(c)
  BY LenProperties
<1>2. CASE Len(c) = 0
  <2>1. [c EXCEPT ![Len(c)] = Append(@, 0)] = c
    BY <1>1, <1>2, EmptySeq
  <2>2. QED
    BY <2>1
<1>3. CASE Len(c) # 0
  <2>1. Len(c) \in 1 .. Len(c)
    BY <1>1, <1>3
  <2>2. c[Len(c)] \in Seq(Nat)
    BY <2>1, ElementOfSeq
  <2>3. Append(c[Len(c)], 0) \in Seq(Nat)
    BY <2>2, AppendProperties
  <2>4. QED
    BY <2>1, <2>3, ExceptSeq
<1>4. QED
  BY <1>2, <1>3

(* coords() keeps a sequence of ring lengths a sequence of naturals.       *)
LEMMA CoordsRing ==
  ASSUME NEW c \in Seq(Nat), NEW n \in Nat
  PROVE  LastPlus(c, n) \in Seq(Nat)
<1>1. Len(c) \in Nat /\ DOMAIN c = 1 .. Len(c)
  BY LenProperties
<1>2. CASE Len(c) = 0
  <2>1. LastPlus(c, n) = c
    BY <1>1, <1>2, EmptySeq DEF LastPlus
  <2>2. QED
    BY <2>1
<1>3. CASE Len(c) # 0
  <2>1. Len(c) \in 1 .. Len(c)
    BY <1>1, <1>3
  <2>2. c[Len(c)] + n \in Nat
    BY <2>1, ElementOfSeq
  <2>3. QED
    BY <2>1, <2>2, ExceptSeq DEF LastPlus
<1>4. QED
  BY <1>2, <1>3

(* coords() keeps the parts of the current feature well typed.             *)
LEMMA CoordsParts ==
  ASSUME NEW c \in Seq(Seq(Nat)), NEW n \in Nat
  PROVE  [c EXCEPT ![Len(c)] = LastPlus(@, n)] \in Seq(Seq(Nat))
<1>1. Len(c) \in Nat /\ DOMAIN c = 1 .. Len(c)
  BY LenProperties
<1>2. CASE Len(c) = 0
  <2>1. [c EXCEPT ![Len(c)] = LastPlus(@, n)] = c
    BY <1>1, <1>2, EmptySeq
  <2>2. QED
    BY <2>1
<1>3. CASE Len(c) # 0
  <2>1. Len(c) \in 1 .. Len(c)
    BY <1>1, <1>3
  <2>2. LastPlus(c[Len(c)], n) \in Seq(Nat)
    BY <2>1, ElementOfSeq, CoordsRing
  <2>3. QED
    BY <2>1, <2>2, ExceptSeq
<1>4. QED
  BY <1>2, <1>3

(***************************************************************************)
(* One lemma per call.                                                     *)
(***************************************************************************)

(* read_meta() keeps the invariant of the read loop and reads no feature.  *)
LEMMA ReadMetaInv ==
  ASSUME ReaderInv, NEW t, NEW d, ReadMeta(t, d)
  PROVE  ReaderInv' /\ UNCHANGED features
<1>1. t \in GeometryTypes \cup {Unknown} /\ d \in Dims \cup {Unknown}
  BY ReaderAssumption DEF ReadMeta
<1>2. QED
  BY <1>1 DEF ReaderInv, ReaderTypeOK, StackWellFormed, ReadMeta, Phases

(* feat_start() keeps the invariant of the read loop and opens no geometry.*)
LEMMA FeatStartInv ==
  ASSUME ReaderInv, FeatStart
  PROVE  ReaderInv' /\ UNCHANGED <<features, stack>>
BY DEF ReaderInv, ReaderTypeOK, StackWellFormed, FeatStart, Phases

(* null_feat() keeps the invariant of the read loop, whatever its result.  *)
LEMMA NullFeatInv ==
  ASSUME ReaderInv, NEW r \in Results, NullFeat(r)
  PROVE  ReaderInv'
<1>1. CASE r = "CONTINUE"
  BY <1>1 DEF ReaderInv, ReaderTypeOK, StackWellFormed, NullFeat, Phases, Unwind
<1>2. CASE Unwind(r, NullFeature)
  BY <1>2, UnwindInv, FeatureTypes DEF NullFeat, ReaderInv, ReaderTypeOK
<1>3. QED
  BY <1>1, <1>2 DEF NullFeat

(* A type that is known leaves the answer of the handler as it is; one that*)
(* is not never lets the reader go on.                                     *)
LEMMA KnownOutcome == ASSUME NEW t \in GeometryTypes, NEW r PROVE Outcome(t, r) = r
  BY DEF Outcome, Unrecognized, GeometryTypes, SimpleTypes, MultiTypes

(* A type the reader does not know is never read, whatever the handler     *)
(* answers: it throws if told to go on.                                    *)
LEMMA UnrecognizedOutcome ==
  ASSUME NEW r \in Results
  PROVE  /\ Outcome(Unrecognized, r) \in Results
         /\ Outcome(Unrecognized, r) # "CONTINUE"
  BY DEF Outcome, Results

(* The outcome is an answer, and reading goes on for known types only.     *)
LEMMA OutcomeTypes ==
  ASSUME NEW t \in GeometryTypes \cup {Unrecognized}, NEW r \in Results
  PROVE  /\ Outcome(t, r) \in Results
         /\ Outcome(t, r) = "CONTINUE" => t \in GeometryTypes
  BY KnownOutcome, UnrecognizedOutcome

(* Geometries begin in the feature or in a geometry that has parts.        *)
LEMMA PartsAreOfCollections ==
  ASSUME NEW t, PartsRead(t) # {}
  PROVE  t \in MultiTypes \cup {"GEOMETRYCOLLECTION"}
  BY DEF PartsRead, PartTypes, MultiTypes

(* geom_start() with a type the reader does not know ends the feature or   *)
(* the array.                                                              *)
LEMMA UnrecognizedStart ==
  ASSUME NEW sz, NEW d, NEW r \in Results, GeomStart(Unrecognized, sz, d, r)
  PROVE  /\ Unwind(Outcome(Unrecognized, r), Feature(cur))
         /\ dim' = d /\ UNCHANGED <<reader, meta>>
         /\ phase \in {"feature", "geometry"}
  BY UnrecognizedOutcome DEF GeomStart

(* It is an error if the handler goes on.                                  *)
LEMMA UnrecognizedFails ==
  ASSUME NEW sz, NEW d, NEW r \in {"CONTINUE", "THROW"}, GeomStart(Unrecognized, sz, d, r)
  PROVE  phase' = "failed" /\ stack' = << >> /\ UNCHANGED features
<1>1. Outcome(Unrecognized, r) = "THROW"
  BY DEF Outcome
<1>2. QED
  BY <1>1 DEF GeomStart, Unwind

(* geom_start() keeps the invariant of the read loop, whatever its result. *)
LEMMA GeomStartInv ==
  ASSUME ReaderInv, NEW t \in GeometryTypes \cup {Unrecognized}, NEW sz \in Int, NEW d, NEW r \in Results,
         GeomStart(t, sz, d, r)
  PROVE  ReaderInv'
<1>1. d \in Dims /\ dim' = d /\ UNCHANGED <<reader, meta>>
  BY DEF GeomStart
<1>2. CASE Unwind(Outcome(t, r), Feature(cur))
  BY <1>1, <1>2, UnwindInv, FeatureTypes, OutcomeTypes
<1>3. CASE ~Unwind(Outcome(t, r), Feature(cur))
  <2> t \in GeometryTypes
    BY <1>3, OutcomeTypes DEF GeomStart
  <2> DEFINE s == IF stack = << >> THEN stack ELSE CountOne(1)
  <2>1. /\ phase' = "geometry"
        /\ stack' = Append(s, Frame(t, sz))
        /\ cur' = CASE t \in {"POINT", "LINESTRING"} -> Append(cur, <<0>>)
                    [] t = "POLYGON" -> Append(cur, << >>)
                    [] OTHER -> cur
        /\ UNCHANGED features
    BY <1>3 DEF GeomStart
  <2>2. stack # << >> => Top.type # "RING"
    <3>1. phase = "geometry" => Top.type # "RING"
      BY PartsAreOfCollections DEF GeomStart, MultiTypes
    <3>2. QED
      BY <3>1 DEF ReaderInv, StackWellFormed
  <2>3. Frame(t, sz) \in FrameType /\ Frame(t, sz).type # "RING"
    BY DEF Frame, FrameType, GeometryTypes, SimpleTypes, MultiTypes
  <2>4. cur' \in Seq(Seq(Nat))
    <3>1. <<0>> \in Seq(Nat) /\ << >> \in Seq(Nat)
      OBVIOUS
    <3>2. QED
      BY <2>1, <3>1, AppendProperties DEF ReaderInv, ReaderTypeOK
  <2>5. /\ stack' \in Seq(FrameType)
        /\ stack' # << >>
        /\ stack'[1].type # "RING"
        /\ \A i \in 1 .. Len(stack') : stack'[i].type = "RING" => i = Len(stack')
    BY <2>1, <2>2, <2>3, PushInv
  <2>6. QED
    BY <1>1, <2>1, <2>4, <2>5 DEF ReaderInv, ReaderTypeOK, StackWellFormed, Phases
<1>4. QED
  BY <1>2, <1>3

(* A geometry that is read opens one frame, of its own type.               *)
LEMMA GeomStartPushes ==
  ASSUME ReaderInv, NEW t \in GeometryTypes, NEW sz \in Int, NEW d,
         GeomStart(t, sz, d, "CONTINUE")
  PROVE  /\ phase' = "geometry" /\ UNCHANGED features
         /\ Len(stack') = Len(stack) + 1
         /\ stack'[1].type = IF stack = << >> THEN t ELSE stack[1].type
         /\ Top'.type = t /\ t # "RING"
         /\ stack # << >> => Top.type # "RING"
         /\ Len(stack) \in Nat
<1> DEFINE s == IF stack = << >> THEN stack ELSE CountOne(1)
<1>1. /\ phase' = "geometry"
      /\ stack' = Append(s, Frame(t, sz))
      /\ UNCHANGED features
  BY KnownOutcome DEF GeomStart, Unwind
<1>2. stack # << >> => Top.type # "RING"
  <2>1. phase = "geometry" => Top.type # "RING"
    BY PartsAreOfCollections DEF GeomStart, MultiTypes
  <2>2. QED
    BY <2>1 DEF ReaderInv, StackWellFormed
<1>3. Frame(t, sz) \in FrameType /\ Frame(t, sz).type = t /\ t # "RING"
  BY DEF Frame, FrameType, GeometryTypes, SimpleTypes, MultiTypes
<1>4. /\ Len(stack') = Len(stack) + 1
      /\ stack'[1].type = IF stack = << >> THEN Frame(t, sz).type ELSE stack[1].type
      /\ stack'[Len(stack) + 1] = Frame(t, sz)
  <2> HIDE DEF s
  <2>1. s = IF stack = << >> THEN stack ELSE CountOne(1)
    BY DEF s
  <2>2. QED
    BY <1>1, <1>2, <1>3, <2>1, PushInv
<1>5. Len(stack) \in Nat
  BY LenProperties DEF ReaderInv, ReaderTypeOK
<1>6. QED
  BY <1>1, <1>2, <1>3, <1>4, <1>5 DEF Top

(* ring_start() keeps the invariant and opens a frame of type RING         *)
(* innermost.                                                              *)
LEMMA RingStartInv ==
  ASSUME ReaderInv, NEW sz \in Int, RingStart(sz)
  PROVE  /\ ReaderInv' /\ UNCHANGED features
         /\ Len(stack') = Len(stack) + 1 /\ Len(stack) \in Nat
         /\ stack'[1].type = stack[1].type
         /\ Top.type # "RING" /\ Top'.type = "RING"
<1>1. Frame("RING", sz) \in FrameType
  BY DEF Frame, FrameType
<1>2. stack # << >> /\ Top.type # "RING"
  BY DEF RingStart, ReaderInv, StackWellFormed
<1>3. /\ stack' \in Seq(FrameType)
      /\ stack' # << >>
      /\ Len(stack') = Len(stack) + 1
      /\ stack'[1].type # "RING" /\ stack'[1].type = stack[1].type
      /\ stack'[Len(stack) + 1] = Frame("RING", sz)
      /\ \A i \in 1 .. Len(stack') : stack'[i].type = "RING" => i = Len(stack')
  BY <1>1, <1>2, PushInv DEF RingStart
<1>4. cur' \in Seq(Seq(Nat))
  BY RingStartParts DEF RingStart, ReaderInv, ReaderTypeOK
<1>5. ReaderInv'
  BY <1>3, <1>4 DEF RingStart, ReaderInv, ReaderTypeOK, StackWellFormed
<1>6. Len(stack) \in Nat
  BY LenProperties DEF ReaderInv, ReaderTypeOK
<1>7. QED
  BY <1>2, <1>3, <1>5, <1>6 DEF RingStart, Top, Frame

(* coords() keeps the invariant and opens and closes nothing.              *)
LEMMA CoordsInv ==
  ASSUME ReaderInv, NEW n \in Nat, Coords(n)
  PROVE  /\ ReaderInv' /\ UNCHANGED features
         /\ Len(stack') = Len(stack)
         /\ stack'[1].type = stack[1].type /\ Top'.type = Top.type
<1>1. stack # << >> /\ Len(stack) \in Nat \ {0}
  BY EmptySeq DEF Coords, ReaderInv, ReaderTypeOK, StackWellFormed
<1>2. /\ stack' \in Seq(FrameType)
      /\ Len(stack') = Len(stack)
      /\ \A i \in 1 .. Len(stack) : stack'[i].type = stack[i].type
  BY <1>1, CountOneProperties DEF Coords
<1>3. stack' # << >>
  BY <1>1, <1>2, EmptySeq
<1>4. cur' \in Seq(Seq(Nat))
  BY CoordsParts DEF Coords, ReaderInv, ReaderTypeOK
<1>5. ReaderInv'
  BY <1>1, <1>2, <1>3, <1>4 DEF Coords, ReaderInv, ReaderTypeOK, StackWellFormed
<1>6. QED
  BY <1>1, <1>2, <1>5 DEF Coords, Top

(* ring_end() keeps the invariant and closes the ring only.                *)
LEMMA RingEndInv ==
  ASSUME ReaderInv, RingEnd
  PROVE  /\ ReaderInv'
         /\ Len(stack) >= 2
         /\ Len(stack') = Len(stack) - 1
         /\ stack'[1] = stack[1]
         /\ Top.type = "RING"
         /\ Top'.type # "RING"
         /\ UNCHANGED features
<1>1. stack # << >> /\ Len(stack) \in Nat \ {0}
  BY EmptySeq DEF RingEnd, ReaderInv, ReaderTypeOK, StackWellFormed
<1>2. Top.type = "RING" /\ stack' = SubSeq(stack, 1, Len(stack) - 1)
  BY DEF RingEnd
<1>3. Len(stack) >= 2
  BY <1>1, <1>2 DEF Top, ReaderInv, StackWellFormed
<1>4. /\ stack' \in Seq(FrameType)
      /\ Len(stack') = Len(stack) - 1
      /\ stack' # << >>
      /\ \A i \in 1 .. Len(stack') : stack'[i] = stack[i] /\ stack'[i].type # "RING"
  BY <1>1, <1>2, <1>3, PopInv
<1>5. Len(stack') \in 1 .. Len(stack') /\ 1 \in 1 .. Len(stack')
  BY <1>1, <1>3, <1>4
<1>6. stack'[1] = stack[1] /\ stack'[1].type # "RING" /\ Top'.type # "RING"
  BY <1>4, <1>5 DEF Top
<1>7. UNCHANGED <<reader, phase, meta, dim, cur, features>> /\ phase = "geometry"
  BY DEF RingEnd
<1>8. ReaderTypeOK'
  BY <1>4, <1>7 DEF ReaderInv, ReaderTypeOK
<1>9. StackWellFormed'
  BY <1>4, <1>6, <1>7 DEF StackWellFormed
<1>10. QED
  BY <1>2, <1>3, <1>4, <1>6, <1>7, <1>8, <1>9 DEF ReaderInv

(* geom_end() keeps the invariant and closes the innermost geometry.       *)
LEMMA GeomEndInv ==
  ASSUME ReaderInv, GeomEnd
  PROVE  /\ ReaderInv'
         /\ Len(stack) >= 1
         /\ Top.type # "RING"
         /\ phase' = IF Len(stack) = 1 THEN "closing" ELSE "geometry"
         /\ Len(stack) > 1 => /\ Len(stack') = Len(stack) - 1
                              /\ stack'[1] = stack[1]
                              /\ Top'.type # "RING"
         /\ UNCHANGED features
<1>1. stack # << >> /\ Len(stack) \in Nat \ {0}
  BY EmptySeq DEF GeomEnd, ReaderInv, ReaderTypeOK, StackWellFormed
<1>2. /\ Top.type # "RING"
      /\ stack' = SubSeq(stack, 1, Len(stack) - 1)
      /\ phase' = IF Len(stack) = 1 THEN "closing" ELSE "geometry"
  BY DEF GeomEnd
<1>3. /\ stack' \in Seq(FrameType)
      /\ Len(stack') = Len(stack) - 1
      /\ stack' = << >> <=> Len(stack) = 1
      /\ \A i \in 1 .. Len(stack') : stack'[i] = stack[i] /\ stack'[i].type # "RING"
  BY <1>1, <1>2, PopInv
<1>4. ReaderInv'
  BY <1>1, <1>2, <1>3 DEF GeomEnd, ReaderInv, ReaderTypeOK, StackWellFormed, Phases
<1>5. QED
  BY <1>1, <1>2, <1>3, <1>4 DEF GeomEnd, Top

(* feat_end() keeps the invariant and appends the feature read.            *)
LEMMA FeatEndInv ==
  ASSUME ReaderInv, FeatEnd
  PROVE  ReaderInv' /\ EndFeature(Feature(cur))
BY EndFeatureInv, FeatureTypes DEF FeatEnd, ReaderInv, ReaderTypeOK

(* The end of the loop keeps the invariant and the features read.          *)
LEMMA ReadDoneInv ==
  ASSUME ReaderInv, ReadDone
  PROVE  ReaderInv' /\ UNCHANGED features
BY DEF ReaderInv, ReaderTypeOK, StackWellFormed, ReadDone, Phases

(* Every call of the protocol keeps the invariant of the read loop.        *)
LEMMA ReaderStep == ReaderInv /\ [ReaderNext]_readerVars => ReaderInv'
<1> SUFFICES ASSUME ReaderInv, [ReaderNext]_readerVars
             PROVE  ReaderInv'
  OBVIOUS
<1>1. CASE UNCHANGED readerVars
  BY <1>1 DEF readerVars, ReaderInv, ReaderTypeOK, StackWellFormed
<1>2. CASE \E t \in RootTypes \cup {Unknown}, d \in Dims \cup {Unknown} : ReadMeta(t, d)
  BY <1>2, ReadMetaInv
<1>3. CASE FeatStart
  BY <1>3, FeatStartInv
<1>4. CASE \E r \in Results : NullFeat(r)
  BY <1>4, NullFeatInv
<1>5. CASE \E r \in Results : CallUnwinds(r)
  <2> PICK r \in Results : CallUnwinds(r)
    BY <1>5
  <2>1. dim' \in Dims \cup {Unknown}
    BY DEF CallUnwinds, ReaderInv, ReaderTypeOK
  <2>2. Unwind(r, Feature(cur)) /\ UNCHANGED <<reader, meta>>
    BY DEF CallUnwinds
  <2>3. QED
    BY <2>1, <2>2, UnwindInv, FeatureTypes
<1>6. CASE \E t \in GeometryTypes \cup {Unrecognized}, sz \in -1 .. MaxParts,
              d \in Dims, r \in Results : GeomStart(t, sz, d, r)
  <2> PICK t \in GeometryTypes \cup {Unrecognized}, sz \in -1 .. MaxParts,
           d \in Dims, r \in Results : GeomStart(t, sz, d, r)
    BY <1>6
  <2>1. sz \in Int
    BY ReaderAssumption
  <2>2. QED
    BY <2>1, GeomStartInv
<1>7. CASE \E sz \in -1 .. MaxParts : RingStart(sz)
  <2> PICK sz \in -1 .. MaxParts : RingStart(sz)
    BY <1>7
  <2>1. sz \in Int
    BY ReaderAssumption
  <2>2. QED
    BY <2>1, RingStartInv
<1>8. CASE \E n \in 0 .. MaxParts : Coords(n)
  <2> PICK n \in 0 .. MaxParts : Coords(n)
    BY <1>8
  <2>1. n \in Nat
    BY ReaderAssumption
  <2>2. QED
    BY <2>1, CoordsInv
<1>9. CASE RingEnd
  BY <1>9, RingEndInv
<1>10. CASE GeomEnd
  BY <1>10, GeomEndInv
<1>11. CASE FeatEnd
  BY <1>11, FeatEndInv
<1>12. CASE ReadDone
  BY <1>12, ReadDoneInv
<1>13. QED
  BY <1>1, <1>2, <1>3, <1>4, <1>5, <1>6, <1>7, <1>8, <1>9, <1>10, <1>11, <1>12 DEF ReaderNext

(* Whatever a handler answers, and whatever is read, callbacks nest: a     *)
(* ring is open only innermost, geometries are open exactly while one is   *)
(* read, and what a handler throws or aborts closes them all. (The readers *)
(* of the library are shown to follow ReaderSpec in ArrayReaders_proofs.)  *)
THEOREM ReaderCallsNest == ReaderSpec => [](ReaderTypeOK /\ StackWellFormed)
<1>1. ReaderInit => ReaderInv
  BY ReaderInitInv
<1>2. ReaderInv /\ [ReaderNext]_readerVars => ReaderInv'
  BY ReaderStep
<1>3. ReaderInv => ReaderTypeOK /\ StackWellFormed
  BY DEF ReaderInv
<1>4. QED
  BY <1>1, <1>2, <1>3, PTL DEF ReaderSpec
=============================================================================
