---------------------------- MODULE WKBridge_proofs ----------------------------
(***************************************************************************)
(* Theorems about the bridges to wk handlers, for any reader, any data of  *)
(* any depth, any number of arrays and whatever the handlers answer: the   *)
(* ids and metas a handler gets are those of what is being read, the       *)
(* dimensions the builder was told are those of the coordinates it gets,   *)
(* its pointers to metas stay valid up to the reserved depth, and nothing  *)
(* is called any more after WK_ABORT.                                      *)
(***************************************************************************)
EXTENDS WKBridge, FeatureReader_proofs

Collections == MultiTypes \cup {"GEOMETRYCOLLECTION"}
Leaves == {"POINT", "LINESTRING", "RING"}
MetaType == [type : GeometryTypes \cup {Unrecognized}, size : Int, dim : AllDims]

BridgeTypeOK ==
  /\ vector \in {"before", "open", "closing", "ended"}
  /\ arrays \in Nat /\ inArray \in BOOLEAN /\ aborted \in BOOLEAN
  /\ featId \in Int /\ ringId \in Int /\ coordId \in Int
  /\ partIds \in Seq(Int) /\ metas \in Seq(MetaType)
  /\ capacity \in Nat /\ flags \in AllDims

(* The drivers: features are read only inside an array of an open vector,  *)
(* and WK_ABORT leaves the reader where only vector_end() can follow.      *)
DriverInv ==
  /\ phase = "start" => vector = "before" /\ ~inArray
  /\ phase \in {"feature", "geometry", "closing"} => inArray /\ vector = "open"
  /\ vector \in {"closing", "ended"} => phase \in {"between", "read"}
  /\ phase = "between" /\ inArray => vector = "open"
  /\ aborted => \/ phase = "read"
                \/ phase = "between" /\ vector \in {"closing", "ended"}
  /\ phase \in {"feature", "geometry", "closing"} => featId = Len(features)
  /\ phase \in {"start", "between"} => featId = Len(features) - 1

(* How many geometries are open: a ring is not one.                        *)
Depth == IF Top.type = "RING" THEN Len(stack) - 1 ELSE Len(stack)

(* The stacks of the bridge are those of the reader, frame by frame, and   *)
(* the single ids belong to the innermost frames.                          *)
StacksInStep ==
  /\ Len(metas) = Depth /\ Len(partIds) = Depth
  /\ \A i \in 1 .. Depth : metas[i].type = stack[i].type /\ metas[i].size = stack[i].size
  /\ \A i \in 1 .. Depth : stack[i].type \in Collections => partIds[i] = stack[i].count - 1
  /\ \A i \in 1 .. Depth - 1 : stack[i].type \in Collections
  /\ Top.type = "RING" =>
       Depth >= 1 /\ stack[Depth].type = "POLYGON" /\ ringSize = Top.size
  /\ stack[Depth].type = "POLYGON" => ringId = stack[Depth].count - 1
  /\ Top.type \in Leaves => coordId = Top.count - 1

(* Between features nothing is open; in a feature that is not begun the    *)
(* stacks are those clear() left.                                          *)
FramesInv ==
  /\ phase = "feature" => metas = << >> /\ partIds = << >>
  /\ phase = "geometry" => StacksInStep

(* The flags are the dimensions last announced, which the builder learned  *)
(* with the geometry that is open.                                         *)
FlagsInv ==
  /\ flags = IF dim = Unknown THEN "XY" ELSE dim
  /\ phase = "geometry" => builder.dim = dim /\ builder.coordSize = Width[dim]

CapacityInv == Reserved <= capacity

BridgeInv ==
  ReaderInv /\ BridgeTypeOK /\ DriverInv /\ FramesInv /\ FlagsInv /\ CapacityInv

(***************************************************************************)
(* The stacks of the bridge                                                *)
(***************************************************************************)

(* geom_start() counts the part in the parent's id, and opens a new id.    *)
LEMMA PushPartIds ==
  ASSUME partIds \in Seq(Int)
  PROVE  /\ PushPart \in Seq(Int) /\ Len(PushPart) = Len(partIds) + 1
         /\ PushPart[Len(partIds) + 1] = -1
         /\ Len(partIds) # 0 => PushPart[Len(partIds)] = partIds[Len(partIds)] + 1
         /\ \A i \in 1 .. Len(partIds) - 1 : PushPart[i] = partIds[i]
<1>1. /\ Len(partIds) \in Nat /\ DOMAIN partIds = 1 .. Len(partIds)
      /\ partIds = << >> <=> Len(partIds) = 0
  BY EmptySeq, LenProperties
<1>2. CASE partIds = << >>
  <2>1. PushPart = <<-1>>
    BY <1>2 DEF PushPart
  <2>2. QED
    BY <1>1, <1>2, <2>1
<1>3. CASE partIds # << >>
  <2> DEFINE l == Len(partIds)
             e == partIds[l] + 1
             p == [partIds EXCEPT ![l] = e]
  <2>1. l \in 1 .. l /\ l \in Nat /\ l = Len(partIds) /\ e \in Int
    BY <1>1, <1>3
  <2>2. PushPart = Append(p, -1)
    BY <1>3 DEF PushPart
  <2> HIDE DEF e, l
  <2>3. /\ p \in Seq(Int) /\ Len(p) = l
        /\ \A j \in 1 .. l : p[j] = IF j = l THEN e ELSE partIds[j]
    BY <2>1, ExceptSeq
  <2> HIDE DEF p
  <2>4. p[l] = e /\ \A i \in 1 .. l - 1 : p[i] = partIds[i]
    BY <2>1, <2>3
  <2>5. /\ PushPart \in Seq(Int) /\ Len(PushPart) = Len(p) + 1
        /\ PushPart[Len(p) + 1] = -1
        /\ \A i \in 1 .. Len(p) : PushPart[i] = p[i]
    BY <2>3, <2>2, AppendProperties
  <2>6. /\ PushPart \in Seq(Int) /\ Len(PushPart) = l + 1 /\ PushPart[l + 1] = -1
        /\ PushPart[l] = e /\ \A i \in 1 .. l - 1 : PushPart[i] = partIds[i]
    <3>1. l \in Nat /\ 1 <= l /\ l \in 1 .. l /\ Len(p) = l
      BY <2>1, <2>3
    <3>2. QED
      BY <2>4, <2>5, <3>1
  <2>7. QED
    BY <2>6 DEF l, e
<1>4. QED
  BY <1>2, <1>3

(* geom_end() drops the innermost entry.                                   *)
LEMMA FrontEntries ==
  ASSUME NEW S, NEW s \in Seq(S), Len(s) # 0
  PROVE  /\ Front(s) \in Seq(S) /\ Len(Front(s)) = Len(s) - 1
         /\ \A i \in 1 .. Len(s) - 1 : Front(s)[i] = s[i]
<1>1. Len(s) \in Nat \ {0} /\ \A i \in 1 .. Len(s) : s[i] \in S
  BY ElementOfSeq, LenProperties
<1> DEFINE n == Len(s) - 1
<1>2. n \in Nat /\ \A i \in 1 .. n : s[i] \in S
  BY <1>1
<1> HIDE DEF n
<1>3. Front(s) = SubSeq(s, 1, n)
  BY DEF n, Front
<1>4. /\ Front(s) \in Seq(S)
      /\ Len(Front(s)) = IF 1 <= n THEN n - 1 + 1 ELSE 0
      /\ \A i \in 1 .. n - 1 + 1 : Front(s)[i] = s[1 + i - 1]
  BY <1>2, <1>3, SubSeqProperties
<1>5. Len(Front(s)) = n /\ \A i \in 1 .. n : Front(s)[i] = s[i]
  BY <1>2, <1>4
<1>6. QED
  BY <1>4, <1>5 DEF n

(* The answers of a handler are the results of a call.                     *)
LEMMA AnswerTypes == Answers = Results
BY DEF Answers, Results

(* A feature given up by any callback leaves nothing open; after WK_ABORT  *)
(* the reader has returned.                                                *)
LEMMA GivenUp ==
  ASSUME BridgeInv, NEW r \in Answers, r # "CONTINUE", NEW f \in FeatureType, Unwind(r, f),
         vector = "open", inArray,
         featId' = Len(features),
         aborted' = (r = "ABORT"),
         dim' \in Dims \cup {Unknown}, flags' = IF dim' = Unknown THEN "XY" ELSE dim',
         UNCHANGED <<reader, meta, path, vector, arrays, inArray>>,
         BridgeTypeOK', CapacityInv'
  PROVE  BridgeInv'
<1>1. ReaderInv'
  BY AnswerTypes, UnwindInv DEF BridgeInv
<1>2. features \in Seq(FeatureType) /\ Len(features) \in Nat
  BY LenProperties DEF BridgeInv, ReaderInv, ReaderTypeOK
<1>3. DriverInv' /\ phase' \in {"between", "read", "failed"}
  <2>1. CASE r = "ABORT_FEATURE" /\ EndFeature(f)
    <3>1. Len(features') = Len(features) + 1 /\ phase' = "between"
      BY <1>2, <2>1, AppendProperties DEF EndFeature
    <3>2. featId' = Len(features') - 1
      BY <1>2, <3>1
    <3>3. ~aborted' /\ inArray' /\ vector' = "open"
      BY <2>1
    <3>4. QED
      BY <3>1, <3>2, <3>3 DEF DriverInv
  <2>2. CASE r \in {"ABORT", "THROW"} /\ phase' = IF r = "ABORT" THEN "read" ELSE "failed"
    BY <2>2 DEF DriverInv
  <2>3. QED
    BY <2>1, <2>2 DEF Unwind
<1>4. FramesInv' /\ FlagsInv'
  BY <1>3 DEF FramesInv, FlagsInv
<1>5. QED
  BY <1>1, <1>3, <1>4 DEF BridgeInv

(***************************************************************************)
(* The drivers                                                             *)
(***************************************************************************)

(* read_meta() and vector_start() begin a vector; the first feature has    *)
(* id 0, as none was read.                                                 *)
LEMMA VectorStartBridge ==
  ASSUME BridgeInv, NEW t, NEW d, NEW r \in {"CONTINUE", "ABORT"}, VectorStart(t, d, r)
  PROVE  BridgeInv'
<1>1. ReaderInv' /\ phase' = "between" /\ phase = "start" /\ UNCHANGED features
  <2>1. ReadMeta(t, d)
    BY DEF VectorStart
  <2>2. QED
    BY <2>1, ReadMetaInv DEF ReadMeta, BridgeInv
<1>2. dim' = d /\ d \in Dims \cup {Unknown}
  BY DEF VectorStart, ReadMeta
<1>3. BridgeTypeOK'
  <2>1. flags' \in AllDims
    BY <1>2, ReaderAssumption DEF VectorStart, NewDimensions, AllDims
  <2>2. QED
    BY <2>1 DEF VectorStart, BridgeInv, BridgeTypeOK, geometryVars
<1>4. DriverInv'
  <2>1. featId' = Len(features') - 1
    BY <1>1 DEF BridgeInv, DriverInv, VectorStart
  <2>2. inArray' = inArray /\ vector' = (IF r = "CONTINUE" THEN "open" ELSE "closing")
        /\ aborted' = (r = "ABORT")
    BY DEF VectorStart
  <2>3. QED
    BY <1>1, <2>1, <2>2 DEF DriverInv, BridgeInv
<1>5. FlagsInv' /\ FramesInv' /\ CapacityInv'
  BY <1>1, <1>2 DEF VectorStart, NewDimensions, FlagsInv, FramesInv, BridgeInv, CapacityInv,
                    geometryVars
<1>6. QED
  BY <1>1, <1>3, <1>4, <1>5 DEF BridgeInv

(* Where the reader stands still, a driver may move as long as it keeps to *)
(* the order array, end of array, end of vector.                           *)
LEMMA DriverMoves ==
  ASSUME BridgeInv, phase \in {"between", "read"}, phase' \in {phase, "failed"},
         UNCHANGED <<reader, meta, dim, stack, cur, features, path>>,
         UNCHANGED <<featId, geometryVars, flags, builder>>,
         DriverInv', vector' \in {"before", "open", "closing", "ended"},
         arrays' \in Nat, inArray' \in BOOLEAN, aborted' \in BOOLEAN
  PROVE  BridgeInv'
<1>1. ReaderInv'
  BY DEF BridgeInv, ReaderInv, ReaderTypeOK, StackWellFormed, Phases
<1>2. BridgeTypeOK'
  BY DEF BridgeInv, BridgeTypeOK, geometryVars
<1>3. FramesInv' /\ FlagsInv' /\ CapacityInv'
  BY DEF BridgeInv, FramesInv, FlagsInv, CapacityInv, geometryVars
<1>4. QED
  BY <1>1, <1>2, <1>3 DEF BridgeInv

(* The drivers' own steps: from array to array, and to the end.            *)
LEMMA DriverStepBridge ==
  ASSUME BridgeInv, NextArray \/ StreamFails \/ ArrayRead \/ LoopDone \/ VectorEnd
  PROVE  BridgeInv'
<1>1. /\ DriverInv /\ vector \in {"before", "open", "closing", "ended"}
      /\ arrays \in Nat /\ inArray \in BOOLEAN /\ aborted \in BOOLEAN
  BY DEF BridgeInv, BridgeTypeOK
<1>2. CASE NextArray
  <2>1. /\ phase = "between" /\ arrays' \in Nat /\ UNCHANGED <<readerVars, vector, aborted>>
        /\ UNCHANGED <<path, featId, geometryVars, flags, builder>>
        /\ inArray' = TRUE /\ vector = "open"
    BY <1>1, <1>2 DEF NextArray
  <2>2. DriverInv'
    BY <1>1, <2>1 DEF DriverInv, readerVars
  <2>3. QED
    BY <1>1, <2>1, <2>2, DriverMoves DEF readerVars
<1>3. CASE StreamFails
  <2>1. /\ phase = "between" /\ vector = "open" /\ phase' = "failed"
        /\ UNCHANGED <<vector, arrays, inArray, aborted>>
        /\ UNCHANGED <<reader, meta, dim, stack, cur, features, path>>
        /\ UNCHANGED <<featId, geometryVars, flags, builder>>
    BY <1>3 DEF StreamFails, driverVars
  <2>2. DriverInv'
    BY <1>1, <2>1 DEF DriverInv
  <2>3. QED
    BY <1>1, <2>1, <2>2, DriverMoves
<1>4. CASE ArrayRead
  <2>1. /\ phase = "between" /\ inArray' = FALSE
        /\ UNCHANGED <<readerVars, vector, arrays, aborted>>
        /\ UNCHANGED <<path, featId, geometryVars, flags, builder>>
    BY <1>4 DEF ArrayRead
  <2>2. DriverInv'
    BY <1>1, <2>1 DEF DriverInv, readerVars
  <2>3. QED
    BY <1>1, <2>1, <2>2, DriverMoves DEF readerVars
<1>5. CASE LoopDone
  <2>1. /\ (phase = "between" /\ ~inArray) \/ phase = "read"
        /\ vector' = "closing"
        /\ UNCHANGED <<readerVars, inArray, arrays, aborted>>
        /\ UNCHANGED <<path, featId, geometryVars, flags, builder>>
    BY <1>5 DEF LoopDone
  <2>2. DriverInv'
    BY <1>1, <2>1 DEF DriverInv, readerVars
  <2>3. QED
    BY <1>1, <2>1, <2>2, DriverMoves DEF readerVars
<1>6. CASE VectorEnd
  <2>1. /\ vector = "closing" /\ vector' = "ended"
        /\ UNCHANGED <<readerVars, inArray, arrays, aborted>>
        /\ UNCHANGED <<path, featId, geometryVars, flags, builder>>
    BY <1>6 DEF VectorEnd
  <2>2. DriverInv' /\ phase \in {"between", "read"}
    BY <1>1, <2>1 DEF DriverInv, readerVars
  <2>3. QED
    BY <1>1, <2>1, <2>2, DriverMoves DEF readerVars
<1>7. QED
  BY <1>2, <1>3, <1>4, <1>5, <1>6

(* A reader that throws in a feature leaves no driver to go on.            *)
LEMMA ReaderThrowsBridge ==
  ASSUME BridgeInv, ReaderThrows
  PROVE  BridgeInv'
<1>1. /\ phase \in {"feature", "geometry"} /\ Unwind("THROW", Feature(cur))
      /\ UNCHANGED <<reader, meta, dim, driverVars, featId, geometryVars, flags, builder>>
  BY DEF ReaderThrows
<1>2. vector = "open" /\ inArray /\ featId' = Len(features) /\ aborted' = FALSE
  BY <1>1 DEF BridgeInv, BridgeTypeOK, DriverInv, driverVars
<1>3. BridgeTypeOK' /\ CapacityInv'
  BY <1>1 DEF BridgeInv, BridgeTypeOK, CapacityInv, driverVars, geometryVars
<1>4. Feature(cur) \in FeatureType
  BY FeatureTypes DEF BridgeInv
<1>5. dim' \in Dims \cup {Unknown} /\ flags' = IF dim' = Unknown THEN "XY" ELSE dim'
  BY <1>1 DEF BridgeInv, ReaderInv, ReaderTypeOK, FlagsInv
<1>6. QED
  BY <1>1, <1>2, <1>3, <1>4, <1>5, GivenUp DEF driverVars, Answers

(***************************************************************************)
(* The callbacks                                                           *)
(***************************************************************************)

(* What an answer other than CONTINUE needs at a call that announces no    *)
(* dimensions.                                                             *)
LEMMA StopsBridge ==
  ASSUME BridgeInv, NEW r \in Answers, NEW f \in FeatureType, Stops(r, f), UNCHANGED dim,
         vector = "open", inArray, featId' = Len(features),
         UNCHANGED <<flags, builder>>, BridgeTypeOK', CapacityInv'
  PROVE  BridgeInv'
<1>1. /\ r # "CONTINUE" /\ Unwind(r, f) /\ aborted' = (r = "ABORT")
      /\ UNCHANGED <<reader, meta, path, vector, arrays, inArray>>
  BY DEF Stops
<1>2. dim' \in Dims \cup {Unknown} /\ flags' = IF dim' = Unknown THEN "XY" ELSE dim'
  BY DEF BridgeInv, ReaderInv, ReaderTypeOK, FlagsInv
<1>3. QED
  BY <1>1, <1>2, GivenUp

(* The types of what a stopped call leaves to the drivers.                 *)
LEMMA StopsTypes ==
  ASSUME NEW r, NEW f, Stops(r, f)
  PROVE  UNCHANGED <<vector, arrays, inArray>> /\ aborted' \in BOOLEAN
BY DEF Stops

(* Between the calls of one feature the drivers do nothing.                *)
LEMMA InFeature ==
  ASSUME BridgeInv, phase \in {"feature", "geometry", "closing"}
  PROVE  /\ vector = "open" /\ inArray /\ ~aborted
         /\ featId = Len(features) /\ Len(features) \in Nat
         /\ NullFeature \in FeatureType /\ Read \in FeatureType
<1>1. NullFeature \in FeatureType /\ Read \in FeatureType
  BY DEF NullFeature, Read, Feature, FeatureType
<1>2. Len(features) \in Nat
  BY LenProperties DEF BridgeInv, ReaderInv, ReaderTypeOK
<1>3. QED
  BY <1>1, <1>2 DEF BridgeInv, BridgeTypeOK, DriverInv

(* A call that goes on within a feature, its drivers unchanged, keeps what *)
(* relates drivers and reader.                                             *)
LEMMA GoesOn ==
  ASSUME BridgeInv, phase \in {"feature", "geometry", "closing"},
         phase' \in {"feature", "geometry", "closing"},
         UNCHANGED <<driverVars, featId, features>>
  PROVE  DriverInv'
<1>1. /\ vector' = "open" /\ inArray' /\ ~aborted' /\ featId' = Len(features')
  BY InFeature DEF driverVars
<1>2. QED
  BY <1>1 DEF DriverInv

(* feat_start() numbers the feature and clears the stacks.                 *)
LEMMA CallFeatStartBridge ==
  ASSUME BridgeInv, NEW r \in Answers, CallFeatStart(r)
  PROVE  BridgeInv'
<1>1. /\ inArray /\ phase = "between" /\ featId' = featId + 1
      /\ partIds' = << >> /\ metas' = << >>
      /\ UNCHANGED <<ringId, coordId, ringSize, capacity, flags, builder>>
  BY DEF CallFeatStart
<1>2. /\ vector = "open" /\ ~aborted /\ featId' = Len(features) /\ Len(features) \in Nat
  <2>1. Len(features) \in Nat
    BY LenProperties DEF BridgeInv, ReaderInv, ReaderTypeOK
  <2>2. QED
    BY <1>1, <2>1 DEF BridgeInv, BridgeTypeOK, DriverInv
<1>3. featId' \in Int /\ metas' \in Seq(MetaType) /\ partIds' \in Seq(Int)
  BY <1>1, <1>2, EmptySeq
<1>4. CASE r = "CONTINUE" /\ FeatStart /\ UNCHANGED driverVars
  <2>1. ReaderInv' /\ phase' = "feature" /\ UNCHANGED <<features, dim>>
    BY <1>4, FeatStartInv DEF FeatStart, BridgeInv
  <2>2. BridgeTypeOK'
    BY <1>1, <1>3, <1>4 DEF BridgeInv, BridgeTypeOK, driverVars
  <2>3. DriverInv'
    BY <1>1, <1>2, <1>4, <2>1 DEF DriverInv, driverVars
  <2>4. FramesInv' /\ FlagsInv' /\ CapacityInv'
    BY <1>1, <2>1 DEF FramesInv, FlagsInv, CapacityInv, BridgeInv
  <2>5. QED
    BY <2>1, <2>2, <2>3, <2>4 DEF BridgeInv
<1>5. CASE Stops(r, NullFeature) /\ UNCHANGED dim
  <2>1. BridgeTypeOK' /\ CapacityInv'
    BY <1>1, <1>3, <1>5, StopsTypes DEF BridgeInv, BridgeTypeOK, CapacityInv
  <2>2. NullFeature \in FeatureType
    BY DEF NullFeature, FeatureType
  <2>3. QED
    BY <1>1, <1>2, <1>5, <2>1, <2>2, StopsBridge
<1>6. QED
  BY <1>4, <1>5 DEF CallFeatStart

(* null_feat() leaves the bridge as it is.                                 *)
LEMMA CallNullFeatBridge ==
  ASSUME BridgeInv, NEW r \in Answers, CallNullFeat(r)
  PROVE  BridgeInv'
<1>1. phase = "feature" /\ UNCHANGED <<featId, geometryVars, flags, builder>>
  BY DEF CallNullFeat
<1>2. CASE r = "CONTINUE" /\ NullFeat(r) /\ UNCHANGED driverVars
  <2>1. ReaderInv' /\ phase' = "closing" /\ UNCHANGED <<features, dim>>
    BY <1>2, NullFeatInv, AnswerTypes DEF NullFeat, Unwind, BridgeInv
  <2>2. DriverInv'
    BY <1>1, <1>2, <2>1, GoesOn
  <2>3. BridgeTypeOK' /\ FramesInv' /\ FlagsInv' /\ CapacityInv'
    BY <1>1, <1>2, <2>1
    DEF BridgeInv, BridgeTypeOK, FramesInv, FlagsInv, CapacityInv, driverVars, geometryVars
  <2>4. QED
    BY <2>1, <2>2, <2>3 DEF BridgeInv
<1>3. CASE Stops(r, NullFeature) /\ UNCHANGED dim
  <2>1. BridgeTypeOK' /\ CapacityInv'
    BY <1>1, <1>3, StopsTypes DEF BridgeInv, BridgeTypeOK, CapacityInv, geometryVars
  <2>2. QED
    BY <1>1, <1>3, <2>1, InFeature, StopsBridge
<1>4. QED
  BY <1>2, <1>3 DEF CallNullFeat

(* feat_end() ends the feature the id counted.                             *)
LEMMA CallFeatEndBridge ==
  ASSUME BridgeInv, NEW r \in Answers, CallFeatEnd(r)
  PROVE  BridgeInv'
<1>1. /\ phase = "closing" /\ UNCHANGED <<dim, featId, geometryVars, flags, builder>>
  BY DEF CallFeatEnd
<1>2. CASE r = "CONTINUE" /\ EndFeature(Read) /\ UNCHANGED <<reader, meta, driverVars>>
  <2>1. /\ ReaderInv' /\ phase' = "between" /\ Len(features') = Len(features) + 1
    BY <1>1, <1>2, InFeature, EndFeatureInv DEF BridgeInv, ReaderInv, ReaderTypeOK, EndFeature
  <2>2. DriverInv'
    BY <1>1, <1>2, <2>1, InFeature DEF DriverInv, driverVars
  <2>3. BridgeTypeOK' /\ FramesInv' /\ FlagsInv' /\ CapacityInv'
    BY <1>1, <1>2, <2>1
    DEF BridgeInv, BridgeTypeOK, FramesInv, FlagsInv, CapacityInv, driverVars, geometryVars
  <2>4. QED
    BY <2>1, <2>2, <2>3 DEF BridgeInv
<1>3. CASE Stops(r, Read)
  <2>1. BridgeTypeOK' /\ CapacityInv'
    BY <1>1, <1>3, StopsTypes DEF BridgeInv, BridgeTypeOK, CapacityInv, geometryVars
  <2>2. QED
    BY <1>1, <1>3, <2>1, InFeature, StopsBridge
<1>4. QED
  BY <1>2, <1>3 DEF CallFeatEnd

(* What geom_start() pushes on the stacks of the bridge, whatever the      *)
(* answer: the flags are the dimensions of the geometry by then.           *)
LEMMA GeomStartIds ==
  ASSUME BridgeInv, NEW t \in GeometryTypes \cup {Unrecognized}, NEW sz \in Int,
         NEW d \in Dims, NEW r \in Answers, CallGeomStart(t, sz, d, r)
  PROVE  /\ dim' = d /\ d # Unknown /\ flags' = d /\ flags' \in AllDims
         /\ ringId' = -1 /\ coordId' = -1 /\ UNCHANGED <<featId, ringSize>>
         /\ metas' \in Seq(MetaType) /\ Len(metas') = Len(metas) + 1
         /\ metas'[Len(metas) + 1].type = t /\ metas'[Len(metas) + 1].size = sz
         /\ \A i \in 1 .. Len(metas) : metas'[i] = metas[i]
         /\ builder'.dim = d /\ builder'.coordSize = Width[d]
         /\ capacity' \in Nat /\ Reserved <= capacity'
<1>1. dim' = d /\ d # Unknown /\ d \in AllDims
  BY ReaderAssumption DEF CallGeomStart, GeomStart, Unknown, AllDims
<1>2. flags' = d /\ flags' \in AllDims
  BY <1>1 DEF CallGeomStart, NewDimensions, BridgeInv, FlagsInv
<1> DEFINE m == [type |-> t, size |-> sz, dim |-> flags']
<1>3. m \in MetaType /\ m.type = t /\ m.size = sz /\ m.dim = d
  BY <1>2 DEF MetaType
<1>4. metas \in Seq(MetaType) /\ Len(metas) \in Nat
  BY LenProperties DEF BridgeInv, BridgeTypeOK
<1>5. metas' = Append(metas, m)
  BY DEF CallGeomStart
<1> HIDE DEF m
<1>6. /\ metas' \in Seq(MetaType) /\ Len(metas') = Len(metas) + 1
      /\ metas'[Len(metas) + 1] = m
      /\ \A i \in 1 .. Len(metas) : metas'[i] = metas[i]
  BY <1>3, <1>4, <1>5, AppendProperties
<1>7. builder'.dim = d /\ builder'.coordSize = Width[d]
  BY <1>3, <1>6 DEF CallGeomStart, GeometryStart
<1>8. capacity' \in Nat /\ Reserved <= capacity'
  BY BridgeAssumption DEF CallGeomStart, BridgeInv, BridgeTypeOK, CapacityInv
<1>9. QED
  BY <1>1, <1>2, <1>3, <1>6, <1>7, <1>8 DEF CallGeomStart

(* The first geometry of a feature finds the stacks empty.                 *)
LEMMA GeomStartRoot ==
  ASSUME BridgeInv, NEW t \in GeometryTypes, NEW sz \in Int, NEW d \in Dims,
         CallGeomStart(t, sz, d, "CONTINUE"), phase = "feature"
  PROVE  StacksInStep'
<1>1. Frame(t, sz) \in FrameType /\ stack = << >>
  BY DEF Frame, FrameType, BridgeInv, ReaderInv, StackWellFormed
<1>2. stack' = Append(<< >>, Frame(t, sz))
  BY <1>1, KnownOutcome DEF CallGeomStart, GeomStart, Unwind
<1>3. Len(stack') = 1 /\ stack'[1] = Frame(t, sz)
  BY <1>1, <1>2, PushFirst
<1>4. Top' = Frame(t, sz) /\ t # "RING"
  BY <1>3 DEF Top, GeometryTypes, SimpleTypes, MultiTypes
<1>5. Depth' = 1
  BY <1>3, <1>4 DEF Depth, Frame
<1>6. metas = << >> /\ partIds = << >>
  BY DEF BridgeInv, FramesInv
<1>7. partIds' = <<-1>>
  BY <1>6 DEF CallGeomStart, PushPart
<1>8. /\ Len(metas') = 1 /\ metas'[1].type = t /\ metas'[1].size = sz
      /\ ringId' = -1 /\ coordId' = -1
  BY <1>6, GeomStartIds DEF Answers
<1>9. QED
  BY <1>3, <1>4, <1>5, <1>7, <1>8 DEF StacksInStep, Frame

(* A part of a geometry is counted in its parent, on the stack of the      *)
(* reader as in the ids of the bridge.                                     *)
LEMMA GeomStartPart ==
  ASSUME BridgeInv, NEW t \in GeometryTypes, NEW sz \in Int, NEW d \in Dims,
         CallGeomStart(t, sz, d, "CONTINUE"), phase = "geometry"
  PROVE  StacksInStep'
<1> DEFINE l == Len(stack)
<1>1. /\ stack # << >> /\ l \in Nat \ {0}
      /\ \A i \in 1 .. l : stack[i] \in FrameType
      /\ Top = stack[l]
  BY TopFrame DEF BridgeInv
<1>2. Top.type \in Collections /\ Top.type # "RING"
  BY PartsAreOfCollections DEF CallGeomStart, GeomStart, Collections, MultiTypes
<1>3. StacksInStep /\ Depth = l
  BY <1>2 DEF BridgeInv, FramesInv, Depth
<1>4. Frame(t, sz) \in FrameType
  BY DEF Frame, FrameType
<1>5. stack' = Append(CountOne(1), Frame(t, sz))
  BY <1>1, KnownOutcome DEF CallGeomStart, GeomStart, Unwind
<1>6. /\ Len(stack') = l + 1 /\ stack'[l + 1] = Frame(t, sz)
      /\ stack'[l] = Counted(Top, 1)
      /\ \A i \in 1 .. l - 1 : stack'[i] = stack[i]
  BY <1>4, <1>5, PushFrames DEF BridgeInv
<1>7. Top' = Frame(t, sz) /\ t # "RING" /\ Depth' = l + 1
  BY <1>6 DEF Top, Depth, Frame, GeometryTypes, SimpleTypes, MultiTypes
<1>8. partIds \in Seq(Int) /\ Len(partIds) = l /\ Len(metas) = l
  BY <1>3 DEF BridgeInv, BridgeTypeOK, StacksInStep
<1>9. /\ Len(partIds') = l + 1 /\ partIds'[l + 1] = -1
      /\ partIds'[l] = partIds[l] + 1
      /\ \A i \in 1 .. l - 1 : partIds'[i] = partIds[i]
  BY <1>1, <1>8, PushPartIds DEF CallGeomStart
<1>10. /\ Len(metas') = l + 1 /\ metas'[l + 1].type = t /\ metas'[l + 1].size = sz
       /\ \A i \in 1 .. l : metas'[i] = metas[i]
       /\ ringId' = -1 /\ coordId' = -1
  BY <1>8, GeomStartIds DEF Answers
<1>11. /\ stack'[l].type = Top.type /\ stack'[l].size = Top.size
       /\ stack'[l].count = Top.count + 1 /\ Top.count \in Nat
       /\ stack'[l + 1].type = t /\ stack'[l + 1].size = sz /\ stack'[l + 1].count = 0
  BY <1>1, <1>6 DEF Counted, Frame, FrameType
<1> HIDE DEF l
<1>12. \A i \in 1 .. l + 1 :
         metas'[i].type = stack'[i].type /\ metas'[i].size = stack'[i].size
  <2>1. \A i \in 1 .. l : metas[i].type = stack[i].type /\ metas[i].size = stack[i].size
    BY <1>3 DEF StacksInStep
  <2>2. \A i \in 1 .. l + 1 : i \in 1 .. l - 1 \/ i = l \/ i = l + 1
    BY <1>1
  <2>3. l \in 1 .. l /\ \A i \in 1 .. l - 1 : i \in 1 .. l
    BY <1>1
  <2>4. QED
    BY <1>1, <1>6, <1>10, <1>11, <2>1, <2>2, <2>3
<1>13. \A i \in 1 .. l + 1 :
         stack'[i].type \in Collections => partIds'[i] = stack'[i].count - 1
  <2>1. \A i \in 1 .. l : stack[i].type \in Collections => partIds[i] = stack[i].count - 1
    BY <1>3 DEF StacksInStep
  <2>2. \A i \in 1 .. l + 1 : i \in 1 .. l - 1 \/ i = l \/ i = l + 1
    BY <1>1
  <2>3. l \in 1 .. l /\ \A i \in 1 .. l - 1 : i \in 1 .. l
    BY <1>1
  <2>4. partIds'[l] = stack'[l].count - 1
    <3>1. partIds[l] = Top.count - 1
      BY <1>1, <1>2, <2>1, <2>3
    <3>2. QED
      BY <1>9, <1>11, <3>1
  <2>5. QED
    BY <1>6, <1>9, <1>11, <2>1, <2>2, <2>3, <2>4
<1>14. \A i \in 1 .. l : stack'[i].type \in Collections
  <2>1. \A i \in 1 .. l - 1 : stack[i].type \in Collections
    BY <1>3 DEF StacksInStep
  <2>2. \A i \in 1 .. l : i \in 1 .. l - 1 \/ i = l
    BY <1>1
  <2>3. QED
    BY <1>2, <1>6, <1>11, <2>1, <2>2
<1>15. QED
  <2>1. l + 1 - 1 = l
    BY <1>1
  <2>2. Top'.type = t /\ Top'.count = 0
    BY <1>7 DEF Frame
  <2>3. Len(partIds') = l + 1 /\ Len(metas') = l + 1 /\ ringId' = -1 /\ coordId' = -1
    BY <1>9, <1>10
  <2>4. /\ stack'[Depth'].type = "POLYGON" => ringId' = stack'[Depth'].count - 1
        /\ Top'.type \in Leaves => coordId' = Top'.count - 1
    BY <1>7, <1>11, <2>2, <2>3
  <2>5. /\ \A i \in 1 .. Depth' : metas'[i].type = stack'[i].type /\ metas'[i].size = stack'[i].size
        /\ \A i \in 1 .. Depth' : stack'[i].type \in Collections => partIds'[i] = stack'[i].count - 1
        /\ \A i \in 1 .. Depth' - 1 : stack'[i].type \in Collections
    <3>1. Depth' = l + 1 /\ Depth' - 1 = l
      BY <1>1, <1>7
    <3>2. QED
      BY <1>12, <1>13, <1>14, <3>1, Zenon
  <2>6. Len(metas') = Depth' /\ Len(partIds') = Depth' /\ Top'.type # "RING"
    BY <1>7, <2>2, <2>3
  <2>7. QED
    BY <2>4, <2>5, <2>6 DEF StacksInStep

(* geom_start() keeps the bridge in step, or gives the feature up.         *)
LEMMA CallGeomStartBridge ==
  ASSUME BridgeInv, NEW t \in GeometryTypes \cup {Unrecognized}, NEW sz \in Int,
         NEW d \in Dims, NEW r \in Answers, CallGeomStart(t, sz, d, r)
  PROVE  BridgeInv'
<1>1. /\ GeomStart(t, sz, d, r) /\ phase \in {"feature", "geometry"}
      /\ UNCHANGED <<path, vector, arrays, inArray, featId>> /\ aborted' = (r = "ABORT")
      /\ UNCHANGED <<reader, meta>>
  BY DEF CallGeomStart, GeomStart
<1>2. ReaderInv'
  BY <1>1, GeomStartInv, AnswerTypes DEF BridgeInv
<1>3. BridgeTypeOK' /\ CapacityInv'
  <2>1. PushPart \in Seq(Int)
    BY PushPartIds DEF BridgeInv, BridgeTypeOK
  <2>2. partIds' \in Seq(Int) /\ aborted' \in BOOLEAN
    BY <1>1, <2>1 DEF CallGeomStart
  <2>3. /\ metas' \in Seq(MetaType) /\ capacity' \in Nat /\ Reserved <= capacity'
        /\ flags' \in AllDims /\ ringId' = -1 /\ coordId' = -1
    BY GeomStartIds
  <2>4. QED
    BY <1>1, <2>2, <2>3 DEF BridgeInv, BridgeTypeOK, CapacityInv
<1>4. /\ dim' = d /\ flags' = IF dim' = Unknown THEN "XY" ELSE dim'
      /\ builder'.dim = d /\ builder'.coordSize = Width[d]
  <2>1. /\ dim' = d /\ d # Unknown /\ flags' = d
        /\ builder'.dim = d /\ builder'.coordSize = Width[d]
    BY GeomStartIds
  <2>2. QED
    BY <2>1
<1>5. CASE Outcome(t, r) = "CONTINUE"
  <2> r \in Results
    BY AnswerTypes
  <2> t \in GeometryTypes
    BY <1>5, OutcomeTypes
  <2> r = "CONTINUE"
    BY <1>5, KnownOutcome
  <2>1. phase' = "geometry" /\ UNCHANGED features
    BY <1>1, <1>5, GeomStartPushes DEF BridgeInv
  <2>2. StacksInStep'
    BY <1>1, <1>5, GeomStartRoot, GeomStartPart
  <2>3. ~aborted' /\ UNCHANGED <<vector, inArray>>
    BY <1>1, <1>5
  <2>4. DriverInv'
    BY <1>1, <2>1, <2>3, InFeature DEF DriverInv
  <2>5. QED
    BY <1>2, <1>3, <1>4, <2>1, <2>2, <2>4 DEF BridgeInv, FramesInv, FlagsInv
<1>6. CASE Outcome(t, r) # "CONTINUE"
  <2> DEFINE o == Outcome(t, r)
  <2>5. o \in Answers
    BY AnswerTypes, OutcomeTypes
  <2>6. o = "ABORT" <=> r = "ABORT"
    BY DEF Outcome
  <2>7. aborted' = (o = "ABORT")
    BY <1>1, <2>6, Zenon
  <2>1. Unwind(Outcome(t, r), Feature(cur))
    BY <1>1, <1>6 DEF GeomStart
  <2>2. Feature(cur) \in FeatureType
    BY FeatureTypes DEF BridgeInv
  <2>3. vector = "open" /\ inArray /\ featId' = Len(features)
    BY <1>1, InFeature
  <2>4. QED
    BY <1>1, <1>3, <1>4, <1>6, <2>1, <2>2, <2>3, <2>5, <2>7, GivenUp
<1>7. QED
  BY <1>5, <1>6

(* What a callback inside a geometry has to keep for the bridge to stay in *)
(* step: the frames; it announces nothing and pushes no meta.              *)
LEMMA GeometryGoesOn ==
  ASSUME BridgeInv, phase = "geometry", phase' \in {"geometry", "closing"},
         ReaderInv', BridgeTypeOK',
         UNCHANGED <<driverVars, featId, features, dim, capacity, flags, builder>>,
         phase' = "geometry" => StacksInStep'
  PROVE  BridgeInv'
<1>1. DriverInv'
  BY GoesOn
<1>2. FramesInv' /\ FlagsInv' /\ CapacityInv'
  BY DEF BridgeInv, FramesInv, FlagsInv, CapacityInv
<1>3. QED
  BY <1>1, <1>2 DEF BridgeInv

(* What being in step says of each frame, the innermost by itself.         *)
LEMMA StacksOf ==
  ASSUME StacksInStep, NEW l \in Nat \ {0}, Depth = l
  PROVE  /\ Len(metas) = l /\ Len(partIds) = l
         /\ metas[l].type = stack[l].type /\ metas[l].size = stack[l].size
         /\ stack[l].type \in Collections => partIds[l] = stack[l].count - 1
         /\ stack[l].type = "POLYGON" => ringId = stack[l].count - 1
         /\ \A i \in 1 .. l - 1 :
              /\ metas[i].type = stack[i].type /\ metas[i].size = stack[i].size
              /\ stack[i].type \in Collections
              /\ partIds[i] = stack[i].count - 1
<1>1. l \in 1 .. l /\ \A i \in 1 .. l - 1 : i \in 1 .. l
  OBVIOUS
<1>2. /\ Len(metas) = l /\ Len(partIds) = l
      /\ \A i \in 1 .. l : metas[i].type = stack[i].type /\ metas[i].size = stack[i].size
      /\ \A i \in 1 .. l : stack[i].type \in Collections => partIds[i] = stack[i].count - 1
      /\ \A i \in 1 .. l - 1 : stack[i].type \in Collections
      /\ stack[l].type = "POLYGON" => ringId = stack[l].count - 1
  BY DEF StacksInStep
<1>3. QED
  BY <1>1, <1>2

(* A ring is not a geometry: its start counts in ring_id and opens no meta.*)
LEMMA RingStartInStep ==
  ASSUME BridgeInv, NEW sz \in Int, CallRingStart(sz, "CONTINUE"), RingStart(sz)
  PROVE  StacksInStep'
<1> DEFINE l == Len(stack)
<1>1. /\ stack # << >> /\ l \in Nat \ {0} /\ Top = stack[l] /\ Top \in FrameType
      /\ \A i \in 1 .. l : stack[i] \in FrameType
  BY TopFrame DEF RingStart, BridgeInv
<1>2. /\ phase = "geometry" /\ Top.type = "POLYGON" /\ ringId' = ringId + 1 /\ coordId' = -1
      /\ ringSize' = sz /\ UNCHANGED <<partIds, metas>>
      /\ stack' = Append(CountOne(1), Frame("RING", sz))
  BY DEF CallRingStart, RingStart
<1>3. StacksInStep /\ Depth = l
  BY <1>2 DEF BridgeInv, FramesInv, Depth
<1>4. Frame("RING", sz) \in FrameType
  BY DEF Frame, FrameType
<1>5. /\ Len(stack') = l + 1 /\ stack'[l + 1] = Frame("RING", sz)
      /\ stack'[l] = Counted(Top, 1)
      /\ \A i \in 1 .. l - 1 : stack'[i] = stack[i]
  BY <1>2, <1>4, PushFrames DEF BridgeInv
<1>6. /\ Top'.type = "RING" /\ Top'.count = 0 /\ Top'.size = sz /\ Depth' = l
  BY <1>1, <1>5 DEF Top, Depth, Frame
<1>7. /\ stack'[l].type = "POLYGON" /\ stack'[l].size = Top.size
      /\ stack'[l].count = Top.count + 1 /\ Top.count \in Nat
  BY <1>1, <1>2, <1>5 DEF Counted, FrameType
<1>8. /\ Len(metas) = l /\ Len(partIds) = l
      /\ metas[l].type = Top.type /\ metas[l].size = Top.size
      /\ ringId = Top.count - 1
      /\ \A i \in 1 .. l - 1 :
           /\ metas[i].type = stack[i].type /\ metas[i].size = stack[i].size
           /\ stack[i].type \in Collections
           /\ partIds[i] = stack[i].count - 1
  BY <1>1, <1>2, <1>3, StacksOf DEF Collections, MultiTypes
<1> HIDE DEF l
<1>9. \A i \in 1 .. l : i \in 1 .. l - 1 \/ i = l
  BY <1>1
<1>10. /\ \A i \in 1 .. l : metas'[i].type = stack'[i].type /\ metas'[i].size = stack'[i].size
       /\ \A i \in 1 .. l : stack'[i].type \in Collections => partIds'[i] = stack'[i].count - 1
       /\ \A i \in 1 .. l - 1 : stack'[i].type \in Collections
  BY <1>2, <1>5, <1>7, <1>8, <1>9 DEF Collections, MultiTypes
<1>11. ringId' = stack'[l].count - 1 /\ coordId' = Top'.count - 1 /\ l >= 1
  <2>1. l >= 1
    BY <1>1
  <2>2. ringId' = ringId + 1 /\ coordId' = -1
    BY <1>2
  <2>3. ringId + 1 = Top.count - 1 + 1
    BY <1>8
  <2>4. QED
    BY <1>6, <1>7, <2>1, <2>2, <2>3
<1>12. QED
  BY <1>2, <1>6, <1>7, <1>8, <1>10, <1>11 DEF StacksInStep

(* ring_start() with any answer.                                           *)
LEMMA CallRingStartBridge ==
  ASSUME BridgeInv, NEW sz \in Int, NEW r \in Answers, CallRingStart(sz, r)
  PROVE  BridgeInv'
<1>1. /\ phase = "geometry" /\ ringId' = ringId + 1 /\ coordId' = -1
      /\ UNCHANGED <<featId, partIds, metas, capacity, flags, builder>>
  BY DEF CallRingStart
<1>2. CASE r = "CONTINUE" /\ RingStart(sz) /\ UNCHANGED driverVars
  <2>1. ReaderInv' /\ phase' = "geometry" /\ UNCHANGED <<features, dim>>
    BY <1>2, RingStartInv DEF RingStart, BridgeInv
  <2>2. BridgeTypeOK'
    BY <1>1, <1>2 DEF BridgeInv, BridgeTypeOK, driverVars
  <2>3. StacksInStep'
    BY <1>2, RingStartInStep
  <2>4. QED
    BY <1>1, <1>2, <2>1, <2>2, <2>3, GeometryGoesOn
<1>3. CASE Stops(r, Read) /\ UNCHANGED dim
  <2>1. BridgeTypeOK' /\ CapacityInv'
    BY <1>1, <1>3, StopsTypes DEF BridgeInv, BridgeTypeOK, CapacityInv
  <2>2. QED
    BY <1>1, <1>3, <2>1, InFeature, StopsBridge
<1>4. QED
  BY <1>2, <1>3 DEF CallRingStart

(* Coordinates are counted by coord_id and by the innermost frame alike.   *)
LEMMA CoordsInStep ==
  ASSUME BridgeInv, NEW n \in Nat, CallCoords(n, n, "CONTINUE"), Coords(n)
  PROVE  StacksInStep'
<1> DEFINE l == Len(stack)
<1>1. /\ stack # << >> /\ l \in Nat \ {0} /\ Top = stack[l] /\ Top \in FrameType
  BY TopFrame DEF Coords, BridgeInv
<1>2. /\ phase = "geometry" /\ Top.type \in Leaves /\ coordId' = coordId + n
      /\ UNCHANGED <<partIds, metas, ringId, ringSize>> /\ stack' = CountOne(n)
  BY DEF CallCoords, Coords, Leaves
<1>3. /\ Len(stack') = l /\ stack'[l] = Counted(Top, n)
      /\ \A i \in 1 .. l - 1 : stack'[i] = stack[i]
  BY <1>2, CountFrames DEF BridgeInv
<1>4. /\ Top' = Counted(Top, n) /\ Top'.type = Top.type /\ Top'.size = Top.size
      /\ Top'.count = Top.count + n /\ Top.count \in Nat
  BY <1>1, <1>3 DEF Top, Counted, FrameType
<1>5. StacksInStep
  BY <1>2 DEF BridgeInv, FramesInv
<1>6. coordId' = Top'.count - 1
  <2>1. coordId = Top.count - 1
    BY <1>2, <1>5 DEF StacksInStep
  <2>2. QED
    BY <1>2, <1>4, <2>1
<1> DEFINE k == Depth
<1>7. k \in Nat /\ Depth' = k /\ (k = l \/ k = l - 1)
      /\ (k = l => Top.type # "RING") /\ (k = l - 1 => Top.type = "RING")
  BY <1>1, <1>3, <1>4 DEF Depth
<1>8. \A i \in 1 .. k : /\ stack'[i].type = stack[i].type /\ stack'[i].size = stack[i].size
                        /\ i = l \/ stack'[i] = stack[i]
  <2>1. \A i \in 1 .. k : i \in 1 .. l - 1 \/ i = l
    BY <1>1, <1>7
  <2>2. stack'[l].type = stack[l].type /\ stack'[l].size = stack[l].size
    BY <1>1, <1>3 DEF Counted
  <2>3. QED
    BY <1>3, <2>1, <2>2
<1>9. Top.type \notin Collections /\ Top.type # "POLYGON"
  BY <1>2 DEF Leaves, Collections, MultiTypes
<1> HIDE DEF l, k
<1>10. /\ Len(metas') = k /\ Len(partIds') = k
       /\ \A i \in 1 .. k : metas'[i].type = stack'[i].type /\ metas'[i].size = stack'[i].size
  BY <1>2, <1>5, <1>8 DEF StacksInStep, k
<1>11. /\ \A i \in 1 .. k : stack'[i].type \in Collections => partIds'[i] = stack'[i].count - 1
       /\ \A i \in 1 .. k - 1 : stack'[i].type \in Collections
  <2>1. /\ \A i \in 1 .. k : stack[i].type \in Collections => partIds[i] = stack[i].count - 1
        /\ \A i \in 1 .. k - 1 : stack[i].type \in Collections
    BY <1>5 DEF StacksInStep, k
  <2>2. stack[l].type \notin Collections
    BY <1>1, <1>9
  <2>3. \A i \in 1 .. k - 1 : i \in 1 .. k
    BY <1>7
  <2>4. QED
    BY <1>2, <1>8, <2>1, <2>2, <2>3
<1>12. /\ Top'.type = "RING" => k >= 1 /\ stack'[k].type = "POLYGON" /\ ringSize' = Top'.size
       /\ stack'[k].type = "POLYGON" => ringId' = stack'[k].count - 1
  <2>1. /\ Top.type = "RING" => k >= 1 /\ stack[k].type = "POLYGON" /\ ringSize = Top.size
        /\ stack[k].type = "POLYGON" => ringId = stack[k].count - 1
    BY <1>5 DEF StacksInStep, k
  <2>2. CASE k = l
    <3>1. Top.type # "RING" /\ stack'[k].type = Top.type
      BY <1>3, <1>4, <1>7, <2>2
    <3>2. QED
      BY <1>4, <1>9, <3>1
  <2>3. CASE k = l - 1
    <3>1. Top.type = "RING" /\ k >= 1 /\ k \in 1 .. l - 1
      BY <1>7, <2>1, <2>3
    <3>2. stack'[k] = stack[k]
      BY <1>3, <3>1
    <3>3. QED
      BY <1>2, <1>4, <2>1, <3>1, <3>2
  <2>4. QED
    BY <1>7, <2>2, <2>3
<1>13. QED
  BY <1>6, <1>7, <1>10, <1>11, <1>12 DEF StacksInStep

(* coord() for each coordinate, until an answer is not CONTINUE.           *)
LEMMA CallCoordsBridge ==
  ASSUME BridgeInv, NEW n \in Nat, NEW k \in Nat, NEW r \in Answers, CallCoords(n, k, r)
  PROVE  BridgeInv'
<1>1. /\ phase = "geometry" /\ coordId' = coordId + k
      /\ UNCHANGED <<featId, partIds, ringId, ringSize, metas, capacity, flags, builder>>
  BY DEF CallCoords
<1>2. CASE r = "CONTINUE" /\ k = n /\ Coords(n) /\ UNCHANGED driverVars
  <2>1. ReaderInv' /\ phase' = "geometry" /\ UNCHANGED <<features, dim>>
    BY <1>2, CoordsInv DEF Coords, BridgeInv
  <2>2. BridgeTypeOK'
    BY <1>1, <1>2 DEF BridgeInv, BridgeTypeOK, driverVars
  <2>3. StacksInStep'
    BY <1>2, CoordsInStep
  <2>4. QED
    BY <1>1, <1>2, <2>1, <2>2, <2>3, GeometryGoesOn
<1>3. CASE Stops(r, Read) /\ UNCHANGED dim
  <2>1. BridgeTypeOK' /\ CapacityInv'
    BY <1>1, <1>3, StopsTypes DEF BridgeInv, BridgeTypeOK, CapacityInv
  <2>2. QED
    BY <1>1, <1>3, <2>1, InFeature, StopsBridge
<1>4. QED
  BY <1>2, <1>3 DEF CallCoords

(* The end of a ring leaves its polygon innermost, with all of its ids.    *)
LEMMA RingEndInStep ==
  ASSUME BridgeInv, CallRingEnd("CONTINUE"), RingEnd
  PROVE  StacksInStep'
<1> DEFINE l == Len(stack)
<1>1. /\ stack # << >> /\ l \in Nat \ {0} /\ Top = stack[l] /\ StacksInStep
      /\ Top.type = "RING" /\ UNCHANGED geometryVars
  BY TopFrame DEF RingEnd, CallRingEnd, BridgeInv, FramesInv
<1>2. Depth = l - 1 /\ l - 1 >= 1 /\ stack[l - 1].type = "POLYGON"
  BY <1>1 DEF StacksInStep, Depth
<1>3. Len(stack') = l - 1 /\ \A i \in 1 .. l - 1 : stack'[i] = stack[i]
  BY <1>1, PopInv DEF RingEnd, BridgeInv
<1>4. Top'.type = "POLYGON" /\ Depth' = l - 1
  BY <1>1, <1>2, <1>3 DEF Top, Depth
<1> DEFINE k == l - 1
<1>5. k \in Nat \ {0} /\ Depth = k /\ Depth' = k
  BY <1>1, <1>2, <1>4
<1>6. \A i \in 1 .. k : stack'[i] = stack[i]
  BY <1>3
<1> HIDE DEF k
<1>7. k \in 1 .. k /\ \A i \in 1 .. k - 1 : i \in 1 .. k
  BY <1>5
<1>8. /\ Len(metas') = k /\ Len(partIds') = k
      /\ \A i \in 1 .. k : metas'[i].type = stack'[i].type /\ metas'[i].size = stack'[i].size
      /\ \A i \in 1 .. k : stack'[i].type \in Collections => partIds'[i] = stack'[i].count - 1
      /\ \A i \in 1 .. k - 1 : stack'[i].type \in Collections
      /\ stack'[k].type = "POLYGON" => ringId' = stack'[k].count - 1
  <2>1. /\ Len(metas) = k /\ Len(partIds) = k
        /\ \A i \in 1 .. k : metas[i].type = stack[i].type /\ metas[i].size = stack[i].size
        /\ \A i \in 1 .. k : stack[i].type \in Collections => partIds[i] = stack[i].count - 1
        /\ \A i \in 1 .. k - 1 : stack[i].type \in Collections
        /\ stack[k].type = "POLYGON" => ringId = stack[k].count - 1
    BY <1>1, <1>5 DEF StacksInStep
  <2>2. UNCHANGED <<metas, partIds, ringId>>
    BY <1>1 DEF geometryVars
  <2>3. QED
    BY <1>6, <1>7, <2>1, <2>2
<1>9. QED
  BY <1>4, <1>5, <1>8 DEF StacksInStep, Leaves

(* ring_end() with any answer.                                             *)
LEMMA CallRingEndBridge ==
  ASSUME BridgeInv, NEW r \in Answers, CallRingEnd(r)
  PROVE  BridgeInv'
<1>1. phase = "geometry" /\ UNCHANGED <<featId, geometryVars, flags, builder>>
  BY DEF CallRingEnd
<1>2. CASE r = "CONTINUE" /\ RingEnd /\ UNCHANGED driverVars
  <2>1. ReaderInv' /\ phase' = "geometry" /\ UNCHANGED <<features, dim>>
    BY <1>2, RingEndInv DEF RingEnd, BridgeInv
  <2>2. BridgeTypeOK' /\ capacity' = capacity
    BY <1>1, <1>2 DEF BridgeInv, BridgeTypeOK, driverVars, geometryVars
  <2>3. StacksInStep'
    BY <1>2, RingEndInStep
  <2>4. QED
    BY <1>1, <1>2, <2>1, <2>2, <2>3, GeometryGoesOn
<1>3. CASE Stops(r, Read) /\ UNCHANGED dim
  <2>1. BridgeTypeOK' /\ CapacityInv'
    BY <1>1, <1>3, StopsTypes DEF BridgeInv, BridgeTypeOK, CapacityInv, geometryVars
  <2>2. QED
    BY <1>1, <1>3, <2>1, InFeature, StopsBridge
<1>4. QED
  BY <1>2, <1>3 DEF CallRingEnd

(* The end of a geometry has its meta on top of the bridge's stack, and    *)
(* leaves the parent's.                                                    *)
LEMMA GeomEndInStep ==
  ASSUME BridgeInv, NEW r \in Answers, CallGeomEnd(r)
  PROVE  /\ metas' \in Seq(MetaType) /\ partIds' \in Seq(Int)
         /\ GeomEnd /\ phase' = "geometry" => StacksInStep'
<1> DEFINE l == Len(stack)
<1>1. /\ phase = "geometry" /\ Top.type # "RING"
      /\ partIds' = Front(partIds) /\ metas' = Front(metas)
      /\ UNCHANGED <<ringId, coordId, ringSize>>
  BY DEF CallGeomEnd
<1>2. /\ l \in Nat \ {0} /\ StacksInStep
      /\ metas \in Seq(MetaType) /\ partIds \in Seq(Int) /\ Depth = l
  BY <1>1, TopFrame DEF BridgeInv, FramesInv, BridgeTypeOK, Depth
<1>3. Len(metas) = l /\ Len(partIds) = l
  BY <1>2 DEF StacksInStep
<1>4. /\ metas' \in Seq(MetaType) /\ Len(metas') = l - 1
      /\ \A i \in 1 .. l - 1 : metas'[i] = metas[i]
  BY <1>1, <1>2, <1>3, FrontEntries
<1>5. /\ partIds' \in Seq(Int) /\ Len(partIds') = l - 1
      /\ \A i \in 1 .. l - 1 : partIds'[i] = partIds[i]
  BY <1>1, <1>2, <1>3, FrontEntries
<1>6. ASSUME GeomEnd, phase' = "geometry"
      PROVE  StacksInStep'
  <2>1. l > 1
    BY <1>2, <1>6 DEF GeomEnd
  <2>2. Len(stack') = l - 1 /\ \A i \in 1 .. l - 1 : stack'[i] = stack[i]
    BY <1>2, <1>6, <2>1, PopInv, EmptySeq DEF GeomEnd, BridgeInv, ReaderInv, ReaderTypeOK
  <2> DEFINE k == l - 1
  <2>3. k \in Nat \ {0} /\ k \in 1 .. k /\ \A i \in 1 .. k - 1 : i \in 1 .. k
    BY <1>2, <2>1
  <2>4. /\ \A i \in 1 .. k : metas[i].type = stack[i].type /\ metas[i].size = stack[i].size
        /\ \A i \in 1 .. k : stack[i].type \in Collections => partIds[i] = stack[i].count - 1
        /\ \A i \in 1 .. k : stack[i].type \in Collections
    BY <1>2, StacksOf DEF StacksInStep
  <2>5. \A t \in Collections : t # "RING" /\ t # "POLYGON" /\ t \notin Leaves
    BY DEF Collections, MultiTypes, Leaves
  <2> HIDE DEF k
  <2>6. /\ Top' = stack'[k] /\ Top'.type \in Collections
    <3>1. Len(stack') = k /\ stack'[k] = stack[k]
      BY <2>2, <2>3 DEF k
    <3>2. QED
      BY <2>3, <2>4, <3>1 DEF Top
  <2>7. Depth' = k
    BY <2>2, <2>5, <2>6 DEF Depth, k
  <2>8. /\ Len(metas') = k /\ Len(partIds') = k
        /\ \A i \in 1 .. k : /\ metas'[i] = metas[i] /\ partIds'[i] = partIds[i]
                             /\ stack'[i] = stack[i]
    BY <1>4, <1>5, <2>2 DEF k
  <2>9. QED
    BY <2>3, <2>4, <2>5, <2>6, <2>7, <2>8 DEF StacksInStep
<1>7. QED
  BY <1>4, <1>5, <1>6

(* geom_end() with any answer.                                             *)
LEMMA CallGeomEndBridge ==
  ASSUME BridgeInv, NEW r \in Answers, CallGeomEnd(r)
  PROVE  BridgeInv'
<1>1. /\ phase = "geometry"
      /\ UNCHANGED <<featId, ringId, coordId, ringSize, capacity, flags, builder>>
      /\ metas' \in Seq(MetaType) /\ partIds' \in Seq(Int)
  BY GeomEndInStep DEF CallGeomEnd
<1>2. CASE r = "CONTINUE" /\ GeomEnd /\ UNCHANGED driverVars
  <2>1. ReaderInv' /\ phase' \in {"geometry", "closing"} /\ UNCHANGED <<features, dim>>
    BY <1>2, GeomEndInv DEF GeomEnd, BridgeInv
  <2>2. BridgeTypeOK'
    BY <1>1, <1>2 DEF BridgeInv, BridgeTypeOK, driverVars
  <2>3. phase' = "geometry" => StacksInStep'
    BY <1>2, GeomEndInStep
  <2>4. QED
    BY <1>1, <1>2, <2>1, <2>2, <2>3, GeometryGoesOn
<1>3. CASE Stops(r, Read) /\ UNCHANGED dim
  <2>1. BridgeTypeOK' /\ CapacityInv'
    BY <1>1, <1>3, StopsTypes DEF BridgeInv, BridgeTypeOK, CapacityInv
  <2>2. QED
    BY <1>1, <1>3, <2>1, InFeature, StopsBridge
<1>4. QED
  BY <1>2, <1>3 DEF CallGeomEnd

(***************************************************************************)
(* Theorems                                                                *)
(***************************************************************************)

(* A new handler, behind a reader that has not begun.                      *)
LEMMA InitBridge == Init => BridgeInv
<1> SUFFICES ASSUME Init
             PROVE  BridgeInv
  OBVIOUS
<1>1. ReaderInv /\ phase = "start" /\ dim = Unknown /\ Len(features) = 0
  BY ReaderInitInv DEF Init, ReaderInit
<1>2. BridgeTypeOK
  <2>1. partIds \in Seq(Int) /\ metas \in Seq(MetaType)
    BY EmptySeq DEF Init, NewHandler
  <2>2. arrays \in Nat /\ capacity \in Nat /\ flags \in AllDims
    BY BridgeAssumption DEF Init, NewHandler, AllDims
  <2>3. /\ vector = "before" /\ inArray = FALSE /\ aborted = FALSE
        /\ featId \in Int /\ ringId \in Int /\ coordId \in Int
    BY DEF Init, NewHandler
  <2>4. QED
    BY <2>1, <2>2, <2>3 DEF BridgeTypeOK
<1>3. DriverInv
  BY <1>1 DEF Init, NewHandler, DriverInv
<1>4. FramesInv /\ FlagsInv /\ CapacityInv
  BY <1>1, BridgeAssumption DEF Init, NewHandler, FramesInv, FlagsInv, CapacityInv
<1>5. QED
  BY <1>1, <1>2, <1>3, <1>4 DEF BridgeInv

(* The sizes that Next ranges over.                                        *)
LEMMA StepTypes ==
  /\ \A sz \in -1 .. MaxParts : sz \in Int
  /\ \A n \in 0 .. MaxParts : n \in Nat
<1>1. MaxParts \in Int
  BY ReaderAssumption
<1>2. QED
  BY <1>1

(* Every step of a driver or a callback keeps the invariant.               *)
LEMMA BridgeStep == BridgeInv /\ [Next]_vars => BridgeInv'
<1> SUFFICES ASSUME BridgeInv, [Next]_vars
             PROVE  BridgeInv'
  OBVIOUS
<1>1. CASE Drive
  BY <1>1, VectorStartBridge, DriverStepBridge DEF Drive
<1>2. CASE ReaderThrows
  BY <1>2, ReaderThrowsBridge
<1>3. ASSUME NEW r \in Answers, CallFeatStart(r) \/ CallNullFeat(r) \/ CallFeatEnd(r)
      PROVE  BridgeInv'
  BY <1>3, CallFeatStartBridge, CallNullFeatBridge, CallFeatEndBridge
<1>4. ASSUME NEW r \in Answers, CallRingEnd(r) \/ CallGeomEnd(r)
      PROVE  BridgeInv'
  BY <1>4, CallRingEndBridge, CallGeomEndBridge
<1>5. ASSUME NEW r \in Answers, NEW t \in GeometryTypes \cup {Unrecognized},
             NEW sz \in -1 .. MaxParts, NEW d \in Dims, CallGeomStart(t, sz, d, r)
      PROVE  BridgeInv'
  BY <1>5, StepTypes, CallGeomStartBridge
<1>6. ASSUME NEW r \in Answers, NEW sz \in -1 .. MaxParts, CallRingStart(sz, r)
      PROVE  BridgeInv'
  BY <1>6, StepTypes, CallRingStartBridge
<1>7. ASSUME NEW r \in Answers, NEW n \in 0 .. MaxParts, NEW k \in 0 .. MaxParts,
             CallCoords(n, k, r)
      PROVE  BridgeInv'
  BY <1>7, StepTypes, CallCoordsBridge
<1>8. CASE UNCHANGED vars
  <2>1. /\ UNCHANGED readerVars /\ UNCHANGED driverVars /\ UNCHANGED geometryVars
        /\ UNCHANGED <<featId, flags, builder>>
    BY <1>8 DEF vars
  <2>2. ReaderInv'
    BY <2>1 DEF BridgeInv, ReaderInv, ReaderTypeOK, StackWellFormed, readerVars
  <2>3. BridgeTypeOK' /\ DriverInv' /\ FlagsInv' /\ CapacityInv'
    BY <2>1 DEF BridgeInv, BridgeTypeOK, DriverInv, FlagsInv, CapacityInv, readerVars,
                driverVars, geometryVars
  <2>4. FramesInv'
    BY <2>1 DEF BridgeInv, FramesInv, StacksInStep, Depth, Top, readerVars, geometryVars
  <2>5. QED
    BY <2>2, <2>3, <2>4 DEF BridgeInv
<1>9. QED
  BY <1>1, <1>2, <1>3, <1>4, <1>5, <1>6, <1>7, <1>8 DEF Next

(* The invariant of the bridge, always.                                    *)
THEOREM BridgeInvariant == Spec => []BridgeInv
BY InitBridge, BridgeStep, PTL DEF Spec

(* The frames without the ring are the first Depth ones.                   *)
LEMMA OpenFrames ==
  ASSUME ReaderInv, phase = "geometry"
  PROVE  /\ Len(Open) = Depth /\ Depth \in Nat
         /\ \A i \in 1 .. Depth : Open[i] = stack[i]
<1>1. /\ stack \in Seq(FrameType) /\ Len(stack) \in Nat \ {0} /\ stack # << >>
  BY TopFrame
<1>2. /\ Len(Front(stack)) = Len(stack) - 1
      /\ \A i \in 1 .. Len(stack) - 1 : Front(stack)[i] = stack[i]
  BY <1>1, FrontEntries
<1>3. QED
  BY <1>1, <1>2 DEF Open, Depth

(* Whatever is nested in whatever, and wherever a feature was given up:    *)
(* the part ids, ring ids and coordinate ids a wk handler gets count what  *)
(* the reader has read of the parent, the metas are those of the open      *)
(* geometries, and feature ids go on over given-up features and arrays.    *)
THEOREM IdsAreExact == Spec => []IdsExact
<1>1. ASSUME BridgeInv PROVE IdsExact
  <2>1. \/ phase \in {"read", "failed"}
        \/ featId = Len(features)
                    - (IF phase \in {"between", "start"} \/ vector = "ended" THEN 1 ELSE 0)
    BY <1>1 DEF BridgeInv, DriverInv, ReaderInv, ReaderTypeOK, Phases
  <2>2. ASSUME phase = "geometry"
        PROVE  /\ Len(metas) = Len(Open) /\ Len(partIds) = Len(Open)
               /\ \A i \in 1 .. Len(Open) :
                    <<metas[i].type, metas[i].size>> = <<Open[i].type, Open[i].size>>
               /\ \A i \in 1 .. Len(Open) :
                    Open[i].type \in MultiTypes \cup {"GEOMETRYCOLLECTION"} =>
                      partIds[i] = Open[i].count - 1
               /\ Top.type = "RING" => ringSize = Top.size
               /\ metas[Len(metas)].type = "POLYGON" => ringId = Open[Len(Open)].count - 1
               /\ Top.type \in {"POINT", "LINESTRING", "RING"} => coordId = Top.count - 1
    <3> DEFINE k == Depth
    <3>1. /\ Len(Open) = k /\ k \in Nat /\ \A i \in 1 .. k : Open[i] = stack[i]
      BY <1>1, <2>2, OpenFrames DEF BridgeInv
    <3>2. StacksInStep
      BY <1>1, <2>2 DEF BridgeInv, FramesInv
    <3>3. k \in 1 .. k
      <4>1. Len(stack) \in Nat \ {0} /\ (Top.type = "RING" => k >= 1)
        BY <1>1, <2>2, <3>2, TopFrame DEF BridgeInv, StacksInStep
      <4>2. QED
        BY <3>1, <4>1 DEF Depth
    <3> HIDE DEF k
    <3>4. /\ Len(metas) = k /\ Len(partIds) = k
          /\ \A i \in 1 .. k : metas[i].type = stack[i].type /\ metas[i].size = stack[i].size
          /\ \A i \in 1 .. k : stack[i].type \in Collections => partIds[i] = stack[i].count - 1
          /\ Top.type = "RING" => ringSize = Top.size
          /\ stack[k].type = "POLYGON" => ringId = stack[k].count - 1
          /\ Top.type \in Leaves => coordId = Top.count - 1
      BY <3>2 DEF StacksInStep, k
    <3>5. QED
      BY <3>1, <3>3, <3>4 DEF Collections, Leaves
  <2>3. QED
    BY <2>1, <2>2 DEF IdsExact
<1>2. QED
  BY <1>1, BridgeInvariant, PTL

(* The builder never takes more or fewer ordinates out of the pointer it   *)
(* gets than the reader put there, nor takes an M for a Z.                 *)
THEOREM BuilderKnowsDimensions == Spec => []BuilderInStep
<1>1. BridgeInv => BuilderInStep
  BY DEF BridgeInv, FlagsInv, BuilderInStep
<1>2. QED
  BY <1>1, BridgeInvariant, PTL

(* As long as geometries nest no deeper than was reserved, no meta that a  *)
(* handler holds a pointer to moves.                                       *)
THEOREM MetasStayPut == Spec => PointersKept
<1>1. ASSUME BridgeInv, [Next]_vars, MaxDepth <= Reserved, metas # << >>
      PROVE  capacity' = capacity
  <2>1. ASSUME NEW r \in Answers, NEW t \in GeometryTypes \cup {Unrecognized},
               NEW sz \in -1 .. MaxParts, NEW d \in Dims, CallGeomStart(t, sz, d, r)
        PROVE  capacity' = capacity
    <3>1. phase = "geometry"
      BY <1>1, <2>1 DEF CallGeomStart, GeomStart, BridgeInv, FramesInv
    <3>2. Len(stack) < MaxDepth /\ Top.type # "RING"
      BY <2>1, <3>1, PartsAreOfCollections DEF CallGeomStart, GeomStart, MultiTypes
    <3>3. Len(metas) = Len(stack) /\ Len(stack) \in Nat
      BY <1>1, <3>1, <3>2, TopFrame DEF BridgeInv, FramesInv, StacksInStep, Depth
    <3>4. Len(metas) # capacity
      BY <1>1, <3>2, <3>3, BridgeAssumption, ReaderAssumption
      DEF BridgeInv, CapacityInv, BridgeTypeOK
    <3>5. QED
      BY <2>1, <3>4 DEF CallGeomStart
  <2>2. CASE Drive
    BY <2>2 DEF Drive, VectorStart, NextArray, StreamFails, ArrayRead, LoopDone, VectorEnd,
                geometryVars
  <2>3. CASE ReaderThrows \/ UNCHANGED vars
    BY <2>3 DEF ReaderThrows, vars, geometryVars
  <2>4. ASSUME NEW r \in Answers,
               \/ CallFeatStart(r) \/ CallNullFeat(r) \/ CallRingEnd(r)
               \/ CallGeomEnd(r) \/ CallFeatEnd(r)
               \/ \E sz \in -1 .. MaxParts : CallRingStart(sz, r)
               \/ \E n \in 0 .. MaxParts, k \in 0 .. MaxParts : CallCoords(n, k, r)
        PROVE  capacity' = capacity
    BY <2>4 DEF CallFeatStart, CallNullFeat, CallRingEnd, CallGeomEnd, CallFeatEnd,
                CallRingStart, CallCoords, geometryVars
  <2>5. QED
    BY <1>1, <2>1, <2>2, <2>3, <2>4 DEF Next
<1>2. BridgeInv /\ [Next]_vars =>
        [MaxDepth <= Reserved /\ metas # << >> => capacity' = capacity]_vars
  BY <1>1
<1>3. QED
  BY <1>2, BridgeInvariant, PTL DEF Spec, PointersKept

(* Once a callback has answered WK_ABORT, the drivers leave both loops     *)
(* with no further call on the reader or a handler but vector_end().       *)
THEOREM NothingAfterAbort == Spec => StopsAfterAbort
<1>1. ASSUME BridgeInv, [Next]_vars, aborted
      PROVE  UNCHANGED <<readerVars, arrays, inArray, featId, geometryVars, builder>>
  <2>1. \/ phase = "read"
        \/ phase = "between" /\ vector \in {"closing", "ended"} /\ ~inArray
    BY <1>1 DEF BridgeInv, DriverInv, BridgeTypeOK
  <2>2. CASE Drive
    <3>1. LoopDone \/ VectorEnd
      BY <2>1, <2>2 DEF Drive, VectorStart, ReadMeta, NextArray, StreamFails, ArrayRead
    <3>2. QED
      BY <3>1 DEF LoopDone, VectorEnd
  <2>3. CASE UNCHANGED vars
    BY <2>3 DEF vars, driverVars
  <2>4. ~ReaderThrows
    BY <2>1 DEF ReaderThrows
  <2>5. ASSUME NEW r \in Answers
        PROVE  /\ ~(CallFeatStart(r) \/ CallNullFeat(r) \/ CallRingEnd(r))
               /\ ~(CallGeomEnd(r) \/ CallFeatEnd(r))
               /\ \A t, sz, d : ~CallGeomStart(t, sz, d, r)
               /\ \A sz : ~CallRingStart(sz, r)
               /\ \A n, k : ~CallCoords(n, k, r)
    BY <2>1 DEF CallFeatStart, CallNullFeat, CallRingEnd, CallGeomEnd, CallFeatEnd,
                CallGeomStart, GeomStart, CallRingStart, CallCoords
  <2>6. QED
    <3>1. CASE Next
      <4>1. Drive
        BY <2>4, <2>5, <3>1 DEF Next
      <4>2. QED
        BY <2>2, <4>1
    <3>2. QED
      BY <1>1, <2>3, <3>1
<1>2. BridgeInv /\ [Next]_vars =>
        [aborted => UNCHANGED <<readerVars, arrays, inArray, featId, geometryVars, builder>>]_vars
  BY <1>1
<1>3. QED
  BY <1>2, BridgeInvariant, PTL DEF Spec, StopsAfterAbort
==============================================================================
