----------------------------- MODULE GeoarrowVctr -----------------------------
(***************************************************************************)
(* geoarrow_vctr (R/vctr.R, vctr.c): an R vector of 1-based indices into    *)
(* the features of a list of Arrow arrays (chunks). Subsetting changes the  *)
(* indices only; c() concatenates the chunks; conversion to an array or a   *)
(* stream of arrays resolves indices and chunks again, on four different    *)
(* paths. What all of it has to agree with is the plain vector of features  *)
(* `want`. A feature is its identity, Null a null; the cast of a feature    *)
(* to its own type is CastArray's concern and keeps it.                     *)
(*                                                                          *)
(* An NA index is NA_INTEGER (INT_MIN in C): less than 1, and never one     *)
(* away from an index.                                                      *)
(***************************************************************************)
EXTENDS Integers, Sequences, FiniteSets, SequencesExt, FiniteSetsExt

CONSTANTS
  Types,         (* storage types; different ones meet in "wkb"             *)
  ChunkLengths,  (* lengths an array may have                               *)
  MaxChunks,     (* bound: chunks of a vector                                *)
  MaxFeatures,   (* bound: features in the arrays of a vector               *)
  MaxLength,     (* bound: length of a subset                               *)
  MaxNulls,      (* bound: null features of a vector that is constructed    *)
  Combine,       (* whether c() is called                                   *)
  CombineSubsets (* whether c() is called on vectors that are subsets       *)

ASSUME VctrAssumption ==
  /\ "wkb" \in Types
  /\ ChunkLengths \subseteq Nat
  /\ MaxChunks \in Nat /\ MaxFeatures \in Nat
  /\ MaxLength \in Nat /\ MaxNulls \in Nat
  /\ Combine \in BOOLEAN /\ CombineSubsets \in BOOLEAN

VARIABLES
  v,     (* the vector: [type, chunks, indices]                             *)
  want,  (* history: the features v stands for                              *)
  stream (* as_narrow_array_stream(v): where it is and what it has so far   *)

vars == <<v, want, stream>>

Null == 0
NA == -1

Idle == [phase |-> "idle", i |-> 1, begin |-> 0, end |-> 0, last |-> 0,
         arrays |-> <<>>, aligned |-> TRUE]

(***************************************************************************)
(* Chunks and their features                                                *)
(***************************************************************************)
(* The sums of the first numbers of a sequence.                            *)
Sums(lens) ==
  LET sum[j \in 0 .. Len(lens)] == IF j = 0 THEN 0 ELSE sum[j - 1] + lens[j]
  IN  sum

(* array_data_offsets: the number of features before and up to each chunk. *)
Offsets(chunks) == Sums([j \in DOMAIN chunks |-> Len(chunks[j].features)])

Total(chunks) == Offsets(chunks)[Len(chunks)]

(* The first chunk that ends at or after feature k.                        *)
ChunkOf(off, k) ==
  CHOOSE j \in 1 .. Cardinality(DOMAIN off) - 1 :
    k <= off[j] /\ \A i \in 1 .. j - 1 : off[i] < k

(* geoarrow_handle_vctr(): what a wk handler is given for index k.         *)
Feature(chunks, k) ==
  LET off == Offsets(chunks)
  IN  IF k = NA \/ k < 1 \/ k > Total(chunks)
      THEN Null
      ELSE LET j == ChunkOf(off, k) IN chunks[j].features[k - off[j - 1]]

Handled(x) == [i \in DOMAIN x.indices |-> Feature(x.chunks, x.indices[i])]

(* geoarrow_c_compute(op = "cast", filter): the features of the array it   *)
(* returns.                                                                *)
Filtered(chunk, filter) ==
  [i \in DOMAIN filter |->
     IF filter[i] = NA \/ filter[i] < 1 \/ filter[i] > Len(chunk.features)
     THEN Null
     ELSE chunk.features[filter[i]]]

(* R's indices - k.                                                        *)
Minus(indices, k) ==
  [i \in DOMAIN indices |-> IF indices[i] = NA THEN NA ELSE indices[i] - k]

(***************************************************************************)
(* Predicates on indices                                                    *)
(***************************************************************************)
IsSlice(indices) ==
  /\ indices # <<>>
  /\ \A i \in 2 .. Len(indices) : indices[i] - indices[i - 1] = 1

(* (mutant) Any slice from the first feature is taken for all of them.     *)
IsIdentitySlicePrefix(indices, len) ==
  IsSlice(indices) /\ indices[1] = 1

IsIdentitySlice(indices, len) ==
  IsSlice(indices) /\ indices[1] = 1 /\ indices[Len(indices)] = len

(* (mutant) Only the ends are compared.                                    *)
AllIncreasingEnds(indices) ==
  LET known == SelectSeq(indices, LAMBDA k : k # NA)
  IN  known # <<>> => known[1] <= known[Len(known)]

AllIncreasing(indices) ==
  \A i, j \in DOMAIN indices :
    i < j /\ NA \notin {indices[i], indices[j]} => indices[i] <= indices[j]

(* (mutant) An array that does not know its null count is taken to have    *)
(* none.                                                                   *)
AnyArrayNAPositive(x) == \E j \in DOMAIN x.chunks : x.chunks[j].nullCount > 0

(* is.na(): the features are looked at only if some array may have nulls.  *)
AnyArrayNA(x) == \E j \in DOMAIN x.chunks : x.chunks[j].nullCount # 0

IsNA(x) ==
  [i \in DOMAIN x.indices |->
     x.indices[i] = NA \/ (AnyArrayNA(x) /\ Handled(x)[i] = Null)]

(***************************************************************************)
(* Conversion to one array                                                  *)
(***************************************************************************)
(* A vector without arrays is given an empty one.                          *)
EmptyChunk == [features |-> <<>>, nullCount |-> 0]
ChunksOf(x) == IF x.chunks = <<>> THEN <<EmptyChunk>> ELSE x.chunks

(* as_narrow_array(): the array itself, the array filtered by the indices, *)
(* or whatever the wk handler collects from several arrays.                *)
AsNarrowArray(x) ==
  LET chunks == ChunksOf(x)
      only == chunks[1]
  IN  IF Len(chunks) > 1
      THEN Handled(x)
      ELSE IF IsIdentitySlice(x.indices, Len(only.features))
           THEN only.features
           ELSE Filtered(only, x.indices)

(***************************************************************************)
(* Construction, subsets and c()                                            *)
(***************************************************************************)
SeqLen(n) == [i \in 1 .. n |-> i]

NullsIn(features) == Cardinality({k \in DOMAIN features : features[k] = Null})

NewChunk(features, known) ==
  [features |-> features,
   nullCount |-> IF known \/ NullsIn(features) = 0 THEN NullsIn(features) ELSE -1]

(* new_geoarrow_vctr() without indices.                                    *)
NewVctr(type, chunks) ==
  [type |-> type, chunks |-> chunks, indices |-> SeqLen(Total(chunks))]

IsWhole(x) == x.indices = SeqLen(Total(x.chunks))

NullSets(n) == { s \in SUBSET (1 .. n) : Cardinality(s) <= MaxNulls }

(* Arrays of these lengths, with these nulls. Features are numbered from   *)
(* first + 1. The null count of an array with nulls is computed or not.    *)
Arrays(first, lens, nulls, known) ==
  [j \in DOMAIN lens |->
     NewChunk([k \in 1 .. lens[j] |->
                 LET n == Sums(lens)[j - 1] + k
                 IN  IF n \in nulls THEN Null ELSE first + n], known)]

(* Vectors of arrays as they come from wk handleables (one array) or from  *)
(* Arrow (several, also of length 0).                                      *)
Constructed(first, maxChunks) ==
  LET Sum(lens) == Sums(lens)[Len(lens)]
  IN  UNION {
        { NewVctr(type, Arrays(first, lens, nulls, known)) :
            type \in Types, nulls \in NullSets(Sum(lens)), known \in BOOLEAN } :
        lens \in { l \in BoundedSeq(ChunkLengths, maxChunks) : Sum(l) <= MaxFeatures } }

Init ==
  /\ v \in Constructed(0, MaxChunks)
  /\ want = FlattenSeq([j \in DOMAIN v.chunks |-> v.chunks[j].features])
  /\ stream = Idle

(* `[`, `[[`, rep(), rep_len() and vctrs::vec_restore(): R selects among   *)
(* the indices (0 stands for an NA subscript), vctr_restore() keeps the    *)
(* arrays.                                                                 *)
Restore(selection) ==
  /\ stream = Idle
  /\ v' = [v EXCEPT !.indices =
             [i \in DOMAIN selection |->
                IF selection[i] = 0 THEN NA ELSE v.indices[selection[i]]]]
  /\ want' = [i \in DOMAIN selection |->
                IF selection[i] = 0 THEN Null ELSE want[selection[i]]]
  /\ UNCHANGED stream

Subset == \E selection \in BoundedSeq(0 .. Len(v.indices), MaxLength) : Restore(selection)

(* geoarrow_ptype2()                                                       *)
PType2(x, y) == IF x.type = y.type THEN x.type ELSE "wkb"

(* geoarrow_vctr(x, schema): x itself if it has that schema, otherwise     *)
(* what the wk handler reads of it, cast to one array.                     *)
Casted(x, type) ==
  IF x.type = type THEN x ELSE NewVctr(type, <<NewChunk(Handled(x), TRUE)>>)

(* (mutant) The arrays of the argument that needs a cast come last.        *)
ConcatenatedCastLast(x, y) ==
  LET type == PType2(x, y)
      a == IF x.type = type THEN x ELSE y
      b == IF x.type = type THEN y ELSE x
  IN  NewVctr(type, Casted(a, type).chunks \o Casted(b, type).chunks)

(* c(x, y): the arrays of both, and an index for each of their features.   *)
Concatenated(x, y) ==
  LET type == PType2(x, y)
  IN  NewVctr(type, Casted(x, type).chunks \o Casted(y, type).chunks)

Concat(x, y) ==
  /\ stream = Idle /\ Combine
  /\ CombineSubsets \/ \A z \in {x, y} : IsWhole(z) \/ z.type # PType2(x, y)
  /\ v' = Concatenated(x, y)
  /\ Len(v'.chunks) <= MaxChunks /\ Total(v'.chunks) <= MaxFeatures
  /\ UNCHANGED stream

(* The other argument has at most one array.                               *)
CombineVctr ==
  \E w \in Constructed(Total(v.chunks), 1) :
    \/ Concat(v, w) /\ want' = want \o Handled(w)
    \/ Concat(w, v) /\ want' = Handled(w) \o want

(***************************************************************************)
(* Conversion to a stream of arrays: as_narrow_array_stream()               *)
(***************************************************************************)
StreamDone(arrays) == stream' = [Idle EXCEPT !.phase = "done", !.arrays = arrays]

StreamEmpty ==
  /\ stream = Idle
  /\ v.indices = <<>>
  /\ StreamDone(<<>>)
  /\ UNCHANGED <<v, want>>

StreamSingle ==
  /\ stream = Idle
  /\ v.indices # <<>> /\ Len(v.chunks) <= 1
  /\ StreamDone(<<AsNarrowArray(v)>>)
  /\ UNCHANGED <<v, want>>

(* arrow's Take() on the storage of all chunks, for indices in any order.  *)
Take(x) == Handled(x)

StreamTake ==
  /\ stream = Idle
  /\ v.indices # <<>> /\ Len(v.chunks) > 1 /\ ~AllIncreasing(v.indices)
  /\ StreamDone(<<Take(v)>>)
  /\ UNCHANGED <<v, want>>

StreamStart ==
  /\ stream = Idle
  /\ v.indices # <<>> /\ Len(v.chunks) > 1 /\ AllIncreasing(v.indices)
  /\ stream' = [stream EXCEPT !.phase = "chunks"]
  /\ UNCHANGED <<v, want>>

(* The positions whose indices chunk i, or a chunk before it, resolves.    *)
Matching(i) ==
  { k \in stream.last + 1 .. Len(v.indices) :
      v.indices[k] # NA /\ v.indices[k] <= stream.end + Len(v.chunks[i].features) }

AtChunk == stream.phase = "chunks" /\ stream.i <= Len(v.chunks)

(* `next`: array_index_begin keeps its value.                              *)
StreamSkip ==
  /\ AtChunk /\ Matching(stream.i) = {}
  /\ stream' = [stream EXCEPT
       !.i = @ + 1,
       !.end = @ + Len(v.chunks[stream.i].features)]
  /\ UNCHANGED <<v, want>>

(* (mutant) The next range starts two after this one.                      *)
StreamChunkGap ==
  /\ AtChunk /\ Matching(stream.i) # {}
  /\ LET chunk == v.chunks[stream.i]
         last == Max(Matching(stream.i))
     IN  stream' = [stream EXCEPT
           !.i = @ + 1,
           !.begin = @ + Len(chunk.features),
           !.end = @ + Len(chunk.features),
           !.last = last + 1,
           !.arrays = Append(@, Filtered(chunk,
              Minus(SubSeq(v.indices, stream.last + 1, last), stream.begin))),
           !.aligned = @ /\ stream.begin = stream.end]
  /\ UNCHANGED <<v, want>>

(* Chunk i gives the features from first_index to last_index, NAs between  *)
(* and before them included. `aligned` is history: whether                 *)
(* array_index_begin was the offset of the chunk.                          *)
StreamChunk ==
  /\ AtChunk /\ Matching(stream.i) # {}
  /\ LET chunk == v.chunks[stream.i]
         last == Max(Matching(stream.i))
     IN  stream' = [stream EXCEPT
           !.i = @ + 1,
           !.begin = @ + Len(chunk.features),
           !.end = @ + Len(chunk.features),
           !.last = last,
           !.arrays = Append(@, Filtered(chunk,
              Minus(SubSeq(v.indices, stream.last + 1, last), stream.begin))),
           !.aligned = @ /\ stream.begin = stream.end]
  /\ UNCHANGED <<v, want>>

AtTail == stream.phase = "chunks" /\ stream.i > Len(v.chunks)

(* (mutant) Pending NAs are added only if an index was resolved.           *)
StreamTailAfterMatch ==
  /\ AtTail
  /\ stream' = [stream EXCEPT
       !.phase = "done",
       !.arrays = IF stream.last \in {0, Len(v.indices)} THEN @
                  ELSE Append(@, Filtered(v.chunks[1],
                         [k \in 1 .. Len(v.indices) - stream.last |-> NA]))]
  /\ UNCHANGED <<v, want>>

(* NAs after the last resolved index.                                      *)
StreamTail ==
  /\ AtTail
  /\ stream' = [stream EXCEPT
       !.phase = "done",
       !.arrays = IF stream.last = Len(v.indices) THEN @
                  ELSE Append(@, Filtered(v.chunks[1],
                         [k \in 1 .. Len(v.indices) - stream.last |-> NA]))]
  /\ UNCHANGED <<v, want>>

(* The stream is handed out; the vector goes on.                           *)
StreamRead ==
  /\ stream.phase = "done"
  /\ stream' = Idle
  /\ UNCHANGED <<v, want>>

Next ==
  \/ Subset \/ CombineVctr
  \/ StreamEmpty \/ StreamSingle \/ StreamTake \/ StreamStart
  \/ StreamSkip \/ StreamChunk \/ StreamTail \/ StreamRead

Spec == Init /\ [][Next]_vars

(***************************************************************************)
(* Properties                                                               *)
(***************************************************************************)
Streamed == FlattenSeq(stream.arrays)

(* Whatever subsets and combinations made the vector, wk handlers read     *)
(* from it the features a plain vector would hold                          *)
(* (geoarrow_handle_vctr()).                                               *)
ValuesKept == Handled(v) = want

(* as_narrow_array() gives those features on each of its three paths.      *)
NarrowExact == AsNarrowArray(v) = want

(* is.na() is TRUE exactly for NA indices and null features, although it   *)
(* looks at the features only if an array admits to having nulls.          *)
NAExact == \A i \in DOMAIN want : IsNA(v)[i] <=> want[i] = Null

(* as_narrow_array_stream() gives the features of the vector, in order,    *)
(* unless array_index_begin fell behind (see StreamedAsWanted).            *)
StreamExact == stream.phase = "done" /\ stream.aligned => Streamed = want

(* vctr.R:194: "As long as we have strictly increasing or NA indices, we   *)
(* can use compute + cast + filter to resolve each array".                 *)
StreamedAsWanted == stream.phase = "done" => Streamed = want
==============================================================================
