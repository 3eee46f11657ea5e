----------------------------- MODULE BitmapBuilder -----------------------------
(***************************************************************************)
(* BitmapBuilder of arrow-hpp with the BufferBuilder<uint8_t> it owns. Bits*)
(* gather in one byte (buffer_); as long as every full byte was 0xff none  *)
(* is stored, and no memory is allocated for them. The first byte with a   *)
(* false makes room for itself and for the skipped ones (trigger_alloc).   *)
(*                                                                         *)
(* A byte is the set of the positions of its 1 bits; memory that was never *)
(* written is Garbage, which is no byte.                                   *)
(***************************************************************************)
EXTENDS Integers, Sequences, FiniteSets

CONSTANTS
  Extra,     (* the arguments reserve() is called with                      *)
  MaxLength, (* bound: elements of the array                                *)
  MaxNulls   (* bound: nulls among them                                     *)

ASSUME BitmapAssumption ==
  Extra \subseteq Nat /\ MaxLength \in Nat /\ MaxNulls \in Nat

VARIABLES
  data,      (* buffer_builder_.data_, as long as its capacity_             *)
  used,      (* buffer_builder_.size_, in bytes                             *)
  buffer,    (* buffer_                                                     *)
  bufferSize,(* buffer_size_                                                *)
  size,      (* size_                                                       *)
  nullCount, (* null_count_                                                 *)
  allocated, (* allocated_                                                  *)
  length,    (* ArrayBuilder::size_ of the owner                            *)
  released   (* whether release() was called                                *)

memory == <<data, used, allocated>>
bitmapVars == <<data, used, buffer, bufferSize, size, nullCount, allocated, length, released>>

Byte == SUBSET (0 .. 7)
Full == 0 .. 7  \* 0xff
Garbage == {8}

Larger(x, y) == IF x > y THEN x ELSE y

(***************************************************************************)
(* BufferBuilder                                                           *)
(***************************************************************************)
(* (mutant) New memory that does not keep what was there.                  *)
ReallocateFresh(d, n) == [i \in 1 .. Larger(n, 1) |-> Garbage]

(* realloc(): at least one byte.                                           *)
Reallocate(d, n) ==
  [i \in 1 .. Larger(n, 1) |-> IF i <= Len(d) THEN d[i] ELSE Garbage]

Reserve(d, n, additional) ==
  IF n + additional > Len(d) THEN Reallocate(d, Larger(2 * Len(d) + 1, n + additional))
  ELSE d

(***************************************************************************)
(* BitmapBuilder                                                           *)
(***************************************************************************)
BitmapInit ==
  /\ data = Reallocate(<< >>, 0)
  /\ used = 0
  /\ buffer = {}
  /\ bufferSize = 0
  /\ size = 0
  /\ nullCount = 0
  /\ allocated = FALSE
  /\ length = 0
  /\ released = FALSE

(* reallocate(bits)                                                        *)
BytesFor(bits) == IF bits % 8 = 0 THEN bits \div 8 ELSE bits \div 8 + 1

(* The memory after trigger_alloc(n), and the size_ it advances to.        *)
Filled(n) ==
  LET d == Reallocate(data, BytesFor(n))
  IN  [i \in 1 .. Len(d) |-> IF i > used THEN Full ELSE d[i]]

AdvancedWhole(n) == used + n \div 8  \* (mutant) one byte too far
Advanced(n) == IF n > 0 THEN used + (n - 1) \div 8 ELSE used

(* A full byte leaves buffer_ when size_ is n.                             *)
Flush(byte, n) ==
  LET d == IF allocated THEN data ELSE Filled(n)
      u == IF allocated THEN used ELSE Advanced(n)
  IN  /\ data' = [Reserve(d, u, 1) EXCEPT ![u + 1] = byte]
      /\ used' = u + 1
      /\ allocated' = TRUE

WriteElement(value) ==
  /\ ~released
  /\ length < MaxLength
  /\ value \/ nullCount < MaxNulls
  /\ length' = length + 1
  /\ size' = size + 1
  /\ nullCount' = nullCount + (IF value THEN 0 ELSE 1)
  /\ LET byte == IF value THEN buffer \cup {bufferSize} ELSE buffer
     IN  \/ /\ bufferSize < 7
            /\ buffer' = byte
            /\ bufferSize' = bufferSize + 1
            /\ UNCHANGED memory
         \/ /\ bufferSize = 7
            /\ buffer' = {}
            /\ bufferSize' = 0
            /\ IF byte = Full /\ ~allocated THEN UNCHANGED memory ELSE Flush(byte, size')
  /\ UNCHANGED released

(* reserve(), once memory is allocated.                                    *)
ReserveMore ==
  /\ ~released
  /\ allocated
  /\ \E n \in Extra : data' = Reserve(data, used, n \div 8 + 1)
  /\ UNCHANGED <<used, buffer, bufferSize, size, nullCount, allocated, length, released>>

Shrink ==
  /\ ~released
  /\ allocated
  /\ data' = Reallocate(data, used)
  /\ UNCHANGED <<used, buffer, bufferSize, size, nullCount, allocated, length, released>>

(* (mutant) No padding unless memory was allocated before.                 *)
ReleaseAllocatedOnly ==
  /\ ~released
  /\ released' = TRUE
  /\ IF allocated
     THEN /\ Flush(buffer, size + 8 - bufferSize)
          /\ size' = size + 8 - bufferSize
          /\ buffer' = {}
          /\ bufferSize' = 0
     ELSE UNCHANGED <<memory, size, buffer, bufferSize>>
  /\ UNCHANGED <<nullCount, length>>

(* release() writes false until the byte is full; no bit is set, and the   *)
(* last of these calls flushes the byte (which is therefore never 0xff).   *)
(* null_count_ is restored, size_ is not.                                  *)
Release ==
  /\ ~released
  /\ released' = TRUE
  /\ IF allocated \/ nullCount > 0
     THEN /\ Flush(buffer, size + 8 - bufferSize)
          /\ size' = size + 8 - bufferSize
          /\ buffer' = {}
          /\ bufferSize' = 0
     ELSE UNCHANGED <<memory, size, buffer, bufferSize>>
  /\ UNCHANGED <<nullCount, length>>

BitmapNext ==
  \/ \E value \in BOOLEAN : WriteElement(value)
  \/ ReserveMore
  \/ Shrink
  \/ Release

BitmapSpec == BitmapInit /\ [][BitmapNext]_bitmapVars

(***************************************************************************)
(* The bits written so far, as the state of the builder represents them:   *)
(* flushed bytes, all ones as long as nothing is allocated, then buffer_.  *)
(***************************************************************************)
BitAt(i) ==
  IF i \div 8 < size \div 8 THEN allocated => i % 8 \in data[i \div 8 + 1]
  ELSE i % 8 \in buffer

Bits == [i \in 1 .. length |-> BitAt(i - 1)]

Nulls == {i \in 1 .. length : ~Bits[i]}

(* The bits a consumer of the released buffer reads; a null pointer in     *)
(* place of the buffer says that all elements are valid.                   *)
ConsumedBits ==
  [i \in 1 .. length |-> allocated => (i - 1) % 8 \in data[(i - 1) \div 8 + 1]]

(***************************************************************************)
(* Properties                                                              *)
(***************************************************************************)
TypeOK ==
  /\ data \in Seq(Byte \cup {Garbage})
  /\ used \in 0 .. Len(data)
  /\ buffer \in Byte
  /\ bufferSize \in 0 .. 7
  /\ size \in Nat
  /\ nullCount \in Nat
  /\ allocated \in BOOLEAN
  /\ length \in Nat
  /\ released \in BOOLEAN

(* The builder is a sequence of bits: each write_element() appends its bit *)
(* and changes no earlier one, reserve() and shrink() change none, and     *)
(* release() keeps them all although it pads the last byte.                *)
Abstract == INSTANCE ValidityBits WITH bits <- Bits

ImplementsBits == Abstract!Spec

(* What is released is the sequence written, the buffer is left out        *)
(* exactly if there are no nulls, and the null count is that of the        *)
(* elements, not of the padding.                                           *)
ReleasedBitmap ==
  released =>
    /\ ConsumedBits = Bits
    /\ allocated <=> Nulls # {}
    /\ nullCount = Cardinality(Nulls)

(* Every stored byte was written: no flushed byte is left uninitialised by *)
(* growing, shrinking or the late allocation.                              *)
StoredBytesWritten == \A i \in 1 .. used : data[i] \in Byte
==============================================================================
