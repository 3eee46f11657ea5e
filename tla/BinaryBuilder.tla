---------------------------- MODULE BinaryBuilder ----------------------------
(***************************************************************************)
(* BinaryArrayBuilder of arrow-hpp as operators on records: data appended  *)
(* piece by piece, an offset per finished element, in an int32_t buffer    *)
(* until the data may outgrow it and in an int64_t buffer from then on.    *)
(* A piece of data (a "cell") is a field of the format written, and counts *)
(* as one byte. Capacities are left out.                                   *)
(***************************************************************************)
EXTENDS Integers, Sequences

CONSTANT IntMax  (* INT32_MAX                                               *)

ASSUME IntMaxAssumption == IntMax \in Nat

(* int64_t to int32_t                                                      *)
ToInt32(n) ==
  IF n <= IntMax THEN n ELSE ((n + IntMax + 1) % (2 * (IntMax + 1))) - (IntMax + 1)

NewBinary(large) ==
  [data |-> << >>, large |-> large, valid |-> << >>,
   offsets |-> IF large THEN << >> ELSE <<0>>,
   largeOffsets |-> IF large THEN <<0>> ELSE << >>]

(* (mutant) The offset 0 is not copied.                                    *)
MakeLargeSkipFirst(s) ==
  IF s.large THEN s
  ELSE [data |-> s.data, large |-> TRUE, valid |-> s.valid, offsets |-> << >>,
        largeOffsets |-> s.largeOffsets \o Tail(s.offsets)]

MakeLarge(s) ==
  IF s.large THEN s
  ELSE [data |-> s.data, large |-> TRUE, valid |-> s.valid, offsets |-> << >>,
        largeOffsets |-> s.largeOffsets \o s.offsets]

(* (mutant) Off by one.                                                    *)
NeedsMakeLargeLate(s, n) == ~s.large /\ Len(s.data) + n > IntMax + 1

NeedsMakeLarge(s, n) == ~s.large /\ Len(s.data) + n > IntMax

ReserveData(s, n) == IF NeedsMakeLarge(s, n) THEN MakeLarge(s) ELSE s

(* memcpy() to data_at_cursor() and advance_data(): nothing is checked.    *)
Advance(s, cells) ==
  [data |-> s.data \o cells, large |-> s.large, valid |-> s.valid,
   offsets |-> s.offsets, largeOffsets |-> s.largeOffsets]

WriteBuffer(s, cells) == Advance(ReserveData(s, Len(cells)), cells)

FinishElement(s, notNull) ==
  [data |-> s.data, large |-> s.large, valid |-> Append(s.valid, notNull),
   offsets |-> IF s.large THEN s.offsets ELSE Append(s.offsets, ToInt32(Len(s.data))),
   largeOffsets |-> IF s.large THEN Append(s.largeOffsets, Len(s.data)) ELSE s.largeOffsets]

(* The fields of a builder that is written cells of this kind.             *)
BinaryOf(cells) ==
  [data : Seq(cells), large : BOOLEAN, valid : Seq(BOOLEAN),
   offsets : Seq((-IntMax - 1) .. IntMax), largeOffsets : Seq(Int)]

(* One of the two offset buffers is in use, and it is the narrow one only  *)
(* as long as the data that is written, finished or not, fits.             *)
WidthFits(s) ==
  IF s.large THEN s.offsets = << >> ELSE s.largeOffsets = << >> /\ Len(s.data) <= IntMax

(* The offsets release() exports.                                          *)
Offsets(s) == IF s.large THEN s.largeOffsets ELSE s.offsets

(* The cells of element i of what release() exports.                       *)
Slice(s, i) == SubSeq(s.data, Offsets(s)[i] + 1, Offsets(s)[i + 1])
==============================================================================
