----------------------------- MODULE ValidityBits -----------------------------
(***************************************************************************)
(* What a BitmapBuilder promises its owner, an ArrayBuilder: a sequence of *)
(* validity bits that grows by one bit per element until it is released,   *)
(* however its memory is allocated, grown, shrunk or padded meanwhile.     *)
(***************************************************************************)
EXTENDS Sequences

VARIABLES
  bits,     (* the bits written, one per element                            *)
  released  (* whether the buffer was handed over                           *)

Init == bits = << >> /\ released = FALSE

Write(value) ==
  /\ ~released
  /\ bits' = Append(bits, value)
  /\ UNCHANGED released

Release ==
  /\ ~released
  /\ released' = TRUE
  /\ UNCHANGED bits

Next == (\E value \in BOOLEAN : Write(value)) \/ Release

Spec == Init /\ [][Next]_<<bits, released>>
==============================================================================
