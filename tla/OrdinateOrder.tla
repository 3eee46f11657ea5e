----------------------------- MODULE OrdinateOrder -----------------------------
(***************************************************************************)
(* Doubles as far as bounds are concerned: finite ordinates, infinities    *)
(* and NaN, and what std::min() and std::max() make of them.               *)
(***************************************************************************)
EXTENDS Integers

CONSTANTS
  Ordinates,   (* the finite ordinates that occur                           *)
  Infinity     (* larger than any of them; -Infinity is smaller             *)

ASSUME OrdinateAssumption ==
  /\ Infinity \in Nat
  /\ Ordinates \subseteq (1 - Infinity) .. (Infinity - 1)

(* Not a number: what an empty POINT of WKB has for coordinates.           *)
NaN == Infinity + 1

(* std::min(a, b) and std::max(a, b): a unless the comparison holds, which *)
(* it never does with NaN.                                                 *)
Less(x, y) == x # NaN /\ y # NaN /\ x < y
StdMin(x, y) == IF Less(y, x) THEN y ELSE x
StdMax(x, y) == IF Less(x, y) THEN y ELSE x
==============================================================================
