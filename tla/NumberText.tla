------------------------------ MODULE NumberText ------------------------------
(***************************************************************************)
(* An ordinate on its way through WKT: write_coord() of WKTArrayBuilder    *)
(* writes it (Ryu), assertNumber() of WKTReader reads it back (FromChars). *)
(* Numbers of texts that others wrote are read as well.                    *)
(***************************************************************************)
EXTENDS FromChars

CONSTANTS
  Numbers,     (* the ordinates written                                     *)
  Precisions,  (* significant_digits_: 16 in the code                       *)
  None,        (* no number, no text                                        *)
  Numerals     (* other texts: pairs of digits and a power of 10            *)

ASSUME NumberAssumption ==
  /\ Numbers \subseteq Floats
  /\ Precisions \subseteq Nat
  /\ Numerals \subseteq Nat \X Int

VARIABLES
  number,     (* the ordinate, or None                                      *)
  precision,  (* significant_digits_                                        *)
  text,       (* its text, or None                                          *)
  power,      (* an exponent that follows the text                          *)
  value       (* what is read, or None                                      *)

numberVars == <<number, precision, text, power, value>>

Numeral(n) ==
  [name |-> "", minus |-> FALSE, integer |-> n, zeros |-> 0, leading |-> 0, decimals |-> 0]

(* copy_special_str() and to_chars_fixed(). A NaN has no sign.             *)
Named(name, minus) == [Numeral(0) EXCEPT !.name = name, !.minus = minus]

Written(f, p) ==
  IF f.exponent = MaxExponent
  THEN IF f.mantissa # 0 THEN Named("NaN", FALSE) ELSE Named("Infinity", f.sign)
  ELSE IF Zero(f) THEN Numeral(0)
  ELSE Text(f, p)

(* parse_infnan()                                                          *)
NaN == [sign |-> FALSE, exponent |-> MaxExponent, mantissa |-> Hidden \div 2]

ReadName(t) ==
  IF t.name = "NaN" THEN NaN
  ELSE [sign |-> t.minus, exponent |-> MaxExponent, mantissa |-> 0]

NumberInit ==
  /\ precision \in Precisions
  /\ value = None
  /\ \/ /\ number \in Numbers
        /\ text = None
        /\ power = 0
     \/ /\ number = None
        /\ \E n \in Numerals : text = Numeral(n[1]) /\ power = n[2]

(* write_coord()                                                           *)
WriteNumber ==
  /\ number # None
  /\ text = None
  /\ text' = Written(number, precision)
  /\ UNCHANGED <<number, precision, power, value>>

(* assertNumber()                                                          *)
ReadNumber ==
  /\ text # None
  /\ value = None
  /\ value' \in IF text.name = "" THEN FromChars(text, power) ELSE {ReadName(text)}
  /\ UNCHANGED <<number, precision, text, power>>

NumberNext == WriteNumber \/ ReadNumber

(***************************************************************************)
(* What a number is, as a decimal and between its neighbours: with a unit  *)
(* of 2 ^ (Power(f) - 2), f is 4 * Significand(f) and everything between   *)
(* LowerEnd and UpperEnd is nearer to it than to any other number.         *)
(***************************************************************************)
LowerEnd(f) == 4 * Significand(f) - (IF f.mantissa = 0 /\ f.exponent > 1 THEN 1 ELSE 2)
UpperEnd(f) == 4 * Significand(f) + 2

(* The difference of n * 10 ^ e and u units, in units of some size.        *)
Difference(f, n, e, u) ==
  LET e2 == Power(f) - 2
  IN n * 5 ^ Positive(e) * 2 ^ Positive(e - e2) - u * 5 ^ Positive(- e) * 2 ^ Positive(e2 - e)

Nearest(f, n, e) ==
  LET lower == Difference(f, n, e, LowerEnd(f))
      upper == Difference(f, n, e, UpperEnd(f))
  IN IF Significand(f) % 2 = 0 THEN lower >= 0 /\ upper <= 0 ELSE lower > 0 /\ upper < 0

Distance(f, n, e) ==
  LET d == Difference(f, n, e, 4 * Significand(f)) IN IF d < 0 THEN - d ELSE d

Largest == [sign |-> FALSE, exponent |-> MaxExponent - 1, mantissa |-> Hidden - 1]

(* The decimal of a text without a name.                                   *)
DigitsOf(t) == t.integer * 10 ^ (t.zeros + FractionLength(t)) + t.decimals
ExponentOf(t) == power - FractionLength(t)

Writing == number # None /\ text # None /\ ~Special(number)

(* Whether all decimals of the shortest decimal were asked for.            *)
Untrimmed == precision >= - ToDecimal(number).exponent

(***************************************************************************)
(* Properties                                                              *)
(***************************************************************************)
(* With all its decimals, a text is read back as its number by any correct *)
(* reader; no decimal with fewer digits is, and none with as many is       *)
(* nearer. (Whole numbers are written with all their digits.)              *)
ShortestText ==
  (Writing /\ Untrimmed /\ ~SmallInt(number)) =>
    LET n == DigitsOf(text)
        z == TrailingZeros(n)
        digits == n \div 10 ^ z
        e == ExponentOf(text) + z
    IN /\ Nearest(number, digits, e)
       /\ \A m \in {digits \div 10, digits \div 10 + 1} : ~Nearest(number, m, e + 1)
       /\ \A m \in {digits - 1, digits + 1} :
            Nearest(number, m, e) => Distance(number, m, e) >= Distance(number, digits, e)

(* The decimals of the text, compared with d in units of d's last digit.   *)
IsRounded(d) ==
  LET rounded == DigitsOf(text) * 10 ^ (precision - FractionLength(text))
      unit == 10 ^ (- d.exponent - precision)
      rest == rounded * unit - d.mantissa
  IN IF precision >= - d.exponent
     THEN DigitsOf(text) = d.mantissa * 10 ^ (d.exponent + FractionLength(text))
     ELSE /\ 2 * rest \in - unit .. unit
          /\ 2 * rest \in {- unit, unit} => rounded % 2 = 0

(* The other texts are that decimal rounded to the precision, half to      *)
(* even, carries and vanishing digits included; a zero has no sign.        *)
TrimmedExact ==
  Writing =>
    /\ FractionLength(text) <= precision
    /\ text.minus <=> number.sign /\ DigitsOf(text) # 0
    /\ IsRounded(ToDecimal(number))

(* What is read is the number nearest to the text, half to even, through   *)
(* the fast path, the product of words and the comparison of all digits    *)
(* alike, up to infinity and down to zero. An infinity comes back as it    *)
(* was, and a NaN without its bits.                                        *)
ReadNearest ==
  value # None =>
    IF text.name = ""
    THEN LET n == DigitsOf(text)
             e == ExponentOf(text)
             f == [value EXCEPT !.sign = FALSE]
         IN /\ value.sign = text.minus
            /\ IF f.exponent = MaxExponent
               THEN f.mantissa = 0 /\ Difference(Largest, n, e, UpperEnd(Largest)) >= 0
               ELSE IF n = 0 THEN Zero(f) ELSE Nearest(f, n, e)
    ELSE value = IF number.mantissa = 0 THEN number ELSE NaN

(* (mutant) Nothing is provided for what separates ordinates.              *)
RoomForTexts(k) == (precision + 3) * k

(* coords() makes room once for all coordinates of a call, for             *)
(* significant_digits_ + 4 characters per ordinate, and write_coord() puts *)
(* the text of an ordinate there without a check.                          *)
Room(k) == (precision + 4) * k

(* A coordinate of k ordinates like this one takes their texts, ' '        *)
(* between them and ", " before the first.                                 *)
CoordLength(k) == k * TextLength(text) + (k - 1) + 2

IntegerLength == DecimalLength(text.integer) + text.zeros
LongestDecimal == CHOOSE d \in 1 .. 17 : 10 ^ (d - 1) > 2 * Hidden /\ 10 ^ (d - 2) <= 2 * Hidden

(* How much of that room coordinates can need, with a precision that is at *)
(* most one less than the digits of the longest decimal, as 16 is: they    *)
(* fit if no ordinate is negative or has more than precision + 2 digits    *)
(* before the point. The code promises no more than that. A negative one   *)
(* may take one character per coordinate beyond the room (41 of 40 in XY), *)
(* and the further digits of a large one are not provided for at all       *)
(* (compute-cast-wkt.hpp:159-177, 216-223).                                *)
RoomSuffices ==
  (Writing /\ precision >= LongestDecimal - 1) =>
    \A k \in 2 .. 4 :
      CoordLength(k) <=
        Room(k) + One(text.minus) + k * Positive(IntegerLength - (precision + 2))
==============================================================================
