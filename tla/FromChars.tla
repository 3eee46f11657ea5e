------------------------------- MODULE FromChars -------------------------------
(***************************************************************************)
(* fast_float::from_chars(), which reads the numbers of a WKT array        *)
(* (WKTReader's assertNumber()). The text of a number is that of Ryu, with *)
(* a power of 10 that may follow.                                          *)
(*                                                                         *)
(* Words of 64 bits, of which 19 decimal digits always fit into one, are   *)
(* words of WordBits here. The table of 128 bits of each power of 5 gives  *)
(* the product's upper word exactly, or the code has to doubt it; products *)
(* are exact here and doubted wherever the code may.                       *)
(***************************************************************************)
EXTENDS Ryu

CONSTANTS
  WordBits,    (* 64                                                        *)
  WordDigits   (* 19: the decimal digits that always fit into a word        *)

ASSUME WordAssumption ==
  /\ WordBits \in Nat /\ WordBits >= MantissaBits + 4
  /\ WordDigits \in Nat \ {0} /\ 10 ^ WordDigits < 2 ^ WordBits

Positive(x) == IF x > 0 THEN x ELSE 0
Lesser(x, y) == IF x < y THEN x ELSE y
Digits(n) == IF n = 0 THEN 0 ELSE DecimalLength(n)
BitLength(n) == CHOOSE l \in 0 .. 31 : n < 2 ^ l /\ (l > 0 => n >= 2 ^ (l - 1))

(***************************************************************************)
(* binary_format<double>: its thresholds, which follow from the widths.    *)
(***************************************************************************)
InfinitePower == MaxExponent
MaxMantissaFastPath == 2 * Hidden
MaxExponentFastPath == CHOOSE k \in 0 .. 22 : 5 ^ k < 2 * Hidden /\ 5 ^ (k + 1) >= 2 * Hidden
LargestPowerOfTen == CHOOSE k \in 0 .. 308 : 2 ^ (Bias + 1) \div 10 ^ k \in 1 .. 9
SmallestPowerOfTen ==
  - CHOOSE k \in 0 .. 342 : 2 ^ (WordBits + Bias + MantissaBits) \div 10 ^ k \in 1 .. 9
MaxExponentRoundToEven == CHOOSE k \in 0 .. 23 : 5 ^ k < 4 * Hidden /\ 5 ^ (k + 1) >= 4 * Hidden
MinExponentRoundToEven ==
  LET Fits(k) == 5 ^ k < 2 ^ (WordBits - MantissaBits - 1)
  IN CHOOSE k \in -4 .. 0 : Fits(- k) /\ ~Fits(1 - k)

(* Powers of 5 whose product with a word is never in doubt.                *)
SafeExponent(q) == q >= 0 \/ 5 ^ (- q) < 2 ^ WordBits

(***************************************************************************)
(* parse_number_string(). All digits make `digits`; a word takes the first *)
(* of them if they are too many, leading zeros not counted.                *)
(***************************************************************************)
FractionLength(t) == IF t.decimals = 0 THEN 0 ELSE t.leading + DecimalLength(t.decimals)

Parse(t, power) ==
  LET digits == t.integer * 10 ^ (t.zeros + FractionLength(t)) + t.decimals
      exponent == power - FractionLength(t)
      dropped == Digits(digits) - WordDigits
  IN [negative |-> t.minus, digits |-> digits, exponentOfDigits |-> exponent,
      tooMany |-> dropped > 0,
      mantissa |-> IF dropped > 0 THEN digits \div 10 ^ dropped ELSE digits,
      exponent |-> IF dropped > 0 THEN exponent + dropped ELSE exponent]

(***************************************************************************)
(* compute_float(). An adjusted_mantissa with `valid` FALSE is one whose   *)
(* power2 is biased by invalid_am_bias.                                    *)
(***************************************************************************)
Adjusted(m, p) == [mantissa |-> m, power2 |-> p, valid |-> TRUE]
Infinity == Adjusted(0, InfinitePower)

LeadingZeros(w) == WordBits - BitLength(w)

(* detail::power()                                                         *)
PowerOf(q) == (217706 * q) \div 2 ^ 16 + WordBits - 1

(* The upper word of w * 5 ^ q and whether nothing was dropped below it.   *)
Product(q, w) ==
  IF q >= 0
  THEN LET scale == 2 ^ BitLength(5 ^ q)
       IN [high |-> (w * 5 ^ q) \div scale, exact |-> (w * 5 ^ q) % scale = 0]
  ELSE LET scale == 2 ^ (BitLength(5 ^ (- q)) - 1)
       IN [high |-> (w * scale) \div 5 ^ (- q), exact |-> (w * scale) % 5 ^ (- q) = 0]

ErrorScaled(q, high, lz) ==
  LET hilz == IF high >= 2 ^ (WordBits - 1) THEN 0 ELSE 1
  IN [mantissa |-> high * 2 ^ hilz, valid |-> FALSE,
      power2 |-> PowerOf(q) + MantissaBits + Bias - hilz - lz - (WordBits - 2)]

ComputeError(q, w) ==
  LET lz == LeadingZeros(w)
  IN ErrorScaled(q, Product(q, w * 2 ^ lz).high, lz)

RoundedUp(m) == (m + 1) \div 2

(* (mutant) What rounding carries out of the subnormals stays one of them. *)
SubnormalKept(m, power2) == Adjusted(RoundedUp(m \div 2 ^ Lesser(1 - power2, WordBits)), 0)

(* The numbers at the two ends of the range of exponents.                  *)
Subnormal(m, power2) ==
  LET rounded == RoundedUp(m \div 2 ^ Lesser(1 - power2, WordBits))
  IN Adjusted(rounded, IF rounded < Hidden THEN 0 ELSE 1)

Carried(m, power2) ==
  LET carry == m >= 2 * Hidden
      p == IF carry THEN power2 + 1 ELSE power2
  IN IF p >= InfinitePower THEN Infinity ELSE Adjusted(IF carry THEN 0 ELSE m - Hidden, p)

Float(q, lz, product) ==
  LET upperbit == IF product.high >= 2 ^ (WordBits - 1) THEN 1 ELSE 0
      shift == 2 ^ (upperbit + WordBits - MantissaBits - 3)
      m == product.high \div shift
      power2 == PowerOf(q) + upperbit - lz + Bias
      halfway == /\ product.exact
                 /\ q \in MinExponentRoundToEven .. MaxExponentRoundToEven
                 /\ m % 4 = 1
                 /\ m * shift = product.high
  IN IF power2 <= 0 THEN Subnormal(m, power2)
     ELSE Carried(RoundedUp(IF halfway THEN m - 1 ELSE m), power2)

(* The outcomes; where the product is in doubt its upper word may be one   *)
(* too small as well.                                                      *)
ComputeFloat(q, w) ==
  IF w = 0 \/ q < SmallestPowerOfTen THEN {Adjusted(0, 0)}
  ELSE IF q > LargestPowerOfTen THEN {Infinity}
  ELSE LET lz == LeadingZeros(w)
           product == Product(q, w * 2 ^ lz)
       IN {Float(q, lz, product)}
            \cup (IF SafeExponent(q) THEN {}
                  ELSE {ErrorScaled(q, high, lz) :
                          high \in {product.high, product.high - 1} \ {2 ^ (WordBits - 2) - 1}})

(***************************************************************************)
(* digit_comp(): all digits are compared with the number halfway between   *)
(* the two candidates.                                                     *)
(***************************************************************************)
RoundShift(am) ==
  IF - am.power2 >= WordBits - MantissaBits - 1 THEN Lesser(1 - am.power2, WordBits)
  ELSE WordBits - MantissaBits - 1

(* round(), with the decision of its callback.                             *)
Round(am, up) ==
  LET m == am.mantissa \div 2 ^ RoundShift(am) + (IF up THEN 1 ELSE 0)
  IN IF - am.power2 >= WordBits - MantissaBits - 1 THEN Adjusted(m, IF m < Hidden THEN 0 ELSE 1)
     ELSE Carried(m, am.power2 + RoundShift(am))

OddAfter(am) == (am.mantissa \div 2 ^ RoundShift(am)) % 2 = 1

PositiveDigitComp(digits, exponent) ==
  LET n == digits * 10 ^ exponent
      length == BitLength(n)
      spare == IF length > WordBits THEN 2 ^ (length - WordBits) ELSE 1
      am == [mantissa |-> IF length > WordBits THEN n \div spare ELSE n * 2 ^ (WordBits - length),
             power2 |-> length - WordBits + MantissaBits + Bias]
      half == 2 ^ (RoundShift(am) - 1)
      dropped == am.mantissa % (2 * half)
  IN Round(am, dropped > half \/ (dropped = half /\ (n % spare # 0 \/ OddAfter(am))))

(* to_float()                                                              *)
ToFloat(negative, am) ==
  [sign |-> negative, exponent |-> am.power2, mantissa |-> am.mantissa % Hidden]

NegativeDigitComp(digits, am, exponent) ==
  LET b == ToFloat(FALSE, Round(am, FALSE))
      halfway == 2 * Significand(b) + 1
      e2 == Power(b) - 1 - exponent
      theor == halfway * 5 ^ (- exponent) * (IF e2 > 0 THEN 2 ^ e2 ELSE 1)
      real == digits * (IF e2 < 0 THEN 2 ^ (- e2) ELSE 1)
  IN Round(am, real > theor \/ (real = theor /\ OddAfter(am)))

DigitComp(n, am) ==
  IF n.exponentOfDigits >= 0 THEN PositiveDigitComp(n.digits, n.exponentOfDigits)
  ELSE NegativeDigitComp(n.digits, am, n.exponentOfDigits)

(***************************************************************************)
(* from_chars(). Clinger's fast path is one operation of the processor,    *)
(* correctly rounded, on two numbers that are exact.                       *)
(***************************************************************************)
(* The quotient of two whole numbers, to the nearest, half to even, as the *)
(* processor computes it; in the range of this path it is a normal number. *)
Quotient(a, b) ==
  LET Scaled(e) == a * 2 ^ Positive(- e)
      Unit(e) == b * 2 ^ Positive(e)
      k == BitLength(a) - BitLength(b) - MantissaBits
      e == CHOOSE e \in {k - 1, k} :
             Scaled(e) \div Unit(e) \in Hidden .. 2 * Hidden - 1
      up == RoundsUp(Scaled(e) \div Unit(e), Scaled(e) % Unit(e), Unit(e))
  IN IF a = 0 THEN Adjusted(0, 0)
     ELSE Carried(Scaled(e) \div Unit(e) + One(up), e + Bias + MantissaBits)

FastPath(n) ==
  /\ n.exponent \in - MaxExponentFastPath .. MaxExponentFastPath
  /\ n.mantissa <= MaxMantissaFastPath
  /\ ~n.tooMany

Clinger(n) == Quotient(n.mantissa * 10 ^ Positive(n.exponent), 10 ^ Positive(- n.exponent))

(* (mutant) The digits a word has no room for are not looked at.           *)
SlowTruncating(n) == ComputeFloat(n.exponent, n.mantissa)

Slow(n) ==
  LET computed == ComputeFloat(n.exponent, n.mantissa)
      next == ComputeFloat(n.exponent, n.mantissa + 1)
  IN IF ~n.tooMany THEN computed
     ELSE {am \in computed : ~am.valid \/ am \in next}
            \cup (IF \E am \in computed : am.valid /\ \E other \in next : am # other
                  THEN {ComputeError(n.exponent, n.mantissa)} ELSE {})

FromChars(t, power) ==
  LET n == Parse(t, power)
  IN IF FastPath(n)
     THEN {ToFloat(n.negative, Clinger(n))}
     ELSE {ToFloat(n.negative, IF am.valid THEN am ELSE DigitComp(n, am)) : am \in Slow(n)}
==============================================================================
