--------------------------------- MODULE Ryu ---------------------------------
(***************************************************************************)
(* geoarrow_d2sfixed_buffered_n (d2s.c): the shortest decimal that is read *)
(* back as the same number, rounded to `precision` decimals and written    *)
(* without an exponent.                                                    *)
(*                                                                         *)
(* The width of numbers is a parameter, binary64 having 52 and 11 bits.    *)
(* The tables of powers of 5 hold 128 bits of them, with which mulShift()  *)
(* computes the same quotients as exact arithmetic, which is used here.    *)
(***************************************************************************)
EXTENDS Integers

CONSTANTS
  MantissaBits,  (* DOUBLE_MANTISSA_BITS                                    *)
  ExponentBits   (* DOUBLE_EXPONENT_BITS                                    *)

ASSUME WidthAssumption == MantissaBits \in Nat \ {0} /\ ExponentBits \in Nat \ {0, 1}

Bias == 2 ^ (ExponentBits - 1) - 1
MaxExponent == 2 ^ ExponentBits - 1
Hidden == 2 ^ MantissaBits

Floats == [sign : BOOLEAN, exponent : 0 .. MaxExponent, mantissa : 0 .. Hidden - 1]

Zero(f) == f.exponent = 0 /\ f.mantissa = 0
Special(f) == f.exponent = MaxExponent \/ Zero(f)

(* |f| = Significand(f) * 2 ^ Power(f)                                     *)
Significand(f) == IF f.exponent = 0 THEN f.mantissa ELSE Hidden + f.mantissa
Power(f) == (IF f.exponent = 0 THEN 1 ELSE f.exponent) - Bias - MantissaBits

One(b) == IF b THEN 1 ELSE 0
TrailingZeros(n) == CHOOSE z \in 0 .. 18 : n % 10 ^ z = 0 /\ n % 10 ^ (z + 1) # 0
Decimal(m, e) == [mantissa |-> m, exponent |-> e]

(***************************************************************************)
(* d2d(): steps 2 and 3, the number and the two ends of the interval that  *)
(* is rounded to it as multiples of a power of 10.                         *)
(***************************************************************************)
Log10Pow2(e) == (e * 78913) \div 2 ^ 18
Log10Pow5(e) == (e * 732923) \div 2 ^ 20

MulShift(x, e2, q) ==
  IF e2 >= 0 THEN (x * 2 ^ (e2 - q)) \div 5 ^ q ELSE (x * 5 ^ (- e2 - q)) \div 2 ^ q

MultipleOfPowerOf5(m, p) == m % 5 ^ p = 0
MultipleOfPowerOf2(m, p) == m % 2 ^ p = 0

Even(f) == Significand(f) % 2 = 0
Mv(f) == 4 * Significand(f)
Mp(f) == Mv(f) + 2
MmShift(f) == One(f.mantissa # 0 \/ f.exponent <= 1)
Mm(f) == Mv(f) - 1 - MmShift(f)

Interval(f) ==
  LET e2 == Power(f) - 2
      q == IF e2 >= 0 THEN Log10Pow2(e2) - One(e2 > 3) ELSE Log10Pow5(- e2) - One(- e2 > 1)
      mp == Mp(f)
      mv == Mv(f)
      mm == Mm(f)
      five(m) == q <= 21 /\ MultipleOfPowerOf5(m, q)
      vpExact == IF e2 >= 0 THEN mv % 5 # 0 /\ five(mp) ELSE q <= 1
  IN [e10 |-> IF e2 >= 0 THEN q ELSE q + e2,
      vp |-> MulShift(mp, e2, q) - One(~Even(f) /\ vpExact),
      vr |-> MulShift(mv, e2, q),
      vm |-> MulShift(mm, e2, q),
      vrZeros |-> IF e2 >= 0 THEN mv % 5 = 0 /\ five(mv)
                  ELSE q <= 1 \/ (q < 63 /\ MultipleOfPowerOf2(mv, q)),
      vmZeros |-> Even(f) /\ IF e2 >= 0 THEN mv % 5 # 0 /\ five(mm)
                             ELSE q <= 1 /\ MmShift(f) = 1]

(* Step 4: digits are removed as long as the ends of the interval differ,  *)
(* two at once in the common case, and then as long as the lower end, when *)
(* it is exact and included, is a multiple of 10.                          *)
Removed(i) ==
  CHOOSE k \in 0 .. 18 :
    /\ i.vp \div 10 ^ (k + 1) <= i.vm \div 10 ^ (k + 1)
    /\ \A j \in 0 .. k - 1 : i.vp \div 10 ^ (j + 1) > i.vm \div 10 ^ (j + 1)

(* The last digit removed decides, half to even, and the lower end itself  *)
(* is only returned if it is exact and included.                           *)
RoundedOff(i, k, exact) ==
  LET vr == i.vr \div 10 ^ k
      digit == IF k = 0 THEN 0 ELSE (i.vr \div 10 ^ (k - 1)) % 10
      tie == i.vrZeros /\ (k > 0 => i.vr % 10 ^ (k - 1) = 0) /\ digit = 5
      up == (digit >= 5 /\ ~(tie /\ vr % 2 = 0)) \/ (vr = i.vm \div 10 ^ k /\ ~exact)
  IN Decimal(vr + One(up), i.e10 + k)

(* (mutant) The lower end of the interval is never returned.               *)
ShortestWithin(i) == RoundedOff(i, Removed(i), FALSE)

ShortestIn(i) ==
  IF i.vmZeros /\ i.vm % 10 ^ Removed(i) = 0
  THEN RoundedOff(i, TrailingZeros(i.vm), TRUE)
  ELSE RoundedOff(i, Removed(i), FALSE)

Shortest(f) == ShortestIn(Interval(f))

(* d2d_small_int(): whole numbers are written as they are, without their   *)
(* trailing zeros.                                                         *)
SmallInt(f) ==
  /\ Power(f) \in -MantissaBits .. 0
  /\ f.exponent # 0
  /\ Significand(f) % 2 ^ (- Power(f)) = 0

ToDecimal(f) ==
  IF SmallInt(f)
  THEN LET n == Significand(f) \div 2 ^ (- Power(f))
       IN Decimal(n \div 10 ^ TrailingZeros(n), TrailingZeros(n))
  ELSE Shortest(f)

(***************************************************************************)
(* to_chars_fixed(). A text is [minus, integer, zeros, leading, decimals]: *)
(* the digits before the point and the zeros that follow them, the zeros   *)
(* after the point and the digits that follow those (0: no point).         *)
(***************************************************************************)
DecimalLength(n) == CHOOSE l \in 1 .. 17 : n < 10 ^ l /\ (l > 1 => n >= 10 ^ (l - 1))

(* (mutant) A half that is left is always rounded up.                      *)
RoundsUpHalf(quotient, remainder, divisor) == 2 * remainder >= divisor

RoundsUp(quotient, remainder, divisor) ==
  2 * remainder > divisor \/ (2 * remainder = divisor /\ quotient % 2 = 1)

(* (mutant) One digit too many is kept.                                    *)
TrimmedLong(v, precision) ==
  LET digits == - v.exponent - precision - 1
      output == v.mantissa \div 10 ^ digits
      zeros == IF output = 0 THEN 0 ELSE TrailingZeros(output)
  IN IF digits <= 0
     THEN [output |-> v.mantissa, length |-> DecimalLength(v.mantissa), exp |-> v.exponent]
     ELSE [output |-> output \div 10 ^ zeros, exp |-> v.exponent + digits + zeros,
           length |-> DecimalLength(output) - zeros]

(* The digits beyond the precision are trimmed, half to even.              *)
Trimmed(v, precision) ==
  LET digits == - v.exponent - precision
      olength == DecimalLength(v.mantissa)
      quotient == v.mantissa \div 10 ^ digits
      up == RoundsUp(quotient, v.mantissa % 10 ^ digits, 10 ^ digits)
      output == quotient + One(up)
      zeros == IF output = 0 THEN 0 ELSE TrailingZeros(output)
  IN IF digits <= 0 THEN [output |-> v.mantissa, length |-> olength, exp |-> v.exponent]
     ELSE IF digits > olength THEN [output |-> 0, length |-> olength, exp |-> 0]
     ELSE [output |-> output \div 10 ^ zeros, exp |-> v.exponent + digits + zeros,
           length |-> (IF up THEN DecimalLength(output) ELSE olength - digits) - zeros]

(* The integer part and the decimals, with the lengths they are written in.*)
Parts(t) ==
  LET nexp == - t.exp
      decimal == t.output % 10 ^ nexp
      short == decimal < 10 ^ (nexp - 1)
  IN IF t.exp >= 0
     THEN [integer |-> t.output, integerLength |-> t.length, zeros |-> t.exp,
           decimal |-> 0, decimalLength |-> 0, leading |-> 0]
     ELSE IF nexp < t.length
     THEN [integer |-> t.output \div 10 ^ nexp, integerLength |-> t.length - nexp, zeros |-> 0,
           decimal |-> decimal,
           decimalLength |-> IF short THEN DecimalLength(decimal) ELSE nexp,
           leading |-> IF short THEN nexp - DecimalLength(decimal) ELSE 0]
     ELSE [integer |-> 0, integerLength |-> 0, zeros |-> 0,
           decimal |-> t.output, decimalLength |-> t.length, leading |-> nexp - t.length]

(* to_chars_uint64() fills the digits in from the right end of `length`,   *)
(* but for a single one, which is put first.                               *)
Garbled == -1
ToCharsUint64(n, length) == IF n < 10 \/ length = DecimalLength(n) THEN n ELSE Garbled

ToCharsFixed(v, sign, precision) ==
  LET p == Parts(Trimmed(v, precision))
  IN [name |-> "", minus |-> sign /\ (p.integer # 0 \/ p.decimal # 0),
      integer |-> ToCharsUint64(p.integer, p.integerLength),
      zeros |-> p.zeros,
      leading |-> IF p.decimal = 0 THEN 0 ELSE p.leading,
      decimals |-> ToCharsUint64(p.decimal, p.decimalLength)]

(* Numbers that are not special; the texts of those that are follow from   *)
(* copy_special_str().                                                     *)
Text(f, precision) == ToCharsFixed(ToDecimal(f), f.sign, precision)

TextLength(t) ==
  One(t.minus) + DecimalLength(t.integer) + t.zeros
    + (IF t.decimals = 0 THEN 0 ELSE 1 + t.leading + DecimalLength(t.decimals))
==============================================================================
