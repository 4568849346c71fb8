------------------------------- MODULE FpSpec -------------------------------
(***************************************************************************)
(* What the floating-point operations promise (IEEE 754): the exact result *)
(* rounded once.  Nothing here is taken from the code but the choices that *)
(* IEEE 754 leaves open (the default NaN, tininess before rounding, the    *)
(* results of invalid conversions).                                        *)
(*                                                                         *)
(* Magnitudes are counted in units of the smallest subnormal, so that      *)
(* every finite value is an integer; a result that is not is given by the  *)
(* sign of its distance to half units, Side(t) for x - t/2.                *)
(***************************************************************************)
EXTENDS SoftFloatInt, FiniteSets

Val(f, m) ==                                       \* of a finite magnitude
  LET e == m \div hidden(f)
  IN IF e = 0 THEN m ELSE ((m % hidden(f)) + hidden(f)) * 2^(e - 1)
Mag(f, a)  == Val(f, a % signBit(f))
SVal(f, a) == IF signUI(f, a) = 1 THEN -Mag(f, a) ELSE Mag(f, a)
Unity(f)   == 2^(f.F + bias(f) - 1)                \* 1.0 in units

(* Whether a magnitude between lo and its successor goes up.  side: of the *)
(* magnitude to the middle; odd: lo's last bit.                            *)
GoesUp(rm, sign, exact, side, odd) ==
  /\ ~exact
  /\ \/ rm = "near_even" /\ (side > 0 \/ (side = 0 /\ odd))
     \/ rm = "near_maxMag" /\ side >= 0
     \/ rm = "min" /\ sign = 1
     \/ rm = "max" /\ sign = 0

Rounded(f, sign, Side(_), rm) ==
  LET maxFinite == Inf(f, 0) - 1
      lo    == CHOOSE m \in 0..maxFinite :
                 /\ Side(2 * Val(f, m)) >= 0
                 /\ m < maxFinite => Side(2 * Val(f, m + 1)) < 0
      exact == Side(2 * Val(f, lo)) = 0
      up    == GoesUp(rm, sign, exact, Side(Val(f, lo) + Val(f, lo + 1)), lo % 2 = 1)
      beyond == lo = maxFinite /\ (up \/ Side(2 * Val(f, lo + 1)) >= 0)
      tiny   == Side(2 * Val(f, hidden(f))) < 0
      outward == rm \in {"near_even", "near_maxMag", IF sign = 1 THEN "min" ELSE "max"}
  IN IF beyond THEN Ret(sign * signBit(f) + maxFinite + Bit(outward), {"overflow", "inexact"})
     ELSE Ret(sign * signBit(f) + lo + Bit(up),
              IF exact THEN {} ELSE {"inexact"} \cup IF tiny THEN {"underflow"} ELSE {})

RoundedRatio(f, sign, num, den, rm) ==
  LET side(t) == 2 * num - t * den IN Rounded(f, sign, side, rm)

(* A signed sum in units/den, not of two zeros. *)
RoundedSum(f, s, den, rm) ==
  IF s = 0 THEN Ret(Zero(f, Bit(rm = "min")), {})
  ELSE RoundedRatio(f, Sign(s), Abs(s), den, rm)

NaNs(f, S) ==
  Ret(defaultNaNUI(f), IF \E a \in S : f32_isSignalingNaN(f, a) THEN {"invalid"} ELSE {})
SignXor(f, a, b) == (signUI(f, a) + signUI(f, b)) % 2

-----------------------------------------------------------------------------
AddSpec(f, a, b, rm) ==
  IF isNaNUI(f, a) \/ isNaNUI(f, b) THEN NaNs(f, {a, b})
  ELSE IF isInf(f, a) /\ isInf(f, b) /\ a # b THEN Invalid(f)
  ELSE IF isInf(f, a) \/ (isZero(f, a) /\ a = b) THEN Ret(a, {})
  ELSE IF isInf(f, b) THEN Ret(b, {})
  ELSE RoundedSum(f, SVal(f, a) + SVal(f, b), 1, rm)

SubSpec(f, a, b, rm) ==
  IF isNaNUI(f, a) \/ isNaNUI(f, b) THEN NaNs(f, {a, b}) ELSE AddSpec(f, a, Negated(f, b), rm)

MulSpec(f, a, b, rm) ==
  IF isNaNUI(f, a) \/ isNaNUI(f, b) THEN NaNs(f, {a, b})
  ELSE IF isInf(f, a) \/ isInf(f, b)
  THEN IF isZero(f, a) \/ isZero(f, b) THEN Invalid(f) ELSE Ret(Inf(f, SignXor(f, a, b)), {})
  ELSE RoundedRatio(f, SignXor(f, a, b), Mag(f, a) * Mag(f, b), Unity(f), rm)

DivSpec(f, a, b, rm) ==
  IF isNaNUI(f, a) \/ isNaNUI(f, b) THEN NaNs(f, {a, b})
  ELSE IF isInf(f, a) THEN IF isInf(f, b) THEN Invalid(f) ELSE Ret(Inf(f, SignXor(f, a, b)), {})
  ELSE IF isInf(f, b) THEN Ret(Zero(f, SignXor(f, a, b)), {})
  ELSE IF isZero(f, b)
  THEN IF isZero(f, a) THEN Invalid(f) ELSE Ret(Inf(f, SignXor(f, a, b)), {"infinity"})
  ELSE RoundedRatio(f, SignXor(f, a, b), Mag(f, a) * Unity(f), Mag(f, b), rm)

SqrtSpec(f, a, rm) ==
  LET side(t) == 4 * Mag(f, a) * Unity(f) - t * t
  IN IF isNaNUI(f, a) THEN NaNs(f, {a})
     ELSE IF isZero(f, a) \/ a = Inf(f, 0) THEN Ret(a, {})
     ELSE IF signUI(f, a) = 1 THEN Invalid(f)
     ELSE Rounded(f, 0, side, rm)

(* a * b + c *)
MulAddSpec(f, a, b, c, rm) ==
  LET signP == SignXor(f, a, b)
      prod  == IF signP = 1 THEN -(Mag(f, a) * Mag(f, b)) ELSE Mag(f, a) * Mag(f, b)
      infP  == isInf(f, a) \/ isInf(f, b)
      zeroP == isZero(f, a) \/ isZero(f, b)
  IN IF isNaNUI(f, a) \/ isNaNUI(f, b) THEN NaNs(f, {a, b, c})
     ELSE IF infP /\ zeroP THEN Invalid(f)
     ELSE IF isNaNUI(f, c) THEN NaNs(f, {c})
     ELSE IF infP THEN IF isInf(f, c) /\ signUI(f, c) # signP THEN Invalid(f)
                       ELSE Ret(Inf(f, signP), {})
     ELSE IF isInf(f, c) \/ (zeroP /\ isZero(f, c) /\ signUI(f, c) = signP) THEN Ret(c, {})
     ELSE RoundedSum(f, prod + SVal(f, c) * Unity(f), Unity(f), rm)

(* a - b * n, n the integer nearest to a / b: always exact. *)
RemSpec(f, a, b) ==
  LET va   == Mag(f, a)
      vb   == Mag(f, b)
      q    == va \div vb
      side == 2 * (va % vb) - vb
      r    == IF side > 0 \/ (side = 0 /\ q % 2 = 1) THEN (va % vb) - vb ELSE (va % vb)
      signed == IF signUI(f, a) = 1 THEN -r ELSE r
  IN IF isNaNUI(f, a) \/ isNaNUI(f, b) THEN NaNs(f, {a, b})
     ELSE IF isInf(f, a) \/ isZero(f, b) THEN Invalid(f)
     ELSE IF isInf(f, b) THEN Ret(a, {})
     ELSE IF r = 0 THEN Ret(Zero(f, signUI(f, a)), {})
     ELSE RoundedRatio(f, Sign(signed), Abs(signed), 1, "minMag")

-----------------------------------------------------------------------------
(* The integer of magnitude num/den rounded in the mode rm. *)
RoundedInt(sign, num, den, rm) ==
  LET q == num \div den
  IN q + Bit(GoesUp(rm, sign, num % den = 0, 2 * (num % den) - den, q % 2 = 1))

RoundToIntSpec(f, a, rm, exact) ==
  LET n == RoundedInt(signUI(f, a), Mag(f, a), Unity(f), rm) * Unity(f)
      r == RoundedRatio(f, signUI(f, a), n, 1, rm)
  IN IF isNaNUI(f, a) THEN NaNs(f, {a})
     ELSE IF isInf(f, a) THEN Ret(a, {})
     ELSE Ret(r.ui, Exactly(exact, n # Mag(f, a)))

(* To an integer in lo..hi; what an invalid conversion returns is the      *)
(* library's choice, out.  The magnitude is sig * 2^e.                     *)
ToIntSpec(f, a, rm, exact, lo, hi, out) ==
  LET e   == (IF expUI(f, a) = 0 THEN 1 ELSE expUI(f, a)) - bias(f) - f.F
      sig == WithHidden(f, a)
      num == IF e >= 0 THEN sig * 2^e ELSE sig
      den == IF e >= 0 THEN 1 ELSE 2^(-e)
      n   == RoundedInt(signUI(f, a), num, den, rm)
      z   == IF signUI(f, a) = 1 THEN -n ELSE n
  IN IF isNaNUI(f, a) \/ isInf(f, a) \/ z \notin lo..hi THEN Ret(out, {"invalid"})
     ELSE Ret(z, Exactly(exact, num % den # 0))

(* i # 0 as a significand of F + 1 bits, of which a carry is the next exponent. *)
FromIntSpec(f, i, rm) ==
  LET n   == CHOOSE n \in 0..30 : Abs(i) \div 2^n = 1
      num == Abs(i) * hidden(f)
      z   == RoundedInt(Sign(i), num, 2^n, rm)
  IN IF i = 0 THEN Ret(0, {})
     ELSE Ret(Sign(i) * signBit(f) + (bias(f) + n - 1) * hidden(f) + z,
              IF num % 2^n # 0 THEN {"inexact"} ELSE {})

(* From the format f to the format g: the value is num units of g / den. *)
ToFloatSpec(f, g, a, rm) ==
  IF isNaNUI(f, a)
  THEN Ret(signUI(f, a) * signBit(g) + signBit(g) - 1, NaNs(f, {a}).fl)
  ELSE IF isInf(f, a) THEN Ret(Inf(g, signUI(f, a)), {})
  ELSE IF Unity(f) < Unity(g)
  THEN RoundedRatio(g, signUI(f, a), Mag(f, a) * (Unity(g) \div Unity(f)), 1, rm)
  ELSE RoundedRatio(g, signUI(f, a), Mag(f, a), Unity(f) \div Unity(g), rm)

-----------------------------------------------------------------------------
(* The order of two values, infinities included. *)
Ordinal(f, a) == IF signUI(f, a) = 1 THEN -(a % signBit(f)) ELSE a % signBit(f)
CompareSpec(f, a, b, quiet, Holds) ==
  IF isNaNUI(f, a) \/ isNaNUI(f, b)
  THEN Ret(0, IF quiet THEN NaNs(f, {a, b}).fl ELSE {"invalid"})
  ELSE Ret(Bit(Holds), {})

(* From zero outwards: zero, subnormal, normal, infinite. *)
ClassSpec(f, a) ==
  LET passed == Cardinality({t \in {1, hidden(f), Inf(f, 0)} : a % signBit(f) >= t})
  IN IF isNaNUI(f, a) THEN Ret(IF f32_isSignalingNaN(f, a) THEN 8 ELSE 9, {})
     ELSE Ret(IF signUI(f, a) = 1 THEN 3 - passed ELSE 4 + passed, {})
=============================================================================
