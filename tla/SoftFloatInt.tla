---------------------------- MODULE SoftFloatInt ----------------------------
(***************************************************************************)
(* The conversions of src/softfloat: float to integer and back, and from   *)
(* one float format to the other.                                          *)
(*                                                                         *)
(* They mix two formats, so they take a record k: k.s and k.d are the      *)
(* formats of f32 and f64, k.rb the fraction bits (7) in front of which    *)
(* roundPackToI32 rounds.  The integers i32 and i64 are as wide as the     *)
(* words, one twice as wide as the other, and are TLA+ integers here.      *)
(***************************************************************************)
EXTENDS SoftFloatArith

w32(k) == word(k.s)
w64(k) == word(k.d)
AsSigned(w, u)  == IF u >= 2^(w - 1) THEN u - 2^w ELSE u
Signed(w, sign, mag) == AsSigned(w, IF sign = 1 THEN (-mag) % 2^w ELSE mag)
minInt(w) == -(2^(w - 1))
maxInt(w) == 2^(w - 1) - 1
maxUInt(w) == 2^w - 1
Exactly(exact, lost) == IF exact /\ lost THEN {"inexact"} ELSE {}
InvalidI(w, sign) == Ret(IF sign = 1 THEN minInt(w) ELSE maxInt(w), {"invalid"})
InvalidUI(w) == Ret(maxUInt(w), {"invalid"})
WithHidden(f, ui) == fracUI(f, ui) + IF expUI(f, ui) # 0 THEN hidden(f) ELSE 0

-----------------------------------------------------------------------------
(* Rounding to an integer: sig has rb bits behind the point, or one whole  *)
(* word (extra) of them.                                                   *)
\* Mutant: a result that does not have the sign of the operand is returned.
M_roundPackToI32(k, sign, sig, rm, exact) ==
  LET inc == roundIncrement(k.rb, sign, rm)
  IN IF sig + inc >= 2^(w32(k) + k.rb) THEN InvalidI(w32(k), sign)
     ELSE Ret(Signed(w32(k), sign, RoundOff(k.rb, sig, inc, rm)), Exactly(exact, sig % 2^k.rb # 0))
softfloat_roundPackToI32(k, sign, sig, rm, exact) ==
  LET w   == w32(k)
      inc == roundIncrement(k.rb, sign, rm)
      z   == Signed(w, sign, RoundOff(k.rb, sig, inc, rm))
  IN IF sig + inc >= 2^(w + k.rb) \/ (z # 0 /\ (z < 0) # (sign = 1)) THEN InvalidI(w, sign)
     ELSE Ret(z, Exactly(exact, sig % 2^k.rb # 0))

softfloat_roundPackToUI32(k, sign, sig, rm, exact) ==
  LET inc == roundIncrement(k.rb, sign, rm)
      z   == RoundOff(k.rb, sig, inc, rm)
  IN IF sig + inc >= 2^(w32(k) + k.rb) \/ (sign = 1 /\ z # 0) THEN InvalidUI(w32(k))
     ELSE Ret(z, Exactly(exact, sig % 2^k.rb # 0))

Incremented(w, sign, sig, extra, rm) ==
  LET up == CASE rm \in {"near_even", "near_maxMag"} -> extra >= 2^(w - 1)
              [] rm = "minMag" -> FALSE
              [] OTHER -> rm = (IF sign = 1 THEN "min" ELSE "max") /\ extra # 0
      z  == sig + 1
  IN IF ~up THEN sig ELSE IF extra = 2^(w - 1) /\ rm = "near_even" THEN z - (z % 2) ELSE z

softfloat_roundPackToI64(k, sign, sig, extra, rm, exact) ==
  LET w == w64(k)
      m == Incremented(w, sign, sig, extra, rm)
      z == Signed(w, sign, m)
  IN IF m = 2^w \/ (z # 0 /\ (z < 0) # (sign = 1)) THEN InvalidI(w, sign)
     ELSE Ret(z, Exactly(exact, extra # 0))

softfloat_roundPackToUI64(k, sign, sig, extra, rm, exact) ==
  LET z == Incremented(w64(k), sign, sig, extra, rm)
  IN IF z = 2^w64(k) \/ (sign = 1 /\ z # 0) THEN InvalidUI(w64(k))
     ELSE Ret(z, Exactly(exact, extra # 0))

-----------------------------------------------------------------------------
(* Float to integer in the mode rm.                                        *)
Fixed32(k, a) ==                   \* a as a fixed-point number of rb fraction bits
  LET shift == bias(k.s) + k.s.F - k.rb + w32(k) - expUI(k.s, a)
      sig   == WithHidden(k.s, a) * 2^w32(k)
  IN IF 0 < shift THEN softfloat_shift64RightJam(w64(k), sig, shift) ELSE sig
f32_to_i32(k, a, rm, exact) ==
  softfloat_roundPackToI32(k, signUI(k.s, a), Fixed32(k, a), rm, exact)
f32_to_ui32(k, a, rm, exact) ==
  softfloat_roundPackToUI32(k, signUI(k.s, a), Fixed32(k, a), rm, exact)

Fixed64(k, a) ==
  LET shift == bias(k.d) + k.d.F - k.rb - expUI(k.d, a)
      sig   == WithHidden(k.d, a)
  IN IF 0 < shift THEN softfloat_shift64RightJam(w64(k), sig, shift) ELSE sig
f64_to_i32(k, a, rm, exact) ==
  softfloat_roundPackToI32(k, signUI(k.d, a), Fixed64(k, a), rm, exact)
f64_to_ui32(k, a, rm, exact) ==
  softfloat_roundPackToUI32(k, signUI(k.d, a), Fixed64(k, a), rm, exact)

(* The exponent of the values of 2^(w-1), the last ones of a w-bit word.   *)
lastExp(f, w) == bias(f) + w - 1

Extra32(k, a) ==
  LET shift == lastExp(k.s, w64(k)) - expUI(k.s, a)
      sig   == WithHidden(k.s, a) * 2^(w64(k) - (k.s.F + 1))
  IN IF shift = 0 THEN [v |-> sig, extra |-> 0]
                  ELSE softfloat_shift64ExtraRightJam(w64(k), sig, 0, shift)
f32_to_i64(k, a, rm, exact) ==
  IF lastExp(k.s, w64(k)) < expUI(k.s, a) THEN InvalidI(w64(k), signUI(k.s, a))
  ELSE LET x == Extra32(k, a)
       IN softfloat_roundPackToI64(k, signUI(k.s, a), x.v, x.extra, rm, exact)
f32_to_ui64(k, a, rm, exact) ==
  IF lastExp(k.s, w64(k)) < expUI(k.s, a) THEN InvalidUI(w64(k))
  ELSE LET x == Extra32(k, a)
       IN softfloat_roundPackToUI64(k, signUI(k.s, a), x.v, x.extra, rm, exact)

Extra64(k, a) ==
  LET shift == bias(k.d) + k.d.F - expUI(k.d, a)
      sig   == WithHidden(k.d, a)
  IN IF shift <= 0 THEN [v |-> sig * 2^(-shift), extra |-> 0]
                   ELSE softfloat_shift64ExtraRightJam(w64(k), sig, 0, shift)
f64_to_i64(k, a, rm, exact) ==
  IF lastExp(k.d, w64(k)) < expUI(k.d, a) THEN InvalidI(w64(k), signUI(k.d, a))
  ELSE LET x == Extra64(k, a)
       IN softfloat_roundPackToI64(k, signUI(k.d, a), x.v, x.extra, rm, exact)
f64_to_ui64(k, a, rm, exact) ==
  IF lastExp(k.d, w64(k)) < expUI(k.d, a) THEN InvalidUI(w64(k))
  ELSE LET x == Extra64(k, a)
       IN softfloat_roundPackToUI64(k, signUI(k.d, a), x.v, x.extra, rm, exact)

-----------------------------------------------------------------------------
(* Float to integer, toward zero.  Truncated is the whole part of a value  *)
(* of at least 1 and below 2^w.                                            *)
Fraction(f, a, exact) == Ret(0, Exactly(exact, ~isZero(f, a)))        \* exp < bias
Truncated(f, a) ==
  LET shift == bias(f) + f.F - expUI(f, a)
      sig   == WithHidden(f, a)
  IN IF shift <= 0 THEN [z |-> sig * 2^(-shift), lost |-> FALSE]
                   ELSE [z |-> sig \div 2^shift, lost |-> sig % 2^shift # 0]

ToInt_r_minMag(f, w, a, exact) ==
  LET sign == signUI(f, a)
      t    == Truncated(f, a)
  IN CASE expUI(f, a) < bias(f) -> Fraction(f, a, exact)
       [] lastExp(f, w) <= expUI(f, a) ->
            Ret(IF sign = 0 \/ isNaNUI(f, a) THEN maxInt(w) ELSE minInt(w),
                IF a = packToUI(f, 1, lastExp(f, w), 0) THEN {} ELSE {"invalid"})
       [] OTHER -> Ret(IF sign = 1 THEN -t.z ELSE t.z, Exactly(exact, t.lost))
f32_to_i32_r_minMag(k, a, exact) == ToInt_r_minMag(k.s, w32(k), a, exact)
f32_to_i64_r_minMag(k, a, exact) == ToInt_r_minMag(k.s, w64(k), a, exact)
f64_to_i64_r_minMag(k, a, exact) == ToInt_r_minMag(k.d, w64(k), a, exact)

(* Here the last exponent is in range, and the sign of the word decides. *)
f64_to_i32_r_minMag(k, a, exact) ==
  LET sign == signUI(k.d, a)
      w    == w32(k)
      t    == Truncated(k.d, a)
      z    == Signed(w, sign, t.z)
  IN CASE expUI(k.d, a) < bias(k.d) -> Fraction(k.d, a, exact)
       [] lastExp(k.d, w) < expUI(k.d, a) -> InvalidI(w, IF isNaNUI(k.d, a) THEN 0 ELSE sign)
       [] OTHER -> IF (z < 0) # (sign = 1) THEN InvalidI(w, sign) ELSE Ret(z, Exactly(exact, t.lost))

ToUInt_r_minMag(f, w, a, exact) ==
  LET t == Truncated(f, a)
  IN CASE expUI(f, a) < bias(f) -> Fraction(f, a, exact)
       [] bias(f) <= expUI(f, a) /\ (signUI(f, a) = 1 \/ lastExp(f, w) < expUI(f, a)) -> InvalidUI(w)
       [] OTHER -> Ret(t.z, Exactly(exact, t.lost))
f32_to_ui32_r_minMag(k, a, exact) == ToUInt_r_minMag(k.s, w32(k), a, exact)
f32_to_ui64_r_minMag(k, a, exact) == ToUInt_r_minMag(k.s, w64(k), a, exact)
f64_to_ui32_r_minMag(k, a, exact) == ToUInt_r_minMag(k.d, w32(k), a, exact)
f64_to_ui64_r_minMag(k, a, exact) == ToUInt_r_minMag(k.d, w64(k), a, exact)

-----------------------------------------------------------------------------
(* Integer to float.  An integer as wide as the word ...                   *)
Abs(i)  == IF i < 0 THEN -i ELSE i
Sign(i) == Bit(i < 0)

i32_to_f32(k, i, rm) ==
  LET w == w32(k)
  IN IF i \in {0, minInt(w)} THEN Ret(IF i < 0 THEN packToUI(k.s, 1, lastExp(k.s, w), 0) ELSE 0, {})
     ELSE softfloat_normRoundPackToF32(k.s, Sign(i), lastExp(k.s, w) - 2, Abs(i), rm)
i64_to_f64(k, i, rm) ==
  LET w == w64(k)
  IN IF i \in {0, minInt(w)} THEN Ret(IF i < 0 THEN packToUI(k.d, 1, lastExp(k.d, w), 0) ELSE 0, {})
     ELSE softfloat_normRoundPackToF64(k.d, Sign(i), lastExp(k.d, w) - 2, Abs(i), rm)

ui32_to_f32(k, u, rm) ==
  CASE u = 0 -> Ret(0, {})
    [] u \in 1..maxInt(w32(k)) ->
         softfloat_normRoundPackToF32(k.s, 0, lastExp(k.s, w32(k)) - 2, u, rm)
    [] OTHER -> softfloat_roundPackToF32(k.s, 0, lastExp(k.s, w32(k)) - 1,
                                         softfloat_shortShift32Right1Jam(u), rm)
ui64_to_f64(k, u, rm) ==
  CASE u = 0 -> Ret(0, {})
    [] u \in 1..maxInt(w64(k)) ->
         softfloat_normRoundPackToF64(k.d, 0, lastExp(k.d, w64(k)) - 2, u, rm)
    [] OTHER -> softfloat_roundPackToF64(k.d, 0, lastExp(k.d, w64(k)) - 1,
                                         softfloat_shortShift64RightJam(u, 1), rm)

(* ... one that fits into the fraction, exactly ...                        *)
i32_to_f64(k, i) ==
  LET shift == softfloat_countLeadingZeros32(w32(k), Abs(i)) + k.d.F + 1 - w32(k)
  IN IF i = 0 THEN 0
     ELSE packToUI(k.d, Sign(i), bias(k.d) + k.d.F - 1 - shift, Abs(i) * 2^shift)
ui32_to_f64(k, u) == i32_to_f64(k, u)

(* ... and one that is wider than the word.                                *)
WideToF32(k, sign, abs, rm) ==
  LET shift == softfloat_countLeadingZeros64(w64(k), abs) - (w64(k) - (k.s.F + 1))
      s     == shift + k.s.G
      sig   == IF s < 0 THEN softfloat_shortShift64RightJam(abs, -s) ELSE abs * 2^s
  IN IF 0 <= shift
     THEN Ret(IF abs = 0 THEN 0
              ELSE packToUI(k.s, sign, bias(k.s) + k.s.F - 1 - shift, abs * 2^shift), {})
     ELSE softfloat_roundPackToF32(k.s, sign, lastExp(k.s, w32(k)) - 2 - s, sig, rm)
i64_to_f32(k, i, rm)  == WideToF32(k, Sign(i), Abs(i), rm)
ui64_to_f32(k, u, rm) == WideToF32(k, 0, u, rm)

-----------------------------------------------------------------------------
(* Float to float.                                                         *)
f32_to_f64(k, a) ==
  LET exp == expUI(k.s, a)
      sub == softfloat_normSubnormalF32Sig(k.s, fracUI(k.s, a))
      moved(e, sig) == Ret(packToUI(k.d, signUI(k.s, a), e + bias(k.d) - bias(k.s),
                                    sig * 2^(k.d.F - k.s.F)), {})
  IN CASE isNaNUI(k.s, a) -> softfloat_commonNaNToF64UI(k.d, softfloat_f32UIToCommonNaN(k.s, a))
       [] isInf(k.s, a) -> Ret(Inf(k.d, signUI(k.s, a)), {})
       [] isZero(k.s, a) -> Ret(Zero(k.d, signUI(k.s, a)), {})
       [] exp = 0 /\ ~isZero(k.s, a) -> moved(sub.exp - 1, sub.sig)
       [] OTHER -> moved(exp, fracUI(k.s, a))

f64_to_f32(k, a, rm) ==
  LET sign == signUI(k.d, a)
      exp  == expUI(k.d, a)
      sig  == softfloat_shortShift64RightJam(fracUI(k.d, a), k.d.F - (k.s.F + k.s.G))
  IN CASE isNaNUI(k.d, a) -> softfloat_commonNaNToF32UI(k.s, softfloat_f64UIToCommonNaN(k.d, a))
       [] isInf(k.d, a) -> Ret(Inf(k.s, sign), {})
       [] exp = 0 /\ sig = 0 -> Ret(Zero(k.s, sign), {})
       [] OTHER -> softfloat_roundPackToF32(k.s, sign, exp - (bias(k.d) - bias(k.s)) - 1,
                                            sig + 2^(k.s.F + k.s.G), rm)
=============================================================================
