--------------------------- MODULE SoftFloatArith ---------------------------
(***************************************************************************)
(* Rounding, the operations on two and three operands, the comparisons and *)
(* rounding to an integer of src/softfloat, over the words of SoftFloat.   *)
(***************************************************************************)
EXTENDS SoftFloat

(* specialize.h:41 *)
detectTininess == "beforeRounding"

(* The increment below the last kept bit, of `bits` bits that are dropped. *)
roundIncrement(bits, sign, rm) ==
  CASE rm \in {"near_even", "near_maxMag"} -> 2^(bits - 1)
    [] rm = "minMag" \/ rm = (IF sign = 1 THEN "max" ELSE "min") -> 0
    [] OTHER -> 2^bits - 1

(* sig without the `bits` dropped bits; ties go to even when rm says so.   *)
RoundOff(bits, sig, inc, rm) ==
  LET z == (sig + inc) \div 2^bits
  IN IF sig % 2^bits = 2^(bits - 1) /\ rm = "near_even" THEN z - (z % 2) ELSE z

\* Mutant: no test for an exponent beyond the largest one.
M_roundPackToF32(f, sign, exp, sig, rm) ==
  LET inc == roundIncrement(f.G, sign, rm)
      s   == IF exp < 0 THEN softfloat_shift32RightJam(word(f), sig, -exp) ELSE sig
  IN Ret(packToUI(f, sign, IF exp < 0 THEN 0 ELSE exp, RoundOff(f.G, s, inc, rm)),
         IF s % 2^f.G # 0 THEN {"inexact"} ELSE {})
softfloat_roundPackToF32(f, sign, exp, sig, rm) ==
  LET inc  == roundIncrement(f.G, sign, rm)
      tiny == detectTininess = "beforeRounding" \/ exp < -1 \/ sig + inc < top(f)
      s    == IF exp < 0 THEN softfloat_shift32RightJam(word(f), sig, -exp) ELSE sig
      e    == IF exp < 0 THEN 0 ELSE exp
      z    == RoundOff(f.G, s, inc, rm)
      inexact == s % 2^f.G # 0
  IN IF exp > expMax(f) - 2 \/ (exp = expMax(f) - 2 /\ top(f) <= sig + inc)
     THEN Ret(packToUI(f, sign, expMax(f), 0) - Bit(inc = 0), {"overflow", "inexact"})
     ELSE Ret(packToUI(f, sign, IF z = 0 THEN 0 ELSE e, z),
              IF ~inexact THEN {}
              ELSE {"inexact"} \cup IF exp < 0 /\ tiny THEN {"underflow"} ELSE {})
softfloat_roundPackToF64(f, sign, exp, sig, rm) == softfloat_roundPackToF32(f, sign, exp, sig, rm)

softfloat_normRoundPackToF32(f, sign, exp, sig, rm) ==
  LET shift == softfloat_countLeadingZeros32(word(f), sig) - 1
      e     == exp - shift
  IN IF f.G <= shift /\ e \in 0..(expMax(f) - 3)
     THEN Ret(packToUI(f, sign, IF sig = 0 THEN 0 ELSE e, sig * 2^(shift - f.G)), {})
     ELSE softfloat_roundPackToF32(f, sign, e, sig * 2^shift, rm)
softfloat_normRoundPackToF64(f, sign, exp, sig, rm) ==
  softfloat_normRoundPackToF32(f, sign, exp, sig, rm)

softfloat_normSubnormalF32Sig(f, sig) ==
  LET shift == softfloat_countLeadingZeros32(word(f), sig) - (f.G + 1)
  IN [exp |-> 1 - shift, sig |-> sig * 2^shift]
softfloat_normSubnormalF64Sig(f, sig) == softfloat_normSubnormalF32Sig(f, sig)

(* Exponent and significand of a finite, nonzero operand, hidden bit set.  *)
Normal(f, ui) ==
  IF expUI(f, ui) = 0
  THEN softfloat_normSubnormalF32Sig(f, fracUI(f, ui))
  ELSE [exp |-> expUI(f, ui), sig |-> fracUI(f, ui) + hidden(f)]

(* One left shift when sig is below least, and the rounding of a sum or    *)
(* product of which that brings the leading bit into its place.            *)
Scaled(exp, sig, least) ==
  IF sig < least THEN [exp |-> exp - 1, sig |-> 2 * sig] ELSE [exp |-> exp, sig |-> sig]
RoundScaled(f, sign, x, rm) == softfloat_roundPackToF32(f, sign, x.exp, x.sig, rm)
RoundSum(f, sign, exp, sig, rm) == RoundScaled(f, sign, Scaled(exp, sig, 2^(f.F + f.G)), rm)

Inf(f, sign)  == packToUI(f, sign, expMax(f), 0)
Zero(f, sign) == packToUI(f, sign, 0, 0)
Negated(f, ui) == (ui + signBit(f)) % (2 * signBit(f))
isZero(f, ui) == ui % signBit(f) = 0
isInf(f, ui)  == ui % signBit(f) = Inf(f, 0)

-----------------------------------------------------------------------------
(* a + b: the magnitudes are added or subtracted.                          *)
softfloat_addMagsF32(f, uiA, uiB, signZ, rm) ==
  LET expA == expUI(f, uiA)
      expB == expUI(f, uiB)
      sigA == fracUI(f, uiA) * 2^(f.G - 1)
      sigB == fracUI(f, uiB) * 2^(f.G - 1)
      unit == 2^(f.F + f.G - 1)                    \* the hidden bit, so shifted
      aligned(exp, sig, n) ==
        softfloat_shift32RightJam(word(f), sig + (IF exp # 0 THEN unit ELSE sig), n)
      sum == IF expA < expB THEN unit + aligned(expA, sigA, expB - expA) + sigB
                            ELSE unit + sigA + aligned(expB, sigB, expA - expB)
      expZ == IF expA < expB THEN expB ELSE expA
  IN IF isNaNUI(f, uiA) \/ isNaNUI(f, uiB) THEN softfloat_propagateNaNF32UI(f, uiA, uiB)
     ELSE CASE expA = expMax(f) -> Ret(uiA, {})
            [] expA < expMax(f) /\ expB = expMax(f) -> Ret(Inf(f, signZ), {})
            [] expA = 0 /\ expB = 0 -> Ret(packToUI(f, signZ, 0, (uiA + uiB) % signBit(f)), {})
            [] expA = expB /\ expA \in 1..(expMax(f) - 1) ->
                 softfloat_roundPackToF32(f, signZ, expA, 2 * unit + sigA + sigB, rm)
            [] OTHER -> RoundSum(f, signZ, expZ, sum, rm)
softfloat_addMagsF64(f, uiA, uiB, signZ, rm) == softfloat_addMagsF32(f, uiA, uiB, signZ, rm)

softfloat_subMagsF32(f, uiA, uiB, signZ, rm) ==
  LET expA == expUI(f, uiA)
      expB == expUI(f, uiB)
      sigA == fracUI(f, uiA) * 2^f.G
      sigB == fracUI(f, uiB) * 2^f.G
      unit == 2^(f.F + f.G)
      aligned(exp, sig, n) ==
        softfloat_shift32RightJam(word(f), sig + (IF exp # 0 THEN unit ELSE sig), n)
      diff == CASE expA = expB -> sigA - sigB
                [] expA > expB -> sigA + unit - aligned(expB, sigB, expA - expB)
                [] OTHER       -> aligned(expA, sigA, expB - expA) - (sigB + unit)
      expZ == IF expA = 0 /\ expB = 0 THEN 1 ELSE IF expA < expB THEN expB ELSE expA
  IN IF isNaNUI(f, uiA) \/ isNaNUI(f, uiB) THEN softfloat_propagateNaNF32UI(f, uiA, uiB)
     ELSE CASE expA = expMax(f) /\ expB = expMax(f) -> Invalid(f)
            [] expA = expMax(f) /\ expB < expA -> Ret(uiA, {})
            [] expB = expMax(f) /\ expA < expB -> Ret(Inf(f, 1 - signZ), {})
            [] OTHER ->
                 IF diff = 0 THEN Ret(Zero(f, Bit(rm = "min")), {})
                 ELSE softfloat_normRoundPackToF32(f, IF diff < 0 THEN 1 - signZ ELSE signZ, expZ - 1,
                                                   IF diff < 0 THEN -diff ELSE diff, rm)
softfloat_subMagsF64(f, uiA, uiB, signZ, rm) == softfloat_subMagsF32(f, uiA, uiB, signZ, rm)

f32_add(f, a, b, rm) ==
  IF signUI(f, a) = signUI(f, b)
  THEN softfloat_addMagsF32(f, a, b, signUI(f, a), rm)
  ELSE softfloat_subMagsF32(f, a, b, signUI(f, a), rm)
f64_add(f, a, b, rm) ==
  IF signUI(f, a) = signUI(f, b)
  THEN softfloat_addMagsF64(f, a, b, signUI(f, a), rm)
  ELSE softfloat_subMagsF64(f, a, b, signUI(f, a), rm)

f32_sub(f, a, b, rm) ==
  IF signUI(f, a) = signUI(f, b)
  THEN softfloat_subMagsF32(f, a, Negated(f, b), signUI(f, a), rm)
  ELSE softfloat_addMagsF32(f, a, Negated(f, b), signUI(f, a), rm)
f64_sub(f, a, b, rm) ==
  IF signUI(f, a) = signUI(f, b)
  THEN softfloat_subMagsF64(f, a, b, signUI(f, a), rm)
  ELSE softfloat_addMagsF64(f, a, b, signUI(f, a), rm)

-----------------------------------------------------------------------------
(* a * b: the significands' product, of two words, is jammed into sigZ.    *)
Product(f, a, b, sigZ, rm) ==
  LET signZ == (signUI(f, a) + signUI(f, b)) % 2
      expZ  == Normal(f, a).exp + Normal(f, b).exp - bias(f)
  IN CASE isNaNUI(f, a) \/ isNaNUI(f, b) -> softfloat_propagateNaNF32UI(f, a, b)
       [] (isInf(f, a) /\ isZero(f, b)) \/ (isZero(f, a) /\ isInf(f, b)) -> Invalid(f)
       [] \/ isInf(f, a) /\ ~isZero(f, b) /\ ~isNaNUI(f, b)
          \/ isInf(f, b) /\ ~isZero(f, a) /\ ~isNaNUI(f, a) -> Ret(Inf(f, signZ), {})
       [] \/ isZero(f, a) /\ expUI(f, b) # expMax(f)
          \/ isZero(f, b) /\ expUI(f, a) # expMax(f) -> Ret(Zero(f, signZ), {})
       [] OTHER -> RoundSum(f, signZ, expZ, sigZ, rm)

f32_mul(f, a, b, rm) ==
  LET p == (Normal(f, a).sig * 2^f.G) * (Normal(f, b).sig * 2^(f.G + 1))
  IN Product(f, a, b, softfloat_shortShift64RightJam(p, word(f)), rm)
f64_mul(f, a, b, rm) ==
  LET p == softfloat_mul64To128(word(f), Normal(f, a).sig * 2^f.G, Normal(f, b).sig * 2^(f.G + 1))
  IN Product(f, a, b, Jammed(p.hi, p.lo # 0), rm)

(* a / b: sigZ is the first word of sigA / sigB, with a nonzero rest       *)
(* jammed into it where it decides the rounding.  sigA is halved when the  *)
(* quotient would not fit.                                                 *)
Halved(f, x, y) == y.sig <= x.sig
Dividend(f, x, y) == IF Halved(f, x, y) THEN x.sig * 2^(f.G - 1) ELSE x.sig * 2^f.G
Division(f, a, b, sigZ, rm) ==
  LET signZ == (signUI(f, a) + signUI(f, b)) % 2
      x     == Normal(f, a)
      y     == Normal(f, b)
      expZ  == x.exp - y.exp + bias(f) - (IF Halved(f, x, y) THEN 1 ELSE 2)
  IN CASE isNaNUI(f, a) \/ isNaNUI(f, b) -> softfloat_propagateNaNF32UI(f, a, b)
       [] (isInf(f, a) /\ isInf(f, b)) \/ (isZero(f, a) /\ isZero(f, b)) -> Invalid(f)
       [] isInf(f, a) /\ expUI(f, b) # expMax(f) -> Ret(Inf(f, signZ), {})
       [] isInf(f, b) /\ expUI(f, a) # expMax(f) -> Ret(Zero(f, signZ), {})
       [] isZero(f, b) /\ ~isZero(f, a) /\ expUI(f, a) # expMax(f) -> Ret(Inf(f, signZ), {"infinity"})
       [] isZero(f, a) /\ ~isZero(f, b) /\ expUI(f, b) # expMax(f) -> Ret(Zero(f, signZ), {})
       [] OTHER -> softfloat_roundPackToF32(f, signZ, expZ, sigZ, rm)

f32_div(f, a, b, rm) ==
  LET x == Dividend(f, Normal(f, a), Normal(f, b))
      y == Normal(f, b).sig * 2^(f.G + 1)
      q == (x * 2^word(f)) \div y
  IN Division(f, a, b, IF q % 2^(f.G - 1) = 0 THEN Jammed(q, y * q # x * 2^word(f)) ELSE q, rm)

(* while rem < 0: one less in the quotient, one divisor more in rem. *)
LowerQuotient(w, q, rem, b) ==
  LET n == LastRound(w, rem, Pair(0, b), q)
  IN Jammed(q - n, RemAfter(w, rem, Pair(0, b))[n].lo # 0)
QuotientF64(f, x, y) ==
  LET w == word(f)
      Corrected(q) ==
        IF q % 2^(f.G - 1) <= 2
        THEN LowerQuotient(w, q, softfloat_sub128(w, Pair(x, 0), softfloat_mul64To128(w, y, q)), y)
        ELSE q
  IN Corrected(softfloat_estimateDiv128To64(w, x, 0, y))
f64_div(f, a, b, rm) ==
  Division(f, a, b, QuotientF64(f, Dividend(f, Normal(f, a), Normal(f, b)),
                                   Normal(f, b).sig * 2^(f.G + 1)), rm)

-----------------------------------------------------------------------------
(* Square roots.  est is the value softfloat_estimateSqrt32 returned: one  *)
(* of RootEstimates, which of them is the caller's choice.                 *)
SquareRoot(f, a, sigZ, rm) ==
  LET e == Normal(f, a).exp - bias(f)
  IN CASE isNaNUI(f, a) -> softfloat_propagateNaNF32UI(f, a, 0)
       [] isZero(f, a) \/ a = Inf(f, 0) -> Ret(a, {})
       [] signUI(f, a) = 1 /\ ~isZero(f, a) /\ ~isNaNUI(f, a) -> Invalid(f)
       [] OTHER -> softfloat_roundPackToF32(f, 0, (e \div 2) + bias(f) - 1, sigZ, rm)

(* while rem < 0: one less in the root z, 2z more in rem, and the low bit, *)
(* which f32_sqrt sets and f64_sqrt does not.                              *)
LowerRoot(z, rem, low) ==
  LET Lower[s \in Int \X Int] ==
        IF s[2] < 0 THEN Lower[<<s[1] - 1, s[2] + 2 * (s[1] - 1) + low>>] ELSE Jammed(s[1], s[2] # 0)
  IN Lower[<<z, rem>>]

f32_sqrtEstimates(f, a) ==
  LET x == Normal(f, a) IN softfloat_estimateSqrt32(word(f), x.exp, x.sig * 2^(f.G + 1))
f32_sqrt(f, a, est, rm) ==
  LET x    == Normal(f, a)
      sigA == (x.sig * 2^(f.G + 1)) \div 2^(x.exp % 2)
      z    == (est + 2) % 2^word(f)
      root == IF z % 2^f.G <= 5 THEN LowerRoot(z, sigA * 2^word(f) - z * z, 1) ELSE z
      over == z % 2^f.G <= 5 /\ z < 2
  IN SquareRoot(f, a, IF over THEN top(f) - 1 ELSE softfloat_shortShift32Right1Jam(root), rm)

(* The estimate is of the upper half word; one Newton step doubles it.     *)
f64_sqrtEstimates(f, a) ==
  LET x == Normal(f, a)
      h == word(f) \div 2
  IN softfloat_estimateSqrt32(h, x.exp, x.sig \div 2^(f.F + 1 - h))
RootF64(f, sigA, est) ==
  LET w == word(f)
      h == 2^(w \div 2)
      Corrected(z) == IF z % 2^(f.G - 1) <= 5 THEN LowerRoot(z, sigA * 2^w - z * z, 0) ELSE z
  IN Corrected(softfloat_estimateDiv128To64(w, sigA, 0, est * h) + est * (h \div 4))
f64_sqrt(f, a, est, rm) ==
  LET x == Normal(f, a)
  IN SquareRoot(f, a, RootF64(f, x.sig * 2^(f.G - 1 - (x.exp % 2)), est), rm)

-----------------------------------------------------------------------------
(* a * b + c with one rounding.  Fused settles NaNs, infinities and zero   *)
(* products; sum is the result of all other operands.                      *)
softfloat_mulAdd_subC    == 1
softfloat_mulAdd_subProd == 2

Fused(f, a, b, c, signProd, signC, sum, rm) ==
  LET ab == softfloat_propagateNaNF32UI(f, a, b)
      someInf  == isInf(f, a) \/ isInf(f, b)
      someZero == isZero(f, a) \/ isZero(f, b)
  IN CASE isNaNUI(f, a) \/ isNaNUI(f, b) ->
            Ret(defaultNaNUI(f), ab.fl \cup softfloat_propagateNaNF32UI(f, ab.ui, c).fl)
       [] someInf /\ someZero -> Invalid(f)
       [] OTHER ->
            CASE isNaNUI(f, c) -> softfloat_propagateNaNF32UI(f, 0, c)
              [] someInf /\ isInf(f, c) /\ signProd # signC -> Invalid(f)
              [] someInf /\ ~isNaNUI(f, c) /\ (isInf(f, c) => signProd = signC) -> Ret(Inf(f, signProd), {})
              [] ~someInf /\ isInf(f, c) -> Ret(c, {})
              [] someZero /\ expUI(f, c) # expMax(f) ->
                   Ret(IF isZero(f, c) /\ signProd # signC THEN Zero(f, Bit(rm = "min")) ELSE c, {})
              [] OTHER -> sum

Addend(f, z) == [exp |-> z.exp, sig |-> z.sig * 2^(f.G - 1)]

(* In f32 a product is one integer of two words.  p is the product, c the  *)
(* addend with its significand in the upper word: the sum and, when the    *)
(* signs differ, the difference, of which the larger gives the sign.       *)
ProductF32(f, x, y) ==
  Scaled(x.exp + y.exp - (bias(f) - 1), (x.sig * 2^f.G) * (y.sig * 2^f.G),
         2^(2 * (f.F + f.G) + 1))
PlusF32(f, sign, p, c, rm) ==
  LET w == word(f)
      d == p.exp - c.exp
      jam(s, n) == softfloat_shift64RightJam(2 * w, s, n)
  IN RoundSum(f, sign, IF d <= 0 THEN c.exp ELSE p.exp,
              IF d <= 0 THEN c.sig + jam(p.sig, w - d)
              ELSE softfloat_shortShift64RightJam(p.sig + jam(c.sig * 2^w, d), w), rm)
RoundDifferenceF32(f, sign, exp, diff, rm) ==
  LET w     == word(f)
      shift == softfloat_countLeadingZeros64(2 * w, diff) - 1
  IN softfloat_roundPackToF32(f, sign, exp - shift,
                              IF shift < w THEN softfloat_shortShift64RightJam(diff, w - shift)
                                           ELSE (diff * 2^(shift - w)) % 2^w, rm)
MinusF32(f, signProd, p, c, rm) ==
  LET w == 2 * word(f)
      d == p.exp - c.exp
      sigC == c.sig * 2^word(f)
      Turned(diff) == diff < 0
      Difference(diff) ==
        RoundDifferenceF32(f, IF d < 0 \/ Turned(diff) THEN 1 - signProd ELSE signProd,
                           IF d < 0 THEN c.exp ELSE p.exp, IF Turned(diff) THEN -diff ELSE diff, rm)
  IN IF d = 0 /\ p.sig = sigC THEN Ret(Zero(f, Bit(rm = "min")), {})
     ELSE Difference(CASE d < 0 -> sigC - softfloat_shift64RightJam(w, p.sig, -d)
                       [] d = 0 -> p.sig - sigC
                       [] d > 0 -> p.sig - softfloat_shift64RightJam(w, sigC, d))

softfloat_mulAddF32(f, op, a, b, c, rm) ==
  LET signC    == (signUI(f, c) + Bit(op = softfloat_mulAdd_subC)) % 2
      signProd == (signUI(f, a) + signUI(f, b) + Bit(op = softfloat_mulAdd_subProd)) % 2
      Sum(p, z) ==
        CASE isZero(f, c) ->
               softfloat_roundPackToF32(f, signProd, p.exp - 1,
                                        softfloat_shortShift64RightJam(p.sig, word(f) - 1), rm)
          [] ~isZero(f, c) /\ signProd = signC -> PlusF32(f, signProd, p, z, rm)
          [] ~isZero(f, c) /\ signProd # signC -> MinusF32(f, signProd, p, z, rm)
  IN Fused(f, a, b, c, signProd, signC,
           Sum(ProductF32(f, Normal(f, a), Normal(f, b)), Addend(f, Normal(f, c))), rm)

(* In f64 it is a pair of words. *)
ProductF64(f, x, y) ==
  LET w   == word(f)
      exp == x.exp + y.exp - (bias(f) - 1)
      Shifted(p) == IF p.hi < 2^(f.F + f.G - 1)
                    THEN [exp |-> exp - 1, sig |-> softfloat_shortShift128Left(w, p, 1)]
                    ELSE [exp |-> exp, sig |-> p]
  IN Shifted(softfloat_mul64To128(w, x.sig * 2^f.G, y.sig * 2^f.G))
Joined(p) == Jammed(p.hi, p.lo # 0)
PlusF64(f, sign, p, c, rm) ==
  LET w == word(f)
      d == p.exp - c.exp
      upper == IF d < 0 THEN softfloat_shift64RightJam(w, p.sig.hi, -d) ELSE p.sig.hi
  IN RoundSum(f, sign, IF d <= 0 THEN c.exp ELSE p.exp,
              Joined(IF d <= 0 THEN Pair(c.sig + upper, p.sig.lo)
                     ELSE softfloat_add128(w, p.sig, softfloat_shift128RightJam(w, Pair(c.sig, 0), d))),
              rm)
(* An upper word of zeros is dropped; then the leading bit is brought into *)
(* its place.                                                              *)
RoundShifted(f, sign, exp, diff, rm) ==
  LET w     == word(f)
      shift == softfloat_countLeadingZeros64(w, diff.hi) - 1
  IN softfloat_roundPackToF64(f, sign, exp - shift,
       Joined(IF shift < 0 THEN Pair(softfloat_shortShift64RightJam(diff.hi, -shift), diff.lo)
                           ELSE softfloat_shortShift128Left(w, diff, shift)), rm)
RoundDifferenceF64(f, sign, exp, diff, rm) ==
  RoundShifted(f, sign, IF diff.hi = 0 THEN exp - word(f) ELSE exp,
               IF diff.hi = 0 THEN Pair(diff.lo, 0) ELSE diff, rm)
MinusF64(f, signProd, p, c, rm) ==
  LET w == word(f)
      d == p.exp - c.exp
      sigC == Pair(c.sig, 0)
      Turned(diff) == d = 0 /\ Negative(w, diff)
      Difference(diff) ==
        RoundDifferenceF64(f, IF d < 0 \/ Turned(diff) THEN 1 - signProd ELSE signProd,
                           IF d < 0 THEN c.exp ELSE p.exp,
                           IF Turned(diff) THEN softfloat_sub128(w, Pair(0, 0), diff) ELSE diff, rm)
  IN IF d = 0 /\ p.sig = sigC THEN Ret(Zero(f, Bit(rm = "min")), {})
     ELSE Difference(softfloat_sub128(w,
            IF d < 0 THEN sigC ELSE p.sig,
            CASE d < 0 -> softfloat_shift128RightJam(w, p.sig, -d)
              [] d = 0 -> sigC
              [] d > 0 -> softfloat_shift128RightJam(w, sigC, d)))

softfloat_mulAddF64(f, op, a, b, c, rm) ==
  LET signC    == (signUI(f, c) + Bit((op \div softfloat_mulAdd_subC) % 2 = 1)) % 2
      signProd == (signUI(f, a) + signUI(f, b) + Bit((op \div softfloat_mulAdd_subProd) % 2 = 1)) % 2
      Sum(p, z) ==
        CASE isZero(f, c) ->
               softfloat_roundPackToF64(f, signProd, p.exp - 1, 2 * p.sig.hi + Bit(p.sig.lo # 0), rm)
          [] ~isZero(f, c) /\ signProd = signC -> PlusF64(f, signProd, p, z, rm)
          [] ~isZero(f, c) /\ signProd # signC -> MinusF64(f, signProd, p, z, rm)
  IN Fused(f, a, b, c, signProd, signC,
           Sum(ProductF64(f, Normal(f, a), Normal(f, b)), Addend(f, Normal(f, c))), rm)

f32_mulAdd(f, a, b, c, rm) == softfloat_mulAddF32(f, 0, a, b, c, rm)
f64_mulAdd(f, a, b, c, rm) == softfloat_mulAddF64(f, 0, a, b, c, rm)

-----------------------------------------------------------------------------
(* The IEEE remainder of a by b.  The reduction leaves a quotient and a    *)
(* rest, r; the divisor sB is subtracted until the rest is negative, and   *)
(* the value nearer to zero of the last two is taken, the even quotient's  *)
(* on a tie.                                                               *)
Subtract(w, first, sB) ==
  LET Less[r \in [q : Nat, sig : Nat]] ==
        LET next == (r.sig - sB) % 2^w
        IN IF next < 2^(w - 1) THEN Less[[q |-> r.q + 1, sig |-> next]]
                               ELSE [q |-> r.q + 1, alternate |-> r.sig, sig |-> next]
  IN Less[first]

SignedRest(f, sign, exp, sig, rm) ==
  LET signZ == Bit(sig >= top(f))
  IN softfloat_normRoundPackToF32(f, (sign + signZ) % 2, exp,
                                  IF signZ = 1 THEN 2^word(f) - sig ELSE sig, rm)
\* Mutant: a tie takes the smaller remainder whatever the quotient.
M_Nearest(f, sign, exp, r, rm) ==
  SignedRest(f, sign, exp, IF (r.sig + r.alternate) % 2^word(f) >= top(f) THEN r.alternate ELSE r.sig, rm)
Nearest(f, sign, exp, r, rm) ==
  LET mean == (r.sig + r.alternate) % 2^word(f)
  IN SignedRest(f, sign, exp,
                IF mean >= top(f) \/ (mean = 0 /\ r.q % 2 = 1) THEN r.alternate ELSE r.sig, rm)

(* The quotient estimate for remainders, never above the quotient. *)
LowEstimate(w, a, b) ==
  LET TwoLess(q) == IF 2 < q THEN q - 2 ELSE 0 IN TwoLess(softfloat_estimateDiv128To64(w, a, 0, b))

(* while 0 < n: two bits less than a word of the quotient are dropped. *)
Reduce(w, sigA, sigB, d) ==
  LET Rest[r \in [sig : Nat, n : Int]] ==
        IF 0 < r.n
        THEN Rest[[sig |-> (-((sigB \div 4) * LowEstimate(w, r.sig, sigB))) % 2^w, n |-> r.n - (w - 2)]]
        ELSE r
  IN Rest[[sig |-> sigA, n |-> d]]

(* The operands for which the remainder is not computed by reduction, and  *)
(* reduced for the others.                                                 *)
Remainder(f, a, b, reduced) ==
  LET x == Normal(f, a)
      y == Normal(f, b)
  IN CASE isNaNUI(f, a) \/ isNaNUI(f, b) -> softfloat_propagateNaNF32UI(f, a, b)
       [] (isInf(f, a) /\ ~isNaNUI(f, b)) \/ (isZero(f, b) /\ ~isNaNUI(f, a)) -> Invalid(f)
       [] \/ expUI(f, a) # expMax(f) /\ isInf(f, b)
          \/ isZero(f, a) /\ ~isZero(f, b) /\ ~isNaNUI(f, b) -> Ret(a, {})
       [] OTHER -> IF x.exp - y.exp < -1 THEN Ret(a, {})
                   ELSE reduced

(* The first bit of the quotient, and its last n bits. *)
FirstBit(sigA, sigB) == IF sigB <= sigA THEN [q |-> 1, sig |-> sigA - sigB] ELSE [q |-> 0, sig |-> sigA]
LastBits(w, q, half, sigB, n) == [q |-> q, sig |-> (half * 2^(n - 1) - (sigB \div 4) * q) % 2^w]
FirstRest(f, x, y) ==
  FirstBit(x.sig * 2^(IF x.exp < y.exp THEN f.G ELSE f.G + 1), y.sig * 2^(f.G + 1))

(* A quotient of f32 fits one word, or is reduced in words twice as wide.  *)
ShortQuotientF32(w, first, sigB, d) ==
  IF 0 < d THEN LastBits(w, ((first.sig * 2^w) \div sigB) \div 2^(w - d), first.sig \div 2, sigB, d)
           ELSE [q |-> first.q, sig |-> first.sig \div 4]
LongQuotientF32(w, first, sigB, d) ==
  LET Last(r) == LastBits(w, (LowEstimate(2 * w, r.sig, sigB * 2^w) \div 2^(-r.n)) % 2^w,
                          r.sig \div 2^(w + 1), sigB, r.n + 2 * w)
  IN Last(Reduce(2 * w, first.sig * 2^w, sigB * 2^w, d - 2 * w))
f32_rem(f, a, b, rm) ==
  LET w    == word(f)
      exp  == Normal(f, b).exp
      d    == Normal(f, a).exp - exp
      sigB == Normal(f, b).sig * 2^(f.G + 1)
      Quotient(first) == IF d < w THEN ShortQuotientF32(w, first, sigB, d)
                                  ELSE LongQuotientF32(w, first, sigB, d)
      rest == Subtract(w, Quotient(FirstRest(f, Normal(f, a), Normal(f, b))), sigB \div 4)
  IN Remainder(f, a, b, Nearest(f, signUI(f, a), exp, rest, rm))

LongQuotientF64(w, first, sigB, d) ==
  LET Last(r) == IF 0 < r.n + w
                 THEN LastBits(w, LowEstimate(w, r.sig, sigB) \div 2^(-r.n), r.sig \div 2, sigB, r.n + w)
                 ELSE [q |-> first.q, sig |-> r.sig \div 4]
  IN Last(Reduce(w, first.sig, sigB, d - w))
f64_rem(f, a, b, rm) ==
  LET w    == word(f)
      exp  == Normal(f, b).exp
      sigB == Normal(f, b).sig * 2^(f.G + 1)
      rest == Subtract(w, LongQuotientF64(w, FirstRest(f, Normal(f, a), Normal(f, b)), sigB,
                                          Normal(f, a).exp - exp), sigB \div 4)
  IN Remainder(f, a, b, Nearest(f, signUI(f, a), exp, rest, rm))

-----------------------------------------------------------------------------
(* a rounded to an integral value of the same format.                      *)
f32_roundToInt(f, a, rm, exact) ==
  LET exp  == expUI(f, a)
      sign == signUI(f, a)
      mask == 2^(bias(f) + f.F - exp)                        \* lastBitMask
      z0   == CASE rm = "near_maxMag" -> a + mask \div 2
                [] rm = "near_even" ->
                     LET z == a + mask \div 2
                     IN IF z % mask = 0 /\ (z \div mask) % 2 = 1 THEN z - mask ELSE z
                [] rm \in {"min", "max"} -> IF sign # Bit(rm = "max") THEN a + mask - 1 ELSE a
                [] OTHER -> a
      z    == z0 - (z0 % mask)
      one  == packToUI(f, sign, bias(f), 0)
      inexact(b) == IF exact /\ b THEN {"inexact"} ELSE {}
  IN CASE bias(f) + f.F <= exp ->
            IF isNaNUI(f, a) THEN softfloat_propagateNaNF32UI(f, a, 0) ELSE Ret(a, {})
       [] exp < bias(f) /\ isZero(f, a) -> Ret(a, {})
       [] exp < bias(f) /\ ~isZero(f, a) ->
            Ret(IF \/ rm = "near_even" /\ exp = bias(f) - 1 /\ fracUI(f, a) # 0
                   \/ rm = "near_maxMag" /\ exp = bias(f) - 1
                   \/ rm = "min" /\ sign = 1
                   \/ rm = "max" /\ sign = 0
                THEN one ELSE Zero(f, sign), inexact(TRUE))
       [] OTHER -> Ret(z, inexact(z # a))
f64_roundToInt(f, a, rm, exact) == f32_roundToInt(f, a, rm, exact)

-----------------------------------------------------------------------------
(* Comparisons: [ui |-> 1 or 0, fl |-> flags].  A quiet one raises invalid *)
(* for signaling NaNs only.                                                *)
Compared(f, a, b, quiet, Holds) ==
  IF isNaNUI(f, a) \/ isNaNUI(f, b)
  THEN Ret(0, IF quiet => softfloat_isSigNaNF32UI(f, a) \/ softfloat_isSigNaNF32UI(f, b)
              THEN {"invalid"} ELSE {})
  ELSE Ret(Bit(Holds), {})

bothZero(f, a, b) == isZero(f, a) /\ isZero(f, b)
Equal(f, a, b) == a = b \/ bothZero(f, a, b)
LessEq(f, a, b) ==
  LET signA == signUI(f, a) = 1
  IN IF signUI(f, a) # signUI(f, b) THEN signA \/ bothZero(f, a, b) ELSE a = b \/ (signA # (a < b))
\* Mutant: the two zeros are not recognised.
M_Less(f, a, b) ==
  IF signUI(f, a) # signUI(f, b) THEN signUI(f, a) = 1
  ELSE a # b /\ ((signUI(f, a) = 1) # (a < b))
Less(f, a, b) ==
  LET signA == signUI(f, a) = 1
  IN IF signUI(f, a) # signUI(f, b) THEN signA /\ ~bothZero(f, a, b) ELSE a # b /\ (signA # (a < b))

f32_eq(f, a, b)           == Compared(f, a, b, TRUE, Equal(f, a, b))
f32_eq_signaling(f, a, b) == Compared(f, a, b, FALSE, Equal(f, a, b))
f32_le(f, a, b)           == Compared(f, a, b, FALSE, LessEq(f, a, b))
f32_le_quiet(f, a, b)     == Compared(f, a, b, TRUE, LessEq(f, a, b))
f32_lt(f, a, b)           == Compared(f, a, b, FALSE, Less(f, a, b))
f32_lt_quiet(f, a, b)     == Compared(f, a, b, TRUE, Less(f, a, b))
f64_eq(f, a, b)           == f32_eq(f, a, b)
f64_eq_signaling(f, a, b) == f32_eq_signaling(f, a, b)
f64_le(f, a, b)           == f32_le(f, a, b)
f64_le_quiet(f, a, b)     == f32_le_quiet(f, a, b)
f64_lt(f, a, b)           == f32_lt(f, a, b)
f64_lt_quiet(f, a, b)     == f32_lt_quiet(f, a, b)

(* The number of the bit that is set; the code returns 1 << that. *)
f32_classify(f, a) ==
  LET sign == signUI(f, a) = 1
      exp  == expUI(f, a)
  IN CASE isNaNUI(f, a) -> IF softfloat_isSigNaNF32UI(f, a) THEN 8 ELSE 9
       [] isInf(f, a) -> IF sign THEN 0 ELSE 7
       [] exp \in 1..(expMax(f) - 1) -> IF sign THEN 1 ELSE 6
       [] exp = 0 /\ ~isZero(f, a) -> IF sign THEN 2 ELSE 5
       [] isZero(f, a) -> IF sign THEN 3 ELSE 4
f64_classify(f, a) == f32_classify(f, a)
=============================================================================
