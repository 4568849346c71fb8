------------------------------ MODULE SoftFloat ------------------------------
(***************************************************************************)
(* The arithmetic of src/softfloat, translated for any binary format.      *)
(*                                                                         *)
(* The C code exists twice, once for f32 and once for f64, with the same   *)
(* steps and other constants.  Here a format f is a record of widths       *)
(*   f.E  exponent bits            f32: 8    f64: 11                       *)
(*   f.F  fraction bits            f32: 23   f64: 52                       *)
(*   f.G  guard bits of a word     f32: 7    f64: 10                       *)
(* and a working word (uint32_t, uint64_t) has F + G + 2 bits, so that     *)
(* every constant of the C code is a power of two of these: 0x7F is 2^G-1, *)
(* 0x40000000 is 2^(F+G), 0xFD is expMax - 2, and so on.  An f64 function  *)
(* whose text is that of its f32 twin is defined by it; where the texts    *)
(* differ (products and quotients through 128 bits) there are two.         *)
(*                                                                         *)
(* A floating-point value is its bit pattern, a natural number.  A         *)
(* function that raises flags returns [ui |-> pattern, fl |-> flags]; the  *)
(* global softfloat_roundingMode is the parameter rm.                      *)
(***************************************************************************)
EXTENDS Integers

RoundingModes == {"near_even", "minMag", "min", "max", "near_maxMag"}
Flags == {"inexact", "underflow", "overflow", "infinity", "invalid"}

Bit(b) == IF b THEN 1 ELSE 0
Ret(ui, fl) == [ui |-> ui, fl |-> fl]
Jammed(a, rest) == IF rest /\ a % 2 = 0 THEN a + 1 ELSE a    \* a | rest

bias(f)    == 2^(f.E - 1) - 1
expMax(f)  == 2^f.E - 1
word(f)    == f.F + f.G + 2
hidden(f)  == 2^f.F
top(f)     == 2^(f.F + f.G + 1)
signBit(f) == 2^(f.E + f.F)

-----------------------------------------------------------------------------
(* internals.h, specialize.h: the fields of a pattern and the NaNs.        *)
signUI(f, ui) == ui \div signBit(f)
expUI(f, ui)  == (ui \div hidden(f)) % 2^f.E
fracUI(f, ui) == ui % hidden(f)
packToUI(f, sign, exp, sig) == sign * signBit(f) + exp * hidden(f) + sig

isNaNUI(f, ui) == expUI(f, ui) = expMax(f) /\ fracUI(f, ui) # 0
softfloat_isSigNaNF32UI(f, ui) ==
  expUI(f, ui) = expMax(f) /\ fracUI(f, ui) \in 1..(hidden(f) \div 2 - 1)
softfloat_isSigNaNF64UI(f, ui) == softfloat_isSigNaNF32UI(f, ui)
f32_isSignalingNaN(f, ui) == softfloat_isSigNaNF32UI(f, ui)
f64_isSignalingNaN(f, ui) == softfloat_isSigNaNF64UI(f, ui)
defaultNaNUI(f) == 2 * signBit(f) - 1

Invalid(f) == Ret(defaultNaNUI(f), {"invalid"})
softfloat_propagateNaNF32UI(f, uiA, uiB) ==
  Ret(defaultNaNUI(f),
      IF softfloat_isSigNaNF32UI(f, uiA) \/ softfloat_isSigNaNF32UI(f, uiB) THEN {"invalid"} ELSE {})
softfloat_propagateNaNF64UI(f, uiA, uiB) == softfloat_propagateNaNF32UI(f, uiA, uiB)

(* A NaN on its way to another format keeps its sign only. *)
softfloat_f32UIToCommonNaN(f, ui) ==
  [sign |-> signUI(f, ui), fl |-> IF softfloat_isSigNaNF32UI(f, ui) THEN {"invalid"} ELSE {}]
softfloat_f64UIToCommonNaN(f, ui) == softfloat_f32UIToCommonNaN(f, ui)
softfloat_commonNaNToF32UI(f, nan) == Ret(nan.sign * signBit(f) + signBit(f) - 1, nan.fl)
softfloat_commonNaNToF64UI(f, nan) == softfloat_commonNaNToF32UI(f, nan)

-----------------------------------------------------------------------------
(* The primitives on words of w bits.  "SHIFT COUNTS CANNOT BE ZERO"        *)
(* (primitives.h:57): a jamming shift is not defined for a count of 0.     *)
softfloat_countLeadingZeros32(w, a) ==
  CHOOSE n \in 0..w : a < 2^(w - n) /\ (n < w => a >= 2^(w - n - 1))
softfloat_countLeadingZeros64(w, a) == softfloat_countLeadingZeros32(w, a)

\* Mutant: the bits shifted out are forgotten.
M_shift32RightJam(w, a, count) == IF count < w THEN a \div 2^count ELSE 0
softfloat_shift32RightJam(w, a, count) ==
  CASE count \in 1..(w - 1) -> Jammed(a \div 2^count, a % 2^count # 0)
    [] count >= w -> Bit(a # 0)
\* Mutant: a shift by a whole word or more loses the operand.
M_shift64RightJam(w, a, count) ==
  IF count < w THEN softfloat_shift32RightJam(w, a, count) ELSE 0
softfloat_shift64RightJam(w, a, count) == softfloat_shift32RightJam(w, a, count)
softfloat_shortShift32Right1Jam(a) == Jammed(a \div 2, a % 2 # 0)
softfloat_shortShift64RightJam(a, count) == Jammed(a \div 2^count, a % 2^count # 0)

(* What is shifted out of the word, itself a word; v is the rest. *)
softfloat_shift64ExtraRightJam(w, a, extra, count) ==
  LET out == CASE count \in 1..(w - 1) -> (a % 2^count) * 2^(w - count)
               [] count = w -> a
               [] count > w -> Bit(a # 0)
  IN [v |-> IF count < w THEN a \div 2^count ELSE 0, extra |-> Jammed(out, extra # 0)]

(* Pairs of words: [hi, lo] stands for struct uint128 (v64, v0). *)
Pair(hi, lo) == [hi |-> hi, lo |-> lo]
softfloat_add128(w, a, b) ==
  LET lo == (a.lo + b.lo) % 2^w
  IN Pair((a.hi + b.hi + Bit(lo < a.lo)) % 2^w, lo)
\* Mutant: no borrow from the upper word.
M_sub128(w, a, b) == Pair((a.hi - b.hi) % 2^w, (a.lo - b.lo) % 2^w)
softfloat_sub128(w, a, b) == Pair((a.hi - b.hi - Bit(a.lo < b.lo)) % 2^w, (a.lo - b.lo) % 2^w)
softfloat_shortShift128Left(w, a, count) ==
  Pair((a.hi * 2^count + a.lo \div 2^(w - count)) % 2^w, (a.lo * 2^count) % 2^w)
softfloat_shift128RightJam(w, a, count) ==
  LET part(x) == x % 2^(count % w)
  IN CASE count \in 1..(w - 1) ->
            Pair(a.hi \div 2^count,
                 Jammed(part(a.hi) * 2^(w - count) + a.lo \div 2^count, part(a.lo) # 0))
       [] count \in w..(2 * w - 1) ->
            Pair(0, Jammed(a.hi \div 2^(count - w), part(a.hi) # 0 \/ a.lo # 0))
       [] count >= 2 * w -> Pair(0, Bit(a.hi # 0 \/ a.lo # 0))

(* The product of two words from the four products of their halves. *)
softfloat_mul64To128(w, a, b) ==
  LET h    == 2^(w \div 2)
      mid1 == (a \div h) * (b % h)
      mid  == (mid1 + (a % h) * (b \div h)) % 2^w
      lo   == ((a % h) * (b % h) + (mid % h) * h) % 2^w
  IN Pair((a \div h) * (b \div h) + Bit(mid < mid1) * h + mid \div h + Bit(lo < (mid % h) * h), lo)

Negative(w, a) == a.hi >= 2^(w - 1)

(* while rem < 0: rem += step.  What rem is after each number of rounds,   *)
(* and the round, of at most most, after which the loop ends.              *)
RemAfter(w, rem, step) ==
  LET Rem[n \in Nat] == IF n = 0 THEN rem ELSE softfloat_add128(w, Rem[n - 1], step)
  IN Rem
LastRound(w, rem, step, most) ==
  CHOOSE n \in 0..most : /\ ~Negative(w, RemAfter(w, rem, step)[n])
                         /\ \A m \in 0..(n - 1) : Negative(w, RemAfter(w, rem, step)[m])

(* A round of the estimate takes one off the upper half of z.              *)
LowerEstimate(w, b, z, rem) ==
  LET h    == 2^(w \div 2)
      step == Pair(b \div h, (b % h) * h)
      n    == LastRound(w, rem, step, h)
  IN [z |-> z - n * h, rem |-> RemAfter(w, rem, step)[n]]

softfloat_estimateDiv128To64(w, a64, a0, b) ==
  LET h    == 2^(w \div 2)
      b32  == b \div h
      z0   == IF b32 * h <= a64 THEN (h - 1) * h ELSE (a64 \div b32) * h
      est  == LowerEstimate(w, b, z0, softfloat_sub128(w, Pair(a64, a0), softfloat_mul64To128(w, b, z0)))
      rem32 == (est.rem.hi * h + est.rem.lo \div h) % 2^w
  IN IF b <= a64 THEN 2^w - 1
     ELSE est.z + (IF b32 * h <= rem32 THEN h - 1 ELSE rem32 \div b32)

(* The tables of the square root estimate are left out: whatever even z    *)
(* they lead to (z <= a, where the code returns at once, is z = 2^h), the  *)
(* result is that of the last line, which is a Newton step from z, and is  *)
(* strictly within 2 of the root, as primitives.h:623 states it.           *)
softfloat_estimateSqrt32(h, expA, a) ==
  LET sq == a * 2^(IF expA % 2 = 1 THEN h - 1 ELSE h)
      NewtonStep(z) == ((a \div 2^(expA % 2)) * 2^(h - 1)) \div z + z \div 2
  IN {r \in 2^(h - 1)..(2^h - 1) : /\ (r > 2 => (r - 2) * (r - 2) < sq)
                                   /\ sq < (r + 2) * (r + 2)
                                   /\ \E y \in 2^(h - 2)..2^(h - 1) : r = NewtonStep(2 * y)}
=============================================================================
