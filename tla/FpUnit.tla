------------------------------- MODULE FpUnit -------------------------------
(***************************************************************************)
(* The library as its callers see it: a call with operands in the caller's *)
(* rounding mode, then the result and the raised flags.  Every operation   *)
(* of softfloat.h is a disjunct of one of the actions; the properties      *)
(* compare what it returns with FpSpec.                                    *)
(***************************************************************************)
EXTENDS FpSpec, Sequences

CONSTANTS
  Fmt,           \* format of the operations with one rounding
  FmaFmt,        \* format of mulAdd
  RootFmt,       \* format of f64_sqrt
  RemFmt,        \* format of the remainders
  Conv,          \* formats of the conversions to and from integers
  Narrow,        \* formats of the conversions between floats; the wide one of roundToInt
  EstimateWord,  \* bits of a word that quotients are estimated for
  Fractions,     \* fractions of the wide operands of conversions to integers
  Integers64     \* wide integers that are converted

(* What the algorithms rely on: an exponent, a fraction, at least three    *)
(* guard bits below it, and a word of two halves that holds them.          *)
IsFormat(f) ==
  /\ f.E \in Nat /\ f.E >= 2
  /\ f.F \in Nat /\ f.F >= 1
  /\ f.G \in Nat /\ f.G >= 3
IsEven(f) == word(f) % 2 = 0

FpAssumption ==
  /\ \A f \in {Fmt, FmaFmt, RootFmt, RemFmt} : IsFormat(f) /\ IsEven(f)
  /\ RootFmt.F >= RootFmt.G
  /\ word(Conv.d) = 2 * word(Conv.s) /\ Conv.d.F >= word(Conv.s) + Conv.rb - 1
  /\ Narrow.d.F >= Narrow.s.F + Narrow.s.G /\ bias(Narrow.d) > bias(Narrow.s) + Narrow.s.F
  /\ EstimateWord \in Nat /\ EstimateWord >= 2 /\ EstimateWord % 2 = 0
ASSUME FpAssumption

VARIABLES
  softfloat_roundingMode,
  call,          \* the operation that was called, or "none"
  ret            \* what it returned
vars == <<softfloat_roundingMode, call, ret>>
rm == softfloat_roundingMode

Patterns(f) == 0..(2 * signBit(f) - 1)
Wide == {a \in Patterns(Conv.d) : fracUI(Conv.d, a) \in Fractions}
None == [op |-> "none", args |-> << >>, rm |-> "near_even"]
Nothing == Ret(0, {})

Init == softfloat_roundingMode \in RoundingModes /\ call = None /\ ret = Nothing

(* The operation op is called on args and returns r. *)
Called(op, args, mode, r) ==
  /\ call' = [op |-> op, args |-> args, rm |-> mode]
  /\ ret' = r
  /\ UNCHANGED softfloat_roundingMode
Free == call = None

(* Operations that do not depend on the mode are called in one of them.    *)
AnyMode == rm = "near_even"

Return ==
  /\ call # None
  /\ call' = None /\ ret' = Nothing
  /\ UNCHANGED softfloat_roundingMode

Arithmetic ==
  /\ Free
  /\ \E a, b \in Patterns(Fmt) :
       \/ Called("f32_add", <<a, b>>, rm, f32_add(Fmt, a, b, rm))
       \/ Called("f64_add", <<a, b>>, rm, f64_add(Fmt, a, b, rm))
       \/ Called("f32_sub", <<a, b>>, rm, f32_sub(Fmt, a, b, rm))
       \/ Called("f64_sub", <<a, b>>, rm, f64_sub(Fmt, a, b, rm))
       \/ Called("f32_mul", <<a, b>>, rm, f32_mul(Fmt, a, b, rm))
       \/ Called("f64_mul", <<a, b>>, rm, f64_mul(Fmt, a, b, rm))
       \/ Called("f32_div", <<a, b>>, rm, f32_div(Fmt, a, b, rm))
       \/ Called("f64_div", <<a, b>>, rm, f64_div(Fmt, a, b, rm))

(* A root is computed for positive finite operands; others need no estimate. *)
Estimates(f, a, of) == IF a \in 1..(Inf(f, 0) - 1) THEN of ELSE {0}
Roots ==
  /\ Free
  /\ \/ \E a \in Patterns(Fmt) : \E est \in Estimates(Fmt, a, f32_sqrtEstimates(Fmt, a)) :
          Called("f32_sqrt", <<a, est>>, rm, f32_sqrt(Fmt, a, est, rm))
     \/ \E a \in Patterns(RootFmt) : \E est \in Estimates(RootFmt, a, f64_sqrtEstimates(RootFmt, a)) :
          Called("f64_sqrt", <<a, est>>, rm, f64_sqrt(RootFmt, a, est, rm))

(* The sign of b acts by that of the product alone, which a's stands for.  *)
Fusions ==
  /\ Free
  /\ \E a, c \in Patterns(FmaFmt), b \in 0..(signBit(FmaFmt) - 1) :
       \/ Called("f32_mulAdd", <<a, b, c>>, rm, f32_mulAdd(FmaFmt, a, b, c, rm))
       \/ Called("f64_mulAdd", <<a, b, c>>, rm, f64_mulAdd(FmaFmt, a, b, c, rm))

Remainders ==
  /\ Free
  /\ \E a, b \in Patterns(RemFmt) :
       \/ Called("f32_rem", <<a, b>>, rm, f32_rem(RemFmt, a, b, rm))
       \/ Called("f64_rem", <<a, b>>, rm, f64_rem(RemFmt, a, b, rm))

IntegralValues ==
  /\ Free
  /\ \E a \in Patterns(Narrow.d), exact \in BOOLEAN :
       \/ Called("f32_roundToInt", <<a, exact>>, rm, f32_roundToInt(Narrow.d, a, rm, exact))
       \/ Called("f64_roundToInt", <<a, exact>>, rm, f64_roundToInt(Narrow.d, a, rm, exact))

-----------------------------------------------------------------------------
FromFloat32 ==
  /\ Free
  /\ \E a \in Patterns(Conv.s), exact \in BOOLEAN :
       \/ Called("f32_to_i32", <<a, exact>>, rm, f32_to_i32(Conv, a, rm, exact))
       \/ Called("f32_to_ui32", <<a, exact>>, rm, f32_to_ui32(Conv, a, rm, exact))
       \/ Called("f32_to_i64", <<a, exact>>, rm, f32_to_i64(Conv, a, rm, exact))
       \/ Called("f32_to_ui64", <<a, exact>>, rm, f32_to_ui64(Conv, a, rm, exact))
       \/ Called("f32_to_i32_r_minMag", <<a, exact>>, "minMag", f32_to_i32_r_minMag(Conv, a, exact))
       \/ Called("f32_to_ui32_r_minMag", <<a, exact>>, "minMag", f32_to_ui32_r_minMag(Conv, a, exact))
       \/ Called("f32_to_i64_r_minMag", <<a, exact>>, "minMag", f32_to_i64_r_minMag(Conv, a, exact))
       \/ Called("f32_to_ui64_r_minMag", <<a, exact>>, "minMag", f32_to_ui64_r_minMag(Conv, a, exact))

FromFloat64 ==
  /\ Free
  /\ \E a \in Wide, exact \in BOOLEAN :
       \/ Called("f64_to_i32", <<a, exact>>, rm, f64_to_i32(Conv, a, rm, exact))
       \/ Called("f64_to_ui32", <<a, exact>>, rm, f64_to_ui32(Conv, a, rm, exact))
       \/ Called("f64_to_i64", <<a, exact>>, rm, f64_to_i64(Conv, a, rm, exact))
       \/ Called("f64_to_ui64", <<a, exact>>, rm, f64_to_ui64(Conv, a, rm, exact))
       \/ Called("f64_to_i32_r_minMag", <<a, exact>>, "minMag", f64_to_i32_r_minMag(Conv, a, exact))
       \/ Called("f64_to_ui32_r_minMag", <<a, exact>>, "minMag", f64_to_ui32_r_minMag(Conv, a, exact))
       \/ Called("f64_to_i64_r_minMag", <<a, exact>>, "minMag", f64_to_i64_r_minMag(Conv, a, exact))
       \/ Called("f64_to_ui64_r_minMag", <<a, exact>>, "minMag", f64_to_ui64_r_minMag(Conv, a, exact))

FromInteger ==
  /\ Free
  /\ \/ \E i \in minInt(w32(Conv))..maxInt(w32(Conv)) :
          \/ Called("i32_to_f32", <<i>>, rm, i32_to_f32(Conv, i, rm))
          \/ Called("i32_to_f64", <<i>>, rm, Ret(i32_to_f64(Conv, i), {}))
     \/ \E u \in 0..maxUInt(w32(Conv)) :
          \/ Called("ui32_to_f32", <<u>>, rm, ui32_to_f32(Conv, u, rm))
          \/ Called("ui32_to_f64", <<u>>, rm, Ret(ui32_to_f64(Conv, u), {}))
     \/ \E i \in {AsSigned(w64(Conv), u) : u \in Integers64} :
          \/ Called("i64_to_f32", <<i>>, rm, i64_to_f32(Conv, i, rm))
          \/ Called("i64_to_f64", <<i>>, rm, i64_to_f64(Conv, i, rm))
     \/ \E u \in Integers64 :
          \/ Called("ui64_to_f32", <<u>>, rm, ui64_to_f32(Conv, u, rm))
          \/ Called("ui64_to_f64", <<u>>, rm, ui64_to_f64(Conv, u, rm))

BetweenFloats ==
  /\ Free
  /\ \/ \E a \in Patterns(Narrow.s) : Called("f32_to_f64", <<a>>, rm, f32_to_f64(Narrow, a))
     \/ \E a \in Patterns(Narrow.d) : Called("f64_to_f32", <<a>>, rm, f64_to_f32(Narrow, a, rm))

Comparisons ==
  /\ Free /\ AnyMode
  /\ \E a, b \in Patterns(Fmt) :
       LET Comparison(op, r) == Called(op, <<a, b>>, rm, r)
       IN \/ Comparison("f32_eq", f32_eq(Fmt, a, b))
          \/ Comparison("f64_eq", f64_eq(Fmt, a, b))
          \/ Comparison("f32_eq_signaling", f32_eq_signaling(Fmt, a, b))
          \/ Comparison("f64_eq_signaling", f64_eq_signaling(Fmt, a, b))
          \/ Comparison("f32_le", f32_le(Fmt, a, b))
          \/ Comparison("f64_le", f64_le(Fmt, a, b))
          \/ Comparison("f32_le_quiet", f32_le_quiet(Fmt, a, b))
          \/ Comparison("f64_le_quiet", f64_le_quiet(Fmt, a, b))
          \/ Comparison("f32_lt", f32_lt(Fmt, a, b))
          \/ Comparison("f64_lt", f64_lt(Fmt, a, b))
          \/ Comparison("f32_lt_quiet", f32_lt_quiet(Fmt, a, b))
          \/ Comparison("f64_lt_quiet", f64_lt_quiet(Fmt, a, b))

Classes ==
  /\ Free /\ AnyMode
  /\ \E a \in Patterns(Fmt) :
       \/ Called("f32_classify", <<a>>, rm, Ret(f32_classify(Fmt, a), {}))
       \/ Called("f64_classify", <<a>>, rm, Ret(f64_classify(Fmt, a), {}))

(* The divisor has its top bit set, as the comment of the function asks. *)
QuotientEstimates ==
  /\ Free /\ AnyMode
  /\ \E b \in 2^(EstimateWord - 1)..(2^EstimateWord - 1), a64, a0 \in 0..(2^EstimateWord - 1) :
       Called("softfloat_estimateDiv128To64", <<a64, a0, b>>, rm,
              Ret(softfloat_estimateDiv128To64(EstimateWord, a64, a0, b), {}))

Next ==
  \/ QuotientEstimates
  \/ Arithmetic \/ Roots \/ Fusions \/ Remainders \/ IntegralValues
  \/ FromFloat32 \/ FromFloat64 \/ FromInteger \/ BetweenFloats
  \/ Comparisons \/ Classes \/ Return

Spec == Init /\ [][Next]_vars

-----------------------------------------------------------------------------
Is(ops) == call.op \in ops
Arg(i) == call.args[i]

(* Addition, subtraction, multiplication, division and square root return  *)
(* the exact result rounded once in the rounding mode, with the flags that *)
(* IEEE 754 asks for, for all operands: the jammed bits, the estimated     *)
(* quotients and the two-word products never change a rounding; nor does   *)
(* the table-driven estimate of a root, whichever value within 2 of it the *)
(* estimate's last step gives, although f64_sqrt adds one too little to    *)
(* the remainder each time it lowers a root.                               *)
ArithmeticRounds ==
  /\ Is({"f32_add", "f64_add"}) => ret = AddSpec(Fmt, Arg(1), Arg(2), call.rm)
  /\ Is({"f32_sub", "f64_sub"}) => ret = SubSpec(Fmt, Arg(1), Arg(2), call.rm)
  /\ Is({"f32_mul", "f64_mul"}) => ret = MulSpec(Fmt, Arg(1), Arg(2), call.rm)
  /\ Is({"f32_div", "f64_div"}) => ret = DivSpec(Fmt, Arg(1), Arg(2), call.rm)
  /\ Is({"f32_sqrt"}) => ret = SqrtSpec(Fmt, Arg(1), call.rm)
  /\ Is({"f64_sqrt"}) => ret = SqrtSpec(RootFmt, Arg(1), call.rm)

(* primitives.h:612: the estimated quotient of two words by one is the     *)
(* truncated quotient or at most 2 above it, and the largest word when the *)
(* quotient does not fit.  Division and remainder correct it by these two. *)
EstimateClose ==
  Is({"softfloat_estimateDiv128To64"}) =>
    LET q == (Arg(1) * 2^EstimateWord + Arg(2)) \div Arg(3)
    IN IF q >= 2^EstimateWord THEN ret.ui = 2^EstimateWord - 1 ELSE ret.ui \in q..(q + 2)

(* mulAdd rounds a * b + c once, cancellation and subnormals included.     *)
FusedRounds ==
  Is({"f32_mulAdd", "f64_mulAdd"}) =>
    ret = MulAddSpec(FmaFmt, Arg(1), Arg(2), Arg(3), call.rm)

(* The remainder is exact however many quotient bits the loop skips, and a *)
(* tie takes the even quotient.                                            *)
RemainderExact ==
  Is({"f32_rem", "f64_rem"}) => ret = RemSpec(RemFmt, Arg(1), Arg(2))

-----------------------------------------------------------------------------
(* Conversions: the promise of each, by its operand and result.            *)
Signed32(f, out) == ToIntSpec(f, Arg(1), call.rm, Arg(2), minInt(w32(Conv)), maxInt(w32(Conv)), out)
Signed64(f, out) == ToIntSpec(f, Arg(1), call.rm, Arg(2), minInt(w64(Conv)), maxInt(w64(Conv)), out)
Unsigned(f, w)   == ToIntSpec(f, Arg(1), call.rm, Arg(2), 0, maxUInt(w), maxUInt(w))
Extreme(f, w, negative) == IF negative THEN minInt(w) ELSE maxInt(w)
Negatively(f) == signUI(f, Arg(1)) = 1
NegativeNumber(f) == Negatively(f) /\ ~isNaNUI(f, Arg(1))

(* A conversion rounds once in its mode; what does not fit raises invalid  *)
(* only, and gives the largest or smallest integer.                        *)
ConversionRounds ==
  LET s == Conv.s
      d == Conv.d
      n == w32(Conv)
      l == w64(Conv)
  IN /\ Is({"f32_to_i32"}) => ret = Signed32(s, Extreme(s, n, Negatively(s)))
     /\ Is({"f64_to_i32"}) => ret = Signed32(d, Extreme(d, n, Negatively(d)))
     /\ Is({"f32_to_i64"}) => ret = Signed64(s, Extreme(s, l, Negatively(s)))
     /\ Is({"f64_to_i64"}) => ret = Signed64(d, Extreme(d, l, Negatively(d)))
     /\ Is({"f32_to_i32_r_minMag"}) => ret = Signed32(s, Extreme(s, n, NegativeNumber(s)))
     /\ Is({"f64_to_i32_r_minMag"}) => ret = Signed32(d, Extreme(d, n, NegativeNumber(d)))
     /\ Is({"f32_to_i64_r_minMag"}) => ret = Signed64(s, Extreme(s, l, NegativeNumber(s)))
     /\ Is({"f64_to_i64_r_minMag"}) => ret = Signed64(d, Extreme(d, l, NegativeNumber(d)))
     /\ Is({"f32_to_ui32", "f32_to_ui32_r_minMag"}) => ret = Unsigned(s, n)
     /\ Is({"f64_to_ui32", "f64_to_ui32_r_minMag"}) => ret = Unsigned(d, n)
     /\ Is({"f32_to_ui64", "f32_to_ui64_r_minMag"}) => ret = Unsigned(s, l)
     /\ Is({"f64_to_ui64", "f64_to_ui64_r_minMag"}) => ret = Unsigned(d, l)
     /\ Is({"i32_to_f32", "ui32_to_f32", "i64_to_f32", "ui64_to_f32"}) =>
          ret = FromIntSpec(s, Arg(1), call.rm)
     /\ Is({"i32_to_f64", "ui32_to_f64", "i64_to_f64", "ui64_to_f64"}) =>
          ret = FromIntSpec(d, Arg(1), call.rm)
     /\ Is({"f32_to_f64"}) => ret = ToFloatSpec(Narrow.s, Narrow.d, Arg(1), call.rm)
     /\ Is({"f64_to_f32"}) => ret = ToFloatSpec(Narrow.d, Narrow.s, Arg(1), call.rm)
     /\ Is({"f32_roundToInt", "f64_roundToInt"}) =>
          ret = RoundToIntSpec(Narrow.d, Arg(1), call.rm, Arg(2))

(* The comparisons order by value: both zeros are equal, a NaN is          *)
(* unordered, and only the quiet ones let a quiet NaN pass.  The classes   *)
(* are numbered in that order, the two of NaNs last.                       *)
ComparisonOrders ==
  LET x == Ordinal(Fmt, Arg(1))
      y == Ordinal(Fmt, Arg(2))
      compared(quiet, Holds) == CompareSpec(Fmt, Arg(1), Arg(2), quiet, Holds)
  IN /\ Is({"f32_eq", "f64_eq"})                     => ret = compared(TRUE, x = y)
     /\ Is({"f32_eq_signaling", "f64_eq_signaling"}) => ret = compared(FALSE, x = y)
     /\ Is({"f32_le", "f64_le"})                     => ret = compared(FALSE, x <= y)
     /\ Is({"f32_le_quiet", "f64_le_quiet"})         => ret = compared(TRUE, x <= y)
     /\ Is({"f32_lt", "f64_lt"})                     => ret = compared(FALSE, x < y)
     /\ Is({"f32_lt_quiet", "f64_lt_quiet"})         => ret = compared(TRUE, x < y)
     /\ Is({"f32_classify", "f64_classify"})         => ret = ClassSpec(Fmt, Arg(1))
=============================================================================
