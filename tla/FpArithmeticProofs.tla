-------------------------- MODULE FpArithmeticProofs --------------------------
(***************************************************************************)
(* Proofs about SoftFloat, continued: quotients, square roots and fused    *)
(* multiplications and additions, and that the operations of FpUnit's      *)
(* arithmetic round their exact results once, for formats of any width.    *)
(***************************************************************************)
EXTENDS FpProofs

-----------------------------------------------------------------------------
(* f32_div and f64_div.                                                    *)

\* The dividend that is divided by the divisor's word, and the shift it costs.
IsDividend(sA, sB, u, X, j) ==
  \/ sB <= sA /\ X = sA * u /\ j = 1
  \/ sA < sB /\ X = sA * (2 * u) /\ j = 2

\* e is above a multiple of u by more than it is above q, the quotient of n by d.
IsAbove(n, d, q, e, u) == q = n \div d /\ e - q < e % u

\* A quotient that is at most as far above the truncated one as its guard bits are above a multiple
\* of half a last place stands for the exact one.
LEMMA StandsAbove ==
  ASSUME NEW n \in Nat, NEW d \in Nat \ {0}, NEW u \in Nat \ {0},
         NEW q \in Nat, NEW e \in Nat, q <= e, IsAbove(n, d, q, e, u)
  PROVE  Stands(e, n, d, u)
<1>1. PICK r \in 0..(d - 1) : n = (d * q) + r
  <2>1. PICK p \in Nat, r \in 0..(d - 1) : p = n \div d /\ n = (d * p) + r
    BY DivNat
  <2>2. p = q
    BY <2>1, Zenon DEF IsAbove
  <2>3. QED
    BY <2>1, <2>2
<1>2. PICK c \in Nat, m \in 0..(u - 1) : m = e % u /\ e = (u * c) + m
  <2>1. PICK c \in Nat, m \in 0..(u - 1) : c = e \div u /\ m = e % u /\ e = (u * c) + m
    BY DivNat
  <2>2. QED
    BY <2>1
<1>3. PICK y \in Nat : y = u * c /\ y < q /\ e < y + u
  <2>1. e - q < m
    BY <1>2, Zenon DEF IsAbove
  <2>2. PICK y \in Nat : y = u * c
    OBVIOUS
  <2>3. QED
    BY <1>2, <2>1, <2>2
<1>4. ASSUME NEW t \in Nat
      PROVE  (n < (t * u) * d <=> e < t * u) /\ (n = (t * u) * d <=> e = t * u)
  <2>1. PICK z \in Nat : z = t * u
    OBVIOUS
  <2>2. CASE t <= c
    <3>1. u * t <= u * c /\ u * t = t * u
      BY <2>2, ProductMonotonic
    <3>2. z + 1 <= q
      BY <1>3, <2>1, <3>1
    <3>3. d * (z + 1) <= d * q
      BY <3>2, ProductMonotonic
    <3>4. PICK x \in Nat, v \in Nat : x = z * d /\ v = d * q
      OBVIOUS
    <3>5. d * (z + 1) = x + d
      BY <3>4
    <3>6. x < n /\ z < e
      BY <1>1, <1>3, <3>2, <3>3, <3>4, <3>5
    <3>7. QED
      BY <2>1, <3>4, <3>6
  <2>3. CASE c + 1 <= t
    <3>1. u * (c + 1) <= u * t /\ u * t = t * u /\ u * (c + 1) = y + u
      BY <1>3, <2>3, ProductMonotonic
    <3>2. q + 1 <= z /\ e < z
      BY <1>3, <2>1, <3>1
    <3>3. d * (q + 1) <= d * z
      BY <3>2, ProductMonotonic
    <3>4. PICK x \in Nat, v \in Nat : x = z * d /\ v = d * q
      OBVIOUS
    <3>5. d * (q + 1) = v + d /\ d * z = x
      BY <3>4
    <3>6. n < x
      BY <1>1, <3>3, <3>4, <3>5
    <3>7. QED
      BY <2>1, <3>2, <3>4, <3>6
  <2>4. QED
    BY <2>2, <2>3
<1>5. QED
  BY <1>4 DEF Stands

\* The quotient of two significands has its leading bit in its place.
LEMMA QuotientLeads ==
  ASSUME NEW f, NEW h \in Nat \ {0}, NEW u \in Nat \ {0}, NEW b \in Nat, Sizes(f, h, u, b),
         NEW sA \in h..((2 * h) - 1), NEW sB \in h..((2 * h) - 1), NEW X \in Nat, NEW j, IsDividend(sA, sB, u, X, j),
         NEW g \in Nat, g = 2 * u, NEW W \in Nat, W = 4 * (h * g), NEW Y \in Nat, Y = sB * (2 * g),
         NEW s \in Nat, Stands(s, X * W, Y, u)
  PROVE  IsLeading(f, s)
<1>1. PICK y \in Nat : y = h * u /\ (2 * h) * u = 2 * y /\ (4 * h) * u = 4 * y /\ h * g = 2 * y
  OBVIOUS
<1>2. ((2 * h) * u) * Y <= X * W /\ X * W < ((4 * h) * u) * Y
  <2>1. PICK G \in Nat \ {0} : G = (h * u) * g
    <3>1. h * u \in Nat \ {0} /\ g \in Nat \ {0}
      OBVIOUS
    <3>2. (h * u) * g \in Nat \ {0}
      BY <3>1
    <3>3. QED
      BY <3>2
  <2>2. ((2 * h) * u) * Y = (4 * G) * sB /\ ((4 * h) * u) * Y = (8 * G) * sB
    <3>1. ((2 * h) * u) * (sB * (2 * g)) = (4 * ((h * u) * g)) * sB
      OBVIOUS
    <3>2. ((4 * h) * u) * (sB * (2 * g)) = (8 * ((h * u) * g)) * sB
      OBVIOUS
    <3>3. QED
      BY <2>1, <3>1, <3>2
  <2>3. CASE sB <= sA
    <3>1. X * W = (4 * G) * sA
      <4>1. X = sA * u
        BY <2>3 DEF IsDividend
      <4>2. (sA * u) * (4 * (h * g)) = (4 * ((h * u) * g)) * sA
        OBVIOUS
      <4>3. QED
        BY <2>1, <4>1, <4>2
    <3>2. sB <= sA /\ sA + 1 <= 2 * sB
      BY <2>3
    <3>3. (4 * G) * sB <= (4 * G) * sA /\ (4 * G) * (sA + 1) <= (4 * G) * (2 * sB)
      BY <3>2, ProductMonotonic
    <3>4. PICK x \in Nat, z \in Nat : x = (4 * G) * sA /\ z = (4 * G) * sB
      OBVIOUS
    <3>5. (4 * G) * (sA + 1) = x + (4 * G) /\ (4 * G) * (2 * sB) = 2 * z /\ (8 * G) * sB = 2 * z
      BY <3>4
    <3>6. QED
      BY <2>2, <3>1, <3>3, <3>4, <3>5
  <2>4. CASE sA < sB
    <3>1. X * W = (8 * G) * sA
      <4>1. X = sA * (2 * u)
        BY <2>4 DEF IsDividend
      <4>2. (sA * (2 * u)) * (4 * (h * g)) = (8 * ((h * u) * g)) * sA
        OBVIOUS
      <4>3. QED
        BY <2>1, <4>1, <4>2
    <3>2. sB <= 2 * sA /\ sA + 1 <= sB
      BY <2>4
    <3>3. (4 * G) * sB <= (4 * G) * (2 * sA) /\ (8 * G) * (sA + 1) <= (8 * G) * sB
      BY <3>2, ProductMonotonic
    <3>4. PICK x \in Nat, z \in Nat : x = (8 * G) * sA /\ z = (8 * G) * sB
      OBVIOUS
    <3>5. (8 * G) * (sA + 1) = x + (8 * G) /\ (4 * G) * (2 * sA) = x
      BY <3>4
    <3>6. QED
      BY <2>2, <3>1, <3>3, <3>4, <3>5
  <2>5. QED
    BY <2>3, <2>4
<1>3. PICK N \in Nat, L \in Nat, H \in Nat : N = X * W /\ L = ((2 * h) * u) * Y /\ H = ((4 * h) * u) * Y /\ L <= N /\ N < H
  BY <1>2
<1>4. (N < L <=> s < (2 * h) * u) /\ (N < H <=> s < (4 * h) * u)
  <2>1. 2 * h \in Nat /\ 4 * h \in Nat
    OBVIOUS
  <2>2. QED
    BY <1>3, <2>1 DEF Stands
<1>5. 2 * y <= s /\ s < 4 * y
  BY <1>1, <1>3, <1>4
<1>6. 2^(f.F + f.G) = 2 * y /\ top(f) = 4 * y
  <2>1. 2^(f.F + f.G) = h * (2 * u) /\ top(f) = 2 * (h * (2 * u))
    BY DEF Sizes
  <2>2. QED
    BY <1>1, <2>1
<1>7. QED
  BY <1>5, <1>6 DEF IsLeading

\* The quotient of two magnitudes, in units of the quotient of their significands.
LEMMA QuotientUnits ==
  ASSUME NEW f, IsFormat(f), NEW h \in Nat \ {0}, NEW u \in Nat \ {0}, NEW b \in Nat, Sizes(f, h, u, b),
         NEW mA \in Nat, NEW sA \in Nat, NEW kA \in Int, Scales(mA, sA, kA - 1),
         NEW mB \in Nat, NEW sB \in Nat, NEW kB \in Int, Scales(mB, sB, kB - 1),
         NEW X \in Nat, NEW j, IsDividend(sA, sB, u, X, j),
         NEW g \in Nat, g = 2 * u, NEW W \in Nat, W = 4 * (h * g), NEW Y \in Nat, Y = sB * (2 * g)
  PROVE  InUnits(f, mA * Unity(f), mB, X * W, Y, kA - kB + bias(f) - j)
<1>1. g = 2^f.G
  BY DEF Sizes
<1>2. PICK B \in Nat \ {0} : Unity(f) = h * B /\ 2^bias(f) = 2 * B /\ bias(f) \in Nat
  BY UnityIs
<1>3. PICK U \in Nat : U = Unity(f) /\ U = h * B
  BY <1>2
<1>4. Scales(mA * sB, sA * mB, (kA - 1) + (-(kB - 1)))
  <2>1. kA - 1 \in Int /\ kB - 1 \in Int /\ -(kB - 1) \in Int
    OBVIOUS
  <2>2. Scales(sB, mB, -(kB - 1))
    BY <2>1, ScalesTurned
  <2>3. QED
    BY <2>1, <2>2, ScalesProduct
<1>5. PICK v \in Nat, J \in Nat : /\ X = sA * v /\ j \in Nat /\ J = 2^j
                                  /\ (U * (2 * (g * g))) * J = (v * W) * (2 * B)
  <2>1. CASE sB <= sA
    <3>1. X = sA * u /\ j = 1
      BY <2>1 DEF IsDividend
    <3>2. ((h * B) * (2 * ((2 * u) * (2 * u)))) * 2 = (u * (4 * (h * (2 * u)))) * (2 * B)
      OBVIOUS
    <3>3. QED
      BY <1>3, <3>1, <3>2, PowerOne
  <2>2. CASE sA < sB
    <3>1. X = sA * (2 * u) /\ j = 2
      BY <2>2 DEF IsDividend
    <3>2. ((h * B) * (2 * (g * g))) * 4 = (g * (4 * (h * g))) * (2 * B)
      OBVIOUS
    <3>3. 2^2 = 4
      <4>1. 2^(1 + 1) = 2 * 2^1 /\ 1 + 1 = 2
        BY PowerNext
      <4>2. QED
        BY <4>1, PowerOne
    <3>4. QED
      BY <1>3, <3>1, <3>2, <3>3
  <2>3. QED
    BY <2>1, <2>2
<1>6. Scales(U * (2 * (g * g)), v * W, bias(f) - j)
  <2>1. (U * (2 * (g * g))) * 2^j = (v * W) * 2^bias(f)
    BY <1>2, <1>5
  <2>2. QED
    BY <1>2, <1>5, <2>1 DEF Scales
<1>7. Scales((mA * sB) * (U * (2 * (g * g))), (sA * mB) * (v * W), ((kA - 1) + (-(kB - 1))) + (bias(f) - j))
  <2>1. mA * sB \in Nat /\ sA * mB \in Nat /\ U * (2 * (g * g)) \in Nat /\ v * W \in Nat
    OBVIOUS
  <2>2. (kA - 1) + (-(kB - 1)) \in Int /\ bias(f) - j \in Int
    BY <1>2, <1>5
  <2>3. QED
    BY <1>4, <1>6, <2>1, <2>2, ScalesProduct
<1>8. (mA * sB) * (U * (2 * (g * g))) = (mA * U) * (Y * g)
  <2>1. (mA * sB) * (U * (2 * (g * g))) = (mA * U) * ((sB * (2 * g)) * g)
    OBVIOUS
  <2>2. QED
    BY <2>1
<1>9. (sA * mB) * (v * W) = (X * W) * mB
  <2>1. (sA * mB) * (v * W) = ((sA * v) * W) * mB
    OBVIOUS
  <2>2. QED
    BY <1>5, <2>1
<1>10. ((kA - 1) + (-(kB - 1))) + (bias(f) - j) = kA - kB + bias(f) - j
  BY <1>2, <1>5
<1>11. QED
  BY <1>1, <1>3, <1>7, <1>8, <1>9, <1>10 DEF InUnits

\* The quotient of two finite operands, rounded once.
LEMMA QuotientRounds ==
  ASSUME NEW f, IsFormat(f), NEW h \in Nat \ {0}, NEW u \in Nat \ {0}, NEW b \in Nat, Sizes(f, h, u, b),
         NEW sign, NEW mode, IsMode(sign, mode), NEW x, NEW y,
         NEW sA \in h..((2 * h) - 1), NEW kA \in Int, IsOperand(f, x, h, kA, sA),
         NEW sB \in h..((2 * h) - 1), NEW kB \in Int, IsOperand(f, y, h, kB, sB),
         NEW X \in Nat, NEW j \in Int, IsDividend(sA, sB, u, X, j),
         NEW g \in Nat, g = 2 * u, NEW W \in Nat, W = 4 * (h * g), NEW Y \in Nat \ {0}, Y = sB * (2 * g),
         NEW s \in Nat, Stands(s, X * W, Y, u)
  PROVE  softfloat_roundPackToF32(f, sign, kA - kB + bias(f) - j, s, mode)
           = RoundedRatio(f, sign, Mag(f, x) * Unity(f), Mag(f, y), mode)
<1>1. IsLeading(f, s)
  BY QuotientLeads
<1>2. PICK mA \in Nat, mB \in Nat \ {0} : mA = Mag(f, x) /\ mB = Mag(f, y) /\ Scales(mA, sA, kA - 1) /\ Scales(mB, sB, kB - 1)
  BY DEF IsOperand
<1>3. InUnits(f, mA * Unity(f), mB, X * W, Y, kA - kB + bias(f) - j)
  <2>1. sA \in Nat /\ sB \in Nat
    OBVIOUS
  <2>2. QED
    BY <1>2, <2>1, QuotientUnits
<1>4. PICK n \in Nat, N \in Nat, k \in Int : n = X * W /\ N = mA * Unity(f) /\ k = kA - kB + bias(f) - j
  <2>1. PICK B \in Nat \ {0} : Unity(f) = h * B /\ bias(f) \in Nat
    BY UnityIs
  <2>2. h * B \in Nat
    OBVIOUS
  <2>3. mA * Unity(f) \in Nat /\ X * W \in Nat
    BY <2>1, <2>2
  <2>4. kA - kB + bias(f) - j \in Int
    BY <2>1
  <2>5. QED
    BY <2>3, <2>4
<1>5. Stands(s, n, Y, 2^(f.G - 1)) /\ InUnits(f, N, mB, n, Y, k)
  <2>1. 2^(f.G - 1) = u
    BY DEF Sizes
  <2>2. QED
    BY <1>3, <1>4, <2>1
<1>6. softfloat_roundPackToF32(f, sign, k, s, mode) = RoundedRatio(f, sign, N, mB, mode)
  BY <1>1, <1>5, RoundPack
<1>7. QED
  BY <1>2, <1>4, <1>6

\* The loop that adds step while rem is negative ends after two rounds at most, with the rest of t.
LEMMA LoopEnds ==
  ASSUME NEW w, WordLaws(w), NEW rem, IsPair(w, rem), NEW step, IsPair(w, step),
         NEW d \in Int, Value(w, step) = d, NEW t \in Int, Value(w, rem) = t % Double(w),
         -(2 * d) <= t, t < d, -Double(w) <= 2 * t, 2 * d <= Double(w)
  PROVE  \E n \in 0..2 : /\ t + (n * d) \in 0..(d - 1)
                         /\ RemAfter(w, rem, step)[n] = PairOf(w, t + (n * d))
                         /\ \A most \in Nat : n <= most => LastRound(w, rem, step, most) = n
<1> DEFINE R    == RemAfter(w, rem, step)
           M    == Double(w)
<1>1. M \in Nat \ {0}
  BY WordSizes
<1>2. R[0] = rem /\ R[1] = softfloat_add128(w, R[0], step) /\ R[2] = softfloat_add128(w, R[1], step)
  <2>1. \A n \in Nat : R[n] = IF n = 0 THEN rem ELSE softfloat_add128(w, R[n - 1], step)
    BY RemAfterRounds
  <2> HIDE DEF R
  <2>2. QED
    BY <2>1
<1> HIDE DEF R, M
<1>3. IsPair(w, R[0]) /\ Value(w, R[0]) = t % M
  BY <1>2 DEF M
<1>4. IsPair(w, R[1]) /\ Value(w, R[1]) = (t + d) % M
  BY <1>2, <1>3, NextRem DEF M
<1>5. IsPair(w, R[2]) /\ Value(w, R[2]) = ((t + d) + d) % M
  <2>1. t + d \in Int
    OBVIOUS
  <2>2. QED
    BY <1>2, <1>4, <2>1, NextRem DEF M
<1>6. ASSUME NEW n \in 0..2, ~Negative(w, R[n]), \A m \in 0..(n - 1) : Negative(w, R[m])
      PROVE  \A most \in Nat : n <= most => LastRound(w, rem, step, most) = n
  <2>1. SUFFICES ASSUME NEW most \in Nat, n <= most PROVE LastRound(w, rem, step, most) = n
    OBVIOUS
  <2>2. n \in 0..most
    BY <2>1
  <2>3. QED
    BY <1>6, <2>2, LastRoundIs DEF R
<1>7. -M <= 2 * t /\ 2 * t < M /\ (Negative(w, R[0]) <=> t < 0) /\ (t >= 0 => R[0] = PairOf(w, t))
  <2>1. -M <= 2 * t /\ 2 * t < M
    BY <1>1 DEF M
  <2>2. QED
    BY <1>3, <2>1, SignedPair DEF M
<1>8. CASE t >= 0
  <2>1. t + (0 * d) \in 0..(d - 1) /\ t + (0 * d) = t
    BY <1>8
  <2>2. ~Negative(w, R[0]) /\ \A m \in 0..(0 - 1) : Negative(w, R[m])
    BY <1>7, <1>8
  <2>3. QED
    BY <1>6, <1>7, <1>8, <2>1, <2>2 DEF R
<1>9. CASE t < 0 /\ t + d >= 0
  <2>1. t + (1 * d) \in 0..(d - 1) /\ t + (1 * d) = t + d /\ t + d \in Int
    BY <1>9
  <2>2. -M <= 2 * (t + d) /\ 2 * (t + d) < M
    BY <1>1, <1>9 DEF M
  <2>3. (Negative(w, R[1]) <=> t + d < 0) /\ (t + d >= 0 => R[1] = PairOf(w, t + d))
    BY <1>4, <2>1, <2>2, SignedPair DEF M
  <2>4. ~Negative(w, R[1]) /\ \A m \in 0..(1 - 1) : Negative(w, R[m])
    BY <1>7, <1>9, <2>3
  <2>5. QED
    BY <1>6, <1>9, <2>1, <2>3, <2>4 DEF R
<1>10. CASE t + d < 0
  <2>1. t + (2 * d) \in 0..(d - 1) /\ t + (2 * d) = (t + d) + d /\ t + d \in Int /\ (t + d) + d \in Int
    BY <1>10
  <2>2. -M <= 2 * (t + d) /\ 2 * (t + d) < M /\ -M <= 2 * ((t + d) + d) /\ 2 * ((t + d) + d) < M
    BY <1>1, <1>10 DEF M
  <2>3. Negative(w, R[1])
    BY <1>4, <1>10, <2>1, <2>2, SignedPair DEF M
  <2>4. ~Negative(w, R[2]) /\ R[2] = PairOf(w, (t + d) + d)
    BY <1>5, <2>1, <2>2, SignedPair DEF M
  <2>5. \A m \in 0..(2 - 1) : Negative(w, R[m])
    BY <1>7, <1>10, <2>3
  <2>6. QED
    BY <1>6, <2>1, <2>4, <2>5 DEF R
<1>11. QED
  BY <1>8, <1>9, <1>10

\* q is the truncated quotient.
IsQuotient(q, n, d) == q = n \div d

\* The first word of X divided by Y, corrected from an estimate that is at most two above it.
LEMMA LowerQuotientIs ==
  ASSUME NEW w, WordLaws(w), NEW W \in Nat \ {0}, W = 2^w, W >= 4, NEW X \in Nat, X < W, NEW Y \in Nat \ {0}, Y < W,
         NEW N \in Nat, Times(X, W, N), NEW q \in Nat, IsQuotient(q, N, Y), NEW e \in Nat, e < W, q <= e, e <= q + 2
  PROVE  LowerQuotient(w, e, softfloat_sub128(w, Pair(X, 0), softfloat_mul64To128(w, Y, e)), Y) = JamOf(N, Y)
<1> DEFINE rem  == softfloat_sub128(w, Pair(X, 0), softfloat_mul64To128(w, Y, e))
           step == Pair(0, Y)
<1>1. N = X * W
  BY DEF Times
<1>2. PICK r \in 0..(Y - 1), v \in Nat : N = v + r /\ v = Y * q /\ r = N % Y /\ q = N \div Y
  <2>1. PICK p \in Nat, r \in 0..(Y - 1) : p = N \div Y /\ r = N % Y /\ N = (Y * p) + r
    BY DivNat
  <2>2. p = q
    BY <2>1, Zenon DEF IsQuotient
  <2>3. Y * q \in Nat
    OBVIOUS
  <2>4. QED
    BY <2>1, <2>2, <2>3
<1>3. PICK t \in Int : t = N - (Y * e) /\ -(2 * Y) <= t /\ t < Y
  <2>1. Y * q <= Y * e /\ Y * e <= Y * (q + 2)
    BY ProductMonotonic
  <2>2. PICK z \in Int : z = Y * e
    OBVIOUS
  <2>3. Y * (q + 2) = v + (2 * Y)
    BY <1>2
  <2>4. QED
    BY <1>2, <2>1, <2>2, <2>3
<1>4. IsPair(w, step) /\ Value(w, step) = Y
  <2>1. 0 \in 0..(2^w - 1) /\ Y \in 0..(2^w - 1)
    OBVIOUS
  <2>2. QED
    BY <2>1 DEF IsPair, Value, Pair
<1>5. IsPair(w, rem) /\ Value(w, rem) = t % Double(w)
  <2>1. IsPair(w, Pair(X, 0)) /\ Value(w, Pair(X, 0)) = N
    <3>1. 0 \in 0..(2^w - 1) /\ X \in 0..(2^w - 1)
      OBVIOUS
    <3>2. QED
      BY <1>1, <3>1 DEF IsPair, Value, Pair
  <2>2. IsPair(w, softfloat_mul64To128(w, Y, e)) /\ Value(w, softfloat_mul64To128(w, Y, e)) = Y * e
    <3>1. Y \in 0..(2^w - 1) /\ e \in 0..(2^w - 1)
      OBVIOUS
    <3>2. QED
      BY <3>1, Mul64To128
  <2>3. IsPair(w, rem) /\ Value(w, rem) = (N - (Y * e)) % Double(w)
    BY <2>1, <2>2, Sub128
  <2>4. QED
    BY <1>3, <2>3
<1>6. -Double(w) <= 2 * t /\ 2 * Y <= Double(w)
  <2>1. W * 4 <= W * W
    BY ProductMonotonic
  <2>2. PICK D \in Nat : D = Double(w) /\ D = W * W
    BY DEF Double
  <2>3. 4 * W <= D
    BY <2>1, <2>2
  <2>4. QED
    BY <1>3, <2>2, <2>3
<1>7. LowerQuotient(w, e, rem, Y) =
        Jammed(e - LastRound(w, rem, step, e), RemAfter(w, rem, step)[LastRound(w, rem, step, e)].lo # 0)
  BY DEF LowerQuotient
<1> HIDE DEF rem, step
<1>8. PICK n \in 0..2 : /\ t + (n * Y) \in 0..(Y - 1)
                        /\ RemAfter(w, rem, step)[n] = PairOf(w, t + (n * Y))
                        /\ \A most \in Nat : n <= most => LastRound(w, rem, step, most) = n
  <2>1. Y \in Int
    OBVIOUS
  <2>2. QED
    BY <1>3, <1>4, <1>5, <1>6, <2>1, LoopEnds
<1>9. n = e - q /\ t + (n * Y) = r
  <2>1. PICK s \in 0..(Y - 1) : s = t + (n * Y)
    BY <1>8
  <2>2. N = (Y * (e - n)) + s
    <3>1. PICK z \in Int, x \in Int : z = Y * e /\ x = n * Y
      OBVIOUS
    <3>2. Y * (e - n) = z - x
      BY <3>1
    <3>3. QED
      BY <1>3, <2>1, <3>1, <3>2
  <2>3. N \div Y = e - n /\ N % Y = s
    <3>1. N \in Int /\ e - n \in Int /\ Y \in Nat \ {0}
      OBVIOUS
    <3>2. QED
      BY <2>2, <3>1, DivModUnique
  <2>4. QED
    BY <1>2, <2>1, <2>3
<1>10. LastRound(w, rem, step, e) = n /\ e - n = q
  <2>1. n <= e /\ e \in Nat /\ e - n = q
    BY <1>9
  <2>2. QED
    BY <1>8, <2>1
<1>11. PairOf(w, r).lo = r
  <2>1. r % W = r
    <3>1. r = (W * 0) + r /\ r \in Int /\ 0 \in Int /\ r \in 0..(W - 1)
      OBVIOUS
    <3>2. QED
      BY <3>1, DivModUnique
  <2>2. QED
    BY <2>1 DEF PairOf, Pair
<1>12. LowerQuotient(w, e, rem, Y) = Jammed(q, r # 0)
  <2>1. RemAfter(w, rem, step)[n] = PairOf(w, r)
    BY <1>8, <1>9
  <2>2. QED
    BY <1>7, <1>10, <1>11, <2>1
<1>13. JamOf(N, Y) = Jammed(q, r # 0)
  BY <1>2, Zenon DEF JamOf
<1>14. QED
  BY <1>12, <1>13 DEF rem

-----------------------------------------------------------------------------
\* What f32_div and f64_div make of the dividend X and the divisor Y, each of one word.
QuotientF32(f, X, Y) ==
  LET q == (X * 2^word(f)) \div Y
  IN IF q % 2^(f.G - 1) = 0 THEN Jammed(q, Y * q # X * 2^word(f)) ELSE q

\* The truncated quotient, with the rest jammed into it where its guard bits are zero, stands for the exact one.
LEMMA QuotientF32Stands ==
  ASSUME NEW f, NEW W \in Nat, W = 2^word(f), NEW u \in Nat \ {0}, u = 2^(f.G - 1), u % 2 = 0,
         NEW X \in Nat, NEW Y \in Nat \ {0}
  PROVE  QuotientF32(f, X, Y) \in Nat /\ Stands(QuotientF32(f, X, Y), X * W, Y, u)
<1>1. PICK N \in Nat : N = X * W
  OBVIOUS
<1>2. PICK q \in Nat, r \in 0..(Y - 1) : q = N \div Y /\ r = N % Y /\ N = (Y * q) + r
  BY DivNat
<1>3. QuotientF32(f, X, Y) = IF q % u = 0 THEN Jammed(q, Y * q # N) ELSE q
  BY <1>1, <1>2, Zenon DEF QuotientF32
<1>4. CASE q % u = 0
  <2>1. Y * q # N <=> r # 0
    <3>1. PICK z \in Nat : z = Y * q
      OBVIOUS
    <3>2. QED
      BY <1>2, <3>1
  <2>2. QuotientF32(f, X, Y) = JamOf(N, Y)
    BY <1>2, <1>3, <1>4, <2>1, Zenon DEF JamOf
  <2>3. Stands(JamOf(N, Y), N, Y, u) /\ JamOf(N, Y) \in Nat
    BY JamStands
  <2>4. QED
    BY <1>1, <2>2, <2>3
<1>5. CASE q % u # 0
  <2>1. PICK c \in Nat, m \in 0..(u - 1) : c = q \div u /\ m = q % u /\ q = (u * c) + m
    BY DivNat
  <2>2. q - q < m
    BY <1>5, <2>1
  <2>3. IsAbove(N, Y, q, q, u) /\ q <= q
    BY <1>2, <2>1, <2>2 DEF IsAbove
  <2>4. Stands(q, N, Y, u)
    BY <2>3, StandsAbove
  <2>5. QED
    BY <1>1, <1>3, <1>5, <2>4
<1>6. QED
  BY <1>4, <1>5

\* So does the estimate of the first word, corrected where its guard bits are at most two.
LEMMA QuotientF64Stands ==
  ASSUME NEW f, WordLaws(word(f)), NEW W \in Nat, W = 2^word(f), W >= 8, NEW u \in Nat \ {0}, u = 2^(f.G - 1), u % 2 = 0,
         NEW X \in Nat, NEW Y \in Nat, Y < W, W <= 2 * Y, 2 * X < Y
  PROVE  QuotientF64(f, X, Y) \in Nat /\ Stands(QuotientF64(f, X, Y), X * W, Y, u)
<1>1. PICK w : w = word(f)
  OBVIOUS
<1>2. PICK V \in Nat : V = 2^(w - 1) /\ W = 2 * V
  <2>1. WordLaws(w) /\ W = 2^w
    BY <1>1
  <2>2. QED
    BY <2>1, WordSizes
<1>3. PICK N \in Nat : N = X * W
  OBVIOUS
<1>4. PICK q \in Nat, r \in 0..(Y - 1) : q = N \div Y /\ r = N % Y /\ N = (Y * q) + r
  <2>1. Y \in Nat \ {0}
    OBVIOUS
  <2>2. PICK q \in Nat, r \in 0..(Y - 1) : q = N \div Y /\ r = N % Y /\ N = (Y * q) + r
    BY <2>1, DivNat
  <2>3. QED
    BY <2>2
<1>5. 2 * q < W
  <2>1. SUFFICES ASSUME W <= 2 * q PROVE FALSE
    OBVIOUS
  <2>2. Y * W <= Y * (2 * q) /\ W * ((2 * X) + 1) <= W * Y
    BY <2>1, ProductMonotonic
  <2>3. PICK y \in Int, z \in Int : y = Y * q /\ z = W * Y
    <3>1. Y * q \in Int /\ W * Y \in Int
      OBVIOUS
    <3>2. QED
      BY <3>1
  <2>4. Y * W = z /\ Y * (2 * q) = 2 * y
    BY <2>3
  <2>5. W * ((2 * X) + 1) = (2 * (X * W)) + W
    OBVIOUS
  <2>6. QED
    BY <1>3, <1>4, <2>2, <2>3, <2>4, <2>5
<1>6. PICK e \in Nat : e = softfloat_estimateDiv128To64(w, X, 0, Y) /\ q <= e /\ e <= q + 2 /\ e < W
  <2>1. Y \in 2^(w - 1)..(2^w - 1) /\ X \in 0..(2^w - 1) /\ 0 \in 0..(2^w - 1) /\ WordLaws(w)
    <3>1. W = 2^w /\ WordLaws(w)
      BY <1>1
    <3>2. QED
      BY <1>2, <3>1
  <2>2. LET p == ((X * 2^w) + 0) \div Y
            e == softfloat_estimateDiv128To64(w, X, 0, Y)
        IN IF p >= 2^w THEN e = 2^w - 1 ELSE e \in p..(p + 2)
    BY <2>1, EstimateDiv128To64
  <2>3. (X * 2^w) + 0 = N /\ 2^w = W
    <3>1. 2^w = W
      BY <1>1
    <3>2. N + 0 = N
      OBVIOUS
    <3>3. QED
      BY <1>3, <3>1, <3>2, Zenon
  <2>4. IF q >= W THEN softfloat_estimateDiv128To64(w, X, 0, Y) = W - 1
        ELSE softfloat_estimateDiv128To64(w, X, 0, Y) \in q..(q + 2)
    BY <1>4, <2>2, <2>3, Zenon
  <2>5. QED
    BY <1>5, <2>4
<1>7. QuotientF64(f, X, Y) =
        IF e % u <= 2 THEN LowerQuotient(w, e, softfloat_sub128(w, Pair(X, 0), softfloat_mul64To128(w, Y, e)), Y) ELSE e
  BY <1>1, <1>6, Zenon DEF QuotientF64
<1>8. IsQuotient(q, N, Y) /\ Times(X, W, N) /\ Y \in Nat \ {0}
  BY <1>3, <1>4 DEF IsQuotient, Times
<1>9. CASE e % u <= 2
  <2>1. LowerQuotient(w, e, softfloat_sub128(w, Pair(X, 0), softfloat_mul64To128(w, Y, e)), Y) = JamOf(N, Y)
    <3>1. WordLaws(w) /\ W \in Nat \ {0} /\ W = 2^w /\ W >= 4 /\ X < W
      BY <1>1
    <3>2. QED
      BY <1>6, <1>8, <3>1, LowerQuotientIs
  <2>2. Stands(JamOf(N, Y), N, Y, u) /\ JamOf(N, Y) \in Nat
    BY <1>8, JamStands
  <2>3. QED
    BY <1>3, <1>7, <1>9, <2>1, <2>2
<1>10. CASE ~(e % u <= 2)
  <2>1. PICK c \in Nat, m \in 0..(u - 1) : c = e \div u /\ m = e % u /\ e = (u * c) + m
    BY DivNat
  <2>2. e - q < m
    <3>1. ~(m <= 2)
      BY <1>10, <2>1
    <3>2. QED
      BY <1>6, <3>1
  <2>3. IsAbove(N, Y, q, e, u)
    BY <1>4, <2>1, <2>2 DEF IsAbove
  <2>4. Stands(e, N, Y, u)
    BY <1>6, <1>8, <2>3, StandsAbove
  <2>5. QED
    BY <1>3, <1>6, <1>7, <1>10, <2>4
<1>11. QED
  BY <1>9, <1>10

\* The two divisions differ in how they come to the quotient's word.
LEMMA DivisionsBy ==
  ASSUME NEW f, NEW a, NEW b, NEW mode
  PROVE  LET X == Dividend(f, Normal(f, a), Normal(f, b))
             Y == Normal(f, b).sig * 2^(f.G + 1)
         IN /\ f32_div(f, a, b, mode) = Division(f, a, b, QuotientF32(f, X, Y), mode)
            /\ f64_div(f, a, b, mode) = Division(f, a, b, QuotientF64(f, X, Y), mode)
BY Zenon DEF f32_div, f64_div, QuotientF32

\* The exponent of the quotient of two finite operands that are not zero.
DivExp(f, a, b) ==
  Normal(f, a).exp - Normal(f, b).exp + bias(f) - (IF Halved(f, Normal(f, a), Normal(f, b)) THEN 1 ELSE 2)

\* The quotient of two finite operands that are not zero is rounded once.
LEMMA FiniteQuotients ==
  ASSUME NEW f, IsFormat(f), IsEven(f), NEW sign, NEW mode, IsMode(sign, mode),
         NEW a \in Patterns(f), NEW b \in Patterns(f), ~isZero(f, a), ~isZero(f, b)
  PROVE  LET X == Dividend(f, Normal(f, a), Normal(f, b))
             Y == Normal(f, b).sig * 2^(f.G + 1)
             r == RoundedRatio(f, sign, Mag(f, a) * Unity(f), Mag(f, b), mode)
         IN /\ softfloat_roundPackToF32(f, sign, DivExp(f, a, b), QuotientF32(f, X, Y), mode) = r
            /\ softfloat_roundPackToF32(f, sign, DivExp(f, a, b), QuotientF64(f, X, Y), mode) = r
<1>1. PICK h \in Nat \ {0}, u \in Nat \ {0}, e \in Nat : Sizes(f, h, u, e)
  <2>1. PICK h \in Nat, u \in Nat, e \in Nat : Sizes(f, h, u, e)
    BY FormatSizes
  <2>2. h # 0 /\ u # 0
    BY <2>1 DEF Sizes
  <2>3. QED
    BY <2>1, <2>2
<1>2. PICK kA \in Int, sA \in h..((2 * h) - 1) : IsOperand(f, a, h, kA, sA)
  BY <1>1, NormalIs
<1>3. PICK kB \in Int, sB \in h..((2 * h) - 1) : IsOperand(f, b, h, kB, sB)
  BY <1>1, NormalIs
<1>4. Normal(f, a).exp = kA /\ Normal(f, a).sig = sA /\ Normal(f, b).exp = kB /\ Normal(f, b).sig = sB
  BY <1>2, <1>3 DEF IsOperand
<1>5. PICK g \in Nat \ {0}, W \in Nat : /\ g = 2 * u /\ g = 2^f.G /\ 2^(f.G + 1) = 2 * g
                                        /\ W = 4 * (h * g) /\ W = 2^word(f) /\ W >= 8 /\ u % 2 = 0 /\ u = 2^(f.G - 1)
  <2>1. 2^f.G = 2 * u /\ 2^word(f) = 4 * (h * (2 * u)) /\ 2^(f.G - 1) = u /\ u % 4 = 0
    BY <1>1 DEF Sizes
  <2>2. 2^(f.G + 1) = 2 * 2^f.G
    BY PowerNext DEF IsFormat
  <2>3. PICK g \in Nat \ {0} : g = 2 * u /\ g >= 2
    OBVIOUS
  <2>4. g * 1 <= g * h
    BY ProductMonotonic
  <2>5. PICK z \in Nat : z = h * g
    OBVIOUS
  <2>6. g * h = z /\ g * 1 = g
    BY <2>5
  <2>7. u % 2 = 0
    BY <2>1
  <2>8. QED
    BY <2>1, <2>2, <2>3, <2>4, <2>5, <2>6, <2>7
<1>6. PICK X \in Nat, j \in Int : /\ X = Dividend(f, Normal(f, a), Normal(f, b)) /\ IsDividend(sA, sB, u, X, j)
                                  /\ j = (IF Halved(f, Normal(f, a), Normal(f, b)) THEN 1 ELSE 2)
  <2>1. Halved(f, Normal(f, a), Normal(f, b)) <=> sB <= sA
    BY <1>4 DEF Halved
  <2>2. Dividend(f, Normal(f, a), Normal(f, b)) = IF sB <= sA THEN sA * u ELSE sA * (2 * u)
    BY <1>4, <1>5, <2>1 DEF Dividend
  <2>3. sA * u \in Nat /\ sA * (2 * u) \in Nat
    OBVIOUS
  <2>4. CASE sB <= sA
    BY <2>1, <2>2, <2>3, <2>4 DEF IsDividend
  <2>5. CASE sA < sB
    <3>1. ~(sB <= sA)
      BY <2>5
    <3>2. QED
      BY <2>1, <2>2, <2>3, <2>5, <3>1 DEF IsDividend
  <2>6. QED
    BY <2>4, <2>5
<1>7. PICK Y \in Nat \ {0} : Y = sB * (2 * g) /\ Y < W /\ W <= 2 * Y /\ 2 * X < Y
  <2>1. PICK Y \in Nat \ {0}, z \in Nat : Y = sB * (2 * g) /\ z = h * g
    <3>1. sB \in Nat \ {0} /\ 2 * g \in Nat \ {0} /\ h * g \in Nat
      OBVIOUS
    <3>2. sB * (2 * g) \in Nat \ {0}
      BY <3>1
    <3>3. QED
      BY <3>1, <3>2
  <2>2. g * h <= g * sB /\ g * (sB + 1) <= g * (2 * h)
    BY ProductMonotonic
  <2>3. PICK y \in Nat : y = g * sB /\ Y = 2 * y
    BY <2>1
  <2>4. g * h = z /\ g * (sB + 1) = y + g /\ g * (2 * h) = 2 * z
    BY <2>1, <2>3
  <2>5. 2 * X < Y
    <3>1. CASE sB <= sA
      <4>1. X = sA * u
        BY <1>6, <3>1 DEF IsDividend
      <4>2. u * (sA + 1) <= u * (2 * sB)
        <5>1. sA + 1 <= 2 * sB
          OBVIOUS
        <5>2. QED
          BY <5>1, ProductMonotonic
      <4>3. PICK x \in Nat, v \in Nat : x = sA * u /\ v = u * sB
        OBVIOUS
      <4>4. u * (sA + 1) = x + u /\ u * (2 * sB) = 2 * v /\ g * sB = 2 * v
        BY <1>5, <4>3
      <4>5. QED
        BY <2>3, <4>1, <4>2, <4>3, <4>4
    <3>2. CASE sA < sB
      <4>1. X = sA * (2 * u)
        BY <1>6, <3>2 DEF IsDividend
      <4>2. u * (sA + 1) <= u * sB
        BY <3>2, ProductMonotonic
      <4>3. PICK x \in Nat, v \in Nat : x = sA * u /\ v = u * sB
        OBVIOUS
      <4>4. u * (sA + 1) = x + u /\ sA * (2 * u) = 2 * x /\ g * sB = 2 * v
        BY <1>5, <4>3
      <4>5. QED
        BY <2>3, <4>1, <4>2, <4>3, <4>4
    <3>3. QED
      BY <3>1, <3>2
  <2>6. QED
    BY <1>5, <2>1, <2>2, <2>3, <2>4, <2>5
<1>8. QuotientF32(f, X, Y) \in Nat /\ Stands(QuotientF32(f, X, Y), X * W, Y, u)
  BY <1>5, QuotientF32Stands
<1>9. QuotientF64(f, X, Y) \in Nat /\ Stands(QuotientF64(f, X, Y), X * W, Y, u)
  <2>1. WordLaws(word(f))
    <3>1. word(f) \in Nat /\ word(f) >= 2
      BY DEF word, IsFormat
    <3>2. QED
      BY <3>1, WordIs DEF IsEven
  <2>2. W = 2^word(f) /\ W >= 8 /\ u = 2^(f.G - 1) /\ u % 2 = 0 /\ Y \in Nat
    BY <1>5
  <2>3. QED
    BY <1>7, <2>1, <2>2, QuotientF64Stands
<1>10. ASSUME NEW s \in Nat, Stands(s, X * W, Y, u)
       PROVE  softfloat_roundPackToF32(f, sign, kA - kB + bias(f) - j, s, mode)
                = RoundedRatio(f, sign, Mag(f, a) * Unity(f), Mag(f, b), mode)
  <2>1. g \in Nat /\ W \in Nat /\ Y \in Nat \ {0} /\ g = 2 * u /\ W = 4 * (h * g) /\ Y = sB * (2 * g)
    BY <1>5, <1>7
  <2>2. QED
    BY <1>1, <1>2, <1>3, <1>6, <1>10, <2>1, QuotientRounds
<1>11. DivExp(f, a, b) = kA - kB + bias(f) - j
  BY <1>4, <1>6, Zenon DEF DivExp
<1>12. Y = Normal(f, b).sig * 2^(f.G + 1)
  BY <1>4, <1>5, <1>7
<1>13. QED
  BY <1>6, <1>8, <1>9, <1>10, <1>11, <1>12, Zenon

\* Which operands a quotient is settled for without a division, and what it is for the rest.
LEMMA DivisionArms ==
  ASSUME NEW f, FormatLaws(f), NEW a, NEW b, Kinds(f, a), Kinds(f, b), NEW z, NEW mode
  PROVE  Division(f, a, b, z, mode) =
           IF isNaNUI(f, a) \/ isNaNUI(f, b) THEN softfloat_propagateNaNF32UI(f, a, b)
           ELSE IF isInf(f, a) THEN IF isInf(f, b) THEN Invalid(f) ELSE Ret(Inf(f, SignXor(f, a, b)), {})
           ELSE IF isInf(f, b) THEN Ret(Zero(f, SignXor(f, a, b)), {})
           ELSE IF isZero(f, b)
           THEN IF isZero(f, a) THEN Invalid(f) ELSE Ret(Inf(f, SignXor(f, a, b)), {"infinity"})
           ELSE IF isZero(f, a) THEN Ret(Zero(f, SignXor(f, a, b)), {})
           ELSE softfloat_roundPackToF32(f, SignXor(f, a, b), DivExp(f, a, b), z, mode)
<1> DEFINE sign == SignXor(f, a, b)
           exp  == DivExp(f, a, b)
           nan  == isNaNUI(f, a) \/ isNaNUI(f, b)
           bad  == (isInf(f, a) /\ isInf(f, b)) \/ (isZero(f, a) /\ isZero(f, b))
           infA == isInf(f, a) /\ expUI(f, b) # expMax(f)
           infB == isInf(f, b) /\ expUI(f, a) # expMax(f)
           noB  == isZero(f, b) /\ ~isZero(f, a) /\ expUI(f, a) # expMax(f)
           noA  == isZero(f, a) /\ ~isZero(f, b) /\ expUI(f, b) # expMax(f)
<1>1. Division(f, a, b, z, mode) =
        CASE nan -> softfloat_propagateNaNF32UI(f, a, b)
          [] bad -> Invalid(f)
          [] infA -> Ret(Inf(f, sign), {})
          [] infB -> Ret(Zero(f, sign), {})
          [] noB -> Ret(Inf(f, sign), {"infinity"})
          [] noA -> Ret(Zero(f, sign), {})
          [] OTHER -> softfloat_roundPackToF32(f, sign, exp, z, mode)
  BY Zenon DEF Division, SignXor, DivExp
<1>2. /\ ~(nan /\ bad) /\ ~(nan /\ infA) /\ ~(nan /\ infB) /\ ~(nan /\ noA) /\ ~(nan /\ noB)
      /\ ~(bad /\ infA) /\ ~(bad /\ infB) /\ ~(bad /\ noA) /\ ~(bad /\ noB)
      /\ ~(infA /\ infB) /\ ~(infA /\ noA) /\ ~(infA /\ noB) /\ ~(infB /\ noA) /\ ~(infB /\ noB) /\ ~(noA /\ noB)
  BY DEF Kinds
<1>3. ~nan => /\ isInf(f, a) => (bad <=> isInf(f, b)) /\ (infA <=> ~isInf(f, b))
              /\ ~isInf(f, a) /\ isInf(f, b) => infB
              /\ ~isInf(f, a) /\ ~isInf(f, b) => /\ ~infA /\ ~infB
                                                 /\ isZero(f, b) => (bad <=> isZero(f, a)) /\ (noB <=> ~isZero(f, a))
                                                 /\ ~isZero(f, b) => ~bad /\ ~noB /\ (noA <=> isZero(f, a))
  BY DEF Kinds
<1> HIDE DEF bad, infA, infB, noA, noB, sign, exp
<1>4. QED
  BY <1>1, <1>2, <1>3 DEF sign, exp

\* Both divisions return what is promised, for all operands.
THEOREM QuotientsRound ==
  ASSUME NEW f, IsFormat(f), IsEven(f), NEW mode \in RoundingModes,
         NEW a \in Patterns(f), NEW b \in Patterns(f)
  PROVE  f32_div(f, a, b, mode) = DivSpec(f, a, b, mode) /\ f64_div(f, a, b, mode) = DivSpec(f, a, b, mode)
<1> FormatLaws(f)
  BY FormatLaw
<1> DEFINE sign == SignXor(f, a, b)
           X    == Dividend(f, Normal(f, a), Normal(f, b))
           Y    == Normal(f, b).sig * 2^(f.G + 1)
           r    == RoundedRatio(f, sign, Mag(f, a) * Unity(f), Mag(f, b), mode)
           zS   == QuotientF32(f, X, Y)
           zD   == QuotientF64(f, X, Y)
           Rounds(z) == softfloat_roundPackToF32(f, sign, DivExp(f, a, b), z, mode)
<1>1. IsMode(sign, mode)
  BY SignIs DEF IsMode
<1>2. ~isZero(f, a) /\ ~isZero(f, b) => Rounds(zS) = r /\ Rounds(zD) = r
  <2>1. SUFFICES ASSUME ~isZero(f, a), ~isZero(f, b) PROVE Rounds(zS) = r /\ Rounds(zD) = r
    OBVIOUS
  <2> HIDE DEF sign
  <2>2. QED
    BY <1>1, <2>1, FiniteQuotients
<1>3. Kinds(f, a) /\ Kinds(f, b) /\ (isZero(f, a) => Mag(f, a) = 0)
  BY PatternKinds
<1>4. isZero(f, a) /\ ~isZero(f, b) => r = Ret(Zero(f, sign), {})
  <2>1. SUFFICES ASSUME isZero(f, a), ~isZero(f, b) PROVE r = Ret(Zero(f, sign), {})
    OBVIOUS
  <2>2. PICK mB \in Nat \ {0} : mB = Mag(f, b)
    <3>1. PICK h \in Nat, u \in Nat, e \in Nat : Sizes(f, h, u, e)
      BY FormatSizes
    <3>2. h \in Nat \ {0}
      BY <3>1 DEF Sizes
    <3>3. PICK k \in Int, sig \in h..((2 * h) - 1) : IsOperand(f, b, h, k, sig)
      BY <2>1, <3>1, <3>2, NormalIs
    <3>4. QED
      BY <3>3 DEF IsOperand
  <2>3. Mag(f, a) * Unity(f) = 0
    <3>1. PICK h \in Nat, u \in Nat, e \in Nat : Sizes(f, h, u, e)
      BY FormatSizes
    <3>2. PICK B \in Nat \ {0} : Unity(f) = h * B
      BY <3>1, UnityIs
    <3>3. PICK U \in Nat : U = Unity(f)
      BY <3>2
    <3>4. 0 * U = 0
      OBVIOUS
    <3>5. QED
      BY <1>3, <2>1, <3>3, <3>4
  <2> HIDE DEF sign
  <2>4. RoundedRatio(f, sign, 0, mB, mode) = Ret(Zero(f, sign), {})
    BY <1>1, RoundZero
  <2>5. QED
    BY <2>2, <2>3, <2>4
<1>5. softfloat_propagateNaNF32UI(f, a, b) = NaNs(f, {a, b})
  BY NaNReturned
<1>6. DivSpec(f, a, b, mode) =
        IF isNaNUI(f, a) \/ isNaNUI(f, b) THEN NaNs(f, {a, b})
        ELSE IF isInf(f, a) THEN IF isInf(f, b) THEN Invalid(f) ELSE Ret(Inf(f, sign), {})
        ELSE IF isInf(f, b) THEN Ret(Zero(f, sign), {})
        ELSE IF isZero(f, b) THEN IF isZero(f, a) THEN Invalid(f) ELSE Ret(Inf(f, sign), {"infinity"})
        ELSE r
  BY Zenon DEF DivSpec
<1>7. f32_div(f, a, b, mode) = Division(f, a, b, zS, mode) /\ f64_div(f, a, b, mode) = Division(f, a, b, zD, mode)
  BY DivisionsBy, Zenon
<1> HIDE DEF r, zS, zD, X, Y
<1>8. \A z \in {zS, zD} : Division(f, a, b, z, mode) =
        IF isNaNUI(f, a) \/ isNaNUI(f, b) THEN softfloat_propagateNaNF32UI(f, a, b)
        ELSE IF isInf(f, a) THEN IF isInf(f, b) THEN Invalid(f) ELSE Ret(Inf(f, sign), {})
        ELSE IF isInf(f, b) THEN Ret(Zero(f, sign), {})
        ELSE IF isZero(f, b) THEN IF isZero(f, a) THEN Invalid(f) ELSE Ret(Inf(f, sign), {"infinity"})
        ELSE IF isZero(f, a) THEN Ret(Zero(f, sign), {}) ELSE Rounds(z)
  BY <1>3, DivisionArms, Zenon
<1> HIDE DEF sign, Rounds
<1>9. QED
  BY <1>2, <1>4, <1>5, <1>6, <1>7, <1>8

-----------------------------------------------------------------------------
(* Square roots are irrational.  A ratio that lies on the same side of     *)
(* every number a rounding looks at stands in for one.                     *)

\* The side of t on which half the root of A lies, as the promise of a root has it ...
RootSide(A, t) == A - (t * t)
\* ... and the side on which num / den lies.
RatioSide(num, den, t) == (2 * num) - (t * den)
\* Both are negative, zero or positive.
SameSign(x, y) == x \in Int /\ y \in Int /\ (x < 0 <=> y < 0) /\ (x = 0 <=> y = 0)
\* Half the root of A and num / den lie on the same side of every t.
SameSides(A, num, den) == \A t \in Nat : SameSign(RootSide(A, t), RatioSide(num, den, t))

\* What a root is rounded to, lo being the magnitude at or below it.
RootFrom(f, A, mode, lo) ==
  LET maxFinite == Inf(f, 0) - 1
      exact == RootSide(A, 2 * Val(f, lo)) = 0
      up    == GoesUp(mode, 0, exact, RootSide(A, Val(f, lo) + Val(f, lo + 1)), lo % 2 = 1)
      beyond == lo = maxFinite /\ (up \/ RootSide(A, 2 * Val(f, lo + 1)) >= 0)
      tiny   == RootSide(A, 2 * Val(f, hidden(f))) < 0
      outward == mode \in {"near_even", "near_maxMag", IF 0 = 1 THEN "min" ELSE "max"}
  IN IF beyond THEN Ret(0 * signBit(f) + maxFinite + Bit(outward), {"overflow", "inexact"})
     ELSE Ret(0 * signBit(f) + lo + Bit(up),
              IF exact THEN {} ELSE {"inexact"} \cup IF tiny THEN {"underflow"} ELSE {})
\* m is the largest finite magnitude that is not above the root.
IsRootLower(f, A, m) ==
  /\ RootSide(A, 2 * Val(f, m)) >= 0
  /\ m < Inf(f, 0) - 1 => RootSide(A, 2 * Val(f, m + 1)) < 0

\* The promise of a root for the operands that have one.
LEMMA RootPromised ==
  ASSUME NEW f, NEW a, NEW mode, ~isNaNUI(f, a), ~isZero(f, a), a # Inf(f, 0), signUI(f, a) # 1
  PROVE  SqrtSpec(f, a, mode) =
           RootFrom(f, (4 * Mag(f, a)) * Unity(f), mode,
                    CHOOSE m \in 0..(Inf(f, 0) - 1) : IsRootLower(f, (4 * Mag(f, a)) * Unity(f), m))
BY Zenon DEF SqrtSpec, Rounded, RootFrom, IsRootLower, RootSide

\* A direction of rounding depends on the side only.
LEMMA SameDirection ==
  ASSUME NEW x, NEW y, SameSign(x, y), NEW mode, NEW sign, NEW exact, NEW odd
  PROVE  GoesUp(mode, sign, exact, x, odd) = GoesUp(mode, sign, exact, y, odd)
<1>1. x \in Int /\ y \in Int /\ (x > 0 <=> y > 0) /\ (x = 0 <=> y = 0) /\ (x >= 0 <=> y >= 0)
  BY DEF SameSign
<1>2. QED
  BY <1>1 DEF GoesUp

\* There is a largest magnitude at or below every ratio.
LEMMA LowerExists ==
  ASSUME NEW f, NEW h \in Nat \ {0}, hidden(f) = h, NEW num \in Nat, NEW den \in Nat \ {0},
         Inf(f, 0) \in Nat \ {0}
  PROVE  \E m \in 0..(Inf(f, 0) - 1) : IsLower(f, num, den, m)
<1>1. PICK t \in Nat : t = Inf(f, 0) - 1
  OBVIOUS
<1> DEFINE P(m) == m < t => (2 * num) - ((2 * Val(f, m + 1)) * den) < 0
           S == {m \in Nat : P(m)}
<1>2. S \in SUBSET Nat /\ t \in S
  <2>1. ~(t < t)
    OBVIOUS
  <2>2. P(t)
    BY <2>1
  <2> HIDE DEF P
  <2>3. QED
    BY <2>2
<1>3. PICK m \in S : \A n \in S : m <= n
  <2> HIDE DEF S
  <2>1. S # {}
    BY <1>2
  <2>2. QED
    BY <1>2, <2>1, Least
<1>4. m \in 0..t /\ P(m)
  <2> HIDE DEF P
  <2>1. m <= t /\ m \in Nat
    BY <1>2, <1>3
  <2>2. QED
    BY <1>3, <2>1
<1>5. CASE m = 0
  <2>1. Val(f, 0) = 0
    <3>1. PICK z \in Nat : z = 0
      OBVIOUS
    <3>2. Val(f, (z * h) + 0) = 0 * 2^z
      <4>1. 0 \in 0..(2 * h)
        OBVIOUS
      <4>2. QED
        BY <3>1, <4>1, ValAt
    <3>3. PICK q \in Nat : q = 2^z
      BY PowerPositive
    <3>4. 0 * q = 0 /\ (z * h) + 0 = 0
      BY <3>1
    <3>5. QED
      BY <3>2, <3>3, <3>4
  <2>2. (2 * num) - ((2 * 0) * den) >= 0
    OBVIOUS
  <2>3. IsLower(f, num, den, m)
    BY <1>1, <1>4, <1>5, <2>1, <2>2 DEF IsLower
  <2>4. QED
    BY <1>1, <1>4, <2>3
<1>6. CASE m # 0
  <2>1. PICK n \in Nat : m = n + 1
    <3>1. m - 1 \in Nat /\ m = (m - 1) + 1
      BY <1>4, <1>6
    <3>2. QED
      BY <3>1
  <2>2. ~P(n)
    <3>1. ~(m <= n)
      BY <2>1
    <3>2. n \notin S
      <4> HIDE DEF S
      <4>1. QED
        BY <1>3, <3>1
    <3> HIDE DEF P
    <3>3. QED
      BY <3>2
  <2>3. PICK v \in Nat : v = Val(f, m)
    BY <1>4, ValNext
  <2>4. (2 * num) - ((2 * v) * den) >= 0
    <3>1. ~((2 * num) - ((2 * v) * den) < 0)
      BY <2>1, <2>2, <2>3
    <3>2. (2 * v) * den \in Int
      OBVIOUS
    <3>3. QED
      BY <3>1, <3>2
  <2>5. IsLower(f, num, den, m)
    BY <1>1, <1>4, <2>3, <2>4 DEF IsLower
  <2>6. QED
    BY <1>1, <1>4, <2>5
<1>7. QED
  BY <1>5, <1>6

\* A root is rounded as the ratio that stands in for it.
LEMMA RootAsRatio ==
  ASSUME NEW f, NEW h \in Nat \ {0}, hidden(f) = h, Inf(f, 0) \in Nat \ {0},
         NEW A, NEW num \in Nat, NEW den \in Nat \ {0}, SameSides(A, num, den), NEW mode
  PROVE  RootFrom(f, A, mode, CHOOSE m \in 0..(Inf(f, 0) - 1) : IsRootLower(f, A, m))
           = RoundedRatio(f, 0, num, den, mode)
<1>1. PICK t \in Nat : t = Inf(f, 0) - 1
  OBVIOUS
<1>2. ASSUME NEW v \in Nat
      PROVE  SameSign(RootSide(A, v), (2 * num) - (v * den))
  BY Zenon DEF SameSides, RatioSide
<1>3. ASSUME NEW m \in 0..t
      PROVE  IsRootLower(f, A, m) <=> IsLower(f, num, den, m)
  <2>1. PICK v \in Nat, x \in Nat : v = 2 * Val(f, m) /\ x = 2 * Val(f, m + 1)
    <3>1. Val(f, m) \in Nat /\ Val(f, m + 1) \in Nat
      BY ValNext
    <3>2. QED
      BY <3>1
  <2>2. SameSign(RootSide(A, v), (2 * num) - (v * den)) /\ SameSign(RootSide(A, x), (2 * num) - (x * den))
    BY <1>2
  <2>3. PICK p \in Int, q \in Int : p = (2 * num) - (v * den) /\ q = (2 * num) - (x * den)
    <3>1. (2 * num) - (v * den) \in Int /\ (2 * num) - (x * den) \in Int
      BY <2>2, Zenon DEF SameSign
    <3>2. QED
      BY <3>1, Zenon
  <2>4. (RootSide(A, v) >= 0 <=> p >= 0) /\ (RootSide(A, x) < 0 <=> q < 0)
    BY <2>2, <2>3 DEF SameSign
  <2>5. QED
    BY <1>1, <2>1, <2>3, <2>4, Zenon DEF IsRootLower, IsLower
<1>4. \E m \in 0..t : IsRootLower(f, A, m)
  <2>1. \E m \in 0..t : IsLower(f, num, den, m)
    BY <1>1, LowerExists
  <2>2. QED
    BY <1>3, <2>1
<1>5. PICK m \in 0..t : m = (CHOOSE k \in 0..t : IsRootLower(f, A, k)) /\ IsRootLower(f, A, m)
  BY <1>4, Zenon
<1>6. RoundedRatio(f, 0, num, den, mode) = RoundedFrom(f, 0, num, den, mode, m)
  <2>1. IsLower(f, num, den, m) /\ Inf(f, 0) \in Nat /\ m \in 0..(Inf(f, 0) - 1)
    BY <1>1, <1>3, <1>5
  <2>2. QED
    BY <2>1, RatioIs
<1>7. PICK V \in Nat, V1 \in Nat, H \in Nat : V = Val(f, m) /\ V1 = Val(f, m + 1) /\ H = Val(f, hidden(f))
  <2>1. m \in Nat /\ hidden(f) \in Nat
    OBVIOUS
  <2>2. Val(f, m) \in Nat /\ Val(f, m + 1) \in Nat /\ Val(f, hidden(f)) \in Nat
    BY <2>1, ValNext
  <2>3. QED
    BY <2>2
<1>8. /\ SameSign(RootSide(A, 2 * V), (2 * num) - ((2 * V) * den))
      /\ SameSign(RootSide(A, V + V1), (2 * num) - ((V + V1) * den))
      /\ SameSign(RootSide(A, 2 * V1), (2 * num) - ((2 * V1) * den))
      /\ SameSign(RootSide(A, 2 * H), (2 * num) - ((2 * H) * den))
  <2>1. 2 * V \in Nat /\ V + V1 \in Nat /\ 2 * V1 \in Nat /\ 2 * H \in Nat
    OBVIOUS
  <2>2. QED
    BY <1>2, <2>1, Zenon
<1> DEFINE exactR == RootSide(A, 2 * V) = 0
           exactQ == (2 * num) - ((2 * V) * den) = 0
<1>9. /\ exactR <=> exactQ
      /\ RootSide(A, 2 * V1) >= 0 <=> (2 * num) - ((2 * V1) * den) >= 0
      /\ RootSide(A, 2 * H) < 0 <=> (2 * num) - ((2 * H) * den) < 0
  <2>1. PICK x \in Int, y \in Int, z \in Int : /\ x = (2 * num) - ((2 * V) * den) /\ y = (2 * num) - ((2 * V1) * den)
                                               /\ z = (2 * num) - ((2 * H) * den)
    <3>1. /\ (2 * num) - ((2 * V) * den) \in Int /\ (2 * num) - ((2 * V1) * den) \in Int
          /\ (2 * num) - ((2 * H) * den) \in Int
      BY <1>8, Zenon DEF SameSign
    <3>2. QED
      BY <3>1, Zenon
  <2>2. QED
    BY <1>8, <2>1 DEF SameSign
<1>10. GoesUp(mode, 0, exactR, RootSide(A, V + V1), m % 2 = 1)
         = GoesUp(mode, 0, exactQ, (2 * num) - ((V + V1) * den), m % 2 = 1)
  <2>1. exactR = exactQ
    BY <1>9
  <2>2. GoesUp(mode, 0, exactQ, RootSide(A, V + V1), m % 2 = 1)
          = GoesUp(mode, 0, exactQ, (2 * num) - ((V + V1) * den), m % 2 = 1)
    BY <1>8, SameDirection
  <2>3. QED
    BY <2>1, <2>2
<1>11. RootFrom(f, A, mode, m) = RoundedFrom(f, 0, num, den, mode, m)
  <2> DEFINE upR == GoesUp(mode, 0, exactR, RootSide(A, V + V1), m % 2 = 1)
             upQ == GoesUp(mode, 0, exactQ, (2 * num) - ((V + V1) * den), m % 2 = 1)
             out == mode \in {"near_even", "near_maxMag", IF 0 = 1 THEN "min" ELSE "max"}
             pastR == RootSide(A, 2 * V1) >= 0
             pastQ == (2 * num) - ((2 * V1) * den) >= 0
             tinyR == RootSide(A, 2 * H) < 0
             tinyQ == (2 * num) - ((2 * H) * den) < 0
  <2>1. RootFrom(f, A, mode, m) =
          IF m = Inf(f, 0) - 1 /\ (upR \/ pastR)
          THEN Ret(0 * signBit(f) + (Inf(f, 0) - 1) + Bit(out), {"overflow", "inexact"})
          ELSE Ret(0 * signBit(f) + m + Bit(upR),
                   IF exactR THEN {} ELSE {"inexact"} \cup IF tinyR THEN {"underflow"} ELSE {})
    BY <1>7, Zenon DEF RootFrom
  <2>2. RoundedFrom(f, 0, num, den, mode, m) =
          IF m = Inf(f, 0) - 1 /\ (upQ \/ pastQ)
          THEN Ret(0 * signBit(f) + (Inf(f, 0) - 1) + Bit(out), {"overflow", "inexact"})
          ELSE Ret(0 * signBit(f) + m + Bit(upQ),
                   IF exactQ THEN {} ELSE {"inexact"} \cup IF tinyQ THEN {"underflow"} ELSE {})
    BY <1>7, Zenon DEF RoundedFrom
  <2>3. upR = upQ
    BY <1>10
  <2>4. (exactR <=> exactQ) /\ (pastR <=> pastQ) /\ (tinyR <=> tinyQ)
    BY <1>9, Zenon
  <2> HIDE DEF upR, upQ, exactR, exactQ, out, pastR, pastQ, tinyR, tinyQ
  <2>5. QED
    BY <2>1, <2>2, <2>3, <2>4
<1>12. QED
  BY <1>1, <1>5, <1>6, <1>11, Zenon

\* The truncated root of a number.
LEMMA RootExists ==
  ASSUME NEW N \in Nat
  PROVE  \E K \in Nat : K * K <= N /\ N < (K + 1) * (K + 1)
<1> DEFINE P(x) == N < x * x
           S == {x \in Nat : P(x)}
<1>1. S \in SUBSET Nat /\ S # {}
  <2>1. (N + 1) * (N + 1) = ((N * N) + (2 * N)) + 1 /\ N * N \in Nat
    OBVIOUS
  <2>2. P(N + 1) /\ N + 1 \in Nat
    BY <2>1
  <2> HIDE DEF P
  <2>3. QED
    BY <2>2
<1>2. PICK x \in S : \A y \in S : x <= y
  <2> HIDE DEF S
  <2>1. QED
    BY <1>1, Least
<1>3. x \in Nat /\ P(x)
  OBVIOUS
<1>4. PICK K \in Nat : x = K + 1
  <2>1. x # 0
    BY <1>3
  <2>2. x - 1 \in Nat /\ x = (x - 1) + 1
    BY <1>3, <2>1
  <2>3. QED
    BY <2>2
<1>5. ~P(K)
  <2>1. ~(x <= K)
    BY <1>4
  <2>2. K \notin S
    <3> HIDE DEF S
    <3>1. QED
      BY <1>2, <2>1
  <2> HIDE DEF P
  <2>3. QED
    BY <2>2
<1>6. QED
  BY <1>3, <1>4, <1>5

\* Squares are in the order of their roots.
LEMMA SquareMonotonic ==
  \A x, y \in Nat : (x <= y => x * x <= y * y) /\ (x < y => x * x < y * y)
<1>1. TAKE x, y \in Nat
<1>2. x <= y => x * x <= x * y /\ y * x <= y * y /\ y * x = x * y
  BY ProductMonotonic
<1>3. PICK a \in Nat, b \in Nat, c \in Nat : a = x * x /\ b = x * y /\ c = y * y
  OBVIOUS
<1>4. x <= y => a <= c
  BY <1>2, <1>3
<1>5. x < y => a < c
  <2>1. SUFFICES ASSUME x < y PROVE a < c
    OBVIOUS
  <2>2. y * (x + 1) <= y * y
    BY <2>1, ProductMonotonic
  <2>3. y * (x + 1) = b + y
    BY <1>3
  <2>4. a <= b
    BY <1>2, <1>3, <2>1
  <2>5. QED
    BY <1>3, <2>1, <2>2, <2>3, <2>4
<1>6. QED
  BY <1>3, <1>4, <1>5

\* n / 2 lies on the same side of every number as the root of N.
IsRootHalf(N, n) == \A x \in Nat : (N < x * x <=> n < 2 * x) /\ (N = x * x <=> n = 2 * x)

\* Every root has such a number: the truncated root, and a half if it is not exact.
LEMMA RootHalfExists ==
  ASSUME NEW N \in Nat
  PROVE  \E n \in Nat : IsRootHalf(N, n)
<1>1. PICK K \in Nat : K * K <= N /\ N < (K + 1) * (K + 1)
  BY RootExists
<1>2. PICK n \in Nat : n = (2 * K) + (IF K * K = N THEN 0 ELSE 1)
  <2>1. (2 * K) + 0 \in Nat /\ (2 * K) + 1 \in Nat
    OBVIOUS
  <2>2. QED
    BY <2>1
<1>3. PICK c \in Nat, d \in Nat : c = K * K /\ d = (K + 1) * (K + 1)
  OBVIOUS
<1>4. ASSUME NEW x \in Nat
      PROVE  (N < x * x <=> n < 2 * x) /\ (N = x * x <=> n = 2 * x)
  <2>1. PICK y \in Nat : y = x * x
    OBVIOUS
  <2>2. K + 1 <= x => d <= y
    <3>1. K + 1 \in Nat
      OBVIOUS
    <3>2. QED
      BY <1>3, <2>1, <3>1, SquareMonotonic
  <2>3. x < K => y < c
    BY <1>3, <2>1, SquareMonotonic
  <2>4. x = K => y = c
    BY <1>3, <2>1
  <2>5. n = (2 * K) + (IF c = N THEN 0 ELSE 1)
    BY <1>2, <1>3
  <2>6. x < K \/ x = K \/ K + 1 <= x
    OBVIOUS
  <2>7. QED
    BY <1>1, <1>3, <2>1, <2>2, <2>3, <2>4, <2>5, <2>6
<1>5. QED
  BY <1>4 DEF IsRootHalf

\* s lies on the same side of every multiple of u as the root of N.
RootStands(s, N, u) ==
  \A t \in Nat : (N < (t * u) * (t * u) <=> s < t * u) /\ (N = (t * u) * (t * u) <=> s = t * u)

\* The root of m is the root of N in units of 2^k / 2^G.
RootInUnits(f, m, N, k) == Scales(m * (2^f.G * 2^f.G), N, 2 * k)

\* Two powers with the ratio 2^k.
PowersApart(k, R, Q) == (k >= 0 /\ R = 2^k /\ Q = 1) \/ (k < 0 /\ R = 1 /\ Q = 2^(-k))

\* The number under the root and the one it is in units of, both made whole.
LEMMA RootUnitsSquared ==
  ASSUME NEW x \in Nat, NEW N \in Nat, NEW k \in Int, Scales(x, N, 2 * k), NEW R \in Nat, NEW Q \in Nat, PowersApart(k, R, Q)
  PROVE  N * (R * R) = x * (Q * Q)
<1>1. CASE k >= 0
  <2>1. k \in Nat /\ R = 2^k /\ Q = 1
    BY <1>1 DEF PowersApart
  <2>2. PICK j \in Nat : j = 2 * k /\ j = k + k
    BY <2>1
  <2>3. x = N * 2^j
    BY <2>2, ScalesUp
  <2>4. 2^(k + k) = 2^k * 2^k
    BY <2>1, PowerSum
  <2>5. x = N * (R * R)
    BY <2>1, <2>2, <2>3, <2>4
  <2>6. PICK y \in Nat : y = N * (R * R)
    OBVIOUS
  <2>7. QED
    BY <2>1, <2>5, <2>6
<1>2. CASE k < 0
  <2>1. PICK l \in Nat : l = -k /\ R = 1 /\ Q = 2^l
    BY <1>2 DEF PowersApart
  <2>2. PICK j \in Nat : 2 * k = -j /\ j = l + l
    <3>1. l + l \in Nat /\ 2 * k = -(l + l)
      BY <2>1
    <3>2. QED
      BY <3>1
  <2>3. x * 2^j = N
    BY <2>2, ScalesDown
  <2>4. 2^(l + l) = 2^l * 2^l
    BY PowerSum
  <2>5. N = x * (Q * Q)
    BY <2>1, <2>2, <2>3, <2>4
  <2>6. N * (1 * 1) = N
    OBVIOUS
  <2>7. QED
    BY <2>1, <2>5, <2>6
<1>3. QED
  BY <1>1, <1>2

\* The half that stands for the root of N R^2, as the significand sees it ...
LEMMA RootHalfStands ==
  ASSUME NEW s \in Nat, NEW N \in Nat, NEW u \in Nat, RootStands(s, N, u), NEW R \in Nat \ {0},
         NEW L \in Nat, L = N * (R * R), NEW n \in Nat, IsRootHalf(L, n)
  PROVE  Stands(s, n, 2 * R, u)
<1>1. ASSUME NEW t \in Nat
      PROVE  (n < (t * u) * (2 * R) <=> s < t * u) /\ (n = (t * u) * (2 * R) <=> s = t * u)
  <2>1. PICK v \in Nat, y \in Nat, z \in Nat : v = t * u /\ y = v * v /\ z = v * R
    OBVIOUS
  <2>2. (L < z * z <=> n < 2 * z) /\ (L = z * z <=> n = 2 * z)
    BY Zenon DEF IsRootHalf
  <2>3. PICK c \in Nat \ {0} : c = R * R
    <3>1. R * R \in Nat \ {0}
      OBVIOUS
    <3>2. QED
      BY <3>1
  <2>4. z * z = c * y /\ L = c * N
    <3>1. (v * R) * (v * R) = (R * R) * (v * v)
      OBVIOUS
    <3>2. N * (R * R) = (R * R) * N
      OBVIOUS
    <3>3. QED
      BY <2>1, <2>3, <3>1, <3>2
  <2>5. (c * N < c * y <=> N < y) /\ (c * N = c * y <=> N = y)
    <3>1. c * N < c * y => N < y
      BY ProductCancel
    <3>2. N < y => c * N < c * y
      <4>1. SUFFICES ASSUME N < y PROVE c * N < c * y
        OBVIOUS
      <4>2. c * (N + 1) <= c * y
        BY <4>1, ProductMonotonic
      <4>3. PICK a \in Nat, b \in Nat : a = c * N /\ b = c * y
        OBVIOUS
      <4>4. c * (N + 1) = a + c
        BY <4>3
      <4>5. QED
        BY <4>2, <4>3, <4>4
    <3>3. c * N = c * y => N = y
      BY ProductSame
    <3>4. QED
      BY <3>1, <3>2, <3>3
  <2>6. (N < y <=> s < v) /\ (N = y <=> s = v)
    BY <2>1, Zenon DEF RootStands
  <2>7. (t * u) * (2 * R) = 2 * z
    <3>1. v * (2 * R) = 2 * (v * R)
      OBVIOUS
    <3>2. QED
      BY <2>1, <3>1
  <2>8. QED
    BY <2>1, <2>2, <2>4, <2>5, <2>6, <2>7
<1>2. QED
  BY <1>1 DEF Stands

\* ... and as the promise does.
LEMMA RootHalfSides ==
  ASSUME NEW m \in Nat, NEW u \in Nat \ {0}, NEW Q \in Nat \ {0}, NEW g \in Nat, g = 2 * u,
         NEW L \in Nat, L = (m * (g * g)) * (Q * Q), NEW n \in Nat, IsRootHalf(L, n), NEW den \in Nat, den = 2 * (g * Q)
  PROVE  SameSides(4 * m, n, den)
<1>1. ASSUME NEW t \in Nat
      PROVE  SameSign(RootSide(4 * m, t), RatioSide(n, den, t))
  <2>1. PICK v \in Nat \ {0} : v = u * Q
    <3>1. u * Q \in Nat \ {0}
      OBVIOUS
    <3>2. QED
      BY <3>1
  <2>2. PICK z \in Nat, y \in Nat : z = v * t /\ y = t * t
    OBVIOUS
  <2>3. (L < z * z <=> n < 2 * z) /\ (L = z * z <=> n = 2 * z)
    BY Zenon DEF IsRootHalf
  <2>4. PICK c \in Nat \ {0} : c = v * v
    <3>1. v * v \in Nat \ {0}
      OBVIOUS
    <3>2. QED
      BY <3>1
  <2>5. z * z = c * y /\ L = c * (4 * m)
    <3>1. (v * t) * (v * t) = (v * v) * (t * t)
      OBVIOUS
    <3>2. (m * ((2 * u) * (2 * u))) * (Q * Q) = ((u * Q) * (u * Q)) * (4 * m)
      OBVIOUS
    <3>3. QED
      BY <2>1, <2>2, <2>4, <3>1, <3>2
  <2>6. (c * (4 * m) < c * y <=> 4 * m < y) /\ (c * (4 * m) = c * y <=> 4 * m = y)
    <3>1. PICK N \in Nat : N = 4 * m
      OBVIOUS
    <3>2. c * N < c * y => N < y
      BY ProductCancel
    <3>3. N < y => c * N < c * y
      <4>1. SUFFICES ASSUME N < y PROVE c * N < c * y
        OBVIOUS
      <4>2. c * (N + 1) <= c * y
        BY <4>1, ProductMonotonic
      <4>3. PICK a \in Nat, b \in Nat : a = c * N /\ b = c * y
        OBVIOUS
      <4>4. c * (N + 1) = a + c
        BY <4>3
      <4>5. QED
        BY <4>2, <4>3, <4>4
    <3>4. c * N = c * y => N = y
      BY ProductSame
    <3>5. QED
      BY <3>1, <3>2, <3>3, <3>4
  <2>7. t * den = 4 * z
    <3>1. t * (2 * ((2 * u) * Q)) = 4 * ((u * Q) * t)
      OBVIOUS
    <3>2. QED
      BY <2>1, <2>2, <3>1
  <2>8. RootSide(4 * m, t) = (4 * m) - y /\ RatioSide(n, den, t) = (2 * n) - (4 * z)
    BY <2>2, <2>7, Zenon DEF RootSide, RatioSide
  <2>9. SameSign((4 * m) - y, (2 * n) - (4 * z))
    BY <2>3, <2>5, <2>6 DEF SameSign
  <2>10. QED
    BY <2>8, <2>9, Zenon
<1>2. QED
  BY <1>1 DEF SameSides

\* A significand that stands for a root is rounded to the promised root.
LEMMA RootRounds ==
  ASSUME NEW f, IsFormat(f), NEW h \in Nat \ {0}, NEW u \in Nat \ {0}, NEW b \in Nat, Sizes(f, h, u, b),
         NEW mode, IsMode(0, mode), NEW k \in Int, NEW s \in Nat, IsLeading(f, s),
         NEW N \in Nat, RootStands(s, N, u), NEW m \in Nat, RootInUnits(f, m, N, k)
  PROVE  softfloat_roundPackToF32(f, 0, k, s, mode)
           = RootFrom(f, 4 * m, mode, CHOOSE i \in 0..(Inf(f, 0) - 1) : IsRootLower(f, 4 * m, i))
<1>1. PICK g \in Nat \ {0} : g = 2 * u /\ g = 2^f.G
  <2>1. 2^f.G = 2 * u
    BY DEF Sizes
  <2>2. 2 * u \in Nat \ {0}
    OBVIOUS
  <2>3. QED
    BY <2>1, <2>2
<1>2. PICK R \in Nat \ {0}, Q \in Nat \ {0} : PowersApart(k, R, Q)
  <2>1. CASE k >= 0
    <3>1. k \in Nat
      BY <2>1
    <3>2. PICK R \in Nat \ {0}, Q \in Nat \ {0} : R = 2^k /\ Q = 1
      BY <3>1, PowerPositive
    <3>3. QED
      BY <2>1, <3>2 DEF PowersApart
  <2>2. CASE k < 0
    <3>1. -k \in Nat
      BY <2>2
    <3>2. PICK R \in Nat \ {0}, Q \in Nat \ {0} : R = 1 /\ Q = 2^(-k)
      BY <3>1, PowerPositive
    <3>3. QED
      BY <2>2, <3>2 DEF PowersApart
  <2>3. QED
    BY <2>1, <2>2
<1>3. PICK L \in Nat : L = N * (R * R) /\ L = (m * (g * g)) * (Q * Q)
  <2>1. PICK x \in Nat : x = m * (g * g)
    OBVIOUS
  <2>2. Scales(x, N, 2 * k)
    BY <1>1, <2>1 DEF RootInUnits
  <2>3. N * (R * R) = x * (Q * Q)
    BY <1>2, <2>2, RootUnitsSquared
  <2>4. N * (R * R) \in Nat
    OBVIOUS
  <2>5. QED
    BY <2>1, <2>3, <2>4
<1>4. PICK n \in Nat : IsRootHalf(L, n)
  BY RootHalfExists
<1>5. PICK den \in Nat \ {0}, d \in Nat \ {0} : den = 2 * (g * Q) /\ d = 2 * R
  <2>1. g * Q \in Nat \ {0}
    OBVIOUS
  <2>2. 2 * (g * Q) \in Nat \ {0} /\ 2 * R \in Nat \ {0}
    BY <2>1
  <2>3. QED
    BY <2>2
<1>6. Stands(s, n, d, u)
  BY <1>3, <1>4, <1>5, RootHalfStands
<1>7. InUnits(f, n, den, n, d, k)
  <2>1. Scales(n * (d * g), n * den, k)
    <3>1. CASE k >= 0
      <4>1. k \in Nat /\ R = 2^k /\ Q = 1
        BY <1>2, <3>1 DEF PowersApart
      <4>2. (n * ((2 * R) * g)) * 1 = (n * (2 * (g * 1))) * R
        OBVIOUS
      <4>3. (n * (d * g)) * 2^0 = (n * den) * 2^k
        BY <1>5, <4>1, <4>2, PowerZero
      <4>4. k - 0 = k /\ 0 \in Nat
        BY <4>1
      <4>5. QED
        BY <4>1, <4>3, <4>4, Zenon DEF Scales
    <3>2. CASE k < 0
      <4>1. -k \in Nat /\ R = 1 /\ Q = 2^(-k)
        BY <1>2, <3>2 DEF PowersApart
      <4>2. (n * ((2 * 1) * g)) * Q = (n * (2 * (g * Q))) * 1
        OBVIOUS
      <4>3. (n * (d * g)) * 2^(-k) = (n * den) * 2^0
        BY <1>5, <4>1, <4>2, PowerZero
      <4>4. 0 - (-k) = k /\ 0 \in Nat
        OBVIOUS
      <4>5. QED
        BY <4>1, <4>3, <4>4, Zenon DEF Scales
    <3>3. QED
      BY <3>1, <3>2
  <2>2. QED
    BY <1>1, <2>1 DEF InUnits
<1>8. softfloat_roundPackToF32(f, 0, k, s, mode) = RoundedRatio(f, 0, n, den, mode)
  <2>1. Stands(s, n, d, 2^(f.G - 1))
    <3>1. 2^(f.G - 1) = u
      BY DEF Sizes
    <3>2. QED
      BY <1>6, <3>1
  <2>2. QED
    BY <1>7, <2>1, RoundPack
<1>9. SameSides(4 * m, n, den)
  BY <1>1, <1>3, <1>4, <1>5, RootHalfSides
<1>10. hidden(f) = h /\ Inf(f, 0) \in Nat \ {0}
  <2>1. hidden(f) = h /\ b >= 2
    BY DEF Sizes
  <2>2. Inf(f, 0) = ((2 * b) - 1) * h
    <3>1. PICK z \in Int : z = 0
      OBVIOUS
    <3>2. QED
      BY <3>1, InfIs
  <2>3. PICK x \in Nat \ {0} : x = (2 * b) - 1
    BY <2>1
  <2>4. x * h \in Nat \ {0}
    OBVIOUS
  <2>5. QED
    BY <2>1, <2>2, <2>3, <2>4
<1>11. QED
  BY <1>8, <1>9, <1>10, RootAsRatio

\* The significand's factor for an exponent whose last bit is p.
IsParity(p, u, v) == (p = 0 /\ v = u) \/ (p = 1 /\ u = 2 * v)

\* The exponent of a root.
RootExp(f, e) == ((e - bias(f)) \div 2) + bias(f) - 1

\* The root of an operand, in units of the root of its significand.
LEMMA RootUnits ==
  ASSUME NEW f, IsFormat(f), NEW h \in Nat \ {0}, NEW u \in Nat \ {0}, NEW b \in Nat, Sizes(f, h, u, b),
         NEW mA \in Nat, NEW sig \in Nat, NEW e \in Int, Scales(mA, sig, e - 1),
         NEW p, p = e % 2, NEW v \in Nat, IsParity(p, u, v),
         NEW g \in Nat, g = 2 * u, NEW W \in Nat, W = 4 * (h * g), NEW N \in Nat, N = (sig * v) * W,
         NEW m \in Nat, m = mA * Unity(f)
  PROVE  RootInUnits(f, m, N, RootExp(f, e)) /\ RootExp(f, e) \in Int
<1>1. g = 2^f.G
  BY DEF Sizes
<1>2. PICK B \in Nat \ {0}, c \in Nat : Unity(f) = h * B /\ 2^bias(f) = 2 * B /\ bias(f) = c /\ c % 2 = 1
  <2>1. PICK B \in Nat \ {0} : Unity(f) = h * B /\ 2^bias(f) = 2 * B /\ bias(f) \in Nat
    BY UnityIs
  <2>2. PICK n \in Nat : f.E - 1 = n + 1
    <3>1. f.E \in Nat /\ f.E >= 2
      BY DEF IsFormat
    <3>2. f.E - 2 \in Nat /\ f.E - 1 = (f.E - 2) + 1
      BY <3>1
    <3>3. QED
      BY <3>2
  <2>3. PICK x \in Nat : x = 2^n /\ b = 2 * x
    <3>1. 2^(n + 1) = 2 * 2^n /\ 2^n \in Nat
      BY PowerNext, PowerPositive
    <3>2. b = 2^(f.E - 1)
      BY DEF Sizes
    <3>3. QED
      BY <2>2, <3>1, <3>2
  <2>4. bias(f) = b - 1
    BY DEF Sizes
  <2>5. bias(f) % 2 = 1
    BY <2>1, <2>3, <2>4
  <2>6. QED
    BY <2>1, <2>5
<1>3. PICK U \in Nat : U = Unity(f) /\ U = h * B
  BY <1>2
<1>4. p \in 0..1 /\ RootExp(f, e) \in Int /\ 2 * RootExp(f, e) = (e - 1) + ((c + p) - 2)
  <2>1. RootExp(f, e) = (((e - c) \div 2) + c) - 1
    BY <1>2 DEF RootExp
  <2>2. PICK q \in Int, r \in 0..1 : q = (e - c) \div 2 /\ r = (e - c) % 2 /\ e - c = (2 * q) + r
    <3>1. PICK x \in Int : x = e - c
      OBVIOUS
    <3>2. x \div 2 \in Int /\ x % 2 \in 0..1 /\ x = (2 * (x \div 2)) + (x % 2)
      OBVIOUS
    <3>3. QED
      BY <3>1, <3>2
  <2>3. p \in 0..1 /\ r = 1 - p
    BY <1>2, <2>2
  <2>4. QED
    BY <2>1, <2>2, <2>3
<1>5. PICK P \in Nat : P = 2^p /\ u = v * P
  <2>1. CASE p = 0
    <3>1. v = u
      BY <2>1 DEF IsParity
    <3>2. 2^p = 1
      BY <2>1, PowerZero, Zenon
    <3>3. u = v * 1
      BY <3>1
    <3>4. QED
      BY <3>2, <3>3
  <2>2. CASE p = 1
    <3>1. u = 2 * v
      BY <2>2 DEF IsParity
    <3>2. 2^p = 2
      BY <2>2, PowerOne, Zenon
    <3>3. u = v * 2
      BY <3>1
    <3>4. QED
      BY <3>2, <3>3
  <2>3. QED
    BY <1>4, <2>1, <2>2
<1>6. Scales(U * (g * g), v * W, (c + p) - 2)
  <2>1. 2^(c + p) = (2 * B) * P /\ 2^2 = 4
    <3>1. c \in Nat /\ p \in Nat
      BY <1>4
    <3>2. 2^(c + p) = 2^c * 2^p
      BY <3>1, PowerSum
    <3>3. 2^(1 + 1) = 2 * 2^1 /\ 1 + 1 = 2
      BY PowerNext
    <3>4. QED
      BY <1>2, <1>5, <3>2, <3>3, PowerOne
  <2>2. (U * (g * g)) * 4 = (v * W) * ((2 * B) * P)
    <3>1. ((h * B) * ((2 * (v * P)) * g)) * 4 = (v * (4 * (h * g))) * ((2 * B) * P)
      OBVIOUS
    <3>2. QED
      BY <1>3, <1>5, <3>1
  <2>3. c + p \in Nat /\ 2 \in Nat
    BY <1>4
  <2>4. QED
    BY <2>1, <2>2, <2>3 DEF Scales
<1>7. Scales(mA * (U * (g * g)), sig * (v * W), (e - 1) + ((c + p) - 2))
  <2>1. U * (g * g) \in Nat /\ v * W \in Nat
    OBVIOUS
  <2>2. e - 1 \in Int /\ (c + p) - 2 \in Int
    BY <1>4
  <2>3. QED
    BY <1>6, <2>1, <2>2, ScalesProduct
<1>8. mA * (U * (g * g)) = m * (g * g) /\ sig * (v * W) = N
  <2>1. mA * (U * (g * g)) = (mA * U) * (g * g) /\ sig * (v * W) = (sig * v) * W
    OBVIOUS
  <2>2. QED
    BY <1>3, <2>1
<1>9. Scales(m * (g * g), N, 2 * RootExp(f, e))
  BY <1>4, <1>7, <1>8, Zenon
<1>10. QED
  BY <1>1, <1>4, <1>9 DEF RootInUnits

\* The root of a significand has its leading bit in its place.
LEMMA RootLeads ==
  ASSUME NEW f, NEW h \in Nat \ {0}, NEW u \in Nat \ {0}, NEW b \in Nat, Sizes(f, h, u, b),
         NEW sig \in h..((2 * h) - 1), NEW p, NEW v \in Nat, IsParity(p, u, v),
         NEW g \in Nat, g = 2 * u, NEW W \in Nat, W = 4 * (h * g), NEW N \in Nat, N = (sig * v) * W,
         NEW s \in Nat, RootStands(s, N, u)
  PROVE  IsLeading(f, s)
<1>1. PICK y \in Nat \ {0} : y = h * u /\ (2 * h) * u = 2 * y /\ (4 * h) * u = 4 * y /\ h * g = 2 * y
  <2>1. h * u \in Nat \ {0}
    OBVIOUS
  <2>2. PICK y \in Nat \ {0} : y = h * u
    BY <2>1
  <2>3. QED
    BY <2>2
<1>2. PICK c \in Nat : N = (8 * y) * c /\ y <= 2 * c /\ c < 2 * y
  <2>1. h * u <= sig * u /\ (sig + 1) * u <= (2 * h) * u
    <3>1. u * h <= u * sig /\ u * (sig + 1) <= u * (2 * h)
      BY ProductMonotonic
    <3>2. QED
      BY <3>1
  <2>2. PICK x \in Nat, z \in Nat : x = sig * u /\ z = sig * v
    OBVIOUS
  <2>3. (sig + 1) * u = x + u
    BY <2>2
  <2>4. N = (8 * y) * z
    <3>1. W = 8 * y
      BY <1>1
    <3>2. z * (8 * y) = (8 * y) * z
      OBVIOUS
    <3>3. QED
      BY <2>2, <3>1, <3>2
  <2>5. z = x \/ x = 2 * z
    <3>1. CASE v = u
      BY <2>2, <3>1
    <3>2. CASE u = 2 * v
      <4>1. sig * (2 * v) = 2 * (sig * v)
        OBVIOUS
      <4>2. QED
        BY <2>2, <3>2, <4>1
    <3>3. QED
      BY <3>1, <3>2 DEF IsParity
  <2>6. QED
    BY <1>1, <2>1, <2>2, <2>3, <2>4, <2>5
<1>3. ~(N < ((2 * h) * u) * ((2 * h) * u)) /\ N < ((4 * h) * u) * ((4 * h) * u)
  <2>1. (4 * y) * y <= (4 * y) * (2 * c) /\ (8 * y) * (c + 1) <= (8 * y) * (2 * y)
    BY <1>2, ProductMonotonic
  <2>2. PICK a \in Nat, q \in Nat : a = y * c /\ q = y * y
    OBVIOUS
  <2>3. /\ (4 * y) * y = 4 * q /\ (4 * y) * (2 * c) = 8 * a /\ (8 * y) * (c + 1) = (8 * a) + (8 * y)
        /\ (8 * y) * (2 * y) = 16 * q /\ (8 * y) * c = 8 * a /\ (2 * y) * (2 * y) = 4 * q /\ (4 * y) * (4 * y) = 16 * q
    BY <2>2
  <2>4. N = 8 * a /\ 4 * q <= 8 * a /\ 8 * a < 16 * q
    BY <1>2, <2>1, <2>2, <2>3
  <2>5. ((2 * h) * u) * ((2 * h) * u) = 4 * q /\ ((4 * h) * u) * ((4 * h) * u) = 16 * q
    BY <1>1, <2>3
  <2>6. QED
    BY <2>2, <2>4, <2>5
<1>4. ~(s < (2 * h) * u) /\ s < (4 * h) * u
  <2>1. 2 * h \in Nat /\ 4 * h \in Nat
    OBVIOUS
  <2>2. /\ N < ((2 * h) * u) * ((2 * h) * u) <=> s < (2 * h) * u
        /\ N < ((4 * h) * u) * ((4 * h) * u) <=> s < (4 * h) * u
    BY <2>1, Zenon DEF RootStands
  <2>3. QED
    BY <1>3, <2>2, Zenon
<1>5. 2^(f.F + f.G) = 2 * y /\ top(f) = 4 * y
  <2>1. 2^(f.F + f.G) = h * (2 * u) /\ top(f) = 2 * (h * (2 * u))
    BY DEF Sizes
  <2>2. QED
    BY <1>1, <2>1
<1>6. QED
  BY <1>1, <1>4, <1>5 DEF IsLeading

-----------------------------------------------------------------------------
(* The loop that lowers the root.                                          *)

\* K is the truncated root of N.
IsRoot(N, K) == K * K <= N /\ N < (K + 1) * (K + 1)

\* What n rounds of the loop make of the remainder.
RootRem(z, rem, low, n) == ((rem + (2 * (n * z))) - (n * (n + 1))) + (n * low)
\* The loop ends after n rounds.
EndsAfter(z, rem, low, n) == RootRem(z, rem, low, n) >= 0 /\ \A m \in 0..(n - 1) : RootRem(z, rem, low, m) < 0
\* r is what the square of z leaves of N.
RemainderOf(N, z, r) == r = N - (z * z)
\* The remainder after the first round.
NextRootRem(z, rem, low) == rem + 2 * (z - 1) + low

\* The rounds after the first are those of the root and the remainder that it leaves.
LEMMA RootRemNext ==
  ASSUME NEW z \in Int, NEW rem \in Int, NEW low \in Int, NEW n \in Nat
  PROVE  /\ RootRem(z, rem, low, n) \in Int /\ RootRem(z, rem, low, 0) = rem
         /\ NextRootRem(z, rem, low) \in Int
         /\ RootRem(z, rem, low, n + 1) = RootRem(z - 1, NextRootRem(z, rem, low), low, n)
<1>1. RootRem(z, rem, low, n) \in Int /\ RootRem(z, rem, low, 0) = rem
  BY DEF RootRem
<1>2. PICK a \in Int, s \in Int, l \in Int : a = n * z /\ s = n * n /\ l = n * low
  OBVIOUS
<1>3. RootRem(z, rem, low, n + 1) = ((rem + (2 * (a + z))) - (s + (3 * n) + 2)) + (l + low)
  <2>1. (n + 1) * z = a + z /\ (n + 1) * ((n + 1) + 1) = s + (3 * n) + 2 /\ (n + 1) * low = l + low
    BY <1>2
  <2>2. QED
    BY <2>1, Zenon DEF RootRem
<1>4. PICK q \in Int, y \in Int : q = NextRootRem(z, rem, low) /\ q = rem + 2 * (z - 1) + low /\ y = z - 1
  BY DEF NextRootRem
<1>5. RootRem(y, q, low, n) = ((q + (2 * (a - n))) - (s + n)) + l
  <2>1. n * (z - 1) = a - n /\ n * (n + 1) = s + n
    BY <1>2
  <2>2. n * y = a - n
    BY <1>4, <2>1
  <2>3. QED
    BY <1>2, <2>1, <2>2, Zenon DEF RootRem
<1>6. RootRem(z, rem, low, n + 1) = RootRem(y, q, low, n)
  BY <1>2, <1>3, <1>4, <1>5
<1>7. QED
  BY <1>1, <1>4, <1>6, Zenon

\* A loop that goes on ends one round after the loop that goes on from there.
LEMMA EndsNext ==
  ASSUME NEW z \in Int, NEW rem \in Int, NEW low \in Int, NEW n \in Nat, rem < 0
  PROVE  EndsAfter(z, rem, low, n + 1) <=> EndsAfter(z - 1, NextRootRem(z, rem, low), low, n)
<1> DEFINE A(m) == RootRem(z, rem, low, m)
           B(m) == RootRem(z - 1, NextRootRem(z, rem, low), low, m)
<1>1. \A m \in Nat : A(m + 1) = B(m) /\ A(0) = rem
  BY RootRemNext
<1>2. /\ EndsAfter(z, rem, low, n + 1) <=> A(n + 1) >= 0 /\ \A m \in 0..((n + 1) - 1) : A(m) < 0
      /\ EndsAfter(z - 1, NextRootRem(z, rem, low), low, n) <=> B(n) >= 0 /\ \A m \in 0..(n - 1) : B(m) < 0
  BY Zenon DEF EndsAfter
<1> HIDE DEF A, B
<1>3. (\A m \in 0..((n + 1) - 1) : A(m) < 0) <=> (\A m \in 0..(n - 1) : B(m) < 0)
  <2>1. ASSUME \A m \in 0..((n + 1) - 1) : A(m) < 0, NEW m \in 0..(n - 1) PROVE B(m) < 0
    <3>1. m \in Nat /\ m + 1 \in 0..((n + 1) - 1)
      OBVIOUS
    <3>2. QED
      BY <1>1, <2>1, <3>1
  <2>2. ASSUME \A m \in 0..(n - 1) : B(m) < 0, NEW m \in 0..((n + 1) - 1) PROVE A(m) < 0
    <3>1. CASE m = 0
      BY <1>1, <3>1
    <3>2. CASE m # 0
      <4>1. PICK k \in Nat : m = k + 1 /\ k \in 0..(n - 1)
        <5>1. m - 1 \in Nat /\ m = (m - 1) + 1 /\ m - 1 \in 0..(n - 1)
          BY <3>2
        <5>2. QED
          BY <5>1
      <4>2. QED
        BY <1>1, <2>2, <4>1
    <3>3. QED
      BY <3>1, <3>2
  <2>3. QED
    BY <2>1, <2>2
<1>4. QED
  BY <1>1, <1>2, <1>3

\* It ends once.
LEMMA EndsOnce ==
  ASSUME NEW z \in Int, NEW rem \in Int, NEW low \in Int, NEW n \in Nat, NEW m \in Nat,
         EndsAfter(z, rem, low, n), EndsAfter(z, rem, low, m)
  PROVE  n = m
<1>1. ASSUME NEW i \in Nat, NEW j \in Nat, EndsAfter(z, rem, low, i), EndsAfter(z, rem, low, j), i < j PROVE FALSE
  <2>1. i \in 0..(j - 1)
    BY <1>1
  <2>2. RootRem(z, rem, low, i) >= 0 /\ RootRem(z, rem, low, i) < 0
    BY <1>1, <2>1 DEF EndsAfter
  <2>3. RootRem(z, rem, low, i) \in Int
    BY RootRemNext
  <2>4. QED
    BY <2>2, <2>3
<1>2. QED
  BY <1>1

\* L satisfies the equation of the loop.
LowersRoot(L, low) ==
  L = [s \in Int \X Int |->
         IF s[2] < 0 THEN L[<<s[1] - 1, s[2] + 2 * (s[1] - 1) + low>>] ELSE Jammed(s[1], s[2] # 0)]

\* There is such an L: it is known where the loop ends, and free where it does not.
LEMMA LowersRootExists == \A low \in Int : \E L : LowersRoot(L, low)
<1> SUFFICES ASSUME NEW low \in Int PROVE \E L : LowersRoot(L, low)
  OBVIOUS
<1> DEFINE ends(z, r)  == \E n \in Nat : EndsAfter(z, r, low, n)
           last(z, r)  == CHOOSE n \in Nat : EndsAfter(z, r, low, n)
           root(z, r)  == Jammed(z - last(z, r), RootRem(z, r, low, last(z, r)) # 0)
           value(z, r) == IF ends(z, r) THEN root(z, r) ELSE 0
           L == [s \in Int \X Int |-> value(s[1], s[2])]
<1>1. ASSUME NEW z \in Int, NEW r \in Int, NEW n \in Nat, EndsAfter(z, r, low, n)
      PROVE  value(z, r) = Jammed(z - n, RootRem(z, r, low, n) # 0)
  <2>1. ends(z, r)
    BY <1>1, Zenon
  <2>2. last(z, r) \in Nat /\ EndsAfter(z, r, low, last(z, r))
    BY <1>1, Zenon
  <2>3. last(z, r) = n
    <3> HIDE DEF last
    <3>1. QED
      BY <1>1, <2>2, EndsOnce
  <2>4. QED
    BY <2>1, <2>3, Zenon
<1>2. ASSUME NEW z \in Int, NEW r \in Int, ~(r < 0)
      PROVE  value(z, r) = Jammed(z, r # 0)
  <2>1. 0 \in Nat /\ RootRem(z, r, low, 0) = r
    BY RootRemNext
  <2>2. EndsAfter(z, r, low, 0)
    BY <1>2, <2>1 DEF EndsAfter
  <2>3. value(z, r) = Jammed(z - 0, RootRem(z, r, low, 0) # 0)
    BY <1>1, <2>1, <2>2, Zenon
  <2>4. z - 0 = z
    OBVIOUS
  <2>5. QED
    BY <2>1, <2>3, <2>4, Zenon
<1>3. ASSUME NEW z \in Int, NEW r \in Int, r < 0
      PROVE  value(z, r) = value(z - 1, NextRootRem(z, r, low))
  <2>1. PICK y \in Int, q \in Int : y = z - 1 /\ q = NextRootRem(z, r, low)
    <3>1. NextRootRem(z, r, low) \in Int /\ z - 1 \in Int
      BY DEF NextRootRem
    <3>2. QED
      BY <3>1
  <2>2. CASE \E n \in Nat : EndsAfter(y, q, low, n)
    <3>1. PICK n \in Nat : EndsAfter(y, q, low, n)
      BY <2>2
    <3>2. n + 1 \in Nat /\ EndsAfter(z, r, low, n + 1)
      BY <1>3, <2>1, <3>1, EndsNext
    <3>3. value(z, r) = Jammed(z - (n + 1), RootRem(z, r, low, n + 1) # 0)
      BY <1>1, <3>2, Zenon
    <3>4. value(y, q) = Jammed(y - n, RootRem(y, q, low, n) # 0)
      BY <1>1, <3>1, Zenon
    <3>5. z - (n + 1) = y - n /\ RootRem(z, r, low, n + 1) = RootRem(y, q, low, n)
      BY <2>1, RootRemNext
    <3>6. QED
      BY <2>1, <3>3, <3>4, <3>5, Zenon
  <2>3. CASE ~\E n \in Nat : EndsAfter(y, q, low, n)
    <3>1. ASSUME NEW n \in Nat, EndsAfter(z, r, low, n) PROVE FALSE
      <4>1. n # 0
        <5>1. RootRem(z, r, low, 0) = r
          BY RootRemNext
        <5>2. QED
          BY <1>3, <3>1, <5>1 DEF EndsAfter
      <4>2. PICK k \in Nat : n = k + 1
        <5>1. n - 1 \in Nat /\ n = (n - 1) + 1
          BY <4>1
        <5>2. QED
          BY <5>1
      <4>3. EndsAfter(y, q, low, k)
        BY <1>3, <2>1, <3>1, <4>2, EndsNext
      <4>4. QED
        BY <2>3, <4>3
    <3>2. value(z, r) = 0 /\ value(y, q) = 0
      BY <2>3, <3>1, Zenon
    <3>3. QED
      BY <2>1, <3>2, Zenon
  <2>4. QED
    BY <2>2, <2>3
<1> HIDE DEF value
<1>4. ASSUME NEW s \in Int \X Int
      PROVE  L[s] = IF s[2] < 0 THEN L[<<s[1] - 1, s[2] + 2 * (s[1] - 1) + low>>] ELSE Jammed(s[1], s[2] # 0)
  <2>1. PICK z \in Int, r \in Int : s = <<z, r>> /\ s[1] = z /\ s[2] = r
    OBVIOUS
  <2>2. \A y, q \in Int : L[<<y, q>>] = value(y, q)
    OBVIOUS
  <2>3. z - 1 \in Int /\ NextRootRem(z, r, low) \in Int /\ NextRootRem(z, r, low) = r + 2 * (z - 1) + low
    <3>1. NextRootRem(z, r, low) \in Int
      BY RootRemNext
    <3>2. QED
      BY <3>1 DEF NextRootRem
  <2> HIDE DEF L
  <2>4. L[s] = value(z, r) /\ L[<<z - 1, r + 2 * (z - 1) + low>>] = value(z - 1, NextRootRem(z, r, low))
    BY <2>1, <2>2, <2>3, Zenon
  <2>5. value(z, r) = IF r < 0 THEN value(z - 1, NextRootRem(z, r, low)) ELSE Jammed(z, r # 0)
    BY <1>2, <1>3
  <2>6. QED
    BY <2>1, <2>4, <2>5, Zenon
<1>5. LowersRoot(L, low)
  <2>1. L = [s \in Int \X Int |-> L[s]]
    OBVIOUS
  <2> HIDE DEF L
  <2>2. QED
    BY <1>4, <2>1 DEF LowersRoot
<1>6. QED
  <2> HIDE DEF L
  <2>1. QED
    BY <1>5

\* What the loop makes of a root, wherever it ends.
LEMMA LowerRootIs ==
  ASSUME NEW z \in Int, NEW rem \in Int, NEW low \in Int, NEW n \in Nat, EndsAfter(z, rem, low, n)
  PROVE  LowerRoot(z, rem, low) = Jammed(z - n, RootRem(z, rem, low, n) # 0)
<1> DEFINE L == CHOOSE L : LowersRoot(L, low)
           P(k) == \A y, r \in Int : EndsAfter(y, r, low, k) => L[<<y, r>>] = Jammed(y - k, RootRem(y, r, low, k) # 0)
           S == {k \in Nat : ~P(k)}
<1>1. \A a, r \in Int : LowerRoot(a, r, low) = L[<<a, r>>]
  BY Zenon DEF LowerRoot, LowersRoot
<1>2. LowersRoot(L, low)
  BY LowersRootExists, Zenon
<1>3. ASSUME NEW a \in Int, NEW r \in Int
      PROVE  L[<<a, r>>] = IF r < 0 THEN L[<<a - 1, NextRootRem(a, r, low)>>] ELSE Jammed(a, r # 0)
  <2> HIDE DEF L
  <2>1. <<a, r>> \in Int \X Int
    OBVIOUS
  <2>2. QED
    BY <1>2, <2>1 DEF LowersRoot, NextRootRem
<1> HIDE DEF L
<1>4. P(0)
  <2>1. ASSUME NEW y \in Int, NEW r \in Int, EndsAfter(y, r, low, 0)
        PROVE  L[<<y, r>>] = Jammed(y - 0, RootRem(y, r, low, 0) # 0)
    <3>1. RootRem(y, r, low, 0) = r
      BY RootRemNext
    <3>2. ~(r < 0)
      BY <2>1, <3>1 DEF EndsAfter
    <3>3. y - 0 = y
      OBVIOUS
    <3>4. L[<<y, r>>] = Jammed(y, r # 0)
      BY <1>3, <3>2
    <3>5. QED
      BY <3>1, <3>3, <3>4, Zenon
  <2>2. QED
    BY <2>1
<1>5. ASSUME NEW k \in Nat, P(k) PROVE P(k + 1)
  <2>1. ASSUME NEW y \in Int, NEW r \in Int, EndsAfter(y, r, low, k + 1)
        PROVE  L[<<y, r>>] = Jammed(y - (k + 1), RootRem(y, r, low, k + 1) # 0)
    <3>1. RootRem(y, r, low, 0) = r
      BY RootRemNext
    <3>2. r < 0
      <4>1. 0 \in 0..((k + 1) - 1)
        OBVIOUS
      <4>2. QED
        BY <2>1, <3>1, <4>1 DEF EndsAfter
    <3>3. PICK x \in Int, q \in Int : x = y - 1 /\ q = NextRootRem(y, r, low)
      <4>1. NextRootRem(y, r, low) \in Int /\ y - 1 \in Int
        BY DEF NextRootRem
      <4>2. QED
        BY <4>1
    <3>4. EndsAfter(x, q, low, k)
      BY <2>1, <3>2, <3>3, EndsNext
    <3>5. L[<<x, q>>] = Jammed(x - k, RootRem(x, q, low, k) # 0)
      BY <1>5, <3>4
    <3>6. L[<<y, r>>] = L[<<x, q>>]
      BY <1>3, <3>2, <3>3
    <3>7. x - k = y - (k + 1) /\ RootRem(x, q, low, k) = RootRem(y, r, low, k + 1)
      BY <3>3, RootRemNext
    <3>8. QED
      BY <3>5, <3>6, <3>7, Zenon
  <2>2. QED
    BY <2>1
<1>6. S = {}
  <2> SUFFICES ASSUME S # {} PROVE FALSE
    OBVIOUS
  <2>1. S \in SUBSET Nat
    OBVIOUS
  <2>2. PICK k \in S : \A i \in S : k <= i
    <3> HIDE DEF S
    <3>1. QED
      BY <2>1, Least
  <2> HIDE DEF P
  <2>3. k \in Nat /\ ~P(k)
    BY <2>2
  <2>4. k # 0
    BY <1>4, <2>3
  <2>5. PICK j \in Nat : k = j + 1
    <3>1. k - 1 \in Nat /\ k = (k - 1) + 1
      BY <2>3, <2>4
    <3>2. QED
      BY <3>1
  <2>6. ~(k <= j)
    BY <2>3, <2>5
  <2>7. j \notin S
    <3> HIDE DEF S
    <3>1. QED
      BY <2>2, <2>6
  <2>8. P(j)
    BY <2>7
  <2>9. QED
    BY <1>5, <2>3, <2>5, <2>8
<1>7. P(n)
  <2> HIDE DEF P
  <2>1. QED
    BY <1>6
<1>8. LowerRoot(z, rem, low) = L[<<z, rem>>]
  BY <1>1
<1>9. QED
  BY <1>7, <1>8

\* The remainders that the loop comes to from N less the square of z.
LEMMA RootRemIs ==
  ASSUME NEW N \in Nat, NEW z \in Nat, NEW r \in Int, RemainderOf(N, z, r), NEW n \in Nat,
         NEW j \in Nat, z = j + n, NEW a \in Nat, Times(j, j, a)
  PROVE  RootRem(z, r, 1, n) = N - a /\ RootRem(z, r, 0, n) = (N - a) - n
<1>1. PICK s \in Nat, d \in Nat : s = n * n /\ d = j * n
  OBVIOUS
<1>2. r = N - (a + (2 * d) + s)
  <2>1. (j + n) * (j + n) = a + (2 * d) + s
    BY <1>1 DEF Times
  <2>2. z * z = a + (2 * d) + s
    BY <2>1, Zenon
  <2>3. QED
    BY <2>2 DEF RemainderOf
<1>3. n * z = d + s /\ n * (n + 1) = s + n
  <2>1. n * (j + n) = d + s /\ n * (n + 1) = s + n
    BY <1>1
  <2>2. QED
    BY <2>1
<1>4. /\ RootRem(z, r, 1, n) = ((r + (2 * (d + s))) - (s + n)) + (n * 1)
      /\ RootRem(z, r, 0, n) = ((r + (2 * (d + s))) - (s + n)) + (n * 0)
  BY <1>3, Zenon DEF RootRem
<1>5. QED
  BY <1>1, <1>2, <1>4

\* f32_sqrt's steps of 2 z + 1 keep the remainder exact: the root ends as the truncated one,
\* with what is left jammed into it.
LEMMA WordRootLowers ==
  ASSUME NEW N \in Nat, NEW K \in Nat, IsRoot(N, K), NEW z \in Nat, K <= z
  PROVE  LowerRoot(z, N - (z * z), 1) = Jammed(K, K * K # N)
<1>1. PICK n \in Nat : z = K + n
  <2>1. z - K \in Nat /\ z = K + (z - K)
    OBVIOUS
  <2>2. QED
    BY <2>1
<1>2. PICK a \in Nat, b \in Nat : a = K * K /\ b = (K + 1) * (K + 1) /\ a <= N /\ N < b
  BY DEF IsRoot
<1>3. PICK rem \in Int : rem = N - (z * z) /\ RemainderOf(N, z, rem)
  BY DEF RemainderOf
<1>4. RootRem(z, rem, 1, n) = N - a
  <2>1. Times(K, K, a)
    BY <1>2 DEF Times
  <2>2. QED
    BY <1>1, <1>2, <1>3, <2>1, RootRemIs
<1>5. ASSUME NEW m \in 0..(n - 1) PROVE RootRem(z, rem, 1, m) < 0
  <2>1. PICK j \in Nat : z = j + m /\ K + 1 <= j
    <3>1. z - m \in Nat /\ z = (z - m) + m /\ K + 1 <= z - m
      BY <1>1
    <3>2. QED
      BY <3>1
  <2>2. b <= j * j
    <3>1. K + 1 \in Nat
      OBVIOUS
    <3>2. QED
      BY <1>2, <2>1, <3>1, SquareMonotonic
  <2>3. PICK q \in Nat : q = j * j
    OBVIOUS
  <2>4. RootRem(z, rem, 1, m) = N - q
    <3>1. Times(j, j, q) /\ m \in Nat
      BY <2>3 DEF Times
    <3>2. QED
      BY <1>3, <2>1, <2>3, <3>1, RootRemIs
  <2>5. QED
    BY <1>2, <2>2, <2>3, <2>4
<1>6. EndsAfter(z, rem, 1, n)
  BY <1>2, <1>4, <1>5 DEF EndsAfter
<1>7. LowerRoot(z, rem, 1) = Jammed(z - n, RootRem(z, rem, 1, n) # 0)
  <2>1. z \in Int /\ 1 \in Int
    OBVIOUS
  <2>2. QED
    BY <1>6, <2>1, LowerRootIs
<1>8. z - n = K /\ (RootRem(z, rem, 1, n) # 0 <=> K * K # N)
  BY <1>1, <1>2, <1>4
<1>9. (RootRem(z, rem, 1, n) # 0) = (K * K # N)
  BY <1>8
<1>10. QED
  BY <1>3, <1>7, <1>8, <1>9, Zenon

\* A square is not 1 to 6 below a multiple of 16.
LEMMA SquareGap ==
  ASSUME NEW N \in Nat, N % 16 = 0, NEW R \in Nat, NEW c \in Nat, c = R * R, c < N
  PROVE  c + 7 <= N
<1>1. PICK a \in Nat, b \in 0..7 : R = (8 * a) + b
  <2>1. R \div 8 \in Nat /\ R % 8 \in 0..7 /\ R = (8 * (R \div 8)) + (R % 8)
    OBVIOUS
  <2>2. QED
    BY <2>1
<1>2. PICK k \in Nat : c = (16 * k) + (b * b)
  <2>1. PICK s \in Nat, d \in Nat : s = a * a /\ d = a * b
    OBVIOUS
  <2>2. ((8 * a) + b) * ((8 * a) + b) = (16 * ((4 * s) + d)) + (b * b)
    BY <2>1
  <2>3. (4 * s) + d \in Nat
    OBVIOUS
  <2>4. QED
    BY <1>1, <2>2, <2>3
<1>3. b * b \in {0, 1, 4, 9, 16, 25, 36, 49}
  <2>1. b \in {0, 1, 2, 3, 4, 5, 6, 7}
    OBVIOUS
  <2>2. QED
    BY <2>1
<1>4. PICK M \in Nat : N = 16 * M
  <2>1. N \div 16 \in Nat /\ N = 16 * (N \div 16)
    OBVIOUS
  <2>2. QED
    BY <2>1
<1>5. PICK d \in {0, 1, 4, 9, 16, 25, 36, 49} : c = (16 * k) + d
  BY <1>2, <1>3
<1>6. QED
  BY <1>4, <1>5

\* f64_sqrt's steps of 2 z leave one less in each round.  A root at most six too large still ends
\* as the truncated one, unless it is exact: an exact root must not have to be lowered.
LEMMA DoubleRootLowers ==
  ASSUME NEW N \in Nat, N % 16 = 0, NEW K \in Nat, IsRoot(N, K), NEW z \in Nat, K <= z, z <= K + 6,
         K * K = N => z = K
  PROVE  LowerRoot(z, N - (z * z), 0) = Jammed(K, K * K # N)
<1>1. PICK n \in Nat : z = K + n /\ n <= 6
  <2>1. z - K \in Nat /\ z = K + (z - K) /\ z - K <= 6
    OBVIOUS
  <2>2. QED
    BY <2>1
<1>2. PICK a \in Nat, b \in Nat : a = K * K /\ b = (K + 1) * (K + 1) /\ a <= N /\ N < b
  BY DEF IsRoot
<1>3. PICK rem \in Int : rem = N - (z * z) /\ RemainderOf(N, z, rem)
  BY DEF RemainderOf
<1>4. RootRem(z, rem, 0, n) = (N - a) - n
  <2>1. Times(K, K, a)
    BY <1>2 DEF Times
  <2>2. QED
    BY <1>1, <1>2, <1>3, <2>1, RootRemIs
<1>5. ((N - a) - n >= 0) /\ ((N - a) - n # 0 <=> a # N)
  <2>1. CASE a = N
    <3>1. n = 0
      BY <1>1, <1>2, <2>1
    <3>2. QED
      BY <2>1, <3>1
  <2>2. CASE a # N
    <3>1. a + 7 <= N
      BY <1>2, <2>2, SquareGap
    <3>2. QED
      BY <1>1, <2>2, <3>1
  <2>3. QED
    BY <2>1, <2>2
<1>6. ASSUME NEW m \in 0..(n - 1) PROVE RootRem(z, rem, 0, m) < 0
  <2>1. PICK j \in Nat : z = j + m /\ K + 1 <= j
    <3>1. z - m \in Nat /\ z = (z - m) + m /\ K + 1 <= z - m
      BY <1>1
    <3>2. QED
      BY <3>1
  <2>2. b <= j * j
    <3>1. K + 1 \in Nat
      OBVIOUS
    <3>2. QED
      BY <1>2, <2>1, <3>1, SquareMonotonic
  <2>3. PICK q \in Nat : q = j * j
    OBVIOUS
  <2>4. RootRem(z, rem, 0, m) = (N - q) - m
    <3>1. Times(j, j, q) /\ m \in Nat
      BY <2>3 DEF Times
    <3>2. QED
      BY <1>3, <2>1, <2>3, <3>1, RootRemIs
  <2>5. QED
    BY <1>2, <2>2, <2>3, <2>4
<1>7. EndsAfter(z, rem, 0, n)
  BY <1>4, <1>5, <1>6 DEF EndsAfter
<1>8. LowerRoot(z, rem, 0) = Jammed(z - n, RootRem(z, rem, 0, n) # 0)
  <2>1. z \in Int /\ 0 \in Int
    OBVIOUS
  <2>2. QED
    BY <1>7, <2>1, LowerRootIs
<1>9. z - n = K /\ (RootRem(z, rem, 0, n) # 0 <=> K * K # N)
  BY <1>1, <1>2, <1>4, <1>5
<1>10. (RootRem(z, rem, 0, n) # 0) = (K * K # N)
  BY <1>9
<1>11. QED
  BY <1>3, <1>8, <1>9, <1>10, Zenon

-----------------------------------------------------------------------------
(* Estimates of the root that are corrected by the loop.                   *)

\* The truncated root, with what is left jammed into it, stands for the root.
LEMMA JamRootStands ==
  ASSUME NEW N \in Nat, NEW K \in Nat, IsRoot(N, K), NEW u \in Nat, u % 2 = 0
  PROVE  RootStands(Jammed(K, K * K # N), N, u) /\ Jammed(K, K * K # N) \in Nat
<1>1. PICK c \in Nat, d \in Nat : c = K * K /\ d = (K + 1) * (K + 1) /\ c <= N /\ N < d
  BY DEF IsRoot
<1>2. PICK s \in Nat : s = Jammed(K, K * K # N) /\ s = IF c # N /\ K % 2 = 0 THEN K + 1 ELSE K
  <2>1. Jammed(K, K * K # N) = IF c # N /\ K % 2 = 0 THEN K + 1 ELSE K
    BY <1>1, Zenon DEF Jammed
  <2>2. QED
    BY <2>1
<1>3. ASSUME NEW T \in Nat, T % 2 = 0, NEW y, y = T * T
      PROVE  (N < y <=> s < T) /\ (N = y <=> s = T)
  <2>1. y \in Nat
    BY <1>3
  <2>2. (K < T => d <= y) /\ (T <= K => y <= c) /\ (T < K => y < c)
    <3>1. K < T => K + 1 <= T /\ K + 1 \in Nat
      OBVIOUS
    <3>2. QED
      BY <1>1, <1>3, <3>1, SquareMonotonic
  <2>3. K = T => y = c
    BY <1>1, <1>3
  <2>4. QED
    BY <1>1, <1>2, <1>3, <2>1, <2>2, <2>3
<1>4. ASSUME NEW t \in Nat
      PROVE  (N < (t * u) * (t * u) <=> s < t * u) /\ (N = (t * u) * (t * u) <=> s = t * u)
  <2>1. PICK T \in Nat : T = t * u /\ T % 2 = 0
    <3>1. PICK v \in Nat : u = 2 * v
      <4>1. u \div 2 \in Nat /\ u = 2 * (u \div 2)
        OBVIOUS
      <4>2. QED
        BY <4>1
    <3>2. PICK x \in Nat : x = t * v
      OBVIOUS
    <3>3. t * u = 2 * x
      BY <3>1, <3>2
    <3>4. (2 * x) % 2 = 0 /\ 2 * x \in Nat
      OBVIOUS
    <3>5. QED
      BY <3>3, <3>4
  <2>2. PICK y \in Nat : y = T * T
    OBVIOUS
  <2>3. QED
    BY <1>3, <2>1, <2>2
<1>5. QED
  BY <1>2, <1>4 DEF RootStands

\* z is not below the root of N, and at most six above it.
RootBounds(N, z) == N < (z + 1) * (z + 1) /\ \A y \in Nat : y + 6 <= z => y * y < N

\* The root z is lowered where it may decide the rounding.
CorrectedRoot(N, z, u, low) == IF z % u <= 5 THEN LowerRoot(z, N - (z * z), low) ELSE z
\* f64_sqrt's steps correct z: it is not above an exact root.
LowersRight(N, z, low) == low = 1 \/ (low = 0 /\ N % 16 = 0 /\ \A R \in Nat : R * R = N => z = R)

\* So corrected, a close root stands for the root.
LEMMA CorrectedStands ==
  ASSUME NEW N \in Nat, NEW z \in Nat, RootBounds(N, z), NEW u \in Nat \ {0}, u % 2 = 0, NEW low, LowersRight(N, z, low)
  PROVE  CorrectedRoot(N, z, u, low) \in Nat /\ RootStands(CorrectedRoot(N, z, u, low), N, u)
<1>1. PICK d \in Nat : d = (z + 1) * (z + 1) /\ N < d
  BY DEF RootBounds
<1>2. CASE z % u <= 5
  <2>1. PICK K \in Nat : IsRoot(N, K)
    BY RootExists DEF IsRoot
  <2>2. K <= z
    <3>1. SUFFICES ASSUME z + 1 <= K PROVE FALSE
      OBVIOUS
    <3>2. PICK c \in Nat : c = K * K /\ c <= N
      BY <2>1 DEF IsRoot
    <3>3. z + 1 \in Nat
      OBVIOUS
    <3>4. d <= c
      BY <1>1, <3>1, <3>2, <3>3, SquareMonotonic
    <3>5. QED
      BY <1>1, <3>2, <3>4
  <2>3. LowerRoot(z, N - (z * z), low) = Jammed(K, K * K # N)
    <3>1. CASE low = 1
      BY <2>1, <2>2, <3>1, WordRootLowers
    <3>2. CASE low = 0 /\ N % 16 = 0 /\ \A R \in Nat : R * R = N => z = R
      <4>1. z <= K + 6
        <5>1. SUFFICES ASSUME (K + 1) + 6 <= z PROVE FALSE
          BY <2>1
        <5>2. PICK y \in Nat, q \in Nat : y = K + 1 /\ q = y * y
          OBVIOUS
        <5>3. y * y < N
          BY <5>1, <5>2 DEF RootBounds
        <5>4. N < q
          BY <2>1, <5>2 DEF IsRoot
        <5>5. QED
          BY <5>2, <5>3, <5>4
      <4>2. K * K = N => z = K
        BY <3>2
      <4>3. QED
        BY <2>1, <2>2, <3>2, <4>1, <4>2, DoubleRootLowers
    <3>3. QED
      BY <3>1, <3>2 DEF LowersRight
  <2>4. RootStands(Jammed(K, K * K # N), N, u) /\ Jammed(K, K * K # N) \in Nat
    BY <2>1, JamRootStands
  <2>5. CorrectedRoot(N, z, u, low) = Jammed(K, K * K # N)
    BY <1>2, <2>3, Zenon DEF CorrectedRoot
  <2>6. QED
    BY <2>4, <2>5, Zenon
<1>3. CASE ~(z % u <= 5)
  <2>1. PICK q \in Nat, r \in 0..(u - 1) : q = z \div u /\ r = z % u /\ z = (u * q) + r
    BY DivNat
  <2>2. r > 5
    BY <1>3, <2>1
  <2>3. ASSUME NEW t \in Nat
        PROVE  (N < (t * u) * (t * u) <=> z < t * u) /\ (N = (t * u) * (t * u) <=> z = t * u)
    <3>1. PICK T \in Nat, w \in Nat, y \in Nat : T = t * u /\ w = u * q /\ y = T * T
      OBVIOUS
    <3>2. T <= w \/ w + u <= T
      <4>1. t <= q => u * t <= u * q
        BY ProductMonotonic
      <4>2. q + 1 <= t => u * (q + 1) <= u * t
        BY ProductMonotonic
      <4>3. u * t = T /\ u * (q + 1) = w + u
        BY <3>1
      <4>4. t <= q \/ q + 1 <= t
        OBVIOUS
      <4>5. QED
        BY <3>1, <4>1, <4>2, <4>3, <4>4
    <3>3. T <= w => y < N
      <4>1. T <= w => T + 6 <= z
        BY <2>1, <2>2, <3>1
      <4>2. T + 6 <= z => T * T < N
        BY Zenon DEF RootBounds
      <4>3. QED
        BY <3>1, <4>1, <4>2
    <3>4. w + u <= T => N < y
      <4>1. w + u <= T => z + 1 <= T
        BY <2>1, <3>1
      <4>2. z + 1 \in Nat
        OBVIOUS
      <4>3. z + 1 <= T => d <= y
        BY <1>1, <3>1, <4>2, SquareMonotonic
      <4>4. QED
        BY <1>1, <3>1, <4>1, <4>3
    <3>5. (T <= w => T < z) /\ (w + u <= T => z < T)
      BY <2>1, <2>2, <3>1
    <3>6. (N < y <=> z < T) /\ (N = y <=> z = T)
      BY <3>1, <3>2, <3>3, <3>4, <3>5
    <3>7. QED
      BY <3>1, <3>6
  <2>4. CorrectedRoot(N, z, u, low) = z
    BY <1>3, Zenon DEF CorrectedRoot
  <2>5. RootStands(z, N, u)
    BY <2>3 DEF RootStands
  <2>6. QED
    BY <2>4, <2>5
<1>4. QED
  BY <1>2, <1>3

\* Half of what stands for the root of 4N stands for the root of N.
LEMMA RootHalved ==
  ASSUME NEW N \in Nat, NEW M \in Nat, M = 4 * N, NEW u \in Nat, u % 2 = 0, NEW g \in Nat, g = 2 * u,
         NEW z \in Nat, RootStands(z, M, g)
  PROVE  softfloat_shortShift32Right1Jam(z) \in Nat /\ RootStands(softfloat_shortShift32Right1Jam(z), N, u)
<1>1. PICK s \in Nat : s = JamOf(z, 2) /\ s = softfloat_shortShift32Right1Jam(z)
  <2>1. softfloat_shortShift32Right1Jam(z) = JamOf(z, 2)
    BY Zenon DEF JamOf, softfloat_shortShift32Right1Jam
  <2>2. 2 \in Nat \ {0}
    OBVIOUS
  <2>3. JamOf(z, 2) \in Nat
    BY <2>2, JamCompares
  <2>4. QED
    BY <2>1, <2>3
<1>2. ASSUME NEW T \in Nat, T % 2 = 0
      PROVE  (z < T * 2 <=> s < T) /\ (z = T * 2 <=> s = T)
  <2>1. 2 \in Nat \ {0}
    OBVIOUS
  <2>2. \A x \in Nat : x % 2 = 0 => (z < x * 2 <=> JamOf(z, 2) < x) /\ (z = x * 2 <=> JamOf(z, 2) = x)
    BY <2>1, JamCompares, Zenon
  <2>3. QED
    BY <1>1, <1>2, <2>2, Zenon
<1>3. ASSUME NEW t \in Nat
      PROVE  (N < (t * u) * (t * u) <=> s < t * u) /\ (N = (t * u) * (t * u) <=> s = t * u)
  <2>1. PICK T \in Nat : T = t * u /\ T % 2 = 0
    <3>1. PICK v \in Nat : u = 2 * v
      <4>1. u \div 2 \in Nat /\ u = 2 * (u \div 2)
        OBVIOUS
      <4>2. QED
        BY <4>1
    <3>2. PICK x \in Nat : x = t * v
      OBVIOUS
    <3>3. t * u = 2 * x
      BY <3>1, <3>2
    <3>4. (2 * x) % 2 = 0 /\ 2 * x \in Nat
      OBVIOUS
    <3>5. QED
      BY <3>3, <3>4
  <2>2. PICK y \in Nat : y = T * T
    OBVIOUS
  <2>3. t * g = T * 2 /\ (T * 2) * (T * 2) = 4 * y
    BY <2>1, <2>2
  <2>4. (M < (t * g) * (t * g) <=> z < t * g) /\ (M = (t * g) * (t * g) <=> z = t * g)
    BY Zenon DEF RootStands
  <2>5. (M < 4 * y <=> z < T * 2) /\ (M = 4 * y <=> z = T * 2)
    BY <2>3, <2>4, Zenon
  <2>6. (z < T * 2 <=> s < T) /\ (z = T * 2 <=> s = T)
    BY <1>2, <2>1
  <2>7. (M < 4 * y <=> N < y) /\ (M = 4 * y <=> N = y)
    OBVIOUS
  <2>8. QED
    BY <2>1, <2>2, <2>5, <2>6, <2>7
<1>4. QED
  BY <1>1, <1>3 DEF RootStands

\* What softfloat_estimateSqrt32 promises of the root of sq, in a word of H numbers.
IsRootEstimate(r, H, sq) ==
  /\ r \in Nat /\ H <= 2 * r /\ r < H
  /\ r > 2 => (r - 2) * (r - 2) < sq
  /\ sq < (r + 2) * (r + 2)

\* The root of a word as f32_sqrt comes to it.
RootF32(f, sigA, est) ==
  LET z    == (est + 2) % 2^word(f)
      root == IF z % 2^f.G <= 5 THEN LowerRoot(z, sigA * 2^word(f) - z * z, 1) ELSE z
      over == z % 2^f.G <= 5 /\ z < 2
  IN IF over THEN top(f) - 1 ELSE softfloat_shortShift32Right1Jam(root)

\* The largest significand stands for a root at most two below twice as much.
LEMMA LargestStands ==
  ASSUME NEW u \in Nat \ {0}, u >= 4, NEW x \in Nat \ {0}, NEW y \in Nat, y = x * u,
         NEW N \in Nat, N < y * y, NEW z \in Nat, z + 2 = y, z * z < N
  PROVE  RootStands(y - 1, N, u) /\ y - 1 \in Nat
<1>1. PICK c \in Nat, d \in Nat : c = z * z /\ d = y * y /\ c < N /\ N < d
  OBVIOUS
<1>2. ASSUME NEW t \in Nat
      PROVE  (N < (t * u) * (t * u) <=> y - 1 < t * u) /\ (N = (t * u) * (t * u) <=> y - 1 = t * u)
  <2>1. PICK T \in Nat, q \in Nat : T = t * u /\ q = T * T
    OBVIOUS
  <2>2. y <= T \/ T + u <= y
    <3>1. x <= t => u * x <= u * t
      BY ProductMonotonic
    <3>2. t + 1 <= x => u * (t + 1) <= u * x
      BY ProductMonotonic
    <3>3. u * t = T /\ u * (t + 1) = T + u /\ u * x = y
      BY <2>1
    <3>4. x <= t \/ t + 1 <= x
      OBVIOUS
    <3>5. QED
      BY <3>1, <3>2, <3>3, <3>4
  <2>3. y <= T => d <= q
    BY <1>1, <2>1, SquareMonotonic
  <2>4. T + u <= y => q <= c
    <3>1. T + u <= y => T <= z
      OBVIOUS
    <3>2. T <= z => q <= c
      BY <1>1, <2>1, SquareMonotonic
    <3>3. QED
      BY <3>1, <3>2
  <2>5. (N < q <=> y - 1 < T) /\ (N = q <=> y - 1 = T)
    BY <1>1, <2>2, <2>3, <2>4
  <2>6. QED
    BY <2>1, <2>5
<1>3. y - 1 \in Nat
  OBVIOUS
<1>4. QED
  BY <1>2, <1>3 DEF RootStands

\* The root of a word, corrected and halved, stands for the root.
LEMMA RootF32Stands ==
  ASSUME NEW f, NEW h \in Nat \ {0}, NEW u \in Nat \ {0}, NEW b \in Nat, Sizes(f, h, u, b),
         NEW g \in Nat \ {0}, g = 2 * u, NEW W \in Nat, W = 4 * (h * g),
         NEW N \in Nat, NEW M \in Nat, M = 4 * N, NEW sigA \in Nat, Times(sigA, W, M), sigA < W,
         NEW est, IsRootEstimate(est, W, M)
  PROVE  RootF32(f, sigA, est) \in Nat /\ RootStands(RootF32(f, sigA, est), N, u)
<1>1. 2^word(f) = W /\ 2^f.G = g /\ u >= 4 /\ u % 2 = 0 /\ top(f) = 2 * (h * g)
  BY DEF Sizes
<1>2. PICK y \in Nat : y = 2 * (h * g) /\ W = 2 * y /\ y = (4 * h) * u /\ y >= 16
  <2>1. PICK a \in Nat : a = h * u
    OBVIOUS
  <2>2. h * g = 2 * a /\ (4 * h) * u = 4 * a
    BY <2>1
  <2>3. u * 1 <= u * h
    BY ProductMonotonic
  <2>4. u * 1 = u /\ u * h = a
    BY <2>1
  <2>5. QED
    BY <1>1, <2>1, <2>2, <2>3, <2>4
<1>3. est \in Nat /\ est > 2 /\ est < W /\ y <= est
  BY <1>2 DEF IsRootEstimate
<1>4. PICK c \in Nat, d \in Nat : c = (est - 2) * (est - 2) /\ d = (est + 2) * (est + 2) /\ c < M /\ M < d
  <2>1. est - 2 \in Nat /\ est + 2 \in Nat
    BY <1>3
  <2>2. (est - 2) * (est - 2) \in Nat /\ (est + 2) * (est + 2) \in Nat
    BY <2>1
  <2>3. (est - 2) * (est - 2) < M /\ M < (est + 2) * (est + 2)
    BY <1>3, Zenon DEF IsRootEstimate
  <2>4. QED
    BY <2>2, <2>3
<1>5. RootF32(f, sigA, est) =
        LET z == (est + 2) % W
        IN IF z % g <= 5 /\ z < 2 THEN top(f) - 1
           ELSE softfloat_shortShift32Right1Jam(IF z % g <= 5 THEN LowerRoot(z, sigA * W - z * z, 1) ELSE z)
  BY <1>1, Zenon DEF RootF32
<1>6. sigA * W = M
  BY DEF Times
<1>7. CASE est + 2 < W
  <2>1. PICK z \in Nat : z = est + 2 /\ (est + 2) % W = z /\ ~(z < 2)
    <3>1. PICK z \in Nat : z = est + 2
      BY <1>3
    <3>2. z % W = z
      BY <1>2, <1>7, <3>1
    <3>3. QED
      BY <1>3, <3>1, <3>2
  <2>2. RootBounds(M, z)
    <3>1. M < (z + 1) * (z + 1)
      <4>1. z + 1 \in Nat /\ z <= z + 1
        OBVIOUS
      <4>2. z * z <= (z + 1) * (z + 1)
        BY <4>1, SquareMonotonic
      <4>3. PICK p \in Nat, q \in Nat : p = z * z /\ q = (z + 1) * (z + 1)
        OBVIOUS
      <4>4. p = d
        BY <1>4, <2>1, <4>3
      <4>5. QED
        BY <1>4, <4>2, <4>3, <4>4
    <3>2. ASSUME NEW v \in Nat, v + 6 <= z PROVE v * v < M
      <4>1. PICK e \in Nat : e = est - 2
        BY <1>3
      <4>2. v <= e
        BY <1>3, <2>1, <3>2, <4>1
      <4>3. v * v <= e * e
        BY <4>2, SquareMonotonic
      <4>4. PICK p \in Nat : p = v * v
        OBVIOUS
      <4>5. QED
        BY <1>4, <4>1, <4>3, <4>4
    <3>3. QED
      BY <3>1, <3>2 DEF RootBounds
  <2>3. PICK s \in Nat : s = CorrectedRoot(M, z, g, 1) /\ RootStands(s, M, g)
    <3>1. g % 2 = 0 /\ LowersRight(M, z, 1)
      BY DEF LowersRight
    <3>2. QED
      BY <2>2, <3>1, CorrectedStands
  <2>4. RootF32(f, sigA, est) = softfloat_shortShift32Right1Jam(IF z % g <= 5 THEN LowerRoot(z, M - z * z, 1) ELSE z)
    BY <1>5, <1>6, <2>1, Zenon
  <2>5. RootF32(f, sigA, est) = softfloat_shortShift32Right1Jam(s)
    BY <2>3, <2>4, Zenon DEF CorrectedRoot
  <2>6. softfloat_shortShift32Right1Jam(s) \in Nat /\ RootStands(softfloat_shortShift32Right1Jam(s), N, u)
    BY <1>1, <2>3, RootHalved
  <2>7. QED
    BY <2>5, <2>6, Zenon
<1>8. CASE ~(est + 2 < W)
  <2>1. PICK z \in Nat : (est + 2) % W = z /\ z < 2
    <3>1. PICK x \in Nat : est + 2 = W + x /\ x < 2
      <4>1. (est + 2) - W \in Nat /\ est + 2 = W + ((est + 2) - W)
        BY <1>2, <1>3, <1>8
      <4>2. (est + 2) - W < 2
        BY <1>2, <1>3
      <4>3. QED
        BY <4>1, <4>2
    <3>2. x < W
      BY <1>2, <3>1
    <3>3. (W + x) % W = x
      BY <1>2, <3>2
    <3>4. QED
      BY <3>1, <3>3
  <2>2. z % g = z
    BY <1>1, <2>1
  <2>3. z % g <= 5 /\ z < 2
    BY <2>1, <2>2
  <2>4. RootF32(f, sigA, est) = top(f) - 1
    BY <1>5, <2>1, <2>3, Zenon
  <2>5. top(f) = y
    BY <1>1, <1>2
  <2>6. PICK z1 \in Nat : z1 + 2 = y
    <3>1. y - 2 \in Nat /\ (y - 2) + 2 = y
      BY <1>2
    <3>2. QED
      BY <3>1
  <2>7. z1 * z1 < N
    <3>1. PICK p \in Nat : p = z1 * z1
      OBVIOUS
    <3>2. (2 * z1) * (2 * z1) = 4 * p
      BY <3>1
    <3>3. PICK e \in Nat : e = est - 2 /\ 2 * z1 <= e /\ c = e * e
      BY <1>2, <1>3, <1>4, <1>8, <2>6
    <3>4. 2 * z1 \in Nat
      OBVIOUS
    <3>5. (2 * z1) * (2 * z1) <= c
      BY <3>3, <3>4, SquareMonotonic
    <3>6. QED
      BY <1>4, <3>1, <3>2, <3>5
  <2>8. N < y * y
    <3>1. W * (sigA + 1) <= W * W
      BY ProductMonotonic
    <3>2. PICK p \in Nat : p = y * y
      OBVIOUS
    <3>3. W * W = 4 * p
      BY <1>2, <3>2
    <3>4. W * (sigA + 1) = M + W
      BY <1>6
    <3>5. QED
      BY <1>2, <3>1, <3>2, <3>3, <3>4
  <2>9. RootStands(y - 1, N, u) /\ y - 1 \in Nat
    <3>1. PICK x \in Nat \ {0} : x = 4 * h
      OBVIOUS
    <3>2. y = x * u /\ u >= 4
      BY <1>1, <1>2, <3>1
    <3>3. QED
      BY <2>6, <2>7, <2>8, <3>2, LargestStands
  <2>10. QED
    BY <2>4, <2>5, <2>9, Zenon
<1>9. QED
  BY <1>7, <1>8

-----------------------------------------------------------------------------
(* One Newton step from a root r of the upper half word: y is r in the     *)
(* word, c a quarter of it, q the truncated quotient of N by y.            *)

\* What a Newton step yields, less one, is never below the root.
LEMMA NewtonAbove ==
  ASSUME NEW N \in Nat, NEW c \in Nat, NEW e \in Nat, N < (e + 1) * (4 * c), NEW z \in Nat, z = e + c
  PROVE  N < (z + 1) * (z + 1)
<1>1. PICK x \in Int : x = (e + 1) - c /\ z + 1 = x + (2 * c) /\ e + 1 = x + c
  <2>1. (e + 1) - c \in Int
    OBVIOUS
  <2>2. QED
    BY <2>1
<1>2. PICK a \in Int, d \in Int, k \in Int : a = x * x /\ d = x * c /\ k = c * c
  OBVIOUS
<1>3. a >= 0
  <2>1. x >= 0 => x * x >= 0
    OBVIOUS
  <2>2. x < 0 => x * x >= 0
    OBVIOUS
  <2>3. QED
    BY <1>2, <2>1, <2>2
<1>4. (z + 1) * (z + 1) = a + (4 * d) + (4 * k)
  <2>1. (x + (2 * c)) * (x + (2 * c)) = a + (4 * d) + (4 * k)
    BY <1>2
  <2>2. QED
    BY <1>1, <2>1, Zenon
<1>5. (e + 1) * (4 * c) = (4 * d) + (4 * k)
  <2>1. (x + c) * (4 * c) = (4 * d) + (4 * k)
    BY <1>2
  <2>2. QED
    BY <1>1, <2>1, Zenon
<1>6. QED
  BY <1>2, <1>3, <1>4, <1>5

\* Six less, it is below the root, or far from r.
LEMMA NewtonFar ==
  ASSUME NEW N \in Nat, NEW c \in Nat, NEW q \in Nat, NEW x \in Nat, Times(q, 4 * c, x), x <= N,
         NEW v \in Nat, v + 4 <= q + c, NEW s \in Nat, Times(v, v, s), N <= s,
         NEW t \in Int, t = (2 * v) - (4 * c), NEW tt \in Int, Times(t, t, tt)
  PROVE  tt >= 64 * c
<1>1. x = q * (4 * c) /\ s = v * v /\ tt = t * t
  BY DEF Times
<1>2. PICK d \in Int, k \in Int : d = v * c /\ k = c * c
  OBVIOUS
<1>3. tt = (4 * s) - (16 * d) + (16 * k)
  <2>1. ((2 * v) - (4 * c)) * ((2 * v) - (4 * c)) = (4 * s) - (16 * d) + (16 * k)
    BY <1>1, <1>2
  <2>2. QED
    BY <1>1, <2>1, Zenon
<1>4. PICK j \in Nat : q + c = (v + 4) + j
  <2>1. (q + c) - (v + 4) \in Nat /\ q + c = (v + 4) + ((q + c) - (v + 4))
    OBVIOUS
  <2>2. QED
    BY <2>1
<1>5. PICK i \in Nat : i = j * c
  OBVIOUS
<1>6. x = (4 * d) + (16 * c) + (4 * i) - (4 * k)
  <2>1. q = (v + 4 + j) - c
    BY <1>4
  <2>2. ((v + 4 + j) - c) * (4 * c) = (4 * d) + (16 * c) + (4 * i) - (4 * k)
    BY <1>2, <1>5
  <2>3. QED
    BY <1>1, <2>1, <2>2, Zenon
<1>7. QED
  BY <1>3, <1>5, <1>6

\* It is not far below r.
LEMMA NewtonNotBelow ==
  ASSUME NEW H \in Nat \ {0}, NEW r \in Nat, r >= 2, H <= 2 * r, NEW y \in Nat, Times(r, H, y), NEW c \in Nat, y = 4 * c,
         NEW M \in Nat, NEW p \in Nat, Times(r - 2, r - 2, p), p < M, NEW HH \in Nat, Times(H, H, HH),
         NEW L \in Nat, Times(M, HH, L), NEW v \in Nat, NEW s \in Nat, Times(v, v, s), L <= 4 * s,
         NEW t \in Int, t = (2 * v) - y, t < 0, NEW tt \in Int, Times(t, t, tt)
  PROVE  tt < 16 * y
<1>1. y = r * H /\ p = (r - 2) * (r - 2) /\ HH = H * H /\ L = M * HH /\ s = v * v /\ tt = t * t
  BY DEF Times
<1>2. PICK a \in Nat, k \in Nat : a = r - 2 /\ k = a * H /\ y = k + (2 * H)
  <2>1. r - 2 \in Nat /\ r = (r - 2) + 2
    OBVIOUS
  <2>2. PICK a \in Nat : a = r - 2 /\ r = a + 2
    BY <2>1
  <2>3. (a + 2) * H = (a * H) + (2 * H) /\ a * H \in Nat
    OBVIOUS
  <2>4. QED
    BY <1>1, <2>2, <2>3
<1>3. k < 2 * v
  <2>1. SUFFICES ASSUME 2 * v <= k PROVE FALSE
    OBVIOUS
  <2>2. (2 * v) * (2 * v) <= k * k
    BY <2>1, SquareMonotonic
  <2>3. (2 * v) * (2 * v) = 4 * s
    BY <1>1
  <2>4. k * k = p * HH
    <3>1. (a * H) * (a * H) = (a * a) * (H * H)
      OBVIOUS
    <3>2. QED
      BY <1>1, <1>2, <3>1
  <2>5. HH * (p + 1) <= HH * M
    BY ProductMonotonic
  <2>6. PICK z \in Nat : z = p * HH
    OBVIOUS
  <2>7. HH * (p + 1) = z + HH /\ HH * M = L
    BY <1>1, <2>6
  <2>8. HH > 0
    BY <1>1
  <2>9. QED
    BY <2>2, <2>3, <2>4, <2>5, <2>6, <2>7, <2>8
<1>4. PICK j \in Nat : j = -t /\ j < 2 * H
  <2>1. -t \in Nat /\ -t < 2 * H
    BY <1>2, <1>3
  <2>2. QED
    BY <2>1
<1>5. tt = j * j /\ j * j < (2 * H) * (2 * H)
  <2>1. t * t = (-t) * (-t)
    OBVIOUS
  <2>2. j * j < (2 * H) * (2 * H)
    BY <1>4, SquareMonotonic
  <2>3. QED
    BY <1>1, <1>4, <2>1, <2>2
<1>6. H * H <= H * (2 * r)
  BY ProductMonotonic
<1>7. (2 * H) * (2 * H) = 4 * HH /\ H * (2 * r) = 2 * y
  BY <1>1
<1>8. QED
  BY <1>1, <1>5, <1>6, <1>7

\* By how much the root's square may be taken too small, in a half word of 16 K numbers: the
\* closer the root is to the smallest one, the less.
IsExcess(r, K, J) == (J <= 16 * K /\ 10 * K <= r) \/ (J <= 8 * K /\ 8 * K <= r)

\* Nor is it far above r.
LEMMA NewtonNotAbove ==
  ASSUME NEW K \in Nat \ {0}, NEW r \in Nat \ {0}, NEW J \in Nat, IsExcess(r, K, J),
         NEW H \in Nat, H = 16 * K, NEW y \in Nat, Times(r, H, y), NEW c \in Nat, y = 4 * c,
         NEW M \in Nat, NEW p \in Nat, Times(r + 2, r + 2, p), M + 2 <= p + J, NEW HH \in Nat, Times(H, H, HH),
         NEW L \in Nat, Times(M, HH, L), NEW q \in Nat, NEW x \in Nat, Times(q, y, x), 4 * x <= L,
         NEW v \in Nat, v + 4 <= q + c,
         NEW t \in Nat, t = (2 * v) - y, NEW tt \in Int, Times(t, t, tt)
  PROVE  tt < 16 * y
<1>1. y = r * H /\ p = (r + 2) * (r + 2) /\ HH = H * H /\ L = M * HH /\ x = q * y /\ tt = t * t
  BY DEF Times
<1>2. PICK a \in Nat, k \in Nat, d \in Nat : a = K * r /\ k = K * K /\ d = r * t /\ y = 16 * a /\ c = 4 * a
  <2>1. PICK a \in Nat, k \in Nat, d \in Nat : a = K * r /\ k = K * K /\ d = r * t
    OBVIOUS
  <2>2. r * (16 * K) = 16 * a
    BY <2>1
  <2>3. y = 16 * a
    BY <1>1, <2>2
  <2>4. QED
    BY <2>1, <2>3
<1>3. (4 * q) * r <= M * H
  <2>1. PICK i \in Nat, j \in Nat : i = (4 * q) * r /\ j = M * H
    OBVIOUS
  <2>2. 4 * x = H * i /\ L = H * j
    <3>1. 4 * (q * (r * H)) = H * ((4 * q) * r) /\ M * (H * H) = H * (M * H)
      OBVIOUS
    <3>2. QED
      BY <1>1, <2>1, <3>1
  <2>3. SUFFICES ASSUME j + 1 <= i PROVE FALSE
    BY <2>1
  <2>4. H * (j + 1) <= H * i
    BY <2>3, ProductMonotonic
  <2>5. PICK n \in Nat : n = H * j
    OBVIOUS
  <2>6. H * (j + 1) = n + H
    BY <2>5
  <2>7. QED
    BY <2>2, <2>4, <2>5, <2>6
<1>4. (2 * d) + (16 * r) <= (64 * a) + (32 * K) + (16 * (K * J))
  <2>1. PICK n \in Nat : n = K * J
    OBVIOUS
  <2>2. (2 * r) * ((t + (2 * c)) + 8) <= (2 * r) * (2 * q)
    <3>1. (t + (2 * c)) + 8 <= 2 * q
      OBVIOUS
    <3>2. 2 * r \in Nat /\ (t + (2 * c)) + 8 \in Nat /\ 2 * q \in Nat
      OBVIOUS
    <3>3. QED
      BY <3>1, <3>2, ProductMonotonic
  <2>3. PICK rr \in Nat, ar \in Nat, mk \in Nat, qr \in Nat : rr = r * r /\ ar = a * r /\ mk = K * M /\ qr = q * r
    OBVIOUS
  <2>4. (2 * r) * ((t + (2 * c)) + 8) = (2 * d) + (16 * ar) + (16 * r)
    <3>1. (2 * r) * ((t + (2 * (4 * a))) + 8) = (2 * d) + (16 * ar) + (16 * r)
      BY <1>2, <2>3
    <3>2. QED
      BY <1>2, <3>1
  <2>5. (2 * r) * (2 * q) = 4 * qr /\ (4 * q) * r = 4 * qr /\ M * H = 16 * mk
    <3>1. M * (16 * K) = 16 * mk
      BY <2>3
    <3>2. (2 * r) * (2 * q) = 4 * qr /\ (4 * q) * r = 4 * qr
      BY <2>3
    <3>3. QED
      BY <3>1, <3>2
  <2>6. K * (M + 2) <= K * (p + J)
    BY ProductMonotonic
  <2>7. K * (M + 2) = mk + (2 * K) /\ K * (p + J) = ar + (4 * a) + (4 * K) + n
    <3>1. p = rr + (4 * r) + 4
      BY <1>1, <2>3
    <3>2. K * ((rr + (4 * r) + 4) + J) = (K * rr) + (4 * (K * r)) + (4 * K) + (K * J)
      OBVIOUS
    <3>3. K * rr = ar
      <4>1. K * (r * r) = (K * r) * r
        OBVIOUS
      <4>2. QED
        BY <1>2, <2>3, <4>1
    <3>4. K * (p + J) = ar + (4 * a) + (4 * K) + n
      BY <1>2, <2>1, <3>1, <3>2, <3>3
    <3>5. K * (M + 2) = mk + (2 * K)
      BY <2>3
    <3>6. QED
      BY <3>4, <3>5
  <2>8. QED
    BY <1>3, <2>1, <2>2, <2>3, <2>4, <2>5, <2>6, <2>7
<1>5. CASE J <= 16 * K /\ 10 * K <= r
  <2>1. K * J <= K * (16 * K) /\ K * (10 * K) <= K * r
    BY <1>5, ProductMonotonic
  <2>2. K * (16 * K) = 16 * k /\ K * (10 * K) = 10 * k
    BY <1>2
  <2>3. t < 48 * K
    <3>1. SUFFICES ASSUME 48 * K <= t PROVE FALSE
      OBVIOUS
    <3>2. r * (48 * K) <= r * t
      BY <3>1, ProductMonotonic
    <3>3. r * (48 * K) = 48 * a
      BY <1>2
    <3>4. PICK n \in Nat : n = K * J
      OBVIOUS
    <3>5. QED
      BY <1>2, <1>4, <1>5, <2>1, <2>2, <3>2, <3>3, <3>4
  <2>4. t * t < (48 * K) * (48 * K)
    <3>1. 48 * K \in Nat
      OBVIOUS
    <3>2. QED
      BY <2>3, <3>1, SquareMonotonic
  <2>5. (48 * K) * (48 * K) = 2304 * k
    BY <1>2
  <2>6. k > 0
    BY <1>2
  <2>7. QED
    BY <1>1, <1>2, <2>1, <2>2, <2>4, <2>5, <2>6
<1>6. CASE J <= 8 * K /\ 8 * K <= r
  <2>1. K * J <= K * (8 * K) /\ K * (8 * K) <= K * r
    BY <1>6, ProductMonotonic
  <2>2. K * (8 * K) = 8 * k
    BY <1>2
  <2>3. t < 44 * K
    <3>1. SUFFICES ASSUME 44 * K <= t PROVE FALSE
      OBVIOUS
    <3>2. r * (44 * K) <= r * t
      BY <3>1, ProductMonotonic
    <3>3. r * (44 * K) = 44 * a
      BY <1>2
    <3>4. PICK n \in Nat : n = K * J
      OBVIOUS
    <3>5. QED
      BY <1>2, <1>4, <1>6, <2>1, <2>2, <3>2, <3>3, <3>4
  <2>4. t * t < (44 * K) * (44 * K)
    <3>1. 44 * K \in Nat
      OBVIOUS
    <3>2. QED
      BY <2>3, <3>1, SquareMonotonic
  <2>5. (44 * K) * (44 * K) = 1936 * k
    BY <1>2
  <2>6. k > 0
    BY <1>2
  <2>7. QED
    BY <1>1, <1>2, <2>1, <2>2, <2>4, <2>5, <2>6
<1>7. QED
  BY <1>5, <1>6 DEF IsExcess

\* How far the truncated significand's square falls short of N's.
Shortens(M, sq, J) == sq <= M /\ M < sq + J

\* One Newton step comes close to the root.
LEMMA NewtonBounds ==
  ASSUME NEW K \in Nat \ {0}, NEW H \in Nat, H = 16 * K, NEW r, NEW sq \in Nat, IsRootEstimate(r, H, sq),
         NEW J \in Nat, IsExcess(r, K, J), NEW M \in Nat, Shortens(M, sq, J),
         NEW N \in Nat, NEW HH \in Nat, Times(H, H, HH), NEW L \in Nat, Times(M, HH, L), L = 4 * N,
         NEW y \in Nat, Times(r, H, y), NEW c \in Nat, y = 4 * c,
         NEW q \in Nat, IsQuotient(q, N, y), NEW e \in q..(q + 2), NEW z \in Nat, z = e + c
  PROVE  RootBounds(N, z)
<1>1. r \in Nat /\ H <= 2 * r /\ r > 2
  <2>1. r \in Nat /\ H <= 2 * r
    BY DEF IsRootEstimate
  <2>2. QED
    BY <2>1
<1>2. PICK p0 \in Nat, p1 \in Nat : Times(r - 2, r - 2, p0) /\ Times(r + 2, r + 2, p1) /\ p0 < sq /\ sq < p1
  <2>1. r - 2 \in Nat /\ r + 2 \in Nat
    BY <1>1
  <2>2. (r - 2) * (r - 2) \in Nat /\ (r + 2) * (r + 2) \in Nat
    BY <2>1
  <2>3. (r - 2) * (r - 2) < sq /\ sq < (r + 2) * (r + 2)
    BY <1>1, Zenon DEF IsRootEstimate
  <2>4. QED
    BY <2>2, <2>3, Zenon DEF Times
<1>3. p0 < M /\ M + 2 <= p1 + J
  <2>1. sq <= M /\ M < sq + J
    BY DEF Shortens
  <2>2. QED
    BY <1>2, <2>1
<1>4. PICK x \in Nat : Times(q, y, x) /\ x <= N /\ N < (q + 1) * y
  <2>1. q * y \in Nat
    OBVIOUS
  <2>2. PICK m \in 0..(y - 1) : N = (y * q) + m
    <3>1. y \in Nat \ {0}
      <4>1. y = r * H
        BY DEF Times
      <4>2. r \in Nat \ {0} /\ H \in Nat \ {0}
        BY <1>1
      <4>3. QED
        BY <4>1, <4>2
    <3>2. PICK a \in Nat, m \in 0..(y - 1) : a = N \div y /\ m = N % y /\ N = (y * a) + m
      BY <3>1, DivNat
    <3>3. a = q
      BY <3>2 DEF IsQuotient
    <3>4. QED
      BY <3>2, <3>3
  <2>3. (q + 1) * y = (q * y) + y /\ y * q = q * y
    OBVIOUS
  <2>4. PICK x \in Nat : x = q * y
    BY <2>1
  <2>5. QED
    BY <2>2, <2>3, <2>4 DEF Times
<1>5. N < (z + 1) * (z + 1)
  <2>1. e \in Nat /\ q <= e
    OBVIOUS
  <2>2. (q + 1) * y <= (e + 1) * y
    <3>1. y * (q + 1) <= y * (e + 1)
      BY <2>1, ProductMonotonic
    <3>2. y * (q + 1) = (q + 1) * y /\ y * (e + 1) = (e + 1) * y
      BY <2>1
    <3>3. QED
      BY <3>1, <3>2
  <2>3. PICK i \in Nat, j \in Nat : i = (q + 1) * y /\ j = (e + 1) * y
    BY <2>1
  <2>4. N < (e + 1) * (4 * c)
    <3>1. N < j
      BY <1>4, <2>2, <2>3
    <3>2. y = 4 * c
      OBVIOUS
    <3>3. QED
      BY <2>3, <3>1, <3>2, Zenon
  <2>5. QED
    BY <2>1, <2>4, NewtonAbove
<1>6. ASSUME NEW v \in Nat, v + 6 <= z PROVE v * v < N
  <2>1. PICK s \in Nat : Times(v, v, s)
    BY DEF Times
  <2>2. SUFFICES ASSUME N <= s PROVE FALSE
    BY <2>1 DEF Times
  <2>3. PICK t \in Int : t = (2 * v) - (4 * c)
    <3>1. (2 * v) - (4 * c) \in Int
      OBVIOUS
    <3>2. QED
      BY <3>1
  <2>4. PICK tt \in Int : Times(t, t, tt)
    BY DEF Times
  <2>5. v + 4 <= q + c
    BY <1>6
  <2>6. tt >= 64 * c
    <3>1. Times(q, 4 * c, x)
      BY <1>4 DEF Times
    <3>2. QED
      BY <1>4, <2>1, <2>2, <2>3, <2>4, <2>5, <3>1, NewtonFar
  <2>7. tt < 16 * y
    <3>1. CASE t < 0
      <4>1. L <= 4 * s /\ r >= 2 /\ H \in Nat \ {0} /\ t = (2 * v) - y
        BY <1>1, <2>2, <2>3
      <4>2. QED
        BY <1>1, <1>2, <1>3, <2>1, <2>4, <3>1, <4>1, NewtonNotBelow
    <3>2. CASE t >= 0
      <4>1. t \in Nat /\ t = (2 * v) - y /\ r \in Nat \ {0} /\ 4 * x <= L
        BY <1>1, <1>4, <2>3, <3>2
      <4>2. QED
        BY <1>2, <1>3, <1>4, <2>4, <2>5, <4>1, NewtonNotAbove
    <3>3. QED
      BY <3>1, <3>2
  <2>8. QED
    BY <2>6, <2>7
<1>7. QED
  BY <1>5, <1>6 DEF RootBounds

-----------------------------------------------------------------------------
(* The Newton step meets an exact root: the root of the upper half word is *)
(* then within one of the exact one's upper half word, and the division by *)
(* a word without a lower half is exact.                                   *)

\* M is b half words of H numbers and part of one, and r is at least the truncated root of the b.
IsStepOf(r, H, b, M) == b \in Nat /\ b * H < (r + 1) * (r + 1) /\ M < (b + 1) * H

\* The last line of softfloat_estimateSqrt32 is a Newton step, whose result is never below the
\* truncated root.
LEMMA StepAbove ==
  ASSUME NEW b \in Nat, NEW V \in Nat, NEW H \in Nat, H = 2 * V, NEW y \in Nat \ {0}, NEW r, r = (b * V) \div (2 * y) + y
  PROVE  b * H < (r + 1) * (r + 1)
<1>1. PICK x \in Nat, z \in Nat \ {0} : x = b * V /\ z = 2 * y
  OBVIOUS
<1>2. PICK q \in Nat, m \in 0..(z - 1) : q = x \div z /\ x = (z * q) + m
  BY DivNat
<1>3. r = q + y
  BY <1>1, <1>2
<1>4. PICK d \in Int, a \in Int, e \in Int : d = (q + 1) - y /\ a = d * d /\ e = y * (q + 1)
  <2>1. PICK d \in Int : d = (q + 1) - y
    OBVIOUS
  <2>2. QED
    BY <2>1
<1>5. a >= 0
  <2>1. d >= 0 => d * d >= 0
    OBVIOUS
  <2>2. d < 0 => d * d >= 0
    OBVIOUS
  <2>3. QED
    BY <1>4, <2>1, <2>2
<1>6. (r + 1) * (r + 1) = a + (4 * e)
  <2>1. ((q + 1) + y) * ((q + 1) + y) = (((q + 1) - y) * ((q + 1) - y)) + (4 * (y * (q + 1)))
    OBVIOUS
  <2>2. r + 1 = (q + 1) + y
    BY <1>3
  <2>3. QED
    BY <1>4, <2>1, <2>2, Zenon
<1>7. x < 2 * e
  <2>1. PICK f \in Nat : f = y * q
    OBVIOUS
  <2>2. (2 * y) * q = 2 * f /\ e = f + y
    BY <1>4, <2>1
  <2>3. QED
    BY <1>1, <1>2, <2>2
<1>8. b * H = 2 * x
  <2>1. b * (2 * V) = 2 * (b * V)
    OBVIOUS
  <2>2. QED
    BY <1>1, <2>1
<1>9. QED
  BY <1>5, <1>6, <1>7, <1>8

\* If a power's square divides a square, the power divides the root.
LEMMA PowerDivides ==
  \A k \in Nat : \A R, n \in Nat : R * R = (2^k * 2^k) * n => \E t \in Nat : R = 2^k * t
<1> DEFINE P(k) == \A R, n \in Nat : R * R = (2^k * 2^k) * n => \E t \in Nat : R = 2^k * t
           S == {k \in Nat : ~P(k)}
<1>1. P(0)
  <2>1. ASSUME NEW R \in Nat PROVE R = 2^0 * R
    BY PowerZero
  <2>2. QED
    BY <2>1
<1>2. ASSUME NEW k \in Nat, P(k) PROVE P(k + 1)
  <2>1. PICK p \in Nat : p = 2^k /\ 2^(k + 1) = 2 * p
    BY PowerNext, PowerPositive
  <2>2. ASSUME NEW R \in Nat, NEW n \in Nat, R * R = ((2 * p) * (2 * p)) * n
        PROVE  \E t \in Nat : R = (2 * p) * t
    <3>1. PICK x \in Nat : x = (p * p) * n /\ R * R = 4 * x
      <4>1. ((2 * p) * (2 * p)) * n = 4 * ((p * p) * n) /\ (p * p) * n \in Nat
        OBVIOUS
      <4>2. QED
        BY <2>2, <4>1
    <3>2. PICK i \in Nat, j \in 0..1 : R = (2 * i) + j
      <4>1. R \div 2 \in Nat /\ R % 2 \in 0..1 /\ R = (2 * (R \div 2)) + (R % 2)
        OBVIOUS
      <4>2. QED
        BY <4>1
    <3>3. PICK ii \in Nat : ii = i * i
      OBVIOUS
    <3>4. j = 0
      <4>1. SUFFICES ASSUME j = 1 PROVE FALSE
        OBVIOUS
      <4>2. ((2 * i) + 1) * ((2 * i) + 1) = (4 * (ii + i)) + 1
        BY <3>3
      <4>3. R * R = (4 * (ii + i)) + 1
        BY <3>2, <4>1, <4>2
      <4>4. QED
        BY <3>1, <4>3
    <3>5. i * i = x
      <4>1. (2 * i) * (2 * i) = 4 * ii
        BY <3>3
      <4>2. R = 2 * i
        BY <3>2, <3>4
      <4>3. QED
        BY <3>1, <3>3, <4>1, <4>2
    <3>6. i * i = (2^k * 2^k) * n
      BY <2>1, <3>1, <3>5, Zenon
    <3>7. PICK t \in Nat : i = 2^k * t
      BY <1>2, <3>6
    <3>8. i = p * t /\ R = 2 * i
      BY <2>1, <3>2, <3>4, <3>7
    <3>9. R = (2 * p) * t
      BY <3>8
    <3>10. QED
      BY <3>9
  <2>3. ASSUME NEW R \in Nat, NEW n \in Nat, R * R = (2^(k + 1) * 2^(k + 1)) * n
        PROVE  \E t \in Nat : R = 2^(k + 1) * t
    <3>1. R * R = ((2 * p) * (2 * p)) * n
      BY <2>1, <2>3, Zenon
    <3>2. PICK t \in Nat : R = (2 * p) * t
      BY <2>2, <3>1
    <3>3. R = 2^(k + 1) * t
      BY <2>1, <3>2, Zenon
    <3>4. QED
      BY <3>3, Zenon
  <2>4. QED
    BY <2>3, Zenon DEF P
<1>3. S = {}
  <2> SUFFICES ASSUME S # {} PROVE FALSE
    OBVIOUS
  <2>1. S \in SUBSET Nat
    OBVIOUS
  <2>2. PICK k \in S : \A i \in S : k <= i
    <3> HIDE DEF S
    <3>1. QED
      BY <2>1, Least
  <2> HIDE DEF P
  <2>3. k \in Nat /\ ~P(k)
    BY <2>2
  <2>4. k # 0
    BY <1>1, <2>3
  <2>5. PICK j \in Nat : k = j + 1
    <3>1. k - 1 \in Nat /\ k = (k - 1) + 1
      BY <2>3, <2>4
    <3>2. QED
      BY <3>1
  <2>6. ~(k <= j)
    BY <2>3, <2>5
  <2>7. j \notin S
    <3> HIDE DEF S
    <3>1. QED
      BY <2>2, <2>6
  <2>8. P(j)
    BY <2>7
  <2>9. QED
    BY <1>2, <2>3, <2>5, <2>8
<1>4. QED
  <2> HIDE DEF P
  <2>1. \A k \in Nat : P(k)
    BY <1>3
  <2>2. QED
    BY <2>1 DEF P

\* The root of a number of whole words is a whole number of half words.
LEMMA ExactRoot ==
  ASSUME NEW k \in Nat, NEW H \in Nat \ {0}, H = 2^k, NEW W \in Nat, Times(H, H, W),
         NEW n \in Nat, NEW N \in Nat, Times(n, W, N), NEW R \in Nat, Times(R, R, N)
  PROVE  \E t \in Nat : R = H * t /\ t * t = n
<1>1. R * R = (H * H) * n
  <2>1. N = n * W /\ W = H * H /\ N = R * R
    BY DEF Times
  <2>2. n * W = W * n
    OBVIOUS
  <2>3. QED
    BY <2>1, <2>2, Zenon
<1>2. PICK t \in Nat : R = H * t
  <2>1. R * R = (2^k * 2^k) * n
    BY <1>1, Zenon
  <2>2. PICK t \in Nat : R = 2^k * t
    BY <2>1, PowerDivides
  <2>3. R = H * t
    BY <2>2, Zenon
  <2>4. QED
    BY <2>3
<1>3. t * t = n
  <2>1. (H * t) * (H * t) = H * (H * (t * t)) /\ (H * H) * n = H * (H * n)
    OBVIOUS
  <2>2. H * (H * (t * t)) = H * (H * n)
    BY <1>1, <1>2, <2>1, Zenon
  <2>3. t * t \in Int /\ n \in Int /\ H * (t * t) \in Int /\ H * n \in Int
    OBVIOUS
  <2>4. H * (t * t) = H * n
    BY <2>2, <2>3, ProductSame
  <2>5. QED
    BY <2>3, <2>4, ProductSame
<1>4. QED
  BY <1>2, <1>3

\* The estimate is within one of an exact root of the upper half word.
LEMMA RootClose ==
  ASSUME NEW r \in Nat, r > 2, NEW x \in Nat, NEW M \in Nat, x * x = M, (r - 2) * (r - 2) < M,
         NEW H \in Nat, H <= 2 * r, NEW b, IsStepOf(r, H, b, M)
  PROVE  x \in (r - 1)..(r + 1)
<1>1. x > r - 2
  <2>1. SUFFICES ASSUME x <= r - 2 PROVE FALSE
    OBVIOUS
  <2>2. PICK s \in Nat, q \in Nat : s = r - 2 /\ q = s * s
    <3>1. r - 2 \in Nat
      OBVIOUS
    <3>2. QED
      BY <3>1
  <2>3. x * x <= s * s
    BY <2>1, <2>2, SquareMonotonic
  <2>4. QED
    BY <2>2, <2>3
<1>2. x < r + 2
  <2>1. SUFFICES ASSUME r + 2 <= x PROVE FALSE
    OBVIOUS
  <2>2. r + 2 \in Nat
    OBVIOUS
  <2>3. (r + 2) * (r + 2) <= x * x
    BY <2>1, <2>2, SquareMonotonic
  <2>4. PICK a \in Nat, z \in Nat : a = r * r /\ z = b * H
    BY DEF IsStepOf
  <2>5. (r + 2) * (r + 2) = a + (4 * r) + 4 /\ (r + 1) * (r + 1) = a + (2 * r) + 1
    BY <2>4
  <2>6. (b + 1) * H = z + H
    BY <2>4 DEF IsStepOf
  <2>7. z < a + (2 * r) + 1 /\ M < z + H
    BY <2>4, <2>5, <2>6 DEF IsStepOf
  <2>8. QED
    BY <2>3, <2>4, <2>5, <2>7
<1>3. QED
  BY <1>1, <1>2

\* R is the root of N, x its upper half word, of H = 16 K numbers; the estimate r is within one of
\* x, and the Newton step adds the quotient of N by y = r H to a quarter of y.
IsExactStep(K, H, r, x, R, y, c, N, q) ==
  /\ K \in Nat \ {0} /\ r \in Nat /\ R \in Nat /\ y \in Nat /\ c \in Nat /\ q \in Nat
  /\ H = 16 * K /\ 8 * K <= r /\ x \in (r - 1)..(r + 1) /\ 2 * R = H * x /\ N = R * R
  /\ y = r * H /\ y = 4 * c /\ IsQuotient(q, N, y)

\* From there, the Newton step meets the exact root.
LEMMA StepExact ==
  ASSUME NEW K, NEW H, NEW r, NEW x, NEW R, NEW y, NEW c, NEW N, NEW q, IsExactStep(K, H, r, x, R, y, c, N, q)
  PROVE  q + c = R
<1> /\ K \in Nat \ {0} /\ r \in Nat /\ R \in Nat /\ y \in Nat /\ c \in Nat /\ q \in Nat
    /\ H = 16 * K /\ 8 * K <= r /\ x \in (r - 1)..(r + 1) /\ y = 4 * c
  BY Zenon DEF IsExactStep
<1>0. 2 * R = H * x /\ N = R * R /\ y = r * H /\ IsQuotient(q, N, y)
  BY Zenon DEF IsExactStep
<1>1. PICK k \in Nat, a \in Nat : k = K * K /\ a = K * r /\ k > 0
  <2>1. K * K > 0
    OBVIOUS
  <2>2. QED
    BY <2>1
<1>2. 8 * k <= a /\ 8 * K <= a
  <2>1. K * (8 * K) <= K * r /\ K * (8 * K) = 8 * k
    BY <1>1, ProductMonotonic
  <2>2. K * 1 <= K * K
    BY ProductMonotonic
  <2>3. QED
    BY <1>1, <2>1, <2>2
<1>3. y = 16 * a /\ c = 4 * a
  <2>1. r * (16 * K) = 16 * (K * r)
    OBVIOUS
  <2>2. y = 16 * a
    BY <1>0, <1>1, <2>1
  <2>3. QED
    BY <2>2
<1>4. PICK d \in {-1, 0, 1} : x = r + d
  <2>1. x = r + (x - r) /\ x - r \in {-1, 0, 1}
    OBVIOUS
  <2>2. QED
    BY <2>1
<1>5. PICK g \in Int : g = 8 * (K * d) /\ R = (2 * c) + g
  <2>1. PICK i \in Int : i = K * d
    BY <1>4
  <2>2. (16 * K) * (r + d) = (16 * a) + (16 * i)
    <3>1. (16 * K) * (r + d) = (16 * (K * r)) + (16 * (K * d))
      BY <1>4
    <3>2. QED
      BY <1>1, <2>1, <3>1
  <2>3. 2 * R = (16 * a) + (16 * i)
    <3>1. 2 * R = (16 * K) * (r + d)
      BY <1>0, <1>4
    <3>2. QED
      BY <2>2, <3>1, Zenon
  <2>4. R = (2 * c) + (8 * i) /\ 8 * i \in Int
    BY <1>3, <2>1, <2>3
  <2>5. QED
    BY <2>1, <2>4
<1>6. PICK h \in Nat : h = g * g /\ h <= 64 * k /\ -(8 * K) <= g
  <2>1. CASE d = 0
    <3>1. g = 0
      BY <1>5, <2>1
    <3>2. QED
      BY <1>1, <3>1
  <2>2. CASE d = 1
    <3>1. g = 8 * K
      BY <1>5, <2>2
    <3>2. (8 * K) * (8 * K) = 64 * k
      BY <1>1
    <3>3. QED
      BY <1>1, <3>1, <3>2
  <2>3. CASE d = -1
    <3>1. g = -(8 * K)
      BY <1>5, <2>3
    <3>2. (-(8 * K)) * (-(8 * K)) = 64 * k
      BY <1>1
    <3>3. QED
      BY <1>1, <3>1, <3>2
  <2>4. QED
    BY <2>1, <2>2, <2>3
<1>7. PICK z \in Nat : z = R - c /\ z = c + g
  <2>1. c + g >= 0
    BY <1>1, <1>2, <1>3, <1>6
  <2>2. QED
    BY <1>5, <2>1
<1>8. N = (y * z) + h
  <2>1. ((2 * c) + g) * ((2 * c) + g) = ((4 * c) * (c + g)) + (g * g)
    OBVIOUS
  <2>2. R * R = ((4 * c) * (c + g)) + (g * g)
    BY <1>5, <2>1, Zenon
  <2>3. QED
    BY <1>0, <1>6, <1>7, <2>2, Zenon
<1>9. h \in 0..(y - 1) /\ y \in Nat \ {0}
  BY <1>1, <1>2, <1>3, <1>6
<1>10. N \div y = z
  <2>1. N \in Int /\ z \in Int
    BY <1>0
  <2>2. QED
    BY <1>8, <1>9, <2>1, DivModUnique
<1>11. QED
  BY <1>0, <1>7, <1>10 DEF IsQuotient

-----------------------------------------------------------------------------
(* f64_sqrt's root.                                                        *)

\* The upper half word's root of a leading significand in a half word of 16 K numbers: p is the
\* last bit of the exponent, sq what is rooted, J how much of it may be cut off.
IsHalfSquare(p, a, K, sq, J) ==
  /\ a \in Nat /\ 8 * K <= a
  /\ (p = 0 /\ J = 16 * K /\ sq = a * (16 * K)) \/ (p = 1 /\ J = 8 * K /\ sq = a * (8 * K))

\* Such a root may fall as short as a Newton step allows.
LEMMA HalfExcess ==
  ASSUME NEW K \in Nat \ {0}, NEW p, NEW a, NEW sq, NEW J, IsHalfSquare(p, a, K, sq, J),
         NEW H, H = 16 * K, NEW r, IsRootEstimate(r, H, sq)
  PROVE  IsExcess(r, K, J)
<1>1. a \in Nat /\ 8 * K <= a /\ r \in Nat /\ 16 * K <= 2 * r
  BY DEF IsHalfSquare, IsRootEstimate
<1>2. CASE p = 0 /\ J = 16 * K /\ sq = a * (16 * K)
  <2>1. SUFFICES ASSUME r + 1 <= 10 * K PROVE FALSE
    <3>1. r + 1 <= 10 * K \/ 10 * K <= r
      BY <1>1
    <3>2. J <= 16 * K
      BY <1>2
    <3>3. QED
      BY <3>1, <3>2, <2>1 DEF IsExcess
  <2>2. PICK k \in Nat : k = K * K
    OBVIOUS
  <2>3. (r + 2) * (r + 2) <= ((10 * K) + 1) * ((10 * K) + 1)
    <3>1. r + 2 \in Nat /\ (10 * K) + 1 \in Nat /\ r + 2 <= (10 * K) + 1
      BY <1>1, <2>1
    <3>2. QED
      BY <3>1, SquareMonotonic
  <2>4. ((10 * K) + 1) * ((10 * K) + 1) = (100 * k) + (20 * K) + 1
    BY <2>2
  <2>5. (16 * K) * (8 * K) <= (16 * K) * a
    BY <1>1, ProductMonotonic
  <2>6. (16 * K) * (8 * K) = 128 * k /\ (16 * K) * a = a * (16 * K)
    BY <1>1, <2>2
  <2>7. K * 1 <= K * K
    BY ProductMonotonic
  <2>8. sq < (r + 2) * (r + 2)
    BY DEF IsRootEstimate
  <2>9. PICK x \in Nat, y \in Nat : x = (r + 2) * (r + 2) /\ y = a * (16 * K)
    BY <1>1
  <2>10. QED
    BY <1>2, <2>2, <2>3, <2>4, <2>5, <2>6, <2>7, <2>8, <2>9
<1>3. CASE p = 1 /\ J = 8 * K
  <2>1. J <= 8 * K /\ 8 * K <= r
    BY <1>1, <1>3
  <2>2. QED
    BY <2>1 DEF IsExcess
<1>4. QED
  BY <1>2, <1>3 DEF IsHalfSquare

\* What f64_sqrt's root is made from: H = 16 K and W are the numbers of its half word and word, N is
\* the radicand sigA W and u its last bit, r the estimate that softfloat_estimateSqrt32 makes from the
\* half word B of M = 4 sigA.
RootedFrom(f, u, k, K, H, W, sigA, N, r, sq, J, M, L, B) ==
  /\ WordLaws(word(f)) /\ u \in Nat \ {0} /\ u = 2^(f.G - 1) /\ u % 2 = 0
  /\ k \in Nat /\ k = word(f) \div 2 /\ K \in Nat \ {0} /\ H \in Nat /\ H = 16 * K /\ H = 2^k
  /\ sq \in Nat /\ IsRootEstimate(r, H, sq) /\ J \in Nat /\ IsExcess(r, K, J)
  /\ M \in Nat /\ Shortens(M, sq, J) /\ W \in Nat /\ Times(H, H, W) /\ L \in Nat /\ Times(M, W, L)
  /\ N \in Nat /\ L = 4 * N /\ sigA \in Nat /\ Times(sigA, W, N) /\ 4 * sigA < W /\ M = 4 * sigA
  /\ IsStepOf(r, H, B, M)

\* The root of a word as f64_sqrt comes to it stands for the root.
LEMMA RootF64Stands ==
  ASSUME NEW f, NEW u, NEW k, NEW K, NEW H, NEW W, NEW sigA, NEW N, NEW r, NEW sq, NEW J, NEW M, NEW L, NEW B,
         RootedFrom(f, u, k, K, H, W, sigA, N, r, sq, J, M, L, B)
  PROVE  RootF64(f, sigA, r) \in Nat /\ RootStands(RootF64(f, sigA, r), N, u)
<1> /\ WordLaws(word(f)) /\ u \in Nat \ {0} /\ u = 2^(f.G - 1) /\ u % 2 = 0
    /\ k \in Nat /\ k = word(f) \div 2 /\ K \in Nat \ {0} /\ H \in Nat /\ H = 16 * K /\ H = 2^k
    /\ sq \in Nat /\ IsRootEstimate(r, H, sq) /\ J \in Nat /\ IsExcess(r, K, J)
    /\ M \in Nat /\ Shortens(M, sq, J) /\ W \in Nat /\ Times(H, H, W) /\ L \in Nat /\ Times(M, W, L)
    /\ N \in Nat /\ L = 4 * N /\ sigA \in Nat /\ Times(sigA, W, N) /\ 4 * sigA < W /\ M = 4 * sigA
    /\ IsStepOf(r, H, B, M)
  BY Zenon DEF RootedFrom
<1>1. PICK w : w = word(f)
  OBVIOUS
<1>2. PICK V \in Nat : V = 2^(w - 1) /\ W = 2 * V /\ W = 2^w
  <2>1. WordLaws(w) /\ H = 2^(w \div 2) /\ W = H * H
    BY <1>1 DEF Times
  <2>2. 2^w = H * H /\ 2^(w - 1) \in Nat /\ 2 * 2^(w - 1) = 2^w
    BY <2>1, Zenon DEF WordLaws
  <2>3. QED
    BY <2>1, <2>2
<1>3. r \in Nat /\ H <= 2 * r /\ r < H
  BY DEF IsRootEstimate
<1>4. PICK y \in Nat, c \in Nat : y = r * H /\ y = 4 * c /\ c = r * (H \div 4)
  <2>1. PICK a \in Nat : a = r * K
    BY <1>3
  <2>2. H \div 4 = 4 * K
    OBVIOUS
  <2>3. r * (16 * K) = 16 * a /\ r * (4 * K) = 4 * a
    BY <1>3, <2>1
  <2>4. r * H = 16 * a /\ r * (H \div 4) = 4 * a
    BY <2>2, <2>3, Zenon
  <2>5. 16 * a \in Nat /\ 4 * a \in Nat /\ 16 * a = 4 * (4 * a)
    OBVIOUS
  <2>6. QED
    BY <2>4, <2>5
<1>5. y < W /\ W <= 2 * y
  <2>1. H * H <= H * (2 * r) /\ H * (r + 1) <= H * H
    BY <1>3, ProductMonotonic
  <2>2. H * (2 * r) = 2 * y /\ H * (r + 1) = y + H
    BY <1>3, <1>4
  <2>3. W = H * H
    BY DEF Times
  <2>4. H > 0
    OBVIOUS
  <2>5. QED
    BY <2>1, <2>2, <2>3, <2>4
<1>6. y \in Nat \ {0}
  BY <1>2, <1>5
<1>7. PICK q \in Nat, m \in 0..(y - 1) : q = N \div y /\ m = N % y /\ N = (y * q) + m
  BY <1>6, DivNat
<1>8. q = softfloat_estimateDiv128To64(w, sigA, 0, y)
  <2>1. y \in 2^(w - 1)..(2^w - 1) /\ sigA \in 0..(y - 1) /\ 0 \in 0..(2^w - 1) /\ WordLaws(w)
    <3>1. WordLaws(w)
      BY <1>1
    <3>2. QED
      BY <1>2, <1>5, <3>1
  <2>2. y % 2^(w \div 2) = 0
    <3>1. y = (H * r) + 0 /\ 0 \in 0..(H - 1) /\ y \in Int /\ r \in Int /\ H \in Nat \ {0}
      BY <1>3, <1>4
    <3>2. y % H = 0
      BY <3>1, DivModUnique
    <3>3. H = 2^(w \div 2)
      BY <1>1
    <3>4. QED
      BY <3>2, <3>3, Zenon
  <2>3. LET p == ((sigA * 2^w) + 0) \div y
        IN /\ softfloat_estimateDiv128To64(w, sigA, 0, y) \in p..(p + 2)
           /\ y % 2^(w \div 2) = 0 => softfloat_estimateDiv128To64(w, sigA, 0, y) = p
    BY <2>1, EstimateOfTwoDigits
  <2>4. (sigA * 2^w) + 0 = N
    <3>1. N = sigA * W
      BY DEF Times
    <3>2. N + 0 = N
      OBVIOUS
    <3>3. QED
      BY <1>2, <3>1, <3>2, Zenon
  <2>5. QED
    BY <1>7, <2>2, <2>3, <2>4, Zenon
<1>9. PICK z \in Nat : z = q + c
  OBVIOUS
<1>10. Times(r, H, y) /\ IsQuotient(q, N, y) /\ y = 4 * c
  BY <1>4, <1>7 DEF Times, IsQuotient
<1>11. RootBounds(N, z)
  <2>1. q \in q..(q + 2)
    OBVIOUS
  <2>2. QED
    BY <1>9, <1>10, <2>1, NewtonBounds
<1>12. RootF64(f, sigA, r) = CorrectedRoot(N, z, u, 0)
  <2>1. z = softfloat_estimateDiv128To64(word(f), sigA, 0, r * H) + r * (H \div 4)
    BY <1>1, <1>4, <1>8, <1>9, Zenon
  <2>2. N = sigA * W /\ W = 2^word(f)
    BY <1>1, <1>2 DEF Times
  <2>3. RootF64(f, sigA, r) = IF z % u <= 5 THEN LowerRoot(z, sigA * W - z * z, 0) ELSE z
    BY <2>1, <2>2, Zenon DEF RootF64
  <2>4. QED
    BY <2>2, <2>3, Zenon DEF CorrectedRoot
<1>13. N % 16 = 0
  <2>1. PICK x \in Nat : x = sigA * (K * K)
    OBVIOUS
  <2>2. sigA * ((16 * K) * (16 * K)) = 16 * (16 * x)
    <3>1. sigA * ((16 * K) * (16 * K)) = 16 * (16 * (sigA * (K * K)))
      OBVIOUS
    <3>2. QED
      BY <2>1, <3>1
  <2>3. N = sigA * W /\ W = H * H
    BY DEF Times
  <2>4. N = 16 * (16 * x)
    BY <2>2, <2>3, Zenon
  <2>5. QED
    BY <2>4
<1>14. ASSUME NEW R \in Nat, R * R = N PROVE z = R
  <2>1. PICK t \in Nat : R = H * t /\ t * t = sigA
    <3>1. H \in Nat \ {0} /\ Times(R, R, N)
      BY <1>14 DEF Times
    <3>2. QED
      BY <3>1, ExactRoot
  <2>2. PICK x \in Nat : x = 2 * t /\ x * x = M /\ 2 * R = H * x
    <3>1. (2 * t) * (2 * t) = 4 * (t * t) /\ H * (2 * t) = 2 * (H * t)
      OBVIOUS
    <3>2. QED
      BY <2>1, <3>1
  <2>3. r > 2 /\ 8 * K <= r
    BY <1>3
  <2>4. (r - 2) * (r - 2) < M
    <3>1. PICK p \in Nat : p = (r - 2) * (r - 2)
      <4>1. r - 2 \in Nat
        BY <1>3, <2>3
      <4>2. QED
        BY <4>1
    <3>2. p < sq
      BY <2>3, <3>1 DEF IsRootEstimate
    <3>3. QED
      BY <3>1, <3>2 DEF Shortens
  <2>5. x \in (r - 1)..(r + 1)
    BY <1>3, <2>2, <2>3, <2>4, RootClose
  <2>6. q + c = R
    <3>1. IsExactStep(K, H, r, x, R, y, c, N, q)
      BY <1>3, <1>4, <1>10, <1>14, <2>2, <2>3, <2>5, Zenon DEF IsExactStep
    <3>2. QED
      BY <3>1, StepExact
  <2>7. QED
    BY <1>9, <2>6
<1>15. LowersRight(N, z, 0)
  BY <1>13, <1>14 DEF LowersRight
<1>16. CorrectedRoot(N, z, u, 0) \in Nat /\ RootStands(CorrectedRoot(N, z, u, 0), N, u)
  BY <1>11, <1>15, CorrectedStands
<1>17. QED
  BY <1>12, <1>16, Zenon

-----------------------------------------------------------------------------
(* f32_sqrt and f64_sqrt.                                                  *)

\* The significand's factor is what the shifts by the last bit of the exponent leave.
LEMMA ParityShifts ==
  ASSUME NEW f, IsFormat(f), NEW u \in Nat \ {0}, u = 2^(f.G - 1), NEW e \in Int, NEW sig \in Nat
  PROVE  \E v \in Nat \ {0} : /\ IsParity(e % 2, u, v) /\ 2^(f.G - 1 - (e % 2)) = v
                              /\ (sig * 2^(f.G + 1)) \div 2^(e % 2) = 4 * (sig * v)
<1>1. PICK G \in Nat : G = f.G /\ G >= 3
  BY DEF IsFormat
<1>2. PICK n \in Nat : G - 1 = n + 1 /\ (G - 1) - 1 = n /\ (G - 1) - 0 = G - 1 /\ G = (G - 1) + 1
  <2>1. G - 2 \in Nat /\ G - 1 = (G - 2) + 1 /\ (G - 1) - 1 = G - 2 /\ (G - 1) - 0 = G - 1 /\ G = (G - 1) + 1
    BY <1>1
  <2>2. QED
    BY <2>1
<1>3. PICK x \in Nat \ {0} : x = 2^n /\ u = 2 * x
  <2>1. 2^(n + 1) = 2 * 2^n /\ 2^n \in Nat \ {0}
    BY PowerNext, PowerPositive
  <2>2. u = 2^(n + 1)
    BY <1>1, <1>2, Zenon
  <2>3. QED
    BY <2>1, <2>2
<1>4. 2^(G + 1) = 4 * u
  <2>1. PICK m \in Nat : m = G - 1 /\ G = m + 1
    BY <1>1
  <2>2. 2^(m + 1) = 2 * 2^m /\ 2^(G + 1) = 2 * 2^G /\ 2^m \in Nat
    BY PowerNext, PowerPositive
  <2>3. 2^m = u /\ 2^(m + 1) = 2^G
    BY <1>1, <2>1, Zenon
  <2>4. QED
    BY <2>2, <2>3
<1>5. PICK p \in 0..1 : p = e % 2
  <2>1. e % 2 \in 0..1
    OBVIOUS
  <2>2. QED
    BY <2>1
<1>6. CASE p = 0
  <2>1. IsParity(p, u, u)
    BY <1>6 DEF IsParity
  <2>2. 2^(G - 1 - p) = u
    BY <1>1, <1>2, <1>6, Zenon
  <2>3. (sig * 2^(G + 1)) \div 2^p = 4 * (sig * u)
    <3>1. 2^p = 1
      BY <1>6, PowerZero, Zenon
    <3>2. PICK y \in Nat : y = sig * u
      OBVIOUS
    <3>3. sig * (4 * u) = 4 * y
      BY <3>2
    <3>4. (4 * y) \div 1 = 4 * y
      OBVIOUS
    <3>5. QED
      BY <1>4, <3>1, <3>2, <3>3, <3>4, Zenon
  <2>4. QED
    BY <1>1, <1>5, <2>1, <2>2, <2>3, Zenon
<1>7. CASE p = 1
  <2>1. IsParity(p, u, x)
    BY <1>3, <1>7 DEF IsParity
  <2>2. 2^(G - 1 - p) = x
    BY <1>1, <1>2, <1>3, <1>7, Zenon
  <2>3. (sig * 2^(G + 1)) \div 2^p = 4 * (sig * x)
    <3>1. 2^p = 2
      BY <1>7, PowerOne, Zenon
    <3>2. PICK y \in Nat : y = sig * x
      OBVIOUS
    <3>3. sig * (4 * u) = 8 * y
      <4>1. sig * (4 * (2 * x)) = 8 * y
        BY <3>2
      <4>2. QED
        BY <1>3, <4>1
    <3>4. (8 * y) \div 2 = 4 * y
      OBVIOUS
    <3>5. QED
      BY <1>4, <3>1, <3>2, <3>3, <3>4, Zenon
  <2>4. QED
    BY <1>1, <1>3, <1>5, <2>1, <2>2, <2>3, Zenon
<1>8. QED
  BY <1>6, <1>7

\* The estimates of the model are those that are promised, and not below the truncated root of
\* the operand that the last line of softfloat_estimateSqrt32 divides.
LEMMA EstimateIs ==
  ASSUME NEW w \in Nat \ {0, 1}, NEW e \in Int, NEW a \in Nat, NEW r \in softfloat_estimateSqrt32(w, e, a)
  PROVE  \E V \in Nat : /\ 2^w = 2 * V /\ IsRootEstimate(r, 2^w, a * (IF e % 2 = 1 THEN V ELSE 2^w))
                        /\ (a \div 2^(e % 2)) * 2^w < (r + 1) * (r + 1)
<1>1. PICK n \in Nat : w - 1 = n + 1 /\ w - 2 = n /\ w = (w - 1) + 1
  <2>1. w - 2 \in Nat /\ w - 1 = (w - 2) + 1 /\ w = (w - 1) + 1
    OBVIOUS
  <2>2. QED
    BY <2>1
<1>2. PICK V \in Nat, H \in Nat, Y \in Nat \ {0} : V = 2^(w - 1) /\ H = 2^w /\ H = 2 * V /\ Y = 2^(w - 2)
  <2>1. PICK m \in Nat : m = w - 1 /\ w = m + 1
    BY <1>1
  <2>2. 2^(m + 1) = 2 * 2^m /\ 2^m \in Nat /\ 2^n \in Nat \ {0}
    BY PowerNext, PowerPositive
  <2>3. 2^w = 2 * 2^(w - 1) /\ 2^(w - 1) \in Nat /\ 2^(w - 2) \in Nat \ {0}
    BY <1>1, <2>1, <2>2
  <2>4. QED
    BY <2>3
<1>3. a * 2^(IF e % 2 = 1 THEN w - 1 ELSE w) = a * (IF e % 2 = 1 THEN V ELSE H)
  <2>1. CASE e % 2 = 1
    BY <1>2, <2>1, Zenon
  <2>2. CASE e % 2 # 1
    BY <1>2, <2>2, Zenon
  <2>3. QED
    BY <2>1, <2>2
<1>4. PICK sq : sq = a * (IF e % 2 = 1 THEN V ELSE H)
  OBVIOUS
<1>5. PICK b \in Nat : b = a \div 2^(e % 2)
  <2>1. e % 2 \in {0, 1}
    OBVIOUS
  <2>2. 2^(e % 2) \in {1, 2}
    BY <2>1, PowerZero, PowerOne, Zenon
  <2>3. PICK d \in Nat \ {0} : d = 2^(e % 2)
    BY <2>2
  <2>4. a \div d \in Nat
    BY DivNat
  <2>5. QED
    BY <2>3, <2>4
<1>6. /\ r \in V..(H - 1)
      /\ r > 2 => (r - 2) * (r - 2) < sq
      /\ sq < (r + 2) * (r + 2)
      /\ \E y \in Y..V : r = (b * V) \div (2 * y) + (2 * y) \div 2
  BY <1>2, <1>3, <1>4, <1>5, Zenon DEF softfloat_estimateSqrt32
<1>7. r \in Nat /\ H <= 2 * r /\ r < H
  BY <1>2, <1>6
<1>8. IsRootEstimate(r, H, sq)
  BY <1>6, <1>7, Zenon DEF IsRootEstimate
<1>9. b * H < (r + 1) * (r + 1)
  <2>1. PICK y \in Nat \ {0} : r = (b * V) \div (2 * y) + (2 * y) \div 2
    BY <1>6
  <2>2. (2 * y) \div 2 = y
    OBVIOUS
  <2>3. r = (b * V) \div (2 * y) + y
    BY <2>1, <2>2
  <2>4. QED
    BY <1>2, <2>3, StepAbove
<1>10. QED
  BY <1>2, <1>4, <1>5, <1>8, <1>9, Zenon

\* The significand and its factor fit their words.
LEMMA RootFits ==
  ASSUME NEW h \in Nat \ {0}, NEW u \in Nat \ {0}, NEW sig \in h..((2 * h) - 1), NEW p, NEW v \in Nat, IsParity(p, u, v),
         NEW g \in Nat, g = 2 * u, NEW W \in Nat, W = 4 * (h * g)
  PROVE  4 * (sig * v) < W
<1>1. u * (sig + 1) <= u * (2 * h)
  BY ProductMonotonic
<1>2. PICK x \in Nat, y \in Nat, z \in Nat : x = sig * u /\ y = h * u /\ z = sig * v
  OBVIOUS
<1>3. u * (sig + 1) = x + u /\ u * (2 * h) = 2 * y /\ h * g = 2 * y
  BY <1>2
<1>4. z <= x
  <2>1. v <= u
    BY DEF IsParity
  <2>2. sig * v <= sig * u
    BY <2>1, ProductMonotonic
  <2>3. QED
    BY <1>2, <2>2
<1>5. QED
  BY <1>1, <1>2, <1>3, <1>4

\* f32_sqrt's root of a significand, from any estimate, stands for the root.
LEMMA WordRootStands ==
  ASSUME NEW f, IsFormat(f), NEW h \in Nat \ {0}, NEW u \in Nat \ {0}, NEW b \in Nat, Sizes(f, h, u, b),
         NEW e \in Int, NEW sig \in h..((2 * h) - 1), NEW g \in Nat \ {0}, g = 2 * u, NEW W \in Nat, W = 4 * (h * g),
         NEW v \in Nat, IsParity(e % 2, u, v), NEW N \in Nat, N = (sig * v) * W,
         NEW r \in softfloat_estimateSqrt32(word(f), e, sig * 2^(f.G + 1)),
         NEW sigA \in Nat, sigA = 4 * (sig * v)
  PROVE  RootF32(f, sigA, r) \in Nat /\ RootStands(RootF32(f, sigA, r), N, u)
<1>1. PICK a \in Nat : a = sig * 2^(f.G + 1) /\ a = 4 * (sig * u)
  <2>1. 2^(f.G + 1) = 4 * u
    <3>1. 2^(f.G + 1) = 2 * 2^f.G
      BY PowerNext DEF IsFormat
    <3>2. 2^f.G = 2 * u
      BY DEF Sizes
    <3>3. QED
      BY <3>1, <3>2
  <2>2. PICK x \in Nat : x = sig * u
    OBVIOUS
  <2>3. sig * (4 * u) = 4 * x
    BY <2>2
  <2>4. QED
    BY <2>1, <2>2, <2>3
<1>2. PICK V \in Nat : W = 2 * V /\ IsRootEstimate(r, W, a * (IF e % 2 = 1 THEN V ELSE W))
  <2>1. 2^word(f) = W
    BY DEF Sizes
  <2>2. word(f) \in Nat \ {0, 1}
    BY DEF word, IsFormat
  <2>3. PICK w \in Nat \ {0, 1} : w = word(f)
    BY <2>2
  <2>4. r \in softfloat_estimateSqrt32(w, e, a)
    BY <1>1, <2>3
  <2>5. \E V \in Nat : /\ 2^w = 2 * V /\ IsRootEstimate(r, 2^w, a * (IF e % 2 = 1 THEN V ELSE 2^w))
                       /\ (a \div 2^(e % 2)) * 2^w < (r + 1) * (r + 1)
    BY <2>4, EstimateIs
  <2>6. 2^w = W
    BY <2>1, <2>3
  <2>7. QED
    BY <2>5, <2>6, Zenon
<1>3. PICK M \in Nat : M = sigA * W
  OBVIOUS
<1>4. M = 4 * N
  <2>1. PICK z \in Nat : z = sig * v
    OBVIOUS
  <2>2. (4 * z) * W = 4 * (z * W)
    OBVIOUS
  <2>3. QED
    BY <1>3, <2>1, <2>2
<1>5. a * (IF e % 2 = 1 THEN V ELSE W) = M
  <2>1. CASE e % 2 = 1
    <3>1. u = 2 * v
      <4>1. ~(e % 2 = 0)
        BY <2>1
      <4>2. QED
        BY <4>1 DEF IsParity
    <3>2. (4 * (sig * (2 * v))) * V = (4 * (sig * v)) * (2 * V)
      OBVIOUS
    <3>3. a * V = sigA * W
      BY <1>1, <1>2, <3>1, <3>2
    <3>4. QED
      BY <1>3, <2>1, <3>3, Zenon
  <2>2. CASE e % 2 # 1
    <3>1. v = u
      BY <2>2 DEF IsParity
    <3>2. a = sigA
      BY <1>1, <3>1
    <3>3. QED
      BY <1>3, <2>2, <3>2, Zenon
  <2>3. QED
    BY <2>1, <2>2
<1>6. IsRootEstimate(r, W, M)
  BY <1>2, <1>5, Zenon
<1>7. Times(sigA, W, M) /\ sigA < W
  <2>1. 4 * (sig * v) < W
    <3>1. PICK p : p = e % 2
      OBVIOUS
    <3>2. IsParity(p, u, v)
      BY <3>1
    <3>3. QED
      BY <3>2, RootFits
  <2>2. QED
    BY <1>3, <2>1 DEF Times
<1>8. QED
  BY <1>4, <1>6, <1>7, RootF32Stands

\* The half word and the part of a significand that its root is estimated from.
LEMMA HalfWord ==
  ASSUME NEW f, IsFormat(f), IsEven(f), f.F >= f.G, NEW h \in Nat \ {0}, NEW u \in Nat \ {0}, NEW b \in Nat, Sizes(f, h, u, b)
  PROVE  /\ word(f) \div 2 \in Nat \ {0, 1}
         /\ \E K \in Nat \ {0}, D \in Nat \ {0} :
              /\ 2^(word(f) \div 2) = 16 * K /\ 2^(f.F + 1 - (word(f) \div 2)) = D
              /\ 16 * K = 4 * (D * u) /\ 2 * h = D * (16 * K) /\ (16 * K) * (16 * K) = 8 * (h * u)
<1>1. PICK F \in Nat, G \in Nat, w \in Nat : F = f.F /\ G = f.G /\ w = word(f) /\ w = (F + G) + 2 /\ G >= 3 /\ F >= G /\ w % 2 = 0
  <2>1. word(f) = f.F + f.G + 2 /\ word(f) % 2 = 0 /\ f.F \in Nat /\ f.G \in Nat /\ f.G >= 3
    BY DEF word, IsEven, IsFormat
  <2>2. PICK F \in Nat, G \in Nat : F = f.F /\ G = f.G
    BY <2>1
  <2>3. PICK w \in Nat : w = (F + G) + 2
    OBVIOUS
  <2>4. QED
    BY <2>1, <2>2, <2>3
<1>2. PICK k \in Nat : k = w \div 2 /\ w = k + k
  <2>1. w \div 2 \in Nat /\ w = (w \div 2) + (w \div 2)
    BY <1>1
  <2>2. QED
    BY <2>1
<1>3. PICK n \in Nat, j \in Nat : k = n + 4 /\ j = (F + 1) - k /\ F + 1 = j + k
  <2>1. (F + G) + 2 = k + k /\ G >= 3 /\ F >= G
    <3>1. (F + G) + 2 = w /\ w = k + k /\ G >= 3 /\ F >= G
      BY <1>1, <1>2
    <3>2. QED
      BY <3>1
  <2>2. PICK n \in Nat, j \in Nat : k = n + 4 /\ F + 1 = j + k
    <3>1. k - 4 \in Nat /\ (F + 1) - k \in Nat
      BY <2>1
    <3>2. k = (k - 4) + 4 /\ F + 1 = ((F + 1) - k) + k
      OBVIOUS
    <3>3. QED
      BY <3>1, <3>2
  <2>3. QED
    BY <2>2
<1>4. PICK K \in Nat \ {0} : K = 2^n /\ 2^k = 16 * K
  <2>1. 2^n \in Nat \ {0}
    BY PowerPositive
  <2>2. 2^4 = 16
    <3>1. 2^(1 + 1) = 2 * 2^1 /\ 2^(2 + 1) = 2 * 2^2 /\ 2^(3 + 1) = 2 * 2^3
      BY PowerNext
    <3>2. 1 + 1 = 2 /\ 2 + 1 = 3 /\ 3 + 1 = 4
      OBVIOUS
    <3>3. 2^2 = 2 * 2^1 /\ 2^3 = 2 * 2^2 /\ 2^4 = 2 * 2^3
      BY <3>1, <3>2, Zenon
    <3>4. QED
      BY <3>3, PowerOne
  <2>3. 2^(n + 4) = 2^n * 2^4
    BY PowerSum
  <2>4. QED
    BY <1>3, <2>1, <2>2, <2>3
<1>5. PICK D \in Nat \ {0} : D = 2^j /\ 2 * h = D * (16 * K)
  <2>1. 2^j \in Nat \ {0}
    BY PowerPositive
  <2>2. 2^(j + k) = 2^j * 2^k
    BY PowerSum
  <2>3. 2^(F + 1) = 2 * 2^F /\ 2^F = h
    BY <1>1, PowerNext DEF Sizes
  <2>4. QED
    BY <1>3, <1>4, <2>1, <2>2, <2>3
<1>6. (16 * K) * (16 * K) = 8 * (h * u)
  <2>1. 2^(k + k) = 2^k * 2^k
    BY PowerSum
  <2>2. 2^word(f) = 4 * (h * (2 * u))
    BY DEF Sizes
  <2>3. PICK x \in Nat : x = h * u
    OBVIOUS
  <2>4. 4 * (h * (2 * u)) = 8 * x
    BY <2>3
  <2>5. 2^word(f) = 2^(k + k)
    BY <1>1, <1>2
  <2>6. QED
    BY <1>4, <2>1, <2>2, <2>3, <2>4, <2>5
<1>7. 16 * K = 4 * (D * u)
  <2>1. PICK H \in Nat \ {0} : H = 16 * K
    OBVIOUS
  <2>2. H * H = H * (4 * (D * u))
    <3>1. H * (4 * (D * u)) = 4 * ((D * H) * u)
      OBVIOUS
    <3>2. PICK x \in Nat : x = h * u
      OBVIOUS
    <3>3. 4 * ((2 * h) * u) = 8 * x
      BY <3>2
    <3>4. QED
      BY <1>5, <1>6, <2>1, <3>1, <3>2, <3>3
  <2>3. 4 * (D * u) \in Int /\ H \in Int
    OBVIOUS
  <2>4. H = 4 * (D * u)
    BY <2>2, <2>3, ProductSame
  <2>5. QED
    BY <2>1, <2>4
<1>8. f.F + 1 - (word(f) \div 2) = j /\ word(f) \div 2 = k /\ k \notin {0, 1}
  <2>1. f.F = F /\ word(f) \div 2 = k
    BY <1>1, <1>2, Zenon
  <2>2. F + 1 - k = j /\ k \notin {0, 1}
    BY <1>3
  <2>3. QED
    BY <2>1, <2>2, Zenon
<1>9. QED
  BY <1>4, <1>5, <1>6, <1>7, <1>8

\* The part a of a significand of h to 2 h is what 8 K to 16 K numbers count of it, by D.
IsPart(a, sig, h, D, K, u) == a = sig \div D /\ 16 * K = 4 * (D * u) /\ 2 * h = D * (16 * K)

\* What is rooted instead of the significand, and by how much that may be too small.
RootsPart(p, a, K, V, sq, J, M) ==
  sq = a * (IF p = 1 THEN V ELSE 16 * K) /\ IsHalfSquare(p, a, K, sq, J) /\ Shortens(M, sq, J)

\* What the truncated significand's square falls short of the significand's.
LEMMA TruncatedSquare ==
  ASSUME NEW h \in Nat \ {0}, NEW u \in Nat \ {0}, NEW sig \in h..((2 * h) - 1), NEW p, NEW v \in Nat \ {0}, IsParity(p, u, v),
         NEW K \in Nat \ {0}, NEW D \in Nat \ {0}, NEW V \in Nat, 16 * K = 2 * V,
         NEW a \in Nat, IsPart(a, sig, h, D, K, u), NEW M \in Nat, M = 4 * (sig * v)
  PROVE  \E sq \in Nat, J \in Nat : RootsPart(p, a, K, V, sq, J, M)
<1>1. 16 * K = 4 * (D * u) /\ 2 * h = D * (16 * K)
  BY DEF IsPart
<1>2. PICK m \in 0..(D - 1) : sig = (D * a) + m
  <2>1. PICK s \in Nat : s = sig
    OBVIOUS
  <2>2. PICK q \in Nat, m \in 0..(D - 1) : q = s \div D /\ m = s % D /\ s = (D * q) + m
    BY DivNat
  <2>3. q = a
    BY <2>1, <2>2, Zenon DEF IsPart
  <2>4. QED
    BY <2>1, <2>2, <2>3, Zenon
<1>3. V = 8 * K
  OBVIOUS
<1>4. 8 * K <= a
  <2>1. SUFFICES ASSUME a + 1 <= 8 * K PROVE FALSE
    BY <1>2
  <2>2. D * (a + 1) <= D * (8 * K)
    BY <1>2, <2>1, ProductMonotonic
  <2>3. PICK x \in Nat, y \in Nat : x = D * K /\ y = D * a
    OBVIOUS
  <2>4. D * (a + 1) = y + D /\ D * (8 * K) = 8 * x /\ D * (16 * K) = 16 * x
    BY <1>2, <2>3
  <2>5. QED
    BY <1>1, <1>2, <2>2, <2>3, <2>4
<1>5. PICK J \in Nat, z \in Nat : /\ z = D * v /\ J = 4 * z
                                  /\ (p = 0 /\ J = 16 * K) \/ (p = 1 /\ J = 8 * K)
  <2>1. PICK z \in Nat : z = D * v
    OBVIOUS
  <2>2. CASE p = 0 /\ v = u
    BY <1>1, <2>1, <2>2
  <2>3. CASE p = 1 /\ u = 2 * v
    <3>1. D * (2 * v) = 2 * z
      BY <2>1
    <3>2. QED
      BY <1>1, <2>1, <2>3, <3>1
  <2>4. QED
    BY <2>2, <2>3 DEF IsParity
<1>6. PICK sq \in Nat : sq = a * J
  BY <1>2
<1>7. sq = a * (IF p = 1 THEN V ELSE 16 * K)
  BY <1>3, <1>5, <1>6
<1>8. IsHalfSquare(p, a, K, sq, J)
  BY <1>2, <1>4, <1>5, <1>6 DEF IsHalfSquare
<1>9. Shortens(M, sq, J)
  <2>1. PICK n \in Nat, x \in Nat : n = m * v /\ x = a * z
    BY <1>2
  <2>2. 4 * (sig * v) = sq + (4 * n)
    <3>1. ((D * a) + m) * v = (a * (D * v)) + (m * v)
      OBVIOUS
    <3>2. sig * v = x + n
      BY <1>2, <1>5, <2>1, <3>1
    <3>3. a * (4 * z) = 4 * x
      BY <1>2, <2>1
    <3>4. QED
      BY <1>5, <1>6, <3>2, <3>3
  <2>3. v * (m + 1) <= v * D
    BY ProductMonotonic
  <2>4. v * (m + 1) = n + v /\ v * D = z
    BY <1>5, <2>1
  <2>5. 4 * n < J
    BY <1>5, <2>3, <2>4
  <2>6. sq <= M /\ M < sq + J
    BY <2>2, <2>5
  <2>7. QED
    BY <2>6 DEF Shortens
<1>10. QED
  BY <1>7, <1>8, <1>9 DEF RootsPart

\* The significand lies below the half word after those that the estimate divides.
LEMMA PartBelow ==
  ASSUME NEW h \in Nat \ {0}, NEW u \in Nat \ {0}, NEW sig \in h..((2 * h) - 1), NEW p, NEW v \in Nat \ {0}, IsParity(p, u, v),
         NEW K \in Nat \ {0}, NEW D \in Nat \ {0}, NEW a \in Nat, IsPart(a, sig, h, D, K, u),
         NEW M \in Nat, M = 4 * (sig * v), NEW H \in Nat, H = 16 * K
  PROVE  a \div 2^p \in Nat /\ M < ((a \div 2^p) + 1) * H
<1>1. H = 4 * (D * u)
  BY DEF IsPart
<1>2. PICK m \in 0..(D - 1) : sig = (D * a) + m
  <2>1. PICK s \in Nat : s = sig
    OBVIOUS
  <2>2. PICK q \in Nat, m \in 0..(D - 1) : q = s \div D /\ m = s % D /\ s = (D * q) + m
    BY DivNat
  <2>3. q = a
    BY <2>1, <2>2, Zenon DEF IsPart
  <2>4. QED
    BY <2>1, <2>2, <2>3, Zenon
<1>3. PICK x \in Nat, s \in Nat : x = D * v /\ s = sig * v /\ s < (a + 1) * x
  <2>1. sig + 1 <= D * (a + 1)
    <3>1. D * (a + 1) = (D * a) + D
      OBVIOUS
    <3>2. QED
      BY <1>2, <3>1
  <2>2. v * (sig + 1) <= v * (D * (a + 1))
    BY <2>1, ProductMonotonic
  <2>3. PICK x \in Nat, s \in Nat : x = D * v /\ s = sig * v
    OBVIOUS
  <2>4. v * (sig + 1) = s + v /\ v * (D * (a + 1)) = (a + 1) * x
    <3>1. v * (sig + 1) = (sig * v) + v /\ v * (D * (a + 1)) = (a + 1) * (D * v)
      OBVIOUS
    <3>2. QED
      BY <2>3, <3>1
  <2>5. QED
    BY <2>2, <2>3, <2>4
<1>4. CASE p = 0 /\ v = u
  <2>1. a \div 2^p = a
    <3>1. 2^p = 1
      BY <1>4, PowerZero, Zenon
    <3>2. a \div 1 = a
      OBVIOUS
    <3>3. QED
      BY <3>1, <3>2, Zenon
  <2>2. H = 4 * x
    BY <1>1, <1>3, <1>4
  <2>3. (a + 1) * (4 * x) = 4 * ((a + 1) * x)
    OBVIOUS
  <2>4. M < (a + 1) * H
    BY <1>3, <2>2, <2>3
  <2>5. QED
    BY <2>1, <2>4, Zenon
<1>5. CASE p = 1 /\ u = 2 * v
  <2>1. PICK b \in Nat : b = a \div 2^p /\ a + 1 <= 2 * (b + 1)
    <3>1. 2^p = 2
      BY <1>5, PowerOne, Zenon
    <3>2. a \div 2 \in Nat /\ a + 1 <= 2 * ((a \div 2) + 1)
      OBVIOUS
    <3>3. QED
      BY <3>1, <3>2, Zenon
  <2>2. H = 8 * x
    <3>1. D * (2 * v) = 2 * x
      BY <1>3
    <3>2. QED
      BY <1>1, <1>5, <3>1
  <2>3. PICK y \in Nat : y = (b + 1) * x
    OBVIOUS
  <2>4. x * (a + 1) <= x * (2 * (b + 1)) /\ x * (a + 1) = (a + 1) * x /\ x * (2 * (b + 1)) = 2 * y
    BY <2>1, <2>3, ProductMonotonic
  <2>5. (b + 1) * H = 8 * y
    <3>1. (b + 1) * (8 * x) = 8 * ((b + 1) * x)
      OBVIOUS
    <3>2. QED
      BY <2>2, <2>3, <3>1
  <2>6. M < (b + 1) * H
    BY <1>3, <2>4, <2>5
  <2>7. QED
    BY <2>1, <2>6, Zenon
<1>6. QED
  BY <1>4, <1>5 DEF IsParity

\* f64_sqrt's root of a significand, from any estimate of the upper half word's, stands for the root.
LEMMA DoubleRootStands ==
  ASSUME NEW f, IsFormat(f), IsEven(f), f.F >= f.G, NEW h \in Nat \ {0}, NEW u \in Nat \ {0}, NEW b \in Nat, Sizes(f, h, u, b),
         NEW e \in Int, NEW sig \in h..((2 * h) - 1), NEW g \in Nat \ {0}, g = 2 * u, NEW W \in Nat, W = 4 * (h * g),
         NEW v \in Nat \ {0}, IsParity(e % 2, u, v), NEW N \in Nat, N = (sig * v) * W,
         NEW r \in softfloat_estimateSqrt32(word(f) \div 2, e, sig \div 2^(f.F + 1 - (word(f) \div 2))),
         NEW sigA \in Nat, sigA = sig * v
  PROVE  RootF64(f, sigA, r) \in Nat /\ RootStands(RootF64(f, sigA, r), N, u)
<1>1. PICK k \in Nat \ {0, 1} : k = word(f) \div 2
  BY HalfWord
<1>2. PICK K \in Nat \ {0}, D \in Nat \ {0} :
        /\ 2^k = 16 * K /\ 2^(f.F + 1 - k) = D
        /\ 16 * K = 4 * (D * u) /\ 2 * h = D * (16 * K) /\ (16 * K) * (16 * K) = 8 * (h * u)
  <2>1. \E K \in Nat \ {0}, D \in Nat \ {0} :
          /\ 2^(word(f) \div 2) = 16 * K /\ 2^(f.F + 1 - (word(f) \div 2)) = D
          /\ 16 * K = 4 * (D * u) /\ 2 * h = D * (16 * K) /\ (16 * K) * (16 * K) = 8 * (h * u)
    BY HalfWord
  <2>2. QED
    BY <1>1, <2>1, Zenon
<1>3. PICK p : p = e % 2 /\ IsParity(p, u, v)
  OBVIOUS
<1>4. PICK a \in Nat : a = sig \div D
  <2>1. sig \in Nat
    OBVIOUS
  <2>2. PICK q \in Nat, m \in 0..(D - 1) : q = sig \div D /\ m = sig % D /\ sig = (D * q) + m
    BY <2>1, DivNat
  <2>3. QED
    BY <2>2
<1>5. PICK V \in Nat : /\ 16 * K = 2 * V /\ IsRootEstimate(r, 16 * K, a * (IF p = 1 THEN V ELSE 16 * K))
                       /\ (a \div 2^p) * (16 * K) < (r + 1) * (r + 1)
  <2>1. r \in softfloat_estimateSqrt32(k, e, a)
    BY <1>1, <1>2, <1>4, Zenon
  <2>2. \E V \in Nat : /\ 2^k = 2 * V /\ IsRootEstimate(r, 2^k, a * (IF e % 2 = 1 THEN V ELSE 2^k))
                       /\ (a \div 2^(e % 2)) * 2^k < (r + 1) * (r + 1)
    BY <2>1, EstimateIs
  <2>3. QED
    BY <1>2, <1>3, <2>2, Zenon
<1>6. PICK sq \in Nat, J \in Nat, M \in Nat : M = 4 * (sig * v) /\ RootsPart(p, a, K, V, sq, J, M)
  <2>1. IsPart(a, sig, h, D, K, u)
    BY <1>2, <1>4, Zenon DEF IsPart
  <2>2. PICK M \in Nat : M = 4 * (sig * v)
    OBVIOUS
  <2>3. 16 * K = 2 * V /\ IsParity(p, u, v)
    BY <1>3, <1>5
  <2>4. \E sq \in Nat, J \in Nat : RootsPart(p, a, K, V, sq, J, M)
    BY <2>1, <2>2, <2>3, TruncatedSquare
  <2>5. QED
    BY <2>2, <2>4, Zenon
<1>7. PICK H \in Nat : H = 16 * K
  OBVIOUS
<1>8. IsRootEstimate(r, H, sq)
  BY <1>5, <1>6, <1>7, Zenon DEF RootsPart
<1>9. IsExcess(r, K, J)
  <2>1. IsHalfSquare(p, a, K, sq, J)
    BY <1>6 DEF RootsPart
  <2>2. QED
    BY <1>7, <1>8, <2>1, HalfExcess
<1>10. Shortens(M, sq, J)
  BY <1>6 DEF RootsPart
<1>11. Times(H, H, W)
  <2>1. PICK x \in Nat : x = h * u
    OBVIOUS
  <2>2. h * (2 * u) = 2 * x
    BY <2>1
  <2>3. H * H = W
    BY <1>2, <1>7, <2>1, <2>2
  <2>4. QED
    BY <2>3 DEF Times
<1>12. PICK L \in Nat : Times(M, W, L) /\ L = 4 * N
  <2>1. PICK x \in Nat : x = sig * v
    OBVIOUS
  <2>2. (4 * x) * W = 4 * (x * W) /\ (4 * x) * W \in Nat
    OBVIOUS
  <2>3. PICK L \in Nat : L = M * W
    OBVIOUS
  <2>4. L = 4 * N
    BY <1>6, <2>1, <2>2, <2>3
  <2>5. QED
    BY <2>3, <2>4 DEF Times
<1>13. Times(sigA, W, N) /\ 4 * sigA < W
  <2>1. 4 * (sig * v) < W
    BY <1>3, RootFits
  <2>2. QED
    BY <2>1 DEF Times
<1>14. WordLaws(word(f))
  <2>1. word(f) \in Nat /\ word(f) >= 2
    BY DEF word, IsFormat
  <2>2. QED
    BY <2>1, WordIs DEF IsEven
<1>15. u = 2^(f.G - 1) /\ u % 2 = 0
  <2>1. 2^(f.G - 1) = u /\ u % 4 = 0
    BY DEF Sizes
  <2>2. QED
    BY <2>1
<1>16. H = 2^(word(f) \div 2)
  BY <1>1, <1>2, <1>7, Zenon
<1>17. M = 4 * sigA
  BY <1>6
<1>18. IsStepOf(r, H, a \div 2^p, M)
  <2>1. (a \div 2^p) * H < (r + 1) * (r + 1)
    BY <1>5, <1>7, Zenon
  <2>2. a \div 2^p \in Nat /\ M < ((a \div 2^p) + 1) * H
    <3>1. IsPart(a, sig, h, D, K, u)
      BY <1>2, <1>4, Zenon DEF IsPart
    <3>2. QED
      BY <1>3, <1>6, <1>7, <3>1, PartBelow
  <2>3. QED
    BY <2>1, <2>2 DEF IsStepOf
<1>19. RootedFrom(f, u, k, K, H, W, sigA, N, r, sq, J, M, L, a \div 2^p)
  BY <1>1, <1>2, <1>6, <1>7, <1>8, <1>9, <1>10, <1>11, <1>12, <1>13, <1>14, <1>15, <1>16, <1>17, <1>18, Zenon DEF RootedFrom
<1>20. QED
  BY <1>19, RootF64Stands

\* Any number that stands for the root of a finite operand's significand rounds as its root.
LEMMA StandingRounds ==
  ASSUME NEW f, IsFormat(f), NEW mode, IsMode(0, mode), NEW h \in Nat \ {0}, NEW u \in Nat \ {0}, NEW b \in Nat, Sizes(f, h, u, b),
         NEW a, NEW e \in Int, NEW sig \in h..((2 * h) - 1), IsOperand(f, a, h, e, sig),
         NEW g \in Nat \ {0}, g = 2 * u, NEW W \in Nat, W = 4 * (h * g),
         NEW v \in Nat, IsParity(e % 2, u, v), NEW N \in Nat, N = (sig * v) * W,
         NEW s \in Nat, RootStands(s, N, u)
  PROVE  softfloat_roundPackToF32(f, 0, RootExp(f, e), s, mode) =
           RootFrom(f, (4 * Mag(f, a)) * Unity(f), mode,
                    CHOOSE m \in 0..(Inf(f, 0) - 1) : IsRootLower(f, (4 * Mag(f, a)) * Unity(f), m))
<1>1. PICK mA \in Nat : mA = Mag(f, a) /\ Scales(mA, sig, e - 1)
  BY DEF IsOperand
<1>2. PICK p : p = e % 2 /\ IsParity(p, u, v)
  OBVIOUS
<1>3. PICK B \in Nat \ {0} : Unity(f) = h * B
  BY UnityIs
<1>4. PICK m \in Nat : m = mA * Unity(f) /\ (4 * mA) * Unity(f) = 4 * m
  <2>1. PICK U \in Nat : U = Unity(f)
    BY <1>3
  <2>2. mA * U \in Nat /\ (4 * mA) * U = 4 * (mA * U)
    OBVIOUS
  <2>3. QED
    BY <2>1, <2>2
<1>5. RootInUnits(f, m, N, RootExp(f, e)) /\ RootExp(f, e) \in Int
  <2>1. sig \in Nat
    OBVIOUS
  <2>2. g \in Nat /\ p = e % 2
    BY <1>2
  <2>3. QED
    BY <1>1, <1>2, <1>4, <2>1, <2>2, RootUnits
<1>6. IsLeading(f, s)
  <2>1. g \in Nat
    OBVIOUS
  <2>2. QED
    BY <1>2, <2>1, RootLeads
<1>7. softfloat_roundPackToF32(f, 0, RootExp(f, e), s, mode)
        = RootFrom(f, 4 * m, mode, CHOOSE i \in 0..(Inf(f, 0) - 1) : IsRootLower(f, 4 * m, i))
  BY <1>5, <1>6, RootRounds
<1>8. QED
  BY <1>1, <1>4, <1>7, Zenon

\* What f32_sqrt makes of a's significand, from an estimate ...
WordRoot(f, a, est) ==
  RootF32(f, (Normal(f, a).sig * 2^(f.G + 1)) \div 2^(Normal(f, a).exp % 2), est)
\* ... and what f64_sqrt makes of it.
DoubleRoot(f, a, est) ==
  RootF64(f, Normal(f, a).sig * 2^(f.G - 1 - (Normal(f, a).exp % 2)), est)
\* Rounded from s, the root of a is the promised one.
RootsBy(f, a, mode, s) ==
  softfloat_roundPackToF32(f, 0, RootExp(f, Normal(f, a).exp), s, mode) =
    RootFrom(f, (4 * Mag(f, a)) * Unity(f), mode,
             CHOOSE m \in 0..(Inf(f, 0) - 1) : IsRootLower(f, (4 * Mag(f, a)) * Unity(f), m))

\* The root of a finite operand that is not zero is rounded once, whatever the estimate.
LEMMA FiniteRoots ==
  ASSUME NEW f, IsFormat(f), NEW mode, IsMode(0, mode), NEW a \in Patterns(f), ~isZero(f, a)
  PROVE  /\ \A est \in f32_sqrtEstimates(f, a) : RootsBy(f, a, mode, WordRoot(f, a, est))
         /\ IsEven(f) /\ f.F >= f.G => \A est \in f64_sqrtEstimates(f, a) : RootsBy(f, a, mode, DoubleRoot(f, a, est))
<1>1. PICK h \in Nat \ {0}, u \in Nat \ {0}, b \in Nat : Sizes(f, h, u, b)
  <2>1. PICK h \in Nat, u \in Nat, b \in Nat : Sizes(f, h, u, b)
    BY FormatSizes
  <2>2. h # 0 /\ u # 0
    BY <2>1 DEF Sizes
  <2>3. QED
    BY <2>1, <2>2
<1>2. PICK e \in Int, sig \in h..((2 * h) - 1) : IsOperand(f, a, h, e, sig)
  BY <1>1, NormalIs
<1>3. Normal(f, a).exp = e /\ Normal(f, a).sig = sig
  BY <1>2 DEF IsOperand
<1>4. PICK v \in Nat \ {0} : /\ IsParity(e % 2, u, v) /\ 2^(f.G - 1 - (e % 2)) = v
                             /\ (sig * 2^(f.G + 1)) \div 2^(e % 2) = 4 * (sig * v)
  <2>1. u = 2^(f.G - 1) /\ sig \in Nat
    BY <1>1 DEF Sizes
  <2>2. QED
    BY <2>1, ParityShifts
<1>5. PICK g \in Nat \ {0}, W \in Nat, N \in Nat : g = 2 * u /\ W = 4 * (h * g) /\ N = (sig * v) * W
  <2>1. PICK g \in Nat \ {0} : g = 2 * u
    OBVIOUS
  <2>2. PICK W \in Nat : W = 4 * (h * g)
    OBVIOUS
  <2>3. (sig * v) * W \in Nat
    OBVIOUS
  <2>4. QED
    BY <2>1, <2>2, <2>3
<1>6. ASSUME NEW s \in Nat, RootStands(s, N, u)
      PROVE  RootsBy(f, a, mode, s)
  <2>1. softfloat_roundPackToF32(f, 0, RootExp(f, e), s, mode) =
          RootFrom(f, (4 * Mag(f, a)) * Unity(f), mode,
                   CHOOSE m \in 0..(Inf(f, 0) - 1) : IsRootLower(f, (4 * Mag(f, a)) * Unity(f), m))
    BY <1>1, <1>2, <1>4, <1>5, <1>6, StandingRounds
  <2>2. QED
    BY <1>3, <2>1, Zenon DEF RootsBy
<1>7. ASSUME NEW est \in f32_sqrtEstimates(f, a)
      PROVE  RootsBy(f, a, mode, WordRoot(f, a, est))
  <2>1. est \in softfloat_estimateSqrt32(word(f), e, sig * 2^(f.G + 1))
    BY <1>3, Zenon DEF f32_sqrtEstimates
  <2>2. PICK sigA \in Nat : sigA = 4 * (sig * v) /\ sigA = (sig * 2^(f.G + 1)) \div 2^(e % 2)
    <3>1. 4 * (sig * v) \in Nat
      OBVIOUS
    <3>2. QED
      BY <1>4, <3>1
  <2>3. RootF32(f, sigA, est) \in Nat /\ RootStands(RootF32(f, sigA, est), N, u)
    BY <1>1, <1>4, <1>5, <2>1, <2>2, WordRootStands
  <2>4. WordRoot(f, a, est) = RootF32(f, sigA, est)
    BY <1>3, <2>2, Zenon DEF WordRoot
  <2>5. QED
    BY <1>6, <2>3, <2>4, Zenon
<1>8. ASSUME IsEven(f), f.F >= f.G, NEW est \in f64_sqrtEstimates(f, a)
      PROVE  RootsBy(f, a, mode, DoubleRoot(f, a, est))
  <2>1. est \in softfloat_estimateSqrt32(word(f) \div 2, e, sig \div 2^(f.F + 1 - (word(f) \div 2)))
    BY <1>3, Zenon DEF f64_sqrtEstimates
  <2>2. PICK sigA \in Nat : sigA = sig * v
    OBVIOUS
  <2>3. RootF64(f, sigA, est) \in Nat /\ RootStands(RootF64(f, sigA, est), N, u)
    BY <1>1, <1>4, <1>5, <1>8, <2>1, <2>2, DoubleRootStands
  <2>4. DoubleRoot(f, a, est) = RootF64(f, sigA, est)
    BY <1>3, <1>4, <2>2, Zenon DEF DoubleRoot
  <2>5. QED
    BY <1>6, <2>3, <2>4, Zenon
<1>9. QED
  BY <1>7, <1>8

\* The operands that have a root to take are those that have an estimate.
LEMMA RootKinds ==
  ASSUME NEW f, FormatLaws(f), NEW a \in Patterns(f)
  PROVE  /\ signUI(f, a) \in 0..1
         /\ a = Inf(f, 0) => ~isNaNUI(f, a) /\ signUI(f, a) # 1
         /\ ~isNaNUI(f, a) /\ ~isZero(f, a) /\ a # Inf(f, 0) /\ signUI(f, a) # 1 => a \in 1..(Inf(f, 0) - 1)
<1>1. PICK H \in Nat \ {0, 1}, P \in Nat \ (0..2), S \in Nat : H = hidden(f) /\ P = 2^f.E /\ S = signBit(f) /\ S = P * H
  BY DEF FormatLaws
<1>2. PICK s \in 0..1, e \in 0..(P - 1), x \in 0..(H - 1), m \in 0..(S - 1) :
        /\ signUI(f, a) = s /\ expUI(f, a) = e /\ fracUI(f, a) = x /\ a % S = m
        /\ m = (H * e) + x /\ a = (S * s) + m
  <2>1. H = hidden(f) /\ P = 2^f.E /\ S = signBit(f)
    BY <1>1
  <2>2. \E s \in 0..1, e \in 0..(2^f.E - 1), x \in 0..(hidden(f) - 1), m \in 0..(signBit(f) - 1) :
           /\ signUI(f, a) = s /\ expUI(f, a) = e /\ fracUI(f, a) = x /\ a % signBit(f) = m
           /\ m = (hidden(f) * e) + x /\ a = (signBit(f) * s) + m
    BY Fields
  <2>3. QED
    BY <2>1, <2>2, Zenon
<1>3. PICK inf \in Nat : inf = Inf(f, 0) /\ inf = H * (P - 1) /\ S = inf + H
  <2>1. Inf(f, 0) = ((0 * S) + ((P - 1) * H)) + 0
    BY <1>1 DEF Inf, packToUI, expMax
  <2>2. PICK inf \in Nat : inf = H * (P - 1)
    OBVIOUS
  <2>3. P * H = inf + H /\ ((0 * S) + ((P - 1) * H)) + 0 = inf
    BY <2>2
  <2>4. QED
    BY <1>1, <2>1, <2>2, <2>3
<1>4. s = 0 => a = m
  <2>1. S * 0 = 0
    OBVIOUS
  <2>2. QED
    BY <1>2, <2>1
<1>5. s = 1 => a # inf
  <2>1. S * 1 = S
    OBVIOUS
  <2>2. s = 1 => a = S + m
    BY <1>2, <2>1
  <2>3. QED
    BY <1>3, <2>2
<1>6. (e = P - 1 => m = inf + x) /\ (e + 1 <= P - 1 => m < inf)
  <2>1. e + 1 <= P - 1 => H * (e + 1) <= H * (P - 1)
    BY ProductMonotonic
  <2>2. PICK y \in Nat : y = H * e
    OBVIOUS
  <2>3. H * (e + 1) = y + H
    BY <2>2
  <2>4. e = P - 1 => y = inf
    BY <1>3, <2>2
  <2>5. m = y + x
    BY <1>2, <2>2
  <2>6. QED
    BY <1>3, <2>1, <2>3, <2>4, <2>5
<1>7. isNaNUI(f, a) <=> e = P - 1 /\ x # 0
  BY <1>1, <1>2 DEF isNaNUI, expMax
<1>8. isZero(f, a) <=> m = 0
  BY <1>1, <1>2 DEF isZero
<1>9. a = inf => ~isNaNUI(f, a) /\ s # 1
  BY <1>4, <1>5, <1>6, <1>7
<1>10. ~isNaNUI(f, a) /\ ~isZero(f, a) /\ a # inf /\ s # 1 => a \in 1..(inf - 1)
  <2>1. SUFFICES ASSUME ~isNaNUI(f, a), ~isZero(f, a), a # inf, s # 1 PROVE a \in 1..(inf - 1)
    OBVIOUS
  <2>2. a = m /\ m # 0
    BY <1>4, <1>8, <2>1
  <2>3. e = P - 1 \/ e + 1 <= P - 1
    OBVIOUS
  <2>4. m < inf
    BY <1>6, <1>7, <2>1, <2>2, <2>3
  <2>5. QED
    BY <2>2, <2>4
<1>11. QED
  BY <1>2, <1>3, <1>9, <1>10

\* Which operands a root is settled for without taking it, and what it is for the rest.
LEMMA RootArms ==
  ASSUME NEW f, NEW a, Kinds(f, a), a = Inf(f, 0) => ~isNaNUI(f, a) /\ signUI(f, a) # 1, NEW s, NEW mode
  PROVE  SquareRoot(f, a, s, mode) =
           IF isNaNUI(f, a) THEN softfloat_propagateNaNF32UI(f, a, 0)
           ELSE IF isZero(f, a) \/ a = Inf(f, 0) THEN Ret(a, {})
           ELSE IF signUI(f, a) = 1 THEN Invalid(f)
           ELSE softfloat_roundPackToF32(f, 0, RootExp(f, Normal(f, a).exp), s, mode)
<1> DEFINE nan  == isNaNUI(f, a)
           same == isZero(f, a) \/ a = Inf(f, 0)
           bad  == signUI(f, a) = 1 /\ ~isZero(f, a) /\ ~isNaNUI(f, a)
           exp  == RootExp(f, Normal(f, a).exp)
<1>1. SquareRoot(f, a, s, mode) =
        CASE nan -> softfloat_propagateNaNF32UI(f, a, 0)
          [] same -> Ret(a, {})
          [] bad -> Invalid(f)
          [] OTHER -> softfloat_roundPackToF32(f, 0, exp, s, mode)
  BY Zenon DEF SquareRoot, RootExp
<1>2. /\ ~(nan /\ same) /\ ~(nan /\ bad) /\ ~(same /\ bad)
      /\ ~nan /\ ~same => (bad <=> signUI(f, a) = 1)
  BY DEF Kinds
<1> HIDE DEF same, bad, exp
<1>3. QED
  BY <1>1, <1>2 DEF same, exp

\* Zero is no signaling NaN.
LEMMA RootNaN ==
  ASSUME NEW f, FormatLaws(f), NEW a
  PROVE  softfloat_propagateNaNF32UI(f, a, 0) = NaNs(f, {a})
<1>1. ~f32_isSignalingNaN(f, 0)
  <2>1. PICK H \in Nat \ {0, 1} : H = hidden(f)
    BY DEF FormatLaws
  <2>2. 0 % H = 0
    OBVIOUS
  <2>3. fracUI(f, 0) = 0
    BY <2>1, <2>2 DEF fracUI
  <2>4. QED
    BY <2>3 DEF f32_isSignalingNaN, softfloat_isSigNaNF32UI
<1>2. softfloat_propagateNaNF32UI(f, a, 0) = NaNs(f, {a, 0})
  BY NaNReturned
<1>3. (\E x \in {a, 0} : f32_isSignalingNaN(f, x)) <=> (\E x \in {a} : f32_isSignalingNaN(f, x))
  BY <1>1
<1>4. NaNs(f, {a, 0}) = NaNs(f, {a})
  BY <1>3, Zenon DEF NaNs
<1>5. QED
  BY <1>2, <1>4

\* Both square roots return what is promised, for all operands and from every estimate.
THEOREM RootsRound ==
  ASSUME NEW f, IsFormat(f), NEW mode \in RoundingModes, NEW a \in Patterns(f)
  PROVE  /\ \A est \in Estimates(f, a, f32_sqrtEstimates(f, a)) : f32_sqrt(f, a, est, mode) = SqrtSpec(f, a, mode)
         /\ IsEven(f) /\ f.F >= f.G =>
              \A est \in Estimates(f, a, f64_sqrtEstimates(f, a)) : f64_sqrt(f, a, est, mode) = SqrtSpec(f, a, mode)
<1> FormatLaws(f)
  BY FormatLaw
<1>1. Kinds(f, a)
  BY PatternKinds
<1>2. a = Inf(f, 0) => ~isNaNUI(f, a) /\ signUI(f, a) # 1
  BY RootKinds
<1>3. \A s : SquareRoot(f, a, s, mode) =
        IF isNaNUI(f, a) THEN softfloat_propagateNaNF32UI(f, a, 0)
        ELSE IF isZero(f, a) \/ a = Inf(f, 0) THEN Ret(a, {})
        ELSE IF signUI(f, a) = 1 THEN Invalid(f)
        ELSE softfloat_roundPackToF32(f, 0, RootExp(f, Normal(f, a).exp), s, mode)
  BY <1>1, <1>2, RootArms
<1>4. softfloat_propagateNaNF32UI(f, a, 0) = NaNs(f, {a})
  BY RootNaN
<1>5. ASSUME NEW s, ~isNaNUI(f, a) /\ ~isZero(f, a) /\ a # Inf(f, 0) /\ signUI(f, a) # 1 => RootsBy(f, a, mode, s)
      PROVE  SquareRoot(f, a, s, mode) = SqrtSpec(f, a, mode)
  <2>1. CASE isNaNUI(f, a)
    BY <1>3, <1>4, <2>1, Zenon DEF SqrtSpec
  <2>2. CASE ~isNaNUI(f, a) /\ (isZero(f, a) \/ a = Inf(f, 0))
    BY <1>3, <2>2, Zenon DEF SqrtSpec
  <2>3. CASE ~isNaNUI(f, a) /\ ~isZero(f, a) /\ a # Inf(f, 0) /\ signUI(f, a) = 1
    BY <1>3, <2>3, Zenon DEF SqrtSpec
  <2>4. CASE ~isNaNUI(f, a) /\ ~isZero(f, a) /\ a # Inf(f, 0) /\ signUI(f, a) # 1
    <3>1. SqrtSpec(f, a, mode) =
            RootFrom(f, (4 * Mag(f, a)) * Unity(f), mode,
                     CHOOSE m \in 0..(Inf(f, 0) - 1) : IsRootLower(f, (4 * Mag(f, a)) * Unity(f), m))
      BY <2>4, RootPromised
    <3>2. RootsBy(f, a, mode, s)
      BY <1>5, <2>4
    <3>3. SquareRoot(f, a, s, mode) = softfloat_roundPackToF32(f, 0, RootExp(f, Normal(f, a).exp), s, mode)
      BY <1>3, <2>4, Zenon
    <3>4. QED
      BY <3>1, <3>2, <3>3, Zenon DEF RootsBy
  <2>5. QED
    BY <2>1, <2>2, <2>3, <2>4, Zenon
<1>6. IsMode(0, mode)
  BY DEF IsMode
<1>7. ASSUME NEW est, ~isNaNUI(f, a) /\ ~isZero(f, a) /\ a # Inf(f, 0) /\ signUI(f, a) # 1 => est \in f32_sqrtEstimates(f, a)
      PROVE  f32_sqrt(f, a, est, mode) = SqrtSpec(f, a, mode)
  <2>1. f32_sqrt(f, a, est, mode) = SquareRoot(f, a, WordRoot(f, a, est), mode)
    BY Zenon DEF f32_sqrt, WordRoot, RootF32
  <2>2. ~isZero(f, a) => \A r \in f32_sqrtEstimates(f, a) : RootsBy(f, a, mode, WordRoot(f, a, r))
    BY <1>6, FiniteRoots
  <2>3. QED
    BY <1>5, <1>7, <2>1, <2>2, Zenon
<1>8. ASSUME IsEven(f), f.F >= f.G, NEW est,
             ~isNaNUI(f, a) /\ ~isZero(f, a) /\ a # Inf(f, 0) /\ signUI(f, a) # 1 => est \in f64_sqrtEstimates(f, a)
      PROVE  f64_sqrt(f, a, est, mode) = SqrtSpec(f, a, mode)
  <2>1. f64_sqrt(f, a, est, mode) = SquareRoot(f, a, DoubleRoot(f, a, est), mode)
    BY Zenon DEF f64_sqrt, DoubleRoot
  <2>2. ~isZero(f, a) => \A r \in f64_sqrtEstimates(f, a) : RootsBy(f, a, mode, DoubleRoot(f, a, r))
    BY <1>6, <1>8, FiniteRoots
  <2>3. QED
    BY <1>5, <1>8, <2>1, <2>2, Zenon
<1>9. ~isNaNUI(f, a) /\ ~isZero(f, a) /\ a # Inf(f, 0) /\ signUI(f, a) # 1 => a \in 1..(Inf(f, 0) - 1)
  BY RootKinds
<1>10. \A S : ~isNaNUI(f, a) /\ ~isZero(f, a) /\ a # Inf(f, 0) /\ signUI(f, a) # 1 => Estimates(f, a, S) = S
  BY <1>9, Zenon DEF Estimates
<1>11. QED
  BY <1>7, <1>8, <1>10, Zenon

-----------------------------------------------------------------------------
(* Jamming, once and again.                                                *)

\* A jammed quotient, from the quotient and the rest.
LEMMA JamIs ==
  ASSUME NEW d \in Nat \ {0}, NEW q \in Nat, NEW x \in Nat, Times(d, q, x), NEW r \in 0..(d - 1), NEW n, n = x + r
  PROVE  JamOf(n, d) = Jammed(q, r # 0)
<1>1. n \div d = q /\ n % d = r
  BY RestOf
<1>2. QED
  BY <1>1, Zenon DEF JamOf

\* A jammed quotient is a natural number.
LEMMA JammedNat ==
  ASSUME NEW q \in Nat, NEW c
  PROVE  Jammed(q, c) \in Nat
BY DEF Jammed

\* Jamming twice is jamming once, if the second shift drops at least the bit that the first one set.
LEMMA JamJam ==
  ASSUME NEW n \in Nat, NEW d \in Nat \ {0}, NEW c \in Nat \ {0}, c % 2 = 0
  PROVE  JamOf(JamOf(n, d), c) = JamOf(n, d * c)
<1>1. PICK q \in Nat, r \in 0..(d - 1) : n = (d * q) + r /\ q = n \div d /\ r = n % d
  BY DivNat
<1>2. PICK p \in Nat, t \in 0..(c - 1) : q = (c * p) + t /\ p = q \div c /\ t = q % c
  BY DivNat
<1>3. PICK m \in Nat : c = 2 * m
  BY DivNat
<1>4. PICK x \in Nat : Times(c, p, x) /\ q = x + t
  BY <1>2 DEF Times
<1>5. PICK z \in Nat, D \in Nat \ {0}, y \in Nat : D = d * c /\ Times(D, p, z) /\ Times(d, t, y)
  <2>1. d * c \in Nat \ {0} /\ (d * c) * p \in Nat /\ d * t \in Nat
    OBVIOUS
  <2>2. QED
    BY <2>1 DEF Times
<1>6. y + r \in 0..(D - 1) /\ (y + r = 0 <=> t = 0 /\ r = 0)
  <2>1. d * t <= d * (c - 1) /\ (t # 0 => d * 1 <= d * t)
    BY ProductMonotonic
  <2>2. d * (c - 1) = D - d /\ d * 1 = d
    BY <1>5
  <2>3. t = 0 => y = 0
    BY <1>5 DEF Times
  <2>4. QED
    BY <1>5, <2>1, <2>2, <2>3 DEF Times
<1>7. n = z + (y + r)
  <2>1. d * ((c * p) + t) = ((d * c) * p) + (d * t)
    OBVIOUS
  <2>2. n = (d * ((c * p) + t)) + r
    BY <1>1, <1>2
  <2>3. n = (z + y) + r
    BY <1>5, <2>1, <2>2 DEF Times
  <2>4. QED
    BY <2>3
<1>8. JamOf(n, D) = Jammed(p, ~(t = 0 /\ r = 0))
  <2>1. PICK k \in 0..(D - 1) : k = y + r /\ n = z + k /\ (k # 0 <=> ~(t = 0 /\ r = 0))
    BY <1>6, <1>7
  <2>2. D \in Nat \ {0} /\ Times(D, p, z)
    BY <1>5
  <2>3. (z + k) \div D = p /\ (z + k) % D = k
    BY <2>2, RestOf
  <2>4. JamOf(n, D) = Jammed(p, k # 0)
    BY <2>1, <2>3, Zenon DEF JamOf
  <2>5. (k # 0) = (~(t = 0 /\ r = 0))
    BY <2>1
  <2>6. QED
    BY <2>4, <2>5, Zenon
<1>9. PICK j \in Nat : j = JamOf(n, d) /\ j = Jammed(q, r # 0)
  <2>1. JamOf(n, d) = Jammed(q, r # 0)
    BY <1>1 DEF JamOf
  <2>2. QED
    BY <2>1, JammedNat
<1>10. PICK s \in 0..(c - 1) : j = x + s /\ (s = 0 <=> t = 0 /\ r = 0)
  <2>1. x % 2 = 0
    <3>1. PICK k \in Nat : k = m * p
      OBVIOUS
    <3>2. x = 2 * k
      <4>1. (2 * m) * p = 2 * (m * p)
        OBVIOUS
      <4>2. QED
        BY <1>3, <1>4, <3>1, <4>1 DEF Times
    <3>3. QED
      BY <3>2
  <2>2. CASE r # 0 /\ t % 2 = 0
    <3>1. q % 2 = 0
      BY <1>4, <2>1, <2>2
    <3>2. j = x + (t + 1)
      BY <1>4, <1>9, <2>2, <3>1 DEF Jammed
    <3>3. t + 1 \in 0..(c - 1)
      <4>1. t < (2 * m) - 1
        BY <1>3, <2>2
      <4>2. QED
        BY <1>3, <4>1
    <3>4. QED
      BY <2>2, <3>2, <3>3
  <2>3. CASE ~(r # 0 /\ t % 2 = 0)
    <3>1. q % 2 = t % 2
      BY <1>4, <2>1
    <3>2. j = x + t
      BY <1>4, <1>9, <2>3, <3>1 DEF Jammed
    <3>3. r # 0 => t # 0
      BY <2>3
    <3>4. QED
      BY <3>2, <3>3
  <2>4. QED
    BY <2>2, <2>3
<1>11. JamOf(j, c) = Jammed(p, s # 0)
  BY <1>4, <1>10, JamIs
<1>12. QED
  BY <1>5, <1>8, <1>9, <1>10, <1>11

\* The value v of an upper and a lower word.
InWords(hi, W, lo, v) == lo \in 0..(W - 1) /\ v = (hi * W) + lo

\* ... and so is jamming a lower word into a jammed upper one.
LEMMA JamWords ==
  ASSUME NEW m \in Nat, NEW d \in Nat \ {0}, NEW W \in Nat \ {0}, NEW r, NEW v, InWords(m, W, r, v), NEW e, Times(W, d, e)
  PROVE  Jammed(JamOf(m, d), r # 0) = JamOf(v, e)
<1>1. r \in 0..(W - 1) /\ v = (m * W) + r /\ e = W * d
  BY DEF InWords, Times
<1>2. PICK y \in Nat : y = m * W /\ v = y + r
  BY <1>1
<1>3. PICK q \in Nat, t \in 0..(d - 1) : m = (d * q) + t /\ q = m \div d /\ t = m % d
  BY DivNat
<1>4. PICK D \in Nat \ {0}, z \in Nat, k \in Nat : D = W * d /\ Times(D, q, z) /\ Times(W, t, k)
  <2>1. W * d \in Nat \ {0} /\ (W * d) * q \in Nat /\ W * t \in Nat
    OBVIOUS
  <2>2. QED
    BY <2>1 DEF Times
<1>5. k + r \in 0..(D - 1) /\ (k + r = 0 <=> t = 0 /\ r = 0)
  <2>1. W * t <= W * (d - 1) /\ (t # 0 => W * 1 <= W * t)
    BY ProductMonotonic
  <2>2. W * (d - 1) = D - W /\ W * 1 = W
    BY <1>4
  <2>3. t = 0 => k = 0
    BY <1>4 DEF Times
  <2>4. QED
    BY <1>4, <1>1, <2>1, <2>2, <2>3 DEF Times
<1>6. y + r = z + (k + r)
  <2>1. ((d * q) + t) * W = ((W * d) * q) + (W * t)
    OBVIOUS
  <2>2. y = z + k
    BY <1>3, <1>4, <1>2, <2>1 DEF Times
  <2>3. QED
    BY <1>1, <2>2
<1>7. JamOf(y + r, D) = Jammed(q, k + r # 0)
  <2>1. PICK n \in Nat, l \in 0..(D - 1) : n = y + r /\ l = k + r /\ n = z + l
    BY <1>5, <1>6, <1>1
  <2>2. (z + l) \div D = q /\ (z + l) % D = l
    <3>1. Times(D, q, z)
      BY <1>4
    <3>2. QED
      BY <3>1, RestOf
  <2>3. QED
    BY <2>1, <2>2, Zenon DEF JamOf
<1>8. JamOf(m, d) = Jammed(q, t # 0)
  BY <1>3 DEF JamOf
<1>9. Jammed(Jammed(q, t # 0), r # 0) = Jammed(q, ~(t = 0 /\ r = 0))
  BY DEF Jammed
<1>10. QED
  BY <1>4, <1>5, <1>7, <1>8, <1>9, <1>1, <1>2, Zenon

\* Jamming does not depend on the unit that dividend and divisor are counted in.
LEMMA JamScaled ==
  ASSUME NEW n \in Nat, NEW d \in Nat \ {0}, NEW k \in Nat \ {0}
  PROVE  JamOf(n * k, d * k) = JamOf(n, d)
<1>1. PICK q \in Nat, t \in 0..(d - 1) : n = (d * q) + t /\ q = n \div d /\ t = n % d
  BY DivNat
<1>2. PICK D \in Nat \ {0}, z \in Nat, r \in Nat : D = d * k /\ Times(D, q, z) /\ Times(k, t, r)
  <2>1. d * k \in Nat \ {0} /\ (d * k) * q \in Nat /\ k * t \in Nat
    OBVIOUS
  <2>2. QED
    BY <2>1 DEF Times
<1>3. r \in 0..(D - 1) /\ (r = 0 <=> t = 0)
  <2>1. k * t <= k * (d - 1) /\ (t # 0 => k * 1 <= k * t)
    BY ProductMonotonic
  <2>2. k * (d - 1) = D - k /\ k * 1 = k
    BY <1>2
  <2>3. t = 0 => r = 0
    BY <1>2 DEF Times
  <2>4. QED
    BY <1>2, <2>1, <2>2, <2>3 DEF Times
<1>4. n * k = z + r
  <2>1. ((d * q) + t) * k = ((d * k) * q) + (k * t)
    OBVIOUS
  <2>2. QED
    BY <1>1, <1>2, <2>1 DEF Times
<1>5. JamOf(n * k, D) = Jammed(q, r # 0)
  BY <1>2, <1>3, <1>4, JamIs
<1>6. QED
  BY <1>1, <1>2, <1>3, <1>5, Zenon DEF JamOf

-----------------------------------------------------------------------------
(* Results in units and in two words.                                      *)

\* The same result counted in smaller units ...
LEMMA InShifted ==
  ASSUME NEW f, IsFormat(f), NEW x \in Nat, NEW U \in Nat, NEW n \in Nat, NEW d \in Nat, NEW k \in Int,
         InUnits(f, x, U, n, d, k), NEW j \in Nat
  PROVE  InUnits(f, x, U, n * 2^j, d, k - j)
<1>1. 2^f.G \in Nat \ {0}
  BY PowerPositive DEF IsFormat
<1>2. PICK i \in Nat, l \in Nat : i - l = k /\ (x * (d * 2^f.G)) * 2^l = (n * U) * 2^i
  BY DEF InUnits, Scales
<1>3. PICK L \in Nat, J \in Nat : L = 2^l /\ J = 2^j /\ 2^(l + j) = L * J
  BY PowerSum
<1>4. PICK I \in Nat : I = 2^i
  BY PowerSum
<1>5. PICK a \in Nat : a = x * (d * 2^f.G)
  BY <1>1
<1>6. a * (L * J) = ((n * J) * U) * I
  <2>1. a * L = (n * U) * I
    BY <1>2, <1>3, <1>4, <1>5
  <2>2. a * (L * J) = (a * L) * J
    OBVIOUS
  <2>3. ((n * U) * I) * J = ((n * J) * U) * I
    OBVIOUS
  <2>4. QED
    BY <2>1, <2>2, <2>3, Zenon
<1>7. (x * (d * 2^f.G)) * 2^(l + j) = ((n * 2^j) * U) * 2^i
  BY <1>3, <1>4, <1>5, <1>6, Zenon
<1>8. i - (l + j) = k - j /\ l + j \in Nat
  BY <1>2
<1>9. QED
  BY <1>7, <1>8 DEF InUnits, Scales

\* ... by another divisor ...
LEMMA InRescaled ==
  ASSUME NEW f, IsFormat(f), NEW x \in Nat, NEW U \in Nat, NEW n \in Nat, NEW d \in Nat \ {0}, NEW k \in Int,
         InUnits(f, x, U, n, d, k), NEW e \in Nat, NEW j \in Int, Scales(e, d, j)
  PROVE  InUnits(f, x, U, n, e, k + j)
<1>1. 2^f.G \in Nat \ {0}
  BY PowerPositive DEF IsFormat
<1>2. PICK g \in Nat : g = 2^f.G
  BY <1>1
<1>3. PICK a \in Nat, b \in Nat : a = x * (d * g) /\ b = n * U
  OBVIOUS
<1>4. Scales(a, b, k)
  BY <1>2, <1>3 DEF InUnits
<1>5. Scales(a * e, b * d, k + j)
  BY <1>4, ScalesProduct
<1>6. PICK c \in Nat : c = x * (e * g)
  OBVIOUS
<1>7. a * e = c * d
  <2>1. (x * (d * g)) * e = (x * (e * g)) * d
    OBVIOUS
  <2>2. QED
    BY <1>3, <1>6, <2>1
<1>8. Scales(c, b, k + j)
  <2>1. k + j \in Int /\ Scales(c * d, b * d, k + j)
    BY <1>5, <1>7
  <2>2. QED
    BY <2>1, ScalesCancel
<1>9. QED
  BY <1>2, <1>3, <1>6, <1>8 DEF InUnits

\* ... and by one, when the divisor divides.
LEMMA InExact ==
  ASSUME NEW f, IsFormat(f), NEW x \in Nat, NEW U \in Nat, NEW n \in Nat, NEW d \in Nat \ {0}, NEW k \in Int,
         InUnits(f, x, U, n, d, k), NEW q \in Nat, n = d * q
  PROVE  InUnits(f, x, U, q, 1, k)
<1>1. 2^f.G \in Nat \ {0}
  BY PowerPositive DEF IsFormat
<1>2. PICK g \in Nat : g = 2^f.G
  BY <1>1
<1>3. PICK a \in Nat, b \in Nat : a = x * g /\ b = q * U
  OBVIOUS
<1>4. x * (d * g) = a * d /\ n * U = b * d /\ x * (1 * g) = a
  <2>1. x * (d * g) = (x * g) * d /\ (d * q) * U = (q * U) * d /\ x * (1 * g) = x * g
    OBVIOUS
  <2>2. QED
    BY <1>3, <2>1
<1>5. Scales(a * d, b * d, k)
  BY <1>2, <1>4, Zenon DEF InUnits
<1>6. Scales(a, b, k)
  BY <1>5, ScalesCancel
<1>7. QED
  BY <1>2, <1>3, <1>4, <1>6, Zenon DEF InUnits

\* Any scale is a ratio of two powers of two ...
LEMMA PowersApartExist ==
  ASSUME NEW k \in Int
  PROVE  \E R \in Nat \ {0}, Q \in Nat \ {0} : PowersApart(k, R, Q)
<1>1. CASE k >= 0
  <2>1. 2^k \in Nat \ {0}
    BY <1>1, PowerPositive
  <2>2. PowersApart(k, 2^k, 1)
    BY <1>1 DEF PowersApart
  <2>3. QED
    BY <2>1, <2>2
<1>2. CASE k < 0
  <2>1. 2^(-k) \in Nat \ {0}
    BY <1>2, PowerPositive
  <2>2. PowersApart(k, 1, 2^(-k))
    BY <1>2 DEF PowersApart
  <2>3. QED
    BY <2>1, <2>2
<1>3. QED
  BY <1>1, <1>2

\* ... and to be apart by it is an equation of two products.
LEMMA ScalesApart ==
  ASSUME NEW k \in Int, NEW R \in Nat \ {0}, NEW Q \in Nat \ {0}, PowersApart(k, R, Q), NEW x \in Nat, NEW y \in Nat
  PROVE  Scales(x, y, k) <=> x * Q = y * R
<1>1. CASE k >= 0
  <2>1. R = 2^k /\ Q = 1 /\ k \in Nat
    BY <1>1 DEF PowersApart
  <2>2. Scales(x, y, k) => x = y * 2^k
    BY <2>1, ScalesUp
  <2>3. x = y * 2^k => Scales(x, y, k)
    <3>1. k - 0 = k /\ 0 \in Nat /\ k \in Nat
      BY <2>1
    <3>2. x * 2^0 = x
      BY PowerZero
    <3>3. QED
      BY <3>1, <3>2 DEF Scales
  <2>4. x * Q = x
    BY <2>1
  <2>5. QED
    BY <2>1, <2>2, <2>3, <2>4, Zenon
<1>2. CASE k < 0
  <2>1. R = 1 /\ Q = 2^(-k) /\ -k \in Nat
    BY <1>2 DEF PowersApart
  <2>2. Scales(x, y, k) => x * 2^(-k) = y
    <3>1. PICK l \in Nat : l = -k /\ k = -l
      BY <2>1
    <3>2. QED
      BY <3>1, ScalesDown
  <2>3. x * 2^(-k) = y => Scales(x, y, k)
    <3>1. 0 - (-k) = k /\ 0 \in Nat /\ -k \in Nat
      BY <2>1
    <3>2. y * 2^0 = y
      BY PowerZero
    <3>3. QED
      BY <3>1, <3>2 DEF Scales
  <2>4. y * R = y
    BY <2>1
  <2>5. QED
    BY <2>1, <2>2, <2>3, <2>4, Zenon
<1>3. QED
  BY <1>1, <1>2

\* Results in the same units: their sum, their order and their difference.
LEMMA InSum ==
  ASSUME NEW f, IsFormat(f), NEW U \in Nat \ {0}, NEW d \in Nat \ {0}, NEW k \in Int,
         NEW x \in Nat, NEW n \in Nat, InUnits(f, x, U, n, d, k), NEW y \in Nat, NEW m \in Nat, InUnits(f, y, U, m, d, k)
  PROVE  /\ InUnits(f, x + y, U, n + m, d, k)
         /\ (x < y <=> n < m) /\ (x = y <=> n = m)
         /\ m <= n => y <= x /\ InUnits(f, x - y, U, n - m, d, k)
<1>1. 2^f.G \in Nat \ {0}
  BY PowerPositive DEF IsFormat
<1>2. PICK R \in Nat \ {0}, Q \in Nat \ {0} : PowersApart(k, R, Q)
  BY PowersApartExist
<1>3. PICK c \in Nat \ {0} : c = d * 2^f.G
  BY <1>1
<1>4. PICK C \in Nat \ {0}, V \in Nat \ {0} : C = c * Q /\ V = U * R
  <2>1. c * Q \in Nat \ {0} /\ U * R \in Nat \ {0}
    OBVIOUS
  <2>2. QED
    BY <2>1
<1>5. \A i, j \in Nat : InUnits(f, i, U, j, d, k) <=> i * C = j * V
  <2>1. SUFFICES ASSUME NEW i \in Nat, NEW j \in Nat PROVE InUnits(f, i, U, j, d, k) <=> i * C = j * V
    OBVIOUS
  <2>2. PICK a \in Nat, b \in Nat : a = i * c /\ b = j * U
    OBVIOUS
  <2>3. Scales(a, b, k) <=> a * Q = b * R
    BY <1>2, ScalesApart
  <2>4. a * Q = i * C /\ b * R = j * V
    <3>1. (i * c) * Q = i * (c * Q) /\ (j * U) * R = j * (U * R)
      OBVIOUS
    <3>2. QED
      BY <1>4, <2>2, <3>1
  <2>5. QED
    BY <1>3, <2>2, <2>3, <2>4, Zenon DEF InUnits
<1>6. x * C = n * V /\ y * C = m * V
  BY <1>5
<1>7. (x < y <=> n < m) /\ (x = y <=> n = m)
  <2>1. C * x = V * n /\ C * y = V * m
    <3>1. C * x = x * C /\ C * y = y * C /\ V * n = n * V /\ V * m = m * V
      OBVIOUS
    <3>2. QED
      BY <1>6, <3>1, Zenon
  <2>2. QED
    BY <2>1, CrossOrder
<1>8. InUnits(f, x + y, U, n + m, d, k)
  <2>1. (x + y) * C = (n + m) * V
    <3>1. (x + y) * C = (x * C) + (y * C) /\ (n + m) * V = (n * V) + (m * V)
      OBVIOUS
    <3>2. QED
      BY <1>6, <3>1, Zenon
  <2>2. x + y \in Nat /\ n + m \in Nat
    OBVIOUS
  <2>3. QED
    BY <1>5, <2>1, <2>2
<1>9. m <= n => y <= x /\ InUnits(f, x - y, U, n - m, d, k)
  <2>1. SUFFICES ASSUME m <= n PROVE y <= x /\ InUnits(f, x - y, U, n - m, d, k)
    OBVIOUS
  <2>2. y <= x
    BY <1>7, <2>1
  <2>3. (x - y) * C = (n - m) * V
    <3>1. (x - y) * C = (x * C) - (y * C) /\ (n - m) * V = (n * V) - (m * V)
      OBVIOUS
    <3>2. QED
      BY <1>6, <3>1, Zenon
  <2>4. x - y \in Nat /\ n - m \in Nat
    BY <2>1, <2>2
  <2>5. QED
    BY <1>5, <2>2, <2>3, <2>4
<1>10. QED
  BY <1>7, <1>8, <1>9

\* The powers of two of a word: of its two last bits but the sign, and of the word.
IsWordOf(f, y, W) ==
  /\ 2^(f.F + f.G - 1) = y /\ 2^(f.F + f.G) = 2 * y /\ top(f) = 4 * y
  /\ 2^word(f) = W /\ W = 8 * y /\ 2^(word(f) - 1) = 4 * y /\ 2^(2 * word(f)) = W * W /\ 2^((2 * word(f)) - 1) = W * (4 * y)
  /\ y % 4 = 0 /\ word(f) \in Nat /\ word(f) >= 6
  /\ 2^(f.G - 1) % 2 = 0 /\ 2^(f.G - 1) \in Nat \ {0} /\ 2^f.G \in Nat \ {0} /\ Unity(f) \in Nat \ {0}

\* The powers of two of a format's word exist.
LEMMA WordOf ==
  ASSUME NEW f, IsFormat(f), NEW h \in Nat \ {0}, NEW u \in Nat \ {0}, NEW b \in Nat, Sizes(f, h, u, b)
  PROVE  \E y \in Nat \ {0}, W \in Nat \ {0} : Times(h, u, y) /\ IsWordOf(f, y, W)
<1>1. PICK y \in Nat \ {0} : Times(h, u, y) /\ 2 * (h * (2 * u)) = 4 * y /\ h * (2 * u) = 2 * y /\ 4 * (h * (2 * u)) = 8 * y
  <2>1. h * u \in Nat \ {0} /\ h * (2 * u) = 2 * (h * u)
    OBVIOUS
  <2>2. PICK y \in Nat \ {0} : y = h * u
    BY <2>1
  <2>3. h * (2 * u) = 2 * y
    BY <2>1, <2>2
  <2>4. QED
    BY <2>2, <2>3 DEF Times
<1>2. PICK W \in Nat \ {0} : W = 8 * y
  OBVIOUS
<1>3. y % 4 = 0
  <2>1. u % 4 = 0
    BY DEF Sizes
  <2>2. PICK v \in Nat : u = 4 * v
    BY <2>1, DivNat
  <2>3. PICK z \in Nat : z = h * v
    OBVIOUS
  <2>4. h * (4 * v) = 4 * (h * v)
    OBVIOUS
  <2>5. y = 4 * z
    BY <1>1, <2>2, <2>3, <2>4 DEF Times
  <2>6. QED
    BY <2>5
<1>4. PICK w \in Nat : w = word(f) /\ w >= 6
  BY DEF word, IsFormat
<1>5. 2^w = W
  BY <1>1, <1>2, <1>4 DEF Sizes
<1>6. 2^(w - 1) = 4 * y
  <2>1. PICK l \in Nat : l = w - 1 /\ w = l + 1
    BY <1>4
  <2>2. 2^w = 2 * 2^l /\ 2^l \in Nat
    BY <2>1, PowerNext, PowerPositive
  <2>3. PICK L \in Nat : L = 2^l
    BY <2>2
  <2>4. W = 2 * L
    BY <1>5, <2>2, <2>3
  <2>5. L = 4 * y
    BY <1>2, <2>4
  <2>6. QED
    BY <2>1, <2>3, <2>5
<1>7. 2^(2 * w) = W * W
  <2>1. 2^(w + w) = 2^w * 2^w /\ w + w = 2 * w
    BY PowerSum
  <2>2. QED
    BY <1>5, <2>1, Zenon
<1>8. 2^((2 * w) - 1) = W * (4 * y)
  <2>1. PICK l \in Nat : l = w - 1 /\ (2 * w) - 1 = w + l
    BY <1>4
  <2>2. 2^(w + l) = 2^w * 2^l
    BY PowerSum
  <2>3. QED
    BY <1>5, <1>6, <2>1, <2>2, Zenon
<1>9. 2^(f.G - 1) = u /\ 2^f.G = 2 * u /\ u % 4 = 0
  BY DEF Sizes
<1>10. u % 2 = 0 /\ 2 * u \in Nat \ {0}
  BY <1>9
<1>11. Unity(f) \in Nat \ {0}
  <2>1. PICK B \in Nat \ {0} : Unity(f) = h * B
    BY UnityIs
  <2>2. h * B \in Nat \ {0}
    OBVIOUS
  <2>3. QED
    BY <2>1, <2>2
<1>12. 2^(f.F + f.G - 1) = y /\ 2^(f.F + f.G) = 2 * y /\ top(f) = 4 * y
  <2>1. 2^(f.F + f.G) = h * (2 * u) /\ 2^(f.F + f.G - 1) = h * u /\ top(f) = 2 * (h * (2 * u))
    BY DEF Sizes
  <2>2. h * u = y
    BY <1>1 DEF Times
  <2>3. QED
    BY <1>1, <2>1, <2>2, Zenon
<1>13. IsWordOf(f, y, W)
  BY <1>2, <1>3, <1>4, <1>5, <1>6, <1>7, <1>8, <1>9, <1>10, <1>11, <1>12, Zenon DEF IsWordOf
<1>14. QED
  BY <1>1, <1>13

\* A significand of two words, with its leading bit in the place where the sum needs it.
IsWide2(s, y, W) == s \in Nat /\ s % 2 = 0 /\ y * W <= s /\ s < 2 * (y * W)

\* x units / Unity, as s of two words in the units of the exponent k.
InWide(f, x, s, k) == InUnits(f, x, Unity(f), s, 2^word(f), k)

\* Two words, H, and two words k places below them, L, add up to the sum of what they stand for, and what is
\* jammed of it to a word rounds to that sum rounded once.
LEMMA WideSum ==
  ASSUME NEW f, IsFormat(f), NEW sign, NEW mode, IsMode(sign, mode), NEW y \in Nat \ {0}, NEW W \in Nat \ {0}, IsWordOf(f, y, W),
         NEW e \in Int, NEW k \in Nat, NEW D \in Nat \ {0}, D = 2^k,
         NEW H, IsWide2(H, y, W), NEW L, IsWide2(L, y, W),
         NEW a \in Nat, InWide(f, a, H, e), NEW c \in Nat, InWide(f, c, L, e - k),
         NEW n, n = (H * D) + L
  PROVE  RoundSum(f, sign, e, JamOf(n, W * D), mode) = RoundedRatio(f, sign, a + c, Unity(f), mode)
<1>1. H \in Nat /\ L \in Nat /\ 2^f.G \in Nat \ {0} /\ W = 8 * y /\ 2^word(f) = W
  BY DEF IsWordOf, IsWide2
<1>2. PICK U \in Nat \ {0} : U = Unity(f)
  BY DEF IsWordOf
<1>3. PICK A \in Nat, N \in Nat : A = y * W /\ N = H * D
  BY <1>1
<1>4. n \in Nat /\ n = N + L
  BY <1>1, <1>3
<1>5. PICK E \in Nat \ {0} : E = W * D
  <2>1. W * D \in Nat \ {0}
    OBVIOUS
  <2>2. QED
    BY <2>1
<1>6. PICK l \in Int, m \in Nat : l = e - k /\ l + k = e /\ m = a + c
  OBVIOUS
<1>7. InUnits(f, m, U, n, W, l)
  <2>1. InUnits(f, a, U, N, W, e - k)
    BY <1>1, <1>2, <1>3, InShifted DEF InWide
  <2>2. InUnits(f, c, U, L, W, l)
    BY <1>1, <1>2, <1>6 DEF InWide
  <2>3. InUnits(f, a + c, U, N + L, W, l)
    <3>1. InUnits(f, a, U, N, W, l)
      BY <1>6, <2>1
    <3>2. QED
      BY <1>1, <2>2, <3>1, InSum
  <2>4. QED
    BY <1>4, <1>6, <2>3
<1>8. InUnits(f, m, U, n, E, e)
  <2>1. Scales(E, W, k)
    <3>1. E * 2^0 = W * 2^k
      <4>1. E * 1 = E
        OBVIOUS
      <4>2. QED
        BY <1>5, <4>1, PowerZero, Zenon
    <3>2. k - 0 = k
      OBVIOUS
    <3>3. QED
      BY <3>1, <3>2 DEF Scales
  <2>2. InUnits(f, m, U, n, E, l + k)
    <3>1. E \in Nat /\ k \in Int /\ n \in Nat
      BY <1>4
    <3>2. QED
      BY <1>7, <2>1, <3>1, InRescaled
  <2>3. QED
    BY <1>6, <2>2
<1>9. PICK v \in Nat : IsGuard(f, v) /\ v % 2 = 0
  <2>1. PICK h \in Nat, u \in Nat, b \in Nat : Sizes(f, h, u, b)
    BY FormatSizes
  <2>2. 2^(f.G - 1) = u /\ u % 4 = 0
    BY <2>1 DEF Sizes
  <2>3. PICK z \in Nat : u = 4 * z
    BY <2>2, DivNat
  <2>4. PICK v \in Nat : v = 2 * z
    OBVIOUS
  <2>5. u = 2 * v /\ v % 2 = 0
    BY <2>3, <2>4
  <2>6. QED
    BY <2>2, <2>5 DEF IsGuard
<1>10. PICK s \in Nat : s = JamOf(n, E) /\ Stands(s, n, E, v)
  BY <1>4, <1>9, JamStands
<1>11. IsNear(f, s)
  <2>1. \A T \in Nat : T % 2 = 0 => (n < T * E <=> s < T)
    BY <1>4, <1>10, JamCompares
  <2>2. PICK B \in Nat : B = A * D
    OBVIOUS
  <2>3. y * E = B /\ (4 * y) * E = 4 * B
    <3>1. y * (W * D) = (y * W) * D /\ (4 * y) * (W * D) = 4 * ((y * W) * D)
      OBVIOUS
    <3>2. QED
      BY <1>3, <1>5, <2>2, <3>1
  <2>4. D * A <= D * H /\ D * H <= D * (2 * A) /\ A * 1 <= A * D
    <3>1. A <= H /\ H <= 2 * A /\ 1 <= D
      BY <1>1, <1>3 DEF IsWide2
    <3>2. QED
      BY <1>1, <3>1, ProductMonotonic
  <2>5. D * A = B /\ D * H = N /\ D * (2 * A) = 2 * B /\ A * 1 = A
    BY <1>1, <1>3, <2>2
  <2>6. L < 2 * A /\ 0 <= L
    BY <1>1, <1>3 DEF IsWide2
  <2>7. B <= n /\ n < 4 * B
    <3>1. B <= N /\ N <= 2 * B /\ A <= B
      BY <2>4, <2>5
    <3>2. n = N + L /\ N \in Nat /\ L \in Nat /\ n \in Nat /\ A \in Nat
      BY <1>1, <1>3, <1>4
    <3>3. QED
      BY <2>6, <3>1, <3>2
  <2>8. PICK t \in Nat : t = 4 * y /\ y % 2 = 0 /\ t % 2 = 0
    BY DEF IsWordOf
  <2>9. y <= s /\ s < 4 * y
    <3>1. n < y * E <=> s < y
      BY <2>1, <2>8
    <3>2. n < t * E <=> s < t
      BY <2>1, <2>8
    <3>3. ~(n < y * E) /\ n < t * E
      BY <1>4, <2>2, <2>3, <2>7, <2>8
    <3>4. QED
      BY <2>8, <3>1, <3>2, <3>3
  <2>10. QED
    BY <2>9 DEF IsNear, IsWordOf
<1>12. RoundSum(f, sign, e, s, mode) = RoundedRatio(f, sign, m, U, mode)
  BY <1>4, <1>8, <1>9, <1>10, <1>11, RoundSumIs
<1>13. QED
  BY <1>2, <1>5, <1>10, <1>12, <1>6

IsBelow(s, y, W) == s < W * (4 * y)
\* s is n jammed by the divisor 2^k, and exact if it is small.
IsJammed(s, n, k, D, y) == D = 2^k /\ s = JamOf(n, D) /\ (n = D * s \/ 4 * y <= s)

\* j is the place of the leading bit of s, below the last but the sign.
LeadsAt(s, y, w, j) ==
  /\ softfloat_countLeadingZeros64(2 * w, s) - 1 = j
  /\ \A l \in Nat : w = j + l => 2^l * (2 * y) <= s /\ s < 2^l * (4 * y)
  /\ \A i \in Nat : j = w + i => s * 2^i \in Nat /\ 2 * y <= s * 2^i /\ s * 2^i < 4 * y

\* The leading bit of a difference of two words: j places below the last but the sign.
LEMMA DifferenceLeads ==
  ASSUME NEW f, NEW y \in Nat \ {0}, NEW W \in Nat \ {0}, IsWordOf(f, y, W), NEW w \in Nat, w = word(f),
         NEW s \in Nat \ {0}, IsBelow(s, y, W)
  PROVE  \E j \in Nat : LeadsAt(s, y, w, j)
<1>1. 2^(2 * w) = W * W /\ 2^((2 * w) - 1) = W * (4 * y) /\ W = 8 * y /\ 2^(w - 1) = 4 * y /\ w >= 6
  BY DEF IsWordOf
<1>2. s < 2^(2 * w)
  <2>1. W * (4 * y) <= W * W
    <3>1. 4 * y <= W
      BY <1>1
    <3>2. QED
      BY <3>1, ProductMonotonic
  <2>2. PICK p \in Nat, q \in Nat : p = W * (4 * y) /\ q = W * W
    OBVIOUS
  <2>3. QED
    BY <1>1, <2>1, <2>2 DEF IsBelow
<1>3. PICK n \in 0..((2 * w) - 1), k \in Nat :
         softfloat_countLeadingZeros32(2 * w, s) = n /\ 2 * w = n + k + 1 /\ 2^k <= s /\ s < 2 * 2^k
  <2>1. 2 * w \in Nat
    OBVIOUS
  <2>2. QED
    BY <1>2, <2>1, LeadingZeros
<1>4. PICK K \in Nat \ {0} : K = 2^k
  BY PowerPositive
<1>5. n # 0
  <2>1. SUFFICES ASSUME n = 0 PROVE FALSE
    OBVIOUS
  <2>2. k = (2 * w) - 1
    BY <1>3, <2>1
  <2>3. K = W * (4 * y)
    BY <1>1, <1>4, <2>2
  <2>4. QED
    BY <1>3, <1>4, <2>3 DEF IsBelow
<1>6. PICK j \in Nat : j = n - 1 /\ k + j = (2 * w) - 2
  BY <1>3, <1>5
<1>7. 2^(w - 2) = 2 * y
  <2>1. PICK l \in Nat : l = w - 2 /\ w - 1 = l + 1
    BY <1>1
  <2>2. PICK L \in Nat : L = 2^l /\ 2^(l + 1) = 2 * L
    BY PowerNext, PowerPositive
  <2>3. 4 * y = 2 * L
    BY <1>1, <2>1, <2>2
  <2>4. L = 2 * y
    BY <2>3
  <2>5. QED
    BY <2>1, <2>2, <2>4
<1>8. \A l \in Nat : w = j + l => 2^l * (2 * y) <= s /\ s < 2^l * (4 * y)
  <2>1. SUFFICES ASSUME NEW l \in Nat, w = j + l PROVE 2^l * (2 * y) <= s /\ s < 2^l * (4 * y)
    OBVIOUS
  <2>2. PICK i \in Nat : i = w - 2
    BY <1>1
  <2>3. k = l + i
    BY <1>6, <2>1, <2>2
  <2>4. PICK L \in Nat : L = 2^l /\ 2^(l + i) = L * 2^i
    BY <2>2, PowerSum
  <2>5. K = L * (2 * y)
    BY <1>4, <1>7, <2>2, <2>3, <2>4, Zenon
  <2>6. L * (4 * y) = 2 * (L * (2 * y))
    OBVIOUS
  <2>7. L * (4 * y) = 2 * K
    BY <2>5, <2>6
  <2>8. QED
    BY <1>3, <1>4, <2>4, <2>5, <2>7, Zenon
<1>9. \A i \in Nat : j = w + i => s * 2^i \in Nat /\ 2 * y <= s * 2^i /\ s * 2^i < 4 * y
  <2>1. SUFFICES ASSUME NEW i \in Nat, j = w + i PROVE s * 2^i \in Nat /\ 2 * y <= s * 2^i /\ s * 2^i < 4 * y
    OBVIOUS
  <2>2. w - 2 = k + i /\ w - 2 \in Nat
    BY <1>1, <1>6, <2>1
  <2>3. PICK I \in Nat \ {0} : I = 2^i /\ 2^(k + i) = 2^k * I
    BY PowerSum, PowerPositive
  <2>4. K * I = 2 * y
    BY <1>4, <1>7, <2>2, <2>3
  <2>5. I * K <= I * s /\ I * (s + 1) <= I * (2 * K)
    <3>1. K <= s /\ s + 1 <= 2 * K
      BY <1>3, <1>4
    <3>2. QED
      BY <3>1, ProductMonotonic
  <2>6. PICK p \in Nat : p = s * I
    OBVIOUS
  <2>7. I * s = p /\ I * (s + 1) = p + I /\ I * (2 * K) = 2 * (K * I) /\ I * K = K * I
    BY <2>6
  <2>8. QED
    BY <2>3, <2>4, <2>5, <2>6, <2>7
<1>10. QED
  BY <1>3, <1>6, <1>8, <1>9 DEF softfloat_countLeadingZeros64, LeadsAt

\* The difference n of two words, of which s is jammed, brought into its place and rounded.
LEMMA DifferenceRounds ==
  ASSUME NEW f, IsFormat(f), NEW sign, NEW mode, IsMode(sign, mode), NEW y \in Nat \ {0}, NEW W \in Nat \ {0}, IsWordOf(f, y, W),
         NEW e \in Int, NEW k \in Nat, NEW D \in Nat \ {0},
         NEW n \in Nat, NEW s \in Nat \ {0}, IsJammed(s, n, k, D, y), IsBelow(s, y, W),
         NEW m \in Nat, NEW U \in Nat \ {0}, U = Unity(f), NEW l \in Int, l = e - k, InUnits(f, m, U, n, W, l)
  PROVE  RoundDifferenceF32(f, sign, e, s, mode) = RoundedRatio(f, sign, m, U, mode)
<1>1. PICK w \in Nat : w = word(f) /\ 2^w = W /\ W = 8 * y
  BY DEF IsWordOf
<1>2. PICK j \in Nat : LeadsAt(s, y, w, j)
  BY <1>1, DifferenceLeads
<1>3. /\ softfloat_countLeadingZeros64(2 * w, s) - 1 = j
      /\ \A i \in Nat : w = j + i => 2^i * (2 * y) <= s /\ s < 2^i * (4 * y)
      /\ \A i \in Nat : j = w + i => s * 2^i \in Nat /\ 2 * y <= s * 2^i /\ s * 2^i < 4 * y
  BY <1>2 DEF LeadsAt
<1>4. PICK v \in Nat \ {0} : v = 2^(f.G - 1) /\ v % 2 = 0
  BY DEF IsWordOf
<1>5. RoundDifferenceF32(f, sign, e, s, mode) =
        softfloat_roundPackToF32(f, sign, e - j,
          IF j < w THEN softfloat_shortShift64RightJam(s, w - j) ELSE (s * 2^(j - w)) % 2^w, mode)
  BY <1>1, <1>3, Zenon DEF RoundDifferenceF32
<1>6. e - j \in Int
  OBVIOUS
<1>7. ASSUME NEW t \in Nat, 2 * y <= t, t < 4 * y PROVE IsLeading(f, t)
  BY <1>7 DEF IsLeading, IsWordOf
<1>8. CASE j < w
  <2>1. PICK i \in Nat : w = j + i /\ i = w - j /\ i # 0
    BY <1>8
  <2>2. PICK E \in Nat \ {0}, S \in Nat \ {0} : E = 2^i /\ S = 2^j /\ W = S * E
    <3>1. 2^(j + i) = 2^j * 2^i
      BY PowerSum
    <3>2. QED
      BY <1>1, <2>1, <3>1, PowerPositive
  <2>3. E % 2 = 0
    <3>1. PICK q \in Nat : q = i - 1 /\ i = q + 1
      BY <2>1
    <3>2. PICK Q \in Nat : 2^q = Q /\ 2^(q + 1) = 2 * Q
      BY PowerNext, PowerPositive
    <3>3. E = 2 * Q
      BY <2>2, <3>1, <3>2
    <3>4. QED
      BY <3>3
  <2>4. PICK t \in Nat : t = JamOf(s, E)
    BY JamCompares
  <2>5. softfloat_shortShift64RightJam(s, w - j) = t
    BY <2>1, <2>2, <2>4, Zenon DEF softfloat_shortShift64RightJam, JamOf
  <2>6. IsLeading(f, t)
    <3>1. \A T \in Nat : T % 2 = 0 => (s < T * E <=> t < T)
      BY <2>4, JamCompares
    <3>2. PICK a \in Nat, c \in Nat : a = 2 * y /\ c = 4 * y /\ a % 2 = 0 /\ c % 2 = 0
      OBVIOUS
    <3>3. E * a <= s /\ s < E * c
      BY <1>3, <2>1, <2>2, <3>2
    <3>4. E * a = a * E /\ E * c = c * E
      OBVIOUS
    <3>5. (s < a * E <=> t < a) /\ (s < c * E <=> t < c)
      BY <3>1, <3>2
    <3>6. PICK p \in Nat, q \in Nat : p = a * E /\ q = c * E
      OBVIOUS
    <3>7. a <= t /\ t < c
      BY <3>3, <3>4, <3>5, <3>6
    <3>8. QED
      BY <1>7, <3>2, <3>7
  <2>7. PICK Z \in Nat \ {0} : Z = D * E /\ Stands(t, n, Z, v)
    <3>1. t = JamOf(n, D * E)
      <4>1. \A c \in Nat \ {0} : c % 2 = 0 => JamOf(JamOf(n, D), c) = JamOf(n, D * c)
        BY JamJam
      <4>2. QED
        BY <2>3, <2>4, <4>1, Zenon DEF IsJammed
    <3>2. PICK Z \in Nat \ {0} : Z = D * E
      OBVIOUS
    <3>3. Stands(t, n, Z, v)
      BY <1>4, <3>1, <3>2, JamStands
    <3>4. QED
      BY <3>2, <3>3
  <2>8. InUnits(f, m, U, n, Z, e - j)
    <3>1. Scales(Z, W, k - j)
      <4>1. (D * E) * S = (S * E) * D
        OBVIOUS
      <4>2. Z * 2^j = W * 2^k
        BY <2>2, <2>7, <4>1, Zenon DEF IsJammed
      <4>3. QED
        BY <4>2 DEF Scales
    <3>2. PICK o \in Int : o = k - j /\ l + o = e - j
      OBVIOUS
    <3>3. Scales(Z, W, o) /\ Z \in Nat
      BY <3>1, <3>2
    <3>4. InUnits(f, m, U, n, Z, l + o)
      BY <3>3, InRescaled
    <3>5. QED
      BY <3>2, <3>4
  <2>9. softfloat_roundPackToF32(f, sign, e - j, t, mode) = RoundedRatio(f, sign, m, U, mode)
    BY <1>4, <1>6, <2>6, <2>7, <2>8, RoundPack
  <2>10. QED
    BY <1>5, <1>8, <2>5, <2>9, Zenon
<1>9. CASE ~(j < w)
  <2>1. PICK i \in Nat : j = w + i /\ i = j - w
    BY <1>9
  <2>2. PICK t \in Nat, I \in Nat \ {0} : I = 2^i /\ t = s * I /\ 2 * y <= t /\ t < 4 * y
    BY <1>3, <2>1, PowerPositive
  <2>3. (s * 2^(j - w)) % 2^w = t
    <3>1. t % W = t
      <4>1. t \in 0..(W - 1)
        BY <1>1, <2>2
      <4>2. t = t + (0 * W)
        OBVIOUS
      <4>3. QED
        BY <4>1, <4>2, Wrapped
    <3>2. QED
      BY <1>1, <2>1, <2>2, <3>1
  <2>4. n = D * s
    <3>1. s * 1 <= s * I
      BY <2>2, ProductMonotonic
    <3>2. s < 4 * y
      BY <2>2, <3>1
    <3>3. QED
      BY <3>2 DEF IsJammed
  <2>5. Stands(t, t, 1, v)
    BY StandsExact
  <2>6. InUnits(f, m, U, t, 1, e - j)
    <3>1. Scales(D, W, k - w)
      <4>1. D * 2^w = W * 2^k
        <5>1. D * W = W * D
          OBVIOUS
        <5>2. QED
          BY <1>1, <5>1, Zenon DEF IsJammed
      <4>2. QED
        BY <4>1 DEF Scales
    <3>2. PICK o \in Int, p \in Int : o = k - w /\ p = l + o /\ p - i = e - j
      BY <2>1
    <3>3. InUnits(f, m, U, n, D, p)
      <4>1. Scales(D, W, o) /\ D \in Nat
        BY <3>1, <3>2
      <4>2. InUnits(f, m, U, n, D, l + o)
        BY <4>1, InRescaled
      <4>3. QED
        BY <3>2, <4>2
    <3>4. InUnits(f, m, U, s, 1, p)
      BY <2>4, <3>3, InExact
    <3>5. InUnits(f, m, U, s * 2^i, 1, p - i)
      <4>1. s \in Nat /\ 1 \in Nat
        OBVIOUS
      <4>2. QED
        BY <3>4, <4>1, InShifted
    <3>6. QED
      BY <2>2, <3>2, <3>5
  <2>7. softfloat_roundPackToF32(f, sign, e - j, t, mode) = RoundedRatio(f, sign, m, U, mode)
    <3>1. IsLeading(f, t) /\ 1 \in Nat \ {0}
      BY <1>7, <2>2
    <3>2. QED
      BY <1>4, <1>6, <2>5, <2>6, <3>1, RoundPack
  <2>8. QED
    BY <1>5, <1>9, <2>3, <2>7, Zenon
<1>10. QED
  BY <1>8, <1>9

\* n is the difference, s what the code makes of it.
IsGapJammed(H, L, n, s, k, D, y, W) ==
  n = (H * D) - L /\ s = H - JamOf(L, D) /\ IsJammed(s, n, k, D, y) /\ IsBelow(s, y, W)

\* Two words less what is jammed of two others, k places below: the jammed difference, exact if small.
LEMMA DifferenceJams ==
  ASSUME NEW y \in Nat \ {0}, NEW W \in Nat \ {0}, W = 8 * y, NEW k \in Nat, NEW D \in Nat \ {0}, D = 2^k,
         NEW H, IsWide2(H, y, W), NEW L, IsWide2(L, y, W), k = 0 => L < H
  PROVE  \E n \in Nat \ {0}, s \in Nat \ {0} : IsGapJammed(H, L, n, s, k, D, y, W)
<1>1. PICK A \in Nat : A = y * W /\ A <= H /\ H < 2 * A /\ A <= L /\ L < 2 * A
  BY DEF IsWide2
<1>2. H \in Nat /\ H % 2 = 0 /\ L \in Nat /\ L % 2 = 0
  BY DEF IsWide2
<1>3. PICK N \in Nat : N = H * D
  BY <1>2
<1>4. k = 0 => D = 1
  BY PowerZero
<1>5. k # 0 => \E Q \in Nat \ {0} : D = 2 * Q /\ (k # 1 => Q >= 2) /\ (k = 1 => Q = 1)
  <2>1. SUFFICES ASSUME k # 0 PROVE \E Q \in Nat \ {0} : D = 2 * Q /\ (k # 1 => Q >= 2) /\ (k = 1 => Q = 1)
    OBVIOUS
  <2>2. PICK q \in Nat : k = q + 1
    BY <2>1
  <2>3. PICK Q \in Nat \ {0} : Q = 2^q /\ 2^(q + 1) = 2 * Q
    BY PowerNext, PowerPositive
  <2>4. k = 1 => Q = 1
    <3>1. k = 1 => q = 0
      BY <2>2
    <3>2. QED
      BY <2>3, <3>1, PowerZero, Zenon
  <2>5. k # 1 => Q >= 2
    <3>1. SUFFICES ASSUME k # 1 PROVE Q >= 2
      OBVIOUS
    <3>2. PICK j \in Nat : q = j + 1
      BY <2>2, <3>1
    <3>3. PICK J \in Nat \ {0} : J = 2^j /\ 2^(j + 1) = 2 * J
      BY PowerNext, PowerPositive
    <3>4. Q = 2 * J
      BY <2>3, <3>2, <3>3
    <3>5. QED
      BY <3>4
  <2>6. QED
    BY <2>2, <2>3, <2>4, <2>5
<1>6. L < N
  <2>1. CASE k = 0
    BY <1>2, <1>3, <1>4, <2>1
  <2>2. CASE k # 0
    <3>1. PICK Q \in Nat \ {0} : D = 2 * Q
      BY <1>5, <2>2
    <3>2. A * 2 <= A * D /\ D * A <= D * H
      BY <1>1, <1>2, <3>1, ProductMonotonic
    <3>3. PICK B \in Nat : B = A * D /\ B = D * A
      OBVIOUS
    <3>4. D * H = N
      BY <1>2, <1>3
    <3>5. QED
      BY <1>1, <1>2, <3>2, <3>3, <3>4
  <2>3. QED
    BY <2>1, <2>2
<1>7. PICK n \in Nat \ {0} : n = N - L
  BY <1>2, <1>6
<1>8. PICK j \in Nat : j = JamOf(L, D)
  BY <1>2, JamCompares
<1>9. PICK s \in Nat : s = JamOf(n, D)
  <2>1. n \in Nat
    OBVIOUS
  <2>2. QED
    BY <2>1, JamCompares
<1>10. s = JamOf(n, D) /\ s = H - j
  <2>1. Times(H, D, N)
    BY <1>3 DEF Times
  <2>2. JamOf(n, D) = H - JamOf(L, D)
    <3>1. n \in Nat
      OBVIOUS
    <3>2. QED
      BY <1>2, <1>7, <2>1, <3>1, JamMinus
  <2>3. s = H - j
    <3>1. s = H - JamOf(L, D)
      BY <1>9, <2>2, Zenon
    <3>2. QED
      BY <1>8, <3>1, Zenon
  <2>4. QED
    BY <1>9, <2>3
<1>11. \A T \in Nat : T % 2 = 0 => (n < T * D <=> s < T) /\ (n = T * D <=> s = T)
  <2>1. n \in Nat
    OBVIOUS
  <2>2. \A T \in Nat : T % 2 = 0 => (n < T * D <=> JamOf(n, D) < T) /\ (n = T * D <=> JamOf(n, D) = T)
    BY <2>1, JamCompares
  <2>3. QED
    BY <1>9, <2>2
<1>12. s # 0
  <2>1. 0 % 2 = 0 /\ 0 * D = 0
    OBVIOUS
  <2>2. n = 0 * D <=> s = 0
    BY <1>11, <2>1
  <2>3. QED
    BY <2>1, <2>2
<1>13. IsBelow(s, y, W)
  <2>1. W * (4 * y) = 4 * (y * W)
    OBVIOUS
  <2>2. QED
    BY <1>1, <1>2, <1>10, <2>1 DEF IsBelow
<1>14. n = D * s \/ 4 * y <= s
  <2>1. CASE k = 0
    <3>1. n = n * 1
      OBVIOUS
    <3>2. n = 1 * n
      OBVIOUS
    <3>3. JamOf(n, 1) = n
      BY <3>2, JamExact
    <3>4. QED
      BY <1>4, <1>10, <2>1, <3>2, <3>3
  <2>2. CASE k = 1
    <3>1. D = 2
      BY <1>5, <2>2
    <3>2. PICK l \in Nat : L = 2 * l
      BY <1>2
    <3>3. PICK q \in Nat : q = H - l /\ n = 2 * q
      BY <1>2, <1>3, <1>7, <3>1, <3>2
    <3>4. JamOf(n, 2) = q
      BY <3>3, JamExact
    <3>5. QED
      BY <1>10, <3>1, <3>3, <3>4
  <2>3. CASE k # 0 /\ k # 1
    <3>1. PICK Q \in Nat \ {0} : D = 2 * Q /\ Q >= 2
      BY <1>5, <2>3
    <3>2. A * 2 <= A * Q /\ D * A <= D * H /\ Q * (8 * y) <= Q * A
      <4>1. 8 * y <= A
        <5>1. 1 <= y
          OBVIOUS
        <5>2. W * 1 <= W * y
          BY <5>1, ProductMonotonic
        <5>3. W * y = y * W
          OBVIOUS
        <5>4. QED
          BY <1>1, <5>2, <5>3
      <4>2. QED
        BY <1>1, <1>2, <3>1, <4>1, ProductMonotonic
    <3>3. PICK B \in Nat : B = A * Q /\ B = Q * A
      OBVIOUS
    <3>4. D * A = 2 * B /\ D * H = N
      <4>1. (2 * Q) * A = 2 * (Q * A)
        OBVIOUS
      <4>2. QED
        BY <1>2, <1>3, <3>1, <3>3, <4>1
    <3>5. B <= n
      BY <1>1, <1>2, <1>7, <3>2, <3>3, <3>4
    <3>6. PICK t \in Nat : t = 4 * y /\ t % 2 = 0
      OBVIOUS
    <3>7. t * D = Q * (8 * y)
      <4>1. (4 * y) * (2 * Q) = Q * (8 * y)
        OBVIOUS
      <4>2. QED
        BY <3>1, <3>6, <4>1
    <3>8. PICK z \in Nat : z = Q * (8 * y)
      OBVIOUS
    <3>9. ~(n < t * D)
      BY <3>2, <3>3, <3>5, <3>7, <3>8
    <3>10. ~(s < t)
      BY <1>11, <3>6, <3>9
    <3>11. QED
      BY <3>6, <3>10
  <2>4. QED
    BY <2>1, <2>2, <2>3
<1>15. IsJammed(s, n, k, D, y)
  BY <1>10, <1>14 DEF IsJammed
<1>16. n = (H * D) - L /\ s = H - JamOf(L, D)
  BY <1>3, <1>7, <1>8, <1>10
<1>17. s \in Nat \ {0}
  BY <1>12
<1>18. QED
  BY <1>7, <1>13, <1>15, <1>16, <1>17 DEF IsGapJammed

\* The difference of two words and of what is jammed of two others is rounded to the difference of the values.
LEMMA WideDifference ==
  ASSUME NEW f, IsFormat(f), NEW sign, NEW mode, IsMode(sign, mode), NEW y \in Nat \ {0}, NEW W \in Nat \ {0}, IsWordOf(f, y, W),
         NEW e \in Int, NEW k \in Nat, NEW D \in Nat \ {0}, D = 2^k,
         NEW H, IsWide2(H, y, W), NEW L, IsWide2(L, y, W), k = 0 => L < H,
         NEW a \in Nat, InWide(f, a, H, e), NEW c \in Nat, InWide(f, c, L, e - k)
  PROVE  /\ c < a /\ H - JamOf(L, D) \in Nat \ {0} /\ IsBelow(H - JamOf(L, D), y, W)
         /\ RoundDifferenceF32(f, sign, e, H - JamOf(L, D), mode) = RoundedRatio(f, sign, a - c, Unity(f), mode)
<1>1. H \in Nat /\ L \in Nat /\ 2^word(f) = W /\ W = 8 * y
  BY DEF IsWordOf, IsWide2
<1>2. PICK U \in Nat \ {0} : U = Unity(f)
  BY DEF IsWordOf
<1>3. PICK n \in Nat \ {0}, s \in Nat \ {0} :
        IsGapJammed(H, L, n, s, k, D, y, W)
  BY <1>1, DifferenceJams
<1>4. n = (H * D) - L /\ s = H - JamOf(L, D) /\ IsJammed(s, n, k, D, y) /\ IsBelow(s, y, W)
  BY <1>3 DEF IsGapJammed
<1>5. PICK N \in Nat : N = H * D /\ n = N - L /\ L < N
  BY <1>1, <1>4
<1>6. PICK l \in Int : l = e - k
  OBVIOUS
<1>7. InUnits(f, a, U, N, W, l) /\ InUnits(f, c, U, L, W, l)
  <2>1. InUnits(f, a, U, H, W, e) /\ InUnits(f, c, U, L, W, l)
    BY <1>1, <1>2, <1>6 DEF InWide
  <2>2. InUnits(f, a, U, H * 2^k, W, e - k)
    BY <1>1, <2>1, InShifted
  <2>3. QED
    BY <1>5, <1>6, <2>1, <2>2
<1>8. c < a /\ InUnits(f, a - c, U, N - L, W, l)
  <2>1. (c < a <=> L < N)
    BY <1>1, <1>7, InSum
  <2>2. L <= N => c <= a /\ InUnits(f, a - c, U, N - L, W, l)
    BY <1>1, <1>7, InSum
  <2>3. QED
    BY <1>1, <1>5, <2>1, <2>2
<1>9. PICK m \in Nat : m = a - c
  BY <1>8
<1>10. InUnits(f, m, U, n, W, l)
  BY <1>5, <1>8, <1>9
<1>11. RoundDifferenceF32(f, sign, e, s, mode) = RoundedRatio(f, sign, m, U, mode)
  BY <1>2, <1>4, <1>6, <1>10, DifferenceRounds
<1>12. QED
  BY <1>2, <1>4, <1>8, <1>9, <1>11

-----------------------------------------------------------------------------
(* Fused multiply and add: product, term, their sum and difference.        *)

\* p is a product of the value m / Unity, and c a term of it, in two words and in one.
IsProductOf(f, p, m, y, W) ==
  \E s \in Nat, e \in Int : p = [exp |-> e, sig |-> s] /\ IsWide2(s, y, W) /\ InWide(f, m, s, e)
IsTermOf(f, c, m, y, W) ==
  \E s \in Nat, e \in Int : /\ c = [exp |-> e, sig |-> s] /\ s % 2 = 0 /\ s < W /\ IsWide2(s * W, y, W)
                            /\ InWide(f, m, s * W, e)

\* The product P of two factors in two words, of which A is the least that has the leading bit in its place.
AreFactors(f, sA, sB, y, W, A, P) ==
  /\ P = (sA * 2^f.G) * (sB * 2^f.G) /\ A = y * W /\ A = 8 * (y * y) /\ 2^(2 * (f.F + f.G) + 1) = A
  /\ A <= 2 * P /\ P < 2 * A /\ P % 2 = 0

\* The words of two operands are multiplied without loss.
LEMMA FactorsMultiplied ==
  ASSUME NEW f, IsFormat(f), NEW h \in Nat \ {0}, NEW u \in Nat \ {0}, NEW b \in Nat, Sizes(f, h, u, b),
         NEW y \in Nat \ {0}, NEW W \in Nat \ {0}, Times(h, u, y), IsWordOf(f, y, W),
         NEW sA \in h..((2 * h) - 1), NEW sB \in h..((2 * h) - 1)
  PROVE  \E A \in Nat \ {0}, P \in Nat : AreFactors(f, sA, sB, y, W, A, P)
<1>1. PICK g \in Nat \ {0} : g = 2^f.G /\ g = 2 * u /\ 2^(f.G + 1) = 2 * g /\ f.G \in Nat
  <2>1. f.G \in Nat
    BY DEF IsFormat
  <2>2. 2^(f.G + 1) = 2 * 2^f.G
    BY <2>1, PowerNext
  <2>3. PICK g \in Nat \ {0} : g = 2 * u
    OBVIOUS
  <2>4. QED
    BY <2>1, <2>2, <2>3 DEF Sizes
<1>2. PICK x \in Nat, z \in Nat, P \in Nat : x = sA * g /\ z = sB * g /\ P = x * z
  OBVIOUS
<1>3. PICK A \in Nat : A = y * W /\ A = 8 * (y * y)
  <2>1. W = 8 * y
    BY DEF IsWordOf
  <2>2. y * (8 * y) = 8 * (y * y) /\ 8 * (y * y) \in Nat
    OBVIOUS
  <2>3. QED
    BY <2>1, <2>2
<1>4. A <= 2 * P /\ P < 2 * A /\ P % 2 = 0
  <2>1. h * g = 2 * y /\ (2 * h) * g = 4 * y
    <3>1. h * (2 * u) = 2 * (h * u) /\ (2 * h) * (2 * u) = 4 * (h * u)
      OBVIOUS
    <3>2. QED
      BY <1>1, <3>1 DEF Times
  <2>2. g * h <= g * sA /\ g * sA <= g * ((2 * h) - 1) /\ g * h <= g * sB /\ g * sB <= g * ((2 * h) - 1)
    BY ProductMonotonic
  <2>3. g * h = h * g /\ g * sA = x /\ g * sB = z /\ g * ((2 * h) - 1) = ((2 * h) * g) - g
    BY <1>2
  <2>4. 2 * y <= x /\ x < 4 * y /\ 2 * y <= z /\ z < 4 * y
    BY <2>1, <2>2, <2>3
  <2>5. (2 * y) * (2 * y) <= (2 * y) * z /\ z * (2 * y) <= z * x /\ z * x <= z * (4 * y) /\ (4 * y) * z <= (4 * y) * ((4 * y) - 1)
    BY <2>4, ProductMonotonic
  <2>6. PICK q \in Nat, r \in Nat : q = y * y /\ r = y * z
    OBVIOUS
  <2>7. (2 * y) * (2 * y) = 4 * q /\ (2 * y) * z = 2 * r /\ z * (2 * y) = 2 * r /\ z * x = P /\ z * (4 * y) = 4 * r
        /\ (4 * y) * z = 4 * r /\ (4 * y) * ((4 * y) - 1) = (16 * q) - (4 * y)
    BY <1>2, <2>6
  <2>8. A <= 2 * P /\ P < 2 * A
    BY <1>3, <2>5, <2>6, <2>7
  <2>9. P = 2 * ((sA * u) * z)
    BY <1>1, <1>2
  <2>10. PICK t \in Nat : t = (sA * u) * z
    OBVIOUS
  <2>11. QED
    BY <2>8, <2>9, <2>10
<1>5. 2^(2 * (f.F + f.G) + 1) = A
  <2>1. PICK n \in Nat : n = f.F + f.G
    BY DEF IsFormat
  <2>2. 2^(n + n) = 2^n * 2^n /\ 2^n = 2 * y
    BY <2>1, PowerSum DEF IsWordOf
  <2>3. PICK q \in Nat : q = y * y /\ (2 * y) * (2 * y) = 4 * q
    OBVIOUS
  <2>4. 2^(n + n) = 4 * q
    BY <2>2, <2>3
  <2>5. PICK i \in Nat : i = n + n
    OBVIOUS
  <2>6. 2^(i + 1) = 2 * 2^i
    BY PowerNext
  <2>7. 2^(i + 1) = A
    BY <1>3, <2>3, <2>4, <2>5, <2>6
  <2>8. 2 * (f.F + f.G) + 1 = i + 1
    BY <2>1, <2>5
  <2>9. QED
    BY <2>7, <2>8, Zenon
<1>6. A \in Nat \ {0}
  <2>1. y * W \in Nat \ {0}
    OBVIOUS
  <2>2. QED
    BY <1>3, <2>1
<1>7. P = (sA * 2^f.G) * (sB * 2^f.G)
  BY <1>1, <1>2, Zenon
<1>8. QED
  BY <1>3, <1>4, <1>5, <1>6, <1>7 DEF AreFactors

\* ProductF32 returns the product of two finite operands, in two words.
LEMMA ProductScaled ==
  ASSUME NEW f, IsFormat(f), NEW h \in Nat \ {0}, NEW u \in Nat \ {0}, NEW b \in Nat, Sizes(f, h, u, b),
         NEW y \in Nat \ {0}, NEW W \in Nat \ {0}, Times(h, u, y), IsWordOf(f, y, W),
         NEW sA \in h..((2 * h) - 1), NEW kA \in Int, NEW mA \in Nat, Scales(mA, sA, kA - 1),
         NEW sB \in h..((2 * h) - 1), NEW kB \in Int, NEW mB \in Nat, Scales(mB, sB, kB - 1)
  PROVE  \E m \in Nat : m = mA * mB /\
           IsProductOf(f, ProductF32(f, [exp |-> kA, sig |-> sA], [exp |-> kB, sig |-> sB]), m, y, W)
<1>1. PICK g \in Nat \ {0} : g = 2^f.G /\ g = 2 * u /\ 2^(f.G + 1) = 2 * g /\ f.G \in Nat
  <2>1. f.G \in Nat
    BY DEF IsFormat
  <2>2. 2^(f.G + 1) = 2 * 2^f.G
    BY <2>1, PowerNext
  <2>3. PICK g \in Nat \ {0} : g = 2 * u
    OBVIOUS
  <2>4. QED
    BY <2>1, <2>2, <2>3 DEF Sizes
<1>2. PICK A \in Nat \ {0}, P \in Nat : AreFactors(f, sA, sB, y, W, A, P)
  BY FactorsMultiplied
<1>3. P = (sA * g) * (sB * g) /\ A = y * W
  BY <1>1, <1>2, Zenon DEF AreFactors
<1>4. A <= 2 * P /\ P < 2 * A /\ P % 2 = 0
  BY <1>2 DEF AreFactors
<1>5. PICK m \in Nat : m = mA * mB
  OBVIOUS
<1>6. PICK U \in Nat \ {0} : U = Unity(f)
  BY DEF IsWordOf
<1>7. PICK k \in Int, e \in Int : k = kA + kB - bias(f) /\ e = kA + kB - (bias(f) - 1) /\ e = k + 1
  <2>1. bias(f) \in Int
    BY DEF Sizes
  <2>2. QED
    BY <2>1
<1>8. InUnits(f, m, U, 2 * P, W, k)
  <2>1. 2 * P = (sA * 2^f.G) * (sB * 2^(f.G + 1))
    <3>1. (sA * g) * (sB * (2 * g)) = 2 * ((sA * g) * (sB * g))
      OBVIOUS
    <3>2. QED
      BY <1>1, <1>3, <3>1
  <2>2. W = 2^word(f)
    BY DEF IsWordOf
  <2>3. PICK p \in Nat : p = 2 * P
    OBVIOUS
  <2>4. p = (sA * 2^f.G) * (sB * 2^(f.G + 1))
    BY <2>1, <2>3, Zenon
  <2>5. InUnits(f, mA * mB, Unity(f), p, W, kA + kB - bias(f))
    <3>1. sA \in Nat /\ sB \in Nat
      OBVIOUS
    <3>2. QED
      BY <2>2, <2>4, <3>1, ProductUnits
  <2>6. QED
    BY <1>5, <1>6, <1>7, <2>3, <2>5
<1>9. InUnits(f, m, U, P, W, e)
  <2>1. Scales(2 * W, W, 1)
    <3>1. (2 * W) * 2^0 = W * 2^1
      BY PowerZero, PowerOne
    <3>2. 1 - 0 = 1
      OBVIOUS
    <3>3. QED
      BY <3>1, <3>2 DEF Scales
  <2>2. PICK V \in Nat \ {0}, p \in Nat : V = 2 * W /\ p = 2 * P
    OBVIOUS
  <2>3. InUnits(f, m, U, p, V, k + 1)
    <3>1. InUnits(f, m, U, p, W, k) /\ Scales(V, W, 1)
      BY <1>8, <2>1, <2>2
    <3>2. V \in Nat /\ 1 \in Int
      OBVIOUS
    <3>3. QED
      BY <3>1, <3>2, InRescaled
  <2>4. Scales(m * (V * g), p * U, e)
    BY <1>1, <1>7, <2>3 DEF InUnits
  <2>5. PICK i \in Nat, j \in Nat : i = m * (W * g) /\ j = P * U
    OBVIOUS
  <2>6. m * (V * g) = i * 2 /\ p * U = j * 2
    <3>1. m * ((2 * W) * g) = (m * (W * g)) * 2 /\ (2 * P) * U = (P * U) * 2
      OBVIOUS
    <3>2. QED
      BY <2>2, <2>5, <3>1
  <2>7. Scales(i * 2, j * 2, e)
    BY <2>4, <2>6
  <2>8. 2 \in Nat \ {0}
    OBVIOUS
  <2>9. Scales(i, j, e)
    BY <2>7, <2>8, ScalesCancel
  <2>10. QED
    BY <1>1, <2>5, <2>9 DEF InUnits
<1>10. 2^(2 * (f.F + f.G) + 1) = A
  BY <1>2 DEF AreFactors
<1>11. ProductF32(f, [exp |-> kA, sig |-> sA], [exp |-> kB, sig |-> sB]) = Scaled(e, P, A)
  BY <1>1, <1>3, <1>7, <1>10, Zenon DEF ProductF32
<1>12. InUnits(f, m, Unity(f), 2 * P, 2^word(f), e - 1) /\ InUnits(f, m, Unity(f), P, 2^word(f), e)
  <2>1. W = 2^word(f) /\ k = e - 1
    BY <1>7 DEF IsWordOf
  <2>2. QED
    BY <1>6, <1>8, <1>9, <2>1
<1>13. CASE P < A
  <2>1. PICK s \in Nat, l \in Int : s = 2 * P /\ l = e - 1
    OBVIOUS
  <2>2. IsWide2(s, y, W)
    BY <1>3, <1>4, <1>13, <2>1 DEF IsWide2
  <2>3. Scaled(e, P, A) = [exp |-> l, sig |-> s]
    BY <1>13, <2>1 DEF Scaled
  <2>4. InWide(f, m, s, l)
    BY <1>12, <2>1 DEF InWide
  <2>5. IsProductOf(f, [exp |-> l, sig |-> s], m, y, W)
    BY <2>2, <2>4 DEF IsProductOf
  <2>6. QED
    BY <1>5, <1>11, <2>3, <2>5
<1>14. CASE ~(P < A)
  <2>1. IsWide2(P, y, W)
    BY <1>3, <1>4, <1>14 DEF IsWide2
  <2>2. Scaled(e, P, A) = [exp |-> e, sig |-> P]
    BY <1>14 DEF Scaled
  <2>3. InWide(f, m, P, e)
    BY <1>12 DEF InWide
  <2>4. IsProductOf(f, [exp |-> e, sig |-> P], m, y, W)
    BY <2>1, <2>3 DEF IsProductOf
  <2>5. QED
    BY <1>5, <1>11, <2>2, <2>4
<1>15. QED
  BY <1>13, <1>14

\* Addend returns the third operand, scaled as the product is.
LEMMA AddendScaled ==
  ASSUME NEW f, IsFormat(f), NEW h \in Nat \ {0}, NEW u \in Nat \ {0}, NEW b \in Nat, Sizes(f, h, u, b),
         NEW y \in Nat \ {0}, NEW W \in Nat \ {0}, Times(h, u, y), IsWordOf(f, y, W),
         NEW sC \in h..((2 * h) - 1), NEW kC \in Int, NEW mC \in Nat, Scales(mC, sC, kC - 1)
  PROVE  \E m \in Nat : m = mC * Unity(f) /\ IsTermOf(f, Addend(f, [exp |-> kC, sig |-> sC]), m, y, W)
<1>1. PICK U \in Nat \ {0} : U = Unity(f)
  BY DEF IsWordOf
<1>2. PICK m \in Nat, s \in Nat, S \in Nat : m = mC * U /\ s = sC * u /\ S = s * W
  OBVIOUS
<1>3. 2^(f.G - 1) = u /\ 2^f.G = 2 * u /\ u % 4 = 0
  BY DEF Sizes
<1>4. Addend(f, [exp |-> kC, sig |-> sC]) = [exp |-> kC, sig |-> s]
  BY <1>2, <1>3 DEF Addend
<1>5. s % 2 = 0 /\ S % 2 = 0
  <2>1. PICK v \in Nat : u = 2 * v
    <3>1. PICK q \in Nat : u = 4 * q
      BY <1>3, DivNat
    <3>2. u = 2 * (2 * q) /\ 2 * q \in Nat
      BY <3>1
    <3>3. QED
      BY <3>2
  <2>2. PICK x \in Nat, z \in Nat : x = sC * v /\ z = x * W
    OBVIOUS
  <2>3. sC * (2 * v) = 2 * (sC * v)
    OBVIOUS
  <2>4. s = 2 * x
    BY <1>2, <2>1, <2>2, <2>3
  <2>5. (2 * x) * W = 2 * (x * W)
    OBVIOUS
  <2>6. S = 2 * z
    BY <1>2, <2>2, <2>4, <2>5
  <2>7. QED
    BY <2>4, <2>6
<1>6. y <= s /\ s < 2 * y /\ s < W
  <2>1. u * h <= u * sC /\ u * sC <= u * ((2 * h) - 1)
    BY ProductMonotonic
  <2>2. u * h = h * u /\ u * sC = sC * u /\ u * ((2 * h) - 1) = (2 * (h * u)) - u
    OBVIOUS
  <2>3. y = h * u /\ W = 8 * y
    BY DEF Times, IsWordOf
  <2>4. QED
    BY <1>2, <2>1, <2>2, <2>3
<1>7. IsWide2(S, y, W)
  <2>1. W * y <= W * s /\ W * (s + 1) <= W * (2 * y)
    BY <1>6, ProductMonotonic
  <2>2. PICK q \in Nat : q = y * W
    OBVIOUS
  <2>3. W * y = q /\ W * s = S /\ W * (s + 1) = S + W /\ W * (2 * y) = 2 * q
    BY <1>2, <2>2
  <2>4. QED
    BY <1>5, <2>1, <2>2, <2>3 DEF IsWide2
<1>8. InWide(f, m, S, kC)
  <2>1. Scales(2, 1, 1)
    <3>1. 2 * 2^0 = 1 * 2^1
      BY PowerZero, PowerOne
    <3>2. 1 - 0 = 1
      OBVIOUS
    <3>3. QED
      BY <3>1, <3>2 DEF Scales
  <2>2. Scales(mC * 2, sC * 1, kC)
    <3>1. kC - 1 \in Int /\ sC \in Nat /\ (kC - 1) + 1 = kC
      OBVIOUS
    <3>2. Scales(mC * 2, sC * 1, (kC - 1) + 1)
      BY <2>1, <3>1, ScalesProduct
    <3>3. QED
      BY <3>1, <3>2
  <2>3. PICK x \in Nat, z \in Nat, c \in Nat : x = mC * 2 /\ z = sC * 1 /\ c = (u * U) * W
    OBVIOUS
  <2>4. Scales(c, c, 0) /\ Scales(x, z, kC)
    BY <2>2, <2>3, ScalesSame
  <2>5. Scales(x * c, z * c, kC + 0)
    BY <2>4, ScalesProduct
  <2>6. x * c = m * (W * 2^f.G)
    <3>1. (mC * 2) * ((u * U) * W) = (mC * U) * (W * (2 * u))
      OBVIOUS
    <3>2. QED
      BY <1>2, <1>3, <2>3, <3>1
  <2>7. z * c = S * U
    <3>1. (sC * 1) * ((u * U) * W) = ((sC * u) * W) * U
      OBVIOUS
    <3>2. QED
      BY <1>2, <2>3, <3>1
  <2>8. Scales(m * (W * 2^f.G), S * U, kC)
    <3>1. kC + 0 = kC
      OBVIOUS
    <3>2. QED
      BY <2>5, <2>6, <2>7, <3>1
  <2>9. 2^word(f) = W
    BY DEF IsWordOf
  <2>10. QED
    BY <1>1, <2>8, <2>9 DEF InWide, InUnits
<1>9. IsTermOf(f, [exp |-> kC, sig |-> s], m, y, W)
  BY <1>2, <1>5, <1>6, <1>7, <1>8 DEF IsTermOf
<1>10. QED
  BY <1>1, <1>2, <1>4, <1>9

\* Two words hold eight times the least significand of two words.
LEMMA WideFits ==
  ASSUME NEW f, NEW y \in Nat \ {0}, NEW W \in Nat \ {0}, IsWordOf(f, y, W), NEW s, IsWide2(s, y, W)
  PROVE  \E A \in Nat \ {0}, WW \in Nat \ {0} :
           /\ WW = W * W /\ 2^(2 * word(f)) = WW /\ WW = 8 * A /\ A <= s /\ s < 2 * A /\ A = y * W
           /\ 2 * word(f) \in Nat /\ s \in Nat /\ s < 2^(2 * word(f))
<1>1. W = 8 * y /\ 2^(2 * word(f)) = W * W /\ word(f) \in Nat
  BY DEF IsWordOf
<1>2. y * W \in Nat \ {0} /\ W * W \in Nat \ {0} /\ W * W = 8 * (y * W)
  <2>1. (8 * y) * W = 8 * (y * W)
    OBVIOUS
  <2>2. y * W \in Nat \ {0} /\ W * W \in Nat \ {0}
    OBVIOUS
  <2>3. QED
    BY <1>1, <2>1, <2>2
<1>3. PICK A \in Nat \ {0}, WW \in Nat \ {0} : A = y * W /\ WW = W * W /\ WW = 8 * A
  BY <1>2
<1>4. s \in Nat /\ A <= s /\ s < 2 * A
  BY <1>3 DEF IsWide2
<1>5. s < WW
  BY <1>3, <1>4
<1>6. QED
  BY <1>1, <1>3, <1>4, <1>5

\* What PlusF32 rounds: the significand s of the term in the upper of two words, P that of the product, d apart.
PlusSum(f, P, s, d) ==
  IF d <= 0 THEN s + JamOf(P, 2^(word(f) - d)) ELSE JamOf(P + JamOf(s * 2^word(f), 2^d), 2^word(f))
PlusOf(f, sign, d, eP, eC, P, s, mode) == RoundSum(f, sign, IF d <= 0 THEN eC ELSE eP, PlusSum(f, P, s, d), mode)

\* p and c are the product and the term of the significands P and s, their exponents d apart.
AreAdded(f, y, W, p, eP, P, c, eC, s, S, d) ==
  /\ IsWordOf(f, y, W) /\ p.exp = eP /\ p.sig = P /\ c.exp = eC /\ c.sig = s /\ S = s * W /\ d = eP - eC
  /\ IsWide2(P, y, W) /\ IsWide2(S, y, W)

\* PlusF32 with its shifts named.
LEMMA PlusSteps ==
  ASSUME NEW f, NEW sign, NEW mode, NEW y \in Nat \ {0}, NEW W \in Nat \ {0},
         NEW p, NEW P \in Nat, NEW eP \in Int, NEW c, NEW s \in Nat, NEW eC \in Int, NEW S \in Nat, NEW d \in Int,
         AreAdded(f, y, W, p, eP, P, c, eC, s, S, d)
  PROVE  PlusF32(f, sign, p, c, mode) = PlusOf(f, sign, d, eP, eC, P, s, mode)
<1>1. IsWordOf(f, y, W) /\ IsWide2(P, y, W) /\ IsWide2(S, y, W)
  BY DEF AreAdded
<1>2. PICK w \in Nat : w = word(f) /\ 2^w = W /\ w >= 6
  BY <1>1 DEF IsWordOf
<1>3. d = eP - eC
  BY DEF AreAdded
<1>4. S = s * W
  BY DEF AreAdded
<1>5. PlusF32(f, sign, p, c, mode) =
        RoundSum(f, sign, IF d <= 0 THEN eC ELSE eP,
                 IF d <= 0 THEN s + softfloat_shift64RightJam(2 * w, P, w - d)
                 ELSE softfloat_shortShift64RightJam(P + softfloat_shift64RightJam(2 * w, s * 2^w, d), w), mode)
  <2>1. p.exp = eP /\ p.sig = P /\ c.exp = eC /\ c.sig = s
    BY DEF AreAdded
  <2>2. QED
    BY <1>2, <1>3, <2>1, Zenon DEF PlusF32
<1>6. 2 * w \in Nat /\ P < 2^(2 * w) /\ S < 2^(2 * w)
  <2>1. 2 * word(f) \in Nat /\ P < 2^(2 * word(f)) /\ S < 2^(2 * word(f))
    BY <1>1, WideFits
  <2>2. QED
    BY <1>2, <2>1
<1>7. \A a \in Nat, k \in Nat \ {0} : a < 2^(2 * w) => softfloat_shift64RightJam(2 * w, a, k) = JamOf(a, 2^k)
  BY <1>6, ShiftJams DEF softfloat_shift64RightJam
<1>8. CASE d <= 0
  <2>1. PICK k \in Nat \ {0} : k = w - d
    BY <1>2, <1>8
  <2>2. softfloat_shift64RightJam(2 * w, P, w - d) = JamOf(P, 2^(w - d))
    BY <1>6, <1>7, <2>1, Zenon
  <2>3. QED
    BY <1>2, <1>3, <1>5, <1>8, <2>2, Zenon DEF PlusOf, PlusSum
<1>9. CASE ~(d <= 0)
  <2>1. d \in Nat \ {0}
    BY <1>9
  <2>2. softfloat_shift64RightJam(2 * w, s * 2^w, d) = JamOf(s * 2^w, 2^d)
    BY <1>2, <1>4, <1>6, <1>7, <2>1, Zenon
  <2>3. QED
    BY <1>2, <1>3, <1>5, <1>9, <2>2, Zenon DEF PlusOf, PlusSum, softfloat_shortShift64RightJam, JamOf
<1>10. QED
  BY <1>8, <1>9

\* The sum of a product and a term of the same sign is rounded once.
LEMMA PlusRounds ==
  ASSUME NEW f, IsFormat(f), NEW sign, NEW mode, IsMode(sign, mode), NEW y \in Nat \ {0}, NEW W \in Nat \ {0}, IsWordOf(f, y, W),
         NEW p, NEW mP \in Nat, IsProductOf(f, p, mP, y, W), NEW c, NEW mC \in Nat, IsTermOf(f, c, mC, y, W)
  PROVE  PlusF32(f, sign, p, c, mode) = RoundedRatio(f, sign, mP + mC, Unity(f), mode)
<1>1. PICK P \in Nat, eP \in Int : p = [exp |-> eP, sig |-> P] /\ IsWide2(P, y, W) /\ InWide(f, mP, P, eP)
  BY DEF IsProductOf
<1>2. PICK s \in Nat, eC \in Int : /\ c = [exp |-> eC, sig |-> s] /\ s % 2 = 0 /\ s < W /\ IsWide2(s * W, y, W)
                                   /\ InWide(f, mC, s * W, eC)
  BY DEF IsTermOf
<1>3. PICK S \in Nat : S = s * W
  OBVIOUS
<1>4. PICK w \in Nat : w = word(f) /\ 2^w = W /\ w >= 6
  BY DEF IsWordOf
<1>5. PICK d \in Int : d = eP - eC
  OBVIOUS
<1>6. PlusF32(f, sign, p, c, mode) =
        RoundSum(f, sign, IF d <= 0 THEN eC ELSE eP,
                 IF d <= 0 THEN s + JamOf(P, 2^(w - d)) ELSE JamOf(P + JamOf(S, 2^d), W), mode)
  <2>1. PlusF32(f, sign, p, c, mode) = PlusOf(f, sign, d, eP, eC, P, s, mode)
    <3>1. AreAdded(f, y, W, p, eP, P, c, eC, s, S, d)
      BY <1>1, <1>2, <1>3, <1>5 DEF AreAdded
    <3>2. QED
      BY <3>1, PlusSteps
  <2>2. QED
    BY <1>3, <1>4, <2>1, Zenon DEF PlusOf, PlusSum
<1>7. CASE d <= 0
  <2>1. PICK k \in Nat : k = -d /\ eP = eC - k /\ w - d = w + k
    BY <1>5, <1>7
  <2>2. PICK D \in Nat \ {0} : D = 2^k
    BY PowerPositive
  <2>3. PICK E \in Nat \ {0} : E = W * D /\ 2^(w + k) = E
    <3>1. W * D \in Nat \ {0}
      OBVIOUS
    <3>2. 2^(w + k) = 2^w * 2^k
      BY PowerSum
    <3>3. QED
      BY <1>4, <2>2, <3>1, <3>2
  <2>4. PICK n \in Nat, z \in Nat : n = P + z /\ z = s * E
    OBVIOUS
  <2>5. JamOf(n, E) = JamOf(P, E) + s
    <3>1. Times(s, E, z)
      BY <2>4 DEF Times
    <3>2. JamOf(P + z, E) = JamOf(P, E) + s
      BY <1>2, <3>1, JamPlus
    <3>3. QED
      BY <2>4, <3>2, Zenon
  <2>6. PICK j \in Nat : j = JamOf(P, E)
    BY JamCompares
  <2>7. s + JamOf(P, 2^(w - d)) = JamOf(n, W * D)
    <3>1. s + j = j + s
      OBVIOUS
    <3>2. QED
      BY <2>1, <2>3, <2>5, <2>6, <3>1, Zenon
  <2>8. n = (S * D) + P
    <3>1. s * (W * D) = (s * W) * D
      OBVIOUS
    <3>2. z = S * D
      BY <1>3, <2>3, <2>4, <3>1
    <3>3. PICK q \in Nat : q = S * D
      OBVIOUS
    <3>4. QED
      BY <2>4, <3>2, <3>3
  <2>9. RoundSum(f, sign, eC, JamOf(n, W * D), mode) = RoundedRatio(f, sign, mC + mP, Unity(f), mode)
    <3>1. IsWide2(S, y, W) /\ InWide(f, mC, S, eC)
      BY <1>2, <1>3
    <3>2. IsWide2(P, y, W) /\ InWide(f, mP, P, eC - k)
      BY <1>1, <2>1
    <3>3. QED
      BY <2>2, <2>8, <3>1, <3>2, WideSum
  <2>10. mC + mP = mP + mC
    OBVIOUS
  <2>11. QED
    BY <1>6, <1>7, <2>7, <2>9, <2>10, Zenon
<1>8. CASE ~(d <= 0)
  <2>1. PICK k \in Nat \ {0} : k = d /\ eC = eP - k
    BY <1>5, <1>8
  <2>2. PICK D \in Nat \ {0} : D = 2^k
    BY PowerPositive
  <2>3. PICK n \in Nat, z \in Nat : n = z + S /\ z = P * D
    OBVIOUS
  <2>4. PICK j \in Nat : j = JamOf(S, D)
    BY JamCompares
  <2>5. JamOf(n, D) = P + j
    <3>1. Times(P, D, z) /\ P % 2 = 0
      BY <1>1, <2>3 DEF Times, IsWide2
    <3>2. JamOf(S + z, D) = JamOf(S, D) + P
      BY <3>1, JamPlus
    <3>3. S + z = n /\ j + P = P + j
      BY <2>3
    <3>4. QED
      BY <2>4, <3>2, <3>3, Zenon
  <2>6. JamOf(P + j, W) = JamOf(n, D * W)
    <3>1. W % 2 = 0
      BY DEF IsWordOf
    <3>2. \A e \in Nat \ {0} : e % 2 = 0 => JamOf(JamOf(n, D), e) = JamOf(n, D * e)
      BY JamJam
    <3>3. JamOf(JamOf(n, D), W) = JamOf(n, D * W)
      BY <3>1, <3>2, Zenon
    <3>4. QED
      BY <2>5, <3>3, Zenon
  <2>7. RoundSum(f, sign, eP, JamOf(n, W * D), mode) = RoundedRatio(f, sign, mP + mC, Unity(f), mode)
    <3>1. IsWide2(S, y, W) /\ InWide(f, mC, S, eP - k)
      BY <1>2, <1>3, <2>1
    <3>2. n = (P * D) + S
      BY <2>3
    <3>3. k \in Nat
      OBVIOUS
    <3>4. QED
      BY <1>1, <2>2, <3>1, <3>2, <3>3, WideSum
  <2>8. D * W = W * D
    OBVIOUS
  <2>9. QED
    BY <1>6, <1>8, <2>1, <2>2, <2>4, <2>6, <2>7, <2>8, Zenon
<1>9. QED
  BY <1>7, <1>8

\* The difference, of which the larger gives the sign.
FusedDifference(f, s, mP, mC, mode) ==
  IF mP = mC THEN Ret(Zero(f, Bit(mode = "min")), {})
  ELSE IF mC < mP THEN RoundedRatio(f, s, mP - mC, Unity(f), mode) ELSE RoundedRatio(f, 1 - s, mC - mP, Unity(f), mode)

\* MinusF32 of the significands P and S of two words, d apart.
MinusOf(f, sign, d, eP, eC, P, S, mode) ==
  LET w == 2 * word(f)
      Rest(diff) ==
        RoundDifferenceF32(f, IF d < 0 \/ diff < 0 THEN 1 - sign ELSE sign,
                           IF d < 0 THEN eC ELSE eP, IF diff < 0 THEN -diff ELSE diff, mode)
  IN IF d = 0 /\ P = S THEN Ret(Zero(f, Bit(mode = "min")), {})
     ELSE Rest(CASE d < 0 -> S - softfloat_shift64RightJam(w, P, -d)
                 [] d = 0 -> P - S
                 [] d > 0 -> P - softfloat_shift64RightJam(w, S, d))

\* MinusF32 with its shifts named.
LEMMA MinusSteps ==
  ASSUME NEW f, NEW sign, NEW p, NEW c, NEW mode
  PROVE  MinusF32(f, sign, p, c, mode) =
           MinusOf(f, sign, p.exp - c.exp, p.exp, c.exp, p.sig, c.sig * 2^word(f), mode)
BY Zenon DEF MinusF32, MinusOf

\* The difference of a product and a term of another sign is rounded once.
LEMMA MinusRounds ==
  ASSUME NEW f, IsFormat(f), NEW sign, NEW mode, IsMode(sign, mode), NEW y \in Nat \ {0}, NEW W \in Nat \ {0}, IsWordOf(f, y, W),
         NEW p, NEW mP \in Nat, IsProductOf(f, p, mP, y, W), NEW c, NEW mC \in Nat, IsTermOf(f, c, mC, y, W)
  PROVE  MinusF32(f, sign, p, c, mode) = FusedDifference(f, sign, mP, mC, mode)
<1>1. PICK P \in Nat, eP \in Int : p = [exp |-> eP, sig |-> P] /\ IsWide2(P, y, W) /\ InWide(f, mP, P, eP)
  BY DEF IsProductOf
<1>2. PICK s \in Nat, eC \in Int : /\ c = [exp |-> eC, sig |-> s] /\ s % 2 = 0 /\ s < W /\ IsWide2(s * W, y, W)
                                   /\ InWide(f, mC, s * W, eC)
  BY DEF IsTermOf
<1>3. PICK S \in Nat : S = s * W
  OBVIOUS
<1>4. IsWide2(S, y, W) /\ InWide(f, mC, S, eC)
  BY <1>2, <1>3
<1>5. PICK w \in Nat : w = word(f) /\ 2^w = W
  BY DEF IsWordOf
<1>6. PICK d \in Int : d = eP - eC
  OBVIOUS
<1>7. 2 * w \in Nat /\ P < 2^(2 * w) /\ S < 2^(2 * w)
  <2>1. 2 * word(f) \in Nat /\ P < 2^(2 * word(f)) /\ S < 2^(2 * word(f))
    BY <1>1, <1>4, WideFits
  <2>2. QED
    BY <1>5, <2>1
<1>8. \A a \in Nat, k \in Nat \ {0} : a < 2^(2 * w) => softfloat_shift64RightJam(2 * w, a, k) = JamOf(a, 2^k)
  BY <1>7, ShiftJams DEF softfloat_shift64RightJam
<1>9. IsMode(1 - sign, mode)
  BY DEF IsMode
<1>10. p.exp = eP /\ p.sig = P /\ c.exp = eC /\ c.sig = s
  BY <1>1, <1>2
<1>11. MinusF32(f, sign, p, c, mode) = MinusOf(f, sign, d, eP, eC, P, S, mode)
  BY <1>3, <1>5, <1>6, <1>10, MinusSteps, Zenon
<1>12. MinusF32(f, sign, p, c, mode) =
        LET Difference0(diff) ==
              RoundDifferenceF32(f, IF d < 0 \/ diff < 0 THEN 1 - sign ELSE sign,
                                 IF d < 0 THEN eC ELSE eP, IF diff < 0 THEN -diff ELSE diff, mode)
        IN IF d = 0 /\ P = S THEN Ret(Zero(f, Bit(mode = "min")), {})
           ELSE Difference0(CASE d < 0 -> S - softfloat_shift64RightJam(2 * w, P, -d)
                              [] d = 0 -> P - S
                              [] d > 0 -> P - softfloat_shift64RightJam(2 * w, S, d))
  BY <1>5, <1>11, Zenon DEF MinusOf
<1>13. CASE d < 0
  <2>1. PICK k \in Nat \ {0} : k = -d /\ eP = eC - k
    BY <1>6, <1>13
  <2>2. PICK D \in Nat \ {0} : D = 2^k
    BY PowerPositive
  <2>3. softfloat_shift64RightJam(2 * w, P, -d) = JamOf(P, D)
    BY <1>7, <1>8, <2>1, <2>2, Zenon
  <2>4. PICK j \in Nat : j = JamOf(P, D)
    BY JamCompares
  <2>5. /\ mP < mC /\ S - JamOf(P, D) \in Nat \ {0}
        /\ RoundDifferenceF32(f, 1 - sign, eC, S - JamOf(P, D), mode) = RoundedRatio(f, 1 - sign, mC - mP, Unity(f), mode)
    <3>1. k \in Nat /\ (k = 0 => P < S)
      OBVIOUS
    <3>2. InWide(f, mP, P, eC - k)
      BY <1>1, <2>1
    <3>3. QED
      BY <1>1, <1>9, <1>4, <2>2, <3>1, <3>2, WideDifference
  <2>6. PICK r \in Nat \ {0} : r = S - j /\ r = S - JamOf(P, D)
    BY <2>4, <2>5
  <2>7. ~(r < 0) /\ ~(d = 0) /\ ~(d > 0)
    BY <1>13
  <2>8. MinusF32(f, sign, p, c, mode) = RoundDifferenceF32(f, 1 - sign, eC, r, mode)
    <3>1. (CASE d < 0 -> S - softfloat_shift64RightJam(2 * w, P, -d)
             [] d = 0 -> P - S
             [] d > 0 -> P - softfloat_shift64RightJam(2 * w, S, d)) = r
      BY <1>13, <2>3, <2>6, <2>7
    <3>2. QED
      BY <1>12, <1>13, <2>7, <3>1
  <2>9. ~(mP = mC) /\ ~(mC < mP)
    BY <2>5
  <2>10. QED
    BY <2>5, <2>6, <2>8, <2>9 DEF FusedDifference
<1>14. CASE d > 0
  <2>1. PICK k \in Nat \ {0} : k = d /\ eC = eP - k
    BY <1>6, <1>14
  <2>2. PICK D \in Nat \ {0} : D = 2^k
    BY PowerPositive
  <2>3. softfloat_shift64RightJam(2 * w, S, d) = JamOf(S, D)
    BY <1>7, <1>8, <2>1, <2>2, Zenon
  <2>4. PICK j \in Nat : j = JamOf(S, D)
    BY JamCompares
  <2>5. /\ mC < mP /\ P - JamOf(S, D) \in Nat \ {0}
        /\ RoundDifferenceF32(f, sign, eP, P - JamOf(S, D), mode) = RoundedRatio(f, sign, mP - mC, Unity(f), mode)
    <3>1. k \in Nat /\ (k = 0 => S < P)
      OBVIOUS
    <3>2. InWide(f, mC, S, eP - k)
      BY <1>4, <2>1
    <3>3. QED
      BY <1>1, <1>4, <2>2, <3>1, <3>2, WideDifference
  <2>6. PICK r \in Nat \ {0} : r = P - j /\ r = P - JamOf(S, D)
    BY <2>4, <2>5
  <2>7. ~(r < 0) /\ ~(d = 0) /\ ~(d < 0)
    BY <1>14
  <2>8. MinusF32(f, sign, p, c, mode) = RoundDifferenceF32(f, sign, eP, r, mode)
    <3>1. (CASE d < 0 -> S - softfloat_shift64RightJam(2 * w, P, -d)
             [] d = 0 -> P - S
             [] d > 0 -> P - softfloat_shift64RightJam(2 * w, S, d)) = r
      BY <1>14, <2>3, <2>6, <2>7
    <3>2. QED
      BY <1>12, <1>14, <2>7, <3>1
  <2>9. ~(mP = mC)
    BY <2>5
  <2>10. QED
    BY <2>5, <2>6, <2>8, <2>9 DEF FusedDifference
<1>15. CASE d = 0
  <2>1. eP = eC
    BY <1>6, <1>15
  <2>2. /\ S < P => /\ mC < mP
                    /\ RoundDifferenceF32(f, sign, eP, P - S, mode) = RoundedRatio(f, sign, mP - mC, Unity(f), mode)
        /\ P < S => /\ mP < mC
                    /\ RoundDifferenceF32(f, 1 - sign, eC, S - P, mode) = RoundedRatio(f, 1 - sign, mC - mP, Unity(f), mode)
    <3>1. PICK k \in Nat : k = 0
      OBVIOUS
    <3>2. PICK D \in Nat \ {0} : D = 2^k
      BY PowerPositive
    <3>3. k = 0 /\ D = 1
      BY <3>1, <3>2, PowerZero, Zenon
    <3>4. JamOf(S, D) = S /\ JamOf(P, D) = P
      <4>1. S = D * S /\ P = D * P
        BY <3>3
      <4>2. QED
        BY <4>1, JamExact
    <3>5. eP - k = eP /\ eC - k = eC
      BY <3>3
    <3>6. InWide(f, mC, S, eP - k) /\ InWide(f, mP, P, eC - k)
      BY <1>1, <1>4, <2>1, <3>5
    <3>7. ASSUME S < P
          PROVE  /\ mC < mP
                 /\ RoundDifferenceF32(f, sign, eP, P - JamOf(S, D), mode) = RoundedRatio(f, sign, mP - mC, Unity(f), mode)
      <4>1. k = 0 => S < P
        BY <3>7
      <4>2. QED
        BY <1>1, <1>4, <3>2, <3>6, <4>1, WideDifference
    <3>8. ASSUME P < S
          PROVE  /\ mP < mC
                 /\ RoundDifferenceF32(f, 1 - sign, eC, S - JamOf(P, D), mode) = RoundedRatio(f, 1 - sign, mC - mP, Unity(f), mode)
      <4>1. k = 0 => P < S
        BY <3>8
      <4>2. QED
        BY <1>1, <1>9, <1>4, <3>2, <3>6, <4>1, WideDifference
    <3>9. QED
      BY <3>4, <3>7, <3>8
  <2>3. ~(d < 0) /\ ~(d > 0)
    BY <1>15
  <2>4. CASE P = S
    <3>1. mP = mC
      <4>1. PICK U \in Nat \ {0} : U = Unity(f)
        BY DEF IsWordOf
      <4>2. InUnits(f, mP, U, P, W, eP) /\ InUnits(f, mC, U, S, W, eP)
        BY <1>1, <1>5, <1>4, <2>1, <4>1 DEF InWide
      <4>3. mP = mC <=> P = S
        BY <4>2, InSum
      <4>4. QED
        BY <2>4, <4>3
    <3>2. MinusF32(f, sign, p, c, mode) = Ret(Zero(f, Bit(mode = "min")), {})
      BY <1>12, <1>15, <2>4
    <3>3. QED
      BY <3>1, <3>2 DEF FusedDifference
  <2>5. CASE P # S
    <3>1. PICK r \in Int : r = P - S
      OBVIOUS
    <3>2. (CASE d < 0 -> S - softfloat_shift64RightJam(2 * w, P, -d)
             [] d = 0 -> P - S
             [] d > 0 -> P - softfloat_shift64RightJam(2 * w, S, d)) = r
      BY <1>15, <2>3, <3>1
    <3>3. MinusF32(f, sign, p, c, mode) =
            RoundDifferenceF32(f, IF r < 0 THEN 1 - sign ELSE sign, eP, IF r < 0 THEN -r ELSE r, mode)
      BY <1>12, <2>3, <2>5, <3>2
    <3>4. CASE S < P
      <4>1. ~(r < 0) /\ mC < mP /\ mP # mC
        BY <2>2, <3>1, <3>4
      <4>2. QED
        BY <2>2, <3>1, <3>3, <3>4, <4>1 DEF FusedDifference
    <3>5. CASE P < S
      <4>1. r < 0 /\ mP # mC /\ ~(mC < mP) /\ -r = S - P
        BY <2>2, <3>1, <3>5
      <4>2. QED
        BY <2>1, <2>2, <3>3, <3>5, <4>1 DEF FusedDifference
    <3>6. QED
      BY <2>5, <3>4, <3>5
  <2>6. QED
    BY <2>4, <2>5
<1>16. QED
  BY <1>13, <1>14, <1>15

\* A product alone.
LEMMA ProductAlone ==
  ASSUME NEW f, IsFormat(f), NEW sign, NEW mode, IsMode(sign, mode), NEW y \in Nat \ {0}, NEW W \in Nat \ {0}, IsWordOf(f, y, W),
         NEW p, NEW mP \in Nat, IsProductOf(f, p, mP, y, W)
  PROVE  softfloat_roundPackToF32(f, sign, p.exp - 1, softfloat_shortShift64RightJam(p.sig, word(f) - 1), mode)
           = RoundedRatio(f, sign, mP, Unity(f), mode)
<1>1. PICK P \in Nat, eP \in Int : p = [exp |-> eP, sig |-> P] /\ IsWide2(P, y, W) /\ InWide(f, mP, P, eP)
  BY DEF IsProductOf
<1>2. PICK q \in Nat \ {0} : q = 4 * y /\ 2^(word(f) - 1) = q /\ W = 2 * q /\ 2^word(f) = W
  BY DEF IsWordOf
<1>3. PICK t \in Nat : t = JamOf(P, q)
  BY JamCompares
<1>4. softfloat_shortShift64RightJam(P, word(f) - 1) = t
  BY <1>2, <1>3, Zenon DEF softfloat_shortShift64RightJam, JamOf
<1>5. PICK v \in Nat \ {0} : v = 2^(f.G - 1) /\ v % 2 = 0
  BY DEF IsWordOf
<1>6. PICK U \in Nat \ {0} : U = Unity(f)
  BY DEF IsWordOf
<1>7. Stands(t, P, q, v)
  BY <1>3, <1>5, JamStands
<1>8. IsLeading(f, t)
  <2>1. \A T \in Nat : T % 2 = 0 => (P < T * q <=> t < T)
    BY <1>3, JamCompares
  <2>2. PICK a \in Nat, b \in Nat : a = 2 * y /\ b = 4 * y /\ a % 2 = 0 /\ b % 2 = 0
    OBVIOUS
  <2>3. PICK A \in Nat : A = y * W
    OBVIOUS
  <2>4. a * q = A /\ b * q = 2 * A
    <3>1. (2 * y) * q = y * (2 * q) /\ (4 * y) * q = 2 * (y * (2 * q))
      OBVIOUS
    <3>2. QED
      BY <1>2, <2>2, <2>3, <3>1
  <2>5. A <= P /\ P < 2 * A
    BY <1>1, <2>3 DEF IsWide2
  <2>6. a <= t /\ t < b
    <3>1. (P < a * q <=> t < a) /\ (P < b * q <=> t < b)
      BY <2>1, <2>2
    <3>2. QED
      BY <2>2, <2>3, <2>4, <2>5, <3>1
  <2>7. QED
    BY <2>2, <2>6 DEF IsLeading, IsWordOf
<1>9. PICK l \in Int : l = eP - 1 /\ l = eP + (-1)
  OBVIOUS
<1>10. InUnits(f, mP, U, P, q, l)
  <2>1. Scales(q, W, -1)
    <3>1. q * 2^1 = W * 2^0
      BY <1>2, PowerZero, PowerOne
    <3>2. 0 - 1 = -1
      OBVIOUS
    <3>3. QED
      BY <3>1, <3>2 DEF Scales
  <2>2. InUnits(f, mP, U, P, W, eP)
    BY <1>1, <1>2, <1>6 DEF InWide
  <2>3. InUnits(f, mP, U, P, q, eP + (-1))
    <3>1. q \in Nat /\ -1 \in Int
      OBVIOUS
    <3>2. QED
      BY <2>1, <2>2, <3>1, InRescaled
  <2>4. QED
    BY <1>9, <2>3
<1>11. softfloat_roundPackToF32(f, sign, l, t, mode) = RoundedRatio(f, sign, mP, U, mode)
  BY <1>5, <1>7, <1>8, <1>10, RoundPack
<1>12. p.exp - 1 = l /\ p.sig = P
  BY <1>1, <1>9
<1>13. QED
  BY <1>4, <1>6, <1>11, <1>12, Zenon

-----------------------------------------------------------------------------
(* Pairs of words that are shifted.                                        *)

\* The words of a value, and the pair of words that has it.
LEMMA PairIs ==
  ASSUME NEW w \in Nat, NEW W \in Nat \ {0}, W = 2^w, NEW hi \in Nat, NEW x \in Nat, Times(hi, W, x),
         NEW lo \in 0..(W - 1), NEW v \in Nat, v = x + lo
  PROVE  PairOf(w, v) = Pair(hi, lo)
<1>1. hi * W = W * hi
  OBVIOUS
<1>2. Times(W, hi, x)
  BY <1>1 DEF Times
<1>3. (x + lo) \div W = hi /\ (x + lo) % W = lo
  BY <1>2, RestOf
<1>4. v \div W = hi /\ v % W = lo
  BY <1>3
<1>5. QED
  BY <1>4, Zenon DEF PairOf

\* Jamming does not carry out of an even part.
LEMMA JammedPlus ==
  ASSUME NEW x \in Nat, x % 2 = 0, NEW a \in Nat, NEW b \in BOOLEAN
  PROVE  Jammed(x + a, b) = x + Jammed(a, b)
<1>1. (x + a) % 2 = a % 2
  OBVIOUS
<1>2. QED
  BY <1>1 DEF Jammed

\* Jamming sets the last bit of an even range, and stays in it.
LEMMA JammedBelow ==
  ASSUME NEW W \in Nat, W % 2 = 0, NEW a \in 0..(W - 1), NEW b \in BOOLEAN
  PROVE  Jammed(a, b) \in 0..(W - 1)
BY DEF Jammed

\* A word is cut in two at any bit.
LEMMA PowerParts ==
  ASSUME NEW w \in Nat, NEW n \in Nat, n <= w
  PROVE  \E N \in Nat \ {0}, M \in Nat \ {0} : N = 2^n /\ M = 2^(w - n) /\ 2^w = N * M
<1>1. PICK i \in Nat : i = w - n /\ w = n + i
  OBVIOUS
<1>2. PICK N \in Nat \ {0}, M \in Nat \ {0} : N = 2^n /\ M = 2^i
  BY PowerPositive
<1>3. 2^(n + i) = 2^n * 2^i
  BY PowerSum
<1>4. QED
  BY <1>1, <1>2, <1>3, Zenon

\* A shift to the left of a pair that loses nothing.
LEMMA PairShiftsLeft ==
  ASSUME NEW w \in Nat, NEW W \in Nat \ {0}, W = 2^w, NEW hi \in Nat, NEW lo \in 0..(W - 1),
         NEW v \in Nat, v = (hi * W) + lo, NEW n \in Nat, n <= w, NEW z \in Nat, z = v * 2^n, z < W * W
  PROVE  softfloat_shortShift128Left(w, Pair(hi, lo), n) = PairOf(w, z)
<1>1. PICK N \in Nat \ {0}, M \in Nat \ {0} : N = 2^n /\ M = 2^(w - n) /\ 2^w = N * M
  BY PowerParts
<1>2. PICK a \in Nat, r \in 0..(M - 1) : a = lo \div M /\ lo = (M * a) + r
  BY DivNat
<1>3. PICK H \in Nat, L \in Nat : H = (hi * N) + a /\ L = r * N
  OBVIOUS
<1>4. lo * N = L + (a * W)
  <2>1. ((M * a) + r) * N = (r * N) + (a * (N * M))
    OBVIOUS
  <2>2. QED
    BY <1>1, <1>2, <1>3, <2>1
<1>5. L \in 0..(W - 1)
  <2>1. N * r <= N * (M - 1)
    BY ProductMonotonic
  <2>2. N * r = r * N /\ N * (M - 1) = (N * M) - N
    OBVIOUS
  <2>3. QED
    BY <1>1, <1>3, <2>1, <2>2
<1>6. z = (H * W) + L
  <2>1. ((hi * W) + lo) * N = ((hi * N) * W) + (lo * N)
    OBVIOUS
  <2>2. PICK x \in Nat, t \in Nat, q \in Nat : x = hi * N /\ t = lo * N /\ q = a * W
    OBVIOUS
  <2>3. z = (x * W) + t
    BY <1>1, <2>1, <2>2
  <2>4. (x + a) * W = (x * W) + (a * W)
    OBVIOUS
  <2>5. PICK i \in Nat, j \in Nat : i = x * W /\ j = H * W
    OBVIOUS
  <2>6. j = i + q
    BY <1>3, <2>2, <2>4, <2>5
  <2>7. t = L + q /\ z = i + t
    BY <1>4, <2>2, <2>3, <2>5
  <2>8. QED
    BY <2>5, <2>6, <2>7
<1>7. H < W
  <2>1. SUFFICES ASSUME W <= H PROVE FALSE
    OBVIOUS
  <2>2. W * W <= W * H
    BY <2>1, ProductMonotonic
  <2>3. PICK i \in Nat, j \in Nat : i = W * W /\ j = H * W /\ j = W * H
    OBVIOUS
  <2>4. QED
    BY <1>6, <2>2, <2>3
<1>8. ((hi * N) + a) % W = H /\ (lo * N) % W = L
  <2>1. H \in 0..(W - 1) /\ H = H + (0 * W)
    BY <1>7
  <2>2. H % W = H
    BY <2>1, Wrapped
  <2>3. PICK t \in Nat : t = lo * N
    OBVIOUS
  <2>4. t % W = L
    BY <1>4, <1>5, <2>3, Wrapped
  <2>5. QED
    BY <1>3, <2>2, <2>3, <2>4
<1>9. softfloat_shortShift128Left(w, Pair(hi, lo), n) = Pair(H, L)
  <2>1. Pair(hi, lo).hi = hi /\ Pair(hi, lo).lo = lo
    BY DEF Pair
  <2>2. (hi * 2^n + lo \div 2^(w - n)) % 2^w = H /\ (lo * 2^n) % 2^w = L
    BY <1>1, <1>2, <1>8, Zenon
  <2>3. QED
    BY <2>1, <2>2, Zenon DEF softfloat_shortShift128Left
<1>10. PairOf(w, z) = Pair(H, L)
  <2>1. PICK x \in Nat : x = H * W
    OBVIOUS
  <2>2. Times(H, W, x) /\ z = x + L
    BY <1>6, <2>1 DEF Times
  <2>3. QED
    BY <1>5, <2>2, PairIs
<1>11. QED
  BY <1>9, <1>10

IsLeftShift(w, W, hi, lo, v, n, z) ==
  /\ w \in Nat /\ W \in Nat \ {0} /\ hi \in Nat /\ lo \in 0..(W - 1) /\ v \in Nat /\ n \in Nat /\ z \in Nat
  /\ W = 2^w /\ v = (hi * W) + lo /\ n <= w /\ z = v * 2^n /\ z < W * W
\* softfloat_shortShift128Left is a product by a power of two.
LEMMA ShiftsLeft ==
  ASSUME NEW w, NEW W, NEW hi, NEW lo, NEW v, NEW n, NEW z, IsLeftShift(w, W, hi, lo, v, n, z)
  PROVE  softfloat_shortShift128Left(w, Pair(hi, lo), n) = PairOf(w, z)
BY PairShiftsLeft DEF IsLeftShift

\* Jamming by a word and more: the lower word is only jammed in.
LEMMA JamHigh ==
  ASSUME NEW W \in Nat \ {0}, NEW hi \in Nat, NEW lo, NEW v, InWords(hi, W, lo, v),
         NEW K \in Nat \ {0}, NEW D, Times(W, K, D)
  PROVE  JamOf(v, D) = Jammed(hi \div K, hi % K # 0 \/ lo # 0)
<1>1. Jammed(JamOf(hi, K), lo # 0) = JamOf(v, D)
  BY JamWords
<1>2. PICK a \in Nat, r \in Nat : a = hi \div K /\ r = hi % K
  BY DivNat
<1>3. Jammed(Jammed(a, r # 0), lo # 0) = Jammed(a, r # 0 \/ lo # 0)
  BY DEF Jammed
<1>4. QED
  BY <1>1, <1>2, <1>3, Zenon DEF JamOf

\* A jamming shift to the right of a pair.
LEMMA PairShiftsJamming ==
  ASSUME NEW w \in Nat \ {0}, NEW W \in Nat \ {0}, W = 2^w, NEW hi \in 0..(W - 1), NEW lo \in 0..(W - 1),
         NEW v \in Nat, v = (hi * W) + lo, NEW k \in Nat \ {0}, NEW D, D = 2^k
  PROVE  softfloat_shift128RightJam(w, Pair(hi, lo), k) = PairOf(w, JamOf(v, D))
<1>1. W % 2 = 0
  <2>1. PICK j \in Nat : w = j + 1
    OBVIOUS
  <2>2. PICK J \in Nat : J = 2^j /\ 2^(j + 1) = 2 * J
    BY PowerNext, PowerPositive
  <2>3. W = 2 * J
    BY <2>1, <2>2
  <2>4. QED
    BY <2>3
<1>2. Pair(hi, lo).hi = hi /\ Pair(hi, lo).lo = lo
  BY DEF Pair
<1>3. CASE k < w
  <2>1. PICK K \in Nat \ {0}, M \in Nat \ {0} : K = 2^k /\ M = 2^(w - k) /\ 2^w = K * M
    BY <1>3, PowerParts
  <2>2. PICK a \in Nat, r \in 0..(K - 1) : a = hi \div K /\ r = hi % K /\ hi = (K * a) + r
    BY DivNat
  <2>3. PICK b \in Nat, t \in 0..(K - 1) : b = lo \div K /\ t = lo % K /\ lo = (K * b) + t
    BY DivNat
  <2>4. k % w = k
    <3>1. k \in 0..(w - 1) /\ k = k + (0 * w)
      BY <1>3
    <3>2. QED
      BY <3>1, Wrapped
  <2>5. PICK c \in Nat : c = (r * M) + b
    OBVIOUS
  <2>6. c \in 0..(W - 1)
    <3>1. b < M
      <4>1. SUFFICES ASSUME M <= b PROVE FALSE
        OBVIOUS
      <4>2. K * M <= K * b
        BY <4>1, ProductMonotonic
      <4>3. PICK x \in Nat : x = K * b
        OBVIOUS
      <4>4. QED
        BY <2>1, <2>3, <4>2, <4>3
    <3>2. M * r <= M * (K - 1)
      BY ProductMonotonic
    <3>3. M * r = r * M /\ M * (K - 1) = (K * M) - M
      OBVIOUS
    <3>4. PICK x \in Nat : x = r * M
      OBVIOUS
    <3>5. QED
      BY <2>1, <2>5, <3>1, <3>2, <3>3, <3>4
  <2>7. softfloat_shift128RightJam(w, Pair(hi, lo), k) = Pair(a, Jammed(c, t # 0))
    <3>1. k \in 1..(w - 1) /\ ~(k \in w..(2 * w - 1)) /\ ~(k >= 2 * w)
      BY <1>3
    <3>2. lo % 2^(k % w) = t /\ (hi % 2^(k % w)) * 2^(w - k) + lo \div 2^k = c /\ hi \div 2^k = a
      BY <2>1, <2>2, <2>3, <2>4, <2>5, Zenon
    <3>3. softfloat_shift128RightJam(w, Pair(hi, lo), k) =
            Pair(hi \div 2^k, Jammed((hi % 2^(k % w)) * 2^(w - k) + lo \div 2^k, lo % 2^(k % w) # 0))
      BY <1>2, <3>1, Zenon DEF softfloat_shift128RightJam
    <3>4. QED
      BY <3>2, <3>3, Zenon
  <2>8. PICK x \in Nat : x = a * W
    OBVIOUS
  <2>9. JamOf(v, D) = x + Jammed(c, t # 0)
    <3>1. PICK q \in Nat, z \in Nat : q = x + c /\ z = K * q
      OBVIOUS
    <3>2. v = z + t
      <4>1. (((K * a) + r) * (K * M)) + ((K * b) + t) = (K * ((a * (K * M)) + ((r * M) + b))) + t
        OBVIOUS
      <4>2. v = (((K * a) + r) * (K * M)) + ((K * b) + t)
        BY <2>1, <2>2, <2>3
      <4>3. z = K * ((a * (K * M)) + ((r * M) + b))
        BY <2>1, <2>5, <2>8, <3>1
      <4>4. QED
        BY <4>1, <4>2, <4>3
    <3>3. JamOf(v, K) = Jammed(q, t # 0)
      <4>1. Times(K, q, z)
        BY <3>1 DEF Times
      <4>2. QED
        BY <3>2, <4>1, JamIs
    <3>4. x % 2 = 0
      <4>1. PICK y \in Nat : W = 2 * y
        BY <1>1
      <4>2. a * (2 * y) = 2 * (a * y)
        OBVIOUS
      <4>3. PICK i \in Nat : i = a * y
        OBVIOUS
      <4>4. x = 2 * i
        BY <2>8, <4>1, <4>2, <4>3
      <4>5. QED
        BY <4>4
    <3>5. Jammed(x + c, t # 0) = x + Jammed(c, t # 0)
      BY <3>4, JammedPlus
    <3>6. QED
      BY <2>1, <3>1, <3>3, <3>5, Zenon
  <2>10. PICK j \in 0..(W - 1) : j = Jammed(c, t # 0)
    BY <1>1, <2>6, JammedBelow
  <2>11. PairOf(w, JamOf(v, D)) = Pair(a, j)
    <3>1. PICK z \in Nat : z = JamOf(v, D) /\ z = x + j /\ Times(a, W, x)
      BY <2>8, <2>9, <2>10 DEF Times
    <3>2. PairOf(w, z) = Pair(a, j)
      BY <3>1, PairIs
    <3>3. QED
      BY <3>1, <3>2, Zenon
  <2>12. QED
    BY <2>7, <2>10, <2>11, Zenon
<1>4. CASE w <= k /\ k < 2 * w
  <2>1. PICK i \in Nat : i = k - w /\ k = w + i /\ i < w
    BY <1>4
  <2>2. PICK K \in Nat \ {0} : K = 2^i
    BY PowerPositive
  <2>3. D = W * K
    <3>1. 2^(w + i) = 2^w * 2^i
      BY PowerSum
    <3>2. QED
      BY <2>1, <2>2, <3>1, Zenon
  <2>4. k % w = i
    <3>1. i \in 0..(w - 1) /\ k = i + (1 * w)
      BY <2>1
    <3>2. QED
      BY <3>1, Wrapped
  <2>5. PICK a \in Nat, r \in 0..(K - 1) : a = hi \div K /\ r = hi % K /\ hi = (K * a) + r
    BY DivNat
  <2>6. softfloat_shift128RightJam(w, Pair(hi, lo), k) = Pair(0, Jammed(a, r # 0 \/ lo # 0))
    <3>1. k \in w..(2 * w - 1) /\ ~(k \in 1..(w - 1)) /\ ~(k >= 2 * w)
      BY <1>4
    <3>2. hi % 2^(k % w) = r /\ hi \div 2^(k - w) = a
      BY <2>1, <2>2, <2>4, <2>5, Zenon
    <3>3. softfloat_shift128RightJam(w, Pair(hi, lo), k) =
            Pair(0, Jammed(hi \div 2^(k - w), hi % 2^(k % w) # 0 \/ lo # 0))
      BY <1>2, <3>1, Zenon DEF softfloat_shift128RightJam
    <3>4. QED
      BY <3>2, <3>3, Zenon
  <2>7. JamOf(v, D) = Jammed(a, r # 0 \/ lo # 0)
    <3>1. InWords(hi, W, lo, v) /\ Times(W, K, D) /\ hi \in Nat
      BY <2>3 DEF InWords, Times
    <3>2. JamOf(v, D) = Jammed(hi \div K, hi % K # 0 \/ lo # 0)
      BY <3>1, JamHigh
    <3>3. QED
      BY <2>5, <3>2, Zenon
  <2>8. a \in 0..(W - 1)
    <3>1. 1 * a <= K * a
      <4>1. a * 1 <= a * K
        BY ProductMonotonic
      <4>2. a * 1 = 1 * a /\ a * K = K * a
        OBVIOUS
      <4>3. QED
        BY <4>1, <4>2
    <3>2. PICK x \in Nat : x = K * a
      OBVIOUS
    <3>3. QED
      BY <2>5, <3>1, <3>2
  <2>9. PICK j \in 0..(W - 1) : j = Jammed(a, r # 0 \/ lo # 0)
    BY <1>1, <2>8, JammedBelow
  <2>10. PairOf(w, JamOf(v, D)) = Pair(0, j)
    <3>1. JamOf(v, D) = j /\ j = 0 + j /\ Times(0, W, 0)
      BY <2>7, <2>9 DEF Times
    <3>2. 0 \in Nat /\ j \in Nat
      OBVIOUS
    <3>3. PairOf(w, j) = Pair(0, j)
      BY <3>1, <3>2, PairIs
    <3>4. QED
      BY <3>1, <3>3, Zenon
  <2>11. QED
    BY <2>6, <2>9, <2>10, Zenon
<1>5. CASE k >= 2 * w
  <2>1. v < W * W
    <3>1. W * hi <= W * (W - 1)
      BY ProductMonotonic
    <3>2. PICK x \in Nat, z \in Nat : x = hi * W /\ z = W * W
      OBVIOUS
    <3>3. W * hi = x /\ W * (W - 1) = z - W
      BY <3>2
    <3>4. QED
      BY <3>1, <3>2, <3>3
  <2>2. W * W <= D /\ D \in Nat \ {0}
    <3>1. PICK i \in Nat : i = w + w /\ i <= k
      BY <1>5
    <3>2. 2^(w + w) = 2^w * 2^w
      BY PowerSum
    <3>3. 2^i <= 2^k
      BY <3>1, PowerLess
    <3>4. 2^i = W * W
      BY <3>1, <3>2, Zenon
    <3>5. D \in Nat \ {0}
      BY PowerPositive
    <3>6. QED
      BY <3>3, <3>4, <3>5
  <2>3. JamOf(v, D) = Jammed(0, v # 0)
    <3>1. v \in 0..(D - 1) /\ Times(D, 0, 0) /\ v = 0 + v
      <4>1. PICK z \in Nat : z = W * W
        OBVIOUS
      <4>2. v \in 0..(D - 1)
        BY <2>1, <2>2, <4>1
      <4>3. D * 0 = 0
        BY <2>2
      <4>4. QED
        BY <4>2, <4>3 DEF Times
    <3>2. 0 \in Nat
      OBVIOUS
    <3>3. QED
      BY <2>2, <3>1, <3>2, JamIs
  <2>4. v # 0 <=> hi # 0 \/ lo # 0
    <3>1. hi # 0 => hi * W > 0
      OBVIOUS
    <3>2. hi = 0 => hi * W = 0
      OBVIOUS
    <3>3. PICK x \in Nat : x = hi * W
      OBVIOUS
    <3>4. QED
      BY <3>1, <3>2, <3>3
  <2>5. PICK j \in 0..1 : j = Bit(hi # 0 \/ lo # 0) /\ j = Jammed(0, v # 0)
    BY <2>4 DEF Bit, Jammed
  <2>6. softfloat_shift128RightJam(w, Pair(hi, lo), k) = Pair(0, j)
    <3>1. ~(k \in 1..(w - 1)) /\ ~(k \in w..(2 * w - 1))
      BY <1>5
    <3>2. QED
      BY <1>2, <1>5, <2>5, <3>1, Zenon DEF softfloat_shift128RightJam
  <2>7. PairOf(w, JamOf(v, D)) = Pair(0, j)
    <3>1. JamOf(v, D) = j /\ j = 0 + j /\ j \in 0..(W - 1) /\ Times(0, W, 0)
      BY <1>1, <2>3, <2>5 DEF Times
    <3>2. 0 \in Nat /\ j \in Nat
      OBVIOUS
    <3>3. PairOf(w, j) = Pair(0, j)
      BY <3>1, <3>2, PairIs
    <3>4. QED
      BY <3>1, <3>3, Zenon
  <2>8. QED
    BY <2>6, <2>7
<1>6. QED
  BY <1>3, <1>4, <1>5

IsRightShift(w, W, hi, lo, v, k, D) ==
  /\ w \in Nat \ {0} /\ W \in Nat \ {0} /\ hi \in 0..(W - 1) /\ lo \in 0..(W - 1) /\ v \in Nat /\ k \in Nat \ {0}
  /\ W = 2^w /\ v = (hi * W) + lo /\ D = 2^k
\* softfloat_shift128RightJam jams the value of the pair.
LEMMA ShiftsJamming ==
  ASSUME NEW w, NEW W, NEW hi, NEW lo, NEW v, NEW k, NEW D, IsRightShift(w, W, hi, lo, v, k, D)
  PROVE  softfloat_shift128RightJam(w, Pair(hi, lo), k) = PairOf(w, JamOf(v, D))
BY PairShiftsJamming DEF IsRightShift

\* There is one leading bit.
LEMMA LeadingUnique ==
  ASSUME NEW a \in Nat, NEW k \in Nat, 2^k <= a, a < 2 * 2^k, NEW m \in Nat, 2^m <= a, a < 2 * 2^m
  PROVE  k = m
<1>1. PICK K \in Nat, M \in Nat : K = 2^k /\ M = 2^m
  BY PowerPositive
<1>2. k < m => 2 * K <= M
  BY <1>1, PowerLess
<1>3. m < k => 2 * M <= K
  BY <1>1, PowerLess
<1>4. QED
  BY <1>1, <1>2, <1>3

\* The leading zeros of a word, from the place of its first one.
LEMMA ZerosAre ==
  ASSUME NEW w \in Nat, NEW a \in Nat \ {0}, a < 2^w, NEW k \in Nat, 2^k <= a, a < 2 * 2^k
  PROVE  softfloat_countLeadingZeros64(w, a) = w - k - 1
<1>1. PICK n \in 0..(w - 1), m \in Nat :
         softfloat_countLeadingZeros32(w, a) = n /\ w = n + m + 1 /\ 2^m <= a /\ a < 2 * 2^m
  BY LeadingZeros
<1>2. k = m
  <2>1. a \in Nat
    OBVIOUS
  <2>2. QED
    BY <1>1, <2>1, LeadingUnique
<1>3. n = w - k - 1
  BY <1>1, <1>2
<1>4. QED
  BY <1>1, <1>3 DEF softfloat_countLeadingZeros64

\* A pair of words jammed into the upper one.
LEMMA JoinedIs ==
  ASSUME NEW w, NEW v
  PROVE  Joined(PairOf(w, v)) = JamOf(v, 2^w)
BY DEF Joined, PairOf, Pair, JamOf

\* The leading zeros of two words.
LEMMA ZerosHigh ==
  ASSUME NEW w \in Nat, NEW W \in Nat \ {0}, W = 2^w, 2^(2 * w) = W * W, NEW hi \in 1..(W - 1), NEW lo, NEW s \in Nat \ {0}, InWords(hi, W, lo, s)
  PROVE  softfloat_countLeadingZeros64(2 * w, s) = softfloat_countLeadingZeros64(w, hi)
<1>1. hi \in Nat \ {0} /\ hi < 2^w
  OBVIOUS
<1>2. PICK n \in 0..(w - 1), k \in Nat :
         softfloat_countLeadingZeros32(w, hi) = n /\ w = n + k + 1 /\ 2^k <= hi /\ hi < 2 * 2^k
  BY <1>1, LeadingZeros
<1>3. PICK K \in Nat \ {0} : K = 2^k
  BY PowerPositive
<1>4. PICK m \in Nat : m = k + w
  OBVIOUS
<1>5. 2^m = K * W
  BY <1>3, <1>4, PowerSum
<1>6. PICK x \in Nat, z \in Nat : x = hi * W /\ z = K * W
  OBVIOUS
<1>7. lo \in 0..(W - 1) /\ s = x + lo
  BY <1>6 DEF InWords
<1>8. z <= x /\ x <= (2 * z) - W
  <2>1. W * K <= W * hi /\ W * hi <= W * ((2 * K) - 1)
    <3>1. K <= hi /\ hi <= (2 * K) - 1
      BY <1>2, <1>3
    <3>2. QED
      BY <3>1, ProductMonotonic
  <2>2. W * K = K * W /\ W * hi = hi * W /\ W * ((2 * K) - 1) = (2 * (K * W)) - W
    OBVIOUS
  <2>3. QED
    BY <1>6, <2>1, <2>2
<1>9. 2^m <= s /\ s < 2 * 2^m
  BY <1>5, <1>6, <1>7, <1>8
<1>10. s < 2^(2 * w)
  <2>1. W * hi <= W * (W - 1)
    BY ProductMonotonic
  <2>2. PICK q \in Nat : q = W * W
    OBVIOUS
  <2>3. W * hi = x /\ W * (W - 1) = q - W
    BY <1>6, <2>2
  <2>4. QED
    BY <1>7, <2>1, <2>2, <2>3
<1>11. softfloat_countLeadingZeros64(2 * w, s) = 2 * w - m - 1
  <2>1. 2 * w \in Nat
    OBVIOUS
  <2>2. QED
    BY <1>9, <1>10, <2>1, ZerosAre
<1>12. QED
  BY <1>2, <1>4, <1>11 DEF softfloat_countLeadingZeros64

\* A number of one word has a word of leading zeros more when it is counted in two.
LEMMA ZerosLow ==
  ASSUME NEW w \in Nat, NEW W \in Nat \ {0}, W = 2^w, 2^(2 * w) = W * W, NEW s \in 1..(W - 1)
  PROVE  softfloat_countLeadingZeros64(2 * w, s) = w + softfloat_countLeadingZeros64(w, s)
<1>1. s \in Nat \ {0} /\ s < 2^w
  OBVIOUS
<1>2. PICK n \in 0..(w - 1), k \in Nat :
         softfloat_countLeadingZeros32(w, s) = n /\ w = n + k + 1 /\ 2^k <= s /\ s < 2 * 2^k
  BY <1>1, LeadingZeros
<1>3. s < 2^(2 * w)
  <2>1. W * 1 <= W * W
    BY ProductMonotonic
  <2>2. PICK q \in Nat : q = W * W
    OBVIOUS
  <2>3. QED
    BY <2>1, <2>2
<1>4. softfloat_countLeadingZeros64(2 * w, s) = 2 * w - k - 1
  <2>1. 2 * w \in Nat
    OBVIOUS
  <2>2. QED
    BY <1>1, <1>2, <1>3, <2>1, ZerosAre
<1>5. QED
  BY <1>2, <1>4 DEF softfloat_countLeadingZeros64

\* The rounding of a difference of two pairs is that of its value.
LEMMA DifferenceWords ==
  ASSUME NEW f, NEW sign, NEW mode, NEW y \in Nat \ {0}, NEW W \in Nat \ {0}, IsWordOf(f, y, W),
         NEW e \in Int, NEW s \in Nat \ {0}, IsBelow(s, y, W)
  PROVE  RoundDifferenceF64(f, sign, e, PairOf(word(f), s), mode) = RoundDifferenceF32(f, sign, e, s, mode)
<1>1. PICK w \in Nat : w = word(f) /\ 2^w = W /\ W = 8 * y /\ w >= 6 /\ 2^(2 * w) = W * W
  BY DEF IsWordOf
<1>2. PICK j \in Nat : LeadsAt(s, y, w, j)
  BY <1>1, DifferenceLeads
<1>3. /\ softfloat_countLeadingZeros64(2 * w, s) - 1 = j
      /\ \A i \in Nat : w = j + i => 2^i * (2 * y) <= s /\ s < 2^i * (4 * y)
      /\ \A i \in Nat : j = w + i => s * 2^i \in Nat /\ 2 * y <= s * 2^i /\ s * 2^i < 4 * y
  BY <1>2 DEF LeadsAt
<1>4. RoundDifferenceF32(f, sign, e, s, mode) =
        softfloat_roundPackToF32(f, sign, e - j,
          IF j < w THEN softfloat_shortShift64RightJam(s, w - j) ELSE (s * 2^(j - w)) % 2^w, mode)
  BY <1>1, <1>3, Zenon DEF RoundDifferenceF32
<1>5. PICK hi \in Nat, lo \in 0..(W - 1) : hi = s \div W /\ lo = s % W /\ s = (W * hi) + lo
  BY DivNat
<1>6. PairOf(w, s) = Pair(hi, lo) /\ Pair(hi, lo).hi = hi /\ Pair(hi, lo).lo = lo
  BY <1>1, <1>5, Zenon DEF PairOf, Pair
<1>7. hi < W /\ s < W * (4 * y)
  <2>1. s < W * (4 * y)
    BY DEF IsBelow
  <2>2. PICK q \in Nat, x \in Nat : q = W * y /\ x = W * hi
    OBVIOUS
  <2>3. W * (4 * y) = 4 * q /\ W * W = 8 * q
    BY <1>1, <2>2
  <2>4. W <= hi => W * W <= x
    BY <2>2, ProductMonotonic
  <2>5. QED
    BY <1>5, <2>1, <2>2, <2>3, <2>4
<1>8. CASE hi # 0
  <2>1. softfloat_countLeadingZeros64(w, hi) - 1 = j
    <3>1. InWords(hi, W, lo, s) /\ hi \in 1..(W - 1)
      <4>1. W * hi = hi * W
        OBVIOUS
      <4>2. QED
        BY <1>5, <1>7, <1>8, <4>1 DEF InWords
    <3>2. softfloat_countLeadingZeros64(2 * w, s) = softfloat_countLeadingZeros64(w, hi)
      BY <1>1, <3>1, ZerosHigh
    <3>3. QED
      BY <1>3, <3>2, Zenon
  <2>2. j < w
    <3>1. SUFFICES ASSUME w <= j PROVE FALSE
      OBVIOUS
    <3>2. PICK i \in Nat : j = w + i
      BY <3>1
    <3>3. PICK D \in Nat \ {0} : D = 2^i
      BY PowerPositive
    <3>4. s * D < 4 * y
      BY <1>3, <3>2, <3>3
    <3>5. W * 1 <= W * hi /\ s * 1 <= s * D
      BY <1>8, ProductMonotonic
    <3>6. PICK x \in Nat, z \in Nat : x = W * hi /\ z = s * D
      OBVIOUS
    <3>7. QED
      BY <1>1, <1>5, <3>4, <3>5, <3>6
  <2>3. PICK i \in Nat : w = j + i /\ i = w - j
    BY <2>2
  <2>4. PICK J \in Nat \ {0}, I \in Nat \ {0} : J = 2^j /\ I = 2^i /\ W = J * I
    <3>1. 2^(j + i) = 2^j * 2^i
      BY PowerSum
    <3>2. QED
      BY <1>1, <2>3, <3>1, PowerPositive
  <2>5. PICK z \in Nat : z = s * J
    OBVIOUS
  <2>6. z < W * W
    <3>1. s < I * (4 * y)
      BY <1>3, <2>3, <2>4
    <3>2. PICK t \in Nat : t = I * (4 * y)
      OBVIOUS
    <3>3. J * s < J * t
      <4>1. J * s <= J * (t - 1)
        BY <3>1, <3>2, ProductMonotonic
      <4>2. J * (t - 1) = (J * t) - J
        OBVIOUS
      <4>3. PICK p \in Nat, q \in Nat : p = J * s /\ q = J * t
        OBVIOUS
      <4>4. QED
        BY <4>1, <4>2, <4>3
    <3>4. J * t = W * (4 * y)
      <4>1. J * (I * (4 * y)) = (J * I) * (4 * y)
        OBVIOUS
      <4>2. QED
        BY <2>4, <3>2, <4>1
    <3>5. W * (4 * y) <= W * W
      <4>1. 4 * y <= W
        BY <1>1
      <4>2. QED
        BY <4>1, ProductMonotonic
    <3>6. J * s = z
      BY <2>5
    <3>7. PICK p \in Nat, q \in Nat : p = W * (4 * y) /\ q = W * W
      OBVIOUS
    <3>8. QED
      BY <3>3, <3>4, <3>5, <3>6, <3>7
  <2>7. softfloat_shortShift128Left(w, Pair(hi, lo), j) = PairOf(w, z)
    <3>1. s = (hi * W) + lo
      <4>1. W * hi = hi * W
        OBVIOUS
      <4>2. QED
        BY <1>5, <4>1
    <3>2. j <= w /\ z = s * 2^j /\ s \in Nat
      BY <2>2, <2>4, <2>5
    <3>3. W = 2^w
      BY <1>1
    <3>4. IsLeftShift(w, W, hi, lo, s, j, z)
      BY <2>6, <3>1, <3>2, <3>3 DEF IsLeftShift
    <3>5. QED
      BY <3>4, ShiftsLeft
  <2>8. JamOf(z, W) = JamOf(s, I)
    <3>1. JamOf(s * J, I * J) = JamOf(s, I)
      BY JamScaled
    <3>2. I * J = W
      BY <2>4
    <3>3. QED
      BY <2>5, <3>1, <3>2, Zenon
  <2>9. RoundDifferenceF64(f, sign, e, PairOf(w, s), mode) = softfloat_roundPackToF32(f, sign, e - j, JamOf(s, I), mode)
    <3>1. ~(j < 0)
      OBVIOUS
    <3>2. RoundDifferenceF64(f, sign, e, Pair(hi, lo), mode) = RoundShifted(f, sign, e, Pair(hi, lo), mode)
      BY <1>6, <1>8, Zenon DEF RoundDifferenceF64
    <3>3. RoundShifted(f, sign, e, Pair(hi, lo), mode) =
            softfloat_roundPackToF64(f, sign, e - j, Joined(softfloat_shortShift128Left(w, Pair(hi, lo), j)), mode)
      BY <1>1, <1>6, <2>1, <3>1, Zenon DEF RoundShifted
    <3>4. Joined(PairOf(w, z)) = JamOf(z, W)
      BY <1>1, JoinedIs
    <3>5. QED
      BY <1>6, <2>7, <2>8, <3>2, <3>3, <3>4, Zenon DEF softfloat_roundPackToF64
  <2>10. softfloat_shortShift64RightJam(s, w - j) = JamOf(s, I)
    BY <2>3, <2>4, Zenon DEF softfloat_shortShift64RightJam, JamOf
  <2>11. QED
    BY <1>1, <1>4, <2>2, <2>9, <2>10, Zenon
<1>9. CASE hi = 0
  <2>1. s = lo /\ s \in 1..(W - 1)
    <3>1. W * 0 = 0
      OBVIOUS
    <3>2. s = lo
      BY <1>5, <1>9, <3>1
    <3>3. QED
      BY <3>2
  <2>2. softfloat_countLeadingZeros64(2 * w, s) = w + softfloat_countLeadingZeros64(w, s)
    BY <1>1, <2>1, ZerosLow
  <2>3. PICK n \in 0..(w - 1) : softfloat_countLeadingZeros64(w, s) = n
    <3>1. s < 2^w
      BY <1>1, <2>1
    <3>2. QED
      BY <3>1, LeadingZeros DEF softfloat_countLeadingZeros64
  <2>4. PICK k \in Int : k = n - 1 /\ j = w + k /\ j - w = k
    BY <1>3, <2>2, <2>3
  <2>5. PICK l \in Int : l = e - w /\ l - k = e - j
    BY <2>4
  <2>6. RoundDifferenceF64(f, sign, e, PairOf(w, s), mode) = RoundShifted(f, sign, l, Pair(s, 0), mode)
    BY <1>1, <1>6, <1>9, <2>1, <2>5, Zenon DEF RoundDifferenceF64
  <2>7. Pair(s, 0).hi = s /\ Pair(s, 0).lo = 0
    BY DEF Pair
  <2>8. RoundShifted(f, sign, l, Pair(s, 0), mode) =
          softfloat_roundPackToF32(f, sign, e - j,
            Joined(IF k < 0 THEN Pair(softfloat_shortShift64RightJam(s, -k), 0)
                            ELSE softfloat_shortShift128Left(w, Pair(s, 0), k)), mode)
    BY <1>1, <2>3, <2>4, <2>5, <2>7, Zenon DEF RoundShifted, softfloat_roundPackToF64
  <2>9. \A x : Joined(Pair(x, 0)) = x
    BY DEF Joined, Pair, Jammed
  <2>10. CASE k < 0
    <3>1. k = -1 /\ -k = 1 /\ w - j = 1 /\ j < w
      BY <2>3, <2>4, <2>10
    <3>2. Joined(Pair(softfloat_shortShift64RightJam(s, -k), 0)) = softfloat_shortShift64RightJam(s, w - j)
      BY <2>9, <3>1, Zenon
    <3>3. QED
      BY <1>1, <1>4, <2>6, <2>8, <2>10, <3>1, <3>2, Zenon
  <2>11. CASE ~(k < 0)
    <3>1. k \in Nat /\ ~(j < w) /\ k <= w
      BY <2>3, <2>4, <2>11
    <3>2. PICK D \in Nat \ {0} : D = 2^k
      BY <3>1, PowerPositive
    <3>3. PICK t \in Nat : t = s * D /\ t < 4 * y
      <4>1. s * D \in Nat
        OBVIOUS
      <4>2. s * 2^k < 4 * y
        BY <1>3, <2>4, <3>1
      <4>3. QED
        BY <3>2, <4>1, <4>2
    <3>4. t \in 0..(W - 1)
      BY <1>1, <3>3
    <3>5. (s * 2^(j - w)) % 2^w = t
      <4>1. t = t + (0 * W) /\ t \in Int /\ 0 \in Int
        OBVIOUS
      <4>2. t % W = t
        BY <3>4, <4>1, Wrapped
      <4>3. QED
        BY <1>1, <2>4, <3>2, <3>3, <4>2, Zenon
    <3>6. softfloat_shortShift128Left(w, Pair(s, 0), k) = Pair(t, 0)
      <4>1. PICK z \in Nat, v \in Nat : z = t * W /\ v = s * W
        OBVIOUS
      <4>2. z = v * 2^k
        <5>1. (s * D) * W = (s * W) * D
          OBVIOUS
        <5>2. QED
          BY <3>2, <3>3, <4>1, <5>1
      <4>3. z < W * W
        <5>1. W * t <= W * (W - 1)
          BY <3>4, ProductMonotonic
        <5>2. PICK q \in Nat : q = W * W
          OBVIOUS
        <5>3. W * t = z /\ W * (W - 1) = q - W
          BY <4>1, <5>2
        <5>4. QED
          BY <5>1, <5>2, <5>3
      <4>4. softfloat_shortShift128Left(w, Pair(s, 0), k) = PairOf(w, z)
        <5>1. v = (s * W) + 0 /\ 0 \in 0..(W - 1) /\ W = 2^w /\ s \in Nat /\ 0 \in Nat
          BY <1>1, <4>1
        <5>2. IsLeftShift(w, W, s, 0, v, k, z)
          BY <3>1, <4>2, <4>3, <5>1 DEF IsLeftShift
        <5>3. QED
          BY <5>2, ShiftsLeft
      <4>5. PairOf(w, z) = Pair(t, 0)
        <5>1. Times(t, W, z) /\ z = z + 0 /\ 0 \in 0..(W - 1) /\ W = 2^w
          BY <1>1, <4>1 DEF Times
        <5>2. QED
          BY <5>1, PairIs
      <4>6. QED
        BY <4>4, <4>5, Zenon
    <3>7. Joined(Pair(t, 0)) = t
      BY <2>9
    <3>8. QED
      BY <1>1, <1>4, <2>6, <2>8, <2>11, <3>1, <3>5, <3>6, <3>7, Zenon
  <2>12. QED
    BY <2>10, <2>11
<1>10. QED
  BY <1>8, <1>9

-----------------------------------------------------------------------------
(* The sums and differences of pairs of words.                             *)

\* A value below that of two words, as a pair of them.
IsWordPair(w, W, v, hi, lo) ==
  /\ PairOf(w, v) = Pair(hi, lo) /\ Pair(hi, lo).hi = hi /\ Pair(hi, lo).lo = lo /\ v = (hi * W) + lo
  /\ IsPair(w, PairOf(w, v)) /\ Value(w, PairOf(w, v)) = v

\* A number of two words is a pair of words.
LEMMA WordPair ==
  ASSUME NEW w \in Nat, WordLaws(w), NEW W \in Nat \ {0}, W = 2^w, NEW v \in Nat, v < W * W
  PROVE  \E hi \in 0..(W - 1), lo \in 0..(W - 1) : IsWordPair(w, W, v, hi, lo)
<1>1. PICK q \in Nat : q = W * W /\ Double(w) = q /\ v \in 0..(q - 1)
  <2>1. PICK q \in Nat : q = W * W
    OBVIOUS
  <2>2. QED
    BY <2>1 DEF Double
<1>2. IsPair(w, PairOf(w, v)) /\ Value(w, PairOf(w, v)) = v
  BY <1>1, PairValue
<1>3. PICK hi \in 0..(W - 1), lo \in 0..(W - 1) : PairOf(w, v) = Pair(hi, lo)
  BY <1>2 DEF IsPair
<1>4. Pair(hi, lo).hi = hi /\ Pair(hi, lo).lo = lo
  BY DEF Pair
<1>5. v = (hi * W) + lo
  BY <1>2, <1>3, <1>4, Zenon DEF Value
<1>6. QED
  BY <1>2, <1>3, <1>4, <1>5 DEF IsWordPair

\* The product of f64 is that of f32, in a pair of words.
LEMMA ProductWords ==
  ASSUME NEW f, IsFormat(f), NEW h \in Nat \ {0}, NEW u \in Nat \ {0}, NEW b \in Nat, Sizes(f, h, u, b), WordLaws(word(f)),
         NEW y \in Nat \ {0}, NEW W \in Nat \ {0}, Times(h, u, y), IsWordOf(f, y, W),
         NEW sA \in h..((2 * h) - 1), NEW kA \in Int, NEW sB \in h..((2 * h) - 1), NEW kB \in Int,
         NEW p, p = ProductF32(f, [exp |-> kA, sig |-> sA], [exp |-> kB, sig |-> sB])
  PROVE  ProductF64(f, [exp |-> kA, sig |-> sA], [exp |-> kB, sig |-> sB]) = [exp |-> p.exp, sig |-> PairOf(word(f), p.sig)]
<1>1. PICK A \in Nat \ {0}, P \in Nat : AreFactors(f, sA, sB, y, W, A, P)
  BY FactorsMultiplied
<1>2. PICK w \in Nat : w = word(f) /\ 2^w = W /\ W = 8 * y /\ w >= 6 /\ 2^(f.F + f.G - 1) = y
  BY DEF IsWordOf
<1>3. PICK WW \in Nat : WW = W * W /\ WW = 8 * A
  <2>1. A = y * W
    BY <1>1 DEF AreFactors
  <2>2. W * W = 8 * (y * W)
    BY <1>2
  <2>3. PICK WW \in Nat : WW = W * W
    OBVIOUS
  <2>4. QED
    BY <2>1, <2>2, <2>3
<1>4. P < 2 * A /\ A = y * W
  BY <1>1 DEF AreFactors
<1>5. PICK hi \in 0..(W - 1), lo \in 0..(W - 1) : IsWordPair(w, W, P, hi, lo)
  <2>1. P < W * W
    BY <1>3, <1>4
  <2>2. WordLaws(w)
    BY <1>2
  <2>3. QED
    BY <1>2, <2>1, <2>2, WordPair
<1>6. softfloat_mul64To128(w, sA * 2^f.G, sB * 2^f.G) = PairOf(w, P)
  <2>1. PICK a \in 0..(2^w - 1) : a = sA * 2^f.G
    BY <1>2, FactorsFit
  <2>2. PICK c \in 0..(2^w - 1) : c = sB * 2^f.G
    BY <1>2, FactorsFit
  <2>3. P = a * c
    BY <1>1, <2>1, <2>2, Zenon DEF AreFactors
  <2>4. IsPair(w, softfloat_mul64To128(w, a, c)) /\ Value(w, softfloat_mul64To128(w, a, c)) = P
    BY <1>2, <2>3, Mul64To128
  <2>5. softfloat_mul64To128(w, a, c) = PairOf(w, P)
    BY <1>2, <2>4, PairValue
  <2>6. QED
    BY <2>1, <2>2, <2>5, Zenon
<1>7. hi < y <=> P < A
  <2>1. P = (hi * W) + lo
    BY <1>5 DEF IsWordPair
  <2>2. hi < y => W * hi <= W * (y - 1)
    BY ProductMonotonic
  <2>3. y <= hi => W * y <= W * hi
    BY ProductMonotonic
  <2>4. PICK x \in Nat : x = hi * W
    OBVIOUS
  <2>5. W * hi = x /\ W * y = A /\ W * (y - 1) = A - W
    BY <1>4, <2>4
  <2>6. QED
    BY <2>1, <2>2, <2>3, <2>4, <2>5
<1>8. PICK e \in Int : e = kA + kB - (bias(f) - 1)
  BY DEF Sizes
<1>9. p = Scaled(e, P, A)
  <2>1. P = (sA * 2^f.G) * (sB * 2^f.G) /\ 2^(2 * (f.F + f.G) + 1) = A
    BY <1>1 DEF AreFactors
  <2>2. QED
    BY <1>8, <2>1, Zenon DEF ProductF32
<1>10. ProductF64(f, [exp |-> kA, sig |-> sA], [exp |-> kB, sig |-> sB]) =
         IF hi < y THEN [exp |-> e - 1, sig |-> softfloat_shortShift128Left(w, Pair(hi, lo), 1)]
                   ELSE [exp |-> e, sig |-> Pair(hi, lo)]
  <2>1. softfloat_mul64To128(w, sA * 2^f.G, sB * 2^f.G) = Pair(hi, lo) /\ Pair(hi, lo).hi = hi
    BY <1>5, <1>6 DEF IsWordPair
  <2>2. QED
    BY <1>2, <1>8, <2>1, Zenon DEF ProductF64
<1>11. CASE P < A
  <2>1. PICK z \in Nat : z = 2 * P /\ z = P * 2
    OBVIOUS
  <2>2. p = [exp |-> e - 1, sig |-> z]
    BY <1>9, <1>11, <2>1 DEF Scaled
  <2>3. softfloat_shortShift128Left(w, Pair(hi, lo), 1) = PairOf(w, z)
    <3>1. P = (hi * W) + lo
      BY <1>5 DEF IsWordPair
    <3>2. PICK n \in Nat : n = 1
      OBVIOUS
    <3>3. n = 1 /\ n <= w /\ n \in Nat
      BY <1>2, <3>2
    <3>4. z = P * 2^n
      BY <2>1, <3>2, PowerOne, Zenon
    <3>5. z < W * W
      BY <1>3, <1>4, <1>11, <2>1
    <3>6. W = 2^w /\ hi \in Nat /\ lo \in 0..(W - 1) /\ lo \in Nat /\ w \in Nat /\ P \in Nat /\ z \in Nat
      BY <1>2
    <3>7. softfloat_shortShift128Left(w, Pair(hi, lo), n) = PairOf(w, z)
      <4>1. IsLeftShift(w, W, hi, lo, P, n, z)
        BY <3>1, <3>3, <3>4, <3>5, <3>6 DEF IsLeftShift
      <4>2. QED
        BY <4>1, ShiftsLeft
    <3>8. QED
      BY <3>3, <3>7
  <2>4. QED
    BY <1>2, <1>7, <1>10, <1>11, <2>2, <2>3
<1>12. CASE ~(P < A)
  <2>1. p = [exp |-> e, sig |-> P]
    BY <1>9, <1>12 DEF Scaled
  <2>2. PairOf(w, P) = Pair(hi, lo)
    BY <1>5 DEF IsWordPair
  <2>3. QED
    BY <1>2, <1>7, <1>10, <1>12, <2>1, <2>2
<1>13. QED
  BY <1>11, <1>12

\* The sum of f64 is that of f32.
LEMMA PlusWords ==
  ASSUME NEW f, WordLaws(word(f)), NEW sign, NEW mode, NEW y \in Nat \ {0}, NEW W \in Nat \ {0},
         NEW p, NEW P \in Nat, NEW eP \in Int, NEW c, NEW s \in Nat, s % 2 = 0, NEW eC \in Int, NEW S \in Nat, NEW d \in Int,
         AreAdded(f, y, W, p, eP, P, c, eC, s, S, d), NEW q, q.exp = eP, q.sig = PairOf(word(f), P)
  PROVE  PlusF64(f, sign, q, c, mode) = PlusOf(f, sign, d, eP, eC, P, s, mode)
<1>1. IsWordOf(f, y, W) /\ IsWide2(P, y, W) /\ IsWide2(S, y, W)
  BY DEF AreAdded
<1>2. PICK w \in Nat : w = word(f) /\ 2^w = W /\ W = 8 * y /\ w >= 6 /\ WordLaws(w)
  BY <1>1 DEF IsWordOf
<1>3. d = eP - eC /\ c.exp = eC /\ c.sig = s
  BY DEF AreAdded
<1>4. S = s * W
  BY DEF AreAdded
<1>5. PICK A \in Nat \ {0}, WW \in Nat \ {0} : WW = W * W /\ WW = 8 * A /\ A <= P /\ P < 2 * A /\ A = y * W
  BY <1>1, WideFits
<1>6. A <= S /\ S < 2 * A
  BY <1>1, <1>5 DEF IsWide2
<1>7. PICK hi \in 0..(W - 1), lo \in 0..(W - 1) : IsWordPair(w, W, P, hi, lo)
  <2>1. P < W * W
    BY <1>5
  <2>2. QED
    BY <1>2, <2>1, WordPair
<1>8. PairOf(w, P) = Pair(hi, lo) /\ Pair(hi, lo).hi = hi /\ Pair(hi, lo).lo = lo /\ P = (hi * W) + lo
      /\ IsPair(w, PairOf(w, P)) /\ Value(w, PairOf(w, P)) = P
  BY <1>7 DEF IsWordPair
<1>9. q.sig = Pair(hi, lo) /\ q.sig.hi = hi /\ q.sig.lo = lo
  BY <1>2, <1>8
<1>10. s \in 0..(W - 1)
  <2>1. SUFFICES ASSUME W <= s PROVE FALSE
    OBVIOUS
  <2>2. W * W <= W * s
    BY <2>1, ProductMonotonic
  <2>3. W * s = s * W
    OBVIOUS
  <2>4. QED
    BY <1>4, <1>5, <1>6, <2>2, <2>3
<1>11. PlusF64(f, sign, q, c, mode) =
         RoundSum(f, sign, IF d <= 0 THEN eC ELSE eP,
                  Joined(IF d <= 0 THEN Pair(s + (IF d < 0 THEN softfloat_shift64RightJam(w, hi, -d) ELSE hi), lo)
                         ELSE softfloat_add128(w, PairOf(w, P), softfloat_shift128RightJam(w, Pair(s, 0), d))), mode)
  BY <1>2, <1>3, <1>8, <1>9, Zenon DEF PlusF64
<1>12. CASE d <= 0
  <2>1. PICK k \in Nat : k = -d /\ w - d = w + k
    BY <1>12
  <2>2. PICK D \in Nat \ {0} : D = 2^k
    BY PowerPositive
  <2>3. PICK E \in Nat \ {0} : E = W * D /\ 2^(w + k) = E
    <3>1. W * D \in Nat \ {0}
      OBVIOUS
    <3>2. 2^(w + k) = 2^w * 2^k
      BY PowerSum
    <3>3. QED
      BY <1>2, <2>2, <3>1, <3>2
  <2>4. (IF d < 0 THEN softfloat_shift64RightJam(w, hi, -d) ELSE hi) = JamOf(hi, D)
    <3>1. CASE k # 0
      <4>1. k \in Nat \ {0} /\ hi \in Nat /\ hi < 2^w
        BY <1>2, <3>1
      <4>2. softfloat_shift32RightJam(w, hi, k) = JamOf(hi, 2^k)
        BY <4>1, ShiftJams
      <4>3. d < 0
        BY <2>1, <3>1
      <4>4. QED
        BY <2>1, <2>2, <4>2, <4>3, Zenon DEF softfloat_shift64RightJam
    <3>2. CASE k = 0
      <4>1. D = 1
        BY <2>2, <3>2, PowerZero, Zenon
      <4>2. hi = D * hi /\ hi \in Nat
        BY <4>1
      <4>3. JamOf(hi, D) = hi
        BY <4>2, JamExact
      <4>4. ~(d < 0)
        BY <2>1, <3>2
      <4>5. QED
        BY <4>3, <4>4, Zenon
    <3>3. QED
      BY <3>1, <3>2
  <2>5. PICK t \in Nat : t = JamOf(hi, D)
    BY JamCompares
  <2>6. Joined(Pair(s + t, lo)) = s + Jammed(t, lo # 0)
    <3>1. Joined(Pair(s + t, lo)) = Jammed(s + t, lo # 0)
      BY DEF Joined, Pair
    <3>2. Jammed(s + t, lo # 0) = s + Jammed(t, lo # 0)
      BY JammedPlus
    <3>3. QED
      BY <3>1, <3>2
  <2>7. Jammed(t, lo # 0) = JamOf(P, E)
    <3>1. InWords(hi, W, lo, P) /\ Times(W, D, E) /\ hi \in Nat
      BY <1>8, <2>3 DEF InWords, Times
    <3>2. Jammed(JamOf(hi, D), lo # 0) = JamOf(P, E)
      BY <3>1, JamWords
    <3>3. QED
      BY <2>5, <3>2, Zenon
  <2>8. PlusF64(f, sign, q, c, mode) = RoundSum(f, sign, eC, s + JamOf(P, E), mode)
    BY <1>11, <1>12, <2>4, <2>5, <2>6, <2>7, Zenon
  <2>9. PlusSum(f, P, s, d) = s + JamOf(P, E)
    BY <1>2, <1>12, <2>1, <2>3, Zenon DEF PlusSum
  <2>10. QED
    BY <1>12, <2>8, <2>9, Zenon DEF PlusOf
<1>13. CASE ~(d <= 0)
  <2>1. d \in Nat \ {0}
    BY <1>13
  <2>2. PICK D \in Nat \ {0} : D = 2^d
    BY <2>1, PowerPositive
  <2>3. PICK j \in Nat : j = JamOf(S, D) /\ j < 2 * A
    <3>1. JamOf(S, D) \in Nat /\ \A T \in Nat : T % 2 = 0 => (S < T * D <=> JamOf(S, D) < T)
      BY JamCompares
    <3>2. PICK T \in Nat : T = 2 * A /\ T % 2 = 0
      OBVIOUS
    <3>3. T * 1 <= T * D
      BY ProductMonotonic
    <3>4. PICK x \in Nat : x = T * D
      OBVIOUS
    <3>5. S < T * D
      BY <1>6, <3>2, <3>3, <3>4
    <3>6. QED
      BY <3>1, <3>2, <3>5
  <2>4. softfloat_shift128RightJam(w, Pair(s, 0), d) = PairOf(w, j)
    <3>1. PICK o \in Nat : o = 0
      OBVIOUS
    <3>2. S = (s * W) + o /\ o \in 0..(W - 1) /\ W = 2^w /\ w \in Nat \ {0}
      BY <1>2, <1>4, <3>1
    <3>3. softfloat_shift128RightJam(w, Pair(s, o), d) = PairOf(w, JamOf(S, D))
      <4>1. IsRightShift(w, W, s, o, S, d, D)
        BY <1>10, <2>1, <2>2, <3>2 DEF IsRightShift
      <4>2. QED
        BY <4>1, ShiftsJamming
    <3>4. QED
      BY <2>3, <3>1, <3>3, Zenon
  <2>5. PICK z \in Nat : z = P + j /\ z \in 0..(WW - 1) /\ j < WW
    BY <1>5, <2>3
  <2>6. softfloat_add128(w, PairOf(w, P), PairOf(w, j)) = PairOf(w, z)
    <3>1. Double(w) = WW
      BY <1>2, <1>5 DEF Double
    <3>2. IsPair(w, PairOf(w, j)) /\ Value(w, PairOf(w, j)) = j
      BY <1>2, <2>5, <3>1, PairValue
    <3>3. z % WW = z
      <4>1. z = z + (0 * WW) /\ z \in Int /\ 0 \in Int
        OBVIOUS
      <4>2. QED
        BY <2>5, <4>1, Wrapped
    <3>4. IsPair(w, softfloat_add128(w, PairOf(w, P), PairOf(w, j)))
          /\ Value(w, softfloat_add128(w, PairOf(w, P), PairOf(w, j))) = (P + j) % WW
      BY <1>2, <1>8, <3>1, <3>2, Add128
    <3>5. Value(w, softfloat_add128(w, PairOf(w, P), PairOf(w, j))) = z
      BY <2>5, <3>3, <3>4
    <3>6. QED
      BY <1>2, <3>4, <3>5, PairValue
  <2>7. Joined(PairOf(w, z)) = JamOf(P + j, W)
    BY <1>2, <2>5, JoinedIs
  <2>8. PlusF64(f, sign, q, c, mode) = RoundSum(f, sign, eP, JamOf(P + j, W), mode)
    BY <1>11, <1>13, <2>4, <2>6, <2>7, Zenon
  <2>9. PlusSum(f, P, s, d) = JamOf(P + j, W)
    BY <1>2, <1>4, <1>13, <2>2, <2>3, Zenon DEF PlusSum
  <2>10. QED
    BY <1>13, <2>8, <2>9, Zenon DEF PlusOf
<1>14. QED
  BY <1>12, <1>13

\* A product in a pair of words alone.
LEMMA ProductAloneWords ==
  ASSUME NEW f, WordLaws(word(f)), NEW y \in Nat \ {0}, NEW W \in Nat \ {0}, IsWordOf(f, y, W), NEW P, IsWide2(P, y, W)
  PROVE  2 * PairOf(word(f), P).hi + Bit(PairOf(word(f), P).lo # 0) = softfloat_shortShift64RightJam(P, word(f) - 1)
<1>1. PICK w \in Nat : w = word(f) /\ 2^w = W /\ w >= 6 /\ WordLaws(w)
  BY DEF IsWordOf
<1>2. PICK q \in Nat \ {0} : q = 4 * y /\ 2^(w - 1) = q /\ W = 2 * q
  BY <1>1 DEF IsWordOf
<1>3. P \in Nat /\ P < W * W
  <2>1. PICK A \in Nat \ {0}, WW \in Nat \ {0} : WW = W * W /\ WW = 8 * A /\ P < 2 * A /\ P \in Nat
    BY WideFits
  <2>2. QED
    BY <2>1
<1>4. PICK hi \in 0..(W - 1), lo \in 0..(W - 1) : IsWordPair(w, W, P, hi, lo)
  BY <1>1, <1>3, WordPair
<1>5. PairOf(w, P).hi = hi /\ PairOf(w, P).lo = lo /\ P = (hi * W) + lo
  BY <1>4 DEF IsWordPair
<1>6. softfloat_shortShift64RightJam(P, w - 1) = JamOf(P, q)
  BY <1>2, Zenon DEF softfloat_shortShift64RightJam, JamOf
<1>7. PICK x \in Nat : x = hi * W
  OBVIOUS
<1>8. CASE lo < q
  <2>1. PICK g \in Nat : g = 2 * hi
    OBVIOUS
  <2>2. Times(q, g, x) /\ lo \in 0..(q - 1) /\ P = x + lo
    <3>1. q * (2 * hi) = hi * (2 * q)
      OBVIOUS
    <3>2. QED
      BY <1>2, <1>5, <1>7, <1>8, <2>1, <3>1 DEF Times
  <2>3. JamOf(P, q) = Jammed(g, lo # 0)
    BY <2>2, JamIs
  <2>4. Jammed(g, lo # 0) = g + Bit(lo # 0)
    BY <2>1 DEF Jammed, Bit
  <2>5. QED
    BY <1>1, <1>5, <1>6, <2>1, <2>3, <2>4
<1>9. CASE ~(lo < q)
  <2>1. PICK g \in Nat, r \in 0..(q - 1), z \in Nat : g = 2 * hi + 1 /\ r = lo - q /\ z = x + q
    BY <1>2, <1>9
  <2>2. Times(q, g, z) /\ P = z + r
    <3>1. q * (2 * hi + 1) = hi * (2 * q) + q
      OBVIOUS
    <3>2. q * g = x + q
      BY <1>2, <1>7, <2>1, <3>1
    <3>3. QED
      BY <1>5, <1>7, <2>1, <3>2 DEF Times
  <2>3. JamOf(P, q) = Jammed(g, r # 0)
    BY <2>2, JamIs
  <2>4. Jammed(g, r # 0) = g /\ Bit(lo # 0) = 1
    BY <1>9, <2>1 DEF Jammed, Bit
  <2>5. QED
    BY <1>1, <1>5, <1>6, <2>1, <2>3, <2>4
<1>10. QED
  BY <1>8, <1>9

\* Two values of pairs of words; M is the first that has none.
AreWords(w, W, M, a, b) ==
  /\ w \in Nat /\ WordLaws(w) /\ W \in Nat \ {0} /\ W = 2^w /\ M \in Nat \ {0} /\ M = W * W
  /\ a \in 0..(M - 1) /\ b \in 0..(M - 1)

\* The pairs that stand for two numbers, and the pair that stands for their difference.
LEMMA PairValues ==
  ASSUME NEW w, NEW W, NEW M, NEW a, NEW b, AreWords(w, W, M, a, b)
  PROVE  /\ Double(w) = M /\ IsPair(w, PairOf(w, a)) /\ Value(w, PairOf(w, a)) = a
         /\ IsPair(w, PairOf(w, b)) /\ Value(w, PairOf(w, b)) = b
         /\ (PairOf(w, a) = PairOf(w, b) <=> a = b)
         /\ IsPair(w, softfloat_sub128(w, PairOf(w, a), PairOf(w, b)))
         /\ Value(w, softfloat_sub128(w, PairOf(w, a), PairOf(w, b))) = (a - b) % M
<1>1. WordLaws(w) /\ a \in 0..(M - 1) /\ b \in 0..(M - 1)
  BY DEF AreWords
<1>2. Double(w) = M
  BY DEF AreWords, Double
<1>3. IsPair(w, PairOf(w, a)) /\ Value(w, PairOf(w, a)) = a /\ IsPair(w, PairOf(w, b)) /\ Value(w, PairOf(w, b)) = b
  BY <1>1, <1>2, PairValue
<1>4. IsPair(w, softfloat_sub128(w, PairOf(w, a), PairOf(w, b)))
      /\ Value(w, softfloat_sub128(w, PairOf(w, a), PairOf(w, b))) = (a - b) % M
  BY <1>1, <1>2, <1>3, Sub128
<1>5. QED
  BY <1>2, <1>3, <1>4, Zenon

\* softfloat_sub128 subtracts without a borrow out of the pair.
LEMMA PairsSubtracted ==
  ASSUME NEW w, NEW W, NEW M, NEW a, NEW b, AreWords(w, W, M, a, b), b <= a
  PROVE  softfloat_sub128(w, PairOf(w, a), PairOf(w, b)) = PairOf(w, a - b)
<1>1. WordLaws(w) /\ a \in 0..(M - 1) /\ b \in 0..(M - 1) /\ M \in Nat \ {0}
  BY DEF AreWords
<1>2. PICK r \in Int : r = a - b /\ r \in 0..(M - 1)
  BY <1>1
<1>3. r % M = r
  <2>1. r = r + (0 * M) /\ 0 \in Int
    BY <1>1
  <2>2. QED
    BY <1>1, <1>2, <2>1, Wrapped
<1>4. IsPair(w, softfloat_sub128(w, PairOf(w, a), PairOf(w, b)))
      /\ Value(w, softfloat_sub128(w, PairOf(w, a), PairOf(w, b))) = (a - b) % M
  BY PairValues
<1>5. IsPair(w, softfloat_sub128(w, PairOf(w, a), PairOf(w, b)))
      /\ Value(w, softfloat_sub128(w, PairOf(w, a), PairOf(w, b))) = r
  BY <1>2, <1>3, <1>4, Zenon
<1>6. QED
  BY <1>1, <1>2, <1>5, PairValue

\* The sign of a difference of two pairs, and the turned difference.
LEMMA PairsTurned ==
  ASSUME NEW w, NEW W, NEW M, NEW a, NEW b, AreWords(w, W, M, a, b), 2 * (a - b) < M, 2 * (b - a) < M
  PROVE  LET t == softfloat_sub128(w, PairOf(w, a), PairOf(w, b))
         IN /\ Negative(w, t) <=> a < b
            /\ a < b => softfloat_sub128(w, Pair(0, 0), t) = PairOf(w, b - a)
<1>1. WordLaws(w) /\ a \in 0..(M - 1) /\ b \in 0..(M - 1) /\ M \in Nat \ {0} /\ w \in Nat /\ W \in Nat \ {0} /\ W = 2^w
  BY DEF AreWords
<1>2. PICK r \in Int : r = a - b /\ 2 * r < M /\ -M <= 2 * r /\ (r < 0 <=> a < b)
  BY <1>1
<1>3. PICK t : t = softfloat_sub128(w, PairOf(w, a), PairOf(w, b))
  OBVIOUS
<1>4. IsPair(w, softfloat_sub128(w, PairOf(w, a), PairOf(w, b))) /\ Double(w) = M
      /\ Value(w, softfloat_sub128(w, PairOf(w, a), PairOf(w, b))) = (a - b) % M
  BY PairValues
<1>5. t = softfloat_sub128(w, PairOf(w, a), PairOf(w, b)) /\ IsPair(w, t) /\ Value(w, t) = r % M /\ Double(w) = M
  BY <1>2, <1>3, <1>4, Zenon
<1>6. Negative(w, t) <=> r < 0
  BY <1>1, <1>2, <1>5, SignedPair
<1>7. ASSUME r < 0 PROVE softfloat_sub128(w, Pair(0, 0), t) = PairOf(w, -r)
  <2>1. r % M = r + M
    <3>1. r + M \in 0..(M - 1)
      BY <1>1, <1>2, <1>7
    <3>2. QED
      BY <1>1, <3>1, WrappedBelow
  <2>2. PICK o \in Nat : o = 0
    OBVIOUS
  <2>3. IsPair(w, Pair(0, 0)) /\ Value(w, Pair(0, 0)) = 0
    <3>1. IsPair(w, Pair(0, 0))
      BY <1>1 DEF IsPair
    <3>2. Pair(0, 0).hi = 0 /\ Pair(0, 0).lo = 0
      BY DEF Pair
    <3>3. (0 * 2^w) + 0 = 0
      BY <1>1
    <3>4. QED
      BY <3>1, <3>2, <3>3, Zenon DEF Value
  <2>4. (0 - (r + M)) % M = -r
    <3>1. PICK x \in Int, z \in Int : x = 0 - (r + M) /\ z = -r /\ z \in 0..(M - 1)
      BY <1>1, <1>2, <1>7
    <3>2. x = z + ((-1) * M) /\ -1 \in Int
      BY <1>1, <3>1
    <3>3. x % M = z
      BY <1>1, <3>1, <3>2, Wrapped
    <3>4. QED
      BY <3>1, <3>3
  <2>5. IsPair(w, softfloat_sub128(w, Pair(0, 0), t)) /\ Value(w, softfloat_sub128(w, Pair(0, 0), t)) = (0 - (r + M)) % M
    <3>1. IsPair(w, softfloat_sub128(w, Pair(0, 0), t))
          /\ Value(w, softfloat_sub128(w, Pair(0, 0), t)) = (Value(w, Pair(0, 0)) - Value(w, t)) % Double(w)
      BY <1>1, <1>5, <2>3, Sub128
    <3>2. QED
      BY <1>5, <2>1, <2>3, <3>1, Zenon
  <2>6. QED
    BY <1>1, <2>4, <2>5, PairValue
<1>8. -r = b - a
  BY <1>1, <1>2
<1>9. QED
  BY <1>2, <1>5, <1>6, <1>7, <1>8, Zenon

\* MinusF64 of the pairs P and S, d apart.
MinusPairs(f, w, sign, d, eP, eC, P, S, mode) ==
  LET Turned(diff) == d = 0 /\ Negative(w, diff)
      Rest(diff) ==
        RoundDifferenceF64(f, IF d < 0 \/ Turned(diff) THEN 1 - sign ELSE sign, IF d < 0 THEN eC ELSE eP,
                           IF Turned(diff) THEN softfloat_sub128(w, Pair(0, 0), diff) ELSE diff, mode)
  IN IF d = 0 /\ P = S THEN Ret(Zero(f, Bit(mode = "min")), {})
     ELSE Rest(softfloat_sub128(w, IF d < 0 THEN S ELSE P,
                 CASE d < 0 -> softfloat_shift128RightJam(w, P, -d)
                   [] d = 0 -> S
                   [] d > 0 -> softfloat_shift128RightJam(w, S, d)))

\* MinusF64 with its shifts named.
LEMMA MinusPairSteps ==
  ASSUME NEW f, NEW sign, NEW q, NEW c, NEW mode
  PROVE  MinusF64(f, sign, q, c, mode) =
           MinusPairs(f, word(f), sign, q.exp - c.exp, q.exp, c.exp, q.sig, Pair(c.sig, 0), mode)
BY Zenon DEF MinusF64, MinusPairs

\* H less what is jammed of L, k places below, in two words and in a pair of them.
SameDifference(w, A, H, L, k) ==
  \E r \in Nat \ {0} : /\ r < 4 * A /\ H - softfloat_shift64RightJam(2 * w, L, k) = r
                       /\ softfloat_sub128(w, PairOf(w, H), softfloat_shift128RightJam(w, PairOf(w, L), k)) = PairOf(w, r)

\* The difference of f64 is that of f32.
LEMMA MinusWords ==
  ASSUME NEW f, WordLaws(word(f)), NEW sign, NEW mode, NEW y \in Nat \ {0}, NEW W \in Nat \ {0},
         NEW p, NEW P \in Nat, NEW eP \in Int, NEW c, NEW s \in Nat, NEW eC \in Int, NEW S \in Nat, NEW d \in Int,
         AreAdded(f, y, W, p, eP, P, c, eC, s, S, d), NEW q, q.exp = eP, q.sig = PairOf(word(f), P)
  PROVE  MinusF64(f, sign, q, c, mode) = MinusOf(f, sign, d, eP, eC, P, S, mode)
<1>1. IsWordOf(f, y, W) /\ IsWide2(P, y, W) /\ IsWide2(S, y, W)
  BY DEF AreAdded
<1>2. PICK w \in Nat : w = word(f) /\ 2^w = W /\ W = 8 * y /\ w >= 6 /\ WordLaws(w)
  BY <1>1 DEF IsWordOf
<1>3. d = eP - eC /\ c.exp = eC /\ c.sig = s
  BY DEF AreAdded
<1>4. S = s * W
  BY DEF AreAdded
<1>5. PICK A \in Nat \ {0}, M \in Nat \ {0} :
         M = W * W /\ M = 8 * A /\ A <= P /\ P < 2 * A /\ A = y * W /\ 2 * w \in Nat /\ 2^(2 * w) = M
  BY <1>1, <1>2, WideFits
<1>6. A <= S /\ S < 2 * A
  BY <1>1, <1>5 DEF IsWide2
<1>7. s \in 0..(W - 1)
  <2>1. SUFFICES ASSUME W <= s PROVE FALSE
    OBVIOUS
  <2>2. W * W <= W * s
    BY <2>1, ProductMonotonic
  <2>3. W * s = s * W
    OBVIOUS
  <2>4. QED
    BY <1>4, <1>5, <1>6, <2>2, <2>3
<1>8. PairOf(w, S) = Pair(s, 0)
  <2>1. Times(s, W, S) /\ S = S + 0 /\ 0 \in 0..(W - 1) /\ W = 2^w
    BY <1>2, <1>4 DEF Times
  <2>2. QED
    BY <2>1, PairIs
<1>9. /\ \A a, b \in 0..(M - 1) : AreWords(w, W, M, a, b)
      /\ \A a \in 0..(M - 1) : a < 4 * A => IsBelow(a, y, W)
  <2>1. W * (4 * y) = 4 * (y * W)
    OBVIOUS
  <2>2. W * (4 * y) = 4 * A
    BY <1>5, <2>1
  <2>3. QED
    BY <1>2, <1>5, <2>2 DEF AreWords, IsBelow
<1>10. P \in 0..(M - 1) /\ S \in 0..(M - 1)
  BY <1>5, <1>6
<1>11. \A a \in Nat, k \in Nat \ {0} : a < M => softfloat_shift64RightJam(2 * w, a, k) = JamOf(a, 2^k)
  BY <1>5, ShiftJams DEF softfloat_shift64RightJam
<1>12. \A g : \A r \in Nat \ {0}, e \in Int : r < 4 * A =>
         RoundDifferenceF64(f, g, e, PairOf(w, r), mode) = RoundDifferenceF32(f, g, e, r, mode)
  <2>1. TAKE g
  <2>2. TAKE r \in Nat \ {0}, e \in Int
  <2>3. HAVE r < 4 * A
  <2>4. IsBelow(r, y, W)
    BY <1>5, <1>9, <2>3
  <2>5. QED
    BY <1>1, <1>2, <2>4, DifferenceWords
<1>13. w = word(f)
  BY <1>2
<1>14. MinusF64(f, sign, q, c, mode) = MinusPairs(f, w, sign, d, eP, eC, PairOf(w, P), PairOf(w, S), mode)
  BY <1>3, <1>8, <1>13, MinusPairSteps, Zenon
\* A shifted pair less another one.
<1>15. ASSUME NEW H \in 0..(M - 1), IsWide2(H, y, W), NEW L \in 0..(M - 1), IsWide2(L, y, W), NEW k \in Nat \ {0}
       PROVE  SameDifference(w, A, H, L, k)
  <2>1. PICK D \in Nat \ {0} : D = 2^k
    BY PowerPositive
  <2>2. PICK n \in Nat \ {0}, r \in Nat \ {0} : IsGapJammed(H, L, n, r, k, D, y, W)
    <3>1. k \in Nat /\ ~(k = 0)
      OBVIOUS
    <3>2. QED
      BY <1>2, <1>15, <2>1, <3>1, DifferenceJams
  <2>3. r = H - JamOf(L, D) /\ r < 4 * A
    <3>1. W * (4 * y) = 4 * (y * W)
      OBVIOUS
    <3>2. r < W * (4 * y) /\ r = H - JamOf(L, D)
      BY <2>2 DEF IsGapJammed, IsBelow
    <3>3. PICK x \in Nat : x = W * (4 * y)
      OBVIOUS
    <3>4. x = 4 * A
      BY <1>5, <3>1, <3>3
    <3>5. QED
      BY <3>2, <3>3, <3>4
  <2>4. PICK j \in Nat : j = JamOf(L, D)
    BY <1>15, JamCompares
  <2>5. r = H - j /\ j \in 0..(M - 1) /\ j <= H
    BY <2>3, <2>4
  <2>6. softfloat_shift64RightJam(2 * w, L, k) = j
    BY <1>11, <1>15, <2>1, <2>4
  <2>7. softfloat_shift128RightJam(w, PairOf(w, L), k) = PairOf(w, j)
    <3>1. L < W * W /\ L \in Nat
      BY <1>5
    <3>2. PICK hi \in 0..(W - 1), lo \in 0..(W - 1) : IsWordPair(w, W, L, hi, lo)
      BY <1>2, <3>1, WordPair
    <3>3. PairOf(w, L) = Pair(hi, lo) /\ L = (hi * W) + lo
      BY <3>2 DEF IsWordPair
    <3>4. IsRightShift(w, W, hi, lo, L, k, D)
      BY <1>2, <2>1, <3>1, <3>3 DEF IsRightShift
    <3>5. softfloat_shift128RightJam(w, Pair(hi, lo), k) = PairOf(w, JamOf(L, D))
      BY <3>4, ShiftsJamming
    <3>6. QED
      BY <2>4, <3>3, <3>5, Zenon
  <2>8. softfloat_sub128(w, PairOf(w, H), PairOf(w, j)) = PairOf(w, r)
    <3>1. AreWords(w, W, M, H, j)
      BY <1>9, <2>5
    <3>2. QED
      BY <2>5, <3>1, PairsSubtracted
  <2>9. QED
    BY <2>3, <2>5, <2>6, <2>7, <2>8, Zenon DEF SameDifference
<1>16. \A k \in Nat \ {0} : SameDifference(w, A, P, S, k) /\ SameDifference(w, A, S, P, k)
  BY <1>1, <1>10, <1>15
<1>17. CASE d < 0
  <2>1. PICK k \in Nat \ {0} : k = -d
    BY <1>17
  <2>2. PICK r \in Nat \ {0} : /\ r < 4 * A /\ S - softfloat_shift64RightJam(2 * w, P, k) = r
                               /\ softfloat_sub128(w, PairOf(w, S), softfloat_shift128RightJam(w, PairOf(w, P), k)) = PairOf(w, r)
    BY <1>16, Zenon DEF SameDifference
  <2>3. ~(d = 0) /\ ~(d > 0) /\ ~(r < 0)
    BY <1>17
  <2>4. MinusF64(f, sign, q, c, mode) = RoundDifferenceF64(f, 1 - sign, eC, PairOf(w, r), mode)
    BY <1>14, <1>17, <2>1, <2>2, <2>3, Zenon DEF MinusPairs
  <2>5. MinusOf(f, sign, d, eP, eC, P, S, mode) = RoundDifferenceF32(f, 1 - sign, eC, r, mode)
    BY <1>17, <1>13, <2>1, <2>2, <2>3, Zenon DEF MinusOf
  <2>6. QED
    BY <1>12, <2>2, <2>4, <2>5
<1>18. CASE d > 0
  <2>1. PICK k \in Nat \ {0} : k = d
    BY <1>18
  <2>2. PICK r \in Nat \ {0} : /\ r < 4 * A /\ P - softfloat_shift64RightJam(2 * w, S, k) = r
                               /\ softfloat_sub128(w, PairOf(w, P), softfloat_shift128RightJam(w, PairOf(w, S), k)) = PairOf(w, r)
    BY <1>16, Zenon DEF SameDifference
  <2>3. ~(d = 0) /\ ~(d < 0) /\ ~(r < 0)
    BY <1>18
  <2>4. MinusF64(f, sign, q, c, mode) = RoundDifferenceF64(f, sign, eP, PairOf(w, r), mode)
    BY <1>14, <1>18, <2>1, <2>2, <2>3, Zenon DEF MinusPairs
  <2>5. MinusOf(f, sign, d, eP, eC, P, S, mode) = RoundDifferenceF32(f, sign, eP, r, mode)
    BY <1>18, <1>13, <2>1, <2>2, <2>3, Zenon DEF MinusOf
  <2>6. QED
    BY <1>12, <2>2, <2>4, <2>5
<1>19. CASE d = 0
  <2>1. ~(d < 0) /\ ~(d > 0)
    BY <1>19
  <2>2. AreWords(w, W, M, P, S)
    BY <1>9, <1>10
  <2>3. PairOf(w, P) = PairOf(w, S) <=> P = S
    BY <2>2, PairValues
  <2>4. CASE P = S
    BY <1>14, <1>19, <2>4, Zenon DEF MinusOf, MinusPairs
  <2>5. CASE P # S
    <3>1. PICK t : t = softfloat_sub128(w, PairOf(w, P), PairOf(w, S))
      OBVIOUS
    <3>2. /\ Negative(w, t) <=> P < S
          /\ P < S => softfloat_sub128(w, Pair(0, 0), t) = PairOf(w, S - P)
      <4>1. 2 * (P - S) < M /\ 2 * (S - P) < M
        BY <1>5, <1>6
      <4>2. QED
        BY <2>2, <3>1, <4>1, PairsTurned
    <3>3. PICK r \in Int : r = P - S /\ (r < 0 <=> P < S)
      OBVIOUS
    <3>4. MinusF64(f, sign, q, c, mode) =
            RoundDifferenceF64(f, IF Negative(w, t) THEN 1 - sign ELSE sign, eP,
                               IF Negative(w, t) THEN softfloat_sub128(w, Pair(0, 0), t) ELSE t, mode)
      BY <1>14, <1>19, <2>1, <2>3, <2>5, <3>1, Zenon DEF MinusPairs
    <3>5. MinusOf(f, sign, d, eP, eC, P, S, mode) =
            RoundDifferenceF32(f, IF r < 0 THEN 1 - sign ELSE sign, eP, IF r < 0 THEN -r ELSE r, mode)
      BY <1>19, <1>13, <2>1, <2>5, <3>3, Zenon DEF MinusOf
    <3>6. CASE P < S
      <4>1. PICK g \in Nat \ {0} : g = S - P /\ g = -r /\ g < 4 * A
        BY <1>5, <1>6, <3>3, <3>6
      <4>2. MinusF64(f, sign, q, c, mode) = RoundDifferenceF64(f, 1 - sign, eP, PairOf(w, g), mode)
        BY <3>2, <3>4, <3>6, <4>1, Zenon
      <4>3. MinusOf(f, sign, d, eP, eC, P, S, mode) = RoundDifferenceF32(f, 1 - sign, eP, g, mode)
        BY <3>3, <3>5, <3>6, <4>1, Zenon
      <4>4. QED
        BY <1>12, <4>1, <4>2, <4>3
    <3>7. CASE S < P
      <4>1. PICK g \in Nat \ {0} : g = P - S /\ g = r /\ g < 4 * A /\ ~(P < S)
        BY <1>5, <1>6, <3>3, <3>7
      <4>2. t = PairOf(w, g)
        <5>1. S <= P
          BY <3>7
        <5>2. QED
          BY <2>2, <3>1, <4>1, <5>1, PairsSubtracted
      <4>3. MinusF64(f, sign, q, c, mode) = RoundDifferenceF64(f, sign, eP, PairOf(w, g), mode)
        BY <3>2, <3>4, <4>1, <4>2, Zenon
      <4>4. MinusOf(f, sign, d, eP, eC, P, S, mode) = RoundDifferenceF32(f, sign, eP, g, mode)
        BY <3>3, <3>5, <4>1, Zenon
      <4>5. QED
        BY <1>12, <4>1, <4>3, <4>4
    <3>8. QED
      BY <2>5, <3>6, <3>7
  <2>6. QED
    BY <2>4, <2>5
<1>20. QED
  BY <1>17, <1>18, <1>19

-----------------------------------------------------------------------------
(* f32_mulAdd and f64_mulAdd.                                              *)

\* The product p, which is q in a pair of words, of the value mP / Unity, alone.
FusesAlone(f, sign, mode, p, q, mP) ==
  /\ softfloat_roundPackToF32(f, sign, p.exp - 1, softfloat_shortShift64RightJam(p.sig, word(f) - 1), mode)
       = RoundedRatio(f, sign, mP, Unity(f), mode)
  /\ softfloat_roundPackToF64(f, sign, q.exp - 1, 2 * q.sig.hi + Bit(q.sig.lo # 0), mode)
       = RoundedRatio(f, sign, mP, Unity(f), mode)

\* The product with the term z of the value mC / Unity: of its sign, and of the other.
FusesTerm(f, sign, mode, p, q, mP, z, mC) ==
  /\ PlusF32(f, sign, p, z, mode) = RoundedRatio(f, sign, mP + mC, Unity(f), mode)
  /\ PlusF64(f, sign, q, z, mode) = RoundedRatio(f, sign, mP + mC, Unity(f), mode)
  /\ MinusF32(f, sign, p, z, mode) = FusedDifference(f, sign, mP, mC, mode)
  /\ MinusF64(f, sign, q, z, mode) = FusedDifference(f, sign, mP, mC, mode)

\* A product that nothing is added to is rounded once, in both precisions.
LEMMA FusedAlone ==
  ASSUME NEW f, IsFormat(f), WordLaws(word(f)), NEW sign, NEW mode, IsMode(sign, mode),
         NEW y \in Nat \ {0}, NEW W \in Nat \ {0}, IsWordOf(f, y, W),
         NEW p, NEW mP \in Nat, IsProductOf(f, p, mP, y, W), NEW q, q = [exp |-> p.exp, sig |-> PairOf(word(f), p.sig)]
  PROVE  FusesAlone(f, sign, mode, p, q, mP)
<1>1. PICK P \in Nat, eP \in Int : p = [exp |-> eP, sig |-> P] /\ IsWide2(P, y, W)
  BY DEF IsProductOf
<1>2. p.exp = eP /\ p.sig = P /\ q.exp = eP /\ q.sig = PairOf(word(f), P)
  BY <1>1
<1>3. softfloat_roundPackToF32(f, sign, p.exp - 1, softfloat_shortShift64RightJam(p.sig, word(f) - 1), mode)
        = RoundedRatio(f, sign, mP, Unity(f), mode)
  BY ProductAlone
<1>4. 2 * PairOf(word(f), P).hi + Bit(PairOf(word(f), P).lo # 0) = softfloat_shortShift64RightJam(P, word(f) - 1)
  BY <1>1, ProductAloneWords
<1>5. softfloat_roundPackToF64(f, sign, q.exp - 1, 2 * q.sig.hi + Bit(q.sig.lo # 0), mode)
        = softfloat_roundPackToF32(f, sign, p.exp - 1, softfloat_shortShift64RightJam(p.sig, word(f) - 1), mode)
  BY <1>2, <1>4, Zenon DEF softfloat_roundPackToF64
<1>6. QED
  BY <1>3, <1>5, Zenon DEF FusesAlone

\* A product and a term of either sign are rounded once, in both precisions.
LEMMA FusedTerm ==
  ASSUME NEW f, IsFormat(f), WordLaws(word(f)), NEW sign, NEW mode, IsMode(sign, mode),
         NEW y \in Nat \ {0}, NEW W \in Nat \ {0}, IsWordOf(f, y, W),
         NEW p, NEW mP \in Nat, IsProductOf(f, p, mP, y, W), NEW q, q = [exp |-> p.exp, sig |-> PairOf(word(f), p.sig)],
         NEW z, NEW mC \in Nat, IsTermOf(f, z, mC, y, W)
  PROVE  FusesTerm(f, sign, mode, p, q, mP, z, mC)
<1>1. PICK P \in Nat, eP \in Int : p = [exp |-> eP, sig |-> P] /\ IsWide2(P, y, W)
  BY DEF IsProductOf
<1>2. PICK s \in Nat, eC \in Int : z = [exp |-> eC, sig |-> s] /\ s % 2 = 0 /\ IsWide2(s * W, y, W)
  BY DEF IsTermOf
<1>3. PICK S \in Nat, d \in Int : S = s * W /\ d = eP - eC
  OBVIOUS
<1>4. AreAdded(f, y, W, p, eP, P, z, eC, s, S, d)
  BY <1>1, <1>2, <1>3 DEF AreAdded
<1>5. q.exp = eP /\ q.sig = PairOf(word(f), P)
  BY <1>1
<1>6. PlusF32(f, sign, p, z, mode) = RoundedRatio(f, sign, mP + mC, Unity(f), mode)
  BY PlusRounds
<1>7. MinusF32(f, sign, p, z, mode) = FusedDifference(f, sign, mP, mC, mode)
  BY MinusRounds
<1>8. PlusF64(f, sign, q, z, mode) = PlusF32(f, sign, p, z, mode)
  <2>1. PlusF64(f, sign, q, z, mode) = PlusOf(f, sign, d, eP, eC, P, s, mode)
    BY <1>2, <1>4, <1>5, PlusWords
  <2>2. PlusF32(f, sign, p, z, mode) = PlusOf(f, sign, d, eP, eC, P, s, mode)
    BY <1>4, PlusSteps
  <2>3. QED
    BY <2>1, <2>2
<1>9. MinusF64(f, sign, q, z, mode) = MinusF32(f, sign, p, z, mode)
  <2>1. MinusF64(f, sign, q, z, mode) = MinusOf(f, sign, d, eP, eC, P, S, mode)
    BY <1>4, <1>5, MinusWords
  <2>2. p.exp = eP /\ p.sig = P /\ z.exp = eC /\ z.sig = s /\ 2^word(f) = W
    BY <1>1, <1>2 DEF IsWordOf
  <2>3. MinusF32(f, sign, p, z, mode) = MinusOf(f, sign, d, eP, eC, P, S, mode)
    BY <1>3, <2>2, MinusSteps, Zenon
  <2>4. QED
    BY <2>1, <2>3
<1>10. QED
  BY <1>6, <1>7, <1>8, <1>9, Zenon DEF FusesTerm

\* Operands that are not zero have a product in both forms, and a term; fused they are rounded once.
LEMMA FiniteFusions ==
  ASSUME NEW f, IsFormat(f), IsEven(f), NEW sign, NEW mode, IsMode(sign, mode),
         NEW a \in Patterns(f), NEW b \in Patterns(f), NEW c \in Patterns(f), ~isZero(f, a), ~isZero(f, b)
  PROVE  LET p == ProductF32(f, Normal(f, a), Normal(f, b))
             q == ProductF64(f, Normal(f, a), Normal(f, b))
             z == Addend(f, Normal(f, c))
         IN /\ FusesAlone(f, sign, mode, p, q, Mag(f, a) * Mag(f, b))
            /\ ~isZero(f, c) => FusesTerm(f, sign, mode, p, q, Mag(f, a) * Mag(f, b), z, Mag(f, c) * Unity(f))
<1>1. PICK h \in Nat \ {0}, u \in Nat \ {0}, e \in Nat : Sizes(f, h, u, e)
  <2>1. PICK h \in Nat, u \in Nat, e \in Nat : Sizes(f, h, u, e)
    BY FormatSizes
  <2>2. h # 0 /\ u # 0
    BY <2>1 DEF Sizes
  <2>3. QED
    BY <2>1, <2>2
<1>2. WordLaws(word(f))
  <2>1. word(f) \in Nat /\ word(f) >= 2
    BY DEF word, IsFormat
  <2>2. QED
    BY <2>1, WordIs DEF IsEven
<1>3. PICK y \in Nat \ {0}, W \in Nat \ {0} : Times(h, u, y) /\ IsWordOf(f, y, W)
  BY <1>1, WordOf
<1>4. PICK kA \in Int, sA \in h..((2 * h) - 1) : IsOperand(f, a, h, kA, sA)
  BY <1>1, NormalIs
<1>5. PICK kB \in Int, sB \in h..((2 * h) - 1) : IsOperand(f, b, h, kB, sB)
  BY <1>1, NormalIs
<1>6. PICK mA \in Nat, mB \in Nat : /\ mA = Mag(f, a) /\ Scales(mA, sA, kA - 1) /\ mB = Mag(f, b) /\ Scales(mB, sB, kB - 1)
                                    /\ Normal(f, a) = [exp |-> kA, sig |-> sA] /\ Normal(f, b) = [exp |-> kB, sig |-> sB]
  BY <1>4, <1>5 DEF IsOperand
<1>7. PICK p : p = ProductF32(f, [exp |-> kA, sig |-> sA], [exp |-> kB, sig |-> sB])
  OBVIOUS
<1>8. PICK mP \in Nat : mP = mA * mB /\ IsProductOf(f, p, mP, y, W)
  <2>1. \E m \in Nat : m = mA * mB /\
           IsProductOf(f, ProductF32(f, [exp |-> kA, sig |-> sA], [exp |-> kB, sig |-> sB]), m, y, W)
    BY <1>1, <1>3, <1>6, ProductScaled
  <2>2. QED
    BY <1>7, <2>1
<1>9. PICK q : q = ProductF64(f, [exp |-> kA, sig |-> sA], [exp |-> kB, sig |-> sB])
               /\ q = [exp |-> p.exp, sig |-> PairOf(word(f), p.sig)]
  <2>1. ProductF64(f, [exp |-> kA, sig |-> sA], [exp |-> kB, sig |-> sB]) = [exp |-> p.exp, sig |-> PairOf(word(f), p.sig)]
    BY <1>1, <1>2, <1>3, <1>7, ProductWords
  <2>2. QED
    BY <2>1
<1>10. p = ProductF32(f, Normal(f, a), Normal(f, b)) /\ q = ProductF64(f, Normal(f, a), Normal(f, b))
  BY <1>6, <1>7, <1>9, Zenon
<1>11. mP = Mag(f, a) * Mag(f, b)
  BY <1>6, <1>8, Zenon
<1>12. FusesAlone(f, sign, mode, p, q, mP)
  BY <1>2, <1>3, <1>8, <1>9, FusedAlone
<1>13. ASSUME ~isZero(f, c) PROVE FusesTerm(f, sign, mode, p, q, mP, Addend(f, Normal(f, c)), Mag(f, c) * Unity(f))
  <2>1. PICK kC \in Int, sC \in h..((2 * h) - 1) : IsOperand(f, c, h, kC, sC)
    BY <1>1, <1>13, NormalIs
  <2>2. PICK m \in Nat : m = Mag(f, c) /\ Scales(m, sC, kC - 1) /\ Normal(f, c) = [exp |-> kC, sig |-> sC]
    BY <2>1 DEF IsOperand
  <2>3. PICK mC \in Nat : mC = m * Unity(f) /\ IsTermOf(f, Addend(f, [exp |-> kC, sig |-> sC]), mC, y, W)
    BY <1>1, <1>3, <2>2, AddendScaled
  <2>4. PICK z : z = Addend(f, Normal(f, c)) /\ IsTermOf(f, z, mC, y, W) /\ mC = Mag(f, c) * Unity(f)
    BY <2>2, <2>3, Zenon
  <2>5. FusesTerm(f, sign, mode, p, q, mP, z, mC)
    BY <1>2, <1>3, <1>8, <1>9, <2>4, FusedTerm
  <2>6. QED
    BY <2>4, <2>5, Zenon
<1>14. QED
  BY <1>10, <1>11, <1>12, <1>13, Zenon

\* A finite pattern lies below infinity and has a magnitude.
LEMMA FiniteIs ==
  ASSUME NEW f, FormatLaws(f), NEW a \in Patterns(f), ~isNaNUI(f, a), ~isInf(f, a)
  PROVE  Inf(f, 0) \in Nat /\ a % signBit(f) \in 0..(Inf(f, 0) - 1) /\ Mag(f, a) \in Nat
<1>1. PICK H \in Nat \ {0, 1}, P \in Nat \ (0..2), S \in Nat : H = hidden(f) /\ P = 2^f.E /\ S = signBit(f) /\ S = P * H
  BY DEF FormatLaws
<1>2. PICK s \in 0..1, e \in 0..(P - 1), x \in 0..(H - 1), m \in 0..(S - 1) :
        expUI(f, a) = e /\ fracUI(f, a) = x /\ a % S = m /\ m = (H * e) + x
  <2>1. H = hidden(f) /\ P = 2^f.E /\ S = signBit(f)
    BY <1>1
  <2>2. \E s \in 0..1, e \in 0..(2^f.E - 1), x \in 0..(hidden(f) - 1), m \in 0..(signBit(f) - 1) :
           /\ signUI(f, a) = s /\ expUI(f, a) = e /\ fracUI(f, a) = x /\ a % signBit(f) = m
           /\ m = (hidden(f) * e) + x /\ a = (signBit(f) * s) + m
    BY Fields
  <2>3. QED
    BY <2>1, <2>2, Zenon
<1>3. PICK inf \in Nat : inf = Inf(f, 0) /\ inf = H * (P - 1)
  <2>1. Inf(f, 0) = ((0 * S) + ((P - 1) * H)) + 0
    BY <1>1 DEF Inf, packToUI, expMax
  <2>2. PICK inf \in Nat : inf = H * (P - 1)
    OBVIOUS
  <2>3. ((0 * S) + ((P - 1) * H)) + 0 = inf
    BY <2>2
  <2>4. QED
    BY <2>1, <2>2, <2>3
<1>4. e # P - 1
  <2>1. expUI(f, a) # expMax(f)
    BY PatternKinds DEF Kinds
  <2>2. QED
    BY <1>1, <1>2, <2>1 DEF expMax
<1>5. m < inf
  <2>1. H * (e + 1) <= H * (P - 1)
    BY <1>4, ProductMonotonic
  <2>2. PICK y \in Nat : y = H * e
    OBVIOUS
  <2>3. H * (e + 1) = y + H
    BY <2>2
  <2>4. QED
    BY <1>2, <1>3, <2>1, <2>2, <2>3
<1>6. Mag(f, a) \in Nat
  <2>1. m \in Nat /\ H \in Nat \ {0} /\ Mag(f, a) = Val(f, m)
    BY <1>1, <1>2 DEF Mag
  <2>2. QED
    BY <1>1, <2>1, ValNext
<1>7. QED
  BY <1>1, <1>2, <1>3, <1>5, <1>6

\* A sum of two signed numbers, not both zero: with equal signs their magnitudes are added.
IsSignedSum(f, mode, s, t, m, n) ==
  RoundedSum(f, (IF s = 1 THEN -m ELSE m) + (IF t = 1 THEN -n ELSE n), Unity(f), mode) =
    IF s = t THEN RoundedRatio(f, s, m + n, Unity(f), mode) ELSE FusedDifference(f, s, m, n, mode)

\* What two signed magnitudes promise depends on whether the signs agree.
LEMMA SignedSum ==
  ASSUME NEW f, NEW mode, NEW s \in 0..1, NEW t \in 0..1, NEW m \in Nat, NEW n \in Nat, m # 0 \/ n # 0
  PROVE  IsSignedSum(f, mode, s, t, m, n)
<1>1. CASE s = t
  <2>1. PICK x \in Int : x = (IF s = 1 THEN -m ELSE m) + (IF t = 1 THEN -n ELSE n)
    OBVIOUS
  <2>2. x # 0 /\ Sign(x) = s /\ Abs(x) = m + n
    BY <1>1, <2>1 DEF Sign, Abs, Bit
  <2>3. QED
    BY <1>1, <2>1, <2>2, Zenon DEF RoundedSum, IsSignedSum
<1>2. CASE s # t
  <2>1. PICK x \in Int : x = (IF s = 1 THEN -m ELSE m) + (IF t = 1 THEN -n ELSE n)
    OBVIOUS
  <2>2. /\ x = 0 <=> m = n
        /\ n < m => Sign(x) = s /\ Abs(x) = m - n
        /\ (~(n < m) /\ m # n) => Sign(x) = 1 - s /\ Abs(x) = n - m
    BY <1>2, <2>1 DEF Sign, Abs, Bit
  <2>3. RoundedSum(f, x, Unity(f), mode) = FusedDifference(f, s, m, n, mode)
    BY <2>2, Zenon DEF RoundedSum, FusedDifference
  <2>4. QED
    BY <1>2, <2>1, <2>3, Zenon DEF IsSignedSum
<1>3. QED
  BY <1>1, <1>2

\* Which operands Fused settles by itself.
Settled(f, a, b, c, sP, sC, sum, mode) ==
  IF isNaNUI(f, a) \/ isNaNUI(f, b)
  THEN Ret(defaultNaNUI(f),
           softfloat_propagateNaNF32UI(f, a, b).fl
             \cup softfloat_propagateNaNF32UI(f, softfloat_propagateNaNF32UI(f, a, b).ui, c).fl)
  ELSE IF (isInf(f, a) \/ isInf(f, b)) /\ (isZero(f, a) \/ isZero(f, b)) THEN Invalid(f)
  ELSE IF isNaNUI(f, c) THEN softfloat_propagateNaNF32UI(f, 0, c)
  ELSE IF isInf(f, a) \/ isInf(f, b)
  THEN IF isInf(f, c) /\ sP # sC THEN Invalid(f) ELSE Ret(Inf(f, sP), {})
  ELSE IF isInf(f, c) THEN Ret(c, {})
  ELSE IF isZero(f, a) \/ isZero(f, b)
  THEN Ret(IF isZero(f, c) /\ sP # sC THEN Zero(f, Bit(mode = "min")) ELSE c, {})
  ELSE sum

\* The cascade of tests in f32_mulAdd settles the cases one by one.
LEMMA FusedArms ==
  ASSUME NEW f, NEW a, NEW b, NEW c, Kinds(f, a), Kinds(f, b), Kinds(f, c), NEW sP, NEW sC, NEW sum, NEW mode
  PROVE  Fused(f, a, b, c, sP, sC, sum, mode) = Settled(f, a, b, c, sP, sC, sum, mode)
<1> DEFINE nan  == isNaNUI(f, a) \/ isNaNUI(f, b)
           inf  == isInf(f, a) \/ isInf(f, b)
           zero == isZero(f, a) \/ isZero(f, b)
           nanC == isNaNUI(f, c)
           infC == isInf(f, c)
           finC == expUI(f, c) # expMax(f)
           ab   == softfloat_propagateNaNF32UI(f, a, b)
           nans == Ret(defaultNaNUI(f), ab.fl \cup softfloat_propagateNaNF32UI(f, ab.ui, c).fl)
           nansC == softfloat_propagateNaNF32UI(f, 0, c)
           same == Ret(IF isZero(f, c) /\ sP # sC THEN Zero(f, Bit(mode = "min")) ELSE c, {})
           retInf == Ret(Inf(f, sP), {})
           retC == Ret(c, {})
           bad  == Invalid(f)
           rest == CASE nanC -> nansC
                     [] inf /\ infC /\ sP # sC -> bad
                     [] inf /\ ~nanC /\ (infC => sP = sC) -> retInf
                     [] ~inf /\ infC -> retC
                     [] zero /\ finC -> same
                     [] OTHER -> sum
<1>1. Fused(f, a, b, c, sP, sC, sum, mode) = CASE nan -> nans [] inf /\ zero -> bad [] OTHER -> rest
  BY Zenon DEF Fused
<1>2. ~(nan /\ inf /\ zero)
  BY DEF Kinds
<1>3. ~(nanC /\ infC) /\ (finC <=> ~nanC /\ ~infC)
  BY DEF Kinds
<1> HIDE DEF nan, inf, zero, nanC, infC, finC, ab, nans, nansC, same, retInf, retC, bad
<1>4. ~(inf /\ zero) => rest = IF nanC THEN nansC ELSE IF inf THEN IF infC /\ sP # sC THEN bad ELSE retInf
             ELSE IF infC THEN retC ELSE IF zero THEN same ELSE sum
  BY <1>3
<1>5. Fused(f, a, b, c, sP, sC, sum, mode) = IF nan THEN nans ELSE IF inf /\ zero THEN bad ELSE rest
  <2> HIDE DEF rest
  <2>1. QED
    BY <1>1, <1>2
<1>6. Fused(f, a, b, c, sP, sC, sum, mode) =
        IF nan THEN nans ELSE IF inf /\ zero THEN bad ELSE IF nanC THEN nansC
        ELSE IF inf THEN IF infC /\ sP # sC THEN bad ELSE retInf
        ELSE IF infC THEN retC ELSE IF zero THEN same ELSE sum
  <2> HIDE DEF rest
  <2>1. QED
    BY <1>4, <1>5
<1>7. QED
  BY <1>6, Zenon DEF Settled, nan, inf, zero, nanC, infC, ab, nans, nansC, same, retInf, retC, bad

\* The NaN of the first two operands signals nothing.
FusesNaNs(f, a, b, c) ==
  /\ Ret(defaultNaNUI(f),
         softfloat_propagateNaNF32UI(f, a, b).fl
           \cup softfloat_propagateNaNF32UI(f, softfloat_propagateNaNF32UI(f, a, b).ui, c).fl) = NaNs(f, {a, b, c})
  /\ softfloat_propagateNaNF32UI(f, 0, c) = NaNs(f, {c})

\* A product of an infinity by zero, and a NaN among three operands, return what the promise says.
LEMMA FusedNaNs ==
  ASSUME NEW f, FormatLaws(f), NEW a, NEW b, NEW c
  PROVE  FusesNaNs(f, a, b, c)
<1>1. PICK g \in Nat \ {0}, H \in Nat \ {0, 1}, P \in Nat \ (0..2), S \in Nat :
        g = hidden(f) \div 2 /\ H = hidden(f) /\ H = 2 * g /\ P = 2^f.E /\ S = signBit(f) /\ S = P * H
  <2>1. PICK g \in Nat \ {0} : g = hidden(f) \div 2 /\ hidden(f) = 2 * g
    BY DEF FormatLaws
  <2>2. PICK P \in Nat \ (0..2) : P = 2^f.E
    BY DEF FormatLaws
  <2>3. PICK H \in Nat \ {0, 1} : H = hidden(f) /\ H = 2 * g
    BY <2>1
  <2>4. signBit(f) = P * H /\ P * H \in Nat
    BY <2>2, <2>3 DEF FormatLaws
  <2>5. QED
    BY <2>1, <2>2, <2>3, <2>4
<1>2. ~softfloat_isSigNaNF32UI(f, defaultNaNUI(f))
  <2>1. defaultNaNUI(f) = (H * ((2 * P) - 1)) + (H - 1)
    <3>1. PICK y \in Nat : y = P * H
      OBVIOUS
    <3>2. H * ((2 * P) - 1) = (2 * y) - H
      BY <3>1
    <3>3. QED
      BY <1>1, <3>1, <3>2 DEF defaultNaNUI
  <2>2. PICK n \in Int : n = defaultNaNUI(f) /\ n = (H * ((2 * P) - 1)) + (H - 1)
    BY <2>1
  <2>3. n % H = H - 1
    <3>1. (2 * P) - 1 \in Int /\ H - 1 \in 0..(H - 1)
      OBVIOUS
    <3>2. QED
      BY <2>2, <3>1, DivModUnique
  <2>4. fracUI(f, defaultNaNUI(f)) = H - 1
    BY <1>1, <2>2, <2>3 DEF fracUI
  <2>5. H - 1 \notin 1..(g - 1)
    BY <1>1
  <2>6. QED
    BY <1>1, <2>4, <2>5 DEF softfloat_isSigNaNF32UI
<1>3. ~softfloat_isSigNaNF32UI(f, 0)
  <2>1. 0 % H = 0
    OBVIOUS
  <2>2. fracUI(f, 0) = 0
    BY <1>1, <2>1 DEF fracUI
  <2>3. QED
    BY <2>2 DEF softfloat_isSigNaNF32UI
<1>4. softfloat_propagateNaNF32UI(f, a, b).ui = defaultNaNUI(f)
  BY DEF softfloat_propagateNaNF32UI, Ret
<1>5. softfloat_propagateNaNF32UI(f, a, b).fl
          = IF softfloat_isSigNaNF32UI(f, a) \/ softfloat_isSigNaNF32UI(f, b) THEN {"invalid"} ELSE {}
  BY DEF softfloat_propagateNaNF32UI, Ret
<1>6. softfloat_propagateNaNF32UI(f, defaultNaNUI(f), c).fl
          = IF softfloat_isSigNaNF32UI(f, c) THEN {"invalid"} ELSE {}
  BY <1>2 DEF softfloat_propagateNaNF32UI, Ret
<1>7. softfloat_propagateNaNF32UI(f, a, b).fl
        \cup softfloat_propagateNaNF32UI(f, softfloat_propagateNaNF32UI(f, a, b).ui, c).fl
        = IF \E x \in {a, b, c} : f32_isSignalingNaN(f, x) THEN {"invalid"} ELSE {}
  BY <1>4, <1>5, <1>6 DEF f32_isSignalingNaN
<1>8. softfloat_propagateNaNF32UI(f, 0, c) = NaNs(f, {c})
  <2>1. (softfloat_isSigNaNF32UI(f, 0) \/ softfloat_isSigNaNF32UI(f, c)) <=> \E x \in {c} : f32_isSignalingNaN(f, x)
    BY <1>3 DEF f32_isSignalingNaN
  <2>2. QED
    BY <2>1, Zenon DEF softfloat_propagateNaNF32UI, NaNs
<1>9. QED
  BY <1>7, <1>8, Zenon DEF NaNs, FusesNaNs

\* The unit of products is positive.
LEMMA UnityPositive ==
  ASSUME NEW f, IsFormat(f)
  PROVE  Unity(f) \in Nat \ {0}
<1>1. PICK h \in Nat, u \in Nat, e \in Nat : Sizes(f, h, u, e)
  BY FormatSizes
<1>2. h # 0
  BY <1>1 DEF Sizes
<1>3. PICK B \in Nat \ {0} : Unity(f) = h * B
  BY <1>1, UnityIs
<1>4. h * B \in Nat \ {0}
  BY <1>2
<1>5. QED
  BY <1>3, <1>4

\* A finite number is itself when it is rounded.
LEMMA TermAlone ==
  ASSUME NEW f, IsFormat(f), FormatLaws(f), NEW mode, NEW c \in Patterns(f), ~isNaNUI(f, c), ~isInf(f, c)
  PROVE  RoundedRatio(f, signUI(f, c), Mag(f, c) * Unity(f), Unity(f), mode) = Ret(c, {})
<1>1. PICK h \in Nat \ {0}, U \in Nat \ {0} : hidden(f) = h /\ Unity(f) = U
  BY UnityPositive DEF FormatLaws
<1>2. PICK S \in Nat \ {0}, s \in 0..1, m \in 0..(Inf(f, 0) - 1), y \in Nat :
        S = signBit(f) /\ s = signUI(f, c) /\ m = c % S /\ c = y + m /\ y = s * S
  <2>1. PICK S \in Nat \ {0}, s \in 0..1 : S = signBit(f) /\ s = signUI(f, c) /\ c = (S * s) + (c % S)
    BY PatternIs
  <2>2. PICK y \in Nat : y = s * S /\ S * s = y
    OBVIOUS
  <2>3. c % S \in 0..(Inf(f, 0) - 1)
    BY <2>1, FiniteIs
  <2>4. QED
    BY <2>1, <2>2, <2>3
<1>3. PICK n \in Nat : n = Mag(f, c) * Unity(f) /\ Times(Val(f, m), U, n)
  <2>1. PICK v \in Nat : v = Mag(f, c)
    BY FiniteIs
  <2>2. PICK n \in Nat : n = v * U
    OBVIOUS
  <2>3. Mag(f, c) = Val(f, m)
    BY <1>2 DEF Mag
  <2>4. QED
    BY <1>1, <2>1, <2>2, <2>3 DEF Times
<1>4. Inf(f, 0) \in Nat /\ s * signBit(f) \in Int /\ (s * signBit(f)) + m = c
  BY <1>2, FiniteIs
<1>5. RoundedRatio(f, s, n, U, mode) = Ret((s * signBit(f)) + m, {})
  BY <1>1, <1>3, <1>4, RoundExact
<1>6. QED
  BY <1>1, <1>2, <1>3, <1>4, <1>5

\* The sum of a product of two zeros, or of one, and c.
LEMMA ZeroProduct ==
  ASSUME NEW f, IsFormat(f), FormatLaws(f), NEW mode, NEW c \in Patterns(f), ~isNaNUI(f, c), ~isInf(f, c)
  PROVE  RoundedSum(f, 0 + (SVal(f, c) * Unity(f)), Unity(f), mode) =
           IF isZero(f, c) THEN Ret(Zero(f, Bit(mode = "min")), {}) ELSE Ret(c, {})
<1>1. PICK U \in Nat \ {0} : Unity(f) = U
  BY UnityPositive
<1>2. PICK m \in Nat, t \in 0..1, n \in Nat : m = Mag(f, c) /\ t = signUI(f, c) /\ n = m * U
  <2>1. PICK m \in Nat, t \in 0..1 : m = Mag(f, c) /\ t = signUI(f, c)
    BY FiniteIs, PatternIs
  <2>2. QED
    BY <2>1
<1>3. SVal(f, c) * U = (IF t = 1 THEN -n ELSE n)
  <2>1. (-m) * U = -(m * U)
    OBVIOUS
  <2>2. QED
    BY <1>2, <2>1 DEF SVal
<1>4. CASE isZero(f, c)
  <2>1. n = 0
    BY <1>2, <1>4, PatternKinds
  <2>2. 0 + (SVal(f, c) * U) = 0
    BY <1>3, <2>1
  <2>3. QED
    BY <1>1, <1>4, <2>2, Zenon DEF RoundedSum
<1>5. CASE ~isZero(f, c)
  <2>1. m # 0
    BY <1>2, <1>5, MagZero
  <2>2. n # 0
    BY <1>2, <2>1
  <2>3. PICK x \in Int : x = 0 + (SVal(f, c) * U)
    BY <1>3
  <2>4. x # 0 /\ Sign(x) = t /\ Abs(x) = n
    BY <1>3, <2>2, <2>3 DEF Sign, Abs, Bit
  <2>5. RoundedSum(f, x, U, mode) = RoundedRatio(f, t, n, U, mode)
    BY <2>4, Zenon DEF RoundedSum
  <2>6. RoundedRatio(f, t, n, U, mode) = Ret(c, {})
    BY <1>1, <1>2, TermAlone
  <2>7. QED
    BY <1>1, <1>5, <2>3, <2>5, <2>6, Zenon
<1>6. QED
  BY <1>4, <1>5

\* What a product of two numbers other than zero fuses to with a number c.
FusedFinite(f, s, t, zero, mP, mC, mode) ==
  IF zero THEN RoundedRatio(f, s, mP, Unity(f), mode)
  ELSE IF s = t THEN RoundedRatio(f, s, mP + mC, Unity(f), mode) ELSE FusedDifference(f, s, mP, mC, mode)

\* The signed product of MulAddSpec.
SignedProduct(f, a, b) == IF SignXor(f, a, b) = 1 THEN -(Mag(f, a) * Mag(f, b)) ELSE Mag(f, a) * Mag(f, b)

\* The promise for three finite operands, by the kinds that f32_mulAdd tells apart.
LEMMA FinitePromised ==
  ASSUME NEW f, IsFormat(f), FormatLaws(f), NEW mode,
         NEW a \in Patterns(f), NEW b \in Patterns(f), NEW c \in Patterns(f),
         ~isNaNUI(f, a), ~isInf(f, a), ~isNaNUI(f, b), ~isInf(f, b), ~isNaNUI(f, c), ~isInf(f, c)
  PROVE  RoundedSum(f, SignedProduct(f, a, b) + (SVal(f, c) * Unity(f)), Unity(f), mode) =
           IF isZero(f, a) \/ isZero(f, b)
           THEN IF isZero(f, c) THEN Ret(Zero(f, Bit(mode = "min")), {}) ELSE Ret(c, {})
           ELSE FusedFinite(f, SignXor(f, a, b), signUI(f, c), isZero(f, c), Mag(f, a) * Mag(f, b), Mag(f, c) * Unity(f), mode)
<1>1. PICK mA \in Nat, mB \in Nat, mP \in Nat : mA = Mag(f, a) /\ mB = Mag(f, b) /\ mP = mA * mB
  <2>1. PICK mA \in Nat, mB \in Nat : mA = Mag(f, a) /\ mB = Mag(f, b)
    BY FiniteIs
  <2>2. QED
    BY <2>1
<1>2. PICK s \in 0..1, t \in 0..1 : s = SignXor(f, a, b) /\ t = signUI(f, c)
  BY SignIs
<1>3. SignedProduct(f, a, b) = (IF s = 1 THEN -mP ELSE mP)
  BY <1>1, <1>2, Zenon DEF SignedProduct
<1>4. CASE isZero(f, a) \/ isZero(f, b)
  <2>1. mA = 0 \/ mB = 0
    BY <1>1, <1>4, PatternKinds
  <2>2. mP = 0
    BY <1>1, <2>1
  <2>3. SignedProduct(f, a, b) = 0
    <3>1. \A n \in Nat : n <= 0 => -n = 0 /\ n = 0
      OBVIOUS
    <3>2. mP <= 0
      BY <2>2
    <3>3. -mP = 0 /\ mP = 0
      BY <3>1, <3>2, Zenon
    <3>4. QED
      BY <1>3, <3>3, Zenon
  <2>4. QED
    BY <1>2, <1>4, <2>3, ZeroProduct
<1>5. CASE ~(isZero(f, a) \/ isZero(f, b))
  <2>1. mA # 0 /\ mB # 0
    BY <1>1, <1>5, MagZero
  <2>2. mP # 0
    BY <1>1, <2>1
  <2>3. PICK U \in Nat \ {0} : Unity(f) = U
    BY UnityPositive
  <2>4. PICK m \in Nat, n \in Nat : m = Mag(f, c) /\ n = m * U
    <3>1. PICK m \in Nat : m = Mag(f, c)
      BY FiniteIs
    <3>2. QED
      BY <3>1
  <2>5. SVal(f, c) * U = (IF t = 1 THEN -n ELSE n)
    <3>1. (-m) * U = -(m * U)
      OBVIOUS
    <3>2. QED
      BY <1>2, <2>4, <3>1 DEF SVal
  <2>6. RoundedSum(f, SignedProduct(f, a, b) + (SVal(f, c) * U), U, mode) =
          IF s = t THEN RoundedRatio(f, s, mP + n, U, mode) ELSE FusedDifference(f, s, mP, n, mode)
    <3>1. RoundedSum(f, (IF s = 1 THEN -mP ELSE mP) + (IF t = 1 THEN -n ELSE n), Unity(f), mode) =
            IF s = t THEN RoundedRatio(f, s, mP + n, Unity(f), mode) ELSE FusedDifference(f, s, mP, n, mode)
      <4>1. mP # 0 \/ n # 0
        BY <2>2
      <4>2. IsSignedSum(f, mode, s, t, mP, n)
        BY <4>1, SignedSum
      <4>3. QED
        BY <4>2, Zenon DEF IsSignedSum
    <3>2. QED
      BY <1>3, <2>3, <2>5, <3>1, Zenon
  <2>7. isZero(f, c) => (IF s = t THEN RoundedRatio(f, s, mP + n, U, mode) ELSE FusedDifference(f, s, mP, n, mode))
                          = RoundedRatio(f, s, mP, U, mode)
    <3>1. HAVE isZero(f, c)
    <3>2. n = 0
      BY <2>4, <3>1, PatternKinds
    <3>3. mP + n = mP /\ mP - n = mP /\ n < mP /\ mP # n
      BY <2>2, <3>2
    <3>4. QED
      BY <2>3, <3>3, Zenon DEF FusedDifference
  <2>8. n = Mag(f, c) * Unity(f) /\ mP = Mag(f, a) * Mag(f, b)
    BY <1>1, <2>3, <2>4
  <2>9. FusedFinite(f, s, t, isZero(f, c), mP, n, mode) =
          IF s = t THEN RoundedRatio(f, s, mP + n, U, mode) ELSE FusedDifference(f, s, mP, n, mode)
    BY <2>3, <2>7, Zenon DEF FusedFinite
  <2>10. QED
    BY <1>2, <1>5, <2>3, <2>6, <2>8, <2>9, Zenon
<1>6. QED
  BY <1>4, <1>5

\* The sums of softfloat_mulAddF32 and softfloat_mulAddF64, with the signs of the product and of c given.
FusionF32(f, c, sP, sC, p, z, mode) ==
  CASE isZero(f, c) ->
         softfloat_roundPackToF32(f, sP, p.exp - 1, softfloat_shortShift64RightJam(p.sig, word(f) - 1), mode)
    [] ~isZero(f, c) /\ sP = sC -> PlusF32(f, sP, p, z, mode)
    [] ~isZero(f, c) /\ sP # sC -> MinusF32(f, sP, p, z, mode)
FusionF64(f, c, sP, sC, q, z, mode) ==
  CASE isZero(f, c) -> softfloat_roundPackToF64(f, sP, q.exp - 1, 2 * q.sig.hi + Bit(q.sig.lo # 0), mode)
    [] ~isZero(f, c) /\ sP = sC -> PlusF64(f, sP, q, z, mode)
    [] ~isZero(f, c) /\ sP # sC -> MinusF64(f, sP, q, z, mode)

\* f32_mulAdd and f64_mulAdd ask for neither subtraction.
LEMMA MulAddSteps ==
  ASSUME NEW f, FormatLaws(f), NEW mode, NEW a \in Patterns(f), NEW b \in Patterns(f), NEW c \in Patterns(f)
  PROVE  LET sP == SignXor(f, a, b)
             sC == signUI(f, c)
             p  == ProductF32(f, Normal(f, a), Normal(f, b))
             q  == ProductF64(f, Normal(f, a), Normal(f, b))
             z  == Addend(f, Normal(f, c))
         IN /\ f32_mulAdd(f, a, b, c, mode) = Fused(f, a, b, c, sP, sC, FusionF32(f, c, sP, sC, p, z, mode), mode)
            /\ f64_mulAdd(f, a, b, c, mode) = Fused(f, a, b, c, sP, sC, FusionF64(f, c, sP, sC, q, z, mode), mode)
<1>1. PICK sA \in 0..1, sB \in 0..1, sC \in 0..1 : sA = signUI(f, a) /\ sB = signUI(f, b) /\ sC = signUI(f, c)
  BY SignIs
<1>2. (signUI(f, c) + Bit(0 = softfloat_mulAdd_subC)) % 2 = signUI(f, c)
      /\ (signUI(f, c) + Bit((0 \div softfloat_mulAdd_subC) % 2 = 1)) % 2 = signUI(f, c)
  <2>1. Bit(0 = 1) = 0 /\ Bit((0 \div 1) % 2 = 1) = 0
    BY DEF Bit
  <2>2. (sC + 0) % 2 = sC
    OBVIOUS
  <2>3. QED
    BY <1>1, <2>1, <2>2, Zenon DEF softfloat_mulAdd_subC
<1>3. (signUI(f, a) + signUI(f, b) + Bit(0 = softfloat_mulAdd_subProd)) % 2 = SignXor(f, a, b)
      /\ (signUI(f, a) + signUI(f, b) + Bit((0 \div softfloat_mulAdd_subProd) % 2 = 1)) % 2 = SignXor(f, a, b)
  <2>1. Bit(0 = 2) = 0 /\ Bit((0 \div 2) % 2 = 1) = 0
    BY DEF Bit
  <2>2. (sA + sB + 0) % 2 = (sA + sB) % 2
    OBVIOUS
  <2>3. QED
    BY <1>1, <2>1, <2>2, Zenon DEF softfloat_mulAdd_subProd, SignXor
<1>4. f32_mulAdd(f, a, b, c, mode) =
        Fused(f, a, b, c, SignXor(f, a, b), signUI(f, c),
              FusionF32(f, c, SignXor(f, a, b), signUI(f, c), ProductF32(f, Normal(f, a), Normal(f, b)),
                        Addend(f, Normal(f, c)), mode), mode)
  BY <1>2, <1>3, Zenon DEF f32_mulAdd, softfloat_mulAddF32, FusionF32
<1>5. f64_mulAdd(f, a, b, c, mode) =
        Fused(f, a, b, c, SignXor(f, a, b), signUI(f, c),
              FusionF64(f, c, SignXor(f, a, b), signUI(f, c), ProductF64(f, Normal(f, a), Normal(f, b)),
                        Addend(f, Normal(f, c)), mode), mode)
  BY <1>2, <1>3, Zenon DEF f64_mulAdd, softfloat_mulAddF64, FusionF64
<1>6. QED
  BY <1>4, <1>5, Zenon

\* Both sums are rounded once.
LEMMA FusionsFinite ==
  ASSUME NEW f, IsFormat(f), IsEven(f), NEW s, NEW mode, IsMode(s, mode), NEW t,
         NEW a \in Patterns(f), NEW b \in Patterns(f), NEW c \in Patterns(f), ~isZero(f, a), ~isZero(f, b)
  PROVE  LET p == ProductF32(f, Normal(f, a), Normal(f, b))
             q == ProductF64(f, Normal(f, a), Normal(f, b))
             z == Addend(f, Normal(f, c))
             r == FusedFinite(f, s, t, isZero(f, c), Mag(f, a) * Mag(f, b), Mag(f, c) * Unity(f), mode)
         IN FusionF32(f, c, s, t, p, z, mode) = r /\ FusionF64(f, c, s, t, q, z, mode) = r
<1>1. PICK p, q, z, mP, mC : /\ p = ProductF32(f, Normal(f, a), Normal(f, b)) /\ q = ProductF64(f, Normal(f, a), Normal(f, b))
                             /\ z = Addend(f, Normal(f, c)) /\ mP = Mag(f, a) * Mag(f, b) /\ mC = Mag(f, c) * Unity(f)
  OBVIOUS
<1>2. FusesAlone(f, s, mode, p, q, mP) /\ (~isZero(f, c) => FusesTerm(f, s, mode, p, q, mP, z, mC))
  <2>1. /\ FusesAlone(f, s, mode, ProductF32(f, Normal(f, a), Normal(f, b)), ProductF64(f, Normal(f, a), Normal(f, b)),
                      Mag(f, a) * Mag(f, b))
        /\ ~isZero(f, c) => FusesTerm(f, s, mode, ProductF32(f, Normal(f, a), Normal(f, b)),
                                      ProductF64(f, Normal(f, a), Normal(f, b)), Mag(f, a) * Mag(f, b),
                                      Addend(f, Normal(f, c)), Mag(f, c) * Unity(f))
    BY FiniteFusions
  <2>2. QED
    BY <1>1, <2>1, Zenon
<1>3. FusionF32(f, c, s, t, p, z, mode) = FusedFinite(f, s, t, isZero(f, c), mP, mC, mode)
      /\ FusionF64(f, c, s, t, q, z, mode) = FusedFinite(f, s, t, isZero(f, c), mP, mC, mode)
  <2>1. CASE isZero(f, c)
    BY <1>2, <2>1, Zenon DEF FusionF32, FusionF64, FusedFinite, FusesAlone
  <2>2. CASE ~isZero(f, c) /\ s = t
    BY <1>2, <2>2, Zenon DEF FusionF32, FusionF64, FusedFinite, FusesTerm
  <2>3. CASE ~isZero(f, c) /\ s # t
    BY <1>2, <2>3, Zenon DEF FusionF32, FusionF64, FusedFinite, FusesTerm
  <2>4. QED
    BY <2>1, <2>2, <2>3, Zenon
<1>4. QED
  BY <1>1, <1>3, Zenon

\* f32_mulAdd and f64_mulAdd: a * b + c rounded once, for operands of every format.
THEOREM FusionsRound ==
  ASSUME NEW f, IsFormat(f), IsEven(f), NEW mode \in RoundingModes,
         NEW a \in Patterns(f), NEW b \in Patterns(f), NEW c \in Patterns(f)
  PROVE  f32_mulAdd(f, a, b, c, mode) = MulAddSpec(f, a, b, c, mode) /\ f64_mulAdd(f, a, b, c, mode) = MulAddSpec(f, a, b, c, mode)
<1> FormatLaws(f)
  BY FormatLaw
<1> DEFINE sP == SignXor(f, a, b)
           sC == signUI(f, c)
           fS == FusionF32(f, c, sP, sC, ProductF32(f, Normal(f, a), Normal(f, b)), Addend(f, Normal(f, c)), mode)
           fD == FusionF64(f, c, sP, sC, ProductF64(f, Normal(f, a), Normal(f, b)), Addend(f, Normal(f, c)), mode)
           r  == FusedFinite(f, sP, sC, isZero(f, c), Mag(f, a) * Mag(f, b), Mag(f, c) * Unity(f), mode)
           sum == RoundedSum(f, SignedProduct(f, a, b) + (SVal(f, c) * Unity(f)), Unity(f), mode)
           min == Ret(Zero(f, Bit(mode = "min")), {})
<1>1. Kinds(f, a) /\ Kinds(f, b) /\ Kinds(f, c)
  BY PatternKinds
<1>2. IsMode(sP, mode)
  BY SignIs DEF IsMode
<1>3. f32_mulAdd(f, a, b, c, mode) = Fused(f, a, b, c, sP, sC, fS, mode)
      /\ f64_mulAdd(f, a, b, c, mode) = Fused(f, a, b, c, sP, sC, fD, mode)
  BY MulAddSteps, Zenon
<1>4. ~isZero(f, a) /\ ~isZero(f, b) => fS = r /\ fD = r
  <2>1. SUFFICES ASSUME ~isZero(f, a), ~isZero(f, b) PROVE fS = r /\ fD = r
    OBVIOUS
  <2>2. PICK s, t : s = sP /\ t = sC
    OBVIOUS
  <2>3. IsMode(s, mode)
    BY <1>2, <2>2
  <2>4. /\ FusionF32(f, c, s, t, ProductF32(f, Normal(f, a), Normal(f, b)), Addend(f, Normal(f, c)), mode)
             = FusedFinite(f, s, t, isZero(f, c), Mag(f, a) * Mag(f, b), Mag(f, c) * Unity(f), mode)
        /\ FusionF64(f, c, s, t, ProductF64(f, Normal(f, a), Normal(f, b)), Addend(f, Normal(f, c)), mode)
             = FusedFinite(f, s, t, isZero(f, c), Mag(f, a) * Mag(f, b), Mag(f, c) * Unity(f), mode)
    BY <2>1, <2>3, FusionsFinite
  <2>5. QED
    BY <2>2, <2>4, Zenon
<1>5. ~isNaNUI(f, a) /\ ~isNaNUI(f, b) /\ ~isNaNUI(f, c) /\ ~isInf(f, a) /\ ~isInf(f, b) /\ ~isInf(f, c)
        => sum = IF isZero(f, a) \/ isZero(f, b) THEN IF isZero(f, c) THEN min ELSE Ret(c, {}) ELSE r
  BY FinitePromised
<1>6. MulAddSpec(f, a, b, c, mode) =
        IF isNaNUI(f, a) \/ isNaNUI(f, b) THEN NaNs(f, {a, b, c})
        ELSE IF (isInf(f, a) \/ isInf(f, b)) /\ (isZero(f, a) \/ isZero(f, b)) THEN Invalid(f)
        ELSE IF isNaNUI(f, c) THEN NaNs(f, {c})
        ELSE IF isInf(f, a) \/ isInf(f, b)
        THEN IF isInf(f, c) /\ sC # sP THEN Invalid(f) ELSE Ret(Inf(f, sP), {})
        ELSE IF isInf(f, c) \/ ((isZero(f, a) \/ isZero(f, b)) /\ isZero(f, c) /\ sC = sP) THEN Ret(c, {})
        ELSE sum
  BY Zenon DEF MulAddSpec, SignedProduct
<1>7. ASSUME NEW x, ~isZero(f, a) /\ ~isZero(f, b) => x = r
      PROVE  Fused(f, a, b, c, sP, sC, x, mode) = MulAddSpec(f, a, b, c, mode)
  <2> HIDE DEF sP, sC, r, sum
  <2>1. Fused(f, a, b, c, sP, sC, x, mode) =
           IF isNaNUI(f, a) \/ isNaNUI(f, b) THEN NaNs(f, {a, b, c})
           ELSE IF (isInf(f, a) \/ isInf(f, b)) /\ (isZero(f, a) \/ isZero(f, b)) THEN Invalid(f)
           ELSE IF isNaNUI(f, c) THEN NaNs(f, {c})
           ELSE IF isInf(f, a) \/ isInf(f, b)
           THEN IF isInf(f, c) /\ sP # sC THEN Invalid(f) ELSE Ret(Inf(f, sP), {})
           ELSE IF isInf(f, c) THEN Ret(c, {})
           ELSE IF isZero(f, a) \/ isZero(f, b)
           THEN Ret(IF isZero(f, c) /\ sP # sC THEN Zero(f, Bit(mode = "min")) ELSE c, {})
           ELSE x
    <3>1. Fused(f, a, b, c, sP, sC, x, mode) = Settled(f, a, b, c, sP, sC, x, mode)
      BY <1>1, FusedArms, Zenon
    <3>2. FusesNaNs(f, a, b, c)
      BY FusedNaNs
    <3>3. QED
      BY <3>1, <3>2, Zenon DEF Settled, FusesNaNs
  <2>2. CASE isNaNUI(f, a) \/ isNaNUI(f, b)
    BY <1>6, <2>1, <2>2, Zenon
  <2>3. CASE ~(isNaNUI(f, a) \/ isNaNUI(f, b)) /\ (isInf(f, a) \/ isInf(f, b)) /\ (isZero(f, a) \/ isZero(f, b))
    BY <1>6, <2>1, <2>3, Zenon
  <2>4. CASE /\ ~(isNaNUI(f, a) \/ isNaNUI(f, b)) /\ ~((isInf(f, a) \/ isInf(f, b)) /\ (isZero(f, a) \/ isZero(f, b)))
             /\ isNaNUI(f, c)
    BY <1>6, <2>1, <2>4, Zenon
  <2>5. CASE /\ ~(isNaNUI(f, a) \/ isNaNUI(f, b)) /\ ~((isInf(f, a) \/ isInf(f, b)) /\ (isZero(f, a) \/ isZero(f, b)))
             /\ ~isNaNUI(f, c) /\ (isInf(f, a) \/ isInf(f, b))
    BY <1>6, <2>1, <2>5, Zenon
  <2>6. CASE ~(isNaNUI(f, a) \/ isNaNUI(f, b)) /\ ~isNaNUI(f, c) /\ ~(isInf(f, a) \/ isInf(f, b)) /\ isInf(f, c)
    BY <1>6, <2>1, <2>6, Zenon
  <2>7. CASE ~(isNaNUI(f, a) \/ isNaNUI(f, b)) /\ ~isNaNUI(f, c) /\ ~(isInf(f, a) \/ isInf(f, b)) /\ ~isInf(f, c)
    <3>1. sum = IF isZero(f, a) \/ isZero(f, b) THEN IF isZero(f, c) THEN min ELSE Ret(c, {}) ELSE r
      BY <1>5, <2>7
    <3>2. MulAddSpec(f, a, b, c, mode) =
            IF (isZero(f, a) \/ isZero(f, b)) /\ isZero(f, c) /\ sC = sP THEN Ret(c, {}) ELSE sum
      BY <1>6, <2>7, Zenon
    <3>3. Fused(f, a, b, c, sP, sC, x, mode) =
            IF isZero(f, a) \/ isZero(f, b)
            THEN Ret(IF isZero(f, c) /\ sP # sC THEN Zero(f, Bit(mode = "min")) ELSE c, {}) ELSE x
      BY <2>1, <2>7, Zenon
    <3>4. CASE ~(isZero(f, a) \/ isZero(f, b))
      BY <1>7, <3>1, <3>2, <3>3, <3>4, Zenon
    <3>5. CASE (isZero(f, a) \/ isZero(f, b)) /\ ~isZero(f, c)
      BY <3>1, <3>2, <3>3, <3>5, Zenon
    <3>6. CASE (isZero(f, a) \/ isZero(f, b)) /\ isZero(f, c)
      BY <3>1, <3>2, <3>3, <3>6, Zenon
    <3>7. QED
      BY <3>4, <3>5, <3>6, Zenon
  <2>8. QED
    BY <2>2, <2>3, <2>4, <2>5, <2>6, <2>7, Zenon
<1>8. QED
  BY <1>3, <1>4, <1>7, Zenon

-----------------------------------------------------------------------------
(* The calls.                                                              *)

Adds       == {"f32_add", "f64_add"}
Subtracts  == {"f32_sub", "f64_sub"}
Multiplies == {"f32_mul", "f64_mul"}
Divides    == {"f32_div", "f64_div"}
TakesRoots == {"f32_sqrt", "f64_sqrt"}
Calculates == Adds \cup Subtracts \cup Multiplies \cup Divides \cup TakesRoots

\* No other action calls an operation of the arithmetic.
LEMMA NotCalculated ==
  ASSUME \/ QuotientEstimates \/ Fusions \/ Remainders \/ IntegralValues
         \/ FromFloat32 \/ FromFloat64 \/ FromInteger \/ BetweenFloats
         \/ Comparisons \/ Classes \/ Return
  PROVE  call'.op \notin Calculates
<1> USE DEF Called, None, Calculates, Adds, Subtracts, Multiplies, Divides, TakesRoots
<1>1. CASE QuotientEstimates
  BY <1>1 DEF QuotientEstimates
<1>2. CASE Fusions
  BY <1>2 DEF Fusions
<1>3. CASE Remainders
  BY <1>3 DEF Remainders
<1>4. CASE IntegralValues
  BY <1>4 DEF IntegralValues
<1>5. CASE FromFloat32
  BY <1>5 DEF FromFloat32
<1>6. CASE FromFloat64
  BY <1>6 DEF FromFloat64
<1>7. CASE FromInteger
  BY <1>7 DEF FromInteger
<1>8. CASE BetweenFloats
  BY <1>8 DEF BetweenFloats
<1>9. CASE Comparisons
  BY <1>9 DEF Comparisons
<1>10. CASE Classes
  BY <1>10 DEF Classes
<1>11. CASE Return
  BY <1>11 DEF Return
<1>12. QED
  BY <1>1, <1>2, <1>3, <1>4, <1>5, <1>6, <1>7, <1>8, <1>9, <1>10, <1>11

\* No operation writes the rounding mode of its caller.
LEMMA ModeStands ==
  ASSUME [Next]_vars
  PROVE  UNCHANGED softfloat_roundingMode
<1> USE DEF Called
<1>1. CASE QuotientEstimates
  BY <1>1 DEF QuotientEstimates
<1>2. CASE Arithmetic
  BY <1>2 DEF Arithmetic
<1>3. CASE Roots
  BY <1>3 DEF Roots
<1>4. CASE Fusions
  BY <1>4 DEF Fusions
<1>5. CASE Remainders
  BY <1>5 DEF Remainders
<1>6. CASE IntegralValues
  BY <1>6 DEF IntegralValues
<1>7. CASE FromFloat32 \/ FromFloat64
  BY <1>7 DEF FromFloat32, FromFloat64
<1>8. CASE FromInteger
  BY <1>8 DEF FromInteger
<1>9. CASE BetweenFloats
  BY <1>9 DEF BetweenFloats
<1>10. CASE Comparisons \/ Classes
  BY <1>10 DEF Comparisons, Classes
<1>11. CASE Return \/ UNCHANGED vars
  BY <1>11 DEF Return, vars
<1>12. QED
  BY <1>1, <1>2, <1>3, <1>4, <1>5, <1>6, <1>7, <1>8, <1>9, <1>10, <1>11 DEF Next

\* An operation of two operands returns the promised result.
LEMMA ArithmeticReturns ==
  ASSUME Arithmetic, rm \in RoundingModes
  PROVE  \E a \in Patterns(Fmt), b \in Patterns(Fmt) :
           /\ call'.args = <<a, b>> /\ call'.rm = rm
           /\ \/ call'.op \in Adds /\ ret' = AddSpec(Fmt, a, b, rm)
              \/ call'.op \in Subtracts /\ ret' = SubSpec(Fmt, a, b, rm)
              \/ call'.op \in Multiplies /\ ret' = MulSpec(Fmt, a, b, rm)
              \/ call'.op \in Divides /\ ret' = DivSpec(Fmt, a, b, rm)
<1>1. PICK a \in Patterns(Fmt), b \in Patterns(Fmt) :
        /\ call'.args = <<a, b>> /\ call'.rm = rm
        /\ \/ call'.op \in Adds /\ ret' \in {f32_add(Fmt, a, b, rm), f64_add(Fmt, a, b, rm)}
           \/ call'.op \in Subtracts /\ ret' \in {f32_sub(Fmt, a, b, rm), f64_sub(Fmt, a, b, rm)}
           \/ call'.op \in Multiplies /\ ret' \in {f32_mul(Fmt, a, b, rm), f64_mul(Fmt, a, b, rm)}
           \/ call'.op \in Divides /\ ret' \in {f32_div(Fmt, a, b, rm), f64_div(Fmt, a, b, rm)}
  BY DEF Arithmetic, Called, Adds, Subtracts, Multiplies, Divides
<1>2. IsFormat(Fmt) /\ IsEven(Fmt)
  BY FpAssumption DEF FpAssumption
<1>3. /\ f32_add(Fmt, a, b, rm) = AddSpec(Fmt, a, b, rm) /\ f64_add(Fmt, a, b, rm) = AddSpec(Fmt, a, b, rm)
      /\ f32_sub(Fmt, a, b, rm) = SubSpec(Fmt, a, b, rm) /\ f64_sub(Fmt, a, b, rm) = SubSpec(Fmt, a, b, rm)
  BY <1>2, SumsRound
<1>4. f32_mul(Fmt, a, b, rm) = MulSpec(Fmt, a, b, rm) /\ f64_mul(Fmt, a, b, rm) = MulSpec(Fmt, a, b, rm)
  BY <1>2, ProductsRound
<1>5. f32_div(Fmt, a, b, rm) = DivSpec(Fmt, a, b, rm) /\ f64_div(Fmt, a, b, rm) = DivSpec(Fmt, a, b, rm)
  BY <1>2, QuotientsRound
<1>6. QED
  BY <1>1, <1>3, <1>4, <1>5

\* A square root returns the promised result.
LEMMA RootsReturn ==
  ASSUME Roots, rm \in RoundingModes
  PROVE  \E a, est :
           /\ call'.args = <<a, est>> /\ call'.rm = rm
           /\ \/ call'.op = "f32_sqrt" /\ ret' = SqrtSpec(Fmt, a, rm)
              \/ call'.op = "f64_sqrt" /\ ret' = SqrtSpec(RootFmt, a, rm)
<1>1. IsFormat(Fmt) /\ IsFormat(RootFmt) /\ IsEven(RootFmt) /\ RootFmt.F >= RootFmt.G
  BY FpAssumption DEF FpAssumption
<1>2. CASE \E a \in Patterns(Fmt) : \E est \in Estimates(Fmt, a, f32_sqrtEstimates(Fmt, a)) :
             Called("f32_sqrt", <<a, est>>, rm, f32_sqrt(Fmt, a, est, rm))
  <2>1. PICK a \in Patterns(Fmt) : \E est \in Estimates(Fmt, a, f32_sqrtEstimates(Fmt, a)) :
               Called("f32_sqrt", <<a, est>>, rm, f32_sqrt(Fmt, a, est, rm))
    BY <1>2
  <2>2. PICK est \in Estimates(Fmt, a, f32_sqrtEstimates(Fmt, a)) :
               Called("f32_sqrt", <<a, est>>, rm, f32_sqrt(Fmt, a, est, rm))
    BY <2>1
  <2>3. f32_sqrt(Fmt, a, est, rm) = SqrtSpec(Fmt, a, rm)
    BY <1>1, RootsRound
  <2>4. QED
    BY <2>2, <2>3 DEF Called
<1>3. CASE \E a \in Patterns(RootFmt) : \E est \in Estimates(RootFmt, a, f64_sqrtEstimates(RootFmt, a)) :
             Called("f64_sqrt", <<a, est>>, rm, f64_sqrt(RootFmt, a, est, rm))
  <2>1. PICK a \in Patterns(RootFmt) : \E est \in Estimates(RootFmt, a, f64_sqrtEstimates(RootFmt, a)) :
               Called("f64_sqrt", <<a, est>>, rm, f64_sqrt(RootFmt, a, est, rm))
    BY <1>3
  <2>2. PICK est \in Estimates(RootFmt, a, f64_sqrtEstimates(RootFmt, a)) :
               Called("f64_sqrt", <<a, est>>, rm, f64_sqrt(RootFmt, a, est, rm))
    BY <2>1
  <2>3. f64_sqrt(RootFmt, a, est, rm) = SqrtSpec(RootFmt, a, rm)
    BY <1>1, RootsRound
  <2>4. QED
    BY <2>2, <2>3 DEF Called
<1>4. QED
  BY <1>2, <1>3 DEF Roots

\* The promise needs the caller's mode to be one of the five.
ArithmeticInv == rm \in RoundingModes /\ ArithmeticRounds

\* Sums, differences, products, quotients and square roots are the exact ones rounded once in the
\* caller's mode, with the flags that IEEE 754 asks for, in both precisions, for operands of any
\* width and any root estimate within its bounds (f32_add.c to f64_sqrt.c, primitives.h).
THEOREM ArithmeticRoundsOnce == Spec => []ArithmeticRounds
<1> USE DEF Adds, Subtracts, Multiplies, Divides
<1>1. Init => ArithmeticInv
  BY DEF Init, None, ArithmeticInv, ArithmeticRounds, Is, rm
<1>2. ArithmeticInv /\ [Next]_vars => ArithmeticInv'
  <2> SUFFICES ASSUME ArithmeticInv, [Next]_vars
               PROVE  ArithmeticInv'
    OBVIOUS
  <2>1. rm' \in RoundingModes /\ rm \in RoundingModes
    BY ModeStands DEF ArithmeticInv, rm
  <2>2. CASE Arithmetic
    <3>1. PICK a \in Patterns(Fmt), b \in Patterns(Fmt) :
            /\ call'.args = <<a, b>> /\ call'.rm = rm
            /\ \/ call'.op \in Adds /\ ret' = AddSpec(Fmt, a, b, rm)
               \/ call'.op \in Subtracts /\ ret' = SubSpec(Fmt, a, b, rm)
               \/ call'.op \in Multiplies /\ ret' = MulSpec(Fmt, a, b, rm)
               \/ call'.op \in Divides /\ ret' = DivSpec(Fmt, a, b, rm)
      BY <2>1, <2>2, ArithmeticReturns
    <3>2. Arg(1)' = a /\ Arg(2)' = b
      BY <3>1 DEF Arg
    <3>3. QED
      BY <2>1, <3>1, <3>2 DEF ArithmeticInv, ArithmeticRounds, Is
  <2>3. CASE Roots
    <3>1. PICK a, est :
            /\ call'.args = <<a, est>> /\ call'.rm = rm
            /\ \/ call'.op = "f32_sqrt" /\ ret' = SqrtSpec(Fmt, a, rm)
               \/ call'.op = "f64_sqrt" /\ ret' = SqrtSpec(RootFmt, a, rm)
      BY <2>1, <2>3, RootsReturn
    <3>2. Arg(1)' = a
      BY <3>1 DEF Arg
    <3>3. QED
      BY <2>1, <3>1, <3>2 DEF ArithmeticInv, ArithmeticRounds, Is
  <2>4. CASE \/ QuotientEstimates \/ Fusions \/ Remainders \/ IntegralValues
             \/ FromFloat32 \/ FromFloat64 \/ FromInteger \/ BetweenFloats
             \/ Comparisons \/ Classes \/ Return
    <3>1. call'.op \notin Calculates
      BY <2>4, NotCalculated
    <3>2. QED
      BY <2>1, <3>1 DEF ArithmeticInv, ArithmeticRounds, Is, Calculates, TakesRoots
  <2>5. CASE UNCHANGED vars
    BY <2>1, <2>5 DEF vars, ArithmeticInv, ArithmeticRounds, Is, Arg
  <2>6. QED
    BY <2>2, <2>3, <2>4, <2>5 DEF Next
<1>3. ArithmeticInv => ArithmeticRounds
  BY DEF ArithmeticInv
<1>4. QED
  BY <1>1, <1>2, <1>3, PTL DEF Spec

Fuses == {"f32_mulAdd", "f64_mulAdd"}

\* No other action calls mulAdd.
LEMMA NotFused ==
  ASSUME \/ QuotientEstimates \/ Arithmetic \/ Roots \/ Remainders \/ IntegralValues
         \/ FromFloat32 \/ FromFloat64 \/ FromInteger \/ BetweenFloats
         \/ Comparisons \/ Classes \/ Return
  PROVE  call'.op \notin Fuses
<1> USE DEF Called, None, Fuses
<1>1. CASE QuotientEstimates
  BY <1>1 DEF QuotientEstimates
<1>2. CASE Arithmetic
  BY <1>2 DEF Arithmetic
<1>3. CASE Roots
  BY <1>3 DEF Roots
<1>4. CASE Remainders
  BY <1>4 DEF Remainders
<1>5. CASE IntegralValues
  BY <1>5 DEF IntegralValues
<1>6. CASE FromFloat32
  BY <1>6 DEF FromFloat32
<1>7. CASE FromFloat64
  BY <1>7 DEF FromFloat64
<1>8. CASE FromInteger
  BY <1>8 DEF FromInteger
<1>9. CASE BetweenFloats
  BY <1>9 DEF BetweenFloats
<1>10. CASE Comparisons
  BY <1>10 DEF Comparisons
<1>11. CASE Classes \/ Return
  BY <1>11 DEF Classes, Return
<1>12. QED
  BY <1>1, <1>2, <1>3, <1>4, <1>5, <1>6, <1>7, <1>8, <1>9, <1>10, <1>11

\* mulAdd returns the promised result.
LEMMA FusionsReturn ==
  ASSUME Fusions, rm \in RoundingModes
  PROVE  \E a, b, c : /\ call'.args = <<a, b, c>> /\ call'.rm = rm
                      /\ ret' = MulAddSpec(FmaFmt, a, b, c, rm)
<1>1. PICK a \in Patterns(FmaFmt), c \in Patterns(FmaFmt), b \in 0..(signBit(FmaFmt) - 1) :
        /\ call'.args = <<a, b, c>> /\ call'.rm = rm
        /\ ret' \in {f32_mulAdd(FmaFmt, a, b, c, rm), f64_mulAdd(FmaFmt, a, b, c, rm)}
  BY DEF Fusions, Called
<1>2. IsFormat(FmaFmt) /\ IsEven(FmaFmt)
  BY FpAssumption DEF FpAssumption
<1>3. b \in Patterns(FmaFmt)
  <2>1. FormatLaws(FmaFmt)
    BY <1>2, FormatLaw
  <2>2. PICK S \in Nat \ {0} : S = signBit(FmaFmt)
    BY <1>1, <2>1, PatternIs
  <2>3. b \in 0..(S - 1)
    BY <2>2
  <2>4. b \in 0..(2 * S - 1)
    BY <2>3
  <2>5. QED
    BY <2>2, <2>4 DEF Patterns
<1>4. /\ f32_mulAdd(FmaFmt, a, b, c, rm) = MulAddSpec(FmaFmt, a, b, c, rm)
      /\ f64_mulAdd(FmaFmt, a, b, c, rm) = MulAddSpec(FmaFmt, a, b, c, rm)
  BY <1>2, <1>3, FusionsRound
<1>5. QED
  BY <1>1, <1>4

\* The promise needs the caller's mode to be one of the five.
FusedInv == rm \in RoundingModes /\ FusedRounds

\* mulAdd is a * b + c rounded once in the caller's mode, with the flags that IEEE 754 asks for, in
\* both precisions and for operands of any width: neither the jammed product nor a cancellation that
\* leaves few of its bits changes a rounding (s_mulAddF32.c, s_mulAddF64.c).
THEOREM FusedRoundsOnce == Spec => []FusedRounds
<1> USE DEF Fuses
<1>1. Init => FusedInv
  BY DEF Init, None, FusedInv, FusedRounds, Is, rm
<1>2. FusedInv /\ [Next]_vars => FusedInv'
  <2> SUFFICES ASSUME FusedInv, [Next]_vars
               PROVE  FusedInv'
    OBVIOUS
  <2>1. rm' \in RoundingModes /\ rm \in RoundingModes
    BY ModeStands DEF FusedInv, rm
  <2>2. CASE Fusions
    <3>1. PICK a, b, c : /\ call'.args = <<a, b, c>> /\ call'.rm = rm
                         /\ ret' = MulAddSpec(FmaFmt, a, b, c, rm)
      BY <2>1, <2>2, FusionsReturn
    <3>2. Arg(1)' = a /\ Arg(2)' = b /\ Arg(3)' = c
      BY <3>1 DEF Arg
    <3>3. QED
      BY <2>1, <3>1, <3>2 DEF FusedInv, FusedRounds
  <2>3. CASE \/ QuotientEstimates \/ Arithmetic \/ Roots \/ Remainders \/ IntegralValues
             \/ FromFloat32 \/ FromFloat64 \/ FromInteger \/ BetweenFloats
             \/ Comparisons \/ Classes \/ Return
    <3>1. call'.op \notin Fuses
      BY <2>3, NotFused
    <3>2. QED
      BY <2>1, <3>1 DEF FusedInv, FusedRounds, Is
  <2>4. CASE UNCHANGED vars
    BY <2>1, <2>4 DEF vars, FusedInv, FusedRounds, Is, Arg
  <2>5. QED
    BY <2>2, <2>3, <2>4 DEF Next
<1>3. FusedInv => FusedRounds
  BY DEF FusedInv
<1>4. QED
  BY <1>1, <1>2, <1>3, PTL DEF Spec
=============================================================================
