------------------------------ MODULE FpProofs ------------------------------
(***************************************************************************)
(* Proofs about SoftFloat, for words and formats of any width: the         *)
(* arithmetic on pairs of words, the estimate of quotients, the            *)
(* comparisons and the classes, powers of two, the rounding that the       *)
(* operations share (softfloat_roundPackToF32 and its like), products,     *)
(* sums and differences.                                                   *)
(***************************************************************************)
EXTENDS FpUnit, FiniteSetTheorems, WellFoundedInduction, TLAPS

(* Laws of powers of two, of the fields of a format and of a word of two   *)
(* halves.  FormatLaw and WordIs below derive them from the widths.        *)
FormatLaws(f) ==
  /\ hidden(f) \div 2 \in Nat \ {0} /\ hidden(f) = 2 * (hidden(f) \div 2)
  /\ 2^f.E \in Nat \ (0..2) /\ signBit(f) = 2^f.E * hidden(f)
WordLaws(w) ==
  LET h == 2^(w \div 2)
  IN h \in Nat \ {0, 1} /\ 2^w = h * h /\ 2^(w - 1) \in Nat \ {0} /\ 2 * 2^(w - 1) = 2^w

-----------------------------------------------------------------------------
(* Integers.                                                               *)

\* Quotient and remainder.
LEMMA DivMod ==
  \A a \in Int, d \in Nat \ {0} :
    /\ a = (d * (a \div d)) + (a % d)
    /\ a % d \in 0..(d - 1) /\ a \div d \in Int
    /\ a >= 0 => a \div d \in Nat
OBVIOUS

\* There is one quotient and one remainder.
LEMMA DivModUnique ==
  \A a \in Int, d \in Nat \ {0} : \A q \in Int, r \in 0..(d - 1) :
    a = (d * q) + r => a \div d = q /\ a % d = r
OBVIOUS

\* Products grow with their factors.
LEMMA ProductMonotonic ==
  \A k \in Nat, x, y \in Int : x <= y => k * x <= k * y
OBVIOUS

\* A product that exceeds another one has a larger factor.
LEMMA ProductCancel ==
  \A k \in Nat \ {0}, x, y \in Int : k * x < k * y => x < y
OBVIOUS

-----------------------------------------------------------------------------
(* Pairs of words.                                                         *)

\* The value of a pair, which is below 2^(2w); the pair of a value.
Value(w, p) == (p.hi * 2^w) + p.lo
IsPair(w, p) == \E hi, lo \in 0..(2^w - 1) : p = Pair(hi, lo)
PairOf(w, v) == Pair(v \div 2^w, v % 2^w)
Double(w) == 2^w * 2^w

\* A word has an even number of bits.
LEMMA WordSizes ==
  ASSUME NEW w, WordLaws(w)
  PROVE  /\ 2^w \in Nat \ {0} /\ 2^(w \div 2) \in Nat \ {0, 1}
         /\ 2^w = 2^(w \div 2) * 2^(w \div 2)
         /\ 2^(w - 1) \in Nat \ {0} /\ 2 * 2^(w - 1) = 2^w
         /\ Double(w) \in Nat \ {0}
<1> DEFINE h == 2^(w \div 2)
<1>1. h \in Nat \ {0, 1} /\ 2^w = h * h /\ 2^(w - 1) \in Nat \ {0} /\ 2 * 2^(w - 1) = 2^w
  BY DEF WordLaws
<1> HIDE DEF h
<1>2. h * h \in Nat \ {0}
  BY <1>1
<1>3. 2^w \in Nat \ {0}
  BY <1>1, <1>2
<1>4. Double(w) \in Nat \ {0}
  BY <1>3 DEF Double
<1>5. QED
  BY <1>1, <1>3, <1>4 DEF h

\* A pair has its value, and a value below 2^(2w) its pair.
LEMMA PairValue ==
  ASSUME NEW w, WordLaws(w)
  PROVE  /\ \A p : IsPair(w, p) =>
              /\ p.hi \in 0..(2^w - 1) /\ p.lo \in 0..(2^w - 1)
              /\ Value(w, p) \in 0..(Double(w) - 1) /\ p = PairOf(w, Value(w, p))
         /\ \A v \in 0..(Double(w) - 1) : IsPair(w, PairOf(w, v)) /\ Value(w, PairOf(w, v)) = v
<1> DEFINE W == 2^w
<1>1. W \in Nat \ {0} /\ Double(w) = W * W
  BY WordSizes DEF Double
<1> HIDE DEF W
<1>2. ASSUME NEW hi \in 0..(W - 1), NEW lo \in 0..(W - 1)
      PROVE  (hi * W) + lo \in 0..((W * W) - 1) /\ ((hi * W) + lo) \div W = hi /\ ((hi * W) + lo) % W = lo
  <2>1. W * hi <= W * (W - 1)
    BY <1>1, ProductMonotonic
  <2>2. (hi * W) + lo = (W * hi) + lo /\ (hi * W) + lo \in Int
    BY <1>1
  <2>3. ((hi * W) + lo) \div W = hi /\ ((hi * W) + lo) % W = lo
    BY <1>1, <2>2, DivModUnique
  <2>4. W * (W - 1) = (W * W) - W /\ W * hi >= 0 /\ W * W \in Int
    BY <1>1
  <2>5. QED
    BY <1>1, <2>1, <2>2, <2>3, <2>4
<1>3. ASSUME NEW p, IsPair(w, p)
      PROVE  /\ p.hi \in 0..(W - 1) /\ p.lo \in 0..(W - 1)
             /\ Value(w, p) \in 0..(Double(w) - 1) /\ p = PairOf(w, Value(w, p))
  <2>1. PICK hi, lo \in 0..(W - 1) : p = Pair(hi, lo)
    BY <1>3 DEF IsPair, W
  <2>2. p.hi = hi /\ p.lo = lo
    BY <2>1 DEF Pair
  <2>3. Value(w, p) = (hi * W) + lo
    BY <2>2 DEF Value, W
  <2>4. PairOf(w, Value(w, p)) = Pair(Value(w, p) \div W, Value(w, p) % W)
    BY DEF PairOf, W
  <2>5. QED
    BY <1>1, <1>2, <2>1, <2>2, <2>3, <2>4
<1>4. ASSUME NEW v \in 0..(Double(w) - 1)
      PROVE  IsPair(w, PairOf(w, v)) /\ Value(w, PairOf(w, v)) = v
  <2>0. v \in Int /\ v >= 0 /\ v < W * W
    BY <1>1, WordSizes
  <2>1. /\ v = (W * (v \div W)) + (v % W) /\ v % W \in 0..(W - 1) /\ v \div W \in Nat
    BY <1>1, <2>0, DivMod
  <2>2. W * (v \div W) < W * W
    BY <1>1, <2>0, <2>1
  <2>3. v \div W < W
    BY <1>1, <2>1, <2>2, ProductCancel
  <2>4. PairOf(w, v) = Pair(v \div W, v % W)
    BY DEF PairOf, W
  <2>5. IsPair(w, PairOf(w, v))
    <3>1. v \div W \in 0..(W - 1)
      BY <1>1, <2>1, <2>3
    <3>2. QED
      BY <2>1, <2>4, <3>1, Zenon DEF IsPair, W
  <2>6. Value(w, PairOf(w, v)) = ((v \div W) * W) + (v % W)
    BY <2>4 DEF Value, Pair, W
  <2>7. QED
    BY <1>1, <2>1, <2>5, <2>6
<1>5. \A p : IsPair(w, p) =>
        /\ p.hi \in 0..(W - 1) /\ p.lo \in 0..(W - 1)
        /\ Value(w, p) \in 0..(Double(w) - 1) /\ p = PairOf(w, Value(w, p))
  BY <1>3
<1>6. QED
  BY <1>4, <1>5, Zenon DEF W

\* Two values that differ by a multiple of 2^(2w) are the same modulo 2^(2w).
LEMMA Wrapped ==
  ASSUME NEW M \in Nat \ {0}, NEW a \in Int, NEW b \in 0..(M - 1), NEW k \in Int, a = b + (k * M)
  PROVE  a % M = b
<1>1. a = (M * k) + b
  OBVIOUS
<1>2. QED
  BY <1>1, DivModUnique

\* A value below 0 is wrapped by adding the modulus.
LEMMA WrappedBelow ==
  ASSUME NEW M \in Nat \ {0}, NEW a \in Int, a + M \in 0..(M - 1)
  PROVE  a % M = a + M
<1>1. a = (a + M) + ((-1) * M)
  OBVIOUS
<1>2. QED
  BY <1>1, Wrapped

\* The sum of two words, with its carry.
LEMMA WordSum ==
  ASSUME NEW W \in Nat \ {0}, NEW x \in 0..(W - 1), NEW y \in 0..(W - 1)
  PROVE  \E z \in 0..(W - 1), c \in 0..1 : z = (x + y) % W /\ c = Bit(z < x) /\ x + y = z + (c * W)
<1>1. CASE x + y < W
  <2>1. (x + y) % W = x + y
    <3>1. x + y = (x + y) + (0 * W) /\ x + y \in 0..(W - 1)
      BY <1>1
    <3>2. QED
      BY <3>1, Wrapped
  <2>2. Bit((x + y) % W < x) = 0
    BY <2>1 DEF Bit
  <2>3. QED
    BY <1>1, <2>1, <2>2
<1>2. CASE x + y >= W
  <2>1. (x + y) % W = (x + y) - W
    <3>1. x + y = ((x + y) - W) + (1 * W) /\ (x + y) - W \in 0..(W - 1) /\ x + y \in Int
      BY <1>2
    <3>2. QED
      BY <3>1, Wrapped
  <2>2. Bit((x + y) % W < x) = 1
    BY <2>1 DEF Bit
  <2>3. QED
    BY <1>2, <2>1, <2>2
<1>3. QED
  BY <1>1, <1>2

\* The difference of two words, with its borrow.
LEMMA WordDifference ==
  ASSUME NEW W \in Nat \ {0}, NEW x \in 0..(W - 1), NEW y \in 0..(W - 1)
  PROVE  \E z \in 0..(W - 1), c \in 0..1 : z = (x - y) % W /\ c = Bit(x < y) /\ x - y = z - (c * W)
<1>1. CASE x < y
  <2>1. (x - y) % W = (x - y) + W
    <3>1. (x - y) + W \in 0..(W - 1) /\ x - y \in Int
      BY <1>1
    <3>2. QED
      BY <3>1, WrappedBelow
  <2>2. Bit(x < y) = 1
    BY <1>1 DEF Bit
  <2>3. QED
    BY <1>1, <2>1, <2>2
<1>2. CASE x >= y
  <2>1. (x - y) % W = x - y
    <3>1. x - y = (x - y) + (0 * W) /\ x - y \in 0..(W - 1)
      BY <1>2
    <3>2. QED
      BY <3>1, Wrapped
  <2>2. Bit(x < y) = 0
    BY <1>2 DEF Bit
  <2>3. QED
    BY <1>2, <2>1, <2>2
<1>3. QED
  BY <1>1, <1>2

\* A pair whose value differs from v by a multiple of 2^(2w) is that of v modulo 2^(2w).
LEMMA PairWrapped ==
  ASSUME NEW w, WordLaws(w), NEW hi \in 0..(2^w - 1), NEW lo \in 0..(2^w - 1), NEW k \in Int, NEW v \in Int,
         v = ((hi * 2^w) + lo) + (k * (2^w * 2^w))
  PROVE  IsPair(w, Pair(hi, lo)) /\ Value(w, Pair(hi, lo)) = v % Double(w)
<1>1. IsPair(w, Pair(hi, lo))
  BY Zenon DEF IsPair
<1>2. Value(w, Pair(hi, lo)) = (hi * 2^w) + lo
  BY DEF Value, Pair
<1>3. Value(w, Pair(hi, lo)) \in 0..(Double(w) - 1)
  BY <1>1, PairValue
<1>4. v % Double(w) = Value(w, Pair(hi, lo))
  <2> DEFINE b == Value(w, Pair(hi, lo))
  <2>1. Double(w) \in Nat \ {0} /\ b \in 0..(Double(w) - 1) /\ v = b + (k * Double(w))
    BY <1>2, <1>3, WordSizes DEF Double
  <2> HIDE DEF b
  <2>2. v % Double(w) = b
    BY <2>1, Wrapped
  <2>3. QED
    BY <2>2 DEF b
<1>5. QED
  BY <1>1, <1>4

\* softfloat_add128 adds modulo 2^(2w): its carry is right.
THEOREM Add128 ==
  ASSUME NEW w, WordLaws(w), NEW a, IsPair(w, a), NEW b, IsPair(w, b)
  PROVE  LET r == softfloat_add128(w, a, b)
         IN IsPair(w, r) /\ Value(w, r) = (Value(w, a) + Value(w, b)) % Double(w)
<1> DEFINE W == 2^w
<1>1. W \in Nat \ {0}
  BY WordSizes
<1>2. PICK ah, al \in 0..(W - 1) : a = Pair(ah, al)
  BY DEF IsPair
<1>3. PICK bh, bl \in 0..(W - 1) : b = Pair(bh, bl)
  BY DEF IsPair
<1>4. /\ softfloat_add128(w, a, b) = Pair(((ah + bh) + Bit((al + bl) % W < al)) % W, (al + bl) % W)
      /\ Value(w, a) = (ah * W) + al /\ Value(w, b) = (bh * W) + bl
  BY <1>2, <1>3 DEF softfloat_add128, Value, Pair
<1> HIDE DEF W
<1>5. PICK lo \in 0..(W - 1), c \in 0..1 :
        lo = (al + bl) % W /\ c = Bit(lo < al) /\ al + bl = lo + (c * W)
  BY <1>1, WordSum, Zenon
<1>6. PICK hi \in 0..(W - 1), k \in Int :
        hi = ((ah + bh) + c) % W /\ (ah + bh) + c = (W * k) + hi
  <2>1. (ah + bh) + c \in Int
    OBVIOUS
  <2>2. QED
    BY <1>1, <2>1, DivMod
<1>7. ((ah * W) + al) + ((bh * W) + bl) = ((hi * W) + lo) + (k * (W * W))
  <2>1. ((ah * W) + al) + ((bh * W) + bl) = ((ah + bh) * W) + (al + bl)
    BY <1>1
  <2>2. ((ah + bh) * W) + (lo + (c * W)) = (((ah + bh) + c) * W) + lo
    BY <1>1
  <2>3. ((W * k) + hi) * W = (hi * W) + (k * (W * W))
    BY <1>1
  <2>4. QED
    BY <1>1, <1>5, <1>6, <2>1, <2>2, <2>3
<1>8. QED
  <2>1. Value(w, a) + Value(w, b) \in Int
    BY <1>1, <1>4
  <2>2. Value(w, a) + Value(w, b) = ((hi * W) + lo) + (k * (W * W))
    BY <1>4, <1>7
  <2>3. softfloat_add128(w, a, b) = Pair(hi, lo)
    BY <1>4, <1>5, <1>6
  <2> DEFINE v == Value(w, a) + Value(w, b)
  <2> HIDE DEF v
  <2>4. IsPair(w, Pair(hi, lo)) /\ Value(w, Pair(hi, lo)) = v % Double(w)
    BY <2>1, <2>2, PairWrapped DEF v, W
  <2>5. QED
    BY <2>3, <2>4 DEF v

\* softfloat_sub128 subtracts modulo 2^(2w): its borrow is right.
THEOREM Sub128 ==
  ASSUME NEW w, WordLaws(w), NEW a, IsPair(w, a), NEW b, IsPair(w, b)
  PROVE  LET r == softfloat_sub128(w, a, b)
         IN IsPair(w, r) /\ Value(w, r) = (Value(w, a) - Value(w, b)) % Double(w)
<1> DEFINE W == 2^w
<1>1. W \in Nat \ {0}
  BY WordSizes
<1>2. PICK ah, al \in 0..(W - 1) : a = Pair(ah, al)
  BY DEF IsPair
<1>3. PICK bh, bl \in 0..(W - 1) : b = Pair(bh, bl)
  BY DEF IsPair
<1>4. /\ softfloat_sub128(w, a, b) = Pair(((ah - bh) - Bit(al < bl)) % W, (al - bl) % W)
      /\ Value(w, a) = (ah * W) + al /\ Value(w, b) = (bh * W) + bl
  BY <1>2, <1>3 DEF softfloat_sub128, Value, Pair
<1> HIDE DEF W
<1>5. PICK lo \in 0..(W - 1), c \in 0..1 :
        lo = (al - bl) % W /\ c = Bit(al < bl) /\ al - bl = lo - (c * W)
  BY <1>1, WordDifference
<1>6. PICK hi \in 0..(W - 1), k \in Int :
        hi = ((ah - bh) - c) % W /\ (ah - bh) - c = (W * k) + hi
  <2>1. (ah - bh) - c \in Int
    OBVIOUS
  <2>2. QED
    BY <1>1, <2>1, DivMod
<1>7. ((ah * W) + al) - ((bh * W) + bl) = ((hi * W) + lo) + (k * (W * W))
  <2>1. ((ah * W) + al) - ((bh * W) + bl) = ((ah - bh) * W) + (al - bl)
    BY <1>1
  <2>2. ((ah - bh) * W) + (lo - (c * W)) = (((ah - bh) - c) * W) + lo
    BY <1>1
  <2>3. ((W * k) + hi) * W = (hi * W) + (k * (W * W))
    BY <1>1
  <2>4. QED
    BY <1>1, <1>5, <1>6, <2>1, <2>2, <2>3
<1>8. QED
  <2>1. Value(w, a) - Value(w, b) \in Int
    BY <1>1, <1>4
  <2>2. Value(w, a) - Value(w, b) = ((hi * W) + lo) + (k * (W * W))
    BY <1>4, <1>7
  <2>3. softfloat_sub128(w, a, b) = Pair(hi, lo)
    BY <1>4, <1>5, <1>6
  <2> DEFINE v == Value(w, a) - Value(w, b)
  <2> HIDE DEF v
  <2>4. IsPair(w, Pair(hi, lo)) /\ Value(w, Pair(hi, lo)) = v % Double(w)
    BY <2>1, <2>2, PairWrapped DEF v, W
  <2>5. QED
    BY <2>3, <2>4 DEF v

\* A word has two halves.
LEMMA Halves ==
  ASSUME NEW h \in Nat \ {0}, NEW x \in 0..((h * h) - 1)
  PROVE  x \div h \in 0..(h - 1) /\ x % h \in 0..(h - 1) /\ x = (h * (x \div h)) + (x % h)
<1>1. h * h \in Int /\ x \in Int /\ x >= 0 /\ x < h * h
  OBVIOUS
<1>2. x = (h * (x \div h)) + (x % h) /\ x % h \in 0..(h - 1) /\ x \div h \in Nat
  BY <1>1, DivMod
<1>3. h * (x \div h) < h * h
  BY <1>1, <1>2
<1>4. x \div h < h
  BY <1>2, <1>3, ProductCancel
<1>5. QED
  BY <1>2, <1>4

\* The product of two halves fits a word, with room for a half.
LEMMA HalfProduct ==
  ASSUME NEW h \in Nat \ {0}, NEW x \in 0..(h - 1), NEW y \in 0..(h - 1)
  PROVE  x * y \in Nat /\ x * y <= ((h * h) - h) - (h - 1) /\ x * y \in 0..((h * h) - 1) /\ x * h \in 0..((h * h) - h)
<1>1. x * y <= x * (h - 1) /\ x * y \in Nat
  BY ProductMonotonic
<1>2. (h - 1) * x <= (h - 1) * (h - 1)
  BY ProductMonotonic
<1>3. (h - 1) * x = x * (h - 1) /\ (h - 1) * (h - 1) = ((h * h) - h) - (h - 1) /\ h * h \in Int
  OBVIOUS
<1>4. h * x <= h * (h - 1) /\ h * x = x * h /\ h * (h - 1) = (h * h) - h /\ x * h \in Nat
  BY ProductMonotonic
<1>5. QED
  BY <1>1, <1>2, <1>3, <1>4

\* softfloat_mul64To128 is the whole product: no carry is lost on the way from four
\* products of halves to two words.
THEOREM Mul64To128 ==
  ASSUME NEW w, WordLaws(w), NEW a \in 0..(2^w - 1), NEW b \in 0..(2^w - 1)
  PROVE  LET p == softfloat_mul64To128(w, a, b)
         IN IsPair(w, p) /\ Value(w, p) = a * b
<1> DEFINE h == 2^(w \div 2)
           W == 2^w
<1>1. h \in Nat \ {0, 1} /\ W = h * h /\ W \in Nat \ {0}
  BY WordSizes
<1>2. softfloat_mul64To128(w, a, b) =
        LET mid1 == (a \div h) * (b % h)
            mid  == (mid1 + (a % h) * (b \div h)) % W
            lo   == ((a % h) * (b % h) + (mid % h) * h) % W
        IN Pair((a \div h) * (b \div h) + Bit(mid < mid1) * h + mid \div h + Bit(lo < (mid % h) * h), lo)
  BY DEF softfloat_mul64To128
<1>3. a \in 0..(W - 1) /\ b \in 0..(W - 1)
  OBVIOUS
<1> HIDE DEF h, W
<1>4. PICK a1, a0 \in 0..(h - 1) : a1 = a \div h /\ a0 = a % h /\ a = (h * a1) + a0
  BY <1>1, <1>3, Halves
<1>5. PICK b1, b0 \in 0..(h - 1) : b1 = b \div h /\ b0 = b % h /\ b = (h * b1) + b0
  BY <1>1, <1>3, Halves
<1>6. PICK q \in 0..(W - 1), r \in 0..(W - 1), s \in 0..(W - 1) : q = a1 * b0 /\ r = a0 * b1 /\ s = a0 * b0
  BY <1>1, HalfProduct
<1>7. PICK mid \in 0..(W - 1), c \in 0..1 :
        mid = (q + r) % W /\ c = Bit(mid < q) /\ q + r = mid + (c * W)
  BY <1>1, WordSum, Zenon
<1>8. PICK m1, m0 \in 0..(h - 1) : m1 = mid \div h /\ m0 = mid % h /\ mid = (h * m1) + m0
  BY <1>1, Halves
<1>9. PICK m \in 0..(W - 1) : m = m0 * h
  BY <1>1, HalfProduct
<1>10. PICK lo \in 0..(W - 1), d \in 0..1 :
         lo = (m + s) % W /\ d = Bit(lo < m) /\ m + s = lo + (d * W)
  <2>1. W \in Nat \ {0} /\ m \in 0..(W - 1) /\ s \in 0..(W - 1)
    BY <1>1
  <2>2. QED
    BY <2>1, WordSum, Zenon
<1>11. PICK hi \in Int : hi = (((a1 * b1) + (c * h)) + m1) + d
  BY <1>1
<1>12. softfloat_mul64To128(w, a, b) = Pair(hi, lo)
  <2>1. (a \div h) * (b % h) = q /\ (a % h) * (b \div h) = r /\ (a % h) * (b % h) = s
    BY <1>4, <1>5, <1>6
  <2>2. (q + ((a % h) * (b \div h))) % W = mid /\ mid \div h = m1 /\ (mid % h) * h = m
    BY <1>7, <1>8, <1>9, <2>1
  <2>3. (s + m) % W = lo /\ (a \div h) * (b \div h) = a1 * b1
    <3>1. s + m = m + s
      OBVIOUS
    <3>2. QED
      BY <1>4, <1>5, <1>10, <3>1
  <2>4. QED
    BY <1>2, <1>7, <1>10, <1>11, <2>1, <2>2, <2>3
<1>13. (hi * W) + lo = a * b
  <2>1. a * b = (((a1 * b1) * (h * h)) + (h * ((a1 * b0) + (a0 * b1)))) + (a0 * b0)
    <3>1. ((h * a1) + a0) * ((h * b1) + b0) = (((a1 * b1) * (h * h)) + (h * ((a1 * b0) + (a0 * b1)))) + (a0 * b0)
      BY <1>1
    <3>2. QED
      BY <1>4, <1>5, <3>1
  <2>2. PICK t \in Int : t = (a1 * b1) * (h * h)
    BY <1>1
  <2>3. PICK u \in Int : u = h * (c * W)
    BY <1>1
  <2>4. PICK v \in Int : v = (h * h) * m1
    BY <1>1
  <2>5. PICK x \in Int : x = d * W
    BY <1>1
  <2>6. h * (mid + (c * W)) = (v + m) + u
    <3>1. h * (((h * m1) + m0) + (c * W)) = (((h * h) * m1) + (m0 * h)) + (h * (c * W))
      BY <1>1
    <3>2. QED
      BY <1>8, <1>9, <2>3, <2>4, <3>1
  <2>7. a * b = (t + ((v + m) + u)) + s
    BY <1>6, <1>7, <2>1, <2>2, <2>6
  <2>8. hi * W = ((t + u) + v) + x
    <3>1. ((((a1 * b1) + (c * h)) + m1) + d) * (h * h) =
             ((((a1 * b1) * (h * h)) + (h * (c * (h * h)))) + ((h * h) * m1)) + (d * (h * h))
      BY <1>1
    <3>2. hi * W = ((((a1 * b1) + (c * h)) + m1) + d) * (h * h) /\ u = h * (c * (h * h)) /\ x = d * (h * h)
      BY <1>1, <1>11, <2>3, <2>5
    <3>3. QED
      BY <2>2, <2>4, <3>1, <3>2
  <2>9. QED
    BY <1>1, <1>10, <2>5, <2>7, <2>8
<1>14. hi \in 0..(W - 1)
  <2>1. a * b <= W * W - W
    <3>1. a * b <= a * (W - 1) /\ (W - 1) * a <= (W - 1) * (W - 1)
      BY <1>1, <1>3, ProductMonotonic
    <3>2. a * (W - 1) = (W - 1) * a /\ (W - 1) * (W - 1) = ((W * W) - W) - (W - 1) /\ a * b \in Int /\ W * W \in Int
      BY <1>1, <1>3
    <3>3. QED
      BY <1>1, <3>1, <3>2
  <2>2. W * hi < W * W
    <3>1. W * hi = hi * W /\ hi * W \in Int /\ W * W \in Int
      BY <1>1
    <3>2. QED
      BY <1>1, <1>13, <2>1, <3>1
  <2>3. hi < W
    BY <1>1, <2>2, ProductCancel
  <2>4. hi >= 0
    <3>1. PICK t \in Nat, u \in Nat : t = a1 * b1 /\ u = c * h
      BY <1>1
    <3>2. hi = ((t + u) + m1) + d
      BY <1>11, <3>1
    <3>3. QED
      BY <1>1, <3>2
  <2>5. QED
    BY <1>1, <2>3, <2>4
<1>15. QED
  <2>1. a * b = ((hi * W) + lo) + (0 * (W * W)) /\ a * b \in Int
    BY <1>1, <1>3, <1>13
  <2>2. IsPair(w, Pair(hi, lo))
    BY <1>14, Zenon DEF IsPair, W
  <2>3. Value(w, Pair(hi, lo)) = (hi * W) + lo
    BY DEF Value, Pair, W
  <2>4. QED
    BY <1>12, <1>13, <2>2, <2>3

-----------------------------------------------------------------------------
(* The loops that make a remainder non-negative.                           *)

\* Multiples of M do not matter modulo M.
LEMMA SameRest ==
  ASSUME NEW M \in Nat \ {0}, NEW x \in Int, NEW y \in Int, NEW k \in Int, x = y + (k * M)
  PROVE  x % M = y % M
<1>1. PICK q \in Int, r \in 0..(M - 1) : y = (M * q) + r /\ r = y % M
  BY DivMod
<1>2. PICK n \in Int : n = q + k
  OBVIOUS
<1>3. x = (M * n) + r
  BY <1>1, <1>2
<1>4. x % M = r
  BY <1>3, DivModUnique
<1>5. QED
  BY <1>1, <1>4

\* A sum may be reduced before or after.
LEMMA RestSum ==
  ASSUME NEW M \in Nat \ {0}, NEW t \in Int, NEW d \in Int
  PROVE  ((t % M) + d) % M = (t + d) % M
<1>1. PICK k \in Int, r \in 0..(M - 1) : t = (M * k) + r /\ r = t % M
  BY DivMod
<1>2. t + d = (r + d) + (k * M)
  BY <1>1
<1>3. PICK x \in Int, y \in Int : x = t + d /\ y = r + d
  OBVIOUS
<1>4. x % M = y % M
  BY <1>2, <1>3, SameRest
<1>5. QED
  BY <1>1, <1>3, <1>4

\* A remainder is a pair read in two's complement: its top bit is its sign.
LEMMA SignedPair ==
  ASSUME NEW w, WordLaws(w), NEW p, IsPair(w, p), NEW t \in Int,
         -Double(w) <= 2 * t, 2 * t < Double(w), Value(w, p) = t % Double(w)
  PROVE  /\ Negative(w, p) <=> t < 0
         /\ t >= 0 => Value(w, p) = t /\ p = PairOf(w, t)
<1> DEFINE W == 2^w
           H == 2^(w - 1)
           M == Double(w)
           v == Value(w, p)
<1>1. W \in Nat \ {0} /\ H \in Nat \ {0} /\ W = 2 * H /\ M = W * W /\ M \in Nat \ {0}
  BY WordSizes DEF Double
<1>2. p.hi \in 0..(W - 1) /\ p.lo \in 0..(W - 1) /\ v \in 0..(M - 1) /\ p = PairOf(w, v)
  BY PairValue
<1>3. v = (p.hi * W) + p.lo /\ (Negative(w, p) <=> p.hi >= H) /\ v = t % M
  BY DEF Value, Negative
<1> HIDE DEF W, H, M, v
<1>4. PICK hi \in 0..(W - 1), lo \in 0..(W - 1) : hi = p.hi /\ lo = p.lo
  BY <1>2
<1>5. v = (W * hi) + lo
  BY <1>1, <1>3, <1>4
<1>6. M = 2 * (W * H)
  BY <1>1
<1>7. hi >= H => 2 * v >= M
  <2>1. hi >= H => W * hi >= W * H
    BY <1>1, ProductMonotonic
  <2>2. W * hi \in Int /\ W * H \in Int
    BY <1>1
  <2>3. QED
    BY <1>1, <1>5, <1>6, <2>1, <2>2
<1>8. hi < H => 2 * v < M
  <2>1. hi < H => W * hi <= W * (H - 1)
    BY <1>1, ProductMonotonic
  <2>2. W * hi \in Int /\ W * H \in Int /\ W * (H - 1) = (W * H) - W
    BY <1>1
  <2>3. QED
    BY <1>1, <1>5, <1>6, <2>1, <2>2
<1>9. Negative(w, p) <=> 2 * v >= M
  BY <1>1, <1>2, <1>3, <1>4, <1>7, <1>8
<1>10. CASE t >= 0
  <2>1. t \in 0..(M - 1) /\ t = t + (0 * M)
    BY <1>1, <1>10 DEF M
  <2>2. v = t
    BY <1>1, <1>3, <2>1, Wrapped
  <2>3. QED
    BY <1>1, <1>2, <1>9, <1>10, <2>2 DEF v, M
<1>11. CASE t < 0
  <2>1. t + M \in 0..(M - 1)
    BY <1>1, <1>11 DEF M
  <2>3. v = t + M
    BY <1>1, <1>3, <2>1, WrappedBelow
  <2>4. QED
    BY <1>1, <1>2, <1>9, <1>11, <2>3 DEF v, M
<1>12. QED
  BY <1>10, <1>11

\* Adding the step once more, in values.
LEMMA NextRem ==
  ASSUME NEW w, WordLaws(w), NEW step, IsPair(w, step), NEW t \in Int, NEW p, IsPair(w, p), Value(w, p) = t % Double(w)
  PROVE  LET next == softfloat_add128(w, p, step)
         IN IsPair(w, next) /\ Value(w, next) = (t + Value(w, step)) % Double(w)
<1> DEFINE M == Double(w)
           d == Value(w, step)
<1>1. M \in Nat \ {0} /\ d \in Int
  <2>1. d \in 0..(M - 1) /\ M \in Nat \ {0}
    BY WordSizes, PairValue
  <2>2. QED
    BY <2>1
<1>2. IsPair(w, softfloat_add128(w, p, step)) /\ Value(w, softfloat_add128(w, p, step)) = ((t % M) + d) % M
  BY Add128
<1> HIDE DEF M, d
<1>3. ((t % M) + d) % M = (t + d) % M
  BY <1>1, RestSum
<1>4. QED
  BY <1>2, <1>3 DEF M, d

\* The recursive definition of RemAfter has a solution: the n-th pair is that of
\* rem + n * step.
LEMMA RemAfterRounds ==
  ASSUME NEW w, WordLaws(w), NEW rem, IsPair(w, rem), NEW step, IsPair(w, step)
  PROVE  \A n \in Nat : RemAfter(w, rem, step)[n] =
           IF n = 0 THEN rem ELSE softfloat_add128(w, RemAfter(w, rem, step)[n - 1], step)
<1> DEFINE M == Double(w)
           v == Value(w, rem)
           d == Value(w, step)
           R == [n \in Nat |-> PairOf(w, (v + (n * d)) % M)]
           Solves(f) == f = [n \in Nat |-> IF n = 0 THEN rem ELSE softfloat_add128(w, f[n - 1], step)]
<1>1. M \in Nat \ {0} /\ v \in 0..(M - 1) /\ d \in 0..(M - 1) /\ rem = PairOf(w, v)
  BY WordSizes, PairValue
<1>2. R[0] = rem
  <2>1. R[0] = PairOf(w, (v + (0 * d)) % M)
    BY Zenon
  <2>2. (v + (0 * d)) % M = v
    <3> HIDE DEF M, v, d
    <3>1. v + (0 * d) = v + (0 * M) /\ v + (0 * d) \in Int
      BY <1>1
    <3>2. QED
      BY <1>1, <3>1, Wrapped
  <2>3. QED
    BY <1>1, <2>1, <2>2
<1>3. ASSUME NEW n \in Nat \ {0} PROVE R[n] = softfloat_add128(w, R[n - 1], step)
  <2> DEFINE t == v + ((n - 1) * d)
             u == v + (n * d)
  <2>1. t \in Int /\ u \in Int /\ t + d = u
    <3> HIDE DEF M, v, d
    <3>1. n * d = ((n - 1) * d) + d /\ (n - 1) * d \in Int /\ n * d \in Int
      BY <1>1
    <3>2. QED
      BY <1>1, <3>1
  <2>2. n - 1 \in Nat /\ n \in Nat
    OBVIOUS
  <2>3. R[n - 1] = PairOf(w, t % M) /\ R[n] = PairOf(w, u % M)
    BY <2>2, Zenon
  <2> HIDE DEF R, t, u
  <2>4. t % M \in 0..(M - 1) /\ u % M \in 0..(M - 1)
    BY <1>1, <2>1, DivMod
  <2>5. IsPair(w, R[n - 1]) /\ Value(w, R[n - 1]) = t % M
    BY <2>3, <2>4, PairValue
  <2>6. IsPair(w, softfloat_add128(w, R[n - 1], step)) /\ Value(w, softfloat_add128(w, R[n - 1], step)) = (t + d) % M
    BY <2>1, <2>5, NextRem
  <2>7. softfloat_add128(w, R[n - 1], step) = PairOf(w, (t + d) % M)
    BY <2>6, PairValue
  <2>8. QED
    BY <2>1, <2>3, <2>7
<1>4. Solves(R)
  <2>1. \A n \in Nat : R[n] = IF n = 0 THEN rem ELSE softfloat_add128(w, R[n - 1], step)
    <3> HIDE DEF R
    <3>1. QED
      BY <1>2, <1>3
  <2>2. R = [n \in Nat |-> R[n]]
    OBVIOUS
  <2> HIDE DEF R
  <2>3. QED
    BY <2>1, <2>2
<1>5. \E f : Solves(f)
  <2> HIDE DEF Solves
  <2>1. QED
    BY <1>4
<1>6. RemAfter(w, rem, step) = CHOOSE f : Solves(f)
  BY DEF RemAfter
<1>7. Solves(CHOOSE f : Solves(f))
  <2> HIDE DEF Solves
  <2>1. QED
    BY <1>5
<1>8. Solves(RemAfter(w, rem, step))
  <2> HIDE DEF Solves
  <2>1. QED
    BY <1>6, <1>7
<1>9. QED
  BY <1>8

\* The loop ends at the first round that is not negative.
LEMMA LastRoundIs ==
  ASSUME NEW w, NEW rem, NEW step, NEW most \in Nat, NEW n \in 0..most,
         ~Negative(w, RemAfter(w, rem, step)[n]), \A m \in 0..(n - 1) : Negative(w, RemAfter(w, rem, step)[m])
  PROVE  LastRound(w, rem, step, most) = n
<1> DEFINE Goes(m) == Negative(w, RemAfter(w, rem, step)[m])
           Ends(k) == ~Goes(k) /\ \A m \in 0..(k - 1) : Goes(m)
<1>1. LastRound(w, rem, step, most) = CHOOSE k \in 0..most : Ends(k)
  BY DEF LastRound
<1>2. Ends(n)
  OBVIOUS
<1>3. ASSUME NEW k \in 0..most, Ends(k) PROVE k = n
  <2> HIDE DEF Goes
  <2>1. ~(k < n) /\ ~(n < k)
    BY <1>2, <1>3
  <2>2. QED
    BY <2>1
<1> HIDE DEF Ends
<1>4. QED
  BY <1>1, <1>2, <1>3

\* What a round adds is the divisor, half a word higher.
LEMMA EstimateStep ==
  ASSUME NEW w, WordLaws(w), NEW b \in 0..(2^w - 1)
  PROVE  LET h    == 2^(w \div 2)
             step == Pair(b \div h, (b % h) * h)
         IN IsPair(w, step) /\ Value(w, step) = b * h
<1> DEFINE h == 2^(w \div 2)
           W == 2^w
<1>1. h \in Nat \ {0, 1} /\ W = h * h /\ W \in Nat \ {0} /\ b \in 0..(W - 1)
  BY WordSizes
<1> HIDE DEF h, W
<1>2. PICK b1, b0 \in 0..(h - 1) : b1 = b \div h /\ b0 = b % h /\ b = (h * b1) + b0
  BY <1>1, Halves
<1>3. PICK lo \in 0..(W - 1) : lo = b0 * h
  BY <1>1, HalfProduct
<1>4. h <= W
  <2>1. h * 1 <= h * h
    BY <1>1, ProductMonotonic
  <2>2. QED
    BY <1>1, <2>1
<1>5. b1 \in 0..(W - 1)
  BY <1>1, <1>4
<1>6. IsPair(w, Pair(b1, lo))
  BY <1>5, Zenon DEF IsPair, W
<1>7. Value(w, Pair(b1, lo)) = (b1 * W) + lo
  BY DEF Value, Pair, W
<1>8. (b1 * W) + lo = b * h
  <2>1. ((h * b1) + b0) * h = (b1 * (h * h)) + (b0 * h)
    BY <1>1
  <2>2. QED
    BY <1>1, <1>2, <1>3, <2>1
<1>9. QED
  BY <1>2, <1>3, <1>6, <1>7, <1>8 DEF h

\* The loop of the estimate runs at most twice, and leaves a remainder below b * h.
LEMMA LowerEstimateEnds ==
  ASSUME NEW w, WordLaws(w), NEW b \in 0..(2^w - 1), NEW z, NEW rem, IsPair(w, rem),
         NEW h, h = 2^(w \div 2), NEW d \in Int, d = b * h, NEW t \in Int, Value(w, rem) = t % Double(w),
         -(2 * d) <= t, t < d, -Double(w) <= 2 * t, 2 * d <= Double(w)
  PROVE  \E n \in 0..2 : /\ t + (n * d) \in 0..(d - 1)
                         /\ LowerEstimate(w, b, z, rem).z = z - (n * h)
                         /\ LowerEstimate(w, b, z, rem).rem = PairOf(w, t + (n * d))
<1> DEFINE step == Pair(b \div h, (b % h) * h)
           R    == RemAfter(w, rem, step)
           M    == Double(w)
<1>1. IsPair(w, step) /\ Value(w, step) = d
  BY EstimateStep
<1>2. LowerEstimate(w, b, z, rem) =
        [z |-> z - (LastRound(w, rem, step, h) * h), rem |-> R[LastRound(w, rem, step, h)]]
  BY DEF LowerEstimate
<1>3. h \in Nat \ {0, 1} /\ M \in Nat \ {0}
  BY WordSizes
<1> HIDE DEF step
<1>4. R[0] = rem /\ R[1] = softfloat_add128(w, R[0], step) /\ R[2] = softfloat_add128(w, R[1], step)
  <2>1. \A n \in Nat : R[n] = IF n = 0 THEN rem ELSE softfloat_add128(w, R[n - 1], step)
    BY <1>1, RemAfterRounds
  <2> HIDE DEF R
  <2>2. QED
    BY <2>1
<1> HIDE DEF R, M
<1>5. IsPair(w, R[0]) /\ Value(w, R[0]) = t % M
  BY <1>4 DEF M
<1>6. IsPair(w, R[1]) /\ Value(w, R[1]) = (t + d) % M
  BY <1>1, <1>4, <1>5, NextRem DEF M
<1>7. IsPair(w, R[2]) /\ Value(w, R[2]) = ((t + d) + d) % M
  <2>1. t + d \in Int
    OBVIOUS
  <2>2. QED
    BY <1>1, <1>4, <1>6, <2>1, NextRem DEF M
<1>8. ASSUME NEW n \in 0..2, ~Negative(w, R[n]), \A m \in 0..(n - 1) : Negative(w, R[m])
      PROVE  /\ LowerEstimate(w, b, z, rem).z = z - (n * h)
             /\ LowerEstimate(w, b, z, rem).rem = R[n]
  <2>1. n \in 0..h /\ h \in Nat
    BY <1>3
  <2>2. LastRound(w, rem, step, h) = n
    BY <1>8, <2>1, LastRoundIs DEF R
  <2>3. QED
    BY <1>2, <2>2
<1>9. -M <= 2 * t /\ 2 * t < M /\ (Negative(w, R[0]) <=> t < 0) /\ (t >= 0 => R[0] = PairOf(w, t))
  <2>1. -M <= 2 * t /\ 2 * t < M
    BY <1>3 DEF M
  <2>2. QED
    BY <1>5, <2>1, SignedPair DEF M
<1>10. CASE t >= 0
  <2>1. t + (0 * d) \in 0..(d - 1) /\ t + (0 * d) = t
    BY <1>10
  <2>2. ~Negative(w, R[0]) /\ \A m \in 0..(0 - 1) : Negative(w, R[m])
    BY <1>9, <1>10
  <2>3. QED
    BY <1>8, <1>9, <1>10, <2>1, <2>2
<1>11. CASE t < 0 /\ t + d >= 0
  <2>1. t + (1 * d) \in 0..(d - 1) /\ t + (1 * d) = t + d /\ t + d \in Int
    BY <1>11
  <2>2. -M <= 2 * (t + d) /\ 2 * (t + d) < M
    BY <1>3, <1>11 DEF M
  <2>3. (Negative(w, R[1]) <=> t + d < 0) /\ (t + d >= 0 => R[1] = PairOf(w, t + d))
    BY <1>6, <2>1, <2>2, SignedPair DEF M
  <2>4. ~Negative(w, R[1]) /\ \A m \in 0..(1 - 1) : Negative(w, R[m])
    BY <1>9, <1>11, <2>3
  <2>5. QED
    BY <1>8, <1>11, <2>1, <2>3, <2>4
<1>12. CASE t + d < 0
  <2>1. t + (2 * d) \in 0..(d - 1) /\ t + (2 * d) = (t + d) + d /\ t + d \in Int /\ (t + d) + d \in Int
    BY <1>12
  <2>2. -M <= 2 * (t + d) /\ 2 * (t + d) < M /\ -M <= 2 * ((t + d) + d) /\ 2 * ((t + d) + d) < M
    BY <1>3, <1>12 DEF M
  <2>3. Negative(w, R[1])
    BY <1>6, <1>12, <2>1, <2>2, SignedPair DEF M
  <2>4. ~Negative(w, R[2]) /\ R[2] = PairOf(w, (t + d) + d)
    BY <1>7, <2>1, <2>2, SignedPair DEF M
  <2>5. \A m \in 0..(2 - 1) : Negative(w, R[m])
    BY <1>9, <1>12, <2>3
  <2>6. QED
    BY <1>8, <2>1, <2>4, <2>5
<1>13. QED
  BY <1>10, <1>11, <1>12

-----------------------------------------------------------------------------
(* The estimate.  It divides twice by the upper half b1 of the divisor.    *)

\* The divisor is at least half of what its word holds.
Divisor(h, b, b1, b0) == b = (h * b1) + b0 /\ h * h <= 2 * b
\* What the code takes for x / b: x / b1, or the largest half.
Digit(h, b1, x) == IF b1 * h <= x THEN h - 1 ELSE x \div b1

\* A digit is a half word, and below x / b1.
LEMMA DigitBounds ==
  ASSUME NEW h \in Nat \ {0, 1}, NEW b1 \in Nat, NEW x \in Nat
  PROVE  /\ Digit(h, b1, x) \in 0..(h - 1)
         /\ b1 * Digit(h, b1, x) <= x
         /\ x < b1 * h => b1 > 0 /\ x <= (b1 * Digit(h, b1, x)) + (b1 - 1)
<1>1. b1 * h \in Nat
  OBVIOUS
<1>2. CASE b1 * h <= x
  <2>1. Digit(h, b1, x) = h - 1
    BY <1>2 DEF Digit
  <2>2. b1 * (h - 1) <= b1 * h
    BY ProductMonotonic
  <2>3. b1 * (h - 1) \in Int
    OBVIOUS
  <2>4. QED
    BY <1>1, <1>2, <2>1, <2>2, <2>3
<1>3. CASE x < b1 * h
  <2>1. b1 \in Nat \ {0}
    BY <1>3
  <2>2. PICK z \in Nat, r \in 0..(b1 - 1) : z = x \div b1 /\ x = (b1 * z) + r
    BY <2>1, DivMod
  <2>3. Digit(h, b1, x) = z
    BY <1>1, <1>3, <2>2 DEF Digit
  <2>4. b1 * z \in Int /\ b1 * z <= x /\ x <= (b1 * z) + (b1 - 1)
    BY <2>2
  <2>5. b1 * z < b1 * h
    BY <1>1, <1>3, <2>4
  <2>6. z < h
    BY <2>1, <2>5, ProductCancel
  <2>7. QED
    BY <2>1, <2>3, <2>4, <2>6
<1>4. QED
  BY <1>1, <1>2, <1>3

\* The first digit: the remainder is below b * h, and its negative above -2 * b * h.
LEMMA FirstDigit ==
  ASSUME NEW h \in Nat \ {0, 1}, NEW b1 \in 0..(h - 1), NEW b0 \in 0..(h - 1), NEW b \in Nat, Divisor(h, b, b1, b0),
         NEW a \in 0..(b - 1), NEW a0 \in 0..((h * h) - 1), NEW z \in 0..(h - 1), z = Digit(h, b1, a)
  PROVE  LET t == ((a * (h * h)) + a0) - ((b * h) * z)
         IN -(2 * (b * h)) <= t /\ t < b * h /\ -(h * (h * h)) <= t
<1>1. PICK W \in Nat, d \in Nat : W = h * h /\ d = b * h
  OBVIOUS
<1>2. PICK aw \in Nat, dz \in Nat : aw = a * W /\ dz = d * z
  BY <1>1
<1>3. b = (h * b1) + b0 /\ W <= 2 * b
  BY <1>1 DEF Divisor
<1>4. h * W <= 2 * d
  <2>1. h * W <= h * (2 * b)
    BY <1>1, <1>3, ProductMonotonic
  <2>2. h * (2 * b) = 2 * (b * h)
    OBVIOUS
  <2>3. QED
    BY <1>1, <2>1, <2>2
\* b * h * z is (b1 * z) * W, which is at most a * W, and (b0 * z) * h
<1>5. dz = ((b1 * z) * W) + ((b0 * z) * h)
  <2>1. (((h * b1) + b0) * h) * z = ((b1 * z) * (h * h)) + ((b0 * z) * h)
    OBVIOUS
  <2>2. QED
    BY <1>1, <1>2, <1>3, <2>1
<1>6. b1 * z <= a /\ b1 * z \in Nat /\ (a < b1 * h => b1 > 0 /\ a <= (b1 * z) + (b1 - 1))
  <2>1. b1 \in Nat /\ a \in Nat
    OBVIOUS
  <2>2. b1 * z <= a /\ (a < b1 * h => b1 > 0 /\ a <= (b1 * z) + (b1 - 1))
    BY <2>1, DigitBounds, Zenon
  <2>3. QED
    BY <2>2
<1>7. W * (b1 * z) <= W * a /\ W * (b1 * z) = (b1 * z) * W /\ W * a = aw
  BY <1>1, <1>2, <1>6, ProductMonotonic
<1>8. PICK e \in Nat : e = (b0 * z) * h
  OBVIOUS
<1>9. e <= h * W
  <2>1. b0 * z \in 0..((h * h) - 1)
    BY HalfProduct
  <2>2. h * (b0 * z) <= h * W
    BY <1>1, <2>1, ProductMonotonic
  <2>3. h * (b0 * z) = (b0 * z) * h
    OBVIOUS
  <2>4. QED
    BY <1>8, <2>2, <2>3
<1>10. -(h * W) <= (aw + a0) - dz
  <2>1. h * W \in Int /\ (b1 * z) * W \in Int
    BY <1>1
  <2>2. QED
    BY <1>5, <1>7, <1>8, <1>9, <2>1
<1>11. (aw + a0) - dz < d
  <2>1. CASE b1 * h <= a
    <3>1. z = h - 1
      BY <2>1 DEF Digit
    <3>2. dz = (b * W) - d
      <4>1. (b * h) * (h - 1) = (b * (h * h)) - (b * h)
        OBVIOUS
      <4>2. QED
        BY <1>1, <1>2, <3>1, <4>1
    <3>3. W * a <= W * (b - 1) /\ W * (b - 1) = (b * W) - W /\ b * W \in Int
      BY <1>1, ProductMonotonic
    <3>4. QED
      BY <1>1, <1>2, <1>7, <3>2, <3>3
  <2>2. CASE a < b1 * h
    <3>1. PICK s \in Nat : s = (b1 * z) + (b1 - 1) /\ a <= s
      BY <1>6, <2>2
    <3>2. W * a <= W * s
      BY <1>1, <3>1, ProductMonotonic
    <3>3. W * s = (((b1 * z) * W) + (b1 * W)) - W /\ b1 * W \in Nat /\ (b1 * z) * W \in Nat /\ W * s \in Int
      <4>1. W * ((b1 * z) + (b1 - 1)) = (((b1 * z) * W) + (b1 * W)) - W
        BY <1>1
      <4>2. QED
        BY <1>1, <3>1, <4>1
    <3>4. d = (b1 * W) + (b0 * h) /\ b0 * h \in Nat
      <4>1. ((h * b1) + b0) * h = (b1 * (h * h)) + (b0 * h)
        OBVIOUS
      <4>2. QED
        BY <1>1, <1>3, <4>1
    <3>5. PICK x \in Nat, y \in Nat, v \in Nat : x = (b1 * z) * W /\ y = b1 * W /\ v = b0 * h
      BY <3>3, <3>4
    <3>6. aw <= (x + y) - W /\ dz = x + e /\ d = y + v
      BY <1>5, <1>7, <1>8, <3>2, <3>3, <3>4, <3>5
    <3>7. a0 < W
      BY <1>1
    <3>8. QED
      BY <3>6, <3>7
  <2>3. b1 * h \in Nat
    OBVIOUS
  <2>4. QED
    BY <2>1, <2>2, <2>3
<1>12. QED
  <2>1. h * W \in Int
    BY <1>1
  <2>2. QED
    BY <1>1, <1>2, <1>4, <1>10, <1>11, <2>1

\* The second digit is that of the quotient, or at most 2 above it.
LEMMA SecondDigit ==
  ASSUME NEW h \in Nat \ {0, 1}, NEW b1 \in 0..(h - 1), NEW b0 \in 0..(h - 1), NEW b \in Nat \ {0}, Divisor(h, b, b1, b0),
         NEW r \in 0..((b * h) - 1), NEW z \in 0..(h - 1), z = Digit(h, b1, r \div h)
  PROVE  r \div b \in 0..(h - 1) /\ z \in (r \div b)..((r \div b) + 2)
<1>1. PICK W \in Nat, d \in Nat : W = h * h /\ d = b * h
  OBVIOUS
<1>2. b = (h * b1) + b0 /\ W <= 2 * b
  BY <1>1 DEF Divisor
<1>3. PICK q \in Nat, qr \in 0..(b - 1) : q = r \div b /\ r = (b * q) + qr
  <2>1. r \in Int /\ r >= 0
    OBVIOUS
  <2>2. QED
    BY <2>1, DivMod
<1>4. PICK x \in Nat, xr \in 0..(h - 1) : x = r \div h /\ r = (h * x) + xr
  <2>1. r \in Int /\ r >= 0 /\ h \in Nat \ {0}
    OBVIOUS
  <2>2. QED
    BY <2>1, DivMod
<1>5. q \in 0..(h - 1)
  <2>1. b * q < b * h
    <3>1. b * q \in Int /\ b * h \in Int
      OBVIOUS
    <3>2. QED
      BY <1>3, <3>1
  <2>2. q < h
    BY <2>1, ProductCancel
  <2>3. QED
    BY <2>2
<1>6. b1 * z <= x /\ (x < b1 * h => b1 > 0 /\ x <= (b1 * z) + (b1 - 1))
  <2>1. b1 \in Nat /\ x \in Nat /\ z = Digit(h, b1, x)
    BY <1>4
  <2>2. QED
    BY <2>1, DigitBounds, Zenon
<1>7. PICK bz \in Nat, bq \in Nat, hb \in Nat, hx \in Nat : bz = b1 * z /\ bq = b * q /\ hb = h * b1 /\ hx = h * x
  OBVIOUS
\* r is at least b1 * h * z, which is less than b * z - 2 * b.
<1>8. z <= q + 2
  <2>1. h * bz <= hx /\ h * bz = hb * z
    <3>1. h * bz <= h * x
      BY <1>6, <1>7, ProductMonotonic
    <3>2. h * (b1 * z) = (h * b1) * z
      OBVIOUS
    <3>3. QED
      BY <1>7, <3>1, <3>2
  <2>2. PICK hz \in Nat, e \in Nat : hz = hb * z /\ e = b0 * z
    OBVIOUS
  <2>3. e < W
    <3>1. b0 * z \in 0..((h * h) - 1)
      BY HalfProduct
    <3>2. QED
      BY <1>1, <2>2, <3>1
  <2>4. b * (z - 2) = (hz + e) - (2 * b)
    <3>1. (hb + b0) * (z - 2) = ((hb * z) + (b0 * z)) - (2 * (hb + b0))
      OBVIOUS
    <3>2. QED
      BY <1>2, <1>7, <2>2, <3>1
  <2>5. b * (q + 1) = bq + b
    BY <1>7
  <2>6. b * (z - 2) < b * (q + 1)
    <3>1. hz <= r /\ r < bq + b /\ W <= 2 * b
      <4>1. hz <= hx
        BY <2>1, <2>2
      <4>2. r = hx + xr /\ r = bq + qr
        BY <1>3, <1>4, <1>7
      <4>3. xr >= 0 /\ qr < b /\ xr \in Int /\ qr \in Int /\ r \in Int
        OBVIOUS
      <4>4. hz <= r
        BY <4>1, <4>2, <4>3
      <4>5. r < bq + b
        BY <4>2, <4>3
      <4>6. QED
        BY <1>2, <4>4, <4>5
    <3>2. (hz + e) - (2 * b) < bq + b
      BY <2>3, <3>1
    <3>3. QED
      BY <2>4, <2>5, <3>2
  <2>7. z - 2 < q + 1
    BY <2>6, ProductCancel
  <2>8. QED
    BY <2>7
\* the digit is never too small: b1 * h is at most b
<1>9. q <= z
  <2>1. CASE b1 * h <= x
    <3>1. z = h - 1
      BY <1>4, <2>1 DEF Digit
    <3>2. QED
      BY <1>5, <3>1
  <2>2. CASE x < b1 * h
    <3>1. b1 > 0 /\ x <= (bz + b1) - 1
      BY <1>6, <1>7, <2>2
    <3>2. hx <= ((h * bz) + hb) - h /\ h * bz = hb * z
      <4>1. h * x <= h * ((bz + b1) - 1)
        BY <3>1, ProductMonotonic
      <4>2. h * ((bz + b1) - 1) = ((h * bz) + (h * b1)) - h
        OBVIOUS
      <4>3. h * (b1 * z) = (h * b1) * z
        OBVIOUS
      <4>4. QED
        BY <1>7, <4>1, <4>2, <4>3
    <3>3. PICK hz \in Nat : hz = hb * z /\ h * bz = hz
      BY <3>2
    <3>4. r < hz + hb
      BY <1>4, <1>7, <3>2, <3>3
    <3>5. hb * q <= bq
      <4>1. (hb + b0) * q = (hb * q) + (b0 * q) /\ b0 * q \in Nat /\ hb * q \in Nat
        OBVIOUS
      <4>2. QED
        BY <1>2, <1>7, <4>1
    <3>6. hb * q < hb * (z + 1)
      <4>1. hb * (z + 1) = hz + hb /\ hb * q \in Int
        BY <3>3
      <4>2. QED
        BY <1>3, <1>7, <3>4, <3>5, <4>1
    <3>7. hb \in Nat \ {0}
      BY <1>7, <3>1
    <3>8. q < z + 1
      BY <3>6, <3>7, ProductCancel
    <3>9. QED
      BY <3>8
  <2>3. b1 * h \in Nat
    OBVIOUS
  <2>4. QED
    BY <2>1, <2>2, <2>3
<1>10. QED
  BY <1>3, <1>5, <1>8, <1>9

\* Divided by a divisor without a lower half, the second digit is exact.
LEMMA ExactDigit ==
  ASSUME NEW h \in Nat \ {0}, NEW b1 \in Nat \ {0}, NEW b \in Nat \ {0}, b = h * b1, NEW r \in 0..((b * h) - 1)
  PROVE  Digit(h, b1, r \div h) = r \div b
<1>1. PICK x \in Nat, xr \in 0..(h - 1) : x = r \div h /\ r = (h * x) + xr
  <2>1. r \in Int /\ r >= 0
    OBVIOUS
  <2>2. QED
    BY <2>1, DivMod
<1>2. PICK d \in Nat : d = b1 * h
  OBVIOUS
<1>3. x < d
  <2>1. h * x < h * d
    <3>1. b * h = h * d
      <4>1. (h * b1) * h = h * (b1 * h)
        OBVIOUS
      <4>2. QED
        BY <1>2, <4>1
    <3>2. h * x \in Int /\ h * d \in Int
      BY <1>2
    <3>3. QED
      BY <1>1, <3>1, <3>2
  <2>2. QED
    BY <1>2, <2>1, ProductCancel
<1>4. PICK z \in Nat, y \in 0..(b1 - 1) : z = x \div b1 /\ x = (b1 * z) + y
  <2>1. x \in Int /\ x >= 0
    OBVIOUS
  <2>2. QED
    BY <2>1, DivMod
<1>5. Digit(h, b1, r \div h) = z
  <2>1. ~(b1 * h <= x)
    BY <1>2, <1>3
  <2>2. Digit(h, b1, x) = z
    BY <1>4, <2>1 DEF Digit
  <2>3. QED
    BY <1>1, <2>2, Zenon
<1>6. PICK s \in Nat : s = (h * y) + xr
  OBVIOUS
<1>7. r = (b * z) + s
  <2>1. h * ((b1 * z) + y) = ((h * b1) * z) + (h * y)
    OBVIOUS
  <2>2. PICK i \in Nat, j \in Nat : i = b * z /\ j = h * y
    OBVIOUS
  <2>3. h * x = i + j
    BY <1>4, <2>1, <2>2
  <2>4. QED
    BY <1>1, <1>6, <2>2, <2>3
<1>8. s < b
  <2>1. h * (y + 1) <= h * b1
    BY ProductMonotonic
  <2>2. PICK j \in Nat : j = h * y
    OBVIOUS
  <2>3. h * (y + 1) = j + h
    BY <2>2
  <2>4. QED
    BY <1>6, <2>1, <2>2, <2>3
<1>9. r \div b = z
  <2>1. s \in 0..(b - 1)
    BY <1>8
  <2>2. QED
    BY <1>7, <2>1, DivModUnique
<1>10. QED
  BY <1>5, <1>9

\* The upper words of a remainder below b * h make its quotient by h, a word.
LEMMA UpperWords ==
  ASSUME NEW h \in Nat \ {0}, NEW W \in Nat \ {0}, W = h * h, NEW b \in 0..(W - 1), NEW r \in 0..((b * h) - 1)
  PROVE  (((r \div W) * h) + ((r % W) \div h)) % W = r \div h
<1>1. PICK hi \in Nat, lo \in 0..(W - 1) : hi = r \div W /\ lo = r % W /\ r = (W * hi) + lo
  <2>1. r \in Int /\ r >= 0
    OBVIOUS
  <2>2. QED
    BY <2>1, DivMod
<1>2. PICK l1 \in Nat, l0 \in 0..(h - 1) : l1 = lo \div h /\ lo = (h * l1) + l0
  <2>1. lo \in Int /\ lo >= 0
    OBVIOUS
  <2>2. QED
    BY <2>1, DivMod
<1>3. PICK x \in Nat : x = (hi * h) + l1
  OBVIOUS
<1>4. r = (h * x) + l0
  <2>1. PICK u \in Nat, v \in Nat : u = W * hi /\ v = h * l1
    OBVIOUS
  <2>2. h * ((hi * h) + l1) = ((h * h) * hi) + (h * l1)
    OBVIOUS
  <2>3. h * x = u + v
    BY <1>3, <2>1, <2>2
  <2>4. r = u + lo /\ lo = v + l0
    BY <1>1, <1>2, <2>1
  <2>5. QED
    BY <2>3, <2>4
<1>5. r \div h = x
  BY <1>4, DivModUnique
<1>6. x < W
  <2>1. h * x < h * b
    <3>1. h * x <= r /\ r < b * h /\ b * h = h * b /\ h * x \in Int /\ h * b \in Int
      BY <1>4
    <3>2. QED
      BY <3>1
  <2>2. x < b
    BY <2>1, ProductCancel
  <2>3. QED
    BY <2>2
<1>7. x % W = x
  <2>1. x = (W * 0) + x /\ x \in 0..(W - 1) /\ x \in Int
    BY <1>6
  <2>2. QED
    BY <2>1, DivModUnique
<1>8. QED
  BY <1>1, <1>2, <1>3, <1>5, <1>7

\* A quotient by b fits a word of W values exactly if b exceeds the upper word.
LEMMA QuotientFits ==
  ASSUME NEW W \in Nat \ {0}, NEW b \in Nat \ {0}, NEW a \in Nat, NEW a0 \in 0..(W - 1)
  PROVE  ((a * W) + a0) \div b >= W <=> b <= a
<1>1. PICK q \in Nat, r \in 0..(b - 1) : q = ((a * W) + a0) \div b /\ (a * W) + a0 = (b * q) + r
  <2>1. (a * W) + a0 \in Int /\ (a * W) + a0 >= 0
    OBVIOUS
  <2>2. QED
    BY <2>1, DivMod
<1>2. a * W = W * a /\ W * a \in Int /\ b * q \in Int /\ b * W \in Int /\ W * b = b * W
  OBVIOUS
<1>3. CASE b <= a
  <2>1. W * b <= W * a
    BY <1>3, ProductMonotonic
  <2>2. b * W < b * (q + 1)
    <3>1. b * (q + 1) = (b * q) + b
      OBVIOUS
    <3>2. QED
      BY <1>1, <1>2, <2>1, <3>1
  <2>3. W < q + 1
    BY <2>2, ProductCancel
  <2>4. QED
    BY <1>1, <1>3, <2>3
<1>4. CASE a < b
  <2>1. W * (a + 1) <= W * b
    BY <1>4, ProductMonotonic
  <2>2. b * q < b * W
    <3>1. W * (a + 1) = (W * a) + W
      OBVIOUS
    <3>2. QED
      BY <1>1, <1>2, <2>1, <3>1
  <2>3. q < W
    BY <2>2, ProductCancel
  <2>4. QED
    BY <1>1, <1>4, <2>3
<1>5. QED
  BY <1>3, <1>4

\* The estimate for a quotient that fits: two digits, where the first may be lowered twice and
\* the second is exact for a divisor without a lower half.
LEMMA EstimateOfTwoDigits ==
  ASSUME NEW w, WordLaws(w), NEW b \in 2^(w - 1)..(2^w - 1), NEW a64 \in 0..(b - 1), NEW a0 \in 0..(2^w - 1)
  PROVE  LET q == ((a64 * 2^w) + a0) \div b
         IN /\ softfloat_estimateDiv128To64(w, a64, a0, b) \in q..(q + 2)
            /\ b % 2^(w \div 2) = 0 => softfloat_estimateDiv128To64(w, a64, a0, b) = q
<1> DEFINE W == 2^w
           h == 2^(w \div 2)
           b1 == b \div h
           b0 == b % h
           A == (a64 * W) + a0
           zd == Digit(h, b1, a64)
           z0 == zd * h
           rem == softfloat_sub128(w, Pair(a64, a0), softfloat_mul64To128(w, b, z0))
           est == LowerEstimate(w, b, z0, rem)
           rem32 == ((est.rem.hi * h) + (est.rem.lo \div h)) % W
<1>1. /\ W \in Nat \ {0} /\ h \in Nat \ {0, 1} /\ W = h * h /\ Double(w) = W * W
      /\ 2^(w - 1) \in Nat \ {0} /\ 2 * 2^(w - 1) = W
  BY WordSizes DEF Double
<1>2. softfloat_estimateDiv128To64(w, a64, a0, b) = est.z + Digit(h, b1, rem32)
  <2>1. ~(b <= a64)
    BY <1>1
  <2>2. z0 = IF b1 * h <= a64 THEN (h - 1) * h ELSE (a64 \div b1) * h
    BY DEF Digit
  <2>3. QED
    BY <2>1, <2>2 DEF softfloat_estimateDiv128To64, Digit
<1> HIDE DEF W
<1>3. b \in Nat \ {0} /\ b \in 0..(W - 1) /\ W <= 2 * b /\ a64 \in 0..(W - 1) /\ a0 \in 0..(W - 1)
  BY <1>1 DEF W
<1> HIDE DEF h
<1>4. b1 \in 0..(h - 1) /\ b0 \in 0..(h - 1) /\ Divisor(h, b, b1, b0)
  <2>1. b \in 0..((h * h) - 1)
    BY <1>1, <1>3
  <2>2. QED
    BY <1>1, <1>3, <2>1, Halves DEF Divisor
<1> HIDE DEF b1, b0
<1>5. zd \in 0..(h - 1)
  <2>1. b1 \in Nat /\ a64 \in Nat
    BY <1>3, <1>4
  <2>2. QED
    BY <1>1, <2>1, DigitBounds
<1>6. PICK d \in Nat : d = b * h
  BY <1>1, <1>3
<1>7. PICK t \in Int : t = A - (d * zd)
  BY <1>1, <1>3, <1>5
<1>8. -(2 * d) <= t /\ t < d /\ -(h * W) <= t
  <2>1. a64 \in 0..(b - 1) /\ a0 \in 0..((h * h) - 1) /\ zd \in 0..(h - 1) /\ b \in Nat
    BY <1>1, <1>3, <1>5
  <2>2. LET s == ((a64 * (h * h)) + a0) - ((b * h) * zd)
        IN -(2 * (b * h)) <= s /\ s < b * h /\ -(h * (h * h)) <= s
    BY <1>1, <1>4, <2>1, FirstDigit
  <2>3. QED
    BY <1>1, <1>6, <1>7, <2>2
<1>9. -Double(w) <= 2 * t /\ 2 * d <= Double(w)
  <2>1. W * (2 * h) <= W * W
    <3>1. h * 2 <= h * h
      BY <1>1, ProductMonotonic
    <3>2. QED
      BY <1>1, <3>1, ProductMonotonic
  <2>2. W * (2 * h) = 2 * (h * W) /\ h * W \in Int /\ W * W \in Int
    BY <1>1
  <2>3. 2 * d <= W * (2 * h)
    <3>1. h * b <= h * W
      BY <1>1, <1>3, ProductMonotonic
    <3>2. h * b = d
      BY <1>1, <1>3, <1>6
    <3>3. QED
      BY <2>2, <3>1, <3>2
  <2>4. QED
    BY <1>1, <1>8, <2>1, <2>2, <2>3
<1>10. IsPair(w, rem) /\ Value(w, rem) = t % Double(w)
  <2>1. z0 \in 0..(W - 1)
    <3>1. z0 \in 0..((h * h) - h)
      BY <1>1, <1>5, HalfProduct
    <3>2. QED
      BY <1>1, <3>1
  <2>2. IsPair(w, softfloat_mul64To128(w, b, z0)) /\ Value(w, softfloat_mul64To128(w, b, z0)) = b * z0
    BY <1>3, <2>1, Mul64To128 DEF W
  <2>3. IsPair(w, Pair(a64, a0)) /\ Value(w, Pair(a64, a0)) = A
    BY <1>3 DEF IsPair, Value, Pair, W
  <2>4. IsPair(w, rem) /\ Value(w, rem) = (A - (b * z0)) % Double(w)
    BY <2>2, <2>3, Sub128
  <2>5. b * (zd * h) = (b * h) * zd
    BY <1>1, <1>3, <1>5
  <2>6. QED
    BY <1>6, <1>7, <2>4, <2>5
<1> HIDE DEF rem, z0
<1>11. PICK n \in 0..2 : /\ t + (n * d) \in 0..(d - 1)
                         /\ est.z = z0 - (n * h) /\ est.rem = PairOf(w, t + (n * d))
  BY <1>3, <1>6, <1>8, <1>9, <1>10, LowerEstimateEnds DEF W, h
<1>12. PICK R \in 0..((b * h) - 1) : R = t + (n * d)
  BY <1>6, <1>11
<1>13. rem32 = R \div h
  <2>1. est.rem.hi = R \div W /\ est.rem.lo = R % W
    BY <1>11, <1>12 DEF PairOf, Pair, W
  <2>2. (((R \div W) * h) + ((R % W) \div h)) % W = R \div h
    BY <1>1, <1>3, <1>12, UpperWords
  <2>3. QED
    BY <2>1, <2>2
<1>14. PICK x \in Nat, q2 \in Nat, r2 \in 0..(b - 1) :
         x = R \div h /\ q2 = R \div b /\ R = (b * q2) + r2
  <2>1. R \in Int /\ R >= 0 /\ h \in Nat \ {0}
    BY <1>1, <1>3
  <2>2. R \div h \in Nat
    BY <2>1, DivMod
  <2>3. R \div b \in Nat /\ R % b \in 0..(b - 1) /\ R = (b * (R \div b)) + (R % b)
    BY <1>3, <2>1, DivMod
  <2>4. QED
    BY <2>2, <2>3
<1>15. PICK z2 \in 0..(h - 1) : z2 = Digit(h, b1, x)
  <2>1. b1 \in Nat
    BY <1>4
  <2>2. QED
    BY <1>1, <1>14, <2>1, DigitBounds
<1>16. z2 \in q2..(q2 + 2)
  BY <1>1, <1>3, <1>4, <1>14, <1>15, SecondDigit
<1>17. PICK m \in Int : m = (zd * h) - (n * h)
  BY <1>1, <1>5
<1> HIDE DEF zd
<1>18. A \div b = m + q2
  <2>1. A = (b * (m + q2)) + r2
    <3>1. b * (((zd * h) - (n * h)) + q2) = (((b * h) * zd) - (n * (b * h))) + (b * q2)
      <4>1. h \in Int /\ b \in Int /\ zd \in Int /\ n \in Int /\ q2 \in Int
        BY <1>1, <1>3, <1>5
      <4>2. QED
        BY <4>1
    <3>2. PICK e \in Int, f \in Int, g \in Int : e = d * zd /\ f = n * d /\ g = b * q2
      BY <1>3, <1>5, <1>6, <1>14
    <3>3. b * (m + q2) = (e - f) + g
      BY <1>6, <1>17, <3>1, <3>2
    <3>4. R = g + r2 /\ R = t + f /\ t = A - e
      BY <1>7, <1>12, <1>14, <3>2
    <3>5. A \in Int
      BY <1>1, <1>3
    <3>6. b * (m + q2) = (e - f) + (R - r2)
      BY <1>14, <3>2, <3>3, <3>4
    <3>7. ASSUME NEW y \in Int, y = A
          PROVE  y = ((e - f) + (R - r2)) + r2
      BY <3>2, <3>4, <3>7
    <3>8. QED
      BY <3>5, <3>6, <3>7
  <2>2. A \in Int /\ m + q2 \in Int
    BY <1>1, <1>3, <1>14, <1>17
  <2>3. QED
    BY <1>3, <2>1, <2>2, DivModUnique
<1>19. softfloat_estimateDiv128To64(w, a64, a0, b) = m + z2
  <2>1. est.z = m
    BY <1>11, <1>17 DEF z0
  <2>2. QED
    BY <1>2, <1>13, <1>14, <1>15, <2>1 DEF W, h, b1, z0, rem
<1>20. b0 = 0 => z2 = q2
  <2>1. SUFFICES ASSUME b0 = 0 PROVE z2 = q2
    OBVIOUS
  <2>2. b = h * b1 /\ b1 \in Nat
    BY <1>1, <1>4, <2>1 DEF Divisor
  <2>3. h \in Nat \ {0} /\ b1 \in Nat \ {0} /\ b \in Nat \ {0} /\ b = h * b1
    BY <1>1, <1>3, <2>2
  <2>4. \A i \in 0..((b * h) - 1) : Digit(h, b1, i \div h) = i \div b
    BY <2>3, ExactDigit
  <2>5. Digit(h, b1, R \div h) = R \div b
    BY <2>4, Zenon
  <2>6. QED
    BY <1>14, <1>15, <2>5
<1>21. m + z2 \in (m + q2)..((m + q2) + 2) /\ (b0 = 0 => m + z2 = m + q2)
  BY <1>14, <1>15, <1>16, <1>17, <1>20
<1>22. /\ softfloat_estimateDiv128To64(w, a64, a0, b) \in (A \div b)..((A \div b) + 2)
       /\ b0 = 0 => softfloat_estimateDiv128To64(w, a64, a0, b) = A \div b
  BY <1>18, <1>19, <1>21, Zenon
<1>23. QED
  BY <1>22 DEF W, b0, h

\* The estimate for every divisor with its top bit set.
LEMMA EstimateDiv128To64 ==
  ASSUME NEW w, WordLaws(w), NEW b \in 2^(w - 1)..(2^w - 1), NEW a64 \in 0..(2^w - 1), NEW a0 \in 0..(2^w - 1)
  PROVE  LET q == ((a64 * 2^w) + a0) \div b
             e == softfloat_estimateDiv128To64(w, a64, a0, b)
         IN IF q >= 2^w THEN e = 2^w - 1 ELSE e \in q..(q + 2)
<1> DEFINE W == 2^w
           q == ((a64 * W) + a0) \div b
           e == softfloat_estimateDiv128To64(w, a64, a0, b)
<1>1. W \in Nat \ {0} /\ b \in Nat \ {0}
  BY WordSizes
<1> HIDE DEF W
<1>2. q >= W <=> b <= a64
  <2>1. a64 \in Nat /\ a0 \in 0..(W - 1)
    BY <1>1 DEF W
  <2>2. QED
    BY <1>1, <2>1, QuotientFits
<1>3. CASE b <= a64
  <2>1. e = W - 1
    BY <1>3 DEF softfloat_estimateDiv128To64, W
  <2>2. QED
    BY <1>2, <1>3, <2>1 DEF W
<1>4. CASE a64 < b
  <2>1. a64 \in 0..(b - 1) /\ ~(b <= a64)
    BY <1>1, <1>4
  <2>2. e \in q..(q + 2)
    BY <2>1, EstimateOfTwoDigits DEF W
  <2>3. QED
    BY <1>2, <2>1, <2>2 DEF W
<1>5. QED
  BY <1>1, <1>3, <1>4

-----------------------------------------------------------------------------
(* The comparisons.                                                        *)

\* A pattern is the sum of its fields, and its magnitude that of two of them.
LEMMA Fields ==
  ASSUME NEW f, FormatLaws(f), NEW a \in Patterns(f)
  PROVE  \E s \in 0..1, e \in 0..(2^f.E - 1), x \in 0..(hidden(f) - 1), m \in 0..(signBit(f) - 1) :
           /\ signUI(f, a) = s /\ expUI(f, a) = e /\ fracUI(f, a) = x /\ a % signBit(f) = m
           /\ m = (hidden(f) * e) + x /\ a = (signBit(f) * s) + m
<1> DEFINE H == hidden(f)
           P == 2^f.E
           S == signBit(f)
<1>1. H \in Nat \ {0} /\ P \in Nat \ {0} /\ S = P * H /\ a \in 0..((2 * S) - 1)
  BY DEF FormatLaws, Patterns
<1>2. signUI(f, a) = a \div S /\ expUI(f, a) = (a \div H) % P /\ fracUI(f, a) = a % H
  BY DEF signUI, expUI, fracUI
<1> HIDE DEF H, P, S
<1>3. S \in Nat \ {0}
  BY <1>1
<1>4. PICK s \in Nat, m \in 0..(S - 1) : s = a \div S /\ m = a % S /\ a = (S * s) + m
  <2>1. a \in Int /\ a >= 0
    BY <1>1
  <2>2. QED
    BY <1>3, <2>1, DivMod
<1>5. s \in 0..1
  <2>1. S * s < S * 2
    <3>1. S * s \in Int /\ a \in Int /\ S * s <= a /\ a < 2 * S
      BY <1>1, <1>3, <1>4
    <3>2. QED
      BY <1>3, <3>1
  <2>2. s < 2
    BY <1>3, <2>1, ProductCancel
  <2>3. QED
    BY <2>2
<1>6. PICK e \in Nat, x \in 0..(H - 1) : e = m \div H /\ m = (H * e) + x
  <2>1. m \in Int /\ m >= 0
    BY <1>3
  <2>2. QED
    BY <1>1, <2>1, DivMod
<1>7. e \in 0..(P - 1)
  <2>1. H * e < H * P
    <3>1. H * e \in Int /\ H * e <= m /\ m < S /\ S = H * P /\ H * P \in Int
      BY <1>1, <1>3, <1>6
    <3>2. QED
      BY <3>1
  <2>2. e < P
    BY <1>1, <2>1, ProductCancel
  <2>3. QED
    BY <1>1, <2>2
<1>8. a \div H = (P * s) + e /\ a % H = x
  <2>1. a = (H * ((P * s) + e)) + x
    <3>1. H * ((P * s) + e) = ((P * H) * s) + (H * e)
      BY <1>1
    <3>2. PICK u \in Nat, v \in Nat : u = S * s /\ v = H * e
      BY <1>1, <1>3
    <3>3. H * ((P * s) + e) = u + v
      BY <1>1, <3>1, <3>2
    <3>4. a = u + m /\ m = v + x
      BY <1>4, <1>6, <3>2
    <3>5. QED
      BY <3>3, <3>4
  <2>2. a \in Int /\ (P * s) + e \in Int
    BY <1>1
  <2>3. QED
    BY <1>1, <2>1, <2>2, DivModUnique
<1>9. ((P * s) + e) % P = e
  <2>1. (P * s) + e \in Int
    BY <1>1
  <2>2. QED
    BY <1>1, <1>7, <2>1, DivModUnique
<1>10. QED
  BY <1>2, <1>4, <1>5, <1>6, <1>7, <1>8, <1>9 DEF H, P, S

\* The order of the patterns is that of the ordinals, in which both zeros are equal.
LEMMA Orders ==
  ASSUME NEW f, FormatLaws(f), NEW a \in Patterns(f), NEW b \in Patterns(f)
  PROVE  /\ Equal(f, a, b) <=> Ordinal(f, a) = Ordinal(f, b)
         /\ LessEq(f, a, b) <=> Ordinal(f, a) <= Ordinal(f, b)
         /\ Less(f, a, b) <=> Ordinal(f, a) < Ordinal(f, b)
<1>1. PICK S \in Int : S = signBit(f)
  BY DEF FormatLaws
<1>2. PICK s \in 0..1, m \in 0..(S - 1) : signUI(f, a) = s /\ a % S = m /\ a = (S * s) + m
  BY <1>1, Fields
<1>3. PICK t \in 0..1, n \in 0..(S - 1) : signUI(f, b) = t /\ b % S = n /\ b = (S * t) + n
  BY <1>1, Fields
<1>4. Ordinal(f, a) = (IF s = 1 THEN -m ELSE m) /\ Ordinal(f, b) = (IF t = 1 THEN -n ELSE n)
  BY <1>1, <1>2, <1>3 DEF Ordinal
<1>5. a = (IF s = 1 THEN S + m ELSE m) /\ b = (IF t = 1 THEN S + n ELSE n)
  BY <1>2, <1>3
<1>6. bothZero(f, a, b) <=> m = 0 /\ n = 0
  BY <1>1, <1>2, <1>3 DEF bothZero, isZero
<1>7. Equal(f, a, b) <=> Ordinal(f, a) = Ordinal(f, b)
  BY <1>4, <1>5, <1>6 DEF Equal
<1>8. LessEq(f, a, b) <=> Ordinal(f, a) <= Ordinal(f, b)
  BY <1>2, <1>3, <1>4, <1>5, <1>6 DEF LessEq
<1>9. Less(f, a, b) <=> Ordinal(f, a) < Ordinal(f, b)
  BY <1>2, <1>3, <1>4, <1>5, <1>6 DEF Less
<1>10. QED
  BY <1>7, <1>8, <1>9

\* The flags of a comparison with a NaN are those that are promised.
LEMMA FlagsOfNaNs ==
  ASSUME NEW f, NEW a, NEW b
  PROVE  NaNs(f, {a, b}).fl =
           IF softfloat_isSigNaNF32UI(f, a) \/ softfloat_isSigNaNF32UI(f, b) THEN {"invalid"} ELSE {}
BY DEF NaNs, Ret, f32_isSignalingNaN

-----------------------------------------------------------------------------
(* The classes.                                                            *)

\* How many of the three smallest normal, subnormal and infinite magnitudes one has passed.
LEMMA Passed ==
  ASSUME NEW h \in Int, NEW inf \in Int, 1 < h, h < inf, NEW m \in Nat
  PROVE  Cardinality({t \in {1, h, inf} : m >= t}) =
           IF m = 0 THEN 0 ELSE IF m < h THEN 1 ELSE IF m < inf THEN 2 ELSE 3
<1> DEFINE T == {t \in {1, h, inf} : m >= t}
<1>1. IsFiniteSet({1}) /\ Cardinality({1}) = 1
  BY FS_Singleton
<1>2. IsFiniteSet({1, h}) /\ Cardinality({1, h}) = 2
  <2>1. {1} \cup {h} = {1, h} /\ h \notin {1}
    OBVIOUS
  <2>2. QED
    BY <1>1, <2>1, FS_AddElement
<1>3. Cardinality({1, h, inf}) = 3
  <2>1. {1, h} \cup {inf} = {1, h, inf} /\ inf \notin {1, h}
    OBVIOUS
  <2>2. QED
    BY <1>2, <2>1, FS_AddElement
<1>4. CASE m = 0
  <2>1. T = {}
    BY <1>4
  <2>2. QED
    BY <1>4, <2>1, FS_EmptySet
<1>5. CASE 0 < m /\ m < h
  <2>1. T = {1}
    BY <1>5
  <2>2. QED
    BY <1>1, <1>5, <2>1
<1>6. CASE h <= m /\ m < inf
  <2>1. T = {1, h}
    BY <1>6
  <2>2. QED
    BY <1>2, <1>6, <2>1
<1>7. CASE inf <= m
  <2>1. T = {1, h, inf}
    BY <1>7
  <2>2. QED
    BY <1>3, <1>7, <2>1
<1>8. QED
  BY <1>4, <1>5, <1>6, <1>7

\* Every pattern is in one class, and the classes follow the magnitude.
LEMMA Classifies ==
  ASSUME NEW f, FormatLaws(f), NEW a \in Patterns(f)
  PROVE  Ret(f32_classify(f, a), {}) = ClassSpec(f, a)
<1>1. PICK H \in Nat \ {0, 1}, P \in Nat \ (0..2), S \in Nat : H = hidden(f) /\ P = 2^f.E /\ S = signBit(f)
  BY DEF FormatLaws
<1>2. PICK s \in 0..1, e \in 0..(P - 1), x \in 0..(H - 1), m \in Nat :
        /\ signUI(f, a) = s /\ expUI(f, a) = e /\ fracUI(f, a) = x /\ a % S = m
        /\ m = (H * e) + x
  BY <1>1, Fields
<1>3. PICK inf \in Int : inf = Inf(f, 0) /\ inf = H * (P - 1)
  <2>1. Inf(f, 0) = ((0 * S) + ((P - 1) * H)) + 0
    BY <1>1 DEF Inf, packToUI, expMax
  <2>2. QED
    BY <1>1, <2>1
<1>4. 1 < H /\ H < inf
  <2>1. H * 2 <= H * (P - 1)
    BY <1>1, ProductMonotonic
  <2>2. QED
    BY <1>1, <1>3, <2>1
<1>5. Cardinality({t \in {1, hidden(f), Inf(f, 0)} : a % signBit(f) >= t}) =
        IF m = 0 THEN 0 ELSE IF m < H THEN 1 ELSE IF m < inf THEN 2 ELSE 3
  <2>1. Cardinality({t \in {1, H, inf} : m >= t}) =
          IF m = 0 THEN 0 ELSE IF m < H THEN 1 ELSE IF m < inf THEN 2 ELSE 3
    BY <1>4, Passed
  <2>2. {t \in {1, hidden(f), Inf(f, 0)} : a % signBit(f) >= t} = {t \in {1, H, inf} : m >= t}
    BY <1>1, <1>2, <1>3
  <2>3. QED
    BY <2>1, <2>2
<1>6. /\ m = 0 <=> e = 0 /\ x = 0
      /\ m < H <=> e = 0
      /\ m < inf <=> e < P - 1
      /\ m = inf <=> e = P - 1 /\ x = 0
  <2>1. CASE e = 0
    <3>1. m = x
      BY <1>2, <2>1
    <3>2. QED
      BY <1>4, <2>1, <3>1
  <2>2. CASE e \in 1..(P - 2)
    <3>1. H * 1 <= H * e /\ H * e <= H * (P - 2)
      BY <2>2, ProductMonotonic
    <3>2. H * (P - 2) = (H * (P - 1)) - H
      OBVIOUS
    <3>3. H <= m /\ m < inf
      <4>1. PICK he \in Int : he = H * e
        OBVIOUS
      <4>2. m = he + x /\ H <= he /\ he <= inf - H
        BY <1>2, <1>3, <3>1, <3>2, <4>1
      <4>3. QED
        BY <4>2
    <3>4. QED
      BY <2>2, <3>3
  <2>3. CASE e = P - 1
    <3>1. m = inf + x
      BY <1>2, <1>3, <2>3
    <3>2. QED
      BY <1>4, <2>3, <3>1
  <2>4. e = 0 \/ e \in 1..(P - 2) \/ e = P - 1
    OBVIOUS
  <2>5. QED
    BY <2>1, <2>2, <2>3, <2>4
<1>7. /\ isNaNUI(f, a) <=> e = P - 1 /\ x # 0
      /\ isInf(f, a) <=> e = P - 1 /\ x = 0
      /\ isZero(f, a) <=> e = 0 /\ x = 0
      /\ expMax(f) = P - 1
  BY <1>1, <1>2, <1>3, <1>6 DEF isNaNUI, isInf, isZero, expMax
<1>8. PICK passed \in 0..3 : /\ passed = Cardinality({t \in {1, hidden(f), Inf(f, 0)} : a % signBit(f) >= t})
                             /\ passed = IF m = 0 THEN 0 ELSE IF m < H THEN 1 ELSE IF m < inf THEN 2 ELSE 3
  BY <1>5
<1>9. ClassSpec(f, a) = IF isNaNUI(f, a) THEN Ret(IF f32_isSignalingNaN(f, a) THEN 8 ELSE 9, {})
                        ELSE Ret(IF s = 1 THEN 3 - passed ELSE 4 + passed, {})
  BY <1>2, <1>8 DEF ClassSpec
<1>10. CASE isNaNUI(f, a)
  <2>1. ~isInf(f, a) /\ ~(e \in 1..(expMax(f) - 1)) /\ e # 0 /\ ~isZero(f, a)
    BY <1>7, <1>10
  <2>2. f32_classify(f, a) = IF softfloat_isSigNaNF32UI(f, a) THEN 8 ELSE 9
    BY <1>2, <1>10, <2>1 DEF f32_classify
  <2>3. QED
    BY <1>9, <1>10, <2>2 DEF f32_isSignalingNaN
<1>11. CASE e = P - 1 /\ x = 0
  <2>1. passed = 3 /\ isInf(f, a) /\ ~isNaNUI(f, a) /\ ~(e \in 1..(expMax(f) - 1)) /\ e # 0 /\ ~isZero(f, a)
    BY <1>6, <1>7, <1>8, <1>11
  <2>2. f32_classify(f, a) = IF s = 1 THEN 0 ELSE 7
    BY <1>2, <2>1 DEF f32_classify
  <2>3. QED
    BY <1>2, <1>9, <2>1, <2>2
<1>12. CASE e \in 1..(P - 2)
  <2>1. passed = 2 /\ ~isInf(f, a) /\ ~isNaNUI(f, a) /\ e \in 1..(expMax(f) - 1) /\ e # 0 /\ ~isZero(f, a)
    BY <1>6, <1>7, <1>8, <1>12
  <2>2. f32_classify(f, a) = IF s = 1 THEN 1 ELSE 6
    BY <1>2, <2>1 DEF f32_classify
  <2>3. QED
    BY <1>2, <1>9, <2>1, <2>2
<1>13. CASE e = 0 /\ x # 0
  <2>1. passed = 1 /\ ~isInf(f, a) /\ ~isNaNUI(f, a) /\ ~(e \in 1..(expMax(f) - 1)) /\ e = 0 /\ ~isZero(f, a)
    BY <1>6, <1>7, <1>8, <1>13
  <2>2. f32_classify(f, a) = IF s = 1 THEN 2 ELSE 5
    BY <1>2, <2>1 DEF f32_classify
  <2>3. QED
    BY <1>2, <1>9, <2>1, <2>2
<1>14. CASE e = 0 /\ x = 0
  <2>1. passed = 0 /\ ~isInf(f, a) /\ ~isNaNUI(f, a) /\ ~(e \in 1..(expMax(f) - 1)) /\ e = 0 /\ isZero(f, a)
    BY <1>6, <1>7, <1>8, <1>14
  <2>2. f32_classify(f, a) = IF s = 1 THEN 3 ELSE 4
    BY <1>2, <2>1 DEF f32_classify
  <2>3. QED
    BY <1>2, <1>9, <2>1, <2>2
<1>15. QED
  BY <1>7, <1>10, <1>11, <1>12, <1>13, <1>14

-----------------------------------------------------------------------------
(* Powers of two, which the provers do not know: 2^n is the number of      *)
(* subsets of a set of n elements.                                         *)

\* A set of naturals has a least element.
LEMMA Least ==
  ASSUME NEW S \in SUBSET Nat, S # {}
  PROVE  \E x \in S : \A y \in S : x <= y
<1>1. PICK x \in S : \A y \in S : ~(<<y, x>> \in OpToRel(<, Nat))
  BY WFMin, NatLessThanWellFounded
<1>2. \A y \in S : ~(y < x)
  BY <1>1 DEF OpToRel
<1>3. QED
  BY <1>2

\* The empty set has one subset.
LEMMA PowerZero == 2^0 = 1
<1>1. Cardinality({}) = 0 /\ IsFiniteSet({})
  BY FS_EmptySet
<1>2. Cardinality(SUBSET {}) = 2^Cardinality({})
  BY <1>1, FS_SUBSET
<1>3. SUBSET {} = {{}}
  OBVIOUS
<1>4. Cardinality({{}}) = 1
  BY FS_Singleton
<1>5. QED
  BY <1>1, <1>2, <1>3, <1>4

\* A set of one element has two.
LEMMA PowerOne == 2^1 = 2
<1>1. Cardinality({1}) = 1 /\ IsFiniteSet({1})
  BY FS_Singleton
<1>2. Cardinality(SUBSET {1}) = 2^Cardinality({1})
  BY <1>1, FS_SUBSET
<1>3. SUBSET {1} = {{}} \cup {{1}}
  OBVIOUS
<1>4. /\ Cardinality({{}}) = 1 /\ IsFiniteSet({{}})
      /\ Cardinality({{1}}) = 1 /\ IsFiniteSet({{1}})
  BY FS_Singleton
<1>5. {{}} \cap {{1}} = {}
  OBVIOUS
<1>6. Cardinality({}) = 0
  BY FS_EmptySet
<1>7. Cardinality({{}} \cup {{1}}) = Cardinality({{}}) + Cardinality({{1}}) - Cardinality({{}} \cap {{1}})
  BY <1>4, FS_Union
<1>8. Cardinality({{}} \cap {{1}}) = 0
  BY <1>5, <1>6
<1>9. Cardinality({{}} \cup {{1}}) = 2
  <2> DEFINE X == {{}}
             Y == {{1}}
             i == X \cap Y
             u == X \cup Y
  <2>1. Cardinality(X) = 1 /\ Cardinality(Y) = 1 /\ Cardinality(i) = 0
    BY <1>4, <1>8
  <2>2. Cardinality(u) = Cardinality(X) + Cardinality(Y) - Cardinality(i)
    BY <1>7
  <2> HIDE DEF X, Y, i, u
  <2>3. Cardinality(u) = 2
    BY <2>1, <2>2
  <2>4. QED
    BY <2>3 DEF u, X, Y
<1>10. QED
  BY <1>1, <1>2, <1>3, <1>9

\* The subsets of two disjoint sets are pairs of subsets.
LEMMA PowerSum ==
  ASSUME NEW m \in Nat, NEW n \in Nat
  PROVE  2^m \in Nat /\ 2^(m + n) = 2^m * 2^n
<1> DEFINE S == 1..m
           T == (m + 1)..(m + n)
           f == [X \in SUBSET (S \cup T) |-> <<X \cap S, X \cap T>>]
<1>1. IsFiniteSet(S) /\ Cardinality(S) = m /\ IsFiniteSet(T) /\ Cardinality(T) = n
  BY FS_Interval
<1>2. S \cup T = 1..(m + n) /\ S \cap T = {}
  OBVIOUS
<1>3. IsFiniteSet(S \cup T) /\ Cardinality(S \cup T) = m + n
  <2>1. PICK k \in Nat : k = m + n
    OBVIOUS
  <2>2. IsFiniteSet(1..k) /\ Cardinality(1..k) = k
    BY FS_Interval
  <2>3. QED
    BY <1>2, <2>1, <2>2
<1> HIDE DEF S, T
<1>4. f \in [SUBSET (S \cup T) -> (SUBSET S) \X (SUBSET T)]
  OBVIOUS
<1>5. ASSUME NEW X \in SUBSET (S \cup T), NEW Y \in SUBSET (S \cup T), f[X] = f[Y] PROVE X = Y
  <2>1. X \cap S = Y \cap S /\ X \cap T = Y \cap T
    BY <1>5
  <2>2. QED
    BY <2>1
<1>6. ASSUME NEW p \in (SUBSET S) \X (SUBSET T) PROVE \E X \in SUBSET (S \cup T) : f[X] = p
  <2>1. p = <<p[1], p[2]>> /\ p[1] \in SUBSET S /\ p[2] \in SUBSET T
    OBVIOUS
  <2>2. PICK A \in SUBSET S, B \in SUBSET T : p = <<A, B>>
    BY <2>1
  <2>3. (A \cup B) \cap S = A /\ (A \cup B) \cap T = B
    BY <1>2
  <2>4. A \cup B \in SUBSET (S \cup T)
    OBVIOUS
  <2>5. f[A \cup B] = p
    BY <2>2, <2>3, <2>4
  <2>6. QED
    BY <2>4, <2>5
<1>7. ExistsBijection(SUBSET (S \cup T), (SUBSET S) \X (SUBSET T))
  <2> HIDE DEF f
  <2>1. IsInjective(f)
    BY <1>4, <1>5 DEF IsInjective
  <2>2. f \in Bijection(SUBSET (S \cup T), (SUBSET S) \X (SUBSET T))
    BY <1>4, <1>6, <2>1 DEF Bijection, Injection, Surjection
  <2>3. QED
    BY <2>2 DEF ExistsBijection
<1>8. /\ IsFiniteSet(SUBSET (S \cup T)) /\ Cardinality(SUBSET (S \cup T)) = 2^(m + n)
      /\ IsFiniteSet(SUBSET S) /\ Cardinality(SUBSET S) = 2^m
      /\ IsFiniteSet(SUBSET T) /\ Cardinality(SUBSET T) = 2^n
  BY <1>1, <1>3, FS_SUBSET
<1>9. Cardinality((SUBSET S) \X (SUBSET T)) = 2^(m + n)
  BY <1>7, <1>8, FS_Bijection
<1>10. Cardinality((SUBSET S) \X (SUBSET T)) = 2^m * 2^n
  BY <1>8, FS_Product
<1>11. 2^m \in Nat
  BY <1>8, FS_CardinalityType
<1>12. QED
  BY <1>9, <1>10, <1>11

\* A power of two is a natural number and not zero.
LEMMA PowerPositive == \A n \in Nat : 2^n \in Nat \ {0}
<1> SUFFICES ASSUME NEW n \in Nat PROVE 2^n # 0
  BY PowerSum
<1> DEFINE S == 1..n
<1>1. IsFiniteSet(S) /\ Cardinality(S) = n
  BY FS_Interval
<1> HIDE DEF S
<1>2. IsFiniteSet(SUBSET S) /\ Cardinality(SUBSET S) = 2^n
  BY <1>1, FS_SUBSET
<1>3. SUBSET S # {}
  OBVIOUS
<1>4. Cardinality(SUBSET S) # 0
  BY <1>2, <1>3, FS_EmptySet
<1>5. QED
  BY <1>2, <1>4

\* The next power is twice as large.
LEMMA PowerNext ==
  ASSUME NEW n \in Nat
  PROVE  2^(n + 1) = 2 * 2^n
<1>1. 2^n \in Nat /\ 2^(n + 1) = 2^n * 2^1
  BY PowerSum
<1>2. QED
  BY <1>1, PowerOne

\* Powers grow with their exponents.
LEMMA PowerLess ==
  ASSUME NEW m \in Nat, NEW n \in Nat, m <= n
  PROVE  2^m <= 2^n /\ (m < n => 2 * 2^m <= 2^n)
<1>1. PICK k \in Nat : n = m + k
  <2>1. n - m \in Nat /\ n = m + (n - m)
    OBVIOUS
  <2>2. QED
    BY <2>1
<1>2. 2^n = 2^m * 2^k /\ 2^m \in Nat \ {0} /\ 2^k \in Nat \ {0}
  BY <1>1, PowerSum, PowerPositive
<1>3. 2^m <= 2^n
  <2>1. 2^m * 1 <= 2^m * 2^k
    BY <1>2, ProductMonotonic
  <2>2. QED
    BY <1>2, <2>1
<1>4. ASSUME m < n PROVE 2 * 2^m <= 2^n
  <2>1. PICK j \in Nat : k = j + 1
    BY <1>1, <1>4
  <2>2. 2^k = 2 * 2^j /\ 2^j \in Nat \ {0}
    BY <2>1, PowerNext, PowerPositive
  <2>3. 2^m * 2 <= 2^m * 2^k
    BY <1>2, <2>2, ProductMonotonic
  <2>4. QED
    BY <1>2, <2>3
<1>5. QED
  BY <1>3, <1>4

-----------------------------------------------------------------------------
(* What a number that stands for a quotient is compared with.              *)

\* s stands for n / d: they compare in the same way with the multiples of u.
Stands(s, n, d, u) ==
  \A t \in Nat : (n < (t * u) * d <=> s < t * u) /\ (n = (t * u) * d <=> s = t * u)

\* The quotient n / d with the rest jammed into its last bit.
JamOf(n, d) == Jammed(n \div d, n % d # 0)

\* Quotient and remainder of naturals.
LEMMA DivNat ==
  ASSUME NEW n \in Nat, NEW d \in Nat \ {0}
  PROVE  \E q \in Nat, r \in 0..(d - 1) : q = n \div d /\ r = n % d /\ n = (d * q) + r
<1>1. n \in Int /\ n >= 0
  OBVIOUS
<1>2. /\ n = (d * (n \div d)) + (n % d)
      /\ n % d \in 0..(d - 1) /\ n \div d \in Nat
  BY <1>1, DivMod
<1>3. QED
  BY <1>2

\* Comparing with an even number, the jammed quotient acts like the exact one.
LEMMA JamOrder ==
  ASSUME NEW d \in Nat \ {0}, NEW q \in Nat, NEW r \in 0..(d - 1), NEW T \in Nat, T % 2 = 0,
         NEW n \in Nat, n = (d * q) + r, NEW s \in Nat, s = IF r # 0 /\ q % 2 = 0 THEN q + 1 ELSE q
  PROVE  (n < T * d <=> s < T) /\ (n = T * d <=> s = T)
<1>1. PICK x \in Nat, y \in Nat : x = d * q /\ y = T * d /\ n = x + r
  <2>1. d * q \in Nat /\ T * d \in Nat
    OBVIOUS
  <2>2. QED
    BY <2>1
<1>2. CASE q < T
  <2>1. d * (q + 1) <= d * T
    BY <1>2, ProductMonotonic
  <2>2. d * (q + 1) = x + d /\ d * T = y
    BY <1>1
  <2>3. n < y
    BY <1>1, <2>1, <2>2
  <2>4. q % 2 = 0 => q + 1 # T
    OBVIOUS
  <2>5. s < T
    BY <1>2, <2>4
  <2>6. QED
    BY <1>1, <2>3, <2>5
<1>3. CASE T < q
  <2>1. d * (T + 1) <= d * q
    BY <1>3, ProductMonotonic
  <2>2. d * (T + 1) = y + d
    BY <1>1
  <2>3. y < n
    BY <1>1, <2>1, <2>2
  <2>4. T < s
    BY <1>3
  <2>5. QED
    BY <1>1, <2>3, <2>4
<1>4. CASE q = T
  <2>1. x = y
    BY <1>1, <1>4
  <2>2. s = IF r # 0 THEN T + 1 ELSE T
    BY <1>4
  <2>3. QED
    BY <1>1, <2>1, <2>2
<1>5. QED
  BY <1>2, <1>3, <1>4

\* So does the quotient that JamOf makes of any two numbers.
LEMMA JamCompares ==
  ASSUME NEW n \in Nat, NEW d \in Nat \ {0}
  PROVE  /\ JamOf(n, d) \in Nat
         /\ \A T \in Nat : T % 2 = 0 => (n < T * d <=> JamOf(n, d) < T) /\ (n = T * d <=> JamOf(n, d) = T)
<1>1. PICK q \in Nat, r \in 0..(d - 1) : q = n \div d /\ r = n % d /\ n = (d * q) + r
  BY DivNat
<1>2. JamOf(n, d) = IF r # 0 /\ q % 2 = 0 THEN q + 1 ELSE q
  BY <1>1 DEF JamOf, Jammed
<1>3. PICK s \in Nat : s = JamOf(n, d)
  BY <1>2
<1>4. ASSUME NEW T \in Nat, T % 2 = 0
      PROVE  (n < T * d <=> s < T) /\ (n = T * d <=> s = T)
  BY <1>1, <1>2, <1>3, <1>4, JamOrder
<1>5. QED
  BY <1>3, <1>4

\* A jammed quotient stands for the exact one, as long as it is compared with even numbers.
LEMMA JamStands ==
  ASSUME NEW n \in Nat, NEW d \in Nat \ {0}, NEW u \in Nat, u % 2 = 0
  PROVE  Stands(JamOf(n, d), n, d, u) /\ JamOf(n, d) \in Nat
<1> SUFFICES ASSUME NEW t \in Nat
             PROVE  LET s == JamOf(n, d)
                    IN s \in Nat /\ (n < (t * u) * d <=> s < t * u) /\ (n = (t * u) * d <=> s = t * u)
  BY DEF Stands
<1>1. PICK T \in Nat : T = t * u /\ T % 2 = 0
  <2>1. PICK v \in Nat : u = 2 * v
    OBVIOUS
  <2>2. PICK x \in Nat : x = t * v
    OBVIOUS
  <2>3. PICK y \in Nat : y = t * u /\ y = 2 * x
    BY <2>1, <2>2
  <2>4. y % 2 = 0
    BY <2>3
  <2>5. QED
    BY <2>3, <2>4
<1>2. JamOf(n, d) \in Nat /\ (n < T * d <=> JamOf(n, d) < T) /\ (n = T * d <=> JamOf(n, d) = T)
  <2>1. /\ JamOf(n, d) \in Nat
        /\ \A v \in Nat : v % 2 = 0 => (n < v * d <=> JamOf(n, d) < v) /\ (n = v * d <=> JamOf(n, d) = v)
    BY JamCompares
  <2>2. QED
    BY <1>1, <2>1
<1>3. QED
  BY <1>1, <1>2

\* A jamming shift stands for the quotient by the power of two.
LEMMA StandsShifted ==
  ASSUME NEW s \in Nat, NEW n \in Nat, NEW d \in Nat \ {0}, NEW u \in Nat, u % 2 = 0,
         Stands(s, n, d, u), NEW p \in Nat \ {0}
  PROVE  Stands(JamOf(s, p), n, d * p, u) /\ JamOf(s, p) \in Nat
<1> DEFINE j == JamOf(s, p)
<1>1. Stands(j, s, p, u) /\ j \in Nat
  BY JamStands
<1> HIDE DEF j
<1>2. ASSUME NEW t \in Nat
      PROVE  (n < (t * u) * (d * p) <=> j < t * u) /\ (n = (t * u) * (d * p) <=> j = t * u)
  <2>1. (s < (t * u) * p <=> j < t * u) /\ (s = (t * u) * p <=> j = t * u)
    BY <1>1 DEF Stands
  <2>2. PICK x \in Nat : x = t * p
    OBVIOUS
  <2>3. (n < (x * u) * d <=> s < x * u) /\ (n = (x * u) * d <=> s = x * u)
    BY DEF Stands
  <2>4. x * u = (t * u) * p
    BY <2>2
  <2>5. (x * u) * d = (t * u) * (d * p)
    <3>1. PICK y \in Nat : y = t * u
      OBVIOUS
    <3>2. (y * p) * d = y * (d * p)
      OBVIOUS
    <3>3. QED
      BY <2>4, <3>1, <3>2
  <2>6. QED
    BY <2>1, <2>3, <2>4, <2>5
<1>3. QED
  BY <1>1, <1>2 DEF Stands, j

\* What stands for a quotient in units of u stands for it in every multiple of u.
LEMMA StandsCoarser ==
  ASSUME NEW s \in Nat, NEW n \in Nat, NEW d \in Nat \ {0}, NEW u \in Nat, Stands(s, n, d, u), NEW p \in Nat
  PROVE  Stands(s, n, d, u * p)
<1> SUFFICES ASSUME NEW t \in Nat
             PROVE  (n < (t * (u * p)) * d <=> s < t * (u * p)) /\ (n = (t * (u * p)) * d <=> s = t * (u * p))
  BY DEF Stands
<1>1. PICK x \in Nat : x = t * p
  OBVIOUS
<1>2. x * u = t * (u * p)
  BY <1>1
<1>3. (n < (x * u) * d <=> s < x * u) /\ (n = (x * u) * d <=> s = x * u)
  BY DEF Stands
<1>4. QED
  BY <1>2, <1>3

\* Both may be doubled.
LEMMA StandsDoubled ==
  ASSUME NEW s \in Nat, NEW n \in Nat, NEW d \in Nat \ {0}, NEW u \in Nat, Stands(s, n, d, u)
  PROVE  Stands(2 * s, 2 * n, d, 2 * u)
<1> SUFFICES ASSUME NEW t \in Nat
             PROVE  /\ 2 * n < (t * (2 * u)) * d <=> 2 * s < t * (2 * u)
                    /\ 2 * n = (t * (2 * u)) * d <=> 2 * s = t * (2 * u)
  BY DEF Stands
<1>1. PICK x \in Nat, y \in Nat : x = t * u /\ y = x * d
  <2>1. PICK x \in Nat : x = t * u
    OBVIOUS
  <2>2. x * d \in Nat
    OBVIOUS
  <2>3. QED
    BY <2>1, <2>2
<1>2. t * (2 * u) = 2 * x
  BY <1>1
<1>3. (2 * x) * d = 2 * y
  BY <1>1
<1>4. (n < y <=> s < x) /\ (n = y <=> s = x)
  BY <1>1 DEF Stands
<1>5. QED
  BY <1>2, <1>3, <1>4

-----------------------------------------------------------------------------
(* Formats.                                                                *)

\* The constants of a format as products of three powers of two.
Sizes(f, h, u, b) ==
  /\ hidden(f) = h /\ 2^f.F = h /\ h % 2 = 0 /\ h >= 2
  /\ 2^f.G = 2 * u /\ 2^(f.G - 1) = u /\ u % 4 = 0 /\ u >= 4
  /\ 2^f.E = 2 * b /\ 2^(f.E - 1) = b /\ b >= 2 /\ bias(f) = b - 1 /\ expMax(f) = (2 * b) - 1
  /\ signBit(f) = (2 * b) * h
  /\ 2^(f.F + f.G) = h * (2 * u) /\ 2^(f.F + f.G - 1) = h * u
  /\ top(f) = 2 * (h * (2 * u)) /\ 2^word(f) = 4 * (h * (2 * u))

\* Every format has such constants: its fields are as wide as the three powers say.
LEMMA FormatSizes ==
  ASSUME NEW f, IsFormat(f)
  PROVE  \E h \in Nat, u \in Nat, b \in Nat : Sizes(f, h, u, b)
<1>1. PICK E \in Nat, F \in Nat, G \in Nat : E = f.E /\ F = f.F /\ G = f.G /\ E >= 2 /\ F >= 1 /\ G >= 3
  BY DEF IsFormat
<1>2. PICK E1 \in Nat, E2 \in Nat, F1 \in Nat, G1 \in Nat, G2 \in Nat, G3 \in Nat :
        /\ E = E1 + 1 /\ E1 = E2 + 1 /\ F = F1 + 1 /\ G = G1 + 1 /\ G1 = G2 + 1 /\ G2 = G3 + 1
        /\ E - 1 = E1 /\ G - 1 = G1
  <2>1. /\ E - 1 \in Nat /\ E - 2 \in Nat /\ F - 1 \in Nat /\ G - 1 \in Nat /\ G - 2 \in Nat /\ G - 3 \in Nat
        /\ E = (E - 1) + 1 /\ E - 1 = (E - 2) + 1 /\ F = (F - 1) + 1
        /\ G = (G - 1) + 1 /\ G - 1 = (G - 2) + 1 /\ G - 2 = (G - 3) + 1
    BY <1>1
  <2>2. QED
    BY <2>1
<1>3. PICK b \in Nat \ {0}, b2 \in Nat \ {0} : b = 2^E1 /\ b2 = 2^E2 /\ b = 2 * b2 /\ 2^E = 2 * b
  BY <1>2, PowerNext, PowerPositive
<1>4. PICK h \in Nat \ {0}, h1 \in Nat \ {0} : h = 2^F /\ h1 = 2^F1 /\ h = 2 * h1
  BY <1>2, PowerNext, PowerPositive
<1>5. PICK u \in Nat \ {0}, u2 \in Nat \ {0}, u3 \in Nat \ {0} :
        u = 2^G1 /\ u2 = 2^G2 /\ u3 = 2^G3 /\ u = 2 * u2 /\ u2 = 2 * u3 /\ 2^G = 2 * u
  <2>1. 2^G1 \in Nat \ {0} /\ 2^G2 \in Nat \ {0} /\ 2^G3 \in Nat \ {0}
    BY PowerPositive
  <2>2. 2^G = 2 * 2^G1
    BY <1>2, PowerNext
  <2>3. 2^G1 = 2 * 2^G2
    BY <1>2, PowerNext
  <2>4. 2^G2 = 2 * 2^G3
    BY <1>2, PowerNext
  <2>5. QED
    BY <2>1, <2>2, <2>3, <2>4
<1>6. 2^(E + F) = (2 * b) * h
  <2>1. 2^(E + F) = 2^E * 2^F
    BY PowerSum
  <2>2. 2^E = 2 * b /\ 2^F = h
    BY <1>3, <1>4
  <2>3. QED
    BY <2>1, <2>2, Zenon
<1>7. 2^(F + G) = h * (2 * u)
  <2>1. 2^(F + G) = 2^F * 2^G
    BY PowerSum
  <2>2. 2^F = h /\ 2^G = 2 * u
    BY <1>4, <1>5
  <2>3. QED
    BY <2>1, <2>2, Zenon
<1>8. 2^(F + G - 1) = h * u
  <2>1. F + G - 1 = F + G1
    BY <1>2
  <2>2. 2^(F + G1) = 2^F * 2^G1
    BY PowerSum
  <2>3. QED
    BY <1>4, <1>5, <2>1, <2>2
<1>9. PICK y \in Nat : y = h * (2 * u)
  OBVIOUS
<1>10. PICK k \in Nat : k = F + G
  OBVIOUS
<1>11. 2^(k + 1) = 2 * y /\ 2^((k + 1) + 1) = 2 * 2^(k + 1)
  <2>1. k + 1 \in Nat
    OBVIOUS
  <2>2. QED
    BY <1>7, <1>9, <1>10, <2>1, PowerNext
<1>12. F + G + 1 = k + 1 /\ F + G + 2 = (k + 1) + 1
  BY <1>10
<1>13. 2^(F + G + 1) = 2 * y /\ 2^(F + G + 2) = 4 * y
  BY <1>11, <1>12
<1>14. h % 2 = 0 /\ h >= 2 /\ u % 4 = 0 /\ u >= 4 /\ b >= 2
  BY <1>3, <1>4, <1>5
<1>15. /\ hidden(f) = h /\ 2^f.F = h /\ 2^f.G = 2 * u /\ 2^(f.G - 1) = u
       /\ 2^f.E = 2 * b /\ 2^(f.E - 1) = b /\ bias(f) = b - 1 /\ expMax(f) = (2 * b) - 1
       /\ signBit(f) = (2 * b) * h
  BY <1>1, <1>2, <1>3, <1>4, <1>5, <1>6 DEF hidden, bias, expMax, signBit
<1>16. /\ 2^(f.F + f.G) = h * (2 * u) /\ 2^(f.F + f.G - 1) = h * u
       /\ top(f) = 2 * (h * (2 * u)) /\ 2^word(f) = 4 * (h * (2 * u))
  BY <1>1, <1>7, <1>8, <1>9, <1>13 DEF top, word
<1>17. QED
  BY <1>14, <1>15, <1>16 DEF Sizes

-----------------------------------------------------------------------------
(* Values.                                                                 *)

\* c units of 2^e are the value of the magnitude e * hidden + c, up to the next exponent.
LEMMA ValAt ==
  ASSUME NEW f, NEW h \in Nat \ {0}, hidden(f) = h,
         NEW e \in Nat, NEW c \in 0..(2 * h), e = 0 \/ h <= c
  PROVE  Val(f, (e * h) + c) = c * 2^e
<1>1. PICK m \in Nat : m = (e * h) + c
  OBVIOUS
<1>2. PICK P \in Nat \ {0} : P = 2^e /\ 2^(e + 1) = 2 * P
  BY PowerPositive, PowerNext
<1>3. ASSUME NEW q \in Nat, NEW r \in 0..(h - 1), m = (h * q) + r
      PROVE  Val(f, m) = IF q = 0 THEN m ELSE (r + h) * 2^(q - 1)
  <2>1. m \div h = q /\ m % h = r
    BY <1>3, DivModUnique
  <2>2. QED
    BY <2>1 DEF Val
<1>4. CASE c < h
  <2>1. e = 0 /\ m = (h * 0) + c /\ m = c /\ c \in 0..(h - 1)
    BY <1>1, <1>4
  <2>2. Val(f, m) = c
    BY <1>3, <2>1
  <2>3. QED
    BY <1>1, <2>1, <2>2, PowerZero
<1>5. CASE h <= c /\ c < 2 * h
  <2>1. m = (h * (e + 1)) + (c - h) /\ c - h \in 0..(h - 1)
    <3>1. h * (e + 1) = (e * h) + h
      OBVIOUS
    <3>2. QED
      BY <1>1, <1>5, <3>1
  <2>2. e + 1 \in Nat /\ e + 1 # 0 /\ (e + 1) - 1 = e
    OBVIOUS
  <2>3. Val(f, m) = ((c - h) + h) * 2^e
    BY <1>3, <2>1, <2>2
  <2>4. (c - h) + h = c
    OBVIOUS
  <2>5. QED
    BY <1>1, <2>3, <2>4
<1>6. CASE c = 2 * h
  <2>1. m = (h * (e + 2)) + 0 /\ 0 \in 0..(h - 1)
    <3>1. h * (e + 2) = (e * h) + (2 * h)
      OBVIOUS
    <3>2. QED
      BY <1>1, <1>6, <3>1
  <2>2. e + 2 \in Nat /\ e + 2 # 0 /\ (e + 2) - 1 = e + 1
    OBVIOUS
  <2>3. Val(f, m) = (0 + h) * 2^(e + 1)
    BY <1>3, <2>1, <2>2
  <2>4. (0 + h) * (2 * P) = (2 * h) * P
    OBVIOUS
  <2>5. QED
    BY <1>1, <1>2, <1>6, <2>3, <2>4
<1>7. QED
  BY <1>4, <1>5, <1>6

\* Every magnitude is of that form.
LEMMA MagnitudeFields ==
  ASSUME NEW h \in Nat \ {0}, NEW m \in Nat
  PROVE  \E e \in Nat, c \in 0..((2 * h) - 1) : m = (e * h) + c /\ (e = 0 \/ h <= c)
<1>1. PICK q \in Nat, r \in 0..(h - 1) : m = (h * q) + r
  BY DivNat
<1>2. CASE q = 0
  <2>1. m = (0 * h) + r /\ r \in 0..((2 * h) - 1)
    BY <1>1, <1>2
  <2>2. QED
    BY <2>1
<1>3. CASE q # 0
  <2>1. PICK e \in Nat : q = e + 1
    BY <1>3
  <2>2. h * (e + 1) = (e * h) + h
    OBVIOUS
  <2>3. PICK c \in 0..((2 * h) - 1) : c = r + h
    OBVIOUS
  <2>4. m = (e * h) + c /\ h <= c
    BY <1>1, <2>1, <2>2, <2>3
  <2>5. QED
    BY <2>4
<1>4. QED
  BY <1>2, <1>3

\* Values grow with their magnitudes.
LEMMA ValNext ==
  ASSUME NEW f, NEW h \in Nat \ {0}, hidden(f) = h, NEW m \in Nat
  PROVE  Val(f, m) \in Nat /\ Val(f, m + 1) \in Nat /\ Val(f, m) < Val(f, m + 1)
<1>1. PICK e \in Nat, c \in 0..((2 * h) - 1) : m = (e * h) + c /\ (e = 0 \/ h <= c)
  BY MagnitudeFields
<1>2. PICK P \in Nat \ {0} : P = 2^e
  BY PowerPositive
<1>3. PICK c1 \in 0..(2 * h) : c1 = c + 1
  OBVIOUS
<1>4. c \in 0..(2 * h) /\ m + 1 = (e * h) + c1 /\ (e = 0 \/ h <= c1)
  BY <1>1, <1>3
<1>5. Val(f, m) = c * P
  BY <1>1, <1>2, <1>4, ValAt
<1>6. Val(f, m + 1) = c1 * P
  BY <1>2, <1>4, ValAt
<1>7. PICK x \in Nat : x = c * P
  OBVIOUS
<1>8. c1 * P = x + P
  BY <1>3, <1>7
<1>9. QED
  BY <1>5, <1>6, <1>7, <1>8

\* The value after m is at most that of a larger magnitude.
LEMMA ValLess ==
  ASSUME NEW f, NEW h \in Nat \ {0}, hidden(f) = h, NEW m \in Nat, NEW k \in Nat, m < k
  PROVE  Val(f, m + 1) <= Val(f, k)
<1> DEFINE S == {j \in Nat : m < j /\ Val(f, j) < Val(f, m + 1)}
<1>1. SUFFICES ASSUME ~(Val(f, m + 1) <= Val(f, k)) PROVE FALSE
  OBVIOUS
<1>2. Val(f, k) \in Nat /\ Val(f, m + 1) \in Nat
  BY ValNext
<1>3. k \in S
  BY <1>1, <1>2
<1>4. PICK j \in S : \A i \in S : j <= i
  <2>1. S \in SUBSET Nat /\ S # {}
    BY <1>3
  <2> HIDE DEF S
  <2>2. QED
    BY <2>1, Least
<1>5. j \in Nat /\ m < j /\ Val(f, j) < Val(f, m + 1)
  BY <1>4
<1>6. PICK i \in Nat : j = i + 1
  BY <1>5
<1>7. i # m
  BY <1>2, <1>5, <1>6
<1>8. i \notin S
  BY <1>4, <1>5, <1>6
<1>9. Val(f, i) \in Nat /\ Val(f, j) \in Nat /\ Val(f, i) < Val(f, j)
  BY <1>6, ValNext
<1>10. m < i
  BY <1>5, <1>6, <1>7
<1>11. Val(f, m + 1) <= Val(f, i)
  BY <1>2, <1>8, <1>9, <1>10
<1>12. QED
  BY <1>2, <1>5, <1>9, <1>11

\* Values are in the order of their magnitudes.
LEMMA ValOrder ==
  ASSUME NEW f, NEW h \in Nat \ {0}, hidden(f) = h, NEW m \in Nat, NEW k \in Nat
  PROVE  /\ Val(f, m) \in Nat
         /\ m <= k => Val(f, m) <= Val(f, k)
<1>1. Val(f, m) \in Nat /\ Val(f, m + 1) \in Nat /\ Val(f, m) < Val(f, m + 1) /\ Val(f, k) \in Nat
  BY ValNext
<1>2. CASE m < k
  <2>1. Val(f, m + 1) <= Val(f, k)
    BY <1>2, ValLess
  <2>2. QED
    BY <1>1, <2>1
<1>3. CASE ~(m < k)
  BY <1>1, <1>3
<1>4. QED
  BY <1>2, <1>3

-----------------------------------------------------------------------------
(* The promise, with the magnitude below the exact one given.              *)

\* m is the largest finite magnitude that is not above num / den.
IsLower(f, num, den, m) ==
  /\ (2 * num) - ((2 * Val(f, m)) * den) >= 0
  /\ m < Inf(f, 0) - 1 => (2 * num) - ((2 * Val(f, m + 1)) * den) < 0

\* The rounded num / den, lo being the magnitude at or below it.
RoundedFrom(f, sign, num, den, mode, lo) ==
  LET maxFinite == Inf(f, 0) - 1
      exact == (2 * num) - ((2 * Val(f, lo)) * den) = 0
      up    == GoesUp(mode, sign, exact, (2 * num) - ((Val(f, lo) + Val(f, lo + 1)) * den), lo % 2 = 1)
      beyond == lo = maxFinite /\ (up \/ (2 * num) - ((2 * Val(f, lo + 1)) * den) >= 0)
      tiny   == (2 * num) - ((2 * Val(f, hidden(f))) * den) < 0
      outward == mode \in {"near_even", "near_maxMag", IF sign = 1 THEN "min" ELSE "max"}
  IN IF beyond THEN Ret(sign * signBit(f) + maxFinite + Bit(outward), {"overflow", "inexact"})
     ELSE Ret(sign * signBit(f) + lo + Bit(up),
              IF exact THEN {} ELSE {"inexact"} \cup IF tiny THEN {"underflow"} ELSE {})

\* The promise rounds from the lower magnitude that it chooses.
LEMMA RatioChosen ==
  ASSUME NEW f, NEW sign, NEW num, NEW den, NEW mode
  PROVE  RoundedRatio(f, sign, num, den, mode) =
           RoundedFrom(f, sign, num, den, mode, CHOOSE m \in 0..(Inf(f, 0) - 1) : IsLower(f, num, den, m))
BY DEF RoundedRatio, Rounded, RoundedFrom, IsLower

\* There is at most one to choose, so any lower magnitude is that one.
LEMMA RatioIs ==
  ASSUME NEW f, NEW h \in Nat \ {0}, hidden(f) = h, NEW sign, NEW num \in Nat, NEW den \in Nat \ {0}, NEW mode,
         Inf(f, 0) \in Nat, NEW m \in 0..(Inf(f, 0) - 1), IsLower(f, num, den, m)
  PROVE  RoundedRatio(f, sign, num, den, mode) = RoundedFrom(f, sign, num, den, mode, m)
<1> DEFINE last == Inf(f, 0) - 1
<1>1. ASSUME NEW k \in 0..last, NEW j \in 0..last, IsLower(f, num, den, k), IsLower(f, num, den, j), k < j
      PROVE  FALSE
  <2>1. k \in Nat /\ j \in Nat /\ k < last
    BY <1>1
  <2>2. PICK x \in Nat, y \in Nat : x = Val(f, k + 1) /\ y = Val(f, j) /\ x <= y
    <3>1. Val(f, k + 1) <= Val(f, j)
      BY <1>1, <2>1, ValLess
    <3>2. Val(f, k + 1) \in Nat /\ Val(f, j) \in Nat
      BY <2>1, ValNext
    <3>3. QED
      BY <3>1, <3>2
  <2>3. (2 * num) - ((2 * x) * den) < 0 /\ (2 * num) - ((2 * y) * den) >= 0
    BY <1>1, <2>1, <2>2 DEF IsLower
  <2>4. den * (2 * x) <= den * (2 * y)
    BY <2>2, ProductMonotonic
  <2>5. PICK p \in Nat, q \in Nat : p = (2 * x) * den /\ q = (2 * y) * den /\ p <= q
    BY <2>2, <2>4
  <2>6. QED
    BY <2>3, <2>5
<1>2. ASSUME NEW k \in 0..last, IsLower(f, num, den, k)
      PROVE  k = m
  <2>1. k < m \/ k = m \/ m < k
    OBVIOUS
  <2>2. QED
    BY <1>1, <1>2, <2>1
<1>3. (CHOOSE k \in 0..last : IsLower(f, num, den, k)) = m
  <2>1. \E k \in 0..last : IsLower(f, num, den, k)
    OBVIOUS
  <2>2. (CHOOSE k \in 0..last : IsLower(f, num, den, k)) \in 0..last
        /\ IsLower(f, num, den, CHOOSE k \in 0..last : IsLower(f, num, den, k))
    BY <2>1, Zenon
  <2>3. QED
    BY <1>2, <2>2, Zenon
<1>4. QED
  BY <1>3, RatioChosen, Zenon

-----------------------------------------------------------------------------
(* Scales.                                                                 *)

\* Equal multiples have equal factors.
LEMMA ProductSame ==
  \A k \in Nat \ {0}, x, y \in Int : k * x = k * y => x = y
<1> SUFFICES ASSUME NEW k \in Nat \ {0}, NEW x \in Int, NEW y \in Int, k * x = k * y
             PROVE  x = y
  OBVIOUS
<1>1. k * x \in Int /\ k * y \in Int
  OBVIOUS
<1>2. x < y => k * (x + 1) <= k * y
  BY ProductMonotonic
<1>3. y < x => k * (y + 1) <= k * x
  BY ProductMonotonic
<1>4. k * (x + 1) = (k * x) + k /\ k * (y + 1) = (k * y) + k
  OBVIOUS
<1>5. QED
  BY <1>1, <1>2, <1>3, <1>4

\* x is y scaled by 2^k, where k may be negative.
Scales(x, y, k) == \E i, j \in Nat : i - j = k /\ x * 2^j = y * 2^i

\* Products of two products.
LEMMA FourFactors ==
  \A a, b, c, d \in Nat : (a * b) * (c * d) = (a * c) * (b * d)
<1> SUFFICES ASSUME NEW a \in Nat, NEW b \in Nat, NEW c \in Nat, NEW d \in Nat
             PROVE  (a * b) * (c * d) = (a * c) * (b * d)
  OBVIOUS
<1>1. PICK x \in Nat : x = c * d
  OBVIOUS
<1>2. (a * b) * x = a * (b * x)
  OBVIOUS
<1>3. b * (c * d) = c * (b * d)
  OBVIOUS
<1>4. PICK y \in Nat : y = b * d
  OBVIOUS
<1>5. a * (c * y) = (a * c) * y
  OBVIOUS
<1>6. QED
  BY <1>1, <1>2, <1>3, <1>4, <1>5

\* A scale of 2^k, for k >= 0, is a factor.
LEMMA ScalesUp ==
  ASSUME NEW x \in Nat, NEW y \in Nat, NEW k \in Nat, Scales(x, y, k)
  PROVE  x = y * 2^k
<1>1. PICK i \in Nat, j \in Nat : i - j = k /\ x * 2^j = y * 2^i
  BY DEF Scales
<1>2. PICK P \in Nat \ {0}, Q \in Nat \ {0} : P = 2^j /\ Q = 2^k
  BY PowerPositive
<1>3. 2^i = P * Q
  <2>1. i = j + k
    BY <1>1
  <2>2. 2^(j + k) = 2^j * 2^k
    BY PowerSum
  <2>3. QED
    BY <1>2, <2>1, <2>2
<1>4. PICK z \in Nat : z = y * Q
  OBVIOUS
<1>5. P * x = P * z
  <2>1. x * P = y * (P * Q)
    BY <1>1, <1>2, <1>3
  <2>2. y * (P * Q) = P * (y * Q)
    OBVIOUS
  <2>3. QED
    BY <1>4, <2>1, <2>2
<1>6. x = z
  BY <1>5, ProductSame
<1>7. QED
  BY <1>2, <1>4, <1>6

\* A scale of 2^(-k), for k >= 0, is a divisor.
LEMMA ScalesDown ==
  ASSUME NEW x \in Nat, NEW y \in Nat, NEW k \in Nat, Scales(x, y, -k)
  PROVE  x * 2^k = y
<1>1. PICK i \in Nat, j \in Nat : i - j = -k /\ x * 2^j = y * 2^i
  BY DEF Scales
<1>2. Scales(y, x, k)
  <2>1. j - i = k /\ y * 2^i = x * 2^j
    BY <1>1
  <2>2. QED
    BY <2>1 DEF Scales
<1>3. QED
  BY <1>2, ScalesUp

\* The scale of a product is the sum of the scales.
LEMMA ScalesProduct ==
  ASSUME NEW x \in Nat, NEW y \in Nat, NEW k \in Int, Scales(x, y, k),
         NEW v \in Nat, NEW w \in Nat, NEW l \in Int, Scales(v, w, l)
  PROVE  Scales(x * v, y * w, k + l)
<1>1. PICK i \in Nat, j \in Nat : i - j = k /\ x * 2^j = y * 2^i
  BY DEF Scales
<1>2. PICK m \in Nat, n \in Nat : m - n = l /\ v * 2^n = w * 2^m
  BY DEF Scales
<1>3. PICK I \in Nat, J \in Nat, M \in Nat, N \in Nat : I = 2^i /\ J = 2^j /\ M = 2^m /\ N = 2^n
  BY PowerPositive
<1>4. 2^(i + m) = I * M /\ 2^(j + n) = J * N
  BY <1>3, PowerSum
<1>5. (x * v) * (J * N) = (x * J) * (v * N) /\ (y * w) * (I * M) = (y * I) * (w * M)
  BY FourFactors
<1>6. (x * v) * (J * N) = (y * w) * (I * M)
  <2>1. x * J = y * I /\ v * N = w * M
    BY <1>1, <1>2, <1>3
  <2>2. QED
    BY <1>5, <2>1
<1>7. i + m \in Nat /\ j + n \in Nat /\ (i + m) - (j + n) = k + l
  BY <1>1, <1>2
<1>8. (x * v) * 2^(j + n) = (y * w) * 2^(i + m)
  BY <1>4, <1>6
<1>9. QED
  BY <1>7, <1>8 DEF Scales

\* A power of two is a scale.
LEMMA ScalesPower ==
  ASSUME NEW k \in Nat
  PROVE  Scales(2^k, 1, k) /\ Scales(1, 2^k, -k)
<1>1. PICK P \in Nat : P = 2^k
  BY PowerPositive
<1>2. 2^k * 2^0 = 1 * 2^k /\ k - 0 = k /\ 0 - k = -k /\ 1 * 2^k = 2^k * 2^0
  BY <1>1, PowerZero
<1>3. QED
  BY <1>2 DEF Scales

\* A number is itself scaled by 1.
LEMMA ScalesSame ==
  ASSUME NEW x \in Nat
  PROVE  Scales(x, x, 0)
<1>1. x * 2^0 = x * 2^0 /\ 0 - 0 = 0
  OBVIOUS
<1>2. QED
  BY <1>1 DEF Scales

\* Exchanging the numbers turns the scale.
LEMMA ScalesTurned ==
  ASSUME NEW x \in Nat, NEW y \in Nat, NEW k \in Int, Scales(x, y, k)
  PROVE  Scales(y, x, -k)
<1>1. PICK i \in Nat, j \in Nat : i - j = k /\ x * 2^j = y * 2^i
  BY DEF Scales
<1>2. j - i = -k /\ y * 2^i = x * 2^j
  BY <1>1
<1>3. QED
  BY <1>2 DEF Scales

\* A common factor does not change the scale.
LEMMA ScalesCancel ==
  ASSUME NEW x \in Nat, NEW y \in Nat, NEW k \in Int, NEW c \in Nat \ {0}, Scales(x * c, y * c, k)
  PROVE  Scales(x, y, k)
<1>1. PICK i \in Nat, j \in Nat : i - j = k /\ (x * c) * 2^j = (y * c) * 2^i
  BY DEF Scales
<1>2. PICK I \in Nat, J \in Nat : I = 2^i /\ J = 2^j
  BY PowerPositive
<1>3. PICK v \in Nat, w \in Nat : v = x * J /\ w = y * I
  <2>1. x * J \in Nat /\ y * I \in Nat
    OBVIOUS
  <2>2. QED
    BY <2>1
<1>4. (x * c) * J = c * v /\ (y * c) * I = c * w
  BY <1>3
<1>5. v = w
  BY <1>1, <1>2, <1>4, ProductSame
<1>6. x * 2^j = y * 2^i
  BY <1>2, <1>3, <1>5
<1>7. QED
  BY <1>1, <1>6 DEF Scales

-----------------------------------------------------------------------------
(* Rounding.                                                               *)

\* Numbers with a common ratio are in the same order.
LEMMA CrossOrder ==
  ASSUME NEW a \in Nat, NEW b \in Nat, NEW c \in Nat, NEW e \in Nat, NEW K \in Nat \ {0}, NEW L \in Nat \ {0},
         K * a = L * c, K * b = L * e
  PROVE  (a < b <=> c < e) /\ (a = b <=> c = e)
<1>1. a < b => c < e
  <2> SUFFICES ASSUME a < b PROVE c < e
    OBVIOUS
  <2>1. K * (a + 1) <= K * b /\ K * (a + 1) = (K * a) + K
    BY ProductMonotonic
  <2>2. PICK p \in Nat, q \in Nat : p = K * a /\ q = K * b
    <3>1. K * a \in Nat /\ K * b \in Nat
      OBVIOUS
    <3>2. QED
      BY <3>1
  <2>3. L * c < L * e
    BY <2>1, <2>2
  <2>4. QED
    BY <2>3, ProductCancel
<1>2. b < a => e < c
  <2> SUFFICES ASSUME b < a PROVE e < c
    OBVIOUS
  <2>1. K * (b + 1) <= K * a /\ K * (b + 1) = (K * b) + K
    BY ProductMonotonic
  <2>2. PICK p \in Nat, q \in Nat : p = K * a /\ q = K * b
    <3>1. K * a \in Nat /\ K * b \in Nat
      OBVIOUS
    <3>2. QED
      BY <3>1
  <2>3. L * e < L * c
    BY <2>1, <2>2
  <2>4. QED
    BY <2>3, ProductCancel
<1>3. a = b => c = e
  BY ProductSame
<1>4. QED
  BY <1>1, <1>2, <1>3

\* num / den is n / d, counted in units of P / (2 * u).
Counted(num, den, n, d, u, P) == num * (d * (2 * u)) = (n * P) * den

\* num / den is compared with v / 2 scaled by P as s is with v units.
ComparesAlike(num, den, P, s, u) ==
  \A v \in Nat : (2 * num < (v * P) * den <=> s < v * u) /\ (2 * num = (v * P) * den <=> s = v * u)

\* What s stands for is compared with v / 2 scaled by P as s is with v units.
LEMMA StandsCompares ==
  ASSUME NEW s \in Nat, NEW n \in Nat, NEW d \in Nat \ {0}, NEW u \in Nat \ {0}, Stands(s, n, d, u),
         NEW num \in Nat, NEW den \in Nat \ {0}, NEW P \in Nat \ {0}, Counted(num, den, n, d, u, P)
  PROVE  ComparesAlike(num, den, P, s, u)
<1> SUFFICES ASSUME NEW v \in Nat
             PROVE  (2 * num < (v * P) * den <=> s < v * u) /\ (2 * num = (v * P) * den <=> s = v * u)
  BY DEF ComparesAlike
<1>1. PICK K \in Nat \ {0}, L \in Nat \ {0} : K = d * u /\ L = P * den
  <2>1. d * u \in Nat \ {0} /\ P * den \in Nat \ {0}
    OBVIOUS
  <2>2. QED
    BY <2>1
<1>2. K * (2 * num) = L * n
  <2>1. num * (d * (2 * u)) = num * (2 * K)
    BY <1>1
  <2>2. (n * P) * den = n * L
    BY <1>1
  <2>3. QED
    BY <2>1, <2>2 DEF Counted
<1>3. PICK b \in Nat, e \in Nat : b = (v * P) * den /\ b = v * L /\ e = (v * u) * d /\ e = v * K
  <2>1. (v * P) * den = v * L /\ (v * u) * d = v * K /\ v * L \in Nat /\ v * K \in Nat
    BY <1>1
  <2>2. QED
    BY <2>1
<1>4. K * b = L * e
  <2>1. K * (v * L) = L * (v * K)
    OBVIOUS
  <2>2. QED
    BY <1>3, <2>1
<1>5. PICK a \in Nat : a = 2 * num
  OBVIOUS
<1>6. (a < b <=> n < e) /\ (a = b <=> n = e)
  BY <1>2, <1>4, <1>5, CrossOrder
<1>7. (n < e <=> s < v * u) /\ (n = e <=> s = v * u)
  BY <1>3 DEF Stands
<1>8. QED
  BY <1>3, <1>5, <1>6, <1>7

\* A product that is to be taken as a number.
Times(x, y, z) == z = x * y

\* Quotient and rest of a number of less than c + 2 times D.
LEMMA QuotientOf ==
  ASSUME NEW D \in Nat \ {0}, NEW c \in Nat, NEW x \in Nat, Times(D, c, x), NEW y \in Nat, NEW t \in 0..((2 * D) - 1), y = x + t
  PROVE  /\ y \div D = IF t < D THEN c ELSE c + 1
         /\ y % D = IF t < D THEN t ELSE t - D
<1>1. CASE t < D
  <2>1. t \in 0..(D - 1) /\ y = (D * c) + t /\ y \in Int /\ c \in Int
    BY <1>1 DEF Times
  <2>2. y \div D = c /\ y % D = t
    BY <2>1, DivModUnique
  <2>3. QED
    BY <1>1, <2>2
<1>2. CASE ~(t < D)
  <2>1. PICK k \in Int, v \in 0..(D - 1) : k = c + 1 /\ v = t - D
    BY <1>2
  <2>2. D * k = x + D
    BY <2>1 DEF Times
  <2>3. y = (D * k) + v /\ y \in Int
    BY <2>1, <2>2
  <2>4. y \div D = k /\ y % D = v
    BY <2>3, DivModUnique
  <2>5. QED
    BY <1>2, <2>1, <2>4
<1>3. QED
  BY <1>1, <1>2

\* Quotient and rest of c times D and less than D.
LEMMA RestOf ==
  ASSUME NEW D \in Nat \ {0}, NEW c \in Nat, NEW x \in Nat, Times(D, c, x), NEW r \in 0..(D - 1)
  PROVE  (x + r) \div D = c /\ (x + r) % D = r
<1>1. PICK y \in Int : y = x + r
  OBVIOUS
<1>2. y = (D * c) + r /\ c \in Int
  BY <1>1 DEF Times
<1>3. y \div D = c /\ y % D = r
  BY <1>2, DivModUnique
<1>4. QED
  BY <1>1, <1>3

\* Clearing the last bit after adding one.
LEMMA TieToEven ==
  \A c \in Nat : (c + 1) - ((c + 1) % 2) = IF c % 2 = 1 THEN c + 1 ELSE c
OBVIOUS

\* s is c units of D and the rest r; x is what c stands for.
Parted(D, c, x, r, s) == Times(D, c, x) /\ s = x + r

\* A sign and a rounding mode.
IsMode(sign, mode) == sign \in 0..1 /\ mode \in RoundingModes

\* Whether c units of 2 u and the rest r are rounded up.
RoundsUp(mode, sign, r, u, c) == GoesUp(mode, sign, r = 0, r - u, c % 2 = 1)

\* RoundOff of s is c, or one more when that is where the mode rounds to; what was dropped
\* is the rest r; and an increment carries into the next power in the same cases.
OffBy(f, sign, mode, s, c, x, r, u, D) ==
  LET inc == roundIncrement(f.G, sign, mode)
  IN /\ RoundOff(f.G, s, inc, mode) = c + Bit(RoundsUp(mode, sign, r, u, c))
     /\ s % 2^f.G # 0 <=> r # 0
     /\ c % 2 = 1 => (x + D <= s + inc <=> RoundsUp(mode, sign, r, u, c))
     /\ inc \in 0..(D - 1)
     /\ Bit(mode \in {"near_even", "near_maxMag", IF sign = 1 THEN "min" ELSE "max"}) = 1 - Bit(inc = 0)

\* Dropping the guard bits of s, with the increment of the mode, rounds it.
LEMMA RoundOffIs ==
  ASSUME NEW f, NEW u \in Nat \ {0}, NEW D \in Nat \ {0}, D = 2 * u, 2^f.G = D, 2^(f.G - 1) = u,
         NEW sign, NEW mode, IsMode(sign, mode),
         NEW s \in Nat, NEW c \in Nat, NEW x \in Nat, NEW r \in 0..(D - 1), Parted(D, c, x, r, s)
  PROVE  OffBy(f, sign, mode, s, c, x, r, u, D)
<1> DEFINE inc == roundIncrement(f.G, sign, mode)
           up == RoundsUp(mode, sign, r, u, c)
           odd == c % 2 = 1
<1>1. Times(D, c, x) /\ s = x + r /\ sign \in 0..1 /\ mode \in RoundingModes
  BY DEF Parted, IsMode
<1>2. inc = IF mode \in {"near_even", "near_maxMag"} THEN u
            ELSE IF mode = "minMag" \/ mode = (IF sign = 1 THEN "max" ELSE "min") THEN 0 ELSE D - 1
  BY DEF roundIncrement
<1>3. up <=> /\ r # 0
             /\ \/ mode = "near_even" /\ (r > u \/ (r = u /\ odd))
                \/ mode = "near_maxMag" /\ r >= u
                \/ mode = "min" /\ sign = 1
                \/ mode = "max" /\ sign = 0
  BY DEF RoundsUp, GoesUp
<1> HIDE DEF inc, odd
<1>4. inc \in 0..(D - 1)
  BY <1>2
<1>5. (s + inc) \div 2^f.G = IF r + inc < D THEN c ELSE c + 1
  <2>1. PICK y \in Nat, t \in 0..((2 * D) - 1) : y = s + inc /\ t = r + inc /\ y = x + t
    BY <1>1, <1>4
  <2>2. y \div D = IF t < D THEN c ELSE c + 1
    BY <1>1, <2>1, QuotientOf
  <2>3. QED
    BY <2>1, <2>2
<1>6. s % 2^f.G = r
  <2>1. (x + r) % D = r
    BY <1>1, RestOf
  <2>2. QED
    BY <1>1, <2>1
<1>7. RoundOff(f.G, s, inc, mode) =
        LET z == IF r + inc < D THEN c ELSE c + 1 IN IF r = u /\ mode = "near_even" THEN z - (z % 2) ELSE z
  BY <1>5, <1>6 DEF RoundOff
<1>8. RoundOff(f.G, s, inc, mode) = IF up THEN c + 1 ELSE c
  <2>1. CASE mode = "near_even" /\ r = u
    <3>1. inc = u /\ ~(r + inc < D)
      BY <1>2, <2>1
    <3>2. RoundOff(f.G, s, inc, mode) = (c + 1) - ((c + 1) % 2)
      BY <1>7, <2>1, <3>1, Zenon
    <3>3. up <=> odd
      BY <1>3, <2>1
    <3>4. RoundOff(f.G, s, inc, mode) = IF odd THEN c + 1 ELSE c
      BY <3>2, TieToEven DEF odd
    <3>5. QED
      BY <3>3, <3>4, Zenon
  <2>2. CASE mode = "near_even" /\ r # u
    <3>1. inc = u
      BY <1>2, <2>2
    <3>2. RoundOff(f.G, s, inc, mode) = IF r + inc < D THEN c ELSE c + 1
      BY <1>7, <2>2, Zenon
    <3>3. up <=> ~(r + inc < D)
      BY <1>3, <2>2, <3>1
    <3>4. QED
      BY <3>2, <3>3, Zenon
  <2>3. CASE mode # "near_even"
    <3>1. RoundOff(f.G, s, inc, mode) = IF r + inc < D THEN c ELSE c + 1
      BY <1>7, <2>3, Zenon
    <3>2. up <=> ~(r + inc < D)
      BY <1>1, <1>2, <1>3, <2>3 DEF RoundingModes
    <3>3. QED
      BY <3>1, <3>2, Zenon
  <2>4. QED
    BY <2>1, <2>2, <2>3
<1>9. odd => (x + D <= s + inc <=> up)
  <2>1. x + D <= s + inc <=> D <= r + inc
    BY <1>1, <1>4
  <2>2. odd => (D <= r + inc <=> up)
    BY <1>1, <1>2, <1>3 DEF RoundingModes
  <2>3. QED
    BY <2>1, <2>2
<1>10. Bit(mode \in {"near_even", "near_maxMag", IF sign = 1 THEN "min" ELSE "max"}) = 1 - Bit(inc = 0)
  BY <1>1, <1>2 DEF Bit, RoundingModes
<1>11. RoundOff(f.G, s, inc, mode) = c + Bit(up)
  BY <1>8 DEF Bit
<1> HIDE DEF up
<1>12. QED
  BY <1>4, <1>6, <1>9, <1>10, <1>11 DEF inc, up, odd, OffBy

\* V is c units of P, and V1 is one unit more.
Neighbours(c, P, V, V1) == Times(c, P, V) /\ V1 = V + P

\* A significand with its guard bits.
LEMMA SplitSig ==
  ASSUME NEW h \in Nat \ {0}, NEW u \in Nat \ {0}, NEW s \in Nat, s < 2 * (h * (2 * u))
  PROVE  \E c \in 0..((2 * h) - 1), x \in Nat, r \in 0..((2 * u) - 1) :
           Parted(2 * u, c, x, r, s) /\ (h * (2 * u) <= s <=> h <= c)
<1>1. PICK D \in Nat \ {0} : D = 2 * u
  OBVIOUS
<1>2. PICK c \in Nat, r \in 0..(D - 1) : c = s \div D /\ r = s % D /\ s = (D * c) + r
  BY DivNat
<1>3. PICK x \in Nat : x = D * c
  OBVIOUS
<1>4. PICK y \in Nat : y = D * h
  OBVIOUS
<1>5. s < 2 * y /\ D * (2 * h) = 2 * y /\ h * (2 * u) = y /\ D * (c + 1) = x + D
  BY <1>1, <1>3, <1>4
<1>6. c < 2 * h
  <2>1. D * c < D * (2 * h)
    BY <1>2, <1>3, <1>5
  <2>2. QED
    BY <2>1, ProductCancel
<1>7. y <= s => h <= c
  <2>1. y <= s => D * h < D * (c + 1)
    BY <1>2, <1>3, <1>4, <1>5
  <2>2. D * h < D * (c + 1) => h < c + 1
    BY ProductCancel
  <2>3. QED
    BY <2>1, <2>2
<1>8. h <= c => y <= s
  <2>1. h <= c => D * h <= D * c
    BY ProductMonotonic
  <2>2. QED
    BY <1>2, <1>3, <1>4, <2>1
<1>9. Parted(2 * u, c, x, r, s)
  BY <1>1, <1>2, <1>3 DEF Times, Parted
<1>10. h * (2 * u) <= s <=> h <= c
  BY <1>5, <1>7, <1>8
<1>11. QED
  BY <1>1, <1>6, <1>9, <1>10

\* Where num / den lies between V and V1.
SideFacts(num, den, V, V1, r, u) ==
  /\ (2 * num) - ((2 * V) * den) >= 0
  /\ (2 * num) - ((2 * V) * den) = 0 <=> r = 0
  /\ (2 * num) - ((2 * V1) * den) < 0
  /\ (2 * num) - ((V + V1) * den) \in Int
  /\ (2 * num) - ((V + V1) * den) > 0 <=> r > u
  /\ (2 * num) - ((V + V1) * den) = 0 <=> r = u

\* Where the rest r of the significand s has num / den lie.
LEMMA SideIs ==
  ASSUME NEW num \in Nat, NEW den \in Nat \ {0}, NEW P \in Nat \ {0}, NEW u \in Nat \ {0}, NEW s \in Nat,
         ComparesAlike(num, den, P, s, u),
         NEW c \in Nat, NEW x \in Nat, NEW r \in 0..((2 * u) - 1), Parted(2 * u, c, x, r, s),
         NEW V \in Nat, NEW V1 \in Nat, Neighbours(c, P, V, V1)
  PROVE  SideFacts(num, den, V, V1, r, u)
<1>1. x = (2 * c) * u
  BY DEF Times, Parted
<1>2. ((2 * c) + 1) * u = x + u /\ ((2 * c) + 2) * u = x + (2 * u)
  BY <1>1
<1>3. V = c * P /\ V1 = V + P
  BY DEF Times, Neighbours
<1>4. (2 * c) * P = 2 * V /\ ((2 * c) + 1) * P = V + V1 /\ ((2 * c) + 2) * P = 2 * V1
  BY <1>3
<1>5. PICK n \in Nat : n = 2 * num
  OBVIOUS
<1>6. (n < (2 * V) * den <=> s < x) /\ (n = (2 * V) * den <=> s = x)
  <2>1. PICK v \in Nat : v = 2 * c
    OBVIOUS
  <2>2. v * P = 2 * V /\ v * u = x
    BY <1>1, <1>4, <2>1
  <2>3. (n < (v * P) * den <=> s < v * u) /\ (n = (v * P) * den <=> s = v * u)
    BY <1>5 DEF ComparesAlike
  <2>4. QED
    BY <2>2, <2>3
<1>7. (n < (V + V1) * den <=> s < x + u) /\ (n = (V + V1) * den <=> s = x + u)
  <2>1. PICK v \in Nat : v = (2 * c) + 1
    OBVIOUS
  <2>2. v * P = V + V1 /\ v * u = x + u
    BY <1>2, <1>4, <2>1
  <2>3. (n < (v * P) * den <=> s < v * u) /\ (n = (v * P) * den <=> s = v * u)
    BY <1>5 DEF ComparesAlike
  <2>4. QED
    BY <2>2, <2>3
<1>8. (n < (2 * V1) * den <=> s < x + (2 * u)) /\ (n = (2 * V1) * den <=> s = x + (2 * u))
  <2>1. PICK v \in Nat : v = (2 * c) + 2
    OBVIOUS
  <2>2. v * P = 2 * V1 /\ v * u = x + (2 * u)
    BY <1>2, <1>4, <2>1
  <2>3. (n < (v * P) * den <=> s < v * u) /\ (n = (v * P) * den <=> s = v * u)
    BY <1>5 DEF ComparesAlike
  <2>4. QED
    BY <2>2, <2>3
<1>9. PICK A \in Nat, B \in Nat, C \in Nat : A = (2 * V) * den /\ B = (V + V1) * den /\ C = (2 * V1) * den
  <2>1. (2 * V) * den \in Nat /\ (V + V1) * den \in Nat /\ (2 * V1) * den \in Nat
    OBVIOUS
  <2>2. QED
    BY <2>1
<1>10. s >= x /\ s < x + (2 * u) /\ (s = x <=> r = 0) /\ (s < x + u <=> r < u) /\ (s = x + u <=> r = u)
  <2>1. s = x + r
    BY DEF Parted
  <2>2. QED
    BY <2>1
<1>11. (n < A <=> s < x) /\ (n = A <=> s = x)
  BY <1>6, <1>9
<1>12. (n < B <=> s < x + u) /\ (n = B <=> s = x + u)
  BY <1>7, <1>9
<1>13. n < C
  BY <1>8, <1>9, <1>10
<1>14. /\ n - A >= 0 /\ (n - A = 0 <=> r = 0) /\ n - C < 0 /\ n - B \in Int
       /\ (n - B > 0 <=> r > u) /\ (n - B = 0 <=> r = u)
  <2>1. n >= A /\ (n = A <=> r = 0)
    BY <1>10, <1>11
  <2>2. (n > B <=> r > u) /\ (n = B <=> r = u)
    BY <1>10, <1>12
  <2>3. QED
    BY <1>13, <2>1, <2>2
<1>15. QED
  BY <1>5, <1>9, <1>14 DEF SideFacts

\* The least normal magnitude.
LEMMA ValHidden ==
  ASSUME NEW f, NEW h \in Nat \ {0}, hidden(f) = h
  PROVE  Val(f, h) = h
<1>1. h \div h = 1 /\ h % h = 0
  <2>1. h = (h * 1) + 0 /\ h \in Int /\ 1 \in Int /\ 0 \in 0..(h - 1)
    OBVIOUS
  <2>2. QED
    BY <2>1, DivModUnique
<1>2. 1 - 1 = 0 /\ (0 + h) * 1 = h
  OBVIOUS
<1>3. Val(f, h) = (0 + h) * 2^(1 - 1)
  <2>1. 1 # 0
    OBVIOUS
  <2>2. QED
    BY <1>1, <2>1, Zenon DEF Val
<1>4. QED
  BY <1>2, <1>3, PowerZero

\* The infinities.
LEMMA InfIs ==
  ASSUME NEW f, NEW h \in Nat, NEW u, NEW b \in Nat, Sizes(f, h, u, b), NEW sign, sign \in Int
  PROVE  /\ Inf(f, 0) = ((2 * b) - 1) * h /\ Inf(f, sign) = (sign * signBit(f)) + (((2 * b) - 1) * h)
         /\ sign * signBit(f) \in Int /\ Inf(f, sign) \in Int
<1>1. PICK k \in Int, S \in Nat, i \in Int : k = ((2 * b) - 1) * h /\ S = (2 * b) * h /\ i = sign
  <2>1. ((2 * b) - 1) * h \in Int /\ (2 * b) * h \in Nat
    OBVIOUS
  <2>2. QED
    BY <2>1
<1>2. expMax(f) = (2 * b) - 1 /\ hidden(f) = h /\ signBit(f) = S
  BY <1>1 DEF Sizes
<1>3. Inf(f, 0) = 0 * S + k + 0 /\ Inf(f, sign) = i * S + k + 0
  BY <1>1, <1>2 DEF Inf, packToUI
<1>4. 0 * S + k + 0 = k /\ i * S + k + 0 = (i * S) + k /\ i * S \in Int
  BY <1>1
<1>5. QED
  BY <1>1, <1>2, <1>3, <1>4

\* The result that is too large.
Overflowed(f, sign, mode) ==
  Ret(Inf(f, sign) - 1 + Bit(mode \in {"near_even", "near_maxMag", IF sign = 1 THEN "min" ELSE "max"}),
      {"overflow", "inexact"})
\* The result that is c units of 2^e with the rest r, or one unit more.
RoundedAt(f, sign, mode, h, u, b, e, c, r) ==
  LET up == RoundsUp(mode, sign, r, u, c)
  IN IF e = (2 * b) - 3 /\ c = (2 * h) - 1 /\ up THEN Overflowed(f, sign, mode)
     ELSE Ret(packToUI(f, sign, e, c + Bit(up)),
              IF r = 0 THEN {} ELSE {"inexact"} \cup IF c < h THEN {"underflow"} ELSE {})

\* The rounded result, from a significand s that stands for the exact one in units of 2^e.
LEMMA RoundWithin ==
  ASSUME NEW f, NEW h \in Nat \ {0}, NEW u \in Nat \ {0}, NEW b \in Nat, Sizes(f, h, u, b),
         NEW sign, NEW mode, IsMode(sign, mode), NEW e \in 0..((2 * b) - 3),
         NEW num \in Nat, NEW den \in Nat \ {0}, NEW s \in Nat, ComparesAlike(num, den, 2^e, s, u),
         NEW c \in 0..((2 * h) - 1), NEW x \in Nat, NEW r \in 0..((2 * u) - 1), Parted(2 * u, c, x, r, s),
         e = 0 \/ h <= c
  PROVE  RoundedRatio(f, sign, num, den, mode) = RoundedAt(f, sign, mode, h, u, b, e, c, r)
<1> DEFINE up == RoundsUp(mode, sign, r, u, c)
           outward == mode \in {"near_even", "near_maxMag", IF sign = 1 THEN "min" ELSE "max"}
<1>1. hidden(f) = h /\ h % 2 = 0 /\ h >= 2 /\ b >= 2 /\ Inf(f, 0) = ((2 * b) - 1) * h
  <2>1. sign \in Int
    BY DEF IsMode
  <2>2. Inf(f, 0) = ((2 * b) - 1) * h
    BY <2>1, InfIs
  <2>3. QED
    BY <2>2 DEF Sizes
<1>2. PICK P \in Nat \ {0} : P = 2^e /\ 2^0 = 1
  BY PowerPositive, PowerZero
<1>3. PICK m \in Nat, y \in Nat : m = y + c /\ y = e * h /\ y % 2 = 0
  <2>1. PICK k \in Nat : h = 2 * k
    BY <1>1
  <2>2. PICK z \in Nat : z = e * k
    OBVIOUS
  <2>3. e * h = 2 * z
    BY <2>1, <2>2
  <2>4. PICK y \in Nat : y = 2 * z /\ y % 2 = 0
    OBVIOUS
  <2>5. QED
    BY <2>3, <2>4
<1>4. PICK V \in Nat, V1 \in Nat : V = Val(f, m) /\ V1 = Val(f, m + 1) /\ Neighbours(c, P, V, V1)
  <2>1. PICK c1 \in 0..(2 * h) : c1 = c + 1
    OBVIOUS
  <2>2. m = (e * h) + c /\ m + 1 = (e * h) + c1 /\ c \in 0..(2 * h) /\ (e = 0 \/ h <= c1)
    BY <1>3, <2>1
  <2>3. Val(f, m) = c * P
    BY <1>1, <1>2, <2>2, ValAt
  <2>4. Val(f, m + 1) = c1 * P
    BY <1>1, <1>2, <2>2, ValAt
  <2>5. PICK v \in Nat : v = c * P
    OBVIOUS
  <2>6. c1 * P = v + P
    BY <2>1, <2>5
  <2>7. QED
    BY <2>3, <2>4, <2>5, <2>6 DEF Times, Neighbours
<1>5. PICK I \in Nat : I = Inf(f, 0) /\ m <= I - 1 /\ (m = I - 1 <=> e = (2 * b) - 3 /\ c = (2 * h) - 1)
  <2>1. PICK z \in Nat, t \in Nat : t = (2 * b) - 3 /\ z = t * h
    <3>1. (2 * b) - 3 \in Nat
      BY <1>1
    <3>2. \A t \in Nat : t * h \in Nat
      OBVIOUS
    <3>3. QED
      BY <3>1, <3>2
  <2>2. ((2 * b) - 1) * h = z + (2 * h)
    <3>1. (2 * b) - 1 = t + 2 /\ (t + 2) * h = (t * h) + (2 * h)
      BY <2>1
    <3>2. QED
      BY <2>1, <3>1
  <2>3. y <= z /\ (e < t => y + h <= z)
    <3>1. h * e <= h * t
      BY <2>1, ProductMonotonic
    <3>2. e < t => h * (e + 1) <= h * t
      BY <2>1, ProductMonotonic
    <3>3. h * e = y /\ h * (e + 1) = y + h /\ h * t = z
      BY <1>3, <2>1
    <3>4. QED
      BY <3>1, <3>2, <3>3
  <2>4. e = t => y = z
    BY <1>3, <2>1
  <2>5. PICK I \in Nat : I = z + (2 * h)
    OBVIOUS
  <2>6. m <= I - 1
    BY <1>3, <2>3, <2>5
  <2>7. m = I - 1 <=> e = t /\ c = (2 * h) - 1
    BY <1>1, <1>3, <2>1, <2>3, <2>4, <2>5
  <2>8. QED
    BY <1>1, <2>1, <2>2, <2>5, <2>6, <2>7
<1>6. /\ (2 * num) - ((2 * V) * den) >= 0
      /\ (2 * num) - ((2 * V) * den) = 0 <=> r = 0
      /\ (2 * num) - ((2 * V1) * den) < 0
      /\ (2 * num) - ((V + V1) * den) \in Int
      /\ (2 * num) - ((V + V1) * den) > 0 <=> r > u
      /\ (2 * num) - ((V + V1) * den) = 0 <=> r = u
  <2>1. ComparesAlike(num, den, P, s, u)
    BY <1>2
  <2>2. SideFacts(num, den, V, V1, r, u)
    <3>1. c \in Nat /\ Neighbours(c, P, V, V1)
      BY <1>4
    <3>2. QED
      BY <2>1, <3>1, SideIs
  <2>3. QED
    BY <2>2 DEF SideFacts
<1>7. RoundedRatio(f, sign, num, den, mode) = RoundedFrom(f, sign, num, den, mode, m)
  <2>1. m \in 0..(Inf(f, 0) - 1) /\ Inf(f, 0) \in Nat
    BY <1>5
  <2>2. IsLower(f, num, den, m)
    BY <1>4, <1>6 DEF IsLower
  <2>3. QED
    BY <1>1, <2>1, <2>2, RatioIs
<1>8. m % 2 = 1 <=> c % 2 = 1
  BY <1>3
<1>9. GoesUp(mode, sign, (2 * num) - ((2 * V) * den) = 0, (2 * num) - ((V + V1) * den), m % 2 = 1) <=> up
  <2>1. PICK z \in Int : z = (2 * num) - ((V + V1) * den) /\ (z > 0 <=> r > u) /\ (z = 0 <=> r = u)
    BY <1>6
  <2>2. (z > 0 <=> r - u > 0) /\ (z >= 0 <=> r - u >= 0) /\ (z = 0 <=> r - u = 0)
    BY <2>1
  <2>3. QED
    BY <1>6, <1>8, <2>1, <2>2 DEF GoesUp, RoundsUp
<1>10. (2 * num) - ((2 * Val(f, h)) * den) < 0 <=> c < h
  <2>1. CASE e = 0
    <3>1. Val(f, h) = h
      BY <1>1, ValHidden
    <3>2. PICK v \in Nat : v = 2 * h /\ v * P = 2 * h
      BY <1>2, <2>1
    <3>3. 2 * num < (v * P) * den <=> s < v * u
      BY <1>2 DEF ComparesAlike
    <3>4. s < v * u <=> c < h
      <4>1. PICK D \in Nat \ {0} : D = 2 * u
        OBVIOUS
      <4>2. v * u = D * h /\ x = D * c /\ D * (c + 1) = x + D
        BY <3>2, <4>1 DEF Times, Parted
      <4>3. PICK w \in Nat : w = D * h
        OBVIOUS
      <4>4. c + 1 <= h => D * (c + 1) <= D * h
        BY ProductMonotonic
      <4>5. h <= c => D * h <= D * c
        BY ProductMonotonic
      <4>6. c < h => s < w
        BY <4>1, <4>2, <4>3, <4>4 DEF Parted
      <4>7. h <= c => w <= s
        BY <4>1, <4>2, <4>3, <4>5 DEF Parted
      <4>8. QED
        BY <4>2, <4>3, <4>6, <4>7
    <3>5. (2 * num) - ((2 * Val(f, h)) * den) < 0 <=> 2 * num < (v * P) * den
      <4>1. PICK w \in Nat : w = (v * P) * den
        BY <3>2
      <4>2. (2 * Val(f, h)) * den = w
        BY <3>1, <3>2, <4>1
      <4>3. QED
        BY <4>1, <4>2
    <3>6. QED
      BY <3>3, <3>4, <3>5
  <2>2. CASE e # 0
    <3>1. h <= m
      <4>1. h <= c
        BY <2>2
      <4>2. QED
        BY <1>3, <4>1
    <3>2. PICK H \in Nat : H = Val(f, h) /\ H <= V
      BY <1>1, <1>4, <3>1, ValOrder
    <3>3. den * (2 * H) <= den * (2 * V)
      BY <3>2, ProductMonotonic
    <3>4. (2 * num) - ((2 * H) * den) >= 0
      <4>1. PICK p \in Nat, q \in Nat : p = (2 * H) * den /\ q = (2 * V) * den /\ p <= q
        BY <3>3
      <4>2. (2 * num) - q >= 0
        BY <1>6, <4>1
      <4>3. QED
        BY <4>1, <4>2
    <3>5. h <= c
      BY <2>2
    <3>6. (2 * H) * den \in Int
      OBVIOUS
    <3>7. QED
      BY <3>2, <3>4, <3>5, <3>6
  <2>3. QED
    BY <2>1, <2>2
<1>11. PICK S \in Int : S = sign * signBit(f)
  <2>1. sign \in Int
    BY DEF IsMode
  <2>2. sign * signBit(f) \in Int
    BY <2>1, InfIs
  <2>3. QED
    BY <2>2
<1>12. Inf(f, sign) = S + I
  <2>1. Inf(f, 0) = ((2 * b) - 1) * h /\ Inf(f, sign) = (sign * signBit(f)) + (((2 * b) - 1) * h)
    <3>1. sign \in Int
      BY DEF IsMode
    <3>2. QED
      BY <3>1, InfIs
  <2>2. Inf(f, sign) = (sign * signBit(f)) + Inf(f, 0)
    BY <2>1, Zenon
  <2>3. I = Inf(f, 0)
    BY <1>5
  <2>4. QED
    BY <1>11, <2>2, <2>3
<1>13. packToUI(f, sign, e, c + Bit(up)) = S + m + Bit(up)
  <2>1. PICK k \in Int : k = Bit(up)
    BY DEF Bit
  <2>2. packToUI(f, sign, e, c + k) = S + y + (c + k)
    BY <1>1, <1>3, <1>11, Zenon DEF packToUI
  <2>3. S + y + (c + k) = S + m + k
    BY <1>3
  <2>4. QED
    BY <2>1, <2>2, <2>3
<1> HIDE DEF up, outward
<1>14. RoundedFrom(f, sign, num, den, mode, m) =
         IF m = I - 1 /\ (up \/ (2 * num) - ((2 * V1) * den) >= 0)
         THEN Ret(S + (I - 1) + Bit(outward), {"overflow", "inexact"})
         ELSE Ret(S + m + Bit(up), IF r = 0 THEN {} ELSE {"inexact"} \cup IF c < h THEN {"underflow"} ELSE {})
  <2> DEFINE goes  == GoesUp(mode, sign, (2 * num) - ((2 * V) * den) = 0, (2 * num) - ((V + V1) * den), m % 2 = 1)
             small == (2 * num) - ((2 * Val(f, h)) * den) < 0
             exact == (2 * num) - ((2 * V) * den) = 0
             above == (2 * num) - ((2 * V1) * den) >= 0
  <2>1. hidden(f) = h
    BY <1>1
  <2>2. RoundedFrom(f, sign, num, den, mode, m) =
          IF m = I - 1 /\ (goes \/ above)
          THEN Ret(S + (I - 1) + Bit(outward), {"overflow", "inexact"})
          ELSE Ret(S + m + Bit(goes), IF exact THEN {} ELSE {"inexact"} \cup IF small THEN {"underflow"} ELSE {})
    BY <2>1, <1>4, <1>5, <1>11, Zenon DEF RoundedFrom, outward
  <2>3. (goes <=> up) /\ (small <=> c < h) /\ (exact <=> r = 0)
    BY <1>6, <1>9, <1>10
  <2> HIDE DEF goes, small, exact
  <2>4. Bit(goes) = Bit(up)
    BY <2>3 DEF Bit
  <2>5. QED
    BY <2>2, <2>3, <2>4, Zenon
<1>15. ~((2 * num) - ((2 * V1) * den) >= 0)
  BY <1>6
<1>16. S + (I - 1) + Bit(outward) = Inf(f, sign) - 1 + Bit(outward)
  BY <1>12 DEF Bit
<1>17. QED
  BY <1>5, <1>7, <1>13, <1>14, <1>15, <1>16 DEF up, outward, RoundedAt, Overflowed

\* Beyond the largest exponent a result overflows.
LEMMA RoundBeyond ==
  ASSUME NEW f, NEW h \in Nat \ {0}, NEW u \in Nat \ {0}, NEW b \in Nat, Sizes(f, h, u, b),
         NEW sign, NEW mode, IsMode(sign, mode), NEW e \in Nat, (2 * b) - 3 < e,
         NEW num \in Nat, NEW den \in Nat \ {0}, NEW s \in Nat, ComparesAlike(num, den, 2^e, s, u), h * (2 * u) <= s
  PROVE  RoundedRatio(f, sign, num, den, mode) = Overflowed(f, sign, mode)
<1> DEFINE outward == mode \in {"near_even", "near_maxMag", IF sign = 1 THEN "min" ELSE "max"}
<1>1. hidden(f) = h /\ b >= 2 /\ h >= 2
  BY DEF Sizes
<1>2. Inf(f, 0) = ((2 * b) - 1) * h /\ Inf(f, sign) = (sign * signBit(f)) + (((2 * b) - 1) * h)
          /\ sign * signBit(f) \in Int
  <2>1. sign \in Int
    BY DEF IsMode
  <2>2. QED
    BY <2>1, InfIs
<1>3. PICK t \in Nat, z \in Nat : t = (2 * b) - 3 /\ z = t * h
  <2>1. (2 * b) - 3 \in Nat
    BY <1>1
  <2>2. \A t \in Nat : t * h \in Nat
    OBVIOUS
  <2>3. QED
    BY <2>1, <2>2
<1>4. PICK I \in Nat, m \in Nat : I = Inf(f, 0) /\ I = z + (2 * h) /\ m = I - 1
  <2>1. (2 * b) - 1 = t + 2 /\ (t + 2) * h = (t * h) + (2 * h)
    BY <1>3
  <2>2. ((2 * b) - 1) * h = z + (2 * h)
    BY <1>3, <2>1
  <2>3. PICK I \in Nat : I = z + (2 * h)
    OBVIOUS
  <2>4. I - 1 \in Nat
    BY <1>1, <2>3
  <2>5. QED
    BY <1>2, <2>2, <2>3, <2>4
<1>5. PICK Q \in Nat \ {0}, P \in Nat \ {0} : Q = 2^t /\ P = 2^e /\ 2 * Q <= P
  <2>1. 2^t \in Nat \ {0} /\ 2^e \in Nat \ {0}
    BY PowerPositive
  <2>2. t < e
    BY <1>3
  <2>3. 2 * 2^t <= 2^e
    BY <2>2, PowerLess
  <2>4. QED
    BY <2>1, <2>3
<1>6. PICK V1 \in Nat : V1 = Val(f, I) /\ V1 = (2 * h) * Q
  <2>1. PICK k \in 0..(2 * h) : k = 2 * h
    OBVIOUS
  <2>2. I = (t * h) + k /\ h <= k
    BY <1>3, <1>4, <2>1
  <2>3. Val(f, I) = k * Q
    BY <1>1, <1>5, <2>2, ValAt
  <2>4. (2 * h) * Q \in Nat
    OBVIOUS
  <2>5. QED
    BY <2>1, <2>3, <2>4
<1>7. PICK V \in Nat : V = Val(f, m) /\ V1 = Val(f, m + 1) /\ V <= V1
  <2>1. m + 1 = I
    BY <1>4
  <2>2. Val(f, m) \in Nat /\ Val(f, m) < Val(f, m + 1)
    BY <1>1, ValNext
  <2>3. Val(f, m + 1) = V1
    BY <1>6, <2>1
  <2>4. QED
    BY <2>2, <2>3
<1>8. (2 * num) - ((2 * V1) * den) >= 0 /\ (2 * num) - ((2 * V) * den) >= 0
  <2>1. PICK v \in Nat : v = 2 * h
    OBVIOUS
  <2>2. 2 * num < (v * P) * den <=> s < v * u
    BY <1>5 DEF ComparesAlike
  <2>3. v * u = h * (2 * u) /\ v * u \in Nat
    BY <2>1
  <2>4. ~(s < v * u)
    BY <2>3
  <2>5. PICK w \in Nat : w = v * P
    OBVIOUS
  <2>6. 2 * V1 <= w
    <3>1. v * (2 * Q) <= v * P
      BY <1>5, ProductMonotonic
    <3>2. v * (2 * Q) = 2 * (v * Q)
      OBVIOUS
    <3>3. QED
      BY <1>6, <2>1, <2>5, <3>1, <3>2
  <2>7. PICK A \in Nat, B \in Nat, C \in Nat : A = (2 * V) * den /\ B = (2 * V1) * den /\ C = w * den
    <3>1. (2 * V) * den \in Nat /\ (2 * V1) * den \in Nat /\ w * den \in Nat
      OBVIOUS
    <3>2. QED
      BY <3>1
  <2>8. A <= B /\ B <= C
    <3>1. den * (2 * V) <= den * (2 * V1)
      BY <1>7, ProductMonotonic
    <3>2. den * (2 * V1) <= den * w
      BY <2>6, ProductMonotonic
    <3>3. QED
      BY <2>7, <3>1, <3>2
  <2>9. C <= 2 * num
    BY <2>2, <2>4, <2>5, <2>7
  <2>10. QED
    BY <2>7, <2>8, <2>9
<1>9. RoundedRatio(f, sign, num, den, mode) = RoundedFrom(f, sign, num, den, mode, m)
  <2>1. m \in 0..(Inf(f, 0) - 1) /\ Inf(f, 0) \in Nat
    BY <1>4
  <2>2. IsLower(f, num, den, m)
    BY <1>4, <1>7, <1>8 DEF IsLower
  <2>3. QED
    BY <1>1, <2>1, <2>2, RatioIs
<1>10. PICK S \in Int : S = sign * signBit(f)
  BY <1>2
<1>11. Inf(f, sign) = S + I
  <2>1. Inf(f, sign) = (sign * signBit(f)) + Inf(f, 0)
    BY <1>2, Zenon
  <2>2. I = Inf(f, 0)
    BY <1>4
  <2>3. QED
    BY <1>10, <2>1, <2>2
<1>12. RoundedFrom(f, sign, num, den, mode, m) = Ret(S + (I - 1) + Bit(outward), {"overflow", "inexact"})
  <2>1. I = Inf(f, 0) /\ m = Inf(f, 0) - 1
    BY <1>4
  <2>2. (2 * num) - ((2 * V1) * den) >= 0
    BY <1>8
  <2>3. QED
    BY <1>7, <1>10, <2>1, <2>2, Zenon DEF RoundedFrom, outward
<1>13. S + (I - 1) + Bit(outward) = Inf(f, sign) - 1 + Bit(outward)
  BY <1>11 DEF Bit
<1> HIDE DEF outward
<1>14. QED
  BY <1>9, <1>12, <1>13 DEF outward, Overflowed

-----------------------------------------------------------------------------
(* What softfloat_roundPackToF32 returns.                                  *)

\* A negative exponent becomes 0.
ShiftedTo(f, k0, sig, s, e) ==
  /\ s = IF k0 < 0 THEN softfloat_shift32RightJam(word(f), sig, -k0) ELSE sig
  /\ e = IF k0 < 0 THEN 0 ELSE k0

\* The code rounds the significand it is left with, and the exponent, as the promise does.
LEMMA RoundPackCode ==
  ASSUME NEW f, NEW h \in Nat \ {0}, NEW u \in Nat \ {0}, NEW b \in Nat, Sizes(f, h, u, b),
         NEW sign, NEW mode, IsMode(sign, mode), NEW k0 \in Int, k0 <= (2 * b) - 3,
         NEW sig \in Nat, NEW s \in Nat, NEW e \in Nat, ShiftedTo(f, k0, sig, s, e),
         NEW c \in 0..((2 * h) - 1), NEW x \in Nat, NEW r \in 0..((2 * u) - 1), Parted(2 * u, c, x, r, s),
         e = 0 \/ h <= c, c < h <=> k0 < 0
  PROVE  softfloat_roundPackToF32(f, sign, k0, sig, mode) = RoundedAt(f, sign, mode, h, u, b, e, c, r)
<1> DEFINE up == RoundsUp(mode, sign, r, u, c)
           outward == mode \in {"near_even", "near_maxMag", IF sign = 1 THEN "min" ELSE "max"}
           inc == roundIncrement(f.G, sign, mode)
           z == RoundOff(f.G, s, inc, mode)
<1>1. PICK D \in Nat \ {0} : D = 2 * u
  OBVIOUS
<1>2. /\ expMax(f) = (2 * b) - 1 /\ b >= 2 /\ h % 2 = 0 /\ 2^f.G = D /\ 2^(f.G - 1) = u /\ top(f) = 2 * (h * D)
  BY <1>1 DEF Sizes
<1>3. /\ z = c + Bit(up)
      /\ s % 2^f.G # 0 <=> r # 0
      /\ c % 2 = 1 => (x + D <= s + inc <=> up)
      /\ inc \in 0..(D - 1)
      /\ Bit(outward) = 1 - Bit(inc = 0)
  <2>1. Parted(D, c, x, r, s) /\ c \in Nat /\ r \in 0..(D - 1)
    BY <1>1
  <2>2. D = 2 * u /\ 2^f.G = D /\ 2^(f.G - 1) = u
    BY <1>1, <1>2
  <2> HIDE DEF inc, up, outward, z
  <2>3. OffBy(f, sign, mode, s, c, x, r, u, D)
    BY <2>1, <2>2, RoundOffIs
  <2>4. QED
    BY <2>3, Zenon DEF OffBy, inc, up, outward, z
<1> HIDE DEF inc, up, outward, z
<1>4. ~(k0 > expMax(f) - 2) /\ (k0 = expMax(f) - 2 <=> e = (2 * b) - 3)
  <2>1. expMax(f) - 2 = (2 * b) - 3 /\ (2 * b) - 3 > 0
    BY <1>2
  <2>2. k0 < 0 => e = 0
    BY DEF ShiftedTo
  <2>3. k0 >= 0 => e = k0
    BY DEF ShiftedTo
  <2>4. QED
    BY <2>1, <2>2, <2>3
<1>5. k0 >= 0 => s = sig
  BY DEF ShiftedTo
<1>6. top(f) <= s + inc <=> c = (2 * h) - 1 /\ up
  <2>1. PICK y \in Nat : y = h * D
    OBVIOUS
  <2>2. D * (c + 1) = x + D /\ D * (2 * h) = 2 * y
    BY <1>1, <2>1 DEF Parted, Times
  <2>3. s = x + r
    BY DEF Parted
  <2>4. CASE c = (2 * h) - 1
    <3>1. c % 2 = 1 /\ c + 1 = 2 * h
      BY <1>2, <2>4
    <3>2. x + D = 2 * y
      BY <2>2, <3>1
    <3>3. QED
      BY <1>2, <1>3, <2>1, <2>4, <3>1, <3>2
  <2>5. CASE c # (2 * h) - 1
    <3>1. D * (c + 2) <= D * (2 * h)
      <4>1. c + 2 <= 2 * h
        BY <2>5
      <4>2. QED
        BY <4>1, ProductMonotonic
    <3>2. D * (c + 2) = x + D + D
      BY <2>2
    <3>3. x + D + D <= 2 * y
      BY <2>2, <3>1, <3>2
    <3>4. s + inc < 2 * y
      <4>1. inc \in 0..(D - 1) /\ r \in 0..(D - 1)
        BY <1>1, <1>3
      <4>2. QED
        BY <2>3, <3>3, <4>1
    <3>5. top(f) = 2 * y
      BY <1>2, <2>1
    <3>6. ~(2 * y <= s + inc)
      <4>1. inc \in Int
        BY <1>3
      <4>2. QED
        BY <3>4, <4>1
    <3>7. QED
      BY <2>5, <3>5, <3>6
  <2>6. QED
    BY <2>4, <2>5
<1>7. k0 = expMax(f) - 2 => s = sig
  BY <1>2, <1>5
<1>8. softfloat_roundPackToF32(f, sign, k0, sig, mode) =
        IF k0 = expMax(f) - 2 /\ top(f) <= sig + inc
        THEN Ret(packToUI(f, sign, expMax(f), 0) - Bit(inc = 0), {"overflow", "inexact"})
        ELSE Ret(packToUI(f, sign, IF z = 0 THEN 0 ELSE e, z),
                 IF s % 2^f.G = 0 THEN {} ELSE {"inexact"} \cup IF k0 < 0 THEN {"underflow"} ELSE {})
  BY <1>4, Zenon DEF softfloat_roundPackToF32, detectTininess, ShiftedTo, inc, z
<1>9. (k0 = expMax(f) - 2 /\ top(f) <= sig + inc) <=> (e = (2 * b) - 3 /\ c = (2 * h) - 1 /\ up)
  BY <1>4, <1>6, <1>7
<1>10. packToUI(f, sign, expMax(f), 0) - Bit(inc = 0) = Inf(f, sign) - 1 + Bit(outward)
  <2>1. PICK k \in Int : k = Bit(inc = 0)
    BY DEF Bit
  <2>2. Bit(outward) = 1 - k
    BY <1>3, <2>1
  <2>3. PICK i \in Int : i = Inf(f, sign)
    <3>1. sign \in Int
      BY DEF IsMode
    <3>2. Inf(f, sign) \in Int
      BY <3>1, InfIs
    <3>3. QED
      BY <3>2
  <2>4. packToUI(f, sign, expMax(f), 0) = i
    BY <2>3 DEF Inf
  <2>5. QED
    BY <2>1, <2>2, <2>3, <2>4
<1>11. (IF z = 0 THEN 0 ELSE e) = e /\ z = c + Bit(up)
  <2>1. z = 0 => c < h
    BY <1>3 DEF Bit
  <2>2. QED
    BY <1>3, <2>1
<1>12. (s % 2^f.G = 0 <=> r = 0) /\ (k0 < 0 <=> c < h)
  BY <1>3
<1>13. QED
  BY <1>8, <1>9, <1>10, <1>11, <1>12, Zenon DEF up, outward, RoundedAt, Overflowed

\* A jamming shift right is a jammed quotient, however many bits it shifts.
LEMMA ShiftJams ==
  ASSUME NEW w \in Nat, NEW a \in Nat, a < 2^w, NEW k \in Nat \ {0}
  PROVE  softfloat_shift32RightJam(w, a, k) = JamOf(a, 2^k)
<1>1. CASE k < w
  <2>1. k \in 1..(w - 1)
    BY <1>1
  <2>2. k \in 1..(w - 1) /\ ~(k >= w)
    BY <2>1
  <2>3. QED
    BY <2>2 DEF softfloat_shift32RightJam, JamOf
<1>2. CASE k >= w
  <2>1. k \notin 1..(w - 1)
    BY <1>2
  <2>2. softfloat_shift32RightJam(w, a, k) = Bit(a # 0)
    BY <1>2, <2>1 DEF softfloat_shift32RightJam
  <2>3. PICK D \in Nat \ {0} : D = 2^k /\ a < D
    <3>1. 2^w \in Nat \ {0} /\ 2^k \in Nat \ {0}
      BY PowerPositive
    <3>2. 2^w <= 2^k
      BY <1>2, PowerLess
    <3>3. QED
      BY <3>1, <3>2
  <2>4. a \div D = 0 /\ a % D = a
    <3>1. a = (D * 0) + a /\ a \in 0..(D - 1) /\ a \in Int /\ 0 \in Int
      BY <2>3
    <3>2. QED
      BY <3>1, DivModUnique
  <2>5. JamOf(a, D) = Bit(a # 0)
    <3>1. 0 % 2 = 0 /\ 0 + 1 = 1
      OBVIOUS
    <3>2. JamOf(a, D) = Jammed(0, a # 0)
      BY <2>4 DEF JamOf
    <3>3. QED
      BY <3>1, <3>2 DEF Jammed, Bit
  <2>6. QED
    BY <2>2, <2>3, <2>5
<1>3. QED
  BY <1>1, <1>2

\* A significand with its leading bit in its place.
IsLeading(f, sig) == 2^(f.F + f.G) <= sig /\ sig < top(f)

\* num / den is n / d in units of 2^k / 2^G.
InUnits(f, num, den, n, d, k) == Scales(num * (d * 2^f.G), n * den, k)

\* The rounding of softfloat_roundPackToF32 is the exact one: when sig stands for n / d and
\* num / den is n / d in units of 2^k0 / 2^G, it returns num / den rounded once, with its flags.
LEMMA RoundPack ==
  ASSUME NEW f, IsFormat(f), NEW sign, NEW mode, IsMode(sign, mode), NEW k0 \in Int,
         NEW sig \in Nat, IsLeading(f, sig),
         NEW n \in Nat, NEW d \in Nat \ {0}, Stands(sig, n, d, 2^(f.G - 1)),
         NEW num \in Nat, NEW den \in Nat \ {0}, InUnits(f, num, den, n, d, k0)
  PROVE  softfloat_roundPackToF32(f, sign, k0, sig, mode) = RoundedRatio(f, sign, num, den, mode)
<1>1. PICK h \in Nat \ {0}, u \in Nat \ {0}, b \in Nat : Sizes(f, h, u, b)
  <2>1. PICK h \in Nat, u \in Nat, b \in Nat : Sizes(f, h, u, b)
    BY FormatSizes
  <2>2. h # 0 /\ u # 0
    BY <2>1 DEF Sizes
  <2>3. QED
    BY <2>1, <2>2
<1>2. /\ 2^f.G = 2 * u /\ 2^(f.G - 1) = u /\ u % 2 = 0 /\ b >= 2 /\ expMax(f) = (2 * b) - 1
      /\ 2^(f.F + f.G) = h * (2 * u) /\ top(f) = 2 * (h * (2 * u)) /\ 2^word(f) = 4 * (h * (2 * u))
  BY <1>1 DEF Sizes
<1>3. PICK y \in Nat \ {0} : y = h * (2 * u)
  OBVIOUS
<1>4. y <= sig /\ sig < 2 * y
  BY <1>2, <1>3 DEF IsLeading
<1>5. CASE k0 >= 0
  <2>1. k0 \in Nat
    BY <1>5
  <2>2. Counted(num, den, n, d, u, 2^k0)
    <3>1. PICK P \in Nat : P = 2^k0
      BY <2>1, PowerPositive
    <3>2. num * (d * 2^f.G) \in Nat /\ n * den \in Nat
      BY <1>2
    <3>3. num * (d * 2^f.G) = (n * den) * 2^k0
      BY <2>1, <3>2, ScalesUp DEF InUnits
    <3>4. (n * den) * P = (n * P) * den
      OBVIOUS
    <3>5. QED
      BY <1>2, <3>1, <3>3, <3>4 DEF Counted
  <2>3. ComparesAlike(num, den, 2^k0, sig, u)
    <3>1. 2^k0 \in Nat \ {0}
      BY <2>1, PowerPositive
    <3>2. Stands(sig, n, d, u)
      BY <1>2
    <3>3. QED
      BY <2>2, <3>1, <3>2, StandsCompares
  <2>4. CASE k0 <= (2 * b) - 3
    <3>1. PICK c \in 0..((2 * h) - 1), x \in Nat, r \in 0..((2 * u) - 1) :
            Parted(2 * u, c, x, r, sig) /\ (h * (2 * u) <= sig <=> h <= c)
      BY <1>3, <1>4, SplitSig
    <3>2. h <= c
      BY <1>3, <1>4, <3>1
    <3> DEFINE R == RoundedAt(f, sign, mode, h, u, b, k0, c, r)
    <3>3. k0 \in 0..((2 * b) - 3)
      BY <2>1, <2>4
    <3>4. RoundedRatio(f, sign, num, den, mode) = R
      BY <1>1, <2>3, <3>1, <3>2, <3>3, RoundWithin
    <3>5. ShiftedTo(f, k0, sig, sig, k0)
      BY <1>5 DEF ShiftedTo
    <3>6. c < h <=> k0 < 0
      BY <1>5, <3>2
    <3>7. softfloat_roundPackToF32(f, sign, k0, sig, mode) = R
      BY <1>1, <2>1, <2>4, <3>1, <3>2, <3>5, <3>6, RoundPackCode
    <3>8. QED
      BY <3>4, <3>7
  <2>5. CASE ~(k0 <= (2 * b) - 3)
    <3> DEFINE outward == mode \in {"near_even", "near_maxMag", IF sign = 1 THEN "min" ELSE "max"}
               inc == roundIncrement(f.G, sign, mode)
    <3>1. RoundedRatio(f, sign, num, den, mode) = Overflowed(f, sign, mode)
      <4>1. h * (2 * u) <= sig /\ (2 * b) - 3 < k0
        BY <1>3, <1>4, <2>5
      <4>2. QED
        BY <1>1, <2>1, <2>3, <4>1, RoundBeyond
    <3>2. k0 > expMax(f) - 2
      BY <1>2, <2>5
    <3>3. softfloat_roundPackToF32(f, sign, k0, sig, mode) =
            Ret(packToUI(f, sign, expMax(f), 0) - Bit(inc = 0), {"overflow", "inexact"})
      BY <3>2, Zenon DEF softfloat_roundPackToF32
    <3>4. Bit(outward) = 1 - Bit(inc = 0)
      <4>1. PICK c \in 0..((2 * h) - 1), x \in Nat, r \in 0..((2 * u) - 1) : Parted(2 * u, c, x, r, sig)
        BY <1>3, <1>4, SplitSig
      <4>2. PICK D \in Nat \ {0} : D = 2 * u
        OBVIOUS
      <4>3. OffBy(f, sign, mode, sig, c, x, r, u, D)
        <5>1. Parted(D, c, x, r, sig) /\ c \in Nat /\ r \in 0..(D - 1) /\ 2^f.G = D /\ 2^(f.G - 1) = u
          BY <1>2, <4>1, <4>2
        <5>2. QED
          BY <4>2, <5>1, RoundOffIs
      <4>4. QED
        BY <4>3, Zenon DEF OffBy
    <3> HIDE DEF outward, inc
    <3>5. PICK k \in Int : k = Bit(inc = 0)
      BY DEF Bit
    <3>6. PICK i \in Int : i = Inf(f, sign)
      <4>1. sign \in Int
        BY DEF IsMode
      <4>2. Inf(f, sign) \in Int
        BY <1>1, <4>1, InfIs
      <4>3. QED
        BY <4>2
    <3>7. packToUI(f, sign, expMax(f), 0) = i
      BY <3>6 DEF Inf
    <3>8. QED
      BY <3>1, <3>3, <3>4, <3>5, <3>6, <3>7 DEF outward, Overflowed
  <2>6. QED
    BY <2>4, <2>5
<1>6. CASE k0 < 0
  <2>1. PICK k \in Nat \ {0} : k0 = -k /\ k = -k0
    <3>1. -k0 \in Nat \ {0} /\ k0 = -(-k0)
      BY <1>6
    <3>2. QED
      BY <3>1
  <2>2. PICK K \in Nat \ {0} : K = 2^k /\ 2 <= K
    <3>1. 2^k \in Nat \ {0} /\ 1 <= k
      BY PowerPositive
    <3>2. 2^1 <= 2^k
      BY <3>1, PowerLess
    <3>3. QED
      BY <3>1, <3>2, PowerOne
  <2>3. PICK s \in Nat : s = JamOf(sig, K) /\ Stands(s, n, d * K, u) /\ s < y
    <3>1. Stands(sig, n, d, u)
      BY <1>2
    <3>2. Stands(JamOf(sig, K), n, d * K, u) /\ JamOf(sig, K) \in Nat
      BY <1>2, <3>1, StandsShifted
    <3>3. y % 2 = 0
      <4>1. PICK z \in Nat : z = h * u
        OBVIOUS
      <4>2. y = 2 * z
        BY <1>3, <4>1
      <4>3. QED
        BY <4>2
    <3>4. sig < y * K
      <4>1. y * 2 <= y * K
        BY <2>2, ProductMonotonic
      <4>2. PICK v \in Int : v = y * K
        OBVIOUS
      <4>3. QED
        BY <1>4, <4>1, <4>2
    <3>5. JamOf(sig, K) < y
      <4>1. \A T \in Nat : T % 2 = 0 => (sig < T * K <=> JamOf(sig, K) < T) /\ (sig = T * K <=> JamOf(sig, K) = T)
        BY JamCompares
      <4>2. QED
        BY <3>3, <3>4, <4>1
    <3>6. QED
      BY <3>2, <3>5
  <2>4. s = softfloat_shift32RightJam(word(f), sig, k)
    <3>1. word(f) \in Nat
      BY DEF word, IsFormat
    <3>2. sig < 2^word(f)
      BY <1>2, <1>3, <1>4
    <3>3. softfloat_shift32RightJam(word(f), sig, k) = JamOf(sig, 2^k)
      BY <3>1, <3>2, ShiftJams
    <3>4. QED
      BY <2>2, <2>3, <3>3
  <2>5. ComparesAlike(num, den, 2^0, s, u)
    <3>1. num * (d * 2^f.G) \in Nat /\ n * den \in Nat
      BY <1>2
    <3>2. (num * (d * 2^f.G)) * K = n * den
      BY <2>1, <2>2, <3>1, ScalesDown DEF InUnits
    <3>3. PICK D \in Nat \ {0} : D = d * K
      OBVIOUS
    <3>4. num * (D * (2 * u)) = (n * 1) * den
      <4>1. PICK g \in Nat : g = 2 * u
        OBVIOUS
      <4>2. (num * (d * g)) * K = num * ((d * K) * g)
        OBVIOUS
      <4>3. QED
        BY <1>2, <3>2, <3>3, <4>1, <4>2
    <3>5. Counted(num, den, n, D, u, 1) /\ Stands(s, n, D, u)
      BY <2>3, <3>3, <3>4 DEF Counted
    <3>6. ComparesAlike(num, den, 1, s, u)
      <4>1. 1 \in Nat \ {0}
        OBVIOUS
      <4>2. QED
        BY <3>5, <4>1, StandsCompares
    <3>7. QED
      BY <3>6, PowerZero
  <2>6. PICK c \in 0..((2 * h) - 1), x \in Nat, r \in 0..((2 * u) - 1) :
          Parted(2 * u, c, x, r, s) /\ (h * (2 * u) <= s <=> h <= c)
    <3>1. s < 2 * (h * (2 * u))
      BY <1>3, <2>3
    <3>2. QED
      BY <3>1, SplitSig
  <2>7. c < h
    BY <1>3, <2>3, <2>6
  <2>8. PICK e \in Nat : e = 0
    OBVIOUS
  <2> DEFINE R == RoundedAt(f, sign, mode, h, u, b, e, c, r)
  <2>9. e \in 0..((2 * b) - 3) /\ k0 <= (2 * b) - 3
    BY <1>2, <1>6, <2>8
  <2>10. RoundedRatio(f, sign, num, den, mode) = R
    <3>1. ComparesAlike(num, den, 2^e, s, u)
      BY <2>5, <2>8
    <3>2. Parted(2 * u, c, x, r, s)
      BY <2>6
    <3>3. e = 0 \/ h <= c
      BY <2>8
    <3>4. QED
      BY <1>1, <2>9, <3>1, <3>2, <3>3, RoundWithin
  <2>11. softfloat_roundPackToF32(f, sign, k0, sig, mode) = R
    <3>1. ShiftedTo(f, k0, sig, s, e)
      BY <1>6, <2>1, <2>4, <2>8 DEF ShiftedTo
    <3>3. c < h <=> k0 < 0
      BY <1>6, <2>7
    <3>4. Parted(2 * u, c, x, r, s) /\ (e = 0 \/ h <= c)
      BY <2>6, <2>8
    <3>5. QED
      BY <1>1, <2>9, <3>1, <3>3, <3>4, RoundPackCode
  <2>12. QED
    BY <2>10, <2>11
<1>7. QED
  BY <1>5, <1>6

-----------------------------------------------------------------------------
(* Operands.                                                               *)

\* A power of two is larger than its exponent.
LEMMA PowerExceeds == \A n \in Nat : n < 2^n
<1> DEFINE P(n) == n < 2^n
           S == {n \in Nat : ~P(n)}
<1>1. S = {}
  <2> SUFFICES ASSUME S # {} PROVE FALSE
    OBVIOUS
  <2>1. S \in SUBSET Nat
    OBVIOUS
  <2>2. PICK k \in S : \A n \in S : k <= n
    <3> HIDE DEF S
    <3>1. QED
      BY <2>1, Least
  <2>3. k \in Nat /\ ~P(k)
    BY <2>2
  <2>4. k # 0
    <3>1. P(0)
      BY PowerZero
    <3> HIDE DEF P
    <3>2. QED
      BY <2>3, <3>1
  <2>5. PICK j \in Nat : k = j + 1
    BY <2>3, <2>4
  <2>6. j \notin S
    BY <2>2, <2>5
  <2>7. P(j)
    <3> HIDE DEF P
    <3>1. QED
      BY <2>6
  <2>8. 2^k = 2 * 2^j /\ 2^j \in Nat
    BY <2>5, PowerNext, PowerPositive
  <2>9. QED
    BY <2>3, <2>5, <2>7, <2>8
<1>2. ASSUME NEW n \in Nat PROVE P(n)
  <2> HIDE DEF P
  <2>1. QED
    BY <1>1
<1>3. QED
  BY <1>2

\* The leading bit of a number.
LEMMA LeadingBit ==
  ASSUME NEW a \in Nat \ {0}
  PROVE  \E k \in Nat : 2^k <= a /\ a < 2 * 2^k
<1> DEFINE P(n) == a < 2^n
           S == {n \in Nat : P(n)}
<1>1. P(a)
  BY PowerExceeds
<1>2. S \in SUBSET Nat /\ S # {}
  <2> HIDE DEF P
  <2>1. a \in S
    BY <1>1
  <2>2. QED
    BY <2>1
<1>3. PICK k \in S : \A n \in S : k <= n
  <2> HIDE DEF S
  <2>1. QED
    BY <1>2, Least
<1>4. k \in Nat /\ P(k)
  BY <1>3
<1>5. k # 0
  <2>1. ~P(0)
    BY PowerZero
  <2> HIDE DEF P
  <2>2. QED
    BY <1>4, <2>1
<1>6. PICK j \in Nat : k = j + 1
  BY <1>4, <1>5
<1>7. ~P(j)
  <2>1. j \notin S
    BY <1>3, <1>6
  <2> HIDE DEF P
  <2>2. QED
    BY <2>1
<1>8. 2^k = 2 * 2^j /\ 2^j \in Nat
  BY <1>6, PowerNext, PowerPositive
<1>9. QED
  BY <1>4, <1>7, <1>8

\* The number of leading zeros of a number that fits the word.
LEMMA LeadingZeros ==
  ASSUME NEW w \in Nat, NEW a \in Nat \ {0}, a < 2^w
  PROVE  \E n \in 0..(w - 1), k \in Nat :
           softfloat_countLeadingZeros32(w, a) = n /\ w = n + k + 1 /\ 2^k <= a /\ a < 2 * 2^k
<1> DEFINE P(n) == a < 2^(w - n) /\ (n < w => a >= 2^(w - n - 1))
           z == softfloat_countLeadingZeros32(w, a)
<1>1. PICK k \in Nat : 2^k <= a /\ a < 2 * 2^k
  BY LeadingBit
<1>2. 2^k \in Nat /\ 2^w \in Nat
  BY PowerPositive
<1>3. k < w
  <2>1. w <= k => 2^w <= 2^k
    BY PowerLess
  <2>2. QED
    BY <1>1, <1>2, <2>1
<1>4. PICK n \in 0..w : n = w - k - 1 /\ w - n = k + 1 /\ w - n - 1 = k
  BY <1>3
<1>5. P(n)
  BY <1>1, <1>4, PowerNext
<1>6. z = CHOOSE i \in 0..w : P(i)
  BY DEF softfloat_countLeadingZeros32
<1>7. z \in 0..w /\ P(z)
  <2> HIDE DEF P, z
  <2>1. QED
    BY <1>5, <1>6
<1> HIDE DEF z
<1>8. z # w
  <2>1. ~P(w)
    <3>1. w - w = 0 /\ ~(a < 1)
      OBVIOUS
    <3>2. ~(a < 2^(w - w))
      BY <3>1, PowerZero
    <3>3. QED
      BY <3>2
  <2> HIDE DEF P, z
  <2>2. QED
    BY <1>7, <2>1, Zenon
<1>9. PICK j \in Nat : w = z + j + 1 /\ w - z - 1 = j /\ w - z = j + 1 /\ z \in 0..(w - 1)
  <2>1. w - z - 1 \in Nat /\ w = z + (w - z - 1) + 1 /\ w - z = (w - z - 1) + 1 /\ z \in 0..(w - 1)
    BY <1>7, <1>8
  <2>2. QED
    BY <2>1
<1>10. 2^(j + 1) = 2 * 2^j
  BY PowerNext
<1>11. 2^j <= a /\ a < 2 * 2^j
  BY <1>7, <1>9, <1>10
<1>12. QED
  BY <1>9, <1>11 DEF z

\* Its exponent and its significand, with the leading bit in its place, are its magnitude.
IsOperand(f, a, h, k, sig) ==
  /\ Normal(f, a) = [exp |-> k, sig |-> sig]
  /\ k \in Int /\ sig \in h..((2 * h) - 1)
  /\ Mag(f, a) \in Nat \ {0} /\ Scales(Mag(f, a), sig, k - 1)

\* The constants of a format obey the laws that the proofs about comparisons need.
LEMMA FormatFacts ==
  ASSUME NEW f, NEW h, NEW u, NEW b \in Nat, h \in Nat \ {0}, Sizes(f, h, u, b)
  PROVE  FormatLaws(f)
<1>1. /\ hidden(f) = h /\ h % 2 = 0 /\ h >= 2 /\ 2^f.E = 2 * b /\ b >= 2 /\ signBit(f) = (2 * b) * h
  BY DEF Sizes
<1>2. h \div 2 \in Nat \ {0} /\ h = 2 * (h \div 2)
  BY <1>1
<1>3. QED
  BY <1>1, <1>2 DEF FormatLaws

\* So every format obeys them.
LEMMA FormatLaw ==
  ASSUME NEW f, IsFormat(f)
  PROVE  FormatLaws(f)
<1>1. PICK h \in Nat, u \in Nat, b \in Nat : Sizes(f, h, u, b)
  BY FormatSizes
<1>2. h \in Nat \ {0}
  BY <1>1 DEF Sizes
<1>3. QED
  BY <1>1, <1>2, FormatFacts

\* Normalised, every operand but zero has its leading bit in its place.
LEMMA NormalIs ==
  ASSUME NEW f, IsFormat(f), NEW h, NEW u, NEW b, h \in Nat \ {0}, b \in Nat, Sizes(f, h, u, b),
         NEW a, a \in Patterns(f), ~isZero(f, a)
  PROVE  \E k \in Int, sig \in h..((2 * h) - 1) : IsOperand(f, a, h, k, sig)
<1>1. FormatLaws(f)
  BY FormatFacts
<1>2. hidden(f) = h /\ 2^f.F = h
  BY DEF Sizes
<1>3. PICK e \in Nat, x \in 0..(h - 1), m \in Nat :
        expUI(f, a) = e /\ fracUI(f, a) = x /\ a % signBit(f) = m /\ m = (h * e) + x
  <2>1. \E s \in 0..1, e \in 0..(2^f.E - 1), x \in 0..(hidden(f) - 1), m \in 0..(signBit(f) - 1) :
           /\ signUI(f, a) = s /\ expUI(f, a) = e /\ fracUI(f, a) = x /\ a % signBit(f) = m
           /\ m = (hidden(f) * e) + x /\ a = (signBit(f) * s) + m
    BY <1>1, Fields
  <2>2. QED
    BY <1>2, <2>1
<1>4. m # 0
  BY <1>3 DEF isZero
<1>5. CASE e = 0
  <2>1. m = x /\ x \in Nat \ {0}
    BY <1>3, <1>4, <1>5
  <2>2. Mag(f, a) = x
    <3>1. x \div h = 0
      <4>1. x = (h * 0) + x /\ x \in Int /\ 0 \in Int
        OBVIOUS
      <4>2. QED
        BY <4>1, DivModUnique
    <3>2. Val(f, x) = x
      BY <1>2, <3>1 DEF Val
    <3>3. QED
      BY <1>3, <2>1, <3>2 DEF Mag
  <2>3. PICK F \in Nat, G \in Nat, w \in Nat : F = f.F /\ G = f.G /\ w = F + G + 2 /\ w = word(f)
    BY DEF IsFormat, word
  <2>4. x < 2^w
    <3>1. 2^F <= 2^w /\ 2^w \in Nat
      <4>1. F <= w
        BY <2>3
      <4>2. QED
        BY <4>1, PowerLess, PowerPositive
    <3>2. QED
      BY <1>2, <2>3, <3>1
  <2>5. PICK n \in 0..(w - 1), k \in Nat :
          softfloat_countLeadingZeros32(w, x) = n /\ w = n + k + 1 /\ 2^k <= x /\ x < 2 * 2^k
    BY <2>1, <2>4, LeadingZeros
  <2>6. k < F
    <3>1. 2^k \in Nat /\ 2^F \in Nat
      BY PowerPositive
    <3>2. F <= k => 2^F <= 2^k
      BY PowerLess
    <3>3. QED
      BY <1>2, <2>3, <2>5, <3>1, <3>2
  <2>7. PICK t \in Nat : t = n - (G + 1) /\ F = k + t
    <3>1. n - (G + 1) \in Nat /\ F = k + (n - (G + 1))
      BY <2>3, <2>5, <2>6
    <3>2. QED
      BY <3>1
  <2>8. PICK K \in Nat \ {0}, T \in Nat \ {0} : K = 2^k /\ T = 2^t
    BY PowerPositive
  <2>9. h = K * T
    <3>1. 2^(k + t) = 2^k * 2^t
      BY PowerSum
    <3>2. QED
      BY <1>2, <2>3, <2>7, <2>8, <3>1
  <2>10. PICK sig \in Nat : sig = x * T /\ h <= sig /\ sig < 2 * h
    <3>1. T * K <= T * x
      BY <2>5, <2>8, ProductMonotonic
    <3>2. T * (x + 1) <= T * (2 * K)
      <4>1. x + 1 <= 2 * K
        BY <2>5, <2>8
      <4>2. QED
        BY <4>1, ProductMonotonic
    <3>3. PICK sig \in Nat, v \in Nat : sig = x * T /\ v = K * T
      <4>1. x * T \in Nat /\ K * T \in Nat
        OBVIOUS
      <4>2. QED
        BY <4>1
    <3>4. T * K = v /\ T * x = sig /\ T * (x + 1) = sig + T /\ T * (2 * K) = 2 * v
      BY <3>3
    <3>5. h = v
      BY <2>9, <3>3
    <3>6. QED
      BY <3>1, <3>2, <3>3, <3>4, <3>5
  <2>11. Normal(f, a) = [exp |-> 1 - t, sig |-> sig]
    <3>1. Normal(f, a) = softfloat_normSubnormalF32Sig(f, x)
      BY <1>3, <1>5 DEF Normal
    <3>2. softfloat_countLeadingZeros32(word(f), x) - (f.G + 1) = t
      BY <2>3, <2>5, <2>7
    <3>3. QED
      BY <2>8, <2>10, <3>1, <3>2 DEF softfloat_normSubnormalF32Sig
  <2>12. Scales(Mag(f, a), sig, (1 - t) - 1)
    <3>1. x * 2^t = sig * 2^0 /\ 0 - t = (1 - t) - 1
      BY <2>8, <2>10, PowerZero
    <3>2. QED
      BY <2>2, <3>1 DEF Scales
  <2>13. IsOperand(f, a, h, 1 - t, sig)
    BY <2>1, <2>2, <2>10, <2>11, <2>12 DEF IsOperand
  <2>14. QED
    BY <2>10, <2>13
<1>6. CASE e # 0
  <2>1. PICK sig \in h..((2 * h) - 1) : sig = x + h
    OBVIOUS
  <2>2. PICK k \in Nat : e = k + 1 /\ e - 1 = k
    BY <1>6
  <2>3. PICK P \in Nat \ {0} : P = 2^k
    BY PowerPositive
  <2>4. Mag(f, a) = sig * P
    <3>1. m \div h = e /\ m % h = x
      <4>1. m \in Int /\ e \in Int
        OBVIOUS
      <4>2. QED
        BY <1>3, <4>1, DivModUnique
    <3>2. Val(f, m) = (x + h) * 2^k
      BY <1>2, <1>6, <2>2, <3>1 DEF Val
    <3>3. QED
      BY <1>3, <2>1, <2>3, <3>2 DEF Mag
  <2>5. Normal(f, a) = [exp |-> e, sig |-> sig]
    BY <1>2, <1>3, <1>6, <2>1 DEF Normal
  <2>6. PICK v \in Nat \ {0} : v = sig * P
    <3>1. sig * P \in Nat \ {0}
      OBVIOUS
    <3>2. QED
      BY <3>1
  <2>7. Scales(Mag(f, a), sig, e - 1)
    <3>1. v * 2^0 = sig * 2^k /\ k - 0 = e - 1
      BY <2>2, <2>3, <2>6, PowerZero
    <3>2. QED
      BY <2>4, <2>6, <3>1 DEF Scales
  <2>8. IsOperand(f, a, h, e, sig)
    BY <2>1, <2>4, <2>5, <2>6, <2>7 DEF IsOperand
  <2>9. QED
    BY <2>8
<1>7. QED
  BY <1>5, <1>6

\* A significand with its leading bit in its place or one below, and the guard bits but two.
IsNear(f, s) == 2^(f.F + f.G - 1) <= s /\ s < top(f)
\* v is half of what the last guard bits but one count.
IsGuard(f, v) == 2^(f.G - 1) = 2 * v

\* A sum or product with its leading bit in its place or one below: the rounding after one
\* left shift, when that is needed, is the exact one.
LEMMA RoundSumIs ==
  ASSUME NEW f, IsFormat(f), NEW sign, NEW mode, IsMode(sign, mode), NEW k \in Int,
         NEW s \in Nat, IsNear(f, s),
         NEW n \in Nat, NEW d \in Nat \ {0}, NEW v \in Nat, IsGuard(f, v), Stands(s, n, d, v),
         NEW num \in Nat, NEW den \in Nat \ {0}, InUnits(f, num, den, n, d, k)
  PROVE  RoundSum(f, sign, k, s, mode) = RoundedRatio(f, sign, num, den, mode)
<1>1. PICK h \in Nat, u \in Nat, b \in Nat : Sizes(f, h, u, b)
  BY FormatSizes
<1>2. PICK y \in Nat, Y \in Nat : /\ y = h * u /\ Y = h * (2 * u) /\ Y = 2 * y
                                  /\ 2^(f.F + f.G) = Y /\ 2^(f.F + f.G - 1) = y /\ top(f) = 2 * Y
  <2>1. PICK y \in Nat : y = h * u /\ h * (2 * u) = 2 * y
    OBVIOUS
  <2>2. 2^(f.F + f.G) = h * (2 * u) /\ 2^(f.F + f.G - 1) = h * u /\ top(f) = 2 * (h * (2 * u))
    BY <1>1 DEF Sizes
  <2>3. QED
    BY <2>1, <2>2
<1>3. CASE s < 2^(f.F + f.G)
  <2>1. Scaled(k, s, 2^(f.F + f.G)) = [exp |-> k - 1, sig |-> 2 * s]
    BY <1>3 DEF Scaled
  <2>2. IsLeading(f, 2 * s) /\ 2 * s \in Nat
    BY <1>2, <1>3 DEF IsLeading, IsNear
  <2>3. Stands(2 * s, 2 * n, d, 2^(f.G - 1))
    BY StandsDoubled DEF IsGuard
  <2>4. InUnits(f, num, den, 2 * n, d, k - 1)
    <3>1. PICK x \in Nat : x = num * (d * 2^f.G)
      BY <1>1 DEF Sizes
    <3>2. PICK z \in Nat : z = n * den /\ (2 * n) * den = z * 2
      OBVIOUS
    <3>3. Scales(x, z, k)
      BY <3>1, <3>2 DEF InUnits
    <3>4. Scales(1, 2, -1)
      BY ScalesPower, PowerOne
    <3>5. Scales(x * 1, z * 2, k + (-1))
      <4>1. 1 \in Nat /\ 2 \in Nat /\ -1 \in Int
        OBVIOUS
      <4>2. QED
        BY <3>3, <3>4, <4>1, ScalesProduct
    <3>6. x * 1 = x /\ k + (-1) = k - 1
      OBVIOUS
    <3>7. QED
      BY <3>1, <3>2, <3>5, <3>6 DEF InUnits
  <2>5. softfloat_roundPackToF32(f, sign, k - 1, 2 * s, mode) = RoundedRatio(f, sign, num, den, mode)
    <3>1. k - 1 \in Int /\ 2 * n \in Nat
      OBVIOUS
    <3>2. QED
      BY <2>2, <2>3, <2>4, <3>1, RoundPack
  <2>6. QED
    BY <2>1, <2>5 DEF RoundSum, RoundScaled
<1>4. CASE ~(s < 2^(f.F + f.G))
  <2>1. Scaled(k, s, 2^(f.F + f.G)) = [exp |-> k, sig |-> s]
    BY <1>4 DEF Scaled
  <2>2. IsLeading(f, s)
    BY <1>2, <1>4 DEF IsLeading, IsNear
  <2>3. Stands(s, n, d, 2^(f.G - 1))
    <3>1. Stands(s, n, d, v * 2) /\ v * 2 = 2 * v
      BY StandsCoarser
    <3>2. QED
      BY <3>1 DEF IsGuard
  <2>4. softfloat_roundPackToF32(f, sign, k, s, mode) = RoundedRatio(f, sign, num, den, mode)
    BY <2>2, <2>3, RoundPack
  <2>5. QED
    BY <2>1, <2>4 DEF RoundSum, RoundScaled
<1>5. QED
  BY <1>3, <1>4

\* An exact zero rounds to zero.
LEMMA RoundZero ==
  ASSUME NEW f, IsFormat(f), NEW sign, NEW mode, IsMode(sign, mode), NEW den \in Nat \ {0}
  PROVE  RoundedRatio(f, sign, 0, den, mode) = Ret(Zero(f, sign), {})
<1>1. PICK h \in Nat \ {0}, u \in Nat, b \in Nat : Sizes(f, h, u, b) /\ b >= 2 /\ h >= 2 /\ hidden(f) = h
  <2>1. PICK h \in Nat, u \in Nat, b \in Nat : Sizes(f, h, u, b)
    BY FormatSizes
  <2>2. h # 0 /\ h >= 2 /\ b >= 2 /\ hidden(f) = h
    BY <2>1 DEF Sizes
  <2>3. QED
    BY <2>1, <2>2
<1>2. sign \in Int
  BY DEF IsMode
<1>3. PICK i \in Nat : i = Inf(f, 0) /\ i >= 2
  <2>1. Inf(f, 0) = ((2 * b) - 1) * h
    BY <1>1, <1>2, InfIs
  <2>2. h * 1 <= h * ((2 * b) - 1)
    BY <1>1, ProductMonotonic
  <2>3. PICK z \in Nat : z = ((2 * b) - 1) * h
    BY <1>1
  <2>4. QED
    BY <1>1, <2>1, <2>2, <2>3
<1>4. Val(f, 0) = 0 /\ Val(f, 1) = 1
  <2>1. \A c \in 0..1 : Val(f, c) = c
    <3>1. TAKE c \in 0..1
    <3>2. c \div h = 0
      <4>1. c = (h * 0) + c /\ c \in 0..(h - 1) /\ 0 \in Int /\ c \in Int
        BY <1>1
      <4>2. QED
        BY <1>1, <4>1, DivModUnique
    <3>3. QED
      BY <1>1, <3>2 DEF Val
  <2>2. QED
    BY <2>1
<1>5. /\ (2 * 0) - ((2 * Val(f, 0)) * den) = 0
      /\ (2 * 0) - ((2 * Val(f, 0 + 1)) * den) < 0
  <2>1. (2 * 0) - ((2 * 0) * den) = 0 /\ (2 * 0) - ((2 * 1) * den) < 0 /\ 0 + 1 = 1
    OBVIOUS
  <2>2. QED
    BY <1>4, <2>1
<1>6. IsLower(f, 0, den, 0)
  BY <1>5 DEF IsLower
<1>7. RoundedRatio(f, sign, 0, den, mode) = RoundedFrom(f, sign, 0, den, mode, 0)
  <2>1. 0 \in Nat /\ 0 \in 0..(Inf(f, 0) - 1) /\ Inf(f, 0) \in Nat
    BY <1>3
  <2>2. QED
    BY <1>1, <1>6, <2>1, RatioIs
<1>8. 0 # Inf(f, 0) - 1
  BY <1>3
<1>9. RoundedFrom(f, sign, 0, den, mode, 0) = Ret(sign * signBit(f) + 0 + Bit(FALSE), {})
  BY <1>5, <1>8 DEF RoundedFrom, GoesUp
<1>10. Zero(f, sign) = sign * signBit(f) + 0 + 0
  <2>1. 0 * hidden(f) = 0
    BY <1>1
  <2>2. QED
    BY <2>1 DEF Zero, packToUI
<1>11. QED
  BY <1>7, <1>9, <1>10 DEF Bit

-----------------------------------------------------------------------------
(* Products.                                                               *)

\* The number of least magnitudes that make 1.
LEMMA UnityIs ==
  ASSUME NEW f, IsFormat(f), NEW h \in Nat, NEW u, NEW b \in Nat, Sizes(f, h, u, b)
  PROVE  \E B \in Nat \ {0} : Unity(f) = h * B /\ 2^bias(f) = 2 * B /\ bias(f) \in Nat /\ bias(f) >= 1
<1>1. PICK k \in Nat : bias(f) = k + 1 /\ bias(f) - 1 = k
  <2>1. bias(f) - 1 \in Nat /\ bias(f) = (bias(f) - 1) + 1
    BY DEF Sizes
  <2>2. QED
    BY <2>1
<1>2. PICK F \in Nat : F = f.F /\ 2^F = h
  BY DEF IsFormat, Sizes
<1>3. 2^(F + k) = 2^F * 2^k /\ 2^k \in Nat \ {0} /\ 2^(k + 1) = 2 * 2^k
  BY PowerSum, PowerPositive, PowerNext
<1>4. F + bias(f) - 1 = F + k
  BY <1>1
<1>5. QED
  BY <1>1, <1>2, <1>3, <1>4 DEF Unity

\* What is rounded of the product of two significands, with their leading bits in their places.
JammedProduct(f, sA, sB) == JamOf((sA * 2^f.G) * (sB * 2^(f.G + 1)), 2^word(f))

\* The jammed product has its leading bit in its place or one below.
LEMMA ProductRange ==
  ASSUME NEW h \in Nat \ {0}, NEW u \in Nat \ {0}, u % 4 = 0, NEW sA \in h..((2 * h) - 1), NEW sB \in h..((2 * h) - 1),
         NEW g \in Nat, g = 2 * u, NEW W \in Nat \ {0}, W = 4 * (h * g), NEW p \in Nat, p = (sA * g) * (sB * (2 * g))
  PROVE  h * u <= JamOf(p, W) /\ JamOf(p, W) < 2 * (h * g)
<1>1. PICK v \in Nat : u = 2 * v
  <2>1. u \div 2 \in Nat /\ u = 2 * (u \div 2)
    OBVIOUS
  <2>2. QED
    BY <2>1
<1>2. PICK H \in Nat : H = h * h
  OBVIOUS
<1>3. PICK q \in Nat : q = sA * sB /\ H <= q /\ q < 4 * H
  <2>1. h * h <= h * sB /\ sB * h <= sB * sA
    BY ProductMonotonic
  <2>2. PICK a \in Nat, q \in Nat : a = h * sB /\ q = sA * sB
    OBVIOUS
  <2>3. sB * h = a /\ sB * sA = q
    BY <2>2
  <2>4. sB * (sA + 1) <= sB * (2 * h) /\ (2 * h) * (sB + 1) <= (2 * h) * (2 * h)
    BY ProductMonotonic
  <2>5. sB * (sA + 1) = q + sB /\ sB * (2 * h) = 2 * a /\ (2 * h) * (sB + 1) = (2 * a) + (2 * h) /\ (2 * h) * (2 * h) = 4 * H
    BY <1>2, <2>2
  <2>6. QED
    BY <1>2, <2>1, <2>2, <2>3, <2>4, <2>5
<1>4. PICK G \in Nat \ {0} : G = g * g
  <2>1. g * g \in Nat \ {0}
    OBVIOUS
  <2>2. QED
    BY <2>1
<1>5. p = (2 * G) * q
  <2>1. (sA * g) * (sB * (2 * g)) = (2 * (g * g)) * (sA * sB)
    OBVIOUS
  <2>2. QED
    BY <1>3, <1>4, <2>1
<1>6. (2 * G) * H <= p /\ p < (2 * G) * (4 * H)
  <2>1. (2 * G) * H <= (2 * G) * q /\ (2 * G) * (q + 1) <= (2 * G) * (4 * H)
    BY <1>3, ProductMonotonic
  <2>2. (2 * G) * (q + 1) = ((2 * G) * q) + (2 * G)
    OBVIOUS
  <2>3. PICK x \in Nat : x = (2 * G) * q
    OBVIOUS
  <2>4. QED
    BY <1>5, <2>1, <2>2, <2>3
<1>7. PICK y \in Nat, Y \in Nat : y = h * u /\ Y = 2 * (h * g) /\ y % 2 = 0 /\ Y % 2 = 0
  <2>1. PICK z \in Nat, x \in Nat : z = h * v /\ x = h * g
    OBVIOUS
  <2>2. h * u = 2 * z
    BY <1>1, <2>1
  <2>3. 2 * z \in Nat /\ (2 * z) % 2 = 0 /\ 2 * x \in Nat /\ (2 * x) % 2 = 0 /\ 2 * x = 2 * (h * g)
    BY <2>1
  <2>4. QED
    BY <2>2, <2>3
<1>8. y * W = (2 * G) * H /\ Y * W = (2 * G) * (4 * H)
  <2>1. (h * u) * (4 * (h * (2 * u))) = (2 * ((2 * u) * (2 * u))) * (h * h)
    OBVIOUS
  <2>2. (2 * (h * g)) * (4 * (h * g)) = (2 * (g * g)) * (4 * (h * h))
    OBVIOUS
  <2>3. QED
    BY <1>2, <1>4, <1>7, <2>1, <2>2
<1>9. PICK j \in Nat : j = JamOf(p, W) /\ ~(j < y) /\ j < Y
  <2>1. JamOf(p, W) \in Nat /\ \A T \in Nat : T % 2 = 0 => (p < T * W <=> JamOf(p, W) < T) /\ (p = T * W <=> JamOf(p, W) = T)
    BY JamCompares
  <2>2. ~(p < y * W) /\ p < Y * W
    <3>1. PICK x \in Nat, z \in Nat : x = (2 * G) * H /\ z = (2 * G) * (4 * H)
      OBVIOUS
    <3>2. QED
      BY <1>6, <1>8, <3>1
  <2>3. QED
    BY <1>7, <2>1, <2>2
<1>10. QED
  BY <1>7, <1>9

\* The product of two magnitudes, in units of the product of their significands.
LEMMA ProductUnits ==
  ASSUME NEW f, IsFormat(f), NEW h \in Nat \ {0}, NEW u \in Nat \ {0}, NEW b \in Nat, Sizes(f, h, u, b),
         NEW mA \in Nat, NEW sA \in Nat, NEW kA \in Int, Scales(mA, sA, kA - 1),
         NEW mB \in Nat, NEW sB \in Nat, NEW kB \in Int, Scales(mB, sB, kB - 1),
         NEW W \in Nat, W = 2^word(f), NEW p \in Nat, p = (sA * 2^f.G) * (sB * 2^(f.G + 1))
  PROVE  InUnits(f, mA * mB, Unity(f), p, W, kA + kB - bias(f))
<1>1. PICK g \in Nat \ {0} : g = 2^f.G /\ W = 4 * (h * g) /\ 2^(f.G + 1) = 2 * g
  <2>1. 2^f.G = 2 * u /\ W = 4 * (h * (2 * u))
    BY DEF Sizes
  <2>2. 2^(f.G + 1) = 2 * 2^f.G
    BY PowerNext DEF IsFormat
  <2>3. PICK g \in Nat \ {0} : g = 2 * u
    OBVIOUS
  <2>4. QED
    BY <2>1, <2>2, <2>3
<1>2. PICK B \in Nat \ {0} : Unity(f) = h * B /\ 2^bias(f) = 2 * B /\ bias(f) \in Nat
  BY UnityIs
<1>3. PICK U \in Nat : U = Unity(f) /\ U = h * B
  BY <1>2
<1>4. Scales(mA * mB, sA * sB, (kA - 1) + (kB - 1))
  <2>1. kA - 1 \in Int /\ kB - 1 \in Int
    OBVIOUS
  <2>2. QED
    BY <2>1, ScalesProduct
<1>5. Scales(W * g, (2 * (g * g)) * U, 2 - bias(f))
  <2>1. 2^2 = 4
    <3>1. 2^(1 + 1) = 2 * 2^1 /\ 1 + 1 = 2
      BY PowerNext
    <3>2. QED
      BY <3>1, PowerOne
  <2>2. (W * g) * (2 * B) = ((2 * (g * g)) * U) * 4
    <3>1. ((4 * (h * g)) * g) * (2 * B) = ((2 * (g * g)) * (h * B)) * 4
      OBVIOUS
    <3>2. QED
      BY <1>1, <1>3, <3>1
  <2>3. (W * g) * 2^bias(f) = ((2 * (g * g)) * U) * 2^2
    BY <1>2, <2>1, <2>2
  <2>4. QED
    BY <1>2, <2>3 DEF Scales
<1>6. Scales((mA * mB) * (W * g), (sA * sB) * ((2 * (g * g)) * U), ((kA - 1) + (kB - 1)) + (2 - bias(f)))
  <2>1. mA * mB \in Nat /\ sA * sB \in Nat /\ W * g \in Nat /\ (2 * (g * g)) * U \in Nat
    OBVIOUS
  <2>2. (kA - 1) + (kB - 1) \in Int /\ 2 - bias(f) \in Int
    BY <1>2
  <2>3. QED
    BY <1>4, <1>5, <2>1, <2>2, ScalesProduct
<1>7. p * U = (sA * sB) * ((2 * (g * g)) * U)
  <2>1. ((sA * g) * (sB * (2 * g))) * U = (sA * sB) * ((2 * (g * g)) * U)
    OBVIOUS
  <2>2. p = (sA * g) * (sB * (2 * g))
    BY <1>1
  <2>3. QED
    BY <2>1, <2>2
<1>8. ((kA - 1) + (kB - 1)) + (2 - bias(f)) = kA + kB - bias(f)
  BY <1>2
<1>9. QED
  BY <1>1, <1>3, <1>6, <1>7, <1>8 DEF InUnits

\* The product of two finite operands, rounded once.
LEMMA ProductRounds ==
  ASSUME NEW f, IsFormat(f), NEW h \in Nat \ {0}, NEW u \in Nat \ {0}, NEW b \in Nat, Sizes(f, h, u, b),
         NEW sign, NEW mode, IsMode(sign, mode), NEW x, NEW y,
         NEW sA \in h..((2 * h) - 1), NEW kA \in Int, IsOperand(f, x, h, kA, sA),
         NEW sB \in h..((2 * h) - 1), NEW kB \in Int, IsOperand(f, y, h, kB, sB)
  PROVE  RoundSum(f, sign, kA + kB - bias(f), JammedProduct(f, sA, sB), mode)
           = RoundedRatio(f, sign, Mag(f, x) * Mag(f, y), Unity(f), mode)
<1>1. PICK g \in Nat \ {0} : g = 2 * u /\ g = 2^f.G /\ 2^(f.G + 1) = 2 * g
  <2>1. 2^f.G = 2 * u
    BY DEF Sizes
  <2>2. 2^(f.G + 1) = 2 * 2^f.G
    BY PowerNext DEF IsFormat
  <2>3. PICK g \in Nat \ {0} : g = 2 * u
    OBVIOUS
  <2>4. QED
    BY <2>1, <2>2, <2>3
<1>2. PICK W \in Nat \ {0} : W = 2^word(f) /\ W = 4 * (h * g)
  <2>1. 2^word(f) = 4 * (h * (2 * u))
    BY DEF Sizes
  <2>2. 4 * (h * g) \in Nat \ {0}
    OBVIOUS
  <2>3. QED
    BY <1>1, <2>1, <2>2
<1>3. PICK p \in Nat : Times(sA * g, sB * (2 * g), p)
  BY DEF Times
<1>4. PICK v \in Nat : IsGuard(f, v) /\ v % 2 = 0 /\ u % 4 = 0
  <2>1. 2^(f.G - 1) = u /\ u % 4 = 0
    BY DEF Sizes
  <2>2. u \div 2 \in Nat /\ u = 2 * (u \div 2) /\ (u \div 2) % 2 = 0
    BY <2>1
  <2>3. QED
    BY <2>1, <2>2 DEF IsGuard
<1>5. PICK s \in Nat : s = JamOf(p, W) /\ Stands(s, p, W, v)
  BY <1>4, JamStands
<1>6. s = JammedProduct(f, sA, sB)
  BY <1>1, <1>2, <1>3, <1>5 DEF JammedProduct, Times
<1>7. IsNear(f, s)
  <2>1. h * u <= s /\ s < 2 * (h * g)
    BY <1>1, <1>2, <1>3, <1>4, <1>5, ProductRange DEF Times
  <2>2. 2^(f.F + f.G - 1) = h * u /\ top(f) = 2 * (h * (2 * u))
    BY DEF Sizes
  <2>3. QED
    BY <1>1, <2>1, <2>2 DEF IsNear
<1>8. PICK mA \in Nat, mB \in Nat : mA = Mag(f, x) /\ mB = Mag(f, y) /\ Scales(mA, sA, kA - 1) /\ Scales(mB, sB, kB - 1)
  BY DEF IsOperand
<1>9. InUnits(f, mA * mB, Unity(f), p, W, kA + kB - bias(f))
  <2>1. p = (sA * 2^f.G) * (sB * 2^(f.G + 1)) /\ sA \in Nat /\ sB \in Nat
    BY <1>1, <1>3 DEF Times
  <2>2. QED
    BY <1>2, <1>8, <2>1, ProductUnits
<1>10. PICK U \in Nat \ {0}, m \in Nat, k \in Int : U = Unity(f) /\ m = mA * mB /\ k = kA + kB - bias(f)
  <2>1. PICK B \in Nat \ {0} : Unity(f) = h * B /\ bias(f) \in Nat
    BY UnityIs
  <2>2. h * B \in Nat \ {0} /\ mA * mB \in Nat /\ kA + kB - bias(f) \in Int
    BY <2>1
  <2>3. QED
    BY <2>1, <2>2
<1>11. RoundSum(f, sign, k, s, mode) = RoundedRatio(f, sign, m, U, mode)
  <2>1. InUnits(f, m, U, p, W, k)
    BY <1>9, <1>10
  <2>2. QED
    BY <1>4, <1>5, <1>7, <2>1, RoundSumIs
<1>12. QED
  BY <1>6, <1>8, <1>10, <1>11

-----------------------------------------------------------------------------
(* The operands of f32_mul and f64_mul.                                    *)

\* The kinds of a pattern: a NaN, an infinity or a zero, and the rest.
Kinds(f, a) ==
  /\ expUI(f, a) = expMax(f) <=> isNaNUI(f, a) \/ isInf(f, a)
  /\ ~(isNaNUI(f, a) /\ isInf(f, a))
  /\ isZero(f, a) => ~isNaNUI(f, a) /\ ~isInf(f, a) /\ expUI(f, a) # expMax(f)

\* Every pattern is of those kinds.
LEMMA PatternKinds ==
  ASSUME NEW f, FormatLaws(f), NEW a \in Patterns(f)
  PROVE  Kinds(f, a) /\ (isZero(f, a) => Mag(f, a) = 0)
<1>1. PICK H \in Nat \ {0, 1}, P \in Nat \ (0..2), S \in Nat : H = hidden(f) /\ P = 2^f.E /\ S = signBit(f)
  BY DEF FormatLaws
<1>2. PICK s \in 0..1, e \in 0..(P - 1), x \in 0..(H - 1), m \in Nat :
        /\ signUI(f, a) = s /\ expUI(f, a) = e /\ fracUI(f, a) = x /\ a % S = m
        /\ m = (H * e) + x
  BY <1>1, Fields
<1>3. PICK inf \in Int : inf = Inf(f, 0) /\ inf = (H * (P - 1)) + 0
  <2>1. Inf(f, 0) = ((0 * S) + ((P - 1) * H)) + 0
    BY <1>1 DEF Inf, packToUI, expMax
  <2>2. QED
    BY <1>1, <2>1
<1>4. m = inf <=> e = P - 1 /\ x = 0
  <2>1. m \div H = e /\ m % H = x
    <3>1. m \in Int /\ e \in Int
      OBVIOUS
    <3>2. QED
      BY <1>2, <3>1, DivModUnique
  <2>2. inf \div H = P - 1 /\ inf % H = 0
    <3>1. P - 1 \in Int /\ 0 \in 0..(H - 1)
      OBVIOUS
    <3>2. QED
      BY <1>3, <3>1, DivModUnique
  <2>3. QED
    BY <1>2, <1>3, <2>1, <2>2
<1>5. m = 0 <=> e = 0 /\ x = 0
  <2>1. e # 0 => H * 1 <= H * e
    BY ProductMonotonic
  <2>2. PICK y \in Nat : y = H * e /\ m = y + x
    BY <1>2
  <2>3. e = 0 => y = 0
    BY <2>2
  <2>4. QED
    BY <2>1, <2>2, <2>3
<1>6. /\ isNaNUI(f, a) <=> e = P - 1 /\ x # 0
      /\ isInf(f, a) <=> e = P - 1 /\ x = 0
      /\ isZero(f, a) <=> e = 0 /\ x = 0
      /\ expMax(f) = P - 1 /\ expUI(f, a) = e /\ P - 1 # 0
  BY <1>1, <1>2, <1>3, <1>4, <1>5 DEF isNaNUI, isInf, isZero, expMax
<1>7. isZero(f, a) => Mag(f, a) = 0
  <2>1. 0 \div H = 0
    <3>1. 0 = (H * 0) + 0 /\ 0 \in Int /\ 0 \in 0..(H - 1)
      OBVIOUS
    <3>2. QED
      BY <3>1, DivModUnique
  <2>2. QED
    BY <1>1, <1>2, <2>1 DEF isZero, Mag, Val
<1>8. QED
  BY <1>6, <1>7 DEF Kinds

\* The NaN that is returned for two operands is the one that is promised.
LEMMA NaNReturned ==
  ASSUME NEW f, NEW a, NEW b
  PROVE  softfloat_propagateNaNF32UI(f, a, b) = NaNs(f, {a, b})
BY DEF softfloat_propagateNaNF32UI, NaNs, f32_isSignalingNaN

\* Signs are single bits.
LEMMA SignIs ==
  ASSUME NEW f, FormatLaws(f), NEW a \in Patterns(f), NEW b \in Patterns(f)
  PROVE  signUI(f, a) \in 0..1 /\ signUI(f, b) \in 0..1 /\ SignXor(f, a, b) \in 0..1
<1>1. signUI(f, a) \in 0..1 /\ signUI(f, b) \in 0..1
  BY Fields
<1>2. QED
  BY <1>1 DEF SignXor

\* Which operands a product is settled for without a multiplication, and what it is for the rest.
LEMMA ProductArms ==
  ASSUME NEW f, FormatLaws(f), NEW a, NEW b, Kinds(f, a), Kinds(f, b), NEW z, NEW mode
  PROVE  LET sign == SignXor(f, a, b)
             exp  == Normal(f, a).exp + Normal(f, b).exp - bias(f)
         IN Product(f, a, b, z, mode) =
              IF isNaNUI(f, a) \/ isNaNUI(f, b) THEN softfloat_propagateNaNF32UI(f, a, b)
              ELSE IF isInf(f, a) \/ isInf(f, b)
              THEN IF isZero(f, a) \/ isZero(f, b) THEN Invalid(f) ELSE Ret(Inf(f, sign), {})
              ELSE IF isZero(f, a) \/ isZero(f, b) THEN Ret(Zero(f, sign), {})
              ELSE RoundSum(f, sign, exp, z, mode)
<1> DEFINE sign == SignXor(f, a, b)
           exp  == Normal(f, a).exp + Normal(f, b).exp - bias(f)
           nan  == isNaNUI(f, a) \/ isNaNUI(f, b)
           bad  == (isInf(f, a) /\ isZero(f, b)) \/ (isZero(f, a) /\ isInf(f, b))
           inf  == \/ isInf(f, a) /\ ~isZero(f, b) /\ ~isNaNUI(f, b)
                   \/ isInf(f, b) /\ ~isZero(f, a) /\ ~isNaNUI(f, a)
           zero == \/ isZero(f, a) /\ expUI(f, b) # expMax(f)
                   \/ isZero(f, b) /\ expUI(f, a) # expMax(f)
<1>1. Product(f, a, b, z, mode) =
        CASE nan -> softfloat_propagateNaNF32UI(f, a, b)
          [] bad -> Invalid(f)
          [] inf -> Ret(Inf(f, sign), {})
          [] zero -> Ret(Zero(f, sign), {})
          [] OTHER -> RoundSum(f, sign, exp, z, mode)
  BY Zenon DEF Product, SignXor
<1>2. /\ ~(nan /\ bad) /\ ~(nan /\ inf) /\ ~(nan /\ zero) /\ ~(bad /\ inf) /\ ~(bad /\ zero) /\ ~(inf /\ zero)
      /\ ~nan => (bad <=> (isInf(f, a) \/ isInf(f, b)) /\ (isZero(f, a) \/ isZero(f, b)))
      /\ ~nan => (inf <=> (isInf(f, a) \/ isInf(f, b)) /\ ~(isZero(f, a) \/ isZero(f, b)))
      /\ ~nan => (zero <=> ~(isInf(f, a) \/ isInf(f, b)) /\ (isZero(f, a) \/ isZero(f, b)))
  BY DEF Kinds
<1> HIDE DEF bad, inf, zero, sign, exp
<1>3. QED
  BY <1>1, <1>2 DEF sign, exp

-----------------------------------------------------------------------------
(* f32_mul and f64_mul.                                                    *)

\* A word with an even number of bits.
LEMMA WordIs ==
  ASSUME NEW w \in Nat, w % 2 = 0, w >= 2
  PROVE  WordLaws(w)
<1>1. PICK k \in Nat : w = k + k /\ w \div 2 = k /\ k >= 1
  <2>1. w \div 2 \in Nat /\ w = (w \div 2) + (w \div 2) /\ w \div 2 >= 1
    OBVIOUS
  <2>2. QED
    BY <2>1
<1>2. 2^(k + k) = 2^k * 2^k /\ 2^k \in Nat
  BY PowerSum
<1>3. 2^k >= 2
  <2>1. 2^1 <= 2^k
    BY <1>1, PowerLess
  <2>2. QED
    BY <2>1, PowerOne
<1>4. PICK j \in Nat : w = j + 1 /\ w - 1 = j
  <2>1. w - 1 \in Nat /\ w = (w - 1) + 1
    OBVIOUS
  <2>2. QED
    BY <2>1
<1>5. 2^(j + 1) = 2 * 2^j /\ 2^j \in Nat \ {0}
  BY PowerNext, PowerPositive
<1>6. QED
  BY <1>1, <1>2, <1>3, <1>4, <1>5 DEF WordLaws

\* The value of a pair of words, jammed into the upper one.
LEMMA PairJammed ==
  ASSUME NEW w, WordLaws(w), NEW p, IsPair(w, p), NEW v \in Nat, Value(w, p) = v
  PROVE  Jammed(p.hi, p.lo # 0) = JamOf(v, 2^w)
<1>1. PICK W \in Nat \ {0} : W = 2^w
  BY WordSizes
<1>2. PICK hi \in 0..(W - 1), lo \in 0..(W - 1) : p = Pair(hi, lo)
  BY <1>1 DEF IsPair
<1>3. p.hi = hi /\ p.lo = lo /\ v = (W * hi) + lo
  BY <1>1, <1>2 DEF Pair, Value
<1>4. v \div W = hi /\ v % W = lo
  <2>1. v \in Int /\ hi \in Int
    OBVIOUS
  <2>2. QED
    BY <1>3, <2>1, DivModUnique
<1>5. QED
  BY <1>1, <1>3, <1>4 DEF JamOf

\* The words that are multiplied.
LEMMA FactorsFit ==
  ASSUME NEW f, IsFormat(f), NEW h \in Nat \ {0}, NEW u \in Nat \ {0}, NEW b \in Nat, Sizes(f, h, u, b),
         NEW sA \in h..((2 * h) - 1), NEW sB \in h..((2 * h) - 1)
  PROVE  sA * 2^f.G \in 0..(2^word(f) - 1) /\ sB * 2^(f.G + 1) \in 0..(2^word(f) - 1)
<1>1. PICK g \in Nat \ {0} : g = 2^f.G /\ 2^(f.G + 1) = 2 * g /\ 2^word(f) = 4 * (h * g)
  <2>1. 2^f.G = 2 * u /\ 2^word(f) = 4 * (h * (2 * u))
    BY DEF Sizes
  <2>2. 2^(f.G + 1) = 2 * 2^f.G
    BY PowerNext DEF IsFormat
  <2>3. PICK g \in Nat \ {0} : g = 2 * u
    OBVIOUS
  <2>4. QED
    BY <2>1, <2>2, <2>3
<1>2. g * sA <= g * ((2 * h) - 1) /\ g * sB <= g * ((2 * h) - 1)
  BY ProductMonotonic
<1>3. PICK x \in Nat, y \in Nat, z \in Nat \ {0} : x = g * sA /\ y = g * sB /\ z = h * g
  <2>1. g * sA \in Nat /\ g * sB \in Nat /\ h * g \in Nat \ {0}
    OBVIOUS
  <2>2. QED
    BY <2>1
<1>4. g * ((2 * h) - 1) = (2 * z) - g
  BY <1>3
<1>5. sA * g = x /\ sB * (2 * g) = 2 * y
  BY <1>3
<1>6. x \in 0..((4 * z) - 1) /\ 2 * y \in 0..((4 * z) - 1)
  BY <1>2, <1>3, <1>4
<1>7. QED
  BY <1>1, <1>3, <1>5, <1>6

\* The product of two finite operands that are not zero is rounded once.
LEMMA FiniteProducts ==
  ASSUME NEW f, IsFormat(f), IsEven(f), NEW sign, NEW mode, IsMode(sign, mode),
         NEW a \in Patterns(f), NEW b \in Patterns(f), ~isZero(f, a), ~isZero(f, b)
  PROVE  LET exp == Normal(f, a).exp + Normal(f, b).exp - bias(f)
             x   == Normal(f, a).sig * 2^f.G
             y   == Normal(f, b).sig * 2^(f.G + 1)
             p   == softfloat_mul64To128(word(f), x, y)
             r   == RoundedRatio(f, sign, Mag(f, a) * Mag(f, b), Unity(f), mode)
         IN /\ RoundSum(f, sign, exp, softfloat_shortShift64RightJam(x * y, word(f)), mode) = r
            /\ RoundSum(f, sign, exp, Jammed(p.hi, p.lo # 0), mode) = r
<1>1. PICK h \in Nat \ {0}, u \in Nat \ {0}, e \in Nat : Sizes(f, h, u, e)
  <2>1. PICK h \in Nat, u \in Nat, e \in Nat : Sizes(f, h, u, e)
    BY FormatSizes
  <2>2. h # 0 /\ u # 0
    BY <2>1 DEF Sizes
  <2>3. QED
    BY <2>1, <2>2
<1>2. PICK kA \in Int, sA \in h..((2 * h) - 1) : IsOperand(f, a, h, kA, sA)
  BY <1>1, NormalIs
<1>3. PICK kB \in Int, sB \in h..((2 * h) - 1) : IsOperand(f, b, h, kB, sB)
  BY <1>1, NormalIs
<1>4. Normal(f, a).exp = kA /\ Normal(f, a).sig = sA /\ Normal(f, b).exp = kB /\ Normal(f, b).sig = sB
  BY <1>2, <1>3 DEF IsOperand
<1>5. RoundSum(f, sign, kA + kB - bias(f), JammedProduct(f, sA, sB), mode)
        = RoundedRatio(f, sign, Mag(f, a) * Mag(f, b), Unity(f), mode)
  BY <1>1, <1>2, <1>3, ProductRounds
<1>6. WordLaws(word(f))
  <2>1. word(f) \in Nat /\ word(f) >= 2
    BY DEF word, IsFormat
  <2>2. QED
    BY <2>1, WordIs DEF IsEven
<1> DEFINE x == sA * 2^f.G
           y == sB * 2^(f.G + 1)
           p == softfloat_mul64To128(word(f), x, y)
<1>7. x \in 0..(2^word(f) - 1) /\ y \in 0..(2^word(f) - 1)
  BY <1>1, FactorsFit
<1>8. IsPair(word(f), p) /\ Value(word(f), p) = x * y
  <2> HIDE DEF x, y
  <2>1. QED
    BY <1>6, <1>7, Mul64To128
<1>9. Jammed(p.hi, p.lo # 0) = JamOf(x * y, 2^word(f))
  <2>1. x * y \in Nat
    <3> HIDE DEF x, y
    <3>1. x \in Nat /\ y \in Nat
      <4>1. 2^word(f) \in Nat
        BY <1>6, WordSizes
      <4>2. QED
        BY <1>7, <4>1
    <3>2. QED
      BY <3>1
  <2> HIDE DEF p, x, y
  <2>2. QED
    BY <1>6, <1>8, <2>1, PairJammed
<1>10. softfloat_shortShift64RightJam(x * y, word(f)) = JamOf(x * y, 2^word(f))
  BY Zenon DEF softfloat_shortShift64RightJam, JamOf
<1>11. JammedProduct(f, sA, sB) = JamOf(x * y, 2^word(f))
  BY Zenon DEF JammedProduct
<1> HIDE DEF p, x, y
<1>12. /\ RoundSum(f, sign, kA + kB - bias(f), softfloat_shortShift64RightJam(x * y, word(f)), mode)
            = RoundedRatio(f, sign, Mag(f, a) * Mag(f, b), Unity(f), mode)
       /\ RoundSum(f, sign, kA + kB - bias(f), Jammed(p.hi, p.lo # 0), mode)
            = RoundedRatio(f, sign, Mag(f, a) * Mag(f, b), Unity(f), mode)
  BY <1>5, <1>9, <1>10, <1>11, Zenon
<1>13. QED
  BY <1>4, <1>12, Zenon DEF p, x, y

\* Both multiplications return what is promised, for all operands.
THEOREM ProductsRound ==
  ASSUME NEW f, IsFormat(f), IsEven(f), NEW mode \in RoundingModes,
         NEW a \in Patterns(f), NEW b \in Patterns(f)
  PROVE  f32_mul(f, a, b, mode) = MulSpec(f, a, b, mode) /\ f64_mul(f, a, b, mode) = MulSpec(f, a, b, mode)
<1> FormatLaws(f)
  BY FormatLaw
<1> DEFINE sign == SignXor(f, a, b)
           exp  == Normal(f, a).exp + Normal(f, b).exp - bias(f)
           x    == Normal(f, a).sig * 2^f.G
           y    == Normal(f, b).sig * 2^(f.G + 1)
           p    == softfloat_mul64To128(word(f), x, y)
           r    == RoundedRatio(f, sign, Mag(f, a) * Mag(f, b), Unity(f), mode)
           zS   == softfloat_shortShift64RightJam(x * y, word(f))
           zD   == Jammed(p.hi, p.lo # 0)
<1>1. IsMode(sign, mode)
  BY SignIs DEF IsMode
<1>2. ~isZero(f, a) /\ ~isZero(f, b) => RoundSum(f, sign, exp, zS, mode) = r /\ RoundSum(f, sign, exp, zD, mode) = r
  <2>1. SUFFICES ASSUME ~isZero(f, a), ~isZero(f, b)
                 PROVE  RoundSum(f, sign, exp, zS, mode) = r /\ RoundSum(f, sign, exp, zD, mode) = r
    OBVIOUS
  <2> HIDE DEF sign
  <2>2. QED
    BY <1>1, <2>1, FiniteProducts
<1>3. Kinds(f, a) /\ Kinds(f, b) /\ (isZero(f, a) => Mag(f, a) = 0) /\ (isZero(f, b) => Mag(f, b) = 0)
  BY PatternKinds
<1>4. (isZero(f, a) \/ isZero(f, b)) /\ ~(isNaNUI(f, a) \/ isNaNUI(f, b)) /\ ~(isInf(f, a) \/ isInf(f, b))
        => r = Ret(Zero(f, sign), {})
  <2>1. SUFFICES ASSUME isZero(f, a) \/ isZero(f, b) PROVE r = Ret(Zero(f, sign), {})
    OBVIOUS
  <2>2. PICK mA \in Nat, mB \in Nat : mA = Mag(f, a) /\ mB = Mag(f, b)
    <3>1. \A c \in Patterns(f) : Mag(f, c) \in Nat
      <4>1. TAKE c \in Patterns(f)
      <4>2. PICK h \in Nat \ {0} : hidden(f) = h
        BY DEF FormatLaws
      <4>3. c % signBit(f) \in Nat
        BY Fields
      <4>4. QED
        BY <4>2, <4>3, ValNext DEF Mag
    <3>2. QED
      BY <3>1
  <2>3. Mag(f, a) * Mag(f, b) = 0
    BY <1>3, <2>1, <2>2
  <2>4. Unity(f) \in Nat \ {0}
    <3>1. PICK h \in Nat, u \in Nat, e \in Nat : Sizes(f, h, u, e)
      BY FormatSizes
    <3>2. h # 0
      BY <3>1 DEF Sizes
    <3>3. PICK B \in Nat \ {0} : Unity(f) = h * B
      BY <3>1, UnityIs
    <3>4. h * B \in Nat \ {0}
      BY <3>2
    <3>5. QED
      BY <3>3, <3>4
  <2> HIDE DEF sign
  <2>5. RoundedRatio(f, sign, 0, Unity(f), mode) = Ret(Zero(f, sign), {})
    BY <1>1, <2>4, RoundZero
  <2>6. QED
    BY <2>3, <2>5
<1>5. softfloat_propagateNaNF32UI(f, a, b) = NaNs(f, {a, b})
  BY NaNReturned
<1>6. MulSpec(f, a, b, mode) =
        IF isNaNUI(f, a) \/ isNaNUI(f, b) THEN NaNs(f, {a, b})
        ELSE IF isInf(f, a) \/ isInf(f, b)
        THEN IF isZero(f, a) \/ isZero(f, b) THEN Invalid(f) ELSE Ret(Inf(f, sign), {})
        ELSE r
  BY Zenon DEF MulSpec
<1>7. f32_mul(f, a, b, mode) = Product(f, a, b, zS, mode) /\ f64_mul(f, a, b, mode) = Product(f, a, b, zD, mode)
  BY Zenon DEF f32_mul, f64_mul
<1> HIDE DEF r, zS, zD, x, y, p
<1>8. \A z \in {zS, zD} : Product(f, a, b, z, mode) =
        IF isNaNUI(f, a) \/ isNaNUI(f, b) THEN softfloat_propagateNaNF32UI(f, a, b)
        ELSE IF isInf(f, a) \/ isInf(f, b)
        THEN IF isZero(f, a) \/ isZero(f, b) THEN Invalid(f) ELSE Ret(Inf(f, sign), {})
        ELSE IF isZero(f, a) \/ isZero(f, b) THEN Ret(Zero(f, sign), {})
        ELSE RoundSum(f, sign, exp, z, mode)
  BY <1>3, ProductArms, Zenon
<1> HIDE DEF sign, exp
<1>9. QED
  BY <1>2, <1>4, <1>5, <1>6, <1>7, <1>8

-----------------------------------------------------------------------------
(* Exact results, and what jamming does to sums and differences.           *)

\* A finite value rounds to itself.
LEMMA RoundExact ==
  ASSUME NEW f, NEW h \in Nat \ {0}, hidden(f) = h, NEW sign, NEW mode, NEW den \in Nat \ {0},
         Inf(f, 0) \in Nat, NEW m \in 0..(Inf(f, 0) - 1), NEW num \in Nat, Times(Val(f, m), den, num), sign * signBit(f) \in Int
  PROVE  RoundedRatio(f, sign, num, den, mode) = Ret((sign * signBit(f)) + m, {})
<1>1. PICK V \in Nat, V1 \in Nat : V = Val(f, m) /\ V1 = Val(f, m + 1) /\ V < V1 /\ m \in Nat
  <2>1. m \in Nat
    OBVIOUS
  <2>2. QED
    BY <2>1, ValNext
<1>2. (2 * num) - ((2 * V) * den) = 0 /\ (2 * num) - ((2 * V1) * den) < 0
  <2>1. num = V * den
    BY <1>1 DEF Times
  <2>2. (2 * V) * den = 2 * (V * den) /\ (2 * V1) * den = 2 * (V1 * den)
    BY <1>1
  <2>3. den * (V + 1) <= den * V1
    BY <1>1, ProductMonotonic
  <2>4. PICK x \in Nat, y \in Nat : x = V * den /\ y = V1 * den
    BY <1>1
  <2>5. x + den <= y
    BY <2>3, <2>4
  <2>6. QED
    BY <2>1, <2>2, <2>4, <2>5
<1>3. IsLower(f, num, den, m)
  BY <1>1, <1>2 DEF IsLower
<1>4. RoundedRatio(f, sign, num, den, mode) = RoundedFrom(f, sign, num, den, mode, m)
  BY <1>3, RatioIs
<1>5. (2 * num) - ((2 * Val(f, m)) * den) = 0 /\ ~((2 * num) - ((2 * Val(f, m + 1)) * den) >= 0)
  <2>1. (2 * V1) * den \in Int
    OBVIOUS
  <2>2. QED
    BY <1>1, <1>2, <2>1
<1>6. RoundedFrom(f, sign, num, den, mode, m) = Ret(sign * signBit(f) + m + Bit(FALSE), {})
  BY <1>5 DEF RoundedFrom, GoesUp
<1>7. sign * signBit(f) + m + 0 = (sign * signBit(f)) + m
  BY <1>1
<1>8. QED
  BY <1>4, <1>6, <1>7 DEF Bit

\* An even number added to a jammed quotient, and one that it is taken from.
LEMMA JamPlus ==
  ASSUME NEW n \in Nat, NEW d \in Nat \ {0}, NEW c \in Nat, c % 2 = 0, NEW y \in Nat, Times(c, d, y)
  PROVE  JamOf(n + y, d) = JamOf(n, d) + c
<1>1. PICK q \in Nat, r \in 0..(d - 1) : q = n \div d /\ r = n % d /\ n = (d * q) + r
  BY DivNat
<1>2. (n + y) \div d = q + c /\ (n + y) % d = r
  <2>1. n + y = (d * (q + c)) + r
    <3>1. d * (q + c) = (d * q) + (c * d)
      OBVIOUS
    <3>2. PICK x \in Nat : x = d * q
      OBVIOUS
    <3>3. QED
      BY <1>1, <3>1, <3>2 DEF Times
  <2>2. n + y \in Int /\ q + c \in Int
    OBVIOUS
  <2>3. QED
    BY <2>1, <2>2, DivModUnique
<1>3. (q + c) % 2 = q % 2
  OBVIOUS
<1>4. Jammed(q + c, r # 0) = Jammed(q, r # 0) + c
  BY <1>3 DEF Jammed
<1>5. QED
  BY <1>1, <1>2, <1>4 DEF JamOf

\* What is left of an even number when a quotient is taken from it is jammed as the quotient is.
LEMMA JamMinus ==
  ASSUME NEW n \in Nat, NEW d \in Nat \ {0}, NEW c \in Nat, c % 2 = 0, NEW y \in Nat, Times(c, d, y),
         NEW z \in Nat, z = y - n
  PROVE  JamOf(z, d) = c - JamOf(n, d)
<1>2. PICK q \in Nat, r \in 0..(d - 1) : q = n \div d /\ r = n % d /\ n = (d * q) + r
  BY DivNat
<1>1. y = c * d
  BY DEF Times
<1>3. PICK x \in Nat : x = d * q
  OBVIOUS
<1>4. CASE r = 0
  <2>1. z \div d = c - q /\ z % d = 0
    <3>1. d * (c - q) = y - x
      BY <1>1, <1>3
    <3>2. z = (d * (c - q)) + 0
      BY <1>2, <1>3, <1>4, <3>1
    <3>3. z \in Int /\ c - q \in Int /\ 0 \in 0..(d - 1)
      OBVIOUS
    <3>4. QED
      BY <3>2, <3>3, DivModUnique
  <2>2. JamOf(z, d) = c - q /\ JamOf(n, d) = q
    BY <1>2, <1>4, <2>1 DEF JamOf, Jammed
  <2>3. QED
    BY <2>2
<1>5. CASE r # 0
  <2>1. z \div d = c - (q + 1) /\ z % d = d - r
    <3>1. d * (c - (q + 1)) = (y - x) - d
      BY <1>1, <1>3
    <3>2. z = (d * (c - (q + 1))) + (d - r)
      BY <1>2, <1>3, <3>1
    <3>3. PICK t \in 0..(d - 1), p \in Int : t = d - r /\ p = c - (q + 1)
      BY <1>5
    <3>4. z = (d * p) + t /\ z \in Int
      BY <3>2, <3>3
    <3>5. z \div d = p /\ z % d = t
      BY <3>4, DivModUnique
    <3>6. QED
      BY <3>3, <3>5
  <2>2. d - r # 0
    OBVIOUS
  <2>3. JamOf(z, d) = Jammed(c - (q + 1), TRUE) /\ JamOf(n, d) = Jammed(q, TRUE)
    BY <1>2, <1>5, <2>1, <2>2 DEF JamOf
  <2>4. Jammed(c - (q + 1), TRUE) = c - Jammed(q, TRUE)
    <3>1. q % 2 = 0 => (c - (q + 1)) % 2 = 1 /\ c - (q + 1) = c - (q + 1)
      OBVIOUS
    <3>2. q % 2 # 0 => (c - (q + 1)) % 2 = 0 /\ (c - (q + 1)) + 1 = c - q
      OBVIOUS
    <3>3. QED
      BY <3>1, <3>2 DEF Jammed
  <2>5. QED
    BY <2>3, <2>4, Zenon
<1>6. QED
  BY <1>4, <1>5

\* A multiple of the divisor is not jammed.
LEMMA JamExact ==
  ASSUME NEW d \in Nat \ {0}, NEW q \in Nat, NEW n \in Nat, n = d * q
  PROVE  JamOf(n, d) = q
<1>1. n \div d = q /\ n % d = 0
  <2>1. n = (d * q) + 0 /\ n \in Int /\ q \in Int /\ 0 \in 0..(d - 1)
    OBVIOUS
  <2>2. QED
    BY <2>1, DivModUnique
<1>2. QED
  BY <1>1 DEF JamOf, Jammed

\* What is rounded exactly stands for itself.
LEMMA StandsExact ==
  ASSUME NEW s \in Nat, NEW u \in Nat
  PROVE  Stands(s, s, 1, u)
<1>1. ASSUME NEW t \in Nat PROVE (s < (t * u) * 1 <=> s < t * u) /\ (s = (t * u) * 1 <=> s = t * u)
  <2>1. PICK x \in Nat : x = t * u /\ x * 1 = x
    OBVIOUS
  <2>2. QED
    BY <2>1
<1>2. QED
  BY <1>1 DEF Stands

-----------------------------------------------------------------------------
(* The significands that are added and subtracted.                         *)

\* The significand x of a pattern with its hidden bit, or doubled when there is none.
Wider(h, e, x) == x + (IF e # 0 THEN h ELSE x)
\* With it, twice the magnitude of a is that number of units of two to the exponent.
IsWide(f, a, h, e, W) ==
  \E x \in 0..(h - 1) : /\ expUI(f, a) = e /\ fracUI(f, a) = x /\ W = Wider(h, e, x)
                        /\ W \in 0..((2 * h) - 1) /\ (e # 0 => h <= W)
                        /\ Mag(f, a) \in Nat /\ Times(W, 2^e, 2 * Mag(f, a))

\* Every pattern has such a significand.
LEMMA WideIs ==
  ASSUME NEW f, FormatLaws(f), NEW h \in Nat \ {0}, hidden(f) = h, NEW a \in Patterns(f)
  PROVE  \E e \in Nat, W \in Nat : IsWide(f, a, h, e, W)
<1>1. PICK e \in Nat, x \in 0..(h - 1), m \in Nat :
        expUI(f, a) = e /\ fracUI(f, a) = x /\ a % signBit(f) = m /\ m = (h * e) + x
  <2>1. \E s \in 0..1, e \in 0..(2^f.E - 1), x \in 0..(hidden(f) - 1), m \in 0..(signBit(f) - 1) :
           /\ signUI(f, a) = s /\ expUI(f, a) = e /\ fracUI(f, a) = x /\ a % signBit(f) = m
           /\ m = (hidden(f) * e) + x /\ a = (signBit(f) * s) + m
    BY Fields
  <2>2. QED
    BY <2>1
<1>2. m \div h = e /\ m % h = x
  <2>1. m \in Int /\ e \in Int
    OBVIOUS
  <2>2. QED
    BY <1>1, <2>1, DivModUnique
<1>3. CASE e = 0
  <2>1. Mag(f, a) = x
    <3>1. m = x
      BY <1>1, <1>3
    <3>2. Val(f, m) = m
      BY <1>2, <1>3 DEF Val
    <3>3. QED
      BY <1>1, <3>1, <3>2 DEF Mag
  <2>2. 2^e = 1
    BY <1>3, PowerZero
  <2>3. PICK W \in Nat : W = x + x /\ W \in 0..((2 * h) - 1)
    OBVIOUS
  <2>4. W = Wider(h, e, x)
    BY <1>3, <2>3 DEF Wider
  <2>5. Times(W, 2^e, 2 * Mag(f, a))
    <3>1. W * 1 = 2 * x
      BY <2>3
    <3>2. QED
      BY <2>1, <2>2, <3>1, Zenon DEF Times
  <2>6. QED
    <3>1. (e # 0 => h <= W) /\ Mag(f, a) \in Nat
      BY <1>3, <2>1
    <3>2. QED
      BY <1>1, <2>3, <2>4, <2>5, <3>1 DEF IsWide
<1>4. CASE e # 0
  <2>1. PICK k \in Nat : e = k + 1 /\ e - 1 = k
    BY <1>4
  <2>2. PICK P \in Nat \ {0} : P = 2^k
    BY PowerPositive
  <2>3. PICK W \in Nat : W = x + h /\ W \in 0..((2 * h) - 1) /\ h <= W
    OBVIOUS
  <2>4. Mag(f, a) = W * P
    <3>1. Val(f, m) = (x + h) * 2^k
      BY <1>2, <1>4, <2>1 DEF Val
    <3>2. QED
      BY <1>1, <2>2, <2>3, <3>1 DEF Mag
  <2>5. 2^e = 2 * P
    BY <2>1, <2>2, PowerNext
  <2>6. Times(W, 2^e, 2 * Mag(f, a)) /\ Mag(f, a) \in Nat
    <3>1. W * (2 * P) = 2 * (W * P) /\ W * P \in Nat
      OBVIOUS
    <3>2. QED
      BY <2>4, <2>5, <3>1 DEF Times
  <2>7. W = Wider(h, e, x)
    BY <1>4, <2>3 DEF Wider
  <2>8. QED
    BY <1>1, <2>3, <2>6, <2>7 DEF IsWide
<1>5. QED
  BY <1>3, <1>4

-----------------------------------------------------------------------------
(* Sums of magnitudes.                                                     *)

\* The smaller operand is shifted to the exponent of the larger one and jammed.
LEMMA SumUnequal ==
  ASSUME NEW f, IsFormat(f), NEW h \in Nat \ {0}, NEW u \in Nat \ {0}, NEW b \in Nat, Sizes(f, h, u, b),
         NEW sign, NEW mode, IsMode(sign, mode),
         NEW WL \in 0..((2 * h) - 1), NEW WH \in h..((2 * h) - 1), NEW eL \in Nat, NEW k \in Nat \ {0},
         NEW eH \in Nat, eH = eL + k,
         NEW mL \in Nat, Times(WL, 2^eL, 2 * mL), NEW mH \in Nat, Times(WH, 2^eH, 2 * mH)
  PROVE  RoundSum(f, sign, eH, (WH * u) + softfloat_shift32RightJam(word(f), WL * u, k), mode)
           = RoundedRatio(f, sign, mL + mH, 1, mode)
<1>1. PICK y \in Nat : Times(h, u, y) /\ 2^(f.F + f.G - 1) = y /\ top(f) = 4 * y /\ 2^word(f) = 8 * y
  <2>1. 2^(f.F + f.G - 1) = h * u /\ top(f) = 2 * (h * (2 * u)) /\ 2^word(f) = 4 * (h * (2 * u))
    BY DEF Sizes
  <2>2. PICK y \in Nat : y = h * u /\ 2 * (h * (2 * u)) = 4 * y /\ 4 * (h * (2 * u)) = 8 * y
    OBVIOUS
  <2>3. QED
    BY <2>1, <2>2 DEF Times
<1>2. PICK v \in Nat : IsGuard(f, v) /\ v % 2 = 0 /\ u = 2 * v /\ 2^f.G = 2 * u
  <2>1. 2^(f.G - 1) = u /\ u % 4 = 0 /\ 2^f.G = 2 * u
    BY DEF Sizes
  <2>2. u \div 2 \in Nat /\ u = 2 * (u \div 2) /\ (u \div 2) % 2 = 0
    BY <2>1
  <2>3. QED
    BY <2>1, <2>2 DEF IsGuard
<1>3. PICK A \in Nat, C \in Nat : Times(WL, u, A) /\ Times(WH, u, C) /\ A < 2 * y /\ y <= C /\ C < 2 * y /\ C % 2 = 0
  <2>1. u * WL <= u * ((2 * h) - 1) /\ u * h <= u * WH /\ u * WH <= u * ((2 * h) - 1)
    BY ProductMonotonic
  <2>2. PICK A \in Nat, C \in Nat : A = WL * u /\ C = WH * u
    OBVIOUS
  <2>3. u * WL = A /\ u * WH = C /\ u * h = y /\ u * ((2 * h) - 1) = (2 * y) - u
    BY <1>1, <2>2 DEF Times
  <2>4. C % 2 = 0
    <3>1. PICK z \in Nat : z = WH * v
      OBVIOUS
    <3>2. C = 2 * z
      BY <1>2, <2>2, <3>1
    <3>3. QED
      BY <3>2
  <2>5. A < 2 * y /\ y <= C /\ C < 2 * y
    BY <2>1, <2>3
  <2>6. QED
    BY <2>2, <2>4, <2>5 DEF Times
<1>4. PICK D \in Nat \ {0} : D = 2^k
  BY PowerPositive
<1>5. PICK j \in Nat : softfloat_shift32RightJam(word(f), A, k) = j /\ j = JamOf(A, D) /\ j < 2 * y
  <2>1. word(f) \in Nat
    BY DEF word, IsFormat
  <2>2. A < 2^word(f)
    BY <1>1, <1>3
  <2>3. softfloat_shift32RightJam(word(f), A, k) = JamOf(A, D)
    BY <1>4, <2>1, <2>2, ShiftJams
  <2>4. JamOf(A, D) \in Nat /\ \A T \in Nat : T % 2 = 0 => (A < T * D <=> JamOf(A, D) < T) /\ (A = T * D <=> JamOf(A, D) = T)
    BY JamCompares
  <2>5. PICK T \in Nat : T = 2 * y /\ T % 2 = 0
    OBVIOUS
  <2>6. A < T * D
    <3>1. T * 1 <= T * D
      BY ProductMonotonic
    <3>2. PICK z \in Nat : z = T * D
      OBVIOUS
    <3>3. QED
      BY <1>3, <2>5, <3>1, <3>2
  <2>7. JamOf(A, D) < T
    BY <2>4, <2>5, <2>6
  <2>8. QED
    BY <2>3, <2>4, <2>5, <2>7
<1>6. PICK n \in Nat : Times(C, D, n - A) /\ JamOf(n, D) = j + C
  <2>1. PICK z \in Nat : Times(C, D, z)
    BY DEF Times
  <2>2. JamOf(A + z, D) = JamOf(A, D) + C
    <3>1. C % 2 = 0
      BY <1>3
    <3>2. QED
      BY <2>1, <3>1, JamPlus
  <2>3. A + z \in Nat /\ (A + z) - A = z
    OBVIOUS
  <2>4. QED
    BY <1>5, <2>1, <2>2, <2>3
<1>7. PICK s \in Nat : s = C + j /\ IsNear(f, s) /\ Stands(s, n, D, v)
  <2>1. Stands(JamOf(n, D), n, D, v)
    BY <1>2, JamStands
  <2>2. C + j = j + C /\ C + j \in Nat
    OBVIOUS
  <2>3. y <= C + j /\ C + j < 4 * y
    BY <1>3, <1>5
  <2>4. QED
    BY <1>1, <1>6, <2>1, <2>2, <2>3 DEF IsNear
<1>8. InUnits(f, mL + mH, 1, n, D, eH)
  <2>1. PICK P \in Nat \ {0}, Q \in Nat \ {0} : P = 2^eL /\ Q = 2^eH /\ Q = P * D
    <3>1. 2^eL \in Nat \ {0} /\ 2^eH \in Nat \ {0}
      BY PowerPositive
    <3>2. 2^(eL + k) = 2^eL * 2^k
      BY PowerSum
    <3>3. QED
      BY <1>4, <3>1, <3>2
  <2>2. 2 * mL = WL * P /\ 2 * mH = WH * Q
    BY <2>1 DEF Times
  <2>3. n = (WL * u) + ((WH * u) * D)
    <3>1. PICK z \in Nat : z = C * D
      OBVIOUS
    <3>2. n = A + z
      BY <1>6, <3>1 DEF Times
    <3>3. QED
      BY <1>3, <3>1, <3>2 DEF Times
  <2>4. (mL + mH) * (D * (2 * u)) = n * Q
    <3>1. (mL + mH) * (D * (2 * u)) = ((2 * mL) * (D * u)) + ((2 * mH) * (D * u))
      OBVIOUS
    <3>2. (WL * P) * (D * u) = (WL * u) * (P * D)
      OBVIOUS
    <3>3. (WH * Q) * (D * u) = ((WH * u) * D) * Q
      OBVIOUS
    <3>4. PICK a \in Nat, c \in Nat : a = WL * u /\ c = (WH * u) * D
      OBVIOUS
    <3>5. (a + c) * Q = (a * Q) + (c * Q)
      OBVIOUS
    <3>6. n * Q = (a + c) * Q
      BY <2>3, <3>4
    <3>7. (2 * mL) * (D * u) = a * Q /\ (2 * mH) * (D * u) = c * Q
      BY <2>1, <2>2, <3>2, <3>3, <3>4, Zenon
    <3>8. QED
      BY <3>1, <3>5, <3>6, <3>7, Zenon
  <2>5. ((mL + mH) * (D * 2^f.G)) * 2^0 = (n * 1) * 2^eH /\ eH - 0 = eH
    <3>1. (mL + mH) * (D * (2 * u)) \in Nat /\ n * Q \in Nat
      OBVIOUS
    <3>2. PICK z \in Nat : z = n * Q /\ (n * 1) * Q = z
      OBVIOUS
    <3>3. QED
      BY <1>2, <2>1, <2>4, <3>1, <3>2, PowerZero
  <2>6. QED
    BY <2>5 DEF InUnits, Scales
<1>9. RoundSum(f, sign, eH, s, mode) = RoundedRatio(f, sign, mL + mH, 1, mode)
  <2>1. mL + mH \in Nat /\ 1 \in Nat \ {0} /\ eH \in Int
    OBVIOUS
  <2>2. PICK m \in Nat : m = mL + mH
    BY <2>1
  <2>3. InUnits(f, m, 1, n, D, eH)
    BY <1>8, <2>2
  <2>4. RoundSum(f, sign, eH, s, mode) = RoundedRatio(f, sign, m, 1, mode)
    BY <1>2, <1>7, <2>1, <2>3, RoundSumIs
  <2>5. QED
    BY <2>2, <2>4
<1>10. (WH * u) + softfloat_shift32RightJam(word(f), WL * u, k) = s
  BY <1>3, <1>5, <1>7 DEF Times
<1>11. QED
  BY <1>9, <1>10, Zenon

\* Operands with the same exponent and their hidden bits are added as they are.
LEMMA SumEqual ==
  ASSUME NEW f, IsFormat(f), NEW h \in Nat \ {0}, NEW u \in Nat \ {0}, NEW b \in Nat, Sizes(f, h, u, b),
         NEW sign, NEW mode, IsMode(sign, mode),
         NEW WA \in h..((2 * h) - 1), NEW WB \in h..((2 * h) - 1), NEW e \in Nat,
         NEW mA \in Nat, Times(WA, 2^e, 2 * mA), NEW mB \in Nat, Times(WB, 2^e, 2 * mB)
  PROVE  softfloat_roundPackToF32(f, sign, e, (WA + WB) * u, mode) = RoundedRatio(f, sign, mA + mB, 1, mode)
<1>1. PICK s \in Nat : Times(WA + WB, u, s) /\ IsLeading(f, s)
  <2>1. 2^(f.F + f.G) = h * (2 * u) /\ top(f) = 2 * (h * (2 * u))
    BY DEF Sizes
  <2>2. u * (2 * h) <= u * (WA + WB) /\ u * ((WA + WB) + 1) <= u * (4 * h)
    BY ProductMonotonic
  <2>3. PICK y \in Nat, s \in Nat : y = h * u /\ s = (WA + WB) * u
    OBVIOUS
  <2>4. /\ u * (2 * h) = 2 * y /\ u * (WA + WB) = s /\ u * ((WA + WB) + 1) = s + u /\ u * (4 * h) = 4 * y
        /\ h * (2 * u) = 2 * y
    BY <2>3
  <2>5. 2 * y <= s /\ s < 4 * y
    BY <2>2, <2>4
  <2>6. QED
    BY <2>1, <2>3, <2>4, <2>5 DEF Times, IsLeading
<1>2. Stands(s, s, 1, 2^(f.G - 1))
  <2>1. 2^(f.G - 1) = u
    BY DEF Sizes
  <2>2. Stands(s, s, 1, u)
    BY StandsExact
  <2>3. QED
    BY <2>1, <2>2
<1>3. InUnits(f, mA + mB, 1, s, 1, e)
  <2>1. PICK P \in Nat \ {0} : P = 2^e
    BY PowerPositive
  <2>2. 2 * mA = WA * P /\ 2 * mB = WB * P
    BY <2>1 DEF Times
  <2>3. (mA + mB) * (1 * (2 * u)) = (s * 1) * P
    <3>1. (mA + mB) * (1 * (2 * u)) = ((2 * mA) * u) + ((2 * mB) * u)
      OBVIOUS
    <3>2. ((WA * P) * u) + ((WB * P) * u) = ((WA + WB) * u) * P
      OBVIOUS
    <3>3. s = (WA + WB) * u
      BY <1>1 DEF Times
    <3>4. s * 1 = s
      OBVIOUS
    <3>5. QED
      BY <2>2, <3>1, <3>2, <3>3, <3>4, Zenon
  <2>4. ((mA + mB) * (1 * 2^f.G)) * 2^0 = (s * 1) * 2^e /\ e - 0 = e
    <3>1. 2^f.G = 2 * u
      BY DEF Sizes
    <3>2. PICK z \in Nat : z = (mA + mB) * (1 * (2 * u)) /\ z * 1 = z
      OBVIOUS
    <3>3. QED
      BY <2>1, <2>3, <3>1, <3>2, PowerZero
  <2>5. QED
    BY <2>4 DEF InUnits, Scales
<1>4. softfloat_roundPackToF32(f, sign, e, s, mode) = RoundedRatio(f, sign, mA + mB, 1, mode)
  <2>1. PICK m \in Nat : m = mA + mB
    OBVIOUS
  <2>2. InUnits(f, m, 1, s, 1, e) /\ 1 \in Nat \ {0} /\ e \in Int
    BY <1>3, <2>1
  <2>3. softfloat_roundPackToF32(f, sign, e, s, mode) = RoundedRatio(f, sign, m, 1, mode)
    BY <1>1, <1>2, <2>2, RoundPack
  <2>4. QED
    BY <2>1, <2>3
<1>5. (WA + WB) * u = s
  BY <1>1 DEF Times
<1>6. QED
  BY <1>4, <1>5, Zenon

\* A magnitude is zero only for a zero.
LEMMA MagZero ==
  ASSUME NEW f, FormatLaws(f), NEW a \in Patterns(f), Mag(f, a) = 0
  PROVE  isZero(f, a)
<1>1. PICK h \in Nat \ {0} : hidden(f) = h
  BY DEF FormatLaws
<1>2. PICK m \in Nat : m = a % signBit(f)
  BY Fields
<1>3. Val(f, m) = 0
  BY <1>2 DEF Mag
<1>4. PICK z \in Nat : z = 0
  OBVIOUS
<1>5. z < m => Val(f, z) < Val(f, m) /\ Val(f, z) \in Nat
  <2>1. SUFFICES ASSUME z < m PROVE Val(f, z) < Val(f, m)
    BY <1>1, ValNext
  <2>2. Val(f, z + 1) <= Val(f, m) /\ Val(f, z) \in Nat /\ Val(f, z + 1) \in Nat /\ Val(f, m) \in Nat /\ Val(f, z) < Val(f, z + 1)
    BY <1>1, <2>1, ValLess, ValNext
  <2>3. QED
    BY <2>2
<1>6. m = 0
  <2>1. z < m => 0 < 0
    <3>1. PICK y \in Nat : y = Val(f, z)
      BY <1>1, ValNext
    <3>2. QED
      BY <1>3, <1>5, <3>1
  <2>2. QED
    BY <1>4, <2>1
<1>7. QED
  BY <1>2, <1>6 DEF isZero

\* A pattern is its sign and its magnitude.
LEMMA PatternIs ==
  ASSUME NEW f, FormatLaws(f), NEW a \in Patterns(f)
  PROVE  /\ signUI(f, a) \in 0..1 /\ a % signBit(f) \in 0..(signBit(f) - 1)
         /\ a = (signBit(f) * signUI(f, a)) + (a % signBit(f))
         /\ signBit(f) \in Nat \ {0}
<1>1. signBit(f) \in Nat \ {0}
  <2>1. PICK p \in Nat \ {0}, h \in Nat \ {0} : 2^f.E = p /\ hidden(f) = h /\ signBit(f) = p * h
    BY DEF FormatLaws
  <2>2. p * h \in Nat \ {0}
    OBVIOUS
  <2>3. QED
    BY <2>1, <2>2
<1>2. QED
  BY <1>1, Fields

\* An infinity of a given sign.
LEMMA InfinityIs ==
  ASSUME NEW f, FormatLaws(f), NEW a \in Patterns(f), isInf(f, a)
  PROVE  a = Inf(f, signUI(f, a))
<1>1. PICK S \in Nat \ {0}, s \in 0..1, m \in Nat : S = signBit(f) /\ s = signUI(f, a) /\ m = a % S /\ a = (S * s) + m
  BY PatternIs
<1>2. PICK x \in Int : x = expMax(f) * hidden(f)
  <2>1. expMax(f) \in Int /\ hidden(f) \in Int
    BY DEF FormatLaws, expMax
  <2>2. QED
    BY <2>1
<1>3. m = 0 * S + x + 0
  BY <1>1, <1>2 DEF isInf, Inf, packToUI
<1>4. Inf(f, s) = s * S + x + 0
  BY <1>1, <1>2 DEF Inf, packToUI
<1>5. s * S = S * s /\ 0 * S = 0
  OBVIOUS
<1>6. PICK y \in Int : y = S * s
  OBVIOUS
<1>7. QED
  BY <1>1, <1>3, <1>4, <1>5, <1>6

\* The sum of two operands of the same sign, rounded once.
LEMMA SameSigns ==
  ASSUME NEW f, FormatLaws(f), NEW mode, NEW a \in Patterns(f), NEW b \in Patterns(f),
         signUI(f, a) = signUI(f, b), ~isNaNUI(f, a), ~isNaNUI(f, b), ~isInf(f, a), ~isInf(f, b),
         ~isZero(f, a) \/ ~isZero(f, b), Mag(f, a) \in Nat, Mag(f, b) \in Nat
  PROVE  AddSpec(f, a, b, mode) = RoundedRatio(f, signUI(f, a), Mag(f, a) + Mag(f, b), 1, mode)
<1>1. PICK mA \in Nat, mB \in Nat : mA = Mag(f, a) /\ mB = Mag(f, b) /\ mA + mB # 0
  <2>1. Mag(f, a) # 0 \/ Mag(f, b) # 0
    BY MagZero
  <2>2. QED
    BY <2>1
<1>2. signUI(f, a) \in 0..1
  BY SignIs
<1>3. AddSpec(f, a, b, mode) = RoundedSum(f, SVal(f, a) + SVal(f, b), 1, mode)
  BY Zenon DEF AddSpec
<1>4. CASE signUI(f, a) = 0
  <2>1. SVal(f, a) + SVal(f, b) = mA + mB
    BY <1>1, <1>4 DEF SVal
  <2>2. mA + mB # 0 /\ Sign(mA + mB) = 0 /\ Abs(mA + mB) = mA + mB
    BY <1>1 DEF Sign, Abs, Bit
  <2>3. QED
    BY <1>1, <1>3, <1>4, <2>1, <2>2, Zenon DEF RoundedSum
<1>5. CASE signUI(f, a) = 1
  <2>1. SVal(f, a) + SVal(f, b) = -(mA + mB)
    BY <1>1, <1>5 DEF SVal
  <2>2. -(mA + mB) # 0 /\ Sign(-(mA + mB)) = 1 /\ Abs(-(mA + mB)) = mA + mB
    BY <1>1 DEF Sign, Abs, Bit
  <2>3. QED
    BY <1>1, <1>3, <1>5, <2>1, <2>2, Zenon DEF RoundedSum
<1>6. QED
  BY <1>2, <1>4, <1>5

\* The magnitudes of finite operands, in the terms of the code.
IsTerm(f, a, h, u, e, W) ==
  IsWide(f, a, h, e, W) /\ (fracUI(f, a) * u) + (IF e # 0 THEN h * u ELSE fracUI(f, a) * u) = W * u

\* The code's sum of fraction and hidden bit is that significand.
LEMMA TermIs ==
  ASSUME NEW f, FormatLaws(f), NEW h \in Nat \ {0}, hidden(f) = h, NEW a \in Patterns(f), NEW u \in Nat
  PROVE  \E e \in Nat, W \in Nat : IsTerm(f, a, h, u, e, W)
<1>1. PICK e \in Nat, W \in Nat : IsWide(f, a, h, e, W)
  BY WideIs
<1>2. PICK x \in 0..(h - 1) : fracUI(f, a) = x /\ W = Wider(h, e, x)
  BY <1>1 DEF IsWide
<1>3. (x * u) + (IF e # 0 THEN h * u ELSE x * u) = W * u
  <2>1. (x * u) + (h * u) = (x + h) * u /\ (x * u) + (x * u) = (x + x) * u
    OBVIOUS
  <2>2. CASE e = 0
    BY <1>2, <2>1, <2>2, Zenon DEF Wider
  <2>3. CASE e # 0
    BY <1>2, <2>1, <2>3, Zenon DEF Wider
  <2>4. QED
    BY <2>2, <2>3
<1>4. QED
  BY <1>1, <1>2, <1>3, Zenon DEF IsTerm

\* The steps of softfloat_addMagsF32, with the fields of its operands given.
AddOf(f, a, b, s, mode, eA, eB, tA, tB, unit) ==
  LET aligned(exp, sig, n) ==
        softfloat_shift32RightJam(word(f), sig + (IF exp # 0 THEN unit ELSE sig), n)
      sum == IF eA < eB THEN unit + aligned(eA, tA, eB - eA) + tB
                        ELSE unit + tA + aligned(eB, tB, eA - eB)
      expZ == IF eA < eB THEN eB ELSE eA
  IN IF isNaNUI(f, a) \/ isNaNUI(f, b) THEN softfloat_propagateNaNF32UI(f, a, b)
     ELSE CASE eA = expMax(f) -> Ret(a, {})
            [] eA < expMax(f) /\ eB = expMax(f) -> Ret(Inf(f, s), {})
            [] eA = 0 /\ eB = 0 -> Ret(packToUI(f, s, 0, (a + b) % signBit(f)), {})
            [] eA = eB /\ eA \in 1..(expMax(f) - 1) ->
                 softfloat_roundPackToF32(f, s, eA, 2 * unit + tA + tB, mode)
            [] OTHER -> RoundSum(f, s, expZ, sum, mode)

\* The function is its steps.
LEMMA AddMagsSteps ==
  ASSUME NEW f, NEW a, NEW b, NEW s, NEW mode
  PROVE  softfloat_addMagsF32(f, a, b, s, mode) =
           AddOf(f, a, b, s, mode, expUI(f, a), expUI(f, b), fracUI(f, a) * 2^(f.G - 1), fracUI(f, b) * 2^(f.G - 1),
                 2^(f.F + f.G - 1))
BY Zenon DEF softfloat_addMagsF32, AddOf

\* The magnitudes of two finite operands are added and rounded once.
LEMMA AddMagsFinite ==
  ASSUME NEW f, IsFormat(f), FormatLaws(f), NEW mode \in RoundingModes, NEW a \in Patterns(f), NEW b \in Patterns(f),
         signUI(f, a) = signUI(f, b),
         expUI(f, a) < expMax(f), expUI(f, b) < expMax(f), expUI(f, a) # 0 \/ expUI(f, b) # 0
  PROVE  softfloat_addMagsF32(f, a, b, signUI(f, a), mode)
           = RoundedRatio(f, signUI(f, a), Mag(f, a) + Mag(f, b), 1, mode)
<1>1. PICK h \in Nat \ {0}, u \in Nat \ {0}, c \in Nat : Sizes(f, h, u, c) /\ hidden(f) = h /\ 2^(f.G - 1) = u /\ 2^(f.F + f.G - 1) = h * u
  <2>1. PICK h \in Nat, u \in Nat, c \in Nat : Sizes(f, h, u, c)
    BY FormatSizes
  <2>2. h # 0 /\ u # 0 /\ hidden(f) = h /\ 2^(f.G - 1) = u /\ 2^(f.F + f.G - 1) = h * u
    BY <2>1 DEF Sizes
  <2>3. QED
    BY <2>1, <2>2
<1>2. PICK eA \in Nat, WA \in Nat : IsTerm(f, a, h, u, eA, WA)
  BY <1>1, TermIs
<1>3. PICK eB \in Nat, WB \in Nat : IsTerm(f, b, h, u, eB, WB)
  BY <1>1, TermIs
<1>4. PICK mA \in Nat, xA \in 0..(h - 1) : /\ mA = Mag(f, a) /\ xA = fracUI(f, a) /\ eA = expUI(f, a)
                                           /\ Times(WA, 2^eA, 2 * mA) /\ WA = Wider(h, eA, xA)
                                           /\ WA \in 0..((2 * h) - 1) /\ (eA # 0 => h <= WA)
  BY <1>2 DEF IsTerm, IsWide
<1>5. PICK mB \in Nat, xB \in 0..(h - 1) : /\ mB = Mag(f, b) /\ xB = fracUI(f, b) /\ eB = expUI(f, b)
                                           /\ Times(WB, 2^eB, 2 * mB) /\ WB = Wider(h, eB, xB)
                                           /\ WB \in 0..((2 * h) - 1) /\ (eB # 0 => h <= WB)
  BY <1>3 DEF IsTerm, IsWide
<1>6. PICK s \in 0..1 : s = signUI(f, a) /\ IsMode(s, mode)
  BY SignIs DEF IsMode
<1>7. ~isNaNUI(f, a) /\ ~isNaNUI(f, b) /\ eA # expMax(f) /\ eB # expMax(f)
  <2>1. expMax(f) \in Int /\ expUI(f, a) # expMax(f) /\ expUI(f, b) # expMax(f)
    BY <1>4, <1>5 DEF expMax, FormatLaws
  <2>2. QED
    BY <1>4, <1>5, <2>1 DEF isNaNUI
<1> DEFINE X == (xA * u) + (IF eA # 0 THEN h * u ELSE xA * u)
           Y == (xB * u) + (IF eB # 0 THEN h * u ELSE xB * u)
           jA == softfloat_shift32RightJam(word(f), X, eB - eA)
           jB == softfloat_shift32RightJam(word(f), Y, eA - eB)
           sum == IF eA < eB THEN h * u + jA + xB * u ELSE h * u + xA * u + jB
<1>8. softfloat_addMagsF32(f, a, b, s, mode) =
        IF eA = eB THEN softfloat_roundPackToF32(f, s, eA, 2 * (h * u) + xA * u + xB * u, mode)
        ELSE RoundSum(f, s, IF eA < eB THEN eB ELSE eA, sum, mode)
  <2>1. /\ ~(eA < expMax(f) /\ eB = expMax(f)) /\ ~(eA = 0 /\ eB = 0)
        /\ (eA = eB /\ eA \in 1..(expMax(f) - 1)) <=> eA = eB
    BY <1>4, <1>5, <1>7 DEF expMax, FormatLaws
  <2> DEFINE r1 == softfloat_roundPackToF32(f, s, eA, 2 * (h * u) + xA * u + xB * u, mode)
             r2 == RoundSum(f, s, IF eA < eB THEN eB ELSE eA, sum, mode)
             g  == eA = eB /\ eA \in 1..(expMax(f) - 1)
  <2>2. softfloat_addMagsF32(f, a, b, s, mode) = AddOf(f, a, b, s, mode, eA, eB, xA * u, xB * u, h * u)
    BY <1>1, <1>4, <1>5, AddMagsSteps, Zenon
  <2>3. AddOf(f, a, b, s, mode, eA, eB, xA * u, xB * u, h * u) =
          IF isNaNUI(f, a) \/ isNaNUI(f, b) THEN softfloat_propagateNaNF32UI(f, a, b)
          ELSE CASE eA = expMax(f) -> Ret(a, {})
                 [] eA < expMax(f) /\ eB = expMax(f) -> Ret(Inf(f, s), {})
                 [] eA = 0 /\ eB = 0 -> Ret(packToUI(f, s, 0, (a + b) % signBit(f)), {})
                 [] g -> r1
                 [] OTHER -> r2
    BY Zenon DEF AddOf
  <2> HIDE DEF r1, r2, g
  <2>4. softfloat_addMagsF32(f, a, b, s, mode) = IF g THEN r1 ELSE r2
    BY <1>7, <2>1, <2>2, <2>3
  <2>5. QED
    BY <2>1, <2>4, Zenon DEF r1, r2, g
<1>9. X = WA * u /\ Y = WB * u
  BY <1>2, <1>3, <1>4, <1>5, Zenon DEF IsTerm
<1>10. CASE eA = eB
  <2>1. PICK e \in Nat : e = eA /\ e = eB /\ e # 0
    BY <1>4, <1>5, <1>10
  <2>2. WA = xA + h /\ WB = xB + h /\ WA \in h..((2 * h) - 1) /\ WB \in h..((2 * h) - 1)
    BY <1>4, <1>5, <2>1 DEF Wider
  <2>3. 2 * (h * u) + xA * u + xB * u = (WA + WB) * u
    BY <2>2
  <2>4. softfloat_roundPackToF32(f, s, e, (WA + WB) * u, mode) = RoundedRatio(f, s, mA + mB, 1, mode)
    <3>1. Sizes(f, h, u, c) /\ IsMode(s, mode) /\ WA \in h..((2 * h) - 1) /\ WB \in h..((2 * h) - 1)
      BY <1>1, <1>6, <2>2
    <3>2. Times(WA, 2^e, 2 * mA) /\ Times(WB, 2^e, 2 * mB)
      BY <1>4, <1>5, <2>1
    <3>3. QED
      BY <3>1, <3>2, SumEqual
  <2>5. QED
    BY <1>4, <1>5, <1>6, <1>8, <1>10, <2>1, <2>3, <2>4, Zenon
<1>11. CASE eA < eB
  <2>1. PICK k \in Nat \ {0} : k = eB - eA /\ eB = eA + k
    <3>1. eB - eA \in Nat \ {0} /\ eB = eA + (eB - eA)
      BY <1>11
    <3>2. QED
      BY <3>1
  <2>2. WB = xB + h /\ WB \in h..((2 * h) - 1)
    <3>1. eB # 0
      BY <1>11
    <3>2. QED
      BY <1>5, <3>1 DEF Wider
  <2>3. RoundSum(f, s, eB, (WB * u) + softfloat_shift32RightJam(word(f), WA * u, k), mode) = RoundedRatio(f, s, mA + mB, 1, mode)
    <3>1. Sizes(f, h, u, c) /\ IsMode(s, mode) /\ WA \in 0..((2 * h) - 1) /\ WB \in h..((2 * h) - 1)
      BY <1>1, <1>4, <1>5, <1>6, <2>2
    <3>2. Times(WA, 2^eA, 2 * mA) /\ Times(WB, 2^eB, 2 * mB) /\ eB = eA + k
      BY <1>4, <1>5, <2>1
    <3>3. QED
      BY <3>1, <3>2, SumUnequal
  <2>4. sum = (WB * u) + softfloat_shift32RightJam(word(f), WA * u, k)
    <3>1. PICK j \in Nat : j = softfloat_shift32RightJam(word(f), WA * u, k)
      <4>1. word(f) \in Nat /\ WA * u \in Nat
        BY DEF word, IsFormat
      <4>2. WA * u < 2^word(f)
        <5>1. 2^word(f) = 4 * (h * (2 * u))
          BY <1>1 DEF Sizes
        <5>2. u * WA <= u * ((2 * h) - 1)
          BY <1>4, ProductMonotonic
        <5>3. PICK y \in Nat, z \in Nat : y = u * h /\ z = u * WA
          OBVIOUS
        <5>4. u * ((2 * h) - 1) = (2 * y) - u /\ 4 * (h * (2 * u)) = 8 * y /\ WA * u = z
          BY <5>3
        <5>5. QED
          BY <5>1, <5>2, <5>3, <5>4
      <4>3. softfloat_shift32RightJam(word(f), WA * u, k) = JamOf(WA * u, 2^k)
        BY <4>1, <4>2, ShiftJams
      <4>4. 2^k \in Nat \ {0}
        BY PowerPositive
      <4>5. QED
        BY <4>1, <4>3, <4>4, JamCompares
    <3>2. jA = j
      BY <1>9, <2>1, <3>1, Zenon
    <3>3. h * u + j + xB * u = (WB * u) + j
      <4>1. (xB + h) * u = (xB * u) + (h * u)
        OBVIOUS
      <4>2. PICK y \in Nat, z \in Nat : y = h * u /\ z = xB * u
        OBVIOUS
      <4>3. QED
        BY <2>2, <4>1, <4>2
    <3>4. sum = h * u + jA + xB * u
      BY <1>11, Zenon
    <3> HIDE DEF sum, jA
    <3>5. QED
      BY <3>1, <3>2, <3>3, <3>4, Zenon
  <2>5. eA # eB /\ eB = IF eA < eB THEN eB ELSE eA
    BY <1>11
  <2>6. QED
    BY <1>4, <1>5, <1>6, <1>8, <2>3, <2>4, <2>5, Zenon
<1>12. CASE eB < eA
  <2>1. PICK k \in Nat \ {0} : k = eA - eB /\ eA = eB + k
    <3>1. eA - eB \in Nat \ {0} /\ eA = eB + (eA - eB)
      BY <1>12
    <3>2. QED
      BY <3>1
  <2>2. WA = xA + h /\ WA \in h..((2 * h) - 1)
    <3>1. eA # 0
      BY <1>12
    <3>2. QED
      BY <1>4, <3>1 DEF Wider
  <2>3. RoundSum(f, s, eA, (WA * u) + softfloat_shift32RightJam(word(f), WB * u, k), mode) = RoundedRatio(f, s, mB + mA, 1, mode)
    <3>1. Sizes(f, h, u, c) /\ IsMode(s, mode) /\ WB \in 0..((2 * h) - 1) /\ WA \in h..((2 * h) - 1)
      BY <1>1, <1>4, <1>5, <1>6, <2>2
    <3>2. Times(WB, 2^eB, 2 * mB) /\ Times(WA, 2^eA, 2 * mA) /\ eA = eB + k
      BY <1>4, <1>5, <2>1
    <3>3. QED
      BY <3>1, <3>2, SumUnequal
  <2>4. sum = (WA * u) + softfloat_shift32RightJam(word(f), WB * u, k)
    <3>1. (xA + h) * u = (h * u) + (xA * u)
      OBVIOUS
    <3>2. ~(eA < eB)
      BY <1>12
    <3>3. sum = h * u + xA * u + jB
      BY <3>2, Zenon
    <3>4. h * u + xA * u = WA * u
      BY <2>2, <3>1
    <3>5. QED
      BY <1>9, <2>1, <3>3, <3>4, Zenon
  <2>5. eA # eB /\ eA = (IF eA < eB THEN eB ELSE eA) /\ mB + mA = mA + mB
    BY <1>12
  <2>6. QED
    BY <1>4, <1>5, <1>6, <1>8, <2>3, <2>4, <2>5, Zenon
<1>13. QED
  BY <1>10, <1>11, <1>12

\* A pattern without an exponent is a sign and its fraction, which is its magnitude.
LEMMA Subnormal ==
  ASSUME NEW f, FormatLaws(f), NEW h \in Nat \ {0}, hidden(f) = h, NEW a \in Patterns(f), expUI(f, a) = 0
  PROVE  \E x \in 0..(h - 1) : Mag(f, a) = x /\ a % signBit(f) = x /\ a = (signBit(f) * signUI(f, a)) + x
<1>1. PICK s \in 0..1, e \in Nat, x \in 0..(h - 1), m \in Nat, S \in Nat :
        /\ signUI(f, a) = s /\ expUI(f, a) = e /\ a % signBit(f) = m /\ m = (h * e) + x /\ S = signBit(f) /\ a = (S * s) + m
  <2>1. PICK S \in Nat : S = signBit(f)
    BY PatternIs
  <2>2. PICK s \in 0..1, e \in Nat, x \in 0..(h - 1), m \in Nat :
           /\ signUI(f, a) = s /\ expUI(f, a) = e /\ a % signBit(f) = m
           /\ m = (h * e) + x /\ a = (signBit(f) * s) + m
    <3>1. PICK s \in 0..1, e \in 0..(2^f.E - 1), x \in 0..(hidden(f) - 1), m \in 0..(signBit(f) - 1) :
             /\ signUI(f, a) = s /\ expUI(f, a) = e /\ fracUI(f, a) = x /\ a % signBit(f) = m
             /\ m = (hidden(f) * e) + x /\ a = (signBit(f) * s) + m
      BY Fields
    <3>2. e \in Nat /\ m \in Nat /\ x \in 0..(h - 1)
      BY <2>1
    <3>3. m = (h * e) + x
      BY <3>1
    <3>4. QED
      BY <3>1, <3>2, <3>3, Zenon
  <2>3. QED
    BY <2>1, <2>2
<1>2. m = x
  BY <1>1
<1>3. x \div h = 0
  <2>1. x = (h * 0) + x /\ x \in Int /\ 0 \in Int
    OBVIOUS
  <2>2. QED
    BY <2>1, DivModUnique
<1>4. Mag(f, a) = x
  BY <1>1, <1>2, <1>3 DEF Mag, Val
<1>5. QED
  BY <1>1, <1>2, <1>4

\* Two operands without exponents are added as they are.
LEMMA AddSubnormals ==
  ASSUME NEW f, IsFormat(f), FormatLaws(f), NEW mode, NEW a \in Patterns(f), NEW b \in Patterns(f),
         signUI(f, a) = signUI(f, b), expUI(f, a) = 0, expUI(f, b) = 0,
         ~isNaNUI(f, a), ~isNaNUI(f, b), ~isInf(f, a), ~isInf(f, b)
  PROVE  Ret(packToUI(f, signUI(f, a), 0, (a + b) % signBit(f)), {}) = AddSpec(f, a, b, mode)
<1>1. PICK h \in Nat \ {0}, u \in Nat, c \in Nat : Sizes(f, h, u, c) /\ hidden(f) = h /\ c >= 2 /\ signBit(f) = (2 * c) * h
  <2>1. PICK h \in Nat, u \in Nat, c \in Nat : Sizes(f, h, u, c)
    BY FormatSizes
  <2>2. h # 0 /\ hidden(f) = h /\ c >= 2 /\ signBit(f) = (2 * c) * h
    BY <2>1 DEF Sizes
  <2>3. QED
    BY <2>1, <2>2
<1>2. PICK S \in Nat \ {0}, s \in 0..1, y \in Nat : S = signBit(f) /\ s = signUI(f, a) /\ y = S * s /\ y = s * S
  <2>1. PICK S \in Nat \ {0}, s \in 0..1 : S = signBit(f) /\ s = signUI(f, a)
    BY PatternIs
  <2>2. S * s \in Nat /\ S * s = s * S
    OBVIOUS
  <2>3. QED
    BY <2>1, <2>2
<1>3. PICK xA \in 0..(h - 1) : Mag(f, a) = xA /\ a % S = xA /\ a = y + xA
  BY <1>1, <1>2, Subnormal
<1>4. PICK xB \in 0..(h - 1) : Mag(f, b) = xB /\ b % S = xB /\ b = y + xB
  BY <1>1, <1>2, Subnormal
<1>5. PICK m \in Nat : m = xA + xB /\ m < 2 * h
  OBVIOUS
<1>6. 4 * h <= S
  <2>1. h * 4 <= h * (2 * c)
    BY <1>1, ProductMonotonic
  <2>2. (2 * c) * h = h * (2 * c)
    OBVIOUS
  <2>3. QED
    BY <1>1, <1>2, <2>1, <2>2
<1>7. (a + b) % S = m
  <2>1. a + b = (S * (2 * s)) + m
    <3>1. S * (2 * s) = 2 * y
      BY <1>2
    <3>2. QED
      BY <1>3, <1>4, <1>5, <3>1
  <2>2. a + b \in Int /\ 2 * s \in Int /\ m \in 0..(S - 1)
    BY <1>3, <1>4, <1>5, <1>6
  <2>3. QED
    BY <2>1, <2>2, DivModUnique
<1>8. packToUI(f, s, 0, m) = y + m
  <2>1. 0 * h = 0
    OBVIOUS
  <2>2. QED
    BY <1>1, <1>2, <2>1 DEF packToUI
<1>9. CASE isZero(f, a) /\ isZero(f, b)
  <2>1. xA = 0 /\ xB = 0
    BY <1>2, <1>3, <1>4, <1>9 DEF isZero
  <2>2. a = b /\ y + m = a
    BY <1>3, <1>4, <1>5, <2>1
  <2>3. AddSpec(f, a, b, mode) = Ret(a, {})
    BY <1>9, <2>2, Zenon DEF AddSpec
  <2>4. QED
    BY <1>2, <1>7, <1>8, <2>2, <2>3
<1>10. CASE ~isZero(f, a) \/ ~isZero(f, b)
  <2>1. Mag(f, a) \in Nat /\ Mag(f, b) \in Nat /\ Mag(f, a) + Mag(f, b) = m
    BY <1>3, <1>4, <1>5
  <2>2. AddSpec(f, a, b, mode) = RoundedRatio(f, s, m, 1, mode)
    BY <1>2, <1>10, <2>1, SameSigns
  <2>3. Val(f, m) = m
    <3>1. PICK z \in Nat : z = 0
      OBVIOUS
    <3>2. Val(f, (z * h) + m) = m * 2^z
      <4>1. m \in 0..(2 * h) /\ (z = 0 \/ h <= m) /\ hidden(f) = h
        BY <1>1, <1>5, <3>1
      <4>2. QED
        BY <4>1, ValAt
    <3>3. (z * h) + m = m /\ m * 1 = m
      BY <3>1
    <3>4. 2^z = 1
      BY <3>1, PowerZero
    <3>5. QED
      BY <3>2, <3>3, <3>4, Zenon
  <2>4. Inf(f, 0) \in Nat /\ m \in 0..(Inf(f, 0) - 1)
    <3>1. Inf(f, 0) = ((2 * c) - 1) * h
      BY <1>1, InfIs
    <3>2. ((2 * c) - 1) * h = ((2 * c) * h) - h
      OBVIOUS
    <3>3. QED
      BY <1>1, <1>2, <1>5, <1>6, <3>1, <3>2
  <2>5. RoundedRatio(f, s, m, 1, mode) = Ret((s * signBit(f)) + m, {})
    <3>1. Times(Val(f, m), 1, m) /\ s * signBit(f) \in Int /\ 1 \in Nat \ {0}
      <4>1. m * 1 = m
        OBVIOUS
      <4>2. QED
        BY <1>2, <2>3, <4>1 DEF Times
    <3>2. QED
      BY <1>1, <2>4, <3>1, RoundExact
  <2>6. QED
    BY <1>2, <1>7, <1>8, <2>2, <2>5, Zenon
<1>11. QED
  BY <1>9, <1>10

\* An exponent is at most the largest one.
LEMMA ExpIs ==
  ASSUME NEW f, FormatLaws(f), NEW a \in Patterns(f)
  PROVE  expUI(f, a) \in Nat /\ expMax(f) \in Nat /\ expUI(f, a) <= expMax(f) /\ expMax(f) >= 2
<1>1. PICK P \in Nat \ (0..2) : P = 2^f.E
  BY DEF FormatLaws
<1>2. expUI(f, a) \in 0..(P - 1)
  BY <1>1, Fields
<1>3. QED
  BY <1>1, <1>2 DEF expMax

\* A zero has no exponent.
LEMMA ZeroExp ==
  ASSUME NEW f, FormatLaws(f), NEW a \in Patterns(f), isZero(f, a)
  PROVE  expUI(f, a) = 0
<1>1. PICK h \in Nat \ {0}, e \in Nat, x \in Nat, m \in Nat :
        expUI(f, a) = e /\ a % signBit(f) = m /\ m = (h * e) + x
  <2>1. PICK h \in Nat \ {0} : hidden(f) = h
    BY DEF FormatLaws
  <2>2. \E s \in 0..1, e \in 0..(2^f.E - 1), x \in 0..(hidden(f) - 1), m \in 0..(signBit(f) - 1) :
           /\ signUI(f, a) = s /\ expUI(f, a) = e /\ fracUI(f, a) = x /\ a % signBit(f) = m
           /\ m = (hidden(f) * e) + x /\ a = (signBit(f) * s) + m
    BY Fields
  <2>3. QED
    BY <2>1, <2>2
<1>2. m = 0
  BY <1>1 DEF isZero
<1>3. e # 0 => h * 1 <= h * e
  BY ProductMonotonic
<1>4. PICK y \in Nat : y = h * e
  OBVIOUS
<1>5. QED
  BY <1>1, <1>2, <1>3, <1>4

\* The sum of two operands of the same sign.
LEMMA AddMagsIs ==
  ASSUME NEW f, IsFormat(f), FormatLaws(f), NEW mode \in RoundingModes, NEW a \in Patterns(f), NEW b \in Patterns(f),
         signUI(f, a) = signUI(f, b)
  PROVE  softfloat_addMagsF32(f, a, b, signUI(f, a), mode) = AddSpec(f, a, b, mode)
<1>1. Kinds(f, a) /\ Kinds(f, b)
  BY PatternKinds
<1>2. PICK eA \in Nat, eB \in Nat, M \in Nat : eA = expUI(f, a) /\ eB = expUI(f, b) /\ M = expMax(f) /\ eA <= M /\ eB <= M /\ M >= 2
  BY ExpIs
<1> DEFINE s == signUI(f, a)
           nan == isNaNUI(f, a) \/ isNaNUI(f, b)
           tA == fracUI(f, a) * 2^(f.G - 1)
           tB == fracUI(f, b) * 2^(f.G - 1)
           unit == 2^(f.F + f.G - 1)
           added == softfloat_addMagsF32(f, a, b, s, mode)
<1>3. added = AddOf(f, a, b, s, mode, eA, eB, tA, tB, unit)
  BY <1>2, AddMagsSteps, Zenon
<1>4. CASE nan
  <2>1. added = softfloat_propagateNaNF32UI(f, a, b)
    BY <1>3, <1>4, Zenon DEF AddOf
  <2>2. QED
    BY <1>4, <2>1, NaNReturned, Zenon DEF AddSpec
<1>5. CASE ~nan /\ isInf(f, a)
  <2>1. eA = M
    BY <1>1, <1>2, <1>5 DEF Kinds
  <2>2. added = Ret(a, {})
    <3>1. AddOf(f, a, b, s, mode, eA, eB, tA, tB, unit) = Ret(a, {})
      <4>1. eA = expMax(f) /\ ~(eA < expMax(f) /\ eB = expMax(f)) /\ ~(eA = 0 /\ eB = 0)
            /\ ~(eA = eB /\ eA \in 1..(expMax(f) - 1))
        BY <1>2, <2>1
      <4> HIDE DEF tA, tB, unit, s
      <4>2. QED
        BY <1>5, <4>1 DEF AddOf
    <3>2. QED
      BY <1>3, <3>1, Zenon
  <2>3. isInf(f, b) => a = b
    BY <1>5, InfinityIs
  <2>4. AddSpec(f, a, b, mode) = Ret(a, {})
    BY <1>5, <2>3, Zenon DEF AddSpec
  <2>5. QED
    BY <2>2, <2>4, Zenon
<1>6. CASE ~nan /\ ~isInf(f, a) /\ isInf(f, b)
  <2>1. eB = M /\ eA < M
    BY <1>1, <1>2, <1>6 DEF Kinds
  <2>2. added = Ret(Inf(f, s), {})
    <3>1. AddOf(f, a, b, s, mode, eA, eB, tA, tB, unit) = Ret(Inf(f, s), {})
      <4>1. eA # expMax(f) /\ (eA < expMax(f) /\ eB = expMax(f)) /\ ~(eA = 0 /\ eB = 0)
            /\ ~(eA = eB /\ eA \in 1..(expMax(f) - 1))
        BY <1>2, <2>1
      <4> HIDE DEF tA, tB, unit, s
      <4>2. QED
        BY <1>6, <4>1 DEF AddOf
    <3>2. QED
      BY <1>3, <3>1, Zenon
  <2>3. b = Inf(f, s)
    BY <1>6, InfinityIs
  <2>4. a # b
    BY <1>6
  <2>5. AddSpec(f, a, b, mode) = Ret(b, {})
    BY <1>6, <2>4, Zenon DEF AddSpec
  <2>6. QED
    BY <2>2, <2>3, <2>5, Zenon
<1>7. CASE ~nan /\ ~isInf(f, a) /\ ~isInf(f, b)
  <2>1. eA < M /\ eB < M
    BY <1>1, <1>2, <1>7 DEF Kinds
  <2>2. CASE eA = 0 /\ eB = 0
    <3>1. added = Ret(packToUI(f, s, 0, (a + b) % signBit(f)), {})
      <4>1. AddOf(f, a, b, s, mode, eA, eB, tA, tB, unit) = Ret(packToUI(f, s, 0, (a + b) % signBit(f)), {})
        <5>1. eA # expMax(f) /\ ~(eA < expMax(f) /\ eB = expMax(f)) /\ (eA = 0 /\ eB = 0)
              /\ ~(eA = eB /\ eA \in 1..(expMax(f) - 1))
          BY <1>2, <2>1, <2>2
        <5> HIDE DEF tA, tB, unit, s
        <5>2. QED
          BY <1>7, <5>1 DEF AddOf
      <4>2. QED
        BY <1>3, <4>1, Zenon
    <3>2. QED
      BY <1>2, <1>7, <2>2, <3>1, AddSubnormals
  <2>3. CASE ~(eA = 0 /\ eB = 0)
    <3>1. added = RoundedRatio(f, s, Mag(f, a) + Mag(f, b), 1, mode)
      BY <1>2, <2>1, <2>3, AddMagsFinite
    <3>2. Mag(f, a) \in Nat /\ Mag(f, b) \in Nat
      <4>1. PICK h \in Nat \ {0} : hidden(f) = h
        BY DEF FormatLaws
      <4>2. QED
        BY <4>1, WideIs DEF IsWide
    <3>3. ~isZero(f, a) \/ ~isZero(f, b)
      BY <1>2, <2>3, ZeroExp
    <3>4. QED
      BY <1>7, <3>1, <3>2, <3>3, SameSigns
  <2>4. QED
    BY <2>2, <2>3
<1>8. QED
  BY <1>4, <1>5, <1>6, <1>7

\* Scales of scales.
LEMMA ScalesChain ==
  ASSUME NEW x \in Nat, NEW y \in Nat \ {0}, NEW z \in Nat, NEW k \in Int, NEW l \in Int, Scales(x, y, k), Scales(y, z, l)
  PROVE  Scales(x, z, k + l)
<1>1. Scales(x * y, y * z, k + l)
  BY ScalesProduct
<1>2. y * z = z * y
  OBVIOUS
<1>3. Scales(x * y, z * y, k + l)
  BY <1>1, <1>2
<1>4. k + l \in Int
  OBVIOUS
<1>5. QED
  BY <1>3, <1>4, ScalesCancel

-----------------------------------------------------------------------------
(* softfloat_normRoundPackToF32.                                           *)

\* The shift that brings the leading bit of a number into its place.
LEMMA ShiftIs ==
  ASSUME NEW f, IsFormat(f), NEW sig \in Nat \ {0}, sig < top(f)
  PROVE  \E j \in Nat : /\ softfloat_countLeadingZeros32(word(f), sig) - 1 = j
                        /\ sig * 2^j \in Nat /\ IsLeading(f, sig * 2^j)
                        /\ IsNear(f, sig) => j \in 0..1 /\ (j = 1 <=> sig < 2^(f.F + f.G))
<1>1. PICK F \in Nat, G \in Nat, w \in Nat : F = f.F /\ G = f.G /\ w = F + G + 2 /\ w = word(f)
  BY DEF IsFormat, word
<1>2. PICK h \in Nat, u \in Nat, b \in Nat : Sizes(f, h, u, b)
  BY FormatSizes
<1>3. PICK y \in Nat : 2^(F + G) = 2 * y /\ top(f) = 4 * y /\ 2^w = 8 * y /\ 2^(f.F + f.G - 1) = y
  <2>1. /\ 2^(f.F + f.G) = h * (2 * u) /\ 2^(f.F + f.G - 1) = h * u /\ top(f) = 2 * (h * (2 * u))
        /\ 2^word(f) = 4 * (h * (2 * u))
    BY <1>2 DEF Sizes
  <2>2. PICK y \in Nat : y = h * u /\ h * (2 * u) = 2 * y
    OBVIOUS
  <2>3. QED
    BY <1>1, <2>1, <2>2
<1>4. PICK n \in 0..(w - 1), k \in Nat :
        softfloat_countLeadingZeros32(w, sig) = n /\ w = n + k + 1 /\ 2^k <= sig /\ sig < 2 * 2^k
  <2>1. sig < 2^w
    BY <1>3
  <2>2. QED
    BY <2>1, LeadingZeros
<1>5. PICK K \in Nat \ {0} : K = 2^k /\ K <= sig /\ sig < 2 * K
  BY <1>4, PowerPositive
<1>6. k <= F + G
  <2>1. F + G < k => 2 * 2^(F + G) <= 2^k
    BY PowerLess
  <2>2. QED
    BY <1>3, <1>5, <2>1
<1>7. PICK j \in Nat : j = n - 1 /\ F + G = k + j
  <2>1. F \in Nat /\ G \in Nat /\ n \in Nat /\ w = F + G + 2 /\ w = n + k + 1 /\ k <= F + G
    <3>1. w = F + G + 2
      BY <1>1
    <3>2. w = n + k + 1
      BY <1>4
    <3>3. n \in Nat
      OBVIOUS
    <3>4. QED
      BY <1>6, <3>1, <3>2, <3>3
  <2>3. n - 1 \in Nat /\ F + G = k + (n - 1)
    BY <2>1, Z3
  <2>4. QED
    BY <2>3
<1>8. PICK J \in Nat \ {0} : J = 2^j /\ K * J = 2 * y
  <2>1. 2^(k + j) = 2^k * 2^j /\ 2^j \in Nat \ {0}
    BY PowerSum, PowerPositive
  <2>2. QED
    BY <1>3, <1>5, <1>7, <2>1
<1>9. PICK s \in Nat : s = sig * J /\ 2 * y <= s /\ s < 4 * y
  <2>1. J * K <= J * sig /\ J * (sig + 1) <= J * (2 * K)
    BY <1>5, ProductMonotonic
  <2>2. PICK s \in Nat, z \in Nat : s = sig * J /\ z = K * J
    OBVIOUS
  <2>3. J * K = z /\ J * sig = s /\ J * (sig + 1) = s + J /\ J * (2 * K) = 2 * z
    BY <2>2
  <2>4. z = 2 * y
    BY <1>8, <2>2
  <2>5. QED
    BY <2>1, <2>2, <2>3, <2>4
<1>10. IsLeading(f, s)
  BY <1>1, <1>3, <1>9 DEF IsLeading
<1>11. ASSUME IsNear(f, sig) PROVE j \in 0..1 /\ (j = 1 <=> sig < 2^(f.F + f.G))
  <2>1. y <= sig /\ sig < 4 * y
    BY <1>3, <1>11 DEF IsNear
  <2>2. CASE sig < 2 * y
    <3>1. j # 0
      <4>1. j = 0 => J = 1
        BY <1>8, PowerZero
      <4>2. J = 1 => s = sig
        BY <1>9
      <4>3. QED
        BY <1>9, <2>2, <4>1, <4>2
    <3>2. ~(2 <= j)
      <4>1. SUFFICES ASSUME 2 <= j PROVE FALSE
        OBVIOUS
      <4>2. PICK i \in Nat : j = i + 1 /\ 1 <= i
        <5>1. j - 1 \in Nat /\ j = (j - 1) + 1 /\ 1 <= j - 1
          BY <4>1
        <5>2. QED
          BY <5>1
      <4>3. 2^(i + 1) = 2 * 2^i /\ 2^1 <= 2^i /\ 2^i \in Nat
        BY <4>2, PowerNext, PowerLess, PowerPositive
      <4>4. 4 <= J
        BY <1>8, <4>2, <4>3, PowerOne
      <4>5. sig * 4 <= sig * J
        BY <4>4, ProductMonotonic
      <4>6. QED
        BY <1>9, <2>1, <4>5
    <3>3. j = 1
      BY <3>1, <3>2
    <3>4. QED
      BY <1>1, <1>3, <2>2, <3>3
  <2>3. CASE ~(sig < 2 * y)
    <3>1. j = 0
      <4>1. SUFFICES ASSUME j # 0 PROVE FALSE
        OBVIOUS
      <4>2. PICK i \in Nat : j = i + 1
        <5>1. j - 1 \in Nat /\ j = (j - 1) + 1
          BY <4>1
        <5>2. QED
          BY <5>1
      <4>3. 2^(i + 1) = 2 * 2^i /\ 2^i \in Nat \ {0}
        BY PowerNext, PowerPositive
      <4>4. 2 <= J
        BY <1>8, <4>2, <4>3
      <4>5. sig * 2 <= sig * J
        BY <4>4, ProductMonotonic
      <4>6. QED
        BY <1>9, <2>3, <4>5
    <3>2. QED
      BY <1>1, <1>3, <2>3, <3>1
  <2>4. QED
    BY <2>2, <2>3
<1>12. softfloat_countLeadingZeros32(word(f), sig) - 1 = j
  BY <1>1, <1>4, <1>7
<1>13. sig * 2^j = s
  BY <1>8, <1>9
<1>14. QED
  BY <1>10, <1>11, <1>12, <1>13

\* A significand that needs at most one shift is rounded as a sum is.
LEMMA NormPackNear ==
  ASSUME NEW f, IsFormat(f), NEW sign, NEW mode, IsMode(sign, mode), NEW k \in Int,
         NEW s \in Nat \ {0}, IsNear(f, s),
         NEW n \in Nat, NEW d \in Nat \ {0}, NEW v \in Nat, IsGuard(f, v), Stands(s, n, d, v),
         NEW num \in Nat, NEW den \in Nat \ {0}, InUnits(f, num, den, n, d, k)
  PROVE  softfloat_normRoundPackToF32(f, sign, k, s, mode) = RoundedRatio(f, sign, num, den, mode)
<1>1. s < top(f)
  BY DEF IsNear
<1>2. PICK j \in Nat : /\ softfloat_countLeadingZeros32(word(f), s) - 1 = j
                       /\ j \in 0..1 /\ (j = 1 <=> s < 2^(f.F + f.G))
  BY <1>1, ShiftIs
<1>3. ~(f.G <= j)
  BY <1>2 DEF IsFormat
<1>4. softfloat_normRoundPackToF32(f, sign, k, s, mode) = softfloat_roundPackToF32(f, sign, k - j, s * 2^j, mode)
  BY <1>2, <1>3, Zenon DEF softfloat_normRoundPackToF32
<1>5. RoundSum(f, sign, k, s, mode) = softfloat_roundPackToF32(f, sign, k - j, s * 2^j, mode)
  <2>1. CASE s < 2^(f.F + f.G)
    <3>1. Scaled(k, s, 2^(f.F + f.G)) = [exp |-> k - 1, sig |-> 2 * s]
      BY <2>1 DEF Scaled
    <3>2. k - j = k - 1 /\ s * 2^j = 2 * s
      <4>1. j = 1 /\ s * 2 = 2 * s
        BY <1>2, <2>1
      <4>2. QED
        BY <4>1, PowerOne, Zenon
    <3>3. QED
      BY <3>1, <3>2 DEF RoundSum, RoundScaled
  <2>2. CASE ~(s < 2^(f.F + f.G))
    <3>1. Scaled(k, s, 2^(f.F + f.G)) = [exp |-> k, sig |-> s]
      BY <2>2 DEF Scaled
    <3>2. k - j = k /\ s * 2^j = s
      <4>1. j = 0 /\ s * 1 = s /\ k - 0 = k
        BY <1>2, <2>2
      <4>2. QED
        BY <4>1, PowerZero, Zenon
    <3>3. QED
      BY <3>1, <3>2 DEF RoundSum, RoundScaled
  <2>3. QED
    BY <2>1, <2>2
<1>6. RoundSum(f, sign, k, s, mode) = RoundedRatio(f, sign, num, den, mode)
  BY RoundSumIs
<1>7. QED
  BY <1>4, <1>5, <1>6, Zenon

\* A significand that is exact may need any shift: when only zeros are shifted out of the guard
\* bits, the result is packed without rounding.
LEMMA NormPackExact ==
  ASSUME NEW f, IsFormat(f), NEW sign, NEW mode, IsMode(sign, mode), NEW k \in Int,
         NEW s \in Nat \ {0}, s < top(f),
         NEW num \in Nat, NEW den \in Nat \ {0}, InUnits(f, num, den, s, 1, k)
  PROVE  softfloat_normRoundPackToF32(f, sign, k, s, mode) = RoundedRatio(f, sign, num, den, mode)
<1>1. PICK j \in Nat : /\ softfloat_countLeadingZeros32(word(f), s) - 1 = j
                       /\ s * 2^j \in Nat /\ IsLeading(f, s * 2^j)
  BY ShiftIs
<1>2. PICK h \in Nat \ {0}, u \in Nat \ {0}, b \in Nat, g \in Nat \ {0} : Sizes(f, h, u, b) /\ g = 2^f.G /\ g = 2 * u
  <2>1. PICK h \in Nat, u \in Nat, b \in Nat : Sizes(f, h, u, b)
    BY FormatSizes
  <2>2. h # 0 /\ u # 0 /\ 2^f.G = 2 * u
    BY <2>1 DEF Sizes
  <2>3. 2 * u \in Nat \ {0}
    BY <2>2
  <2>4. QED
    BY <2>1, <2>2, <2>3
<1>15. Inf(f, 0) = ((2 * b) - 1) * h
  <2>1. PICK i \in Int : i = sign
    BY DEF IsMode
  <2>2. Sizes(f, h, u, b)
    BY <1>2
  <2>3. QED
    BY <2>1, <2>2, InfIs
<1>3. PICK J \in Nat \ {0}, t \in Nat : J = 2^j /\ Times(s, J, t) /\ IsLeading(f, t) /\ t = s * 2^j
  <2>1. PICK J \in Nat \ {0} : J = 2^j
    BY PowerPositive
  <2>2. QED
    BY <1>1, <2>1 DEF Times
\* num / den is t in units of 2^(k - j) / 2^G.
<1>4. PICK x \in Nat : Times(num, g, x) /\ Scales(x, t * den, k - j)
  <2>1. PICK x \in Nat : x = num * g
    OBVIOUS
  <2>2. Scales(x, s * den, k)
    <3>1. num * (1 * g) = x
      BY <2>1
    <3>2. QED
      BY <1>2, <3>1 DEF InUnits
  <2>3. Scales(s * den, t * den, -j)
    <3>1. Scales(1, J, -j)
      BY <1>3, ScalesPower
    <3>2. s * den \in Nat
      OBVIOUS
    <3>3. Scales(s * den, s * den, 0)
      BY <3>2, ScalesSame
    <3>4. Scales(1 * (s * den), J * (s * den), (-j) + 0)
      <4>1. 1 \in Nat /\ -j \in Int /\ 0 \in Int
        OBVIOUS
      <4>2. QED
        BY <3>1, <3>2, <3>3, <4>1, ScalesProduct
    <3>5. 1 * (s * den) = s * den /\ (-j) + 0 = -j
      OBVIOUS
    <3>6. J * (s * den) = t * den
      <4>1. J * (s * den) = (s * J) * den
        OBVIOUS
      <4>2. QED
        BY <1>3, <4>1 DEF Times
    <3>7. QED
      BY <3>4, <3>5, <3>6, Zenon
  <2>4. PICK y \in Nat \ {0}, z \in Nat : y = s * den /\ z = t * den
    <3>1. s * den \in Nat \ {0} /\ t * den \in Nat
      OBVIOUS
    <3>2. QED
      BY <3>1
  <2>5. Scales(x, z, k + (-j))
    <3>1. Scales(x, y, k) /\ Scales(y, z, -j) /\ -j \in Int
      BY <2>2, <2>3, <2>4
    <3>2. QED
      BY <3>1, ScalesChain
  <2>6. k + (-j) = k - j
    OBVIOUS
  <2>7. QED
    BY <2>1, <2>4, <2>5, <2>6 DEF Times
<1> DEFINE packed == f.G <= j /\ k - j \in 0..(expMax(f) - 3)
<1>5. softfloat_normRoundPackToF32(f, sign, k, s, mode) =
        IF packed THEN Ret(packToUI(f, sign, k - j, s * 2^(j - f.G)), {})
        ELSE softfloat_roundPackToF32(f, sign, k - j, t, mode)
  <2>1. s # 0
    OBVIOUS
  <2>2. QED
    BY <1>1, <1>3, <2>1, Zenon DEF softfloat_normRoundPackToF32
<1>6. CASE packed
  <2>1. PICK G \in Nat, i \in Nat : G = f.G /\ i = j - G /\ j = G + i
    <3>1. f.G \in Nat /\ f.G <= j
      BY <1>6 DEF IsFormat
    <3>2. j - f.G \in Nat /\ j = f.G + (j - f.G)
      BY <3>1
    <3>3. QED
      BY <3>1, <3>2
  <2>2. PICK I \in Nat \ {0} : I = 2^i /\ J = g * I
    <3>1. 2^(G + i) = 2^G * 2^i /\ 2^i \in Nat \ {0}
      BY PowerSum, PowerPositive
    <3>2. QED
      BY <1>2, <1>3, <2>1, <3>1
  <2>3. PICK c \in Nat : c = s * I /\ t = c * g
    <3>1. s * (g * I) = (s * I) * g /\ s * I \in Nat
      OBVIOUS
    <3>2. QED
      BY <1>3, <2>2, <3>1 DEF Times
  <2>4. h <= c /\ c < 2 * h
    <3>1. h * g <= t /\ t < 2 * (h * g)
      <4>1. 2^(f.F + f.G) = h * (2 * u) /\ top(f) = 2 * (h * (2 * u))
        BY <1>2 DEF Sizes
      <4>2. QED
        BY <1>2, <1>3, <4>1 DEF IsLeading
    <3>2. PICK y \in Nat, z \in Nat : y = g * h /\ z = g * c
      OBVIOUS
    <3>3. h * g = y /\ c * g = z /\ g * (2 * h) = 2 * y
      BY <3>2
    <3>4. z < 2 * y /\ y <= z
      BY <2>3, <3>1, <3>3
    <3>5. g * c < g * (2 * h)
      BY <3>2, <3>3, <3>4
    <3>6. c < 2 * h
      BY <3>5, ProductCancel
    <3>7. c < h => g * c < g * h
      <4>1. SUFFICES ASSUME c < h PROVE g * c < g * h
        OBVIOUS
      <4>2. g * (c + 1) <= g * h
        BY <4>1, ProductMonotonic
      <4>3. g * (c + 1) = z + g
        BY <3>2
      <4>4. QED
        BY <3>2, <4>2, <4>3
    <3>8. QED
      BY <3>2, <3>4, <3>6, <3>7
  <2>5. PICK e \in Nat : e = k - j /\ e <= (2 * b) - 4
    <3>1. expMax(f) = (2 * b) - 1
      BY <1>2 DEF Sizes
    <3>2. QED
      BY <1>6, <3>1
  <2>6. PICK P \in Nat \ {0} : P = 2^e
    BY PowerPositive
  <2>7. num = (c * P) * den
    <3>1. x = (t * den) * P
      <4>1. t * den \in Nat
        OBVIOUS
      <4>2. Scales(x, t * den, e)
        BY <1>4, <2>5
      <4>3. QED
        BY <2>6, <4>1, <4>2, ScalesUp
    <3>2. g * num = g * ((c * P) * den)
      <4>1. ((c * g) * den) * P = g * ((c * P) * den) /\ num * g = g * num
        OBVIOUS
      <4>2. x = num * g
        BY <1>4 DEF Times
      <4>3. QED
        BY <2>3, <3>1, <4>1, <4>2, Zenon
    <3>3. (c * P) * den \in Int
      OBVIOUS
    <3>4. QED
      BY <3>2, <3>3, ProductSame
  <2>8. PICK m \in Nat : m = (e * h) + c
    OBVIOUS
  <2>9. Val(f, m) = c * P
    <3>1. hidden(f) = h /\ c \in 0..(2 * h) /\ (e = 0 \/ h <= c)
      <4>1. hidden(f) = h
        BY <1>2 DEF Sizes
      <4>2. QED
        BY <2>4, <4>1
    <3>2. Val(f, (e * h) + c) = c * 2^e
      BY <3>1, ValAt
    <3>3. QED
      BY <2>6, <2>8, <3>2, Zenon
  <2>10. Inf(f, 0) \in Nat /\ m \in 0..(Inf(f, 0) - 1)
    <3>1. Inf(f, 0) = ((2 * b) - 1) * h
      BY <1>15, Zenon
    <3>2. h * e <= h * ((2 * b) - 4)
      BY <2>5, ProductMonotonic
    <3>3. PICK y \in Nat, z \in Int : y = e * h /\ z = b * h
      OBVIOUS
    <3>4. h * e = y /\ h * ((2 * b) - 4) = (2 * z) - (4 * h) /\ ((2 * b) - 1) * h = (2 * z) - h
      BY <3>3
    <3>5. QED
      BY <2>4, <2>8, <3>1, <3>2, <3>3, <3>4
  <2>11. sign * signBit(f) \in Int
    <3>1. sign \in Int
      BY DEF IsMode
    <3>2. QED
      BY <1>2, <3>1, InfIs
  <2>12. RoundedRatio(f, sign, num, den, mode) = Ret((sign * signBit(f)) + m, {})
    <3>1. hidden(f) = h /\ Times(Val(f, m), den, num)
      <4>1. hidden(f) = h
        BY <1>2 DEF Sizes
      <4>2. Times(Val(f, m), den, num)
        BY <2>7, <2>9, Zenon DEF Times
      <4>3. QED
        BY <4>1, <4>2
    <3>2. QED
      BY <2>10, <2>11, <3>1, RoundExact
  <2>13. packToUI(f, sign, k - j, s * 2^(j - f.G)) = (sign * signBit(f)) + m
    <3>1. s * 2^(j - f.G) = c
      BY <2>1, <2>2, <2>3, Zenon
    <3>2. hidden(f) = h
      BY <1>2 DEF Sizes
    <3>3. packToUI(f, sign, k - j, s * 2^(j - f.G)) = sign * signBit(f) + e * h + c
      BY <2>5, <3>1, <3>2, Zenon DEF packToUI
    <3>4. PICK y \in Int, z \in Int : y = sign * signBit(f) /\ z = e * h
      BY <2>11
    <3>5. QED
      BY <2>8, <3>3, <3>4
  <2>14. QED
    BY <1>5, <1>6, <2>12, <2>13, Zenon
<1>7. CASE ~packed
  <2>1. InUnits(f, num, den, t, 1, k - j)
    <3>1. num * (1 * g) = x
      <4>1. 1 * g = g
        OBVIOUS
      <4>2. QED
        BY <1>4, <4>1, Zenon DEF Times
    <3>2. QED
      BY <1>2, <1>4, <3>1, Zenon DEF InUnits
  <2>2. Stands(t, t, 1, 2^(f.G - 1))
    <3>1. 2^(f.G - 1) = u
      BY <1>2 DEF Sizes
    <3>2. QED
      BY <3>1, StandsExact
  <2>3. softfloat_roundPackToF32(f, sign, k - j, t, mode) = RoundedRatio(f, sign, num, den, mode)
    <3>1. IsLeading(f, t) /\ k - j \in Int /\ 1 \in Nat \ {0}
      BY <1>3
    <3>2. QED
      BY <2>1, <2>2, <3>1, RoundPack
  <2>4. QED
    BY <1>5, <1>7, <2>3, Zenon
<1>8. QED
  BY <1>6, <1>7

-----------------------------------------------------------------------------
(* Differences of magnitudes.                                              *)

\* The difference of operands with the same exponent is exact.
LEMMA DiffEqual ==
  ASSUME NEW f, IsFormat(f), NEW h \in Nat \ {0}, NEW u \in Nat \ {0}, NEW b \in Nat, Sizes(f, h, u, b),
         NEW sign, NEW mode, IsMode(sign, mode),
         NEW x \in 1..(h - 1), NEW j \in Nat, NEW m \in Nat, Times(x, 2^j, m)
  PROVE  softfloat_normRoundPackToF32(f, sign, j, x * (2 * u), mode) = RoundedRatio(f, sign, m, 1, mode)
<1>1. PICK s \in Nat \ {0} : s = x * (2 * u) /\ s < top(f)
  <2>1. top(f) = 2 * (h * (2 * u))
    BY DEF Sizes
  <2>2. (2 * u) * 1 <= (2 * u) * x /\ (2 * u) * x <= (2 * u) * h
    BY ProductMonotonic
  <2>3. PICK y \in Nat, z \in Nat : y = x * (2 * u) /\ z = h * (2 * u)
    OBVIOUS
  <2>4. (2 * u) * 1 = 2 * u /\ (2 * u) * x = y /\ (2 * u) * h = z
    BY <2>3
  <2>5. 2 * u <= y /\ y <= z
    BY <2>2, <2>4
  <2>6. y \in Nat \ {0} /\ y < 2 * z
    BY <2>5
  <2>7. QED
    BY <2>1, <2>3, <2>6
<1>2. InUnits(f, m, 1, s, 1, j)
  <2>1. PICK P \in Nat \ {0} : P = 2^j
    BY PowerPositive
  <2>2. m = x * P
    BY <2>1 DEF Times
  <2>3. (m * (1 * (2 * u))) * 1 = (s * 1) * P
    <3>1. ((x * P) * (1 * (2 * u))) * 1 = ((x * (2 * u)) * 1) * P
      OBVIOUS
    <3>2. QED
      BY <1>1, <2>2, <3>1, Zenon
  <2>4. 2^f.G = 2 * u
    BY DEF Sizes
  <2>5. (m * (1 * 2^f.G)) * 2^0 = (s * 1) * 2^j
    BY <2>1, <2>3, <2>4, PowerZero, Zenon
  <2>6. j - 0 = j
    OBVIOUS
  <2>7. QED
    BY <2>5, <2>6 DEF InUnits, Scales
<1>3. j \in Int /\ 1 \in Nat \ {0}
  OBVIOUS
<1>4. softfloat_normRoundPackToF32(f, sign, j, s, mode) = RoundedRatio(f, sign, m, 1, mode)
  BY <1>1, <1>2, <1>3, NormPackExact
<1>5. QED
  BY <1>1, <1>4, Zenon

\* s is not zero, and softfloat_normRoundPackToF32 makes of it the magnitude m rounded.
IsDifference(f, sign, mode, e, s, m) ==
  s > 0 /\ softfloat_normRoundPackToF32(f, sign, e, s, mode) = RoundedRatio(f, sign, m, 1, mode)

\* So it does of the difference of two significands, k exponents apart.
IsSubtracted(f, sign, mode, u, WL, WH, k, e, mL, mH) ==
  /\ mL < mH
  /\ \E s \in Nat \ {0} : /\ s = (WH * (2 * u)) - softfloat_shift32RightJam(word(f), WL * (2 * u), k)
                          /\ IsDifference(f, sign, mode, e - 1, s, mH - mL)

\* The smaller operand is shifted to the exponent of the larger one, jammed and subtracted.
LEMMA DiffUnequal ==
  ASSUME NEW f, IsFormat(f), NEW h \in Nat \ {0}, NEW u \in Nat \ {0}, NEW b \in Nat, Sizes(f, h, u, b),
         NEW sign, NEW mode, IsMode(sign, mode),
         NEW WL \in 0..((2 * h) - 1), NEW WH \in h..((2 * h) - 1), NEW eL \in Nat, NEW k \in Nat \ {0},
         NEW eH \in Nat, eH = eL + k,
         NEW mL \in Nat, Times(WL, 2^eL, 2 * mL), NEW mH \in Nat, Times(WH, 2^eH, 2 * mH)
  PROVE  IsSubtracted(f, sign, mode, u, WL, WH, k, eH, mL, mH)
<1>1. PICK y \in Nat : /\ Times(h, u, y) /\ 2^(f.F + f.G - 1) = y /\ top(f) = 4 * y /\ 2^word(f) = 8 * y
                       /\ y % 2 = 0 /\ y # 0
  <2>1. 2^(f.F + f.G - 1) = h * u /\ top(f) = 2 * (h * (2 * u)) /\ 2^word(f) = 4 * (h * (2 * u)) /\ u % 4 = 0
    BY DEF Sizes
  <2>2. PICK y \in Nat : y = h * u /\ 2 * (h * (2 * u)) = 4 * y /\ 4 * (h * (2 * u)) = 8 * y
    OBVIOUS
  <2>3. PICK v \in Nat : u = 2 * v
    <3>1. u \div 2 \in Nat /\ u = 2 * (u \div 2)
      BY <2>1
    <3>2. QED
      BY <3>1
  <2>4. PICK z \in Nat : z = h * v
    OBVIOUS
  <2>5. y = 2 * z
    BY <2>2, <2>3, <2>4
  <2>6. y % 2 = 0
    BY <2>5
  <2>7. y # 0
    <3>1. u * 1 <= u * h
      BY ProductMonotonic
    <3>2. u * h = y
      BY <2>2
    <3>3. QED
      BY <3>1, <3>2
  <2>8. QED
    BY <2>1, <2>2, <2>6, <2>7 DEF Times
<1>2. PICK v \in Nat : IsGuard(f, v) /\ v % 2 = 0 /\ u = 2 * v /\ 2^f.G = 2 * u
  <2>1. 2^(f.G - 1) = u /\ u % 4 = 0 /\ 2^f.G = 2 * u
    BY DEF Sizes
  <2>2. u \div 2 \in Nat /\ u = 2 * (u \div 2) /\ (u \div 2) % 2 = 0
    BY <2>1
  <2>3. QED
    BY <2>1, <2>2 DEF IsGuard
<1>3. PICK A \in Nat, C \in Nat, i \in Nat :
         /\ Times(WL, 2 * u, A) /\ Times(WH, 2 * u, C) /\ Times(WL, u, i)
         /\ A = 2 * i /\ A < 4 * y /\ 2 * y <= C /\ C < 4 * y /\ C % 2 = 0
  <2>1. u * WL <= u * ((2 * h) - 1) /\ u * h <= u * WH /\ u * WH <= u * ((2 * h) - 1)
    BY ProductMonotonic
  <2>2. PICK i \in Nat, c \in Nat : i = WL * u /\ c = WH * u
    OBVIOUS
  <2>3. u * WL = i /\ u * WH = c /\ u * h = y /\ u * ((2 * h) - 1) = (2 * y) - u
    BY <1>1, <2>2 DEF Times
  <2>4. WL * (2 * u) = 2 * i /\ WH * (2 * u) = 2 * c
    BY <2>2
  <2>5. i < 2 * y /\ y <= c /\ c < 2 * y
    BY <2>1, <2>3
  <2>6. 2 * i < 4 * y /\ 2 * y <= 2 * c /\ 2 * c < 4 * y /\ (2 * c) % 2 = 0 /\ 2 * i \in Nat /\ 2 * c \in Nat
    BY <2>5
  <2>7. QED
    BY <2>2, <2>4, <2>6 DEF Times
<1>4. PICK D \in Nat \ {0} : D = 2^k /\ D >= 2 /\ (k = 1 => D = 2) /\ (k # 1 => D >= 4)
  <2>1. PICK l \in Nat : k = l + 1
    <3>1. k - 1 \in Nat /\ k = (k - 1) + 1
      OBVIOUS
    <3>2. QED
      BY <3>1
  <2>2. PICK L \in Nat \ {0} : L = 2^l /\ 2^k = 2 * L
    BY <2>1, PowerNext, PowerPositive
  <2>3. l = 0 => L = 1
    BY <2>2, PowerZero
  <2>4. l # 0 => L >= 2
    <3>1. SUFFICES ASSUME l # 0 PROVE L >= 2
      OBVIOUS
    <3>2. PICK q \in Nat : l = q + 1
      <4>1. l - 1 \in Nat /\ l = (l - 1) + 1
        BY <3>1
      <4>2. QED
        BY <4>1
    <3>3. PICK Q \in Nat \ {0} : 2^l = 2 * Q
      BY <3>2, PowerNext, PowerPositive
    <3>4. QED
      BY <2>2, <3>3
  <2>5. QED
    BY <2>1, <2>2, <2>3, <2>4
<1>5. PICK z \in Nat : z = C * D /\ A <= z /\ 2 * C <= z
  <2>1. C * 2 <= C * D
    BY <1>4, ProductMonotonic
  <2>2. PICK z \in Nat : z = C * D
    OBVIOUS
  <2>3. QED
    BY <1>3, <2>1, <2>2
<1>6. PICK n \in Nat : n = z - A /\ JamOf(n, D) = C - JamOf(A, D)
  <2>1. PICK n \in Nat : n = z - A
    BY <1>5
  <2>2. C % 2 = 0 /\ Times(C, D, z)
    BY <1>3, <1>5 DEF Times
  <2>3. JamOf(n, D) = C - JamOf(A, D)
    BY <2>1, <2>2, JamMinus
  <2>4. QED
    BY <2>1, <2>3
<1>7. softfloat_shift32RightJam(word(f), A, k) = JamOf(A, D)
  <2>1. word(f) \in Nat
    BY DEF word, IsFormat
  <2>2. A < 2^word(f)
    BY <1>1, <1>3
  <2>3. QED
    BY <1>4, <2>1, <2>2, ShiftJams
<1>8. PICK P \in Nat \ {0}, Q \in Nat \ {0} : P = 2^eL /\ Q = 2^eH /\ Q = P * D
  <2>1. 2^eL \in Nat \ {0} /\ 2^eH \in Nat \ {0}
    BY PowerPositive
  <2>2. 2^(eL + k) = 2^eL * 2^k
    BY PowerSum
  <2>3. QED
    BY <1>4, <2>1, <2>2
<1>9. 2 * mL = WL * P /\ 2 * mH = WH * Q
  BY <1>8 DEF Times
<1>10. mL < mH
  <2>1. P * (WL + 1) <= P * (2 * h) /\ P * 2 <= P * D /\ Q * h <= Q * WH
    BY <1>4, ProductMonotonic
  <2>2. PICK p \in Nat, q \in Nat : p = P * h /\ q = Q * h
    OBVIOUS
  <2>3. h * (P * 2) <= h * Q
    <3>1. P * 2 <= Q
      BY <1>8, <2>1
    <3>2. QED
      BY <3>1, ProductMonotonic
  <2>4. P * (WL + 1) = (WL * P) + P /\ P * (2 * h) = 2 * p /\ Q * WH = WH * Q /\ h * (P * 2) = 2 * p /\ h * Q = q
    BY <2>2
  <2>5. (2 * mL) + P <= 2 * p /\ 2 * p <= q /\ q <= 2 * mH
    BY <1>9, <2>1, <2>2, <2>3, <2>4
  <2>6. QED
    BY <2>5
<1>11. PICK m \in Nat : m = mH - mL
  BY <1>10
<1>12. (m * (D * (2 * u))) * 2 = n * Q
  <2>1. ((2 * mH) - (2 * mL)) * (D * (2 * u)) = (m * (D * (2 * u))) * 2
    <3>1. (2 * mH) - (2 * mL) = 2 * m
      BY <1>11
    <3>2. (2 * m) * (D * (2 * u)) = (m * (D * (2 * u))) * 2
      OBVIOUS
    <3>3. QED
      BY <3>1, <3>2, Zenon
  <2>2. ((WH * Q) - (WL * P)) * (D * (2 * u)) = (((WH * (2 * u)) * D) * Q) - ((WL * (2 * u)) * (P * D))
    OBVIOUS
  <2>3. ((WH * (2 * u)) * D) * Q = z * Q /\ (WL * (2 * u)) * (P * D) = A * Q
    BY <1>3, <1>5, <1>8, Zenon DEF Times
  <2>4. (z * Q) - (A * Q) = (z - A) * Q
    OBVIOUS
  <2>5. QED
    BY <1>6, <1>9, <2>1, <2>2, <2>3, <2>4, Zenon
<1>13. \E s \in Nat \ {0} : s = C - JamOf(A, D) /\ IsDifference(f, sign, mode, eH - 1, s, m)
  <2>1. CASE k = 1
    <3>1. D = 2
      BY <1>4, <2>1
    <3>2. JamOf(A, D) = i
      BY <1>3, <3>1, JamExact
    <3>3. PICK s \in Nat \ {0} : s = C - i /\ s < top(f) /\ n = 2 * s
      <4>1. C - i \in Nat \ {0} /\ C - i < 4 * y
        BY <1>1, <1>3
      <4>2. z = C * 2
        BY <1>5, <3>1
      <4>3. n = 2 * (C - i)
        BY <1>3, <1>6, <4>2
      <4>4. QED
        BY <1>1, <4>1, <4>3
    <3>4. InUnits(f, m, 1, s, 1, eH - 1)
      <4>1. ((m * (2 * (2 * u))) * 2) = (2 * s) * Q
        BY <1>12, <3>1, <3>3, Zenon
      <4>2. (m * (2 * (2 * u))) * 2 = 2 * ((m * (1 * (2 * u))) * 2) /\ (2 * s) * Q = 2 * ((s * 1) * Q)
        OBVIOUS
      <4>3. PICK p \in Int, q \in Int : p = (m * (1 * (2 * u))) * 2 /\ q = (s * 1) * Q
        OBVIOUS
      <4>4. p = q
        BY <4>1, <4>2, <4>3
      <4>5. (m * (1 * 2^f.G)) * 2^1 = (s * 1) * 2^eH
        BY <1>2, <1>8, <4>3, <4>4, PowerOne, Zenon
      <4>6. QED
        BY <4>5 DEF InUnits, Scales
    <3>5. eH - 1 \in Int /\ 1 \in Nat \ {0}
      OBVIOUS
    <3>6. softfloat_normRoundPackToF32(f, sign, eH - 1, s, mode) = RoundedRatio(f, sign, m, 1, mode)
      BY <3>3, <3>4, <3>5, NormPackExact
    <3>7. s > 0
      OBVIOUS
    <3>8. QED
      BY <3>2, <3>3, <3>6, <3>7 DEF IsDifference
  <2>2. CASE k # 1
    <3>1. PICK j \in Nat : j = JamOf(A, D) /\ j < y
      <4>1. JamOf(A, D) \in Nat /\ \A T \in Nat : T % 2 = 0 => (A < T * D <=> JamOf(A, D) < T) /\ (A = T * D <=> JamOf(A, D) = T)
        BY JamCompares
      <4>2. A < y * D
        <5>1. y * 4 <= y * D
          BY <1>4, <2>2, ProductMonotonic
        <5>2. PICK p \in Nat : p = y * D
          OBVIOUS
        <5>3. QED
          BY <1>3, <5>1, <5>2
      <4>3. JamOf(A, D) < y
        BY <1>1, <4>1, <4>2
      <4>4. QED
        BY <4>1, <4>3
    <3>2. PICK s \in Nat \ {0} : s = C - j /\ IsNear(f, s)
      <4>1. C - j \in Nat \ {0} /\ y <= C - j /\ C - j < 4 * y
        BY <1>1, <1>3, <3>1
      <4>2. QED
        BY <1>1, <4>1 DEF IsNear
    <3>3. Stands(s, n, D, v)
      <4>1. Stands(JamOf(n, D), n, D, v)
        BY <1>2, JamStands
      <4>2. QED
        BY <1>6, <3>1, <3>2, <4>1
    <3>4. InUnits(f, m, 1, n, D, eH - 1)
      <4>1. (n * 1) * Q = n * Q
        OBVIOUS
      <4>2. (m * (D * 2^f.G)) * 2^1 = (n * 1) * 2^eH
        BY <1>2, <1>8, <1>12, <4>1, PowerOne, Zenon
      <4>3. QED
        BY <4>2 DEF InUnits, Scales
    <3>5. eH - 1 \in Int /\ 1 \in Nat \ {0}
      OBVIOUS
    <3>6. softfloat_normRoundPackToF32(f, sign, eH - 1, s, mode) = RoundedRatio(f, sign, m, 1, mode)
      <4>1. IsGuard(f, v)
        BY <1>2
      <4>2. QED
        BY <3>2, <3>3, <3>4, <3>5, <4>1, NormPackNear
    <3>7. s > 0
      OBVIOUS
    <3>8. QED
      BY <3>1, <3>2, <3>6, <3>7 DEF IsDifference
  <2>3. QED
    BY <2>1, <2>2
<1>14. (WH * (2 * u)) - softfloat_shift32RightJam(word(f), WL * (2 * u), k) = C - JamOf(A, D)
  BY <1>3, <1>7, Zenon DEF Times
<1>15. QED
  BY <1>10, <1>11, <1>13, <1>14, Zenon DEF IsSubtracted

\* The steps of softfloat_subMagsF32, with the fields of its operands given: the difference ...
DiffOf(f, eA, eB, tA, tB, unit) ==
  LET aligned(exp, sig, n) ==
        softfloat_shift32RightJam(word(f), sig + (IF exp # 0 THEN unit ELSE sig), n)
  IN CASE eA = eB -> tA - tB
       [] eA > eB -> tA + unit - aligned(eB, tB, eA - eB)
       [] OTHER   -> aligned(eA, tA, eB - eA) - (tB + unit)

\* ... how it is returned ...
PackDiff(f, s, diff, expZ, mode) ==
  IF diff = 0 THEN Ret(Zero(f, Bit(mode = "min")), {})
  ELSE softfloat_normRoundPackToF32(f, IF diff < 0 THEN 1 - s ELSE s, expZ - 1,
                                    IF diff < 0 THEN -diff ELSE diff, mode)

\* ... and the operands that are settled before.
SubOf(f, a, b, s, mode, eA, eB, diff) ==
  LET expZ == IF eA = 0 /\ eB = 0 THEN 1 ELSE IF eA < eB THEN eB ELSE eA
  IN IF isNaNUI(f, a) \/ isNaNUI(f, b) THEN softfloat_propagateNaNF32UI(f, a, b)
     ELSE CASE eA = expMax(f) /\ eB = expMax(f) -> Invalid(f)
            [] eA = expMax(f) /\ eB < eA -> Ret(a, {})
            [] eB = expMax(f) /\ eA < eB -> Ret(Inf(f, 1 - s), {})
            [] OTHER -> PackDiff(f, s, diff, expZ, mode)

\* The function is its steps.
LEMMA SubMagsSteps ==
  ASSUME NEW f, NEW a, NEW b, NEW s, NEW mode
  PROVE  softfloat_subMagsF32(f, a, b, s, mode) =
           SubOf(f, a, b, s, mode, expUI(f, a), expUI(f, b),
                 DiffOf(f, expUI(f, a), expUI(f, b), fracUI(f, a) * 2^f.G, fracUI(f, b) * 2^f.G, 2^(f.F + f.G)))
BY Zenon DEF softfloat_subMagsF32, SubOf, DiffOf, PackDiff

\* The difference of the magnitudes mA and mB, with the sign s when mA is the larger one.
Difference(f, s, mA, mB, mode) ==
  IF mA = mB THEN Ret(Zero(f, Bit(mode = "min")), {})
  ELSE IF mB < mA THEN RoundedRatio(f, s, mA - mB, 1, mode) ELSE RoundedRatio(f, 1 - s, mB - mA, 1, mode)

\* The sum of two finite operands of different signs is the difference of their magnitudes.
LEMMA DifferentSigns ==
  ASSUME NEW f, FormatLaws(f), NEW mode, NEW a \in Patterns(f), NEW b \in Patterns(f),
         signUI(f, a) # signUI(f, b), ~isNaNUI(f, a), ~isNaNUI(f, b), ~isInf(f, a), ~isInf(f, b),
         Mag(f, a) \in Nat, Mag(f, b) \in Nat
  PROVE  AddSpec(f, a, b, mode) = Difference(f, signUI(f, a), Mag(f, a), Mag(f, b), mode)
<1>1. PICK mA \in Nat, mB \in Nat : mA = Mag(f, a) /\ mB = Mag(f, b)
  OBVIOUS
<1>2. signUI(f, a) \in 0..1 /\ signUI(f, b) \in 0..1
  BY SignIs
<1>3. AddSpec(f, a, b, mode) = RoundedSum(f, SVal(f, a) + SVal(f, b), 1, mode)
  <2>1. a # b
    OBVIOUS
  <2>2. QED
    BY <2>1, Zenon DEF AddSpec
<1>4. CASE signUI(f, a) = 0
  <2>1. SVal(f, a) + SVal(f, b) = mA - mB
    BY <1>1, <1>2, <1>4 DEF SVal
  <2>2. /\ (mA - mB = 0 <=> mA = mB)
        /\ mB < mA => Sign(mA - mB) = 0 /\ Abs(mA - mB) = mA - mB
        /\ (~(mB < mA) /\ mA # mB) => Sign(mA - mB) = 1 /\ Abs(mA - mB) = mB - mA
    BY <1>1 DEF Sign, Abs, Bit
  <2>3. 1 - 0 = 1
    OBVIOUS
  <2>4. RoundedSum(f, mA - mB, 1, mode) = Difference(f, 0, mA, mB, mode)
    BY <2>2, <2>3, Zenon DEF RoundedSum, Difference
  <2>5. QED
    BY <1>1, <1>3, <1>4, <2>1, <2>4, Zenon
<1>5. CASE signUI(f, a) = 1
  <2>1. SVal(f, a) + SVal(f, b) = mB - mA
    BY <1>1, <1>2, <1>5 DEF SVal
  <2>2. /\ (mB - mA = 0 <=> mA = mB)
        /\ mB < mA => Sign(mB - mA) = 1 /\ Abs(mB - mA) = mA - mB
        /\ (~(mB < mA) /\ mA # mB) => Sign(mB - mA) = 0 /\ Abs(mB - mA) = mB - mA
    BY <1>1 DEF Sign, Abs, Bit
  <2>3. 1 - 1 = 0
    OBVIOUS
  <2>4. RoundedSum(f, mB - mA, 1, mode) = Difference(f, 1, mA, mB, mode)
    BY <2>2, <2>3, Zenon DEF RoundedSum, Difference
  <2>5. QED
    BY <1>1, <1>3, <1>5, <2>1, <2>4, Zenon
<1>6. QED
  BY <1>2, <1>4, <1>5

\* The difference of two fractions with their guard bits.
IsGap(x, y, u, d) == d = (x * (2 * u)) - (y * (2 * u))

\* m and n are as far apart as x and y.
SameGap(m, n, x, y) == m - n = x - y

\* A larger fraction less a smaller one.
LEMMA SubLarger ==
  ASSUME NEW f, IsFormat(f), NEW h \in Nat \ {0}, NEW u \in Nat \ {0}, NEW c \in Nat, Sizes(f, h, u, c),
         NEW j \in Nat, NEW x \in Nat, NEW y \in Nat, x < h, y < x,
         NEW vx \in Nat, NEW vy \in Nat, Times(x, 2^j, vx), Times(y, 2^j, vy),
         NEW r \in Int, IsGap(x, y, u, r), NEW v \in Int, v = vx - vy, NEW t, NEW mode, IsMode(t, mode)
  PROVE  v > 0 /\ IsDifference(f, t, mode, j, r, v)
<1>1. PICK P \in Nat \ {0} : P = 2^j
  BY PowerPositive
<1>2. PICK z \in 1..(h - 1) : z = x - y
  OBVIOUS
<1>3. (x * (2 * u)) - (y * (2 * u)) = z * (2 * u)
  BY <1>2
<1>4. PICK m \in Nat : m = z * P
  OBVIOUS
<1>11. Times(z, 2^j, m) /\ vx - vy = m /\ m > 0
  <2>1. vx = x * P /\ vy = y * P
    BY <1>1 DEF Times
  <2>2. (x * P) - (y * P) = z * P
    BY <1>2
  <2>3. P * 1 <= P * z
    BY ProductMonotonic
  <2>4. m # 0
    BY <1>4, <2>3
  <2>5. vx - vy = m
    BY <1>4, <2>1, <2>2, Zenon
  <2>6. Times(z, 2^j, m)
    BY <1>1, <1>4, Zenon DEF Times
  <2>7. QED
    BY <2>4, <2>5, <2>6
<1>5. IsMode(t, mode)
  BY DEF IsMode
<1>6. softfloat_normRoundPackToF32(f, t, j, z * (2 * u), mode) = RoundedRatio(f, t, m, 1, mode)
  BY <1>5, <1>11, DiffEqual
<1>7. z * (2 * u) > 0
  <2>1. u * 1 <= u * z
    BY ProductMonotonic
  <2>2. PICK q \in Nat : q = u * z
    OBVIOUS
  <2>3. z * (2 * u) = 2 * q
    BY <2>2
  <2>4. QED
    BY <2>1, <2>2, <2>3
<1>9. r = z * (2 * u) /\ v = m
  <2>1. r = (x * (2 * u)) - (y * (2 * u))
    BY DEF IsGap
  <2>2. QED
    BY <1>3, <1>11, <2>1
<1>10. QED
  BY <1>6, <1>7, <1>9, <1>11, Zenon DEF IsDifference

\* Operands with the same exponent.
LEMMA SubSameExp ==
  ASSUME NEW f, IsFormat(f), NEW h \in Nat \ {0}, NEW u \in Nat \ {0}, NEW c \in Nat, Sizes(f, h, u, c),
         NEW s, s \in 0..1, NEW mode \in RoundingModes,
         NEW xA \in 0..(h - 1), NEW xB \in 0..(h - 1), NEW j \in Nat,
         NEW mA \in Nat, NEW mB \in Nat, NEW yA \in Nat, NEW yB \in Nat,
         Times(xA, 2^j, yA), Times(xB, 2^j, yB), SameGap(mA, mB, yA, yB),
         NEW e \in Nat, e = j + 1, NEW d \in Int, IsGap(xA, xB, u, d)
  PROVE  PackDiff(f, s, d, e, mode) = Difference(f, s, mA, mB, mode)
<1>10. mA - mB = yA - yB
  BY DEF SameGap
<1>2. PICK P \in Nat \ {0} : P = 2^j
  BY PowerPositive
<1>3. e - 1 = j
  OBVIOUS
<1>1. d = (xA * (2 * u)) - (xB * (2 * u))
  BY DEF IsGap
<1>4. CASE xA = xB
  <2>1. PICK z \in Nat : z = xA * (2 * u)
    OBVIOUS
  <2>2. (xA * (2 * u)) - (xB * (2 * u)) = 0
    BY <1>4, <2>1
  <2>3. yA = yB
    BY <1>4, Zenon DEF Times
  <2>4. mA = mB
    BY <1>10, <2>3
  <2>5. QED
    BY <1>1, <2>2, <2>4 DEF PackDiff, Difference
<1>7. CASE xB < xA
  <2>1. PICK v \in Int : v = yA - yB
    OBVIOUS
  <2>2. v > 0 /\ IsDifference(f, s, mode, j, d, v)
    <3>1. xA \in Nat /\ xB \in Nat /\ xA < h /\ IsMode(s, mode)
      BY DEF IsMode
    <3>2. QED
      BY <1>7, <2>1, <3>1, SubLarger
  <2>3. d > 0 /\ softfloat_normRoundPackToF32(f, s, j, d, mode) = RoundedRatio(f, s, v, 1, mode)
    BY <2>2, Zenon DEF IsDifference
  <2>4. d # 0 /\ ~(d < 0) /\ mA # mB /\ mB < mA /\ mA - mB = v
    BY <1>10, <2>1, <2>2, <2>3
  <2>5. PackDiff(f, s, d, e, mode) = softfloat_normRoundPackToF32(f, s, j, d, mode)
    BY <1>3, <2>4, Zenon DEF PackDiff
  <2>6. Difference(f, s, mA, mB, mode) = RoundedRatio(f, s, v, 1, mode)
    BY <2>4, Zenon DEF Difference
  <2>7. QED
    BY <2>3, <2>5, <2>6, Zenon
<1>8. CASE xA < xB
  <2>1. PICK r \in Int, v \in Int : r = -d /\ v = yB - yA
    OBVIOUS
  <2>2. PICK t \in 0..1 : t = 1 - s
    OBVIOUS
  <2>3. v > 0 /\ IsDifference(f, t, mode, j, r, v)
    <3>1. xA \in Nat /\ xB \in Nat /\ xB < h /\ IsMode(t, mode)
      BY DEF IsMode
    <3>2. IsGap(xB, xA, u, r)
      <4>1. PICK y \in Nat, z \in Nat : y = xA * (2 * u) /\ z = xB * (2 * u)
        OBVIOUS
      <4>2. r = z - y
        BY <1>1, <2>1, <4>1
      <4>3. QED
        BY <4>1, <4>2, Zenon DEF IsGap
    <3>3. QED
      BY <1>8, <2>1, <3>1, <3>2, SubLarger
  <2>4. r > 0 /\ softfloat_normRoundPackToF32(f, t, j, r, mode) = RoundedRatio(f, t, v, 1, mode)
    BY <2>3, Zenon DEF IsDifference
  <2>5. d # 0 /\ d < 0 /\ -d = r /\ mA # mB /\ ~(mB < mA) /\ mB - mA = v
    BY <1>10, <2>1, <2>3, <2>4
  <2>6. PackDiff(f, s, d, e, mode) = softfloat_normRoundPackToF32(f, t, j, r, mode)
    BY <1>3, <2>2, <2>5, Zenon DEF PackDiff
  <2>7. Difference(f, s, mA, mB, mode) = RoundedRatio(f, t, v, 1, mode)
    BY <2>2, <2>5, Zenon DEF Difference
  <2>8. QED
    BY <2>4, <2>6, <2>7, Zenon
<1>9. QED
  BY <1>4, <1>7, <1>8

\* A significand shifted right fits.
LEMMA AlignedIs ==
  ASSUME NEW f, IsFormat(f), NEW h \in Nat \ {0}, NEW u \in Nat \ {0}, NEW c \in Nat, Sizes(f, h, u, c),
         NEW g \in Nat, g = 2 * u, NEW W \in 0..((2 * h) - 1), NEW k \in Nat \ {0}
  PROVE  softfloat_shift32RightJam(word(f), W * g, k) \in Nat
<1>1. word(f) \in Nat /\ W * g \in Nat
  BY DEF word, IsFormat
<1>2. W * g < 2^word(f)
  <2>1. 2^word(f) = 4 * (h * (2 * u)) /\ g = 2 * u
    BY DEF Sizes
  <2>2. g * W <= g * ((2 * h) - 1)
    BY ProductMonotonic
  <2>3. PICK y \in Nat, z \in Nat : y = g * h /\ z = g * W
    OBVIOUS
  <2>4. g * ((2 * h) - 1) = (2 * y) - g /\ 4 * (h * g) = 4 * y /\ W * g = z
    BY <2>3
  <2>5. g # 0
    BY <2>1
  <2>6. QED
    BY <2>1, <2>2, <2>3, <2>4, <2>5
<1>3. softfloat_shift32RightJam(word(f), W * g, k) = JamOf(W * g, 2^k)
  BY <1>1, <1>2, ShiftJams
<1>4. 2^k \in Nat \ {0}
  BY PowerPositive
<1>5. PICK y \in Nat, d \in Nat \ {0} : y = W * g /\ d = 2^k
  BY <1>1, <1>4
<1>6. JamOf(y, d) \in Nat
  BY JamCompares
<1>7. QED
  BY <1>3, <1>5, <1>6, Zenon

\* The magnitudes of two finite operands are subtracted and the difference rounded once.
LEMMA SubMagsFinite ==
  ASSUME NEW f, IsFormat(f), FormatLaws(f), NEW mode \in RoundingModes, NEW a \in Patterns(f), NEW b \in Patterns(f),
         expUI(f, a) < expMax(f), expUI(f, b) < expMax(f)
  PROVE  softfloat_subMagsF32(f, a, b, signUI(f, a), mode)
           = Difference(f, signUI(f, a), Mag(f, a), Mag(f, b), mode)
<1>1. PICK h \in Nat \ {0}, u \in Nat \ {0}, c \in Nat, g \in Nat :
        Sizes(f, h, u, c) /\ hidden(f) = h /\ 2^f.G = g /\ g = 2 * u /\ 2^(f.F + f.G) = h * g
  <2>1. PICK h \in Nat, u \in Nat, c \in Nat : Sizes(f, h, u, c)
    BY FormatSizes
  <2>2. h # 0 /\ u # 0 /\ hidden(f) = h /\ 2^f.G = 2 * u /\ 2^(f.F + f.G) = h * (2 * u)
    BY <2>1 DEF Sizes
  <2>3. 2 * u \in Nat
    BY <2>2
  <2>4. QED
    BY <2>1, <2>2, <2>3
<1>2. PICK eA \in Nat, WA \in Nat : IsTerm(f, a, h, g, eA, WA)
  BY <1>1, TermIs
<1>3. PICK eB \in Nat, WB \in Nat : IsTerm(f, b, h, g, eB, WB)
  BY <1>1, TermIs
<1>4. PICK mA \in Nat, xA \in 0..(h - 1) : /\ mA = Mag(f, a) /\ xA = fracUI(f, a) /\ eA = expUI(f, a)
                                           /\ Times(WA, 2^eA, 2 * mA) /\ WA = Wider(h, eA, xA)
                                           /\ WA \in 0..((2 * h) - 1) /\ (eA # 0 => h <= WA)
  BY <1>2 DEF IsTerm, IsWide
<1>5. PICK mB \in Nat, xB \in 0..(h - 1) : /\ mB = Mag(f, b) /\ xB = fracUI(f, b) /\ eB = expUI(f, b)
                                           /\ Times(WB, 2^eB, 2 * mB) /\ WB = Wider(h, eB, xB)
                                           /\ WB \in 0..((2 * h) - 1) /\ (eB # 0 => h <= WB)
  BY <1>3 DEF IsTerm, IsWide
<1>6. PICK s \in 0..1, t \in 0..1 : s = signUI(f, a) /\ t = 1 - s /\ IsMode(s, mode) /\ IsMode(t, mode)
  <2>1. PICK s \in 0..1 : s = signUI(f, a)
    BY SignIs
  <2>2. 1 - s \in 0..1
    OBVIOUS
  <2>3. QED
    BY <2>1, <2>2 DEF IsMode
<1>7. ~isNaNUI(f, a) /\ ~isNaNUI(f, b) /\ eA # expMax(f) /\ eB # expMax(f)
  <2>1. expMax(f) \in Int /\ expUI(f, a) # expMax(f) /\ expUI(f, b) # expMax(f)
    BY <1>4, <1>5 DEF expMax, FormatLaws
  <2>2. QED
    BY <1>4, <1>5, <2>1 DEF isNaNUI
<1> DEFINE X == (xA * g) + (IF eA # 0 THEN h * g ELSE xA * g)
           Y == (xB * g) + (IF eB # 0 THEN h * g ELSE xB * g)
           jA == softfloat_shift32RightJam(word(f), X, eB - eA)
           jB == softfloat_shift32RightJam(word(f), Y, eA - eB)
           diff == DiffOf(f, eA, eB, xA * g, xB * g, h * g)
           expZ == IF eA = 0 /\ eB = 0 THEN 1 ELSE IF eA < eB THEN eB ELSE eA
<1>8. softfloat_subMagsF32(f, a, b, s, mode) = PackDiff(f, s, diff, expZ, mode)
  <2>1. softfloat_subMagsF32(f, a, b, s, mode) = SubOf(f, a, b, s, mode, eA, eB, diff)
    BY <1>1, <1>4, <1>5, SubMagsSteps, Zenon
  <2>2. SubOf(f, a, b, s, mode, eA, eB, diff) = PackDiff(f, s, diff, expZ, mode)
    <3> HIDE DEF diff
    <3> QED
      BY <1>7 DEF SubOf
  <2>3. QED
    BY <2>1, <2>2, Zenon
<1>9. X = WA * g /\ Y = WB * g
  BY <1>2, <1>3, <1>4, <1>5, Zenon DEF IsTerm
<1>10. CASE eA = eB
  <2>1. diff = (xA * g) - (xB * g)
    <3>1. PICK y \in Nat, z \in Nat : y = xA * g /\ z = xB * g
      OBVIOUS
    <3>2. DiffOf(f, eA, eB, y, z, h * g) = y - z
      <4>1. ~(eA > eB)
        BY <1>10
      <4>2. QED
        BY <1>10, <4>1 DEF DiffOf
    <3>3. QED
      BY <3>1, <3>2, Zenon
  <2>2. \E j \in Nat, yA \in Nat, yB \in Nat : expZ = j + 1 /\ Times(xA, 2^j, yA) /\ Times(xB, 2^j, yB) /\ mA - mB = yA - yB
    <3>1. CASE eA = 0
      <4>1. PICK j \in Nat : j = 0 /\ expZ = j + 1
        BY <1>10, <3>1
      <4>2. 2^j = 1 /\ 2^eA = 1 /\ 2^eB = 1
        BY <1>10, <3>1, <4>1, PowerZero
      <4>3. WA = xA + xA /\ WB = xB + xB
        BY <1>4, <1>5, <1>10, <3>1 DEF Wider
      <4>4. WA * 1 = 2 * mA /\ WB * 1 = 2 * mB
        BY <1>4, <1>5, <4>2 DEF Times
      <4>5. mA = xA /\ mB = xB
        BY <4>3, <4>4
      <4>6. xA * 1 = xA /\ xB * 1 = xB /\ xA \in Nat /\ xB \in Nat
        OBVIOUS
      <4>7. Times(xA, 2^j, xA) /\ Times(xB, 2^j, xB)
        BY <4>2, <4>6, Zenon DEF Times
      <4>8. QED
        BY <4>1, <4>5, <4>6, <4>7
    <3>2. CASE eA # 0
      <4>1. PICK j \in Nat : eA = j + 1 /\ expZ = j + 1 /\ eB = j + 1
        <5>1. eA - 1 \in Nat /\ eA = (eA - 1) + 1
          BY <3>2
        <5>2. expZ = eA
          BY <1>10, <3>2
        <5>3. QED
          BY <1>10, <5>1, <5>2
      <4>2. PICK J \in Nat \ {0} : J = 2^j /\ 2^eA = 2 * J /\ 2^eB = 2 * J
        BY <4>1, PowerNext, PowerPositive
      <4>3. WA = xA + h /\ WB = xB + h
        BY <1>4, <1>5, <1>10, <3>2 DEF Wider
      <4>4. (xA + h) * (2 * J) = 2 * mA /\ (xB + h) * (2 * J) = 2 * mB
        BY <1>4, <1>5, <4>2, <4>3 DEF Times
      <4>5. PICK yA \in Nat, yB \in Nat, z \in Nat : yA = xA * J /\ yB = xB * J /\ z = h * J
        OBVIOUS
      <4>6. (xA + h) * (2 * J) = 2 * (yA + z) /\ (xB + h) * (2 * J) = 2 * (yB + z)
        BY <4>5
      <4>7. mA - mB = yA - yB
        BY <4>4, <4>6
      <4>8. Times(xA, 2^j, yA) /\ Times(xB, 2^j, yB)
        BY <4>2, <4>5, Zenon DEF Times
      <4>9. QED
        BY <4>1, <4>7, <4>8
    <3>3. QED
      BY <3>1, <3>2
  <2>3. PICK j \in Nat, yA \in Nat, yB \in Nat : expZ = j + 1 /\ Times(xA, 2^j, yA) /\ Times(xB, 2^j, yB) /\ mA - mB = yA - yB
    BY <2>2, Zenon
  <2>4. PackDiff(f, s, (xA * (2 * u)) - (xB * (2 * u)), j + 1, mode) = Difference(f, s, mA, mB, mode)
    <3>1. Sizes(f, h, u, c) /\ s \in 0..1
      BY <1>1
    <3>2. PICK d \in Int, e \in Nat : d = (xA * (2 * u)) - (xB * (2 * u)) /\ e = j + 1
      <4>1. (xA * (2 * u)) - (xB * (2 * u)) \in Int /\ j + 1 \in Nat
        OBVIOUS
      <4>2. QED
        BY <4>1
    <3>5. IsGap(xA, xB, u, d) /\ e = j + 1
      BY <3>2, Zenon DEF IsGap
    <3>6. SameGap(mA, mB, yA, yB)
      BY <2>3 DEF SameGap
    <3>7. Times(xA, 2^j, yA) /\ Times(xB, 2^j, yB)
      BY <2>3
    <3>3. PackDiff(f, s, d, e, mode) = Difference(f, s, mA, mB, mode)
      BY <3>1, <3>5, <3>6, <3>7, SubSameExp
    <3>4. QED
      BY <3>2, <3>3, Zenon
  <2>5. g = 2 * u
    BY <1>1
  <2> HIDE DEF diff, expZ
  <2>6. QED
    BY <1>4, <1>5, <1>6, <1>8, <2>1, <2>3, <2>4, <2>5, Zenon
<1>11. CASE eA < eB
  <2>1. PICK k \in Nat \ {0} : k = eB - eA /\ eB = eA + k
    <3>1. eB - eA \in Nat \ {0} /\ eB = eA + (eB - eA)
      BY <1>11
    <3>2. QED
      BY <3>1
  <2>2. WB = xB + h /\ WB \in h..((2 * h) - 1)
    <3>1. eB # 0
      BY <1>11
    <3>2. QED
      BY <1>5, <3>1 DEF Wider
  <2>3. mA < mB /\ IsSubtracted(f, t, mode, u, WA, WB, k, eB, mA, mB)
    <3>1. Sizes(f, h, u, c) /\ IsMode(t, mode) /\ WA \in 0..((2 * h) - 1) /\ WB \in h..((2 * h) - 1)
      BY <1>1, <1>4, <1>5, <1>6, <2>2
    <3>2. Times(WA, 2^eA, 2 * mA) /\ Times(WB, 2^eB, 2 * mB) /\ eB = eA + k
      BY <1>4, <1>5, <2>1
    <3>3. IsSubtracted(f, t, mode, u, WA, WB, k, eB, mA, mB)
      BY <3>1, <3>2, DiffUnequal
    <3>4. QED
      BY <3>3, Zenon DEF IsSubtracted
  <2>4. PICK d \in Nat \ {0}, C \in Nat, p \in Nat :
           /\ C = WB * g /\ p = softfloat_shift32RightJam(word(f), WA * g, k) /\ d = C - p
           /\ IsDifference(f, t, mode, eB - 1, d, mB - mA)
    <3>1. PICK d \in Nat \ {0} : /\ d = (WB * g) - softfloat_shift32RightJam(word(f), WA * g, k)
                                 /\ IsDifference(f, t, mode, eB - 1, d, mB - mA)
      BY <1>1, <2>3, Zenon DEF IsSubtracted
    <3>2. softfloat_shift32RightJam(word(f), WA * g, k) \in Nat
      BY <1>1, <1>4, AlignedIs
    <3>3. WB * g \in Nat
      OBVIOUS
    <3>4. QED
      BY <3>1, <3>2, <3>3
  <2>5. diff = -d
    <3>1. diff = jA - ((xB * g) + (h * g))
      <4>1. eA # eB /\ ~(eA > eB)
        BY <1>11
      <4> DEFINE q1 == (xA * g) - (xB * g)
                 q2 == xA * g + h * g - jB
                 q3 == jA - (xB * g + h * g)
      <4>2. diff = CASE eA = eB -> q1 [] eA > eB -> q2 [] OTHER -> q3
        BY Zenon DEF DiffOf
      <4> HIDE DEF q1, q2, q3, diff
      <4>3. diff = q3
        BY <4>1, <4>2
      <4>4. QED
        BY <4>3, Zenon DEF q3
    <3>2. jA = p
      BY <1>9, <2>1, <2>4, Zenon
    <3>3. (xB * g) + (h * g) = C
      BY <2>2, <2>4
    <3>4. p - C = -d
      BY <2>4
    <3> HIDE DEF diff, jA
    <3>5. QED
      BY <3>1, <3>2, <3>3, <3>4, Zenon
  <2>6. expZ = eB
    BY <1>11
  <2>7. -d # 0 /\ -d < 0 /\ -(-d) = d /\ mA # mB /\ ~(mB < mA)
    BY <2>3
  <2>8. softfloat_normRoundPackToF32(f, t, eB - 1, d, mode) = RoundedRatio(f, t, mB - mA, 1, mode)
    BY <2>4, Zenon DEF IsDifference
  <2> HIDE DEF diff, expZ
  <2>9. PackDiff(f, s, -d, eB, mode) = softfloat_normRoundPackToF32(f, t, eB - 1, d, mode)
    BY <1>6, <2>7, Zenon DEF PackDiff
  <2>10. Difference(f, s, mA, mB, mode) = RoundedRatio(f, t, mB - mA, 1, mode)
    BY <1>6, <2>7, Zenon DEF Difference
  <2>11. QED
    BY <1>4, <1>5, <1>6, <1>8, <2>5, <2>6, <2>8, <2>9, <2>10, Zenon
<1>12. CASE eB < eA
  <2>1. PICK k \in Nat \ {0} : k = eA - eB /\ eA = eB + k
    <3>1. eA - eB \in Nat \ {0} /\ eA = eB + (eA - eB)
      BY <1>12
    <3>2. QED
      BY <3>1
  <2>2. WA = xA + h /\ WA \in h..((2 * h) - 1)
    <3>1. eA # 0
      BY <1>12
    <3>2. QED
      BY <1>4, <3>1 DEF Wider
  <2>3. mB < mA /\ IsSubtracted(f, s, mode, u, WB, WA, k, eA, mB, mA)
    <3>1. Sizes(f, h, u, c) /\ IsMode(s, mode) /\ WB \in 0..((2 * h) - 1) /\ WA \in h..((2 * h) - 1)
      BY <1>1, <1>4, <1>5, <1>6, <2>2
    <3>2. Times(WB, 2^eB, 2 * mB) /\ Times(WA, 2^eA, 2 * mA) /\ eA = eB + k
      BY <1>4, <1>5, <2>1
    <3>3. IsSubtracted(f, s, mode, u, WB, WA, k, eA, mB, mA)
      BY <3>1, <3>2, DiffUnequal
    <3>4. QED
      BY <3>3, Zenon DEF IsSubtracted
  <2>4. PICK d \in Nat \ {0} : /\ d = (WA * g) - softfloat_shift32RightJam(word(f), WB * g, k)
                               /\ IsDifference(f, s, mode, eA - 1, d, mA - mB)
    BY <1>1, <2>3, Zenon DEF IsSubtracted
  <2>5. diff = d
    <3>1. diff = xA * g + h * g - jB
      <4>1. eA # eB /\ eA > eB
        BY <1>12
      <4> DEFINE q1 == (xA * g) - (xB * g)
                 q2 == xA * g + h * g - jB
                 q3 == jA - (xB * g + h * g)
      <4>2. diff = CASE eA = eB -> q1 [] eA > eB -> q2 [] OTHER -> q3
        BY Zenon DEF DiffOf
      <4> HIDE DEF q1, q2, q3, diff
      <4>3. diff = q2
        BY <4>1, <4>2
      <4>4. QED
        BY <4>3, Zenon DEF q2
    <3>2. jB = softfloat_shift32RightJam(word(f), WB * g, k)
      BY <1>9, <2>1, Zenon
    <3>3. xA * g + h * g = WA * g
      BY <2>2
    <3> HIDE DEF diff, jB
    <3>4. PICK p \in Nat : p = softfloat_shift32RightJam(word(f), WB * g, k)
      BY <1>1, <1>5, AlignedIs
    <3>5. PICK y \in Nat, z \in Nat : y = xA * g /\ z = h * g
      OBVIOUS
    <3>6. jB = p /\ WA * g = y + z /\ d = (WA * g) - p /\ diff = y + (z - p)
      BY <2>4, <3>1, <3>2, <3>3, <3>4, <3>5, Zenon
    <3>7. QED
      BY <3>6
  <2>6. expZ = eA
    BY <1>12
  <2>7. d # 0 /\ ~(d < 0) /\ mA # mB
    BY <2>3
  <2>8. softfloat_normRoundPackToF32(f, s, eA - 1, d, mode) = RoundedRatio(f, s, mA - mB, 1, mode)
    BY <2>4, Zenon DEF IsDifference
  <2> HIDE DEF diff, expZ
  <2>9. PackDiff(f, s, d, eA, mode) = softfloat_normRoundPackToF32(f, s, eA - 1, d, mode)
    BY <2>7, Zenon DEF PackDiff
  <2>10. Difference(f, s, mA, mB, mode) = RoundedRatio(f, s, mA - mB, 1, mode)
    BY <2>3, <2>7, Zenon DEF Difference
  <2>11. QED
    BY <1>4, <1>5, <1>6, <1>8, <2>5, <2>6, <2>8, <2>9, <2>10, Zenon
<1>13. QED
  BY <1>10, <1>11, <1>12

\* The sum of two operands of different signs.
LEMMA SubMagsIs ==
  ASSUME NEW f, IsFormat(f), FormatLaws(f), NEW mode \in RoundingModes, NEW a \in Patterns(f), NEW b \in Patterns(f),
         signUI(f, a) # signUI(f, b)
  PROVE  softfloat_subMagsF32(f, a, b, signUI(f, a), mode) = AddSpec(f, a, b, mode)
<1>1. Kinds(f, a) /\ Kinds(f, b)
  BY PatternKinds
<1>2. PICK eA \in Nat, eB \in Nat, M \in Nat : eA = expUI(f, a) /\ eB = expUI(f, b) /\ M = expMax(f) /\ eA <= M /\ eB <= M /\ M >= 2
  BY ExpIs
<1>3. a # b /\ signUI(f, b) = 1 - signUI(f, a)
  <2>1. signUI(f, a) \in 0..1 /\ signUI(f, b) \in 0..1
    BY SignIs
  <2>2. QED
    BY <2>1
<1> DEFINE s == signUI(f, a)
           nan == isNaNUI(f, a) \/ isNaNUI(f, b)
           diff == DiffOf(f, eA, eB, fracUI(f, a) * 2^f.G, fracUI(f, b) * 2^f.G, 2^(f.F + f.G))
           subtracted == softfloat_subMagsF32(f, a, b, s, mode)
<1>4. subtracted = SubOf(f, a, b, s, mode, eA, eB, diff)
  BY <1>2, SubMagsSteps, Zenon
<1>5. CASE nan
  <2>1. subtracted = softfloat_propagateNaNF32UI(f, a, b)
    BY <1>4, <1>5, Zenon DEF SubOf
  <2>2. QED
    BY <1>5, <2>1, NaNReturned, Zenon DEF AddSpec
<1>6. CASE ~nan /\ isInf(f, a)
  <2>1. eA = M
    BY <1>1, <1>2, <1>6 DEF Kinds
  <2>2. CASE isInf(f, b)
    <3>1. eB = M
      BY <1>1, <1>2, <2>2 DEF Kinds
    <3>2. SubOf(f, a, b, s, mode, eA, eB, diff) = Invalid(f)
      <4> HIDE DEF diff, s
      <4> QED
        BY <1>2, <1>6, <2>1, <3>1 DEF SubOf
    <3>3. AddSpec(f, a, b, mode) = Invalid(f)
      BY <1>3, <1>6, <2>2, Zenon DEF AddSpec
    <3>4. QED
      BY <1>4, <3>2, <3>3, Zenon
  <2>3. CASE ~isInf(f, b)
    <3>1. eB < M
      BY <1>1, <1>2, <1>6, <2>3 DEF Kinds
    <3>2. SubOf(f, a, b, s, mode, eA, eB, diff) = Ret(a, {})
      <4> HIDE DEF diff, s
      <4> QED
        BY <1>2, <1>6, <2>1, <3>1 DEF SubOf
    <3>3. AddSpec(f, a, b, mode) = Ret(a, {})
      BY <1>6, <2>3, Zenon DEF AddSpec
    <3>4. QED
      BY <1>4, <3>2, <3>3, Zenon
  <2>4. QED
    BY <2>2, <2>3
<1>7. CASE ~nan /\ ~isInf(f, a) /\ isInf(f, b)
  <2>1. eB = M /\ eA < M
    BY <1>1, <1>2, <1>7 DEF Kinds
  <2>2. SubOf(f, a, b, s, mode, eA, eB, diff) = Ret(Inf(f, 1 - s), {})
    <3> HIDE DEF diff, s
    <3> QED
      BY <1>2, <1>7, <2>1 DEF SubOf
  <2>3. b = Inf(f, 1 - s)
    BY <1>3, <1>7, InfinityIs
  <2>4. AddSpec(f, a, b, mode) = Ret(b, {})
    BY <1>3, <1>7, Zenon DEF AddSpec
  <2>5. QED
    BY <1>4, <2>2, <2>3, <2>4, Zenon
<1>8. CASE ~nan /\ ~isInf(f, a) /\ ~isInf(f, b)
  <2>1. eA < M /\ eB < M
    BY <1>1, <1>2, <1>8 DEF Kinds
  <2>2. subtracted = Difference(f, s, Mag(f, a), Mag(f, b), mode)
    BY <1>2, <2>1, SubMagsFinite
  <2>3. Mag(f, a) \in Nat /\ Mag(f, b) \in Nat
    <3>1. PICK h \in Nat \ {0} : hidden(f) = h
      BY DEF FormatLaws
    <3>2. QED
      BY <3>1, WideIs DEF IsWide
  <2>4. QED
    BY <1>8, <2>2, <2>3, DifferentSigns
<1>9. QED
  BY <1>5, <1>6, <1>7, <1>8

-----------------------------------------------------------------------------
(* f32_add, f64_add, f32_sub and f64_sub.                                  *)

\* A negated operand differs in its sign only.
LEMMA NegatedIs ==
  ASSUME NEW f, FormatLaws(f), NEW b \in Patterns(f)
  PROVE  /\ Negated(f, b) \in Patterns(f) /\ signUI(f, Negated(f, b)) = 1 - signUI(f, b)
         /\ expUI(f, Negated(f, b)) = expUI(f, b) /\ fracUI(f, Negated(f, b)) = fracUI(f, b)
<1>1. PICK h \in Nat \ {0}, P \in Nat \ {0}, S \in Nat \ {0}, s \in 0..1, m \in Nat :
        /\ m \in 0..(S - 1) /\ h = hidden(f) /\ P = 2^f.E /\ S = signBit(f) /\ S = P * h
        /\ s = signUI(f, b) /\ b = (S * s) + m
  <2>1. PICK h \in Nat \ {0}, P \in Nat \ {0} : h = hidden(f) /\ P = 2^f.E
    BY DEF FormatLaws
  <2>2. PICK S \in Nat \ {0}, s \in 0..1, m \in 0..(signBit(f) - 1) : S = signBit(f) /\ s = signUI(f, b) /\ b = (S * s) + m
    BY PatternIs
  <2>3. S = P * h
    BY <2>1, <2>2 DEF FormatLaws
  <2>4. m \in Nat /\ m \in 0..(S - 1)
    BY <2>2
  <2>5. QED
    BY <2>1, <2>2, <2>3, <2>4
<1>8. m < S
  BY <1>1
<1>2. PICK t \in 0..1, n \in Nat : t = 1 - s /\ n = (S * t) + m /\ Negated(f, b) = n /\ n \in 0..((2 * S) - 1)
  <2>1. CASE s = 0
    <3>1. S * 0 = 0 /\ S * 1 = S
      OBVIOUS
    <3>2. b = m
      BY <1>1, <2>1, <3>1
    <3>3. (m + S) % (2 * S) = m + S
      <4>1. m + S = ((2 * S) * 0) + (m + S) /\ m + S \in 0..((2 * S) - 1) /\ 2 * S \in Nat \ {0} /\ m + S \in Int /\ 0 \in Int
        BY <1>8
      <4>2. QED
        BY <4>1, DivModUnique
    <3>4. Negated(f, b) = m + S
      BY <1>1, <3>2, <3>3, Zenon DEF Negated
    <3>5. PICK t \in 0..1, n \in Nat : t = 1 /\ n = m + S
      OBVIOUS
    <3>6. n = (S * t) + m /\ t = 1 - s /\ n \in 0..((2 * S) - 1)
      BY <1>8, <2>1, <3>1, <3>5
    <3>7. QED
      BY <3>4, <3>5, <3>6
  <2>2. CASE s = 1
    <3>1. S * 0 = 0 /\ S * 1 = S
      OBVIOUS
    <3>2. b = S + m
      BY <1>1, <2>2, <3>1
    <3>3. ((S + m) + S) % (2 * S) = m
      <4>1. (S + m) + S = ((2 * S) * 1) + m /\ m \in 0..((2 * S) - 1) /\ 2 * S \in Nat \ {0} /\ (S + m) + S \in Int /\ 1 \in Int
        BY <1>8
      <4>2. QED
        BY <4>1, DivModUnique
    <3>4. Negated(f, b) = m
      BY <1>1, <3>2, <3>3, Zenon DEF Negated
    <3>5. PICK t \in 0..1, n \in Nat : t = 0 /\ n = m
      OBVIOUS
    <3>6. n = (S * t) + m /\ t = 1 - s /\ n \in 0..((2 * S) - 1)
      BY <1>8, <2>2, <3>1, <3>5
    <3>7. QED
      BY <3>4, <3>5, <3>6
  <2>3. QED
    BY <2>1, <2>2
<1>3. Negated(f, b) \in Patterns(f)
  BY <1>1, <1>2 DEF Patterns
\* Both patterns are m below their signs, so their fields are those of m.
<1>4. ASSUME NEW a \in Patterns(f), NEW i \in 0..1, a = (S * i) + m
      PROVE  signUI(f, a) = i /\ expUI(f, a) = m \div h /\ fracUI(f, a) = m % h
  <2>1. a \div S = i /\ a % S = m
    <3>1. a \in Int /\ i \in Int /\ m \in 0..(S - 1)
      BY <1>4, <1>8 DEF Patterns
    <3>2. QED
      BY <1>4, <3>1, DivModUnique
  <2>2. PICK e \in 0..(P - 1), x \in 0..(h - 1), k \in Nat : expUI(f, a) = e /\ fracUI(f, a) = x /\ k = a % S /\ k = (h * e) + x
    <3>1. \E z \in 0..1, e \in 0..(2^f.E - 1), x \in 0..(hidden(f) - 1), k \in 0..(signBit(f) - 1) :
             /\ signUI(f, a) = z /\ expUI(f, a) = e /\ fracUI(f, a) = x /\ a % signBit(f) = k
             /\ k = (hidden(f) * e) + x /\ a = (signBit(f) * z) + k
      BY <1>4, Fields
    <3>2. QED
      BY <1>1, <3>1
  <2>3. m \div h = e /\ m % h = x
    <3>1. m = (h * e) + x /\ m \in Int /\ e \in Int
      BY <2>1, <2>2
    <3>2. QED
      BY <3>1, DivModUnique
  <2>4. QED
    BY <1>1, <2>1, <2>2, <2>3 DEF signUI
<1>5. signUI(f, Negated(f, b)) = t /\ expUI(f, Negated(f, b)) = m \div h /\ fracUI(f, Negated(f, b)) = m % h
  BY <1>2, <1>3, <1>4
<1>6. expUI(f, b) = m \div h /\ fracUI(f, b) = m % h
  BY <1>1, <1>4
<1>9. QED
  BY <1>1, <1>2, <1>3, <1>5, <1>6

\* The sums and differences of magnitudes do not look at the sign of the second operand.
LEMMA NegatedMags ==
  ASSUME NEW f, FormatLaws(f), NEW a \in Patterns(f), NEW b \in Patterns(f), NEW s, NEW mode
  PROVE  /\ softfloat_addMagsF32(f, a, b, s, mode) = softfloat_addMagsF32(f, a, Negated(f, b), s, mode)
         /\ softfloat_subMagsF32(f, a, b, s, mode) = softfloat_subMagsF32(f, a, Negated(f, b), s, mode)
<1>1. PICK c \in Patterns(f) : /\ c = Negated(f, b) /\ signUI(f, c) = 1 - signUI(f, b)
                               /\ expUI(f, c) = expUI(f, b) /\ fracUI(f, c) = fracUI(f, b)
  BY NegatedIs
<1>2. isNaNUI(f, b) <=> isNaNUI(f, c)
  BY <1>1 DEF isNaNUI
<1>3. softfloat_propagateNaNF32UI(f, a, b) = softfloat_propagateNaNF32UI(f, a, c)
  <2>1. softfloat_isSigNaNF32UI(f, b) <=> softfloat_isSigNaNF32UI(f, c)
    BY <1>1 DEF softfloat_isSigNaNF32UI
  <2>2. QED
    BY <2>1 DEF softfloat_propagateNaNF32UI
<1>4. (a + b) % signBit(f) = (a + c) % signBit(f)
  <2>1. PICK S \in Nat \ {0}, i \in 0..1, m \in Nat, j \in 0..1, n \in Nat :
          /\ S = signBit(f) /\ i = signUI(f, b) /\ m = b % S /\ b = (S * i) + m
          /\ j = signUI(f, c) /\ n = c % S /\ c = (S * j) + n /\ m < S /\ n < S
    BY PatternIs
  <2>2. m = n
    <3>1. \E z \in 0..1, e \in 0..(2^f.E - 1), x \in 0..(hidden(f) - 1), k \in 0..(signBit(f) - 1) :
             /\ signUI(f, b) = z /\ expUI(f, b) = e /\ fracUI(f, b) = x /\ b % signBit(f) = k
             /\ k = (hidden(f) * e) + x /\ b = (signBit(f) * z) + k
      BY Fields
    <3>2. \E z \in 0..1, e \in 0..(2^f.E - 1), x \in 0..(hidden(f) - 1), k \in 0..(signBit(f) - 1) :
             /\ signUI(f, c) = z /\ expUI(f, c) = e /\ fracUI(f, c) = x /\ c % signBit(f) = k
             /\ k = (hidden(f) * e) + x /\ c = (signBit(f) * z) + k
      BY Fields
    <3>3. m = (hidden(f) * expUI(f, b)) + fracUI(f, b) /\ n = (hidden(f) * expUI(f, c)) + fracUI(f, c)
      BY <2>1, <3>1, <3>2
    <3>4. QED
      BY <1>1, <3>3, Zenon
  <2>3. PICK q \in Int : q = i - j
    OBVIOUS
  <2>4. PICK y \in Int : y = q * S
    OBVIOUS
  <2>5. a \in Int /\ b \in Int /\ c \in Int
    BY DEF Patterns
  <2>6. b = c + y
    <3>1. PICK v \in Nat, z \in Nat : v = S * i /\ z = S * j
      OBVIOUS
    <3>2. q * S = v - z
      BY <2>3, <3>1
    <3>3. b = v + m /\ c = z + n
      BY <2>1, <3>1, Zenon
    <3>4. QED
      BY <2>2, <2>4, <3>1, <3>2, <3>3
  <2>7. PICK r \in 0..(S - 1), k \in Int : r = (a + c) % S /\ a + c = (S * k) + r
    <3>1. a + c \in Int
      BY <2>5
    <3>2. QED
      BY <3>1, DivMod
  <2>8. PICK p \in Int : p = k + q
    OBVIOUS
  <2>9. PICK x \in Int : x = a + b /\ x = (S * p) + r
    <3>1. S * p = (S * k) + y
      BY <2>4, <2>8
    <3>2. PICK v \in Int : v = S * k
      OBVIOUS
    <3>3. a + b \in Int /\ a + b = (S * p) + r
      BY <2>5, <2>6, <2>7, <3>1, <3>2
    <3>4. QED
      BY <3>3
  <2>10. x % S = r
    BY <2>9, DivModUnique
  <2>11. QED
    BY <2>1, <2>7, <2>9, <2>10
<1> DEFINE eA == expUI(f, a)
           eB == expUI(f, b)
           tA == fracUI(f, a) * 2^(f.G - 1)
           tB == fracUI(f, b) * 2^(f.G - 1)
           unit == 2^(f.F + f.G - 1)
           diff == DiffOf(f, eA, eB, fracUI(f, a) * 2^f.G, fracUI(f, b) * 2^f.G, 2^(f.F + f.G))
<1>5. AddOf(f, a, b, s, mode, eA, eB, tA, tB, unit) = AddOf(f, a, c, s, mode, eA, eB, tA, tB, unit)
  <2> HIDE DEF eA, eB, tA, tB, unit
  <2>1. isNaNUI(f, a) \/ isNaNUI(f, b) <=> isNaNUI(f, a) \/ isNaNUI(f, c)
    BY <1>2
  <2> DEFINE nan(o) == isNaNUI(f, a) \/ isNaNUI(f, o)
             r1(o) == softfloat_propagateNaNF32UI(f, a, o)
             r2(o) == Ret(packToUI(f, s, 0, (a + o) % signBit(f)), {})
             r3 == softfloat_roundPackToF32(f, s, eA, 2 * unit + tA + tB, mode)
             rest(o) == CASE eA = expMax(f) -> Ret(a, {})
                          [] eA < expMax(f) /\ eB = expMax(f) -> Ret(Inf(f, s), {})
                          [] eA = 0 /\ eB = 0 -> r2(o)
                          [] eA = eB /\ eA \in 1..(expMax(f) - 1) -> r3
                          [] OTHER -> RoundSum(f, s, IF eA < eB THEN eB ELSE eA,
                                               IF eA < eB THEN unit + softfloat_shift32RightJam(word(f), tA + (IF eA # 0 THEN unit ELSE tA), eB - eA) + tB
                                               ELSE unit + tA + softfloat_shift32RightJam(word(f), tB + (IF eB # 0 THEN unit ELSE tB), eA - eB), mode)
  <2>2. ASSUME NEW o PROVE AddOf(f, a, o, s, mode, eA, eB, tA, tB, unit) = IF nan(o) THEN r1(o) ELSE rest(o)
    BY Zenon DEF AddOf
  <2>3. r2(b) = r2(c) /\ r1(b) = r1(c)
    BY <1>3, <1>4, Zenon
  <2> HIDE DEF r1, r2, r3
  <2>4. rest(b) = rest(c)
    BY <2>3, Zenon
  <2> HIDE DEF rest, nan
  <2>5. nan(b) <=> nan(c)
    BY <2>1 DEF nan
  <2>6. QED
    BY <2>2, <2>3, <2>4, <2>5
<1>6. SubOf(f, a, b, s, mode, eA, eB, diff) = SubOf(f, a, c, s, mode, eA, eB, diff)
  <2> HIDE DEF eA, eB, diff
  <2> DEFINE nan(o) == isNaNUI(f, a) \/ isNaNUI(f, o)
             r1(o) == softfloat_propagateNaNF32UI(f, a, o)
             rest == CASE eA = expMax(f) /\ eB = expMax(f) -> Invalid(f)
                       [] eA = expMax(f) /\ eB < eA -> Ret(a, {})
                       [] eB = expMax(f) /\ eA < eB -> Ret(Inf(f, 1 - s), {})
                       [] OTHER -> PackDiff(f, s, diff, IF eA = 0 /\ eB = 0 THEN 1 ELSE IF eA < eB THEN eB ELSE eA, mode)
  <2>1. ASSUME NEW o PROVE SubOf(f, a, o, s, mode, eA, eB, diff) = IF nan(o) THEN r1(o) ELSE rest
    BY Zenon DEF SubOf
  <2>2. r1(b) = r1(c) /\ (nan(b) <=> nan(c))
    BY <1>2, <1>3
  <2> HIDE DEF r1, rest, nan
  <2>3. QED
    BY <2>1, <2>2
<1>7. /\ softfloat_addMagsF32(f, a, b, s, mode) = AddOf(f, a, b, s, mode, eA, eB, tA, tB, unit)
      /\ softfloat_addMagsF32(f, a, c, s, mode) = AddOf(f, a, c, s, mode, eA, eB, tA, tB, unit)
  BY <1>1, AddMagsSteps, Zenon
<1>8. /\ softfloat_subMagsF32(f, a, b, s, mode) = SubOf(f, a, b, s, mode, eA, eB, diff)
      /\ softfloat_subMagsF32(f, a, c, s, mode) = SubOf(f, a, c, s, mode, eA, eB, diff)
  BY <1>1, SubMagsSteps, Zenon
<1> HIDE DEF eA, eB, tA, tB, unit, diff
<1>9. QED
  BY <1>1, <1>5, <1>6, <1>7, <1>8, Zenon

\* f32_add and f64_add, f32_sub and f64_sub: the exact result rounded once, for operands of every
\* format.
THEOREM SumsRound ==
  ASSUME NEW f, IsFormat(f), NEW mode \in RoundingModes, NEW a \in Patterns(f), NEW b \in Patterns(f)
  PROVE  /\ f32_add(f, a, b, mode) = AddSpec(f, a, b, mode) /\ f64_add(f, a, b, mode) = AddSpec(f, a, b, mode)
         /\ f32_sub(f, a, b, mode) = SubSpec(f, a, b, mode) /\ f64_sub(f, a, b, mode) = SubSpec(f, a, b, mode)
<1> FormatLaws(f)
  BY FormatLaw
<1>1. ASSUME NEW c \in Patterns(f)
      PROVE  /\ signUI(f, a) = signUI(f, c) => softfloat_addMagsF32(f, a, c, signUI(f, a), mode) = AddSpec(f, a, c, mode)
             /\ signUI(f, a) # signUI(f, c) => softfloat_subMagsF32(f, a, c, signUI(f, a), mode) = AddSpec(f, a, c, mode)
  BY <1>1, AddMagsIs, SubMagsIs
<1>2. f32_add(f, a, b, mode) = AddSpec(f, a, b, mode)
  BY <1>1, Zenon DEF f32_add
<1>3. f64_add(f, a, b, mode) = AddSpec(f, a, b, mode)
  BY <1>1, Zenon DEF f64_add, softfloat_addMagsF64, softfloat_subMagsF64
<1>4. PICK c \in Patterns(f) : /\ c = Negated(f, b) /\ (signUI(f, a) = signUI(f, b) <=> signUI(f, a) # signUI(f, c))
                               /\ expUI(f, c) = expUI(f, b) /\ fracUI(f, c) = fracUI(f, b)
  <2>1. signUI(f, a) \in 0..1 /\ signUI(f, b) \in 0..1
    BY SignIs
  <2>2. signUI(f, a) = signUI(f, b) <=> signUI(f, a) # 1 - signUI(f, b)
    BY <2>1
  <2>3. QED
    BY <2>2, NegatedIs
<1>5. AddSpec(f, a, c, mode) = SubSpec(f, a, b, mode)
  <2>1. isNaNUI(f, c) <=> isNaNUI(f, b)
    BY <1>4 DEF isNaNUI
  <2>2. CASE isNaNUI(f, a) \/ isNaNUI(f, b)
    <3>1. f32_isSignalingNaN(f, c) <=> f32_isSignalingNaN(f, b)
      BY <1>4 DEF f32_isSignalingNaN, softfloat_isSigNaNF32UI
    <3>2. NaNs(f, {a, c}) = NaNs(f, {a, b})
      BY <3>1 DEF NaNs
    <3>3. QED
      BY <2>1, <2>2, <3>2, Zenon DEF AddSpec, SubSpec
  <2>3. CASE ~(isNaNUI(f, a) \/ isNaNUI(f, b))
    BY <1>4, <2>3, Zenon DEF SubSpec
  <2>4. QED
    BY <2>2, <2>3
<1>6. f32_sub(f, a, b, mode) = AddSpec(f, a, c, mode) /\ f64_sub(f, a, b, mode) = AddSpec(f, a, c, mode)
  <2>1. CASE signUI(f, a) = signUI(f, b)
    <3>1. softfloat_subMagsF32(f, a, c, signUI(f, a), mode) = AddSpec(f, a, c, mode)
      BY <1>1, <1>4, <2>1
    <3>2. /\ f32_sub(f, a, b, mode) = softfloat_subMagsF32(f, a, Negated(f, b), signUI(f, a), mode)
          /\ f64_sub(f, a, b, mode) = softfloat_subMagsF32(f, a, b, signUI(f, a), mode)
      BY <2>1, Zenon DEF f32_sub, f64_sub, softfloat_subMagsF64
    <3>5. softfloat_subMagsF32(f, a, b, signUI(f, a), mode) = softfloat_subMagsF32(f, a, Negated(f, b), signUI(f, a), mode)
      BY NegatedMags
    <3>3. c = Negated(f, b)
      BY <1>4
    <3>4. QED
      BY <3>1, <3>2, <3>3, <3>5, Zenon
  <2>2. CASE signUI(f, a) # signUI(f, b)
    <3>1. softfloat_addMagsF32(f, a, c, signUI(f, a), mode) = AddSpec(f, a, c, mode)
      BY <1>1, <1>4, <2>2
    <3>2. /\ f32_sub(f, a, b, mode) = softfloat_addMagsF32(f, a, Negated(f, b), signUI(f, a), mode)
          /\ f64_sub(f, a, b, mode) = softfloat_addMagsF32(f, a, b, signUI(f, a), mode)
      BY <2>2, Zenon DEF f32_sub, f64_sub, softfloat_addMagsF64
    <3>5. softfloat_addMagsF32(f, a, b, signUI(f, a), mode) = softfloat_addMagsF32(f, a, Negated(f, b), signUI(f, a), mode)
      BY NegatedMags
    <3>3. c = Negated(f, b)
      BY <1>4
    <3>4. QED
      BY <3>1, <3>2, <3>3, <3>5, Zenon
  <2>3. QED
    BY <2>1, <2>2
<1>7. QED
  BY <1>2, <1>3, <1>5, <1>6

-----------------------------------------------------------------------------
(* The calls.                                                              *)

Estimate == {"softfloat_estimateDiv128To64"}
Compares == {"f32_eq", "f64_eq", "f32_eq_signaling", "f64_eq_signaling", "f32_le", "f64_le", "f32_le_quiet",
             "f64_le_quiet", "f32_lt", "f64_lt", "f32_lt_quiet", "f64_lt_quiet", "f32_classify", "f64_classify"}

\* No other action calls the estimate, a comparison or a classification.
LEMMA OtherCalls ==
  ASSUME \/ Arithmetic \/ Roots \/ Fusions \/ Remainders \/ IntegralValues
         \/ FromFloat32 \/ FromFloat64 \/ FromInteger \/ BetweenFloats \/ Return
  PROVE  call'.op \notin Estimate \cup Compares
<1> USE DEF Called, None, Estimate, Compares
<1>1. CASE Arithmetic
  BY <1>1 DEF Arithmetic
<1>2. CASE Roots
  BY <1>2 DEF Roots
<1>3. CASE Fusions
  BY <1>3 DEF Fusions
<1>4. CASE Remainders
  BY <1>4 DEF Remainders
<1>5. CASE IntegralValues
  BY <1>5 DEF IntegralValues
<1>6. CASE FromFloat32
  BY <1>6 DEF FromFloat32
<1>7. CASE FromFloat64
  BY <1>7 DEF FromFloat64
<1>8. CASE FromInteger
  BY <1>8 DEF FromInteger
<1>9. CASE BetweenFloats
  BY <1>9 DEF BetweenFloats
<1>10. CASE Return
  BY <1>10 DEF Return
<1>11. QED
  BY <1>1, <1>2, <1>3, <1>4, <1>5, <1>6, <1>7, <1>8, <1>9, <1>10

\* The estimated quotient is the truncated one or at most 2 above it, or the
\* largest word (primitives.h:612), for words of any even width and any operands.
THEOREM EstimatesClose == Spec => []EstimateClose
<1>1. Init => EstimateClose
  BY DEF Init, None, EstimateClose, Is
<1>2. EstimateClose /\ [Next]_vars => EstimateClose'
  <2> SUFFICES ASSUME EstimateClose, [Next]_vars
               PROVE  EstimateClose'
    OBVIOUS
  <2>1. CASE QuotientEstimates
    <3>1. WordLaws(EstimateWord)
      BY FpAssumption, WordIs DEF FpAssumption
    <3>2. PICK b \in 2^(EstimateWord - 1)..(2^EstimateWord - 1),
               a64 \in 0..(2^EstimateWord - 1), a0 \in 0..(2^EstimateWord - 1) :
            /\ call' = [op |-> "softfloat_estimateDiv128To64", args |-> <<a64, a0, b>>, rm |-> rm]
            /\ ret' = Ret(softfloat_estimateDiv128To64(EstimateWord, a64, a0, b), {})
      BY <2>1 DEF QuotientEstimates, Called
    <3>3. Arg(1)' = a64 /\ Arg(2)' = a0 /\ Arg(3)' = b
      BY <3>2 DEF Arg
    <3>4. ret'.ui = softfloat_estimateDiv128To64(EstimateWord, a64, a0, b)
      BY <3>2 DEF Ret
    <3>5. LET q == ((a64 * 2^EstimateWord) + a0) \div b
          IN IF q >= 2^EstimateWord THEN ret'.ui = 2^EstimateWord - 1 ELSE ret'.ui \in q..(q + 2)
      BY <3>1, <3>4, EstimateDiv128To64
    <3>6. QED
      BY <3>3, <3>5 DEF EstimateClose
  <2>2. CASE Comparisons \/ Classes
    <3>1. call'.op \in Compares
      BY <2>2 DEF Comparisons, Classes, Called, Compares
    <3>2. QED
      BY <3>1 DEF EstimateClose, Is, Compares
  <2>3. CASE \/ Arithmetic \/ Roots \/ Fusions \/ Remainders \/ IntegralValues
             \/ FromFloat32 \/ FromFloat64 \/ FromInteger \/ BetweenFloats \/ Return
    BY <2>3, OtherCalls DEF EstimateClose, Is, Estimate
  <2>4. CASE UNCHANGED vars
    BY <2>4 DEF vars, EstimateClose, Is, Arg
  <2>5. QED
    BY <2>1, <2>2, <2>3, <2>4 DEF Next
<1>3. QED
  BY <1>1, <1>2, PTL DEF Spec

\* The comparisons order any two patterns of any format by value, with the flags that are
\* promised, and the classes follow that order (f32_le.c, f32_classify.c and their like).
THEOREM ComparisonsOrder == Spec => []ComparisonOrders
<1>1. Init => ComparisonOrders
  BY DEF Init, None, ComparisonOrders, Is
<1>2. ComparisonOrders /\ [Next]_vars => ComparisonOrders'
  <2> SUFFICES ASSUME ComparisonOrders, [Next]_vars
               PROVE  ComparisonOrders'
    OBVIOUS
  <2>1. FormatLaws(Fmt)
    BY FpAssumption, FormatLaw DEF FpAssumption
  <2>2. CASE Comparisons
    <3>1. PICK a \in Patterns(Fmt), b \in Patterns(Fmt) :
            /\ call'.args = <<a, b>>
            /\ \/ call'.op \in {"f32_eq", "f64_eq"} /\ ret' = f32_eq(Fmt, a, b)
               \/ call'.op \in {"f32_eq_signaling", "f64_eq_signaling"} /\ ret' = f32_eq_signaling(Fmt, a, b)
               \/ call'.op \in {"f32_le", "f64_le"} /\ ret' = f32_le(Fmt, a, b)
               \/ call'.op \in {"f32_le_quiet", "f64_le_quiet"} /\ ret' = f32_le_quiet(Fmt, a, b)
               \/ call'.op \in {"f32_lt", "f64_lt"} /\ ret' = f32_lt(Fmt, a, b)
               \/ call'.op \in {"f32_lt_quiet", "f64_lt_quiet"} /\ ret' = f32_lt_quiet(Fmt, a, b)
      BY <2>2 DEF Comparisons, Called, f64_eq, f64_eq_signaling, f64_le, f64_le_quiet, f64_lt, f64_lt_quiet
    <3>2. Arg(1)' = a /\ Arg(2)' = b
      BY <3>1 DEF Arg
    <3> DEFINE x == Ordinal(Fmt, a)
               y == Ordinal(Fmt, b)
    <3>3. (Equal(Fmt, a, b) <=> x = y) /\ (LessEq(Fmt, a, b) <=> x <= y) /\ (Less(Fmt, a, b) <=> x < y)
      BY <2>1, Orders
    <3>4. /\ f32_eq(Fmt, a, b) = CompareSpec(Fmt, a, b, TRUE, x = y)
          /\ f32_eq_signaling(Fmt, a, b) = CompareSpec(Fmt, a, b, FALSE, x = y)
      BY <3>3, FlagsOfNaNs DEF f32_eq, f32_eq_signaling, Compared, CompareSpec, Bit
    <3>5. /\ f32_le(Fmt, a, b) = CompareSpec(Fmt, a, b, FALSE, x <= y)
          /\ f32_le_quiet(Fmt, a, b) = CompareSpec(Fmt, a, b, TRUE, x <= y)
      BY <3>3, FlagsOfNaNs DEF f32_le, f32_le_quiet, Compared, CompareSpec, Bit
    <3>6. /\ f32_lt(Fmt, a, b) = CompareSpec(Fmt, a, b, FALSE, x < y)
          /\ f32_lt_quiet(Fmt, a, b) = CompareSpec(Fmt, a, b, TRUE, x < y)
      BY <3>3, FlagsOfNaNs DEF f32_lt, f32_lt_quiet, Compared, CompareSpec, Bit
    <3> HIDE DEF x, y
    <3>7. QED
      BY <3>1, <3>2, <3>4, <3>5, <3>6 DEF ComparisonOrders, Is, x, y
  <2>3. CASE Classes
    <3>1. PICK a \in Patterns(Fmt) :
            /\ call'.op \in {"f32_classify", "f64_classify"} /\ call'.args = <<a>>
            /\ ret' = Ret(f32_classify(Fmt, a), {})
      BY <2>3 DEF Classes, Called, f64_classify
    <3>2. ret' = ClassSpec(Fmt, a) /\ Arg(1)' = a
      BY <2>1, <3>1, Classifies DEF Arg
    <3>3. QED
      BY <3>1, <3>2 DEF ComparisonOrders, Is
  <2>4. CASE QuotientEstimates
    <3>1. call'.op \in Estimate
      BY <2>4 DEF QuotientEstimates, Called, Estimate
    <3>2. QED
      BY <3>1 DEF ComparisonOrders, Is, Estimate
  <2>5. CASE \/ Arithmetic \/ Roots \/ Fusions \/ Remainders \/ IntegralValues
             \/ FromFloat32 \/ FromFloat64 \/ FromInteger \/ BetweenFloats \/ Return
    <3>1. call'.op \notin Compares
      BY <2>5, OtherCalls
    <3>2. QED
      BY <3>1 DEF ComparisonOrders, Is, Compares
  <2>6. CASE UNCHANGED vars
    BY <2>6 DEF vars, ComparisonOrders, Is, Arg
  <2>7. QED
    BY <2>2, <2>3, <2>4, <2>5, <2>6 DEF Next
<1>3. QED
  BY <1>1, <1>2, PTL DEF Spec
=============================================================================
