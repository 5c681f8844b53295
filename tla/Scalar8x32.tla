------------------------------ MODULE Scalar8x32 ------------------------------
(***************************************************************************)
(* Numbers modulo the group order as an array of 32-bit words              *)
(* (scalar_8x32_impl.h, the representation this application compiles).     *)
(* A scalar is a function on 0 .. N-1.  In the code N = 8 and W = 32; the  *)
(* order is 2^256 minus a number of N/2 + 1 words, the top one being 1.    *)
(***************************************************************************)
EXTENDS WordAccumulator, FiniteSetsExt, Limbs

CONSTANTS N, Order, Bytes, ByteBits

Words == 0 .. N - 1
Bits  == N * W
K     == (N \div 2) + 1                 \* words of 2^256 - Order

OrderWords == ToLimbs(Order, N, W)     \* SECP256K1_N_0 .. N_7
HalfWords  == ToLimbs(Order \div 2, N, W)

\* SECP256K1_N_C_i, from the complements of the words of the order.
NC(i) == CASE i = 0     -> Wrap(Base - 1 - OrderWords[0] + 1)
           [] i = K - 1 -> 1
           [] OTHER     -> Base - 1 - OrderWords[i]

Scalar8x32Assumption ==
    /\ {N, W, Order, Bytes, ByteBits} \subseteq Nat
    /\ N % 2 = 0 /\ Bytes * ByteBits = Bits
    /\ \A i \in K .. N - 1 : OrderWords[i] = Base - 1
    /\ OrderWords[K - 1] = Base - 2

ScalarClear == [i \in Words |-> 0]

ScalarSetInt(v) == [i \in Words |-> IF i = 0 THEN v ELSE 0]

\* The bits must lie in one word.
ScalarGetBits(a, offset, count) ==
    (a[offset \div W] \div 2^(offset % W)) % 2^count

ScalarGetBitsVar(a, offset, count) ==
    IF (offset + count - 1) \div W = offset \div W
    THEN ScalarGetBits(a, offset, count)
    ELSE (a[offset \div W] \div 2^(offset % W)
          + Wrap(a[(offset \div W) + 1] * 2^(W - (offset % W)))) % 2^count

\* Mutant: the order itself is let through.
ScalarCheckOverflowStrict(a) ==
    \E i \in 0 .. K - 1 :
        a[i] > OrderWords[i] /\ \A j \in i + 1 .. N - 1 : ~ a[j] < OrderWords[j]

\* From the top word down.  The words above K-1 of the order are full, so
\* only being smaller is looked for there.
ScalarCheckOverflow(a) ==
    \E i \in 0 .. K - 1 :
        /\ a[i] > OrderWords[i] \/ (i = 0 /\ a[0] = OrderWords[0])
        /\ \A j \in i + 1 .. N - 1 : ~ a[j] < OrderWords[j]

Flag(b) == IF b THEN 1 ELSE 0

\* Adds `overflow' times 2^256 - Order and drops the carry.
ScalarReduce(r, overflow) ==
    LET t == Carried([i \in Words |->
                        r[i] + (IF i < K THEN Wrap(overflow * NC(i)) ELSE 0)], W, 2 * W)
    IN  [t EXCEPT ![N - 1] = Wrap(@)]

\* A sum of N words and a carry, reduced once.
ReducedBy(r, overflow) == [r |-> ScalarReduce(r, overflow), overflow |-> overflow]

SumReduced(r, carry) == ReducedBy(r, carry + Flag(ScalarCheckOverflow(r)))

CarriedSum(t) == SumReduced([t EXCEPT ![N - 1] = Wrap(@)], t[N - 1] \div Base)

ScalarAdd(a, b) == CarriedSum(Carried([i \in Words |-> a[i] + b[i]], W, 2 * W))

\* With flag 0 the bit moves past the last word and nothing is added.
ScalarCAddBit(r, bit, flag) ==
    LET at == IF flag = 1 THEN bit ELSE bit + Bits
        t  == Carried([i \in Words |->
                 r[i] + (IF at \div W = i THEN 2^(at % W) ELSE 0)], W, 2 * W)
    IN  [t EXCEPT ![N - 1] = Wrap(@)]

\* Bytes count from the least significant one.
ScalarSetB32(b) == SumReduced(Regroup(b, ByteBits, Bits, N, W), 0)

ScalarGetB32(a) == Regroup(a, W, Bits, Bytes, ByteBits)

ScalarIsZero(a) == \A i \in Words : a[i] = 0

\* ~a + Order + 1, masked to zero when a is zero.
ScalarNegate(a) ==
    LET t == Carried([i \in Words |-> Base - 1 - a[i] + OrderWords[i] + Flag(i = 0)],
                     W, 2 * W)
    IN  [i \in Words |-> IF ScalarIsZero(a) THEN 0 ELSE Wrap(t[i])]

ScalarIsOne(a) == a[0] = 1 /\ \A i \in Words \ {0} : a[i] = 0

\* Half the order has a top word of its own, then full words above K-2.
ScalarIsHigh(a) ==
    \E i \in 0 .. K - 2 \cup {N - 1} :
        /\ a[i] > HalfWords[i]
        /\ \A j \in i + 1 .. N - 1 : ~ a[j] < HalfWords[j]

ScalarCondNegate(r, flag) ==
    IF flag = 1 THEN [r |-> ScalarNegate(r), sign |-> -1]
                ELSE [r |-> r, sign |-> 1]

-----------------------------------------------------------------------------
\* Column k of low + high * (2^256 - Order), where low are N words and high
\* are `len' words: the low word, then the products with the highest word of
\* high first.  The first column, and the low word of the second, are added
\* with the fast macros.
ReduceColumn(low, high, len, k) ==
    LET top    == Min({k, len - 1})
        bottom == Max({0, k - K + 1})
    IN  (IF k \in Words
         THEN << IF k <= 1 THEN ProductFast(low[k], 1) ELSE Product(low[k], 1) >>
         ELSE <<>>)
        \o [i \in 1 .. top - bottom + 1 |->
              LET j == top + 1 - i
              IN  IF k = 0 THEN ProductFast(high[j], NC(0)) ELSE Product(high[j], NC(k - j))]

\* The words of `low' plus the `len' words above them times 2^256 - Order,
\* in `columns' columns.
Fold512(low, len, columns, code) ==
    LET high == [j \in 0 .. len - 1 |-> low[N + j]]
    IN  Columns([k \in 0 .. columns - 1 |-> ReduceColumn(low, high, len, k)], columns, code)

\* The words of the columns and what is left, as one array.
AllWords(c, columns) ==
    [k \in 0 .. columns |-> IF k = columns THEN c.rest ELSE c.words[k]]

\* 258 bits into 256 and a carry, then the last subtraction.
Reduce258(words, pN) ==
    CarriedSum(Carried([i \in Words |->
                   words[i] + (IF i < K THEN NC(i) * pN ELSE 0)], W, 2 * W)).r

Reduce385(p, top) == Reduce258(p.words, Wrap(p.rest + top))

\* 512 bits into 385, m; 385 into 258.
ReduceM(m, code) == Reduce385(Fold512(m, K, N, code), m[N + K - 1])

\* `code' is "c" or "asm".
ReduceWith(l, code) ==
    ReduceM(AllWords(Fold512(l, N, N + K - 1, code), N + K - 1), code)

ScalarReduce512(l) == ReduceWith(l, "c")

\* The products of words that weigh 2^(W * k), from the lowest word of a.
MulTerms(a, b, k) ==
    LET first == Max({0, k - N + 1})
    IN  [t \in 1 .. Min({k, N - 1}) - first + 1 |->
            LET i == first + t - 1
            IN  IF k \in {0, 2 * N - 2} THEN ProductFast(a[i], b[k - i])
                                        ELSE Product(a[i], b[k - i])]

Mul512With(a, b, code) ==
    AllWords(Columns([k \in 0 .. 2 * N - 2 |-> MulTerms(a, b, k)], 2 * N - 1, code),
             2 * N - 1)

ScalarMul512(a, b) == Mul512With(a, b, "c")

SqrTerms(a, k) ==
    LET first == Max({0, k - N + 1})
    IN  [t \in 1 .. (k \div 2) - first + 1 |->
            LET i == first + t - 1
            IN  IF 2 * i # k THEN ProductTwice(a[i], a[k - i])
                ELSE IF k \in {0, 2 * N - 2} THEN ProductFast(a[i], a[i])
                ELSE Product(a[i], a[i])]

Sqr512With(a, code) ==
    AllWords(Columns([k \in 0 .. 2 * N - 2 |-> SqrTerms(a, k)], 2 * N - 1, code),
             2 * N - 1)

ScalarSqr512(a) == Sqr512With(a, "c")

ScalarMul(a, b) == ScalarReduce512(ScalarMul512(a, b))

ScalarSqr(a) == ScalarReduce512(ScalarSqr512(a))

ScalarShrInt(r, n) ==
    [r |-> [i \in Words |-> (r[i] \div 2^n)
               + (IF i = N - 1 THEN 0 ELSE Wrap(r[i + 1] * 2^(W - n)))],
     low |-> r[0] % 2^n]

ScalarSplit128(a) ==
    [r1 |-> [i \in Words |-> IF i < N \div 2 THEN a[i] ELSE 0],
     r2 |-> [i \in Words |-> IF i < N \div 2 THEN a[i + N \div 2] ELSE 0]]

ScalarEq(a, b) == \A i \in Words : a[i] = b[i]

\* The product shifted right by shift >= 256 bits, rounded.
ShiftRounded(l, shift) ==
    LET by == shift \div W
        r == [i \in Words |->
                IF i + by >= 2 * N THEN 0
                ELSE (l[i + by] \div 2^(shift % W))
                     + (IF i + by + 1 < 2 * N /\ shift % W > 0
                        THEN Wrap(l[i + by + 1] * 2^(W - (shift % W))) ELSE 0)]
    IN  ScalarCAddBit(r, 0, (l[(shift - 1) \div W] \div 2^((shift - 1) % W)) % 2)

ScalarMulShiftVar(a, b, shift) == ShiftRounded(ScalarMul512(a, b), shift)

ScalarIsEven(a) == a[0] % 2 = 0
=============================================================================
