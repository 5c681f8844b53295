------------------------------ MODULE Field5x52 ------------------------------
(***************************************************************************)
(* The other representation of the field: five 52-bit limbs in 64-bit      *)
(* words, accumulators of 128 bits (field_5x52_impl.h,                     *)
(* field_5x52_int128_impl.h).  The build selects one of the two; their     *)
(* results must be the same numbers.                                       *)
(*                                                                         *)
(*     W = 52   T = 48   C = 0x1000003D1   p = 2^256 - C                   *)
(*     WordBits = 64   AccBits = 128   MaxMagnitude = 2048                 *)
(***************************************************************************)
EXTENDS Integers, Limbs, FiniteSetsExt

CONSTANTS W, T, C, WordBits, AccBits, Bytes, ByteBits, MaxMagnitude

B    == 2^W
TopB == 2^T
p    == 2^(W * 4 + T) - C
S    == W - T
R    == C * 2^S                         \* 0x1000003D10

Field5x52Assumption ==
    /\ {W, T, C, WordBits, AccBits, Bytes, ByteBits, MaxMagnitude} \subseteq Nat
    /\ T < W /\ W < WordBits /\ C >= 1 /\ 2 * C <= B
    /\ Bytes * ByteBits >= W * 4 + T /\ ByteBits \in 1 .. WordBits
    /\ MaxMagnitude >= 1 /\ TopB >= 2 * MaxMagnitude
    /\ 2 * MaxMagnitude * B <= 2^WordBits
    /\ PowersOfTwo(WordBits) /\ 2^AccBits \in Nat \ {0}

Word(x) == x % 2^WordBits               \* uint64_t
Acc(x)  == x % 2^AccBits                \* uint128_t

Limb == 0 .. 4

P(i) == CASE i = 0 -> B - C
          [] i = 4 -> TopB - 1
          [] OTHER -> B - 1

FeVerify(a) ==
    LET m == IF a.normalized THEN 1 ELSE 2 * a.magnitude
    IN  /\ \A i \in 0 .. 3 : a.n[i] <= (B - 1) * m
        /\ a.n[4] <= (TopB - 1) * m
        /\ a.magnitude \in 0 .. MaxMagnitude
        /\ a.normalized =>
              /\ a.magnitude <= 1
              /\ (\A i \in 1 .. 4 : a.n[i] = P(i)) => a.n[0] < P(0)

Folded(t, x) == [t EXCEPT ![0] = Word(@ + Word(x * C))]

FirstPass(n) ==
    Carried(Folded([n EXCEPT ![4] = @ % TopB], n[4] \div TopB), W, WordBits)

AtLeastP(t) == (\A i \in 1 .. 4 : t[i] = P(i)) /\ t[0] >= P(0)

FeNormalize(r) ==
    LET t == FirstPass(r.n)
        x == IF t[4] \div TopB = 1 \/ AtLeastP(t) THEN 1 ELSE 0
        u == Carried(Folded(t, x), W, WordBits)
    IN  [n |-> [u EXCEPT ![4] = @ % TopB], magnitude |-> 1, normalized |-> TRUE]

FeNormalizeWeak(r) == [r EXCEPT !.n = FirstPass(r.n), !.magnitude = 1]

FeNormalizeVar(r) ==
    LET t == FirstPass(r.n)
        u == Carried(Folded(t, 1), W, WordBits)
    IN  [n |-> IF t[4] \div TopB = 1 \/ AtLeastP(t)
               THEN [u EXCEPT ![4] = @ % TopB]
               ELSE t,
         magnitude |-> 1, normalized |-> TRUE]

FeNormalizesToZero(r) ==
    LET t == FirstPass(r.n)
    IN  (\A i \in Limb : t[i] = 0) \/ (\A i \in Limb : t[i] = P(i))

FeNormalizesToZeroVar(r) ==
    LET low == Word(r.n[0] + (r.n[4] \div TopB) * C) % B
        t   == FirstPass(r.n)
    IN  /\ low \in {0, P(0)}
        /\ \/ low = 0 /\ \A i \in Limb : t[i] = 0
           \/ low = P(0) /\ \A i \in 1 .. 4 : t[i] = P(i)

FeSetInt(a) == [n |-> [i \in Limb |-> IF i = 0 THEN a ELSE 0],
                magnitude |-> 1, normalized |-> TRUE]

FeIsZero(a) == \A i \in Limb : a.n[i] = 0

FeIsOdd(a) == a.n[0] % 2 = 1

FeClear == [n |-> [i \in Limb |-> 0], magnitude |-> 0, normalized |-> TRUE]

FeCmpVar(a, b) ==
    LET differ == {i \in Limb : a.n[i] # b.n[i]}
    IN  IF differ = {} THEN 0
        ELSE IF a.n[Max(differ)] > b.n[Max(differ)] THEN 1 ELSE -1

FeSetB32(r, a) ==
    LET n == Regroup(a, ByteBits, W * 4 + T, 5, W)
    IN  IF AtLeastP(n)
        THEN [ok |-> FALSE, r |-> [r EXCEPT !.n = n]]
        ELSE [ok |-> TRUE,  r |-> [n |-> n, magnitude |-> 1, normalized |-> TRUE]]

FeGetB32(a) == Regroup(a.n, W, W * 4 + T, Bytes, ByteBits)

FeNegate(a, m) ==
    [n |-> [i \in Limb |-> Word(P(i) * 2 * (m + 1) - a.n[i])],
     magnitude |-> m + 1, normalized |-> FALSE]

FeMulInt(r, a) ==
    [n |-> [i \in Limb |-> Word(r.n[i] * a)],
     magnitude |-> r.magnitude * a, normalized |-> FALSE]

FeAdd(r, a) ==
    [n |-> [i \in Limb |-> Word(r.n[i] + a.n[i])],
     magnitude |-> r.magnitude + a.magnitude, normalized |-> FALSE]

-----------------------------------------------------------------------------
MulColumns(a, b) ==
    [k \in 0 .. 8 |->
        MapThenSumSet(LAMBDA i : a[i] * b[k - i], {i \in Limb : k - i \in Limb})]

\* The multiplication with the columns in the order of the code: p3 and p8,
\* p4, then p0 with p5, p1 with p6, p2 with p7.  t3 and t4 wait for the
\* carries of the low columns, and what t4 holds above bit 256 joins p5.
MulUpper(col) ==
    LET c8 == Acc(col[8])
        d3 == Acc(col[3] + (c8 % B) * R)
        d4 == Acc(d3 \div B + col[4] + (c8 \div B) * R)
        t4 == d4 % B
        d5 == Acc(d4 \div B + col[5])
    IN  [t3 |-> d3 % B, t4 |-> t4 % TopB, d |-> d5 \div B,
         u0 |-> (d5 % B) * 2^S + t4 \div TopB]

\* d has been shifted, and goes on with column 6.
MulLower(col, h) ==
    LET c0 == Acc(col[0] + h.u0 * C)
        d6 == Acc(h.d + col[6])
        c1 == Acc(c0 \div B + col[1] + (d6 % B) * R)
        d7 == Acc(d6 \div B + col[7])
        c2 == Acc(c1 \div B + col[2] + (d7 % B) * R)
        c3 == Acc(c2 \div B + (d7 \div B) * R + h.t3)
    IN  [i \in Limb |-> CASE i = 0 -> c0 % B
                          [] i = 1 -> c1 % B
                          [] i = 2 -> c2 % B
                          [] i = 3 -> c3 % B
                          [] i = 4 -> Word(c3 \div B + h.t4)]

MulReduce(col) == MulLower(col, MulUpper(col))

\* The room that the end of a product needs, when limbs are at most x and top
\* limbs at most y: what is carried into limb 4 is below the width of that limb.
LastCarryFits(x, y) ==
    LET e  == 2^AccBits \div B
        c2 == e + 3 * x * x + (B - 1) * R
        d7 == e + 2 * x * y
    IN  c2 \div B + (d7 \div B) * R + B - 1 < B * TopB

FeMulInner(a, b) == MulReduce(MulColumns(a, b))

\* Squaring doubles one factor of each cross product in its 64-bit word.
SqrColumns(a) ==
    [k \in 0 .. 8 |->
        MapThenSumSet(LAMBDA i : IF 2 * i = k THEN a[i] * a[i]
                                 ELSE Word(a[i] * 2) * a[k - i],
                      {i \in Limb : k - i \in Limb /\ 2 * i <= k})]

FeSqrInner(a) == MulReduce(SqrColumns(a))

\* The x86-64 assembler keeps an accumulator in two registers; after a shift
\* by 52 (shrdq) it goes on with the low register alone.  Columns 3, 8, 4
\* and 5 first.
Shifted(x) == Word(x \div B)

AsmUpper(col) ==
    LET c  == Acc(col[8])
        d3 == Acc(col[3] + (c % B) * R)
        d4 == Acc(Shifted(d3) + col[4] + Shifted(c) * R)
        t4 == d4 % B
        d5 == Acc(Shifted(d4) + col[5])
    IN  [t3 |-> d3 % B, t4 |-> t4 % TopB, d |-> Shifted(d5),
         u0 |-> (d5 % B) * 2^S + t4 \div TopB]

\* The low columns.  t3 is added to the low register of c, without a carry
\* into the high one.
AsmLower(col, h) ==
    LET c0 == Acc(col[0] + h.u0 * C)
        d6 == Acc(h.d + col[6])
        c1 == Acc(Shifted(c0) + col[1] + (d6 % B) * R)
        d7 == Acc(Shifted(d6) + col[7])
        c2 == Acc(Shifted(c1) + col[2] + (d7 % B) * R)
        c3 == Acc(Word(Shifted(c2) + h.t3) + Shifted(d7) * R)
    IN  [i \in Limb |-> CASE i = 0 -> c0 % B
                          [] i = 1 -> c1 % B
                          [] i = 2 -> c2 % B
                          [] i = 3 -> c3 % B
                          [] i = 4 -> Word(Shifted(c3) + h.t4)]

FeMulInnerAsm(a, b) == AsmLower(MulColumns(a, b), AsmUpper(MulColumns(a, b)))

FeSqrInnerAsm(a) == AsmLower(SqrColumns(a), AsmUpper(SqrColumns(a)))

FeMul(a, b) == [n |-> FeMulInner(a.n, b.n), magnitude |-> 1, normalized |-> FALSE]

FeSqr(a) == [n |-> FeSqrInner(a.n), magnitude |-> 1, normalized |-> FALSE]

FeCMov(r, a, flag) ==
    [n |-> [i \in Limb |-> IF flag = 1 THEN a.n[i] ELSE r.n[i]],
     magnitude |-> Max({r.magnitude, a.magnitude}),
     normalized |-> r.normalized /\ a.normalized]

\* Four 64-bit words.
StorageWords == (W * 4 + T + WordBits - 1) \div WordBits

FeToStorage(a) == Regroup(a.n, W, W * 4 + T, StorageWords, WordBits)

FeFromStorage(s) == [n |-> Regroup(s, WordBits, W * 4 + T, 5, W),
                     magnitude |-> 1, normalized |-> TRUE]

FeStorageCMov(r, a, flag) == [i \in DOMAIN r |-> IF flag = 1 THEN a[i] ELSE r[i]]
=============================================================================
