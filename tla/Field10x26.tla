------------------------------ MODULE Field10x26 ------------------------------
(***************************************************************************)
(* Field elements of secp256k1 as ten 26-bit limbs in 32-bit words         *)
(* (field_10x26_impl.h, the representation this application compiles).     *)
(* An element carries the two fields the library keeps in its verification *)
(* builds: `magnitude', which bounds how far the limbs exceed their width, *)
(* and `normalized'.                                                       *)
(*                                                                         *)
(* The numbers of the code are the constants:                              *)
(*     N = 10   W = 26   T = 22 (width of the top limb)                    *)
(*     C0 = 0x3D1   C1 = 0x40        p = 2^256 - C1 * 2^26 - C0            *)
(*     WordBits = 32   AccBits = 64   Bytes = 32 of ByteBits = 8           *)
(*     MaxMagnitude = 32                                                   *)
(***************************************************************************)
EXTENDS Integers, FiniteSetsExt, Limbs

CONSTANTS N, W, T, C0, C1, WordBits, AccBits, Bytes, ByteBits, MaxMagnitude

Top  == N - 1
B    == 2^W                             \* one more than the mask M of a limb
TopB == 2^T
p    == 2^(W * Top + T) - C1 * B - C0

ASSUME Field10x26Assumption ==
    /\ {N, W, T, C0, C1, WordBits, AccBits, Bytes, ByteBits, MaxMagnitude} \subseteq Nat
    /\ N > 4 /\ T < W /\ W < WordBits /\ C0 >= 1 /\ 2 * C0 <= B /\ 2 * C1 < B
    /\ Bytes * ByteBits >= W * Top + T /\ ByteBits \in 1 .. WordBits
    /\ MaxMagnitude >= 1 /\ TopB >= 2 * MaxMagnitude
    /\ 2 * MaxMagnitude * B <= 2^WordBits
    /\ PowersOfTwo(WordBits) /\ 2^AccBits \in Nat \ {0}
    /\ \A k \in 0 .. Bytes - 1 : 2^(ByteBits * k) \in Nat \ {0}

Word(x) == x % 2^WordBits               \* uint32_t
Acc(x)  == x % 2^AccBits                \* uint64_t

Limb == 0 .. Top

\* The limbs of p, as the code spells them: 0x3FFFC2F, 0x3FFFFBF, 0x3FFFFFF.. .
P(i) == CASE i = 0   -> B - C0
          [] i = 1   -> B - 1 - C1
          [] i = Top -> TopB - 1
          [] OTHER   -> B - 1

\* The limbs allow a magnitude m to be at most 2*m times a full limb; a
\* normalized element is below p.
FeVerify(a) ==
    LET m == IF a.normalized THEN 1 ELSE 2 * a.magnitude
    IN  /\ \A i \in Limb \ {Top} : a.n[i] <= (B - 1) * m
        /\ a.n[Top] <= (TopB - 1) * m
        /\ a.magnitude \in 0 .. MaxMagnitude
        /\ a.normalized =>
              /\ a.magnitude <= 1
              /\ (\A i \in 2 .. Top : a.n[i] = P(i))
                    => a.n[1] + C1 + ((a.n[0] + C0) \div B) <= B - 1

\* x times 2^256 is x * (C1 * 2^26 + C0) mod p.
Folded(t, x) == [t EXCEPT ![0] = Word(@ + x * C0), ![1] = Word(@ + Word(x * C1))]

\* The pass that every normalisation starts with: the excess of the top limb
\* is folded into the low ones and the carries travel up once.
FirstPass(n) ==
    Carried(Folded([n EXCEPT ![Top] = @ % TopB], n[Top] \div TopB), W, WordBits)

\* Mutant: p itself passes for a value below p.
AboveP(t) ==
    /\ \A i \in 2 .. Top : t[i] = P(i)
    /\ t[1] + C1 + ((t[0] + C0) \div B) > B

\* Is a value with a carried representation at least p?
AtLeastP(t) ==
    /\ \A i \in 2 .. Top : t[i] = P(i)
    /\ t[1] + C1 + ((t[0] + C0) \div B) > B - 1

FeNormalize(r) ==
    LET t == FirstPass(r.n)
        x == IF t[Top] \div TopB = 1 \/ AtLeastP(t) THEN 1 ELSE 0
        u == Carried(Folded(t, x), W, WordBits)
    IN  [n |-> [u EXCEPT ![Top] = @ % TopB], magnitude |-> 1, normalized |-> TRUE]

FeNormalizeWeak(r) == [r EXCEPT !.n = FirstPass(r.n), !.magnitude = 1]

FeNormalizeVar(r) ==
    LET t == FirstPass(r.n)
        u == Carried(Folded(t, 1), W, WordBits)
    IN  [n |-> IF t[Top] \div TopB = 1 \/ AtLeastP(t)
               THEN [u EXCEPT ![Top] = @ % TopB]
               ELSE t,
         magnitude |-> 1, normalized |-> TRUE]

\* z0 collects whether every limb is zero, z1 whether every limb is p's.
FeNormalizesToZero(r) ==
    LET t == FirstPass(r.n)
    IN  \/ \A i \in Limb : t[i] = 0
        \/ \A i \in Limb : t[i] = P(i)

\* The variable-time form looks at the low limb alone before the others.
FeNormalizesToZeroVar(r) ==
    LET low == Word(r.n[0] + (r.n[Top] \div TopB) * C0) % B
        t   == FirstPass(r.n)
    IN  /\ low \in {0, P(0)}
        /\ \/ low = 0 /\ \A i \in Limb : t[i] = 0
           \/ low = P(0) /\ \A i \in Limb \ {0} : t[i] = P(i)

FeSetInt(a) == [n |-> [i \in Limb |-> IF i = 0 THEN a ELSE 0],
                magnitude |-> 1, normalized |-> TRUE]

FeIsZero(a) == \A i \in Limb : a.n[i] = 0

FeIsOdd(a) == a.n[0] % 2 = 1

FeClear == [n |-> [i \in Limb |-> 0], magnitude |-> 0, normalized |-> TRUE]

\* From the top limb down, the first difference decides.
FeCmpVar(a, b) ==
    LET differ == {i \in Limb : a.n[i] # b.n[i]}
    IN  IF differ = {} THEN 0
        ELSE IF a.n[Max(differ)] > b.n[Max(differ)] THEN 1 ELSE -1

\* Bytes count from the least significant one here, a[31] in the code.
\* When the value is not below p the call fails: the limbs are written all
\* the same, magnitude and normalized keep what r had before.
FeSetB32(r, a) ==
    LET n == Regroup(a, ByteBits, W * Top + T, N, W)
    IN  IF AtLeastP(n)
        THEN [ok |-> FALSE, r |-> [r EXCEPT !.n = n]]
        ELSE [ok |-> TRUE,  r |-> [n |-> n, magnitude |-> 1, normalized |-> TRUE]]

FeGetB32(a) == Regroup(a.n, W, W * Top + T, Bytes, ByteBits)

\* 2*(m+1) times p, limb by limb, minus a: no limb goes below zero.
FeNegate(a, m) ==
    [n |-> [i \in Limb |-> Word(P(i) * 2 * (m + 1) - a.n[i])],
     magnitude |-> m + 1, normalized |-> FALSE]

FeMulInt(r, a) ==
    [n |-> [i \in Limb |-> Word(r.n[i] * a)],
     magnitude |-> r.magnitude * a, normalized |-> FALSE]

FeAdd(r, a) ==
    [n |-> [i \in Limb |-> Word(r.n[i] + a.n[i])],
     magnitude |-> r.magnitude + a.magnitude, normalized |-> FALSE]

-----------------------------------------------------------------------------
\* 2^(26 * 10) is R1 * 2^26 + R0 mod p.
S  == W - T
R0 == C0 * 2^S
R1 == C1 * 2^S

\* Column k is the sum of the products that weigh 2^(26 * k).
MulColumns(a, b) ==
    [k \in 0 .. 2 * N - 2 |->
        MapThenSumSet(LAMBDA i : a[i] * b[k - i], {i \in Limb : k - i \in Limb})]

\* c walks up the columns 0 .. 8 and d the columns 9 .. 18 at the same time:
\* what d leaves in its low limb (u) weighs 2^260 more than c and is folded in.
MulStep(col, s, k) ==
    LET d == Acc(s.d + col[N + k])
        u == d % B
        c == Acc(Acc(s.c + col[k]) + u * R0)
    IN  [d |-> d \div B, t |-> c % B, c |-> Acc(c \div B + u * R1)]

\* The end of the multiplication: t9 and what is left of c and d.
MulFinish(t, s, t9) ==
    LET c9 == Acc(s.c + Acc(s.d * R0 + t9))
        c  == Acc(c9 \div TopB + s.d * (R1 * 2^S))
        d0 == Acc(c * C0 + t[0])
        d1 == Acc(d0 \div B + c * C1 + t[1])
    IN  [i \in Limb |-> CASE i = 0   -> d0 % B
                          [] i = 1   -> d1 % B
                          [] i = 2   -> Word(d1 \div B + t[2])
                          [] i = Top -> c9 % TopB
                          [] OTHER   -> t[i]]

\* Column 9 first, the unrolled steps, the end.
MulReduce(col) ==
    LET d9 == Acc(col[Top])
        s[k \in -1 .. N - 2] ==
            IF k = -1 THEN [d |-> d9 \div B, t |-> 0, c |-> 0]
                      ELSE MulStep(col, s[k - 1], k)
    IN  MulFinish([k \in 0 .. N - 2 |-> s[k].t], s[N - 2], d9 % B)

\* The room that the end of a product needs, when limbs are at most x and top
\* limbs at most y: what is left for limb 2 is below a limb.
LastCarryFits(x, y) ==
    LET e  == 2^AccBits \div B
        d  == ((e + 2 * x * y) \div B + y * y) \div B
        c9 == e + (B - 1) * R1 + d * R0 + B - 1
        c  == c9 \div TopB + d * (R1 * 2^S)
    IN  (c * C0 + B - 1) \div B + c * C1 + B - 1 < B * B

FeMulInner(a, b) == MulReduce(MulColumns(a, b))

\* Squaring takes each product of two different limbs once and doubles one
\* factor, in its 32-bit word.
SqrColumns(a) ==
    [k \in 0 .. 2 * N - 2 |->
        MapThenSumSet(LAMBDA i : IF 2 * i = k THEN a[i] * a[i]
                                 ELSE Word(a[i] * 2) * a[k - i],
                      {i \in Limb : k - i \in Limb /\ 2 * i <= k})]

FeSqrInner(a) == MulReduce(SqrColumns(a))

FeMul(a, b) == [n |-> FeMulInner(a.n, b.n), magnitude |-> 1, normalized |-> FALSE]

FeSqr(a) == [n |-> FeSqrInner(a.n), magnitude |-> 1, normalized |-> FALSE]

FeCMov(r, a, flag) ==
    [n |-> [i \in Limb |-> IF flag = 1 THEN a.n[i] ELSE r.n[i]],
     magnitude |-> Max({r.magnitude, a.magnitude}),
     normalized |-> r.normalized /\ a.normalized]

\* Eight 32-bit words.
StorageWords == (W * Top + T + WordBits - 1) \div WordBits

FeToStorage(a) == Regroup(a.n, W, W * Top + T, StorageWords, WordBits)

FeFromStorage(s) == [n |-> Regroup(s, WordBits, W * Top + T, N, W),
                     magnitude |-> 1, normalized |-> TRUE]

FeStorageCMov(r, a, flag) == [i \in DOMAIN r |-> IF flag = 1 THEN a[i] ELSE r[i]]
=============================================================================
