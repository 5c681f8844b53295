-------------------------------- MODULE Limbs --------------------------------
(***************************************************************************)
(* Numbers kept as arrays of limbs: a limb array is a function on 0 .. n-1 *)
(* whose entry i weighs 2^(w*i).  The modules of the arithmetic of         *)
(* secp256k1 share these few operators; they are pure, and every width is  *)
(* an argument.                                                            *)
(***************************************************************************)
LOCAL INSTANCE Integers
LOCAL INSTANCE FiniteSetsExt
LOCAL INSTANCE Folds

\* The number that the limbs `l' of width `w' stand for.
LimbValue(l, w) == MapThenSumSet(LAMBDA i : l[i] * 2^(w * i), DOMAIN l)

\* Bit `i' of the number, when every limb is below 2^w.
LimbBit(l, w, i) == (l[i \div w] \div 2^(i % w)) % 2

\* The number of the bits b[0] .. b[v - 1].
OfBits(b, v) ==
    LET s[j \in 0 .. v] == IF j = 0 THEN 0 ELSE s[j - 1] + b[j - 1] * 2^(j - 1)
    IN  s[v]

\* The low `bits' bits of limbs of width `w', cut again into `n' limbs of
\* width `v': what the shifts and masks of every conversion between bytes,
\* words and limbs compute.
Regroup(l, w, bits, n, v) ==
    [k \in 0 .. n - 1 |->
        OfBits([j \in 0 .. v - 1 |->
                    IF k * v + j < bits THEN LimbBit(l, w, k * v + j) ELSE 0], v)]

PowersOfTwo(k) == \A i \in 0 .. k : 2^i \in Nat \ {0} /\ 2^(i + 1) = 2 * 2^i

\* The limbs of the number x.
ToLimbs(x, n, w) == [k \in 0 .. n - 1 |-> (x \div 2^(w * k)) % 2^w]

\* x * y modulo m by doubling and adding, for numbers whose product TLC
\* cannot hold; x, y < m < 2^30.
MulMod(x, y, m) ==
    LET f[k \in 0 .. 30] ==
            IF k = 0 \/ y \div 2^(30 - k) = 0 THEN 0
            ELSE LET d == (2 * f[k - 1]) % m
                 IN  IF (y \div 2^(30 - k)) % 2 = 1 THEN (d + x) % m ELSE d
    IN  f[30]

\* The number that the limbs stand for, modulo m.
LimbValueMod(l, w, m) ==
    MapThenFoldSet(LAMBDA x, y : (x + y) % m, 0,
                   LAMBDA i : MulMod(l[i], 2^(w * i) % m, m),
                   LAMBDA S : CHOOSE i \in S : TRUE, DOMAIN l)

\* The carries of a sum: every limb passes what exceeds `w' bits to the
\* next, the last one keeps what it holds.  A limb lives in a machine word of
\* `bits' bits.
Carried(t, w, bits) ==
    LET n == CHOOSE m \in DOMAIN t : m + 1 \notin DOMAIN t
        s[i \in 0 .. n] ==
            (t[i] + (IF i = 0 THEN 0 ELSE s[i - 1] \div 2^w)) % 2^bits
    IN  [i \in 0 .. n |-> IF i = n THEN s[i] ELSE s[i] % 2^w]
=============================================================================
