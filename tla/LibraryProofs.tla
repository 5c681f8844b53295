---------------------------- MODULE LibraryProofs ----------------------------
(***************************************************************************)
(* Results on the library's algorithms, for every value of the sizes.      *)
(*                                                                         *)
(* The digest and the HMAC of hash_impl.h do not depend on how a message   *)
(* is cut into writes: they are those that the standards define for the    *)
(* whole message.  A stream always holds the state after the full blocks   *)
(* of what was written and, in its buffer, the rest (Streams); a write     *)
(* keeps that (WriteStreams), and the padding that is written at the end   *)
(* is the one that the standard prescribes (PaddingFills).  For the HMAC,  *)
(* xoring the inner pad over the outer one cancels the latter (XorCancels).*)
(*                                                                         *)
(* The digits in which ecmult_impl.h and ecmult_const_impl.h write a       *)
(* scalar stand for it, whatever the scalar: each loop keeps what it has   *)
(* taken off plus what is left equal to the scalar (WalkOK, ConstOK), and  *)
(* nothing is left at the end.                                             *)
(*                                                                         *)
(* The DER form of a signature (ecdsa_impl.h) is read back, and is the     *)
(* only form that is: what is written of a scalar is the least that says   *)
(* it and is not negative (IntegerIsCanonical), there is one such form     *)
(* (CanonicalIsUnique), and no other is read (OnlyIntegersAreRead).        *)
(*                                                                         *)
(* No call on points asks the field for an operand that is out of range.   *)
(* The inductive invariant (PointsFit) bounds the magnitude of every       *)
(* coordinate and blinding point; under it each formula of group_impl.h    *)
(* and each multiplication is followed from its operands to its results    *)
(* (the ...Fits lemmas), down to inverses taken in a batch and the table   *)
(* of multiples of the generator.                                          *)
(*                                                                         *)
(* Signatures stay canonical whatever is done with them, through contexts  *)
(* that are cloned and blinded anew (SignaturesFit): every context is      *)
(* usable or says that it is not, what is made is low and below the order, *)
(* and the bytes that are sent can be read.                                *)
(*                                                                         *)
(* What is computed block after block, bit after bit, digit after digit    *)
(* and byte after byte is proved by induction, which is drawn from the     *)
(* well-foundedness of < on Nat.                                           *)
(***************************************************************************)
EXTENDS Library, SequenceTheorems, FiniteSetTheorems, WellFoundedInduction, TLAPS

(* Induction over the natural numbers.                                     *)

LEMMA Induction ==
    ASSUME NEW S, 0 \in S, \A k \in Nat : k \in S => k + 1 \in S
    PROVE  \A k \in Nat : k \in S
  <1> DEFINE T == Nat \ S
  <1>1. ASSUME T # {} PROVE FALSE
    <2>1. \E x \in T : \A y \in T : ~ (<<y, x>> \in OpToRel(<, Nat))
      BY <1>1, NatLessThanWellFounded, WFMin
    <2>2. PICK x \in T : \A y \in T : ~ (y < x)
      BY <2>1 DEF OpToRel
    <2>3. x # 0 /\ x - 1 \in Nat
      BY <2>2
    <2>4. x - 1 \in S
      BY <2>2, <2>3
    <2> QED
      BY <2>2, <2>3, <2>4
  <1> QED
    BY <1>1

-----------------------------------------------------------------------------
(* Bits.                                                                   *)

\* One more bit of an exclusive or.
OneMore(x) ==
    [a \in Nat |-> [b \in Nat |-> 2 * x[a \div 2][b \div 2] + ((a + b) % 2)]]

None == [a \in Nat |-> [b \in Nat |-> 0]]

IsXor(f, top) ==
    f = [k \in 0 .. top |-> [a \in Nat |-> [b \in Nat |->
            IF k = 0 THEN 0 ELSE 2 * f[k - 1][a \div 2][b \div 2] + ((a + b) % 2)]]]

LEMMA XorMeans ==
    ASSUME NEW top \in Nat, NEW f, IsXor(f, top)
    PROVE  /\ f[0] = None
           /\ \A k \in 1 .. top : f[k] = OneMore(f[k - 1])
  <1> DEFINE step(k) == [a \in Nat |-> [b \in Nat |->
                 IF k = 0 THEN 0 ELSE 2 * f[k - 1][a \div 2][b \div 2] + ((a + b) % 2)]]
  <1>1. f = [k \in 0 .. top |-> step(k)]
    BY DEF IsXor
  <1>2. step(0) = None
    BY DEF None
  <1>3. ASSUME NEW k \in 1 .. top PROVE step(k) = OneMore(f[k - 1])
    <2>1. k # 0
      BY <1>3
    <2> QED
      BY <2>1 DEF OneMore
  <1> HIDE DEF step
  <1> QED
    BY <1>1, <1>2, <1>3

LEMMA XorExists ==
    \A top \in Nat : \E f : IsXor(f, top)
  <1> DEFINE S == {top \in Nat : \E f : IsXor(f, top)}
  <1>1. 0 \in S
    <2> DEFINE f == [k \in 0 .. 0 |-> None]
    <2>1. IsXor(f, 0)
      BY DEF IsXor, None
    <2> QED
      BY <2>1
  <1>2. ASSUME NEW top \in Nat, top \in S PROVE top + 1 \in S
    <2>1. PICK f : IsXor(f, top)
      BY <1>2
    <2> DEFINE g == [k \in 0 .. top + 1 |-> IF k = top + 1 THEN OneMore(f[top]) ELSE f[k]]
    <2>2. IsXor(g, top + 1)
      <3> DEFINE e == [k \in 0 .. top + 1 |-> [a \in Nat |-> [b \in Nat |->
                         IF k = 0 THEN 0 ELSE 2 * g[k - 1][a \div 2][b \div 2] + ((a + b) % 2)]]]
      <3>1. ASSUME NEW k \in 0 .. top + 1 PROVE g[k] = e[k]
        <4>1. CASE k = 0
          BY <2>1, <4>1, XorMeans DEF None
        <4>2. CASE k # 0
          <5>1. k - 1 \in 0 .. top + 1 /\ k - 1 # top + 1 /\ g[k - 1] = f[k - 1]
            BY <4>2
          <5>2. g[k] = OneMore(f[k - 1])
            BY <2>1, <4>2, XorMeans
          <5> QED
            BY <4>2, <5>1, <5>2 DEF OneMore
        <4> QED
          BY <4>1, <4>2
      <3>2. g = e
        BY <3>1
      <3> QED
        BY <3>2 DEF IsXor
    <2> QED
      BY <2>2
  <1> HIDE DEF S
  <1>3. \A top \in Nat : top \in S
    BY <1>1, <1>2, Induction
  <1> QED
    BY <1>3 DEF S

LEMMA XorBitsMean ==
    /\ XorBits[0] = None
    /\ \A k \in 1 .. ByteBits : XorBits[k] = OneMore(XorBits[k - 1])
  <1>1. ByteBits \in Nat
    BY HashAssumption
  <1>2. IsXor(XorBits, ByteBits)
    BY <1>1, XorExists DEF XorBits, IsXor
  <1> QED
    BY <1>1, <1>2, XorMeans

-----------------------------------------------------------------------------
(* Exclusive or.                                                           *)

XorOfNat(f) == \A a, b \in Nat : f[a][b] \in Nat

LEMMA XorNat ==
    \A k \in Nat : k <= ByteBits => XorOfNat(XorBits[k])
  <1> DEFINE S == {k \in Nat : k <= ByteBits => XorOfNat(XorBits[k])}
  <1>1. 0 \in S
    BY XorBitsMean DEF None, XorOfNat
  <1>2. ASSUME NEW k \in Nat, k \in S PROVE k + 1 \in S
    <2> SUFFICES ASSUME k + 1 <= ByteBits PROVE XorOfNat(XorBits[k + 1])
      OBVIOUS
    <2>1. XorOfNat(XorBits[k]) /\ k + 1 \in 1 .. ByteBits
      BY <1>2, HashAssumption
    <2>2. XorBits[k + 1] = OneMore(XorBits[k])
      BY <2>1, XorBitsMean
    <2>3. SUFFICES ASSUME NEW a \in Nat, NEW b \in Nat PROVE OneMore(XorBits[k])[a][b] \in Nat
      BY <2>2 DEF XorOfNat
    <2>4. a \div 2 \in Nat /\ b \div 2 \in Nat /\ ((a + b) % 2) \in Nat
      OBVIOUS
    <2>5. XorBits[k][a \div 2][b \div 2] \in Nat
      BY <2>1, <2>4 DEF XorOfNat
    <2>6. OneMore(XorBits[k])[a][b] = 2 * XorBits[k][a \div 2][b \div 2] + ((a + b) % 2)
      BY DEF OneMore
    <2> QED
      BY <2>4, <2>5, <2>6
  <1> HIDE DEF S
  <1>3. \A k \in Nat : k \in S
    BY <1>1, <1>2, Induction
  <1> QED
    BY <1>3 DEF S

\* What was brought in twice is gone.
Cancels(f) == \A a, b, c \in Nat : f[f[a][b]][f[b][c]] = f[a][c]

LEMMA XorCancels ==
    \A k \in Nat : k <= ByteBits => Cancels(XorBits[k])
  <1> DEFINE S == {k \in Nat : k <= ByteBits => Cancels(XorBits[k])}
  <1>1. 0 \in S
    BY XorBitsMean DEF None, Cancels
  <1>2. ASSUME NEW k \in Nat, k \in S PROVE k + 1 \in S
    <2> SUFFICES ASSUME k + 1 <= ByteBits, NEW a \in Nat, NEW b \in Nat, NEW c \in Nat
                 PROVE  XorBits[k + 1][XorBits[k + 1][a][b]][XorBits[k + 1][b][c]]
                          = XorBits[k + 1][a][c]
      BY DEF Cancels
    <2> DEFINE f == XorBits[k]
               g == XorBits[k + 1]
    <2>1. Cancels(f) /\ XorOfNat(f) /\ k + 1 \in 1 .. ByteBits
      BY <1>2, HashAssumption, XorNat
    <2>2. g = OneMore(f)
      BY <2>1, XorBitsMean
    <2> HIDE DEF f, g
    <2>3. ASSUME NEW x \in Nat, NEW y \in Nat
          PROVE  /\ x \div 2 \in Nat /\ y \div 2 \in Nat
                 /\ f[x \div 2][y \div 2] \in Nat
                 /\ g[x][y] = 2 * f[x \div 2][y \div 2] + ((x + y) % 2)
                 /\ g[x][y] \in Nat
                 /\ g[x][y] \div 2 = f[x \div 2][y \div 2]
                 /\ g[x][y] % 2 = (x + y) % 2
      <3>1. x \div 2 \in Nat /\ y \div 2 \in Nat
        OBVIOUS
      <3>2. f[x \div 2][y \div 2] \in Nat
        BY <3>1, <2>1 DEF XorOfNat
      <3>3. g[x][y] = 2 * f[x \div 2][y \div 2] + ((x + y) % 2)
        BY <2>2 DEF OneMore
      <3> QED
        BY <3>1, <3>2, <3>3
    <2> DEFINE u == g[a][b]
               v == g[b][c]
    <2>4. u \in Nat /\ v \in Nat
      BY <2>3
    <2>5. g[u][v] = 2 * f[u \div 2][v \div 2] + ((u + v) % 2)
      BY <2>3, <2>4
    <2>6. g[a][c] = 2 * f[a \div 2][c \div 2] + ((a + c) % 2)
      BY <2>3
    <2>7. f[u \div 2][v \div 2] = f[a \div 2][c \div 2]
      <3>1. u \div 2 = f[a \div 2][b \div 2] /\ v \div 2 = f[b \div 2][c \div 2]
        BY <2>3
      <3>2. a \div 2 \in Nat /\ b \div 2 \in Nat /\ c \div 2 \in Nat
        OBVIOUS
      <3> HIDE DEF u, v
      <3> QED
        BY <2>1, <3>1, <3>2 DEF Cancels
    <2>8. (u + v) % 2 = (a + c) % 2
      <3>1. u % 2 = (a + b) % 2 /\ v % 2 = (b + c) % 2
        BY <2>3
      <3> HIDE DEF u, v
      <3> QED
        BY <2>4, <3>1
    <2> QED
      BY <2>5, <2>6, <2>7, <2>8 DEF g
  <1> HIDE DEF S
  <1>3. \A k \in Nat : k \in S
    BY <1>1, <1>2, Induction
  <1> QED
    BY <1>3 DEF S

\* As many bits come out as go in.
Within(f, k) == \A a, b \in Nat : f[a][b] < 2^k

LEMMA XorWithin ==
    \A k \in Nat : k <= ByteBits => Within(XorBits[k], k)
  <1> DEFINE S == {k \in Nat : k <= ByteBits => Within(XorBits[k], k)}
  <1>1. 0 \in S
    BY XorBitsMean DEF None, Within
  <1>2. ASSUME NEW k \in Nat, k \in S PROVE k + 1 \in S
    <2> SUFFICES ASSUME k + 1 <= ByteBits, NEW a \in Nat, NEW b \in Nat
                 PROVE  XorBits[k + 1][a][b] < 2^(k + 1)
      BY DEF Within
    <2>1. Within(XorBits[k], k) /\ XorOfNat(XorBits[k]) /\ k + 1 \in 1 .. ByteBits
      BY <1>2, HashAssumption, XorNat
    <2>2. XorBits[k + 1][a][b] = 2 * XorBits[k][a \div 2][b \div 2] + ((a + b) % 2)
      <3>1. XorBits[k + 1] = OneMore(XorBits[k])
        BY <2>1, XorBitsMean
      <3> QED
        BY <3>1 DEF OneMore
    <2>3. a \div 2 \in Nat /\ b \div 2 \in Nat /\ ((a + b) % 2) \in 0 .. 1
      OBVIOUS
    <2>4. XorBits[k][a \div 2][b \div 2] \in Nat /\ XorBits[k][a \div 2][b \div 2] < 2^k
      BY <2>1, <2>3 DEF Within, XorOfNat
    <2>5. 2^k \in Nat /\ 2^(k + 1) = 2 * 2^k
      <3>1. k \in 0 .. ByteBits * BlockBytes
        BY HashAssumption
      <3> QED
        BY <3>1, HashAssumption DEF PowersOfTwo
    <2> HIDE DEF S
    <2> QED
      BY <2>2, <2>3, <2>4, <2>5
  <1> HIDE DEF S
  <1>3. \A k \in Nat : k \in S
    BY <1>1, <1>2, Induction
  <1> QED
    BY <1>3 DEF S

\* The inner pad xored over the outer one is the inner pad xored over the key.
LEMMA XorBytes ==
    ASSUME NEW a \in Byte, NEW b \in Byte, NEW c \in Byte
    PROVE  /\ XorByte(a, b) \in Byte
           /\ XorByte(XorByte(a, b), XorByte(b, c)) = XorByte(a, c)
  <1>1. ByteBits \in Nat /\ a \in Nat /\ b \in Nat /\ c \in Nat
    BY HashAssumption DEF Byte
  <1>2. /\ XorOfNat(XorBits[ByteBits]) /\ Within(XorBits[ByteBits], ByteBits)
        /\ Cancels(XorBits[ByteBits])
    BY <1>1, XorNat, XorWithin, XorCancels
  <1>3. 2^ByteBits \in Int
    BY <1>1
  <1> QED
    BY <1>1, <1>2, <1>3 DEF XorByte, Byte, XorOfNat, Within, Cancels

-----------------------------------------------------------------------------
(* Compressing block after block.                                          *)

LEMMA DivMod ==
    ASSUME NEW x \in Nat, NEW b \in Nat \ {0}
    PROVE  /\ x \div b \in Nat /\ (x % b) \in 0 .. b - 1
           /\ x = b * (x \div b) + (x % b)
  OBVIOUS

LEMMA DivUnique ==
    ASSUME NEW b \in Nat \ {0}, NEW q \in Nat, NEW r \in 0 .. b - 1
    PROVE  (b * q + r) \div b = q /\ ((b * q + r) % b) = r
  OBVIOUS

Block(m, k) == SubSeq(m, (k - 1) * BlockBytes + 1, k * BlockBytes)

IsChain(f, s, m, top) ==
    f = [k \in 0 .. top |-> IF k = 0 THEN s ELSE Compress(f[k - 1], Block(m, k))]

Chain(s, m, top) == CHOOSE f : IsChain(f, s, m, top)

\* The state after the first k blocks of m.
Folded(s, m, k) == Chain(s, m, k)[k]

LEMMA ChainMeans ==
    ASSUME NEW top \in Nat, NEW f, NEW s, NEW m, IsChain(f, s, m, top)
    PROVE  /\ f[0] = s
           /\ \A k \in 1 .. top : f[k] = Compress(f[k - 1], Block(m, k))
  <1> DEFINE step(k) == IF k = 0 THEN s ELSE Compress(f[k - 1], Block(m, k))
  <1>1. f = [k \in 0 .. top |-> step(k)]
    BY DEF IsChain
  <1>2. step(0) = s
    OBVIOUS
  <1>3. \A k \in 1 .. top : step(k) = Compress(f[k - 1], Block(m, k))
    OBVIOUS
  <1> HIDE DEF step
  <1> QED
    BY <1>1, <1>2, <1>3

LEMMA ChainExists ==
    ASSUME NEW s, NEW m
    PROVE  \A top \in Nat : \E f : IsChain(f, s, m, top)
  <1> DEFINE S == {top \in Nat : \E f : IsChain(f, s, m, top)}
  <1>1. 0 \in S
    <2> DEFINE f == [k \in 0 .. 0 |-> s]
    <2>1. IsChain(f, s, m, 0)
      BY DEF IsChain
    <2> QED
      BY <2>1
  <1>2. ASSUME NEW top \in Nat, top \in S PROVE top + 1 \in S
    <2>1. PICK f : IsChain(f, s, m, top)
      BY <1>2
    <2> DEFINE g == [k \in 0 .. top + 1 |->
                       IF k = top + 1 THEN Compress(f[top], Block(m, top + 1)) ELSE f[k]]
               e == [k \in 0 .. top + 1 |->
                       IF k = 0 THEN s ELSE Compress(g[k - 1], Block(m, k))]
    <2>2. ASSUME NEW k \in 0 .. top + 1 PROVE g[k] = e[k]
      <3>1. CASE k = 0
        BY <2>1, <3>1, ChainMeans
      <3>2. CASE k # 0
        <4>1. k - 1 \in 0 .. top + 1 /\ k - 1 # top + 1 /\ g[k - 1] = f[k - 1]
          BY <3>2
        <4>2. g[k] = Compress(f[k - 1], Block(m, k))
          BY <2>1, <3>2, ChainMeans
        <4>3. e[k] = Compress(g[k - 1], Block(m, k))
          BY <3>2
        <4> QED
          BY <4>1, <4>2, <4>3
      <3> QED
        BY <3>1, <3>2
    <2>3. g = e
      BY <2>2
    <2>4. IsChain(g, s, m, top + 1)
      BY <2>3 DEF IsChain
    <2> HIDE DEF g
    <2> QED
      BY <2>4
  <1> HIDE DEF S
  <1>3. \A top \in Nat : top \in S
    BY <1>1, <1>2, Induction
  <1> QED
    BY <1>3 DEF S

LEMMA ChainSteps ==
    ASSUME NEW top \in Nat, NEW s, NEW m
    PROVE  /\ Chain(s, m, top)[0] = s
           /\ \A k \in 1 .. top :
                 Chain(s, m, top)[k] = Compress(Chain(s, m, top)[k - 1], Block(m, k))
  <1>1. IsChain(Chain(s, m, top), s, m, top)
    BY ChainExists DEF Chain
  <1> QED
    BY <1>1, ChainMeans

\* From its q-th state on, g compresses what f compresses from the beginning.
GoTogether(f, g, q, m, top) ==
    /\ f[0] = g[q]
    /\ \A k \in 1 .. top : /\ f[k] = Compress(f[k - 1], Block(m, k))
                          /\ g[q + k] = Compress(g[q + k - 1], Block(m, k))

LEMMA ChainsAgree ==
    ASSUME NEW q \in Nat, NEW top \in Nat, NEW f, NEW g, NEW m,
           GoTogether(f, g, q, m, top)
    PROVE  f[top] = g[q + top]
  <1> DEFINE S == {k \in Nat : k <= top => f[k] = g[q + k]}
  <1>1. 0 \in S
    BY DEF GoTogether
  <1>2. ASSUME NEW k \in Nat, k \in S PROVE k + 1 \in S
    <2> SUFFICES ASSUME k + 1 <= top PROVE f[k + 1] = g[q + (k + 1)]
      OBVIOUS
    <2>1. f[k] = g[q + k]
      BY <1>2
    <2>2. k + 1 \in 1 .. top /\ (k + 1) - 1 = k /\ q + (k + 1) - 1 = q + k
      OBVIOUS
    <2> HIDE DEF S
    <2> QED
      BY <2>1, <2>2 DEF GoTogether
  <1> HIDE DEF S
  <1>3. \A k \in Nat : k \in S
    BY <1>1, <1>2, Induction
  <1> QED
    BY <1>3 DEF S

LEMMA FoldedIsInEveryChain ==
    ASSUME NEW top \in Nat, NEW k \in 0 .. top, NEW s, NEW m
    PROVE  Chain(s, m, top)[k] = Folded(s, m, k)
  <1> DEFINE f == Chain(s, m, k)
             g == Chain(s, m, top)
  <1>1. k \in Nat
    OBVIOUS
  <1>2. f[0] = s /\ \A j \in 1 .. k : f[j] = Compress(f[j - 1], Block(m, j))
    BY <1>1, ChainSteps
  <1>3. g[0] = s /\ \A j \in 1 .. top : g[j] = Compress(g[j - 1], Block(m, j))
    BY ChainSteps
  <1> HIDE DEF f, g
  <1>4. GoTogether(f, g, 0, m, k)
    BY <1>2, <1>3 DEF GoTogether
  <1>5. f[k] = g[0 + k]
    BY <1>1, <1>4, ChainsAgree, ZenonT(40)
  <1> QED
    BY <1>1, <1>5 DEF f, g, Folded

LEMMA FoldedSteps ==
    ASSUME NEW s, NEW m, NEW k \in Nat
    PROVE  /\ Folded(s, m, 0) = s
           /\ Folded(s, m, k + 1) = Compress(Folded(s, m, k), Block(m, k + 1))
  <1>1. Folded(s, m, 0) = s
    BY ChainSteps DEF Folded
  <1>2. k + 1 \in Nat /\ k \in 0 .. k + 1 /\ k + 1 \in 1 .. k + 1 /\ (k + 1) - 1 = k
    OBVIOUS
  <1>3. Folded(s, m, k + 1) = Compress(Chain(s, m, k + 1)[k], Block(m, k + 1))
    BY <1>2, ChainSteps DEF Folded
  <1>4. Chain(s, m, k + 1)[k] = Folded(s, m, k)
    BY <1>2, FoldedIsInEveryChain
  <1> QED
    BY <1>1, <1>3, <1>4

\* What was compressed first and what is compressed afterwards make the whole.
LEMMA FoldedInTwo ==
    ASSUME NEW s, NEW m, NEW w, NEW q \in Nat, NEW top \in Nat,
           \A k \in 1 .. top : Block(m, k) = Block(w, q + k)
    PROVE  Folded(Folded(s, w, q), m, top) = Folded(s, w, q + top)
  <1> DEFINE f == Chain(Folded(s, w, q), m, top)
             g == Chain(s, w, q + top)
  <1>1. q + top \in Nat /\ q \in 0 .. q + top
    OBVIOUS
  <1>2. f[0] = g[q]
    BY <1>1, ChainSteps, FoldedIsInEveryChain
  <1>3. \A k \in 1 .. top : f[k] = Compress(f[k - 1], Block(m, k))
    BY ChainSteps
  <1>4. \A k \in 1 .. q + top : g[k] = Compress(g[k - 1], Block(w, k))
    BY <1>1, ChainSteps
  <1> HIDE DEF f, g
  <1>5. \A k \in 1 .. top : g[q + k] = Compress(g[q + k - 1], Block(m, k))
    BY <1>4
  <1>6. GoTogether(f, g, q, m, top)
    BY <1>2, <1>3, <1>5 DEF GoTogether
  <1>7. f[top] = g[q + top]
    BY <1>6, ChainsAgree
  <1> QED
    BY <1>7 DEF f, g, Folded

LEMMA FoldedOverTheSame ==
    ASSUME NEW s, NEW m, NEW w, NEW top \in Nat,
           \A k \in 1 .. top : Block(m, k) = Block(w, k)
    PROVE  Folded(s, m, top) = Folded(s, w, top)
  <1>1. \A k \in 1 .. top : Block(m, k) = Block(w, 0 + k)
    OBVIOUS
  <1>2. Folded(Folded(s, w, 0), m, top) = Folded(s, w, 0 + top)
    BY <1>1, FoldedInTwo
  <1> QED
    BY <1>2, FoldedSteps

LEMMA FoldedDigest ==
    ASSUME NEW s \in Digests, NEW m, NEW top \in Nat,
           \A k \in 1 .. top : Block(m, k) \in [1 .. BlockBytes -> Byte]
    PROVE  Folded(s, m, top) \in Digests
  <1> DEFINE S == {k \in Nat : k <= top => Folded(s, m, k) \in Digests}
  <1>1. 0 \in S
    BY FoldedSteps
  <1>2. ASSUME NEW k \in Nat, k \in S PROVE k + 1 \in S
    <2> SUFFICES ASSUME k + 1 <= top PROVE Folded(s, m, k + 1) \in Digests
      OBVIOUS
    <2>1. Folded(s, m, k) \in Digests /\ k + 1 \in 1 .. top
      BY <1>2
    <2> HIDE DEF S
    <2> QED
      BY <2>1, FoldedSteps, HashAssumption
  <1> HIDE DEF S
  <1>3. \A k \in Nat : k \in S
    BY <1>1, <1>2, Induction
  <1> QED
    BY <1>3 DEF S

-----------------------------------------------------------------------------
(* Blocks of a message, and of what is left of it.                         *)

LEMMA Times ==
    ASSUME NEW a \in Int, NEW b \in Int, NEW c \in Int
    PROVE  (a + b) * c = a * c + b * c /\ c * a = a * c
  OBVIOUS

LEMMA TimesNat ==
    ASSUME NEW a \in Nat, NEW b \in Nat
    PROVE  a * b \in Nat
  OBVIOUS

LEMMA TimesMonotone ==
    ASSUME NEW a \in Nat, NEW b \in Nat, NEW c \in Nat, a <= b
    PROVE  a * c <= b * c
  <1>1. b = a + (b - a) /\ b - a \in Nat
    OBVIOUS
  <1>2. (a + (b - a)) * c = a * c + (b - a) * c
    BY <1>1, Times
  <1>3. a * c \in Nat /\ (b - a) * c \in Nat
    BY <1>1, TimesNat
  <1> QED
    BY <1>1, <1>2, <1>3

LEMMA SameFunction ==
    ASSUME NEW j \in Int, NEW S, NEW x \in [1 .. j -> S], NEW y \in [1 .. j -> S],
           \A i \in 1 .. j : x[i] = y[i]
    PROVE  x = y
  OBVIOUS

LEMMA BlockOf ==
    ASSUME NEW S, NEW m \in Seq(S), NEW k \in Nat \ {0}, k * BlockBytes <= Len(m)
    PROVE  /\ Block(m, k) \in [1 .. BlockBytes -> S]
           /\ \A i \in 1 .. BlockBytes : /\ (k - 1) * BlockBytes + i \in 1 .. Len(m)
                                         /\ Block(m, k)[i] = m[(k - 1) * BlockBytes + i]
  <1> DEFINE a == (k - 1) * BlockBytes
  <1>1. /\ BlockBytes \in Nat \ {0} /\ a \in Nat /\ k * BlockBytes = a + BlockBytes
        /\ Len(m) \in Nat
    <2>1. BlockBytes \in Nat \ {0} /\ k - 1 \in Nat /\ k = (k - 1) + 1
      BY HashAssumption
    <2>2. ((k - 1) + 1) * BlockBytes = (k - 1) * BlockBytes + 1 * BlockBytes
      BY <2>1, Times
    <2>3. (k - 1) * BlockBytes \in Nat
      BY <2>1, TimesNat
    <2> QED
      BY <2>1, <2>2, <2>3
  <1> HIDE DEF a
  <1>2. \A i \in a + 1 .. a + BlockBytes : m[i] \in S
    BY <1>1, ElementOfSeq
  <1>3. /\ SubSeq(m, a + 1, a + BlockBytes) \in Seq(S)
        /\ Len(SubSeq(m, a + 1, a + BlockBytes)) = BlockBytes
        /\ \A i \in 1 .. BlockBytes : SubSeq(m, a + 1, a + BlockBytes)[i] = m[a + i]
    <2>1. a + 1 \in Int /\ a + BlockBytes \in Int /\ a + 1 <= a + BlockBytes
          /\ (a + BlockBytes) - (a + 1) + 1 = BlockBytes
      BY <1>1
    <2>2. \A i \in 1 .. BlockBytes : (a + 1) + i - 1 = a + i
      BY <1>1
    <2> QED
      BY <1>2, <2>1, <2>2, SubSeqProperties
  <1>4. SubSeq(m, a + 1, a + BlockBytes) \in [1 .. BlockBytes -> S]
    BY <1>3, LenProperties
  <1>5. Block(m, k) = SubSeq(m, a + 1, a + BlockBytes)
    BY <1>1 DEF Block, a
  <1>6. \A i \in 1 .. BlockBytes : a + i \in 1 .. Len(m)
    BY <1>1
  <1> QED
    BY <1>3, <1>4, <1>5, <1>6 DEF a

\* What does not fill a block.
Rest(m) == SubSeq(m, (Len(m) \div BlockBytes) * BlockBytes + 1, Len(m))

LEMMA RestOf ==
    ASSUME NEW S, NEW m \in Seq(S)
    PROVE  LET a == (Len(m) \div BlockBytes) * BlockBytes
           IN  /\ a \in Nat /\ a <= Len(m) /\ Len(m) - a < BlockBytes
               /\ Rest(m) \in Seq(S) /\ Len(Rest(m)) = Len(m) - a
               /\ \A i \in 1 .. Len(m) - a : Rest(m)[i] = m[a + i]
  <1> DEFINE a == (Len(m) \div BlockBytes) * BlockBytes
  <1>1. /\ BlockBytes \in Nat \ {0} /\ Len(m) \in Nat /\ a \in Nat /\ a <= Len(m)
        /\ Len(m) - a < BlockBytes
    <2>1. BlockBytes \in Nat \ {0} /\ Len(m) \in Nat
      BY HashAssumption
    <2>2. /\ Len(m) \div BlockBytes \in Nat /\ (Len(m) % BlockBytes) \in 0 .. BlockBytes - 1
          /\ Len(m) = BlockBytes * (Len(m) \div BlockBytes) + (Len(m) % BlockBytes)
      BY <2>1, DivMod
    <2>3. a = BlockBytes * (Len(m) \div BlockBytes) /\ a \in Nat
      BY <2>1, <2>2, Times, TimesNat
    <2> HIDE DEF a
    <2> QED
      BY <2>1, <2>2, <2>3
  <1>2. Rest(m) = SubSeq(m, a + 1, Len(m))
    BY DEF Rest
  <1> HIDE DEF a
  <1>3. \A i \in a + 1 .. Len(m) : m[i] \in S
    BY <1>1, ElementOfSeq
  <1>4. a + 1 \in Int /\ Len(m) \in Int /\ Len(m) - (a + 1) + 1 = Len(m) - a
    BY <1>1
  <1>5. \A i \in 1 .. Len(m) - a : (a + 1) + i - 1 = a + i
    BY <1>1
  <1>6. Len(Rest(m)) = Len(m) - a
    <2>1. Len(SubSeq(m, a + 1, Len(m))) =
              IF a + 1 <= Len(m) THEN Len(m) - (a + 1) + 1 ELSE 0
      BY <1>3, <1>4, SubSeqProperties
    <2> QED
      BY <1>1, <1>2, <2>1
  <1>7. Rest(m) \in Seq(S)
    BY <1>2, <1>3, <1>4, SubSeqProperties
  <1>8. \A i \in 1 .. Len(m) - a : Rest(m)[i] = m[a + i]
    <2>1. \A i \in 1 .. Len(m) - (a + 1) + 1 : SubSeq(m, a + 1, Len(m))[i] = m[(a + 1) + i - 1]
      BY <1>3, <1>4, SubSeqProperties
    <2> QED
      BY <1>2, <1>4, <1>5, <2>1
  <1> QED
    BY <1>1, <1>6, <1>7, <1>8 DEF a

-----------------------------------------------------------------------------
(* The stream.                                                             *)

\* h has hashed m, up to what does not fill a block.
Streams(h, m) ==
    /\ h.bytes = Len(m)
    /\ h.buf = Rest(m)
    /\ h.s = Folded(InitialState, m, Len(m) \div BlockBytes)

LEMMA EmptyStream == Streams(Sha256Initialize, <<>>)
  <1>1. Len(<<>>) = 0 /\ 0 \div BlockBytes = 0
    BY HashAssumption
  <1>2. Rest(<<>>) = <<>>
    <2>1. <<>> \in Seq({}) /\ Len(<<>>) = 0
      OBVIOUS
    <2>2. (Len(<<>>) \div BlockBytes) * BlockBytes = 0
      BY <1>1, HashAssumption
    <2> QED
      BY <2>1, <2>2, SubSeqEmpty DEF Rest
  <1>3. Folded(InitialState, <<>>, 0) = InitialState
    BY FoldedSteps
  <1> QED
    BY <1>1, <1>2, <1>3 DEF Streams, Sha256Initialize

\* What is in the buffer and what is written are the message from its first
\* incomplete block on.
LEMMA Continued ==
    ASSUME NEW S, NEW m \in Seq(S), NEW d \in Seq(S)
    PROVE  LET a == (Len(m) \div BlockBytes) * BlockBytes
               all == Rest(m) \o d
           IN  /\ all \in Seq(S) /\ Len(all) = Len(m \o d) - a /\ a \in Nat
               /\ \A i \in 1 .. Len(all) : all[i] = (m \o d)[a + i]
  <1> DEFINE a == (Len(m) \div BlockBytes) * BlockBytes
             r == Rest(m)
  <1>1. /\ a \in Nat /\ a <= Len(m) /\ r \in Seq(S) /\ Len(r) = Len(m) - a
        /\ \A i \in 1 .. Len(m) - a : r[i] = m[a + i]
    BY RestOf
  <1> HIDE DEF a, r
  <1>2. /\ r \o d \in Seq(S) /\ Len(r \o d) = Len(r) + Len(d)
        /\ \A i \in 1 .. Len(r) + Len(d) :
              (r \o d)[i] = IF i <= Len(r) THEN r[i] ELSE d[i - Len(r)]
    BY <1>1, ConcatProperties
  <1>3. /\ Len(m \o d) = Len(m) + Len(d)
        /\ \A i \in 1 .. Len(m) + Len(d) :
              (m \o d)[i] = IF i <= Len(m) THEN m[i] ELSE d[i - Len(m)]
    BY ConcatProperties
  <1>4. Len(m) \in Nat /\ Len(d) \in Nat
    OBVIOUS
  <1>5. ASSUME NEW i \in 1 .. Len(r \o d) PROVE (r \o d)[i] = (m \o d)[a + i]
    <2>1. a + i \in 1 .. Len(m) + Len(d) /\ i \in 1 .. Len(r) + Len(d)
      BY <1>1, <1>2, <1>4
    <2>2. CASE i <= Len(r)
      <3>1. i \in 1 .. Len(m) - a /\ a + i <= Len(m)
        BY <1>1, <1>4, <2>2
      <3> QED
        BY <1>1, <1>2, <1>3, <2>1, <2>2, <3>1
    <2>3. CASE ~ (i <= Len(r))
      <3>1. ~ (a + i <= Len(m)) /\ (a + i) - Len(m) = i - Len(r)
        BY <1>1, <1>4, <2>3
      <3> QED
        BY <1>2, <1>3, <2>1, <2>3, <3>1
    <2> QED
      BY <2>2, <2>3
  <1>6. Len(r \o d) = Len(m \o d) - a
    BY <1>1, <1>2, <1>3, <1>4
  <1>7. r \o d \in Seq(S) /\ a \in Nat
    BY <1>1, <1>2
  <1> QED
    BY <1>5, <1>6, <1>7 DEF a, r

LEMMA WriteStreams ==
    ASSUME NEW S, NEW m \in Seq(S), NEW d \in Seq(S), NEW h, Streams(h, m)
    PROVE  Streams(Sha256Write(h, d), m \o d)
  <1> DEFINE w    == m \o d
             q    == Len(m) \div BlockBytes
             a    == q * BlockBytes
             all  == Rest(m) \o d
             full == Len(all) \div BlockBytes
  <1>1. /\ all \in Seq(S) /\ Len(all) = Len(w) - a /\ a \in Nat
        /\ \A i \in 1 .. Len(all) : all[i] = w[a + i]
    BY Continued
  <1>2. w \in Seq(S) /\ Len(w) = Len(m) + Len(d) /\ Len(w) \in Nat /\ Len(all) \in Nat
        /\ Len(m) \in Nat /\ Len(d) \in Nat /\ BlockBytes \in Nat \ {0}
    BY <1>1, ConcatProperties, HashAssumption
  <1>3. q \in Nat /\ full \in Nat /\ a = BlockBytes * q
        /\ Len(all) = BlockBytes * full + (Len(all) % BlockBytes)
        /\ (Len(all) % BlockBytes) \in 0 .. BlockBytes - 1
    <2>1. q \in Nat /\ full \in Nat /\ Len(all) = BlockBytes * full + (Len(all) % BlockBytes)
          /\ (Len(all) % BlockBytes) \in 0 .. BlockBytes - 1
      BY <1>2, DivMod
    <2> QED
      BY <1>2, <2>1, Times
  <1>4. Len(w) \div BlockBytes = q + full
    <2>1. (q + full) * BlockBytes = a + full * BlockBytes
          /\ BlockBytes * (q + full) = (q + full) * BlockBytes
          /\ full * BlockBytes = BlockBytes * full
      BY <1>2, <1>3, Times
    <2> DEFINE r == Len(all) % BlockBytes
    <2> DEFINE c == full * BlockBytes
               t == (q + full) * BlockBytes
    <2>2. Len(all) = c + r /\ r \in 0 .. BlockBytes - 1 /\ t = a + c
          /\ BlockBytes * (q + full) = t /\ q + full \in Nat /\ c \in Nat
      BY <1>2, <1>3, <2>1, TimesNat
    <2> HIDE DEF w, q, full, r, c, t, a, all
    <2>3. Len(all) = Len(w) - a /\ a \in Nat /\ Len(w) \in Nat
      BY <1>1, <1>2
    <2>4. r \in Nat
      BY <1>2, <2>2
    <2>5. Len(w) = t + r
      BY <2>2, <2>3, <2>4
    <2>6. Len(w) = BlockBytes * (q + full) + r
      BY <2>2, <2>5
    <2>7. BlockBytes \in Nat \ {0} /\ q + full \in Nat /\ r \in 0 .. BlockBytes - 1
      BY <1>2, <2>2
    <2>8. (BlockBytes * (q + full) + r) \div BlockBytes = q + full
      BY <2>7, DivUnique
    <2> QED
      BY <2>6, <2>8
  <1>5. ASSUME NEW k \in 1 .. full PROVE Block(all, k) = Block(w, q + k)
    <2> DEFINE c == full * BlockBytes
               e == k * BlockBytes
               t == (q + k) * BlockBytes
    <2> HIDE DEF w, all, a, q, full
    <2>1. k \in Nat \ {0} /\ k <= full /\ q + k \in Nat \ {0} /\ (q + k) - 1 = q + (k - 1)
          /\ k - 1 \in Nat
      BY <1>3
    <2>2. c = BlockBytes * full /\ c \in Nat /\ e \in Nat
      BY <1>2, <1>3, <2>1, Times, TimesNat
    <2>3. e <= c
      BY <1>2, <1>3, <2>1, TimesMonotone
    <2>4. t = a + e /\ (q + (k - 1)) * BlockBytes = a + (k - 1) * BlockBytes
      BY <1>2, <1>3, <2>1, Times DEF a
    <2> HIDE DEF c, e, t
    <2>5. e <= Len(all) /\ t <= Len(w)
      BY <1>1, <1>2, <1>3, <2>2, <2>3, <2>4
    <2> DEFINE b == (k - 1) * BlockBytes
    <2>6. /\ Block(all, k) \in [1 .. BlockBytes -> S]
          /\ \A i \in 1 .. BlockBytes : b + i \in 1 .. Len(all) /\ Block(all, k)[i] = all[b + i]
      <3>1. all \in Seq(S) /\ k * BlockBytes <= Len(all)
        BY <1>1, <2>5 DEF e
      <3>2. k \in Nat \ {0}
        BY <2>1
      <3>3. Block(all, k) \in [1 .. BlockBytes -> S]
        BY <3>1, <3>2, BlockOf
      <3>4. \A i \in 1 .. BlockBytes : /\ (k - 1) * BlockBytes + i \in 1 .. Len(all)
                                       /\ Block(all, k)[i] = all[(k - 1) * BlockBytes + i]
        BY <3>1, <3>2, BlockOf
      <3> QED
        BY <3>3, <3>4
    <2>7. /\ Block(w, q + k) \in [1 .. BlockBytes -> S]
          /\ \A i \in 1 .. BlockBytes : Block(w, q + k)[i] = w[((q + k) - 1) * BlockBytes + i]
      <3> DEFINE j == q + k
      <3>1. j \in Nat \ {0} /\ j * BlockBytes <= Len(w)
        BY <2>1, <2>5 DEF t
      <3> HIDE DEF j
      <3>2. /\ Block(w, j) \in [1 .. BlockBytes -> S]
            /\ \A i \in 1 .. BlockBytes : Block(w, j)[i] = w[(j - 1) * BlockBytes + i]
        BY <1>2, <3>1, BlockOf
      <3> QED
        BY <3>2 DEF j
    <2>8. ((q + k) - 1) * BlockBytes = a + b
      BY <2>1, <2>4
    <2>9. b \in Nat
      BY <1>2, <2>1, TimesNat
    <2> HIDE DEF w, all, a, b, q, full
    <2>10. ASSUME NEW i \in 1 .. BlockBytes PROVE Block(all, k)[i] = Block(w, q + k)[i]
      <3>1. Block(all, k)[i] = w[a + (b + i)]
        BY <1>1, <2>6
      <3>2. Block(w, q + k)[i] = w[(a + b) + i]
        BY <2>7, <2>8
      <3> QED
        BY <1>1, <1>2, <2>9, <3>1, <3>2
    <2> DEFINE x == Block(all, k)
               y == Block(w, q + k)
    <2>11. /\ x \in [1 .. BlockBytes -> S] /\ y \in [1 .. BlockBytes -> S]
           /\ \A i \in 1 .. BlockBytes : x[i] = y[i]
      BY <2>6, <2>7, <2>10
    <2> HIDE DEF x, y
    <2>12. x = y
      BY <1>2, <2>11, SameFunction
    <2> QED
      BY <2>12 DEF x, y
  <1>6. Folded(InitialState, m, q) = Folded(InitialState, w, q)
    <2>1. ASSUME NEW k \in 1 .. q PROVE Block(m, k) = Block(w, k)
      <3>1. k \in Nat \ {0} /\ k <= q
        BY <1>3
      <3>2. k * BlockBytes <= a
        BY <1>2, <1>3, <3>1, TimesMonotone
      <3>3. k * BlockBytes \in Nat
        BY <1>2, <3>1, TimesNat
      <3>4. a <= Len(m)
        BY RestOf
      <3>5. k * BlockBytes <= Len(m) /\ k * BlockBytes <= Len(w)
        BY <1>1, <1>2, <3>2, <3>3, <3>4
      <3> DEFINE b == (k - 1) * BlockBytes
      <3>6. /\ Block(m, k) \in [1 .. BlockBytes -> S]
            /\ \A i \in 1 .. BlockBytes : b + i \in 1 .. Len(m) /\ Block(m, k)[i] = m[b + i]
        BY <3>1, <3>5, BlockOf
      <3>7. /\ Block(w, k) \in [1 .. BlockBytes -> S]
            /\ \A i \in 1 .. BlockBytes : Block(w, k)[i] = w[b + i]
        BY <1>2, <3>1, <3>5, BlockOf
      <3>8. \A i \in 1 .. Len(m) : w[i] = m[i]
        BY <1>2, ConcatProperties
      <3> HIDE DEF b, w
      <3> DEFINE x == Block(m, k)
                 y == Block(w, k)
      <3>9. /\ x \in [1 .. BlockBytes -> S] /\ y \in [1 .. BlockBytes -> S]
            /\ \A i \in 1 .. BlockBytes : x[i] = y[i]
        BY <3>6, <3>7, <3>8
      <3> HIDE DEF x, y
      <3>10. x = y
        BY <1>2, <3>9, SameFunction
      <3> QED
        BY <3>10 DEF x, y
    <2> HIDE DEF w, q
    <2> QED
      BY <1>3, <2>1, FoldedOverTheSame
  <1> DEFINE h2 == Sha256Write(h, d)
  <1>7. h.bytes = Len(m) /\ h.buf = Rest(m) /\ h.s = Folded(InitialState, m, q)
    BY DEF Streams
  <1>8. /\ h2.s = Folded(h.s, all, full)
        /\ h2.buf = SubSeq(all, full * BlockBytes + 1, Len(all))
        /\ h2.bytes = Len(m) + Len(d)
    <2>1. h2 = Absorb(h, all, Len(d))
      BY <1>7 DEF Sha256Write
    <2> HIDE DEF h2, all, full
    <2>2. Absorb(h, all, Len(d)).s = Folded(h.s, all, Len(all) \div BlockBytes)
      BY DEF Absorb, Sha256Transform, Folded, Chain, IsChain, Block
    <2>3. /\ Absorb(h, all, Len(d)).buf = SubSeq(all, (Len(all) \div BlockBytes) * BlockBytes + 1, Len(all))
          /\ Absorb(h, all, Len(d)).bytes = h.bytes + Len(d)
      BY DEF Absorb
    <2> QED
      BY <1>7, <2>1, <2>2, <2>3 DEF full
  <1>9. h2.s = Folded(InitialState, w, q + full)
    <2> HIDE DEF w, all, q, full, h2, a
    <2> QED
      BY <1>3, <1>5, <1>6, <1>7, <1>8, FoldedInTwo
  <1>10. h2.buf = Rest(w)
    <2>1. h2.buf = Rest(all)
      BY <1>8 DEF Rest
    <2> DEFINE c == full * BlockBytes
               t == (q + full) * BlockBytes
    <2>2. /\ Rest(all) \in Seq(S) /\ Len(Rest(all)) = Len(all) - c
          /\ \A i \in 1 .. Len(all) - c : Rest(all)[i] = all[c + i]
          /\ c \in Nat /\ c <= Len(all)
      BY <1>1, RestOf
    <2>3. t = a + c
      BY <1>2, <1>3, Times
    <2>4. /\ Rest(w) \in Seq(S) /\ Len(Rest(w)) = Len(w) - t
          /\ \A i \in 1 .. Len(w) - t : Rest(w)[i] = w[t + i]
      <3> DEFINE j == Len(w) \div BlockBytes
      <3>1. t = j * BlockBytes
        BY <1>4
      <3> HIDE DEF q, full, w, t
      <3>2. /\ Rest(w) \in Seq(S) /\ Len(Rest(w)) = Len(w) - j * BlockBytes
            /\ \A i \in 1 .. Len(w) - j * BlockBytes : Rest(w)[i] = w[j * BlockBytes + i]
        BY <1>2, RestOf
      <3> HIDE DEF j
      <3> QED
        BY <3>1, <3>2
    <2> HIDE DEF w, all, q, full, h2, a, c, t
    <2>5. Len(Rest(all)) = Len(Rest(w))
      <3>1. Len(all) = Len(w) - a /\ a \in Nat /\ Len(w) \in Nat
        BY <1>1, <1>2
      <3>2. Len(Rest(all)) = Len(all) - c /\ c \in Nat /\ Len(Rest(w)) = Len(w) - t
        BY <2>2, <2>4
      <3> QED
        BY <2>3, <3>1, <3>2
    <2>6. ASSUME NEW i \in 1 .. Len(Rest(all)) PROVE Rest(all)[i] = Rest(w)[i]
      <3>1. c \in Nat /\ c <= Len(all) /\ i \in 1 .. Len(all) - c /\ Rest(all)[i] = all[c + i]
        BY <2>2
      <3>2. i \in 1 .. Len(w) - t /\ Rest(w)[i] = w[t + i]
        BY <2>4, <2>5
      <3>3. c + i \in 1 .. Len(all) /\ a + (c + i) = t + i
        BY <1>1, <1>2, <2>3, <3>1
      <3> QED
        BY <1>1, <3>1, <3>2, <3>3
    <2> QED
      BY <2>1, <2>2, <2>4, <2>5, <2>6, SeqEqual
  <1> QED
    BY <1>2, <1>4, <1>8, <1>9, <1>10 DEF Streams

-----------------------------------------------------------------------------
(* Padding and digests.                                                    *)

LEMMA ByteFacts ==
    /\ 2^ByteBits \in Nat \ {0}
    /\ 0 \in Byte /\ 2^(ByteBits - 1) \in Byte
  <1>1. ByteBits \in Nat \ {0} /\ BlockBytes \in Nat \ {0}
    BY HashAssumption
  <1> DEFINE c == ByteBits * BlockBytes
  <1>2. c \in Nat /\ ByteBits <= c
    <2>1. 1 * ByteBits <= BlockBytes * ByteBits
      BY <1>1, TimesMonotone
    <2>2. BlockBytes * ByteBits = c /\ c \in Nat /\ 1 * ByteBits = ByteBits
      BY <1>1, Times, TimesNat
    <2> HIDE DEF c
    <2> QED
      BY <2>1, <2>2
  <1>3. \A i \in 0 .. c : 2^i \in Nat \ {0} /\ 2^(i + 1) = 2 * 2^i
    BY HashAssumption DEF PowersOfTwo
  <1> HIDE DEF c
  <1>4. ByteBits - 1 \in 0 .. c /\ ByteBits \in 0 .. c /\ (ByteBits - 1) + 1 = ByteBits
    BY <1>1, <1>2
  <1>5. /\ 2^ByteBits \in Nat \ {0} /\ 2^(ByteBits - 1) \in Nat \ {0}
        /\ 2^((ByteBits - 1) + 1) = 2 * 2^(ByteBits - 1)
    BY <1>3, <1>4
  <1> QED
    BY <1>4, <1>5 DEF Byte

LEMMA LengthIsBytes ==
    ASSUME NEW x \in Nat
    PROVE  BytesOf(x, LengthBytes) \in Seq(Byte) /\ Len(BytesOf(x, LengthBytes)) = LengthBytes
  <1> DEFINE f(i) == (x \div 2^(ByteBits * (LengthBytes - i))) % 2^ByteBits
  <1>1. LengthBytes \in Nat /\ BlockBytes \in Nat /\ ByteBits \in Nat /\ LengthBytes <= BlockBytes
    BY HashAssumption
  <1>2. ASSUME NEW i \in 1 .. LengthBytes PROVE f(i) \in Byte
    <2> DEFINE e == ByteBits * (LengthBytes - i)
               c == ByteBits * BlockBytes
    <2>1. LengthBytes - i \in Nat /\ LengthBytes - i <= BlockBytes
      BY <1>1
    <2>2. e = (LengthBytes - i) * ByteBits /\ c = BlockBytes * ByteBits /\ e \in Nat /\ c \in Nat
      BY <1>1, <2>1, Times, TimesNat
    <2>3. (LengthBytes - i) * ByteBits <= BlockBytes * ByteBits
      BY <1>1, <2>1, TimesMonotone
    <2>4. \A j \in 0 .. c : 2^j \in Nat \ {0}
      BY HashAssumption DEF PowersOfTwo
    <2> HIDE DEF e, c
    <2>5. e \in 0 .. c
      BY <2>2, <2>3
    <2>6. 2^e \in Nat \ {0}
      BY <2>4, <2>5
    <2>7. x \div 2^e \in Nat
      BY <2>6, DivMod
    <2>8. ((x \div 2^e) % 2^ByteBits) \in 0 .. 2^ByteBits - 1
      BY <2>7, ByteFacts, DivMod
    <2> QED
      BY <2>8 DEF e, Byte
  <1>3. BytesOf(x, LengthBytes) = [i \in 1 .. LengthBytes |-> f(i)]
    BY DEF BytesOf
  <1> HIDE DEF f
  <1> QED
    BY <1>1, <1>2, <1>3

LEMMA NoMultipleBetween ==
    ASSUME NEW b \in Nat \ {0}, NEW u \in Int, b * u < b, 0 - b < b * u
    PROVE  u = 0
  <1>1. CASE u >= 1
    <2>1. 1 * b <= u * b
      BY <1>1, TimesMonotone
    <2>2. u * b = b * u
      BY Times
    <2> QED
      BY <2>1, <2>2
  <1>2. CASE u <= 0 - 1
    <2> DEFINE v == 0 - u
    <2>1. v \in Nat /\ 1 <= v /\ u + v = 0
      BY <1>2
    <2>2. (u + v) * b = u * b + v * b /\ u * b = b * u
      BY <2>1, Times
    <2>3. 1 * b <= v * b
      BY <2>1, TimesMonotone
    <2>4. u * b \in Int /\ v * b \in Int /\ (u + v) * b = 0 /\ 1 * b = b
      BY <2>1
    <2> HIDE DEF v
    <2> QED
      BY <2>2, <2>3, <2>4
  <1> QED
    BY <1>1, <1>2

\* One number of zeros fills the block.
LEMMA OneFilling ==
    ASSUME NEW b \in Nat \ {0}, NEW c \in Nat, NEW y \in 0 .. b - 1, NEW z \in 0 .. b - 1,
           (c + y) % b = 0, (c + z) % b = 0
    PROVE  y = z
  <1> DEFINE u == (c + y) \div b
             v == (c + z) \div b
  <1>1. u \in Nat /\ v \in Nat /\ c + y = b * u /\ c + z = b * v
    <2>1. c + y \in Nat /\ c + z \in Nat
      OBVIOUS
    <2>2. u \in Nat /\ c + y = b * u + ((c + y) % b)
      BY <2>1, DivMod
    <2>3. v \in Nat /\ c + z = b * v + ((c + z) % b)
      BY <2>1, DivMod
    <2>4. b * u \in Nat /\ b * v \in Nat
      BY <2>2, <2>3, TimesNat
    <2> HIDE DEF u, v
    <2> QED
      BY <2>2, <2>3, <2>4
  <1> HIDE DEF u, v
  <1> DEFINE w == u - v
  <1>2. w \in Int /\ u = w + v
    BY <1>1
  <1>3. (w + v) * b = w * b + v * b /\ b * u = u * b /\ b * v = v * b /\ b * w = w * b
    BY <1>1, <1>2, Times
  <1>4. b * w \in Int /\ b * v \in Int
    BY <1>1, <1>2
  <1> HIDE DEF w
  <1>5. b * w = y - z
    BY <1>1, <1>2, <1>3, <1>4
  <1>6. w = 0
    BY <1>2, <1>5, NoMultipleBetween
  <1> QED
    BY <1>1, <1>2, <1>6

\* The zeros that the code writes are those of the standard.
LEMMA PaddingFills ==
    ASSUME NEW x \in Nat
    PROVE  /\ PadLength(x) - 1 \in 0 .. BlockBytes - 1
           /\ PadLength(x) - 1 = CHOOSE z \in 0 .. BlockBytes - 1 :
                                     (x + 1 + z + LengthBytes) % BlockBytes = 0
  <1> DEFINE b  == BlockBytes
             r  == x % b
             q  == x \div b
             y  == 2 * b - 1 - LengthBytes - r
             z0 == y % b
             v  == y \div b
  <1>1. b \in Nat \ {0} /\ LengthBytes \in 0 .. b
    BY HashAssumption
  <1>2. q \in Nat /\ r \in 0 .. b - 1 /\ x = b * q + r
    BY <1>1, DivMod
  <1> HIDE DEF q, r
  <1>3. y \in Nat
    BY <1>1, <1>2
  <1> HIDE DEF y
  <1>4. v \in Nat /\ z0 \in 0 .. b - 1 /\ y = b * v + z0
    BY <1>1, <1>3, DivMod
  <1>5. PadLength(x) - 1 = z0
    <2>1. PadLength(x) = 1 + z0
      BY DEF PadLength, y, r, z0, b
    <2> HIDE DEF b, z0
    <2> QED
      BY <1>1, <1>4, <2>1
  <1> HIDE DEF v, z0, b
  <1>6. (x + 1 + z0 + LengthBytes) % b = 0
    <2> DEFINE u == q + 2 - v
    <2>1. u \in Int /\ u + v = q + 2
      BY <1>2, <1>4
    <2> HIDE DEF u
    <2>2. (u + v) * b = u * b + v * b /\ (q + 2) * b = q * b + 2 * b
          /\ u * b = b * u /\ v * b = b * v /\ q * b = b * q
      BY <1>1, <1>2, <1>4, <2>1, Times
    <2> DEFINE bu == b * u   bv == b * v   bq == b * q   t == (u + v) * b
    <2>3. bu \in Int /\ bv \in Int /\ bq \in Int /\ t \in Int /\ t = bu + bv /\ t = bq + 2 * b
          /\ y = bv + z0 /\ x = bq + r
      BY <1>1, <1>2, <1>4, <2>1, <2>2
    <2> HIDE DEF bu, bv, bq, t
    <2>4. x + 1 + z0 + LengthBytes = bu
      BY <1>1, <1>2, <1>3, <1>4, <2>3 DEF y
    <2>5. bu >= 0
      BY <1>1, <1>4, <2>4
    <2>6. u >= 0
      <3>1. SUFFICES ASSUME u < 0 PROVE FALSE
        BY <2>1
      <3> DEFINE nu == 0 - u
      <3>2. nu \in Nat /\ 1 <= nu /\ u + nu = 0
        BY <2>1, <3>1
      <3> HIDE DEF nu
      <3>3. 1 * b <= nu * b /\ (u + nu) * b = u * b + nu * b /\ u * b = b * u
        BY <1>1, <2>1, <3>2, Times, TimesMonotone
      <3>4. nu * b \in Int /\ u * b \in Int /\ (u + nu) * b = 0 /\ 1 * b = b
        BY <1>1, <2>1, <3>2
      <3> QED
        BY <1>1, <2>5, <3>3, <3>4 DEF bu
    <2>7. (b * u + 0) % b = 0
      <3>1. u \in Nat /\ 0 \in 0 .. b - 1
        BY <1>1, <2>1, <2>6
      <3> QED
        BY <1>1, <3>1, DivUnique
    <2>8. b * u + 0 = x + 1 + z0 + LengthBytes
      BY <2>3, <2>4 DEF bu
    <2> QED
      BY <2>7, <2>8
  <1> DEFINE z == CHOOSE z \in 0 .. b - 1 : (x + 1 + z + LengthBytes) % b = 0
  <1>7. z \in 0 .. b - 1 /\ (x + 1 + z + LengthBytes) % b = 0
    BY <1>4, <1>6
  <1>8. z = z0
    <2> HIDE DEF z
    <2> DEFINE c == x + 1 + LengthBytes
    <2>1. c \in Nat /\ x + 1 + z0 + LengthBytes = c + z0 /\ x + 1 + z + LengthBytes = c + z
      BY <1>1, <1>4, <1>7
    <2> HIDE DEF c
    <2>2. (c + z0) % b = 0 /\ (c + z) % b = 0
      BY <1>6, <1>7, <2>1
    <2> QED
      BY <1>1, <1>4, <1>7, <2>1, <2>2, OneFilling
  <1> QED
    BY <1>4, <1>5, <1>8 DEF b

\* The message as the standard pads it.
Padded(m) ==
    m \o <<2^(ByteBits - 1)>>
      \o Repeat(0, CHOOSE z \in 0 .. BlockBytes - 1 :
                       (Len(m) + 1 + z + LengthBytes) % BlockBytes = 0)
      \o BytesOf(Len(m) * ByteBits, LengthBytes)

LEMMA DigestMeans ==
    ASSUME NEW m
    PROVE  Digest(m) = Folded(InitialState, Padded(m), Len(Padded(m)) \div BlockBytes)
  BY DEF Digest, Padded, Folded, Chain, IsChain, Block

LEMMA PaddedMessage ==
    ASSUME NEW m \in Seq(Byte)
    PROVE  /\ Padded(m) \in Seq(Byte)
           /\ Padded(m) = (m \o (<<2^(ByteBits - 1)>> \o Repeat(0, PadLength(Len(m)) - 1)))
                             \o BytesOf(Len(m) * ByteBits, LengthBytes)
           /\ <<2^(ByteBits - 1)>> \o Repeat(0, PadLength(Len(m)) - 1) \in Seq(Byte)
           /\ BytesOf(Len(m) * ByteBits, LengthBytes) \in Seq(Byte)
  <1> DEFINE one    == <<2^(ByteBits - 1)>>
             zeros  == Repeat(0, PadLength(Len(m)) - 1)
             length == BytesOf(Len(m) * ByteBits, LengthBytes)
  <1>1. Len(m) \in Nat /\ ByteBits \in Nat
    BY HashAssumption
  <1>2. Padded(m) = ((m \o one) \o zeros) \o length
    BY <1>1, PaddingFills DEF Padded
  <1>3. one \in Seq(Byte)
    BY ByteFacts
  <1>4. zeros \in Seq(Byte)
    <2> DEFINE z == PadLength(Len(m)) - 1
    <2>1. z \in Nat
      BY <1>1, PaddingFills, HashAssumption
    <2> HIDE DEF z
    <2>2. Repeat(0, z) \in Seq(Byte)
      BY <2>1, ByteFacts DEF Repeat
    <2> QED
      BY <2>2 DEF z
  <1>5. length \in Seq(Byte)
    <2>1. Len(m) * ByteBits \in Nat
      BY <1>1, TimesNat
    <2> QED
      BY <2>1, LengthIsBytes
  <1> HIDE DEF one, zeros, length
  <1>6. (m \o one) \o zeros = m \o (one \o zeros)
    BY <1>3, <1>4, ConcatAssociative
  <1>7. one \o zeros \in Seq(Byte) /\ m \o (one \o zeros) \in Seq(Byte)
    BY <1>3, <1>4
  <1>8. (m \o (one \o zeros)) \o length \in Seq(Byte)
    BY <1>5, <1>7
  <1>9. Padded(m) = (m \o (one \o zeros)) \o length
    BY <1>2, <1>6
  <1> QED
    BY <1>5, <1>7, <1>8, <1>9 DEF one, zeros, length

\* The digest that is read from a stream is that of its message.
LEMMA FinalizeIsDigest ==
    ASSUME NEW m \in Seq(Byte), NEW h, Streams(h, m)
    PROVE  Sha256Finalize(h) = Digest(m)
  <1> DEFINE pad    == <<2^(ByteBits - 1)>> \o Repeat(0, PadLength(Len(m)) - 1)
             length == BytesOf(Len(m) * ByteBits, LengthBytes)
             h1     == Sha256Write(h, pad)
             h2     == Sha256Write(h1, length)
  <1>1. Padded(m) = (m \o pad) \o length /\ pad \in Seq(Byte) /\ length \in Seq(Byte)
    BY PaddedMessage
  <1>2. Sha256Finalize(h) = h2.s
    <2>1. h.bytes = Len(m)
      BY DEF Streams
    <2> QED
      BY <2>1 DEF Sha256Finalize
  <1> HIDE DEF pad, length
  <1>3. Streams(h1, m \o pad)
    BY <1>1, WriteStreams
  <1>4. m \o pad \in Seq(Byte)
    BY <1>1
  <1> HIDE DEF h1
  <1>5. Streams(h2, (m \o pad) \o length)
    BY <1>1, <1>3, <1>4, WriteStreams
  <1> HIDE DEF h2
  <1>6. h2.s = Folded(InitialState, Padded(m), Len(Padded(m)) \div BlockBytes)
    BY <1>1, <1>5 DEF Streams
  <1> QED
    BY <1>2, <1>6, DigestMeans

LEMMA DigestIsBytes ==
    ASSUME NEW m \in Seq(Byte)
    PROVE  /\ Digest(m) \in Digests
           /\ Digest(m) \in Seq(Byte) /\ Len(Digest(m)) = DigestBytes
  <1> DEFINE w == Padded(m)
             q == Len(w) \div BlockBytes
  <1>1. w \in Seq(Byte) /\ Len(w) \in Nat /\ BlockBytes \in Nat \ {0} /\ DigestBytes \in Nat
    BY PaddedMessage, HashAssumption
  <1> HIDE DEF w
  <1>2. q \in Nat /\ q * BlockBytes <= Len(w)
    BY <1>1, RestOf
  <1> HIDE DEF q
  <1>3. ASSUME NEW k \in 1 .. q PROVE Block(w, k) \in [1 .. BlockBytes -> Byte]
    <2>1. k \in Nat \ {0} /\ k <= q /\ k * BlockBytes \in Nat
      BY <1>1, <1>2, TimesNat
    <2>2. k * BlockBytes <= q * BlockBytes
      BY <1>1, <1>2, <2>1, TimesMonotone
    <2> DEFINE a == k * BlockBytes   c == q * BlockBytes
    <2>3. a \in Nat /\ c \in Nat /\ a <= c /\ c <= Len(w)
      BY <1>1, <1>2, <2>1, <2>2, TimesNat
    <2> HIDE DEF a, c
    <2>4. a <= Len(w)
      BY <1>1, <2>3
    <2> QED
      BY <1>1, <2>1, <2>4, BlockOf DEF a
  <1>4. Folded(InitialState, w, q) \in Digests
    BY <1>2, <1>3, FoldedDigest, HashAssumption
  <1>5. Digest(m) \in Digests
    BY <1>4, DigestMeans DEF w, q
  <1>6. Digests \subseteq Seq(Byte) /\ \A d \in Digests : Len(d) = DigestBytes
    BY <1>1 DEF Digests
  <1> QED
    BY <1>5, <1>6

-----------------------------------------------------------------------------
(* The HMAC.                                                               *)

\* The key of a block, and a pad over it, as in the standard.
ShortKey(key) == IF Len(key) > BlockBytes THEN Digest(key) ELSE key

Xored(key, pad) ==
    [i \in 1 .. BlockBytes |->
        XorByte(IF i <= Len(ShortKey(key)) THEN ShortKey(key)[i] ELSE 0, pad)]

LEMMA KeyedDigestMeans ==
    ASSUME NEW key, NEW m
    PROVE  KeyedDigest(key, m)
               = Digest(Xored(key, OuterPad) \o Digest(Xored(key, InnerPad) \o m))
  BY DEF KeyedDigest, Xored, ShortKey

LEMMA XoredIsBytes ==
    ASSUME NEW key \in Seq(Byte), NEW pad \in Byte
    PROVE  Xored(key, pad) \in Seq(Byte)
  <1>1. BlockBytes \in Nat /\ 0 \in Byte
    BY HashAssumption, ByteFacts
  <1>2. ShortKey(key) \in Seq(Byte)
    BY DigestIsBytes DEF ShortKey
  <1> DEFINE at(i) == XorByte(IF i <= Len(ShortKey(key)) THEN ShortKey(key)[i] ELSE 0, pad)
  <1>3. ASSUME NEW i \in 1 .. BlockBytes PROVE at(i) \in Byte
    <2>1. CASE i <= Len(ShortKey(key))
      <3>1. ShortKey(key)[i] \in Byte
        BY <1>2, <2>1, ElementOfSeq
      <3> QED
        BY <2>1, <3>1, XorBytes
    <2>2. CASE ~ (i <= Len(ShortKey(key)))
      BY <1>1, <2>2, XorBytes
    <2> QED
      BY <2>1, <2>2
  <1>4. Xored(key, pad) = [i \in 1 .. BlockBytes |-> at(i)]
    BY DEF Xored
  <1> HIDE DEF at
  <1> QED
    BY <1>1, <1>3, <1>4

\* The key that reaches BlockKey.
LongKey(key) ==
    IF Len(key) > BlockBytes
    THEN Sha256Finalize(Sha256Write(Sha256Initialize, key)) \o Repeat(0, BlockBytes - DigestBytes)
    ELSE key \o Repeat(0, BlockBytes - Len(key))

LEMMA RepeatIsBytes ==
    ASSUME NEW k \in Nat
    PROVE  /\ Repeat(0, k) \in Seq(Byte) /\ Len(Repeat(0, k)) = k
           /\ \A i \in 1 .. k : Repeat(0, k)[i] = 0
  BY ByteFacts DEF Repeat

\* Zeros behind a short key.
LEMMA Filled ==
    ASSUME NEW s \in Seq(Byte), Len(s) <= BlockBytes
    PROVE  LET t == s \o Repeat(0, BlockBytes - Len(s))
           IN  \A i \in 1 .. BlockBytes : t[i] = IF i <= Len(s) THEN s[i] ELSE 0
  <1> DEFINE k == BlockBytes - Len(s)
             z == Repeat(0, k)
  <1>1. BlockBytes \in Nat /\ Len(s) \in Nat /\ k \in Nat
    BY HashAssumption
  <1>2. z \in Seq(Byte) /\ Len(z) = k /\ \A i \in 1 .. k : z[i] = 0
    BY <1>1, RepeatIsBytes
  <1> HIDE DEF z
  <1>3. \A i \in 1 .. Len(s) + Len(z) : (s \o z)[i] = IF i <= Len(s) THEN s[i] ELSE z[i - Len(s)]
    BY <1>2, ConcatProperties
  <1>4. ASSUME NEW i \in 1 .. BlockBytes PROVE (s \o z)[i] = IF i <= Len(s) THEN s[i] ELSE 0
    <2>1. i \in 1 .. Len(s) + Len(z)
      BY <1>1, <1>2
    <2>2. CASE i <= Len(s)
      BY <1>3, <2>1, <2>2
    <2>3. CASE ~ (i <= Len(s))
      <3>1. i - Len(s) \in 1 .. k
        BY <1>1, <2>3
      <3> QED
        BY <1>2, <1>3, <2>1, <2>3, <3>1
    <2> QED
      BY <2>2, <2>3
  <1> QED
    BY <1>4 DEF z

LEMMA LongKeyIsShortKey ==
    ASSUME NEW key \in Seq(Byte)
    PROVE  \A i \in 1 .. BlockBytes :
              LongKey(key)[i] = IF i <= Len(ShortKey(key)) THEN ShortKey(key)[i] ELSE 0
  <1>1. CASE Len(key) > BlockBytes
    <2>1. Streams(Sha256Write(Sha256Initialize, key), <<>> \o key)
      <3>1. <<>> \in Seq(Byte)
        OBVIOUS
      <3> QED
        BY <3>1, EmptyStream, WriteStreams
    <2>2. <<>> \o key = key
      BY ConcatEmptySeq
    <2>3. Sha256Finalize(Sha256Write(Sha256Initialize, key)) = Digest(key)
      BY <2>1, <2>2, FinalizeIsDigest
    <2>4. Digest(key) \in Seq(Byte) /\ Len(Digest(key)) = DigestBytes /\ DigestBytes <= BlockBytes
      BY DigestIsBytes, HashAssumption
    <2>5. LongKey(key) = Digest(key) \o Repeat(0, BlockBytes - Len(Digest(key)))
      BY <1>1, <2>3, <2>4 DEF LongKey
    <2>6. ShortKey(key) = Digest(key)
      BY <1>1 DEF ShortKey
    <2> QED
      BY <2>4, <2>5, <2>6, Filled
  <1>2. CASE ~ (Len(key) > BlockBytes)
    <2>1. ShortKey(key) = key /\ LongKey(key) = key \o Repeat(0, BlockBytes - Len(key))
      BY <1>2 DEF ShortKey, LongKey
    <2>2. Len(key) <= BlockBytes
      BY <1>2, HashAssumption
    <2> QED
      BY <2>1, <2>2, Filled
  <1> QED
    BY <1>1, <1>2

\* Both streams of a fresh HMAC have hashed their padded key.
HmacStreams(h, key, m) ==
    /\ h = [outer |-> h.outer, inner |-> h.inner]
    /\ Streams(h.outer, Xored(key, OuterPad))
    /\ Streams(h.inner, Xored(key, InnerPad) \o m)

LEMMA HmacInitialized ==
    ASSUME NEW key \in Seq(Byte)
    PROVE  HmacStreams(HmacInitialize(key), key, <<>>)
  <1> DEFINE rkey  == LongKey(key)
             outer == [i \in 1 .. BlockBytes |-> XorByte(rkey[i], OuterPad)]
             inner == [i \in 1 .. BlockBytes |-> XorByte(outer[i], XorByte(OuterPad, InnerPad))]
             h     == HmacInitialize(key)
  <1>1. h = [outer |-> Sha256Write(Sha256Initialize, outer),
             inner |-> Sha256Write(Sha256Initialize, inner)]
    BY DEF HmacInitialize, BlockKey, PaddedKey, LongKey
  <1>2. BlockBytes \in Nat /\ OuterPad \in Byte /\ InnerPad \in Byte /\ 0 \in Byte
    BY HashAssumption, ByteFacts
  <1> DEFINE at(i) == IF i <= Len(ShortKey(key)) THEN ShortKey(key)[i] ELSE 0
  <1>3. \A i \in 1 .. BlockBytes : rkey[i] = at(i)
    BY LongKeyIsShortKey
  <1>4. ASSUME NEW i \in 1 .. BlockBytes PROVE at(i) \in Byte
    <2>1. ShortKey(key) \in Seq(Byte)
      BY DigestIsBytes DEF ShortKey
    <2>2. CASE i <= Len(ShortKey(key))
      BY <2>1, <2>2, ElementOfSeq
    <2>3. CASE ~ (i <= Len(ShortKey(key)))
      BY <1>2, <2>3
    <2> QED
      BY <2>2, <2>3
  <1>5. /\ Xored(key, OuterPad) = [i \in 1 .. BlockBytes |-> XorByte(at(i), OuterPad)]
        /\ Xored(key, InnerPad) = [i \in 1 .. BlockBytes |-> XorByte(at(i), InnerPad)]
    BY DEF Xored
  <1> HIDE DEF rkey, at, h
  <1>6. outer = Xored(key, OuterPad)
    BY <1>3, <1>5
  <1>7. inner = Xored(key, InnerPad)
    <2>1. ASSUME NEW i \in 1 .. BlockBytes
          PROVE  XorByte(outer[i], XorByte(OuterPad, InnerPad)) = XorByte(at(i), InnerPad)
      <3>1. outer[i] = XorByte(at(i), OuterPad)
        BY <1>3
      <3> HIDE DEF outer
      <3> QED
        BY <1>2, <1>4, <3>1, XorBytes
    <2> HIDE DEF outer
    <2> QED
      BY <1>5, <2>1
  <1>8. /\ Streams(Sha256Write(Sha256Initialize, Xored(key, OuterPad)), <<>> \o Xored(key, OuterPad))
        /\ Streams(Sha256Write(Sha256Initialize, Xored(key, InnerPad)), <<>> \o Xored(key, InnerPad))
    <2>1. <<>> \in Seq(Byte)
      OBVIOUS
    <2>2. Xored(key, OuterPad) \in Seq(Byte) /\ Xored(key, InnerPad) \in Seq(Byte)
      BY <1>2, XoredIsBytes
    <2> QED
      BY <2>1, <2>2, EmptyStream, WriteStreams
  <1>9. /\ <<>> \o Xored(key, OuterPad) = Xored(key, OuterPad)
        /\ <<>> \o Xored(key, InnerPad) = Xored(key, InnerPad)
        /\ Xored(key, InnerPad) \o <<>> = Xored(key, InnerPad)
    BY <1>2, XoredIsBytes, ConcatEmptySeq
  <1> HIDE DEF outer, inner
  <1> QED
    BY <1>1, <1>6, <1>7, <1>8, <1>9 DEF HmacStreams, h

LEMMA HmacWritten ==
    ASSUME NEW key \in Seq(Byte), NEW m \in Seq(Byte), NEW d \in Seq(Byte), NEW h,
           HmacStreams(h, key, m)
    PROVE  HmacStreams(HmacWrite(h, d), key, m \o d)
  <1> DEFINE x == Xored(key, InnerPad)
             g == Sha256Write(h.inner, d)
  <1>1. x \in Seq(Byte) /\ x \o m \in Seq(Byte)
    BY XoredIsBytes, HashAssumption
  <1>2. Streams(h.inner, x \o m)
    BY DEF HmacStreams
  <1> HIDE DEF x
  <1>3. Streams(g, (x \o m) \o d)
    BY <1>1, <1>2, WriteStreams
  <1>4. (x \o m) \o d = x \o (m \o d)
    <2>1. x \in Seq(Byte) /\ m \in Seq(Byte) /\ d \in Seq(Byte)
      BY <1>1
    <2> QED
      BY <2>1, ConcatAssociative, SMTT(30)
  <1>5. HmacWrite(h, d) = [outer |-> h.outer, inner |-> g]
    <2>1. h = [outer |-> h.outer, inner |-> h.inner]
      BY DEF HmacStreams
    <2>2. HmacWrite(h, d) = [h EXCEPT !.inner = g]
      BY DEF HmacWrite
    <2> QED
      BY <2>1, <2>2
  <1> HIDE DEF g
  <1> QED
    BY <1>3, <1>4, <1>5 DEF HmacStreams, x

LEMMA HmacFinalizeIsKeyedDigest ==
    ASSUME NEW key \in Seq(Byte), NEW m \in Seq(Byte), NEW h, HmacStreams(h, key, m)
    PROVE  HmacFinalize(h) = KeyedDigest(key, m)
  <1> DEFINE o == Xored(key, OuterPad)
             x == Xored(key, InnerPad)
             d == Digest(x \o m)
  <1>1. o \in Seq(Byte) /\ x \in Seq(Byte) /\ x \o m \in Seq(Byte)
    BY XoredIsBytes, HashAssumption
  <1>2. Streams(h.outer, o) /\ Streams(h.inner, x \o m)
    BY DEF HmacStreams
  <1>3. KeyedDigest(key, m) = Digest(o \o d)
    BY KeyedDigestMeans
  <1> HIDE DEF o, x
  <1>4. d \in Seq(Byte) /\ Sha256Finalize(h.inner) = d
    BY <1>1, <1>2, DigestIsBytes, FinalizeIsDigest
  <1> HIDE DEF d
  <1>5. Streams(Sha256Write(h.outer, d), o \o d) /\ o \o d \in Seq(Byte)
    BY <1>1, <1>2, <1>4, WriteStreams
  <1>6. Sha256Finalize(Sha256Write(h.outer, d)) = Digest(o \o d)
    BY <1>5, FinalizeIsDigest
  <1> QED
    BY <1>3, <1>4, <1>6 DEF HmacFinalize

-----------------------------------------------------------------------------
(* What every reachable state has hashed.                                  *)

HashIInv ==
    /\ written \in Seq(Byte) /\ hashKey \in Seq(Byte)
    /\ Streams(stream, written)
    /\ HmacStreams(hmac, hashKey, written)

LEMMA HashStarts ==
    ASSUME NEW keys, keys \subseteq Seq(Byte), HashStart(keys)
    PROVE  HashIInv
  <1>1. hashKey \in Seq(Byte) /\ stream = Sha256Initialize /\ hmac = HmacInitialize(hashKey)
        /\ written = <<>>
    BY DEF HashStart
  <1>2. <<>> \in Seq(Byte)
    OBVIOUS
  <1> QED
    BY <1>1, <1>2, EmptyStream, HmacInitialized DEF HashIInv

LEMMA HashGoesOn ==
    ASSUME HashIInv, HashNext
    PROVE  HashIInv'
  <1>1. PICK d \in Chunks : HashWrite(d)
    BY DEF HashNext
  <1>2. d \in Seq(Byte)
    BY StreamAssumption
  <1>3. /\ stream' = Sha256Write(stream, d) /\ hmac' = HmacWrite(hmac, d)
        /\ written' = written \o d /\ hashKey' = hashKey
    BY <1>1 DEF HashWrite
  <1>4. written' \in Seq(Byte) /\ hashKey' \in Seq(Byte)
    BY <1>2, <1>3 DEF HashIInv
  <1>5. Streams(stream, written)' = Streams(stream', written')
        /\ HmacStreams(hmac, hashKey, written)' = HmacStreams(hmac', hashKey', written')
    BY DEF Streams, HmacStreams
  <1>6. Streams(Sha256Write(stream, d), written \o d)
    BY <1>2, WriteStreams DEF HashIInv
  <1>7. HmacStreams(HmacWrite(hmac, d), hashKey, written \o d)
    BY <1>2, HmacWritten DEF HashIInv
  <1> QED
    BY <1>3, <1>4, <1>5, <1>6, <1>7 DEF HashIInv

LEMMA HashStands ==
    ASSUME HashIInv, UNCHANGED hashVars
    PROVE  HashIInv'
  BY DEF HashIInv, hashVars, Streams, HmacStreams

LEMMA HashAnswers ==
    ASSUME HashIInv
    PROVE  DigestsAreOfTheWhole
  BY FinalizeIsDigest, HmacFinalizeIsKeyedDigest DEF HashIInv, DigestsAreOfTheWhole

-----------------------------------------------------------------------------
(* The library.                                                            *)

LEMMA LibraryHashes ==
    LibraryInit => HashIInv
  <1> SUFFICES ASSUME LibraryInit PROVE HashIInv
    OBVIOUS
  <1>1. HashStart(IF part = "hash" THEN HashKeys ELSE {<<>>})
    BY DEF LibraryInit
  <1>2. (IF part = "hash" THEN HashKeys ELSE {<<>>}) \subseteq Seq(Byte)
    <2>1. <<>> \in Seq(Byte) /\ HashKeys \subseteq Seq(Byte)
      BY StreamAssumption
    <2> QED
      BY <2>1
  <1> QED
    BY <1>1, <1>2, HashStarts

LEMMA LibraryKeepsHashing ==
    HashIInv /\ [LibraryNext]_libraryVars => HashIInv'
  <1> SUFFICES ASSUME HashIInv, [LibraryNext]_libraryVars PROVE HashIInv'
    OBVIOUS
  <1>1. CASE part = "points" /\ CurveNext /\ UNCHANGED <<hashVars, nativeVars>>
    BY <1>1, HashStands
  <1>2. CASE part = "hash" /\ HashNext /\ UNCHANGED <<curveVars, nativeVars>>
    BY <1>2, HashGoesOn
  <1>3. CASE part = "signatures" /\ SignNext /\ UNCHANGED <<curveVars, hashVars>>
    BY <1>3, HashStands
  <1>4. CASE part = "keys" /\ KeyNext /\ UNCHANGED <<curveVars, hashVars>>
    BY <1>4, HashStands
  <1>5. CASE UNCHANGED libraryVars
    BY <1>5, HashStands DEF libraryVars
  <1> QED
    BY <1>1, <1>2, <1>3, <1>4, <1>5 DEF LibraryNext

\* At every moment a secp256k1_sha256_t holds the state after the full blocks
\* of all that was written to it and, in its buffer, what is left; so do both
\* halves of the HMAC, behind their padded keys (hash_impl.h).
THEOREM StreamsHoldWhatWasWritten == LibrarySpec => []HashIInv
  <1>1. LibraryInit => HashIInv
    BY LibraryHashes
  <1>2. HashIInv /\ [LibraryNext]_libraryVars => HashIInv'
    BY LibraryKeepsHashing
  <1> QED
    BY <1>1, <1>2, PTL DEF LibrarySpec

\* However a message reaches secp256k1_sha256_write and
\* secp256k1_hmac_sha256_write, the digest is that of FIPS 180-4 and the code
\* that of RFC 2104 for the whole message, whatever the length of the key.
THEOREM DigestsOfTheWhole == LibrarySpec => []StreamsAreOfTheWhole
  <1>1. HashIInv => StreamsAreOfTheWhole
    BY HashAnswers DEF StreamsAreOfTheWhole
  <1> QED
    BY <1>1, StreamsHoldWhatWasWritten, PTL

-----------------------------------------------------------------------------
(* Negative remainders, and functions that are defined by recursion.       *)

LEMMA ModOfNegative ==
    ASSUME NEW b \in Nat \ {0}, NEW r \in 0 .. b - 1
    PROVE  (r - b) % b = r /\ (r + b) % b = r /\ r % b = r
  OBVIOUS

\* f takes x0 through the steps G[1], G[2] ..
Runs(f, top, S, x0, G) ==
    /\ f \in [0 .. top -> S]
    /\ f[0] = x0 /\ \A k \in 1 .. top : f[k] = G[k][f[k - 1]]

\* A function that is defined by recursion over 0 .. top exists.
LEMMA Recursion ==
    ASSUME NEW top \in Nat, NEW S, NEW x0 \in S, NEW G \in [1 .. top -> [S -> S]]
    PROVE  \E f : Runs(f, top, S, x0, G)
  <1> DEFINE Good(f, k) == /\ f \in [0 .. k -> S] /\ f[0] = x0
                           /\ \A j \in 1 .. k : f[j] = G[j][f[j - 1]]
             T == {k \in Nat : k <= top => \E f : Good(f, k)}
  <1>1. 0 \in T
    <2> DEFINE f == [k \in 0 .. 0 |-> x0]
    <2>1. Good(f, 0)
      OBVIOUS
    <2> HIDE DEF Good, f
    <2> QED
      BY <2>1
  <1>2. ASSUME NEW k \in Nat, k \in T PROVE k + 1 \in T
    <2> SUFFICES ASSUME k + 1 <= top PROVE \E f : Good(f, k + 1)
      OBVIOUS
    <2>1. PICK f : Good(f, k)
      BY <1>2
    <2> DEFINE g == [j \in 0 .. k + 1 |-> IF j = k + 1 THEN G[k + 1][f[k]] ELSE f[j]]
    <2>2. k + 1 \in 1 .. top /\ f[k] \in S
      BY <2>1
    <2>3. G[k + 1][f[k]] \in S
      BY <2>2
    <2>4. g \in [0 .. k + 1 -> S] /\ g[0] = x0
      BY <2>1, <2>3
    <2>5. ASSUME NEW j \in 1 .. k + 1 PROVE g[j] = G[j][g[j - 1]]
      <3>1. CASE j = k + 1
        <4>1. j - 1 = k /\ g[k] = f[k] /\ g[j] = G[k + 1][f[k]]
          BY <3>1
        <4> QED
          BY <3>1, <4>1
      <3>2. CASE j # k + 1
        <4>1. j \in 1 .. k /\ g[j] = f[j] /\ g[j - 1] = f[j - 1]
          BY <3>2
        <4> QED
          BY <2>1, <4>1
      <3> QED
        BY <3>1, <3>2
    <2>6. Good(g, k + 1)
      BY <2>4, <2>5
    <2> HIDE DEF g, Good
    <2> QED
      BY <2>6
  <1> HIDE DEF T
  <1>3. \A k \in Nat : k \in T
    BY <1>1, <1>2, Induction
  <1>4. PICK f : Good(f, top)
    BY <1>3 DEF T
  <1> QED
    BY <1>4 DEF Runs

-----------------------------------------------------------------------------
(* Powers of two.                                                          *)

Top == 2 * (Bits + WindowA + WindowG)

LEMMA Powers ==
    /\ Top \in Nat /\ 2^0 = 1
    /\ \A i \in 0 .. Top : 2^i \in Nat \ {0} /\ 2^(i + 1) = 2 * 2^i
  BY EcmultAssumption DEF Top, PowersOfTwo

LEMMA PowerOfSum ==
    ASSUME NEW i \in Nat, NEW j \in Nat, i + j <= Top
    PROVE  2^(i + j) = 2^i * 2^j
  <1> DEFINE S == {k \in Nat : i + k <= Top => 2^(i + k) = 2^i * 2^k}
  <1>0. Top \in Nat
    BY Powers
  <1>1. 0 \in S
    <2>1. i \in 0 .. Top /\ i + 0 = i
      BY <1>0
    <2>2. 2^i \in Nat /\ 2^0 = 1
      BY <2>1, Powers
    <2> QED
      BY <2>1, <2>2
  <1>2. ASSUME NEW k \in Nat, k \in S PROVE k + 1 \in S
    <2> SUFFICES ASSUME i + (k + 1) <= Top PROVE 2^(i + (k + 1)) = 2^i * 2^(k + 1)
      OBVIOUS
    <2>1. 2^(i + k) = 2^i * 2^k
      BY <1>0, <1>2
    <2>2. i + k \in 0 .. Top /\ k \in 0 .. Top /\ i \in 0 .. Top /\ i + (k + 1) = (i + k) + 1
      BY <1>0
    <2> HIDE DEF S
    <2>3. /\ 2^((i + k) + 1) = 2 * 2^(i + k) /\ 2^(k + 1) = 2 * 2^k
          /\ 2^i \in Nat /\ 2^k \in Nat
      BY <2>2, Powers
    <2> DEFINE x == 2^i   y == 2^k   z == 2^(k + 1)   t == 2^(i + k)   u == 2^(i + (k + 1))
    <2>4. u = 2 * t /\ z = 2 * y /\ t = x * y /\ x \in Nat /\ y \in Nat
      BY <2>1, <2>2, <2>3
    <2> HIDE DEF x, y, z, t, u
    <2>5. u = x * z
      BY <2>4
    <2> QED
      BY <2>5 DEF u, x, z
  <1> HIDE DEF S
  <1>3. \A k \in Nat : k \in S
    BY <1>1, <1>2, Induction
  <1> QED
    BY <1>3 DEF S

LEMMA PowerGrows ==
    ASSUME NEW i \in Nat, NEW j \in Nat, i <= j, j <= Top
    PROVE  2^i <= 2^j
  <1>1. j - i \in Nat /\ i + (j - i) = j /\ j \in 0 .. Top /\ i \in 0 .. Top /\ j - i \in 0 .. Top
    BY Powers
  <1>2. 2^j = 2^i * 2^(j - i)
    BY <1>1, PowerOfSum
  <1>3. 2^i \in Nat \ {0} /\ 2^(j - i) \in Nat \ {0}
    BY <1>1, Powers
  <1> DEFINE x == 2^i   y == 2^(j - i)
  <1>4. 1 * x <= y * x /\ y * x = x * y
    BY <1>3, TimesMonotone, Times
  <1> HIDE DEF x, y
  <1> QED
    BY <1>2, <1>3, <1>4 DEF x, y

-----------------------------------------------------------------------------
(* What digits stand for.                                                  *)

IsSum(f, d, len, w) ==
    f = [k \in 0 .. len |-> IF k = 0 THEN 0 ELSE f[k - 1] + d[k - 1] * 2^((k - 1) * w)]

\* Digits 0 .. len-1, all within the known powers.
Digits(d, len, w) ==
    /\ len \in Nat /\ w \in Nat /\ len * w <= Top
    /\ \A i \in 0 .. len - 1 : d[i] \in Int

LEMMA DigitPower ==
    ASSUME NEW len \in Nat, NEW w \in Nat, len * w <= Top, NEW i \in 0 .. len
    PROVE  i * w \in 0 .. Top /\ 2^(i * w) \in Nat \ {0}
  <1>1. i \in Nat /\ i <= len /\ Top \in Nat
    BY Powers
  <1>2. i * w <= len * w /\ i * w \in Nat /\ len * w \in Nat
    BY <1>1, TimesMonotone, TimesNat
  <1> DEFINE x == i * w   y == len * w
  <1> HIDE DEF x, y
  <1>3. x \in 0 .. Top
    BY <1>1, <1>2 DEF x, y
  <1>4. 2^x \in Nat \ {0}
    BY <1>3, Powers
  <1> QED
    BY <1>3, <1>4 DEF x

LEMMA SumMeans ==
    ASSUME NEW d, NEW len, NEW w, Digits(d, len, w), NEW f, IsSum(f, d, len, w)
    PROVE  /\ f[0] = 0
           /\ \A k \in 1 .. len : f[k] = f[k - 1] + d[k - 1] * 2^((k - 1) * w)
  <1> DEFINE step(k) == IF k = 0 THEN 0 ELSE f[k - 1] + d[k - 1] * 2^((k - 1) * w)
  <1>1. f = [k \in 0 .. len |-> step(k)]
    BY DEF IsSum
  <1>2. step(0) = 0 /\ \A k \in 1 .. len : step(k) = f[k - 1] + d[k - 1] * 2^((k - 1) * w)
    OBVIOUS
  <1>3. len \in Nat
    BY DEF Digits
  <1> HIDE DEF step
  <1> QED
    BY <1>1, <1>2, <1>3

LEMMA SumExists ==
    ASSUME NEW d, NEW len, NEW w, Digits(d, len, w)
    PROVE  \E f : IsSum(f, d, len, w)
  <1> DEFINE at(k) == d[k - 1] * 2^((k - 1) * w)
             G == [k \in 1 .. len |-> [x \in Int |-> x + at(k)]]
  <1>1. len \in Nat /\ w \in Nat /\ len * w <= Top
    BY DEF Digits
  <1>2. ASSUME NEW k \in 1 .. len PROVE at(k) \in Int
    <2>1. k - 1 \in 0 .. len /\ k - 1 \in 0 .. len - 1
      BY <1>1
    <2>2. 2^((k - 1) * w) \in Nat
      BY <1>1, <2>1, DigitPower
    <2>3. d[k - 1] \in Int
      BY <2>1 DEF Digits
    <2> QED
      BY <2>2, <2>3
  <1> HIDE DEF at
  <1>3. G \in [1 .. len -> [Int -> Int]]
    BY <1>2
  <1>4. PICK f \in [0 .. len -> Int] : f[0] = 0 /\ \A k \in 1 .. len : f[k] = G[k][f[k - 1]]
    <2>0. PICK Z : Z = Int
      OBVIOUS
    <2>1. PICK zero, H : zero = 0 /\ H = G
      OBVIOUS
    <2>2. zero \in Z /\ H \in [1 .. len -> [Z -> Z]]
      BY <1>3, <2>0, <2>1
    <2>3. \E f : Runs(f, len, Z, zero, H)
      <3>1. len \in Nat
        BY <1>1
      <3> HIDE DEF G
      <3> QED
        BY <2>2, <3>1, Recursion
    <2> HIDE DEF G
    <2> QED
      BY <2>0, <2>1, <2>3 DEF Runs
  <1>5. ASSUME NEW k \in 1 .. len PROVE f[k] = f[k - 1] + at(k)
    <2>1. k - 1 \in 0 .. len
      BY <1>1
    <2> QED
      BY <1>4, <2>1
  <1> HIDE DEF G
  <1>6. f = [k \in 0 .. len |-> IF k = 0 THEN 0 ELSE f[k - 1] + at(k)]
    BY <1>1, <1>4, <1>5
  <1>7. IsSum(f, d, len, w)
    BY <1>6 DEF IsSum, at
  <1> QED
    BY <1>7

LEMMA DigitSumIsSum ==
    ASSUME NEW d, NEW len, NEW w
    PROVE  DigitSum(d, len, w) = (CHOOSE f : IsSum(f, d, len, w))[len]
  BY DEF DigitSum, IsSum

\* The sum of fewer digits is what the longer sum begins with.
LEMMA SumsBeginAlike ==
    ASSUME NEW d, NEW len, NEW w, Digits(d, len, w), NEW k \in 0 .. len,
           NEW f, NEW g, IsSum(f, d, len, w), IsSum(g, d, k, w), Digits(d, k, w)
    PROVE  f[k] = g[k]
  <1> DEFINE S == {j \in Nat : j <= k => f[j] = g[j]}
  <1>1. /\ f[0] = 0 /\ \A j \in 1 .. len : f[j] = f[j - 1] + d[j - 1] * 2^((j - 1) * w)
        /\ g[0] = 0 /\ \A j \in 1 .. k : g[j] = g[j - 1] + d[j - 1] * 2^((j - 1) * w)
        /\ len \in Nat
    <2>1. len \in Nat
      BY DEF Digits
    <2>2. f[0] = 0 /\ \A j \in 1 .. len : f[j] = f[j - 1] + d[j - 1] * 2^((j - 1) * w)
      BY SumMeans
    <2>3. g[0] = 0 /\ \A j \in 1 .. k : g[j] = g[j - 1] + d[j - 1] * 2^((j - 1) * w)
      BY SumMeans
    <2> QED
      BY <2>1, <2>2, <2>3
  <1>2. 0 \in S
    BY <1>1
  <1>3. ASSUME NEW j \in Nat, j \in S PROVE j + 1 \in S
    <2> SUFFICES ASSUME j + 1 <= k PROVE f[j + 1] = g[j + 1]
      OBVIOUS
    <2>1. f[j] = g[j] /\ j + 1 \in 1 .. k /\ j + 1 \in 1 .. len /\ (j + 1) - 1 = j
      BY <1>1, <1>3
    <2> HIDE DEF S
    <2> QED
      BY <1>1, <2>1
  <1> HIDE DEF S
  <1>4. \A j \in Nat : j \in S
    BY <1>2, <1>3, Induction
  <1> QED
    BY <1>1, <1>4 DEF S

LEMMA DigitSumSteps ==
    ASSUME NEW d, NEW len, NEW w, Digits(d, len, w)
    PROVE  /\ DigitSum(d, 0, w) = 0
           /\ \A k \in 0 .. len : DigitSum(d, k, w) \in Int
           /\ \A k \in 0 .. len - 1 :
                 DigitSum(d, k + 1, w) = DigitSum(d, k, w) + d[k] * 2^(k * w)
  <1>1. len \in Nat /\ w \in Nat /\ len * w <= Top /\ \A i \in 0 .. len - 1 : d[i] \in Int
    BY DEF Digits
  <1>2. ASSUME NEW k \in 0 .. len PROVE Digits(d, k, w)
    <2>1. k * w \in 0 .. Top
      BY <1>1, DigitPower
    <2> HIDE DEF Digits
    <2> QED
      BY <1>1, <2>1, Powers DEF Digits
  <1> DEFINE F(k) == CHOOSE f : IsSum(f, d, k, w)
  <1>3. ASSUME NEW k \in 0 .. len PROVE IsSum(F(k), d, k, w)
    BY <1>2, SumExists
  <1>4. \A k \in 0 .. len : DigitSum(d, k, w) = F(k)[k]
    BY DigitSumIsSum
  <1>5. \A k \in 0 .. len : F(len)[k] = F(k)[k]
    <2>1. len \in 0 .. len
      BY <1>1
    <2> HIDE DEF F
    <2> QED
      BY <1>2, <1>3, <2>1, SumsBeginAlike
  <1> DEFINE f == F(len)
  <1>6. f[0] = 0 /\ \A k \in 1 .. len : f[k] = f[k - 1] + d[k - 1] * 2^((k - 1) * w)
    <2>1. len \in 0 .. len
      BY <1>1
    <2> HIDE DEF F
    <2> QED
      BY <1>3, <2>1, SumMeans
  <1> HIDE DEF F, f
  <1>7. \A k \in 0 .. len : DigitSum(d, k, w) = f[k]
    BY <1>4, <1>5 DEF f
  <1>8. ASSUME NEW k \in 0 .. len - 1
        PROVE  DigitSum(d, k + 1, w) = DigitSum(d, k, w) + d[k] * 2^(k * w)
    <2>1. k + 1 \in 1 .. len /\ (k + 1) - 1 = k /\ k \in 0 .. len /\ k + 1 \in 0 .. len
      BY <1>1
    <2>2. f[k + 1] = f[k] + d[k] * 2^(k * w)
      BY <1>6, <2>1
    <2> QED
      BY <1>7, <2>1, <2>2
  <1> DEFINE S == {k \in Nat : k <= len => DigitSum(d, k, w) \in Int}
  <1>9. DigitSum(d, 0, w) = 0
    BY <1>1, <1>6, <1>7
  <1>10. 0 \in S
    BY <1>9
  <1>11. ASSUME NEW k \in Nat, k \in S PROVE k + 1 \in S
    <2> SUFFICES ASSUME k + 1 <= len PROVE DigitSum(d, k + 1, w) \in Int
      OBVIOUS
    <2>1. DigitSum(d, k, w) \in Int /\ k \in 0 .. len - 1 /\ k \in 0 .. len
      BY <1>1, <1>11
    <2>2. 2^(k * w) \in Nat /\ d[k] \in Int
      BY <1>1, <2>1, DigitPower
    <2>3. d[k] * 2^(k * w) \in Int
      BY <2>2
    <2> HIDE DEF S
    <2> QED
      BY <1>8, <2>1, <2>3
  <1> HIDE DEF S
  <1>12. \A k \in Nat : k \in S
    BY <1>10, <1>11, Induction
  <1>13. \A k \in 0 .. len : DigitSum(d, k, w) \in Int
    BY <1>12 DEF S
  <1> QED
    BY <1>8, <1>9, <1>13

\* e has the digit x at b, where d has none, and is otherwise d.
Adds(e, d, b, x, len) ==
    /\ d \in [0 .. len - 1 -> Int] /\ e \in [0 .. len - 1 -> Int]
    /\ b \in 0 .. len - 1 /\ x \in Int /\ d[b] = 0 /\ e[b] = x
    /\ \A i \in 0 .. len - 1 : i # b => e[i] = d[i]

\* One digit more.
LEMMA DigitSumOfOneMore ==
    ASSUME NEW len \in Nat, NEW w \in Nat, len * w <= Top,
           NEW d, NEW e, NEW b, NEW x, Adds(e, d, b, x, len)
    PROVE  DigitSum(e, len, w) = DigitSum(d, len, w) + x * 2^(b * w)
  <1> DEFINE y == x * 2^(b * w)
             S == {k \in Nat : k <= len =>
                      DigitSum(e, k, w) = DigitSum(d, k, w) + (IF b < k THEN y ELSE 0)}
  <1>1. /\ d \in [0 .. len - 1 -> Int] /\ e \in [0 .. len - 1 -> Int]
        /\ b \in 0 .. len - 1 /\ x \in Int /\ d[b] = 0 /\ e[b] = x
        /\ \A i \in 0 .. len - 1 : i # b => e[i] = d[i]
    BY DEF Adds
  <1>2. Digits(d, len, w) /\ Digits(e, len, w)
    BY <1>1 DEF Digits
  <1>3. y \in Int
    <2>1. b \in 0 .. len /\ x \in Int
      BY <1>1
    <2>2. 2^(b * w) \in Nat
      BY <2>1, DigitPower
    <2> QED
      BY <2>1, <2>2
  <1>4. /\ DigitSum(d, 0, w) = 0 /\ \A k \in 0 .. len : DigitSum(d, k, w) \in Int
        /\ \A k \in 0 .. len - 1 : DigitSum(d, k + 1, w) = DigitSum(d, k, w) + d[k] * 2^(k * w)
    <2>1. DigitSum(d, 0, w) = 0
      BY <1>2, DigitSumSteps
    <2>2. \A k \in 0 .. len : DigitSum(d, k, w) \in Int
      BY <1>2, DigitSumSteps
    <2>3. \A k \in 0 .. len - 1 : DigitSum(d, k + 1, w) = DigitSum(d, k, w) + d[k] * 2^(k * w)
      BY <1>2, DigitSumSteps
    <2> QED
      BY <2>1, <2>2, <2>3
  <1>5. /\ DigitSum(e, 0, w) = 0
        /\ \A k \in 0 .. len - 1 : DigitSum(e, k + 1, w) = DigitSum(e, k, w) + e[k] * 2^(k * w)
    <2>1. DigitSum(e, 0, w) = 0
      BY <1>2, DigitSumSteps
    <2>2. \A k \in 0 .. len - 1 : DigitSum(e, k + 1, w) = DigitSum(e, k, w) + e[k] * 2^(k * w)
      BY <1>2, DigitSumSteps
    <2> QED
      BY <2>1, <2>2
  <1>6. 0 \in S
    BY <1>1, <1>4, <1>5
  <1>7. ASSUME NEW k \in Nat, k \in S PROVE k + 1 \in S
    <2> SUFFICES ASSUME k + 1 <= len
                 PROVE  DigitSum(e, k + 1, w)
                          = DigitSum(d, k + 1, w) + (IF b < k + 1 THEN y ELSE 0)
      OBVIOUS
    <2>1. /\ DigitSum(e, k, w) = DigitSum(d, k, w) + (IF b < k THEN y ELSE 0)
          /\ k \in 0 .. len - 1 /\ k \in 0 .. len
      BY <1>7
    <2> DEFINE z == d[k] * 2^(k * w)
    <2>2. z \in Int
      <3>1. 2^(k * w) \in Nat /\ d[k] \in Int
        BY <1>1, <2>1, DigitPower
      <3> QED
        BY <3>1
    <2>3. DigitSum(d, k + 1, w) = DigitSum(d, k, w) + z /\ DigitSum(d, k, w) \in Int
      BY <1>4, <2>1
    <2>4. DigitSum(e, k + 1, w) = DigitSum(e, k, w) + e[k] * 2^(k * w)
      BY <1>5, <2>1
    <2> HIDE DEF S
    <2>5. CASE k = b
      <3>1. z = 0
        <4>1. 2^(k * w) \in Nat /\ d[k] = 0
          BY <1>1, <2>1, <2>5, DigitPower
        <4> QED
          BY <4>1
      <3>2. e[k] * 2^(k * w) = y
        BY <1>1, <2>5
      <3> HIDE DEF y, z
      <3> QED
        BY <1>3, <2>1, <2>3, <2>4, <2>5, <3>1, <3>2
    <2>6. CASE k # b
      <3>1. e[k] * 2^(k * w) = z
        BY <1>1, <2>1, <2>6
      <3> DEFINE t == IF b < k THEN y ELSE 0
      <3>2. t = (IF b < k + 1 THEN y ELSE 0) /\ t \in Int
        BY <1>1, <1>3, <2>6
      <3>3. DigitSum(e, k, w) = DigitSum(d, k, w) + t
        BY <2>1
      <3> HIDE DEF y, z, t
      <3>4. DigitSum(e, k + 1, w) = DigitSum(d, k + 1, w) + t
        BY <2>2, <2>3, <2>4, <3>1, <3>2, <3>3
      <3> QED
        BY <3>2, <3>4
    <2> QED
      BY <2>5, <2>6
  <1> HIDE DEF S
  <1>8. \A k \in Nat : k \in S
    BY <1>6, <1>7, Induction
  <1>9. len \in S /\ b < len
    BY <1>1, <1>8
  <1> HIDE DEF y
  <1>10. DigitSum(e, len, w) = DigitSum(d, len, w) + y
    BY <1>9 DEF S
  <1> QED
    BY <1>10 DEF y

LEMMA ZeroSum ==
    ASSUME NEW len \in Nat, NEW w \in Nat, len * w <= Top, NEW d,
           \A i \in 0 .. len - 1 : d[i] = 0
    PROVE  DigitSum(d, len, w) = 0
  <1> DEFINE S == {k \in Nat : k <= len => DigitSum(d, k, w) = 0}
  <1>1. Digits(d, len, w)
    BY DEF Digits
  <1>2. DigitSum(d, 0, w) = 0
    BY <1>1, DigitSumSteps
  <1>3. \A k \in 0 .. len - 1 : DigitSum(d, k + 1, w) = DigitSum(d, k, w) + d[k] * 2^(k * w)
    BY <1>1, DigitSumSteps
  <1>4. 0 \in S
    BY <1>2
  <1>5. ASSUME NEW k \in Nat, k \in S PROVE k + 1 \in S
    <2> SUFFICES ASSUME k + 1 <= len PROVE DigitSum(d, k + 1, w) = 0
      OBVIOUS
    <2>1. DigitSum(d, k, w) = 0 /\ k \in 0 .. len - 1 /\ k \in 0 .. len
      BY <1>5
    <2>2. 2^(k * w) \in Nat /\ d[k] = 0
      BY <2>1, DigitPower
    <2>3. d[k] * 2^(k * w) = 0
      BY <2>2
    <2> HIDE DEF S
    <2> QED
      BY <1>3, <2>1, <2>3
  <1> HIDE DEF S
  <1>6. \A k \in Nat : k \in S
    BY <1>4, <1>5, Induction
  <1> QED
    BY <1>6 DEF S

-----------------------------------------------------------------------------
(* Bits of a number.                                                       *)

LEMMA BitsTaken ==
    ASSUME NEW s \in Nat, NEW b \in Nat, NEW c \in Nat, b + c <= Top
    PROVE  /\ GetBits(s, b, c) \in 0 .. 2^c - 1
           /\ s \div 2^b \in Nat /\ s \div 2^(b + c) \in Nat
           /\ s \div 2^b = 2^c * (s \div 2^(b + c)) + GetBits(s, b, c)
  <1>1. b \in 0 .. Top /\ c \in 0 .. Top /\ b + c \in 0 .. Top
    BY Powers
  <1>2. PICK x, y, z : x = 2^b /\ y = 2^c /\ z = 2^(b + c)
    OBVIOUS
  <1>3. x \in Nat \ {0} /\ y \in Nat \ {0} /\ z \in Nat \ {0} /\ z = x * y
    BY <1>1, <1>2, Powers, PowerOfSum
  <1>4. PICK u, r : u = s \div x /\ r = s % x
    OBVIOUS
  <1>5. u \in Nat /\ r \in 0 .. x - 1 /\ s = x * u + r
    BY <1>3, <1>4, DivMod
  <1>6. PICK v, g : v = u \div y /\ g = u % y
    OBVIOUS
  <1>7. v \in Nat /\ g \in 0 .. y - 1 /\ u = y * v + g
    BY <1>3, <1>5, <1>6, DivMod
  <1>8. s \div z = v
    <2>1. x * u = z * v + x * g
      BY <1>3, <1>5, <1>7
    <2>2. x * g \in Nat /\ x * g <= z - x
      <3>1. g <= y - 1 /\ y - 1 \in Nat
        BY <1>3, <1>7
      <3>2. g * x <= (y - 1) * x
        BY <1>3, <1>7, <3>1, TimesMonotone
      <3>3. (y - 1) * x = y * x - x /\ y * x = x * y /\ g * x = x * g /\ x * g \in Nat
        BY <1>3, <1>7
      <3> QED
        BY <1>3, <3>2, <3>3
    <2> DEFINE t == x * g
    <2> HIDE DEF t
    <2>3. t + r \in 0 .. z - 1 /\ s = z * v + (t + r)
      BY <1>3, <1>5, <1>7, <2>1, <2>2 DEF t
    <2> QED
      BY <1>3, <1>7, <2>3, DivUnique
  <1>9. GetBits(s, b, c) = g
    BY <1>2, <1>4, <1>6 DEF GetBits
  <1> QED
    BY <1>2, <1>4, <1>5, <1>7, <1>8, <1>9

LEMMA SmallQuotient ==
    ASSUME NEW s \in Nat, NEW k \in Nat, NEW b \in Nat, k <= b, b <= Top, s < 2^k
    PROVE  s \div 2^b = 0
  <1>1. k \in 0 .. Top /\ b \in 0 .. Top
    BY Powers
  <1>2. 2^k <= 2^b
    BY PowerGrows
  <1>3. PICK x, y : x = 2^b /\ y = 2^k
    OBVIOUS
  <1>4. x \in Nat \ {0} /\ y \in Nat
    BY <1>1, <1>3, Powers
  <1>5. s \in 0 .. x - 1
    BY <1>2, <1>3, <1>4
  <1>6. (x * 0 + s) \div x = 0 /\ x * 0 + s = s
    BY <1>4, <1>5, DivUnique
  <1> QED
    BY <1>3, <1>6

LEMMA ParityOfBits ==
    ASSUME NEW s \in Nat, NEW b \in Nat, NEW c \in Nat \ {0}, b + c <= Top
    PROVE  GetBits(s, b, c) % 2 = GetBits(s, b, 1)
  <1>1. PICK h, y : h = 2^(c - 1) /\ y = 2^c
    OBVIOUS
  <1>2. c - 1 \in 0 .. Top /\ c \in 0 .. Top /\ (c - 1) + 1 = c /\ 0 \in 0 .. Top /\ 0 + 1 = 1
    BY Powers
  <1>3. h \in Nat /\ y = 2 * h
    BY <1>1, <1>2, Powers
  <1>4. 2^1 = 2
    BY <1>2, Powers
  <1>5. PICK u, v, g : u = s \div 2^b /\ v = s \div 2^(b + c) /\ g = GetBits(s, b, c)
    OBVIOUS
  <1>6. u \in Nat /\ v \in Nat /\ g \in Nat /\ u = y * v + g
    <2>1. y \in Nat
      BY <1>3
    <2> QED
      BY <1>1, <1>5, <2>1, BitsTaken
  <1>7. y * v = 2 * (h * v) /\ h * v \in Nat
    BY <1>3, <1>6
  <1> DEFINE t == h * v
  <1> HIDE DEF t
  <1>8. u = 2 * t + g /\ t \in Nat
    BY <1>6, <1>7 DEF t
  <1>9. u % 2 = g % 2
    BY <1>6, <1>8
  <1> QED
    BY <1>4, <1>5, <1>9 DEF GetBits

-----------------------------------------------------------------------------
(* Sparse digits: wnaf.                                                    *)

OddWithin(x, w) == x % 2 = 1 /\ -2^(w - 1) < x /\ x < 2^(w - 1)

WalkStates(len) ==
    [bit : 0 .. len, carry : {0, 1}, used : 0 .. len, d : [0 .. len - 1 -> Int]]

\* Digits that are odd, short, in use, and w apart; those at `done' or above
\* are still to be found.
Sparse(d, used, done, len, w) ==
    \A i \in 0 .. len - 1 : d[i] # 0 =>
        /\ OddWithin(d[i], w) /\ i < used /\ (i + w <= done \/ done = len)
        /\ \A j \in i + 1 .. i + w - 1 : j <= len - 1 => d[j] = 0

\* The digits so far, with what is left of s and the carry, stand for s.
WalkOK(q, s, sign, len, w) ==
    /\ q \in WalkStates(len) /\ q.used <= q.bit
    /\ DigitSum(q.d, len, 1) + sign * ((s \div 2^q.bit + q.carry) * 2^q.bit) = sign * s
    /\ q.bit = len => q.carry = 0
    /\ Sparse(q.d, q.used, q.bit, len, w)

\* A scalar without its top bit, and a window.
Walks(s, sign, len, w) ==
    /\ s \in Nat /\ sign \in {-1, 1} /\ len \in Nat \ {0} /\ w \in Nat /\ w >= 2
    /\ len + w <= Top /\ s < 2^(len - 1)

LEMMA WalkStarts ==
    ASSUME NEW s, NEW sign, NEW len, NEW w, Walks(s, sign, len, w)
    PROVE  WalkOK(WnafStart(len), s, sign, len, w)
  <1> DEFINE q == WnafStart(len)
  <1>1. q \in WalkStates(len) /\ q.bit = 0 /\ q.carry = 0 /\ q.used = 0
        /\ \A i \in 0 .. len - 1 : q.d[i] = 0
    BY DEF Walks, WnafStart, WalkStates
  <1> HIDE DEF q
  <1>2. len \in Nat \ {0} /\ s \in Nat /\ sign \in Int /\ len * 1 <= Top
    BY Powers DEF Walks
  <1>3. DigitSum(q.d, len, 1) = 0
    BY <1>1, <1>2, ZeroSum
  <1>4. 2^q.bit = 1
    BY <1>1, Powers
  <1>5. (s \div 2^q.bit + q.carry) * 2^q.bit = s
    <2>1. s \div 1 = s
      BY <1>2
    <2>2. (s + 0) * 1 = s
      BY <1>2
    <2> QED
      BY <1>1, <1>4, <2>1, <2>2
  <1>6. Sparse(q.d, q.used, q.bit, len, w)
    BY <1>1 DEF Sparse
  <1>7. 0 + sign * s = sign * s
    BY <1>2
  <1>8. WalkOK(q, s, sign, len, w)
    BY <1>1, <1>2, <1>3, <1>5, <1>6, <1>7 DEF WalkOK
  <1> QED
    BY <1>8 DEF q

\* Moving on by a factor N, with a digit u.
LEMMA DigitMoves ==
    ASSUME NEW sign \in Int, NEW Y \in Int, NEW u \in Int, NEW P \in Int, NEW N \in Int,
           NEW T \in Int, NEW Q \in Int, T = N * Y + u, Q = P * N
    PROVE  sign * (T * P) = sign * (Y * Q) + (sign * u) * P
  <1>1. T * P = (N * Y) * P + u * P
    BY Times
  <1>2. (N * Y) * P = Y * Q
    <2>1. (N * Y) * P = Y * (P * N)
      OBVIOUS
    <2> QED
      BY <2>1
  <1>3. sign * (Y * Q + u * P) = sign * (Y * Q) + sign * (u * P)
    OBVIOUS
  <1>4. sign * (u * P) = (sign * u) * P
    OBVIOUS
  <1> QED
    BY <1>1, <1>2, <1>3, <1>4

LEMMA SkipKeeps ==
    ASSUME NEW s, NEW sign, NEW len, NEW w, Walks(s, sign, len, w),
           NEW q, WalkOK(q, s, sign, len, w), q.bit < len, GetBits(s, q.bit, 1) = q.carry
    PROVE  WalkOK([q EXCEPT !.bit = @ + 1], s, sign, len, w)
  <1> DEFINE t == [q EXCEPT !.bit = @ + 1]
  <1>1. PICK b, c : b = q.bit /\ c = q.carry
    OBVIOUS
  <1>2. /\ s \in Nat /\ sign \in Int /\ len \in Nat \ {0} /\ w \in Nat /\ w >= 2
        /\ len + w <= Top /\ b \in Nat /\ b < len /\ c \in {0, 1} /\ Top \in Nat
    BY <1>1, Powers DEF Walks, WalkOK, WalkStates
  <1>3. /\ t \in WalkStates(len) /\ t.bit = b + 1 /\ t.carry = c
        /\ t.used = q.used /\ t.d = q.d /\ t.used <= t.bit
    <2>1. q \in WalkStates(len) /\ q.used <= q.bit
      BY DEF WalkOK
    <2>2. t.bit = b + 1 /\ t.carry = c /\ t.used = q.used /\ t.d = q.d
      BY <1>1, <2>1 DEF WalkStates
    <2>3. b + 1 \in 0 .. len
      BY <1>2
    <2>4. t \in WalkStates(len)
      BY <1>1, <2>1, <2>3 DEF WalkStates
    <2>5. t.used <= t.bit
      BY <1>1, <1>2, <2>1, <2>2 DEF WalkStates
    <2> QED
      BY <2>2, <2>4, <2>5
  <1> HIDE DEF t
  <1>4. PICK P, Q, v, y : P = 2^b /\ Q = 2^(b + 1) /\ v = s \div 2^b /\ y = s \div 2^(b + 1)
    OBVIOUS
  <1>5. P \in Nat /\ Q \in Nat /\ Q = 2 * P /\ v \in Nat /\ y \in Nat /\ v = 2 * y + c
    <2>1. b \in 0 .. Top /\ b + 1 <= Top /\ 2^(0 + 1) = 2 * 2^0 /\ 0 + 1 = 1 /\ b + 1 \in 0 .. Top
      BY <1>2, Powers
    <2>2. 2^1 = 2
      BY <2>1, Powers
    <2>3. /\ s \div 2^b \in Nat /\ s \div 2^(b + 1) \in Nat
          /\ s \div 2^b = 2^1 * (s \div 2^(b + 1)) + GetBits(s, b, 1)
      <3>1. PICK i : i = 1
        OBVIOUS
      <3>2. i \in Nat /\ b + i <= Top /\ s \in Nat /\ b \in Nat
        BY <1>2, <2>1, <3>1
      <3>3. s \div 2^b \in Nat /\ s \div 2^(b + i) \in Nat
        BY <3>2, BitsTaken
      <3>4. s \div 2^b = 2^i * (s \div 2^(b + i)) + GetBits(s, b, i)
        BY <3>2, BitsTaken
      <3> QED
        BY <3>1, <3>3, <3>4
    <2>4. P \in Nat /\ Q \in Nat /\ Q = 2 * P
      BY <1>4, <2>1, Powers
    <2> QED
      BY <1>1, <1>4, <2>2, <2>3, <2>4
  <1>6. DigitSum(q.d, len, 1) + sign * ((v + c) * P) = sign * s
    BY <1>1, <1>4 DEF WalkOK
  <1>7. sign * ((v + c) * P) = sign * ((y + c) * Q)
    <2>1. (v + c) * P = (y + c) * Q
      <3>1. v + c = 2 * (y + c) /\ y + c \in Nat /\ v + c \in Nat
        BY <1>2, <1>5
      <3> DEFINE T == v + c   Y == y + c
      <3>2. T = 2 * Y /\ T \in Nat /\ Y \in Nat
        BY <3>1
      <3> HIDE DEF T, Y
      <3>3. T * P = Y * Q
        BY <1>5, <3>2
      <3> QED
        BY <3>3 DEF T, Y
    <2> QED
      BY <2>1
  <1>8. DigitSum(t.d, len, 1) + sign * ((s \div 2^t.bit + t.carry) * 2^t.bit) = sign * s
    BY <1>3, <1>4, <1>6, <1>7
  <1>9. t.bit = len => t.carry = 0
    <2> SUFFICES ASSUME b + 1 = len PROVE c = 0
      BY <1>3
    <2>1. s \div 2^b = 0
      <3>1. len - 1 = b /\ b <= b /\ b <= Top
        BY <1>2
      <3> QED
        BY <1>2, <3>1, SmallQuotient DEF Walks
    <2> QED
      BY <1>2, <1>4, <1>5, <2>1
  <1>10. Sparse(t.d, t.used, t.bit, len, w)
    <2>1. Sparse(q.d, q.used, b, len, w)
      BY <1>1 DEF WalkOK
    <2>2. Sparse(q.d, q.used, b + 1, len, w)
      BY <1>2, <2>1 DEF Sparse
    <2> QED
      BY <1>3, <2>2
  <1>11. WalkOK(t, s, sign, len, w)
    BY <1>3, <1>8, <1>9, <1>10 DEF WalkOK
  <1> QED
    BY <1>11 DEF t

LEMMA MinOfTwo ==
    ASSUME NEW i \in Nat, NEW j \in Nat
    PROVE  Min({i, j}) \in {i, j} /\ Min({i, j}) <= i /\ Min({i, j}) <= j
  <1>1. \E x \in {i, j} : \A y \in {i, j} : x <= y
    <2>1. CASE i <= j
      BY <2>1
    <2>2. CASE j <= i
      BY <2>2
    <2> QED
      BY <2>1, <2>2
  <1> QED
    BY <1>1 DEF Min

\* What WnafTake takes of s at bit b, with the carry c.
Takes(now, word, carry, u, s, b, c, len, w) ==
    /\ now = Min({w, len - b}) /\ word = GetBits(s, b, now) + c
    /\ carry = (word \div 2^(w - 1)) % 2 /\ u = word - carry * 2^w

\* A window: what is taken of s, with the carry, is an odd digit and a carry
\* into the next one.
LEMMA DigitTaken ==
    ASSUME NEW s, NEW sign, NEW len, NEW w, Walks(s, sign, len, w),
           NEW b \in 0 .. len - 1, NEW c \in {0, 1}, GetBits(s, b, 1) # c,
           NEW now, NEW word, NEW carry, NEW u, Takes(now, word, carry, u, s, b, c, len, w)
    PROVE  /\ now \in 1 .. len - b /\ now <= w /\ now \in {w, len - b}
           /\ carry \in {0, 1} /\ (b + now = len => carry = 0)
           /\ u \in Int /\ OddWithin(u, w)
           /\ s \div 2^b \in Nat /\ s \div 2^(b + now) \in Nat
           /\ s \div 2^b + c = 2^now * (s \div 2^(b + now) + carry) + u
  <1>1. /\ s \in Nat /\ len \in Nat \ {0} /\ w \in Nat /\ w >= 2 /\ len + w <= Top
        /\ Top \in Nat /\ b \in Nat /\ b < len /\ s < 2^(len - 1)
    BY Powers DEF Walks
  <1>2. now \in 1 .. len - b /\ now <= w /\ now \in {w, len - b} /\ b + now <= Top
    <2>1. len - b \in Nat /\ len - b >= 1
      BY <1>1
    <2>2. now \in {w, len - b} /\ now <= w /\ now <= len - b
      BY <1>1, <2>1, MinOfTwo DEF Takes
    <2> QED
      BY <1>1, <2>1, <2>2
  <1>3. PICK bits, M, v, y : bits = GetBits(s, b, now) /\ M = 2^now /\ v = s \div 2^b
                             /\ y = s \div 2^(b + now)
    OBVIOUS
  <1>4. bits \in 0 .. M - 1 /\ v \in Nat /\ y \in Nat /\ v = M * y + bits
    <2>1. now \in Nat
      BY <1>2
    <2>2. GetBits(s, b, now) \in 0 .. 2^now - 1
      BY <1>1, <1>2, <2>1, BitsTaken
    <2>3. s \div 2^b \in Nat /\ s \div 2^(b + now) \in Nat
      BY <1>1, <1>2, <2>1, BitsTaken
    <2>4. s \div 2^b = 2^now * (s \div 2^(b + now)) + GetBits(s, b, now)
      BY <1>1, <1>2, <2>1, BitsTaken
    <2> QED
      BY <1>3, <2>2, <2>3, <2>4
  <1>5. PICK H, W, K : H = 2^(w - 1) /\ W = 2^w /\ K = 2^(w - 2)
    OBVIOUS
  <1>6. K \in Nat \ {0} /\ H = 2 * K /\ W = 2 * H /\ H \in Nat /\ W \in Nat
    <2>1. w - 2 \in 0 .. Top /\ w - 1 \in 0 .. Top /\ (w - 2) + 1 = w - 1 /\ (w - 1) + 1 = w
      BY <1>1
    <2>2. 2^(w - 2) \in Nat \ {0} /\ 2^((w - 2) + 1) = 2 * 2^(w - 2)
      BY <2>1, Powers
    <2>3. 2^((w - 1) + 1) = 2 * 2^(w - 1)
      BY <2>1, Powers
    <2> QED
      BY <1>5, <2>1, <2>2, <2>3
  <1>7. M \in Nat \ {0} /\ M <= W
    <2>1. now \in 0 .. Top /\ now \in Nat /\ w <= Top
      BY <1>1, <1>2
    <2> QED
      BY <1>1, <1>2, <1>3, <1>5, <2>1, Powers, PowerGrows
  <1>8. word \in Nat /\ word % 2 = 1 /\ word <= W
    <2>1. now \in Nat \ {0}
      BY <1>2
    <2>2. bits % 2 = GetBits(s, b, 1)
      BY <1>1, <1>2, <1>3, <2>1, ParityOfBits
    <2>3. word = bits + c /\ bits \in Nat
      BY <1>3, <1>4 DEF Takes
    <2>4. bits % 2 # c
      BY <2>2
    <2>5. word % 2 = 1
      BY <2>3, <2>4
    <2>6. bits <= M - 1 /\ M \in Nat /\ W \in Nat /\ M <= W
      BY <1>4, <1>6, <1>7
    <2>7. word \in Nat /\ word <= W
      BY <2>3, <2>6
    <2> QED
      BY <2>5, <2>7
  <1>9. word < W
    <2>1. W % 2 = 0
      BY <1>6
    <2> QED
      BY <1>6, <1>8, <2>1
  <1>10. word # H
    BY <1>6, <1>8
  <1>11. CASE word < H
    <2>1. H * 0 + word = word /\ word \in 0 .. H - 1 /\ H \in Nat \ {0}
      BY <1>6, <1>8, <1>11
    <2>2. word \div H = 0
      BY <2>1, DivUnique, SMTT(30)
    <2>a. carry = (word \div H) % 2 /\ u = word - carry * W
      BY <1>5 DEF Takes
    <2>b. carry = 0 /\ 0 * W = 0
      BY <1>6, <2>2, <2>a
    <2>3. carry = 0 /\ u = word
      BY <1>8, <2>a, <2>b
    <2>4. OddWithin(u, w)
      BY <1>5, <1>6, <1>8, <1>11, <2>3 DEF OddWithin
    <2>5. v + c = M * (y + carry) + u
      <3>1. y + carry = y
        BY <1>4, <2>3
      <3> DEFINE t == M * y
      <3>2. v = t + bits /\ t \in Nat
        BY <1>4, <1>7
      <3> HIDE DEF t
      <3>3. v + c = t + u
        BY <1>3, <1>4, <2>3, <3>2 DEF Takes
      <3> QED
        BY <3>1, <3>3 DEF t
    <2> QED
      BY <1>2, <1>3, <1>4, <1>8, <2>3, <2>4, <2>5
  <1>12. CASE word > H
    <2>1. word - H \in 0 .. H - 1 /\ H * 1 + (word - H) = word /\ H \in Nat \ {0}
      BY <1>6, <1>8, <1>9, <1>12
    <2>2. word \div H = 1
      BY <2>1, DivUnique
    <2>a. carry = (word \div H) % 2 /\ u = word - carry * W
      BY <1>5 DEF Takes
    <2>b. carry = 1 /\ 1 * W = W
      BY <1>6, <2>2, <2>a
    <2>3. carry = 1 /\ u = word - W
      BY <2>a, <2>b
    <2>4. OddWithin(u, w)
      BY <1>5, <1>6, <1>8, <1>9, <1>12, <2>3 DEF OddWithin
    <2>5. b + now < len
      <3> SUFFICES ASSUME b + now = len PROVE FALSE
        BY <1>1, <1>2
      <3>1. PICK h : h = 2^(now - 1)
        OBVIOUS
      <3>2. h \in Nat \ {0} /\ h <= H
        <4>1. now - 1 \in 0 .. Top /\ now - 1 \in Nat /\ w - 1 \in Nat /\ w - 1 <= Top
              /\ now - 1 <= w - 1
          BY <1>1, <1>2
        <4>2. 2^(now - 1) <= 2^(w - 1)
          BY <4>1, PowerGrows
        <4>3. 2^(now - 1) \in Nat \ {0}
          BY <4>1, Powers
        <4> QED
          BY <1>5, <3>1, <4>2, <4>3
      <3>3. v < h
        <4>1. PICK i : i = now - 1
          OBVIOUS
        <4>2. i \in Nat /\ b + i <= Top /\ b + i = len - 1
          BY <1>1, <1>2, <4>1
        <4>3. s \div 2^b = 2^i * (s \div 2^(b + i)) + GetBits(s, b, i)
          BY <1>1, <4>2, BitsTaken
        <4>5. GetBits(s, b, i) \in 0 .. 2^i - 1
          BY <1>1, <4>2, BitsTaken
        <4>4. s \div 2^(b + i) = 0
          <5>1. s < 2^(b + i) /\ b + i \in Nat /\ b + i <= b + i
            BY <1>1, <4>2
          <5> QED
            BY <1>1, <4>2, <5>1, SmallQuotient
        <4>6. h * 0 = 0
          BY <3>2
        <4> QED
          BY <1>3, <3>1, <3>2, <4>1, <4>3, <4>4, <4>5, <4>6
      <3>4. M = 2 * h
        <4>1. now - 1 \in 0 .. Top /\ (now - 1) + 1 = now
          BY <1>1, <1>2
        <4> QED
          BY <1>3, <3>1, <4>1, Powers
      <3>5. y = 0
        <4>1. v \in 0 .. M - 1
          BY <1>4, <3>2, <3>3, <3>4
        <4>2. CASE y >= 1
          <5>1. 1 * M <= y * M
            BY <1>4, <1>7, <4>2, TimesMonotone
          <5>2. y * M = M * y /\ 1 * M = M
            BY <1>4, <1>7
          <5> DEFINE t == M * y
          <5>3. v = t + bits /\ t \in Nat /\ M <= t /\ bits \in Nat /\ M \in Nat
            BY <1>4, <1>7, <5>1, <5>2
          <5> HIDE DEF t
          <5> QED
            BY <4>1, <5>3
        <4> QED
          BY <1>4, <4>2
      <3>6. bits = v
        <4>1. M * y = 0
          BY <1>7, <3>5
        <4> QED
          BY <1>4, <4>1
      <3> QED
        BY <1>3, <1>4, <1>6, <1>12, <3>2, <3>3, <3>6 DEF Takes
    <2>6. now = w /\ M = W
      BY <1>1, <1>2, <1>3, <1>5, <2>5
    <2>7. v + c = M * (y + carry) + u
      <3>1. M * (y + 1) = M * y + M
        BY <1>4, <1>7
      <3> DEFINE t == M * y
      <3>2. v = t + bits /\ t \in Nat /\ M * (y + 1) = t + M
        BY <1>4, <1>7, <3>1
      <3> HIDE DEF t
      <3>3. v + c = (t + M) + u
        BY <1>3, <1>4, <1>7, <2>3, <2>6, <3>2 DEF Takes
      <3> QED
        BY <2>3, <3>2, <3>3
    <2> QED
      BY <1>1, <1>2, <1>3, <1>4, <1>6, <1>8, <2>3, <2>4, <2>5, <2>7
  <1> QED
    BY <1>6, <1>8, <1>10, <1>11, <1>12

\* The negative of an odd digit is one.
LEMMA OddSigned ==
    ASSUME NEW u \in Int, NEW w, OddWithin(u, w), NEW sign \in {-1, 1}, 2^(w - 1) \in Nat
    PROVE  OddWithin(sign * u, w) /\ sign * u \in Int /\ sign * u # 0
  <1>1. PICK H : H = 2^(w - 1)
    OBVIOUS
  <1>2. H \in Nat /\ u % 2 = 1 /\ -H < u /\ u < H
    BY <1>1 DEF OddWithin
  <1>3. PICK x : x = sign * u
    OBVIOUS
  <1>4. x = u \/ x = -u
    BY <1>3
  <1>5. x \in Int /\ x % 2 = 1 /\ -H < x /\ x < H /\ x # 0
    BY <1>2, <1>4
  <1> QED
    BY <1>1, <1>3, <1>5 DEF OddWithin

LEMMA TakeKeeps ==
    ASSUME NEW s, NEW sign, NEW len, NEW w, Walks(s, sign, len, w),
           NEW q, WalkOK(q, s, sign, len, w), q.bit < len, GetBits(s, q.bit, 1) # q.carry
    PROVE  /\ WalkOK(WnafTake(q, s, sign, len, w), s, sign, len, w)
           /\ WnafTake(q, s, sign, len, w).bit > q.bit
  <1>1. PICK b, c : b = q.bit /\ c = q.carry
    OBVIOUS
  <1>2. PICK now, word, carry, u : Takes(now, word, carry, u, s, b, c, len, w)
    BY DEF Takes
  <1>3. PICK t : t = WnafTake(q, s, sign, len, w)
    OBVIOUS
  <1>4. t = [bit |-> b + now, carry |-> carry, used |-> b + 1, d |-> [q.d EXCEPT ![b] = sign * u]]
    BY <1>1, <1>2, <1>3 DEF WnafTake, Takes
  <1>5. /\ s \in Nat /\ sign \in Int /\ sign \in {-1, 1} /\ len \in Nat \ {0} /\ w \in Nat
        /\ w >= 2 /\ len + w <= Top /\ Top \in Nat
    BY Powers DEF Walks
  <1>6. /\ b \in 0 .. len - 1 /\ c \in {0, 1} /\ q.d \in [0 .. len - 1 -> Int]
        /\ q.used \in 0 .. b /\ q \in WalkStates(len)
    BY <1>1, <1>5 DEF WalkOK, WalkStates
  <1>7. /\ now \in 1 .. len - b /\ now <= w /\ now \in {w, len - b}
        /\ carry \in {0, 1} /\ (b + now = len => carry = 0)
        /\ u \in Int /\ OddWithin(u, w)
    BY <1>1, <1>2, <1>6, DigitTaken
  <1>8. /\ s \div 2^b \in Nat /\ s \div 2^(b + now) \in Nat
        /\ s \div 2^b + c = 2^now * (s \div 2^(b + now) + carry) + u
    BY <1>1, <1>2, <1>6, DigitTaken
  <1>9. PICK x : x = sign * u
    OBVIOUS
  <1>10. x \in Int /\ x # 0 /\ OddWithin(x, w)
    <2>1. 2^(w - 1) \in Nat
      <3>1. w - 1 \in 0 .. Top
        BY <1>5
      <3> QED
        BY <3>1, Powers
    <2> QED
      BY <1>5, <1>7, <1>9, <2>1, OddSigned
  <1>11. /\ t.bit = b + now /\ t.carry = carry /\ t.used = b + 1
         /\ t.d = [q.d EXCEPT ![b] = x]
    BY <1>4, <1>9
  <1>12. t \in WalkStates(len) /\ t.used <= t.bit
    <2>1. b + now \in 0 .. len /\ b + 1 \in 0 .. len /\ b + 1 <= b + now
      BY <1>5, <1>6, <1>7
    <2>2. [q.d EXCEPT ![b] = x] \in [0 .. len - 1 -> Int]
      BY <1>6, <1>10
    <2>3. t = [bit |-> b + now, carry |-> carry, used |-> b + 1, d |-> [q.d EXCEPT ![b] = x]]
      BY <1>4, <1>9
    <2> QED
      BY <1>7, <1>11, <2>1, <2>2, <2>3 DEF WalkStates
  <1>13. Sparse(q.d, q.used, b, len, w)
    BY <1>1 DEF WalkOK
  <1>14. q.d[b] = 0
    BY <1>6, <1>13 DEF Sparse
  <1>15. DigitSum(t.d, len, 1) = DigitSum(q.d, len, 1) + x * 2^b
    <2>1. PICK i, e : i = 1 /\ e = q.d
      OBVIOUS
    <2>2. len * i <= Top /\ i \in Nat /\ len \in Nat /\ b * i = b
      BY <1>5, <1>6, <2>1
    <2>4. PICK f : f = t.d
      OBVIOUS
    <2>5. Adds(f, e, b, x, len)
      BY <1>6, <1>10, <1>11, <1>14, <2>1, <2>4 DEF Adds
    <2>6. DigitSum(f, len, i) = DigitSum(e, len, i) + x * 2^(b * i)
      BY <2>2, <2>5, DigitSumOfOneMore
    <2> QED
      BY <2>1, <2>2, <2>4, <2>6
  <1>16. PICK P, N, Q, T, Y : /\ P = 2^b /\ N = 2^now /\ Q = 2^(b + now)
                              /\ T = s \div 2^b + c /\ Y = s \div 2^(b + now) + carry
    OBVIOUS
  <1>17. /\ P \in Int /\ N \in Int /\ Q = P * N /\ Q \in Int /\ T \in Int /\ Y \in Int
         /\ T = N * Y + u
    <2>1. b \in 0 .. Top /\ now \in 0 .. Top /\ b + now <= Top /\ b + now \in 0 .. Top
      BY <1>5, <1>6, <1>7
    <2>2. 2^b \in Nat /\ 2^now \in Nat /\ 2^(b + now) \in Nat
      BY <2>1, Powers
    <2>3. 2^(b + now) = 2^b * 2^now
      BY <2>1, PowerOfSum
    <2>4. T \in Int /\ Y \in Int
      <3>0. c \in Nat /\ carry \in Nat
        BY <1>6, <1>7
      <3>1. s \div 2^b \in Nat /\ s \div 2^(b + now) \in Nat /\ c \in Nat /\ carry \in Nat
        BY <1>8, <3>0
      <3> QED
        BY <1>16, <3>1
    <2> QED
      BY <1>8, <1>16, <2>2, <2>3, <2>4
  <1>18. sign * (T * P) = sign * (Y * Q) + x * P
    BY <1>5, <1>7, <1>9, <1>17, DigitMoves
  <1>19. DigitSum(t.d, len, 1) + sign * ((s \div 2^t.bit + t.carry) * 2^t.bit) = sign * s
    <2>1. DigitSum(q.d, len, 1) + sign * (T * P) = sign * s
      BY <1>1, <1>16 DEF WalkOK
    <2>2. DigitSum(t.d, len, 1) = DigitSum(q.d, len, 1) + x * P
      BY <1>15, <1>16
    <2>3. DigitSum(q.d, len, 1) \in Int
      <3>1. Digits(q.d, len, 1) /\ len \in 0 .. len
        BY <1>5, <1>6 DEF Digits
      <3> QED
        BY <3>1, DigitSumSteps
    <2>4. (s \div 2^t.bit + t.carry) * 2^t.bit = Y * Q
      BY <1>11, <1>16
    <2>5. PICK i, j, k, l : i = sign * (T * P) /\ j = sign * (Y * Q) /\ k = x * P
                           /\ l = DigitSum(q.d, len, 1)
      OBVIOUS
    <2>6. i \in Int /\ j \in Int /\ k \in Int /\ l \in Int
      BY <1>5, <1>10, <1>17, <2>3, <2>5
    <2>7. (l + k) + j = l + i
      <3>1. i = j + k
        BY <1>18, <2>5
      <3> QED
        BY <2>6, <3>1
    <2> QED
      BY <2>1, <2>2, <2>4, <2>5, <2>7
  <1>20. t.bit = len => t.carry = 0
    BY <1>7, <1>11
  <1>21. Sparse(t.d, t.used, t.bit, len, w)
    <2> SUFFICES ASSUME NEW i \in 0 .. len - 1, t.d[i] # 0
                 PROVE  /\ OddWithin(t.d[i], w) /\ i < b + 1 /\ (i + w <= b + now \/ b + now = len)
                        /\ \A j \in i + 1 .. i + w - 1 : j <= len - 1 => t.d[j] = 0
      BY <1>11 DEF Sparse
    <2>1. t.d[b] = x /\ \A j \in 0 .. len - 1 : j # b => t.d[j] = q.d[j]
      BY <1>6, <1>11
    <2>2. \A j \in 0 .. len - 1 : j >= b => q.d[j] = 0
      BY <1>5, <1>6, <1>13, SMTT(30) DEF Sparse
    <2>3. CASE i = b
      <3>1. OddWithin(t.d[i], w)
        BY <1>10, <2>1, <2>3
      <3>2. i < b + 1 /\ (i + w <= b + now \/ b + now = len)
        BY <1>5, <1>6, <1>7, <2>3
      <3>3. ASSUME NEW j \in i + 1 .. i + w - 1, j <= len - 1 PROVE t.d[j] = 0
        <4>1. j \in 0 .. len - 1 /\ j # b /\ j >= b
          BY <1>5, <1>6, <2>3, <3>3
        <4> QED
          BY <2>1, <2>2, <4>1
      <3> QED
        BY <3>1, <3>2, <3>3
    <2>4. CASE i # b
      <3>1. t.d[i] = q.d[i] /\ q.d[i] # 0
        BY <2>1, <2>4
      <3>2. /\ OddWithin(q.d[i], w) /\ i < q.used /\ (i + w <= b \/ b = len)
            /\ \A j \in i + 1 .. i + w - 1 : j <= len - 1 => q.d[j] = 0
        BY <1>13, <3>1 DEF Sparse
      <3>3. i + w <= b /\ i < b + 1 /\ i + w <= b + now
        BY <1>5, <1>6, <1>7, <3>2
      <3>4. ASSUME NEW j \in i + 1 .. i + w - 1, j <= len - 1 PROVE t.d[j] = 0
        <4>1. j \in 0 .. len - 1 /\ j # b
          BY <1>5, <1>6, <3>3, <3>4
        <4> QED
          BY <2>1, <3>2, <3>4, <4>1
      <3> QED
        BY <3>1, <3>2, <3>3, <3>4
    <2> QED
      BY <2>3, <2>4
  <1>22. WalkOK(t, s, sign, len, w)
    BY <1>12, <1>19, <1>20, <1>21 DEF WalkOK
  <1>23. t.bit > q.bit
    BY <1>1, <1>6, <1>7, <1>11
  <1> QED
    BY <1>3, <1>22, <1>23

LEMMA StepKeeps ==
    ASSUME NEW s, NEW sign, NEW len, NEW w, Walks(s, sign, len, w),
           NEW q, WalkOK(q, s, sign, len, w)
    PROVE  /\ WalkOK(WnafStep(q, s, sign, len, w), s, sign, len, w)
           /\ LET t == WnafStep(q, s, sign, len, w) IN t.bit > q.bit \/ t.bit = len
  <1>1. q \in WalkStates(len) /\ len \in Nat
    BY DEF WalkOK, Walks
  <1>2. q.bit \in 0 .. len
    BY <1>1 DEF WalkStates
  <1>3. CASE q.bit >= len
    <2>1. WnafStep(q, s, sign, len, w) = q /\ q.bit = len
      BY <1>1, <1>2, <1>3 DEF WnafStep
    <2> QED
      BY <2>1
  <1>4. CASE q.bit < len /\ GetBits(s, q.bit, 1) = q.carry
    <2> DEFINE t == [q EXCEPT !.bit = @ + 1]
    <2>1. WnafStep(q, s, sign, len, w) = t
      BY <1>1, <1>2, <1>4 DEF WnafStep
    <2>2. t.bit = q.bit + 1
      BY <1>1 DEF WalkStates
    <2>3. WalkOK(t, s, sign, len, w)
      BY <1>4, SkipKeeps
    <2> HIDE DEF t
    <2> QED
      BY <1>2, <2>1, <2>2, <2>3
  <1>5. CASE q.bit < len /\ GetBits(s, q.bit, 1) # q.carry
    <2>1. WnafStep(q, s, sign, len, w) = WnafTake(q, s, sign, len, w)
      BY <1>1, <1>2, <1>5 DEF WnafStep
    <2> QED
      BY <1>5, <2>1, TakeKeeps
  <1> QED
    BY <1>1, <1>2, <1>3, <1>4, <1>5

IsWalk(f, s, sign, len, w) ==
    f = [k \in 0 .. len |-> IF k = 0 THEN WnafStart(len)
                                     ELSE WnafStep(f[k - 1], s, sign, len, w)]

LEMMA WalkIsChosen ==
    ASSUME NEW s, NEW sign, NEW len, NEW w
    PROVE  WnafWalk(s, sign, len, w) = (CHOOSE f : IsWalk(f, s, sign, len, w))[len]
  BY DEF WnafWalk, IsWalk

LEMMA WalkMeans ==
    ASSUME NEW s, NEW sign, NEW len \in Nat, NEW w, NEW f, IsWalk(f, s, sign, len, w)
    PROVE  /\ f[0] = WnafStart(len)
           /\ \A k \in 1 .. len : f[k] = WnafStep(f[k - 1], s, sign, len, w)
  <1> DEFINE step(k) == IF k = 0 THEN WnafStart(len) ELSE WnafStep(f[k - 1], s, sign, len, w)
  <1>1. f = [k \in 0 .. len |-> step(k)]
    BY DEF IsWalk
  <1>2. step(0) = WnafStart(len) /\ \A k \in 1 .. len : step(k) = WnafStep(f[k - 1], s, sign, len, w)
    OBVIOUS
  <1> HIDE DEF step
  <1> QED
    BY <1>1, <1>2

LEMMA WalkExists ==
    ASSUME NEW s, NEW sign, NEW len, NEW w, Walks(s, sign, len, w)
    PROVE  \E f : IsWalk(f, s, sign, len, w)
  <1>1. PICK S : S = {q \in WalkStates(len) : WalkOK(q, s, sign, len, w)}
    OBVIOUS
  <1>2. \A q : q \in S <=> WalkOK(q, s, sign, len, w)
    BY <1>1 DEF WalkOK
  <1>3. PICK G : G = [k \in 1 .. len |-> [q \in S |-> WnafStep(q, s, sign, len, w)]]
    OBVIOUS
  <1>4. \A q \in S : WnafStep(q, s, sign, len, w) \in S
    BY <1>2, StepKeeps
  <1>5. G \in [1 .. len -> [S -> S]]
    BY <1>3, <1>4
  <1>6. PICK x0 : x0 = WnafStart(len)
    OBVIOUS
  <1>7. x0 \in S /\ len \in Nat
    BY <1>2, <1>6, WalkStarts DEF Walks
  <1>8. PICK f : Runs(f, len, S, x0, G)
    BY <1>5, <1>7, Recursion
  <1>9. ASSUME NEW k \in 1 .. len PROVE f[k] = WnafStep(f[k - 1], s, sign, len, w)
    <2>1. f[k] = G[k][f[k - 1]] /\ f \in [0 .. len -> S]
      BY <1>8 DEF Runs
    <2>2. k - 1 \in 0 .. len
      BY <1>7
    <2> QED
      BY <1>3, <2>1, <2>2
  <1>10. f = [k \in 0 .. len |-> IF k = 0 THEN WnafStart(len)
                                          ELSE WnafStep(f[k - 1], s, sign, len, w)]
    <2>1. f \in [0 .. len -> S] /\ f[0] = x0
      BY <1>8 DEF Runs
    <2> QED
      BY <1>6, <1>7, <1>9, <2>1
  <1> QED
    BY <1>10 DEF IsWalk

\* The walk comes to the end of the scalar.
LEMMA WalkEnds ==
    ASSUME NEW s, NEW sign, NEW len, NEW w, Walks(s, sign, len, w),
           NEW q, q = WnafWalk(s, sign, len, w)
    PROVE  WalkOK(q, s, sign, len, w) /\ q.bit = len
  <1>1. PICK f : f = CHOOSE g : IsWalk(g, s, sign, len, w)
    OBVIOUS
  <1>2. IsWalk(f, s, sign, len, w)
    BY <1>1, WalkExists
  <1>3. len \in Nat \ {0}
    BY DEF Walks
  <1>4. /\ f[0] = WnafStart(len)
        /\ \A k \in 1 .. len : f[k] = WnafStep(f[k - 1], s, sign, len, w)
    BY <1>2, <1>3, WalkMeans
  <1> DEFINE S == {k \in Nat : k <= len => /\ WalkOK(f[k], s, sign, len, w)
                                           /\ f[k].bit >= k \/ f[k].bit = len}
  <1>5. 0 \in S
    <2>1. WalkOK(f[0], s, sign, len, w)
      BY <1>4, WalkStarts
    <2>2. f[0].bit = 0
      BY <1>4 DEF WnafStart
    <2> QED
      BY <2>1, <2>2
  <1>6. ASSUME NEW k \in Nat, k \in S PROVE k + 1 \in S
    <2> SUFFICES ASSUME k + 1 <= len
                 PROVE  /\ WalkOK(f[k + 1], s, sign, len, w)
                        /\ f[k + 1].bit >= k + 1 \/ f[k + 1].bit = len
      OBVIOUS
    <2>1. WalkOK(f[k], s, sign, len, w) /\ (f[k].bit >= k \/ f[k].bit = len)
      BY <1>3, <1>6
    <2>2. f[k + 1] = WnafStep(f[k], s, sign, len, w)
      <3>1. k + 1 \in 1 .. len /\ (k + 1) - 1 = k
        BY <1>3
      <3> HIDE DEF S
      <3> QED
        BY <1>4, <3>1
    <2> HIDE DEF S
    <2>3. PICK t : t = f[k + 1]
      OBVIOUS
    <2>4. WalkOK(t, s, sign, len, w) /\ (t.bit > f[k].bit \/ t.bit = len)
      BY <2>1, <2>2, <2>3, StepKeeps
    <2>5. f[k].bit \in 0 .. len /\ t.bit \in 0 .. len
      BY <2>1, <2>4 DEF WalkOK, WalkStates
    <2>6. t.bit >= k + 1 \/ t.bit = len
      BY <1>3, <2>1, <2>4, <2>5
    <2> QED
      BY <2>3, <2>4, <2>6
  <1> HIDE DEF S
  <1>7. \A k \in Nat : k \in S
    BY <1>5, <1>6, Induction
  <1>8. q = f[len]
    BY <1>1, WalkIsChosen
  <1>9. WalkOK(q, s, sign, len, w) /\ (q.bit >= len \/ q.bit = len)
    BY <1>3, <1>7, <1>8 DEF S
  <1>10. q.bit \in 0 .. len
    BY <1>9 DEF WalkOK, WalkStates
  <1> QED
    BY <1>3, <1>9, <1>10

LEMMA Scalars ==
    /\ n \in Nat /\ n > 4 /\ n % 2 = 1
    /\ Bits \in Nat \ {0} /\ Bits <= Top /\ n < 2^Bits
    /\ 2^Bits = 2 * 2^(Bits - 1) /\ 2^(Bits - 1) \in Nat \ {0}
    /\ Bits - 1 \in 0 .. Top /\ Bits \in 0 .. Top
  <1>1. n \in Nat /\ n > 4 /\ n % 2 = 1 /\ Bits \in Nat /\ n < 2^Bits
    BY EcmultAssumption
  <1>2. Bits <= Top
    BY EcmultAssumption DEF Top
  <1>3. Bits # 0
    <2> SUFFICES ASSUME Bits = 0 PROVE FALSE
      OBVIOUS
    <2> QED
      BY <1>1, Powers
  <1>4. Bits - 1 \in 0 .. Top /\ (Bits - 1) + 1 = Bits
    BY <1>1, <1>2, <1>3, Powers
  <1>5. 2^(Bits - 1) \in Nat \ {0} /\ 2^((Bits - 1) + 1) = 2 * 2^(Bits - 1)
    BY <1>4, Powers
  <1> QED
    BY <1>1, <1>2, <1>3, <1>4, <1>5, Powers

\* The top bit of a scalar, and what its negation leaves.
LEMMA TopBit ==
    ASSUME NEW a \in Nat, a < n
    PROVE  /\ GetBits(a, Bits - 1, 1) = 1 =>
                  /\ Negate(a) = n - a /\ Negate(a) \in Nat /\ a > 0
                  /\ Negate(a) < 2^(Bits - 1)
           /\ GetBits(a, Bits - 1, 1) # 1 => a < 2^(Bits - 1)
  <1>1. PICK P, W, i : P = 2^(Bits - 1) /\ W = 2^Bits /\ i = 1
    OBVIOUS
  <1>2. P \in Nat \ {0} /\ W = 2 * P /\ n < W /\ n \in Nat /\ W \in Nat
    BY <1>1, Scalars
  <1>3. PICK v, g : v = a \div P /\ g = GetBits(a, Bits - 1, i)
    OBVIOUS
  <1>4. v = 2^i * (a \div 2^((Bits - 1) + i)) + g /\ g \in 0 .. 2^i - 1
    <2>1. Bits - 1 \in Nat /\ i \in Nat /\ (Bits - 1) + i <= Top
      BY <1>1, Scalars
    <2> QED
      BY <1>1, <1>3, <2>1, BitsTaken
  <1>5. a \div 2^((Bits - 1) + i) = 0
    <2>1. (Bits - 1) + i = Bits /\ Bits \in Nat /\ Bits <= Bits /\ Bits <= Top /\ a < 2^Bits
      BY <1>1, <1>2, Scalars
    <2>2. a \div 2^Bits = 0
      BY <2>1, SmallQuotient
    <2> QED
      BY <2>1, <2>2
  <1>6. 2^i = 2
    <2>1. 0 \in 0 .. Top /\ 0 + 1 = 1
      BY Powers
    <2>2. 2^(0 + 1) = 2 * 2^0 /\ 2^0 = 1
      BY <2>1, Powers
    <2> QED
      BY <1>1, <2>1, <2>2
  <1>7. v = g /\ g \in {0, 1}
    BY <1>4, <1>5, <1>6
  <1>8. a = P * v + (a % P) /\ (a % P) \in 0 .. P - 1
    BY <1>2, <1>3, DivMod
  <1>9. CASE g = 1
    <2>1. a >= P
      <3>1. P * v = P
        BY <1>2, <1>7, <1>9
      <3> QED
        BY <1>2, <1>8, <3>1
    <2>2. n - a \in 0 .. n - 1 /\ n - a < P /\ a > 0
      BY <1>2, <2>1
    <2>3. Negate(a) = n - a
      BY <1>2, <2>2, ModOfNegative DEF Negate
    <2> QED
      BY <1>1, <1>3, <1>9, <2>2, <2>3
  <1>10. CASE g # 1
    <2>1. P * v = 0
      BY <1>2, <1>7, <1>10
    <2> QED
      BY <1>1, <1>2, <1>3, <1>8, <1>10, <2>1
  <1> QED
    BY <1>9, <1>10

LEMMA WnafStands ==
    ASSUME NEW a \in Nat, a < n, NEW w \in Nat, w >= 2, Bits + w <= Top,
           NEW v, v = Wnaf(a, Bits, w)
    PROVE  /\ DigitSum(v.d, Bits, 1) % n = a /\ v.carry = 0
           /\ Sparse(v.d, v.used, Bits, Bits, w) /\ v.d \in [0 .. Bits - 1 -> Int]
           /\ v.used \in 0 .. Bits
  <1>1. PICK s, sign : IF GetBits(a, Bits - 1, 1) = 1 THEN s = Negate(a) /\ sign = -1
                                                     ELSE s = a /\ sign = 1
    <2>1. CASE GetBits(a, Bits - 1, 1) = 1
      BY <2>1
    <2>2. CASE GetBits(a, Bits - 1, 1) # 1
      BY <2>2
    <2> QED
      BY <2>1, <2>2
  <1>2. s \in Nat /\ s < 2^(Bits - 1) /\ sign \in {-1, 1}
    BY <1>1, TopBit
  <1>3. v = WnafWalk(s, sign, Bits, w)
    BY <1>1 DEF Wnaf
  <1>4. Walks(s, sign, Bits, w)
    BY <1>2, Scalars DEF Walks
  <1>5. WalkOK(v, s, sign, Bits, w) /\ v.bit = Bits
    BY <1>3, <1>4, WalkEnds
  <1>6. v.carry = 0 /\ Sparse(v.d, v.used, Bits, Bits, w)
    BY <1>5 DEF WalkOK
  <1>7. v.d \in [0 .. Bits - 1 -> Int] /\ v.used \in 0 .. Bits
    BY <1>5 DEF WalkOK, WalkStates
  <1>8. DigitSum(v.d, Bits, 1) + sign * ((s \div 2^Bits + 0) * 2^Bits) = sign * s
    BY <1>5, <1>6 DEF WalkOK
  <1>9. s \div 2^Bits = 0
    <2>1. Bits - 1 \in Nat /\ Bits \in Nat /\ Bits - 1 <= Bits /\ Bits <= Top
      BY Scalars
    <2> QED
      BY <1>2, <2>1, SmallQuotient
  <1>10. DigitSum(v.d, Bits, 1) \in Int
    <2>1. Digits(v.d, Bits, 1) /\ Bits \in 0 .. Bits
      BY <1>7, Scalars DEF Digits
    <2> QED
      BY <2>1, DigitSumSteps
  <1>11. DigitSum(v.d, Bits, 1) = sign * s
    <2>1. sign * ((0 + 0) * 2^Bits) = 0
      BY <1>2, Scalars
    <2> QED
      BY <1>8, <1>9, <1>10, <2>1
  <1>12. DigitSum(v.d, Bits, 1) % n = a
    <2>1. CASE GetBits(a, Bits - 1, 1) = 1
      <3>1. s = n - a /\ a > 0 /\ sign = -1
        BY <1>1, <2>1, TopBit
      <3>2. sign * s = a - n
        BY <3>1, Scalars
      <3>3. a \in 0 .. n - 1 /\ n \in Nat \ {0}
        BY Scalars
      <3> QED
        BY <1>11, <3>2, <3>3, ModOfNegative
    <2>2. CASE GetBits(a, Bits - 1, 1) # 1
      <3>1. s = a /\ sign = 1
        BY <1>1, <2>2
      <3>2. sign * s = a
        BY <3>1
      <3>3. a \in 0 .. n - 1 /\ n \in Nat \ {0}
        BY Scalars
      <3> QED
        BY <1>11, <3>2, <3>3, ModOfNegative
    <2> QED
      BY <2>1, <2>2
  <1> QED
    BY <1>6, <1>7, <1>12

-----------------------------------------------------------------------------
(* Digits that are all odd: wnaf_const.                                    *)

\* As many windows as a scalar needs, and one more.
LEMMA Windows ==
    ASSUME NEW w \in Nat \ {0}, Bits + 2 * w <= Top
    PROVE  /\ WnafSize(w) \in Nat /\ (WnafSize(w) + 1) * w <= Top
           /\ Bits <= (WnafSize(w) + 1) * w
  <1>1. PICK x, L : x = Bits + w - 1 /\ L = WnafSize(w)
    OBVIOUS
  <1>2. x \in Nat /\ Bits \in Nat
    BY <1>1, Scalars
  <1>3. L = x \div w
    BY <1>1 DEF WnafSize
  <1>4. L \in Nat /\ (x % w) \in 0 .. w - 1 /\ x = w * L + (x % w)
    BY <1>2, <1>3, DivMod
  <1>5. (L + 1) * w = w * L + w
    BY <1>4
  <1>6. PICK y, r : y = w * L /\ r = x % w
    OBVIOUS
  <1>7. y \in Nat /\ r \in 0 .. w - 1 /\ x = y + r
    BY <1>4, <1>6
  <1>8. y + w <= Top /\ Bits <= y + w
    <2>1. Top \in Nat
      BY Powers
    <2> QED
      BY <1>1, <1>2, <1>7, <2>1
  <1> QED
    BY <1>1, <1>4, <1>5, <1>6, <1>8

\* A last digit that is odd and short, and the rest of t.
ConstOK(q, t, k, w) ==
    /\ q.s = t \div 2^((k + 1) * w) /\ q.s \in Nat
    /\ q.last \in Int /\ q.last % 2 = 1 /\ -2^w < q.last /\ q.last < 2^w

\* Window k of t, above a last digit that stands for 2^(k*w).
LEMMA ConstStep ==
    ASSUME NEW w \in Nat \ {0}, Bits + 2 * w <= Top, NEW t \in Nat,
           NEW k \in 0 .. WnafSize(w) - 1, NEW q, ConstOK(q, t, k, w),
           NEW r, r = WnafConstStep(q, w)
    PROVE  /\ ConstOK(r, t, k + 1, w)
           /\ r.digit \in Int /\ r.digit % 2 = 1 /\ -2^w < r.digit /\ r.digit < 2^w
           /\ q.last + q.s * 2^w = r.digit + r.last * 2^w + r.s * (2^w * 2^w)
  <1>1. PICK L, b, c : L = WnafSize(w) /\ b = (k + 1) * w /\ c = ((k + 1) + 1) * w
    OBVIOUS
  <1>2. L \in Nat /\ (L + 1) * w <= Top
    BY <1>1, Windows
  <1>3. b \in Nat /\ c \in Nat /\ c = b + w /\ c <= Top
    <2>1. k + 1 \in Nat /\ (k + 1) + 1 \in Nat /\ (k + 1) + 1 <= L + 1 /\ L + 1 \in Nat
      BY <1>1, <1>2
    <2>2. b \in Nat /\ c \in Nat /\ c = b + w
      BY <1>1, <2>1, Times, TimesNat
    <2>3. c <= (L + 1) * w
      BY <1>1, <2>1, TimesMonotone
    <2>4. (L + 1) * w \in Nat
      BY <2>1, TimesNat
    <2>5. Top \in Nat
      BY Powers
    <2> QED
      BY <1>2, <2>2, <2>3, <2>4, <2>5
  <1>4. PICK W, H : W = 2^w /\ H = 2^(w - 1)
    OBVIOUS
  <1>5. W \in Nat /\ H \in Nat \ {0} /\ W = 2 * H
    <2>1. w - 1 \in 0 .. Top /\ w \in 0 .. Top /\ (w - 1) + 1 = w
      BY <1>3, Powers
    <2>2. 2^(w - 1) \in Nat \ {0} /\ 2^((w - 1) + 1) = 2 * 2^(w - 1)
      BY <2>1, Powers
    <2> QED
      BY <1>4, <2>1, <2>2
  <1>6. PICK u, v : u = q.s % W /\ v = q.s \div W
    OBVIOUS
  <1>7. q.s \in Nat /\ q.s = t \div 2^b
    BY <1>1 DEF ConstOK
  <1>8. u \in 0 .. W - 1 /\ v \in Nat /\ q.s = W * v + u
    <2>1. W \in Nat \ {0}
      BY <1>5
    <2> QED
      BY <1>6, <1>7, <2>1, DivMod
  <1>9. v = t \div 2^c
    <2>1. t \div 2^b = 2^w * (t \div 2^(b + w)) + GetBits(t, b, w)
      BY <1>3, BitsTaken
    <2>2. GetBits(t, b, w) \in 0 .. 2^w - 1 /\ t \div 2^(b + w) \in Nat
      BY <1>3, BitsTaken
    <2>3. PICK g, y : g = GetBits(t, b, w) /\ y = t \div 2^c
      OBVIOUS
    <2>4. q.s = W * y + g /\ g \in 0 .. W - 1 /\ y \in Nat
      BY <1>3, <1>4, <1>7, <2>1, <2>2, <2>3
    <2>5. W \in Nat \ {0}
      BY <1>5
    <2>6. q.s \div W = y
      BY <2>4, <2>5, DivUnique
    <2> QED
      BY <1>6, <2>3, <2>6
  <1>10. PICK even, sign : /\ even = (IF u % 2 = 0 THEN 1 ELSE 0)
                           /\ sign = (IF q.last > 0 THEN 1 ELSE -1)
    OBVIOUS
  <1>11. r = [s |-> v, last |-> u + sign * even, digit |-> q.last - sign * even * W]
    BY <1>4, <1>6, <1>10 DEF WnafConstStep
  <1>12. q.last \in Int /\ q.last % 2 = 1 /\ -W < q.last /\ q.last < W
    BY <1>4 DEF ConstOK
  <1>13. PICK l, m : l = q.last /\ m = sign * even
    OBVIOUS
  <1>14. \/ m = 0 /\ u % 2 = 1
         \/ m = 1 /\ u % 2 = 0 /\ l > 0
         \/ m = -1 /\ u % 2 = 0 /\ l < 0
    <2>1. u % 2 \in {0, 1} /\ l # 0 /\ l \in Int
      BY <1>8, <1>12, <1>13
    <2> QED
      BY <1>10, <1>13, <2>1
  <1>15. r.s = v /\ r.last = u + m /\ r.digit = l - m * W
    BY <1>11, <1>13
  <1>16. PICK x : x = l - m * W
    OBVIOUS
  <1>17. (x = l /\ m = 0) \/ (x = l - W /\ m = 1) \/ (x = l + W /\ m = -1)
    BY <1>5, <1>12, <1>13, <1>14, <1>16
  <1>18. x \in Int /\ x % 2 = 1 /\ -W < x /\ x < W
    BY <1>5, <1>12, <1>13, <1>14, <1>17
  <1>19. u + m \in Int /\ (u + m) % 2 = 1 /\ -W < u + m /\ u + m < W
    BY <1>5, <1>8, <1>14
  <1>20. ConstOK(r, t, k + 1, w)
    BY <1>1, <1>4, <1>8, <1>9, <1>15, <1>19 DEF ConstOK
  <1>21. l + q.s * W = x + (u + m) * W + v * (W * W)
    <2>1. q.s * W = v * (W * W) + u * W
      <3>1. (W * v) * W = v * (W * W)
        BY <1>5, <1>8
      <3>2. (W * v + u) * W = (W * v) * W + u * W
        BY <1>5, <1>8
      <3> QED
        BY <1>8, <3>1, <3>2
    <2>2. (u + m) * W = u * W + m * W
      BY <1>5, <1>8, <1>14
    <2>3. PICK i, j, h : i = u * W /\ j = m * W /\ h = v * (W * W)
      OBVIOUS
    <2>4. i \in Int /\ j \in Int /\ h \in Int
      BY <1>5, <1>8, <1>14, <2>3
    <2>5. l \in Int /\ x = l - j
      BY <1>12, <1>13, <1>16, <2>3
    <2>6. l + (h + i) = x + (i + j) + h
      BY <2>4, <2>5
    <2> QED
      BY <2>1, <2>2, <2>3, <2>6
  <1> QED
    BY <1>4, <1>13, <1>15, <1>16, <1>18, <1>20, <1>21

ConstStates == [s : Nat, last : Int, digit : Int]

ConstStart(t, w) == [s |-> t \div 2^w, last |-> t % 2^w, digit |-> 0]

IsConstWalk(f, t, w) ==
    f = [k \in 0 .. WnafSize(w) |-> IF k = 0 THEN ConstStart(t, w)
                                             ELSE WnafConstStep(f[k - 1], w)]

\* An odd scalar, and a window.
ConstWalks(t, w) ==
    t \in Nat /\ t < n /\ t % 2 = 1 /\ w \in Nat \ {0} /\ Bits + 2 * w <= Top

LEMMA ConstWalkIsChosen ==
    ASSUME NEW t, NEW w
    PROVE  WnafConstWalk(t, w) = CHOOSE f : IsConstWalk(f, t, w)
  BY DEF WnafConstWalk, IsConstWalk, ConstStart

LEMMA ConstWalkMeans ==
    ASSUME NEW t, NEW w, WnafSize(w) \in Nat, NEW f, IsConstWalk(f, t, w)
    PROVE  /\ f[0] = ConstStart(t, w)
           /\ \A k \in 1 .. WnafSize(w) : f[k] = WnafConstStep(f[k - 1], w)
  <1> DEFINE step(k) == IF k = 0 THEN ConstStart(t, w) ELSE WnafConstStep(f[k - 1], w)
  <1>1. f = [k \in 0 .. WnafSize(w) |-> step(k)]
    BY DEF IsConstWalk
  <1>2. step(0) = ConstStart(t, w) /\ \A k \in 1 .. WnafSize(w) : step(k) = WnafConstStep(f[k - 1], w)
    OBVIOUS
  <1> HIDE DEF step
  <1> QED
    BY <1>1, <1>2

LEMMA WindowPower ==
    ASSUME NEW w \in Nat \ {0}, Bits + 2 * w <= Top
    PROVE  2^w \in Nat \ {0} /\ (2^w) % 2 = 0 /\ w <= Top /\ w \in 0 .. Top
  <1>1. w - 1 \in 0 .. Top /\ w \in 0 .. Top /\ (w - 1) + 1 = w
    BY Scalars, Powers
  <1>2. 2^(w - 1) \in Nat \ {0} /\ 2^((w - 1) + 1) = 2 * 2^(w - 1) /\ 2^w \in Nat \ {0}
    BY <1>1, Powers
  <1>3. PICK H, W : H = 2^(w - 1) /\ W = 2^w
    OBVIOUS
  <1>4. W = 2 * H /\ H \in Nat
    BY <1>1, <1>2, <1>3
  <1>5. W % 2 = 0
    BY <1>4
  <1> QED
    BY <1>1, <1>2, <1>3, <1>5

LEMMA ConstStarts ==
    ASSUME NEW t, NEW w, ConstWalks(t, w)
    PROVE  ConstStart(t, w) \in ConstStates /\ ConstOK(ConstStart(t, w), t, 0, w)
           /\ ConstStart(t, w).last + ConstStart(t, w).s * 2^w = t
  <1>1. PICK W, q : W = 2^w /\ q = ConstStart(t, w)
    OBVIOUS
  <1>2. W \in Nat \ {0} /\ W % 2 = 0 /\ t \in Nat /\ t % 2 = 1 /\ w \in Nat
    BY <1>1, WindowPower DEF ConstWalks
  <1>3. PICK u, v : u = t % W /\ v = t \div W
    OBVIOUS
  <1>4. u \in 0 .. W - 1 /\ v \in Nat /\ t = W * v + u
    BY <1>2, <1>3, DivMod
  <1>5. u % 2 = 1
    <2>1. PICK h : h = W \div 2
      OBVIOUS
    <2>2. h \in Nat /\ W = 2 * h
      BY <1>2, <2>1
    <2>3. W * v = 2 * (h * v) /\ h * v \in Nat
      BY <1>4, <2>2
    <2>4. PICK x : x = h * v
      OBVIOUS
    <2>5. x \in Nat /\ t = 2 * x + u
      BY <1>4, <2>3, <2>4
    <2> QED
      BY <1>2, <1>4, <2>5
  <1>6. q = [s |-> v, last |-> u, digit |-> 0]
    BY <1>1, <1>3 DEF ConstStart
  <1>7. q \in ConstStates
    BY <1>4, <1>6 DEF ConstStates
  <1>8. (0 + 1) * w = w
    BY <1>2
  <1>9. ConstOK(q, t, 0, w)
    BY <1>1, <1>2, <1>3, <1>4, <1>5, <1>6, <1>8 DEF ConstOK
  <1>10. u + v * W = t
    <2>1. v * W = W * v /\ v * W \in Nat
      BY <1>2, <1>4
    <2> QED
      BY <1>4, <2>1
  <1> QED
    BY <1>1, <1>6, <1>7, <1>9, <1>10

LEMMA ConstWalkExists ==
    ASSUME NEW t, NEW w, ConstWalks(t, w)
    PROVE  \E f : IsConstWalk(f, t, w)
  <1>1. PICK L, W : L = WnafSize(w) /\ W = 2^w
    OBVIOUS
  <1>2. L \in Nat /\ W \in Nat \ {0}
    BY <1>1, Windows, WindowPower DEF ConstWalks
  <1>3. PICK S : S = ConstStates
    OBVIOUS
  <1>4. PICK G : G = [k \in 1 .. L |-> [q \in S |-> WnafConstStep(q, w)]]
    OBVIOUS
  <1>5. ASSUME NEW q \in S PROVE WnafConstStep(q, w) \in S
    <2>1. q.s \in Nat /\ q.last \in Int
      BY <1>3 DEF ConstStates
    <2>2. q.s % W \in Nat /\ q.s \div W \in Nat
      <3>1. PICK z : z = q.s
        OBVIOUS
      <3>2. z \div W \in Nat /\ (z % W) \in 0 .. W - 1
        BY <1>2, <2>1, <3>1, DivMod
      <3> QED
        BY <1>2, <3>1, <3>2
    <2>3. PICK u, v, even, sign :
            /\ u = q.s % W /\ v = q.s \div W
            /\ even = (IF u % 2 = 0 THEN 1 ELSE 0) /\ sign = (IF q.last > 0 THEN 1 ELSE -1)
      OBVIOUS
    <2>4. WnafConstStep(q, w) = [s |-> v, last |-> u + sign * even,
                                 digit |-> q.last - sign * even * W]
      BY <1>1, <2>3 DEF WnafConstStep
    <2>5. u \in Nat /\ v \in Nat /\ even \in Int /\ sign \in Int
      BY <2>2, <2>3
    <2>6. sign * even \in Int /\ sign * even * W \in Int
      BY <1>2, <2>5
    <2>7. u + sign * even \in Int /\ q.last - sign * even * W \in Int
      BY <2>1, <2>5, <2>6
    <2> QED
      BY <1>3, <2>4, <2>5, <2>7 DEF ConstStates
  <1>6. G \in [1 .. L -> [S -> S]]
    BY <1>4, <1>5
  <1>7. PICK x0 : x0 = ConstStart(t, w)
    OBVIOUS
  <1>8. x0 \in S
    BY <1>3, <1>7, ConstStarts
  <1>9. PICK f : Runs(f, L, S, x0, G)
    BY <1>2, <1>6, <1>8, Recursion
  <1>10. ASSUME NEW k \in 1 .. L PROVE f[k] = WnafConstStep(f[k - 1], w)
    <2>1. f[k] = G[k][f[k - 1]] /\ f \in [0 .. L -> S]
      BY <1>9 DEF Runs
    <2>2. k - 1 \in 0 .. L
      BY <1>2
    <2> QED
      BY <1>4, <2>1, <2>2
  <1>11. f = [k \in 0 .. L |-> IF k = 0 THEN ConstStart(t, w) ELSE WnafConstStep(f[k - 1], w)]
    <2>1. f \in [0 .. L -> S] /\ f[0] = x0
      BY <1>9 DEF Runs
    <2> QED
      BY <1>2, <1>7, <1>10, <2>1
  <1> QED
    BY <1>1, <1>11 DEF IsConstWalk

\* The odd digits, as they come, with the last digit and what is left, stand for t.
LEMMA ConstWalkStands ==
    ASSUME NEW t, NEW w, ConstWalks(t, w), NEW sign \in {-1, 1}, NEW skew,
           NEW v, v = WnafConstDigits(WnafConstWalk(t, w), sign, skew, w)
    PROVE  /\ DigitSum(v.d, WnafSize(w) + 1, w) = sign * t
           /\ v.rest = 0 /\ v.skew = skew
           /\ v.d \in [0 .. WnafSize(w) -> Int]
           /\ \A i \in 0 .. WnafSize(w) : v.d[i] % 2 = 1 /\ -2^w < v.d[i] /\ v.d[i] < 2^w
  <1>1. PICK f, L, W : f = WnafConstWalk(t, w) /\ L = WnafSize(w) /\ W = 2^w
    OBVIOUS
  <1>2. IsConstWalk(f, t, w)
    BY <1>1, ConstWalkExists, ConstWalkIsChosen
  <1>3. /\ L \in Nat /\ (L + 1) * w <= Top /\ Bits <= (L + 1) * w /\ W \in Nat \ {0}
        /\ t \in Nat /\ t < n /\ w \in Nat \ {0} /\ Bits + 2 * w <= Top
    BY <1>1, Windows, WindowPower DEF ConstWalks
  <1>4. f[0] = ConstStart(t, w) /\ \A k \in 1 .. L : f[k] = WnafConstStep(f[k - 1], w)
    <2>1. WnafSize(w) \in Nat
      BY <1>1, <1>3
    <2> QED
      BY <1>1, <1>2, <2>1, ConstWalkMeans
  <1>5. \A k \in 0 .. L - 1 : f[k + 1] = WnafConstStep(f[k], w)
    <2> TAKE k \in 0 .. L - 1
    <2>1. k + 1 \in 1 .. L /\ (k + 1) - 1 = k
      BY <1>3
    <2> QED
      BY <1>4, <2>1
  <1>6. \A k \in 0 .. L : ConstOK(f[k], t, k, w)
    <2> DEFINE S == {k \in Nat : k <= L => ConstOK(f[k], t, k, w)}
    <2>1. 0 \in S
      BY <1>4, ConstStarts
    <2>2. ASSUME NEW k \in Nat, k \in S PROVE k + 1 \in S
      <3> SUFFICES ASSUME k + 1 <= L PROVE ConstOK(f[k + 1], t, k + 1, w)
        OBVIOUS
      <3>1. k \in 0 .. L - 1 /\ ConstOK(f[k], t, k, w)
        BY <1>3, <2>2
      <3> HIDE DEF S
      <3>2. f[k + 1] = WnafConstStep(f[k], w)
        BY <1>5, <3>1
      <3> QED
        BY <1>1, <1>3, <3>1, <3>2, ConstStep
    <2> HIDE DEF S
    <2>3. \A k \in Nat : k \in S
      BY <2>1, <2>2, Induction
    <2> QED
      BY <1>3, <2>3 DEF S
  <1>7. PICK D : D = v.d
    OBVIOUS
  <1>8. /\ D = [k \in 0 .. L |-> sign * (IF k = L THEN f[k].last ELSE f[k + 1].digit)]
        /\ v.rest = f[L].s /\ v.skew = skew
    BY <1>1, <1>7 DEF WnafConstDigits
  <1>9. /\ \A k \in 0 .. L - 1 : D[k] = sign * f[k + 1].digit
        /\ D[L] = sign * f[L].last
    BY <1>3, <1>8
  <1>10. ASSUME NEW k \in 0 .. L - 1
         PROVE  /\ f[k + 1].digit \in Int /\ f[k + 1].digit % 2 = 1
                /\ -W < f[k + 1].digit /\ f[k + 1].digit < W
                /\ f[k].last + f[k].s * W
                     = f[k + 1].digit + f[k + 1].last * W + f[k + 1].s * (W * W)
    <2>1. f[k + 1] = WnafConstStep(f[k], w) /\ ConstOK(f[k], t, k, w) /\ k \in 0 .. WnafSize(w) - 1
      BY <1>1, <1>3, <1>5, <1>6
    <2>2. /\ f[k + 1].digit \in Int /\ f[k + 1].digit % 2 = 1
          /\ -2^w < f[k + 1].digit /\ f[k + 1].digit < 2^w
      BY <1>3, <2>1, ConstStep
    <2>3. f[k].last + f[k].s * 2^w
             = f[k + 1].digit + f[k + 1].last * 2^w + f[k + 1].s * (2^w * 2^w)
      BY <1>3, <2>1, ConstStep
    <2> QED
      BY <1>1, <2>2, <2>3
  <1>11. /\ f[L].last \in Int /\ f[L].last % 2 = 1 /\ -W < f[L].last /\ f[L].last < W
         /\ f[L].s = 0
    <2>1. ConstOK(f[L], t, L, w)
      BY <1>3, <1>6
    <2>2. t \div 2^((L + 1) * w) = 0
      <3>1. (L + 1) * w \in Nat /\ Bits \in Nat /\ t < 2^Bits
        <4>1. L + 1 \in Nat
          BY <1>3
        <4> QED
          BY <1>3, <4>1, TimesNat, Scalars
      <3> QED
        BY <1>3, <3>1, SmallQuotient
    <2> QED
      BY <1>1, <2>1, <2>2 DEF ConstOK
  <1>12. ASSUME NEW i \in 0 .. L
         PROVE  D[i] \in Int /\ D[i] % 2 = 1 /\ -W < D[i] /\ D[i] < W
    <2>1. PICK x : x = IF i = L THEN f[i].last ELSE f[i + 1].digit
      OBVIOUS
    <2>2. x \in Int /\ x % 2 = 1 /\ -W < x /\ x < W
      <3>1. CASE i = L
        BY <1>11, <2>1, <3>1
      <3>2. CASE i # L
        <4>1. i \in 0 .. L - 1 /\ x = f[i + 1].digit
          BY <1>3, <2>1, <3>2
        <4> QED
          BY <1>10, <4>1
      <3> QED
        BY <3>1, <3>2
    <2>3. D[i] = sign * x
      BY <1>8, <2>1
    <2>4. D[i] = x \/ D[i] = -x
      BY <2>2, <2>3
    <2> QED
      BY <1>3, <2>2, <2>4
  <1>13. D \in [0 .. L -> Int]
    BY <1>8, <1>12
  <1>14. Digits(D, L + 1, w)
    BY <1>3, <1>12 DEF Digits
  <1>15. DigitSum(D, 0, w) = 0
    BY <1>14, DigitSumSteps
  <1>16. \A k \in 0 .. L + 1 : DigitSum(D, k, w) \in Int
    BY <1>14, DigitSumSteps
  <1>17. \A k \in 0 .. L : DigitSum(D, k + 1, w) = DigitSum(D, k, w) + D[k] * 2^(k * w)
    <2>1. \A k \in 0 .. (L + 1) - 1 : DigitSum(D, k + 1, w) = DigitSum(D, k, w) + D[k] * 2^(k * w)
      BY <1>14, DigitSumSteps
    <2> QED
      BY <1>3, <2>1
  <1>18. \A k \in 0 .. L : 2^(k * w) \in Nat /\ 2^((k + 1) * w) = 2^(k * w) * W
    <2> TAKE k \in 0 .. L
    <2>1. k \in 0 .. L + 1 /\ k + 1 \in 0 .. L + 1 /\ L + 1 \in Nat
      BY <1>3
    <2>2. k * w \in 0 .. Top /\ 2^(k * w) \in Nat /\ (k + 1) * w \in 0 .. Top
      BY <1>3, <2>1, DigitPower
    <2>3. (k + 1) * w = k * w + w
      BY <1>3
    <2>4. PICK x : x = k * w
      OBVIOUS
    <2>5. x \in Nat /\ w \in Nat /\ x + w <= Top
      BY <1>3, <2>2, <2>3, <2>4
    <2>6. 2^(x + w) = 2^x * 2^w
      BY <2>5, PowerOfSum
    <2> QED
      BY <1>1, <2>2, <2>3, <2>4, <2>6
  <1> DEFINE left(k) == sign * ((f[k].last + f[k].s * W) * 2^(k * w))
  <1>19. \A k \in 0 .. L : left(k) \in Int /\ DigitSum(D, k, w) + left(k) = sign * t
    <2> DEFINE S == {k \in Nat : k <= L => DigitSum(D, k, w) + left(k) = sign * t}
    <2>1. \A k \in 0 .. L : f[k].last \in Int /\ f[k].s \in Nat
      BY <1>6 DEF ConstOK
    <2>2. \A k \in 0 .. L : left(k) \in Int
      <3> TAKE k \in 0 .. L
      <3>1. PICK x, y, z : x = f[k].last /\ y = f[k].s /\ z = 2^(k * w)
        OBVIOUS
      <3>2. x \in Int /\ y \in Int /\ z \in Int /\ W \in Int /\ sign \in Int
        BY <1>3, <1>18, <2>1, <3>1
      <3>3. sign * ((x + y * W) * z) \in Int
        BY <3>2
      <3> QED
        BY <3>1, <3>3
    <2>3. 0 \in S
      <3>1. f[0].last + f[0].s * W = t
        BY <1>1, <1>4, ConstStarts
      <3>2. 2^(0 * w) = 1
        <4>1. 0 * w = 0
          BY <1>3
        <4> QED
          BY <4>1, Powers
      <3>3. left(0) = sign * t
        BY <1>3, <3>1, <3>2
      <3>4. sign * t \in Int
        BY <1>3
      <3> QED
        BY <1>15, <3>3, <3>4
    <2>4. ASSUME NEW k \in Nat, k \in S PROVE k + 1 \in S
      <3> SUFFICES ASSUME k + 1 <= L PROVE DigitSum(D, k + 1, w) + left(k + 1) = sign * t
        OBVIOUS
      <3>1. k \in 0 .. L - 1 /\ k \in 0 .. L /\ k + 1 \in 0 .. L
            /\ DigitSum(D, k, w) + left(k) = sign * t
        BY <1>3, <2>4
      <3> HIDE DEF S
      <3>2. PICK u, P, Q, T, Y : /\ u = f[k + 1].digit /\ P = 2^(k * w) /\ Q = 2^((k + 1) * w)
                                 /\ T = f[k].last + f[k].s * W
                                 /\ Y = f[k + 1].last + f[k + 1].s * W
        OBVIOUS
      <3>3. u \in Int /\ P \in Int /\ Q = P * W /\ W \in Int /\ Q \in Int
        BY <1>3, <1>10, <1>18, <3>1, <3>2
      <3>4. T \in Int /\ Y \in Int /\ T = W * Y + u
        <4>1. PICK x, y, z, e : /\ x = f[k].last /\ y = f[k].s
                                /\ z = f[k + 1].last /\ e = f[k + 1].s
          OBVIOUS
        <4>2. x \in Int /\ y \in Int /\ z \in Int /\ e \in Int
          BY <2>1, <3>1, <4>1
        <4>3. T = u + z * W + e * (W * W)
          BY <1>10, <3>1, <3>2, <4>1
        <4>4. Y = z + e * W /\ T = x + y * W
          BY <3>2, <4>1
        <4>5. W * (z + e * W) = z * W + e * (W * W)
          BY <3>3, <4>2
        <4>6. T \in Int /\ Y \in Int /\ z * W \in Int /\ e * (W * W) \in Int
          BY <3>3, <4>2, <4>4
        <4>7. PICK i, j : i = z * W /\ j = e * (W * W)
          OBVIOUS
        <4>8. W * Y = i + j /\ T = u + i + j /\ i \in Int /\ j \in Int
          BY <4>3, <4>4, <4>5, <4>6, <4>7
        <4> QED
          BY <3>3, <4>6, <4>8
      <3>5. sign * (T * P) = sign * (Y * Q) + (sign * u) * P
        BY <3>3, <3>4, DigitMoves
      <3>6. left(k) = sign * (T * P) /\ left(k + 1) = sign * (Y * Q)
        BY <3>2
      <3>7. DigitSum(D, k + 1, w) = DigitSum(D, k, w) + (sign * u) * P
        BY <1>9, <1>17, <3>1, <3>2
      <3>8. PICK i, j, h, g : /\ i = sign * (T * P) /\ j = sign * (Y * Q) /\ h = (sign * u) * P
                              /\ g = DigitSum(D, k, w)
        OBVIOUS
      <3>9. i \in Int /\ j \in Int /\ h \in Int /\ g \in Int
        <4>1. g \in Int
          BY <1>3, <1>16, <3>1, <3>8
        <4> QED
          BY <3>3, <3>4, <3>8, <4>1
      <3>10. (g + h) + j = g + i
        <4>1. i = j + h
          BY <3>5, <3>8
        <4> QED
          BY <3>9, <4>1
      <3> HIDE DEF left
      <3> QED
        BY <3>1, <3>6, <3>7, <3>8, <3>10
    <2> HIDE DEF S
    <2>5. \A k \in Nat : k \in S
      BY <2>3, <2>4, Induction
    <2> HIDE DEF left
    <2> QED
      BY <1>3, <2>2, <2>5 DEF S
  <1>20. DigitSum(D, L + 1, w) = sign * t
    <2>1. L \in 0 .. L
      BY <1>3
    <2>2. PICK x, z, g : x = f[L].last /\ z = 2^(L * w) /\ g = DigitSum(D, L, w)
      OBVIOUS
    <2>3. x \in Int /\ z \in Int /\ g \in Int /\ f[L].s = 0
      BY <1>3, <1>11, <1>16, <1>18, <2>1, <2>2
    <2>4. x + 0 * W = x
      BY <1>3, <2>3
    <2>5. left(L) = sign * (x * z)
      BY <2>2, <2>3, <2>4
    <2>6. sign * (x * z) = (sign * x) * z
      BY <2>3
    <2>7. DigitSum(D, L + 1, w) = g + (sign * x) * z
      BY <1>9, <1>17, <2>1, <2>2
    <2> HIDE DEF left
    <2> QED
      BY <1>19, <2>1, <2>2, <2>5, <2>6, <2>7
  <1> QED
    BY <1>1, <1>7, <1>8, <1>11, <1>12, <1>13, <1>20

\* What wnaf_const recodes is odd, and stands for the scalar with its skew.
LEMMA SkewedIsOdd ==
    ASSUME NEW a \in Nat, a < n,
           NEW skewed, skewed = (IF Negate(a) # 1 THEN a + Skew(a) ELSE a),
           NEW t, t = (IF IsHigh(a) THEN Negate(skewed) ELSE skewed),
           NEW sign, sign = (IF IsHigh(a) THEN -1 ELSE 1) * (IF Negate(a) # 1 THEN 1 ELSE -1)
    PROVE  /\ t \in Nat /\ t < n /\ t % 2 = 1 /\ sign \in {-1, 1}
           /\ (sign * t) % n = (a + Skew(a)) % n
  <1>1. n \in Nat \ {0} /\ n > 4 /\ n % 2 = 1
    BY Scalars
  <1>2. PICK h : h = n \div 2
    OBVIOUS
  <1>3. h \in Nat /\ n = 2 * h + 1 /\ h >= 2
    BY <1>1, <1>2
  <1>4. \A x \in 1 .. n - 1 : Negate(x) = n - x
    <2> TAKE x \in 1 .. n - 1
    <2>1. n - x \in 0 .. n - 1
      BY <1>1
    <2> QED
      BY <1>1, <2>1, ModOfNegative DEF Negate
  <1>5. Negate(0) = 0
    <2>1. (n - 0) % n = 0
      BY <1>1
    <2> QED
      BY <2>1 DEF Negate
  <1>6. IsHigh(a) <=> a > h
    BY <1>2 DEF IsHigh
  <1>7. Negate(a) = 1 <=> a = n - 1
    <2>1. CASE a = 0
      BY <1>1, <1>5, <2>1
    <2>2. CASE a # 0
      <3>1. Negate(a) = n - a
        BY <1>1, <1>4, <2>2
      <3> QED
        BY <1>1, <3>1
    <2> QED
      BY <2>1, <2>2
  <1>8. CASE a <= h
    <2>1. Negate(a) # 1 /\ ~IsHigh(a)
      BY <1>3, <1>6, <1>7, <1>8
    <2>2. t = a + Skew(a) /\ sign = 1
      BY <2>1
    <2>3. Skew(a) = IF a % 2 = 1 THEN 2 ELSE 1
      <3>1. IsHigh(a) = FALSE
        BY <1>2, <1>3, <1>8 DEF IsHigh
      <3> QED
        BY <3>1 DEF Skew
    <2>4. t \in Nat /\ t < n /\ t % 2 = 1
      BY <1>3, <1>8, <2>2, <2>3
    <2>5. sign * t = a + Skew(a)
      BY <2>2, <2>4
    <2> QED
      BY <2>2, <2>4, <2>5
  <1>9. CASE a > h /\ a # n - 1
    <2>1. Negate(a) # 1 /\ IsHigh(a)
      BY <1>6, <1>7, <1>9
    <2>2. Skew(a) = IF a % 2 = 1 THEN 1 ELSE 2
      BY <2>1 DEF Skew
    <2>3. PICK x : x = a + Skew(a)
      OBVIOUS
    <2>4. x \in 1 .. n - 1 /\ x % 2 = 0
      BY <1>3, <1>9, <2>2, <2>3
    <2>5. t = n - x /\ sign = -1
      BY <1>4, <2>1, <2>3, <2>4
    <2>6. t \in Nat /\ t < n /\ t % 2 = 1
      BY <1>1, <2>4, <2>5
    <2>7. sign * t = x - n /\ x \in 0 .. n - 1
      BY <1>1, <2>4, <2>5
    <2>8. (x - n) % n = x /\ x % n = x
      BY <1>1, <2>7, ModOfNegative
    <2> QED
      BY <2>3, <2>5, <2>6, <2>7, <2>8
  <1>10. CASE a = n - 1
    <2>1. Negate(a) = 1 /\ IsHigh(a)
      BY <1>1, <1>3, <1>6, <1>7, <1>10
    <2>2. Skew(a) = 2
      <3>1. a % 2 = 0
        BY <1>3, <1>10
      <3> QED
        BY <2>1, <3>1 DEF Skew
    <2>3. t = 1 /\ sign = 1
      BY <2>1
    <2>4. sign * t = 1 /\ a + Skew(a) = n + 1 /\ 1 \in 0 .. n - 1
      BY <1>1, <1>10, <2>2, <2>3
    <2>5. 1 % n = 1 /\ (1 + n) % n = 1 /\ 1 + n = n + 1
      <3>1. PICK i : i = 1
        OBVIOUS
      <3>2. i \in 0 .. n - 1
        BY <2>4, <3>1
      <3>3. i % n = i /\ (i + n) % n = i
        BY <1>1, <3>2, ModOfNegative
      <3> QED
        BY <1>1, <3>1, <3>3
    <2> QED
      BY <1>1, <2>3, <2>4, <2>5
  <1> QED
    BY <1>1, <1>3, <1>8, <1>9, <1>10

LEMMA WnafConstStands ==
    ASSUME NEW a \in Nat, a < n, NEW w \in Nat \ {0}, Bits + 2 * w <= Top,
           NEW v, v = WnafConst(a, w)
    PROVE  /\ DigitSum(v.d, WnafSize(w) + 1, w) % n = (a + v.skew) % n
           /\ v.rest = 0 /\ v.d \in [0 .. WnafSize(w) -> Int]
           /\ \A i \in 0 .. WnafSize(w) : v.d[i] % 2 = 1 /\ -2^w < v.d[i] /\ v.d[i] < 2^w
  <1>1. PICK skewed, t, sign, skew :
          /\ skewed = (IF Negate(a) # 1 THEN a + Skew(a) ELSE a)
          /\ t = (IF IsHigh(a) THEN Negate(skewed) ELSE skewed)
          /\ sign = (IF IsHigh(a) THEN -1 ELSE 1) * (IF Negate(a) # 1 THEN 1 ELSE -1)
          /\ skew = Skew(a)
    OBVIOUS
  <1>2. v = WnafConstDigits(WnafConstWalk(t, w), sign, skew, w)
    BY <1>1 DEF WnafConst
  <1>3. t \in Nat /\ t < n /\ t % 2 = 1 /\ sign \in {-1, 1}
    BY <1>1, SkewedIsOdd
  <1>4. (sign * t) % n = (a + skew) % n
    BY <1>1, SkewedIsOdd
  <1>5. ConstWalks(t, w) /\ sign \in {-1, 1}
    BY <1>3 DEF ConstWalks
  <1>6. DigitSum(v.d, WnafSize(w) + 1, w) = sign * t
    BY <1>2, <1>5, ConstWalkStands
  <1>7. v.rest = 0 /\ v.skew = skew
    BY <1>2, <1>5, ConstWalkStands
  <1>8. v.d \in [0 .. WnafSize(w) -> Int]
    BY <1>2, <1>5, ConstWalkStands
  <1>9. \A i \in 0 .. WnafSize(w) : v.d[i] % 2 = 1 /\ -2^w < v.d[i] /\ v.d[i] < 2^w
    BY <1>2, <1>5, ConstWalkStands
  <1> QED
    BY <1>4, <1>6, <1>7, <1>8, <1>9

THEOREM EveryScalarIsRecoded == \A s \in Nat : DigitsStand(s)
  <1> SUFFICES ASSUME NEW s \in Nat, s < n PROVE DigitsStand(s)
    BY DEF DigitsStand
  <1>1. PICK w, x : w = WindowA /\ x = WindowA - 1
    OBVIOUS
  <1>2. /\ w \in Nat /\ w >= 2 /\ Bits + w <= Top /\ x \in Nat \ {0} /\ Bits + 2 * x <= Top
        /\ w = x + 1
    BY <1>1, EcmultAssumption DEF Top
  <1>3. PICK v, c : v = Wnaf(s, Bits, w) /\ c = WnafConst(s, x)
    OBVIOUS
  <1>4. /\ DigitSum(v.d, Bits, 1) % n = s /\ v.carry = 0
        /\ Sparse(v.d, v.used, Bits, Bits, w) /\ v.d \in [0 .. Bits - 1 -> Int]
    BY <1>2, <1>3, WnafStands
  <1>5. /\ DigitSum(c.d, WnafSize(x) + 1, x) % n = (s + c.skew) % n
        /\ c.rest = 0 /\ c.d \in [0 .. WnafSize(x) -> Int]
        /\ \A i \in 0 .. WnafSize(x) : c.d[i] % 2 = 1 /\ -2^x < c.d[i] /\ c.d[i] < 2^x
    BY <1>2, <1>3, WnafConstStands
  <1>6. ASSUME NEW i \in DOMAIN v.d, v.d[i] # 0
        PROVE  /\ OddWithin(v.d[i], w) /\ i < v.used
               /\ \A j \in i + 1 .. i + w - 1 : j \in DOMAIN v.d => v.d[j] = 0
    <2>1. i \in 0 .. Bits - 1 /\ DOMAIN v.d = 0 .. Bits - 1
      BY <1>4
    <2>2. /\ OddWithin(v.d[i], w) /\ i < v.used
          /\ \A j \in i + 1 .. i + w - 1 : j <= Bits - 1 => v.d[j] = 0
      BY <1>4, <1>6, <2>1 DEF Sparse
    <2>3. \A j \in 0 .. Bits - 1 : j <= Bits - 1
      BY Scalars
    <2> QED
      BY <2>1, <2>2, <2>3
  <1>7. ASSUME NEW i \in DOMAIN c.d PROVE OddWithin(c.d[i], w)
    <2>1. DOMAIN c.d = 0 .. WnafSize(x)
      BY <1>5
    <2>2. w - 1 = x
      BY <1>2
    <2>3. c.d[i] % 2 = 1 /\ -2^x < c.d[i] /\ c.d[i] < 2^x
      BY <1>5, <2>1
    <2> QED
      BY <2>2, <2>3 DEF OddWithin
  <1> QED
    BY <1>1, <1>3, <1>4, <1>5, <1>6, <1>7 DEF DigitsStand, OddWithin

-----------------------------------------------------------------------------
(* Calls on points.                                                        *)

CallsAreOfNumbers == lastCall.k \in Nat /\ lastCall.g \in Nat

LEMMA CallHasNumbers ==
    ASSUME NEW name, NEW r, NEW a, NEW b, NEW k \in Nat, NEW g \in Nat, NEW out, NEW point,
           Gives(PointCall(name, r, a, b, k, g, out), point)
    PROVE  CallsAreOfNumbers'
  BY DEF Gives, PointCall, Multiples!Call, CallsAreOfNumbers

LEMMA LibraryCallsStart == LibraryInit => CallsAreOfNumbers
  BY DEF LibraryInit, CurveStart, Multiples!NoCall, Multiples!Call, CallsAreOfNumbers

LEMMA LibraryCallsGoOn ==
    ASSUME CallsAreOfNumbers, [LibraryNext]_libraryVars
    PROVE  CallsAreOfNumbers'
  <1>1. CASE UNCHANGED lastCall
    BY <1>1 DEF CallsAreOfNumbers
  <1>2. CASE CurveNext
    <2>1. 0 \in Nat /\ 1 \in Nat
      OBVIOUS
    <2>0. Multipliers \subseteq Nat
      <3>1. \A k \in 0 .. n - 1 : k \in Nat
        OBVIOUS
      <3> QED
        BY <3>1, CurveAssumption
    <2>2. PICK r \in Points :
            \/ \E a \in Points :
                  \/ Double(r, a)
                  \/ NegateJ(r, a)
                  \/ \E b \in Points : \/ AddVar(r, a, b) \/ AddGeVar(r, a, b)
                                       \/ AddZinvVar(r, a, b) \/ AddGe(r, a, b)
                                       \/ SubtractGe(r, a, b)
                  \/ \E na, ng \in Multipliers : MultiplyAdd(r, a, na, ng)
                  \/ \E k \in Multipliers : MultiplyConst(r, a, k)
            \/ ToAffine(r)
            \/ \E s \in StartZ : Rescale(r, s)
            \/ \E x \in LiftX, odd \in BOOLEAN : Lift(r, x, odd)
            \/ \E k \in Multipliers : MultiplyGen(r, k)
            \/ \E seed \in Seeds : Blind(r, seed)
      BY <1>2 DEF CurveNext
    <2>3. ASSUME NEW a \in Points, Double(r, a) \/ NegateJ(r, a) PROVE CallsAreOfNumbers'
      BY <2>1, <2>3, CallHasNumbers DEF Double, NegateJ
    <2>4. ASSUME NEW a \in Points, NEW b \in Points,
                 \/ AddVar(r, a, b) \/ AddGeVar(r, a, b) \/ AddZinvVar(r, a, b)
                 \/ AddGe(r, a, b) \/ SubtractGe(r, a, b)
          PROVE  CallsAreOfNumbers'
      BY <2>1, <2>4, CallHasNumbers DEF AddVar, AddGeVar, AddZinvVar, AddGe, SubtractGe
    <2>5. ASSUME NEW a \in Points, NEW na \in Multipliers, NEW ng \in Multipliers,
                 MultiplyAdd(r, a, na, ng)
          PROVE  CallsAreOfNumbers'
      BY <2>0, <2>5, CallHasNumbers DEF MultiplyAdd
    <2>6. ASSUME NEW a \in Points, NEW k \in Multipliers, MultiplyConst(r, a, k)
          PROVE  CallsAreOfNumbers'
      BY <2>0, <2>1, <2>6, CallHasNumbers DEF MultiplyConst
    <2>7. ASSUME ToAffine(r) \/ (\E s \in StartZ : Rescale(r, s)) \/ (\E seed \in Seeds : Blind(r, seed))
          PROVE  CallsAreOfNumbers'
      BY <2>1, <2>7, CallHasNumbers DEF ToAffine, Rescale, Blind
    <2>8. ASSUME NEW x \in LiftX, NEW odd \in BOOLEAN, Lift(r, x, odd) PROVE CallsAreOfNumbers'
      BY <2>1, <2>8, CurveAssumption, CallHasNumbers DEF Lift
    <2>9. ASSUME NEW k \in Multipliers, MultiplyGen(r, k) PROVE CallsAreOfNumbers'
      BY <2>0, <2>1, <2>9, CallHasNumbers DEF MultiplyGen
    <2> QED
      BY <2>2, <2>3, <2>4, <2>5, <2>6, <2>7, <2>8, <2>9
  <1> QED
    BY <1>1, <1>2 DEF LibraryNext, libraryVars, curveVars

\* Whatever scalars the multiplications are called with, their digits stand for them.
THEOREM CallsAreRecoded == LibrarySpec => []DigitsStandForTheScalar
  <1>1. LibraryInit => CallsAreOfNumbers
    BY LibraryCallsStart
  <1>2. CallsAreOfNumbers /\ [LibraryNext]_libraryVars => CallsAreOfNumbers'
    BY LibraryCallsGoOn
  <1>3. CallsAreOfNumbers => DigitsStandForTheScalar
    BY EveryScalarIsRecoded DEF CallsAreOfNumbers, DigitsStandForTheScalar
  <1> QED
    BY <1>1, <1>2, <1>3, PTL DEF LibrarySpec

-----------------------------------------------------------------------------
(* Numbers in bytes of DER.                                                *)

Radix == 2^DerBits

Octets == 0 .. Radix - 1

Reading(f, b, top) ==
    f = [i \in 0 .. top |-> IF i = 0 THEN 0 ELSE f[i - 1] * Radix + b[i]]

\* The number that the first k bytes say.
Value(b, k) == (CHOOSE f : Reading(f, b, k))[k]

Bytes(b, k) == k \in Nat /\ \A i \in 1 .. k : b[i] \in 0 .. Radix - 1

LEMMA Radices ==
    /\ DerHigh \in Nat \ {0} /\ Radix = 2 * DerHigh /\ Radix \in Nat \ {0, 1}
    /\ DerAll = Radix - 1
    /\ DerBits \in Nat \ {0} /\ DerBytes \in Nat \ {0} /\ DerBits * DerBytes \in Bits .. Top
    /\ DerBytes * DerBits = DerBits * DerBytes
    /\ 6 + 2 * DerBytes < DerHigh
  <1>1. Bits \in Nat /\ WindowA \in Nat /\ WindowG \in Nat
    BY EcmultAssumption
  <1>2. PICK y : y = DerBits * DerBytes
    OBVIOUS
  <1>3. DerBits \in Nat \ {0} /\ DerBytes \in Nat \ {0} /\ y \in Nat /\ Bits <= y /\ y <= 2 * Bits
    BY <1>2, EcdsaAssumption
  <1>4. y \in Bits .. Top
    BY <1>1, <1>3 DEF Top
  <1>5. DerBits <= y
    <2>1. 1 * DerBits <= DerBytes * DerBits /\ DerBytes * DerBits = DerBits * DerBytes
      BY <1>3, TimesMonotone, Times
    <2> QED
      BY <1>2, <1>3, <2>1
  <1>6. DerBits - 1 \in 0 .. Top /\ (DerBits - 1) + 1 = DerBits
    BY <1>3, <1>4, <1>5, Powers
  <1>7. 2^(DerBits - 1) \in Nat \ {0} /\ 2^DerBits = 2 * 2^(DerBits - 1)
    BY <1>6, Powers
  <1>8. DerHigh \in Nat \ {0} /\ Radix = 2 * DerHigh
    BY <1>7 DEF DerHigh, Radix
  <1>9. Radix \in Nat \ {0, 1} /\ DerAll = Radix - 1
    BY <1>8 DEF DerAll, Radix
  <1>10. DerBytes * DerBits = DerBits * DerBytes
    BY <1>3
  <1> QED
    BY <1>2, <1>3, <1>4, <1>8, <1>9, <1>10, EcdsaAssumption

LEMMA ReadingMeans ==
    ASSUME NEW b, NEW k \in Nat, NEW f, Reading(f, b, k)
    PROVE  f[0] = 0 /\ \A i \in 1 .. k : f[i] = f[i - 1] * Radix + b[i]
  <1> DEFINE step(i) == IF i = 0 THEN 0 ELSE f[i - 1] * Radix + b[i]
  <1>1. f = [i \in 0 .. k |-> step(i)]
    BY DEF Reading
  <1>2. step(0) = 0 /\ \A i \in 1 .. k : step(i) = f[i - 1] * Radix + b[i]
    OBVIOUS
  <1> HIDE DEF step
  <1> QED
    BY <1>1, <1>2

LEMMA ReadingExists ==
    ASSUME NEW b, NEW k, Bytes(b, k)
    PROVE  \E f : Reading(f, b, k) /\ f \in [0 .. k -> Nat]
  <1> DEFINE G == [i \in 1 .. k |-> [x \in Nat |-> x * Radix + b[i]]]
  <1>1. k \in Nat /\ Radix \in Nat /\ \A i \in 1 .. k : b[i] \in Nat
    BY Radices DEF Bytes
  <1>2. G \in [1 .. k -> [Nat -> Nat]]
    BY <1>1
  <1>3. PICK f \in [0 .. k -> Nat] : f[0] = 0 /\ \A i \in 1 .. k : f[i] = G[i][f[i - 1]]
    <2>0. PICK Z : Z = Nat
      OBVIOUS
    <2>1. PICK zero, H : zero = 0 /\ H = G
      OBVIOUS
    <2>2. zero \in Z /\ H \in [1 .. k -> [Z -> Z]]
      BY <1>2, <2>0, <2>1
    <2>3. \E f : Runs(f, k, Z, zero, H)
      <3>1. k \in Nat
        BY <1>1
      <3> HIDE DEF G
      <3> QED
        BY <2>2, <3>1, Recursion
    <2> HIDE DEF G
    <2> QED
      BY <2>0, <2>1, <2>3 DEF Runs
  <1>4. ASSUME NEW i \in 1 .. k PROVE f[i] = f[i - 1] * Radix + b[i]
    <2>1. i - 1 \in 0 .. k
      BY <1>1
    <2> QED
      BY <1>3, <2>1
  <1> HIDE DEF G
  <1>5. f = [i \in 0 .. k |-> IF i = 0 THEN 0 ELSE f[i - 1] * Radix + b[i]]
    BY <1>1, <1>3, <1>4
  <1>6. Reading(f, b, k)
    BY <1>5 DEF Reading
  <1> QED
    BY <1>3, <1>6

LEMMA ReadingsBeginAlike ==
    ASSUME NEW b, NEW k \in Nat, NEW j \in 0 .. k, NEW f, NEW g,
           Reading(f, b, k), Reading(g, b, j)
    PROVE  f[j] = g[j]
  <1> DEFINE S == {i \in Nat : i <= j => f[i] = g[i]}
  <1>1. f[0] = 0 /\ \A i \in 1 .. k : f[i] = f[i - 1] * Radix + b[i]
    BY ReadingMeans
  <1>2. g[0] = 0 /\ \A i \in 1 .. j : g[i] = g[i - 1] * Radix + b[i]
    <2>1. j \in Nat
      OBVIOUS
    <2> QED
      BY <2>1, ReadingMeans
  <1>3. 0 \in S
    BY <1>1, <1>2
  <1>4. ASSUME NEW i \in Nat, i \in S PROVE i + 1 \in S
    <2> SUFFICES ASSUME i + 1 <= j PROVE f[i + 1] = g[i + 1]
      OBVIOUS
    <2>1. f[i] = g[i] /\ i + 1 \in 1 .. j /\ i + 1 \in 1 .. k /\ (i + 1) - 1 = i
      BY <1>4
    <2> HIDE DEF S
    <2> QED
      BY <1>1, <1>2, <2>1
  <1> HIDE DEF S
  <1>5. \A i \in Nat : i \in S
    BY <1>3, <1>4, Induction
  <1> QED
    BY <1>5 DEF S

LEMMA ValueSteps ==
    ASSUME NEW b, NEW k, Bytes(b, k)
    PROVE  /\ Value(b, 0) = 0
           /\ \A i \in 0 .. k : Value(b, i) \in Nat
           /\ \A i \in 0 .. k - 1 : Value(b, i + 1) = Value(b, i) * Radix + b[i + 1]
  <1>1. k \in Nat
    BY DEF Bytes
  <1>2. PICK f : Reading(f, b, k) /\ f \in [0 .. k -> Nat]
    BY ReadingExists
  <1>3. ASSUME NEW i \in 0 .. k PROVE Value(b, i) = f[i]
    <2>1. Bytes(b, i)
      BY <1>1 DEF Bytes
    <2> DEFINE g == CHOOSE h : Reading(h, b, i)
    <2>2. Reading(g, b, i)
      BY <2>1, ReadingExists
    <2>3. Value(b, i) = g[i]
      BY DEF Value
    <2> HIDE DEF g
    <2> QED
      BY <1>1, <1>2, <2>2, <2>3, ReadingsBeginAlike
  <1>4. f[0] = 0 /\ \A i \in 1 .. k : f[i] = f[i - 1] * Radix + b[i]
    BY <1>1, <1>2, ReadingMeans
  <1>5. Value(b, 0) = 0
    BY <1>1, <1>3, <1>4
  <1>6. \A i \in 0 .. k : Value(b, i) \in Nat
    BY <1>2, <1>3
  <1>7. ASSUME NEW i \in 0 .. k - 1 PROVE Value(b, i + 1) = Value(b, i) * Radix + b[i + 1]
    <2>1. i \in 0 .. k /\ i + 1 \in 0 .. k /\ i + 1 \in 1 .. k /\ (i + 1) - 1 = i
      BY <1>1
    <2>2. f[i + 1] = f[i] * Radix + b[i + 1]
      BY <1>4, <2>1
    <2> QED
      BY <1>3, <2>1, <2>2
  <1> QED
    BY <1>5, <1>6, <1>7

LEMMA DerNumberIsValue ==
    ASSUME NEW b PROVE DerNumber(b) = Value(b, Len(b))
  BY DEF DerNumber, Value, Reading, Radix

\* Equal bytes after equal numbers.
LEMMA ValuesGoOn ==
    ASSUME NEW b, NEW c, NEW z \in Nat, NEW y \in Nat, NEW k \in Nat,
           Bytes(b, z + k), Bytes(c, y + k), Value(b, z) = Value(c, y),
           \A i \in 1 .. k : b[z + i] = c[y + i]
    PROVE  Value(b, z + k) = Value(c, y + k)
  <1> DEFINE S == {i \in Nat : i <= k => Value(b, z + i) = Value(c, y + i)}
  <1>1. \A i \in 0 .. (z + k) - 1 : Value(b, i + 1) = Value(b, i) * Radix + b[i + 1]
    BY ValueSteps
  <1>2. \A i \in 0 .. (y + k) - 1 : Value(c, i + 1) = Value(c, i) * Radix + c[i + 1]
    BY ValueSteps
  <1>3. 0 \in S
    <2>1. z + 0 = z /\ y + 0 = y
      OBVIOUS
    <2> QED
      BY <2>1
  <1>4. ASSUME NEW i \in Nat, i \in S PROVE i + 1 \in S
    <2> SUFFICES ASSUME i + 1 <= k PROVE Value(b, z + (i + 1)) = Value(c, y + (i + 1))
      OBVIOUS
    <2>1. Value(b, z + i) = Value(c, y + i)
      BY <1>4
    <2>2. /\ z + i \in 0 .. (z + k) - 1 /\ y + i \in 0 .. (y + k) - 1
          /\ z + (i + 1) = (z + i) + 1 /\ y + (i + 1) = (y + i) + 1 /\ i + 1 \in 1 .. k
      OBVIOUS
    <2>3. b[(z + i) + 1] = c[(y + i) + 1]
      BY <2>2
    <2>4. Value(b, (z + i) + 1) = Value(b, z + i) * Radix + b[(z + i) + 1]
      BY <1>1, <2>2
    <2>5. Value(c, (y + i) + 1) = Value(c, y + i) * Radix + c[(y + i) + 1]
      BY <1>2, <2>2
    <2> HIDE DEF S
    <2> QED
      BY <2>1, <2>2, <2>3, <2>4, <2>5
  <1> HIDE DEF S
  <1>5. k \in S
    BY <1>3, <1>4, Induction
  <1> QED
    BY <1>5 DEF S

LEMMA ValueOfZeros ==
    ASSUME NEW b, NEW z, Bytes(b, z), \A i \in 1 .. z : b[i] = 0
    PROVE  Value(b, z) = 0
  <1> DEFINE S == {i \in Nat : i <= z => Value(b, i) = 0}
  <1>1. z \in Nat
    BY DEF Bytes
  <1>2. 0 \in S
    BY ValueSteps
  <1>3. ASSUME NEW i \in Nat, i \in S PROVE i + 1 \in S
    <2> SUFFICES ASSUME i + 1 <= z PROVE Value(b, i + 1) = 0
      OBVIOUS
    <2>1. Value(b, i) = 0 /\ i \in 0 .. z - 1 /\ i + 1 \in 1 .. z
      BY <1>1, <1>3
    <2>2. Value(b, i + 1) = Value(b, i) * Radix + b[i + 1]
      BY <2>1, ValueSteps
    <2>3. b[i + 1] = 0 /\ Radix \in Nat
      BY <2>1, Radices
    <2> HIDE DEF S
    <2> QED
      BY <2>1, <2>2, <2>3
  <1> HIDE DEF S
  <1>4. z \in S
    BY <1>1, <1>2, <1>3, Induction
  <1> QED
    BY <1>1, <1>4 DEF S

\* The last bytes can be read off the number.
LEMMA SameFromTheEnd ==
    ASSUME NEW b, NEW c, NEW lb, NEW lc, Bytes(b, lb), Bytes(c, lc), lc <= lb,
           Value(b, lb) = Value(c, lc)
    PROVE  /\ \A j \in 0 .. lc : Value(b, lb - j) = Value(c, lc - j)
           /\ \A j \in 0 .. lc - 1 : b[lb - j] = c[lc - j]
  <1> DEFINE S == {j \in Nat : j <= lc => Value(b, lb - j) = Value(c, lc - j)}
  <1>1. lb \in Nat /\ lc \in Nat /\ Radix \in Nat \ {0}
    BY Radices DEF Bytes
  <1>2. ASSUME NEW j \in 0 .. lc - 1, Value(b, lb - j) = Value(c, lc - j)
        PROVE  Value(b, lb - (j + 1)) = Value(c, lc - (j + 1)) /\ b[lb - j] = c[lc - j]
    <2>1. /\ lb - (j + 1) \in 0 .. lb - 1 /\ lc - (j + 1) \in 0 .. lc - 1
          /\ lb - (j + 1) \in 0 .. lb /\ lc - (j + 1) \in 0 .. lc
          /\ (lb - (j + 1)) + 1 = lb - j /\ (lc - (j + 1)) + 1 = lc - j
          /\ lb - j \in 1 .. lb /\ lc - j \in 1 .. lc
      BY <1>1
    <2>2. PICK u, v, d, e : /\ u = Value(b, lb - (j + 1)) /\ v = Value(c, lc - (j + 1))
                            /\ d = b[lb - j] /\ e = c[lc - j]
      OBVIOUS
    <2>3. u \in Nat /\ d \in 0 .. Radix - 1 /\ Value(b, lb - j) = u * Radix + d
      BY <2>1, <2>2, ValueSteps DEF Bytes
    <2>4. v \in Nat /\ e \in 0 .. Radix - 1 /\ Value(c, lc - j) = v * Radix + e
      BY <2>1, <2>2, ValueSteps DEF Bytes
    <2>5. u * Radix = Radix * u /\ v * Radix = Radix * v
      BY <1>1, <2>3, <2>4
    <2>6. Radix * u + d = Radix * v + e
      BY <1>2, <2>3, <2>4, <2>5
    <2>7. (Radix * u + d) \div Radix = u /\ (Radix * u + d) % Radix = d
      BY <1>1, <2>3, DivUnique
    <2>8. (Radix * v + e) \div Radix = v /\ (Radix * v + e) % Radix = e
      BY <1>1, <2>4, DivUnique
    <2> QED
      BY <2>2, <2>6, <2>7, <2>8
  <1>3. 0 \in S
    <2>1. lb - 0 = lb /\ lc - 0 = lc
      BY <1>1
    <2> QED
      BY <2>1
  <1>4. ASSUME NEW j \in Nat, j \in S PROVE j + 1 \in S
    <2> SUFFICES ASSUME j + 1 <= lc PROVE Value(b, lb - (j + 1)) = Value(c, lc - (j + 1))
      OBVIOUS
    <2>1. j \in 0 .. lc - 1 /\ Value(b, lb - j) = Value(c, lc - j)
      BY <1>1, <1>4
    <2> HIDE DEF S
    <2> QED
      BY <1>2, <2>1
  <1> HIDE DEF S
  <1>5. \A j \in Nat : j \in S
    BY <1>3, <1>4, Induction
  <1>6. \A j \in 0 .. lc : Value(b, lb - j) = Value(c, lc - j)
    BY <1>5 DEF S
  <1>7. \A j \in 0 .. lc - 1 : b[lb - j] = c[lc - j]
    <2> TAKE j \in 0 .. lc - 1
    <2>1. j \in 0 .. lc
      BY <1>1
    <2> QED
      BY <1>2, <1>6, <2>1
  <1> QED
    BY <1>6, <1>7

LEMMA ZerosOfValue ==
    ASSUME NEW b, NEW k, Bytes(b, k), Value(b, k) = 0
    PROVE  \A i \in 1 .. k : b[i] = 0
  <1> DEFINE S == {i \in Nat : i <= k /\ Value(b, i) = 0 => \A j \in 1 .. i : b[j] = 0}
  <1>1. k \in Nat /\ Radix \in Nat \ {0}
    BY Radices DEF Bytes
  <1>2. 0 \in S
    OBVIOUS
  <1>3. ASSUME NEW i \in Nat, i \in S PROVE i + 1 \in S
    <2> SUFFICES ASSUME i + 1 <= k, Value(b, i + 1) = 0, NEW j \in 1 .. i + 1 PROVE b[j] = 0
      OBVIOUS
    <2>1. i \in 0 .. k - 1 /\ i \in 0 .. k /\ i + 1 \in 1 .. k
      BY <1>1
    <2>2. Value(b, i) * Radix + b[i + 1] = 0 /\ Value(b, i) \in Nat /\ b[i + 1] \in Nat
      BY <1>1, <2>1, ValueSteps DEF Bytes
    <2> DEFINE v == Value(b, i)
    <2>3. v * Radix \in Nat /\ v * Radix >= v
      <3> HIDE DEF v
      <3>1. v \in Nat
        BY <2>2 DEF v
      <3>2. v * 1 <= v * Radix
        BY <1>1, <3>1
      <3> QED
        BY <1>1, <3>1, <3>2
    <2>4. v = 0 /\ b[i + 1] = 0
      <3> DEFINE z == v * Radix
      <3>1. z \in Nat /\ z >= v /\ z + b[i + 1] = 0 /\ v \in Nat /\ b[i + 1] \in Nat
        BY <2>2, <2>3
      <3> HIDE DEF z, v
      <3> QED
        BY <3>1
    <2>5. \A l \in 1 .. i : b[l] = 0
      BY <1>1, <1>3, <2>1, <2>4
    <2> HIDE DEF S, v
    <2> QED
      BY <2>4, <2>5
  <1> HIDE DEF S
  <1>4. \A i \in Nat : i \in S
    BY <1>2, <1>3, Induction
  <1> QED
    BY <1>1, <1>4 DEF S

LEMMA LeastOf ==
    ASSUME NEW S \in SUBSET Nat, S # {}
    PROVE  Min(S) \in S /\ \A i \in S : Min(S) <= i
  <1>1. \E x \in S : \A y \in S : ~ (<<y, x>> \in OpToRel(<, Nat))
    BY NatLessThanWellFounded, WFMin
  <1>2. PICK x \in S : \A y \in S : ~ (y < x)
    BY <1>1 DEF OpToRel
  <1>3. \E i \in S : \A y \in S : i <= y
    BY <1>2
  <1> QED
    BY <1>3 DEF Min

-----------------------------------------------------------------------------
(* Integers of DER.                                                        *)

\* The bytes are the least that say the number v and are not negative.
Canonical(b, v) ==
    /\ b \in Seq(Octets) /\ Len(b) \in 1 .. DerBytes + 1
    /\ b[1] < DerHigh
    /\ Len(b) > 1 /\ b[1] = 0 => b[2] >= DerHigh
    /\ Value(b, Len(b)) = v

LEMMA ByteString ==
    ASSUME NEW b \in Seq(Octets)
    PROVE  Len(b) \in Nat /\ Bytes(b, Len(b))
  <1>1. Len(b) \in Nat
    BY LenProperties
  <1>2. ASSUME NEW i \in 1 .. Len(b) PROVE b[i] \in 0 .. Radix - 1
    BY ElementOfSeq DEF Octets
  <1> QED
    BY <1>1, <1>2 DEF Bytes

\* There is but one way to say a number.
LEMMA CanonicalIsNoLonger ==
    ASSUME NEW b, NEW c, NEW v, Canonical(b, v), Canonical(c, v), Len(c) <= Len(b)
    PROVE  b = c
  <1>0. PICK lb, lc : lb = Len(b) /\ lc = Len(c)
    OBVIOUS
  <1>1. /\ b \in Seq(Octets) /\ lb \in 1 .. DerBytes + 1
        /\ c \in Seq(Octets) /\ lc \in 1 .. DerBytes + 1
        /\ lb \in Nat /\ lc \in Nat /\ Bytes(b, lb) /\ Bytes(c, lc)
        /\ Value(b, lb) = v /\ Value(c, lc) = v /\ lc <= lb
    <2>1. /\ b \in Seq(Octets) /\ lb \in 1 .. DerBytes + 1
          /\ c \in Seq(Octets) /\ lc \in 1 .. DerBytes + 1
          /\ Value(b, lb) = v /\ Value(c, lc) = v
      BY <1>0 DEF Canonical
    <2>2. lb \in Nat /\ Bytes(b, lb)
      BY <1>0, <2>1, ByteString
    <2>3. lc \in Nat /\ Bytes(c, lc)
      BY <1>0, <2>1, ByteString
    <2> QED
      BY <1>0, <2>1, <2>2, <2>3
  <1>2. /\ b[1] < DerHigh /\ (lb > 1 /\ b[1] = 0 => b[2] >= DerHigh)
        /\ c[1] < DerHigh
        /\ DerHigh \in Nat \ {0} /\ Radix \in Nat
    BY <1>0, Radices DEF Canonical
  <1>a. /\ \A j \in 0 .. lc : Value(b, lb - j) = Value(c, lc - j)
        /\ \A j \in 0 .. lc - 1 : b[lb - j] = c[lc - j]
    <2>1. Bytes(b, lb) /\ Bytes(c, lc) /\ lc <= lb /\ Value(b, lb) = Value(c, lc)
      BY <1>1
    <2> QED
      BY <2>1, SameFromTheEnd
  <1>3. \A j \in 0 .. lc - 1 : b[lb - j] = c[lc - j]
    BY <1>a
  <1>4. Value(b, lb - lc) = 0
    <2>1. lc \in 0 .. lc /\ lc - lc = 0
      BY <1>1
    <2>2. Value(b, lb - lc) = Value(c, 0)
      BY <1>a, <2>1
    <2>3. Bytes(c, lc)
      BY <1>1
    <2> QED
      BY <2>2, <2>3, ValueSteps
  <1>5. \A i \in 1 .. lb - lc : b[i] = 0
    <2>1. lb - lc \in Nat /\ lb - lc <= lb
      BY <1>1
    <2>2. Bytes(b, lb - lc)
      BY <1>1, <2>1 DEF Bytes
    <2> QED
      BY <1>4, <2>2, ZerosOfValue
  <1>6. lb = lc
    <2> SUFFICES ASSUME lb # lc PROVE FALSE
      OBVIOUS
    <2>1. lb - lc \in Nat \ {0} /\ lb > 1 /\ 1 \in 1 .. lb - lc
      BY <1>1
    <2>2. b[1] = 0 /\ b[2] >= DerHigh
      BY <1>2, <1>5, <2>1
    <2>3. CASE lb - lc = 1
      <3>1. lc - 1 \in 0 .. lc - 1 /\ lb - (lc - 1) = 2 /\ lc - (lc - 1) = 1
        BY <1>1, <2>3
      <3>2. b[2] = c[1]
        BY <1>3, <3>1
      <3>3. c[1] \in 0 .. Radix - 1
        BY <1>1 DEF Bytes
      <3> QED
        BY <1>2, <2>2, <3>2, <3>3
    <2>4. CASE lb - lc # 1
      <3>1. 2 \in 1 .. lb - lc
        BY <1>1, <2>1, <2>4
      <3> QED
        BY <1>2, <1>5, <2>2, <3>1
    <2> QED
      BY <2>3, <2>4
  <1>7. ASSUME NEW i \in 1 .. lb PROVE b[i] = c[i]
    <2>1. lb - i \in 0 .. lc - 1 /\ lb - (lb - i) = i /\ lc - (lb - i) = i
      BY <1>1, <1>6
    <2> QED
      BY <1>3, <2>1
  <1>8. Len(b) = Len(c) /\ \A i \in 1 .. Len(b) : b[i] = c[i]
    BY <1>0, <1>6, <1>7
  <1>9. b \in Seq(Octets) /\ c \in Seq(Octets)
    BY <1>1
  <1> QED
    BY <1>8, <1>9, SeqEqual

LEMMA CanonicalIsUnique ==
    ASSUME NEW b, NEW c, NEW v, Canonical(b, v), Canonical(c, v)
    PROVE  b = c
  <1>1. Len(b) \in Nat /\ Len(c) \in Nat
    BY DEF Canonical
  <1>2. Len(b) <= Len(c) \/ Len(c) <= Len(b)
    BY <1>1
  <1> QED
    BY <1>2, CanonicalIsNoLonger

\* The bits of a scalar that are below its first k bytes.
Below(k) == (DerBytes - k) * DerBits

LEMMA BitsBelow ==
    /\ Below(0) = DerBits * DerBytes /\ Below(DerBytes) = 0
    /\ \A k \in 0 .. DerBytes : Below(k) \in 0 .. Top /\ Below(k) = DerBits * (DerBytes - k)
    /\ \A k \in 0 .. DerBytes - 1 : Below(k) = Below(k + 1) + DerBits
  <1>1. /\ DerBits \in Nat \ {0} /\ DerBytes \in Nat \ {0} /\ DerBits * DerBytes \in 0 .. Top
        /\ DerBytes * DerBits = DerBits * DerBytes
    BY Radices, Scalars
  <1>2. ASSUME NEW k \in 0 .. DerBytes
        PROVE  Below(k) \in 0 .. Top /\ Below(k) = DerBits * (DerBytes - k)
    <2>1. DerBytes - k \in Nat /\ DerBytes - k <= DerBytes
      BY <1>1
    <2>2. (DerBytes - k) * DerBits <= DerBytes * DerBits
      BY <1>1, <2>1, TimesMonotone
    <2>3. (DerBytes - k) * DerBits \in Nat
      BY <1>1, <2>1, TimesNat
    <2>4. DerBits * (DerBytes - k) = (DerBytes - k) * DerBits
      BY <1>1, <2>1, Times
    <2>5. Below(k) \in 0 .. Top
      <3>1. PICK y, z : y = DerBytes * DerBits /\ z = (DerBytes - k) * DerBits
        OBVIOUS
      <3>2. y \in 0 .. Top /\ z \in Nat /\ z <= y
        BY <1>1, <2>2, <2>3, <3>1
      <3> QED
        BY <3>1, <3>2, Powers DEF Below
    <2> QED
      BY <2>4, <2>5 DEF Below
  <1>3. ASSUME NEW k \in 0 .. DerBytes - 1 PROVE Below(k) = Below(k + 1) + DerBits
    <2>1. DerBytes - k = (DerBytes - (k + 1)) + 1 /\ DerBytes - (k + 1) \in Int
      BY <1>1
    <2>2. ((DerBytes - (k + 1)) + 1) * DerBits = (DerBytes - (k + 1)) * DerBits + 1 * DerBits
      BY <1>1, <2>1, Times
    <2>3. 1 * DerBits = DerBits
      BY <1>1
    <2> QED
      BY <2>1, <2>2, <2>3 DEF Below
  <1>4. Below(0) = DerBits * DerBytes
    <2>1. DerBytes - 0 = DerBytes
      BY <1>1
    <2> QED
      BY <1>1, <2>1 DEF Below
  <1>5. Below(DerBytes) = 0
    <2>1. DerBytes - DerBytes = 0 /\ 0 * DerBits = 0
      BY <1>1
    <2> QED
      BY <2>1 DEF Below
  <1> QED
    BY <1>2, <1>3, <1>4, <1>5

\* The bytes of a scalar say it.
LEMMA BytesOfScalar ==
    ASSUME NEW x \in 0 .. n - 1
    PROVE  /\ DerBytesOf(x) \in Seq(Octets) /\ Len(DerBytesOf(x)) = DerBytes
           /\ Bytes(DerBytesOf(x), DerBytes)
           /\ Value(DerBytesOf(x), DerBytes) = x
  <1> DEFINE B == DerBytesOf(x)
             e(i) == (x \div 2^(DerBits * (DerBytes - i))) % 2^DerBits
             S == {k \in Nat : k <= DerBytes => Value(B, k) = x \div 2^Below(k)}
  <1>1. x \in Nat /\ DerBits \in Nat /\ DerBytes \in Nat /\ Radix \in Nat
    BY Radices, Scalars
  <1>2. ASSUME NEW k \in 0 .. DerBytes - 1
        PROVE  /\ e(k + 1) \in Octets
               /\ x \div 2^Below(k + 1) = (x \div 2^Below(k)) * Radix + e(k + 1)
    <2>1. k + 1 \in 0 .. DerBytes /\ k \in 0 .. DerBytes
      BY <1>1
    <2>2. /\ Below(k + 1) \in Nat /\ Below(k) = Below(k + 1) + DerBits /\ Below(k) <= Top
          /\ Below(k + 1) = DerBits * (DerBytes - (k + 1))
      BY <2>1, BitsBelow
    <2>3. PICK d : d = Below(k + 1)
      OBVIOUS
    <2>4. d \in Nat /\ d + DerBits <= Top
      BY <2>2, <2>3, Powers
    <2>5. /\ GetBits(x, d, DerBits) \in 0 .. 2^DerBits - 1
          /\ x \div 2^(d + DerBits) \in Nat
          /\ x \div 2^d = 2^DerBits * (x \div 2^(d + DerBits)) + GetBits(x, d, DerBits)
      BY <1>1, <2>4, BitsTaken
    <2>6. GetBits(x, d, DerBits) = e(k + 1)
      BY <2>2, <2>3 DEF GetBits
    <2>7. 2^DerBits * (x \div 2^(d + DerBits)) = (x \div 2^(d + DerBits)) * Radix
      BY <1>1, <2>5, Times DEF Radix
    <2> QED
      BY <2>2, <2>3, <2>5, <2>6, <2>7 DEF Octets, Radix
  <1>3. ASSUME NEW i \in 1 .. DerBytes PROVE e(i) \in Octets
    <2>1. i - 1 \in 0 .. DerBytes - 1 /\ (i - 1) + 1 = i
      BY <1>1
    <2> HIDE DEF e
    <2> QED
      BY <1>2, <2>1
  <1>4. B = [i \in 1 .. DerBytes |-> e(i)]
    BY DEF DerBytesOf
  <1> HIDE DEF e, B
  <1>5. B \in Seq(Octets) /\ Len(B) = DerBytes
    <2>1. B \in [1 .. DerBytes -> Octets]
      BY <1>3, <1>4
    <2> QED
      BY <1>1, <2>1
  <1>6. Bytes(B, DerBytes)
    BY <1>5, ByteString
  <1>7. 0 \in S
    <2>1. 2^Below(0) \in Nat /\ x \div 2^Below(0) = 0
      <3>1. Below(0) \in 0 .. Top /\ Bits <= Below(0)
        BY BitsBelow, Radices, <1>1
      <3>2. x < 2^Bits /\ Bits \in Nat
        BY Scalars
      <3>3. Below(0) \in Nat /\ Below(0) <= Top
        BY <3>1, Powers
      <3> QED
        BY <1>1, <3>1, <3>2, <3>3, SmallQuotient, Powers
    <2> QED
      BY <1>6, <2>1, ValueSteps
  <1>8. ASSUME NEW k \in Nat, k \in S PROVE k + 1 \in S
    <2> SUFFICES ASSUME k + 1 <= DerBytes PROVE Value(B, k + 1) = x \div 2^Below(k + 1)
      OBVIOUS
    <2>1. Value(B, k) = x \div 2^Below(k) /\ k \in 0 .. DerBytes - 1 /\ k + 1 \in 1 .. DerBytes
      BY <1>1, <1>8
    <2>2. Value(B, k + 1) = Value(B, k) * Radix + B[k + 1]
      BY <1>6, <2>1, ValueSteps
    <2>3. B[k + 1] = e(k + 1)
      BY <1>4, <2>1
    <2> HIDE DEF S
    <2> QED
      BY <1>2, <2>1, <2>2, <2>3
  <1> HIDE DEF S
  <1>9. \A k \in Nat : k \in S
    BY <1>7, <1>8, Induction
  <1>10. Value(B, DerBytes) = x \div 2^Below(DerBytes)
    BY <1>1, <1>9 DEF S
  <1>11. x \div 2^Below(DerBytes) = x
    BY <1>1, BitsBelow, Powers
  <1> QED
    BY <1>5, <1>6, <1>10, <1>11 DEF B

\* Leading zeros may be dropped.
LEMMA WithoutZeros ==
    ASSUME NEW b \in Seq(Octets), NEW z \in 0 .. Len(b), \A i \in 1 .. z : b[i] = 0
    PROVE  /\ SubSeq(b, z + 1, Len(b)) \in Seq(Octets)
           /\ Len(SubSeq(b, z + 1, Len(b))) = Len(b) - z
           /\ \A i \in 1 .. Len(b) - z : SubSeq(b, z + 1, Len(b))[i] = b[z + i]
           /\ Value(SubSeq(b, z + 1, Len(b)), Len(b) - z) = Value(b, Len(b))
  <1>0. PICK m, c : m = Len(b) /\ c = SubSeq(b, z + 1, Len(b))
    OBVIOUS
  <1>1. m \in Nat /\ z \in 0 .. m /\ z \in Nat /\ m - z \in Nat /\ Bytes(b, m)
    BY <1>0, ByteString
  <1>2. \A i \in z + 1 .. m : b[i] \in Octets
    <2> TAKE i \in z + 1 .. m
    <2>1. i \in 1 .. Len(b)
      BY <1>0, <1>1
    <2> QED
      BY <2>1, ElementOfSeq
  <1>3. /\ c \in Seq(Octets) /\ Len(c) = IF z + 1 <= m THEN m - (z + 1) + 1 ELSE 0
        /\ \A i \in 1 .. m - (z + 1) + 1 : c[i] = b[(z + 1) + i - 1]
    <2>1. z + 1 \in Int /\ m \in Int
      BY <1>1
    <2> QED
      BY <1>0, <1>2, <2>1, SubSeqProperties
  <1>4. Len(c) = m - z
    BY <1>1, <1>3
  <1>5. ASSUME NEW i \in 1 .. m - z PROVE c[i] = b[z + i]
    <2>1. i \in 1 .. m - (z + 1) + 1 /\ (z + 1) + i - 1 = z + i
      BY <1>1
    <2> QED
      BY <1>3, <2>1
  <1>6. Value(b, m) = Value(c, m - z)
    <2>1. Value(b, z) = 0
      <3>1. Bytes(b, z)
        BY <1>1 DEF Bytes
      <3> QED
        BY <3>1, ValueOfZeros
    <2>2. Bytes(c, m - z)
      BY <1>3, <1>4, ByteString
    <2>3. Value(c, 0) = 0
      BY <2>2, ValueSteps
    <2> DEFINE k == m - z
    <2>4. /\ k \in Nat /\ z + k = m /\ 0 + k = k /\ 0 \in Nat
          /\ Bytes(b, z + k) /\ Bytes(c, 0 + k) /\ Value(b, z) = Value(c, 0)
      BY <1>1, <2>1, <2>2, <2>3
    <2>5. \A i \in 1 .. k : b[z + i] = c[0 + i]
      BY <1>1, <1>5
    <2> HIDE DEF k
    <2>6. Value(b, z + k) = Value(c, 0 + k)
      BY <1>1, <2>4, <2>5, ValuesGoOn
    <2> QED
      BY <2>4, <2>6 DEF k
  <1> QED
    BY <1>0, <1>3, <1>4, <1>5, <1>6

\* A byte of zero in front changes nothing.
LEMMA ZeroAhead ==
    ASSUME NEW b, NEW c, NEW k \in Nat, Bytes(b, 1 + k), Bytes(c, k), b[1] = 0,
           \A i \in 1 .. k : b[1 + i] = c[i]
    PROVE  Value(b, 1 + k) = Value(c, k)
  <1>1. PICK u, w : u = 1 /\ w = 0
    OBVIOUS
  <1>2. u \in Nat /\ w \in Nat /\ u + k = 1 + k /\ w + k = k
    BY <1>1
  <1>3. Bytes(b, u + k) /\ Bytes(c, w + k)
    BY <1>2
  <1>4. Value(b, u) = Value(c, w)
    <2>1. Bytes(b, u) /\ \A i \in 1 .. u : b[i] = 0
      BY <1>1 DEF Bytes
    <2>2. Value(b, u) = 0
      BY <2>1, ValueOfZeros
    <2>3. Value(c, 0) = 0
      BY ValueSteps
    <2> QED
      BY <1>1, <2>2, <2>3
  <1>5. ASSUME NEW i \in 1 .. k PROVE b[u + i] = c[w + i]
    <2>1. u + i = 1 + i /\ w + i = i
      BY <1>1
    <2> QED
      BY <2>1
  <1>6. Value(b, u + k) = Value(c, w + k)
    BY <1>2, <1>3, <1>4, <1>5, ValuesGoOn
  <1> QED
    BY <1>2, <1>6

\* What two strings of bytes are together.
LEMMA Joined ==
    ASSUME NEW x \in Seq(Octets), NEW y \in Seq(Octets), NEW lx, NEW ly,
           lx = Len(x), ly = Len(y)
    PROVE  /\ x \o y \in Seq(Octets) /\ Len(x \o y) = lx + ly
           /\ \A i \in 1 .. lx : (x \o y)[i] = x[i]
           /\ \A i \in 1 .. ly : (x \o y)[lx + i] = y[i]
  <1>1. lx \in Nat /\ ly \in Nat
    BY LenProperties
  <1>2. PICK z : z = x \o y
    OBVIOUS
  <1>3. /\ z \in Seq(Octets) /\ Len(z) = lx + ly
        /\ \A i \in 1 .. lx + ly : z[i] = IF i <= lx THEN x[i] ELSE y[i - lx]
    BY <1>2, ConcatProperties
  <1>4. \A i \in 1 .. lx : z[i] = x[i]
    BY <1>1, <1>3
  <1>5. ASSUME NEW i \in 1 .. ly PROVE z[lx + i] = y[i]
    <2>1. lx + i \in 1 .. lx + ly /\ ~ (lx + i <= lx) /\ (lx + i) - lx = i
      BY <1>1
    <2> QED
      BY <1>3, <2>1
  <1> QED
    BY <1>2, <1>3, <1>4, <1>5

\* A scalar after a byte of zero, as it is before its leading bytes are dropped.
Widened(x) == <<0>> \o DerBytesOf(x)

LEMMA PaddedScalar ==
    ASSUME NEW x \in 0 .. n - 1, NEW b, b = Widened(x)
    PROVE  /\ b \in Seq(Octets) /\ Len(b) = DerBytes + 1 /\ b[1] = 0
           /\ Value(b, DerBytes + 1) = x
  <1>0. PICK c : c = DerBytesOf(x)
    OBVIOUS
  <1>1. c \in Seq(Octets) /\ Len(c) = DerBytes /\ Bytes(c, DerBytes) /\ Value(c, DerBytes) = x
    BY <1>0, BytesOfScalar
  <1>2. DerBytes \in Nat /\ 0 \in Octets
    BY Radices DEF Octets
  <1>3. <<0>> \in Seq(Octets) /\ Len(<<0>>) = 1 /\ <<0>>[1] = 0
    BY <1>2
  <1>4. PICK s : s = <<0>>
    OBVIOUS
  <1>5. s \in Seq(Octets) /\ Len(s) = 1 /\ s[1] = 0
    BY <1>3, <1>4
  <1>6. PICK one : one = Len(s)
    OBVIOUS
  <1>a. /\ b \in Seq(Octets) /\ Len(b) = one + DerBytes
        /\ \A i \in 1 .. one : b[i] = s[i]
        /\ \A i \in 1 .. DerBytes : b[one + i] = c[i]
    <2>1. b = s \o c
      BY <1>0, <1>4 DEF Widened
    <2>2. s \in Seq(Octets) /\ c \in Seq(Octets) /\ one = Len(s) /\ DerBytes = Len(c)
      BY <1>1, <1>5, <1>6
    <2> QED
      BY <2>1, <2>2, Joined
  <1>7. one = 1 /\ Len(b) = DerBytes + 1 /\ Len(b) = 1 + DerBytes /\ b[1] = 0
    BY <1>2, <1>5, <1>6, <1>a
  <1>8. Bytes(b, 1 + DerBytes)
    BY <1>7, <1>a, ByteString
  <1>10. \A i \in 1 .. DerBytes : b[1 + i] = c[i]
    BY <1>7, <1>a
  <1>11. Value(b, 1 + DerBytes) = Value(c, DerBytes)
    BY <1>1, <1>2, <1>7, <1>8, <1>10, ZeroAhead
  <1>12. 1 + DerBytes = DerBytes + 1
    BY <1>2
  <1> QED
    BY <1>1, <1>7, <1>11, <1>12, <1>a

\* What is written of a scalar is the least that says it.
LEMMA IntegerIsCanonical ==
    ASSUME NEW x \in 0 .. n - 1
    PROVE  /\ Canonical(DerInteger(x), x)
           /\ Len(DerInteger(x)) = DerBytes + 1 => DerInteger(x)[1] = 0
  <1>0. PICK b : b = Widened(x)
    OBVIOUS
  <1>1. /\ b \in Seq(Octets) /\ Len(b) = DerBytes + 1 /\ b[1] = 0
        /\ Value(b, DerBytes + 1) = x
    BY <1>0, PaddedScalar
  <1>2. DerBytes \in Nat \ {0} /\ DerHigh \in Nat \ {0} /\ DerBytes + 1 \in Nat
    BY Radices
  <1> DEFINE S == {j \in 1 .. DerBytes + 1 : j = DerBytes + 1 \/ b[j] # 0 \/ b[j + 1] >= DerHigh}
             first == Min(S)
  <1>3. first \in S /\ \A j \in S : first <= j
    <2>1. S \in SUBSET Nat /\ DerBytes + 1 \in S
      BY <1>2
    <2> HIDE DEF S
    <2> QED
      BY <2>1, LeastOf
  <1>4. DerInteger(x) = SubSeq(b, first, DerBytes + 1)
    BY <1>0 DEF DerInteger, Widened
  <1> HIDE DEF first
  <1>5. /\ first \in 1 .. DerBytes + 1
        /\ (first = DerBytes + 1 \/ b[first] # 0 \/ b[first + 1] >= DerHigh)
    BY <1>3
  <1>6. ASSUME NEW j \in 1 .. first - 1 PROVE b[j] = 0 /\ ~ (b[j + 1] >= DerHigh)
    <2>1. j \in 1 .. DerBytes + 1 /\ ~ (first <= j) /\ j # DerBytes + 1
      BY <1>2, <1>5
    <2> QED
      BY <1>3, <2>1
  <1> HIDE DEF S
  <1>7. PICK z : z = first - 1
    OBVIOUS
  <1>8. z \in 0 .. Len(b) /\ z \in 0 .. DerBytes /\ z + 1 = first
    BY <1>1, <1>2, <1>5, <1>7
  <1>9. PICK c : c = DerInteger(x)
    OBVIOUS
  <1>10. c = SubSeq(b, z + 1, Len(b))
    BY <1>1, <1>4, <1>8, <1>9
  <1>11. \A i \in 1 .. z : b[i] = 0
    BY <1>6, <1>7
  <1>12. /\ c \in Seq(Octets) /\ Len(c) = Len(b) - z
         /\ \A i \in 1 .. Len(b) - z : c[i] = b[z + i]
         /\ Value(c, Len(b) - z) = Value(b, Len(b))
    BY <1>1, <1>8, <1>10, <1>11, WithoutZeros
  <1>13. Len(c) \in 1 .. DerBytes + 1 /\ Len(c) = DerBytes + 1 - z
    BY <1>1, <1>2, <1>8, <1>12
  <1>14. Value(c, Len(c)) = x
    BY <1>1, <1>12
  <1>15. c[1] = b[first]
    BY <1>1, <1>2, <1>8, <1>12
  <1>16. c[1] < DerHigh /\ (Len(c) = DerBytes + 1 => c[1] = 0)
    <2>1. CASE z = 0
      <3>1. first = 1
        BY <1>8, <2>1
      <3> QED
        BY <1>1, <1>2, <1>15, <3>1
    <2>2. CASE z # 0
      <3>1. z \in 1 .. first - 1
        BY <1>2, <1>5, <1>8, <2>2
      <3>2. ~ (b[first] >= DerHigh)
        BY <1>6, <1>8, <3>1
      <3>3. b[first] \in Octets
        BY <1>1, <1>5, ElementOfSeq
      <3>4. b[first] \in Nat
        BY <3>3, Radices DEF Octets
      <3>5. Len(c) # DerBytes + 1
        BY <1>2, <1>8, <1>13, <2>2
      <3> QED
        BY <1>2, <1>15, <3>2, <3>4, <3>5
    <2> QED
      BY <2>1, <2>2
  <1>17. Len(c) > 1 /\ c[1] = 0 => c[2] >= DerHigh
    <2> SUFFICES ASSUME Len(c) > 1, c[1] = 0 PROVE c[2] >= DerHigh
      OBVIOUS
    <2>1. first # DerBytes + 1 /\ 2 \in 1 .. Len(b) - z /\ z + 2 = first + 1
      BY <1>1, <1>2, <1>8, <1>13
    <2>2. c[2] = b[first + 1]
      BY <1>12, <2>1
    <2>3. b[first] = 0
      BY <1>15
    <2> QED
      BY <1>5, <2>1, <2>2, <2>3
  <1> QED
    BY <1>9, <1>12, <1>13, <1>14, <1>16, <1>17 DEF Canonical

LEMMA Stripped ==
    ASSUME NEW b \in Seq(Octets)
    PROVE  \E z \in 0 .. Len(b) :
              /\ \A i \in 1 .. z : b[i] = 0
              /\ z < Len(b) => b[z + 1] # 0
              /\ Significant(b) \in Seq(Octets) /\ Len(Significant(b)) = Len(b) - z
              /\ DerNumber(Significant(b)) = Value(b, Len(b))
  <1>1. Len(b) \in Nat /\ DOMAIN b = 1 .. Len(b)
    BY LenProperties
  <1> DEFINE T == {j \in DOMAIN b : b[j] # 0} \cup {Len(b) + 1}
             first == Min(T)
             z == first - 1
  <1>2. first \in T /\ \A j \in T : first <= j
    <2>1. T \in SUBSET Nat /\ T # {}
      BY <1>1
    <2> HIDE DEF T
    <2> QED
      BY <2>1, LeastOf
  <1>3. Significant(b) = SubSeq(b, first, Len(b))
    BY DEF Significant
  <1> HIDE DEF first
  <1>4. first \in 1 .. Len(b) + 1 /\ (first # Len(b) + 1 => b[first] # 0)
    BY <1>1, <1>2
  <1>5. \A j \in 1 .. Len(b) : ~ (first <= j) => b[j] = 0
    BY <1>1, <1>2
  <1> HIDE DEF T
  <1>6. z \in 0 .. Len(b) /\ z + 1 = first
    BY <1>1, <1>4
  <1>7. ASSUME NEW i \in 1 .. z PROVE b[i] = 0
    BY <1>1, <1>4, <1>5
  <1>8. z < Len(b) => b[z + 1] # 0
    BY <1>1, <1>4, <1>6
  <1> HIDE DEF z
  <1>9. \A i \in 1 .. z : b[i] = 0
    BY <1>7
  <1>10. /\ Significant(b) \in Seq(Octets) /\ Len(Significant(b)) = Len(b) - z
         /\ Value(Significant(b), Len(b) - z) = Value(b, Len(b))
    BY <1>3, <1>6, <1>9, WithoutZeros
  <1>11. DerNumber(Significant(b)) = Value(b, Len(b))
    BY <1>10, DerNumberIsValue
  <1> QED
    BY <1>6, <1>8, <1>9, <1>10, <1>11

\* A scalar is read from what is written of it.
LEMMA IntegerIsRead ==
    ASSUME NEW x \in 0 .. n - 1, NEW at
    PROVE  DerInteger1(DerInteger(x), at) = [ok |-> TRUE, v |-> x, at |-> at]
  <1>0. PICK b : b = DerInteger(x)
    OBVIOUS
  <1>1. /\ b \in Seq(Octets) /\ Len(b) \in 1 .. DerBytes + 1
        /\ b[1] < DerHigh
        /\ (Len(b) > 1 /\ b[1] = 0 => b[2] >= DerHigh)
        /\ Value(b, Len(b)) = x
        /\ (Len(b) = DerBytes + 1 => b[1] = 0)
    BY <1>0, IntegerIsCanonical DEF Canonical
  <1>2. DerBytes \in Nat \ {0} /\ DerHigh \in Nat \ {0} /\ DerAll = 2 * DerHigh - 1
    BY Radices
  <1>3. b[1] \in Nat /\ (Len(b) > 1 => b[2] \in Nat)
    <2>1. 1 \in 1 .. Len(b) /\ (Len(b) > 1 => 2 \in 1 .. Len(b))
      BY <1>1, <1>2
    <2> QED
      BY <1>1, <2>1, ElementOfSeq, Radices DEF Octets
  <1>4. ~ (b[1] >= DerHigh) /\ b[1] # DerAll
    BY <1>1, <1>2, <1>3
  <1>5. ~ /\ Len(b) > 1
          /\ \/ b[1] = 0 /\ b[2] < DerHigh
             \/ b[1] = DerAll /\ b[2] >= DerHigh
    BY <1>1, <1>2, <1>3, <1>4
  <1>6. PICK z \in 0 .. Len(b) :
              /\ \A i \in 1 .. z : b[i] = 0
              /\ z < Len(b) => b[z + 1] # 0
              /\ Significant(b) \in Seq(Octets) /\ Len(Significant(b)) = Len(b) - z
              /\ DerNumber(Significant(b)) = Value(b, Len(b))
    BY <1>1, Stripped
  <1>7. Len(Significant(b)) <= DerBytes
    <2>1. CASE z = 0
      <3>1. b[1] # 0
        BY <1>1, <1>2, <1>6, <2>1
      <3> QED
        BY <1>1, <1>2, <1>6, <2>1, <3>1
    <2>2. CASE z # 0
      BY <1>1, <1>2, <1>6, <2>2
    <2> QED
      BY <2>1, <2>2
  <1>8. DerValue(FALSE, Significant(b)) = x
    <2>1. ~ (Len(Significant(b)) > DerBytes) /\ ~ (x >= n)
      BY <1>1, <1>2, <1>6, <1>7, Scalars
    <2> QED
      BY <1>1, <1>6, <2>1 DEF DerValue
  <1>9. (b[1] >= DerHigh) = FALSE
    BY <1>4
  <1>10. DerInteger1(b, at) = [ok |-> TRUE, v |-> DerValue(b[1] >= DerHigh, Significant(b)), at |-> at]
    BY <1>5 DEF DerInteger1
  <1> QED
    BY <1>0, <1>8, <1>9, <1>10

\* What is read as a scalar is what is written of it.
LEMMA OnlyIntegersAreRead ==
    ASSUME NEW b \in Seq(Octets), Len(b) > 0, NEW at,
           DerInteger1(b, at).ok, DerInteger1(b, at).v # 0
    PROVE  /\ DerInteger1(b, at).v \in 1 .. n - 1 /\ DerInteger1(b, at).at = at
           /\ b = DerInteger(DerInteger1(b, at).v)
  <1>1. /\ DerBytes \in Nat \ {0} /\ DerHigh \in Nat \ {0} /\ Len(b) \in Nat /\ n \in Nat
        /\ Bytes(b, Len(b))
    BY Radices, ByteString, Scalars
  <1>2. ~ /\ Len(b) > 1
          /\ \/ b[1] = 0 /\ b[2] < DerHigh
             \/ b[1] = DerAll /\ b[2] >= DerHigh
    <2> SUFFICES ASSUME /\ Len(b) > 1
                        /\ \/ b[1] = 0 /\ b[2] < DerHigh
                           \/ b[1] = DerAll /\ b[2] >= DerHigh
                 PROVE  DerInteger1(b, at).ok = FALSE
      OBVIOUS
    <2>1. DerInteger1(b, at) = [ok |-> FALSE]
      BY DEF DerInteger1
    <2> QED
      BY <2>1
  <1> DEFINE v == DerValue(b[1] >= DerHigh, Significant(b))
  <1>3. DerInteger1(b, at) = [ok |-> TRUE, v |-> v, at |-> at]
    BY <1>2 DEF DerInteger1
  <1>4. DerInteger1(b, at).v = v /\ DerInteger1(b, at).at = at
    BY <1>3
  <1>5. PICK z \in 0 .. Len(b) :
              /\ \A i \in 1 .. z : b[i] = 0
              /\ z < Len(b) => b[z + 1] # 0
              /\ Significant(b) \in Seq(Octets) /\ Len(Significant(b)) = Len(b) - z
              /\ DerNumber(Significant(b)) = Value(b, Len(b))
    BY Stripped
  <1>6. /\ ~ (b[1] >= DerHigh) /\ ~ (Len(Significant(b)) > DerBytes)
        /\ ~ (DerNumber(Significant(b)) >= n) /\ v = DerNumber(Significant(b))
    <2>1. v # 0
      BY <1>4
    <2> QED
      BY <2>1 DEF DerValue
  <1> HIDE DEF v
  <1>7. v = Value(b, Len(b)) /\ v \in 1 .. n - 1
    <2>1. v = Value(b, Len(b)) /\ v # 0
      BY <1>4, <1>5, <1>6
    <2>2. Value(b, Len(b)) \in Nat
      <3>1. Len(b) \in 0 .. Len(b)
        BY <1>1
      <3> QED
        BY <1>1, <3>1, ValueSteps
    <2> QED
      BY <1>1, <1>5, <1>6, <2>1, <2>2
  <1>8. b[1] \in Nat /\ (Len(b) > 1 => b[2] \in Nat)
    <2>1. 1 \in 1 .. Len(b) /\ (Len(b) > 1 => 2 \in 1 .. Len(b))
      BY <1>1
    <2> QED
      BY <2>1, ElementOfSeq, Radices DEF Octets
  <1>9. b[1] < DerHigh
    BY <1>1, <1>6, <1>8
  <1>10. Len(b) > 1 /\ b[1] = 0 => b[2] >= DerHigh
    BY <1>1, <1>2, <1>8
  <1>11. Len(b) \in 1 .. DerBytes + 1
    <2>1. z <= 1
      <3> SUFFICES ASSUME z > 1 PROVE FALSE
        BY <1>1
      <3>1. b[1] = 0 /\ b[2] = 0 /\ Len(b) > 1
        BY <1>1, <1>5
      <3> QED
        BY <1>1, <1>10, <3>1
    <2> QED
      BY <1>1, <1>5, <1>6, <2>1
  <1>12. Canonical(b, v)
    BY <1>7, <1>9, <1>10, <1>11 DEF Canonical
  <1>13. Canonical(DerInteger(v), v)
    <2>1. v \in 0 .. n - 1
      BY <1>1, <1>7
    <2> QED
      BY <2>1, IntegerIsCanonical
  <1>14. b = DerInteger(v)
    BY <1>12, <1>13, CanonicalIsUnique
  <1> QED
    BY <1>4, <1>7, <1>14

-----------------------------------------------------------------------------
(* Signatures of DER.                                                      *)

\* The bytes from i on are those of a scalar with its tag and its length.
Placed(b, i, x) ==
    /\ i \in Nat \ {0} /\ i + 1 + Len(DerInteger(x)) <= Len(b)
    /\ b[i] = IntegerTag /\ b[i + 1] = Len(DerInteger(x))
    /\ \A k \in 1 .. Len(DerInteger(x)) : b[i + 1 + k] = DerInteger(x)[k]

LEMMA IntegerFits ==
    ASSUME NEW x \in 0 .. n - 1
    PROVE  /\ DerInteger(x) \in Seq(Octets)
           /\ Len(DerInteger(x)) \in 1 .. DerBytes + 1
           /\ Len(DerInteger(x)) \in Nat /\ Len(DerInteger(x)) < DerHigh
  <1>1. DerInteger(x) \in Seq(Octets) /\ Len(DerInteger(x)) \in 1 .. DerBytes + 1
    BY IntegerIsCanonical DEF Canonical
  <1>2. DerBytes \in Nat /\ DerHigh \in Nat /\ 6 + 2 * DerBytes < DerHigh
    BY Radices
  <1> QED
    BY <1>1, <1>2

LEMMA ShortLength ==
    ASSUME NEW b, NEW i \in Nat, i <= Len(b), Len(b) \in Nat, b[i] \in Nat, b[i] < DerHigh
    PROVE  DerReadLen(b, i) = [len |-> b[i], at |-> i + 1]
  <1>1. DerHigh \in Nat \ {0} /\ DerAll = 2 * DerHigh - 1
    BY Radices
  <1>2. ~ (i > Len(b)) /\ b[i] \notin {DerAll, DerHigh} /\ b[i] < DerHigh
    BY <1>1
  <1> QED
    BY <1>2 DEF DerReadLen

\* A length below the mark is the byte itself.
LEMMA LengthRead ==
    ASSUME NEW b \in Seq(Octets), NEW i \in Nat \ {0}, DerReadLen(b, i).len # -1
    PROVE  /\ DerReadLen(b, i).len \in Nat /\ DerReadLen(b, i).at \in Nat \ {0}
           /\ i <= Len(b)
           /\ DerReadLen(b, i).len < DerHigh =>
                  /\ DerReadLen(b, i).len = b[i] /\ DerReadLen(b, i).at = i + 1
  <1> DEFINE left == b[i] - DerHigh
             long == DerNumber(SubSeq(b, i + 1, i + left))
             none == [len |-> -1, at |-> i]
  <1>0. Len(b) \in Nat /\ DerHigh \in Nat
    BY LenProperties, Radices
  <1>1. i <= Len(b) /\ b[i] \notin {DerAll, DerHigh}
    <2> SUFFICES ASSUME ~ (i <= Len(b)) \/ b[i] \in {DerAll, DerHigh} PROVE FALSE
      OBVIOUS
    <2>1. i > Len(b) \/ b[i] \in {DerAll, DerHigh}
      BY <1>0
    <2>2. DerReadLen(b, i) = none
      BY <2>1 DEF DerReadLen
    <2>3. DerReadLen(b, i).len = -1
      BY <2>2
    <2> QED
      BY <2>3
  <1>2. b[i] \in Nat
    BY <1>0, <1>1, ElementOfSeq, Radices DEF Octets
  <1>3. CASE b[i] < DerHigh
    <2>1. DerReadLen(b, i) = [len |-> b[i], at |-> i + 1]
      BY <1>0, <1>1, <1>2, <1>3, ShortLength
    <2>2. DerReadLen(b, i).len = b[i] /\ DerReadLen(b, i).at = i + 1
      BY <2>1
    <2> QED
      BY <1>1, <1>2, <2>2
  <1>4. CASE ~ (b[i] < DerHigh)
    <2> DEFINE bad == \/ left > Len(b) - i
                      \/ b[i + 1] = 0
                      \/ left > SizeBytes
                      \/ long > Len(b) - i - left
                      \/ long < DerHigh
    <2>1. left \in Nat
      BY <1>0, <1>2, <1>4
    <2>2. DerReadLen(b, i) = IF bad THEN none ELSE [len |-> long, at |-> i + 1 + left]
      <3>1. ~ (i > Len(b)) /\ ~ (b[i] \in {DerAll, DerHigh})
        BY <1>0, <1>1
      <3> QED
        BY <1>4, <3>1 DEF DerReadLen
    <2> HIDE DEF long, left
    <2>3. ~ bad
      <3> SUFFICES ASSUME bad PROVE FALSE
        OBVIOUS
      <3>1. DerReadLen(b, i) = none
        BY <2>2
      <3>2. DerReadLen(b, i).len = -1
        BY <3>1
      <3> QED
        BY <3>2
    <2>4. DerReadLen(b, i) = [len |-> long, at |-> i + 1 + left]
      BY <2>2, <2>3
    <2>5. DerReadLen(b, i).len = long /\ DerReadLen(b, i).at = i + 1 + left
      BY <2>4
    <2>6. ~ (left > Len(b) - i) /\ ~ (long < DerHigh)
      BY <2>3
    <2>7. long \in Nat
      <3>1. \A j \in i + 1 .. i + left : b[j] \in Octets
        <4> TAKE j \in i + 1 .. i + left
        <4>1. j \in 1 .. Len(b)
          BY <1>0, <2>1, <2>6
        <4> QED
          BY <4>1, ElementOfSeq
      <3>2. i + 1 \in Int /\ i + left \in Int
        BY <2>1
      <3>3. PICK c : c = SubSeq(b, i + 1, i + left)
        OBVIOUS
      <3>4. c \in Seq(Octets)
        BY <3>1, <3>2, <3>3, SubSeqProperties
      <3>5. Len(c) \in Nat /\ Bytes(c, Len(c)) /\ Len(c) \in 0 .. Len(c)
        BY <3>4, ByteString
      <3>6. Value(c, Len(c)) \in Nat
        BY <3>5, ValueSteps
      <3> QED
        BY <3>3, <3>6, DerNumberIsValue DEF long
    <2> QED
      BY <1>0, <1>1, <2>1, <2>5, <2>6, <2>7
  <1> QED
    BY <1>3, <1>4

LEMMA PlacedIsParsed ==
    ASSUME NEW b \in Seq(Octets), NEW i, NEW x \in 0 .. n - 1, Placed(b, i, x)
    PROVE  DerParseInteger(b, i) =
               [ok |-> TRUE, v |-> x, at |-> i + 2 + Len(DerInteger(x))]
  <1>0. PICK c, k : c = DerInteger(x) /\ k = Len(c)
    OBVIOUS
  <1>1. c \in Seq(Octets) /\ Len(c) = k /\ k \in Nat \ {0} /\ k < DerHigh /\ Len(b) \in Nat
    BY <1>0, IntegerFits, LenProperties
  <1>2. /\ i \in Nat \ {0} /\ i + 1 + k <= Len(b)
        /\ b[i] = IntegerTag /\ b[i + 1] = k
        /\ \A j \in 1 .. k : b[i + 1 + j] = c[j]
    BY <1>0 DEF Placed
  <1>3. DerReadLen(b, i + 1) = [len |-> k, at |-> (i + 1) + 1]
    <2>1. i + 1 \in Nat /\ i + 1 <= Len(b) /\ b[i + 1] \in Nat /\ b[i + 1] < DerHigh
      BY <1>1, <1>2
    <2>2. DerReadLen(b, i + 1) = [len |-> b[i + 1], at |-> (i + 1) + 1]
      BY <1>1, <2>1, ShortLength
    <2> QED
      BY <1>2, <2>2
  <1>4. PICK l : l = DerReadLen(b, i + 1)
    OBVIOUS
  <1>5. l.len = k /\ l.at = i + 2
    BY <1>2, <1>3, <1>4
  <1>6. PICK s, lo, hi : lo = l.at /\ hi = l.at + l.len - 1 /\ s = SubSeq(b, lo, hi)
    OBVIOUS
  <1>7. s = c
    <2>a. lo = i + 2 /\ hi = i + 2 + k - 1
      BY <1>5, <1>6
    <2>b. i \in Nat \ {0} /\ k \in Nat \ {0} /\ i + 1 + k <= Len(b) /\ Len(b) \in Nat
      BY <1>1, <1>2
    <2>c. lo \in Int /\ hi \in Int /\ lo <= hi /\ hi - lo + 1 = k
      BY <2>a, <2>b
    <2>d. \A j \in lo .. hi : j \in 1 .. Len(b)
      BY <2>a, <2>b
    <2>e. \A j \in 1 .. k : lo + j - 1 = i + 1 + j
      BY <2>a, <2>b
    <2>1. /\ lo \in Int /\ hi \in Int /\ lo <= hi /\ hi - lo + 1 = k
          /\ \A j \in lo .. hi : j \in 1 .. Len(b)
          /\ \A j \in 1 .. k : lo + j - 1 = i + 1 + j
      BY <2>c, <2>d, <2>e
    <2>2. \A j \in lo .. hi : b[j] \in Octets
      BY <2>1, ElementOfSeq
    <2>3. /\ s \in Seq(Octets) /\ Len(s) = IF lo <= hi THEN hi - lo + 1 ELSE 0
          /\ \A j \in 1 .. hi - lo + 1 : s[j] = b[lo + j - 1]
      BY <1>6, <2>1, <2>2, SubSeqProperties
    <2>4. Len(s) = k
      BY <2>1, <2>3
    <2>5. ASSUME NEW j \in 1 .. k PROVE s[j] = c[j]
      <3>1. s[j] = b[lo + j - 1] /\ lo + j - 1 = i + 1 + j
        BY <2>1, <2>3
      <3>2. s[j] = b[i + 1 + j]
        BY <3>1
      <3> QED
        BY <1>2, <3>2
    <2>6. Len(s) = Len(c) /\ \A j \in 1 .. Len(s) : s[j] = c[j]
      BY <1>1, <2>4, <2>5
    <2> QED
      BY <1>1, <2>3, <2>6, SeqEqual
  <1>8. DerInteger1(s, i + 2 + k) = [ok |-> TRUE, v |-> x, at |-> i + 2 + k]
    BY <1>0, <1>7, IntegerIsRead
  <1>9. DerBody(b, i, l) = DerInteger1(s, i + 2 + k)
    <2>1. ~ (i > Len(b) \/ b[i] # IntegerTag \/ l.len <= 0 \/ l.at + l.len - 1 > Len(b))
      BY <1>1, <1>2, <1>5
    <2> QED
      BY <1>5, <1>6, <2>1 DEF DerBody
  <1> QED
    BY <1>0, <1>4, <1>8, <1>9 DEF DerParseInteger

LEMMA OnlyPlacedIsParsed ==
    ASSUME NEW b \in Seq(Octets), NEW i \in Nat \ {0}, NEW q, q = DerParseInteger(b, i),
           q.ok, q.v # 0
    PROVE  /\ q.v \in 1 .. n - 1 /\ Placed(b, i, q.v)
           /\ q.at = i + 2 + Len(DerInteger(q.v))
  <1>1. PICK l : l = DerReadLen(b, i + 1)
    OBVIOUS
  <1>2. q = DerBody(b, i, l)
    BY <1>1 DEF DerParseInteger
  <1>3. ~ (i > Len(b) \/ b[i] # IntegerTag \/ l.len <= 0 \/ l.at + l.len - 1 > Len(b))
    <2> SUFFICES ASSUME i > Len(b) \/ b[i] # IntegerTag \/ l.len <= 0 \/ l.at + l.len - 1 > Len(b)
                 PROVE  FALSE
      OBVIOUS
    <2>1. q = [ok |-> FALSE]
      BY <1>2 DEF DerBody
    <2> QED
      BY <2>1
  <1>4. PICK s, at : s = SubSeq(b, l.at, l.at + l.len - 1) /\ at = l.at + l.len
    OBVIOUS
  <1>5. q = DerInteger1(s, at)
    BY <1>2, <1>3, <1>4 DEF DerBody
  <1>6. /\ l.len \in Nat /\ l.at \in Nat \ {0} /\ i + 1 <= Len(b)
        /\ l.len < DerHigh => l.len = b[i + 1] /\ l.at = (i + 1) + 1
    <2>1. l.len # -1
      BY <1>3
    <2>2. i + 1 \in Nat \ {0}
      OBVIOUS
    <2> QED
      BY <1>1, <2>1, <2>2, LengthRead
  <1>7. /\ Len(b) \in Nat /\ b[i] = IntegerTag /\ l.len > 0
        /\ l.at + l.len - 1 <= Len(b)
    <2>1. Len(b) \in Nat
      BY LenProperties
    <2>2. b[i] = IntegerTag /\ ~ (l.len <= 0) /\ ~ (l.at + l.len - 1 > Len(b))
      BY <1>3
    <2>3. PICK x, y : x = l.at /\ y = l.len
      OBVIOUS
    <2>4. x \in Nat /\ y \in Nat /\ ~ (y <= 0) /\ ~ (x + y - 1 > Len(b))
      BY <1>6, <2>2, <2>3
    <2>5. y > 0 /\ x + y - 1 <= Len(b)
      BY <2>1, <2>4
    <2> QED
      BY <2>1, <2>2, <2>3, <2>5
  <1>8. /\ s \in Seq(Octets) /\ Len(s) = l.len
        /\ \A j \in 1 .. l.len : s[j] = b[l.at + j - 1]
    <2>0. PICK lo, hi, len : lo = l.at /\ len = l.len /\ hi = lo + len - 1
      OBVIOUS
    <2>a. lo \in Nat \ {0} /\ len \in Nat \ {0} /\ hi <= Len(b) /\ Len(b) \in Nat
      BY <1>6, <1>7, <2>0
    <2>b. lo \in Int /\ hi \in Int /\ lo <= hi /\ hi - lo + 1 = len
      BY <2>0, <2>a
    <2>c. \A j \in lo .. hi : j \in 1 .. Len(b)
      BY <2>a, <2>b
    <2>1. /\ lo \in Int /\ hi \in Int /\ lo <= hi /\ hi - lo + 1 = l.len
          /\ \A j \in lo .. hi : j \in 1 .. Len(b)
      BY <2>0, <2>b, <2>c
    <2>2. \A j \in lo .. hi : b[j] \in Octets
      BY <2>1, ElementOfSeq
    <2>3. /\ s \in Seq(Octets) /\ Len(s) = IF lo <= hi THEN hi - lo + 1 ELSE 0
          /\ \A j \in 1 .. hi - lo + 1 : s[j] = b[lo + j - 1]
      BY <1>4, <2>0, <2>1, <2>2, SubSeqProperties
    <2>4. Len(s) = l.len
      BY <2>1, <2>3
    <2>5. \A j \in 1 .. l.len : s[j] = b[l.at + j - 1]
      BY <2>0, <2>1, <2>3
    <2> QED
      BY <2>3, <2>4, <2>5
  <1>9. q.v \in 1 .. n - 1 /\ q.at = at /\ s = DerInteger(q.v)
    <2>1. Len(s) > 0 /\ DerInteger1(s, at).ok /\ DerInteger1(s, at).v # 0
      BY <1>5, <1>7, <1>8
    <2> QED
      BY <1>5, <1>8, <2>1, OnlyIntegersAreRead
  <1>10. Len(s) < DerHigh
    <2>1. q.v \in 0 .. n - 1
      BY <1>9, Scalars
    <2> QED
      BY <1>9, <2>1, IntegerFits
  <1>11. l.len = b[i + 1] /\ l.at = i + 2
    <2>1. l.len < DerHigh
      BY <1>8, <1>10
    <2> QED
      BY <1>6, <2>1
  <1>12. Placed(b, i, q.v)
    <2>1. i + 1 + Len(s) <= Len(b) /\ b[i + 1] = Len(s)
      BY <1>6, <1>7, <1>8, <1>11
    <2>2. ASSUME NEW k \in 1 .. Len(s) PROVE b[i + 1 + k] = s[k]
      <3>1. k \in 1 .. l.len /\ l.at + k - 1 = i + 1 + k
        BY <1>6, <1>8, <1>11
      <3> QED
        BY <1>8, <3>1
    <2> QED
      BY <1>7, <1>9, <2>1, <2>2 DEF Placed
  <1>13. q.at = i + 2 + Len(DerInteger(q.v))
    BY <1>4, <1>8, <1>9, <1>11
  <1> QED
    BY <1>9, <1>12, <1>13

LEMMA SignatureBytes ==
    /\ SequenceTag \in Octets /\ IntegerTag \in Octets /\ Octets \subseteq Nat
  BY Radices, EcdsaAssumption DEF Octets

\* b is what is written of r and s.
Signature(b, r, s) ==
    /\ b \in Seq(Octets) /\ Len(b) = 6 + Len(DerInteger(r)) + Len(DerInteger(s))
    /\ b[1] = SequenceTag /\ b[2] = Len(b) - 2
    /\ Placed(b, 3, r) /\ Placed(b, 5 + Len(DerInteger(r)), s)

LEMMA SignatureIsWritten ==
    ASSUME NEW r \in 0 .. n - 1, NEW s \in 0 .. n - 1
    PROVE  LET q == EcdsaSigSerialize(r, s, DerRoom)
           IN  q.ret = 1 /\ Signature(q.out, r, s)
  <1>0. PICK rp, sp, lr, ls : rp = DerInteger(r) /\ sp = DerInteger(s) /\ lr = Len(rp) /\ ls = Len(sp)
    OBVIOUS
  <1>1. /\ rp \in Seq(Octets) /\ lr \in 1 .. DerBytes + 1 /\ lr \in Nat /\ Len(rp) = lr /\ lr < DerHigh
        /\ sp \in Seq(Octets) /\ ls \in 1 .. DerBytes + 1 /\ ls \in Nat /\ Len(sp) = ls /\ ls < DerHigh
    BY <1>0, IntegerFits
  <1>2. /\ DerBytes \in Nat \ {0} /\ DerHigh \in Nat \ {0} /\ 6 + 2 * DerBytes < DerHigh
        /\ Radix = 2 * DerHigh
    BY Radices
  <1>3. PICK room : room = DerRoom
    OBVIOUS
  <1>4. ~ (room < 6 + lr + ls)
    BY <1>1, <1>2, <1>3 DEF DerRoom
  <1>5. PICK h, t : h = <<SequenceTag, 6 + lr + ls - 2, IntegerTag, lr>> /\ t = <<IntegerTag, ls>>
    OBVIOUS
  <1>6. PICK b : b = h \o rp \o t \o sp
    OBVIOUS
  <1>7. EcdsaSigSerialize(r, s, room) = [ret |-> 1, size |-> 6 + lr + ls, out |-> b]
    BY <1>0, <1>4, <1>5, <1>6 DEF EcdsaSigSerialize
  <1>8. 6 + lr + ls - 2 \in Octets /\ lr \in Octets /\ ls \in Octets
    BY <1>1, <1>2 DEF Octets
  <1>9. /\ h \in Seq(Octets) /\ Len(h) = 4
        /\ h[1] = SequenceTag /\ h[2] = 6 + lr + ls - 2 /\ h[3] = IntegerTag /\ h[4] = lr
    BY <1>5, <1>8, SignatureBytes
  <1>10. t \in Seq(Octets) /\ Len(t) = 2 /\ t[1] = IntegerTag /\ t[2] = ls
    BY <1>5, <1>8, SignatureBytes
  <1>11. PICK u, w, four, two : /\ u = h \o rp /\ w = u \o t
                                /\ four = Len(h) /\ two = Len(t)
    OBVIOUS
  <1>14. b = w \o sp
    BY <1>6, <1>11
  <1>12. /\ u \in Seq(Octets) /\ Len(u) = four + lr
         /\ \A i \in 1 .. four : u[i] = h[i]
         /\ \A i \in 1 .. lr : u[four + i] = rp[i]
    <2>1. h \in Seq(Octets) /\ rp \in Seq(Octets) /\ four = Len(h) /\ lr = Len(rp)
      BY <1>1, <1>9, <1>11
    <2>2. u = h \o rp
      BY <1>11
    <2> QED
      BY <2>1, <2>2, Joined
  <1>13. /\ w \in Seq(Octets) /\ Len(w) = (four + lr) + two
         /\ \A i \in 1 .. four + lr : w[i] = u[i]
         /\ \A i \in 1 .. two : w[(four + lr) + i] = t[i]
    <2>0. PICK lu : lu = four + lr
      OBVIOUS
    <2>1. u \in Seq(Octets) /\ t \in Seq(Octets) /\ lu = Len(u) /\ two = Len(t)
      BY <1>10, <1>11, <1>12, <2>0
    <2>2. w = u \o t
      BY <1>11
    <2>3. /\ w \in Seq(Octets) /\ Len(w) = lu + two
          /\ \A i \in 1 .. lu : w[i] = u[i]
          /\ \A i \in 1 .. two : w[lu + i] = t[i]
      BY <2>1, <2>2, Joined
    <2> QED
      BY <2>0, <2>3
  <1>15. /\ b \in Seq(Octets) /\ Len(b) = ((four + lr) + two) + ls
         /\ \A i \in 1 .. (four + lr) + two : b[i] = w[i]
         /\ \A i \in 1 .. ls : b[((four + lr) + two) + i] = sp[i]
    <2>0. PICK lw : lw = (four + lr) + two
      OBVIOUS
    <2>1. w \in Seq(Octets) /\ sp \in Seq(Octets) /\ lw = Len(w) /\ ls = Len(sp)
      BY <1>1, <1>13, <2>0
    <2>2. /\ b \in Seq(Octets) /\ Len(b) = lw + ls
          /\ \A i \in 1 .. lw : b[i] = w[i]
          /\ \A i \in 1 .. ls : b[lw + i] = sp[i]
      BY <1>14, <2>1, Joined
    <2> QED
      BY <2>0, <2>2
  <1>a. four = 4 /\ two = 2
    BY <1>9, <1>10, <1>11
  <1>b. Len(b) = 6 + lr + ls
    BY <1>1, <1>15, <1>a
  <1>16. ASSUME NEW i \in 1 .. 4 PROVE b[i] = h[i]
    <2>1. i \in 1 .. four /\ i \in 1 .. four + lr /\ i \in 1 .. (four + lr) + two
      BY <1>1, <1>a
    <2> QED
      BY <1>12, <1>13, <1>15, <2>1
  <1>17. ASSUME NEW k \in 1 .. lr PROVE b[3 + 1 + k] = rp[k]
    <2>1. /\ four + k \in 1 .. four + lr /\ four + k \in 1 .. (four + lr) + two
          /\ four + k = 3 + 1 + k
      BY <1>1, <1>a
    <2>2. b[four + k] = w[four + k] /\ w[four + k] = u[four + k] /\ u[four + k] = rp[k]
      BY <1>12, <1>13, <1>15, <2>1
    <2> QED
      BY <2>1, <2>2
  <1>18. ASSUME NEW k \in 1 .. 2 PROVE b[4 + lr + k] = t[k]
    <2>1. /\ k \in 1 .. two /\ (four + lr) + k \in 1 .. (four + lr) + two
          /\ (four + lr) + k = 4 + lr + k
      BY <1>1, <1>a
    <2>2. b[(four + lr) + k] = w[(four + lr) + k] /\ w[(four + lr) + k] = t[k]
      BY <1>13, <1>15, <2>1
    <2> QED
      BY <2>1, <2>2
  <1>19. ASSUME NEW k \in 1 .. ls PROVE b[5 + lr + 1 + k] = sp[k]
    <2>1. ((four + lr) + two) + k = 5 + lr + 1 + k
      BY <1>1, <1>a
    <2>2. b[((four + lr) + two) + k] = sp[k]
      BY <1>15
    <2> QED
      BY <2>1, <2>2
  <1>20. Placed(b, 3, r)
    <2>1. 3 + 1 + lr <= Len(b)
      BY <1>1, <1>b
    <2>2. b[3] = IntegerTag /\ b[3 + 1] = lr
      BY <1>9, <1>16
    <2>3. \A k \in 1 .. lr : b[3 + 1 + k] = rp[k]
      BY <1>17
    <2> QED
      BY <1>0, <2>1, <2>2, <2>3 DEF Placed
  <1>21. Placed(b, 5 + lr, s)
    <2>1. 5 + lr \in Nat \ {0} /\ 5 + lr + 1 + ls <= Len(b)
      BY <1>1, <1>b
    <2>2. b[5 + lr] = IntegerTag /\ b[5 + lr + 1] = ls
      <3>1. 4 + lr + 1 = 5 + lr /\ 4 + lr + 2 = 5 + lr + 1
        BY <1>1
      <3> QED
        BY <1>10, <1>18, <3>1
    <2>3. \A k \in 1 .. ls : b[5 + lr + 1 + k] = sp[k]
      BY <1>19
    <2> QED
      BY <1>0, <2>1, <2>2, <2>3 DEF Placed
  <1>22. Signature(b, r, s)
    <2>1. Len(b) = 6 + lr + ls /\ b[1] = SequenceTag /\ b[2] = Len(b) - 2
      BY <1>1, <1>9, <1>16, <1>b
    <2> QED
      BY <1>0, <1>15, <1>20, <1>21, <2>1 DEF Signature
  <1> QED
    BY <1>3, <1>7, <1>22

LEMMA SignatureIsUnique ==
    ASSUME NEW r \in 0 .. n - 1, NEW s \in 0 .. n - 1, NEW b, NEW c,
           Signature(b, r, s), Signature(c, r, s)
    PROVE  b = c
  <1>0. PICK rp, sp, lr, ls : rp = DerInteger(r) /\ sp = DerInteger(s) /\ lr = Len(rp) /\ ls = Len(sp)
    OBVIOUS
  <1>1. lr \in Nat /\ ls \in Nat
    BY <1>0, IntegerFits
  <1>2. /\ b \in Seq(Octets) /\ Len(b) = 6 + lr + ls
        /\ b[1] = SequenceTag /\ b[2] = Len(b) - 2
        /\ b[3] = IntegerTag /\ b[3 + 1] = lr /\ \A k \in 1 .. lr : b[3 + 1 + k] = rp[k]
        /\ b[5 + lr] = IntegerTag /\ b[5 + lr + 1] = ls
        /\ \A k \in 1 .. ls : b[5 + lr + 1 + k] = sp[k]
    BY <1>0 DEF Signature, Placed
  <1>3. /\ c \in Seq(Octets) /\ Len(c) = 6 + lr + ls
        /\ c[1] = SequenceTag /\ c[2] = Len(c) - 2
        /\ c[3] = IntegerTag /\ c[3 + 1] = lr /\ \A k \in 1 .. lr : c[3 + 1 + k] = rp[k]
        /\ c[5 + lr] = IntegerTag /\ c[5 + lr + 1] = ls
        /\ \A k \in 1 .. ls : c[5 + lr + 1 + k] = sp[k]
    BY <1>0 DEF Signature, Placed
  <1>4. ASSUME NEW i \in 1 .. Len(b) PROVE b[i] = c[i]
    <2>1. CASE i \in {1, 2, 3}
      BY <1>2, <1>3, <2>1
    <2>2. CASE i = 4
      <3>1. 3 + 1 = 4
        OBVIOUS
      <3> QED
        BY <1>2, <1>3, <2>2, <3>1
    <2>3. CASE i \in 5 .. 4 + lr
      <3>1. PICK k : k = i - 4
        OBVIOUS
      <3>2. k \in 1 .. lr /\ 3 + 1 + k = i
        BY <1>1, <2>3, <3>1
      <3> QED
        BY <1>2, <1>3, <3>2
    <2>4. CASE i = 5 + lr
      BY <1>2, <1>3, <2>4
    <2>5. CASE i = 5 + lr + 1
      BY <1>2, <1>3, <2>5
    <2>6. CASE i \in 7 + lr .. 6 + lr + ls
      <3>1. PICK k : k = i - (6 + lr)
        OBVIOUS
      <3>2. k \in 1 .. ls /\ 5 + lr + 1 + k = i
        BY <1>1, <2>6, <3>1
      <3> QED
        BY <1>2, <1>3, <3>2
    <2> QED
      BY <1>1, <1>2, <2>1, <2>2, <2>3, <2>4, <2>5, <2>6
  <1>5. Len(b) = Len(c)
    BY <1>2, <1>3
  <1> QED
    BY <1>2, <1>3, <1>4, <1>5, SeqEqual

LEMMA SignatureIsParsed ==
    ASSUME NEW r \in 0 .. n - 1, NEW s \in 0 .. n - 1, NEW b, Signature(b, r, s)
    PROVE  EcdsaSigParse(b) = [ok |-> TRUE, r |-> r, s |-> s]
  <1>0. PICK lr, ls : lr = Len(DerInteger(r)) /\ ls = Len(DerInteger(s))
    OBVIOUS
  <1>1. lr \in Nat /\ ls \in Nat /\ lr \in 1 .. DerBytes + 1 /\ ls \in 1 .. DerBytes + 1
    BY <1>0, IntegerFits
  <1>2. /\ b \in Seq(Octets) /\ Len(b) = 6 + lr + ls
        /\ b[1] = SequenceTag /\ b[2] = 4 + lr + ls
        /\ Placed(b, 3, r) /\ Placed(b, 5 + lr, s)
    BY <1>0, <1>1 DEF Signature
  <1>3. DerReadLen(b, 2) = [len |-> 4 + lr + ls, at |-> 3]
    <2>1. 4 + lr + ls \in Nat /\ 4 + lr + ls < DerHigh
      BY <1>1, Radices
    <2>2. PICK i : i = 2
      OBVIOUS
    <2>3. i \in Nat /\ i <= Len(b) /\ Len(b) \in Nat /\ b[i] \in Nat /\ b[i] < DerHigh
      BY <1>1, <1>2, <2>1, <2>2
    <2>4. DerReadLen(b, i) = [len |-> b[i], at |-> i + 1]
      BY <2>3, ShortLength
    <2> QED
      BY <1>2, <2>2, <2>4
  <1>4. DerParseInteger(b, 3) = [ok |-> TRUE, v |-> r, at |-> 3 + 2 + lr]
    BY <1>0, <1>2, PlacedIsParsed
  <1>5. DerParseInteger(b, 5 + lr) = [ok |-> TRUE, v |-> s, at |-> 5 + lr + 2 + ls]
    BY <1>0, <1>2, PlacedIsParsed
  <1>6. PICK q, t, l : /\ q = DerParseInteger(b, 3) /\ t = DerParseInteger(b, 5 + lr)
                       /\ l = DerReadLen(b, 2)
    OBVIOUS
  <1>7. q.ok /\ q.v = r /\ q.at = 5 + lr
    BY <1>1, <1>4, <1>6
  <1>8. t.ok /\ t.v = s /\ t.at = Len(b) + 1
    BY <1>1, <1>2, <1>5, <1>6
  <1>9. SigOf(b, q, t) = [ok |-> TRUE, r |-> r, s |-> s]
    BY <1>7, <1>8 DEF SigOf
  <1>10. SecondInteger(b, q) = SigOf(b, q, t)
    BY <1>6, <1>7 DEF SecondInteger
  <1>11. SequenceBody(b, l) = SecondInteger(b, q)
    <2>1. l.len = 4 + lr + ls /\ l.at = 3
      BY <1>3, <1>6
    <2>2. l.len >= 0 /\ l.at + l.len - 1 = Len(b)
      BY <1>1, <1>2, <2>1
    <2> QED
      BY <1>6, <2>1, <2>2 DEF SequenceBody
  <1>12. EcdsaSigParse(b) = SequenceBody(b, l)
    <2>1. b # <<>>
      <3>1. Len(b) # 0 /\ Len(<<>>) = 0
        BY <1>1, <1>2
      <3> QED
        BY <3>1
    <2> QED
      BY <1>2, <1>6, <2>1 DEF EcdsaSigParse
  <1> QED
    BY <1>9, <1>10, <1>11, <1>12

LEMMA OnlySignaturesAreParsed ==
    ASSUME NEW b \in Seq(Octets), NEW sig, sig = EcdsaSigParse(b), sig.ok, sig.r # 0, sig.s # 0
    PROVE  sig.r \in 0 .. n - 1 /\ sig.s \in 0 .. n - 1 /\ Signature(b, sig.r, sig.s)
  <1>0. sig # NoSig
    BY DEF NoSig
  <1>1. PICK l : l = DerReadLen(b, 2)
    OBVIOUS
  <1>2. b[1] = SequenceTag /\ sig = SequenceBody(b, l)
    BY <1>0, <1>1 DEF EcdsaSigParse
  <1>3. PICK q : q = DerParseInteger(b, l.at)
    OBVIOUS
  <1>4. l.len >= 0 /\ l.at + l.len - 1 = Len(b) /\ sig = SecondInteger(b, q)
    BY <1>0, <1>2, <1>3 DEF SequenceBody
  <1>5. PICK t : t = DerParseInteger(b, q.at)
    OBVIOUS
  <1>6. q.ok /\ sig = SigOf(b, q, t)
    BY <1>0, <1>4, <1>5 DEF SecondInteger
  <1>7. t.ok /\ t.at = Len(b) + 1 /\ sig = [ok |-> TRUE, r |-> q.v, s |-> t.v]
    BY <1>0, <1>6 DEF SigOf
  <1>8. sig.r = q.v /\ sig.s = t.v /\ q.v # 0 /\ t.v # 0
    BY <1>7
  <1>9. /\ l.len \in Nat /\ l.at \in Nat \ {0} /\ 2 <= Len(b) /\ Len(b) \in Nat
        /\ l.len < DerHigh => l.len = b[2] /\ l.at = 3
    <2>1. PICK i : i = 2
      OBVIOUS
    <2>2. i \in Nat \ {0} /\ DerReadLen(b, i).len # -1
      BY <1>1, <1>4, <2>1
    <2>3. /\ DerReadLen(b, i).len \in Nat /\ DerReadLen(b, i).at \in Nat \ {0}
          /\ i <= Len(b)
          /\ DerReadLen(b, i).len < DerHigh =>
                 /\ DerReadLen(b, i).len = b[i] /\ DerReadLen(b, i).at = i + 1
      BY <2>2, LengthRead
    <2> QED
      BY <1>1, <2>1, <2>3, LenProperties
  <1>10. /\ q.v \in 1 .. n - 1 /\ Placed(b, l.at, q.v)
         /\ q.at = l.at + 2 + Len(DerInteger(q.v))
    BY <1>3, <1>6, <1>8, <1>9, OnlyPlacedIsParsed
  <1>11. q.v \in 0 .. n - 1
    BY <1>10, Scalars
  <1>12. PICK lr : lr = Len(DerInteger(q.v))
    OBVIOUS
  <1>13. lr \in Nat /\ lr \in 1 .. DerBytes + 1
    BY <1>11, <1>12, IntegerFits
  <1>14. q.at \in Nat \ {0} /\ q.at = l.at + 2 + lr
    BY <1>9, <1>10, <1>12, <1>13
  <1>15. /\ t.v \in 1 .. n - 1 /\ Placed(b, q.at, t.v)
         /\ t.at = q.at + 2 + Len(DerInteger(t.v))
    BY <1>5, <1>7, <1>8, <1>14, OnlyPlacedIsParsed
  <1>16. t.v \in 0 .. n - 1
    BY <1>15, Scalars
  <1>17. PICK ls : ls = Len(DerInteger(t.v))
    OBVIOUS
  <1>18. ls \in Nat /\ ls \in 1 .. DerBytes + 1
    BY <1>16, <1>17, IntegerFits
  <1>19. l.len = 4 + lr + ls
    <2>1. t.at = q.at + 2 + ls
      BY <1>15, <1>17
    <2>2. PICK x, y, z, m : x = l.at /\ y = l.len /\ z = q.at /\ m = Len(b)
      OBVIOUS
    <2>3. /\ x \in Nat /\ y \in Nat /\ z \in Nat /\ m \in Nat
          /\ x + y - 1 = m /\ z = x + 2 + lr /\ z + 2 + ls = m + 1
      BY <1>4, <1>7, <1>9, <1>14, <2>1, <2>2
    <2>4. y = 4 + lr + ls
      BY <1>13, <1>18, <2>3
    <2> QED
      BY <2>2, <2>4
  <1>20. l.len = b[2] /\ l.at = 3
    <2>1. l.len < DerHigh
      BY <1>13, <1>18, <1>19, Radices
    <2> QED
      BY <1>9, <2>1
  <1>21. Signature(b, q.v, t.v)
    <2>a. PICK x, y : x = l.at /\ y = l.len
      OBVIOUS
    <2>b. x = 3 /\ y = 4 + lr + ls /\ x + y - 1 = Len(b) /\ b[2] = y
      BY <1>4, <1>19, <1>20, <2>a
    <2>c. q.at = 5 + lr
      BY <1>13, <1>14, <1>20
    <2>1. Len(b) = 6 + lr + ls /\ b[2] = Len(b) - 2 /\ q.at = 5 + lr
      BY <1>13, <1>18, <2>b, <2>c
    <2> QED
      BY <1>2, <1>10, <1>12, <1>15, <1>17, <1>20, <2>1 DEF Signature
  <1> QED
    BY <1>8, <1>11, <1>16, <1>21

\* A signature is read from the bytes that are written of it
\* (secp256k1_ecdsa_sig_serialize, secp256k1_ecdsa_sig_parse).
THEOREM EncodingIsRead ==
    \A r, s \in 0 .. n - 1 :
        LET q == EcdsaSigSerialize(r, s, DerRoom)
        IN  q.ret = 1 /\ EcdsaSigParse(q.out) = [ok |-> TRUE, r |-> r, s |-> s]
  BY SignatureIsWritten, SignatureIsParsed

\* Whatever bytes are read as a signature are those that are written of it: no
\* longer form of a length, no further zero and no byte behind it is let through
\* (secp256k1_der_read_len, secp256k1_der_parse_integer, secp256k1_ecdsa_sig_parse).
THEOREM OneEncoding ==
    \A b \in Seq(0 .. 2^DerBits - 1) : EncodingIsUnique(b)
  <1> SUFFICES ASSUME NEW b \in Seq(Octets) PROVE EncodingIsUnique(b)
    BY DEF Octets, Radix
  <1>1. PICK sig : sig = EcdsaSigParse(b)
    OBVIOUS
  <1>2. ASSUME sig.ok, sig.r # 0, sig.s # 0
        PROVE  EcdsaSigSerialize(sig.r, sig.s, DerRoom).out = b
    <2>1. sig.r \in 0 .. n - 1 /\ sig.s \in 0 .. n - 1 /\ Signature(b, sig.r, sig.s)
      BY <1>1, <1>2, OnlySignaturesAreParsed
    <2>2. Signature(EcdsaSigSerialize(sig.r, sig.s, DerRoom).out, sig.r, sig.s)
      BY <2>1, SignatureIsWritten
    <2> QED
      BY <2>1, <2>2, SignatureIsUnique
  <1> QED
    BY <1>1, <1>2 DEF EncodingIsUnique

-----------------------------------------------------------------------------
(* Field elements as the group code sees them: a number and a magnitude.   *)

Elems(k) == [v : Fe, m : 0 .. k]

LEMMA FieldSize ==
    p \in Nat /\ p > 4 /\ n \in Nat /\ n < p /\ 4 < n
  BY EcmultAssumption

LEMMA ReducedIsInField ==
    \A x \in Int : x % p \in Fe
  BY FieldSize DEF Fe

LEMMA ElemFits ==
    ASSUME NEW x \in Int, NEW k \in Nat, NEW m \in 0 .. k
    PROVE  Elem(x, m) \in Elems(k)
  BY ReducedIsInField DEF Elem, Elems

LEMMA ElemNumbers ==
    ASSUME NEW k \in Nat, NEW a \in Elems(k)
    PROVE  /\ a.v \in Int /\ a.v \in Nat /\ a.v \in Fe /\ a.m \in Int /\ a.m \in Nat
           /\ 0 <= a.m /\ a.m <= k
  BY FieldSize DEF Elems, Fe

LEMMA ElemsGrow ==
    ASSUME NEW j \in Nat, NEW k \in Nat, j <= k, NEW a \in Elems(j)
    PROVE  a \in Elems(k)
  BY DEF Elems

LEMMA ProductFits ==
    ASSUME NEW a \in Elems(8), NEW b \in Elems(8)
    PROVE  FeMul(a, b) \in Elems(1)
  <1>1. a.v * b.v \in Int /\ a.m <= 8 /\ b.m <= 8
    BY FieldSize DEF Elems, Fe
  <1>2. Elem(a.v * b.v, 1) \in Elems(1)
    <2>1. PICK x : x = a.v * b.v
      OBVIOUS
    <2>2. x \in Int
      BY <1>1, <2>1
    <2>3. Elem(x, 1) \in Elems(1)
      BY <2>2, ElemFits
    <2> QED
      BY <2>1, <2>3
  <1> QED
    BY <1>1, <1>2 DEF FeMul

LEMMA SquareFits ==
    ASSUME NEW a \in Elems(8)
    PROVE  FeSqr(a) \in Elems(1)
  BY ProductFits DEF FeSqr

LEMMA SumFits ==
    ASSUME NEW i \in Nat, NEW j \in Nat, i + j <= 32, NEW a \in Elems(i), NEW b \in Elems(j)
    PROVE  FeAdd(a, b) \in Elems(i + j)
  <1>1. PICK x, m, k : x = a.v + b.v /\ m = a.m + b.m /\ k = i + j
    OBVIOUS
  <1>2. x \in Int /\ k \in Nat /\ m \in 0 .. k /\ m <= 32
    BY <1>1, ElemNumbers
  <1>3. Elem(x, m) \in Elems(k)
    BY <1>2, ElemFits
  <1>4. FeAdd(a, b) = Elem(x, m)
    BY <1>1, <1>2 DEF FeAdd, Fits
  <1> QED
    BY <1>1, <1>3, <1>4

LEMMA MultipleFits ==
    ASSUME NEW i \in Nat, NEW k \in Nat, NEW j \in Nat, i * k <= j, j <= 32, NEW a \in Elems(i)
    PROVE  FeMulInt(a, k) \in Elems(j)
  <1>1. PICK x, m : x = a.v * k /\ m = a.m * k
    OBVIOUS
  <1>2. a.m \in Nat /\ a.m <= i /\ a.v \in Int
    BY ElemNumbers
  <1>3. x \in Int /\ m \in Nat /\ m <= i * k
    BY <1>1, <1>2, TimesMonotone, TimesNat
  <1>4. m \in 0 .. j /\ m <= 32
    <2>1. i * k \in Nat
      BY TimesNat
    <2> QED
      BY <1>3, <2>1
  <1>5. Elem(x, m) \in Elems(j)
    BY <1>3, <1>4, ElemFits
  <1>6. FeMulInt(a, k) = Elem(x, m)
    BY <1>1, <1>4 DEF FeMulInt, Fits
  <1> QED
    BY <1>5, <1>6

LEMMA OppositeFits ==
    ASSUME NEW m \in Nat, m <= 31, NEW a \in Elems(m)
    PROVE  FeNegate(a, m) \in Elems(m + 1)
  <1>1. PICK x, k : x = p - a.v /\ k = m + 1
    OBVIOUS
  <1>2. x \in Int /\ k \in Nat /\ k <= 32 /\ a.m <= m
    BY <1>1, ElemNumbers, FieldSize
  <1>3. Elem(x, k) \in Elems(k)
    BY <1>2, ElemFits
  <1>4. FeNegate(a, m) = Elem(x, k)
    BY <1>1, <1>2 DEF FeNegate, Fits
  <1> QED
    BY <1>1, <1>3, <1>4

LEMMA NormalizedFits ==
    ASSUME NEW k \in Nat, k <= 32, NEW a \in Elems(k)
    PROVE  FeNormalize(a) \in Elems(1)
  <1>1. a.v \in Int /\ a.m <= 32
    BY ElemNumbers
  <1>2. Elem(a.v, 1) \in Elems(1)
    BY <1>1, ElemFits
  <1> QED
    BY <1>1, <1>2 DEF FeNormalize

LEMMA IntegerFitsField ==
    ASSUME NEW k \in Int
    PROVE  FeSetInt(k) \in Elems(1)
  BY ElemFits DEF FeSetInt

LEMMA ZeroFits == Zero \in Elems(0)
  BY ElemFits DEF Zero

LEMMA MaxOfTwo ==
    ASSUME NEW a \in Nat, NEW b \in Nat
    PROVE  Max({a, b}) = IF a >= b THEN a ELSE b
  <1>1. PICK c \in {a, b} : c = (IF a >= b THEN a ELSE b)
    OBVIOUS
  <1>2. \A y \in {a, b} : c >= y
    BY <1>1
  <1>3. Max({a, b}) \in {a, b} /\ \A y \in {a, b} : Max({a, b}) >= y
    BY <1>2 DEF Max
  <1> QED
    BY <1>1, <1>2, <1>3

LEMMA ChosenFits ==
    ASSUME NEW k \in Nat, NEW r \in Elems(k), NEW a \in Elems(k), NEW flag
    PROVE  FeCMov(r, a, flag) \in Elems(k)
  <1>1. PICK x, m : x = (IF flag THEN a.v ELSE r.v) /\ m = Max({r.m, a.m})
    OBVIOUS
  <1>2. x \in Int
    BY <1>1, ElemNumbers
  <1>3. m \in 0 .. k
    BY <1>1, ElemNumbers, MaxOfTwo
  <1>4. Elem(x, m) \in Elems(k)
    BY <1>2, <1>3, ElemFits
  <1> QED
    BY <1>1, <1>4 DEF FeCMov

-----------------------------------------------------------------------------
(* Functions defined by recursion up or down an interval: they exist, and  *)
(* their values stay where the steps keep them.                            *)

Ascends(f, lo, top, S, x0, G) ==
    /\ f \in [lo .. top -> S]
    /\ f[lo] = x0 /\ \A k \in lo + 1 .. top : f[k] = G[k][f[k - 1]]

Descends(f, lo, top, S, x0, G) ==
    /\ f \in [lo .. top -> S]
    /\ f[top] = x0 /\ \A k \in lo .. top - 1 : f[k] = G[k][f[k + 1]]

LEMMA UpExists ==
    ASSUME NEW lo \in Nat, NEW top \in Nat, lo <= top, NEW S, NEW x0 \in S,
           NEW D, D = lo + 1 .. top, NEW G \in [D -> [S -> S]]
    PROVE  \E f : Ascends(f, lo, top, S, x0, G)
  <1> DEFINE H == [k \in 1 .. top - lo |-> G[lo + k]]
  <1>0. top - lo \in Nat
    OBVIOUS
  <1>1. H \in [1 .. top - lo -> [S -> S]]
    <2>1. \A k \in 1 .. top - lo : lo + k \in lo + 1 .. top
      OBVIOUS
    <2> QED
      BY <2>1
  <1>2. PICK h : Runs(h, top - lo, S, x0, H)
    <2> HIDE DEF H
    <2> QED
      BY <1>0, <1>1, Recursion
  <1>3. h \in [0 .. top - lo -> S] /\ h[0] = x0 /\ \A k \in 1 .. top - lo : h[k] = H[k][h[k - 1]]
    BY <1>2 DEF Runs
  <1> DEFINE f == [k \in lo .. top |-> h[k - lo]]
  <1>4. f \in [lo .. top -> S]
    <2>1. \A k \in lo .. top : k - lo \in 0 .. top - lo
      OBVIOUS
    <2> QED
      BY <1>3, <2>1
  <1>5. f[lo] = x0
    BY <1>3
  <1>6. ASSUME NEW k \in lo + 1 .. top PROVE f[k] = G[k][f[k - 1]]
    <2>1. PICK j : j = k - lo
      OBVIOUS
    <2>2. j \in 1 .. top - lo /\ lo + j = k /\ j - 1 = (k - 1) - lo /\ k - 1 \in lo .. top
          /\ k \in lo .. top
      BY <2>1
    <2>3. f[k] = h[j] /\ f[k - 1] = h[j - 1] /\ H[j] = G[k]
      BY <2>1, <2>2
    <2> QED
      BY <1>3, <2>2, <2>3
  <1> HIDE DEF f
  <1> QED
    BY <1>4, <1>5, <1>6 DEF Ascends

LEMMA DownExists ==
    ASSUME NEW lo \in Nat, NEW top \in Nat, lo <= top, NEW S, NEW x0 \in S,
           NEW D, D = lo .. top - 1, NEW G \in [D -> [S -> S]]
    PROVE  \E f : Descends(f, lo, top, S, x0, G)
  <1> DEFINE H == [k \in 1 .. top - lo |-> G[top - k]]
  <1>0. top - lo \in Nat
    OBVIOUS
  <1>1. H \in [1 .. top - lo -> [S -> S]]
    <2>1. \A k \in 1 .. top - lo : top - k \in lo .. top - 1
      OBVIOUS
    <2> QED
      BY <2>1
  <1>2. PICK h : Runs(h, top - lo, S, x0, H)
    <2> HIDE DEF H
    <2> QED
      BY <1>0, <1>1, Recursion
  <1>3. h \in [0 .. top - lo -> S] /\ h[0] = x0 /\ \A k \in 1 .. top - lo : h[k] = H[k][h[k - 1]]
    BY <1>2 DEF Runs
  <1> DEFINE f == [k \in lo .. top |-> h[top - k]]
  <1>4. f \in [lo .. top -> S]
    <2>1. \A k \in lo .. top : top - k \in 0 .. top - lo
      OBVIOUS
    <2> QED
      BY <1>3, <2>1
  <1>5. f[top] = x0
    BY <1>3
  <1>6. ASSUME NEW k \in lo .. top - 1 PROVE f[k] = G[k][f[k + 1]]
    <2>1. PICK j : j = top - k
      OBVIOUS
    <2>2. j \in 1 .. top - lo /\ top - j = k /\ j - 1 = top - (k + 1) /\ k + 1 \in lo .. top
          /\ k \in lo .. top
      BY <2>1
    <2>3. f[k] = h[j] /\ f[k + 1] = h[j - 1] /\ H[j] = G[k]
      BY <2>1, <2>2
    <2> QED
      BY <1>3, <2>2, <2>3
  <1> HIDE DEF f
  <1> QED
    BY <1>4, <1>5, <1>6 DEF Descends

LEMMA StaysUp ==
    ASSUME NEW lo \in Nat, NEW top \in Nat, lo <= top, NEW S, NEW f, f[lo] \in S,
           \A k \in lo + 1 .. top : f[k - 1] \in S => f[k] \in S
    PROVE  \A k \in lo .. top : f[k] \in S
  <1> DEFINE T == {k \in Nat : lo + k <= top => f[lo + k] \in S}
  <1>1. 0 \in T
    OBVIOUS
  <1>2. ASSUME NEW k \in Nat, k \in T PROVE k + 1 \in T
    <2>1. CASE lo + k + 1 <= top
      <3>1. lo + k + 1 \in lo + 1 .. top /\ (lo + k + 1) - 1 = lo + k /\ lo + (k + 1) = lo + k + 1
        BY <2>1
      <3>2. f[lo + k] \in S
        BY <1>2, <2>1
      <3>3. f[lo + k + 1] \in S
        BY <3>1, <3>2
      <3> QED
        BY <3>1, <3>3
    <2>2. CASE ~(lo + k + 1 <= top)
      BY <2>2
    <2> QED
      BY <2>1, <2>2
  <1> HIDE DEF T
  <1>3. \A k \in Nat : k \in T
    BY <1>1, <1>2, Induction
  <1>4. ASSUME NEW k \in lo .. top PROVE f[k] \in S
    <2>1. k - lo \in Nat /\ lo + (k - lo) = k /\ lo + (k - lo) <= top
      OBVIOUS
    <2> QED
      BY <1>3, <2>1 DEF T
  <1> QED
    BY <1>4

LEMMA StaysDown ==
    ASSUME NEW lo \in Nat, NEW top \in Nat, lo <= top, NEW S, NEW f, f[top] \in S,
           \A k \in lo .. top - 1 : f[k + 1] \in S => f[k] \in S
    PROVE  \A k \in lo .. top : f[k] \in S
  <1> DEFINE T == {k \in Nat : lo <= top - k => f[top - k] \in S}
  <1>1. 0 \in T
    OBVIOUS
  <1>2. ASSUME NEW k \in Nat, k \in T PROVE k + 1 \in T
    <2>1. CASE lo <= top - (k + 1)
      <3>1. PICK j : j = top - (k + 1)
        OBVIOUS
      <3>2. j \in lo .. top - 1 /\ j + 1 = top - k
        BY <2>1, <3>1
      <3>3. f[j + 1] \in S
        BY <1>2, <3>2
      <3>4. f[j] \in S
        BY <3>2, <3>3
      <3> QED
        BY <3>1, <3>4
    <2>2. CASE ~(lo <= top - (k + 1))
      BY <2>2
    <2> QED
      BY <2>1, <2>2
  <1> HIDE DEF T
  <1>3. \A k \in Nat : k \in T
    BY <1>1, <1>2, Induction
  <1>4. ASSUME NEW k \in lo .. top PROVE f[k] \in S
    <2>1. top - k \in Nat /\ top - (top - k) = k
      OBVIOUS
    <2> QED
      BY <1>3, <2>1 DEF T
  <1> QED
    BY <1>4

-----------------------------------------------------------------------------
(* Inverses and roots are elements.                                        *)

IsPowers(f, x, e) == f = [k \in 0 .. e |-> IF k = 0 THEN 1 ELSE (f[k - 1] * x) % p]

LEMMA PowersExist ==
    ASSUME NEW x \in Fe, NEW e \in Nat
    PROVE  \E f : IsPowers(f, x, e)
  <1> DEFINE G == [k \in 0 + 1 .. e |-> [y \in Fe |-> (y * x) % p]]
  <1>1. 1 \in Fe /\ Fe \subseteq Int
    BY FieldSize DEF Fe
  <1>2. G \in [0 + 1 .. e -> [Fe -> Fe]]
    <2>1. ASSUME NEW y \in Fe PROVE (y * x) % p \in Fe
      <3>1. y * x \in Int
        BY <1>1
      <3> QED
        BY <3>1, ReducedIsInField
    <2> QED
      BY <2>1
  <1>3. PICK f \in [0 .. e -> Fe] :
            f[0] = 1 /\ \A k \in 0 + 1 .. e : f[k] = G[k][f[k - 1]]
    <2>1. PICK D, z, one : D = 0 + 1 .. e /\ z = 0 /\ one = 1
      OBVIOUS
    <2> HIDE DEF G
    <2>2. G \in [D -> [Fe -> Fe]]
      BY <1>2, <2>1
    <2>3. \E f : Ascends(f, z, e, Fe, one, G)
      <3>1. z \in Nat /\ z <= e /\ one \in Fe /\ D = z + 1 .. e
        BY <1>1, <2>1
      <3> QED
        BY <2>2, <3>1, UpExists
    <2> QED
      BY <2>1, <2>3 DEF Ascends
  <1>4. ASSUME NEW k \in 0 .. e
        PROVE  f[k] = IF k = 0 THEN 1 ELSE (f[k - 1] * x) % p
    <2>1. CASE k = 0
      BY <1>3, <2>1
    <2>2. CASE k # 0
      <3>1. k \in 0 + 1 .. e /\ k - 1 \in 0 .. e
        BY <2>2
      <3>2. f[k] = G[k][f[k - 1]] /\ f[k - 1] \in Fe
        BY <1>3, <3>1
      <3> QED
        BY <2>2, <3>1, <3>2
    <2> QED
      BY <2>1, <2>2
  <1>5. IsPowers(f, x, e)
    BY <1>3, <1>4 DEF IsPowers
  <1> QED
    BY <1>5

LEMMA PowerIsInField ==
    ASSUME NEW x \in Fe, NEW e \in Nat
    PROVE  PowerOf(x, e) \in Fe
  <1> DEFINE f == CHOOSE g : IsPowers(g, x, e)
  <1>1. IsPowers(f, x, e)
    BY PowersExist
  <1>2. PowerOf(x, e) = f[e]
    BY DEF PowerOf, IsPowers
  <1> HIDE DEF f
  <1>3. f[0] \in Fe
    BY <1>1, FieldSize DEF IsPowers, Fe
  <1>4. ASSUME NEW k \in 0 + 1 .. e, f[k - 1] \in Fe PROVE f[k] \in Fe
    <2>1. f[k] = (f[k - 1] * x) % p
      BY <1>1, <1>4 DEF IsPowers
    <2>2. f[k - 1] * x \in Int
      BY <1>4, FieldSize DEF Fe
    <2> QED
      BY <2>1, <2>2, ReducedIsInField
  <1>5. \A k \in 0 .. e : f[k] \in Fe
    BY <1>3, <1>4, StaysUp
  <1> QED
    BY <1>2, <1>5

LEMMA InverseFits ==
    ASSUME NEW a \in Elems(8)
    PROVE  FeInv(a) \in Elems(1)
  <1>1. a.v \in Fe /\ a.m <= 8
    BY DEF Elems
  <1>2. p - 2 \in Nat
    BY FieldSize
  <1>3. Inverse0[a.v] \in Int
    <2>1. PICK x, e : x = a.v /\ e = p - 2
      OBVIOUS
    <2>2. x \in Fe /\ e \in Nat
      BY <1>1, <1>2, <2>1
    <2>3. PowerOf(x, e) \in Fe
      BY <2>2, PowerIsInField
    <2>4. Inverse0[x] = PowerOf(x, e)
      BY <2>1, <2>2 DEF Inverse0
    <2> QED
      BY <2>1, <2>3, <2>4, FieldSize DEF Fe
  <1>4. Elem(Inverse0[a.v], 1) \in Elems(1)
    BY <1>3, ElemFits
  <1> QED
    BY <1>1, <1>4 DEF FeInv

LEMMA RootFits ==
    ASSUME NEW a \in Elems(8)
    PROVE  FeSqrt(a).r \in Elems(1)
  <1>1. a.v \in Fe /\ a.m <= 8
    BY DEF Elems
  <1>2. (p + 1) \div 4 \in Nat
    BY FieldSize
  <1>3. Root[a.v] \in Int
    <2>1. PICK x, e : x = a.v /\ e = (p + 1) \div 4
      OBVIOUS
    <2>2. x \in Fe /\ e \in Nat
      BY <1>1, <1>2, <2>1
    <2>3. PowerOf(x, e) \in Fe
      BY <2>2, PowerIsInField
    <2>4. Root[x] = PowerOf(x, e)
      BY <2>1, <2>2 DEF Root
    <2> QED
      BY <2>1, <2>3, <2>4, FieldSize DEF Fe
  <1>4. Elem(Root[a.v], 1) \in Elems(1)
    BY <1>3, ElemFits
  <1> QED
    BY <1>1, <1>4 DEF FeSqrt

-----------------------------------------------------------------------------
(* The sets of the points that the formulas take and give.                 *)

Jacobians == [x : Elems(6), y : Elems(4), z : Elems(2), infinity : BOOLEAN]
Affines   == [x : Elems(6), y : Elems(4), infinity : BOOLEAN]
Stored    == [x : Elems(1), y : Elems(1)]
Ratios    == Elems(3)

LEMMA PlusNat ==
    ASSUME NEW i \in Nat, NEW j \in Nat, NEW k \in Nat, i + j = k, k <= 32,
           NEW a \in Elems(i), NEW b \in Elems(j)
    PROVE  FeAdd(a, b) \in Elems(k)
  BY SumFits

LEMMA Times2 == \A a \in Elems(1) : FeMulInt(a, 2) \in Elems(2)
  <1>1. PICK i, k, j : i = 1 /\ k = 2 /\ j = 2
    OBVIOUS
  <1>2. i \in Nat /\ k \in Nat /\ j \in Nat /\ i * k <= j /\ j <= 32
    BY <1>1
  <1>3. \A a \in Elems(i) : FeMulInt(a, k) \in Elems(j)
    BY <1>2, MultipleFits
  <1> QED
    BY <1>1, <1>3

LEMMA Times3 == \A a \in Elems(1) : FeMulInt(a, 3) \in Elems(3)
  <1>1. PICK i, k, j : i = 1 /\ k = 3 /\ j = 3
    OBVIOUS
  <1>2. i \in Nat /\ k \in Nat /\ j \in Nat /\ i * k <= j /\ j <= 32
    BY <1>1
  <1>3. \A a \in Elems(i) : FeMulInt(a, k) \in Elems(j)
    BY <1>2, MultipleFits
  <1> QED
    BY <1>1, <1>3

LEMMA Times4 == \A a \in Elems(1) : FeMulInt(a, 4) \in Elems(4)
  <1>1. PICK i, k, j : i = 1 /\ k = 4 /\ j = 4
    OBVIOUS
  <1>2. i \in Nat /\ k \in Nat /\ j \in Nat /\ i * k <= j /\ j <= 32
    BY <1>1
  <1>3. \A a \in Elems(i) : FeMulInt(a, k) \in Elems(j)
    BY <1>2, MultipleFits
  <1> QED
    BY <1>1, <1>3

LEMMA Times6 == \A a \in Elems(1) : FeMulInt(a, 6) \in Elems(6)
  <1>1. PICK i, k, j : i = 1 /\ k = 6 /\ j = 6
    OBVIOUS
  <1>2. i \in Nat /\ k \in Nat /\ j \in Nat /\ i * k <= j /\ j <= 32
    BY <1>1
  <1>3. \A a \in Elems(i) : FeMulInt(a, k) \in Elems(j)
    BY <1>2, MultipleFits
  <1> QED
    BY <1>1, <1>3

LEMMA SmallElems ==
    ASSUME NEW k \in 0 .. 8, NEW a \in Elems(k)
    PROVE  a \in Elems(8)
  <1>1. PICK e : e = 8
    OBVIOUS
  <1>2. k \in Nat /\ e \in Nat /\ k <= e
    BY <1>1
  <1>3. a \in Elems(e)
    BY <1>2, ElemsGrow
  <1> QED
    BY <1>1, <1>3

LEMMA PointParts ==
    ASSUME NEW a \in Jacobians
    PROVE  /\ a.x \in Elems(6) /\ a.x \in Elems(8)
           /\ a.y \in Elems(4) /\ a.y \in Elems(8)
           /\ a.z \in Elems(2) /\ a.z \in Elems(8)
           /\ a.infinity \in BOOLEAN
  <1>1. a.x \in Elems(6) /\ a.y \in Elems(4) /\ a.z \in Elems(2) /\ a.infinity \in BOOLEAN
    BY DEF Jacobians
  <1>2. a.x \in Elems(8) /\ a.y \in Elems(8) /\ a.z \in Elems(8)
    BY <1>1, SmallElems
  <1> QED
    BY <1>1, <1>2

LEMMA AffineParts ==
    ASSUME NEW a \in Affines
    PROVE  /\ a.x \in Elems(6) /\ a.x \in Elems(8)
           /\ a.y \in Elems(4) /\ a.y \in Elems(8)
           /\ a.infinity \in BOOLEAN
  <1>1. a.x \in Elems(6) /\ a.y \in Elems(4) /\ a.infinity \in BOOLEAN
    BY DEF Affines
  <1>2. a.x \in Elems(8) /\ a.y \in Elems(8)
    BY <1>1, SmallElems
  <1> QED
    BY <1>1, <1>2

\* The magnitudes of a point of small parts.
LEMMA SmallPoint ==
    ASSUME NEW j \in 0 .. 6, NEW k \in 0 .. 4, NEW l \in 0 .. 2,
           NEW x \in Elems(j), NEW y \in Elems(k), NEW z \in Elems(l)
    PROVE  Gej(x, y, z) \in Jacobians
  <1>1. PICK e6, e4, e2 : e6 = 6 /\ e4 = 4 /\ e2 = 2
    OBVIOUS
  <1>2. /\ j \in Nat /\ k \in Nat /\ l \in Nat /\ e6 \in Nat /\ e4 \in Nat /\ e2 \in Nat
        /\ j <= e6 /\ k <= e4 /\ l <= e2
    BY <1>1
  <1>3. x \in Elems(e6)
    BY <1>2, ElemsGrow
  <1>4. y \in Elems(e4)
    BY <1>2, ElemsGrow
  <1>5. z \in Elems(e2)
    BY <1>2, ElemsGrow
  <1> QED
    BY <1>1, <1>3, <1>4, <1>5 DEF Gej, Jacobians

LEMMA InfinityFits == GejSetInfinity \in Jacobians
  <1>1. Zero \in Elems(6) /\ Zero \in Elems(4) /\ Zero \in Elems(2)
    BY ElemFits DEF Zero
  <1> QED
    BY <1>1 DEF GejSetInfinity, Jacobians

\* 2*a, with the magnitudes 6, 4, 2.
LEMMA DoubleFits ==
    ASSUME NEW a \in Jacobians
    PROVE  /\ GejDoubleVar(a).r \in Jacobians
           /\ GejDoubleVar(a).rzr \in Ratios
  <1>0. /\ a.x \in Elems(8) /\ a.y \in Elems(8) /\ a.z \in Elems(8)
        /\ a.y \in Elems(4)
    BY PointParts
  <1>1. CASE a.infinity
    <2>1. FeSetInt(1) \in Ratios
      <3>1. FeSetInt(1) \in Elems(1)
        BY IntegerFitsField
      <3> QED
        BY <3>1, ElemsGrow DEF Ratios
    <2> QED
      BY <1>1, <2>1, InfinityFits DEF GejDoubleVar
  <1>2. CASE ~a.infinity
    <2> DEFINE t1 == FeMulInt(FeSqr(a.x), 3)
               y2 == FeMulInt(FeSqr(a.y), 2)
               t2 == FeSqr(t1)
               t3 == FeMul(y2, a.x)
               t4 == FeMulInt(FeSqr(y2), 2)
    <2>1. t1 \in Elems(3) /\ y2 \in Elems(2)
      BY <1>0, SquareFits, Times2, Times3
    <2>2. t1 \in Elems(8) /\ y2 \in Elems(8)
      BY <2>1, SmallElems
    <2>3. t2 \in Elems(1) /\ t3 \in Elems(1) /\ t4 \in Elems(2)
      BY <1>0, <2>2, SquareFits, ProductFits, Times2
    <2> HIDE DEF t1, y2, t2, t3, t4
    <2>4. FeAdd(FeNegate(FeMulInt(t3, 4), 4), t2) \in Elems(6)
      <3>1. FeMulInt(t3, 4) \in Elems(4)
        BY <2>3, Times4
      <3>2. FeNegate(FeMulInt(t3, 4), 4) \in Elems(5)
        BY <3>1, OppositeFits
      <3> QED
        BY <2>3, <3>2, PlusNat
    <2>5. FeAdd(FeMul(t1, FeAdd(FeMulInt(t3, 6), FeNegate(t2, 1))), FeNegate(t4, 2))
             \in Elems(4)
      <3>1. FeMulInt(t3, 6) \in Elems(6)
        BY <2>3, Times6
      <3>2. FeNegate(t2, 1) \in Elems(2) /\ FeNegate(t4, 2) \in Elems(3)
        BY <2>3, OppositeFits
      <3>3. FeAdd(FeMulInt(t3, 6), FeNegate(t2, 1)) \in Elems(8)
        BY <3>1, <3>2, PlusNat
      <3>4. FeMul(t1, FeAdd(FeMulInt(t3, 6), FeNegate(t2, 1))) \in Elems(1)
        BY <2>2, <3>3, ProductFits
      <3> QED
        BY <3>2, <3>4, PlusNat
    <2>6. FeMulInt(FeMul(a.z, a.y), 2) \in Elems(2)
      BY <1>0, ProductFits, Times2
    <2>7. DoubledFrom(a, t1, t2, t3, t4) \in Jacobians
      BY <2>4, <2>5, <2>6, SmallPoint DEF DoubledFrom
    <2>8. GejDoubleVar(a).r = DoubledFrom(a, t1, t2, t3, t4)
      BY <1>2 DEF GejDoubleVar, Doubled, t1, y2, t2, t3, t4
    <2>9. GejDoubleVar(a).rzr \in Ratios
      <3>1. FeNormalize(a.y) \in Elems(1)
        BY <1>0, NormalizedFits
      <3>2. FeMulInt(FeNormalize(a.y), 2) \in Elems(2)
        BY <3>1, Times2
      <3> QED
        BY <1>2, <3>2, ElemsGrow DEF GejDoubleVar, Ratios
    <2> QED
      BY <2>7, <2>8, <2>9
  <1> QED
    BY <1>1, <1>2, <1>0, PointParts

\* The sum of two different points, with the magnitudes 5, 3, 1.
LEMMA AddDifferentFits ==
    ASSUME NEW a \in Jacobians, NEW s1 \in Elems(1), NEW i \in Elems(3),
           NEW h3 \in Elems(1), NEW t \in Elems(1), NEW z \in Ratios
    PROVE  /\ AddDifferent(a, s1, i, h3, t, z).r \in Jacobians
           /\ AddDifferent(a, s1, i, h3, t, z).rzr \in Ratios
  <1>0. a.z \in Elems(8) /\ z \in Elems(8) /\ i \in Elems(8)
        /\ h3 \in Elems(8) /\ s1 \in Elems(8) /\ t \in Elems(8)
    BY PointParts, SmallElems DEF Ratios
  <1> DEFINE x == FeAdd(FeNegate(FeAdd(FeMulInt(t, 2), h3), 3), FeSqr(i))
             y == FeAdd(FeMul(FeAdd(FeNegate(x, 5), t), i), FeNegate(FeMul(h3, s1), 1))
  <1>1. x \in Elems(5)
    <2>1. FeMulInt(t, 2) \in Elems(2)
      BY Times2
    <2>2. FeAdd(FeMulInt(t, 2), h3) \in Elems(3)
      BY <2>1, PlusNat
    <2>3. FeNegate(FeAdd(FeMulInt(t, 2), h3), 3) \in Elems(4)
      BY <2>2, OppositeFits
    <2>4. FeSqr(i) \in Elems(1)
      BY <1>0, SquareFits
    <2> QED
      BY <2>3, <2>4, PlusNat
  <1> HIDE DEF x
  <1>2. y \in Elems(3)
    <2>1. FeNegate(x, 5) \in Elems(6)
      BY <1>1, OppositeFits
    <2>2. FeAdd(FeNegate(x, 5), t) \in Elems(7)
      BY <2>1, PlusNat
    <2>3. FeAdd(FeNegate(x, 5), t) \in Elems(8)
      BY <2>2, SmallElems
    <2>4. FeMul(FeAdd(FeNegate(x, 5), t), i) \in Elems(1)
      BY <1>0, <2>3, ProductFits
    <2>5. FeMul(h3, s1) \in Elems(1)
      BY <1>0, ProductFits
    <2>6. FeNegate(FeMul(h3, s1), 1) \in Elems(2)
      BY <2>5, OppositeFits
    <2> QED
      BY <2>4, <2>6, PlusNat
  <1>3. FeMul(a.z, z) \in Elems(1)
    BY <1>0, ProductFits
  <1> HIDE DEF y
  <1>4. Gej(x, y, FeMul(a.z, z)) \in Jacobians
    BY <1>1, <1>2, <1>3, SmallPoint
  <1> QED
    BY <1>4 DEF AddDifferent, x, y

LEMMA AddByDifferenceFits ==
    ASSUME NEW a \in Jacobians, NEW u1 \in Elems(1), NEW s1 \in Elems(1),
           NEW h \in Elems(3), NEW i \in Elems(3), NEW bz,
           bz = <<>> \/ bz[1] \in Elems(8)
    PROVE  /\ AddByDifference(a, u1, s1, h, i, bz).r \in Jacobians
           /\ AddByDifference(a, u1, s1, h, i, bz).rzr \in Ratios
  <1>1. CASE h.v = 0 /\ i.v = 0
    BY <1>1, DoubleFits DEF AddByDifference
  <1>2. CASE h.v = 0 /\ ~(i.v = 0)
    <2>1. FeSetInt(0) \in Ratios
      <3>1. FeSetInt(0) \in Elems(1)
        BY IntegerFitsField
      <3> QED
        BY <3>1, ElemsGrow DEF Ratios
    <2> QED
      BY <1>2, <2>1, InfinityFits DEF AddByDifference
  <1>3. CASE ~(h.v = 0)
    <2>0. h \in Elems(8) /\ u1 \in Elems(8)
      BY SmallElems
    <2>1. FeSqr(h) \in Elems(1)
      BY <2>0, SquareFits
    <2>2. FeSqr(h) \in Elems(8)
      BY <2>1, SmallElems
    <2>3. FeMul(h, FeSqr(h)) \in Elems(1) /\ FeMul(u1, FeSqr(h)) \in Elems(1)
      BY <2>0, <2>2, ProductFits
    <2> DEFINE z == IF bz = <<>> THEN h ELSE FeMul(h, bz[1])
    <2>4. z \in Ratios
      <3>1. CASE bz = <<>>
        BY <3>1 DEF Ratios
      <3>2. CASE bz # <<>>
        <4>1. FeMul(h, bz[1]) \in Elems(1)
          BY <2>0, <3>2, ProductFits
        <4>2. FeMul(h, bz[1]) \in Elems(3)
          BY <4>1, ElemsGrow
        <4> QED
          BY <3>2, <4>2 DEF Ratios
      <3> QED
        BY <3>1, <3>2
    <2> HIDE DEF z
    <2>5. AddByDifference(a, u1, s1, h, i, bz)
             = AddDifferent(a, s1, i, FeMul(h, FeSqr(h)), FeMul(u1, FeSqr(h)), z)
      BY <1>3 DEF AddByDifference, z
    <2> QED
      BY <2>3, <2>4, <2>5, AddDifferentFits
  <1> QED
    BY <1>1, <1>2, <1>3

LEMMA AddFinishFits ==
    ASSUME NEW a \in Jacobians, NEW u1 \in Elems(1), NEW s1 \in Elems(1),
           NEW u2 \in Elems(1), NEW s2 \in Elems(1), NEW bz,
           bz = <<>> \/ bz[1] \in Elems(8)
    PROVE  /\ AddFinish(a, u1, s1, u2, s2, bz).r \in Jacobians
           /\ AddFinish(a, u1, s1, u2, s2, bz).rzr \in Ratios
  <1>1. FeNegate(u1, 1) \in Elems(2) /\ FeNegate(s1, 1) \in Elems(2)
    BY OppositeFits
  <1>2. FeAdd(FeNegate(u1, 1), u2) \in Elems(3) /\ FeAdd(FeNegate(s1, 1), s2) \in Elems(3)
    BY <1>1, PlusNat
  <1> QED
    BY <1>2, AddByDifferenceFits DEF AddFinish

\* What an addition makes of the coordinates of its operands.
LEMMA CommonZFits ==
    ASSUME NEW x \in Elems(8), NEW y \in Elems(8), NEW z \in Elems(8)
    PROVE  /\ FeMul(x, FeSqr(z)) \in Elems(1)
           /\ FeMul(FeMul(y, FeSqr(z)), z) \in Elems(1)
           /\ FeMul(y, FeMul(FeSqr(z), z)) \in Elems(1)
  <1>1. FeSqr(z) \in Elems(1)
    BY SquareFits
  <1>2. FeSqr(z) \in Elems(8)
    BY <1>1, SmallElems
  <1>3. FeMul(x, FeSqr(z)) \in Elems(1) /\ FeMul(y, FeSqr(z)) \in Elems(1)
        /\ FeMul(FeSqr(z), z) \in Elems(1)
    BY <1>2, ProductFits
  <1>4. FeMul(y, FeSqr(z)) \in Elems(8) /\ FeMul(FeSqr(z), z) \in Elems(8)
    BY <1>3, SmallElems
  <1> QED
    BY <1>3, <1>4, ProductFits

\* The same with the factors of y in the other order.
LEMMA OtherZFits ==
    ASSUME NEW y \in Elems(8), NEW z \in Elems(8), NEW az \in Elems(8)
    PROVE  FeMul(FeMul(y, FeSqr(z)), az) \in Elems(1)
  <1>1. FeSqr(z) \in Elems(1)
    BY SquareFits
  <1>2. FeSqr(z) \in Elems(8)
    BY <1>1, SmallElems
  <1>3. FeMul(y, FeSqr(z)) \in Elems(1)
    BY <1>2, ProductFits
  <1>4. FeMul(y, FeSqr(z)) \in Elems(8)
    BY <1>3, SmallElems
  <1> QED
    BY <1>4, ProductFits

LEMMA AddVarFits ==
    ASSUME NEW a \in Jacobians, NEW b \in Jacobians
    PROVE  GejAddVar(a, b).r \in Jacobians
  <1>1. CASE a.infinity
    BY <1>1 DEF GejAddVar
  <1>2. CASE ~a.infinity /\ b.infinity
    BY <1>2 DEF GejAddVar
  <1>3. CASE ~a.infinity /\ ~b.infinity
    <2>1. /\ a.x \in Elems(8) /\ a.y \in Elems(8) /\ a.z \in Elems(8)
          /\ b.x \in Elems(8) /\ b.y \in Elems(8) /\ b.z \in Elems(8)
      BY PointParts
    <2> DEFINE u1 == FeMul(a.x, FeSqr(b.z))
               s1 == FeMul(FeMul(a.y, FeSqr(b.z)), b.z)
               u2 == FeMul(b.x, FeSqr(a.z))
               s2 == FeMul(FeMul(b.y, FeSqr(a.z)), a.z)
               bz == <<b.z>>
    <2>2. u1 \in Elems(1) /\ s1 \in Elems(1) /\ u2 \in Elems(1) /\ s2 \in Elems(1)
      BY <2>1, CommonZFits
    <2>3. bz[1] \in Elems(8)
      BY <2>1
    <2>4. GejAddVar(a, b) = AddFinish(a, u1, s1, u2, s2, bz)
      BY <1>3 DEF GejAddVar
    <2> HIDE DEF u1, s1, u2, s2, bz
    <2> QED
      BY <2>2, <2>3, <2>4, AddFinishFits
  <1> QED
    BY <1>1, <1>2, <1>3, PointParts

LEMMA AffineFits ==
    ASSUME NEW b \in Affines
    PROVE  GejSetGe(b) \in Jacobians
  <1>1. b.x \in Elems(6) /\ b.y \in Elems(4)
    BY AffineParts
  <1>2. FeSetInt(1) \in Elems(2)
    <2>1. FeSetInt(1) \in Elems(1)
      BY IntegerFitsField
    <2> QED
      BY <2>1, ElemsGrow
  <1> QED
    BY <1>1, <1>2, AffineParts DEF GejSetGe, Jacobians

\* Only where a is at infinity the ratio may not be asked for.
LEMMA AddGeVarFits ==
    ASSUME NEW a \in Jacobians, NEW b \in Affines
    PROVE  /\ GejAddGeVar(a, b).r \in Jacobians
           /\ ~a.infinity => GejAddGeVar(a, b).rzr \in Ratios
  <1>1. CASE a.infinity
    BY <1>1, AffineFits DEF GejAddGeVar
  <1>2. CASE ~a.infinity /\ b.infinity
    <2>1. FeSetInt(1) \in Ratios
      <3>1. FeSetInt(1) \in Elems(1)
        BY IntegerFitsField
      <3> QED
        BY <3>1, ElemsGrow DEF Ratios
    <2> QED
      BY <1>2, <2>1 DEF GejAddGeVar
  <1>3. CASE ~a.infinity /\ ~b.infinity
    <2>1. /\ a.x \in Elems(8) /\ a.y \in Elems(8) /\ a.z \in Elems(8)
          /\ b.x \in Elems(8) /\ b.y \in Elems(8)
          /\ a.x \in Elems(6) /\ a.y \in Elems(4)
      BY PointParts, AffineParts
    <2> DEFINE u1 == FeNormalize(a.x)
               s1 == FeNormalize(a.y)
               u2 == FeMul(b.x, FeSqr(a.z))
               s2 == FeMul(FeMul(b.y, FeSqr(a.z)), a.z)
    <2>2. u1 \in Elems(1) /\ s1 \in Elems(1)
      BY <2>1, NormalizedFits
    <2>3. u2 \in Elems(1) /\ s2 \in Elems(1)
      BY <2>1, CommonZFits
    <2>4. GejAddGeVar(a, b) = AddFinish(a, u1, s1, u2, s2, <<>>)
      BY <1>3 DEF GejAddGeVar
    <2> HIDE DEF u1, s1, u2, s2
    <2> QED
      BY <2>2, <2>3, <2>4, AddFinishFits
  <1> QED
    BY <1>1, <1>2, <1>3, PointParts, AffineParts

LEMMA SetGejZinvFits ==
    ASSUME NEW a, a.x \in Elems(8), a.y \in Elems(8), a.infinity \in BOOLEAN,
           NEW zi \in Elems(8)
    PROVE  GeSetGejZinv(a, zi) \in Affines
  <1>1. FeMul(a.x, FeSqr(zi)) \in Elems(1) /\ FeMul(a.y, FeMul(FeSqr(zi), zi)) \in Elems(1)
    BY CommonZFits
  <1>2. FeMul(a.x, FeSqr(zi)) \in Elems(6) /\ FeMul(a.y, FeMul(FeSqr(zi), zi)) \in Elems(4)
    BY <1>1, ElemsGrow
  <1> QED
    BY <1>2 DEF GeSetGejZinv, Affines

\* b may be any point whose coordinates are small enough for a multiplication.
LEMMA AddZinvVarFits ==
    ASSUME NEW a \in Jacobians, NEW b \in Affines, NEW bzinv \in Elems(8)
    PROVE  GejAddZinvVar(a, b, bzinv) \in Jacobians
  <1>0. b.x \in Elems(8) /\ b.y \in Elems(8) /\ b.infinity \in BOOLEAN
    BY AffineParts
  <1>1. CASE b.infinity
    BY <1>1 DEF GejAddZinvVar
  <1>2. CASE a.infinity /\ ~b.infinity
    BY <1>0, <1>2, SetGejZinvFits, AffineFits DEF GejAddZinvVar
  <1>3. CASE ~a.infinity /\ ~b.infinity
    <2>1. /\ a.x \in Elems(6) /\ a.y \in Elems(4) /\ a.z \in Elems(8)
      BY PointParts
    <2> DEFINE az == FeMul(a.z, bzinv)
               u1 == FeNormalize(a.x)
               s1 == FeNormalize(a.y)
               u2 == FeMul(b.x, FeSqr(az))
               s2 == FeMul(FeMul(b.y, FeSqr(az)), az)
    <2>2. az \in Elems(8)
      <3>1. az \in Elems(1)
        BY <2>1, ProductFits
      <3> HIDE DEF az
      <3> QED
        BY <3>1, SmallElems
    <2>3. u1 \in Elems(1) /\ s1 \in Elems(1)
      BY <2>1, NormalizedFits
    <2>4. u2 \in Elems(1) /\ s2 \in Elems(1)
      <3> HIDE DEF az
      <3> QED
        BY <1>0, <2>2, CommonZFits
    <2>5. GejAddZinvVar(a, b, bzinv) = AddFinish(a, u1, s1, u2, s2, <<>>).r
      BY <1>3 DEF GejAddZinvVar
    <2> HIDE DEF u1, s1, u2, s2
    <2> QED
      BY <2>3, <2>4, <2>5, AddFinishFits
  <1> QED
    BY <1>0, <1>1, <1>2, <1>3, PointParts

LEMMA AffineInfinityFits == GeInfinity \in Affines
  <1>1. Zero \in Elems(6) /\ Zero \in Elems(4)
    BY ElemFits DEF Zero
  <1> QED
    BY <1>1 DEF GeInfinity, Affines

LEMMA SetGejFits ==
    ASSUME NEW a \in Jacobians
    PROVE  GeSetGej(a) \in Affines /\ GeSetGejVar(a) \in Affines
  <1>1. a.x \in Elems(8) /\ a.y \in Elems(8) /\ a.z \in Elems(8) /\ a.infinity \in BOOLEAN
    BY PointParts
  <1>2. FeInv(a.z) \in Elems(8)
    <2>1. FeInv(a.z) \in Elems(1)
      BY <1>1, InverseFits
    <2> QED
      BY <2>1, SmallElems
  <1>3. GeSetGej(a) \in Affines
    BY <1>1, <1>2, SetGejZinvFits DEF GeSetGej
  <1> QED
    BY <1>3, AffineInfinityFits DEF GeSetGejVar

LEMMA OppositePointFits ==
    ASSUME NEW a \in Affines
    PROVE  GeNeg(a) \in Affines
  <1>1. FeNormalize(a.y) \in Elems(1)
    BY AffineParts, NormalizedFits
  <1>2. FeNegate(FeNormalize(a.y), 1) \in Elems(2)
    BY <1>1, OppositeFits
  <1>3. FeNegate(FeNormalize(a.y), 1) \in Elems(4)
    BY <1>2, ElemsGrow
  <1> QED
    BY <1>3 DEF GeNeg, Affines

LEMMA OppositeJacobianFits ==
    ASSUME NEW a \in Jacobians
    PROVE  GejNeg(a) \in Jacobians
  <1>1. FeNormalize(a.y) \in Elems(1)
    BY PointParts, NormalizedFits
  <1>2. FeNegate(FeNormalize(a.y), 1) \in Elems(2)
    BY <1>1, OppositeFits
  <1>3. FeNegate(FeNormalize(a.y), 1) \in Elems(4)
    BY <1>2, ElemsGrow
  <1> QED
    BY <1>3 DEF GejNeg, Jacobians

LEMMA RescaledFits ==
    ASSUME NEW a \in Jacobians, NEW s \in Elems(8)
    PROVE  GejRescale(a, s) \in Jacobians
  <1>1. a.x \in Elems(8) /\ a.y \in Elems(8) /\ a.z \in Elems(8)
    BY PointParts
  <1>2. FeMul(a.x, FeSqr(s)) \in Elems(1) /\ FeMul(FeMul(a.y, FeSqr(s)), s) \in Elems(1)
    BY <1>1, CommonZFits
  <1>3. FeMul(a.z, s) \in Elems(1)
    BY <1>1, ProductFits
  <1>4. FeMul(a.x, FeSqr(s)) \in Elems(6) /\ FeMul(FeMul(a.y, FeSqr(s)), s) \in Elems(4)
        /\ FeMul(a.z, s) \in Elems(2)
    BY <1>2, <1>3, ElemsGrow
  <1> QED
    BY <1>4 DEF GejRescale, Jacobians

LEMMA StoredFits ==
    ASSUME NEW a, a.x \in Elems(8), a.y \in Elems(8)
    PROVE  GeToStorage(a) \in Stored
  <1>1. FeNormalize(a.x) \in Elems(1) /\ FeNormalize(a.y) \in Elems(1)
    BY NormalizedFits
  <1> QED
    BY <1>1 DEF GeToStorage, Stored

LEMMA UnstoredFits ==
    ASSUME NEW s \in Stored
    PROVE  GeFromStorage(s) \in Affines
  <1>1. s.x \in Elems(1) /\ s.y \in Elems(1)
    BY DEF Stored
  <1>2. s.x \in Elems(6) /\ s.y \in Elems(4)
    BY <1>1, ElemsGrow
  <1> QED
    BY <1>2 DEF GeFromStorage, Ge, Affines

LEMMA LiftedFits ==
    ASSUME NEW x \in Elems(1), NEW odd \in BOOLEAN
    PROVE  GeSetXoVar(x, odd).r \in Affines /\ GeSetXoVar(x, odd).ok \in BOOLEAN
  <1> DEFINE c == FeAdd(FeSetInt(CurveB), FeMul(x, FeSqr(x)))
             s == FeSqrt(c)
  <1>1. c \in Elems(8)
    <2>1. x \in Elems(8)
      BY SmallElems
    <2>2. FeMul(x, FeSqr(x)) \in Elems(1)
      BY <2>1, CommonZFits
    <2>3. FeSetInt(CurveB) \in Elems(1)
      BY EcmultAssumption, IntegerFitsField
    <2>4. c \in Elems(2)
      BY <2>2, <2>3, PlusNat
    <2> HIDE DEF c
    <2> QED
      BY <2>4, SmallElems
  <1> HIDE DEF c
  <1>2. s.r \in Elems(1) /\ s.ok \in BOOLEAN
    BY <1>1, RootFits DEF FeSqrt, FeEqual
  <1> HIDE DEF s
  <1>3. GeSetXquad(x) = [r |-> Ge(x, s.r), ok |-> s.ok]
    BY DEF GeSetXquad, c, s
  <1> DEFINE q == [r |-> Ge(x, s.r), ok |-> s.ok]
             y == FeNormalize(q.r.y)
  <1>4. y \in Elems(1)
    BY <1>2, NormalizedFits DEF Ge
  <1> HIDE DEF y
  <1>5. y \in Elems(4) /\ FeNegate(y, 1) \in Elems(4) /\ s.r \in Elems(4) /\ x \in Elems(6)
    <2>1. FeNegate(y, 1) \in Elems(2)
      BY <1>4, OppositeFits
    <2> QED
      BY <1>2, <1>4, <2>1, ElemsGrow
  <1>6. GeSetXoVar(x, odd) = IF ~s.ok THEN q
            ELSE [q EXCEPT !.r.y = IF FeIsOdd(y) # odd THEN FeNegate(y, 1) ELSE y]
    BY <1>3 DEF GeSetXoVar, WithOddness, y
  <1>7. q.r \in Affines
    BY <1>2, <1>5 DEF Ge, Affines
  <1>8. CASE ~s.ok
    BY <1>2, <1>6, <1>7, <1>8
  <1>9. CASE s.ok
    <2>1. PICK v \in Elems(4) : v = IF FeIsOdd(y) # odd THEN FeNegate(y, 1) ELSE y
      BY <1>5
    <2>2. GeSetXoVar(x, odd) = [q EXCEPT !.r.y = v]
      BY <1>6, <1>9, <2>1
    <2>3. [q EXCEPT !.r.y = v].r = Ge(x, v) /\ [q EXCEPT !.r.y = v].ok = s.ok
      BY DEF Ge
    <2> QED
      BY <1>2, <1>5, <2>2, <2>3 DEF Ge, Affines
  <1> QED
    BY <1>2, <1>8, <1>9

\* The constant-time addition, with the magnitudes 4, 4, 2.
LEMMA PickSumFits ==
    ASSUME NEW a \in Jacobians, NEW b \in Affines, NEW x \in Elems(1), NEW y \in Elems(4),
           NEW z \in Elems(1)
    PROVE  PickSum(a, b, x, y, z) \in Jacobians
  <1> DEFINE inf == a.infinity
             px == FeCMov(FeMulInt(x, 4), b.x, inf)
             py == FeCMov(FeMulInt(FeNormalize(y), 4), b.y, inf)
             pz == FeCMov(FeMulInt(z, 2), FeSetInt(1), inf)
  <1>1. px \in Elems(6)
    <2>1. FeMulInt(x, 4) \in Elems(4)
      BY Times4
    <2>2. FeMulInt(x, 4) \in Elems(6) /\ b.x \in Elems(6)
      BY <2>1, AffineParts, ElemsGrow
    <2> QED
      BY <2>2, ChosenFits
  <1>2. py \in Elems(4)
    <2>1. FeNormalize(y) \in Elems(1)
      BY NormalizedFits
    <2>2. FeMulInt(FeNormalize(y), 4) \in Elems(4) /\ b.y \in Elems(4)
      BY <2>1, Times4, AffineParts
    <2> QED
      BY <2>2, ChosenFits
  <1>3. pz \in Elems(2)
    <2>1. FeSetInt(1) \in Elems(1)
      BY IntegerFitsField
    <2>2. FeMulInt(z, 2) \in Elems(2) /\ FeSetInt(1) \in Elems(2)
      BY <2>1, Times2, ElemsGrow
    <2> QED
      BY <2>2, ChosenFits
  <1>4. PickSum(a, b, x, y, z)
           = [x |-> px, y |-> py, z |-> pz, infinity |-> z.v = 0 /\ ~a.infinity]
    BY DEF PickSum
  <1> HIDE DEF px, py, pz
  <1> QED
    BY <1>1, <1>2, <1>3, <1>4 DEF Jacobians

LEMMA SumOfSlopeFits ==
    ASSUME NEW a \in Jacobians, NEW b \in Affines, NEW rrAlt \in Elems(2), NEW q \in Elems(2),
           NEW n4 \in Elems(2), NEW z \in Elems(1)
    PROVE  SumOfSlope(a, b, rrAlt, q, n4, z) \in Jacobians
  <1> DEFINE x == FeNormalize(FeAdd(FeSqr(rrAlt), q))
             y == FeNegate(FeAdd(FeMul(FeAdd(FeMulInt(x, 2), q), rrAlt), n4), 3)
  <1>0. rrAlt \in Elems(8)
    BY SmallElems
  <1>1. x \in Elems(1)
    <2>1. FeSqr(rrAlt) \in Elems(1)
      BY <1>0, SquareFits
    <2>2. FeAdd(FeSqr(rrAlt), q) \in Elems(3)
      BY <2>1, PlusNat
    <2> QED
      BY <2>2, NormalizedFits
  <1>2. SumOfSlope(a, b, rrAlt, q, n4, z) = PickSum(a, b, x, y, z)
    BY DEF SumOfSlope
  <1> HIDE DEF x
  <1>3. y \in Elems(4)
    <2>1. FeMulInt(x, 2) \in Elems(2)
      BY <1>1, Times2
    <2>2. FeAdd(FeMulInt(x, 2), q) \in Elems(4)
      BY <2>1, PlusNat
    <2>3. FeAdd(FeMulInt(x, 2), q) \in Elems(8)
      BY <2>2, SmallElems
    <2>4. FeMul(FeAdd(FeMulInt(x, 2), q), rrAlt) \in Elems(1)
      BY <1>0, <2>3, ProductFits
    <2>5. FeAdd(FeMul(FeAdd(FeMulInt(x, 2), q), rrAlt), n4) \in Elems(3)
      BY <2>4, PlusNat
    <2> QED
      BY <2>5, OppositeFits
  <1> HIDE DEF y
  <1> QED
    BY <1>1, <1>2, <1>3, PickSumFits

LEMMA WithSlopeFits ==
    ASSUME NEW a \in Jacobians, NEW b \in Affines, NEW t \in Elems(2), NEW m \in Elems(2),
           NEW rrAlt \in Elems(2), NEW mAlt \in Elems(3), NEW flag
    PROVE  WithSlope(a, b, t, m, rrAlt, mAlt, flag) \in Jacobians
  <1> DEFINE sq == FeSqr(mAlt)
             q  == FeNegate(FeMul(sq, t), 1)
             n4 == FeCMov(FeSqr(sq), m, flag)
             z  == FeMul(a.z, mAlt)
  <1>0. mAlt \in Elems(8) /\ t \in Elems(8) /\ a.z \in Elems(8)
    BY SmallElems, PointParts
  <1>1. sq \in Elems(1)
    BY <1>0, SquareFits
  <1>2. z \in Elems(1)
    BY <1>0, ProductFits
  <1>3. WithSlope(a, b, t, m, rrAlt, mAlt, flag) = SumOfSlope(a, b, rrAlt, q, n4, z)
    BY DEF WithSlope
  <1> HIDE DEF sq, z
  <1>4. sq \in Elems(8)
    BY <1>1, SmallElems
  <1>5. q \in Elems(2)
    <2>1. FeMul(sq, t) \in Elems(1)
      BY <1>0, <1>4, ProductFits
    <2> QED
      BY <2>1, OppositeFits
  <1>6. n4 \in Elems(2)
    <2>1. FeSqr(sq) \in Elems(1)
      BY <1>4, SquareFits
    <2>2. FeSqr(sq) \in Elems(2)
      BY <2>1, ElemsGrow
    <2> QED
      BY <2>2, ChosenFits
  <1> HIDE DEF q, n4
  <1> QED
    BY <1>2, <1>3, <1>5, <1>6, SumOfSlopeFits

LEMMA AddGeFits ==
    ASSUME NEW a \in Jacobians, NEW b \in Affines
    PROVE  GejAddGe(a, b) \in Jacobians
  <1>0. /\ a.x \in Elems(6) /\ a.y \in Elems(4) /\ a.z \in Elems(8)
        /\ b.x \in Elems(8) /\ b.y \in Elems(8)
    BY PointParts, AffineParts
  <1> DEFINE u1 == FeNormalize(a.x)
             u2 == FeMul(b.x, FeSqr(a.z))
             s1 == FeNormalize(a.y)
             s2 == FeMul(FeMul(b.y, FeSqr(a.z)), a.z)
             t  == FeAdd(u1, u2)
             minusU2 == FeNegate(u2, 1)
             m  == FeAdd(s1, s2)
             rr == FeAdd(FeSqr(t), FeMul(u1, minusU2))
             degenerate == Degenerate(m, rr)
             rrAlt == FeCMov(FeMulInt(s1, 2), rr, ~degenerate)
             mAlt == FeCMov(FeAdd(minusU2, u1), m, ~degenerate)
  <1>1. u1 \in Elems(1) /\ s1 \in Elems(1)
    BY <1>0, NormalizedFits
  <1>2. u2 \in Elems(1) /\ s2 \in Elems(1)
    BY <1>0, CommonZFits
  <1>3. GejAddGe(a, b) = WithSlope(a, b, t, m, rrAlt, mAlt, degenerate)
    BY DEF GejAddGe, AddCommonZ, ChooseSlope
  <1> HIDE DEF u1, u2, s1, s2
  <1>4. t \in Elems(2) /\ m \in Elems(2)
    BY <1>1, <1>2, PlusNat
  <1>5. minusU2 \in Elems(2)
    BY <1>2, OppositeFits
  <1> HIDE DEF t, m, minusU2
  <1>6. rr \in Elems(2)
    <2>1. t \in Elems(8) /\ u1 \in Elems(8) /\ minusU2 \in Elems(8)
      BY <1>1, <1>4, <1>5, SmallElems
    <2>2. FeSqr(t) \in Elems(1) /\ FeMul(u1, minusU2) \in Elems(1)
      BY <2>1, SquareFits, ProductFits
    <2> QED
      BY <2>2, PlusNat
  <1> HIDE DEF rr, degenerate
  <1>7. rrAlt \in Elems(2)
    <2>1. FeMulInt(s1, 2) \in Elems(2)
      BY <1>1, Times2
    <2> QED
      BY <1>6, <2>1, ChosenFits
  <1>8. mAlt \in Elems(3)
    <2>1. FeAdd(minusU2, u1) \in Elems(3)
      BY <1>1, <1>5, PlusNat
    <2>2. m \in Elems(3)
      BY <1>4, ElemsGrow
    <2> QED
      BY <2>1, <2>2, ChosenFits
  <1> HIDE DEF rrAlt, mAlt
  <1> QED
    BY <1>3, <1>4, <1>7, <1>8, WithSlopeFits

LEMMA GenSizes ==
    /\ GenBits \in Nat /\ GenGroups \in Nat \ {0} /\ GenGroups * GenBits = Bits
    /\ 2^GenBits \in Nat \ {0} /\ GenBits <= Top
  <1>1. GenBits \in Nat /\ GenGroups \in Nat \ {0} /\ GenGroups * GenBits = Bits
    BY EcmultAssumption
  <1>2. GenBits <= Bits
    <2>1. 1 * GenBits <= GenGroups * GenBits
      BY <1>1, TimesMonotone
    <2> QED
      BY <1>1, <2>1
  <1>3. Bits <= Top /\ Bits \in Nat /\ Top \in Nat
    BY Scalars, Powers
  <1>4. GenBits \in 0 .. Top
    BY <1>1, <1>2, <1>3
  <1>5. 2^GenBits \in Nat \ {0}
    BY <1>4, Powers
  <1> QED
    BY <1>1, <1>4, <1>5

-----------------------------------------------------------------------------
(* Loops over points.                                                      *)

\* A function defined by recursion upwards, and one downwards.
LoopsUp(f, lo, top, S, x0, G) ==
    /\ f \in [lo .. top -> S]
    /\ \A k \in lo .. top : f[k] = IF k = lo THEN x0 ELSE G[k][f[k - 1]]

LoopsDown(f, lo, top, S, x0, G) ==
    /\ f \in [lo .. top -> S]
    /\ \A k \in lo .. top : f[k] = IF k = top THEN x0 ELSE G[k][f[k + 1]]

LEMMA LoopUp ==
    ASSUME NEW lo \in Nat, NEW top \in Nat, lo <= top, NEW S, NEW x0 \in S,
           NEW D, D = lo + 1 .. top, NEW G \in [D -> [S -> S]]
    PROVE  \E f : LoopsUp(f, lo, top, S, x0, G)
  <1>1. PICK f : Ascends(f, lo, top, S, x0, G)
    BY UpExists
  <1>2. f \in [lo .. top -> S]
    BY <1>1 DEF Ascends
  <1>3. ASSUME NEW k \in lo .. top PROVE f[k] = IF k = lo THEN x0 ELSE G[k][f[k - 1]]
    <2>1. CASE k = lo
      BY <1>1, <2>1 DEF Ascends
    <2>2. CASE k # lo
      <3>1. k \in lo + 1 .. top
        BY <2>2
      <3> QED
        BY <1>1, <2>2, <3>1 DEF Ascends
    <2> QED
      BY <2>1, <2>2
  <1> QED
    BY <1>2, <1>3 DEF LoopsUp

LEMMA LoopDown ==
    ASSUME NEW lo \in Nat, NEW top \in Nat, lo <= top, NEW S, NEW x0 \in S,
           NEW D, D = lo .. top - 1, NEW G \in [D -> [S -> S]]
    PROVE  \E f : LoopsDown(f, lo, top, S, x0, G)
  <1>1. PICK f : Descends(f, lo, top, S, x0, G)
    BY DownExists
  <1>2. f \in [lo .. top -> S]
    BY <1>1 DEF Descends
  <1>3. ASSUME NEW k \in lo .. top PROVE f[k] = IF k = top THEN x0 ELSE G[k][f[k + 1]]
    <2>1. CASE k = top
      BY <1>1, <2>1 DEF Descends
    <2>2. CASE k # top
      <3>1. k \in lo .. top - 1
        BY <2>2
      <3> QED
        BY <1>1, <2>2, <3>1 DEF Descends
    <2> QED
      BY <2>1, <2>2
  <1> QED
    BY <1>2, <1>3 DEF LoopsDown

\* Doubled again and again, in both multiplications.
IsDoublings(f, a, k) ==
    f = [j \in 0 .. k |-> IF j = 0 THEN a ELSE GejDoubleVar(f[j - 1]).r]

LEMMA DoublingsExist ==
    ASSUME NEW a \in Jacobians, NEW top \in Nat
    PROVE  \E f : IsDoublings(f, a, top)
  <1>1. PICK lo, D : lo = 0 /\ lo \in Nat /\ lo <= top /\ D = lo + 1 .. top
    OBVIOUS
  <1> DEFINE G == [k \in D |-> [x \in Jacobians |-> GejDoubleVar(x).r]]
  <1>2. G \in [D -> [Jacobians -> Jacobians]]
    BY DoubleFits
  <1>3. \A k \in D, x \in Jacobians : G[k][x] = GejDoubleVar(x).r
    OBVIOUS
  <1> HIDE DEF G
  <1>4. PICK f : LoopsUp(f, lo, top, Jacobians, a, G)
    BY <1>1, <1>2, LoopUp
  <1>5. \A k \in lo .. top : k # lo => k \in D /\ f[k - 1] \in Jacobians
    BY <1>1, <1>4 DEF LoopsUp
  <1> QED
    BY <1>1, <1>3, <1>4, <1>5 DEF LoopsUp, IsDoublings

LEMMA DoublingsFit ==
    ASSUME NEW a \in Jacobians, NEW top \in Nat
    PROVE  DoubledVar(a, top) \in Jacobians /\ DoubledNonzero(a, top) \in Jacobians
  <1> DEFINE f == CHOOSE g : IsDoublings(g, a, top)
  <1>1. IsDoublings(f, a, top)
    BY DoublingsExist
  <1>2. DoubledVar(a, top) = f[top] /\ DoubledNonzero(a, top) = f[top]
    BY DEF DoubledVar, DoubledNonzero, GejDoubleNonzero, IsDoublings
  <1> HIDE DEF f
  <1>3. PICK lo : lo = 0
    OBVIOUS
  <1>4. f[lo] \in Jacobians
    BY <1>1, <1>3 DEF IsDoublings
  <1>5. \A k \in lo + 1 .. top : f[k - 1] \in Jacobians => f[k] \in Jacobians
    BY <1>1, <1>3, DoubleFits DEF IsDoublings
  <1>6. \A k \in lo .. top : f[k] \in Jacobians
    BY <1>3, <1>4, <1>5, StaysUp
  <1> QED
    BY <1>2, <1>3, <1>6

\* The rows of the generator's table.
IsGenRow(f, g, b, top) ==
    f = [i \in 0 .. top |-> IF i = 0 THEN b ELSE GejAddVar(f[i - 1], g).r]

LEMMA GenRowExists ==
    ASSUME NEW g \in Jacobians, NEW b \in Jacobians, NEW top \in Nat
    PROVE  \E f : IsGenRow(f, g, b, top)
  <1>1. PICK lo, D : lo = 0 /\ lo \in Nat /\ lo <= top /\ D = lo + 1 .. top
    OBVIOUS
  <1> DEFINE G == [k \in D |-> [x \in Jacobians |-> GejAddVar(x, g).r]]
  <1>2. G \in [D -> [Jacobians -> Jacobians]]
    BY AddVarFits
  <1>3. \A k \in D, x \in Jacobians : G[k][x] = GejAddVar(x, g).r
    OBVIOUS
  <1> HIDE DEF G
  <1>4. PICK f : LoopsUp(f, lo, top, Jacobians, b, G)
    BY <1>1, <1>2, LoopUp
  <1>5. \A k \in lo .. top : k # lo => k \in D /\ f[k - 1] \in Jacobians
    BY <1>1, <1>4 DEF LoopsUp
  <1> QED
    BY <1>1, <1>3, <1>4, <1>5 DEF LoopsUp, IsGenRow

LEMMA GenRowFits ==
    ASSUME NEW g \in Jacobians, NEW b \in Jacobians
    PROVE  \A i \in 0 .. 2^GenBits - 1 : GenRow(g, b)[i] \in Jacobians
  <1>1. PICK lo, top : lo = 0 /\ top = 2^GenBits - 1
    OBVIOUS
  <1>2. top \in Nat /\ lo \in Nat /\ lo <= top
    BY <1>1, GenSizes
  <1> DEFINE f == CHOOSE h : IsGenRow(h, g, b, top)
  <1>3. IsGenRow(f, g, b, top)
    BY <1>2, GenRowExists
  <1>4. GenRow(g, b) = f
    BY <1>1 DEF GenRow, IsGenRow
  <1> HIDE DEF f
  <1>5. f[lo] \in Jacobians
    BY <1>1, <1>2, <1>3 DEF IsGenRow
  <1>6. \A k \in lo + 1 .. top : f[k - 1] \in Jacobians => f[k] \in Jacobians
    BY <1>1, <1>3, AddVarFits DEF IsGenRow
  <1>7. \A k \in lo .. top : f[k] \in Jacobians
    BY <1>1, <1>2, <1>5, <1>6, StaysUp
  <1> QED
    BY <1>1, <1>4, <1>7

\* Looking at every entry of a row.
IsGenEntry(f, row, bits, top) ==
    f = [i \in 0 .. top |-> IF i = 0 THEN GeToStorage(GeClear)
                            ELSE GeStorageCMov(f[i - 1], row[i - 1], i - 1 = bits)]

LEMMA ClearFits == GeToStorage(GeClear) \in Stored
  <1>1. Zero \in Elems(8)
    BY ElemFits DEF Zero
  <1> QED
    BY <1>1, StoredFits DEF GeClear, Ge

LEMMA GenEntryExists ==
    ASSUME NEW top \in Nat, NEW row, \A i \in 0 .. top - 1 : row[i] \in Stored, NEW bits
    PROVE  \E f : IsGenEntry(f, row, bits, top)
  <1>1. PICK lo, D : lo = 0 /\ lo \in Nat /\ lo <= top /\ D = lo + 1 .. top
    OBVIOUS
  <1> DEFINE G == [k \in D |-> [x \in Stored |-> GeStorageCMov(x, row[k - 1], k - 1 = bits)]]
  <1>2. G \in [D -> [Stored -> Stored]]
    <2>1. \A k \in D : row[k - 1] \in Stored
      BY <1>1
    <2> QED
      BY <2>1 DEF GeStorageCMov
  <1>3. \A k \in D, x \in Stored : G[k][x] = GeStorageCMov(x, row[k - 1], k - 1 = bits)
    OBVIOUS
  <1> HIDE DEF G
  <1>4. PICK f : LoopsUp(f, lo, top, Stored, GeToStorage(GeClear), G)
    BY <1>1, <1>2, ClearFits, LoopUp
  <1>5. \A k \in lo .. top : k # lo => k \in D /\ f[k - 1] \in Stored
    BY <1>1, <1>4 DEF LoopsUp
  <1> QED
    BY <1>1, <1>3, <1>4, <1>5 DEF LoopsUp, IsGenEntry

LEMMA GenEntryFits ==
    ASSUME NEW row, \A i \in 0 .. 2^GenBits - 1 : row[i] \in Stored, NEW bits
    PROVE  GenEntry(row, bits) \in Stored
  <1>1. PICK lo, top : lo = 0 /\ top = 2^GenBits
    OBVIOUS
  <1>2. top \in Nat /\ lo \in Nat /\ lo <= top /\ \A i \in 0 .. top - 1 : row[i] \in Stored
    BY <1>1, GenSizes
  <1> DEFINE f == CHOOSE h : IsGenEntry(h, row, bits, top)
  <1>3. IsGenEntry(f, row, bits, top)
    BY <1>2, GenEntryExists
  <1>4. GenEntry(row, bits) = f[top]
    BY <1>1 DEF GenEntry, IsGenEntry
  <1> HIDE DEF f
  <1>5. f[lo] \in Stored
    BY <1>1, <1>2, <1>3, ClearFits DEF IsGenEntry
  <1>6. ASSUME NEW k \in lo + 1 .. top, f[k - 1] \in Stored PROVE f[k] \in Stored
    <2>1. row[k - 1] \in Stored
      BY <1>1, <1>2
    <2>2. f[k] = GeStorageCMov(f[k - 1], row[k - 1], k - 1 = bits)
      BY <1>1, <1>3 DEF IsGenEntry
    <2> QED
      BY <1>6, <2>1, <2>2 DEF GeStorageCMov
  <1>7. \A k \in lo .. top : f[k] \in Stored
    BY <1>1, <1>2, <1>5, <1>6, StaysUp
  <1> QED
    BY <1>1, <1>2, <1>4, <1>7

\* All inverses with one.
IsRunning(f, a, top) ==
    f = [i \in 1 .. top |-> IF i = 1 THEN a[1] ELSE FeMul(f[i - 1], a[i])]

IsWayBack(f, run, a, top) ==
    f = [i \in 1 .. top |-> IF i = top THEN FeInv(run[top]) ELSE FeMul(f[i + 1], a[i + 1])]

LEMMA ProductStays ==
    ASSUME NEW a \in Elems(8), NEW b \in Elems(8)
    PROVE  FeMul(a, b) \in Elems(8)
  <1>1. FeMul(a, b) \in Elems(1)
    BY ProductFits
  <1> QED
    BY <1>1, SmallElems

LEMMA InverseStays ==
    ASSUME NEW a \in Elems(8)
    PROVE  FeInv(a) \in Elems(8)
  <1>1. FeInv(a) \in Elems(1)
    BY InverseFits
  <1> QED
    BY <1>1, SmallElems

LEMMA RunningExists ==
    ASSUME NEW top \in Nat \ {0}, NEW a, \A i \in 1 .. top : a[i] \in Elems(8)
    PROVE  \E f : IsRunning(f, a, top)
  <1>1. PICK lo, D : lo = 1 /\ lo \in Nat /\ lo <= top /\ D = lo + 1 .. top
    OBVIOUS
  <1> DEFINE G == [k \in D |-> [x \in Elems(8) |-> FeMul(x, a[k])]]
  <1>2. G \in [D -> [Elems(8) -> Elems(8)]]
    <2>1. \A k \in D : a[k] \in Elems(8)
      BY <1>1
    <2> QED
      BY <2>1, ProductStays
  <1>3. \A k \in D, x \in Elems(8) : G[k][x] = FeMul(x, a[k])
    OBVIOUS
  <1>4. PICK b \in Elems(8) : b = a[1]
    BY <1>1
  <1> HIDE DEF G
  <1>5. PICK f : LoopsUp(f, lo, top, Elems(8), b, G)
    BY <1>1, <1>2, LoopUp
  <1>6. \A k \in lo .. top : k # lo => k \in D /\ f[k - 1] \in Elems(8)
    BY <1>1, <1>5 DEF LoopsUp
  <1> QED
    BY <1>1, <1>3, <1>4, <1>5, <1>6 DEF LoopsUp, IsRunning

LEMMA RunningFits ==
    ASSUME NEW top \in Nat \ {0}, NEW a, \A i \in 1 .. top : a[i] \in Elems(8),
           NEW f, IsRunning(f, a, top)
    PROVE  \A i \in 1 .. top : f[i] \in Elems(8)
  <1>1. PICK lo : lo = 1 /\ lo \in Nat /\ lo <= top
    OBVIOUS
  <1>2. f[lo] \in Elems(8)
    BY <1>1 DEF IsRunning
  <1>3. ASSUME NEW k \in lo + 1 .. top, f[k - 1] \in Elems(8) PROVE f[k] \in Elems(8)
    <2>1. f[k] = FeMul(f[k - 1], a[k]) /\ a[k] \in Elems(8)
      BY <1>1 DEF IsRunning
    <2> QED
      BY <1>3, <2>1, ProductStays
  <1>4. \A k \in lo .. top : f[k] \in Elems(8)
    BY <1>1, <1>2, <1>3, StaysUp
  <1> QED
    BY <1>1, <1>4

LEMMA WayBackExists ==
    ASSUME NEW top \in Nat \ {0}, NEW a, \A i \in 1 .. top : a[i] \in Elems(8),
           NEW run, run[top] \in Elems(8)
    PROVE  \E f : IsWayBack(f, run, a, top)
  <1>1. PICK lo, D : lo = 1 /\ lo \in Nat /\ lo <= top /\ D = lo .. top - 1
    OBVIOUS
  <1> DEFINE G == [k \in D |-> [x \in Elems(8) |-> FeMul(x, a[k + 1])]]
  <1>2. G \in [D -> [Elems(8) -> Elems(8)]]
    <2>1. \A k \in D : a[k + 1] \in Elems(8)
      BY <1>1
    <2> QED
      BY <2>1, ProductStays
  <1>3. \A k \in D, x \in Elems(8) : G[k][x] = FeMul(x, a[k + 1])
    OBVIOUS
  <1>4. PICK b \in Elems(8) : b = FeInv(run[top])
    BY InverseStays
  <1> HIDE DEF G
  <1>5. PICK f : LoopsDown(f, lo, top, Elems(8), b, G)
    BY <1>1, <1>2, LoopDown
  <1>6. \A k \in lo .. top : k # top => k \in D /\ f[k + 1] \in Elems(8)
    BY <1>1, <1>5 DEF LoopsDown
  <1> QED
    BY <1>1, <1>3, <1>4, <1>5, <1>6 DEF LoopsDown, IsWayBack

LEMMA WayBackFits ==
    ASSUME NEW top \in Nat \ {0}, NEW a, \A i \in 1 .. top : a[i] \in Elems(8),
           NEW run, run[top] \in Elems(8), NEW f, IsWayBack(f, run, a, top)
    PROVE  \A i \in 1 .. top : f[i] \in Elems(8)
  <1>1. PICK lo : lo = 1 /\ lo \in Nat /\ lo <= top
    OBVIOUS
  <1>2. f[top] \in Elems(8)
    BY InverseStays DEF IsWayBack
  <1>3. ASSUME NEW k \in lo .. top - 1, f[k + 1] \in Elems(8) PROVE f[k] \in Elems(8)
    <2>1. f[k] = FeMul(f[k + 1], a[k + 1]) /\ a[k + 1] \in Elems(8)
      BY <1>1 DEF IsWayBack
    <2> QED
      BY <1>3, <2>1, ProductStays
  <1>4. \A k \in lo .. top : f[k] \in Elems(8)
    BY <1>1, <1>2, <1>3, StaysDown
  <1> QED
    BY <1>1, <1>4

LEMMA AllInversesFit ==
    ASSUME NEW a \in Seq(Elems(8))
    PROVE  \A i \in 1 .. Len(a) : FeInvAllVar(a)[i] \in Elems(8)
  <1>1. PICK top : top = Len(a) /\ top \in Nat
    OBVIOUS
  <1>2. ASSUME NEW i \in 1 .. top PROVE FeInvAllVar(a)[i] \in Elems(8)
    <2>1. top \in Nat \ {0} /\ a # <<>> /\ \A k \in 1 .. top : a[k] \in Elems(8)
      BY <1>1, <1>2
    <2> DEFINE run == CHOOSE f : IsRunning(f, a, top)
               u == CHOOSE f : IsWayBack(f, run, a, top)
    <2>2. IsRunning(run, a, top)
      BY <2>1, RunningExists
    <2>3. FeInvAllVar(a) = [k \in 1 .. top |-> IF k = 1 THEN u[1] ELSE FeMul(run[k - 1], u[k])]
      BY <1>1, <2>1 DEF FeInvAllVar, IsRunning, IsWayBack
    <2> HIDE DEF run
    <2>4. \A k \in 1 .. top : run[k] \in Elems(8)
      BY <2>1, <2>2, RunningFits
    <2>5. run[top] \in Elems(8)
      BY <2>1, <2>4
    <2>6. IsWayBack(u, run, a, top)
      BY <2>1, <2>5, WayBackExists
    <2> HIDE DEF u
    <2>7. \A k \in 1 .. top : u[k] \in Elems(8)
      BY <2>1, <2>5, <2>6, WayBackFits
    <2>8. i # 1 => i - 1 \in 1 .. top
      BY <1>2, <2>1
    <2> QED
      BY <1>2, <2>3, <2>4, <2>7, <2>8, ProductStays
  <1> QED
    BY <1>1, <1>2

\* The points of a batch that are not at infinity are all found.
IsFiniteOnes(f, a, top) ==
    f = [i \in 0 .. top |->
            IF i = 0 THEN <<>> ELSE IF a[i].infinity THEN f[i - 1] ELSE Append(f[i - 1], i)]

Found(s, a, i) == \A j \in 1 .. i : ~a[j].infinity => \E k \in 1 .. Len(s) : s[k] = j

LEMMA FiniteOnesExist ==
    ASSUME NEW top \in Nat, NEW a
    PROVE  \E f : IsFiniteOnes(f, a, top)
  <1>1. PICK lo, D, S : /\ lo = 0 /\ lo \in Nat /\ lo <= top /\ D = lo + 1 .. top
                        /\ S = Seq(1 .. top)
    OBVIOUS
  <1> DEFINE G == [k \in D |-> [s \in S |-> IF a[k].infinity THEN s ELSE Append(s, k)]]
  <1>2. G \in [D -> [S -> S]]
    <2>1. ASSUME NEW k \in D, NEW s \in S PROVE Append(s, k) \in S
      <3>1. k \in 1 .. top /\ s \in Seq(1 .. top)
        BY <1>1
      <3> QED
        BY <1>1, <3>1
    <2> QED
      BY <2>1
  <1>3. \A k \in D, s \in S : G[k][s] = IF a[k].infinity THEN s ELSE Append(s, k)
    OBVIOUS
  <1>4. PICK b \in S : b = <<>>
    <2>1. <<>> \in Seq(1 .. top)
      OBVIOUS
    <2> QED
      BY <1>1, <2>1
  <1> HIDE DEF G
  <1>5. PICK f : LoopsUp(f, lo, top, S, b, G)
    BY <1>1, <1>2, LoopUp
  <1>6. \A k \in lo .. top : k # lo => k \in D /\ f[k - 1] \in S
    BY <1>1, <1>5 DEF LoopsUp
  <1>7. ASSUME NEW k \in 0 .. top
        PROVE  f[k] = IF k = 0 THEN <<>>
                      ELSE IF a[k].infinity THEN f[k - 1] ELSE Append(f[k - 1], k)
    <2>1. k \in lo .. top
      BY <1>1
    <2>2. CASE k = lo
      <3>1. f[k] = b
        BY <1>5, <2>1, <2>2 DEF LoopsUp
      <3> QED
        BY <1>1, <1>4, <2>2, <3>1
    <2>3. CASE k # lo
      <3>1. k \in D /\ f[k - 1] \in S
        BY <1>6, <2>1, <2>3
      <3>2. f[k] = G[k][f[k - 1]]
        BY <1>5, <2>1, <2>3 DEF LoopsUp
      <3> QED
        BY <1>1, <1>3, <2>3, <3>1, <3>2
    <2> QED
      BY <2>2, <2>3
  <1>8. f = [k \in 0 .. top |-> f[k]]
    BY <1>1, <1>5 DEF LoopsUp
  <1> QED
    BY <1>7, <1>8 DEF IsFiniteOnes

LEMMA FoundOneMore ==
    ASSUME NEW top \in Nat, NEW a, NEW f, IsFiniteOnes(f, a, top), NEW i \in 1 .. top,
           f[i - 1] \in Seq(1 .. top), Found(f[i - 1], a, i - 1)
    PROVE  f[i] \in Seq(1 .. top) /\ Found(f[i], a, i)
  <1>1. PICK s, h : s = f[i - 1] /\ h = i - 1
    OBVIOUS
  <1>2. s \in Seq(1 .. top) /\ Found(s, a, h) /\ h \in Nat /\ h + 1 = i
    BY <1>1
  <1>3. f[i] = IF a[i].infinity THEN s ELSE Append(s, i)
    <2>1. i \in 0 .. top /\ i # 0
      OBVIOUS
    <2> QED
      BY <1>1, <2>1 DEF IsFiniteOnes
  <1>4. CASE a[i].infinity
    <2>1. ASSUME NEW j \in 1 .. i, ~a[j].infinity PROVE j \in 1 .. h
      <3>1. j # i
        BY <1>4, <2>1
      <3> QED
        BY <1>2, <3>1
    <2> QED
      BY <1>2, <1>3, <1>4, <2>1 DEF Found
  <1>5. CASE ~a[i].infinity
    <2>1. f[i] = Append(s, i) /\ Append(s, i) \in Seq(1 .. top)
      BY <1>2, <1>3, <1>5
    <2>2. Len(Append(s, i)) = Len(s) + 1 /\ Append(s, i)[Len(s) + 1] = i /\ Len(s) \in Nat
      BY <1>2
    <2>3. \A k \in 1 .. Len(s) : Append(s, i)[k] = s[k] /\ k \in 1 .. Len(s) + 1
      BY <1>2
    <2>4. ASSUME NEW j \in 1 .. i, ~a[j].infinity
          PROVE  \E k \in 1 .. Len(f[i]) : f[i][k] = j
      <3>1. CASE j = i
        BY <2>1, <2>2, <3>1
      <3>2. CASE j # i
        <4>1. j \in 1 .. h
          BY <1>2, <3>2
        <4>2. PICK k \in 1 .. Len(s) : s[k] = j
          BY <1>2, <2>4, <4>1 DEF Found
        <4> QED
          BY <2>1, <2>2, <2>3, <4>2
      <3> QED
        BY <3>1, <3>2
    <2> QED
      BY <2>1, <2>4 DEF Found
  <1> QED
    BY <1>4, <1>5

LEMMA FiniteOnesAreFound ==
    ASSUME NEW a, NEW top \in Nat, top = Len(a)
    PROVE  FiniteOnes(a) \in Seq(1 .. top) /\ Found(FiniteOnes(a), a, top)
  <1> DEFINE f == CHOOSE g : IsFiniteOnes(g, a, top)
             h == [i \in 0 .. top |-> f[i] \in Seq(1 .. top) /\ Found(f[i], a, i)]
  <1>1. IsFiniteOnes(f, a, top)
    BY FiniteOnesExist
  <1>2. FiniteOnes(a) = f[top]
    BY DEF FiniteOnes, IsFiniteOnes
  <1> HIDE DEF f
  <1>3. PICK lo : lo = 0 /\ lo \in Nat /\ lo <= top
    OBVIOUS
  <1>4. h[lo] \in {TRUE}
    <2>1. f[0] = <<>>
      BY <1>1 DEF IsFiniteOnes
    <2>2. Found(f[0], a, 0)
      BY DEF Found
    <2>3. <<>> \in Seq(1 .. top) /\ 0 \in 0 .. top
      OBVIOUS
    <2> QED
      BY <1>3, <2>1, <2>2, <2>3
  <1>5. ASSUME NEW i \in lo + 1 .. top, h[i - 1] \in {TRUE} PROVE h[i] \in {TRUE}
    <2>1. i \in 1 .. top /\ i \in 0 .. top /\ i - 1 \in 0 .. top
      BY <1>3
    <2>2. f[i - 1] \in Seq(1 .. top) /\ Found(f[i - 1], a, i - 1)
      BY <1>5, <2>1
    <2>3. f[i] \in Seq(1 .. top) /\ Found(f[i], a, i)
      BY <1>1, <2>1, <2>2, FoundOneMore
    <2> QED
      BY <2>1, <2>3
  <1> HIDE DEF h
  <1>6. \A i \in lo .. top : h[i] \in {TRUE}
    <2>1. PICK S : S = {TRUE}
      OBVIOUS
    <2>2. h[lo] \in S /\ \A i \in lo + 1 .. top : h[i - 1] \in S => h[i] \in S
      BY <1>4, <1>5, <2>1
    <2>3. \A i \in lo .. top : h[i] \in S
      BY <1>3, <2>2, StaysUp
    <2> QED
      BY <2>1, <2>3
  <1>7. top \in lo .. top /\ top \in 0 .. top
    BY <1>3
  <1> QED
    BY <1>2, <1>6, <1>7 DEF h

LEMMA AllAffineFits ==
    ASSUME NEW top \in Nat, NEW a, a \in [1 .. top -> Jacobians]
    PROVE  \A i \in 1 .. top : GeSetAllGejVar(a)[i] \in Affines
  <1>1. Len(a) = top
    OBVIOUS
  <1>2. PICK at : at = FiniteOnes(a)
    OBVIOUS
  <1>3. at \in Seq(1 .. top) /\ Found(at, a, top)
    BY <1>1, <1>2, FiniteOnesAreFound
  <1> DEFINE zs == [k \in 1 .. Len(at) |-> a[at[k]].z]
             azi == FeInvAllVar(zs)
  <1>4. zs \in Seq(Elems(8)) /\ Len(zs) = Len(at)
    <2>1. ASSUME NEW k \in 1 .. Len(at) PROVE a[at[k]].z \in Elems(8)
      <3>1. at[k] \in 1 .. top
        BY <1>3
      <3> QED
        BY <3>1, PointParts
    <2>2. Len(at) \in Nat
      BY <1>3
    <2> QED
      BY <2>1, <2>2
  <1>5. \A k \in 1 .. Len(at) : azi[k] \in Elems(8)
    <2> HIDE DEF zs
    <2> QED
      BY <1>4, AllInversesFit
  <1>6. GeSetAllGejVar(a) = GesFrom(a, at, azi)
    BY <1>2 DEF GeSetAllGejVar, GesOf
  <1> HIDE DEF azi
  <1>7. ASSUME NEW i \in 1 .. top PROVE GesFrom(a, at, azi)[i] \in Affines
    <2>1. CASE a[i].infinity
      <3>1. GesFrom(a, at, azi)[i] = GeInfinity
        BY <1>1, <2>1 DEF GesFrom
      <3> QED
        BY <3>1, AffineInfinityFits
    <2>2. CASE ~a[i].infinity
      <3>1. PICK k : k = CHOOSE j \in 1 .. Len(at) : at[j] = i
        OBVIOUS
      <3>2. k \in 1 .. Len(at)
        BY <1>3, <2>2, <3>1 DEF Found
      <3>3. GesFrom(a, at, azi)[i] = GeSetGejZinv(a[i], azi[k])
        BY <1>1, <2>2, <3>1 DEF GesFrom
      <3>4. a[i].x \in Elems(8) /\ a[i].y \in Elems(8) /\ a[i].infinity \in BOOLEAN
        BY PointParts
      <3> QED
        BY <1>5, <3>2, <3>3, <3>4, SetGejZinvFits
    <2> QED
      BY <2>1, <2>2
  <1> QED
    BY <1>6, <1>7

-----------------------------------------------------------------------------
(* Multiples of the generator.                                             *)

LEMMA GeneratorFits == GeneratorGe \in Affines
  <1>1. FeSetInt(GX) \in Elems(1) /\ FeSetInt(GY) \in Elems(1)
    BY IntegerFitsField, EcmultAssumption, FieldSize DEF Fe
  <1>2. FeSetInt(GX) \in Elems(6) /\ FeSetInt(GY) \in Elems(4)
    BY <1>1, ElemsGrow
  <1> QED
    BY <1>2 DEF GeneratorGe, Ge, Affines

LEMMA NumsFits == Nums \in Jacobians
  <1>1. FeSetInt(NumsX) \in Elems(1)
    BY IntegerFitsField, EcmultAssumption, FieldSize DEF Fe
  <1>2. GeSetXoVar(FeSetInt(NumsX), FALSE).r \in Affines
    BY <1>1, LiftedFits
  <1>3. GejSetGe(GeSetXoVar(FeSetInt(NumsX), FALSE).r) \in Jacobians
    BY <1>2, AffineFits
  <1> QED
    BY <1>3, GeneratorFits, AddGeVarFits DEF Nums

LEMMA GenTableFits ==
    \A j \in 0 .. GenGroups - 1, i \in 0 .. 2^GenBits - 1 : GenTable[j][i] \in Stored
  <1>1. PICK P, T, g : P = 2^GenBits /\ T = GenGroups * 2^GenBits /\ g = GejSetGe(GeneratorGe)
    OBVIOUS
  <1>2. P \in Nat \ {0} /\ T = GenGroups * P /\ T \in Nat /\ g \in Jacobians
    BY <1>1, GenSizes, TimesNat, GeneratorFits, AffineFits
  <1> DEFINE row(j) == GenRow(DoubledVar(g, GenBits * j), NumsBase(j, Nums, DoubledVar(Nums, j)))
             a == [k \in 1 .. T |-> row((k - 1) \div P)[(k - 1) % P]]
             prec == GeSetAllGejVar(a)
  <1>3. ASSUME NEW j \in 0 .. GenGroups - 1, NEW i \in 0 .. P - 1
        PROVE  row(j)[i] \in Jacobians
    <2>1. PICK k : k = GenBits * j
      OBVIOUS
    <2>2. k \in Nat /\ j \in Nat
      BY <2>1, GenSizes, TimesNat
    <2>3. DoubledVar(g, k) \in Jacobians /\ DoubledVar(Nums, j) \in Jacobians
      BY <1>2, <2>2, NumsFits, DoublingsFit
    <2>4. NumsBase(j, Nums, DoubledVar(Nums, j)) \in Jacobians
      BY <2>3, NumsFits, OppositeJacobianFits, AddVarFits DEF NumsBase
    <2> QED
      BY <1>1, <2>1, <2>3, <2>4, GenRowFits
  <1>4. a \in [1 .. T -> Jacobians]
    <2>1. ASSUME NEW k \in 1 .. T PROVE row((k - 1) \div P)[(k - 1) % P] \in Jacobians
      <3>1. PICK j, i : j = (k - 1) \div P /\ i = (k - 1) % P
        OBVIOUS
      <3>2. i \in 0 .. P - 1 /\ j \in Nat /\ k - 1 = P * j + i
        BY <1>2, <3>1, DivMod
      <3>3. j <= GenGroups - 1
        <4> SUFFICES ASSUME j >= GenGroups PROVE FALSE
          BY <3>2, GenSizes
        <4>1. GenGroups * P <= j * P
          BY <1>2, <3>2, GenSizes, TimesMonotone
        <4>2. j * P = P * j
          BY <1>2, <3>2, Times
        <4>3. PICK x : x = P * j
          OBVIOUS
        <4> QED
          BY <1>2, <3>2, <4>1, <4>2, <4>3
      <3>4. j \in 0 .. GenGroups - 1
        BY <3>2, <3>3, GenSizes
      <3> HIDE DEF row
      <3> QED
        BY <1>3, <3>1, <3>2, <3>4
    <2> HIDE DEF row
    <2> QED
      BY <2>1
  <1>5. GenTable = [j \in 0 .. GenGroups - 1 |-> [i \in 0 .. P - 1 |->
                        GeToStorage(prec[j * P + i + 1])]]
    BY <1>1 DEF GenTable, GenTableFrom
  <1> HIDE DEF a
  <1>6. \A k \in 1 .. T : prec[k] \in Affines
    BY <1>2, <1>4, AllAffineFits
  <1> HIDE DEF prec
  <1>7. ASSUME NEW j \in 0 .. GenGroups - 1, NEW i \in 0 .. P - 1
        PROVE  GenTable[j][i] \in Stored
    <2>1. PICK x, y : x = j * P /\ y = (j + 1) * P
      OBVIOUS
    <2>2. x \in Nat /\ y \in Nat /\ y = x + P
      BY <1>2, <2>1, TimesNat, Times
    <2>3. y <= T
      <3>1. j + 1 \in Nat /\ GenGroups \in Nat /\ j + 1 <= GenGroups
        BY GenSizes
      <3> QED
        BY <1>2, <2>1, <3>1, TimesMonotone
    <2>4. x + i + 1 \in 1 .. T
      BY <1>2, <2>2, <2>3
    <2>5. GeToStorage(prec[x + i + 1]) \in Stored
      BY <1>6, <2>4, AffineParts, StoredFits
    <2> QED
      BY <1>5, <2>1, <2>5
  <1> QED
    BY <1>1, <1>7

\* gn * G, from any point that is where blinding puts it.
IsGenSum(f, x0, gnb) ==
    f = [j \in 0 .. GenGroups |->
            IF j = 0 THEN x0
            ELSE GejAddGe(f[j - 1],
                          GeFromStorage(GenEntry(GenTable[j - 1],
                                                 GetBits(gnb, (j - 1) * GenBits, GenBits))))]

LEMMA GenStep ==
    ASSUME NEW j \in 1 .. GenGroups, NEW x \in Jacobians, NEW bits
    PROVE  GejAddGe(x, GeFromStorage(GenEntry(GenTable[j - 1], bits))) \in Jacobians
  <1>1. j - 1 \in 0 .. GenGroups - 1
    BY GenSizes
  <1>2. \A i \in 0 .. 2^GenBits - 1 : GenTable[j - 1][i] \in Stored
    BY <1>1, GenTableFits
  <1>3. GenEntry(GenTable[j - 1], bits) \in Stored
    BY <1>2, GenEntryFits
  <1> QED
    BY <1>3, UnstoredFits, AddGeFits

LEMMA GenSumExists ==
    ASSUME NEW x0 \in Jacobians, NEW gnb
    PROVE  \E f : IsGenSum(f, x0, gnb)
  <1>1. PICK lo, top, D : /\ lo = 0 /\ lo \in Nat /\ lo <= top /\ D = lo + 1 .. top
                          /\ top = GenGroups /\ top \in Nat /\ D = 1 .. GenGroups
    BY GenSizes
  <1> DEFINE entry(k) == GeFromStorage(GenEntry(GenTable[k - 1],
                                                GetBits(gnb, (k - 1) * GenBits, GenBits)))
             G == [k \in D |-> [x \in Jacobians |-> GejAddGe(x, entry(k))]]
  <1>2. G \in [D -> [Jacobians -> Jacobians]]
    <2>1. ASSUME NEW k \in D, NEW x \in Jacobians PROVE GejAddGe(x, entry(k)) \in Jacobians
      <3>1. k \in 1 .. GenGroups
        BY <1>1
      <3> QED
        BY <3>1, GenStep
    <2> HIDE DEF entry
    <2> QED
      BY <2>1
  <1>3. \A k \in D, x \in Jacobians : G[k][x] = GejAddGe(x, entry(k))
    OBVIOUS
  <1> HIDE DEF G
  <1>4. PICK f : LoopsUp(f, lo, top, Jacobians, x0, G)
    BY <1>1, <1>2, LoopUp
  <1>5. \A k \in lo .. top : k # lo => k \in D /\ f[k - 1] \in Jacobians
    BY <1>1, <1>4 DEF LoopsUp
  <1>6. f = [k \in 0 .. GenGroups |-> IF k = 0 THEN x0 ELSE GejAddGe(f[k - 1], entry(k))]
    <2> HIDE DEF entry
    <2> QED
      BY <1>1, <1>3, <1>4, <1>5 DEF LoopsUp
  <1> QED
    BY <1>6 DEF IsGenSum

LEMMA EcmultGenFits ==
    ASSUME NEW ctx, ctx.initial \in Jacobians, NEW gn
    PROVE  EcmultGen(ctx, gn) \in Jacobians
  <1> DEFINE gnb == (gn + ctx.blind) % n
             f == CHOOSE g : IsGenSum(g, ctx.initial, gnb)
  <1>1. IsGenSum(f, ctx.initial, gnb)
    BY GenSumExists
  <1>2. EcmultGen(ctx, gn) = f[GenGroups]
    BY DEF EcmultGen, IsGenSum
  <1> HIDE DEF f, gnb
  <1>3. PICK lo, top : lo = 0 /\ lo \in Nat /\ lo <= top /\ top = GenGroups /\ top \in Nat
    BY GenSizes
  <1>4. f[lo] \in Jacobians
    BY <1>1, <1>3 DEF IsGenSum
  <1>5. ASSUME NEW k \in lo + 1 .. top, f[k - 1] \in Jacobians PROVE f[k] \in Jacobians
    <2>1. k \in 1 .. GenGroups
      BY <1>3
    <2>2. f[k] = GejAddGe(f[k - 1],
                          GeFromStorage(GenEntry(GenTable[k - 1],
                                                 GetBits(gnb, (k - 1) * GenBits, GenBits))))
      <3>1. k \in 0 .. GenGroups /\ k # 0
        BY <2>1
      <3> QED
        BY <1>1, <3>1 DEF IsGenSum
    <2> QED
      BY <1>5, <2>1, <2>2, GenStep
  <1>6. \A k \in lo .. top : f[k] \in Jacobians
    BY <1>3, <1>4, <1>5, StaysUp
  <1> QED
    BY <1>2, <1>3, <1>6

\* The contexts of signing: a blinding value below the order and a point.
GenContexts == [built : {TRUE}, blind : 0 .. n - 1, initial : Jacobians]

LEMMA FirstOfSome ==
    ASSUME NEW draws, NEW i \in Nat, NEW S, NEW k \in i .. MaxDraws, draws[k] \in S
    PROVE  /\ FirstIn(draws, i, S) \in i .. k
           /\ draws[FirstIn(draws, i, S)] \in S
  <1> DEFINE good == {j \in i .. MaxDraws : draws[j] \in S}
             m == Min(good)
  <1>0. MaxDraws \in Nat
    BY EcmultAssumption
  <1>1. good \in SUBSET Nat /\ good # {} /\ k \in good
    BY <1>0
  <1>2. m \in good /\ \A j \in good : m <= j
    <2> HIDE DEF good
    <2> QED
      BY <1>1, LeastOf
  <1>3. m \in i .. k /\ m \in i .. MaxDraws /\ draws[m] \in S
    BY <1>0, <1>1, <1>2
  <1>4. \A j \in i .. m - 1 : draws[j] \notin S
    <2> SUFFICES ASSUME NEW j \in i .. m - 1, draws[j] \in S PROVE FALSE
      OBVIOUS
    <2>1. j \in good
      BY <1>0, <1>3
    <2>2. m <= j
      BY <1>2, <2>1
    <2> HIDE DEF m
    <2> QED
      BY <1>3, <2>2
  <1> HIDE DEF m, good
  <1>5. PICK h : h = FirstIn(draws, i, S)
    OBVIOUS
  <1>6. h \in i .. MaxDraws /\ draws[h] \in S /\ \A j \in i .. h - 1 : draws[j] \notin S
    BY <1>3, <1>4, <1>5 DEF FirstIn
  <1>7. h <= k
    <2> SUFFICES ASSUME h > k PROVE FALSE
      BY <1>0, <1>6
    <2>1. k \in i .. h - 1
      BY <1>0, <1>6
    <2> QED
      BY <1>6, <2>1
  <1> QED
    BY <1>0, <1>5, <1>6, <1>7

LEMMA BlindedFits ==
    ASSUME NEW ctx \in GenContexts, NEW s \in Int, NEW b \in Int
    PROVE  Blinded(ctx, s, b) \in GenContexts
  <1>1. FeSetInt(s) \in Elems(8)
    <2>1. FeSetInt(s) \in Elems(1)
      BY IntegerFitsField
    <2> QED
      BY <2>1, SmallElems
  <1>2. ctx.initial \in Jacobians
    BY DEF GenContexts
  <1>3. GejRescale(ctx.initial, FeSetInt(s)) \in Jacobians
    BY <1>1, <1>2, RescaledFits
  <1> DEFINE c == [ctx EXCEPT !.initial = GejRescale(@, FeSetInt(s))]
  <1>4. c.initial \in Jacobians
    BY <1>3 DEF GenContexts
  <1> HIDE DEF c
  <1>5. EcmultGen(c, b) \in Jacobians
    BY <1>4, EcmultGenFits
  <1>6. Negate(b) \in 0 .. n - 1
    BY FieldSize DEF Negate
  <1>7. Blinded(ctx, s, b) = [ctx EXCEPT !.blind = Negate(b), !.initial = EcmultGen(c, b)]
    BY DEF Blinded, c
  <1> QED
    BY <1>5, <1>6, <1>7 DEF GenContexts

\* The draws are numbers, and two of them will do.
LEMMA BlindFromFits ==
    ASSUME NEW ctx \in GenContexts, NEW seed \in Seeds \cup SeedBuffers \cup {<<>>}
    PROVE  BlindFrom(ctx, seed) \in GenContexts
  <1> DEFINE blind == ctx.blind
             draws == [k \in 1 .. MaxDraws |-> Draw(BytesOf(blind, DigestBytes) \o seed, k)]
  <1>1. blind \in 0 .. n - 1
    BY DEF GenContexts
  <1>2. PICK i \in 1 .. MaxDraws, k \in 1 .. MaxDraws :
            i < k /\ draws[i] \in 1 .. p - 1 /\ draws[k] \in 1 .. n - 1
    BY <1>1, DrawsAssumption
  <1>3. BlindFrom(ctx, seed) = BlindedBy(ctx, draws)
    BY DEF BlindFrom
  <1> HIDE DEF draws, blind
  <1>4. PICK one, S, T : one = 1 /\ S = 1 .. p - 1 /\ T = 1 .. n - 1
    OBVIOUS
  <1>5. PICK si : si = FirstIn(draws, one, S)
    OBVIOUS
  <1>6. si \in one .. i /\ draws[si] \in S
    <2>1. one \in Nat /\ i \in one .. MaxDraws /\ draws[i] \in S
      BY <1>2, <1>4
    <2> QED
      BY <1>5, <2>1, FirstOfSome
  <1>7. PICK next, bi : next = si + 1 /\ bi = FirstIn(draws, next, T)
    OBVIOUS
  <1>8. draws[bi] \in T
    <2>1. next \in Nat /\ k \in next .. MaxDraws /\ draws[k] \in T
      BY <1>2, <1>4, <1>6, <1>7
    <2> QED
      BY <1>7, <2>1, FirstOfSome
  <1>9. BlindedBy(ctx, draws) = Blinded(ctx, draws[si], draws[bi])
    BY <1>4, <1>5, <1>7 DEF BlindedBy
  <1>10. draws[si] \in Int /\ draws[bi] \in Int
    BY <1>4, <1>6, <1>8, FieldSize
  <1> QED
    BY <1>3, <1>9, <1>10, BlindedFits

LEMMA BlindFits ==
    ASSUME NEW ctx \in GenContexts, NEW seed \in Seeds \cup SeedBuffers \cup {<<>>}
    PROVE  EcmultGenBlind(ctx, seed) \in GenContexts
  <1>1. CASE seed = <<>>
    <2> DEFINE c == [ctx EXCEPT !.initial = GejNeg(GejSetGe(GeneratorGe)), !.blind = 1]
    <2>1. GejNeg(GejSetGe(GeneratorGe)) \in Jacobians
      BY GeneratorFits, AffineFits, OppositeJacobianFits
    <2>2. c \in GenContexts
      <3>1. 1 \in 0 .. n - 1
        BY FieldSize
      <3>2. PICK q \in Jacobians : q = GejNeg(GejSetGe(GeneratorGe))
        BY <2>1
      <3>3. c = [ctx EXCEPT !.initial = q, !.blind = 1]
        BY <3>2
      <3> QED
        BY <3>1, <3>3 DEF GenContexts
    <2>3. EcmultGenBlind(ctx, seed) = BlindFrom(c, seed)
      BY <1>1 DEF EcmultGenBlind
    <2> HIDE DEF c
    <2> QED
      BY <2>2, <2>3, BlindFromFits
  <1>2. CASE seed # <<>>
    BY <1>2, BlindFromFits DEF EcmultGenBlind
  <1> QED
    BY <1>1, <1>2

LEMMA BuiltContextFits == GenContextBuild(GenContextInit) \in GenContexts
  <1> DEFINE c == [GenContextInit EXCEPT !.built = TRUE]
  <1>1. c \in GenContexts
    <2>1. Zero \in Elems(0)
      BY ZeroFits
    <2>2. GejClear \in Jacobians
      BY <2>1, SmallPoint DEF GejClear
    <2>3. 0 \in 0 .. n - 1
      BY FieldSize
    <2>4. PICK q \in Jacobians : q = GejClear
      BY <2>2
    <2>5. [[built |-> FALSE, blind |-> 0, initial |-> q] EXCEPT !.built = TRUE] \in GenContexts
      BY <2>3 DEF GenContexts
    <2> QED
      BY <2>4, <2>5 DEF GenContextInit
  <1>2. GenContextBuild(GenContextInit) = EcmultGenBlind(c, <<>>)
    BY DEF GenContextBuild, GenContextInit
  <1> HIDE DEF c
  <1> QED
    BY <1>1, <1>2, BlindFits

-----------------------------------------------------------------------------
(* The tables of the odd multiples of a point.                             *)

IsOdds(f, x0, d, z, top) ==
    f = [i \in 1 .. top |-> IF i = 1 THEN [r |-> x0, rzr |-> z] ELSE GejAddGeVar(f[i - 1].r, d)]

LEMMA OddsExist ==
    ASSUME NEW x0 \in Jacobians, NEW d \in Affines, NEW z, NEW top \in Nat \ {0}
    PROVE  \E f : IsOdds(f, x0, d, z, top)
  <1>1. PICK lo, D : lo = 1 /\ lo \in Nat /\ lo <= top /\ D = lo + 1 .. top
    OBVIOUS
  <1> DEFINE G == [k \in D |-> [x \in Jacobians |-> GejAddGeVar(x, d).r]]
  <1>2. G \in [D -> [Jacobians -> Jacobians]]
    BY AddGeVarFits
  <1>3. \A k \in D, x \in Jacobians : G[k][x] = GejAddGeVar(x, d).r
    OBVIOUS
  <1> HIDE DEF G
  <1>4. PICK h : LoopsUp(h, lo, top, Jacobians, x0, G)
    BY <1>1, <1>2, LoopUp
  <1> DEFINE f == [i \in 1 .. top |->
                     IF i = 1 THEN [r |-> x0, rzr |-> z] ELSE GejAddGeVar(h[i - 1], d)]
  <1>5. ASSUME NEW i \in 1 .. top PROVE f[i].r = h[i]
    <2>1. CASE i = 1
      <3>1. h[i] = x0
        BY <1>1, <1>4, <2>1 DEF LoopsUp
      <3> QED
        BY <2>1, <3>1
    <2>2. CASE i # 1
      <3>1. i \in lo .. top /\ i # lo /\ i \in D
        BY <1>1, <2>2
      <3>2. i - 1 \in lo .. top
        BY <1>1, <2>2
      <3>3. h[i] = G[i][h[i - 1]] /\ h[i - 1] \in Jacobians
        BY <1>4, <3>1, <3>2 DEF LoopsUp
      <3>4. h[i] = GejAddGeVar(h[i - 1], d).r
        BY <1>3, <3>1, <3>3
      <3> QED
        BY <2>2, <3>4
    <2> QED
      BY <2>1, <2>2
  <1>6. \A i \in 1 .. top : i # 1 => i - 1 \in 1 .. top
    OBVIOUS
  <1>7. \A i \in 1 .. top : i # 1 => f[i - 1].r = h[i - 1]
    <2> HIDE DEF f
    <2> QED
      BY <1>5, <1>6
  <1>8. f = [i \in 1 .. top |->
               IF i = 1 THEN [r |-> x0, rzr |-> z] ELSE GejAddGeVar(f[i - 1].r, d)]
    <2>1. \A i \in 1 .. top : (IF i = 1 THEN [r |-> x0, rzr |-> z] ELSE GejAddGeVar(h[i - 1], d))
             = (IF i = 1 THEN [r |-> x0, rzr |-> z] ELSE GejAddGeVar(f[i - 1].r, d))
      <3> HIDE DEF f
      <3> QED
        BY <1>7
    <2> QED
      BY <2>1
  <1> HIDE DEF f
  <1> QED
    BY <1>8 DEF IsOdds

LEMMA OddsFit ==
    ASSUME NEW x0 \in Jacobians, NEW d \in Affines, NEW z, NEW top \in Nat \ {0},
           NEW f, IsOdds(f, x0, d, z, top)
    PROVE  /\ \A i \in 1 .. top : f[i].r \in Jacobians
           /\ \A i \in 2 .. top : ~f[i - 1].r.infinity => f[i].rzr \in Ratios
  <1>1. PICK lo : lo = 1 /\ lo \in Nat /\ lo <= top
    OBVIOUS
  <1> DEFINE h == [i \in 1 .. top |-> f[i].r]
  <1>2. h[lo] \in Jacobians
    BY <1>1 DEF IsOdds
  <1>3. ASSUME NEW k \in lo + 1 .. top PROVE f[k] = GejAddGeVar(h[k - 1], d) /\ h[k] = f[k].r
    <2>1. k \in 1 .. top /\ k # 1 /\ k - 1 \in 1 .. top
      BY <1>1
    <2>2. f[k] = GejAddGeVar(f[k - 1].r, d)
      BY <2>1 DEF IsOdds
    <2> QED
      BY <2>1, <2>2
  <1>4. \A i \in 1 .. top : h[i] = f[i].r
    OBVIOUS
  <1> HIDE DEF h
  <1>5. ASSUME NEW k \in lo + 1 .. top, h[k - 1] \in Jacobians PROVE h[k] \in Jacobians
    BY <1>3, <1>5, AddGeVarFits
  <1>6. \A k \in lo .. top : h[k] \in Jacobians
    BY <1>1, <1>2, <1>5, StaysUp
  <1>7. ASSUME NEW i \in 2 .. top, ~f[i - 1].r.infinity PROVE f[i].rzr \in Ratios
    <2>1. i \in lo + 1 .. top /\ i - 1 \in lo .. top /\ i - 1 \in 1 .. top
      BY <1>1
    <2>2. f[i] = GejAddGeVar(h[i - 1], d) /\ h[i - 1] \in Jacobians /\ ~h[i - 1].infinity
      BY <1>3, <1>4, <1>6, <1>7, <2>1
    <2> QED
      BY <2>2, AddGeVarFits
  <1> QED
    BY <1>1, <1>4, <1>6, <1>7

\* What the two ways to bring a table to one z ask for.
TableFits(t, size) ==
    /\ t.prej \in [1 .. size -> Jacobians]
    /\ \A i \in 2 .. size : t.zr[i] \in Ratios

LEMMA OddTableFits ==
    ASSUME NEW size \in Nat \ {0}, NEW a \in Jacobians, TableIsFinite(size, a)
    PROVE  TableFits(OddMultiplesTable(size, a), size)
  <1> DEFINE d == GejDoubleVar(a).r
             age == GeSetGejZinv(a, d.z)
             x0 == Gej(age.x, age.y, a.z)
             ge == Ge(d.x, d.y)
             e == CHOOSE f : IsOdds(f, x0, ge, d.z, size)
             rows == OddMultiplesRows(size, e, d.z)
  <1>1. d \in Jacobians
    BY DoubleFits
  <1>2. OddMultiplesTable(size, a) = rows
    BY DEF OddMultiplesTable, OddMultiplesFrom, OddMultiplesOf, IsOdds
  <1> HIDE DEF d
  <1>3. age \in Affines
    <2>1. a.x \in Elems(8) /\ a.y \in Elems(8) /\ a.infinity \in BOOLEAN /\ d.z \in Elems(8)
      BY <1>1, PointParts
    <2> QED
      BY <2>1, SetGejZinvFits
  <1> HIDE DEF age
  <1>4. x0 \in Jacobians
    BY <1>3, AffineParts, PointParts DEF Gej, Jacobians
  <1>5. ge \in Affines
    BY <1>1, PointParts DEF Ge, Affines
  <1> HIDE DEF x0, ge
  <1>6. IsOdds(e, x0, ge, d.z, size)
    BY <1>4, <1>5, OddsExist
  <1> HIDE DEF e
  <1>7. \A i \in 1 .. size : e[i].r \in Jacobians
    BY <1>4, <1>5, <1>6, OddsFit
  <1>8. \A i \in 2 .. size : ~e[i - 1].r.infinity => e[i].rzr \in Ratios
    BY <1>4, <1>5, <1>6, OddsFit
  <1>9. ASSUME NEW i \in 1 .. size PROVE rows.prej[i] \in Jacobians
    <2>1. CASE i = size
      <3>1. PICK q : q = FeMul(e[i].r.z, d.z)
        OBVIOUS
      <3>2. q \in Elems(2)
        <4>1. e[i].r.z \in Elems(8) /\ d.z \in Elems(8)
          BY <1>1, <1>7, PointParts
        <4>2. q \in Elems(1)
          BY <3>1, <4>1, ProductFits
        <4> QED
          BY <4>2, ElemsGrow
      <3>3. rows.prej[i] = [e[i].r EXCEPT !.z = q]
        BY <2>1, <3>1 DEF OddMultiplesRows
      <3>4. e[i].r \in Jacobians
        BY <1>7
      <3> QED
        BY <3>2, <3>3, <3>4 DEF Jacobians
    <2>2. CASE i # size
      BY <1>7, <2>2 DEF OddMultiplesRows
    <2> QED
      BY <2>1, <2>2
  <1>10. rows.prej = [i \in 1 .. size |-> rows.prej[i]]
    BY DEF OddMultiplesRows
  <1>11. ASSUME NEW i \in 2 .. size PROVE rows.zr[i] \in Ratios
    <2>1. i \in 1 .. size /\ i - 1 \in 1 .. size /\ i - 1 # size
      OBVIOUS
    <2>2. ~rows.prej[i - 1].infinity
      BY <1>2, <2>1 DEF TableIsFinite
    <2>3. rows.prej[i - 1] = e[i - 1].r
      BY <2>1 DEF OddMultiplesRows
    <2>4. rows.zr[i] = e[i].rzr
      BY <2>1 DEF OddMultiplesRows
    <2> QED
      BY <1>8, <2>2, <2>3, <2>4
  <1> HIDE DEF rows
  <1> QED
    BY <1>2, <1>9, <1>10, <1>11 DEF TableFits

\* One z for all, without an inverse.
IsDownFrom(f, zr, x0, top) ==
    f = [i \in 1 .. top |-> IF i = top THEN x0 ELSE FeMul(f[i + 1], zr[i + 1])]

LEMMA DownFromExists ==
    ASSUME NEW top \in Nat \ {0}, NEW zr, \A i \in 2 .. top : zr[i] \in Elems(8),
           NEW x0 \in Elems(8)
    PROVE  \E f : IsDownFrom(f, zr, x0, top)
  <1>1. PICK lo, D : lo = 1 /\ lo \in Nat /\ lo <= top /\ D = lo .. top - 1
    OBVIOUS
  <1> DEFINE G == [k \in D |-> [x \in Elems(8) |-> FeMul(x, zr[k + 1])]]
  <1>2. G \in [D -> [Elems(8) -> Elems(8)]]
    <2>1. \A k \in D : zr[k + 1] \in Elems(8)
      BY <1>1
    <2> QED
      BY <2>1, ProductStays
  <1>3. \A k \in D, x \in Elems(8) : G[k][x] = FeMul(x, zr[k + 1])
    OBVIOUS
  <1> HIDE DEF G
  <1>5. PICK f : LoopsDown(f, lo, top, Elems(8), x0, G)
    BY <1>1, <1>2, LoopDown
  <1>6. \A k \in lo .. top : k # top => k \in D /\ f[k + 1] \in Elems(8)
    BY <1>1, <1>5 DEF LoopsDown
  <1>7. ASSUME NEW k \in 1 .. top
        PROVE  f[k] = IF k = top THEN x0 ELSE FeMul(f[k + 1], zr[k + 1])
    <2>1. k \in lo .. top /\ f[k] = IF k = top THEN x0 ELSE G[k][f[k + 1]]
      BY <1>1, <1>5 DEF LoopsDown
    <2> QED
      BY <1>3, <1>6, <2>1
  <1>8. f = [k \in 1 .. top |-> f[k]]
    BY <1>1, <1>5 DEF LoopsDown
  <1> QED
    BY <1>7, <1>8 DEF IsDownFrom

LEMMA DownFromFits ==
    ASSUME NEW top \in Nat \ {0}, NEW zr, \A i \in 2 .. top : zr[i] \in Elems(8),
           NEW x0 \in Elems(8), NEW f, IsDownFrom(f, zr, x0, top)
    PROVE  \A i \in 1 .. top : f[i] \in Elems(8)
  <1>1. PICK lo : lo = 1 /\ lo \in Nat /\ lo <= top
    OBVIOUS
  <1>2. f[top] \in Elems(8)
    BY DEF IsDownFrom
  <1>3. ASSUME NEW k \in lo .. top - 1, f[k + 1] \in Elems(8) PROVE f[k] \in Elems(8)
    <2>1. k \in 1 .. top /\ k # top /\ k + 1 \in 2 .. top
      BY <1>1
    <2>2. f[k] = FeMul(f[k + 1], zr[k + 1]) /\ zr[k + 1] \in Elems(8)
      BY <2>1 DEF IsDownFrom
    <2> QED
      BY <1>3, <2>2, ProductStays
  <1>4. \A k \in lo .. top : f[k] \in Elems(8)
    BY <1>1, <1>2, <1>3, StaysDown
  <1> QED
    BY <1>1, <1>4

LEMMA RatiosAreElems ==
    ASSUME NEW t, NEW size, TableFits(t, size)
    PROVE  \A i \in 2 .. size : t.zr[i] \in Elems(8)
  <1>1. \A x \in Ratios : x \in Elems(8)
    BY SmallElems DEF Ratios
  <1> QED
    BY <1>1 DEF TableFits

\* The table in affine coordinates.
LEMMA SetTableFits ==
    ASSUME NEW size \in Nat \ {0}, NEW t, TableFits(t, size)
    PROVE  \A i \in 1 .. size : GeSetTableGejVar(t.prej, t.zr)[i] \in Affines
  <1> DEFINE x0 == FeInv(t.prej[size].z)
             zi == CHOOSE f : IsDownFrom(f, t.zr, x0, size)
  <1>1. Len(t.prej) = size /\ \A i \in 1 .. size : t.prej[i] \in Jacobians
    BY DEF TableFits
  <1>2. GeSetTableGejVar(t.prej, t.zr) = [i \in 1 .. size |-> GeSetGejZinv(t.prej[i], zi[i])]
    BY <1>1 DEF GeSetTableGejVar, IsDownFrom
  <1>3. x0 \in Elems(8)
    <2>1. t.prej[size].z \in Elems(8)
      BY <1>1, PointParts
    <2> QED
      BY <2>1, InverseStays
  <1> HIDE DEF x0
  <1>4. \A i \in 2 .. size : t.zr[i] \in Elems(8)
    BY RatiosAreElems
  <1>5. IsDownFrom(zi, t.zr, x0, size)
    BY <1>3, <1>4, DownFromExists
  <1> HIDE DEF zi
  <1>6. \A i \in 1 .. size : zi[i] \in Elems(8)
    BY <1>3, <1>4, <1>5, DownFromFits
  <1>7. ASSUME NEW i \in 1 .. size PROVE GeSetGejZinv(t.prej[i], zi[i]) \in Affines
    <2>1. t.prej[i].x \in Elems(8) /\ t.prej[i].y \in Elems(8) /\ t.prej[i].infinity \in BOOLEAN
      BY <1>1, PointParts
    <2> QED
      BY <1>6, <2>1, SetGejZinvFits
  <1> QED
    BY <1>2, <1>7

\* The table in the scale of one z.
LEMMA GlobalzFits ==
    ASSUME NEW size \in Nat, size >= 2, NEW t, TableFits(t, size)
    PROVE  /\ \A i \in 1 .. size : Globalz(t).r[i] \in Affines
           /\ Globalz(t).globalz \in Elems(2)
           /\ DOMAIN Globalz(t).r = 1 .. size
  <1> DEFINE top == size - 1
             x0 == t.zr[size]
             zs == CHOOSE f : IsDownFrom(f, t.zr, x0, top)
  <1>1. Len(t.prej) = size /\ \A i \in 1 .. size : t.prej[i] \in Jacobians
    BY DEF TableFits
  <1>2. /\ Globalz(t).r = [i \in 1 .. size |-> IF i = size THEN Ge(t.prej[size].x, t.prej[size].y)
                                               ELSE GeSetGejZinv(t.prej[i], zs[i])]
        /\ Globalz(t).globalz = t.prej[size].z
    BY <1>1 DEF Globalz, GeGlobalzSetTableGej, IsDownFrom
  <1>3. \A i \in 2 .. size : t.zr[i] \in Elems(8)
    BY RatiosAreElems
  <1>4. x0 \in Elems(8) /\ top \in Nat \ {0} /\ \A i \in 2 .. top : t.zr[i] \in Elems(8)
    BY <1>3
  <1> HIDE DEF x0
  <1>5. IsDownFrom(zs, t.zr, x0, top)
    <2> HIDE DEF top
    <2> QED
      BY <1>4, DownFromExists
  <1> HIDE DEF zs
  <1>6. \A i \in 1 .. top : zs[i] \in Elems(8)
    <2> HIDE DEF top
    <2> QED
      BY <1>4, <1>5, DownFromFits
  <1>7. ASSUME NEW i \in 1 .. size PROVE Globalz(t).r[i] \in Affines
    <2>1. t.prej[i] \in Jacobians
      BY <1>1
    <2>2. /\ t.prej[i].x \in Elems(8) /\ t.prej[i].y \in Elems(8)
          /\ t.prej[i].x \in Elems(6) /\ t.prej[i].y \in Elems(4)
          /\ t.prej[i].infinity \in BOOLEAN
      BY <2>1, PointParts
    <2>3. CASE i = size
      BY <1>2, <2>2, <2>3 DEF Ge, Affines
    <2>4. CASE i # size
      <3>1. zs[i] \in Elems(8)
        BY <1>6, <2>4
      <3> QED
        BY <1>2, <2>2, <2>4, <3>1, SetGejZinvFits
    <2> QED
      BY <2>3, <2>4
  <1>8. t.prej[size].z \in Elems(2)
    <2>1. t.prej[size] \in Jacobians
      BY <1>1
    <2> QED
      BY <2>1, PointParts
  <1> QED
    BY <1>2, <1>7, <1>8

-----------------------------------------------------------------------------
(* Multiplications.                                                        *)

LEMMA TableSizes ==
    ASSUME NEW w \in Nat, w >= 2, w <= Top
    PROVE  /\ TableSize(w) \in Nat \ {0} /\ 2^(w - 1) = 2 * TableSize(w)
           /\ w >= 3 => TableSize(w) >= 2
  <1>1. PICK k : k = w - 2
    OBVIOUS
  <1>2. k \in 0 .. Top /\ k + 1 = w - 1
    BY <1>1, Powers
  <1>3. 2^k \in Nat \ {0} /\ 2^(k + 1) = 2 * 2^k
    BY <1>2, Powers
  <1>4. TableSize(w) = 2^k
    BY <1>1 DEF TableSize
  <1>5. ASSUME w >= 3 PROVE TableSize(w) >= 2
    <2>1. PICK j : j = k - 1
      OBVIOUS
    <2>2. j \in 0 .. Top /\ j + 1 = k
      BY <1>1, <1>2, <1>5, <2>1, Powers
    <2>3. 2^j \in Nat \ {0} /\ 2^(j + 1) = 2 * 2^j
      BY <2>2, Powers
    <2> QED
      BY <1>4, <2>2, <2>3
  <1> QED
    BY <1>2, <1>3, <1>4, <1>5

\* An odd digit has its entry in the table.
LEMMA EntryOfDigit ==
    ASSUME NEW w \in Nat, w >= 2, w <= Top, NEW d \in Int, OddWithin(d, w)
    PROVE  /\ d > 0 => (d + 1) \div 2 \in 1 .. TableSize(w)
           /\ ~(d > 0) => (1 - d) \div 2 \in 1 .. TableSize(w)
  <1>1. PICK T, U : T = TableSize(w) /\ U = 2^(w - 1)
    OBVIOUS
  <1>2. T \in Nat \ {0} /\ U = 2 * T
    BY <1>1, TableSizes
  <1>3. d % 2 = 1 /\ -U < d /\ d < U
    BY <1>1 DEF OddWithin
  <1> QED
    BY <1>1, <1>2, <1>3

LEMMA EntryFits ==
    ASSUME NEW w \in Nat, w >= 2, w <= Top, NEW d \in Int, OddWithin(d, w),
           NEW pre, \A i \in 1 .. TableSize(w) : pre[i] \in Affines
    PROVE  TableGetGe(pre, d) \in Affines
  <1>1. CASE d > 0
    <2>1. (d + 1) \div 2 \in 1 .. TableSize(w)
      BY <1>1, EntryOfDigit
    <2> QED
      BY <1>1, <2>1 DEF TableGetGe
  <1>2. CASE ~(d > 0)
    <2>1. (1 - d) \div 2 \in 1 .. TableSize(w)
      BY <1>2, EntryOfDigit
    <2>2. pre[(1 - d) \div 2] \in Affines
      BY <2>1
    <2> QED
      BY <1>2, <2>2, OppositePointFits DEF TableGetGe
  <1> QED
    BY <1>1, <1>2

LEMMA StoredEntryFits ==
    ASSUME NEW w \in Nat, w >= 2, w <= Top, NEW d \in Int, OddWithin(d, w),
           NEW pre, \A i \in 1 .. TableSize(w) : pre[i] \in Stored
    PROVE  TableGetGeStorage(pre, d) \in Affines
  <1>1. CASE d > 0
    <2>1. (d + 1) \div 2 \in 1 .. TableSize(w)
      BY <1>1, EntryOfDigit
    <2>2. pre[(d + 1) \div 2] \in Stored
      BY <2>1
    <2> QED
      BY <1>1, <2>2, UnstoredFits DEF TableGetGeStorage
  <1>2. CASE ~(d > 0)
    <2>1. (1 - d) \div 2 \in 1 .. TableSize(w)
      BY <1>2, EntryOfDigit
    <2>2. pre[(1 - d) \div 2] \in Stored
      BY <2>1
    <2> QED
      BY <1>2, <2>2, UnstoredFits, OppositePointFits DEF TableGetGeStorage
  <1> QED
    BY <1>1, <1>2

LEMMA PreGFits == \A i \in 1 .. TableSize(WindowG) : PreG[i] \in Stored
  <1>1. PICK size, g : size = TableSize(WindowG) /\ g = GejSetGe(GeneratorGe)
    OBVIOUS
  <1>2. size \in Nat \ {0}
    <2>1. WindowG \in Nat /\ WindowG >= 2 /\ WindowG <= Top
      BY EcmultAssumption DEF Top
    <2> QED
      BY <1>1, <2>1, TableSizes
  <1>3. g \in Jacobians
    BY <1>1, GeneratorFits, AffineFits
  <1>4. PICK t : t = OddMultiplesTable(size, g)
    OBVIOUS
  <1>5. TableFits(t, size)
    <2>1. TableIsFinite(size, g)
      BY <1>1, GeneratorAssumption
    <2> QED
      BY <1>2, <1>3, <1>4, <2>1, OddTableFits
  <1>6. \A i \in 1 .. size : GeSetTableGejVar(t.prej, t.zr)[i] \in Affines
    BY <1>2, <1>5, SetTableFits
  <1>7. DOMAIN t.prej = 1 .. size
    BY <1>5 DEF TableFits
  <1>8. PreG = [i \in 1 .. size |-> GeToStorage(GeSetTableGejVar(t.prej, t.zr)[i])]
    BY <1>1, <1>4, <1>7 DEF PreG, OddMultiplesStorage, InStorage
  <1>9. ASSUME NEW i \in 1 .. size PROVE GeToStorage(GeSetTableGejVar(t.prej, t.zr)[i]) \in Stored
    <2>1. GeSetTableGejVar(t.prej, t.zr)[i] \in Affines
      BY <1>6
    <2> QED
      BY <2>1, AffineParts, StoredFits
  <1> QED
    BY <1>1, <1>8, <1>9

\* Digits for a window: zero, or with an entry in its table.
DigitsFit(v, w) ==
    /\ v.used \in 0 .. Bits
    /\ \A i \in 0 .. Bits - 1 : v.d[i] \in Int /\ (v.d[i] # 0 => OddWithin(v.d[i], w))

LEMMA WnafFits ==
    ASSUME NEW a \in 0 .. n - 1, NEW w \in Nat, w >= 2, Bits + w <= Top
    PROVE  DigitsFit(Wnaf(a, Bits, w), w)
  <1>1. PICK v : v = Wnaf(a, Bits, w)
    OBVIOUS
  <1>2. a \in Nat /\ a < n
    BY FieldSize
  <1>3. Sparse(v.d, v.used, Bits, Bits, w) /\ v.d \in [0 .. Bits - 1 -> Int]
        /\ v.used \in 0 .. Bits
    BY <1>1, <1>2, WnafStands
  <1> QED
    BY <1>1, <1>3 DEF DigitsFit, Sparse

AddDigitA(pre, x, d) == IF d = 0 THEN x ELSE GejAddGeVar(x, TableGetGe(pre.r, d)).r

AddDigitG(pre, x, d) ==
    IF d = 0 THEN x ELSE GejAddZinvVar(x, TableGetGeStorage(PreG, d), pre.globalz)

IsDigitSum(f, pre, wa, wg, top) ==
    f = [i \in 0 .. top |->
           IF i = top THEN GejSetInfinity
           ELSE AddDigitG(pre, AddDigitA(pre, GejDoubleVar(f[i + 1]).r, wa.d[i]), wg.d[i])]

PreFits(pre) ==
    /\ \A i \in 1 .. TableSize(WindowA) : pre.r[i] \in Affines
    /\ pre.globalz \in Elems(2)

LEMMA DigitStep ==
    ASSUME NEW pre, PreFits(pre), NEW wa, DigitsFit(wa, WindowA), NEW wg, DigitsFit(wg, WindowG),
           NEW i \in 0 .. Bits - 1, NEW x \in Jacobians
    PROVE  AddDigitG(pre, AddDigitA(pre, GejDoubleVar(x).r, wa.d[i]), wg.d[i]) \in Jacobians
  <1>0. /\ WindowA \in Nat /\ WindowA >= 2 /\ WindowA <= Top
        /\ WindowG \in Nat /\ WindowG >= 2 /\ WindowG <= Top
    BY EcmultAssumption DEF Top
  <1>1. PICK c, d, q : c = wa.d[i] /\ d = wg.d[i] /\ q = GejDoubleVar(x).r
    OBVIOUS
  <1>2. q \in Jacobians /\ c \in Int /\ d \in Int
        /\ (c # 0 => OddWithin(c, WindowA)) /\ (d # 0 => OddWithin(d, WindowG))
    BY <1>1, DoubleFits DEF DigitsFit
  <1>3. AddDigitA(pre, q, c) \in Jacobians
    <2>1. CASE c = 0
      BY <1>2, <2>1 DEF AddDigitA
    <2>2. CASE c # 0
      <3>1. TableGetGe(pre.r, c) \in Affines
        BY <1>0, <1>2, <2>2, EntryFits DEF PreFits
      <3> QED
        BY <1>2, <2>2, <3>1, AddGeVarFits DEF AddDigitA
    <2> QED
      BY <2>1, <2>2
  <1>4. PICK y \in Jacobians : y = AddDigitA(pre, q, c)
    BY <1>3
  <1>5. AddDigitG(pre, y, d) \in Jacobians
    <2>1. CASE d = 0
      BY <2>1 DEF AddDigitG
    <2>2. CASE d # 0
      <3>1. TableGetGeStorage(PreG, d) \in Affines
        BY <1>0, <1>2, <2>2, StoredEntryFits, PreGFits
      <3>2. pre.globalz \in Elems(8)
        BY SmallElems DEF PreFits
      <3> QED
        BY <2>2, <3>1, <3>2, AddZinvVarFits DEF AddDigitG
    <2> QED
      BY <2>1, <2>2
  <1> QED
    BY <1>1, <1>4, <1>5

LEMMA DigitSumExists ==
    ASSUME NEW pre, PreFits(pre), NEW wa, DigitsFit(wa, WindowA), NEW wg, DigitsFit(wg, WindowG),
           NEW top \in 0 .. Bits
    PROVE  \E f : IsDigitSum(f, pre, wa, wg, top)
  <1>1. PICK lo, D : lo = 0 /\ lo \in Nat /\ lo <= top /\ D = lo .. top - 1 /\ top \in Nat
    BY Scalars
  <1> DEFINE step(k, x) == AddDigitG(pre, AddDigitA(pre, GejDoubleVar(x).r, wa.d[k]), wg.d[k])
             G == [k \in D |-> [x \in Jacobians |-> step(k, x)]]
  <1>2. G \in [D -> [Jacobians -> Jacobians]]
    <2>1. ASSUME NEW k \in D, NEW x \in Jacobians PROVE step(k, x) \in Jacobians
      <3>1. k \in 0 .. Bits - 1
        BY <1>1, Scalars
      <3> QED
        BY <3>1, DigitStep
    <2> HIDE DEF step
    <2> QED
      BY <2>1
  <1>3. \A k \in D, x \in Jacobians : G[k][x] = step(k, x)
    OBVIOUS
  <1> HIDE DEF G
  <1>4. PICK f : LoopsDown(f, lo, top, Jacobians, GejSetInfinity, G)
    BY <1>1, <1>2, InfinityFits, LoopDown
  <1>5. \A k \in lo .. top : k # top => k \in D /\ f[k + 1] \in Jacobians
    BY <1>1, <1>4 DEF LoopsDown
  <1>6. ASSUME NEW k \in 0 .. top PROVE f[k] = IF k = top THEN GejSetInfinity ELSE step(k, f[k + 1])
    <2> HIDE DEF step
    <2>1. k \in lo .. top /\ f[k] = IF k = top THEN GejSetInfinity ELSE G[k][f[k + 1]]
      BY <1>1, <1>4 DEF LoopsDown
    <2> QED
      BY <1>3, <1>5, <2>1
  <1>7. f = [k \in 0 .. top |-> f[k]]
    BY <1>1, <1>4 DEF LoopsDown
  <1>8. f = [k \in 0 .. top |-> IF k = top THEN GejSetInfinity ELSE step(k, f[k + 1])]
    <2> HIDE DEF step
    <2> QED
      BY <1>6, <1>7
  <1> QED
    BY <1>8 DEF IsDigitSum

LEMMA DigitSumFits ==
    ASSUME NEW pre, PreFits(pre), NEW wa, DigitsFit(wa, WindowA), NEW wg, DigitsFit(wg, WindowG),
           NEW top \in 0 .. Bits, NEW f, IsDigitSum(f, pre, wa, wg, top)
    PROVE  f[0] \in Jacobians
  <1>1. PICK lo : lo = 0 /\ lo \in Nat /\ lo <= top /\ top \in Nat
    BY Scalars
  <1>2. f[top] \in Jacobians
    BY <1>1, InfinityFits DEF IsDigitSum
  <1>3. ASSUME NEW k \in lo .. top - 1, f[k + 1] \in Jacobians PROVE f[k] \in Jacobians
    <2>1. k \in 0 .. Bits - 1 /\ k \in 0 .. top /\ k # top
      BY <1>1, Scalars
    <2>2. f[k] = AddDigitG(pre, AddDigitA(pre, GejDoubleVar(f[k + 1]).r, wa.d[k]), wg.d[k])
      BY <2>1 DEF IsDigitSum
    <2> QED
      BY <1>3, <2>1, <2>2, DigitStep
  <1>4. \A k \in lo .. top : f[k] \in Jacobians
    BY <1>1, <1>2, <1>3, StaysDown
  <1> QED
    BY <1>1, <1>4

LEMMA OddMultiplesFit ==
    ASSUME NEW a \in Jacobians, TableIsFinite(TableSize(WindowA), a)
    PROVE  PreFits(OddMultiplesGlobalz(a))
  <1>1. PICK size, t : size = TableSize(WindowA) /\ t = OddMultiplesTable(size, a)
    OBVIOUS
  <1>2. size \in Nat /\ size >= 2
    <2>1. WindowA \in Nat /\ WindowA >= 2 /\ WindowA >= 3 /\ WindowA <= Top
      BY EcmultAssumption DEF Top
    <2> QED
      BY <1>1, <2>1, TableSizes
  <1>3. TableFits(t, size)
    <2>1. size \in Nat \ {0}
      BY <1>2
    <2> QED
      BY <1>1, <2>1, OddTableFits
  <1>4. /\ \A i \in 1 .. size : Globalz(t).r[i] \in Affines
        /\ Globalz(t).globalz \in Elems(2)
    BY <1>2, <1>3, GlobalzFits
  <1> QED
    BY <1>1, <1>4 DEF PreFits, OddMultiplesGlobalz

LEMMA EcmultFits ==
    ASSUME NEW a \in Jacobians, TableIsFinite(TableSize(WindowA), a),
           NEW na \in 0 .. n - 1, NEW ng \in 0 .. n - 1
    PROVE  SecpEcmult(a, na, ng) \in Jacobians
  <1>1. PICK pre, wa, wg : /\ pre = OddMultiplesGlobalz(a)
                           /\ wa = Wnaf(na, Bits, WindowA) /\ wg = Wnaf(ng, Bits, WindowG)
    OBVIOUS
  <1>2. PreFits(pre)
    BY <1>1, OddMultiplesFit
  <1>3. DigitsFit(wa, WindowA) /\ DigitsFit(wg, WindowG)
    <2>1. /\ WindowA \in Nat /\ WindowA >= 2 /\ Bits + WindowA <= Top
          /\ WindowG \in Nat /\ WindowG >= 2 /\ Bits + WindowG <= Top
      BY EcmultAssumption DEF Top
    <2> QED
      BY <1>1, <2>1, WnafFits
  <1>4. PICK top : top = Max({wa.used, wg.used})
    OBVIOUS
  <1>5. top \in 0 .. Bits
    <2>1. wa.used \in Nat /\ wg.used \in Nat /\ wa.used <= Bits /\ wg.used <= Bits
      BY <1>3, Scalars DEF DigitsFit
    <2> QED
      BY <1>4, <2>1, MaxOfTwo, Scalars
  <1> DEFINE f == CHOOSE g : IsDigitSum(g, pre, wa, wg, top)
  <1>6. IsDigitSum(f, pre, wa, wg, top)
    BY <1>2, <1>3, <1>5, DigitSumExists
  <1>7. SecpEcmult(a, na, ng) = FromGlobalz(f[0], pre.globalz)
    BY <1>1, <1>4 DEF SecpEcmult, EcmultDigits, IsDigitSum, AddDigitA, AddDigitG
  <1> HIDE DEF f
  <1>8. f[0] \in Jacobians
    BY <1>2, <1>3, <1>5, <1>6, DigitSumFits
  <1>9. FeMul(f[0].z, pre.globalz) \in Elems(2)
    <2>1. f[0].z \in Elems(8) /\ pre.globalz \in Elems(8)
      BY <1>2, <1>8, PointParts, SmallElems DEF PreFits
    <2>2. FeMul(f[0].z, pre.globalz) \in Elems(1)
      BY <2>1, ProductFits
    <2> QED
      BY <2>2, ElemsGrow
  <1>10. FromGlobalz(f[0], pre.globalz) \in Jacobians
    <2>1. PICK r \in Jacobians, z \in Elems(2) : r = f[0] /\ z = FeMul(f[0].z, pre.globalz)
      BY <1>8, <1>9
    <2>2. [r EXCEPT !.z = z] \in Jacobians
      BY DEF Jacobians
    <2>3. FromGlobalz(r, pre.globalz) = IF r.infinity THEN r ELSE [r EXCEPT !.z = z]
      BY <2>1 DEF FromGlobalz
    <2> QED
      BY <2>1, <2>2, <2>3
  <1> QED
    BY <1>7, <1>10

\* The entries of a table that are all looked at.
ConstEntries == [x : Elems(6), y : Elems(1), infinity : BOOLEAN]

IsChosen(f, pre, abs, top) ==
    f = [m \in 0 .. top |->
           IF m = 0 THEN GeClear
           ELSE [x |-> FeCMov(f[m - 1].x, pre[m].x, m - 1 = abs \div 2),
                 y |-> FeCMov(f[m - 1].y, pre[m].y, m - 1 = abs \div 2),
                 infinity |-> FALSE]]

LEMMA ClearEntryFits == GeClear \in ConstEntries
  <1>1. Zero \in Elems(6) /\ Zero \in Elems(1)
    BY ElemFits DEF Zero
  <1> QED
    BY <1>1 DEF GeClear, Ge, ConstEntries

LEMMA ChosenStep ==
    ASSUME NEW r \in ConstEntries, NEW a \in ConstEntries, NEW flag
    PROVE  [x |-> FeCMov(r.x, a.x, flag), y |-> FeCMov(r.y, a.y, flag), infinity |-> FALSE]
             \in ConstEntries
  <1>1. r.x \in Elems(6) /\ r.y \in Elems(1) /\ a.x \in Elems(6) /\ a.y \in Elems(1)
    BY DEF ConstEntries
  <1>2. FeCMov(r.x, a.x, flag) \in Elems(6)
    BY <1>1, ChosenFits
  <1>3. FeCMov(r.y, a.y, flag) \in Elems(1)
    BY <1>1, ChosenFits
  <1> QED
    BY <1>2, <1>3 DEF ConstEntries

LEMMA ChosenExists ==
    ASSUME NEW top \in Nat, NEW pre, \A i \in 1 .. top : pre[i] \in ConstEntries, NEW abs
    PROVE  \E f : IsChosen(f, pre, abs, top)
  <1>1. PICK lo, D : lo = 0 /\ lo \in Nat /\ lo <= top /\ D = lo + 1 .. top
    OBVIOUS
  <1> DEFINE step(m, r) == [x |-> FeCMov(r.x, pre[m].x, m - 1 = abs \div 2),
                            y |-> FeCMov(r.y, pre[m].y, m - 1 = abs \div 2),
                            infinity |-> FALSE]
             G == [k \in D |-> [r \in ConstEntries |-> step(k, r)]]
  <1>2. G \in [D -> [ConstEntries -> ConstEntries]]
    <2>1. ASSUME NEW k \in D, NEW r \in ConstEntries PROVE step(k, r) \in ConstEntries
      <3>1. pre[k] \in ConstEntries
        BY <1>1
      <3> QED
        BY <3>1, ChosenStep
    <2> HIDE DEF step
    <2> QED
      BY <2>1
  <1>3. \A k \in D, r \in ConstEntries : G[k][r] = step(k, r)
    OBVIOUS
  <1> HIDE DEF G
  <1>4. PICK f : LoopsUp(f, lo, top, ConstEntries, GeClear, G)
    BY <1>1, <1>2, ClearEntryFits, LoopUp
  <1>5. \A k \in lo .. top : k # lo => k \in D /\ f[k - 1] \in ConstEntries
    BY <1>1, <1>4 DEF LoopsUp
  <1>6. ASSUME NEW k \in 0 .. top PROVE f[k] = IF k = 0 THEN GeClear ELSE step(k, f[k - 1])
    <2> HIDE DEF step
    <2>1. k \in lo .. top /\ f[k] = IF k = lo THEN GeClear ELSE G[k][f[k - 1]]
      BY <1>1, <1>4 DEF LoopsUp
    <2> QED
      BY <1>1, <1>3, <1>5, <2>1
  <1>7. f = [k \in 0 .. top |-> f[k]]
    BY <1>1, <1>4 DEF LoopsUp
  <1>8. f = [k \in 0 .. top |-> IF k = 0 THEN GeClear ELSE step(k, f[k - 1])]
    <2> HIDE DEF step
    <2> QED
      BY <1>6, <1>7
  <1> QED
    BY <1>8 DEF IsChosen

LEMMA ConstEntryFits ==
    ASSUME NEW top \in Nat, NEW pre, pre \in [1 .. top -> ConstEntries], NEW d
    PROVE  ConstTableGetGe(pre, d) \in Affines
  <1> DEFINE abs == IF d > 0 THEN d ELSE -d
             f == CHOOSE g : IsChosen(g, pre, abs, top)
  <1>1. Len(pre) = top
    OBVIOUS
  <1>2. IsChosen(f, pre, abs, top)
    <2> HIDE DEF abs
    <2> QED
      BY ChosenExists
  <1>3. ConstTableGetGe(pre, d) = [f[top] EXCEPT !.y = FeCMov(@, FeNegate(@, 1), d # abs)]
    BY <1>1 DEF ConstTableGetGe, IsChosen
  <1> HIDE DEF f, abs
  <1>4. PICK lo : lo = 0 /\ lo \in Nat /\ lo <= top
    OBVIOUS
  <1>5. f[lo] \in ConstEntries
    BY <1>2, <1>4, ClearEntryFits DEF IsChosen
  <1>6. ASSUME NEW k \in lo + 1 .. top, f[k - 1] \in ConstEntries PROVE f[k] \in ConstEntries
    <2>1. k \in 0 .. top /\ k # 0 /\ pre[k] \in ConstEntries
      BY <1>4
    <2>2. f[k] = [x |-> FeCMov(f[k - 1].x, pre[k].x, k - 1 = abs \div 2),
                  y |-> FeCMov(f[k - 1].y, pre[k].y, k - 1 = abs \div 2),
                  infinity |-> FALSE]
      BY <1>2, <2>1 DEF IsChosen
    <2>3. PICK b : b = (k - 1 = abs \div 2)
      OBVIOUS
    <2>4. f[k] = [x |-> FeCMov(f[k - 1].x, pre[k].x, b),
                  y |-> FeCMov(f[k - 1].y, pre[k].y, b), infinity |-> FALSE]
      BY <2>2, <2>3
    <2> QED
      BY <1>6, <2>1, <2>4, ChosenStep
  <1>7. \A k \in lo .. top : f[k] \in ConstEntries
    BY <1>4, <1>5, <1>6, StaysUp
  <1>8. PICK r \in ConstEntries : r = f[top]
    BY <1>4, <1>7
  <1>9. r.x \in Elems(6) /\ r.y \in Elems(1) /\ r.infinity \in BOOLEAN
    BY DEF ConstEntries
  <1>10. PICK y : y = FeCMov(r.y, FeNegate(r.y, 1), d # abs)
    OBVIOUS
  <1>11. y \in Elems(4)
    <2>1. FeNegate(r.y, 1) \in Elems(2)
      BY <1>9, OppositeFits
    <2>2. r.y \in Elems(4) /\ FeNegate(r.y, 1) \in Elems(4)
      BY <1>9, <2>1, ElemsGrow
    <2> QED
      BY <1>10, <2>2, ChosenFits
  <1>12. [r EXCEPT !.y = y] \in Affines
    BY <1>9, <1>11 DEF ConstEntries, Affines
  <1> QED
    BY <1>3, <1>8, <1>10, <1>12

IsConstSum(f, pre, d, w, top) ==
    f = [i \in 0 .. top |->
           IF i = top THEN GejSetGe(ConstTableGetGe(pre, d[i]))
           ELSE GejAddGe(DoubledNonzero(f[i + 1], w), ConstTableGetGe(pre, d[i]))]

LEMMA ConstSumStep ==
    ASSUME NEW size \in Nat, NEW pre, pre \in [1 .. size -> ConstEntries], NEW d,
           NEW w \in Nat, NEW x \in Jacobians
    PROVE  GejAddGe(DoubledNonzero(x, w), ConstTableGetGe(pre, d)) \in Jacobians
  <1>1. DoubledNonzero(x, w) \in Jacobians
    BY DoublingsFit
  <1>2. ConstTableGetGe(pre, d) \in Affines
    BY ConstEntryFits
  <1> QED
    BY <1>1, <1>2, AddGeFits

LEMMA ConstSumExists ==
    ASSUME NEW size \in Nat, NEW pre, pre \in [1 .. size -> ConstEntries], NEW d,
           NEW w \in Nat, NEW top \in Nat
    PROVE  \E f : IsConstSum(f, pre, d, w, top)
  <1>1. PICK lo, D : lo = 0 /\ lo \in Nat /\ lo <= top /\ D = lo .. top - 1
    OBVIOUS
  <1> DEFINE step(k, x) == GejAddGe(DoubledNonzero(x, w), ConstTableGetGe(pre, d[k]))
             G == [k \in D |-> [x \in Jacobians |-> step(k, x)]]
  <1>2. G \in [D -> [Jacobians -> Jacobians]]
    <2>1. ASSUME NEW k \in D, NEW x \in Jacobians PROVE step(k, x) \in Jacobians
      BY ConstSumStep
    <2> HIDE DEF step
    <2> QED
      BY <2>1
  <1>3. \A k \in D, x \in Jacobians : G[k][x] = step(k, x)
    OBVIOUS
  <1> HIDE DEF G
  <1>4. PICK x0 \in Jacobians : x0 = GejSetGe(ConstTableGetGe(pre, d[top]))
    BY ConstEntryFits, AffineFits
  <1>5. PICK f : LoopsDown(f, lo, top, Jacobians, x0, G)
    BY <1>1, <1>2, LoopDown
  <1>6. \A k \in lo .. top : k # top => k \in D /\ f[k + 1] \in Jacobians
    BY <1>1, <1>5 DEF LoopsDown
  <1>7. ASSUME NEW k \in 0 .. top PROVE f[k] = IF k = top THEN x0 ELSE step(k, f[k + 1])
    <2> HIDE DEF step
    <2>1. k \in lo .. top /\ f[k] = IF k = top THEN x0 ELSE G[k][f[k + 1]]
      BY <1>1, <1>5 DEF LoopsDown
    <2> QED
      BY <1>3, <1>6, <2>1
  <1>8. f = [k \in 0 .. top |-> f[k]]
    BY <1>1, <1>5 DEF LoopsDown
  <1>9. f = [k \in 0 .. top |-> IF k = top THEN GejSetGe(ConstTableGetGe(pre, d[k]))
                                ELSE step(k, f[k + 1])]
    <2> HIDE DEF step
    <2>1. \A k \in 0 .. top : k = top => x0 = GejSetGe(ConstTableGetGe(pre, d[k]))
      BY <1>4
    <2> QED
      BY <1>7, <1>8, <2>1
  <1> QED
    BY <1>9 DEF IsConstSum

LEMMA ConstSumFits ==
    ASSUME NEW size \in Nat, NEW pre, pre \in [1 .. size -> ConstEntries], NEW d,
           NEW w \in Nat, WnafSize(w) \in Nat
    PROVE  ConstDigits(pre, d, w) \in Jacobians
  <1>1. PICK top : top = WnafSize(w) /\ top \in Nat
    OBVIOUS
  <1> DEFINE f == CHOOSE g : IsConstSum(g, pre, d, w, top)
  <1>2. IsConstSum(f, pre, d, w, top)
    BY <1>1, ConstSumExists
  <1>3. ConstDigits(pre, d, w) = f[0]
    BY <1>1 DEF ConstDigits, IsConstSum
  <1> HIDE DEF f
  <1>4. PICK lo : lo = 0 /\ lo \in Nat /\ lo <= top
    BY <1>1
  <1>5. f[top] \in Jacobians
    <2>1. f[top] = GejSetGe(ConstTableGetGe(pre, d[top]))
      BY <1>1, <1>2 DEF IsConstSum
    <2> QED
      BY <2>1, ConstEntryFits, AffineFits
  <1>6. ASSUME NEW k \in lo .. top - 1, f[k + 1] \in Jacobians PROVE f[k] \in Jacobians
    <2>1. k \in 0 .. top /\ k # top
      BY <1>1, <1>4
    <2>2. f[k] = GejAddGe(DoubledNonzero(f[k + 1], w), ConstTableGetGe(pre, d[k]))
      BY <1>2, <2>1 DEF IsConstSum
    <2> QED
      BY <1>6, <2>2, ConstSumStep
  <1>7. \A k \in lo .. top : f[k] \in Jacobians
    BY <1>1, <1>4, <1>5, <1>6, StaysDown
  <1> QED
    BY <1>1, <1>3, <1>4, <1>7

LEMMA CorrectionFits ==
    ASSUME NEW a \in Affines, NEW skew
    PROVE  Correction(a, skew) \in Affines
  <1>1. GeToStorage(a) \in Stored
    BY AffineParts, StoredFits
  <1>2. GeSetGej(GejDoubleVar(GejSetGe(a)).r) \in Affines
    BY AffineFits, DoubleFits, SetGejFits
  <1>3. GeToStorage(GeSetGej(GejDoubleVar(GejSetGe(a)).r)) \in Stored
    BY <1>2, AffineParts, StoredFits
  <1> QED
    BY <1>1, <1>3, UnstoredFits DEF Correction, GeStorageCMov

LEMMA EcmultConstFits ==
    ASSUME NEW a \in Affines, TableIsFinite(TableSize(WindowA), GejSetGe(a)), NEW scalar
    PROVE  EcmultConst(a, scalar) \in Jacobians
  <1>1. PICK size, t, w, wnaf, tbl :
            /\ size = TableSize(WindowA) /\ t = OddMultiplesTable(size, GejSetGe(a))
            /\ w = WindowA - 1 /\ wnaf = WnafConst(scalar, w)
            /\ tbl = Globalz(t)
    OBVIOUS
  <1>2. /\ size \in Nat /\ size >= 2 /\ w \in Nat \ {0} /\ Bits + 2 * w <= Top
    <2>1. WindowA \in Nat /\ WindowA >= 2 /\ WindowA >= 3 /\ WindowA <= Top
      BY EcmultAssumption DEF Top
    <2>2. size \in Nat /\ size >= 2
      BY <1>1, <2>1, TableSizes
    <2> QED
      BY <1>1, <2>1, <2>2, EcmultAssumption DEF Top
  <1>3. GejSetGe(a) \in Jacobians
    BY AffineFits
  <1>4. TableFits(t, size)
    <2>1. size \in Nat \ {0}
      BY <1>2
    <2> QED
      BY <1>1, <1>3, <2>1, OddTableFits
  <1>5. /\ \A i \in 1 .. size : tbl.r[i] \in Affines
        /\ tbl.globalz \in Elems(2)
    BY <1>1, <1>2, <1>4, GlobalzFits
  <1> DEFINE pre == [i \in 1 .. size |-> [tbl.r[i] EXCEPT !.y = FeNormalize(@)]]
  <1>7. pre \in [1 .. size -> ConstEntries]
    <2>1. ASSUME NEW i \in 1 .. size PROVE [tbl.r[i] EXCEPT !.y = FeNormalize(@)] \in ConstEntries
      <3>1. PICK r \in Affines : r = tbl.r[i]
        BY <1>5
      <3>2. PICK y \in Elems(1) : y = FeNormalize(r.y)
        BY AffineParts, NormalizedFits
      <3>3. [r EXCEPT !.y = y] \in ConstEntries
        BY <3>1 DEF Affines, ConstEntries
      <3> QED
        BY <3>1, <3>2, <3>3
    <2> QED
      BY <2>1
  <1>8. EcmultConst(a, scalar)
          = GejAddGe([ConstDigits(pre, wnaf.d, w) EXCEPT !.z = FeMul(@, tbl.globalz)],
                     GeNeg(Correction(a, wnaf.skew)))
    BY <1>1 DEF EcmultConst, EcmultConstDigits, OddMultiplesGlobalz
  <1> HIDE DEF pre
  <1>9. WnafSize(w) \in Nat /\ w \in Nat
    BY <1>2, Windows
  <1>10. PICK c \in Jacobians : c = ConstDigits(pre, wnaf.d, w)
    BY <1>2, <1>7, <1>9, ConstSumFits
  <1>11. PICK z \in Elems(2) : z = FeMul(c.z, tbl.globalz)
    <2>1. c.z \in Elems(8) /\ tbl.globalz \in Elems(8)
      BY <1>5, PointParts, SmallElems
    <2>2. FeMul(c.z, tbl.globalz) \in Elems(1)
      BY <2>1, ProductFits
    <2> QED
      BY <2>2, ElemsGrow
  <1>12. [c EXCEPT !.z = z] \in Jacobians
    BY DEF Jacobians
  <1>13. GeNeg(Correction(a, wnaf.skew)) \in Affines
    BY CorrectionFits, OppositePointFits
  <1> QED
    BY <1>8, <1>10, <1>11, <1>12, <1>13, AddGeFits

\* The points and the signing context.
PointsFit == pt \in [Points -> Jacobians] /\ gen \in GenContexts

LEMMA SquareStays ==
    ASSUME NEW a \in Fe, NEW b \in Nat, NEW c \in Nat
    PROVE  a * b * c \in Int /\ (a * b) % p \in Int
  <1>1. a \in Int /\ a * b \in Int
    BY FieldSize DEF Fe
  <1>2. PICK k \in Int : k = a * b
    BY <1>1
  <1>3. k % p \in Int
    BY FieldSize
  <1> QED
    BY <1>2, <1>3

LEMMA ScaledFits ==
    ASSUME NEW k \in 0 .. n - 1, NEW z \in Nat
    PROVE  Scaled(k, z) \in Jacobians
  <1>1. CASE k = 0
    BY <1>1, InfinityFits DEF Scaled
  <1>2. CASE k # 0
    <2>1. k \in 1 .. n - 1
      BY <1>2, FieldSize
    <2>2. MultipleOf[k] \in Fe \X Fe
      BY <2>1, MultiplesAssumption
    <2>3. PICK x \in Fe, y \in Fe : MultipleOf[k] = <<x, y>>
      BY <2>2
    <2>4. MultipleOf[k][1] = x /\ MultipleOf[k][2] = y
      BY <2>3
    <2>5. PICK u \in Int, v \in Int : u = x * z * z /\ v = ((y * z) % p) * z * z
      <3>1. x * z * z \in Int /\ (y * z) % p \in Int
        BY SquareStays
      <3>2. PICK w \in Int : w = (y * z) % p
        BY <3>1
      <3>3. w * z * z \in Int
        OBVIOUS
      <3> QED
        BY <3>1, <3>2, <3>3
    <2>6. /\ Elem(u, 1) \in Elems(6) /\ Elem(v, 1) \in Elems(4) /\ Elem(z, 1) \in Elems(2)
      BY ElemFits
    <2>7. Scaled(k, z) = Gej(Elem(u, 1), Elem(v, 1), Elem(z, 1))
      BY <1>2, <2>4, <2>5 DEF Scaled
    <2> QED
      BY <2>6, <2>7 DEF Gej, Jacobians
  <1> QED
    BY <1>1, <1>2

LEMMA PointsFitAtFirst == LibraryInit => PointsFit
  <1> SUFFICES ASSUME LibraryInit PROVE PointsFit
    OBVIOUS
  <1>1. PICK logs : logs \in {StartLogs, {[r \in Points |-> 0]}} /\ CurveStart(logs)
    BY DEF LibraryInit
  <1>2. logs \subseteq [Points -> 0 .. n - 1]
    <2>1. 0 \in 0 .. n - 1
      BY FieldSize
    <2> QED
      BY <1>1, <2>1, CurveAssumption
  <1>3. PICK f \in logs, z \in [Points -> StartZ] : pt = [r \in Points |-> Scaled(f[r], z[r])]
    BY <1>1 DEF CurveStart
  <1>4. \A r \in Points : Scaled(f[r], z[r]) \in Jacobians
    <2> SUFFICES ASSUME NEW r \in Points PROVE Scaled(f[r], z[r]) \in Jacobians
      OBVIOUS
    <2>1. f[r] \in 0 .. n - 1 /\ z[r] \in Nat
      BY <1>2, <1>3, CurveAssumption
    <2> QED
      BY <2>1, ScaledFits
  <1>5. gen = GenContextBuild(GenContextInit)
    BY <1>1 DEF CurveStart
  <1> QED
    BY <1>3, <1>4, <1>5, BuiltContextFits DEF PointsFit

\* A call that leaves a fitting point.
LEMMA GivenPointFits ==
    ASSUME PointsFit, NEW c, NEW point \in Jacobians, Gives(c, point), UNCHANGED gen
    PROVE  PointsFit'
  BY DEF PointsFit, Gives

LEMMA StoredPointFits ==
    ASSUME NEW b \in Jacobians
    PROVE  [x |-> FeNormalize(b.x), y |-> FeNormalize(b.y), infinity |-> b.infinity] \in Affines
  <1>1. FeNormalize(b.x) \in Elems(1) /\ FeNormalize(b.y) \in Elems(1)
    BY PointParts, NormalizedFits
  <1>2. FeNormalize(b.x) \in Elems(6) /\ FeNormalize(b.y) \in Elems(4)
    BY <1>1, ElemsGrow
  <1> QED
    BY <1>2, PointParts DEF Affines

LEMMA AllPointsAffineFit ==
    ASSUME PointsFit, NEW r \in Points
    PROVE  GejSetGe(GeSetAllGejVar(pt)[r]) \in Jacobians
  <1>1. PICK top : top \in Nat /\ Points = 1 .. top
    BY CurveAssumption, FS_CardinalityType
  <1>2. pt \in [1 .. top -> Jacobians] /\ r \in 1 .. top
    BY <1>1 DEF PointsFit
  <1>3. GeSetAllGejVar(pt)[r] \in Affines
    BY <1>1, <1>2, AllAffineFits
  <1> QED
    BY <1>3, AffineFits

LEMMA PointStepFits ==
    ASSUME PointsFit, TablesAreFinite, NEW r \in Points,
           NEW a \in Points, NEW b \in Points
    PROVE  /\ Double(r, a) \/ NegateJ(r, a) => PointsFit'
           /\ AddVar(r, a, b) \/ AddGeVar(r, a, b) \/ AddZinvVar(r, a, b) => PointsFit'
           /\ AddGe(r, a, b) \/ SubtractGe(r, a, b) => PointsFit'
           /\ \A na, ng \in Multipliers : MultiplyAdd(r, a, na, ng) => PointsFit'
           /\ \A k \in Multipliers : MultiplyConst(r, a, k) => PointsFit'
  <1>1. PICK A \in Jacobians, B \in Jacobians : A = pt[a] /\ B = pt[b]
    BY DEF PointsFit
  <1>2. Double(r, a) => PointsFit'
    BY <1>1, DoubleFits, GivenPointFits DEF Double
  <1>3. NegateJ(r, a) => PointsFit'
    BY <1>1, OppositeJacobianFits, GivenPointFits DEF NegateJ
  <1>4. AddVar(r, a, b) => PointsFit'
    BY <1>1, AddVarFits, GivenPointFits DEF AddVar
  <1>5. GeSetGej(B) \in Affines /\ GeSetGejVar(B) \in Affines
    BY SetGejFits
  <1>6. AddGeVar(r, a, b) => PointsFit'
    BY <1>1, <1>5, AddGeVarFits, GivenPointFits DEF AddGeVar
  <1>7. AddZinvVar(r, a, b) => PointsFit'
    <2>1. PICK q \in Affines :
             q = [x |-> FeNormalize(B.x), y |-> FeNormalize(B.y), infinity |-> B.infinity]
      BY StoredPointFits
    <2>2. FeInv(B.z) \in Elems(8)
      BY PointParts, InverseStays
    <2>3. GejAddZinvVar(A, q, FeInv(B.z)) \in Jacobians
      BY <2>2, AddZinvVarFits
    <2>4. PICK c, point \in Jacobians : point = GejAddZinvVar(A, q, FeInv(B.z))
      BY <2>3
    <2> QED
      BY <1>1, <2>1, <2>4, GivenPointFits DEF AddZinvVar
  <1>8. AddGe(r, a, b) => PointsFit'
    BY <1>1, <1>5, AddGeFits, GivenPointFits DEF AddGe
  <1>9. SubtractGe(r, a, b) => PointsFit'
    <2>1. GejAddGe(A, GeNeg(GeSetGej(B))) \in Jacobians
      BY <1>5, OppositePointFits, AddGeFits
    <2> QED
      BY <1>1, <2>1, GivenPointFits DEF SubtractGe
  <1>10. ASSUME NEW na \in Multipliers, NEW ng \in Multipliers, MultiplyAdd(r, a, na, ng)
         PROVE  PointsFit'
    <2>1. TableIsFinite(TableSize(WindowA), A)
      BY <1>1, <1>10 DEF MultiplyAdd, TablesAreFinite
    <2>2. na \in 0 .. n - 1 /\ ng \in 0 .. n - 1
      BY CurveAssumption
    <2>3. SecpEcmult(A, na, ng) \in Jacobians
      BY <2>1, <2>2, EcmultFits
    <2> QED
      BY <1>1, <1>10, <2>3, GivenPointFits DEF MultiplyAdd
  <1>11. ASSUME NEW k \in Multipliers, MultiplyConst(r, a, k)
         PROVE  PointsFit'
    <2>1. TableIsFinite(TableSize(WindowA), GejSetGe(GeSetGej(A)))
      BY <1>1, <1>11 DEF MultiplyConst, TablesAreFinite
    <2>2. PICK q \in Affines : q = GeSetGej(A)
      BY SetGejFits
    <2>3. EcmultConst(q, k) \in Jacobians
      BY <2>1, <2>2, EcmultConstFits
    <2> QED
      BY <1>1, <1>11, <2>2, <2>3, GivenPointFits DEF MultiplyConst
  <1> QED
    BY <1>2, <1>3, <1>4, <1>6, <1>7, <1>8, <1>9, <1>10, <1>11

LEMMA OnePointStepFits ==
    ASSUME PointsFit, NEW r \in Points
    PROVE  /\ ToAffine(r) => PointsFit'
           /\ \A s \in StartZ : Rescale(r, s) => PointsFit'
           /\ \A x \in LiftX, odd \in BOOLEAN : Lift(r, x, odd) => PointsFit'
           /\ \A k \in Multipliers : MultiplyGen(r, k) => PointsFit'
           /\ \A seed \in Seeds : Blind(r, seed) => PointsFit'
  <1>1. PICK A \in Jacobians : A = pt[r]
    BY DEF PointsFit
  <1>2. ToAffine(r) => PointsFit'
    BY AllPointsAffineFit, GivenPointFits DEF ToAffine
  <1>3. ASSUME NEW s \in StartZ, Rescale(r, s) PROVE PointsFit'
    <2>1. s \in Int
      BY CurveAssumption
    <2>2. FeSetInt(s) \in Elems(8)
      BY <2>1, IntegerFitsField, SmallElems
    <2>3. GejRescale(A, FeSetInt(s)) \in Jacobians
      BY <2>2, RescaledFits
    <2> QED
      BY <1>1, <1>3, <2>3, GivenPointFits DEF Rescale
  <1>4. ASSUME NEW x \in LiftX, NEW odd \in BOOLEAN, Lift(r, x, odd) PROVE PointsFit'
    <2>1. x \in Int
      BY CurveAssumption
    <2>2. FeSetInt(x) \in Elems(1)
      BY <2>1, IntegerFitsField
    <2>3. PICK q : q = GeSetXoVar(FeSetInt(x), odd)
      OBVIOUS
    <2>4. GejSetGe(q.r) \in Jacobians
      BY <2>2, <2>3, LiftedFits, AffineFits
    <2>5. PICK point \in Jacobians : point = IF q.ok THEN GejSetGe(q.r) ELSE pt[r]
      BY <1>1, <2>4
    <2> QED
      BY <1>4, <2>3, <2>5, GivenPointFits DEF Lift
  <1>5. ASSUME NEW k \in Multipliers, MultiplyGen(r, k) PROVE PointsFit'
    <2>1. EcmultGen(gen, k) \in Jacobians
      BY EcmultGenFits DEF PointsFit, GenContexts
    <2> QED
      BY <1>5, <2>1, GivenPointFits DEF MultiplyGen
  <1>6. ASSUME NEW seed \in Seeds, Blind(r, seed) PROVE PointsFit'
    <2>1. EcmultGenBlind(gen, seed) \in GenContexts
      BY BlindFits DEF PointsFit
    <2>2. pt' \in [Points -> Jacobians]
      BY <1>1, <1>6 DEF Blind, Gives, PointsFit
    <2> QED
      BY <1>6, <2>1, <2>2 DEF Blind, PointsFit
  <1> QED
    BY <1>2, <1>3, <1>4, <1>5, <1>6

\* MagnitudesFit holds from call to call, in any coordinates: every operation
\* of group_impl.h and every multiplication leaves coordinates of magnitude at
\* most 6, 4 and 2, below the 8 that fe_mul allows and the 32 of the field,
\* and asks the field for nothing it does not allow (Broken is 99).  What the
\* multiplications need is that their tables of odd multiples have no point at
\* infinity, which rests on the order of the group: the hypothesis is what
\* PointsAnswer says of them.
THEOREM MagnitudesAlwaysFit ==
    LibrarySpec /\ [](part = "points" => TablesAreFinite) => []MagnitudesFit
  <1>1. LibraryInit => PointsFit
    BY PointsFitAtFirst
  <1>2. PointsFit /\ (part = "points" => TablesAreFinite) /\ [LibraryNext]_libraryVars
            => PointsFit'
    <2> SUFFICES ASSUME PointsFit, part = "points" => TablesAreFinite,
                        [LibraryNext]_libraryVars
                 PROVE  PointsFit'
      OBVIOUS
    <2>1. CASE part = "points" /\ CurveNext
      BY <2>1, PointStepFits, OnePointStepFits DEF CurveNext
    <2>2. CASE UNCHANGED curveVars
      BY <2>2 DEF curveVars, PointsFit
    <2> QED
      BY <2>1, <2>2 DEF LibraryNext, libraryVars
  <1>3. PointsFit => MagnitudesFit
    <2> SUFFICES ASSUME PointsFit, NEW r \in Points, NEW e \in {pt[r].x, pt[r].y, pt[r].z}
                 PROVE  e.m <= 32
      BY DEF MagnitudesFit
    <2>1. pt[r] \in Jacobians
      BY DEF PointsFit
    <2>2. e \in Elems(8)
      BY <2>1, PointParts
    <2> QED
      BY <2>2, ElemNumbers
  <1> QED
    BY <1>1, <1>2, <1>3, PTL DEF LibrarySpec

\* Scalars of at most half the order.
LowScalars == {s \in 0 .. n - 1 : ~IsHigh(s)}

Signed == [ret : BOOLEAN, r : 0 .. n - 1, s : LowScalars, recid : 0 .. 3]

LEMMA HalfTheOrder ==
    \E h \in Nat : n = 2 * h + 1 /\ h > 1 /\ \A s \in Int : IsHigh(s) <=> s > h
  <1>1. n \in Nat /\ 4 < n /\ n % 2 = 1
    BY EcmultAssumption
  <1>2. PICK h : h = n \div 2
    OBVIOUS
  <1>3. h \in Nat /\ n = 2 * h + 1 /\ h > 1
    BY <1>1, <1>2
  <1> QED
    BY <1>2, <1>3 DEF IsHigh

LEMMA ReducedIsScalar ==
    ASSUME NEW x \in Int
    PROVE  x % n \in 0 .. n - 1
  BY FieldSize

LEMMA ScalarReduced ==
    ASSUME NEW x \in 0 .. n - 1
    PROVE  x % n = x
  BY FieldSize

LEMMA ZeroIsLow == 0 \in LowScalars
  BY HalfTheOrder, FieldSize DEF LowScalars

LEMMA NegatedIsLow ==
    ASSUME NEW s \in 0 .. n - 1
    PROVE  (IF IsHigh(s) THEN Negate(s) ELSE s) \in LowScalars
  <1>1. PICK h \in Nat : n = 2 * h + 1 /\ h > 1 /\ \A x \in Int : IsHigh(x) <=> x > h
    BY HalfTheOrder
  <1>2. CASE IsHigh(s)
    <2>1. n - s \in 0 .. n - 1 /\ n - s <= h /\ s \in Int
      BY <1>1, <1>2, FieldSize
    <2>2. Negate(s) = n - s
      BY <2>1, ScalarReduced DEF Negate
    <2> QED
      BY <1>1, <1>2, <2>1, <2>2 DEF LowScalars
  <1>3. CASE ~IsHigh(s)
    BY <1>3 DEF LowScalars
  <1> QED
    BY <1>2, <1>3

LEMMA NegatedIsScalar ==
    ASSUME NEW s \in 0 .. n - 1
    PROVE  Negate(s) \in 0 .. n - 1
  <1>1. n - s \in Int
    BY FieldSize
  <1> QED
    BY <1>1, ReducedIsScalar DEF Negate

\* The chain that inverts a scalar.
IsScalarPowers(f, x, top) ==
    f = [k \in 0 .. top |-> IF k = 0 THEN 1 ELSE (f[k - 1] * x) % n]

LEMMA ScalarPowersExist ==
    ASSUME NEW x \in 0 .. n - 1, NEW top \in Nat
    PROVE  \E f : IsScalarPowers(f, x, top)
  <1>1. PICK lo, D : lo = 0 /\ lo \in Nat /\ lo <= top /\ D = lo + 1 .. top
    OBVIOUS
  <1> DEFINE step(r) == (r * x) % n
             G == [k \in D |-> [r \in 0 .. n - 1 |-> step(r)]]
  <1>2. G \in [D -> [0 .. n - 1 -> 0 .. n - 1]]
    <2>1. ASSUME NEW r \in 0 .. n - 1 PROVE step(r) \in 0 .. n - 1
      <3>1. PICK u \in Int : u = r * x
        BY FieldSize
      <3> QED
        BY <3>1, ReducedIsScalar
    <2> HIDE DEF step
    <2> QED
      BY <2>1
  <1>3. \A k \in D, r \in 0 .. n - 1 : G[k][r] = step(r)
    OBVIOUS
  <1> HIDE DEF G
  <1>4. PICK S, x0 : S = 0 .. n - 1 /\ x0 = 1 /\ x0 \in S
    BY FieldSize
  <1>5. PICK f : LoopsUp(f, lo, top, S, x0, G)
    BY <1>1, <1>2, <1>4, LoopUp
  <1>6. \A k \in lo .. top : k # lo => k \in D /\ f[k - 1] \in S
    BY <1>1, <1>5 DEF LoopsUp
  <1>7. ASSUME NEW k \in 0 .. top PROVE f[k] = IF k = 0 THEN 1 ELSE step(f[k - 1])
    <2> HIDE DEF step
    <2>1. k \in lo .. top /\ f[k] = IF k = lo THEN x0 ELSE G[k][f[k - 1]]
      BY <1>1, <1>5 DEF LoopsUp
    <2> QED
      BY <1>1, <1>3, <1>4, <1>6, <2>1
  <1>8. f = [k \in 0 .. top |-> f[k]]
    BY <1>1, <1>5 DEF LoopsUp
  <1>9. f = [k \in 0 .. top |-> IF k = 0 THEN 1 ELSE step(f[k - 1])]
    <2> HIDE DEF step
    <2> QED
      BY <1>7, <1>8
  <1> QED
    BY <1>9 DEF IsScalarPowers

LEMMA InverseIsScalar ==
    ASSUME NEW x \in 0 .. n - 1
    PROVE  ScalarInverse[x] \in 0 .. n - 1
  <1>1. PICK top, lo, S : /\ top = n - 2 /\ top \in Nat /\ lo = 0 /\ lo \in Nat /\ lo <= top
                          /\ S = 0 .. n - 1
    BY FieldSize
  <1> DEFINE f == CHOOSE g : IsScalarPowers(g, x, top)
  <1>2. IsScalarPowers(f, x, top)
    BY <1>1, ScalarPowersExist
  <1>3. ScalarInverse[x] = f[top]
    BY <1>1 DEF ScalarInverse, IsScalarPowers
  <1> HIDE DEF f
  <1>4. f[lo] \in S
    <2>1. lo \in 0 .. top /\ lo = 0 /\ 1 \in S
      BY <1>1, FieldSize
    <2> QED
      BY <1>2, <2>1 DEF IsScalarPowers
  <1>5. ASSUME NEW k \in lo + 1 .. top, f[k - 1] \in S PROVE f[k] \in S
    <2>1. k \in 0 .. top /\ k # 0
      BY <1>1
    <2>2. f[k] = (f[k - 1] * x) % n
      BY <1>2, <2>1 DEF IsScalarPowers
    <2>3. PICK y \in 0 .. n - 1 : y = f[k - 1]
      BY <1>1, <1>5
    <2>4. PICK u \in Int : u = y * x
      BY FieldSize
    <2>5. u % n \in 0 .. n - 1
      BY ReducedIsScalar
    <2> QED
      BY <1>1, <2>2, <2>3, <2>4, <2>5
  <1>6. \A k \in lo .. top : f[k] \in S
    BY <1>1, <1>4, <1>5, StaysUp
  <1> QED
    BY <1>1, <1>3, <1>6

LEMMA SignedWithFits ==
    ASSUME NEW r \in Affines, NEW seckey \in 0 .. n - 1, NEW message \in 0 .. n - 1,
           NEW nonce \in 0 .. n - 1
    PROVE  SignedWith(r, seckey, message, nonce) \in Signed
  <1>1. PICK v \in Nat, odd \in BOOLEAN :
            v = FeNormalize(r.x).v /\ odd = FeIsOdd(FeNormalize(r.y))
    <2>1. FeNormalize(r.x) \in Elems(1)
      BY AffineParts, NormalizedFits
    <2>2. FeNormalize(r.x).v \in Nat
      BY <2>1, ElemNumbers
    <2> QED
      BY <2>2 DEF FeIsOdd
  <1>2. PICK x \in 0 .. n - 1, over \in BOOLEAN : x = v % n /\ over = (v >= n)
    <2>1. v % n \in 0 .. n - 1
      BY ReducedIsScalar
    <2>2. (v >= n) \in BOOLEAN
      OBVIOUS
    <2> QED
      BY <2>1, <2>2
  <1>3. ReadScalar(v) = [v |-> x, overflow |-> over]
    BY <1>2 DEF ReadScalar
  <1>4. PICK inv \in 0 .. n - 1 : inv = ScalarInverse[nonce]
    BY InverseIsScalar
  <1>5. PICK s \in 0 .. n - 1 : s = (inv * (x * seckey + message)) % n
    <2>1. PICK u \in Int : u = x * seckey
      BY FieldSize
    <2>2. PICK t \in Int : t = inv * (u + message)
      BY FieldSize
    <2>3. t % n \in 0 .. n - 1
      BY ReducedIsScalar
    <2> QED
      BY <2>1, <2>2, <2>3
  <1>6. PICK low \in LowScalars : low = IF IsHigh(s) THEN Negate(s) ELSE s
    BY NegatedIsLow
  <1>7. SignedWith(r, seckey, message, nonce)
          = [ret |-> s # 0, r |-> x, s |-> low,
             recid |-> (IF over THEN 2 ELSE 0) + (IF odd # IsHigh(s) THEN 1 ELSE 0)]
    BY <1>1, <1>3, <1>4, <1>5, <1>6 DEF SignedWith
  <1>8. (IF over THEN 2 ELSE 0) + (IF odd # IsHigh(s) THEN 1 ELSE 0) \in 0 .. 3
    OBVIOUS
  <1> QED
    BY <1>7, <1>8 DEF Signed

LEMMA NoNonceFits == NoNonce \in Signed
  <1>1. 0 \in 0 .. n - 1
    BY FieldSize
  <1> QED
    BY <1>1, ZeroIsLow DEF NoNonce, Signed

SignContexts == [ecmult : [built : {TRUE}], gen : GenContexts]

LEMMA AttemptFits ==
    ASSUME NEW ctx \in SignContexts, NEW sec \in 0 .. n - 1, NEW msg \in 0 .. n - 1, NEW non
    PROVE  Attempt(ctx, sec, msg, non) \in Signed
  <1>1. CASE non \in 1 .. n - 1
    <2>1. non \in 0 .. n - 1
      BY <1>1, FieldSize
    <2>2. ctx.gen.initial \in Jacobians
      BY DEF SignContexts, GenContexts
    <2>3. GeSetGej(EcmultGen(ctx.gen, non)) \in Affines
      BY <2>2, EcmultGenFits, SetGejFits
    <2>4. EcdsaSigSign(ctx.gen, sec, msg, non) \in Signed
      BY <2>1, <2>3, SignedWithFits DEF EcdsaSigSign
    <2> QED
      BY <1>1, <2>4 DEF Attempt
  <1>2. CASE non \notin 1 .. n - 1
    BY <1>2, NoNonceFits DEF Attempt
  <1> QED
    BY <1>1, <1>2

IsSigning(f, ctx, sec, msg, seckey, data, top) ==
    f = [c \in 0 .. top |->
           IF c = top THEN NoNonce
           ELSE GoodOr(Attempt(ctx, sec.v, ReadScalar(msg).v,
                               NonceFunctionRfc6979(msg, seckey, data, c)),
                       f[c + 1])]

LEMMA SigningExists ==
    ASSUME NEW ctx \in SignContexts, NEW sec, sec.v \in 0 .. n - 1, NEW msg,
           ReadScalar(msg).v \in 0 .. n - 1, NEW seckey, NEW data, NEW top \in Nat
    PROVE  \E f : IsSigning(f, ctx, sec, msg, seckey, data, top)
  <1>1. PICK lo, D : lo = 0 /\ lo \in Nat /\ lo <= top /\ D = lo .. top - 1
    OBVIOUS
  <1> DEFINE try(c) == Attempt(ctx, sec.v, ReadScalar(msg).v,
                               NonceFunctionRfc6979(msg, seckey, data, c))
             G == [c \in D |-> [x \in Signed |-> GoodOr(try(c), x)]]
  <1>2. G \in [D -> [Signed -> Signed]]
    <2>1. ASSUME NEW c \in D PROVE try(c) \in Signed
      BY AttemptFits
    <2> HIDE DEF try
    <2> QED
      BY <2>1 DEF GoodOr
  <1>3. \A c \in D, x \in Signed : G[c][x] = GoodOr(try(c), x)
    OBVIOUS
  <1> HIDE DEF G, try
  <1>4. PICK x0 \in Signed : x0 = NoNonce
    BY NoNonceFits
  <1>5. PICK f : LoopsDown(f, lo, top, Signed, x0, G)
    BY <1>1, <1>2, LoopDown
  <1>6. \A k \in lo .. top : k # top => k \in D /\ f[k + 1] \in Signed
    BY <1>1, <1>5 DEF LoopsDown
  <1>7. ASSUME NEW k \in 0 .. top
        PROVE  f[k] = IF k = top THEN NoNonce ELSE GoodOr(try(k), f[k + 1])
    <2>1. k \in lo .. top /\ f[k] = IF k = top THEN x0 ELSE G[k][f[k + 1]]
      BY <1>1, <1>5 DEF LoopsDown
    <2> QED
      BY <1>3, <1>4, <1>6, <2>1
  <1>8. f = [k \in 0 .. top |-> f[k]]
    BY <1>1, <1>5 DEF LoopsDown
  <1>9. f = [k \in 0 .. top |-> IF k = top THEN NoNonce ELSE GoodOr(try(k), f[k + 1])]
    BY <1>7, <1>8
  <1> QED
    BY <1>9 DEF IsSigning, try

LEMMA FirstSignedFits ==
    ASSUME NEW ctx \in SignContexts, NEW sec, sec.v \in 0 .. n - 1, NEW msg,
           ReadScalar(msg).v \in 0 .. n - 1, NEW seckey, NEW data,
           ~(sec.overflow \/ sec.v = 0)
    PROVE  \E q \in Signed : FirstSigned(ctx, sec, msg, seckey, data) = Ok(q)
  <1>1. PICK lo, top : top = MaxDraws /\ top \in Nat /\ lo = 0 /\ lo \in Nat /\ lo <= top
    BY EcmultAssumption
  <1> DEFINE f == CHOOSE g : IsSigning(g, ctx, sec, msg, seckey, data, top)
  <1>2. IsSigning(f, ctx, sec, msg, seckey, data, top)
    BY <1>1, SigningExists
  <1>3. FirstSigned(ctx, sec, msg, seckey, data) = Ok(f[lo])
    BY <1>1 DEF FirstSigned, IsSigning
  <1> HIDE DEF f
  <1>4. f[top] \in Signed
    <2>1. top \in 0 .. top
      BY <1>1
    <2>2. f[top] = NoNonce
      BY <1>2, <2>1 DEF IsSigning
    <2> QED
      BY <2>2, NoNonceFits
  <1>5. ASSUME NEW k \in lo .. top - 1, f[k + 1] \in Signed PROVE f[k] \in Signed
    <2>1. k \in 0 .. top /\ k # top
      BY <1>1
    <2>2. PICK q : /\ q = Attempt(ctx, sec.v, ReadScalar(msg).v,
                                  NonceFunctionRfc6979(msg, seckey, data, k))
                   /\ f[k] = GoodOr(q, f[k + 1])
      BY <1>2, <2>1 DEF IsSigning
    <2>3. q \in Signed
      BY <2>2, AttemptFits
    <2> QED
      BY <1>5, <2>2, <2>3 DEF GoodOr
  <1>6. \A k \in lo .. top : f[k] \in Signed
    BY <1>1, <1>4, <1>5, StaysDown
  <1> QED
    BY <1>1, <1>3, <1>6

\* What reading a number of bytes as a scalar gives.
LEMMA ScalarRead ==
    ASSUME NEW b \in Nat
    PROVE  /\ ReadScalar(b).v \in 0 .. n - 1
           /\ InRange(b) <=> ~(ReadScalar(b).overflow \/ ReadScalar(b).v = 0)
           /\ b \in 0 .. n - 1 => ~ReadScalar(b).overflow
  <1>1. b % n \in 0 .. n - 1
    BY ReducedIsScalar
  <1>2. b \in 0 .. n - 1 => b % n = b
    BY ScalarReduced
  <1>3. PICK v, over : v = b % n /\ over = (b >= n) /\ ReadScalar(b) = [v |-> v, overflow |-> over]
    BY DEF ReadScalar
  <1>4. CASE b < n
    <2>1. ~(b >= n) /\ b \in 0 .. n - 1
      BY <1>3, <1>4, FieldSize
    <2>2. over = FALSE
      <3>1. (b >= n) = FALSE
        BY <2>1
      <3> QED
        BY <1>3, <3>1
    <2>3. v = b
      BY <1>2, <1>3, <2>1
    <2> QED
      BY <1>3, <2>1, <2>2, <2>3, FieldSize DEF InRange
  <1>5. CASE ~(b < n)
    <2>1. b >= n /\ b \notin 0 .. n - 1 /\ b \notin 1 .. n - 1
      BY <1>5, FieldSize
    <2>2. over = TRUE
      BY <1>3, <2>1, Zenon
    <2> QED
      BY <1>1, <1>3, <2>1, <2>2 DEF InRange
  <1> QED
    BY <1>4, <1>5

LEMMA LoopSigns ==
    ASSUME NEW ctx \in SignContexts, NEW msg \in Nat, NEW seckey \in Nat, NEW data
    PROVE  IF InRange(seckey) THEN \E q \in Signed : SignLoop(ctx, msg, seckey, data) = Ok(q)
           ELSE SignLoop(ctx, msg, seckey, data) = No(ZeroSignature)
  <1>1. PICK sec : sec = ReadScalar(seckey)
    OBVIOUS
  <1>2. /\ sec.v \in 0 .. n - 1 /\ ReadScalar(msg).v \in 0 .. n - 1
        /\ InRange(seckey) <=> ~(sec.overflow \/ sec.v = 0)
    BY <1>1, ScalarRead
  <1>3. SignLoop(ctx, msg, seckey, data) = FirstSigned(ctx, sec, msg, seckey, data)
    BY <1>1 DEF SignLoop
  <1>4. CASE InRange(seckey)
    BY <1>2, <1>3, <1>4, FirstSignedFits
  <1>5. CASE ~InRange(seckey)
    <2>1. sec.overflow \/ sec.v = 0
      BY <1>2, <1>5
    <2>2. FirstSigned(ctx, sec, msg, seckey, data) = No(ZeroSignature)
      BY <2>1 DEF FirstSigned
    <2> QED
      BY <1>3, <1>5, <2>2
  <1> QED
    BY <1>4, <1>5

\* Signing fails exactly for a key that is out of range.
LEMMA SigningGives ==
    ASSUME NEW ctx \in SignContexts, NEW msg \in Nat, NEW seckey \in Nat, NEW data
    PROVE  LET q == EcdsaSign(ctx, msg, seckey, data)
           IN  /\ q.ret \in {0, 1} /\ (q.ret = 1 <=> InRange(seckey))
               /\ q.out \in [r : 0 .. n - 1, s : LowScalars]
  <1>1. ctx.gen.built
    BY DEF SignContexts, GenContexts
  <1>2. PICK loop : loop = SignLoop(ctx, msg, seckey, data)
    OBVIOUS
  <1>3. EcdsaSign(ctx, msg, seckey, data) = [loop EXCEPT !.out = [r |-> @.r, s |-> @.s]]
    BY <1>1, <1>2 DEF EcdsaSign, GenContextIsBuilt
  <1>4. CASE InRange(seckey)
    <2>1. PICK q \in Signed : loop = Ok(q)
      BY <1>2, <1>4, LoopSigns
    <2>2. PICK out : out = [r |-> q.r, s |-> q.s]
      OBVIOUS
    <2>3. [r |-> q.r, s |-> q.s] \in [r : 0 .. n - 1, s : LowScalars]
      BY DEF Signed
    <2>4. loop.out = q /\ loop = [ret |-> 1, out |-> q, illegal |-> FALSE]
      BY <2>1 DEF Ok
    <2>5. [loop EXCEPT !.out = out].ret = 1 /\ [loop EXCEPT !.out = out].out = out
      BY <2>4
    <2>6. EcdsaSign(ctx, msg, seckey, data) = [loop EXCEPT !.out = out]
      BY <1>3, <2>2, <2>4
    <2> QED
      BY <1>4, <2>2, <2>3, <2>5, <2>6
  <1>5. CASE ~InRange(seckey)
    <2>1. loop = No(ZeroSignature)
      BY <1>2, <1>5, LoopSigns
    <2>2. [loop EXCEPT !.out = [r |-> @.r, s |-> @.s]] = No(ZeroSignature)
      BY <2>1 DEF No, ZeroSignature
    <2>3. 0 \in 0 .. n - 1
      BY FieldSize
    <2>4. ZeroSignature \in [r : 0 .. n - 1, s : LowScalars]
      BY <2>3, ZeroIsLow DEF ZeroSignature
    <2> QED
      BY <1>3, <1>5, <2>2, <2>4 DEF No
  <1> QED
    BY <1>4, <1>5

LowRecoverables == [r : 0 .. n - 1, s : LowScalars, recid : 0 .. 3]
Recoverables    == [r : 0 .. n - 1, s : 0 .. n - 1, recid : 0 .. 3]

LEMMA ZeroIsRecoverable ==
    /\ ZeroRecoverable \in LowRecoverables
    /\ LowRecoverables \subseteq Recoverables
    /\ \A q \in LowRecoverables : ~IsHigh(q.s)
  <1>1. 0 \in 0 .. n - 1
    BY FieldSize
  <1> QED
    BY <1>1, ZeroIsLow DEF ZeroRecoverable, LowRecoverables, Recoverables, LowScalars

LEMMA RecoverableSigningGives ==
    ASSUME NEW ctx \in SignContexts, NEW msg \in Nat, NEW seckey \in Nat, NEW data
    PROVE  EcdsaSignRecoverable(ctx, msg, seckey, data).out \in LowRecoverables
  <1>1. ctx.gen.built
    BY DEF SignContexts, GenContexts
  <1>2. PICK loop : loop = SignLoop(ctx, msg, seckey, data)
    OBVIOUS
  <1>3. EcdsaSignRecoverable(ctx, msg, seckey, data) = Recoverable(loop)
    BY <1>1, <1>2 DEF EcdsaSignRecoverable, GenContextIsBuilt
  <1>4. CASE InRange(seckey)
    <2>1. PICK q \in Signed : loop = Ok(q)
      BY <1>2, <1>4, LoopSigns
    <2>2. Recoverable(loop) = Ok([r |-> q.r, s |-> q.s, recid |-> q.recid])
      BY <2>1 DEF Ok, Recoverable
    <2> QED
      BY <1>3, <2>2 DEF Ok, Signed, LowRecoverables
  <1>5. CASE ~InRange(seckey)
    <2>1. loop = No(ZeroSignature)
      BY <1>2, <1>5, LoopSigns
    <2>2. Recoverable(loop) = No(ZeroRecoverable)
      BY <2>1 DEF No, Recoverable
    <2> QED
      BY <1>3, <2>2, ZeroIsRecoverable DEF No
  <1> QED
    BY <1>4, <1>5

-----------------------------------------------------------------------------
\* An integer is read at some place, and as a scalar.
LEMMA IntegerIsScalar ==
    ASSUME NEW b \in Seq(Octets), NEW i \in Nat \ {0}, NEW q, q = DerParseInteger(b, i), q.ok
    PROVE  q.v \in 0 .. n - 1 /\ q.at \in Nat \ {0}
  <1>1. q.v \in 0 .. n - 1
    <2>1. CASE q.v = 0
      BY <2>1, FieldSize
    <2>2. CASE q.v # 0
      <3>1. q.v \in 1 .. n - 1
        BY <2>2, OnlyPlacedIsParsed
      <3> QED
        BY <3>1, FieldSize
    <2> QED
      BY <2>1, <2>2
  <1>2. PICK l : l = DerReadLen(b, i + 1)
    OBVIOUS
  <1>3. q = DerBody(b, i, l)
    BY <1>2 DEF DerParseInteger
  <1>4. PICK s, at : s = SubSeq(b, l.at, l.at + l.len - 1) /\ at = l.at + l.len
    OBVIOUS
  <1>5. ~(l.len <= 0) /\ q = DerInteger1(s, at)
    <2>1. q # [ok |-> FALSE]
      OBVIOUS
    <2> QED
      BY <1>3, <1>4, <2>1 DEF DerBody
  <1>6. q.at = at
    <2>1. q # [ok |-> FALSE]
      OBVIOUS
    <2>2. PICK v : DerInteger1(s, at) \in {[ok |-> FALSE], [ok |-> TRUE, v |-> v, at |-> at]}
      BY DEF DerInteger1
    <2> QED
      BY <1>5, <2>1, <2>2
  <1>7. l.len \in Nat /\ l.at \in Nat \ {0}
    <2>1. l.len # -1 /\ i + 1 \in Nat \ {0}
      BY <1>5
    <2> QED
      BY <1>2, <2>1, LengthRead
  <1> QED
    BY <1>1, <1>4, <1>6, <1>7

LEMMA ParsedIsScalar ==
    ASSUME NEW b \in Seq(Octets), NEW sig, sig = EcdsaSigParse(b), sig.ok
    PROVE  sig.r \in 0 .. n - 1 /\ sig.s \in 0 .. n - 1
  <1>1. sig # NoSig
    BY DEF NoSig
  <1>2. PICK l : l = DerReadLen(b, 2)
    OBVIOUS
  <1>3. sig = SequenceBody(b, l)
    BY <1>1, <1>2 DEF EcdsaSigParse
  <1>4. PICK at, r : at = l.at /\ r = DerParseInteger(b, at)
    OBVIOUS
  <1>5. l.len >= 0 /\ sig = SecondInteger(b, r)
    BY <1>1, <1>3, <1>4 DEF SequenceBody
  <1>6. at \in Nat \ {0}
    <2>1. l.len # -1 /\ 2 \in Nat \ {0}
      BY <1>5
    <2> QED
      BY <1>2, <1>4, <2>1, LengthRead
  <1>7. PICK s : s = DerParseInteger(b, r.at)
    OBVIOUS
  <1>8. r.ok /\ sig = SigOf(b, r, s)
    BY <1>1, <1>5, <1>7 DEF SecondInteger
  <1>9. s.ok /\ sig = [ok |-> TRUE, r |-> r.v, s |-> s.v]
    BY <1>1, <1>8 DEF SigOf
  <1>10. r.v \in 0 .. n - 1 /\ r.at \in Nat \ {0}
    BY <1>4, <1>6, <1>8, IntegerIsScalar
  <1>11. s.v \in 0 .. n - 1
    BY <1>7, <1>9, <1>10, IntegerIsScalar
  <1> QED
    BY <1>9, <1>10, <1>11

\* b is what is written of a signature with a low s.
LowWritten(b) ==
    \E r \in 0 .. n - 1, s \in LowScalars : b = EcdsaSigSerialize(r, s, DerRoom).out

LEMMA WrittenBytes ==
    ASSUME NEW r \in 0 .. n - 1, NEW s \in 0 .. n - 1
    PROVE  EcdsaSigSerialize(r, s, DerRoom).out \in Seq(Octets)
  BY SignatureIsWritten DEF Signature

LEMMA LowWrittenIsRead ==
    ASSUME NEW b, LowWritten(b)
    PROVE  /\ b \in Seq(Octets)
           /\ EcdsaSigParse(b).ok /\ ~IsHigh(EcdsaSigParse(b).s)
  <1>1. PICK r \in 0 .. n - 1, s \in LowScalars : b = EcdsaSigSerialize(r, s, DerRoom).out
    BY DEF LowWritten
  <1>2. s \in 0 .. n - 1 /\ ~IsHigh(s)
    BY DEF LowScalars
  <1>3. EcdsaSigParse(b) = [ok |-> TRUE, r |-> r, s |-> s]
    BY <1>1, <1>2, EncodingIsRead
  <1> QED
    BY <1>1, <1>2, <1>3, WrittenBytes

\* Whatever arrives is bytes.
LEMMA EditsAreBytes ==
    ASSUME NEW b \in Seq(Octets)
    PROVE  Edits(b) \subseteq Seq(Octets)
  <1>1. EditedBytes \subseteq Octets /\ ForeignDer \subseteq Seq(Octets)
    BY NativeAssumption, Radices DEF Octets
  <1>2. ASSUME NEW i \in DOMAIN b, NEW x \in EditedBytes
        PROVE  [b EXCEPT ![i] = x] \in Seq(Octets)
    BY <1>1, ExceptSeq
  <1>3. SubSeq(b, 1, Len(b) - 1) \in Seq(Octets)
    <2>1. PICK lo, hi : lo = 1 /\ hi = Len(b) - 1 /\ lo \in Int /\ hi \in Int
      BY LenProperties
    <2>2. \A j \in lo .. hi : b[j] \in Octets
      <3>1. \A j \in lo .. hi : j \in 1 .. Len(b)
        BY <2>1, LenProperties
      <3> QED
        BY <3>1, ElementOfSeq
    <2> QED
      BY <2>1, <2>2, SubSeqProperties
  <1>4. ASSUME NEW x \in EditedBytes PROVE Append(b, x) \in Seq(Octets)
    BY <1>1, AppendProperties
  <1> QED
    BY <1>1, <1>2, <1>3, <1>4 DEF Edits

\* The contexts that sign: blinded, whatever they went through, or destroyed.
ContextsFit == contexts \in [{"original", "clone"} -> SignContexts \cup {NoContext}]

\* What is kept of a signature is scalars, and low as long as it is ours.
SignatureFits ==
    /\ der \in Seq(Octets) /\ rsig \in Recoverables
    /\ made # NoMade => /\ der # <<>> => LowWritten(der)
                        /\ ~IsHigh(rsig.s)

AnswerFits ==
    /\ answer.name = "verify" /\ answer.ret = 1 =>
          LET sig == EcdsaSigParse(der)
          IN  sig.ok /\ sig.r # 0 /\ sig.s # 0 /\ ~IsHigh(sig.s)
    /\ answer.name = "sign" => answer.w = 1 /\ (answer.ret = 1 <=> InRange(wallet[1].sec))
    /\ answer.name = "normalize" => answer.ret = answer.v

SignaturesFit ==
    ContextsFit /\ wallet[1].sec \in Nat /\ SignatureFits /\ AnswerFits

LEMMA SignaturesFitAtFirst ==
    ASSUME LibraryInit, part = "signatures"
    PROVE  SignaturesFit
  <1>1. NativeStart(StartSecs)
    BY DEF LibraryInit
  <1>2. ContextsFit
    <2>1. InitContext \in SignContexts
      <3>1. PICK g \in GenContexts : g = GenContextBuild(GenContextInit)
        BY BuiltContextFits
      <3>2. PICK e : e = EcmultContextBuild(EcmultContextInit)
        OBVIOUS
      <3>3. InitContext = [ecmult |-> e, gen |-> g]
        BY <3>1, <3>2 DEF InitContext, ContextCreate
      <3>4. e \in [built : {TRUE}]
        <4>1. [[built |-> FALSE] EXCEPT !.built = TRUE] \in [built : {TRUE}]
          OBVIOUS
        <4> QED
          BY <3>2, <4>1 DEF EcmultContextBuild, EcmultContextInit
      <3> QED
        BY <3>3, <3>4 DEF SignContexts
    <2>2. contexts = [original |-> InitContext, clone |-> NoContext]
      BY <1>1 DEF NativeStart
    <2>3. PICK x \in SignContexts : x = InitContext
      BY <2>1
    <2>4. PICK y : y = NoContext
      OBVIOUS
    <2>5. [original |-> x, clone |-> y] \in [{"original", "clone"} -> SignContexts \cup {y}]
      OBVIOUS
    <2> QED
      BY <2>2, <2>3, <2>4, <2>5 DEF ContextsFit
  <1>3. wallet[1].sec \in Nat
    <2>1. PICK sec \in StartSecs :
            wallet = [w \in Wallets |->
                        LET s == IF w = 1 THEN sec ELSE OtherSec
                        IN  StartWallet(s, EcPubkeyCreate(contexts.original, s))]
      BY <1>1 DEF NativeStart
    <2>2. wallet[1] = StartWallet(sec, EcPubkeyCreate(contexts.original, sec))
      BY <2>1, NativeAssumption
    <2>3. wallet[1].sec = sec
      BY <2>2 DEF StartWallet
    <2> QED
      BY <2>3, NativeAssumption
  <1>4. SignatureFits
    <2>1. der = <<>> /\ rsig = ZeroRecoverable /\ made = NoMade
      BY <1>1 DEF NativeStart
    <2>2. <<>> \in Seq(Octets)
      BY EmptySeq
    <2> QED
      BY <2>1, <2>2, ZeroIsRecoverable DEF SignatureFits
  <1>5. AnswerFits
    <2>1. answer.name = "none"
      BY <1>1 DEF NativeStart, NoAnswer
    <2> QED
      BY <2>1 DEF AnswerFits
  <1> QED
    BY <1>2, <1>3, <1>4, <1>5 DEF SignaturesFit

LEMMA LivingContext ==
    ASSUME ContextsFit, NEW c \in DOMAIN contexts, Alive(c)
    PROVE  /\ contexts[c] \in SignContexts
           /\ c \in {"original", "clone"}
  BY DEF ContextsFit, Alive

\* The answers of the other calls say nothing about signatures.
LEMMA OtherAnswers ==
    ASSUME answer'.name \notin {"verify", "sign", "normalize"}
    PROVE  AnswerFits'
  BY DEF AnswerFits

LEMMA CalledName ==
    ASSUME NEW c, NEW name, NEW w, NEW v, NEW res, NEW out, Called(c, name, w, v, res, out)
    PROVE  /\ answer'.name = name /\ answer'.w = w /\ answer'.v = v /\ answer'.ret = res.ret
           /\ Alive(c)
  BY DEF Called

LEMMA ContextsKept ==
    ASSUME ContextsFit, UNCHANGED contexts
    PROVE  ContextsFit'
  BY DEF ContextsFit

LEMMA SignatureKept ==
    ASSUME SignatureFits, SignaturesUnchanged
    PROVE  SignatureFits'
  BY DEF SignatureFits, SignaturesUnchanged

-----------------------------------------------------------------------------
LEMMA CloneKeeps ==
    ASSUME SignaturesFit, CtxClone
    PROVE  SignaturesFit'
  <1>1. Called("original", "ctx_clone", 0, 0, Ok(0), 0)
    BY DEF CtxClone
  <1>2. ContextsFit /\ SignatureFits /\ wallet[1].sec \in Nat
    BY DEF SignaturesFit
  <1>3. contexts["original"] \in SignContexts
    <2>1. "original" \in DOMAIN contexts
      BY <1>2 DEF ContextsFit
    <2> QED
      BY <1>1, <1>2, <2>1, CalledName, LivingContext
  <1>4. ContextClone(contexts["original"]) \in SignContexts
    <2>1. PICK x \in SignContexts : x = contexts["original"]
      BY <1>3
    <2>2. ContextClone(x) = [ecmult |-> x.ecmult, gen |-> x.gen]
      <3>1. x.gen.built
        BY DEF SignContexts, GenContexts
      <3> QED
        BY <3>1 DEF ContextClone, GenContextClone, EcmultContextClone
    <2> QED
      BY <2>1, <2>2 DEF SignContexts
  <1>5. ContextsFit'
    <2>1. contexts' = [contexts EXCEPT !["clone"] = ContextClone(contexts["original"])]
      BY DEF CtxClone
    <2> QED
      BY <1>2, <1>4, <2>1 DEF ContextsFit
  <1>6. wallet' = wallet /\ SignatureFits'
    BY <1>2, SignatureKept DEF CtxClone, KeysUnchanged
  <1>7. AnswerFits'
    BY <1>1, CalledName, OtherAnswers
  <1> QED
    BY <1>2, <1>5, <1>6, <1>7 DEF SignaturesFit

LEMMA RandomizeKeeps ==
    ASSUME SignaturesFit, NEW c \in DOMAIN contexts, NEW seed \in SeedBuffers, Randomize(c, seed)
    PROVE  SignaturesFit'
  <1>1. PICK res : res = ContextRandomize(contexts[c], seed) /\ Randomized(c, res)
    BY DEF Randomize
  <1>2. Called(c, "randomize", 0, 0, res, 0)
    BY <1>1 DEF Randomized
  <1>3. ContextsFit /\ SignatureFits /\ wallet[1].sec \in Nat
    BY DEF SignaturesFit
  <1>4. PICK x \in SignContexts : x = contexts[c]
    BY <1>2, <1>3, CalledName, LivingContext
  <1>5. res.out \in SignContexts
    <2>1. x.gen \in GenContexts /\ x.gen.built /\ x = [ecmult |-> x.ecmult, gen |-> x.gen]
      BY DEF SignContexts, GenContexts
    <2>2. PICK g \in GenContexts : g = EcmultGenBlind(x.gen, seed)
      BY <2>1, BlindFits
    <2>3. res = Ok([x EXCEPT !.gen = EcmultGenBlind(@, seed)])
      BY <1>1, <1>4, <2>1 DEF ContextRandomize, GenContextIsBuilt
    <2>4. res.out = [x EXCEPT !.gen = g]
      BY <2>2, <2>3 DEF Ok
    <2>5. [x EXCEPT !.gen = g] \in SignContexts
      BY DEF SignContexts
    <2> QED
      BY <2>4, <2>5
  <1>6. ContextsFit'
    <2>1. contexts' = [contexts EXCEPT ![c] = res.out]
      BY <1>1 DEF Randomized
    <2> QED
      BY <1>3, <1>5, <2>1 DEF ContextsFit
  <1>7. wallet' = wallet /\ SignatureFits'
    BY <1>1, <1>3, SignatureKept DEF Randomized, KeysUnchanged
  <1>8. AnswerFits'
    BY <1>2, CalledName, OtherAnswers
  <1> QED
    BY <1>3, <1>6, <1>7, <1>8 DEF SignaturesFit

LEMMA DestroyKeeps ==
    ASSUME SignaturesFit, NEW c \in DOMAIN contexts, DestroyContext(c)
    PROVE  SignaturesFit'
  <1>1. Called(c, "destroy", 0, 0, Ok(ContextDestroy), 0)
    BY DEF DestroyContext
  <1>2. ContextsFit /\ SignatureFits /\ wallet[1].sec \in Nat
    BY DEF SignaturesFit
  <1>3. ContextsFit'
    <2>1. contexts' = [contexts EXCEPT ![c] = NoContext]
      BY DEF DestroyContext
    <2> QED
      BY <1>2, <2>1 DEF ContextsFit
  <1>4. wallet' = wallet /\ SignatureFits'
    BY <1>2, SignatureKept DEF DestroyContext, KeysUnchanged
  <1>5. AnswerFits'
    BY <1>1, CalledName, OtherAnswers
  <1> QED
    BY <1>2, <1>3, <1>4, <1>5 DEF SignaturesFit

LEMMA LowParts ==
    ASSUME NEW q \in [r : 0 .. n - 1, s : LowScalars]
    PROVE  q.r \in 0 .. n - 1 /\ q.s \in 0 .. n - 1 /\ q.s \in LowScalars
  BY DEF LowScalars

\* What is written of a low signature.
LEMMA LowIsWritten ==
    ASSUME NEW r \in 0 .. n - 1, NEW s \in LowScalars
    PROVE  /\ LowWritten(EcdsaSigSerialize(r, s, DerRoom).out)
           /\ EcdsaSigSerialize(r, s, DerRoom).out \in Seq(Octets)
  <1>1. s \in 0 .. n - 1
    BY DEF LowScalars
  <1> QED
    BY <1>1, WrittenBytes DEF LowWritten

LEMMA SignKeeps ==
    ASSUME SignaturesFit, NEW c \in DOMAIN contexts, NEW msg \in Messages, NativeSign(c, 1, msg)
    PROVE  SignaturesFit'
  <1>1. PICK sec, res, out :
            /\ sec = wallet[1].sec /\ res = EcdsaSign(contexts[c], msg, sec, <<>>)
            /\ NativeSigned(c, 1, msg, res)
            /\ out = SignatureSerializeDer(res.out, DerRoom).out
    BY DEF NativeSign
  <1>2. Called(c, "sign", 1, msg, res, Handed(res, out))
    BY <1>1 DEF NativeSigned
  <1>3. ContextsFit /\ SignatureFits /\ wallet[1].sec \in Nat
    BY DEF SignaturesFit
  <1>4. contexts[c] \in SignContexts
    BY <1>2, <1>3, CalledName, LivingContext
  <1>5. msg \in Nat /\ sec \in Nat
    BY <1>1, <1>3, NativeAssumption
  <1>6. /\ res.ret \in {0, 1} /\ (res.ret = 1 <=> InRange(sec))
        /\ res.out \in [r : 0 .. n - 1, s : LowScalars]
    BY <1>1, <1>4, <1>5, SigningGives
  <1>7. LowWritten(out) /\ out \in Seq(Octets)
    <2>1. res.out.r \in 0 .. n - 1 /\ res.out.s \in LowScalars
      BY <1>6, LowParts
    <2>2. out = EcdsaSigSerialize(res.out.r, res.out.s, DerRoom).out
      BY <1>1 DEF SignatureSerializeDer
    <2> QED
      BY <2>1, <2>2, LowIsWritten
  <1>8. /\ wallet' = wallet /\ contexts' = contexts /\ rsig' = ZeroRecoverable
        /\ res.ret = 1 => der' = out
        /\ res.ret # 1 => der' = der /\ made' = made
    BY <1>1 DEF NativeSigned, KeysUnchanged
  <1>9. SignatureFits'
    <2>1. ZeroRecoverable \in Recoverables /\ ~IsHigh(ZeroRecoverable.s)
      BY ZeroIsRecoverable
    <2>2. CASE res.ret = 1
      BY <1>7, <1>8, <2>1, <2>2 DEF SignatureFits
    <2>3. CASE res.ret # 1
      BY <1>3, <1>8, <2>1, <2>3 DEF SignatureFits
    <2> QED
      BY <2>2, <2>3
  <1>10. AnswerFits'
    <2>1. answer'.name = "sign" /\ answer'.w = 1 /\ answer'.ret = res.ret
      BY <1>2, CalledName
    <2> QED
      BY <1>1, <1>6, <1>8, <2>1 DEF AnswerFits
  <1> QED
    BY <1>3, <1>8, <1>9, <1>10, ContextsKept DEF SignaturesFit

LEMMA VerifyKeeps ==
    ASSUME SignaturesFit, NEW c, NEW w, NEW msg, NativeVerify(c, w, msg)
    PROVE  SignaturesFit'
  <1>1. PICK sig, key, res :
            /\ sig = SignatureParseDer(der) /\ key = EcPubkeyParse(wallet[w].pub)
            /\ res = Verified(contexts[c], sig, msg, key)
            /\ Called(c, "verify", w, msg, res, 0)
    BY DEF NativeVerify
  <1>2. ContextsFit /\ SignatureFits /\ wallet[1].sec \in Nat
    BY DEF SignaturesFit
  <1>3. /\ wallet' = wallet /\ contexts' = contexts /\ SignaturesUnchanged /\ der' = der
    BY DEF NativeVerify, KeysUnchanged, SignaturesUnchanged
  <1>4. ASSUME res.ret = 1
        PROVE  LET q == EcdsaSigParse(der)
               IN  q.ok /\ q.r # 0 /\ q.s # 0 /\ ~IsHigh(q.s)
    <2>1. PICK q : q = EcdsaSigParse(der) /\ sig = ParsedDer(q)
      BY <1>1 DEF SignatureParseDer
    <2>2. sig.ret # 0 /\ res = EcdsaVerify(contexts[c], sig.out, msg, key.out)
      BY <1>1, <1>4 DEF Verified
    <2>3. q.ok /\ sig.out.r = q.r /\ sig.out.s = q.s
      BY <2>1, <2>2 DEF ParsedDer, Ok, No
    <2>4. PICK x, y : /\ ~IsHigh(sig.out.s)
                      /\ EcdsaSigVerify(sig.out.r, sig.out.s, x, y)
      BY <1>4, <2>2 DEF EcdsaVerify, Ok, No, Illegal
    <2>5. sig.out.r # 0 /\ sig.out.s # 0
      BY <2>4 DEF EcdsaSigVerify
    <2> QED
      BY <2>1, <2>3, <2>4, <2>5
  <1>5. AnswerFits'
    <2>1. answer'.name = "verify" /\ answer'.ret = res.ret
      BY <1>1, CalledName
    <2> QED
      BY <1>3, <1>4, <2>1 DEF AnswerFits
  <1> QED
    BY <1>2, <1>3, <1>5, ContextsKept, SignatureKept DEF SignaturesFit

LEMMA ReceiveKeeps ==
    ASSUME SignaturesFit, NEW b \in Edits(der), Receive(b)
    PROVE  SignaturesFit'
  <1>1. ContextsFit /\ SignatureFits /\ wallet[1].sec \in Nat
    BY DEF SignaturesFit
  <1>2. /\ der' = b /\ made' = NoMade /\ rsig' = ZeroRecoverable /\ answer' = NoAnswer
        /\ wallet' = wallet /\ contexts' = contexts
    BY DEF Receive
  <1>3. b \in Seq(Octets)
    BY <1>1, EditsAreBytes DEF SignatureFits
  <1>4. SignatureFits'
    BY <1>2, <1>3, ZeroIsRecoverable DEF SignatureFits
  <1>5. AnswerFits'
    BY <1>2, OtherAnswers DEF NoAnswer
  <1> QED
    BY <1>1, <1>2, <1>4, <1>5, ContextsKept DEF SignaturesFit

LEMMA NormalizeKeeps ==
    ASSUME SignaturesFit, NormalizeTwin
    PROVE  SignaturesFit'
  <1>1. ContextsFit /\ SignatureFits /\ wallet[1].sec \in Nat
    BY DEF SignaturesFit
  <1>2. PICK q, twin, res :
            /\ q = EcdsaSigParse(der) /\ ParsedDer(q).ret = 1
            /\ twin = Twin(ParsedDer(q)) /\ res = SignatureNormalize(twin)
            /\ Normalized(twin, res)
    BY DEF NormalizeTwin, SignatureParseDer
  <1>3. q.ok /\ q.r \in 0 .. n - 1 /\ q.s \in 0 .. n - 1
    <2>1. q.ok
      BY <1>2 DEF ParsedDer, No
    <2> QED
      BY <1>1, <1>2, <2>1, ParsedIsScalar DEF SignatureFits
  <1>4. PICK other \in 0 .. n - 1 : other = Negate(q.s)
    BY <1>3, NegatedIsScalar
  <1>5. twin = [r |-> q.r, s |-> other]
    <2>1. ~ReadScalar(q.r).overflow /\ ~ReadScalar(other).overflow
      <3>1. q.r \in Nat /\ other \in Nat
        BY <1>3, FieldSize
      <3> QED
        BY <1>3, <3>1, ScalarRead
    <2>2. SignatureParseCompact(q.r, other) = Ok([r |-> q.r, s |-> other])
      BY <2>1 DEF SignatureParseCompact
    <2>3. ParsedDer(q).out = [r |-> q.r, s |-> q.s]
      BY <1>3 DEF ParsedDer, Ok
    <2>4. SignatureSerializeCompact(ParsedDer(q).out).out[1] = q.r
      BY <2>3 DEF SignatureSerializeCompact, Ok
    <2> QED
      BY <1>2, <1>4, <2>2, <2>3, <2>4 DEF Twin, Ok
  <1>6. PICK low \in LowScalars : low = IF IsHigh(other) THEN Negate(other) ELSE other
    BY NegatedIsLow
  <1>7. /\ res.out.r = q.r /\ res.out.s = low
        /\ res.ret = IF IsHigh(twin.s) THEN 1 ELSE 0
    <2>1. CASE IsHigh(other)
      <3>1. res = Ok([twin EXCEPT !.s = Negate(@)])
        BY <1>2, <1>5, <2>1 DEF SignatureNormalize
      <3>2. res.out = [twin EXCEPT !.s = low] /\ res.ret = 1
        BY <1>5, <1>6, <2>1, <3>1 DEF Ok
      <3> QED
        BY <1>5, <2>1, <3>2
    <2>2. CASE ~IsHigh(other)
      BY <1>2, <1>5, <1>6, <2>2 DEF SignatureNormalize, No
    <2> QED
      BY <2>1, <2>2
  <1>8. /\ wallet' = wallet /\ contexts' = contexts /\ made' = made /\ rsig' = rsig
        /\ der' = EcdsaSigSerialize(res.out.r, res.out.s, DerRoom).out
        /\ Called("original", "normalize", 0, IF IsHigh(twin.s) THEN 1 ELSE 0, res, 0)
    BY <1>2 DEF Normalized, KeysUnchanged, SignatureSerializeDer
  <1>9. LowWritten(der') /\ der' \in Seq(Octets)
    BY <1>3, <1>7, <1>8, LowIsWritten
  <1>10. SignatureFits'
    BY <1>1, <1>8, <1>9 DEF SignatureFits
  <1>11. AnswerFits'
    <2>1. answer'.name = "normalize" /\ answer'.ret = answer'.v
      BY <1>7, <1>8, CalledName
    <2> QED
      BY <2>1 DEF AnswerFits
  <1> QED
    BY <1>1, <1>8, <1>10, <1>11, ContextsKept DEF SignaturesFit

LEMMA SignRecoverableKeeps ==
    ASSUME SignaturesFit, NEW c \in DOMAIN contexts, NEW msg \in Messages,
           SignRecoverable(c, 1, msg)
    PROVE  SignaturesFit'
  <1>1. PICK sec, res :
            /\ sec = wallet[1].sec /\ res = EcdsaSignRecoverable(contexts[c], msg, sec, <<>>)
            /\ RecoverablySigned(c, 1, msg, res)
    BY DEF SignRecoverable
  <1>2. Called(c, "sign_recoverable", 1, msg, res, 0)
    BY <1>1 DEF RecoverablySigned
  <1>3. ContextsFit /\ SignatureFits /\ wallet[1].sec \in Nat
    BY DEF SignaturesFit
  <1>4. contexts[c] \in SignContexts
    BY <1>2, <1>3, CalledName, LivingContext
  <1>5. msg \in Nat /\ sec \in Nat
    BY <1>1, <1>3, NativeAssumption
  <1>6. res.out \in LowRecoverables
    BY <1>1, <1>4, <1>5, RecoverableSigningGives
  <1>7. wallet' = wallet /\ contexts' = contexts /\ rsig' = res.out /\ der' = <<>>
    BY <1>1 DEF RecoverablySigned, KeysUnchanged
  <1>8. SignatureFits'
    <2>1. <<>> \in Seq(Octets)
      BY EmptySeq
    <2>2. rsig' \in Recoverables /\ ~IsHigh(rsig'.s)
      BY <1>6, <1>7, ZeroIsRecoverable
    <2> QED
      BY <1>7, <2>1, <2>2 DEF SignatureFits
  <1>9. AnswerFits'
    BY <1>2, CalledName, OtherAnswers
  <1> QED
    BY <1>3, <1>7, <1>8, <1>9, ContextsKept DEF SignaturesFit

LEMMA ReadRecoverableKeeps ==
    ASSUME SignaturesFit, NEW recid \in 0 .. 3, ReadRecoverable(recid)
    PROVE  SignaturesFit'
  <1>1. ContextsFit /\ SignatureFits /\ wallet[1].sec \in Nat
    BY DEF SignaturesFit
  <1>2. PICK b, res :
            /\ b = RecoverableSerializeCompact(rsig).out
            /\ res = RecoverableParseCompact(b[1], b[2], recid)
            /\ Called("original", "parse_recoverable", 0, 0, res, 0)
            /\ rsig' = res.out
            /\ made' = IF recid = b[3] THEN made ELSE NoMade
    BY DEF ReadRecoverable
  <1>3. der' = der /\ wallet' = wallet /\ contexts' = contexts
    BY DEF ReadRecoverable, KeysUnchanged
  <1>4. rsig.r \in 0 .. n - 1 /\ rsig.s \in 0 .. n - 1
    BY <1>1 DEF SignatureFits, Recoverables
  <1>5. res.out = [r |-> rsig.r, s |-> rsig.s, recid |-> recid]
    <2>1. b[1] = rsig.r /\ b[2] = rsig.s
      BY <1>2 DEF RecoverableSerializeCompact, Ok
    <2>2. ~ReadScalar(rsig.r).overflow /\ ~ReadScalar(rsig.s).overflow
      <3>1. rsig.r \in Nat /\ rsig.s \in Nat
        BY <1>4, FieldSize
      <3> QED
        BY <1>4, <3>1, ScalarRead
    <2> QED
      BY <1>2, <2>1, <2>2 DEF RecoverableParseCompact, Ok
  <1>6. SignatureFits'
    <2>1. rsig' \in Recoverables /\ rsig'.s = rsig.s
      BY <1>2, <1>4, <1>5 DEF Recoverables
    <2>2. made' # NoMade => made # NoMade
      BY <1>2
    <2> QED
      BY <1>1, <1>3, <2>1, <2>2 DEF SignatureFits
  <1>7. AnswerFits'
    BY <1>2, CalledName, OtherAnswers
  <1> QED
    BY <1>1, <1>3, <1>6, <1>7, ContextsKept DEF SignaturesFit

LEMMA RecoverKeeps ==
    ASSUME SignaturesFit, NEW c, NEW msg, NativeRecover(c, msg)
    PROVE  SignaturesFit'
  <1>1. ContextsFit /\ SignatureFits /\ wallet[1].sec \in Nat
    BY DEF SignaturesFit
  <1>2. PICK res : GivesKey(c, "recover", 0, msg, res)
    BY DEF NativeRecover
  <1>3. wallet' = wallet /\ contexts' = contexts /\ SignaturesUnchanged
    BY <1>2 DEF GivesKey, KeysUnchanged
  <1>4. AnswerFits'
    <2>1. PICK out : Called(c, "recover", 0, msg, res, out)
      BY <1>2 DEF GivesKey
    <2> QED
      BY <2>1, CalledName, OtherAnswers
  <1> QED
    BY <1>1, <1>3, <1>4, ContextsKept, SignatureKept DEF SignaturesFit

LEMMA ConvertKeeps ==
    ASSUME SignaturesFit, ConvertRecoverable
    PROVE  SignaturesFit'
  <1>1. ContextsFit /\ SignatureFits /\ wallet[1].sec \in Nat
    BY DEF SignaturesFit
  <1>2. PICK res : /\ res = RecoverableConvert(rsig)
                   /\ Called("original", "convert", 0, 0, res, 0)
                   /\ der' = SignatureSerializeDer(res.out, DerRoom).out
    BY DEF ConvertRecoverable
  <1>3. /\ rsig' = ZeroRecoverable /\ made' = made
        /\ wallet' = wallet /\ contexts' = contexts
    BY DEF ConvertRecoverable, KeysUnchanged
  <1>4. rsig.r \in 0 .. n - 1 /\ rsig.s \in 0 .. n - 1
    BY <1>1 DEF SignatureFits, Recoverables
  <1>5. der' = EcdsaSigSerialize(rsig.r, rsig.s, DerRoom).out
    BY <1>2 DEF RecoverableConvert, Ok, SignatureSerializeDer
  <1>6. SignatureFits'
    <2>1. der' \in Seq(Octets)
      BY <1>4, <1>5, WrittenBytes
    <2>2. made # NoMade => LowWritten(der')
      <3>1. made # NoMade => rsig.s \in LowScalars
        BY <1>1, <1>4 DEF SignatureFits, LowScalars
      <3> QED
        BY <1>4, <1>5, <3>1, LowIsWritten
    <2> QED
      BY <1>3, <2>1, <2>2, ZeroIsRecoverable DEF SignatureFits
  <1>7. AnswerFits'
    BY <1>2, CalledName, OtherAnswers
  <1> QED
    BY <1>1, <1>3, <1>6, <1>7, ContextsKept DEF SignaturesFit

LEMMA SignStepFits ==
    ASSUME SignaturesFit, SignNext
    PROVE  SignaturesFit'
  <1>1. CASE CtxClone \/ NormalizeTwin \/ ConvertRecoverable
    BY <1>1, CloneKeeps, NormalizeKeeps, ConvertKeeps
  <1>2. ASSUME NEW c \in DOMAIN contexts,
               \/ DestroyContext(c)
               \/ \E seed \in SeedBuffers : Randomize(c, seed)
               \/ \E msg \in Messages :
                     \/ NativeSign(c, 1, msg) \/ SignRecoverable(c, 1, msg)
                     \/ NativeRecover(c, msg)
                     \/ \E w \in Wallets : NativeVerify(c, w, msg)
        PROVE  SignaturesFit'
    BY <1>2, DestroyKeeps, RandomizeKeeps, SignKeeps, SignRecoverableKeeps, RecoverKeeps,
       VerifyKeeps
  <1>3. ASSUME NEW b \in Edits(der), Receive(b) PROVE SignaturesFit'
    BY <1>3, ReceiveKeeps
  <1>4. ASSUME NEW recid \in 0 .. 3, ReadRecoverable(recid) PROVE SignaturesFit'
    BY <1>4, ReadRecoverableKeeps
  <1> QED
    BY <1>1, <1>2, <1>3, <1>4 DEF SignNext

LEMMA FittingIsCanonical ==
    ASSUME SignaturesFit
    PROVE  SignaturesAreCanonical
  <1>1. SignatureFits /\ AnswerFits
    BY DEF SignaturesFit
  <1>2. made # NoMade /\ der # <<>> => EcdsaSigParse(der).ok /\ ~IsHigh(EcdsaSigParse(der).s)
    BY <1>1, LowWrittenIsRead DEF SignatureFits
  <1>3. made # NoMade /\ rsig # ZeroRecoverable => ~IsHigh(rsig.s)
    BY <1>1 DEF SignatureFits
  <1>4. EncodingIsUnique(der)
    <2>1. der \in Seq(0 .. 2^DerBits - 1)
      BY <1>1 DEF SignatureFits, Octets, Radix
    <2> QED
      BY <2>1, OneEncoding
  <1>5. /\ answer.name = "verify" /\ answer.ret = 1 =>
              /\ EcdsaSigParse(der).ok /\ EcdsaSigParse(der).r # 0 /\ EcdsaSigParse(der).s # 0
              /\ ~IsHigh(EcdsaSigParse(der).s)
        /\ answer.name = "sign" => (answer.ret = 1 <=> InRange(wallet[answer.w].sec))
        /\ answer.name = "normalize" => answer.ret = answer.v
    BY <1>1 DEF AnswerFits
  <1> QED
    BY <1>2, <1>3, <1>4, <1>5 DEF SignaturesAreCanonical

\* SignaturesAreCanonical holds in every behaviour, for every curve and key:
\* whatever contexts are cloned, blinded or destroyed, whatever bytes arrive in
\* between, what was signed here is readable and has a low s, in either form
\* and after every conversion (ecdsa_sig_sign lowers it, signature_normalize
\* keeps it low), verification only accepts readable signatures with a low s
\* (secp256k1_ecdsa_verify), no signature has two encodings, and signing
\* fails exactly for a key that is zero or not below the order.
THEOREM SignaturesStayCanonical == LibrarySpec => []SignaturesAreCanonical
  <1> DEFINE Inv == part = "signatures" => SignaturesFit
  <1>1. LibraryInit => Inv
    BY SignaturesFitAtFirst
  <1>2. Inv /\ [LibraryNext]_libraryVars => Inv'
    <2> SUFFICES ASSUME Inv, [LibraryNext]_libraryVars, part' = "signatures"
                 PROVE  SignaturesFit'
      OBVIOUS
    <2>1. part = "signatures"
      BY DEF LibraryNext, libraryVars
    <2>2. SignaturesFit
      BY <2>1
    <2>3. CASE SignNext
      BY <2>2, <2>3, SignStepFits
    <2>4. CASE UNCHANGED nativeVars
      BY <2>2, <2>4 DEF nativeVars, SignaturesFit, ContextsFit, SignatureFits, AnswerFits
    <2> QED
      BY <2>1, <2>3, <2>4 DEF LibraryNext, libraryVars
  <1>3. Inv => SignaturesAreCanonical
    BY FittingIsCanonical DEF SignaturesAreCanonical
  <1> QED
    BY <1>1, <1>2, <1>3, PTL DEF LibrarySpec

=============================================================================
