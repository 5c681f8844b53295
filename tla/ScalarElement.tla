---------------------------- MODULE ScalarElement ----------------------------
(***************************************************************************)
(* Sequences of calls on scalars, made on the 8x32 and the 4x64            *)
(* representation alike.                                                   *)
(***************************************************************************)
EXTENDS Integers, FiniteSets, Limbs

CONSTANTS Scalars,                \* the scalars
          ScalarInputs,           \* numbers given to set_b32 and set_int
          Order,                  \* the group order
          N8, W8, N4, W4,         \* words: 8 of 32 bits, 4 of 64 bits
          ScalarBytes, ScalarByteBits,
          MaxScalarCalls          \* bound: calls in a sequence

S8 == INSTANCE Scalar8x32
        WITH N <- N8, W <- W8, Bytes <- ScalarBytes, ByteBits <- ScalarByteBits
S4 == INSTANCE Scalar4x64
        WITH N <- N4, W <- W4, Bytes <- ScalarBytes, ByteBits <- ScalarByteBits

ASSUME ScalarElementAssumption ==
    /\ S8!Scalar8x32Assumption
    /\ S4!Scalar4x64Assumption
    /\ N8 * W8 = N4 * W4

Size == N8 * W8                   \* 256 bits

VARIABLES eight, four, lastScalar, scalarCalls

scalarVars == <<eight, four, lastScalar, scalarCalls>>

Value8(a) == LimbValue(a, W8)
Value4(a) == LimbValue(a, W4)

Low8 == INSTANCE ScalarLow WITH val  <- [r \in Scalars |-> Value8(eight[r])],
                                last <- lastScalar
Low4 == INSTANCE ScalarLow WITH val  <- [r \in Scalars |-> Value4(four[r])],
                                last <- lastScalar

ScalarByteArray(x) == ToLimbs(x, ScalarBytes, ScalarByteBits)

\* The scalars start as numbers of `inputs'.
ScalarStart(inputs) ==
    /\ \E f \in [Scalars -> {x \in inputs : x < Order}] :
          /\ eight = [r \in Scalars |-> S8!ScalarSetB32(ScalarByteArray(f[r])).r]
          /\ four  = [r \in Scalars |-> S4!ScalarSetB32(ScalarByteArray(f[r])).r]
    /\ lastScalar = Low8!NoCall
    /\ scalarCalls = 0

ScalarInit == ScalarStart(ScalarInputs)

\* r becomes e8 and e4; the call returned out8 in the one representation
\* and out4 in the other, which must be the same.
Does(name, r, a, b, k, e8, e4, out8, out4) ==
    /\ scalarCalls < MaxScalarCalls
    /\ scalarCalls' = scalarCalls + 1
    /\ eight' = [eight EXCEPT ![r] = e8]
    /\ four'  = [four EXCEPT ![r] = e4]
    /\ lastScalar' = Low8!Call(name, r, a, b, k, IF out8 = out4 THEN out8 ELSE -2)

SClear(r) == Does("clear", r, r, r, 0, S8!ScalarClear, S4!ScalarClear, 0, 0)

SSetInt(r, k) ==
    /\ k < 2^W8                   \* an unsigned int
    /\ Does("set_int", r, r, r, k, S8!ScalarSetInt(k), S4!ScalarSetInt(k), 0, 0)

SSetB32(r, x) ==
    LET e8 == S8!ScalarSetB32(ScalarByteArray(x))
        e4 == S4!ScalarSetB32(ScalarByteArray(x))
    IN  Does("set_b32", r, r, r, x, e8.r, e4.r, e8.overflow, e4.overflow)

SAdd(r, a, b) ==
    LET e8 == S8!ScalarAdd(eight[a], eight[b])
        e4 == S4!ScalarAdd(four[a], four[b])
    IN  Does("add", r, a, b, 0, e8.r, e4.r, e8.overflow, e4.overflow)

SNegate(r, a) ==
    Does("negate", r, a, a, 0, S8!ScalarNegate(eight[a]), S4!ScalarNegate(four[a]), 0, 0)

SCondNegate(r, flag) ==
    LET e8 == S8!ScalarCondNegate(eight[r], flag)
        e4 == S4!ScalarCondNegate(four[r], flag)
    IN  Does("cond_negate", r, r, r, flag, e8.r, e4.r, e8.sign, e4.sign)

\* The sum must not overflow.
SCAddBit(r, bit, flag) ==
    /\ flag = 1 => Value8(eight[r]) + 2^bit < Order
    /\ Does(IF flag = 1 THEN "cadd_bit" ELSE "cadd_bit_no", r, r, r, bit,
            S8!ScalarCAddBit(eight[r], bit, flag), S4!ScalarCAddBit(four[r], bit, flag), 0, 0)

SMul(r, a, b) ==
    Does("mul", r, a, b, 0, S8!ScalarMul(eight[a], eight[b]),
                            S4!ScalarMul(four[a], four[b]), 0, 0)

SSqr(r, a) ==
    Does("sqr", r, a, a, 0, S8!ScalarSqr(eight[a]), S4!ScalarSqr(four[a]), 0, 0)

SShrInt(r, k) ==
    LET e8 == S8!ScalarShrInt(eight[r], k)
        e4 == S4!ScalarShrInt(four[r], k)
    IN  Does("shr_int", r, r, r, k, e8.r, e4.r, e8.low, e4.low)

ScalarNext ==
    \E r, a \in Scalars :
        \/ SClear(r)
        \/ \E x \in ScalarInputs : SSetInt(r, x) \/ SSetB32(r, x)
        \/ \E b \in Scalars : SAdd(r, a, b) \/ SMul(r, a, b)
        \/ SNegate(r, a)
        \/ SSqr(r, a)
        \/ \E flag \in {0, 1} : SCondNegate(r, flag)
        \/ \E flag \in {0, 1}, bit \in {0, W8, Size - 1} : SCAddBit(r, bit, flag)
        \/ \E k \in 1 .. W8 - 1 : SShrInt(r, k)

ScalarSpecification == ScalarInit /\ [][ScalarNext]_scalarVars

-----------------------------------------------------------------------------
\* What the library answers about a scalar, in either representation, is a
\* fact about its number, which is below the order: the comparisons against
\* half the order that decide whether a signature is high, the windows of bits
\* the multiplications take, across words too, and the bytes.
ScalarAnswers ==
    \A r, s \in Scalars :
        LET a == eight[r]   b == four[r]   v == Value8(a)   w == Value8(eight[s])
        IN  /\ v < Order /\ Value4(b) = v
            /\ S8!ScalarIsZero(a) = (v = 0) /\ S4!ScalarIsZero(b) = (v = 0)
            /\ S8!ScalarIsOne(a) = (v = 1) /\ S4!ScalarIsOne(b) = (v = 1)
            /\ S8!ScalarIsEven(a) = (v % 2 = 0)
            /\ S8!ScalarIsHigh(a) = Low8!LowIsHigh(v) /\ S4!ScalarIsHigh(b) = Low8!LowIsHigh(v)
            /\ S8!ScalarEq(a, eight[s]) = (v = w) /\ S4!ScalarEq(b, four[s]) = (v = w)
            /\ S8!ScalarGetB32(a) = ScalarByteArray(v) /\ S4!ScalarGetB32(b) = ScalarByteArray(v)
            /\ \A count \in 1 .. W8, offset \in 0 .. Size - 1 :
                  offset + count <= Size =>
                     /\ S8!ScalarGetBitsVar(a, offset, count) = Low8!LowGetBits(v, offset, count)
                     /\ S4!ScalarGetBitsVar(b, offset, count) = Low8!LowGetBits(v, offset, count)

\* The double-width products of the two representations are the same number,
\* by the C macros and by the assembler, their reduction too, and so are what
\* the endomorphism code takes from them: the product shifted and rounded,
\* and the two halves of a scalar.
ProductsAgree ==
    \A r, s \in Scalars :
        LET wide8 == S8!ScalarMul512(eight[r], eight[s])
            wide4 == S4!ScalarMul512(four[r], four[s])
            half  == 2^(Size \div 2)
            hi    == (Value8(eight[r]) \div half) * Value8(eight[s])
            lo    == (Value8(eight[r]) % half) * Value8(eight[s])
            shifted == Size + 1
        IN  /\ Regroup(wide8, W8, 2 * Size, 2 * N4, W4) = wide4
            /\ S4!AsmMul512(four[r], four[s]) = wide4
            /\ S4!AsmReduce512(wide4) = S4!ScalarReduce512(wide4)
            /\ S4!AsmSqr512(four[r]) = S4!ScalarMul512(four[r], four[r])
            /\ S4!ScalarSqr512(four[r]) = S4!ScalarMul512(four[r], four[r])
            /\ S8!ScalarSqr512(eight[r]) = S8!ScalarMul512(eight[r], eight[r])
            /\ LET rounded == ((hi + (lo \div half)) + 2^(Size \div 2)) \div 2^((Size \div 2) + 1)
               IN  /\ Value8(S8!ScalarMulShiftVar(eight[r], eight[s], shifted)) = rounded
                   /\ Value4(S4!ScalarMulShiftVar(four[r], four[s], shifted)) = rounded
            /\ LET x8 == S8!ScalarSplit128(eight[r])   x4 == S4!ScalarSplit128(four[r])
               IN  /\ Value8(x8.r1) + half * Value8(x8.r2) = Value8(eight[r])
                   /\ Value4(x4.r1) = Value8(x8.r1) /\ Value4(x4.r2) = Value8(x8.r2)

\* Both representations implement the one-word scalars of the exhaustive
\* tests, call by call, with the overflow and the sign that calls return.
EightImplementsLow == Low8!Spec

FourImplementsLow == Low4!Spec
=============================================================================
