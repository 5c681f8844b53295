------------------------------ MODULE Scalar4x64 ------------------------------
(***************************************************************************)
(* The other representation of scalars: four 64-bit words                  *)
(* (scalar_4x64_impl.h).  Its C functions are those of scalar_8x32_impl.h  *)
(* with four words; the products also exist in x86-64 assembler.           *)
(***************************************************************************)
EXTENDS Integers

CONSTANTS N, W, Order, Bytes, ByteBits       \* N = 4, W = 64

C == INSTANCE Scalar8x32

Scalar4x64Assumption == C!Scalar8x32Assumption

ScalarClear == C!ScalarClear
ScalarSetInt(v) == C!ScalarSetInt(v)
ScalarGetBits(a, offset, count) == C!ScalarGetBits(a, offset, count)
ScalarGetBitsVar(a, offset, count) == C!ScalarGetBitsVar(a, offset, count)
ScalarCheckOverflow(a) == C!ScalarCheckOverflow(a)
ScalarReduce(r, overflow) == C!ScalarReduce(r, overflow)
ScalarAdd(a, b) == C!ScalarAdd(a, b)
ScalarCAddBit(r, bit, flag) == C!ScalarCAddBit(r, bit, flag)
ScalarSetB32(b) == C!ScalarSetB32(b)
ScalarGetB32(a) == C!ScalarGetB32(a)
ScalarIsZero(a) == C!ScalarIsZero(a)
ScalarNegate(a) == C!ScalarNegate(a)
ScalarIsOne(a) == C!ScalarIsOne(a)
ScalarIsHigh(a) == C!ScalarIsHigh(a)
ScalarCondNegate(r, flag) == C!ScalarCondNegate(r, flag)
ScalarReduce512(l) == C!ScalarReduce512(l)
ScalarMul512(a, b) == C!ScalarMul512(a, b)
ScalarSqr512(a) == C!ScalarSqr512(a)
ScalarMul(a, b) == C!ScalarMul(a, b)
ScalarSqr(a) == C!ScalarSqr(a)
ScalarShrInt(r, n) == C!ScalarShrInt(r, n)
ScalarSplit128(a) == C!ScalarSplit128(a)
ScalarEq(a, b) == C!ScalarEq(a, b)
ScalarMulShiftVar(a, b, shift) == C!ScalarMulShiftVar(a, b, shift)

-----------------------------------------------------------------------------
\* The columns of the C functions, added in assembler.
AsmReduce512(l) == C!ReduceWith(l, "asm")

AsmMul512(a, b) == C!Mul512With(a, b, "asm")

AsmSqr512(a) == C!Sqr512With(a, "asm")
=============================================================================
