SPECIFICATION ArithmeticSpec
CONSTANTS
  N = 6
  W = 5
  T = 4
  C0 = 7
  C1 = 2
  WordBits = 8
  AccBits = 15
  Bytes = 10
  ByteBits = 3
  W5 = 6
  T5 = 5
  C5 = 2
  WordBits5 = 12
  AccBits5 = 17
  MaxMagnitude = 4
  MulMagnitude = 1
  Regs = {1, 2}
  Inputs <- MCInputs
  Ints <- MCInts
  MaxCalls = 2
  Scalars = {1, 2}
  ScalarInputs <- MCScalarInputs
  Order = 65267
  N8 = 8
  W8 = 2
  N4 = 4
  W4 = 4
  ScalarBytes = 8
  ScalarByteBits = 2
  MaxScalarCalls = 1
INVARIANTS MagnitudesHold ArithmeticAnswers
PROPERTIES NumbersAreImplemented
CHECK_DEADLOCK FALSE
