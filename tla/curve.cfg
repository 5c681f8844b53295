SPECIFICATION LibrarySpec
CONSTANTS
  p = 43
  CurveB = 7
  n = 31
  Bits = 5
  WindowA = 3
  WindowG = 4
  GenGroups = 5
  GenBits = 1
  GX = 2
  GY = 12
  NumsX = 35
  MaxDraws = 64
  BlockBytes = 4
  DigestBytes = 2
  LengthBytes = 1
  ByteBits = 3
  InitialState <- MCInitialState
  Compress <- MCCompress
  InnerPad = 3
  OuterPad = 5
  Chunks <- MCChunks
  HashKeys <- MCHashKeys
  MaxWrites = 3
  Points = {1, 2}
  StartLogs <- MCStartLogs
  StartZ = {5}
  LiftX = {0, 2, 35, 42}
  Multipliers = {0, 15, 16, 30}
  Seeds <- MCSeeds
  MaxPointCalls = 2
  MaxMultiplied = 1
  DerBits = 5
  DerBytes = 2
  SizeBytes = 2
  SequenceTag = 24
  IntegerTag = 2
  Wallets = {1, 2}
  StartSecs = {6, 30, 37}
  OtherSec = 11
  Messages = {5, 37}
  Tweaks = {1, 25, 31}
  SeedBuffers <- MCSeeds
  ForeignDer <- MCForeignDer
  EditedBytes = {0, 17}
  Garbage = Garbage
  MaxSignCalls = 3
  MaxKeyCalls = 3
INVARIANTS MagnitudesFit PointsAnswer DigitsStandForTheScalar StreamsAreOfTheWhole SignaturesAreCanonical SignaturesHold KeysStayPaired
PROPERTIES PointsAreMultiples
CHECK_DEADLOCK FALSE
