SPECIFICATION JdbcSpec
CONSTANTS
  Dbs = {d1}
  Functions = {f, g}
  Aggregates = {g}
  Names = {n}
  NoText = NoText
  Stmts = {s1, s2}
  HandlerDbs = {d1}
  MaxUdfs = 2
  MaxRows = 1
  MaxArgs = 1
  MaxCalls = 3
  MaxDepth = 2
  MaxChunks = 2
  MaxWrites = 3
VIEW WithoutAnswer
INVARIANTS NothingDangles ResultsAreOfTheirCall CopiesAreWhole
CHECK_DEADLOCK FALSE
