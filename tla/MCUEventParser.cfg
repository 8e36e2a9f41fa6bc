SPECIFICATION Spec
CONSTANTS
  Letters = {"a", "b"}
  BufferSize = 8
  Infos <- MCInfos
  True <- MCTrue
INVARIANTS
  ParserInv
  InBounds
  ParsedExact
  DecisionExact
CHECK_DEADLOCK FALSE
