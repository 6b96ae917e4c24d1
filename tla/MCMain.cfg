SPECIFICATION Spec
CONSTANTS
  Sources = {"stdin", "file", "archive"}
  MaxPieces = 3
  MaxChunks = 2
  Handlers = {"h1", "h2"}
INVARIANTS CommitsOnlyWhole BlameIsRight NoSecretLeft Landed LossReported
PROPERTIES NeverClobbers CommandEnds
CHECK_DEADLOCK FALSE
