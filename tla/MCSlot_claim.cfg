CONSTANTS
  Writers = {w1}
  Readers = {r1, r2}
  Deleters = {}
  Reapers = {}
  Handles = {h1, h2}
  None = None
  PutOpts <- ClaimOpts
  Wall = {1}
  Faults = {"create", "finalize", "claim", "flush", "open", "remove"}
  MaxClips = 0
  MaxGen = 2
  MaxNow = 0
  MaxSeed = 1
SPECIFICATION Spec
SYMMETRY Symmetry
INVARIANTS
  AtMostOnce
  FootprintExact
  ReadableHasHome
  EOFMeansPublished
PROPERTIES
  RegisterSpec
  NeverReturns
