CONSTANTS
  Writers = {w1, w2}
  Readers = {}
  Deleters = {d1}
  Reapers = {s1}
  Handles = {h1, h2}
  None = None
  PutOpts <- MixedOpts
  Wall = {1}
  Faults = {"unpublish", "remove"}
  MaxClips = 2
  MaxGen = 3
  MaxNow = 2
  MaxSeed = 2
SPECIFICATION Spec
SYMMETRY Symmetry
INVARIANTS
  OneHandle
  QuiescentClean
  NoLostUpdate
PROPERTIES
  ValueLeavesOnlyBy
