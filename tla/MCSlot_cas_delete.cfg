CONSTANTS
  Writers = {w1, w2}
  Readers = {}
  Deleters = {d1}
  Reapers = {}
  Handles = {h1, h2}
  None = None
  PutOpts <- CASOpts
  Wall = {1}
  Faults = {"create"}
  MaxClips = 0
  MaxGen = 3
  MaxNow = 0
  MaxSeed = 2
SPECIFICATION Spec

PROPERTIES
  ConditionalReplacesMatch
