\* Progress: no faults, no symmetry, the fairness of FairSpec.
CONSTANTS
  Writers = {w1}
  Readers = {}
  Deleters = {d1}
  Reapers = {s1}
  Handles = {h1, h2}
  None = None
  PutOpts <- RetainOpts
  Wall = {1}
  Faults = {}
  MaxClips = 1
  MaxGen = 2
  MaxNow = 2
  MaxSeed = 2
SPECIFICATION FairSpec
PROPERTIES
  ExpiredReclaimed
  OperationsReturn
