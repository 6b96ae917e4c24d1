CONSTANTS
  Writers = {w1}
  Readers = {r1}
  Deleters = {d1}
  Reapers = {}
  Handles = {h1, h2}
  None = None
  PutOpts <- ClaimOpts
  Wall = {1, 2}
  Faults = {}
  MaxClips = 0
  MaxGen = 2
  MaxNow = 0
  MaxSeed = 2
SPECIFICATION FairSpec
INVARIANTS
  NoLostWakeup
  FollowsNewer
PROPERTIES
  WaiterServed
  ConsumedDestroyed
