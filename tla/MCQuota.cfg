SPECIFICATION Spec
CONSTANTS
  Writers = {w1, w2}
  Cleaners = {d1}
  MaxClip = 2
  MaxTotal = 3
  MaxClips = 2
  Interval = 2
  Chunks = {1, 2}
  Inherited = {2}
  MaxSize = 2
  MaxNow = 3
SYMMETRY Symmetry
INVARIANTS
  Balanced
PROPERTIES
  NeverRaisedPastCap
  SweepsSpaced
