SPECIFICATION FairSpec
CONSTANTS
  Readers = {r1, r2}
  MaxSize = 2
  Truncates = TRUE
INVARIANTS
  EndIsHonest
  NoLostWakeup
  DescriptorShared
PROPERTIES
  FollowersEnd
CHECK_DEADLOCK FALSE
