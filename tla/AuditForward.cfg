SPECIFICATION FairSpec
CONSTANTS
  Writers = {w1, w2}
  Streamers = {s1, s2}
  MaxId = 4
  BatchSize = 2
  Class <- Alternating
  Windows = {"internal"}
CHECK_DEADLOCK FALSE
INVARIANTS
  TypeOK
  ForwardedBehindCursor
PROPERTIES
  EveryRowForwarded
  ImplementsFeed
