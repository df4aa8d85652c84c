\* Two users enter at the same time.
SPECIFICATION RoomSpec
CONSTANTS
  s1 = s1
  s2 = s2
  s3 = s3
  Session <- ThreeUsers
  NULL = NULL
  Overlap <- TwoEnter
  MaxRequests = 5
SYMMETRY UserSymmetry
INVARIANT BroadcastArrives
CHECK_DEADLOCK FALSE
