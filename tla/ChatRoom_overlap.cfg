\* An arrival and a broadcast overlap; every other request has the lobby for itself.
SPECIFICATION RoomSpec
CONSTANTS
  s1 = s1
  s2 = s2
  s3 = s3
  Session <- ThreeUsers
  NULL = NULL
  Overlap <- OneOfEach
  MaxRequests = 5
SYMMETRY UserSymmetry
INVARIANTS ListKept BroadcastArrives LobbyInStep NobodyWaits
\* Users need not ask for anything.
CHECK_DEADLOCK FALSE
