\* Users who log in once, under different names, and leave as they came.
SPECIFICATION Spec
CONSTANTS
  s1 = s1
  s2 = s2
  s3 = s3
  Session <- ThreeSessions
  UserName <- ThreeNames
  LobbyName <- GoAndGolf
  MaxLobbies = 2
  Habits = {}
SYMMETRY SessionSymmetry
INVARIANTS ServerStaysUp NumbersArePositions MembershipAgrees MessagesReach NobodyStuck
