\* Users who do everything the client lets them do.
SPECIFICATION Spec
CONSTANTS
  s1 = s1
  s2 = s2
  s3 = s3
  Session <- TwoSessions
  UserName <- ShortAndLong
  LobbyName <- GoAndGolf
  MaxLobbies = 2
  Habits = {"destroy", "relogin", "twice", "hangup"}
INVARIANTS Counted ListsFramed
