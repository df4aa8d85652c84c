\* Deletions, kills and restarts, with collisions in every table
\* and a name that starts two others.
SPECIFICATION Spec
CONSTANTS
  s1 = s1
  s2 = s2
  admin = admin
  phteven = phteven
  b = b
  c = c
  pw1 = pw1
  pw2 = pw2
  Session <- OneSession
  Name <- FourNames
  Admin = admin
  Phteven = phteven
  Password <- OnePassword
  DefaultPassword = pw1
  Hash <- Colliding
  Longer <- BStartsC
  Absent = Absent
  Capacity = 3
  MaxTable = 9
  MaxAccounts = 4
  NewLevel = {3}
  Habits = {"delete", "deleteAdmin", "crash"}
INVARIANTS TableSound StartKeepsAccounts
PROPERTIES DeletesOne
