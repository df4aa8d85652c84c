\* Nobody deletes an account and no name starts another; the table grows from
\* three entries to nine and back to three at a restart.
SPECIFICATION Spec
CONSTANTS
  s1 = s1
  s2 = s2
  admin = admin
  phteven = phteven
  b = b
  c = c
  pw1 = pw1
  pw2 = pw2
  Session <- OneSession
  Name <- FourNames
  Admin = admin
  Phteven = phteven
  Password <- TwoPasswords
  DefaultPassword = pw1
  Hash <- Colliding
  Longer <- NoneLonger
  Absent = Absent
  Capacity = 3
  MaxTable = 9
  MaxAccounts = 4
  NewLevel = {1, 2, 3}
  Habits = {}
PROPERTY ActsAsStore
