SPECIFICATION MCFairSpec
CONSTANTS
  Server = {"chat", "ftp"}
  a = a
  b = b
  Client = {a, b}
  Logins <- MCLogins
  Name = {n}
  LongName = LongName
  Home = Home
  MaxLength = 2
  MaxCommands = 3
  empty = empty
  short = short
  long = long
  folder = folder
  Directory = {folder}
  Nothing = Nothing
  Missing = Missing
  File = {empty, short, long}
  Size <- MCSize
  PACKET_SIZE = 1024
  MaxFtpCommands = 3
INVARIANTS InStep MadeOnce FileIsOnePut FtpInStep
PROPERTIES AllAnswered
CHECK_DEADLOCK FALSE
