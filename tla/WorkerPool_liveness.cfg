\* Two workers and three connections; the receive timeout ends a recv.
SPECIFICATION FairSpec
CONSTANTS
  w1 = w1
  w2 = w2
  w3 = w3
  Worker <- TwoWorkers
  Main = Main
  Nobody = Nobody
  MaxConn = 3
  MaxFds = 3
  HasTimeout = TRUE
PROPERTIES ShutdownSavesAccounts QueuedIsServed
