\* Three workers and three connections: a queue of length two while a worker
\* is busy, a free() racing an enqueue, more workers than work and less.
SPECIFICATION Spec
CONSTANTS
  w1 = w1
  w2 = w2
  w3 = w3
  Worker <- ThreeWorkers
  Main = Main
  Nobody = Nobody
  MaxConn = 3
  MaxFds = 3
  HasTimeout = TRUE
SYMMETRY WorkerSymmetry
INVARIANTS PoolInv ExclusiveService NoClientLost QueueShape
PROPERTIES DispatchesInOrder
