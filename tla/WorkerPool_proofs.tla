-------------------------- MODULE WorkerPool_proofs --------------------------
(***************************************************************************)
(* Proofs about WorkerPool, for any number of workers, connections and     *)
(* descriptors.                                                            *)
(***************************************************************************)
EXTENDS WorkerPool, TLAPS

\* The queue is empty and nobody holds anything when the server starts.
LEMMA PoolInvInit == Init => PoolInv
<1> SUFFICES ASSUME Init PROVE PoolInv
  OBVIOUS
<1> USE WorkerPoolAssumption DEF Init
<1>1. TypeOK
  <2>1. next \in [Client -> Client \cup {NULL}] /\ held \in [Worker -> Client \cup {NULL}]
    OBVIOUS
  <2>2. pc \in [Worker -> WorkerPc]
    BY DEF WorkerPc
  <2>3. sid \in 1 .. MaxConn + 1 /\ backlog \in Nat /\ fds \in 0 .. MaxFds
    OBVIOUS
  <2> QED
    BY <2>1, <2>2, <2>3 DEF TypeOK, MainPc
<1>5. CountInv
  BY DEF CountInv, MainLocked
<1>2. MutexInv
  BY DEF MutexInv, MainLocked, WorkerLocked
<1>3. ListInv /\ TailInv
  BY DEF Client, NULL, ListInv, TailInv, LastLinked, InList, Freeing
<1>4. HoldingInv
  BY DEF Client, NULL, HoldingInv, LastLinked, Taken
<1> QED
  BY <1>1, <1>2, <1>3, <1>4, <1>5 DEF PoolInv

\* Every step of main, of a worker and of the outside keeps the invariant.
LEMMA PoolInvNext == PoolInv /\ [Next]_vars => PoolInv'
<1> SUFFICES ASSUME PoolInv, [Next]_vars PROVE PoolInv'
  OBVIOUS
<1> USE WorkerPoolAssumption
    DEF PoolInv, Client, NULL, MainPc, WorkerPc, MainLocked, WorkerLocked,
        mainVars, queueVars, workVars, MainGoto, WorkerGoto
<1>1. CASE MainLoop
  BY <1>1 DEF MainLoop, TypeOK, MutexInv, CountInv, ListInv, TailInv, HoldingInv, LastLinked, InList, Freeing, Taken
<1>2. CASE AcceptClient
  <2>1. TypeOK'
    BY <1>2 DEF AcceptClient, TypeOK, CountInv
  <2>2. (MutexInv /\ CountInv)'
    BY <1>2 DEF AcceptClient, TypeOK, MutexInv, CountInv
  <2>3. ListInv'
    BY <1>2 DEF AcceptClient, TypeOK, MutexInv, CountInv, ListInv, TailInv, HoldingInv, LastLinked, InList, Freeing, Taken
  <2>4. TailInv'
    BY <1>2 DEF AcceptClient, TypeOK, MutexInv, CountInv, ListInv, TailInv, HoldingInv, LastLinked, InList, Freeing, Taken
  <2>5. HoldingInv'
    BY <1>2 DEF AcceptClient, TypeOK, MutexInv, CountInv, ListInv, TailInv, HoldingInv, LastLinked, InList, Freeing, Taken
  <2> QED
    BY <2>1, <2>2, <2>3, <2>4, <2>5
<1>3. CASE AcceptOutOfMemory
  BY <1>3 DEF AcceptOutOfMemory, TypeOK, MutexInv, CountInv, ListInv, TailInv, HoldingInv, LastLinked, InList, Freeing, Taken
<1>4. CASE AcceptFails
  BY <1>4 DEF AcceptFails, AcceptCannot, TypeOK, MutexInv, CountInv, ListInv, TailInv, HoldingInv, LastLinked, InList, Freeing, Taken
<1>5. CASE MainLock
  <2>1. TypeOK'
    BY <1>5 DEF MainLock, Acquire, TypeOK
  <2>2. (MutexInv /\ CountInv)'
    BY <1>5 DEF MainLock, Acquire, TypeOK, MutexInv, CountInv
  <2>3. ListInv'
    BY <1>5 DEF MainLock, Acquire, TypeOK, MutexInv, CountInv, ListInv, TailInv, HoldingInv, LastLinked, InList, Freeing, Taken
  <2>4. TailInv'
    BY <1>5 DEF MainLock, Acquire, TypeOK, MutexInv, CountInv, ListInv, TailInv, HoldingInv, LastLinked, InList, Freeing, Taken
  <2>5. HoldingInv'
    BY <1>5 DEF MainLock, Acquire, TypeOK, MutexInv, CountInv, ListInv, TailInv, HoldingInv, LastLinked, InList, Freeing, Taken
  <2> QED
    BY <2>1, <2>2, <2>3, <2>4, <2>5
<1>6. CASE EnqueueAlloc
  <2>1. TypeOK'
    BY <1>6 DEF EnqueueAlloc, TypeOK, CountInv
  <2>2. (MutexInv /\ CountInv)'
    BY <1>6 DEF EnqueueAlloc, TypeOK, MutexInv, CountInv
  <2>3. ListInv'
    BY <1>6 DEF EnqueueAlloc, TypeOK, MutexInv, CountInv, ListInv, TailInv, HoldingInv, LastLinked, InList, Freeing, Taken
  <2>4. TailInv'
    BY <1>6 DEF EnqueueAlloc, TypeOK, MutexInv, CountInv, ListInv, TailInv, HoldingInv, LastLinked, InList, Freeing, Taken
  <2>5. HoldingInv'
    BY <1>6 DEF EnqueueAlloc, TypeOK, MutexInv, CountInv, ListInv, TailInv, HoldingInv, LastLinked, InList, Freeing, Taken
  <2> QED
    BY <2>1, <2>2, <2>3, <2>4, <2>5
<1>7. CASE EnqueueLink
  <2>1. TypeOK'
    BY <1>7 DEF EnqueueLink, TypeOK, CountInv
  <2>2. (MutexInv /\ CountInv)'
    BY <1>7 DEF EnqueueLink, TypeOK, MutexInv, CountInv
  <2>3. ListInv'
    <3>1. \A w \in Worker : pc[w] # "freenode" /\ pc'[w] = pc[w]
      BY <1>7 DEF EnqueueLink, MutexInv, TypeOK
    <3>2. tail = IF head = NULL THEN NULL ELSE LastLinked
      BY <1>7, <3>1 DEF EnqueueLink, TailInv
    <3>3. LastLinked = sid - 1 /\ LastLinked' = sid /\ sid \in Client
      BY <1>7 DEF EnqueueLink, LastLinked, CountInv, TypeOK
    <3>4. CASE head = NULL
      BY <1>7, <3>1, <3>2, <3>3, <3>4 DEF EnqueueLink, TypeOK, ListInv, InList, Freeing
    <3>5. CASE head # NULL
      <4>1. tail = sid - 1 /\ tail \in Client /\ head <= tail /\ head' = head
        BY <1>7, <3>2, <3>3, <3>5 DEF EnqueueLink, TypeOK, ListInv
      <4>2. next'[sid] = NULL /\ next'[tail] = sid
        BY <1>7, <3>3, <4>1 DEF EnqueueLink, TypeOK, ListInv
      <4>3. \A c \in Client : c # tail => next'[c] = next[c]
        BY <1>7, <4>1 DEF EnqueueLink, TypeOK
      <4>4. \A c \in Client : InList(c)' => next'[c] = IF c = LastLinked' THEN NULL ELSE c + 1
        BY <3>3, <3>5, <4>1, <4>2, <4>3 DEF TypeOK, ListInv, InList
      <4>5. \A c \in Client : c \in node' <=> InList(c)' \/ Freeing(c)'
        BY <1>7, <3>1, <3>3, <3>5, <4>1 DEF EnqueueLink, TypeOK, ListInv, InList, Freeing
      <4> QED
        BY <1>7, <3>1, <3>3, <4>1, <4>4, <4>5 DEF EnqueueLink, TypeOK, ListInv, Freeing
    <3> QED
      BY <3>4, <3>5
  <2>4. TailInv'
    BY <1>7 DEF EnqueueLink, TypeOK, MutexInv, CountInv, ListInv, TailInv, HoldingInv, LastLinked, InList, Freeing, Taken
  <2>5. HoldingInv'
    BY <1>7 DEF EnqueueLink, TypeOK, MutexInv, CountInv, ListInv, TailInv, HoldingInv, LastLinked, InList, Freeing, Taken
  <2> QED
    BY <2>1, <2>2, <2>3, <2>4, <2>5
<1>8. CASE EnqueueTail
  <2>1. TypeOK'
    BY <1>8 DEF EnqueueTail, NewTail, TypeOK, CountInv
  <2>2. (MutexInv /\ CountInv)'
    BY <1>8 DEF EnqueueTail, NewTail, TypeOK, MutexInv, CountInv
  <2>3. ListInv'
    BY <1>8 DEF EnqueueTail, NewTail, TypeOK, MutexInv, CountInv, ListInv, TailInv, HoldingInv, LastLinked, InList, Freeing, Taken
  <2>4. TailInv'
    BY <1>8 DEF EnqueueTail, NewTail, TypeOK, MutexInv, CountInv, ListInv, TailInv, HoldingInv, LastLinked, InList, Freeing, Taken
  <2>5. HoldingInv'
    BY <1>8 DEF EnqueueTail, NewTail, TypeOK, MutexInv, CountInv, ListInv, TailInv, HoldingInv, LastLinked, InList, Freeing, Taken
  <2> QED
    BY <2>1, <2>2, <2>3, <2>4, <2>5
<1>9. CASE MainUnlock
  <2>1. TypeOK'
    BY <1>9 DEF MainUnlock, Release, TypeOK, CountInv
  <2>2. (MutexInv /\ CountInv)'
    BY <1>9 DEF MainUnlock, Release, TypeOK, MutexInv, CountInv
  <2>3. ListInv'
    BY <1>9 DEF MainUnlock, Release, TypeOK, MutexInv, CountInv, ListInv, TailInv, HoldingInv, LastLinked, InList, Freeing, Taken
  <2>4. TailInv'
    BY <1>9 DEF MainUnlock, Release, TypeOK, MutexInv, CountInv, ListInv, TailInv, HoldingInv, LastLinked, InList, Freeing, Taken
  <2>5. HoldingInv'
    BY <1>9 DEF MainUnlock, Release, TypeOK, MutexInv, CountInv, ListInv, TailInv, HoldingInv, LastLinked, InList, Freeing, Taken
  <2> QED
    BY <2>1, <2>2, <2>3, <2>4, <2>5
<1>10. CASE Join
  BY <1>10 DEF Join, TypeOK, MutexInv, CountInv, ListInv, TailInv, HoldingInv, LastLinked, InList, Freeing, Taken
<1>11. CASE WriteCreds
  BY <1>11 DEF WriteCreds, TypeOK, MutexInv, CountInv, ListInv, TailInv, HoldingInv, LastLinked, InList, Freeing, Taken
<1>12. ASSUME NEW w \in Worker, WorkerLoop(w) PROVE PoolInv'
  BY <1>12 DEF WorkerLoop, TypeOK, MutexInv, CountInv, ListInv, TailInv, HoldingInv, LastLinked, InList, Freeing, Taken
<1>13. ASSUME NEW w \in Worker, WorkerLock(w) PROVE PoolInv'
  <2>1. TypeOK'
    BY <1>13 DEF WorkerLock, Acquire, TypeOK
  <2>2. (MutexInv /\ CountInv)'
    BY <1>13 DEF WorkerLock, Acquire, TypeOK, MutexInv, CountInv
  <2>3. ListInv'
    BY <1>13 DEF WorkerLock, Acquire, TypeOK, MutexInv, CountInv, ListInv, TailInv, HoldingInv, LastLinked, InList, Freeing, Taken
  <2>4. TailInv'
    BY <1>13 DEF WorkerLock, Acquire, TypeOK, MutexInv, CountInv, ListInv, TailInv, HoldingInv, LastLinked, InList, Freeing, Taken
  <2>5. HoldingInv'
    BY <1>13 DEF WorkerLock, Acquire, TypeOK, MutexInv, CountInv, ListInv, TailInv, HoldingInv, LastLinked, InList, Freeing, Taken
  <2> QED
    BY <2>1, <2>2, <2>3, <2>4, <2>5
<1>14. ASSUME NEW w \in Worker, DequeueEmpty(w) PROVE PoolInv'
  <2>1. TypeOK'
    BY <1>14 DEF DequeueEmpty, TypeOK
  <2>2. (MutexInv /\ CountInv)'
    BY <1>14 DEF DequeueEmpty, TypeOK, MutexInv, CountInv
  <2>3. ListInv'
    BY <1>14 DEF DequeueEmpty, TypeOK, MutexInv, CountInv, ListInv, TailInv, HoldingInv, LastLinked, InList, Freeing, Taken
  <2>4. TailInv'
    BY <1>14 DEF DequeueEmpty, TypeOK, MutexInv, CountInv, ListInv, TailInv, HoldingInv, LastLinked, InList, Freeing, Taken
  <2>5. HoldingInv'
    BY <1>14 DEF DequeueEmpty, TypeOK, MutexInv, CountInv, ListInv, TailInv, HoldingInv, LastLinked, InList, Freeing, Taken
  <2> QED
    BY <2>1, <2>2, <2>3, <2>4, <2>5
<1>15. ASSUME NEW w \in Worker, DequeueHead(w) PROVE PoolInv'
  <2>1. TypeOK'
    BY <1>15 DEF DequeueHead, TypeOK, CountInv
  <2>2. (MutexInv /\ CountInv)'
    BY <1>15 DEF DequeueHead, TypeOK, MutexInv, CountInv
  <2>3. ListInv'
    BY <1>15 DEF DequeueHead, TypeOK, MutexInv, CountInv, ListInv, TailInv, HoldingInv, LastLinked, InList, Freeing, Taken
  <2>4. TailInv'
    BY <1>15 DEF DequeueHead, TypeOK, MutexInv, CountInv, ListInv, TailInv, HoldingInv, LastLinked, InList, Freeing, Taken
  <2>5. HoldingInv'
    BY <1>15 DEF DequeueHead, TypeOK, MutexInv, CountInv, ListInv, TailInv, HoldingInv, LastLinked, InList, Freeing, Taken
  <2> QED
    BY <2>1, <2>2, <2>3, <2>4, <2>5
<1>16. ASSUME NEW w \in Worker, DequeueFree(w) PROVE PoolInv'
  <2>1. TypeOK'
    BY <1>16 DEF DequeueFree, DequeueTail, TypeOK, HoldingInv
  <2>2. (MutexInv /\ CountInv)'
    BY <1>16 DEF DequeueFree, DequeueTail, TypeOK, MutexInv, CountInv
  <2>3. ListInv'
    BY <1>16 DEF DequeueFree, DequeueTail, TypeOK, MutexInv, CountInv, ListInv, TailInv, HoldingInv, LastLinked, InList, Freeing, Taken
  <2>4. TailInv'
    BY <1>16 DEF DequeueFree, DequeueTail, TypeOK, MutexInv, CountInv, ListInv, TailInv, HoldingInv, LastLinked, InList, Freeing, Taken
  <2>5. HoldingInv'
    BY <1>16 DEF DequeueFree, DequeueTail, TypeOK, MutexInv, CountInv, ListInv, TailInv, HoldingInv, LastLinked, InList, Freeing, Taken
  <2> QED
    BY <2>1, <2>2, <2>3, <2>4, <2>5
<1>17. ASSUME NEW w \in Worker, WorkerUnlock(w) PROVE PoolInv'
  <2>1. TypeOK'
    BY <1>17 DEF WorkerUnlock, Release, AfterUnlock, TypeOK
  <2>2. (MutexInv /\ CountInv)'
    BY <1>17 DEF WorkerUnlock, Release, AfterUnlock, TypeOK, MutexInv, CountInv
  <2>3. ListInv'
    BY <1>17 DEF WorkerUnlock, Release, AfterUnlock, TypeOK, MutexInv, CountInv, ListInv, TailInv, HoldingInv, LastLinked, InList, Freeing, Taken
  <2>4. TailInv'
    BY <1>17 DEF WorkerUnlock, Release, AfterUnlock, TypeOK, MutexInv, CountInv, ListInv, TailInv, HoldingInv, LastLinked, InList, Freeing, Taken
  <2>5. HoldingInv'
    BY <1>17 DEF WorkerUnlock, Release, AfterUnlock, TypeOK, MutexInv, CountInv, ListInv, TailInv, HoldingInv, LastLinked, InList, Freeing, Taken
  <2> QED
    BY <2>1, <2>2, <2>3, <2>4, <2>5
<1>18. ASSUME NEW w \in Worker, ServeLoop(w) PROVE PoolInv'
  BY <1>18 DEF ServeLoop, TypeOK, MutexInv, CountInv, ListInv, TailInv, HoldingInv, LastLinked, InList, Freeing, Taken
<1>19. ASSUME NEW w \in Worker, RecvOpcode(w) PROVE PoolInv'
  BY <1>19 DEF RecvOpcode, TypeOK, MutexInv, CountInv, ListInv, TailInv, HoldingInv, LastLinked, InList, Freeing, Taken
<1>20. ASSUME NEW w \in Worker, RecvEnds(w) PROVE PoolInv'
  BY <1>20 DEF RecvEnds, TypeOK, MutexInv, CountInv, ListInv, TailInv, HoldingInv, LastLinked, InList, Freeing, Taken
<1>21. ASSUME NEW w \in Worker, HandlerStep(w) PROVE PoolInv'
  <2>1. CASE HandleRequest(w)
    BY <2>1 DEF HandleRequest, TypeOK, MutexInv, CountInv, ListInv, TailInv, HoldingInv, LastLinked, InList, Freeing, Taken
  <2>2. CASE HandlerKills(w)
    BY <2>2 DEF HandlerKills, TypeOK, MutexInv, CountInv, ListInv, TailInv, HoldingInv, LastLinked, InList, Freeing, Taken
  <2> QED
    BY <1>21, <2>1, <2>2 DEF HandlerStep
<1>22. ASSUME NEW w \in Worker, FreeClient(w) PROVE PoolInv'
  <2>1. TypeOK'
    <3>1. UNCHANGED <<quit, killed, backlog, mutex, peer, mainVars, queueVars>>
      BY <1>22 DEF FreeClient, WorkerGoto
    <3>2. pc' \in [Worker -> WorkerPc]
      BY <1>22 DEF FreeClient, TypeOK, WorkerGoto, WorkerPc
    <3>3. held[w] \in Client
      BY <1>22 DEF FreeClient, TypeOK, HoldingInv, WorkerGoto
    <3>4. held' \in [Worker -> Client \cup {NULL}] /\ finished' \in SUBSET Client
      BY <1>22, <3>3 DEF FreeClient, TypeOK
    <3> QED
      BY <3>1, <3>2, <3>4 DEF TypeOK, mainVars, queueVars
  <2>2. (MutexInv /\ CountInv)'
    BY <1>22 DEF FreeClient, TypeOK, MutexInv, CountInv
  <2>3. ListInv'
    BY <1>22 DEF FreeClient, TypeOK, MutexInv, CountInv, ListInv, TailInv, HoldingInv, LastLinked, InList, Freeing, Taken
  <2>4. TailInv'
    BY <1>22 DEF FreeClient, TypeOK, MutexInv, CountInv, ListInv, TailInv, HoldingInv, LastLinked, InList, Freeing, Taken
  <2>5. HoldingInv'
    BY <1>22 DEF FreeClient, TypeOK, MutexInv, CountInv, ListInv, TailInv, HoldingInv, LastLinked, InList, Freeing, Taken
  <2> QED
    BY <2>1, <2>2, <2>3, <2>4, <2>5
<1>23. CASE Connect
  BY <1>23 DEF Connect, TypeOK, MutexInv, CountInv, ListInv, TailInv, HoldingInv, LastLinked, InList, Freeing, Taken
<1>24. ASSUME NEW c \in Client, HangUp(c) PROVE PoolInv'
  BY <1>24 DEF HangUp, TypeOK, MutexInv, CountInv, ListInv, TailInv, HoldingInv, LastLinked, InList, Freeing, Taken
<1>25. ASSUME NEW t \in Worker \cup {Main}, Interrupt(t) PROVE PoolInv'
  <2>1. TypeOK'
    BY <1>25 DEF Interrupt, TypeOK
  <2>2. (MutexInv /\ CountInv)'
    BY <1>25 DEF Interrupt, TypeOK, MutexInv, CountInv
  <2>3. ListInv'
    BY <1>25 DEF Interrupt, TypeOK, MutexInv, CountInv, ListInv, TailInv, HoldingInv, LastLinked, InList, Freeing, Taken
  <2>4. TailInv'
    BY <1>25 DEF Interrupt, TypeOK, MutexInv, CountInv, ListInv, TailInv, HoldingInv, LastLinked, InList, Freeing, Taken
  <2>5. HoldingInv'
    BY <1>25 DEF Interrupt, TypeOK, MutexInv, CountInv, ListInv, TailInv, HoldingInv, LastLinked, InList, Freeing, Taken
  <2> QED
    BY <2>1, <2>2, <2>3, <2>4, <2>5
<1>26. CASE UNCHANGED vars
  BY <1>26 DEF vars, TypeOK, MutexInv, CountInv, ListInv, TailInv, HoldingInv, LastLinked, InList, Freeing, Taken
<1> QED
  BY <1>1, <1>2, <1>3, <1>4, <1>5, <1>6, <1>7, <1>8, <1>9, <1>10, <1>11, <1>12, <1>13, <1>14, <1>15, <1>16, <1>17, <1>18, <1>19, <1>20, <1>21, <1>22, <1>23, <1>24, <1>25, <1>26
  DEF Next, MainStep, WorkerStep, Environment, Exited

\* Type correctness and the inductive invariant hold in every reachable state.
THEOREM PoolInvariant == Spec => []PoolInv
BY PoolInvInit, PoolInvNext, PTL DEF Spec

\* The variables stay in their types; main and the workers are in no other place
\* of their programs, and free descriptors are never fewer than none.
THEOREM PoolTypes == Spec => []TypeOK
<1>1. PoolInv => TypeOK
  BY DEF PoolInv
<1> QED
  BY <1>1, PoolInvariant, PTL

-----------------------------------------------------------------------------
\* Under the invariant the linked list is the interval from head to LastLinked.
LEMMA LinkedIsInterval == PoolInv => Linked = {c \in Client : InList(c)}
<1> SUFFICES ASSUME PoolInv PROVE Linked = {c \in Client : InList(c)}
  OBVIOUS
<1> USE WorkerPoolAssumption DEF PoolInv, Client, NULL
<1>1. ASSUME NEW c \in Linked PROVE c \in Client /\ InList(c)
  <2>1. c \in Client /\ c \in node
    BY DEF Linked, TypeOK
  <2>2. CASE c = head
    BY <2>1, <2>2 DEF ListInv, InList
  <2>3. ASSUME NEW p \in node, next[p] = c PROVE InList(c)
    <3>1. p \in Client
      BY DEF TypeOK
    <3>2. CASE InList(p)
      BY <2>1, <2>3, <3>1, <3>2 DEF ListInv, InList, LastLinked, TypeOK
    <3>3. CASE mpc = "link" /\ p = sid
      BY <2>1, <2>3, <3>3 DEF ListInv
    <3>4. CASE Freeing(p)
      BY <2>1, <2>3, <3>4 DEF Freeing, ListInv, InList
    <3> QED
      BY <3>1, <3>2, <3>3, <3>4 DEF ListInv
  <2> QED
    BY <2>1, <2>2, <2>3 DEF Linked
<1>2. ASSUME NEW c \in Client, InList(c) PROVE c \in Linked
  <2>1. c \in node
    BY <1>2 DEF ListInv
  <2>2. CASE c = head
    BY <2>1, <2>2 DEF Linked
  <2>3. CASE c # head
    <3>1. c - 1 \in Client /\ InList(c - 1) /\ c - 1 # LastLinked
      BY <1>2, <2>3 DEF InList, TypeOK, LastLinked
    <3>2. c - 1 \in node /\ next[c - 1] = c
      BY <3>1 DEF ListInv
    <3> QED
      BY <2>1, <3>2 DEF Linked
  <2> QED
    BY <2>2, <2>3
<1> QED
  BY <1>1, <1>2

\* Two workers never hold one connection, nor one that is queued or over.
THEOREM ExclusiveServiceHolds == Spec => []ExclusiveService
<1>1. PoolInv => ExclusiveService
  <2> SUFFICES ASSUME PoolInv PROVE ExclusiveService
    OBVIOUS
  <2>1. Held \cap finished = {}
    BY DEF PoolInv, HoldingInv, Held
  <2>2. ASSUME NEW w \in Worker, held[w] # NULL PROVE held[w] \notin Linked
    <3>1. held[w] \in Client
      BY <2>2 DEF PoolInv, TypeOK
    <3>2. Taken(held[w])
      BY <3>1 DEF PoolInv, HoldingInv
    <3> QED
      BY <3>1, <3>2, LinkedIsInterval DEF Taken, InList, Client, PoolInv, TypeOK, NULL
  <2> QED
    BY <2>1, <2>2 DEF PoolInv, HoldingInv, ExclusiveService, Held
<1> QED
  BY <1>1, PoolInvariant, PTL

\* No accepted connection is lost between accept and free.
THEOREM NoClientLostHolds == Spec => []NoClientLost
<1>1. PoolInv => NoClientLost
  <2> SUFFICES ASSUME PoolInv, NEW c \in 1 .. sid - 1 PROVE c \in Linked \cup Held \cup finished
    BY DEF NoClientLost
  <2>1. c \in Client /\ c <= LastLinked
    BY WorkerPoolAssumption DEF PoolInv, TypeOK, Client, LastLinked
  <2>2. CASE InList(c)
    BY <2>1, <2>2, LinkedIsInterval
  <2>3. CASE ~InList(c)
    <3>1. Taken(c)
      BY <2>1, <2>3, WorkerPoolAssumption DEF InList, Taken, Client, PoolInv, TypeOK, NULL
    <3>2. c # NULL
      BY <2>1 DEF Client, NULL
    <3> QED
      BY <2>1, <3>1, <3>2 DEF PoolInv, HoldingInv, Held
  <2> QED
    BY <2>2, <2>3
<1> QED
  BY <1>1, PoolInvariant, PTL

\* Whenever nobody holds the mutex the linked list is whole.
THEOREM QueueShapeHolds == Spec => []QueueShape
<1>1. PoolInv => QueueShape
  <2> SUFFICES ASSUME PoolInv, mutex = Nobody PROVE QueueShape!2
    BY DEF QueueShape
  <2> USE WorkerPoolAssumption DEF PoolInv, Client, NULL
  <2>1. mpc \notin MainLocked /\ \A w \in Worker : pc[w] # "freenode"
    BY DEF MutexInv, WorkerLocked
  <2>2. tail = IF head = NULL THEN NULL ELSE LastLinked
    BY <2>1 DEF TailInv, MainLocked
  <2>3. \A c \in Client : c \in node <=> InList(c)
    BY <2>1 DEF ListInv, Freeing, MainLocked
  <2>4. node = Linked
    BY <2>3, LinkedIsInterval DEF TypeOK
  <2>5. \A p \in node : IF p = tail THEN next[p] = NULL ELSE next[p] \in node
    BY <2>2, <2>3 DEF ListInv, InList, TypeOK, LastLinked
  <2>6. head = NULL <=> tail = NULL
    BY <2>2 DEF ListInv, TypeOK, LastLinked
  <2>7. head # NULL => {head, tail} \subseteq node
    BY <2>2, <2>3, <2>6 DEF ListInv, InList, TypeOK, LastLinked
  <2> QED
    BY <2>4, <2>5, <2>6, <2>7
<1> QED
  BY <1>1, PoolInvariant, PTL

-----------------------------------------------------------------------------
\* The refinement: linking a node submits its connection, moving head takes the
\* oldest, free(pclient) finishes; every other step leaves the promise alone.
THEOREM WorkerPoolRefinesClientDispatch == Spec => DispatchesInOrder
<1>1. Init => Dispatch!Init
  <2> SUFFICES ASSUME Init PROVE Dispatch!Init
    OBVIOUS
  <2>1. Linked = {}
    BY DEF Init, Linked
  <2> QED
    BY <2>1 DEF Init, Dispatch!Init, Dispatch!NULL, NULL
<1>2. (PoolInv => Linked = {c \in Client : InList(c)})'
  BY LinkedIsInterval, PTL
<1>3. PoolInv /\ PoolInv' /\ [Next]_vars => [Dispatch!Next]_(Dispatch!vars)
  <2> SUFFICES ASSUME PoolInv, PoolInv', [Next]_vars
               PROVE  Dispatch!Next \/ UNCHANGED <<Linked, held, finished>>
    BY DEF Dispatch!vars
  <2> USE WorkerPoolAssumption
      DEF Client, NULL, Dispatch!Client, Dispatch!NULL,
          mainVars, queueVars, workVars, MainGoto, WorkerGoto
  <2> DEFINE Interval == {c \in Client : InList(c)}
  <2>1. Linked = Interval /\ Linked' = Interval'
    BY <1>2, LinkedIsInterval
  <2>2. CASE EnqueueLink
    <3>1. LastLinked = sid - 1 /\ LastLinked' = sid /\ sid \in Client
      BY <2>2 DEF EnqueueLink, LastLinked, PoolInv, CountInv, TypeOK, MainLocked
    <3>2. head' = IF tail = NULL THEN sid ELSE head
      BY <2>2 DEF EnqueueLink
    <3>3. tail = NULL <=> head = NULL
      <4>1. \A w \in Worker : pc[w] # "freenode"
        BY <2>2 DEF EnqueueLink, PoolInv, MutexInv, MainLocked, WorkerLocked
      <4> QED
        BY <2>2, <3>1, <4>1 DEF EnqueueLink, PoolInv, TailInv, ListInv, TypeOK
    <3>4. Interval' = Interval \cup {sid}
      BY <3>1, <3>2, <3>3 DEF InList, PoolInv, ListInv, TypeOK
    <3>5. ASSUME NEW d \in Client, Dispatch!Known(d) PROVE d < sid
      <4>1. CASE InList(d)
        BY <3>1, <4>1 DEF InList, PoolInv, TypeOK
      <4>2. CASE Taken(d)
        BY <3>1, <4>2 DEF Taken, PoolInv, TypeOK
      <4> QED
        BY <2>1, <3>5, <4>1, <4>2 DEF Dispatch!Known, PoolInv, HoldingInv
    <3>6. UNCHANGED <<held, finished>>
      BY <2>2 DEF EnqueueLink
    <3>7. Dispatch!Submit(sid)
      BY <2>1, <3>4, <3>5, <3>6 DEF Dispatch!Submit
    <3> QED
      BY <3>1, <3>7 DEF Dispatch!Next
  <2>3. ASSUME NEW w \in Worker, DequeueHead(w) PROVE Dispatch!Next
    <3>1. head \in Client /\ InList(head) /\ held[w] = NULL
      BY <2>3 DEF DequeueHead, InList, PoolInv, TypeOK, ListInv, HoldingInv
    <3>2. LastLinked' = LastLinked /\ LastLinked \in Int
      BY <2>3 DEF DequeueHead, LastLinked, PoolInv, TypeOK
    <3>3. head' = IF head = LastLinked THEN NULL ELSE head + 1
      BY <2>3, <3>1 DEF DequeueHead, PoolInv, ListInv
    <3>4. Interval' = Interval \ {head}
      BY <3>1, <3>2, <3>3 DEF InList, PoolInv, TypeOK, ListInv
    <3>5. held' = [held EXCEPT ![w] = head] /\ finished' = finished
      BY <2>3 DEF DequeueHead
    <3>6. \A d \in Linked : head <= d
      BY <2>1 DEF InList
    <3>7. Dispatch!Take(w, head)
      BY <2>1, <3>1, <3>4, <3>5, <3>6 DEF Dispatch!Take
    <3> QED
      BY <3>1, <3>7 DEF Dispatch!Next
  <2>4. ASSUME NEW w \in Worker, FreeClient(w) PROVE Dispatch!Next
    <3>1. held[w] # NULL
      BY <2>4 DEF FreeClient, PoolInv, HoldingInv
    <3>2. Linked' = Linked
      BY <2>4 DEF FreeClient, Linked
    <3>3. Dispatch!Finish(w)
      BY <2>4, <3>1, <3>2 DEF FreeClient, Dispatch!Finish
    <3> QED
      BY <3>3 DEF Dispatch!Next
  <2>5. CASE MainUnlock
    BY <2>1, <2>5 DEF MainUnlock, InList, LastLinked, PoolInv, TypeOK
  <2>6. CASE EnqueueAlloc
    BY <2>1, <2>6 DEF EnqueueAlloc, InList, LastLinked, PoolInv, TypeOK
  <2>7. CASE EnqueueTail
    BY <2>1, <2>7 DEF EnqueueTail, NewTail, InList, LastLinked, PoolInv, TypeOK
  <2>8. CASE \/ MainLoop \/ AcceptClient \/ AcceptOutOfMemory \/ AcceptFails
             \/ MainLock \/ Join \/ WriteCreds
    BY <2>8 DEF MainLoop, AcceptClient, AcceptOutOfMemory, AcceptFails, MainLock, Join,
                WriteCreds, Linked
  <2>9. ASSUME NEW w \in Worker, DequeueFree(w) PROVE UNCHANGED <<Linked, held, finished>>
    BY <2>1, <2>9 DEF DequeueFree, InList, LastLinked
  <2>10. ASSUME NEW w \in Worker,
                \/ WorkerLoop(w) \/ WorkerLock(w) \/ DequeueEmpty(w) \/ WorkerUnlock(w)
                \/ ServeLoop(w) \/ RecvOpcode(w) \/ RecvEnds(w) \/ HandlerStep(w)
         PROVE  UNCHANGED <<Linked, held, finished>>
    BY <2>10 DEF WorkerLoop, WorkerLock, DequeueEmpty, WorkerUnlock, ServeLoop, RecvOpcode,
                 RecvEnds, HandlerStep, HandleRequest, HandlerKills, workVars, queueVars, Linked
  <2>11. CASE Environment \/ Exited \/ UNCHANGED vars
    BY <2>11 DEF Environment, Connect, HangUp, Interrupt, Exited, vars, Linked
  <2> QED
    BY <2>2, <2>3, <2>4, <2>5, <2>6, <2>7, <2>8, <2>9, <2>10, <2>11
    DEF Next, MainStep, WorkerStep
<1> QED
  BY <1>1, <1>3, PoolInvariant, PTL DEF Spec, DispatchesInOrder, Dispatch!Spec
=============================================================================
