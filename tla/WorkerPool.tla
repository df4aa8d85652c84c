----------------------------- MODULE WorkerPool -----------------------------
(***************************************************************************)
(* The accept loop of the chat server (server.c, main), the linked queue   *)
(* of accepted connections (pool_queue.c) and the pool of worker threads   *)
(* (chat.c, thread_function and the loop of handle_connection).            *)
(*                                                                         *)
(* Every access to head, tail and a node's next field is a step of its     *)
(* own: the mutex, and nothing else, keeps them from interleaving.  The    *)
(* one-second sleep of a worker is a delay and is left out; the effect of  *)
(* a request on users, files and lobbies belongs to the modules that model *)
(* them.  Here a handler ends (HandleRequest), or brings the whole process *)
(* down (HandlerKills), or does neither and stays where it is: which       *)
(* requests do what, those modules say.                                    *)
(*                                                                         *)
(* A connection is named by the session_id main gives it, 1, 2, 3...; 0 is *)
(* the NULL pointer.                                                       *)
(***************************************************************************)
EXTENDS Integers, FiniteSets

CONSTANTS
  Worker,      \* the threads of thread_pool
  Main,        \* the thread that runs main
  Nobody,      \* the owner of an unlocked mutex
  MaxConn,     \* bound: connections the clients open in all
  MaxFds,      \* descriptors the process may hold for accepted sockets
  HasTimeout   \* the -t option is not 0: SO_RCVTIMEO is set

ASSUME WorkerPoolAssumption ==
  /\ Main \notin Worker
  /\ Nobody \notin Worker \cup {Main}
  /\ MaxConn \in Nat
  /\ MaxFds \in Nat
  /\ HasTimeout \in BOOLEAN

Client == 1 .. MaxConn
NULL == 0

VARIABLES
  quit,      \* the flag the SIGINT handler sets
  killed,    \* a signal other than SIGINT has ended the process
  mpc,       \* where main is
  sid,       \* main's session_id: the name of the next connection
  backlog,   \* connections the kernel holds for accept
  fds,       \* accepted sockets: the server never closes one
  saved,     \* accounts.txt has been rewritten by write_creds
  mutex,     \* who holds the mutex
  head, tail,
  next,      \* next field of the node of each connection
  node,      \* the nodes that are allocated
  pc,        \* where each worker is
  held,      \* pclient of each worker
  finished,  \* connections whose client_info has been freed
  peer       \* the clients that have not hung up

mainVars  == <<mpc, sid, fds, saved>>
queueVars == <<head, tail, next, node>>
workVars  == <<pc, held, finished>>
vars == <<quit, killed, backlog, mutex, peer, mainVars, queueVars, workVars>>

MainPc   == {"while", "accept", "lock", "alloc", "link", "tail", "unlock",
             "join", "write", "exit"}
WorkerPc == {"while", "lock", "dequeue", "freenode", "unlock",
             "serve", "recv", "handle", "free", "done"}

TypeOK ==
  /\ quit \in BOOLEAN
  /\ killed \in BOOLEAN
  /\ mpc \in MainPc
  /\ sid \in 1 .. MaxConn + 1
  /\ backlog \in Nat
  /\ fds \in 0 .. MaxFds
  /\ saved \in BOOLEAN
  /\ mutex \in Worker \cup {Main, Nobody}
  /\ head \in Client \cup {NULL}
  /\ tail \in Client \cup {NULL}
  /\ next \in [Client -> Client \cup {NULL}]
  /\ node \in SUBSET Client
  /\ pc \in [Worker -> WorkerPc]
  /\ held \in [Worker -> Client \cup {NULL}]
  /\ finished \in SUBSET Client
  /\ peer \in SUBSET Client

Init ==
  /\ quit = FALSE
  /\ killed = FALSE
  /\ mpc = "while"
  /\ sid = 1
  /\ backlog = 0
  /\ fds = 0
  /\ saved = FALSE
  /\ mutex = Nobody
  /\ head = NULL
  /\ tail = NULL
  /\ next = [c \in Client |-> NULL]
  /\ node = {}
  /\ pc = [w \in Worker |-> "while"]
  /\ held = [w \in Worker |-> NULL]
  /\ finished = {}
  /\ peer = {}

-----------------------------------------------------------------------------
(* The mutex of server.c, taken around enqueue and around dequeue.          *)

\* Mutant: the lock is not waited for
AcquireUnchecked(t) == mutex' = t

Acquire(t) == mutex = Nobody /\ mutex' = t
Release    == mutex' = Nobody

-----------------------------------------------------------------------------
(* main *)

MainGoto(from, to) == ~killed /\ mpc = from /\ mpc' = to /\ UNCHANGED killed

\* while (!quit)
MainLoop ==
  /\ MainGoto("while", IF quit THEN "join" ELSE "accept")
  /\ UNCHANGED <<quit, backlog, mutex, peer, sid, fds, saved, queueVars, workVars>>

\* accept returns a socket and calloc a client_info, which gets the number sid
AcceptClient ==
  /\ backlog > 0
  /\ fds < MaxFds
  /\ MainGoto("accept", "lock")
  /\ backlog' = backlog - 1
  /\ fds' = fds + 1
  /\ peer' = peer \cup {sid}
  /\ UNCHANGED <<quit, mutex, sid, saved, queueVars, workVars>>

\* accept returns a socket and calloc fails: the socket is forgotten
AcceptOutOfMemory ==
  /\ backlog > 0
  /\ fds < MaxFds
  /\ MainGoto("accept", "while")
  /\ backlog' = backlog - 1
  /\ fds' = fds + 1
  /\ UNCHANGED <<quit, mutex, peer, sid, saved, queueVars, workVars>>

\* accept returns -1: no descriptor is left, or nobody came within SO_RCVTIMEO
AcceptCannot == fds = MaxFds \/ (HasTimeout /\ backlog = 0)
AcceptFails ==
  /\ AcceptCannot
  /\ MainGoto("accept", "join")
  /\ UNCHANGED <<quit, backlog, mutex, peer, sid, fds, saved, queueVars, workVars>>

MainLock ==
  /\ MainGoto("lock", "alloc")
  /\ Acquire(Main)
  /\ UNCHANGED <<quit, backlog, peer, sid, fds, saved, queueVars, workVars>>

\* enqueue: newnode->client_socket = client, newnode->next = NULL
EnqueueAlloc ==
  /\ MainGoto("alloc", "link")
  /\ node' = node \cup {sid}
  /\ next' = [next EXCEPT ![sid] = NULL]
  /\ UNCHANGED <<quit, backlog, mutex, peer, sid, fds, saved, head, tail, workVars>>

\* Mutant: a new node goes to the front
EnqueueLinkFront ==
  /\ MainGoto("link", "tail")
  /\ head' = sid
  /\ next' = [next EXCEPT ![sid] = head]
  /\ UNCHANGED <<quit, backlog, mutex, peer, sid, fds, saved, tail, node, workVars>>

\* enqueue: head = newnode, or tail->next = newnode
EnqueueLink ==
  /\ MainGoto("link", "tail")
  /\ IF tail = NULL
       THEN head' = sid /\ next' = next
       ELSE head' = head /\ next' = [next EXCEPT ![tail] = sid]
  /\ UNCHANGED <<quit, backlog, mutex, peer, sid, fds, saved, tail, node, workVars>>

\* Mutant: tail moves only when the list was empty
NewTailStale == IF tail = NULL THEN sid ELSE tail

\* enqueue: tail = newnode
NewTail == sid
EnqueueTail ==
  /\ MainGoto("tail", "unlock")
  /\ tail' = NewTail
  /\ UNCHANGED <<quit, backlog, mutex, peer, sid, fds, saved, head, next, node, workVars>>

\* unlock, session_id++
MainUnlock ==
  /\ MainGoto("unlock", "while")
  /\ Release
  /\ sid' = sid + 1
  /\ UNCHANGED <<quit, backlog, peer, fds, saved, queueVars, workVars>>

\* pthread_join of every worker
Join ==
  /\ \A w \in Worker : pc[w] = "done"
  /\ MainGoto("join", "write")
  /\ UNCHANGED <<quit, backlog, mutex, peer, sid, fds, saved, queueVars, workVars>>

WriteCreds ==
  /\ MainGoto("write", "exit")
  /\ saved' = TRUE
  /\ UNCHANGED <<quit, backlog, mutex, peer, sid, fds, queueVars, workVars>>

-----------------------------------------------------------------------------
(* A worker *)

WorkerGoto(w, from, to) ==
  /\ ~killed /\ pc[w] = from
  /\ pc' = [pc EXCEPT ![w] = to]
  /\ UNCHANGED killed

\* while (!quit)
WorkerLoop(w) ==
  /\ WorkerGoto(w, "while", IF quit THEN "done" ELSE "lock")
  /\ UNCHANGED <<quit, backlog, mutex, peer, mainVars, queueVars, held, finished>>

WorkerLock(w) ==
  /\ WorkerGoto(w, "lock", "dequeue")
  /\ Acquire(w)
  /\ UNCHANGED <<quit, backlog, peer, mainVars, queueVars, held, finished>>

\* dequeue of an empty queue returns NULL
DequeueEmpty(w) ==
  /\ head = NULL
  /\ WorkerGoto(w, "dequeue", "unlock")
  /\ UNCHANGED <<quit, backlog, mutex, peer, mainVars, queueVars, held, finished>>

\* dequeue: result = head->client_socket, head = head->next
DequeueHead(w) ==
  /\ head # NULL
  /\ WorkerGoto(w, "dequeue", "freenode")
  /\ held' = [held EXCEPT ![w] = head]
  /\ head' = next[head]
  /\ UNCHANGED <<quit, backlog, mutex, peer, mainVars, tail, next, node, finished>>

\* Mutant: tail keeps pointing at the freed node
DequeueTailKept == tail

\* dequeue: tail = NULL when the list became empty, free(temp)
DequeueTail == IF head = NULL THEN NULL ELSE tail
DequeueFree(w) ==
  /\ WorkerGoto(w, "freenode", "unlock")
  /\ tail' = DequeueTail
  /\ node' = node \ {held[w]}
  /\ UNCHANGED <<quit, backlog, mutex, peer, mainVars, head, next, held, finished>>

\* if (pclient != NULL) handle_connection(pclient)
AfterUnlock(w) == IF held[w] = NULL THEN "while" ELSE "serve"
WorkerUnlock(w) ==
  /\ WorkerGoto(w, "unlock", AfterUnlock(w))
  /\ Release
  /\ UNCHANGED <<quit, backlog, peer, mainVars, queueVars, held, finished>>

\* Mutant: the loop of handle_connection does not look at quit
ServeLoopForever(w) ==
  /\ WorkerGoto(w, "serve", "recv")
  /\ UNCHANGED <<quit, backlog, mutex, peer, mainVars, queueVars, held, finished>>

\* while (!quit) of handle_connection; leaving it shuts the socket's reading side
ServeLoop(w) ==
  /\ WorkerGoto(w, "serve", IF quit THEN "free" ELSE "recv")
  /\ UNCHANGED <<quit, backlog, mutex, peer, mainVars, queueVars, held, finished>>

\* recv returns an opcode
RecvOpcode(w) ==
  /\ held[w] \in peer
  /\ WorkerGoto(w, "recv", "handle")
  /\ UNCHANGED <<quit, backlog, mutex, peer, mainVars, queueVars, held, finished>>

\* Mutant: the end of a connection is taken for an unknown opcode
RecvEndsIgnored(w) ==
  /\ held[w] \notin peer \/ HasTimeout
  /\ WorkerGoto(w, "recv", "serve")
  /\ UNCHANGED <<quit, backlog, mutex, peer, mainVars, queueVars, held, finished>>

\* recv returns 0, the client has gone, or -1, the receive timeout is over
RecvEnds(w) ==
  /\ held[w] \notin peer \/ HasTimeout
  /\ WorkerGoto(w, "recv", "free")
  /\ UNCHANGED <<quit, backlog, mutex, peer, mainVars, queueVars, held, finished>>

\* the operation the opcode names, or nothing for an opcode without one
HandleRequest(w) ==
  /\ WorkerGoto(w, "handle", "serve")
  /\ UNCHANGED <<quit, backlog, mutex, peer, mainVars, queueVars, held, finished>>

\* SIGPIPE, from a send to a client that has gone, or SIGSEGV, from a read
\* through NULL: nobody handles them, every thread is gone and every connection reset
HandlerKills(w) ==
  /\ ~killed
  /\ pc[w] = "handle"
  /\ killed' = TRUE
  /\ backlog' = 0 /\ peer' = {}
  /\ UNCHANGED <<quit, mutex, mainVars, queueVars, workVars>>

\* free(pclient); the descriptor stays open
FreeClient(w) ==
  /\ WorkerGoto(w, "free", "while")
  /\ finished' = finished \cup {held[w]}
  /\ held' = [held EXCEPT ![w] = NULL]
  /\ UNCHANGED <<quit, backlog, mutex, peer, mainVars, queueVars>>

-----------------------------------------------------------------------------
(* Clients and the operator *)

Connect ==
  /\ ~killed
  /\ fds + backlog < MaxConn
  /\ backlog' = backlog + 1
  /\ UNCHANGED <<quit, killed, mutex, peer, mainVars, queueVars, workVars>>

HangUp(c) ==
  /\ c \in peer
  /\ peer' = peer \ {c}
  /\ UNCHANGED <<quit, killed, backlog, mutex, mainVars, queueVars, workVars>>

\* SIGINT runs the handler in whichever thread the kernel picks, and, SA_RESTART
\* not being set, makes that thread's accept or opcode recv return -1.  A signal
\* after quit is set only interrupts; it is not modelled.
Interrupt(t) ==
  /\ ~quit /\ ~killed
  /\ mpc # "exit"
  /\ quit' = TRUE
  /\ mpc' = IF t = Main /\ mpc = "accept" THEN "join" ELSE mpc
  /\ pc' = [w \in Worker |-> IF t = w /\ pc[w] = "recv" THEN "free" ELSE pc[w]]
  /\ UNCHANGED <<killed, backlog, mutex, peer, sid, fds, saved, queueVars, held, finished>>

-----------------------------------------------------------------------------
MainStep ==
  \/ MainLoop \/ AcceptClient \/ AcceptOutOfMemory \/ AcceptFails
  \/ MainLock \/ EnqueueAlloc \/ EnqueueLink \/ EnqueueTail \/ MainUnlock
  \/ Join \/ WriteCreds

\* What a handler comes to, if to anything
HandlerStep(w) == HandleRequest(w) \/ HandlerKills(w)

WorkerStep(w) ==
  \/ WorkerLoop(w) \/ WorkerLock(w)
  \/ DequeueEmpty(w) \/ DequeueHead(w) \/ DequeueFree(w) \/ WorkerUnlock(w)
  \/ ServeLoop(w) \/ RecvOpcode(w) \/ RecvEnds(w) \/ HandlerStep(w)
  \/ FreeClient(w)

Environment ==
  \/ Connect
  \/ \E c \in Client : HangUp(c)
  \/ \E t \in Worker \cup {Main} : Interrupt(t)

\* The process has ended: the only state in which nothing has to happen any more
Exited == (mpc = "exit" \/ killed) /\ UNCHANGED vars

Next == MainStep \/ (\E w \in Worker : WorkerStep(w)) \/ Environment \/ Exited

Spec == Init /\ [][Next]_vars

(***************************************************************************)
(* Fairness.  The scheduler runs every thread that can run.  A thread that *)
(* waits for the mutex is not passed over for ever: the mutex is held for  *)
(* a few instructions, and whoever released it sleeps a second or waits in *)
(* a system call before it asks again.  No client is obliged to send       *)
(* anything, so RecvOpcode has no fairness; and a handler has none either, *)
(* since it may wait for the rest of a request, or, in a send that has no  *)
(* timeout, for a client that does not read.                               *)
(***************************************************************************)
OwnStep(w) ==
  \/ WorkerLoop(w) \/ DequeueEmpty(w) \/ DequeueHead(w) \/ DequeueFree(w)
  \/ WorkerUnlock(w) \/ ServeLoop(w) \/ RecvEnds(w) \/ FreeClient(w)

ThreadFairness ==
  /\ WF_vars(MainStep)
  /\ SF_vars(MainLock)
  /\ \A w \in Worker :
       /\ WF_vars(OwnStep(w))
       /\ SF_vars(WorkerLock(w))

FairSpec == Spec /\ ThreadFairness

-----------------------------------------------------------------------------
(* Properties *)

\* The connections in the linked list: head, and what the next field of a node
\* that has not been freed points at
Linked == {c \in node : c = head \/ \E p \in node : next[p] = c}

Held == {held[w] : w \in Worker} \ {NULL}

\* The queue and the pool hand every connection to one worker, once: two workers
\* never hold the same client_info, none holds one that has been freed, and
\* none holds one that another worker can still dequeue.
ExclusiveService ==
  /\ \A v, w \in Worker : v # w /\ held[v] # NULL => held[v] # held[w]
  /\ Held \cap finished = {}
  /\ Held \cap Linked = {}

\* No accepted connection gets lost between accept and free: once main has left
\* enqueue, it is in the list, or with a worker, or it has been served.
NoClientLost == 1 .. sid - 1 \subseteq Linked \cup Held \cup finished

\* Whenever the mutex is free the list is whole: head and tail are NULL
\* together, tail is the one node without a successor, every node has been
\* linked, and no pointer leads to a node that free() has taken back.
QueueShape ==
  mutex = Nobody =>
    /\ head = NULL <=> tail = NULL
    /\ node = Linked
    /\ \A p \in node : IF p = tail THEN next[p] = NULL ELSE next[p] \in node
    /\ head # NULL => {head, tail} \subseteq node

\* What the threads and the queue promise, without threads, mutex or list:
\* connections are served in the order in which they were accepted.
Dispatch == INSTANCE ClientDispatch
              WITH waiting <- Linked, serving <- held, served <- finished
DispatchesInOrder == Dispatch!Spec

(***************************************************************************)
(* The inductive invariant.  main numbers the connections in the order in  *)
(* which it links them, so the list is always an interval of numbers, and  *)
(* everything below it has been taken.                                     *)
(***************************************************************************)
MainLocked   == {"alloc", "link", "tail", "unlock"}
WorkerLocked == {"dequeue", "freenode", "unlock"}

MutexInv ==
  /\ mpc \in MainLocked <=> mutex = Main
  /\ \A w \in Worker : pc[w] \in WorkerLocked <=> mutex = w

\* The names given out are covered by accepted sockets
CountInv ==
  /\ fds + backlog <= MaxConn
  /\ sid <= fds + 1
  /\ mpc \in MainLocked \cup {"lock"} => sid <= fds

LastLinked == IF mpc \in {"tail", "unlock"} THEN sid ELSE sid - 1
InList(c)  == head # NULL /\ head <= c /\ c <= LastLinked
Freeing(c) == \E w \in Worker : pc[w] = "freenode" /\ held[w] = c

ListInv ==
  /\ head <= LastLinked
  /\ \A c \in Client : InList(c) => next[c] = IF c = LastLinked THEN NULL ELSE c + 1
  /\ \A c \in Client : c \in node <=> InList(c) \/ (mpc = "link" /\ c = sid) \/ Freeing(c)
  /\ mpc = "link" => next[sid] = NULL
  /\ \A w \in Worker : pc[w] = "freenode" => next[held[w]] = head

TailInv ==
  /\ mpc = "tail" => head # NULL /\ tail = IF head = sid THEN NULL ELSE sid - 1
  /\ \A w \in Worker : pc[w] = "freenode" => tail = LastLinked
  /\ mpc # "tail" /\ (\A w \in Worker : pc[w] # "freenode")
       => tail = IF head = NULL THEN NULL ELSE LastLinked

Taken(c) == c <= LastLinked /\ (head # NULL => c < head)
HoldingInv ==
  /\ \A c \in Client : Taken(c) <=> c \in finished \/ \E w \in Worker : held[w] = c
  /\ \A v, w \in Worker : v # w /\ held[v] # NULL => held[v] # held[w]
  /\ \A w \in Worker :
       /\ held[w] \notin finished
       /\ pc[w] \in {"freenode", "serve", "recv", "handle", "free"} => held[w] # NULL
       /\ pc[w] \in {"while", "lock", "dequeue", "done"} => held[w] = NULL

PoolInv == TypeOK /\ MutexInv /\ CountInv /\ ListInv /\ TailInv /\ HoldingInv

\* A handler ends, one way or the other, when its recv does, by the timeout or
\* because its client has gone: it is not held up for ever in a send to a client that
\* does not read, or in a list that two handlers have broken together.
HandlersEnd ==
  \A w \in Worker : WF_vars(HandlerStep(w) /\ (HasTimeout \/ held[w] \notin peer))

\* After SIGINT every worker leaves its loop, main joins them all, and the
\* accounts are written (server.c 97, 266-271), although clients owe nothing:
\* if no handler is held up for ever, and unless a handler ends the process.
ShutdownSavesAccounts == HandlersEnd => (quit ~> saved \/ killed)

\* If every client hangs up in the end and no handler is held up for ever, a connection
\* in the queue is given to a worker, or the server is told to stop or is killed.
QueuedIsServed ==
  HandlersEnd /\ (\A c \in Client : WF_vars(HangUp(c)))
    => \A c \in Client : c \in Linked ~> (c \in Held \/ quit \/ killed)
=============================================================================
