---------------------------- MODULE PriorityQueue ----------------------------
(***************************************************************************)
(* The priority queue of data_structures/graph/pqueue.c: an array kept in  *)
(* ascending order by insertion, whose top is its end.  Entries are the    *)
(* heap nodes of dijkstra.c, compared by dist.  A queue that takes several *)
(* entries is created for two at least: one of size 1 would write past its *)
(* array, because it grows only when a single place is left.               *)
(***************************************************************************)
EXTENDS Integers, Sequences, SequencesExt, FiniteSetsExt

CONSTANTS Entry       \* [v, dist]

ASSUME EntryAssumption == \A x \in Entry : x.dist \in Int

VARIABLES queue,      \* the entries, queue[0] first
          max_size,   \* the places of the array
          got         \* what the last dequeue, peek or find_data answered

pqVars == <<queue, max_size, got>>

num_comp(x, y) == x.dist - y.dist

(* Mutant: a new entry goes to the end.                                    *)
PlaceOfEnd(q, x) == Len(q) + 1

(* Where an entry ends up: behind the last one that is not greater.        *)
PlaceOf(q, x) == 1 + Max({0} \union {i \in DOMAIN q : num_comp(x, q[i]) >= 0})
Enqueued(q, x) == InsertAt(q, PlaceOf(q, x), x)

SizeFor(q, size) == IF Len(q) # 0 /\ Len(q) = size - 1 THEN size * 2 ELSE size

IsIn(q, x) == \E i \in DOMAIN q : num_comp(x, q[i]) = 0

create_pqueue(size) == queue = <<>> /\ max_size = size /\ got = <<>>

enqueue(x) ==
  /\ queue' = Enqueued(queue, x)
  /\ max_size' = SizeFor(queue, max_size)
  /\ UNCHANGED got

dequeue ==
  /\ queue # <<>>
  /\ got' = Last(queue)
  /\ queue' = Front(queue)
  /\ UNCHANGED max_size

peek ==
  /\ queue # <<>>
  /\ got' = Last(queue)
  /\ UNCHANGED <<queue, max_size>>

find_data(x) ==
  /\ got' = IsIn(queue, x)
  /\ UNCHANGED <<queue, max_size>>

QueueNext ==
  \/ dequeue \/ peek
  \/ \E x \in Entry : find_data(x) \/ enqueue(x)

QueueSpec(size) == create_pqueue(size) /\ [][QueueNext]_pqVars

-----------------------------------------------------------------------------
(* dequeue and peek rest on the order, and no entry is written past the    *)
(* array, whatever mixture of calls came before.                           *)
InOrder ==
  /\ \A i \in 1 .. Len(queue) - 1 : queue[i].dist <= queue[i + 1].dist
  /\ Len(queue) <= max_size
=============================================================================
