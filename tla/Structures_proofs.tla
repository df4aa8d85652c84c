-------------------------- MODULE Structures_proofs --------------------------
(***************************************************************************)
(* Proofs about the priority queue, the graph and the search on both, for  *)
(* any entries, any number of vertices, any weights and data pointers, and *)
(* about the AVL tree, for any keys and any number of nodes; each for any  *)
(* order of calls.                                                         *)
(***************************************************************************)
EXTENDS Dijkstra, AvlTree, TLAPS, SequenceTheorems, NaturalsInduction, WellFoundedInduction

(* A bounded set of numbers has a greatest.                                *)
LEMMA MaxProperties ==
  ASSUME NEW n \in Nat, NEW S \in SUBSET (0 .. n), S # {}
  PROVE  Max(S) \in S /\ \A j \in S : Max(S) >= j
<1> DEFINE R == {k \in 0 .. n : n - k \in S}
<1>1. R \in SUBSET Nat /\ R # {}
  <2>1. PICK j \in S : j \in 0 .. n
    OBVIOUS
  <2>2. n - j \in R
    BY <2>1
  <2>3. R \in SUBSET Nat
    OBVIOUS
  <2> HIDE DEF R
  <2> QED BY <2>2, <2>3
<1>2. \E x \in R : \A y \in R : <<y, x>> \notin OpToRel(<, Nat)
  BY <1>1, NatLessThanWellFounded, WFMin, Zenon
<1>3. PICK x \in R : \A y \in R : ~(y < x)
  BY <1>1, <1>2, Zenon DEF OpToRel
<1>4. PICK i \in S : x = n - i
  <2>1. x \in 0 .. n /\ n - x \in S /\ x = n - (n - x)
    OBVIOUS
  <2> QED BY <2>1
<1>5. \A j \in S : i >= j
  <2> SUFFICES ASSUME NEW j \in S PROVE i >= j
    OBVIOUS
  <2>1. n - j \in R /\ ~(n - j < n - i)
    BY <1>3, <1>4
  <2> QED BY <2>1
<1> HIDE DEF R
<1> QED BY <1>5 DEF Max

(* A set of numbers has a least.                                           *)
LEMMA MinProperties ==
  ASSUME NEW S \in SUBSET Nat, S # {}
  PROVE  Min(S) \in S /\ \A j \in S : Min(S) <= j
<1>1. \E x \in S : \A y \in S : <<y, x>> \notin OpToRel(<, Nat)
  BY NatLessThanWellFounded, WFMin, Zenon
<1>2. \E x \in S : \A y \in S : ~(y < x)
  BY <1>1, Zenon DEF OpToRel
<1>3. \E x \in S : \A y \in S : x <= y
  BY <1>2
<1> QED BY <1>3 DEF Min

(* Any part of a sequence, from one of its places on.                      *)
LEMMA PartProperties ==
  ASSUME NEW S, NEW q \in Seq(S), NEW i \in 1 .. Len(q) + 1, NEW j \in 0 .. Len(q), i <= j + 1
  PROVE  /\ SubSeq(q, i, j) \in Seq(S) /\ Len(SubSeq(q, i, j)) = j + 1 - i
         /\ \A k \in 1 .. j + 1 - i : SubSeq(q, i, j)[k] = q[i + k - 1]
<1>1. Len(q) \in Nat /\ \A k \in 1 .. Len(q) : q[k] \in S
  BY ElementOfSeq, LenProperties
<1>2. /\ SubSeq(q, i, j) \in Seq(S)
      /\ Len(SubSeq(q, i, j)) = IF i <= j THEN j - i + 1 ELSE 0
      /\ \A k \in 1 .. j - i + 1 : SubSeq(q, i, j)[k] = q[i + k - 1]
  BY <1>1, SubSeqProperties
<1> QED BY <1>1, <1>2

(* A sequence with an element more.                                        *)
LEMMA InsertAtProperties ==
  ASSUME NEW S, NEW q \in Seq(S), NEW x \in S, NEW i \in 1 .. Len(q) + 1
  PROVE  /\ InsertAt(q, i, x) \in Seq(S)
         /\ Len(InsertAt(q, i, x)) = Len(q) + 1
         /\ \A j \in 1 .. Len(q) + 1 :
              InsertAt(q, i, x)[j] = IF j < i THEN q[j] ELSE IF j = i THEN x ELSE q[j - 1]
<1> DEFINE front == SubSeq(q, 1, i - 1)
           mid   == <<x>>
           back  == SubSeq(q, i, Len(q))
<1>1. Len(q) \in Nat
  BY LenProperties
<1>2. front \in Seq(S) /\ Len(front) = i - 1 /\ \A j \in 1 .. i - 1 : front[j] = q[j]
  <2>1. \A a \in 1 .. Len(q) + 1, b \in 0 .. Len(q) : a <= b + 1 =>
          /\ SubSeq(q, a, b) \in Seq(S) /\ Len(SubSeq(q, a, b)) = b + 1 - a
          /\ \A k \in 1 .. b + 1 - a : SubSeq(q, a, b)[k] = q[a + k - 1]
    BY PartProperties
  <2>2. i - 1 \in 0 .. Len(q) /\ 1 \in 1 .. Len(q) + 1
    BY <1>1
  <2> QED BY <1>1, <2>1, <2>2
<1>3. back \in Seq(S) /\ Len(back) = Len(q) + 1 - i
      /\ \A j \in 1 .. Len(q) + 1 - i : back[j] = q[i + j - 1]
  BY <1>1, PartProperties
<1>4. mid \in Seq(S) /\ Len(mid) = 1 /\ mid[1] = x
  OBVIOUS
<1>5. InsertAt(q, i, x) = (front \o mid) \o back
  BY DEF InsertAt
<1> HIDE DEF front, mid, back
<1>6. /\ front \o mid \in Seq(S) /\ Len(front \o mid) = i
      /\ \A j \in 1 .. i : (front \o mid)[j] = IF j < i THEN q[j] ELSE x
  <2>1. /\ front \o mid \in Seq(S) /\ Len(front \o mid) = Len(front) + Len(mid)
        /\ \A j \in 1 .. Len(front) + Len(mid) :
             (front \o mid)[j] = IF j <= Len(front) THEN front[j] ELSE mid[j - Len(front)]
    BY <1>2, <1>4, ConcatProperties
  <2>2. ASSUME NEW j \in 1 .. i PROVE (front \o mid)[j] = IF j < i THEN q[j] ELSE x
    <3>0. (front \o mid)[j] = IF j <= i - 1 THEN front[j] ELSE mid[j - (i - 1)]
      BY <1>2, <1>4, <2>1
    <3>1. CASE j < i
      BY <1>2, <3>0, <3>1
    <3>2. CASE j = i
      <4>1. j - (i - 1) = 1 /\ ~(j <= i - 1) /\ ~(j < i)
        BY <3>2
      <4> QED BY <1>4, <3>0, <4>1
    <3>3. j < i \/ j = i
      OBVIOUS
    <3> QED BY <3>1, <3>2, <3>3
  <2> QED BY <1>2, <1>4, <2>1, <2>2
<1> DEFINE head == front \o mid
<1> HIDE DEF head
<1>7. /\ head \o back \in Seq(S) /\ Len(head \o back) = Len(head) + Len(back)
      /\ \A j \in 1 .. Len(head) + Len(back) :
           (head \o back)[j] = IF j <= Len(head) THEN head[j] ELSE back[j - Len(head)]
  BY <1>3, <1>6, ConcatProperties, SMTT(40) DEF head
<1>8. Len(head) = i /\ \A j \in 1 .. i : head[j] = IF j < i THEN q[j] ELSE x
  BY <1>6 DEF head
<1>9. Len(head) + Len(back) = Len(q) + 1
  BY <1>1, <1>3, <1>8
<1>10. ASSUME NEW j \in 1 .. Len(q) + 1
       PROVE  (head \o back)[j] = IF j < i THEN q[j] ELSE IF j = i THEN x ELSE q[j - 1]
  <2>1. CASE j <= i
    BY <1>7, <1>8, <1>9, <2>1
  <2>2. CASE j > i
    <3>1. (head \o back)[j] = back[j - i]
      BY <1>7, <1>8, <1>9, <2>2
    <3>2. j - i \in 1 .. Len(q) + 1 - i /\ i + (j - i) - 1 = j - 1
      BY <1>1, <2>2
    <3>3. back[j - i] = q[j - 1]
      BY <1>3, <3>2
    <3>4. ~(j < i) /\ j # i
      BY <2>2
    <3> QED BY <3>1, <3>3, <3>4
  <2>3. j <= i \/ j > i
    BY <1>1
  <2> QED BY <2>1, <2>2, <2>3
<1> QED BY <1>5, <1>7, <1>9, <1>10 DEF head

-----------------------------------------------------------------------------
(* The order of the queue, between any two places.                         *)
Sorted(q) == \A i, j \in 1 .. Len(q) : i <= j => q[i].dist <= q[j].dist

(* enqueue puts an entry behind those that are not greater and before the  *)
(* others, and moves nothing else.                                         *)
LEMMA EnqueuedProperties ==
  ASSUME NEW S, \A e \in S : e.dist \in Int, NEW q \in Seq(S), Sorted(q), NEW x \in S
  PROVE  /\ Enqueued(q, x) \in Seq(S) /\ Sorted(Enqueued(q, x))
         /\ Len(Enqueued(q, x)) = Len(q) + 1
         /\ \E p \in 1 .. Len(q) + 1 : \A j \in 1 .. Len(q) + 1 :
              Enqueued(q, x)[j] = IF j < p THEN q[j] ELSE IF j = p THEN x ELSE q[j - 1]
<1>1. Len(q) \in Nat /\ \A k \in 1 .. Len(q) : q[k] \in S /\ q[k].dist \in Int
  BY ElementOfSeq, LenProperties
<1> DEFINE M == {0} \union {i \in DOMAIN q : num_comp(x, q[i]) >= 0}
           p == PlaceOf(q, x)
           r == Enqueued(q, x)
<1>2. DOMAIN q = 1 .. Len(q)
  BY LenProperties
<1>3. M \in SUBSET (0 .. Len(q)) /\ M # {}
  BY <1>1, <1>2
<1>4. Max(M) \in M /\ \A j \in M : Max(M) >= j
  <2> HIDE DEF M
  <2> QED BY <1>1, <1>3, MaxProperties
<1>5. p = 1 + Max(M)
  BY DEF PlaceOf
<1>6. p \in 1 .. Len(q) + 1
  BY <1>1, <1>3, <1>4, <1>5
<1>7. \A j \in 1 .. Len(q) : j < p => q[j].dist <= x.dist
  <2> SUFFICES ASSUME NEW j \in 1 .. Len(q), j < p PROVE q[j].dist <= x.dist
    OBVIOUS
  <2>1. Max(M) \in 1 .. Len(q) /\ num_comp(x, q[Max(M)]) >= 0
    BY <1>1, <1>2, <1>4, <1>5
  <2>2. PICK m \in 1 .. Len(q) : m = Max(M)
    BY <2>1
  <2>3. q[m].dist <= x.dist /\ j <= m
    BY <1>1, <1>5, <2>1, <2>2 DEF num_comp
  <2>4. q[j].dist <= q[m].dist
    BY <2>3 DEF Sorted
  <2> QED BY <1>1, <2>3, <2>4
<1>8. \A j \in 1 .. Len(q) : j >= p => x.dist < q[j].dist
  <2> SUFFICES ASSUME NEW j \in 1 .. Len(q), j >= p PROVE x.dist < q[j].dist
    OBVIOUS
  <2>1. j \notin M
    BY <1>3, <1>4, <1>5
  <2> QED BY <1>1, <1>2, <2>1 DEF num_comp
<1> HIDE DEF M, p
<1>9. /\ r \in Seq(S) /\ Len(r) = Len(q) + 1
      /\ \A j \in 1 .. Len(q) + 1 : r[j] = IF j < p THEN q[j] ELSE IF j = p THEN x ELSE q[j - 1]
  <2>1. r = InsertAt(q, p, x)
    BY DEF Enqueued, p
  <2>2. /\ InsertAt(q, p, x) \in Seq(S) /\ Len(InsertAt(q, p, x)) = Len(q) + 1
        /\ \A j \in 1 .. Len(q) + 1 :
             InsertAt(q, p, x)[j] = IF j < p THEN q[j] ELSE IF j = p THEN x ELSE q[j - 1]
    <3>1. PICK k \in 1 .. Len(q) + 1 : k = p
      BY <1>6
    <3>2. /\ InsertAt(q, k, x) \in Seq(S) /\ Len(InsertAt(q, k, x)) = Len(q) + 1
          /\ \A j \in 1 .. Len(q) + 1 :
               InsertAt(q, k, x)[j] = IF j < k THEN q[j] ELSE IF j = k THEN x ELSE q[j - 1]
      BY InsertAtProperties
    <3> QED BY <3>1, <3>2, Zenon
  <2> QED BY <2>1, <2>2, Zenon
<1> HIDE DEF r
<1>10. Sorted(r)
  <2> SUFFICES ASSUME NEW i \in 1 .. Len(q) + 1, NEW j \in 1 .. Len(q) + 1, i <= j
               PROVE  r[i].dist <= r[j].dist
    BY <1>9 DEF Sorted
  <2>1. CASE i = j
    <3>1. r[i] \in S
      BY <1>9, ElementOfSeq
    <3> QED BY <2>1, <3>1
  <2>2. CASE i < j /\ j < p
    <3>1. r[i] = q[i] /\ r[j] = q[j] /\ i \in 1 .. Len(q) /\ j \in 1 .. Len(q)
      BY <1>1, <1>6, <1>9, <2>2
    <3> QED BY <3>1 DEF Sorted
  <2>3. CASE i < j /\ j = p
    <3>1. r[i] = q[i] /\ r[j] = x /\ i \in 1 .. Len(q) /\ i < p
      BY <1>1, <1>6, <1>9, <2>3
    <3> QED BY <1>7, <3>1
  <2>4. CASE i < p /\ p < j
    <3>1. r[i] = q[i] /\ r[j] = q[j - 1] /\ i <= j - 1 /\ i \in 1 .. Len(q) /\ j - 1 \in 1 .. Len(q)
      BY <1>1, <1>6, <1>9, <2>4
    <3> QED BY <3>1 DEF Sorted
  <2>5. CASE i = p /\ p < j
    <3>1. r[i] = x /\ r[j] = q[j - 1] /\ j - 1 \in 1 .. Len(q) /\ j - 1 >= p
      BY <1>1, <1>6, <1>9, <2>5
    <3> QED BY <1>1, <1>8, <3>1
  <2>6. CASE p < i /\ i < j
    <3>1. /\ r[i] = q[i - 1] /\ r[j] = q[j - 1] /\ i - 1 <= j - 1
          /\ i - 1 \in 1 .. Len(q) /\ j - 1 \in 1 .. Len(q)
      BY <1>1, <1>6, <1>9, <2>6
    <3> QED BY <3>1 DEF Sorted
  <2> QED BY <1>6, <2>1, <2>2, <2>3, <2>4, <2>5, <2>6
<1> QED BY <1>6, <1>9, <1>10 DEF r

(* The top is not less than the others, and without it they keep theirs    *)
(* places.                                                                 *)
LEMMA FrontProperties ==
  ASSUME NEW S, NEW q \in Seq(S), q # <<>>
  PROVE  /\ Front(q) \in Seq(S) /\ Len(Front(q)) = Len(q) - 1 /\ Len(q) \in Nat \ {0}
         /\ Last(q) \in S /\ Last(q) = q[Len(q)]
         /\ \A j \in 1 .. Len(q) - 1 : Front(q)[j] = q[j]
         /\ Sorted(q) => Sorted(Front(q))
<1>1. Len(q) \in Nat \ {0} /\ \A k \in 1 .. Len(q) : q[k] \in S
  BY ElementOfSeq, LenProperties, EmptySeq
<1>2. PICK n \in 1 .. Len(q) : n = Len(q)
  BY <1>1
<1>3. /\ Front(q) \in Seq(S) /\ Len(Front(q)) = n - 1
      /\ \A j \in 1 .. n - 1 : Front(q)[j] = q[j]
  <2>1. \A a \in 1 .. Len(q) + 1, b \in 0 .. Len(q) : a <= b + 1 =>
          /\ SubSeq(q, a, b) \in Seq(S) /\ Len(SubSeq(q, a, b)) = b + 1 - a
          /\ \A k \in 1 .. b + 1 - a : SubSeq(q, a, b)[k] = q[a + k - 1]
    BY PartProperties
  <2>2. n - 1 \in 0 .. Len(q) /\ 1 \in 1 .. Len(q) + 1
    BY <1>1
  <2> QED BY <1>1, <1>2, <2>1, <2>2 DEF Front
<1>4. Last(q) = q[n]
  BY <1>2 DEF Last
<1>5. Sorted(q) => Sorted(Front(q))
  BY <1>1, <1>2, <1>3, SMTT(40) DEF Sorted
<1> QED BY <1>1, <1>2, <1>3, <1>4, <1>5

-----------------------------------------------------------------------------
(* A queue for several entries has a place left before each call.          *)
QueueInv ==
  /\ queue \in Seq(Entry) /\ Sorted(queue)
  /\ max_size \in Nat \ {0, 1} /\ Len(queue) < max_size

(* enqueue makes room in time (pqueue.c 72-75).                            *)
LEMMA EnqueueKeeps ==
  ASSUME QueueInv, NEW x \in Entry, enqueue(x)
  PROVE  QueueInv'
<1>1. queue \in Seq(Entry) /\ Len(queue) \in Nat /\ Sorted(queue)
  BY LenProperties DEF QueueInv
<1>2. /\ queue' \in Seq(Entry) /\ Sorted(queue') /\ Len(queue') = Len(queue) + 1
  BY <1>1, EntryAssumption, EnqueuedProperties DEF enqueue
<1>3. max_size' \in Nat \ {0, 1} /\ Len(queue) + 1 < max_size'
  BY <1>1 DEF enqueue, SizeFor, QueueInv
<1> QED BY <1>2, <1>3 DEF QueueInv, Sorted

(* However it is used, a queue made for two entries or more is in          *)
(* ascending order, so that its end is its greatest entry, and is never    *)
(* written past its array (enqueue 52-93, dequeue 161-175).                *)
THEOREM QueueStaysInOrder ==
  ASSUME NEW size \in Nat \ {0, 1}
  PROVE  QueueSpec(size) => []InOrder
<1>1. create_pqueue(size) => QueueInv
  <2> SUFFICES ASSUME create_pqueue(size) PROVE QueueInv
    OBVIOUS
  <2>1. queue = <<>> /\ max_size = size
    BY DEF create_pqueue
  <2>2. Len(queue) = 0 /\ queue \in Seq(Entry)
    BY <2>1
  <2> QED BY <2>1, <2>2 DEF QueueInv, Sorted
<1>2. QueueInv /\ [QueueNext]_pqVars => QueueInv'
  <2> SUFFICES ASSUME QueueInv, [QueueNext]_pqVars PROVE QueueInv'
    OBVIOUS
  <2>1. CASE UNCHANGED <<queue, max_size>>
    BY <2>1 DEF QueueInv, Sorted
  <2>2. CASE dequeue
    <3>1. queue # <<>> /\ queue' = Front(queue) /\ max_size' = max_size
      BY <2>2 DEF dequeue
    <3>2. /\ queue' \in Seq(Entry) /\ Len(queue') = Len(queue) - 1 /\ Len(queue) \in Nat
          /\ Sorted(queue')
      BY <3>1, FrontProperties DEF QueueInv
    <3> QED BY <3>1, <3>2 DEF QueueInv, Sorted
  <2>3. ASSUME NEW x \in Entry, enqueue(x) PROVE QueueInv'
    BY <2>3, EnqueueKeeps
  <2> QED BY <2>1, <2>2, <2>3 DEF QueueNext, peek, find_data, pqVars
<1>3. QueueInv => InOrder
  <2> SUFFICES ASSUME QueueInv PROVE InOrder
    OBVIOUS
  <2>1. Len(queue) \in Nat
    BY LenProperties DEF QueueInv
  <2> QED BY <2>1 DEF QueueInv, Sorted, InOrder
<1> QED BY <1>1, <1>2, <1>3, PTL DEF QueueSpec
(* A sequence with an element less.                                        *)
LEMMA RemoveAtProperties ==
  ASSUME NEW S, NEW seq \in Seq(S), NEW i \in 1 .. Len(seq)
  PROVE  /\ RemoveAt(seq, i) \in Seq(S)
         /\ Len(RemoveAt(seq, i)) = Len(seq) - 1
         /\ \A j \in 1 .. Len(seq) - 1 :
              RemoveAt(seq, i)[j] = IF j < i THEN seq[j] ELSE seq[j + 1]
<1> DEFINE front == SubSeq(seq, 1, i - 1)
           back  == SubSeq(seq, i + 1, Len(seq))
<1>1. Len(seq) \in Nat /\ \A j \in 1 .. Len(seq) : seq[j] \in S
  BY ElementOfSeq, LenProperties
<1>2. front \in Seq(S) /\ Len(front) = i - 1 /\ \A j \in 1 .. i - 1 : front[j] = seq[j]
  <2>1. /\ front \in Seq(S)
        /\ Len(front) = IF 1 <= i - 1 THEN i - 1 - 1 + 1 ELSE 0
        /\ \A j \in 1 .. i - 1 - 1 + 1 : front[j] = seq[1 + j - 1]
    BY <1>1, SubSeqProperties
  <2> QED BY <2>1
<1>3. /\ back \in Seq(S)
      /\ Len(back) = Len(seq) - i
      /\ \A j \in 1 .. Len(seq) - i : back[j] = seq[i + j]
  <2>1. /\ back \in Seq(S)
        /\ Len(back) = IF i + 1 <= Len(seq) THEN Len(seq) - (i + 1) + 1 ELSE 0
        /\ \A j \in 1 .. Len(seq) - (i + 1) + 1 : back[j] = seq[i + 1 + j - 1]
    BY <1>1, SubSeqProperties
  <2> QED BY <1>1, <2>1
<1>4. RemoveAt(seq, i) = front \o back
  BY DEF RemoveAt
<1> HIDE DEF front, back
<1>5. /\ front \o back \in Seq(S)
      /\ Len(front \o back) = Len(front) + Len(back)
      /\ \A j \in 1 .. Len(front) + Len(back) :
           (front \o back)[j] = IF j <= Len(front) THEN front[j] ELSE back[j - Len(front)]
  BY <1>2, <1>3, ConcatProperties
<1>6. Len(front \o back) = Len(seq) - 1
  BY <1>1, <1>2, <1>3, <1>5
<1>7. ASSUME NEW j \in 1 .. Len(seq) - 1
      PROVE  (front \o back)[j] = IF j < i THEN seq[j] ELSE seq[j + 1]
  <2>1. (front \o back)[j] = IF j <= i - 1 THEN front[j] ELSE back[j - (i - 1)]
    BY <1>1, <1>2, <1>3, <1>5
  <2>0. i \in Int /\ j \in Int
    OBVIOUS
  <2>2. CASE j < i
    BY <1>2, <2>1, <2>2
  <2>3. CASE j >= i
    <3>1. j - (i - 1) \in 1 .. Len(seq) - i /\ i + (j - (i - 1)) = j + 1
      BY <1>1, <2>3
    <3>2. back[j - (i - 1)] = seq[j + 1]
      BY <1>3, <3>1
    <3> QED BY <2>0, <2>1, <2>3, <3>2
  <2>4. j < i \/ j >= i
    BY <2>0
  <2> QED BY <2>2, <2>3, <2>4, Zenon
<1> QED BY <1>4, <1>5, <1>6, <1>7

-----------------------------------------------------------------------------
AnyNode == [dest : Vertex, weight : Weight]
Nodes(list) == {list[i] : i \in DOMAIN list}

(* No two nodes of a list lead to the same vertex.                         *)
Once(list) == \A i, j \in DOMAIN list : list[i].dest = list[j].dest => i = j

(* Whatever leads from a to b has its twin that leads back.                *)
Twins(lists) == \A a \in Vertex : \A n \in Nodes(lists[a]) :
                  ListNode(a, n.weight) \in Nodes(lists[n.dest])

GraphTypes == array \in [Vertex -> Seq(AnyNode)] /\ plain \in BOOLEAN

GraphInv == GraphTypes /\ (plain => Twins(array) /\ \A a \in Vertex : Once(array[a]))

(* A list with a node more.                                                *)
LEMMA AddedNode ==
  ASSUME NEW list \in Seq(AnyNode), NEW n \in AnyNode
  PROVE  /\ Append(list, n) \in Seq(AnyNode)
         /\ Nodes(Append(list, n)) = Nodes(list) \union {n}
         /\ Once(list) /\ n.dest \notin Dests(list) => Once(Append(list, n))
<1> DEFINE r == Append(list, n)
<1> HIDE DEF AnyNode
<1>1. Len(list) \in Nat /\ DOMAIN list = 1 .. Len(list)
  BY LenProperties
<1>2. /\ r \in Seq(AnyNode) /\ Len(r) = Len(list) + 1 /\ r[Len(list) + 1] = n
      /\ \A i \in 1 .. Len(list) : r[i] = list[i]
  BY AppendProperties
<1>3. DOMAIN r = 1 .. Len(list) + 1
  BY <1>2, LenProperties
<1> HIDE DEF r
<1>4. Nodes(r) = Nodes(list) \union {n}
  <2>1. \A i \in 1 .. Len(list) + 1 : r[i] \in Nodes(list) \union {n}
    BY <1>1, <1>2 DEF Nodes
  <2>2. \A i \in 1 .. Len(list) : list[i] \in Nodes(r)
    BY <1>1, <1>2, <1>3 DEF Nodes
  <2>3. n \in Nodes(r)
    BY <1>1, <1>2, <1>3 DEF Nodes
  <2> QED BY <1>1, <1>3, <2>1, <2>2, <2>3 DEF Nodes
<1>5. ASSUME Once(list), n.dest \notin Dests(list) PROVE Once(r)
  <2>1. \A i \in 1 .. Len(list) : list[i].dest # n.dest
    BY <1>1, <1>5 DEF Dests
  <2> QED BY <1>1, <1>2, <1>3, <1>5, <2>1 DEF Once
<1> QED BY <1>2, <1>4, <1>5 DEF r

(* Taking the first node to v out leaves the others, and if it is the only *)
(* one no other leads there.                                               *)
LEMMA WithoutFirstProperties ==
  ASSUME NEW list \in Seq(AnyNode), NEW v \in Vertex
  PROVE  /\ WithoutFirst(list, v) \in Seq(AnyNode)
         /\ Once(list) => /\ Once(WithoutFirst(list, v))
                          /\ Nodes(WithoutFirst(list, v)) = {n \in Nodes(list) : n.dest # v}
<1> DEFINE r == WithoutFirst(list, v)
<1> HIDE DEF AnyNode
<1>1. Len(list) \in Nat /\ DOMAIN list = 1 .. Len(list)
  BY LenProperties
<1>2. CASE v \notin Dests(list)
  <2>1. r = list
    BY <1>2 DEF WithoutFirst
  <2>2. \A n \in Nodes(list) : n.dest # v
    BY <1>2 DEF Nodes, Dests
  <2> HIDE DEF r
  <2>3. r \in Seq(AnyNode) /\ (Once(list) => Once(r) /\ Nodes(r) = {n \in Nodes(list) : n.dest # v})
    BY <2>1, <2>2
  <2> QED BY <2>3 DEF r
<1>3. CASE v \in Dests(list)
  <2> DEFINE S == {i \in DOMAIN list : list[i].dest = v}
             k == Min(S)
  <2>1. S \in SUBSET Nat /\ S # {}
    BY <1>1, <1>3 DEF Dests
  <2>2. k \in S
    <3> HIDE DEF S
    <3> QED BY <2>1, MinProperties
  <2>3. k \in 1 .. Len(list) /\ list[k].dest = v
    BY <1>1, <2>2
  <2>4. r = RemoveAt(list, k)
    BY <1>3 DEF WithoutFirst
  <2> HIDE DEF S, k
  <2>5. /\ r \in Seq(AnyNode) /\ Len(r) = Len(list) - 1
        /\ \A j \in 1 .. Len(list) - 1 : r[j] = IF j < k THEN list[j] ELSE list[j + 1]
    BY <2>3, <2>4, RemoveAtProperties
  <2>6. DOMAIN r = 1 .. Len(list) - 1
    BY <2>5, LenProperties
  <2> HIDE DEF r
  <2>7. ASSUME Once(list) PROVE Once(r) /\ Nodes(r) = {n \in Nodes(list) : n.dest # v}
    <3>1. \A j \in 1 .. Len(list) : j # k => list[j].dest # v
      BY <1>1, <2>3, <2>7 DEF Once
    <3>2. ASSUME NEW i \in DOMAIN r
          PROVE  \E j \in 1 .. Len(list) : j # k /\ r[i] = list[j]
      <4>1. CASE i < k
        BY <1>1, <2>3, <2>5, <2>6, <4>1
      <4>2. CASE ~(i < k)
        <5>1. i + 1 \in 1 .. Len(list) /\ i + 1 # k
          BY <1>1, <2>3, <2>6, <4>2
        <5> QED BY <2>5, <2>6, <4>2, <5>1
      <4> QED BY <4>1, <4>2
    <3>3. ASSUME NEW j \in 1 .. Len(list), j # k PROVE list[j] \in Nodes(r)
      <4>1. CASE j < k
        <5>1. j \in 1 .. Len(list) - 1
          BY <1>1, <2>3, <4>1
        <5> QED BY <2>5, <2>6, <4>1, <5>1 DEF Nodes
      <4>2. CASE j > k
        <5>1. j - 1 \in 1 .. Len(list) - 1 /\ ~(j - 1 < k) /\ (j - 1) + 1 = j
          BY <1>1, <2>3, <4>2
        <5> QED BY <2>5, <2>6, <5>1 DEF Nodes
      <4> QED BY <2>3, <3>3, <4>1, <4>2
    <3>4. Nodes(r) = {n \in Nodes(list) : n.dest # v}
      <4>1. \A n \in Nodes(r) : n \in Nodes(list) /\ n.dest # v
        BY <1>1, <3>1, <3>2 DEF Nodes
      <4>2. ASSUME NEW n \in Nodes(list), n.dest # v PROVE n \in Nodes(r)
        <5>1. PICK j \in 1 .. Len(list) : n = list[j]
          BY <1>1 DEF Nodes
        <5> QED BY <2>3, <3>3, <4>2, <5>1
      <4> QED BY <4>1, <4>2
    <3>5. Once(r)
      <4> SUFFICES ASSUME NEW i \in DOMAIN r, NEW j \in DOMAIN r, r[i].dest = r[j].dest
                   PROVE  i = j
        BY DEF Once
      <4>1. \A a, b \in 1 .. Len(list) : list[a].dest = list[b].dest => a = b
        BY <1>1, <2>7 DEF Once
      <4>2. /\ i \in Int /\ j \in Int /\ k \in Int
            /\ i \in 1 .. Len(list) /\ i + 1 \in 1 .. Len(list)
            /\ j \in 1 .. Len(list) /\ j + 1 \in 1 .. Len(list)
        BY <1>1, <2>3, <2>6
      <4>3. /\ r[i] = IF i < k THEN list[i] ELSE list[i + 1]
            /\ r[j] = IF j < k THEN list[j] ELSE list[j + 1]
        BY <2>5, <2>6
      <4>4. CASE i < k /\ j < k
        BY <4>1, <4>2, <4>3, <4>4
      <4>5. CASE ~(i < k) /\ ~(j < k)
        <5>1. i + 1 = j + 1
          BY <4>1, <4>2, <4>3, <4>5
        <5> QED BY <4>2, <5>1
      <4>6. CASE i < k /\ ~(j < k)
        <5>1. i = j + 1
          BY <4>1, <4>2, <4>3, <4>6
        <5> QED BY <4>2, <4>6, <5>1
      <4>7. CASE ~(i < k) /\ j < k
        <5>1. i + 1 = j
          BY <4>1, <4>2, <4>3, <4>7
        <5> QED BY <4>2, <4>7, <5>1
      <4> QED BY <4>4, <4>5, <4>6, <4>7
    <3> QED BY <3>4, <3>5
  <2>8. r \in Seq(AnyNode) /\ (Once(list) => Once(r) /\ Nodes(r) = {n \in Nodes(list) : n.dest # v})
    BY <2>5, <2>7
  <2> QED BY <2>8 DEF r
<1> QED BY <1>2, <1>3

-----------------------------------------------------------------------------
(* An edge that is new and no loop is added with its twin.                 *)
LEMMA AddEdgeKeeps ==
  ASSUME GraphInv, NEW s \in Vertex, NEW d \in Vertex, NEW w \in Weight, addEdge(s, d, w)
  PROVE  GraphInv'
<1> USE DEF GraphInv, GraphTypes
<1>1. ListNode(d, w) \in AnyNode /\ ListNode(s, w) \in AnyNode
  BY DEF AnyNode, ListNode
<1> DEFINE half == [array EXCEPT ![s] = Append(@, ListNode(d, w))]
<1>2. /\ array' = [half EXCEPT ![d] = Append(@, ListNode(s, w))]
      /\ plain' = (plain /\ s # d /\ d \notin Dests(array[s]))
  BY DEF addEdge
<1>3. half \in [Vertex -> Seq(AnyNode)] /\ half[s] = Append(array[s], ListNode(d, w))
      /\ \A a \in Vertex : a # s => half[a] = array[a]
  <2>1. Append(array[s], ListNode(d, w)) \in Seq(AnyNode)
    BY <1>1, AddedNode
  <2> QED BY <2>1
<1> HIDE DEF half
<1>4. array' \in [Vertex -> Seq(AnyNode)] /\ array'[d] = Append(half[d], ListNode(s, w))
      /\ \A a \in Vertex : a # d => array'[a] = half[a]
  <2>1. Append(half[d], ListNode(s, w)) \in Seq(AnyNode)
    BY <1>1, <1>3, AddedNode
  <2> QED BY <1>2, <1>3, <2>1
<1>5. ASSUME plain' PROVE Twins(array') /\ \A a \in Vertex : Once(array'[a])
  <2>1. plain /\ s # d /\ d \notin Dests(array[s])
    BY <1>2, <1>5
  <2>2. /\ array'[s] = Append(array[s], ListNode(d, w))
        /\ array'[d] = Append(array[d], ListNode(s, w))
        /\ \A a \in Vertex : a # s /\ a # d => array'[a] = array[a]
    BY <1>3, <1>4, <2>1
  <2>3. Twins(array) /\ \A a \in Vertex : Once(array[a])
    BY <2>1
  <2>4. s \notin Dests(array[d])
    <3> SUFFICES ASSUME s \in Dests(array[d]) PROVE FALSE
      OBVIOUS
    <3>1. PICK n \in Nodes(array[d]) : n.dest = s
      BY DEF Dests, Nodes
    <3>2. ListNode(d, n.weight) \in Nodes(array[s])
      BY <2>3, <3>1 DEF Twins
    <3>3. d \in Dests(array[s])
      BY <3>2 DEF Dests, Nodes, ListNode
    <3> QED BY <2>1, <3>3
  <2>5. /\ Nodes(array'[s]) = Nodes(array[s]) \union {ListNode(d, w)} /\ Once(array'[s])
        /\ Nodes(array'[d]) = Nodes(array[d]) \union {ListNode(s, w)} /\ Once(array'[d])
    <3>1. array[s] \in Seq(AnyNode) /\ array[d] \in Seq(AnyNode)
      OBVIOUS
    <3>2. ListNode(d, w).dest = d /\ ListNode(s, w).dest = s
      BY DEF ListNode
    <3> QED BY <1>1, <2>1, <2>2, <2>3, <2>4, <3>1, <3>2, AddedNode
  <2>6. \A a \in Vertex : Once(array'[a])
    BY <2>2, <2>3, <2>5
  <2>7. \A a \in Vertex : Nodes(array[a]) \subseteq Nodes(array'[a])
    BY <2>2, <2>5
  <2>8. ASSUME NEW a \in Vertex, NEW n \in Nodes(array'[a])
        PROVE  ListNode(a, n.weight) \in Nodes(array'[n.dest])
    <3>1. CASE n \in Nodes(array[a])
      <4>1. ListNode(a, n.weight) \in Nodes(array[n.dest])
        BY <2>3, <3>1 DEF Twins
      <4>2. n.dest \in Vertex
        <5>1. n \in AnyNode
          BY <3>1, ElementOfSeq DEF Nodes
        <5> QED BY <5>1 DEF AnyNode
      <4> QED BY <2>7, <4>1, <4>2
    <3>2. CASE a = s /\ n = ListNode(d, w)
      <4>1. n.dest = d /\ n.weight = w
        BY <3>2 DEF ListNode
      <4> QED BY <2>5, <3>2, <4>1
    <3>3. CASE a = d /\ n = ListNode(s, w)
      <4>1. n.dest = s /\ n.weight = w
        BY <3>3 DEF ListNode
      <4> QED BY <2>5, <3>3, <4>1
    <3> QED BY <2>2, <2>5, <3>1, <3>2, <3>3
  <2>9. Twins(array')
    BY <2>8 DEF Twins
  <2> QED BY <2>6, <2>9
<1>6. plain' \in BOOLEAN
  BY <1>2
<1>7. Twins(array)' = Twins(array') /\ (\A a \in Vertex : Once(array[a]))' = (\A a \in Vertex : Once(array'[a]))
  BY DEF Twins, Nodes, Once, ListNode
<1> QED BY <1>4, <1>5, <1>6, <1>7

(* What leaves the lists alone leaves them paired.                         *)
LEMMA SameLists ==
  ASSUME GraphInv, array' = array, plain' = plain
  PROVE  GraphInv'
<1>1. Twins(array)' = Twins(array') /\ (\A a \in Vertex : Once(array[a]))' = (\A a \in Vertex : Once(array'[a]))
  BY DEF Twins, Nodes, Once, ListNode
<1>2. Twins(array') = Twins(array) /\ (\A a \in Vertex : Once(array'[a])) = (\A a \in Vertex : Once(array[a]))
  OBVIOUS
<1> QED BY <1>1, <1>2 DEF GraphInv, GraphTypes

(* remove_node takes out every edge of a vertex with its twin, also where  *)
(* it returns early.                                                       *)
LEMMA RemoveNodeKeeps ==
  ASSUME GraphInv, NEW v \in Vertex, remove_node(v)
  PROVE  GraphInv'
<1> USE DEF GraphInv, GraphTypes
<1>1. array' = Removed(array, v) /\ plain' = plain
  BY DEF remove_node
<1>2. CASE array[v] = <<>>
  <2>1. array' = array
    BY <1>1, <1>2 DEF Removed
  <2> QED BY <1>1, <2>1, SameLists
<1>3. CASE array[v] # <<>>
  <2>1. array' = [a \in Vertex |-> IF a = v THEN <<>> ELSE WithoutFirst(array[a], v)]
    BY <1>1, <1>3 DEF Removed
  <2>2. <<>> \in Seq(AnyNode) /\ DOMAIN <<>> = {}
    OBVIOUS
  <2>3. array' \in [Vertex -> Seq(AnyNode)]
    BY <2>1, <2>2, WithoutFirstProperties
  <2>4. ASSUME plain PROVE Twins(array') /\ \A a \in Vertex : Once(array'[a])
    <3>1. Twins(array) /\ \A a \in Vertex : Once(array[a])
      BY <2>4
    <3>2. array'[v] = <<>> /\ Nodes(array'[v]) = {} /\ Once(array'[v])
      BY <2>1, <2>2 DEF Nodes, Once
    <3>3. \A a \in Vertex : a # v =>
            Once(array'[a]) /\ Nodes(array'[a]) = {n \in Nodes(array[a]) : n.dest # v}
      BY <2>1, <3>1, WithoutFirstProperties
    <3>4. ASSUME NEW a \in Vertex, NEW n \in Nodes(array'[a])
          PROVE  ListNode(a, n.weight) \in Nodes(array'[n.dest])
      <4>1. a # v /\ n \in Nodes(array[a]) /\ n.dest # v
        BY <3>2, <3>3
      <4>2. ListNode(a, n.weight) \in Nodes(array[n.dest])
        BY <3>1, <4>1 DEF Twins
      <4>3. n.dest \in Vertex
        <5>1. n \in AnyNode
          BY <4>1, ElementOfSeq DEF Nodes
        <5> QED BY <5>1 DEF AnyNode
      <4>4. ListNode(a, n.weight).dest = a
        BY DEF ListNode
      <4> QED BY <3>3, <4>1, <4>2, <4>3, <4>4
    <3>5. Twins(array')
      BY <3>4 DEF Twins
    <3> QED BY <3>2, <3>3, <3>5
  <2>5. Twins(array)' = Twins(array') /\ (\A a \in Vertex : Once(array[a]))' = (\A a \in Vertex : Once(array'[a]))
    BY DEF Twins, Nodes, Once, ListNode
  <2> QED BY <1>1, <2>3, <2>4, <2>5
<1> QED BY <1>2, <1>3

(* An empty graph has nothing to pair.                                     *)
LEMMA EmptyGraph ==
  ASSUME NEW lists, lists = [v \in Vertex |-> <<>>]
  PROVE  lists \in [Vertex -> Seq(AnyNode)] /\ Twins(lists) /\ \A a \in Vertex : Once(lists[a])
<1>1. <<>> \in Seq(AnyNode) /\ DOMAIN <<>> = {}
  OBVIOUS
<1> QED BY <1>1 DEF Twins, Nodes, Once

(* Each step of a program that uses the graph keeps it paired.             *)
LEMMA GraphSteps ==
  ASSUME GraphInv, [GraphNext]_<<graphVars, pqVars, searchVars>>
  PROVE  GraphInv'
<1>1. CASE UNCHANGED graphVars
  BY <1>1, SameLists DEF graphVars
<1>2. ASSUME NEW s \in Vertex, NEW d \in Vertex, NEW w \in Weight, addEdge(s, d, w)
      PROVE  GraphInv'
  BY <1>2, AddEdgeKeeps
<1>3. ASSUME NEW v \in Vertex, remove_node(v) PROVE GraphInv'
  BY <1>3, RemoveNodeKeeps
<1>4. CASE destroy_graph
  <2>1. array' = [v \in Vertex |-> <<>>] /\ plain' = plain
    BY <1>4 DEF destroy_graph
  <2>2. array' \in [Vertex -> Seq(AnyNode)] /\ Twins(array') /\ \A a \in Vertex : Once(array'[a])
    BY <2>1, EmptyGraph
  <2>3. Twins(array)' = Twins(array') /\ (\A a \in Vertex : Once(array[a]))' = (\A a \in Vertex : Once(array'[a]))
    BY DEF Twins, Nodes, Once, ListNode
  <2> QED BY <2>1, <2>2, <2>3 DEF GraphInv, GraphTypes
<1>5. CASE Search
  BY <1>1, <1>5 DEF Search, Fill, Extract, Relax, Begin, print_path
<1> QED BY <1>1, <1>2, <1>3, <1>4, <1>5 DEF GraphNext, GraphCall

(* As long as no edge was added twice and no loop, an edge is found from   *)
(* both its ends with one weight, once, and find_node misses no vertex     *)
(* with edges, but follows NULL where a vertex below its lowest neighbour  *)
(* has none (addEdge 49-89, remove_node 177-240, find_node 109-139).       *)
THEOREM GraphStaysSymmetric == GraphSpec => []Symmetric
<1>1. createGraph => GraphInv
  BY EmptyGraph DEF createGraph, GraphInv, GraphTypes
<1>2. GraphInv /\ [GraphNext]_<<graphVars, pqVars, searchVars>> => GraphInv'
  BY GraphSteps
<1>3. GraphInv => Symmetric
  <2> SUFFICES ASSUME GraphInv, plain, NEW a \in Vertex, NEW b \in Vertex
               PROVE  /\ find_edge(a, b) = find_edge(b, a)
                      /\ \A i \in DOMAIN array[a], j \in DOMAIN array[b] :
                           (array[a][i].dest = b /\ array[b][j].dest = a)
                              => array[a][i].weight = array[b][j].weight
                      /\ IsInjective([i \in DOMAIN array[a] |-> array[a][i].dest])
                      /\ array[a] # <<>> =>
                           find_node(a) = IF \A w \in 0 .. Min(Dests(array[a])) - 1 : array[w] # <<>>
                                          THEN 0 ELSE NullRead
    BY DEF Symmetric
  <2>1. array \in [Vertex -> Seq(AnyNode)] /\ Twins(array) /\ \A c \in Vertex : Once(array[c])
    BY DEF GraphInv, GraphTypes
  <2>2. ASSUME NEW c \in Vertex, NEW e \in Vertex, e \in Dests(array[c])
        PROVE  c \in Dests(array[e])
    <3>1. PICK n \in Nodes(array[c]) : n.dest = e
      BY <2>2 DEF Dests, Nodes
    <3>2. ListNode(c, n.weight) \in Nodes(array[e])
      BY <2>1, <3>1 DEF Twins
    <3> QED BY <3>2 DEF Dests, Nodes, ListNode
  <2>3. find_edge(a, b) = find_edge(b, a)
    BY <2>2 DEF find_edge
  <2>4. ASSUME NEW i \in DOMAIN array[a], NEW j \in DOMAIN array[b],
               array[a][i].dest = b, array[b][j].dest = a
        PROVE  array[a][i].weight = array[b][j].weight
    <3>1. array[a][i] \in Nodes(array[a])
      BY DEF Nodes
    <3>2. ListNode(a, array[a][i].weight) \in Nodes(array[b])
      BY <2>1, <2>4, <3>1 DEF Twins
    <3>3. PICK k \in DOMAIN array[b] : array[b][k] = ListNode(a, array[a][i].weight)
      BY <3>2 DEF Nodes
    <3>4. k = j
      BY <2>1, <2>4, <3>3 DEF Once, ListNode
    <3> QED BY <3>3, <3>4 DEF ListNode
  <2>5. IsInjective([i \in DOMAIN array[a] |-> array[a][i].dest])
    BY <2>1 DEF Once, IsInjective
  <2>6. ASSUME array[a] # <<>>
        PROVE  find_node(a) = IF \A w \in 0 .. Min(Dests(array[a])) - 1 : array[w] # <<>>
                              THEN 0 ELSE NullRead
    <3>1. 1 \in DOMAIN array[a]
      BY <2>1, <2>6, LenProperties, EmptySeq
    <3>2. PICK e \in Vertex : e = array[a][1].dest
      <4>1. array[a][1] \in AnyNode
        BY <2>1, <3>1, ElementOfSeq, LenProperties
      <4> QED BY <4>1 DEF AnyNode
    <3>3. a \in Dests(array[e])
      BY <2>2, <3>1, <3>2 DEF Dests
    <3> DEFINE lowest == Min(Dests(array[a]))
               stops  == {i \in Vertex : a \in Dests(array[i]) \/ array[i] = <<>>}
    <3>4. e \in stops /\ e \in Dests(array[a]) /\ Dests(array[a]) \subseteq Vertex
      <4>1. \A i \in DOMAIN array[a] : array[a][i] \in AnyNode
        BY <2>1, ElementOfSeq, LenProperties
      <4> QED BY <3>1, <3>2, <3>3, <4>1 DEF Dests, AnyNode
    <3>5. lowest \in Dests(array[a]) /\ \A i \in Dests(array[a]) : lowest <= i
      BY <3>4, MinProperties DEF Vertex
    <3>6. Min(stops) \in stops /\ \A i \in stops : Min(stops) <= i
      <4>1. stops \in SUBSET Nat /\ stops # {}
        BY <3>4 DEF Vertex
      <4> HIDE DEF stops
      <4> QED BY <4>1, MinProperties
    <3>7. \A i \in Vertex : a \in Dests(array[i]) <=> i \in Dests(array[a])
      BY <2>2
    <3>8. find_node(a) = IF a \in Dests(array[Min(stops)]) THEN 0 ELSE NullRead
      BY <3>4 DEF find_node
    <3> DEFINE first == Min(stops)
    <3>9. /\ first \in Vertex /\ \A i \in stops : first <= i
          /\ first \in Dests(array[a]) \/ array[first] = <<>>
      BY <3>6, <3>7
    <3>10. lowest \in stops /\ lowest \in Vertex /\ first <= lowest
      BY <3>4, <3>5, <3>7, <3>9
    <3>11. find_node(a) = IF first \in Dests(array[a]) THEN 0 ELSE NullRead
      BY <3>7, <3>8, <3>9
    <3>12. \A w \in Vertex : array[w] = <<>> => w \in stops
      OBVIOUS
    <3> HIDE DEF lowest, stops, first
    <3>13. ASSUME \A w \in 0 .. lowest - 1 : array[w] # <<>>
           PROVE  find_node(a) = 0
      <4>1. ~(first < lowest)
        <5>1. ASSUME first < lowest PROVE FALSE
          <6>1. first \in 0 .. lowest - 1 /\ first \notin Dests(array[a])
            BY <3>5, <3>9, <3>10, <5>1 DEF Vertex
          <6> QED BY <3>9, <3>13, <6>1
        <5> QED BY <5>1
      <4>2. first = lowest
        BY <3>9, <3>10, <4>1 DEF Vertex
      <4> QED BY <3>5, <3>11, <3>13, <4>2
    <3>14. ASSUME NEW w \in 0 .. lowest - 1, array[w] = <<>>
           PROVE  find_node(a) = NullRead
      <4>1. w \in Vertex /\ w < lowest
        BY <3>10, GraphAssumption DEF Vertex
      <4>2. first < lowest
        BY <3>9, <3>10, <3>12, <3>14, <4>1 DEF Vertex
      <4>3. first \notin Dests(array[a])
        BY <3>4, <3>5, <3>9, <3>10, <4>2 DEF Vertex
      <4> QED BY <3>11, <4>3
    <3> QED BY <3>13, <3>14 DEF lowest
  <2> QED BY <2>3, <2>4, <2>5, <2>6
<1> QED BY <1>1, <1>2, <1>3, PTL DEF GraphSpec

-----------------------------------------------------------------------------
HeapNode == [v : Vertex, dist : Int]

(* What the arrays and the queue hold: nothing but what the first loop put *)
(* there, each vertex once.                                                *)
AsBegun ==
  /\ dist = [a \in Listed |-> StartDist(a, source)]
  /\ \A i \in 1 .. Len(queue) : /\ queue[i].v \in Listed
                                /\ queue[i].dist = StartDist(queue[i].v, source)
  /\ \A i, j \in 1 .. Len(queue) : queue[i].v = queue[j].v => i = j

(* The first loop has put vertices below u there, and has room for another.*)
Filling ==
  /\ u \in Vertex /\ pCrawl = <<>>
  /\ \A i \in 1 .. Len(queue) : queue[i].v < u
  /\ max_size >= V
  /\ V > 1 => Len(queue) < max_size

(* When the list of the source is read, no vertex is left in the queue.    *)
Crawling == pCrawl # <<>> => u \in Listed /\ (u = source => queue = <<>>)

SearchInv ==
  /\ queue \in Seq(HeapNode) /\ Sorted(queue)
  /\ max_size \in Nat /\ Len(queue) <= max_size
  /\ phase \in {"idle", "fill", "search", "hung"}
  /\ pCrawl \in Seq(AnyNode) /\ (phase = "idle" => pCrawl = <<>>)
  /\ phase # "idle" => source \in Vertex /\ par = StartPar(source)
  /\ phase \in {"fill", "search"} => AsBegun
  /\ phase = "fill" => Filling
  /\ phase = "search" => Crawling
  /\ PathsFromZeroEnd

(* INT_MAX is no distance once there is an edge.                           *)
LEMMA InfinityIsPositive ==
  ASSUME GraphTypes, NEW a \in Listed
  PROVE  INT_MAX \in Nat \ {0} /\ a \in Vertex
<1>1. array[a] \in Seq(AnyNode) /\ array[a] # <<>> /\ a \in Vertex
  BY DEF Listed, GraphTypes
<1>2. 1 \in 1 .. Len(array[a])
  BY <1>1, LenProperties, EmptySeq
<1>3. PICK n \in AnyNode : n = array[a][1]
  BY <1>1, <1>2, ElementOfSeq
<1>4. n.weight \in Weight /\ n.weight \in Nat /\ V \in Nat
  BY <1>3, GraphAssumption DEF AnyNode
<1>5. V * n.weight \in Nat
  BY <1>4
<1>6. V * n.weight < INT_MAX /\ INT_MAX \in Nat
  BY <1>4, DijkstraAssumption
<1> QED BY <1>1, <1>5, <1>6

(* A path from the source, or one from vertex 0, is at its end at once.    *)
LEMMA ShortChains ==
  ASSUME NEW to \in Vertex, source \in Vertex, par = StartPar(source),
         source = 0 \/ to = source
  PROVE  source \in Chain(to)
<1>1. V \in Nat /\ 1 \in 1 .. V /\ 0 \in Vertex
  BY GraphAssumption DEF Vertex
<1>2. par[to] = source
  BY DEF StartPar
<1> DEFINE walk == [i \in 0 .. 1 |-> IF i = 0 THEN to ELSE source]
<1>3. walk \in [0 .. 1 -> Vertex] /\ walk[0] = to /\ walk[1] = source
  OBVIOUS
<1>4. \A i \in 1 .. 1 : walk[i] = par[walk[i - 1]]
  <2>1. \A i \in 1 .. 1 : i = 1 /\ i - 1 = 0
    OBVIOUS
  <2> QED BY <1>2, <1>3, <2>1
<1> HIDE DEF walk
<1>5. \E w \in [0 .. 1 -> Vertex] : /\ w[0] = to /\ w[1] = source
                                    /\ \A i \in 1 .. 1 : w[i] = par[w[i - 1]]
  BY <1>3, <1>4
<1>6. PICK n \in 1 .. V : n = 1
  BY <1>1
<1> QED BY <1>5, <1>6 DEF Chain

(* The first loop puts a vertex into the queue, in its place.              *)
LEMMA FillKeeps ==
  ASSUME GraphTypes, SearchInv, Fill
  PROVE  SearchInv'
<1>1. /\ phase = "fill" /\ AsBegun /\ Filling /\ source \in Vertex /\ par = StartPar(source)
      /\ queue \in Seq(HeapNode) /\ Sorted(queue) /\ Len(queue) \in Nat
      /\ max_size \in Nat /\ Len(queue) <= max_size
  BY LenProperties DEF SearchInv, Fill
<1>2. UNCHANGED <<array, dist, par, source, target, pCrawl>> /\ u \in Vertex /\ V \in Nat
  BY <1>1, GraphAssumption DEF Fill, graphVars, Filling
<1>3. /\ queue' \in Seq(HeapNode) /\ Sorted(queue')
      /\ max_size' \in Nat /\ Len(queue') <= max_size' /\ Len(queue') \in Nat
      /\ \A i \in 1 .. Len(queue') : /\ queue'[i].v \in Listed /\ queue'[i].v <= u
                                     /\ queue'[i].dist = StartDist(queue'[i].v, source)
      /\ \A i, j \in 1 .. Len(queue') : queue'[i].v = queue'[j].v => i = j
      /\ max_size' >= V /\ (V > 1 => Len(queue') < max_size')
  <2>1. CASE u \notin Listed
    <3>1. queue' = queue /\ max_size' = max_size
      BY <2>1 DEF Fill, pqVars
    <3>2. \A i \in 1 .. Len(queue) : queue[i].v \in Vertex
      <4>1. \A i \in 1 .. Len(queue) : queue[i] \in HeapNode
        BY <1>1, ElementOfSeq
      <4> QED BY <4>1 DEF HeapNode
    <3> QED BY <1>1, <1>2, <3>1, <3>2 DEF AsBegun, Filling, Vertex
  <2>2. CASE u \in Listed
    <3> DEFINE x == [v |-> u, dist |-> dist[u]]
    <3>1. dist[u] = StartDist(u, source)
      BY <1>1, <2>2 DEF AsBegun
    <3>2. x \in HeapNode /\ x.v = u /\ x.dist = StartDist(u, source)
      BY <1>2, <3>1, DijkstraAssumption DEF HeapNode, StartDist
    <3>3. queue' = Enqueued(queue, x) /\ max_size' = SizeFor(queue, max_size)
      BY <2>2 DEF Fill, enqueue
    <3> HIDE DEF x
    <3>4. \A e \in HeapNode : e.dist \in Int
      BY DEF HeapNode
    <3>5. /\ queue' \in Seq(HeapNode) /\ Sorted(queue') /\ Len(queue') = Len(queue) + 1
          /\ \E p \in 1 .. Len(queue) + 1 : \A j \in 1 .. Len(queue) + 1 :
               queue'[j] = IF j < p THEN queue[j] ELSE IF j = p THEN x ELSE queue[j - 1]
      <4>1. /\ Enqueued(queue, x) \in Seq(HeapNode) /\ Sorted(Enqueued(queue, x))
            /\ Len(Enqueued(queue, x)) = Len(queue) + 1
            /\ \E p \in 1 .. Len(queue) + 1 : \A j \in 1 .. Len(queue) + 1 :
                 Enqueued(queue, x)[j] = IF j < p THEN queue[j]
                                         ELSE IF j = p THEN x ELSE queue[j - 1]
        BY <1>1, <3>2, <3>4, EnqueuedProperties
      <4> QED BY <3>3, <4>1, Zenon DEF Sorted
    <3>6. PICK p \in 1 .. Len(queue) + 1 : \A j \in 1 .. Len(queue) + 1 :
               queue'[j] = IF j < p THEN queue[j] ELSE IF j = p THEN x ELSE queue[j - 1]
      BY <3>5
    <3>7. /\ \A j \in 1 .. Len(queue) + 1 : j < p => j \in 1 .. Len(queue) /\ queue'[j] = queue[j]
          /\ queue'[p] = x
          /\ \A j \in 1 .. Len(queue) + 1 : j > p => j - 1 \in 1 .. Len(queue) /\ queue'[j] = queue[j - 1]
      BY <1>1, <3>6
    <3>8. \A i \in 1 .. Len(queue) :
            /\ queue[i].v \in Listed /\ queue[i].v \in Int /\ queue[i].v < u
            /\ queue[i].dist = StartDist(queue[i].v, source)
      <4>1. \A i \in 1 .. Len(queue) : queue[i] \in HeapNode
        BY <1>1, ElementOfSeq
      <4> QED BY <1>1, <4>1, SMTT(40) DEF AsBegun, Filling, HeapNode, Vertex
    <3>9. u \in Int
      BY <1>2 DEF Vertex
    <3>10. ASSUME NEW i \in 1 .. Len(queue) + 1
           PROVE  /\ queue'[i].v \in Listed /\ queue'[i].v <= u
                  /\ queue'[i].dist = StartDist(queue'[i].v, source)
      <4>1. i < p \/ i = p \/ i > p
        OBVIOUS
      <4>2. CASE i < p
        BY <3>7, <3>8, <3>9, <4>2
      <4>3. CASE i = p
        BY <2>2, <3>2, <3>7, <3>9, <4>3
      <4>4. CASE i > p
        BY <3>7, <3>8, <3>9, <4>4
      <4> QED BY <4>1, <4>2, <4>3, <4>4
    <3>11. ASSUME NEW i \in 1 .. Len(queue) + 1, NEW j \in 1 .. Len(queue) + 1,
                  queue'[i].v = queue'[j].v
           PROVE  i = j
      <4>0. \A k, l \in 1 .. Len(queue) : queue[k].v = queue[l].v => k = l
        BY <1>1 DEF AsBegun
      <4>8. ASSUME NEW k \in 1 .. Len(queue) + 1, k # p PROVE queue'[k].v # u
        <5>1. k < p \/ k > p
          BY <4>8
        <5>2. \E m \in 1 .. Len(queue) : queue'[k] = queue[m]
          BY <3>7, <5>1
        <5> QED BY <3>8, <3>9, <5>2
      <4>9. queue'[p].v = u
        BY <3>2, <3>7
      <4>1. CASE i = p
        BY <3>11, <4>1, <4>8, <4>9
      <4>2. CASE j = p
        BY <3>11, <4>2, <4>8, <4>9
      <4>3. CASE i < p /\ j < p
        <5>1. /\ i \in 1 .. Len(queue) /\ queue'[i] = queue[i]
              /\ j \in 1 .. Len(queue) /\ queue'[j] = queue[j]
          BY <3>7, <4>3
        <5>2. queue[i].v = queue[j].v
          BY <3>11, <5>1
        <5> QED BY <4>0, <5>1, <5>2
      <4>4. CASE i > p /\ j > p
        <5>1. /\ i - 1 \in 1 .. Len(queue) /\ queue'[i] = queue[i - 1]
              /\ j - 1 \in 1 .. Len(queue) /\ queue'[j] = queue[j - 1]
          BY <3>7, <4>4
        <5>2. queue[i - 1].v = queue[j - 1].v
          BY <3>11, <5>1
        <5>3. i - 1 = j - 1
          BY <4>0, <5>1, <5>2
        <5> QED BY <5>3
      <4>5. CASE i < p /\ j > p
        <5>1. /\ i \in 1 .. Len(queue) /\ queue'[i] = queue[i]
              /\ j - 1 \in 1 .. Len(queue) /\ queue'[j] = queue[j - 1]
          BY <3>7, <4>5
        <5>2. queue[i].v = queue[j - 1].v
          BY <3>11, <5>1
        <5>3. i = j - 1
          BY <4>0, <5>1, <5>2
        <5> QED BY <4>5, <5>3
      <4>6. CASE i > p /\ j < p
        <5>1. /\ i - 1 \in 1 .. Len(queue) /\ queue'[i] = queue[i - 1]
              /\ j \in 1 .. Len(queue) /\ queue'[j] = queue[j]
          BY <3>7, <4>6
        <5>2. queue[i - 1].v = queue[j].v
          BY <3>11, <5>1
        <5>3. i - 1 = j
          BY <4>0, <5>1, <5>2
        <5> QED BY <4>6, <5>3
      <4> QED BY <4>1, <4>2, <4>3, <4>4, <4>5, <4>6
    <3>12. /\ max_size' \in Nat /\ Len(queue) + 1 <= max_size' /\ max_size' >= V
           /\ V > 1 => Len(queue) + 1 < max_size'
      <4>1. CASE V > 1
        BY <1>1, <1>2, <3>3, <4>1 DEF SizeFor, Filling
      <4>2. CASE ~(V > 1)
        <5>1. u = 0
          BY <1>2, <4>2 DEF Vertex
        <5>2. Len(queue) = 0
          <6> SUFFICES ASSUME Len(queue) # 0 PROVE FALSE
            OBVIOUS
          <6>1. 1 \in 1 .. Len(queue)
            BY <1>1
          <6>2. queue[1].v \in Vertex /\ queue[1].v < 0
            BY <3>8, <5>1, <6>1 DEF Listed
          <6> QED BY <6>2 DEF Vertex
        <5>3. max_size' = max_size
          BY <3>3, <5>2 DEF SizeFor
        <5>4. max_size >= 1
          BY <1>1, <1>2 DEF Filling, Vertex
        <5> QED BY <1>1, <1>2, <4>2, <5>2, <5>3, <5>4 DEF Filling
      <4> QED BY <4>1, <4>2
    <3> QED BY <1>1, <3>5, <3>10, <3>11, <3>12
  <2> QED BY <2>1, <2>2
<1>4. AsBegun'
  BY <1>1, <1>2, <1>3 DEF AsBegun, Listed, StartDist
<1>5. \/ u' = u + 1 /\ u + 1 < V /\ phase' = "fill"
      \/ u' = 0 /\ phase' = "search"
  BY <1>1 DEF Fill
<1>6. phase' = "fill" => Filling'
  <2>1. \A i \in 1 .. Len(queue') : queue'[i].v \in Int
    <3>1. \A i \in 1 .. Len(queue') : queue'[i] \in HeapNode
      BY <1>3, ElementOfSeq
    <3> QED BY <3>1 DEF HeapNode, Vertex
  <2> QED BY <1>1, <1>2, <1>3, <1>5, <2>1, SMTT(40) DEF Filling, Vertex
<1>7. phase' = "search" => Crawling'
  BY <1>1, <1>2 DEF Crawling, Filling
<1>8. PathsFromZeroEnd' /\ Sorted(queue)'
  BY <1>3, <1>5 DEF PathsFromZeroEnd, Sorted
<1> QED BY <1>1, <1>2, <1>3, <1>4, <1>5, <1>6, <1>7, <1>8 DEF SearchInv, StartPar

(* The top comes out of the queue, the source only as the last.            *)
LEMMA ExtractKeeps ==
  ASSUME GraphTypes, SearchInv, Extract
  PROVE  SearchInv'
<1>1. /\ phase = "search" /\ AsBegun /\ source \in Vertex /\ par = StartPar(source)
      /\ queue \in Seq(HeapNode) /\ Sorted(queue) /\ queue # <<>>
      /\ max_size \in Nat /\ Len(queue) <= max_size
  BY DEF SearchInv, Extract, dequeue
<1>2. /\ UNCHANGED <<array, dist, par, source, target, phase, max_size>>
      /\ queue' = Front(queue) /\ u' = Last(queue).v /\ pCrawl' = array[u']
  BY DEF Extract, dequeue, graphVars
<1> DEFINE n == Len(queue)
<1>3. /\ n \in Nat \ {0} /\ n \in 1 .. n
      /\ queue' \in Seq(HeapNode) /\ Len(queue') = n - 1 /\ Sorted(queue')
      /\ \A j \in 1 .. n - 1 : queue'[j] = queue[j]
      /\ Last(queue) = queue[n]
  <2>1. /\ Front(queue) \in Seq(HeapNode) /\ Len(Front(queue)) = n - 1 /\ n \in Nat \ {0}
        /\ Last(queue) = queue[n]
        /\ \A j \in 1 .. n - 1 : Front(queue)[j] = queue[j]
        /\ Sorted(Front(queue))
    BY <1>1, FrontProperties
  <2>2. n \in 1 .. n
    BY <2>1
  <2>3. Sorted(queue')
    BY <1>2, <2>1
  <2> QED BY <1>2, <2>1, <2>2, <2>3
<1> HIDE DEF n
<1>4. /\ \A i \in 1 .. n : queue[i].v \in Listed /\ queue[i].dist = StartDist(queue[i].v, source)
      /\ \A i, j \in 1 .. n : queue[i].v = queue[j].v => i = j
      /\ \A i, j \in 1 .. n : i <= j => queue[i].dist <= queue[j].dist
  BY <1>1 DEF AsBegun, Sorted, n
<1>5. u' \in Listed /\ u' = queue[n].v
  BY <1>2, <1>3, <1>4
<1>6. pCrawl' \in Seq(AnyNode)
  BY <1>2, <1>5 DEF Listed, GraphTypes
(* Whoever is before the source in the queue is the source.                *)
<1>7. ASSUME u' = source PROVE queue' = <<>>
  <2>1. INT_MAX \in Nat \ {0}
    BY <1>5, InfinityIsPositive
  <2>2. queue[n].dist = 0
    BY <1>3, <1>4, <1>5, <1>7 DEF StartDist
  <2>3. ASSUME NEW j \in 1 .. n PROVE j = n
    <3>1. queue[j].dist <= 0 /\ queue[j].dist = StartDist(queue[j].v, source)
      BY <1>3, <1>4, <2>2
    <3>2. queue[j].v = source
      BY <2>1, <3>1 DEF StartDist
    <3> QED BY <1>3, <1>4, <1>5, <1>7, <3>2
  <2>4. n = 1
    <3>1. 1 \in 1 .. n
      BY <1>3
    <3> QED BY <2>3, <3>1
  <2> QED BY <1>3, <2>4, EmptySeq
<1>8. AsBegun'
  <2>1. \A i \in 1 .. n - 1 : i \in 1 .. n
    BY <1>3
  <2>2. Listed' = Listed /\ dist' = [a \in Listed |-> StartDist(a, source)]
    BY <1>1, <1>2 DEF Listed, AsBegun
  <2> QED BY <1>2, <1>3, <1>4, <2>1, <2>2 DEF AsBegun, StartDist
<1>9. Crawling'
  <2>1. Listed' = Listed
    BY <1>2 DEF Listed
  <2> QED BY <1>2, <1>5, <1>7, <2>1 DEF Crawling
<1>10. PathsFromZeroEnd' /\ Sorted(queue)' /\ Len(queue') <= max_size'
  BY <1>1, <1>2, <1>3 DEF PathsFromZeroEnd, Sorted, n
<1> QED BY <1>1, <1>2, <1>3, <1>6, <1>8, <1>9, <1>10 DEF SearchInv, StartPar

(* No list node improves anything: the distance of u is infinite, or the   *)
(* queue is empty.                                                         *)
LEMMA NothingToRelax ==
  ASSUME SearchInv, Relax
  PROVE  UNCHANGED <<graphVars, dist, par, queue, max_size, source, target, u, phase>>
<1>1. phase = "search" /\ AsBegun /\ u \in Listed /\ (u = source => queue = <<>>)
  BY DEF SearchInv, Relax, Crawling
<1>2. ASSUME NEW x, IsIn(queue, x) PROVE queue # <<>>
  BY <1>2 DEF IsIn
<1>3. CASE u = source
  <2>1. \A x : ~IsIn(queue, x)
    BY <1>1, <1>2, <1>3
  <2> QED BY <2>1 DEF Relax
<1>4. CASE u # source
  <2>1. dist[u] = INT_MAX
    BY <1>1, <1>4 DEF AsBegun, StartDist
  <2> QED BY <2>1 DEF Relax
<1> QED BY <1>3, <1>4

LEMMA RelaxKeeps ==
  ASSUME GraphTypes, SearchInv, Relax
  PROVE  SearchInv'
<1>1. UNCHANGED <<array, dist, par, queue, max_size, source, target, u, phase>>
  BY NothingToRelax DEF graphVars
<1>2. phase = "search" /\ pCrawl \in Seq(AnyNode) /\ pCrawl # <<>> /\ pCrawl' = Tail(pCrawl)
  BY DEF Relax, SearchInv
<1>3. pCrawl' \in Seq(AnyNode)
  <2> HIDE DEF AnyNode
  <2> QED BY <1>2
<1>4. Listed' = Listed /\ AsBegun /\ Crawling
  BY <1>1, <1>2 DEF Listed, SearchInv
<1>5. AsBegun' /\ Crawling'
  BY <1>1, <1>2, <1>4 DEF AsBegun, Crawling, StartDist
<1>6. PathsFromZeroEnd' /\ Sorted(queue)'
  BY <1>1, <1>2 DEF PathsFromZeroEnd, Sorted, SearchInv
<1> QED BY <1>1, <1>2, <1>3, <1>5, <1>6 DEF SearchInv, StartPar

(* The search begins with an empty queue and ends with one.                *)
LEMMA EndsKeep ==
  ASSUME GraphTypes, SearchInv, NEW v \in Vertex, Begin(v) \/ print_path(v)
  PROVE  SearchInv'
<1>1. V \in Nat /\ <<>> \in Seq(HeapNode) /\ <<>> \in Seq(AnyNode) /\ Len(<<>>) = 0
  BY GraphAssumption
<1>2. CASE Begin(v)
  <2>1. /\ queue' = <<>> /\ max_size' = V /\ source' = v /\ u' = 0 /\ phase' = "fill"
        /\ dist' = [a \in Listed |-> StartDist(a, v)] /\ par' = StartPar(v)
        /\ UNCHANGED <<array, target, pCrawl>> /\ phase = "idle"
    BY <1>2 DEF Begin, graphVars
  <2>2. pCrawl' = <<>> /\ u' \in Vertex
    BY <1>1, <2>1 DEF SearchInv, Vertex
  <2>3. AsBegun' /\ Filling'
    BY <1>1, <2>1, <2>2 DEF AsBegun, Filling, Listed, StartDist
  <2>4. PathsFromZeroEnd' /\ Sorted(queue)'
    BY <1>1, <2>1 DEF PathsFromZeroEnd, Sorted
  <2> QED BY <1>1, <2>1, <2>2, <2>3, <2>4 DEF SearchInv, StartPar
<1>3. CASE print_path(v)
  <2>1. /\ phase = "search" /\ queue = <<>> /\ pCrawl = <<>> /\ source \in Vertex
        /\ par = StartPar(source) /\ max_size \in Nat
        /\ UNCHANGED <<array, queue, max_size, pCrawl>>
    BY <1>3 DEF print_path, graphVars, SearchInv
  <2>2. \/ phase' = "idle"
        \/ /\ phase' = "hung" /\ target' = v /\ UNCHANGED <<par, source>>
           /\ source \notin Chain(v)
    BY <1>3 DEF print_path
  <2>3. PathsFromZeroEnd'
    BY <2>1, <2>2, ShortChains DEF PathsFromZeroEnd
  <2>4. Sorted(queue)'
    BY <1>1, <2>1 DEF Sorted
  <2> QED BY <1>1, <2>1, <2>2, <2>3, <2>4 DEF SearchInv, StartPar
<1> QED BY <1>2, <1>3

LEMMA SearchSteps ==
  ASSUME GraphInv, SearchInv, [GraphNext]_<<graphVars, pqVars, searchVars>>
  PROVE  SearchInv'
<1>1. GraphTypes
  BY DEF GraphInv
<1>2. CASE UNCHANGED <<pqVars, searchVars>> /\ (phase = "idle" \/ UNCHANGED graphVars)
  <2>1. UNCHANGED <<queue, max_size, dist, par, source, target, u, pCrawl, phase>>
    BY <1>2 DEF pqVars, searchVars
  <2>2. Sorted(queue)' /\ PathsFromZeroEnd'
    BY <2>1 DEF Sorted, PathsFromZeroEnd, SearchInv
  <2>3. phase = "idle" \/ array' = array
    BY <1>2 DEF graphVars
  <2>4. phase' \in {"fill", "search"} => AsBegun'
    BY <2>1, <2>3 DEF SearchInv, AsBegun, Listed, StartDist
  <2>5. (phase' = "fill" => Filling') /\ (phase' = "search" => Crawling')
    BY <2>1, <2>3 DEF SearchInv, Filling, Crawling, Listed
  <2> QED BY <2>1, <2>2, <2>4, <2>5 DEF SearchInv, StartPar
<1>3. CASE Search
  BY <1>1, <1>3, FillKeeps, ExtractKeeps, RelaxKeeps, EndsKeep DEF Search
<1> QED BY <1>2, <1>3 DEF GraphNext, GraphCall

LEMMA SearchInvariant == GraphSpec => [](GraphInv /\ SearchInv)
<1>1. createGraph /\ NoSearch /\ create_pqueue(V) => GraphInv /\ SearchInv
  <2> SUFFICES ASSUME createGraph, NoSearch, create_pqueue(V) PROVE GraphInv /\ SearchInv
    OBVIOUS
  <2>1. GraphInv
    BY EmptyGraph DEF createGraph, GraphInv, GraphTypes
  <2>2. <<>> \in Seq(HeapNode) /\ <<>> \in Seq(AnyNode) /\ Len(<<>>) = 0 /\ V \in Nat
    BY GraphAssumption
  <2>3. queue = <<>> /\ max_size = V /\ pCrawl = <<>> /\ phase = "idle"
    BY DEF NoSearch, create_pqueue
  <2> QED BY <2>1, <2>2, <2>3 DEF SearchInv, Sorted, PathsFromZeroEnd
<1>2. GraphInv /\ SearchInv /\ [GraphNext]_<<graphVars, pqVars, searchVars>>
        => (GraphInv /\ SearchInv)'
  BY GraphSteps, SearchSteps
<1> QED BY <1>1, <1>2, PTL DEF GraphSpec

(* Paths are followed to their end, except from a source other than vertex *)
(* 0 to another vertex (dijkstra 123-126, print_path 185-191).             *)
THEOREM PathsEnd == GraphSpec => []PathsFromZeroEnd
<1>1. SearchInv => PathsFromZeroEnd
  BY DEF SearchInv
<1> QED BY <1>1, SearchInvariant, PTL

(* The search leaves its queue in order, although decrease writes into the *)
(* entries without moving them, and never overfills it.                    *)
THEOREM SearchKeepsOrder == GraphSpec => []InOrder
<1>1. SearchInv => InOrder
  <2> SUFFICES ASSUME SearchInv PROVE InOrder
    OBVIOUS
  <2>1. Len(queue) \in Nat
    BY LenProperties DEF SearchInv
  <2> QED BY <2>1 DEF SearchInv, Sorted, InOrder
<1> QED BY <1>1, SearchInvariant, PTL

(* No search improves a distance or sets a parent: the source is the last  *)
(* that leaves the queue (dijkstra.c 131-167).                             *)
THEOREM NothingImproves ==
  GraphSpec => [][Relax => UNCHANGED <<dist, par, queue>>]_<<graphVars, pqVars, searchVars>>
<1>1. SearchInv => [Relax => UNCHANGED <<dist, par, queue>>]_<<graphVars, pqVars, searchVars>>
  BY NothingToRelax
<1> QED BY <1>1, SearchInvariant, PTL

-----------------------------------------------------------------------------
(* Trees of the AVL tree: what is made of smaller trees                   *)

LEMMA UpTo ==
  ASSUME NEW N \in Nat, NEW P \in SUBSET (0 .. N), 0 \in P, \A i \in 1 .. N : i - 1 \in P => i \in P
  PROVE  P = 0 .. N
<1> SUFFICES ASSUME (0 .. N) \ P # {} PROVE FALSE
  OBVIOUS
<1>1. PICK x \in (0 .. N) \ P : \A y \in (0 .. N) \ P : ~(y < x)
  <2> DEFINE T == (0 .. N) \ P
  <2>1. T \in SUBSET Nat /\ T # {}
    OBVIOUS
  <2> HIDE DEF T
  <2>2. \E x \in T : \A y \in T : <<y, x>> \notin OpToRel(<, Nat)
    BY <2>1, NatLessThanWellFounded, WFMin, Zenon
  <2>3. \E x \in T : \A y \in T : ~(y < x)
    BY <2>1, <2>2, Zenon DEF OpToRel
  <2> QED
    BY <2>3 DEF T
<1>2. x \in 1 .. N /\ x - 1 \in 0 .. N /\ x - 1 < x
  BY <1>1
<1>3. x - 1 \in P
  BY <1>1, <1>2
<1> QED
  BY <1>1, <1>2, <1>3

-----------------------------------------------------------------------------
(* Trees                                                                   *)

Over(S) == {NULL} \union [data : Key, left : S, right : S]

LEMMA TreesUpTo ==
  /\ DOMAIN TreeUpTo = 0 .. Room
  /\ TreeUpTo[0] = {NULL}
  /\ \A n \in 1 .. Room : TreeUpTo[n] = Over(TreeUpTo[n - 1])
<1> DEFINE Is(f, n) == f = [i \in 0 .. n |-> IF i = 0 THEN {NULL} ELSE Over(f[i - 1])]
           P == {n \in 0 .. Room : \E f : Is(f, n)}
<1>0. Room \in Nat
  BY TreeAssumption
<1>1. 0 \in P
  <2> DEFINE h == [i \in 0 .. 0 |-> {NULL}]
  <2>1. h = [i \in 0 .. 0 |-> IF i = 0 THEN {NULL} ELSE Over(h[i - 1])]
    OBVIOUS
  <2> HIDE DEF h
  <2> QED
    BY <1>0, <2>1
<1>2. ASSUME NEW n \in 1 .. Room, n - 1 \in P PROVE n \in P
  <2>1. PICK f : Is(f, n - 1)
    BY <1>2
  <2> DEFINE h == [i \in 0 .. n |-> IF i = n THEN Over(f[n - 1]) ELSE f[i]]
  <2>2. \A i \in 0 .. n - 1 : f[i] = IF i = 0 THEN {NULL} ELSE Over(f[i - 1])
    <3>1. PICK e : e = [i \in 0 .. n - 1 |-> IF i = 0 THEN {NULL} ELSE Over(f[i - 1])]
      OBVIOUS
    <3>2. \A i \in 0 .. n - 1 : e[i] = IF i = 0 THEN {NULL} ELSE Over(f[i - 1])
      BY <3>1, Zenon
    <3>3. f = e
      BY <2>1, <3>1
    <3> QED
      BY <3>2, <3>3
  <2>3. ASSUME NEW i \in 0 .. n PROVE h[i] = IF i = 0 THEN {NULL} ELSE Over(h[i - 1])
    <3>1. CASE i = n
      <4>1. i # 0 /\ n - 1 \in 0 .. n /\ n - 1 # n
        BY <3>1
      <4>2. h[n - 1] = f[n - 1]
        BY <4>1
      <4> QED
        BY <3>1, <4>1, <4>2
    <3>2. CASE i # n
      <4>1. i \in 0 .. n - 1 /\ h[i] = f[i]
        BY <3>2
      <4>2. i # 0 => i - 1 \in 0 .. n /\ i - 1 # n
        BY <3>2
      <4>3. i # 0 => h[i - 1] = f[i - 1]
        BY <4>2
      <4> HIDE DEF h
      <4> QED
        BY <2>2, <4>1, <4>3
    <3> QED
      BY <3>1, <3>2
  <2>4. h = [i \in 0 .. n |-> h[i]]
    OBVIOUS
  <2> HIDE DEF h
  <2>5. Is(h, n)
    BY <2>3, <2>4
  <2> QED
    BY <2>5
<1>3. P = 0 .. Room
  <2>1. P \in SUBSET (0 .. Room)
    OBVIOUS
  <2> HIDE DEF P
  <2> QED
    BY <1>0, <1>1, <1>2, <2>1, UpTo
<1>4. Room \in P
  <2> HIDE DEF P
  <2> QED
    BY <1>0, <1>3
<1>5. PICK f : Is(f, Room)
  BY <1>4
<1>6. TreeUpTo = CHOOSE g : g = [i \in 0 .. Room |-> IF i = 0 THEN {NULL} ELSE Over(g[i - 1])]
  BY DEF TreeUpTo, Over
<1>7. TreeUpTo = [i \in 0 .. Room |-> IF i = 0 THEN {NULL} ELSE Over(TreeUpTo[i - 1])]
  BY <1>5, <1>6, Zenon
<1>8. PICK e : e = [i \in 0 .. Room |-> IF i = 0 THEN {NULL} ELSE Over(TreeUpTo[i - 1])]
  OBVIOUS
<1>9. DOMAIN e = 0 .. Room /\ \A i \in 0 .. Room : e[i] = IF i = 0 THEN {NULL} ELSE Over(TreeUpTo[i - 1])
  BY <1>8, Zenon
<1>10. TreeUpTo = e
  BY <1>7, <1>8
<1>11. \A n \in 1 .. Room : n \in 0 .. Room /\ n # 0
  OBVIOUS
<1> QED
  BY <1>0, <1>9, <1>10, <1>11
LEMMA NodeParts ==
  ASSUME NEW k, NEW l, NEW r
  PROVE  /\ Node(k, l, r) # NULL
         /\ Node(k, l, r).data = k /\ Node(k, l, r).left = l /\ Node(k, l, r).right = r
<1>1. Node(k, l, r) # NULL
  <2> SUFFICES ASSUME Node(k, l, r) = NULL PROVE FALSE
    OBVIOUS
  <2>1. DOMAIN Node(k, l, r) = {"data", "left", "right"}
    BY DEF Node
  <2>2. DOMAIN NULL = {}
    BY DEF NULL
  <2> QED
    BY <2>1, <2>2
<1> QED
  BY <1>1 DEF Node

LEMMA OverParts ==
  ASSUME NEW S, NEW t \in Over(S), t # NULL
  PROVE  t.data \in Key /\ t.left \in S /\ t.right \in S /\ t = Node(t.data, t.left, t.right)
BY DEF Over, Node

LEMMA InOver ==
  ASSUME NEW S, NEW k \in Key, NEW l \in S, NEW r \in S
  PROVE  Node(k, l, r) \in Over(S)
BY DEF Over, Node

LEMMA TreesGrow ==
  ASSUME NEW n \in 1 .. Room
  PROVE  TreeUpTo[n - 1] \subseteq TreeUpTo[n]
<1> DEFINE P == {i \in 0 .. Room : i = 0 \/ TreeUpTo[i - 1] \subseteq TreeUpTo[i]}
<1>0. Room \in Nat
  BY TreeAssumption
<1>1. 0 \in P
  BY <1>0
<1>2. ASSUME NEW i \in 1 .. Room, i - 1 \in P PROVE i \in P
  <2>1. TreeUpTo[i] = Over(TreeUpTo[i - 1])
    BY TreesUpTo
  <2>2. CASE i = 1
    BY <2>1, <2>2, TreesUpTo DEF Over
  <2>3. CASE i # 1
    <3>1. i - 1 \in 1 .. Room /\ i - 1 # 0
      BY <1>0, <2>3
    <3>2. TreeUpTo[i - 1] = Over(TreeUpTo[i - 1 - 1]) /\ TreeUpTo[i - 1 - 1] \subseteq TreeUpTo[i - 1]
      BY <1>2, <3>1, TreesUpTo
    <3>3. ASSUME NEW t \in TreeUpTo[i - 1] PROVE t \in TreeUpTo[i]
      <4>1. CASE t = NULL
        BY <2>1, <4>1 DEF Over
      <4>2. CASE t # NULL
        <5>1. t.data \in Key /\ t.left \in TreeUpTo[i - 1 - 1] /\ t.right \in TreeUpTo[i - 1 - 1]
              /\ t = Node(t.data, t.left, t.right)
          BY <3>2, <4>2, OverParts
        <5>2. Node(t.data, t.left, t.right) \in Over(TreeUpTo[i - 1])
          BY <3>2, <5>1, InOver
        <5> QED
          BY <2>1, <5>1, <5>2
      <4> QED
        BY <4>1, <4>2
    <3> QED
      BY <3>3
  <2> QED
    BY <2>2, <2>3
<1>3. P = 0 .. Room
  <2>1. P \in SUBSET (0 .. Room)
    OBVIOUS
  <2> HIDE DEF P
  <2> QED
    BY <1>0, <1>1, <1>2, <2>1, UpTo
<1>4. n \in P /\ n # 0
  <2> HIDE DEF P
  <2> QED
    BY <1>0, <1>3
<1> QED
  BY <1>4

LEMMA TreesWithin ==
  ASSUME NEW n \in 0 .. Room, NEW m \in 0 .. n
  PROVE  TreeUpTo[m] \subseteq TreeUpTo[n]
<1> DEFINE P == {j \in 0 .. Room : \A i \in 0 .. j : TreeUpTo[i] \subseteq TreeUpTo[j]}
<1>0. Room \in Nat
  BY TreeAssumption
<1>1. 0 \in P
  BY <1>0
<1>2. ASSUME NEW j \in 1 .. Room, j - 1 \in P PROVE j \in P
  <2>1. TreeUpTo[j - 1] \subseteq TreeUpTo[j]
    BY TreesGrow
  <2>2. \A i \in 0 .. j : i = j \/ i \in 0 .. j - 1
    OBVIOUS
  <2> QED
    BY <1>2, <2>1, <2>2
<1>3. P = 0 .. Room
  <2>1. P \in SUBSET (0 .. Room)
    OBVIOUS
  <2> HIDE DEF P
  <2> QED
    BY <1>0, <1>1, <1>2, <2>1, UpTo
<1>4. n \in P
  BY <1>3
<1> QED
  BY <1>4

(* The parts of a tree are trees.                                          *)
LEMMA TreeParts ==
  ASSUME NEW n \in 0 .. Room, NEW t \in TreeUpTo[n], t # NULL
  PROVE  /\ n >= 1 /\ t = Node(t.data, t.left, t.right)
         /\ t.data \in Key /\ t.left \in TreeUpTo[n - 1] /\ t.right \in TreeUpTo[n - 1]
<1>1. n >= 1
  BY TreesUpTo
<1>2. TreeUpTo[n] = Over(TreeUpTo[n - 1])
  BY <1>1, TreesUpTo
<1> QED
  BY <1>1, <1>2, OverParts

LEMMA Subtrees ==
  ASSUME NEW t \in Tree, t # NULL
  PROVE  /\ Room >= 1 /\ t = Node(t.data, t.left, t.right)
         /\ t.data \in Key /\ t.left \in Tree /\ t.right \in Tree
<1>1. Room \in 0 .. Room
  BY TreeAssumption
<1>2. PICK n \in 0 .. Room : n = Room
  BY <1>1
<1>3. /\ n >= 1 /\ t = Node(t.data, t.left, t.right)
      /\ t.data \in Key /\ t.left \in TreeUpTo[n - 1] /\ t.right \in TreeUpTo[n - 1]
  BY <1>2, TreeParts DEF Tree
<1>4. n \in 1 .. Room
  BY <1>3
<1>5. TreeUpTo[n - 1] \subseteq TreeUpTo[n]
  BY <1>4, TreesGrow
<1> QED
  BY <1>2, <1>3, <1>5 DEF Tree

LEMMA NullIsTree ==
  ASSUME NEW n \in 0 .. Room
  PROVE  NULL \in TreeUpTo[n] /\ NULL \in Tree
<1>1. 0 \in 0 .. n /\ n \in 0 .. Room /\ Room \in 0 .. Room /\ 0 \in 0 .. Room
  BY TreeAssumption
<1>2. TreeUpTo[0] \subseteq TreeUpTo[n] /\ TreeUpTo[0] \subseteq TreeUpTo[Room]
  BY <1>1, TreesWithin
<1> QED
  BY <1>2, TreesUpTo DEF Tree

(* What holds of the empty tree, and of a node when it does of both sides, *)
(* holds of every tree.                                                    *)
LEMMA TreeInduction ==
  ASSUME NEW P, NULL \in P,
         \A t \in Tree : t # NULL /\ t.left \in P /\ t.right \in P => t \in P
  PROVE  Tree \subseteq P
<1> DEFINE Q == {n \in 0 .. Room : TreeUpTo[n] \subseteq P}
<1>0. Room \in Nat
  BY TreeAssumption
<1>1. 0 \in Q
  BY <1>0, TreesUpTo
<1>2. ASSUME NEW n \in 1 .. Room, n - 1 \in Q PROVE n \in Q
  <2>1. ASSUME NEW t \in TreeUpTo[n] PROVE t \in P
    <3>1. n \in 0 .. Room /\ Room \in 0 .. Room /\ n \in 0 .. Room
      BY <1>0
    <3>2. t \in Tree
      BY <3>1, TreesWithin DEF Tree
    <3>3. CASE t # NULL
      <4>1. t.left \in TreeUpTo[n - 1] /\ t.right \in TreeUpTo[n - 1]
        BY <3>1, <3>3, TreeParts
      <4> QED
        BY <1>2, <3>2, <3>3, <4>1
    <3> QED
      BY <3>3
  <2> QED
    BY <2>1
<1>3. Q = 0 .. Room
  <2>1. Q \in SUBSET (0 .. Room)
    OBVIOUS
  <2> HIDE DEF Q
  <2> QED
    BY <1>0, <1>1, <1>2, <2>1, UpTo
<1>4. Room \in Q
  <2> HIDE DEF Q
  <2> QED
    BY <1>0, <1>3
<1> QED
  BY <1>4 DEF Tree

-----------------------------------------------------------------------------
(* Recursion on trees                                                      *)

OnTrees(f, S, x0, g) ==
  f \in [Tree -> S] /\ f[NULL] = x0
  /\ \A t \in Tree : t # NULL => f[t] = g[t][f[t.left]][f[t.right]]

LEMMA TreeRecursion ==
  ASSUME NEW S, NEW x0 \in S, NEW g \in [Tree -> [S -> [S -> S]]]
  PROVE  \E f : OnTrees(f, S, x0, g)
<1> DEFINE Is(f, n) == /\ f \in [TreeUpTo[n] -> S] /\ f[NULL] = x0
                       /\ \A t \in TreeUpTo[n] : t # NULL => f[t] = g[t][f[t.left]][f[t.right]]
           P == {n \in 0 .. Room : \E f : Is(f, n)}
<1>0. Room \in Nat /\ Room \in 0 .. Room /\ 0 \in 0 .. Room
  BY TreeAssumption
<1>1. 0 \in P
  <2> DEFINE h == [t \in TreeUpTo[0] |-> x0]
  <2>1. h \in [TreeUpTo[0] -> S] /\ h[NULL] = x0 /\ \A t \in TreeUpTo[0] : t = NULL
    BY TreesUpTo
  <2> HIDE DEF h
  <2>2. Is(h, 0)
    BY <2>1
  <2> QED
    BY <1>0, <2>2
<1>2. ASSUME NEW n \in 1 .. Room, n - 1 \in P PROVE n \in P
  <2>1. PICK f : Is(f, n - 1)
    BY <1>2
  <2> DEFINE h == [t \in TreeUpTo[n] |-> IF t = NULL THEN x0 ELSE g[t][f[t.left]][f[t.right]]]
  <2>2. n \in 0 .. Room /\ n - 1 \in 0 .. Room
    BY <1>0
  <2>3. ASSUME NEW t \in TreeUpTo[n], t # NULL
        PROVE  t \in Tree /\ t.left \in TreeUpTo[n - 1] /\ t.right \in TreeUpTo[n - 1]
    BY <1>0, <2>2, <2>3, TreeParts, TreesWithin DEF Tree
  <2>4. h \in [TreeUpTo[n] -> S]
    <3>1. ASSUME NEW t \in TreeUpTo[n], t # NULL PROVE g[t][f[t.left]][f[t.right]] \in S
      <4>1. f[t.left] \in S /\ f[t.right] \in S
        BY <2>1, <2>3, <3>1
      <4>2. g[t] \in [S -> [S -> S]]
        BY <2>3, <3>1
      <4> QED
        BY <4>1, <4>2
    <3> QED
      BY <3>1
  <2>5. \A t \in TreeUpTo[n - 1] : t \in TreeUpTo[n] /\ h[t] = f[t]
    <3>1. TreeUpTo[n - 1] \subseteq TreeUpTo[n]
      BY TreesGrow
    <3> QED
      BY <2>1, <3>1
  <2>6. h[NULL] = x0
    BY <2>2, NullIsTree
  <2>7. ASSUME NEW t \in TreeUpTo[n], t # NULL PROVE h[t] = g[t][h[t.left]][h[t.right]]
    <3>1. h[t.left] = f[t.left] /\ h[t.right] = f[t.right]
      BY <2>3, <2>5, <2>7
    <3>2. h[t] = g[t][f[t.left]][f[t.right]]
      BY <2>7
    <3> HIDE DEF h
    <3> QED
      BY <3>1, <3>2
  <2> HIDE DEF h
  <2>8. Is(h, n)
    BY <2>4, <2>6, <2>7
  <2> QED
    BY <2>2, <2>8
<1>3. P = 0 .. Room
  <2>1. P \in SUBSET (0 .. Room)
    OBVIOUS
  <2> HIDE DEF P
  <2> QED
    BY <1>0, <1>1, <1>2, <2>1, UpTo
<1>4. Room \in P
  <2> HIDE DEF P
  <2> QED
    BY <1>0, <1>3
<1>5. PICK f : Is(f, Room)
  BY <1>4
<1> QED
  BY <1>5 DEF OnTrees, Tree

LEMMA HeightIs ==
  /\ height \in [Tree -> Nat] /\ height[NULL] = 0
  /\ \A t \in Tree : t # NULL => height[t] = 1 + max(height[t.left], height[t.right])
<1> DEFINE g == [t \in Tree |-> [a \in Nat |-> [b \in Nat |-> 1 + max(a, b)]]]
<1>0. NULL \in Tree
  BY NullIsTree, TreeAssumption
<1>1. g \in [Tree -> [Nat -> [Nat -> Nat]]]
  <2>1. \A a, b \in Nat : 1 + max(a, b) \in Nat
    BY DEF max
  <2> QED
    BY <2>1
<1>2. \A t \in Tree, a, b \in Nat : g[t][a][b] = 1 + max(a, b)
  OBVIOUS
<1>3. \E f : OnTrees(f, Nat, 0, g)
  <2> HIDE DEF g
  <2> QED
    BY <1>1, TreeRecursion
<1>4. PICK f : OnTrees(f, Nat, 0, g)
  BY <1>3
<1> HIDE DEF g
<1>5. f \in [Tree -> Nat]
      /\ \A t \in Tree : f[t] = IF t = NULL THEN 0 ELSE 1 + max(f[t.left], f[t.right])
  BY <1>2, <1>4, Subtrees DEF OnTrees
<1>6. f = [t \in Tree |-> IF t = NULL THEN 0 ELSE 1 + max(f[t.left], f[t.right])]
  BY <1>5
<1>7. height = CHOOSE h : h = [t \in Tree |-> IF t = NULL THEN 0 ELSE 1 + max(h[t.left], h[t.right])]
  BY DEF height
<1>8. height = [t \in Tree |-> IF t = NULL THEN 0 ELSE 1 + max(height[t.left], height[t.right])]
  BY <1>6, <1>7, Zenon
<1>9. /\ height[NULL] = 0
      /\ \A t \in Tree : t # NULL => height[t] = 1 + max(height[t.left], height[t.right])
  <2>1. PICK e : e = [t \in Tree |-> IF t = NULL THEN 0 ELSE 1 + max(height[t.left], height[t.right])]
    OBVIOUS
  <2>2. \A t \in Tree : e[t] = IF t = NULL THEN 0 ELSE 1 + max(height[t.left], height[t.right])
    BY <2>1, Zenon
  <2>3. height = e
    BY <1>8, <2>1
  <2> QED
    BY <1>0, <2>2, <2>3
<1>10. \A t \in Tree : height[t] \in Nat
  <2> DEFINE P == {t \in Tree : height[t] \in Nat}
  <2>1. NULL \in P
    BY <1>0, <1>9
  <2>2. ASSUME NEW t \in Tree, t # NULL, t.left \in P, t.right \in P PROVE t \in P
    BY <1>9, <2>2 DEF max
  <2> HIDE DEF P
  <2>3. Tree \subseteq P
    BY <2>1, <2>2, TreeInduction
  <2> QED
    BY <2>3 DEF P
<1>11. height = [t \in Tree |-> height[t]]
  BY <1>8
<1> QED
  BY <1>9, <1>10, <1>11

(* The steps of insert and deleteNode at a node, a and b being what they   *)
(* do to its two sides.                                                    *)
InsertStep(t, a, b) ==
  [k \in Key |->
     IF k < t.data THEN AfterInsert([t EXCEPT !.left = a[k]], k)
     ELSE IF k > t.data THEN AfterInsert([t EXCEPT !.right = b[k]], k)
     ELSE t]

DeleteStep(t, a, b) ==
  [k \in Key |->
     IF k < t.data THEN AfterDelete([t EXCEPT !.left = a[k]])
     ELSE IF k > t.data THEN AfterDelete([t EXCEPT !.right = b[k]])
     ELSE IF t.left = NULL /\ t.right = NULL THEN NULL
     ELSE IF t.right = NULL THEN AfterDelete(t.left)
     ELSE IF t.left = NULL THEN AfterDelete(t.right)
     ELSE LET next == minValueNode[t.right].data
          IN  AfterDelete(Node(next, t.left, b[next]))]

FindStep(t, a, b) == [k \in Key |-> IF k < t.data THEN a[k] ELSE IF k > t.data THEN b[k] ELSE TRUE]

LEMMA InsertRecursion ==
  /\ insert[NULL] = [k \in Key |-> newNode(k)]
  /\ \A t \in Tree : t # NULL => insert[t] = InsertStep(t, insert[t.left], insert[t.right])
<1> DEFINE Is(f, n) == f = [t \in TreeUpTo[n] |-> IF t = NULL THEN [k \in Key |-> newNode(k)]
                                                  ELSE InsertStep(t, f[t.left], f[t.right])]
           P == {n \in 0 .. Room : \E f : Is(f, n)}
<1>0. Room \in Nat /\ Room \in 0 .. Room /\ 0 \in 0 .. Room
  BY TreeAssumption
<1>1. 0 \in P
  <2> DEFINE h == [t \in TreeUpTo[0] |-> [k \in Key |-> newNode(k)]]
  <2>1. \A t \in TreeUpTo[0] : t = NULL
    BY TreesUpTo
  <2>2. h = [t \in TreeUpTo[0] |-> IF t = NULL THEN [k \in Key |-> newNode(k)] ELSE InsertStep(t, h[t.left], h[t.right])]
    BY <2>1
  <2> HIDE DEF h
  <2>3. Is(h, 0)
    BY <2>2
  <2> QED
    BY <1>0, <2>3
<1>2. ASSUME NEW n \in 1 .. Room, n - 1 \in P PROVE n \in P
  <2>1. PICK f : Is(f, n - 1)
    BY <1>2
  <2> DEFINE h == [t \in TreeUpTo[n] |-> IF t = NULL THEN [k \in Key |-> newNode(k)] ELSE InsertStep(t, f[t.left], f[t.right])]
  <2>2. n \in 0 .. Room /\ n - 1 \in 0 .. Room
    BY <1>0
  <2>3. ASSUME NEW t \in TreeUpTo[n], t # NULL
        PROVE  t.left \in TreeUpTo[n - 1] /\ t.right \in TreeUpTo[n - 1]
    BY <2>2, <2>3, TreeParts
  <2>4. \A t \in TreeUpTo[n - 1] : f[t] = IF t = NULL THEN [k \in Key |-> newNode(k)] ELSE InsertStep(t, f[t.left], f[t.right])
    <3>1. PICK e : e = [t \in TreeUpTo[n - 1] |-> IF t = NULL THEN [k \in Key |-> newNode(k)] ELSE InsertStep(t, f[t.left], f[t.right])]
      OBVIOUS
    <3>2. \A t \in TreeUpTo[n - 1] : e[t] = IF t = NULL THEN [k \in Key |-> newNode(k)] ELSE InsertStep(t, f[t.left], f[t.right])
      BY <3>1, Zenon
    <3>3. f = e
      BY <2>1, <3>1
    <3> QED
      BY <3>2, <3>3
  <2>5. \A t \in TreeUpTo[n] : h[t] = IF t = NULL THEN [k \in Key |-> newNode(k)] ELSE InsertStep(t, f[t.left], f[t.right])
    OBVIOUS
  <2>6. h = [t \in TreeUpTo[n] |-> h[t]]
    OBVIOUS
  <2> HIDE DEF h
  <2>7. \A t \in TreeUpTo[n - 1] : h[t] = f[t]
    BY <2>4, <2>5, TreesGrow
  <2>8. ASSUME NEW t \in TreeUpTo[n]
        PROVE  h[t] = IF t = NULL THEN [k \in Key |-> newNode(k)] ELSE InsertStep(t, h[t.left], h[t.right])
    <3>1. CASE t = NULL
      BY <2>5, <3>1
    <3>2. CASE t # NULL
      <4>1. h[t.left] = f[t.left] /\ h[t.right] = f[t.right]
        BY <2>3, <2>7, <3>2
      <4> QED
        BY <2>5, <3>2, <4>1
    <3> QED
      BY <3>1, <3>2
  <2>9. Is(h, n)
    BY <2>6, <2>8
  <2> QED
    BY <2>2, <2>9
<1>3. P = 0 .. Room
  <2>1. P \in SUBSET (0 .. Room)
    OBVIOUS
  <2> HIDE DEF P
  <2> QED
    BY <1>0, <1>1, <1>2, <2>1, UpTo
<1>4. Room \in P
  <2> HIDE DEF P
  <2> QED
    BY <1>0, <1>3
<1>5. PICK f : Is(f, Room)
  BY <1>4
<1>6. insert = CHOOSE h : h = [t \in Tree |-> IF t = NULL THEN [k \in Key |-> newNode(k)] ELSE InsertStep(t, h[t.left], h[t.right])]
  BY DEF insert, InsertStep
<1>7. f = [t \in Tree |-> IF t = NULL THEN [k \in Key |-> newNode(k)] ELSE InsertStep(t, f[t.left], f[t.right])]
  BY <1>5 DEF Tree
<1>8. insert = [t \in Tree |-> IF t = NULL THEN [k \in Key |-> newNode(k)] ELSE InsertStep(t, insert[t.left], insert[t.right])]
  BY <1>6, <1>7, Zenon
<1>9. PICK e : e = [t \in Tree |-> IF t = NULL THEN [k \in Key |-> newNode(k)] ELSE InsertStep(t, insert[t.left], insert[t.right])]
  OBVIOUS
<1>10. \A t \in Tree : e[t] = IF t = NULL THEN [k \in Key |-> newNode(k)] ELSE InsertStep(t, insert[t.left], insert[t.right])
  BY <1>9, Zenon
<1>11. insert = e
  BY <1>8, <1>9
<1>12. NULL \in Tree
  BY NullIsTree, <1>0
<1> QED
  BY <1>10, <1>11, <1>12

LEMMA DeleteRecursion ==
  /\ deleteNode[NULL] = [k \in Key |-> NULL]
  /\ \A t \in Tree : t # NULL => deleteNode[t] = DeleteStep(t, deleteNode[t.left], deleteNode[t.right])
<1> DEFINE Is(f, n) == f = [t \in TreeUpTo[n] |-> IF t = NULL THEN [k \in Key |-> NULL]
                                                  ELSE DeleteStep(t, f[t.left], f[t.right])]
           P == {n \in 0 .. Room : \E f : Is(f, n)}
<1>0. Room \in Nat /\ Room \in 0 .. Room /\ 0 \in 0 .. Room
  BY TreeAssumption
<1>1. 0 \in P
  <2> DEFINE h == [t \in TreeUpTo[0] |-> [k \in Key |-> NULL]]
  <2>1. \A t \in TreeUpTo[0] : t = NULL
    BY TreesUpTo
  <2>2. h = [t \in TreeUpTo[0] |-> IF t = NULL THEN [k \in Key |-> NULL] ELSE DeleteStep(t, h[t.left], h[t.right])]
    BY <2>1
  <2> HIDE DEF h
  <2>3. Is(h, 0)
    BY <2>2
  <2> QED
    BY <1>0, <2>3
<1>2. ASSUME NEW n \in 1 .. Room, n - 1 \in P PROVE n \in P
  <2>1. PICK f : Is(f, n - 1)
    BY <1>2
  <2> DEFINE h == [t \in TreeUpTo[n] |-> IF t = NULL THEN [k \in Key |-> NULL] ELSE DeleteStep(t, f[t.left], f[t.right])]
  <2>2. n \in 0 .. Room /\ n - 1 \in 0 .. Room
    BY <1>0
  <2>3. ASSUME NEW t \in TreeUpTo[n], t # NULL
        PROVE  t.left \in TreeUpTo[n - 1] /\ t.right \in TreeUpTo[n - 1]
    BY <2>2, <2>3, TreeParts
  <2>4. \A t \in TreeUpTo[n - 1] : f[t] = IF t = NULL THEN [k \in Key |-> NULL] ELSE DeleteStep(t, f[t.left], f[t.right])
    <3>1. PICK e : e = [t \in TreeUpTo[n - 1] |-> IF t = NULL THEN [k \in Key |-> NULL] ELSE DeleteStep(t, f[t.left], f[t.right])]
      OBVIOUS
    <3>2. \A t \in TreeUpTo[n - 1] : e[t] = IF t = NULL THEN [k \in Key |-> NULL] ELSE DeleteStep(t, f[t.left], f[t.right])
      BY <3>1, Zenon
    <3>3. f = e
      BY <2>1, <3>1
    <3> QED
      BY <3>2, <3>3
  <2>5. \A t \in TreeUpTo[n] : h[t] = IF t = NULL THEN [k \in Key |-> NULL] ELSE DeleteStep(t, f[t.left], f[t.right])
    OBVIOUS
  <2>6. h = [t \in TreeUpTo[n] |-> h[t]]
    OBVIOUS
  <2> HIDE DEF h
  <2>7. \A t \in TreeUpTo[n - 1] : h[t] = f[t]
    BY <2>4, <2>5, TreesGrow
  <2>8. ASSUME NEW t \in TreeUpTo[n]
        PROVE  h[t] = IF t = NULL THEN [k \in Key |-> NULL] ELSE DeleteStep(t, h[t.left], h[t.right])
    <3>1. CASE t = NULL
      BY <2>5, <3>1
    <3>2. CASE t # NULL
      <4>1. h[t.left] = f[t.left] /\ h[t.right] = f[t.right]
        BY <2>3, <2>7, <3>2
      <4> QED
        BY <2>5, <3>2, <4>1
    <3> QED
      BY <3>1, <3>2
  <2>9. Is(h, n)
    BY <2>6, <2>8
  <2> QED
    BY <2>2, <2>9
<1>3. P = 0 .. Room
  <2>1. P \in SUBSET (0 .. Room)
    OBVIOUS
  <2> HIDE DEF P
  <2> QED
    BY <1>0, <1>1, <1>2, <2>1, UpTo
<1>4. Room \in P
  <2> HIDE DEF P
  <2> QED
    BY <1>0, <1>3
<1>5. PICK f : Is(f, Room)
  BY <1>4
<1>6. deleteNode = CHOOSE h : h = [t \in Tree |-> IF t = NULL THEN [k \in Key |-> NULL] ELSE DeleteStep(t, h[t.left], h[t.right])]
  BY DEF deleteNode, DeleteStep
<1>7. f = [t \in Tree |-> IF t = NULL THEN [k \in Key |-> NULL] ELSE DeleteStep(t, f[t.left], f[t.right])]
  BY <1>5 DEF Tree
<1>8. deleteNode = [t \in Tree |-> IF t = NULL THEN [k \in Key |-> NULL] ELSE DeleteStep(t, deleteNode[t.left], deleteNode[t.right])]
  BY <1>6, <1>7, Zenon
<1>9. PICK e : e = [t \in Tree |-> IF t = NULL THEN [k \in Key |-> NULL] ELSE DeleteStep(t, deleteNode[t.left], deleteNode[t.right])]
  OBVIOUS
<1>10. \A t \in Tree : e[t] = IF t = NULL THEN [k \in Key |-> NULL] ELSE DeleteStep(t, deleteNode[t.left], deleteNode[t.right])
  BY <1>9, Zenon
<1>11. deleteNode = e
  BY <1>8, <1>9
<1>12. NULL \in Tree
  BY NullIsTree, <1>0
<1> QED
  BY <1>10, <1>11, <1>12

Even(t) == getBalance(t) \in -1 .. 1

LEMMA OrderIs ==
  /\ preOrder \in [Tree -> Seq(Key)] /\ preOrder[NULL] = <<>>
  /\ \A t \in Tree : t # NULL => preOrder[t] = <<t.data>> \o preOrder[t.left] \o preOrder[t.right]
<1> DEFINE g == [t \in Tree |-> [a \in Seq(Key) |-> [b \in Seq(Key) |-> IF t = NULL THEN <<>> ELSE <<t.data>> \o a \o b]]]
<1>0. NULL \in Tree /\ <<>> \in Seq(Key)
  BY NullIsTree, TreeAssumption
<1>1. \A t \in Tree : \A a, b \in Seq(Key) : t # NULL => <<t.data>> \o a \o b \in Seq(Key)
  BY Subtrees
<1>2. g \in [Tree -> [Seq(Key) -> [Seq(Key) -> Seq(Key)]]]
  BY <1>0, <1>1
<1>3. \A t \in Tree : \A a, b \in Seq(Key) : t # NULL => g[t][a][b] = <<t.data>> \o a \o b
  OBVIOUS
<1>4. \E f : OnTrees(f, Seq(Key), <<>>, g)
  <2> HIDE DEF g
  <2> QED
    BY <1>0, <1>2, TreeRecursion
<1>5. PICK f : OnTrees(f, Seq(Key), <<>>, g)
  BY <1>4
<1> HIDE DEF g
<1>6. f \in [Tree -> Seq(Key)] /\ \A t \in Tree : f[t] = IF t = NULL THEN <<>> ELSE <<t.data>> \o f[t.left] \o f[t.right]
  <2>1. f \in [Tree -> Seq(Key)] /\ f[NULL] = <<>>
        /\ \A t \in Tree : t # NULL => f[t] = g[t][f[t.left]][f[t.right]]
    BY <1>5 DEF OnTrees
  <2>2. ASSUME NEW t \in Tree, t # NULL PROVE f[t] = <<t.data>> \o f[t.left] \o f[t.right]
    <3>1. f[t.left] \in Seq(Key) /\ f[t.right] \in Seq(Key)
      BY <2>1, <2>2, Subtrees
    <3> QED
      BY <1>3, <2>1, <2>2, <3>1
  <2> QED
    BY <2>1, <2>2
<1>7. f = [t \in Tree |-> IF t = NULL THEN <<>> ELSE <<t.data>> \o f[t.left] \o f[t.right]]
  BY <1>6
<1>8. preOrder = CHOOSE h : h = [t \in Tree |-> IF t = NULL THEN <<>> ELSE <<t.data>> \o h[t.left] \o h[t.right]]
  BY DEF preOrder
<1>9. preOrder = [t \in Tree |-> IF t = NULL THEN <<>> ELSE <<t.data>> \o preOrder[t.left] \o preOrder[t.right]]
  BY <1>7, <1>8, Zenon
<1>10. \A t \in Tree : preOrder[t] = (IF t = NULL THEN <<>> ELSE <<t.data>> \o preOrder[t.left] \o preOrder[t.right])
  <2>1. PICK e : e = [t \in Tree |-> IF t = NULL THEN <<>> ELSE <<t.data>> \o preOrder[t.left] \o preOrder[t.right]]
    OBVIOUS
  <2>2. \A t \in Tree : e[t] = (IF t = NULL THEN <<>> ELSE <<t.data>> \o preOrder[t.left] \o preOrder[t.right])
    BY <2>1, Zenon
  <2>3. preOrder = e
    BY <1>9, <2>1
  <2> QED
    BY <2>2, <2>3
<1> DEFINE P == {t \in Tree : preOrder[t] \in Seq(Key)}
<1>11. NULL \in P
  BY <1>0, <1>10
<1>12. ASSUME NEW t \in Tree, t # NULL, t.left \in P, t.right \in P PROVE t \in P
  BY <1>1, <1>10, <1>12
<1>13. Tree \subseteq P
  <2> HIDE DEF P
  <2> QED
    BY <1>11, <1>12, TreeInduction
<1>14. preOrder = [t \in Tree |-> preOrder[t]]
  BY <1>9
<1> QED
  BY <1>0, <1>10, <1>13, <1>14

LEMMA FindsIs ==
  /\ Finds \in [Tree -> [Key -> BOOLEAN]] /\ Finds[NULL] = [k \in Key |-> FALSE]
  /\ \A t \in Tree : t # NULL => Finds[t] = FindStep(t, Finds[t.left], Finds[t.right])
<1> DEFINE g == [t \in Tree |-> [a \in [Key -> BOOLEAN] |-> [b \in [Key -> BOOLEAN] |-> IF t = NULL THEN [k \in Key |-> FALSE] ELSE FindStep(t, a, b)]]]
<1>0. NULL \in Tree /\ [k \in Key |-> FALSE] \in [Key -> BOOLEAN]
  BY NullIsTree, TreeAssumption
<1>1. \A t \in Tree : \A a, b \in [Key -> BOOLEAN] : t # NULL => FindStep(t, a, b) \in [Key -> BOOLEAN]
  BY Subtrees DEF FindStep
<1>2. g \in [Tree -> [[Key -> BOOLEAN] -> [[Key -> BOOLEAN] -> [Key -> BOOLEAN]]]]
  BY <1>0, <1>1
<1>3. \A t \in Tree : \A a, b \in [Key -> BOOLEAN] : t # NULL => g[t][a][b] = FindStep(t, a, b)
  OBVIOUS
<1>4. \E f : OnTrees(f, [Key -> BOOLEAN], [k \in Key |-> FALSE], g)
  <2> HIDE DEF g
  <2> QED
    BY <1>0, <1>2, TreeRecursion
<1>5. PICK f : OnTrees(f, [Key -> BOOLEAN], [k \in Key |-> FALSE], g)
  BY <1>4
<1> HIDE DEF g
<1>6. f \in [Tree -> [Key -> BOOLEAN]] /\ \A t \in Tree : f[t] = IF t = NULL THEN [k \in Key |-> FALSE] ELSE FindStep(t, f[t.left], f[t.right])
  <2>1. f \in [Tree -> [Key -> BOOLEAN]] /\ f[NULL] = [k \in Key |-> FALSE]
        /\ \A t \in Tree : t # NULL => f[t] = g[t][f[t.left]][f[t.right]]
    BY <1>5 DEF OnTrees
  <2>2. ASSUME NEW t \in Tree, t # NULL PROVE f[t] = FindStep(t, f[t.left], f[t.right])
    <3>1. f[t.left] \in [Key -> BOOLEAN] /\ f[t.right] \in [Key -> BOOLEAN]
      BY <2>1, <2>2, Subtrees
    <3> QED
      BY <1>3, <2>1, <2>2, <3>1
  <2> QED
    BY <2>1, <2>2
<1>7. f = [t \in Tree |-> IF t = NULL THEN [k \in Key |-> FALSE] ELSE FindStep(t, f[t.left], f[t.right])]
  BY <1>6
<1>8. Finds = CHOOSE h : h = [t \in Tree |-> IF t = NULL THEN [k \in Key |-> FALSE] ELSE FindStep(t, h[t.left], h[t.right])]
  BY DEF Finds, FindStep
<1>9. Finds = [t \in Tree |-> IF t = NULL THEN [k \in Key |-> FALSE] ELSE FindStep(t, Finds[t.left], Finds[t.right])]
  BY <1>7, <1>8, Zenon
<1>10. \A t \in Tree : Finds[t] = (IF t = NULL THEN [k \in Key |-> FALSE] ELSE FindStep(t, Finds[t.left], Finds[t.right]))
  <2>1. PICK e : e = [t \in Tree |-> IF t = NULL THEN [k \in Key |-> FALSE] ELSE FindStep(t, Finds[t.left], Finds[t.right])]
    OBVIOUS
  <2>2. \A t \in Tree : e[t] = (IF t = NULL THEN [k \in Key |-> FALSE] ELSE FindStep(t, Finds[t.left], Finds[t.right]))
    BY <2>1, Zenon
  <2>3. Finds = e
    BY <1>9, <2>1
  <2> QED
    BY <2>2, <2>3
<1> DEFINE P == {t \in Tree : Finds[t] \in [Key -> BOOLEAN]}
<1>11. NULL \in P
  BY <1>0, <1>10
<1>12. ASSUME NEW t \in Tree, t # NULL, t.left \in P, t.right \in P PROVE t \in P
  BY <1>1, <1>10, <1>12
<1>13. Tree \subseteq P
  <2> HIDE DEF P
  <2> QED
    BY <1>11, <1>12, TreeInduction
<1>14. Finds = [t \in Tree |-> Finds[t]]
  BY <1>9
<1> QED
  BY <1>0, <1>10, <1>13, <1>14

LEMMA BalancedIs ==
  /\ IsBalanced \in [Tree -> BOOLEAN] /\ IsBalanced[NULL] = TRUE
  /\ \A t \in Tree : t # NULL => IsBalanced[t] = (Even(t) /\ IsBalanced[t.left] /\ IsBalanced[t.right])
<1> DEFINE g == [t \in Tree |-> [a \in BOOLEAN |-> [b \in BOOLEAN |-> IF t = NULL THEN TRUE ELSE (Even(t) /\ a /\ b)]]]
<1>0. NULL \in Tree /\ TRUE \in BOOLEAN
  BY NullIsTree, TreeAssumption
<1>1. \A t \in Tree : \A a, b \in BOOLEAN : t # NULL => (Even(t) /\ a /\ b) \in BOOLEAN
  OBVIOUS
<1>2. g \in [Tree -> [BOOLEAN -> [BOOLEAN -> BOOLEAN]]]
  BY <1>0, <1>1
<1>3. \A t \in Tree : \A a, b \in BOOLEAN : t # NULL => g[t][a][b] = (Even(t) /\ a /\ b)
  OBVIOUS
<1>4. \E f : OnTrees(f, BOOLEAN, TRUE, g)
  <2> HIDE DEF g
  <2> QED
    BY <1>0, <1>2, TreeRecursion
<1>5. PICK f : OnTrees(f, BOOLEAN, TRUE, g)
  BY <1>4
<1> HIDE DEF g
<1>6. f \in [Tree -> BOOLEAN] /\ \A t \in Tree : f[t] = (t # NULL => (Even(t) /\ f[t.left] /\ f[t.right]))
  <2>1. f \in [Tree -> BOOLEAN] /\ f[NULL] = TRUE
        /\ \A t \in Tree : t # NULL => f[t] = g[t][f[t.left]][f[t.right]]
    BY <1>5 DEF OnTrees
  <2>2. ASSUME NEW t \in Tree, t # NULL PROVE f[t] = (Even(t) /\ f[t.left] /\ f[t.right])
    <3>1. f[t.left] \in BOOLEAN /\ f[t.right] \in BOOLEAN
      BY <2>1, <2>2, Subtrees
    <3> QED
      BY <1>3, <2>1, <2>2, <3>1
  <2> QED
    BY <2>1, <2>2
<1>7. f = [t \in Tree |-> (t # NULL => (Even(t) /\ f[t.left] /\ f[t.right]))]
  BY <1>6
<1>8. IsBalanced = CHOOSE h : h = [t \in Tree |-> (t # NULL => (Even(t) /\ h[t.left] /\ h[t.right]))]
  BY DEF IsBalanced, Even
<1>9. IsBalanced = [t \in Tree |-> (t # NULL => (Even(t) /\ IsBalanced[t.left] /\ IsBalanced[t.right]))]
  BY <1>7, <1>8
<1>10. \A t \in Tree : IsBalanced[t] = ((t # NULL => (Even(t) /\ IsBalanced[t.left] /\ IsBalanced[t.right])))
  <2>1. PICK e : e = [t \in Tree |-> (t # NULL => (Even(t) /\ IsBalanced[t.left] /\ IsBalanced[t.right]))]
    OBVIOUS
  <2>2. \A t \in Tree : e[t] = ((t # NULL => (Even(t) /\ IsBalanced[t.left] /\ IsBalanced[t.right])))
    BY <2>1, Zenon
  <2>3. IsBalanced = e
    BY <1>9, <2>1
  <2> QED
    BY <2>2, <2>3
<1> DEFINE P == {t \in Tree : IsBalanced[t] \in BOOLEAN}
<1>11. NULL \in P
  BY <1>0, <1>10
<1>12. ASSUME NEW t \in Tree, t # NULL, t.left \in P, t.right \in P PROVE t \in P
  BY <1>1, <1>10, <1>12
<1>13. Tree \subseteq P
  <2> HIDE DEF P
  <2> QED
    BY <1>11, <1>12, TreeInduction
<1>14. IsBalanced = [t \in Tree |-> IsBalanced[t]]
  BY <1>9
<1> QED
  BY <1>0, <1>10, <1>13, <1>14

-----------------------------------------------------------------------------
(* Keys and their order                                                    *)

KeysOf(t) == Range(preOrder[t])

LEMMA RangeOfConcat ==
  ASSUME NEW S, NEW a \in Seq(S), NEW b \in Seq(S)
  PROVE  Range(a \o b) = Range(a) \union Range(b)
<1>1. /\ a \o b \in Seq(S) /\ Len(a \o b) = Len(a) + Len(b)
      /\ \A i \in 1 .. Len(a) + Len(b) :
           (a \o b)[i] = IF i <= Len(a) THEN a[i] ELSE b[i - Len(a)]
  BY ConcatProperties
<1>2. Len(a) \in Nat /\ Len(b) \in Nat
  BY LenProperties
<1>3. DOMAIN a = 1 .. Len(a) /\ DOMAIN b = 1 .. Len(b) /\ DOMAIN (a \o b) = 1 .. Len(a) + Len(b)
  BY <1>1, LenProperties
<1>4. ASSUME NEW x \in Range(a \o b) PROVE x \in Range(a) \union Range(b)
  <2>1. PICK i \in 1 .. Len(a) + Len(b) : x = (a \o b)[i]
    BY <1>3 DEF Range
  <2>2. i <= Len(a) \/ i - Len(a) \in 1 .. Len(b)
    BY <1>2
  <2>3. i <= Len(a) => i \in 1 .. Len(a)
    BY <1>2
  <2> QED
    BY <1>1, <1>3, <2>1, <2>2, <2>3 DEF Range
<1>5. ASSUME NEW x \in Range(a) PROVE x \in Range(a \o b)
  <2>1. PICK i \in 1 .. Len(a) : x = a[i]
    BY <1>3 DEF Range
  <2>2. i \in 1 .. Len(a) + Len(b) /\ i <= Len(a)
    BY <1>2
  <2> QED
    BY <1>1, <1>3, <2>1, <2>2 DEF Range
<1>6. ASSUME NEW x \in Range(b) PROVE x \in Range(a \o b)
  <2>1. PICK i \in 1 .. Len(b) : x = b[i]
    BY <1>3 DEF Range
  <2>2. PICK j \in 1 .. Len(a) + Len(b) : j = i + Len(a)
    BY <1>2
  <2>3. ~(j <= Len(a)) /\ j - Len(a) = i
    BY <1>2, <2>2
  <2>4. (a \o b)[j] = x
    BY <1>1, <2>1, <2>3
  <2> QED
    BY <1>3, <2>4 DEF Range
<1> QED
  BY <1>4, <1>5, <1>6

(* What a node is made of.                                                 *)
LEMMA OrderOfNode ==
  ASSUME NEW k, NEW l, NEW r, Node(k, l, r) \in Tree
  PROVE  preOrder[Node(k, l, r)] = <<k>> \o preOrder[l] \o preOrder[r]
<1>1. Node(k, l, r) # NULL /\ Node(k, l, r).data = k /\ Node(k, l, r).left = l /\ Node(k, l, r).right = r
  BY NodeParts
<1> QED
  BY <1>1, OrderIs

LEMMA KeysOfNode ==
  ASSUME NEW k, NEW l, NEW r, Node(k, l, r) \in Tree
  PROVE  KeysOf(Node(k, l, r)) = {k} \union KeysOf(l) \union KeysOf(r)
<1> DEFINE t == Node(k, l, r)
<1>1. t # NULL /\ t.data = k /\ t.left = l /\ t.right = r
  BY NodeParts
<1> HIDE DEF t
<1>2. k \in Key /\ l \in Tree /\ r \in Tree /\ t \in Tree
  BY <1>1, Subtrees DEF t
<1>3. preOrder[t] = <<k>> \o preOrder[l] \o preOrder[r]
  BY <1>1, <1>2, OrderIs
<1>4. <<k>> \in Seq(Key) /\ preOrder[l] \in Seq(Key) /\ preOrder[r] \in Seq(Key)
  BY <1>2, OrderIs
<1>5. Range(<<k>>) = {k}
  BY <1>2 DEF Range
<1>6. \A a, b \in Seq(Key) : Range(a \o b) = Range(a) \union Range(b) /\ a \o b \in Seq(Key)
  BY RangeOfConcat, ConcatProperties
<1>7. Range(<<k>> \o preOrder[l]) = {k} \union KeysOf(l) /\ <<k>> \o preOrder[l] \in Seq(Key)
  BY <1>4, <1>5, <1>6 DEF KeysOf
<1>8. Range((<<k>> \o preOrder[l]) \o preOrder[r]) = Range(<<k>> \o preOrder[l]) \union Range(preOrder[r])
  BY <1>4, <1>6, <1>7
<1> QED
  BY <1>3, <1>7, <1>8 DEF KeysOf, t

LEMMA KeysAreKeys ==
  ASSUME NEW t \in Tree
  PROVE  KeysOf(t) \subseteq Key /\ KeysOf(t) \subseteq Int
<1>1. preOrder[t] \in Seq(Key)
  BY OrderIs
<1> QED
  BY <1>1, TreeAssumption, ElementOfSeq, LenProperties DEF KeysOf, Range

LEMMA HeightOfNode ==
  ASSUME NEW k, NEW l, NEW r, Node(k, l, r) \in Tree
  PROVE  height[Node(k, l, r)] = 1 + max(height[l], height[r])
<1>1. Node(k, l, r) # NULL /\ Node(k, l, r).left = l /\ Node(k, l, r).right = r
  BY NodeParts
<1> QED
  BY <1>1, HeightIs

LEMMA BalanceOfNode ==
  ASSUME NEW k, NEW l, NEW r, Node(k, l, r) \in Tree
  PROVE  getBalance(Node(k, l, r)) = height[l] - height[r]
<1>1. Node(k, l, r) # NULL /\ Node(k, l, r).left = l /\ Node(k, l, r).right = r
  BY NodeParts
<1> QED
  BY <1>1 DEF getBalance

LEMMA BalancedOfNode ==
  ASSUME NEW k, NEW l, NEW r, Node(k, l, r) \in Tree
  PROVE  IsBalanced[Node(k, l, r)] = (Even(Node(k, l, r)) /\ IsBalanced[l] /\ IsBalanced[r])
<1>1. Node(k, l, r) # NULL /\ Node(k, l, r).left = l /\ Node(k, l, r).right = r
  BY NodeParts
<1> QED
  BY <1>1, BalancedIs

LEMMA EvenNode ==
  ASSUME NEW k, NEW l, NEW r, Node(k, l, r) \in Tree
  PROVE  Even(Node(k, l, r)) <=> height[l] - height[r] \in -1 .. 1
BY BalanceOfNode DEF Even

LEMMA NodeIs ==
  ASSUME NEW k, NEW l, NEW r, Node(k, l, r) \in Tree
  PROVE  k \in Key /\ l \in Tree /\ r \in Tree
<1>1. Node(k, l, r) # NULL /\ Node(k, l, r).data = k /\ Node(k, l, r).left = l /\ Node(k, l, r).right = r
  BY NodeParts
<1> QED
  BY <1>1, Subtrees

LEMMA NullIs ==
  /\ NULL \in Tree /\ height[NULL] = 0 /\ KeysOf(NULL) = {} /\ IsBalanced[NULL]
  /\ preOrder[NULL] = <<>> /\ getBalance(NULL) = 0
<1>1. Range(<<>>) = {}
  BY DEF Range
<1> QED
  BY <1>1, NullIsTree, TreeAssumption, HeightIs, OrderIs, BalancedIs DEF KeysOf, getBalance

(* A tree is as high as its place among the trees says.                    *)
LEMMA HeightPlaces ==
  ASSUME NEW t \in Tree
  PROVE  height[t] \in 0 .. Room /\ \A n \in height[t] .. Room : t \in TreeUpTo[n]
<1> DEFINE Q == {w \in Tree : height[w] \in 0 .. Room /\ \A n \in height[w] .. Room : w \in TreeUpTo[n]}
<1>0. Room \in Nat
  BY TreeAssumption
<1>1. ASSUME NEW n \in 0 .. Room, NEW w \in TreeUpTo[n]
      PROVE  height[w] <= n
  <2> DEFINE P == {i \in 0 .. Room : \A v \in TreeUpTo[i] : height[v] <= i}
  <2>1. 0 \in P
    BY <1>0, TreesUpTo, HeightIs
  <2>2. ASSUME NEW i \in 1 .. Room, i - 1 \in P PROVE i \in P
    <3>1. ASSUME NEW v \in TreeUpTo[i] PROVE height[v] <= i
      <4>1. CASE v = NULL
        BY <4>1, HeightIs
      <4>2. CASE v # NULL
        <5>1. i \in 0 .. Room /\ Room \in 0 .. Room /\ i - 1 \in 0 .. Room
          BY <1>0
        <5>2. v.left \in TreeUpTo[i - 1] /\ v.right \in TreeUpTo[i - 1] /\ v \in Tree
          BY <4>2, <5>1, TreeParts, TreesWithin DEF Tree
        <5>3. height[v] = 1 + max(height[v.left], height[v.right])
          BY <4>2, <5>2, HeightIs
        <5>4. height[v.left] \in Nat /\ height[v.right] \in Nat
          BY <4>2, <5>2, HeightIs, Subtrees
        <5>5. height[v.left] <= i - 1 /\ height[v.right] <= i - 1
          BY <2>2, <5>2
        <5> QED
          BY <5>3, <5>4, <5>5 DEF max
      <4> QED
        BY <4>1, <4>2
    <3> QED
      BY <3>1
  <2>3. P = 0 .. Room
    <3>1. P \in SUBSET (0 .. Room)
      OBVIOUS
    <3> HIDE DEF P
    <3> QED
      BY <1>0, <2>1, <2>2, <3>1, UpTo
  <2>4. n \in P
    BY <2>3
  <2> QED
    BY <2>4
<1>2. NULL \in Q
  BY <1>0, NullIs, NullIsTree
<1>3. ASSUME NEW w \in Tree, w # NULL, w.left \in Q, w.right \in Q PROVE w \in Q
  <2>1. w = Node(w.data, w.left, w.right) /\ w.data \in Key /\ w.left \in Tree /\ w.right \in Tree
    BY <1>3, Subtrees
  <2>2. height[w] = 1 + max(height[w.left], height[w.right]) /\ height[w] \in Nat
    BY <1>3, HeightIs
  <2>3. height[w] <= Room
    BY <1>0, <1>1 DEF Tree
  <2>4. ASSUME NEW n \in height[w] .. Room PROVE w \in TreeUpTo[n]
    <3>1. n \in 1 .. Room /\ n - 1 \in height[w.left] .. Room /\ n - 1 \in height[w.right] .. Room
      BY <1>0, <1>3, <2>1, <2>2, HeightIs DEF max
    <3>2. w.left \in TreeUpTo[n - 1] /\ w.right \in TreeUpTo[n - 1]
      BY <1>3, <3>1
    <3> QED
      BY <2>1, <3>1, <3>2, InOver, TreesUpTo
  <2> QED
    BY <2>2, <2>3, <2>4
<1>4. Tree \subseteq Q
  <2> HIDE DEF Q
  <2> QED
    BY <1>2, <1>3, TreeInduction
<1> QED
  BY <1>4

(* Two trees that leave room make a node.                                  *)
LEMMA NodeFits ==
  ASSUME NEW k \in Key, NEW l \in Tree, NEW r \in Tree, height[l] < Room, height[r] < Room
  PROVE  Node(k, l, r) \in Tree
<1>1. height[l] \in Nat /\ height[r] \in Nat /\ Room \in Nat
  BY HeightIs, TreeAssumption
<1>2. Room \in 1 .. Room /\ Room - 1 \in height[l] .. Room /\ Room - 1 \in height[r] .. Room
  BY <1>1
<1>3. l \in TreeUpTo[Room - 1] /\ r \in TreeUpTo[Room - 1]
  BY <1>2, HeightPlaces
<1> QED
  BY <1>2, <1>3, InOver, TreesUpTo DEF Tree

Divides(t) ==
  /\ \A k \in KeysOf(t.left) : k < t.data
  /\ \A k \in KeysOf(t.right) : t.data < k

(* A search tree: all the nodes of t have smaller keys on the left and     *)
(* greater ones on the right.                                              *)
Ordered(t) ==
  \E S \in SUBSET Tree :
    /\ t \in S
    /\ \A w \in S : w # NULL => Divides(w) /\ w.left \in S /\ w.right \in S

LEMMA OrderedNode ==
  ASSUME NEW k, NEW l, NEW r, Node(k, l, r) \in Tree
  PROVE  Ordered(Node(k, l, r)) <=>
           /\ \A x \in KeysOf(l) : x < k
           /\ \A x \in KeysOf(r) : k < x
           /\ Ordered(l) /\ Ordered(r)
<1> DEFINE t == Node(k, l, r)
<1>1. t # NULL /\ t.data = k /\ t.left = l /\ t.right = r /\ t \in Tree
  BY NodeParts
<1> HIDE DEF t
<1>2. Divides(t) <=> (\A x \in KeysOf(l) : x < k) /\ (\A x \in KeysOf(r) : k < x)
  BY <1>1 DEF Divides
<1>3. Ordered(t) => Divides(t) /\ Ordered(l) /\ Ordered(r)
  BY <1>1 DEF Ordered
<1>4. ASSUME Divides(t), Ordered(l), Ordered(r) PROVE Ordered(t)
  <2>1. PICK L \in SUBSET Tree : l \in L /\ \A w \in L : w # NULL => Divides(w) /\ w.left \in L /\ w.right \in L
    BY <1>4 DEF Ordered
  <2>2. PICK R \in SUBSET Tree : r \in R /\ \A w \in R : w # NULL => Divides(w) /\ w.left \in R /\ w.right \in R
    BY <1>4 DEF Ordered
  <2> DEFINE S == L \union R \union {t}
  <2>3. S \in SUBSET Tree /\ t \in S
    BY <1>1
  <2>4. \A w \in S : w # NULL => Divides(w) /\ w.left \in S /\ w.right \in S
    BY <1>1, <1>4, <2>1, <2>2
  <2> QED
    BY <2>3, <2>4 DEF Ordered
<1> QED
  BY <1>2, <1>3, <1>4 DEF t

LEMMA OrderedNull == Ordered(NULL)
<1>1. {NULL} \in SUBSET Tree
  BY NullIs
<1> QED
  BY <1>1 DEF Ordered

-----------------------------------------------------------------------------
(* Rotations                                                               *)

LEMMA LeftChanged ==
  ASSUME NEW k, NEW l, NEW r, NEW w, w = Node(k, l, r), NEW x
  PROVE  [w EXCEPT !.left = x] = Node(k, x, r)
BY DEF Node

LEMMA RightChanged ==
  ASSUME NEW k, NEW l, NEW r, NEW w, w = Node(k, l, r), NEW x
  PROVE  [w EXCEPT !.right = x] = Node(k, l, x)
BY DEF Node

LEMMA RotatedRight ==
  ASSUME NEW d, NEW e, NEW a, NEW b, NEW c
  PROVE  rightRotate(Node(d, Node(e, a, b), c)) = Node(e, a, Node(d, b, c))
BY DEF Node, rightRotate

LEMMA RotatedLeft ==
  ASSUME NEW d, NEW e, NEW a, NEW b, NEW c
  PROVE  leftRotate(Node(e, a, Node(d, b, c))) = Node(d, Node(e, a, b), c)
BY DEF Node, leftRotate

(* A rotation keeps the keys and their order.                              *)
LEMMA TurnedKeys ==
  ASSUME NEW d, NEW e, NEW a, NEW b, NEW c,
         Node(d, Node(e, a, b), c) \in Tree, Node(e, a, Node(d, b, c)) \in Tree
  PROVE  /\ KeysOf(Node(d, Node(e, a, b), c)) = KeysOf(Node(e, a, Node(d, b, c)))
         /\ Ordered(Node(d, Node(e, a, b), c)) <=> Ordered(Node(e, a, Node(d, b, c)))
<1>1. Node(e, a, b) \in Tree /\ Node(d, b, c) \in Tree
  BY NodeIs
<1>2. d \in Int /\ e \in Int
  BY NodeIs, TreeAssumption
<1>3. /\ KeysOf(Node(e, a, b)) = {e} \union KeysOf(a) \union KeysOf(b)
      /\ KeysOf(Node(d, b, c)) = {d} \union KeysOf(b) \union KeysOf(c)
      /\ KeysOf(Node(d, Node(e, a, b), c)) = {d} \union KeysOf(Node(e, a, b)) \union KeysOf(c)
      /\ KeysOf(Node(e, a, Node(d, b, c))) = {e} \union KeysOf(a) \union KeysOf(Node(d, b, c))
  <2>2. KeysOf(Node(e, a, b)) = {e} \union KeysOf(a) \union KeysOf(b)
    BY <1>1, KeysOfNode
  <2>3. KeysOf(Node(d, b, c)) = {d} \union KeysOf(b) \union KeysOf(c)
    BY <1>1, KeysOfNode
  <2>4. KeysOf(Node(d, Node(e, a, b), c)) = {d} \union KeysOf(Node(e, a, b)) \union KeysOf(c)
    BY <1>1, KeysOfNode
  <2>5. KeysOf(Node(e, a, Node(d, b, c))) = {e} \union KeysOf(a) \union KeysOf(Node(d, b, c))
    BY <1>1, KeysOfNode
  <2> QED
    BY <2>2, <2>3, <2>4, <2>5
<1>4. KeysOf(a) \subseteq Int /\ KeysOf(b) \subseteq Int /\ KeysOf(c) \subseteq Int
  <2>1. KeysOf(Node(e, a, b)) \subseteq Key /\ KeysOf(Node(d, b, c)) \subseteq Key
    BY <1>1, KeysAreKeys
  <2> QED
    BY <1>3, <2>1, TreeAssumption
<1>5. Ordered(Node(d, Node(e, a, b), c)) <=>
        /\ \A x \in KeysOf(Node(e, a, b)) : x < d
        /\ \A x \in KeysOf(c) : d < x
        /\ \A x \in KeysOf(a) : x < e
        /\ \A x \in KeysOf(b) : e < x
        /\ Ordered(a) /\ Ordered(b) /\ Ordered(c)
  BY <1>1, OrderedNode
<1>6. Ordered(Node(e, a, Node(d, b, c))) <=>
        /\ \A x \in KeysOf(a) : x < e
        /\ \A x \in KeysOf(Node(d, b, c)) : e < x
        /\ \A x \in KeysOf(b) : x < d
        /\ \A x \in KeysOf(c) : d < x
        /\ Ordered(a) /\ Ordered(b) /\ Ordered(c)
  BY <1>1, OrderedNode
<1>7. (\A x \in KeysOf(Node(e, a, b)) : x < d) <=> e < d /\ (\A x \in KeysOf(a) : x < d) /\ (\A x \in KeysOf(b) : x < d)
  BY <1>3
<1>8. (\A x \in KeysOf(Node(d, b, c)) : e < x) <=> e < d /\ (\A x \in KeysOf(b) : e < x) /\ (\A x \in KeysOf(c) : e < x)
  BY <1>3
<1>9. e < d /\ (\A x \in KeysOf(a) : x < e) => \A x \in KeysOf(a) : x < d
  BY <1>2, <1>4
<1>10. e < d /\ (\A x \in KeysOf(c) : d < x) => \A x \in KeysOf(c) : e < x
  BY <1>2, <1>4
<1>11. KeysOf(Node(d, Node(e, a, b), c)) = KeysOf(Node(e, a, Node(d, b, c)))
  BY <1>3
<1> QED
  BY <1>5, <1>6, <1>7, <1>8, <1>9, <1>10, <1>11, Zenon

Good(t) == t \in Tree /\ Ordered(t) /\ IsBalanced[t]

Rebalances(s, t) ==
  /\ Good(s) /\ KeysOf(s) = KeysOf(t)
  /\ height[s] = height[t] \/ height[s] = height[t] - 1

LEMMA BalancedNode ==
  ASSUME NEW k, NEW l, NEW r, Node(k, l, r) \in Tree, IsBalanced[Node(k, l, r)]
  PROVE  /\ k \in Key /\ l \in Tree /\ r \in Tree /\ IsBalanced[l] /\ IsBalanced[r]
         /\ height[l] - height[r] \in -1 .. 1
BY NodeIs, EvenNode, BalancedOfNode

(* A node whose sides are good, and in order.                              *)
LEMMA GoodNode ==
  ASSUME NEW k, NEW l, NEW r, Node(k, l, r) \in Tree, Ordered(Node(k, l, r)),
         IsBalanced[l], IsBalanced[r], height[l] - height[r] \in -1 .. 1
  PROVE  Good(Node(k, l, r))
<1>1. Even(Node(k, l, r))
  BY EvenNode
<1> QED
  BY <1>1, BalancedOfNode DEF Good

LEMMA GoodSides ==
  ASSUME NEW t, Good(t), t # NULL
  PROVE  /\ t = Node(t.data, t.left, t.right) /\ t.data \in Key
         /\ Good(t.left) /\ Good(t.right)
         /\ getBalance(t) = height[t.left] - height[t.right] /\ getBalance(t) \in -1 .. 1
         /\ height[t] = 1 + max(height[t.left], height[t.right])
<1>1. t = Node(t.data, t.left, t.right) /\ t.data \in Key /\ t.left \in Tree /\ t.right \in Tree
  BY Subtrees DEF Good
<1>2. Ordered(t.left) /\ Ordered(t.right)
  BY <1>1, OrderedNode DEF Good
<1>3. /\ IsBalanced[t.left] /\ IsBalanced[t.right] /\ getBalance(t) \in -1 .. 1
      /\ height[t] = 1 + max(height[t.left], height[t.right])
  BY BalancedIs, HeightIs DEF Good, Even
<1> QED
  BY <1>1, <1>2, <1>3 DEF Good, getBalance

LEMMA HeightType ==
  ASSUME NEW t \in Tree
  PROVE  height[t] \in Nat /\ height[t] <= Room /\ (height[t] = 0 <=> t = NULL)
<1>1. height[t] \in Nat /\ height[t] <= Room /\ Room \in Nat
  BY HeightPlaces, TreeAssumption
<1>2. t # NULL => height[t] # 0
  <2> SUFFICES ASSUME t # NULL PROVE height[t] # 0
    OBVIOUS
  <2>1. height[t.left] \in Nat /\ height[t.right] \in Nat
    BY Subtrees, HeightIs
  <2> QED
    BY <2>1, HeightIs DEF max
<1> QED
  BY <1>1, <1>2, NullIs

-----------------------------------------------------------------------------
(* The four cases of rebalancing: one side of d is two higher              *)

LEMMA LeftLeft ==
  ASSUME NEW d, NEW e, NEW a, NEW b, NEW c,
         Node(d, Node(e, a, b), c) \in Tree, Ordered(Node(d, Node(e, a, b), c)),
         IsBalanced[Node(e, a, b)], IsBalanced[c],
         height[Node(e, a, b)] = height[c] + 2, height[a] >= height[b]
  PROVE  /\ Rebalances(Node(e, a, Node(d, b, c)), Node(d, Node(e, a, b), c))
         /\ height[a] > height[b] =>
              height[Node(e, a, Node(d, b, c))] = height[Node(d, Node(e, a, b), c)] - 1
<1> DEFINE t == Node(d, Node(e, a, b), c)
           l == Node(e, a, b)
           r == Node(d, b, c)
           s == Node(e, a, r)
<1>1. d \in Key /\ l \in Tree /\ c \in Tree /\ height[t] = 1 + max(height[l], height[c])
  <2>1. d \in Key /\ l \in Tree /\ c \in Tree
    BY NodeIs
  <2>2. height[t] = 1 + max(height[l], height[c])
    BY HeightOfNode
  <2> QED
    BY <2>1, <2>2
<1>2. /\ e \in Key /\ a \in Tree /\ b \in Tree /\ height[l] = 1 + max(height[a], height[b])
      /\ IsBalanced[a] /\ IsBalanced[b] /\ height[a] - height[b] \in -1 .. 1
  BY <1>1, NodeIs, HeightOfNode, BalancedNode
<1>3. /\ height[a] \in Nat /\ height[b] \in Nat /\ height[c] \in Nat
      /\ height[t] \in Nat /\ height[t] <= Room /\ Room \in Nat
  BY <1>1, <1>2, HeightType, TreeAssumption
<1>4. /\ height[l] = height[a] + 1 /\ height[t] = height[a] + 2 /\ height[a] = height[c] + 1
      /\ height[b] = height[a] \/ height[b] = height[c]
  <2> HIDE DEF t, l
  <2>1. height[l] = height[c] + 2
    BY DEF l
  <2> QED
    BY <1>1, <1>2, <1>3, <2>1 DEF max
<1>5. r \in Tree
  BY <1>1, <1>2, <1>3, <1>4, NodeFits
<1>6. height[r] = 1 + height[b]
  <2>1. height[r] = 1 + max(height[b], height[c])
    BY <1>5, HeightOfNode
  <2> QED
    BY <1>3, <1>4, <2>1 DEF max
<1>7. s \in Tree
  <2> HIDE DEF r
  <2> QED
    BY <1>2, <1>3, <1>4, <1>5, <1>6, NodeFits
<1>8. KeysOf(s) = KeysOf(t) /\ Ordered(s)
  BY <1>7, TurnedKeys
<1>9. Good(r)
  <2>1. Ordered(r)
    BY <1>7, <1>8, OrderedNode
  <2>2. height[b] - height[c] \in -1 .. 1
    BY <1>3, <1>4
  <2> QED
    BY <1>2, <1>5, <2>1, <2>2, GoodNode
<1>10. Good(s)
  <2>1. height[a] - height[r] \in -1 .. 1 /\ IsBalanced[r]
    BY <1>3, <1>4, <1>6, <1>9 DEF Good
  <2> HIDE DEF r
  <2> QED
    BY <1>2, <1>7, <1>8, <2>1, GoodNode
<1>11. height[s] = 1 + max(height[a], height[r])
  BY <1>7, HeightOfNode
<1>12. /\ height[s] = height[t] \/ height[s] = height[t] - 1
       /\ height[a] > height[b] => height[s] = height[t] - 1
  <2> HIDE DEF r, s, t, l
  <2> QED
    BY <1>3, <1>4, <1>6, <1>11 DEF max
<1> QED
  BY <1>8, <1>10, <1>12 DEF Rebalances

LEMMA RightRight ==
  ASSUME NEW d, NEW e, NEW a, NEW b, NEW c,
         Node(e, a, Node(d, b, c)) \in Tree, Ordered(Node(e, a, Node(d, b, c))),
         IsBalanced[Node(d, b, c)], IsBalanced[a],
         height[Node(d, b, c)] = height[a] + 2, height[c] >= height[b]
  PROVE  /\ Rebalances(Node(d, Node(e, a, b), c), Node(e, a, Node(d, b, c)))
         /\ height[c] > height[b] =>
              height[Node(d, Node(e, a, b), c)] = height[Node(e, a, Node(d, b, c))] - 1
<1> DEFINE t == Node(e, a, Node(d, b, c))
           r == Node(d, b, c)
           l == Node(e, a, b)
           s == Node(d, l, c)
<1>1. e \in Key /\ r \in Tree /\ a \in Tree /\ height[t] = 1 + max(height[a], height[r])
  <2>1. e \in Key /\ r \in Tree /\ a \in Tree
    BY NodeIs
  <2>2. height[t] = 1 + max(height[a], height[r])
    BY HeightOfNode
  <2> QED
    BY <2>1, <2>2
<1>2. /\ d \in Key /\ b \in Tree /\ c \in Tree /\ height[r] = 1 + max(height[b], height[c])
      /\ IsBalanced[b] /\ IsBalanced[c] /\ height[b] - height[c] \in -1 .. 1
  BY <1>1, NodeIs, HeightOfNode, BalancedNode
<1>3. /\ height[a] \in Nat /\ height[b] \in Nat /\ height[c] \in Nat
      /\ height[t] \in Nat /\ height[t] <= Room /\ Room \in Nat
  BY <1>1, <1>2, HeightType, TreeAssumption
<1>4. /\ height[r] = height[c] + 1 /\ height[t] = height[c] + 2 /\ height[c] = height[a] + 1
      /\ height[b] = height[c] \/ height[b] = height[a]
  <2> HIDE DEF t, r
  <2>1. height[r] = height[a] + 2
    BY DEF r
  <2> QED
    BY <1>1, <1>2, <1>3, <2>1 DEF max
<1>5. l \in Tree
  BY <1>1, <1>2, <1>3, <1>4, NodeFits
<1>6. height[l] = 1 + height[b]
  <2>1. height[l] = 1 + max(height[a], height[b])
    BY <1>5, HeightOfNode
  <2> QED
    BY <1>3, <1>4, <2>1 DEF max
<1>7. s \in Tree
  <2> HIDE DEF l
  <2> QED
    BY <1>2, <1>3, <1>4, <1>5, <1>6, NodeFits
<1>8. KeysOf(s) = KeysOf(t) /\ Ordered(s)
  BY <1>7, TurnedKeys
<1>9. Good(l)
  <2>1. Ordered(l)
    BY <1>7, <1>8, OrderedNode
  <2>2. height[a] - height[b] \in -1 .. 1
    BY <1>3, <1>4
  <2> QED
    BY <1>1, <1>2, <1>5, <2>1, <2>2, GoodNode
<1>10. Good(s)
  <2>1. height[l] - height[c] \in -1 .. 1 /\ IsBalanced[l]
    BY <1>3, <1>4, <1>6, <1>9 DEF Good
  <2> HIDE DEF l
  <2> QED
    BY <1>2, <1>7, <1>8, <2>1, GoodNode
<1>11. height[s] = 1 + max(height[l], height[c])
  BY <1>7, HeightOfNode
<1>12. /\ height[s] = height[t] \/ height[s] = height[t] - 1
       /\ height[c] > height[b] => height[s] = height[t] - 1
  <2> HIDE DEF r, s, t, l
  <2> QED
    BY <1>3, <1>4, <1>6, <1>11 DEF max
<1> QED
  BY <1>8, <1>10, <1>12 DEF Rebalances

LEMMA LeftRight ==
  ASSUME NEW d, NEW e, NEW f, NEW a, NEW b, NEW b2, NEW c,
         Node(d, Node(e, a, Node(f, b, b2)), c) \in Tree,
         Ordered(Node(d, Node(e, a, Node(f, b, b2)), c)),
         IsBalanced[Node(e, a, Node(f, b, b2))], IsBalanced[c],
         height[Node(e, a, Node(f, b, b2))] = height[c] + 2, height[Node(f, b, b2)] > height[a]
  PROVE  /\ Rebalances(Node(f, Node(e, a, b), Node(d, b2, c)), Node(d, Node(e, a, Node(f, b, b2)), c))
         /\ height[Node(f, Node(e, a, b), Node(d, b2, c))]
              = height[Node(d, Node(e, a, Node(f, b, b2)), c)] - 1
<1> DEFINE m == Node(f, b, b2)
           l == Node(e, a, m)
           t == Node(d, l, c)
           x == Node(e, a, b)
           l2 == Node(f, x, b2)
           t2 == Node(d, l2, c)
           y == Node(d, b2, c)
           s == Node(f, x, y)
<1>1. d \in Key /\ l \in Tree /\ c \in Tree
  BY NodeIs
<1>2. e \in Key /\ a \in Tree /\ m \in Tree /\ IsBalanced[a] /\ IsBalanced[m]
      /\ height[a] - height[m] \in -1 .. 1
  BY <1>1, NodeIs, EvenNode, BalancedOfNode
<1>3. f \in Key /\ b \in Tree /\ b2 \in Tree /\ IsBalanced[b] /\ IsBalanced[b2]
      /\ height[b] - height[b2] \in -1 .. 1
  BY <1>2, BalancedNode
<1>4. /\ height[a] \in Nat /\ height[b] \in Nat /\ height[b2] \in Nat /\ height[c] \in Nat
      /\ height[t] \in Nat /\ height[t] <= Room /\ Room \in Nat /\ height[m] \in Nat
  BY <1>1, <1>2, <1>3, HeightType, TreeAssumption
<1>5. height[t] = 1 + max(height[l], height[c])
  BY HeightOfNode
<1>6. height[l] = 1 + max(height[a], height[m])
  BY <1>1, HeightOfNode
<1>7. height[m] = 1 + max(height[b], height[b2])
  BY <1>2, HeightOfNode
<1>8. /\ height[m] = height[a] + 1 /\ height[t] = height[a] + 3 /\ height[c] = height[a]
      /\ height[b] = height[a] \/ height[b] = height[a] - 1
      /\ height[b2] = height[a] \/ height[b2] = height[a] - 1
      /\ height[l] = height[a] + 2
  <2>1. height[l] = height[c] + 2 /\ height[m] > height[a]
    OBVIOUS
  <2> HIDE DEF t, l, m
  <2> QED
    BY <1>2, <1>3, <1>4, <1>5, <1>6, <1>7, <2>1 DEF max
<1>9. x \in Tree /\ y \in Tree
  BY <1>1, <1>2, <1>3, <1>4, <1>8, NodeFits
<1>10. height[x] = 1 + height[a] /\ height[y] = 1 + height[a]
  <2>1. height[x] = 1 + max(height[a], height[b])
    BY <1>9, HeightOfNode
  <2>2. height[y] = 1 + max(height[b2], height[c])
    BY <1>9, HeightOfNode
  <2> HIDE DEF x, y
  <2> QED
    BY <1>4, <1>8, <2>1, <2>2 DEF max
<1>11. l2 \in Tree /\ s \in Tree
  <2> HIDE DEF x, y
  <2> QED
    BY <1>3, <1>4, <1>8, <1>9, <1>10, NodeFits
<1>12. height[l2] = height[a] + 2
  <2>1. height[l2] = 1 + max(height[x], height[b2])
    BY <1>11, HeightOfNode
  <2> HIDE DEF x, l2
  <2> QED
    BY <1>4, <1>8, <1>10, <2>1 DEF max
<1>13. t2 \in Tree
  <2> HIDE DEF l2
  <2> QED
    BY <1>1, <1>4, <1>8, <1>11, <1>12, NodeFits
<1>14. KeysOf(l2) = KeysOf(l) /\ (Ordered(l2) <=> Ordered(l))
  BY <1>1, <1>11, TurnedKeys
<1>15. Ordered(t2) /\ KeysOf(t2) = KeysOf(t)
  <2> HIDE DEF l, l2
  <2>1. /\ \A k \in KeysOf(l) : k < d
        /\ \A k \in KeysOf(c) : d < k
        /\ Ordered(l) /\ Ordered(c)
    BY OrderedNode DEF l
  <2>2. Ordered(t2)
    BY <1>13, <1>14, <2>1, OrderedNode
  <2>3. t \in Tree
    BY DEF l
  <2>4. KeysOf(t2) = {d} \union KeysOf(l2) \union KeysOf(c)
    BY <1>13, KeysOfNode
  <2>5. KeysOf(t) = {d} \union KeysOf(l) \union KeysOf(c)
    BY <2>3, KeysOfNode
  <2> QED
    BY <1>14, <2>2, <2>4, <2>5
<1>16. KeysOf(s) = KeysOf(t) /\ Ordered(s)
  <2>1. KeysOf(s) = KeysOf(t2) /\ (Ordered(s) <=> Ordered(t2))
    BY <1>11, <1>13, TurnedKeys
  <2> QED
    BY <1>15, <2>1
<1>17. Good(x) /\ Good(y)
  <2>1. Ordered(x) /\ Ordered(y)
    BY <1>11, <1>16, OrderedNode
  <2>2. height[a] - height[b] \in -1 .. 1 /\ height[b2] - height[c] \in -1 .. 1
    BY <1>4, <1>8
  <2>3. Good(x)
    BY <1>2, <1>3, <1>9, <2>1, <2>2, GoodNode
  <2>4. Good(y)
    BY <1>1, <1>3, <1>9, <2>1, <2>2, GoodNode
  <2> QED
    BY <2>3, <2>4
<1>18. Good(s)
  <2>1. height[x] - height[y] \in -1 .. 1 /\ IsBalanced[x] /\ IsBalanced[y]
    BY <1>4, <1>10, <1>17 DEF Good
  <2> HIDE DEF x, y
  <2> QED
    BY <1>11, <1>16, <2>1, GoodNode
<1>19. height[s] = height[t] - 1
  <2>1. height[s] = 1 + max(height[x], height[y])
    BY <1>11, HeightOfNode
  <2> HIDE DEF x, y, s, t
  <2> QED
    BY <1>4, <1>8, <1>10, <2>1 DEF max
<1> QED
  BY <1>16, <1>18, <1>19 DEF Rebalances

LEMMA RightLeft ==
  ASSUME NEW d, NEW e, NEW f, NEW a, NEW b, NEW b2, NEW c,
         Node(e, a, Node(d, Node(f, b, b2), c)) \in Tree,
         Ordered(Node(e, a, Node(d, Node(f, b, b2), c))),
         IsBalanced[Node(d, Node(f, b, b2), c)], IsBalanced[a],
         height[Node(d, Node(f, b, b2), c)] = height[a] + 2, height[Node(f, b, b2)] > height[c]
  PROVE  /\ Rebalances(Node(f, Node(e, a, b), Node(d, b2, c)), Node(e, a, Node(d, Node(f, b, b2), c)))
         /\ height[Node(f, Node(e, a, b), Node(d, b2, c))]
              = height[Node(e, a, Node(d, Node(f, b, b2), c))] - 1
<1> DEFINE m == Node(f, b, b2)
           r == Node(d, m, c)
           t == Node(e, a, r)
           x == Node(e, a, b)
           y == Node(d, b2, c)
           r2 == Node(f, b, y)
           t2 == Node(e, a, r2)
           s == Node(f, x, y)
<1>1. e \in Key /\ r \in Tree /\ a \in Tree
  BY NodeIs
<1>2. d \in Key /\ c \in Tree /\ m \in Tree /\ IsBalanced[c] /\ IsBalanced[m]
      /\ height[m] - height[c] \in -1 .. 1
  BY <1>1, NodeIs, EvenNode, BalancedOfNode
<1>3. f \in Key /\ b \in Tree /\ b2 \in Tree /\ IsBalanced[b] /\ IsBalanced[b2]
      /\ height[b] - height[b2] \in -1 .. 1
  BY <1>2, BalancedNode
<1>4. /\ height[a] \in Nat /\ height[b] \in Nat /\ height[b2] \in Nat /\ height[c] \in Nat
      /\ height[t] \in Nat /\ height[t] <= Room /\ Room \in Nat /\ height[m] \in Nat
  BY <1>1, <1>2, <1>3, HeightType, TreeAssumption
<1>5. height[t] = 1 + max(height[a], height[r])
  BY HeightOfNode
<1>6. height[r] = 1 + max(height[m], height[c])
  BY <1>1, HeightOfNode
<1>7. height[m] = 1 + max(height[b], height[b2])
  BY <1>2, HeightOfNode
<1>8. /\ height[m] = height[a] + 1 /\ height[t] = height[a] + 3 /\ height[c] = height[a]
      /\ height[b] = height[a] \/ height[b] = height[a] - 1
      /\ height[b2] = height[a] \/ height[b2] = height[a] - 1
      /\ height[r] = height[a] + 2
  <2>1. height[r] = height[a] + 2 /\ height[m] > height[c]
    OBVIOUS
  <2> HIDE DEF t, r, m
  <2>2. height[m] = height[c] + 1 /\ height[c] = height[a]
    BY <1>2, <1>4, <1>6, <2>1 DEF max
  <2>3. height[t] = height[a] + 3
    BY <1>4, <1>5, <2>1 DEF max
  <2> QED
    BY <1>3, <1>4, <1>7, <2>1, <2>2, <2>3 DEF max
<1>9. x \in Tree /\ y \in Tree
  BY <1>1, <1>2, <1>3, <1>4, <1>8, NodeFits
<1>10. height[x] = 1 + height[a] /\ height[y] = 1 + height[a]
  <2>1. height[x] = 1 + max(height[a], height[b])
    BY <1>9, HeightOfNode
  <2>2. height[y] = 1 + max(height[b2], height[c])
    BY <1>9, HeightOfNode
  <2> HIDE DEF x, y
  <2> QED
    BY <1>4, <1>8, <2>1, <2>2 DEF max
<1>11. r2 \in Tree /\ s \in Tree
  <2> HIDE DEF x, y
  <2> QED
    BY <1>3, <1>4, <1>8, <1>9, <1>10, NodeFits
<1>12. height[r2] = height[a] + 2
  <2>1. height[r2] = 1 + max(height[b], height[y])
    BY <1>11, HeightOfNode
  <2> HIDE DEF y, r2
  <2> QED
    BY <1>4, <1>8, <1>10, <2>1 DEF max
<1>13. t2 \in Tree
  <2> HIDE DEF r2
  <2> QED
    BY <1>1, <1>4, <1>8, <1>11, <1>12, NodeFits
<1>14. KeysOf(r2) = KeysOf(r) /\ (Ordered(r2) <=> Ordered(r))
  BY <1>1, <1>11, TurnedKeys
<1>15. Ordered(t2) /\ KeysOf(t2) = KeysOf(t)
  <2> HIDE DEF r, r2
  <2>1. /\ \A k \in KeysOf(a) : k < e
        /\ \A k \in KeysOf(r) : e < k
        /\ Ordered(a) /\ Ordered(r)
    BY OrderedNode DEF r
  <2>2. Ordered(t2)
    BY <1>13, <1>14, <2>1, OrderedNode
  <2>3. t \in Tree
    BY DEF r
  <2>4. KeysOf(t2) = {e} \union KeysOf(a) \union KeysOf(r2)
    BY <1>13, KeysOfNode
  <2>5. KeysOf(t) = {e} \union KeysOf(a) \union KeysOf(r)
    BY <2>3, KeysOfNode
  <2> QED
    BY <1>14, <2>2, <2>4, <2>5
<1>16. KeysOf(s) = KeysOf(t) /\ Ordered(s)
  <2>1. KeysOf(s) = KeysOf(t2) /\ (Ordered(s) <=> Ordered(t2))
    BY <1>11, <1>13, TurnedKeys
  <2> QED
    BY <1>15, <2>1
<1>17. Good(x) /\ Good(y)
  <2>1. Ordered(x) /\ Ordered(y)
    BY <1>11, <1>16, OrderedNode
  <2>2. height[a] - height[b] \in -1 .. 1 /\ height[b2] - height[c] \in -1 .. 1
    BY <1>4, <1>8
  <2>3. Good(x)
    BY <1>1, <1>3, <1>9, <2>1, <2>2, GoodNode
  <2>4. Good(y)
    BY <1>2, <1>3, <1>9, <2>1, <2>2, GoodNode
  <2> QED
    BY <2>3, <2>4
<1>18. Good(s)
  <2>1. height[x] - height[y] \in -1 .. 1 /\ IsBalanced[x] /\ IsBalanced[y]
    BY <1>4, <1>10, <1>17 DEF Good
  <2> HIDE DEF x, y
  <2> QED
    BY <1>11, <1>16, <2>1, GoodNode
<1>19. height[s] = height[t] - 1
  <2>1. height[s] = 1 + max(height[x], height[y])
    BY <1>11, HeightOfNode
  <2> HIDE DEF x, y, s, t
  <2> QED
    BY <1>4, <1>8, <1>10, <2>1 DEF max
<1> QED
  BY <1>16, <1>18, <1>19 DEF Rebalances

-----------------------------------------------------------------------------
(* Rebalancing                                                             *)

(* A tree of height h has a node if h > 0, whose sides tell which way it   *)
(* leans.                                                                  *)
LEMMA Opened ==
  ASSUME NEW t \in Tree, height[t] > 0
  PROVE  \E k, l, r : t = Node(k, l, r) /\ t.data = k
                      /\ getBalance(t) = height[l] - height[r]
                      /\ height[l] \in Nat /\ height[r] \in Nat /\ l \in Tree /\ r \in Tree
<1>1. t # NULL
  BY HeightType
<1>2. t = Node(t.data, t.left, t.right) /\ t.left \in Tree /\ t.right \in Tree
  BY <1>1, Subtrees
<1>3. getBalance(t) = height[t.left] - height[t.right]
  BY <1>1 DEF getBalance
<1> QED
  BY <1>2, <1>3, HeightType

LEMMA LeftHigher ==
  ASSUME NEW k, NEW l, NEW r, Node(k, l, r) \in Tree, Ordered(Node(k, l, r)),
         IsBalanced[l], IsBalanced[r], height[l] - height[r] = 2
  PROVE  LET t == Node(k, l, r)
         IN  /\ getBalance(l) >= 0 =>
                  /\ Rebalances(rightRotate(t), t)
                  /\ getBalance(l) = 1 => height[rightRotate(t)] = height[t] - 1
             /\ getBalance(l) < 0 =>
                  /\ Rebalances(rightRotate([t EXCEPT !.left = leftRotate(t.left)]), t)
                  /\ height[rightRotate([t EXCEPT !.left = leftRotate(t.left)])] = height[t] - 1
<1> DEFINE t == Node(k, l, r)
<1>1. l \in Tree /\ r \in Tree /\ height[l] \in Nat /\ height[r] \in Nat
  BY NodeIs, HeightType
<1>2. height[l] > 0 /\ height[l] = height[r] + 2
  BY <1>1
<1>3. PICK e, a, b : /\ l = Node(e, a, b)
                     /\ getBalance(l) = height[a] - height[b]
                     /\ height[a] \in Nat /\ height[b] \in Nat /\ a \in Tree /\ b \in Tree
  BY <1>1, <1>2, Opened
<1>4. CASE getBalance(l) >= 0
  <2>1. height[a] >= height[b] /\ (getBalance(l) = 1 => height[a] > height[b])
    BY <1>3, <1>4
  <2>2. rightRotate(t) = Node(e, a, Node(k, b, r))
    BY <1>3, RotatedRight
  <2>3. /\ Rebalances(Node(e, a, Node(k, b, r)), t)
        /\ height[a] > height[b] => height[Node(e, a, Node(k, b, r))] = height[t] - 1
    BY <1>2, <1>3, <2>1, LeftLeft
  <2> HIDE DEF t
  <2>4. /\ Rebalances(rightRotate(t), t)
        /\ getBalance(l) = 1 => height[rightRotate(t)] = height[t] - 1
    BY <2>1, <2>2, <2>3
  <2>5. ~(getBalance(l) < 0)
    BY <1>3, <1>4
  <2> QED
    BY <2>4, <2>5 DEF t
<1>5. CASE getBalance(l) < 0
  <2>1. height[b] > height[a] /\ height[b] > 0
    BY <1>3, <1>5
  <2>2. PICK f, b1, b2 : b = Node(f, b1, b2)
    BY <1>3, <2>1, Opened
  <2>3. leftRotate(l) = Node(f, Node(e, a, b1), b2)
    BY <1>3, <2>2, RotatedLeft
  <2>4. [t EXCEPT !.left = leftRotate(t.left)] = Node(k, Node(f, Node(e, a, b1), b2), r)
    <3>1. t.left = l
      BY NodeParts
    <3>2. PICK x : x = Node(f, Node(e, a, b1), b2)
      OBVIOUS
    <3>3. [t EXCEPT !.left = x] = Node(k, x, r)
      BY DEF Node
    <3> QED
      BY <2>3, <3>1, <3>2, <3>3
  <2>5. rightRotate(Node(k, Node(f, Node(e, a, b1), b2), r))
          = Node(f, Node(e, a, b1), Node(k, b2, r))
    BY RotatedRight
  <2>6. /\ Rebalances(Node(f, Node(e, a, b1), Node(k, b2, r)), t)
        /\ height[Node(f, Node(e, a, b1), Node(k, b2, r))] = height[t] - 1
    BY <1>2, <1>3, <2>1, <2>2, LeftRight
  <2> HIDE DEF t
  <2>7. ~(getBalance(l) >= 0)
    BY <1>3, <1>5
  <2>8. /\ Rebalances(rightRotate([t EXCEPT !.left = leftRotate(t.left)]), t)
        /\ height[rightRotate([t EXCEPT !.left = leftRotate(t.left)])] = height[t] - 1
    BY <2>4, <2>5, <2>6
  <2> QED
    BY <2>7, <2>8 DEF t
<1>6. getBalance(l) >= 0 \/ getBalance(l) < 0
  BY <1>3
<1> QED
  BY <1>4, <1>5, <1>6

LEMMA RightHigher ==
  ASSUME NEW k, NEW l, NEW r, Node(k, l, r) \in Tree, Ordered(Node(k, l, r)),
         IsBalanced[l], IsBalanced[r], height[l] - height[r] = -2
  PROVE  LET t == Node(k, l, r)
         IN  /\ getBalance(r) <= 0 =>
                  /\ Rebalances(leftRotate(t), t)
                  /\ getBalance(r) = -1 => height[leftRotate(t)] = height[t] - 1
             /\ getBalance(r) > 0 =>
                  /\ Rebalances(leftRotate([t EXCEPT !.right = rightRotate(t.right)]), t)
                  /\ height[leftRotate([t EXCEPT !.right = rightRotate(t.right)])] = height[t] - 1
<1> DEFINE t == Node(k, l, r)
<1>1. l \in Tree /\ r \in Tree /\ height[l] \in Nat /\ height[r] \in Nat
  BY NodeIs, HeightType
<1>2. height[r] > 0 /\ height[r] = height[l] + 2
  BY <1>1
<1>3. PICK d, b, c : /\ r = Node(d, b, c)
                     /\ getBalance(r) = height[b] - height[c]
                     /\ height[b] \in Nat /\ height[c] \in Nat /\ b \in Tree /\ c \in Tree
  BY <1>1, <1>2, Opened
<1>4. CASE getBalance(r) <= 0
  <2>1. height[c] >= height[b] /\ (getBalance(r) = -1 => height[c] > height[b])
    BY <1>3, <1>4
  <2>2. leftRotate(t) = Node(d, Node(k, l, b), c)
    BY <1>3, RotatedLeft
  <2>3. /\ Rebalances(Node(d, Node(k, l, b), c), t)
        /\ height[c] > height[b] => height[Node(d, Node(k, l, b), c)] = height[t] - 1
    BY <1>2, <1>3, <2>1, RightRight
  <2> HIDE DEF t
  <2>4. /\ Rebalances(leftRotate(t), t)
        /\ getBalance(r) = -1 => height[leftRotate(t)] = height[t] - 1
    BY <2>1, <2>2, <2>3
  <2>5. ~(getBalance(r) > 0)
    BY <1>3, <1>4
  <2> QED
    BY <2>4, <2>5 DEF t
<1>5. CASE getBalance(r) > 0
  <2>1. height[b] > height[c] /\ height[b] > 0
    BY <1>3, <1>5
  <2>2. PICK f, b1, b2 : b = Node(f, b1, b2)
    BY <1>3, <2>1, Opened
  <2>3. rightRotate(r) = Node(f, b1, Node(d, b2, c))
    BY <1>3, <2>2, RotatedRight
  <2>4. [t EXCEPT !.right = rightRotate(t.right)] = Node(k, l, Node(f, b1, Node(d, b2, c)))
    <3>1. t.right = r
      BY NodeParts
    <3>2. PICK x : x = Node(f, b1, Node(d, b2, c))
      OBVIOUS
    <3>3. [t EXCEPT !.right = x] = Node(k, l, x)
      BY DEF Node
    <3> QED
      BY <2>3, <3>1, <3>2, <3>3
  <2>5. leftRotate(Node(k, l, Node(f, b1, Node(d, b2, c))))
          = Node(f, Node(k, l, b1), Node(d, b2, c))
    BY RotatedLeft
  <2>6. /\ Rebalances(Node(f, Node(k, l, b1), Node(d, b2, c)), t)
        /\ height[Node(f, Node(k, l, b1), Node(d, b2, c))] = height[t] - 1
    BY <1>2, <1>3, <2>1, <2>2, RightLeft
  <2> HIDE DEF t
  <2>7. ~(getBalance(r) <= 0)
    BY <1>3, <1>5
  <2>8. /\ Rebalances(leftRotate([t EXCEPT !.right = rightRotate(t.right)]), t)
        /\ height[leftRotate([t EXCEPT !.right = rightRotate(t.right)])] = height[t] - 1
    BY <2>4, <2>5, <2>6
  <2> QED
    BY <2>7, <2>8 DEF t
<1>6. getBalance(r) <= 0 \/ getBalance(r) > 0
  BY <1>3
<1> QED
  BY <1>4, <1>5, <1>6

LEMMA AfterDeleteBalances ==
  ASSUME NEW k, NEW l, NEW r, Node(k, l, r) \in Tree, Ordered(Node(k, l, r)),
         IsBalanced[l], IsBalanced[r], height[l] - height[r] \in -2 .. 2
  PROVE  /\ Rebalances(AfterDelete(Node(k, l, r)), Node(k, l, r))
         /\ height[l] - height[r] \in -1 .. 1 => AfterDelete(Node(k, l, r)) = Node(k, l, r)
<1> DEFINE t == Node(k, l, r)
<1>1. l \in Tree /\ r \in Tree /\ height[l] \in Nat /\ height[r] \in Nat
  BY NodeIs, HeightType
<1>2. t \in Tree /\ t.left = l /\ t.right = r /\ t # NULL
  BY NodeParts
<1>3. getBalance(t) = height[l] - height[r]
  <2> HIDE DEF t
  <2> QED
    BY <1>2 DEF getBalance
<1>4. CASE height[l] - height[r] = 2
  <2>1. /\ getBalance(l) >= 0 => Rebalances(rightRotate(t), t)
        /\ getBalance(l) < 0 => Rebalances(rightRotate([t EXCEPT !.left = leftRotate(t.left)]), t)
    BY <1>4, LeftHigher
  <2>2. getBalance(l) \in Int
    BY <1>1, Subtrees, HeightType DEF getBalance
  <2> HIDE DEF t
  <2>3. AfterDelete(t) = IF getBalance(l) >= 0 THEN rightRotate(t)
                         ELSE rightRotate([t EXCEPT !.left = leftRotate(t.left)])
    BY <1>2, <1>3, <1>4 DEF AfterDelete
  <2>4. Rebalances(AfterDelete(t), t)
    BY <2>1, <2>2, <2>3
  <2> QED
    BY <1>4, <2>4 DEF t
<1>5. CASE height[l] - height[r] = -2
  <2>1. /\ getBalance(r) <= 0 => Rebalances(leftRotate(t), t)
        /\ getBalance(r) > 0 => Rebalances(leftRotate([t EXCEPT !.right = rightRotate(t.right)]), t)
    BY <1>5, RightHigher
  <2>2. getBalance(r) \in Int
    BY <1>1, Subtrees, HeightType DEF getBalance
  <2> HIDE DEF t
  <2>3. AfterDelete(t) = IF getBalance(r) <= 0 THEN leftRotate(t)
                         ELSE leftRotate([t EXCEPT !.right = rightRotate(t.right)])
    BY <1>2, <1>3, <1>5 DEF AfterDelete
  <2>4. Rebalances(AfterDelete(t), t)
    BY <2>1, <2>2, <2>3
  <2> QED
    BY <1>5, <2>4 DEF t
<1>6. CASE height[l] - height[r] \in -1 .. 1
  <2>1. Good(t)
    BY <1>6, GoodNode
  <2> HIDE DEF t
  <2>2. AfterDelete(t) = t
    BY <1>1, <1>3, <1>6 DEF AfterDelete
  <2>3. Rebalances(t, t)
    BY <2>1 DEF Rebalances
  <2> QED
    BY <2>2, <2>3 DEF t
<1> QED
  BY <1>1, <1>4, <1>5, <1>6

LEMMA AfterInsertBalances ==
  ASSUME NEW k, NEW l, NEW r, Node(k, l, r) \in Tree, Ordered(Node(k, l, r)),
         IsBalanced[l], IsBalanced[r], height[l] - height[r] \in -2 .. 2, NEW x \in Key,
         height[l] - height[r] = 2 =>
           (x < l.data /\ getBalance(l) = 1) \/ (l.data < x /\ getBalance(l) = -1),
         height[l] - height[r] = -2 =>
           (x < r.data /\ getBalance(r) = 1) \/ (r.data < x /\ getBalance(r) = -1)
  PROVE  LET t == Node(k, l, r)
         IN  /\ Rebalances(AfterInsert(t, x), t)
             /\ height[l] - height[r] \in -1 .. 1 => AfterInsert(t, x) = t
             /\ height[l] - height[r] \notin -1 .. 1 => height[AfterInsert(t, x)] = height[t] - 1
<1> DEFINE t == Node(k, l, r)
<1>1. l \in Tree /\ r \in Tree /\ height[l] \in Nat /\ height[r] \in Nat /\ x \in Int
  BY NodeIs, HeightType, TreeAssumption
<1>2. t \in Tree /\ t.left = l /\ t.right = r /\ t # NULL
  BY NodeParts
<1>3. getBalance(t) = height[l] - height[r]
  <2> HIDE DEF t
  <2> QED
    BY <1>2 DEF getBalance
<1>4. CASE height[l] - height[r] = 2
  <2>1. l # NULL
    BY <1>1, <1>4, HeightType
  <2>2. l.data \in Int
    BY <1>1, <2>1, Subtrees, TreeAssumption
  <2>3. CASE x < l.data /\ getBalance(l) = 1
    <3>0. getBalance(l) >= 0
      BY <2>3
    <3>1. Rebalances(rightRotate(t), t) /\ height[rightRotate(t)] = height[t] - 1
      <4>1. Rebalances(rightRotate(t), t)
        BY <1>4, <3>0, LeftHigher
      <4>2. height[rightRotate(t)] = height[t] - 1
        BY <1>4, <2>3, <3>0, LeftHigher
      <4> QED
        BY <4>1, <4>2
    <3> HIDE DEF t
    <3>2. AfterInsert(t, x) = rightRotate(t)
      BY <1>2, <1>3, <1>4, <2>3 DEF AfterInsert
    <3> QED
      BY <1>4, <3>1, <3>2 DEF t
  <2>4. CASE l.data < x /\ getBalance(l) = -1
    <3>1. /\ Rebalances(rightRotate([t EXCEPT !.left = leftRotate(t.left)]), t)
          /\ height[rightRotate([t EXCEPT !.left = leftRotate(t.left)])] = height[t] - 1
      BY <1>4, <2>4, LeftHigher
    <3> HIDE DEF t
    <3>2. AfterInsert(t, x) = rightRotate([t EXCEPT !.left = leftRotate(t.left)])
      BY <1>1, <1>2, <1>3, <1>4, <2>2, <2>4 DEF AfterInsert
    <3> QED
      BY <1>4, <3>1, <3>2 DEF t
  <2> QED
    BY <1>4, <2>3, <2>4
<1>5. CASE height[l] - height[r] = -2
  <2>1. r # NULL
    BY <1>1, <1>5, HeightType
  <2>2. r.data \in Int
    BY <1>1, <2>1, Subtrees, TreeAssumption
  <2>3. CASE r.data < x /\ getBalance(r) = -1
    <3>0. getBalance(r) <= 0
      BY <2>3
    <3>1. Rebalances(leftRotate(t), t) /\ height[leftRotate(t)] = height[t] - 1
      <4>1. Rebalances(leftRotate(t), t)
        BY <1>5, <3>0, RightHigher
      <4>2. height[leftRotate(t)] = height[t] - 1
        BY <1>5, <2>3, <3>0, RightHigher
      <4> QED
        BY <4>1, <4>2
    <3> HIDE DEF t
    <3>2. AfterInsert(t, x) = leftRotate(t)
      BY <1>1, <1>2, <1>3, <1>5, <2>2, <2>3 DEF AfterInsert
    <3> QED
      BY <1>5, <3>1, <3>2 DEF t
  <2>4. CASE x < r.data /\ getBalance(r) = 1
    <3>1. /\ Rebalances(leftRotate([t EXCEPT !.right = rightRotate(t.right)]), t)
          /\ height[leftRotate([t EXCEPT !.right = rightRotate(t.right)])] = height[t] - 1
      BY <1>5, <2>4, RightHigher
    <3> HIDE DEF t
    <3>2. AfterInsert(t, x) = leftRotate([t EXCEPT !.right = rightRotate(t.right)])
      BY <1>1, <1>2, <1>3, <1>5, <2>2, <2>4 DEF AfterInsert
    <3> QED
      BY <1>5, <3>1, <3>2 DEF t
  <2> QED
    BY <1>5, <2>3, <2>4
<1>6. CASE height[l] - height[r] \in -1 .. 1
  <2>1. Good(t)
    BY <1>6, GoodNode
  <2> HIDE DEF t
  <2>2. AfterInsert(t, x) = t
    BY <1>1, <1>3, <1>6 DEF AfterInsert
  <2>3. Rebalances(t, t)
    BY <2>1 DEF Rebalances
  <2> QED
    BY <1>6, <2>2, <2>3 DEF t
<1> QED
  BY <1>1, <1>4, <1>5, <1>6

(* minValueNode finds the smallest key.                                    *)
LEMMA MinValueIs ==
  \A t \in Tree \ {NULL} :
    minValueNode[t] = IF t.left = NULL THEN t ELSE minValueNode[t.left]
<1> DEFINE g == [t \in Tree |-> [a \in Tree |-> [b \in Tree |-> IF t.left = NULL THEN t ELSE a]]]
<1>1. g \in [Tree -> [Tree -> [Tree -> Tree]]]
  OBVIOUS
<1>2. \A t, a, b \in Tree : g[t][a][b] = IF t.left = NULL THEN t ELSE a
  OBVIOUS
<1>3. \E f : OnTrees(f, Tree, NULL, g)
  <2> HIDE DEF g
  <2> QED
    BY <1>1, NullIs, TreeRecursion
<1>4. PICK f : OnTrees(f, Tree, NULL, g)
  BY <1>3
<1> HIDE DEF g
<1> DEFINE h == [t \in Tree \ {NULL} |-> f[t]]
<1>5. \A t \in Tree \ {NULL} : f[t] = IF t.left = NULL THEN t ELSE f[t.left]
  <2>1. ASSUME NEW t \in Tree \ {NULL} PROVE f[t] = IF t.left = NULL THEN t ELSE f[t.left]
    <3>1. t.left \in Tree /\ t.right \in Tree
      BY Subtrees
    <3>2. f[t.left] \in Tree /\ f[t.right] \in Tree
      BY <1>4, <3>1 DEF OnTrees
    <3>3. f[t] = g[t][f[t.left]][f[t.right]]
      BY <1>4 DEF OnTrees
    <3> QED
      BY <1>2, <3>2, <3>3
  <2> QED
    BY <2>1
<1>6. h = [t \in Tree \ {NULL} |-> IF t.left = NULL THEN t ELSE h[t.left]]
  <2>1. ASSUME NEW t \in Tree \ {NULL} PROVE f[t] = IF t.left = NULL THEN t ELSE h[t.left]
    BY <1>5, Subtrees
  <2> QED
    BY <2>1
<1> HIDE DEF h
<1>7. minValueNode = CHOOSE q : q = [t \in Tree \ {NULL} |-> IF t.left = NULL THEN t ELSE q[t.left]]
  BY DEF minValueNode
<1>8. minValueNode = [t \in Tree \ {NULL} |-> IF t.left = NULL THEN t ELSE minValueNode[t.left]]
  BY <1>6, <1>7, Zenon
<1>9. PICK e : e = [t \in Tree \ {NULL} |-> IF t.left = NULL THEN t ELSE minValueNode[t.left]]
  OBVIOUS
<1>10. \A t \in Tree \ {NULL} : e[t] = IF t.left = NULL THEN t ELSE minValueNode[t.left]
  BY <1>9, Zenon
<1>11. minValueNode = e
  BY <1>8, <1>9
<1> QED
  BY <1>10, <1>11

LEMMA MinIsSmallest ==
  ASSUME NEW t \in Tree, t # NULL, Ordered(t)
  PROVE  /\ minValueNode[t].data \in KeysOf(t)
         /\ \A x \in KeysOf(t) : minValueNode[t].data <= x
<1> DEFINE Smallest(w) == /\ minValueNode[w].data \in KeysOf(w)
                          /\ \A x \in KeysOf(w) : minValueNode[w].data <= x
           P == {w \in Tree : w # NULL /\ Ordered(w) => Smallest(w)}
<1>1. NULL \in P
  BY NullIs
<1>2. ASSUME NEW w \in Tree, w # NULL, w.left \in P, w.right \in P PROVE w \in P
  <2> SUFFICES ASSUME Ordered(w) PROVE Smallest(w)
    OBVIOUS
  <2>1. w = Node(w.data, w.left, w.right) /\ w.data \in Key /\ w.left \in Tree /\ w.right \in Tree
    BY <1>2, Subtrees
  <2>2. KeysOf(w) = {w.data} \union KeysOf(w.left) \union KeysOf(w.right)
    BY <2>1, KeysOfNode
  <2>3. /\ \A x \in KeysOf(w.left) : x < w.data
        /\ \A x \in KeysOf(w.right) : w.data < x
        /\ Ordered(w.left)
    BY <2>1, OrderedNode
  <2>4. KeysOf(w) \subseteq Int
    BY KeysAreKeys
  <2>5. CASE w.left = NULL
    <3>1. minValueNode[w] = w /\ KeysOf(w.left) = {}
      BY <1>2, <2>5, MinValueIs, NullIs
    <3> QED
      BY <2>2, <2>3, <2>4, <3>1
  <2>6. CASE w.left # NULL
    <3>1. minValueNode[w] = minValueNode[w.left] /\ Smallest(w.left)
      BY <1>2, <2>3, <2>6, MinValueIs
    <3>2. PICK m : m = minValueNode[w.left].data
      OBVIOUS
    <3>3. m \in KeysOf(w.left) /\ \A x \in KeysOf(w.left) : m <= x
      BY <3>1, <3>2
    <3>4. m \in Int /\ w.data \in Int /\ m < w.data
      BY <2>2, <2>3, <2>4, <3>3
    <3>5. \A x \in KeysOf(w.right) : x \in Int /\ w.data < x
      BY <2>2, <2>3, <2>4
    <3>6. \A x \in KeysOf(w) : m <= x
      BY <2>2, <3>3, <3>4, <3>5
    <3> QED
      BY <2>2, <3>1, <3>2, <3>3, <3>6
  <2> QED
    BY <2>5, <2>6
<1>3. Tree \subseteq P
  <2> HIDE DEF P
  <2> QED
    BY <1>1, <1>2, TreeInduction
<1> QED
  BY <1>3

-----------------------------------------------------------------------------
(* Insertion                                                               *)

(* s is t with x: as high, or one higher and then, unless it is a leaf,    *)
(* leaning to the side where x is.                                         *)
Inserted(s, t, x) ==
  /\ Good(s) /\ KeysOf(s) = KeysOf(t) \union {x}
  /\ height[s] = height[t] \/ height[s] = height[t] + 1
  /\ height[s] = height[t] + 1 /\ height[s] >= 2 =>
       (x < s.data /\ getBalance(s) = 1) \/ (s.data < x /\ getBalance(s) = -1)

LEMMA InsertedLeft ==
  ASSUME NEW d, NEW l, NEW r, Good(Node(d, l, r)), height[Node(d, l, r)] < Room,
         NEW x \in Key, x < d, NEW m, Inserted(m, l, x)
  PROVE  Inserted(AfterInsert(Node(d, m, r), x), Node(d, l, r), x)
<1> DEFINE t == Node(d, l, r)
           w == Node(d, m, r)
           s == AfterInsert(w, x)
<1>1. /\ t \in Tree /\ Ordered(t) /\ d \in Key /\ l \in Tree /\ r \in Tree
      /\ IsBalanced[r] /\ height[l] - height[r] \in -1 .. 1
  BY BalancedNode DEF Good
<1>2. height[l] \in Nat /\ height[r] \in Nat /\ Room \in Nat /\ d \in Int /\ x \in Int
  BY <1>1, HeightType, TreeAssumption
<1>3. height[t] = 1 + max(height[l], height[r])
  BY <1>1, HeightOfNode
<1>4. /\ m \in Tree /\ Ordered(m) /\ IsBalanced[m] /\ KeysOf(m) = KeysOf(l) \union {x}
      /\ height[m] = height[l] \/ height[m] = height[l] + 1
      /\ height[m] = height[l] + 1 /\ height[m] >= 2 =>
           (x < m.data /\ getBalance(m) = 1) \/ (m.data < x /\ getBalance(m) = -1)
  BY DEF Inserted, Good
<1>5. height[m] < Room /\ height[r] < Room /\ height[m] \in Nat
  BY <1>2, <1>3, <1>4, HeightType DEF max
<1>6. w \in Tree
  BY <1>1, <1>4, <1>5, NodeFits
<1>7. /\ \A y \in KeysOf(l) : y < d
      /\ \A y \in KeysOf(r) : d < y
      /\ Ordered(r)
  BY <1>1, OrderedNode
<1>8. \A y \in KeysOf(m) : y < d
  BY <1>4, <1>7
<1>9. Ordered(w)
  BY <1>4, <1>6, <1>7, <1>8, OrderedNode
<1>10. height[m] - height[r] \in -2 .. 2 /\ height[m] - height[r] # -2
  BY <1>1, <1>2, <1>4, <1>5
<1>11. height[m] - height[r] = 2 =>
         (x < m.data /\ getBalance(m) = 1) \/ (m.data < x /\ getBalance(m) = -1)
  <2>1. ASSUME height[m] - height[r] = 2 PROVE height[m] = height[l] + 1 /\ height[m] >= 2
    BY <1>1, <1>2, <1>4, <1>5, <2>1
  <2> QED
    BY <1>4, <2>1
<1>12. /\ Rebalances(s, w)
       /\ height[m] - height[r] \in -1 .. 1 => s = w
       /\ height[m] - height[r] \notin -1 .. 1 => height[s] = height[w] - 1
  BY <1>1, <1>4, <1>6, <1>9, <1>10, <1>11, AfterInsertBalances
<1>13. height[w] = 1 + max(height[m], height[r]) /\ getBalance(w) = height[m] - height[r]
  <2>1. height[w] = 1 + max(height[m], height[r])
    BY <1>6, HeightOfNode
  <2>2. getBalance(w) = height[m] - height[r]
    BY <1>6, BalanceOfNode
  <2> QED
    BY <2>1, <2>2
<1>14. KeysOf(w) = {d} \union KeysOf(m) \union KeysOf(r)
  BY <1>6, KeysOfNode
<1>15. KeysOf(t) = {d} \union KeysOf(l) \union KeysOf(r)
  BY <1>1, KeysOfNode
<1>16. Good(s) /\ KeysOf(s) = KeysOf(t) \union {x}
  BY <1>4, <1>12, <1>14, <1>15 DEF Rebalances
<1>17. w.data = d
  BY NodeParts
<1> HIDE DEF t, w, s
<1>18. CASE height[m] - height[r] \in -1 .. 1
  <2>1. s = w
    BY <1>12, <1>18
  <2>2. height[w] = height[t] \/ height[w] = height[t] + 1
    BY <1>2, <1>3, <1>4, <1>5, <1>13 DEF max
  <2>3. height[w] = height[t] + 1 => getBalance(w) = 1
    BY <1>1, <1>2, <1>3, <1>4, <1>5, <1>13, <1>18 DEF max
  <2>4. Inserted(w, t, x)
    <3>0. x < w.data
      BY <1>17
    <3>1. Good(w) /\ KeysOf(w) = KeysOf(t) \union {x}
      BY <1>16, <2>1
    <3> QED
      BY <2>2, <2>3, <3>0, <3>1 DEF Inserted
  <2> QED
    BY <2>1, <2>4 DEF t, w, s
<1>19. CASE height[m] - height[r] = 2
  <2>1. height[m] - height[r] \notin -1 .. 1
    BY <1>19
  <2>2. height[s] = height[w] - 1
    BY <1>12, <2>1
  <2>3. height[l] = height[r] + 1 /\ height[m] = height[r] + 2
    BY <1>1, <1>2, <1>4, <1>5, <1>19
  <2>4. height[s] = height[t]
    BY <1>2, <1>3, <1>13, <2>2, <2>3 DEF max
  <2>5. height[t] # height[t] + 1
    BY <1>1, HeightType DEF t
  <2> QED
    BY <1>16, <2>4, <2>5 DEF Inserted, t, w, s
<1> QED
  BY <1>10, <1>18, <1>19 DEF t, w, s

LEMMA InsertedRight ==
  ASSUME NEW d, NEW l, NEW r, Good(Node(d, r, l)), height[Node(d, r, l)] < Room,
         NEW x \in Key, d < x, NEW m, Inserted(m, l, x)
  PROVE  Inserted(AfterInsert(Node(d, r, m), x), Node(d, r, l), x)
<1> DEFINE t == Node(d, r, l)
           w == Node(d, r, m)
           s == AfterInsert(w, x)
<1>1. /\ t \in Tree /\ Ordered(t) /\ d \in Key /\ l \in Tree /\ r \in Tree
      /\ IsBalanced[r] /\ height[r] - height[l] \in -1 .. 1
  BY BalancedNode DEF Good
<1>2. height[l] \in Nat /\ height[r] \in Nat /\ Room \in Nat /\ d \in Int /\ x \in Int
  BY <1>1, HeightType, TreeAssumption
<1>3. height[t] = 1 + max(height[r], height[l])
  BY <1>1, HeightOfNode
<1>4. /\ m \in Tree /\ Ordered(m) /\ IsBalanced[m] /\ KeysOf(m) = KeysOf(l) \union {x}
      /\ height[m] = height[l] \/ height[m] = height[l] + 1
      /\ height[m] = height[l] + 1 /\ height[m] >= 2 =>
           (x < m.data /\ getBalance(m) = 1) \/ (m.data < x /\ getBalance(m) = -1)
  BY DEF Inserted, Good
<1>5. height[m] < Room /\ height[r] < Room /\ height[m] \in Nat
  BY <1>2, <1>3, <1>4, HeightType DEF max
<1>6. w \in Tree
  BY <1>1, <1>4, <1>5, NodeFits
<1>7. /\ \A y \in KeysOf(l) : d < y
      /\ \A y \in KeysOf(r) : y < d
      /\ Ordered(r)
  BY <1>1, OrderedNode
<1>8. \A y \in KeysOf(m) : d < y
  BY <1>4, <1>7
<1>9. Ordered(w)
  BY <1>4, <1>6, <1>7, <1>8, OrderedNode
<1>10. height[r] - height[m] \in -2 .. 2 /\ height[r] - height[m] # 2
  BY <1>1, <1>2, <1>4, <1>5
<1>11. height[r] - height[m] = -2 =>
         (x < m.data /\ getBalance(m) = 1) \/ (m.data < x /\ getBalance(m) = -1)
  <2>1. ASSUME height[r] - height[m] = -2 PROVE height[m] = height[l] + 1 /\ height[m] >= 2
    BY <1>1, <1>2, <1>4, <1>5, <2>1
  <2> QED
    BY <1>4, <2>1
<1>12. /\ Rebalances(s, w)
       /\ height[r] - height[m] \in -1 .. 1 => s = w
       /\ height[r] - height[m] \notin -1 .. 1 => height[s] = height[w] - 1
  BY <1>1, <1>4, <1>6, <1>9, <1>10, <1>11, AfterInsertBalances
<1>13. height[w] = 1 + max(height[r], height[m]) /\ getBalance(w) = height[r] - height[m]
  <2>1. height[w] = 1 + max(height[r], height[m])
    BY <1>6, HeightOfNode
  <2>2. getBalance(w) = height[r] - height[m]
    BY <1>6, BalanceOfNode
  <2> QED
    BY <2>1, <2>2
<1>14. KeysOf(w) = {d} \union KeysOf(m) \union KeysOf(r)
  BY <1>6, KeysOfNode
<1>15. KeysOf(t) = {d} \union KeysOf(l) \union KeysOf(r)
  BY <1>1, KeysOfNode
<1>16. Good(s) /\ KeysOf(s) = KeysOf(t) \union {x}
  BY <1>4, <1>12, <1>14, <1>15 DEF Rebalances
<1>17. w.data = d
  BY NodeParts
<1> HIDE DEF t, w, s
<1>18. CASE height[r] - height[m] \in -1 .. 1
  <2>1. s = w
    BY <1>12, <1>18
  <2>2. height[w] = height[t] \/ height[w] = height[t] + 1
    BY <1>2, <1>3, <1>4, <1>5, <1>13 DEF max
  <2>3. height[w] = height[t] + 1 => getBalance(w) = -1
    BY <1>1, <1>2, <1>3, <1>4, <1>5, <1>13, <1>18 DEF max
  <2>4. Inserted(w, t, x)
    <3>0. w.data < x
      BY <1>17
    <3>1. Good(w) /\ KeysOf(w) = KeysOf(t) \union {x}
      BY <1>16, <2>1
    <3> QED
      BY <2>2, <2>3, <3>0, <3>1 DEF Inserted
  <2> QED
    BY <2>1, <2>4 DEF t, w, s
<1>19. CASE height[r] - height[m] = -2
  <2>1. height[r] - height[m] \notin -1 .. 1
    BY <1>19
  <2>2. height[s] = height[w] - 1
    BY <1>12, <2>1
  <2>3. height[l] = height[r] + 1 /\ height[m] = height[r] + 2
    BY <1>1, <1>2, <1>4, <1>5, <1>19
  <2>4. height[s] = height[t]
    BY <1>2, <1>3, <1>13, <2>2, <2>3 DEF max
  <2>5. height[t] # height[t] + 1
    BY <1>1, HeightType DEF t
  <2> QED
    BY <1>16, <2>4, <2>5 DEF Inserted, t, w, s
<1> QED
  BY <1>10, <1>18, <1>19 DEF t, w, s

LEMMA InsertKeepsGood ==
  ASSUME NEW t \in Tree, Good(t), height[t] < Room, NEW x \in Key
  PROVE  Inserted(insert[t][x], t, x)
<1> DEFINE P == {w \in Tree : Good(w) /\ height[w] < Room => \A y \in Key : Inserted(insert[w][y], w, y)}
<1>1. NULL \in P
  <2> SUFFICES ASSUME height[NULL] < Room, NEW y \in Key PROVE Inserted(insert[NULL][y], NULL, y)
    BY NullIs
  <2>1. insert[NULL][y] = Node(y, NULL, NULL)
    BY InsertRecursion DEF newNode
  <2>2. NULL \in Tree /\ height[NULL] = 0 /\ KeysOf(NULL) = {} /\ IsBalanced[NULL]
    BY NullIs
  <2>3. Node(y, NULL, NULL) \in Tree
    BY <2>2, NodeFits
  <2>4. Ordered(Node(y, NULL, NULL))
    BY <2>2, <2>3, OrderedNode, OrderedNull
  <2>5. height[NULL] - height[NULL] \in -1 .. 1
    BY <2>2
  <2>6. Good(Node(y, NULL, NULL))
    BY <2>2, <2>3, <2>4, <2>5, GoodNode
  <2>7. KeysOf(Node(y, NULL, NULL)) = {y}
    BY <2>2, <2>3, KeysOfNode
  <2>8. height[Node(y, NULL, NULL)] = 1
    BY <2>2, <2>3, HeightOfNode DEF max
  <2> QED
    BY <2>1, <2>2, <2>6, <2>7, <2>8 DEF Inserted
<1>2. ASSUME NEW w \in Tree, w # NULL, w.left \in P, w.right \in P PROVE w \in P
  <2> SUFFICES ASSUME Good(w), height[w] < Room, NEW y \in Key PROVE Inserted(insert[w][y], w, y)
    BY <1>2
  <2>1. /\ w = Node(w.data, w.left, w.right) /\ w.data \in Key /\ Good(w.left) /\ Good(w.right)
        /\ height[w] = 1 + max(height[w.left], height[w.right])
    BY <1>2, GoodSides
  <2>2. PICK d, l, r : d = w.data /\ l = w.left /\ r = w.right
    OBVIOUS
  <2>3. w = Node(d, l, r) /\ d \in Key /\ l \in P /\ r \in P /\ l \in Tree /\ r \in Tree
    BY <1>2, <2>1, <2>2 DEF Good
  <2>4. height[l] < Room /\ height[r] < Room
    BY <2>1, <2>2, <2>3, HeightType, TreeAssumption DEF max
  <2>5. Inserted(insert[l][y], l, y) /\ Inserted(insert[r][y], r, y)
    BY <2>1, <2>2, <2>3, <2>4
  <2>6. d \in Int /\ y \in Int
    BY <2>3, TreeAssumption
  <2>7. insert[w][y] = IF y < d THEN AfterInsert([w EXCEPT !.left = insert[l][y]], y)
                       ELSE IF y > d THEN AfterInsert([w EXCEPT !.right = insert[r][y]], y)
                       ELSE w
    <3>1. insert[w] = InsertStep(w, insert[l], insert[r])
      BY <1>2, <2>2, InsertRecursion
    <3> QED
      BY <2>2, <3>1 DEF InsertStep
  <2>8. CASE y < d
    <3>1. PICK m : m = insert[l][y]
      OBVIOUS
    <3>2. insert[w][y] = AfterInsert([w EXCEPT !.left = m], y)
      BY <2>7, <2>8, <3>1
    <3>3. [w EXCEPT !.left = m] = Node(d, m, r)
      BY <2>3, LeftChanged
    <3>4. Inserted(AfterInsert(Node(d, m, r), y), Node(d, l, r), y)
      BY <2>3, <2>5, <2>8, <3>1, InsertedLeft
    <3> QED
      BY <2>3, <3>2, <3>3, <3>4
  <2>9. CASE d < y
    <3>1. PICK m : m = insert[r][y]
      OBVIOUS
    <3>2. insert[w][y] = AfterInsert([w EXCEPT !.right = m], y)
      BY <2>6, <2>7, <2>9, <3>1
    <3>3. [w EXCEPT !.right = m] = Node(d, l, m)
      BY <2>3, RightChanged
    <3>4. Inserted(AfterInsert(Node(d, l, m), y), Node(d, l, r), y)
      BY <2>3, <2>5, <2>9, <3>1, InsertedRight
    <3> QED
      BY <2>3, <3>2, <3>3, <3>4
  <2>10. CASE y = d
    <3>1. insert[w][y] = w
      BY <2>6, <2>7, <2>10
    <3>2. KeysOf(w) = {d} \union KeysOf(l) \union KeysOf(r)
      BY <2>3, KeysOfNode
    <3>3. height[w] # height[w] + 1
      BY HeightType
    <3> QED
      BY <2>10, <3>1, <3>2, <3>3 DEF Inserted
  <2> QED
    BY <2>6, <2>8, <2>9, <2>10
<1>3. Tree \subseteq P
  <2> HIDE DEF P
  <2> QED
    BY <1>1, <1>2, TreeInduction
<1> QED
  BY <1>3

(* A balanced node is left alone.                                          *)
LEMMA EvenStays ==
  ASSUME NEW t, Good(t)
  PROVE  AfterDelete(t) = t /\ \A x : AfterInsert(t, x) = t
<1>1. getBalance(t) \in -1 .. 1
  BY GoodSides, NullIs
<1> QED
  BY <1>1 DEF AfterDelete, AfterInsert

(* Which side of a search tree a key is in.                                *)
LEMMA SideOfKey ==
  ASSUME NEW d, NEW l, NEW r, Node(d, l, r) \in Tree, Ordered(Node(d, l, r)), NEW x \in Key
  PROVE  /\ x < d => x \notin KeysOf(r) /\ (x \in KeysOf(Node(d, l, r)) <=> x \in KeysOf(l))
         /\ d < x => x \notin KeysOf(l) /\ (x \in KeysOf(Node(d, l, r)) <=> x \in KeysOf(r))
         /\ d \notin KeysOf(l) /\ d \notin KeysOf(r) /\ d \in KeysOf(Node(d, l, r))
<1>1. d \in Int /\ x \in Int /\ l \in Tree /\ r \in Tree
  BY NodeIs, TreeAssumption
<1>2. KeysOf(Node(d, l, r)) = {d} \union KeysOf(l) \union KeysOf(r)
  BY KeysOfNode
<1>3. /\ \A y \in KeysOf(l) : y < d
      /\ \A y \in KeysOf(r) : d < y
  BY OrderedNode
<1>4. x \in KeysOf(r) => ~(x < d)
  BY <1>1, <1>3
<1>5. x \in KeysOf(l) => ~(d < x)
  BY <1>1, <1>3
<1>6. d \notin KeysOf(l) /\ d \notin KeysOf(r) /\ ~(d < d)
  BY <1>1, <1>3
<1>7. x < d \/ d < x => x # d
  BY <1>6
<1> QED
  BY <1>2, <1>4, <1>5, <1>6, <1>7

LEMMA InsertAgain ==
  ASSUME NEW t \in Tree, Good(t), NEW x \in KeysOf(t)
  PROVE  insert[t][x] = t
<1> DEFINE P == {w \in Tree : Good(w) => \A y \in KeysOf(w) : insert[w][y] = w}
<1>1. NULL \in P
  BY NullIs
<1>2. ASSUME NEW w \in Tree, w # NULL, w.left \in P, w.right \in P PROVE w \in P
  <2> SUFFICES ASSUME Good(w), NEW y \in KeysOf(w) PROVE insert[w][y] = w
    BY <1>2
  <2>1. w = Node(w.data, w.left, w.right) /\ w.data \in Key /\ Good(w.left) /\ Good(w.right)
    BY <1>2, GoodSides
  <2>2. PICK d, l, r : d = w.data /\ l = w.left /\ r = w.right
    OBVIOUS
  <2>3. w = Node(d, l, r) /\ d \in Key /\ l \in P /\ r \in P /\ Good(l) /\ Good(r)
    BY <1>2, <2>1, <2>2
  <2>4. y \in Key /\ y \in Int /\ d \in Int
    BY <2>3, KeysAreKeys, TreeAssumption
  <2>5. insert[w][y] = IF y < d THEN AfterInsert([w EXCEPT !.left = insert[l][y]], y)
                       ELSE IF y > d THEN AfterInsert([w EXCEPT !.right = insert[r][y]], y)
                       ELSE w
    <3>1. insert[w] = InsertStep(w, insert[l], insert[r])
      BY <1>2, <2>2, InsertRecursion
    <3> QED
      BY <2>2, <2>4, <3>1 DEF InsertStep
  <2>6. Node(d, l, r) \in Tree /\ Ordered(Node(d, l, r))
    BY <2>3 DEF Good
  <2>7. CASE y < d
    <3>1. y \in KeysOf(l)
      BY <2>3, <2>4, <2>6, <2>7, SideOfKey
    <3>2. insert[l][y] = l
      BY <2>3, <3>1
    <3>3. [w EXCEPT !.left = l] = w
      BY <2>3, LeftChanged
    <3> QED
      BY <2>5, <2>7, <3>2, <3>3, EvenStays
  <2>8. CASE d < y
    <3>1. y \in KeysOf(r)
      BY <2>3, <2>4, <2>6, <2>8, SideOfKey
    <3>2. insert[r][y] = r
      BY <2>3, <3>1
    <3>3. [w EXCEPT !.right = r] = w
      BY <2>3, RightChanged
    <3>4. insert[w][y] = AfterInsert([w EXCEPT !.right = insert[r][y]], y)
      BY <2>4, <2>5, <2>8
    <3> QED
      BY <3>2, <3>3, <3>4, EvenStays
  <2> QED
    BY <2>4, <2>5, <2>7, <2>8
<1>3. Tree \subseteq P
  <2> HIDE DEF P
  <2> QED
    BY <1>1, <1>2, TreeInduction
<1> QED
  BY <1>3

-----------------------------------------------------------------------------
(* Deletion                                                                *)

(* s is t with one node less on some path: as high or one lower.           *)
Lower(s, t) ==
  /\ Good(s)
  /\ height[s] = height[t] \/ height[s] = height[t] - 1

Deleted(s, t, x) == Lower(s, t) /\ KeysOf(s) = KeysOf(t) \ {x}

LEMMA DeletedLeft ==
  ASSUME NEW d, NEW l, NEW r, Good(Node(d, l, r)), NEW m, Lower(m, l), NEW e \in Key,
         \A y \in KeysOf(m) : y < e, \A y \in KeysOf(r) : e < y
  PROVE  /\ Lower(AfterDelete(Node(e, m, r)), Node(d, l, r))
         /\ KeysOf(AfterDelete(Node(e, m, r))) = {e} \union KeysOf(m) \union KeysOf(r)
<1> DEFINE t == Node(d, l, r)
           w == Node(e, m, r)
           s == AfterDelete(w)
<1>1. /\ t \in Tree /\ Ordered(t) /\ d \in Key /\ l \in Tree /\ r \in Tree
      /\ IsBalanced[r] /\ height[l] - height[r] \in -1 .. 1
  BY BalancedNode DEF Good
<1>2. height[l] \in Nat /\ height[r] \in Nat /\ Room \in Nat /\ height[t] <= Room
  BY <1>1, HeightType, TreeAssumption
<1>3. height[t] = 1 + max(height[l], height[r])
  BY <1>1, HeightOfNode
<1>4. /\ m \in Tree /\ Ordered(m) /\ IsBalanced[m]
      /\ (height[m] = height[l] \/ height[m] = height[l] - 1)
  BY DEF Lower, Good
<1>5. height[m] < Room /\ height[r] < Room /\ height[m] \in Nat
  BY <1>2, <1>3, <1>4, HeightType DEF max
<1>6. w \in Tree
  BY <1>1, <1>4, <1>5, NodeFits
<1>7. Ordered(r)
  BY <1>1, OrderedNode
<1>8. Ordered(w)
  BY <1>4, <1>6, <1>7, OrderedNode
<1>9. height[m] - height[r] \in -2 .. 2 /\ height[m] - height[r] # 2
  BY <1>1, <1>2, <1>4, <1>5
<1>10. Rebalances(s, w) /\ (height[m] - height[r] \in -1 .. 1 => s = w)
  BY <1>1, <1>4, <1>6, <1>8, <1>9, AfterDeleteBalances
<1>11. height[w] = 1 + max(height[m], height[r])
  BY <1>6, HeightOfNode
<1>12. KeysOf(w) = {e} \union KeysOf(m) \union KeysOf(r)
  BY <1>6, KeysOfNode
<1>13. Good(s) /\ KeysOf(s) = {e} \union KeysOf(m) \union KeysOf(r)
  BY <1>10, <1>12 DEF Rebalances
<1>14. height[s] = height[w] \/ height[s] = height[w] - 1
  BY <1>10 DEF Rebalances
<1> HIDE DEF t, w, s
<1>15. height[s] = height[t] \/ height[s] = height[t] - 1
  <2>1. CASE height[m] - height[r] \in -1 .. 1
    <3>1. height[s] = height[w]
      BY <1>10, <2>1
    <3> QED
      BY <1>2, <1>3, <1>4, <1>5, <1>11, <3>1 DEF max
  <2>2. CASE height[m] - height[r] = -2
    BY <1>1, <1>2, <1>3, <1>4, <1>5, <1>11, <1>14, <2>2 DEF max
  <2> QED
    BY <1>9, <2>1, <2>2
<1> QED
  BY <1>13, <1>15 DEF Lower, t, w, s

LEMMA DeletedRight ==
  ASSUME NEW d, NEW l, NEW r, Good(Node(d, r, l)), NEW m, Lower(m, l), NEW e \in Key,
         \A y \in KeysOf(m) : e < y, \A y \in KeysOf(r) : y < e
  PROVE  /\ Lower(AfterDelete(Node(e, r, m)), Node(d, r, l))
         /\ KeysOf(AfterDelete(Node(e, r, m))) = {e} \union KeysOf(m) \union KeysOf(r)
<1> DEFINE t == Node(d, r, l)
           w == Node(e, r, m)
           s == AfterDelete(w)
<1>1. /\ t \in Tree /\ Ordered(t) /\ d \in Key /\ l \in Tree /\ r \in Tree
      /\ IsBalanced[r] /\ height[r] - height[l] \in -1 .. 1
  BY BalancedNode DEF Good
<1>2. height[l] \in Nat /\ height[r] \in Nat /\ Room \in Nat /\ height[t] <= Room
  BY <1>1, HeightType, TreeAssumption
<1>3. height[t] = 1 + max(height[r], height[l])
  BY <1>1, HeightOfNode
<1>4. /\ m \in Tree /\ Ordered(m) /\ IsBalanced[m]
      /\ (height[m] = height[l] \/ height[m] = height[l] - 1)
  BY DEF Lower, Good
<1>5. height[m] < Room /\ height[r] < Room /\ height[m] \in Nat
  BY <1>2, <1>3, <1>4, HeightType DEF max
<1>6. w \in Tree
  BY <1>1, <1>4, <1>5, NodeFits
<1>7. Ordered(r)
  BY <1>1, OrderedNode
<1>8. Ordered(w)
  BY <1>4, <1>6, <1>7, OrderedNode
<1>9. height[r] - height[m] \in -2 .. 2 /\ height[r] - height[m] # -2
  BY <1>1, <1>2, <1>4, <1>5
<1>10. Rebalances(s, w) /\ (height[r] - height[m] \in -1 .. 1 => s = w)
  BY <1>1, <1>4, <1>6, <1>8, <1>9, AfterDeleteBalances
<1>11. height[w] = 1 + max(height[r], height[m])
  BY <1>6, HeightOfNode
<1>12. KeysOf(w) = {e} \union KeysOf(m) \union KeysOf(r)
  BY <1>6, KeysOfNode
<1>13. Good(s) /\ KeysOf(s) = {e} \union KeysOf(m) \union KeysOf(r)
  BY <1>10, <1>12 DEF Rebalances
<1>14. height[s] = height[w] \/ height[s] = height[w] - 1
  BY <1>10 DEF Rebalances
<1> HIDE DEF t, w, s
<1>15. height[s] = height[t] \/ height[s] = height[t] - 1
  <2>1. CASE height[r] - height[m] \in -1 .. 1
    <3>1. height[s] = height[w]
      BY <1>10, <2>1
    <3> QED
      BY <1>2, <1>3, <1>4, <1>5, <1>11, <3>1 DEF max
  <2>2. CASE height[r] - height[m] = 2
    BY <1>1, <1>2, <1>3, <1>4, <1>5, <1>11, <1>14, <2>2 DEF max
  <2> QED
    BY <1>9, <2>1, <2>2
<1> QED
  BY <1>13, <1>15 DEF Lower, t, w, s

LEMMA DeleteKeepsGood ==
  ASSUME NEW t \in Tree, Good(t), NEW x \in Key
  PROVE  Deleted(deleteNode[t][x], t, x)
<1> DEFINE P == {w \in Tree : Good(w) => \A y \in Key : Deleted(deleteNode[w][y], w, y)}
<1>1. NULL \in P
  <2>1. ASSUME NEW y \in Key PROVE Deleted(deleteNode[NULL][y], NULL, y)
    <3>1. deleteNode[NULL][y] = NULL
      BY DeleteRecursion
    <3>2. Good(NULL) /\ KeysOf(NULL) = {}
      BY NullIs, OrderedNull DEF Good
    <3> QED
      BY <3>1, <3>2 DEF Deleted, Lower
  <2> QED
    BY <2>1, NullIs
<1>2. ASSUME NEW w \in Tree, w # NULL, w.left \in P, w.right \in P PROVE w \in P
  <2> SUFFICES ASSUME Good(w), NEW y \in Key PROVE Deleted(deleteNode[w][y], w, y)
    BY <1>2
  <2>1. /\ w = Node(w.data, w.left, w.right) /\ w.data \in Key /\ Good(w.left) /\ Good(w.right)
        /\ height[w] = 1 + max(height[w.left], height[w.right])
    BY <1>2, GoodSides
  <2>2. PICK d, l, r : d = w.data /\ l = w.left /\ r = w.right
    OBVIOUS
  <2>3. w = Node(d, l, r) /\ d \in Key /\ l \in P /\ r \in P /\ Good(l) /\ Good(r)
    BY <1>2, <2>1, <2>2
  <2>4. d \in Int /\ y \in Int
    BY <2>3, TreeAssumption
  <2>5. /\ \A k \in Key : Deleted(deleteNode[l][k], l, k)
        /\ \A k \in Key : Deleted(deleteNode[r][k], r, k)
    BY <2>3
  <2>6. Node(d, l, r) \in Tree /\ Ordered(Node(d, l, r)) /\ Good(Node(d, l, r))
    BY <2>3 DEF Good
  <2>7. KeysOf(w) = {d} \union KeysOf(l) \union KeysOf(r)
    BY <2>3, <2>6, KeysOfNode
  <2>8. /\ \A k \in KeysOf(l) : k < d
        /\ \A k \in KeysOf(r) : d < k
    BY <2>6, OrderedNode
  <2>9. height[w] = 1 + max(height[l], height[r]) /\ height[l] \in Nat /\ height[r] \in Nat
    BY <2>1, <2>2, <2>3, HeightType DEF Good
  <2>10. deleteNode[w][y] =
           IF y < d THEN AfterDelete([w EXCEPT !.left = deleteNode[l][y]])
           ELSE IF y > d THEN AfterDelete([w EXCEPT !.right = deleteNode[r][y]])
           ELSE IF l = NULL /\ r = NULL THEN NULL
           ELSE IF r = NULL THEN AfterDelete(l)
           ELSE IF l = NULL THEN AfterDelete(r)
           ELSE AfterDelete(Node(minValueNode[r].data, l, deleteNode[r][minValueNode[r].data]))
    <3>1. deleteNode[w] = DeleteStep(w, deleteNode[l], deleteNode[r])
      BY <1>2, <2>2, DeleteRecursion
    <3> QED
      BY <2>2, <3>1 DEF DeleteStep
  <2>11. CASE y < d
    <3>1. PICK m : m = deleteNode[l][y]
      OBVIOUS
    <3>2. Lower(m, l) /\ KeysOf(m) = KeysOf(l) \ {y}
      BY <2>5, <3>1 DEF Deleted
    <3>3. [w EXCEPT !.left = m] = Node(d, m, r)
      BY <2>3, LeftChanged
    <3>4. deleteNode[w][y] = AfterDelete(Node(d, m, r))
      BY <2>10, <2>11, <3>1, <3>3
    <3>5. \A k \in KeysOf(m) : k < d
      BY <2>8, <3>2
    <3>6. /\ Lower(AfterDelete(Node(d, m, r)), Node(d, l, r))
          /\ KeysOf(AfterDelete(Node(d, m, r))) = {d} \union KeysOf(m) \union KeysOf(r)
      BY <2>3, <2>6, <2>8, <3>2, <3>5, DeletedLeft
    <3>7. {d} \union KeysOf(m) \union KeysOf(r) = KeysOf(w) \ {y}
      <4>1. y \notin KeysOf(r)
        BY <2>6, <2>11, SideOfKey
      <4>2. y # d
        BY <2>4, <2>11
      <4> QED
        BY <2>7, <3>2, <4>1, <4>2
    <3> QED
      BY <2>3, <3>4, <3>6, <3>7 DEF Deleted
  <2>12. CASE d < y
    <3>1. PICK m : m = deleteNode[r][y]
      OBVIOUS
    <3>2. Lower(m, r) /\ KeysOf(m) = KeysOf(r) \ {y}
      BY <2>5, <3>1 DEF Deleted
    <3>3. [w EXCEPT !.right = m] = Node(d, l, m)
      BY <2>3, RightChanged
    <3>4. deleteNode[w][y] = AfterDelete(Node(d, l, m))
      <4>1. ~(y < d) /\ y > d
        BY <2>4, <2>12
      <4> QED
        BY <2>10, <3>1, <3>3, <4>1
    <3>5. \A k \in KeysOf(m) : d < k
      BY <2>8, <3>2
    <3>6. /\ Lower(AfterDelete(Node(d, l, m)), Node(d, l, r))
          /\ KeysOf(AfterDelete(Node(d, l, m))) = {d} \union KeysOf(m) \union KeysOf(l)
      BY <2>3, <2>6, <2>8, <3>2, <3>5, DeletedRight
    <3>7. {d} \union KeysOf(m) \union KeysOf(l) = KeysOf(w) \ {y}
      <4>1. y \notin KeysOf(l)
        BY <2>6, <2>12, SideOfKey
      <4>2. y # d
        BY <2>4, <2>12
      <4> QED
        BY <2>7, <3>2, <4>1, <4>2
    <3> QED
      BY <2>3, <3>4, <3>6, <3>7 DEF Deleted
  <2>13. CASE y = d
    <3>1. ~(y < d) /\ ~(y > d)
      BY <2>4, <2>13
    <3>2. d \notin KeysOf(l) /\ d \notin KeysOf(r)
      BY <2>3, <2>6, SideOfKey
    <3>3. KeysOf(w) \ {y} = KeysOf(l) \union KeysOf(r)
      BY <2>7, <2>13, <3>2
    <3>4. CASE l = NULL /\ r = NULL
      <4>1. deleteNode[w][y] = NULL
        BY <2>10, <3>1, <3>4
      <4>2. Good(NULL) /\ KeysOf(NULL) = {} /\ height[NULL] = 0
        BY NullIs, OrderedNull DEF Good
      <4>3. height[w] = 1
        BY <2>9, <3>4, <4>2 DEF max
      <4> QED
        BY <3>3, <3>4, <4>1, <4>2, <4>3 DEF Deleted, Lower
    <3>5. CASE l # NULL /\ r = NULL
      <4>1. deleteNode[w][y] = l
        BY <2>3, <2>10, <3>1, <3>5, EvenStays
      <4>2. KeysOf(r) = {} /\ height[r] = 0
        BY <3>5, NullIs
      <4>3. height[l] = height[w] - 1
        BY <2>9, <4>2 DEF max
      <4> QED
        BY <2>3, <3>3, <4>1, <4>2, <4>3 DEF Deleted, Lower
    <3>6. CASE l = NULL /\ r # NULL
      <4>1. deleteNode[w][y] = r
        BY <2>3, <2>10, <3>1, <3>6, EvenStays
      <4>2. KeysOf(l) = {} /\ height[l] = 0
        BY <3>6, NullIs
      <4>3. height[r] = height[w] - 1
        BY <2>9, <4>2 DEF max
      <4> QED
        BY <2>3, <3>3, <4>1, <4>2, <4>3 DEF Deleted, Lower
    <3>7. CASE l # NULL /\ r # NULL
      <4>1. PICK next : next = minValueNode[r].data
        OBVIOUS
      <4>2. next \in KeysOf(r) /\ \A k \in KeysOf(r) : next <= k
        BY <2>3, <3>7, <4>1, MinIsSmallest DEF Good
      <4>3. KeysOf(r) \subseteq Key /\ KeysOf(r) \subseteq Int /\ KeysOf(l) \subseteq Int
        BY <2>3, KeysAreKeys DEF Good
      <4>4. PICK m : m = deleteNode[r][next]
        OBVIOUS
      <4>5. Lower(m, r) /\ KeysOf(m) = KeysOf(r) \ {next} /\ next \in Key /\ next \in Int
        BY <2>5, <4>2, <4>3, <4>4 DEF Deleted
      <4>6. deleteNode[w][y] = AfterDelete(Node(next, l, m))
        BY <2>10, <3>1, <3>7, <4>1, <4>4
      <4>8. \A k \in KeysOf(m) : next < k
        BY <4>2, <4>3, <4>5
      <4>9. \A k \in KeysOf(l) : k < next
        BY <2>4, <2>8, <4>2, <4>3, <4>5
      <4>10. /\ Lower(AfterDelete(Node(next, l, m)), Node(d, l, r))
             /\ KeysOf(AfterDelete(Node(next, l, m))) = {next} \union KeysOf(m) \union KeysOf(l)
        BY <2>6, <4>5, <4>8, <4>9, DeletedRight
      <4>11. {next} \union KeysOf(m) \union KeysOf(l) = KeysOf(l) \union KeysOf(r)
        BY <4>2, <4>5
      <4> QED
        BY <2>3, <3>3, <4>6, <4>10, <4>11 DEF Deleted
    <3> QED
      BY <3>4, <3>5, <3>6, <3>7
  <2> QED
    BY <2>4, <2>11, <2>12, <2>13
<1>3. Tree \subseteq P
  <2> HIDE DEF P
  <2> QED
    BY <1>1, <1>2, TreeInduction
<1> QED
  BY <1>3

-----------------------------------------------------------------------------
(* Search, and no key twice                                                *)

LEMMA FindsKeys ==
  ASSUME NEW t \in Tree, Ordered(t), NEW x \in Key
  PROVE  Finds[t][x] <=> x \in KeysOf(t)
<1> DEFINE P == {w \in Tree : Ordered(w) => \A y \in Key : Finds[w][y] <=> y \in KeysOf(w)}
<1>1. NULL \in P
  BY NullIs, FindsIs
<1>2. ASSUME NEW w \in Tree, w # NULL, w.left \in P, w.right \in P PROVE w \in P
  <2> SUFFICES ASSUME Ordered(w), NEW y \in Key PROVE Finds[w][y] <=> y \in KeysOf(w)
    BY <1>2
  <2>1. w = Node(w.data, w.left, w.right) /\ w.data \in Key /\ w.left \in Tree /\ w.right \in Tree
    BY <1>2, Subtrees
  <2>2. PICK d, l, r : d = w.data /\ l = w.left /\ r = w.right
    OBVIOUS
  <2>3. w = Node(d, l, r) /\ d \in Key /\ l \in P /\ r \in P
    BY <1>2, <2>1, <2>2
  <2>4. d \in Int /\ y \in Int
    BY <2>3, TreeAssumption
  <2>5. Ordered(l) /\ Ordered(r)
    BY <2>3, OrderedNode
  <2>6. (Finds[l][y] <=> y \in KeysOf(l)) /\ (Finds[r][y] <=> y \in KeysOf(r))
    BY <2>3, <2>5
  <2>7. Finds[w][y] = IF y < d THEN Finds[l][y] ELSE IF y > d THEN Finds[r][y] ELSE TRUE
    <3>1. Finds[w] = FindStep(w, Finds[l], Finds[r])
      BY <1>2, <2>2, FindsIs
    <3> QED
      BY <2>2, <3>1 DEF FindStep
  <2>8. /\ y < d => (y \in KeysOf(w) <=> y \in KeysOf(l))
        /\ d < y => (y \in KeysOf(w) <=> y \in KeysOf(r))
        /\ d \in KeysOf(w)
    BY <2>3, SideOfKey
  <2> QED
    BY <2>4, <2>6, <2>7, <2>8
<1>3. Tree \subseteq P
  <2> HIDE DEF P
  <2> QED
    BY <1>1, <1>2, TreeInduction
<1> QED
  BY <1>3

LEMMA InjectiveConcat ==
  ASSUME NEW S, NEW a \in Seq(S), NEW b \in Seq(S), IsInjective(a), IsInjective(b),
         Range(a) \intersect Range(b) = {}
  PROVE  IsInjective(a \o b)
<1>1. /\ a \o b \in Seq(S) /\ Len(a \o b) = Len(a) + Len(b)
      /\ \A i \in 1 .. Len(a) + Len(b) :
           (a \o b)[i] = IF i <= Len(a) THEN a[i] ELSE b[i - Len(a)]
  BY ConcatProperties
<1>2. DOMAIN a = 1 .. Len(a) /\ DOMAIN b = 1 .. Len(b) /\ Len(a) \in Nat /\ Len(b) \in Nat
  BY LenProperties
<1>3. DOMAIN (a \o b) = 1 .. Len(a) + Len(b)
  BY <1>1, LenProperties
<1> SUFFICES ASSUME NEW i \in 1 .. Len(a) + Len(b), NEW j \in 1 .. Len(a) + Len(b),
                    (a \o b)[i] = (a \o b)[j]
             PROVE  i = j
  BY <1>3 DEF IsInjective
<1>4. CASE i <= Len(a) /\ j <= Len(a)
  BY <1>1, <1>2, <1>4 DEF IsInjective
<1>5. CASE i > Len(a) /\ j > Len(a)
  <2>1. i - Len(a) \in DOMAIN b /\ j - Len(a) \in DOMAIN b
    BY <1>2, <1>5
  <2>2. b[i - Len(a)] = b[j - Len(a)]
    BY <1>1, <1>2, <1>5
  <2>3. i - Len(a) = j - Len(a)
    BY <2>1, <2>2 DEF IsInjective
  <2> QED
    BY <1>2, <2>3
<1>6. \A p, q \in 1 .. Len(a) + Len(b) :
        p <= Len(a) /\ q > Len(a) => (a \o b)[p] # (a \o b)[q]
  <2> SUFFICES ASSUME NEW p \in 1 .. Len(a) + Len(b), NEW q \in 1 .. Len(a) + Len(b),
                      p <= Len(a), q > Len(a)
               PROVE  (a \o b)[p] # (a \o b)[q]
    OBVIOUS
  <2>1. (a \o b)[p] = a[p] /\ (a \o b)[q] = b[q - Len(a)]
    BY <1>1, <1>2
  <2>2. p \in DOMAIN a /\ q - Len(a) \in DOMAIN b
    BY <1>2
  <2> QED
    BY <2>1, <2>2 DEF Range
<1> QED
  BY <1>2, <1>4, <1>5, <1>6

LEMMA NoKeyTwice ==
  ASSUME NEW t \in Tree, Ordered(t)
  PROVE  IsInjective(preOrder[t])
<1> DEFINE P == {w \in Tree : Ordered(w) => IsInjective(preOrder[w])}
<1>1. NULL \in P
  <2>1. DOMAIN <<>> = {}
    OBVIOUS
  <2> QED
    BY <2>1, NullIs DEF IsInjective
<1>2. ASSUME NEW w \in Tree, w # NULL, w.left \in P, w.right \in P PROVE w \in P
  <2> SUFFICES ASSUME Ordered(w) PROVE IsInjective(preOrder[w])
    BY <1>2
  <2>1. w = Node(w.data, w.left, w.right) /\ w.data \in Key /\ w.left \in Tree /\ w.right \in Tree
    BY <1>2, Subtrees
  <2>2. PICK d, l, r : d = w.data /\ l = w.left /\ r = w.right
    OBVIOUS
  <2>3. w = Node(d, l, r) /\ d \in Key /\ l \in P /\ r \in P /\ l \in Tree /\ r \in Tree
    BY <1>2, <2>1, <2>2
  <2>4. /\ Ordered(l) /\ Ordered(r)
        /\ \A k \in KeysOf(l) : k < d
        /\ \A k \in KeysOf(r) : d < k
    BY <2>3, OrderedNode
  <2>5. preOrder[w] = <<d>> \o preOrder[l] \o preOrder[r]
    BY <1>2, <2>2, OrderIs
  <2>6. PICK a, b, c : a = <<d>> /\ b = preOrder[l] /\ c = preOrder[r]
    OBVIOUS
  <2>7. a \in Seq(Key) /\ b \in Seq(Key) /\ c \in Seq(Key)
    BY <2>3, <2>6, OrderIs
  <2>8. IsInjective(a) /\ IsInjective(b) /\ IsInjective(c)
    <3>1. DOMAIN a = {1}
      BY <2>6
    <3>2. IsInjective(a)
      BY <3>1 DEF IsInjective
    <3> QED
      BY <2>3, <2>4, <2>6, <3>2
  <2>9. Range(a) = {d} /\ Range(b) = KeysOf(l) /\ Range(c) = KeysOf(r)
    BY <2>6 DEF Range, KeysOf
  <2>10. d \notin KeysOf(l) /\ d \notin KeysOf(r)
    BY <2>3, SideOfKey
  <2>11. KeysOf(l) \intersect KeysOf(r) = {}
    <3>1. d \in Int /\ KeysOf(l) \subseteq Int /\ KeysOf(r) \subseteq Int
      BY <2>3, KeysAreKeys, TreeAssumption
    <3> QED
      BY <2>4, <3>1
  <2>12. IsInjective(a \o b) /\ a \o b \in Seq(Key) /\ Range(a \o b) = {d} \union KeysOf(l)
    <3>1. Range(a) \intersect Range(b) = {}
      BY <2>9, <2>10
    <3> QED
      BY <2>7, <2>8, <2>9, <3>1, InjectiveConcat, RangeOfConcat, ConcatProperties
  <2>13. IsInjective((a \o b) \o c)
    <3>1. PICK e : e = a \o b
      OBVIOUS
    <3>2. Range(e) \intersect Range(c) = {}
      BY <2>9, <2>10, <2>11, <2>12, <3>1
    <3> QED
      BY <2>7, <2>8, <2>12, <3>1, <3>2, InjectiveConcat
  <2> QED
    BY <2>5, <2>6, <2>13
<1>3. Tree \subseteq P
  <2> HIDE DEF P
  <2> QED
    BY <1>1, <1>2, TreeInduction
<1> QED
  BY <1>3

(* A tree is no higher than it has nodes.                                  *)
LEMMA HeightWithinSize ==
  ASSUME NEW t \in Tree
  PROVE  height[t] <= Len(preOrder[t]) /\ Len(preOrder[t]) \in Nat
<1> DEFINE P == {w \in Tree : height[w] <= Len(preOrder[w]) /\ Len(preOrder[w]) \in Nat}
<1>1. NULL \in P
  BY NullIs
<1>2. ASSUME NEW w \in Tree, w # NULL, w.left \in P, w.right \in P PROVE w \in P
  <2>1. w = Node(w.data, w.left, w.right) /\ w.data \in Key /\ w.left \in Tree /\ w.right \in Tree
    BY <1>2, Subtrees
  <2>2. preOrder[w] = <<w.data>> \o preOrder[w.left] \o preOrder[w.right]
    BY <1>2, OrderIs
  <2>3. PICK a, b, c : a = <<w.data>> /\ b = preOrder[w.left] /\ c = preOrder[w.right]
    OBVIOUS
  <2>4. a \in Seq(Key) /\ b \in Seq(Key) /\ c \in Seq(Key) /\ Len(a) = 1
    BY <2>1, <2>3, OrderIs
  <2>5. Len(a \o b) = Len(a) + Len(b) /\ a \o b \in Seq(Key)
    BY <2>4, ConcatProperties
  <2>6. Len((a \o b) \o c) = Len(a \o b) + Len(c)
    BY <2>4, <2>5, ConcatProperties
  <2>7. Len(preOrder[w]) = 1 + Len(b) + Len(c)
    BY <2>2, <2>3, <2>4, <2>5, <2>6
  <2>8. height[w] = 1 + max(height[w.left], height[w.right])
    BY <1>2, HeightIs
  <2>9. height[w.left] \in Nat /\ height[w.right] \in Nat
    BY <2>1, HeightType
  <2>10. height[w.left] <= Len(b) /\ height[w.right] <= Len(c) /\ Len(b) \in Nat /\ Len(c) \in Nat
    BY <1>2, <2>3
  <2> QED
    BY <2>7, <2>8, <2>9, <2>10 DEF max
<1>3. Tree \subseteq P
  <2> HIDE DEF P
  <2> QED
    BY <1>1, <1>2, TreeInduction
<1> QED
  BY <1>3

-----------------------------------------------------------------------------
(* The steps of the tree                                                   *)

LEMMA InsertedTree ==
  ASSUME NEW t, Good(t), NEW k \in Key, Finds[t][k] \/ Len(preOrder[t]) < Room
  PROVE  Good(insert[t][k]) /\ KeysOf(insert[t][k]) = KeysOf(t) \union {k}
<1>0. t \in Tree /\ Ordered(t)
  BY DEF Good
<1>1. CASE Finds[t][k]
  <2>1. k \in KeysOf(t)
    BY <1>0, <1>1, FindsKeys
  <2>2. insert[t][k] = t
    BY <1>0, <2>1, InsertAgain
  <2> QED
    BY <2>1, <2>2
<1>2. CASE Len(preOrder[t]) < Room
  <2>1. height[t] < Room
    BY <1>0, <1>2, HeightWithinSize, HeightType, TreeAssumption
  <2> QED
    BY <1>0, <2>1, InsertKeepsGood DEF Inserted
<1> QED
  BY <1>1, <1>2

LEMMA DeletedTree ==
  ASSUME NEW t, Good(t), NEW k \in Key
  PROVE  Good(deleteNode[t][k]) /\ KeysOf(deleteNode[t][k]) = KeysOf(t) \ {k}
BY DeleteKeepsGood DEF Deleted, Lower, Good

(* A tree is empty when it has no keys.                                    *)
LEMMA EmptyTree ==
  ASSUME NEW t \in Tree
  PROVE  t = NULL <=> KeysOf(t) = {}
<1>1. t = NULL => KeysOf(t) = {}
  BY NullIs
<1>2. ASSUME t # NULL PROVE KeysOf(t) # {}
  <2>1. t = Node(t.data, t.left, t.right)
    BY <1>2, Subtrees
  <2> QED
    BY <2>1, KeysOfNode
<1> QED
  BY <1>1, <1>2

LEMMA NullIsGood == Good(NULL)
BY NullIs, OrderedNull DEF Good

(* The tree is a balanced search tree; the balance alone is not inductive, *)
(* since the rotations are chosen by comparing keys.                       *)
TreeInv == Good(tree)

LEMMA TreeStepKeepsInv ==
  ASSUME TreeInv, [TreeNext]_treeVars
  PROVE  TreeInv'
<1>1. CASE create_avl_tree
  BY <1>1, NullIsGood DEF create_avl_tree, TreeInv
<1>2. CASE destroy_tree
  BY <1>2, NullIsGood DEF destroy_tree, TreeInv
<1>3. ASSUME NEW k \in Key, insert_node(k) PROVE TreeInv'
  <2>1. tree' = insert[tree][k] /\ (Finds[tree][k] \/ Len(preOrder[tree]) < Room)
    BY <1>3 DEF insert_node
  <2>2. Good(insert[tree][k])
    BY <2>1, InsertedTree DEF TreeInv
  <2> QED
    BY <2>1, <2>2 DEF TreeInv
<1>4. ASSUME NEW k \in Key, insert_without_memory(k) \/ search(k) PROVE TreeInv'
  BY <1>4 DEF insert_without_memory, search, TreeInv
<1>5. ASSUME NEW k \in Key, remove_key(k) PROVE TreeInv'
  <2>1. tree' = deleteNode[tree][k]
    BY <1>5 DEF remove_key
  <2>2. Good(deleteNode[tree][k])
    BY DeletedTree DEF TreeInv
  <2> QED
    BY <2>1, <2>2 DEF TreeInv
<1>6. CASE UNCHANGED treeVars
  BY <1>6 DEF treeVars, TreeInv
<1> QED
  BY <1>1, <1>2, <1>3, <1>4, <1>5, <1>6 DEF TreeNext

LEMMA TreeInvAlways == TreeSpec => []TreeInv
<1>1. TreeInit => TreeInv
  BY NullIsGood DEF TreeInit, TreeInv
<1>2. TreeInv /\ [TreeNext]_treeVars => TreeInv'
  BY TreeStepKeepsInv
<1> QED
  BY <1>1, <1>2, PTL DEF TreeSpec

(* However insertions and removals follow each other, and whichever of the *)
(* nodes they take out, the heights of the two sides of every node of the  *)
(* tree of avl.c differ by one at most, and no key is in it twice.         *)
THEOREM TreeStaysBalanced == TreeSpec => []TreeIsBalanced
<1>1. TreeInv => TreeIsBalanced
  BY NoKeyTwice DEF TreeInv, Good, TreeIsBalanced
<1> QED
  BY <1>1, TreeInvAlways, PTL

LEMMA TreeAnswers ==
  ASSUME TreeInv
  PROVE  /\ Keys = KeysOf(tree) /\ tree \in Tree /\ Ordered(tree)
         /\ \A k \in Key : Finds[tree][k] <=> k \in Keys
         /\ Reports(tree) = PromisedSet!EmptyFails(Keys)
<1>1. Keys = KeysOf(tree) /\ tree \in Tree /\ Ordered(tree)
  BY DEF Keys, KeysOf, TreeInv, Good
<1>2. \A k \in Key : Finds[tree][k] <=> k \in KeysOf(tree)
  BY <1>1, FindsKeys
<1>3. tree = NULL <=> KeysOf(tree) = {}
  BY <1>1, EmptyTree
<1> QED
  BY <1>1, <1>2, <1>3 DEF Reports, PromisedSet!EmptyFails

LEMMA TreeAnswersNext ==
  ASSUME TreeInv'
  PROVE  /\ Keys' = KeysOf(tree') /\ tree' \in Tree
         /\ Reports(tree') = PromisedSet!EmptyFails(Keys')
<1>1. Keys' = KeysOf(tree') /\ tree' \in Tree
  BY DEF Keys, KeysOf, TreeInv, Good
<1>2. tree' = NULL <=> KeysOf(tree') = {}
  BY <1>1, EmptyTree
<1> QED
  BY <1>1, <1>2 DEF Reports, PromisedSet!EmptyFails

LEMMA TreeStepIsSetStep ==
  ASSUME TreeInv, TreeInv', [TreeNext]_treeVars
  PROVE  [PromisedSet!Next]_PromisedSet!vars
<1>1. ASSUME create_avl_tree PROVE PromisedSet!Create
  <2>1. tree' = NULL /\ told' = Told("create", 0, 0)
    BY <1>1 DEF create_avl_tree
  <2>2. Keys' = {}
    BY <2>1, NullIs, TreeAnswersNext
  <2> QED
    BY <2>1, <2>2 DEF PromisedSet!Create, PromisedSet!Told, Told
<1>2. ASSUME destroy_tree PROVE PromisedSet!Destroy
  <2>1. tree' = NULL /\ told' = Told("destroy", 0, 0)
    BY <1>2 DEF destroy_tree
  <2>2. Keys' = {}
    BY <2>1, NullIs, TreeAnswersNext
  <2> QED
    BY <2>1, <2>2 DEF PromisedSet!Destroy, PromisedSet!Told, Told
<1>3. ASSUME NEW k \in Key, insert_node(k) PROVE PromisedSet!Insert(k)
  <2>1. /\ tree' = insert[tree][k] /\ (Finds[tree][k] \/ Len(preOrder[tree]) < Room)
        /\ told' = Told("insert", k, Reports(tree'))
    BY <1>3 DEF insert_node
  <2>2. KeysOf(insert[tree][k]) = KeysOf(tree) \union {k}
    BY <2>1, InsertedTree DEF TreeInv
  <2>3. Keys' = Keys \union {k}
    BY <2>1, <2>2, TreeAnswers, TreeAnswersNext
  <2>4. Reports(tree') = 0
    BY <2>3, TreeAnswersNext DEF PromisedSet!EmptyFails
  <2> QED
    BY <2>1, <2>3, <2>4 DEF PromisedSet!Insert, PromisedSet!Told, Told
<1>4. ASSUME NEW k \in Key, insert_without_memory(k) PROVE PromisedSet!InsertWithoutMemory(k)
  <2>1. /\ ~Finds[tree][k] /\ tree' = tree
        /\ told' = Told("insert", k, Reports(tree))
    BY <1>4 DEF insert_without_memory
  <2>2. k \notin Keys /\ Reports(tree) = PromisedSet!EmptyFails(Keys)
    BY <2>1, TreeAnswers
  <2>3. Keys' = Keys
    BY <2>1 DEF Keys
  <2> QED
    BY <2>1, <2>2, <2>3 DEF PromisedSet!InsertWithoutMemory, PromisedSet!Told, Told
<1>5. ASSUME NEW k \in Key, remove_key(k) PROVE PromisedSet!Remove(k)
  <2>1. tree' = deleteNode[tree][k] /\ told' = Told("remove", k, Reports(tree'))
    BY <1>5 DEF remove_key
  <2>2. KeysOf(deleteNode[tree][k]) = KeysOf(tree) \ {k}
    BY DeletedTree DEF TreeInv
  <2>3. Keys' = Keys \ {k} /\ Reports(tree') = PromisedSet!EmptyFails(Keys')
    BY <2>1, <2>2, TreeAnswers, TreeAnswersNext
  <2> QED
    BY <2>1, <2>3 DEF PromisedSet!Remove, PromisedSet!Told, Told
<1>6. ASSUME NEW k \in Key, search(k) PROVE PromisedSet!Search(k)
  <2>1. tree' = tree /\ told' = Told("search", k, IF Finds[tree][k] THEN 1 ELSE 0)
    BY <1>6 DEF search
  <2>2. Finds[tree][k] <=> k \in Keys
    BY TreeAnswers
  <2>3. Keys' = Keys
    BY <2>1 DEF Keys
  <2> QED
    BY <2>1, <2>2, <2>3 DEF PromisedSet!Search, PromisedSet!Told, Told
<1>7. ASSUME UNCHANGED treeVars PROVE UNCHANGED PromisedSet!vars
  BY <1>7 DEF treeVars, PromisedSet!vars, Keys
<1> QED
  BY <1>1, <1>2, <1>3, <1>4, <1>5, <1>6, <1>7 DEF TreeNext, PromisedSet!Next

(* The tree of avl.c is a set of keys, call by call and answer by answer:  *)
(* no rotation loses or doubles a key, the key that takes a deleted node's *)
(* place is the right one, and a search finds what was inserted and not    *)
(* removed, whatever the keys and however many.                            *)
THEOREM TreeIsSet == TreeSpec => TreeActsAsSet
<1>1. TreeInit => PromisedSet!Init
  <2>1. ASSUME TreeInit PROVE Keys = {} /\ told = Told("create", 0, 0)
    BY <2>1, NullIs DEF TreeInit, Keys, KeysOf
  <2> QED
    BY <2>1 DEF PromisedSet!Init, PromisedSet!Told, Told
<1>2. TreeInv /\ TreeInv' /\ [TreeNext]_treeVars => [PromisedSet!Next]_PromisedSet!vars
  BY TreeStepIsSetStep
<1> QED
  BY <1>1, <1>2, TreeInvAlways, PTL DEF TreeSpec, TreeActsAsSet, PromisedSet!Spec
=============================================================================
