---------------------------- MODULE Lists_proofs ----------------------------
(***************************************************************************)
(* Proofs about the linked lists: whatever cells malloc gives and however  *)
(* many, the cells a list has allocated are a row of distinct cells, each  *)
(* pointing to the next, so that the stack and the circular list implement *)
(* the sequence of items (ItemSequence) and lose no cell.                  *)
(***************************************************************************)
EXTENDS Lists, SequencesExt, FiniteSetTheorems, SequenceTheorems, WellFoundedInduction, TLAPS

(* Any part of a sequence, from one of its places on.                      *)
LEMMA PartProperties ==
  ASSUME NEW S, NEW q \in Seq(S), NEW i \in 1 .. Len(q) + 1, NEW j \in 0 .. Len(q), i <= j + 1
  PROVE  /\ SubSeq(q, i, j) \in Seq(S) /\ Len(SubSeq(q, i, j)) = j + 1 - i
         /\ \A k \in 1 .. j + 1 - i : SubSeq(q, i, j)[k] = q[i + k - 1]
<1>1. Len(q) \in Nat /\ \A k \in 1 .. Len(q) : q[k] \in S
  BY ElementOfSeq, LenProperties
<1>2. /\ SubSeq(q, i, j) \in Seq(S)
      /\ Len(SubSeq(q, i, j)) = IF i <= j THEN j - i + 1 ELSE 0
      /\ \A k \in 1 .. j - i + 1 : SubSeq(q, i, j)[k] = q[i + k - 1]
  BY <1>1, SubSeqProperties
<1> QED BY <1>1, <1>2

(* s is q with x put in at place i.                                        *)
IsInserted(S, s, q, i, x) ==
  /\ s \in Seq(S) /\ Len(s) = Len(q) + 1
  /\ \A j \in 1 .. Len(q) + 1 : s[j] = IF j < i THEN q[j] ELSE IF j = i THEN x ELSE q[j - 1]

(* A sequence with an element more.                                        *)
LEMMA InsertAtProperties ==
  ASSUME NEW S, NEW q \in Seq(S), NEW x \in S, NEW i \in 1 .. Len(q) + 1
  PROVE  IsInserted(S, InsertAt(q, i, x), q, i, x)
<1> DEFINE front == SubSeq(q, 1, i - 1)
           mid   == <<x>>
           back  == SubSeq(q, i, Len(q))
<1>1. Len(q) \in Nat
  BY LenProperties
<1>2. front \in Seq(S) /\ Len(front) = i - 1 /\ \A j \in 1 .. i - 1 : front[j] = q[j]
  <2>1. \A a \in 1 .. Len(q) + 1, b \in 0 .. Len(q) : a <= b + 1 =>
          /\ SubSeq(q, a, b) \in Seq(S) /\ Len(SubSeq(q, a, b)) = b + 1 - a
          /\ \A k \in 1 .. b + 1 - a : SubSeq(q, a, b)[k] = q[a + k - 1]
    BY PartProperties
  <2>2. i - 1 \in 0 .. Len(q) /\ 1 \in 1 .. Len(q) + 1
    BY <1>1
  <2> QED BY <1>1, <2>1, <2>2
<1>3. back \in Seq(S) /\ Len(back) = Len(q) + 1 - i
      /\ \A j \in 1 .. Len(q) + 1 - i : back[j] = q[i + j - 1]
  BY <1>1, PartProperties
<1>4. mid \in Seq(S) /\ Len(mid) = 1 /\ mid[1] = x
  OBVIOUS
<1>5. InsertAt(q, i, x) = (front \o mid) \o back
  BY DEF InsertAt
<1> HIDE DEF front, mid, back
<1>6. /\ front \o mid \in Seq(S) /\ Len(front \o mid) = i
      /\ \A j \in 1 .. i : (front \o mid)[j] = IF j < i THEN q[j] ELSE x
  <2>1. /\ front \o mid \in Seq(S) /\ Len(front \o mid) = Len(front) + Len(mid)
        /\ \A j \in 1 .. Len(front) + Len(mid) :
             (front \o mid)[j] = IF j <= Len(front) THEN front[j] ELSE mid[j - Len(front)]
    BY <1>2, <1>4, ConcatProperties
  <2>2. ASSUME NEW j \in 1 .. i PROVE (front \o mid)[j] = IF j < i THEN q[j] ELSE x
    <3>0. (front \o mid)[j] = IF j <= i - 1 THEN front[j] ELSE mid[j - (i - 1)]
      BY <1>2, <1>4, <2>1
    <3>1. CASE j < i
      BY <1>2, <3>0, <3>1
    <3>2. CASE j = i
      <4>1. j - (i - 1) = 1 /\ ~(j <= i - 1) /\ ~(j < i)
        BY <3>2
      <4> QED BY <1>4, <3>0, <4>1
    <3>3. j < i \/ j = i
      OBVIOUS
    <3> QED BY <3>1, <3>2, <3>3
  <2> QED BY <1>2, <1>4, <2>1, <2>2
<1> DEFINE first == front \o mid
<1> HIDE DEF first
<1>7. /\ first \o back \in Seq(S) /\ Len(first \o back) = Len(first) + Len(back)
      /\ \A j \in 1 .. Len(first) + Len(back) :
           (first \o back)[j] = IF j <= Len(first) THEN first[j] ELSE back[j - Len(first)]
  BY <1>3, <1>6, ConcatProperties, SMTT(40) DEF first
<1>8. Len(first) = i /\ \A j \in 1 .. i : first[j] = IF j < i THEN q[j] ELSE x
  BY <1>6 DEF first
<1>9. Len(first) + Len(back) = Len(q) + 1
  BY <1>1, <1>3, <1>8
<1>10. ASSUME NEW j \in 1 .. Len(q) + 1
       PROVE  (first \o back)[j] = IF j < i THEN q[j] ELSE IF j = i THEN x ELSE q[j - 1]
  <2>1. CASE j <= i
    BY <1>7, <1>8, <1>9, <2>1
  <2>2. CASE j > i
    <3>1. (first \o back)[j] = back[j - i]
      BY <1>7, <1>8, <1>9, <2>2
    <3>2. j - i \in 1 .. Len(q) + 1 - i /\ i + (j - i) - 1 = j - 1
      BY <1>1, <2>2
    <3>3. back[j - i] = q[j - 1]
      BY <1>3, <3>2
    <3>4. ~(j < i) /\ j # i
      BY <2>2
    <3> QED BY <3>1, <3>3, <3>4
  <2>3. j <= i \/ j > i
    BY <1>1
  <2> QED BY <2>1, <2>2, <2>3
<1>11. /\ InsertAt(q, i, x) \in Seq(S)
       /\ Len(InsertAt(q, i, x)) = Len(q) + 1
       /\ \A j \in 1 .. Len(q) + 1 :
            InsertAt(q, i, x)[j] = IF j < i THEN q[j] ELSE IF j = i THEN x ELSE q[j - 1]
  BY <1>5, <1>7, <1>9, <1>10 DEF first
<1> HIDE DEF first
<1> QED BY <1>11 DEF IsInserted

(* Taking one item out leaves the others in their order.                   *)
LEMMA RemoveAtProperties ==
  ASSUME NEW S, NEW seq \in Seq(S), NEW i \in 1 .. Len(seq)
  PROVE  /\ RemoveAt(seq, i) \in Seq(S)
         /\ Len(RemoveAt(seq, i)) = Len(seq) - 1
         /\ \A j \in 1 .. Len(seq) - 1 :
              RemoveAt(seq, i)[j] = IF j < i THEN seq[j] ELSE seq[j + 1]
<1> DEFINE front == SubSeq(seq, 1, i - 1)
           back  == SubSeq(seq, i + 1, Len(seq))
<1>1. Len(seq) \in Nat /\ \A j \in 1 .. Len(seq) : seq[j] \in S
  BY ElementOfSeq, LenProperties
<1>2. front \in Seq(S) /\ Len(front) = i - 1 /\ \A j \in 1 .. i - 1 : front[j] = seq[j]
  <2>1. /\ front \in Seq(S)
        /\ Len(front) = IF 1 <= i - 1 THEN i - 1 - 1 + 1 ELSE 0
        /\ \A j \in 1 .. i - 1 - 1 + 1 : front[j] = seq[1 + j - 1]
    BY <1>1, SubSeqProperties
  <2> QED BY <2>1
<1>3. /\ back \in Seq(S)
      /\ Len(back) = Len(seq) - i
      /\ \A j \in 1 .. Len(seq) - i : back[j] = seq[i + j]
  <2>1. /\ back \in Seq(S)
        /\ Len(back) = IF i + 1 <= Len(seq) THEN Len(seq) - (i + 1) + 1 ELSE 0
        /\ \A j \in 1 .. Len(seq) - (i + 1) + 1 : back[j] = seq[i + 1 + j - 1]
    BY <1>1, SubSeqProperties
  <2> QED BY <1>1, <2>1
<1>4. RemoveAt(seq, i) = front \o back
  BY DEF RemoveAt
<1> HIDE DEF front, back
<1>5. /\ front \o back \in Seq(S)
      /\ Len(front \o back) = Len(front) + Len(back)
      /\ \A j \in 1 .. Len(front) + Len(back) :
           (front \o back)[j] = IF j <= Len(front) THEN front[j] ELSE back[j - Len(front)]
  BY <1>2, <1>3, ConcatProperties
<1>6. Len(front \o back) = Len(seq) - 1
  BY <1>1, <1>2, <1>3, <1>5
<1>7. ASSUME NEW j \in 1 .. Len(seq) - 1
      PROVE  (front \o back)[j] = IF j < i THEN seq[j] ELSE seq[j + 1]
  <2>1. (front \o back)[j] = IF j <= i - 1 THEN front[j] ELSE back[j - (i - 1)]
    BY <1>1, <1>2, <1>3, <1>5
  <2>0. i \in Int /\ j \in Int
    OBVIOUS
  <2>2. CASE j < i
    BY <1>2, <2>1, <2>2
  <2>3. CASE j >= i
    <3>1. j - (i - 1) \in 1 .. Len(seq) - i /\ i + (j - (i - 1)) = j + 1
      BY <1>1, <2>3
    <3>2. back[j - (i - 1)] = seq[j + 1]
      BY <1>3, <3>1
    <3> QED BY <2>0, <2>1, <2>3, <3>2
  <2>4. j < i \/ j >= i
    BY <2>0
  <2> QED BY <2>2, <2>3, <2>4, Zenon
<1> QED BY <1>4, <1>5, <1>6, <1>7

-----------------------------------------------------------------------------
(* The cells in the order in which they are linked.                        *)

Node == [data : Data, next : Cell \union {Null}]

(* What the n-th cell of q points to, the root being number 0.             *)
NextIn(q, n) == IF n < Len(q) THEN q[n + 1] ELSE Null

Distinct(q) == \A i, j \in 1 .. Len(q) : q[i] = q[j] => i = j
CellsOf(q) == {q[i] : i \in 1 .. Len(q)}

IsStack(q, nodes, top, n) ==
  /\ q \in Seq(Cell) /\ n = Len(q) /\ Distinct(q)
  /\ nodes \in [CellsOf(q) -> Node]
  /\ top = NextIn(q, 0)
  /\ \A i \in 1 .. Len(q) : nodes[q[i]].next = NextIn(q, i)

(* An existing stack is a sequence of linked cells, which are all that is  *)
(* allocated; without a stack nothing is.                                  *)
StackInv ==
  /\ stack_made => \E q \in Seq(Cell) : IsStack(q, stack_nodes, root, stack_size)
  /\ ~stack_made => stack_nodes \in [{} -> Node]

DataOf(q, nodes) == [n \in 1 .. Len(q) |-> nodes[q[n]].data]

(* Going from cell to cell from the top is going along q: the only walk is *)
(* the one that does.                                                      *)
Follows(q, n, end) == IF n < Len(q) THEN q[n + 1] ELSE end

Walk(nodes, top, len) == CHOOSE w : w = [n \in 0 .. len |-> IF n = 0 THEN top ELSE nodes[w[n - 1]].next]

LEMMA WalkIsAlong ==
  ASSUME NEW q \in Seq(Cell), NEW nodes, NEW top, NEW end, top = Follows(q, 0, end),
         \A i \in 1 .. Len(q) : nodes[q[i]].next = Follows(q, i, end),
         NEW len, len = Len(q)
  PROVE  /\ Walk(nodes, top, len)[len] = end
         /\ \A n \in 1 .. len : Walk(nodes, top, len)[n - 1] = q[n]
<1>0. PICK walk : walk = Walk(nodes, top, len)
  OBVIOUS
<1>1. len = Len(q) /\ len \in Nat
  BY LenProperties
<1> DEFINE w0 == [n \in 0 .. len |-> Follows(q, n, end)]
<1>2. w0 = [n \in 0 .. len |-> IF n = 0 THEN top ELSE nodes[w0[n - 1]].next]
  <2>1. ASSUME NEW n \in 0 .. len
        PROVE  Follows(q, n, end) = IF n = 0 THEN top ELSE nodes[w0[n - 1]].next
    <3>1. CASE n = 0
      BY <3>1
    <3>2. CASE n # 0
      <4>1. n - 1 \in 0 .. len /\ n - 1 < Len(q) /\ n - 1 + 1 = n /\ n \in 1 .. Len(q)
        BY <1>1, <3>2
      <4>2. w0[n - 1] = q[n]
        BY <4>1 DEF Follows
      <4> QED
        BY <3>2, <4>1, <4>2
    <3> QED
      BY <3>1, <3>2
  <2> QED
    BY <2>1
<1>3. walk = [n \in 0 .. len |-> IF n = 0 THEN top ELSE nodes[walk[n - 1]].next]
  <2> HIDE DEF w0
  <2> QED
    BY <1>0, <1>2, Zenon DEF Walk
<1> HIDE DEF w0
<1>4. walk[0] = top /\ \A n \in 1 .. Len(q) : walk[n] = nodes[walk[n - 1]].next
  <2>1. \A n \in 0 .. len : walk[n] = IF n = 0 THEN top ELSE nodes[walk[n - 1]].next
    <3>1. PICK f : f = [n \in 0 .. len |-> IF n = 0 THEN top ELSE nodes[walk[n - 1]].next]
      OBVIOUS
    <3>2. \A n \in 0 .. len : f[n] = IF n = 0 THEN top ELSE nodes[walk[n - 1]].next
      BY <3>1, Zenon
    <3>3. walk = f
      BY <1>3, <3>1, Zenon
    <3> QED
      BY <3>2, <3>3
  <2>2. 0 \in 0 .. len /\ \A n \in 1 .. Len(q) : n \in 0 .. len /\ n # 0
    BY <1>1
  <2> QED
    BY <2>1, <2>2, Zenon
<1> DEFINE Off == {n \in 1 .. Len(q) : walk[n - 1] # q[n]}
<1>5. Off = {}
  <2> SUFFICES ASSUME Off # {} PROVE FALSE
    OBVIOUS
  <2>1. Off \in SUBSET Nat
    BY <1>1
  <2>2. \E x \in Off : \A y \in Off : <<y, x>> \notin OpToRel(<, Nat)
    <3> HIDE DEF Off
    <3> QED
      BY <2>1, NatLessThanWellFounded, WFMin, Zenon
  <2>3. PICK x \in Off : \A y \in Off : ~(y < x)
    <3> HIDE DEF Off
    <3> QED
      BY <2>1, <2>2, Zenon DEF OpToRel
  <2>4. x \in 1 .. Len(q) /\ walk[x - 1] # q[x]
    OBVIOUS
  <2>5. CASE x = 1
    <3>1. x - 1 = 0 /\ 0 < Len(q) /\ 0 + 1 = 1
      BY <1>1, <2>4, <2>5
    <3>2. Follows(q, 0, end) = q[1]
      BY <3>1 DEF Follows
    <3>3. walk[x - 1] = top /\ q[x] = q[1]
      BY <1>4, <2>5, <3>1
    <3> QED
      BY <2>4, <3>2, <3>3
  <2>6. CASE x # 1
    <3>1. x - 1 \in 1 .. Len(q) /\ x - 1 < x /\ x - 1 < Len(q) /\ x - 1 + 1 = x
      BY <1>1, <2>4, <2>6
    <3>2. walk[x - 1 - 1] = q[x - 1]
      BY <2>3, <3>1
    <3>3. walk[x - 1] = nodes[q[x - 1]].next
      BY <1>4, <3>1, <3>2
    <3>4. nodes[q[x - 1]].next = q[x]
      BY <3>1 DEF Follows
    <3> QED
      BY <2>4, <3>3, <3>4
  <2> QED
    BY <2>5, <2>6
<1>6. walk[len] = end
  <2>1. CASE len = 0
    BY <1>1, <1>4, <2>1 DEF Follows
  <2>2. CASE len # 0
    <3>1. len \in 1 .. Len(q) /\ Follows(q, len, end) = end
      BY <1>1, <2>2 DEF Follows
    <3>2. walk[len - 1] = q[len]
      BY <1>5, <3>1
    <3> QED
      BY <1>4, <3>1, <3>2
  <2> QED
    BY <2>1, <2>2
<1> QED
  BY <1>0, <1>1, <1>5, <1>6

(* So the cells that the functions reach are those of q, and the items     *)
(* those in them.                                                          *)
LEMMA DownAlong ==
  ASSUME NEW q \in Seq(Cell), IsStack(q, stack_nodes, root, stack_size)
  PROVE  \A n \in 1 .. stack_size : Down[n - 1] = q[n]
<1>1. stack_size = Len(q) /\ root = NextIn(q, 0)
      /\ \A i \in 1 .. Len(q) : stack_nodes[q[i]].next = NextIn(q, i)
  BY DEF IsStack
<1>3. \A i \in 0 .. Len(q) : NextIn(q, i) = Follows(q, i, Null)
  BY DEF NextIn, Follows
<1>4. Len(q) \in Nat /\ 0 \in 0 .. Len(q) /\ \A i \in 1 .. Len(q) : i \in 0 .. Len(q)
  BY LenProperties
<1>5. PICK end : end = Null
  OBVIOUS
<1>7. PICK len : len = stack_size
  OBVIOUS
<1>2. PICK nodes, top : nodes = stack_nodes /\ top = root
  OBVIOUS
<1>6. top = Follows(q, 0, end) /\ len = Len(q)
      /\ \A i \in 1 .. Len(q) : nodes[q[i]].next = Follows(q, i, end)
  BY <1>1, <1>2, <1>3, <1>4, <1>5, <1>7
<1>9. \A n \in 1 .. len : Walk(nodes, top, len)[n - 1] = q[n]
  BY <1>6, WalkIsAlong
<1>10. Down = Walk(nodes, top, len)
  BY <1>2, <1>7, Zenon DEF Down, Walk
<1> QED
  BY <1>7, <1>9, <1>10

LEMMA DownAlongThen ==
  ASSUME NEW q \in Seq(Cell), IsStack(q, stack_nodes', root', stack_size')
  PROVE  \A n \in 1 .. stack_size' : Down'[n - 1] = q[n]
<1>1. stack_size' = Len(q) /\ root' = NextIn(q, 0)
      /\ \A i \in 1 .. Len(q) : stack_nodes'[q[i]].next = NextIn(q, i)
  BY DEF IsStack
<1>3. \A i \in 0 .. Len(q) : NextIn(q, i) = Follows(q, i, Null)
  BY DEF NextIn, Follows
<1>4. Len(q) \in Nat /\ 0 \in 0 .. Len(q) /\ \A i \in 1 .. Len(q) : i \in 0 .. Len(q)
  BY LenProperties
<1>5. PICK end : end = Null
  OBVIOUS
<1>7. PICK len : len = stack_size'
  OBVIOUS
<1>2. PICK nodes, top : nodes = stack_nodes' /\ top = root'
  OBVIOUS
<1>6. top = Follows(q, 0, end) /\ len = Len(q)
      /\ \A i \in 1 .. Len(q) : nodes[q[i]].next = Follows(q, i, end)
  BY <1>1, <1>2, <1>3, <1>4, <1>5, <1>7
<1>9. \A n \in 1 .. len : Walk(nodes, top, len)[n - 1] = q[n]
  BY <1>6, WalkIsAlong
<1>10. Down' = Walk(nodes, top, len)
  BY <1>2, <1>7, Zenon DEF Down, Walk
<1> QED
  BY <1>7, <1>9, <1>10

LEMMA ItemsAlong ==
  ASSUME stack_made, NEW q \in Seq(Cell), IsStack(q, stack_nodes, root, stack_size)
  PROVE  StackItems = DataOf(q, stack_nodes)
  BY DownAlong DEF IsStack, StackItems, DataOf

LEMMA ItemsAlongThen ==
  ASSUME stack_made', NEW q \in Seq(Cell), IsStack(q, stack_nodes', root', stack_size')
  PROVE  StackItems' = DataOf(q, stack_nodes')
<1>1. \A n \in 1 .. stack_size' : Down'[n - 1] = q[n]
  BY DownAlongThen
<1> QED
  BY <1>1 DEF IsStack, StackItems, DataOf

LEMMA ItemsAreData ==
  ASSUME NEW q, NEW nodes, NEW top, NEW n, IsStack(q, nodes, top, n)
  PROVE  /\ Len(q) \in Nat /\ \A i \in 1 .. Len(q) : q[i] \in Cell /\ nodes[q[i]] \in Node
         /\ DataOf(q, nodes) \in Seq(Data) /\ Len(DataOf(q, nodes)) = Len(q)
         /\ \A i \in 1 .. Len(q) : DataOf(q, nodes)[i] = nodes[q[i]].data
<1>1. Len(q) \in Nat /\ \A i \in 1 .. Len(q) : q[i] \in Cell
  BY LenProperties, ElementOfSeq DEF IsStack
<1>2. \A i \in 1 .. Len(q) : nodes[q[i]] \in Node
  BY DEF IsStack, CellsOf
<1>3. \A i \in 1 .. Len(q) : nodes[q[i]].data \in Data
  BY <1>2 DEF Node
<1>4. DataOf(q, nodes) \in [1 .. Len(q) -> Data]
  BY <1>3 DEF DataOf
<1>5. DataOf(q, nodes) \in Seq(Data) /\ Len(DataOf(q, nodes)) = Len(q)
  BY <1>1, <1>4
<1> QED
  BY <1>1, <1>2, <1>5 DEF DataOf

-----------------------------------------------------------------------------
(* A cell more on top, and a cell less anywhere                            *)

LEMMA PutInFront ==
  ASSUME NEW S, NEW q \in Seq(S), NEW x \in S
  PROVE  /\ InsertAt(q, 1, x) \in Seq(S) /\ Len(InsertAt(q, 1, x)) = Len(q) + 1
         /\ InsertAt(q, 1, x)[1] = x
         /\ \A i \in 1 .. Len(q) : InsertAt(q, 1, x)[i + 1] = q[i]
<1>1. PICK k \in 1 .. Len(q) + 1 : k = 1
  BY LenProperties
<1>2. /\ InsertAt(q, k, x) \in Seq(S)
      /\ Len(InsertAt(q, k, x)) = Len(q) + 1
      /\ \A j \in 1 .. Len(q) + 1 :
           InsertAt(q, k, x)[j] = IF j < k THEN q[j] ELSE IF j = k THEN x ELSE q[j - 1]
  <2>1. IsInserted(S, InsertAt(q, k, x), q, k, x)
    BY InsertAtProperties, Zenon
  <2> QED
    BY <2>1 DEF IsInserted
<1>3. ASSUME NEW i \in 1 .. Len(q) PROVE InsertAt(q, k, x)[i + 1] = q[i]
  <2>1. i + 1 \in 1 .. Len(q) + 1 /\ ~(i + 1 < k) /\ i + 1 # k /\ i + 1 - 1 = i
    BY <1>1, LenProperties
  <2> QED
    BY <1>2, <2>1
<1>4. InsertAt(q, k, x)[k] = x
  BY <1>1, <1>2
<1> QED
  BY <1>1, <1>2, <1>3, <1>4

LEMMA CellPushed ==
  ASSUME NEW q, IsStack(q, stack_nodes, root, stack_size), NEW new \in Cell, new \notin DOMAIN stack_nodes,
         NEW d \in Data, NEW nodes,
         nodes = [c \in DOMAIN stack_nodes \union {new} |->
                    IF c = new THEN [data |-> d, next |-> root] ELSE stack_nodes[c]]
  PROVE  /\ IsStack(InsertAt(q, 1, new), nodes, new, stack_size + 1)
         /\ DataOf(InsertAt(q, 1, new), nodes) = InsertAt(DataOf(q, stack_nodes), 1, d)
<1> DEFINE q1 == InsertAt(q, 1, new)
<1>1. /\ q \in Seq(Cell) /\ Len(q) \in Nat /\ stack_size = Len(q) /\ Distinct(q)
      /\ stack_nodes \in [CellsOf(q) -> Node] /\ root = NextIn(q, 0)
      /\ \A i \in 1 .. Len(q) : stack_nodes[q[i]].next = NextIn(q, i)
  BY LenProperties DEF IsStack
<1>2. /\ q1 \in Seq(Cell) /\ Len(q1) = Len(q) + 1 /\ q1[1] = new
      /\ \A i \in 1 .. Len(q) : q1[i + 1] = q[i]
  <2>1. PICK p \in Seq(Cell) : p = q
    BY <1>1
  <2>2. /\ InsertAt(p, 1, new) \in Seq(Cell) /\ Len(InsertAt(p, 1, new)) = Len(p) + 1
        /\ InsertAt(p, 1, new)[1] = new
        /\ \A i \in 1 .. Len(p) : InsertAt(p, 1, new)[i + 1] = p[i]
    BY PutInFront
  <2> QED
    BY <2>1, <2>2
<1> HIDE DEF q1
<1>3. \A j \in 1 .. Len(q1) : j = 1 \/ \E i \in 1 .. Len(q) : j = i + 1
  <2>1. ASSUME NEW j \in 1 .. Len(q1), j # 1 PROVE j - 1 \in 1 .. Len(q) /\ j = j - 1 + 1
    BY <1>1, <1>2, <2>1
  <2> QED
    BY <2>1
<1>4. DOMAIN stack_nodes = CellsOf(q) /\ \A i \in 1 .. Len(q) : q[i] \in DOMAIN stack_nodes /\ q[i] # new
  BY <1>1 DEF CellsOf
<1>5. Distinct(q1)
  <2> SUFFICES ASSUME NEW i \in 1 .. Len(q1), NEW j \in 1 .. Len(q1), q1[i] = q1[j] PROVE i = j
    BY DEF Distinct
  <2>1. CASE i = 1
    BY <1>2, <1>3, <1>4, <2>1
  <2>2. CASE j = 1
    BY <1>2, <1>3, <1>4, <2>2
  <2>3. CASE i # 1 /\ j # 1
    <3>1. PICK k \in 1 .. Len(q), l \in 1 .. Len(q) : i = k + 1 /\ j = l + 1
      BY <1>3, <2>3
    <3>2. q[k] = q[l]
      BY <1>2, <3>1
    <3> QED
      BY <1>1, <3>1, <3>2 DEF Distinct
  <2> QED
    BY <2>1, <2>2, <2>3
<1>6. CellsOf(q1) = DOMAIN stack_nodes \union {new}
  <2>1. ASSUME NEW j \in 1 .. Len(q1) PROVE q1[j] \in DOMAIN stack_nodes \union {new}
    <3>1. CASE j = 1
      BY <1>2, <3>1
    <3>2. ASSUME NEW i \in 1 .. Len(q), j = i + 1 PROVE q1[j] \in DOMAIN stack_nodes \union {new}
      BY <1>2, <1>4, <3>2
    <3> QED
      BY <1>3, <3>1, <3>2
  <2>2. new \in CellsOf(q1)
    <3>1. 1 \in 1 .. Len(q1)
      BY <1>1, <1>2
    <3> QED
      BY <1>2, <3>1 DEF CellsOf
  <2>3. ASSUME NEW i \in 1 .. Len(q) PROVE q[i] \in CellsOf(q1)
    <3>1. i + 1 \in 1 .. Len(q1) /\ q1[i + 1] = q[i]
      BY <1>1, <1>2
    <3> QED
      BY <3>1 DEF CellsOf
  <2> QED
    BY <1>4, <2>1, <2>2, <2>3 DEF CellsOf
<1>7. nodes \in [CellsOf(q1) -> Node]
  <2>1. root \in Cell \union {Null}
    <3>1. CASE Len(q) = 0
      BY <1>1, <3>1 DEF NextIn
    <3>2. CASE Len(q) # 0
      <4>1. 1 \in 1 .. Len(q) /\ root = q[1]
        BY <1>1, <3>2 DEF NextIn
      <4> QED
        BY <1>1, <4>1, ElementOfSeq
    <3> QED
      BY <3>1, <3>2
  <2>2. \A c \in DOMAIN stack_nodes : stack_nodes[c] \in Node
    BY <1>1, <1>4
  <2> QED
    BY <1>6, <2>1, <2>2 DEF Node
<1>8. /\ nodes[new] = [data |-> d, next |-> root]
      /\ \A i \in 1 .. Len(q) : nodes[q[i]] = stack_nodes[q[i]]
  BY <1>4
<1>9. ASSUME NEW j \in 1 .. Len(q1) PROVE nodes[q1[j]].next = NextIn(q1, j)
  <2>1. CASE j = 1
    <3>1. nodes[q1[j]].next = NextIn(q, 0)
      BY <1>1, <1>2, <1>8, <2>1
    <3>2. NextIn(q1, 1) = NextIn(q, 0)
      <4>1. CASE Len(q) = 0
        BY <1>2, <4>1 DEF NextIn
      <4>2. CASE Len(q) # 0
        <5>1. 1 \in 1 .. Len(q) /\ 1 < Len(q1) /\ 0 < Len(q)
          BY <1>1, <1>2, <4>2
        <5> QED
          BY <1>2, <5>1 DEF NextIn
      <4> QED
        BY <4>1, <4>2
    <3> QED
      BY <2>1, <3>1, <3>2
  <2>2. ASSUME NEW i \in 1 .. Len(q), j = i + 1 PROVE nodes[q1[j]].next = NextIn(q1, j)
    <3>1. nodes[q1[j]].next = NextIn(q, i)
      <4>1. q1[j] = q[i]
        BY <1>2, <2>2
      <4>2. nodes[q[i]].next = stack_nodes[q[i]].next
        BY <1>8, <2>2
      <4>3. stack_nodes[q[i]].next = NextIn(q, i)
        BY <1>1, <2>2
      <4> QED
        BY <4>1, <4>2, <4>3
    <3>2. NextIn(q1, i + 1) = NextIn(q, i)
      <4>1. CASE i < Len(q)
        <5>1. i + 1 \in 1 .. Len(q) /\ i + 1 < Len(q1)
          BY <1>1, <1>2, <4>1
        <5> QED
          BY <1>2, <4>1, <5>1 DEF NextIn
      <4>2. CASE ~(i < Len(q))
        <5>1. ~(i + 1 < Len(q1))
          BY <1>1, <1>2, <4>2
        <5> QED
          BY <4>2, <5>1 DEF NextIn
      <4> QED
        BY <4>1, <4>2
    <3> QED
      BY <2>2, <3>1, <3>2
  <2> QED
    BY <1>3, <2>1, <2>2
<1>10. IsStack(q1, nodes, new, stack_size + 1)
  <2>1. NextIn(q1, 0) = new
    BY <1>1, <1>2 DEF NextIn
  <2> QED
    BY <1>1, <1>2, <1>5, <1>7, <1>9, <2>1 DEF IsStack
<1>11. DataOf(q1, nodes) = InsertAt(DataOf(q, stack_nodes), 1, d)
  <2> DEFINE s == DataOf(q, stack_nodes)  s1 == DataOf(q1, nodes)  t == InsertAt(s, 1, d)
  <2>1. /\ s \in Seq(Data) /\ Len(s) = Len(q)
        /\ \A i \in 1 .. Len(q) : s[i] = stack_nodes[q[i]].data
    BY ItemsAreData
  <2>2. /\ s1 \in Seq(Data) /\ Len(s1) = Len(q1)
        /\ \A i \in 1 .. Len(q1) : s1[i] = nodes[q1[i]].data
    BY <1>10, ItemsAreData
  <2> HIDE DEF s, s1
  <2>3. /\ t \in Seq(Data) /\ Len(t) = Len(q) + 1
        /\ \A j \in 1 .. Len(q) + 1 :
             t[j] = IF j < 1 THEN s[j] ELSE IF j = 1 THEN d ELSE s[j - 1]
    <3>1. 1 \in 1 .. Len(s) + 1
      BY <1>1, <2>1
    <3>2. IsInserted(Data, InsertAt(s, 1, d), s, 1, d)
      BY <2>1, <3>1, InsertAtProperties, Zenon
    <3> QED
      BY <2>1, <3>2 DEF IsInserted
  <2> HIDE DEF t
  <2>4. ASSUME NEW j \in 1 .. Len(q1) PROVE s1[j] = t[j]
    <3>1. CASE j = 1
      <4>1. 1 \in 1 .. Len(q) + 1 /\ ~(1 < 1)
        BY <1>1
      <4>2. t[1] = d
        BY <2>3, <4>1
      <4>3. nodes[q1[1]] = [data |-> d, next |-> root]
        BY <1>2, <1>8
      <4>4. s1[1] = d
        <5>1. s1[j] = nodes[q1[j]].data
          BY <2>2
        <5>2. s1[1] = nodes[q1[1]].data
          BY <3>1, <5>1
        <5> QED
          BY <4>3, <5>2
      <4> QED
        BY <3>1, <4>2, <4>4
    <3>2. ASSUME NEW i \in 1 .. Len(q), j = i + 1 PROVE s1[j] = t[j]
      <4>1. j \in 1 .. Len(q) + 1 /\ ~(j < 1) /\ j # 1 /\ j - 1 = i
        BY <1>1, <3>2
      <4>2. s1[j] = stack_nodes[q[i]].data
        <5>1. q1[j] = q[i] /\ nodes[q[i]] = stack_nodes[q[i]]
          BY <1>2, <1>8, <3>2
        <5>2. s1[j] = nodes[q1[j]].data
          BY <2>2
        <5> QED
          BY <5>1, <5>2
      <4>3. t[j] = s[i]
        BY <2>3, <4>1
      <4> QED
        BY <2>1, <4>2, <4>3
    <3> QED
      BY <1>3, <3>1, <3>2
  <2>5. Len(s1) = Len(t)
    BY <1>2, <2>2, <2>3
  <2>6. s1 = t
    BY <2>2, <2>3, <2>4, <2>5, SeqEqual
  <2> QED
    BY <2>6 DEF s, s1, t
<1> QED
  BY <1>10, <1>11 DEF q1

LEMMA CellTaken ==
  ASSUME NEW q, IsStack(q, stack_nodes, root, stack_size), NEW n \in 1 .. Len(q),
         NEW nodes, NEW top,
         DOMAIN nodes = CellsOf(q) \ {q[n]},
         nodes = [c \in DOMAIN nodes |-> nodes[c]],
         \A i \in 1 .. Len(q) : i # n =>
           nodes[q[i]] = IF i = n - 1 THEN [stack_nodes[q[i]] EXCEPT !.next = NextIn(q, n)]
                                      ELSE stack_nodes[q[i]],
         top = IF n = 1 THEN NextIn(q, 1) ELSE root
  PROVE  /\ IsStack(RemoveAt(q, n), nodes, top, stack_size - 1)
         /\ DataOf(RemoveAt(q, n), nodes) = RemoveAt(DataOf(q, stack_nodes), n)
<1> DEFINE q1 == RemoveAt(q, n)
           From(j) == IF j < n THEN j ELSE j + 1
<1>1. /\ q \in Seq(Cell) /\ Len(q) \in Nat /\ stack_size = Len(q) /\ Distinct(q)
      /\ stack_nodes \in [CellsOf(q) -> Node] /\ root = NextIn(q, 0)
      /\ \A i \in 1 .. Len(q) : stack_nodes[q[i]].next = NextIn(q, i)
  BY LenProperties DEF IsStack
<1>2. /\ q1 \in Seq(Cell)
      /\ Len(q1) = Len(q) - 1
      /\ \A j \in 1 .. Len(q) - 1 : q1[j] = IF j < n THEN q[j] ELSE q[j + 1]
  <2>1. PICK p \in Seq(Cell) : p = q
    BY <1>1
  <2>2. PICK k \in 1 .. Len(p) : k = n
    BY <2>1
  <2>3. /\ RemoveAt(p, k) \in Seq(Cell)
        /\ Len(RemoveAt(p, k)) = Len(p) - 1
        /\ \A j \in 1 .. Len(p) - 1 :
             RemoveAt(p, k)[j] = IF j < k THEN p[j] ELSE p[j + 1]
    BY RemoveAtProperties
  <2> QED
    BY <2>1, <2>2, <2>3
<1> HIDE DEF q1
<1>3. ASSUME NEW j \in 1 .. Len(q1)
      PROVE  From(j) \in 1 .. Len(q) /\ From(j) # n /\ q1[j] = q[From(j)]
  BY <1>1, <1>2
<1>4. ASSUME NEW i \in 1 .. Len(q), i # n PROVE \E j \in 1 .. Len(q1) : i = From(j)
  <2>1. CASE i < n
    BY <1>1, <1>2, <2>1
  <2>2. CASE i > n
    <3>1. i - 1 \in 1 .. Len(q1) /\ From(i - 1) = i
      BY <1>1, <1>2, <2>2
    <3> HIDE DEF From
    <3> QED
      BY <3>1
  <2> QED
    BY <1>4, <2>1, <2>2
<1>5. Distinct(q1)
  <2> SUFFICES ASSUME NEW i \in 1 .. Len(q1), NEW j \in 1 .. Len(q1), q1[i] = q1[j] PROVE i = j
    BY DEF Distinct
  <2>1. From(i) = From(j)
    <3> HIDE DEF From
    <3> QED
      BY <1>1, <1>3 DEF Distinct
  <2> QED
    BY <2>1, <1>2
<1>6. CellsOf(q1) = DOMAIN nodes
  <2> HIDE DEF From
  <2>1. ASSUME NEW j \in 1 .. Len(q1) PROVE q1[j] \in CellsOf(q) \ {q[n]}
    <3>1. From(j) \in 1 .. Len(q) /\ From(j) # n /\ q1[j] = q[From(j)]
      BY <1>3
    <3>2. q[From(j)] # q[n]
      BY <1>1, <3>1 DEF Distinct
    <3> QED
      BY <3>1, <3>2 DEF CellsOf
  <2>2. ASSUME NEW i \in 1 .. Len(q), q[i] # q[n] PROVE q[i] \in CellsOf(q1)
    <3>1. PICK j \in 1 .. Len(q1) : i = From(j)
      BY <1>4, <2>2
    <3>2. q[i] = q1[j]
      BY <1>3, <3>1
    <3> QED
      BY <3>2 DEF CellsOf
  <2> QED
    BY <2>1, <2>2 DEF CellsOf
<1>7. ASSUME NEW i \in 1 .. Len(q), i # n
      PROVE  /\ nodes[q[i]] \in Node /\ nodes[q[i]].data = stack_nodes[q[i]].data
             /\ nodes[q[i]].next = IF i = n - 1 THEN NextIn(q, n) ELSE NextIn(q, i)
  <2>1. stack_nodes[q[i]] \in Node /\ stack_nodes[q[i]].next = NextIn(q, i)
    BY <1>1 DEF CellsOf
  <2>2. NextIn(q, n) \in Cell \union {Null}
    <3>1. CASE n < Len(q)
      <4>1. n + 1 \in 1 .. Len(q)
        BY <1>1, <3>1
      <4>2. q[n + 1] \in Cell
        BY <1>1, <4>1, ElementOfSeq
      <4> QED
        BY <3>1, <4>2 DEF NextIn
    <3>2. CASE ~(n < Len(q))
      BY <3>2 DEF NextIn
    <3> QED
      BY <3>1, <3>2
  <2>3. CASE i = n - 1
    <3>1. nodes[q[i]] = [stack_nodes[q[i]] EXCEPT !.next = NextIn(q, n)]
      BY <1>7, <2>3
    <3> QED
      BY <2>1, <2>2, <2>3, <3>1 DEF Node
  <2>4. CASE i # n - 1
    <3>1. nodes[q[i]] = stack_nodes[q[i]]
      BY <1>7, <2>4
    <3> QED
      BY <2>1, <2>4, <3>1 DEF Node
  <2> QED
    BY <2>3, <2>4
<1>8. nodes \in [CellsOf(q1) -> Node]
  <2> HIDE DEF From
  <2>1. \A j \in 1 .. Len(q1) : nodes[q1[j]] \in Node
    BY <1>3, <1>7
  <2>2. \A c \in CellsOf(q1) : nodes[c] \in Node
    BY <2>1 DEF CellsOf
  <2> QED
    BY <1>6, <2>2
<1>9. ASSUME NEW j \in 1 .. Len(q1) PROVE nodes[q1[j]].next = NextIn(q1, j)
  <2>1. From(j) \in 1 .. Len(q) /\ From(j) # n /\ q1[j] = q[From(j)]
    BY <1>3
  <2>2. nodes[q1[j]].next = IF From(j) = n - 1 THEN NextIn(q, n) ELSE NextIn(q, From(j))
    <3> HIDE DEF From
    <3> QED
      BY <1>7, <2>1
  <2>3. CASE j + 1 < n
    <3>1. From(j) = j /\ j # n - 1 /\ j + 1 \in 1 .. Len(q) - 1 /\ j < Len(q) /\ j < Len(q1)
      BY <1>1, <1>2, <2>3
    <3>2. q1[j + 1] = q[j + 1]
      BY <1>2, <2>3, <3>1
    <3> HIDE DEF From
    <3> QED
      BY <2>2, <3>1, <3>2 DEF NextIn
  <2>4. CASE j + 1 = n
    <3>1. From(j) = n - 1 /\ (j < Len(q1) <=> n < Len(q))
      BY <1>1, <1>2, <2>4
    <3>2. j < Len(q1) => q1[j + 1] = q[n + 1]
      <4>1. j < Len(q1) => j + 1 \in 1 .. Len(q) - 1 /\ ~(j + 1 < n) /\ j + 1 + 1 = n + 1
        BY <1>1, <1>2, <2>4
      <4> QED
        BY <1>2, <4>1
    <3> HIDE DEF From
    <3> QED
      BY <2>2, <3>1, <3>2 DEF NextIn
  <2>5. CASE j + 1 > n
    <3>1. From(j) = j + 1 /\ j + 1 # n - 1 /\ (j < Len(q1) <=> j + 1 < Len(q))
      BY <1>1, <1>2, <2>5
    <3>2. j < Len(q1) => q1[j + 1] = q[j + 1 + 1]
      <4>1. j < Len(q1) => j + 1 \in 1 .. Len(q) - 1 /\ ~(j + 1 < n)
        BY <1>1, <1>2, <2>5
      <4> QED
        BY <1>2, <4>1
    <3> HIDE DEF From
    <3> QED
      BY <2>2, <3>1, <3>2 DEF NextIn
  <2>6. j + 1 < n \/ j + 1 = n \/ j + 1 > n
    OBVIOUS
  <2> QED
    BY <2>3, <2>4, <2>5, <2>6
<1>10. top = NextIn(q1, 0)
  <2>1. CASE n = 1
    <3>1. 0 < Len(q1) <=> 1 < Len(q)
      BY <1>1, <1>2
    <3>2. 0 < Len(q1) => q1[1] = q[2]
      <4>1. 0 < Len(q1) => 1 \in 1 .. Len(q) - 1 /\ ~(1 < n)
        BY <1>1, <1>2, <2>1
      <4> QED
        BY <1>2, <4>1
    <3> QED
      BY <2>1, <3>1, <3>2 DEF NextIn
  <2>2. CASE n # 1
    <3>1. 1 \in 1 .. Len(q) - 1 /\ 1 < n /\ 0 < Len(q1) /\ 0 < Len(q)
      BY <1>1, <1>2, <2>2
    <3>2. q1[1] = q[1]
      BY <1>2, <3>1
    <3> QED
      BY <1>1, <2>2, <3>1, <3>2 DEF NextIn
  <2> QED
    BY <2>1, <2>2
<1>11. IsStack(q1, nodes, top, stack_size - 1)
  BY <1>1, <1>2, <1>5, <1>8, <1>9, <1>10 DEF IsStack
<1>12. DataOf(q1, nodes) = RemoveAt(DataOf(q, stack_nodes), n)
  <2> DEFINE s == DataOf(q, stack_nodes)  s1 == DataOf(q1, nodes)  t == RemoveAt(s, n)
  <2>1. /\ s \in Seq(Data) /\ Len(s) = Len(q)
        /\ \A i \in 1 .. Len(q) : s[i] = stack_nodes[q[i]].data
    BY ItemsAreData
  <2>2. /\ s1 \in Seq(Data) /\ Len(s1) = Len(q1)
        /\ \A i \in 1 .. Len(q1) : s1[i] = nodes[q1[i]].data
    BY <1>11, ItemsAreData
  <2> HIDE DEF s, s1
  <2>3. /\ t \in Seq(Data)
        /\ Len(t) = Len(q) - 1
        /\ \A j \in 1 .. Len(q) - 1 : t[j] = IF j < n THEN s[j] ELSE s[j + 1]
    <3>1. PICK p \in Seq(Data) : p = s
      BY <2>1
    <3>2. PICK k \in 1 .. Len(p) : k = n
      BY <2>1, <3>1
    <3>3. /\ RemoveAt(p, k) \in Seq(Data)
          /\ Len(RemoveAt(p, k)) = Len(p) - 1
          /\ \A j \in 1 .. Len(p) - 1 :
               RemoveAt(p, k)[j] = IF j < k THEN p[j] ELSE p[j + 1]
      BY RemoveAtProperties
    <3> QED
      BY <2>1, <3>1, <3>2, <3>3
  <2> HIDE DEF t
  <2>4. ASSUME NEW j \in 1 .. Len(q1) PROVE s1[j] = t[j]
    <3>1. From(j) \in 1 .. Len(q) /\ From(j) # n /\ q1[j] = q[From(j)]
      BY <1>3
    <3>2. t[j] = s[From(j)]
      BY <1>2, <2>3
    <3> HIDE DEF From
    <3>3. nodes[q[From(j)]].data = stack_nodes[q[From(j)]].data
      BY <1>7, <3>1
    <3> QED
      BY <2>1, <2>2, <3>1, <3>2, <3>3
  <2>5. Len(s1) = Len(t)
    BY <1>2, <2>2, <2>3
  <2>6. s1 = t
    BY <2>2, <2>3, <2>4, <2>5, SeqEqual
  <2> QED
    BY <2>6 DEF s, s1, t
<1> QED
  BY <1>11, <1>12 DEF q1

-----------------------------------------------------------------------------
(* Each function, on the cells and on the items                            *)

Step == StackInv' /\ PromisedStack!Next

(* The same as one fact.                                                   *)
Pushed(q, new, d, nodes) ==
  /\ IsStack(InsertAt(q, 1, new), nodes, new, stack_size + 1)
  /\ DataOf(InsertAt(q, 1, new), nodes) = InsertAt(DataOf(q, stack_nodes), 1, d)

Extended(nodes, new, d) ==
  nodes = [c \in DOMAIN stack_nodes \union {new} |->
             IF c = new THEN [data |-> d, next |-> root] ELSE stack_nodes[c]]

LEMMA CellIsPushed ==
  ASSUME NEW q, IsStack(q, stack_nodes, root, stack_size), NEW new \in Cell, new \notin DOMAIN stack_nodes,
         NEW d \in Data, NEW nodes, Extended(nodes, new, d)
  PROVE  Pushed(q, new, d, nodes)
BY CellPushed DEF Extended, Pushed

LEMMA SameOperators ==
  /\ \A s, i, x : PromisedStack!InsertAt(s, i, x) = InsertAt(s, i, x)
  /\ \A s, i : PromisedStack!RemoveAt(s, i) = RemoveAt(s, i)
  BY DEF PromisedStack!InsertAt, PromisedStack!RemoveAt, InsertAt, RemoveAt

LEMMA NewIsUnused ==
  ASSUME NEW nodes, Unused(nodes) # {}
  PROVE  New(nodes) \in Cell /\ New(nodes) \notin DOMAIN nodes
<1>1. New(nodes) \in Unused(nodes)
  BY DEF New
<1> QED
  BY <1>1 DEF Unused

LEMMA PushInserts ==
  ASSUME StackInv, NEW d \in Data, push(d)
  PROVE  StackInv' /\ PromisedStack!Insert(1, d) /\ 1 \in 1 .. Len(StackItems) + 1
<1>1. PICK q \in Seq(Cell) : IsStack(q, stack_nodes, root, stack_size)
  BY DEF StackInv, push
<1>2. PICK new : new = New(stack_nodes)
  OBVIOUS
<1>3. /\ new \in Cell /\ new \notin DOMAIN stack_nodes
      /\ Extended(stack_nodes', new, d)
      /\ root' = new
  BY <1>2, NewIsUnused DEF push, With, Extended
<1>4. stack_made /\ stack_made' /\ stack_size' = stack_size + 1 /\ stack_said' = Said("insert", 1, d)
  BY DEF push
<1> DEFINE q1 == InsertAt(q, 1, new)
<1>5. IsStack(q1, stack_nodes', root', stack_size') /\ DataOf(q1, stack_nodes') = InsertAt(DataOf(q, stack_nodes), 1, d)
  <2>1. PICK nodes : nodes = stack_nodes'
    OBVIOUS
  <2>2. Extended(nodes, new, d)
    BY <1>3, <2>1
  <2>3. Pushed(q, new, d, nodes)
    BY <1>1, <1>3, <2>2, CellIsPushed, Zenon
  <2> QED
    BY <1>3, <1>4, <2>1, <2>3 DEF Pushed
<1>6. q1 \in Seq(Cell)
  BY <1>5 DEF IsStack
<1> HIDE DEF q1
<1>7. StackItems = DataOf(q, stack_nodes) /\ StackItems' = DataOf(q1, stack_nodes')
  BY <1>1, <1>4, <1>5, <1>6, ItemsAlong, ItemsAlongThen
<1>8. StackInv'
  BY <1>4, <1>5, <1>6 DEF StackInv
<1>9. Len(StackItems) \in Nat
  BY <1>1, <1>7, ItemsAreData
<1> QED
  BY <1>4, <1>5, <1>7, <1>8, <1>9, SameOperators DEF PromisedStack!Insert, PromisedStack!Said, Said

(* pop and pop_nth: the cell goes that the one before it points to.        *)
LEMMA TakenFromAnywhere ==
  ASSUME stack_made, stack_made', NEW q \in Seq(Cell), IsStack(q, stack_nodes, root, stack_size),
         NEW n \in 1 .. Len(q), stack_size' = stack_size - 1,
         root' = IF n = 1 THEN NextIn(q, 1) ELSE root,
         DOMAIN stack_nodes' = CellsOf(q) \ {q[n]}, stack_nodes' = [c \in DOMAIN stack_nodes' |-> stack_nodes'[c]],
         \A i \in 1 .. Len(q) : i # n =>
           stack_nodes'[q[i]] = IF i = n - 1 THEN [stack_nodes[q[i]] EXCEPT !.next = NextIn(q, n)]
                                      ELSE stack_nodes[q[i]],
         stack_said' = Said("remove", n, stack_nodes[q[n]].data)
  PROVE  StackInv' /\ PromisedStack!Take(n) /\ n \in DOMAIN StackItems
<1> DEFINE q1 == RemoveAt(q, n)
<1>1. IsStack(q1, stack_nodes', root', stack_size') /\ DataOf(q1, stack_nodes') = RemoveAt(DataOf(q, stack_nodes), n)
  BY CellTaken
<1>2. q1 \in Seq(Cell)
  BY <1>1 DEF IsStack
<1> HIDE DEF q1
<1>3. StackItems = DataOf(q, stack_nodes) /\ StackItems' = DataOf(q1, stack_nodes')
  BY <1>1, <1>2, ItemsAlong, ItemsAlongThen
<1>4. StackInv'
  BY <1>1, <1>2 DEF StackInv
<1>5. n \in DOMAIN StackItems /\ StackItems[n] = stack_nodes[q[n]].data
  BY <1>3, ItemsAreData DEF DataOf
<1> QED
  BY <1>1, <1>3, <1>4, <1>5, SameOperators DEF PromisedStack!Take, PromisedStack!Said, Said

LEMMA PopTakes ==
  ASSUME StackInv, pop
  PROVE  StackInv' /\ PromisedStack!Take(1) /\ 1 \in DOMAIN StackItems
<1>1. PICK q \in Seq(Cell) : IsStack(q, stack_nodes, root, stack_size)
  BY DEF StackInv, pop
<1>2. /\ stack_made /\ stack_made' /\ stack_size # 0 /\ stack_size' = stack_size - 1 /\ root' = stack_nodes[root].next
      /\ stack_nodes' = [c \in DOMAIN stack_nodes \ {root} |-> stack_nodes[c]]
      /\ stack_said' = Said("remove", 1, stack_nodes[root].data)
  BY DEF pop, Without
<1>3. Len(q) \in Nat /\ stack_size = Len(q) /\ DOMAIN stack_nodes = CellsOf(q) /\ Distinct(q)
  BY <1>1, LenProperties DEF IsStack
<1>4. 1 \in 1 .. Len(q) /\ root = q[1] /\ stack_nodes[q[1]].next = NextIn(q, 1)
  BY <1>1, <1>2, <1>3 DEF IsStack, NextIn
<1>5. DOMAIN stack_nodes' = CellsOf(q) \ {q[1]} /\ stack_nodes' = [c \in DOMAIN stack_nodes' |-> stack_nodes'[c]]
  BY <1>2, <1>3, <1>4
<1>6. ASSUME NEW i \in 1 .. Len(q), i # 1 PROVE stack_nodes'[q[i]] = stack_nodes[q[i]] /\ i # 1 - 1
  <2>1. q[i] \in CellsOf(q) /\ q[i] # q[1]
    BY <1>3, <1>4, <1>6 DEF CellsOf, Distinct
  <2> QED
    BY <1>2, <1>3, <1>4, <2>1
<1>7. PICK n \in 1 .. Len(q) : n = 1
  BY <1>4
<1>8. StackInv' /\ PromisedStack!Take(n) /\ n \in DOMAIN StackItems
  <2>1. /\ root' = IF n = 1 THEN NextIn(q, 1) ELSE root
        /\ stack_said' = Said("remove", n, stack_nodes[q[n]].data)
        /\ DOMAIN stack_nodes' = CellsOf(q) \ {q[n]}
    BY <1>2, <1>4, <1>5, <1>7
  <2>2. \A i \in 1 .. Len(q) : i # n =>
           stack_nodes'[q[i]] = IF i = n - 1 THEN [stack_nodes[q[i]] EXCEPT !.next = NextIn(q, n)]
                                      ELSE stack_nodes[q[i]]
    BY <1>6, <1>7
  <2> QED
    BY <1>1, <1>2, <1>5, <2>1, <2>2, TakenFromAnywhere
<1> QED
  BY <1>7, <1>8

LEMMA PopNthTakes ==
  ASSUME StackInv, NEW n, pop_nth(n)
  PROVE  StackInv' /\ PromisedStack!Take(n) /\ n \in DOMAIN StackItems
<1>1. PICK q \in Seq(Cell) : IsStack(q, stack_nodes, root, stack_size)
  BY DEF StackInv, pop_nth
<1>2. Len(q) \in Nat /\ stack_size = Len(q) /\ DOMAIN stack_nodes = CellsOf(q) /\ Distinct(q)
  BY <1>1, LenProperties DEF IsStack
<1>3. stack_made /\ stack_made' /\ n \in 2 .. stack_size /\ stack_size' = stack_size - 1 /\ root' = root
  BY DEF pop_nth
<1>4. n \in 1 .. Len(q) /\ n - 1 \in 1 .. Len(q) /\ n # 1 /\ n - 1 - 1 = n - 2 /\ n - 1 + 1 = n
      /\ n - 1 < Len(q)
  BY <1>2, <1>3
<1>5. Down[n - 2] = q[n - 1]
  <2>1. \A k \in 1 .. stack_size : Down[k - 1] = q[k]
    BY <1>1, DownAlong
  <2> QED
    BY <1>2, <1>4, <2>1
<1>6. stack_nodes[q[n - 1]].next = q[n] /\ stack_nodes[q[n]].next = NextIn(q, n)
  <2>1. stack_nodes[q[n - 1]].next = NextIn(q, n - 1) /\ stack_nodes[q[n]].next = NextIn(q, n)
    BY <1>1, <1>4 DEF IsStack
  <2> QED
    BY <1>4, <2>1 DEF NextIn
<1>7. /\ stack_nodes' = [Without(stack_nodes, {q[n]}) EXCEPT ![q[n - 1]].next = NextIn(q, n)]
      /\ stack_said' = Said("remove", n, stack_nodes[q[n]].data)
  BY <1>5, <1>6 DEF pop_nth
<1>8. /\ DOMAIN Without(stack_nodes, {q[n]}) = CellsOf(q) \ {q[n]}
      /\ \A c \in CellsOf(q) \ {q[n]} : Without(stack_nodes, {q[n]})[c] = stack_nodes[c]
  BY <1>2 DEF Without
<1>9. /\ DOMAIN stack_nodes' = CellsOf(q) \ {q[n]} /\ stack_nodes' = [c \in DOMAIN stack_nodes' |-> stack_nodes'[c]]
      /\ \A c \in CellsOf(q) \ {q[n]} :
           stack_nodes'[c] = IF c = q[n - 1] THEN [stack_nodes[c] EXCEPT !.next = NextIn(q, n)] ELSE stack_nodes[c]
  BY <1>7, <1>8
<1>10. ASSUME NEW i \in 1 .. Len(q), i # n
       PROVE  stack_nodes'[q[i]] = IF i = n - 1 THEN [stack_nodes[q[i]] EXCEPT !.next = NextIn(q, n)]
                                         ELSE stack_nodes[q[i]]
  <2>1. q[i] \in CellsOf(q) /\ q[i] # q[n] /\ (q[i] = q[n - 1] <=> i = n - 1)
    BY <1>2, <1>4, <1>10 DEF CellsOf, Distinct
  <2> QED
    BY <1>9, <2>1
<1>11. root' = IF n = 1 THEN NextIn(q, 1) ELSE root
  BY <1>3, <1>4
<1> QED
  BY <1>1, <1>3, <1>4, <1>7, <1>9, <1>10, <1>11, TakenFromAnywhere

(* What only looks shows the item at its place.                            *)
LEMMA LookShows ==
  ASSUME StackInv, stack_made, NEW n \in 1 .. stack_size,
         UNCHANGED <<stack_nodes, root, stack_size, stack_made>>,
         stack_said' = Said("show", n, stack_nodes[Down[n - 1]].data)
  PROVE  StackInv' /\ PromisedStack!Show(n) /\ n \in 1 .. Len(StackItems) + 1
<1>1. PICK q \in Seq(Cell) : IsStack(q, stack_nodes, root, stack_size)
  BY DEF StackInv
<1>2. stack_size = Len(q) /\ Len(q) \in Nat
  BY <1>1, LenProperties DEF IsStack
<1>3. StackItems = DataOf(q, stack_nodes) /\ StackItems' = DataOf(q, stack_nodes)
  <2>1. IsStack(q, stack_nodes', root', stack_size') /\ stack_nodes' = stack_nodes /\ stack_made'
    BY <1>1
  <2> QED
    BY <1>1, <2>1, ItemsAlong, ItemsAlongThen
<1>4. Len(StackItems) = Len(q) /\ StackItems[n] = stack_nodes[q[n]].data /\ StackItems # <<>>
  <2>1. StackItems \in Seq(Data) /\ Len(StackItems) = Len(q) /\ StackItems[n] = stack_nodes[q[n]].data
    BY <1>1, <1>2, <1>3, ItemsAreData
  <2> QED
    BY <1>2, <2>1
<1>5. Down[n - 1] = q[n]
  BY <1>1, DownAlong
<1>6. n \in 1 .. Len(StackItems) /\ Len(StackItems) \in Nat /\ ~(n > Len(StackItems))
  BY <1>2, <1>4
<1>7. StackInv'
  BY DEF StackInv
<1>8. n \in 1 .. Len(StackItems) + 1
  BY <1>2, <1>4
<1> QED
  BY <1>3, <1>4, <1>5, <1>6, <1>7, <1>8 DEF PromisedStack!Show, PromisedStack!Said, Said

(* What changes neither cells nor root leaves the items.                   *)
LEMMA ItemsStay ==
  ASSUME StackInv, UNCHANGED <<stack_nodes, root, stack_size, stack_made>>
  PROVE  StackInv' /\ StackItems' = StackItems
<1>1. StackInv'
  BY DEF StackInv
<1>2. CASE stack_made
  <2>1. PICK q \in Seq(Cell) : IsStack(q, stack_nodes, root, stack_size)
    BY <1>2 DEF StackInv
  <2>2. IsStack(q, stack_nodes', root', stack_size') /\ stack_nodes' = stack_nodes /\ stack_made'
    BY <1>2, <2>1
  <2> QED
    BY <1>1, <1>2, <2>1, <2>2, ItemsAlong, ItemsAlongThen
<1>3. CASE ~stack_made
  BY <1>1, <1>3 DEF StackItems
<1> QED
  BY <1>2, <1>3

LEMMA NoItems ==
  ASSUME NEW q, IsStack(q, stack_nodes, root, stack_size), stack_size = 0
  PROVE  StackItems = <<>>
<1>1. \A f : f = [n \in 1 .. 0 |-> f[n]] => f = <<>>
  OBVIOUS
<1>2. StackItems = [n \in 1 .. 0 |-> StackItems[n]] \/ StackItems = <<>>
  BY DEF StackItems
<1> QED
  BY <1>1, <1>2

LEMMA DestroyClears ==
  ASSUME StackInv, destroy_stack
  PROVE  StackInv' /\ PromisedStack!Clear
<1>1. PICK q \in Seq(Cell) : IsStack(q, stack_nodes, root, stack_size)
  BY DEF StackInv, destroy_stack
<1>2. stack_made /\ stack_said' = Said("clear", 0, 0)
  BY DEF destroy_stack
<1>3. CASE stack_size = 0
  <2>1. UNCHANGED <<stack_nodes, root, stack_size, stack_made>>
    BY <1>3 DEF destroy_stack
  <2> QED
    BY <1>1, <1>2, <1>3, <2>1, ItemsStay, NoItems DEF PromisedStack!Clear, PromisedStack!Said, Said
<1>4. CASE stack_size # 0
  <2>1. stack_nodes' = Without(stack_nodes, {Down[n] : n \in 0 .. stack_size - 1}) /\ ~stack_made'
    BY <1>4 DEF destroy_stack
  <2>2. \A n \in 1 .. stack_size : Down[n - 1] = q[n]
    BY <1>1, DownAlong
  <2>3. DOMAIN stack_nodes = CellsOf(q) /\ stack_size = Len(q) /\ Len(q) \in Nat
    BY <1>1, LenProperties DEF IsStack
  <2>4. ASSUME NEW i \in 1 .. Len(q) PROVE q[i] \in {Down[n] : n \in 0 .. stack_size - 1}
    <3>1. i - 1 \in 0 .. stack_size - 1 /\ Down[i - 1] = q[i]
      BY <2>2, <2>3
    <3> QED
      BY <3>1
  <2>5. DOMAIN stack_nodes \ {Down[n] : n \in 0 .. stack_size - 1} = {}
    BY <2>3, <2>4 DEF CellsOf
  <2>6. stack_nodes' \in [{} -> Node]
    BY <2>1, <2>5 DEF Without
  <2> QED
    BY <1>2, <2>1, <2>6 DEF StackInv, StackItems, PromisedStack!Clear, PromisedStack!Said, Said
<1> QED
  BY <1>3, <1>4

LEMMA EmptyStack ==
  ASSUME NEW nodes \in [{} -> Node]
  PROVE  IsStack(<<>>, nodes, Null, 0)
<1>1. <<>> \in Seq(Cell) /\ Len(<<>>) = 0
  OBVIOUS
<1>2. CellsOf(<<>>) = {} /\ Distinct(<<>>)
  BY <1>1 DEF CellsOf, Distinct
<1>3. NextIn(<<>>, 0) = Null
  BY <1>1 DEF NextIn
<1> QED
  BY <1>1, <1>2, <1>3 DEF IsStack

LEMMA CreateMakesEmpty ==
  ASSUME StackInv, create_stack
  PROVE  StackInv' /\ PromisedStack!Create
<1>1. stack_nodes' \in [{} -> Node] /\ stack_made' /\ root' = Null /\ stack_size' = 0 /\ stack_said' = Said("create", 0, 0)
  BY DEF StackInv, create_stack
<1>2. IsStack(<<>>, stack_nodes', root', stack_size') /\ <<>> \in Seq(Cell)
  <2>1. IsStack(<<>>, stack_nodes', Null, 0)
    BY <1>1, EmptyStack
  <2>2. <<>> \in Seq(Cell)
    OBVIOUS
  <2> QED
    BY <1>1, <2>1, <2>2
<1>3. StackItems' = DataOf(<<>>, stack_nodes')
  BY <1>1, <1>2, ItemsAlongThen
<1>4. StackItems' = <<>>
  BY <1>3 DEF DataOf
<1> QED
  BY <1>1, <1>2, <1>4 DEF StackInv, PromisedStack!Create, PromisedStack!Said, Said

(* Every call that comes back is one of the promised ones.                 *)
LEMMA CallsAct ==
  ASSUME StackInv, StackCall
  PROVE  Step
<1>1. \A d \in Data : push(d) => Step
  <2> SUFFICES ASSUME NEW d \in Data, push(d) PROVE Step
    OBVIOUS
  <2>1. StackInv' /\ PromisedStack!Insert(1, d) /\ 1 \in 1 .. Len(StackItems) + 1
    BY PushInserts
  <2> QED
    BY <2>1 DEF Step, PromisedStack!Next
<1>2. ASSUME pop PROVE Step
  BY <1>2, PopTakes DEF Step, PromisedStack!Next
<1>3. ASSUME NEW n, pop_nth(n) PROVE Step
  BY <1>3, PopNthTakes DEF Step, PromisedStack!Next
<1>4. ASSUME peek_top PROVE Step
  <2>1. PICK q \in Seq(Cell) : IsStack(q, stack_nodes, root, stack_size)
    BY <1>4 DEF StackInv, peek_top
  <2>2. stack_size = Len(q) /\ Len(q) \in Nat /\ stack_size # 0
    BY <1>4, <2>1, LenProperties DEF IsStack, peek_top
  <2>3. 1 \in 1 .. stack_size /\ root = q[1] /\ Down[1 - 1] = q[1]
    BY <2>1, <2>2, DownAlong DEF IsStack, NextIn
  <2>4. PromisedStack!Show(1) /\ 1 \in 1 .. Len(StackItems) + 1 /\ StackInv'
    <3>1. PICK n \in 1 .. stack_size : n = 1
      BY <2>3
    <3>2. stack_said' = Said("show", n, stack_nodes[Down[n - 1]].data)
      BY <1>4, <2>3, <3>1 DEF peek_top
    <3>3. PromisedStack!Show(n) /\ n \in 1 .. Len(StackItems) + 1 /\ StackInv'
      BY <1>4, <3>2, LookShows DEF peek_top
    <3> QED
      BY <3>1, <3>3
  <2> QED
    BY <2>4 DEF Step, PromisedStack!Next
<1>5. ASSUME NEW n, find(n) PROVE Step
  <2>1. PromisedStack!Show(n) /\ n \in 1 .. Len(StackItems) + 1 /\ StackInv'
    BY <1>5, LookShows DEF find
  <2> QED
    BY <2>1 DEF Step, PromisedStack!Next
<1>6. ASSUME push_refused \/ \E n : OutOfRange(n) PROVE Step
  <2>1. PICK n : stack_said' = Said("refused", n, 0) /\ UNCHANGED <<stack_nodes, root, stack_size, stack_made>>
    BY <1>6 DEF push_refused, OutOfRange
  <2>2. StackInv' /\ StackItems' = StackItems
    BY <2>1, ItemsStay
  <2>3. PromisedStack!Refuse
    BY <2>1, <2>2 DEF PromisedStack!Refuse, PromisedStack!Said, Said
  <2> QED
    BY <2>2, <2>3 DEF Step, PromisedStack!Next
<1>7. ASSUME destroy_stack PROVE Step
  BY <1>7, DestroyClears DEF Step, PromisedStack!Next
<1>8. ASSUME create_stack PROVE Step
  BY <1>8, CreateMakesEmpty DEF Step, PromisedStack!Next
<1> QED
  BY <1>1, <1>2, <1>3, <1>4, <1>5, <1>6, <1>7, <1>8 DEF StackCall

(* One that walks off the list leaves the nodes as they are.               *)
LEMMA StackSteps ==
  ASSUME StackInv, [StackNext]_stackVars
  PROVE  StackInv' /\ [~stack_lost' => PromisedStack!Next]_stackVars
<1>1. CASE StackCall
  BY <1>1, CallsAct DEF Step
<1>2. ASSUME NEW n, WalksOff(n) PROVE StackInv' /\ stack_lost'
  BY <1>2, ItemsStay DEF WalksOff
<1>3. CASE UNCHANGED stackVars
  BY <1>3, ItemsStay DEF stackVars
<1> QED
  BY <1>1, <1>2, <1>3 DEF StackNext

LEMMA StackStarts == StackInit => StackInv /\ PromisedStack!Init
<1> SUFFICES ASSUME StackInit PROVE StackInv /\ PromisedStack!Init
  OBVIOUS
<1>1. stack_nodes \in [{} -> Node] /\ root = Null /\ stack_size = 0 /\ stack_made /\ stack_said = Said("create", 0, 0)
  BY DEF StackInit
<1>2. IsStack(<<>>, stack_nodes, root, stack_size) /\ <<>> \in Seq(Cell)
  <2>1. IsStack(<<>>, stack_nodes, Null, 0)
    BY <1>1, EmptyStack
  <2>2. <<>> \in Seq(Cell)
    OBVIOUS
  <2> QED
    BY <1>1, <2>1, <2>2
<1>3. StackItems = <<>>
  BY <1>1, <1>2, NoItems
<1> QED
  BY <1>1, <1>2, <1>3 DEF StackInv, PromisedStack!Init, PromisedStack!Said, Said

LEMMA StackInvariant == StackSpec => []StackInv
<1>1. StackInv /\ [StackNext]_stackVars => StackInv'
  BY StackSteps
<1>2. StackInit => StackInv
  BY StackStarts
<1> QED
  BY <1>1, <1>2, PTL DEF StackSpec

(* Whichever cells malloc gives and in whatever order the functions are    *)
(* called, until find(0), pop_nth(0) or pop_nth(1) walks off the list the  *)
(* linked cells behave as a sequence of items and every answer is the one  *)
(* that the sequence gives (stack.c).                                      *)
THEOREM StackIsSequence == StackSpec => StackActsAsSequence
<1>1. StackInit => PromisedStack!Init
  BY StackStarts
<1>2. StackInv /\ [StackNext]_stackVars => [~stack_lost' => PromisedStack!Next]_stackVars
  BY StackSteps
<1> QED
  BY <1>1, <1>2, StackInvariant, PTL DEF StackSpec, StackActsAsSequence

(* The cells that are allocated are those that the stack reaches, and a    *)
(* destroyed stack leaves none (pop, pop_nth, destroy_stack).              *)
THEOREM NoCellLeaked == StackSpec => []NothingLeaked
<1>1. StackInv => NothingLeaked
  <2> SUFFICES ASSUME StackInv PROVE NothingLeaked
    OBVIOUS
  <2>1. CASE stack_made
    <3>1. PICK q \in Seq(Cell) : IsStack(q, stack_nodes, root, stack_size)
      BY <2>1 DEF StackInv
    <3>2. DOMAIN stack_nodes = CellsOf(q) /\ stack_size = Len(q) /\ Len(q) \in Nat
      BY <3>1, LenProperties DEF IsStack
    <3>3. \A n \in 1 .. stack_size : Down[n - 1] = q[n]
      BY <3>1, DownAlong
    <3>4. ASSUME NEW n \in 0 .. stack_size - 1 PROVE Down[n] \in CellsOf(q)
      <4>1. n + 1 \in 1 .. stack_size /\ n + 1 - 1 = n
        BY <3>2
      <4>2. Down[n] = q[n + 1]
        BY <3>3, <4>1
      <4> QED
        BY <3>2, <4>1, <4>2 DEF CellsOf
    <3>5. ASSUME NEW i \in 1 .. Len(q) PROVE q[i] \in {Down[n] : n \in 0 .. stack_size - 1}
      <4>1. i - 1 \in 0 .. stack_size - 1 /\ Down[i - 1] = q[i]
        BY <3>2, <3>3
      <4> QED
        BY <4>1
    <3>6. CellsOf(q) = {Down[n] : n \in 0 .. stack_size - 1}
      BY <3>4, <3>5 DEF CellsOf
    <3> QED
      BY <2>1, <3>2, <3>6 DEF NothingLeaked
  <2>2. CASE ~stack_made
    BY <2>2 DEF StackInv, NothingLeaked
  <2> QED
    BY <2>1, <2>2
<1> QED
  BY <1>1, StackInvariant, PTL

-----------------------------------------------------------------------------
(* Induction up to a bound, and functions that are defined by it           *)

LEMMA LeastOf ==
  ASSUME NEW T \in SUBSET Nat, T # {}
  PROVE  \E x \in T : \A y \in T : x <= y
<1>1. \E x \in T : \A y \in T : <<y, x>> \notin OpToRel(<, Nat)
  BY NatLessThanWellFounded, WFMin, Zenon
<1>2. PICK x \in T : \A y \in T : ~(y < x)
  BY <1>1, Zenon DEF OpToRel
<1> QED
  BY <1>2

LEMMA UpTo ==
  ASSUME NEW N \in Nat, NEW P \in SUBSET (0 .. N), 0 \in P, \A i \in 1 .. N : i - 1 \in P => i \in P
  PROVE  P = 0 .. N
<1> SUFFICES ASSUME (0 .. N) \ P # {} PROVE FALSE
  OBVIOUS
<1>1. PICK x \in (0 .. N) \ P : \A y \in (0 .. N) \ P : x <= y
  <2> DEFINE T == (0 .. N) \ P
  <2>1. T \in SUBSET Nat /\ T # {}
    OBVIOUS
  <2> HIDE DEF T
  <2>2. \E x \in T : \A y \in T : x <= y
    BY <2>1, LeastOf
  <2> QED
    BY <2>2 DEF T
<1>2. x \in 1 .. N /\ x - 1 \in 0 .. N /\ ~(x <= x - 1)
  BY <1>1
<1>3. x - 1 \in P
  BY <1>1, <1>2
<1> QED
  BY <1>1, <1>2, <1>3

Recursion(f, N, S, x0, g) ==
  f \in [0 .. N -> S] /\ f[0] = x0 /\ \A i \in 1 .. N : f[i] = g[i][f[i - 1]]

LEMMA RecursionExists ==
  ASSUME NEW N \in Nat, NEW S, NEW x0 \in S, NEW g \in [1 .. N -> [S -> S]]
  PROVE  \E f : Recursion(f, N, S, x0, g)
<1> DEFINE Obeys(f, n) == f[0] = x0 /\ \A i \in 1 .. n : f[i] = g[i][f[i - 1]]
           P == {n \in 0 .. N : \E f \in [0 .. n -> S] : Obeys(f, n)}
<1>1. 0 \in P
  <2> DEFINE h == [i \in 0 .. 0 |-> x0]
  <2>1. h \in [0 .. 0 -> S]
    OBVIOUS
  <2>2. h[0] = x0
    OBVIOUS
  <2>3. \A i \in 1 .. 0 : FALSE
    OBVIOUS
  <2> HIDE DEF h
  <2>4. \E f \in [0 .. 0 -> S] : Obeys(f, 0)
    BY <2>1, <2>2, <2>3
  <2> QED
    BY <2>4
<1>2. ASSUME NEW n \in 1 .. N, n - 1 \in P PROVE n \in P
  <2>1. PICK f \in [0 .. n - 1 -> S] : Obeys(f, n - 1)
    BY <1>2
  <2> DEFINE h == [i \in 0 .. n |-> IF i = n THEN g[n][f[n - 1]] ELSE f[i]]
  <2>2. f[n - 1] \in S /\ g[n][f[n - 1]] \in S
    BY <2>1
  <2>3. \A i \in 0 .. n : i # n => i \in 0 .. n - 1
    OBVIOUS
  <2>4. h \in [0 .. n -> S]
    BY <2>1, <2>2, <2>3
  <2>5. h[0] = x0
    BY <2>1
  <2>6. ASSUME NEW i \in 1 .. n PROVE h[i] = g[i][h[i - 1]]
    <3>1. i - 1 \in 0 .. n /\ i - 1 # n /\ h[i - 1] = f[i - 1]
      OBVIOUS
    <3>2. CASE i = n
      BY <3>1, <3>2
    <3>3. CASE i # n
      <4>1. i \in 1 .. n - 1 /\ h[i] = f[i]
        BY <3>3
      <4> QED
        BY <2>1, <3>1, <4>1
    <3> HIDE DEF h
    <3> QED
      BY <3>2, <3>3
  <2> HIDE DEF h
  <2>7. Obeys(h, n)
    BY <2>5, <2>6
  <2> HIDE DEF Obeys
  <2>8. \E f1 \in [0 .. n -> S] : Obeys(f1, n)
    BY <2>4, <2>7
  <2> QED
    BY <2>8
<1>3. P = 0 .. N
  <2>1. P \in SUBSET (0 .. N)
    OBVIOUS
  <2> HIDE DEF P
  <2> QED
    BY <1>1, <1>2, <2>1, UpTo
<1>4. N \in P
  <2> HIDE DEF P
  <2> QED
    BY <1>3
<1>5. PICK f \in [0 .. N -> S] : Obeys(f, N)
  BY <1>4
<1>6. Recursion(f, N, S, x0, g)
  BY <1>5 DEF Recursion
<1> QED
  BY <1>6

-----------------------------------------------------------------------------
(* The circular list: the cells in the order in which they are linked.  The *)
(* ring need not be closed, and without items `head' may point anywhere.   *)

IsRow(q, nodes, first, n) ==
  /\ q \in Seq(Cell) /\ n = Len(q) /\ Distinct(q)
  /\ nodes \in [CellsOf(q) -> Node]
  /\ Len(q) > 0 => first = q[1]
  /\ \A i \in 1 .. Len(q) - 1 : nodes[q[i]].next = q[i + 1]

(* The ring closes where `last' says.                                      *)
Intact ==
  \/ head = Null
  \/ curr_size > 0 /\ last \in DOMAIN list_nodes /\ list_nodes[last].next = head

(* A list that has not been misused is a row of cells that no call has     *)
(* left, and closed where it is said to be.                                *)
ListInv ==
  /\ list_use # "misused" =>
       /\ ~list_lost
       /\ list_made => \E q \in Seq(Cell) : IsRow(q, list_nodes, head, curr_size)
       /\ list_made /\ Closed => Intact
  /\ ~list_made => list_nodes \in [{} -> Node]

LEMMA RowFacts ==
  ASSUME NEW q, NEW nodes, NEW first, NEW n, IsRow(q, nodes, first, n)
  PROVE  /\ n = Len(q) /\ n \in Nat /\ Distinct(q) /\ DOMAIN nodes = CellsOf(q)
         /\ \A i \in 1 .. n : q[i] \in Cell /\ nodes[q[i]] \in Node /\ q[i] \in DOMAIN nodes
         /\ n > 0 => first = q[1]
         /\ \A i \in 1 .. n - 1 : nodes[q[i]].next = q[i + 1]
         /\ DataOf(q, nodes) \in Seq(Data) /\ Len(DataOf(q, nodes)) = n
         /\ \A i \in 1 .. n : DataOf(q, nodes)[i] = nodes[q[i]].data
<1>1. n = Len(q) /\ Len(q) \in Nat /\ \A i \in 1 .. Len(q) : q[i] \in Cell
  BY LenProperties, ElementOfSeq DEF IsRow
<1>2. \A i \in 1 .. Len(q) : nodes[q[i]] \in Node /\ q[i] \in DOMAIN nodes
  BY DEF IsRow, CellsOf
<1>3. \A i \in 1 .. Len(q) : nodes[q[i]].data \in Data
  BY <1>2 DEF Node
<1>4. DataOf(q, nodes) \in [1 .. Len(q) -> Data]
  BY <1>3 DEF DataOf
<1>5. DataOf(q, nodes) \in Seq(Data) /\ Len(DataOf(q, nodes)) = Len(q)
  BY <1>1, <1>4
<1>6. \A i \in 1 .. n : DataOf(q, nodes)[i] = nodes[q[i]].data
  BY <1>1 DEF DataOf
<1> QED
  BY <1>1, <1>2, <1>5, <1>6 DEF IsRow

(* The walk that follows the pointers from a cell, and stops at Null.      *)
Steps(nodes, first, len) ==
  CHOOSE w : w = [n \in 0 .. len |->
    IF n = 0 THEN first
    ELSE LET c == w[n - 1]
         IN  IF c \in DOMAIN nodes THEN nodes[c].next ELSE Null]

LEMMA StepsTaken ==
  ASSUME NEW nodes, NEW first, NEW len \in Nat, \A c \in DOMAIN nodes : nodes[c] \in Node
  PROVE  /\ Steps(nodes, first, len)[0] = first
         /\ \A n \in 1 .. len : Steps(nodes, first, len)[n] =
              IF Steps(nodes, first, len)[n - 1] \in DOMAIN nodes
              THEN nodes[Steps(nodes, first, len)[n - 1]].next ELSE Null
<1> DEFINE S == Cell \union {Null, first}
           step == [c \in S |-> IF c \in DOMAIN nodes THEN nodes[c].next ELSE Null]
           g == [i \in 1 .. len |-> step]
<1>1. step \in [S -> S]
  <2>1. \A c \in DOMAIN nodes : nodes[c].next \in S
    BY DEF Node
  <2> QED
    BY <2>1
<1>2. g \in [1 .. len -> [S -> S]] /\ first \in S
  BY <1>1
<1>3. \A i \in 1 .. len, c \in S : g[i][c] = IF c \in DOMAIN nodes THEN nodes[c].next ELSE Null
  OBVIOUS
<1> HIDE DEF S, g, step
<1>4. PICK f : Recursion(f, len, S, first, g)
  BY <1>2, RecursionExists
<1>5. f \in [0 .. len -> S] /\ f[0] = first /\ \A i \in 1 .. len : f[i] = g[i][f[i - 1]]
  BY <1>4 DEF Recursion
<1>6. ASSUME NEW i \in 1 .. len
      PROVE  f[i] = IF f[i - 1] \in DOMAIN nodes THEN nodes[f[i - 1]].next ELSE Null
  <2>1. i - 1 \in 0 .. len
    OBVIOUS
  <2>2. f[i - 1] \in S
    BY <1>5, <2>1
  <2> QED
    BY <1>3, <1>5, <2>2
<1> DEFINE Obeys(w) == w = [n \in 0 .. len |->
             IF n = 0 THEN first
             ELSE LET c == w[n - 1]
                  IN  IF c \in DOMAIN nodes THEN nodes[c].next ELSE Null]
<1>7. Obeys(f)
  <2>1. \A n \in 0 .. len :
          f[n] = IF n = 0 THEN first
                 ELSE LET c == f[n - 1]
                      IN  IF c \in DOMAIN nodes THEN nodes[c].next ELSE Null
    <3> SUFFICES ASSUME NEW n \in 0 .. len
                 PROVE  f[n] = IF n = 0 THEN first
                               ELSE IF f[n - 1] \in DOMAIN nodes THEN nodes[f[n - 1]].next ELSE Null
      OBVIOUS
    <3>1. n = 0 \/ n \in 1 .. len
      OBVIOUS
    <3> QED
      BY <1>5, <1>6, <3>1
  <2>2. f = [n \in 0 .. len |-> f[n]]
    BY <1>5
  <2> QED
    BY <2>1, <2>2
<1>8. Steps(nodes, first, len) = CHOOSE w : Obeys(w)
  BY DEF Steps
<1> HIDE DEF Obeys
<1>9. PICK walk : walk = Steps(nodes, first, len)
  OBVIOUS
<1>10. Obeys(walk)
  BY <1>7, <1>8, <1>9, Zenon
<1>11. \A n \in 0 .. len : walk[n] = IF n = 0 THEN first
          ELSE IF walk[n - 1] \in DOMAIN nodes THEN nodes[walk[n - 1]].next ELSE Null
  <2>1. PICK f1 : f1 = [n \in 0 .. len |->
             IF n = 0 THEN first
             ELSE LET c == walk[n - 1]
                  IN  IF c \in DOMAIN nodes THEN nodes[c].next ELSE Null]
    OBVIOUS
  <2>2. \A n \in 0 .. len : f1[n] = IF n = 0 THEN first
          ELSE IF walk[n - 1] \in DOMAIN nodes THEN nodes[walk[n - 1]].next ELSE Null
    BY <2>1
  <2>3. walk = f1
    BY <1>10, <2>1 DEF Obeys
  <2> QED
    BY <2>2, <2>3
<1> QED
  BY <1>9, <1>11

(* From the first cell of a row it goes along the row.                     *)
LEMMA RowWalk ==
  ASSUME NEW q, NEW nodes, NEW first, NEW n, IsRow(q, nodes, first, n)
  PROVE  /\ \A i \in 1 .. n : Steps(nodes, first, n + 1)[i - 1] = q[i]
         /\ n > 0 => Steps(nodes, first, n + 1)[n] = nodes[q[n]].next
<1>1. /\ n \in Nat /\ DOMAIN nodes = CellsOf(q) /\ n = Len(q)
      /\ \A i \in 1 .. n : nodes[q[i]] \in Node /\ q[i] \in DOMAIN nodes
      /\ n > 0 => first = q[1]
      /\ \A i \in 1 .. n - 1 : nodes[q[i]].next = q[i + 1]
  BY RowFacts
<1>2. \A c \in DOMAIN nodes : nodes[c] \in Node
  BY <1>1 DEF CellsOf
<1>3. PICK w : w = Steps(nodes, first, n + 1)
  OBVIOUS
<1>4. w[0] = first /\ \A i \in 1 .. n + 1 :
        w[i] = IF w[i - 1] \in DOMAIN nodes THEN nodes[w[i - 1]].next ELSE Null
  <2>1. n + 1 \in Nat
    BY <1>1
  <2> QED
    BY <1>2, <1>3, <2>1, StepsTaken
<1>5. ASSUME n > 0 PROVE \A i \in 0 .. n - 1 : w[i] = q[i + 1]
  <2> DEFINE P == {i \in 0 .. n - 1 : w[i] = q[i + 1]}
  <2>1. 0 \in P
    BY <1>1, <1>4, <1>5
  <2>2. ASSUME NEW i \in 1 .. n - 1, i - 1 \in P PROVE i \in P
    <3>1. w[i - 1] = q[i] /\ i \in 1 .. n /\ i \in 1 .. n + 1
      BY <1>1, <2>2
    <3> QED
      BY <1>1, <1>4, <3>1
  <2>3. P \in SUBSET (0 .. n - 1) /\ n - 1 \in Nat
    BY <1>1, <1>5
  <2> HIDE DEF P
  <2>4. P = 0 .. n - 1
    BY <2>1, <2>2, <2>3, UpTo
  <2> QED
    BY <2>4 DEF P
<1>6. ASSUME NEW i \in 1 .. n PROVE w[i - 1] = q[i]
  <2>1. n > 0 /\ i - 1 \in 0 .. n - 1 /\ i - 1 + 1 = i
    BY <1>1
  <2> QED
    BY <1>5, <2>1
<1>7. ASSUME n > 0 PROVE w[n] = nodes[q[n]].next
  <2>1. n \in 1 .. n /\ n \in 1 .. n + 1
    BY <1>1, <1>7
  <2>2. w[n - 1] = q[n]
    BY <1>6, <2>1
  <2> QED
    BY <1>1, <1>4, <2>1, <2>2
<1> QED
  BY <1>3, <1>6, <1>7

LEMMA AheadAlong ==
  ASSUME NEW q, IsRow(q, list_nodes, head, curr_size)
  PROVE  /\ \A i \in 1 .. curr_size : Ahead[i - 1] = q[i]
         /\ curr_size > 0 => Ahead[curr_size] = list_nodes[q[curr_size]].next
<1>1. Ahead = Steps(list_nodes, head, curr_size + 1)
  BY Zenon DEF Ahead, Steps, Farthest
<1> QED
  BY <1>1, RowWalk

LEMMA AheadAlongThen ==
  ASSUME NEW q, IsRow(q, list_nodes', head', curr_size')
  PROVE  \A i \in 1 .. curr_size' : Ahead'[i - 1] = q[i]
<1>1. Ahead' = Steps(list_nodes', head', curr_size' + 1)
  BY Zenon DEF Ahead, Steps, Farthest
<1> QED
  BY <1>1, RowWalk

LEMMA ViewAlong ==
  ASSUME list_made, NEW q, IsRow(q, list_nodes, head, curr_size)
  PROVE  view_list = DataOf(q, list_nodes)
<1>1. \A n \in 1 .. curr_size : Ahead[n - 1] = q[n]
  BY AheadAlong
<1> QED
  BY <1>1 DEF IsRow, view_list, DataOf

LEMMA ViewAlongThen ==
  ASSUME list_made', NEW q, IsRow(q, list_nodes', head', curr_size')
  PROVE  view_list' = DataOf(q, list_nodes')
<1>1. \A n \in 1 .. curr_size' : Ahead'[n - 1] = q[n]
  BY AheadAlongThen
<1> QED
  BY <1>1 DEF IsRow, view_list, DataOf

(* The only cell that can close the ring is the last one.                  *)
LEMMA IntactClosed ==
  ASSUME NEW q, IsRow(q, list_nodes, head, curr_size), Intact
  PROVE  /\ head = Null <=> curr_size = 0
         /\ curr_size > 0 => last = q[curr_size] /\ list_nodes[last].next = q[1]
<1>1. curr_size = Len(q) /\ curr_size \in Nat /\ Distinct(q) /\ DOMAIN list_nodes = CellsOf(q)
  BY RowFacts
<1>2. curr_size > 0 => head = q[1] /\ q[1] \in Cell
  BY <1>1, RowFacts
<1>3. head = Null <=> curr_size = 0
  BY <1>1, <1>2, CellAssumption DEF Intact
<1>4. ASSUME curr_size > 0 PROVE last = q[curr_size] /\ list_nodes[last].next = q[1]
  <2>1. last \in CellsOf(q) /\ list_nodes[last].next = q[1]
    BY <1>1, <1>2, <1>3, <1>4 DEF Intact
  <2>2. PICK i \in 1 .. Len(q) : last = q[i]
    BY <2>1 DEF CellsOf
  <2>3. CASE i < Len(q)
    <3>1. i \in 1 .. curr_size - 1 /\ i + 1 \in 1 .. Len(q) /\ 1 \in 1 .. Len(q) /\ i + 1 # 1
      BY <1>1, <2>3
    <3>2. q[i + 1] = q[1]
      BY <2>1, <2>2, <3>1, RowFacts
    <3> QED
      BY <1>1, <3>1, <3>2 DEF Distinct
  <2>4. CASE ~(i < Len(q))
    <3>1. i = curr_size
      BY <1>1, <2>4
    <3> QED
      BY <2>1, <2>2, <3>1
  <2> QED
    BY <2>3, <2>4
<1> QED
  BY <1>3, <1>4

(* A cell more at place k: its neighbours are linked through it, and no    *)
(* other cell of the row is linked differently.                            *)
LEMMA CellPutIn ==
  ASSUME NEW q, NEW nodes, NEW first, NEW n, IsRow(q, nodes, first, n),
         NEW k \in 1 .. n + 1, NEW new \in Cell, new \notin DOMAIN nodes, NEW d \in Data,
         NEW nodes1 \in [DOMAIN nodes \union {new} -> Node], NEW first1,
         nodes1[new].data = d, k <= n => nodes1[new].next = q[k],
         \A c \in DOMAIN nodes : nodes1[c].data = nodes[c].data,
         k > 1 => nodes1[q[k - 1]].next = new,
         \A i \in 1 .. n - 1 : i # k - 1 => nodes1[q[i]].next = nodes[q[i]].next,
         first1 = IF k = 1 THEN new ELSE first
  PROVE  /\ IsRow(InsertAt(q, k, new), nodes1, first1, n + 1)
         /\ DataOf(InsertAt(q, k, new), nodes1) = InsertAt(DataOf(q, nodes), k, d)
<1> DEFINE q1 == InsertAt(q, k, new)
<1>1. /\ q \in Seq(Cell) /\ n = Len(q) /\ n \in Nat /\ Distinct(q) /\ DOMAIN nodes = CellsOf(q)
      /\ \A i \in 1 .. n : q[i] \in Cell /\ nodes[q[i]] \in Node /\ q[i] \in DOMAIN nodes
      /\ \A i \in 1 .. n - 1 : nodes[q[i]].next = q[i + 1]
  <2>1. q \in Seq(Cell)
    BY DEF IsRow
  <2> QED
    BY <2>1, RowFacts
<1>2. /\ q1 \in Seq(Cell) /\ Len(q1) = n + 1
      /\ \A j \in 1 .. n + 1 : q1[j] = IF j < k THEN q[j] ELSE IF j = k THEN new ELSE q[j - 1]
  <2>1. PICK p \in Seq(Cell) : p = q
    BY <1>1
  <2>2. PICK i \in 1 .. Len(p) + 1 : i = k
    BY <1>1, <2>1
  <2>3. IsInserted(Cell, InsertAt(p, i, new), p, i, new)
    BY InsertAtProperties, Zenon
  <2> QED
    BY <1>1, <2>1, <2>2, <2>3 DEF IsInserted
<1> HIDE DEF q1
<1>3. q1[k] = new
  BY <1>1, <1>2
<1>4. \A i \in 1 .. n : i < k => i \in 1 .. n + 1 /\ q1[i] = q[i]
  BY <1>1, <1>2
<1>5. \A i \in 1 .. n : ~(i < k) => i + 1 \in 1 .. n + 1 /\ q1[i + 1] = q[i]
  <2> SUFFICES ASSUME NEW i \in 1 .. n, ~(i < k)
               PROVE  i + 1 \in 1 .. n + 1 /\ q1[i + 1] = q[i]
    OBVIOUS
  <2>1. i + 1 \in 1 .. n + 1 /\ ~(i + 1 < k) /\ i + 1 # k /\ i + 1 - 1 = i
    BY <1>1
  <2> QED
    BY <1>2, <2>1
<1>6. \A j \in 1 .. n + 1 : \/ j = k /\ q1[j] = new
                            \/ j < k /\ j \in 1 .. n /\ q1[j] = q[j]
                            \/ j > k /\ j - 1 \in 1 .. n /\ q1[j] = q[j - 1]
  BY <1>1, <1>2
<1>7. Distinct(q1)
  <2> SUFFICES ASSUME NEW i \in 1 .. n + 1, NEW j \in 1 .. n + 1, q1[i] = q1[j] PROVE i = j
    BY <1>2 DEF Distinct
  <2>1. \A a, b \in 1 .. n : q[a] = q[b] => a = b
    BY <1>1 DEF Distinct
  <2>2. \A a \in 1 .. n : q[a] # new
    BY <1>1
  <2> QED
    BY <1>1, <1>6, <2>1, <2>2
<1>8. CellsOf(q1) = DOMAIN nodes \union {new}
  <2>1. \A j \in 1 .. n + 1 : q1[j] \in DOMAIN nodes \union {new}
    BY <1>1, <1>6
  <2>2. ASSUME NEW c \in DOMAIN nodes PROVE c \in CellsOf(q1)
    <3>1. PICK i \in 1 .. n : c = q[i]
      BY <1>1 DEF CellsOf
    <3>2. \E j \in 1 .. n + 1 : q1[j] = c
      BY <1>4, <1>5, <3>1
    <3> QED
      BY <1>2, <3>2 DEF CellsOf
  <2>3. k \in 1 .. Len(q1)
    BY <1>2
  <2>4. new \in CellsOf(q1)
    BY <1>3, <2>3 DEF CellsOf
  <2> QED
    BY <1>2, <2>1, <2>2, <2>4 DEF CellsOf
<1>9. ASSUME NEW j \in 1 .. n PROVE nodes1[q1[j]].next = q1[j + 1]
  <2>1. CASE j = k
    <3>1. q1[j + 1] = q[k]
      BY <1>5, <2>1
    <3> QED
      BY <1>1, <1>3, <2>1, <3>1
  <2>2. CASE j = k - 1
    <3>1. q1[j] = q[k - 1] /\ q1[j + 1] = new /\ k > 1
      BY <1>1, <1>3, <1>4, <2>2
    <3> QED
      BY <3>1
  <2>3. CASE j < k - 1
    <3>1. j \in 1 .. n - 1 /\ j # k - 1 /\ j + 1 \in 1 .. n /\ j + 1 < k /\ j < k
      BY <1>1, <2>3
    <3>2. q1[j] = q[j] /\ q1[j + 1] = q[j + 1]
      BY <1>4, <3>1
    <3> QED
      BY <1>1, <3>1, <3>2
  <2>4. CASE j > k
    <3>1. /\ j - 1 \in 1 .. n - 1 /\ j - 1 # k - 1 /\ j - 1 \in 1 .. n /\ ~(j - 1 < k) /\ ~(j < k)
          /\ j - 1 + 1 = j
      BY <1>1, <2>4
    <3>2. q1[j] = q[j - 1] /\ q1[j + 1] = q[j]
      <4>1. q1[j - 1 + 1] = q[j - 1]
        BY <1>5, <3>1
      <4>2. q1[j + 1] = q[j]
        BY <1>5, <3>1
      <4> QED
        BY <3>1, <4>1, <4>2
    <3>3. nodes1[q[j - 1]].next = nodes[q[j - 1]].next
      BY <3>1
    <3>4. nodes[q[j - 1]].next = q[j - 1 + 1]
      BY <1>1, <3>1
    <3> QED
      BY <3>1, <3>2, <3>3, <3>4
  <2> QED
    BY <1>1, <2>1, <2>2, <2>3, <2>4
<1>10. first1 = q1[1]
  <2>1. CASE k = 1
    BY <1>3, <2>1
  <2>2. CASE k # 1
    <3>1. 1 \in 1 .. n /\ 1 < k
      BY <1>1, <2>2
    <3> QED
      BY <1>4, <2>2, <3>1, RowFacts
  <2> QED
    BY <2>1, <2>2
<1>11. IsRow(q1, nodes1, first1, n + 1)
  <2>1. Len(q1) - 1 = n /\ nodes1 \in [CellsOf(q1) -> Node]
    BY <1>1, <1>2, <1>8
  <2> QED
    BY <1>2, <1>7, <1>9, <1>10, <2>1 DEF IsRow
<1>12. DataOf(q1, nodes1) = InsertAt(DataOf(q, nodes), k, d)
  <2> DEFINE s == DataOf(q, nodes)  s1 == DataOf(q1, nodes1)  t == InsertAt(s, k, d)
  <2>1. s \in Seq(Data) /\ Len(s) = n /\ \A i \in 1 .. n : s[i] = nodes[q[i]].data
    BY RowFacts
  <2>2. /\ s1 \in Seq(Data) /\ Len(s1) = n + 1
        /\ \A i \in 1 .. n + 1 : s1[i] = nodes1[q1[i]].data
    BY <1>11, RowFacts
  <2> HIDE DEF s, s1
  <2>3. /\ t \in Seq(Data) /\ Len(t) = n + 1
        /\ \A j \in 1 .. n + 1 : t[j] = IF j < k THEN s[j] ELSE IF j = k THEN d ELSE s[j - 1]
    <3>1. PICK i \in 1 .. Len(s) + 1 : i = k
      BY <2>1
    <3>2. s \in Seq(Data)
      BY <2>1
    <3>3. IsInserted(Data, InsertAt(s, i, d), s, i, d)
      BY <3>2, InsertAtProperties, Zenon
    <3> QED
      BY <2>1, <3>1, <3>3 DEF IsInserted
  <2> HIDE DEF t
  <2>4. ASSUME NEW j \in 1 .. n + 1 PROVE s1[j] = t[j]
    <3>1. CASE j = k
      BY <1>3, <2>2, <2>3, <3>1
    <3>2. CASE j < k
      <4>1. j \in 1 .. n /\ q1[j] = q[j]
        BY <1>6, <3>2
      <4>2. nodes1[q[j]].data = nodes[q[j]].data
        BY <1>1, <4>1
      <4> QED
        BY <2>1, <2>2, <2>3, <3>2, <4>1, <4>2
    <3>3. CASE j > k
      <4>1. j - 1 \in 1 .. n /\ q1[j] = q[j - 1] /\ ~(j < k) /\ j # k
        BY <1>6, <3>3
      <4>2. nodes1[q[j - 1]].data = nodes[q[j - 1]].data
        BY <1>1, <4>1
      <4> QED
        BY <2>1, <2>2, <2>3, <4>1, <4>2
    <3> QED
      BY <1>1, <3>1, <3>2, <3>3
  <2>5. s1 = t
    BY <2>2, <2>3, <2>4, SeqEqual
  <2> QED
    BY <2>5 DEF s, s1, t
<1> QED
  BY <1>11, <1>12 DEF q1

(* A cell less at place k.                                                 *)
LEMMA CellTakenOut ==
  ASSUME NEW q, NEW nodes, NEW first, NEW n, IsRow(q, nodes, first, n), NEW k \in 1 .. n,
         NEW nodes1 \in [DOMAIN nodes \ {q[k]} -> Node], NEW first1,
         \A c \in DOMAIN nodes \ {q[k]} : nodes1[c].data = nodes[c].data,
         k > 1 /\ k < n => nodes1[q[k - 1]].next = q[k + 1],
         \A i \in 1 .. n - 1 : i # k /\ i # k - 1 => nodes1[q[i]].next = nodes[q[i]].next,
         k = 1 /\ n > 1 => first1 = q[2], k # 1 => first1 = first
  PROVE  /\ IsRow(RemoveAt(q, k), nodes1, first1, n - 1)
         /\ DataOf(RemoveAt(q, k), nodes1) = RemoveAt(DataOf(q, nodes), k)
<1> DEFINE q1 == RemoveAt(q, k)
<1>1. /\ q \in Seq(Cell) /\ n = Len(q) /\ n \in Nat /\ Distinct(q) /\ DOMAIN nodes = CellsOf(q)
      /\ \A i \in 1 .. n : q[i] \in Cell /\ nodes[q[i]] \in Node /\ q[i] \in DOMAIN nodes
      /\ \A i \in 1 .. n - 1 : nodes[q[i]].next = q[i + 1]
  <2>1. q \in Seq(Cell)
    BY DEF IsRow
  <2> QED
    BY <2>1, RowFacts
<1>2. /\ q1 \in Seq(Cell) /\ Len(q1) = n - 1
      /\ \A j \in 1 .. n - 1 : q1[j] = IF j < k THEN q[j] ELSE q[j + 1]
  <2>1. PICK p \in Seq(Cell) : p = q
    BY <1>1
  <2>2. PICK i \in 1 .. Len(p) : i = k
    BY <1>1, <2>1
  <2>3. /\ RemoveAt(p, i) \in Seq(Cell) /\ Len(RemoveAt(p, i)) = Len(p) - 1
        /\ \A j \in 1 .. Len(p) - 1 : RemoveAt(p, i)[j] = IF j < i THEN p[j] ELSE p[j + 1]
    BY RemoveAtProperties
  <2> QED
    BY <1>1, <2>1, <2>2, <2>3
<1> HIDE DEF q1
<1>3. \A j \in 1 .. n - 1 : \/ j < k /\ j \in 1 .. n /\ q1[j] = q[j]
                            \/ ~(j < k) /\ j + 1 > k /\ j + 1 \in 1 .. n /\ q1[j] = q[j + 1]
  BY <1>1, <1>2
<1>4. \A i \in 1 .. n : i # k => \E j \in 1 .. n - 1 : q1[j] = q[i]
  <2> SUFFICES ASSUME NEW i \in 1 .. n, i # k PROVE \E j \in 1 .. n - 1 : q1[j] = q[i]
    OBVIOUS
  <2>1. CASE i < k
    <3>1. i \in 1 .. n - 1
      BY <1>1, <2>1
    <3> QED
      BY <1>2, <2>1, <3>1
  <2>2. CASE ~(i < k)
    <3>1. i - 1 \in 1 .. n - 1 /\ ~(i - 1 < k) /\ i - 1 + 1 = i
      BY <1>1, <2>2
    <3>2. q1[i - 1] = q[i - 1 + 1]
      BY <1>2, <3>1
    <3> QED
      BY <3>1, <3>2
  <2> QED
    BY <2>1, <2>2
<1>5. \A a, b \in 1 .. n : q[a] = q[b] => a = b
  BY <1>1 DEF Distinct
<1>6. Distinct(q1)
  <2> SUFFICES ASSUME NEW i \in 1 .. n - 1, NEW j \in 1 .. n - 1, q1[i] = q1[j] PROVE i = j
    BY <1>2 DEF Distinct
  <2> QED
    BY <1>1, <1>3, <1>5
<1>7. CellsOf(q1) = DOMAIN nodes \ {q[k]}
  <2>1. ASSUME NEW j \in 1 .. n - 1 PROVE q1[j] \in DOMAIN nodes /\ q1[j] # q[k]
    <3>1. PICK i \in 1 .. n : i # k /\ q1[j] = q[i]
      BY <1>1, <1>3
    <3> QED
      BY <1>1, <1>5, <3>1
  <2>2. ASSUME NEW c \in DOMAIN nodes, c # q[k] PROVE c \in CellsOf(q1)
    <3>1. PICK i \in 1 .. n : c = q[i]
      BY <1>1 DEF CellsOf
    <3>2. PICK j \in 1 .. n - 1 : q1[j] = q[i]
      BY <1>4, <2>2, <3>1
    <3> QED
      BY <1>2, <3>1, <3>2 DEF CellsOf
  <2> QED
    BY <1>2, <2>1, <2>2 DEF CellsOf
<1>8. ASSUME NEW j \in 1 .. n - 2 PROVE nodes1[q1[j]].next = q1[j + 1]
  <2>0. j \in 1 .. n - 1 /\ j + 1 \in 1 .. n - 1
    BY <1>1
  <2>1. CASE j + 1 < k
    <3>1. q1[j] = q[j] /\ q1[j + 1] = q[j + 1] /\ j # k /\ j # k - 1
      BY <1>2, <2>0, <2>1
    <3> QED
      BY <1>1, <2>0, <3>1
  <2>2. CASE j + 1 = k
    <3>1. q1[j] = q[k - 1] /\ q1[j + 1] = q[k + 1] /\ k > 1 /\ k < n
      BY <1>1, <1>2, <2>0, <2>2
    <3> QED
      BY <3>1
  <2>3. CASE j + 1 > k
    <3>1. ~(j < k) /\ ~(j + 1 < k) /\ j + 1 # k /\ j + 1 # k - 1
      BY <2>0, <2>3
    <3>2. q1[j] = q[j + 1] /\ q1[j + 1] = q[j + 1 + 1]
      BY <1>2, <2>0, <3>1
    <3>3. nodes1[q[j + 1]].next = nodes[q[j + 1]].next
      BY <2>0, <3>1
    <3> QED
      BY <1>1, <2>0, <3>2, <3>3
  <2> QED
    BY <2>0, <2>1, <2>2, <2>3
<1>9. n - 1 > 0 => first1 = q1[1]
  <2> SUFFICES ASSUME n - 1 > 0 PROVE first1 = q1[1]
    OBVIOUS
  <2>1. 1 \in 1 .. n - 1 /\ n > 1
    BY <1>1
  <2>2. CASE k = 1
    <3>1. q1[1] = q[1 + 1]
      BY <1>2, <2>1, <2>2
    <3> QED
      BY <2>1, <2>2, <3>1
  <2>3. CASE k # 1
    <3>1. q1[1] = q[1]
      BY <1>2, <2>1, <2>3
    <3> QED
      BY <2>1, <2>3, <3>1, RowFacts
  <2> QED
    BY <2>2, <2>3
<1>10. IsRow(q1, nodes1, first1, n - 1)
  <2>1. Len(q1) - 1 = n - 2 /\ nodes1 \in [CellsOf(q1) -> Node]
    BY <1>1, <1>2, <1>7
  <2> QED
    BY <1>2, <1>6, <1>8, <1>9, <2>1 DEF IsRow
<1>11. DataOf(q1, nodes1) = RemoveAt(DataOf(q, nodes), k)
  <2> DEFINE s == DataOf(q, nodes)  s1 == DataOf(q1, nodes1)  t == RemoveAt(s, k)
  <2>1. s \in Seq(Data) /\ Len(s) = n /\ \A i \in 1 .. n : s[i] = nodes[q[i]].data
    BY RowFacts
  <2>2. /\ s1 \in Seq(Data) /\ Len(s1) = n - 1
        /\ \A i \in 1 .. n - 1 : s1[i] = nodes1[q1[i]].data
    BY <1>10, RowFacts
  <2> HIDE DEF s, s1
  <2>3. /\ t \in Seq(Data) /\ Len(t) = n - 1
        /\ \A j \in 1 .. n - 1 : t[j] = IF j < k THEN s[j] ELSE s[j + 1]
    BY <2>1, RemoveAtProperties
  <2> HIDE DEF t
  <2>4. ASSUME NEW j \in 1 .. n - 1 PROVE s1[j] = t[j]
    <3>1. q1[j] \in DOMAIN nodes /\ q1[j] # q[k]
      <4>1. PICK i \in 1 .. n : i # k /\ q1[j] = q[i]
        BY <1>1, <1>3
      <4> QED
        BY <1>1, <1>5, <4>1
    <3>2. s1[j] = nodes[q1[j]].data
      BY <2>2, <3>1
    <3> QED
      BY <1>3, <2>1, <2>3, <3>2
  <2>5. s1 = t
    BY <2>2, <2>3, <2>4, SeqEqual
  <2> QED
    BY <2>5 DEF s, s1, t
<1> QED
  BY <1>10, <1>11 DEF q1

-----------------------------------------------------------------------------
(* Each function of the list, on the cells and on the items                *)

LEMMA CellLinked ==
  ASSUME NEW D, NEW f \in [D -> Node], NEW c \in D, NEW x \in Cell \union {Null}, NEW g,
         g = [f EXCEPT ![c].next = x]
  PROVE  /\ g \in [D -> Node] /\ g[c].next = x
         /\ \A a \in D : g[a].data = f[a].data /\ (a # c => g[a] = f[a])
<1>1. g = [f EXCEPT ![c] = [f[c] EXCEPT !.next = x]]
  OBVIOUS
<1>2. PICK u : u = [f[c] EXCEPT !.next = x]
  OBVIOUS
<1>3. u \in Node /\ u.next = x /\ u.data = f[c].data
  BY <1>2 DEF Node
<1>4. g = [f EXCEPT ![c] = u]
  BY <1>1, <1>2
<1> QED
  BY <1>3, <1>4

LEMMA CellAdded ==
  ASSUME NEW D, NEW nodes \in [D -> Node], NEW new \in Cell, new \notin D, NEW d \in Data,
         NEW next \in Cell \union {Null}
  PROVE  /\ With(nodes, new, d, next) \in [D \union {new} -> Node]
         /\ With(nodes, new, d, next)[new].data = d /\ With(nodes, new, d, next)[new].next = next
         /\ \A a \in D : With(nodes, new, d, next)[a] = nodes[a]
<1>1. PICK u : u = [data |-> d, next |-> next]
  OBVIOUS
<1>2. u \in Node /\ u.data = d /\ u.next = next
  BY <1>1 DEF Node
<1>3. With(nodes, new, d, next) = [c \in D \union {new} |-> IF c = new THEN u ELSE nodes[c]]
  BY <1>1 DEF With
<1> QED
  BY <1>2, <1>3

(* The same as one fact.                                                   *)
Added(D, nodes, new, d, next, f) ==
  /\ f \in [D \union {new} -> Node] /\ f[new].data = d /\ f[new].next = next
  /\ \A a \in D : f[a] = nodes[a]

LEMMA CellIsAdded ==
  ASSUME NEW D, NEW nodes \in [D -> Node], NEW new \in Cell, new \notin D, NEW d \in Data,
         NEW next \in Cell \union {Null}, NEW f, f = With(nodes, new, d, next)
  PROVE  Added(D, nodes, new, d, next, f)
  BY CellAdded DEF Added

(* A call that does not misuse the list.                                   *)
Proper == list_use' # "misused" /\ ~list_lost'

ListStep == ListInv' /\ PromisedList!Next

LEMMA UsedBefore ==
  ASSUME ListInv, list_use # "misused", list_made
  PROVE  (Closed => Intact) /\ \E q \in Seq(Cell) : IsRow(q, list_nodes, head, curr_size)
  BY DEF ListInv


LEMMA SameOnLists ==
  /\ \A s, i, x : PromisedList!InsertAt(s, i, x) = InsertAt(s, i, x)
  /\ \A s, i : PromisedList!RemoveAt(s, i) = RemoveAt(s, i)
  BY DEF PromisedList!InsertAt, PromisedList!RemoveAt, InsertAt, RemoveAt

(* The cell new, with item d, is linked in at place k of q.                *)
LinkedIn(q, nodes, n, k, new, d, nodes1) ==
  /\ nodes1 \in [DOMAIN nodes \union {new} -> Node]
  /\ nodes1[new].data = d
  /\ k <= n => nodes1[new].next = q[k]
  /\ \A c \in DOMAIN nodes : nodes1[c].data = nodes[c].data
  /\ k > 1 => nodes1[q[k - 1]].next = new
  /\ \A i \in 1 .. n - 1 : i # k - 1 => nodes1[q[i]].next = nodes[q[i]].next

(* CellPutIn as one fact.                                                  *)
RowWith(q, nodes, n, k, new, d, nodes1, first1) ==
  /\ IsRow(InsertAt(q, k, new), nodes1, first1, n + 1)
  /\ DataOf(InsertAt(q, k, new), nodes1) = InsertAt(DataOf(q, nodes), k, d)

LEMMA LinkedInRow ==
  ASSUME NEW q, NEW nodes, NEW first, NEW n, IsRow(q, nodes, first, n),
         NEW k \in 1 .. n + 1, NEW new \in Cell, new \notin DOMAIN nodes, NEW d \in Data,
         NEW nodes1, LinkedIn(q, nodes, n, k, new, d, nodes1),
         NEW first1, first1 = IF k = 1 THEN new ELSE first
  PROVE  RowWith(q, nodes, n, k, new, d, nodes1, first1)
<1>1. PICK nodes2 \in [DOMAIN nodes \union {new} -> Node] : nodes2 = nodes1
  BY DEF LinkedIn
<1>2. /\ nodes2[new].data = d
      /\ k <= n => nodes2[new].next = q[k]
      /\ \A c \in DOMAIN nodes : nodes2[c].data = nodes[c].data
      /\ k > 1 => nodes2[q[k - 1]].next = new
      /\ \A i \in 1 .. n - 1 : i # k - 1 => nodes2[q[i]].next = nodes[q[i]].next
  BY <1>1 DEF LinkedIn
<1>3. RowWith(q, nodes, n, k, new, d, nodes2, first1)
  BY <1>2, CellPutIn DEF RowWith
<1> QED
  BY <1>1, <1>3

LEMMA LinkedInInserts ==
  ASSUME Proper, Closed' => Intact', list_made, list_made', NEW q, IsRow(q, list_nodes, head, curr_size),
         NEW k \in 1 .. curr_size + 1, NEW new \in Cell, new \notin DOMAIN list_nodes,
         NEW d \in Data, LinkedIn(q, list_nodes, curr_size, k, new, d, list_nodes'),
         head' = IF k = 1 THEN new ELSE head, curr_size' = curr_size + 1,
         list_said' = Said("insert", k, d)
  PROVE  ListStep
<1>1. PICK nodes1, first1 : nodes1 = list_nodes' /\ first1 = head'
  OBVIOUS
<1>2. LinkedIn(q, list_nodes, curr_size, k, new, d, nodes1) /\ first1 = IF k = 1 THEN new ELSE head
  BY <1>1
<1> DEFINE q1 == InsertAt(q, k, new)
<1>3. /\ IsRow(q1, nodes1, first1, curr_size + 1)
      /\ DataOf(q1, nodes1) = InsertAt(DataOf(q, list_nodes), k, d)
  <2>1. RowWith(q, list_nodes, curr_size, k, new, d, nodes1, first1)
    BY <1>2, LinkedInRow, Zenon
  <2> QED
    BY <2>1 DEF RowWith
<1>4. q1 \in Seq(Cell)
  BY <1>3 DEF IsRow
<1> HIDE DEF q1
<1>5. IsRow(q1, list_nodes', head', curr_size')
  BY <1>1, <1>3
<1>6. ListInv'
  BY <1>4, <1>5 DEF ListInv, Proper
<1>7. view_list = DataOf(q, list_nodes) /\ view_list' = DataOf(q1, list_nodes')
  BY <1>5, ViewAlong, ViewAlongThen
<1>8. k \in 1 .. Len(view_list) + 1
  BY <1>7, RowFacts
<1>9. PromisedList!Insert(k, d)
  BY <1>1, <1>3, <1>7, SameOnLists DEF PromisedList!Insert, PromisedList!Said, Said
<1> QED
  BY <1>6, <1>8, <1>9 DEF ListStep, PromisedList!Next

(* The cell at place k of q is linked out.                                 *)
LinkedOut(q, nodes, n, k, nodes1) ==
  /\ nodes1 \in [DOMAIN nodes \ {q[k]} -> Node]
  /\ \A c \in DOMAIN nodes \ {q[k]} : nodes1[c].data = nodes[c].data
  /\ k > 1 /\ k < n => nodes1[q[k - 1]].next = q[k + 1]
  /\ \A i \in 1 .. n - 1 : i # k /\ i # k - 1 => nodes1[q[i]].next = nodes[q[i]].next

(* CellTakenOut as one fact.                                               *)
RowWithout(q, nodes, n, k, nodes1, first1) ==
  /\ IsRow(RemoveAt(q, k), nodes1, first1, n - 1)
  /\ DataOf(RemoveAt(q, k), nodes1) = RemoveAt(DataOf(q, nodes), k)

LEMMA LinkedOutRow ==
  ASSUME NEW q, NEW nodes, NEW first, NEW n, IsRow(q, nodes, first, n),
         NEW k \in 1 .. n, NEW nodes1, LinkedOut(q, nodes, n, k, nodes1),
         NEW first1, k = 1 /\ n > 1 => first1 = q[2], k # 1 => first1 = first
  PROVE  RowWithout(q, nodes, n, k, nodes1, first1)
<1>1. nodes1 \in [DOMAIN nodes \ {q[k]} -> Node]
  BY DEF LinkedOut
<1>2. \A c \in DOMAIN nodes \ {q[k]} : nodes1[c].data = nodes[c].data
  BY DEF LinkedOut
<1>3. k > 1 /\ k < n => nodes1[q[k - 1]].next = q[k + 1]
  BY DEF LinkedOut
<1>4. \A i \in 1 .. n - 1 : i # k /\ i # k - 1 => nodes1[q[i]].next = nodes[q[i]].next
  BY DEF LinkedOut
<1>5. /\ IsRow(RemoveAt(q, k), nodes1, first1, n - 1)
      /\ DataOf(RemoveAt(q, k), nodes1) = RemoveAt(DataOf(q, nodes), k)
  BY <1>1, <1>2, <1>3, <1>4, CellTakenOut
<1> QED
  BY <1>5 DEF RowWithout

LEMMA LinkedOutTakes ==
  ASSUME Proper, Closed' => Intact', list_made, list_made', NEW q, IsRow(q, list_nodes, head, curr_size),
         NEW k \in 1 .. curr_size, LinkedOut(q, list_nodes, curr_size, k, list_nodes'),
         k = 1 /\ curr_size > 1 => head' = q[2], k # 1 => head' = head,
         curr_size' = curr_size - 1, list_said' = Said("remove", k, list_nodes[q[k]].data)
  PROVE  ListStep
<1>1. PICK nodes1, first1 : nodes1 = list_nodes' /\ first1 = head'
  OBVIOUS
<1>2. /\ LinkedOut(q, list_nodes, curr_size, k, nodes1)
      /\ k = 1 /\ curr_size > 1 => first1 = q[2]
      /\ k # 1 => first1 = head
  BY <1>1
<1> DEFINE q1 == RemoveAt(q, k)
<1>3. /\ IsRow(q1, nodes1, first1, curr_size - 1)
      /\ DataOf(q1, nodes1) = RemoveAt(DataOf(q, list_nodes), k)
  <2>1. RowWithout(q, list_nodes, curr_size, k, nodes1, first1)
    BY <1>2, LinkedOutRow, Zenon
  <2> QED
    BY <2>1 DEF RowWithout
<1>4. q1 \in Seq(Cell)
  BY <1>3 DEF IsRow
<1> HIDE DEF q1
<1>5. IsRow(q1, list_nodes', head', curr_size')
  BY <1>1, <1>3
<1>6. ListInv'
  BY <1>4, <1>5 DEF ListInv, Proper
<1>7. view_list = DataOf(q, list_nodes) /\ view_list' = DataOf(q1, list_nodes')
  BY <1>5, ViewAlong, ViewAlongThen
<1>8. k \in DOMAIN view_list /\ view_list[k] = list_nodes[q[k]].data
  BY <1>7, RowFacts DEF DataOf
<1>9. PromisedList!Take(k)
  BY <1>1, <1>3, <1>7, <1>8, SameOnLists DEF PromisedList!Take, PromisedList!Said, Said
<1> QED
  BY <1>6, <1>8, <1>9 DEF ListStep, PromisedList!Next

LEMMA InsertsInFront ==
  ASSUME ListInv, Proper, NEW d \in Data, insert_front(d)
  PROVE  ListStep
<1>0. /\ \E q \in Seq(Cell) : IsRow(q, list_nodes, head, curr_size)
      /\ Closed /\ (Closed => Intact)
  <2>1. list_made /\ list_use # "misused" /\ Closed
    BY DEF insert_front, Uses, Proper, Closed
  <2> QED
    BY <2>1, UsedBefore
<1>1. PICK q : IsRow(q, list_nodes, head, curr_size)
  BY <1>0
<1>2. PICK new : new = New(list_nodes)
  OBVIOUS
<1>3. new \in Cell /\ new \notin DOMAIN list_nodes
  BY <1>2, NewIsUnused DEF insert_front
<1>4. /\ list_made /\ list_made' /\ head' = new /\ curr_size' = curr_size + 1
      /\ list_said' = Said("insert", 1, d) /\ Intact
  BY <1>0, <1>2 DEF insert_front
<1>5. /\ curr_size = Len(q) /\ curr_size \in Nat /\ Distinct(q)
      /\ list_nodes \in [DOMAIN list_nodes -> Node]
      /\ \A i \in 1 .. curr_size : q[i] \in Cell /\ q[i] \in DOMAIN list_nodes
  <2>1. list_nodes \in [DOMAIN list_nodes -> Node]
    BY <1>1 DEF IsRow
  <2> QED
    BY <1>1, <2>1, RowFacts
<1>6. PICK k \in 1 .. curr_size + 1 : k = 1
  BY <1>5
<1>7. LinkedIn(q, list_nodes, curr_size, k, new, d, list_nodes') /\ Intact'
  <2>1. CASE head = Null
    <3>1. curr_size = 0 /\ list_nodes' = With(list_nodes, new, d, new)
      BY <1>1, <1>2, <1>4, <2>1, IntactClosed DEF insert_front
    <3>2. /\ list_nodes' \in [DOMAIN list_nodes \union {new} -> Node] /\ list_nodes'[new].data = d
          /\ \A a \in DOMAIN list_nodes : list_nodes'[a] = list_nodes[a]
      <4>1. PICK next \in Cell \union {Null} : next = new
        BY <1>3
      <4>2. list_nodes \in [DOMAIN list_nodes -> Node]
        BY <1>5
      <4>3. PICK f : f = With(list_nodes, new, d, next)
        OBVIOUS
      <4>4. Added(DOMAIN list_nodes, list_nodes, new, d, next, f)
        BY <1>3, <4>2, <4>3, CellIsAdded
      <4> QED
        BY <3>1, <4>1, <4>3, <4>4 DEF Added
    <3>3. new \in DOMAIN list_nodes' /\ list_nodes'[new].next = new /\ last' = new
      BY <1>2, <1>3, <2>1, <3>1 DEF With, insert_front
    <3>4. Intact'
      BY <1>4, <1>5, <3>1, <3>3 DEF Intact
    <3> QED
      BY <1>3, <1>6, <3>1, <3>2, <3>4 DEF LinkedIn
  <2>2. CASE head # Null
    <3>1. /\ curr_size > 0 /\ last = q[curr_size] /\ head = q[1]
          /\ list_nodes' = [With(list_nodes, new, d, head) EXCEPT ![last].next = new]
      <4>1. curr_size > 0 /\ last = q[curr_size]
        BY <1>1, <1>4, <1>5, <2>2, IntactClosed
      <4>2. head = q[1]
        BY <1>1, <4>1, RowFacts
      <4> QED
        BY <1>2, <2>2, <4>1, <4>2 DEF insert_front
    <3>2. last \in DOMAIN list_nodes /\ head \in Cell /\ last # new
      BY <1>3, <1>5, <3>1
    <3>3. PICK f : f = With(list_nodes, new, d, head)
      OBVIOUS
    <3>4. /\ f \in [DOMAIN list_nodes \union {new} -> Node] /\ f[new].data = d /\ f[new].next = head
          /\ \A a \in DOMAIN list_nodes : f[a] = list_nodes[a]
      <4>1. PICK next \in Cell \union {Null} : next = head
        BY <3>2
      <4>2. list_nodes \in [DOMAIN list_nodes -> Node] /\ f = With(list_nodes, new, d, next)
        BY <1>5, <3>3, <4>1
      <4>3. Added(DOMAIN list_nodes, list_nodes, new, d, next, f)
        BY <1>3, <4>2, CellIsAdded
      <4> QED
        BY <4>1, <4>3 DEF Added
    <3>5. /\ list_nodes' \in [DOMAIN list_nodes \union {new} -> Node]
          /\ list_nodes'[last].next = new
          /\ \A a \in DOMAIN list_nodes \union {new} :
               list_nodes'[a].data = f[a].data /\ (a # last => list_nodes'[a] = f[a])
      <4>1. list_nodes' = [f EXCEPT ![last].next = new]
        BY <3>1, <3>3
      <4> QED
        BY <1>3, <3>2, <3>4, <4>1, CellLinked
    <3>6. ASSUME NEW i \in 1 .. curr_size - 1
          PROVE  list_nodes'[q[i]].next = list_nodes[q[i]].next
      <4>1. i \in 1 .. curr_size /\ i # curr_size /\ curr_size \in 1 .. curr_size
        BY <1>5, <3>1
      <4>2. q[i] # last /\ q[i] \in DOMAIN list_nodes
        BY <1>5, <3>1, <4>1 DEF Distinct
      <4> QED
        BY <3>4, <3>5, <4>2
    <3>7. list_nodes'[new].next = q[1] /\ list_nodes'[new].data = d
      BY <3>1, <3>2, <3>4, <3>5
    <3>8. \A c \in DOMAIN list_nodes : list_nodes'[c].data = list_nodes[c].data
      BY <3>4, <3>5
    <3>9. Intact'
      <4>1. last' = last /\ last \in DOMAIN list_nodes'
        BY <2>2, <3>2, <3>5 DEF insert_front
      <4>2. curr_size' > 0
        BY <1>4, <1>5
      <4> QED
        BY <1>4, <3>5, <4>1, <4>2 DEF Intact
    <3> QED
      BY <1>6, <3>5, <3>6, <3>7, <3>8, <3>9 DEF LinkedIn
  <2> QED
    BY <2>1, <2>2
<1> QED
  BY <1>1, <1>3, <1>4, <1>6, <1>7, LinkedInInserts

LEMMA InsertsBehind ==
  ASSUME ListInv, Proper, NEW d \in Data, insert_back(d)
  PROVE  ListStep
<1>0. /\ \E q \in Seq(Cell) : IsRow(q, list_nodes, head, curr_size)
      /\ Closed /\ (Closed => Intact)
  <2>1. list_made /\ list_use # "misused" /\ Closed
    BY DEF insert_back, Uses, Proper, Closed
  <2> QED
    BY <2>1, UsedBefore
<1>1. PICK q : IsRow(q, list_nodes, head, curr_size)
  BY <1>0
<1>2. PICK new : new = New(list_nodes)
  OBVIOUS
<1>3. new \in Cell /\ new \notin DOMAIN list_nodes
  BY <1>2, NewIsUnused DEF insert_back
<1>4. /\ list_made /\ list_made' /\ curr_size' = curr_size + 1
      /\ list_said' = Said("insert", curr_size + 1, d) /\ Intact
  BY <1>0, <1>2 DEF insert_back
<1>5. /\ curr_size = Len(q) /\ curr_size \in Nat /\ Distinct(q)
      /\ list_nodes \in [DOMAIN list_nodes -> Node]
      /\ \A i \in 1 .. curr_size : q[i] \in Cell /\ q[i] \in DOMAIN list_nodes
  <2>1. list_nodes \in [DOMAIN list_nodes -> Node]
    BY <1>1 DEF IsRow
  <2> QED
    BY <1>1, <2>1, RowFacts
<1>6. PICK k \in 1 .. curr_size + 1 : k = curr_size + 1
  BY <1>5
<1>7. /\ LinkedIn(q, list_nodes, curr_size, k, new, d, list_nodes') /\ Intact'
      /\ head' = IF k = 1 THEN new ELSE head
  <2>1. CASE head = Null
    <3>1. curr_size = 0 /\ list_nodes' = With(list_nodes, new, d, new) /\ head' = new
      BY <1>1, <1>2, <1>4, <2>1, IntactClosed DEF insert_back
    <3>2. /\ list_nodes' \in [DOMAIN list_nodes \union {new} -> Node] /\ list_nodes'[new].data = d
          /\ \A a \in DOMAIN list_nodes : list_nodes'[a] = list_nodes[a]
      <4>1. PICK next \in Cell \union {Null} : next = new
        BY <1>3
      <4>2. list_nodes \in [DOMAIN list_nodes -> Node]
        BY <1>5
      <4>3. PICK f : f = With(list_nodes, new, d, next)
        OBVIOUS
      <4>4. Added(DOMAIN list_nodes, list_nodes, new, d, next, f)
        BY <1>3, <4>2, <4>3, CellIsAdded
      <4> QED
        BY <3>1, <4>1, <4>3, <4>4 DEF Added
    <3>3. new \in DOMAIN list_nodes' /\ list_nodes'[new].next = new /\ last' = new
      BY <1>2, <1>3, <2>1, <3>1 DEF With, insert_back
    <3>4. Intact'
      BY <1>4, <1>5, <3>1, <3>3 DEF Intact
    <3> QED
      BY <1>3, <1>6, <3>1, <3>2, <3>4 DEF LinkedIn
  <2>2. CASE head # Null
    <3>1. /\ curr_size > 0 /\ last = q[curr_size] /\ head = q[1] /\ head' = head
          /\ list_nodes' = [With(list_nodes, new, d, head) EXCEPT ![last].next = new]
      <4>1. curr_size > 0 /\ last = q[curr_size]
        BY <1>1, <1>4, <1>5, <2>2, IntactClosed
      <4>2. head = q[1]
        BY <1>1, <4>1, RowFacts
      <4> QED
        BY <1>2, <2>2, <4>1, <4>2 DEF insert_back
    <3>2. last \in DOMAIN list_nodes /\ head \in Cell /\ last # new
      BY <1>3, <1>5, <3>1
    <3>3. PICK f : f = With(list_nodes, new, d, head)
      OBVIOUS
    <3>4. /\ f \in [DOMAIN list_nodes \union {new} -> Node] /\ f[new].data = d /\ f[new].next = head
          /\ \A a \in DOMAIN list_nodes : f[a] = list_nodes[a]
      <4>1. PICK next \in Cell \union {Null} : next = head
        BY <3>2
      <4>2. list_nodes \in [DOMAIN list_nodes -> Node] /\ f = With(list_nodes, new, d, next)
        BY <1>5, <3>3, <4>1
      <4>3. Added(DOMAIN list_nodes, list_nodes, new, d, next, f)
        BY <1>3, <4>2, CellIsAdded
      <4> QED
        BY <4>1, <4>3 DEF Added
    <3>5. /\ list_nodes' \in [DOMAIN list_nodes \union {new} -> Node]
          /\ list_nodes'[last].next = new
          /\ \A a \in DOMAIN list_nodes \union {new} :
               list_nodes'[a].data = f[a].data /\ (a # last => list_nodes'[a] = f[a])
      <4>1. list_nodes' = [f EXCEPT ![last].next = new]
        BY <3>1, <3>3
      <4> QED
        BY <1>3, <3>2, <3>4, <4>1, CellLinked
    <3>6. ASSUME NEW i \in 1 .. curr_size - 1
          PROVE  list_nodes'[q[i]].next = list_nodes[q[i]].next
      <4>1. i \in 1 .. curr_size /\ i # curr_size /\ curr_size \in 1 .. curr_size
        BY <1>5, <3>1
      <4>2. q[i] # last /\ q[i] \in DOMAIN list_nodes
        BY <1>5, <3>1, <4>1 DEF Distinct
      <4> QED
        BY <3>4, <3>5, <4>2
    <3>7. list_nodes'[new].data = d
      BY <3>2, <3>4, <3>5
    <3>8. \A c \in DOMAIN list_nodes : list_nodes'[c].data = list_nodes[c].data
      BY <3>4, <3>5
    <3>9. ~(k <= curr_size) /\ k - 1 = curr_size /\ k # 1
      BY <1>5, <1>6, <3>1
    <3>10. Intact'
      <4>1. last' = new /\ new \in DOMAIN list_nodes' /\ list_nodes'[new].next = head
        BY <1>2, <2>2, <3>2, <3>4, <3>5 DEF insert_back
      <4>2. curr_size' > 0
        BY <1>4, <1>5
      <4> QED
        BY <3>1, <4>1, <4>2 DEF Intact
    <3> QED
      BY <3>1, <3>5, <3>6, <3>7, <3>8, <3>9, <3>10 DEF LinkedIn
  <2> QED
    BY <2>1, <2>2
<1> QED
  BY <1>1, <1>3, <1>4, <1>6, <1>7, LinkedInInserts

LEMMA InsertsAt ==
  ASSUME ListInv, Proper, NEW d \in Data, NEW index \in Nat, insert_at(d, index)
  PROVE  ListStep
<1>0. /\ \E q \in Seq(Cell) : IsRow(q, list_nodes, head, curr_size)
      /\ index <= curr_size /\ (Closed' => Closed /\ index # curr_size) /\ (Closed => Intact)
  <2>1. list_made /\ list_use # "misused" /\ index <= curr_size /\ (Closed' => Closed /\ index # curr_size)
    BY DEF insert_at, Uses, Proper, Closed
  <2> QED
    BY <2>1, UsedBefore
<1>1. PICK q : IsRow(q, list_nodes, head, curr_size)
  BY <1>0
<1>2. PICK new : new = New(list_nodes)
  OBVIOUS
<1>3. new \in Cell /\ new \notin DOMAIN list_nodes
  BY <1>2, NewIsUnused DEF insert_at
<1>4. /\ list_made /\ list_made' /\ curr_size' = curr_size + 1 /\ head' = head
      /\ list_said' = Said("insert", index + 1, d)
  BY <1>2 DEF insert_at
<1>5. /\ curr_size = Len(q) /\ curr_size \in Nat /\ Distinct(q)
      /\ list_nodes \in [DOMAIN list_nodes -> Node]
      /\ \A i \in 1 .. curr_size : q[i] \in Cell /\ q[i] \in DOMAIN list_nodes
      /\ \A i \in 1 .. curr_size - 1 : list_nodes[q[i]].next = q[i + 1]
  <2>1. list_nodes \in [DOMAIN list_nodes -> Node]
    BY <1>1 DEF IsRow
  <2> QED
    BY <1>1, <2>1, RowFacts
<1>51. index \in 1 .. curr_size
  BY <1>0, <1>5 DEF insert_at
<1>6. PICK k \in 1 .. curr_size + 1 : k = index + 1
  BY <1>5, <1>51
<1>7. LinkedIn(q, list_nodes, curr_size, k, new, d, list_nodes') /\ (Closed' => Intact')
  <2>1. PICK before, next : before = q[index] /\ next = list_nodes[before].next
    OBVIOUS
  <2>2. before \in DOMAIN list_nodes /\ next \in Cell \union {Null}
    <3>1. list_nodes[before] \in Node
      BY <1>51, <1>4, <1>5, <2>1
    <3> QED
      BY <1>51, <1>4, <1>5, <2>1, <3>1 DEF Node
  <2>3. PICK f : f = With(list_nodes, new, d, next)
    OBVIOUS
  <2>4. /\ f \in [DOMAIN list_nodes \union {new} -> Node] /\ f[new].data = d /\ f[new].next = next
        /\ \A a \in DOMAIN list_nodes : f[a] = list_nodes[a]
    <3>1. list_nodes \in [DOMAIN list_nodes -> Node]
      BY <1>5
    <3>2. Added(DOMAIN list_nodes, list_nodes, new, d, next, f)
      BY <1>3, <2>2, <2>3, <3>1, CellIsAdded
    <3> QED
      BY <3>2 DEF Added
  <2>5. list_nodes' = [f EXCEPT ![before].next = new]
    <3>1. Ahead[index - 1] = before
      BY <1>51, <1>1, <1>4, <2>1, AheadAlong
    <3> QED
      BY <1>2, <2>1, <2>3, <3>1 DEF insert_at
  <2>6. /\ list_nodes' \in [DOMAIN list_nodes \union {new} -> Node]
        /\ list_nodes'[before].next = new
        /\ \A a \in DOMAIN list_nodes \union {new} :
             list_nodes'[a].data = f[a].data /\ (a # before => list_nodes'[a] = f[a])
    BY <1>3, <2>2, <2>4, <2>5, CellLinked
  <2>7. ASSUME NEW i \in 1 .. curr_size - 1, i # k - 1
        PROVE  list_nodes'[q[i]].next = list_nodes[q[i]].next
    <3>1. i \in 1 .. curr_size /\ i # index /\ index \in 1 .. Len(q) /\ i \in 1 .. Len(q)
      BY <1>51, <1>4, <1>5, <1>6, <2>7
    <3>2. q[i] # before /\ q[i] \in DOMAIN list_nodes
      BY <1>5, <2>1, <3>1 DEF Distinct
    <3> QED
      BY <2>4, <2>6, <3>2
  <2>8. list_nodes'[new].data = d /\ list_nodes'[new].next = next
    <3>1. new # before
      BY <1>3, <2>2
    <3> QED
      BY <2>4, <2>6, <3>1
  <2>9. k <= curr_size => next = q[k]
    <3> SUFFICES ASSUME k <= curr_size PROVE next = q[k]
      OBVIOUS
    <3>1. index \in 1 .. curr_size - 1
      BY <1>51, <1>4, <1>5, <1>6
    <3> QED
      BY <1>5, <1>6, <2>1, <3>1
  <2>10. \A c \in DOMAIN list_nodes : list_nodes'[c].data = list_nodes[c].data
    BY <2>4, <2>6
  <2>11. q[k - 1] = before
    BY <1>4, <1>6, <2>1
  <2>12. ASSUME Closed' PROVE Intact'
    <3>1. /\ curr_size > 0 /\ index # curr_size /\ curr_size \in 1 .. curr_size
          /\ last = q[curr_size] /\ list_nodes[last].next = q[1] /\ head = q[1]
      <4>1. curr_size > 0 /\ Intact /\ index # curr_size
        BY <1>0, <1>5, <1>51, <2>12
      <4> QED
        BY <1>1, <1>5, <4>1, IntactClosed, RowFacts
    <3>2. last # before /\ last \in DOMAIN list_nodes
      BY <1>5, <1>51, <2>1, <3>1 DEF Distinct
    <3>3. list_nodes'[last] = list_nodes[last] /\ last \in DOMAIN list_nodes'
      BY <2>4, <2>6, <3>2
    <3>4. last' = last /\ head' = head /\ curr_size' > 0
      BY <1>4, <1>5 DEF insert_at
    <3> QED
      BY <3>1, <3>3, <3>4 DEF Intact
  <2> QED
    BY <2>6, <2>7, <2>8, <2>9, <2>10, <2>11, <2>12 DEF LinkedIn
<1>8. k # 1
  BY <1>51, <1>4, <1>6
<1> QED
  BY <1>1, <1>3, <1>4, <1>6, <1>7, <1>8, LinkedInInserts

LEMMA RemovesFront ==
  ASSUME ListInv, Proper, remove_front
  PROVE  ListStep
<1>0. /\ \E q \in Seq(Cell) : IsRow(q, list_nodes, head, curr_size)
      /\ Closed /\ (Closed' => Closed /\ curr_size # 1) /\ (Closed => Intact)
  <2>1. list_made /\ list_use # "misused" /\ Closed /\ (Closed' => Closed /\ curr_size # 1)
    BY DEF remove_front, Uses, Proper, Closed
  <2> QED
    BY <2>1, UsedBefore
<1>1. PICK q : IsRow(q, list_nodes, head, curr_size)
  BY <1>0
<1>2. /\ list_made /\ list_made' /\ curr_size' = curr_size - 1 /\ Intact
      /\ head \in DOMAIN list_nodes /\ last' = last
      /\ head' = list_nodes[head].next /\ list_said' = Said("remove", 1, list_nodes[head].data)
      /\ list_nodes' = Without([list_nodes EXCEPT ![last].next = list_nodes[head].next], {head})
  BY <1>0 DEF remove_front, Allocated
<1>3. /\ curr_size = Len(q) /\ curr_size \in Nat /\ Distinct(q)
      /\ \A i \in 1 .. curr_size : /\ q[i] \in Cell /\ list_nodes[q[i]] \in Node
                                   /\ q[i] \in DOMAIN list_nodes
      /\ \A i \in 1 .. curr_size - 1 : list_nodes[q[i]].next = q[i + 1]
      /\ curr_size > 0 => head = q[1]
  BY <1>1, RowFacts
<1>31. curr_size # 0
  <2>1. head \in CellsOf(q)
    BY <1>1, <1>2, RowFacts
  <2> QED
    BY <1>3, <2>1 DEF CellsOf
<1>4. head = q[1] /\ last = q[curr_size] /\ 1 \in 1 .. curr_size /\ curr_size \in 1 .. curr_size
  BY <1>1, <1>2, <1>3, <1>31, IntactClosed
<1>5. PICK k \in 1 .. curr_size : k = 1
  BY <1>4
<1>6. PICK next : next = list_nodes[head].next
  OBVIOUS
<1>7. next \in Cell \union {Null}
  BY <1>3, <1>4, <1>6 DEF Node
<1>8. PICK D : D = DOMAIN list_nodes
  OBVIOUS
<1>9. list_nodes \in [D -> Node] /\ last \in D /\ \A i \in 1 .. curr_size : q[i] \in D
  BY <1>1, <1>3, <1>4, <1>8 DEF IsRow
<1>10. PICK f : f = [list_nodes EXCEPT ![last].next = next]
  OBVIOUS
<1>11. /\ f \in [D -> Node] /\ f[last].next = next
       /\ \A a \in D : f[a].data = list_nodes[a].data /\ (a # last => f[a] = list_nodes[a])
  BY <1>7, <1>9, <1>10, CellLinked
<1>12. /\ list_nodes' \in [D \ {head} -> Node]
       /\ \A a \in D \ {head} : list_nodes'[a] = f[a]
  <2>1. PICK X : X = {head}
    OBVIOUS
  <2>2. f \in [D -> Node]
    BY <1>11
  <2>3. Without(f, X) \in [D \ X -> Node] /\ \A a \in D \ X : Without(f, X)[a] = f[a]
    BY <2>2 DEF Without
  <2>4. list_nodes' = Without(f, X)
    BY <1>2, <1>6, <1>10, <2>1
  <2> QED
    BY <2>1, <2>3, <2>4
<1>13. ASSUME NEW i \in 1 .. curr_size - 1, i # 1
       PROVE  list_nodes'[q[i]].next = list_nodes[q[i]].next
  <2>1. i \in 1 .. curr_size /\ i # curr_size
    BY <1>3
  <2>2. q[i] \in D /\ q[i] # last /\ q[i] # head
    BY <1>3, <1>4, <1>9, <1>13, <2>1 DEF Distinct
  <2> QED
    BY <1>11, <1>12, <2>2
<1>14. LinkedOut(q, list_nodes, curr_size, k, list_nodes')
  <2>1. /\ list_nodes' \in [DOMAIN list_nodes \ {q[k]} -> Node]
        /\ \A c \in DOMAIN list_nodes \ {q[k]} : list_nodes'[c].data = list_nodes[c].data
    BY <1>4, <1>5, <1>8, <1>11, <1>12
  <2>2. ~(k > 1)
    BY <1>5
  <2> QED
    BY <1>5, <1>13, <2>1, <2>2 DEF LinkedOut
<1>15. k = 1 /\ curr_size > 1 => head' = q[2]
  <2> SUFFICES ASSUME curr_size > 1 PROVE head' = q[2]
    OBVIOUS
  <2>1. 1 \in 1 .. curr_size - 1
    BY <1>3
  <2>2. list_nodes[q[1]].next = q[1 + 1]
    BY <1>3, <2>1
  <2> QED
    BY <1>2, <1>4, <2>2
<1>16. list_said' = Said("remove", k, list_nodes[q[k]].data)
  BY <1>2, <1>4, <1>5
<1>17. ASSUME Closed' PROVE Intact'
  <2>1. curr_size # 1
    BY <1>0, <1>17
  <2>2. last # head
    BY <1>3, <1>4, <2>1 DEF Distinct
  <2>3. last \in DOMAIN list_nodes' /\ list_nodes'[last].next = head'
    BY <1>2, <1>6, <1>9, <1>11, <1>12, <2>2
  <2>4. curr_size' > 0
    BY <1>2, <1>3, <1>31, <2>1
  <2> QED
    BY <1>2, <2>3, <2>4 DEF Intact
<1> QED
  BY <1>1, <1>2, <1>5, <1>14, <1>15, <1>16, <1>17, LinkedOutTakes

LEMMA RemovesBack ==
  ASSUME ListInv, Proper, remove_back
  PROVE  ListStep
<1>0. /\ \E q \in Seq(Cell) : IsRow(q, list_nodes, head, curr_size)
      /\ Closed /\ ~Closed' /\ (Closed => Intact)
  <2>1. list_made /\ list_use # "misused" /\ Closed /\ ~Closed'
    BY DEF remove_back, Uses, Proper, Closed
  <2> QED
    BY <2>1, UsedBefore
<1>1. PICK q : IsRow(q, list_nodes, head, curr_size)
  BY <1>0
<1>2. /\ list_made /\ list_made' /\ curr_size # 0 /\ curr_size' = curr_size - 1 /\ Intact
      /\ head' = head /\ list_said' = Said("remove", curr_size, list_nodes[last].data)
      /\ last' = Ahead[curr_size - 1]
      /\ list_nodes' = Without([list_nodes EXCEPT ![last'].next = head], {last})
  BY <1>0 DEF remove_back
<1>3. /\ curr_size = Len(q) /\ curr_size \in Nat /\ Distinct(q)
      /\ \A i \in 1 .. curr_size : q[i] \in Cell /\ q[i] \in DOMAIN list_nodes
      /\ curr_size > 0 => head = q[1]
  BY <1>1, RowFacts
<1>4. head = q[1] /\ last = q[curr_size] /\ 1 \in 1 .. curr_size /\ curr_size \in 1 .. curr_size
  BY <1>1, <1>2, <1>3, IntactClosed
<1>5. PICK k \in 1 .. curr_size : k = curr_size
  BY <1>4
<1>6. last' = last
  BY <1>1, <1>2, <1>4, AheadAlong
<1>7. head \in Cell \union {Null}
  BY <1>3, <1>4
<1>8. PICK D : D = DOMAIN list_nodes
  OBVIOUS
<1>9. list_nodes \in [D -> Node] /\ last \in D /\ \A i \in 1 .. curr_size : q[i] \in D
  BY <1>1, <1>3, <1>4, <1>8 DEF IsRow
<1>10. PICK f : f = [list_nodes EXCEPT ![last].next = head]
  OBVIOUS
<1>11. /\ f \in [D -> Node]
       /\ \A a \in D : f[a].data = list_nodes[a].data /\ (a # last => f[a] = list_nodes[a])
  BY <1>7, <1>9, <1>10, CellLinked
<1>12. /\ list_nodes' \in [D \ {last} -> Node]
       /\ \A a \in D \ {last} : list_nodes'[a] = f[a]
  <2>1. PICK X : X = {last}
    OBVIOUS
  <2>2. f \in [D -> Node]
    BY <1>11
  <2>3. Without(f, X) \in [D \ X -> Node] /\ \A a \in D \ X : Without(f, X)[a] = f[a]
    BY <2>2 DEF Without
  <2>4. list_nodes' = Without(f, X)
    BY <1>2, <1>6, <1>10, <2>1
  <2> QED
    BY <2>1, <2>3, <2>4
<1>13. ASSUME NEW i \in 1 .. curr_size - 1
       PROVE  list_nodes'[q[i]].next = list_nodes[q[i]].next
  <2>1. i \in 1 .. curr_size /\ i # curr_size
    BY <1>3
  <2>2. q[i] \in D /\ q[i] # last
    BY <1>3, <1>4, <1>9, <2>1 DEF Distinct
  <2> QED
    BY <1>11, <1>12, <2>2
<1>14. LinkedOut(q, list_nodes, curr_size, k, list_nodes')
  <2>1. /\ list_nodes' \in [DOMAIN list_nodes \ {q[k]} -> Node]
        /\ \A c \in DOMAIN list_nodes \ {q[k]} : list_nodes'[c].data = list_nodes[c].data
    BY <1>4, <1>5, <1>8, <1>11, <1>12
  <2>2. ~(k < curr_size)
    BY <1>3, <1>5
  <2> QED
    BY <1>13, <2>1, <2>2 DEF LinkedOut
<1>15. k = 1 /\ curr_size > 1 => head' = q[2]
  BY <1>3, <1>5
<1>16. list_said' = Said("remove", k, list_nodes[q[k]].data)
  BY <1>2, <1>4, <1>5
<1> QED
  BY <1>0, <1>1, <1>2, <1>5, <1>14, <1>15, <1>16, LinkedOutTakes

LEMMA RemovesAt ==
  ASSUME ListInv, Proper, NEW index \in Nat, remove_at(index)
  PROVE  ListStep
<1>0. /\ \E q \in Seq(Cell) : IsRow(q, list_nodes, head, curr_size)
      /\ index < curr_size /\ (Closed' => Closed /\ index # curr_size - 1) /\ (Closed => Intact)
  <2>1. list_made /\ list_use # "misused" /\ index < curr_size /\ (Closed' => Closed /\ index # curr_size - 1)
    BY DEF remove_at, Uses, Proper, Closed
  <2> QED
    BY <2>1, UsedBefore
<1>1. PICK q : IsRow(q, list_nodes, head, curr_size)
  BY <1>0
<1>2. /\ list_made /\ list_made' /\ index \in 1 .. curr_size - 1 /\ curr_size' = curr_size - 1
      /\ head' = head /\ last' = last
  <2>1. curr_size \in Nat
    BY <1>1, RowFacts
  <2> QED
    BY <1>0, <2>1 DEF remove_at
<1>3. /\ curr_size = Len(q) /\ curr_size \in Nat /\ Distinct(q)
      /\ \A i \in 1 .. curr_size : /\ q[i] \in Cell /\ list_nodes[q[i]] \in Node
                                   /\ q[i] \in DOMAIN list_nodes
      /\ \A i \in 1 .. curr_size - 1 : list_nodes[q[i]].next = q[i + 1]
  BY <1>1, RowFacts
<1>4. PICK k \in 1 .. curr_size : k = index + 1
  BY <1>2, <1>3
<1>5. PICK before, gone, next : before = q[index] /\ gone = q[k] /\ next = list_nodes[gone].next
  OBVIOUS
<1>6. index \in 1 .. curr_size /\ list_nodes[before].next = gone
  BY <1>2, <1>3, <1>4, <1>5
<1>7. next \in Cell \union {Null} /\ before # gone
  <2>1. list_nodes[gone] \in Node
    BY <1>3, <1>5
  <2>2. before # gone
    BY <1>3, <1>4, <1>5, <1>6 DEF Distinct
  <2> QED
    BY <1>5, <2>1, <2>2 DEF Node
<1>8. PICK D : D = DOMAIN list_nodes
  OBVIOUS
<1>9. list_nodes \in [D -> Node] /\ before \in D \ {gone} /\ \A i \in 1 .. curr_size : q[i] \in D
  BY <1>1, <1>3, <1>5, <1>6, <1>7, <1>8 DEF IsRow
<1>10. PICK f : f = [list_nodes EXCEPT ![before].next = next]
  OBVIOUS
<1>11. /\ f \in [D -> Node] /\ f[before].next = next
       /\ \A a \in D : f[a].data = list_nodes[a].data /\ (a # before => f[a] = list_nodes[a])
  BY <1>7, <1>9, <1>10, CellLinked
<1>12. /\ list_nodes' = Without(f, {gone})
       /\ list_said' = Said("remove", k, list_nodes[gone].data)
  <2>1. Ahead[index - 1] = before /\ Ahead[index] = gone
    <3>1. k - 1 = index /\ index \in 1 .. curr_size
      BY <1>4, <1>6
    <3> QED
      BY <1>1, <1>5, <3>1, AheadAlong
  <2> QED
    BY <1>4, <1>5, <1>10, <2>1 DEF remove_at
<1>13. /\ list_nodes' \in [D \ {gone} -> Node] /\ list_nodes'[before].next = next
       /\ \A a \in D \ {gone} : list_nodes'[a] = f[a]
  <2>1. PICK X : X = {gone}
    OBVIOUS
  <2>2. f \in [D -> Node]
    BY <1>11
  <2>3. Without(f, X) \in [D \ X -> Node] /\ \A a \in D \ X : Without(f, X)[a] = f[a]
    BY <2>2 DEF Without
  <2> QED
    BY <1>9, <1>11, <1>12, <2>1, <2>3
<1>14. ASSUME NEW i \in 1 .. curr_size - 1, i # k, i # k - 1
       PROVE  list_nodes'[q[i]].next = list_nodes[q[i]].next
  <2>1. i \in 1 .. curr_size /\ i # index
    BY <1>2, <1>3, <1>4, <1>14
  <2>2. q[i] \in D /\ q[i] # gone /\ q[i] # before
    BY <1>3, <1>5, <1>6, <1>9, <1>14, <2>1 DEF Distinct
  <2> QED
    BY <1>11, <1>13, <2>2
<1>15. k > 1 /\ k < curr_size => list_nodes'[q[k - 1]].next = q[k + 1]
  <2> SUFFICES ASSUME k < curr_size PROVE list_nodes'[q[k - 1]].next = q[k + 1]
    OBVIOUS
  <2>1. k \in 1 .. curr_size - 1 /\ k - 1 = index
    BY <1>2, <1>3, <1>4
  <2>2. next = q[k + 1]
    BY <1>3, <1>5, <2>1
  <2> QED
    BY <1>5, <1>13, <2>1, <2>2
<1>16. LinkedOut(q, list_nodes, curr_size, k, list_nodes')
  <2>1. /\ list_nodes' \in [DOMAIN list_nodes \ {q[k]} -> Node]
        /\ \A c \in DOMAIN list_nodes \ {q[k]} : list_nodes'[c].data = list_nodes[c].data
    BY <1>5, <1>8, <1>11, <1>13
  <2> QED
    BY <1>14, <1>15, <2>1 DEF LinkedOut
<1>17. k # 1
  BY <1>2, <1>4
<1>18. ASSUME Closed' PROVE Intact'
  <2>1. /\ curr_size > 0 /\ index # curr_size - 1 /\ curr_size \in 1 .. curr_size
        /\ last = q[curr_size] /\ list_nodes[last].next = q[1] /\ head = q[1]
    <3>1. curr_size > 0 /\ Intact /\ index # curr_size - 1
      BY <1>0, <1>2, <1>3, <1>18
    <3> QED
      BY <1>1, <1>3, <3>1, IntactClosed, RowFacts
  <2>2. last # before /\ last # gone /\ last \in D
    BY <1>2, <1>3, <1>4, <1>5, <1>6, <1>9, <2>1 DEF Distinct
  <2>3. list_nodes'[last] = list_nodes[last] /\ last \in DOMAIN list_nodes'
    BY <1>11, <1>13, <2>2
  <2>4. curr_size' > 0
    BY <1>2, <1>3, <2>1
  <2> QED
    BY <1>2, <2>1, <2>3, <2>4 DEF Intact
<1> QED
  BY <1>1, <1>2, <1>4, <1>5, <1>12, <1>16, <1>17, <1>18, LinkedOutTakes

(* What changes neither cells nor head leaves the items.                   *)
LEMMA ViewStays ==
  ASSUME ListInv, Proper, list_use # "misused", Closed' => Closed,
         UNCHANGED <<list_nodes, head, last, curr_size, list_made>>
  PROVE  ListInv' /\ view_list' = view_list
<1>1. ListInv'
  BY DEF ListInv, Proper, Intact
<1>2. CASE list_made
  <2>1. PICK q : IsRow(q, list_nodes, head, curr_size)
    BY <1>2 DEF ListInv
  <2>2. IsRow(q, list_nodes', head', curr_size') /\ list_nodes' = list_nodes /\ list_made'
    BY <1>2, <2>1
  <2> QED
    BY <1>1, <1>2, <2>1, <2>2, ViewAlong, ViewAlongThen
<1>3. CASE ~list_made
  BY <1>1, <1>3 DEF view_list
<1> QED
  BY <1>2, <1>3

(* What only looks shows the item at its place, or past the end the first. *)
LEMMA ListLookShows ==
  ASSUME ListInv, Proper, list_use # "misused", Closed' => Closed, list_made, NEW q, IsRow(q, list_nodes, head, curr_size), curr_size # 0,
         NEW i \in 1 .. curr_size + 1, NEW c, c = IF i > curr_size THEN q[1] ELSE q[i],
         UNCHANGED <<list_nodes, head, last, curr_size, list_made>>,
         list_said' = Said("show", i, list_nodes[c].data)
  PROVE  ListStep
<1>1. ListInv' /\ view_list' = view_list
  BY ViewStays
<1>2. view_list = DataOf(q, list_nodes)
  BY ViewAlong
<1>3. /\ view_list \in Seq(Data) /\ Len(view_list) = curr_size /\ curr_size \in Nat
      /\ \A j \in 1 .. curr_size : view_list[j] = list_nodes[q[j]].data
  BY <1>2, RowFacts
<1>4. view_list # <<>> /\ 1 \in 1 .. curr_size /\ i \in 1 .. Len(view_list) + 1
  BY <1>3
<1>5. list_nodes[c].data = IF i > Len(view_list) THEN view_list[1] ELSE view_list[i]
  BY <1>3, <1>4
<1>6. PromisedList!Show(i)
  BY <1>1, <1>4, <1>5 DEF PromisedList!Show, PromisedList!Said, Said
<1> QED
  BY <1>1, <1>4, <1>6 DEF ListStep, PromisedList!Next

LEMMA LooksShow ==
  ASSUME ListInv, Proper, show_front \/ show_back \/ \E index \in Nat : show_at(index)
  PROVE  ListStep
<1>1. /\ list_made /\ curr_size # 0 /\ UNCHANGED <<list_nodes, head, last, curr_size, list_made>>
      /\ list_use # "misused" /\ (Closed' => Closed) /\ (Closed => Intact)
  <2>1. /\ list_made /\ curr_size # 0 /\ UNCHANGED <<list_nodes, head, last, curr_size, list_made>>
        /\ list_use # "misused" /\ (Closed' => Closed)
    BY DEF show_front, show_back, show_at, Uses, Proper, Closed
  <2> QED
    BY <2>1, UsedBefore
<1>2. PICK q : IsRow(q, list_nodes, head, curr_size)
  BY <1>1, UsedBefore
<1>3. curr_size \in Nat /\ (curr_size > 0 => head = q[1])
  BY <1>2, RowFacts
<1>4. head = q[1] /\ 1 \in 1 .. curr_size + 1 /\ ~(1 > curr_size)
  BY <1>1, <1>3
<1>5. CASE show_front
  <2>1. PICK i \in 1 .. curr_size + 1 : i = 1
    BY <1>4
  <2>2. list_said' = Said("show", i, list_nodes[head].data)
    BY <1>5, <2>1 DEF show_front
  <2>3. head = IF i > curr_size THEN q[1] ELSE q[i]
    BY <1>4, <2>1
  <2> QED
    BY <1>1, <1>2, <2>2, <2>3, ListLookShows
<1>6. CASE show_back
  <2>1. PICK i \in 1 .. curr_size + 1 : i = curr_size
    BY <1>1, <1>3
  <2>2. list_said' = Said("show", i, list_nodes[last].data) /\ Intact
    BY <1>1, <1>6, <2>1 DEF show_back, Uses, Proper
  <2>3. last = IF i > curr_size THEN q[1] ELSE q[i]
    <3>1. last = q[curr_size]
      BY <1>1, <1>2, <1>3, <2>2, IntactClosed
    <3> QED
      BY <1>3, <2>1, <3>1
  <2> QED
    BY <1>1, <1>2, <2>2, <2>3, ListLookShows
<1>7. ASSUME NEW index \in Nat, show_at(index) PROVE ListStep
  <2>1. index \in 0 .. curr_size /\ (index < curr_size \/ Intact)
    BY <1>1, <1>3, <1>7 DEF show_at, Uses, Proper
  <2>2. PICK i \in 1 .. curr_size + 1 : i = index + 1
    BY <1>3, <2>1
  <2>3. PICK c : c = Ahead[index]
    OBVIOUS
  <2>4. list_said' = Said("show", i, list_nodes[c].data)
    BY <1>7, <2>2, <2>3 DEF show_at
  <2>5. c = IF i > curr_size THEN q[1] ELSE q[i]
    <3>1. CASE index < curr_size
      <4>1. i \in 1 .. curr_size /\ i - 1 = index /\ ~(i > curr_size)
        BY <1>3, <2>1, <2>2, <3>1
      <4>2. Ahead[i - 1] = q[i]
        BY <1>2, <4>1, AheadAlong
      <4> QED
        BY <2>3, <4>1, <4>2
    <3>2. CASE ~(index < curr_size)
      <4>1. index = curr_size /\ Intact /\ i > curr_size /\ curr_size > 0
        BY <1>1, <1>3, <2>1, <2>2, <3>2
      <4>2. Ahead[curr_size] = list_nodes[q[curr_size]].next
        BY <1>2, <4>1, AheadAlong
      <4>3. last = q[curr_size] /\ list_nodes[last].next = q[1]
        BY <1>2, <4>1, IntactClosed
      <4> QED
        BY <2>3, <4>1, <4>2, <4>3
    <3> QED
      BY <3>1, <3>2
  <2> QED
    BY <1>1, <1>2, <2>4, <2>5, ListLookShows
<1> QED
  BY <1>5, <1>6, <1>7

LEMMA RefusesAny ==
  ASSUME ListInv, Proper, NEW at, Refused(at)
  PROVE  ListStep
<1>1. /\ UNCHANGED <<list_nodes, head, last, curr_size, list_made, list_use>>
      /\ list_said' = Said("refused", at, 0)
  BY DEF Refused
<1>4. list_use # "misused" /\ (Closed' => Closed)
  BY <1>1 DEF Proper, Closed
<1>2. ListInv' /\ view_list' = view_list
  BY <1>1, <1>4, ViewStays
<1>3. PromisedList!Refuse
  BY <1>1, <1>2 DEF PromisedList!Refuse, PromisedList!Said, Said
<1> QED
  BY <1>2, <1>3 DEF ListStep, PromisedList!Next

LEMMA DestroysAll ==
  ASSUME ListInv, Proper, destroy_list
  PROVE  ListStep
<1>1. PICK q : IsRow(q, list_nodes, head, curr_size)
  BY DEF ListInv, destroy_list, Proper
<1>2. /\ ~list_made' /\ list_said' = Said("clear", 0, 0)
      /\ list_nodes' = Without(list_nodes, {Ahead[n] : n \in 0 .. curr_size - 1})
  BY DEF destroy_list
<1>3. curr_size = Len(q) /\ curr_size \in Nat /\ DOMAIN list_nodes = CellsOf(q)
  BY <1>1, RowFacts
<1>4. ASSUME NEW i \in 1 .. curr_size PROVE q[i] \in {Ahead[n] : n \in 0 .. curr_size - 1}
  <2>1. i - 1 \in 0 .. curr_size - 1 /\ Ahead[i - 1] = q[i]
    BY <1>1, <1>3, AheadAlong
  <2> QED
    BY <2>1
<1>5. DOMAIN list_nodes \ {Ahead[n] : n \in 0 .. curr_size - 1} = {}
  BY <1>3, <1>4 DEF CellsOf
<1>6. list_nodes' \in [{} -> Node]
  BY <1>2, <1>5 DEF Without
<1>7. ListInv' /\ PromisedList!Clear
  BY <1>2, <1>6 DEF ListInv, Proper, view_list, PromisedList!Clear, PromisedList!Said, Said
<1> QED
  BY <1>7 DEF ListStep, PromisedList!Next

LEMMA EmptyRow ==
  ASSUME NEW nodes \in [{} -> Node], NEW first
  PROVE  IsRow(<<>>, nodes, first, 0) /\ DataOf(<<>>, nodes) = <<>>
<1>1. <<>> \in Seq(Cell) /\ Len(<<>>) = 0
  OBVIOUS
<1>2. CellsOf(<<>>) = {} /\ Distinct(<<>>)
  BY <1>1 DEF CellsOf, Distinct
<1>3. DataOf(<<>>, nodes) = <<>>
  BY DEF DataOf
<1> QED
  BY <1>1, <1>2, <1>3 DEF IsRow

LEMMA CreatesEmpty ==
  ASSUME ListInv, Proper, create_circle_list
  PROVE  ListStep
<1>1. /\ list_nodes' \in [{} -> Node] /\ list_made' /\ curr_size' = 0
      /\ list_said' = Said("create", 0, 0) /\ head' = Null
  BY DEF ListInv, create_circle_list
<1>2. PICK nodes, first : nodes = list_nodes' /\ first = head'
  OBVIOUS
<1>3. IsRow(<<>>, nodes, first, 0) /\ DataOf(<<>>, nodes) = <<>>
  BY <1>1, <1>2, EmptyRow
<1>4. IsRow(<<>>, list_nodes', head', curr_size') /\ <<>> \in Seq(Cell)
  <2>1. <<>> \in Seq(Cell)
    OBVIOUS
  <2> QED
    BY <1>1, <1>2, <1>3, <2>1
<1>5. view_list' = <<>>
  BY <1>1, <1>2, <1>3, <1>4, ViewAlongThen
<1>6. ListInv' /\ PromisedList!Create
  BY <1>1, <1>4, <1>5 DEF ListInv, Proper, Intact, PromisedList!Create, PromisedList!Said, Said
<1> QED
  BY <1>6 DEF ListStep, PromisedList!Next

-----------------------------------------------------------------------------
(* Sorting: what sorted_merge makes of two sorted rows of cells            *)

(* Whether the n-th merged cell comes from a, i having been taken from it. *)
FromFirst(a, b, n, i) ==
  i < Len(a) /\ (n - 1 - i = Len(b) \/ NotBelow(a[i + 1], b[n - 1 - i + 1]))

LEMMA TakenRecursion ==
  ASSUME NEW a, NEW b, Len(a) \in Nat, Len(b) \in Nat
  PROVE  /\ TakenFrom(a, b)[0] = 0
         /\ \A n \in 1 .. Len(a) + Len(b) :
              TakenFrom(a, b)[n] = IF FromFirst(a, b, n, TakenFrom(a, b)[n - 1])
                                   THEN TakenFrom(a, b)[n - 1] + 1 ELSE TakenFrom(a, b)[n - 1]
<1> DEFINE Upto(t) == [n \in 0 .. Len(a) + Len(b) |->
                         IF n = 0 THEN 0
                         ELSE LET i == t[n - 1]
                                  j == n - 1 - i
                              IN  IF i < Len(a) /\ (j = Len(b) \/ NotBelow(a[i + 1], b[j + 1]))
                                  THEN i + 1 ELSE i]
           g == [n \in 1 .. Len(a) + Len(b) |->
                   [i \in Nat |-> IF FromFirst(a, b, n, i) THEN i + 1 ELSE i]]
<1>1. PICK N \in Nat : N = Len(a) + Len(b)
  OBVIOUS
<1>2. PICK f : f \in [0 .. N -> Nat] /\ f[0] = 0 /\ \A i \in 1 .. N : f[i] = g[i][f[i - 1]]
  <2>1. g \in [1 .. N -> [Nat -> Nat]]
    BY <1>1
  <2>2. 0 \in Nat
    OBVIOUS
  <2> HIDE DEF g
  <2>3. \E f : Recursion(f, N, Nat, 0, g)
    BY <2>1, <2>2, RecursionExists
  <2> QED
    BY <2>3 DEF Recursion
<1>3. ASSUME NEW n \in 1 .. N
      PROVE  f[n] = IF FromFirst(a, b, n, f[n - 1]) THEN f[n - 1] + 1 ELSE f[n - 1]
  <2>1. n - 1 \in 0 .. N /\ f[n - 1] \in Nat
    BY <1>2
  <2>2. f[n] = g[n][f[n - 1]]
    BY <1>2
  <2> QED
    BY <1>1, <2>1, <2>2
<1>4. f = Upto(f)
  <2>1. \A n \in 0 .. N : f[n] = Upto(f)[n]
    <3> SUFFICES ASSUME NEW n \in 0 .. N PROVE f[n] = Upto(f)[n]
      OBVIOUS
    <3>1. CASE n = 0
      BY <1>1, <1>2, <3>1
    <3>2. CASE n # 0
      <4>1. n \in 1 .. N
        BY <3>2
      <4>2. f[n] = IF FromFirst(a, b, n, f[n - 1]) THEN f[n - 1] + 1 ELSE f[n - 1]
        BY <1>3, <4>1
      <4> QED
        BY <1>1, <3>2, <4>2 DEF FromFirst
    <3> QED
      BY <3>1, <3>2
  <2>2. Upto(f) = [n \in 0 .. N |-> Upto(f)[n]]
    BY <1>1
  <2>3. f = [n \in 0 .. N |-> f[n]]
    BY <1>2
  <2> HIDE DEF Upto
  <2> QED
    BY <2>1, <2>2, <2>3
<1>5. PICK u : u = CHOOSE h : h = Upto(h)
  OBVIOUS
<1>6. u = Upto(u)
  <2> HIDE DEF Upto
  <2> QED
    BY <1>4, <1>5, Zenon
<1>7. TakenFrom(a, b) = u
  BY <1>5 DEF TakenFrom
<1>8. u[0] = 0
  <2>1. 0 \in 0 .. Len(a) + Len(b)
    OBVIOUS
  <2> QED
    BY <1>6, <2>1
<1>9. ASSUME NEW n \in 1 .. Len(a) + Len(b)
      PROVE  u[n] = IF FromFirst(a, b, n, u[n - 1]) THEN u[n - 1] + 1 ELSE u[n - 1]
  <2>1. n \in 0 .. Len(a) + Len(b) /\ n # 0
    OBVIOUS
  <2> QED
    BY <1>6, <2>1 DEF FromFirst
<1> QED
  BY <1>7, <1>8, <1>9

(* Each time a cell is taken from one of the two rows.                     *)
OneTaken(a, b, t) ==
  \A n \in 1 .. Len(a) + Len(b) :
    \/ FromFirst(a, b, n, t[n - 1]) /\ t[n] = t[n - 1] + 1
    \/ /\ ~FromFirst(a, b, n, t[n - 1]) /\ t[n] = t[n - 1]
       /\ n - 1 - t[n - 1] < Len(b)

(* Of either row no more is taken than there is, and one cell is taken     *)
(* each time.                                                              *)
LEMMA TakenBounds ==
  ASSUME NEW a, NEW b, Len(a) \in Nat, Len(b) \in Nat, NEW t, t = TakenFrom(a, b)
  PROVE  /\ t[0] = 0
         /\ \A n \in 0 .. Len(a) + Len(b) : t[n] \in 0 .. Len(a) /\ n - t[n] \in 0 .. Len(b)
         /\ OneTaken(a, b, t)
<1>1. PICK N \in Nat : N = Len(a) + Len(b)
  OBVIOUS
<1>2. t[0] = 0
  BY TakenRecursion
<1>3. \A n \in 1 .. N : t[n] = IF FromFirst(a, b, n, t[n - 1]) THEN t[n - 1] + 1 ELSE t[n - 1]
  BY <1>1, TakenRecursion
<1> DEFINE P == {n \in 0 .. N : t[n] \in 0 .. Len(a) /\ n - t[n] \in 0 .. Len(b)}
<1>4. 0 \in P
  BY <1>2
<1>5. ASSUME NEW n \in 1 .. N, n - 1 \in P
      PROVE  /\ n \in P
             /\ ~FromFirst(a, b, n, t[n - 1]) => n - 1 - t[n - 1] < Len(b)
  <2>1. t[n - 1] \in 0 .. Len(a) /\ n - 1 - t[n - 1] \in 0 .. Len(b)
    BY <1>5
  <2>2. CASE FromFirst(a, b, n, t[n - 1])
    <3>1. t[n] = t[n - 1] + 1 /\ t[n - 1] < Len(a)
      BY <1>3, <2>2 DEF FromFirst
    <3> QED
      BY <2>1, <2>2, <3>1
  <2>3. CASE ~FromFirst(a, b, n, t[n - 1])
    <3>1. t[n] = t[n - 1]
      BY <1>3, <2>3
    <3>2. n - 1 - t[n - 1] # Len(b)
      BY <1>1, <2>1, <2>3 DEF FromFirst
    <3> QED
      BY <2>1, <3>1, <3>2
  <2> QED
    BY <2>2, <2>3
<1>6. P = 0 .. N
  <2>1. P \in SUBSET (0 .. N)
    OBVIOUS
  <2> HIDE DEF P
  <2> QED
    BY <1>4, <1>5, <2>1, UpTo
<1>7. \A n \in 0 .. N : t[n] \in 0 .. Len(a) /\ n - t[n] \in 0 .. Len(b)
  BY <1>6
<1>8. ASSUME NEW n \in 1 .. N
      PROVE  ~FromFirst(a, b, n, t[n - 1]) => n - 1 - t[n - 1] < Len(b)
  <2>1. n - 1 \in P
    BY <1>6
  <2> HIDE DEF P
  <2> QED
    BY <1>5, <2>1
<1>9. OneTaken(a, b, t)
  BY <1>1, <1>3, <1>8 DEF OneTaken
<1> QED
  BY <1>1, <1>2, <1>7, <1>9

(* Greatest first, neighbour by neighbour.                                 *)
Descending(s) ==
  \A i \in 1 .. Len(s) - 1 : list_nodes[s[i]].data >= list_nodes[s[i + 1]].data

(* The n-th merged cell is the next one of the row it comes from.          *)
LEMMA MergedCells ==
  ASSUME NEW a, NEW b, Len(a) \in Nat, Len(b) \in Nat, NEW t, t = TakenFrom(a, b),
         NEW m, m = sorted_merge(a, b)
  PROVE  /\ m = [n \in 1 .. Len(a) + Len(b) |-> m[n]]
         /\ \A n \in 1 .. Len(a) + Len(b) :
              \/ FromFirst(a, b, n, t[n - 1]) /\ t[n] = t[n - 1] + 1 /\ m[n] = a[t[n]]
              \/ /\ ~FromFirst(a, b, n, t[n - 1]) /\ t[n] = t[n - 1] /\ m[n] = b[n - t[n]]
                 /\ n - t[n] \in 1 .. Len(b)
<1>0. \A n \in 1 .. Len(a) + Len(b) :
        \/ FromFirst(a, b, n, t[n - 1]) /\ t[n] = t[n - 1] + 1
        \/ /\ ~FromFirst(a, b, n, t[n - 1]) /\ t[n] = t[n - 1]
           /\ n - 1 - t[n - 1] < Len(b)
  <2>1. OneTaken(a, b, t)
    BY TakenBounds
  <2> QED
    BY <2>1 DEF OneTaken
<1>1. m = [n \in 1 .. Len(a) + Len(b) |-> IF t[n] > t[n - 1] THEN a[t[n]] ELSE b[n - t[n]]]
  BY DEF sorted_merge
<1>2. ASSUME NEW n \in 1 .. Len(a) + Len(b)
      PROVE  \/ FromFirst(a, b, n, t[n - 1]) /\ t[n] = t[n - 1] + 1 /\ m[n] = a[t[n]]
             \/ /\ ~FromFirst(a, b, n, t[n - 1]) /\ t[n] = t[n - 1] /\ m[n] = b[n - t[n]]
                /\ n - t[n] \in 1 .. Len(b)
  <2>1. /\ n - 1 \in 0 .. Len(a) + Len(b) /\ n \in 0 .. Len(a) + Len(b)
    OBVIOUS
  <2>2. t[n - 1] \in 0 .. Len(a) /\ n - 1 - t[n - 1] \in 0 .. Len(b) /\ t[n] \in 0 .. Len(a)
    BY <2>1, TakenBounds
  <2>3. m[n] = IF t[n] > t[n - 1] THEN a[t[n]] ELSE b[n - t[n]]
    BY <1>1
  <2>4. \/ FromFirst(a, b, n, t[n - 1]) /\ t[n] = t[n - 1] + 1
        \/ /\ ~FromFirst(a, b, n, t[n - 1]) /\ t[n] = t[n - 1]
           /\ n - 1 - t[n - 1] < Len(b)
    BY <1>0
  <2>5. CASE FromFirst(a, b, n, t[n - 1]) /\ t[n] = t[n - 1] + 1
    BY <2>2, <2>3, <2>5
  <2>6. CASE /\ ~FromFirst(a, b, n, t[n - 1]) /\ t[n] = t[n - 1]
             /\ n - 1 - t[n - 1] < Len(b)
    BY <2>2, <2>3, <2>6
  <2> QED
    BY <2>4, <2>5, <2>6
<1> QED
  BY <1>1, <1>2

(* Neither row is gone back in.                                            *)
LEMMA TakenMonotone ==
  ASSUME NEW a, NEW b, Len(a) \in Nat, Len(b) \in Nat, NEW t, t = TakenFrom(a, b),
         NEW n \in 0 .. Len(a) + Len(b), NEW k \in n .. Len(a) + Len(b)
  PROVE  t[n] <= t[k] /\ n - t[n] <= k - t[k]
<1>1. PICK N \in Nat : N = Len(a) + Len(b)
  OBVIOUS
<1>2. \A i \in 0 .. N : t[i] \in 0 .. Len(a) /\ i - t[i] \in 0 .. Len(b)
  BY <1>1, TakenBounds
<1>3. \A i \in 1 .. N : t[i] = t[i - 1] + 1 \/ t[i] = t[i - 1]
  <2>1. OneTaken(a, b, t)
    BY TakenBounds
  <2> QED
    BY <1>1, <2>1 DEF OneTaken
<1> DEFINE P == {i \in 0 .. N : i >= n => t[n] <= t[i] /\ n - t[n] <= i - t[i]}
<1>4. 0 \in P
  BY <1>2
<1>5. ASSUME NEW i \in 1 .. N, i - 1 \in P PROVE i \in P
  <2>1. CASE i < n
    BY <2>1
  <2>2. CASE i = n
    BY <1>2, <2>2
  <2>3. CASE i > n
    <3>1. i - 1 >= n /\ i - 1 \in 0 .. N /\ n \in 0 .. N /\ i \in 0 .. N
      BY <1>1, <2>3
    <3>2. t[n] <= t[i - 1] /\ n - t[n] <= i - 1 - t[i - 1]
      BY <1>5, <3>1
    <3>3. t[n] \in Int /\ t[i - 1] \in Int /\ (t[i] = t[i - 1] + 1 \/ t[i] = t[i - 1])
      BY <1>2, <1>3, <3>1
    <3>4. t[n] <= t[i] /\ n - t[n] <= i - t[i]
      <4>1. PICK x \in Int, y \in Int : x = t[n] /\ y = t[i - 1]
        BY <3>3
      <4>2. x <= y /\ n - x <= i - 1 - y
        BY <3>2, <4>1
      <4>3. x <= y + 1 /\ n - x <= i - (y + 1) /\ n - x <= i - y
        BY <4>2
      <4> QED
        BY <3>3, <4>1, <4>2, <4>3
    <3> QED
      BY <3>4
  <2> QED
    BY <1>1, <2>1, <2>2, <2>3
<1>6. P = 0 .. N
  <2>1. P \in SUBSET (0 .. N)
    OBVIOUS
  <2> HIDE DEF P
  <2> QED
    BY <1>4, <1>5, <2>1, UpTo
<1> QED
  BY <1>1, <1>6

(* Merging two sorted rows gives one sorted row of the cells of both.      *)
LEMMA MergeSorts ==
  ASSUME NEW S, \A c \in S : list_nodes[c].data \in Int,
         NEW a \in Seq(S), NEW b \in Seq(S), Distinct(a), Distinct(b),
         CellsOf(a) \cap CellsOf(b) = {}, Descending(a), Descending(b),
         NEW m, m = sorted_merge(a, b)
  PROVE  /\ m \in Seq(S) /\ Len(m) = Len(a) + Len(b) /\ Distinct(m) /\ Descending(m)
         /\ CellsOf(m) \subseteq CellsOf(a) \union CellsOf(b)
<1>1. /\ Len(a) \in Nat /\ \A i \in 1 .. Len(a) : a[i] \in S
      /\ Len(b) \in Nat /\ \A i \in 1 .. Len(b) : b[i] \in S
  BY LenProperties, ElementOfSeq
<1>2. PICK N \in Nat : N = Len(a) + Len(b)
  BY <1>1
<1>3. PICK t : t = TakenFrom(a, b)
  OBVIOUS
<1>4. /\ t[0] = 0 /\ \A n \in 0 .. N : t[n] \in 0 .. Len(a) /\ n - t[n] \in 0 .. Len(b)
  BY <1>1, <1>2, <1>3, TakenBounds
<1> DEFINE Fst(n) == /\ FromFirst(a, b, n, t[n - 1]) /\ t[n] = t[n - 1] + 1
                     /\ m[n] = a[t[n]] /\ t[n] \in 1 .. Len(a)
           Snd(n) == /\ ~FromFirst(a, b, n, t[n - 1]) /\ t[n] = t[n - 1]
                     /\ m[n] = b[n - t[n]] /\ n - t[n] \in 1 .. Len(b)
<1>5. m = [n \in 1 .. N |-> m[n]] /\ \A n \in 1 .. N : Fst(n) \/ Snd(n)
  <2>1. /\ m = [n \in 1 .. N |-> m[n]]
        /\ \A n \in 1 .. N :
              \/ FromFirst(a, b, n, t[n - 1]) /\ t[n] = t[n - 1] + 1 /\ m[n] = a[t[n]]
              \/ /\ ~FromFirst(a, b, n, t[n - 1]) /\ t[n] = t[n - 1] /\ m[n] = b[n - t[n]]
                 /\ n - t[n] \in 1 .. Len(b)
    BY <1>1, <1>2, <1>3, MergedCells
  <2>2. \A n \in 1 .. N : n - 1 \in 0 .. N /\ n \in 0 .. N
    OBVIOUS
  <2>3. \A n \in 1 .. N : t[n - 1] \in 0 .. Len(a) /\ t[n] \in 0 .. Len(a)
    BY <1>4, <2>2
  <2> QED
    BY <1>1, <2>1, <2>3
<1>6. \A n \in 1 .. N : \/ \E i \in 1 .. Len(a) : m[n] = a[i]
                        \/ \E i \in 1 .. Len(b) : m[n] = b[i]
  BY <1>5
<1>7. m \in Seq(S) /\ Len(m) = N
  <2>1. \A n \in 1 .. N : m[n] \in S
    BY <1>1, <1>6
  <2>2. m \in [1 .. N -> S]
    BY <1>5, <2>1
  <2> QED
    BY <2>2
<1>8. CellsOf(m) \subseteq CellsOf(a) \union CellsOf(b)
  BY <1>6, <1>7 DEF CellsOf
<1>9. Distinct(m)
  <2>1. ASSUME NEW n \in 1 .. N, NEW k \in 1 .. N, n < k PROVE m[n] # m[k]
    <3>1. t[n] <= t[k - 1] /\ n - t[n] <= k - 1 - t[k - 1]
      <4>1. n \in 0 .. N /\ k - 1 \in n .. N
        BY <2>1
      <4> QED
        BY <1>1, <1>2, <1>3, <4>1, TakenMonotone
    <3>2. t[n] \in Int /\ t[k] \in Int /\ t[k - 1] \in Int
      <4>1. n \in 0 .. N /\ k \in 0 .. N /\ k - 1 \in 0 .. N
        OBVIOUS
      <4>2. \A i \in 0 .. N : t[i] \in Int
        BY <1>4
      <4> QED
        BY <4>1, <4>2
    <3>3. CASE Fst(n) /\ Fst(k)
      <4>1. t[n] \in 1 .. Len(a) /\ t[k] \in 1 .. Len(a) /\ t[n] # t[k]
        BY <3>1, <3>2, <3>3
      <4> QED
        BY <3>3, <4>1 DEF Distinct
    <3>4. CASE Snd(n) /\ Snd(k)
      <4>1. n - t[n] \in 1 .. Len(b) /\ k - t[k] \in 1 .. Len(b) /\ n - t[n] # k - t[k]
        BY <3>1, <3>2, <3>4
      <4> QED
        BY <3>4, <4>1 DEF Distinct
    <3>5. CASE Fst(n) /\ Snd(k)
      <4>1. m[n] \in CellsOf(a) /\ m[k] \in CellsOf(b)
        BY <3>5 DEF CellsOf
      <4> QED
        BY <4>1
    <3>6. CASE Snd(n) /\ Fst(k)
      <4>1. m[k] \in CellsOf(a) /\ m[n] \in CellsOf(b)
        BY <3>6 DEF CellsOf
      <4> QED
        BY <4>1
    <3> HIDE DEF Fst, Snd
    <3> QED
      BY <1>5, <3>3, <3>4, <3>5, <3>6
  <2> SUFFICES ASSUME NEW n \in 1 .. N, NEW k \in 1 .. N, m[n] = m[k] PROVE n = k
    BY <1>7 DEF Distinct
  <2> HIDE DEF Fst, Snd
  <2>2. ~(n < k)
    BY <2>1
  <2>3. ~(k < n)
    BY <2>1
  <2> QED
    BY <2>2, <2>3
<1>10. Descending(m)
  <2> SUFFICES ASSUME NEW n \in 1 .. N - 1
               PROVE  list_nodes[m[n]].data >= list_nodes[m[n + 1]].data
    BY <1>7 DEF Descending
  <2>1. /\ n \in 1 .. N /\ n + 1 \in 1 .. N /\ n + 1 - 1 = n /\ n \in 0 .. N
    BY <1>2
  <2>2. Fst(n) \/ Snd(n)
    BY <1>5, <2>1
  <2>3. Fst(n + 1) \/ Snd(n + 1)
    BY <1>5, <2>1
  <2>4. t[n] \in 0 .. Len(a) /\ n - t[n] \in 0 .. Len(b) /\ t[n + 1] \in 0 .. Len(a)
    <3>1. n + 1 \in 0 .. N
      BY <2>1
    <3> QED
      BY <1>4, <2>1, <3>1
  <2>5. t[n - 1] \in 0 .. Len(a) /\ n - 1 - t[n - 1] \in 0 .. Len(b)
    <3>1. n - 1 \in 0 .. N
      BY <2>1
    <3> QED
      BY <1>4, <3>1
  <2>6. \A c, e \in S : /\ NotBelow(c, e) => list_nodes[c].data >= list_nodes[e].data
                        /\ ~NotBelow(c, e) => list_nodes[e].data >= list_nodes[c].data
    BY DEF NotBelow
  <2>7. CASE Fst(n) /\ Fst(n + 1)
    <3>1. t[n] \in 1 .. Len(a) - 1 /\ t[n + 1] = t[n] + 1
      <4>1. t[n + 1] = t[n] + 1 /\ t[n] \in 1 .. Len(a)
        BY <2>1, <2>7
      <4>2. PICK x, y : x = t[n] /\ y = t[n + 1]
        OBVIOUS
      <4>3. x \in 1 .. Len(a) /\ y \in 0 .. Len(a) /\ y = x + 1
        BY <2>4, <4>1, <4>2
      <4>4. x \in 1 .. Len(a) - 1
        BY <1>1, <4>3
      <4> QED
        BY <4>1, <4>2, <4>4
    <3>2. m[n] = a[t[n]] /\ m[n + 1] = a[t[n] + 1]
      BY <2>7, <3>1
    <3> QED
      BY <3>1, <3>2 DEF Descending
  <2>8. CASE Snd(n) /\ Snd(n + 1)
    <3>1. n - t[n] \in 1 .. Len(b) /\ m[n] = b[n - t[n]]
      BY <2>8
    <3>2. PICK k \in 1 .. N : k = n + 1
      BY <2>1
    <3>3. t[k] = t[n] /\ m[k] = b[k - t[k]] /\ k - t[k] \in 1 .. Len(b)
      <4>1. \A i \in 1 .. N : Snd(i) => /\ t[i] = t[i - 1] /\ m[i] = b[i - t[i]]
                                        /\ i - t[i] \in 1 .. Len(b)
        OBVIOUS
      <4>2. Snd(k)
        <5> HIDE DEF Snd
        <5> QED
          BY <2>8, <3>2
      <4>3. k - 1 = n
        BY <3>2
      <4> QED
        BY <4>1, <4>2, <4>3
    <3>4. PICK j : j = n - t[n]
      OBVIOUS
    <3>5. j \in 1 .. Len(b) - 1 /\ k - t[k] = j + 1
      <4>1. PICK x \in Int : x = t[n]
        BY <2>4
      <4>2. j = n - x /\ k - t[k] = n + 1 - x /\ j \in 1 .. Len(b) /\ n + 1 - x \in 1 .. Len(b)
        <5>1. t[k] = x
          BY <3>3, <4>1
        <5>2. k - t[k] \in 1 .. Len(b) /\ k - t[k] = n + 1 - x
          BY <3>2, <3>3, <5>1
        <5>3. j = n - x /\ j \in 1 .. Len(b)
          BY <3>1, <3>4, <4>1
        <5> QED
          BY <5>2, <5>3
      <4>3. n + 1 - x = j + 1
        BY <4>1, <4>2
      <4> QED
        BY <1>1, <4>2, <4>3
    <3>6. m[n] = b[j] /\ m[k] = b[j + 1]
      BY <3>1, <3>3, <3>4, <3>5
    <3>7. list_nodes[m[n]].data >= list_nodes[m[k]].data
      BY <3>5, <3>6 DEF Descending
    <3> QED
      BY <3>2, <3>7
  <2>9. CASE Fst(n) /\ Snd(n + 1)
    <3>1. PICK i, j : i = t[n - 1] /\ j = n - 1 - t[n - 1]
      OBVIOUS
    <3>0. t[n] = i + 1 /\ t[n] \in 1 .. Len(a)
      BY <2>9, <3>1
    <3>5. t[n + 1] = t[n] /\ n + 1 - t[n + 1] \in 1 .. Len(b)
      BY <2>1, <2>9
    <3>2. i + 1 \in 1 .. Len(a) /\ j + 1 \in 1 .. Len(b) /\ t[n] = i + 1 /\ t[n + 1] = i + 1
          /\ n + 1 - (i + 1) = j + 1
      <4>1. i \in Int /\ j = n - 1 - i /\ t[n] = i + 1 /\ t[n + 1] = i + 1
        BY <2>5, <3>0, <3>1, <3>5
      <4>2. n + 1 - (i + 1) = j + 1
        BY <4>1
      <4> QED
        BY <3>0, <3>5, <4>1, <4>2
    <3>3. m[n] = a[i + 1] /\ m[n + 1] = b[j + 1]
      BY <2>9, <3>2
    <3>4. NotBelow(a[i + 1], b[j + 1])
      <4>1. FromFirst(a, b, n, i)
        BY <2>9, <3>1
      <4>2. n - 1 - i = j /\ j # Len(b)
        BY <1>1, <2>5, <3>1, <3>2
      <4> QED
        BY <4>1, <4>2 DEF FromFirst
    <3> QED
      BY <1>1, <2>6, <3>2, <3>3, <3>4
  <2>10. CASE Snd(n) /\ Fst(n + 1)
    <3>1. PICK i, j : i = t[n - 1] /\ j = n - 1 - t[n - 1]
      OBVIOUS
    <3>2. i + 1 \in 1 .. Len(a) /\ j + 1 \in 1 .. Len(b) /\ t[n] = i /\ t[n + 1] = i + 1
          /\ n - i = j + 1
      <4>1. t[n] = i /\ n - t[n] \in 1 .. Len(b)
        BY <2>10, <3>1
      <4>2. t[n + 1] = i + 1 /\ t[n + 1] \in 1 .. Len(a)
        BY <2>1, <2>10, <4>1
      <4>3. i \in Int /\ n - i = j + 1
        BY <2>5, <3>1
      <4> QED
        BY <4>1, <4>2, <4>3
    <3>3. m[n] = b[j + 1] /\ m[n + 1] = a[i + 1]
      BY <2>10, <3>2
    <3>4. ~NotBelow(a[i + 1], b[j + 1])
      <4>1. ~FromFirst(a, b, n, i)
        BY <2>10, <3>1
      <4>2. n - 1 - i = j /\ i < Len(a)
        BY <1>1, <2>5, <3>1, <3>2
      <4> QED
        BY <4>1, <4>2 DEF FromFirst
    <3> QED
      BY <1>1, <2>6, <3>2, <3>3, <3>4
  <2> HIDE DEF Fst, Snd
  <2> QED
    BY <2>2, <2>3, <2>7, <2>8, <2>9, <2>10
<1> QED
  BY <1>2, <1>7, <1>8, <1>9, <1>10

(* The n cells from the i-th on.                                           *)
Between(cells, i, n) == {cells[k] : k \in i .. i + n - 1}

SortedPart(cells, n, i, s) ==
  /\ s \in Seq(CellsOf(cells)) /\ Len(s) = n /\ Distinct(s) /\ Descending(s)
  /\ CellsOf(s) \subseteq Between(cells, i, n)

SortStep(cells, f, n) ==
  IF n <= 1 THEN [i \in 1 .. Len(cells) |-> SubSeq(cells, i, i + n - 1)]
  ELSE [i \in 1 .. Len(cells) + 1 - n |->
          sorted_merge(f[split_list(n)][i], f[n - split_list(n)][i + split_list(n)])]

LEMMA Halves ==
  ASSUME NEW n \in Nat, n > 1
  PROVE  /\ split_list(n) \in 1 .. n - 1 /\ n - split_list(n) \in 1 .. n - 1
  BY DEF split_list

(* Sorting by halves is defined: the halves of a part are shorter.         *)
LEMMA SortRecursion ==
  ASSUME NEW cells, Len(cells) \in Nat
  PROVE  \E u : /\ merge_sort(cells) = u[Len(cells)][1]
                /\ \A n \in 0 .. Len(cells) : u[n] = SortStep(cells, u, n)
<1> DEFINE Is(f, n) == f = [m \in 0 .. n |-> SortStep(cells, f, m)]
           P == {n \in 0 .. Len(cells) : \E f : Is(f, n)}
           Upto(sorted) ==
             [n \in 0 .. Len(cells) |->
                IF n <= 1 THEN [i \in 1 .. Len(cells) |-> SubSeq(cells, i, i + n - 1)]
                ELSE LET half == split_list(n)
                     IN  [i \in 1 .. Len(cells) + 1 - n |->
                            sorted_merge(sorted[half][i], sorted[n - half][i + half])]]
<1>1. PICK N \in Nat : N = Len(cells)
  OBVIOUS
<1>2. 0 \in P
  <2> DEFINE h == [m \in 0 .. 0 |-> SortStep(cells, <<>>, 0)]
  <2>1. \A f, g : SortStep(cells, f, 0) = SortStep(cells, g, 0)
    BY DEF SortStep
  <2>2. \A m \in 0 .. 0 : m = 0
    OBVIOUS
  <2>3. h = [m \in 0 .. 0 |-> SortStep(cells, h, m)]
    <3>1. ASSUME NEW m \in 0 .. 0 PROVE SortStep(cells, <<>>, 0) = SortStep(cells, h, m)
      <4> HIDE DEF h
      <4> QED
        BY <2>1, <2>2
    <3>2. PICK e : e = h
      OBVIOUS
    <3>3. e = [m \in 0 .. 0 |-> SortStep(cells, e, m)]
      <4>1. \A m \in 0 .. 0 : SortStep(cells, <<>>, 0) = SortStep(cells, e, m)
        BY <3>1, <3>2
      <4>2. e = [m \in 0 .. 0 |-> SortStep(cells, <<>>, 0)]
        BY <3>2
      <4> QED
        BY <4>1, <4>2
    <3> QED
      BY <3>2, <3>3
  <2> HIDE DEF h
  <2>4. Is(h, 0)
    BY <2>3
  <2> QED
    BY <1>1, <2>4
<1>3. ASSUME NEW n \in 1 .. N, n - 1 \in P PROVE n \in P
  <2>1. PICK f : Is(f, n - 1)
    BY <1>3
  <2>2. PICK h : h = [m \in 0 .. n |-> SortStep(cells, f, m)]
    OBVIOUS
  <2>3. \A m \in 0 .. n : h[m] = SortStep(cells, f, m)
    BY <2>2, Zenon
  <2>4. \A m \in 0 .. n - 1 : f[m] = SortStep(cells, f, m)
    <3>1. PICK e : e = [m \in 0 .. n - 1 |-> SortStep(cells, f, m)]
      OBVIOUS
    <3>2. \A m \in 0 .. n - 1 : e[m] = SortStep(cells, f, m)
      BY <3>1, Zenon
    <3> QED
      BY <2>1, <3>1, <3>2
  <2>5. \A m \in 0 .. n - 1 : h[m] = f[m]
    <3>1. \A m \in 0 .. n - 1 : m \in 0 .. n
      OBVIOUS
    <3> QED
      BY <2>3, <2>4, <3>1
  <2>6. ASSUME NEW m \in 0 .. n PROVE SortStep(cells, f, m) = SortStep(cells, h, m)
    <3>1. CASE m <= 1
      BY <3>1 DEF SortStep
    <3>2. CASE ~(m <= 1)
      <4>1. m \in Nat /\ m > 1
        BY <3>2
      <4>2. split_list(m) \in 0 .. n - 1 /\ m - split_list(m) \in 0 .. n - 1
        <5>1. split_list(m) \in 1 .. m - 1 /\ m - split_list(m) \in 1 .. m - 1
          BY <4>1, Halves
        <5> QED
          BY <5>1
      <4>3. /\ h[split_list(m)] = f[split_list(m)]
            /\ h[m - split_list(m)] = f[m - split_list(m)]
        BY <2>5, <4>2
      <4> QED
        BY <3>2, <4>3 DEF SortStep
    <3> QED
      BY <3>1, <3>2
  <2>7. Is(h, n)
    BY <2>2, <2>6
  <2> QED
    BY <1>1, <2>7
<1>4. P = 0 .. N
  <2>1. P \in SUBSET (0 .. N)
    BY <1>1
  <2> HIDE DEF P
  <2> QED
    BY <1>2, <1>3, <2>1, UpTo
<1>5. N \in P
  <2> HIDE DEF P
  <2> QED
    BY <1>4
<1>6. PICK f : Is(f, N)
  BY <1>5
<1>7. \A t : Upto(t) = [m \in 0 .. N |-> SortStep(cells, t, m)]
  BY <1>1 DEF SortStep
<1>8. f = Upto(f)
  <2> HIDE DEF Upto
  <2> QED
    BY <1>6, <1>7
<1>9. PICK u : u = CHOOSE h : h = Upto(h)
  OBVIOUS
<1>10. u = Upto(u)
  <2> HIDE DEF Upto
  <2> QED
    BY <1>8, <1>9, Zenon
<1>11. merge_sort(cells) = u[Len(cells)][1]
  BY <1>9 DEF merge_sort
<1>12. \A n \in 0 .. N : u[n] = SortStep(cells, u, n)
  <2>1. PICK e : e = [m \in 0 .. N |-> SortStep(cells, u, m)]
    OBVIOUS
  <2>2. \A m \in 0 .. N : e[m] = SortStep(cells, u, m)
    BY <2>1, Zenon
  <2> HIDE DEF Upto
  <2> QED
    BY <1>7, <1>10, <2>1, <2>2
<1> QED
  BY <1>1, <1>11, <1>12

(* The sorted list has the cells of the list, the greatest item first.     *)
LEMMA SortSorts ==
  ASSUME NEW cells, NEW S, cells \in Seq(S), Distinct(cells), Len(cells) > 0,
         \A c \in CellsOf(cells) : list_nodes[c].data \in Int
  PROVE  SortedPart(cells, Len(cells), 1, merge_sort(cells))
<1>1. PICK N \in Nat : N = Len(cells)
  BY LenProperties
<1>2. PICK u : /\ merge_sort(cells) = u[N][1]
               /\ \A n \in 0 .. N : u[n] = SortStep(cells, u, n)
  BY <1>1, SortRecursion
<1> DEFINE Part(n) == \A i \in 1 .. N + 1 - n : SortedPart(cells, n, i, u[n][i])
           P == {n \in 0 .. N : \A m \in 1 .. n : Part(m)}
<1>3. \A i \in 1 .. N : cells[i] \in CellsOf(cells)
  BY <1>1 DEF CellsOf
<1>4. ASSUME NEW n \in 1 .. N, n - 1 \in P PROVE Part(n)
  <2> SUFFICES ASSUME NEW i \in 1 .. N + 1 - n PROVE SortedPart(cells, n, i, u[n][i])
    OBVIOUS
  <2>0. n \in 0 .. N
    OBVIOUS
  <2>1. CASE n = 1
    <3>1. u[n] = [k \in 1 .. N |-> SubSeq(cells, k, k + n - 1)]
      <4>1. u[n] = SortStep(cells, u, n) /\ n <= 1
        BY <1>2, <2>0, <2>1
      <4> QED
        BY <1>1, <4>1 DEF SortStep
    <3>2. i \in 1 .. N /\ i + n - 1 = i
      BY <2>1
    <3>3. u[n][i] = SubSeq(cells, i, i)
      BY <3>1, <3>2
    <3>4. SubSeq(cells, i, i) = <<cells[i]>>
      <4>1. PICK k \in 1 .. Len(cells) : k = i
        BY <1>1, <3>2
      <4>2. /\ SubSeq(cells, k, k) \in Seq(S) /\ Len(SubSeq(cells, k, k)) = k + 1 - k
            /\ \A j \in 1 .. k + 1 - k : SubSeq(cells, k, k)[j] = cells[k + j - 1]
        <5>1. k \in 1 .. Len(cells) + 1 /\ k \in 0 .. Len(cells) /\ k <= k + 1
          BY <1>1
        <5> QED
          BY <5>1, PartProperties
      <4>3. k + 1 - k = 1 /\ 1 \in 1 .. 1 /\ k + 1 - 1 = k
        OBVIOUS
      <4>4. PICK r : r = SubSeq(cells, k, k)
        OBVIOUS
      <4>5. r \in Seq(S) /\ Len(r) = 1 /\ r[1] = cells[k]
        BY <4>2, <4>3, <4>4
      <4>6. r = <<cells[k]>>
        BY <4>5
      <4> QED
        BY <4>1, <4>4, <4>6
    <3>5. <<cells[i]>> \in Seq(CellsOf(cells)) /\ Len(<<cells[i]>>) = 1
      BY <1>3, <3>2
    <3>6. Distinct(<<cells[i]>>) /\ Descending(<<cells[i]>>)
      BY <3>5 DEF Distinct, Descending
    <3>7. CellsOf(<<cells[i]>>) \subseteq Between(cells, i, n)
      <4>1. CellsOf(<<cells[i]>>) = {cells[i]}
        BY DEF CellsOf
      <4>2. i \in i .. i + n - 1
        BY <3>2
      <4> QED
        BY <4>1, <4>2 DEF Between
    <3> QED
      BY <2>1, <3>3, <3>4, <3>5, <3>6, <3>7 DEF SortedPart
  <2>2. CASE n > 1
    <3>1. PICK half : half = split_list(n)
      OBVIOUS
    <3>2. half \in 1 .. n - 1 /\ n - half \in 1 .. n - 1
      BY <2>2, <3>1, Halves
    <3>3. Part(half) /\ Part(n - half)
      <4> HIDE DEF Part
      <4>1. \A m \in 1 .. n - 1 : Part(m)
        BY <1>4
      <4> QED
        BY <3>2, <4>1
    <3>4. PICK a, b : a = u[half][i] /\ b = u[n - half][i + half]
      OBVIOUS
    <3>5. i \in 1 .. N + 1 - half /\ i + half \in 1 .. N + 1 - (n - half)
      BY <3>2
    <3>6. SortedPart(cells, half, i, a) /\ SortedPart(cells, n - half, i + half, b)
      BY <3>3, <3>4, <3>5
    <3>7. u[n][i] = sorted_merge(a, b)
      <4>1. u[n] = [k \in 1 .. N + 1 - n |-> sorted_merge(u[half][k], u[n - half][k + half])]
        <5>1. u[n] = SortStep(cells, u, n) /\ ~(n <= 1)
          BY <1>2, <2>0, <2>2
        <5> QED
          BY <1>1, <3>1, <5>1 DEF SortStep
      <4> QED
        BY <3>4, <4>1
    <3>8. CellsOf(a) \cap CellsOf(b) = {}
      <4> SUFFICES ASSUME NEW c \in CellsOf(a), c \in CellsOf(b) PROVE FALSE
        OBVIOUS
      <4>1. PICK k \in i .. i + half - 1 : c = cells[k]
        BY <3>6 DEF SortedPart, Between
      <4>2. PICK l \in i + half .. i + half + (n - half) - 1 : c = cells[l]
        BY <3>6 DEF SortedPart, Between
      <4>3. k \in 1 .. N /\ l \in 1 .. N /\ k # l
        BY <3>2
      <4> QED
        BY <1>1, <4>1, <4>2, <4>3 DEF Distinct
    <3>9. PICK m : m = sorted_merge(a, b)
      OBVIOUS
    <3>10. /\ m \in Seq(CellsOf(cells)) /\ Len(m) = Len(a) + Len(b) /\ Distinct(m) /\ Descending(m)
           /\ CellsOf(m) \subseteq CellsOf(a) \union CellsOf(b)
      <4>1. /\ a \in Seq(CellsOf(cells)) /\ b \in Seq(CellsOf(cells)) /\ Distinct(a) /\ Distinct(b)
            /\ Descending(a) /\ Descending(b)
        BY <3>6 DEF SortedPart
      <4> QED
        BY <3>8, <3>9, <4>1, MergeSorts
    <3>11. Len(m) = n
      BY <3>2, <3>6, <3>10 DEF SortedPart
    <3>12. Between(cells, i, half) \subseteq Between(cells, i, n)
      <4>1. i .. i + half - 1 \subseteq i .. i + n - 1
        BY <3>2
      <4> QED
        BY <4>1 DEF Between
    <3>13. Between(cells, i + half, n - half) \subseteq Between(cells, i, n)
      <4>0. i \in Nat /\ n \in Nat /\ half \in Nat
        BY <3>2
      <4>1. i + half .. i + half + (n - half) - 1 \subseteq i .. i + n - 1
        BY <4>0
      <4> QED
        BY <4>1 DEF Between
    <3>14. CellsOf(m) \subseteq Between(cells, i, n)
      BY <3>6, <3>10, <3>12, <3>13 DEF SortedPart
    <3> QED
      BY <3>7, <3>9, <3>10, <3>11, <3>14 DEF SortedPart
  <2> QED
    BY <2>1, <2>2
<1>5. ASSUME NEW n \in 1 .. N, n - 1 \in P PROVE n \in P
  <2>1. Part(n)
    BY <1>4, <1>5
  <2> HIDE DEF Part
  <2>2. \A m \in 1 .. n : m \in 1 .. n - 1 \/ m = n
    OBVIOUS
  <2>3. \A m \in 1 .. n - 1 : Part(m)
    BY <1>5
  <2> QED
    BY <2>1, <2>2, <2>3
<1>6. 0 \in P
  OBVIOUS
<1>7. P = 0 .. N
  <2>1. P \in SUBSET (0 .. N)
    OBVIOUS
  <2> HIDE DEF P
  <2> QED
    BY <1>5, <1>6, <2>1, UpTo
<1>8. Part(N)
  <2> HIDE DEF Part
  <2>1. N \in P /\ N \in 1 .. N
    BY <1>1, <1>7
  <2> QED
    BY <2>1
<1>9. 1 \in 1 .. N + 1 - N
  OBVIOUS
<1> QED
  BY <1>1, <1>2, <1>8, <1>9

-----------------------------------------------------------------------------
(* Distinct cells are as many as the row is long.                          *)
LEMMA CellsCounted ==
  ASSUME NEW S, NEW q \in Seq(S), Distinct(q)
  PROVE  IsFiniteSet(CellsOf(q)) /\ Cardinality(CellsOf(q)) = Len(q)
<1>1. PICK n \in Nat : n = Len(q)
  BY LenProperties
<1> DEFINE f == [i \in 1 .. n |-> q[i]]
<1>2. f \in [1 .. n -> CellsOf(q)]
  BY <1>1 DEF CellsOf
<1>3. \A i, j \in 1 .. n : f[i] = f[j] => i = j
  BY <1>1 DEF Distinct
<1>4. \A c \in CellsOf(q) : \E i \in 1 .. n : f[i] = c
  BY <1>1 DEF CellsOf
<1> HIDE DEF f
<1>5. f \in Bijection(1 .. n, CellsOf(q))
  BY <1>2, <1>3, <1>4, Zenon DEF Bijection, Injection, Surjection, IsInjective
<1>6. ExistsBijection(1 .. n, CellsOf(q))
  BY <1>5 DEF ExistsBijection
<1> QED
  <2>1. IsFiniteSet(1 .. n) /\ Cardinality(1 .. n) = n
    BY FS_Interval
  <2> QED
    BY <1>1, <1>6, <2>1, FS_Bijection

(* A sorted row is the new list.                                           *)
LEMMA SortsAll ==
  ASSUME ListInv, Proper, sort_list
  PROVE  ListStep
<1>0. /\ \E q \in Seq(Cell) : IsRow(q, list_nodes, head, curr_size)
      /\ Closed /\ (Closed => Intact)
  <2>1. list_made /\ list_use # "misused" /\ Closed
    BY DEF sort_list, Uses, Proper, Closed
  <2> QED
    BY <2>1, UsedBefore
<1>1. PICK q : IsRow(q, list_nodes, head, curr_size)
  BY <1>0
<1>2. PICK n : n = curr_size
  OBVIOUS
<1>3. /\ list_made /\ list_made' /\ n # 0 /\ curr_size' = n /\ list_said' = Said("sort", 0, 0)
  BY <1>2 DEF sort_list, Sortable
<1>4. /\ n = Len(q) /\ n \in Nat /\ Distinct(q) /\ DOMAIN list_nodes = CellsOf(q)
      /\ \A i \in 1 .. n : q[i] \in Cell /\ list_nodes[q[i]] \in Node
  BY <1>1, <1>2, RowFacts
<1>5. q \in Seq(Cell) /\ n > 0 /\ 1 \in 1 .. n
  BY <1>1, <1>3, <1>4 DEF IsRow
<1>6. [i \in 1 .. curr_size |-> Ahead[i - 1]] = q
  <2>1. \A i \in 1 .. n : Ahead[i - 1] = q[i]
    BY <1>1, <1>2, AheadAlong
  <2>2. q = [i \in 1 .. n |-> q[i]]
    BY <1>4, <1>5
  <2> QED
    BY <1>2, <2>1, <2>2
<1>7. \A c \in CellsOf(q) : list_nodes[c] \in Node /\ list_nodes[c].data \in Int
  <2>1. \A c \in CellsOf(q) : list_nodes[c] \in Node
    BY <1>4 DEF CellsOf
  <2> QED
    BY <2>1, CellAssumption DEF Node
<1>8. PICK s : s = merge_sort(q)
  OBVIOUS
<1>9. SortedPart(q, n, 1, s)
  BY <1>4, <1>5, <1>7, <1>8, SortSorts
<1>10. s \in Seq(CellsOf(q)) /\ Len(s) = n /\ Distinct(s) /\ Descending(s)
  BY <1>9 DEF SortedPart
<1>11. \A i \in 1 .. n : s[i] \in CellsOf(q)
  BY <1>10, ElementOfSeq
<1>12. CellsOf(s) = CellsOf(q)
  <2>1. CellsOf(s) \in SUBSET CellsOf(q)
    BY <1>10, <1>11 DEF CellsOf
  <2>2. IsFiniteSet(CellsOf(q)) /\ Cardinality(CellsOf(q)) = n
    BY <1>4, <1>5, CellsCounted
  <2>3. Cardinality(CellsOf(s)) = n
    BY <1>10, CellsCounted
  <2> QED
    BY <2>1, <2>2, <2>3, FS_Subset
<1>13. DOMAIN s = 1 .. n
  BY <1>10, <1>4
<1>14. ASSUME NEW i \in 1 .. n PROVE Following(s[i], s) = IF i = n THEN s[1] ELSE s[i + 1]
  <2>1. \A j \in 1 .. n : s[j] = s[i] => j = i
    BY <1>10 DEF Distinct
  <2>2. Place(s[i], s) = i
    BY <1>13, <2>1 DEF Place
  <2> QED
    BY <1>2, <2>2 DEF Following
<1>15. head' = s[1] /\ last' = s[n] /\ list_nodes' = Relinked(s)
  <2>1. s = merge_sort([i \in 1 .. curr_size |-> Ahead[i - 1]])
    BY <1>6, <1>8
  <2> QED
    BY <1>2, <2>1 DEF sort_list
<1>16. ASSUME NEW i \in 1 .. n
       PROVE  /\ list_nodes'[s[i]] \in Node /\ list_nodes'[s[i]].data = list_nodes[s[i]].data
              /\ list_nodes'[s[i]].next = Following(s[i], s)
  <2>1. PICK c, x : c = s[i] /\ x = Following(s[i], s)
    OBVIOUS
  <2>2. c \in CellsOf(q) /\ list_nodes[c] \in Node
    BY <1>7, <1>11, <2>1
  <2>3. x \in Cell
    <3>1. x = s[1] \/ (i + 1 \in 1 .. n /\ x = s[i + 1])
      <4>1. x = IF i = n THEN s[1] ELSE s[i + 1]
        BY <1>14, <2>1
      <4>2. i = n \/ i + 1 \in 1 .. n
        BY <1>4
      <4> QED
        BY <4>1, <4>2
    <3>2. x \in CellsOf(q)
      BY <1>5, <1>11, <3>1
    <3> QED
      BY <1>4, <3>2 DEF CellsOf
  <2>4. list_nodes'[c] = [list_nodes[c] EXCEPT !.next = x]
    BY <1>4, <1>15, <2>1, <2>2 DEF Relinked
  <2> QED
    BY <2>1, <2>2, <2>3, <2>4 DEF Node
<1>17. IsRow(s, list_nodes', head', curr_size')
  <2>1. s \in Seq(Cell)
    <3>1. \A i \in 1 .. n : s[i] \in Cell
      BY <1>4, <1>11 DEF CellsOf
    <3>2. s \in [1 .. n -> Cell]
      BY <1>10, <1>13, <3>1
    <3> QED
      BY <1>4, <3>2
  <2>2. list_nodes' \in [CellsOf(s) -> Node]
    <3>1. \A c \in CellsOf(s) : list_nodes'[c] \in Node
      BY <1>10, <1>16 DEF CellsOf
    <3>2. list_nodes' = [c \in CellsOf(s) |-> list_nodes'[c]]
      <4>1. list_nodes' = [c \in CellsOf(s) |-> [list_nodes[c] EXCEPT !.next = Following(c, s)]]
        BY <1>4, <1>12, <1>15 DEF Relinked
      <4>2. \A c \in CellsOf(s) : list_nodes'[c] = [list_nodes[c] EXCEPT !.next = Following(c, s)]
        BY <4>1
      <4> QED
        BY <4>1, <4>2
    <3> QED
      BY <3>1, <3>2
  <2>3. ASSUME NEW i \in 1 .. n - 1 PROVE list_nodes'[s[i]].next = s[i + 1]
    <3>1. i \in 1 .. n /\ i # n
      BY <1>4
    <3> QED
      BY <1>14, <1>16, <3>1
  <2> QED
    BY <1>3, <1>10, <1>15, <2>1, <2>2, <2>3 DEF IsRow
<1>18. ListInv'
  <2>1. s \in Seq(Cell)
    BY <1>17 DEF IsRow
  <2>2. n \in 1 .. n /\ Following(s[n], s) = s[1]
    BY <1>4, <1>5, <1>14
  <2>3. list_nodes'[last'].next = head' /\ last' \in DOMAIN list_nodes'
    <3>1. DOMAIN list_nodes' = CellsOf(q) /\ s[n] \in CellsOf(q)
      BY <1>4, <1>11, <1>15, <2>2 DEF Relinked
    <3> QED
      BY <1>15, <1>16, <2>2, <3>1
  <2>4. Intact'
    BY <1>3, <1>5, <2>3 DEF Intact
  <2> QED
    BY <1>3, <1>17, <2>1, <2>4 DEF ListInv, Proper
<1>19. view_list = DataOf(q, list_nodes) /\ view_list' = DataOf(s, list_nodes')
  BY <1>1, <1>3, <1>17, ViewAlong, ViewAlongThen
<1>20. /\ view_list = [i \in 1 .. n |-> list_nodes[q[i]].data]
       /\ view_list' = [i \in 1 .. n |-> list_nodes[s[i]].data]
  BY <1>4, <1>10, <1>16, <1>19 DEF DataOf
<1> DEFINE origin == [i \in 1 .. n |-> CHOOSE j \in 1 .. n : q[j] = s[i]]
<1>21. ASSUME NEW i \in 1 .. n PROVE origin[i] \in 1 .. n /\ q[origin[i]] = s[i]
  <2>1. \E j \in 1 .. n : q[j] = s[i]
    BY <1>4, <1>11 DEF CellsOf
  <2> QED
    BY <2>1
<1>22. origin \in [1 .. n -> 1 .. n]
  BY <1>21
<1> HIDE DEF origin
<1>23. \A i, j \in 1 .. n : origin[i] = origin[j] => i = j
  BY <1>10, <1>21 DEF Distinct
<1>24. view_list' = [i \in 1 .. n |-> view_list[origin[i]]]
  BY <1>20, <1>21
<1>25. DOMAIN view_list = 1 .. n /\ Len(view_list) = n
  BY <1>1, <1>2, <1>19, <1>20, RowFacts
<1>26. \A i \in 1 .. n - 1 : view_list'[i] >= view_list'[i + 1]
  <2> SUFFICES ASSUME NEW i \in 1 .. n - 1 PROVE view_list'[i] >= view_list'[i + 1]
    OBVIOUS
  <2>1. i \in 1 .. n /\ i + 1 \in 1 .. n
    BY <1>4
  <2>2. view_list'[i] = list_nodes[s[i]].data /\ view_list'[i + 1] = list_nodes[s[i + 1]].data
    BY <1>20, <2>1
  <2> QED
    BY <1>10, <2>2 DEF Descending
<1>27. PromisedList!Sort
  <2>1. \E p \in [DOMAIN view_list -> DOMAIN view_list] :
          /\ \A i, j \in DOMAIN view_list : p[i] = p[j] => i = j
          /\ view_list' = [i \in DOMAIN view_list |-> view_list[p[i]]]
    BY <1>22, <1>23, <1>24, <1>25
  <2>2. \A i \in 1 .. Len(view_list) - 1 : view_list'[i] >= view_list'[i + 1]
    BY <1>25, <1>26
  <2> QED
    BY <1>3, <2>1, <2>2 DEF PromisedList!Sort, PromisedList!Said, Said
<1> QED
  BY <1>18, <1>27 DEF ListStep, PromisedList!Next

(* Every call that does not misuse the list is one of the promised ones.   *)
LEMMA ProperCallsAct ==
  ASSUME ListInv, Proper, ListCall
  PROVE  ListStep
<1>1. ASSUME NEW d \in Data, insert_front(d) \/ insert_back(d) PROVE ListStep
  BY <1>1, InsertsInFront, InsertsBehind
<1>2. ASSUME NEW d \in Data, NEW index \in 1 .. Farthest, insert_at(d, index) PROVE ListStep
  <2>1. index \in Nat
    OBVIOUS
  <2> QED
    BY <1>2, <2>1, InsertsAt
<1>3. ASSUME remove_front \/ remove_back PROVE ListStep
  BY <1>3, RemovesFront, RemovesBack
<1>4. ASSUME NEW index \in 0 .. Farthest, remove_at(index) \/ show_at(index) PROVE ListStep
  <2>1. index \in Nat
    OBVIOUS
  <2> QED
    BY <1>4, <2>1, RemovesAt, LooksShow
<1>5. ASSUME show_front \/ show_back PROVE ListStep
  BY <1>5, LooksShow
<1>7. ASSUME NEW at, Refused(at) PROVE ListStep
  BY <1>7, RefusesAny
<1>8. ASSUME create_circle_list \/ destroy_list PROVE ListStep
  BY <1>8, CreatesEmpty, DestroysAll
<1>9. ASSUME sort_list PROVE ListStep
  BY <1>9, SortsAll
<1> QED
  BY <1>1, <1>2, <1>3, <1>4, <1>5, <1>7, <1>8, <1>9 DEF ListCall

(* No call goes astray that does not misuse the list: `fits' is false of   *)
(* each that can.                                                          *)
LEMMA NoneStrays ==
  ASSUME ListInv, GoesAstray \/ \E n \in 0 .. Farthest : GoesAstrayAt(n)
  PROVE  list_use' = "misused"
<1> SUFFICES ASSUME list_use' # "misused" PROVE FALSE
  OBVIOUS
<1>1. list_use # "misused" /\ list_made
  BY DEF GoesAstray, GoesAstrayAt, Stray, Uses
<1>2. PICK q : IsRow(q, list_nodes, head, curr_size)
  BY <1>1, UsedBefore
<1>3. /\ curr_size = Len(q) /\ curr_size \in Nat /\ DOMAIN list_nodes = CellsOf(q)
      /\ \A i \in 1 .. curr_size : q[i] \in DOMAIN list_nodes
      /\ curr_size > 0 => head = q[1]
  BY <1>2, RowFacts
<1>4. \A i \in 1 .. curr_size : Ahead[i - 1] = q[i]
  BY <1>2, AheadAlong
<1>5. \A n \in 0 .. curr_size - 1 : Allocated(Ahead[n])
  <2> SUFFICES ASSUME NEW n \in 0 .. curr_size - 1 PROVE Allocated(Ahead[n])
    OBVIOUS
  <2>1. n + 1 \in 1 .. curr_size /\ n + 1 - 1 = n
    BY <1>3
  <2> QED
    BY <1>3, <1>4, <2>1 DEF Allocated
<1>6. AllPassed
  <2>1. \A n \in 0 .. curr_size - 1 : Ahead[n] \in DOMAIN list_nodes
    BY <1>5 DEF Allocated
  <2>2. ASSUME NEW i \in 1 .. Len(q) PROVE q[i] \in {Ahead[n] : n \in 0 .. curr_size - 1}
    <3>1. i - 1 \in 0 .. curr_size - 1 /\ Ahead[i - 1] = q[i]
      BY <1>3, <1>4
    <3> QED
      BY <3>1
  <2> QED
    BY <1>3, <2>1, <2>2 DEF AllPassed, CellsOf
<1>7. curr_size # 0 => Allocated(head) /\ Allocated(Ahead[curr_size - 1])
  BY <1>3, <1>5 DEF Allocated
<1>8. ASSUME Closed
      PROVE  /\ head # Null => curr_size # 0
             /\ curr_size # 0 => /\ Allocated(last) /\ Ahead[curr_size - 1] = last
                                 /\ Allocated(Ahead[curr_size])
  <2>1. Intact
    BY <1>1, <1>8, UsedBefore
  <2>2. head # Null => curr_size # 0
    BY <1>2, <2>1, IntactClosed
  <2>3. ASSUME curr_size # 0
        PROVE  Allocated(last) /\ Ahead[curr_size - 1] = last /\ Allocated(Ahead[curr_size])
    <3>1. curr_size > 0 /\ curr_size \in 1 .. curr_size
      BY <1>3, <2>3
    <3>2. last = q[curr_size] /\ list_nodes[last].next = q[1]
      BY <1>2, <2>1, <3>1, IntactClosed
    <3>3. Ahead[curr_size] = q[1] /\ 1 \in 1 .. curr_size
      BY <1>2, <1>3, <3>1, <3>2, AheadAlong
    <3> QED
      BY <1>3, <1>4, <3>1, <3>2, <3>3 DEF Allocated
  <2> QED
    BY <2>2, <2>3
<1>9. ~GoesAstray
  <2> SUFFICES ASSUME GoesAstray PROVE FALSE
    OBVIOUS
  <2>1. \A fits \in BOOLEAN : Stray(fits) => fits
    BY DEF Stray, Uses
  <2>2. /\ Closed \in BOOLEAN /\ (Closed /\ curr_size # 0) \in BOOLEAN
        /\ TRUE \in BOOLEAN /\ FALSE \in BOOLEAN
    BY DEF Closed
  <2>3. ~Stray(FALSE)
    BY <2>1
  <2> QED
    BY <1>6, <1>7, <1>8, <2>3 DEF GoesAstray, Sortable, Stray, Uses
<1>10. ASSUME NEW n \in 0 .. Farthest, GoesAstrayAt(n) PROVE FALSE
  <2>1. CASE n # 0 /\ ~Allocated(Ahead[n - 1]) /\ n <= curr_size
    <3>1. n - 1 \in 0 .. curr_size - 1
      BY <1>3, <2>1
    <3> QED
      BY <1>5, <2>1, <3>1
  <2>2. CASE ~Allocated(Ahead[n]) /\ n < curr_size
    <3>1. n \in 0 .. curr_size - 1
      BY <1>3, <2>2
    <3> QED
      BY <1>5, <2>2, <3>1
  <2>3. CASE curr_size # 0 /\ n <= curr_size /\ ~Allocated(Ahead[n]) /\ Closed
    <3>1. n = curr_size \/ n \in 0 .. curr_size - 1
      BY <1>3, <2>3
    <3> QED
      BY <1>5, <1>8, <2>3, <3>1
  <2> QED
    BY <1>10, <2>1, <2>2, <2>3 DEF GoesAstrayAt, Stray, Uses
<1> QED
  BY <1>9, <1>10

(* A misused list is left without cells where it is destroyed.             *)
LEMMA MisusedStays ==
  ASSUME ListInv, [ListNext]_listVars, list_use' = "misused"
  PROVE  ListInv'
<1>1. ASSUME ~list_made' PROVE list_nodes' \in [{} -> Node]
  <2>1. CASE destroy_list
    <3>1. DOMAIN list_nodes \ {Ahead[n] : n \in 0 .. curr_size - 1} = {}
      BY <2>1 DEF destroy_list, AllPassed
    <3> QED
      BY <2>1, <3>1 DEF destroy_list, Without
  <2>2. CASE UNCHANGED <<list_nodes, list_made>>
    BY <1>1, <2>2 DEF ListInv
  <2>3. destroy_list \/ UNCHANGED <<list_nodes, list_made>>
    <3>1. CASE ListCall
      <4>1. create_circle_list => list_made'
        BY DEF create_circle_list
      <4>2. show_front => list_made /\ list_made' = list_made
        BY DEF show_front
      <4>3. show_back => list_made /\ list_made' = list_made
        BY DEF show_back
      <4>4. remove_front => list_made /\ list_made' = list_made
        BY DEF remove_front
      <4>5. remove_back => list_made /\ list_made' = list_made
        BY DEF remove_back
      <4>6. sort_list => list_made /\ list_made' = list_made
        BY DEF sort_list
      <4>7. \A d : insert_front(d) => list_made /\ list_made' = list_made
        BY DEF insert_front
      <4>8. \A d : insert_back(d) => list_made /\ list_made' = list_made
        BY DEF insert_back
      <4>9. \A d, n : insert_at(d, n) => list_made /\ list_made' = list_made
        BY DEF insert_at
      <4>10. \A n : Refused(n) => list_made /\ list_made' = list_made
        BY DEF Refused
      <4>11. \A n : show_at(n) => list_made /\ list_made' = list_made
        BY DEF show_at
      <4>12. \A n : remove_at(n) => list_made /\ list_made' = list_made
        BY DEF remove_at
      <4>13. ~create_circle_list /\ ~show_front /\ ~show_back /\ ~remove_front /\ ~remove_back
               /\ ~sort_list
        BY <1>1, <4>1, <4>2, <4>3, <4>4, <4>5, <4>6
      <4>14. \A d, n : ~insert_front(d) /\ ~insert_back(d) /\ ~insert_at(d, n)
        BY <1>1, <4>7, <4>8, <4>9
      <4>15. \A n : ~Refused(n) /\ ~show_at(n) /\ ~remove_at(n)
        BY <1>1, <4>10, <4>11, <4>12
      <4> QED
        BY <3>1, <4>13, <4>14, <4>15, Zenon DEF ListCall
    <3>2. CASE GoesAstray \/ \E n \in 0 .. Farthest : GoesAstrayAt(n)
      BY <3>2 DEF GoesAstray, GoesAstrayAt, Stray
    <3>3. CASE UNCHANGED listVars
      BY <3>3 DEF listVars
    <3> QED
      BY <3>1, <3>2, <3>3 DEF ListNext
  <2> QED
    BY <2>1, <2>2, <2>3
<1> QED
  BY <1>1 DEF ListInv

LEMMA ListSteps ==
  ASSUME ListInv, [ListNext]_listVars
  PROVE  ListInv' /\ [list_use' # "misused" => PromisedList!Next]_listVars
<1>1. CASE list_use' = "misused"
  BY <1>1, MisusedStays
<1>2. CASE list_use' # "misused" /\ UNCHANGED listVars
  <2>1. list_use # "misused" /\ Proper /\ (Closed' => Closed)
    BY <1>2 DEF listVars, ListInv, Proper, Closed
  <2> QED
    BY <1>2, <2>1, ViewStays DEF listVars
<1>3. CASE list_use' # "misused" /\ ~UNCHANGED listVars
  <2>1. ListCall /\ ~list_lost'
    BY <1>3, NoneStrays DEF ListNext
  <2> QED
    BY <1>3, <2>1, ProperCallsAct DEF Proper, ListStep
<1> QED
  BY <1>1, <1>2, <1>3

LEMMA ListStarts == ListInit => ListInv /\ PromisedList!Init
<1> SUFFICES ASSUME ListInit PROVE ListInv /\ PromisedList!Init
  OBVIOUS
<1>1. /\ list_nodes \in [{} -> Node] /\ list_made /\ curr_size = 0 /\ head = Null
      /\ list_said = Said("create", 0, 0) /\ ~list_lost
  BY DEF ListInit
<1>2. IsRow(<<>>, list_nodes, head, curr_size) /\ DataOf(<<>>, list_nodes) = <<>>
  BY <1>1, EmptyRow
<1>3. <<>> \in Seq(Cell)
  OBVIOUS
<1>4. view_list = <<>>
  BY <1>1, <1>2, ViewAlong
<1> QED
  BY <1>1, <1>2, <1>3, <1>4 DEF ListInv, Intact, PromisedList!Init, PromisedList!Said, Said

LEMMA ListInvariant == ListSpec => []ListInv
<1>1. ListInv /\ [ListNext]_listVars => ListInv'
  BY ListSteps
<1>2. ListInit => ListInv
  BY ListStarts
<1> QED
  BY <1>1, <1>2, PTL DEF ListSpec

(* Whatever is called in whatever order, as long as callers do not rely on *)
(* `last' after a call has put in or taken out a node at the end and left  *)
(* it behind, nor on a place that does not exist, and whichever cells      *)
(* malloc gives: every call ends, the list behaves as a sequence of items, *)
(* every answer is the one that the sequence gives, and sorting keeps      *)
(* every item and puts the greatest first (circle_link.c).                 *)
THEOREM ListIsSequence == ListSpec => ListActsAsSequence
<1>1. ListInit => PromisedList!Init
  BY ListStarts
<1>2. ListInv /\ [ListNext]_listVars => [list_use' # "misused" => PromisedList!Next]_listVars
  BY ListSteps
<1> QED
  BY <1>1, <1>2, ListInvariant, PTL DEF ListSpec, ListActsAsSequence

LEMMA RowIsOneRing ==
  ASSUME ListInv
  PROVE  OneRing
<1> SUFFICES ASSUME list_use # "misused" PROVE OneRing
  BY DEF OneRing
<1>3. ~list_lost
  BY DEF ListInv
<1>1. CASE list_made
  <2>1. PICK q \in Seq(Cell) : IsRow(q, list_nodes, head, curr_size)
    BY <1>1 DEF ListInv
  <2>2. curr_size = Len(q) /\ curr_size \in Nat /\ Distinct(q) /\ DOMAIN list_nodes = CellsOf(q)
    BY <2>1, RowFacts
  <2>3. \A i \in 1 .. curr_size : Ahead[i - 1] = q[i]
    BY <2>1, AheadAlong
  <2>4. ASSUME NEW n \in 0 .. curr_size - 1 PROVE Ahead[n] \in CellsOf(q)
    <3>1. n + 1 \in 1 .. curr_size /\ n + 1 - 1 = n
      BY <2>2
    <3>2. Ahead[n] = q[n + 1]
      BY <2>3, <3>1
    <3> QED
      BY <2>2, <3>1, <3>2 DEF CellsOf
  <2>5. ASSUME NEW i \in 1 .. Len(q) PROVE q[i] \in {Ahead[n] : n \in 0 .. curr_size - 1}
    <3>1. i - 1 \in 0 .. curr_size - 1 /\ Ahead[i - 1] = q[i]
      BY <2>2, <2>3
    <3> QED
      BY <3>1
  <2>6. CellsOf(q) = {Ahead[n] : n \in 0 .. curr_size - 1}
    BY <2>4, <2>5 DEF CellsOf
  <2>7. Cardinality(DOMAIN list_nodes) = curr_size
    BY <2>2, CellsCounted
  <2>8. ASSUME Closed, curr_size > 0
        PROVE  Ahead[curr_size - 1] = last /\ Ahead[curr_size] = head
    <3>0. Intact
      BY <1>1, <2>8, UsedBefore
    <3>1. curr_size \in 1 .. curr_size
      BY <2>2, <2>8
    <3>2. Ahead[curr_size] = list_nodes[q[curr_size]].next
      BY <2>1, <2>8, AheadAlong
    <3>3. last = q[curr_size] /\ list_nodes[last].next = q[1]
      BY <2>1, <2>8, <3>0, IntactClosed
    <3>4. head = q[1]
      BY <2>1, <2>8, RowFacts
    <3> QED
      BY <2>3, <3>1, <3>2, <3>3, <3>4
  <2> QED
    BY <1>1, <1>3, <2>2, <2>6, <2>7, <2>8 DEF OneRing
<1>2. CASE ~list_made
  <2>1. DOMAIN list_nodes = {}
    BY <1>2 DEF ListInv
  <2> QED
    BY <1>2, <1>3, <2>1, FS_EmptySet DEF OneRing
<1> QED
  BY <1>1, <1>2

(* Whatever has been called on a stack, and on a circular list that has    *)
(* not been misused, no cell is lost, none is reached twice and none is    *)
(* followed after it was freed: what is allocated is what the two reach,   *)
(* and `last' closes the ring until remove_back, or an insertion or a      *)
(* removal at the end by index, or the removal of the only item leaves it  *)
(* behind (pop_nth, remove_*, insert_*, sort_list and the destroyers).     *)
THEOREM NodesStayAccounted == StackSpec /\ ListSpec => []NodesAccounted
<1>1. ListInv => OneRing
  BY RowIsOneRing
<1>2. ListSpec => []OneRing
  BY <1>1, ListInvariant, PTL
<1>3. NothingLeaked /\ OneRing => NodesAccounted
  BY DEF NodesAccounted
<1> QED
  BY <1>2, <1>3, NoCellLeaked, PTL
=============================================================================
