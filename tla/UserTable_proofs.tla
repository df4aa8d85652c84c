-------------------------- MODULE UserTable_proofs --------------------------
(***************************************************************************)
(* Proofs about the accounts: a table never fills up, a start finds every  *)
(* account of the file and dies only without an admin, a deletion removes  *)
(* one account, and without deletions, kills and names that start others   *)
(* the accounts are those of AccountStore.                                 *)
(***************************************************************************)
EXTENDS UserTable, FiniteSetTheorems, SequenceTheorems, NaturalsInduction, WellFoundedInduction, TLAPS

-----------------------------------------------------------------------------
(* A table, and what of it the proofs speak of                             *)

Slots(t) == 0 .. t.max - 1
Entry == Account \cup {Nil}

Tables == UNION {[entries : [0 .. m - 1 -> Entry], max : {m}, size : Nat] : m \in Nat \ {0, 1}}

(* size counts every account at least once, and is below the capacity.     *)
Sized(t) == t.size < t.max /\ Cardinality(Occupied(t)) <= t.size

(* Every account is found: no NULL entry comes before it.                  *)
Chained(t) ==
  \A i \in Occupied(t) : \E k \in Slots(t) :
    /\ Probe(t, t.entries[i].name, k) = i
    /\ \A j \in 0 .. k - 1 : t.entries[Probe(t, t.entries[i].name, j)] # Nil

AllAccounts == Contents(ht) \cup ToSet(pending)

PhaseInv ==
  /\ phase \in {"off", "first", "saving"} => pending = <<>>
  /\ phase = "off" => ht = EmptyTable(Capacity, 0)
  /\ pending # <<>> => out.op \in {"none", "create"}

(* While a table is being filled nothing is removed: whatever was inserted *)
(* is found, and nothing is missing but what is still to be inserted.      *)
LoadInv ==
  /\ phase \in {"defaults", "first", "reading"} => Chained(ht) /\ out.op = "none"
  /\ phase \in {"defaults", "first"} => AllAccounts = ToSet(Defaults)
  /\ phase = "reading" => file # Absent /\ AllAccounts = ToSet(file)
  /\ out.op = "start" => pending = <<>> /\ Chained(ht) /\ Contents(ht) = ToSet(file)

UserInv == TypeOK /\ ht \in Tables /\ Sized(ht) /\ PhaseInv /\ LoadInv /\ StartFindsAdmin

UniqueNames(S) == \A a, b \in S : a.name = b.name => a = b

(* Nobody deletes, nobody kills the server, and no name starts another     *)
Plain == Habits = {} /\ \A n \in Name : Longer[n] = {}

StoreInv ==
  /\ UserInv
  /\ Chained(ht)
  /\ UniqueNames(Accounts)
  /\ phase \in {"off", "saving"} => out.op \in {"none", "died"}

-----------------------------------------------------------------------------
(* Probes                                                                  *)

LEMMA LeastOf ==
  ASSUME NEW T \in SUBSET Nat, T # {}
  PROVE  \E x \in T : \A y \in T : x <= y
<1>1. \E x \in T : \A y \in T : <<y, x>> \notin OpToRel(<, Nat)
  BY NatLessThanWellFounded, WFMin, Zenon
<1>2. PICK x \in T : \A y \in T : ~(y < x)
  BY <1>1, Zenon DEF OpToRel
<1> QED
  BY <1>2

LEMMA NilIsNoAccount == Nil \notin Account
  BY DEF Nil, Account

LEMMA TableShape ==
  ASSUME NEW t \in Tables
  PROVE  /\ t.max \in Nat \ {0, 1} /\ t.size \in Nat
         /\ t.entries \in [Slots(t) -> Entry]
         /\ t = [entries |-> t.entries, max |-> t.max, size |-> t.size]
<1>1. PICK m \in Nat \ {0, 1} : t \in [entries : [0 .. m - 1 -> Entry], max : {m}, size : Nat]
  BY DEF Tables
<1> QED
  BY <1>1 DEF Slots

LEMMA TableMade ==
  ASSUME NEW m \in Nat \ {0, 1}, NEW e \in [0 .. m - 1 -> Entry], NEW n \in Nat
  PROVE  [entries |-> e, max |-> m, size |-> n] \in Tables
<1>1. [entries |-> e, max |-> m, size |-> n] \in [entries : [0 .. m - 1 -> Entry], max : {m}, size : Nat]
  OBVIOUS
<1> QED
  BY <1>1 DEF Tables

LEMMA ProbeInSlots ==
  ASSUME NEW t \in Tables, NEW n \in Name, NEW k \in Slots(t)
  PROVE  Probe(t, n, k) \in Slots(t)
<1>1. Hash[n] \in Nat /\ t.max \in Nat \ {0, 1}
  BY UserTableAssumption, TableShape
<1>2. Hash[n] % t.max \in 0 .. t.max - 1
  BY <1>1
<1> QED
  BY <1>1, <1>2 DEF Probe, Slots

LEMMA ProbeReaches ==
  ASSUME NEW t \in Tables, NEW n \in Name, NEW i \in Slots(t)
  PROVE  \E k \in Slots(t) : Probe(t, n, k) = i
<1>1. Hash[n] \in Nat /\ t.max \in Nat \ {0, 1}
  BY UserTableAssumption, TableShape
<1>2. PICK h \in 0 .. t.max - 1 : h = Hash[n] % t.max
  BY <1>1
<1>3. CASE i >= h
  <2>1. i - h \in Slots(t)
    BY <1>1, <1>3 DEF Slots
  <2>2. Probe(t, n, i - h) = i
    BY <1>1, <1>2, <1>3 DEF Probe, Slots
  <2> QED
    BY <2>1, <2>2
<1>4. CASE i < h
  <2>1. i + t.max - h \in Slots(t)
    BY <1>1, <1>4 DEF Slots
  <2>2. Probe(t, n, i + t.max - h) = i
    BY <1>1, <1>2, <1>4 DEF Probe, Slots
  <2> QED
    BY <2>1, <2>2
<1> QED
  BY <1>1, <1>3, <1>4 DEF Slots

(* If an entry is NULL, a probe ends, and at the first entry it looks for. *)
LEMMA ProbeEnds ==
  ASSUME NEW t \in Tables, NEW n \in Name, NEW wanted,
         \E i \in Slots(t) : t.entries[i] \in wanted \cup {Nil}
  PROVE  \E k \in Slots(t) :
           /\ ProbeEnd(t, n, wanted) = Probe(t, n, k)
           /\ t.entries[Probe(t, n, k)] \in wanted \cup {Nil}
           /\ \A j \in 0 .. k - 1 : t.entries[Probe(t, n, j)] \notin wanted \cup {Nil}
<1> DEFINE E == Ends(t, n, wanted)
           IsFirst(k) == \A j \in E : k <= j
<1>1. t.max \in Nat
  BY TableShape
<1>2. E \in SUBSET Nat
  BY <1>1 DEF Ends
<1>3. E # {}
  <2>1. PICK i \in Slots(t) : t.entries[i] \in wanted \cup {Nil}
    OBVIOUS
  <2>2. PICK k \in Slots(t) : Probe(t, n, k) = i
    BY ProbeReaches
  <2> QED
    BY <2>1, <2>2 DEF Ends, Slots
<1>4. \E k \in E : IsFirst(k)
  <2> HIDE DEF E
  <2> QED
    BY <1>2, <1>3, LeastOf
<1>5. PICK k \in E : k = CHOOSE x \in E : IsFirst(x)
  <2> HIDE DEF E, IsFirst
  <2> QED
    BY <1>4, Zenon
<1>6. IsFirst(k)
  <2> HIDE DEF E, IsFirst
  <2> QED
    BY <1>4, <1>5, Zenon
<1>7. ProbeEnd(t, n, wanted) = Probe(t, n, k)
  BY <1>5 DEF ProbeEnd
<1>8. k \in Slots(t) /\ t.entries[Probe(t, n, k)] \in wanted \cup {Nil}
  BY DEF Ends, Slots
<1>9. ASSUME NEW j \in 0 .. k - 1 PROVE t.entries[Probe(t, n, j)] \notin wanted \cup {Nil}
  <2>1. j \in 0 .. t.max - 1 /\ ~(k <= j)
    BY <1>1, <1>8 DEF Slots
  <2>2. j \notin E
    BY <1>6, <2>1
  <2> QED
    BY <2>1, <2>2 DEF Ends
<1> QED
  BY <1>7, <1>8, <1>9

LEMMA OccupiedFinite ==
  ASSUME NEW t \in Tables
  PROVE  IsFiniteSet(Occupied(t)) /\ Cardinality(Occupied(t)) \in Nat
<1>1. 0 \in Int /\ t.max - 1 \in Int
  BY TableShape
<1>2. IsFiniteSet(0 .. t.max - 1)
  BY <1>1, FS_Interval
<1>3. Occupied(t) \subseteq 0 .. t.max - 1
  BY DEF Occupied
<1>4. IsFiniteSet(Occupied(t))
  BY <1>2, <1>3, FS_Subset
<1> QED
  BY <1>4, FS_CardinalityType

(* "will not endlessly loop because it will be resized before becoming full" *)
LEMMA SomeEntryIsNil ==
  ASSUME NEW t \in Tables, Sized(t)
  PROVE  \E i \in Slots(t) : t.entries[i] = Nil
<1>1. t.max \in Nat \ {0, 1} /\ t.size \in Nat
  BY TableShape
<1>2. Cardinality(0 .. t.max - 1) = t.max
  <2>1. 0 \in Int /\ t.max - 1 \in Int
    BY <1>1
  <2>2. Cardinality(0 .. t.max - 1) = IF 0 > t.max - 1 THEN 0 ELSE (t.max - 1) - 0 + 1
    BY <2>1, FS_Interval
  <2> QED
    BY <1>1, <2>2
<1>3. Occupied(t) # 0 .. t.max - 1
  BY <1>1, <1>2, OccupiedFinite DEF Sized
<1> QED
  BY <1>3 DEF Occupied, Slots

LEMMA FreeSlotIsNil ==
  ASSUME NEW t \in Tables, Sized(t), NEW n \in Name
  PROVE  \E k \in Slots(t) :
           /\ FreeSlot(t, n) = Probe(t, n, k)
           /\ t.entries[Probe(t, n, k)] = Nil
           /\ \A j \in 0 .. k - 1 : t.entries[Probe(t, n, j)] # Nil
<1>1. \E i \in Slots(t) : t.entries[i] \in {} \cup {Nil}
  BY SomeEntryIsNil
<1>2. \E k \in Slots(t) :
        /\ ProbeEnd(t, n, {}) = Probe(t, n, k)
        /\ t.entries[Probe(t, n, k)] \in {} \cup {Nil}
        /\ \A j \in 0 .. k - 1 : t.entries[Probe(t, n, j)] \notin {} \cup {Nil}
  BY <1>1, ProbeEnds
<1> QED
  BY <1>2 DEF FreeSlot

LEMMA PutShape ==
  ASSUME NEW t \in Tables, Sized(t), NEW a \in Account
  PROVE  /\ Put(t, a) \in Tables
         /\ Put(t, a).max = t.max /\ Put(t, a).size = t.size + 1
         /\ Put(t, a).entries = [t.entries EXCEPT ![FreeSlot(t, a.name)] = a]
         /\ FreeSlot(t, a.name) \in Slots(t)
<1>1. a.name \in Name
  BY DEF Account
<1>2. PICK k \in Slots(t) : FreeSlot(t, a.name) = Probe(t, a.name, k)
  BY <1>1, FreeSlotIsNil
<1>3. FreeSlot(t, a.name) \in Slots(t)
  BY <1>1, <1>2, ProbeInSlots
<1>4. PICK f \in Slots(t) : f = FreeSlot(t, a.name)
  BY <1>3
<1>5. PICK m \in Nat \ {0, 1} : t \in [entries : [0 .. m - 1 -> Entry], max : {m}, size : Nat]
  BY DEF Tables
<1>6. Put(t, a) = [entries |-> [t.entries EXCEPT ![f] = a], max |-> t.max, size |-> t.size + 1]
  <2>1. Put(t, a) = [t EXCEPT !.entries[f] = a, !.size = @ + 1]
    BY <1>4 DEF Put
  <2> QED
    BY <1>5, <2>1
<1>7. /\ t.max \in Nat \ {0, 1} /\ t.size + 1 \in Nat
      /\ [t.entries EXCEPT ![f] = a] \in [0 .. t.max - 1 -> Entry]
  BY <1>4, TableShape DEF Slots, Entry
<1>8. [entries |-> [t.entries EXCEPT ![f] = a], max |-> t.max, size |-> t.size + 1] \in Tables
  BY <1>7, TableMade
<1> QED
  BY <1>3, <1>4, <1>6, <1>8

LEMMA PutProperties ==
  ASSUME NEW t \in Tables, Sized(t), NEW a \in Account
  PROVE  /\ Occupied(Put(t, a)) = Occupied(t) \cup {FreeSlot(t, a.name)}
         /\ Cardinality(Occupied(Put(t, a))) = Cardinality(Occupied(t)) + 1
         /\ Contents(Put(t, a)) = Contents(t) \cup {a}
<1>1. PICK f \in Slots(t) : f = FreeSlot(t, a.name)
  BY PutShape
<1>2. t.entries[f] = Nil
  BY <1>1, FreeSlotIsNil DEF Account
<1>3. /\ Put(t, a).max = t.max
      /\ Put(t, a).entries = [t.entries EXCEPT ![f] = a]
      /\ t.entries \in [Slots(t) -> Entry]
  BY <1>1, PutShape, TableShape
<1>4. a # Nil
  BY NilIsNoAccount
<1>5. \A i \in Slots(t) : Put(t, a).entries[i] = IF i = f THEN a ELSE t.entries[i]
  BY <1>3
<1>6. Occupied(Put(t, a)) = Occupied(t) \cup {f}
  BY <1>1, <1>3, <1>4, <1>5 DEF Occupied, Slots
<1>7. f \notin Occupied(t)
  BY <1>2 DEF Occupied
<1>8. Cardinality(Occupied(t) \cup {f}) = Cardinality(Occupied(t)) + 1
  BY <1>7, OccupiedFinite, FS_AddElement
<1>9. Contents(Put(t, a)) = Contents(t) \cup {a}
  <2>1. \A i \in Occupied(t) : i \in Slots(t) /\ i # f
    BY <1>7 DEF Occupied, Slots
  <2>2. Contents(Put(t, a)) = {Put(t, a).entries[i] : i \in Occupied(t) \cup {f}}
    BY <1>6 DEF Contents
  <2> QED
    BY <1>5, <2>1, <2>2 DEF Contents
<1> QED
  BY <1>1, <1>6, <1>8, <1>9

(* An account goes to the end of its own chain, and fills no gap but of    *)
(* other chains.                                                           *)
LEMMA PutKeepsChains ==
  ASSUME NEW t \in Tables, Sized(t), NEW a \in Account, Chained(t)
  PROVE  Chained(Put(t, a))
<1> DEFINE u == Put(t, a)
           f == FreeSlot(t, a.name)
<1>1. /\ u.max = t.max /\ f \in Slots(t)
      /\ \A i \in Slots(t) : u.entries[i] = IF i = f THEN a ELSE t.entries[i]
  <2>1. /\ u.max = t.max /\ f \in Slots(t)
        /\ u.entries = [t.entries EXCEPT ![f] = a]
    BY PutShape
  <2>2. t.entries \in [Slots(t) -> Entry]
    BY TableShape
  <2> HIDE DEF u, f
  <2> QED
    BY <2>1, <2>2
<1>2. a # Nil /\ a.name \in Name
  BY NilIsNoAccount DEF Account
<1>3. \A n, k : Probe(u, n, k) = Probe(t, n, k)
  BY <1>1 DEF Probe
<1>4. Occupied(u) = Occupied(t) \cup {f}
  BY PutProperties
<1>5. Slots(u) = Slots(t)
  BY <1>1 DEF Slots
<1>6. ASSUME NEW n \in Name, NEW k \in Slots(t), NEW j \in 0 .. k - 1, t.entries[Probe(t, n, j)] # Nil
      PROVE  u.entries[Probe(t, n, j)] # Nil
  <2>1. j \in Slots(t)
    BY TableShape DEF Slots
  <2>2. Probe(t, n, j) \in Slots(t)
    BY <2>1, ProbeInSlots
  <2> QED
    BY <1>1, <1>2, <1>6, <2>2
<1> HIDE DEF u, f
<1>7. ASSUME NEW i \in Occupied(u)
      PROVE  \E k \in Slots(t) :
               /\ Probe(t, u.entries[i].name, k) = i
               /\ \A j \in 0 .. k - 1 : u.entries[Probe(t, u.entries[i].name, j)] # Nil
  <2>1. CASE i = f
    <3>1. u.entries[i] = a
      BY <1>1, <2>1
    <3>2. PICK k \in Slots(t) :
            /\ f = Probe(t, a.name, k)
            /\ \A j \in 0 .. k - 1 : t.entries[Probe(t, a.name, j)] # Nil
      BY <1>2, FreeSlotIsNil DEF f
    <3>3. \A j \in 0 .. k - 1 : u.entries[Probe(t, a.name, j)] # Nil
      BY <1>2, <1>6, <3>2
    <3> QED
      BY <2>1, <3>1, <3>2, <3>3
  <2>2. CASE i # f
    <3>1. i \in Occupied(t) /\ i \in Slots(t)
      BY <1>4, <2>2 DEF Occupied, Slots
    <3>2. u.entries[i] = t.entries[i]
      BY <1>1, <2>2, <3>1
    <3>3. t.entries[i] \in Account
      BY <3>1, TableShape DEF Occupied, Entry
    <3>4. t.entries[i].name \in Name
      BY <3>3 DEF Account
    <3>5. PICK k \in Slots(t) :
            /\ Probe(t, t.entries[i].name, k) = i
            /\ \A j \in 0 .. k - 1 : t.entries[Probe(t, t.entries[i].name, j)] # Nil
      BY <3>1 DEF Chained
    <3>6. \A j \in 0 .. k - 1 : u.entries[Probe(t, t.entries[i].name, j)] # Nil
      BY <1>6, <3>4, <3>5
    <3> QED
      BY <3>2, <3>5, <3>6
  <2> QED
    BY <2>1, <2>2
<1>8. Chained(u)
  BY <1>3, <1>5, <1>7 DEF Chained
<1> QED
  BY <1>8 DEF u

-----------------------------------------------------------------------------
(* Induction and recursion up to a number                                  *)

LEMMA UpTo ==
  ASSUME NEW N \in Nat, NEW P \in SUBSET (0 .. N), 0 \in P, \A i \in 1 .. N : i - 1 \in P => i \in P
  PROVE  P = 0 .. N
<1> SUFFICES ASSUME (0 .. N) \ P # {} PROVE FALSE
  OBVIOUS
<1>1. PICK x \in (0 .. N) \ P : \A y \in (0 .. N) \ P : x <= y
  <2> DEFINE T == (0 .. N) \ P
  <2>1. T \in SUBSET Nat /\ T # {}
    OBVIOUS
  <2> HIDE DEF T
  <2>2. \E x \in T : \A y \in T : x <= y
    BY <2>1, LeastOf
  <2> QED
    BY <2>2 DEF T
<1>2. x \in 1 .. N /\ x - 1 \in 0 .. N /\ ~(x <= x - 1)
  BY <1>1
<1>3. x - 1 \in P
  BY <1>1, <1>2
<1> QED
  BY <1>1, <1>2, <1>3

Recursion(f, N, S, x0, g) ==
  f \in [0 .. N -> S] /\ f[0] = x0 /\ \A i \in 1 .. N : f[i] = g[i][f[i - 1]]

LEMMA RecursionExists ==
  ASSUME NEW N \in Nat, NEW S, NEW x0 \in S, NEW g \in [1 .. N -> [S -> S]]
  PROVE  \E f : Recursion(f, N, S, x0, g)
<1> DEFINE Follows(f, n) == f[0] = x0 /\ \A i \in 1 .. n : f[i] = g[i][f[i - 1]]
           P == {n \in 0 .. N : \E f \in [0 .. n -> S] : Follows(f, n)}
<1>1. 0 \in P
  <2> DEFINE h == [i \in 0 .. 0 |-> x0]
  <2>1. h \in [0 .. 0 -> S]
    OBVIOUS
  <2>2. h[0] = x0
    OBVIOUS
  <2>3. \A i \in 1 .. 0 : FALSE
    OBVIOUS
  <2> HIDE DEF h
  <2>4. \E f \in [0 .. 0 -> S] : Follows(f, 0)
    BY <2>1, <2>2, <2>3
  <2> QED
    BY <2>4
<1>2. ASSUME NEW n \in 1 .. N, n - 1 \in P PROVE n \in P
  <2>1. PICK f \in [0 .. n - 1 -> S] : Follows(f, n - 1)
    BY <1>2
  <2> DEFINE h == [i \in 0 .. n |-> IF i = n THEN g[n][f[n - 1]] ELSE f[i]]
  <2>2. f[n - 1] \in S /\ g[n][f[n - 1]] \in S
    BY <2>1
  <2>3. \A i \in 0 .. n : i # n => i \in 0 .. n - 1
    OBVIOUS
  <2>4. h \in [0 .. n -> S]
    BY <2>1, <2>2, <2>3
  <2>5. h[0] = x0
    BY <2>1
  <2>6. ASSUME NEW i \in 1 .. n PROVE h[i] = g[i][h[i - 1]]
    <3>1. i - 1 \in 0 .. n /\ i - 1 # n /\ h[i - 1] = f[i - 1]
      OBVIOUS
    <3>2. CASE i = n
      BY <3>1, <3>2
    <3>3. CASE i # n
      <4>1. i \in 1 .. n - 1 /\ h[i] = f[i]
        BY <3>3
      <4> QED
        BY <2>1, <3>1, <4>1
    <3> QED
      BY <3>2, <3>3
  <2> HIDE DEF h
  <2>7. Follows(h, n)
    BY <2>5, <2>6
  <2> HIDE DEF Follows
  <2>8. \E f1 \in [0 .. n -> S] : Follows(f1, n)
    BY <2>4, <2>7
  <2> QED
    BY <2>8
<1>3. P = 0 .. N
  <2>1. P \in SUBSET (0 .. N)
    OBVIOUS
  <2> HIDE DEF P
  <2> QED
    BY <1>1, <1>2, <2>1, UpTo
<1>4. N \in P
  <2> HIDE DEF P
  <2> QED
    BY <1>3
<1>5. PICK f \in [0 .. N -> S] : Follows(f, N)
  BY <1>4
<1>6. Recursion(f, N, S, x0, g)
  BY <1>5 DEF Recursion
<1> QED
  BY <1>6

-----------------------------------------------------------------------------
(* What a sequence holds                                                   *)

LEMMA ToSetProperties ==
  ASSUME NEW S, NEW s \in Seq(S)
  PROVE  /\ ToSet(s) \subseteq S
         /\ \A x \in S : Append(s, x) \in Seq(S) /\ ToSet(Append(s, x)) = ToSet(s) \cup {x}
         /\ \A r \in Seq(S) : s \o r \in Seq(S) /\ ToSet(s \o r) = ToSet(s) \cup ToSet(r)
         /\ s # <<>> => /\ Head(s) \in S /\ Tail(s) \in Seq(S)
                        /\ ToSet(s) = ToSet(Tail(s)) \cup {Head(s)}
<1>1. Len(s) \in Nat /\ DOMAIN s = 1 .. Len(s) /\ \A i \in 1 .. Len(s) : s[i] \in S
  BY LenProperties, ElementOfSeq
<1>2. ToSet(s) = {s[i] : i \in 1 .. Len(s)}
  BY <1>1 DEF ToSet
<1>3. ASSUME NEW x \in S PROVE Append(s, x) \in Seq(S) /\ ToSet(Append(s, x)) = ToSet(s) \cup {x}
  <2>1. /\ Append(s, x) \in Seq(S) /\ Len(Append(s, x)) = Len(s) + 1
        /\ \A i \in 1 .. Len(s) : Append(s, x)[i] = s[i]
        /\ Append(s, x)[Len(s) + 1] = x
    BY AppendProperties
  <2>2. DOMAIN Append(s, x) = 1 .. Len(s) + 1
    BY <2>1, LenProperties
  <2>3. \A i \in 1 .. Len(s) + 1 : i \in 1 .. Len(s) \/ i = Len(s) + 1
    BY <1>1
  <2>4. 1 .. Len(s) \subseteq 1 .. Len(s) + 1 /\ Len(s) + 1 \in 1 .. Len(s) + 1
    BY <1>1
  <2> QED
    BY <1>2, <2>1, <2>2, <2>3, <2>4 DEF ToSet
<1>4. ASSUME NEW r \in Seq(S) PROVE s \o r \in Seq(S) /\ ToSet(s \o r) = ToSet(s) \cup ToSet(r)
  <2>1. Len(r) \in Nat /\ DOMAIN r = 1 .. Len(r)
    BY LenProperties
  <2>2. /\ s \o r \in Seq(S) /\ Len(s \o r) = Len(s) + Len(r)
        /\ \A i \in 1 .. Len(s) + Len(r) :
             (s \o r)[i] = IF i <= Len(s) THEN s[i] ELSE r[i - Len(s)]
    BY ConcatProperties
  <2>3. DOMAIN (s \o r) = 1 .. Len(s) + Len(r)
    BY <2>2, LenProperties
  <2>4. ToSet(s \o r) = {(s \o r)[i] : i \in 1 .. Len(s) + Len(r)} /\ ToSet(r) = {r[i] : i \in 1 .. Len(r)}
    BY <2>1, <2>3 DEF ToSet
  <2>5. ASSUME NEW i \in 1 .. Len(s) + Len(r)
        PROVE  (s \o r)[i] \in {s[j] : j \in 1 .. Len(s)} \cup {r[j] : j \in 1 .. Len(r)}
    <3>1. CASE i <= Len(s)
      BY <1>1, <2>2, <3>1
    <3>2. CASE ~(i <= Len(s))
      <4>1. i - Len(s) \in 1 .. Len(r)
        BY <1>1, <2>1, <3>2
      <4> QED
        BY <2>2, <3>2, <4>1
    <3> QED
      BY <3>1, <3>2
  <2>6. ASSUME NEW j \in 1 .. Len(s) PROVE s[j] \in {(s \o r)[i] : i \in 1 .. Len(s) + Len(r)}
    <3>1. j \in 1 .. Len(s) + Len(r) /\ j <= Len(s)
      BY <1>1, <2>1
    <3> QED
      BY <2>2, <3>1
  <2>7. ASSUME NEW j \in 1 .. Len(r) PROVE r[j] \in {(s \o r)[i] : i \in 1 .. Len(s) + Len(r)}
    <3>1. Len(s) + j \in 1 .. Len(s) + Len(r) /\ ~(Len(s) + j <= Len(s)) /\ Len(s) + j - Len(s) = j
      BY <1>1, <2>1
    <3>2. (s \o r)[Len(s) + j] = r[j]
      BY <2>2, <3>1
    <3> QED
      BY <3>1, <3>2
  <2> QED
    <3> DEFINE A == {s[j] : j \in 1 .. Len(s)}
               B == {r[j] : j \in 1 .. Len(r)}
               C == {(s \o r)[i] : i \in 1 .. Len(s) + Len(r)}
    <3>1. C \subseteq A \cup B
      BY <2>5
    <3>2. A \subseteq C /\ B \subseteq C
      BY <2>6, <2>7
    <3>3. ToSet(s \o r) = C /\ ToSet(r) = B /\ ToSet(s) = A
      BY <1>2, <2>4
    <3> HIDE DEF A, B, C
    <3> QED
      BY <2>2, <3>1, <3>2, <3>3
<1>5. ASSUME s # <<>>
      PROVE  Head(s) \in S /\ Tail(s) \in Seq(S) /\ ToSet(s) = ToSet(Tail(s)) \cup {Head(s)}
  <2>1. /\ Head(s) = s[1] /\ Tail(s) \in Seq(S) /\ Len(Tail(s)) = Len(s) - 1 /\ Len(s) # 0
        /\ \A i \in 1 .. Len(Tail(s)) : Tail(s)[i] = s[i + 1]
    BY <1>5, HeadTailProperties, EmptySeq
  <2>2. DOMAIN Tail(s) = 1 .. Len(s) - 1
    BY <2>1, LenProperties
  <2>3. ToSet(Tail(s)) = {Tail(s)[i] : i \in 1 .. Len(s) - 1}
    BY <2>2 DEF ToSet
  <2>4. ASSUME NEW i \in 1 .. Len(s) PROVE s[i] \in ToSet(Tail(s)) \cup {Head(s)}
    <3>1. CASE i = 1
      BY <2>1, <3>1
    <3>2. CASE i # 1
      <4>1. i - 1 \in 1 .. Len(s) - 1 /\ i - 1 + 1 = i
        BY <1>1, <3>2
      <4> QED
        BY <2>1, <2>3, <4>1
    <3> QED
      BY <3>1, <3>2
  <2>5. ASSUME NEW i \in 1 .. Len(s) - 1 PROVE Tail(s)[i] \in ToSet(s)
    <3>1. i + 1 \in 1 .. Len(s)
      BY <1>1
    <3> QED
      BY <1>2, <2>1, <3>1
  <2>6. 1 \in 1 .. Len(s)
    BY <1>1, <2>1
  <2> QED
    BY <1>1, <1>2, <2>1, <2>3, <2>4, <2>5, <2>6
<1>6. ToSet(s) \subseteq S
  BY <1>1, <1>2
<1> QED
  BY <1>3, <1>4, <1>5, <1>6

-----------------------------------------------------------------------------
(* An empty table, and the accounts of a table in order                    *)

LEMMA EmptyTableProperties ==
  ASSUME NEW m \in Nat \ {0, 1}, NEW n \in Nat
  PROVE  /\ EmptyTable(m, n) \in Tables
         /\ EmptyTable(m, n).max = m /\ EmptyTable(m, n).size = n
         /\ Occupied(EmptyTable(m, n)) = {} /\ Contents(EmptyTable(m, n)) = {}
         /\ Chained(EmptyTable(m, n))
         /\ n < m => Sized(EmptyTable(m, n))
<1> DEFINE e == [i \in 0 .. m - 1 |-> Nil]
           t == EmptyTable(m, n)
<1>1. e \in [0 .. m - 1 -> Entry]
  BY DEF Entry
<1>2. t = [entries |-> e, max |-> m, size |-> n]
  BY DEF EmptyTable
<1> HIDE DEF e
<1>3. t \in Tables
  BY <1>1, <1>2, TableMade
<1>4. t.max = m /\ t.size = n /\ t.entries = e
  BY <1>2
<1>5. \A i \in 0 .. m - 1 : e[i] = Nil
  BY DEF e
<1> HIDE DEF t
<1>6. Occupied(t) = {}
  BY <1>4, <1>5 DEF Occupied
<1>7. Contents(t) = {} /\ Chained(t)
  BY <1>6 DEF Contents, Chained
<1>8. ASSUME n < m PROVE Sized(t)
  BY <1>4, <1>6, <1>8, FS_EmptySet DEF Sized
<1> QED
  BY <1>3, <1>4, <1>6, <1>7, <1>8 DEF t

(* The accounts in order are those of the entries, each and no other.      *)
LEMMA InOrderProperties ==
  ASSUME NEW t \in Tables
  PROVE  InOrder(t) \in Seq(Account) /\ ToSet(InOrder(t)) = Contents(t)
<1> DEFINE Upto(f) == [i \in 0 .. t.max |->
                         IF i = 0 THEN <<>>
                         ELSE IF t.entries[i - 1] = Nil THEN f[i - 1]
                         ELSE Append(f[i - 1], t.entries[i - 1])]
           S == Seq(Account)
           g == [i \in 1 .. t.max |-> [s \in S |->
                   IF t.entries[i - 1] = Nil THEN s ELSE Append(s, t.entries[i - 1])]]
<1>1. t.max \in Nat /\ t.max # 0 /\ \A i \in 1 .. t.max : i - 1 \in Slots(t) /\ t.entries[i - 1] \in Entry
  BY TableShape DEF Slots
<1>2. \A i \in 1 .. t.max : t.entries[i - 1] # Nil => t.entries[i - 1] \in Account
  BY <1>1 DEF Entry
<1>3. g \in [1 .. t.max -> [S -> S]]
  <2>1. ASSUME NEW i \in 1 .. t.max, NEW s \in S
        PROVE  (IF t.entries[i - 1] = Nil THEN s ELSE Append(s, t.entries[i - 1])) \in S
    BY <1>2, ToSetProperties
  <2> HIDE DEF S
  <2> QED
    BY <2>1
<1>4. <<>> \in S
  BY EmptySeq
<1>5. PICK f \in [0 .. t.max -> S] : f[0] = <<>> /\ \A i \in 1 .. t.max : f[i] = g[i][f[i - 1]]
  <2>1. PICK N \in Nat : N = t.max
    BY <1>1
  <2> DEFINE x0 == <<>>
  <2>2. x0 \in S
    BY <1>4
  <2>3. g \in [1 .. N -> [S -> S]]
    BY <1>3, <2>1
  <2> HIDE DEF S, g, x0
  <2>4. \E f : Recursion(f, N, S, x0, g)
    BY <2>2, <2>3, RecursionExists
  <2> QED
    BY <2>1, <2>4 DEF x0, Recursion
<1>6. \A i \in 0 .. t.max : f[i] \in S
  BY <1>5
<1>7. ASSUME NEW i \in 1 .. t.max
      PROVE  f[i] = IF t.entries[i - 1] = Nil THEN f[i - 1] ELSE Append(f[i - 1], t.entries[i - 1])
  <2>1. i - 1 \in 0 .. t.max
    BY <1>1
  <2>2. f[i - 1] \in S
    BY <1>6, <2>1
  <2> HIDE DEF S
  <2>3. g[i][f[i - 1]] =
          IF t.entries[i - 1] = Nil THEN f[i - 1] ELSE Append(f[i - 1], t.entries[i - 1])
    BY <2>2
  <2> QED
    BY <1>5, <2>3
<1>8. f = Upto(f)
  <2>1. \A i \in 0 .. t.max : i = 0 \/ i \in 1 .. t.max
    BY <1>1
  <2>2. \A i \in 0 .. t.max : f[i] = Upto(f)[i]
    BY <1>5, <1>7, <2>1
  <2>3. Upto(f) = [i \in 0 .. t.max |-> Upto(f)[i]]
    OBVIOUS
  <2>4. f = [i \in 0 .. t.max |-> f[i]]
    BY <1>5
  <2> HIDE DEF Upto
  <2> QED
    BY <2>2, <2>3, <2>4
<1>9. PICK u : u = CHOOSE h : h = Upto(h)
  OBVIOUS
<1>10. u = Upto(u)
  <2> HIDE DEF Upto
  <2> QED
    BY <1>8, <1>9, Zenon
<1>11. InOrder(t) = u[t.max]
  BY <1>9 DEF InOrder
<1>12. /\ u[0] = <<>>
       /\ \A i \in 1 .. t.max :
            u[i] = IF t.entries[i - 1] = Nil THEN u[i - 1] ELSE Append(u[i - 1], t.entries[i - 1])
  <2>1. 0 \in 0 .. t.max /\ \A i \in 1 .. t.max : i \in 0 .. t.max /\ i # 0
    BY <1>1
  <2> QED
    BY <1>10, <2>1
<1> DEFINE Before(i) == {j \in 0 .. i - 1 : t.entries[j] # Nil}
           Good(i) == u[i] \in Seq(Account) /\ ToSet(u[i]) = {t.entries[j] : j \in Before(i)}
           P == {i \in 0 .. t.max : Good(i)}
<1>13. 0 \in P
  <2>1. Before(0) = {}
    OBVIOUS
  <2>2. ToSet(<<>>) = {}
    BY DEF ToSet
  <2> HIDE DEF Before
  <2>3. {t.entries[j] : j \in Before(0)} = {}
    BY <2>1
  <2>4. Good(0)
    BY <1>4, <1>12, <2>2, <2>3
  <2>5. 0 \in 0 .. t.max
    BY <1>1
  <2> HIDE DEF Good
  <2> QED
    BY <2>4, <2>5
<1>14. ASSUME NEW i \in 1 .. t.max, i - 1 \in P PROVE i \in P
  <2>1. u[i - 1] \in Seq(Account) /\ ToSet(u[i - 1]) = {t.entries[j] : j \in Before(i - 1)}
    BY <1>14
  <2>2. CASE t.entries[i - 1] = Nil
    <3>1. Before(i) = Before(i - 1)
      BY <1>1, <2>2
    <3>2. u[i] = u[i - 1]
      BY <1>12, <2>2
    <3> QED
      BY <1>1, <2>1, <3>1, <3>2
  <2>3. CASE t.entries[i - 1] # Nil
    <3>1. Before(i) = Before(i - 1) \cup {i - 1}
      BY <1>1, <2>3
    <3>2. u[i] = Append(u[i - 1], t.entries[i - 1]) /\ t.entries[i - 1] \in Account
      BY <1>2, <1>12, <2>3
    <3>3. u[i] \in Seq(Account) /\ ToSet(u[i]) = ToSet(u[i - 1]) \cup {t.entries[i - 1]}
      BY <2>1, <3>2, ToSetProperties
    <3> HIDE DEF Before
    <3>4. {t.entries[j] : j \in Before(i)} = {t.entries[j] : j \in Before(i - 1)} \cup {t.entries[i - 1]}
      BY <3>1
    <3>5. Good(i)
      BY <2>1, <3>3, <3>4
    <3>6. i \in 0 .. t.max
      BY <1>1
    <3> HIDE DEF Good
    <3> QED
      BY <3>5, <3>6
  <2> QED
    BY <2>2, <2>3
<1>15. Good(t.max)
  <2>1. P \in SUBSET (0 .. t.max)
    OBVIOUS
  <2> HIDE DEF P
  <2>2. P = 0 .. t.max
    BY <1>1, <1>13, <1>14, <2>1, UpTo
  <2>3. t.max \in P
    BY <1>1, <2>2
  <2> QED
    BY <2>3 DEF P
<1>16. {t.entries[j] : j \in Before(t.max)} = Contents(t)
  BY DEF Contents, Occupied
<1> QED
  BY <1>11, <1>15, <1>16

-----------------------------------------------------------------------------
(* Insertions, look-ups and removals                                       *)

LEMMA InsertStep ==
  ASSUME ht \in Tables, Sized(ht), NEW a \in Account, NEW rest \in Seq(Account), Insert(a, rest)
  PROVE  /\ ht' \in Tables /\ Sized(ht')
         /\ Chained(ht) => Chained(ht')
         /\ pending' \in Seq(Account)
         /\ Contents(ht') \cup ToSet(pending') = Contents(ht) \cup {a} \cup ToSet(rest)
<1> DEFINE put == Put(ht, a)
<1>1. /\ put \in Tables /\ put.max = ht.max /\ put.size = ht.size + 1
      /\ ht.max \in Nat \ {0, 1} /\ ht.size \in Nat
  BY PutShape, TableShape
<1>2. /\ Cardinality(Occupied(put)) = Cardinality(Occupied(ht)) + 1
      /\ Contents(put) = Contents(ht) \cup {a}
      /\ Cardinality(Occupied(ht)) \in Nat /\ Cardinality(Occupied(ht)) <= ht.size
  BY PutProperties, OccupiedFinite DEF Sized
<1>3. Chained(ht) => Chained(put)
  BY PutKeepsChains
<1>4. Overfull(put) <=> put.size >= put.max
  BY <1>1 DEF Overfull
<1>5. \/ ~Overfull(put) /\ ht' = put /\ pending' = rest
      \/ /\ Overfull(put)
         /\ ht' = EmptyTable(2 * put.max - 1, put.size)
         /\ pending' = InOrder(put) \o rest
  BY DEF Insert
<1> HIDE DEF put
<1>6. CASE ~Overfull(put) /\ ht' = put /\ pending' = rest
  <2>1. put.size < put.max /\ Cardinality(Occupied(put)) <= put.size
    BY <1>1, <1>2, <1>4, <1>6
  <2>2. Sized(put)
    BY <2>1 DEF Sized
  <2> QED
    BY <1>1, <1>2, <1>3, <1>6, <2>2
<1>7. CASE /\ Overfull(put)
           /\ ht' = EmptyTable(2 * put.max - 1, put.size)
           /\ pending' = InOrder(put) \o rest
  <2>1. /\ 2 * put.max - 1 \in Nat \ {0, 1} /\ put.size \in Nat
        /\ put.size < 2 * put.max - 1
    BY <1>1 DEF Sized
  <2>2. /\ ht' \in Tables /\ Sized(ht') /\ Chained(ht')
        /\ Contents(ht') = {}
    BY <1>7, <2>1, EmptyTableProperties
  <2>3. InOrder(put) \in Seq(Account) /\ ToSet(InOrder(put)) = Contents(put)
    BY <1>1, InOrderProperties
  <2>4. /\ pending' \in Seq(Account)
        /\ ToSet(pending') = ToSet(InOrder(put)) \cup ToSet(rest)
    BY <1>7, <2>3, ToSetProperties
  <2> QED
    BY <1>2, <2>2, <2>3, <2>4
<1> QED
  BY <1>5, <1>6, <1>7

(* What a look-up returns is there, and bears the name or a longer one.    *)
LEMMA LookupProperties ==
  ASSUME NEW t \in Tables, Sized(t), NEW n \in Name
  PROVE  /\ SlotOf(t, n) \in Slots(t)
         /\ Lookup(t, n) \in Entry
         /\ Lookup(t, n) # Nil => /\ SlotOf(t, n) \in Occupied(t)
                                  /\ Lookup(t, n) \in Contents(t)
                                  /\ Matches(Lookup(t, n), n)
<1> DEFINE wanted == {a \in Contents(t) : Matches(a, n)}
<1>1. \E i \in Slots(t) : t.entries[i] \in wanted \cup {Nil}
  BY SomeEntryIsNil
<1>2. PICK k \in Slots(t) :
        /\ ProbeEnd(t, n, wanted) = Probe(t, n, k)
        /\ t.entries[Probe(t, n, k)] \in wanted \cup {Nil}
  <2> HIDE DEF wanted
  <2> QED
    BY <1>1, ProbeEnds
<1>3. SlotOf(t, n) = Probe(t, n, k)
  BY <1>2 DEF SlotOf
<1>4. SlotOf(t, n) \in Slots(t)
  BY <1>3, ProbeInSlots
<1>5. Lookup(t, n) \in wanted \cup {Nil} /\ Lookup(t, n) = t.entries[SlotOf(t, n)]
  BY <1>2, <1>3 DEF Lookup
<1>6. Lookup(t, n) \in Entry
  BY <1>4, <1>5, TableShape
<1>7. Lookup(t, n) # Nil => SlotOf(t, n) \in Occupied(t)
  BY <1>4, <1>5 DEF Occupied, Slots
<1> QED
  BY <1>4, <1>5, <1>6, <1>7

LEMMA LookupFinds ==
  ASSUME NEW t \in Tables, Sized(t), Chained(t), NEW i \in Occupied(t)
  PROVE  t.entries[i].name \in Name /\ Lookup(t, t.entries[i].name) # Nil
<1> DEFINE n == t.entries[i].name
           wanted == {a \in Contents(t) : Matches(a, n)}
<1>1. t.entries[i] \in Account
  BY TableShape DEF Occupied, Slots, Entry
<1>2. n \in Name
  BY <1>1 DEF Account
<1>3. t.entries[i] \in wanted /\ t.entries[i] # Nil
  BY DEF Contents, Matches, Occupied
<1>4. PICK k \in Slots(t) :
        /\ Probe(t, n, k) = i
        /\ \A j \in 0 .. k - 1 : t.entries[Probe(t, n, j)] # Nil
  BY DEF Chained
<1>5. \E x \in Slots(t) : t.entries[x] \in wanted \cup {Nil}
  BY SomeEntryIsNil
<1>6. PICK e \in Slots(t) :
        /\ ProbeEnd(t, n, wanted) = Probe(t, n, e)
        /\ t.entries[Probe(t, n, e)] \in wanted \cup {Nil}
        /\ \A j \in 0 .. e - 1 : t.entries[Probe(t, n, j)] \notin wanted \cup {Nil}
  <2> HIDE DEF wanted, n
  <2> QED
    BY <1>2, <1>5, ProbeEnds
<1>7. k \in Nat /\ e \in Nat
  BY TableShape DEF Slots
<1>8. ~(k < e)
  <2> HIDE DEF wanted, n
  <2> QED
    BY <1>3, <1>4, <1>6, <1>7
<1>9. t.entries[Probe(t, n, e)] # Nil
  <2> HIDE DEF wanted, n
  <2>1. CASE e = k
    BY <1>3, <1>4, <2>1
  <2>2. CASE e # k
    <3>1. e \in 0 .. k - 1
      BY <1>7, <1>8, <2>2
    <3> QED
      BY <1>4, <3>1
  <2> QED
    BY <2>1, <2>2
<1>10. Lookup(t, n) = t.entries[Probe(t, n, e)]
  BY <1>6 DEF Lookup, SlotOf
<1> QED
  BY <1>2, <1>9, <1>10

LEMMA RemoveEntryProperties ==
  ASSUME NEW t \in Tables, Sized(t), NEW n \in Name, Lookup(t, n) # Nil
  PROVE  /\ RemoveEntry(t, n) \in Tables
         /\ Sized(RemoveEntry(t, n))
         /\ SlotOf(t, n) \in Occupied(t) /\ Matches(t.entries[SlotOf(t, n)], n)
         /\ Occupied(RemoveEntry(t, n)) = Occupied(t) \ {SlotOf(t, n)}
         /\ \A j \in Occupied(RemoveEntry(t, n)) : RemoveEntry(t, n).entries[j] = t.entries[j]
<1> DEFINE u == RemoveEntry(t, n)
<1>1. PICK s \in Slots(t) : s = SlotOf(t, n) /\ s \in Occupied(t)
  BY LookupProperties
<1>2. PICK m \in Nat \ {0, 1} : t \in [entries : [0 .. m - 1 -> Entry], max : {m}, size : Nat]
  BY DEF Tables
<1>3. u = [entries |-> [t.entries EXCEPT ![s] = Nil], max |-> t.max, size |-> t.size]
  <2>1. u = [t EXCEPT !.entries[s] = Nil]
    BY <1>1 DEF RemoveEntry
  <2> QED
    BY <1>2, <2>1
<1>4. /\ t.max \in Nat \ {0, 1} /\ t.size \in Nat
      /\ t.entries \in [0 .. t.max - 1 -> Entry]
      /\ [t.entries EXCEPT ![s] = Nil] \in [0 .. t.max - 1 -> Entry]
  BY <1>1, TableShape DEF Slots, Entry
<1>5. u \in Tables
  <2> DEFINE e == [t.entries EXCEPT ![s] = Nil]
  <2> HIDE DEF e
  <2>1. [entries |-> e, max |-> t.max, size |-> t.size] \in Tables
    BY <1>4, TableMade DEF e
  <2> QED
    BY <1>3, <2>1 DEF e
<1>6. u.max = t.max /\ u.size = t.size
  BY <1>3
<1>7. \A i \in 0 .. t.max - 1 : u.entries[i] = IF i = s THEN Nil ELSE t.entries[i]
  BY <1>3, <1>4
<1> HIDE DEF u
<1>8. Occupied(u) = Occupied(t) \ {s}
  BY <1>6, <1>7 DEF Occupied
<1>9. Cardinality(Occupied(t) \ {s}) = Cardinality(Occupied(t)) - 1
  BY <1>1, OccupiedFinite, FS_RemoveElement
<1>10. Sized(u)
  BY <1>6, <1>8, <1>9, OccupiedFinite, TableShape DEF Sized
<1>11. \A j \in Occupied(u) : u.entries[j] = t.entries[j]
  BY <1>6, <1>7, <1>8 DEF Occupied
<1>12. Matches(t.entries[s], n)
  BY <1>1, LookupProperties DEF Lookup
<1> QED
  BY <1>1, <1>5, <1>8, <1>10, <1>11, <1>12 DEF u

-----------------------------------------------------------------------------
(* The invariant                                                           *)

LEMMA DefaultsProperties ==
  /\ Defaults \in Seq(Account)
  /\ ToSet(Defaults) = {Default(Admin, 3), Default(Phteven, 2)}
<1>1. Default(Admin, 3) \in Account /\ Default(Phteven, 2) \in Account
  BY UserTableAssumption DEF Default, Account, Level
<1>2. Defaults \in Seq(Account)
  BY <1>1 DEF Defaults
<1>3. ToSet(Defaults) = {Defaults[1], Defaults[2]}
  BY DEF ToSet, Defaults
<1> QED
  BY <1>2, <1>3 DEF Defaults

LEMMA OffTable ==
  /\ EmptyTable(Capacity, 0) \in Tables /\ Sized(EmptyTable(Capacity, 0))
  /\ Chained(EmptyTable(Capacity, 0)) /\ Contents(EmptyTable(Capacity, 0)) = {}
<1>1. Capacity \in Nat \ {0, 1} /\ 0 \in Nat /\ 0 < Capacity
  BY UserTableAssumption
<1> QED
  BY <1>1, EmptyTableProperties

(* The parts of the invariant a step has to establish                      *)
LEMMA InvParts ==
  ASSUME ht' \in Tables, Sized(ht'), pending' \in Seq(Account),
         file' = Absent \/ file' \in Seq(Account),
         phase' \in {"off", "defaults", "first", "reading", "up", "saving"},
         perms' \in [Session -> 0 .. 3], PhaseInv', LoadInv', StartFindsAdmin'
  PROVE  UserInv'
<1>1. /\ ht'.max \in Nat /\ ht'.size \in Nat
      /\ ht'.entries \in [0 .. ht'.max - 1 -> Account \cup {Nil}]
  BY TableShape DEF Slots, Entry
<1> QED
  BY <1>1 DEF UserInv, TypeOK

LEMMA InitInv == Init => UserInv
<1> SUFFICES ASSUME Init PROVE UserInv
  OBVIOUS
<1>1. /\ ht = EmptyTable(Capacity, 0) /\ pending = <<>> /\ file = Absent /\ phase = "off"
      /\ perms = [s \in Session |-> 0] /\ out = [op |-> "none"]
  BY DEF Init, NoPerms, Event
<1>2. ht \in Tables /\ Sized(ht) /\ pending \in Seq(Account) /\ perms \in [Session -> 0 .. 3]
  BY <1>1, OffTable, EmptySeq
<1>3. PhaseInv /\ LoadInv /\ StartFindsAdmin
  BY <1>1 DEF PhaseInv, LoadInv, StartFindsAdmin
<1>4. /\ ht.max \in Nat /\ ht.size \in Nat
      /\ ht.entries \in [0 .. ht.max - 1 -> Account \cup {Nil}]
  BY <1>2, TableShape DEF Slots, Entry
<1> QED
  BY <1>1, <1>2, <1>3, <1>4 DEF UserInv, TypeOK

(* main: an admin whom the file names is found in the table that was made  *)
(* of it.                                                                  *)
LEMMA StartedInv ==
  ASSUME UserInv, pending = <<>>, Chained(ht), Contents(ht) = ToSet(file'),
         file' \in Seq(Account), file' # Absent, Started
  PROVE  UserInv'
<1>1. /\ ht \in Tables /\ Sized(ht) /\ perms \in [Session -> 0 .. 3]
      /\ pending' = <<>> /\ perms' = perms /\ <<>> \in Seq(Account)
  BY EmptySeq DEF UserInv, TypeOK, Started
<1>2. CASE Lookup(ht, Admin) = Nil
  <2>1. phase' = "off" /\ out' = [op |-> "died"] /\ ht' = EmptyTable(Capacity, 0)
    BY <1>2 DEF Started, Event
  <2>2. ASSUME NEW k \in 1 .. Len(file') PROVE file'[k].name # Admin
    <3>1. file'[k] \in Contents(ht)
      BY DEF ToSet
    <3>2. PICK i \in Occupied(ht) : file'[k] = ht.entries[i]
      BY <3>1 DEF Contents
    <3> QED
      BY <1>1, <1>2, <3>2, LookupFinds
  <2>3. ht' \in Tables /\ Sized(ht')
    BY <2>1, OffTable
  <2>4. PhaseInv' /\ LoadInv' /\ StartFindsAdmin'
    BY <1>1, <2>1, <2>2 DEF PhaseInv, LoadInv, StartFindsAdmin
  <2> QED
    BY <1>1, <2>1, <2>3, <2>4, InvParts
<1>3. CASE Lookup(ht, Admin) # Nil
  <2>1. phase' = "up" /\ out' = [op |-> "start"] /\ ht' = ht
    BY <1>3 DEF Started, Event
  <2>2. PhaseInv' /\ LoadInv' /\ StartFindsAdmin'
    BY <1>1, <2>1 DEF PhaseInv, LoadInv, StartFindsAdmin
  <2> QED
    BY <1>1, <2>1, <2>2, InvParts
<1> QED
  BY <1>2, <1>3

LEMMA LoadingInv ==
  ASSUME UserInv,
         \/ FirstStart \/ CreateFile \/ WriteDefaults \/ Start \/ ReadAll
  PROVE  UserInv'
<1>1. /\ ht \in Tables /\ Sized(ht) /\ perms \in [Session -> 0 .. 3]
      /\ pending \in Seq(Account) /\ (file = Absent \/ file \in Seq(Account))
      /\ PhaseInv /\ LoadInv /\ <<>> \in Seq(Account)
  BY EmptySeq DEF UserInv, TypeOK
<1>2. <<>> # Absent /\ Defaults # Absent /\ Absent \notin Seq(Account)
  BY DefaultsProperties, EmptySeq, UserTableAssumption
<1>3. ToSet(<<>>) = {}
  BY DEF ToSet
<1>4. CASE FirstStart
  <2>1. /\ phase = "off" /\ phase' = "defaults" /\ pending' = Defaults /\ out' = [op |-> "none"]
        /\ ht' = ht /\ file' = file /\ perms' = perms
    BY <1>4 DEF FirstStart, Event
  <2>2. ht = EmptyTable(Capacity, 0)
    BY <1>1, <2>1 DEF PhaseInv
  <2>3. Chained(ht') /\ Contents(ht') = {}
    BY <2>1, <2>2, OffTable
  <2>4. PhaseInv' /\ LoadInv' /\ StartFindsAdmin'
    BY <2>1, <2>3 DEF PhaseInv, LoadInv, StartFindsAdmin, AllAccounts
  <2> QED
    BY <1>1, <2>1, <2>4, DefaultsProperties, InvParts
<1>5. CASE CreateFile
  <2>1. /\ phase = "defaults" /\ phase' = "first" /\ pending = <<>> /\ pending' = <<>>
        /\ ht' = ht /\ file' = <<>> /\ perms' = perms /\ out' = out
    BY <1>5 DEF CreateFile
  <2>2. PhaseInv' /\ LoadInv' /\ StartFindsAdmin'
    BY <1>1, <2>1 DEF PhaseInv, LoadInv, StartFindsAdmin, AllAccounts
  <2> QED
    BY <1>1, <2>1, <2>2, InvParts
<1>6. CASE WriteDefaults
  <2>1. phase = "first" /\ file' = Defaults /\ Started
    BY <1>6 DEF WriteDefaults
  <2>2. pending = <<>> /\ Chained(ht) /\ Contents(ht) = ToSet(Defaults)
    BY <1>1, <1>3, <2>1 DEF PhaseInv, LoadInv, AllAccounts
  <2> QED
    BY <1>2, <2>1, <2>2, DefaultsProperties, StartedInv
<1>7. CASE Start
  <2>1. /\ phase = "off" /\ phase' = "reading" /\ pending' = file /\ file # Absent
        /\ out' = [op |-> "none"] /\ ht' = ht /\ file' = file /\ perms' = perms
    BY <1>7 DEF Start, Event
  <2>2. ht = EmptyTable(Capacity, 0)
    BY <1>1, <2>1 DEF PhaseInv
  <2>3. Chained(ht') /\ Contents(ht') = {}
    BY <2>1, <2>2, OffTable
  <2>4. PhaseInv' /\ LoadInv' /\ StartFindsAdmin'
    BY <2>1, <2>3 DEF PhaseInv, LoadInv, StartFindsAdmin, AllAccounts
  <2> QED
    BY <1>1, <2>1, <2>4, InvParts
<1>8. CASE ReadAll
  <2>1. phase = "reading" /\ pending = <<>> /\ file' = file /\ Started
    BY <1>8 DEF ReadAll
  <2>2. Chained(ht) /\ file # Absent /\ Contents(ht) = ToSet(file)
    BY <1>1, <1>3, <2>1 DEF LoadInv, AllAccounts
  <2> QED
    BY <1>1, <2>1, <2>2, StartedInv
<1> QED
  BY <1>4, <1>5, <1>6, <1>7, <1>8

LEMMA InsertNextInv ==
  ASSUME UserInv, InsertNext
  PROVE  UserInv' /\ AllAccounts' = AllAccounts /\ (Chained(ht) => Chained(ht'))
<1>1. /\ ht \in Tables /\ Sized(ht) /\ perms \in [Session -> 0 .. 3]
      /\ pending \in Seq(Account) /\ (file = Absent \/ file \in Seq(Account))
      /\ phase \in {"off", "defaults", "first", "reading", "up", "saving"}
      /\ PhaseInv /\ LoadInv /\ StartFindsAdmin
  BY DEF UserInv, TypeOK
<1>2. /\ pending # <<>> /\ Insert(Head(pending), Tail(pending))
      /\ file' = file /\ phase' = phase /\ perms' = perms /\ out' = out
  BY DEF InsertNext
<1>3. /\ Head(pending) \in Account /\ Tail(pending) \in Seq(Account)
      /\ ToSet(pending) = ToSet(Tail(pending)) \cup {Head(pending)}
  BY <1>1, <1>2, ToSetProperties
<1>4. /\ ht' \in Tables /\ Sized(ht') /\ pending' \in Seq(Account)
      /\ Chained(ht) => Chained(ht')
      /\ Contents(ht') \cup ToSet(pending') = Contents(ht) \cup {Head(pending)} \cup ToSet(Tail(pending))
  BY <1>1, <1>2, <1>3, InsertStep
<1>5. AllAccounts' = AllAccounts
  BY <1>3, <1>4 DEF AllAccounts
<1>6. /\ phase \notin {"off", "first", "saving"}
      /\ out.op \in {"none", "create"}
  BY <1>1, <1>2 DEF PhaseInv
<1>7. PhaseInv'
  BY <1>2, <1>6 DEF PhaseInv
<1>8. LoadInv'
  BY <1>1, <1>2, <1>4, <1>5, <1>6 DEF LoadInv
<1>9. StartFindsAdmin'
  BY <1>1, <1>2 DEF StartFindsAdmin
<1> QED
  BY <1>1, <1>2, <1>4, <1>5, <1>7, <1>8, <1>9, InvParts

LEMMA EndingInv ==
  ASSUME UserInv, Stop \/ Save \/ Crash
  PROVE  UserInv'
<1>1. /\ ht \in Tables /\ Sized(ht) /\ perms \in [Session -> 0 .. 3]
      /\ pending \in Seq(Account) /\ (file = Absent \/ file \in Seq(Account))
      /\ PhaseInv /\ <<>> \in Seq(Account)
  BY EmptySeq DEF UserInv, TypeOK
<1>2. NoPerms \in [Session -> 0 .. 3]
  BY DEF NoPerms
<1>3. CASE Stop
  <2>1. /\ pending' = <<>> /\ phase' = "saving" /\ file' = <<>> /\ perms' = NoPerms
        /\ out' = [op |-> "none"] /\ ht' = ht
    BY <1>3 DEF Stop, Serving, Event
  <2>2. PhaseInv' /\ LoadInv' /\ StartFindsAdmin'
    BY <2>1 DEF PhaseInv, LoadInv, StartFindsAdmin
  <2> QED
    BY <1>1, <1>2, <2>1, <2>2, InvParts
<1>4. CASE Save
  <2>1. /\ phase = "saving" /\ phase' = "off" /\ file' = InOrder(ht) /\ perms' = perms
        /\ pending' = pending /\ out' = [op |-> "none"] /\ ht' = EmptyTable(Capacity, 0)
    BY <1>4 DEF Save, Records, Event
  <2>2. pending = <<>>
    BY <1>1, <2>1 DEF PhaseInv
  <2>3. PhaseInv' /\ LoadInv' /\ StartFindsAdmin'
    BY <2>1, <2>2 DEF PhaseInv, LoadInv, StartFindsAdmin
  <2>4. ht' \in Tables /\ Sized(ht') /\ file' \in Seq(Account)
    BY <1>1, <2>1, OffTable, InOrderProperties
  <2> QED
    BY <1>1, <2>1, <2>2, <2>3, <2>4, InvParts
<1>5. CASE Crash
  <2>1. /\ pending' = <<>> /\ phase' = "off" /\ file' = file /\ perms' = NoPerms
        /\ out' = [op |-> "none"] /\ ht' = EmptyTable(Capacity, 0)
    BY <1>5 DEF Crash, Event
  <2>2. PhaseInv' /\ LoadInv' /\ StartFindsAdmin'
    BY <2>1 DEF PhaseInv, LoadInv, StartFindsAdmin
  <2>3. ht' \in Tables /\ Sized(ht')
    BY <2>1, OffTable
  <2> QED
    BY <1>1, <1>2, <2>1, <2>2, <2>3, InvParts
<1> QED
  BY <1>3, <1>4, <1>5

(* A request that leaves the table alone                                   *)
LEMMA QuietInv ==
  ASSUME UserInv, Serving, UNCHANGED <<ht, pending, file, phase>>,
         perms' \in [Session -> 0 .. 3], out'.op \in {"login", "create", "delete"}
  PROVE  UserInv'
<1>1. /\ ht \in Tables /\ Sized(ht) /\ pending \in Seq(Account)
      /\ (file = Absent \/ file \in Seq(Account))
      /\ pending = <<>> /\ phase = "up"
      /\ ht' = ht /\ pending' = pending /\ file' = file /\ phase' = phase
  BY DEF UserInv, TypeOK, Serving
<1>2. PhaseInv' /\ LoadInv' /\ StartFindsAdmin'
  BY <1>1 DEF PhaseInv, LoadInv, StartFindsAdmin
<1> QED
  BY <1>1, <1>2, InvParts

LEMMA LoginInv ==
  ASSUME UserInv, NEW s \in Session, NEW n \in Name, NEW p \in Password, Login(s, n, p)
  PROVE  UserInv'
<1>1. ht \in Tables /\ Sized(ht) /\ perms \in [Session -> 0 .. 3]
  BY DEF UserInv, TypeOK
<1>2. Serving /\ UNCHANGED <<ht, pending, file, phase>>
  BY DEF Login
<1>3. CASE Lookup(ht, n) # Nil /\ Lookup(ht, n).passwd = p
  <2>1. Lookup(ht, n).perms \in 0 .. 3
    BY <1>1, <1>3, LookupProperties DEF Entry, Account, Level
  <2>2. perms' = [perms EXCEPT ![s] = Lookup(ht, n).perms] /\ out' = Answer("login", s, "ok")
    BY <1>3 DEF Login
  <2>3. perms' \in [Session -> 0 .. 3] /\ out'.op = "login"
    BY <1>1, <2>1, <2>2 DEF Answer
  <2> QED
    BY <1>2, <2>3, QuietInv
<1>4. CASE ~(Lookup(ht, n) # Nil /\ Lookup(ht, n).passwd = p)
  <2>1. perms' = perms /\ out'.op = "login"
    BY <1>4 DEF Login
  <2> QED
    BY <1>1, <1>2, <2>1, QuietInv
<1> QED
  BY <1>3, <1>4

LEMMA CreateInv ==
  ASSUME UserInv, NEW s \in Session, NEW n \in Name, NEW p \in Password, NEW level \in NewLevel,
         CreateUser(s, n, p, level)
  PROVE  UserInv'
<1>1. /\ ht \in Tables /\ Sized(ht) /\ perms \in [Session -> 0 .. 3]
      /\ (file = Absent \/ file \in Seq(Account)) /\ <<>> \in Seq(Account)
  BY EmptySeq DEF UserInv, TypeOK
<1>2. /\ pending = <<>> /\ phase = "up" /\ Serving
      /\ file' = file /\ phase' = phase /\ perms' = perms
  BY DEF CreateUser, Serving
<1>3. CASE Lookup(ht, n) # Nil
  <2>1. ht' = ht /\ pending' = pending /\ out'.op = "create"
    BY <1>3 DEF CreateUser, Answer
  <2> QED
    BY <1>1, <1>2, <2>1, QuietInv
<1>4. CASE Lookup(ht, n) = Nil
  <2> DEFINE a == [name |-> n, passwd |-> p, perms |-> level]
  <2>1. a \in Account
    BY UserTableAssumption DEF Account
  <2>2. Insert(a, <<>>) /\ out'.op = "create"
    BY <1>4 DEF CreateUser, Answer
  <2> HIDE DEF a
  <2>3. ht' \in Tables /\ Sized(ht') /\ pending' \in Seq(Account)
    BY <1>1, <2>1, <2>2, InsertStep
  <2>4. PhaseInv' /\ LoadInv' /\ StartFindsAdmin'
    BY <1>2, <2>2 DEF PhaseInv, LoadInv, StartFindsAdmin
  <2> QED
    BY <1>1, <1>2, <2>3, <2>4, InvParts
<1> QED
  BY <1>3, <1>4

LEMMA DeleteInv ==
  ASSUME UserInv, NEW s \in Session, NEW n \in Name, DeleteUser(s, n)
  PROVE  UserInv'
<1>1. /\ ht \in Tables /\ Sized(ht) /\ perms \in [Session -> 0 .. 3]
      /\ (file = Absent \/ file \in Seq(Account)) /\ <<>> \in Seq(Account)
  BY EmptySeq DEF UserInv, TypeOK
<1>2. /\ pending = <<>> /\ phase = "up" /\ Serving
      /\ pending' = pending /\ file' = file /\ phase' = phase /\ perms' = perms
  BY DEF DeleteUser, Serving
<1>3. CASE Lookup(ht, n) = Nil
  <2>1. ht' = ht /\ out'.op = "delete"
    BY <1>3 DEF DeleteUser, Answer
  <2> QED
    BY <1>1, <1>2, <2>1, QuietInv
<1>4. CASE Lookup(ht, n) # Nil
  <2>1. ht' = RemoveEntry(ht, n) /\ out'.op = "delete"
    BY <1>4 DEF DeleteUser
  <2>2. ht' \in Tables /\ Sized(ht')
    BY <1>1, <1>4, <2>1, RemoveEntryProperties
  <2>3. PhaseInv' /\ LoadInv' /\ StartFindsAdmin'
    BY <1>2, <2>1 DEF PhaseInv, LoadInv, StartFindsAdmin
  <2> QED
    BY <1>1, <1>2, <2>2, <2>3, InvParts
<1> QED
  BY <1>3, <1>4

LEMMA UnchangedInv ==
  ASSUME UserInv, UNCHANGED vars
  PROVE  UserInv'
<1>1. /\ ht' = ht /\ pending' = pending /\ file' = file /\ phase' = phase
      /\ perms' = perms /\ out' = out
  BY DEF vars
<1>2. /\ ht' \in Tables /\ Sized(ht') /\ pending' \in Seq(Account)
      /\ file' = Absent \/ file' \in Seq(Account)
      /\ phase' \in {"off", "defaults", "first", "reading", "up", "saving"}
      /\ perms' \in [Session -> 0 .. 3]
  BY <1>1 DEF UserInv, TypeOK
<1>3. PhaseInv' /\ LoadInv' /\ StartFindsAdmin'
  BY <1>1 DEF UserInv, PhaseInv, LoadInv, StartFindsAdmin, AllAccounts
<1> QED
  BY <1>2, <1>3, InvParts

LEMMA NextInv == UserInv /\ [Next]_vars => UserInv'
<1> SUFFICES ASSUME UserInv, [Next]_vars PROVE UserInv'
  OBVIOUS
<1>1. CASE UNCHANGED vars
  BY <1>1, UnchangedInv
<1>2. CASE FirstStart \/ CreateFile \/ WriteDefaults \/ Start \/ ReadAll
  BY <1>2, LoadingInv
<1>3. CASE InsertNext
  BY <1>3, InsertNextInv
<1>4. CASE Stop \/ Save \/ Crash
  BY <1>4, EndingInv
<1>5. ASSUME NEW s \in Session, DeleteRefused(s) PROVE UserInv'
  <2>1. /\ Serving /\ UNCHANGED <<ht, pending, file, phase>>
        /\ perms' = perms /\ out'.op = "delete"
    BY <1>5 DEF DeleteRefused, Answer
  <2> QED
    BY <2>1, QuietInv DEF UserInv, TypeOK
<1>6. ASSUME NEW s \in Session, NEW level \in NewLevel, CreateRefused(s, level) PROVE UserInv'
  <2>1. /\ Serving /\ UNCHANGED <<ht, pending, file, phase>>
        /\ perms' = perms /\ out'.op = "create"
    BY <1>6 DEF CreateRefused, Answer
  <2> QED
    BY <2>1, QuietInv DEF UserInv, TypeOK
<1>7. ASSUME NEW s \in Session, NEW n \in Name, DeleteUser(s, n) PROVE UserInv'
  BY <1>7, DeleteInv
<1>8. ASSUME NEW s \in Session, NEW n \in Name, NEW p \in Password,
             \/ Login(s, n, p)
             \/ \E level \in NewLevel : CreateUser(s, n, p, level)
      PROVE  UserInv'
  BY <1>8, LoginInv, CreateInv
<1> QED
  BY <1>1, <1>2, <1>3, <1>4, <1>5, <1>6, <1>7, <1>8 DEF Next

-----------------------------------------------------------------------------
(* The theorems                                                            *)

LEMMA InvHolds == Spec => []UserInv
<1>1. Init => UserInv
  BY InitInv
<1>2. UserInv /\ [Next]_vars => UserInv'
  BY NextInv
<1> QED
  BY <1>1, <1>2, PTL DEF Spec

(* Every state has its type, and between any two requests, however many    *)
(* accounts came and went, the table has a NULL entry at which the probe   *)
(* of hash_table_insert, ht_get and remove_entry ends.                     *)
THEOREM TableStaysSound == Spec => []TableSound
<1>1. UserInv => TableSound
  <2> SUFFICES ASSUME UserInv PROVE TableSound
    OBVIOUS
  <2>1. ht \in Tables /\ Sized(ht) /\ TypeOK
    BY DEF UserInv
  <2>2. PICK i \in Slots(ht) : ht.entries[i] = Nil
    BY <2>1, SomeEntryIsNil
  <2>3. Occupied(ht) # 0 .. ht.max - 1
    BY <2>2 DEF Occupied, Slots
  <2> QED
    BY <2>1, <2>3 DEF TableSound, NeverFull, Sized
<1> QED
  BY <1>1, InvHolds, PTL

(* The table that get_creds builds has the accounts of the file and finds  *)
(* each of them, and main dies of a missing admin only when the file has   *)
(* none.                                                                   *)
THEOREM StartsKeepAccounts == Spec => []StartKeepsAccounts
<1>1. UserInv => StartKeepsAccounts
  <2> SUFFICES ASSUME UserInv PROVE StartFindsAll
    BY DEF UserInv, StartKeepsAccounts
  <2> SUFFICES ASSUME out.op = "start"
               PROVE  /\ Contents(ht) = ToSet(file)
                      /\ \A a \in ToSet(file) :
                           LET found == Lookup(ht, a.name)
                           IN  found # Nil /\ (Longer[a.name] = {} => found.name = a.name)
    BY DEF StartFindsAll
  <2>1. ht \in Tables /\ Sized(ht) /\ Chained(ht) /\ Contents(ht) = ToSet(file)
    BY DEF UserInv, LoadInv
  <2>2. ASSUME NEW a \in ToSet(file)
        PROVE  Lookup(ht, a.name) # Nil /\ (Longer[a.name] = {} => Lookup(ht, a.name).name = a.name)
    <3>1. PICK i \in Occupied(ht) : a = ht.entries[i]
      BY <2>1 DEF Contents
    <3>2. a.name \in Name /\ Lookup(ht, a.name) # Nil
      BY <2>1, <3>1, LookupFinds
    <3>3. Matches(Lookup(ht, a.name), a.name)
      BY <2>1, <3>2, LookupProperties
    <3> QED
      BY <3>2, <3>3 DEF Matches
  <2> QED
    BY <2>1, <2>2
<1> QED
  BY <1>1, InvHolds, PTL

LEMMA DeletesOneStep ==
  ASSUME UserInv, Next, out'.op = "delete", out'.code = "ok", ~UNCHANGED vars
  PROVE  \E i \in Occupied(ht) :
           /\ Matches(ht.entries[i], out'.name)
           /\ Occupied(ht') = Occupied(ht) \ {i}
           /\ \A j \in Occupied(ht') : ht'.entries[j] = ht.entries[j]
<1>1. ht \in Tables /\ Sized(ht) /\ PhaseInv /\ LoadInv
  BY DEF UserInv
<1>2. ~(FirstStart \/ WriteDefaults \/ Start \/ ReadAll \/ Stop \/ Save \/ Crash)
  BY DEF FirstStart, WriteDefaults, Start, ReadAll, Started, Stop, Save, Crash, Event
<1>3. ~CreateFile
  BY <1>1 DEF CreateFile, LoadInv
<1>4. ~InsertNext
  BY <1>1 DEF InsertNext, PhaseInv
<1>5. /\ \A s \in Session : ~DeleteRefused(s)
      /\ \A s \in Session : \A level \in NewLevel : ~CreateRefused(s, level)
      /\ \A s \in Session : \A n \in Name : \A p \in Password : ~Login(s, n, p)
      /\ \A s \in Session : \A n \in Name : \A p \in Password : \A level \in NewLevel : ~CreateUser(s, n, p, level)
  BY DEF DeleteRefused, CreateRefused, Login, CreateUser, Answer
<1>6. PICK s \in Session, n \in Name : DeleteUser(s, n)
  BY <1>2, <1>3, <1>4, <1>5 DEF Next
<1>7. CASE Lookup(ht, n) = Nil
  BY <1>6, <1>7 DEF DeleteUser, Answer
<1>8. CASE Lookup(ht, n) # Nil
  <2>1. ht' = RemoveEntry(ht, n) /\ out'.name = n
    BY <1>6, <1>8 DEF DeleteUser
  <2> QED
    BY <1>1, <1>8, <2>1, RemoveEntryProperties
<1> QED
  BY <1>7, <1>8

(* A deletion that delete_user reports removes one account, named as asked *)
(* or longer, and leaves every other where it is.                          *)
THEOREM DeletionsRemoveOne == Spec => DeletesOne
<1>1. UserInv /\ [Next]_vars =>
        [out'.op = "delete" /\ out'.code = "ok" =>
           \E i \in Occupied(ht) :
             /\ Matches(ht.entries[i], out'.name)
             /\ Occupied(ht') = Occupied(ht) \ {i}
             /\ \A j \in Occupied(ht') : ht'.entries[j] = ht.entries[j]]_vars
  BY DeletesOneStep
<1> QED
  BY <1>1, InvHolds, PTL DEF Spec, DeletesOne

-----------------------------------------------------------------------------
(* Without deletions, kills and names that start others the accounts act   *)
(* as a lasting set.                                                       *)

LEMMA ServingAccounts ==
  ASSUME StoreInv, Serving
  PROVE  Accounts = Contents(ht) /\ ToSet(pending) = {} /\ phase = "up"
<1>1. pending = <<>> /\ phase = "up"
  BY DEF Serving
<1>2. ToSet(<<>>) = {}
  BY DEF ToSet
<1> QED
  BY <1>1, <1>2 DEF Accounts

(* A look-up answers as a set with unique names does.                      *)
LEMMA LookupActs ==
  ASSUME StoreInv, Plain, Serving, NEW n \in Name
  PROVE  /\ Lookup(ht, n) = Nil => \A a \in Accounts : a.name # n
         /\ Lookup(ht, n) # Nil => /\ Lookup(ht, n) \in Accounts /\ Lookup(ht, n).name = n
                                   /\ \A a \in Accounts : a.name = n => a = Lookup(ht, n)
<1>1. /\ ht \in Tables /\ Sized(ht) /\ Chained(ht) /\ UniqueNames(Accounts)
      /\ Accounts = Contents(ht)
  BY ServingAccounts DEF StoreInv, UserInv
<1>2. ASSUME NEW a \in Accounts, a.name = n PROVE Lookup(ht, n) # Nil
  <2>1. PICK i \in Occupied(ht) : a = ht.entries[i]
    BY <1>1 DEF Contents
  <2> QED
    BY <1>1, <1>2, <2>1, LookupFinds
<1>3. ASSUME Lookup(ht, n) # Nil PROVE Lookup(ht, n) \in Accounts /\ Lookup(ht, n).name = n
  BY <1>1, <1>3, LookupProperties DEF Matches, Plain
<1> QED
  BY <1>1, <1>2, <1>3 DEF UniqueNames

(* What a step of the server is to the store, and what it keeps            *)
StoreStep == Store!Next \/ UNCHANGED Store!vars
Kept == StoreInv' /\ StoreStep

LEMMA KeptByStutter ==
  ASSUME StoreInv, UserInv', Chained(ht'), Accounts' = Accounts, perms' = perms, Reply' = Reply,
         phase' \in {"off", "saving"} => out'.op \in {"none", "died"}
  PROVE  Kept
<1>1. StoreInv'
  BY DEF StoreInv
<1>2. UNCHANGED Store!vars
  BY DEF Store!vars
<1> QED
  BY <1>1, <1>2 DEF Kept, StoreStep

LEMMA KeptByStarted ==
  ASSUME StoreInv, UserInv', Started, file' # Absent, Chained(ht), pending = <<>>,
         phase # "off", out.op = "none", Accounts = ToSet(file')
  PROVE  Kept
<1>1. ToSet(<<>>) = {} /\ pending' = <<>> /\ perms' = perms
  BY DEF ToSet, Started
<1>2. Accounts = Contents(ht)
  BY <1>1 DEF Accounts
<1>3. Reply = [op |-> "none"]
  BY DEF Reply, Event
<1>4. CASE Lookup(ht, Admin) = Nil
  <2>1. phase' = "off" /\ out' = [op |-> "died"] /\ ht' = EmptyTable(Capacity, 0)
    BY <1>4 DEF Started, Event
  <2>2. Accounts' = ToSet(file')
    BY <2>1 DEF Accounts
  <2>3. Reply' = [op |-> "none"]
    BY <2>1 DEF Reply, Event
  <2>4. Chained(ht')
    BY <2>1, OffTable
  <2> QED
    BY <1>1, <1>3, <2>1, <2>2, <2>3, <2>4, KeptByStutter
<1>5. CASE Lookup(ht, Admin) # Nil
  <2>1. phase' = "up" /\ out' = [op |-> "start"] /\ ht' = ht
    BY <1>5 DEF Started, Event
  <2>2. Accounts' = Contents(ht)
    BY <1>1, <2>1 DEF Accounts
  <2>3. Reply' = [op |-> "none"]
    BY <2>1 DEF Reply, Event
  <2> QED
    BY <1>1, <1>2, <1>3, <2>1, <2>2, <2>3, KeptByStutter
<1> QED
  BY <1>4, <1>5

LEMMA KeptByLoading ==
  ASSUME StoreInv, UserInv', FirstStart \/ CreateFile \/ WriteDefaults \/ Start \/ ReadAll
  PROVE  Kept
<1>1. /\ PhaseInv /\ LoadInv /\ Chained(ht) /\ (file = Absent \/ file \in Seq(Account))
      /\ phase \in {"off", "saving"} => out.op \in {"none", "died"}
  BY DEF StoreInv, UserInv, TypeOK
<1>2. ToSet(<<>>) = {} /\ Defaults # Absent
  BY DefaultsProperties, UserTableAssumption DEF ToSet
<1>3. CASE FirstStart
  <2>1. /\ phase = "off" /\ phase' = "defaults" /\ file = Absent /\ pending' = Defaults
        /\ out' = [op |-> "none"] /\ ht' = ht /\ file' = file /\ perms' = perms
    BY <1>3 DEF FirstStart, Event
  <2>2. Contents(ht') = {}
    BY <1>1, <2>1, OffTable DEF PhaseInv
  <2>3. Accounts = ToSet(Defaults) /\ Accounts' = ToSet(Defaults)
    BY <2>1, <2>2 DEF Accounts
  <2>4. Reply = [op |-> "none"] /\ Reply' = [op |-> "none"]
    BY <1>1, <2>1 DEF Reply, Event
  <2> QED
    BY <1>1, <2>1, <2>3, <2>4, KeptByStutter
<1>4. CASE CreateFile
  <2>1. /\ phase = "defaults" /\ phase' = "first" /\ pending' = pending /\ out' = out
        /\ ht' = ht /\ file' = <<>> /\ perms' = perms
    BY <1>4 DEF CreateFile
  <2>2. Accounts' = Accounts /\ Reply' = Reply
    BY <2>1 DEF Accounts, Reply
  <2> QED
    BY <1>1, <2>1, <2>2, KeptByStutter
<1>5. CASE WriteDefaults
  <2>1. phase = "first" /\ file' = Defaults /\ Started
    BY <1>5 DEF WriteDefaults
  <2>2. pending = <<>> /\ out.op = "none" /\ Accounts = ToSet(Defaults)
    BY <1>1, <2>1 DEF PhaseInv, LoadInv, AllAccounts, Accounts
  <2> QED
    BY <1>1, <1>2, <2>1, <2>2, KeptByStarted
<1>6. CASE Start
  <2>1. /\ phase = "off" /\ phase' = "reading" /\ file # Absent /\ pending' = file
        /\ out' = [op |-> "none"] /\ ht' = ht /\ file' = file /\ perms' = perms
    BY <1>6 DEF Start, Event
  <2>2. Contents(ht') = {}
    BY <1>1, <2>1, OffTable DEF PhaseInv
  <2>3. Accounts = ToSet(file) /\ Accounts' = ToSet(file)
    BY <2>1, <2>2 DEF Accounts
  <2>4. Reply = [op |-> "none"] /\ Reply' = [op |-> "none"]
    BY <1>1, <2>1 DEF Reply, Event
  <2> QED
    BY <1>1, <2>1, <2>3, <2>4, KeptByStutter
<1>7. CASE ReadAll
  <2>1. phase = "reading" /\ pending = <<>> /\ file' = file /\ Started
    BY <1>7 DEF ReadAll
  <2>2. file # Absent /\ out.op = "none" /\ Accounts = ToSet(file)
    BY <1>1, <2>1 DEF LoadInv, AllAccounts, Accounts
  <2> QED
    BY <1>1, <2>1, <2>2, KeptByStarted
<1> QED
  BY <1>3, <1>4, <1>5, <1>6, <1>7

LEMMA KeptByInsertNext ==
  ASSUME StoreInv, InsertNext
  PROVE  Kept
<1>1. UserInv /\ Chained(ht) /\ PhaseInv
  BY DEF StoreInv, UserInv
<1>2. /\ pending # <<>> /\ file' = file /\ phase' = phase /\ perms' = perms /\ out' = out
  BY DEF InsertNext
<1>3. UserInv' /\ AllAccounts' = AllAccounts /\ Chained(ht')
  BY <1>1, InsertNextInv
<1>4. phase \notin {"off", "saving"}
  BY <1>1, <1>2 DEF PhaseInv
<1>5. Accounts' = Accounts /\ Reply' = Reply
  BY <1>2, <1>3, <1>4 DEF Accounts, AllAccounts, Reply
<1> QED
  BY <1>2, <1>3, <1>4, <1>5, KeptByStutter

LEMMA KeptByEnding ==
  ASSUME StoreInv, UserInv', Stop \/ Save
  PROVE  Kept
<1>1. /\ PhaseInv /\ Chained(ht) /\ ht \in Tables /\ pending \in Seq(Account)
      /\ phase \in {"off", "saving"} => out.op \in {"none", "died"}
      /\ UniqueNames(Accounts)
  BY DEF StoreInv, UserInv, TypeOK
<1>2. CASE Stop
  <2>1. /\ Serving /\ phase' = "saving" /\ pending' = pending /\ perms' = NoPerms
        /\ out' = [op |-> "none"] /\ ht' = ht
    BY <1>2 DEF Stop, Event
  <2>2. Accounts' = Accounts
    BY <2>1 DEF Accounts, Serving
  <2>3. Reply' = [op |-> "none"]
    BY <2>1 DEF Reply, Event
  <2>4. StoreInv'
    BY <1>1, <2>1, <2>2 DEF StoreInv
  <2>5. Store!Restart
    BY <2>1, <2>2, <2>3 DEF Store!Restart, Store!NoReply, NoPerms
  <2> QED
    BY <2>4, <2>5 DEF Kept, StoreStep, Store!Next
<1>3. CASE Save
  <2>1. /\ phase = "saving" /\ phase' = "off" /\ file' = InOrder(ht) /\ perms' = perms
        /\ out' = [op |-> "none"] /\ ht' = EmptyTable(Capacity, 0)
    BY <1>3 DEF Save, Records, Event
  <2>2. pending = <<>> /\ ToSet(<<>>) = {}
    BY <1>1, <2>1 DEF PhaseInv, ToSet
  <2>3. file' # Absent /\ ToSet(file') = Contents(ht)
    BY <1>1, <2>1, InOrderProperties, UserTableAssumption
  <2>4. Accounts' = Accounts
    BY <2>1, <2>2, <2>3 DEF Accounts
  <2>5. Reply = [op |-> "none"] /\ Reply' = [op |-> "none"]
    BY <1>1, <2>1 DEF Reply, Event
  <2>6. Chained(ht')
    BY <2>1, OffTable
  <2> QED
    BY <2>1, <2>4, <2>5, <2>6, KeptByStutter
<1> QED
  BY <1>2, <1>3

LEMMA KeptByLogin ==
  ASSUME StoreInv, UserInv', Plain, NEW s \in Session, NEW n \in Name, NEW p \in Password, Login(s, n, p)
  PROVE  Kept
<1>1. /\ Serving /\ ht' = ht /\ pending' = pending /\ file' = file /\ phase' = phase
      /\ phase = "up" /\ Chained(ht) /\ UniqueNames(Accounts)
  BY DEF Login, Serving, StoreInv
<1>2. Accounts' = Accounts
  BY <1>1 DEF Accounts
<1>3. StoreInv'
  BY <1>1, <1>2 DEF StoreInv
<1>4. CASE Lookup(ht, n) # Nil /\ Lookup(ht, n).passwd = p
  <2>1. perms' = [perms EXCEPT ![s] = Lookup(ht, n).perms] /\ out' = Answer("login", s, "ok")
    BY <1>4 DEF Login
  <2>2. Lookup(ht, n) \in Accounts /\ Lookup(ht, n).name = n
    BY <1>1, <1>4, LookupActs
  <2>3. Reply' = Store!Answer("login", s, "ok")
    BY <2>1 DEF Reply, Answer, Store!Answer
  <2>4. Store!Login(s, n, p)
    BY <1>2, <1>4, <2>1, <2>2, <2>3 DEF Store!Login
  <2> QED
    BY <1>3, <2>4 DEF Kept, StoreStep, Store!Next
<1>5. CASE ~(Lookup(ht, n) # Nil /\ Lookup(ht, n).passwd = p)
  <2>1. /\ perms' = perms
        /\ out' = [op |-> "login", by |-> s, code |-> "failed", name |-> n, passwd |-> p]
    BY <1>5 DEF Login
  <2>2. \A a \in Accounts : ~(a.name = n /\ a.passwd = p)
    BY <1>1, <1>5, LookupActs
  <2>3. Reply' = Store!Answer("login", s, "failed")
    BY <2>1 DEF Reply, Answer, Store!Answer
  <2>4. Store!Login(s, n, p)
    BY <1>2, <2>1, <2>2, <2>3 DEF Store!Login
  <2> QED
    BY <1>3, <2>4 DEF Kept, StoreStep, Store!Next
<1> QED
  BY <1>4, <1>5

LEMMA KeptByRefusal ==
  ASSUME StoreInv, UserInv', NEW s \in Session,
         DeleteRefused(s) \/ \E level \in NewLevel : CreateRefused(s, level)
  PROVE  Kept
<1>1. /\ Serving /\ ht' = ht /\ pending' = pending /\ file' = file /\ phase' = phase
      /\ perms' = perms /\ phase = "up" /\ Chained(ht) /\ UniqueNames(Accounts)
  BY DEF DeleteRefused, CreateRefused, Serving, StoreInv
<1>2. Accounts' = Accounts
  BY <1>1 DEF Accounts
<1>3. StoreInv'
  BY <1>1, <1>2 DEF StoreInv
<1>4. Admin \in Name /\ DefaultPassword \in Password
  BY UserTableAssumption
<1>5. CASE DeleteRefused(s)
  <2>1. perms[s] < 3 /\ out' = Answer("delete", s, IF perms[s] = 0 THEN "session" ELSE "permission")
    BY <1>5 DEF DeleteRefused
  <2>2. Reply' = Store!Answer("delete", s, IF perms[s] = 0 THEN "session" ELSE "permission")
    BY <2>1 DEF Reply, Answer, Store!Answer
  <2>3. Store!Delete(s, Admin)
    BY <1>1, <1>2, <2>1, <2>2 DEF Store!Delete
  <2>4. Store!Next
    BY <1>4, <2>3 DEF Store!Next
  <2> QED
    BY <1>3, <2>4 DEF Kept, StoreStep
<1>6. ASSUME NEW level \in NewLevel, CreateRefused(s, level) PROVE Kept
  <2>1. perms[s] < level /\ out' = Answer("create", s, "permission")
    BY <1>6 DEF CreateRefused
  <2>2. Reply' = Store!Answer("create", s, "permission")
    BY <2>1 DEF Reply, Answer, Store!Answer
  <2>3. Store!Create(s, Admin, DefaultPassword, level)
    BY <1>1, <1>2, <2>1, <2>2 DEF Store!Create
  <2>4. level \in Store!Level
    BY UserTableAssumption DEF Level, Store!Level
  <2>5. Store!Next
    BY <1>4, <2>3, <2>4 DEF Store!Next
  <2> QED
    BY <1>3, <2>5 DEF Kept, StoreStep
<1> QED
  BY <1>5, <1>6

LEMMA KeptByCreateUser ==
  ASSUME StoreInv, UserInv', Plain, NEW s \in Session, NEW n \in Name, NEW p \in Password,
         NEW level \in NewLevel, CreateUser(s, n, p, level)
  PROVE  Kept
<1>1. /\ Serving /\ phase = "up" /\ pending = <<>> /\ file' = file /\ phase' = phase /\ perms' = perms
      /\ perms[s] >= level
      /\ Chained(ht) /\ UniqueNames(Accounts) /\ ht \in Tables /\ Sized(ht)
  BY DEF CreateUser, Serving, StoreInv, UserInv
<1>2. level \in Store!Level
  BY UserTableAssumption DEF Level, Store!Level
<1>3. CASE Lookup(ht, n) # Nil
  <2>1. ht' = ht /\ pending' = pending /\ out' = Answer("create", s, "exists")
    BY <1>3 DEF CreateUser
  <2>2. Accounts' = Accounts
    BY <1>1, <2>1 DEF Accounts
  <2>3. StoreInv'
    BY <1>1, <2>1, <2>2 DEF StoreInv
  <2>4. Reply' = Store!Answer("create", s, "exists")
    BY <2>1 DEF Reply, Answer, Store!Answer
  <2>5. Store!Taken(n)
    BY <1>1, <1>3, LookupActs DEF Store!Taken
  <2>6. Store!Create(s, n, p, level)
    BY <1>1, <2>2, <2>4, <2>5 DEF Store!Create
  <2>7. Store!Next
    BY <1>2, <2>6 DEF Store!Next
  <2> QED
    BY <2>3, <2>7 DEF Kept, StoreStep
<1>4. CASE Lookup(ht, n) = Nil
  <2> DEFINE a == [name |-> n, passwd |-> p, perms |-> level]
  <2>1. a \in Account /\ a.name = n
    BY UserTableAssumption DEF Account
  <2>2. Insert(a, <<>>) /\ out' = Answer("create", s, "ok")
    BY <1>4 DEF CreateUser
  <2>3. a = [name |-> n, passwd |-> p, perms |-> level]
    OBVIOUS
  <2> HIDE DEF a
  <2>4. <<>> \in Seq(Account) /\ ToSet(<<>>) = {}
    BY EmptySeq DEF ToSet
  <2>5. /\ Chained(ht')
        /\ Contents(ht') \cup ToSet(pending') = Contents(ht) \cup {a} \cup ToSet(<<>>)
    BY <1>1, <2>1, <2>2, <2>4, InsertStep
  <2>6. Accounts' = Accounts \cup {a}
    BY <1>1, <2>4, <2>5 DEF Accounts
  <2>7. \A b \in Accounts : b.name # n
    BY <1>1, <1>4, LookupActs
  <2>8. UniqueNames(Accounts')
    BY <1>1, <2>1, <2>6, <2>7 DEF UniqueNames
  <2>9. StoreInv'
    BY <1>1, <2>5, <2>8 DEF StoreInv
  <2>10. Reply' = Store!Answer("create", s, "ok")
    BY <2>2 DEF Reply, Answer, Store!Answer
  <2>11. Store!Create(s, n, p, level)
    BY <1>1, <2>3, <2>6, <2>7, <2>10 DEF Store!Create, Store!Taken
  <2>12. Store!Next
    BY <1>2, <2>11 DEF Store!Next
  <2> QED
    BY <2>9, <2>12 DEF Kept, StoreStep
<1> QED
  BY <1>3, <1>4

LEMMA StoreKept == Plain /\ StoreInv /\ [Next]_vars => Kept
<1> SUFFICES ASSUME Plain, StoreInv, [Next]_vars PROVE Kept
  OBVIOUS
<1>1. UserInv'
  BY NextInv DEF StoreInv
<1>2. CASE UNCHANGED vars
  <2>1. /\ Chained(ht') /\ Accounts' = Accounts /\ perms' = perms /\ Reply' = Reply
        /\ phase' \in {"off", "saving"} => out'.op \in {"none", "died"}
    BY <1>2 DEF vars, StoreInv, Accounts, Reply
  <2> QED
    BY <1>1, <2>1, KeptByStutter
<1>3. CASE FirstStart \/ CreateFile \/ WriteDefaults \/ Start \/ ReadAll
  BY <1>1, <1>3, KeptByLoading
<1>4. CASE InsertNext
  BY <1>4, KeptByInsertNext
<1>5. CASE Stop \/ Save
  BY <1>1, <1>5, KeptByEnding
<1>6. ~Crash
  BY DEF Crash, Plain
<1>7. ASSUME NEW s \in Session, DeleteRefused(s) \/ \E level \in NewLevel : CreateRefused(s, level)
      PROVE  Kept
  BY <1>1, <1>7, KeptByRefusal
<1>8. ASSUME NEW s \in Session, NEW n \in Name PROVE ~DeleteUser(s, n)
  BY DEF DeleteUser, Plain
<1>9. ASSUME NEW s \in Session, NEW n \in Name, NEW p \in Password,
             \/ Login(s, n, p)
             \/ \E level \in NewLevel : CreateUser(s, n, p, level)
      PROVE  Kept
  BY <1>1, <1>9, KeptByLogin, KeptByCreateUser
<1> QED
  BY <1>2, <1>3, <1>4, <1>5, <1>6, <1>7, <1>8, <1>9 DEF Next

LEMMA StoreInit == Plain /\ Init => StoreInv /\ Store!Init
<1> SUFFICES ASSUME Plain, Init PROVE StoreInv /\ Store!Init
  OBVIOUS
<1>1. /\ ht = EmptyTable(Capacity, 0) /\ pending = <<>> /\ file = Absent /\ phase = "off"
      /\ perms = NoPerms /\ out = [op |-> "none"]
  BY DEF Init, Event
<1>2. Accounts = ToSet(Defaults) /\ Reply = [op |-> "none"]
  BY <1>1 DEF Accounts, Reply, Event
<1>3. UniqueNames(ToSet(Defaults))
  BY DefaultsProperties, UserTableAssumption DEF UniqueNames, Default
<1>4. StoreInv
  BY <1>1, <1>2, <1>3, InitInv, OffTable DEF StoreInv
<1>5. Store!Init
  BY <1>1, <1>2 DEF Store!Init, Store!NoReply, NoPerms
<1> QED
  BY <1>4, <1>5

(* As long as nobody deletes an account or kills the server, and no name   *)
(* starts another, logins, creations and restarts are answered as by a     *)
(* lasting set of accounts with unique names, however often the table      *)
(* grows and whatever the hashes are.                                      *)
THEOREM AccountsLast ==
  ASSUME Habits = {}, \A n \in Name : Longer[n] = {}
  PROVE  Spec => ActsAsStore
<1>1. Plain
  BY DEF Plain
<1>2. Init => StoreInv /\ Store!Init
  BY <1>1, StoreInit
<1>3. StoreInv /\ [Next]_vars => StoreInv' /\ [Store!Next]_(Store!vars)
  BY <1>1, StoreKept DEF Kept, StoreStep
<1> QED
  BY <1>2, <1>3, PTL DEF Spec, ActsAsStore, Store!Spec

=============================================================================
