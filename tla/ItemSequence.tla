---------------------------- MODULE ItemSequence ----------------------------
(***************************************************************************)
(* What a linked list promises, whatever its cells and pointers are: a     *)
(* sequence of items, and answers that speak of that sequence.  The last   *)
(* call and its answer are a variable, so that an implementation has to    *)
(* give the right answers and not only to keep the right items.            *)
(* Places count from 1.  Past its end a ring starts again.                 *)
(***************************************************************************)
EXTENDS Integers, SequencesExt

CONSTANTS Data        \* the items, ordered as integers; 0 stands for NULL

VARIABLES items,      \* what is in the list, front first
          said        \* the last call, the place it was about, the item it gave

vars == <<items, said>>

Said(op, at, item) == [op |-> op, at |-> at, item |-> item]

Init == items = <<>> /\ said = Said("create", 0, 0)

Create == items' = <<>> /\ said' = Said("create", 0, 0)

Insert(i, d) ==
  /\ said' = Said("insert", i, d)
  /\ items' = InsertAt(items, i, d)

Take(i) ==
  /\ said' = Said("remove", i, items[i])
  /\ items' = RemoveAt(items, i)

Show(i) ==
  /\ items # <<>>
  /\ said' = Said("show", i, IF i > Len(items) THEN items[1] ELSE items[i])
  /\ UNCHANGED items

(* A call without an item to give or to take, or without memory for it.    *)
Refuse == said' = Said("refused", said'.at, 0) /\ UNCHANGED items

(* The same items, the greatest first.                                     *)
Sort ==
  /\ said' = Said("sort", 0, 0)
  /\ \E place \in [DOMAIN items -> DOMAIN items] :
       /\ \A i, j \in DOMAIN items : place[i] = place[j] => i = j
       /\ items' = [i \in DOMAIN items |-> items[place[i]]]
  /\ \A i \in 1 .. Len(items) - 1 : items'[i] >= items'[i + 1]

Clear == items' = <<>> /\ said' = Said("clear", 0, 0)

Next ==
  \/ Create \/ Sort \/ Clear \/ Refuse
  \/ \E i \in 1 .. Len(items) + 1, d \in Data : Insert(i, d)
  \/ \E i \in DOMAIN items : Take(i)
  \/ \E i \in 1 .. Len(items) + 1 : Show(i)

Spec == Init /\ [][Next]_vars
=============================================================================
