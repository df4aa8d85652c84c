------------------------------- MODULE KeySet -------------------------------
(***************************************************************************)
(* What a search tree promises: a set of keys, and answers about it.  Two  *)
(* answers are odder than one expects, because insert_node and remove_node *)
(* report that the tree is empty afterwards and nothing else: an insertion *)
(* that found no memory says it succeeded unless the tree is empty, and    *)
(* the removal of the last key says it failed.                             *)
(***************************************************************************)
EXTENDS Integers

CONSTANTS Key

VARIABLES keys,       \* what is in the set
          told        \* the last call, its key, and its answer

vars == <<keys, told>>

Told(op, key, answer) == [op |-> op, key |-> key, answer |-> answer]
EmptyFails(S) == IF S = {} THEN -1 ELSE 0

Init == keys = {} /\ told = Told("create", 0, 0)

Create == keys' = {} /\ told' = Told("create", 0, 0)

Insert(k) ==
  /\ keys' = keys \union {k}
  /\ told' = Told("insert", k, 0)

InsertWithoutMemory(k) ==
  /\ k \notin keys
  /\ told' = Told("insert", k, EmptyFails(keys))
  /\ UNCHANGED keys

Remove(k) ==
  /\ keys' = keys \ {k}
  /\ told' = Told("remove", k, EmptyFails(keys'))

Search(k) ==
  /\ told' = Told("search", k, IF k \in keys THEN 1 ELSE 0)
  /\ UNCHANGED keys

Destroy == keys' = {} /\ told' = Told("destroy", 0, 0)

Next ==
  \/ Create \/ Destroy
  \/ \E k \in Key : Insert(k) \/ InsertWithoutMemory(k) \/ Remove(k) \/ Search(k)

Spec == Init /\ [][Next]_vars
=============================================================================
