-------------------------------- MODULE Lists --------------------------------
(***************************************************************************)
(* The two linked lists of src/data_structures, each with cells of its     *)
(* own.                                                                    *)
(***************************************************************************)
EXTENDS Stack, CircularList

(* The stack reaches every cell it has allocated, and a list that has not *)
(* been misused every one of its cells, once: pop_nth, remove_at and the   *)
(* destroyers lose and keep none.                                          *)
NodesAccounted == NothingLeaked /\ OneRing
=============================================================================
