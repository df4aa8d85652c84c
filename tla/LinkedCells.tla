----------------------------- MODULE LinkedCells -----------------------------
(***************************************************************************)
(* What the linked structures of src/data_structures are built from: cells *)
(* that malloc gives and free takes back, each with an item and a pointer  *)
(* to the next.                                                            *)
(***************************************************************************)
EXTENDS Integers, FiniteSets, Sequences

CONSTANTS Cell,       \* the cells malloc has to give
          Data,       \* the items, compared as integers where they are compared
          Null        \* no cell

ASSUME CellAssumption == Null \notin Cell /\ Data \subseteq Int

(* A call, the place it was about, the item it took or gave.               *)
Said(op, at, item) == [op |-> op, at |-> at, item |-> item]

Unused(nodes) == Cell \ DOMAIN nodes
New(nodes) == CHOOSE c \in Unused(nodes) : TRUE
With(nodes, new, d, next) ==
  [c \in DOMAIN nodes \union {new} |->
     IF c = new THEN [data |-> d, next |-> next] ELSE nodes[c]]
Without(nodes, cells) == [c \in DOMAIN nodes \ cells |-> nodes[c]]
=============================================================================
