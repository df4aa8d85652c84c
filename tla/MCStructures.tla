---------------------------- MODULE MCStructures ----------------------------
(***************************************************************************)
(* The data structures of src/data_structures, each driven by any sequence *)
(* of its calls; a behaviour drives one of them, the one `library' names.  *)
(* The priority queue is driven alone, and by the search on the graph.     *)
(***************************************************************************)
EXTENDS Dijkstra, AvlTree, Lists, TLC

CONSTANTS Library,
          MisusedSize   \* how many nodes a misused list has at most

Item == 1 .. 2
Entries == [v : 0 .. 1, dist : 0 .. 2]
MCAsDist == [v \in Vertex |-> IF v = 0 THEN 0 ELSE IF v = 1 THEN INT_MAX ELSE v]

VARIABLES library

grVars == <<graphVars, searchVars>>
vars == <<library, stackVars, listVars, treeVars, grVars, pqVars>>

Init ==
  /\ library \in Library
  /\ StackInit /\ ListInit /\ TreeInit /\ createGraph /\ NoSearch
  /\ create_pqueue(IF library = "queue" THEN 2 ELSE V)

StackStep == library = "stack" /\ StackNext
             /\ UNCHANGED <<library, listVars, treeVars, grVars, pqVars>>
ListStep == library = "list" /\ ListNext
            /\ (list_use' = "misused" => curr_size' <= MisusedSize)
            /\ UNCHANGED <<library, stackVars, treeVars, grVars, pqVars>>
TreeStep == library = "tree" /\ TreeNext
            /\ UNCHANGED <<library, stackVars, listVars, grVars, pqVars>>
GraphStep == library = "graph" /\ GraphNext
             /\ UNCHANGED <<library, stackVars, listVars, treeVars>>
QueueStep ==
  /\ library = "queue"
  /\ QueueNext /\ Len(queue') <= 5
  /\ UNCHANGED <<library, stackVars, listVars, treeVars, grVars>>

Next == StackStep \/ ListStep \/ TreeStep \/ GraphStep \/ QueueStep

Spec == Init /\ [][Next]_vars
=============================================================================
