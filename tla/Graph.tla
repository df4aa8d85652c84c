-------------------------------- MODULE Graph --------------------------------
(***************************************************************************)
(* The graph of data_structures/graph/graph.c: an array of adjacency       *)
(* lists, in which an edge stands twice.  Every caller names a vertex by   *)
(* one label, so a list node is its destination and its weight.  addEdge   *)
(* takes parallel edges and loops as well, `plain' remembers that none     *)
(* came.                                                                   *)
(***************************************************************************)
EXTENDS Integers, Sequences, SequencesExt, FiniteSetsExt

CONSTANTS V,          \* the number of vertices, named 0 .. V - 1
          Weight,     \* weights of edges
          MaxNodes    \* bounds the list nodes of all lists together

ASSUME GraphAssumption == V \in Nat /\ Weight \subseteq Nat

VARIABLES array,      \* adjacency lists
          made,       \* whether the graph exists
          plain       \* no edge was added twice, no loop

graphVars == <<array, made, plain>>

Vertex == 0 .. V - 1
ListNode(d, w) == [dest |-> d, weight |-> w]
Dests(list) == {list[i].dest : i \in DOMAIN list}

createGraph == /\ array = [v \in Vertex |-> <<>>]
               /\ made = TRUE /\ plain = TRUE

ListNodes == MapThenSumSet(LAMBDA v : Len(array[v]), Vertex)

addEdge(src, dest, weight) ==
  /\ made /\ ListNodes + 2 <= MaxNodes
  /\ LET half == [array EXCEPT ![src] = Append(@, ListNode(dest, weight))]
     IN  array' = [half EXCEPT ![dest] = Append(@, ListNode(src, weight))]
  /\ plain' = (plain /\ src # dest /\ dest \notin Dests(array[src]))
  /\ UNCHANGED made

find_edge(src, dest) == IF dest \in Dests(array[src]) THEN 0 ELSE -1

(* The scan reads through the head of every list up to its find, and where *)
(* there is none that ends the program.                                    *)
NullRead == -2
find_node(v) ==
  LET found(i) == v \in Dests(array[i])
      stops    == {i \in Vertex : found(i) \/ array[i] = <<>>}
  IN  IF stops = {} THEN -1 ELSE IF found(Min(stops)) THEN 0 ELSE NullRead

(* Mutant: the nodes behind it are lost with it.                           *)
WithoutRest(list, v) ==
  IF v \in Dests(list)
  THEN SubSeq(list, 1, Min({i \in DOMAIN list : list[i].dest = v}) - 1)
  ELSE list

(* The first node that leads to v is taken out of a list, no other.        *)
WithoutFirst(list, v) ==
  IF v \in Dests(list)
  THEN RemoveAt(list, Min({i \in DOMAIN list : list[i].dest = v}))
  ELSE list

Removed(lists, v) ==
  IF lists[v] = <<>> THEN lists
  ELSE [u \in Vertex |-> IF u = v THEN <<>> ELSE WithoutFirst(lists[u], v)]

remove_node(v) ==
  /\ made
  /\ array' = Removed(array, v)
  /\ UNCHANGED <<made, plain>>

(* remove_node for every vertex: each call empties the list of its vertex  *)
(* and no call adds to one, so none is left.                               *)
destroy_graph ==
  /\ made
  /\ array' = [v \in Vertex |-> <<>>]
  /\ made' = FALSE
  /\ UNCHANGED plain

-----------------------------------------------------------------------------
(* In a graph that never had parallel edges or loops, an edge is found from *)
(* both its ends, with one weight, once: remove_node, which returns early   *)
(* for a vertex without edges and takes one node from each other list,      *)
(* keeps that.  find_node misses no vertex with edges, but follows NULL     *)
(* where a vertex below the lowest neighbour has none, after remove_node,   *)
(* say.                                                                     *)
Symmetric ==
  plain => \A u, v \in Vertex :
             /\ find_edge(u, v) = find_edge(v, u)
             /\ \A i \in DOMAIN array[u], j \in DOMAIN array[v] :
                  (array[u][i].dest = v /\ array[v][j].dest = u)
                     => array[u][i].weight = array[v][j].weight
             /\ IsInjective([i \in DOMAIN array[u] |-> array[u][i].dest])
             /\ array[u] # <<>> =>
                  find_node(u) = IF \A w \in 0 .. Min(Dests(array[u])) - 1 : array[w] # <<>>
                                 THEN 0 ELSE NullRead
=============================================================================
