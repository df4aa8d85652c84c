------------------------------ MODULE Dijkstra ------------------------------
(***************************************************************************)
(* data_structures/graph/dijkstra.c on the graph and the queue it uses.    *)
(* Each step has one call of the queue: Begin creates it and the arrays,   *)
(* Fill looks at one vertex of the first loop, Extract takes the top, and  *)
(* Relax looks at one of its list nodes; print_path is the end.  The code  *)
(* asks find_data if a vertex is still queued with the list node in place  *)
(* of a queue entry; where an entry has its dist, a list node has half of  *)
(* its data pointer, AsDist here.                                          *)
(* A vertex without edges is skipped, its distance is never set or used.   *)
(***************************************************************************)
EXTENDS Graph, PriorityQueue

CONSTANTS INT_MAX,
          AsDist      \* the data pointer of each vertex, read as a dist

ASSUME DijkstraAssumption ==
  /\ INT_MAX \in Nat /\ AsDist \in [Vertex -> Nat]
  /\ \A w \in Weight : V * w < INT_MAX

VARIABLES dist, par,  \* the arrays of the function
          source, target,
          u,          \* the vertex a loop is at
          pCrawl,     \* the list nodes of u to come
          phase       \* "idle", "fill", "search" or "hung"

searchVars == <<dist, par, source, target, u, pCrawl, phase>>

Listed == {v \in Vertex : array[v] # <<>>}

NoSearch == /\ dist = <<>> /\ par = <<>> /\ source = 0 /\ target = 0
            /\ u = 0 /\ pCrawl = <<>> /\ phase = "idle"

StartDist(v, src) == IF v = src THEN 0 ELSE INT_MAX
(* Mutant: every vertex is its own parent.                                 *)
StartParItself(src) == [v \in Vertex |-> v]

StartPar(src) == [v \in Vertex |-> IF v = src THEN src ELSE 0]

Begin(src) ==
  /\ made /\ phase = "idle"
  /\ queue' = <<>> /\ max_size' = V /\ got' = <<>>
  /\ dist' = [v \in Listed |-> StartDist(v, src)]
  /\ par' = StartPar(src)
  /\ source' = src /\ u' = 0
  /\ phase' = "fill"
  /\ UNCHANGED <<graphVars, target, pCrawl>>

Fill ==
  /\ phase = "fill"
  /\ IF u \in Listed THEN enqueue([v |-> u, dist |-> dist[u]]) ELSE UNCHANGED pqVars
  /\ IF u + 1 < V THEN u' = u + 1 /\ UNCHANGED phase
                  ELSE u' = 0 /\ phase' = "search"
  /\ UNCHANGED <<graphVars, dist, par, source, target, pCrawl>>

Extract ==
  /\ phase = "search" /\ pCrawl = <<>>
  /\ dequeue
  /\ u' = got'.v /\ pCrawl' = array[u']
  /\ UNCHANGED <<graphVars, dist, par, source, target, phase>>

decrease(q, v, d) ==
  IF v >= Len(q) THEN q
  ELSE [i \in DOMAIN q |-> IF q[i].v = v THEN [q[i] EXCEPT !.dist = d] ELSE q[i]]

Relax ==
  /\ phase = "search" /\ pCrawl # <<>>
  /\ LET v == Head(pCrawl).dest
         d == dist[u] + Head(pCrawl).weight
     IN  IF /\ IsIn(queue, [v |-> v, dist |-> AsDist[v]])
            /\ dist[u] # INT_MAX /\ d < dist[v]
         THEN /\ dist' = [dist EXCEPT ![v] = d]
              /\ par' = [par EXCEPT ![v] = u]
              /\ queue' = decrease(queue, v, d)
         ELSE UNCHANGED <<dist, par, queue>>
  /\ pCrawl' = Tail(pCrawl)
  /\ UNCHANGED <<graphVars, max_size, got, source, target, u, phase>>

(* print_path follows par from the target, which nothing else reads, until *)
(* it sees the source.                                                     *)
Chain(to) ==
  {v \in Vertex : \E n \in 1 .. V : \E walk \in [0 .. n -> Vertex] :
     /\ walk[0] = to /\ walk[n] = v
     /\ \A i \in 1 .. n : walk[i] = par[walk[i - 1]]}

print_path(to) ==
  /\ phase = "search" /\ pCrawl = <<>> /\ queue = <<>>
  /\ got' = <<>>
  /\ IF source \in Chain(to)
     THEN /\ dist' = <<>> /\ par' = <<>> /\ source' = 0 /\ target' = 0 /\ u' = 0
          /\ phase' = "idle"
     ELSE phase' = "hung" /\ target' = to /\ UNCHANGED <<dist, par, source, u>>
  /\ UNCHANGED <<graphVars, queue, max_size, pCrawl>>

(* An edge has no direction: a caller may as well name the smaller end first. *)
GraphCall ==
  /\ phase = "idle"
  /\ \/ \E s, d \in Vertex, w \in Weight : s <= d /\ addEdge(s, d, w)
     \/ \E v \in Vertex : remove_node(v)
     \/ destroy_graph
  /\ UNCHANGED <<pqVars, searchVars>>

Search == Fill \/ Extract \/ Relax \/ \E v \in Vertex : Begin(v) \/ print_path(v)

GraphNext == GraphCall \/ Search

GraphSpec ==
  /\ createGraph /\ NoSearch /\ create_pqueue(V)
  /\ [][GraphNext]_<<graphVars, pqVars, searchVars>>

-----------------------------------------------------------------------------
(* print_path comes to an end, except from a source other than vertex 0 to *)
(* another vertex: par starts as all zeros, and nothing else leads there.  *)
PathsFromZeroEnd == phase = "hung" => source # 0 /\ target # source
=============================================================================
