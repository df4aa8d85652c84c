-------------------------------- MODULE Stack --------------------------------
(***************************************************************************)
(* The stack of data_structures/stack/stack.c, pointer by pointer: one     *)
(* action per function.  A call of malloc takes a free cell and fails when *)
(* there is none.  A call that walks off the list ends the program.        *)
(***************************************************************************)
EXTENDS LinkedCells

VARIABLES stack_nodes,        \* the allocated cells: [data, next]
          root, stack_size,   \* struct Stack
          stack_made,         \* whether the stack exists
          stack_said,         \* the last call and its answer
          stack_lost          \* a call has dereferenced NULL

stackVars == <<stack_nodes, root, stack_size, stack_made, stack_said, stack_lost>>

StackInit == /\ stack_nodes = <<>> /\ root = Null /\ stack_size = 0
             /\ stack_made = TRUE /\ stack_said = Said("create", 0, 0)
             /\ stack_lost = FALSE

create_stack ==
  /\ ~stack_made
  /\ stack_made' = TRUE /\ root' = Null /\ stack_size' = 0
  /\ stack_said' = Said("create", 0, 0)
  /\ UNCHANGED stack_nodes

(* The cell n steps from the root; no function goes further than its size. *)
Down[n \in 0 .. stack_size] == IF n = 0 THEN root ELSE stack_nodes[Down[n - 1]].next

push(d) ==
  /\ stack_made /\ Unused(stack_nodes) # {}
  /\ stack_nodes' = With(stack_nodes, New(stack_nodes), d, root)
  /\ root' = New(stack_nodes)
  /\ stack_size' = stack_size + 1
  /\ stack_said' = Said("insert", 1, d)
  /\ UNCHANGED stack_made

(* No data, or no memory for a node.                                       *)
push_refused ==
  /\ stack_made
  /\ stack_said' = Said("refused", 1, 0)
  /\ UNCHANGED <<stack_nodes, root, stack_size, stack_made>>

pop ==
  /\ stack_made /\ stack_size # 0
  /\ root' = stack_nodes[root].next
  /\ stack_nodes' = Without(stack_nodes, {root})
  /\ stack_size' = stack_size - 1
  /\ stack_said' = Said("remove", 1, stack_nodes[root].data)
  /\ UNCHANGED stack_made

peek_top ==
  /\ stack_made /\ stack_size # 0
  /\ stack_said' = Said("show", 1, stack_nodes[root].data)
  /\ UNCHANGED <<stack_nodes, root, stack_size, stack_made>>

(* pop, peek, find and pop_nth of an empty stack, or too far down.         *)
OutOfRange(n) ==
  /\ stack_made /\ (stack_size = 0 \/ n > stack_size)
  /\ stack_said' = Said("refused", n, 0)
  /\ UNCHANGED <<stack_nodes, root, stack_size, stack_made>>

find(n) ==
  /\ stack_made /\ stack_size # 0 /\ n \in 1 .. stack_size
  /\ stack_said' = Said("show", n, stack_nodes[Down[n - 1]].data)
  /\ UNCHANGED <<stack_nodes, root, stack_size, stack_made>>

(* Mutant: the answer is the item before the one that is freed.            *)
pop_nthGivesBefore(n) ==
  /\ stack_made /\ stack_size # 0 /\ n \in 2 .. stack_size
  /\ LET before == Down[n - 2]
         gone   == stack_nodes[before].next
     IN  /\ stack_nodes' = [Without(stack_nodes, {gone})
                              EXCEPT ![before].next = stack_nodes[gone].next]
         /\ stack_said' = Said("remove", n, stack_nodes[before].data)
  /\ stack_size' = stack_size - 1
  /\ UNCHANGED <<root, stack_made>>

pop_nth(n) ==
  /\ stack_made /\ stack_size # 0 /\ n \in 2 .. stack_size
  /\ LET before == Down[n - 2]
         gone   == stack_nodes[before].next
     IN  /\ stack_nodes' = [Without(stack_nodes, {gone})
                              EXCEPT ![before].next = stack_nodes[gone].next]
         /\ stack_said' = Said("remove", n, stack_nodes[gone].data)
  /\ stack_size' = stack_size - 1
  /\ UNCHANGED <<root, stack_made>>

(* Mutant: the nodes below the root are freed, the root is not.            *)
destroy_stackKeepsRoot ==
  /\ stack_made
  /\ IF stack_size = 0
     THEN UNCHANGED <<stack_nodes, root, stack_size, stack_made>>
     ELSE /\ stack_nodes' = Without(stack_nodes, {Down[n] : n \in 1 .. stack_size - 1})
          /\ stack_made' = FALSE
          /\ UNCHANGED <<root, stack_size>>
  /\ stack_said' = Said("clear", 0, 0)

(* An empty stack is left as it is, its struct included.                   *)
destroy_stack ==
  /\ stack_made
  /\ IF stack_size = 0
     THEN UNCHANGED <<stack_nodes, root, stack_size, stack_made>>
     ELSE /\ stack_nodes' = Without(stack_nodes, {Down[n] : n \in 0 .. stack_size - 1})
          /\ stack_made' = FALSE
          /\ UNCHANGED <<root, stack_size>>
  /\ stack_said' = Said("clear", 0, 0)

(* find's n - 1 and pop_nth's n - 2 are unsigned.  find(0), pop_nth(0) and *)
(* pop_nth(1), whose place exists, take more steps than there are nodes.   *)
WalksOff(n) ==
  /\ stack_made /\ stack_size # 0 /\ n \in 0 .. 1
  /\ stack_lost' = TRUE
  /\ stack_said' = Said("lost", n, 0)
  /\ UNCHANGED <<stack_nodes, root, stack_size, stack_made>>

StackCall ==
  \/ create_stack \/ push_refused \/ pop \/ peek_top \/ destroy_stack
  \/ \E d \in Data : push(d)
  \/ \E n \in 0 .. Cardinality(Cell) + 1 : OutOfRange(n) \/ find(n) \/ pop_nth(n)

StackNext ==
  \/ ~stack_lost /\ StackCall /\ UNCHANGED stack_lost
  \/ ~stack_lost /\ \E n \in 0 .. 1 : WalksOff(n)

StackSpec == StackInit /\ [][StackNext]_stackVars

-----------------------------------------------------------------------------
(* The items, top first.                                                   *)
StackItems ==
  IF stack_made THEN [n \in 1 .. stack_size |-> stack_nodes[Down[n - 1]].data] ELSE <<>>

PromisedStack == INSTANCE ItemSequence WITH items <- StackItems, said <- stack_said

(* Until a call walks off the list, which only find(0), pop_nth(0) and     *)
(* pop_nth(1) do, each function does to the linked nodes and answers what  *)
(* it would do and answer for a sequence of items, in whatever order the   *)
(* functions are called.                                                   *)
StackActsAsSequence ==
  PromisedStack!Init /\ [][~stack_lost' => PromisedStack!Next]_stackVars

(* The nodes the stack reaches are the nodes it has allocated and not yet  *)
(* freed: pop, pop_nth and destroy_stack lose and keep none.               *)
NothingLeaked ==
  DOMAIN stack_nodes = IF stack_made THEN {Down[n] : n \in 0 .. stack_size - 1} ELSE {}
=============================================================================
