---------------------------- MODULE CircularList ----------------------------
(***************************************************************************)
(* The circular list of data_structures/circle/circle_link.c, pointer by   *)
(* pointer: one action per function.  A removed node goes to the caller,   *)
(* who frees it.  No function checks the pointers it follows: one that     *)
(* meets NULL or a freed node, or that never ends, ends the program.       *)
(* Some calls change the end of the list and leave `last' behind;          *)
(* list_use, which no function reads, records them.                        *)
(***************************************************************************)
EXTENDS LinkedCells

VARIABLES list_nodes,         \* the allocated cells: [data, next]
          head, last, curr_size,  \* struct circle_list
          list_made,          \* whether the list exists
          list_said,          \* the last call and its answer
          list_lost,          \* a call has followed a pointer to nowhere
          list_use            \* "closed", "open" or "misused", see Uses

listVars ==
  <<list_nodes, head, last, curr_size, list_made, list_said, list_lost, list_use>>

ListInit == /\ list_nodes = <<>> /\ head = Null /\ last = Null /\ curr_size = 0
            /\ list_made = TRUE /\ list_said = Said("create", 0, 0)
            /\ list_lost = FALSE /\ list_use = "closed"

create_circle_list ==
  /\ ~list_made
  /\ head' = Null /\ last' = Null /\ curr_size' = 0 /\ list_made' = TRUE
  /\ list_said' = Said("create", 0, 0) /\ list_use' = "closed"
  /\ UNCHANGED list_nodes

(* Callers name places a little past the end, too.                         *)
Farthest == curr_size + 1

(* The node n steps from the head, Null after a pointer to nowhere.        *)
Ahead[n \in 0 .. Farthest] ==
  IF n = 0 THEN head
  ELSE LET c == Ahead[n - 1]
       IN  IF c \in DOMAIN list_nodes THEN list_nodes[c].next ELSE Null

Allocated(c) == c \in DOMAIN list_nodes

(* The nodes that curr_size steps pass are all there are: each comes once. *)
AllPassed == {Ahead[n] : n \in 0 .. curr_size - 1} = DOMAIN list_nodes

(* A caller can rely on `last' until a call has put in or taken out a node *)
(* at the end and left it behind, and on a place that exists at any time:  *)
(* `fits' says whether this call relies on no more, `open' whether it      *)
(* leaves `last' behind.                                                   *)
Uses(fits, open) ==
  list_use' = IF list_use = "misused" \/ ~fits THEN "misused"
              ELSE IF open THEN "open" ELSE list_use

Closed == list_use = "closed"

insert_front(d) ==
  /\ list_made /\ Unused(list_nodes) # {} /\ (head = Null \/ Allocated(last))
  /\ LET new == New(list_nodes)
     IN  /\ IF head = Null
            THEN /\ list_nodes' = With(list_nodes, new, d, new)
                 /\ last' = new
            ELSE /\ list_nodes' = [With(list_nodes, new, d, head) EXCEPT ![last].next = new]
                 /\ UNCHANGED last
         /\ head' = new
  /\ curr_size' = curr_size + 1
  /\ list_said' = Said("insert", 1, d)
  /\ Uses(Closed, FALSE)
  /\ UNCHANGED list_made

insert_back(d) ==
  /\ list_made /\ Unused(list_nodes) # {} /\ (head = Null \/ Allocated(last))
  /\ LET new == New(list_nodes)
     IN  /\ IF head = Null
            THEN /\ list_nodes' = With(list_nodes, new, d, new)
                 /\ head' = new
            ELSE /\ list_nodes' = [With(list_nodes, new, d, head) EXCEPT ![last].next = new]
                 /\ UNCHANGED head
         /\ last' = new
  /\ curr_size' = curr_size + 1
  /\ list_said' = Said("insert", curr_size + 1, d)
  /\ Uses(Closed, FALSE)
  /\ UNCHANGED list_made

(* Mutant: one item too many is passed.                                    *)
insert_atOneLater(d, index) ==
  /\ list_made /\ Unused(list_nodes) # {} /\ index # 0 /\ Allocated(Ahead[index])
  /\ LET before == Ahead[index]
         new    == New(list_nodes)
     IN  list_nodes' = [With(list_nodes, new, d, list_nodes[before].next)
                          EXCEPT ![before].next = new]
  /\ curr_size' = curr_size + 1
  /\ list_said' = Said("insert", index + 1, d)
  /\ Uses(index <= curr_size, index = curr_size)
  /\ UNCHANGED <<head, last, list_made>>

(* An index past the end is reported, and goes round the ring.             *)
insert_at(d, index) ==
  /\ list_made /\ Unused(list_nodes) # {} /\ index # 0 /\ Allocated(Ahead[index - 1])
  /\ LET before == Ahead[index - 1]
         new    == New(list_nodes)
     IN  list_nodes' = [With(list_nodes, new, d, list_nodes[before].next)
                          EXCEPT ![before].next = new]
  /\ curr_size' = curr_size + 1
  /\ list_said' = Said("insert", index + 1, d)
  /\ Uses(index <= curr_size, index = curr_size)
  /\ UNCHANGED <<head, last, list_made>>

(* No data, no memory, insert_at with index 0, or nothing to show.         *)
Refused(at) ==
  /\ list_made
  /\ at \in {0, 1} \/ curr_size = 0 \/ at > curr_size
  /\ list_said' = Said("refused", at, 0)
  /\ UNCHANGED <<list_nodes, head, last, curr_size, list_made, list_use>>

show_front ==
  /\ list_made /\ curr_size # 0 /\ Allocated(head)
  /\ list_said' = Said("show", 1, list_nodes[head].data)
  /\ UNCHANGED <<list_nodes, head, last, curr_size, list_made, list_use>>

show_back ==
  /\ list_made /\ curr_size # 0 /\ Allocated(last)
  /\ list_said' = Said("show", curr_size, list_nodes[last].data)
  /\ Uses(Closed, FALSE)
  /\ UNCHANGED <<list_nodes, head, last, curr_size, list_made>>

(* index = curr_size is let through and shows the first item again.        *)
show_at(index) ==
  /\ list_made /\ curr_size # 0 /\ index <= curr_size /\ Allocated(Ahead[index])
  /\ list_said' = Said("show", index + 1, list_nodes[Ahead[index]].data)
  /\ Uses(index < curr_size \/ Closed, FALSE)
  /\ UNCHANGED <<list_nodes, head, last, curr_size, list_made>>

(* Of the only item, head and `last' stay behind.                          *)
remove_front ==
  /\ list_made /\ Allocated(head) /\ Allocated(last)
  /\ head' = list_nodes[head].next
  /\ list_nodes' = Without([list_nodes EXCEPT ![last].next = list_nodes[head].next], {head})
  /\ curr_size' = curr_size - 1
  /\ list_said' = Said("remove", 1, list_nodes[head].data)
  /\ Uses(Closed, curr_size = 1)
  /\ UNCHANGED <<last, list_made>>

(* The loop ends on the last node itself: `last' stays on what is removed. *)
remove_back ==
  /\ list_made /\ curr_size # 0 /\ Allocated(Ahead[curr_size - 1]) /\ Allocated(last)
  /\ last' = Ahead[curr_size - 1]
  /\ list_nodes' = Without([list_nodes EXCEPT ![last'].next = head], {last})
  /\ curr_size' = curr_size - 1
  /\ list_said' = Said("remove", curr_size, list_nodes[last].data)
  /\ Uses(Closed, TRUE)
  /\ UNCHANGED <<head, list_made>>

(* No check: an index past the end goes round the ring.                    *)
remove_at(index) ==
  /\ list_made /\ index # 0
  /\ LET before == Ahead[index - 1]
         gone   == Ahead[index]
     IN  /\ Allocated(before) /\ Allocated(gone)
         /\ list_nodes' = Without([list_nodes EXCEPT ![before].next = list_nodes[gone].next], {gone})
         /\ list_said' = Said("remove", index + 1, list_nodes[gone].data)
  /\ curr_size' = curr_size - 1
  /\ Uses(index < curr_size, index = curr_size - 1)
  /\ UNCHANGED <<head, last, list_made>>

-----------------------------------------------------------------------------
(* merge_sort, on the sequence of the nodes from head to NULL: a node that *)
(* compares equal is taken from the first half.                            *)
NotBelow(a, b) == list_nodes[a].data - list_nodes[b].data >= 0

(* How many of the first n nodes of the merged list come from a.           *)
TakenFrom(a, b) ==
  LET taken[n \in 0 .. Len(a) + Len(b)] ==
        IF n = 0 THEN 0
        ELSE LET i == taken[n - 1]
                 j == n - 1 - i
             IN  IF i < Len(a) /\ (j = Len(b) \/ NotBelow(a[i + 1], b[j + 1]))
                 THEN i + 1 ELSE i
  IN  taken

sorted_merge(a, b) ==
  LET taken == TakenFrom(a, b)
  IN  [n \in 1 .. Len(a) + Len(b) |->
         IF taken[n] > taken[n - 1] THEN a[taken[n]] ELSE b[n - taken[n]]]

(* The front half is the longer one.                                       *)
split_list(n) == (n + 1) \div 2

(* sorted[n][i] is what becomes of the n nodes from the i-th on.           *)
merge_sort(cells) ==
  LET sorted[n \in 0 .. Len(cells)] ==
        IF n <= 1 THEN [i \in 1 .. Len(cells) |-> SubSeq(cells, i, i + n - 1)]
        ELSE LET half == split_list(n)
             IN  [i \in 1 .. Len(cells) + 1 - n |->
                    sorted_merge(sorted[half][i], sorted[n - half][i + half])]
  IN  sorted[Len(cells)][1]

(* The nodes linked in a given order, the last to the first.               *)
Place(c, sorted) == CHOOSE i \in DOMAIN sorted : sorted[i] = c
Following(c, sorted) ==
  IF Place(c, sorted) = curr_size THEN sorted[1] ELSE sorted[Place(c, sorted) + 1]
Relinked(sorted) ==
  [c \in DOMAIN list_nodes |-> [list_nodes[c] EXCEPT !.next = Following(c, sorted)]]

(* list->last->next = NULL, sort, find the last node again, close the ring:*)
(* curr_size nodes have to come from head to `last', and no other.         *)
Sortable == curr_size # 0 /\ AllPassed /\ Ahead[curr_size - 1] = last

sort_list ==
  /\ list_made /\ Sortable
  /\ LET sorted == merge_sort([n \in 1 .. curr_size |-> Ahead[n - 1]])
     IN  /\ head' = sorted[1] /\ last' = sorted[curr_size]
         /\ list_nodes' = Relinked(sorted)
  /\ list_said' = Said("sort", 0, 0)
  /\ Uses(Closed, FALSE)
  /\ UNCHANGED <<curr_size, list_made>>

destroy_list ==
  /\ list_made /\ AllPassed
  /\ list_nodes' = Without(list_nodes, {Ahead[n] : n \in 0 .. curr_size - 1})
  /\ list_made' = FALSE
  /\ list_said' = Said("clear", 0, 0)
  /\ UNCHANGED <<head, last, curr_size, list_use>>

(* Where the functions do not check: a pointer to nowhere is followed, or  *)
(* a loop does not end (index - 1 of remove_at(0), a ring that `last' does *)
(* not close, sorted).                                                     *)
Stray(fits) ==
  /\ list_made
  /\ list_lost' = TRUE /\ Uses(fits, FALSE)
  /\ list_said' = Said("lost", 0, 0)
  /\ UNCHANGED <<list_nodes, head, last, curr_size, list_made>>

GoesAstray ==
  \/ Unused(list_nodes) # {} /\ head # Null /\ ~Allocated(last) /\ Stray(Closed)
  \/ curr_size # 0 /\ ~Allocated(head) /\ Stray(TRUE)
  \/ curr_size # 0 /\ ~Allocated(last) /\ Stray(Closed)
  \/ ~(Allocated(head) /\ Allocated(last)) /\ Stray(Closed /\ curr_size # 0)
  \/ curr_size # 0 /\ ~Allocated(Ahead[curr_size - 1]) /\ Stray(Closed)
  \/ ~Sortable /\ Stray(Closed /\ curr_size # 0)
  \/ ~AllPassed /\ Stray(TRUE)
  \/ Stray(FALSE)      \* remove_at(0)

GoesAstrayAt(index) ==
  \/ /\ Unused(list_nodes) # {} /\ index # 0 /\ ~Allocated(Ahead[index - 1])
     /\ Stray(index <= curr_size)
  \/ /\ curr_size # 0 /\ index <= curr_size /\ ~Allocated(Ahead[index])
     /\ Stray(index < curr_size \/ Closed)
  \/ index # 0 /\ ~Allocated(Ahead[index]) /\ Stray(index < curr_size)

ListCall ==
  \/ create_circle_list \/ show_front \/ show_back
  \/ remove_front \/ remove_back \/ sort_list \/ destroy_list
  \/ \E d \in Data : insert_front(d) \/ insert_back(d)
  \/ \E d \in Data, index \in 1 .. Farthest : insert_at(d, index)
  \/ \E n \in 0 .. Farthest : Refused(n) \/ show_at(n) \/ remove_at(n)

ListNext ==
  \/ ~list_lost /\ ListCall /\ UNCHANGED list_lost
  \/ ~list_lost /\ GoesAstray
  \/ ~list_lost /\ \E n \in 0 .. Farthest : GoesAstrayAt(n)

ListSpec == ListInit /\ [][ListNext]_listVars

-----------------------------------------------------------------------------
(* What view_list prints: curr_size items, from the head.                  *)
view_list ==
  IF list_made THEN [n \in 1 .. curr_size |-> list_nodes[Ahead[n - 1]].data] ELSE <<>>

PromisedList == INSTANCE ItemSequence WITH items <- view_list, said <- list_said

(* As long as callers do not misuse the list (Uses), every call ends, and  *)
(* leaves in the list, and answers, what it would for a sequence of items. *)
ListActsAsSequence ==
  PromisedList!Init /\ [][list_use' # "misused" => PromisedList!Next]_listVars

(* A list that has not been misused has lost no node, has no node twice,   *)
(* and no call on it goes astray; only the calls that Uses names leave     *)
(* `last' behind: after others it is the last node and closes the ring.    *)
OneRing ==
  list_use # "misused" =>
    /\ ~list_lost
    /\ DOMAIN list_nodes = IF list_made THEN {Ahead[n] : n \in 0 .. curr_size - 1} ELSE {}
    /\ Cardinality(DOMAIN list_nodes) = IF list_made THEN curr_size ELSE 0
    /\ (list_made /\ Closed /\ curr_size > 0) =>
         Ahead[curr_size - 1] = last /\ Ahead[curr_size] = head
=============================================================================
