------------------------------- MODULE AvlTree -------------------------------
(***************************************************************************)
(* The tree of data_structures/tree/avl.c: one action per function of its  *)
(* interface, the recursive functions as recursive functions on trees.     *)
(* The height field of a node is written and never read; the code computes *)
(* heights anew, and so does the model.  Room is the number of nodes that  *)
(* malloc can give, and so bounds how high a tree can be.                  *)
(***************************************************************************)
EXTENDS Integers, Sequences, Functions

CONSTANTS Key,        \* data, compared as the integers they point to
          Room

ASSUME TreeAssumption == Key \subseteq Int /\ Room \in Nat

VARIABLES tree,       \* its root
          tree_made,  \* whether the tree exists
          told        \* the last call, its key, and its answer

treeVars == <<tree, tree_made, told>>

Told(op, key, answer) == [op |-> op, key |-> key, answer |-> answer]

NULL == <<>>
Node(k, l, r) == [data |-> k, left |-> l, right |-> r]
newNode(k) == Node(k, NULL, NULL)

TreeUpTo[n \in 0 .. Room] ==
  IF n = 0 THEN {NULL}
  ELSE {NULL} \union [data : Key, left : TreeUpTo[n - 1], right : TreeUpTo[n - 1]]

Tree == TreeUpTo[Room]

max(a, b) == IF a > b THEN a ELSE b
height[t \in Tree] == IF t = NULL THEN 0 ELSE 1 + max(height[t.left], height[t.right])

getBalance(t) == IF t = NULL THEN 0 ELSE height[t.left] - height[t.right]

(* Mutant: the subtree between the two nodes is not passed on.             *)
rightRotateLosing(y) == [y.left EXCEPT !.right = [y EXCEPT !.left = NULL]]

rightRotate(y) == [y.left EXCEPT !.right = [y EXCEPT !.left = y.left.right]]
leftRotate(x)  == [x.right EXCEPT !.left = [x EXCEPT !.right = x.right.left]]

(* Mutant: no double rotations.                                            *)
AfterInsertSingle(t, k) ==
  LET balance == getBalance(t)
  IN  IF balance > 1 THEN rightRotate(t)
      ELSE IF balance < -1 THEN leftRotate(t)
      ELSE t

(* After an insertion the side is told by comparing with the child's key,  *)
(* after a deletion by the child's balance.                                *)
AfterInsert(t, k) ==
  LET balance == getBalance(t)
  IN  IF balance > 1 /\ k < t.left.data THEN rightRotate(t)
      ELSE IF balance < -1 /\ k > t.right.data THEN leftRotate(t)
      ELSE IF balance > 1 /\ k > t.left.data
           THEN rightRotate([t EXCEPT !.left = leftRotate(t.left)])
      ELSE IF balance < -1 /\ k < t.right.data
           THEN leftRotate([t EXCEPT !.right = rightRotate(t.right)])
      ELSE t

AfterDelete(t) ==
  LET balance == getBalance(t)
  IN  IF balance > 1
      THEN IF getBalance(t.left) >= 0 THEN rightRotate(t)
           ELSE rightRotate([t EXCEPT !.left = leftRotate(t.left)])
      ELSE IF balance < -1
      THEN IF getBalance(t.right) <= 0 THEN leftRotate(t)
           ELSE leftRotate([t EXCEPT !.right = rightRotate(t.right)])
      ELSE t

insert[t \in Tree] ==
  IF t = NULL THEN [k \in Key |-> newNode(k)]
  ELSE [k \in Key |->
          IF k < t.data THEN AfterInsert([t EXCEPT !.left = insert[t.left][k]], k)
          ELSE IF k > t.data THEN AfterInsert([t EXCEPT !.right = insert[t.right][k]], k)
          ELSE t]

minValueNode[t \in Tree \ {NULL}] == IF t.left = NULL THEN t ELSE minValueNode[t.left]

deleteNode[t \in Tree] ==
  IF t = NULL THEN [k \in Key |-> NULL]
  ELSE [k \in Key |->
          IF k < t.data THEN AfterDelete([t EXCEPT !.left = deleteNode[t.left][k]])
          ELSE IF k > t.data THEN AfterDelete([t EXCEPT !.right = deleteNode[t.right][k]])
          ELSE IF t.left = NULL /\ t.right = NULL THEN NULL
          ELSE IF t.right = NULL THEN AfterDelete(t.left)
          ELSE IF t.left = NULL THEN AfterDelete(t.right)
          ELSE LET next == minValueNode[t.right].data
               IN  AfterDelete(Node(next, t.left, deleteNode[t.right][next]))]

(* The loop of search.                                                     *)
Finds[t \in Tree] ==
  IF t = NULL THEN [k \in Key |-> FALSE]
  ELSE [k \in Key |-> IF k < t.data THEN Finds[t.left][k]
                      ELSE IF k > t.data THEN Finds[t.right][k] ELSE TRUE]

preOrder[t \in Tree] ==
  IF t = NULL THEN <<>> ELSE <<t.data>> \o preOrder[t.left] \o preOrder[t.right]

Keys == Range(preOrder[tree])
Reports(t) == IF t = NULL THEN -1 ELSE 0

-----------------------------------------------------------------------------
TreeInit == tree = NULL /\ tree_made = TRUE /\ told = Told("create", 0, 0)

create_avl_tree ==
  /\ ~tree_made
  /\ tree' = NULL /\ tree_made' = TRUE /\ told' = Told("create", 0, 0)

insert_node(k) ==
  /\ tree_made
  /\ Finds[tree][k] \/ Len(preOrder[tree]) < Room
  /\ tree' = insert[tree][k]
  /\ told' = Told("insert", k, Reports(tree'))
  /\ UNCHANGED tree_made

(* newNode returns NULL, which becomes the child that was NULL already.    *)
insert_without_memory(k) ==
  /\ tree_made
  /\ ~Finds[tree][k]
  /\ told' = Told("insert", k, Reports(tree))
  /\ UNCHANGED <<tree, tree_made>>

(* remove_node                                                             *)
remove_key(k) ==
  /\ tree_made
  /\ tree' = deleteNode[tree][k]
  /\ told' = Told("remove", k, Reports(tree'))
  /\ UNCHANGED tree_made

search(k) ==
  /\ tree_made
  /\ told' = Told("search", k, IF Finds[tree][k] THEN 1 ELSE 0)
  /\ UNCHANGED <<tree, tree_made>>

destroy_tree ==
  /\ tree_made
  /\ tree' = NULL /\ tree_made' = FALSE /\ told' = Told("destroy", 0, 0)

TreeNext ==
  \/ create_avl_tree \/ destroy_tree
  \/ \E k \in Key : \/ insert_node(k) \/ insert_without_memory(k)
                    \/ remove_key(k) \/ search(k)

TreeSpec == TreeInit /\ [][TreeNext]_treeVars

-----------------------------------------------------------------------------
PromisedSet == INSTANCE KeySet WITH keys <- Keys

(* Through all rotations and deletions, also of nodes with two children,   *)
(* the tree holds the keys that were inserted and not removed, and search  *)
(* finds exactly those (avl.c).                                            *)
TreeActsAsSet == PromisedSet!Spec

IsBalanced[t \in Tree] ==
  t # NULL => getBalance(t) \in -1 .. 1 /\ IsBalanced[t.left] /\ IsBalanced[t.right]

(* The heights of the two sides of every node differ by one at most, after *)
(* insertions and after removals, so that the recursive functions go as    *)
(* deep as the logarithm of the size; no key is in the tree twice.         *)
TreeIsBalanced == IsBalanced[tree] /\ IsInjective(preOrder[tree])
=============================================================================
