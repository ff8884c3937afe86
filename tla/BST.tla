--------------------------------- MODULE BST ---------------------------------
(***************************************************************************)
(* The program bstshit: a binary search tree of names, every public        *)
(* operation of class BST that changes it, and the menu's numbers.  The    *)
(* menu deletes by copying; it mirrors the tree itself, not a copy.        *)
(* Options 4 and 5, which display numbers, change nothing.                 *)
(***************************************************************************)
EXTENDS Trees, FiniteSetsExt, SequencesExt

VARIABLES
  tree,
  order   \* what the tree is ordered by: "ascending", "descending", "mixed"

vars == <<tree, order>>

Used == {p \in Node : tree.el[p] # 0}
New == Min(Node \ Used)
RoomFor(k) == Cardinality(Node \ Used) >= k

\* Names inserted into a mirrored tree end up in no order.
OrderAfterInsert == IF order = "ascending" \/ tree.root = 0 THEN "ascending" ELSE "mixed"

\* tree.insert(name), recursiveInsert(name)
Add(x) ==
  /\ RoomFor(1)
  /\ tree' = Insert(tree, x, New)
  /\ order' = OrderAfterInsert

OrderAfterDelete == IF tree'.root = 0 THEN "ascending" ELSE order

FindAndDeleteByCopying(x) ==
  /\ LET p == Search(tree, x)
     IN  tree' = IF p = 0 THEN tree ELSE DeleteByCopying(tree, p)
  /\ order' = OrderAfterDelete

\* findAndDeleteByMerging() that goes on to the next copy of the name.
FindAndDeleteTwice(x) ==
  /\ LET p == Search(tree, x)
         once == IF p = 0 THEN tree ELSE DeleteByMerging(tree, p)
         r == Search(once, x)
     IN  tree' = IF r = 0 THEN once ELSE DeleteByMerging(once, r)
  /\ order' = OrderAfterDelete

FindAndDeleteByMerging(x) ==
  /\ LET p == Search(tree, x)
     IN  tree' = IF p = 0 THEN tree ELSE DeleteByMerging(tree, p)
  /\ order' = OrderAfterDelete

\* balance(data, 0, k - 1) of a sorted array, into the tree as it is
Balance(data) ==
  /\ RoomFor(Len(data))
  /\ \A j, k \in DOMAIN data : j < k => data[j] <= data[k]
  /\ tree' = FoldLeft(LAMBDA t, x : Insert(t, x, Min({p \in Node : t.el[p] = 0})),
                      tree, BalanceOrder(data))
  /\ order' = OrderAfterInsert

\* Option 6: reverseTree(), then inorder()
ReverseTree ==
  /\ tree' = Mirrored(tree)
  /\ order' = CASE tree.root = 0 -> order
                [] order = "ascending" -> "descending"
                [] order = "descending" -> "ascending"
                [] OTHER -> "mixed"

Clear ==
  /\ tree' = EmptyTree
  /\ order' = "ascending"

Init == tree = EmptyTree /\ order = "ascending"

Data == UNION {[1..k -> Name] : k \in 1..3}

Next ==
  \/ \E x \in Name : Add(x)
  \/ \E x \in Name : FindAndDeleteByCopying(x)
  \/ \E x \in Name : FindAndDeleteByMerging(x)
  \/ \E data \in Data : Balance(data)
  \/ ReverseTree
  \/ Clear

Spec == Init /\ [][Next]_vars

-----------------------------------------------------------------------------
(* Properties                                                              *)

TypeOK ==
  /\ tree \in Tree
  /\ order \in {"ascending", "descending", "mixed"}

\* Links lead to the nodes in use, to each by exactly one way, and to no
\* deleted one: no deletion leaks a node, frees one that is still linked or
\* makes two subtrees share one.
HeapIsATree ==
  /\ Len(Inorder(tree)) = Cardinality(Used)
  /\ Range(Inorder(tree)) = Used
  /\ \A p \in Node \ Used : tree.left[p] = 0 /\ tree.right[p] = 0

\* The order survives every sequence of insertions and deletions of either
\* kind, equal names included; two mirrorings with only deletions between
\* them restore it.
Elements == LET ps == Inorder(tree) IN [k \in DOMAIN ps |-> tree.el[ps[k]]]
InOrder ==
  \A j, k \in DOMAIN Elements : j < k =>
    /\ order = "ascending" => Elements[j] <= Elements[k]
    /\ order = "descending" => Elements[j] >= Elements[k]

\* The tree is a bag of names: one deletion takes away one copy of its name,
\* another way of deleting does the same, and the search misses no name
\* unless the tree was mirrored.
B == INSTANCE NameBag WITH
       bag <- [x \in Name |-> Cardinality({p \in Used : tree.el[p] = x})],
       straight <- (order = "ascending")

\* balance() of an empty tree makes one in which the subtrees of every node
\* differ in height by at most one, when no two names are equal.
Balanced(t) ==
  \A p \in Node : Height(t, t.left[p]) - Height(t, t.right[p]) \in -1..1
BalanceStep ==
  \A data \in Data :
    tree = EmptyTree /\ IsInjective(data) /\ Balance(data) => Balanced(tree')

\* The nodes in use are one tree, in order.
TreeIsRight == TypeOK /\ HeapIsATree /\ InOrder
=============================================================================
