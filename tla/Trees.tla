-------------------------------- MODULE Trees --------------------------------
(***************************************************************************)
(* The heap of class BST: a tree is a record of its root and of the fields *)
(* el, left and right of every node.  0 is the null pointer.               *)
(***************************************************************************)
EXTENDS Integers, Sequences, FiniteSets

CONSTANTS
  Node,  \* addresses of nodes
  Name   \* elements, ordered by <

TreesAssumption == Node \subseteq Nat \ {0} /\ Name \subseteq Int

Pointer == Node \cup {0}
Tree == [root: Pointer, el: [Node -> Name \cup {0}],
         left: [Node -> Pointer], right: [Node -> Pointer]]

EmptyTree == [root |-> 0, el |-> [p \in Node |-> 0],
              left |-> [p \in Node |-> 0], right |-> [p \in Node |-> 0]]

\* Where the search for x goes on after p.
Child(t, p, x) == IF x < t.el[p] THEN t.left[p] ELSE t.right[p]

\* search(), recursiveSearch(), and the loops of both findAndDelete...()
Search(t, x) ==
  LET from[p \in Pointer] ==
        IF p = 0 THEN 0 ELSE IF t.el[p] = x THEN p ELSE from[Child(t, p, x)]
  IN  from[t.root]

\* The node that insert() and recursiveInsert() hang x to.
PlaceFor(t, x) ==
  LET below[p \in Node] ==
        IF Child(t, p, x) = 0 THEN p ELSE below[Child(t, p, x)]
  IN  below[t.root]

\* insert() of x in a new node p
Insert(t, x, p) ==
  LET new == [t EXCEPT !.el[p] = x, !.left[p] = 0, !.right[p] = 0]
      at == PlaceFor(t, x)
  IN  IF t.root = 0 THEN [new EXCEPT !.root = p]
      ELSE IF x < t.el[at] THEN [new EXCEPT !.left[at] = p]
      ELSE [new EXCEPT !.right[at] = p]

\* The link to p, wherever it is, leads to c.
Relink(t, p, c) ==
  LET to(link) == IF link = p THEN c ELSE link
  IN  [t EXCEPT !.root = to(@),
                !.left = [n \in Node |-> to(t.left[n])],
                !.right = [n \in Node |-> to(t.right[n])]]

Delete(t, p) == [t EXCEPT !.el[p] = 0, !.left[p] = 0, !.right[p] = 0]

Rightmost(t, p) ==
  LET last[n \in Node] == IF t.right[n] = 0 THEN n ELSE last[t.right[n]]
  IN  last[p]

\* deleteByCopying(): a node with two children gets the element before it in
\* order, and the node of that element is the one deleted.
DeleteByCopying(t, p) ==
  IF t.right[p] = 0 THEN Delete(Relink(t, p, t.left[p]), p)
  ELSE IF t.left[p] = 0 THEN Delete(Relink(t, p, t.right[p]), p)
  ELSE LET tmp == Rightmost(t, t.left[p])
       IN  Delete(Relink([t EXCEPT !.el[p] = t.el[tmp]], tmp, t.left[tmp]), tmp)

\* deleteByMerging() that hangs the right subtree to the left child itself.
MergeAtLeftChild(t, p) ==
  IF t.right[p] = 0 THEN Delete(Relink(t, p, t.left[p]), p)
  ELSE IF t.left[p] = 0 THEN Delete(Relink(t, p, t.right[p]), p)
  ELSE Delete(Relink([t EXCEPT !.right[t.left[p]] = t.right[p]], p, t.left[p]), p)

\* deleteByMerging(): the right subtree is hung to the rightmost node of the left.
DeleteByMerging(t, p) ==
  IF t.right[p] = 0 THEN Delete(Relink(t, p, t.left[p]), p)
  ELSE IF t.left[p] = 0 THEN Delete(Relink(t, p, t.right[p]), p)
  ELSE LET tmp == Rightmost(t, t.left[p])
       IN  Delete(Relink([t EXCEPT !.right[tmp] = t.right[p]], p, t.left[p]), p)

\* reverseTreeHelper() that swaps only where there are two children.
MirrorFull(t) ==
  LET full == {n \in Node : t.left[n] # 0 /\ t.right[n] # 0}
  IN  [t EXCEPT !.left = [n \in Node |-> IF n \in full THEN t.right[n] ELSE t.left[n]],
                !.right = [n \in Node |-> IF n \in full THEN t.left[n] ELSE t.right[n]]]

\* reverseTree() swaps the children of every node.
Mirrored(t) == [t EXCEPT !.left = t.right, !.right = t.left]

-----------------------------------------------------------------------------
(* The recursive traversals                                                *)

Inorder(t) ==
  LET from[p \in Pointer] ==
        IF p = 0 THEN <<>> ELSE from[t.left[p]] \o <<p>> \o from[t.right[p]]
  IN  from[t.root]

Preorder(t) ==
  LET from[p \in Pointer] ==
        IF p = 0 THEN <<>> ELSE <<p>> \o from[t.left[p]] \o from[t.right[p]]
  IN  from[t.root]

Postorder(t) ==
  LET from[p \in Pointer] ==
        IF p = 0 THEN <<>> ELSE from[t.left[p]] \o from[t.right[p]] \o <<p>>
  IN  from[t.root]

\* balance() that starts from the first name.
FirstOrder(data) ==
  LET part[first, last \in 0..Len(data)] ==
        IF first > last THEN <<>>
        ELSE LET middle == first
             IN  <<data[middle]>> \o (IF middle = first THEN <<>> ELSE part[first, middle - 1])
                   \o (IF middle = last THEN <<>> ELSE part[middle + 1, last])
  IN  IF data = <<>> THEN <<>> ELSE part[1, Len(data)]

\* The order in which balance() inserts data[first..last], from the middle.
BalanceOrder(data) ==
  LET part[first, last \in 0..Len(data)] ==
        IF first > last THEN <<>>
        ELSE LET middle == (first + last) \div 2
             IN  <<data[middle]>> \o (IF middle = first THEN <<>> ELSE part[first, middle - 1])
                   \o (IF middle = last THEN <<>> ELSE part[middle + 1, last])
  IN  IF data = <<>> THEN <<>> ELSE part[1, Len(data)]

Height(t, p) ==
  LET of[n \in Pointer] ==
        IF n = 0 THEN 0
        ELSE 1 + (IF of[t.left[n]] > of[t.right[n]] THEN of[t.left[n]] ELSE of[t.right[n]])
  IN  of[p]
=============================================================================
