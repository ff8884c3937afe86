----------------------------- MODULE Traversals -----------------------------
(***************************************************************************)
(* The traversals of class BST that keep their own stack or queue, and the *)
(* three of Morris, which keep none and change the tree while they walk.   *)
(* One action per round of a loop, but for the one that looks for the      *)
(* predecessor, which changes nothing.  Nodes are numbered in order, so    *)
(* that a tree is only its shape.                                          *)
(***************************************************************************)
EXTENDS Trees, SequencesExt

Walks == {"iterativePreorder", "iterativeInorder", "iterativePostorder",
          "breadthFirst", "MorrisPreorder", "MorrisInorder", "MorrisPostorder"}

VARIABLES
  walk,   \* the traversal that runs
  tree,
  start,  \* the tree before it
  p,      \* its variable p; 0 is the null pointer
  chain,  \* tmp, q, r and s of MorrisPostorder(), and q of iterativePostorder()
  store,  \* travStack, its top last, or queue
  pc,
  out     \* the nodes visited

vars == <<walk, tree, start, p, chain, store, pc, out>>

\* The node that MorrisPostorder() makes to hang the tree to.
Dummy == 1 + Cardinality(Node)
LeftOf(n) == IF n = Dummy THEN start.root ELSE tree.left[n]
RightOf(n) == IF n = Dummy THEN 0 ELSE tree.right[n]

Visit(n) == out' = Append(out, n)
Some(n) == IF n = 0 THEN <<>> ELSE <<n>>

IterativePreorder ==
  /\ walk = "iterativePreorder" /\ pc = "loop"
  /\ IF store = <<>>
     THEN pc' = "done" /\ UNCHANGED <<p, store, out>>
     ELSE /\ p' = Last(store)
          /\ Visit(p')
          /\ store' = Front(store) \o Some(tree.right[p']) \o Some(tree.left[p'])
          /\ UNCHANGED pc
  /\ UNCHANGED <<walk, tree, start, chain>>

BreadthFirst ==
  /\ walk = "breadthFirst" /\ pc = "loop"
  /\ IF store = <<>>
     THEN pc' = "done" /\ UNCHANGED <<p, store, out>>
     ELSE /\ p' = Head(store)
          /\ Visit(p')
          /\ store' = Tail(store) \o Some(tree.left[p']) \o Some(tree.right[p'])
          /\ UNCHANGED pc
  /\ UNCHANGED <<walk, tree, start, chain>>

\* iterativeInorder() whose first loop does not stack the right child.
InorderForgetsRight ==
  /\ walk = "iterativeInorder" /\ pc = "loop"
  /\ IF p # 0
     THEN store' = Append(store, p) /\ p' = tree.left[p] /\ UNCHANGED pc
     ELSE IF store = <<>> THEN pc' = "done" /\ UNCHANGED <<p, store>>
     ELSE p' = Last(store) /\ store' = Front(store) /\ pc' = "visit"
  /\ UNCHANGED <<walk, tree, start, chain, out>>

\* iterativeInorder(): down to the left, each node above its right child
InorderDown ==
  /\ walk = "iterativeInorder" /\ pc = "loop"
  /\ IF p # 0
     THEN /\ store' = store \o Some(tree.right[p]) \o <<p>>
          /\ p' = tree.left[p]
          /\ UNCHANGED pc
     ELSE IF store = <<>> THEN pc' = "done" /\ UNCHANGED <<p, store>>
     ELSE p' = Last(store) /\ store' = Front(store) /\ pc' = "visit"
  /\ UNCHANGED <<walk, tree, start, chain, out>>

\* and up: every node without a right child, and the first with one
InorderUp ==
  /\ walk = "iterativeInorder" /\ pc = "visit"
  /\ Visit(p)
  /\ IF store = <<>>
     THEN p' = 0 /\ pc' = "done" /\ UNCHANGED store
     ELSE /\ p' = Last(store)
          /\ store' = Front(store)
          /\ pc' = IF tree.right[p] = 0 THEN "visit" ELSE "loop"
  /\ UNCHANGED <<walk, tree, start, chain>>

PostorderDown ==
  /\ walk = "iterativePostorder" /\ pc = "loop"
  /\ IF p = 0 THEN pc' = "done" /\ UNCHANGED <<p, store>>
     ELSE IF tree.left[p] # 0
     THEN store' = Append(store, p) /\ p' = tree.left[p] /\ UNCHANGED pc
     ELSE pc' = "visit" /\ UNCHANGED <<p, store>>
  /\ UNCHANGED <<walk, tree, start, chain, out>>

PostorderUp ==
  /\ walk = "iterativePostorder" /\ pc = "visit"
  /\ IF tree.right[p] = 0 \/ tree.right[p] = chain.q
     THEN /\ Visit(p)
          /\ chain' = [chain EXCEPT !.q = p]
          /\ IF store = <<>>
             THEN pc' = "done" /\ UNCHANGED <<p, store>>
             ELSE p' = Last(store) /\ store' = Front(store) /\ UNCHANGED pc
     ELSE /\ store' = Append(store, p)
          /\ p' = tree.right[p]
          /\ pc' = "loop"
          /\ UNCHANGED <<chain, out>>
  /\ UNCHANGED <<walk, tree, start>>

\* The node to thread: down to the right from n's left child, up to a node
\* without a right child or the one threaded to n.
Predecessor(n) ==
  LET last[m \in Node] ==
        IF tree.right[m] \in {0, n} THEN m ELSE last[tree.right[m]]
  IN  last[LeftOf(n)]

Morris == walk \in {"MorrisPreorder", "MorrisInorder", "MorrisPostorder"} /\ pc = "loop"

\* p is the null pointer.
MorrisEnd ==
  /\ Morris /\ p = 0
  /\ pc' = "done"
  /\ UNCHANGED <<walk, tree, start, p, chain, store, out>>

\* p has no left child.
MorrisRight ==
  /\ Morris /\ p # 0 /\ LeftOf(p) = 0
  /\ p' = RightOf(p)
  /\ IF walk = "MorrisPostorder" THEN UNCHANGED out ELSE Visit(p)
  /\ UNCHANGED <<walk, tree, start, chain, store, pc>>

\* The first time at p: its predecessor becomes a temporary parent.
MorrisThread ==
  /\ Morris /\ p # 0 /\ LeftOf(p) # 0 /\ tree.right[Predecessor(p)] = 0
  /\ tree' = [tree EXCEPT !.right[Predecessor(p)] = p]
  /\ p' = LeftOf(p)
  /\ IF walk = "MorrisPreorder" THEN Visit(p) ELSE UNCHANGED out
  /\ UNCHANGED <<walk, start, chain, store, pc>>

\* An inner loop that stops at the null pointer only: it goes round the thread
\* for ever, and changes nothing.
MorrisCircles ==
  /\ Morris /\ p # 0 /\ LeftOf(p) # 0 /\ tree.right[Predecessor(p)] = p
  /\ walk # "MorrisPostorder"
  /\ UNCHANGED vars

\* A traversal that leaves its threads in the tree.
MorrisUncut ==
  /\ Morris /\ p # 0 /\ LeftOf(p) # 0 /\ tree.right[Predecessor(p)] = p
  /\ walk # "MorrisPostorder"
  /\ p' = RightOf(p)
  /\ IF walk = "MorrisInorder" THEN Visit(p) ELSE UNCHANGED out
  /\ UNCHANGED <<walk, tree, start, chain, store, pc>>

\* The second time: the temporary parent is found, and cut off again.
MorrisCut ==
  /\ Morris /\ p # 0 /\ LeftOf(p) # 0 /\ tree.right[Predecessor(p)] = p
  /\ walk # "MorrisPostorder"
  /\ tree' = [tree EXCEPT !.right[Predecessor(p)] = 0]
  /\ p' = RightOf(p)
  /\ IF walk = "MorrisInorder" THEN Visit(p) ELSE UNCHANGED out
  /\ UNCHANGED <<walk, start, chain, store, pc>>

\* MorrisPostorder() has left the nodes from the left child of p to tmp for
\* now, a chain of right pointers to p: it descends the chain and reverses
\* them ...
MorrisChain ==
  /\ Morris /\ p # 0 /\ LeftOf(p) # 0 /\ tree.right[Predecessor(p)] = p
  /\ walk = "MorrisPostorder"
  /\ chain' = [tmp |-> Predecessor(p), q |-> LeftOf(p), r |-> RightOf(LeftOf(p)),
               s |-> RightOf(RightOf(LeftOf(p)))]
  /\ pc' = "reverse"
  /\ UNCHANGED <<walk, tree, start, p, store, out>>

MorrisReverse ==
  /\ pc = "reverse"
  /\ IF chain.r # p
     THEN /\ tree' = [tree EXCEPT !.right[chain.r] = chain.q]
          /\ chain' = [chain EXCEPT !.q = chain.r, !.r = chain.s, !.s = RightOf(chain.s)]
          /\ UNCHANGED pc
     ELSE /\ chain' = [chain EXCEPT !.s = RightOf(chain.q)]
          /\ pc' = "restore"
          /\ UNCHANGED tree
  /\ UNCHANGED <<walk, start, p, store, out>>

\* A second loop that does not turn the pointers back.
MorrisVisitOnly ==
  /\ pc = "restore"
  /\ IF chain.q # LeftOf(p)
     THEN /\ Visit(chain.q)
          /\ chain' = [chain EXCEPT !.r = chain.q, !.q = chain.s, !.s = RightOf(chain.s)]
          /\ UNCHANGED <<tree, p, pc>>
     ELSE /\ Visit(LeftOf(p))
          /\ tree' = [tree EXCEPT !.right[chain.tmp] = 0]
          /\ p' = RightOf(p)
          /\ pc' = "loop"
          /\ UNCHANGED chain
  /\ UNCHANGED <<walk, start, store>>

\* ... and goes back, visits, and turns them round again; the one to p is cut.
MorrisRestore ==
  /\ pc = "restore"
  /\ IF chain.q # LeftOf(p)
     THEN /\ Visit(chain.q)
          /\ tree' = [tree EXCEPT !.right[chain.q] = chain.r]
          /\ chain' = [chain EXCEPT !.r = chain.q, !.q = chain.s, !.s = tree'.right[chain.s]]
          /\ UNCHANGED <<p, pc>>
     ELSE /\ Visit(LeftOf(p))
          /\ tree' = [tree EXCEPT !.right[chain.tmp] = 0]
          /\ p' = RightOf(p)
          /\ pc' = "loop"
          /\ UNCHANGED chain
  /\ UNCHANGED <<walk, start, store>>

\* Every tree that insertions make of the nodes 1..k.
BuiltFrom(xs) == FoldLeft(LAMBDA t, x : Insert(t, x, x), EmptyTree, xs)
Shapes == {BuiltFrom(xs) : xs \in UNION {SetToSeqs(1..k) : k \in 0..Cardinality(Node)}}

Init ==
  /\ walk \in Walks
  /\ tree \in Shapes
  /\ start = tree
  /\ p = IF walk = "MorrisPostorder" THEN Dummy ELSE tree.root
  /\ chain = [tmp |-> 0, q |-> tree.root, r |-> 0, s |-> 0]
  /\ store = IF walk \in {"iterativePreorder", "breadthFirst"} THEN Some(tree.root) ELSE <<>>
  /\ pc = "loop"
  /\ out = <<>>

Next ==
  \/ IterativePreorder \/ BreadthFirst
  \/ InorderDown \/ InorderUp
  \/ PostorderDown \/ PostorderUp
  \/ MorrisEnd \/ MorrisRight \/ MorrisThread \/ MorrisCut
  \/ MorrisChain \/ MorrisReverse \/ MorrisRestore

\* A traversal is one call that nothing holds up.
Spec == Init /\ [][Next]_vars /\ WF_vars(Next)

-----------------------------------------------------------------------------
(* Properties                                                              *)

TypeOK ==
  /\ walk \in Walks
  /\ start \in Tree
  /\ DOMAIN tree = DOMAIN start /\ tree.right \in [Node -> Pointer \cup {Dummy}]
  /\ p \in Pointer \cup {Dummy}
  /\ chain \in [{"tmp", "q", "r", "s"} -> Pointer \cup {Dummy}]
  /\ store \in Seq(Node) /\ out \in Seq(Node)
  /\ pc \in {"loop", "visit", "reverse", "restore", "done"}

\* The order each traversal is named for.  Breadth first: by depth, and from
\* left to right, which is in order, within one depth.
Depth(n) ==
  LET up[m \in Node] == IF m = start.root THEN 0
                        ELSE 1 + up[CHOOSE k \in Node : m \in {start.left[k], start.right[k]}]
  IN  up[n]
ByDepth(m, n) == Depth(m) < Depth(n) \/ (Depth(m) = Depth(n) /\ m < n)
Expected ==
  CASE walk \in {"iterativePreorder", "MorrisPreorder"} -> Preorder(start)
    [] walk \in {"iterativeInorder", "MorrisInorder"} -> Inorder(start)
    [] walk \in {"iterativePostorder", "MorrisPostorder"} -> Postorder(start)
    [] walk = "breadthFirst" -> SetToSortSeq({Inorder(start)[k] : k \in DOMAIN Inorder(start)}, ByDepth)

\* Whatever its own stack, queue or threads, a traversal visits as the
\* recursive one of the same name does: never a node twice or too early, and
\* none is left out when it returns.
VisitsInOrder ==
  /\ IsPrefix(out, Expected)
  /\ pc = "done" => out = Expected

\* A traversal leaves the tree as it found it.
TreeIsRestored == pc = "done" => tree = start

LeftSubtree(n) ==
  Range(Inorder([start EXCEPT !.root = IF n = Dummy THEN @ ELSE start.left[n]]))

\* The nodes from n down to the right, before the traversal.
Spine(n) ==
  LET down[m \in Pointer] == IF m = 0 THEN {} ELSE {m} \cup down[start.right[m]]
  IN  down[n]

\* The chain whose pointers MorrisPostorder() is about to reverse or restore.
Reversed == IF pc \in {"reverse", "restore"} THEN Spine(LeftOf(p)) ELSE {}

\* While it runs, the only links of the tree that differ are right links: those
\* of the chain being reversed, which never lead out of it but to p, and others
\* that were null: each of these leads to the node that comes next in order (or
\* from the last node to the dummy), and to one whose left subtree is being
\* walked.
ThreadsLeadToNext ==
  /\ tree.left = start.left /\ tree.root = start.root
  /\ \A n \in Reversed : tree.right[n] \in Reversed \cup {p}
  /\ \A n \in Node \ Reversed :
       tree.right[n] # start.right[n] =>
         /\ start.right[n] = 0
         /\ tree.right[n] = IF n = Last(Inorder(start)) THEN Dummy ELSE n + 1
         /\ p = tree.right[n] \/ p \in LeftSubtree(tree.right[n])

\* Every traversal visits in its order and gives back the tree.
TraversalIsRight ==
  /\ TypeOK /\ VisitsInOrder
  /\ TreeIsRestored /\ ThreadsLeadToNext
=============================================================================
