-------------------------- MODULE MCDataStructures ---------------------------
(***************************************************************************)
(* The lists, with their values, and beside them three more parts of       *)
(* programs that share nothing with them or each other: program says which *)
(* one runs, and the variables of the others are Off.  Each is an instance *)
(* of its own module, with its bounds here.                                *)
(***************************************************************************)
EXTENDS Lists, Sequences

VARIABLES
  tree, order,
  walk, wtree, start, p, chain, store, out,
  read, bright, labels, labelCount, nodeLocs, prev, collection, value

\* Four students of two names: the same name twice and others between.
MCStudent == 1..4

\* Four nodes: a node with two children, the left one of which has a right child.
Bst == INSTANCE BST WITH Node <- 1..4, Name <- 1..3
\* Every tree of at most five nodes.
Walk == INSTANCE Traversals WITH Node <- 1..5, Name <- 1..5, tree <- wtree
\* Every binary image of three rows and four columns.
Lab == INSTANCE Labelling WITH Rows <- 3, Columns <- 4

ASSUME PartsAssumption ==
  Bst!TreesAssumption /\ Walk!TreesAssumption /\ Lab!LabellingAssumption

\* The variables of VisionList but pc, which others use as well.
rest == <<failed, ch, hptr, roll, mark, link>>
bst == <<tree, order>>
wlk == <<walk, wtree, start, p, chain, store, out>>
lab == <<read, bright, labels, labelCount, nodeLocs, prev, collection, value>>

BST == program = "BST"
Traversals == program = "Traversals"
Labelling == program = "Labelling"

BstOff ==
  /\ tree = Off /\ order = Off
WalkOff ==
  /\ walk = Off /\ wtree = Off /\ start = Off /\ p = Off /\ chain = Off
  /\ store = Off /\ out = Off
LabOff ==
  /\ read = Off /\ bright = Off /\ labels = Off /\ labelCount = Off
  /\ nodeLocs = Off /\ prev = Off /\ collection = Off /\ value = Off

RestOff ==
  /\ failed = Off /\ ch = Off /\ hptr = Off /\ roll = Off /\ mark = Off /\ link = Off

MCInit ==
  /\ \/ Init
     \/ program \in {"BST", "Traversals", "Labelling"} /\ KomlOff /\ RestOff
  /\ IF BST THEN Bst!Init /\ pc = Off ELSE BstOff
  /\ IF Traversals THEN Walk!Init ELSE WalkOff
  /\ IF Labelling THEN Lab!Init ELSE LabOff

MCNext ==
  \/ Next /\ UNCHANGED <<bst, wlk, lab>>
  \/ BST /\ Bst!Next /\ UNCHANGED <<program, pc, kml, rest, wlk, lab>>
  \/ Traversals /\ Walk!Next /\ UNCHANGED <<program, kml, rest, bst, lab>>
  \/ Labelling /\ Lab!Next /\ UNCHANGED <<program, kml, rest, bst, wlk>>

\* A traversal is a call that nothing holds up.
Fairness == WF_(Walk!vars)(Traversals /\ Walk!Next)

MCSpec == MCInit /\ [][MCNext]_<<vars, bst, wlk, lab>> /\ Fairness

-----------------------------------------------------------------------------
(* The properties of the modules, beside those of Lists                    *)

\* class BST: a traversal visits in its order and gives back the tree.
TraversalIsRight == Traversals => Walk!TraversalIsRight

\* class BST implements a bag of names with a tree in order, from which no
\* node leaks, and balance() of an empty tree balances.
ImplementsBag ==
  /\ [](BST => Bst!TreeIsRight)
  /\ BST => Bst!B!Init
  /\ [][BST => [Bst!B!Next]_(Bst!B!vars) /\ Bst!BalanceStep]_<<program, bst>>

\* vision: labels that are united as they meet implement the map of connected
\* objects, with one root for each and numbers without a gap.
ImplementsObjectMap ==
  /\ [](Labelling => Lab!LabelsAreRight)
  /\ Labelling => Lab!O!Init
  /\ [][Labelling => [Lab!O!Read]_(Lab!O!vars)]_<<program, pc, lab>>

\* The traversals end, though a thread makes a cycle of the tree.
Ends == <>(Traversals => pc = "done")
=============================================================================
