------------------------------ MODULE Labelling ------------------------------
(***************************************************************************)
(* Program 2 of IraLeeHomework2: connected components of a binary image.   *)
(* ReadImage() labels every pixel as it comes from the file (setLabel()),  *)
(* class UnionFind holds which labels are of one object, and secondPass()  *)
(* numbers the objects.                                                    *)
(***************************************************************************)
EXTENDS Integers, Sequences, FiniteSets, SequencesExt

CONSTANTS Rows, Columns

LabellingAssumption == Rows \in Nat /\ Columns \in Nat

Pixel == (0..Rows-1) \X (0..Columns-1)
MaxLabel == 1 + Rows * Columns
Label == {-1} \cup 1..MaxLabel
NoNode == 0

VARIABLES
  pc,          \* "read", "short" for a short file, or "done"
  read,        \* pixels read
  bright,      \* those of gray level 255
  labels,      \* labels_; -1 for no label
  labelCount,
  nodeLocs,    \* the labels that have a node
  prev,        \* Node::prev, NoNode for a root
  collection,  \* the roots, as labels
  value        \* Node::value of the roots after the second pass

chart == <<nodeLocs, prev, collection>>
vars == <<pc, read, bright, labels, labelCount, chart, value>>

-----------------------------------------------------------------------------
(* UnionFind, as functions of the record c of its fields                   *)

Chart == [nodeLocs |-> nodeLocs, prev |-> prev, collection |-> collection]

Root(links, l) ==
  LET up[m \in Label] == IF links[m] = NoNode THEN m ELSE up[links[m]]
  IN  up[l]

\* find(): adds a node that is not there; one that is below a child of its
\* root is hung to the root.  (The vectors Node::next, which nothing reads, are
\* left out; the erase() in the loop is made on a copy of one.)
Find(c, l) ==
  IF l \notin c.nodeLocs
  THEN [c EXCEPT !.nodeLocs = @ \cup {l}, !.collection = Append(@, l)]
  ELSE LET root == Root(c.prev, l)
       IN  IF c.prev[l] \in {NoNode, root} THEN c
           ELSE [c EXCEPT !.prev[l] = root]

\* Union() that leaves the root it hung elsewhere in the collection.
UnionKeeps(c, a, b) ==
  LET d == Find(Find(c, a), b)
      aRoot == Root(d.prev, a)
      bRoot == Root(d.prev, b)
  IN  IF aRoot = bRoot THEN d
      ELSE [d EXCEPT !.prev[bRoot] = aRoot]

Union(c, a, b) ==
  LET d == Find(Find(c, a), b)
      aRoot == Root(d.prev, a)
      bRoot == Root(d.prev, b)
  IN  IF aRoot = bRoot THEN d
      ELSE [d EXCEPT !.prev[bRoot] = aRoot,
                     !.collection = SelectSeq(@, LAMBDA r : r # bRoot)]

SetChart(c) ==
  /\ nodeLocs' = c.nodeLocs /\ prev' = c.prev
  /\ collection' = c.collection

-----------------------------------------------------------------------------
(* setLabel()                                                              *)

At(i, j) == IF i < 0 \/ j < 0 THEN -1 ELSE labels[i, j]
Put(p, l) == labels' = [labels EXCEPT ![p] = l]

NewItem(p) ==
  LET corner == IF p = <<0, 0>> THEN 1 ELSE 0  \* counted twice
      l == labelCount + corner + 1
  IN  labelCount' = l /\ Put(p, l) /\ SetChart(Find(Chart, l))

Keep(p, l) == Put(p, l) /\ UNCHANGED <<labelCount, chart>>

\* A bright pixel that takes the label to its left without a union.
SetLabelNoUnion(p, top, left, topLeft) ==
  \/ top = -1 /\ left = -1 /\ topLeft = -1 /\ NewItem(p)
  \/ topLeft > 0 /\ Keep(p, topLeft)
  \/ topLeft = -1 /\ top = -1 /\ left > 0 /\ Keep(p, left)
  \/ topLeft = -1 /\ left = -1 /\ top > 0 /\ Keep(p, top)
  \/ topLeft = -1 /\ left > 0 /\ top > 0 /\ Keep(p, left)

\* A bright pixel.  The last case has no branch in the code: left and top
\* have the same label, and the pixel keeps the -1 it was given first.
SetLabel(p, top, left, topLeft) ==
  \/ top = -1 /\ left = -1 /\ topLeft = -1 /\ NewItem(p)
  \/ topLeft > 0 /\ Keep(p, topLeft)
  \/ topLeft = -1 /\ top = -1 /\ left > 0 /\ Keep(p, left)
  \/ topLeft = -1 /\ left = -1 /\ top > 0 /\ Keep(p, top)
  \/ /\ topLeft = -1 /\ left > 0 /\ top > 0 /\ left # top
     /\ Put(p, left)
     /\ SetChart(Union(Chart, left, top))
     /\ UNCHANGED labelCount
  \/ topLeft = -1 /\ left > 0 /\ top = left /\ Keep(p, -1)

\* One round of the loops of ReadImage()
ReadPixel(gray_level) ==
  /\ pc = "read" /\ read < Rows * Columns
  /\ read' = read + 1
  /\ LET i == read \div Columns
         j == read % Columns
     IN  IF gray_level = 255
         THEN /\ bright' = bright \cup {<<i, j>>}
              /\ SetLabel(<<i, j>>, At(i-1, j), At(i, j-1), At(i-1, j-1))
         ELSE UNCHANGED <<bright, labels, labelCount, chart>>
  /\ UNCHANGED <<pc, value>>

\* "ReadImage: short file", and main() ends
ShortFile ==
  /\ pc = "read" /\ read < Rows * Columns
  /\ pc' = "short"
  /\ UNCHANGED <<read, bright, labels, labelCount, chart, value>>

-----------------------------------------------------------------------------
(* secondPass()                                                            *)

InRasterOrder == [k \in 1..Rows * Columns |-> <<(k - 1) \div Columns, (k - 1) % Columns>>]

\* secondPass() that numbers a root once its label is met.
SecondPassLate ==
  /\ pc = "read" /\ read = Rows * Columns
  /\ pc' = "done"
  /\ LET found == FoldLeft(LAMBDA c, p : Find(c, labels[p]), Chart, InRasterOrder)
     IN  /\ SetChart(found)
         /\ value' = [l \in Label |-> IF l \in Range(found.collection)
                                      THEN CHOOSE k \in DOMAIN found.collection : found.collection[k] = l
                                      ELSE l]
         /\ labels' = [p \in Pixel |-> value'[Root(found.prev, labels[p])]]
  /\ UNCHANGED <<read, bright, labelCount>>

\* The roots get the numbers from 1; a pixel without a label asks find() for
\* -1, which makes a node for it, and gets 0.
SecondPass ==
  /\ pc = "read" /\ read = Rows * Columns
  /\ pc' = "done"
  /\ value' = [l \in Label |-> IF l \in Range(collection)
                               THEN CHOOSE k \in DOMAIN collection : collection[k] = l
                               ELSE l]
  /\ LET found == FoldLeft(LAMBDA c, p : Find(c, labels[p]), Chart, InRasterOrder)
     IN  /\ SetChart(found)
         /\ labels' = [p \in Pixel |->
                         LET val == value'[Root(found.prev, labels[p])]
                         IN  IF val < 0 THEN 0 ELSE val]
  /\ UNCHANGED <<read, bright, labelCount>>

Init ==
  /\ pc = "read" /\ read = 0 /\ bright = {}
  /\ labels = [p \in Pixel |-> -1]
  /\ labelCount = 0
  /\ nodeLocs = {} /\ collection = <<>>
  /\ prev = [l \in Label |-> NoNode]
  /\ value = [l \in Label |-> l]

Next == SecondPass \/ ShortFile \/ \E gray_level \in {0, 255} : ReadPixel(gray_level)

Spec == Init /\ [][Next]_vars

-----------------------------------------------------------------------------
(* Properties                                                              *)

TypeOK ==
  /\ pc \in {"read", "short", "done"}
  /\ read \in 0..Rows * Columns /\ bright \subseteq Pixel
  /\ labels \in [Pixel -> IF pc = "done" THEN 0..MaxLabel ELSE Label]
  /\ labelCount \in 0..MaxLabel
  /\ nodeLocs \subseteq Label
  /\ prev \in [Label -> Label \cup {NoNode}]
  /\ collection \in Seq(Label)
  /\ value \in [Label -> Label]

\* The collection is the set of the roots, each once, and every pixel's label
\* has a node: the number of objects that secondPass() prints, the length of
\* the collection, is right however the unions fell.
CollectionIsTheRoots ==
  /\ IsInjective(collection)
  /\ Range(collection) = {l \in nodeLocs : prev[l] = NoNode}
  /\ pc = "read" => {labels[p] : p \in Pixel} \ {-1} \subseteq nodeLocs

\* After secondPass() the objects are numbered from 1 without a gap, and 0 is
\* everything else.
NumbersAreDense ==
  pc = "done" =>
    {labels[p] : p \in Pixel} \ {0} = 1..Cardinality(Range(collection) \ {-1})

\* Labels, unions and the second pass together make the connected components
\* of the bright pixels, at every pixel read and after the renumbering; what
\* is lost is only a pixel between two neighbours that are of one object.
Labelled == {p \in Pixel : labels[p] > 0}
Objects ==
  LET of == [p \in Labelled |-> IF pc = "done" THEN labels[p] ELSE Root(prev, labels[p])]
  IN  {{p \in Labelled : of[p] = l} : l \in Range(of)}
O == INSTANCE ObjectMap WITH objects <- Objects

\* Labels, their roots and their numbers agree.
LabelsAreRight == TypeOK /\ CollectionIsTheRoots /\ NumbersAreDense
=============================================================================
