------------------------------ MODULE ObjectMap ------------------------------
(***************************************************************************)
(* What labelling an image promises, pixel by pixel as it is read: the     *)
(* bright pixels fall into objects, and a pixel joins all the objects it   *)
(* touches into one.  A pixel touches the ones to its left, above it, and  *)
(* to the left above.                                                      *)
(***************************************************************************)
EXTENDS Naturals, FiniteSets

CONSTANTS Rows, Columns
VARIABLES objects, bright, read

vars == <<objects, bright, read>>

Pixel == (0..Rows-1) \X (0..Columns-1)
Before(p) == {<<p[1], p[2] - 1>>, <<p[1] - 1, p[2]>>, <<p[1] - 1, p[2] - 1>>}
Touched(p) == {o \in objects : o \cap Before(p) # {}}

Init == objects = {} /\ bright = {} /\ read = 0

Dark == UNCHANGED <<objects, bright>>
Joined(p) == objects' = (objects \ Touched(p)) \cup {UNION Touched(p) \cup {p}}

\* The one deviation of the code: a pixel whose left and upper neighbours are
\* of one object already, the one between them being dark, may be left out.
MayBeDropped(p) ==
  /\ \E o \in objects : <<p[1], p[2] - 1>> \in o /\ <<p[1] - 1, p[2]>> \in o
  /\ \A o \in objects : <<p[1] - 1, p[2] - 1>> \notin o
Bright(p) ==
  /\ bright' = bright \cup {p}
  /\ Joined(p) \/ (MayBeDropped(p) /\ UNCHANGED objects)

Read ==
  /\ read < Rows * Columns
  /\ read' = read + 1
  /\ LET p == <<read \div Columns, read % Columns>>
     IN  Dark \/ Bright(p)

Spec == Init /\ [][Read]_vars
=============================================================================
