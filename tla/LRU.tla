--------------------------------- MODULE LRU ---------------------------------
(***************************************************************************)
(* Least-recently-used replacement, said without frames or time stamps:    *)
(* the resident pages, and which of two was used last.                     *)
(***************************************************************************)
EXTENDS Integers, FiniteSets

CONSTANTS PageOf, frames   \* the pages there are, and how many are resident

VARIABLES
  resident,  \* the pages in memory
  older      \* <<x, y>>: x and y are resident and x was last used before y

lruVars == <<resident, older>>

Oldest(x) == x \in resident /\ \A y \in resident : <<y, x>> \notin older

LRUInit == resident = {} /\ older = {}

\* x is used and is the youngest; of the other pages, those in K stay.
UseBeside(K, x) ==
  /\ resident' = K \cup {x}
  /\ older' = {a \in older : a[1] \in K /\ a[2] \in K} \cup {<<y, x>> : y \in K}

\* A resident page is used, or one is brought in: where every frame is taken,
\* the oldest makes room for it.
Use(x) ==
  \/ /\ x \in resident \/ Cardinality(resident) < frames
     /\ UseBeside(resident \ {x}, x)
  \/ /\ x \notin resident
     /\ Cardinality(resident) = frames
     /\ \E y \in resident : Oldest(y) /\ UseBeside(resident \ {y}, x)

\* The pages X go, however old they are.
Drop(X) ==
  /\ resident' = resident \ X
  /\ older' = {a \in older : a[1] \notin X /\ a[2] \notin X}

LRUNext ==
  \/ \E x \in PageOf : Use(x)
  \/ \E x \in PageOf : Drop({y \in PageOf : y.pid = x.pid})

LRUSpec == LRUInit /\ [][LRUNext]_lruVars
=============================================================================
