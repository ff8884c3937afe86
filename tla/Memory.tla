------------------------------- MODULE Memory -------------------------------
(***************************************************************************)
(* The memory manager of LeeOSProject: class Memory, which keeps the       *)
(* processes and the holes of the simulated RAM in a doubly linked list of *)
(* heap-allocated Process objects ordered by address.                      *)
(*                                                                         *)
(* The model is at the level of pointers: heap holds the objects that are  *)
(* allocated, new takes any address that is not in use (a freed one        *)
(* included) and delete removes one.  Following a pointer to a deleted     *)
(* object, or through nullptr, is undefined behaviour: it sets wild, after *)
(* which the module says nothing more.  Process::priority and              *)
(* Process::processNumber do not influence the list; Scheduler and OSSim   *)
(* deal with the former, the latter is -1 exactly when empty is true.      *)
(***************************************************************************)
EXTENDS Integers, Functions

CONSTANTS
  Node,         \* addresses of Process objects
  NULL,         \* nullptr
  maxVal,       \* Memory::maxVal, the bytes of the simulated RAM
  UINT,         \* unsigned int counts modulo UINT
  RequestSize   \* sizes a user may type after the command A

ASSUME MemoryAssumption ==
  /\ NULL \notin Node
  /\ Node # {}
  /\ UINT \in Nat
  /\ maxVal \in 1..(UINT - 1)         \* getInput() loops until non-zero
  /\ RequestSize \subseteq 0..(UINT - 1)

VARIABLES
  heap,     \* heap[n], the Process object at n, for every allocated n
  root,     \* Memory::root
  wild,     \* undefined behaviour was executed
  leaked,   \* history: holes that an exact fit took out of the list
  damage    \* history: the kinds of step that break the list taken so far

memVars == <<heap, root, wild, leaked, damage>>

Live == DOMAIN heap
Pointer == Node \cup {NULL}

ProcessObject ==
  [start: 0..(UINT - 1), end: 0..(UINT - 1), size: 0..(UINT - 1),
   prev: Pointer, next: Pointer, empty: BOOLEAN]

-----------------------------------------------------------------------------
(* insert(): the walk.                                                     *)

\* A hole of more than s bytes: an exact fit is refused.
FitsWithRest(n, s) == heap[n].empty /\ heap[n].size > s

\* A hole of at least s bytes.
Fits(n, s) == heap[n].empty /\ heap[n].size >= s

(***************************************************************************)
(* The nodes the loop of insert() reaches: root, and the successor of      *)
(* every allocated node it reaches that does not fit.  The loop's last     *)
(* node is examined after the loop, by the same tests.                     *)
(***************************************************************************)
ClosedUnderWalk(S, s) ==
  /\ root \in S
  /\ \A m \in S \cap Live :
       ~Fits(m, s) /\ heap[m].next # NULL => heap[m].next \in S

Reached(n, s) == \A S \in SUBSET Node : ClosedUnderWalk(S, s) => n \in S

\* Where the walk ends: at a node that fits, or at the end of the list.
Spot(c, s) == Fits(c, s) /\ Reached(c, s)
NoSpot(s) ==
  \E n \in Live : heap[n].next = NULL /\ ~Fits(n, s) /\ Reached(n, s)

-----------------------------------------------------------------------------
(* insert(): the new process t takes the first s bytes of the hole c.      *)

Exact(c, s) == ~(heap[c].size > s)

\* NewProcess with the end of an int, which does not wrap around.
NewProcessUnwrapped(c, s) ==
  [start |-> heap[c].start, end |-> heap[c].start + s - 1, size |-> s,
   prev |-> heap[c].prev, next |-> IF Exact(c, s) THEN heap[c].next ELSE c,
   empty |-> FALSE]

\* The Process object that `new` constructs.
NewProcess(c, s) ==
  [start |-> heap[c].start,
   end   |-> (heap[c].start + s - 1) % UINT,
   size  |-> s,
   prev  |-> heap[c].prev,
   next  |-> IF Exact(c, s) THEN heap[c].next ELSE c,
   empty |-> FALSE]

\* What is left of the hole; on an exact fit it keeps all its fields.
Remainder(c, s, t) ==
  IF Exact(c, s) THEN heap[c]
  ELSE [heap[c] EXCEPT !.start = (@ + s) % UINT, !.size = @ - s, !.prev = t]

Placed(c, s, t) ==
  [n \in Live \cup {t} |->
     CASE n = t -> NewProcess(c, s)
       [] n = c -> Remainder(c, s, t)
       [] OTHER -> heap[n]]

\* LinkPredecessor without the else: only root is ever set.
LinkRootOnly(h, c, t) ==
  /\ heap' = h
  /\ root' = IF heap[c].start = 0 THEN t ELSE root
  /\ UNCHANGED wild

\* "if (nStart == 0) root = temp; else temp->prev->next = temp;"
LinkPredecessor(h, c, t) ==
  IF heap[c].start = 0
  THEN heap' = h /\ root' = t /\ UNCHANGED wild
  ELSE IF heap[c].prev \in DOMAIN h
       THEN heap' = [h EXCEPT ![heap[c].prev].next = t] /\ UNCHANGED <<root, wild>>
       ELSE wild' = TRUE /\ UNCHANGED <<heap, root>>

\* The bookkeeping of the history variables: an exact fit unlinks c without
\* deleting it, and leaves the next node pointing back to it.
InsertHistory(c, s) ==
  /\ leaked' = IF Exact(c, s) THEN leaked \cup {c} ELSE leaked
  /\ damage' = damage \cup
       (IF Exact(c, s) /\ heap[c].next # NULL THEN {"exact"} ELSE {}) \cup
       (IF s = 0 THEN {"zero"} ELSE {})

Insert(s, t) ==
  /\ ~wild
  /\ t \notin Live
  /\ \E c \in Live :
       /\ Spot(c, s)
       /\ LinkPredecessor(Placed(c, s, t), c, t)
       /\ InsertHistory(c, s)

\* The walk follows a dangling pointer, or never ends.
InsertAstray(s) ==
  /\ ~wild
  /\ ~NoSpot(s)
  /\ \A c \in Live : ~Spot(c, s)
  /\ wild' = TRUE
  /\ UNCHANGED <<heap, root, leaked, damage>>

-----------------------------------------------------------------------------
(* deleteProcess()                                                         *)

Deleted(h, n) == Restrict(h, DOMAIN h \ {n})

\* n may be dereferenced after a test for nullptr.
Valid(h, n) == n = NULL \/ n \in DOMAIN h

\* HoleBefore without its second test: p is merged into any neighbour.
AnyBefore(h, n) == h[n].prev # NULL

\* "currptr->prev != nullptr && currptr->prev->empty", and the same for next.
HoleBefore(h, n) == h[n].prev # NULL /\ h[h[n].prev].empty
HoleAfter(h, n) == h[n].next # NULL /\ h[h[n].next].empty

\* MergeIntoPrev without "currptr->next->prev = currptr->prev".
MergeIntoPrevOneWay(h, p) ==
  LET l == h[p].prev
  IN  Deleted([h EXCEPT ![l].end = h[p].end,
                        ![l].size = (@ + h[p].size) % UINT,
                        ![l].next = h[p].next], p)

\* The first if statement: p becomes part of the hole l before it.
MergeIntoPrev(h, p) ==
  LET l == h[p].prev
      r == h[p].next
      grown == [h EXCEPT ![l].end = h[p].end,
                         ![l].size = (@ + h[p].size) % UINT,
                         ![l].next = r]
      linked == IF r = NULL THEN grown ELSE [grown EXCEPT ![r].prev = l]
  IN  Deleted(linked, p)

\* MergeIntoNext without "currptr->next->start = currptr->start".
MergeIntoNextKeepsStart(h, c) ==
  LET l == h[c].prev
      r == h[c].next
      grown == [h EXCEPT ![r].size = (@ + h[c].size) % UINT, ![r].prev = l]
      linked == IF l = NULL THEN grown ELSE [grown EXCEPT ![l].next = r]
  IN  Deleted(linked, c)

\* The second if statement: c becomes part of the hole r after it.
MergeIntoNext(h, c) ==
  LET l == h[c].prev
      r == h[c].next
      grown == [h EXCEPT ![r].start = h[c].start,
                         ![r].size = (@ + h[c].size) % UINT,
                         ![r].prev = l]
      linked == IF l = NULL THEN grown ELSE [grown EXCEPT ![l].next = r]
  IN  Deleted(linked, c)

\* "if (currptr->next->size >= maxVal) root = currptr->next;"
WholeMemory(h, r) == h[r].size >= maxVal

\* The second half of deleteProcess(), from a heap h where currptr is c.
MergeRight(h, c) ==
  IF ~(c \in DOMAIN h /\ Valid(h, h[c].next))
  THEN wild' = TRUE /\ UNCHANGED <<heap, root, damage>>
  ELSE IF ~HoleAfter(h, c)
  THEN heap' = h /\ UNCHANGED <<root, wild, damage>>
  ELSE IF ~Valid(h, h[c].prev)
  THEN wild' = TRUE /\ UNCHANGED <<heap, root, damage>>
  ELSE LET r == h[c].next
           merged == MergeIntoNext(h, c)
           whole == r \in DOMAIN merged /\ WholeMemory(merged, r)
       IN  /\ heap' = merged
           /\ root' = IF whole THEN r ELSE root
           /\ damage' = IF h[c].prev = NULL /\ ~whole
                        THEN damage \cup {"head"} ELSE damage
           /\ UNCHANGED wild

Marked(p) == [heap EXCEPT ![p].empty = TRUE]

DeleteProcess(p) ==
  /\ ~wild
  /\ p \in Live
  /\ ~heap[p].empty
  /\ UNCHANGED leaked
  /\ IF ~Valid(heap, heap[p].prev)
     THEN wild' = TRUE /\ UNCHANGED <<heap, root, damage>>
     ELSE IF ~HoleBefore(Marked(p), p)
     THEN MergeRight(Marked(p), p)
     ELSE IF ~Valid(heap, heap[p].next)
     THEN wild' = TRUE /\ UNCHANGED <<heap, root, damage>>
     ELSE MergeRight(MergeIntoPrev(Marked(p), p), heap[p].prev)

-----------------------------------------------------------------------------

\* Memory::Memory(int m): one hole, the whole RAM.
MemInit ==
  \E n \in Node :
    /\ root = n
    /\ heap = [m \in {n} |->
                 [start |-> 0, end |-> maxVal - 1, size |-> maxVal,
                  prev |-> NULL, next |-> NULL, empty |-> TRUE]]
    /\ wild = FALSE
    /\ leaked = {}
    /\ damage = {}

MemNext ==
  \/ \E s \in RequestSize, t \in Node : Insert(s, t)
  \/ \E s \in RequestSize : InsertAstray(s)
  \/ \E p \in Node : DeleteProcess(p)

MemSpec == MemInit /\ [][MemNext]_memVars

-----------------------------------------------------------------------------
(* Properties.                                                             *)

Chain == Live \ leaked

MemTypeOK ==
  /\ Live \subseteq Node
  /\ heap \in [Live -> ProcessObject]
  /\ root \in Node
  /\ wild \in BOOLEAN
  /\ leaked \subseteq Node
  /\ damage \subseteq {"exact", "head", "zero"}

\* prev and next are each other's inverse, and root is where the list starts.
Linked ==
  /\ root \in Chain
  /\ \A n \in Chain :
       /\ heap[n].prev = NULL <=> n = root
       /\ heap[n].prev # NULL =>
            heap[n].prev \in Chain /\ heap[heap[n].prev].next = n
       /\ heap[n].next # NULL =>
            heap[n].next \in Chain /\ heap[heap[n].next].prev = n

\* The list covers the RAM from byte 0 to byte maxVal - 1, without overlap.
Tiled ==
  /\ \A n \in Chain :
       /\ heap[n].size \in 1..maxVal
       /\ heap[n].end = heap[n].start + heap[n].size - 1
       /\ heap[n].end < maxVal
       /\ heap[n].prev = NULL <=> heap[n].start = 0
       /\ IF heap[n].next = NULL
          THEN heap[n].end = maxVal - 1
          ELSE heap[heap[n].next].start = heap[n].end + 1
  /\ \A m, n \in Chain :
       m # n => heap[m].end < heap[n].start \/ heap[n].end < heap[m].start

\* Two holes are never neighbours: deleteProcess() merges on both sides.
Coalesced ==
  \A n \in Chain :
    heap[n].empty /\ heap[n].next # NULL => ~heap[heap[n].next].empty

\* Until one of the three damaging steps is taken the list is exact: linked
\* both ways, covering the RAM, with maximal holes.
ListIsSound == damage = {} => Linked /\ Tiled /\ Coalesced

\* "No spot could be found" is the truth: then no free run of s bytes exists.
Free(b) == \A n \in Chain : ~heap[n].empty => ~(b \in heap[n].start..heap[n].end)
FreeRun(a, s) == a + s <= maxVal /\ \A b \in a..(a + s - 1) : Free(b)
RefusesOnlyWhenFull ==
  \A s \in RequestSize \ {0} :
    damage = {} /\ ~wild =>
      (NoSpot(s) <=> \A a \in 0..(maxVal - 1) : ~FreeRun(a, s))

\* What the README says of the list that the command "S m" prints: every entry
\* is a process, or "a hole or inactive".  screenshot() starts at root ...
ScreenshotStartsAtAnEntry == ~wild => root \in Live

\* ... and follows next; no request is larger than UINT, so a walk that looks
\* for one visits what screenshot() prints.
ScreenshotShowsEntries ==
  ~wild /\ root \in Live =>
    \A n \in Live : Reached(n, UINT) /\ heap[n].next # NULL => heap[n].next \in Live

\* Byte b belongs to the process of the list whose start and end enclose it.
Owner(b) ==
  IF Free(b) THEN NULL
  ELSE CHOOSE n \in Chain : ~heap[n].empty /\ b \in heap[n].start..heap[n].end
Owners == [b \in 0..(maxVal - 1) |-> Owner(b)]

F == INSTANCE FirstFit WITH
       Process <- Node, Size <- RequestSize \ {0}, owner <- Owners

\* Up to the first step that damages the list, insert() takes the lowest
\* sufficient hole and deleteProcess() gives back exactly the bytes of its
\* process: no byte is lost to a merge or a split.
ImplementsFirstFit ==
  /\ F!FitInit
  /\ [][damage' = {} => [F!FitNext]_Owners]_memVars
=============================================================================
