------------------------------- MODULE Paging -------------------------------
(***************************************************************************)
(* The second OS simulation, sendbobspls: a paged memory with              *)
(* least-recently-used replacement (class Memory), three ready queues by   *)
(* used quanta (class Schedule), the processor (class CPU) and the hard    *)
(* disks.  One action is one command of main() with every call it makes.   *)
(***************************************************************************)
EXTENDS Integers, Sequences, Queues

CONSTANTS
  NULL,         \* nullptr
  numOfFrames,  \* Memory::numOfFrames
  hardDisks,    \* how many HardDisk objects
  Page,         \* page numbers a process may access, 0 among them
  RawIndex,     \* disk numbers a user may type after d and D
  MaxPid,       \* bound: processes ever created
  MaxTime       \* bound: Memory::timeSlice

ASSUME PagingAssumption ==
  /\ numOfFrames \in Nat \ {0} /\ hardDisks \in Nat
  /\ 0 \in Page /\ Page \subseteq Int
  /\ RawIndex \subseteq Nat
  /\ MaxPid \in Nat /\ MaxTime \in Nat
  /\ NULL \notin 1..MaxPid

VARIABLES
  currentProcess,  \* CPU::currentProcess, a pid here
  q,               \* Schedule::q
  hd,              \* the queue of every disk
  quantum,         \* Process::quantum; every value above 2 is one value
  pageTable,       \* Memory::pageTable
  timeSlice,       \* Memory::timeSlice
  processCounter,  \* Memory::processCounter
  wild             \* undefined behaviour was executed

memVars == <<pageTable, timeSlice>>
schedVars == <<currentProcess, q>>
vars == <<schedVars, hd, quantum, memVars, processCounter, wild>>

Pid == 1..MaxPid
Frame == 0..(numOfFrames - 1)
Disk == 0..(hardDisks - 1)
PageEntry == [page: Page \cup {-1}, pid: Pid \cup {-1}, timeSlice: -1..MaxTime]
FreeEntry == [page |-> -1, pid |-> -1, timeSlice |-> -1]

-----------------------------------------------------------------------------
(* Memory                                                                  *)

\* leastUsedFrame() with the comparison the other way round.
MostUsed(f) ==
  \A g \in Frame :
    /\ pageTable[f].timeSlice >= pageTable[g].timeSlice
    /\ g < f => pageTable[f].timeSlice # pageTable[g].timeSlice

\* leastUsedFrame(): the first frame with the smallest time stamp, so a free
\* one, stamped -1, before any other.
LeastUsed(f) ==
  \A g \in Frame :
    /\ pageTable[f].timeSlice <= pageTable[g].timeSlice
    /\ g < f => pageTable[f].timeSlice # pageTable[g].timeSlice

Entry(pg, p) == [page |-> pg, pid |-> p, timeSlice |-> timeSlice']
Holds(f, pg, p) == pageTable[f].pid = p /\ pageTable[f].page = pg

\* Memory::accessAddress(): a resident page is stamped, any other one takes
\* the frame of leastUsedFrame() (index stays -1 in the code).
AccessAddress(p, pg) ==
  /\ timeSlice' = timeSlice + 1
  /\ \/ \E f \in Frame :
          /\ Holds(f, pg, p)
          /\ \A g \in Frame : g < f => ~Holds(g, pg, p)
          /\ pageTable' = [pageTable EXCEPT ![f].timeSlice = timeSlice']
     \/ /\ \A f \in Frame : ~Holds(f, pg, p)
        /\ \E f \in Frame :
             /\ LeastUsed(f)
             /\ pageTable' = [pageTable EXCEPT ![f] = Entry(pg, p)]

\* Memory::terminate()
Clear(p) ==
  pageTable' = [f \in Frame |->
                  IF pageTable[f].pid = p THEN FreeEntry ELSE pageTable[f]]

-----------------------------------------------------------------------------
(* Schedule                                                                *)

LevelOf(k) == CASE k = 0 -> 0 [] k \in 1..2 -> 1 [] OTHER -> 2

\* addToQueues() that puts every process on the first level.
AddToFirst(Q, p) == IF p = NULL THEN Q ELSE [Q EXCEPT ![0] = Append(@, p)]

\* addToQueues(p) for the queues as they are in Q.
AddToQueues(Q, p) ==
  IF p = NULL THEN Q ELSE [Q EXCEPT ![LevelOf(quantum[p])] = Append(@, p)]

\* getNextProcess() that gives up when the first level is empty.
GetNextOfFirst ==
  \/ /\ q[0] = <<>>
     /\ currentProcess' = NULL
     /\ UNCHANGED q
  \/ /\ q[0] # <<>>
     /\ currentProcess' = Head(q[0])
     /\ q' = [q EXCEPT ![0] = Tail(@)]

\* currentProcess = getNextProcess()
GetNextProcess ==
  \/ /\ \A l \in 0..2 : q[l] = <<>>
     /\ currentProcess' = NULL
     /\ UNCHANGED q
  \/ \E l \in 0..2 :
       /\ q[l] # <<>>
       /\ \A m \in 0..2 : m < l => q[m] = <<>>
       /\ currentProcess' = Head(q[l])
       /\ q' = [q EXCEPT ![l] = Tail(@)]

-----------------------------------------------------------------------------
(* The commands.  Once wild, the program is beyond its source.             *)

\* A: createNewProcess(); loadProcess() queues a current process there is not.
CreateNewProcess ==
  /\ ~wild
  /\ processCounter < MaxPid /\ timeSlice < MaxTime
  /\ processCounter' = processCounter + 1
  /\ timeSlice' = timeSlice + 1
  /\ \E f \in Frame :
       /\ LeastUsed(f)
       /\ pageTable' = [pageTable EXCEPT ![f] = Entry(0, processCounter')]
  /\ IF currentProcess = NULL
     THEN currentProcess' = processCounter' /\ UNCHANGED q
     ELSE q' = AddToQueues(q, processCounter') /\ UNCHANGED currentProcess
  /\ UNCHANGED <<hd, quantum, wild>>

\* Q: passQuantum()
PassQuantum ==
  /\ ~wild
  /\ currentProcess # NULL
  /\ quantum' = [quantum EXCEPT ![currentProcess] = IF @ > 2 THEN @ ELSE @ + 1]
  /\ UNCHANGED <<schedVars, hd, memVars, processCounter, wild>>

\* t: the frames of the running process are cleared; it goes on running.
Terminate ==
  /\ ~wild
  /\ currentProcess # NULL
  /\ Clear(currentProcess)
  /\ UNCHANGED <<schedVars, hd, quantum, timeSlice, processCounter, wild>>

\* sendToDisk() without its test of currentProcess.
SendToDiskUnguarded(n) ==
  /\ ~wild
  /\ n \in Disk
  /\ hd' = [hd EXCEPT ![n] = Append(@, currentProcess)]
  /\ GetNextProcess
  /\ UNCHANGED <<quantum, memVars, processCounter, wild>>

\* d number file
SendToDisk(n) ==
  /\ ~wild
  /\ n \in Disk
  /\ currentProcess # NULL
  /\ hd' = [hd EXCEPT ![n] = Append(@, currentProcess)]
  /\ GetNextProcess
  /\ UNCHANGED <<quantum, memVars, processCounter, wild>>

\* D number: the processor is not given the process, not even an idle one.
ReturnProcess(n) ==
  /\ ~wild
  /\ n \in Disk
  /\ hd[n] # <<>>
  /\ hd' = [hd EXCEPT ![n] = Tail(@)]
  /\ q' = AddToQueues(q, Head(hd[n]))
  /\ UNCHANGED <<currentProcess, quantum, memVars, processCounter, wild>>

\* m address
Access(pg) ==
  /\ ~wild
  /\ currentProcess # NULL
  /\ timeSlice < MaxTime
  /\ AccessAddress(currentProcess, pg)
  /\ UNCHANGED <<schedVars, hd, quantum, processCounter, wild>>

\* Undefined behaviour: t on an idle processor dereferences nullptr, D takes
\* the front() of an empty deque, and a number equal to hd.size() passes the
\* check "n > hd.size()" of d and D.
GoWild ==
  /\ ~wild
  /\ \/ currentProcess = NULL
     \/ \E n \in RawIndex \cap Disk : hd[n] = <<>>
     \/ hardDisks \in RawIndex
  /\ wild' = TRUE
  /\ UNCHANGED <<schedVars, hd, quantum, memVars, processCounter>>

-----------------------------------------------------------------------------

Init ==
  /\ currentProcess = NULL
  /\ q = [l \in 0..2 |-> <<>>]
  /\ hd = [n \in Disk |-> <<>>]
  /\ quantum = [p \in Pid |-> 0]
  /\ pageTable = [f \in Frame |-> FreeEntry]
  /\ timeSlice = 0
  /\ processCounter = 0
  /\ wild = FALSE

Next ==
  \/ CreateNewProcess
  \/ PassQuantum
  \/ Terminate
  \/ \E n \in RawIndex : SendToDisk(n)
  \/ \E n \in RawIndex : ReturnProcess(n)
  \/ \E pg \in Page : Access(pg)
  \/ GoWild

Spec == Init /\ [][Next]_vars

-----------------------------------------------------------------------------
(* Properties.                                                             *)

TypeOK ==
  /\ currentProcess \in Pid \cup {NULL}
  /\ q \in [0..2 -> Seq(Pid)]
  /\ hd \in [Disk -> Seq(Pid)]
  /\ quantum \in [Pid -> 0..3]
  /\ pageTable \in [Frame -> PageEntry]
  /\ timeSlice \in 0..MaxTime
  /\ processCounter \in 0..MaxPid
  /\ wild \in BOOLEAN

\* The ready queues and the disks as one family of queues.
Place == ({"q"} \X (0..2)) \cup ({"hd"} \X Disk)
Queue == [x \in Place |-> IF x[1] = "q" THEN q[x[2]] ELSE hd[x[2]]]

\* A process is on the processor, in one ready queue or at one disk, once,
\* and it waits on the level of the quanta it used, also after a disk.
OnePlace ==
  /\ Separate(Queue)
  /\ currentProcess \notin Held(Queue)
  /\ (Held(Queue) \cup {currentProcess}) \ {NULL} = 1..processCounter
  /\ \A l \in 0..2 : \A p \in Range(q[l]) : LevelOf(quantum[p]) = l

\* The resident pages, and which of two has the smaller time stamp.
Used == {f \in Frame : pageTable[f].timeSlice # -1}
PageAt(f) == [pid |-> pageTable[f].pid, page |-> pageTable[f].page]
Resident == {PageAt(f) : f \in Used}
StampedBefore ==
  {<<PageAt(a[1]), PageAt(a[2])>> :
     a \in {b \in Used \X Used : pageTable[b[1]].timeSlice < pageTable[b[2]].timeSlice}}

L == INSTANCE LRU WITH
       PageOf <- [pid: Pid, page: Page], frames <- numOfFrames,
       resident <- Resident, older <- StampedBefore

\* Time stamps and the search of leastUsedFrame() implement least recently
\* used: no page is resident twice and the oldest is evicted, only when full.
ImplementsLRU == L!LRUSpec

\* The processor is idle beside a ready process only from the moment a process
\* comes back from a disk to an idle processor, and until a new process is
\* created: no other command idles it while a queue has somebody, however many
\* quanta the waiting ones have used.
Ready == UNION {Range(q[l]) : l \in 0..2}
Neglected == currentProcess = NULL /\ Ready # {}
NeglectedOnlyByReturn ==
  [][ /\ ~Neglected /\ Neglected' =>
           currentProcess = NULL /\ \E n \in Disk : hd'[n] = Tail(hd[n]) /\ hd[n] # <<>>
      /\ Neglected /\ ~Neglected' => processCounter' = processCounter + 1 ]_vars
=============================================================================
