-------------------------------- MODULE OSSim --------------------------------
(***************************************************************************)
(* LeeOSProject as a whole: the commands of main(), each of which calls    *)
(* into the memory manager (module Memory), the scheduler (module          *)
(* Scheduler) or both.  A Process object of the memory manager is the      *)
(* process the scheduler queues, so a Node is a Process; the priority      *)
(* field of the objects is the variable priority of the scheduler.         *)
(***************************************************************************)
EXTENDS Integers

CONSTANTS
  Node, NULL, maxVal, UINT, RequestSize,   \* of Memory
  Device, size, RawPriority, RawIndex,     \* of Scheduler
  MaxPid                                   \* bound: processes ever created

VARIABLES
  heap, root, wild, leaked, damage,           \* of Memory
  currentProcess, rQ, container, priority,    \* of Scheduler
  numOfProcesses                              \* Memory::numOfProcesses, the next PID

memVars == <<heap, root, wild, leaked, damage>>
schedVars == <<currentProcess, rQ, container, priority>>
vars == <<memVars, schedVars, numOfProcesses>>

M == INSTANCE Memory
S == INSTANCE Scheduler WITH Process <- Node

ASSUME OSSimAssumption == M!MemoryAssumption /\ S!SchedulerAssumption

-----------------------------------------------------------------------------
(* The commands.  Once wild, the program is beyond its source.             *)

\* A priority size: insert() links the new object and then schedules it.
CommandA(r, s) ==
  /\ numOfProcesses <= MaxPid
  /\ \/ \E t \in Node :
          /\ M!Insert(s, t)
          /\ IF wild' THEN UNCHANGED <<schedVars, numOfProcesses>>
             ELSE /\ S!CreateProcess(t, r)
                  /\ numOfProcesses' = numOfProcesses + 1
     \/ M!InsertAstray(s) /\ UNCHANGED <<schedVars, numOfProcesses>>

\* t: deleteProcess() and then the next process.
Commandt ==
  /\ currentProcess # NULL
  /\ M!DeleteProcess(currentProcess)
  /\ IF wild' THEN UNCHANGED schedVars ELSE S!FinishProcess
  /\ UNCHANGED numOfProcesses

\* d index, p index
Commandd(i, d) ==
  /\ ~wild
  /\ S!SendToDevice(i, d)
  /\ UNCHANGED <<memVars, numOfProcesses>>

\* D index, P index: releaseProcess() does not check the index.
CommandD(i, d) ==
  /\ ~wild
  /\ S!ReleaseProcess(i, d)
  /\ UNCHANGED <<memVars, numOfProcesses>>

CommandDBeyondTheArray(i, d) ==
  /\ ~wild
  /\ i \notin S!Unit(d)
  /\ wild' = TRUE
  /\ damage' = damage \cup {"index"}
  /\ UNCHANGED <<heap, root, leaked, schedVars, numOfProcesses>>

-----------------------------------------------------------------------------

Init ==
  /\ M!MemInit
  /\ S!SchedInit
  /\ numOfProcesses = 1

Next ==
  \/ \E r \in RawPriority, s \in RequestSize : CommandA(r, s)
  \/ Commandt
  \/ \E i \in RawIndex, d \in Device : Commandd(i, d)
  \/ \E i \in RawIndex, d \in Device : CommandD(i, d)
  \/ \E i \in RawIndex, d \in Device : CommandDBeyondTheArray(i, d)

Spec == Init /\ [][Next]_vars

-----------------------------------------------------------------------------
(* Properties.                                                             *)

\* The scheduler and the memory manager agree on what a process is, even when
\* the list of the latter is broken: the objects that are not holes are the
\* ones with a priority, and each of them is running, ready or at a device,
\* once.  So finishProcess() is never called with a deleted object or a hole.
ScheduledAreAllocated ==
  ~wild =>
    /\ S!Existing = {n \in M!Live : ~heap[n].empty}
    /\ S!OnePlace

\* A process is not lost to the memory manager either, as long as the list is
\* sound: what is scheduled is in the list that screenshot() walks.
ScheduledAreListed ==
  damage = {} => \A n \in S!Existing : n \in M!Chain /\ M!Reached(n, UINT)

\* Both: scheduler and memory manager have the same processes.
SameProcesses == ScheduledAreAllocated /\ ScheduledAreListed

\* Undefined behaviour has one of four causes: an exact fit before a
\* neighbour, a head merged into the hole after it, a process of no bytes, an
\* index beyond the devices.
WildHasACause == wild => damage # {}
=============================================================================
