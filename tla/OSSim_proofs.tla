---------------------------- MODULE OSSim_proofs ----------------------------
(* That the two halves of LeeOSProject agree: the commands of main() leave   *)
(* the memory manager and the scheduler with the same processes, on damaged  *)
(* lists too, as long as the program is within its source, and a sound list  *)
(* keeps it there.  The proof composes those of the two halves.              *)
EXTENDS OSSim, TLAPS

MP == INSTANCE Memory_proofs
SP == INSTANCE Scheduler_proofs WITH Process <- Node

-----------------------------------------------------------------------------
(* MP and SP are the modules M and S of OSSim with their theorems: their     *)
(* definitions are the same, so their operators are.                         *)

\* What the proofs about the memory and the scheduler assume of the constants.
LEMMA Assumptions == MP!MemoryAssumption /\ SP!SchedulerAssumption
  BY OSSimAssumption DEF M!MemoryAssumption, MP!MemoryAssumption,
         S!SchedulerAssumption, SP!SchedulerAssumption

\* The places of a process.
LEMMA SameOnePlace == S!OnePlace <=> SP!OnePlace
  BY DEF S!OnePlace, SP!OnePlace, S!NoDuplicate, SP!NoDuplicate, S!Existing, SP!Existing,
         S!Ready, SP!Ready, S!Away, SP!Away, S!DeviceQueue, SP!DeviceQueue,
         S!Separate, SP!Separate, S!Held, SP!Held, S!Unit, SP!Unit, S!Range, SP!Range,
         S!IsInjective, SP!IsInjective

\* The walk of insert().
LEMMA SameWalk ==
  ASSUME NEW s
  PROVE  /\ M!Live = MP!Live /\ M!Chain = MP!Chain
         /\ \A n : M!Reached(n, s) <=> MP!Reached(n, s)
         /\ \A n : M!Spot(n, s) <=> MP!Spot(n, s)
         /\ M!NoSpot(s) <=> MP!NoSpot(s)
  BY DEF M!Live, MP!Live, M!Chain, MP!Chain, M!Fits, MP!Fits, M!Reached, MP!Reached,
         M!ClosedUnderWalk, MP!ClosedUnderWalk, M!Spot, MP!Spot, M!NoSpot, MP!NoSpot

\* insert()
LEMMA SameInsert ==
  ASSUME NEW s, NEW t
  PROVE  M!Insert(s, t) <=> MP!Insert(s, t)
<1>1. M!Insert(s, t) <=> /\ ~wild
                         /\ t \notin M!Live
                         /\ \E c \in M!Live :
                              /\ MP!Spot(c, s)
                              /\ MP!LinkPredecessor(MP!Placed(c, s, t), c, t)
                              /\ MP!InsertHistory(c, s)
  BY SameWalk DEF M!Insert, M!LinkPredecessor, MP!LinkPredecessor, M!Placed, MP!Placed,
         M!InsertHistory, MP!InsertHistory, M!Exact, MP!Exact, M!NewProcess, MP!NewProcess,
         M!Remainder, MP!Remainder, M!Live, MP!Live
<1>2. QED
  BY <1>1, SameWalk DEF MP!Insert

\* insert() that goes astray.
LEMMA SameAstray ==
  ASSUME NEW s
  PROVE  M!InsertAstray(s) <=> MP!InsertAstray(s)
  BY SameWalk DEF M!InsertAstray, MP!InsertAstray

\* deleteProcess()
LEMMA SameDelete ==
  ASSUME NEW p
  PROVE  M!DeleteProcess(p) <=> MP!DeleteProcess(p)
<1>1. /\ \A h, n : M!Deleted(h, n) = MP!Deleted(h, n)
      /\ \A h, n : M!Valid(h, n) <=> MP!Valid(h, n)
      /\ \A h, n : M!HoleBefore(h, n) <=> MP!HoleBefore(h, n)
      /\ \A h, n : M!HoleAfter(h, n) <=> MP!HoleAfter(h, n)
      /\ \A h, n : M!WholeMemory(h, n) <=> MP!WholeMemory(h, n)
      /\ \A n : M!Marked(n) = MP!Marked(n)
      /\ M!Live = MP!Live
  BY Zenon DEF M!Deleted, MP!Deleted, M!Restrict, MP!Restrict, M!Valid, MP!Valid,
         M!HoleBefore, MP!HoleBefore, M!HoleAfter, MP!HoleAfter, M!WholeMemory,
         MP!WholeMemory, M!Marked, MP!Marked, M!Live, MP!Live
<1>2. ASSUME NEW h, NEW n
      PROVE  /\ M!MergeIntoPrev(h, n) = MP!MergeIntoPrev(h, n)
             /\ M!MergeIntoNext(h, n) = MP!MergeIntoNext(h, n)
  BY <1>1, Zenon DEF M!MergeIntoPrev, MP!MergeIntoPrev, M!MergeIntoNext, MP!MergeIntoNext
<1>3. ASSUME NEW h, NEW n
      PROVE  M!MergeRight(h, n) <=> MP!MergeRight(h, n)
  <2>1. PICK g : g = MP!MergeIntoNext(h, n)
    OBVIOUS
  <2>2. M!MergeIntoNext(h, n) = g
    BY <1>2, <2>1
  <2>3. QED
    BY <1>1, <2>1, <2>2, Zenon DEF M!MergeRight, MP!MergeRight
<1>4. ASSUME NEW g, NEW k
      PROVE  /\ M!MergeRight(M!MergeIntoPrev(g, p), k) <=> MP!MergeRight(MP!MergeIntoPrev(g, p), k)
             /\ M!MergeRight(M!Marked(p), k) <=> MP!MergeRight(MP!Marked(p), k)
             /\ M!HoleBefore(M!Marked(p), k) <=> MP!HoleBefore(MP!Marked(p), k)
  BY <1>1, <1>2, <1>3, Zenon
<1>5. M!MergeRight(M!MergeIntoPrev(M!Marked(p), p), heap[p].prev)
         <=> MP!MergeRight(MP!MergeIntoPrev(MP!Marked(p), p), heap[p].prev)
  BY <1>1, <1>4, Zenon
<1>6. QED
  BY <1>1, <1>4, <1>5, Zenon DEF M!DeleteProcess, MP!DeleteProcess

\* The scheduler's half of the commands.
LEMMA SameSchedule ==
  /\ \A p, r : S!CreateProcess(p, r) <=> SP!CreateProcess(p, r)
  /\ S!FinishProcess <=> SP!FinishProcess
  /\ \A i, d : S!SendToDevice(i, d) <=> SP!SendToDevice(i, d)
  /\ \A i, d : S!ReleaseProcess(i, d) <=> SP!ReleaseProcess(i, d)
  /\ S!Existing = SP!Existing
<1>1. /\ \A p, pr : S!AddProcess(p, pr) <=> SP!AddProcess(p, pr)
      /\ \A r : S!ClampPriority(r) = SP!ClampPriority(r)
      /\ \A i, d : S!ClampIndex(i, d) = SP!ClampIndex(i, d)
      /\ \A d : S!Unit(d) = SP!Unit(d)
  BY Zenon DEF S!AddProcess, SP!AddProcess, S!CurrentPriority, SP!CurrentPriority,
     S!Pushed, SP!Pushed, S!ClampPriority, SP!ClampPriority, S!ClampIndex, SP!ClampIndex,
     S!Unit, SP!Unit
<1>2. S!ChooseNewProcess <=> SP!ChooseNewProcess
  BY Zenon DEF S!ChooseNewProcess, SP!ChooseNewProcess, S!HighestReady, SP!HighestReady,
     S!Level, SP!Level
<1>3. QED
  BY <1>1, <1>2, Zenon DEF S!CreateProcess, SP!CreateProcess, S!FinishProcess, SP!FinishProcess,
    S!SendToDevice, SP!SendToDevice, S!ReleaseProcess, SP!ReleaseProcess, S!Existing, SP!Existing
\* The initial states.
LEMMA SameInit == Init => MP!MemInit /\ SP!SchedInit
  BY Zenon DEF Init, M!MemInit, MP!MemInit, S!SchedInit, SP!SchedInit, S!Level, SP!Level,
     S!Unit, SP!Unit

-----------------------------------------------------------------------------
(* The inductive invariant.                                                *)

\* Until undefined behaviour is executed each half keeps its own invariant, and
\* what exists for the scheduler is what is no hole for the memory manager;
\* undefined behaviour is not executed before the list is damaged.
OSInv ==
  /\ wild => damage # {}
  /\ ~wild => /\ MP!MemInv /\ SP!SchedInv
              /\ SP!Existing = MP!ProcessesIn(heap)

\* A step of the memory manager keeps its part of it ...
LEMMA MemStep ==
  ASSUME OSInv, ~wild, [MP!MemNext]_memVars
  PROVE  MP!MemInv' /\ (wild' => damage' # {})
<1>1. MP!MemInv /\ MP!Tame /\ [MP!MemNext]_(MP!memVars)
  BY DEF OSInv, MP!Tame, memVars, MP!memVars
<1>2. MP!MemInv' /\ MP!Tame'
  BY <1>1, Assumptions, MP!StepSound, MP!StepTame
<1>3. QED
  BY <1>2 DEF MP!Tame

\* ... and one of the scheduler its own.
LEMMA SchedStep ==
  ASSUME OSInv, ~wild, [SP!SchedNext]_schedVars
  PROVE  SP!SchedInv'
<1>1. SP!SchedInv /\ [SP!SchedNext]_(SP!schedVars)
  BY DEF OSInv, schedVars, SP!schedVars
<1>2. SP!SchedTypeOK /\ SP!OnePlace
  BY <1>1 DEF SP!SchedInv
<1>3. SP!SchedTypeOK' /\ SP!OnePlace' /\ SP!QueueOfItsPriority' /\ SP!PriorityRespected'
  BY <1>1, <1>2, Assumptions, SP!TypeStep, SP!OnePlaceStep, SP!OrderStep
<1>4. QED
  BY <1>3 DEF SP!SchedInv

\* At first there is one hole and no process.
LEMMA InitInv == Init => OSInv
<1> SUFFICES ASSUME Init
             PROVE  OSInv
  OBVIOUS
<1>1. MP!MemInit /\ SP!SchedInit
  BY SameInit
<1>2. MP!MemInv /\ SP!SchedInv
  BY <1>1, Assumptions, MP!InitSound, SP!SchedInvInit
<1>3. ~wild
  BY <1>1 DEF MP!MemInit
<1>4. SP!Existing = {}
  BY <1>1 DEF SP!SchedInit, SP!Existing
<1>5. MP!ProcessesIn(heap) = {}
  BY <1>1 DEF MP!MemInit, MP!ProcessesIn
<1>6. QED
  BY <1>2, <1>3, <1>4, <1>5 DEF OSInv

\* A priority size: the object that insert() links is what it schedules.
LEMMA StepA ==
  ASSUME OSInv, NEW r \in RawPriority, NEW s \in RequestSize, CommandA(r, s)
  PROVE  OSInv'
<1>1. CASE \E t \in Node :
          /\ M!Insert(s, t)
          /\ IF wild' THEN UNCHANGED <<schedVars, numOfProcesses>>
             ELSE S!CreateProcess(t, r)
  <2>1. PICK t \in Node :
          /\ MP!Insert(s, t)
          /\ ~wild' => SP!CreateProcess(t, r)
    BY <1>1, SameInsert, SameSchedule
  <2>2. ~wild /\ [MP!MemNext]_memVars
    BY <2>1 DEF MP!MemNext, MP!Insert
  <2>3. CASE wild'
    BY <2>2, <2>3, MemStep DEF OSInv
  <2>4. CASE ~wild'
    <3>1. MP!MemInv' /\ SP!SchedInv'
      BY <2>1, <2>2, <2>4, MemStep, SchedStep DEF SP!SchedNext
    <3>2. MP!MemTypeOK /\ SP!SchedTypeOK /\ SP!Existing = MP!ProcessesIn(heap)
      BY <2>2 DEF OSInv, MP!MemInv, SP!SchedInv
    <3>3. MP!ProcessesIn(heap') = MP!ProcessesIn(heap) \cup {t}
      BY <2>1, <2>4, <3>2, Assumptions, MP!InsertAddsOne
    <3>4. SP!Existing' = SP!Existing \cup {t}
      <4>1. SP!ClampPriority(r) \in SP!Level
        BY Assumptions, SP!ClampIsLevel
      <4>2. SP!ClampPriority(r) # -1
        BY <4>1 DEF SP!Level
      <4>3. /\ priority \in [Node -> SP!Level \cup {-1}]
            /\ priority' = [priority EXCEPT ![t] = SP!ClampPriority(r)]
        BY <2>1, <2>4, <3>2 DEF SP!SchedTypeOK, SP!CreateProcess
      <4>4. QED
        BY <4>2, <4>3 DEF SP!Existing
    <3>5. SP!Existing' = MP!ProcessesIn(heap)'
      BY <3>2, <3>3, <3>4 DEF MP!ProcessesIn
    <3>6. QED
      BY <2>4, <3>1, <3>5 DEF OSInv
  <2>5. QED
    BY <2>3, <2>4
<1>2. CASE M!InsertAstray(s)
  <2>1. MP!InsertAstray(s)
    BY <1>2, SameAstray
  <2>2. ~wild /\ wild' /\ [MP!MemNext]_memVars
    BY <2>1 DEF MP!MemNext, MP!InsertAstray
  <2>3. QED
    BY <2>2, MemStep DEF OSInv
<1>3. QED
  BY <1>1, <1>2 DEF CommandA

\* t: the process that finishes is the object that is deleted.
LEMMA Stept ==
  ASSUME OSInv, Commandt
  PROVE  OSInv'
<1>1. /\ MP!DeleteProcess(currentProcess) /\ currentProcess # NULL
      /\ ~wild' => SP!FinishProcess
  BY SameDelete, SameSchedule DEF Commandt
<1>2. ~wild
  BY <1>1 DEF MP!DeleteProcess
<1>3. MP!MemTypeOK /\ SP!SchedTypeOK /\ SP!Existing = MP!ProcessesIn(heap)
  BY <1>2 DEF OSInv, MP!MemInv, SP!SchedInv
<1>4. currentProcess \in Node
  BY <1>1, <1>3 DEF SP!SchedTypeOK
<1>5. [MP!MemNext]_memVars
  BY <1>1, <1>4 DEF MP!MemNext
<1>6. CASE wild'
  BY <1>2, <1>5, <1>6, MemStep DEF OSInv
<1>7. CASE ~wild'
  <2>1. MP!MemInv' /\ SP!SchedInv'
    BY <1>1, <1>2, <1>5, <1>7, MemStep, SchedStep DEF SP!SchedNext
  <2>2. MP!ProcessesIn(heap') = MP!ProcessesIn(heap) \ {currentProcess}
    BY <1>1, <1>3, <1>4, <1>7, Assumptions, MP!DeleteTakesOne
  <2>3. SP!Existing' = SP!Existing \ {currentProcess}
    <3>1. /\ priority \in [Node -> SP!Level \cup {-1}]
          /\ priority' = [priority EXCEPT ![currentProcess] = -1]
      BY <1>1, <1>3, <1>7 DEF SP!SchedTypeOK, SP!FinishProcess
    <3>2. QED
      BY <3>1 DEF SP!Existing
  <2>4. SP!Existing' = MP!ProcessesIn(heap)'
    BY <1>3, <2>2, <2>3 DEF MP!ProcessesIn
  <2>5. QED
    BY <1>7, <2>1, <2>4 DEF OSInv
<1>8. QED
  BY <1>6, <1>7

\* A step of the scheduler alone.
LEMMA SchedulerOnly ==
  ASSUME OSInv, ~wild, UNCHANGED memVars, [SP!SchedNext]_schedVars, UNCHANGED priority
  PROVE  OSInv'
<1>1. MP!MemInv' /\ SP!SchedInv' /\ ~wild'
  BY MemStep, SchedStep DEF memVars
<1>2. heap' = heap /\ SP!Existing = MP!ProcessesIn(heap)
  BY DEF OSInv, memVars
<1>3. SP!Existing' = MP!ProcessesIn(heap)'
  BY <1>2 DEF SP!Existing, MP!ProcessesIn
<1>4. QED
  BY <1>1, <1>3 DEF OSInv

\* The invariant is inductive.
LEMMA OSStep == OSInv /\ [Next]_vars => OSInv'
<1> SUFFICES ASSUME OSInv, [Next]_vars
             PROVE  OSInv'
  OBVIOUS
<1>1. ASSUME NEW r \in RawPriority, NEW s \in RequestSize, CommandA(r, s)
      PROVE  OSInv'
  BY <1>1, StepA
<1>2. CASE Commandt
  BY <1>2, Stept
<1>3. ASSUME NEW i \in RawIndex, NEW d \in Device, Commandd(i, d)
      PROVE  OSInv'
  <2>1. SP!SendToDevice(i, d) /\ ~wild /\ UNCHANGED memVars
    BY <1>3, SameSchedule DEF Commandd
  <2>2. [SP!SchedNext]_schedVars /\ UNCHANGED priority
    BY <2>1 DEF SP!SchedNext, SP!SendToDevice
  <2>3. QED
    BY <2>1, <2>2, SchedulerOnly
<1>4. ASSUME NEW i \in RawIndex, NEW d \in Device, CommandD(i, d)
      PROVE  OSInv'
  <2>1. SP!ReleaseProcess(i, d) /\ ~wild /\ UNCHANGED memVars
    BY <1>4, SameSchedule DEF CommandD
  <2>2. [SP!SchedNext]_schedVars /\ UNCHANGED priority
    BY <2>1 DEF SP!SchedNext, SP!ReleaseProcess
  <2>3. QED
    BY <2>1, <2>2, SchedulerOnly
<1>5. ASSUME NEW i \in RawIndex, NEW d \in Device, CommandDBeyondTheArray(i, d)
      PROVE  OSInv'
  BY <1>5 DEF CommandDBeyondTheArray, OSInv
<1>6. CASE UNCHANGED vars
  <2>1. CASE wild
    BY <1>6, <2>1 DEF OSInv, vars, memVars
  <2>2. CASE ~wild
    BY <1>6, <2>2, SchedulerOnly DEF vars, memVars, schedVars
  <2>3. QED
    BY <2>1, <2>2
<1>7. QED
  BY <1>1, <1>2, <1>3, <1>4, <1>5, <1>6 DEF Next

\* Hence it is an invariant.
LEMMA OSInvariant == Spec => []OSInv
  BY InitInv, OSStep, PTL DEF Spec

-----------------------------------------------------------------------------
(* The properties.                                                         *)

\* The scheduler and the memory manager have the same processes: what is
\* running, ready or at a device is what is allocated, on damaged lists too,
\* and as long as the list is sound screenshot() finds all of it.
THEOREM SchedulerAgreesWithMemory == Spec => []SameProcesses
<1>1. OSInv => SameProcesses
  <2> SUFFICES ASSUME OSInv
               PROVE  SameProcesses
    OBVIOUS
  <2>1. ScheduledAreAllocated
    <3> SUFFICES ASSUME ~wild
                 PROVE  S!Existing = {n \in M!Live : ~heap[n].empty} /\ S!OnePlace
      BY DEF ScheduledAreAllocated
    <3>1. SP!SchedInv /\ SP!Existing = MP!ProcessesIn(heap)
      BY DEF OSInv
    <3>2. QED
      BY <3>1, SameSchedule, SameOnePlace DEF SP!SchedInv, MP!ProcessesIn, M!Live
  <2>2. ScheduledAreListed
    <3> SUFFICES ASSUME damage = {}, NEW n \in S!Existing
                 PROVE  n \in M!Chain /\ M!Reached(n, UINT)
      BY DEF ScheduledAreListed
    <3>1. ~wild /\ MP!SoundIn(heap, root, leaked) /\ n \in MP!ProcessesIn(heap)
      BY SameSchedule DEF OSInv, MP!MemInv
    <3>2. n \in MP!Chain
      BY <3>1 DEF MP!SoundIn, MP!ProcessesIn, MP!Chain, MP!Live
    <3>3. \A m \in MP!Chain : ~MP!Fits(m, UINT)
      <4>1. \A m \in MP!Chain : heap[m].size \in 1..maxVal
        BY <3>1 DEF MP!SoundIn, MP!ListIn, MP!TiledIn, MP!Chain, MP!Live
      <4>2. QED
        BY <4>1, Assumptions DEF MP!Fits, MP!MemoryAssumption
    <3>4. MP!Reached(n, UINT)
      BY <3>1, <3>2, <3>3, Assumptions, MP!WalkReaches
    <3>5. QED
      BY <3>2, <3>4, SameWalk
  <2>3. QED
    BY <2>1, <2>2 DEF SameProcesses
<1>2. QED
  BY <1>1, OSInvariant, PTL

\* No command executes undefined behaviour before an exact fit, a process of no
\* bytes, a merged head or an index beyond the devices has damaged something.
THEOREM UndefinedBehaviourHasACause == Spec => []WildHasACause
<1>1. OSInv => WildHasACause
  BY DEF OSInv, WildHasACause
<1>2. QED
  BY <1>1, OSInvariant, PTL
=============================================================================
