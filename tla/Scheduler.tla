------------------------------ MODULE Scheduler ------------------------------
(***************************************************************************)
(* Who runs, who is ready and who is doing I/O in LeeOSProject: the static *)
(* classes ReadyQueue and CPU and the two IODevice objects of main().      *)
(*                                                                         *)
(* Every command of main() that schedules is one action here, with all the *)
(* calls it makes: ReadyQueue::addProcess and CPU::contextSwitch call each *)
(* other, CPU::finishProcess and CPU::sendToDevice end by choosing the     *)
(* next process.  A Process object is an element of Process; of its fields *)
(* only the priority matters here, and deleteProcess() sets it to -1.      *)
(***************************************************************************)
EXTENDS Integers, Sequences, Queues

CONSTANTS
  Process,      \* Process objects that can ever exist
  NULL,         \* nullptr
  Device,       \* the IODevice objects: harddisks and printers
  size,         \* size[d]: how many disks (printers) device d has
  RawPriority,  \* priorities a user may type after the command A
  RawIndex      \* indices a user may type after d, p, D and P

ASSUME SchedulerAssumption ==
  /\ NULL \notin Process
  /\ size \in [Device -> Nat \ {0}]     \* getInput() loops until non-zero
  /\ RawPriority \subseteq Int
  /\ RawIndex \subseteq Int

VARIABLES
  currentProcess,  \* CPU::currentProcess
  rQ,              \* ReadyQueue::rQ, five FIFO queues
  container,       \* container[d][i], the FIFO queue of unit i of device d
  priority         \* priority[p], or -1 when p does not exist

schedVars == <<currentProcess, rQ, container, priority>>

Level == 0..4
Unit(d) == 0..(size[d] - 1)

-----------------------------------------------------------------------------
(* Helpers, named after the functions they model.                          *)

\* CPU::currentPriority()
CurrentPriority ==
  IF currentProcess = NULL THEN -1 ELSE priority[currentProcess]

\* The clamping at the head of Memory::insert().
ClampPriority(r) == IF r < 0 THEN 0 ELSE IF r > 4 THEN 4 ELSE r

\* The clamping at the head of CPU::sendToDevice().
ClampIndex(i, d) ==
  IF i < 0 THEN 0 ELSE IF i > size[d] - 1 THEN size[d] - 1 ELSE i

\* rQ with p pushed at level l.
Pushed(l, p) == [rQ EXCEPT ![l] = Append(@, p)]

\* addProcess() with >= for >: the newcomer preempts its equals.
AddProcessPreemptsEquals(p, pr) ==
  IF pr >= CurrentPriority
  THEN /\ rQ' = IF currentProcess = NULL
                THEN rQ ELSE Pushed(priority[currentProcess], currentProcess)
       /\ currentProcess' = p
  ELSE /\ rQ' = Pushed(pr, p)
       /\ UNCHANGED currentProcess

\* contextSwitch() without its call of addProcess().
AddProcessForgetsPreempted(p, pr) ==
  IF pr > CurrentPriority
  THEN currentProcess' = p /\ UNCHANGED rQ
  ELSE rQ' = Pushed(pr, p) /\ UNCHANGED currentProcess

\* contextSwitch() that queues the preempted process with the newcomer's level.
AddProcessMixesLevels(p, pr) ==
  IF pr > CurrentPriority
  THEN /\ rQ' = IF currentProcess = NULL THEN rQ ELSE Pushed(pr, currentProcess)
       /\ currentProcess' = p
  ELSE rQ' = Pushed(pr, p) /\ UNCHANGED currentProcess

(***************************************************************************)
(* ReadyQueue::addProcess(p) for a p of priority pr.  A higher priority    *)
(* preempts: contextSwitch() hands the running process back to addProcess, *)
(* which now compares it with itself and queues it at its own level.       *)
(***************************************************************************)
AddProcess(p, pr) ==
  IF pr > CurrentPriority
  THEN /\ rQ' = IF currentProcess = NULL
                THEN rQ ELSE Pushed(priority[currentProcess], currentProcess)
       /\ currentProcess' = p
  ELSE /\ rQ' = Pushed(pr, p)
       /\ UNCHANGED currentProcess

\* The levels scanned upwards, the opposite of chooseNewProcess().
LowestReady(l) ==
  /\ rQ[l] # <<>>
  /\ \A m \in Level : m < l => rQ[m] = <<>>

\* Level l is the highest one with a waiting process.
HighestReady(l) ==
  /\ rQ[l] # <<>>
  /\ \A m \in Level : m > l => rQ[m] = <<>>

\* currentProcess = ReadyQueue::chooseNewProcess()
ChooseNewProcess ==
  \/ /\ \A l \in Level : rQ[l] = <<>>
     /\ currentProcess' = NULL
     /\ UNCHANGED rQ
  \/ \E l \in Level :
       /\ HighestReady(l)
       /\ currentProcess' = Head(rQ[l])
       /\ rQ' = [rQ EXCEPT ![l] = Tail(@)]

-----------------------------------------------------------------------------
(* The commands.  On an idle CPU, t, d and p only print, and D and P only  *)
(* print when the queue they name is empty: those are stuttering steps.    *)

\* A priority size, once Memory::insert() has found a spot for p.
CreateProcess(p, r) ==
  /\ priority[p] = -1
  /\ priority' = [priority EXCEPT ![p] = ClampPriority(r)]
  /\ AddProcess(p, ClampPriority(r))
  /\ UNCHANGED container

\* t: CPU::finishProcess(), whose deleteProcess() sets the priority to -1.
FinishProcess ==
  /\ currentProcess # NULL
  /\ priority' = [priority EXCEPT ![currentProcess] = -1]
  /\ ChooseNewProcess
  /\ UNCHANGED container

\* sendToDevice() as in the earlier snapshot shit/CPU.cpp, which queues the
\* process before it looks whether there is one.
SendToDeviceUnguarded(i, d) ==
  /\ container' = [container EXCEPT
                     ![d][ClampIndex(i, d)] = Append(@, currentProcess)]
  /\ ChooseNewProcess
  /\ UNCHANGED priority

\* d index, p index: CPU::sendToDevice()
SendToDevice(i, d) ==
  /\ currentProcess # NULL
  /\ container' = [container EXCEPT
                     ![d][ClampIndex(i, d)] = Append(@, currentProcess)]
  /\ ChooseNewProcess
  /\ UNCHANGED priority

\* D index, P index: IODevice::releaseProcess(), for an index in range.
ReleaseProcess(i, d) ==
  /\ i \in Unit(d)
  /\ container[d][i] # <<>>
  /\ container' = [container EXCEPT ![d][i] = Tail(@)]
  /\ AddProcess(Head(container[d][i]), priority[Head(container[d][i])])
  /\ UNCHANGED priority

-----------------------------------------------------------------------------

SchedInit ==
  /\ currentProcess = NULL
  /\ rQ = [l \in Level |-> <<>>]
  /\ container = [d \in Device |-> [i \in Unit(d) |-> <<>>]]
  /\ priority = [p \in Process |-> -1]

SchedNext ==
  \/ \E p \in Process, r \in RawPriority : CreateProcess(p, r)
  \/ FinishProcess
  \/ \E d \in Device, i \in RawIndex : SendToDevice(i, d)
  \/ \E d \in Device, i \in RawIndex : ReleaseProcess(i, d)

SchedSpec == SchedInit /\ [][SchedNext]_schedVars

-----------------------------------------------------------------------------
(* Properties.                                                             *)

\* The queues of the device units, as one family of queues like rQ.
DeviceQueue ==
  [u \in UNION {{d} \X Unit(d) : d \in Device} |-> container[u[1]][u[2]]]

\* The processes that wait for the processor, that are at a device, that exist.
Ready == Held(rQ)
Away == Held(DeviceQueue)
Existing == {p \in Process : priority[p] # -1}

\* Every variable has its type; in particular no queue ever holds nullptr,
\* which sendToDevice() would push without its test of currentProcess.
SchedTypeOK ==
  /\ currentProcess \in Process \cup {NULL}
  /\ rQ \in [Level -> Seq(Process)]
  /\ DOMAIN container = Device
  /\ \A d \in Device : container[d] \in [Unit(d) -> Seq(Process)]
  /\ priority \in [Process -> Level \cup {-1}]

\* Work is conserved and priority respected, whatever the order of commands:
\* nobody waits on an idle processor, and nobody waits for it with a priority
\* above that of the process addProcess() and chooseNewProcess() let run.
PriorityRespected ==
  \A l \in Level : rQ[l] # <<>> => l <= CurrentPriority

\* A process waits on the queue of its own priority, wherever it comes back
\* from: preemption, a device, or Memory::insert().
QueueOfItsPriority ==
  \A l \in Level : \A p \in Range(rQ[l]) : priority[p] = l

\* No process is queued twice, or at two places at once.
NoDuplicate ==
  /\ Separate(rQ)
  /\ Separate(DeviceQueue)
  /\ Ready \cap Away = {}
  /\ currentProcess \notin Ready \cup Away

\* A process exists exactly when it runs, waits or does I/O, at one place:
\* a preemption, a device or a release never loses one, finishProcess() never
\* leaves a deleted one behind.
OnePlace ==
  /\ NoDuplicate
  /\ Existing = (Ready \cup Away \cup {currentProcess}) \ {NULL}

\* The five queues implement the dispatcher of ReadyQueue.h's comment: the
\* highest priority first, first come first served among equals, preemption
\* by a strictly higher priority only, and a preempted process goes last.
Ahead ==
  {a \in Ready \X Ready :
     \E l \in Level : \E j, k \in DOMAIN rQ[l] :
       j < k /\ a = <<rQ[l][j], rQ[l][k]>>}

D == INSTANCE Dispatch WITH
       Priority <- Level, running <- currentProcess,
       ready <- Ready, ahead <- Ahead, prio <- priority

ImplementsDispatch == D!DispatchSpec
=============================================================================
