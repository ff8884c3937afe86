------------------------------ MODULE Dispatch ------------------------------
(***************************************************************************)
(* What the header of ReadyQueue.h promises ("Priority Scheduling Ready    *)
(* Queue, 0 lowest priority, 4 highest priority") of the processor, said   *)
(* without queues: the processor always goes to a process of the highest   *)
(* priority, among equals to the one that has been ready longest, and only *)
(* a strictly higher priority takes it away.                               *)
(***************************************************************************)
EXTENDS Integers

CONSTANTS Process, NULL, Priority

VARIABLES
  running,  \* the process that has the processor, or NULL
  ready,    \* the processes waiting for it
  ahead,    \* <<p, q>>: p and q wait at one priority and p came first
  prio      \* prio[p], or -1 when p does not exist

dispatchVars == <<running, ready, ahead, prio>>

\* p may be given the processor next.
Best(p) ==
  /\ p \in ready
  /\ \A q \in ready : prio[q] <= prio[p] /\ <<q, p>> \notin ahead

\* p stands behind everyone of its priority pr.
Behind(p, pr) == {<<q, p>> : q \in {r \in ready : prio[r] = pr}}

-----------------------------------------------------------------------------

DispatchInit ==
  /\ running = NULL
  /\ ready = {}
  /\ ahead = {}
  /\ prio = [p \in Process |-> -1]

\* p, born or back from I/O, becomes ready with priority pr, and runs.
Run(p, pr) ==
  /\ running = NULL
  /\ running' = p
  /\ UNCHANGED <<ready, ahead>>

Preempt(p, pr) ==
  /\ running # NULL
  /\ pr > prio[running]
  /\ running' = p
  /\ ready' = ready \cup {running}
  /\ ahead' = ahead \cup Behind(running, prio[running])

Wait(p, pr) ==
  /\ running # NULL
  /\ pr <= prio[running]
  /\ ready' = ready \cup {p}
  /\ ahead' = ahead \cup Behind(p, pr)
  /\ UNCHANGED running

Arrive(p, pr) ==
  /\ p # running
  /\ p \notin ready
  /\ \/ prio[p] = pr /\ UNCHANGED prio
     \/ prio[p] = -1 /\ prio' = [prio EXCEPT ![p] = pr]
  /\ Run(p, pr) \/ Preempt(p, pr) \/ Wait(p, pr)

\* The running process ends or goes to do I/O.
Leave ==
  /\ running # NULL
  /\ \/ UNCHANGED prio
     \/ prio' = [prio EXCEPT ![running] = -1]
  /\ \/ ready = {} /\ running' = NULL /\ UNCHANGED <<ready, ahead>>
     \/ \E p \in ready :
          /\ Best(p)
          /\ running' = p
          /\ ready' = ready \ {p}
          /\ ahead' = {a \in ahead : a[1] # p}

DispatchNext ==
  \/ \E p \in Process, pr \in Priority : Arrive(p, pr)
  \/ Leave

DispatchSpec == DispatchInit /\ [][DispatchNext]_dispatchVars
=============================================================================
