-------------------------- MODULE Scheduler_proofs --------------------------
(* That the scheduler of LeeOSProject loses no process, gives the          *)
(* processor to the highest priority, keeps each process on its queue, and *)
(* implements Dispatch, for any processes, devices and priorities asked.   *)
EXTENDS Scheduler, TLAPS

-----------------------------------------------------------------------------
(* What push() and pop() do to the elements of a family of queues.         *)

\* The elements of a sequence; an empty one has none.
LEMMA RangeType ==
  ASSUME NEW S, NEW s \in Seq(S)
  PROVE  /\ Range(s) \subseteq S
         /\ Range(s) = {} <=> s = <<>>
<1>1. Range(s) \subseteq S
  BY DEF Range
<1>2. ASSUME s # <<>> PROVE s[1] \in Range(s)
  <2>1. 1 \in DOMAIN s
    BY <1>2
  <2> QED BY <2>1 DEF Range
<1>3. ASSUME s = <<>> PROVE Range(s) = {}
  BY <1>3 DEF Range
<1> QED BY <1>1, <1>2, <1>3

\* push() adds one element.
LEMMA RangeAppend ==
  ASSUME NEW S, NEW s \in Seq(S), NEW e \in S
  PROVE  Range(Append(s, e)) = Range(s) \cup {e}
<1> DEFINE a == Append(s, e)
<1>1. /\ DOMAIN a = 1..(Len(s) + 1)
      /\ DOMAIN s = 1..Len(s)
      /\ \A k \in DOMAIN s : a[k] = s[k]
      /\ a[Len(s) + 1] = e
      /\ Len(s) \in Nat
  OBVIOUS
<1> HIDE DEF a
<1>2. \A x \in Range(a) : x \in Range(s) \cup {e}
  BY <1>1 DEF Range
<1>3. \A x \in Range(s) : x \in Range(a)
  BY <1>1 DEF Range
<1>4. e \in Range(a)
  <2>1. Len(s) + 1 \in DOMAIN a
    BY <1>1
  <2> QED BY <1>1, <2>1 DEF Range
<1> QED BY <1>2, <1>3, <1>4 DEF a

\* A new element keeps a sequence without repetitions.
LEMMA InjectiveAppend ==
  ASSUME NEW S, NEW s \in Seq(S), NEW e \in S,
         IsInjective(s), e \notin Range(s)
  PROVE  IsInjective(Append(s, e))
<1> DEFINE a == Append(s, e)
<1>1. /\ DOMAIN a = 1..(Len(s) + 1)
      /\ DOMAIN s = 1..Len(s)
      /\ \A k \in DOMAIN s : a[k] = s[k]
      /\ a[Len(s) + 1] = e
      /\ Len(s) \in Nat
  OBVIOUS
<1> HIDE DEF a
<1>2. \A k \in DOMAIN s : s[k] # e
  BY DEF Range
<1>3. IsInjective(a)
  BY <1>1, <1>2 DEF IsInjective
<1> QED BY <1>3 DEF a

\* pop() takes the head away.
LEMMA RangeTail ==
  ASSUME NEW S, NEW s \in Seq(S), s # <<>>
  PROVE  /\ Head(s) \in Range(s)
         /\ Head(s) \in S
         /\ Tail(s) \in Seq(S)
         /\ Range(Tail(s)) \subseteq Range(s)
         /\ Range(s) = Range(Tail(s)) \cup {Head(s)}
<1> DEFINE t == Tail(s)
<1>1. /\ DOMAIN t = 1..(Len(s) - 1)
      /\ DOMAIN s = 1..Len(s)
      /\ \A k \in DOMAIN t : t[k] = s[k + 1]
      /\ Head(s) = s[1]
      /\ Len(s) \in Nat \ {0}
      /\ t \in Seq(S)
      /\ Head(s) \in S
  OBVIOUS
<1> HIDE DEF t
<1>2. Head(s) \in Range(s)
  <2>1. 1 \in DOMAIN s
    BY <1>1
  <2> QED BY <1>1, <2>1 DEF Range
<1>3. \A x \in Range(t) : x \in Range(s)
  <2> SUFFICES ASSUME NEW k \in DOMAIN t PROVE t[k] \in Range(s)
    BY DEF Range
  <2>1. k + 1 \in DOMAIN s
    BY <1>1
  <2> QED BY <1>1, <2>1 DEF Range
<1>4. \A x \in Range(s) : x \in Range(t) \cup {Head(s)}
  <2> SUFFICES ASSUME NEW k \in DOMAIN s, k # 1 PROVE s[k] \in Range(t)
    BY <1>1 DEF Range
  <2>1. k - 1 \in DOMAIN t /\ s[k] = t[k - 1]
    BY <1>1
  <2> QED BY <2>1 DEF Range
<1> QED BY <1>1, <1>2, <1>3, <1>4 DEF t

\* Without repetitions, the head is gone after pop().
LEMMA InjectiveTail ==
  ASSUME NEW S, NEW s \in Seq(S), s # <<>>, IsInjective(s)
  PROVE  /\ IsInjective(Tail(s))
         /\ Head(s) \notin Range(Tail(s))
<1> DEFINE t == Tail(s)
<1>1. /\ DOMAIN t = 1..(Len(s) - 1)
      /\ DOMAIN s = 1..Len(s)
      /\ \A k \in DOMAIN t : t[k] = s[k + 1]
      /\ Head(s) = s[1]
      /\ Len(s) \in Nat \ {0}
  OBVIOUS
<1> HIDE DEF t
<1>2. ASSUME NEW j \in DOMAIN t, NEW k \in DOMAIN t, t[j] = t[k]
      PROVE  j = k
  <2>1. j + 1 \in DOMAIN s /\ k + 1 \in DOMAIN s
    BY <1>1
  <2>2. s[j + 1] = s[k + 1]
    BY <1>1, <1>2
  <2>3. j + 1 = k + 1
    BY <2>1, <2>2 DEF IsInjective
  <2> QED BY <1>1, <2>3
<1>3. ASSUME NEW k \in DOMAIN t PROVE t[k] # Head(s)
  <2>1. k + 1 \in DOMAIN s /\ 1 \in DOMAIN s /\ k + 1 # 1
    BY <1>1
  <2> QED BY <1>1, <2>1 DEF IsInjective
<1>4. IsInjective(t)
  BY <1>2 DEF IsInjective
<1>5. Head(s) \notin Range(t)
  BY <1>3 DEF Range
<1> QED BY <1>4, <1>5 DEF t

\* R is Q after a push of e on, or a pop from, its queue k.
IsPush(Q, k, e, R) == R = [Q EXCEPT ![k] = Append(@, e)]
IsPop(Q, k, R) == Q[k] # <<>> /\ R = [Q EXCEPT ![k] = Tail(@)]

\* A push of e, which no queue of the family holds, and a pop.
LEMMA PushSeparate ==
  ASSUME NEW S, NEW K, NEW Q \in [K -> Seq(S)], NEW k \in K, NEW e \in S,
         Separate(Q), e \notin Held(Q),
         NEW R, IsPush(Q, k, e, R)
  PROVE  Separate(R) /\ Held(R) = Held(Q) \cup {e}
<1>1. /\ DOMAIN R = K /\ DOMAIN Q = K
      /\ R[k] = Append(Q[k], e)
      /\ \A a \in K \ {k} : R[a] = Q[a]
  BY DEF IsPush
<1>2. Range(R[k]) = Range(Q[k]) \cup {e}
  BY <1>1, RangeAppend
<1>3. IsInjective(R[k])
  BY <1>1, InjectiveAppend DEF Separate, Held
<1>4. \A a \in K : e \notin Range(Q[a])
  BY <1>1 DEF Held
<1>5. Separate(R)
  <2>1. \A a \in K : IsInjective(R[a])
    BY <1>1, <1>3 DEF Separate
  <2>2. \A a \in K \ {k} : Range(R[a]) \cap Range(R[k]) = {}
    <3> SUFFICES ASSUME NEW a \in K \ {k}
                 PROVE  Range(Q[a]) \cap (Range(Q[k]) \cup {e}) = {}
      BY <1>1, <1>2
    <3>1. Range(Q[a]) \cap Range(Q[k]) = {}
      BY <1>1 DEF Separate
    <3> QED BY <1>4, <3>1
  <2>3. \A a, b \in K \ {k} : a # b => Range(R[a]) \cap Range(R[b]) = {}
    BY <1>1 DEF Separate
  <2> QED BY <1>1, <2>1, <2>2, <2>3 DEF Separate
<1>6. Held(R) = Held(Q) \cup {e}
  BY <1>1, <1>2 DEF Held
<1> QED BY <1>5, <1>6

\* A pop takes one element from the family and keeps it separate.
LEMMA PopSeparate ==
  ASSUME NEW S, NEW K, NEW Q \in [K -> Seq(S)], NEW k \in K,
         Separate(Q), NEW R, IsPop(Q, k, R)
  PROVE  /\ Separate(R)
         /\ Held(R) = Held(Q) \ {Head(Q[k])}
         /\ Head(Q[k]) \in Held(Q)
         /\ Head(Q[k]) \in S
<1>1. /\ DOMAIN R = K /\ DOMAIN Q = K
      /\ Q[k] # <<>>
      /\ R[k] = Tail(Q[k])
      /\ \A a \in K \ {k} : R[a] = Q[a]
  BY DEF IsPop
<1>2. /\ Range(Q[k]) = Range(R[k]) \cup {Head(Q[k])}
      /\ Head(Q[k]) \notin Range(R[k])
      /\ Head(Q[k]) \in S
      /\ IsInjective(R[k])
  BY <1>1, RangeTail, InjectiveTail DEF Separate
<1>3. \A a \in K \ {k} : Head(Q[k]) \notin Range(Q[a])
  BY <1>1, <1>2 DEF Separate
<1>4. Separate(R)
  <2>1. \A a \in K : IsInjective(R[a]) /\ Range(R[a]) \subseteq Range(Q[a])
    BY <1>1, <1>2 DEF Separate
  <2>2. \A a, b \in K : a # b => Range(Q[a]) \cap Range(Q[b]) = {}
    BY <1>1 DEF Separate
  <2>3. \A a, b \in K : a # b => Range(R[a]) \cap Range(R[b]) = {}
    BY <2>1, <2>2
  <2> QED BY <1>1, <2>1, <2>3 DEF Separate
<1>5. Held(R) = Held(Q) \ {Head(Q[k])}
  BY <1>1, <1>2, <1>3 DEF Held
<1>6. Head(Q[k]) \in Held(Q)
  BY <1>1, <1>2 DEF Held
<1> QED BY <1>2, <1>4, <1>5, <1>6

\* What a family of queues over S holds is in S.
LEMMA HeldType ==
  ASSUME NEW S, NEW K, NEW Q \in [K -> Seq(S)]
  PROVE  /\ Held(Q) \subseteq S
         /\ Held(Q) = {} <=> \A a \in K : Q[a] = <<>>
         /\ \A a \in K : Range(Q[a]) \subseteq Held(Q)
<1>1. \A a \in K : Range(Q[a]) \subseteq S /\ (Range(Q[a]) = {} <=> Q[a] = <<>>)
  BY RangeType
<1> QED BY <1>1 DEF Held


-----------------------------------------------------------------------------
(* Types.                                                                  *)

\* The number of a device that is asked for is clamped to one there is.
LEMMA ClampInRange ==
  ASSUME NEW i \in Int, NEW d \in Device
  PROVE  ClampIndex(i, d) \in Unit(d)
BY SchedulerAssumption DEF ClampIndex, Unit

\* push() keeps the types of the queues.
LEMMA PushedType ==
  ASSUME SchedTypeOK, NEW l, NEW p \in Process
  PROVE  /\ Pushed(l, p) \in [Level -> Seq(Process)]
         /\ l \in Level => Pushed(l, p)[l] = Append(rQ[l], p)
         /\ \A m \in Level : m # l => Pushed(l, p)[m] = rQ[m]
<1>1. \A m \in Level : Append(rQ[m], p) \in Seq(Process)
  BY DEF SchedTypeOK
<1> QED BY <1>1 DEF SchedTypeOK, Pushed

\* addProcess() keeps the types.
LEMMA AddProcessType ==
  ASSUME SchedTypeOK, NEW p \in Process, NEW pr, AddProcess(p, pr)
  PROVE  /\ currentProcess' \in Process \cup {NULL}
         /\ rQ' \in [Level -> Seq(Process)]
BY PushedType DEF AddProcess, SchedTypeOK

\* chooseNewProcess() keeps the types.
LEMMA ChooseType ==
  ASSUME SchedTypeOK, ChooseNewProcess
  PROVE  /\ currentProcess' \in Process \cup {NULL}
         /\ rQ' \in [Level -> Seq(Process)]
<1>1. /\ currentProcess \in Process \cup {NULL}
      /\ rQ \in [Level -> Seq(Process)]
  BY DEF SchedTypeOK
<1>2. ASSUME NEW l \in Level, rQ[l] # <<>>, currentProcess' = Head(rQ[l]),
             rQ' = [rQ EXCEPT ![l] = Tail(@)]
      PROVE  /\ currentProcess' \in Process \cup {NULL}
             /\ rQ' \in [Level -> Seq(Process)]
  <2>1. Head(rQ[l]) \in Process /\ Tail(rQ[l]) \in Seq(Process)
    BY <1>1, <1>2, RangeTail
  <2> QED BY <1>1, <1>2, <2>1
<1> QED BY <1>1, <1>2 DEF ChooseNewProcess, HighestReady

\* Every operation keeps the types.
LEMMA TypeStep == SchedTypeOK /\ [SchedNext]_schedVars => SchedTypeOK'
<1> SUFFICES ASSUME SchedTypeOK, [SchedNext]_schedVars PROVE SchedTypeOK'
  OBVIOUS
<1>1. ASSUME NEW p \in Process, NEW r \in RawPriority, CreateProcess(p, r)
      PROVE  SchedTypeOK'
  <2>1. ClampPriority(r) \in Level
    BY SchedulerAssumption DEF ClampPriority, Level
  <2> QED BY <1>1, <2>1, AddProcessType DEF CreateProcess, SchedTypeOK
<1>2. CASE FinishProcess
  BY <1>2, ChooseType DEF FinishProcess, SchedTypeOK
<1>3. ASSUME NEW d \in Device, NEW i \in RawIndex, SendToDevice(i, d)
      PROVE  SchedTypeOK'
  <2>1. ClampIndex(i, d) \in Unit(d)
    BY ClampInRange, SchedulerAssumption
  <2>2. currentProcess \in Process
    BY <1>3 DEF SendToDevice, SchedTypeOK
  <2>3. Append(container[d][ClampIndex(i, d)], currentProcess) \in Seq(Process)
    BY <2>1, <2>2 DEF SchedTypeOK
  <2>4. /\ DOMAIN container' = Device
        /\ \A e \in Device : container'[e] \in [Unit(e) -> Seq(Process)]
    BY <1>3, <2>1, <2>3 DEF SendToDevice, SchedTypeOK
  <2> QED BY <1>3, <2>4, ChooseType DEF SendToDevice, SchedTypeOK
<1>4. ASSUME NEW d \in Device, NEW i \in RawIndex, ReleaseProcess(i, d)
      PROVE  SchedTypeOK'
  <2>1. /\ Head(container[d][i]) \in Process
        /\ Tail(container[d][i]) \in Seq(Process)
    BY <1>4, RangeTail DEF ReleaseProcess, SchedTypeOK
  <2>2. /\ DOMAIN container' = Device
        /\ \A e \in Device : container'[e] \in [Unit(e) -> Seq(Process)]
    BY <1>4, <2>1 DEF ReleaseProcess, SchedTypeOK
  <2> QED BY <1>4, <2>1, <2>2, AddProcessType DEF ReleaseProcess, SchedTypeOK
<1>5. CASE UNCHANGED schedVars
  BY <1>5 DEF schedVars, SchedTypeOK
<1> QED BY <1>1, <1>2, <1>3, <1>4, <1>5 DEF SchedNext

\* The scheduler starts with the right types.
LEMMA TypeInit == SchedInit => SchedTypeOK
BY SchedulerAssumption DEF SchedInit, SchedTypeOK

\* Every variable of the scheduler keeps its type; nullptr is never queued.
THEOREM SchedulerTypeCorrect == SchedSpec => []SchedTypeOK
BY TypeInit, TypeStep, PTL DEF SchedSpec

-----------------------------------------------------------------------------
(* A process is at one place, on the queue of its priority, and no higher  *)
(* than the running one.  The three are inductive together: a preempted    *)
(* process is not lost because it exists and so has a level, it is queued  *)
(* at that level, and the process chosen next keeps the priority its queue *)
(* says because it is not the one that finishes.                           *)

SchedInv ==
  /\ SchedTypeOK
  /\ OnePlace
  /\ QueueOfItsPriority
  /\ PriorityRespected

\* The same of the variables: what AddProcess and ChooseNewProcess do to the
\* set of ready processes and to the running one.
LEMMA AddProcessPlaces ==
  ASSUME SchedTypeOK, NEW p \in Process, NEW pr \in Level, AddProcess(p, pr),
         Separate(rQ), p \notin Ready, currentProcess \notin Ready,
         p # currentProcess,
         currentProcess # NULL => priority[currentProcess] \in Level
  PROVE  /\ Separate(rQ')
         /\ currentProcess' \notin Ready'
         /\ (Ready' \cup {currentProcess'}) \ {NULL} =
              (Ready \cup {currentProcess, p}) \ {NULL}
<1> USE DEF Ready
<1>1. NULL \notin Process /\ rQ \in [Level -> Seq(Process)]
  BY SchedulerAssumption DEF SchedTypeOK
<1>2. NULL \notin Ready
  BY <1>1, HeldType
<1>3. CASE currentProcess = NULL /\ rQ' = rQ /\ currentProcess' = p
  BY <1>1, <1>2, <1>3
<1>4. CASE /\ currentProcess # NULL
           /\ rQ' = Pushed(priority[currentProcess], currentProcess)
           /\ currentProcess' = p
  <2>1. currentProcess \in Process /\ priority[currentProcess] \in Level
    BY <1>4 DEF SchedTypeOK
  <2>2. Separate(rQ') /\ Held(rQ') = Held(rQ) \cup {currentProcess}
    <3>1. IsPush(rQ, priority[currentProcess], currentProcess, rQ')
      BY <1>4 DEF Pushed, IsPush
    <3> QED BY <1>1, <2>1, <3>1, PushSeparate
  <2> QED BY <1>1, <1>4, <2>1, <2>2
<1>5. CASE rQ' = Pushed(pr, p) /\ currentProcess' = currentProcess
  <2>1. Separate(rQ') /\ Held(rQ') = Held(rQ) \cup {p}
    <3>1. IsPush(rQ, pr, p, rQ')
      BY <1>5 DEF Pushed, IsPush
    <3> QED BY <1>1, <3>1, PushSeparate
  <2> QED BY <1>1, <1>5, <2>1
<1> QED BY <1>3, <1>4, <1>5 DEF AddProcess

\* chooseNewProcess() moves one ready process to the processor, or idles it.
LEMMA ChooseNewProcessPlaces ==
  ASSUME SchedTypeOK, Separate(rQ), ChooseNewProcess
  PROVE  /\ Separate(rQ')
         /\ currentProcess' \notin Ready'
         /\ Ready' \subseteq Ready
         /\ (Ready' \cup {currentProcess'}) \ {NULL} = Ready
<1> USE DEF Ready
<1>1. NULL \notin Process /\ rQ \in [Level -> Seq(Process)]
  BY SchedulerAssumption DEF SchedTypeOK
<1>2. NULL \notin Ready
  BY <1>1, HeldType
<1>3. CASE /\ \A l \in Level : rQ[l] = <<>>
           /\ currentProcess' = NULL
           /\ rQ' = rQ
  BY <1>2, <1>3
<1>4. ASSUME NEW l \in Level, rQ[l] # <<>>, currentProcess' = Head(rQ[l]),
             rQ' = [rQ EXCEPT ![l] = Tail(@)]
      PROVE  /\ Separate(rQ')
             /\ currentProcess' \in Ready
             /\ Ready' = Ready \ {currentProcess'}
  <2>1. /\ Separate(rQ')
        /\ Held(rQ') = Held(rQ) \ {Head(rQ[l])}
        /\ Head(rQ[l]) \in Held(rQ)
    <3>1. IsPop(rQ, l, rQ')
      BY <1>4 DEF IsPop
    <3> QED BY <1>1, <3>1, PopSeparate
  <2> QED BY <1>4, <2>1
<1> QED BY <1>2, <1>3, <1>4 DEF ChooseNewProcess, HighestReady

\* DeviceQueue is a family of queues, and one queue of it changes at a time.
LEMMA DeviceQueueType ==
  ASSUME SchedTypeOK
  PROVE  /\ DeviceQueue \in [DOMAIN DeviceQueue -> Seq(Process)]
         /\ \A d \in Device : \A i \in Unit(d) :
              /\ <<d, i>> \in DOMAIN DeviceQueue
              /\ DeviceQueue[<<d, i>>] = container[d][i]
<1>1. \A u \in DOMAIN DeviceQueue :
        u[1] \in Device /\ u[2] \in Unit(u[1]) /\ u = <<u[1], u[2]>>
  BY DEF DeviceQueue
<1> QED BY <1>1 DEF DeviceQueue, SchedTypeOK

\* A change of the queue of one device, in the family of all of them.
LEMMA DeviceQueueUpdate ==
  ASSUME SchedTypeOK, NEW d \in Device, NEW i \in Unit(d), NEW q,
         container' = [container EXCEPT ![d][i] = q]
  PROVE  DeviceQueue' = [DeviceQueue EXCEPT ![<<d, i>>] = q]
<1>1. \A u \in DOMAIN DeviceQueue :
        u[1] \in Device /\ u[2] \in Unit(u[1]) /\ u = <<u[1], u[2]>>
  BY DEF DeviceQueue
<1>2. DOMAIN DeviceQueue' = DOMAIN DeviceQueue
  BY DEF DeviceQueue
<1>3. \A u \in DOMAIN DeviceQueue :
        DeviceQueue'[u] = IF u = <<d, i>> THEN q ELSE DeviceQueue[u]
  BY <1>1 DEF DeviceQueue, SchedTypeOK
<1> QED BY <1>2, <1>3 DEF DeviceQueue

\* What sendToDevice() and releaseProcess() do to the set of processes away.
LEMMA SendPlaces ==
  ASSUME SchedTypeOK, NEW d \in Device, NEW i \in RawIndex, SendToDevice(i, d),
         Separate(DeviceQueue), currentProcess \notin Away
  PROVE  Separate(DeviceQueue') /\ Away' = Away \cup {currentProcess}
<1> DEFINE c == ClampIndex(i, d)
<1>1. c \in Unit(d)
  BY ClampInRange, SchedulerAssumption
<1> HIDE DEF c
<1>2. container' = [container EXCEPT
                     ![d][c] = Append(container[d][c], currentProcess)]
  BY DEF SendToDevice, c
<1>3. currentProcess \in Process
  <2>1. currentProcess \in Process \cup {NULL}
    BY DEF SchedTypeOK
  <2> QED BY <2>1 DEF SendToDevice
<1>4. IsPush(DeviceQueue, <<d, c>>, currentProcess, DeviceQueue')
  <2>1. DeviceQueue' =
          [DeviceQueue EXCEPT ![<<d, c>>] = Append(container[d][c], currentProcess)]
    BY <1>1, <1>2, DeviceQueueUpdate
  <2>2. DeviceQueue[<<d, c>>] = container[d][c]
    BY <1>1, DeviceQueueType
  <2> QED BY <2>1, <2>2 DEF IsPush
<1> QED BY <1>1, <1>3, <1>4, DeviceQueueType, PushSeparate DEF Away

\* release() takes one process from its device.
LEMMA ReleasePlaces ==
  ASSUME SchedTypeOK, NEW d \in Device, NEW i \in RawIndex,
         ReleaseProcess(i, d), Separate(DeviceQueue),
         NEW h, h = Head(container[d][i])
  PROVE  /\ Separate(DeviceQueue')
         /\ Away' = Away \ {h}
         /\ h \in Away
         /\ h \in Process
<1>1. i \in Unit(d) /\ container[d][i] # <<>>
  BY DEF ReleaseProcess
<1>2. container' = [container EXCEPT ![d][i] = Tail(container[d][i])]
  BY DEF ReleaseProcess
<1>3. IsPop(DeviceQueue, <<d, i>>, DeviceQueue')
  BY <1>1, <1>2, DeviceQueueType, DeviceQueueUpdate DEF IsPop
<1>4. Head(DeviceQueue[<<d, i>>]) = h
  BY <1>1, DeviceQueueType
<1> QED BY <1>1, <1>3, <1>4, DeviceQueueType, PopSeparate DEF Away

\* Who is ready and who is away are processes.
LEMMA PlacesType ==
  ASSUME SchedTypeOK
  PROVE  Ready \subseteq Process /\ Away \subseteq Process /\ NULL \notin Process
<1>1. rQ \in [Level -> Seq(Process)]
  BY DEF SchedTypeOK
<1> QED BY <1>1, HeldType, DeviceQueueType, SchedulerAssumption DEF Ready, Away

\* A priority that is asked for is clamped to one of the levels.
LEMMA ClampIsLevel ==
  ASSUME NEW r \in RawPriority
  PROVE  ClampPriority(r) \in Level
BY SchedulerAssumption DEF ClampPriority, Level

\* Every operation keeps a process at one place.
LEMMA OnePlaceStep ==
  SchedTypeOK /\ OnePlace /\ [SchedNext]_schedVars => OnePlace'
<1> SUFFICES ASSUME SchedTypeOK, OnePlace, [SchedNext]_schedVars
             PROVE  OnePlace'
  OBVIOUS
<1>1. /\ currentProcess \in Process \cup {NULL}
      /\ priority \in [Process -> Level \cup {-1}]
      /\ \A l \in Level : l # -1
  BY DEF SchedTypeOK, Level
<1>2. /\ Separate(rQ) /\ Separate(DeviceQueue)
      /\ Ready \cap Away = {}
      /\ currentProcess \notin Ready /\ currentProcess \notin Away
      /\ Existing = (Ready \cup Away \cup {currentProcess}) \ {NULL}
  BY DEF OnePlace, NoDuplicate
<1>3. currentProcess # NULL => priority[currentProcess] \in Level
  BY <1>1, <1>2 DEF Existing
<1>4. ASSUME NEW p \in Process, NEW r \in RawPriority, CreateProcess(p, r)
      PROVE  OnePlace'
  <2>1. p \notin Existing
    BY <1>4 DEF CreateProcess, Existing
  <2>2. p \notin Ready /\ p \notin Away /\ p # currentProcess
    BY <1>2, <2>1, PlacesType
  <2>3. /\ Separate(rQ')
        /\ currentProcess' \notin Ready'
        /\ (Ready' \cup {currentProcess'}) \ {NULL} =
             (Ready \cup {currentProcess, p}) \ {NULL}
    BY <1>2, <1>3, <1>4, <2>2, ClampIsLevel, AddProcessPlaces DEF CreateProcess
  <2>4. DeviceQueue' = DeviceQueue /\ Away' = Away
    BY <1>4 DEF CreateProcess, DeviceQueue, Away
  <2>5. Existing' = Existing \cup {p}
    BY <1>1, <1>4, ClampIsLevel DEF CreateProcess, Existing
  <2>6. Ready' \cap Away = {} /\ currentProcess' \notin Away
    BY <1>2, <2>2, <2>3, PlacesType
  <2> QED BY <1>2, <2>3, <2>4, <2>5, <2>6, PlacesType DEF OnePlace, NoDuplicate
<1>5. CASE FinishProcess
  <2>1. /\ Separate(rQ')
        /\ currentProcess' \notin Ready'
        /\ Ready' \subseteq Ready
        /\ (Ready' \cup {currentProcess'}) \ {NULL} = Ready
    BY <1>2, <1>5, ChooseNewProcessPlaces DEF FinishProcess
  <2>2. DeviceQueue' = DeviceQueue /\ Away' = Away
    BY <1>5 DEF FinishProcess, DeviceQueue, Away
  <2>3. Existing' = Existing \ {currentProcess}
    BY <1>1, <1>5 DEF FinishProcess, Existing
  <2>4. Ready' \cap Away = {} /\ currentProcess' \notin Away
    BY <1>2, <2>1, PlacesType
  <2> QED BY <1>2, <2>1, <2>2, <2>3, <2>4, PlacesType DEF OnePlace, NoDuplicate
<1>6. ASSUME NEW d \in Device, NEW i \in RawIndex, SendToDevice(i, d)
      PROVE  OnePlace'
  <2>1. /\ Separate(rQ')
        /\ currentProcess' \notin Ready'
        /\ Ready' \subseteq Ready
        /\ (Ready' \cup {currentProcess'}) \ {NULL} = Ready
    BY <1>2, <1>6, ChooseNewProcessPlaces DEF SendToDevice
  <2>2. Separate(DeviceQueue') /\ Away' = Away \cup {currentProcess}
    BY <1>2, <1>6, SendPlaces
  <2>3. Existing' = Existing /\ currentProcess # NULL
    BY <1>6 DEF SendToDevice, Existing
  <2>4. Ready' \cap Away' = {} /\ currentProcess' \notin Away'
    BY <1>2, <2>1, <2>2, <2>3, PlacesType
  <2> QED BY <1>2, <2>1, <2>2, <2>3, <2>4, PlacesType DEF OnePlace, NoDuplicate
<1>7. ASSUME NEW d \in Device, NEW i \in RawIndex, ReleaseProcess(i, d)
      PROVE  OnePlace'
  <2> DEFINE h == Head(container[d][i])
  <2>1. /\ Separate(DeviceQueue')
        /\ Away' = Away \ {h}
        /\ h \in Away /\ h \in Process
    BY <1>2, <1>7, ReleasePlaces
  <2>2. AddProcess(h, priority[h]) /\ priority' = priority
    BY <1>7 DEF ReleaseProcess
  <2> HIDE DEF h
  <2>3. h \notin Ready /\ h # currentProcess /\ priority[h] \in Level
    BY <1>1, <1>2, <2>1, PlacesType DEF Existing
  <2>4. /\ Separate(rQ')
        /\ currentProcess' \notin Ready'
        /\ (Ready' \cup {currentProcess'}) \ {NULL} =
             (Ready \cup {currentProcess, h}) \ {NULL}
    BY <1>2, <1>3, <2>1, <2>2, <2>3, AddProcessPlaces
  <2>5. Existing' = Existing
    BY <2>2 DEF Existing
  <2>6. Ready' \cap Away' = {} /\ currentProcess' \notin Away'
    BY <1>2, <2>1, <2>4, PlacesType
  <2> QED BY <1>2, <2>1, <2>4, <2>5, <2>6, PlacesType DEF OnePlace, NoDuplicate
<1>8. CASE UNCHANGED schedVars
  BY <1>8 DEF schedVars, OnePlace, NoDuplicate, Ready, Away, DeviceQueue, Existing
<1> QED BY <1>4, <1>5, <1>6, <1>7, <1>8 DEF SchedNext

-----------------------------------------------------------------------------
(* Who runs and who waits where.                                           *)

\* An addProcess() that leaves the other priorities alone keeps the order.
LEMMA AddProcessKeepsOrder ==
  ASSUME SchedInv, NEW p \in Process, NEW pr \in Level, AddProcess(p, pr),
         p \notin Ready, p # currentProcess,
         priority' \in [Process -> Level \cup {-1}],
         priority'[p] = pr,
         \A q \in Process : q # p => priority'[q] = priority[q]
  PROVE  QueueOfItsPriority' /\ PriorityRespected'
<1>1. /\ NULL \notin Process
      /\ rQ \in [Level -> Seq(Process)]
      /\ currentProcess \in Process \cup {NULL}
      /\ priority \in [Process -> Level \cup {-1}]
      /\ Level \subseteq Int
      /\ \A l \in Level : l > -1
  BY SchedulerAssumption DEF SchedInv, SchedTypeOK, Level
<1>2. \A l \in Level : /\ Range(rQ[l]) \subseteq Ready
                       /\ Range(rQ[l]) \subseteq Process
                       /\ (Range(rQ[l]) = {} <=> rQ[l] = <<>>)
  BY <1>1, HeldType, RangeType DEF Ready
<1>3. currentProcess # NULL => /\ currentProcess \in Process
                               /\ priority[currentProcess] \in Level
  BY <1>1 DEF SchedInv, OnePlace, Existing
<1>4. \A l \in Level : \A q \in Range(rQ[l]) : priority[q] = l /\ priority'[q] = l
  BY <1>2 DEF SchedInv, QueueOfItsPriority
<1>5. \A l \in Level : rQ[l] # <<>> => l <= CurrentPriority
  BY DEF SchedInv, PriorityRespected
<1>6. CASE currentProcess = NULL /\ rQ' = rQ /\ currentProcess' = p
  <2>1. CurrentPriority = -1 /\ CurrentPriority' = pr
    BY <1>1, <1>6 DEF CurrentPriority
  <2>2. \A l \in Level : rQ[l] = <<>>
    BY <1>1, <1>5, <2>1
  <2> QED BY <1>2, <1>6, <2>2 DEF QueueOfItsPriority, PriorityRespected
<1>7. CASE /\ currentProcess # NULL
           /\ pr > CurrentPriority
           /\ rQ' = Pushed(priority[currentProcess], currentProcess)
           /\ currentProcess' = p
  <2> DEFINE k == priority[currentProcess]
  <2>1. CurrentPriority = k /\ CurrentPriority' = pr /\ k \in Level /\ k < pr
    BY <1>1, <1>3, <1>7 DEF CurrentPriority
  <2>2. /\ rQ'[k] = Append(rQ[k], currentProcess)
        /\ \A m \in Level : m # k => rQ'[m] = rQ[m]
    BY <1>1, <1>3, <1>7, <2>1, PushedType DEF SchedInv
  <2>3. Range(rQ'[k]) = Range(rQ[k]) \cup {currentProcess}
    BY <1>1, <1>3, <1>7, <2>1, <2>2, RangeAppend
  <2>4. QueueOfItsPriority'
    <3>1. priority'[currentProcess] = k
      BY <1>3, <1>7
    <3>2. \A q \in Range(rQ'[k]) : priority'[q] = k
      BY <1>4, <2>1, <2>3, <3>1
    <3>3. \A m \in Level : m # k => \A q \in Range(rQ'[m]) : priority'[q] = m
      BY <1>4, <2>2
    <3> QED BY <3>2, <3>3 DEF QueueOfItsPriority
  <2>5. \A l \in Level : rQ'[l] # <<>> => l <= pr
    <3>1. \A l \in Level : rQ'[l] # <<>> => l <= k
      BY <1>1, <1>5, <2>1, <2>2
    <3> HIDE DEF k
    <3> QED BY <1>1, <2>1, <3>1
  <2> QED BY <2>1, <2>4, <2>5 DEF PriorityRespected
<1>8. CASE /\ ~(pr > CurrentPriority)
           /\ rQ' = Pushed(pr, p)
           /\ currentProcess' = currentProcess
  <2>1. currentProcess # NULL
    BY <1>1, <1>8 DEF CurrentPriority
  <2>2. /\ CurrentPriority = priority[currentProcess]
        /\ CurrentPriority' = CurrentPriority
        /\ CurrentPriority \in Level
        /\ pr <= CurrentPriority
    <3>1. CurrentPriority = priority[currentProcess]
      BY <2>1 DEF CurrentPriority
    <3>2. CurrentPriority' = priority'[currentProcess]
      BY <1>8, <2>1 DEF CurrentPriority
    <3>3. priority'[currentProcess] = priority[currentProcess]
      BY <1>3, <2>1
    <3>4. CurrentPriority \in Level
      BY <1>3, <2>1, <3>1
    <3> QED BY <1>1, <1>8, <3>1, <3>2, <3>3, <3>4
  <2>3. /\ rQ'[pr] = Append(rQ[pr], p)
        /\ \A m \in Level : m # pr => rQ'[m] = rQ[m]
    BY <1>8, PushedType DEF SchedInv
  <2>4. Range(rQ'[pr]) = Range(rQ[pr]) \cup {p}
    BY <1>1, <2>3, RangeAppend
  <2>5. QueueOfItsPriority'
    BY <1>4, <2>3, <2>4 DEF QueueOfItsPriority
  <2>6. \A l \in Level : rQ'[l] # <<>> => l <= CurrentPriority
    BY <1>1, <1>5, <2>2, <2>3
  <2> QED BY <2>2, <2>5, <2>6 DEF PriorityRespected
<1> QED BY <1>6, <1>7, <1>8 DEF AddProcess

\* A chooseNewProcess() that only the process that left can tell from a step
\* with the same priorities keeps it too.
LEMMA ChooseNewProcessKeepsOrder ==
  ASSUME SchedInv, ChooseNewProcess, currentProcess # NULL,
         priority' \in [Process -> Level \cup {-1}],
         \A q \in Process : q # currentProcess => priority'[q] = priority[q]
  PROVE  QueueOfItsPriority' /\ PriorityRespected'
<1>1. /\ NULL \notin Process
      /\ rQ \in [Level -> Seq(Process)]
      /\ Level \subseteq Int
  BY SchedulerAssumption DEF SchedInv, SchedTypeOK, Level
<1>2. \A l \in Level : /\ Range(rQ[l]) \subseteq Ready
                       /\ Range(rQ[l]) \subseteq Process
                       /\ (Range(rQ[l]) = {} <=> rQ[l] = <<>>)
  BY <1>1, HeldType, RangeType DEF Ready
<1>3. \A l \in Level : \A q \in Range(rQ[l]) : priority[q] = l /\ priority'[q] = l
  BY <1>2 DEF SchedInv, QueueOfItsPriority, OnePlace, NoDuplicate
<1>4. CASE /\ \A l \in Level : rQ[l] = <<>>
           /\ rQ' = rQ
  BY <1>2, <1>4 DEF QueueOfItsPriority, PriorityRespected
<1>5. ASSUME NEW l \in Level, HighestReady(l), currentProcess' = Head(rQ[l]),
             rQ' = [rQ EXCEPT ![l] = Tail(@)]
      PROVE  QueueOfItsPriority' /\ PriorityRespected'
  <2>1. /\ rQ[l] # <<>>
        /\ rQ'[l] = Tail(rQ[l])
        /\ \A m \in Level : m # l => rQ'[m] = rQ[m]
        /\ \A m \in Level : m > l => rQ[m] = <<>>
    BY <1>1, <1>5 DEF HighestReady
  <2>2. /\ Range(rQ'[l]) \subseteq Range(rQ[l])
        /\ currentProcess' \in Range(rQ[l])
    BY <1>1, <1>5, <2>1, RangeTail
  <2>3. CurrentPriority' = l
    BY <1>1, <1>2, <1>3, <2>2 DEF CurrentPriority
  <2>4. QueueOfItsPriority'
    BY <1>3, <2>1, <2>2 DEF QueueOfItsPriority
  <2>5. \A m \in Level : rQ'[m] # <<>> => m <= l
    BY <1>1, <2>1
  <2> QED BY <2>3, <2>4, <2>5 DEF PriorityRespected
<1> QED BY <1>4, <1>5 DEF ChooseNewProcess

\* Every operation keeps the processor with the highest priority, and a
\* process on its level.
LEMMA OrderStep ==
  SchedInv /\ [SchedNext]_schedVars => QueueOfItsPriority' /\ PriorityRespected'
<1> SUFFICES ASSUME SchedInv, [SchedNext]_schedVars
             PROVE  QueueOfItsPriority' /\ PriorityRespected'
  OBVIOUS
<1>1. /\ SchedTypeOK
      /\ priority' \in [Process -> Level \cup {-1}]
      /\ priority \in [Process -> Level \cup {-1}]
      /\ Separate(DeviceQueue) /\ Ready \cap Away = {}
      /\ currentProcess \notin Ready /\ currentProcess \notin Away
      /\ Existing = (Ready \cup Away \cup {currentProcess}) \ {NULL}
  BY TypeStep DEF SchedInv, SchedTypeOK, OnePlace, NoDuplicate
<1>2. ASSUME NEW p \in Process, NEW r \in RawPriority, CreateProcess(p, r)
      PROVE  QueueOfItsPriority' /\ PriorityRespected'
  <2>1. p \notin Ready /\ p # currentProcess
    BY <1>1, <1>2, PlacesType DEF CreateProcess, Existing
  <2>2. /\ priority'[p] = ClampPriority(r)
        /\ \A q \in Process : q # p => priority'[q] = priority[q]
        /\ AddProcess(p, ClampPriority(r))
    BY <1>1, <1>2 DEF CreateProcess
  <2> QED BY <1>1, <2>1, <2>2, ClampIsLevel, AddProcessKeepsOrder
<1>3. CASE FinishProcess
  <2>1. \A q \in Process : q # currentProcess => priority'[q] = priority[q]
    BY <1>1, <1>3 DEF FinishProcess
  <2> QED BY <1>1, <1>3, <2>1, ChooseNewProcessKeepsOrder DEF FinishProcess
<1>4. ASSUME NEW d \in Device, NEW i \in RawIndex, SendToDevice(i, d)
      PROVE  QueueOfItsPriority' /\ PriorityRespected'
  BY <1>1, <1>4, ChooseNewProcessKeepsOrder DEF SendToDevice
<1>5. ASSUME NEW d \in Device, NEW i \in RawIndex, ReleaseProcess(i, d)
      PROVE  QueueOfItsPriority' /\ PriorityRespected'
  <2> DEFINE h == Head(container[d][i])
  <2>1. h \in Away /\ h \in Process
    BY <1>1, <1>5, ReleasePlaces
  <2>2. AddProcess(h, priority[h]) /\ priority' = priority
    BY <1>5 DEF ReleaseProcess
  <2> HIDE DEF h
  <2>3. h \notin Ready /\ h # currentProcess /\ priority[h] \in Level
    BY <1>1, <2>1, PlacesType DEF Existing
  <2> QED BY <1>1, <2>1, <2>2, <2>3, AddProcessKeepsOrder
<1>6. CASE UNCHANGED schedVars
  BY <1>6 DEF schedVars, SchedInv, QueueOfItsPriority, PriorityRespected,
              CurrentPriority
<1> QED BY <1>2, <1>3, <1>4, <1>5, <1>6 DEF SchedNext

\* The scheduler starts in the invariant.
LEMMA SchedInvInit == SchedInit => SchedInv
<1> SUFFICES ASSUME SchedInit PROVE SchedInv
  OBVIOUS
<1>1. /\ NULL \notin Process /\ SchedTypeOK
      /\ \A l \in Level : rQ[l] = <<>>
      /\ rQ \in [Level -> Seq(Process)]
  BY SchedulerAssumption, TypeInit DEF SchedInit, SchedTypeOK
<1>2. \A u \in DOMAIN DeviceQueue : DeviceQueue[u] = <<>>
  <2>1. \A u \in DOMAIN DeviceQueue : u[1] \in Device /\ u[2] \in Unit(u[1])
    BY DEF DeviceQueue
  <2> QED BY <2>1 DEF SchedInit, DeviceQueue
<1>3. Ready = {} /\ Away = {}
  BY <1>1, <1>2, HeldType, DeviceQueueType DEF Ready, Away
<1>4. Separate(rQ) /\ Separate(DeviceQueue)
  <2>1. IsInjective(<<>>) /\ Range(<<>>) = {}
    BY DEF IsInjective, Range
  <2>2. DOMAIN rQ = Level
    BY <1>1
  <2> QED BY <1>1, <1>2, <2>1, <2>2 DEF Separate
<1>5. Existing = {} /\ currentProcess = NULL
  BY DEF SchedInit, Existing
<1>6. QueueOfItsPriority /\ PriorityRespected
  BY <1>1, RangeType DEF QueueOfItsPriority, PriorityRespected
<1> QED BY <1>1, <1>3, <1>4, <1>5, <1>6 DEF SchedInv, OnePlace, NoDuplicate

\* Every operation keeps the invariant.
LEMMA SchedInvariance == SchedSpec => []SchedInv
<1>1. SchedInv /\ [SchedNext]_schedVars => SchedInv'
  BY TypeStep, OnePlaceStep, OrderStep DEF SchedInv
<1> QED BY <1>1, SchedInvInit, PTL DEF SchedSpec

\* A process that exists runs, waits or does I/O, once: none is lost by a
\* preemption or a device and none is scheduled twice.
THEOREM NoProcessIsLost == SchedSpec => []OnePlace
BY SchedInvariance, PTL DEF SchedInv

\* Nobody waits for the processor behind a lower priority, or while it idles.
THEOREM PriorityIsRespected == SchedSpec => []PriorityRespected
BY SchedInvariance, PTL DEF SchedInv

\* Each of the five queues holds the processes of its own priority only.
THEOREM QueuesAreByPriority == SchedSpec => []QueueOfItsPriority
BY SchedInvariance, PTL DEF SchedInv

-----------------------------------------------------------------------------
(* The queues as the dispatcher of ReadyQueue.h.                           *)

\* The pairs of which s has the first before the second.
Before(s) ==
  {a \in Range(s) \X Range(s) :
     \E j, k \in DOMAIN s : j < k /\ a = <<s[j], s[k]>>}

\* One process is before another when its position in their queue is smaller.
LEMMA BeforeIs ==
  ASSUME NEW s
  PROVE  /\ \A j, k \in DOMAIN s : j < k => <<s[j], s[k]>> \in Before(s)
         /\ \A a \in Before(s) :
              \E j, k \in DOMAIN s : j < k /\ a = <<s[j], s[k]>>
<1>1. ASSUME NEW j \in DOMAIN s, NEW k \in DOMAIN s, j < k
      PROVE  <<s[j], s[k]>> \in Before(s)
  <2>1. s[j] \in Range(s) /\ s[k] \in Range(s)
    BY DEF Range
  <2>2. <<s[j], s[k]>> \in Range(s) \X Range(s)
    BY <2>1
  <2>3. QED
    BY <1>1, <2>2 DEF Before
<1>2. QED
  BY <1>1 DEF Before

\* Ahead, of the queues Q.
AheadIn(Q) ==
  {a \in Held(Q) \X Held(Q) :
     \E l \in Level : \E j, k \in DOMAIN Q[l] :
       j < k /\ a = <<Q[l][j], Q[l][k]>>}

\* Ahead, read off the positions in the queues.
LEMMA AheadIs ==
  ASSUME NEW Q \in [Level -> Seq(Process)]
  PROVE  \A a : a \in AheadIn(Q) <=> \E l \in Level : a \in Before(Q[l])
<1>1. \A l \in Level : Range(Q[l]) \subseteq Held(Q)
  BY HeldType
<1>2. ASSUME NEW a \in AheadIn(Q)
      PROVE  \E l \in Level : a \in Before(Q[l])
  BY BeforeIs DEF AheadIn
<1>3. ASSUME NEW l \in Level, NEW a \in Before(Q[l])
      PROVE  a \in AheadIn(Q)
  BY <1>1 DEF AheadIn, Before
<1>4. QED
  BY <1>2, <1>3

\* push() puts an element behind the others of its queue, ...
LEMMA BeforeAppend ==
  ASSUME NEW S, NEW s \in Seq(S), NEW e \in S
  PROVE  \A a : a \in Before(Append(s, e)) <=>
                  a \in Before(s) \/ \E q \in Range(s) : a = <<q, e>>
<1> DEFINE t == Append(s, e)
<1>1. /\ DOMAIN t = 1..(Len(s) + 1)
      /\ DOMAIN s = 1..Len(s)
      /\ \A k \in DOMAIN s : t[k] = s[k]
      /\ t[Len(s) + 1] = e
      /\ Len(s) \in Nat
  OBVIOUS
<1> HIDE DEF t
<1>2. ASSUME NEW a \in Before(t)
      PROVE  a \in Before(s) \/ \E q \in Range(s) : a = <<q, e>>
  <2>1. PICK j \in DOMAIN t, k \in DOMAIN t : j < k /\ a = <<t[j], t[k]>>
    BY BeforeIs
  <2>2. j \in DOMAIN s /\ t[j] = s[j] /\ s[j] \in Range(s)
    BY <1>1, <2>1 DEF Range
  <2>3. CASE k \in DOMAIN s
    BY <1>1, <2>1, <2>2, <2>3, BeforeIs
  <2>4. CASE k = Len(s) + 1
    BY <1>1, <2>1, <2>2, <2>4
  <2>5. QED
    BY <1>1, <2>1, <2>3, <2>4
<1>3. ASSUME NEW a \in Before(s)
      PROVE  a \in Before(t)
  <2>1. PICK j \in DOMAIN s, k \in DOMAIN s : j < k /\ a = <<s[j], s[k]>>
    BY BeforeIs
  <2>2. j \in DOMAIN t /\ k \in DOMAIN t /\ a = <<t[j], t[k]>>
    BY <1>1, <2>1
  <2>3. QED
    BY <2>1, <2>2, BeforeIs
<1>4. ASSUME NEW q \in Range(s)
      PROVE  <<q, e>> \in Before(t)
  <2>1. PICK j \in DOMAIN s : q = s[j]
    BY DEF Range
  <2>2. j \in DOMAIN t /\ Len(s) + 1 \in DOMAIN t /\ j < Len(s) + 1
        /\ t[j] = q /\ t[Len(s) + 1] = e
    BY <1>1, <2>1
  <2>3. QED
    BY <2>2, BeforeIs
<1>5. QED
  BY <1>2, <1>3, <1>4 DEF t

\* ... and pop() takes the one that is before all others and behind none.
LEMMA BeforeTail ==
  ASSUME NEW S, NEW s \in Seq(S), s # <<>>, IsInjective(s)
  PROVE  /\ \A a : a \in Before(Tail(s)) <=> a \in Before(s) /\ a[1] # Head(s)
         /\ \A a \in Before(s) : a[2] # Head(s)
<1> DEFINE t == Tail(s)
<1>1. /\ DOMAIN t = 1..(Len(s) - 1)
      /\ DOMAIN s = 1..Len(s)
      /\ \A k \in DOMAIN t : t[k] = s[k + 1]
      /\ Head(s) = s[1]
      /\ Len(s) \in Nat \ {0}
  OBVIOUS
<1> HIDE DEF t
<1>2. \A k \in DOMAIN s : s[k] = Head(s) => k = 1
  BY <1>1 DEF IsInjective
<1>3. ASSUME NEW a \in Before(t)
      PROVE  a \in Before(s) /\ a[1] # Head(s)
  <2>1. PICK j \in DOMAIN t, k \in DOMAIN t : j < k /\ a = <<t[j], t[k]>>
    BY BeforeIs
  <2>2. /\ j + 1 \in DOMAIN s /\ k + 1 \in DOMAIN s /\ j + 1 < k + 1 /\ j + 1 # 1
        /\ a = <<s[j + 1], s[k + 1]>>
    BY <1>1, <2>1
  <2>3. QED
    BY <1>2, <2>2, BeforeIs
<1>4. ASSUME NEW a \in Before(s)
      PROVE  /\ a[2] # Head(s)
             /\ a[1] # Head(s) => a \in Before(t)
  <2>1. PICK j \in DOMAIN s, k \in DOMAIN s : j < k /\ a = <<s[j], s[k]>>
    BY BeforeIs
  <2>2. k # 1
    BY <1>1, <2>1
  <2>3. ASSUME j # 1
        PROVE  a \in Before(t)
    <3>1. /\ j - 1 \in DOMAIN t /\ k - 1 \in DOMAIN t /\ j - 1 < k - 1
          /\ t[j - 1] = s[j] /\ t[k - 1] = s[k]
      BY <1>1, <2>1, <2>2, <2>3
    <3>2. QED
      BY <2>1, <3>1, BeforeIs
  <2>4. QED
    BY <1>1, <1>2, <2>1, <2>2, <2>3
<1>5. QED
  BY <1>3, <1>4 DEF t

\* What waits at a level is what is ready and has that priority.
LEMMA QueueIsLevel ==
  ASSUME SchedInv, NEW l \in Level
  PROVE  \A q : q \in Range(rQ[l]) <=> q \in Ready /\ priority[q] = l
<1>1. rQ \in [Level -> Seq(Process)]
  BY DEF SchedInv, SchedTypeOK
<1>2. \A m \in Level : \A q \in Range(rQ[m]) : priority[q] = m
  BY DEF SchedInv, QueueOfItsPriority
<1>3. \A q \in Ready : \E m \in Level : q \in Range(rQ[m])
  BY <1>1 DEF Ready, Held
<1>4. Range(rQ[l]) \subseteq Ready
  BY <1>1, HeldType DEF Ready
<1>5. QED
  BY <1>2, <1>3, <1>4

\* To push p onto the queue of its level is to let it wait behind its equals.
LEMMA PushWaits ==
  ASSUME SchedInv, SchedTypeOK', NEW l \in Level, NEW p \in Process, p \notin Ready,
         rQ' = Pushed(l, p)
  PROVE  /\ Ready' = Ready \cup {p}
         /\ Ahead' = Ahead \cup D!Behind(p, l)
<1>1. SchedTypeOK /\ rQ \in [Level -> Seq(Process)] /\ Separate(rQ)
  BY DEF SchedInv, SchedTypeOK, OnePlace, NoDuplicate
<1>2. Ready' = Ready \cup {p}
  <2>1. IsPush(rQ, l, p, rQ')
    BY DEF Pushed, IsPush
  <2>2. QED
    BY <1>1, <2>1, PushSeparate DEF Ready
<1>3. /\ rQ'[l] = Append(rQ[l], p)
      /\ \A m \in Level : m # l => rQ'[m] = rQ[m]
  BY <1>1, PushedType
<1>4. \A a : a \in Before(rQ'[l]) <=> a \in Before(rQ[l]) \/ \E q \in Range(rQ[l]) : a = <<q, p>>
  BY <1>1, <1>3, BeforeAppend
<1>5. Ahead = AheadIn(rQ) /\ Ahead' = AheadIn(rQ')
  BY DEF Ahead, AheadIn, Ready
<1>6. /\ \A a : a \in Ahead <=> \E m \in Level : a \in Before(rQ[m])
      /\ \A a : a \in Ahead' <=> \E m \in Level : a \in Before(rQ'[m])
  <2>1. rQ' \in [Level -> Seq(Process)]
    BY DEF SchedTypeOK
  <2>2. QED
    BY <1>1, <1>5, <2>1, AheadIs
<1>7. \A a : a \in D!Behind(p, l) <=> \E q \in Range(rQ[l]) : a = <<q, p>>
  BY QueueIsLevel DEF D!Behind
<1>8. \A a : a \in Ahead' <=> a \in Ahead \/ a \in D!Behind(p, l)
  BY <1>3, <1>4, <1>6, <1>7
<1>9. QED
  BY <1>2, <1>8

\* To pop the first of the highest queue is to choose the best process.
LEMMA PopIsBest ==
  ASSUME SchedInv, SchedTypeOK', NEW l \in Level, HighestReady(l),
         rQ' = [rQ EXCEPT ![l] = Tail(@)],
         NEW p, p = Head(rQ[l])
  PROVE  /\ D!Best(p) /\ p \in Ready
         /\ Ready' = Ready \ {p}
         /\ Ahead' = {a \in Ahead : a[1] # p}
<1>1. SchedTypeOK /\ rQ \in [Level -> Seq(Process)] /\ Separate(rQ)
  BY DEF SchedInv, SchedTypeOK, OnePlace, NoDuplicate
<1>2. /\ rQ[l] # <<>> /\ rQ[l] \in Seq(Process) /\ IsInjective(rQ[l])
      /\ \A m \in Level : m > l => rQ[m] = <<>>
  BY <1>1 DEF HighestReady, Separate
<1>3. Ready' = Ready \ {p} /\ p \in Ready
  <2>1. IsPop(rQ, l, rQ')
    BY <1>2 DEF IsPop
  <2>2. QED
    BY <1>1, <2>1, PopSeparate DEF Ready
<1>4. /\ rQ'[l] = Tail(rQ[l])
      /\ \A m \in Level : m # l => rQ'[m] = rQ[m]
  BY <1>1
<1>5. /\ \A a : a \in Before(rQ'[l]) <=> a \in Before(rQ[l]) /\ a[1] # p
      /\ \A a \in Before(rQ[l]) : a[2] # p
  BY <1>2, <1>4, BeforeTail
<1>6. /\ \A a : a \in Ahead <=> \E m \in Level : a \in Before(rQ[m])
      /\ \A a : a \in Ahead' <=> \E m \in Level : a \in Before(rQ'[m])
  <2>1. Ahead = AheadIn(rQ) /\ Ahead' = AheadIn(rQ')
    BY DEF Ahead, AheadIn, Ready
  <2>2. rQ' \in [Level -> Seq(Process)]
    BY DEF SchedTypeOK
  <2>3. QED
    BY <1>1, <2>1, <2>2, AheadIs
<1>7. priority[p] = l /\ p \in Range(rQ[l])
  BY <1>2, RangeTail, QueueIsLevel
<1>8. \A m \in Level \ {l} : p \notin Range(rQ[m])
  BY <1>7, QueueIsLevel
<1>9. \A m \in Level \ {l} : \A a \in Before(rQ[m]) : a[1] # p /\ a[2] # p
  BY <1>8 DEF Before
<1>10. Ahead' = {a \in Ahead : a[1] # p}
  BY <1>4, <1>5, <1>6, <1>9
<1>11. ASSUME NEW q \in Ready
       PROVE  priority[q] <= priority[p] /\ <<q, p>> \notin Ahead
  <2>1. PICK m \in Level : q \in Range(rQ[m])
    BY <1>1 DEF Ready, Held
  <2>2. priority[q] = m /\ rQ[m] # <<>>
    BY <1>1, <2>1, QueueIsLevel, RangeType
  <2>3. m <= l
    BY <1>2, <2>2 DEF Level
  <2>4. <<q, p>>[2] = p
    OBVIOUS
  <2>5. \A k \in Level : <<q, p>> \notin Before(rQ[k])
    BY <1>5, <1>9, <2>4
  <2>6. QED
    BY <1>6, <1>7, <2>2, <2>3, <2>5
<1>12. QED
  BY <1>3, <1>10, <1>11 DEF D!Best

\* addProcess() is an arrival ...
LEMMA AddProcessMaps ==
  ASSUME SchedInv, SchedTypeOK', NEW p \in Process, NEW pr \in Level, AddProcess(p, pr),
         p \notin Ready
  PROVE  D!Run(p, pr) \/ D!Preempt(p, pr) \/ D!Wait(p, pr)
<1>1. /\ NULL \notin Process /\ pr > -1 /\ Level \subseteq Int
      /\ currentProcess \in Process \cup {NULL}
      /\ currentProcess \notin Ready
  BY SchedulerAssumption DEF SchedInv, SchedTypeOK, OnePlace, NoDuplicate, Level
<1>2. currentProcess # NULL => priority[currentProcess] \in Level
  BY <1>1 DEF SchedInv, SchedTypeOK, OnePlace, Existing
<1>3. CASE currentProcess = NULL
  <2>1. rQ' = rQ /\ currentProcess' = p
    BY <1>1, <1>3 DEF AddProcess, CurrentPriority
  <2>2. QED
    BY <1>3, <2>1 DEF D!Run, Ready, Ahead
<1>4. CASE currentProcess # NULL /\ pr > priority[currentProcess]
  <2>1. rQ' = Pushed(priority[currentProcess], currentProcess) /\ currentProcess' = p
    BY <1>4 DEF AddProcess, CurrentPriority
  <2>2. /\ Ready' = Ready \cup {currentProcess}
        /\ Ahead' = Ahead \cup D!Behind(currentProcess, priority[currentProcess])
    BY <1>1, <1>2, <1>4, <2>1, PushWaits
  <2>3. QED
    BY <1>4, <2>1, <2>2 DEF D!Preempt
<1>5. CASE currentProcess # NULL /\ ~(pr > priority[currentProcess])
  <2>1. rQ' = Pushed(pr, p) /\ currentProcess' = currentProcess
    BY <1>5 DEF AddProcess, CurrentPriority
  <2>2. /\ Ready' = Ready \cup {p}
        /\ Ahead' = Ahead \cup D!Behind(p, pr)
    BY <2>1, PushWaits
  <2>3. pr <= priority[currentProcess]
    BY <1>2, <1>5 DEF Level
  <2>4. QED
    BY <1>5, <2>1, <2>2, <2>3, Zenon DEF D!Wait
<1>6. QED
  BY <1>3, <1>4, <1>5

\* ... and chooseNewProcess() follows a departure.
LEMMA ChooseMaps ==
  ASSUME SchedInv, SchedTypeOK', ChooseNewProcess, currentProcess # NULL,
         \/ UNCHANGED priority
         \/ priority' = [priority EXCEPT ![currentProcess] = -1]
  PROVE  D!Leave
<1>1. rQ \in [Level -> Seq(Process)]
  BY DEF SchedInv, SchedTypeOK
<1>2. CASE /\ \A l \in Level : rQ[l] = <<>>
           /\ currentProcess' = NULL
           /\ rQ' = rQ
  <2>1. Ready = {}
    BY <1>1, <1>2, HeldType DEF Ready
  <2>2. Ready' = Ready /\ Ahead' = Ahead
    BY <1>2 DEF Ready, Ahead
  <2>3. QED
    BY <1>2, <2>1, <2>2 DEF D!Leave
<1>3. ASSUME NEW l \in Level, HighestReady(l), currentProcess' = Head(rQ[l]),
             rQ' = [rQ EXCEPT ![l] = Tail(@)]
      PROVE  D!Leave
  <2>1. PICK p : p = Head(rQ[l])
    OBVIOUS
  <2>2. /\ D!Best(p) /\ p \in Ready /\ Ready' = Ready \ {p}
        /\ Ahead' = {a \in Ahead : a[1] # p}
    BY <1>3, <2>1, PopIsBest
  <2>3. \E q \in Ready : /\ D!Best(q) /\ currentProcess' = q
                         /\ Ready' = Ready \ {q}
                         /\ Ahead' = {a \in Ahead : a[1] # q}
    BY <1>3, <2>1, <2>2
  <2>4. QED
    BY <2>3, Zenon DEF D!Leave
<1>4. QED
  BY <1>2, <1>3 DEF ChooseNewProcess

\* Every step maps to a step of the dispatcher, or to none.
LEMMA StepDispatches ==
  SchedInv /\ [SchedNext]_schedVars => [D!DispatchNext]_(D!dispatchVars)
<1> SUFFICES ASSUME SchedInv, [SchedNext]_schedVars
             PROVE  [D!DispatchNext]_(D!dispatchVars)
  OBVIOUS
<1>1. /\ SchedTypeOK /\ SchedTypeOK'
      /\ priority \in [Process -> Level \cup {-1}]
      /\ Separate(DeviceQueue) /\ Ready \cap Away = {}
      /\ currentProcess \notin Ready /\ currentProcess \notin Away
      /\ Existing = (Ready \cup Away \cup {currentProcess}) \ {NULL}
  BY TypeStep DEF SchedInv, SchedTypeOK, OnePlace, NoDuplicate
<1>2. ASSUME NEW p \in Process, NEW r \in RawPriority, CreateProcess(p, r)
      PROVE  D!DispatchNext
  <2>1. p \notin Ready /\ p # currentProcess
    BY <1>1, <1>2, PlacesType DEF CreateProcess, Existing
  <2>2. /\ priority[p] = -1
        /\ priority' = [priority EXCEPT ![p] = ClampPriority(r)]
        /\ AddProcess(p, ClampPriority(r))
        /\ ClampPriority(r) \in Level
    BY <1>2, ClampIsLevel DEF CreateProcess
  <2>3. D!Arrive(p, ClampPriority(r))
    BY <1>1, <2>1, <2>2, AddProcessMaps DEF D!Arrive
  <2>4. QED
    BY <2>2, <2>3 DEF D!DispatchNext
<1>3. CASE FinishProcess
  <2>1. D!Leave
    BY <1>1, <1>3, ChooseMaps DEF FinishProcess
  <2>2. QED
    BY <2>1 DEF D!DispatchNext
<1>4. ASSUME NEW d \in Device, NEW i \in RawIndex, SendToDevice(i, d)
      PROVE  D!DispatchNext
  <2>1. D!Leave
    BY <1>1, <1>4, ChooseMaps DEF SendToDevice
  <2>2. QED
    BY <2>1 DEF D!DispatchNext
<1>5. ASSUME NEW d \in Device, NEW i \in RawIndex, ReleaseProcess(i, d)
      PROVE  D!DispatchNext
  <2>1. PICK h : h = Head(container[d][i])
    OBVIOUS
  <2>2. h \in Away /\ h \in Process
    BY <1>1, <1>5, <2>1, ReleasePlaces
  <2>3. AddProcess(h, priority[h]) /\ priority' = priority
    BY <1>5, <2>1 DEF ReleaseProcess
  <2>4. h \notin Ready /\ h # currentProcess /\ priority[h] \in Level
    BY <1>1, <2>2, PlacesType DEF Existing
  <2>5. D!Arrive(h, priority[h])
    BY <1>1, <2>2, <2>3, <2>4, AddProcessMaps DEF D!Arrive
  <2>6. QED
    BY <2>2, <2>4, <2>5 DEF D!DispatchNext
<1>6. CASE UNCHANGED schedVars
  BY <1>6 DEF schedVars, D!dispatchVars, Ready, Ahead
<1>7. QED
  BY <1>2, <1>3, <1>4, <1>5, <1>6 DEF SchedNext

\* The five queues are the dispatcher that ReadyQueue.h describes: the highest
\* priority first, first come first served among equals, preemption by a
\* strictly higher priority only.
THEOREM QueuesDispatch == SchedSpec => ImplementsDispatch
<1>1. SchedInit => D!DispatchInit
  <2> SUFFICES ASSUME SchedInit
               PROVE  D!DispatchInit
    OBVIOUS
  <2>1. rQ \in [Level -> Seq(Process)] /\ \A l \in Level : rQ[l] = <<>>
    BY DEF SchedInit
  <2>2. Ready = {}
    BY <2>1, HeldType DEF Ready
  <2>3. Ahead = {}
    BY <2>2 DEF Ahead
  <2>4. QED
    BY <2>2, <2>3 DEF SchedInit, D!DispatchInit
<1>2. QED
  BY <1>1, StepDispatches, SchedInvariance, PTL DEF SchedSpec, ImplementsDispatch, D!DispatchSpec
=============================================================================
