---------------------------- MODULE Paging_proofs ----------------------------
(* That sendbobspls loses no process and queues none twice, whatever the     *)
(* number of frames, disks and processes and whatever the order of commands, *)
(* and that no command but the return from a disk leaves the processor idle  *)
(* beside a ready process.                                                   *)
EXTENDS Paging, FiniteSetTheorems, TLAPS

-----------------------------------------------------------------------------
(* What push() and pop() do to the elements of a family of queues.           *)

\* The elements of a sequence; an empty one has none.
LEMMA RangeType ==
  ASSUME NEW S, NEW s \in Seq(S)
  PROVE  /\ Range(s) \subseteq S
         /\ Range(s) = {} <=> s = <<>>
<1>1. Range(s) \subseteq S
  BY DEF Range
<1>2. ASSUME s # <<>> PROVE s[1] \in Range(s)
  <2>1. 1 \in DOMAIN s
    BY <1>2
  <2> QED BY <2>1 DEF Range
<1>3. ASSUME s = <<>> PROVE Range(s) = {}
  BY <1>3 DEF Range
<1> QED BY <1>1, <1>2, <1>3

\* push() adds one element.
LEMMA RangeAppend ==
  ASSUME NEW S, NEW s \in Seq(S), NEW e \in S
  PROVE  Range(Append(s, e)) = Range(s) \cup {e}
<1> DEFINE a == Append(s, e)
<1>1. /\ DOMAIN a = 1..(Len(s) + 1)
      /\ DOMAIN s = 1..Len(s)
      /\ \A k \in DOMAIN s : a[k] = s[k]
      /\ a[Len(s) + 1] = e
      /\ Len(s) \in Nat
  OBVIOUS
<1> HIDE DEF a
<1>2. \A x \in Range(a) : x \in Range(s) \cup {e}
  BY <1>1 DEF Range
<1>3. \A x \in Range(s) : x \in Range(a)
  BY <1>1 DEF Range
<1>4. e \in Range(a)
  <2>1. Len(s) + 1 \in DOMAIN a
    BY <1>1
  <2> QED BY <1>1, <2>1 DEF Range
<1> QED BY <1>2, <1>3, <1>4 DEF a

\* A new element keeps a sequence without repetitions.
LEMMA InjectiveAppend ==
  ASSUME NEW S, NEW s \in Seq(S), NEW e \in S,
         IsInjective(s), e \notin Range(s)
  PROVE  IsInjective(Append(s, e))
<1> DEFINE a == Append(s, e)
<1>1. /\ DOMAIN a = 1..(Len(s) + 1)
      /\ DOMAIN s = 1..Len(s)
      /\ \A k \in DOMAIN s : a[k] = s[k]
      /\ a[Len(s) + 1] = e
      /\ Len(s) \in Nat
  OBVIOUS
<1> HIDE DEF a
<1>2. \A k \in DOMAIN s : s[k] # e
  BY DEF Range
<1>3. IsInjective(a)
  BY <1>1, <1>2 DEF IsInjective
<1> QED BY <1>3 DEF a

\* pop() takes the head away.
LEMMA RangeTail ==
  ASSUME NEW S, NEW s \in Seq(S), s # <<>>
  PROVE  /\ Head(s) \in Range(s)
         /\ Head(s) \in S
         /\ Tail(s) \in Seq(S)
         /\ Range(Tail(s)) \subseteq Range(s)
         /\ Range(s) = Range(Tail(s)) \cup {Head(s)}
<1> DEFINE t == Tail(s)
<1>1. /\ DOMAIN t = 1..(Len(s) - 1)
      /\ DOMAIN s = 1..Len(s)
      /\ \A k \in DOMAIN t : t[k] = s[k + 1]
      /\ Head(s) = s[1]
      /\ Len(s) \in Nat \ {0}
      /\ t \in Seq(S)
      /\ Head(s) \in S
  OBVIOUS
<1> HIDE DEF t
<1>2. Head(s) \in Range(s)
  <2>1. 1 \in DOMAIN s
    BY <1>1
  <2> QED BY <1>1, <2>1 DEF Range
<1>3. \A x \in Range(t) : x \in Range(s)
  <2> SUFFICES ASSUME NEW k \in DOMAIN t PROVE t[k] \in Range(s)
    BY DEF Range
  <2>1. k + 1 \in DOMAIN s
    BY <1>1
  <2> QED BY <1>1, <2>1 DEF Range
<1>4. \A x \in Range(s) : x \in Range(t) \cup {Head(s)}
  <2> SUFFICES ASSUME NEW k \in DOMAIN s, k # 1 PROVE s[k] \in Range(t)
    BY <1>1 DEF Range
  <2>1. k - 1 \in DOMAIN t /\ s[k] = t[k - 1]
    BY <1>1
  <2> QED BY <2>1 DEF Range
<1> QED BY <1>1, <1>2, <1>3, <1>4 DEF t

\* Without repetitions, the head is gone after pop().
LEMMA InjectiveTail ==
  ASSUME NEW S, NEW s \in Seq(S), s # <<>>, IsInjective(s)
  PROVE  /\ IsInjective(Tail(s))
         /\ Head(s) \notin Range(Tail(s))
<1> DEFINE t == Tail(s)
<1>1. /\ DOMAIN t = 1..(Len(s) - 1)
      /\ DOMAIN s = 1..Len(s)
      /\ \A k \in DOMAIN t : t[k] = s[k + 1]
      /\ Head(s) = s[1]
      /\ Len(s) \in Nat \ {0}
  OBVIOUS
<1> HIDE DEF t
<1>2. ASSUME NEW j \in DOMAIN t, NEW k \in DOMAIN t, t[j] = t[k]
      PROVE  j = k
  <2>1. j + 1 \in DOMAIN s /\ k + 1 \in DOMAIN s
    BY <1>1
  <2>2. s[j + 1] = s[k + 1]
    BY <1>1, <1>2
  <2>3. j + 1 = k + 1
    BY <2>1, <2>2 DEF IsInjective
  <2> QED BY <1>1, <2>3
<1>3. ASSUME NEW k \in DOMAIN t PROVE t[k] # Head(s)
  <2>1. k + 1 \in DOMAIN s /\ 1 \in DOMAIN s /\ k + 1 # 1
    BY <1>1
  <2> QED BY <1>1, <2>1 DEF IsInjective
<1>4. IsInjective(t)
  BY <1>2 DEF IsInjective
<1>5. Head(s) \notin Range(t)
  BY <1>3 DEF Range
<1> QED BY <1>4, <1>5 DEF t

\* R is Q after a push of e on, or a pop from, its queue k.
IsPush(Q, k, e, R) == R = [Q EXCEPT ![k] = Append(@, e)]
IsPop(Q, k, R) == Q[k] # <<>> /\ R = [Q EXCEPT ![k] = Tail(@)]

\* A push of e, which no queue of the family holds, and a pop.
LEMMA PushSeparate ==
  ASSUME NEW S, NEW K, NEW Q \in [K -> Seq(S)], NEW k \in K, NEW e \in S,
         Separate(Q), e \notin Held(Q),
         NEW R, IsPush(Q, k, e, R)
  PROVE  Separate(R) /\ Held(R) = Held(Q) \cup {e}
<1>1. /\ DOMAIN R = K /\ DOMAIN Q = K
      /\ R[k] = Append(Q[k], e)
      /\ \A a \in K \ {k} : R[a] = Q[a]
  BY DEF IsPush
<1>2. Range(R[k]) = Range(Q[k]) \cup {e}
  BY <1>1, RangeAppend
<1>3. IsInjective(R[k])
  BY <1>1, InjectiveAppend DEF Separate, Held
<1>4. \A a \in K : e \notin Range(Q[a])
  BY <1>1 DEF Held
<1>5. Separate(R)
  <2>1. \A a \in K : IsInjective(R[a])
    BY <1>1, <1>3 DEF Separate
  <2>2. \A a \in K \ {k} : Range(R[a]) \cap Range(R[k]) = {}
    <3> SUFFICES ASSUME NEW a \in K \ {k}
                 PROVE  Range(Q[a]) \cap (Range(Q[k]) \cup {e}) = {}
      BY <1>1, <1>2
    <3>1. Range(Q[a]) \cap Range(Q[k]) = {}
      BY <1>1 DEF Separate
    <3> QED BY <1>4, <3>1
  <2>3. \A a, b \in K \ {k} : a # b => Range(R[a]) \cap Range(R[b]) = {}
    BY <1>1 DEF Separate
  <2> QED BY <1>1, <2>1, <2>2, <2>3 DEF Separate
<1>6. Held(R) = Held(Q) \cup {e}
  BY <1>1, <1>2 DEF Held
<1> QED BY <1>5, <1>6

\* A pop takes one element from the family and keeps it separate.
LEMMA PopSeparate ==
  ASSUME NEW S, NEW K, NEW Q \in [K -> Seq(S)], NEW k \in K,
         Separate(Q), NEW R, IsPop(Q, k, R)
  PROVE  /\ Separate(R)
         /\ Held(R) = Held(Q) \ {Head(Q[k])}
         /\ Head(Q[k]) \in Held(Q)
         /\ Head(Q[k]) \in S
<1>1. /\ DOMAIN R = K /\ DOMAIN Q = K
      /\ Q[k] # <<>>
      /\ R[k] = Tail(Q[k])
      /\ \A a \in K \ {k} : R[a] = Q[a]
  BY DEF IsPop
<1>2. /\ Range(Q[k]) = Range(R[k]) \cup {Head(Q[k])}
      /\ Head(Q[k]) \notin Range(R[k])
      /\ Head(Q[k]) \in S
      /\ IsInjective(R[k])
  BY <1>1, RangeTail, InjectiveTail DEF Separate
<1>3. \A a \in K \ {k} : Head(Q[k]) \notin Range(Q[a])
  BY <1>1, <1>2 DEF Separate
<1>4. Separate(R)
  <2>1. \A a \in K : IsInjective(R[a]) /\ Range(R[a]) \subseteq Range(Q[a])
    BY <1>1, <1>2 DEF Separate
  <2>2. \A a, b \in K : a # b => Range(Q[a]) \cap Range(Q[b]) = {}
    BY <1>1 DEF Separate
  <2>3. \A a, b \in K : a # b => Range(R[a]) \cap Range(R[b]) = {}
    BY <2>1, <2>2
  <2> QED BY <1>1, <2>1, <2>3 DEF Separate
<1>5. Held(R) = Held(Q) \ {Head(Q[k])}
  BY <1>1, <1>2, <1>3 DEF Held
<1>6. Head(Q[k]) \in Held(Q)
  BY <1>1, <1>2 DEF Held
<1> QED BY <1>2, <1>4, <1>5, <1>6

\* What a family of queues over S holds is in S.
LEMMA HeldType ==
  ASSUME NEW S, NEW K, NEW Q \in [K -> Seq(S)]
  PROVE  /\ Held(Q) \subseteq S
         /\ Held(Q) = {} <=> \A a \in K : Q[a] = <<>>
         /\ \A a \in K : Range(Q[a]) \subseteq Held(Q)
<1>1. \A a \in K : Range(Q[a]) \subseteq S /\ (Range(Q[a]) = {} <=> Q[a] = <<>>)
  BY RangeType
<1> QED BY <1>1 DEF Held


-----------------------------------------------------------------------------
(* Types.                                                                    *)

\* leastUsedFrame() and the search before it find frames; what is written to
\* one is an entry.
LEMMA EntryWritten ==
  ASSUME TypeOK, NEW f \in Frame, NEW e \in PageEntry
  PROVE  [pageTable EXCEPT ![f] = e] \in [Frame -> PageEntry]
  BY DEF TypeOK

\* A process waits on one of the three levels.
LEMMA LevelIs ==
  ASSUME TypeOK, NEW p \in Pid
  PROVE  LevelOf(quantum[p]) \in 0..2
  BY DEF TypeOK, LevelOf

\* addToQueues() of a process pushes it on the queue of its level.
LEMMA AddPushes ==
  ASSUME NEW Q \in [0..2 -> Seq(Pid)], NEW p \in Pid, TypeOK
  PROVE  /\ AddToQueues(Q, p) \in [0..2 -> Seq(Pid)]
         /\ AddToQueues(Q, p)[LevelOf(quantum[p])] = Append(Q[LevelOf(quantum[p])], p)
         /\ \A l \in 0..2 : l # LevelOf(quantum[p]) => AddToQueues(Q, p)[l] = Q[l]
<1>1. p # NULL
  BY PagingAssumption DEF Pid
<1>2. AddToQueues(Q, p) = [Q EXCEPT ![LevelOf(quantum[p])] = Append(@, p)]
  BY <1>1 DEF AddToQueues
<1>3. PICK l \in 0..2 : l = LevelOf(quantum[p])
  BY LevelIs
<1>4. Append(Q[l], p) \in Seq(Pid)
  OBVIOUS
<1>5. QED
  BY <1>2, <1>3, <1>4

\* getNextProcess() takes the first of some queue, or finds them all empty.
LEMMA NextIs ==
  ASSUME TypeOK, GetNextProcess
  PROVE  \/ /\ \A l \in 0..2 : q[l] = <<>>
            /\ currentProcess' = NULL /\ q' = q
         \/ \E l \in 0..2 :
              /\ q[l] # <<>> /\ currentProcess' = Head(q[l]) /\ currentProcess' \in Pid
              /\ q' = [q EXCEPT ![l] = Tail(@)]
              /\ q' \in [0..2 -> Seq(Pid)]
<1>1. q \in [0..2 -> Seq(Pid)]
  BY DEF TypeOK
<1>2. ASSUME NEW l \in 0..2, q[l] # <<>>, currentProcess' = Head(q[l]),
             q' = [q EXCEPT ![l] = Tail(@)]
      PROVE  /\ currentProcess' \in Pid
             /\ q' \in [0..2 -> Seq(Pid)]
  <2>1. Head(q[l]) \in Pid /\ Tail(q[l]) \in Seq(Pid)
    BY <1>1, <1>2, RangeTail
  <2>2. QED
    BY <1>1, <1>2, <2>1
<1>3. QED
  BY <1>2 DEF GetNextProcess

\* The variables keep their types.
LEMMA TypeStep == TypeOK /\ [Next]_vars => TypeOK'
<1> SUFFICES ASSUME TypeOK, [Next]_vars
             PROVE  TypeOK'
  OBVIOUS
<1>1. /\ currentProcess \in Pid \cup {NULL}
      /\ q \in [0..2 -> Seq(Pid)]
      /\ hd \in [Disk -> Seq(Pid)]
      /\ quantum \in [Pid -> 0..3]
      /\ pageTable \in [Frame -> PageEntry]
      /\ timeSlice \in 0..MaxTime
      /\ processCounter \in 0..MaxPid
      /\ wild \in BOOLEAN
      /\ MaxTime \in Nat /\ MaxPid \in Nat
  BY PagingAssumption DEF TypeOK
<1>2. CASE CreateNewProcess
  <2>1. processCounter' \in Pid /\ processCounter' \in 0..MaxPid /\ timeSlice' \in 0..MaxTime
    BY <1>1, <1>2 DEF CreateNewProcess, Pid
  <2>2. Entry(0, processCounter') \in PageEntry
    BY <2>1, <1>1, PagingAssumption DEF Entry, PageEntry
  <2>3. pageTable' \in [Frame -> PageEntry]
    BY <1>2, <2>2, EntryWritten DEF CreateNewProcess
  <2>4. currentProcess' \in Pid \cup {NULL} /\ q' \in [0..2 -> Seq(Pid)]
    BY <1>1, <1>2, <2>1, AddPushes DEF CreateNewProcess
  <2>5. UNCHANGED <<hd, quantum, wild>>
    BY <1>2 DEF CreateNewProcess
  <2>6. QED
    BY <1>1, <2>1, <2>3, <2>4, <2>5 DEF TypeOK
<1>3. CASE PassQuantum
  <2>1. quantum' \in [Pid -> 0..3]
    BY <1>1, <1>3 DEF PassQuantum
  <2>2. UNCHANGED <<currentProcess, q, hd, pageTable, timeSlice, processCounter, wild>>
    BY <1>3 DEF PassQuantum, schedVars, memVars
  <2>3. QED
    BY <1>1, <2>1, <2>2 DEF TypeOK
<1>4. CASE Terminate
  <2>1. FreeEntry \in PageEntry
    BY <1>1 DEF FreeEntry, PageEntry
  <2>2. pageTable' \in [Frame -> PageEntry]
    BY <1>1, <1>4, <2>1 DEF Terminate, Clear
  <2>3. UNCHANGED <<currentProcess, q, hd, quantum, timeSlice, processCounter, wild>>
    BY <1>4 DEF Terminate, schedVars
  <2>4. QED
    BY <1>1, <2>2, <2>3 DEF TypeOK
<1>5. ASSUME NEW n \in RawIndex, SendToDisk(n)
      PROVE  TypeOK'
  <2>1. n \in Disk /\ currentProcess \in Pid /\ hd' = [hd EXCEPT ![n] = Append(@, currentProcess)]
    BY <1>1, <1>5 DEF SendToDisk
  <2>2. Append(hd[n], currentProcess) \in Seq(Pid)
    BY <1>1, <2>1
  <2>3. hd' \in [Disk -> Seq(Pid)]
    BY <1>1, <2>1, <2>2
  <2>4. currentProcess' \in Pid \cup {NULL} /\ q' \in [0..2 -> Seq(Pid)]
    BY <1>1, <1>5, NextIs DEF SendToDisk
  <2>5. UNCHANGED <<quantum, pageTable, timeSlice, processCounter, wild>>
    BY <1>5 DEF SendToDisk, memVars
  <2>6. QED
    BY <1>1, <2>3, <2>4, <2>5 DEF TypeOK
<1>6. ASSUME NEW n \in RawIndex, ReturnProcess(n)
      PROVE  TypeOK'
  <2>1. /\ n \in Disk /\ hd[n] # <<>> /\ hd' = [hd EXCEPT ![n] = Tail(@)]
        /\ q' = AddToQueues(q, Head(hd[n]))
    BY <1>6 DEF ReturnProcess
  <2>2. Head(hd[n]) \in Pid /\ Tail(hd[n]) \in Seq(Pid)
    BY <1>1, <2>1, RangeTail
  <2>3. hd' \in [Disk -> Seq(Pid)] /\ q' \in [0..2 -> Seq(Pid)]
    BY <1>1, <2>1, <2>2, AddPushes
  <2>4. UNCHANGED <<currentProcess, quantum, pageTable, timeSlice, processCounter, wild>>
    BY <1>6 DEF ReturnProcess, memVars
  <2>5. QED
    BY <1>1, <2>3, <2>4 DEF TypeOK
<1>7. ASSUME NEW pg \in Page, Access(pg)
      PROVE  TypeOK'
  <2>1. currentProcess \in Pid /\ AccessAddress(currentProcess, pg) /\ timeSlice < MaxTime
    BY <1>1, <1>7 DEF Access
  <2>2. timeSlice' \in 0..MaxTime
    BY <1>1, <2>1 DEF AccessAddress
  <2>3. Entry(pg, currentProcess) \in PageEntry
    BY <1>1, <2>1, <2>2 DEF Entry, PageEntry
  <2>4. ASSUME NEW f \in Frame
        PROVE  [pageTable[f] EXCEPT !.timeSlice = timeSlice'] \in PageEntry
    <3>1. PICK t \in 0..MaxTime : t = timeSlice'
      BY <2>2
    <3>2. pageTable[f] \in PageEntry
      BY <1>1
    <3>3. t \in -1..MaxTime
      BY <1>1, <3>1
    <3>4. [pageTable[f] EXCEPT !.timeSlice = t] \in PageEntry
      BY <3>2, <3>3 DEF PageEntry
    <3>5. QED
      BY <3>1, <3>4
  <2>5. pageTable' \in [Frame -> PageEntry]
    <3>1. ASSUME NEW f \in Frame, pageTable' = [pageTable EXCEPT ![f].timeSlice = timeSlice']
          PROVE  pageTable' \in [Frame -> PageEntry]
      BY <1>1, <3>1, <2>4
    <3>2. QED
      BY <2>1, <2>3, <3>1, EntryWritten DEF AccessAddress
  <2>6. UNCHANGED <<currentProcess, q, hd, quantum, processCounter, wild>>
    BY <1>7 DEF Access, schedVars
  <2>7. QED
    BY <1>1, <2>2, <2>5, <2>6 DEF TypeOK
<1>8. CASE GoWild
  BY <1>1, <1>8 DEF GoWild, schedVars, memVars, TypeOK
<1>9. CASE UNCHANGED vars
  BY <1>1, <1>9 DEF vars, schedVars, memVars, TypeOK
<1>10. QED
  BY <1>2, <1>3, <1>4, <1>5, <1>6, <1>7, <1>8, <1>9 DEF Next

\* sendbobspls starts with the right types.
LEMMA TypeInit == Init => TypeOK
<1> SUFFICES ASSUME Init PROVE TypeOK
  OBVIOUS
<1>1. FreeEntry \in PageEntry
  BY PagingAssumption DEF FreeEntry, PageEntry
<1>2. <<>> \in Seq(Pid)
  OBVIOUS
<1>3. MaxTime \in Nat /\ MaxPid \in Nat
  BY PagingAssumption
<1> QED BY <1>1, <1>2, <1>3 DEF Init, TypeOK

\* Every variable of sendbobspls keeps its type.
THEOREM PagingTyping == Spec => []TypeOK
  BY TypeInit, TypeStep, PTL DEF Spec

-----------------------------------------------------------------------------
(* Where the processes are.                                                  *)

\* Queue for the ready queues Q and the disks H.
Family(Q, H) == [x \in Place |-> IF x[1] = "q" THEN Q[x[2]] ELSE H[x[2]]]

Lev == 0..2
Readies == [Lev -> Seq(Pid)]
Disks == [Disk -> Seq(Pid)]

\* The ready queues and the disks are the queues of one family.
LEMMA FamilyIs ==
  ASSUME NEW Q \in Readies, NEW H \in Disks
  PROVE  /\ Family(Q, H) \in [Place -> Seq(Pid)]
         /\ \A l \in Lev : <<"q", l>> \in Place /\ Family(Q, H)[<<"q", l>>] = Q[l]
         /\ \A n \in Disk : <<"hd", n>> \in Place /\ Family(Q, H)[<<"hd", n>>] = H[n]
<1>1. \A l \in Lev : <<"q", l>> \in Place /\ <<"q", l>>[1] = "q" /\ <<"q", l>>[2] = l
  BY DEF Place, Lev
<1>2. \A n \in Disk : <<"hd", n>> \in Place /\ <<"hd", n>>[1] # "q" /\ <<"hd", n>>[2] = n
  BY DEF Place
<1>3. ASSUME NEW x \in Place
      PROVE  (x[1] = "q" /\ x[2] \in Lev) \/ (x[1] # "q" /\ x[2] \in Disk)
  BY DEF Place, Lev
<1>4. Family(Q, H) \in [Place -> Seq(Pid)]
  BY <1>3 DEF Family, Readies, Disks
<1>5. QED
  BY <1>1, <1>2, <1>4 DEF Family

\* A push on, or a pop from, one ready queue or disk is one of the family.
LEMMA ReadyChanges ==
  ASSUME NEW Q \in Readies, NEW H \in Disks, NEW l \in Lev, NEW e, NEW R
  PROVE  /\ IsPush(Q, l, e, R) => IsPush(Family(Q, H), <<"q", l>>, e, Family(R, H))
         /\ IsPop(Q, l, R) => IsPop(Family(Q, H), <<"q", l>>, Family(R, H))
<1>1. ASSUME NEW x \in Place
      PROVE  /\ (x[1] = "q" /\ x[2] \in Lev) \/ (x[1] # "q" /\ x[2] \in Disk)
             /\ x = <<"q", l>> <=> x[1] = "q" /\ x[2] = l
  BY DEF Place, Lev
<1>2. /\ <<"q", l>> \in Place /\ Family(Q, H)[<<"q", l>>] = Q[l]
      /\ Family(Q, H) \in [Place -> Seq(Pid)]
  BY FamilyIs
<1>3. ASSUME NEW s, R = [Q EXCEPT ![l] = s]
      PROVE  Family(R, H) = [Family(Q, H) EXCEPT ![<<"q", l>>] = s]
  BY <1>1, <1>3 DEF Family, Readies, Disks
<1>4. QED
  BY <1>2, <1>3 DEF IsPush, IsPop

\* The same of a disk.
LEMMA DiskChanges ==
  ASSUME NEW Q \in Readies, NEW H \in Disks, NEW n \in Disk, NEW e, NEW R
  PROVE  /\ IsPush(H, n, e, R) => IsPush(Family(Q, H), <<"hd", n>>, e, Family(Q, R))
         /\ IsPop(H, n, R) => IsPop(Family(Q, H), <<"hd", n>>, Family(Q, R))
<1>1. ASSUME NEW x \in Place
      PROVE  /\ (x[1] = "q" /\ x[2] \in Lev) \/ (x[1] # "q" /\ x[2] \in Disk)
             /\ x = <<"hd", n>> <=> x[1] # "q" /\ x[2] = n
  BY DEF Place, Lev
<1>2. /\ <<"hd", n>> \in Place /\ Family(Q, H)[<<"hd", n>>] = H[n]
      /\ Family(Q, H) \in [Place -> Seq(Pid)]
  BY FamilyIs
<1>3. ASSUME NEW s, R = [H EXCEPT ![n] = s]
      PROVE  Family(Q, R) = [Family(Q, H) EXCEPT ![<<"hd", n>>] = s]
  BY <1>1, <1>3 DEF Family, Readies, Disks
<1>4. QED
  BY <1>2, <1>3 DEF IsPush, IsPop

\* OnePlace of the ready queues Q, the disks H, the processor c and the count n
\* of processes: where they are, and on which level the ready ones wait.
Placed(Q, H, c, n) ==
  /\ Separate(Family(Q, H))
  /\ c \notin Held(Family(Q, H))
  /\ (Held(Family(Q, H)) \cup {c}) \ {NULL} = 1..n

Levelled(Q, k) == \A l \in Lev : \A p \in Range(Q[l]) : LevelOf(k[p]) = l

\* OnePlace in these terms, before a step and after it.
LEMMA OnePlaceIs ==
  /\ OnePlace <=> Placed(q, hd, currentProcess, processCounter) /\ Levelled(q, quantum)
  /\ OnePlace' <=> Placed(q', hd', currentProcess', processCounter') /\ Levelled(q', quantum')
  BY DEF OnePlace, Queue, Family, Placed, Levelled, Lev

\* What a push on, and a pop from, one ready queue or disk does to the processes
\* that wait.
LEMMA ReadyPush ==
  ASSUME NEW Q \in Readies, NEW H \in Disks, NEW l \in Lev, NEW R,
         Separate(Family(Q, H)), NEW e \in Pid, e \notin Held(Family(Q, H)), IsPush(Q, l, e, R)
  PROVE  Separate(Family(R, H)) /\ Held(Family(R, H)) = Held(Family(Q, H)) \cup {e}
<1>1. /\ Family(Q, H) \in [Place -> Seq(Pid)]
      /\ <<"q", l>> \in Place /\ Family(Q, H)[<<"q", l>>] = Q[l]
  BY FamilyIs
<1>2. IsPush(Family(Q, H), <<"q", l>>, e, Family(R, H))
  BY ReadyChanges
<1>3. QED
  BY <1>1, <1>2, PushSeparate

\* A process sent to a disk.
LEMMA DiskPush ==
  ASSUME NEW Q \in Readies, NEW H \in Disks, NEW n \in Disk, NEW R,
         Separate(Family(Q, H)), NEW e \in Pid, e \notin Held(Family(Q, H)), IsPush(H, n, e, R)
  PROVE  Separate(Family(Q, R)) /\ Held(Family(Q, R)) = Held(Family(Q, H)) \cup {e}
<1>1. /\ Family(Q, H) \in [Place -> Seq(Pid)]
      /\ <<"hd", n>> \in Place /\ Family(Q, H)[<<"hd", n>>] = H[n]
  BY FamilyIs
<1>2. IsPush(Family(Q, H), <<"hd", n>>, e, Family(Q, R))
  BY DiskChanges
<1>3. QED
  BY <1>1, <1>2, PushSeparate

\* A process taken from a ready queue.
LEMMA ReadyPop ==
  ASSUME NEW Q \in Readies, NEW H \in Disks, NEW l \in Lev, NEW R,
         Separate(Family(Q, H)), IsPop(Q, l, R)
  PROVE  /\ Separate(Family(R, H))
         /\ Held(Family(R, H)) = Held(Family(Q, H)) \ {Head(Q[l])}
         /\ Head(Q[l]) \in Held(Family(Q, H)) /\ Head(Q[l]) \in Pid
<1>1. /\ Family(Q, H) \in [Place -> Seq(Pid)]
      /\ <<"q", l>> \in Place /\ Family(Q, H)[<<"q", l>>] = Q[l]
  BY FamilyIs
<1>2. IsPop(Family(Q, H), <<"q", l>>, Family(R, H))
  BY ReadyChanges
<1>3. QED
  BY <1>1, <1>2, PopSeparate

\* A process taken from a disk.
LEMMA DiskPop ==
  ASSUME NEW Q \in Readies, NEW H \in Disks, NEW n \in Disk, NEW R,
         Separate(Family(Q, H)), IsPop(H, n, R)
  PROVE  /\ Separate(Family(Q, R))
         /\ Held(Family(Q, R)) = Held(Family(Q, H)) \ {Head(H[n])}
         /\ Head(H[n]) \in Held(Family(Q, H)) /\ Head(H[n]) \in Pid
<1>1. /\ Family(Q, H) \in [Place -> Seq(Pid)]
      /\ <<"hd", n>> \in Place /\ Family(Q, H)[<<"hd", n>>] = H[n]
  BY FamilyIs
<1>2. IsPop(Family(Q, H), <<"hd", n>>, Family(Q, R))
  BY DiskChanges
<1>3. QED
  BY <1>1, <1>2, PopSeparate

\* A process pushed on the queue of its level, and a process taken from a queue,
\* leave the others on their levels.
LEMMA PushLevels ==
  ASSUME NEW Q \in Readies, NEW k, NEW e \in Pid, NEW l \in Lev,
         Levelled(Q, k), LevelOf(k[e]) = l, NEW R, IsPush(Q, l, e, R)
  PROVE  Levelled(R, k)
<1>1. R[l] = Append(Q[l], e) /\ \A m \in Lev : m # l => R[m] = Q[m]
  BY DEF IsPush, Readies
<1>2. Range(R[l]) = Range(Q[l]) \cup {e}
  BY <1>1, RangeAppend DEF Readies
<1>3. QED
  BY <1>1, <1>2 DEF Levelled

\* A process taken from a queue leaves the others on their levels.
LEMMA PopLevels ==
  ASSUME NEW Q \in Readies, NEW k, NEW l \in Lev,
         Levelled(Q, k), NEW R, IsPop(Q, l, R)
  PROVE  Levelled(R, k)
<1>1. Q[l] # <<>> /\ R[l] = Tail(Q[l]) /\ \A m \in Lev : m # l => R[m] = Q[m]
  BY DEF IsPop, Readies
<1>2. Range(R[l]) \subseteq Range(Q[l])
  BY <1>1, RangeTail DEF Readies
<1>3. QED
  BY <1>1, <1>2 DEF Levelled

\* Before the first command nobody waits anywhere.
LEMMA PlaceInit == Init => OnePlace
<1> SUFFICES ASSUME Init PROVE OnePlace
  OBVIOUS
<1>1. TypeOK
  BY TypeInit
<1>2. q \in Readies /\ hd \in Disks
  BY <1>1 DEF TypeOK, Readies, Lev, Disks
<1>3. (\A l \in 0..2 : q[l] = <<>>) /\ (\A n \in Disk : hd[n] = <<>>)
  BY DEF Init
<1>4. ASSUME NEW x \in Place PROVE Family(q, hd)[x] = <<>>
  <2>1. (x[1] = "q" /\ x[2] \in 0..2) \/ (x[1] # "q" /\ x[2] \in Disk)
    BY DEF Place
  <2>2. QED
    BY <1>3, <2>1 DEF Family
<1>5. Family(q, hd) \in [Place -> Seq(Pid)]
  BY <1>2, FamilyIs
<1>6. Held(Family(q, hd)) = {}
  BY <1>4, <1>5, HeldType
<1>7. Separate(Family(q, hd))
  BY <1>4, <1>5 DEF Separate, Range, IsInjective
<1>8. Placed(q, hd, currentProcess, processCounter)
  BY <1>6, <1>7 DEF Placed, Init
<1>9. Levelled(q, quantum)
  BY <1>3 DEF Levelled, Lev, Range
<1>10. QED
  BY <1>8, <1>9, OnePlaceIs

\* addToQueues() and getNextProcess() as a push and a pop.
LEMMA AddIs ==
  ASSUME TypeOK, NEW p \in Pid
  PROVE  /\ LevelOf(quantum[p]) \in Lev
         /\ IsPush(q, LevelOf(quantum[p]), p, AddToQueues(q, p))
<1>1. p # NULL
  BY PagingAssumption DEF Pid
<1>2. QED
  BY <1>1, LevelIs DEF AddToQueues, IsPush, Lev

\* getNextProcess() pops a queue, or finds them all empty.
LEMMA GetIs ==
  ASSUME GetNextProcess
  PROVE  \/ currentProcess' = NULL /\ q' = q
         \/ \E l \in Lev : IsPop(q, l, q') /\ currentProcess' = Head(q[l])
  BY DEF GetNextProcess, IsPop, Lev

\* Where the processes are, for the proofs about the commands.
LEMMA Waiting ==
  ASSUME TypeOK, OnePlace
  PROVE  /\ q \in Readies /\ hd \in Disks
         /\ Separate(Family(q, hd)) /\ Held(Family(q, hd)) \subseteq Pid
         /\ currentProcess \notin Held(Family(q, hd))
         /\ (Held(Family(q, hd)) \cup {currentProcess}) \ {NULL} = 1..processCounter
         /\ Levelled(q, quantum)
         /\ NULL \notin Pid
<1>1. q \in Readies /\ hd \in Disks
  BY DEF TypeOK, Readies, Disks, Lev
<1>2. Family(q, hd) \in [Place -> Seq(Pid)]
  BY <1>1, FamilyIs
<1>3. Held(Family(q, hd)) \subseteq Pid
  BY <1>2, HeldType
<1>4. Placed(q, hd, currentProcess, processCounter) /\ Levelled(q, quantum)
  BY OnePlaceIs
<1>5. NULL \notin Pid
  BY PagingAssumption DEF Pid
<1>6. QED
  BY <1>1, <1>3, <1>4, <1>5 DEF Placed

\* Every command leaves every process in one place, and no command loses one.
LEMMA PlaceStep == TypeOK /\ OnePlace /\ [Next]_vars => OnePlace'
<1> SUFFICES ASSUME TypeOK, OnePlace, [Next]_vars
             PROVE  OnePlace'
  OBVIOUS
<1> DEFINE F == Family(q, hd)
<1>1. /\ q \in Readies /\ hd \in Disks
      /\ Separate(F) /\ Held(F) \subseteq Pid
      /\ currentProcess \notin Held(F)
      /\ (Held(F) \cup {currentProcess}) \ {NULL} = 1..processCounter
      /\ Levelled(q, quantum)
      /\ NULL \notin Pid
  BY Waiting
<1>2. processCounter \in Nat /\ currentProcess \in Pid \cup {NULL} /\ MaxPid \in Nat
  BY PagingAssumption DEF TypeOK
<1>3. ASSUME Placed(q', hd', currentProcess', processCounter'), Levelled(q', quantum')
      PROVE  OnePlace'
  BY <1>3, OnePlaceIs
<1>4. CASE CreateNewProcess
  <2> DEFINE p == processCounter + 1
  <2>1. processCounter' = p /\ hd' = hd /\ quantum' = quantum
    BY <1>4 DEF CreateNewProcess
  <2>2. p \in Pid /\ p \notin 1..processCounter /\ 1..p = (1..processCounter) \cup {p}
    BY <1>2, <1>4 DEF CreateNewProcess, Pid
  <2> HIDE DEF p
  <2>3. p \notin Held(F) /\ p # currentProcess /\ p # NULL
    BY <1>1, <2>2
  <2>4. CASE currentProcess = NULL
    <3>1. q' = q /\ currentProcess' = p
      BY <1>4, <2>1, <2>4 DEF CreateNewProcess
    <3>2. (Held(F) \cup {p}) \ {NULL} = 1..p
      BY <1>1, <2>2, <2>3, <2>4
    <3>3. QED
      BY <1>1, <1>3, <2>1, <2>3, <3>1, <3>2 DEF Placed
  <2>5. CASE currentProcess # NULL
    <3>1. q' = AddToQueues(q, p) /\ currentProcess' = currentProcess
      BY <1>4, <2>1, <2>5 DEF CreateNewProcess
    <3>2. LevelOf(quantum[p]) \in Lev /\ IsPush(q, LevelOf(quantum[p]), p, q')
      BY <2>2, <3>1, AddIs
    <3>3. Separate(Family(q', hd)) /\ Held(Family(q', hd)) = Held(F) \cup {p}
      BY <1>1, <2>2, <2>3, <3>2, ReadyPush
    <3>4. Levelled(q', quantum)
      BY <1>1, <2>2, <3>2, PushLevels
    <3>5. (Held(F) \cup {p} \cup {currentProcess}) \ {NULL} = 1..p
      BY <1>1, <2>2, <2>3, <2>5
    <3>6. currentProcess \notin Held(F) \cup {p}
      BY <1>1, <2>3
    <3>7. QED
      BY <1>3, <2>1, <3>1, <3>3, <3>4, <3>5, <3>6 DEF Placed
  <2>6. QED
    BY <2>4, <2>5
<1>5. CASE PassQuantum
  <2>1. /\ q' = q /\ hd' = hd /\ currentProcess' = currentProcess
        /\ processCounter' = processCounter
        /\ \A p \in Pid : p # currentProcess => quantum'[p] = quantum[p]
    BY <1>5 DEF PassQuantum, schedVars, TypeOK
  <2>2. \A l \in Lev : Range(q[l]) \subseteq Held(F)
    <3>1. /\ F \in [Place -> Seq(Pid)]
          /\ \A l \in Lev : <<"q", l>> \in Place /\ F[<<"q", l>>] = q[l]
      BY <1>1, FamilyIs
    <3> HIDE DEF F
    <3>2. \A x \in Place : Range(F[x]) \subseteq Held(F)
      BY <3>1, HeldType
    <3>3. QED
      BY <3>1, <3>2
  <2>3. Levelled(q, quantum')
    BY <1>1, <2>1, <2>2 DEF Levelled
  <2>4. QED
    BY <1>1, <1>3, <2>1, <2>3 DEF Placed
<1>6. ASSUME NEW n \in RawIndex, SendToDisk(n)
      PROVE  OnePlace'
  <2>1. /\ n \in Disk /\ currentProcess \in Pid /\ currentProcess # NULL
        /\ IsPush(hd, n, currentProcess, hd')
        /\ processCounter' = processCounter /\ quantum' = quantum
    BY <1>2, <1>6 DEF SendToDisk, IsPush
  <2> DEFINE G == Family(q, hd')
  <2>2. hd' \in Disks
    <3>1. PICK s \in Seq(Pid) : s = Append(hd[n], currentProcess)
      <4>1. hd[n] \in Seq(Pid)
        BY <1>1, <2>1 DEF Disks
      <4>2. Append(hd[n], currentProcess) \in Seq(Pid)
        BY <2>1, <4>1
      <4>3. QED
        BY <4>2
    <3>2. hd' = [hd EXCEPT ![n] = s]
      BY <2>1, <3>1 DEF IsPush
    <3>3. QED
      BY <1>1, <3>2 DEF Disks
  <2>3. Separate(G) /\ Held(G) = Held(F) \cup {currentProcess}
    BY <1>1, <2>1, DiskPush
  <2>4. Held(G) \subseteq Pid /\ Held(G) = 1..processCounter
    BY <1>1, <2>1, <2>3
  <2> HIDE DEF G
  <2>5. CASE currentProcess' = NULL /\ q' = q
    <3>1. Family(q', hd') = G
      BY <2>5 DEF G
    <3>2. QED
      BY <1>1, <1>3, <2>1, <2>3, <2>4, <2>5, <3>1 DEF Placed
  <2>6. ASSUME NEW l \in Lev, IsPop(q, l, q'), currentProcess' = Head(q[l])
        PROVE  OnePlace'
    <3>1. /\ Separate(Family(q', hd'))
          /\ Held(Family(q', hd')) = Held(G) \ {currentProcess'}
          /\ currentProcess' \in Held(G)
      BY <1>1, <2>2, <2>3, <2>6, ReadyPop DEF G
    <3>2. Levelled(q', quantum)
      BY <1>1, <2>6, PopLevels
    <3>3. QED
      BY <1>1, <1>3, <2>1, <2>4, <3>1, <3>2 DEF Placed
  <2>7. GetNextProcess
    BY <1>6 DEF SendToDisk
  <2>8. QED
    BY <2>5, <2>6, <2>7, GetIs
<1>7. ASSUME NEW n \in RawIndex, ReturnProcess(n)
      PROVE  OnePlace'
  <2> DEFINE p == Head(hd[n])
             G == Family(q, hd')
  <2>1. /\ n \in Disk /\ IsPop(hd, n, hd') /\ q' = AddToQueues(q, p)
        /\ currentProcess' = currentProcess
        /\ processCounter' = processCounter /\ quantum' = quantum
    BY <1>7 DEF ReturnProcess, IsPop
  <2>2. /\ Separate(G) /\ Held(G) = Held(F) \ {p} /\ p \in Held(F) /\ p \in Pid
    BY <1>1, <2>1, DiskPop
  <2>3. hd' \in Disks
    <3>1. Tail(hd[n]) \in Seq(Pid)
      BY <1>1, <2>1, RangeTail DEF IsPop, Disks
    <3>2. hd' = [hd EXCEPT ![n] = Tail(hd[n])]
      BY <2>1 DEF IsPop
    <3>3. QED
      BY <1>1, <3>1, <3>2 DEF Disks
  <2> HIDE DEF p
  <2>4. LevelOf(quantum[p]) \in Lev /\ IsPush(q, LevelOf(quantum[p]), p, q')
    BY <2>1, <2>2, AddIs
  <2>5. Separate(Family(q', hd')) /\ Held(Family(q', hd')) = Held(G) \cup {p}
    BY <1>1, <2>2, <2>3, <2>4, ReadyPush
  <2> HIDE DEF G
  <2>6. Held(Family(q', hd')) = Held(F)
    BY <2>2, <2>5
  <2>7. Levelled(q', quantum)
    BY <1>1, <2>2, <2>4, PushLevels
  <2>8. QED
    BY <1>1, <1>3, <2>1, <2>5, <2>6, <2>7 DEF Placed
<1>8. CASE UNCHANGED <<q, hd, currentProcess, processCounter, quantum>>
  BY <1>1, <1>3, <1>8 DEF Placed
<1>9. CASE Terminate \/ GoWild \/ UNCHANGED vars \/ \E pg \in Page : Access(pg)
  BY <1>8, <1>9 DEF Terminate, GoWild, Access, vars, schedVars, memVars
<1>10. QED
  BY <1>4, <1>5, <1>6, <1>7, <1>9 DEF Next

\* No process of sendbobspls is lost, doubled or queued on a level that is not
\* that of its quanta.
THEOREM ProcessesArePlaced == Spec => []OnePlace
<1>1. Init => TypeOK /\ OnePlace
  BY TypeInit, PlaceInit
<1>2. (TypeOK /\ OnePlace) /\ [Next]_vars => (TypeOK /\ OnePlace)'
  BY TypeStep, PlaceStep
<1>3. QED
  BY <1>1, <1>2, PTL DEF Spec

-----------------------------------------------------------------------------
(* When the processor is idle beside a ready process.                        *)

\* Nobody is ready when every ready queue is empty.
LEMMA ReadyIs ==
  ASSUME TypeOK
  PROVE  Ready = {} <=> \A l \in 0..2 : q[l] = <<>>
<1>1. \A l \in 0..2 : Range(q[l]) = {} <=> q[l] = <<>>
  BY RangeType DEF TypeOK
<1>2. QED
  BY <1>1 DEF Ready

\* What NeglectedOnlyByReturn says of a step.
NeglectStep ==
  /\ ~Neglected /\ Neglected' =>
       currentProcess = NULL /\ \E n \in Disk : hd'[n] = Tail(hd[n]) /\ hd[n] # <<>>
  /\ Neglected /\ ~Neglected' => processCounter' = processCounter + 1

\* Every command explains why the processor falls idle or busy beside a ready
\* process.
LEMMA StepNeglects == TypeOK /\ TypeOK' /\ [Next]_vars => [NeglectStep]_vars
<1> SUFFICES ASSUME TypeOK, TypeOK', Next
             PROVE  NeglectStep
  OBVIOUS
<1>1. CASE UNCHANGED <<currentProcess, q>>
  BY <1>1 DEF NeglectStep, Neglected, Ready
<1>2. CASE CreateNewProcess
  <2>1. processCounter' = processCounter + 1
    BY <1>2 DEF CreateNewProcess
  <2>2. processCounter' \in Pid
    BY <1>2, <2>1, PagingAssumption DEF CreateNewProcess, TypeOK, Pid
  <2>3. currentProcess' # NULL
    BY <1>2, <2>2, PagingAssumption DEF CreateNewProcess, Pid
  <2>4. QED
    BY <2>1, <2>3 DEF NeglectStep, Neglected
<1>3. ASSUME NEW n \in RawIndex, SendToDisk(n)
      PROVE  NeglectStep
  <2>1. currentProcess # NULL /\ GetNextProcess
    BY <1>3 DEF SendToDisk
  <2>2. currentProcess' = NULL => Ready' = {}
    <3>1. CASE currentProcess' = NULL /\ (\A l \in 0..2 : q[l] = <<>>) /\ q' = q
      BY <3>1, ReadyIs DEF Ready
    <3>2. CASE currentProcess' \in Pid
      BY <3>2, PagingAssumption DEF Pid
    <3>3. QED
      BY <2>1, <3>1, <3>2, NextIs
  <2>3. QED
    BY <2>1, <2>2 DEF NeglectStep, Neglected
<1>4. ASSUME NEW n \in RawIndex, ReturnProcess(n)
      PROVE  NeglectStep
  <2>1. /\ n \in Disk /\ hd[n] # <<>> /\ hd'[n] = Tail(hd[n])
        /\ currentProcess' = currentProcess
    BY <1>4 DEF ReturnProcess, TypeOK
  <2>2. Neglected => Neglected'
    <3>1. SUFFICES ASSUME Neglected PROVE Ready' # {}
      BY <2>1 DEF Neglected
    <3>2. PICK l \in 0..2 : q[l] # <<>>
      BY <3>1, ReadyIs DEF Neglected
    <3>3. PICK p \in Pid : q' = AddToQueues(q, p)
      <4>1. hd[n] \in Seq(Pid)
        BY <2>1 DEF TypeOK
      <4>2. Head(hd[n]) \in Pid
        BY <2>1, <4>1, RangeTail
      <4>3. QED
        BY <1>4, <4>2 DEF ReturnProcess
    <3>4. q'[l] = q[l] \/ q'[l] = Append(q[l], p)
      <4>1. q \in [0..2 -> Seq(Pid)]
        BY DEF TypeOK
      <4>2. QED
        BY <3>3, <4>1, AddPushes
    <3>5. q[l] \in Seq(Pid)
      BY DEF TypeOK
    <3>6. Append(q[l], p) # <<>>
      BY <3>5
    <3>7. q'[l] # <<>>
      BY <3>2, <3>4, <3>6
    <3>8. \A m \in 0..2 : Range(q'[m]) = {} <=> q'[m] = <<>>
      BY RangeType DEF TypeOK
    <3>9. QED
      BY <3>7, <3>8 DEF Ready
  <2>3. Neglected' => currentProcess = NULL
    BY <2>1 DEF Neglected
  <2>4. QED
    BY <2>1, <2>2, <2>3 DEF NeglectStep
<1>5. QED
  BY <1>1, <1>2, <1>3, <1>4 DEF Next, PassQuantum, Terminate, Access, GoWild, schedVars

\* The processor of sendbobspls falls idle beside a ready process only when one
\* returns from a disk to an idle processor, and is busy again only with the
\* next new process.
THEOREM IdlingIsExplained == Spec => NeglectedOnlyByReturn
<1>1. TypeOK /\ TypeOK' /\ [Next]_vars => [NeglectStep]_vars
  BY StepNeglects
<1>2. Spec => [][NeglectStep]_vars
  BY <1>1, PagingTyping, PTL DEF Spec
<1>3. [NeglectStep]_vars <=>
        [ /\ ~Neglected /\ Neglected' =>
               currentProcess = NULL /\ \E n \in Disk : hd'[n] = Tail(hd[n]) /\ hd[n] # <<>>
          /\ Neglected /\ ~Neglected' => processCounter' = processCounter + 1 ]_vars
  BY DEF NeglectStep
<1>4. QED
  BY <1>2, <1>3, PTL DEF NeglectedOnlyByReturn

-----------------------------------------------------------------------------
(* The page table and least recently used.                                   *)

\* Used, PageAt, Resident and StampedBefore of the page table T.
UsedIn(T) == {f \in Frame : T[f].timeSlice # -1}
PageIn(T, f) == [pid |-> T[f].pid, page |-> T[f].page]
PagesIn(T) == {PageIn(T, f) : f \in UsedIn(T)}
OrderIn(T) ==
  {<<PageIn(T, a[1]), PageIn(T, a[2])>> :
     a \in {b \in UsedIn(T) \X UsedIn(T) : T[b[1]].timeSlice < T[b[2]].timeSlice}}

\* The page table of the program in these terms, before a step and after it.
LEMMA TableIs ==
  /\ Used = UsedIn(pageTable) /\ Resident = PagesIn(pageTable)
  /\ StampedBefore = OrderIn(pageTable)
  /\ Used' = UsedIn(pageTable') /\ Resident' = PagesIn(pageTable')
  /\ StampedBefore' = OrderIn(pageTable')
  BY DEF Used, PageAt, Resident, StampedBefore, UsedIn, PageIn, PagesIn, OrderIn

\* The frames at time t, with n processes: a free one is blank, the used ones
\* have stamps of the past, no two the same, and no two hold the same page.
SoundAt(T, n, t) ==
  /\ T \in [Frame -> PageEntry]
  /\ \A f \in Frame : T[f].timeSlice = -1 => T[f] = FreeEntry
  /\ \A f \in UsedIn(T) :
       T[f].timeSlice \in 1..t /\ T[f].pid \in 1..n /\ T[f].page \in Page
  /\ \A f, g \in UsedIn(T) :
       f # g => T[f].timeSlice # T[g].timeSlice /\ PageIn(T, f) # PageIn(T, g)

FramesAreSound == SoundAt(pageTable, processCounter, timeSlice)

\* Two pages are in order when their stamps are, and no others are.
LEMMA OrderMember ==
  ASSUME NEW T
  PROVE  /\ \A f, g \in UsedIn(T) : T[f].timeSlice < T[g].timeSlice
                => <<PageIn(T, f), PageIn(T, g)>> \in OrderIn(T)
         /\ \A z \in OrderIn(T) : \E f, g \in UsedIn(T) :
               T[f].timeSlice < T[g].timeSlice /\ z = <<PageIn(T, f), PageIn(T, g)>>
<1>1. ASSUME NEW f \in UsedIn(T), NEW g \in UsedIn(T), T[f].timeSlice < T[g].timeSlice
      PROVE  <<PageIn(T, f), PageIn(T, g)>> \in OrderIn(T)
  <2>1. /\ <<f, g>> \in UsedIn(T) \X UsedIn(T)
        /\ <<f, g>>[1] = f /\ <<f, g>>[2] = g
    OBVIOUS
  <2>2. QED
    BY <1>1, <2>1 DEF OrderIn
<1>2. ASSUME NEW z \in OrderIn(T)
      PROVE  \E f, g \in UsedIn(T) :
               T[f].timeSlice < T[g].timeSlice /\ z = <<PageIn(T, f), PageIn(T, g)>>
  <2>1. PICK a \in UsedIn(T) \X UsedIn(T) :
          /\ T[a[1]].timeSlice < T[a[2]].timeSlice
          /\ z = <<PageIn(T, a[1]), PageIn(T, a[2])>>
    BY DEF OrderIn
  <2>2. a[1] \in UsedIn(T) /\ a[2] \in UsedIn(T)
    OBVIOUS
  <2>3. QED
    BY <2>1, <2>2
<1>3. QED
  BY <1>1, <1>2

\* The table U is T with the page pg of the process p in the frame f, stamped t.
Stamps(T, f, pg, p, t, U) ==
  U = [T EXCEPT ![f] = [page |-> pg, pid |-> p, timeSlice |-> t]]

\* The other pages of T.
Others(T, f) == {PageIn(T, g) : g \in UsedIn(T) \ {f}}

\* U has the pages K of T, and x as the youngest.
Renews(T, K, x, U) ==
  /\ PagesIn(U) = K \cup {x}
  /\ OrderIn(U) = {a \in OrderIn(T) : a[1] \in K /\ a[2] \in K} \cup {<<y, x>> : y \in K}

\* U is T without the pages X.
Loses(T, X, U) ==
  /\ PagesIn(U) = PagesIn(T) \ X
  /\ OrderIn(U) = {a \in OrderIn(T) : a[1] \notin X /\ a[2] \notin X}

\* The page that is stamped is the youngest of all, and nothing else changes.
LEMMA StampIsYoungest ==
  ASSUME NEW T, NEW n \in Nat, NEW t \in Nat, SoundAt(T, n, t),
         NEW f \in Frame, NEW pg, NEW p, NEW U, Stamps(T, f, pg, p, t + 1, U),
         NEW x, x = [pid |-> p, page |-> pg]
  PROVE  Renews(T, Others(T, f), x, U)
<1> DEFINE K == Others(T, f)
<1>1. /\ U[f].timeSlice = t + 1 /\ U[f].pid = p /\ U[f].page = pg
      /\ \A g \in Frame : g # f => U[g] = T[g]
  BY DEF SoundAt, Stamps
<1>2. /\ UsedIn(U) = UsedIn(T) \cup {f}
      /\ PageIn(U, f) = x
      /\ \A g \in UsedIn(T) \ {f} : PageIn(U, g) = PageIn(T, g) /\ PageIn(T, g) \in K
  BY <1>1 DEF UsedIn, PageIn, Others
<1>3. PagesIn(U) = K \cup {x}
  BY <1>2 DEF PagesIn, Others
<1>4. ASSUME NEW z \in OrderIn(U)
      PROVE  \/ z \in OrderIn(T) /\ z[1] \in K /\ z[2] \in K
             \/ \E y \in K : z = <<y, x>>
  <2>1. PICK g \in UsedIn(U), h \in UsedIn(U) :
          U[g].timeSlice < U[h].timeSlice /\ z = <<PageIn(U, g), PageIn(U, h)>>
    BY OrderMember
  <2>2. g # f
    <3>1. \A k \in UsedIn(T) : T[k].timeSlice \in 1..t
      BY DEF SoundAt
    <3>2. SUFFICES ASSUME g = f PROVE FALSE
      OBVIOUS
    <3>3. CASE h = f
      BY <1>1, <2>1, <3>2, <3>3
    <3>4. CASE h # f
      <4>1. h \in UsedIn(T) /\ h \in Frame
        BY <1>2, <3>4 DEF UsedIn
      <4>2. U[h].timeSlice \in 1..t
        BY <1>1, <3>1, <3>4, <4>1
      <4>3. QED
        BY <1>1, <2>1, <3>2, <4>2
    <3>5. QED
      BY <3>3, <3>4
  <2>3. g \in UsedIn(T) \ {f} /\ PageIn(U, g) = PageIn(T, g) /\ PageIn(T, g) \in K
    BY <1>2, <2>2
  <2>4. CASE h = f
    BY <1>2, <2>1, <2>3, <2>4
  <2>5. CASE h # f
    <3>1. h \in UsedIn(T) \ {f} /\ PageIn(U, h) = PageIn(T, h) /\ PageIn(T, h) \in K
      BY <1>2, <2>5
    <3>2. T[g].timeSlice < T[h].timeSlice
      BY <1>1, <2>1, <2>3, <3>1 DEF UsedIn
    <3>3. <<PageIn(T, g), PageIn(T, h)>> \in OrderIn(T)
      BY <2>3, <3>1, <3>2, OrderMember
    <3>4. QED
      BY <2>1, <2>3, <3>1, <3>3
  <2>6. QED
    BY <2>4, <2>5
<1>5. ASSUME NEW y \in K
      PROVE  <<y, x>> \in OrderIn(U)
  <2>1. PICK g \in UsedIn(T) \ {f} : y = PageIn(T, g)
    BY DEF Others
  <2>2. T[g].timeSlice \in 1..t /\ U[g] = T[g]
    BY <1>1 DEF SoundAt, UsedIn
  <2>3. U[g].timeSlice < U[f].timeSlice
    BY <1>1, <2>2
  <2>4. QED
    BY <1>2, <2>1, <2>3, OrderMember
<1>6. ASSUME NEW z \in OrderIn(T), z[1] \in K, z[2] \in K
      PROVE  z \in OrderIn(U)
  <2>1. PICK g \in UsedIn(T), h \in UsedIn(T) :
          T[g].timeSlice < T[h].timeSlice /\ z = <<PageIn(T, g), PageIn(T, h)>>
    BY OrderMember
  <2>2. PageIn(T, g) \in K /\ PageIn(T, h) \in K
    BY <1>6, <2>1
  <2>3. g # f /\ h # f
    BY <2>2 DEF Others, SoundAt
  <2>4. U[g].timeSlice < U[h].timeSlice
    BY <1>1, <2>1, <2>3 DEF UsedIn
  <2>5. QED
    BY <1>2, <2>1, <2>3, <2>4, OrderMember
<1>7. OrderIn(U) = {a \in OrderIn(T) : a[1] \in K /\ a[2] \in K} \cup {<<y, x>> : y \in K}
  <2> HIDE DEF K
  <2>1. QED
    BY <1>4, <1>5, <1>6
<1>8. QED
  BY <1>3, <1>7 DEF Renews

\* The frames stay sound when a page that is nowhere else is stamped.
LEMMA StampSound ==
  ASSUME NEW T, NEW n \in Nat, NEW m \in Nat, n <= m, NEW t \in Nat, SoundAt(T, n, t),
         NEW f \in Frame, NEW pg \in Page, NEW p \in 1..m, p \in Pid, t + 1 <= MaxTime,
         NEW U, Stamps(T, f, pg, p, t + 1, U),
         [pid |-> p, page |-> pg] \notin Others(T, f)
  PROVE  SoundAt(U, m, t + 1)
<1> DEFINE x == [pid |-> p, page |-> pg]
           e == [page |-> pg, pid |-> p, timeSlice |-> t + 1]
<1>1. /\ U[f] = e /\ U[f].timeSlice = t + 1 /\ U[f].pid = p /\ U[f].page = pg
      /\ \A g \in Frame : g # f => U[g] = T[g]
  BY DEF SoundAt, Stamps
<1>2. /\ UsedIn(U) = UsedIn(T) \cup {f}
      /\ PageIn(U, f) = x
      /\ \A g \in UsedIn(T) \ {f} : g \in Frame /\ U[g] = T[g] /\ PageIn(U, g) = PageIn(T, g)
      /\ \A g \in UsedIn(T) \ {f} : PageIn(T, g) # x
  BY <1>1 DEF UsedIn, PageIn, Others
<1>3. U \in [Frame -> PageEntry]
  <2>1. e \in PageEntry
    BY PagingAssumption DEF PageEntry
  <2>2. T \in [Frame -> PageEntry]
    BY DEF SoundAt
  <2> HIDE DEF e
  <2>3. U = [T EXCEPT ![f] = e]
    BY DEF Stamps, e
  <2>4. QED
    BY <2>1, <2>2, <2>3
<1>4. ASSUME NEW g \in Frame, U[g].timeSlice = -1
      PROVE  U[g] = FreeEntry
  BY <1>1, <1>4 DEF SoundAt
<1>5. ASSUME NEW g \in UsedIn(U)
      PROVE  U[g].timeSlice \in 1..(t + 1) /\ U[g].pid \in 1..m /\ U[g].page \in Page
  <2>1. CASE g = f
    BY <1>1, <2>1
  <2>2. CASE g # f
    <3>1. g \in UsedIn(T) /\ U[g] = T[g]
      BY <1>2, <2>2
    <3>2. T[g].timeSlice \in 1..t /\ T[g].pid \in 1..n /\ T[g].page \in Page
      BY <3>1 DEF SoundAt
    <3>3. QED
      BY <3>1, <3>2
  <2>3. QED
    BY <2>1, <2>2
<1>6. \A g \in UsedIn(T) \ {f} : U[g].timeSlice # U[f].timeSlice
  <2>1. ASSUME NEW g \in UsedIn(T) \ {f}
        PROVE  T[g].timeSlice \in 1..t
    BY DEF SoundAt
  <2>2. QED
    BY <1>1, <1>2, <2>1
<1> HIDE DEF x
<1>7. ASSUME NEW g \in UsedIn(U), NEW h \in UsedIn(U), g # h
      PROVE  U[g].timeSlice # U[h].timeSlice /\ PageIn(U, g) # PageIn(U, h)
  <2>1. CASE g # f /\ h # f
    <3>1. g \in UsedIn(T) \ {f} /\ h \in UsedIn(T) \ {f}
      BY <1>2, <2>1
    <3>2. T[g].timeSlice # T[h].timeSlice /\ PageIn(T, g) # PageIn(T, h)
      BY <1>7, <3>1 DEF SoundAt
    <3>3. QED
      BY <1>2, <3>1, <3>2
  <2>2. CASE g = f
    BY <1>2, <1>6, <1>7, <2>2
  <2>3. CASE h = f
    BY <1>2, <1>6, <1>7, <2>3
  <2>4. QED
    BY <2>1, <2>2, <2>3
<1>8. QED
  BY <1>3, <1>4, <1>5, <1>7 DEF SoundAt

\* terminate() of p: its pages go, the others stay as they are.
LEMMA ClearDrops ==
  ASSUME NEW T, NEW n \in Nat, NEW t \in Nat, SoundAt(T, n, t), NEW p \in Pid,
         NEW U, U = [f \in Frame |-> IF T[f].pid = p THEN FreeEntry ELSE T[f]],
         n <= MaxPid,
         NEW X, X = {y \in [pid: Pid, page: Page] : y.pid = p}
  PROVE  SoundAt(U, n, t) /\ Loses(T, X, U)
<1>1. FreeEntry \in PageEntry /\ FreeEntry.timeSlice = -1
  BY PagingAssumption DEF FreeEntry, PageEntry
<1>2. /\ UsedIn(U) = {f \in UsedIn(T) : T[f].pid # p}
      /\ \A f \in UsedIn(U) : f \in UsedIn(T) /\ U[f] = T[f] /\ PageIn(U, f) = PageIn(T, f)
  BY <1>1 DEF UsedIn, PageIn
<1>3. \A f \in UsedIn(T) : PageIn(T, f) \in X <=> T[f].pid = p
  <2>1. ASSUME NEW f \in UsedIn(T)
        PROVE  PageIn(T, f) \in [pid: Pid, page: Page]
    <3>1. T[f].pid \in 1..n /\ T[f].page \in Page
      BY DEF SoundAt
    <3>2. T[f].pid \in Pid
      BY <3>1, PagingAssumption DEF Pid
    <3>3. QED
      BY <3>1, <3>2 DEF PageIn
  <2>2. QED
    BY <2>1 DEF PageIn
<1>4. SoundAt(U, n, t)
  <2>1. U \in [Frame -> PageEntry]
    BY <1>1 DEF SoundAt
  <2>2. \A f \in Frame : U[f].timeSlice = -1 => U[f] = FreeEntry
    BY <1>1 DEF SoundAt
  <2>3. \A f \in UsedIn(U) :
          U[f].timeSlice \in 1..t /\ U[f].pid \in 1..n /\ U[f].page \in Page
    BY <1>2 DEF SoundAt
  <2>4. \A f, g \in UsedIn(U) :
          f # g => U[f].timeSlice # U[g].timeSlice /\ PageIn(U, f) # PageIn(U, g)
    BY <1>2 DEF SoundAt
  <2>5. QED
    BY <2>1, <2>2, <2>3, <2>4 DEF SoundAt
<1>5. PagesIn(U) = PagesIn(T) \ X
  <2>1. \A y \in PagesIn(U) : y \in PagesIn(T) \ X
    BY <1>2, <1>3 DEF PagesIn
  <2>2. ASSUME NEW y \in PagesIn(T) \ X PROVE y \in PagesIn(U)
    <3>1. PICK f \in UsedIn(T) : y = PageIn(T, f)
      BY DEF PagesIn
    <3>2. f \in UsedIn(U) /\ y = PageIn(U, f)
      BY <1>2, <1>3, <3>1
    <3>3. QED
      BY <3>2 DEF PagesIn
  <2>3. QED
    BY <2>1, <2>2
<1>6. ASSUME NEW z \in OrderIn(U)
      PROVE  z \in OrderIn(T) /\ z[1] \notin X /\ z[2] \notin X
  <2>1. PICK g \in UsedIn(U), h \in UsedIn(U) :
          U[g].timeSlice < U[h].timeSlice /\ z = <<PageIn(U, g), PageIn(U, h)>>
    BY OrderMember
  <2>2. z = <<PageIn(T, g), PageIn(T, h)>> /\ T[g].timeSlice < T[h].timeSlice
    BY <1>2, <2>1
  <2>3. z \in OrderIn(T)
    BY <1>2, <2>2, OrderMember
  <2>4. QED
    BY <1>2, <1>3, <2>2, <2>3
<1>7. ASSUME NEW z \in OrderIn(T), z[1] \notin X, z[2] \notin X
      PROVE  z \in OrderIn(U)
  <2>1. PICK g \in UsedIn(T), h \in UsedIn(T) :
          T[g].timeSlice < T[h].timeSlice /\ z = <<PageIn(T, g), PageIn(T, h)>>
    BY OrderMember
  <2>2. g \in UsedIn(U) /\ h \in UsedIn(U)
    BY <1>2, <1>3, <1>7, <2>1
  <2>3. z = <<PageIn(U, g), PageIn(U, h)>> /\ U[g].timeSlice < U[h].timeSlice
    BY <1>2, <2>1, <2>2
  <2>4. QED
    BY <2>2, <2>3, OrderMember
<1>8. OrderIn(U) = {a \in OrderIn(T) : a[1] \notin X /\ a[2] \notin X}
  BY <1>6, <1>7
<1>9. QED
  BY <1>4, <1>5, <1>8 DEF Loses

\* As many pages are resident as there are frames, or fewer when one is free.
LEMMA ResidentCount ==
  ASSUME NEW T, NEW n \in Nat, NEW t \in Nat, SoundAt(T, n, t)
  PROVE  /\ UsedIn(T) = Frame => Cardinality(PagesIn(T)) = numOfFrames
         /\ UsedIn(T) # Frame => Cardinality(PagesIn(T)) < numOfFrames
         /\ Cardinality(PagesIn(T)) \in Nat
<1> DEFINE k == [f \in UsedIn(T) |-> PageIn(T, f)]
<1>1. IsFiniteSet(Frame) /\ Cardinality(Frame) = numOfFrames
  <2>1. PICK b \in Int : b = numOfFrames - 1 /\ b >= 0 /\ b - 0 + 1 = numOfFrames
    BY PagingAssumption
  <2>2. IsFiniteSet(0..b) /\ Cardinality(0..b) = IF 0 > b THEN 0 ELSE b - 0 + 1
    BY FS_Interval
  <2>3. Frame = 0..b
    BY <2>1 DEF Frame
  <2>4. QED
    BY <2>1, <2>2, <2>3
<1>2. UsedIn(T) \in SUBSET Frame
  BY DEF UsedIn
<1>3. /\ IsFiniteSet(UsedIn(T))
      /\ Cardinality(UsedIn(T)) <= Cardinality(Frame)
      /\ Cardinality(Frame) = Cardinality(UsedIn(T)) => Frame = UsedIn(T)
  BY <1>1, <1>2, FS_Subset
<1>4. k \in Bijection(UsedIn(T), PagesIn(T))
  BY DEF SoundAt, PagesIn, Bijection, Injection, Surjection, IsInjective
<1>5. ExistsBijection(UsedIn(T), PagesIn(T))
  BY <1>4 DEF ExistsBijection
<1>6. Cardinality(PagesIn(T)) = Cardinality(UsedIn(T))
  BY <1>3, <1>5, FS_Bijection
<1>7. Cardinality(UsedIn(T)) \in Nat
  BY <1>3, FS_CardinalityType
<1>8. QED
  BY <1>1, <1>3, <1>6, <1>7, PagingAssumption

\* Both modules count with the same operator.
LEMMA SameCardinality ==
  ASSUME NEW S
  PROVE  L!Cardinality(S) = Cardinality(S)
  BY Zenon DEF L!Cardinality, Cardinality

\* The use of a page that is in the frame f, or is in none and gets the frame
\* of the smallest stamp, is a use of the least-recently-used memory.
LEMMA UseMaps ==
  ASSUME NEW n \in Nat, timeSlice \in Nat, SoundAt(pageTable, n, timeSlice),
         NEW f \in Frame, NEW pg \in Page, NEW p \in Pid,
         Stamps(pageTable, f, pg, p, timeSlice + 1, pageTable'),
         \/ Holds(f, pg, p)
         \/ LeastUsed(f) /\ \A g \in Frame : ~Holds(g, pg, p)
  PROVE  /\ L!LRUNext
         /\ [pid |-> p, page |-> pg] \notin Others(pageTable, f)
<1> DEFINE T == pageTable
           x == [pid |-> p, page |-> pg]
           K == Others(T, f)
<1>1. /\ Resident' = K \cup {x}
      /\ StampedBefore' = {a \in StampedBefore : a[1] \in K /\ a[2] \in K}
                            \cup {<<y, x>> : y \in K}
  <2>1. Renews(pageTable, K, x, pageTable')
    BY StampIsYoungest
  <2> HIDE DEF K, x
  <2>2. QED
    BY <2>1, TableIs DEF Renews
<1>2. L!UseBeside(K, x)
  <2> HIDE DEF K, x
  <2>1. QED
    BY <1>1 DEF L!UseBeside
<1>3. x \in [pid: Pid, page: Page]
  OBVIOUS
<1>4. \A g \in UsedIn(T) : PageIn(T, g) = x <=> Holds(g, pg, p)
  BY DEF PageIn, Holds
<1>5. \A g \in UsedIn(T) : g # f => f \notin UsedIn(T) \/ PageIn(T, g) # PageIn(T, f)
  BY DEF SoundAt
<1>6. UsedIn(T) \subseteq Frame
  BY DEF UsedIn
<1>7. Resident = PagesIn(T) /\ StampedBefore = OrderIn(T)
  BY TableIs
<1>8. CASE Holds(f, pg, p)
  <2>1. f \in UsedIn(T)
    <3>1. pageTable[f].pid # -1
      BY <1>8, PagingAssumption DEF Holds, Pid
    <3>2. QED
      BY <3>1 DEF SoundAt, UsedIn, FreeEntry
  <2>2. PageIn(T, f) = x
    BY <1>4, <1>8, <2>1
  <2>3. x \in Resident /\ K = Resident \ {x} /\ x \notin K
    BY <1>5, <1>7, <2>1, <2>2 DEF PagesIn, Others
  <2>4. L!Use(x)
    BY <1>2, <2>3 DEF L!Use
  <2>5. QED
    BY <1>3, <2>3, <2>4 DEF L!LRUNext
<1>9. CASE LeastUsed(f) /\ \A g \in Frame : ~Holds(g, pg, p)
  <2>1. x \notin Resident /\ x \notin K
    BY <1>4, <1>6, <1>7, <1>9 DEF PagesIn, Others
  <2>2. CASE f \notin UsedIn(T)
    <3>1. K = Resident \ {x}
      BY <1>7, <2>1, <2>2 DEF PagesIn, Others
    <3>2. UsedIn(T) # Frame
      BY <2>2
    <3>3. Cardinality(Resident) < numOfFrames
      BY <1>7, <3>2, ResidentCount
    <3>4. L!Use(x)
      <4> HIDE DEF K, x
      <4>1. QED
        BY <1>2, <3>1, <3>3, SameCardinality DEF L!Use
    <3>5. QED
      BY <1>3, <2>1, <3>4 DEF L!LRUNext
  <2>3. CASE f \in UsedIn(T)
    <3> DEFINE y == PageIn(T, f)
    <3>1. ASSUME NEW g \in Frame
          PROVE  /\ T[g].timeSlice \in Int
                 /\ T[f].timeSlice <= T[g].timeSlice
      BY <1>9 DEF LeastUsed, SoundAt, PageEntry
    <3>2. T[f].timeSlice \in 1..timeSlice
      BY <2>3 DEF SoundAt
    <3>3. UsedIn(T) = Frame
      BY <3>1, <3>2 DEF UsedIn
    <3>4. Cardinality(Resident) = numOfFrames
      BY <1>7, <3>3, ResidentCount
    <3>5. y \in Resident /\ K = Resident \ {y}
      BY <1>5, <1>7, <2>3 DEF PagesIn, Others
    <3>6. ASSUME NEW z \in Resident
          PROVE  <<z, y>> \notin StampedBefore
      <4>1. SUFFICES ASSUME <<z, y>> \in OrderIn(T) PROVE FALSE
        BY <1>7
      <4>2. PICK g \in UsedIn(T), h \in UsedIn(T) :
              T[g].timeSlice < T[h].timeSlice /\ <<z, y>> = <<PageIn(T, g), PageIn(T, h)>>
        BY <4>1, OrderMember
      <4>3. h = f
        BY <1>5, <2>3, <4>2
      <4>4. QED
        BY <1>6, <3>1, <4>2, <4>3
    <3> HIDE DEF y
    <3>7. L!Oldest(y)
      BY <3>5, <3>6 DEF L!Oldest
    <3>8. L!Use(x)
      <4> HIDE DEF K, x
      <4>1. QED
        BY <1>2, <2>1, <3>4, <3>5, <3>7, SameCardinality DEF L!Use
    <3>9. QED
      BY <1>3, <2>1, <3>8 DEF L!LRUNext
  <2>4. QED
    BY <2>2, <2>3
<1>10. QED
  BY <1>8, <1>9

\* No page is resident before the first command.
LEMMA FramesInit == Init => FramesAreSound /\ L!LRUInit
<1> SUFFICES ASSUME Init PROVE FramesAreSound /\ L!LRUInit
  OBVIOUS
<1>1. TypeOK
  BY TypeInit
<1>2. pageTable = [f \in Frame |-> FreeEntry] /\ FreeEntry.timeSlice = -1
  BY DEF Init, FreeEntry
<1>3. UsedIn(pageTable) = {}
  BY <1>2 DEF UsedIn
<1>4. PagesIn(pageTable) = {}
  BY <1>3 DEF PagesIn
<1>5. OrderIn(pageTable) = {}
  BY <1>3, OrderMember
<1>6. FramesAreSound
  BY <1>1, <1>2, <1>3 DEF FramesAreSound, SoundAt, TypeOK
<1>7. QED
  BY <1>4, <1>5, <1>6, TableIs DEF L!LRUInit

\* Every command keeps the frames sound, and is a step of the least-recently-
\* used memory or leaves it alone.
LEMMA FramesStep ==
  ASSUME TypeOK, OnePlace, FramesAreSound, [Next]_vars
  PROVE  FramesAreSound' /\ [L!LRUNext]_(L!lruVars)
<1>1. /\ processCounter \in Nat /\ timeSlice \in Nat /\ MaxPid \in Nat /\ MaxTime \in Nat
      /\ processCounter <= MaxPid
      /\ SoundAt(pageTable, processCounter, timeSlice)
  BY PagingAssumption DEF TypeOK, FramesAreSound
<1>2. CASE CreateNewProcess
  <2>1. /\ processCounter' = processCounter + 1 /\ timeSlice' = timeSlice + 1
        /\ processCounter < MaxPid /\ timeSlice < MaxTime
    BY <1>2 DEF CreateNewProcess
  <2>2. PICK f \in Frame : LeastUsed(f) /\ pageTable' = [pageTable EXCEPT ![f] = Entry(0, processCounter')]
    BY <1>2 DEF CreateNewProcess
  <2>3. PICK p \in Pid : p = processCounter + 1
    BY <1>1, <2>1 DEF Pid
  <2>4. Stamps(pageTable, f, 0, p, timeSlice + 1, pageTable')
    BY <2>1, <2>2, <2>3 DEF Stamps, Entry
  <2>5. ASSUME NEW g \in Frame PROVE ~Holds(g, 0, p)
    <3>1. g \in UsedIn(pageTable) => pageTable[g].pid \in 1..processCounter
      BY <1>1 DEF SoundAt
    <3>2. g \notin UsedIn(pageTable) => pageTable[g].pid = -1
      BY <1>1 DEF SoundAt, UsedIn, FreeEntry
    <3>3. QED
      BY <1>1, <2>3, <3>1, <3>2 DEF Holds
  <2>6. 0 \in Page
    BY PagingAssumption
  <2>7. L!LRUNext /\ [pid |-> p, page |-> 0] \notin Others(pageTable, f)
    BY <1>1, <2>2, <2>4, <2>5, <2>6, UseMaps
  <2>8. SoundAt(pageTable', p, timeSlice + 1)
    <3>1. p \in Nat /\ processCounter <= p /\ p \in 1..p /\ timeSlice + 1 <= MaxTime
      BY <1>1, <2>1, <2>3
    <3>2. QED
      BY <1>1, <2>4, <2>6, <2>7, <3>1, StampSound
  <2>9. QED
    BY <2>1, <2>3, <2>7, <2>8 DEF FramesAreSound
<1>3. ASSUME NEW pg \in Page, Access(pg)
      PROVE  FramesAreSound' /\ L!LRUNext
  <2>1. /\ processCounter' = processCounter /\ timeSlice' = timeSlice + 1
        /\ timeSlice < MaxTime /\ currentProcess # NULL
        /\ AccessAddress(currentProcess, pg)
    BY <1>3 DEF Access, AccessAddress
  <2>2. PICK p \in Pid : p = currentProcess
    BY <2>1 DEF TypeOK
  <2>3. p \in 1..processCounter
    <3>1. (Held(Queue) \cup {currentProcess}) \ {NULL} = 1..processCounter
      BY DEF OnePlace
    <3>2. QED
      BY <2>1, <2>2, <3>1
  <2>4. PICK f \in Frame :
          /\ \/ Holds(f, pg, p)
             \/ LeastUsed(f) /\ \A g \in Frame : ~Holds(g, pg, p)
          /\ Stamps(pageTable, f, pg, p, timeSlice + 1, pageTable')
    <3>1. ASSUME NEW f \in Frame, Holds(f, pg, p),
                 pageTable' = [pageTable EXCEPT ![f].timeSlice = timeSlice']
          PROVE  Stamps(pageTable, f, pg, p, timeSlice + 1, pageTable')
      <4>1. pageTable[f] \in PageEntry /\ pageTable[f].pid = p /\ pageTable[f].page = pg
        BY <1>1, <3>1 DEF SoundAt, Holds
      <4>2. [pageTable[f] EXCEPT !.timeSlice = timeSlice + 1]
              = [page |-> pg, pid |-> p, timeSlice |-> timeSlice + 1]
        BY <4>1 DEF PageEntry
      <4>3. pageTable' = [pageTable EXCEPT ![f] = [pageTable[f] EXCEPT !.timeSlice = timeSlice + 1]]
        BY <2>1, <3>1
      <4>4. QED
        BY <4>2, <4>3 DEF Stamps
    <3>2. ASSUME NEW f \in Frame, pageTable' = [pageTable EXCEPT ![f] = Entry(pg, p)]
          PROVE  Stamps(pageTable, f, pg, p, timeSlice + 1, pageTable')
      BY <2>1, <3>2 DEF Stamps, Entry
    <3>3. QED
      BY <2>1, <2>2, <3>1, <3>2 DEF AccessAddress
  <2>5. L!LRUNext /\ [pid |-> p, page |-> pg] \notin Others(pageTable, f)
    BY <1>1, <2>4, UseMaps
  <2>6. SoundAt(pageTable', processCounter, timeSlice + 1)
    <3>1. processCounter <= processCounter /\ timeSlice + 1 <= MaxTime
      BY <1>1, <2>1
    <3>2. QED
      BY <1>1, <2>3, <2>4, <2>5, <3>1, StampSound
  <2>7. QED
    BY <2>1, <2>5, <2>6 DEF FramesAreSound
<1>4. CASE Terminate
  <2>1. /\ currentProcess \in Pid /\ processCounter' = processCounter /\ timeSlice' = timeSlice
        /\ pageTable' = [f \in Frame |-> IF pageTable[f].pid = currentProcess
                                         THEN FreeEntry ELSE pageTable[f]]
    BY <1>4 DEF Terminate, Clear, TypeOK
  <2> DEFINE X == {y \in [pid: Pid, page: Page] : y.pid = currentProcess}
  <2>2. SoundAt(pageTable', processCounter, timeSlice) /\ Loses(pageTable, X, pageTable')
    BY <1>1, <2>1, ClearDrops
  <2>3. L!Drop(X)
    <3> HIDE DEF X
    <3>1. QED
      BY <2>2, TableIs DEF L!Drop, Loses
  <2>4. PICK x \in [pid: Pid, page: Page] : x.pid = currentProcess
    <3>1. [pid |-> currentProcess, page |-> 0] \in [pid: Pid, page: Page]
      BY <2>1, PagingAssumption
    <3>2. QED
      BY <3>1
  <2>5. L!LRUNext
    BY <2>3, <2>4 DEF L!LRUNext
  <2>6. QED
    BY <2>1, <2>2, <2>5 DEF FramesAreSound
<1>5. CASE UNCHANGED <<pageTable, timeSlice, processCounter>>
  <2>1. FramesAreSound'
    BY <1>1, <1>5 DEF FramesAreSound
  <2>2. UNCHANGED L!lruVars
    BY <1>5, TableIs DEF L!lruVars
  <2>3. QED
    BY <2>1, <2>2
<1>6. CASE \/ PassQuantum \/ GoWild \/ UNCHANGED vars
           \/ \E n \in RawIndex : SendToDisk(n) \/ ReturnProcess(n)
  BY <1>5, <1>6 DEF PassQuantum, GoWild, SendToDisk, ReturnProcess, vars, memVars
<1>7. QED
  BY <1>2, <1>3, <1>4, <1>6 DEF Next

\* Stamps and the search for the smallest of them implement least recently
\* used, for any number of frames, pages and processes.
THEOREM FramesImplementLRU == Spec => ImplementsLRU
<1> DEFINE Inv == TypeOK /\ OnePlace /\ FramesAreSound
<1>1. Init => Inv /\ L!LRUInit
  BY TypeInit, PlaceInit, FramesInit
<1>2. Inv /\ [Next]_vars => Inv' /\ [L!LRUNext]_(L!lruVars)
  BY TypeStep, PlaceStep, FramesStep
<1> HIDE DEF Inv
<1>3. QED
  BY <1>1, <1>2, PTL DEF Spec, ImplementsLRU, L!LRUSpec
==============================================================================
