------------------------ MODULE MatrixMultiplication ------------------------
(***************************************************************************)
(* LeeMatrixMultiplication: main() fills A and B, starts T threads that    *)
(* each multiply their share of the rows, and joins them.  A row of C is   *)
(* the thread that has computed it, Zero before.                           *)
(***************************************************************************)
EXTENDS Integers, FiniteSets

CONSTANT Sizes  \* sizes the program may be built for

MatrixAssumption == Sizes \subseteq Nat \ {0}

VARIABLES
  S,       \* the macro S, fixed before the program runs
  pc,      \* what main() does next
  filled,  \* how many of A and B are filled
  i,       \* main()'s i, of the loop that creates and of the one that joins
  thread,  \* state of every thread: "none", "start", "run", "ended"
  row,     \* a thread's i
  C

vars == <<S, pc, filled, i, thread, row, C>>

Zero == -1

\* findThreadCount(): the largest of 7 to 2 that divides S, or 7
findThreadCount(n) ==
  IF \E k \in 2..7 : n % k = 0
  THEN CHOOSE k \in 2..7 : n % k = 0 /\ \A m \in k+1..7 : n % m # 0
  ELSE 7

T == findThreadCount(S)
Sect == 0..6  \* there are never more than 7 threads
Section(sect) == sect * (S \div T)..(sect + 1) * (S \div T) - 1

\* A main() that fills B only after the threads have started.
FillLate ==
  /\ pc = "fill"
  /\ filled' = filled + 1
  /\ pc' = "create"
  /\ UNCHANGED <<S, i, thread, row, C>>

\* fillArray(A), fillArray(B)
Fill ==
  /\ pc = "fill"
  /\ filled' = filled + 1
  /\ pc' = IF filled' = 2 THEN "create" ELSE "fill"
  /\ UNCHANGED <<S, i, thread, row, C>>

Create ==
  /\ pc = "create" /\ i < T
  /\ thread' = [thread EXCEPT ![i] = "start"]
  /\ i' = i + 1
  /\ UNCHANGED <<S, pc, filled, row, C>>

\* pthread_create() fails: exit(0) ends the threads that run.
CreateFails ==
  /\ pc = "create" /\ i < T
  /\ pc' = "failed"
  /\ UNCHANGED <<S, filled, i, thread, row, C>>

AllCreated ==
  /\ pc = "create" /\ i = T
  /\ pc' = "join" /\ i' = 0
  /\ UNCHANGED <<S, filled, thread, row, C>>

Join ==
  /\ pc = "join" /\ i < T
  /\ thread[i] = "ended"
  /\ i' = i + 1
  /\ UNCHANGED <<S, pc, filled, thread, row, C>>

AllJoined ==
  /\ pc = "join" /\ i = T
  /\ pc' = "done"
  /\ UNCHANGED <<S, filled, i, thread, row, C>>

Process == pc # "failed"

\* multiply() given &i in place of i: it reads whatever main()'s i is by then.
StartLate(t) ==
  /\ Process /\ thread[t] = "start"
  /\ thread' = [thread EXCEPT ![t] = "run"]
  /\ row' = [row EXCEPT ![t] = i * (S \div T)]
  /\ UNCHANGED <<S, pc, filled, i, C>>

Start(t) ==
  /\ Process /\ thread[t] = "start"
  /\ thread' = [thread EXCEPT ![t] = "run"]
  /\ row' = [row EXCEPT ![t] = t * (S \div T)]
  /\ UNCHANGED <<S, pc, filled, i, C>>

\* multiply() with "i <= end".
MultiplyOneMore(t) ==
  /\ Process /\ thread[t] = "run" /\ row[t] <= (t + 1) * (S \div T)
  /\ C' = [C EXCEPT ![row[t]] = t]
  /\ row' = [row EXCEPT ![t] = @ + 1]
  /\ UNCHANGED <<S, pc, filled, i, thread>>

\* One row: all its cells are sums over A and B.
MultiplyRow(t) ==
  /\ Process /\ thread[t] = "run" /\ row[t] < (t + 1) * (S \div T)
  /\ C' = [C EXCEPT ![row[t]] = t]
  /\ row' = [row EXCEPT ![t] = @ + 1]
  /\ UNCHANGED <<S, pc, filled, i, thread>>

EndThread(t) ==
  /\ Process /\ thread[t] = "run" /\ row[t] >= (t + 1) * (S \div T)
  /\ thread' = [thread EXCEPT ![t] = "ended"]
  /\ UNCHANGED <<S, pc, filled, i, row, C>>

Init ==
  /\ S \in Sizes
  /\ pc = "fill" /\ filled = 0 /\ i = 0
  /\ thread = [t \in Sect |-> "none"]
  /\ row = [t \in Sect |-> 0]
  /\ C = [r \in 0..S-1 |-> Zero]

Main == Fill \/ Create \/ CreateFails \/ AllCreated \/ Join \/ AllJoined
Thread(t) == Start(t) \/ MultiplyRow(t) \/ EndThread(t)

Next == Main \/ \E t \in Sect : Thread(t)

\* main() is scheduled, and some thread is while one can run.
Fairness == WF_vars(Main) /\ WF_vars(\E t \in Sect : Thread(t))

Spec == Init /\ [][Next]_vars /\ Fairness

-----------------------------------------------------------------------------
(* Properties                                                              *)

TypeOK ==
  /\ S \in Sizes
  /\ pc \in {"fill", "create", "join", "done", "failed"}
  /\ filled \in 0..2 /\ i \in 0..7
  /\ thread \in [Sect -> {"none", "start", "run", "ended"}]
  /\ row \in [Sect -> 0..S]
  /\ C \in [0..S-1 -> Sect \cup {Zero}]

\* A thread writes its own section and no other row, and no row is of two
\* sections: the threads need no lock.
RowsAreDisjoint ==
  /\ \A r \in 0..S-1 : C[r] # Zero => r \in Section(C[r])
  /\ \A t, u \in 0..T-1 : t # u => Section(t) \cap Section(u) = {}

\* No thread reads A or B before both are filled.
FilledFirst == \A t \in Sect : thread[t] # "none" => filled = 2

\* When the joins are over, the rows the sections cover are computed; all of C
\* is when a number from 2 to 7 divides S, otherwise the last S % 7 rows stay
\* zero.  (S is 2100 in the source.)
Covered == IF \E k \in 2..7 : S % k = 0 THEN S ELSE S - (S % 7)
ProductIsComplete ==
  pc = "done" => \A r \in 0..S-1 : C[r] # Zero <=> r < Covered

\* The threads compute the product without a lock.
ProductIsRight ==
  /\ TypeOK /\ RowsAreDisjoint
  /\ FilledFirst /\ ProductIsComplete
=============================================================================
