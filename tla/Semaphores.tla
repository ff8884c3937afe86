----------------------------- MODULE Semaphores -----------------------------
(***************************************************************************)
(* LeeSemaphores: a child and a parent that take turns of writing to one   *)
(* file under one System V semaphore.  Each looks at err, the value of the *)
(* semaphore it read last, and goes for the semaphore only if that was     *)
(* positive.  Nobody ever sets the semaphore or err: POSIX leaves the      *)
(* value of a new semaphore open, and err is an uninitialised variable     *)
(* that fork() copies.  Both operations are SEM_UNDO, so the kernel takes  *)
(* back what a process did to the semaphore whenever it ends.  No bound is *)
(* needed: the loops end.                                                  *)
(***************************************************************************)
EXTENDS Integers, Sequences

CONSTANTS
  child, parent,
  Turns,         \* rounds of the while loop: 3 in the code
  InitialValue,  \* values the new semaphore may have
  InitialErr     \* values the uninitialised err may have

SemaphoresAssumption ==
  /\ child # parent
  /\ Turns \in Nat
  /\ InitialValue \subseteq Nat
  /\ InitialErr \subseteq Int

VARIABLES
  semval,   \* the semaphore
  semadj,   \* semadj[p], what the kernel adds to semval when p ends
  pc,       \* where p is in its round
  i,        \* i[p], the round
  err,      \* err[p], the value of the semaphore p has last seen
  file,     \* file.txt, a line per entry: who wrote it
  initial,  \* history: the value the semaphore came with
  failed    \* history: some semop() returned -1

vars == <<semval, semadj, pc, i, err, file, initial, failed>>

Proc == {child, parent}

\* Where p is while it has the semaphore.
Inside == {"look", "write", "release"}

-----------------------------------------------------------------------------

Init ==
  /\ initial \in InitialValue
  /\ semval = initial
  /\ semadj = [p \in Proc |-> 0]
  /\ pc = [p \in Proc |-> "test"]
  /\ i = [p \in Proc |-> 0]
  /\ \E e \in InitialErr : err = [p \in Proc |-> e]
  /\ file = <<>>
  /\ failed = FALSE

Goto(p, place) == pc' = [pc EXCEPT ![p] = place]

\* "if (err>0)"
TestPositive(p) ==
  /\ pc[p] = "test" /\ i[p] < Turns
  /\ err[p] > 0
  /\ Goto(p, "acquire")
  /\ UNCHANGED <<semval, semadj, i, err, file, initial, failed>>

\* "else if (err==0)" waits five seconds, and gives up the round as well.
TestOther(p) ==
  /\ pc[p] = "test" /\ i[p] < Turns
  /\ err[p] <= 0
  /\ i' = [i EXCEPT ![p] = @ + 1]
  /\ UNCHANGED <<semval, semadj, pc, err, file, initial, failed>>

\* semop() with sem_op -1, which does not wait.
AcquireWithoutWaiting(p) ==
  /\ pc[p] = "acquire"
  /\ semval' = semval - 1
  /\ semadj' = [semadj EXCEPT ![p] = @ + 1]
  /\ Goto(p, "look")
  /\ UNCHANGED <<i, err, file, initial, failed>>

\* Acquire() without SEM_UNDO.
AcquireWithoutUndo(p) ==
  /\ pc[p] = "acquire"
  /\ semval > 0
  /\ semval' = semval - 1
  /\ UNCHANGED semadj
  /\ Goto(p, "look")
  /\ UNCHANGED <<i, err, file, initial, failed>>

\* semop() with sem_op -1, which blocks while the semaphore is 0.
Acquire(p) ==
  /\ pc[p] = "acquire"
  /\ semval > 0
  /\ semval' = semval - 1
  /\ semadj' = [semadj EXCEPT ![p] = @ + 1]
  /\ Goto(p, "look")
  /\ UNCHANGED <<i, err, file, initial, failed>>

\* "err=semctl(semid, 0, GETVAL, NULL)" after the first semop() ...
Look(p) ==
  /\ pc[p] = "look"
  /\ err' = [err EXCEPT ![p] = semval]
  /\ Goto(p, "write")
  /\ UNCHANGED <<semval, semadj, i, file, initial, failed>>

Write(p) ==
  /\ pc[p] = "write"
  /\ file' = Append(file, p)
  /\ Goto(p, "release")
  /\ UNCHANGED <<semval, semadj, i, err, initial, failed>>

\* Release() without SEM_UNDO, which leaves the undoing of Acquire() behind.
ReleaseWithoutUndo(p) ==
  /\ pc[p] = "release"
  /\ semval' = semval + 1
  /\ UNCHANGED semadj
  /\ Goto(p, "relook")
  /\ UNCHANGED <<i, err, file, initial, failed>>

Release(p) ==
  /\ pc[p] = "release"
  /\ semval' = semval + 1
  /\ semadj' = [semadj EXCEPT ![p] = @ - 1]
  /\ Goto(p, "relook")
  /\ UNCHANGED <<i, err, file, initial, failed>>

\* ... and after the second: by then the other may have taken it again.
Relook(p) ==
  /\ pc[p] = "relook"
  /\ err' = [err EXCEPT ![p] = semval]
  /\ i' = [i EXCEPT ![p] = @ + 1]
  /\ Goto(p, "test")
  /\ UNCHANGED <<semval, semadj, file, initial, failed>>

\* semop() returns -1, for want of an undo structure or because somebody
\* removed the set.  The code reports it and goes on: after the first call to
\* the second, after the second to the next round.
AcquireFails(p) ==
  /\ pc[p] = "acquire"
  /\ failed' = TRUE
  /\ Goto(p, "release")
  /\ UNCHANGED <<semval, semadj, i, err, file, initial>>

ReleaseFails(p) ==
  /\ pc[p] = "release"
  /\ failed' = TRUE
  /\ i' = [i EXCEPT ![p] = @ + 1]
  /\ Goto(p, "test")
  /\ UNCHANGED <<semval, semadj, err, file, initial>>

\* GETVAL fails, once somebody has removed the set: err is -1.
LookFails(p) ==
  /\ pc[p] = "look"
  /\ err' = [err EXCEPT ![p] = -1]
  /\ Goto(p, "write")
  /\ UNCHANGED <<semval, semadj, i, file, initial, failed>>

RelookFails(p) ==
  /\ pc[p] = "relook"
  /\ err' = [err EXCEPT ![p] = -1]
  /\ i' = [i EXCEPT ![p] = @ + 1]
  /\ Goto(p, "test")
  /\ UNCHANGED <<semval, semadj, file, initial, failed>>

\* The end of a process, from which the kernel applies its semadj.
End(p, place) ==
  /\ semval' = IF semval + semadj[p] < 0 THEN 0 ELSE semval + semadj[p]
  /\ semadj' = [semadj EXCEPT ![p] = 0]
  /\ Goto(p, place)
  /\ UNCHANGED <<i, err, file, initial, failed>>

Return(p) ==
  /\ pc[p] = "test" /\ i[p] >= Turns
  /\ End(p, "returned")

\* A signal ends p anywhere, between a semop() and its undoing included.
Kill(p) ==
  /\ pc[p] \notin {"returned", "killed"}
  /\ End(p, "killed")

\* The two branches after fork(), the same but for what they print.
Step(p) ==
  \/ TestPositive(p) \/ TestOther(p)
  \/ Acquire(p) \/ Look(p) \/ Write(p) \/ Release(p) \/ Relook(p)
  \/ Return(p)

Next ==
  \E p \in Proc :
    \/ Step(p)
    \/ AcquireFails(p) \/ LookFails(p) \/ ReleaseFails(p) \/ RelookFails(p)
    \/ Kill(p)

\* The kernel runs a process that can run; no call has to fail and nobody has
\* to kill a process.
Spec == Init /\ [][Next]_vars /\ \A p \in Proc : WF_vars(Step(p))

-----------------------------------------------------------------------------
(* Properties.                                                             *)

TypeOK ==
  /\ initial \in Nat
  /\ semval \in Nat
  /\ semadj \in [Proc -> Int]
  /\ pc \in [Proc -> {"test", "acquire", "look", "write", "release", "relook",
                      "returned", "killed"}]
  /\ i \in [Proc -> 0..Turns]
  /\ err \in [Proc -> Int]
  /\ file \in Seq(Proc)
  /\ failed \in BOOLEAN

Holders == {p \in Proc : pc[p] \in Inside}

\* Whoever ends or is killed, and wherever, the semaphore counts, as long as
\* no semop() fails: its value and the processes that have it make up the value
\* it came with.
Holding(p) == IF pc[p] \in Inside THEN 1 ELSE 0
Conserved == ~failed => semval + Holding(child) + Holding(parent) = initial

\* A semop() that fails may let a process in or keep one out for a while, but
\* takes nothing for good: what the kernel will undo makes up for it, and when
\* both have ended the semaphore is at least what it came with.
Repaid == semval + semadj[child] + semadj[parent] >= initial

\* The two are then never both at the file when the semaphore came with 1.
Exclusive == ~failed /\ initial <= 1 => Holders # Proc

\* A process is blocked for good only on a semaphore that came with 0, also if
\* the other is killed with the semaphore; unless a call fails: the release
\* that follows a failed acquisition is undone at the expense of the other.
Ended == initial > 0 => failed \/ \A p \in Proc : pc[p] \in {"returned", "killed"}

\* "There is 1 semaphore in the set, to acquire/release 3 times".  Not said of
\* a process whose last GETVAL failed.
AcquiresEveryTurn ==
  \A p \in Proc :
    pc[p] = "returned" /\ ~failed /\ err[p] # -1 =>
      Len(SelectSeq(file, LAMBDA x : x = p)) = Turns
=============================================================================
