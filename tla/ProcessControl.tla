---------------------------- MODULE ProcessControl ----------------------------
(***************************************************************************)
(* LeeProcessControl: a process that forks three children, one after the   *)
(* other, waits for each with wait3() and reports how it ended.  The first *)
(* exits with 7, the second aborts, the third divides by zero and is       *)
(* brought back by longjmp().  fork() may fail, anybody may send SIGFPE    *)
(* and SIGKILL, and what is printed waits in a buffer that fork() copies.  *)
(***************************************************************************)
EXTENDS Integers, Sequences, FiniteSets, Functions

CONSTANT MaxSent  \* bound: signals that arrive from outside

ProcessControlAssumption == MaxSent \in Nat

Parent == 3
Child == 0..2
Proc == Child \cup {Parent}
Names == 3  \* lines Input() writes

\* How a process ends: exit(k) with k >= 0, or killed by a signal.  "none" is
\* the uninitialised status of main().
How == {0, 7} \cup {-6, -9, -11}
SIGABRT == -6
SIGKILL == -9
SIGSEGV == -11
None == -1

VARIABLES
  pc,       \* of every process; "unborn" before fork(), "zombie", "reaped"
  n,        \* main()'s n
  status,   \* main()'s status
  how,      \* how each child ended
  jump,     \* processes whose copy of j is set
  lines,    \* what was appended to file5.txt
  tty,      \* stdout is a terminal, which makes it line buffered
  buffer,   \* the stdout buffer of each process
  out,      \* what has reached stdout
  sent

vars == <<pc, n, status, how, jump, lines, tty, buffer, out, sent>>

Running(p) == pc[p] \notin {"unborn", "zombie", "reaped", "exited", "killed"}

\* printf(): a terminal gets the line at once, a file when the buffer is flushed.
Printf(p, text) ==
  IF tty THEN out' = Append(out, text) /\ UNCHANGED buffer
         ELSE buffer' = [buffer EXCEPT ![p] = Append(@, text)] /\ UNCHANGED out

\* exit() flushes the buffer, death by a signal drops it.
Flush(p) == out' = out \o buffer[p] /\ buffer' = [buffer EXCEPT ![p] = <<>>]
Drop(p) == buffer' = [buffer EXCEPT ![p] = <<>>] /\ UNCHANGED out

\* The end of a child, and of the parent.
End(p, h) ==
  /\ pc' = [pc EXCEPT ![p] = IF p # Parent THEN "zombie"
                             ELSE IF h >= 0 THEN "exited" ELSE "killed"]
  /\ how' = IF p = Parent THEN how ELSE [how EXCEPT ![p] = h]
  /\ IF h >= 0 THEN Flush(p) ELSE Drop(p)

-----------------------------------------------------------------------------
(* The parent                                                              *)

\* fork() succeeds: the child starts with a copy of the parent's buffer.
Fork ==
  /\ pc[Parent] = "fork" /\ n \in Child
  /\ pc' = [pc EXCEPT ![Parent] = "wait", ![n] = "input"]
  /\ buffer' = [buffer EXCEPT ![n] = buffer[Parent]]
  /\ UNCHANGED <<n, status, how, jump, lines, tty, out, sent>>

\* fork() fails: ret is -1, and main() goes on as the parent of a child.
ForkFails ==
  /\ pc[Parent] = "fork" /\ n \in Child
  /\ pc' = [pc EXCEPT ![Parent] = "wait"]
  /\ UNCHANGED <<n, status, how, jump, lines, tty, buffer, out, sent>>

\* wait3() with WNOHANG in its options returns at once.
WaitNoHang ==
  /\ pc[Parent] = "wait"
  /\ pc' = [c \in Proc |-> IF c = Parent THEN "print"
                           ELSE IF pc[c] = "zombie" THEN "reaped" ELSE pc[c]]
  /\ UNCHANGED <<n, status, how, jump, lines, tty, buffer, out, sent>>

\* wait3(NULL, ...) reaps the child and keeps the status of the one before.
WaitForgets ==
  /\ pc[Parent] = "wait"
  /\ \/ \E c \in Child :
          /\ pc[c] = "zombie"
          /\ pc' = [pc EXCEPT ![Parent] = "print", ![c] = "reaped"]
     \/ /\ \A c \in Child : ~Running(c) /\ pc[c] # "zombie"
        /\ pc' = [pc EXCEPT ![Parent] = "print"]
  /\ UNCHANGED <<n, status, how, jump, lines, tty, buffer, out, sent>>

\* wait3() takes a child that has ended, or fails without a child and leaves
\* status as it was.
Wait ==
  /\ pc[Parent] = "wait"
  /\ \/ \E c \in Child :
          /\ pc[c] = "zombie"
          /\ status' = how[c]
          /\ pc' = [pc EXCEPT ![Parent] = "print", ![c] = "reaped"]
     \/ /\ \A c \in Child : ~Running(c) /\ pc[c] # "zombie"
        /\ pc' = [pc EXCEPT ![Parent] = "print"]
        /\ UNCHANGED status
  /\ UNCHANGED <<n, how, jump, lines, tty, buffer, out, sent>>

\* PrintStatus() and PrintUsage(), and the next round of the loop
ReportStatus ==
  /\ pc[Parent] = "print"
  /\ Printf(Parent, [child |-> n, how |-> status])
  /\ n' = n + 1
  /\ pc' = [pc EXCEPT ![Parent] = "fork"]
  /\ UNCHANGED <<status, how, jump, lines, tty, sent>>

Return ==
  /\ pc[Parent] = "fork" /\ n \notin Child
  /\ End(Parent, 0)
  /\ UNCHANGED <<n, status, jump, lines, tty, sent>>

-----------------------------------------------------------------------------
(* The children                                                            *)

Written(c) == Cardinality({k \in DOMAIN lines : lines[k].child = c})

\* Input() writes the next name; sleep() lets anybody run after it.
Input(c) ==
  /\ pc[c] = "input" /\ Written(c) < Names
  /\ lines' = Append(lines, [child |-> c, name |-> Written(c)])
  /\ UNCHANGED <<pc, n, status, how, jump, tty, buffer, out, sent>>

\* Its end: wait() without children returns -1, and switch (n)
Switch(c) ==
  /\ pc[c] = "input" /\ Written(c) = Names
  /\ pc' = [pc EXCEPT ![c] = "case"]
  /\ UNCHANGED <<n, status, how, jump, lines, tty, buffer, out, sent>>

\* case 1 that calls exit() after its handler, as a program often does.
ExitInHandler ==
  /\ pc[1] = "case"
  /\ End(1, 0)
  /\ UNCHANGED <<n, status, jump, lines, tty, sent>>

Case0 ==
  /\ pc[0] = "case"
  /\ End(0, 7)
  /\ UNCHANGED <<n, status, jump, lines, tty, sent>>

\* abort(): sigHandler() returns, and the process is killed all the same.
Case1 ==
  /\ pc[1] = "case"
  /\ End(1, SIGABRT)
  /\ UNCHANGED <<n, status, jump, lines, tty, sent>>

Setjmp ==
  /\ pc[2] = "case"
  /\ jump' = jump \cup {2}
  /\ pc' = [pc EXCEPT ![2] = "divide"]
  /\ UNCHANGED <<n, status, how, lines, tty, buffer, out, sent>>

\* status/0 raises SIGFPE, and sigHandler() jumps back to setjmp().
Divide ==
  /\ pc[2] = "divide"
  /\ pc' = [pc EXCEPT ![2] = "safe"]
  /\ UNCHANGED <<n, status, how, jump, lines, tty, buffer, out, sent>>

Safe ==
  /\ pc[2] = "safe"
  /\ End(2, 0)
  /\ UNCHANGED <<n, status, jump, lines, tty, sent>>

-----------------------------------------------------------------------------
(* Signals.  sigHandler() returns from every other one it is installed for *)

\* SIGFPE from outside: with j set it is the jump to the safe spot, and the
\* signal stays blocked from then on.  Without, longjmp() restores a buffer of
\* zeros, which is undefined: the process dies of the wild jump.
SendFPE(p) ==
  /\ Running(p) /\ sent < MaxSent
  /\ sent' = sent + 1
  /\ IF p \in jump
     THEN /\ pc' = [pc EXCEPT ![p] = "safe"]
          /\ UNCHANGED <<how, buffer, out>>
     ELSE End(p, SIGSEGV)
  /\ UNCHANGED <<n, status, jump, lines, tty>>

SendKill(p) ==
  /\ Running(p) /\ sent < MaxSent
  /\ sent' = sent + 1
  /\ End(p, SIGKILL)
  /\ UNCHANGED <<n, status, jump, lines, tty>>

-----------------------------------------------------------------------------

\* main() after open() and the calls of signal()
Init ==
  /\ pc = [p \in Proc |-> IF p = Parent THEN "fork" ELSE "unborn"]
  /\ n = 0
  /\ status = None
  /\ how = [c \in Child |-> None]
  /\ jump = {}
  /\ lines = <<>>
  /\ tty \in BOOLEAN
  /\ buffer = [p \in Proc |-> <<>>]
  /\ out = <<>>
  /\ sent = 0

ParentStep == Fork \/ ForkFails \/ Wait \/ ReportStatus \/ Return

ChildStep(c) ==
  \/ Input(c)
  \/ Switch(c)
  \/ c = 0 /\ Case0
  \/ c = 1 /\ Case1
  \/ c = 2 /\ (Setjmp \/ Divide \/ Safe)

Next ==
  \/ ParentStep
  \/ \E c \in Child : ChildStep(c)
  \/ \E p \in Proc : SendFPE(p)
  \/ \E p \in Proc : SendKill(p)

\* The parent is scheduled, and a child while one can run; nobody has to send
\* a signal.
Fairness == WF_vars(ParentStep) /\ WF_vars(\E c \in Child : ChildStep(c))

Spec == Init /\ [][Next]_vars /\ Fairness

-----------------------------------------------------------------------------
(* Properties                                                              *)

Report == [child: Child, how: How \cup {None}]

TypeOK ==
  /\ pc \in [Proc -> {"unborn", "input", "case", "divide", "safe", "zombie", "reaped",
                      "fork", "wait", "print", "exited", "killed"}]
  /\ n \in 0..3
  /\ status \in How \cup {None} /\ how \in [Child -> How \cup {None}]
  /\ jump \subseteq {2}
  /\ lines \in Seq([child: Child, name: 0..Names-1])
  /\ tty \in BOOLEAN
  /\ buffer \in [Proc -> Seq(Report)] /\ out \in Seq(Report)
  /\ sent \in 0..MaxSent

\* A printed report is of the child that was forked for it.  When fork()
\* failed, it shows the status of the child before, as if that were the new
\* one's, or an uninitialised variable.
Reports == Range(out) \cup UNION {Range(buffer[p]) : p \in Proc}
ReportIsOfItsChild ==
  \A r \in Reports :
    \/ pc[r.child] = "reaped" /\ r.how = how[r.child]
    \/ /\ pc[r.child] = "unborn"
       /\ r.how \in {None} \cup {how[c] : c \in 0..(r.child - 1)}

\* The children take turns: their lines in the file never mix, though nobody
\* locks it, and each child's lines are in order.
LinesInOrder ==
  \A j, k \in DOMAIN lines : j < k =>
    \/ lines[j].child < lines[k].child
    \/ lines[j].child = lines[k].child /\ lines[j].name < lines[k].name

\* No process is left when main() returns, and every child has been waited for.
NobodyLeft == pc[Parent] = "exited" => \A c \in Child : pc[c] \in {"unborn", "reaped"}

\* A terminal shows every report once.  In a file, the third child writes the
\* two reports it has inherited and the parent writes them again; a child that
\* dies of a signal writes nothing, so none of them is there three times.
Copies(c) == Cardinality({k \in DOMAIN out : out[k].child = c})
ReportedOnceOrTwice ==
  /\ \A c \in Child : Copies(c) <= IF tty \/ c = 2 THEN 1 ELSE 2
  /\ pc[Parent] = "exited" =>
       \A c \in Child :
         Copies(c) = IF ~tty /\ c < 2 /\ how[2] = 0 THEN 2 ELSE 1

\* However children end, what is reported and what they wrote is of the right
\* child, in order, and none is left.
ReportsAreRight ==
  /\ TypeOK /\ ReportIsOfItsChild
  /\ LinesInOrder /\ NobodyLeft
  /\ ReportedOnceOrTwice
=============================================================================
