------------------------------- MODULE TimeLog -------------------------------
(***************************************************************************)
(* LeeHomework5: a program that forks a logger and returns.  The logger    *)
(* appends the time to time.txt, as the line's text and its end in two     *)
(* writes at the offset of its own descriptor, and sleeps for a minute.    *)
(* The program may be run again while a logger runs, and one may be killed.*)
(***************************************************************************)
EXTENDS Integers, Sequences

CONSTANTS
  Logger,   \* runs of the program
  Start,    \* seconds since the epoch when the first may run
  MaxTime   \* bound: seconds that pass

TimeLogAssumption == Start \in Nat /\ Start >= 60 /\ MaxTime \in Nat

Minute == 60

Width == 2  \* cells of a line's text; 19 bytes in the code
NL == [by |-> "line end", at |-> 0, part |-> 0]

VARIABLES
  now,       \* time(NULL)
  writable,  \* whether the user may write time.txt
  file,      \* its contents, in cells
  pc, prevTime, currSec, offset, wake,  \* of each logger
  log,       \* the lines written, in order
  disturbed  \* two loggers ran at once, or one was killed within a line

locals == <<prevTime, currSec, offset, wake>>
vars == <<now, writable, file, pc, locals, log, disturbed>>

Active(l) == pc[l] \notin {"off", "killed"}
Line(l, t) == [k \in 1..Width |-> [by |-> l, at |-> t, part |-> k]]

\* The contents after cells were written at an offset of the file.
Written(f, at, cells) ==
  [k \in 1..(IF at + Len(cells) > Len(f) THEN at + Len(cells) ELSE Len(f)) |->
     IF k \in at+1..at+Len(cells) THEN cells[k - at] ELSE f[k]]

\* access(), fork().  The child's first open() and lseek() are steps of its own.
Fork(l) ==
  /\ pc[l] = "off"
  /\ pc' = [pc EXCEPT ![l] = "open"]
  /\ disturbed' = (disturbed \/ \E m \in Logger : Active(m))
  /\ UNCHANGED <<now, writable, file, locals, log>>

\* A logger that does not seek to the end.
OpenAtStart(l) ==
  /\ pc[l] = "open"
  /\ offset' = [offset EXCEPT ![l] = 0]
  /\ pc' = [pc EXCEPT ![l] = "time"]
  /\ UNCHANGED <<now, writable, file, prevTime, currSec, wake, log, disturbed>>

\* open(filename, O_RDWR), lseek(fd, 0, SEEK_END)
Open(l) ==
  /\ pc[l] = "open"
  /\ offset' = [offset EXCEPT ![l] = Len(file)]
  /\ pc' = [pc EXCEPT ![l] = "time"]
  /\ UNCHANGED <<now, writable, file, prevTime, currSec, wake, log, disturbed>>

\* The test with its operands the other way round.
ReadTimeSwapped(l) ==
  /\ pc[l] = "time"
  /\ currSec' = [currSec EXCEPT ![l] = now]
  /\ IF prevTime[l] - now >= Minute
     THEN pc' = [pc EXCEPT ![l] = "text"] /\ prevTime' = [prevTime EXCEPT ![l] = now]
     ELSE pc' = [pc EXCEPT ![l] = "rest"] /\ UNCHANGED prevTime
  /\ UNCHANGED <<now, writable, file, offset, wake, log, disturbed>>

ReadTime(l) ==
  /\ pc[l] = "time"
  /\ currSec' = [currSec EXCEPT ![l] = now]
  /\ IF now - prevTime[l] >= Minute
     THEN pc' = [pc EXCEPT ![l] = "text"] /\ prevTime' = [prevTime EXCEPT ![l] = now]
     ELSE pc' = [pc EXCEPT ![l] = "rest"] /\ UNCHANGED prevTime
  /\ UNCHANGED <<now, writable, file, offset, wake, log, disturbed>>

\* An offset that counts what write() was given, not what it wrote.
WriteCounted(l, cells) ==
  /\ file' = IF writable THEN Written(file, offset[l], cells) ELSE file
  /\ offset' = [offset EXCEPT ![l] = @ + Len(cells)]

\* write(), whose result nobody looks at: on a file that may only be read,
\* open() has failed and every write fails.
Write(l, cells) ==
  IF writable
  THEN /\ file' = Written(file, offset[l], cells)
       /\ offset' = [offset EXCEPT ![l] = @ + Len(cells)]
  ELSE UNCHANGED <<file, offset>>

WriteText(l) ==
  /\ pc[l] = "text"
  /\ Write(l, Line(l, currSec[l]))
  /\ log' = IF writable THEN Append(log, [by |-> l, at |-> currSec[l]]) ELSE log
  /\ pc' = [pc EXCEPT ![l] = "newline"]
  /\ UNCHANGED <<now, writable, prevTime, currSec, wake, disturbed>>

WriteNewline(l) ==
  /\ pc[l] = "newline"
  /\ Write(l, <<NL>>)
  /\ pc' = [pc EXCEPT ![l] = "rest"]
  /\ UNCHANGED <<now, writable, prevTime, currSec, wake, log, disturbed>>

\* sleep(60)
Sleep(l) ==
  /\ pc[l] = "rest"
  /\ wake' = [wake EXCEPT ![l] = now + Minute]
  /\ pc' = [pc EXCEPT ![l] = "sleep"]
  /\ UNCHANGED <<now, writable, file, prevTime, currSec, offset, log, disturbed>>

Wake(l) ==
  /\ pc[l] = "sleep" /\ now >= wake[l]
  /\ pc' = [pc EXCEPT ![l] = "time"]
  /\ UNCHANGED <<now, writable, file, locals, log, disturbed>>

\* There is no other way to end a logger.
Kill(l) ==
  /\ Active(l)
  /\ pc' = [pc EXCEPT ![l] = "killed"]
  /\ disturbed' = (disturbed \/ pc[l] = "newline")
  /\ UNCHANGED <<now, writable, file, locals, log>>

Tick ==
  /\ now + 30 <= Start + MaxTime
  /\ now' = now + 30
  /\ UNCHANGED <<writable, file, pc, locals, log, disturbed>>

Init ==
  /\ now = Start /\ writable \in BOOLEAN
  /\ file = <<>> /\ log = <<>> /\ disturbed = FALSE
  /\ pc = [l \in Logger |-> "off"]
  /\ prevTime = [l \in Logger |-> 0] /\ currSec = [l \in Logger |-> 0]
  /\ offset = [l \in Logger |-> 0] /\ wake = [l \in Logger |-> 0]

Step(l) ==
  \/ Open(l) \/ ReadTime(l) \/ WriteText(l) \/ WriteNewline(l) \/ Sleep(l) \/ Wake(l)

Next ==
  \/ Tick
  \/ \E l \in Logger : Fork(l) \/ Step(l) \/ Kill(l)

\* A logger is scheduled; time passes by itself and nobody has to run or kill.
Fairness == WF_vars(Tick) /\ \A l \in Logger : WF_vars(Step(l))

Spec == Init /\ [][Next]_vars /\ Fairness

-----------------------------------------------------------------------------
(* Properties                                                              *)

TypeOK ==
  /\ now \in Start..Start + MaxTime /\ writable \in BOOLEAN
  /\ \A k \in DOMAIN file :
       file[k] = NL \/ (file[k].by \in Logger /\ file[k].at \in Start..now)
  /\ log \in Seq([by: Logger, at: Start..now])
  /\ pc \in [Logger -> {"off", "open", "time", "text", "newline", "rest", "sleep", "killed"}]
  /\ prevTime \in [Logger -> {0} \cup Start..now]
  /\ currSec \in [Logger -> {0} \cup Start..now]
  /\ offset \in [Logger -> 0..Len(file)]
  /\ wake \in [Logger -> {0} \cup Start..now + Minute]
  /\ disturbed \in BOOLEAN

\* Without O_APPEND and without a lock, the log is whole, line after line and
\* nothing overwritten, as long as one logger runs at a time and none is
\* killed between its two writes, however many ran one after the other.
Cells(r) == Append(Line(r.by, r.at), NL)
Text == [k \in 1..(Width + 1) * Len(log) |->
           Cells(log[(k - 1) \div (Width + 1) + 1])[((k - 1) % (Width + 1)) + 1]]
UndisturbedLogIsWhole ==
  ~disturbed =>
    file = IF \E l \in Logger : pc[l] = "newline" /\ writable
           THEN SubSeq(Text, 1, Len(Text) - 1) ELSE Text

\* The log file stays what one logger after the other wrote.
LogStaysWhole == TypeOK /\ UndisturbedLogIsWhole
=============================================================================
