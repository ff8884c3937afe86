------------------------------ MODULE Programs -------------------------------
(***************************************************************************)
(* Seven programs of the Unix course, and the lines and files of vision.   *)
(* They share nothing but a state space: program says which of them runs,  *)
(* and the variables of the others are Off.  Each is an instance of its    *)
(* own module; those that work on files are in Files.                      *)
(***************************************************************************)
EXTENDS Integers, Sequences, Files

CONSTANTS
  MaxSignals,                                       \* Signals
  MaxKills,                                         \* ProcessControl
  Sizes,                                            \* MatrixMultiplication
  Coord, Rows, Cols,                                \* DrawLine
  child, parent, Rounds, InitialValue, InitialErr   \* Semaphores

VARIABLES
  program,
  installed, mask, pending, oldset, newset, waitset, saved, frames, actions, sent,
  n, status, how, jump, lines, tty, buffer, out, outside,
  S, filled, i, thread, mrow, C,
  x0, y0, x1, y1, ignore, dir, umin, umax, vmin, vmax, u, v, d, image,
  semval, semadj, round, err, written, initial, failed

Off == "off"

Sig == INSTANCE Signals WITH MaxSent <- MaxSignals
Proc == INSTANCE ProcessControl WITH MaxSent <- MaxKills, sent <- outside
Mat == INSTANCE MatrixMultiplication WITH row <- mrow
Line == INSTANCE DrawLine
Sem == INSTANCE Semaphores WITH Turns <- Rounds, i <- round, file <- written

ASSUME ProgramsAssumption ==
  /\ Sig!SignalsAssumption /\ Proc!ProcessControlAssumption
  /\ Mat!MatrixAssumption /\ Line!DrawLineAssumption /\ Sem!SemaphoresAssumption

sig == <<installed, mask, pending, oldset, newset, waitset, saved, frames, actions, sent>>
proc == <<n, status, how, jump, lines, tty, buffer, out, outside>>
time == <<now, writable, file, prevTime, currSec, offset, wake, log, disturbed>>
walk == <<tree, changes, touched, fullpath, slash, pathlen, startLen, stack, count, seen, missed>>
book == <<books, edits, buf, junk, row, todo, at, edit, rows, overlapped, cut>>
mat == <<S, filled, i, thread, mrow, C>>
scan == <<x0, y0, x1, y1, ignore, dir, umin, umax, vmin, vmax, u, v, d, image>>
disk == <<picture, room, version, threshold, stream, pgm, pixel, wrote, pos, line,
          got, brightest, loaded>>
lock == <<semval, semadj, round, err, written, initial, failed>>
vars == <<program, pc, sig, proc, time, walk, book, mat, scan, disk, lock>>

Signals == program = "Signals"
ProcessControl == program = "ProcessControl"
TimeLog == program = "TimeLog"
DirectoryWalk == program = "DirectoryWalk"
BookFile == program = "BookFile"
MatrixMultiplication == program = "MatrixMultiplication"
DrawLine == program = "DrawLine"
PgmFiles == program = "PgmFiles"
Semaphores == program = "Semaphores"

SigOff ==
  /\ installed = Off /\ mask = Off /\ pending = Off /\ oldset = Off /\ newset = Off
  /\ waitset = Off /\ saved = Off /\ frames = Off /\ actions = Off /\ sent = Off
ProcOff ==
  /\ n = Off /\ status = Off /\ how = Off /\ jump = Off /\ lines = Off
  /\ tty = Off /\ buffer = Off /\ out = Off /\ outside = Off
TimeOff ==
  /\ now = Off /\ writable = Off /\ file = Off /\ prevTime = Off /\ currSec = Off
  /\ offset = Off /\ wake = Off /\ log = Off /\ disturbed = Off
WalkOff ==
  /\ tree = Off /\ changes = Off /\ touched = Off /\ fullpath = Off /\ slash = Off
  /\ pathlen = Off /\ startLen = Off /\ stack = Off /\ count = Off /\ seen = Off
  /\ missed = Off
BookOff ==
  /\ books = Off /\ edits = Off /\ buf = Off /\ junk = Off /\ row = Off
  /\ todo = Off /\ at = Off /\ edit = Off /\ rows = Off
  /\ overlapped = Off /\ cut = Off
MatOff ==
  /\ S = Off /\ filled = Off /\ i = Off /\ thread = Off /\ mrow = Off /\ C = Off
ScanOff ==
  /\ x0 = Off /\ y0 = Off /\ x1 = Off /\ y1 = Off /\ ignore = Off
  /\ dir = Off /\ umin = Off /\ umax = Off /\ vmin = Off /\ vmax = Off
  /\ u = Off /\ v = Off /\ d = Off /\ image = Off
DiskOff ==
  /\ picture = Off /\ room = Off /\ version = Off /\ threshold = Off
  /\ stream = Off /\ pgm = Off /\ pixel = Off /\ wrote = Off /\ pos = Off
  /\ line = Off /\ got = Off /\ brightest = Off /\ loaded = Off
LockOff ==
  /\ semval = Off /\ semadj = Off /\ round = Off /\ err = Off /\ written = Off
  /\ initial = Off /\ failed = Off

Init ==
  /\ program \in {"Signals", "ProcessControl", "TimeLog", "DirectoryWalk", "BookFile",
                  "MatrixMultiplication", "DrawLine", "PgmFiles", "Semaphores"}
  /\ IF Signals THEN Sig!Init ELSE SigOff
  /\ IF ProcessControl THEN Proc!Init ELSE ProcOff
  /\ IF TimeLog THEN Time!Init ELSE TimeOff
  /\ IF DirectoryWalk THEN Dir!Init ELSE WalkOff
  /\ IF BookFile THEN Book!Init ELSE BookOff
  /\ IF MatrixMultiplication THEN Mat!Init ELSE MatOff
  /\ IF DrawLine THEN Line!Init ELSE ScanOff
  /\ IF PgmFiles THEN Pgm!Init ELSE DiskOff
  /\ IF Semaphores THEN Sem!Init ELSE LockOff

Next ==
  \/ Signals /\ Sig!Next
     /\ UNCHANGED <<program, proc, time, walk, book, mat, scan, disk, lock>>
  \/ ProcessControl /\ Proc!Next
     /\ UNCHANGED <<program, sig, time, walk, book, mat, scan, disk, lock>>
  \/ TimeLog /\ Time!Next
     /\ UNCHANGED <<program, sig, proc, walk, book, mat, scan, disk, lock>>
  \/ DirectoryWalk /\ Dir!Next
     /\ UNCHANGED <<program, sig, proc, time, book, mat, scan, disk, lock>>
  \/ BookFile /\ Book!Next
     /\ UNCHANGED <<program, sig, proc, time, walk, mat, scan, disk, lock>>
  \/ MatrixMultiplication /\ Mat!Next
     /\ UNCHANGED <<program, sig, proc, time, walk, book, scan, disk, lock>>
  \/ DrawLine /\ Line!Next
     /\ UNCHANGED <<program, sig, proc, time, walk, book, mat, disk, lock>>
  \/ PgmFiles /\ Pgm!Next
     /\ UNCHANGED <<program, sig, proc, time, walk, book, mat, scan, lock>>
  \/ Semaphores /\ Sem!Next
     /\ UNCHANGED <<program, sig, proc, time, walk, book, mat, scan, disk>>

\* The fairness of each program's own module, while it is the one that runs.
Fairness ==
  /\ WF_(Sig!vars)(Signals /\ Sig!MainStep)
  /\ WF_(Sig!vars)(Signals /\ Sig!Handler)
  /\ WF_(Sig!vars)(Signals /\ \E s \in Sig!Signal : Sig!Deliver(s) \/ Sig!Die(s))
  /\ WF_(Proc!vars)(ProcessControl /\ Proc!ParentStep)
  /\ WF_(Proc!vars)(ProcessControl /\ \E c \in Proc!Child : Proc!ChildStep(c))
  /\ WF_(Time!vars)(TimeLog /\ Time!Tick)
  /\ \A l \in Logger : WF_(Time!vars)(TimeLog /\ Time!Step(l))
  /\ WF_(Dir!vars)(DirectoryWalk /\ Dir!Walk)
  /\ WF_(Mat!vars)(MatrixMultiplication /\ Mat!Main)
  /\ WF_(Mat!vars)(MatrixMultiplication /\ \E t \in Mat!Sect : Mat!Thread(t))
  /\ WF_(Line!vars)(DrawLine /\ Line!Next)
  /\ \A s \in Sem!Proc : WF_(Sem!vars)(Semaphores /\ Sem!Step(s))

Spec == Init /\ [][Next]_vars /\ Fairness

-----------------------------------------------------------------------------
(* The properties of the modules                                           *)

\* LeeSignal: signals neither get into CriticalCode() nor are lost.
SignalsAreSafe == Signals => Sig!SignalsAreSafe

\* LeeProcessControl: reports and lines are of the right child, in order.
ReportsAreRight == ProcessControl => Proc!ReportsAreRight

\* LeeHomework5: loggers one after the other keep the log whole.
LogStaysWhole == TimeLog => Time!LogStaysWhole

\* LeeHomework4: the walk of a tree that changes keeps its buffer, its place
\* and its count.
WalkIsRight == DirectoryWalk => Dir!WalkIsRight

\* books.txt: edits give the rows asked for and spare the others.
RowsAreKept == BookFile => Book!RowsAreKept

\* LeeMatrixMultiplication: the threads need no lock.
ProductIsRight == MatrixMultiplication => Mat!ProductIsRight

\* vision: a line is drawn from end to end, half a pixel from it at most.
LineIsRight == DrawLine => Line!LineIsRight

\* vision: what is read is what was written, or an error is reported.
FileIsReadRight == PgmFiles => Pgm!FileIsReadRight

\* LeeSemaphores: whoever ends or is killed, the semaphore counts, and after a
\* semop() that failed nothing is lost for good ...
SemaphoreCounts == Semaphores => Sem!TypeOK /\ Sem!Conserved /\ Sem!Repaid

\* ... and keeps child and parent apart.
SemaphoreExcludes == Semaphores => Sem!Exclusive

\* The programs but the logger end: sigsuspend() does not sleep through the
\* signal raised before it, main() waits for no child for ever, the walk goes
\* on where a directory could not be read, every thread is joined, the scan
\* of a line reaches its end, child and parent get the semaphore they wait for.
Ended ==
  /\ Signals => ~Sig!Alive
  /\ ProcessControl => pc[Proc!Parent] \in {"exited", "killed"}
  /\ DirectoryWalk => pc = "done"
  /\ MatrixMultiplication => pc \in {"done", "failed"}
  /\ DrawLine => pc \in {"done", "aborted"}
  /\ Semaphores => Sem!Ended
\* A new logger writes a line, unless it may not or is killed.
Logged(l) ==
  \/ ~writable \/ pc[l] = "killed"
  \/ \E k \in DOMAIN log : log[k].by = l
Progress ==
  /\ <>Ended
  /\ \A l \in Logger : TimeLog /\ pc[l] = "open" ~> TimeLog /\ Logged(l)
=============================================================================
