---------------------------- MODULE Programs_proofs ----------------------------
(* The programs of the courses that share nothing with each other.  Each      *)
(* theorem is about the runs of one of them.                                  *)
EXTENDS Programs, Files_proofs, FiniteSets, FiniteSetTheorems, SequenceTheorems, TLAPS

\* A step is one of the program that runs.
LEMMA OneProgramRuns ==
  ASSUME [Next]_vars
  PROVE  /\ program' = program
         /\ Signals => [Sig!Next]_(Sig!vars)
         /\ ProcessControl => [Proc!Next]_(Proc!vars)
         /\ TimeLog => [Time!Next]_(Time!vars)
         /\ DirectoryWalk => [Dir!Next]_(Dir!vars)
         /\ BookFile => [Book!Next]_(Book!vars)
         /\ MatrixMultiplication => [Mat!Next]_(Mat!vars)
         /\ DrawLine => [Line!Next]_(Line!vars)
         /\ PgmFiles => [Pgm!Next]_(Pgm!vars)
         /\ Semaphores => [Sem!Next]_(Sem!vars)
<1>1. CASE UNCHANGED vars
  <2>1. UNCHANGED <<program, pc, sig, proc, time, walk, book, mat, scan, disk, lock>>
    BY <1>1 DEF vars
  <2>2. QED
    BY <2>1 DEF sig, proc, time, walk, book, mat, scan, disk, lock, Sig!vars, Sig!sets, Proc!vars,
      Time!vars, Time!locals, Dir!vars, Dir!files, Book!vars, Mat!vars,
      Line!vars, Line!args, Line!ends, Pgm!vars, Pgm!inputs, Pgm!wvars, Pgm!rvars, Sem!vars
<1>2. CASE Next
  BY <1>2 DEF Next, Signals, ProcessControl, TimeLog, DirectoryWalk, BookFile,
    MatrixMultiplication, DrawLine, PgmFiles, Semaphores
<1>3. QED
  BY <1>1, <1>2

-----------------------------------------------------------------------------
(* LeeSignal: signals come at any time, any number of them.                  *)

(* The inductive invariant.                                                  *)

\* What main() has blocked, while no handler runs.
Base(place) ==
  CASE place \in {"install", "setmask"} -> {}
    [] place \in {"block", "suspended"} -> {"SIGABRT", "SIGALRM"}
    [] OTHER -> Sig!Blocked

\* What stays blocked whatever handlers run.
Low(place) == IF place = "finish" THEN {"SIGABRT", "SIGALRM"} ELSE Base(place)

\* The mask that the k-th handler will leave; after the last, the mask.
Depth == Len(frames) + 1
Level(k) == IF k \in 1..Len(frames) THEN frames[k].mask ELSE mask

\* A handler blocks its signal for those that interrupt it, and returns to
\* the mask it found.
Nested ==
  /\ \A k \in 1..Depth : \A j \in 1..k - 1 : frames[j].signo \in Level(k)
  /\ Sig!Alive => Level(1) = Base(pc) /\ \A k \in 1..Depth : Low(pc) \subseteq Level(k)
  /\ Sig!InCriticalCode => \A j \in 1..Len(frames) : frames[j].signo \notin Sig!Blocked
  /\ \A k \in 2..Len(frames) : frames[k].signo \notin frames[k].mask
  /\ pc \in {"suspended", "exited"} => frames = <<>>

\* The sets of the program.
SetsOfMain ==
  /\ oldset = {"SIGINT"} /\ newset = {"SIGABRT", "SIGALRM"}
  /\ pc = "install" => installed < 4
  /\ pc = "suspended" => saved = Sig!Blocked
  /\ pc \in {"install", "setmask", "block", "raise", "sigpending"} => waitset = {}

\* The handler of s runs or has written.
Handled(s) ==
  \/ \E k \in 1..Len(actions) : actions[k] = s
  \/ \E k \in 1..Len(frames) : frames[k].signo = s

\* Where the raised SIGINT is.
Raised ==
  /\ pc \in {"sigpending", "print", "suspend", "suspended"} => "SIGINT" \in pending
  /\ pc \in {"finish", "exited"} =>
       Handled("SIGINT") \/ ("SIGINT" \in pending /\ Handled("SIGHUP"))

SigInv == Sig!TypeOK /\ Nested /\ SetsOfMain /\ Raised /\ Sig!WaitSetStaysPending

\* main() installs four handlers.
LEMMA FourHandlers == Len(Sig!InstallOrder) = 4
BY DEF Sig!InstallOrder

\* What the types say of the sequences.
LEMMA SignalTypes ==
  ASSUME Sig!TypeOK
  PROVE  /\ Len(frames) \in Nat /\ Depth \in Nat /\ Len(actions) \in Nat
         /\ \A k \in 1..Len(frames) : frames[k].signo \in Sig!Signal /\ frames[k].mask \subseteq Sig!Signal
         /\ \A k \in 1..Depth : Level(k) \subseteq Sig!Signal
         /\ mask \subseteq Sig!Signal /\ pending \subseteq Sig!Signal /\ saved \subseteq Sig!Signal
         /\ waitset \subseteq Sig!Signal
         /\ frames = <<>> <=> Len(frames) = 0
<1>1. /\ frames \in Seq([signo: Sig!Signal, mask: SUBSET Sig!Signal]) /\ actions \in Seq(Sig!Signal)
      /\ mask \subseteq Sig!Signal /\ pending \subseteq Sig!Signal /\ saved \subseteq Sig!Signal
      /\ waitset \subseteq Sig!Signal
  BY DEF Sig!TypeOK
<1>2. /\ Len(frames) \in Nat /\ Len(actions) \in Nat
      /\ \A k \in 1..Len(frames) : frames[k] \in [signo: Sig!Signal, mask: SUBSET Sig!Signal]
  BY <1>1, LenProperties, ElementOfSeq
<1>3. \A k \in 1..Len(frames) : frames[k].signo \in Sig!Signal /\ frames[k].mask \subseteq Sig!Signal
  BY <1>2
<1>4. frames = <<>> <=> Len(frames) = 0
  BY <1>1, EmptySeq
<1>5. QED
  BY <1>1, <1>2, <1>3, <1>4 DEF Depth, Level

\* main() has installed nothing and no signal has come.
LEMMA SigInit == Sig!SignalsAssumption /\ Sig!Init => SigInv
<1> SUFFICES ASSUME Sig!SignalsAssumption, Sig!Init PROVE SigInv
    OBVIOUS
<1>1. Len(frames) = 0 /\ Depth = 1
  BY DEF Sig!Init, Depth
<1>2. Sig!TypeOK
  <2>1. <<>> \in Seq([signo: Sig!Signal, mask: SUBSET Sig!Signal]) /\ <<>> \in Seq(Sig!Signal)
    OBVIOUS
  <2>2. {"SIGINT"} \subseteq Sig!Signal /\ {"SIGABRT", "SIGALRM"} \subseteq Sig!Signal
    BY DEF Sig!Signal
  <2>3. QED
    BY <2>1, <2>2, FourHandlers DEF Sig!Init, Sig!TypeOK, Sig!SignalsAssumption
<1>3. Nested
  BY <1>1 DEF Sig!Init, Nested, Level, Base, Low, Sig!InCriticalCode
<1>4. QED
  BY <1>2, <1>3 DEF SigInv, Sig!Init, SetsOfMain, Raised, Sig!WaitSetStaysPending

\* main() runs only while no handler does.
LEMMA SigMain ==
  ASSUME SigInv, Sig!MainStep
  PROVE  SigInv'
<1>1. frames = <<>> /\ frames' = frames /\ Len(frames) = 0 /\ Depth = 1 /\ Depth' = 1
      /\ UNCHANGED <<actions, oldset, sent>>
  BY DEF Sig!MainStep, Sig!Install, Sig!SetMask, Sig!Block, Sig!Raise, Sig!SigPending, Sig!PrintSigset,
    Sig!Suspend, Sig!Finish, Sig!At, Depth, Sig!sets
<1>2. /\ Sig!TypeOK /\ Nested /\ SetsOfMain /\ Raised /\ Sig!WaitSetStaysPending
      /\ mask \subseteq Sig!Signal /\ pending \subseteq Sig!Signal
  BY SignalTypes DEF SigInv
<1>3. /\ Sig!Alive => mask = Base(pc)
      /\ Level(1) = mask
  BY <1>1, <1>2 DEF Nested, Level
<1>4. (Sig!Alive' => mask' = Base(pc')) => Nested'
  <2>1. Level(1)' = mask' /\ Low(pc)' \subseteq Base(pc)'
    BY <1>1 DEF Level, Low, Base, Sig!Blocked
  <2>2. \A k \in 1..Depth' : k = 1
    BY <1>1
  <2>3. QED
    BY <1>1, <2>1, <2>2 DEF Nested, Base
<1>5. CASE Sig!Install
  <2>1. /\ pc = "install" /\ installed' = installed + 1
        /\ pc' = (IF installed' = 4 THEN "setmask" ELSE "install")
        /\ UNCHANGED <<mask, pending, newset, waitset, saved>>
    BY <1>5 DEF Sig!Install, Sig!At, Sig!InstallOrder, Sig!sets
  <2>2. Sig!TypeOK'
    BY <1>1, <1>2, <1>3, <1>4, <2>1, FourHandlers DEF Sig!TypeOK, Sig!Signal, Sig!Blocked, SetsOfMain
  <2>3. SetsOfMain' /\ Sig!WaitSetStaysPending'
    BY <1>1, <1>2, <1>3, <1>4, <2>1, FourHandlers DEF Sig!TypeOK, SetsOfMain, Sig!WaitSetStaysPending, Base, Sig!Alive, Sig!Blocked, Raised
  <2>4. Raised'
    BY <1>1, <1>2, <1>3, <1>4, <2>1 DEF Raised
  <2>5. Nested'
    BY <1>1, <1>2, <1>3, <1>4, <2>1 DEF Base, Sig!Alive, SetsOfMain
  <2>6. QED
    BY <2>2, <2>3, <2>4, <2>5 DEF SigInv
<1>6. CASE Sig!SetMask
  <2>1. pc = "setmask" /\ mask' = newset /\ pc' = "block"
        /\ UNCHANGED <<installed, pending, newset, waitset, saved>>
    BY <1>6 DEF Sig!SetMask, Sig!At, Sig!sets
  <2>2. Sig!TypeOK'
    BY <1>1, <1>2, <1>4, <2>1, FourHandlers DEF Sig!TypeOK, Sig!Signal, Sig!Blocked, SetsOfMain
  <2>3. SetsOfMain' /\ Sig!WaitSetStaysPending'
    BY <1>1, <1>2, <1>4, <2>1 DEF SetsOfMain, Sig!WaitSetStaysPending, Base, Sig!Alive, Sig!Blocked, Raised
  <2>4. Raised'
    BY <1>1, <1>2, <1>4, <2>1 DEF Raised
  <2>5. Nested'
    BY <1>1, <1>2, <1>4, <2>1 DEF Base, Sig!Alive, SetsOfMain
  <2>6. QED
    BY <2>2, <2>3, <2>4, <2>5 DEF SigInv
<1>7. CASE Sig!Block
  <2>1. pc = "block" /\ newset' = mask /\ mask' = mask \cup oldset /\ pc' = "raise"
        /\ UNCHANGED <<installed, pending, waitset, saved>>
    BY <1>7 DEF Sig!Block, Sig!At
  <2>2. mask = {"SIGABRT", "SIGALRM"} /\ mask' = Sig!Blocked
    BY <1>2, <1>3, <2>1 DEF Base, Sig!Alive, SetsOfMain, Sig!Blocked
  <2>3. Sig!TypeOK'
    BY <1>1, <1>2, <1>4, <2>1, <2>2, FourHandlers DEF Sig!TypeOK, Sig!Signal, Sig!Blocked, SetsOfMain
  <2>4. SetsOfMain' /\ Sig!WaitSetStaysPending'
    BY <1>1, <1>2, <1>4, <2>1, <2>2 DEF SetsOfMain, Sig!WaitSetStaysPending, Base, Sig!Alive, Sig!Blocked, Raised
  <2>5. Raised'
    BY <1>1, <1>2, <1>4, <2>1, <2>2 DEF Raised
  <2>6. Nested'
    BY <1>1, <1>2, <1>4, <2>1, <2>2 DEF Base, Sig!Alive, SetsOfMain
  <2>7. QED
    BY <2>3, <2>4, <2>5, <2>6 DEF SigInv
<1>8. CASE Sig!Raise
  <2>1. pc = "raise" /\ pending' = pending \cup {"SIGINT"} /\ pc' = "sigpending"
        /\ UNCHANGED <<installed, mask, newset, waitset, saved>>
    BY <1>8 DEF Sig!Raise, Sig!At, Sig!sets
  <2>2. Sig!TypeOK'
    BY <1>1, <1>2, <1>3, <1>4, <2>1, FourHandlers DEF Sig!TypeOK, Sig!Signal, Sig!Blocked, SetsOfMain
  <2>3. SetsOfMain' /\ Sig!WaitSetStaysPending'
    BY <1>1, <1>2, <1>3, <1>4, <2>1 DEF SetsOfMain, Sig!WaitSetStaysPending, Base, Sig!Alive, Sig!Blocked, Raised
  <2>4. Raised'
    BY <1>1, <1>2, <1>3, <1>4, <2>1 DEF Raised
  <2>5. Nested'
    BY <1>1, <1>2, <1>3, <1>4, <2>1 DEF Base, Sig!Alive, SetsOfMain
  <2>6. QED
    BY <2>2, <2>3, <2>4, <2>5 DEF SigInv
<1>9. CASE Sig!SigPending
  <2>1. pc = "sigpending" /\ waitset' = pending /\ pc' = "print"
        /\ UNCHANGED <<installed, mask, pending, newset, saved>>
    BY <1>9 DEF Sig!SigPending, Sig!At
  <2>2. Sig!TypeOK'
    BY <1>1, <1>2, <1>3, <1>4, <2>1, FourHandlers DEF Sig!TypeOK, Sig!Signal, Sig!Blocked, SetsOfMain
  <2>3. SetsOfMain' /\ Sig!WaitSetStaysPending'
    BY <1>1, <1>2, <1>3, <1>4, <2>1 DEF SetsOfMain, Sig!WaitSetStaysPending, Base, Sig!Alive, Sig!Blocked, Raised
  <2>4. Raised'
    BY <1>1, <1>2, <1>3, <1>4, <2>1 DEF Raised
  <2>5. Nested'
    BY <1>1, <1>2, <1>3, <1>4, <2>1 DEF Base, Sig!Alive, SetsOfMain
  <2>6. QED
    BY <2>2, <2>3, <2>4, <2>5 DEF SigInv
<1>10. CASE Sig!PrintSigset
  <2>1. pc = "print" /\ pc' = "suspend" /\ UNCHANGED <<installed, mask, pending, newset, waitset, saved>>
    BY <1>10 DEF Sig!PrintSigset, Sig!At, Sig!sets
  <2>2. Sig!TypeOK'
    BY <1>1, <1>2, <1>3, <1>4, <2>1, FourHandlers DEF Sig!TypeOK, Sig!Signal, Sig!Blocked, SetsOfMain
  <2>3. SetsOfMain' /\ Sig!WaitSetStaysPending'
    BY <1>1, <1>2, <1>3, <1>4, <2>1 DEF SetsOfMain, Sig!WaitSetStaysPending, Base, Sig!Alive, Sig!Blocked, Raised
  <2>4. Raised'
    BY <1>1, <1>2, <1>3, <1>4, <2>1 DEF Raised
  <2>5. Nested'
    BY <1>1, <1>2, <1>3, <1>4, <2>1 DEF Base, Sig!Alive, SetsOfMain
  <2>6. QED
    BY <2>2, <2>3, <2>4, <2>5 DEF SigInv
<1>11. CASE Sig!Suspend
  <2>1. pc = "suspend" /\ saved' = mask /\ mask' = newset /\ pc' = "suspended"
        /\ UNCHANGED <<installed, pending, newset, waitset>>
    BY <1>11 DEF Sig!Suspend, Sig!At, Sig!sets
  <2>2. mask = Sig!Blocked
    BY <1>3, <2>1 DEF Base, Sig!Alive
  <2>3. Sig!TypeOK'
    BY <1>1, <1>2, <1>4, <2>1, <2>2, FourHandlers DEF Sig!TypeOK, Sig!Signal, Sig!Blocked, SetsOfMain
  <2>4. SetsOfMain' /\ Sig!WaitSetStaysPending'
    BY <1>1, <1>2, <1>4, <2>1, <2>2 DEF SetsOfMain, Sig!WaitSetStaysPending, Base, Sig!Alive, Sig!Blocked, Raised
  <2>5. Raised'
    BY <1>1, <1>2, <1>4, <2>1, <2>2 DEF Raised
  <2>6. Nested'
    BY <1>1, <1>2, <1>4, <2>1, <2>2 DEF Base, Sig!Alive, SetsOfMain
  <2>7. QED
    BY <2>3, <2>4, <2>5, <2>6 DEF SigInv
<1>12. CASE Sig!Finish
  <2>1. pc = "finish" /\ pc' = "exited" /\ UNCHANGED <<installed, mask, pending, newset, waitset, saved>>
    BY <1>12 DEF Sig!Finish, Sig!At, Sig!sets
  <2>2. Raised'
    BY <1>1, <1>2, <2>1 DEF Raised, Handled
  <2>3. Sig!TypeOK'
    BY <1>1, <1>2, <1>4, <2>1, <2>2, FourHandlers DEF Sig!TypeOK, Sig!Signal, Sig!Blocked, SetsOfMain
  <2>4. SetsOfMain' /\ Sig!WaitSetStaysPending'
    BY <1>1, <1>2, <1>4, <2>1, <2>2 DEF SetsOfMain, Sig!WaitSetStaysPending, Base, Sig!Alive, Sig!Blocked, Raised
  <2>5. Raised'
    BY <1>1, <1>2, <1>4, <2>1, <2>2 DEF Raised
  <2>6. Nested'
    BY <1>1, <1>2, <1>4, <2>1, <2>2 DEF Base, Sig!Alive, SetsOfMain
  <2>7. QED
    BY <2>3, <2>4, <2>5, <2>6 DEF SigInv
<1>13. QED
  BY <1>5, <1>6, <1>7, <1>8, <1>9, <1>10, <1>11, <1>12 DEF Sig!MainStep

\* A signal that waits changes nothing else.
LEMMA SigSend ==
  ASSUME SigInv, NEW s \in Sig!Signal, Sig!Send(s) \/ Sig!Die(s)
  PROVE  SigInv'
<1>1. /\ Sig!TypeOK /\ Nested /\ SetsOfMain /\ Raised /\ Sig!WaitSetStaysPending
      /\ UNCHANGED <<installed, mask, oldset, newset, waitset, saved, frames, actions>>
      /\ pending \subseteq pending' /\ (pc' = pc \/ pc' = "killed") /\ Sig!Alive
  BY DEF SigInv, Sig!Send, Sig!Die, Sig!sets
<1>2. Sig!TypeOK'
  <2>1. pending' \subseteq Sig!Signal
    BY <1>1, SignalTypes DEF Sig!Send, Sig!Die
  <2>2. sent' \in 0..MaxSignals
    BY <1>1, ProgramsAssumption
    DEF Sig!Send, Sig!Die, Sig!TypeOK, ProgramsAssumption, Sig!SignalsAssumption
  <2>3. QED
    BY <1>1, <2>1, <2>2 DEF Sig!TypeOK
<1>3. Nested'
  BY <1>1 DEF Nested, Depth, Level, Sig!Alive, Sig!InCriticalCode
<1>4. SetsOfMain' /\ Raised' /\ Sig!WaitSetStaysPending'
  BY <1>1 DEF SetsOfMain, Raised, Handled, Sig!WaitSetStaysPending, Sig!Alive
<1>5. QED
  BY <1>2, <1>3, <1>4 DEF SigInv

\* A handler starts: its signal was in none of the masks.
LEMMA SigDeliver ==
  ASSUME SigInv, NEW s \in Sig!Signal, Sig!Deliver(s)
  PROVE  SigInv'
<1>1. /\ Sig!TypeOK /\ Nested /\ SetsOfMain /\ Raised /\ Sig!WaitSetStaysPending
      /\ UNCHANGED <<installed, oldset, newset, waitset, saved, actions, sent>>
      /\ Sig!Alive /\ s \in pending /\ s \notin mask
      /\ pending' = pending \ {s} /\ mask' = mask \cup {s}
      /\ pc' = IF pc = "suspended" THEN "finish" ELSE pc
  BY DEF SigInv, Sig!Deliver, Sig!sets
<1>2. PICK r \in [signo: Sig!Signal, mask: SUBSET Sig!Signal] :
        r.signo = s /\ r.mask = Sig!MaskAfter /\ frames' = Append(frames, r)
  <2>1. Sig!MaskAfter \subseteq Sig!Signal
    BY <1>1, SignalTypes DEF Sig!MaskAfter
  <2>2. frames' = Append(frames, [signo |-> s, mask |-> Sig!MaskAfter])
    BY DEF Sig!Deliver
  <2>3. QED
    BY <2>1, <2>2
<1>3. /\ frames' \in Seq([signo: Sig!Signal, mask: SUBSET Sig!Signal])
      /\ Len(frames') = Len(frames) + 1 /\ Len(frames) \in Nat
      /\ \A k \in 1..Len(frames) : frames'[k] = frames[k]
      /\ frames'[Len(frames) + 1] = r
  <2>1. frames \in Seq([signo: Sig!Signal, mask: SUBSET Sig!Signal])
    BY <1>1 DEF Sig!TypeOK
  <2>2. QED
    BY <1>2, <2>1, AppendProperties
<1>4. Sig!TypeOK'
  <2>1. mask' \subseteq Sig!Signal /\ pending' \subseteq Sig!Signal
    BY <1>1, SignalTypes
  <2>2. QED
    BY <1>1, <1>3, <2>1 DEF Sig!TypeOK
<1> PICK D \in Nat : D = Depth
  BY <1>3 DEF Depth
<1>5. /\ Depth' = D + 1 /\ D = Len(frames) + 1
      /\ \A k \in 1..Len(frames) : Level(k)' = Level(k)
      /\ Level(D)' = Sig!MaskAfter /\ Level(D) = mask
      /\ Level(D + 1)' = mask \cup {s}
  <2>1. /\ Depth' = D + 1 /\ D = Len(frames) + 1 /\ Len(frames') = D
        /\ D \notin 1..Len(frames) /\ D \in 1..D /\ D + 1 \notin 1..D
        /\ \A k \in 1..Len(frames) : k \in 1..D
    BY <1>3 DEF Depth
  <2>2. QED
    BY <1>1, <1>2, <1>3, <2>1 DEF Level
<1>6. CASE pc = "suspended"
  <2>1. /\ Len(frames) = 0 /\ D = 1 /\ pc' = "finish" /\ Sig!MaskAfter = Sig!Blocked
        /\ mask = {"SIGABRT", "SIGALRM"}
    BY <1>1, <1>3, <1>5, <1>6, SignalTypes DEF Nested, Sig!MaskAfter, SetsOfMain, Base
  <2>2. s = "SIGINT" \/ s = "SIGHUP"
    BY <1>1, <2>1 DEF Sig!Signal
  <2>3. Nested'
    <3>1. \A k \in 1..Depth' : k = 1 \/ k = 2
      BY <1>5, <2>1
    <3>2. /\ Level(1)' = Sig!Blocked /\ Level(2)' = {"SIGABRT", "SIGALRM", s} /\ frames'[1].signo = s
          /\ Len(frames') = 1
      BY <1>2, <1>3, <1>5, <2>1, 1 + 1 = 2
    <3>3. QED
      BY <1>3, <2>1, <3>1, <3>2 DEF Nested, Base, Low, Sig!InCriticalCode, Sig!Blocked
  <2>4. Handled(s)'
    BY <1>2, <1>3 DEF Handled
  <2>5. Raised'
    BY <1>1, <1>6, <2>1, <2>2, <2>4 DEF Raised
  <2>6. SetsOfMain' /\ Sig!WaitSetStaysPending'
    BY <1>1, <1>6, <2>1, <2>2 DEF SetsOfMain, Sig!WaitSetStaysPending
  <2>7. QED
    BY <1>4, <2>3, <2>5, <2>6 DEF SigInv
<1>7. CASE pc # "suspended"
  <2>1. pc' = pc /\ Sig!MaskAfter = mask /\ Sig!Alive'
    BY <1>1, <1>7 DEF Sig!MaskAfter, Sig!Alive
  <2>2. \A k \in 1..D : Level(k)' = Level(k)
    <3>1. \A k \in 1..D : k \in 1..Len(frames) \/ k = D
      BY <1>3, <1>5
    <3>2. QED
      BY <1>5, <2>1, <3>1
  <2>3. Low(pc) \subseteq mask /\ D \in 1..D /\ 1 \in 1..D
    <3>1. D \in 1..D /\ 1 \in 1..D
      BY <1>3, <1>5
    <3>2. QED
      BY <1>1, <1>5, <3>1 DEF Nested
  <2>4. Nested'
    <3>1. ASSUME NEW k \in 1..Depth', NEW j \in 1..k - 1
          PROVE  frames'[j].signo \in Level(k)'
      <4>1. CASE k \in 1..D
        <5>1. j \in 1..Len(frames)
          BY <1>3, <1>5, <4>1
        <5>2. QED
          BY <1>1, <1>3, <1>5, <2>2, <4>1, <5>1 DEF Nested
      <4>2. CASE k = D + 1 /\ j \in 1..Len(frames)
        <5>1. j \in 1..D - 1
          BY <1>3, <1>5, <4>2
        <5>2. frames[j].signo \in Level(D)
          BY <1>1, <2>3, <5>1 DEF Nested
        <5>3. QED
          BY <1>3, <1>5, <4>2, <5>2
      <4>3. CASE k = D + 1 /\ j = D
        <5>1. frames'[j] = r
          BY <1>3, <1>5, <4>3
        <5>2. QED
          BY <1>2, <1>5, <4>3, <5>1
      <4>4. QED
        BY <1>3, <1>5, <4>1, <4>2, <4>3
    <3>2. Level(1)' = Base(pc)' /\ \A k \in 1..Depth' : Low(pc)' \subseteq Level(k)'
      <4>1. \A k \in 1..Depth' : k \in 1..D \/ k = D + 1
        BY <1>3, <1>5
      <4>2. Low(pc)' = Low(pc) /\ Base(pc)' = Base(pc)
        BY <2>1 DEF Low, Base
      <4>3. QED
        BY <1>1, <1>3, <1>5, <2>2, <2>3, <4>1, <4>2 DEF Nested
    <3>3. Sig!InCriticalCode' => \A j \in 1..Len(frames') : frames'[j].signo \notin Sig!Blocked
      <4>1. Sig!InCriticalCode => s \notin Sig!Blocked
        BY <1>1, <2>3 DEF Sig!InCriticalCode, Low, Base
      <4>2. \A j \in 1..Len(frames') : j \in 1..Len(frames) \/ j = Len(frames) + 1
        BY <1>3
      <4>3. QED
        BY <1>1, <1>2, <1>3, <2>1, <4>1, <4>2 DEF Nested, Sig!InCriticalCode
    <3>4. pc' \notin {"suspended", "exited"}
      BY <1>1, <1>7, <2>1 DEF Sig!Alive
    <3>5. \A k \in 2..Len(frames') : frames'[k].signo \notin frames'[k].mask
      <4>1. \A k \in 2..Len(frames') : k \in 2..Len(frames) \/ k = Len(frames) + 1
        BY <1>3
      <4>2. \A k \in 2..Len(frames) : k \in 1..Len(frames)
        OBVIOUS
      <4>3. QED
        BY <1>1, <1>2, <1>3, <2>1, <4>1, <4>2 DEF Nested
    <3>6. QED
      BY <3>1, <3>2, <3>3, <3>4, <3>5 DEF Nested
  <2>5. \A x \in Sig!Signal : Handled(x) => Handled(x)'
    <3>1. \A k \in 1..Len(frames) : k \in 1..Len(frames')
      BY <1>3
    <3>2. QED
      BY <1>1, <1>3, <3>1 DEF Handled
  <2>6. Handled(s)'
    BY <1>2, <1>3 DEF Handled
  <2>7. Raised'
    <3>1. pc \in {"sigpending", "print", "suspend"} => s # "SIGINT"
      BY <1>1, <2>3 DEF Low, Base, Sig!Blocked
    <3>2. QED
      BY <1>1, <1>7, <2>1, <2>5, <2>6, <3>1 DEF Raised, Sig!Signal
  <2>8. SetsOfMain'
    BY <1>1, <2>1 DEF SetsOfMain
  <2>9. Sig!WaitSetStaysPending'
    <3>1. CASE waitset = {}
      BY <1>1, <2>1, <3>1 DEF Sig!WaitSetStaysPending
    <3>2. CASE waitset # {}
      <4>1. pc \in {"print", "suspend", "finish"}
        BY <1>1, <1>7, <3>2 DEF SetsOfMain, Sig!Alive, Sig!TypeOK
      <4>2. /\ {"SIGABRT", "SIGALRM"} \subseteq mask
            /\ pc # "finish" => Sig!Blocked \subseteq mask
        BY <2>3, <4>1 DEF Low, Base, Sig!Blocked
      <4>3. QED
        BY <1>1, <2>1, <4>1, <4>2 DEF Sig!WaitSetStaysPending
    <3>3. QED
      BY <3>1, <3>2
  <2>10. QED
    BY <1>4, <2>4, <2>7, <2>8, <2>9 DEF SigInv
<1>8. QED
  BY <1>6, <1>7

\* A handler returns to the mask it found.
LEMMA SigHandler ==
  ASSUME SigInv, Sig!Handler
  PROVE  SigInv'
<1>1. /\ Sig!TypeOK /\ Nested /\ SetsOfMain /\ Raised /\ Sig!WaitSetStaysPending
      /\ UNCHANGED <<pc, installed, pending, oldset, newset, waitset, saved, sent>>
      /\ Sig!Alive /\ frames # <<>>
  BY DEF SigInv, Sig!Handler, Sig!sets
<1> DEFINE L == Len(frames)
<1>2. L \in Nat \ {0} /\ frames \in Seq([signo: Sig!Signal, mask: SUBSET Sig!Signal])
      /\ actions \in Seq(Sig!Signal)
  BY <1>1, SignalTypes DEF Sig!TypeOK
<1>3. /\ mask' = frames[L].mask /\ actions' = Append(actions, frames[L].signo)
      /\ frames' = SubSeq(frames, 1, L - 1)
  BY DEF Sig!Handler, Sig!Last, Sig!Front
<1>4. /\ frames' \in Seq([signo: Sig!Signal, mask: SUBSET Sig!Signal])
      /\ Len(frames') = L - 1 /\ \A k \in 1..L - 1 : frames'[k] = frames[k]
  <2>1. \A k \in 1..L - 1 : k \in 1..Len(frames)
    BY <1>2
  <2>2. L - 1 \in Nat /\ 1 \in Int /\ L - 1 \in Int /\ (L - 1) - 1 + 1 = L - 1
    BY <1>2
  <2>3. \A k \in 1..L - 1 : frames[k] \in [signo: Sig!Signal, mask: SUBSET Sig!Signal]
    BY <1>2, <2>1, ElementOfSeq
  <2>4. /\ frames' \in Seq([signo: Sig!Signal, mask: SUBSET Sig!Signal])
        /\ Len(frames') = IF 1 <= L - 1 THEN (L - 1) - 1 + 1 ELSE 0
        /\ \A k \in 1..L - 1 : frames'[k] = frames[1 + k - 1]
    <3> HIDE DEF L
    <3>1. 1..(L - 1) - 1 + 1 = 1..L - 1
      BY <2>2
    <3>2. QED
      BY <1>3, <2>2, <2>3, <3>1, SubSeqProperties
  <2>5. \A k \in 1..L - 1 : 1 + k - 1 = k
    OBVIOUS
  <2>6. Len(frames') = L - 1
    <3> HIDE DEF L
    <3>1. QED
      BY <1>2, <2>4
  <2>7. QED
    BY <2>4, <2>5, <2>6
<1>5. /\ actions' \in Seq(Sig!Signal) /\ Len(actions) \in Nat /\ Len(actions') = Len(actions) + 1
      /\ \A k \in 1..Len(actions) : actions'[k] = actions[k]
      /\ actions'[Len(actions) + 1] = frames[L].signo
      /\ frames[L].signo \in Sig!Signal /\ mask' \subseteq Sig!Signal
  <2>1. frames[L].signo \in Sig!Signal /\ frames[L].mask \subseteq Sig!Signal
    BY <1>1, <1>2, SignalTypes
  <2>2. QED
    BY <1>2, <1>3, <2>1, AppendProperties
<1> HIDE DEF L
<1>6. Sig!TypeOK'
  BY <1>1, <1>4, <1>5 DEF Sig!TypeOK
<1>7. Depth' = L /\ Depth = L + 1 /\ \A k \in 1..L : Level(k)' = Level(k)
  BY <1>2, <1>3, <1>4 DEF Depth, Level, L
<1>8. Nested'
  <2>1. \A k \in 1..L : k \in 1..Depth /\ \A j \in 1..k - 1 : frames'[j] = frames[j]
    BY <1>2, <1>4, <1>7
  <2>2. \A j \in 1..Len(frames') : j \in 1..Len(frames) /\ frames'[j] = frames[j]
    BY <1>2, <1>4 DEF L
  <2>3. pc \notin {"suspended", "exited"}
    BY <1>1 DEF Nested
  <2>4. 1 \in 1..L
    BY <1>2
  <2>5. \A k \in 2..Len(frames') : k \in 2..Len(frames) /\ frames'[k] = frames[k]
    <3>1. \A k \in 2..Len(frames') : k \in 2..Len(frames) /\ k \in 1..Len(frames')
      BY <1>2, <1>4 DEF L
    <3>2. QED
      BY <2>2, <3>1
  <2>6. \A k \in 1..Depth' : \A j \in 1..k - 1 : frames'[j].signo \in Level(k)'
    BY <1>1, <1>7, <2>1 DEF Nested
  <2>7. Sig!Alive' => Level(1)' = Base(pc)' /\ \A k \in 1..Depth' : Low(pc)' \subseteq Level(k)'
    <3>1. Base(pc)' = Base(pc) /\ Low(pc)' = Low(pc)
      BY <1>1 DEF Base, Low
    <3>2. QED
      BY <1>1, <1>7, <2>1, <2>4, <3>1 DEF Nested
  <2>8. Sig!InCriticalCode' => \A j \in 1..Len(frames') : frames'[j].signo \notin Sig!Blocked
    BY <1>1, <2>2 DEF Nested, Sig!InCriticalCode
  <2>9. \A k \in 2..Len(frames') : frames'[k].signo \notin frames'[k].mask
    BY <1>1, <2>5 DEF Nested
  <2>10. QED
    BY <1>1, <2>3, <2>6, <2>7, <2>8, <2>9 DEF Nested
<1>9. \A x \in Sig!Signal : Handled(x) => Handled(x)'
  <2>1. ASSUME NEW x \in Sig!Signal, NEW k \in 1..Len(frames), frames[k].signo = x
        PROVE  Handled(x)'
    <3>1. CASE k = L
      <4>1. Len(actions) + 1 \in 1..Len(actions') /\ actions'[Len(actions) + 1] = x
        BY <1>5, <2>1, <3>1
      <4>2. QED
        BY <4>1 DEF Handled
    <3>2. CASE k # L
      <4>1. k \in 1..Len(frames') /\ frames'[k].signo = x
        BY <1>2, <1>4, <2>1, <3>2 DEF L
      <4>2. QED
        BY <4>1 DEF Handled
    <3>3. QED
      BY <3>1, <3>2
  <2>2. \A k \in 1..Len(actions) : k \in 1..Len(actions')
    BY <1>5
  <2>3. QED
    BY <1>5, <2>1, <2>2 DEF Handled
<1>10. SetsOfMain' /\ Raised' /\ Sig!WaitSetStaysPending'
  BY <1>1, <1>9 DEF SetsOfMain, Raised, Sig!WaitSetStaysPending, Sig!Signal, Sig!Alive
<1>11. QED
  BY <1>6, <1>8, <1>10 DEF SigInv

\* Every step keeps SigInv.
LEMMA SigStep == SigInv /\ [Sig!Next]_(Sig!vars) => SigInv'
<1> SUFFICES ASSUME SigInv, [Sig!Next]_(Sig!vars) PROVE SigInv'
    OBVIOUS
<1>1. CASE UNCHANGED Sig!vars
  <2>1. UNCHANGED <<pc, installed, mask, pending, oldset, newset, waitset, saved, frames, actions, sent>>
    BY <1>1 DEF Sig!vars, Sig!sets
  <2>2. Depth' = Depth /\ \A k \in 1..Depth : Level(k)' = Level(k)
    BY <2>1 DEF Depth, Level
  <2>3. Sig!TypeOK' /\ SetsOfMain' /\ Raised' /\ Sig!WaitSetStaysPending'
    BY <2>1 DEF SigInv, Sig!TypeOK, SetsOfMain, Raised, Handled, Sig!WaitSetStaysPending, Sig!Alive
  <2>4. Nested'
    BY <2>1 DEF SigInv, Nested, Depth, Level, Base, Low, Sig!Alive, Sig!InCriticalCode
  <2>5. QED
    BY <2>3, <2>4 DEF SigInv
<1>2. QED
  BY <1>1, SigMain, SigSend, SigDeliver, SigHandler DEF Sig!Next

-----------------------------------------------------------------------------

\* However many signals come and whenever, none of those main() blocks gets
\* into CriticalCode(), what PrintSigset() writes stays true, the raised
\* SIGINT is not lost and no handler interrupts itself.
THEOREM SignalsSafe == Spec => []SignalsAreSafe
<1> DEFINE I == Signals => SigInv
<1>1. SigInv => Sig!SignalsAreSafe
  <2> SUFFICES ASSUME SigInv PROVE Sig!SignalsAreSafe
      OBVIOUS
  <2>1. Sig!TypeOK /\ Nested /\ SetsOfMain /\ Raised /\ Sig!WaitSetStaysPending
    BY DEF SigInv
  <2>2. Len(frames) \in Nat /\ DOMAIN frames = 1..Len(frames) /\ DOMAIN actions = 1..Len(actions)
    BY <2>1, LenProperties DEF Sig!TypeOK
  <2>3. Depth = Len(frames) + 1 /\ Level(Depth) = mask /\ Depth \in 1..Depth
    BY <2>2 DEF Depth, Level
  <2>4. Sig!CriticalCodeIsProtected
    <3> SUFFICES ASSUME Sig!InCriticalCode
                 PROVE  /\ \A k \in DOMAIN frames : frames[k].signo \notin Sig!Blocked
                        /\ Sig!Blocked \subseteq mask
                        /\ frames = <<>> => mask = Sig!Blocked
        BY DEF Sig!CriticalCodeIsProtected
    <3>1. Base(pc) = Sig!Blocked /\ Low(pc) = Sig!Blocked /\ Sig!Alive
      BY DEF Sig!InCriticalCode, Base, Low, Sig!Alive
    <3>2. frames = <<>> => Level(1) = mask
      BY DEF Level
    <3>3. QED
      BY <2>1, <2>2, <2>3, <3>1, <3>2 DEF Nested
  <2>5. Sig!RaisedIsNotLost
    <3>1. \A s \in Sig!Signal : frames = <<>> /\ Handled(s) => s \in Sig!Range(actions)
      BY <2>2 DEF Handled, Sig!Range
    <3>2. QED
      BY <2>1, <3>1 DEF Sig!RaisedIsNotLost, Raised, Nested, Sig!Signal
  <2>6. Sig!NoHandlerTwice
    <3> SUFFICES ASSUME NEW j \in 1..Len(frames), NEW k \in 1..Len(frames),
                        frames[j].signo = frames[k].signo, j < k
                 PROVE  FALSE
        BY <2>2 DEF Sig!NoHandlerTwice
    <3>1. k \in 1..Depth /\ j \in 1..k - 1 /\ k \in 2..Len(frames)
      BY <2>2, <2>3
    <3>2. QED
      BY <2>1, <2>2, <3>1 DEF Nested, Level
  <2>7. QED
    BY <2>1, <2>4, <2>5, <2>6 DEF Sig!SignalsAreSafe
<1>2. Init => I
  BY SigInit, ProgramsAssumption DEF Init, ProgramsAssumption
<1>3. I /\ [Next]_vars => I'
  BY OneProgramRuns, SigStep DEF Signals
<1>4. I => SignalsAreSafe
  BY <1>1 DEF SignalsAreSafe
<1>5. QED
  BY <1>2, <1>3, <1>4, PTL DEF Spec

-----------------------------------------------------------------------------
(* DrawLine() draws the line from one end point to the other, for any end     *)
(* points and any size of the image.                                          *)
(*                                                                            *)
(* The decision d is what is left of the error once a step to the next pixel  *)
(* is made: DecidesByError says so, and the bounds of either follow from the  *)
(* sign that each step tests.                                                 *)

(* Products of integers, which the error is made of.                         *)

\* A larger factor gives a larger product.
LEMMA ProductMonotone ==
  ASSUME NEW a \in Int, NEW b \in Int, NEW c \in Int, a <= b, c >= 0
  PROVE  a * c <= b * c
<1>1. PICK k \in Nat : b = a + k
  BY b = a + (b - a)
<1>2. b * c = a * c + k * c
  BY <1>1
<1>3. k * c >= 0
  BY <1>1
<1> QED
  BY <1>2, <1>3

\* Comparing squares compares absolute values.
LEMMA SquareGreater ==
  ASSUME NEW a \in Int, NEW b \in Int, a * a > b * b, a >= 0
  PROVE  -a < b /\ b < a
<1>1. ~(b >= a)
  <2> SUFFICES ASSUME b >= a PROVE FALSE
    OBVIOUS
  <2>1. a * a <= b * a /\ a * b <= b * b
    BY ProductMonotone
  <2> QED
    BY <2>1
<1>2. ~(-b >= a)
  <2> SUFFICES ASSUME -b >= a PROVE FALSE
    OBVIOUS
  <2>1. a * a <= (-b) * a /\ a * (-b) <= (-b) * (-b)
    BY ProductMonotone
  <2> QED
    BY <2>1
<1> QED
  BY <1>1, <1>2

\* The same of the other direction.
LEMMA SquareNotGreater ==
  ASSUME NEW a \in Int, NEW b \in Int, a * a <= b * b, b >= 0
  PROVE  -b <= a /\ a <= b
<1>1. ~(a > b)
  BY SquareGreater
<1>2. ~(-a > b)
  BY SquareGreater, (-a) * (-a) = a * a
<1> QED
  BY <1>1, <1>2

\* Two multiples of c that differ by half of c at most are in order.
LEMMA HalfApart ==
  ASSUME NEW a \in Int, NEW b \in Int, NEW c \in Int, c > 0,
         2 * (a * c) <= 2 * (b * c) + c
  PROVE  a <= b
<1> SUFFICES ASSUME a >= b + 1 PROVE FALSE
    OBVIOUS
<1>1. (b + 1) * c <= a * c
  BY ProductMonotone
<1>2. (b + 1) * c = b * c + c
  OBVIOUS
<1>3. a * c \in Int /\ b * c \in Int
  OBVIOUS
<1>4. QED
  BY <1>1, <1>2, <1>3

-----------------------------------------------------------------------------
(* The inductive invariant.                                                  *)

\* The types, and that nothing is drawn outside the image.
Types ==
  /\ x0 \in Int /\ y0 \in Int /\ x1 \in Int /\ y1 \in Int /\ ignore \in BOOLEAN
  /\ pc \in {"setup", "pixel", "move", "done", "aborted"} /\ dir \in {"x", "y"}
  /\ umin \in Int /\ umax \in Int /\ vmin \in Int /\ vmax \in Int
  /\ u \in Int /\ v \in Int /\ d \in Int
  /\ \A p \in image : p \in Int \X Int
  /\ \A p \in image : Line!Inside(p)

\* The pixel with the coordinates a, along u, and b, along v.
Pixel(a, b) == IF dir = "x" THEN <<a, b>> ELSE <<b, a>>
First == Pixel(umin, vmin)
Final == Pixel(umax, vmax)

\* The scan goes from one end point to the other, along the longer side.
Scan ==
  /\ \/ First = <<x0, y0>> /\ Final = <<x1, y1>>
     \/ First = <<x1, y1>> /\ Final = <<x0, y0>>
  /\ -Line!du <= Line!dv /\ Line!dv <= Line!du
  /\ umin <= u /\ u <= umax
  /\ u = umin => v = vmin

\* How far the line is from the pixel, twice, in units of 1/du.
Error == 2 * ((v - vmin) * Line!du - (u - umin) * Line!dv)

\* The sign of d says which of the two next pixels has the smaller error.
DecidesByError ==
  /\ d = IF Line!dv >= 0 THEN 2 * Line!dv - Line!du - Error ELSE 2 * Line!dv + Line!du - Error
  /\ -Line!du <= Error /\ Error <= Line!du

\* What is drawn: the first end point, and the pixel the scan leaves, unless
\* they are ignored.
Drawn ==
  /\ pc \in {"move", "done"} \/ u > umin =>
       (Line!Inside(First) => First \in image) /\ (ignore \/ Line!Inside(First))
  /\ pc \in {"move", "done"} =>
       (Line!Inside(Line!Here) => Line!Here \in image) /\ (ignore \/ Line!Inside(Line!Here))
  /\ pc = "aborted" => ~ignore /\ ~Line!Inside(Line!Here)
  /\ pc = "done" => u = umax

LineInv == Types /\ (pc # "setup" => Scan /\ DecidesByError /\ Drawn)

\* DrawLine() starts with its arguments and nothing drawn.
LEMMA LineInit == Line!DrawLineAssumption /\ Line!Init => LineInv
BY DEF Line!DrawLineAssumption, Line!Init, LineInv, Types

\* Scan and decision as Setup leaves them.
LEMMA SetupStep ==
  ASSUME LineInv, Line!Setup
  PROVE  LineInv'
<1>1. Types /\ UNCHANGED <<Line!args, image>> /\ pc = "setup" /\ pc' = "pixel"
  BY DEF LineInv, Line!Setup
<1>2. x0 \in Int /\ y0 \in Int /\ x1 \in Int /\ y1 \in Int
  BY <1>1 DEF Types
<1>3. PICK a, b, p, q \in Int :
        /\ umin' = a /\ umax' = b /\ vmin' = p /\ vmax' = q /\ u' = a /\ v' = p
        /\ dir' \in {"x", "y"}
        /\ d' = Line!FirstD(b - a, q - p)
        /\ a <= b /\ -(b - a) <= q - p /\ q - p <= b - a
        /\ \/ First' = <<x0, y0>> /\ Final' = <<x1, y1>>
           \/ First' = <<x1, y1>> /\ Final' = <<x0, y0>>
  <2>1. CASE Line!Wider
    <3>1. dir' = "x"
      BY <2>1 DEF Line!Setup
    <3>2. CASE x1 < x0
      <4>1. /\ umin' = x1 /\ umax' = x0 /\ vmin' = y1 /\ vmax' = y0
            /\ u' = x1 /\ v' = y1 /\ d' = Line!FirstD(x0 - x1, y0 - y1)
        BY <2>1, <3>2 DEF Line!Setup, Line!Ordered
      <4>2. (x0 - x1) * (x0 - x1) > (y0 - y1) * (y0 - y1)
        BY <1>2, <2>1 DEF Line!Wider
      <4>3. -(x0 - x1) < y0 - y1 /\ y0 - y1 < x0 - x1
        BY <1>2, <3>2, <4>2, SquareGreater
      <4>4. QED
        BY <1>2, <3>1, <3>2, <4>1, <4>3 DEF First, Final, Pixel
    <3>3. CASE ~(x1 < x0)
      <4>1. /\ umin' = x0 /\ umax' = x1 /\ vmin' = y0 /\ vmax' = y1
            /\ u' = x0 /\ v' = y0 /\ d' = Line!FirstD(x1 - x0, y1 - y0)
        BY <2>1, <3>3 DEF Line!Setup, Line!Ordered
      <4>2. (x1 - x0) * (x1 - x0) > (y1 - y0) * (y1 - y0)
        BY <1>2, <2>1 DEF Line!Wider
      <4>3. -(x1 - x0) < y1 - y0 /\ y1 - y0 < x1 - x0
        BY <1>2, <3>3, <4>2, SquareGreater
      <4>4. QED
        BY <1>2, <3>1, <3>3, <4>1, <4>3 DEF First, Final, Pixel
    <3>4. QED
      BY <3>2, <3>3
  <2>2. CASE ~Line!Wider
    <3>1. dir' = "y"
      BY <2>2 DEF Line!Setup
    <3>2. CASE y1 < y0
      <4>1. /\ umin' = y1 /\ umax' = y0 /\ vmin' = x1 /\ vmax' = x0
            /\ u' = y1 /\ v' = x1 /\ d' = Line!FirstD(y0 - y1, x0 - x1)
        BY <2>2, <3>2 DEF Line!Setup, Line!Ordered
      <4>2. (x0 - x1) * (x0 - x1) <= (y0 - y1) * (y0 - y1)
        BY <1>2, <2>2 DEF Line!Wider
      <4>3. -(y0 - y1) <= x0 - x1 /\ x0 - x1 <= y0 - y1
        BY <1>2, <3>2, <4>2, SquareNotGreater
      <4>4. QED
        BY <1>2, <3>1, <3>2, <4>1, <4>3 DEF First, Final, Pixel
    <3>3. CASE ~(y1 < y0)
      <4>1. /\ umin' = y0 /\ umax' = y1 /\ vmin' = x0 /\ vmax' = x1
            /\ u' = y0 /\ v' = x0 /\ d' = Line!FirstD(y1 - y0, x1 - x0)
        BY <2>2, <3>3 DEF Line!Setup, Line!Ordered
      <4>2. (x1 - x0) * (x1 - x0) <= (y1 - y0) * (y1 - y0)
        BY <1>2, <2>2 DEF Line!Wider
      <4>3. -(y1 - y0) <= x1 - x0 /\ x1 - x0 <= y1 - y0
        BY <1>2, <3>3, <4>2, SquareNotGreater
      <4>4. QED
        BY <1>2, <3>1, <3>3, <4>1, <4>3 DEF First, Final, Pixel
    <3>4. QED
      BY <3>2, <3>3
  <2>3. QED
    BY <2>1, <2>2
<1>4. /\ Line!du' = b - a /\ Line!dv' = q - p /\ b - a \in Int /\ q - p \in Int
      /\ a - a = 0 /\ p - p = 0 /\ 0 * (b - a) = 0 /\ 0 * (q - p) = 0
  BY <1>3 DEF Line!du, Line!dv
<1>5. Error' = 0
  BY <1>3, <1>4 DEF Error
<1>6. DecidesByError'
  BY <1>3, <1>4, <1>5 DEF DecidesByError, Line!FirstD
<1>7. Types'
  BY <1>1, <1>3, <1>4 DEF Types, Line!FirstD, Line!args, Line!Inside
<1>8. Scan'
  BY <1>1, <1>3, <1>4 DEF Scan, Line!args
<1>9. Drawn'
  BY <1>1, <1>3 DEF Drawn
<1>10. QED
  BY <1>6, <1>7, <1>8, <1>9 DEF LineInv

\* The steps that stay at the pixel.
LEMMA StayStep ==
  ASSUME LineInv, Line!SetPixel \/ Line!SetPixelAborts \/ Line!Finish
  PROVE  LineInv'
<1>1. Types /\ Scan /\ DecidesByError /\ Drawn /\ UNCHANGED <<Line!args, Line!ends, u, v, d>>
  BY DEF LineInv, Line!SetPixel, Line!SetPixelAborts, Line!Finish
<1>2. /\ UNCHANGED <<x0, y0, x1, y1, ignore, dir, umin, umax, vmin, vmax, u, v, d>>
      /\ UNCHANGED <<Line!du, Line!dv, First, Final, Line!Here, Error>>
  BY <1>1 DEF Line!args, Line!ends, Line!du, Line!dv, First, Final, Pixel, Line!Here, Error
<1>3. Scan' /\ DecidesByError'
  BY <1>1, <1>2 DEF Scan, DecidesByError
<1>4. Line!Here \in Int \X Int
  BY <1>1 DEF Types, Line!Here
<1>5. \A p : Line!Inside(p)' <=> Line!Inside(p)
  BY DEF Line!Inside
<1>6. u = umin => Line!Here = First
  BY <1>1 DEF Scan, Line!Here, First, Pixel
<1>7. CASE Line!SetPixel
  <2>1. /\ pc = "pixel" /\ pc' = "move" /\ (Line!Inside(Line!Here) \/ ignore)
        /\ image' = IF Line!Inside(Line!Here) THEN image \cup {Line!Here} ELSE image
    BY <1>7 DEF Line!SetPixel
  <2>2. Types'
    BY <2>1, <1>1, <1>2, <1>4, <1>5 DEF Types
  <2>3. u > umin \/ u = umin
    BY <1>1 DEF Scan, Types
  <2>4. Drawn'
    BY <2>1, <2>3, <1>1, <1>2, <1>5, <1>6 DEF Drawn
  <2>5. QED
    BY <2>2, <2>4, <1>3 DEF LineInv
<1>8. CASE Line!SetPixelAborts
  <2>1. pc = "pixel" /\ pc' = "aborted" /\ image' = image /\ ~Line!Inside(Line!Here) /\ ~ignore
    BY <1>8 DEF Line!SetPixelAborts
  <2>2. Types'
    BY <2>1, <1>1, <1>2, <1>5 DEF Types
  <2>3. Drawn'
    BY <2>1, <1>1, <1>2, <1>5 DEF Drawn
  <2>4. QED
    BY <2>2, <2>3, <1>3 DEF LineInv
<1>9. CASE Line!Finish
  <2>1. pc = "move" /\ pc' = "done" /\ image' = image /\ u >= umax
    BY <1>9 DEF Line!Finish
  <2>2. Types'
    BY <2>1, <1>1, <1>2, <1>5 DEF Types
  <2>3. u = umax
    BY <2>1, <1>1 DEF Scan, Types
  <2>4. Drawn'
    BY <2>1, <2>3, <1>1, <1>2, <1>5 DEF Drawn
  <2>5. QED
    BY <2>2, <2>4, <1>3 DEF LineInv
<1>10. QED
  BY <1>7, <1>8, <1>9

\* The steps that go on to the next pixel.
LEMMA MoveStep ==
  ASSUME LineInv, Line!MoveE \/ Line!MoveNE \/ Line!MoveSE
  PROVE  LineInv'
<1>1. /\ Types /\ Scan /\ DecidesByError /\ Drawn
      /\ UNCHANGED <<Line!args, Line!ends, image>> /\ pc = "move" /\ pc' = "pixel"
      /\ u < umax /\ u' = u + 1
  BY DEF LineInv, Line!MoveE, Line!MoveNE, Line!MoveSE
<1>2. /\ UNCHANGED <<x0, y0, x1, y1, ignore, dir, umin, umax, vmin, vmax, image>>
      /\ UNCHANGED <<Line!du, Line!dv, First, Final>>
  BY <1>1 DEF Line!args, Line!ends, Line!du, Line!dv, First, Final, Pixel
<1>3. /\ umin \in Int /\ umax \in Int /\ vmin \in Int /\ vmax \in Int
      /\ u \in Int /\ v \in Int /\ d \in Int /\ Line!du \in Int /\ Line!dv \in Int
      /\ -Line!du <= Line!dv /\ Line!dv <= Line!du /\ umin <= u
  BY <1>1 DEF Types, Line!du, Line!dv, Scan
<1>4. (v - vmin) * Line!du \in Int /\ (u - umin) * Line!dv \in Int /\ Error \in Int
  BY <1>3 DEF Error
<1>5. v' \in Int /\ d' \in Int /\ DecidesByError'
  <2>1. (u + 1 - umin) * Line!dv = (u - umin) * Line!dv + Line!dv
    BY <1>3
  <2>2. CASE Line!MoveE
    <3>1. v' = v /\ d' = d + 2 * Line!dv /\ IF Line!dv >= 0 THEN d <= 0 ELSE d > 0
      BY <2>2 DEF Line!MoveE
    <3>2. Error' = Error - 2 * Line!dv
      BY <1>1, <1>2, <1>3, <1>4, <2>1, <3>1 DEF Error
    <3>3. QED
      BY <1>1, <1>2, <1>3, <1>4, <3>1, <3>2 DEF DecidesByError
  <2>3. CASE Line!MoveNE
    <3>1. v' = v + 1 /\ d' = d + 2 * (Line!dv - Line!du) /\ Line!dv >= 0 /\ d > 0
      BY <2>3 DEF Line!MoveNE
    <3>2. (v + 1 - vmin) * Line!du = (v - vmin) * Line!du + Line!du
      BY <1>3
    <3>3. Error' = Error + 2 * Line!du - 2 * Line!dv
      BY <1>1, <1>2, <1>3, <1>4, <2>1, <3>1, <3>2 DEF Error
    <3>4. QED
      BY <1>1, <1>2, <1>3, <1>4, <3>1, <3>3 DEF DecidesByError
  <2>4. CASE Line!MoveSE
    <3>1. v' = v - 1 /\ d' = d + 2 * (Line!dv + Line!du) /\ Line!dv < 0 /\ d <= 0
      BY <2>4 DEF Line!MoveSE
    <3>2. (v - 1 - vmin) * Line!du = (v - vmin) * Line!du - Line!du
      BY <1>3
    <3>3. Error' = Error - 2 * Line!du - 2 * Line!dv
      BY <1>1, <1>2, <1>3, <1>4, <2>1, <3>1, <3>2 DEF Error
    <3>4. QED
      BY <1>1, <1>2, <1>3, <1>4, <3>1, <3>3 DEF DecidesByError
  <2>5. QED
    BY <2>2, <2>3, <2>4
<1>6. Types'
  BY <1>1, <1>2, <1>5 DEF Types, Line!Inside
<1>7. Scan'
  BY <1>1, <1>2, <1>3 DEF Scan
<1>8. Drawn'
  BY <1>1, <1>2, <1>3 DEF Drawn, Line!Inside
<1>9. QED
  BY <1>5, <1>6, <1>7, <1>8 DEF LineInv

\* Every step keeps LineInv.
LEMMA LineStep == LineInv /\ [Line!Next]_(Line!vars) => LineInv'
<1> SUFFICES ASSUME LineInv, [Line!Next]_(Line!vars) PROVE LineInv'
    OBVIOUS
<1>1. CASE UNCHANGED Line!vars
  BY <1>1 DEF Line!vars, Line!args, Line!ends, LineInv, Types, Scan, DecidesByError, Drawn, Error,
              Line!Inside, Line!Here, First, Final, Pixel, Line!du, Line!dv
<1>2. QED
  BY <1>1, SetupStep, StayStep, MoveStep DEF Line!Next

-----------------------------------------------------------------------------

\* What LineInv says of the line once the scan goes on: the pixel is between
\* the end points, in both coordinates, and at the last of them at the end.
LEMMA BetweenTheEnds ==
  ASSUME Types, Scan, DecidesByError
  PROVE  /\ (vmin <= v /\ v <= vmax) \/ (vmax <= v /\ v <= vmin)
         /\ u = umax => v = vmax
<1>1. /\ umin \in Int /\ umax \in Int /\ vmin \in Int /\ vmax \in Int
      /\ u \in Int /\ v \in Int /\ d \in Int /\ Line!du \in Int /\ Line!dv \in Int
      /\ -Line!du <= Line!dv /\ Line!dv <= Line!du /\ umin <= u /\ u <= umax /\ Line!du = umax - umin
      /\ Line!dv = vmax - vmin
  BY DEF Types, Line!du, Line!dv, Scan
<1> DEFINE a == v - vmin
<1>2. a \in Int /\ u - umin \in Int /\ u - umin >= 0 /\ u - umin <= Line!du
  BY <1>1
<1>3. -Line!du <= 2 * (a * Line!du - (u - umin) * Line!dv) /\ 2 * (a * Line!du - (u - umin) * Line!dv) <= Line!du
  BY DEF DecidesByError, Error
<1>4. a * Line!du \in Int /\ (u - umin) * Line!dv \in Int /\ Line!dv * Line!du \in Int /\ 0 * Line!du = 0
  BY <1>1, <1>2
<1>5. CASE Line!du = 0
  BY <1>1, <1>5 DEF Scan
<1>6. CASE Line!du > 0
  <2>1. u = umax => a = Line!dv
    <3>1. u = umax => (u - umin) * Line!dv = Line!dv * Line!du
      BY <1>1
    <3>2. u = umax => 2 * (a * Line!du) <= 2 * (Line!dv * Line!du) + Line!du /\ 2 * (Line!dv * Line!du) <= 2 * (a * Line!du) + Line!du
      BY <1>1, <1>3, <1>4, <3>1
    <3>3. QED
      BY <1>1, <1>2, <1>6, <3>2, HalfApart
  <2>2. CASE Line!dv >= 0
    <3>1. 0 <= (u - umin) * Line!dv /\ (u - umin) * Line!dv <= Line!dv * Line!du
      <4>1. 0 * Line!dv <= (u - umin) * Line!dv /\ (u - umin) * Line!dv <= Line!du * Line!dv
        BY <1>1, <1>2, <2>2, ProductMonotone
      <4>2. QED
        BY <4>1, <1>1
    <3>2. 2 * (a * Line!du) <= 2 * (Line!dv * Line!du) + Line!du /\ 2 * (0 * Line!du) <= 2 * (a * Line!du) + Line!du
      BY <1>1, <1>3, <1>4, <3>1
    <3>3. a <= Line!dv /\ 0 <= a
      BY <1>1, <1>2, <1>6, <3>2, HalfApart
    <3>4. QED
      BY <1>1, <2>1, <3>3
  <2>3. CASE Line!dv < 0
    <3>1. (u - umin) * Line!dv <= 0 /\ Line!dv * Line!du <= (u - umin) * Line!dv
      <4>1. 0 * (-Line!dv) <= (u - umin) * (-Line!dv) /\ (u - umin) * (-Line!dv) <= Line!du * (-Line!dv)
        BY <1>1, <1>2, <2>3, ProductMonotone
      <4>2. (u - umin) * (-Line!dv) = -((u - umin) * Line!dv) /\ Line!du * (-Line!dv) = -(Line!dv * Line!du)
        BY <1>1
      <4>3. QED
        BY <4>1, <4>2, <1>1, <1>4
    <3>2. 2 * (a * Line!du) <= 2 * (0 * Line!du) + Line!du /\ 2 * (Line!dv * Line!du) <= 2 * (a * Line!du) + Line!du
      BY <1>1, <1>3, <1>4, <3>1
    <3>3. a <= 0 /\ Line!dv <= a
      BY <1>1, <1>2, <1>6, <3>2, HalfApart
    <3>4. QED
      BY <1>1, <2>1, <3>3
  <2>4. QED
    BY <1>1, <2>2, <2>3
<1>7. QED
  BY <1>1, <1>5, <1>6

\* DrawLine() draws the line between any end points: it stays within half a
\* pixel of it, ends at the other end point and draws both ends and nothing
\* outside the image.  An end point outside it, which the comment of image.h
\* allows, makes it abort unless it may ignore the pixel, and nothing else does.
THEOREM LineDrawn == Spec => []LineIsRight
<1> DEFINE I == DrawLine => LineInv
<1>1. LineInv => Line!LineIsRight
  <2> SUFFICES ASSUME LineInv PROVE Line!LineIsRight
      OBVIOUS
  <2>1. Types
    BY DEF LineInv
  <2>2. CASE pc = "setup"
    BY <2>1, <2>2 DEF Types, Line!LineIsRight, Line!TypeOK, Line!OnTheLine, Line!EndsAtTheEnd, Line!DrawsTheEnds,
                      Line!AbortsForEndsOutside, Line!Inside
  <2>3. CASE pc # "setup"
    <3>1. Scan /\ DecidesByError /\ Drawn
      BY <2>3 DEF LineInv
    <3>2. Line!du \in Int /\ Line!dv \in Int /\ -Line!du <= Line!dv /\ Line!dv <= Line!du /\ Error \in Int
      BY <2>1, <3>1 DEF Types, Scan, Line!du, Line!dv, Error
    <3>3. -2 * Line!du <= d /\ d <= 2 * Line!du
      BY <2>1, <3>1, <3>2 DEF Types, DecidesByError
    <3>4. Line!TypeOK /\ Line!OnTheLine
      BY <2>1, <3>1, <3>3 DEF Types, Line!TypeOK, Line!OnTheLine, DecidesByError, Error
    <3>5. Line!EndsAtTheEnd
      BY <2>1, <3>1, BetweenTheEnds DEF Line!EndsAtTheEnd, Drawn
    <3>6. Line!DrawsTheEnds
      <4>1. \A p \in image : p[1] \in 0..Rows - 1 /\ p[2] \in 0..Cols - 1
        BY <2>1 DEF Types, Line!Inside
      <4>2. pc = "done" => Line!Here = Final
        BY <3>1, <3>5 DEF Line!EndsAtTheEnd, Line!Here, Final, Pixel
      <4>3. pc = "done" => \A p \in {First, Final} : Line!Inside(p) => p \in image
        BY <4>2, <3>1 DEF Drawn
      <4>4. QED
        BY <4>1, <4>3, <3>1 DEF Line!DrawsTheEnds, Scan
    <3>7. Line!AbortsForEndsOutside
      <4>1. ASSUME Line!Inside(First), Line!Inside(Final) PROVE Line!Inside(Line!Here)
        <5>1. /\ Rows \in Nat /\ Cols \in Nat /\ umin \in Int /\ umax \in Int /\ vmin \in Int
              /\ vmax \in Int /\ u \in Int /\ v \in Int /\ umin <= u /\ u <= umax
          BY <2>1, <3>1, ProgramsAssumption DEF ProgramsAssumption, Line!DrawLineAssumption, Types, Scan
        <5>2. (vmin <= v /\ v <= vmax) \/ (vmax <= v /\ v <= vmin)
          BY <2>1, <3>1, BetweenTheEnds
        <5>3. CASE dir = "x"
          <6>1. /\ umin \in 0..Rows - 1 /\ umax \in 0..Rows - 1
                /\ vmin \in 0..Cols - 1 /\ vmax \in 0..Cols - 1
            BY <4>1, <5>3 DEF Line!Inside, First, Final, Pixel
          <6>2. QED
            BY <5>1, <5>2, <5>3, <6>1 DEF Line!Inside, Line!Here
        <5>4. CASE dir # "x"
          <6>1. /\ umin \in 0..Cols - 1 /\ umax \in 0..Cols - 1
                /\ vmin \in 0..Rows - 1 /\ vmax \in 0..Rows - 1
            BY <4>1, <5>4 DEF Line!Inside, First, Final, Pixel
          <6>2. QED
            BY <5>1, <5>2, <5>4, <6>1 DEF Line!Inside, Line!Here
        <5>5. QED
          BY <5>3, <5>4
      <4>2. pc = "aborted" => ~ignore /\ ~(Line!Inside(First) /\ Line!Inside(Final))
        BY <4>1, <3>1 DEF Drawn
      <4>3. pc = "done" => ignore \/ (Line!Inside(First) /\ Line!Inside(Final))
        <5>1. pc = "done" => Line!Here = Final
          BY <3>1, <3>5 DEF Line!EndsAtTheEnd, Line!Here, Final, Pixel, Drawn
        <5>2. pc = "done" => (ignore \/ Line!Inside(First)) /\ (ignore \/ Line!Inside(Line!Here))
          BY <3>1 DEF Drawn
        <5>3. pc = "done" => (Line!Inside(Line!Here) <=> Line!Inside(Final))
          BY <5>1
        <5>4. QED
          BY <5>2, <5>3
      <4>4. QED
        BY <4>2, <4>3, <3>1 DEF Line!AbortsForEndsOutside, Scan
    <3>8. QED
      BY <3>4, <3>5, <3>6, <3>7 DEF Line!LineIsRight
  <2>4. QED
    BY <2>2, <2>3
<1>2. Init => I
  BY LineInit, ProgramsAssumption DEF Init
<1>3. I /\ [Next]_vars => I'
  BY OneProgramRuns, LineStep DEF DrawLine
<1>4. I => LineIsRight
  BY <1>1 DEF LineIsRight
<1>5. QED
  BY <1>2, <1>3, <1>4, PTL DEF Spec

-----------------------------------------------------------------------------
(* The threads of LeeMatrixMultiplication need no lock, whatever the size,    *)
(* and compute every row they should.                                         *)

(* Sections.                                                                 *)

\* Division by the numbers of threads there are.
LEMMA Division ==
  ASSUME NEW w \in Nat, NEW k \in 2..7
  PROVE  /\ w \div k \in Nat /\ w % k \in 0..k-1
         /\ k * (w \div k) = w - (w % k)
<1>1. k = 2 \/ k = 3 \/ k = 4 \/ k = 5 \/ k = 6 \/ k = 7
  OBVIOUS
<1>2. CASE k = 2
  BY <1>2
<1>3. CASE k = 3
  BY <1>3
<1>4. CASE k = 4
  BY <1>4
<1>5. CASE k = 5
  BY <1>5
<1>6. CASE k = 6
  BY <1>6
<1>7. CASE k = 7
  BY <1>7
<1>8. QED
  BY <1>1, <1>2, <1>3, <1>4, <1>5, <1>6, <1>7

\* findThreadCount() finds the largest divisor from 2 to 7, if there is one.
LEMMA ThreadCount ==
  ASSUME NEW w \in Nat
  PROVE  /\ Mat!findThreadCount(w) \in 2..7
         /\ IF \E k \in 2..7 : w % k = 0
            THEN w % Mat!findThreadCount(w) = 0
            ELSE Mat!findThreadCount(w) = 7
<1>1. CASE \E k \in 2..7 : w % k = 0
  <2>1. \E k \in 2..7 : w % k = 0 /\ \A m \in k+1..7 : w % m # 0
    <3>1. \/ w % 2 = 0 \/ w % 3 = 0 \/ w % 4 = 0 \/ w % 5 = 0 \/ w % 6 = 0 \/ w % 7 = 0
      BY <1>1
    <3>2. \A k \in 2..7 : k = 2 \/ k = 3 \/ k = 4 \/ k = 5 \/ k = 6 \/ k = 7
      OBVIOUS
    <3>3. QED
      BY <3>1, <3>2
  <2>2. Mat!findThreadCount(w) = CHOOSE k \in 2..7 : w % k = 0 /\ \A m \in k+1..7 : w % m # 0
    BY <1>1 DEF Mat!findThreadCount
  <2>3. QED
    BY <1>1, <2>1, <2>2
<1>2. CASE ~\E k \in 2..7 : w % k = 0
  BY <1>2 DEF Mat!findThreadCount
<1>3. QED
  BY <1>1, <1>2

\* Rows of a section.
Share == S \div Mat!T

\* The sections are in C, apart from each other, and cover what they should.
LEMMA Sections ==
  ASSUME S \in Nat
  PROVE  /\ Mat!T \in 2..7 /\ Share \in Nat
         /\ Mat!T * Share = Mat!Covered
         /\ \A t \in 0..Mat!T-1 : /\ t * Share \in Nat /\ (t + 1) * Share \in 0..S
                              /\ (t + 1) * Share = t * Share + Share
                              /\ (t + 1) * Share <= Mat!T * Share
         /\ \A t \in Int : Mat!Section(t) = t * Share..(t + 1) * Share - 1
         /\ \A t, w \in 0..Mat!T-1 : t # w => Mat!Section(t) \cap Mat!Section(w) = {}
         /\ \A t, w \in 0..Mat!T-1 : t < w => (t + 1) * Share <= w * Share
<1>1. Mat!T \in 2..7 /\ IF \E k \in 2..7 : S % k = 0 THEN S % Mat!T = 0 ELSE Mat!T = 7
  BY ThreadCount DEF Mat!T
<1>2. Share \in Nat /\ S % Mat!T \in 0..Mat!T-1 /\ Mat!T * Share = S - (S % Mat!T)
  BY <1>1, Division DEF Share
<1>3. Mat!T * Share = Mat!Covered
  BY <1>1, <1>2 DEF Mat!Covered
<1>4. ASSUME NEW t \in 0..Mat!T-1
      PROVE  /\ t * Share \in Nat /\ (t + 1) * Share \in 0..S
             /\ (t + 1) * Share = t * Share + Share
             /\ (t + 1) * Share <= Mat!T * Share
  <2>1. t * Share \in Nat /\ (t + 1) * Share = t * Share + Share
    BY <1>1, <1>2
  <2>2. (t + 1) * Share <= Mat!T * Share
    BY <1>1, <1>2, ProductMonotone
  <2>3. QED
    BY <2>1, <2>2, <1>1, <1>2
<1>5. \A t \in Int : Mat!Section(t) = t * Share..(t + 1) * Share - 1
  BY DEF Mat!Section, Share
<1>6. ASSUME NEW t \in 0..Mat!T-1, NEW w \in 0..Mat!T-1, t < w
      PROVE  (t + 1) * Share <= w * Share
  BY <1>1, <1>2, <1>6, ProductMonotone
<1>7. ASSUME NEW t \in 0..Mat!T-1, NEW w \in 0..Mat!T-1, t # w
      PROVE  Mat!Section(t) \cap Mat!Section(w) = {}
  <2>1. t < w \/ w < t
    BY <1>1, <1>7
  <2>2. /\ t * Share \in Nat /\ (t + 1) * Share \in Nat
        /\ w * Share \in Nat /\ (w + 1) * Share \in Nat
    BY <1>4
  <2>3. Mat!Section(t) = t * Share..(t + 1) * Share - 1 /\ Mat!Section(w) = w * Share..(w + 1) * Share - 1
    BY <1>1, <1>5
  <2>6. (t < w => (t + 1) * Share <= w * Share) /\ (w < t => (w + 1) * Share <= t * Share)
    BY <1>6
  <2>7. QED
    BY <2>1, <2>2, <2>3, <2>6
<1>8. QED
  BY <1>1, <1>2, <1>3, <1>4, <1>5, <1>6, <1>7

-----------------------------------------------------------------------------
(* The inductive invariant.                                                  *)

\* main() starts the threads below i, and joins those below i.
Started ==
  /\ \A t \in Mat!Sect : thread[t] # "none" => t < Mat!T
  /\ pc = "fill" => i = 0 /\ \A t \in Mat!Sect : thread[t] = "none"
  /\ pc # "fill" => filled = 2
  /\ pc = "create" => i <= Mat!T /\ \A t \in Mat!Sect : thread[t] # "none" <=> t < i
  /\ pc = "join" => i <= Mat!T /\ \A t \in Mat!Sect : t < i => thread[t] = "ended"
  /\ pc = "done" => \A t \in Mat!Sect : t < Mat!T => thread[t] = "ended"

\* What a thread has done of its section.
Computed ==
  \A t \in Mat!Sect : thread[t] \in {"run", "ended"} =>
    /\ t * Share <= mrow[t] /\ mrow[t] <= (t + 1) * Share
    /\ \A r \in 0..S-1 : t * Share <= r /\ r < mrow[t] => C[r] = t
    /\ thread[t] = "ended" => mrow[t] = (t + 1) * Share

\* A row is written by the thread whose section it is in.
Owned == \A r \in 0..S-1 : C[r] # Mat!Zero => C[r] \in 0..Mat!T-1 /\ r \in Mat!Section(C[r])

MatInv == Mat!TypeOK /\ S \in Nat /\ (pc = "fill" => filled < 2) /\ Started /\ Computed /\ Owned

\* No thread has started and nothing is computed.
LEMMA MatInit == Mat!MatrixAssumption /\ Mat!Init => MatInv
<1> SUFFICES ASSUME Mat!MatrixAssumption, Mat!Init PROVE MatInv
    OBVIOUS
<1>1. S \in Nat /\ S \in Sizes
  BY DEF Mat!MatrixAssumption, Mat!Init
<1>2. Mat!TypeOK
  BY <1>1 DEF Mat!Init, Mat!TypeOK, Mat!Sect, Mat!Zero
<1>3. Started /\ Computed /\ Owned
  BY <1>1 DEF Mat!Init, Started, Computed, Owned, Mat!Sect
<1>4. QED
  BY <1>1, <1>2, <1>3 DEF MatInv, Mat!Init

\* main() fills, creates and joins.
LEMMA MainStep ==
  ASSUME MatInv, Mat!Main
  PROVE  MatInv'
<1>1. Mat!T \in 2..7 /\ S \in Nat /\ Mat!TypeOK /\ Started /\ Computed /\ Owned
  BY Sections DEF MatInv
<1>2. UNCHANGED <<S, mrow, C, Mat!T, Share>>
  BY DEF Mat!Main, Mat!Fill, Mat!Create, Mat!CreateFails, Mat!AllCreated, Mat!Join, Mat!AllJoined, Mat!T, Share
<1>3. \A t \in Int : Mat!Section(t)' = Mat!Section(t)
  BY <1>2 DEF Mat!Section, Mat!T
<1>4. Owned'
  BY <1>1, <1>2, <1>3 DEF Owned, Mat!Zero
<1>5. CASE Mat!Fill
  <2>1. pc = "fill" /\ filled' = filled + 1 /\ UNCHANGED <<i, thread>>
        /\ pc' = IF filled' = 2 THEN "create" ELSE "fill"
    BY <1>5 DEF Mat!Fill
  <2>2. filled < 2 /\ filled \in 0..2
    BY <2>1 DEF MatInv, Mat!TypeOK
  <2>3. Mat!TypeOK'
    BY <1>1, <1>2, <2>1, <2>2 DEF Mat!TypeOK
  <2>4. Started' /\ Computed'
    BY <1>1, <1>2, <2>1, <2>2 DEF Started, Computed, Mat!Sect
  <2>5. QED
    BY <1>2, <1>4, <2>1, <2>2, <2>3, <2>4 DEF MatInv
<1>6. CASE Mat!Create
  <2>1. pc = "create" /\ i < Mat!T /\ thread' = [thread EXCEPT ![i] = "start"] /\ i' = i + 1
        /\ UNCHANGED <<pc, filled>>
    BY <1>6 DEF Mat!Create
  <2>2. i \in 0..7 /\ i \in Mat!Sect
    BY <1>1, <2>1 DEF Mat!TypeOK, Mat!Sect
  <2>3. Mat!TypeOK'
    BY <1>1, <1>2, <2>1, <2>2 DEF Mat!TypeOK
  <2>4. \A t \in Mat!Sect : thread'[t] = IF t = i THEN "start" ELSE thread[t]
    BY <1>1, <2>1 DEF Mat!TypeOK
  <2>5. Started'
    BY <1>1, <1>2, <2>1, <2>2, <2>4 DEF Started, Mat!Sect
  <2>6. Computed'
    BY <1>1, <1>2, <2>4 DEF Computed
  <2>7. QED
    BY <1>1, <1>2, <1>4, <2>1, <2>3, <2>5, <2>6 DEF MatInv
<1>7. CASE Mat!CreateFails \/ Mat!AllCreated \/ Mat!Join \/ Mat!AllJoined
  <2>1. UNCHANGED <<thread, filled>> /\ pc' # "fill" /\ pc # "fill"
    BY <1>7 DEF Mat!CreateFails, Mat!AllCreated, Mat!Join, Mat!AllJoined
  <2>2. Mat!TypeOK'
    BY <1>1, <1>2, <1>7, <2>1 DEF Mat!TypeOK, Mat!CreateFails, Mat!AllCreated, Mat!Join, Mat!AllJoined
  <2>3. Started'
    <3>1. /\ \A t \in Mat!Sect : thread[t] # "none" => t < Mat!T
          /\ filled = 2 /\ Mat!T' = Mat!T /\ i \in Int
      BY <1>1, <1>2, <2>1 DEF Started, Mat!TypeOK
    <3>2. CASE Mat!CreateFails
      BY <2>1, <3>1, <3>2 DEF Mat!CreateFails, Started
    <3>3. CASE Mat!AllCreated
      <4>1. pc = "create" /\ i = Mat!T /\ pc' = "join" /\ i' = 0
        BY <3>3 DEF Mat!AllCreated
      <4>2. \A t \in Mat!Sect : ~(t < 0)
        BY DEF Mat!Sect
      <4>3. QED
        BY <1>1, <2>1, <3>1, <4>1, <4>2 DEF Started
    <3>4. CASE Mat!Join
      <4>1. pc = "join" /\ pc' = "join" /\ i < Mat!T /\ thread[i] = "ended" /\ i' = i + 1
        BY <3>4 DEF Mat!Join
      <4>2. \A t \in Mat!Sect : t < i + 1 => t < i \/ t = i
        BY <3>1 DEF Mat!Sect
      <4>3. QED
        BY <1>1, <2>1, <3>1, <4>1, <4>2 DEF Started
    <3>5. CASE Mat!AllJoined
      BY <1>1, <2>1, <3>1, <3>5 DEF Mat!AllJoined, Started
    <3>6. QED
      BY <1>7, <3>2, <3>3, <3>4, <3>5
  <2>4. Computed'
    BY <1>1, <1>2, <2>1 DEF Computed
  <2>5. QED
    BY <1>1, <1>2, <1>4, <2>1, <2>2, <2>3, <2>4 DEF MatInv
<1>8. QED
  BY <1>5, <1>6, <1>7 DEF Mat!Main

\* multiply(): a thread stays in its section.
LEMMA ThreadStep ==
  ASSUME MatInv, NEW t \in Mat!Sect, Mat!Thread(t)
  PROVE  MatInv'
<1>1. Mat!T \in 2..7 /\ S \in Nat /\ Mat!TypeOK /\ Started /\ Computed /\ Owned
  BY Sections DEF MatInv
<1>2. UNCHANGED <<S, pc, filled, i, Mat!T, Share>>
  BY DEF Mat!Thread, Mat!Start, Mat!MultiplyRow, Mat!EndThread, Mat!T, Share
<1>3. \A w \in Int : Mat!Section(w)' = Mat!Section(w)
  BY <1>2 DEF Mat!Section, Mat!T
<1>4. t < Mat!T /\ t \in 0..Mat!T-1
  BY <1>1 DEF Mat!Thread, Mat!Start, Mat!MultiplyRow, Mat!EndThread, Started, Mat!Sect
<1>5. /\ t * Share \in Nat /\ (t + 1) * Share \in 0..S /\ Share \in Nat
      /\ (t + 1) * Share = t * Share + Share
      /\ \A r \in Int : r \in Mat!Section(t) <=> t * Share <= r /\ r < (t + 1) * Share
  <2>1. /\ t * Share \in Nat /\ (t + 1) * Share \in 0..S /\ Share \in Nat
        /\ (t + 1) * Share = t * Share + Share
        /\ Mat!Section(t) = t * Share..(t + 1) * Share - 1
    BY <1>1, <1>4, Sections
  <2>2. QED
    BY <2>1
<1>6. CASE Mat!Start(t)
  <2>1. /\ thread[t] = "start" /\ thread' = [thread EXCEPT ![t] = "run"]
        /\ mrow' = [mrow EXCEPT ![t] = t * Share] /\ C' = C
    BY <1>6 DEF Mat!Start, Share
  <2>2. \A w \in Mat!Sect : thread'[w] = (IF w = t THEN "run" ELSE thread[w])
                        /\ mrow'[w] = IF w = t THEN t * Share ELSE mrow[w]
    BY <1>1, <2>1 DEF Mat!TypeOK
  <2>3. Mat!TypeOK'
    BY <1>1, <1>2, <1>5, <2>1 DEF Mat!TypeOK
  <2>4. Started'
    BY <1>1, <1>2, <1>4, <2>1, <2>2 DEF Started
  <2>5. Computed'
    BY <1>1, <1>2, <1>5, <2>1, <2>2 DEF Computed
  <2>6. Owned'
    BY <1>1, <1>2, <1>3, <2>1 DEF Owned, Mat!Zero
  <2>7. QED
    BY <1>1, <1>2, <2>3, <2>4, <2>5, <2>6 DEF MatInv
<1>7. CASE Mat!MultiplyRow(t)
  <2>1. /\ thread[t] = "run" /\ mrow[t] < (t + 1) * Share
        /\ C' = [C EXCEPT ![mrow[t]] = t] /\ mrow' = [mrow EXCEPT ![t] = @ + 1]
        /\ thread' = thread
    BY <1>7 DEF Mat!MultiplyRow, Share
  <2>2. mrow[t] \in 0..S-1 /\ t * Share <= mrow[t]
    BY <1>1, <1>5, <2>1 DEF Mat!TypeOK, Computed
  <2>3. /\ \A w \in Mat!Sect : mrow'[w] = IF w = t THEN mrow[t] + 1 ELSE mrow[w]
        /\ \A r \in 0..S-1 : C'[r] = IF r = mrow[t] THEN t ELSE C[r]
    BY <1>1, <2>1 DEF Mat!TypeOK
  <2>4. Mat!TypeOK'
    BY <1>1, <1>2, <2>1, <2>2 DEF Mat!TypeOK
  <2>5. Started'
    BY <1>1, <1>2, <2>1 DEF Started
  <2>6. mrow[t] \in Mat!Section(t)
    BY <1>5, <2>1, <2>2
  <2>7. Computed'
    <3>1. ASSUME NEW w \in Mat!Sect, thread[w] \in {"run", "ended"}
          PROVE  /\ w * Share <= mrow'[w] /\ mrow'[w] <= (w + 1) * Share
                 /\ \A r \in 0..S-1 : w * Share <= r /\ r < mrow'[w] => C'[r] = w
                 /\ thread[w] = "ended" => mrow'[w] = (w + 1) * Share
      <4>1. CASE w = t
        BY <1>1, <1>5, <2>1, <2>2, <2>3, <4>1 DEF Computed
      <4>2. CASE w # t
        <5>1. w \in 0..Mat!T-1
          BY <1>1, <3>1 DEF Started, Mat!Sect
        <5>2. mrow[t] \notin Mat!Section(w)
          BY <1>1, <1>4, <2>6, <4>2, <5>1, Sections
        <5>3. /\ mrow[w] <= (w + 1) * Share /\ mrow[w] \in 0..S
              /\ (w + 1) * Share \in 0..S /\ w * Share \in Nat
              /\ Mat!Section(w) = w * Share..(w + 1) * Share - 1
          BY <1>1, <3>1, <5>1, Sections DEF Computed, Mat!TypeOK
        <5>4. ~(w * Share <= mrow[t] /\ mrow[t] < mrow[w])
          BY <2>2, <5>2, <5>3
        <5>5. QED
          BY <1>1, <2>3, <3>1, <4>2, <5>4 DEF Computed
      <4>3. QED
        BY <4>1, <4>2
    <3>2. QED
      BY <3>1, <1>2, <2>1 DEF Computed
  <2>8. Owned'
    BY <1>1, <1>2, <1>3, <1>4, <2>3, <2>6 DEF Owned, Mat!Sect, Mat!Zero
  <2>9. QED
    BY <1>1, <1>2, <2>4, <2>5, <2>7, <2>8 DEF MatInv
<1>8. CASE Mat!EndThread(t)
  <2>1. /\ thread[t] = "run" /\ mrow[t] >= (t + 1) * Share
        /\ thread' = [thread EXCEPT ![t] = "ended"] /\ UNCHANGED <<mrow, C>>
    BY <1>8 DEF Mat!EndThread, Share
  <2>2. \A w \in Mat!Sect : thread'[w] = IF w = t THEN "ended" ELSE thread[w]
    BY <1>1, <2>1 DEF Mat!TypeOK
  <2>3. mrow[t] = (t + 1) * Share
    BY <1>1, <1>5, <2>1 DEF Computed, Mat!TypeOK
  <2>4. Mat!TypeOK'
    BY <1>1, <1>2, <2>1 DEF Mat!TypeOK
  <2>5. Started'
    BY <1>1, <1>2, <1>4, <2>1, <2>2 DEF Started
  <2>6. Computed'
    BY <1>1, <1>2, <1>5, <2>1, <2>2, <2>3 DEF Computed
  <2>7. Owned'
    BY <1>1, <1>2, <1>3, <2>1 DEF Owned, Mat!Zero
  <2>8. QED
    BY <1>1, <1>2, <2>4, <2>5, <2>6, <2>7 DEF MatInv
<1>9. QED
  BY <1>6, <1>7, <1>8 DEF Mat!Thread

\* Every step keeps MatInv.
LEMMA MatStep == MatInv /\ [Mat!Next]_(Mat!vars) => MatInv'
<1> SUFFICES ASSUME MatInv, [Mat!Next]_(Mat!vars) PROVE MatInv'
    OBVIOUS
<1>1. CASE UNCHANGED Mat!vars
  BY <1>1 DEF Mat!vars, MatInv, Mat!TypeOK, Started, Computed, Owned, Mat!Section, Share, Mat!T
<1>2. QED
  BY <1>1, MainStep, ThreadStep DEF Mat!Next

-----------------------------------------------------------------------------

\* Whatever the size, no two threads write the same row, none reads A or B
\* before both are filled, and when main() has joined them all the rows the
\* sections cover are computed.
THEOREM ProductComputed == Spec => []ProductIsRight
<1> DEFINE I == MatrixMultiplication => MatInv
<1>1. MatInv => Mat!ProductIsRight
  <2> SUFFICES ASSUME MatInv PROVE Mat!ProductIsRight
      OBVIOUS
  <2>1. S \in Nat /\ Mat!T \in 2..7 /\ Share \in Nat /\ Mat!T * Share = Mat!Covered
        /\ Mat!TypeOK /\ Started /\ Computed /\ Owned
    BY Sections DEF MatInv
  <2>2. Mat!RowsAreDisjoint
    BY <2>1, Sections DEF Mat!RowsAreDisjoint, Owned
  <2>3. Mat!FilledFirst
    BY <2>1 DEF Mat!FilledFirst, Started
  <2>4. Mat!ProductIsComplete
    <3> SUFFICES ASSUME pc = "done", NEW r \in 0..S-1 PROVE C[r] # Mat!Zero <=> r < Mat!Covered
        BY DEF Mat!ProductIsComplete
    <3>1. ASSUME C[r] # Mat!Zero PROVE r < Mat!Covered
      <4>1. C[r] \in 0..Mat!T-1 /\ r \in Mat!Section(C[r])
        BY <2>1, <3>1 DEF Owned
      <4>2. PICK t \in 0..Mat!T-1 : r \in Mat!Section(t)
        BY <4>1
      <4>3. /\ Mat!Section(t) = t * Share..(t + 1) * Share - 1
            /\ t * Share \in Nat /\ (t + 1) * Share \in 0..S
            /\ (t + 1) * Share <= Mat!T * Share
        <5>1. t \in Int
          BY <2>1
        <5>2. QED
          BY <2>1, <5>1, Sections
      <4>4. QED
        BY <2>1, <4>2, <4>3
    <3>2. ASSUME r < Mat!Covered PROVE C[r] # Mat!Zero
      <4>1. \E t \in 0..Mat!T-1 : t * Share <= r /\ r < (t + 1) * Share
        <5>1. r \in Nat /\ r < Mat!T * Share
          BY <2>1, <3>2
        <5>2. Mat!T = 2 \/ Mat!T = 3 \/ Mat!T = 4 \/ Mat!T = 5 \/ Mat!T = 6 \/ Mat!T = 7
          BY <2>1
        <5>3. QED
          BY <2>1, <5>1, <5>2
      <4>2. PICK t \in 0..Mat!T-1 : t * Share <= r /\ r < (t + 1) * Share
        BY <4>1
      <4>3. t \in Mat!Sect /\ thread[t] = "ended"
        BY <2>1 DEF Started, Mat!Sect
      <4>4. C[r] = t
        BY <2>1, <4>2, <4>3 DEF Computed
      <4>5. QED
        BY <4>4 DEF Mat!Zero
    <3>3. QED
      BY <3>1, <3>2
  <2>5. QED
    BY <2>1, <2>2, <2>3, <2>4 DEF Mat!ProductIsRight
<1>2. Init => I
  BY MatInit, ProgramsAssumption DEF Init
<1>3. I /\ [Next]_vars => I'
  BY OneProgramRuns, MatStep DEF MatrixMultiplication
<1>4. I => ProductIsRight
  BY <1>1 DEF ProductIsRight
<1>5. QED
  BY <1>2, <1>3, <1>4, PTL DEF Spec

-----------------------------------------------------------------------------
(* LeeProcessControl: reports and lines, whoever is killed and whenever.     *)

(* The inductive invariant.                                                  *)

Ends == {0, 7, -6, -9, -11, -1}
Rep == [child: 0..2, how: Ends]
Lives == {"input", "case", "divide", "safe"}

ProcTypes ==
  /\ pc \in [0..3 -> Lives \cup {"unborn", "zombie", "reaped", "fork", "wait", "print",
                                "exited", "killed"}]
  /\ pc[3] \in {"fork", "wait", "print", "exited", "killed"}
  /\ \A c \in 0..2 : pc[c] \in Lives \cup {"unborn", "zombie", "reaped"}
  /\ n \in 0..3 /\ status \in Ends /\ how \in [0..2 -> Ends] /\ jump \subseteq {2}
  /\ lines \in Seq([child: 0..2, name: 0..2]) /\ tty \in BOOLEAN
  /\ buffer \in [0..3 -> Seq(Rep)] /\ out \in Seq(Rep) /\ outside \in 0..MaxKills

ParentLives == pc[3] \in {"fork", "wait", "print"}

\* One child at a time: those before it have ended and those after it do not
\* exist yet.
Turns ==
  /\ \A c \in 0..2 : /\ c < n => pc[c] \in {"unborn", "reaped"}
                     /\ c > n => pc[c] = "unborn"
                     /\ pc[c] \in Lives \cup {"unborn"} => how[c] = -1
  /\ pc[3] = "fork" /\ n < 3 => pc[n] = "unborn"
  /\ pc[3] = "wait" => n < 3 /\ pc[n] # "reaped"
  /\ pc[3] = "print" => n < 3 /\ pc[n] \in {"unborn", "reaped"}
  /\ pc[3] = "exited" => n = 3

\* What status may hold when the child c was not forked, how being h.
Before(c, h) == {-1} \cup {h[b] : b \in 0..c - 1}

\* Reports of the children before m.
RightReports(s, m, p, h) ==
  \A k \in 1..Len(s) :
    /\ s[k].child < m
    /\ s[k].how \in IF p[s[k].child] = "reaped" THEN {h[s[k].child]} ELSE Before(s[k].child, h)

\* Reports of the first k children, each once and in order.
Numbered(s, k) == Len(s) = k /\ \A j \in 1..k : s[j].child = j - 1

StatusIsRight ==
  ParentLives =>
    status \in IF pc[3] = "print" /\ pc[n] = "reaped" THEN {how[n]} ELSE Before(n, how)

\* A child's buffer is its parent's at the fork.
BuffersAreRight ==
  /\ IF ParentLives /\ ~tty THEN Numbered(buffer[3], n) ELSE buffer[3] = <<>>
  /\ \A c \in 0..2 : IF pc[c] \in Lives /\ ~tty THEN Numbered(buffer[c], c)
                     ELSE buffer[c] = <<>>
  /\ \A p \in 0..3 : RightReports(buffer[p], n, pc, how)

\* What the third child has written, if it did, comes first.
Inherited(h) == IF h[2] = 0 THEN 2 ELSE 0
OutIsRight ==
  /\ RightReports(out, n, pc, how)
  /\ tty => Numbered(out, n)
  /\ ~tty =>
       /\ Len(out) = Inherited(how) + (IF pc[3] = "exited" THEN 3 ELSE 0)
       /\ \A k \in 1..Len(out) :
            out[k].child = IF k <= Inherited(how) THEN k - 1 ELSE k - 1 - Inherited(how)

LinesAreRight ==
  /\ Proc!LinesInOrder
  /\ \A k \in 1..Len(lines) :
       lines[k].child <= n /\ lines[k].name < Proc!Written(lines[k].child)

ProcInv ==
  /\ ProcTypes /\ Turns
  /\ StatusIsRight /\ BuffersAreRight /\ OutIsRight /\ LinesAreRight

LEMMA ProcNames == Proc!Parent = 3 /\ Proc!Child = 0..2 /\ Proc!Proc = 0..3
<1>1. Proc!Parent = 3 /\ Proc!Child = 0..2
  BY DEF Proc!Parent, Proc!Child
<1>2. QED
  BY <1>1 DEF Proc!Proc

LEMMA ProcTyped == (ProcTypes => Proc!TypeOK) /\ (ProcTypes' => Proc!TypeOK')
<1>1. /\ Proc!How \cup {Proc!None} = Ends /\ Proc!Report = Rep
      /\ [child: Proc!Child, name: 0..Proc!Names-1] = [child: 0..2, name: 0..2]
  <2>1. Proc!How \cup {Proc!None} = Ends
    BY DEF Proc!How, Proc!None, Ends
  <2>2. Proc!Report = Rep
    BY <2>1, ProcNames DEF Proc!Report, Rep
  <2>3. 0..Proc!Names-1 = 0..2
    BY DEF Proc!Names
  <2>4. QED
    BY <2>1, <2>2, <2>3, ProcNames
<1>2. ProcTypes => Proc!TypeOK
  BY <1>1, ProcNames DEF ProcTypes, Proc!TypeOK, Lives
<1>3. ProcTypes' => Proc!TypeOK'
  BY <1>1, ProcNames DEF ProcTypes, Proc!TypeOK, Lives
<1>4. QED
  BY <1>2, <1>3

\* A report of a child that is past stays right.
LEMMA ReportsStay ==
  ASSUME NEW s \in Seq(Rep), NEW m \in 0..3, NEW m2 \in 0..3, m <= m2,
         NEW p, NEW p2, NEW h, NEW h2,
         \A c \in 0..2 : c < m => p2[c] = p[c] /\ h2[c] = h[c],
         RightReports(s, m, p, h)
  PROVE  RightReports(s, m2, p2, h2)
<1> SUFFICES ASSUME NEW k \in 1..Len(s)
             PROVE  /\ s[k].child < m2
                    /\ s[k].how \in IF p2[s[k].child] = "reaped" THEN {h2[s[k].child]}
                                    ELSE Before(s[k].child, h2)
    BY DEF RightReports
<1> DEFINE c == s[k].child
<1>1. c \in 0..2 /\ c < m
  <2>1. s[k] \in Rep
    BY ElementOfSeq
  <2>2. QED
    BY <2>1 DEF RightReports, Rep
<1>2. p2[c] = p[c] /\ h2[c] = h[c] /\ c < m2
  BY <1>1
<1>3. Before(c, h2) = Before(c, h)
  <2>1. \A b \in 0..c - 1 : h2[b] = h[b]
    BY <1>1
  <2>2. QED
    BY <2>1 DEF Before
<1>4. s[k].how \in IF p[c] = "reaped" THEN {h[c]} ELSE Before(c, h)
  BY DEF RightReports
<1> HIDE DEF c
<1>5. s[k].how \in IF p2[c] = "reaped" THEN {h2[c]} ELSE Before(c, h2)
  BY <1>2, <1>3, <1>4
<1>6. QED
  BY <1>2, <1>5 DEF c

LEMMA NoReports == \A m, p, h : RightReports(<<>>, m, p, h) /\ Numbered(<<>>, 0)
BY DEF RightReports, Numbered

LEMMA ReportsJoin ==
  ASSUME NEW s \in Seq(Rep), NEW t \in Seq(Rep), NEW m, NEW p, NEW h,
         RightReports(s, m, p, h), RightReports(t, m, p, h)
  PROVE  s \o t \in Seq(Rep) /\ RightReports(s \o t, m, p, h)
<1>1. PICK g : g = s \o t
  OBVIOUS
<1>2. /\ g \in Seq(Rep) /\ Len(g) = Len(s) + Len(t)
      /\ \A k \in 1..Len(s) : g[k] = s[k]
      /\ \A k \in 1..Len(t) : g[Len(s) + k] = t[k]
  BY <1>1, TwoParts
<1>3. Len(s) \in Nat /\ Len(t) \in Nat
  OBVIOUS
<1>4. ASSUME NEW k \in 1..Len(g)
      PROVE  (\E j \in 1..Len(s) : g[k] = s[j]) \/ \E j \in 1..Len(t) : g[k] = t[j]
  <2>1. k \in 1..Len(s) \/ \E j \in 1..Len(t) : k = Len(s) + j
    <3>1. k \in 1..Len(s) \/ (k - Len(s) \in 1..Len(t) /\ k = Len(s) + (k - Len(s)))
      BY <1>2, <1>3
    <3>2. QED
      BY <3>1, Zenon
  <2>2. QED
    BY <1>2, <2>1, Zenon
<1>5. RightReports(g, m, p, h)
  BY <1>4, Zenon DEF RightReports
<1>6. QED
  BY <1>1, <1>2, <1>5

\* The report of the child m after those before it.
LEMMA ReportAdded ==
  ASSUME NEW s \in Seq(Rep), NEW m \in 0..2, NEW p, NEW h, NEW e \in Ends,
         RightReports(s, m, p, h),
         e \in IF p[m] = "reaped" THEN {h[m]} ELSE Before(m, h)
  PROVE  LET t == Append(s, [child |-> m, how |-> e])
         IN  /\ t \in Seq(Rep) /\ RightReports(t, m + 1, p, h)
             /\ Numbered(s, m) => Numbered(t, m + 1)
<1> DEFINE r == [child |-> m, how |-> e]
           t == Append(s, r)
<1>1. r \in Rep /\ r.child = m /\ r.how = e
  BY DEF Rep
<1> HIDE DEF r
<1>2. /\ t \in Seq(Rep) /\ Len(s) \in Nat /\ Len(t) = Len(s) + 1
      /\ t[Len(s) + 1] = r /\ \A k \in 1..Len(s) : t[k] = s[k]
  BY <1>1
<1> HIDE DEF t
<1>3. RightReports(t, m + 1, p, h)
  <2> SUFFICES ASSUME NEW k \in 1..Len(t)
               PROVE  /\ t[k].child < m + 1
                      /\ t[k].how \in IF p[t[k].child] = "reaped" THEN {h[t[k].child]}
                                      ELSE Before(t[k].child, h)
      BY DEF RightReports
  <2>1. CASE k = Len(s) + 1
    BY <2>1, <1>1, <1>2
  <2>2. CASE k # Len(s) + 1
    <3>1. k \in 1..Len(s) /\ t[k] = s[k]
      BY <2>2, <1>2
    <3>2. s[k] \in Rep
      BY <3>1, ElementOfSeq
    <3>3. s[k].child \in 0..2
      BY <3>2 DEF Rep
    <3>4. s[k].child < m /\ s[k].how \in IF p[s[k].child] = "reaped" THEN {h[s[k].child]}
                                         ELSE Before(s[k].child, h)
      BY <3>1 DEF RightReports
    <3>5. QED
      BY <3>1, <3>3, <3>4
  <2>3. QED
    BY <2>1, <2>2
<1>4. ASSUME Numbered(s, m) PROVE Numbered(t, m + 1)
  <2>1. \A j \in 1..m + 1 : t[j].child = j - 1
    <3> TAKE j \in 1..m + 1
    <3>1. CASE j = m + 1
      BY <3>1, <1>1, <1>2, <1>4 DEF Numbered
    <3>2. CASE j # m + 1
      BY <3>2, <1>2, <1>4 DEF Numbered
    <3>3. QED
      BY <3>1, <3>2
  <2>2. QED
    BY <2>1, <1>2, <1>4 DEF Numbered
<1>5. QED
  BY <1>2, <1>3, <1>4 DEF t, r

LEMMA ProcInit == Proc!Init => ProcInv
<1> SUFFICES ASSUME Proc!Init PROVE ProcInv
    OBVIOUS
<1>1. /\ pc = [p \in 0..3 |-> IF p = 3 THEN "fork" ELSE "unborn"] /\ n = 0 /\ status = -1
      /\ how = [c \in 0..2 |-> -1] /\ jump = {} /\ lines = <<>> /\ tty \in BOOLEAN
      /\ buffer = [p \in 0..3 |-> <<>>] /\ out = <<>> /\ outside = 0
  BY ProcNames DEF Proc!Init, Proc!None
<1>2. 0 \in 0..MaxKills
  BY ProgramsAssumption DEF ProgramsAssumption, Proc!ProcessControlAssumption
<1>3. ProcTypes
  BY <1>1, <1>2 DEF ProcTypes, Ends, Lives
<1>4. Turns /\ StatusIsRight
  BY <1>1 DEF Turns, StatusIsRight, ParentLives, Before, Lives
<1>5. BuffersAreRight
  BY <1>1, NoReports DEF BuffersAreRight, ParentLives, Lives
<1>6. OutIsRight
  <2>1. Len(out) = 0 /\ Inherited(how) = 0 /\ pc[3] = "fork"
    BY <1>1 DEF Inherited
  <2>2. QED
    BY <2>1, <1>1, NoReports DEF OutIsRight
<1>7. LinesAreRight
  BY <1>1 DEF LinesAreRight, Proc!LinesInOrder
<1>8. QED
  BY <1>3, <1>4, <1>5, <1>6, <1>7 DEF ProcInv

LEMMA LinesStay ==
  ASSUME ProcInv, lines' = lines, n' \in 0..3, n <= n'
  PROVE  LinesAreRight'
<1>1. \A c : Proc!Written(c)' = Proc!Written(c)
  BY DEF Proc!Written
<1>2. Proc!LinesInOrder'
  BY DEF ProcInv, LinesAreRight, Proc!LinesInOrder
<1>3. \A k \in 1..Len(lines) : lines[k].child \in 0..2
  <2>1. \A k \in 1..Len(lines) : lines[k] \in [child: 0..2, name: 0..2]
    BY ElementOfSeq DEF ProcInv, ProcTypes
  <2>2. QED
    BY <2>1
<1>4. ASSUME NEW k \in 1..Len(lines)
      PROVE  lines[k].child <= n' /\ lines[k].name < Proc!Written(lines[k].child)
  <2>1. lines[k].child <= n /\ lines[k].name < Proc!Written(lines[k].child)
    BY DEF ProcInv, LinesAreRight
  <2>2. n \in 0..3
    BY DEF ProcInv, ProcTypes
  <2>3. QED
    BY <2>1, <2>2, <1>3
<1>5. QED
  BY <1>1, <1>2, <1>4 DEF LinesAreRight

LEMMA ReportsKept ==
  ASSUME ProcInv, n' \in 0..3, n <= n',
         \A c \in 0..2 : c < n => pc'[c] = pc[c] /\ how'[c] = how[c]
  PROVE  /\ \A p \in 0..3 : RightReports(buffer[p], n', pc', how')
         /\ RightReports(out, n', pc', how')
<1>1. /\ n \in 0..3 /\ out \in Seq(Rep) /\ \A p \in 0..3 : buffer[p] \in Seq(Rep)
  BY DEF ProcInv, ProcTypes
<1>2. RightReports(out, n, pc, how) /\ \A p \in 0..3 : RightReports(buffer[p], n, pc, how)
  BY DEF ProcInv, OutIsRight, BuffersAreRight
<1>3. QED
  BY <1>1, <1>2, ReportsStay

\* Who runs beside the parent is the child of this round.
LEMMA LiveChild ==
  ASSUME ProcInv, NEW c \in 0..2, pc[c] \in Lives
  PROVE  c = n /\ pc[3] \in {"wait", "killed"} /\ how[c] = -1
<1>1. n \in 0..3 /\ pc[3] \in {"fork", "wait", "print", "exited", "killed"}
  BY DEF ProcInv, ProcTypes
<1>2. Turns
  BY DEF ProcInv
<1>3. c = n /\ how[c] = -1
  BY <1>1, <1>2 DEF Turns, Lives
<1>4. QED
  BY <1>1, <1>2, <1>3 DEF Turns, Lives

\* A child that goes on to another place.
LEMMA ChildMoves ==
  ASSUME ProcInv, NEW c \in 0..2, pc[c] \in Lives, NEW at_ \in Lives,
         pc' = [pc EXCEPT ![c] = at_], UNCHANGED <<n, status, how, lines, tty, buffer, out>>,
         jump' \subseteq {2}, outside' \in 0..MaxKills
  PROVE  ProcInv'
<1>1. c = n /\ pc[3] \in {"wait", "killed"}
  BY LiveChild
<1>2. ProcTypes /\ Turns /\ StatusIsRight /\ BuffersAreRight /\ OutIsRight
  BY DEF ProcInv
<1>3. pc'[c] = at_ /\ pc'[3] = pc[3] /\ \A b \in 0..2 : b # c => pc'[b] = pc[b]
  BY <1>2 DEF ProcTypes
<1>4. ProcTypes'
  BY <1>2, <1>3 DEF ProcTypes
<1>5. Turns'
  BY <1>1, <1>2, <1>3 DEF Turns, Lives
<1>6. StatusIsRight'
  BY <1>1, <1>2, <1>3 DEF StatusIsRight, ParentLives
<1>7. \A b \in 0..2 : b < n => pc'[b] = pc[b] /\ how'[b] = how[b]
  BY <1>1, <1>3
<1>8. /\ \A p \in 0..3 : RightReports(buffer[p], n, pc', how)
      /\ RightReports(out, n, pc', how)
  <2>1. n \in 0..3 /\ n <= n
    BY <1>2 DEF ProcTypes
  <2>2. QED
    BY <2>1, <1>7, ReportsKept
<1>9. BuffersAreRight'
  BY <1>2, <1>3, <1>8 DEF BuffersAreRight, ParentLives
<1>10. OutIsRight'
  BY <1>2, <1>3, <1>8 DEF OutIsRight
<1>11. LinesAreRight'
  BY <1>2, LinesStay DEF ProcTypes
<1>12. QED
  BY <1>4, <1>5, <1>6, <1>9, <1>10, <1>11 DEF ProcInv

\* A child ends; only the first and the third may do so by exit().
LEMMA ChildEnds ==
  ASSUME ProcInv, NEW c \in 0..2, pc[c] \in Lives, NEW h \in Ends, h # -1,
         h >= 0 => c = 0 \/ (c = 2 /\ h = 0), h = 0 => c = 2,
         Proc!End(c, h), UNCHANGED <<n, status, lines, tty>>,
         jump' \subseteq {2}, outside' \in 0..MaxKills
  PROVE  ProcInv'
<1>1. c = n /\ pc[3] \in {"wait", "killed"} /\ how[c] = -1
  BY LiveChild
<1>2. ProcTypes /\ Turns /\ StatusIsRight /\ BuffersAreRight /\ OutIsRight
  BY DEF ProcInv
<1>3. /\ pc' = [pc EXCEPT ![c] = "zombie"] /\ how' = [how EXCEPT ![c] = h]
      /\ buffer' = [buffer EXCEPT ![c] = <<>>]
      /\ out' = IF h >= 0 THEN out \o buffer[c] ELSE out
  <2>1. c # Proc!Parent
    BY ProcNames
  <2>2. pc' = [pc EXCEPT ![c] = "zombie"] /\ how' = [how EXCEPT ![c] = h]
    BY <2>1 DEF Proc!End
  <2>3. CASE h >= 0
    BY <2>2, <2>3 DEF Proc!End, Proc!Flush
  <2>4. CASE ~(h >= 0)
    BY <2>2, <2>4 DEF Proc!End, Proc!Drop
  <2>5. QED
    BY <2>3, <2>4
<1>4. /\ pc'[c] = "zombie" /\ pc'[3] = pc[3] /\ how'[c] = h /\ buffer'[c] = <<>>
      /\ \A b \in 0..2 : b # c => pc'[b] = pc[b] /\ how'[b] = how[b]
      /\ \A p \in 0..3 : p # c => buffer'[p] = buffer[p]
      /\ buffer[c] \in Seq(Rep) /\ out \in Seq(Rep) /\ n \in 0..3
  BY <1>2, <1>3 DEF ProcTypes
<1>5. Turns'
  BY <1>1, <1>2, <1>4 DEF Turns, Lives
<1>6. StatusIsRight'
  <2>1. Before(n, how') = Before(n, how)
    BY <1>1, <1>4 DEF Before
  <2>2. QED
    BY <2>1, <1>1, <1>2, <1>4 DEF StatusIsRight, ParentLives
<1>7. /\ \A p \in 0..3 : RightReports(buffer[p], n, pc', how')
      /\ RightReports(out, n, pc', how')
  <2>1. n <= n /\ \A b \in 0..2 : b < n => pc'[b] = pc[b] /\ how'[b] = how[b]
    BY <1>1, <1>4
  <2>2. QED
    BY <2>1, <1>4, ReportsKept
<1>8. BuffersAreRight'
  BY <1>2, <1>4, <1>7, NoReports DEF BuffersAreRight, ParentLives, Lives
<1>9. out' \in Seq(Rep) /\ RightReports(out', n, pc', how')
  <2>1. out \o buffer[c] \in Seq(Rep) /\ RightReports(out \o buffer[c], n, pc', how')
    BY <1>4, <1>7, ReportsJoin
  <2>2. QED
    BY <1>3, <1>4, <1>7, <2>1, Zenon
<1>10. ProcTypes'
  <2>1. /\ pc' \in [0..3 -> Lives \cup {"unborn", "zombie", "reaped", "fork", "wait", "print",
                                       "exited", "killed"}]
        /\ pc'[3] \in {"fork", "wait", "print", "exited", "killed"}
    BY <1>2, <1>3, <1>4 DEF ProcTypes
  <2>2. \A b \in 0..2 : pc'[b] \in Lives \cup {"unborn", "zombie", "reaped"}
    BY <1>2, <1>4 DEF ProcTypes
  <2>3. how' \in [0..2 -> Ends]
    BY <1>2, <1>3, Zenon DEF ProcTypes
  <2>4. buffer' \in [0..3 -> Seq(Rep)]
    <3>1. <<>> \in Seq(Rep)
      OBVIOUS
    <3>2. QED
      BY <1>2, <1>3, <3>1, Zenon DEF ProcTypes
  <2>5. QED
    BY <1>2, <1>9, <2>1, <2>2, <2>3, <2>4, Zenon DEF ProcTypes
<1>11. tty => Numbered(out', n)
  <2>1. tty => buffer[c] = <<>> /\ Numbered(out, n)
    BY <1>2 DEF BuffersAreRight, OutIsRight
  <2>2. tty => out' = out
    BY <2>1, <1>3, <1>4, ConcatEmptySeq
  <2>3. QED
    BY <2>1, <2>2
<1>12. ASSUME ~tty
       PROVE  /\ Len(out') = Inherited(how')
              /\ \A k \in 1..Len(out') :
                   out'[k].child = IF k <= Inherited(how') THEN k - 1 ELSE k - 1 - Inherited(how')
  <2>1. /\ Len(out) = Inherited(how)
        /\ \A k \in 1..Len(out) :
             out[k].child = IF k <= Inherited(how) THEN k - 1 ELSE k - 1 - Inherited(how)
    <3>1. Inherited(how) \in {0, 2}
      BY DEF Inherited
    <3>2. QED
      BY <3>1, <1>1, <1>2, <1>12 DEF OutIsRight
  <2>2. CASE ~(c = 2 /\ h = 0)
    <3>1. Inherited(how') = Inherited(how)
      BY <2>2, <1>1, <1>4 DEF Inherited
    <3>2. out' = out
      <4>1. CASE h >= 0
        <5>1. c = 0
          BY <4>1, <2>2
        <5>2. Numbered(buffer[c], c)
          BY <1>2, <1>12 DEF BuffersAreRight
        <5>3. Len(buffer[c]) = 0
          BY <5>1, <5>2 DEF Numbered
        <5>4. buffer[c] = <<>>
          BY <5>3, <1>4, EmptySeq
        <5>5. QED
          BY <5>4, <4>1, <1>3, <1>4, ConcatEmptySeq
      <4>2. CASE ~(h >= 0)
        BY <4>2, <1>3
      <4>3. QED
        BY <4>1, <4>2
    <3>3. QED
      BY <2>1, <3>1, <3>2
  <2>3. CASE c = 2 /\ h = 0
    <3>1. Inherited(how) = 0 /\ Inherited(how') = 2
      BY <2>3, <1>1, <1>4 DEF Inherited
    <3>2. out = <<>>
      BY <2>1, <3>1, <1>4, EmptySeq
    <3>3. out' = buffer[c]
      BY <2>3, <3>2, <1>3, <1>4, ConcatEmptySeq
    <3>4. Numbered(buffer[c], c)
      BY <1>2, <1>12 DEF BuffersAreRight
    <3>5. QED
      BY <2>3, <3>1, <3>3, <3>4 DEF Numbered
  <2>4. QED
    BY <2>2, <2>3
<1>13. OutIsRight'
  <2>1. Inherited(how') \in {0, 2} /\ pc'[3] # "exited"
    BY <1>1, <1>4 DEF Inherited
  <2>2. QED
    BY <2>1, <1>9, <1>11, <1>12 DEF OutIsRight
<1>14. LinesAreRight'
  BY <1>4, LinesStay
<1>15. QED
  BY <1>5, <1>6, <1>8, <1>10, <1>13, <1>14 DEF ProcInv

\* The parent ends: it returns after the last round or is killed.
LEMMA ParentEnds ==
  ASSUME ProcInv, ParentLives, NEW h \in Ends, h # -1, h >= 0 => pc[3] = "fork" /\ n = 3,
         Proc!End(3, h), UNCHANGED <<n, status, lines, tty>>,
         jump' \subseteq {2}, outside' \in 0..MaxKills
  PROVE  ProcInv'
<1> DEFINE at_ == IF h >= 0 THEN "exited" ELSE "killed"
<1>1. ProcTypes /\ Turns /\ StatusIsRight /\ BuffersAreRight /\ OutIsRight
  BY DEF ProcInv
<1>2. /\ pc' = [pc EXCEPT ![3] = at_] /\ how' = how
      /\ buffer' = [buffer EXCEPT ![3] = <<>>]
      /\ out' = IF h >= 0 THEN out \o buffer[3] ELSE out
  <2>1. Proc!Parent = 3
    BY ProcNames
  <2>2. pc' = [pc EXCEPT ![3] = at_] /\ how' = how
    BY <2>1 DEF Proc!End
  <2>3. CASE h >= 0
    BY <2>2, <2>3 DEF Proc!End, Proc!Flush
  <2>4. CASE ~(h >= 0)
    BY <2>2, <2>4 DEF Proc!End, Proc!Drop
  <2>5. QED
    BY <2>3, <2>4
<1>3. /\ pc'[3] = at_ /\ buffer'[3] = <<>>
      /\ \A b \in 0..2 : pc'[b] = pc[b] /\ buffer'[b] = buffer[b]
      /\ buffer[3] \in Seq(Rep) /\ out \in Seq(Rep) /\ n \in 0..3
      /\ at_ \in {"exited", "killed"} /\ (at_ = "exited" => h >= 0)
  BY <1>1, <1>2 DEF ProcTypes
<1>4. Turns'
  BY <1>1, <1>2, <1>3 DEF Turns
<1>5. StatusIsRight' /\ ~ParentLives'
  BY <1>3 DEF StatusIsRight, ParentLives
<1>6. /\ \A p \in 0..3 : RightReports(buffer[p], n, pc', how)
      /\ RightReports(out, n, pc', how)
  <2>1. n <= n /\ \A b \in 0..2 : b < n => pc'[b] = pc[b] /\ how'[b] = how[b]
    BY <1>2, <1>3
  <2>2. QED
    BY <2>1, <1>2, <1>3, ReportsKept
<1>7. BuffersAreRight'
  <2>1. \A p \in 0..3 : RightReports(buffer'[p], n, pc', how)
    BY <1>3, <1>6, NoReports
  <2>2. \A c \in 0..2 : IF pc'[c] \in Lives /\ ~tty THEN Numbered(buffer'[c], c)
                        ELSE buffer'[c] = <<>>
    BY <1>1, <1>3 DEF BuffersAreRight
  <2>3. QED
    BY <2>1, <2>2, <1>2, <1>3, <1>5 DEF BuffersAreRight
<1>8. out' \in Seq(Rep) /\ RightReports(out', n, pc', how)
  <2>1. out \o buffer[3] \in Seq(Rep) /\ RightReports(out \o buffer[3], n, pc', how)
    BY <1>3, <1>6, ReportsJoin
  <2>2. QED
    BY <1>2, <1>3, <1>6, <2>1, Zenon
<1>9. ProcTypes'
  BY <1>1, <1>2, <1>3, <1>8 DEF ProcTypes
<1>10. tty => Numbered(out', n)
  <2>1. tty => buffer[3] = <<>> /\ Numbered(out, n)
    BY <1>1 DEF BuffersAreRight, OutIsRight
  <2>2. tty => out' = out
    BY <2>1, <1>2, <1>3, ConcatEmptySeq
  <2>3. QED
    BY <2>1, <2>2
<1>11. ASSUME ~tty
       PROVE  /\ Len(out') = Inherited(how) + (IF pc'[3] = "exited" THEN 3 ELSE 0)
              /\ \A k \in 1..Len(out') :
                   out'[k].child = IF k <= Inherited(how) THEN k - 1 ELSE k - 1 - Inherited(how)
  <2>1. Inherited(how) \in {0, 2}
    BY DEF Inherited
  <2>2. /\ Len(out) = Inherited(how)
        /\ \A k \in 1..Len(out) : out[k].child = k - 1
    BY <2>1, <1>1, <1>11 DEF OutIsRight, ParentLives
  <2>3. CASE ~(h >= 0)
    BY <2>1, <2>2, <2>3, <1>2, <1>3
  <2>4. CASE h >= 0
    <3>1. Len(buffer[3]) = 3 /\ \A j \in 1..3 : buffer[3][j].child = j - 1
      BY <2>4, <1>1, <1>11 DEF BuffersAreRight, Numbered
    <3>2. /\ Len(out') = Inherited(how) + 3
          /\ \A k \in 1..Len(out) + 3 :
               out'[k] = IF k <= Len(out) THEN out[k] ELSE buffer[3][k - Len(out)]
      <4> DEFINE s == out
                 t == buffer[3]
      <4>1. s \in Seq(Rep) /\ t \in Seq(Rep)
        BY <1>3
      <4>2. out' = s \o t
        BY <2>4, <1>2
      <4>3. Len(s) = Inherited(how) /\ Len(t) = 3
        BY <2>2, <3>1
      <4> HIDE DEF s, t
      <4>4. /\ Len(s \o t) = Inherited(how) + 3
            /\ \A k \in 1..Len(s) + 3 :
                 (s \o t)[k] = IF k <= Len(s) THEN s[k] ELSE t[k - Len(s)]
        <5>1. /\ Len(s \o t) = Len(s) + Len(t)
              /\ \A k \in 1..Len(s) + Len(t) :
                   (s \o t)[k] = IF k <= Len(s) THEN s[k] ELSE t[k - Len(s)]
          BY <4>1, ConcatProperties
        <5>2. QED
          BY <5>1, <4>3
      <4>5. QED
        BY <4>2, <4>4 DEF s, t
    <3>3. ASSUME NEW k \in 1..Len(out')
          PROVE  out'[k].child = IF k <= Inherited(how) THEN k - 1 ELSE k - 1 - Inherited(how)
      BY <2>1, <2>2, <3>1, <3>2
    <3>4. pc'[3] = "exited"
      BY <2>4, <1>3
    <3>5. QED
      BY <3>2, <3>3, <3>4
  <2>5. QED
    BY <2>3, <2>4
<1>12. OutIsRight'
  BY <1>2, <1>8, <1>10, <1>11 DEF OutIsRight
<1>13. LinesAreRight'
  BY <1>3, LinesStay
<1>14. QED
  BY <1>4, <1>5, <1>7, <1>9, <1>12, <1>13 DEF ProcInv

\* fork(), whether it succeeds or not.
LEMMA ForkIsRight ==
  ASSUME ProcInv, Proc!Fork \/ Proc!ForkFails
  PROVE  ProcInv'
<1>1. ProcTypes /\ Turns /\ StatusIsRight /\ BuffersAreRight /\ OutIsRight
  BY DEF ProcInv
<1>2. /\ pc[3] = "fork" /\ n \in 0..2
      /\ UNCHANGED <<n, status, how, jump, lines, tty, out, outside>>
      /\ \/ /\ pc' = [pc EXCEPT ![3] = "wait", ![n] = "input"]
            /\ buffer' = [buffer EXCEPT ![n] = buffer[3]]
         \/ pc' = [pc EXCEPT ![3] = "wait"] /\ buffer' = buffer
  BY ProcNames DEF Proc!Fork, Proc!ForkFails
<1>3. /\ pc'[3] = "wait" /\ pc'[n] \in {"unborn", "input"}
      /\ pc'[n] = "input" => buffer'[n] = buffer[3]
      /\ pc'[n] = "unborn" => buffer'[n] = buffer[n]
      /\ \A b \in 0..2 : b # n => pc'[b] = pc[b]
      /\ \A p \in 0..3 : p # n => buffer'[p] = buffer[p]
      /\ pc' \in [0..3 -> Lives \cup {"unborn", "zombie", "reaped", "fork", "wait", "print",
                                      "exited", "killed"}]
      /\ buffer' \in [0..3 -> Seq(Rep)]
      /\ pc[n] = "unborn" /\ how[n] = -1
  BY <1>1, <1>2 DEF ProcTypes, Turns, Lives
<1>4. ProcTypes'
  BY <1>1, <1>2, <1>3 DEF ProcTypes, Lives
<1>5. Turns'
  BY <1>1, <1>2, <1>3 DEF Turns, Lives
<1>6. StatusIsRight'
  BY <1>1, <1>2, <1>3 DEF StatusIsRight, ParentLives
<1>7. /\ \A p \in 0..3 : RightReports(buffer[p], n, pc', how)
      /\ RightReports(out, n, pc', how)
  <2>1. n \in 0..3 /\ n <= n /\ \A b \in 0..2 : b < n => pc'[b] = pc[b] /\ how'[b] = how[b]
    BY <1>2, <1>3
  <2>2. QED
    BY <2>1, <1>2, ReportsKept
<1>8. BuffersAreRight'
  <2>1. \A p \in 0..3 : RightReports(buffer'[p], n, pc', how)
    BY <1>2, <1>3, <1>7
  <2>2. IF ~tty THEN Numbered(buffer'[3], n) ELSE buffer'[3] = <<>>
    BY <1>1, <1>2, <1>3 DEF BuffersAreRight, ParentLives
  <2>3. ASSUME NEW c \in 0..2
        PROVE  IF pc'[c] \in Lives /\ ~tty THEN Numbered(buffer'[c], c) ELSE buffer'[c] = <<>>
    <3>1. CASE c # n
      BY <3>1, <1>1, <1>3 DEF BuffersAreRight
    <3>2. CASE c = n
      <4>1. IF ~tty THEN Numbered(buffer[3], n) ELSE buffer[3] = <<>>
        BY <1>1, <1>2 DEF BuffersAreRight, ParentLives
      <4>2. pc[c] \notin Lives
        BY <3>2, <1>3 DEF Lives
      <4>3. buffer[c] = <<>>
        BY <4>2, <1>1 DEF BuffersAreRight
      <4>4. CASE pc'[n] = "input"
        BY <3>2, <4>1, <4>4, <1>3 DEF Lives
      <4>5. CASE pc'[n] = "unborn"
        BY <3>2, <4>3, <4>5, <1>3 DEF Lives
      <4>6. QED
        BY <4>4, <4>5, <1>3
    <3>3. QED
      BY <3>1, <3>2
  <2>4. QED
    BY <2>1, <2>2, <2>3, <1>2, <1>3 DEF BuffersAreRight, ParentLives
<1>9. OutIsRight'
  BY <1>1, <1>2, <1>3, <1>7 DEF OutIsRight
<1>10. LinesAreRight'
  <2>1. n' \in 0..3 /\ n <= n'
    BY <1>2
  <2>2. QED
    BY <2>1, <1>2, LinesStay
<1>11. QED
  BY <1>4, <1>5, <1>6, <1>8, <1>9, <1>10 DEF ProcInv

\* wait3() takes the child of this round, if it was forked.
LEMMA WaitIsRight ==
  ASSUME ProcInv, Proc!Wait
  PROVE  ProcInv'
<1>1. ProcTypes /\ Turns /\ StatusIsRight /\ BuffersAreRight /\ OutIsRight
  BY DEF ProcInv
<1>2. /\ pc[3] = "wait" /\ UNCHANGED <<n, how, jump, lines, tty, buffer, out, outside>>
      /\ \/ /\ pc[n] = "zombie" /\ status' = how[n]
            /\ pc' = [pc EXCEPT ![3] = "print", ![n] = "reaped"]
         \/ /\ pc[n] = "unborn" /\ status' = status
            /\ pc' = [pc EXCEPT ![3] = "print"]
  <2>1. pc[3] = "wait" /\ UNCHANGED <<n, how, jump, lines, tty, buffer, out, outside>>
    BY ProcNames DEF Proc!Wait
  <2>2. n \in 0..2 /\ pc[n] # "reaped"
    BY <2>1, <1>1 DEF Turns, ProcTypes
  <2>3. CASE \E c \in 0..2 : /\ pc[c] = "zombie" /\ status' = how[c]
                             /\ pc' = [pc EXCEPT ![3] = "print", ![c] = "reaped"]
    <3>1. PICK c \in 0..2 : /\ pc[c] = "zombie" /\ status' = how[c]
                            /\ pc' = [pc EXCEPT ![3] = "print", ![c] = "reaped"]
      BY <2>3
    <3>2. c = n
      BY <3>1, <2>2, <1>1 DEF Turns
    <3>3. QED
      BY <2>1, <3>1, <3>2
  <2>4. CASE /\ \A c \in 0..2 : ~Proc!Running(c) /\ pc[c] # "zombie"
             /\ pc' = [pc EXCEPT ![3] = "print"] /\ status' = status
    <3>1. pc[n] \in Lives \cup {"unborn", "zombie", "reaped"}
      BY <2>2, <1>1 DEF ProcTypes
    <3>2. pc[n] = "unborn"
      BY <3>1, <2>2, <2>4 DEF Proc!Running, Lives
    <3>3. QED
      BY <2>1, <2>4, <3>2
  <2>5. QED
    BY <2>3, <2>4, ProcNames DEF Proc!Wait
<1>3. n \in 0..2 /\ n \in 0..3
  BY <1>1, <1>2 DEF Turns, ProcTypes
<1>4. /\ pc'[3] = "print" /\ pc'[n] \in {"unborn", "reaped"}
      /\ pc'[n] = "reaped" => status' = how[n]
      /\ pc'[n] = "unborn" => pc[n] = "unborn" /\ status' = status
      /\ \A b \in 0..2 : b # n => pc'[b] = pc[b]
      /\ pc' \in [0..3 -> Lives \cup {"unborn", "zombie", "reaped", "fork", "wait", "print",
                                      "exited", "killed"}]
      /\ status' \in Ends /\ pc[n] \notin Lives
  BY <1>1, <1>2, <1>3 DEF ProcTypes, Lives
<1>5. ProcTypes'
  BY <1>1, <1>2, <1>3, <1>4 DEF ProcTypes
<1>6. Turns'
  BY <1>1, <1>2, <1>3, <1>4 DEF Turns, Lives
<1>7. StatusIsRight'
  <2>1. status \in Before(n, how)
    BY <1>1, <1>2 DEF StatusIsRight, ParentLives
  <2>2. QED
    BY <2>1, <1>2, <1>4 DEF StatusIsRight
<1>8. /\ \A p \in 0..3 : RightReports(buffer[p], n, pc', how)
      /\ RightReports(out, n, pc', how)
  <2>1. n <= n /\ \A b \in 0..2 : b < n => pc'[b] = pc[b] /\ how'[b] = how[b]
    BY <1>2, <1>3, <1>4
  <2>2. QED
    BY <2>1, <1>2, <1>3, ReportsKept
<1>9. BuffersAreRight'
  <2>1. IF ~tty THEN Numbered(buffer[3], n) ELSE buffer[3] = <<>>
    BY <1>1, <1>2 DEF BuffersAreRight, ParentLives
  <2>2. \A c \in 0..2 : pc'[c] \in Lives <=> pc[c] \in Lives
    BY <1>4 DEF Lives
  <2>3. QED
    BY <2>1, <2>2, <1>1, <1>2, <1>4, <1>8 DEF BuffersAreRight, ParentLives
<1>10. OutIsRight'
  BY <1>1, <1>2, <1>4, <1>8 DEF OutIsRight
<1>11. LinesAreRight'
  BY <1>2, <1>3, LinesStay
<1>12. QED
  BY <1>5, <1>6, <1>7, <1>9, <1>10, <1>11 DEF ProcInv

\* PrintStatus(), to the terminal or into the buffer.
LEMMA ReportIsRight ==
  ASSUME ProcInv, Proc!ReportStatus
  PROVE  ProcInv'
<1> DEFINE r == [child |-> n, how |-> status]
<1>1. ProcTypes /\ Turns /\ StatusIsRight /\ BuffersAreRight /\ OutIsRight
  BY DEF ProcInv
<1>2. /\ pc[3] = "print" /\ n' = n + 1 /\ pc' = [pc EXCEPT ![3] = "fork"]
      /\ UNCHANGED <<status, how, jump, lines, tty, outside>>
      /\ tty => out' = Append(out, r) /\ buffer' = buffer
      /\ ~tty => buffer' = [buffer EXCEPT ![3] = Append(@, r)] /\ out' = out
  BY ProcNames DEF Proc!ReportStatus, Proc!Printf
<1>3. /\ n \in 0..2 /\ n \in 0..3 /\ n' \in 0..3 /\ n <= n' /\ pc[n] \in {"unborn", "reaped"}
      /\ status \in Ends /\ status \in IF pc[n] = "reaped" THEN {how[n]} ELSE Before(n, how)
  BY <1>1, <1>2 DEF Turns, ProcTypes, StatusIsRight, ParentLives
<1>4. /\ pc'[3] = "fork" /\ \A b \in 0..2 : pc'[b] = pc[b]
      /\ pc' \in [0..3 -> Lives \cup {"unborn", "zombie", "reaped", "fork", "wait", "print",
                                      "exited", "killed"}]
      /\ out \in Seq(Rep) /\ \A p \in 0..3 : buffer[p] \in Seq(Rep)
  BY <1>1, <1>2 DEF ProcTypes
<1>5. Turns'
  BY <1>1, <1>2, <1>3, <1>4 DEF Turns
<1>6. StatusIsRight'
  <2>1. Before(n, how) \cup {how[n]} \subseteq Before(n + 1, how)
    BY <1>3 DEF Before
  <2>2. status \in Before(n + 1, how)
    BY <2>1, <1>3
  <2>3. QED
    BY <2>2, <1>2, <1>4 DEF StatusIsRight
<1>7. /\ \A p \in 0..3 : RightReports(buffer[p], n', pc', how')
      /\ RightReports(out, n', pc', how')
  <2>1. \A b \in 0..2 : b < n => pc'[b] = pc[b] /\ how'[b] = how[b]
    BY <1>2, <1>4
  <2>2. QED
    BY <2>1, <1>3, ReportsKept
<1>8. ASSUME NEW s \in Seq(Rep), RightReports(s, n, pc, how)
      PROVE  /\ Append(s, r) \in Seq(Rep) /\ RightReports(Append(s, r), n + 1, pc', how)
             /\ Numbered(s, n) => Numbered(Append(s, r), n + 1)
  <2>1. /\ Append(s, r) \in Seq(Rep) /\ RightReports(Append(s, r), n + 1, pc, how)
        /\ Numbered(s, n) => Numbered(Append(s, r), n + 1)
    BY <1>3, <1>8, ReportAdded
  <2>2. n + 1 \in 0..3 /\ n + 1 <= n + 1 /\ \A b \in 0..2 : b < n + 1 => pc'[b] = pc[b]
    BY <1>3, <1>4
  <2>3. RightReports(Append(s, r), n + 1, pc', how)
    BY <2>1, <2>2, ReportsStay
  <2>4. QED
    BY <2>1, <2>3
<1>9. RightReports(out, n, pc, how) /\ RightReports(buffer[3], n, pc, how)
  BY <1>1 DEF OutIsRight, BuffersAreRight
<1> HIDE DEF r
<1>10. CASE tty
  <2>1. /\ Append(out, r) \in Seq(Rep) /\ RightReports(Append(out, r), n + 1, pc', how)
        /\ Numbered(Append(out, r), n + 1)
    BY <1>1, <1>4, <1>8, <1>9, <1>10 DEF OutIsRight
  <2>2. OutIsRight'
    BY <2>1, <1>2, <1>10 DEF OutIsRight
  <2>3. BuffersAreRight'
    BY <1>1, <1>2, <1>4, <1>7, <1>10 DEF BuffersAreRight
  <2>4. ProcTypes'
    BY <2>1, <1>1, <1>2, <1>3, <1>4, <1>10 DEF ProcTypes
  <2>5. QED
    BY <2>2, <2>3, <2>4, <1>2, <1>3, <1>5, <1>6, LinesStay DEF ProcInv
<1>11. CASE ~tty
  <2>1. /\ Append(buffer[3], r) \in Seq(Rep)
        /\ RightReports(Append(buffer[3], r), n + 1, pc', how)
        /\ Numbered(Append(buffer[3], r), n + 1)
    <3>1. Numbered(buffer[3], n)
      BY <1>1, <1>2, <1>11 DEF BuffersAreRight, ParentLives
    <3>2. buffer[3] \in Seq(Rep)
      BY <1>4
    <3>3. QED
      BY <3>1, <3>2, <1>8, <1>9
  <2>2. /\ buffer'[3] = Append(buffer[3], r) /\ \A b \in 0..2 : buffer'[b] = buffer[b]
        /\ buffer' \in [0..3 -> Seq(Rep)]
    <3>1. buffer \in [0..3 -> Seq(Rep)]
      BY <1>1 DEF ProcTypes
    <3>2. buffer' = [buffer EXCEPT ![3] = Append(buffer[3], r)]
      BY <1>2, <1>11
    <3>3. QED
      BY <2>1, <3>1, <3>2
  <2>3. OutIsRight'
    BY <1>1, <1>2, <1>4, <1>7, <1>11 DEF OutIsRight
  <2>4. BuffersAreRight'
    <3>1. \A p \in 0..3 : RightReports(buffer'[p], n', pc', how')
      BY <2>1, <2>2, <1>2, <1>7
    <3>2. \A c \in 0..2 : IF pc'[c] \in Lives /\ ~tty THEN Numbered(buffer'[c], c)
                          ELSE buffer'[c] = <<>>
      BY <2>2, <1>1, <1>4 DEF BuffersAreRight
    <3>3. Numbered(buffer'[3], n')
      BY <2>1, <2>2, <1>2
    <3>4. QED
      BY <3>1, <3>2, <3>3, <1>2, <1>4, <1>11 DEF BuffersAreRight, ParentLives
  <2>5. ProcTypes'
    BY <2>2, <1>1, <1>2, <1>3, <1>4, <1>11 DEF ProcTypes
  <2>6. QED
    BY <2>3, <2>4, <2>5, <1>2, <1>3, <1>5, <1>6, LinesStay DEF ProcInv
<1>12. QED
  BY <1>10, <1>11

\* The number of lines of each child, as one is added.
LEMMA OneMoreLine ==
  ASSUME ProcTypes, NEW c \in 0..2, NEW l \in [child: 0..2, name: 0..2], l.child = c,
         lines' = Append(lines, l)
  PROVE  /\ Proc!Written(c)' = Proc!Written(c) + 1
         /\ \A b \in 0..2 : Proc!Written(b) \in Nat
         /\ \A b \in 0..2 : b # c => Proc!Written(b)' = Proc!Written(b)
<1> DEFINE By(b) == {k \in 1..Len(lines) : lines[k].child = b}
           By2(b) == {k \in 1..Len(lines') : lines'[k].child = b}
<1>1. /\ lines \in Seq([child: 0..2, name: 0..2]) /\ Len(lines) \in Nat
      /\ DOMAIN lines = 1..Len(lines)
  BY DEF ProcTypes
<1>2. /\ Len(lines') = Len(lines) + 1 /\ DOMAIN lines' = 1..Len(lines')
      /\ lines'[Len(lines) + 1] = l /\ \A k \in 1..Len(lines) : lines'[k] = lines[k]
  BY <1>1
<1>3. \A b : Proc!Written(b) = Cardinality(By(b)) /\ Proc!Written(b)' = Cardinality(By2(b))
  BY <1>1, <1>2 DEF Proc!Written, Proc!Cardinality, Cardinality
<1>4. \A b : By(b) \subseteq 1..Len(lines) /\ IsFiniteSet(By(b)) /\ Cardinality(By(b)) \in Nat
  <2>1. IsFiniteSet(1..Len(lines))
    BY <1>1, FS_Interval
  <2>2. QED
    BY <2>1, FS_Subset, FS_CardinalityType
<1>5. \A b : b # c => By2(b) = By(b)
  BY <1>1, <1>2
<1>6. By2(c) = By(c) \cup {Len(lines) + 1} /\ Len(lines) + 1 \notin By(c)
  BY <1>1, <1>2
<1> HIDE DEF By, By2
<1>7. Cardinality(By2(c)) = Cardinality(By(c)) + 1
  BY <1>4, <1>6, FS_AddElement
<1>8. QED
  BY <1>3, <1>4, <1>5, <1>7

\* Input() appends a line, while no other process does.
LEMMA InputIsRight ==
  ASSUME ProcInv, NEW c \in 0..2, Proc!Input(c)
  PROVE  ProcInv'
<1> DEFINE l == [child |-> c, name |-> Proc!Written(c)]
           N == Len(lines)
<1>1. ProcTypes /\ Turns /\ StatusIsRight /\ BuffersAreRight /\ OutIsRight /\ LinesAreRight
  BY DEF ProcInv
<1>2. /\ pc[c] = "input" /\ Proc!Written(c) < 3 /\ lines' = Append(lines, l)
      /\ UNCHANGED <<pc, n, status, how, jump, tty, buffer, out, outside>>
  BY DEF Proc!Input, Proc!Names
<1>3. c = n
  BY <1>2, LiveChild DEF Lives
<1>4. Proc!Written(c) \in 0..2 /\ l \in [child: 0..2, name: 0..2] /\ l.child = c
  <2>1. Proc!Written(c) \in Nat
    <3>1. /\ Len(lines) \in Nat /\ DOMAIN lines = 1..Len(lines)
      BY <1>1 DEF ProcTypes
    <3> DEFINE B == {k \in 1..Len(lines) : lines[k].child = c}
    <3>2. Proc!Written(c) = Cardinality(B)
      BY <3>1 DEF Proc!Written, Proc!Cardinality, Cardinality
    <3>3. IsFiniteSet(1..Len(lines)) /\ B \in SUBSET (1..Len(lines))
      BY <3>1, FS_Interval
    <3> HIDE DEF B
    <3>4. QED
      BY <3>2, <3>3, FS_Subset, FS_CardinalityType
  <2>2. QED
    BY <2>1, <1>2
<1>5. /\ Proc!Written(c)' = Proc!Written(c) + 1
      /\ \A b \in 0..2 : Proc!Written(b) \in Nat
      /\ \A b \in 0..2 : b # c => Proc!Written(b)' = Proc!Written(b)
  BY <1>1, <1>2, <1>4, OneMoreLine
<1>6. l.name = Proc!Written(c)
  OBVIOUS
<1> HIDE DEF l
<1>7. /\ N \in Nat /\ lines' \in Seq([child: 0..2, name: 0..2])
      /\ Len(lines') = N + 1 /\ DOMAIN lines' = 1..N + 1 /\ DOMAIN lines = 1..N
      /\ lines'[N + 1] = l /\ \A k \in 1..N : lines'[k] = lines[k]
  BY <1>1, <1>2, <1>4 DEF ProcTypes
<1>8. \A k \in 1..N : lines[k] \in [child: 0..2, name: 0..2]
  BY <1>1, ElementOfSeq DEF ProcTypes
<1> HIDE DEF N
<1>9. \A k \in 1..N : /\ lines[k].child \in 0..2 /\ lines[k].name \in 0..2
                      /\ lines[k].child <= c
                      /\ lines[k].name < Proc!Written(lines[k].child)
  BY <1>1, <1>3, <1>8 DEF LinesAreRight, N
<1>10. Proc!LinesInOrder'
  <2> SUFFICES ASSUME NEW j \in 1..N + 1, NEW k \in 1..N + 1, j < k
               PROVE  \/ lines'[j].child < lines'[k].child
                      \/ /\ lines'[j].child = lines'[k].child
                         /\ lines'[j].name < lines'[k].name
      BY <1>7 DEF Proc!LinesInOrder
  <2>1. j \in 1..N /\ lines'[j] = lines[j]
    BY <1>7
  <2>2. CASE k = N + 1
    <3>1. lines'[k] = l
      BY <2>2, <1>7
    <3>2. lines[j].child \in 0..2 /\ lines[j].child <= c /\ lines[j].name < Proc!Written(lines[j].child)
      BY <2>1, <1>9
    <3>3. CASE lines[j].child = c
      BY <3>1, <3>2, <3>3, <2>1, <1>4, <1>6
    <3>4. CASE lines[j].child # c
      BY <3>1, <3>2, <3>4, <2>1, <1>4
    <3>5. QED
      BY <3>3, <3>4
  <2>3. CASE k # N + 1
    <3>1. k \in 1..N /\ lines'[k] = lines[k]
      BY <2>3, <1>7
    <3>2. QED
      BY <3>1, <2>1, <1>1, <1>7 DEF LinesAreRight, Proc!LinesInOrder
  <2>4. QED
    BY <2>2, <2>3
<1>11. ASSUME NEW k \in 1..N + 1, NEW b \in 0..2, lines'[k].child = b
       PROVE  b <= n /\ lines'[k].name < Proc!Written(b)'
  <2>1. CASE k = N + 1
    <3>1. b = c /\ lines'[k].name = Proc!Written(c)
      BY <2>1, <1>4, <1>6, <1>7, <1>11
    <3>2. Proc!Written(c) < Proc!Written(c)'
      BY <1>4, <1>5
    <3>3. QED
      BY <3>1, <3>2, <1>3
  <2>2. CASE k # N + 1
    <3>1. k \in 1..N /\ lines'[k] = lines[k]
      BY <2>2, <1>7
    <3>2. lines[k].child = b /\ b <= c /\ lines[k].name \in 0..2 /\ lines[k].name < Proc!Written(b)
      BY <3>1, <1>9, <1>11
    <3>3. Proc!Written(b)' \in Nat /\ Proc!Written(b) <= Proc!Written(b)'
      BY <1>4, <1>5
    <3>4. QED
      BY <3>1, <3>2, <3>3, <1>3, <1>5
  <2>3. QED
    BY <2>1, <2>2
<1>12. LinesAreRight'
  <2>1. \A k \in 1..N + 1 : lines'[k].child \in 0..2
    BY <1>4, <1>7, <1>9
  <2>2. ASSUME NEW k \in 1..N + 1
        PROVE  lines'[k].child <= n /\ lines'[k].name < (Proc!Written(lines[k].child))'
    BY <2>1, <1>11
  <2>3. QED
    BY <2>2, <1>2, <1>7, <1>10 DEF LinesAreRight
<1>13. ProcTypes'
  BY <1>1, <1>2, <1>7 DEF ProcTypes
<1>14. (Turns /\ StatusIsRight /\ BuffersAreRight /\ OutIsRight)'
  BY <1>1, <1>2 DEF Turns, StatusIsRight, ParentLives, BuffersAreRight, OutIsRight
<1>15. QED
  BY <1>12, <1>13, <1>14 DEF ProcInv

LEMMA ProcStep == ProcInv /\ [Proc!Next]_(Proc!vars) => ProcInv'
<1> SUFFICES ASSUME ProcInv, [Proc!Next]_(Proc!vars) PROVE ProcInv'
    OBVIOUS
<1>1. ProcTypes
  BY DEF ProcInv
<1>2. /\ jump \subseteq {2} /\ outside \in 0..MaxKills /\ MaxKills \in Nat
      /\ \A c \in 0..2 : pc[c] \in Lives \cup {"unborn", "zombie", "reaped"}
      /\ pc[3] \in {"fork", "wait", "print", "exited", "killed"}
  BY <1>1, ProgramsAssumption DEF ProcTypes, ProgramsAssumption, Proc!ProcessControlAssumption
<1>3. {0, 7, -6, -9, -11} \subseteq Ends
  BY DEF Ends
<1>4. CASE UNCHANGED Proc!vars
  <2>1. UNCHANGED <<pc, n, status, how, jump, lines, tty, buffer, out, outside>>
    BY <1>4 DEF Proc!vars
  <2>2. LinesAreRight'
    BY <2>1, <1>1, LinesStay DEF ProcTypes
  <2>3. QED
    BY <2>1, <2>2 DEF ProcInv, ProcTypes, Turns, StatusIsRight, ParentLives, BuffersAreRight,
      OutIsRight
<1>5. CASE Proc!ParentStep
  <2>1. CASE Proc!Return
    <3>1. /\ pc[3] = "fork" /\ n \notin 0..2 /\ Proc!End(3, 0)
          /\ UNCHANGED <<n, status, jump, lines, tty, outside>>
      BY <2>1, ProcNames DEF Proc!Return
    <3>2. n = 3 /\ ParentLives
      BY <3>1, <1>1 DEF ProcTypes, ParentLives
    <3>3. QED
      BY <3>1, <3>2, <1>2, <1>3, ParentEnds
  <2>2. QED
    BY <2>1, <1>5, ForkIsRight, WaitIsRight, ReportIsRight DEF Proc!ParentStep
<1>6. ASSUME NEW c \in 0..2, Proc!ChildStep(c) PROVE ProcInv'
  <2>1. CASE Proc!Switch(c)
    <3>1. pc[c] \in Lives /\ "case" \in Lives
      BY <2>1 DEF Proc!Switch, Lives
    <3>2. QED
      BY <2>1, <3>1, <1>2, ChildMoves DEF Proc!Switch
  <2>2. CASE c = 0 /\ Proc!Case0
    <3>1. /\ pc[c] = "case" /\ Proc!End(c, 7)
          /\ UNCHANGED <<n, status, jump, lines, tty, outside>>
      BY <2>2 DEF Proc!Case0
    <3>2. pc[c] \in Lives /\ 7 \in Ends
      BY <3>1, <1>3 DEF Lives
    <3>3. /\ UNCHANGED <<n, status, lines, tty>>
          /\ jump' \subseteq {2} /\ outside' \in 0..MaxKills
      BY <3>1, <1>2
    <3>4. PICK h \in Ends : h = 7
      BY <3>2
    <3>5. h # -1 /\ (h >= 0 => c = 0 \/ (c = 2 /\ h = 0)) /\ (h = 0 => c = 2)
      BY <3>4, <2>2
    <3>6. Proc!End(c, h)
      BY <3>1, <3>4
    <3>7. QED
      BY <3>1, <3>2, <3>3, <3>5, <3>6, ChildEnds
  <2>3. CASE c = 1 /\ Proc!Case1
    <3>1. /\ pc[c] = "case" /\ Proc!End(c, -6)
          /\ UNCHANGED <<n, status, jump, lines, tty, outside>>
      BY <2>3 DEF Proc!Case1, Proc!SIGABRT
    <3>2. pc[c] \in Lives /\ -6 \in Ends
      BY <3>1, <1>3 DEF Lives
    <3>3. /\ UNCHANGED <<n, status, lines, tty>>
          /\ jump' \subseteq {2} /\ outside' \in 0..MaxKills
      BY <3>1, <1>2
    <3>4. PICK h \in Ends : h = -6
      BY <3>2
    <3>5. h # -1 /\ (h >= 0 => c = 0 \/ (c = 2 /\ h = 0)) /\ (h = 0 => c = 2)
      BY <3>4, <2>3
    <3>6. Proc!End(c, h)
      BY <3>1, <3>4
    <3>7. QED
      BY <3>1, <3>2, <3>3, <3>5, <3>6, ChildEnds
  <2>4. CASE c = 2 /\ Proc!Setjmp
    <3>1. pc[c] \in Lives /\ "divide" \in Lives
      BY <2>4 DEF Proc!Setjmp, Lives
    <3>2. jump' \subseteq {2}
      BY <2>4, <1>2 DEF Proc!Setjmp
    <3>3. QED
      BY <2>4, <3>1, <3>2, <1>2, ChildMoves DEF Proc!Setjmp
  <2>5. CASE c = 2 /\ Proc!Divide
    <3>1. pc[c] \in Lives /\ "safe" \in Lives
      BY <2>5 DEF Proc!Divide, Lives
    <3>2. QED
      BY <2>5, <3>1, <1>2, ChildMoves DEF Proc!Divide
  <2>6. CASE c = 2 /\ Proc!Safe
    <3>1. /\ pc[c] = "safe" /\ Proc!End(c, 0)
          /\ UNCHANGED <<n, status, jump, lines, tty, outside>>
      BY <2>6 DEF Proc!Safe
    <3>2. pc[c] \in Lives /\ 0 \in Ends
      BY <3>1, <1>3 DEF Lives
    <3>3. /\ UNCHANGED <<n, status, lines, tty>>
          /\ jump' \subseteq {2} /\ outside' \in 0..MaxKills
      BY <3>1, <1>2
    <3>4. PICK h \in Ends : h = 0
      BY <3>2
    <3>5. h # -1 /\ (h >= 0 => c = 0 \/ (c = 2 /\ h = 0)) /\ (h = 0 => c = 2)
      BY <3>4, <2>6
    <3>6. Proc!End(c, h)
      BY <3>1, <3>4
    <3>7. QED
      BY <3>1, <3>2, <3>3, <3>5, <3>6, ChildEnds
  <2>7. QED
    BY <2>1, <2>2, <2>3, <2>4, <2>5, <2>6, <1>6, InputIsRight DEF Proc!ChildStep
<1>7. ASSUME NEW p \in 0..3, Proc!SendFPE(p) \/ Proc!SendKill(p) PROVE ProcInv'
  <2>1. /\ Proc!Running(p) /\ outside' \in 0..MaxKills /\ jump' \subseteq {2}
        /\ UNCHANGED <<n, status, lines, tty>>
    <3>1. /\ Proc!Running(p) /\ outside < MaxKills /\ outside' = outside + 1
          /\ UNCHANGED <<n, status, jump, lines, tty>>
      BY <1>7 DEF Proc!SendFPE, Proc!SendKill
    <3>2. QED
      BY <3>1, <1>2
  <2>2. CASE p = 3
    <3>1. ParentLives
      BY <2>1, <2>2, <1>2 DEF Proc!Running, ParentLives
    <3>2. Proc!End(3, -11) \/ Proc!End(3, -9)
      BY <2>2, <1>2, <1>7 DEF Proc!SendFPE, Proc!SendKill, Proc!SIGSEGV, Proc!SIGKILL
    <3>3. QED
      BY <2>1, <3>1, <3>2, <1>3, ParentEnds
  <2>3. CASE p # 3
    <3>1. p \in 0..2 /\ pc[p] \in Lives
      BY <2>1, <2>3, <1>2 DEF Proc!Running
    <3>2. CASE Proc!End(p, -11) \/ Proc!End(p, -9)
      BY <2>1, <3>1, <3>2, <1>3, ChildEnds
    <3>3. CASE pc' = [pc EXCEPT ![p] = "safe"] /\ UNCHANGED <<how, buffer, out>>
      <4>1. "safe" \in Lives
        BY DEF Lives
      <4>2. QED
        BY <2>1, <3>1, <3>3, <4>1, ChildMoves
    <3>4. QED
      BY <3>2, <3>3, <1>7 DEF Proc!SendFPE, Proc!SendKill, Proc!SIGSEGV, Proc!SIGKILL
  <2>4. QED
    BY <2>2, <2>3
<1>8. QED
  BY <1>4, <1>5, <1>6, <1>7, ProcNames DEF Proc!Next

LEMMA SmallSets ==
  /\ \A a, b : Cardinality({a}) = 1 /\ (a # b => Cardinality({a, b}) = 2)
  /\ \A a, D : D \subseteq {a} => Cardinality(D) \in 0..1
<1>1. ASSUME NEW a, NEW b PROVE Cardinality({a}) = 1 /\ (a # b => Cardinality({a, b}) = 2)
  <2>1. Cardinality({a}) = 1 /\ IsFiniteSet({a})
    BY FS_Singleton
  <2>2. {a, b} = {a} \cup {b}
    OBVIOUS
  <2>3. a # b => b \notin {a}
    OBVIOUS
  <2> DEFINE A == {a}
  <2> HIDE DEF A
  <2>4. A = {a}
    BY DEF A
  <2>5. a # b => Cardinality(A \cup {b}) = Cardinality(A) + 1
    BY <2>1, <2>3, <2>4, FS_AddElement
  <2>6. QED
    BY <2>1, <2>2, <2>4, <2>5
<1>2. ASSUME NEW a, NEW D, D \subseteq {a} PROVE Cardinality(D) \in 0..1
  <2>1. D = {} \/ D = {a}
    BY <1>2
  <2>2. Cardinality({}) = 0
    BY FS_EmptySet
  <2>3. CASE D = {}
    BY <2>2, <2>3
  <2>4. CASE D = {a}
    <3>1. Cardinality({a}) = 1
      BY <1>1
    <3>2. QED
      BY <2>4, <3>1
  <2>5. QED
    BY <2>1, <2>3, <2>4
<1>3. QED
  BY <1>1, <1>2

\* What is on stdout, counted.
LEMMA CopiesAreRight == ProcInv => Proc!ReportedOnceOrTwice
<1> SUFFICES ASSUME ProcInv PROVE Proc!ReportedOnceOrTwice
    OBVIOUS
<1> DEFINE D(c) == {k \in 1..Len(out) : out[k].child = c}
           E == pc[3] = "exited"
           i_ == Inherited(how)
<1>1. /\ out \in Seq(Rep) /\ DOMAIN out = 1..Len(out) /\ tty \in BOOLEAN /\ n \in 0..3
      /\ i_ = (IF how[2] = 0 THEN 2 ELSE 0)
  BY DEF ProcInv, ProcTypes, Inherited
<1>2. \A c : Proc!Copies(c) = Cardinality(D(c))
  BY <1>1 DEF Proc!Copies, Proc!Cardinality, Cardinality
<1>3. E => n = 3
  BY DEF ProcInv, Turns
<1>4. tty => Len(out) = n /\ \A k \in 1..n : out[k].child = k - 1
  BY DEF ProcInv, OutIsRight, Numbered
<1>5. ~tty => /\ Len(out) = i_ + (IF E THEN 3 ELSE 0)
              /\ \A k \in 1..Len(out) : out[k].child = IF k <= i_ THEN k - 1 ELSE k - 1 - i_
  BY DEF ProcInv, OutIsRight
<1> HIDE DEF E, i_
<1>6. ASSUME NEW c \in 0..2
      PROVE  /\ Proc!Copies(c) <= IF tty \/ c = 2 THEN 1 ELSE 2
             /\ E => Proc!Copies(c) = IF ~tty /\ c < 2 /\ how[2] = 0 THEN 2 ELSE 1
  <2>1. CASE tty
    <3>1. D(c) \subseteq {c + 1} /\ (E => D(c) = {c + 1})
      BY <2>1, <1>3, <1>4
    <3> HIDE DEF D
    <3>2. Cardinality(D(c)) \in 0..1 /\ (E => Cardinality(D(c)) = 1)
      BY <3>1, SmallSets
    <3>3. QED
      BY <2>1, <3>2, <1>2
  <2>2. CASE ~tty /\ (~E \/ c = 2 \/ how[2] # 0)
    <3>1. \E a : D(c) \subseteq {a} /\ (E => D(c) = {a})
      <4>1. CASE ~E
        <5>1. D(c) \subseteq {c + 1}
          BY <2>2, <4>1, <1>1, <1>5
        <5>2. QED
          BY <4>1, <5>1
      <4>2. CASE E
        <5>1. D(c) = {c + 1 + i_}
          BY <2>2, <4>2, <1>1, <1>5
        <5>2. QED
          BY <5>1
      <4>3. QED
        BY <4>1, <4>2
    <3> HIDE DEF D
    <3>2. Cardinality(D(c)) \in 0..1 /\ (E => Cardinality(D(c)) = 1)
      BY <3>1, SmallSets
    <3>3. E => ~(~tty /\ c < 2 /\ how[2] = 0)
      BY <2>2
    <3>4. QED
      BY <3>2, <3>3, <1>2
  <2>3. CASE ~tty /\ E /\ c # 2 /\ how[2] = 0
    <3>1. D(c) = {c + 1, c + 3}
      <4>1. i_ = 2 /\ Len(out) = 5 /\ c \in 0..1
        <5>1. i_ = 2
          BY <2>3, <1>1
        <5>2. Len(out) = i_ + 3
          BY <2>3, <1>5
        <5>3. QED
          BY <5>1, <5>2, <2>3
      <4>2. \A k \in 1..5 : out[k].child = IF k <= 2 THEN k - 1 ELSE k - 3
        BY <2>3, <4>1, <1>5
      <4>3. \A k \in 1..5 : out[k].child = c <=> k = c + 1 \/ k = c + 3
        BY <4>1, <4>2
      <4>4. c + 1 \in 1..5 /\ c + 3 \in 1..5
        BY <4>1
      <4>5. QED
        BY <4>1, <4>3, <4>4
    <3>2. c + 1 # c + 3
      OBVIOUS
    <3> HIDE DEF D
    <3>3. Cardinality(D(c)) = 2
      <4>1. Cardinality({c + 1, c + 3}) = 2
        BY <3>2, SmallSets
      <4>2. QED
        BY <3>1, <4>1
    <3>4. QED
      BY <2>3, <3>3, <1>2
  <2>4. QED
    BY <2>1, <2>2, <2>3
<1>7. QED
  BY <1>6, ProcNames DEF Proc!ReportedOnceOrTwice, E

\* Whoever is killed and whenever, and whether fork() succeeds: a report is of
\* the child it names, the children's lines are in order, none of the processes
\* is left when main() returns, and a report is written once, or twice by the
\* copy of the buffer that the third child has inherited.
THEOREM ReportsRight == Spec => []ReportsAreRight
<1> DEFINE I == ProcessControl => ProcInv
<1>1. ProcInv => Proc!ReportsAreRight
  <2> SUFFICES ASSUME ProcInv PROVE Proc!ReportsAreRight
      OBVIOUS
  <2>1. ProcTypes /\ Turns /\ BuffersAreRight /\ OutIsRight /\ LinesAreRight
    BY DEF ProcInv
  <2>2. ASSUME NEW r \in Proc!Reports
        PROVE  \/ pc[r.child] = "reaped" /\ r.how = how[r.child]
               \/ /\ pc[r.child] = "unborn"
                  /\ r.how \in {Proc!None} \cup {how[c] : c \in 0..(r.child - 1)}
    <3>1. /\ out \in Seq(Rep) /\ DOMAIN out = 1..Len(out)
          /\ \A p \in 0..3 : buffer[p] \in Seq(Rep) /\ DOMAIN buffer[p] = 1..Len(buffer[p])
      BY <2>1 DEF ProcTypes
    <3>2. PICK s \in Seq(Rep) : RightReports(s, n, pc, how) /\ \E k \in 1..Len(s) : r = s[k]
      <4>1. CASE r \in Proc!Range(out)
        BY <4>1, <3>1, <2>1 DEF Proc!Range, OutIsRight
      <4>2. CASE \E p \in 0..3 : r \in Proc!Range(buffer[p])
        <5>1. PICK p \in 0..3 : r \in Proc!Range(buffer[p])
          BY <4>2
        <5>2. RightReports(buffer[p], n, pc, how)
          BY <2>1 DEF BuffersAreRight
        <5>3. QED
          BY <5>1, <5>2, <3>1 DEF Proc!Range
      <4>3. QED
        BY <4>1, <4>2, <2>2, ProcNames DEF Proc!Reports
    <3>3. r \in Rep /\ r.child \in 0..2
      <4>1. r \in Rep
        BY <3>2, ElementOfSeq
      <4>2. QED
        BY <4>1 DEF Rep
    <3>4. /\ r.child < n
          /\ r.how \in IF pc[r.child] = "reaped" THEN {how[r.child]} ELSE Before(r.child, how)
      BY <3>2 DEF RightReports
    <3>5. pc[r.child] \in {"unborn", "reaped"}
      BY <3>3, <3>4, <2>1 DEF Turns
    <3>6. QED
      BY <3>4, <3>5 DEF Before, Proc!None
  <2>3. Proc!ReportIsOfItsChild
    BY <2>2 DEF Proc!ReportIsOfItsChild
  <2>4. Proc!NobodyLeft
    BY <2>1, ProcNames DEF Proc!NobodyLeft, Turns
  <2>5. QED
    BY <2>1, <2>3, <2>4, ProcTyped, CopiesAreRight DEF Proc!ReportsAreRight, LinesAreRight
<1>2. Init => I
  BY ProcInit DEF Init, ProcessControl
<1>3. I /\ [Next]_vars => I'
  BY OneProgramRuns, ProcStep DEF ProcessControl
<1>4. I => ReportsAreRight
  BY <1>1 DEF ReportsAreRight
<1>5. QED
  BY <1>2, <1>3, <1>4, PTL DEF Spec

-----------------------------------------------------------------------------
(* The programs that work on files.                                          *)

\* However many loggers there are and whoever runs, starts and kills them: as
\* long as one runs at a time and none is killed between its two writes, the
\* file is the lines of the log, one after the other, with nothing overwritten.
THEOREM LogWhole == Spec => []LogStaysWhole
<1> DEFINE I == TimeLog => TimeInv
<1>1. Init => I
  BY TimeInit DEF Init, TimeLog
<1>2. I /\ [Next]_vars => I'
  BY OneProgramRuns, TimeStep DEF TimeLog
<1>3. I => LogStaysWhole
  BY TimeInvRight DEF LogStaysWhole
<1>4. QED
  BY <1>1, <1>2, <1>3, PTL DEF Spec

\* Wherever the disk is full and however much of that the two sides overlook,
\* program 2 of vision reads the image that was to be written or reports an
\* error, no whole file is refused, and a division by zero is program 1's, on
\* a file that is cut or has no pixel 255: for every image, room, threshold
\* and buffer.
THEOREM FilesReadRight == Spec => []FileIsReadRight
<1> DEFINE I == PgmFiles => PgmInv
<1>1. Init => I
  BY PgmInit DEF Init, PgmFiles
<1>2. I /\ [Next]_vars => I'
  BY OneProgramRuns, PgmStep DEF PgmFiles
<1>3. I => FileIsReadRight
  BY DEF PgmInv, Answered, FileIsReadRight, Pgm!FileIsReadRight
<1>4. QED
  BY <1>1, <1>2, <1>3, PTL DEF Spec

\* Whatever other programs do to the tree and however deep it is, the shared
\* buffer holds what is put in it, each level of the recursion finds its own
\* directory in front of what inner levels left, and what nobody touched is
\* counted once.
THEOREM WalkRight == Spec => []WalkIsRight
<1> DEFINE I == DirectoryWalk => WalkInv
<1>1. Init => I
  BY WalkInit DEF Init, DirectoryWalk
<1>2. I /\ [Next]_vars => I'
  BY OneProgramRuns, WalkStep DEF DirectoryWalk
<1>3. I => WalkIsRight
  BY WalkInvRight DEF WalkIsRight
<1>4. QED
  BY <1>1, <1>2, <1>3, PTL DEF Spec

\* However many edit the books, whatever they answer and wherever one is killed:
\* as long as edits do not overlap, the file has no hole, the rows above an edit
\* survive whatever it has cut off, and without junk and half edits the file is
\* the rows that the users asked for.
THEOREM RowsKept == Spec => []RowsAreKept
<1> DEFINE I == BookFile => BookInv
<1>1. Init => I
  BY BookInit DEF Init, BookFile
<1>2. I /\ [Next]_vars => I'
  BY OneProgramRuns, BookStep DEF BookFile
<1>3. I => RowsAreKept
  BY BookInvRight DEF RowsAreKept
<1>4. QED
  BY <1>1, <1>2, <1>3, PTL DEF Spec
-----------------------------------------------------------------------------
(* LeeSemaphores: any number of rounds, and any value the semaphore comes    *)
(* with.                                                                     *)

LEMMA SemConstants ==
  child # parent /\ Rounds \in Nat /\ InitialValue \subseteq Nat /\ InitialErr \subseteq Int
BY ProgramsAssumption DEF Sem!SemaphoresAssumption

\* A process in the middle of a round has one left.
RoundLeft ==
  \A p \in Sem!Proc : pc[p] \in Sem!Inside \cup {"acquire", "relook"} => round[p] < Rounds

\* What the kernel would give back for p is what p has.
UndoneOnce == ~failed => \A p \in Sem!Proc : semadj[p] = Sem!Holding(p)

SemInv == Sem!TypeOK /\ RoundLeft /\ UndoneOnce /\ Sem!Conserved /\ Sem!Repaid

\* The programs start in the invariant.
LEMMA SemInit == Sem!Init => SemInv
<1> SUFFICES ASSUME Sem!Init PROVE SemInv
    OBVIOUS
<1>1. Sem!TypeOK
  <2>1. err \in [Sem!Proc -> Int] /\ round \in [Sem!Proc -> 0..Rounds]
    BY SemConstants DEF Sem!Init
  <2>2. written \in Seq(Sem!Proc)
    BY DEF Sem!Init
  <2>3. initial \in Nat /\ semval \in Nat
    BY SemConstants DEF Sem!Init
  <2>4. semadj \in [Sem!Proc -> Int]
    BY DEF Sem!Init
  <2>5. pc \in [Sem!Proc -> {"test", "acquire", "look", "write", "release", "relook",
                         "returned", "killed"}]
    BY DEF Sem!Init
  <2>6. failed \in BOOLEAN
    BY DEF Sem!Init
  <2>7. QED
    BY <2>1, <2>2, <2>3, <2>4, <2>5, <2>6 DEF Sem!TypeOK
<1>2. RoundLeft /\ UndoneOnce /\ Sem!Conserved /\ Sem!Repaid
  BY SemConstants
     DEF Sem!Repaid, Sem!Init, RoundLeft, UndoneOnce, Sem!Conserved, Sem!Holding, Sem!Inside, Sem!Proc
<1>3. QED
  BY <1>1, <1>2 DEF SemInv

\* The tests of err.
LEMMA SemTest ==
  ASSUME SemInv, NEW p \in Sem!Proc, Sem!TestPositive(p) \/ Sem!TestOther(p)
  PROVE  SemInv'
<1>1. Sem!TypeOK'
  <2>1. CASE Sem!TestPositive(p)
    BY <2>1, SemConstants
       DEF Sem!TestPositive, Sem!Goto, SemInv, Sem!TypeOK, RoundLeft, Sem!Inside
  <2>2. CASE Sem!TestOther(p)
    BY <2>2, SemConstants
       DEF Sem!TestOther, Sem!Goto, SemInv, Sem!TypeOK, RoundLeft, Sem!Inside
  <2>3. QED
    BY <2>1, <2>2
<1>2. RoundLeft'
  BY SemConstants DEF Sem!TestPositive, Sem!TestOther, Sem!Goto, SemInv, Sem!TypeOK,
       RoundLeft, Sem!Inside
<1>3. UndoneOnce'
  BY DEF Sem!TestPositive, Sem!TestOther, Sem!Goto, SemInv, Sem!TypeOK, UndoneOnce,
       Sem!Holding, Sem!Inside
<1>4. Sem!Conserved'
  BY SemConstants
     DEF Sem!TestPositive, Sem!TestOther, Sem!Goto, SemInv, Sem!TypeOK, Sem!Conserved,
       UndoneOnce, Sem!Holding, Sem!Inside, Sem!Proc
<1>5. Sem!Repaid'
  BY SemConstants DEF Sem!TestPositive, Sem!TestOther,
       Sem!Goto, SemInv, Sem!TypeOK, Sem!Repaid, Sem!Proc
<1>6. QED
  BY <1>1, <1>2, <1>3, <1>4, <1>5 DEF SemInv

\* The steps of a process that has had its semop().
LEMMA SemRound ==
  ASSUME SemInv, NEW p \in Sem!Proc, Sem!Look(p) \/ Sem!Write(p) \/ Sem!Relook(p)
  PROVE  SemInv'
<1>1. Sem!TypeOK'
  <2>1. CASE Sem!Look(p)
    BY <2>1, SemConstants
       DEF Sem!Look, Sem!Goto, SemInv, Sem!TypeOK, RoundLeft, Sem!Inside
  <2>2. CASE Sem!Write(p)
    BY <2>2, SemConstants
       DEF Sem!Write, Sem!Goto, SemInv, Sem!TypeOK, RoundLeft, Sem!Inside
  <2>3. CASE Sem!Relook(p)
    BY <2>3, SemConstants
       DEF Sem!Relook, Sem!Goto, SemInv, Sem!TypeOK, RoundLeft, Sem!Inside
  <2>4. QED
    BY <2>1, <2>2, <2>3
<1>2. RoundLeft'
  BY SemConstants DEF Sem!Look, Sem!Write, Sem!Relook, Sem!Goto, SemInv, Sem!TypeOK,
       RoundLeft, Sem!Inside
<1>3. UndoneOnce'
  BY DEF Sem!Look, Sem!Write, Sem!Relook, Sem!Goto, SemInv, Sem!TypeOK, UndoneOnce,
       Sem!Holding, Sem!Inside
<1>4. Sem!Conserved'
  BY SemConstants
     DEF Sem!Look, Sem!Write, Sem!Relook, Sem!Goto, SemInv, Sem!TypeOK, Sem!Conserved,
       UndoneOnce, Sem!Holding, Sem!Inside, Sem!Proc
<1>5. Sem!Repaid'
  BY SemConstants DEF Sem!Look, Sem!Write, Sem!Relook,
       Sem!Goto, SemInv, Sem!TypeOK, Sem!Repaid, Sem!Proc
<1>6. QED
  BY <1>1, <1>2, <1>3, <1>4, <1>5 DEF SemInv

\* A call that fails keeps it.
LEMMA SemFail ==
  ASSUME SemInv, NEW p \in Sem!Proc,
         \/ Sem!AcquireFails(p) \/ Sem!ReleaseFails(p)
         \/ Sem!LookFails(p) \/ Sem!RelookFails(p)
  PROVE  SemInv'
<1>1. Sem!TypeOK'
  <2>1. CASE Sem!AcquireFails(p)
    BY <2>1, SemConstants
       DEF Sem!AcquireFails, Sem!Goto, SemInv, Sem!TypeOK, RoundLeft, Sem!Inside
  <2>2. CASE Sem!ReleaseFails(p)
    BY <2>2, SemConstants
       DEF Sem!ReleaseFails, Sem!Goto, SemInv, Sem!TypeOK, RoundLeft, Sem!Inside
  <2>3. CASE Sem!LookFails(p)
    BY <2>3, SemConstants
       DEF Sem!LookFails, Sem!Goto, SemInv, Sem!TypeOK, RoundLeft, Sem!Inside
  <2>4. CASE Sem!RelookFails(p)
    BY <2>4, SemConstants
       DEF Sem!RelookFails, Sem!Goto, SemInv, Sem!TypeOK, RoundLeft, Sem!Inside
  <2>5. QED
    BY <2>1, <2>2, <2>3, <2>4
<1>2. RoundLeft'
  BY SemConstants DEF Sem!AcquireFails, Sem!ReleaseFails, Sem!LookFails, Sem!RelookFails,
       Sem!Goto, SemInv, Sem!TypeOK,
       RoundLeft, Sem!Inside
<1>3. UndoneOnce'
  BY DEF Sem!AcquireFails, Sem!ReleaseFails, Sem!LookFails, Sem!RelookFails,
       Sem!Goto, SemInv, Sem!TypeOK, UndoneOnce,
       Sem!Holding, Sem!Inside
<1>4. Sem!Conserved'
  BY SemConstants
     DEF Sem!AcquireFails, Sem!ReleaseFails, Sem!LookFails, Sem!RelookFails,
       Sem!Goto, SemInv, Sem!TypeOK, Sem!Conserved,
       UndoneOnce, Sem!Holding, Sem!Inside, Sem!Proc
<1>5. Sem!Repaid'
  BY SemConstants DEF Sem!AcquireFails, Sem!ReleaseFails, Sem!LookFails, Sem!RelookFails,
       Sem!Goto, SemInv, Sem!TypeOK, Sem!Repaid, Sem!Proc
<1>6. QED
  BY <1>1, <1>2, <1>3, <1>4, <1>5 DEF SemInv

\* So does a semaphore that is taken.
LEMMA SemAcquire ==
  ASSUME SemInv, NEW p \in Sem!Proc, Sem!Acquire(p)
  PROVE  SemInv'
<1>1. Sem!TypeOK'
  BY SemConstants DEF Sem!Acquire, Sem!Goto, SemInv, Sem!TypeOK, RoundLeft, Sem!Inside
<1>2. RoundLeft'
  BY SemConstants DEF Sem!Acquire, Sem!Goto, SemInv, Sem!TypeOK, RoundLeft, Sem!Inside
<1>3. UndoneOnce'
  BY DEF Sem!Acquire, Sem!Goto, SemInv, Sem!TypeOK, UndoneOnce, Sem!Holding, Sem!Inside
<1>4. Sem!Conserved'
  BY SemConstants
     DEF Sem!Acquire, Sem!Goto, SemInv, Sem!TypeOK, Sem!Conserved, UndoneOnce,
       Sem!Holding, Sem!Inside, Sem!Proc
<1>5. Sem!Repaid'
  <2>1. /\ child \in Sem!Proc /\ parent \in Sem!Proc /\ child # parent /\ p \in {child, parent}
        /\ semval \in Int /\ initial \in Int /\ initial' = initial
        /\ semadj \in [Sem!Proc -> Int] /\ Sem!Repaid
        /\ semval' = semval - 1 /\ semadj' = [semadj EXCEPT ![p] = @ + 1]
    BY SemConstants DEF Sem!Acquire, SemInv, Sem!TypeOK, Sem!Proc
  <2>2. semadj'[child] = IF p = child THEN semadj[child] + 1 ELSE semadj[child]
    BY <2>1
  <2>3. semadj'[parent] = IF p = parent THEN semadj[parent] + 1 ELSE semadj[parent]
    BY <2>1
  <2>4. semadj[child] \in Int /\ semadj[parent] \in Int
    BY <2>1
  <2>5. QED
    BY <2>1, <2>2, <2>3, <2>4 DEF Sem!Repaid
<1>6. QED
  BY <1>1, <1>2, <1>3, <1>4, <1>5 DEF SemInv

\* So does one that is given back.
LEMMA SemRelease ==
  ASSUME SemInv, NEW p \in Sem!Proc, Sem!Release(p)
  PROVE  SemInv'
<1>1. Sem!TypeOK'
  BY SemConstants DEF Sem!Release, Sem!Goto, SemInv, Sem!TypeOK, RoundLeft, Sem!Inside
<1>2. RoundLeft'
  BY SemConstants DEF Sem!Release, Sem!Goto, SemInv, Sem!TypeOK, RoundLeft, Sem!Inside
<1>3. UndoneOnce'
  BY DEF Sem!Release, Sem!Goto, SemInv, Sem!TypeOK, UndoneOnce, Sem!Holding, Sem!Inside
<1>4. Sem!Conserved'
  BY SemConstants
     DEF Sem!Release, Sem!Goto, SemInv, Sem!TypeOK, Sem!Conserved, UndoneOnce,
       Sem!Holding, Sem!Inside, Sem!Proc
<1>5. Sem!Repaid'
  <2>1. /\ child \in Sem!Proc /\ parent \in Sem!Proc /\ child # parent /\ p \in {child, parent}
        /\ semval \in Int /\ initial \in Int /\ initial' = initial
        /\ semadj \in [Sem!Proc -> Int] /\ Sem!Repaid
        /\ semval' = semval + 1 /\ semadj' = [semadj EXCEPT ![p] = @ - 1]
    BY SemConstants DEF Sem!Release, SemInv, Sem!TypeOK, Sem!Proc
  <2>2. semadj'[child] = IF p = child THEN semadj[child] - 1 ELSE semadj[child]
    BY <2>1
  <2>3. semadj'[parent] = IF p = parent THEN semadj[parent] - 1 ELSE semadj[parent]
    BY <2>1
  <2>4. semadj[child] \in Int /\ semadj[parent] \in Int
    BY <2>1
  <2>5. QED
    BY <2>1, <2>2, <2>3, <2>4 DEF Sem!Repaid
<1>6. QED
  BY <1>1, <1>2, <1>3, <1>4, <1>5 DEF SemInv

\* The end of p: what it has goes back, so the sum is as it was.
LEMMA SemEnd ==
  ASSUME SemInv, NEW p \in Sem!Proc, Sem!Return(p) \/ Sem!Kill(p)
  PROVE  SemInv'
<1>1. Sem!TypeOK'
  <2>1. CASE Sem!Return(p)
    BY <2>1, SemConstants
       DEF Sem!Return, Sem!End, Sem!Goto, SemInv, Sem!TypeOK, RoundLeft, Sem!Inside
  <2>2. CASE Sem!Kill(p)
    BY <2>2, SemConstants
       DEF Sem!Kill, Sem!End, Sem!Goto, SemInv, Sem!TypeOK, RoundLeft, Sem!Inside
  <2>3. QED
    BY <2>1, <2>2
<1>2. RoundLeft'
  BY SemConstants DEF Sem!Return, Sem!Kill, Sem!End, Sem!Goto, SemInv, Sem!TypeOK,
       RoundLeft, Sem!Inside
<1>3. UndoneOnce'
  BY DEF Sem!Return, Sem!Kill, Sem!End, Sem!Goto, SemInv, Sem!TypeOK, UndoneOnce,
       Sem!Holding, Sem!Inside
<1>4. Sem!Conserved'
  BY SemConstants
     DEF Sem!Return, Sem!Kill, Sem!End, Sem!Goto, SemInv, Sem!TypeOK, Sem!Conserved,
       UndoneOnce, Sem!Holding, Sem!Inside, Sem!Proc
<1>5. Sem!Repaid'
  BY SemConstants DEF Sem!Return, Sem!Kill, Sem!End,
       Sem!Goto, SemInv, Sem!TypeOK, Sem!Repaid, Sem!Proc
<1>6. QED
  BY <1>1, <1>2, <1>3, <1>4, <1>5 DEF SemInv

\* So does every step.
LEMMA SemStep == SemInv /\ [Sem!Next]_(Sem!vars) => SemInv'
<1> SUFFICES ASSUME SemInv, [Sem!Next]_(Sem!vars) PROVE SemInv'
    OBVIOUS
<1>1. CASE UNCHANGED Sem!vars
  BY <1>1 DEF Sem!vars, SemInv, Sem!TypeOK, RoundLeft, UndoneOnce, Sem!Conserved, Sem!Repaid,
              Sem!Holding
<1>2. CASE Sem!Next
  <2>1. PICK p \in Sem!Proc :
          \/ Sem!Step(p)
          \/ Sem!AcquireFails(p) \/ Sem!LookFails(p) \/ Sem!ReleaseFails(p) \/ Sem!RelookFails(p)
          \/ Sem!Kill(p)
    BY <1>2 DEF Sem!Next
  <2>2. QED
    BY <2>1, SemTest, SemRound, SemFail, SemAcquire, SemRelease, SemEnd DEF Sem!Step
<1>3. QED
  BY <1>1, <1>2

\* Whatever calls fail the semaphore, the rounds and the rest keep their range,
\* and as long as no semop() fails the semaphore counts: kills and returns
\* included, its value and its holders make up the value it came with.  After
\* one has failed, what the kernel will undo still makes it up, or more.
THEOREM SemaphoreCountsRight == Spec => []SemaphoreCounts
<1> DEFINE I == Semaphores => SemInv
<1>1. Init => I
  BY SemInit DEF Init, Semaphores
<1>2. I /\ [Next]_vars => I'
  BY OneProgramRuns, SemStep DEF Semaphores
<1>3. I => SemaphoreCounts
  BY DEF SemInv, SemaphoreCounts
<1>4. QED
  BY <1>1, <1>2, <1>3, PTL DEF Spec

\* A semaphore that came with 0 or 1 keeps child and parent apart, for any
\* number of rounds and wherever one of them is killed.
THEOREM MutualExclusion == Spec => []SemaphoreExcludes
<1> DEFINE I == Semaphores => SemInv
<1>1. Init => I
  BY SemInit DEF Init, Semaphores
<1>2. I /\ [Next]_vars => I'
  BY OneProgramRuns, SemStep DEF Semaphores
<1>3. I => SemaphoreExcludes
  <2>1. SemInv => Sem!TypeOK /\ Sem!Conserved
    BY DEF SemInv
  <2>2. Sem!Holders = Sem!Proc => Sem!Holding(child) = 1 /\ Sem!Holding(parent) = 1
    BY DEF Sem!Holders, Sem!Proc, Sem!Holding
  <2>3. Sem!TypeOK /\ Sem!Conserved => Sem!Exclusive
    BY <2>2 DEF Sem!TypeOK, Sem!Conserved, Sem!Exclusive
  <2>4. QED
    BY <2>1, <2>3 DEF SemaphoreExcludes
<1>4. QED
  BY <1>1, <1>2, <1>3, PTL DEF Spec
=============================================================================
