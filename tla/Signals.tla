------------------------------- MODULE Signals -------------------------------
(***************************************************************************)
(* LeeSignal: a process that blocks signals, raises SIGINT in a critical   *)
(* section and lets it in by sigsuspend().  Anybody may send it signals at *)
(* any time.  Main runs only while no handler does.                        *)
(***************************************************************************)
EXTENDS Naturals, Sequences, SequencesExt

CONSTANT MaxSent  \* bound: signals that arrive from outside

SignalsAssumption == MaxSent \in Nat

Signal == {"SIGHUP", "SIGINT", "SIGABRT", "SIGALRM"}

\* The order of the calls of signal() in main().
InstallOrder == <<"SIGINT", "SIGABRT", "SIGALRM", "SIGHUP">>

VARIABLES
  pc,         \* what main() does next
  installed,  \* how many calls of signal() were made
  mask,       \* the signal mask of the process
  pending,    \* signals sent and not yet delivered
  oldset, newset, waitset,  \* the three sets of the program
  saved,      \* the mask sigsuspend() restores
  frames,     \* handlers that run, the innermost last
  actions,    \* the ACTION lines of file.txt
  sent        \* signals that came from outside

sets == <<oldset, newset, waitset>>
vars == <<pc, installed, mask, pending, sets, saved, frames, actions, sent>>

Alive == pc \notin {"exited", "killed"}
At(place) == pc = place /\ frames = <<>>
Installed == {InstallOrder[k] : k \in 1..installed}

-----------------------------------------------------------------------------
(* main()                                                                  *)

Install ==
  /\ At("install")
  /\ installed' = installed + 1
  /\ pc' = IF installed' = Len(InstallOrder) THEN "setmask" ELSE "install"
  /\ UNCHANGED <<mask, pending, sets, saved, frames, actions, sent>>

\* sigprocmask(SIG_SETMASK, newset, NULL)
SetMask ==
  /\ At("setmask")
  /\ mask' = newset
  /\ pc' = "block"
  /\ UNCHANGED <<installed, pending, sets, saved, frames, actions, sent>>

\* sigprocmask(SIG_BLOCK, oldset, newset) that replaces the mask.
BlockReplaces ==
  /\ At("block")
  /\ newset' = mask
  /\ mask' = oldset
  /\ pc' = "raise"
  /\ UNCHANGED <<installed, pending, oldset, waitset, saved, frames, actions, sent>>

\* sigprocmask(SIG_BLOCK, oldset, newset): newset gets the mask before it.
Block ==
  /\ At("block")
  /\ newset' = mask
  /\ mask' = mask \cup oldset
  /\ pc' = "raise"
  /\ UNCHANGED <<installed, pending, oldset, waitset, saved, frames, actions, sent>>

\* raise(SIGINT) in CriticalCode(), with SIGINT blocked
Raise ==
  /\ At("raise")
  /\ pending' = pending \cup {"SIGINT"}
  /\ pc' = "sigpending"
  /\ UNCHANGED <<installed, mask, sets, saved, frames, actions, sent>>

\* sigwait() in place of sigpending() takes the signals away.
SigWait ==
  /\ At("sigpending")
  /\ waitset' = pending
  /\ pending' = {}
  /\ pc' = "print"
  /\ UNCHANGED <<installed, mask, oldset, newset, saved, frames, actions, sent>>

SigPending ==
  /\ At("sigpending")
  /\ waitset' = pending
  /\ pc' = "print"
  /\ UNCHANGED <<installed, mask, pending, oldset, newset, saved, frames, actions, sent>>

\* PrintSigset(waitset), after which CriticalCode() returns
PrintSigset ==
  /\ At("print")
  /\ pc' = "suspend"
  /\ UNCHANGED <<installed, mask, pending, sets, saved, frames, actions, sent>>

\* sigsuspend() of the set that was just blocked.
SuspendOnCurrentMask ==
  /\ At("suspend")
  /\ saved' = mask
  /\ pc' = "suspended"
  /\ UNCHANGED <<installed, mask, pending, sets, frames, actions, sent>>

\* sigsuspend() of an empty set.
SuspendOnNothing ==
  /\ At("suspend")
  /\ saved' = mask
  /\ mask' = {}
  /\ pc' = "suspended"
  /\ UNCHANGED <<installed, pending, sets, frames, actions, sent>>

\* sigsuspend(newset): the mask changes and the process sleeps, in one step.
Suspend ==
  /\ At("suspend")
  /\ saved' = mask
  /\ mask' = newset
  /\ pc' = "suspended"
  /\ UNCHANGED <<installed, pending, sets, frames, actions, sent>>

Finish ==
  /\ At("finish")
  /\ pc' = "exited"
  /\ UNCHANGED <<installed, mask, pending, sets, saved, frames, actions, sent>>

-----------------------------------------------------------------------------
(* Signals                                                                 *)

Send(s) ==
  /\ Alive
  /\ sent < MaxSent
  /\ sent' = sent + 1
  /\ pending' = pending \cup {s}
  /\ UNCHANGED <<pc, installed, mask, sets, saved, frames, actions>>

\* The mask once the handler has returned: sigsuspend() ends with it and
\* leaves the mask it found.
MaskAfter == IF pc = "suspended" THEN saved ELSE mask

\* A delivery that does not block the signal while its handler runs.
DeliverUnblocked(s) ==
  /\ Alive
  /\ s \in pending \ mask
  /\ s \in Installed
  /\ pending' = pending \ {s}
  /\ frames' = Append(frames, [signo |-> s, mask |-> MaskAfter])
  /\ pc' = IF pc = "suspended" THEN "finish" ELSE pc
  /\ UNCHANGED <<installed, mask, sets, saved, actions, sent>>

\* A handler starts, and its signal is blocked until it returns.
Deliver(s) ==
  /\ Alive
  /\ s \in pending \ mask
  /\ s \in Installed
  /\ pending' = pending \ {s}
  /\ frames' = Append(frames, [signo |-> s, mask |-> MaskAfter])
  /\ mask' = mask \cup {s}
  /\ pc' = IF pc = "suspended" THEN "finish" ELSE pc
  /\ UNCHANGED <<installed, sets, saved, actions, sent>>

\* Without a handler, each of these signals ends the process.
Die(s) ==
  /\ Alive
  /\ s \in (pending \ mask) \ Installed
  /\ pc' = "killed"
  /\ UNCHANGED <<installed, mask, pending, sets, saved, frames, actions, sent>>

\* handler() writes its lines and returns.
Handler ==
  /\ Alive /\ frames # <<>>
  /\ actions' = Append(actions, Last(frames).signo)
  /\ mask' = Last(frames).mask
  /\ frames' = Front(frames)
  /\ UNCHANGED <<pc, installed, pending, sets, saved, sent>>

-----------------------------------------------------------------------------

Init ==
  /\ pc = "install"
  /\ installed = 0
  /\ mask = {} /\ pending = {} /\ saved = {}
  /\ oldset = {"SIGINT"}
  /\ newset = {"SIGABRT", "SIGALRM"}
  /\ waitset = {}
  /\ frames = <<>> /\ actions = <<>>
  /\ sent = 0

MainStep ==
  \/ Install \/ SetMask \/ Block \/ Raise \/ SigPending
  \/ PrintSigset \/ Suspend \/ Finish

Next ==
  \/ MainStep
  \/ Handler
  \/ \E s \in Signal : Send(s)
  \/ \E s \in Signal : Deliver(s)
  \/ \E s \in Signal : Die(s)

\* The kernel runs the process and delivers what it can; nobody has to send.
Fairness ==
  /\ WF_vars(MainStep)
  /\ WF_vars(Handler)
  /\ WF_vars(\E s \in Signal : Deliver(s) \/ Die(s))

Spec == Init /\ [][Next]_vars /\ Fairness

-----------------------------------------------------------------------------
(* Properties                                                              *)

Blocked == {"SIGINT", "SIGABRT", "SIGALRM"}
InCriticalCode == pc \in {"raise", "sigpending", "print", "suspend"}

TypeOK ==
  /\ pc \in {"install", "setmask", "block", "raise", "sigpending", "print",
             "suspend", "suspended", "finish", "exited", "killed"}
  /\ installed \in 0..Len(InstallOrder)
  /\ {mask, pending, oldset, newset, waitset, saved} \subseteq SUBSET Signal
  /\ frames \in Seq([signo: Signal, mask: SUBSET Signal])
  /\ actions \in Seq(Signal)
  /\ sent \in 0..MaxSent

\* CriticalCode() is never interrupted by a signal that main() blocked before
\* it, not even between the two calls of sigprocmask(), and whatever else
\* interrupts it leaves the mask as it was.
CriticalCodeIsProtected ==
  InCriticalCode =>
    /\ \A k \in DOMAIN frames : frames[k].signo \notin Blocked
    /\ Blocked \subseteq mask
    /\ frames = <<>> => mask = Blocked

\* The list of pending signals that PrintSigset() writes is not stale: it has
\* the raised SIGINT in it, and each blocked signal on it stays pending until
\* sigsuspend(), which then lets in SIGINT and no other.
WaitSetStaysPending ==
  /\ pc \in {"print", "suspend"} =>
       "SIGINT" \in waitset /\ waitset \cap Blocked \subseteq pending
  /\ Alive => waitset \cap {"SIGABRT", "SIGALRM"} \subseteq pending

\* The raised SIGINT is not lost: when the program ends, its handler has
\* written, or, if a SIGHUP ended sigsuspend() first, it is still pending.
RaisedIsNotLost ==
  pc = "exited" =>
    \/ "SIGINT" \in Range(actions)
    \/ "SIGINT" \in pending /\ "SIGHUP" \in Range(actions)

\* A handler is never interrupted by its own signal, so that no more than one
\* handler per signal is between its two writes.
NoHandlerTwice ==
  \A j, k \in DOMAIN frames : frames[j].signo = frames[k].signo => j = k

\* Whenever signals come, they neither get into CriticalCode() nor are lost.
SignalsAreSafe ==
  /\ TypeOK /\ CriticalCodeIsProtected
  /\ WaitSetStaysPending /\ RaisedIsNotLost
  /\ NoHandlerTwice
=============================================================================
