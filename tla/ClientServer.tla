---------------------------- MODULE ClientServer ----------------------------
(***************************************************************************)
(* LeeClientServer: client threads that ask one server thread, created by  *)
(* the first request, to read lines from the terminal.  The requests wait  *)
(* in a linked queue under server.mutex; a synchronous one blocks its      *)
(* thread on the request's own condition variable until the server is done *)
(* with it.                                                                *)
(*                                                                         *)
(* What a thread does while it holds a mutex is one action, from lock to   *)
(* unlock or to the release inside pthread_cond_wait: the two mutexes are  *)
(* never held together and everything shared is accessed under one of them *)
(* or, a request in service, by the server alone.  blocked holds the       *)
(* threads inside pthread_cond_wait; a signal takes one out, and so may a  *)
(* spurious wakeup.                                                        *)
(***************************************************************************)
EXTENDS Naturals, Sequences, FiniteSets

CONSTANTS
  Client,    \* the client threads
  Server,    \* identities for the server threads that may get created
  main,      \* the main thread
  nobody,    \* what a server thread without a request serves
  MaxLines,  \* bound: lines typed before the end of the input
  Answers    \* how many words a DB_ command may ask for

ASSUME ClientServerAssumption ==
  /\ Client # {} /\ IsFiniteSet(Client)
  /\ main \notin Client \cup Server /\ Client \cap Server = {}
  /\ nobody \notin Client \cup Server \cup {main}
  /\ MaxLines \in Nat
  /\ Answers \subseteq Nat \ {0}

VARIABLES
  pc,              \* where each thread is
  blocked,         \* threads in pthread_cond_wait, not yet signalled
  running,         \* server.running
  queue,           \* server.first ... server.last
  serving,         \* the request a server thread has dequeued
  done,            \* done_flag of the thread's latest synchronous request
  text,            \* the line in that request's text
  client_threads,  \* clients that have not finished
  stdin            \* the lines still to be read; then the input ends

vars == <<pc, blocked, running, queue, serving, done, text, client_threads, stdin>>

Thread == Client \cup Server \cup {main}
Requester == Client \cup {main}

\* A line is empty, the name of a DB_ command, or something else.
Line == {"", "DB", "word"}

Request(op, t) == [operation |-> op, from |-> t]
Synchronous(r) == r.operation # "WRITE"

\* Thread t is about to run the code called place.  The return from main() ends
\* the process, and every thread with it.
Over == pc[main] = "returned"
At(t, place) == pc[t] = place /\ ~Over

-----------------------------------------------------------------------------
(* server_request(), up to the wait for the reply.                         *)

\* The server threads in pthread_cond_wait(&server.request, &server.mutex).
Waiting == {s \in Server \cap blocked : pc[s] = "take"}

\* StartServer() that leaves server.running to the new thread to set.
StartServerUnmarked(t, next) ==
  /\ UNCHANGED running
  /\ \E s \in Server :
       /\ pc[s] = "none"
       /\ pc' = [pc EXCEPT ![t] = next, ![s] = "take"]

\* "if (!server.running)": the first request creates the server thread, and
\* says so before anyone else can look; t goes on to where `next` says.
StartServer(t, next) ==
  /\ running' = TRUE
  /\ IF running
     THEN pc' = [pc EXCEPT ![t] = next]
     ELSE \E s \in Server :
            /\ pc[s] = "none"
            /\ pc' = [pc EXCEPT ![t] = next, ![s] = "take"]

\* Enqueue() at the head.
EnqueueFirst(op, t) == queue' = <<Request(op, t)>> \o queue

Enqueue(op, t) == queue' = Append(queue, Request(op, t))

\* server_request() without pthread_cond_signal(&server.request).
SignalNobody(asleep) == blocked' = blocked \cup asleep

\* The signal wakes a waiting server thread, if there is one; those in asleep
\* start to wait.
SignalServer(asleep) ==
  IF Waiting = {} THEN blocked' = blocked \cup asleep
  ELSE \E s \in Waiting : blocked' = (blocked \ {s}) \cup asleep

Post(t, op, next, asleep) ==
  /\ StartServer(t, next)
  /\ Enqueue(op, t)
  /\ SignalServer(asleep)

\* A synchronous request: the thread waits until done_flag is set.
PostSync(t, op) ==
  /\ Post(t, op, "await", {t})
  /\ done' = [done EXCEPT ![t] = FALSE]
  /\ text' = [text EXCEPT ![t] = ""]
  /\ UNCHANGED <<serving, client_threads, stdin>>

-----------------------------------------------------------------------------
(* The main thread                                                         *)

Created == {c \in Client : pc[c] # "none"}

\* One round of "for (count=0; count<client_threads; count++)".  The bound is
\* the counter that finished clients decrement, read here without its mutex.
CreateClient(c) ==
  /\ At(main, "create")
  /\ c \notin Created
  /\ Cardinality(Created) < client_threads
  /\ pc' = [pc EXCEPT ![c] = "read"]
  /\ UNCHANGED <<blocked, running, queue, serving, done, text, client_threads, stdin>>

\* The end of that loop.
AllCreated ==
  /\ At(main, "create")
  /\ Cardinality(Created) >= client_threads
  /\ pc' = [pc EXCEPT ![main] = "join"]
  /\ UNCHANGED <<blocked, running, queue, serving, done, text, client_threads, stdin>>

\* Join with > 1 for > 0.
JoinOneShort ==
  /\ At(main, "join")
  /\ main \notin blocked
  /\ IF client_threads > 1
     THEN blocked' = blocked \cup {main} /\ UNCHANGED pc
     ELSE pc' = [pc EXCEPT ![main] = "quit"] /\ UNCHANGED blocked
  /\ UNCHANGED <<running, queue, serving, done, text, client_threads, stdin>>

\* while (client_threads>0) pthread_cond_wait(&clients_done, &client_mutex)
Join ==
  /\ At(main, "join")
  /\ main \notin blocked
  /\ IF client_threads > 0
     THEN blocked' = blocked \cup {main} /\ UNCHANGED pc
     ELSE pc' = [pc EXCEPT ![main] = "quit"] /\ UNCHANGED blocked
  /\ UNCHANGED <<running, queue, serving, done, text, client_threads, stdin>>

Quit ==
  /\ At(main, "quit")
  /\ PostSync(main, "QUIT")

\* The return from server_request(), and from main(): the process is over.
Return ==
  /\ At(main, "await")
  /\ main \notin blocked
  /\ IF done[main]
     THEN pc' = [pc EXCEPT ![main] = "returned"] /\ UNCHANGED blocked
     ELSE blocked' = blocked \cup {main} /\ UNCHANGED pc
  /\ UNCHANGED <<running, queue, serving, done, text, client_threads, stdin>>

-----------------------------------------------------------------------------
(* client_routine()                                                        *)

Read(c) ==
  /\ At(c, "read")
  /\ PostSync(c, "READ")

\* The loop around pthread_cond_wait(&request->done, ...); an empty line ends
\* the client, any other is sent back with a WRITE.
Answered(c) ==
  /\ At(c, "await")
  /\ c \notin blocked
  /\ IF done[c]
     THEN /\ pc' = [pc EXCEPT ![c] = IF text[c] = "" THEN "leave" ELSE "write"]
          /\ UNCHANGED blocked
     ELSE blocked' = blocked \cup {c} /\ UNCHANGED pc
  /\ UNCHANGED <<running, queue, serving, done, text, client_threads, stdin>>

Write(c) ==
  /\ At(c, "write")
  /\ Post(c, "WRITE", "read", {})
  /\ UNCHANGED <<serving, done, text, client_threads, stdin>>

\* The last of client_routine() without its signal of clients_done.
LeaveSilently(c) ==
  /\ At(c, "leave")
  /\ client_threads' = client_threads - 1
  /\ pc' = [pc EXCEPT ![c] = "exited"]
  /\ UNCHANGED <<blocked, running, queue, serving, done, text, stdin>>

\* A client that counts itself out once more when its loop ends.
LeaveTwice(c) ==
  /\ At(c, "leave")
  /\ client_threads' = client_threads - 2
  /\ blocked' = IF client_threads' <= 0 THEN blocked \ {main} ELSE blocked
  /\ pc' = [pc EXCEPT ![c] = "exited"]
  /\ UNCHANGED <<running, queue, serving, done, text, stdin>>

\* client_routine(), after its loop.
Leave(c) ==
  /\ At(c, "leave")
  /\ client_threads' = client_threads - 1
  /\ blocked' = IF client_threads' = 0 /\ pc[main] = "join"
                THEN blocked \ {main} ELSE blocked
  /\ pc' = [pc EXCEPT ![c] = "exited"]
  /\ UNCHANGED <<running, queue, serving, done, text, stdin>>

-----------------------------------------------------------------------------
(* server_routine()                                                        *)

Take(s) ==
  /\ At(s, "take")
  /\ s \notin blocked
  /\ IF queue = <<>>
     THEN blocked' = blocked \cup {s} /\ UNCHANGED <<pc, queue, serving>>
     ELSE /\ serving' = [serving EXCEPT ![s] = Head(queue)]
          /\ queue' = Tail(queue)
          /\ pc' = [pc EXCEPT ![s] = "handle"]
          /\ UNCHANGED blocked
  /\ UNCHANGED <<running, done, text, client_threads, stdin>>

\* The k-th word of the input stands on line j.
Word(k, j) ==
  /\ stdin[j] # ""
  /\ Cardinality({i \in 1..j : stdin[i] # ""}) = k

(***************************************************************************)
(* The switch.  fgets() gives the first line, or "" at the end of the      *)
(* input.  A DB_ command goes on to read k words with scanf("%s"), which   *)
(* skips empty lines and leaves the newline after the last word: the next  *)
(* fgets() gets an empty line.                                             *)
(***************************************************************************)
AskAndAnswer(t) ==
  IF stdin = <<>>
  THEN text' = [text EXCEPT ![t] = ""] /\ UNCHANGED stdin
  ELSE /\ text' = [text EXCEPT ![t] = Head(stdin)]
       /\ IF Head(stdin) # "DB" THEN stdin' = Tail(stdin)
          ELSE \E k \in Answers :
                 \/ \E j \in 2..Len(stdin) :
                      /\ Word(k + 1, j)
                      /\ stdin' = <<"">> \o SubSeq(stdin, j + 1, Len(stdin))
                 \/ /\ \A j \in 2..Len(stdin) : ~Word(k + 1, j)
                    /\ stdin' = <<>>

\* A server that replies to READ only.
AfterHandlingForgetsQuit(r) == IF r.operation = "READ" THEN "reply" ELSE "take"

AfterHandling(r) == IF Synchronous(r) THEN "reply" ELSE "take"

Handle(s) ==
  LET r == serving[s] IN
  /\ At(s, "handle")
  /\ IF r.operation = "READ" THEN AskAndAnswer(r.from) ELSE UNCHANGED <<text, stdin>>
  /\ pc' = [pc EXCEPT ![s] = AfterHandling(r)]
  /\ UNCHANGED <<blocked, running, queue, serving, done, client_threads>>

\* Reply() without its signal of the request's condition variable.
ReplyTooEarly(s) ==
  LET r == serving[s] IN
  /\ At(s, "reply")
  /\ done' = [done EXCEPT ![r.from] = TRUE]
  /\ pc' = [pc EXCEPT ![s] = IF r.operation = "QUIT" THEN "stopped" ELSE "take"]
  /\ UNCHANGED <<blocked, running, queue, serving, text, client_threads, stdin>>

Reply(s) ==
  LET r == serving[s] IN
  /\ At(s, "reply")
  /\ done' = [done EXCEPT ![r.from] = TRUE]
  /\ blocked' = blocked \ {r.from}
  /\ pc' = [pc EXCEPT ![s] = IF r.operation = "QUIT" THEN "stopped" ELSE "take"]
  /\ UNCHANGED <<running, queue, serving, text, client_threads, stdin>>

-----------------------------------------------------------------------------

\* pthread_cond_wait() may return for no reason; every wait is in a loop.
SpuriousWakeup(t) ==
  /\ t \in blocked /\ ~Over
  /\ blocked' = blocked \ {t}
  /\ UNCHANGED <<pc, running, queue, serving, done, text, client_threads, stdin>>

MainStep ==
  (\E c \in Client : CreateClient(c)) \/ AllCreated \/ Join \/ Quit \/ Return
ClientStep(c) == Read(c) \/ Answered(c) \/ Write(c) \/ Leave(c)
ServerStep(s) == Take(s) \/ Handle(s) \/ Reply(s)

Init ==
  /\ pc = [t \in Thread |-> IF t = main THEN "create" ELSE "none"]
  /\ blocked = {}
  /\ running = FALSE
  /\ queue = <<>>
  /\ serving = [s \in Server |-> Request("none", nobody)]
  /\ done = [t \in Requester |-> FALSE]
  /\ text = [t \in Requester |-> ""]
  /\ client_threads = Cardinality(Client)
  /\ stdin \in UNION {[1..n -> Line] : n \in 0..MaxLines}

Next ==
  \/ MainStep
  \/ \E c \in Client : ClientStep(c)
  \/ \E s \in Server : ServerStep(s)
  \/ \E t \in Thread : SpuriousWakeup(t)
  \/ Over /\ UNCHANGED vars

\* The kernel runs every thread that can run; it owes nobody a spurious wakeup.
Fairness ==
  /\ WF_vars(MainStep)
  /\ \A c \in Client : WF_vars(ClientStep(c))
  /\ \A s \in Server : WF_vars(ServerStep(s))

Spec == Init /\ [][Next]_vars /\ Fairness

-----------------------------------------------------------------------------
(* Properties.                                                             *)

TypeOK ==
  /\ pc \in [Thread -> {"none", "create", "join", "quit", "returned", "read",
                        "await", "write", "leave", "exited",
                        "take", "handle", "reply", "stopped"}]
  /\ blocked \subseteq Thread
  /\ running \in BOOLEAN
  /\ queue \in Seq([operation: {"READ", "WRITE", "QUIT"}, from: Requester])
  /\ serving \in [Server -> [operation: {"READ", "WRITE", "QUIT", "none"},
                             from: Requester \cup {nobody}]]
  /\ done \in [Requester -> BOOLEAN]
  /\ text \in [Requester -> Line]
  /\ client_threads \in 0..Cardinality(Client)
  /\ stdin \in Seq(Line)

Serving(s) == pc[s] \in {"handle", "reply"}

\* However many threads make the first request at once, one server is created.
OneServer ==
  /\ Cardinality({s \in Server : pc[s] # "none"}) <= 1
  /\ running <=> \E s \in Server : pc[s] # "none"

\* A thread waits for an answer exactly while its one synchronous request is
\* in the queue, in service, or answered: none is lost, none answered twice.
Queued(t) ==
  {k \in DOMAIN queue : queue[k].from = t /\ Synchronous(queue[k])}
InService(t) ==
  {s \in Server : Serving(s) /\ serving[s].from = t /\ Synchronous(serving[s])}
RequestsAccounted ==
  \A t \in Requester :
    Cardinality(Queued(t)) + Cardinality(InService(t)) =
      IF pc[t] = "await" /\ ~done[t] THEN 1 ELSE 0

\* No wakeup is lost: a thread asleep on a condition variable, without help of
\* a spurious wakeup, is one whose condition does not hold.
NoLostWakeup ==
  /\ \A s \in Server \cap blocked : queue = <<>>
  /\ \A t \in Requester \cap blocked :
       IF pc[t] = "join" THEN client_threads > 0 ELSE ~done[t]

\* The server handles the WRITEs of a client before the READ that followed
\* them, so a client never has two of its lines under way.
WritesComeFirst ==
  \A s \in Server : \A k \in DOMAIN queue :
    Serving(s) /\ serving[s].operation = "READ" =>
      queue[k].from # serving[s].from

\* The server quits last: by then every client has finished, every request
\* has been handled, and no WRITE dies with the process.
QuitIsLast ==
  (\E s \in Server : Serving(s) /\ serving[s].operation = "QUIT")
    \/ Over =>
      queue = <<>> /\ \A c \in Client : pc[c] = "exited"

\* Both: requests are handled in the order their clients rely on.
RequestsInOrder == WritesComeFirst /\ QuitIsLast

\* Every synchronous request is answered.
EveryRequestAnswered ==
  \A t \in Requester : pc[t] = "await" ~> pc[t] # "await"

\* Once main() has created every client, the process comes to its end.
Terminates == pc[main] = "join" /\ Created = Client ~> Over

\* "client has 4 threads": what main() creates before it goes on to wait.
ClientHasAllThreads == pc[main] = "join" => Created = Client
=============================================================================
