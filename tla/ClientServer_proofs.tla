------------------------ MODULE ClientServer_proofs ------------------------
(* That LeeClientServer neither loses, doubles nor reorders a request and    *)
(* misses no wakeup, whatever the number of clients and what they type.      *)
(*                                                                           *)
(* CSInv is the inductive invariant.  Read, Write and Quit share one lemma   *)
(* (AsksStep); the steps that leave the queue alone share another            *)
(* (QuietStep).                                                              *)
EXTENDS ClientServer, TLAPS, FiniteSetTheorems, SequenceTheorems

\* The code each kind of thread runs.
Places ==
  /\ pc \in [Thread -> {"none", "create", "join", "quit", "returned", "read",
                        "await", "write", "leave", "exited",
                        "take", "handle", "reply", "stopped"}]
  /\ pc[main] \in {"create", "join", "quit", "await", "returned"}
  /\ \A c \in Client : pc[c] \in {"none", "read", "await", "write", "leave", "exited"}
  /\ \A s \in Server : pc[s] \in {"none", "take", "handle", "reply", "stopped"}

Wanted == [operation: {"READ", "WRITE", "QUIT"}, from: Requester]

\* The types of everything but pc and client_threads.
Types ==
  /\ blocked \subseteq Thread
  /\ running \in BOOLEAN
  /\ queue \in Seq(Wanted)
  /\ serving \in [Server -> [operation: {"READ", "WRITE", "QUIT", "none"},
                             from: Requester \cup {nobody}]]
  /\ done \in [Requester -> BOOLEAN]
  /\ text \in [Requester -> Line]
  /\ stdin \in Seq(Line)

\* client_threads counts the clients that have not finished.
Unfinished == {c \in Client : pc[c] # "exited"}
Counted == client_threads = Cardinality(Unfinished)

\* main() leaves its wait for the clients when all of them are done.
PastJoin == pc[main] \in {"quit", "await", "returned"} => Unfinished = {}

\* Only the main thread asks the server to quit.
ByKind(r) ==
  /\ r.operation = "QUIT" => r.from = main
  /\ r.operation \in {"READ", "WRITE"} => r.from \in Client
RequestsByKind ==
  /\ \A k \in DOMAIN queue : ByKind(queue[k])
  /\ \A s \in Server : Serving(s) =>
       serving[s].operation # "none" /\ ByKind(serving[s])
  /\ \A s \in Server : pc[s] = "reply" => Synchronous(serving[s])

\* server.running is true exactly when the one server thread exists.
LoneServer ==
  /\ \A s, u \in Server : pc[s] # "none" /\ pc[u] # "none" => s = u
  /\ running <=> \E s \in Server : pc[s] # "none"

\* The server has, or will get, a synchronous request of t.
Asked(t) ==
  \/ \E k \in DOMAIN queue : queue[k].from = t /\ Synchronous(queue[k])
  \/ \E s \in Server : Serving(s) /\ serving[s].from = t /\ Synchronous(serving[s])
AskedWhileAwaiting == \A t \in Requester : Asked(t) <=> pc[t] = "await" /\ ~done[t]

\* A thread posts nothing while its synchronous request is under way.
LastOfItsThread ==
  /\ \A k, l \in DOMAIN queue :
       k < l /\ Synchronous(queue[k]) => queue[l].from # queue[k].from
  /\ \A s \in Server : \A k \in DOMAIN queue :
       Serving(s) /\ Synchronous(serving[s]) => queue[k].from # serving[s].from

\* Nothing comes after the QUIT.
QuitTail ==
  /\ \A k \in DOMAIN queue : queue[k].operation = "QUIT" => k = Len(queue)
  /\ \A s \in Server : Serving(s) /\ serving[s].operation = "QUIT" => queue = <<>>
  /\ pc[main] = "await" /\ done[main] => queue = <<>>
  /\ Over => queue = <<>>

\* Who sleeps, sleeps for a reason.
Asleep ==
  /\ \A s \in Server \cap blocked : pc[s] = "take" /\ queue = <<>>
  /\ \A c \in Client \cap blocked : pc[c] = "await" /\ ~done[c]
  /\ main \in blocked =>
       \/ pc[main] = "join" /\ client_threads > 0
       \/ pc[main] = "await" /\ ~done[main]

CSInv ==
  /\ Places /\ Types /\ Counted /\ PastJoin /\ RequestsByKind /\ LoneServer
  /\ AskedWhileAwaiting /\ LastOfItsThread /\ QuitTail /\ Asleep

-----------------------------------------------------------------------------

USE DEF Thread, Requester, Over, At

\* Before main() runs, nobody has asked for anything.
LEMMA InitInv == Init => CSInv
<1> SUFFICES ASSUME Init PROVE CSInv
    OBVIOUS
<1> USE ClientServerAssumption
<1>1. Places
  BY DEF Init, Places
<1>2. Types
  <2>1. stdin \in Seq(Line)
    <3>1. PICK n \in 0..MaxLines : stdin \in [1..n -> Line]
      BY DEF Init
    <3>2. n \in Nat
      OBVIOUS
    <3>3. QED
      BY <3>1, <3>2, SeqDef
  <2>2. queue \in Seq(Wanted)
    BY EmptySeq DEF Init
  <2>3. /\ blocked \subseteq Thread
        /\ running \in BOOLEAN
        /\ serving \in [Server -> [operation: {"READ", "WRITE", "QUIT", "none"},
                             from: Requester \cup {nobody}]]
        /\ done \in [Requester -> BOOLEAN]
        /\ text \in [Requester -> Line]
    BY DEF Init, Request, Line
  <2>4. QED
    BY <2>1, <2>2, <2>3 DEF Types
<1>3. Counted
  <2>1. Unfinished = Client
    BY DEF Init, Unfinished
  <2>2. QED
    BY <2>1 DEF Counted, Init
<1>4. /\ \A t \in Thread : pc[t] = IF t = main THEN "create" ELSE "none"
      /\ queue = <<>> /\ Len(queue) = 0 /\ DOMAIN queue = {}
  BY EmptySeq, LenProperties DEF Init
<1>5. PastJoin /\ LoneServer /\ Asleep
  BY <1>4 DEF Init, PastJoin, LoneServer, Asleep
<1>6. RequestsByKind /\ LastOfItsThread /\ QuitTail
  BY <1>4 DEF RequestsByKind, LastOfItsThread, QuitTail, Serving
<1>7. AskedWhileAwaiting
  BY <1>4 DEF AskedWhileAwaiting, Asked, Serving
<1>8. QED
  BY <1>1, <1>2, <1>3, <1>5, <1>6, <1>7 DEF CSInv

\* What server_request() does up to its wait, whoever calls it: t is at next, a
\* lone server runs and is awake, and the request is the last of the queue.
Posted(t, op, next, asleep) ==
  /\ pc' \in [Thread -> {"none", "create", "join", "quit", "returned", "read",
                 "await", "write", "leave", "exited",
                 "take", "handle", "reply", "stopped"}]
  /\ pc'[t] = next
  /\ \A r \in Requester : r # t => pc'[r] = pc[r]
  /\ \A s \in Server : pc'[s] = pc[s] \/ (pc[s] = "none" /\ pc'[s] = "take")
  /\ LoneServer'
  /\ \A s \in Server : s \notin blocked'
  /\ \A r \in Requester : r \in blocked' <=> r \in blocked \/ r \in asleep
  /\ blocked' \subseteq Thread
  /\ queue' = Append(queue, Request(op, t))
  /\ running'

\* server_request() leaves one server thread, awake, and a queue with something in it.
LEMMA PostEffect ==
  ASSUME CSInv, NEW t \in Requester, NEW op \in {"READ", "WRITE", "QUIT"},
         NEW next \in {"await", "read"}, NEW asleep \in SUBSET Requester,
         ~Over, Post(t, op, next, asleep)
  PROVE  Posted(t, op, next, asleep)
<1> USE ClientServerAssumption
<1>1. CASE running
  <2>1. pc' = [pc EXCEPT ![t] = next] /\ running'
    BY <1>1 DEF Post, StartServer
  <2>7. /\ pc'[t] = next
        /\ \A r \in Thread : r # t => pc'[r] = pc[r]
        /\ pc' \in [Thread -> {"none", "create", "join", "quit", "returned", "read",
                        "await", "write", "leave", "exited",
                        "take", "handle", "reply", "stopped"}]
    BY <2>1 DEF CSInv, Places
  <2>8. \A s \in Server : pc'[s] = pc[s]
    BY <2>7
  <2>9. queue' = Append(queue, Request(op, t))
    BY DEF Post, Enqueue
  <2>2. PICK u \in Server : pc[u] # "none" /\ \A s \in Server : pc[s] # "none" => s = u
    BY <1>1 DEF CSInv, LoneServer
  <2>3. Waiting \subseteq {u} /\ Waiting \subseteq Server
    BY <2>2 DEF Waiting
  <2>4. \A s \in Server : s \in blocked => s \in Waiting
    BY DEF Waiting, CSInv, Asleep
  <2>5. /\ \A s \in Server : s \notin blocked'
        /\ \A r \in Requester : r \in blocked' <=> r \in blocked \/ r \in asleep
        /\ blocked' \subseteq Thread
    BY <2>3, <2>4 DEF Post, SignalServer, CSInv, Types
  <2>6. QED
    BY <2>1, <2>2, <2>5, <2>7, <2>8, <2>9 DEF LoneServer, Posted
<1>2. CASE ~running
  <2>1. PICK u \in Server : pc[u] = "none" /\ pc' = [pc EXCEPT ![t] = next, ![u] = "take"]
    BY <1>2 DEF Post, StartServer
  <2>2. running'
    BY DEF Post, StartServer
  <2>3. \A s \in Server : pc[s] = "none" /\ s \notin blocked
    BY <1>2 DEF CSInv, LoneServer, Asleep
  <2>4. blocked' = blocked \cup asleep
    BY <2>3 DEF Post, SignalServer, Waiting
  <2>5. \A s \in Server : s # u => pc'[s] = "none"
    BY <2>1, <2>3 DEF CSInv, Places
  <2>6. pc'[u] = "take" /\ pc'[t] = next /\ \A r \in Requester : r # t => pc'[r] = pc[r]
    BY <2>1 DEF CSInv, Places
  <2>7. queue' = Append(queue, Request(op, t))
    BY DEF Post, Enqueue
  <2>8. /\ pc' \in [Thread -> {"none", "create", "join", "quit", "returned", "read",
                        "await", "write", "leave", "exited",
                        "take", "handle", "reply", "stopped"}]
        /\ \A s \in Server : pc'[s] = pc[s] \/ (pc[s] = "none" /\ pc'[s] = "take")
    BY <2>1, <2>3, <2>5, <2>6 DEF CSInv, Places
  <2>9. LoneServer'
    BY <2>2, <2>5, <2>6 DEF LoneServer
  <2>10. QED
    BY <2>2, <2>3, <2>4, <2>6, <2>7, <2>8, <2>9 DEF CSInv, Types, Posted
<1>3. QED
  BY <1>1, <1>2

\* The queue as a function.
LEMMA QueueTypes ==
  ASSUME Types
  PROVE  /\ Len(queue) \in Nat
         /\ DOMAIN queue = 1..Len(queue)
         /\ \A k \in DOMAIN queue :
              queue[k].operation \in {"READ", "WRITE", "QUIT"} /\ queue[k].from \in Requester
<1>1. queue \in Seq(Wanted)
  BY DEF Types
<1>2. Len(queue) \in Nat /\ DOMAIN queue = 1..Len(queue) /\ queue \in [1..Len(queue) -> Wanted]
  BY <1>1, LenProperties
<1>3. \A k \in DOMAIN queue : queue[k] \in Wanted
  BY <1>2
<1>4. QED
  BY <1>2, <1>3 DEF Wanted

\* The queue with one request more at its end.
LEMMA QueueAfterPost ==
  ASSUME Types, NEW t \in Requester, NEW op \in {"READ", "WRITE", "QUIT"},
         queue' = Append(queue, Request(op, t))
  PROVE  /\ queue' \in Seq(Wanted)
         /\ Len(queue') = Len(queue) + 1
         /\ DOMAIN queue' = 1..(Len(queue) + 1)
         /\ \A k \in DOMAIN queue : k \in DOMAIN queue' /\ queue'[k] = queue[k]
         /\ queue'[Len(queue) + 1] = Request(op, t)
         /\ \A k \in DOMAIN queue' : k \in DOMAIN queue \/ k = Len(queue) + 1
         /\ queue' # <<>>
<1>1. Request(op, t) \in Wanted
  BY DEF Request, Wanted
<1>2. /\ Append(queue, Request(op, t)) \in Seq(Wanted)
      /\ Append(queue, Request(op, t)) # <<>>
      /\ Len(Append(queue, Request(op, t))) = Len(queue) + 1
      /\ \A k \in 1..Len(queue) : Append(queue, Request(op, t))[k] = queue[k]
      /\ Append(queue, Request(op, t))[Len(queue) + 1] = Request(op, t)
  BY <1>1, AppendProperties DEF Types
<1>3. DOMAIN Append(queue, Request(op, t)) = 1..Len(Append(queue, Request(op, t)))
  BY <1>2, LenProperties
<1>4. QED
  BY <1>2, <1>3, QueueTypes

\* A thread that is not waiting for an answer has asked for none, and while a
\* client is not done nobody has asked the server to quit.
LEMMA NothingAsked ==
  ASSUME CSInv, NEW t \in Requester, pc[t] # "await"
  PROVE  /\ \A k \in DOMAIN queue : Synchronous(queue[k]) => queue[k].from # t
         /\ \A s \in Server : Serving(s) /\ Synchronous(serving[s]) => serving[s].from # t
<1>1. ~Asked(t)
  BY DEF CSInv, AskedWhileAwaiting
<1>2. QED
  BY <1>1 DEF Asked

\* Before main() asks for it, no request is a QUIT.
LEMMA NoQuitYet ==
  ASSUME CSInv, pc[main] # "await", ~Over
  PROVE  /\ \A k \in DOMAIN queue : queue[k].operation # "QUIT"
         /\ \A s \in Server : Serving(s) => serving[s].operation # "QUIT"
<1>1. main \in Requester
  OBVIOUS
<1>2. \A k \in DOMAIN queue : queue[k].operation = "QUIT" => queue[k].from = main
  BY DEF CSInv, RequestsByKind, ByKind
<1>3. \A s \in Server : Serving(s) /\ serving[s].operation = "QUIT" => serving[s].from = main
  BY DEF CSInv, RequestsByKind, ByKind
<1>4. QED
  BY <1>1, <1>2, <1>3, NothingAsked DEF Synchronous

\* What Read, Write and Quit have in common.
Asks(t, op) ==
  /\ ~Over
  /\ UNCHANGED <<serving, client_threads, stdin>>
  /\ \/ /\ op = "WRITE" /\ t \in Client /\ pc[t] = "write"
        /\ Post(t, op, "read", {})
        /\ UNCHANGED <<done, text>>
     \/ /\ \/ op = "READ" /\ t \in Client /\ pc[t] = "read"
           \/ op = "QUIT" /\ t = main /\ pc[t] = "quit"
        /\ Post(t, op, "await", {t})
        /\ done' = [done EXCEPT ![t] = FALSE]
        /\ text' = [text EXCEPT ![t] = ""]

\* ... and what it leads to.
After(t, op) ==
  /\ pc' \in [Thread -> {"none", "create", "join", "quit", "returned", "read",
                 "await", "write", "leave", "exited",
                 "take", "handle", "reply", "stopped"}]
  /\ pc'[t] = IF op = "WRITE" THEN "read" ELSE "await"
  /\ \A r \in Requester : r # t => pc'[r] = pc[r]
  /\ \A s \in Server : pc'[s] = pc[s] \/ (pc[s] = "none" /\ pc'[s] = "take")
  /\ LoneServer'
  /\ \A s \in Server : s \notin blocked'
  /\ \A r \in Requester :
       r \in blocked' <=> r \in blocked \/ (r = t /\ op # "WRITE")
  /\ blocked' \subseteq Thread
  /\ queue' = Append(queue, Request(op, t))
  /\ running'
  /\ \A r \in Requester :
       done'[r] = IF r = t /\ op # "WRITE" THEN FALSE ELSE done[r]

\* Asks(t, op) has the effect After(t, op).
LEMMA AsksEffect ==
  ASSUME CSInv, NEW t \in Requester, NEW op \in {"READ", "WRITE", "QUIT"}, Asks(t, op)
  PROVE  After(t, op)
<1>1. CASE Post(t, op, "read", {}) /\ op = "WRITE" /\ UNCHANGED <<done, text>>
  <2>1. ~Over
    BY DEF Asks
  <2>2. Posted(t, op, "read", {})
    BY <1>1, <2>1, PostEffect
  <2>3. QED
    BY <1>1, <2>2 DEF Posted, After
<1>2. CASE /\ Post(t, op, "await", {t}) /\ op # "WRITE"
           /\ done' = [done EXCEPT ![t] = FALSE]
  <2>1. ~Over
    BY DEF Asks
  <2>2. Posted(t, op, "await", {t})
    BY <1>2, <2>1, PostEffect
  <2>3. \A r \in Requester : done'[r] = IF r = t THEN FALSE ELSE done[r]
    BY <1>2 DEF CSInv, Types
  <2>4. QED
    BY <1>2, <2>2, <2>3 DEF Posted, After
<1>3. QED
  BY <1>1, <1>2 DEF Asks

\* A thread that posts a request: Read, Write and Quit.
LEMMA AsksStep ==
  ASSUME CSInv, NEW t \in Requester, NEW op \in {"READ", "WRITE", "QUIT"}, Asks(t, op)
  PROVE  CSInv'
<1> USE ClientServerAssumption
<1>a. After(t, op)
  BY AsksEffect
<1>b. ~Over /\ UNCHANGED <<serving, client_threads, stdin>>
  BY DEF Asks
<1>c. /\ t = main <=> op = "QUIT"
      /\ t \in Client => op \in {"READ", "WRITE"} /\ pc[t] \in {"read", "write"}
      /\ t = main => pc[main] = "quit"
  BY DEF Asks
<1>d. queue' = Append(queue, Request(op, t))
  BY <1>a DEF After
<1>e. \A s \in Server : Serving(s)' <=> Serving(s)
  BY <1>a DEF After, Serving
<1>f. /\ Len(queue) \in Nat /\ Len(queue') = Len(queue) + 1
      /\ DOMAIN queue = 1..Len(queue) /\ DOMAIN queue' = 1..(Len(queue) + 1)
      /\ \A k \in DOMAIN queue : k \in DOMAIN queue' /\ queue'[k] = queue[k]
      /\ queue'[Len(queue) + 1] = Request(op, t)
      /\ \A k \in DOMAIN queue' : k \in DOMAIN queue \/ k = Len(queue) + 1
      /\ queue' \in Seq(Wanted)
  BY <1>d, QueueAfterPost, QueueTypes DEF CSInv
<1>g. /\ Request(op, t).operation = op /\ Request(op, t).from = t
      /\ Synchronous(Request(op, t)) <=> op # "WRITE"
  BY DEF Request, Synchronous
<1>h. /\ pc[t] # "await"
      /\ \A k \in DOMAIN queue : Synchronous(queue[k]) => queue[k].from # t
      /\ \A s \in Server : Serving(s) /\ Synchronous(serving[s]) => serving[s].from # t
  BY <1>c, NothingAsked
<1>i. pc[main] # "await"
  <2>1. CASE t = main
    BY <2>1, <1>c
  <2>2. CASE t \in Client
    BY <2>2, <1>c DEF CSInv, PastJoin, Unfinished
  <2>3. QED
    BY <2>1, <2>2
<1>j. /\ \A k \in DOMAIN queue : queue[k].operation # "QUIT"
      /\ \A s \in Server : Serving(s) => serving[s].operation # "QUIT"
  BY <1>b, <1>i, NoQuitYet
<1>1. Places'
  BY <1>a, <1>c DEF CSInv, Places, After
<1>2. Types'
  <2>1. /\ done' \in [Requester -> BOOLEAN]
        /\ text' \in [Requester -> Line]
    BY DEF Asks, CSInv, Types, Line
  <2>2. QED
    BY <2>1, <1>a, <1>b, <1>f DEF CSInv, Types, After
<1>3. Counted' /\ PastJoin'
  <2>1. Unfinished' = Unfinished
    BY <1>a, <1>c DEF Unfinished, After
  <2>2. pc'[main] \in {"quit", "await", "returned"} => pc[main] \in {"quit", "await", "returned"}
    BY <1>a, <1>c DEF After
  <2>3. QED
    BY <2>1, <2>2, <1>b DEF CSInv, Counted, PastJoin
<1>4. RequestsByKind'
  <2>1. \A k \in DOMAIN queue' : ByKind(queue'[k])
    BY <1>c, <1>f, <1>g DEF CSInv, RequestsByKind, ByKind
  <2>2. \A s \in Server : pc'[s] = "reply" => pc[s] = "reply"
    BY <1>a DEF After
  <2>3. QED
    BY <2>1, <2>2, <1>b, <1>e DEF CSInv, RequestsByKind
<1>5. LoneServer'
  BY <1>a DEF After
<1>6. AskedWhileAwaiting'
  <2>1. ASSUME NEW r \in Requester, r # t
        PROVE  Asked(r)' <=> Asked(r)
    BY <2>1, <1>b, <1>e, <1>f, <1>g DEF Asked
  <2>2. Asked(t)' <=> op # "WRITE"
    BY <1>b, <1>e, <1>f, <1>g, <1>h DEF Asked
  <2>3. QED
    BY <2>1, <2>2, <1>a DEF CSInv, AskedWhileAwaiting, After
<1>7. LastOfItsThread'
  <2>1. ASSUME NEW k \in DOMAIN queue', NEW l \in DOMAIN queue', k < l, Synchronous(queue'[k])
        PROVE  queue'[l].from # queue'[k].from
    <3>1. k \in DOMAIN queue /\ queue'[k] = queue[k]
      BY <2>1, <1>f
    <3>2. CASE l = Len(queue) + 1
      BY <3>1, <3>2, <2>1, <1>f, <1>g, <1>h
    <3>3. CASE l \in DOMAIN queue
      BY <3>1, <3>3, <2>1, <1>f DEF CSInv, LastOfItsThread
    <3>4. QED
      BY <3>2, <3>3, <1>f
  <2>2. ASSUME NEW s \in Server, NEW k \in DOMAIN queue', Serving(s)', Synchronous(serving[s])
        PROVE  queue'[k].from # serving[s].from
    BY <2>2, <1>e, <1>f, <1>g, <1>h DEF CSInv, LastOfItsThread
  <2>3. QED
    BY <2>1, <2>2, <1>b DEF LastOfItsThread
<1>8. QuitTail'
  <2>1. \A k \in DOMAIN queue' : queue'[k].operation = "QUIT" => k = Len(queue')
    BY <1>f, <1>j
  <2>2. \A s \in Server : Serving(s)' => serving'[s].operation # "QUIT"
    BY <1>b, <1>e, <1>j
  <2>3. ~(pc'[main] = "await" /\ done'[main]) /\ pc'[main] # "returned"
    BY <1>a, <1>b, <1>c, <1>i DEF After, CSInv, Places
  <2>4. QED
    BY <2>1, <2>2, <2>3 DEF QuitTail
<1>9. Asleep'
  <2>1. \A s \in Server : s \notin blocked'
    BY <1>a DEF After
  <2>2. \A r \in Requester : r # t /\ r \in blocked' =>
          r \in blocked /\ pc'[r] = pc[r] /\ done'[r] = done[r]
    BY <1>a DEF After
  <2>3. t \in blocked' => pc'[t] = "await" /\ ~done'[t]
    BY <1>a, <1>c DEF After, CSInv, Asleep
  <2>4. QED
    BY <2>1, <2>2, <2>3, <1>b DEF CSInv, Asleep
<1>10. QED
  BY <1>1, <1>2, <1>3, <1>4, <1>5, <1>6, <1>7, <1>8, <1>9 DEF CSInv

\* The steps of main() and of a client that leave the queue alone.
LEMMA QuietStep ==
  ASSUME CSInv,
         UNCHANGED <<running, queue, serving, done, text, client_threads, stdin>>,
         \A s \in Server : pc'[s] = pc[s] /\ (s \in blocked' => s \in blocked),
         \A r \in Requester : pc'[r] = "await" => pc[r] = "await",
         \A r \in Requester : pc[r] = "await" /\ ~done[r] => pc'[r] = "await",
         \A c \in Client : pc'[c] = "exited" <=> pc[c] = "exited",
         Places', blocked' \subseteq Thread, PastJoin', Asleep',
         Over' => pc[main] = "await" /\ done[main]
  PROVE  CSInv'
<1> USE ClientServerAssumption
<1>1. Types'
  BY DEF CSInv, Types
<1>2. Counted'
  <2>1. Unfinished' = Unfinished
    BY DEF Unfinished
  <2>2. QED
    BY <2>1 DEF CSInv, Counted
<1>3. \A s \in Server : Serving(s)' <=> Serving(s)
  BY DEF Serving
<1>4. RequestsByKind' /\ LoneServer' /\ LastOfItsThread'
  BY <1>3 DEF CSInv, RequestsByKind, LoneServer, LastOfItsThread
<1>5. AskedWhileAwaiting'
  <2>1. ASSUME NEW r \in Requester PROVE Asked(r)' <=> Asked(r)
    BY <1>3 DEF Asked
  <2>2. QED
    BY <2>1 DEF CSInv, AskedWhileAwaiting
<1>6. QuitTail'
  BY <1>3 DEF CSInv, QuitTail
<1>7. QED
  BY <1>1, <1>2, <1>4, <1>5, <1>6 DEF CSInv

\* The steps of main() other than Quit.
LEMMA MainQuietStep ==
  ASSUME CSInv, NEW c \in Client, CreateClient(c) \/ AllCreated \/ Join \/ Return
  PROVE  CSInv'
<1> USE ClientServerAssumption
<1>1. CASE CreateClient(c)
  <2>1. pc' = [pc EXCEPT ![c] = "read"] /\ pc[c] = "none" /\ pc[main] = "create"
    BY <1>1 DEF CreateClient, Created
  <2>2. UNCHANGED <<blocked, running, queue, serving, done, text, client_threads, stdin>>
    BY <1>1 DEF CreateClient
  <2>3. Places' /\ (\A t \in Thread : pc'[t] = IF t = c THEN "read" ELSE pc[t])
    BY <2>1 DEF CSInv, Places
  <2>4. PastJoin' /\ Asleep'
    BY <2>1, <2>2, <2>3 DEF CSInv, PastJoin, Asleep
  <2>5. QED
    BY <2>1, <2>2, <2>3, <2>4, QuietStep DEF CSInv, Types
<1>2. CASE AllCreated
  <2>1. pc' = [pc EXCEPT ![main] = "join"] /\ pc[main] = "create"
    BY <1>2 DEF AllCreated
  <2>2. UNCHANGED <<blocked, running, queue, serving, done, text, client_threads, stdin>>
    BY <1>2 DEF AllCreated
  <2>3. Places' /\ (\A t \in Thread : pc'[t] = IF t = main THEN "join" ELSE pc[t])
    BY <2>1 DEF CSInv, Places
  <2>4. PastJoin' /\ Asleep'
    BY <2>1, <2>2, <2>3 DEF CSInv, PastJoin, Asleep
  <2>5. QED
    BY <2>1, <2>2, <2>3, <2>4, QuietStep DEF CSInv, Types
<1>3. CASE Join
  <2>1. UNCHANGED <<running, queue, serving, done, text, client_threads, stdin>>
    BY <1>3 DEF Join
  <2>2. client_threads \in Nat /\ (client_threads = 0 => Unfinished = {})
    <3>1. IsFiniteSet(Unfinished)
      BY FS_Subset DEF Unfinished
    <3>2. QED
      BY <3>1, FS_CardinalityType, FS_EmptySet DEF CSInv, Counted
  <2>3. CASE client_threads > 0
    <3>1. blocked' = blocked \cup {main} /\ pc' = pc /\ pc[main] = "join"
      BY <1>3, <2>3 DEF Join
    <3>2. Places' /\ PastJoin' /\ Asleep'
      BY <3>1, <2>1, <2>3 DEF CSInv, Places, PastJoin, Asleep, Unfinished
    <3>3. QED
      BY <3>1, <3>2, <2>1, QuietStep DEF CSInv, Types, Places
  <2>4. CASE ~(client_threads > 0)
    <3>1. blocked' = blocked /\ pc' = [pc EXCEPT ![main] = "quit"] /\ pc[main] = "join"
          /\ main \notin blocked
      BY <1>3, <2>4 DEF Join
    <3>2. Places' /\ (\A t \in Thread : pc'[t] = IF t = main THEN "quit" ELSE pc[t])
      BY <3>1 DEF CSInv, Places
    <3>3. Unfinished' = {}
      BY <2>2, <2>4, <3>2 DEF Unfinished
    <3>4. PastJoin' /\ Asleep'
      BY <2>1, <3>1, <3>2, <3>3 DEF CSInv, PastJoin, Asleep
    <3>5. QED
      BY <3>1, <3>2, <3>4, <2>1, QuietStep DEF CSInv, Types
  <2>5. QED
    BY <2>3, <2>4
<1>4. CASE Return
  <2>1. UNCHANGED <<running, queue, serving, done, text, client_threads, stdin>>
    BY <1>4 DEF Return
  <2>2. CASE done[main]
    <3>1. blocked' = blocked /\ pc' = [pc EXCEPT ![main] = "returned"] /\ pc[main] = "await"
          /\ main \notin blocked
      BY <1>4, <2>2 DEF Return
    <3>2. Places' /\ (\A t \in Thread : pc'[t] = IF t = main THEN "returned" ELSE pc[t])
      BY <3>1 DEF CSInv, Places
    <3>3. Unfinished' = Unfinished
      BY <3>2 DEF Unfinished
    <3>4. PastJoin' /\ Asleep'
      BY <2>1, <3>1, <3>2, <3>3 DEF CSInv, PastJoin, Asleep
    <3>5. QED
      BY <3>1, <3>2, <3>4, <2>1, <2>2, QuietStep DEF CSInv, Types
  <2>3. CASE ~done[main]
    <3>1. blocked' = blocked \cup {main} /\ pc' = pc /\ pc[main] = "await"
      BY <1>4, <2>3 DEF Return
    <3>2. Places' /\ PastJoin' /\ Asleep'
      BY <3>1, <2>1, <2>3 DEF CSInv, Places, PastJoin, Asleep, Unfinished
    <3>3. QED
      BY <3>1, <3>2, <2>1, QuietStep DEF CSInv, Types, Places
  <2>4. QED
    BY <2>2, <2>3
<1>5. QED
  BY <1>1, <1>2, <1>3, <1>4

\* A client that looks at its answer.
LEMMA ClientQuietStep ==
  ASSUME CSInv, NEW c \in Client, Answered(c)
  PROVE  CSInv'
<1> USE ClientServerAssumption
<1>1. UNCHANGED <<running, queue, serving, done, text, client_threads, stdin>>
  BY DEF Answered
<1>2. CASE done[c]
  <2>1. PICK next \in {"leave", "write"} : pc' = [pc EXCEPT ![c] = next]
    BY <1>2 DEF Answered
  <2>2. blocked' = blocked /\ pc[c] = "await" /\ c \notin blocked
    BY <1>2 DEF Answered
  <2>3. Places' /\ (\A t \in Thread : pc'[t] = IF t = c THEN next ELSE pc[t])
    BY <2>1 DEF CSInv, Places
  <2>4. Unfinished' = Unfinished
    BY <2>2, <2>3 DEF Unfinished
  <2>5. PastJoin' /\ Asleep'
    BY <1>1, <2>2, <2>3, <2>4 DEF CSInv, PastJoin, Asleep
  <2>6. QED
    <3>1. /\ \A s \in Server : pc'[s] = pc[s] /\ (s \in blocked' => s \in blocked)
          /\ \A r \in Requester : pc'[r] = "await" => pc[r] = "await"
          /\ \A r \in Requester : pc[r] = "await" /\ ~done[r] => pc'[r] = "await"
          /\ \A d \in Client : pc'[d] = "exited" <=> pc[d] = "exited"
          /\ blocked' \subseteq Thread
      BY <1>2, <2>2, <2>3 DEF CSInv, Types
    <3>2. pc'[main] = pc[main] /\ pc[main] # "returned"
      BY <2>3 DEF Answered
    <3>3. QED
      BY <1>1, <2>3, <2>5, <3>1, <3>2, QuietStep
<1>3. CASE ~done[c]
  <2>1. blocked' = blocked \cup {c} /\ pc' = pc /\ pc[c] = "await"
    BY <1>3 DEF Answered
  <2>2. Places' /\ PastJoin' /\ Asleep'
    BY <2>1, <1>1, <1>3 DEF CSInv, Places, PastJoin, Asleep, Unfinished
  <2>3. QED
    <3>1. blocked' \subseteq Thread /\ (\A s \in Server : s \in blocked' => s \in blocked)
      BY <2>1 DEF CSInv, Types
    <3>2. pc[main] # "returned"
      BY DEF Answered
    <3>3. QED
      BY <2>1, <2>2, <3>1, <3>2, <1>1, QuietStep
<1>4. QED
  BY <1>2, <1>3

\* A wakeup for no reason.
LEMMA SpuriousStep ==
  ASSUME CSInv, NEW t \in Thread, SpuriousWakeup(t)
  PROVE  CSInv'
<1> USE ClientServerAssumption
<1>1. UNCHANGED <<pc, running, queue, serving, done, text, client_threads, stdin>>
      /\ blocked' = blocked \ {t}
  BY DEF SpuriousWakeup
<1>2. Places' /\ PastJoin' /\ Asleep'
  BY <1>1 DEF CSInv, Places, PastJoin, Asleep, Unfinished
<1>3. Over' => pc[main] = "await" /\ done[main]
  BY <1>1 DEF SpuriousWakeup
<1>4. QED
  BY <1>1, <1>2, <1>3, QuietStep DEF CSInv, Types, Places

\* A client that counts itself out, and wakes the main thread when it is the last.
LEMMA LeaveStep ==
  ASSUME CSInv, NEW c \in Client, Leave(c)
  PROVE  CSInv'
<1> USE ClientServerAssumption
<1>1. /\ UNCHANGED <<running, queue, serving, done, text, stdin>>
      /\ client_threads' = client_threads - 1
      /\ pc[c] = "leave" /\ pc[main] # "returned"
      /\ pc' = [pc EXCEPT ![c] = "exited"]
  BY DEF Leave
<1>2. Places' /\ (\A t \in Thread : pc'[t] = IF t = c THEN "exited" ELSE pc[t])
  BY <1>1 DEF CSInv, Places
<1>3. c \in Unfinished /\ Unfinished' = Unfinished \ {c} /\ IsFiniteSet(Unfinished)
  BY <1>1, <1>2, FS_Subset DEF Unfinished
<1>4. Counted'
  BY <1>1, <1>3, FS_RemoveElement DEF CSInv, Counted
<1>5. client_threads' \in Nat
  <2>1. IsFiniteSet(Unfinished')
    BY <1>3, FS_RemoveElement
  <2>2. QED
    BY <1>4, <2>1, FS_CardinalityType DEF Counted
<1>6. pc[main] \in {"create", "join"}
  BY <1>1, <1>3 DEF CSInv, PastJoin, Places
<1>7. PastJoin'
  BY <1>2, <1>6 DEF PastJoin
<1>8. Types'
  BY <1>1 DEF Leave, CSInv, Types
<1>9. \A s \in Server : Serving(s)' <=> Serving(s)
  BY <1>2 DEF Serving
<1>10. RequestsByKind' /\ LoneServer' /\ LastOfItsThread'
  BY <1>1, <1>2, <1>9 DEF CSInv, RequestsByKind, LoneServer, LastOfItsThread
<1>11. AskedWhileAwaiting'
  <2>1. ASSUME NEW r \in Requester PROVE Asked(r)' <=> Asked(r)
    BY <1>1, <1>9 DEF Asked
  <2>2. QED
    BY <2>1, <1>1, <1>2 DEF CSInv, AskedWhileAwaiting
<1>12. QuitTail'
  BY <1>1, <1>2, <1>9 DEF CSInv, QuitTail
<1>13. Asleep'
  <2>1. blocked' \subseteq blocked
    BY DEF Leave
  <2>2. main \in blocked' => pc'[main] = "join" /\ client_threads' > 0
    <3>1. pc[main] = "join" /\ client_threads' = 0 => blocked' = blocked \ {main}
      BY DEF Leave
    <3>2. main \in blocked' => pc[main] = "join" /\ client_threads' # 0
      BY <2>1, <3>1, <1>6 DEF CSInv, Asleep
    <3>3. QED
      BY <3>2, <1>2, <1>5
  <2>3. QED
    BY <2>1, <2>2, <1>1, <1>2 DEF CSInv, Asleep
<1>14. QED
  BY <1>2, <1>4, <1>7, <1>8, <1>10, <1>11, <1>12, <1>13 DEF CSInv

\* The queue without its first request.
LEMMA QueueAfterTake ==
  ASSUME Types, queue # <<>>, queue' = Tail(queue)
  PROVE  /\ queue' \in Seq(Wanted) /\ Head(queue) \in Wanted
         /\ Len(queue) \in Nat \ {0} /\ Len(queue') = Len(queue) - 1
         /\ DOMAIN queue = 1..Len(queue) /\ DOMAIN queue' = 1..(Len(queue) - 1)
         /\ \A k \in DOMAIN queue' : k + 1 \in DOMAIN queue /\ queue'[k] = queue[k + 1]
         /\ 1 \in DOMAIN queue /\ Head(queue) = queue[1]
<1>1. queue \in Seq(Wanted)
  BY DEF Types
<1>2. Len(queue) \in Nat \ {0} /\ DOMAIN queue = 1..Len(queue)
  BY <1>1, EmptySeq, LenProperties
<1>3. /\ Head(queue) \in Wanted
      /\ Tail(queue) \in Seq(Wanted)
      /\ Len(Tail(queue)) = Len(queue)-1
      /\ \A i \in 1 .. Len(Tail(queue)) : Tail(queue)[i] = queue[i+1]
  BY <1>1, HeadTailProperties
<1>4. DOMAIN Tail(queue) = 1..Len(Tail(queue))
  BY <1>3, LenProperties
<1>5. Head(queue) = queue[1]
  BY <1>1
<1>6. QED
  BY <1>2, <1>3, <1>4, <1>5

\* The server dequeues a request, or goes to sleep on the empty queue.
LEMMA TakeStep ==
  ASSUME CSInv, NEW s \in Server, Take(s)
  PROVE  CSInv'
<1> USE ClientServerAssumption
<1>1. UNCHANGED <<running, done, text, client_threads, stdin>>
      /\ pc[s] = "take" /\ pc[main] # "returned"
  BY DEF Take
<1>2. CASE queue = <<>>
  <2>1. UNCHANGED <<pc, queue, serving>> /\ blocked' = blocked \cup {s}
    BY <1>2 DEF Take
  <2>2. Places' /\ PastJoin' /\ Asleep' /\ Types' /\ Counted'
    BY <1>1, <1>2, <2>1 DEF CSInv, Places, PastJoin, Asleep, Types, Counted, Unfinished
  <2>3. RequestsByKind' /\ LoneServer' /\ LastOfItsThread' /\ QuitTail'
    BY <1>1, <2>1
       DEF CSInv, RequestsByKind, LoneServer, LastOfItsThread, QuitTail, Serving
  <2>4. AskedWhileAwaiting'
    BY <1>1, <2>1 DEF CSInv, AskedWhileAwaiting, Asked, Serving
  <2>5. QED
    BY <2>2, <2>3, <2>4 DEF CSInv
<1>3. CASE queue # <<>>
  <2>1. /\ serving' = [serving EXCEPT ![s] = Head(queue)]
        /\ queue' = Tail(queue)
        /\ pc' = [pc EXCEPT ![s] = "handle"]
        /\ UNCHANGED blocked
    BY <1>3 DEF Take
  <2>2. /\ queue' \in Seq(Wanted) /\ Head(queue) \in Wanted
        /\ Len(queue) \in Nat \ {0} /\ Len(queue') = Len(queue) - 1
        /\ DOMAIN queue = 1..Len(queue) /\ DOMAIN queue' = 1..(Len(queue) - 1)
        /\ \A k \in DOMAIN queue' : k + 1 \in DOMAIN queue /\ queue'[k] = queue[k + 1]
        /\ 1 \in DOMAIN queue /\ Head(queue) = queue[1]
    BY <1>3, <2>1, QueueAfterTake DEF CSInv
  <2>3. Places' /\ (\A t \in Thread : pc'[t] = IF t = s THEN "handle" ELSE pc[t])
    BY <2>1 DEF CSInv, Places
  <2>4. \A u \in Server : u # s => pc[u] = "none" /\ pc'[u] = "none"
    BY <1>1, <2>3 DEF CSInv, LoneServer
  <2>5. /\ \A u \in Server : Serving(u)' <=> u = s
        /\ \A u \in Server : ~Serving(u)
        /\ serving'[s] = queue[1]
    BY <1>1, <2>1, <2>2, <2>3, <2>4 DEF Serving, CSInv, Types
  <2>6. Types'
    <3>1. serving' \in [Server -> [operation: {"READ", "WRITE", "QUIT", "none"},
                             from: Requester \cup {nobody}]]
      BY <2>1, <2>2 DEF CSInv, Types, Wanted
    <3>2. QED
      BY <1>1, <2>1, <2>2, <3>1 DEF CSInv, Types
  <2>7. Counted' /\ PastJoin'
    <3>1. Unfinished' = Unfinished
      BY <2>3 DEF Unfinished
    <3>2. QED
      BY <1>1, <2>3, <3>1 DEF CSInv, Counted, PastJoin
  <2>8. RequestsByKind'
    <3>1. ByKind(queue[1]) /\ queue[1].operation \in {"READ", "WRITE", "QUIT"}
      BY <2>2 DEF CSInv, RequestsByKind, Wanted
    <3>2. \A k \in DOMAIN queue' : ByKind(queue'[k])
      BY <2>2 DEF CSInv, RequestsByKind
    <3>3. \A u \in Server : pc'[u] # "reply"
      BY <2>3, <2>4
    <3>4. QED
      BY <2>5, <3>1, <3>2, <3>3 DEF RequestsByKind
  <2>9. LoneServer'
    BY <1>1, <2>3, <2>4 DEF CSInv, LoneServer
  <2>10. AskedWhileAwaiting'
    <3>1. ASSUME NEW r \in Requester, NEW k \in DOMAIN queue, queue[k].from = r, Synchronous(queue[k])
          PROVE  Asked(r)'
      <4>1. CASE k = 1
        BY <3>1, <4>1, <2>5 DEF Asked
      <4>2. CASE k # 1
        <5>1. k - 1 \in DOMAIN queue' /\ queue'[k - 1] = queue[k]
          BY <4>2, <2>2
        <5>2. QED
          BY <3>1, <5>1 DEF Asked
      <4>3. QED
        BY <4>1, <4>2
    <3>2. ASSUME NEW r \in Requester, Asked(r)'
          PROVE  Asked(r)
      <4>1. \/ \E k \in DOMAIN queue' : queue'[k].from = r /\ Synchronous(queue'[k])
            \/ serving'[s].from = r /\ Synchronous(serving'[s])
        BY <3>2, <2>5 DEF Asked
      <4>2. QED
        BY <4>1, <2>2, <2>5 DEF Asked
    <3>3. \A r \in Requester : Asked(r) => \E k \in DOMAIN queue : queue[k].from = r /\ Synchronous(queue[k])
      BY <2>5 DEF Asked
    <3>4. \A r \in Requester : Asked(r)' <=> Asked(r)
      BY <3>1, <3>2, <3>3
    <3>5. QED
      BY <3>4, <1>1, <2>3 DEF CSInv, AskedWhileAwaiting
  <2>11. LastOfItsThread'
    <3>1. ASSUME NEW k \in DOMAIN queue', NEW l \in DOMAIN queue', k < l, Synchronous(queue'[k])
          PROVE  queue'[l].from # queue'[k].from
      <4>1. k + 1 < l + 1 /\ Synchronous(queue[k + 1])
        BY <3>1, <2>2
      <4>2. QED
        BY <4>1, <2>2 DEF CSInv, LastOfItsThread
    <3>2. ASSUME NEW k \in DOMAIN queue', Synchronous(queue[1])
          PROVE  queue'[k].from # queue[1].from
      <4>1. 1 < k + 1
        BY <2>2
      <4>2. QED
        BY <3>2, <4>1, <2>2 DEF CSInv, LastOfItsThread
    <3>3. QED
      BY <3>1, <3>2, <2>5 DEF LastOfItsThread
  <2>12. QuitTail'
    <3>1. \A k \in DOMAIN queue' : queue'[k].operation = "QUIT" => k = Len(queue')
      BY <2>2 DEF CSInv, QuitTail
    <3>2. queue[1].operation = "QUIT" => queue' = <<>>
      BY <2>2, EmptySeq DEF CSInv, QuitTail
    <3>3. ~(pc'[main] = "await" /\ done'[main]) /\ pc'[main] # "returned"
      BY <1>1, <1>3, <2>3 DEF CSInv, QuitTail
    <3>4. QED
      BY <3>1, <3>2, <3>3, <2>5 DEF QuitTail
  <2>13. Asleep'
    <3>1. \A u \in Server : u \notin blocked
      BY <1>3 DEF CSInv, Asleep
    <3>2. QED
      BY <3>1, <1>1, <2>1, <2>3 DEF CSInv, Asleep
  <2>14. QED
    BY <2>3, <2>6, <2>7, <2>8, <2>9, <2>10, <2>11, <2>12, <2>13 DEF CSInv
<1>4. QED
  BY <1>2, <1>3

\* A sequence of one.
LEMMA SingletonSeq ==
  ASSUME NEW S, NEW x \in S
  PROVE  <<x>> \in Seq(S)
OBVIOUS

\* What the terminal still has, and what a thread gets of it, are lines.
LEMMA AnswerTypes ==
  ASSUME Types, NEW t \in Requester, AskAndAnswer(t)
  PROVE  text' \in [Requester -> Line] /\ stdin' \in Seq(Line)
<1>1. stdin \in Seq(Line) /\ text \in [Requester -> Line] /\ "" \in Line
  BY DEF Types, Line
<1>2. CASE stdin = <<>>
  BY <1>1, <1>2 DEF AskAndAnswer
<1>3. CASE stdin # <<>>
  <2>1. Head(stdin) \in Line /\ Tail(stdin) \in Seq(Line)
    BY <1>1, <1>3, HeadTailProperties
  <2>2. text' \in [Requester -> Line]
    BY <1>1, <1>3, <2>1 DEF AskAndAnswer
  <2>3. Len(stdin) \in Nat /\ \A k \in 1..Len(stdin) : stdin[k] \in Line
    BY <1>1, LenProperties
  <2>4. \A j \in 2..Len(stdin) : SubSeq(stdin, j + 1, Len(stdin)) \in Seq(Line)
    <3>1. TAKE j \in 2..Len(stdin)
    <3>2. j + 1 \in Int /\ Len(stdin) \in Int /\ \A k \in (j + 1)..Len(stdin) : stdin[k] \in Line
      BY <2>3
    <3>3. QED
      BY <3>2, SubSeqProperties
  <2>5. \A j \in 2..Len(stdin) : <<"">> \o SubSeq(stdin, j + 1, Len(stdin)) \in Seq(Line)
    <3>1. <<"">> \in Seq(Line)
      BY <1>1, SingletonSeq
    <3>2. QED
      BY <2>4, <3>1, ConcatProperties
  <2>6. <<>> \in Seq(Line)
    BY EmptySeq
  <2>7. \/ stdin' = Tail(stdin)
        \/ \E j \in 2..Len(stdin) : stdin' = <<"">> \o SubSeq(stdin, j + 1, Len(stdin))
        \/ stdin' = <<>>
    BY <1>3 DEF AskAndAnswer
  <2>8. QED
    BY <2>1, <2>2, <2>5, <2>6, <2>7
<1>4. QED
  BY <1>2, <1>3

\* The switch of server_routine().
LEMMA HandleStep ==
  ASSUME CSInv, NEW s \in Server, Handle(s)
  PROVE  CSInv'
<1> USE ClientServerAssumption
<1> DEFINE r == serving[s]
<1>1. /\ UNCHANGED <<blocked, running, queue, serving, done, client_threads>>
      /\ pc[s] = "handle" /\ pc[main] # "returned"
      /\ pc' = [pc EXCEPT ![s] = AfterHandling(r)]
  BY DEF Handle
<1>2. PICK next \in {"reply", "take"} :
        /\ pc' = [pc EXCEPT ![s] = next]
        /\ next = "reply" <=> Synchronous(r)
  BY <1>1 DEF AfterHandling
<1>3. Places' /\ (\A t \in Thread : pc'[t] = IF t = s THEN next ELSE pc[t])
  BY <1>2 DEF CSInv, Places
<1>4. \A u \in Server : u # s => pc[u] = "none" /\ pc'[u] = "none"
  BY <1>1, <1>3 DEF CSInv, LoneServer
<1>5. /\ \A u \in Server : Serving(u)' <=> u = s /\ Synchronous(r)
      /\ \A u \in Server : Serving(u) <=> u = s
  BY <1>1, <1>2, <1>3, <1>4 DEF Serving
<1>6. Types'
  <2>1. CASE r.operation = "READ"
    <3>1. r.from \in Requester
      BY <2>1, <1>5 DEF CSInv, RequestsByKind, ByKind
    <3>2. AskAndAnswer(r.from)
      BY <2>1 DEF Handle
    <3>3. QED
      BY <1>1, <3>1, <3>2, AnswerTypes DEF CSInv, Types
  <2>2. CASE r.operation # "READ"
    BY <1>1, <2>2 DEF CSInv, Types, Handle
  <2>3. QED
    BY <2>1, <2>2
<1>7. Counted' /\ PastJoin'
  <2>1. Unfinished' = Unfinished
    BY <1>3 DEF Unfinished
  <2>2. QED
    BY <1>1, <1>3, <2>1 DEF CSInv, Counted, PastJoin
<1>8. RequestsByKind'
  BY <1>1, <1>2, <1>3, <1>4, <1>5 DEF CSInv, RequestsByKind
<1>9. LoneServer'
  BY <1>1, <1>3, <1>4 DEF CSInv, LoneServer
<1>10. AskedWhileAwaiting'
  <2>1. ASSUME NEW t \in Requester PROVE Asked(t)' <=> Asked(t)
    BY <1>1, <1>5 DEF Asked
  <2>2. QED
    BY <2>1, <1>1, <1>3 DEF CSInv, AskedWhileAwaiting
<1>11. LastOfItsThread'
  BY <1>1, <1>5 DEF CSInv, LastOfItsThread
<1>12. QuitTail'
  BY <1>1, <1>3, <1>5 DEF CSInv, QuitTail
<1>13. Asleep'
  BY <1>1, <1>3 DEF CSInv, Asleep
<1>14. QED
  BY <1>3, <1>6, <1>7, <1>8, <1>9, <1>10, <1>11, <1>12, <1>13 DEF CSInv

\* The reply: r.from goes on, and has nothing under way any more.
LEMMA ReplyStep ==
  ASSUME CSInv, NEW s \in Server, Reply(s)
  PROVE  CSInv'
<1> USE ClientServerAssumption
<1> DEFINE r == serving[s]
<1>1. /\ UNCHANGED <<running, queue, serving, text, client_threads, stdin>>
      /\ pc[s] = "reply" /\ pc[main] # "returned"
      /\ done' = [done EXCEPT ![r.from] = TRUE]
      /\ blocked' = blocked \ {r.from}
  BY DEF Reply
<1>2. PICK next \in {"stopped", "take"} : pc' = [pc EXCEPT ![s] = next]
  BY DEF Reply
<1>3. Places' /\ (\A t \in Thread : pc'[t] = IF t = s THEN next ELSE pc[t])
  BY <1>2 DEF CSInv, Places
<1>4. \A u \in Server : u # s => pc[u] = "none" /\ pc'[u] = "none"
  BY <1>1, <1>3 DEF CSInv, LoneServer
<1>5. /\ \A u \in Server : ~Serving(u)'
      /\ \A u \in Server : Serving(u) <=> u = s
  BY <1>1, <1>2, <1>3, <1>4 DEF Serving
<1>6. r.from \in Requester /\ Synchronous(r) /\ (r.operation # "QUIT" => r.from # main)
  <2>1. r.operation \in {"READ", "WRITE", "QUIT", "none"}
    BY DEF CSInv, Types
  <2>2. QED
    BY <1>1, <1>5, <2>1 DEF CSInv, RequestsByKind, ByKind
<1>7. \A t \in Requester : done'[t] <=> t = r.from \/ done[t]
  BY <1>1, <1>6 DEF CSInv, Types
<1>8. Types'
  BY <1>1, <1>6 DEF CSInv, Types
<1>9. Counted' /\ PastJoin'
  <2>1. Unfinished' = Unfinished
    BY <1>3 DEF Unfinished
  <2>2. QED
    BY <1>1, <1>3, <2>1 DEF CSInv, Counted, PastJoin
<1>10. RequestsByKind'
  BY <1>1, <1>2, <1>3, <1>4, <1>5 DEF CSInv, RequestsByKind
<1>11. LoneServer'
  BY <1>1, <1>3, <1>4 DEF CSInv, LoneServer
<1>12. AskedWhileAwaiting'
  <2>1. ASSUME NEW t \in Requester, t # r.from PROVE Asked(t)' <=> Asked(t)
    BY <2>1, <1>1, <1>5 DEF Asked
  <2>2. ASSUME NEW t \in Requester, t = r.from PROVE ~Asked(t)'
    BY <2>2, <1>1, <1>5, <1>6 DEF Asked, CSInv, LastOfItsThread
  <2>3. \A t \in Requester : pc'[t] = pc[t]
    BY <1>3
  <2>4. QED
    BY <2>1, <2>2, <2>3, <1>6, <1>7 DEF CSInv, AskedWhileAwaiting
<1>13. LastOfItsThread'
  BY <1>1, <1>5 DEF CSInv, LastOfItsThread
<1>14. QuitTail'
  <2>1. done'[main] => done[main] \/ r.operation = "QUIT"
    BY <1>6, <1>7
  <2>2. QED
    BY <2>1, <1>1, <1>3, <1>5 DEF CSInv, QuitTail
<1>15. Asleep'
  BY <1>1, <1>3, <1>7 DEF CSInv, Asleep
<1>16. QED
  BY <1>3, <1>8, <1>9, <1>10, <1>11, <1>12, <1>13, <1>14, <1>15 DEF CSInv

\* Every step keeps CSInv.
LEMMA NextInv ==
  ASSUME CSInv, [Next]_vars
  PROVE  CSInv'
<1>1. CASE MainStep
  <2>1. CASE Quit
    <3>1. Asks(main, "QUIT") /\ main \in Requester
      BY <2>1 DEF Quit, PostSync, Asks
    <3>2. QED
      BY <3>1, AsksStep
  <2>2. CASE \E c \in Client : CreateClient(c)
    BY <2>2, MainQuietStep
  <2>3. CASE AllCreated \/ Join \/ Return
    <3>1. PICK c \in Client : TRUE
      BY ClientServerAssumption
    <3>2. QED
      BY <2>3, <3>1, MainQuietStep
  <2>4. QED
    BY <1>1, <2>1, <2>2, <2>3 DEF MainStep
<1>2. ASSUME NEW c \in Client, ClientStep(c) PROVE CSInv'
  <2>1. CASE Read(c)
    <3>1. Asks(c, "READ") /\ c \in Requester
      BY <2>1 DEF Read, PostSync, Asks
    <3>2. QED
      BY <3>1, AsksStep
  <2>2. CASE Write(c)
    <3>1. Asks(c, "WRITE") /\ c \in Requester
      BY <2>2 DEF Write, Asks
    <3>2. QED
      BY <3>1, AsksStep
  <2>3. QED
    BY <1>2, <2>1, <2>2, ClientQuietStep, LeaveStep DEF ClientStep
<1>3. ASSUME NEW s \in Server, ServerStep(s) PROVE CSInv'
  BY <1>3, TakeStep, HandleStep, ReplyStep DEF ServerStep
<1>4. CASE UNCHANGED vars
  <2>1. UNCHANGED <<pc, blocked, running, queue, serving, done, text, client_threads, stdin>>
    BY <1>4 DEF vars
  <2>2. Places' /\ Types' /\ Counted' /\ PastJoin' /\ RequestsByKind' /\ LoneServer'
    BY <2>1 DEF CSInv, Places, Types, Counted, PastJoin, Unfinished,
                RequestsByKind, LoneServer, Serving
  <2>3. AskedWhileAwaiting' /\ LastOfItsThread' /\ QuitTail' /\ Asleep'
    BY <2>1 DEF CSInv, AskedWhileAwaiting, Asked, LastOfItsThread, QuitTail, Asleep, Serving
  <2>4. QED
    BY <2>2, <2>3 DEF CSInv
<1>5. QED
  BY <1>1, <1>2, <1>3, <1>4, SpuriousStep DEF Next

-----------------------------------------------------------------------------

\* CSInv holds throughout.
LEMMA Invariance == Spec => []CSInv
BY InitInv, NextInv, PTL DEF Spec

\* What the threads hold keeps its type, however many clients there are.
THEOREM Typing == Spec => []TypeOK
<1>1. CSInv => TypeOK
  <2> SUFFICES ASSUME CSInv PROVE TypeOK
      OBVIOUS
  <2>1. IsFiniteSet(Unfinished) /\ Cardinality(Unfinished) <= Cardinality(Client)
    BY FS_Subset, ClientServerAssumption DEF Unfinished
  <2>2. client_threads \in 0..Cardinality(Client)
    BY <2>1, FS_CardinalityType, ClientServerAssumption DEF CSInv, Counted
  <2>3. QED
    BY <2>2 DEF CSInv, Places, Types, Wanted, TypeOK
<1>2. QED
  BY <1>1, Invariance, PTL

\* However many threads make the first request at once, server_request()
\* creates one server thread, and server.running says so.
THEOREM OneServerCreated == Spec => []OneServer
<1>1. CSInv => OneServer
  <2> SUFFICES ASSUME CSInv PROVE OneServer
      OBVIOUS
  <2> DEFINE Up == {s \in Server : pc[s] # "none"}
  <2>1. Cardinality(Up) <= 1
    <3>1. CASE Up = {}
      BY <3>1, FS_EmptySet
    <3>2. CASE Up # {}
      <4>1. PICK s \in Up : Up = {s}
        BY <3>2 DEF CSInv, LoneServer
      <4>2. Cardinality({s}) = 1
        BY FS_Singleton
      <4>3. QED
        BY <4>1, <4>2
    <3>3. QED
      BY <3>1, <3>2
  <2>2. QED
    BY <2>1 DEF CSInv, LoneServer, OneServer
<1>2. QED
  BY <1>1, Invariance, PTL

\* A thread in server_request() waits for an answer exactly while its one
\* synchronous request is in the queue, with the server, or answered.
THEOREM NoRequestLost == Spec => []RequestsAccounted
<1>1. CSInv => RequestsAccounted
  <2> SUFFICES ASSUME CSInv, NEW t \in Requester
               PROVE  Cardinality(Queued(t)) + Cardinality(InService(t)) =
                        IF pc[t] = "await" /\ ~done[t] THEN 1 ELSE 0
      BY DEF RequestsAccounted
  <2>1. Asked(t) <=> Queued(t) # {} \/ InService(t) # {}
    BY DEF Asked, Queued, InService
  <2>2. \A k, l \in Queued(t) : k = l
    <3>1. \A k, l \in DOMAIN queue : k < l \/ l < k \/ k = l
      BY QueueTypes DEF CSInv
    <3>2. QED
      BY <3>1 DEF Queued, CSInv, LastOfItsThread
  <2>3. \A s, u \in InService(t) : s = u
    BY DEF InService, Serving, CSInv, LoneServer
  <2>4. Queued(t) = {} \/ InService(t) = {}
    BY DEF Queued, InService, CSInv, LastOfItsThread
  <2>5. ASSUME NEW S, \A x, y \in S : x = y
        PROVE  Cardinality(S) = IF S = {} THEN 0 ELSE 1
    <3>1. CASE S = {}
      BY <3>1, FS_EmptySet
    <3>2. CASE S # {}
      <4>1. PICK x \in S : S = {x}
        BY <3>2, <2>5
      <4>2. QED
        BY <4>1, FS_Singleton
    <3>3. QED
      BY <3>1, <3>2
  <2>6. /\ Cardinality(Queued(t)) = IF Queued(t) = {} THEN 0 ELSE 1
        /\ Cardinality(InService(t)) = IF InService(t) = {} THEN 0 ELSE 1
    BY <2>2, <2>3, <2>5
  <2>7. QED
    BY <2>1, <2>4, <2>6 DEF CSInv, AskedWhileAwaiting
<1>2. QED
  BY <1>1, Invariance, PTL

\* No signal is lost: a thread asleep in pthread_cond_wait(), with no help from
\* a spurious wakeup, waits for a condition that does not hold yet.
THEOREM NoWakeupLost == Spec => []NoLostWakeup
<1>1. CSInv => NoLostWakeup
  BY DEF CSInv, Asleep, NoLostWakeup
<1>2. QED
  BY <1>1, Invariance, PTL

\* The WRITE of a client is handled before the READ that followed it, and the
\* QUIT of main() after everything else.
THEOREM OrderKept == Spec => []RequestsInOrder
<1>1. CSInv => RequestsInOrder
  <2> SUFFICES ASSUME CSInv PROVE WritesComeFirst /\ QuitIsLast
      BY DEF RequestsInOrder
  <2>1. WritesComeFirst
    BY DEF WritesComeFirst, CSInv, LastOfItsThread, Synchronous
  <2>2. QuitIsLast
    <3>1. ASSUME NEW s \in Server, Serving(s), serving[s].operation = "QUIT"
          PROVE  queue = <<>> /\ Unfinished = {}
      <4>1. serving[s].from = main /\ Synchronous(serving[s])
        BY <3>1 DEF CSInv, RequestsByKind, ByKind, Synchronous
      <4>2. Asked(main) /\ main \in Requester
        BY <3>1, <4>1 DEF Asked
      <4>3. pc[main] = "await"
        BY <4>2 DEF CSInv, AskedWhileAwaiting
      <4>4. QED
        BY <3>1, <4>3 DEF CSInv, PastJoin, QuitTail
    <3>2. ASSUME Over
          PROVE  queue = <<>> /\ Unfinished = {}
      BY <3>2 DEF CSInv, PastJoin, QuitTail
    <3>3. QED
      BY <3>1, <3>2 DEF QuitIsLast, Unfinished
  <2>3. QED
    BY <2>1, <2>2
<1>2. QED
  BY <1>1, Invariance, PTL
============================================================================
