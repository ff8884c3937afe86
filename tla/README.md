# Verification of schoolprojectsandmore

The repository is a collection of course projects in C and C++, each a program
of its own, without tests.  This project models the ones that have state and a
protocol worth checking.  They fall in three groups: simulations of an operating
system (`LeeOSProject`, `sendbobspls`), programs of threads, processes, signals and
files (`LeeClientServer`, `LeeSemaphores`, `LeeSignal`, `LeeProcessControl`,
`LeeMatrixMultiplication`, `LeeHomework2`, 4 and 5), and data structures with the images
they serve (`bstshit`, `koml`, `vision`).

## 1. Inventory

### LeeOSProject: scheduler (`CPU.cpp`, `ReadyQueue.cpp`, `IODevice.cpp`)

State: the running process, five FIFO ready queues (0 lowest, 4 highest), an
array of FIFO queues for the hard disks and one for the printers.  Operations:
a new process or one back from a device is added (`ReadyQueue::addProcess`),
which preempts through `CPU::contextSwitch` (the two call each other); the
running process ends (`CPU::finishProcess`) or goes to a device
(`CPU::sendToDevice`) and the next one is chosen
(`ReadyQueue::chooseNewProcess`).  The program is sequential; what is hard is the
sequence of commands: a process must be at one place after any of them, on the
queue of its priority, and nobody may wait below a running lower one.

### LeeOSProject: memory manager (`Memory.cpp`)

State: a doubly linked list of heap-allocated `Process` objects, processes and
holes, ordered by address; `root`.  Operations: `insert` (first fit, splits a
hole), `deleteProcess` (merges with the holes on both sides), `screenshot`
(walks from `root`).  The scheduler holds pointers to the same objects, so
`deleteProcess` is called by `finishProcess` on what is running.  Hard: pointers to
deleted objects, addresses the allocator hands out again, boundaries (exact fit,
size 0, unsigned arithmetic).

### LeeOSProject: command loop (`main.cpp`)

`A priority size` calls `insert`, which calls `addProcess`; `t` calls
`finishProcess`; `d n`, `p n` call `sendToDevice`; `D n`, `P n` call
`releaseProcess`; `S` prints.  Input is filtered by `validateNumber`, which lets
through any number without a sign.

### LeeClientServer (`main.c`)

Main creates `CLIENT_THREADS` clients; the first request of anybody creates one
server thread.  Shared state: a queue of requests and `server.running` under
`server.mutex`; `client_threads` under `client_mutex` (and read without it by the loop
that creates the clients); a condition variable for the server, one for main and
one per synchronous request.  A client loops: READ (synchronous), WRITE
(asynchronous) until it reads an empty line; when all are done main sends QUIT.  Hard:
everything concurrent, namely lost wakeups, the lazily created server, the order of
asynchronous and synchronous requests, the end of the program.

### LeeSemaphores (`main.c`)

A parent and a child each go three rounds of: test `err`, `semop(-1)`, read the
value, write a line, `semop(+1)`, read the value.  Neither the semaphore nor `err` is
ever initialised.  Hard: the value read is stale when it is tested, a process may be
killed with the semaphore (`SEM_UNDO`), a failed call is only reported.

### sendbobspls (`Memory.cpp`, `Schedule.cpp`, `CPU.cpp`, `HardDisk.cpp`, `main.cpp`)

State: a page table with time stamps, three ready queues by used quanta, the
processor, a queue per disk.  Operations, one per command: `A`, `Q`, `t`, `d`, `D`, `m`.
Hard: replacement depends on the uniqueness of the time stamps; a process must
not be lost on its way between processor, queue and disk.

### books.txt (`LeeHomework2/main.c`, and the copy in `LeeClientServer/main.c`)

A file of rows, each a title and an author.  An edit reads it whole, asks the user, then
seeks, truncates and writes the row and all that follows.  Nothing is locked.  Hard: a
kill between the truncation and the last write, the edit of another program in between,
positions that are -1 or the last byte, a buffer without an end that is copied by `strcpy`.

### LeeSignal, LeeProcessControl, LeeHomework5

`LeeSignal` installs handlers, blocks signals by two calls of `sigprocmask`, raises SIGINT in
its critical section and lets it in by `sigsuspend`; anybody may send it signals at any
time.  `LeeProcessControl` forks three children one after the other, waits for each and
reports how it ended; children append to one file, stdout may be a buffer that `fork`
copies, `fork` may fail.  `LeeHomework5` leaves a logger behind that appends a line per minute
at the offset of its own descriptor; it may be run again.  Hard: everything that arrives
between two calls.

### LeeHomework4 (directory walk)

`dopath` recurses over a tree of files with one path buffer for all levels, which it grows,
while other programs create and remove files.  Hard: the room that must be left for a name
not known yet, what inner calls leave in the buffer, files that vanish between `readdir`,
`lstat` and `opendir`.

### LeeMatrixMultiplication

Main fills two matrices, starts up to seven threads on sections of the rows, joins them.
Hard: sections must not overlap, and must cover all rows; nothing is locked.

### bstshit (`genBST.h`, `main.cpp`)

A binary search tree: insertion, deletion by copying and by merging, mirroring, balancing
from an array, recursive and iterative traversals, three of Morris that thread the tree
while they walk it.  Hard: long sequences of both deletions with equal names, trees of every
shape, threads that make cycles.

### koml and vision/Student_Linked_List

Two singly linked lists of students.  `koml` puts new ones first and works by name, the other
puts them last and works by roll number, with the state of `cin` that nothing clears.

### vision: labelling, lines and image files

`IraLeeHomework2` labels pixels as they are read, with a union-find of labels that meet, and
renumbers them.  `DrawLine` is the incremental midpoint algorithm in eight octants.  `WriteImage`
and `ReadImage` share a file format; the disk may be full.

### Not modelled

`PROJECT.json` lists every part with its reason.  `shit/` is an earlier snapshot of
`LeeOSProject`; the one difference in its logic is the mutant `SendToDeviceUnguarded`.  The image
filters of `vision` (thresholds, edges, Hough transform, moments, photometric stereo) are
floating-point computations over whole images, whose copies of `image.cc` differ from the one
modelled in what they do with a pixel; `p1` to `p4` are earlier versions of `IraLeeHomework2`.  `Project1` (Duktape), `asdca` and `poop` are third-party
code; with over 100,000 of the repository's 111,755 lines of implementation, Duktape is the
reason why the map covers a small share of it.  The small Unix exercises (`LeeHomework1`, 3, ...) are
straight-line programs that print what the system reports.

Within what is modelled: exceptions of `stoi` and `stoll` on numbers out of range, `exit` on
`malloc`, `open`, `semget`, `fork` or `pthread_create` that fail at the start, and displays are left out.
Buffers of a fixed size are taken to be large enough for what is put into them, but for the path
buffer of `DirectoryWalk`, whose size is what that program is about; section 4 lists those
the code overruns.

## 2. Modules

| Module | Models | State and actions |
|---|---|---|
| `Queues` | | what it means for a family of queues to hold each element once |
| `Scheduler` | CPU, ReadyQueue, IODevice | variables as in the classes; `CreateProcess` (A), `FinishProcess` (t), `SendToDevice` (d, p), `ReleaseProcess` (D, P) |
| `Dispatch` | the comment of `ReadyQueue.h` | a priority dispatcher without queues; `Scheduler` implements it |
| `Memory` | class Memory | `heap`, the allocated objects by address, and `root`; `Insert`, `DeleteProcess`; `InsertAstray` when the walk of `insert` meets a deleted object or never ends |
| `FirstFit` | | the byte-wise promise of a first-fit allocator; `Memory` implements it |
| `OSSim` | `main.cpp` | composes `Memory` and `Scheduler`: a `Node` of the one is a `Process` of the other; one action per command |
| `ClientServer` | `LeeClientServer/main.c` | `pc` per thread; an action is what a thread does while it has a mutex |
| `Paging` | sendbobspls | one action per command, with every call it makes |
| `LRU` | | the resident pages and which of two is `older`, without frames or stamps; `Paging` implements it |
| `Semaphores` | `LeeSemaphores/main.c` | one action per system call; `AcquireFails`, `LookFails`, `ReleaseFails`, `RelookFails` are the calls that return -1; `Kill` |
| `BookFile` | `LeeHomework2` | one action per system call of an edit, but for the `lseek` back to the start: `Measure` takes the file's length, `Read` reads that much, `Call` is the next call of what the answer set out; `Kill` |
| `Signals` | `LeeSignal` | one action per call of `main`; handlers as a stack of frames; `Send`, `Deliver`, `Die` are the system |
| `ProcessControl` | `LeeProcessControl` | parent and children by `pc`; the stdout buffer of each process |
| `TimeLog` | `LeeHomework5` | loggers with `offset` and `prevTime`; time passes by `Tick` |
| `DirectoryWalk` | `LeeHomework4` | the path buffer and a stack of calls; creation and removal of files by others |
| `MatrixMultiplication` | `LeeMatrixMultiplication` | main, and a thread per section; a row is one step |
| `Trees` | `genBST.h` | the heap of tree nodes and the functions of class BST on it |
| `BST` | `bstshit` | one action per operation that changes the tree |
| `NameBag` | | a bag of names; `BST` implements it |
| `Traversals` | `genBST.h` | the loops of seven traversals, round by round, on every tree; the two inner loops by which `MorrisPostorder` reverses a chain of right pointers and restores it as well (`MorrisReverse`, `MorrisRestore`) |
| `KomlList`, `VisionList` | the two lists | the heap of records; one action per option of the menu |
| `Roster` | | a sequence of students; both lists implement it |
| `Labelling` | `IraLeeHomework2/image.cc` | one action per pixel read, then the second pass |
| `ObjectMap` | | the connected sets of pixels read so far; `Labelling` implements it |
| `DrawLine` | `image.cc` | one action per move to E or SE, NE |
| `PgmFiles` | `IraLeeHW4/image.cc` | the stream's buffer, the disk and both ends |
| `Files` | | the four programs that work on files: instances of `TimeLog`, `DirectoryWalk`, `BookFile` and `PgmFiles` |
| `Programs` | | composes those of `Files` with `Signals`, `ProcessControl`, `MatrixMultiplication`, `DrawLine` and `Semaphores`: several programs in one state space (below) |
| `Lists` | | the same for `KomlList` and `VisionList` |
| `MCDataStructures` | | the same for `BST`, `Traversals` and `Labelling` beside `Lists`, with their bounds |
| other `MC*` | | values for TLC |
| `Scheduler_proofs`, `Memory_proofs`, `OSSim_proofs`, `Paging_proofs`, `ClientServer_proofs`, `Lists_proofs`, `Files_proofs`, `Programs_proofs` | | the proofs about the module of that name (section 5) |

Abstractions that matter:

* **Undefined behaviour.**  Following a pointer to a deleted object in `Memory`, or
  indexing past an array, sets `wild`; nothing happens afterwards.  `new` returns any
  address that is not in use, freed ones included.
* **The walk of `insert`.**  The loop is not run step by step: `Reached` is the least
  set of nodes that contains `root` and the successors of its members that do not
  fit.  The walk ends at the node of that set that fits, or at the one without a
  successor; if there is neither, it went astray.
* **The two copies of `insert`'s body** (inside the loop and after it) are the same
  statements on the same tests; one action stands for both.
* **`damage` and `leaked`** in `Memory` are history variables: which of the three kinds
  of step that break the list have been taken, and the holes an exact fit unlinked.
* **Mutexes of `LeeClientServer`.**  The two are never held together and all shared data
  is accessed under one of them, but for the bound of the loop that creates the clients:
  `CreateClient` and `AllCreated` read `client_threads` without `client_mutex`, in a step
  of their own.  The check and the `pthread_create` that follows are one step: a
  decrement between them commutes with the creation.
* **Condition variables.**  `blocked` holds the threads in `pthread_cond_wait`; a spurious
  wakeup may take out any of them at any time.
* **Input.**  A line is empty, a `DB_` command or something else.  `scanf` skips blank
  lines and leaves the newline after its word, so the next `fgets` gets an empty line.
* **Semaphores.**  POSIX leaves the first value of a new semaphore open: it is chosen
  in `Init`, like the uninitialised `err` (which `fork` copies).  `IPC_STAT` with the
  pointer that `arg.val = 10` overwrote changes no semaphore.

* **Several programs in one state space.**  Programs that share nothing are instances in
  `Programs`, `Lists` and `MCDataStructures`: the variable `program` (or `part`) says which of them
  runs, the variables of the others are `Off`.  `Programs` and `Lists` keep the constants of their instances,
  so that what is proved of them holds for all their values.  The reachable states are the disjoint union
  of theirs, a property says something of one of them, and fairness is that of its module.
* **Text and numbers.**  A word of books.txt, the text of a log line's half, a path component
  and a line of an image header are one cell each.  What counts is where cells begin and end,
  and whether there is room for them; the length of a path is that of its characters.
* **Addresses in `BST` and the lists** are numbers; a new node takes the lowest free one.
  No operation compares addresses, and a deleted one is used again at once, the worst case.
* **The two directions of `DrawLine`** are the same statements with x and y exchanged: one
  action stands for both, `dir` says which of them a pixel is drawn for.

Definitions whose comment says what they get wrong (`AddProcessForgetsPreempted`,
`JoinOneShort`, ...) are mutants: the same code with a plausible bug.  Each property
of a passing run is violated when one of them takes the place of its original; a
conjunction of several has one for nearly every conjunct.

## 3. Runs

| Run | Shows | Bounds |
|---|---|---|
| `scheduler` | type, work conservation and priorities, one place per process, refinement of `Dispatch` | 4 processes, levels 0, 3 and 4 (7 is clamped), one disk and two printers, index 2 out of range |
| `memory` | the list is exact, refusal only when full, refinement of `FirstFit`, all until the first damaging step | 6 bytes, 5 objects, requests of 0, 1, 2, 3, 6 and 7 bytes |
| `os` | scheduler and memory manager have the same processes, also on a damaged list, until `wild`; what leads there | 3 bytes, 5 objects, 4 processes created |
| `client_server` | one server, requests accounted, no lost wakeup, order; requests are answered and the program ends | 2 clients and main, inputs of up to 3 lines, one or two words after `DB_` |
| `paging` | one place and right level per process, refinement of `LRU`, an idle processor with a queue only after a return from a disk | 3 frames, 2 processes, 2 pages each, 6 time slices |
| `programs` | one invariant for each of eight programs: `SignalsAreSafe`, `ReportsAreRight`, `LogStaysWhole`, `WalkIsRight`, `RowsAreKept`, `ProductIsRight`, `LineIsRight`, `FileIsReadRight`; of a ninth, `LeeSemaphores`, that the semaphore counts (`SemaphoreCounts`) and excludes (`SemaphoreExcludes`); `Progress`: they end, or log | 3 and 2 signals from outside; 2 loggers within a minute past the hour; trees of 3 files, 3 deep, one change; 2 edits by 2 programs on files of 0 and 2 rows; matrices of 4 and of 11 rows; end points from -1 to 4 on an image of 4 by 3; 2 pixels of 4 values on a disk with room for 0 to 7 cells; 2 rounds under a semaphore that comes with 0 to 2, and an `err` of each sign |
| `data_structures` | `TraversalIsRight`; what the lists use is one list (`ListsAreRight`); refinements of `NameBag` (`ImplementsBag`), `ObjectMap` (`ImplementsObjectMap`) and `Roster` (`ImplementRosters`); traversals end (`Ends`) | 4 tree nodes of 3 names; every tree of 5 nodes for traversals; every binary image of 3 by 4; 4 students of 2 names and 2 grades, 4 records of 2 roll numbers and 2 grades |
| `find_*` | the findings of section 4 | small |

Why the bounds suffice: four processes are enough for one to run, two to share a queue
and one to be at a device, and the three levels give a lower, a middle and a clamped
one.  Six bytes and five objects give lists of five entries: a process with two
neighbours on each side, so a merge on both sides changes entries that have neighbours
of their own.  Two clients and main put three requests in the queue, and two lines and
the end of the input let one client outlive the other.  Three frames with four
possible pages fill, evict and refill.

Two edits overlap or follow one another; one change of the tree of files can hit any file
at any level before, within and after its visit.  A length of 3 for the longest name, and
paths that fit `PATH_MAX` exactly or not at all, put every boundary of the buffer within a
tree 3 deep.  Four rows have a divisor from 2 to 7 and eleven have none.  The code has
three rounds; in two, either process goes for the semaphore with an `err` from before the
other had it and from after, and `find_turns` has all three.  Four students of two names put
the one that is looked for first, between others and last, with a second of its name behind it.  Four nodes give a
node with two children whose left child has a right one, where the two deletions
differ.  Three rows of four pixels make labels of one object that meet late (a `W`) and
unions of unions.  The end points lie on all sides of an image and give every octant.

`memory` follows one kind of damage further, a `root` left at a deleted object, and stops
after the other two (`CONSTRAINT Explored`): the state they lead to is checked, its
successors are not, because only the type invariant says something of them.  `os` and the
runs `find_head` and `find_exact` go on.  `CHECK_DEADLOCK FALSE` stands where the model
stops: once `wild`, at a bound, or at the end of a program.

Fairness.  `ClientServer`: weak fairness of every thread, because the kernel runs a thread
that can run and a mutex is held only for a few statements; none for spurious wakeups.
`Semaphores`: weak fairness of either process, none for failures and kills.  `Signals`: of
main, of a handler that runs and of the delivery of what is not blocked, none for signals from
outside.  `ProcessControl` and `MatrixMultiplication`: of main and of the children (threads)
together.  `TimeLog`: of every logger, and of time.  `DirectoryWalk`: of the walk, none for the
other programs.  `Traversals` and `DrawLine`: of the call.  All of it is what a kernel
gives to processes that can run; it is needed only for the liveness properties
(`EveryRequestAnswered`, `Terminates`, `Ends`, `Progress`).

## 4. Findings

* **`find_clients`** (`LeeClientServer/main.c:154`).  The loop that creates the clients
  compares its counter with `client_threads`, which a client that finishes
  decrements.  If one finishes before the loop ends, fewer clients are created, and
  `client_threads` never reaches 0: main waits for ever.  `Terminates` is therefore stated
  from the point where all clients exist.
* **`find_turns`** (`LeeSemaphores/main.c:119`).  A process that reads the semaphore after its
  release, while the other has it, gives up its next turns.
* **`find_head`** (`LeeOSProject/Memory.cpp:123`).  Ending the first process of the RAM with a
  hole after it leaves `root` at a deleted object, unless the RAM becomes one hole.
* **`find_exact`** (`LeeOSProject/Memory.cpp:45`).  An exact fit leaves the next entry's
  `prev` at the unlinked hole; deleting that entry then corrupts the list.
* **`find_outside`** (`vision/image.cc:217`).  The comment of `DrawLine` says that end points can lie
  outside the image (`image.h:77`, `IraLeeHW4/image.h:183`); this version aborts for every such line.
  The one of `IraLeeHW4` passes a flag that makes `SetPixel` ignore those pixels.  `LineIsRight` says of
  either what it does: it aborts exactly for an end point outside, unless told to ignore.

Met while modelling, where no run of its own shows it:

* `LeeSemaphores`: after a failed `semop(-1)` the code releases all the same, and the undo of
  that release can block the other process.
* `LeeClientServer`: the newline left by `scanf` ends whichever client reads next.
* `LeeHomework2`: the rest of the file is copied by `strcpy` from a buffer that has no end, so an
  edit may write what the stack holds behind it; `RowsAreKept` excludes such an edit (`cut`).
* `sendbobspls`: `t` leaves the process on the processor; `D` does not give an idle
  processor the process, which waits for the next `A` (`NeglectedOnlyByReturn`).
* `LeeOSProject`: a request of 0 bytes wraps around.
* `LeeProcessControl`: with stdout in a file the first two reports appear twice.
* `LeeHomework5/main.c:28`: the comment says hour, the code waits for 60 seconds.
* `LeeMatrixMultiplication`: a size without a divisor from 2 to 7 leaves its last rows zero;
  the size in the source has one.
* `bstshit`: option 6, "Create and display a mirror image", mirrors the tree itself: option 3 then
  lists it in descending order, and options 1 and 2 search it as if it were not mirrored, so
  that a name in it may not be found and a new one ends up in no order.
* `koml`: a removal from the empty list follows a null pointer.
* `vision/Student_Linked_List`: a roll number that is not numeric repeats the menu for ever.
* `IraLeeHomework2`: a pixel whose left and upper neighbours have the same label, and whose
  diagonal one has none, gets no label.
* `IraLeeHW4`: `WriteImage` ignores what `fclose` returns; a threshold turns EOF into a pixel of 0,
  and an image without a pixel of 255 makes program 1 divide by zero; `ReadImage` repeats its
  search for the size for ever on a file that ends after its comment (the model does
  not cut a file within a line).
* `bstshit`, options 4 and 5: `countNodesHelper` and `countLeafsHelper` (`genBST.h:484-509`) return a value
  for the empty tree only and flow off the end of the function for all others, which is
  undefined behaviour.  `BST` takes both to change nothing.
* `sendbobspls/main.cpp:56` accepts a disk number one past the last (`GoWild`, after which the model
  says nothing); `sendbobspls/Memory.cpp:10` does not check that there is a frame.
* Buffers filled without regard to their size: `LeeClientServer` copies 128 bytes into the
  `text[28]` of a request on every WRITE (`main.c:210`), reads lines of up to 128 into one
  (`main.c:303`), and words by `scanf("%s")` into `name[20]` and `rN[2]` (`main.c:308`, 312, 318); `LeeHomework2` reads the file into `buf[200]`
  (`main.c:76`), copies it to `newBuf[200]`, and reads words into `newTitle[20]`, `newAuthor[20]` and
  `ans[1]`, where already one letter leaves no room for its end (`main.c:29-32`), and so does its copy in `LeeClientServer`; `vision/Student_Linked_List`
  reads a name into `name[10]`.
* `LeeHomework2`: `strcpy` also stops at a byte 0.  Holes, which hold such bytes, arise only when edits
  overlap; the model copies them.
* `DrawLine` squares differences of coordinates in an `int`, which overflows for end points more than
  46340 apart.

## 5. Proofs

The theorems hold for every value of the constants that satisfies the assumption of the
module (`SchedulerAssumption`, `MemoryAssumption`, ...); TLC evaluates each of them on a
run.  The assumptions say what the programs do: `getInput()` of `LeeOSProject` loops until a
number is not zero, a NULL is no process, there is a client at least and there are
finitely many of them, and the bounds of the model (`MaxPid`, `MaxLines`, `Rounds`, ...) are
numbers.  A name is not the null pointer, and no roll number is what marks a free record in
the model: the code only compares roll numbers with each other.  Two assumptions ask more than the code
checks: `PagingAssumption`, that there is a frame (no frames index in front of the table), and
`DrawLineAssumption`, that end points differ by 46340 at most (`MaxSpan`), so that `dx * dx` fits an `int`.
No other hypothesis is made.

**`Scheduler_proofs`.**  The four invariants of the run `scheduler`, for any processes, devices
and inputs.  The inductive invariant is `SchedInv`: types, that a process waits on the queue of
its priority, that nobody waits above the running one, that all queues together hold each
process at most once, and that what exists is what they hold.  Each part needs the others:
that `ChooseNewProcess` restores the priority order needs that queues are by priority, and that
`FinishProcess` loses nobody needs that the running process is in no queue.  The commands are
built from two operations, a push at the end and a pop at the head of one queue of a family;
lemmas about these, which open the module, carry the proof of each action.
`QueuesDispatch`: the scheduler implements `Dispatch`.  The abstract `ahead` is the order within
the queues; a push makes the new one last of its level, and the head of the highest queue that
is not empty is what no other process precedes.

**`Memory_proofs`.**  `MemInv`: types, and as long as no damaging step was taken, what is
allocated without what exact fits left behind is one list (`SoundIn`): `prev` and `next` are
inverse to each other, entries are apart and each ends where its successor starts, every
byte belongs to one, and no two holes are neighbours.  `deleteProcess()` is proved as the two
merges it is made of, `MergedPrev` and `MergedNext`, of which the first leaves a list
where two holes may still be neighbours (`ApartBut`).  From `MemInv`:
`MemoryTyping`, `ListStaysSound`, `RefusalsAreTrue` and `NothingWildBefore`.  For the last two
the walk of `insert()` must be shown to end at the first hole that fits: `Reached` is the
least closed set, so whatever a closed set leaves out is not reached; and the entries before
the first fit are in every closed set, for one with the lowest address that is not would have a
predecessor that is (`Least`, from the well-foundedness of the library).  `FirstFitUntilDamaged`: every step
on an undamaged list is one of `FirstFit`, or a stutter.  The abstract state says which process
owns which byte (`OwnersIn`); a merge changes nobody's bytes.

**`OSSim_proofs`** composes the two: `OSInv` says that either has its own invariant and that what
exists for the scheduler is what is no hole for the memory manager, until `wild`.
`SchedulerAgreesWithMemory` holds on damaged lists as well, for the processes of an object
do not depend on the links; `UndefinedBehaviourHasACause` is `NothingWildBefore`, for the commands.

**`Paging_proofs`.**  `PagingTyping`, `ProcessesArePlaced` (with the same lemmas about
queues: ready queues and disks are one family) and the action property
`IdlingIsExplained`.  `FramesImplementLRU`: `Paging` implements `LRU`.  The invariant is
`FramesAreSound`: used frames hold different pages, their stamps are different and not above
`timeSlice`, the processes they name exist, and a free frame is blank.  With it the frame of the smallest stamp is
the one whose page no other page is older than, and what a step does to the table is what it
does to the set of pages and to the order on it (`Renews`, `Loses`).

**`ClientServer_proofs`.**  `CSInv` has ten parts.  Beyond types and places they say: the counter is
the number of clients that have not ended (`Counted`); one server at most, and one exactly when
`server.running` says so (`LoneServer`); a thread has a
synchronous request in the queue or with the server exactly while it awaits the answer
(`AskedWhileAwaiting`), and that request is its last (`LastOfItsThread`); nothing follows QUIT
(`QuitTail`); who is blocked waits for a condition that is false (`Asleep`).  `Typing`,
`OneServerCreated`, `NoRequestLost`, `NoWakeupLost` and `OrderKept` follow.  Read, Write and Quit
share one lemma, as they share the code that puts a request into the queue.

**`Lists_proofs`.**  Both programs keep one list on the heap, so the first half is about any
heap: a root, links, and the sequence of addresses they lead through (`Linked`).  `From`, the recursive
function by which the models read the list, is that sequence (`ChainIs`: the tails of the sequence meet the
recursion,
and whatever meets it agrees with them on the list, by induction from its end).  Then: a new address linked first (`LinkFirst`) or last (`LinkLast`) and one unlinked
(`Unlink`) give the sequence with it at the front, at the end, and without it (`OneLess`), and what is
read at the addresses follows (`MapFirst`, `MapLast`, `MapWithout`, `MapAt`).  The invariant, `KomlInv` and `VisInv`: the
links make one list, each record once, of exactly those in use.  `ListsSound`: `ListsAreRight`, for any number of
records, so nobody is leaked and nobody freed while linked.  `RostersImplemented`: `ImplementRosters`, step
by step: a removal takes out of the abstract sequence the first student with the key and no
other, also where there is a second one; `remove()` of koml follows a null pointer on the empty
list only; the stream that has failed freezes everything.

**`Files_proofs`** has what is proved of the programs that work on files, and the lemmas that
`Programs_proofs` cites.  The induction theorems of the library take an operator, which the
provers cannot instantiate; `SetInduction` says the same of a set of numbers, and is proved from the
well-foundedness of the naturals.  From it follow `Recursion` (steps that are iterated define a
function) and with it what the folds of the community modules compute: the path that is the fold of
its components, the file that is put together of its rows (`FlattenSeq`).

**`Programs_proofs`.**  A step of `Programs` is one of the program that runs (`OneProgramRuns`), so
each theorem is about the runs of one module.

* `SemaphoreCountsRight` and `MutualExclusion`: `SemaphoreCounts` and `SemaphoreExcludes`, for any number of rounds
  and any first value.  The inductive invariant adds that a process in the middle of a round has one
  left, and that while no call has failed the kernel owes a process exactly what it has
  (`UndoneOnce`): without it a kill could create or destroy a unit.  Whatever fails, `Repaid`: the value
  and what the kernel has still to undo are never below the value it came with.

* `SignalsSafe`: `SignalsAreSafe`, for any number of signals.  Handlers interrupt handlers; the
  invariant follows the masks through the whole stack of frames (`Nested`): the mask a
  handler will restore contains the signals of all the handlers below it and what main has
  blocked at this place.  The set that `sigsuspend` restores is part of it.
* `ProductComputed`: `ProductIsRight`, for every size.  `Share` is the number of rows of a section;
  that sections are disjoint is arithmetic in two variables, with the number of threads
  split into its six values.
* `LineDrawn`: `LineIsRight`, for all end points that are not too far apart, and every size of the image.  The decision variable is
  a linear function of the pixel drawn.  In case 1 (`dv >= 0`) it is
  `2(u + 1 - umin)dv - 2(v - vmin)du - du` and lies between `2dv - 2du` and `2dv`; in case 2 it has
  `+ du` for `- du` and lies between `2dv` and `2dv + 2du`.  From these bounds follow the distance to the
  line and the last pixel; that it aborts exactly for an end point outside follows because a rectangle that
  has both ends in it has every pixel between them.
* `FilesReadRight`: `FileIsReadRight`, for every image, threshold, buffer and room on the disk.  The
  file and what the buffer still holds are a beginning of the whole file (`Begun`), whatever
  the disk refused; the reader is at a line of the header that it knows or the pixels it has are
  the bytes of the file after the threshold, of which `brightest` is the greatest (`BytesRead`).
  A division by zero is one by the count of a value that was read.
* `LogWhole`: `LogStaysWhole`, for any number of loggers.  While nothing has been disturbed
  (`WholeLog`) one logger at most is active, its offset is the end of the file, and the file is the
  text of the log by positions, three cells for each entry, short of the newline while a
  logger is between its two writes.
* `ReportsRight`: `ReportsAreRight`, for any number of signals.  `Turns`: the children before `n` are
  past or were never forked, those after it do not exist, so the one of this round is alone with the
  parent; hence nobody else appends to the file while it does, and `wait3()` takes no other.  `Inherited`
  and `Numbered` say what is in each buffer and on stdout: the reports of the first children in
  order, behind the two that the third child writes if it exits.

* `WalkRight`: `WalkIsRight`, for any names, depths and changes, and any path buffer.  `WalkInv`: each level of
  the stack is one name deeper than its caller, on the way to `fullpath` (`Place`); behind the directory
  of every level there is room for the longest name (`Fit`), which the calls further in keep because
  the buffer only grows; what is above a file is a directory (`Closed`); the name a level is at
  is not returned to it again, unless it was created anew (`OnceTaken`).  `Counted`: a file that nobody
  touches, nor what is above it, is ahead of the walk and not counted, or was counted once.  The last
  needs all the others: what is ahead is said of the stack and of the names each level has left.
* `RowsKept`: `RowsAreKept`, for any files, editors and number of edits.  As long as no edits overlap there is
  one (`OneEdits`), which has measured a file that is still that long, or has made the first `k` of the
  calls that were planned when the file was read (`UnderWay`), and each call leaves the file as the next one needs it (`CallStage`): in front of the place
  of the edit it is what was read (`FrontStays`), also if the editor is killed there.  All
  calls together leave the text of the edited rows (`EndsRight`); a file, or what was read
  of it, is the text of the rows (`HasText`), which says by position what stands in it, but
  for the end of the last line.

## 6. Only model-checked

* Liveness, which TLAPS does not handle: `EveryRequestAnswered`, `Terminates`, `Ends`, `Progress`.
* `TraversalIsRight`, and that the tree and the labelling implement `NameBag` and `ObjectMap`
  (`ImplementsBag`, `ImplementsObjectMap`): what the recursive functions of `Trees` and `Labelling`
  compute for every input.
* The runs `find_*`: a counterexample is one.

What the properties do not say, because the code does not give it:

* nothing of a log whose loggers overlap, or where one was killed between its two writes (`disturbed`), nor of
  books.txt once edits overlap (`overlapped`) or junk was written (`cut`): without a lock a line or an
  edit may be lost, and no document says how these programs share their files;
* nothing of the exclusion, or of an end, once a `semop` of `LeeSemaphores` has failed, but
  that no unit of the semaphore is lost for good (`Repaid`); no end for a semaphore that comes with 0;
* nothing of a list of `Memory` after one of the three steps that damage it, but where those lead; an index past
  the devices (`IODevice.cpp:20`, which does not clamp it) is undefined behaviour and its own cause;
* nothing of a directory that others replace by a symbolic link between `lstat` and `opendir`, which the walk
  would follow: others create and remove files only.

## 7. Plan

1. (done) The operating systems, `ClientServer` and `Semaphores`; proofs about `Scheduler` and
   `Semaphores` (now in `Programs`).
2. (done) `BookFile`, `Signals`, `ProcessControl`, `TimeLog`, `DirectoryWalk`, `MatrixMultiplication`, the
   tree and its traversals, the lists, labelling, lines and image files, with four more
   abstract specifications.
3. (done) Proofs, for every value of the constants: all invariants and the refinements of `Scheduler`,
   `Memory`, `OSSim`, `Paging` and `ClientServer`; the invariants of the nine programs of `Programs`; both
   lists, with their refinement of `Roster`.
4. Proofs left: of `Labelling`, that a pixel's label has one root; of `Trees`, that the nodes in use are one
   tree.  Both need an induction over a recursive function of two variables, as `ChainIs` has for one.
