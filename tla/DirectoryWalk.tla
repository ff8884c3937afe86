--------------------------- MODULE DirectoryWalk -----------------------------
(***************************************************************************)
(* LeeHomework4: dopath() walks a tree of files and counts them by type.   *)
(* All levels of the recursion share one buffer, fullpath, to which each   *)
(* level appends and which any may move to a larger place; meanwhile other *)
(* programs create and remove files.  An action is what the walk does      *)
(* between two calls of the system.                                        *)
(***************************************************************************)
EXTENDS Integers, Sequences, FiniteSets, SequencesExt

CONSTANTS
  Name, NameLen,   \* names of files, and how long each is
  Kind,            \* types of files besides directories
  NAME_MAX, PATH_MAX,
  StartLen,        \* lengths of the argument of the program
  MaxDepth, MaxFiles, MaxChanges  \* bounds

DirectoryWalkAssumption ==
  /\ NAME_MAX \in Nat \ {0} /\ PATH_MAX \in Nat /\ PATH_MAX >= NAME_MAX + 2
  /\ NameLen \in [Name -> 1..NAME_MAX]
  /\ StartLen \subseteq Nat \ {0}
  /\ "dir" \notin Kind /\ Name \cap {".", ".."} = {}
  /\ MaxDepth \in Nat /\ MaxFiles \in Nat /\ MaxChanges \in Nat

\* Paths below the argument, which is the path <<>>.
Path == BoundedSeq(Name, MaxDepth)
Parent(p) == Front(p)

\* The trees of files: the parent of a file is a directory.
Tree ==
  {t \in UNION {[S -> Kind \cup {"dir"}] :
                  S \in {S \in SUBSET Path : Cardinality(S) <= MaxFiles}} :
     \A p \in DOMAIN t \ {<<>>} :
       Parent(p) \in DOMAIN t /\ t[Parent(p)] = "dir"}

VARIABLES
  tree, changes,            \* the files, and how often they were changed
  pc, fullpath, slash, pathlen, startLen,
  stack,                    \* of the calls that read a directory
  count,                    \* nreg, ndir, nblk, ...
  seen,                     \* how often each path was counted
  missed,                   \* the paths for which it complained
  touched                   \* the paths created or removed meanwhile

files == <<tree, changes, touched>>
vars == <<files, pc, fullpath, slash, pathlen, startLen, stack, count, seen, missed>>

\* strlen() of a path below an argument of so many characters.
Chars(arg, p) ==
  LET upto[k \in 0..Len(p)] == IF k = 0 THEN arg ELSE upto[k - 1] + 1 + NameLen[p[k]]
  IN  upto[Len(p)]
PathLength == Chars(startLen, fullpath) + (IF slash THEN 1 ELSE 0)

IsDir(p) == p \in DOMAIN tree /\ tree[p] = "dir"
Entries(p) == {x \in Name : Append(p, x) \in DOMAIN tree}

\* The size of the buffer: before POSIX.1-2001, PATH_MAX leaves out the end.
PathAlloc == {PATH_MAX, PATH_MAX + 1}

\* It may be too small for the argument.
Myftw ==
  /\ pc = "start"
  /\ \E size \in PathAlloc :
       pathlen' = IF size <= startLen THEN startLen * 2 ELSE size
  /\ pc' = "stat"
  /\ UNCHANGED <<files, fullpath, slash, startLen, stack, count, seen, missed>>

\* Where a call of dopath() returns to.
Return(s) == IF s = <<>> THEN "done" ELSE "read"

\* func() for a file it can count; it always returns 0.
Myfunc(kind) ==
  /\ count' = [count EXCEPT ![kind] = @ + 1]
  /\ seen' = [seen EXCEPT ![fullpath] = @ + 1]

Stat == fullpath \in DOMAIN tree /\ PathLength < PATH_MAX

\* FTW_NS: the file has gone, or its path is longer than the system takes.
StatFails ==
  /\ pc = "stat" /\ ~Stat
  /\ missed' = missed \cup {fullpath}
  /\ pc' = Return(stack)
  /\ UNCHANGED <<files, fullpath, slash, pathlen, startLen, stack, count, seen>>

\* FTW_F
CountFile ==
  /\ pc = "stat" /\ Stat /\ tree[fullpath] # "dir"
  /\ Myfunc(tree[fullpath])
  /\ pc' = Return(stack)
  /\ UNCHANGED <<files, fullpath, slash, pathlen, startLen, stack, missed>>

\* Room for the slash and the end, but not for a name.
ExpandedForSlash(n) == IF n + 2 > pathlen THEN pathlen * 2 ELSE pathlen

\* Room for a slash, any name and the end.
Expanded(n) == IF n + NAME_MAX + 2 > pathlen THEN pathlen * 2 ELSE pathlen

\* FTW_D, then room for a name, then the slash.
CountDirectory ==
  /\ pc = "stat" /\ Stat /\ tree[fullpath] = "dir"
  /\ Myfunc("dir")
  /\ pathlen' = Expanded(PathLength)
  /\ slash' = TRUE
  /\ pc' = "open"
  /\ UNCHANGED <<files, fullpath, startLen, stack, missed>>

\* opendir().  Every level holds a descriptor, so it may also fail for want of one.
OpenDirectory ==
  /\ pc = "open" /\ IsDir(fullpath) /\ PathLength < PATH_MAX
  /\ stack' = Append(stack, [n |-> Len(fullpath), dp |-> fullpath,
                             left |-> Entries(fullpath) \cup {".", ".."}])
  /\ pc' = "read"
  /\ UNCHANGED <<files, fullpath, slash, pathlen, startLen, count, seen, missed>>

\* FTW_DNR; the slash stays, and the caller writes over it.
OpenFails ==
  /\ pc = "open"
  /\ missed' = missed \cup {fullpath}
  /\ pc' = Return(stack)
  /\ UNCHANGED <<files, fullpath, slash, pathlen, startLen, stack, count, seen>>

top == stack[Len(stack)]
Taken(x) == [stack EXCEPT ![Len(stack)].left = @ \ {x}]

\* A walk into the directory itself.
WalkDot ==
  /\ pc = "read" /\ "." \in top.left
  /\ stack' = Taken(".")
  /\ fullpath' = top.dp /\ slash' = FALSE
  /\ pc' = "stat"
  /\ UNCHANGED <<files, pathlen, startLen, count, seen, missed>>

\* "ignore dot and dot-dot"
SkipDots ==
  /\ pc = "read"
  /\ \E x \in top.left \cap {".", ".."} : stack' = Taken(x)
  /\ UNCHANGED <<files, pc, fullpath, slash, pathlen, startLen, count, seen, missed>>

\* A position in front of the directory's own name.
AppendNameOver(n, x) == Append(SubSeq(fullpath, 1, n - 1), x)

\* strcpy(&fullpath[n], dirp->d_name)
AppendName(n, x) == Append(SubSeq(fullpath, 1, n), x)

\* A file removed since opendir() may still be returned.
ReadEntry ==
  /\ pc = "read"
  /\ \E x \in top.left \cap Name :
       /\ stack' = Taken(x)
       /\ fullpath' = AppendName(top.n, x)
  /\ slash' = FALSE
  /\ pc' = "stat"
  /\ UNCHANGED <<files, pathlen, startLen, count, seen, missed>>

\* readdir() returns NULL when it has returned each name that still exists;
\* "erase everything from slash onward" and closedir().
CloseDirectory ==
  /\ pc = "read" /\ top.left \cap (Entries(top.dp) \cup {".", ".."}) = {}
  /\ fullpath' = SubSeq(fullpath, 1, top.n) /\ slash' = FALSE
  /\ stack' = Front(stack)
  /\ pc' = Return(Front(stack))
  /\ UNCHANGED <<files, pathlen, startLen, count, seen, missed>>

\* Other programs.  Whether a directory being read returns a new name is open.
Change(p) ==
  /\ changes < MaxChanges /\ pc \notin {"start", "done"}
  /\ changes' = changes + 1
  /\ touched' = touched \cup {p}
  /\ UNCHANGED <<pc, fullpath, slash, pathlen, startLen, count, seen, missed>>

Create(p, kind) ==
  /\ p # <<>> /\ p \notin DOMAIN tree /\ IsDir(Parent(p))
  /\ Change(p)
  /\ tree' = [q \in DOMAIN tree \cup {p} |-> IF q = p THEN kind ELSE tree[q]]
  /\ \E returned \in SUBSET {i \in DOMAIN stack : stack[i].dp = Parent(p)} :
       stack' = [i \in DOMAIN stack |->
                   IF i \in returned THEN [stack[i] EXCEPT !.left = @ \cup {Last(p)}]
                                     ELSE stack[i]]

Delete(p) ==
  /\ p \in DOMAIN tree /\ p # <<>> /\ Entries(p) = {}
  /\ Change(p)
  /\ tree' = [q \in DOMAIN tree \ {p} |-> tree[q]]
  /\ UNCHANGED stack

Init ==
  /\ tree \in Tree /\ changes = 0 /\ touched = {}
  /\ startLen \in StartLen
  /\ pc = "start" /\ fullpath = <<>> /\ slash = FALSE /\ pathlen = 0 /\ stack = <<>>
  /\ count = [k \in Kind \cup {"dir"} |-> 0]
  /\ seen = [p \in Path |-> 0] /\ missed = {}

Walk ==
  \/ Myftw \/ StatFails \/ CountFile \/ CountDirectory
  \/ OpenDirectory \/ OpenFails \/ SkipDots \/ ReadEntry \/ CloseDirectory

Next ==
  \/ Walk
  \/ \E p \in Path : Delete(p) \/ \E k \in Kind \cup {"dir"} : Create(p, k)

\* The walk is scheduled; nobody has to change a file.
Spec == Init /\ [][Next]_vars /\ WF_vars(Walk)

-----------------------------------------------------------------------------
(* Properties                                                              *)

Frame == [n: 0..MaxDepth, dp: Path, left: SUBSET (Name \cup {".", ".."})]

TypeOK ==
  /\ tree \in [DOMAIN tree -> Kind \cup {"dir"}] /\ DOMAIN tree \subseteq Path
  /\ pc \in {"start", "stat", "open", "read", "done"}
  /\ fullpath \in Path /\ slash \in BOOLEAN /\ pathlen \in Nat
  /\ stack \in Seq(Frame) /\ (pc = "read" => stack # <<>>)
  /\ count \in [Kind \cup {"dir"} -> Nat] /\ seen \in [Path -> Nat]
  /\ missed \subseteq Path /\ touched \subseteq Path

\* What is in the buffer fits with its end, for any names, however deep: one
\* doubling is enough because the path of a directory that lstat() finds is
\* no longer than PATH_MAX, or than the buffer already was.
FullpathFits == pc # "start" => PathLength + 1 <= pathlen

\* Each level finds its own directory's path in front of position n of the
\* shared buffer, whatever inner calls wrote, left behind or moved.
LevelsShareThePath ==
  \A i \in DOMAIN stack :
    SubSeq(fullpath, 1, stack[i].n) = stack[i].dp

Undisturbed(p) == Prefixes(p) \cap touched = {}

\* A file that nobody touched, nor a directory above it, is not counted twice,
\* and at the end it has been counted, unless the walk complained about it
\* (when it is a file) or about a directory above it.
CountedOnce ==
  \A p \in Path : Undisturbed(p) =>
    /\ seen[p] <= 1
    /\ pc = "done" /\ p \in DOMAIN tree /\ Prefixes(p) \cap missed = {} => seen[p] = 1

\* Whatever other programs do to the tree, the walk stays within its buffer,
\* keeps its place and counts what they leave alone.
WalkIsRight ==
  /\ TypeOK /\ FullpathFits
  /\ LevelsShareThePath /\ CountedOnce
=============================================================================
