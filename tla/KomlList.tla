------------------------------- MODULE KomlList -------------------------------
(***************************************************************************)
(* The program koml: class StudentLinkedList, a list of students by name,  *)
(* on the heap.  One action per option of the menu.                        *)
(***************************************************************************)
EXTENDS Integers, Sequences, FiniteSetsExt, SequencesExt

CONSTANTS
  Student,  \* addresses of students
  Name, Grade

nullptr == 0

\* No name is the null pointer that stands for none.
KomlAssumption == Student \subseteq Nat \ {0} /\ nullptr \notin Name

Pointer == Student \cup {nullptr}

VARIABLES
  root,
  name,   \* of each student; nullptr where there is none
  grade,
  next,
  wild    \* a null pointer was dereferenced

vars == <<root, name, grade, next, wild>>

Used == {s \in Student : name[s] # nullptr}

\* The students from p on, and those before the first one named n.
From(p) ==
  LET on[s \in Pointer] == IF s = nullptr THEN <<>> ELSE <<s>> \o on[next[s]]
  IN  on[p]
Chain == From(root)
\* The search that goes on to the last one of the name.
LastNamed(s, n) ==
  \E i \in DOMAIN Chain :
    Chain[i] = s /\ name[s] = n /\ \A j \in i+1..Len(Chain) : name[Chain[j]] # n

FirstNamed(s, n) ==
  \E i \in DOMAIN Chain :
    Chain[i] = s /\ name[s] = n /\ \A j \in 1..i-1 : name[Chain[j]] # n

Add(n, g) ==
  /\ ~wild /\ Used # Student
  /\ LET stud == Min(Student \ Used)
     IN  /\ root' = stud
         /\ name' = [name EXCEPT ![stud] = n]
         /\ grade' = [grade EXCEPT ![stud] = g]
         /\ next' = [next EXCEPT ![stud] = root]
  /\ UNCHANGED wild

\* remove() that deletes the student before it asks for the next one: what it
\* reads then may be anything, here -1.
RemoveAfterDelete(n) ==
  /\ ~wild /\ root # nullptr
  /\ \E s \in Used :
       /\ FirstNamed(s, n)
       /\ root' = IF s = root THEN -1 ELSE root
       /\ name' = [name EXCEPT ![s] = nullptr]
       /\ grade' = [grade EXCEPT ![s] = nullptr]
       /\ next' = [p \in Student |-> IF p = s THEN nullptr
                                     ELSE IF next[p] = s THEN -1 ELSE next[p]]
  /\ UNCHANGED wild

\* remove() that relinks to the student it deletes.
RemoveUnlinked(n) ==
  /\ ~wild /\ root # nullptr
  /\ \E s \in Used :
       /\ FirstNamed(s, n)
       /\ root' = IF s = root THEN next[s] ELSE root
       /\ name' = [name EXCEPT ![s] = nullptr]
       /\ grade' = [grade EXCEPT ![s] = nullptr]
       /\ next' = [next EXCEPT ![s] = nullptr]
  /\ UNCHANGED wild

\* The first student of the name goes; remove() of an empty list asks a null
\* pointer for its next.
RemoveStudent(n) ==
  /\ ~wild
  /\ \/ /\ root = nullptr
        /\ wild' = TRUE
        /\ UNCHANGED <<root, name, grade, next>>
     \/ /\ root # nullptr
        /\ \E s \in Used :
             /\ FirstNamed(s, n)
             /\ root' = IF s = root THEN next[s] ELSE root
             /\ name' = [name EXCEPT ![s] = nullptr]
             /\ grade' = [grade EXCEPT ![s] = nullptr]
             /\ next' = [p \in Student |-> IF p = s THEN nullptr
                                           ELSE IF next[p] = s THEN next[s] ELSE next[p]]
        /\ UNCHANGED wild

Update(n, g) ==
  /\ ~wild
  /\ \E s \in Used : FirstNamed(s, n) /\ grade' = [grade EXCEPT ![s] = g]
  /\ UNCHANGED <<root, name, next, wild>>

Init ==
  /\ root = nullptr
  /\ name = [s \in Student |-> nullptr]
  /\ grade = [s \in Student |-> nullptr]
  /\ next = [s \in Student |-> nullptr]
  /\ wild = FALSE

Next ==
  \E n \in Name :
    \/ RemoveStudent(n)
    \/ \E g \in Grade : Add(n, g)
    \/ \E g \in Grade : Update(n, g)

Spec == Init /\ [][Next]_vars

-----------------------------------------------------------------------------
(* Properties                                                              *)

TypeOK ==
  /\ root \in Pointer /\ next \in [Student -> Pointer]
  /\ name \in [Student -> Name \cup {nullptr}]
  /\ grade \in [Student -> Grade \cup {nullptr}]
  /\ wild \in BOOLEAN

\* The links lead from root through every student there is, each once, and to
\* no deleted one: nobody is leaked, nobody is freed while still linked.
ChainIsSound ==
  /\ root \in Used \cup {nullptr} /\ \A s \in Used : next[s] \in Used \cup {nullptr}
  /\ Range(Chain) = Used /\ IsInjective(Chain)

\* The heap is a list: a removal takes the first student of the name and keeps
\* the others in their order, an update changes that student and no other, and
\* the only crash is a removal from the empty list.
R == INSTANCE Roster WITH
       Key <- Name, crashed <- wild,
       list <- [i \in DOMAIN Chain |-> [key |-> name[Chain[i]], grade |-> grade[Chain[i]]]]

\* The students in use are one list.
ListIsRight == TypeOK /\ ChainIsSound
=============================================================================
