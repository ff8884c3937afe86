------------------------------ MODULE VisionList ------------------------------
(***************************************************************************)
(* The program vision/Student_Linked_List: a list of students by roll      *)
(* number, new ones last, and the loop of its menu with the state of cin.  *)
(* One action per round of the loop.  A name is never looked at.           *)
(***************************************************************************)
EXTENDS Integers, Sequences, FiniteSetsExt, SequencesExt

CONSTANTS
  St,      \* addresses of records
  Roll, Grade

Pointer == St \cup {0}
Unset == 0  \* what a field holds when nothing was read into it

\* The code only compares roll numbers with one another: any values stand for
\* them, but the one that marks a record as free.
VisionAssumption == St \subseteq Nat \ {0} /\ Unset \notin Roll

VARIABLES
  pc,      \* "menu" or "ended"
  failed,  \* cin.fail(), which nothing clears
  ch,      \* main()'s ch, uninitialised at first
  hptr,
  roll, grade, next  \* of each record; roll is Unset where there is none

heap == <<hptr, roll, grade, next>>
vars == <<pc, failed, ch, heap>>

Used == {s \in St : roll[s] # Unset}
From(p) ==
  LET on[s \in Pointer] == IF s = 0 THEN <<>> ELSE <<s>> \o on[next[s]]
  IN  on[p]
Chain == From(hptr)
FirstOf(s, r) ==
  \E i \in DOMAIN Chain :
    Chain[i] = s /\ roll[s] = r /\ \A j \in 1..i-1 : roll[Chain[j]] # r

\* The rest of the round after a switch that failed or did not: a stream that
\* has failed leaves ch as it was, and so does the end of the input.
Continue(failure) ==
  /\ \/ ~failure /\ failed' = FALSE /\ ch' \in {"y", "n"}
     \/ failed' = TRUE /\ UNCHANGED ch
  /\ pc' = IF ch' = "y" THEN "menu" ELSE "ended"

\* A round in which nothing is done: an invalid option, a display, a search,
\* a roll number nobody has, or one that is not numeric.
NoChange ==
  /\ pc = "menu" /\ ~failed
  /\ \E failure \in BOOLEAN : Continue(failure)
  /\ UNCHANGED heap

\* A menu that starts with cin.clear().
ClearedRound ==
  /\ pc = "menu" /\ failed
  /\ \E failure \in BOOLEAN : Continue(failure)
  /\ UNCHANGED heap

\* A round with a stream that has failed: every read fails, opt keeps its
\* value, and whichever function is called returns at "Not numeric".
FailedRound ==
  /\ pc = "menu" /\ failed
  /\ Continue(TRUE)
  /\ UNCHANGED heap

\* addStudent() that hangs the record to hptr, whoever comes after it.
AddStudentAtHead(r) ==
  /\ pc = "menu" /\ ~failed /\ Used # St
  /\ \E failure \in BOOLEAN, g \in Grade :
       LET temp == Min(St \ Used)
       IN  /\ roll' = [roll EXCEPT ![temp] = r]
           /\ grade' = [grade EXCEPT ![temp] = IF failure THEN Unset ELSE g]
           /\ hptr' = IF hptr = 0 THEN temp ELSE hptr
           /\ next' = IF hptr = 0 THEN next ELSE [next EXCEPT ![hptr] = temp]
           /\ Continue(failure)

\* addStudent() does not ask whether the name and the grade could be read.
AddStudent(r) ==
  /\ pc = "menu" /\ ~failed /\ Used # St
  /\ \E failure \in BOOLEAN, g \in Grade :
       LET temp == Min(St \ Used)
       IN  /\ roll' = [roll EXCEPT ![temp] = r]
           /\ grade' = [grade EXCEPT ![temp] = IF failure THEN Unset ELSE g]
           /\ hptr' = IF hptr = 0 THEN temp ELSE hptr
           /\ next' = IF hptr = 0 THEN next ELSE [next EXCEPT ![Last(Chain)] = temp]
           /\ Continue(failure)

\* delete_student() of the record after the one with the number.
DeleteNext(r) ==
  /\ pc = "menu" /\ ~failed
  /\ \E s \in Used :
       /\ FirstOf(s, r)
       /\ next[s] # 0
       /\ LET gone == next[s]
          IN  /\ next' = [next EXCEPT ![s] = next[gone], ![gone] = 0]
              /\ roll' = [roll EXCEPT ![gone] = Unset]
              /\ grade' = [grade EXCEPT ![gone] = Unset]
  /\ UNCHANGED hptr
  /\ Continue(FALSE)

DeleteStudent(r) ==
  /\ pc = "menu" /\ ~failed
  /\ \E s \in Used :
       /\ FirstOf(s, r)
       /\ hptr' = IF s = hptr THEN next[s] ELSE hptr
       /\ next' = [p \in St |-> IF p = s THEN 0
                                ELSE IF next[p] = s THEN next[s] ELSE next[p]]
       /\ roll' = [roll EXCEPT ![s] = Unset]
       /\ grade' = [grade EXCEPT ![s] = Unset]
  /\ Continue(FALSE)

\* update(): a grade that cannot be read leaves the old one.
Update(r) ==
  /\ pc = "menu" /\ ~failed
  /\ \E s \in Used :
       /\ FirstOf(s, r)
       /\ \/ \E g \in Grade : grade' = [grade EXCEPT ![s] = g] /\ Continue(FALSE)
          \/ UNCHANGED grade /\ Continue(TRUE)
  /\ UNCHANGED <<hptr, roll, next>>

Init ==
  /\ pc = "menu" /\ failed = FALSE
  /\ ch \in {"y", "n"}
  /\ hptr = 0
  /\ roll = [s \in St |-> Unset]
  /\ grade = [s \in St |-> Unset]
  /\ next = [s \in St |-> 0]

Next ==
  \/ NoChange
  \/ FailedRound
  \/ \E r \in Roll : AddStudent(r) \/ DeleteStudent(r) \/ Update(r)

Spec == Init /\ [][Next]_vars

-----------------------------------------------------------------------------
(* Properties                                                              *)

TypeOK ==
  /\ pc \in {"menu", "ended"} /\ failed \in BOOLEAN /\ ch \in {"y", "n"}
  /\ hptr \in Pointer /\ next \in [St -> Pointer]
  /\ roll \in [St -> Roll \cup {Unset}] /\ grade \in [St -> Grade \cup {Unset}]

\* Every record is on the list, once, and no freed one is.
ChainIsSound ==
  /\ hptr \in Used \cup {0} /\ \A s \in Used : next[s] \in Used \cup {0}
  /\ Range(Chain) = Used /\ IsInjective(Chain)

\* The records are a list with the new ones last, of which a roll number means
\* the first; only a stream that fails in the middle of a record adds one
\* without a grade.
R == INSTANCE Roster WITH
       Key <- Roll, Grade <- Grade \cup {Unset}, crashed <- FALSE,
       list <- [i \in DOMAIN Chain |-> [key |-> roll[Chain[i]], grade |-> grade[Chain[i]]]]

\* A roll number that is not numeric freezes the program: nothing it keeps
\* ever changes again, and if the last answer was y, or ch happened to hold
\* one, the menu is repeated for ever, for nobody can say n to it.
FrozenStep == failed => failed' /\ UNCHANGED <<ch, heap>> /\ (ch = "y" => pc' = pc)

\* The records in use are one list.
ListIsRight == TypeOK /\ ChainIsSound
=============================================================================
