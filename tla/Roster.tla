-------------------------------- MODULE Roster --------------------------------
(***************************************************************************)
(* What the two programs with a linked list of students promise: a list of *)
(* students, new ones first or last, of which a key finds the first.       *)
(***************************************************************************)
EXTENDS Naturals, Sequences, SequencesExt

CONSTANTS Key, Grade
VARIABLES list, crashed

vars == <<list, crashed>>

IsFirst(i, k) ==
  i \in DOMAIN list /\ list[i].key = k /\ \A j \in 1..i-1 : list[j].key # k

AddFirst(s) == list' = <<s>> \o list /\ UNCHANGED crashed
AddLast(s) == list' = Append(list, s) /\ UNCHANGED crashed

TakeOut(k) ==
  \E i \in DOMAIN list :
    /\ IsFirst(i, k)
    /\ list' = RemoveAt(list, i)
    /\ UNCHANGED crashed

Grades(k, g) ==
  \E i \in DOMAIN list :
    /\ IsFirst(i, k)
    /\ list' = [list EXCEPT ![i].grade = g]
    /\ UNCHANGED crashed

\* The list of koml cannot be asked to remove anybody while it is empty.
RemoveFromNone == list = <<>> /\ crashed' = TRUE /\ UNCHANGED list

Entry == [key: Key, grade: Grade]
Init == list = <<>> /\ crashed = FALSE
Change == \E k \in Key : TakeOut(k) \/ \E g \in Grade : Grades(k, g)
NextFirst == Change \/ RemoveFromNone \/ \E s \in Entry : AddFirst(s)
NextLast == Change \/ \E s \in Entry : AddLast(s)

SpecFirst == Init /\ [][NextFirst]_vars
SpecLast == Init /\ [][NextLast]_vars
=============================================================================
