-------------------------------- MODULE Lists --------------------------------
(***************************************************************************)
(* The two programs that keep students in a linked list on the heap: koml  *)
(* and vision/Student_Linked_List.  They share nothing but a state space:  *)
(* program says which of them runs, and the variables of the other are     *)
(* Off.  Each is an instance of its own module.                            *)
(***************************************************************************)
EXTENDS Integers

CONSTANTS
  Student, Name, Grade,     \* KomlList
  Record, Roll, Mark        \* VisionList

VARIABLES
  program,
  root, name, grade, next, wild,
  pc, failed, ch, hptr, roll, mark, link

Off == "off"

Koml == INSTANCE KomlList
Vis == INSTANCE VisionList WITH
         St <- Record, Grade <- Mark, grade <- mark, next <- link

ASSUME ListsAssumption == Koml!KomlAssumption /\ Vis!VisionAssumption

kml == <<root, name, grade, next, wild>>
vis == <<pc, failed, ch, hptr, roll, mark, link>>
vars == <<program, kml, vis>>

KomlList == program = "KomlList"
VisionList == program = "VisionList"

KomlOff ==
  root = Off /\ name = Off /\ grade = Off /\ next = Off /\ wild = Off
VisOff ==
  /\ pc = Off /\ failed = Off /\ ch = Off
  /\ hptr = Off /\ roll = Off /\ mark = Off /\ link = Off

Init ==
  \/ program = "KomlList" /\ Koml!Init /\ VisOff
  \/ program = "VisionList" /\ Vis!Init /\ KomlOff

Next ==
  \/ KomlList /\ Koml!Next /\ UNCHANGED <<program, vis>>
  \/ VisionList /\ Vis!Next /\ UNCHANGED <<program, kml>>

Spec == Init /\ [][Next]_vars

-----------------------------------------------------------------------------
(* The properties of the modules                                           *)

\* Those in use are one list: nobody is leaked, nobody is freed while linked.
ListsAreRight ==
  /\ KomlList => Koml!ListIsRight
  /\ VisionList => Vis!ListIsRight

\* koml's list implements a roster with the new ones first, that of vision one
\* with the new ones last, frozen by the first input that is not numeric.
ImplementRosters ==
  /\ KomlList => Koml!R!Init
  /\ VisionList => Vis!R!Init
  /\ [][KomlList => [Koml!R!NextFirst]_(Koml!R!vars)]_vars
  /\ [][VisionList => [Vis!R!NextLast]_(Vis!R!vars) /\ Vis!FrozenStep]_vars
=============================================================================
