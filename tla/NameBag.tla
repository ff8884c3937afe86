------------------------------- MODULE NameBag -------------------------------
(***************************************************************************)
(* What class BST promises to its caller: a bag of names.  While the names *)
(* are in order, whoever is in the bag can be removed; a tree that was     *)
(* mirrored may hide a name from the search, but loses none.               *)
(***************************************************************************)
EXTENDS Naturals, Sequences, SequencesExt

CONSTANT Name
VARIABLES bag, straight

vars == <<bag, straight>>

Empty == [x \in Name |-> 0]
AddTo(b, x) == [b EXCEPT ![x] = @ + 1]

Init == bag = Empty /\ straight = TRUE

Add(x) == bag' = AddTo(bag, x) /\ UNCHANGED straight

TakeOut(x) ==
  /\ bag[x] > 0
  /\ bag' = [bag EXCEPT ![x] = @ - 1]
  /\ straight' \in {straight, straight \/ bag' = Empty}

\* "is not in the tree"
NotFound(x) ==
  /\ bag[x] = 0 \/ ~straight
  /\ UNCHANGED <<bag, straight>>

Clear == bag' = Empty /\ straight' = TRUE
Mirror == UNCHANGED bag /\ straight' \in BOOLEAN

AddAll == \E xs \in UNION {[1..k -> Name] : k \in 1..3} :
            bag' = FoldLeft(AddTo, bag, xs) /\ UNCHANGED straight

Next ==
  \/ \E x \in Name : Add(x) \/ TakeOut(x) \/ NotFound(x)
  \/ Clear \/ Mirror \/ AddAll

Spec == Init /\ [][Next]_vars
=============================================================================
