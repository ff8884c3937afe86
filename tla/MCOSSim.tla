------------------------------ MODULE MCOSSim ------------------------------
(* Three bytes of RAM, two priorities, one disk; index 1 is out of range. *)
EXTENDS OSSim, TLC

Perms == Permutations(Node)
MCSize == [d \in Device |-> 1]
MCRequestSize == 0..2
MCRawPriority == {1, 2}
MCRawIndex == {0, 1}
=============================================================================
