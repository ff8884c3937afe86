------------------------------ MODULE MCMemory ------------------------------
(* Six bytes of RAM; a request of seven never fits. *)
EXTENDS Memory, TLC

Perms == Permutations(Node)
MCRequestSize == {0, 1, 2, 3, 6, 7}

\* Only the type invariant says something of a damaged list: of the ways to
\* damage one, root left at a deleted object is followed further.
Explored == damage \subseteq {"head"}
=============================================================================
