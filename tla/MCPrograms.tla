----------------------------- MODULE MCPrograms ------------------------------
(* Values for the programs that share nothing.                             *)
EXTENDS Programs

\* Two names, one of a single character and one of the greatest length; an
\* argument of the program that fits and one that is longer than PATH_MAX.
MCNameLen == [a |-> 1, bbb |-> 3]

\* Files of no row and of two.
MCInitRows == {<<>>, << <<"t", "a">>, <<"s", "b">> >>}

\* End points on each side of an image of four rows and three columns.
MCCoord == -1..4

\* A disk with room for none of the six cells of a file up to all of them.
MCRoom == 0..7

\* An err of either sign.
MCInitialErr == {-1, 0, 1}
=============================================================================
