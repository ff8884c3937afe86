----------------------------- MODULE MCScheduler -----------------------------
(* Four processes over three of the five levels, one disk and two printers. *)
EXTENDS Scheduler

CONSTANTS harddisks, printers

MCSize == [d \in {harddisks, printers} |-> IF d = printers THEN 2 ELSE 1]
MCRawPriority == {0, 3, 7}   \* 7 is clamped to 4
MCRawIndex == 0..2           \* 2 is out of range for every device
=============================================================================
