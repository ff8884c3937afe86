------------------------------ MODULE FirstFit ------------------------------
(***************************************************************************)
(* What a first-fit memory manager promises, byte by byte and without a    *)
(* list: a process gets a run of free bytes at the lowest address where    *)
(* one is long enough, keeps exactly those bytes until it ends, and then   *)
(* all of them are free again.                                             *)
(***************************************************************************)
EXTENDS Integers

CONSTANTS Process, NULL, maxVal, Size

VARIABLE owner   \* owner[b], the process byte b belongs to, or NULL

Byte == 0..(maxVal - 1)

\* The s bytes from a on exist and are free.
Run(a, s) == a + s <= maxVal /\ \A b \in a..(a + s - 1) : owner[b] = NULL

FitInit == owner = [b \in Byte |-> NULL]

Allocate(p, s) ==
  /\ \A b \in Byte : owner[b] # p
  /\ \E a \in Byte :
       /\ Run(a, s)
       /\ \A lower \in Byte : lower < a => ~Run(lower, s)
       /\ owner' = [b \in Byte |-> IF b \in a..(a + s - 1) THEN p ELSE owner[b]]

Release(p) ==
  /\ \E b \in Byte : owner[b] = p
  /\ owner' = [b \in Byte |-> IF owner[b] = p THEN NULL ELSE owner[b]]

FitNext ==
  \/ \E p \in Process, s \in Size : Allocate(p, s)
  \/ \E p \in Process : Release(p)
=============================================================================
