------------------------------- MODULE Queues -------------------------------
(* Families of FIFO queues Q, functions from a set of places to sequences. *)
EXTENDS Functions

\* The elements some queue of the family holds.
Held(Q) == UNION {Range(Q[a]) : a \in DOMAIN Q}

\* No queue of the family holds an element twice, and no two hold the same.
Separate(Q) ==
  \A a \in DOMAIN Q :
    /\ IsInjective(Q[a])
    /\ \A b \in DOMAIN Q \ {a} : Range(Q[a]) \cap Range(Q[b]) = {}
=============================================================================
