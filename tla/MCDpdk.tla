------------------------------- MODULE MCDpdk --------------------------------
(* Instances of Dpdk for model checking. *)
EXTENDS Dpdk

CONSTANTS a, b, c1

\* A client and a server, which has two threads.
OneFrom == [c \in {c1} |-> a]
OneTo == [c \in {c1} |-> b]
TwoThreads == [h \in {a, b} |-> IF h = b THEN 2 ELSE 1]
==============================================================================
