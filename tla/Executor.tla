------------------------------ MODULE Executor ------------------------------
(***************************************************************************)
(* What base::ThreadPool promises its users, without threads or queues: a  *)
(* job that was accepted is run exactly once before the pool is gone, and   *)
(* jobs are refused only when the pool is closing.                         *)
(***************************************************************************)
EXTENDS Naturals

CONSTANT Jobs

VARIABLES
    life,      \* whether the pool is open, closing or closed
    accepted,  \* jobs for which run_async returned 0
    refused,   \* jobs for which it returned EPERM
    runs       \* how often each job was run

vars == << life, accepted, refused, runs >>

Init == life = "open" /\ accepted = {} /\ refused = {} /\ runs = [j \in Jobs |-> 0]

\* A job that has passed the test of should_stop_ may come in late.
Accept(j) ==
    /\ life # "closed" /\ j \notin accepted \cup refused
    /\ accepted' = accepted \cup {j}
    /\ UNCHANGED << life, refused, runs >>

Refuse(j) ==
    /\ life = "closing" /\ j \notin accepted \cup refused
    /\ refused' = refused \cup {j}
    /\ UNCHANGED << life, accepted, runs >>

Run(j) ==
    /\ life # "closed" /\ j \in accepted /\ runs[j] = 0
    /\ runs' = [runs EXCEPT ![j] = 1]
    /\ UNCHANGED << life, accepted, refused >>

BeginClose == life = "open" /\ life' = "closing" /\ UNCHANGED << accepted, refused, runs >>

Close ==
    /\ life = "closing" /\ \A j \in accepted : runs[j] = 1
    /\ life' = "closed"
    /\ UNCHANGED << accepted, refused, runs >>

Next == BeginClose \/ Close \/ \E j \in Jobs : Accept(j) \/ Refuse(j) \/ Run(j)

Spec == Init /\ [][Next]_vars
=============================================================================
