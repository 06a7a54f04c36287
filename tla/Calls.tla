-------------------------------- MODULE Calls --------------------------------
(***************************************************************************)
(* What rrr::Client promises the threads that make calls on a connection:   *)
(* every call has an xid of its own, and is decided once, by the server's   *)
(* answer to that very call, or with ENOTCONN when the client was closed.   *)
(***************************************************************************)
EXTENDS Naturals

CONSTANTS Callers, Xids

VARIABLES
    call,     \* the call each caller waits for, or 0
    result,   \* what its future says: "no", "reply" or "ENOTCONN"
    over,     \* calls that have returned, or were never made
    answered, \* calls the server has answered
    down      \* the client was closed

vars == << call, result, over, answered, down >>

Init ==
    /\ call = [c \in Callers |-> 0] /\ result = [c \in Callers |-> "no"]
    /\ over = {} /\ answered = {} /\ down = FALSE

\* A call that is made when the client is being closed may be decided already.
Make(c, x) ==
    /\ call[c] = 0 /\ x \notin over /\ \A d \in Callers : call[d] # x
    /\ call' = [call EXCEPT ![c] = x]
    /\ \/ result' = result
       \/ down /\ result' = [result EXCEPT ![c] = "ENOTCONN"]
    /\ UNCHANGED << over, answered, down >>

\* begin_request has returned no future.
Refuse(x) ==
    /\ down /\ \A c \in Callers : call[c] # x
    /\ over' = over \cup {x}
    /\ UNCHANGED << call, result, answered, down >>

Answer(x) ==
    /\ \E c \in Callers : call[c] = x
    /\ answered' = answered \cup {x}
    /\ UNCHANGED << call, result, over, down >>

Decide(c) ==
    /\ call[c] # 0 /\ result[c] = "no"
    /\ \/ call[c] \in answered /\ result' = [result EXCEPT ![c] = "reply"]
       \/ down /\ result' = [result EXCEPT ![c] = "ENOTCONN"]
    /\ UNCHANGED << call, over, answered, down >>

Return(c) ==
    /\ call[c] # 0 /\ result[c] # "no"
    /\ call' = [call EXCEPT ![c] = 0] /\ result' = [result EXCEPT ![c] = "no"]
    /\ over' = over \cup {call[c]}
    /\ UNCHANGED << answered, down >>

GoDown == ~down /\ down' = TRUE /\ UNCHANGED << call, result, over, answered >>

Next ==
    \/ GoDown
    \/ \E x \in Xids : Refuse(x) \/ Answer(x)
    \/ \E c \in Callers : Decide(c) \/ Return(c) \/ \E x \in Xids : Make(c, x)

Spec == Init /\ [][Next]_vars
==============================================================================
