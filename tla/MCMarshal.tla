----------------------------- MODULE MCMarshal ------------------------------
(* Marshal and Payload for model checking.  Each is checked by itself: one   *)
(* moves only while the other is in its initial state.                       *)
EXTENDS Marshal, Payload

MCInit == Init /\ PayInit
MCNext ==
    \/ PayInit /\ call = (CHOOSE c \in Calls : TRUE) /\ Next /\ UNCHANGED payVars
    \/ Init /\ PayNext /\ UNCHANGED vars
MCSpec == MCInit /\ [][MCNext]_<< vars, payVars >>

\* Calls over TCP, in C++ and Python, and over DPDK; and those in C++ only.
AllCalls == ({"marshal", "python"} \X {"marshal", "python"}) \cup {<< "transport", "transport" >>}
TcpCalls == {<< "marshal", "marshal" >>}
=============================================================================
