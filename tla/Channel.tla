------------------------------ MODULE Channel -------------------------------
(***************************************************************************)
(* What a connection's marshalling promises: packets come out whole, in the *)
(* order in which they were put in.                                        *)
(***************************************************************************)
EXTENDS Naturals, Sequences

VARIABLES sent, got

Init == sent = << >> /\ got = << >>

Send ==
    /\ Len(sent') = Len(sent) + 1 /\ SubSeq(sent', 1, Len(sent)) = sent
    /\ UNCHANGED got

Deliver ==
    /\ Len(got) < Len(sent)
    /\ got' = Append(got, sent[Len(got) + 1]) /\ UNCHANGED sent

Next == Send \/ Deliver
Spec == Init /\ [][Next]_<< sent, got >>
==============================================================================
