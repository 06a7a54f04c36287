------------------------------ MODULE MCDeferred -----------------------------
(* RunLater, Recorder and RLog for model checking, each by itself.            *)
EXTENDS RunLater, Recorder, RLog

VARIABLE which

mcVars == << laterVars, recVars, rlogVars, which >>
Later(A) == which = "RunLater" /\ A /\ UNCHANGED << recVars, rlogVars, which >>
Recording(A) == which = "Recorder" /\ A /\ UNCHANGED << laterVars, rlogVars, which >>
Logging(A) == which = "RLog" /\ A /\ UNCHANGED << laterVars, recVars, which >>

MCInit == LaterInit /\ RecInit /\ RLogInit /\ which \in {"RunLater", "Recorder", "RLog"}
MCNext == Later(LaterNext) \/ Recording(RecNext) \/ Logging(RLogNext)
MCSpec == MCInit /\ [][MCNext]_mcVars

\* Time goes on, threads are scheduled, timed waits end and functions return.
MCFairSpec ==
    /\ MCSpec
    /\ WF_mcVars(Later(Tick)) /\ WF_mcVars(Later(LaterLoop)) /\ WF_mcVars(Later(Dtor))
    /\ \A c \in Callers : WF_mcVars(Later(Calling(c)))
    /\ WF_mcVars(Recording(Elapse)) /\ WF_mcVars(Recording(SubmitPush))
    /\ WF_mcVars(Recording(Flush)) /\ WF_mcVars(Recording(Invoke \/ Trigger))
==============================================================================
