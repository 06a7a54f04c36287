------------------------------ MODULE Recorder ------------------------------
(***************************************************************************)
(* Recorder of misc/recorder.cpp: requests are collected in a list, a      *)
(* flush thread takes the list, writes its requests to a file and passes   *)
(* them on, and the poll thread, whose frequent job the recorder is, calls *)
(* their callbacks.  "ScopedLock(this->mtx_);" in submit names no object:  *)
(* the lock is free again when the list is found and appended to, so these *)
(* are two steps here, while what flush_buf and invoke_cb do under mtx_ is *)
(* one.  One thread submits.  A request stands for its bytes.              *)
(***************************************************************************)
EXTENDS Integers, Sequences, Functions

CONSTANT MaxReq \* bound: requests

ASSUME RecorderAssumption == MaxReq \in Nat

Reqs == 1 .. MaxReq
Lists == 1 .. MaxReq + 1

VARIABLES
    list,        \* the lists of requests that were made
    flush_reqs_, \* the list that collects requests
    sent,        \* requests given to submit
    onto,        \* the list that submit has found, or 0
    fpc,         \* where the flush thread is
    reqs, i,     \* its list, and how many requests of it are written
    file,        \* what was written
    durable,     \* how much of it fdatasync has stored
    poll,        \* where the poll thread is in run
    elapsed,     \* batch_time_ has gone by since timer_.start()
    callback_reqs_,
    called,      \* whose callback was called
    late         \* requests appended to a list that the flush thread had taken

flushVars == << fpc, reqs, i, file, durable >>
pollVars == << poll, elapsed >>
recVars == << list, flush_reqs_, sent, onto, flushVars, pollVars, callback_reqs_, called, late >>

RecTypeOK ==
    /\ list \in [Lists -> Seq(Reqs)] /\ flush_reqs_ \in Lists
    /\ sent \in 0 .. MaxReq /\ onto \in Lists \cup {0}
    /\ fpc \in {"wait", "take", "write", "move"} /\ reqs \in Lists /\ i \in Nat
    /\ file \in Seq(Reqs) /\ durable \in 0 .. Len(file)
    /\ poll \in {"invoke", "signal"} /\ elapsed \in BOOLEAN
    /\ callback_reqs_ \in Seq(Reqs) /\ called \in Seq(Reqs) /\ late \subseteq Reqs

RecInit ==
    /\ list = [l \in Lists |-> << >>] /\ flush_reqs_ = 1
    /\ sent = 0 /\ onto = 0
    /\ fpc = "wait" /\ reqs = 1 /\ i = 0 /\ file = << >> /\ durable = 0
    /\ poll = "invoke" /\ elapsed = FALSE /\ callback_reqs_ = << >> /\ called = << >> /\ late = {}

-----------------------------------------------------------------------------
(* submit *)

SubmitFind ==
    /\ onto = 0 /\ sent < MaxReq
    /\ sent' = sent + 1 /\ onto' = flush_reqs_
    /\ UNCHANGED << list, flush_reqs_, flushVars, pollVars, callback_reqs_, called, late >>

SubmitPush ==
    /\ onto # 0
    /\ list' = [list EXCEPT ![onto] = Append(@, sent)] /\ onto' = 0
    /\ late' = IF onto = flush_reqs_ THEN late ELSE late \cup {sent}
    /\ UNCHANGED << flush_reqs_, sent, flushVars, pollVars, callback_reqs_, called >>

-----------------------------------------------------------------------------
(* flush_loop and flush_buf *)

\* Fault: the list stays where submit finds it.
FlushTakeShared ==
    /\ fpc = "take" /\ i' = 0 /\ reqs' = flush_reqs_
    /\ fpc' = IF list[flush_reqs_] = << >> THEN "wait" ELSE "write"
    /\ UNCHANGED << list, flush_reqs_, sent, onto, file, durable, pollVars, callback_reqs_, called, late >>

FlushTake ==
    /\ fpc = "take" /\ i' = 0 /\ reqs' = flush_reqs_
    /\ IF list[flush_reqs_] = << >> THEN fpc' = "wait" /\ flush_reqs_' = flush_reqs_
       ELSE fpc' = "write" /\ flush_reqs_' = flush_reqs_ + 1
    /\ UNCHANGED << list, sent, onto, file, durable, pollVars, callback_reqs_, called, late >>

FlushWrite ==
    /\ fpc = "write" /\ i < Len(list[reqs])
    /\ file' = Append(file, list[reqs][i + 1]) /\ i' = i + 1
    /\ UNCHANGED << list, flush_reqs_, sent, onto, fpc, reqs, durable, pollVars, callback_reqs_, called, late >>

FlushSync ==
    /\ fpc = "write" /\ i = Len(list[reqs])
    /\ durable' = Len(file) /\ fpc' = "move"
    /\ UNCHANGED << list, flush_reqs_, sent, onto, reqs, i, file, pollVars, callback_reqs_, called, late >>

\* Fault: requests whose callbacks are still to be called are replaced.
FlushMoveOver ==
    /\ fpc = "move" /\ fpc' = "wait"
    /\ callback_reqs_' = list[reqs]
    /\ UNCHANGED << list, flush_reqs_, sent, onto, reqs, i, file, durable, pollVars, called, late >>

FlushMove ==
    /\ fpc = "move" /\ fpc' = "wait"
    /\ callback_reqs_' = callback_reqs_ \o list[reqs]
    /\ UNCHANGED << list, flush_reqs_, sent, onto, reqs, i, file, durable, pollVars, called, late >>

-----------------------------------------------------------------------------
(* FrequentJob::trigger and run, by the poll thread *)

\* invoke_cb
Invoke ==
    /\ poll = "invoke" /\ poll' = "signal"
    /\ called' = called \o callback_reqs_ /\ callback_reqs_' = << >>
    /\ UNCHANGED << list, flush_reqs_, sent, onto, flushVars, elapsed, late >>

Elapse == ~elapsed /\ elapsed' = TRUE /\ UNCHANGED << list, flush_reqs_, sent, onto, flushVars, poll, callback_reqs_, called, late >>

\* The signal is lost unless the flush thread waits for it.
Trigger ==
    /\ poll = "signal" /\ poll' = "invoke" /\ elapsed' = FALSE
    /\ fpc' = IF elapsed /\ fpc = "wait" THEN "take" ELSE fpc
    /\ UNCHANGED << list, flush_reqs_, sent, onto, reqs, i, file, durable, callback_reqs_, called, late >>

\* cd_flush_ has no condition: flush_buf looks for itself.
FlushWakeup ==
    /\ fpc = "wait" /\ fpc' = "take"
    /\ UNCHANGED << list, flush_reqs_, sent, onto, reqs, i, file, durable, pollVars, callback_reqs_, called, late >>

-----------------------------------------------------------------------------
Submit == SubmitFind \/ SubmitPush
Flush == FlushTake \/ FlushWrite \/ FlushSync \/ FlushMove
RecNext == Submit \/ Flush \/ FlushWakeup \/ Elapse \/ Invoke \/ Trigger

RecSpec == RecInit /\ [][RecNext]_recVars

-----------------------------------------------------------------------------
Increasing(s) == \A k \in 1 .. Len(s) - 1 : s[k] < s[k + 1]

\* Requests are written, and their callbacks called, at most once and in the order in
\* which they were submitted.  A callback means that its request is on disk ("callback
\* for successful flushed requests"), unless the request was appended to a list that
\* was being flushed already.
FlushedInOrder ==
    /\ RecTypeOK /\ Increasing(file) /\ Increasing(called \o callback_reqs_)
    /\ \A k \in DOMAIN called : called[k] \in late \cup Range(SubSeq(file, 1, durable))

\* The callback of every other request is called.
Flushed == \A r \in Reqs : sent >= r ~> (r \in Range(called) \/ r \in late)
=============================================================================
