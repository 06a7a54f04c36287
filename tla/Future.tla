------------------------------- MODULE Future -------------------------------
(***************************************************************************)
(* rrr::Future (src/src/rpc/client.{hpp,cpp}): threads block in wait() or   *)
(* timed_wait() while the poll thread stores the reply and calls           *)
(* notify_ready(), which handle_read() or invalidate_pending_futures() does *)
(* once per future (see TcpClient).                                        *)
(*                                                                         *)
(* ready_m_ makes each critical section one step; what the code does after *)
(* unlocking is a step of its own.  A thread in pthread_cond_wait is woken *)
(* by the signal, spuriously, or, in timed_wait, because its time is over; *)
(* it then has to take the mutex again, and others may run in between.     *)
(***************************************************************************)
EXTENDS Naturals

CONSTANTS
    Waiters,       \* threads that call wait() on the future
    TimedWaiters,  \* threads that call timed_wait()
    Callback,      \* attr_.callback != nullptr
    Spurious       \* threads whose pthread_cond_wait may return without a signal

Threads == Waiters \cup TimedWaiters

ASSUME FutureAssumption ==
    /\ Waiters \cap TimedWaiters = {}
    /\ Callback \in BOOLEAN
    /\ Spurious \subseteq Threads

VARIABLES
    ready,       \* ready_
    timed_out,   \* timed_out_
    error_code,  \* error_code_: 0, ETIMEDOUT or the server's code
    reply,       \* reply_ holds the server's bytes
    th,          \* where each thread is
    delivery,    \* where the poll thread is in the delivery of the reply
    calls        \* how often attr_.callback was called

vars == << ready, timed_out, error_code, reply, th, delivery, calls >>

Codes == {"none", "server", "ETIMEDOUT"}

TypeOK ==
    /\ ready \in BOOLEAN /\ timed_out \in BOOLEAN /\ reply \in BOOLEAN
    /\ error_code \in Codes
    /\ th \in [Threads -> {"start", "blocked", "woken", "expired", "unlocked", "returned"}]
    /\ delivery \in {"none", "stored", "notified", "done"}
    /\ calls \in Nat

Init ==
    /\ ready = FALSE /\ timed_out = FALSE /\ reply = FALSE
    /\ error_code = "none"
    /\ th = [t \in Threads |-> "start"]
    /\ delivery = "none"
    /\ calls = 0

CallBack == calls' = IF Callback THEN calls + 1 ELSE calls

-----------------------------------------------------------------------------
\* handle_read: error_code_ and reply_ are written without ready_m_.
StoreReply ==
    /\ delivery = "none"
    /\ error_code' = "server" /\ reply' = TRUE
    /\ delivery' = "stored"
    /\ UNCHANGED << ready, timed_out, th, calls >>

\* notify_ready, the locked part: pthread_cond_signal wakes one waiter.
NotifyReady ==
    /\ delivery = "stored"
    /\ ready' = (ready \/ ~timed_out)
    /\ \/ \E t \in Threads : th[t] = "blocked" /\ th' = [th EXCEPT ![t] = "woken"]
       \/ (\A t \in Threads : th[t] # "blocked") /\ th' = th
    /\ delivery' = "notified"
    /\ UNCHANGED << timed_out, error_code, reply, calls >>

\* notify_ready after the unlock: if (ready_ && callback) callback(this).
NotifyCallback ==
    /\ delivery = "notified"
    /\ IF ready THEN CallBack ELSE calls' = calls
    /\ delivery' = "done"
    /\ UNCHANGED << ready, timed_out, error_code, reply, th >>

-----------------------------------------------------------------------------
\* Fault: `if` instead of `while`.
TestOnce(t) ==
    /\ th[t] \in {"start", "woken"}
    /\ th' = [th EXCEPT ![t] = IF th[t] = "start" /\ ~ready /\ ~timed_out
                               THEN "blocked" ELSE "unlocked"]
    /\ UNCHANGED << ready, timed_out, error_code, reply, delivery, calls >>

\* wait and timed_wait: the test of the loop, on entry and after each wake-up.
Test(t) ==
    /\ th[t] \in {"start", "woken"}
    /\ th' = [th EXCEPT ![t] = IF ~ready /\ ~timed_out THEN "blocked" ELSE "unlocked"]
    /\ UNCHANGED << ready, timed_out, error_code, reply, delivery, calls >>

\* pthread_cond_wait may return without a signal.
SpuriousWakeup(t) ==
    /\ t \in Spurious /\ th[t] = "blocked"
    /\ th' = [th EXCEPT ![t] = "woken"]
    /\ UNCHANGED << ready, timed_out, error_code, reply, delivery, calls >>

\* pthread_cond_timedwait gives up; the mutex is not taken yet.
Expire(t) ==
    /\ t \in TimedWaiters /\ th[t] = "blocked"
    /\ th' = [th EXCEPT ![t] = "expired"]
    /\ UNCHANGED << ready, timed_out, error_code, reply, delivery, calls >>

\* ret == ETIMEDOUT, with the mutex: timed_out_ = true, and the loop ends.
TimeOut(t) ==
    /\ th[t] = "expired"
    /\ timed_out' = TRUE
    /\ th' = [th EXCEPT ![t] = "unlocked"]
    /\ UNCHANGED << ready, error_code, reply, delivery, calls >>

\* Fault: the time-out is not reported to the callback.
ReturnSilently(t) ==
    /\ th[t] = "unlocked"
    /\ th' = [th EXCEPT ![t] = "returned"]
    /\ error_code' = IF t \in TimedWaiters /\ timed_out THEN "ETIMEDOUT" ELSE error_code
    /\ UNCHANGED << ready, timed_out, reply, delivery, calls >>

\* After the unlock: wait returns; timed_wait looks at timed_out_ again.
Return(t) ==
    /\ th[t] = "unlocked"
    /\ th' = [th EXCEPT ![t] = "returned"]
    /\ IF t \in TimedWaiters /\ timed_out
       THEN error_code' = "ETIMEDOUT" /\ CallBack
       ELSE UNCHANGED << error_code, calls >>
    /\ UNCHANGED << ready, timed_out, reply, delivery >>

Finished == delivery = "done" /\ (\A t \in Threads : th[t] = "returned") /\ UNCHANGED vars

Step(t) == Test(t) \/ SpuriousWakeup(t) \/ Expire(t) \/ TimeOut(t) \/ Return(t)

Deliver == StoreReply \/ NotifyReady \/ NotifyCallback

Next == Deliver \/ (\E t \in Threads : Step(t)) \/ Finished

\* A woken thread gets the mutex, a time-out expires, and the poll thread ends
\* what it began.  Neither a reply nor a spurious wake-up is owed.
Fairness ==
    /\ WF_vars(NotifyReady \/ NotifyCallback)
    /\ \A t \in Threads : WF_vars(Test(t) \/ TimeOut(t) \/ Return(t)) /\ WF_vars(Expire(t))

Spec == Init /\ [][Next]_vars
FairSpec == Spec /\ Fairness

-----------------------------------------------------------------------------
(* Properties *)

\* wait() and timed_wait() return only when the future is decided.  Unless it timed
\* out, a thread that returned finds the reply and the server's code: handle_read
\* stores both before notify_ready publishes them.
ReturnsDecided ==
    /\ TypeOK
    /\ \A t \in Threads : th[t] \in {"unlocked", "returned"} => ready \/ timed_out
    /\ (\E t \in Threads : th[t] = "returned") /\ ~timed_out => error_code = "server" /\ reply

\* The callback is never lost, whether or not a reply arrives: when notify_ready
\* finds the future timed out and stays silent, the thread that timed out calls it.
CallbackHappens == Callback => <>(calls > 0)
=============================================================================
