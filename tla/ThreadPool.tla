----------------------------- MODULE ThreadPool -----------------------------
(***************************************************************************)
(* base::ThreadPool (src/src/base/threading.{hpp,cpp}): N worker threads,  *)
(* one locked queue each, round-robin submission, work stealing, and a     *)
(* destructor that posts one death pill (nullptr) per worker, joins the    *)
(* workers and runs what is left in the queues.                            *)
(*                                                                         *)
(* Threads interleave between any two critical sections of a Queue, and    *)
(* between run_async's test of should_stop_ and its push.  Callers of      *)
(* run_async are the owners of a reference to the pool (RefCounted: the    *)
(* destructor starts when the last of them releases) and the jobs          *)
(* themselves, which run on a worker or, for left-over jobs, on the        *)
(* destructor's thread and hold no reference.                              *)
(***************************************************************************)
EXTENDS Integers, Sequences, FiniteSets

CONSTANTS
    N,          \* n_: the number of workers and of queues
    Jobs,       \* the functions given to run_async; each is submitted once
    Owners,     \* the threads that hold a reference to the pool
    nullptr     \* no job; in a queue, the death pill

\* The constructor verifies n_ >= 0, but run_async computes next() % n_.
ASSUME PoolAssumption ==
    /\ N \in Nat \ {0}
    /\ nullptr \notin Jobs
    /\ Owners \cap (0..N) = {}

Worker == 0 .. N - 1
Dtor   == N                    \* the thread that runs ~ThreadPool
Thread == 0 .. N               \* the threads that execute jobs
Caller == Owners \cup Thread

VARIABLES
    q,            \* q_[i]: the queues, front first
    stage,        \* the worker's fallback stage, 0..4; 5 once it has left its loop
    untried,      \* stage 3: the queues of steal_order not tried yet
    running,      \* the job each thread is executing
    should_stop,  \* should_stop_
    round_robin,  \* round_robin_: Counter::next_
    holders,      \* the owners whose reference is not released
    callJob,      \* run_async past its test of should_stop_: the job it will push
    callQueue,    \* ... and the queue_id it drew
    dpc,          \* where ~ThreadPool is: live, pills, join, drain, done
    di,           \* ... and its loop index i
    accepted,     \* jobs that were queued (run_async returns 0)
    refused,      \* jobs for which run_async returned EPERM
    started       \* how often each job was invoked

vars == << q, stage, untried, running, should_stop, round_robin, holders,
           callJob, callQueue, dpc, di, accepted, refused, started >>

Exited == 5

\* One type invariant for the pool's state.
TypeOK ==
    /\ q \in [Worker -> Seq(Jobs \cup {nullptr})]
    /\ stage \in [Worker -> 0..Exited]
    /\ untried \in [Worker -> SUBSET Worker]
    /\ running \in [Thread -> Jobs \cup {nullptr}]
    /\ should_stop \in BOOLEAN
    /\ round_robin \in Nat
    /\ holders \in SUBSET Owners
    /\ callJob \in [Caller -> Jobs \cup {nullptr}]
    /\ callQueue \in [Caller -> Worker]
    /\ dpc \in {"live", "pills", "join", "drain", "done"}
    /\ di \in 0..N
    /\ accepted \in SUBSET Jobs
    /\ refused \in SUBSET Jobs
    /\ started \in [Jobs -> Nat]

Init ==
    /\ q = [w \in Worker |-> << >>]
    /\ stage = [w \in Worker |-> 0]
    /\ untried = [w \in Worker |-> {}]
    /\ running = [t \in Thread |-> nullptr]
    /\ should_stop = FALSE
    /\ round_robin = 0
    /\ holders = Owners
    /\ callJob = [c \in Caller |-> nullptr]
    /\ callQueue = [c \in Caller |-> 0]
    /\ dpc = "live"
    /\ di = 0
    /\ accepted = {}
    /\ refused = {}
    /\ started = [j \in Jobs |-> 0]

-----------------------------------------------------------------------------
(* run_async *)

\* A thread may call run_async while it owns a reference or executes a job.
CanCall(c) ==
    /\ callJob[c] = nullptr
    /\ \/ c \in holders
       \/ c \in Thread /\ running[c] # nullptr

Fresh(j) ==
    /\ j \notin accepted \cup refused
    /\ \A c \in Caller : callJob[c] # j

\* should_stop_ is set: EPERM.
RunAsyncRefused(c, j) ==
    /\ CanCall(c) /\ Fresh(j)
    /\ should_stop
    /\ refused' = refused \cup {j}
    /\ UNCHANGED << q, stage, untried, running, should_stop, round_robin, holders,
                    callJob, callQueue, dpc, di, accepted, started >>

\* should_stop_ is clear: draw a queue from the shared counter.
RunAsyncDraw(c, j) ==
    /\ CanCall(c) /\ Fresh(j)
    /\ ~should_stop
    /\ callJob' = [callJob EXCEPT ![c] = j]
    /\ callQueue' = [callQueue EXCEPT ![c] = round_robin % N]
    /\ round_robin' = round_robin + 1
    /\ UNCHANGED << q, stage, untried, running, should_stop, holders,
                    dpc, di, accepted, refused, started >>

\* Queue::push of the job, possibly long after the test.
RunAsyncPush(c) ==
    /\ callJob[c] # nullptr
    /\ q' = [q EXCEPT ![callQueue[c]] = Append(@, callJob[c])]
    /\ accepted' = accepted \cup {callJob[c]}
    /\ callJob' = [callJob EXCEPT ![c] = nullptr]
    /\ UNCHANGED << stage, untried, running, should_stop, round_robin, holders,
                    callQueue, dpc, di, refused, started >>

-----------------------------------------------------------------------------
(* run_thread *)

\* The tail of the loop body for a popped element e: nullptr leaves the loop,
\* anything else is invoked.
Obtain(w, e) ==
    /\ stage' = [stage EXCEPT ![w] = IF e = nullptr THEN Exited ELSE 0]
    /\ running' = [running EXCEPT ![w] = e]
    /\ started' = IF e = nullptr THEN started ELSE [started EXCEPT ![e] = @ + 1]

Idle(w) == running[w] = nullptr

\* Stages 0 and 2: Queue::try_pop on the worker's own queue.
TryPopOwn(w) ==
    /\ Idle(w) /\ stage[w] \in {0, 2}
    /\ \/ /\ q[w] # << >>
          /\ Obtain(w, Head(q[w]))
          /\ q' = [q EXCEPT ![w] = Tail(@)]
          /\ untried' = untried
       \/ /\ q[w] = << >>
          /\ stage' = [stage EXCEPT ![w] = @ + 1]
          /\ untried' = [untried EXCEPT ![w] = Worker \ {w}]
          /\ UNCHANGED << q, running, started >>
    /\ UNCHANGED << should_stop, round_robin, holders, callJob, callQueue, dpc, di,
                    accepted, refused >>

\* Stage 1: nanosleep.
Sleep(w) ==
    /\ Idle(w) /\ stage[w] = 1
    /\ stage' = [stage EXCEPT ![w] = 2]
    /\ UNCHANGED << q, untried, running, should_stop, round_robin, holders, callJob,
                    callQueue, dpc, di, accepted, refused, started >>

\* Fault: stealing with try_pop instead of try_pop_but_ignore.
StealablePill(v) == q[v] # << >>

\* Queue::try_pop_but_ignore(&job, nullptr): a front pill is left alone.
Stealable(v) == q[v] # << >> /\ Head(q[v]) # nullptr

\* Fault: the thief reads the front element but leaves it in the queue.
StealPeek(w, v) ==
    /\ Idle(w) /\ stage[w] = 3 /\ v \in untried[w]
    /\ Stealable(v)
    /\ Obtain(w, Head(q[v]))
    /\ UNCHANGED << q, untried, should_stop, round_robin, holders, callJob, callQueue,
                    dpc, di, accepted, refused >>

\* Stage 3, one iteration that finds a job in the queue of worker v.
Steal(w, v) ==
    /\ Idle(w) /\ stage[w] = 3 /\ v \in untried[w]
    /\ Stealable(v)
    /\ Obtain(w, Head(q[v]))
    /\ q' = [q EXCEPT ![v] = Tail(@)]
    /\ UNCHANGED << untried, should_stop, round_robin, holders, callJob, callQueue,
                    dpc, di, accepted, refused >>

\* Stage 3, one iteration that finds none.
StealMiss(w, v) ==
    /\ Idle(w) /\ stage[w] = 3 /\ v \in untried[w]
    /\ ~Stealable(v)
    /\ untried' = [untried EXCEPT ![w] = @ \ {v}]
    /\ UNCHANGED << q, stage, running, should_stop, round_robin, holders, callJob,
                    callQueue, dpc, di, accepted, refused, started >>

\* Stage 3, the loop over steal_order is over: stage 4.
StealNone(w) ==
    /\ Idle(w) /\ stage[w] = 3 /\ untried[w] = {}
    /\ stage' = [stage EXCEPT ![w] = 4]
    /\ UNCHANGED << q, untried, running, should_stop, round_robin, holders, callJob,
                    callQueue, dpc, di, accepted, refused, started >>

\* Stage 4: Queue::pop, which waits until the queue is not empty.
PopOwn(w) ==
    /\ Idle(w) /\ stage[w] = 4
    /\ q[w] # << >>
    /\ Obtain(w, Head(q[w]))
    /\ q' = [q EXCEPT ![w] = Tail(@)]
    /\ UNCHANGED << untried, should_stop, round_robin, holders, callJob, callQueue,
                    dpc, di, accepted, refused >>

\* The job returns.
FinishJob(t) ==
    /\ running[t] # nullptr /\ callJob[t] = nullptr
    /\ running' = [running EXCEPT ![t] = nullptr]
    /\ UNCHANGED << q, stage, untried, should_stop, round_robin, holders, callJob,
                    callQueue, dpc, di, accepted, refused, started >>

-----------------------------------------------------------------------------
(* release and ~ThreadPool *)

\* RefCounted::release by one owner, outside any call.
Release(o) ==
    /\ o \in holders /\ callJob[o] = nullptr
    /\ holders' = holders \ {o}
    /\ UNCHANGED << q, stage, untried, running, should_stop, round_robin, callJob,
                    callQueue, dpc, di, accepted, refused, started >>

\* The count reached zero: should_stop_ = true.
DtorBegin ==
    /\ dpc = "live" /\ holders = {}
    /\ should_stop' = TRUE
    /\ dpc' = "pills"
    /\ UNCHANGED << q, stage, untried, running, round_robin, holders, callJob,
                    callQueue, di, accepted, refused, started >>

\* One turn of the loop that pushes the pills.
DtorPill ==
    /\ dpc = "pills"
    /\ q' = [q EXCEPT ![di] = Append(@, nullptr)]
    /\ IF di + 1 = N THEN dpc' = "join" /\ di' = 0
                     ELSE dpc' = dpc /\ di' = di + 1
    /\ UNCHANGED << stage, untried, running, should_stop, round_robin, holders, callJob,
                    callQueue, accepted, refused, started >>

\* Pthread_join of worker di.
DtorJoin ==
    /\ dpc = "join"
    /\ stage[di] = Exited
    /\ IF di + 1 = N THEN dpc' = "drain" /\ di' = 0
                     ELSE dpc' = dpc /\ di' = di + 1
    /\ UNCHANGED << q, stage, untried, running, should_stop, round_robin, holders, callJob,
                    callQueue, accepted, refused, started >>

\* One successful try_pop of the left-over loop; the job runs on this thread.
DtorDrain ==
    /\ dpc = "drain" /\ di < N /\ Idle(Dtor)
    /\ q[di] # << >>
    /\ LET e == Head(q[di]) IN
         /\ running' = [running EXCEPT ![Dtor] = e]
         /\ started' = IF e = nullptr THEN started ELSE [started EXCEPT ![e] = @ + 1]
    /\ q' = [q EXCEPT ![di] = Tail(@)]
    /\ UNCHANGED << stage, untried, should_stop, round_robin, holders, callJob, callQueue,
                    dpc, di, accepted, refused >>

\* Fault: only the first queue is drained.
DtorNextEnds ==
    /\ dpc = "drain" /\ di < N /\ Idle(Dtor)
    /\ q[di] = << >>
    /\ dpc' = "done"
    /\ di' = di + 1
    /\ UNCHANGED << q, stage, untried, running, should_stop, round_robin, holders, callJob,
                    callQueue, accepted, refused, started >>

\* try_pop found queue di empty: the next queue, or the end.
DtorNext ==
    /\ dpc = "drain" /\ di < N /\ Idle(Dtor)
    /\ q[di] = << >>
    /\ IF di + 1 = N THEN dpc' = "done" ELSE dpc' = dpc
    /\ di' = di + 1
    /\ UNCHANGED << q, stage, untried, running, should_stop, round_robin, holders, callJob,
                    callQueue, accepted, refused, started >>

\* The pool is gone.
Terminated == dpc = "done" /\ UNCHANGED vars

-----------------------------------------------------------------------------
WorkerStep(w) ==
    \/ TryPopOwn(w) \/ Sleep(w) \/ StealNone(w) \/ PopOwn(w)
    \/ \E v \in Worker : Steal(w, v) \/ StealMiss(w, v)

DtorStep == DtorBegin \/ DtorPill \/ DtorJoin \/ DtorDrain \/ DtorNext

CallStep(c) == \E j \in Jobs : RunAsyncRefused(c, j) \/ RunAsyncDraw(c, j)

Next ==
    \/ \E c \in Caller : CallStep(c) \/ RunAsyncPush(c)
    \/ \E w \in Worker : WorkerStep(w)
    \/ \E t \in Thread : FinishJob(t)
    \/ \E o \in Owners : Release(o)
    \/ DtorStep
    \/ Terminated

\* Every runnable thread is eventually scheduled, and jobs return.  Nobody is
\* forced to call run_async or to give up a reference.
Fairness ==
    /\ \A c \in Caller : WF_vars(RunAsyncPush(c))
    /\ \A w \in Worker : WF_vars(WorkerStep(w))
    /\ \A t \in Thread : WF_vars(FinishJob(t))
    /\ WF_vars(DtorStep)

Spec == Init /\ [][Next]_vars
FairSpec == Spec /\ Fairness

-----------------------------------------------------------------------------
(* Properties *)

\* A job is invoked at most once, whoever pops it: its worker, a thief or the
\* destructor (run_thread, try_pop_but_ignore, ~ThreadPool).
RunsAtMostOnce == \A j \in Jobs : started[j] <= 1

\* When ~ThreadPool returns, every job for which run_async returned 0 has been
\* invoked, including one that was pushed behind the pill by a job that had
\* read should_stop_ before the destructor set it.
NoJobLost == dpc = "done" => \A j \in accepted : started[j] = 1

\* "return 0 when queuing ok, otherwise EPERM": a refused job never runs.
RefusedNeverRuns == \A j \in refused : started[j] = 0 /\ j \notin accepted

Pills(w) == { k \in DOMAIN q[w] : q[w][k] = nullptr }

PillPushed(w) == dpc \in {"join", "drain", "done"} \/ (dpc = "pills" /\ w < di)

\* "don't steal other thread's death pill, otherwise they won't die": between the
\* push of its pill and its exit a worker has exactly one pill waiting, and no
\* worker has left its loop without having consumed its own.
OwnPill ==
    /\ TypeOK
    /\ \A w \in Worker :
          IF PillPushed(w) /\ stage[w] # Exited
          THEN \E k \in Pills(w) : Pills(w) = {k}
          ELSE Pills(w) = {}

\* While the destructor executes left-over jobs no worker is executing one, so
\* they see the pool's threads gone.
DrainAlone ==
    dpc \in {"drain", "done"} => \A w \in Worker : running[w] = nullptr /\ callJob[w] = nullptr

\* The pool is an Executor: whatever the interleaving of callers, workers, thieves and
\* destructor, its accepted jobs run exactly once before ~ThreadPool returns, nothing is
\* accepted or run after that, and EPERM is returned only when it has begun.
E == INSTANCE Executor WITH
        life <- IF dpc = "live" THEN "open" ELSE IF dpc = "done" THEN "closed" ELSE "closing",
        runs <- started
IsExecutor == E!Spec

\* Once the last reference is released the destructor returns.
DestructorReturns == holders = {} ~> dpc = "done"

=============================================================================
