------------------------------ MODULE RunLater ------------------------------
(***************************************************************************)
(* RunLater of base/threading.cpp: a thread that runs functions at a later *)
(* time, taken from a heap that m_ protects.  m_ is held while a function  *)
(* runs; every other critical section is one action.  Time is a counter.   *)
(* The timed wait of the loop lasts less than a second, whatever there is  *)
(* to wait for, so it may end at any time.  Functions do not call          *)
(* run_later: it would wait for the m_ their own thread holds.             *)
(***************************************************************************)
EXTENDS Integers

CONSTANTS
    Jobs,    \* functions, each given to run_later once
    Callers, \* threads that hold a reference
    MaxTime, \* bound: the clock
    nullptr  \* the function of the death pill, and no job

ASSUME LaterAssumption == MaxTime \in Nat /\ nullptr \notin Jobs

VARIABLES
    now,         \* gettimeofday
    jobs,        \* jobs_, entries [at, j]
    latest,      \* latest_
    should_stop, \* should_stop_
    loop,        \* where the thread is
    running,     \* the entry whose function runs, or Pill
    pc, arg,     \* where each caller is in run_later, and the entry it makes
    holders,     \* callers that have not released their reference
    dtor,        \* where the destructor is
    given,       \* jobs given to run_later
    began        \* how often each job was started

threadVars == << loop, running, began >>
callVars == << latest, pc, arg, holders, given >>
laterVars == << now, jobs, should_stop, dtor, threadVars, callVars >>

Time == 0 .. MaxTime
Pill == [at |-> -1, j |-> nullptr]
Entry == [at : Time, j : Jobs] \cup {Pill}

LaterTypeOK ==
    /\ now \in Time /\ jobs \subseteq Entry /\ latest \in Time /\ should_stop \in BOOLEAN
    /\ loop \in {"test", "try", "wait", "timed", "run", "check", "done"} /\ running \in Entry
    /\ pc \in [Callers -> {"idle", "latest", "push"}] /\ arg \in [Callers -> Entry]
    /\ holders \subseteq Callers /\ dtor \in {"live", "pill", "join", "done"}
    /\ given \subseteq Jobs /\ began \in [Jobs -> Nat]

LaterInit ==
    /\ now = 0 /\ jobs = {} /\ latest = 0 /\ should_stop = FALSE
    /\ loop = "test" /\ running = Pill
    /\ pc = [c \in Callers |-> "idle"] /\ arg = [c \in Callers |-> Pill]
    /\ holders = Callers /\ dtor = "live"
    /\ given = {} /\ began = [j \in Jobs |-> 0]

Tick == now < MaxTime /\ now' = now + 1 /\ UNCHANGED << jobs, should_stop, dtor, threadVars, callVars >>

-----------------------------------------------------------------------------
m_free == loop # "run"

\* pthread_cond_signal
Signal == loop' = IF loop \in {"wait", "timed"} THEN "test" ELSE loop

\* run_later up to the time of the job.  The clock can still pass that time.
Call(c, j, sec) ==
    /\ c \in holders /\ pc[c] = "idle" /\ j \notin given /\ ~should_stop
    /\ now + sec < MaxTime
    /\ given' = given \cup {j}
    /\ arg' = [arg EXCEPT ![c] = [at |-> now + sec, j |-> j]]
    /\ pc' = [pc EXCEPT ![c] = "latest"]
    /\ UNCHANGED << now, jobs, latest, should_stop, holders, dtor, threadVars >>

Latest(c) ==
    /\ pc[c] = "latest"
    /\ latest' = IF arg[c].at > latest THEN arg[c].at ELSE latest
    /\ pc' = [pc EXCEPT ![c] = "push"]
    /\ UNCHANGED << now, jobs, should_stop, arg, holders, dtor, given, threadVars >>

\* Fault: the thread is not told of the job.
PushSilent(c) ==
    /\ pc[c] = "push" /\ m_free
    /\ jobs' = jobs \cup {arg[c]}
    /\ pc' = [pc EXCEPT ![c] = "idle"]
    /\ UNCHANGED << now, latest, should_stop, arg, holders, dtor, given, threadVars >>

Push(c) ==
    /\ pc[c] = "push" /\ m_free
    /\ jobs' = jobs \cup {arg[c]} /\ Signal
    /\ pc' = [pc EXCEPT ![c] = "idle"]
    /\ UNCHANGED << now, latest, should_stop, arg, holders, dtor, given, running, began >>

LaterRelease(c) ==
    /\ c \in holders /\ pc[c] = "idle"
    /\ holders' = holders \ {c}
    /\ UNCHANGED << now, jobs, latest, should_stop, pc, arg, dtor, given, threadVars >>

-----------------------------------------------------------------------------
(* run_later_loop, whose second loop is reached over "check", and try_one_job *)

LoopTest ==
    /\ loop = "test" /\ loop' = IF should_stop THEN "check" ELSE "try"
    /\ UNCHANGED << now, jobs, should_stop, dtor, running, began, callVars >>

Check ==
    /\ loop = "check" /\ loop' = IF jobs = {} THEN "done" ELSE "try"
    /\ UNCHANGED << now, jobs, should_stop, dtor, running, began, callVars >>

\* An entry that jobs_.top() may return.
Top(e) == e \in jobs /\ \A f \in jobs : e.at <= f.at

TryNothing ==
    /\ loop = "try" /\ jobs = {} /\ loop' = "wait"
    /\ UNCHANGED << now, jobs, should_stop, dtor, running, began, callVars >>

TryEarly ==
    /\ loop = "try" /\ loop' = "timed"
    /\ \E e \in jobs : Top(e) /\ e.at >= now
    /\ UNCHANGED << now, jobs, should_stop, dtor, running, began, callVars >>

TryPill ==
    /\ loop = "try" /\ Top(Pill)
    /\ jobs' = jobs \ {Pill} /\ loop' = "test"
    /\ UNCHANGED << now, should_stop, dtor, running, began, callVars >>

\* Fault: a job runs in the moment for which it was asked, or before.
TryJobEarly ==
    /\ loop = "try"
    /\ \E e \in jobs \ {Pill} : Top(e) /\ running' = e /\ began' = [began EXCEPT ![e.j] = @ + 1]
    /\ loop' = "run"
    /\ UNCHANGED << now, jobs, should_stop, dtor, callVars >>

TryJob ==
    /\ loop = "try"
    /\ \E e \in jobs \ {Pill} : Top(e) /\ e.at < now /\ running' = e /\ began' = [began EXCEPT ![e.j] = @ + 1]
    /\ loop' = "run"
    /\ UNCHANGED << now, jobs, should_stop, dtor, callVars >>

FinishJob ==
    /\ loop = "run" /\ loop' = "test"
    /\ jobs' = jobs \ {running} /\ running' = Pill
    /\ UNCHANGED << now, should_stop, dtor, began, callVars >>

\* The end of a timed wait, and the end of the other one for no reason.
Wake ==
    /\ loop = "timed" /\ loop' = "test"
    /\ UNCHANGED << now, jobs, should_stop, dtor, running, began, callVars >>

LoopWakeup ==
    /\ loop = "wait" /\ loop' = "test"
    /\ UNCHANGED << now, jobs, should_stop, dtor, running, began, callVars >>

-----------------------------------------------------------------------------
(* ~RunLater *)

DtorBegin ==
    /\ dtor = "live" /\ holders = {}
    /\ should_stop' = TRUE /\ dtor' = "pill"
    /\ UNCHANGED << now, jobs, threadVars, callVars >>

DtorPill ==
    /\ dtor = "pill" /\ m_free
    /\ jobs' = jobs \cup {Pill} /\ Signal /\ dtor' = "join"
    /\ UNCHANGED << now, should_stop, running, began, callVars >>

DtorJoin ==
    /\ dtor = "join" /\ loop = "done" /\ dtor' = "done"
    /\ UNCHANGED << now, jobs, should_stop, threadVars, callVars >>

-----------------------------------------------------------------------------
LaterLoop == LoopTest \/ Check \/ TryNothing \/ TryEarly \/ TryPill \/ TryJob \/ FinishJob \/ Wake
Calling(c) == Latest(c) \/ Push(c)
Dtor == DtorBegin \/ DtorPill \/ DtorJoin

LaterNext ==
    \/ Tick \/ LaterLoop \/ LoopWakeup \/ Dtor
    \/ \E c \in Callers : Calling(c) \/ LaterRelease(c) \/ \E j \in Jobs, sec \in Time : Call(c, j, sec)

LaterSpec == LaterInit /\ [][LaterNext]_laterVars

-----------------------------------------------------------------------------
\* A job starts at most once, when its time has passed ("wait < 0.0"), and before the
\* jobs with a later time; max_wait() tells when the last one in the queue is due; all
\* jobs have run when the destructor returns.
Punctual ==
    /\ LaterTypeOK
    /\ loop = "run" => running \in jobs /\ running.at < now /\ \A e \in jobs : running.at <= e.at
    /\ \A e \in jobs \ {Pill} : e.at <= latest /\ began[e.j] = IF loop = "run" /\ e = running THEN 1 ELSE 0
    /\ \A j \in Jobs : began[j] <= 1
    /\ dtor = "done" => jobs \subseteq {Pill} /\ \A j \in given : began[j] = 1

\* A job that was queued runs without waiting for other calls, and the destructor
\* returns: no signal is missed by the two waits.
Served ==
    /\ \A j \in Jobs : j \in given ~> began[j] = 1
    /\ holders = {} ~> dtor = "done"
=============================================================================
