--------------------------- MODULE DeferredProofs ---------------------------
(***************************************************************************)
(* What is done later: replies that threads wait for in Future, functions  *)
(* given to RunLater, requests given to Recorder. ReturnsDecided holds for *)
(* any number of threads in wait() and timed_wait(), Punctual for any      *)
(* number of jobs and callers and any bound of the clock, FlushedInOrder   *)
(* for any number of requests.                                             *)
(*                                                                         *)
(* None of them is inductive. IInv adds what was stored before ready_ or   *)
(* timed_out_ was set. Inv adds where a job can be: in one call of         *)
(* run_later, in one entry of the heap, or it was started; and that        *)
(* nothing is called once the thread has stopped. RecInv adds where a      *)
(* request is between the lists, the file and the callbacks, and that what *)
(* is appended to a list that was taken is all that can be missing.        *)
(***************************************************************************)
EXTENDS Future, RunLater, Recorder, TLAPS

\* A step that names no prover is left to SMT, if need be twice, and then to Zenon.
USE SMTT(10), SMTT(30), Zenon, SMTT(40), SMTT(60)

-----------------------------------------------------------------------------
(* Future *)

\* ready_ is set by notify_ready only, after handle_read has stored the reply; only a
\* time-out can replace the server's code.
IInv ==
    /\ TypeOK
    /\ ready => delivery \in {"notified", "done"}
    /\ delivery # "none" => reply /\ (error_code = "server" \/ timed_out)
    /\ \A t \in Threads : th[t] \in {"unlocked", "returned"} => ready \/ timed_out

\* A new future satisfies the invariant.
LEMMA InitIInv == Init => IInv
<1> SUFFICES ASSUME Init PROVE IInv
  OBVIOUS
<1>1. TypeOK
  BY Zenon DEF Init, TypeOK, Codes
<1>2. ~ready /\ delivery = "none" /\ \A t \in Threads : th[t] = "start"
  BY DEF Init
<1> QED
  BY <1>1, <1>2 DEF IInv

\* Every step of notify_ready and of the waiting threads keeps it.
LEMMA NextIInv == IInv /\ [Next]_vars => IInv'
<1> SUFFICES ASSUME IInv, [Next]_vars PROVE IInv'
  OBVIOUS
<1> USE FutureAssumption DEF IInv, TypeOK, Codes
<1>1. CASE StoreReply
  BY <1>1 DEF StoreReply
<1>2. CASE NotifyReady
  BY <1>2 DEF NotifyReady
<1>3. CASE NotifyCallback
  BY <1>3 DEF NotifyCallback, CallBack
<1>4. ASSUME NEW t \in Threads, Step(t)
      PROVE  IInv'
  <2>1. CASE Test(t)
    BY <2>1 DEF Test
  <2>2. CASE SpuriousWakeup(t)
    BY <2>2 DEF SpuriousWakeup
  <2>3. CASE Expire(t)
    BY <2>3 DEF Expire
  <2>4. CASE TimeOut(t)
    BY <2>4 DEF TimeOut
  <2>5. CASE Return(t)
    BY <2>5 DEF Return, CallBack
  <2> QED
    BY <1>4, <2>1, <2>2, <2>3, <2>4, <2>5, Zenon DEF Step
<1>5. CASE UNCHANGED vars
  BY <1>5 DEF vars
<1> QED
  BY <1>1, <1>2, <1>3, <1>4, <1>5, Zenon DEF Next, Deliver, Finished

\* A thread returns from wait() or timed_wait() only when the future is decided, and
\* without a time-out finds the reply and the server's code.
THEOREM AlwaysDecided == Spec => []ReturnsDecided
<1>1. IInv => ReturnsDecided
  BY DEF IInv, ReturnsDecided, TypeOK
<1> QED
  BY InitIInv, NextIInv, <1>1, PTL DEF Spec

-----------------------------------------------------------------------------
(* RunLater *)

Queued == jobs \ {Pill}
Busy(c) == pc[c] # "idle"

\* An entry is that of one job, which was not started unless it is the one that runs.
QueueInv ==
    /\ \A e \in Queued : e.at <= latest /\ e.j \in given
    /\ \A e \in Queued : began[e.j] = IF loop = "run" /\ e = running THEN 1 ELSE 0
    /\ \A e, f \in Queued : e.j = f.j => e = f

\* A call of run_later has a job of its own, which is not in the heap yet.
CallInv ==
    /\ \A c \in Callers : Busy(c) =>
          /\ c \in holders /\ arg[c] # Pill /\ arg[c].j \in given /\ began[arg[c].j] = 0
          /\ \A e \in Queued : e.j # arg[c].j
          /\ pc[c] = "push" => arg[c].at <= latest
    /\ \A c, d \in Callers : Busy(c) /\ Busy(d) /\ arg[c].j = arg[d].j => c = d

\* The job that runs is the earliest, and due.
RunInv == loop = "run" => running \in Queued /\ running.at < now /\ \A e \in jobs : running.at <= e.at

\* A job that was given to run_later was started, once, or is still somewhere.
OnceInv ==
    /\ \A j \in Jobs : began[j] <= 1 /\ (j \notin given => began[j] = 0)
    /\ \A j \in given : began[j] = 1 \/ (\E e \in Queued : e.j = j) \/ (\E c \in Callers : Busy(c) /\ arg[c].j = j)

\* Nobody calls run_later when the thread may stop, and it stops with an empty heap.
StopInv ==
    /\ should_stop <=> dtor # "live"
    /\ should_stop => holders = {}
    /\ loop = "check" => should_stop
    /\ loop = "done" => should_stop /\ jobs \subseteq {Pill}
    /\ dtor = "done" => loop = "done"

Inv == LaterTypeOK /\ QueueInv /\ CallInv /\ RunInv /\ OnceInv /\ StopInv

-----------------------------------------------------------------------------
\* The invariant says that RunLater is punctual.
LEMMA InvPunctual == Inv => Punctual
<1> SUFFICES ASSUME Inv PROVE Punctual
  OBVIOUS
<1>1. loop = "run" => running \in jobs /\ running.at < now /\ \A e \in jobs : running.at <= e.at
  BY DEF Inv, RunInv, Queued
<1>2. \A e \in jobs \ {Pill} : e.at <= latest /\ began[e.j] = IF loop = "run" /\ e = running THEN 1 ELSE 0
  BY DEF Inv, QueueInv, Queued
<1>3. \A j \in Jobs : began[j] <= 1
  BY DEF Inv, OnceInv
<1>4. ASSUME dtor = "done" PROVE jobs \subseteq {Pill} /\ \A j \in given : began[j] = 1
  <2>1. jobs \subseteq {Pill} /\ holders = {}
    BY <1>4 DEF Inv, StopInv
  <2>2. \A c \in Callers : ~Busy(c)
    BY <2>1 DEF Inv, CallInv
  <2> QED
    BY <2>1, <2>2 DEF Inv, OnceInv, Queued
<1> QED
  BY <1>1, <1>2, <1>3, <1>4, Zenon DEF Inv, Punctual

\* It holds when the thread is created.
LEMMA InitInv == LaterInit => Inv
<1> SUFFICES ASSUME LaterInit PROVE Inv
  OBVIOUS
<1> USE LaterAssumption DEF LaterInit
<1>0. Pill \in Entry /\ 0 \in Time
  BY DEF Entry, Time
<1>1. LaterTypeOK
  BY <1>0, Zenon DEF LaterTypeOK
<1>2. QueueInv /\ CallInv
  BY DEF QueueInv, CallInv, Queued, Busy
<1>3. RunInv /\ OnceInv /\ StopInv
  BY DEF RunInv, OnceInv, StopInv
<1> QED
  BY <1>1, <1>2, <1>3 DEF Inv

\* Every step preserves it.
LEMMA NextInv == Inv /\ [LaterNext]_laterVars => Inv'
<1> SUFFICES ASSUME Inv, [LaterNext]_laterVars PROVE Inv'
  OBVIOUS
<1> USE LaterAssumption DEF Inv
<1>0. CASE UNCHANGED laterVars
  BY <1>0 DEF laterVars, threadVars, callVars, LaterTypeOK, QueueInv, CallInv, RunInv, OnceInv, StopInv, Queued, Busy
<1>1. CASE Tick
  BY <1>1 DEF Tick, threadVars, callVars, LaterTypeOK, QueueInv, CallInv, RunInv, OnceInv, StopInv, Queued, Busy, Time, Entry, Pill
<1>2. CASE LoopTest
  BY <1>2 DEF LoopTest, threadVars, callVars, LaterTypeOK, QueueInv, CallInv, RunInv, OnceInv, StopInv, Queued, Busy
<1>3. CASE Check
  BY <1>3, Zenon DEF Check, threadVars, callVars, LaterTypeOK, QueueInv, CallInv, RunInv, OnceInv, StopInv, Queued, Busy
<1>4. CASE TryNothing
  BY <1>4, Zenon DEF TryNothing, threadVars, callVars, LaterTypeOK, QueueInv, CallInv, RunInv, OnceInv, StopInv, Queued, Busy
<1>5. CASE TryEarly
  BY <1>5 DEF TryEarly, threadVars, callVars, LaterTypeOK, QueueInv, CallInv, RunInv, OnceInv, StopInv, Queued, Busy
<1>6. CASE TryPill
  BY <1>6 DEF TryPill, threadVars, callVars, LaterTypeOK, QueueInv, CallInv, RunInv, OnceInv, StopInv, Queued, Busy
<1>7. CASE TryJob
  BY <1>7 DEF TryJob, Top, threadVars, callVars, LaterTypeOK, QueueInv, CallInv, RunInv, OnceInv, StopInv, Queued, Busy, Entry, Pill
<1>8. CASE FinishJob
  BY <1>8 DEF FinishJob, threadVars, callVars, LaterTypeOK, QueueInv, CallInv, RunInv, OnceInv, StopInv, Queued, Busy, Entry
<1>9. CASE Wake \/ LoopWakeup
  BY <1>9 DEF Wake, LoopWakeup, threadVars, callVars, LaterTypeOK, QueueInv, CallInv, RunInv, OnceInv, StopInv, Queued, Busy
<1>10. CASE DtorBegin
  BY <1>10, Zenon DEF DtorBegin, threadVars, callVars, LaterTypeOK, QueueInv, CallInv, RunInv, OnceInv, StopInv, Queued, Busy
<1>11. CASE DtorPill
  BY <1>11, Zenon DEF DtorPill, m_free, Signal, threadVars, callVars, LaterTypeOK, QueueInv, CallInv, RunInv, OnceInv, StopInv, Queued, Busy, Entry
<1>12. CASE DtorJoin
  BY <1>12, Zenon DEF DtorJoin, threadVars, callVars, LaterTypeOK, QueueInv, CallInv, RunInv, OnceInv, StopInv, Queued, Busy
<1>13. ASSUME NEW c \in Callers, LaterRelease(c) PROVE Inv'
  BY <1>13 DEF LaterRelease, threadVars, callVars, LaterTypeOK, QueueInv, CallInv, RunInv, OnceInv, StopInv, Queued, Busy
<1>14. ASSUME NEW c \in Callers, Latest(c) PROVE Inv'
  BY <1>14 DEF Latest, threadVars, callVars, LaterTypeOK, QueueInv, CallInv, RunInv, OnceInv, StopInv, Queued, Busy, Entry, Time
<1>15. ASSUME NEW c \in Callers, Push(c) PROVE Inv'
  <2> USE <1>15 DEF Push, m_free, Signal, Queued, Busy
  <2>1. LaterTypeOK'
    BY Zenon DEF LaterTypeOK
  <2>2. Busy(c) /\ Queued' = Queued \cup {arg[c]}
    BY Zenon DEF CallInv
  <2>3. QueueInv'
    BY <2>2 DEF QueueInv, CallInv
  <2>4. CallInv'
    BY <2>2 DEF CallInv, LaterTypeOK
  <2>5. RunInv'
    BY DEF RunInv
  <2>6. OnceInv'
    BY <2>2 DEF OnceInv, LaterTypeOK
  <2>7. StopInv'
    BY <2>2, Zenon DEF StopInv, CallInv
  <2> QED
    BY <2>1, <2>3, <2>4, <2>5, <2>6, <2>7, Zenon
<1>16. ASSUME NEW c \in Callers, NEW j \in Jobs, NEW sec \in Time, Call(c, j, sec) PROVE Inv'
  <2> DEFINE new == [at |-> now + sec, j |-> j]
  <2>0. new \in Entry /\ new # Pill /\ new.j = j
    BY <1>16 DEF Call, LaterTypeOK, Entry, Time, Pill
  <2>1. arg' = [arg EXCEPT ![c] = new] /\ arg \in [Callers -> Entry] /\ pc \in [Callers -> {"idle", "latest", "push"}]
    BY <1>16, Zenon DEF Call, LaterTypeOK
  <2>2. /\ ~Busy(c) /\ Busy(c)' /\ c \in holders /\ j \notin given /\ began[j] = 0
        /\ pc'[c] = "latest" /\ arg'[c] = new /\ given' = given \cup {j}
        /\ \A d \in Callers \ {c} : pc'[d] = pc[d] /\ arg'[d] = arg[d]
    BY <1>16, <2>1 DEF Call, Busy, OnceInv
  <2>3. UNCHANGED << now, jobs, latest, should_stop, holders, dtor, loop, running, began >> /\ ~should_stop
    BY <1>16 DEF Call, threadVars
  <2> HIDE DEF new
  <2>4. LaterTypeOK'
    BY <1>16, <2>0, <2>1, <2>3 DEF Call, LaterTypeOK
  <2>5. QueueInv'
    BY <2>2, <2>3, Zenon DEF QueueInv, Queued
  <2>6. CallInv'
    BY <2>0, <2>2, <2>3 DEF CallInv, QueueInv, Queued, Busy
  <2>7. RunInv' /\ StopInv'
    BY <2>3 DEF RunInv, StopInv, Queued
  <2>8. OnceInv'
    BY <2>0, <2>2, <2>3 DEF OnceInv, Queued, Busy
  <2> QED
    BY <2>4, <2>5, <2>6, <2>7, <2>8
<1> QED
  BY <1>0, <1>1, <1>2, <1>3, <1>4, <1>5, <1>6, <1>7, <1>8, <1>9, <1>10, <1>11, <1>12, <1>13, <1>14, <1>15, <1>16, Zenon
  DEF LaterNext, LaterLoop, Dtor, Calling

\* Jobs start once, when due, in the order of their times, and all of them before the
\* destructor returns (RunLater of base/threading.cpp).
THEOREM AlwaysPunctual == LaterSpec => []Punctual
  BY InitInv, NextInv, InvPunctual, PTL DEF LaterSpec

-----------------------------------------------------------------------------
(* Recorder *)

In(l) == 1 .. Len(list[l])
All == called \o callback_reqs_
Ordered(s) == \A j, k \in 1 .. Len(s) : j < k => s[j] < s[k]

\* Every request that submit has appended is in one list, and the lists are in order.
ListInv ==
    /\ \A l \in Lists : (l < flush_reqs_ => list[l] # << >>) /\ (l > flush_reqs_ => list[l] = << >>)
    /\ \A l \in Lists : Ordered(list[l]) /\ \A j \in In(l) : list[l][j] >= l
    /\ \A l, m \in Lists : l < m => \A j \in In(l), k \in In(m) : list[l][j] < list[m][k]

\* Submit has found the last list that is not empty, or a later one; what it will append
\* is nowhere yet.
SubmitInv ==
    /\ onto # 0 => sent > 0 /\ onto <= flush_reqs_ /\ \A l \in Lists : l > onto => list[l] = << >>
    /\ \A l \in Lists : \A j \in In(l) : list[l][j] <= sent /\ (onto # 0 => list[l][j] < sent)

\* The flush thread has a list that submit does not find any more.  What it has written
\* comes before all that it, or a later one, will write.
FileInv ==
    /\ fpc \in {"write", "move"} => reqs < flush_reqs_
    /\ Ordered(file)
    /\ \A n \in 1 .. Len(file) :
          /\ file[n] <= sent /\ (onto # 0 => file[n] < sent)
          /\ \A l \in Lists : l >= flush_reqs_ => \A j \in In(l) : file[n] < list[l][j]
          /\ fpc = "write" => \A j \in In(reqs) : j > i => file[n] < list[reqs][j]
    /\ fpc = "write" => i <= Len(list[reqs]) /\ \A j \in 1 .. i : \E n \in 1 .. Len(file) : file[n] = list[reqs][j]

\* So does what it has passed on, which is on disk unless it came late.
Safe(r) == r \in late \/ \E n \in 1 .. durable : file[n] = r
PassedInv ==
    /\ Ordered(All)
    /\ \A n \in 1 .. Len(All) :
          /\ Safe(All[n]) /\ All[n] <= sent /\ (onto # 0 => All[n] < sent)
          /\ \A l \in Lists : l >= flush_reqs_ => \A j \in In(l) : All[n] < list[l][j]
          /\ fpc \in {"write", "move"} => \A j \in In(reqs) : All[n] < list[reqs][j]
    /\ fpc = "move" => \A j \in In(reqs) : Safe(list[reqs][j])

RecInv == RecTypeOK /\ ListInv /\ SubmitInv /\ FileInv /\ PassedInv

-----------------------------------------------------------------------------
\* The invariant says what FlushedInOrder says.
LEMMA RecInvInOrder == RecInv => FlushedInOrder
<1> SUFFICES ASSUME RecInv PROVE FlushedInOrder
  OBVIOUS
<1> USE DEF RecInv
<1>1. /\ All \in Seq(Reqs) /\ Len(All) = Len(called) + Len(callback_reqs_) /\ Len(called) \in Nat /\ Len(callback_reqs_) \in Nat
      /\ \A k \in 1 .. Len(called) : k \in 1 .. Len(All) /\ All[k] = called[k]
  BY DEF RecTypeOK, All
<1>2. \A s : s \in Seq(Reqs) /\ Ordered(s) => Increasing(s)
  <2> SUFFICES ASSUME NEW s \in Seq(Reqs), Ordered(s), NEW k \in 1 .. Len(s) - 1 PROVE s[k] < s[k + 1]
    BY DEF Increasing
  <2>1. k \in 1 .. Len(s) /\ k + 1 \in 1 .. Len(s) /\ k < k + 1
    OBVIOUS
  <2> QED
    BY <2>1 DEF Ordered
<1>3. Increasing(file) /\ Increasing(called \o callback_reqs_)
  BY <1>1, <1>2, Zenon DEF RecTypeOK, FileInv, PassedInv, All
<1>4. ASSUME NEW k \in DOMAIN called PROVE called[k] \in late \cup Range(SubSeq(file, 1, durable))
  <2>1. k \in 1 .. Len(All) /\ All[k] = called[k]
    <3>1. k \in 1 .. Len(called)
      BY DEF RecTypeOK
    <3> QED
      BY <1>1, <3>1, Zenon
  <2>2. Safe(called[k])
    BY <2>1, Zenon DEF PassedInv
  <2>3. ASSUME NEW n \in 1 .. durable, file[n] = called[k] PROVE called[k] \in Range(SubSeq(file, 1, durable))
    <3>1. file \in Seq(Reqs) /\ durable \in 0 .. Len(file)
      BY DEF RecTypeOK
    <3>2. n \in DOMAIN SubSeq(file, 1, durable) /\ SubSeq(file, 1, durable)[n] = file[n]
      BY <3>1
    <3> QED
      BY <2>3, <3>2, Zenon DEF Range
  <2> QED
    BY <2>2, <2>3 DEF Safe
<1> QED
  BY <1>3, <1>4 DEF FlushedInOrder

\* It holds of a new recorder.
LEMMA RecInitInv == RecInit => RecInv
<1> SUFFICES ASSUME RecInit PROVE RecInv
  OBVIOUS
<1> USE RecorderAssumption DEF RecInit
<1>1. RecTypeOK
  <2>1. << >> \in Seq(Reqs) /\ 1 \in Lists /\ 0 \in Nat /\ 0 \in 0 .. MaxReq /\ 0 \in 0 .. Len(<< >>)
    BY DEF Lists
  <2> QED
    BY <2>1, Zenon DEF RecTypeOK
<1>2. \A l \in Lists : list[l] = << >>
  OBVIOUS
<1>3. All = << >>
  BY DEF All
<1>4. ListInv
  BY <1>2 DEF ListInv, In, Ordered, Lists
<1>5. SubmitInv /\ FileInv
  BY <1>2 DEF SubmitInv, FileInv, In, Ordered
<1>6. PassedInv
  BY <1>3 DEF PassedInv, Ordered
<1> QED
  BY <1>1, <1>4, <1>5, <1>6 DEF RecInv

-----------------------------------------------------------------------------
\* The timer, the signal and the wake-up touch nothing that was submitted.
LEMMA TimerKeeps ==
  ASSUME RecInv,
         \/ Elapse \/ Trigger \/ FlushWakeup
         \/ UNCHANGED recVars
  PROVE  RecInv'
<1>1. /\ UNCHANGED << list, flush_reqs_, sent, onto, reqs, i, file, durable, callback_reqs_, called, late >>
      /\ fpc' = fpc \/ (fpc = "wait" /\ fpc' = "take")
  BY DEF Elapse, Trigger, FlushWakeup, recVars, flushVars, pollVars
<1>2. RecTypeOK'
  <2>1. elapsed' \in BOOLEAN /\ poll' \in {"invoke", "signal"} /\ fpc' \in {"wait", "take", "write", "move"}
    BY <1>1, Zenon DEF RecInv, RecTypeOK, Elapse, Trigger, FlushWakeup, recVars, flushVars, pollVars
  <2> QED
    BY <1>1, <2>1 DEF RecInv, RecTypeOK
<1>3. ListInv' /\ SubmitInv'
  BY <1>1, Zenon DEF RecInv, ListInv, SubmitInv, In
<1>4. FileInv'
  BY <1>1 DEF RecInv, FileInv, In
<1>5. PassedInv'
  BY <1>1 DEF RecInv, PassedInv, In, All, Safe
<1> QED
  BY <1>2, <1>3, <1>4, <1>5 DEF RecInv

\* invoke_cb only moves on in the sequence of those passed on.
LEMMA InvokeKeeps ==
  ASSUME RecInv, Invoke
  PROVE  RecInv'
<1>1. /\ UNCHANGED << list, flush_reqs_, sent, onto, fpc, reqs, i, file, durable, late, elapsed >>
      /\ called' = called \o callback_reqs_ /\ callback_reqs_' = << >> /\ poll' = "signal"
  BY DEF Invoke, flushVars
<1>2. RecTypeOK'
  BY <1>1 DEF RecInv, RecTypeOK
<1>3. All' = All
  BY <1>1 DEF RecInv, RecTypeOK, All
<1>4. ListInv' /\ SubmitInv'
  BY <1>1, Zenon DEF RecInv, ListInv, SubmitInv, In
<1>5. FileInv'
  BY <1>1 DEF RecInv, FileInv, In
<1>6. PassedInv'
  BY <1>1, <1>3 DEF RecInv, PassedInv, In, Safe
<1> QED
  BY <1>2, <1>4, <1>5, <1>6 DEF RecInv

-----------------------------------------------------------------------------
(* submit *)

\* A new request is larger than every one before it.
LEMMA SubmitFindKeeps ==
  ASSUME RecInv, SubmitFind
  PROVE  RecInv'
<1>1. /\ onto = 0 /\ sent < MaxReq /\ sent' = sent + 1 /\ onto' = flush_reqs_ /\ onto' # 0
      /\ UNCHANGED << list, flush_reqs_, flushVars, pollVars, callback_reqs_, called, late >>
  BY RecorderAssumption DEF SubmitFind, RecInv, RecTypeOK, Lists
<1>2. sent \in Nat /\ \A l \in Lists : list[l] \in Seq(Reqs)
  BY RecorderAssumption DEF RecInv, RecTypeOK
<1>3. RecTypeOK'
  BY <1>1, <1>2, RecorderAssumption DEF RecInv, RecTypeOK, flushVars, pollVars
<1>4. ListInv'
  BY <1>1 DEF RecInv, ListInv, In
<1>5. \A r \in Reqs : r <= sent => r <= sent' /\ r < sent'
  BY <1>1, <1>2 DEF Reqs
<1>6. SubmitInv'
  <2>1. \A l \in Lists : \A j \in In(l) : list[l][j] \in Reqs
    BY <1>2 DEF In
  <2>2. \A l \in Lists : \A j \in In(l) : list[l][j] <= sent' /\ list[l][j] < sent'
    BY <1>5, <2>1, Zenon DEF RecInv, SubmitInv
  <2>3. sent' > 0 /\ onto' <= flush_reqs_' /\ \A l \in Lists : l > onto' => list[l] = << >>
    BY <1>1, <1>2, RecorderAssumption DEF RecInv, RecTypeOK, ListInv, Lists
  <2> QED
    BY <1>1, <2>2, <2>3 DEF SubmitInv, In
<1>7. FileInv'
  <2>1. \A n \in 1 .. Len(file) : file[n] \in Reqs
    BY DEF RecInv, RecTypeOK
  <2>2. \A n \in 1 .. Len(file) : file[n] <= sent' /\ file[n] < sent'
    BY <1>5, <2>1, Zenon DEF RecInv, FileInv
  <2> QED
    BY <1>1, <2>2 DEF RecInv, FileInv, In, flushVars
<1>8. PassedInv'
  <2>1. \A n \in 1 .. Len(All) : All[n] \in Reqs
    <3>1. All \in Seq(Reqs)
      BY DEF RecInv, RecTypeOK, All
    <3> QED
      BY <3>1
  <2>2. \A n \in 1 .. Len(All) : All[n] <= sent' /\ All[n] < sent'
    BY <1>5, <2>1, Zenon DEF RecInv, PassedInv
  <2>3. All' = All
    BY <1>1 DEF All
  <2> QED
    BY <1>1, <2>2, <2>3 DEF RecInv, PassedInv, In, Safe, flushVars
<1> QED
  BY <1>3, <1>4, <1>6, <1>7, <1>8 DEF RecInv

\* It is appended to a list behind which all are empty, whether or not the flush thread
\* has taken that one meanwhile.
LEMMA SubmitPushKeeps ==
  ASSUME RecInv, SubmitPush
  PROVE  RecInv'
<1> DEFINE o == onto
           L == list[onto]
<1>1. /\ o # 0 /\ list' = [list EXCEPT ![o] = Append(L, sent)] /\ onto' = 0
      /\ late' = IF o = flush_reqs_ THEN late ELSE late \cup {sent}
      /\ UNCHANGED << flush_reqs_, sent, flushVars, pollVars, callback_reqs_, called >>
  BY DEF SubmitPush
<1>2. o \in Lists /\ sent \in Reqs /\ L \in Seq(Reqs) /\ Len(L) \in Nat
  BY <1>1, RecorderAssumption DEF RecInv, RecTypeOK, SubmitInv, Reqs
<1>3. \A l \in Lists \ {o} : list'[l] = list[l]
  BY <1>1 DEF RecInv, RecTypeOK
<1>4. /\ list'[o] = Append(L, sent) /\ Len(list'[o]) = Len(L) + 1 /\ list'[o][Len(L) + 1] = sent
      /\ \A j \in 1 .. Len(L) : list'[o][j] = L[j]
  BY <1>1, <1>2 DEF RecInv, RecTypeOK
<1>5. RecTypeOK'
  <2>1. Append(L, sent) \in Seq(Reqs)
    BY <1>2
  <2>2. list' \in [Lists -> Seq(Reqs)]
    BY <1>1, <1>2, <2>1 DEF RecInv, RecTypeOK
  <2> QED
    BY <1>1, <1>2, <2>2, Zenon DEF RecInv, RecTypeOK, flushVars, pollVars
<1> HIDE DEF L
<1>6. ASSUME NEW l \in Lists, NEW j \in In(l)'
      PROVE  \/ j \in In(l) /\ list'[l][j] = list[l][j]
             \/ l = o /\ j = Len(L) + 1 /\ list'[l][j] = sent
  <2>1. CASE l # o
    BY <1>3, <2>1 DEF In
  <2>2. CASE l = o
    <3>1. j \in 1 .. Len(L) + 1 /\ In(l) = 1 .. Len(L) /\ list[l] = L
      BY <1>4, <2>2 DEF In, L
    <3> QED
      BY <1>2, <1>4, <2>2, <3>1
  <2> QED
    BY <2>1, <2>2
<1>7. \A l \in Lists : \A j \in In(l) : list[l][j] \in Reqs /\ list[l][j] < sent
  BY <1>1 DEF RecInv, RecTypeOK, SubmitInv, In
<1>8. sent > 0 /\ o <= flush_reqs_ /\ (\A l \in Lists : l > o => In(l) = {} /\ In(l)' = {})
  <2>1. sent > 0 /\ o <= flush_reqs_ /\ \A l \in Lists : l > o => list[l] = << >>
    BY <1>1 DEF RecInv, SubmitInv
  <2>2. \A l \in Lists : l > o => list'[l] = << >>
    BY <1>2, <1>3, <2>1 DEF Lists
  <2> QED
    BY <2>1, <2>2 DEF In
<1>9. sent >= o
  <2>1. CASE o = 1
    BY <1>2, <2>1 DEF Reqs
  <2>2. CASE o # 1
    <3>1. o - 1 \in Lists /\ o - 1 < flush_reqs_ /\ o \in Nat /\ sent \in Nat
      BY <1>2, <1>8, <2>2, RecorderAssumption DEF RecInv, RecTypeOK, Lists, Reqs
    <3>2. list[o - 1] # << >> /\ list[o - 1] \in Seq(Reqs)
      BY <3>1 DEF RecInv, ListInv, RecTypeOK
    <3>3. 1 \in In(o - 1)
      BY <3>2 DEF In
    <3>4. list[o - 1][1] >= o - 1 /\ list[o - 1][1] < sent /\ list[o - 1][1] \in Nat
      <4>1. list[o - 1][1] >= o - 1
        BY <3>1, <3>3, Zenon DEF RecInv, ListInv
      <4>2. list[o - 1][1] \in Reqs /\ list[o - 1][1] < sent
        BY <1>7, <3>1, <3>3, Zenon
      <4> QED
        BY <4>1, <4>2 DEF Reqs
    <3> QED
      BY <3>1, <3>4
  <2> QED
    BY <2>1, <2>2
<1>10. ListInv'
  <2>1. \A l \in Lists : (l < flush_reqs_' => list'[l] # << >>) /\ (l > flush_reqs_' => list'[l] = << >>)
    <3>1. list'[o] # << >> /\ ~(o > flush_reqs_)
      <4>1. list'[o] # << >>
        BY <1>2, <1>4
      <4>2. o \in Int /\ flush_reqs_ \in Int
        BY <1>2, RecorderAssumption DEF RecInv, RecTypeOK, Lists
      <4> QED
        BY <1>8, <4>1, <4>2
    <3> QED
      BY <1>1, <1>3, <3>1, Zenon DEF RecInv, ListInv
  <2>2. ASSUME NEW l \in Lists PROVE Ordered(list'[l]) /\ \A j \in In(l)' : list'[l][j] >= l
    <3>1. CASE l # o
      BY <1>3, <3>1 DEF RecInv, ListInv, In
    <3>2. CASE l = o
      <4>1. ASSUME NEW j \in In(l)', NEW k \in In(l)', j < k PROVE list'[l][j] < list'[l][k]
        <5>1. j \in In(l) /\ list'[l][j] = list[l][j]
          BY <1>2, <1>3, <1>4, <3>2, <4>1 DEF In, L
        <5>2. CASE k \in In(l) /\ list'[l][k] = list[l][k]
          BY <4>1, <5>1, <5>2, Zenon DEF RecInv, ListInv, Ordered, In
        <5>3. CASE list'[l][k] = sent
          BY <1>7, <5>1, <5>3
        <5> QED
          BY <1>6, <5>2, <5>3, Zenon
      <4>2. ASSUME NEW j \in In(l)' PROVE list'[l][j] >= l
        BY <1>6, <1>9, <3>2, Zenon DEF RecInv, ListInv
      <4> QED
        BY <4>1, <4>2 DEF Ordered, In
    <3> QED
      BY <3>1, <3>2
  <2>3. ASSUME NEW l \in Lists, NEW m \in Lists, l < m, NEW j \in In(l)', NEW k \in In(m)'
        PROVE  list'[l][j] < list'[m][k]
    <3>1. l # o
      BY <1>8, <2>3
    <3>2. j \in In(l) /\ list'[l][j] = list[l][j]
      BY <1>6, <3>1
    <3>3. CASE k \in In(m) /\ list'[m][k] = list[m][k]
      BY <2>3, <3>2, <3>3, Zenon DEF RecInv, ListInv
    <3>4. CASE list'[m][k] = sent
      BY <1>7, <3>2, <3>4
    <3> QED
      BY <1>6, <3>3, <3>4, Zenon
  <2> QED
    BY <2>1, <2>2, <2>3 DEF ListInv
<1>11. \A l \in Lists : \A j \in In(l)' : list'[l][j] \in Nat /\ list'[l][j] <= sent
  BY <1>2, <1>6, <1>7 DEF Reqs
<1>12. SubmitInv'
  BY <1>1, <1>11, Zenon DEF SubmitInv
<1>13. FileInv'
  <2>1. UNCHANGED << fpc, reqs, i, file, durable >>
    BY <1>1 DEF flushVars
  <2>2. reqs \in Lists /\ i \in Nat /\ \A n \in 1 .. Len(file) : file[n] <= sent /\ file[n] < sent
    BY <1>1, Zenon DEF RecInv, RecTypeOK, FileInv
  <2>3. ASSUME NEW n \in 1 .. Len(file), NEW l \in Lists, l >= flush_reqs_, NEW j \in In(l)' PROVE file[n] < list'[l][j]
    BY <1>6, <2>2, <2>3 DEF RecInv, FileInv
  <2>4. ASSUME NEW n \in 1 .. Len(file), fpc = "write", NEW j \in In(reqs)', j > i PROVE file[n] < list'[reqs][j]
    <3>1. j \in 1 .. Len(list'[reqs]) /\ In(reqs) = 1 .. Len(list[reqs])
      BY <2>1 DEF In
    <3>2. CASE j \in In(reqs) /\ list'[reqs][j] = list[reqs][j]
      BY <2>4, <3>2, Zenon DEF RecInv, FileInv
    <3>3. CASE list'[reqs][j] = sent
      BY <2>2, <3>3
    <3> QED
      BY <1>6, <2>1, <2>2, <3>2, <3>3, Zenon
  <2>5. ASSUME fpc = "write"
        PROVE  i <= Len(list'[reqs]) /\ \A j \in 1 .. i : \E n \in 1 .. Len(file) : file[n] = list'[reqs][j]
    <3>1. i <= Len(list[reqs]) /\ \A j \in 1 .. i : \E n \in 1 .. Len(file) : file[n] = list[reqs][j]
      BY <2>5 DEF RecInv, FileInv
    <3>2. Len(list[reqs]) \in Nat /\ Len(list[reqs]) <= Len(list'[reqs]) /\ \A j \in 1 .. Len(list[reqs]) : list'[reqs][j] = list[reqs][j]
      <4>1. CASE reqs # o
        BY <1>3, <2>2, <4>1 DEF RecInv, RecTypeOK
      <4>2. CASE reqs = o
        BY <1>2, <1>4, <4>2 DEF L
      <4> QED
        BY <4>1, <4>2
    <3>3. i <= Len(list'[reqs]) /\ \A j \in 1 .. i : list'[reqs][j] = list[reqs][j]
      <4>1. Len(list'[reqs]) \in Nat
        BY <1>5, <2>2 DEF RecTypeOK
      <4> QED
        BY <2>2, <3>1, <3>2, <4>1
    <3> QED
      BY <3>1, <3>3
  <2> QED
    <3>1. Ordered(file)' /\ (fpc \in {"write", "move"} => reqs < flush_reqs_)'
      BY <1>1, <2>1, Zenon DEF RecInv, FileInv
    <3> QED
      BY <1>1, <2>1, <2>2, <2>3, <2>4, <2>5, <3>1, ZenonT(30) DEF FileInv
<1>14. PassedInv'
  <2>1. UNCHANGED << fpc, reqs, file, durable, All, sent, flush_reqs_ >> /\ reqs \in Lists
    BY <1>1 DEF flushVars, All, RecInv, RecTypeOK
  <2>2. \A n \in 1 .. Len(All) : All[n] <= sent /\ All[n] < sent
    BY <1>1 DEF RecInv, PassedInv
  <2>3. \A r : Safe(r) => Safe(r)'
    BY <1>1, <2>1 DEF Safe
  <2>4. ASSUME NEW n \in 1 .. Len(All), NEW l \in Lists, l >= flush_reqs_, NEW j \in In(l)' PROVE All[n] < list'[l][j]
    BY <1>6, <2>2, <2>4, Zenon DEF RecInv, PassedInv
  <2>5. ASSUME NEW n \in 1 .. Len(All), fpc \in {"write", "move"}, NEW j \in In(reqs)' PROVE All[n] < list'[reqs][j]
    BY <1>6, <2>1, <2>2, <2>5, Zenon DEF RecInv, PassedInv
  <2>6. ASSUME fpc = "move", NEW j \in In(reqs)' PROVE Safe(list[reqs][j])'
    <3>1. CASE j \in In(reqs) /\ list'[reqs][j] = list[reqs][j]
      <4>1. Safe(list[reqs][j])
        BY <2>6, <3>1, Zenon DEF RecInv, PassedInv
      <4>2. Safe(list[reqs][j])' <=> (list'[reqs][j] \in late' \/ \E n \in 1 .. durable : file[n] = list'[reqs][j])
        BY <2>1 DEF Safe
      <4>3. late \subseteq late'
        BY <1>1
      <4> QED
        BY <3>1, <4>1, <4>2, <4>3, Zenon DEF Safe
    <3>2. CASE reqs = o /\ list'[reqs][j] = sent
      <4>1. o # flush_reqs_
        BY <2>6, <3>2 DEF RecInv, FileInv, RecTypeOK, Lists
      <4>2. sent \in late'
        BY <1>1, <4>1
      <4>3. list'[reqs'][j] = sent
        BY <2>1, <3>2
      <4> QED
        BY <4>2, <4>3, Zenon DEF Safe
    <3> QED
      BY <1>6, <2>1, <3>1, <3>2, Zenon
  <2>7. Ordered(All)' /\ \A n \in 1 .. Len(All) : Safe(All[n])'
    BY <2>1, <2>3 DEF RecInv, PassedInv
  <2> HIDE DEF o
  <2> QED
    BY <1>1, <2>1, <2>2, <2>4, <2>5, <2>6, <2>7, ZenonT(30) DEF PassedInv
<1> QED
  BY <1>5, <1>10, <1>12, <1>13, <1>14 DEF RecInv

-----------------------------------------------------------------------------
(* flush_buf *)

\* The list is taken: all of it comes after what was written and passed on before.
LEMMA FlushTakeKeeps ==
  ASSUME RecInv, FlushTake
  PROVE  RecInv'
<1>1. /\ fpc = "take" /\ i' = 0 /\ reqs' = flush_reqs_
      /\ \/ list[flush_reqs_] = << >> /\ fpc' = "wait" /\ flush_reqs_' = flush_reqs_
         \/ list[flush_reqs_] # << >> /\ fpc' = "write" /\ flush_reqs_' = flush_reqs_ + 1
      /\ UNCHANGED << list, sent, onto, file, durable, pollVars, callback_reqs_, called, late >>
  BY DEF FlushTake
<1>2. flush_reqs_ \in Lists /\ flush_reqs_ \in Nat /\ MaxReq \in Nat
  BY RecorderAssumption DEF RecInv, RecTypeOK, Lists
<1>3. CASE list[flush_reqs_] = << >> /\ fpc' = "wait" /\ flush_reqs_' = flush_reqs_
  <2>1. RecTypeOK'
    BY <1>1, <1>2, <1>3, Zenon DEF RecInv, RecTypeOK, pollVars
  <2>2. ListInv' /\ SubmitInv'
    BY <1>1, <1>3, Zenon DEF RecInv, ListInv, SubmitInv, In
  <2>3. FileInv'
    BY <1>1, <1>3 DEF RecInv, FileInv, In
  <2>4. PassedInv'
    BY <1>1, <1>3 DEF RecInv, PassedInv, In, All, Safe
  <2> QED
    BY <2>1, <2>2, <2>3, <2>4 DEF RecInv
<1>4. CASE list[flush_reqs_] # << >> /\ fpc' = "write" /\ flush_reqs_' = flush_reqs_ + 1
  <2>1. list[flush_reqs_] \in Seq(Reqs) /\ 1 \in In(flush_reqs_)
    BY <1>2, <1>4 DEF RecInv, RecTypeOK, In
  <2>2. list[flush_reqs_][1] \in Reqs /\ list[flush_reqs_][1] >= flush_reqs_
    BY <1>2, <2>1 DEF RecInv, ListInv, In
  <2>3. flush_reqs_' \in Lists
    BY <1>2, <1>4, <2>2 DEF Reqs, Lists
  <2>4. RecTypeOK'
    BY <1>1, <1>2, <1>4, <2>3, Zenon DEF RecInv, RecTypeOK, pollVars
  <2>5. \A l \in Lists : l \in Int /\ (l >= flush_reqs_' => l >= flush_reqs_) /\ (l < flush_reqs_' => l < flush_reqs_ \/ l = flush_reqs_)
                         /\ (l > flush_reqs_' => l > flush_reqs_)
    BY <1>2, <1>4 DEF Lists
  <2>6. ListInv'
    <3>1. \A l \in Lists : (l < flush_reqs_' => list[l] # << >>) /\ (l > flush_reqs_' => list[l] = << >>)
      BY <1>4, <2>5 DEF RecInv, ListInv
    <3> QED
      BY <1>1, <3>1, Zenon DEF RecInv, ListInv, In
  <2>7. SubmitInv'
    <3>1. onto # 0 => onto <= flush_reqs_'
      BY <1>2, <1>4, RecorderAssumption DEF RecInv, SubmitInv, RecTypeOK, Lists
    <3> QED
      BY <1>1, <3>1, Zenon DEF RecInv, SubmitInv, In
  <2>8. \A l : In(l)' = In(l)
    BY <1>1 DEF In
  <2>9. \A j \in In(flush_reqs_) : (\A n \in 1 .. Len(file) : file[n] < list[flush_reqs_][j])
                                /\ (\A n \in 1 .. Len(All) : All[n] < list[flush_reqs_][j])
    <3>1. flush_reqs_ >= flush_reqs_
      BY <1>2
    <3> QED
      BY <1>2, <3>1, Zenon DEF RecInv, FileInv, PassedInv
  <2>10. FileInv'
    <3>1. reqs' < flush_reqs_'
      BY <1>1, <1>2, <1>4
    <3>2. Ordered(file)' /\ \A n \in 1 .. Len(file) : file[n] <= sent /\ (onto # 0 => file[n] < sent)
      BY <1>1 DEF RecInv, FileInv
    <3>3. \A n \in 1 .. Len(file) : \A l \in Lists : l >= flush_reqs_' => \A j \in In(l) : file[n] < list[l][j]
      BY <2>5, Zenon DEF RecInv, FileInv
    <3>4. i' <= Len(list'[reqs']) /\ 1 .. i' = {}
      BY <1>1, <2>1
    <3> QED
      BY <1>1, <1>4, <2>8, <2>9, <3>1, <3>2, <3>3, <3>4, ZenonT(30) DEF FileInv
  <2>11. PassedInv'
    <3>1. All' = All /\ (\A r : Safe(r)' <=> Safe(r)) /\ fpc' # "move"
      BY <1>1, <1>4 DEF All, Safe
    <3>2. Ordered(All) /\ \A n \in 1 .. Len(All) : Safe(All[n]) /\ All[n] <= sent /\ (onto # 0 => All[n] < sent)
      BY DEF RecInv, PassedInv
    <3>3. \A n \in 1 .. Len(All) : \A l \in Lists : l >= flush_reqs_' => \A j \in In(l) : All[n] < list[l][j]
      BY <2>5, Zenon DEF RecInv, PassedInv
    <3> QED
      BY <1>1, <1>4, <2>8, <2>9, <3>1, <3>2, <3>3, ZenonT(30) DEF PassedInv
  <2> QED
    BY <2>4, <2>6, <2>7, <2>10, <2>11 DEF RecInv
<1> QED
  BY <1>1, <1>3, <1>4

\* Appending to a sequence.
LEMMA Appended ==
  ASSUME NEW S, NEW s \in Seq(S), NEW e \in S
  PROVE  /\ Append(s, e) \in Seq(S) /\ Len(Append(s, e)) = Len(s) + 1 /\ Append(s, e)[Len(s) + 1] = e
         /\ \A n \in 1 .. Len(s) : Append(s, e)[n] = s[n]
OBVIOUS

\* The next request of the list is written: it is larger than all that was.
LEMMA FlushWriteKeeps ==
  ASSUME RecInv, FlushWrite
  PROVE  RecInv'
<1> DEFINE r == list[reqs][i + 1]
<1>1. /\ fpc = "write" /\ i < Len(list[reqs]) /\ file' = Append(file, r) /\ i' = i + 1
      /\ UNCHANGED << list, flush_reqs_, sent, onto, fpc, reqs, durable, pollVars, callback_reqs_, called, late >>
  BY DEF FlushWrite
<1>2. /\ reqs \in Lists /\ reqs < flush_reqs_ /\ i \in Nat /\ list[reqs] \in Seq(Reqs) /\ Len(list[reqs]) \in Nat
      /\ file \in Seq(Reqs) /\ Len(file) \in Nat /\ durable \in 0 .. Len(file)
  BY <1>1 DEF RecInv, RecTypeOK, FileInv
<1>3. i + 1 \in In(reqs) /\ i + 1 > i /\ r \in Reqs
  BY <1>1, <1>2 DEF In
<1>b. Len(file) \in Nat
  BY <1>2
<1>a. file' \in Seq(Reqs) /\ Len(file') = Len(file) + 1
  <2>1. file' = Append(file, r)
    BY <1>1
  <2> QED
    BY <1>2, <1>3, <2>1, Appended, Zenon
<1>4. /\ Len(file') = Len(file) + 1 /\ file'[Len(file) + 1] = r
      /\ \A n \in 1 .. Len(file) : file'[n] = file[n]
  <2>1. file' = Append(file, r)
    BY <1>1
  <2> QED
    BY <1>2, <1>3, <2>1, Appended
<1>5. RecTypeOK'
  <2>1. file' \in Seq(Reqs) /\ durable \in 0 .. Len(file')
    <3>1. durable \in 0 .. Len(file) /\ Len(file) \in Nat
      BY <1>2
    <3> QED
      BY <1>a, <3>1
  <2> QED
    BY <1>1, <1>2, <2>1 DEF RecInv, RecTypeOK, pollVars
<1>6. ListInv' /\ SubmitInv' /\ \A l : In(l)' = In(l)
  BY <1>1, Zenon DEF RecInv, ListInv, SubmitInv, In
<1>7. \A n \in 1 .. Len(file) : file[n] < r
  BY <1>1, <1>2, <1>3, Zenon DEF RecInv, FileInv
<1>8. \A n \in 1 .. Len(file') : n \in 1 .. Len(file) \/ n = Len(file) + 1
  BY <1>2, <1>4
<1> HIDE DEF r
<1>9. FileInv'
  <2>1. ASSUME NEW m \in 1 .. Len(file'), NEW n \in 1 .. Len(file'), m < n PROVE file'[m] < file'[n]
    <3>1. m \in 1 .. Len(file) /\ file'[m] = file[m]
      <4>1. m \in 1 .. Len(file)
        BY <1>a, <2>1, <1>b
      <4> QED
        BY <1>4, <4>1
    <3>2. CASE n \in 1 .. Len(file)
      BY <1>4, <2>1, <3>1, <3>2, Zenon DEF RecInv, FileInv, Ordered
    <3>3. CASE n = Len(file) + 1
      BY <1>4, <1>7, <3>1, <3>3
    <3> QED
      BY <1>8, <3>2, <3>3
  <2>2. ASSUME NEW n \in 1 .. Len(file')
        PROVE  /\ file'[n] <= sent /\ (onto # 0 => file'[n] < sent)
               /\ \A l \in Lists : l >= flush_reqs_ => \A j \in In(l) : file'[n] < list[l][j]
               /\ \A j \in In(reqs) : j > i + 1 => file'[n] < list[reqs][j]
    <3>1. CASE n \in 1 .. Len(file)
      <4>1. \A j \in In(reqs) : j > i + 1 => j > i
        BY <1>2 DEF In
      <4>2. file'[n] = file[n]
        BY <1>4, <3>1
      <4> QED
        BY <1>1, <3>1, <4>1, <4>2, Zenon DEF RecInv, FileInv
    <3>2. CASE n = Len(file) + 1
      <4>1. file'[n] = list[reqs][i + 1]
        BY <1>4, <3>2 DEF r
      <4>2. list[reqs][i + 1] <= sent /\ (onto # 0 => list[reqs][i + 1] < sent)
        BY <1>2, <1>3, Zenon DEF RecInv, SubmitInv
      <4>3. \A l \in Lists : l >= flush_reqs_ => reqs < l
        BY <1>2, RecorderAssumption DEF RecInv, RecTypeOK, Lists
      <4>4. \A l \in Lists : l >= flush_reqs_ => \A j \in In(l) : list[reqs][i + 1] < list[l][j]
        BY <1>2, <1>3, <4>3, Zenon DEF RecInv, ListInv
      <4>5. \A j \in In(reqs) : j > i + 1 => list[reqs][i + 1] < list[reqs][j]
        BY <1>2, <1>3, Zenon DEF RecInv, ListInv, Ordered, In
      <4> QED
        BY <4>1, <4>2, <4>4, <4>5, Zenon
    <3> QED
      BY <1>8, <3>1, <3>2, Zenon
  <2>3. i' <= Len(list'[reqs'])
    BY <1>1, <1>2
  <2>4. ASSUME NEW j \in 1 .. i + 1 PROVE \E n \in 1 .. Len(file') : file'[n] = list[reqs][j]
    <3>1. CASE j = i + 1
      BY <1>2, <1>4, <3>1 DEF r
    <3>2. CASE j # i + 1
      <4>1. j \in 1 .. i
        BY <1>2, <3>2
      <4>2. PICK n \in 1 .. Len(file) : file[n] = list[reqs][j]
        BY <1>1, <4>1, Zenon DEF RecInv, FileInv
      <4> QED
        BY <1>2, <1>4, <4>2
    <3> QED
      BY <3>1, <3>2
  <2>5. Ordered(file)'
    BY <2>1 DEF Ordered
  <2> QED
    BY <1>1, <1>2, <1>6, <2>2, <2>3, <2>4, <2>5, ZenonT(30) DEF FileInv
<1>10. PassedInv'
  <2>1. All' = All
    BY <1>1 DEF All
  <2>2. \A x : Safe(x) => Safe(x)'
    <3>1. \A n \in 1 .. durable : file'[n] = file[n]
      BY <1>2, <1>4
    <3> QED
      BY <1>1, <3>1, Zenon DEF Safe
  <2> QED
    BY <1>1, <1>6, <2>1, <2>2, ZenonT(30) DEF RecInv, PassedInv
<1> QED
  BY <1>5, <1>6, <1>9, <1>10 DEF RecInv

\* When the whole list is written it is made durable.
LEMMA FlushSyncKeeps ==
  ASSUME RecInv, FlushSync
  PROVE  RecInv'
<1>1. /\ fpc = "write" /\ i = Len(list[reqs]) /\ durable' = Len(file) /\ fpc' = "move"
      /\ UNCHANGED << list, flush_reqs_, sent, onto, reqs, i, file, pollVars, callback_reqs_, called, late >>
  BY DEF FlushSync
<1>2. Len(file) \in Nat /\ durable \in 0 .. Len(file)
  BY DEF RecInv, RecTypeOK
<1>3. RecTypeOK'
  BY <1>1, <1>2 DEF RecInv, RecTypeOK, pollVars
<1>4. ListInv' /\ SubmitInv' /\ \A l : In(l)' = In(l)
  BY <1>1, Zenon DEF RecInv, ListInv, SubmitInv, In
<1>5. FileInv'
  BY <1>1, <1>4 DEF RecInv, FileInv
<1>6. PassedInv'
  <2>1. All' = All
    BY <1>1 DEF All
  <2>2. \A x : Safe(x) => Safe(x)'
    BY <1>1, <1>2 DEF Safe
  <2>3. ASSUME NEW j \in In(reqs) PROVE Safe(list[reqs][j])'
    <3>1. PICK n \in 1 .. Len(file) : file[n] = list[reqs][j]
      BY <1>1, Zenon DEF RecInv, FileInv, In
    <3> QED
      BY <1>1, <3>1, Zenon DEF Safe
  <2>4. /\ Ordered(All)' /\ \A n \in 1 .. Len(All) : Safe(All[n])' /\ All[n] <= sent /\ (onto # 0 => All[n] < sent)
        /\ \A n \in 1 .. Len(All) : \A l \in Lists : l >= flush_reqs_ => \A j \in In(l) : All[n] < list[l][j]
        /\ \A n \in 1 .. Len(All) : \A j \in In(reqs) : All[n] < list[reqs][j]
    BY <1>1, <2>1, <2>2, Zenon DEF RecInv, PassedInv
  <2> QED
    BY <1>1, <1>4, <2>1, <2>3, <2>4, ZenonT(30) DEF PassedInv
<1> QED
  BY <1>3, <1>4, <1>5, <1>6 DEF RecInv

\* The list is appended to those passed on: it is in order, comes after them, and what it
\* has is on disk or was late.
LEMMA FlushMoveKeeps ==
  ASSUME RecInv, FlushMove
  PROVE  RecInv'
<1> DEFINE L == list[reqs]
<1>1. /\ fpc = "move" /\ fpc' = "wait" /\ callback_reqs_' = callback_reqs_ \o L
      /\ UNCHANGED << list, flush_reqs_, sent, onto, reqs, i, file, durable, pollVars, called, late >>
  BY DEF FlushMove
<1>2. /\ reqs \in Lists /\ reqs < flush_reqs_ /\ L \in Seq(Reqs) /\ Len(L) \in Nat
      /\ callback_reqs_ \in Seq(Reqs) /\ called \in Seq(Reqs)
  BY <1>1 DEF RecInv, RecTypeOK, FileInv
<1>3. RecTypeOK'
  BY <1>1, <1>2 DEF RecInv, RecTypeOK, pollVars
<1>4. ListInv' /\ SubmitInv' /\ \A l : In(l)' = In(l)
  BY <1>1, Zenon DEF RecInv, ListInv, SubmitInv, In
<1>5. FileInv'
  BY <1>1, <1>4 DEF RecInv, FileInv
<1>6. All' = All \o L /\ All \in Seq(Reqs) /\ Len(All) \in Nat
  <2>1. (called \o callback_reqs_) \o L = called \o (callback_reqs_ \o L)
    <3> HIDE DEF L
    <3>1. ASSUME NEW s \in Seq(Reqs), NEW t \in Seq(Reqs), NEW u \in Seq(Reqs) PROVE (s \o t) \o u = s \o (t \o u)
      OBVIOUS
    <3> QED
      BY <1>2, <3>1, Zenon
  <2>2. called \o callback_reqs_ \in Seq(Reqs)
    BY <1>2
  <2>3. All' = All \o L /\ All \in Seq(Reqs)
    BY <1>1, <2>1, <2>2, Zenon DEF All
  <2> QED
    BY <2>3
<1> HIDE DEF L
<1>7. /\ Len(All') = Len(All) + Len(L) /\ \A n \in 1 .. Len(All) : All'[n] = All[n]
      /\ \A n \in 1 .. Len(All') : n \in 1 .. Len(All) \/ (n - Len(All) \in 1 .. Len(L) /\ All'[n] = L[n - Len(All)])
  BY <1>2, <1>6
<1>8. In(reqs) = 1 .. Len(L) /\ \A j : list[reqs][j] = L[j]
  BY DEF In, L
<1>9. ASSUME NEW m \in 1 .. Len(All'), NEW n \in 1 .. Len(All'), m < n PROVE All'[m] < All'[n]
  <2>1. CASE n \in 1 .. Len(All)
    <3>1. m \in 1 .. Len(All)
      BY <1>6, <1>9, <2>1
    <3> QED
      BY <1>7, <1>9, <2>1, <3>1, Zenon DEF RecInv, PassedInv, Ordered
  <2>2. CASE n \notin 1 .. Len(All) /\ m \in 1 .. Len(All)
    <3>1. n - Len(All) \in In(reqs) /\ All'[n] = list[reqs][n - Len(All)] /\ All'[m] = All[m]
      BY <1>7, <1>8, <2>2, Zenon
    <3> QED
      BY <1>1, <2>2, <3>1, Zenon DEF RecInv, PassedInv
  <2>3. CASE n \notin 1 .. Len(All) /\ m \notin 1 .. Len(All)
    <3> DEFINE j == m - Len(All)
               k == n - Len(All)
    <3>1. j \in 1 .. Len(L) /\ k \in 1 .. Len(L) /\ j < k /\ All'[m] = L[j] /\ All'[n] = L[k]
      BY <1>6, <1>7, <1>9, <2>3
    <3>2. Ordered(L)
      BY <1>2 DEF RecInv, ListInv, L
    <3> HIDE DEF j, k
    <3> QED
      BY <3>1, <3>2 DEF Ordered
  <2> QED
    BY <2>1, <2>2, <2>3
<1>10. ASSUME NEW n \in 1 .. Len(All')
       PROVE  /\ Safe(All'[n]) /\ All'[n] <= sent /\ (onto # 0 => All'[n] < sent)
              /\ \A l \in Lists : l >= flush_reqs_ => \A j \in In(l) : All'[n] < list[l][j]
  <2>1. CASE n \in 1 .. Len(All)
    BY <1>7, <2>1, Zenon DEF RecInv, PassedInv
  <2>2. CASE n \notin 1 .. Len(All)
    <3>1. PICK k \in In(reqs) : All'[n] = list[reqs][k]
      BY <1>7, <1>8, <2>2, Zenon
    <3>2. Safe(list[reqs][k])
      BY <1>1, <3>1, Zenon DEF RecInv, PassedInv
    <3>3. list[reqs][k] <= sent /\ (onto # 0 => list[reqs][k] < sent)
      BY <1>2, <3>1, Zenon DEF RecInv, SubmitInv
    <3>4. \A l \in Lists : l >= flush_reqs_ => reqs < l
      BY <1>2, RecorderAssumption DEF RecInv, RecTypeOK, Lists
    <3>5. \A l \in Lists : l >= flush_reqs_ => \A j \in In(l) : list[reqs][k] < list[l][j]
      BY <1>2, <3>1, <3>4, Zenon DEF RecInv, ListInv
    <3> QED
      BY <3>1, <3>2, <3>3, <3>5, Zenon
  <2> QED
    BY <2>1, <2>2
<1>11. PassedInv'
  <2>1. Ordered(All)' /\ \A x : Safe(x)' <=> Safe(x)
    BY <1>1, <1>9 DEF Ordered, Safe
  <2> QED
    BY <1>1, <1>4, <1>10, <2>1, ZenonT(30) DEF PassedInv
<1> QED
  BY <1>3, <1>4, <1>5, <1>11 DEF RecInv

-----------------------------------------------------------------------------
\* Every step of the recorder and its threads keeps the invariant.
LEMMA RecNextInv == RecInv /\ [RecNext]_recVars => RecInv'
  BY TimerKeeps, InvokeKeeps, SubmitFindKeeps, SubmitPushKeeps, FlushTakeKeeps, FlushWriteKeeps,
     FlushSyncKeeps, FlushMoveKeeps, Zenon DEF RecNext, Submit, Flush

\* Requests are written once and in the order in which they were submitted, and so are
\* their callbacks called, which they are only for what is on disk or was appended late
\* (Recorder of misc/recorder.cpp), for any number of requests.
THEOREM AlwaysFlushedInOrder == RecSpec => []FlushedInOrder
  BY RecInitInv, RecNextInv, RecInvInOrder, PTL DEF RecSpec
=============================================================================
