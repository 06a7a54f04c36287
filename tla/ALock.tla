-------------------------------- MODULE ALock --------------------------------
(***************************************************************************)
(* The asynchronous locks of src/src/misc/alock.{hpp,cpp}: WaitDieALock,    *)
(* WoundDieALock and TimeoutALock (with and without waiting), the           *)
(* ALockGroup that takes several of them at once, its DragonBall, and the   *)
(* Alarm of misc/alarm.hpp that ends the waits of TimeoutALock.             *)
(*                                                                         *)
(* The locks answer through callbacks, and a callback calls locks again     *)
(* before the first call has returned.  The calls in progress are a stack   *)
(* of frames; a step runs the frame on top.  One thread makes all the       *)
(* calls, as the commented-out mutexes demand.                              *)
(*                                                                         *)
(* An owner makes one request per lock, so it stands for the request's id.  *)
(* Groups lock through ALockGroup::lock_all, and when they have their locks *)
(* may go for more; singles call lock() and abort() of one lock themselves. *)
(***************************************************************************)
EXTENDS Integers, Sequences, SequencesExt, FiniteSets, FiniteSetsExt

CONSTANTS
    Groups, Singles, \* owners
    NLocks,          \* the locks, in the order of their addresses
    MaxPrio,         \* bound: priorities
    Kinds,           \* which classes of locks are considered
    none             \* no owner

ASSUME LockAssumption ==
    /\ NLocks \in Nat \ {0} /\ MaxPrio \in Nat \ {0}
    /\ Groups \cap Singles = {} /\ none \notin Groups \cup Singles
    /\ Kinds \subseteq {"WaitDie", "WoundDie", "Timeout", "Prompt"}

Owners == Groups \cup Singles
Locks == 1 .. NLocks

VARIABLES
    kind,   \* the class of all locks
    lk,     \* each lock [status: status_, n: n_rlock_, q: requests_]
    want,   \* the type of each owner's request for each lock
    tolock, \* tolock_, what lock_all's loop still has to lock
    prio,   \* priority_; the lower the value, the higher the priority
    gs,     \* status_ of each owner
    firm,   \* the owners that have refused to be wounded
    locked, \* locked_ of each group
    left,   \* DragonBall: how many answers each group still waits for
    alarms, \* waiting_ of the Alarm: the requests to time out, in the order of their ids
    stack,  \* the calls in progress, the innermost first
    calls,  \* how often each request was answered
    failed  \* the verify()s that have failed

vars == << kind, lk, want, tolock, prio, gs, firm, locked, left, alarms, stack, calls, failed >>
ownerVars == << want, tolock, prio, gs, firm, locked, left, calls >>

Request == [g : Owners, t : {"R", "W"}, st : {"WAIT", "LOCK", "TIMEOUT"}]
Frame == [op : {"all", "lock", "wound", "erase", "append", "yes", "no", "release", "abort", "verify", "fired"},
          l : 0 .. NLocks, g : Owners, v : Owners \cup {none}]

TypeOK ==
    /\ kind \in Kinds
    /\ \A l \in Locks :
          /\ lk[l].status \in {"FREE", "WLOCKED", "RLOCKED"}
          /\ lk[l].n \in 0 .. Cardinality(Owners)
          /\ lk[l].q \in Seq(Request)
          /\ \A i, j \in DOMAIN lk[l].q : lk[l].q[i].g = lk[l].q[j].g => i = j
    /\ want \in [Owners -> [Locks -> {"R", "W", "-"}]]
    /\ tolock \in [Groups -> SUBSET Locks]
    /\ prio \in [Owners -> 1 .. MaxPrio]
    /\ gs \in [Owners -> {"INIT", "WAIT", "LOCK", "TIMEOUT", "UNLOCK"}]
    /\ firm \subseteq Owners
    /\ locked \in [Groups -> SUBSET Locks]
    /\ left \in [Groups -> 0 .. NLocks]
    /\ alarms \in Seq(Locks \X Owners)
    /\ stack \in Seq(Frame)
    /\ calls \in [Owners -> [Locks -> Nat]]
    /\ failed \subseteq {"answer", "status", "rlocked"}

Init ==
    /\ kind \in Kinds
    /\ lk = [l \in Locks |-> [status |-> "FREE", n |-> 0, q |-> << >>]]
    /\ want = [g \in Owners |-> [l \in Locks |-> "-"]]
    /\ tolock = [g \in Groups |-> {}]
    /\ prio = [g \in Owners |-> 1]
    /\ gs = [g \in Owners |-> "INIT"]
    /\ firm = {} /\ locked = [g \in Groups |-> {}] /\ left = [g \in Groups |-> 0]
    /\ alarms = << >> /\ stack = << >>
    /\ calls = [g \in Owners |-> [l \in Locks |-> 0]]
    /\ failed = {}

-----------------------------------------------------------------------------
(* Queues *)

F(op, l, g) == [op |-> op, l |-> l, g |-> g, v |-> none]
Push(frames) == stack' = frames \o Tail(stack)
Top(op) == stack # << >> /\ stack[1].op = op

Index(q, g) == SelectInSeq(q, LAMBDA e : e.g = g)
HasWriter(q) == \E i \in DOMAIN q : q[i].t = "W"
Readers(q, i) == {j \in i .. Len(q) : \A k \in i .. j : q[k].t = "R"}
Entry(g, l, st) == [g |-> g, t |-> want[g][l], st |-> st]
Enqueue(L, e) == [L EXCEPT !.q = Append(@, e)]

\* read_acquire and write_acquire of the requests at the indices S, and the yes
\* callbacks to make for them.
Acquire(L, S) ==
    [status |-> IF S = {} THEN L.status ELSE IF L.q[Min(S)].t = "W" THEN "WLOCKED" ELSE "RLOCKED",
     n |-> L.n + Cardinality({i \in S : L.q[i].t = "R"}),
     q |-> [i \in DOMAIN L.q |-> IF i \in S THEN [L.q[i] EXCEPT !.st = "LOCK"] ELSE L.q[i]]]
Answers(l, L, S) ==
    LET order == SetToSortSeq(S, <) IN [i \in 1 .. Cardinality(S) |-> F("yes", l, L.q[order[i]].g)]

-----------------------------------------------------------------------------
(* WaitDieALock::vlock *)

\* Fault: equal priorities wait for each other.
WaitsEqual(q, g, t) ==
    LET w == SelectLastInSeq(q, LAMBDA e : e.t = "W") IN
    IF t = "R" THEN prio[g] < prio[q[w].g]
    ELSE \A i \in DOMAIN q : i >= w => prio[g] <= prio[q[i].g]

\* wait_die: may the request wait behind q?  "in order to wait, the coming request
\* needs to have larger priority (less priority value) than all reqs in the queue".
Waits(q, g, t) ==
    LET w == SelectLastInSeq(q, LAMBDA e : e.t = "W") IN
    IF t = "R" THEN prio[g] < prio[q[w].g]
    ELSE \A i \in DOMAIN q : i >= w => prio[g] < prio[q[i].g]

LockWaitDie ==
    /\ Top("lock") /\ kind = "WaitDie"
    /\ LET l == stack[1].l g == stack[1].g t == want[g][l] L == lk[l] A == Enqueue(L, Entry(g, l, "WAIT")) IN
       IF L.status = "FREE" \/ (L.status = "RLOCKED" /\ t = "R" /\ ~HasWriter(L.q))
       THEN lk' = [lk EXCEPT ![l] = Acquire(A, {Len(A.q)})] /\ Push(<< F("yes", l, g) >>)
       ELSE IF Waits(L.q, g, t) THEN lk' = [lk EXCEPT ![l] = A] /\ Push(<< >>)
                                ELSE lk' = lk /\ Push(<< F("no", l, g) >>)
    /\ UNCHANGED << kind, alarms, ownerVars, failed >>

-----------------------------------------------------------------------------
(* WoundDieALock::vlock: wound_die looks at the queue from its end, v being the   *)
(* owner of the request it looks at                                              *)

Wound(l, g, i) == [F("wound", l, g) EXCEPT !.v = IF i = 0 THEN none ELSE lk[l].q[i].g]

LockWoundDie ==
    /\ Top("lock") /\ kind = "WoundDie"
    /\ LET l == stack[1].l g == stack[1].g IN Push(<< Wound(l, g, Len(lk[l].q)) >>)
    /\ UNCHANGED << kind, alarms, lk, ownerVars, failed >>

\* A request of no higher priority that excludes the coming one is wounded.
Aims(g, t, e) == prio[e.g] >= prio[g] /\ (t = "W" \/ e.t = "W")

\* wound_die does not look beyond a request of higher priority, unless it is a
\* reader and the coming one a writer.
Stops(g, t, e) == prio[e.g] < prio[g] /\ (t = "R" \/ e.t = "W")

WoundPass ==
    /\ Top("wound")
    /\ LET f == stack[1] l == f.l g == f.g t == want[g][l] i == Index(lk[l].q, f.v) IN
       \/ /\ f.v = none
          /\ Push(<< F("append", l, g) >>)
       \/ /\ f.v # none /\ ~Aims(g, t, lk[l].q[i])
          /\ Push(<< IF Stops(g, t, lk[l].q[i]) THEN F("append", l, g) ELSE Wound(l, g, i - 1) >>)
    /\ UNCHANGED << kind, alarms, lk, ownerVars, failed >>

\* A waiting request gets its no callback, and is erased when that has returned.
WoundWaiting ==
    /\ Top("wound") /\ stack[1].v # none
    /\ LET f == stack[1] e == lk[f.l].q[Index(lk[f.l].q, f.v)] IN
       /\ Aims(f.g, want[f.g][f.l], e) /\ e.st = "WAIT"
       /\ Push(<< F("no", f.l, f.v), [f EXCEPT !.op = "erase"] >>)
    /\ UNCHANGED << kind, alarms, lk, ownerVars, failed >>

Unqueue(L, i) == [L EXCEPT !.q = RemoveAt(@, i)]

WoundErase ==
    /\ Top("erase")
    /\ LET f == stack[1] i == Index(lk[f.l].q, f.v) IN
       /\ lk' = [lk EXCEPT ![f.l] = Unqueue(@, i)]
       /\ Push(<< Wound(f.l, f.g, i - 1) >>)
    /\ UNCHANGED << kind, alarms, ownerVars, failed >>

\* A request that has the lock loses it, unless its owner refuses: wound_callback,
\* the application's, returns not 0.  It does so only when the owner has all the
\* locks it asked for, and will not ask for more.
WoundHolder ==
    /\ Top("wound") /\ stack[1].v # none
    /\ LET f == stack[1] l == f.l i == Index(lk[l].q, f.v) e == lk[l].q[i] L == lk[l]
           n == IF e.t = "R" THEN L.n - 1 ELSE L.n IN
       /\ Aims(f.g, want[f.g][l], e) /\ e.st = "LOCK"
       /\ Push(<< Wound(l, f.g, i - 1) >>)
       /\ \/ /\ lk' = [lk EXCEPT ![l] = [Unqueue(L, i) EXCEPT !.n = n,
                                            !.status = IF n = 0 THEN "FREE" ELSE @]]
             /\ locked' = [g \in Groups |-> IF g = f.v THEN locked[g] \ {l} ELSE locked[g]]
             /\ gs' = [gs EXCEPT ![f.v] = IF f.v \in Singles THEN "UNLOCK" ELSE @]
             /\ firm' = firm
          \/ gs[f.v] = "LOCK" /\ firm' = firm \cup {f.v} /\ UNCHANGED << lk, locked, gs >>
    /\ UNCHANGED << kind, alarms, want, tolock, prio, left, calls, failed >>

\* The request is queued, and what can have the lock now gets it.
WoundAppend ==
    /\ Top("append")
    /\ LET l == stack[1].l g == stack[1].g A == Enqueue(lk[l], Entry(g, l, "WAIT"))
           S == CASE A.status = "WLOCKED" -> {}
                  [] A.status = "FREE" /\ A.q[1].t = "W" -> {1}
                  [] OTHER -> {i \in Readers(A.q, 1) : A.q[i].st = "WAIT"} IN
       /\ lk' = [lk EXCEPT ![l] = Acquire(A, S)]
       /\ Push(Answers(l, A, S))
       /\ failed' = IF A.status = "FREE" \/ (A.q[1].st = "LOCK" /\ (A.q[1].t = "W" <=> A.status = "WLOCKED"))
                    THEN failed ELSE failed \cup {"status"}
    /\ UNCHANGED << kind, alarms, ownerVars >>

-----------------------------------------------------------------------------
(* TimeoutALock::vlock; "Prompt" is tm_wait_ = 0 *)

LockTimeout ==
    /\ Top("lock") /\ kind \in {"Timeout", "Prompt"}
    /\ LET l == stack[1].l g == stack[1].g L == lk[l] A == Enqueue(L, Entry(g, l, "WAIT"))
           lockable == L.status = "FREE" \/ (L.status = "RLOCKED" /\ want[g][l] = "R") IN
       /\ lk' = [lk EXCEPT ![l] = IF lockable THEN Acquire(A, {Len(A.q)}) ELSE IF kind = "Timeout" THEN A ELSE L]
       /\ Push(IF lockable THEN << F("yes", l, g) >> ELSE IF kind = "Timeout" THEN << >> ELSE << F("no", l, g) >>)
       /\ alarms' = IF ~lockable /\ kind = "Timeout" THEN Append(alarms, << l, g >>) ELSE alarms
    /\ UNCHANGED << kind, ownerVars, failed >>

\* Alarm::exe_next, the time of the first alarm being over, and do_timeout: the
\* request stays in requests_, and the alarm in waiting_ while its function runs.
\* The alarms behind it have to wait, whatever their times.
ExeNext ==
    /\ stack = << >> /\ alarms # << >>
    /\ LET l == alarms[1][1] g == alarms[1][2] i == Index(lk[l].q, g) IN
       /\ i > 0
       /\ lk' = [lk EXCEPT ![l].q[i].st = IF @ = "WAIT" THEN "TIMEOUT" ELSE @]
       /\ stack' = (IF lk[l].q[i].st = "WAIT" THEN << F("no", l, g) >> ELSE << >>) \o << F("fired", l, g) >>
    /\ UNCHANGED << kind, alarms, ownerVars, failed >>

Fired ==
    /\ Top("fired") /\ Push(<< >>)
    /\ alarms' = SelectSeq(alarms, LAMBDA a : a # << stack[1].l, stack[1].g >>)
    /\ UNCHANGED << kind, lk, ownerVars, failed >>

\* Alarm::remove of the alarms of the requests for lock l at the indices S.
RemoveAlarms(l, q, S) == SelectSeq(alarms, LAMBDA a : ~(a[1] = l /\ \E i \in S : q[i].g = a[2]))

-----------------------------------------------------------------------------
(* abort *)

\* A request that holds the lock gives it back: what remains, and who is next.
\* After a reader only a writer can be; TimeoutALock::lock_all passes over the
\* requests that timed out, and over writers once it found a reader.
GiveBack(L, i) ==
    LET n == IF L.q[i].t = "R" THEN L.n - 1 ELSE L.n IN
    [Unqueue(L, i) EXCEPT !.n = n, !.status = IF n = 0 THEN "FREE" ELSE @]
Waiting(q) == {i \in DOMAIN q : q[i].st = "WAIT"}

\* Fault: all waiting readers are let in, also those behind a writer.
NextHoldersAll(L) ==
    IF L.status # "FREE" \/ Waiting(L.q) = {} THEN {}
    ELSE IF L.q[Min(Waiting(L.q))].t = "W" THEN {Min(Waiting(L.q))}
    ELSE Waiting(L.q)

NextHolders(L) ==
    IF L.status # "FREE" \/ Waiting(L.q) = {} THEN {}
    ELSE LET i == Min(Waiting(L.q)) IN
         CASE L.q[i].t = "W" -> {i}
           [] kind = "Timeout" -> {j \in Waiting(L.q) : L.q[j].t = "R"}
           [] OTHER -> Readers(L.q, i)

\* Fault: the lock is given back but nobody gets it.
AbortHolderForgetful ==
    /\ Top("abort")
    /\ LET l == stack[1].l i == Index(lk[l].q, stack[1].g) IN
       /\ i > 0 /\ lk[l].q[i].st = "LOCK"
       /\ lk' = [lk EXCEPT ![l] = GiveBack(@, i)] /\ Push(<< >>)
    /\ UNCHANGED << kind, alarms, ownerVars, failed >>

\* Unlocking.  After the callbacks of readers that follow a writer, the lock is
\* verified to be read locked.
AbortHolder ==
    /\ Top("abort")
    /\ LET l == stack[1].l i == Index(lk[l].q, stack[1].g) IN
       /\ i > 0 /\ lk[l].q[i].st = "LOCK"
       /\ LET L == GiveBack(lk[l], i) S == NextHolders(L) A == Acquire(L, S) IN
          /\ lk' = [lk EXCEPT ![l] = A] /\ alarms' = RemoveAlarms(l, L.q, S)
          /\ Push(Answers(l, L, S) \o
                  IF kind \in {"WaitDie", "WoundDie"} /\ lk[l].q[i].t = "W" /\ A.status = "RLOCKED"
                  THEN << F("verify", l, stack[1].g) >> ELSE << >>)
    /\ UNCHANGED << kind, ownerVars, failed >>

Verify ==
    /\ Top("verify") /\ Push(<< >>)
    /\ failed' = IF lk[stack[1].l].status = "RLOCKED" THEN failed ELSE failed \cup {"rlocked"}
    /\ UNCHANGED << kind, alarms, lk, ownerVars >>

\* Fault: the alarm of a request that is taken back stays.
AbortWaiterKeeps ==
    /\ Top("abort")
    /\ LET l == stack[1].l g == stack[1].g i == Index(lk[l].q, g) IN
       /\ i > 0 /\ lk[l].q[i].st # "LOCK"
       /\ LET L == Unqueue(lk[l], i)
              first == lk[l].q[i].t = "W" /\ ~HasWriter(SubSeq(lk[l].q, 1, i - 1))
              S == IF kind \in {"WaitDie", "WoundDie"} /\ first THEN Readers(L.q, i) ELSE {} IN
          /\ lk' = [lk EXCEPT ![l] = Acquire(L, S)]
          /\ Push(Answers(l, L, S) \o IF kind \in {"WaitDie", "WoundDie"} THEN << F("no", l, g) >> ELSE << >>)
          /\ failed' = IF kind \in {"WaitDie", "WoundDie"} /\ first /\ lk[l].status # "RLOCKED"
                       THEN failed \cup {"status"} ELSE failed
          /\ alarms' = alarms
    /\ UNCHANGED << kind, ownerVars >>

\* A request that waits, or has timed out, is taken back.  When it was the first
\* writer the readers behind it are let in; TimeoutALock makes no callback.
AbortWaiter ==
    /\ Top("abort")
    /\ LET l == stack[1].l g == stack[1].g i == Index(lk[l].q, g) IN
       /\ i > 0 /\ lk[l].q[i].st # "LOCK"
       /\ LET L == Unqueue(lk[l], i)
              first == lk[l].q[i].t = "W" /\ ~HasWriter(SubSeq(lk[l].q, 1, i - 1))
              S == IF kind \in {"WaitDie", "WoundDie"} /\ first THEN Readers(L.q, i) ELSE {} IN
          /\ lk' = [lk EXCEPT ![l] = Acquire(L, S)]
          /\ Push(Answers(l, L, S) \o IF kind \in {"WaitDie", "WoundDie"} THEN << F("no", l, g) >> ELSE << >>)
          /\ failed' = IF kind \in {"WaitDie", "WoundDie"} /\ first /\ lk[l].status # "RLOCKED"
                       THEN failed \cup {"status"} ELSE failed
          /\ alarms' = IF lk[l].q[i].st = "WAIT" THEN RemoveAlarms(l, lk[l].q, {i}) ELSE alarms
    /\ UNCHANGED << kind, ownerVars >>

\* "no request found matching the given id"
AbortNothing ==
    /\ Top("abort") /\ Index(lk[stack[1].l].q, stack[1].g) = 0
    /\ Push(<< >>)
    /\ UNCHANGED << kind, alarms, lk, ownerVars, failed >>

-----------------------------------------------------------------------------
(* ALockGroup *)

\* add() and lock_all(), the latter also "LOCK->WAIT->LOCK".
LockAll(g) ==
    /\ stack = << >> /\ g \in Groups /\ gs[g] \in {"INIT", "LOCK"} /\ g \notin firm
    /\ \E w \in [Locks -> {"R", "W", "-"}], p \in 1 .. MaxPrio :
          LET new == {l \in Locks : w[l] # "-"} IN
          /\ new # {} /\ \A l \in new : want[g][l] = "-"
          /\ gs[g] = "LOCK" => p = prio[g]
          /\ want' = [want EXCEPT ![g] = [l \in Locks |-> IF l \in new THEN w[l] ELSE @[l]]]
          /\ prio' = [prio EXCEPT ![g] = p]
          /\ tolock' = [tolock EXCEPT ![g] = new] /\ left' = [left EXCEPT ![g] = Cardinality(new)]
    /\ gs' = [gs EXCEPT ![g] = "WAIT"]
    /\ stack' = << F("all", 0, g) >>
    /\ UNCHANGED << kind, alarms, lk, firm, locked, calls, failed >>

\* The loop over tolock_, in the order of the locks' addresses.
LockEach ==
    /\ Top("all")
    /\ LET g == stack[1].g l == Min(tolock[g]) IN
       /\ tolock' = [tolock EXCEPT ![g] = @ \ {l}]
       /\ Push(<< F("lock", l, g) >> \o IF tolock[g] = {l} THEN << >> ELSE << stack[1] >>)
    /\ UNCHANGED << kind, alarms, lk, want, prio, gs, firm, locked, left, calls, failed >>

UnlockAll(g) ==
    /\ stack = << >> /\ g \in Groups /\ gs[g] = "LOCK"
    /\ gs' = [gs EXCEPT ![g] = "UNLOCK"]
    /\ stack' = << F("release", 0, g) >>
    /\ UNCHANGED << kind, alarms, lk, want, tolock, prio, firm, locked, left, calls, failed >>

\* Fault: abort_all_locked goes over everything the group asked for.
ReleaseEachAll ==
    /\ Top("release")
    /\ LET rest == {l \in Locks : want[stack[1].g][l] # "-" /\ l > stack[1].l} IN
       Push(IF rest = {} THEN << >>
            ELSE << F("abort", Min(rest), stack[1].g), F("release", Min(rest), stack[1].g) >>)
    /\ UNCHANGED << kind, alarms, lk, ownerVars, failed >>

\* abort_all_locked, past lock l.
ReleaseEach ==
    /\ Top("release")
    /\ LET rest == {l \in locked[stack[1].g] : l > stack[1].l} IN
       Push(IF rest = {} THEN << >>
            ELSE << F("abort", Min(rest), stack[1].g), F("release", Min(rest), stack[1].g) >>)
    /\ UNCHANGED << kind, alarms, lk, ownerVars, failed >>

\* Fault: a group that was refused a lock keeps the others.
TriggerKeeps(g, st) ==
    /\ left' = [left EXCEPT ![g] = IF @ = 0 THEN 0 ELSE @ - 1]
    /\ failed' = IF left[g] = 0 THEN failed \cup {"answer"} ELSE failed
    /\ gs' = [gs EXCEPT ![g] = IF left[g] = 1 /\ st = "WAIT" THEN "LOCK" ELSE st]
    /\ Push(<< >>)

\* DragonBall::trigger, its last answer making the wish: the group has its locks,
\* or, when any of them was refused, gives back those it got.
Trigger(g, st) ==
    /\ left' = [left EXCEPT ![g] = IF @ = 0 THEN 0 ELSE @ - 1]
    /\ failed' = IF left[g] = 0 THEN failed \cup {"answer"} ELSE failed
    /\ gs' = [gs EXCEPT ![g] = IF left[g] = 1 /\ st = "WAIT" THEN "LOCK" ELSE st]
    /\ Push(IF left[g] = 1 /\ st # "WAIT" THEN << F("release", 0, g) >> ELSE << >>)

Answered(g, l) == calls' = [calls EXCEPT ![g][l] = @ + 1]

\* y_cb of a group, or what a single is told.
Yes ==
    /\ Top("yes")
    /\ LET l == stack[1].l g == stack[1].g IN
       /\ Answered(g, l)
       /\ IF g \in Groups
          THEN locked' = [locked EXCEPT ![g] = @ \cup {l}] /\ Trigger(g, gs[g])
          ELSE gs' = [gs EXCEPT ![g] = "LOCK"] /\ Push(<< >>) /\ UNCHANGED << locked, left, failed >>
    /\ UNCHANGED << kind, alarms, lk, want, tolock, prio, firm >>

\* n_cb
No ==
    /\ Top("no")
    /\ LET l == stack[1].l g == stack[1].g IN
       /\ Answered(g, l)
       /\ IF g \in Groups THEN Trigger(g, "TIMEOUT")
          ELSE gs' = [gs EXCEPT ![g] = "TIMEOUT"] /\ Push(<< >>) /\ UNCHANGED << left, failed >>
    /\ UNCHANGED << kind, alarms, lk, want, tolock, prio, firm, locked >>

-----------------------------------------------------------------------------
(* Direct use of one lock *)

LockOne(g) ==
    /\ stack = << >> /\ g \in Singles /\ gs[g] = "INIT"
    /\ \E l \in Locks, t \in {"R", "W"}, p \in 1 .. MaxPrio :
          /\ want' = [want EXCEPT ![g][l] = t] /\ prio' = [prio EXCEPT ![g] = p]
          /\ stack' = << F("lock", l, g) >>
    /\ gs' = [gs EXCEPT ![g] = "WAIT"]
    /\ UNCHANGED << kind, alarms, lk, tolock, firm, locked, left, calls, failed >>

\* Also with the id of a request that was refused.
AbortOne(g) ==
    /\ stack = << >> /\ g \in Singles /\ gs[g] \in {"WAIT", "LOCK", "TIMEOUT"}
    /\ gs' = [gs EXCEPT ![g] = "UNLOCK"]
    /\ stack' = << F("abort", CHOOSE l \in Locks : want[g][l] # "-", g) >>
    /\ UNCHANGED << kind, alarms, lk, want, tolock, prio, firm, locked, left, calls, failed >>

Step ==
    \/ LockWaitDie \/ LockWoundDie \/ LockTimeout
    \/ WoundPass \/ WoundWaiting \/ WoundErase \/ WoundHolder \/ WoundAppend
    \/ AbortHolder \/ AbortWaiter \/ AbortNothing \/ Verify
    \/ LockEach \/ ReleaseEach \/ Yes \/ No \/ Fired

Next ==
    \/ Step
    \/ ExeNext
    \/ \E g \in Owners : LockAll(g) \/ UnlockAll(g) \/ LockOne(g) \/ AbortOne(g)

Spec == Init /\ [][Next]_vars

\* No action or property tells one group from another.
GroupSymmetry == Permutations(Groups)

-----------------------------------------------------------------------------
(* Properties *)

Holders(l) == {i \in DOMAIN lk[l].q : lk[l].q[i].st = "LOCK"}

\* A lock is held by one writer or by readers only, and status_ and n_rlock_ say
\* so, also between the callbacks of one call.
Exclusion ==
    \A l \in Locks :
        LET R == {i \in Holders(l) : lk[l].q[i].t = "R"} W == Holders(l) \ R IN
        /\ W # {} => Cardinality(Holders(l)) = 1
        /\ lk[l].n = Cardinality(R)
        /\ lk[l].status = IF W # {} THEN "WLOCKED" ELSE IF R # {} THEN "RLOCKED" ELSE "FREE"

\* Between calls nobody waits for a lock they could have: not for a free one, nor, as
\* a reader with no writer before them, for one that is read locked.  sanity_check()
\* demands more of the queues with priorities: holders come first, and where one of
\* two requests is a writer a waiter has higher priority than what is before it
\* (WaitDieALock), or lower than any waiter before it (WoundDieALock).
Sane ==
    TypeOK /\ (stack = << >> => \A l \in Locks : LET q == lk[l].q IN
        /\ lk[l].status = "FREE" => Waiting(q) = {}
        /\ lk[l].status = "RLOCKED" => Readers(q, 1) \cap Waiting(q) = {}
        /\ kind \in {"WaitDie", "WoundDie"} =>
            \A i, j \in DOMAIN q : i < j =>
                  /\ q[j].st = "LOCK" => q[i].st = "LOCK"
                  /\ "W" \in {q[i].t, q[j].t} =>
                        IF kind = "WaitDie" THEN prio[q[j].g] < prio[q[i].g]
                        ELSE q[i].st = "WAIT" => prio[q[i].g] < prio[q[j].g])

\* A request is answered at most once, and so is the group's DragonBall
\* (verify(n_ready_ <= n_wait_), dball.hpp); the verify()s on status_ hold, and
\* nothing wound_die calls back changes the queue its iterator goes over.
AnsweredOnce ==
    /\ \A g \in Owners, l \in Locks : calls[g][l] <= 1
    /\ failed \cap {"answer", "status"} = {}
    /\ \A i, j \in DOMAIN stack : i < j /\ stack[i].op = "abort" /\ stack[j].op = "erase"
           => stack[i].l # stack[j].l

\* A request of a TimeoutALock has one alarm while it waits and none when it does not
\* ("If returns true, the callback is successfully removed and will never be invoked",
\* alarm.hpp), except the alarm whose function is running: that one is still the first
\* of waiting_, where exe_next's iterator points.  The function of an alarm has a
\* reference to its request, which so exists when it is called.
AlarmsMatch ==
    /\ \A l \in Locks : \A i \in Waiting(lk[l].q) : kind = "Timeout" =>
          Cardinality({k \in DOMAIN alarms : alarms[k] = << l, lk[l].q[i].g >>}) = 1
    /\ \A k \in DOMAIN alarms : LET l == alarms[k][1] g == alarms[k][2] IN
          \/ \E i \in Waiting(lk[l].q) : lk[l].q[i].g = g
          \/ k = 1 /\ stack # << >> /\ Last(stack) = F("fired", l, g)
    /\ \A j \in DOMAIN stack : stack[j].op = "fired" =>
          j = Len(stack) /\ alarms # << >> /\ alarms[1] = << stack[j].l, stack[j].g >>

\* Between calls locked_ is what the group really holds, all of it if the group
\* was told so and was not wounded since, and nothing once it was refused or has
\* unlocked.
GroupHolds ==
    stack = << >> => \A g \in Groups :
        LET held == {l \in Locks : \E i \in Holders(l) : lk[l].q[i].g = g} IN
        /\ gs[g] \in {"WAIT", "LOCK"} => locked[g] = held
        /\ gs[g] = "LOCK" /\ kind # "WoundDie" => held = {l \in Locks : want[g][l] # "-"}
        /\ gs[g] = "UNLOCK" \/ (gs[g] = "TIMEOUT" /\ left[g] = 0) => held = {}

\* "can't use > here or deadlock" (alock.cpp): between calls there is no circle of
\* owners each of which waits for a request of the next, on whatever locks.
WaitsFor(g, h) ==
    \E l \in Locks : LET q == lk[l].q IN
        \E i, j \in DOMAIN q :
            /\ i < j /\ q[i].g = h /\ q[j].g = g /\ q[j].st = "WAIT"
            /\ "W" \in {q[i].t, q[j].t}
NoCircle ==
    stack = << >> /\ kind \in {"WaitDie", "WoundDie"} =>
        \A S \in SUBSET Owners \ {{}} : \E g \in S : \A h \in S : ~WaitsFor(g, h)
==============================================================================
