-------------------------- MODULE ThreadPoolProofs --------------------------
(***************************************************************************)
(* Proofs about ThreadPool, for every number of workers, owners and jobs.  *)
(***************************************************************************)
EXTENDS ThreadPool, SequenceTheorems, TLAPS

\* A step that names no prover is left to SMT, if need be twice, and then to Zenon.
USE SMTT(10), SMTT(30), Zenon, SMTT(40), SMTT(60)

Element == Jobs \cup {nullptr}

At(w, k, e) == k \in 1..Len(q[w]) /\ q[w][k] = e

-----------------------------------------------------------------------------
(* The inductive invariant. *)

\* Where a job is: it occupies at most one place of one queue, and only while
\* it has not been invoked.
UniquePlace ==
    \A w, v \in Worker : \A k, l \in Nat : \A j \in Jobs :
        At(w, k, j) /\ At(v, l, j) => w = v /\ k = l

QueuedFresh ==
    \A w \in Worker : \A k \in Nat : \A j \in Jobs :
        At(w, k, j) => j \in accepted /\ started[j] = 0

StartedOnce ==
    \A j \in Jobs : started[j] \in {0, 1} /\ (started[j] = 1 => j \in accepted)

NotLost ==
    \A j \in accepted : started[j] = 1 \/ \E w \in Worker : \E k \in Nat : At(w, k, j)

JobInv == UniquePlace /\ QueuedFresh /\ StartedOnce /\ NotLost

\* Which jobs a call of run_async may hold.
CallInv ==
    /\ \A c \in Caller : callJob[c] # nullptr => callJob[c] \notin accepted \cup refused
    /\ \A c, d \in Caller : callJob[c] = callJob[d] /\ callJob[c] # nullptr => c = d
    /\ accepted \cap refused = {}

\* Who may still be active in which phase of the destructor.
PhaseInv ==
    /\ should_stop <=> dpc # "live"
    /\ should_stop => holders = {}
    /\ \A o \in Owners : callJob[o] # nullptr => o \in holders
    /\ \A t \in Thread : callJob[t] # nullptr => running[t] # nullptr
    /\ callJob[Dtor] = nullptr
    /\ dpc # "drain" => running[Dtor] = nullptr
    /\ \A w \in Worker : stage[w] = Exited => running[w] = nullptr /\ PillPushed(w)
    /\ dpc = "live" => di = 0
    /\ dpc \in {"pills", "join", "drain"} => di < N
    /\ dpc = "join" => \A w \in Worker : w < di => stage[w] = Exited
    /\ dpc \in {"drain", "done"} => \A w \in Worker : stage[w] = Exited
    /\ dpc = "drain" => \A w \in Worker : w < di => q[w] = << >>
    /\ dpc = "done" => \A w \in Worker : q[w] = << >>

\* OwnPill, in terms of places.
PillInv ==
    \A w \in Worker :
        IF PillPushed(w) /\ stage[w] # Exited
        THEN \E k \in Nat : At(w, k, nullptr) /\ \A l \in Nat : At(w, l, nullptr) => l = k
        ELSE \A k \in Nat : ~At(w, k, nullptr)

IInv == TypeOK /\ JobInv /\ CallInv /\ PhaseInv /\ PillInv

-----------------------------------------------------------------------------
(* What Queue::push and Queue::try_pop do to the places of a queue. *)

\* Queue::push adds one place at the back and keeps the others.
LEMMA AtPush ==
    ASSUME q \in [Worker -> Seq(Element)],
           NEW v \in Worker, NEW e \in Element,
           q' = [q EXCEPT ![v] = Append(@, e)]
    PROVE  /\ q' \in [Worker -> Seq(Element)]
           /\ \A w \in Worker : \A k \in Nat : \A x \in Element :
                At(w, k, x)' <=> At(w, k, x) \/ (w = v /\ k = Len(q[v]) + 1 /\ x = e)
           /\ \A k \in Nat : \A x \in Element : At(v, k, x) => k # Len(q[v]) + 1
<1>1. /\ Append(q[v], e) \in Seq(Element)
      /\ Len(Append(q[v], e)) = Len(q[v]) + 1
      /\ \A k \in 1..Len(q[v]) : Append(q[v], e)[k] = q[v][k]
      /\ Append(q[v], e)[Len(q[v]) + 1] = e
      /\ Len(q[v]) \in Nat
  BY AppendProperties, LenProperties
<1>2. q' \in [Worker -> Seq(Element)]
  BY <1>1
<1>3. q'[v] = Append(q[v], e) /\ \A w \in Worker \ {v} : q'[w] = q[w]
  OBVIOUS
<1>4. ASSUME NEW w \in Worker, NEW k \in Nat, NEW x \in Element
      PROVE  At(w, k, x)' <=> At(w, k, x) \/ (w = v /\ k = Len(q[v]) + 1 /\ x = e)
  <2>1. CASE w = v
    BY <1>1, <1>3, <2>1 DEF At
  <2>2. CASE w # v
    BY <1>3, <2>2 DEF At
  <2> QED BY <2>1, <2>2
<1>5. \A k \in Nat : \A x \in Element : At(v, k, x) => k # Len(q[v]) + 1
  BY <1>1 DEF At
<1> QED BY <1>2, <1>4, <1>5

\* Queue::try_pop removes the front and moves every other place up by one.
LEMMA AtPop ==
    ASSUME q \in [Worker -> Seq(Element)],
           NEW v \in Worker, q[v] # << >>,
           q' = [q EXCEPT ![v] = Tail(@)]
    PROVE  /\ q' \in [Worker -> Seq(Element)]
           /\ Head(q[v]) \in Element
           /\ At(v, 1, Head(q[v]))
           /\ \A k \in Nat : \A x \in Element : At(v, k, x)' <=> k # 0 /\ At(v, k + 1, x)
           /\ \A w \in Worker : \A k \in Nat : \A x \in Element :
                 w # v => (At(w, k, x)' <=> At(w, k, x))
           /\ \A w \in Worker : q[w] = << >> => q'[w] = << >>
<1>1. /\ Head(q[v]) \in Element
      /\ Tail(q[v]) \in Seq(Element)
      /\ Len(Tail(q[v])) = Len(q[v]) - 1
      /\ \A k \in 1..Len(Tail(q[v])) : Tail(q[v])[k] = q[v][k + 1]
  BY HeadTailProperties
<1>2. Len(q[v]) \in Nat /\ Len(q[v]) # 0 /\ Head(q[v]) = q[v][1]
  BY EmptySeq, LenProperties, Head(q[v]) = q[v][1]
<1>3. q' \in [Worker -> Seq(Element)]
  BY <1>1
<1>4. q'[v] = Tail(q[v]) /\ \A w \in Worker \ {v} : q'[w] = q[w]
  OBVIOUS
<1>5. At(v, 1, Head(q[v]))
  BY <1>2 DEF At
<1>6. \A k \in Nat : \A x \in Element : At(v, k, x)' <=> k # 0 /\ At(v, k + 1, x)
  BY <1>1, <1>2, <1>4 DEF At
<1>7. \A w \in Worker : \A k \in Nat : \A x \in Element :
         w # v => (At(w, k, x)' <=> At(w, k, x))
  BY <1>4 DEF At
<1> QED BY <1>1, <1>3, <1>4, <1>5, <1>6, <1>7

-----------------------------------------------------------------------------
(* Steps that several actions share. *)

\* Taking the front of a queue, whoever does it, keeps every job in one place.
LEMMA PopKeepsJobs ==
    ASSUME TypeOK, JobInv,
           NEW v \in Worker, q[v] # << >>,
           q' = [q EXCEPT ![v] = Tail(@)],
           started' = IF Head(q[v]) = nullptr THEN started
                      ELSE [started EXCEPT ![Head(q[v])] = @ + 1],
           accepted' = accepted
    PROVE  JobInv'
<1>1. q \in [Worker -> Seq(Element)] /\ started \in [Jobs -> Nat] /\ accepted \in SUBSET Jobs
  BY DEF TypeOK, Element
<1>e. PICK e \in Element : e = Head(q[v])
  BY <1>1, AtPop
<1>2. /\ e \in Element
      /\ At(v, 1, e)
      /\ \A k \in Nat : \A x \in Element : At(v, k, x)' <=> k # 0 /\ At(v, k + 1, x)
      /\ \A w \in Worker : \A k \in Nat : \A x \in Element :
            w # v => (At(w, k, x)' <=> At(w, k, x))
  BY <1>1, <1>e, AtPop, Zenon
<1>3. started' = IF e = nullptr THEN started ELSE [started EXCEPT ![e] = @ + 1]
  BY <1>e
<1>4. \A w \in Worker : \A k \in Nat : \A j \in Jobs :
         At(w, k, j)' => \E l \in Nat : At(w, l, j) /\ l = (IF w = v THEN k + 1 ELSE k)
  BY <1>2 DEF Element
<1>5. UniquePlace'
  <2> SUFFICES ASSUME NEW w \in Worker, NEW u \in Worker, NEW k \in Nat, NEW l \in Nat,
                      NEW j \in Jobs, At(w, k, j)', At(u, l, j)'
               PROVE  w = u /\ k = l
    BY DEF UniquePlace
  <2>1. PICK k1 \in Nat : At(w, k1, j) /\ k1 = (IF w = v THEN k + 1 ELSE k)
    BY <1>4
  <2>2. PICK l1 \in Nat : At(u, l1, j) /\ l1 = (IF u = v THEN l + 1 ELSE l)
    BY <1>4
  <2>3. w = u /\ k1 = l1
    BY <2>1, <2>2 DEF JobInv, UniquePlace
  <2> QED BY <2>1, <2>2, <2>3
<1>6. \A w \in Worker : \A k \in Nat : ~At(w, k, e)' \/ e = nullptr
  <2> SUFFICES ASSUME NEW w \in Worker, NEW k \in Nat, At(w, k, e)', e \in Jobs
               PROVE  FALSE
    BY <1>2 DEF Element
  <2>1. PICK l \in Nat : At(w, l, e) /\ l = (IF w = v THEN k + 1 ELSE k)
    BY <1>4
  <2>2. w = v /\ l = 1
    BY <1>2, <2>1 DEF JobInv, UniquePlace
  <2>3. k # 0
    BY <1>2, <2>2
  <2> QED BY <2>1, <2>2, <2>3
<1>7. QueuedFresh'
  <2> SUFFICES ASSUME NEW w \in Worker, NEW k \in Nat, NEW j \in Jobs, At(w, k, j)'
               PROVE  j \in accepted /\ started'[j] = 0
    BY DEF QueuedFresh
  <2>1. j \in accepted /\ started[j] = 0
    BY <1>4 DEF JobInv, QueuedFresh
  <2>2. j # e
    BY <1>6, PoolAssumption
  <2> QED BY <1>1, <1>3, <2>1, <2>2
<1>8. e = nullptr \/ (e \in Jobs /\ e \in accepted /\ started[e] = 0)
  BY <1>2 DEF JobInv, QueuedFresh, Element
<1>9. StartedOnce'
  BY <1>1, <1>3, <1>8 DEF JobInv, StartedOnce
<1>10. NotLost'
  <2> SUFFICES ASSUME NEW j \in accepted
               PROVE  started'[j] = 1 \/ \E w \in Worker : \E k \in Nat : At(w, k, j)'
    BY DEF NotLost
  <2>1. CASE started[j] = 1
    BY <1>1, <1>3, <1>8, <2>1
  <2>2. CASE j = e
    BY <1>1, <1>3, <1>8, <2>2, PoolAssumption
  <2>3. CASE started[j] # 1 /\ j # e
    <3>1. PICK w \in Worker, k \in Nat : At(w, k, j)
      BY <2>3 DEF JobInv, NotLost
    <3>2. CASE w # v
      BY <1>1, <1>2, <3>1, <3>2 DEF Element
    <3>3. CASE w = v
      <4>1. k # 1 /\ k # 0
        BY <1>2, <2>3, <3>1, <3>3 DEF At
      <4>2. k - 1 \in Nat /\ k - 1 # 0 /\ (k - 1) + 1 = k
        BY <4>1
      <4>3. At(v, k - 1, j)'
        BY <1>1, <1>2, <3>1, <3>3, <4>2 DEF Element
      <4> QED BY <4>2, <4>3
    <3> QED BY <3>2, <3>3
  <2> QED BY <2>1, <2>2, <2>3
<1> QED BY <1>5, <1>7, <1>9, <1>10 DEF JobInv

\* So does a push, of a pill or of a job that was not accepted before.
LEMMA PushKeepsJobs ==
    ASSUME TypeOK, JobInv,
           NEW v \in Worker, NEW e \in Element,
           e \in Jobs => e \notin accepted,
           q' = [q EXCEPT ![v] = Append(@, e)],
           started' = started,
           accepted' = accepted \cup (IF e = nullptr THEN {} ELSE {e})
    PROVE  JobInv'
<1>1. q \in [Worker -> Seq(Element)] /\ started \in [Jobs -> Nat] /\ accepted \in SUBSET Jobs
  BY DEF TypeOK, Element
<1>2. /\ \A w \in Worker : \A k \in Nat : \A x \in Element :
           At(w, k, x)' <=> At(w, k, x) \/ (w = v /\ k = Len(q[v]) + 1 /\ x = e)
      /\ \A k \in Nat : \A x \in Element : At(v, k, x) => k # Len(q[v]) + 1
  BY <1>1, AtPush, Zenon
<1>3. e \in Jobs => started[e] = 0 /\ \A w \in Worker : \A k \in Nat : ~At(w, k, e)
  BY <1>1 DEF JobInv, StartedOnce, QueuedFresh
<1>4. PICK n : n = Len(q[v]) + 1
  OBVIOUS
<1>5. \A w \in Worker : \A k \in Nat : \A j \in Jobs :
         At(w, k, j)' <=> At(w, k, j) \/ (w = v /\ k = n /\ j = e)
  BY <1>2, <1>4 DEF Element
<1>6. UniquePlace'
  BY <1>3, <1>5 DEF JobInv, UniquePlace
<1>7. QueuedFresh'
  BY <1>3, <1>5, PoolAssumption DEF JobInv, QueuedFresh
<1>8. StartedOnce'
  BY DEF JobInv, StartedOnce
<1>9. NotLost'
  <2> SUFFICES ASSUME NEW j \in accepted'
               PROVE  started[j] = 1 \/ \E w \in Worker : \E k \in Nat : At(w, k, j)'
    BY DEF NotLost
  <2>1. CASE j \in accepted
    BY <1>1, <1>5, <2>1 DEF JobInv, NotLost
  <2>2. CASE j \notin accepted
    <3>1. j = e /\ e \in Jobs
      BY <2>2 DEF Element
    <3>2. n \in Nat
      BY <1>1, <1>4, LenProperties
    <3> QED BY <1>5, <3>1, <3>2
  <2> QED BY <2>1, <2>2
<1> QED BY <1>6, <1>7, <1>8, <1>9 DEF JobInv

\* A push that is not a pill, and a pop that is not one, keep the pills apart.
LEMMA PushKeepsPills ==
    ASSUME TypeOK, PillInv,
           NEW v \in Worker, NEW j \in Jobs,
           q' = [q EXCEPT ![v] = Append(@, j)],
           UNCHANGED << stage, dpc, di >>
    PROVE  PillInv'
<1>1. q \in [Worker -> Seq(Element)]
  BY DEF TypeOK, Element
<1>2. \A w \in Worker : \A k \in Nat : At(w, k, nullptr)' <=> At(w, k, nullptr)
  BY <1>1, AtPush, PoolAssumption, Zenon DEF Element
<1> QED BY <1>2 DEF PillInv, PillPushed

\* Taking a job off a queue leaves the pills where they are.
LEMMA PopKeepsPills ==
    ASSUME TypeOK, PillInv,
           NEW v \in Worker, q[v] # << >>, Head(q[v]) # nullptr,
           q' = [q EXCEPT ![v] = Tail(@)],
           \A w \in Worker : stage'[w] = Exited <=> stage[w] = Exited,
           UNCHANGED << dpc, di >>
    PROVE  PillInv'
<1>1. q \in [Worker -> Seq(Element)]
  BY DEF TypeOK, Element
<1>2. /\ At(v, 1, Head(q[v]))
      /\ \A k \in Nat : At(v, k, nullptr)' <=> k # 0 /\ At(v, k + 1, nullptr)
      /\ \A w \in Worker : \A k \in Nat :
            w # v => (At(w, k, nullptr)' <=> At(w, k, nullptr))
  BY <1>1, AtPop, Zenon DEF Element
<1>3. \A w \in Worker : PillPushed(w)' <=> PillPushed(w)
  BY DEF PillPushed
<1>4. ASSUME NEW w \in Worker
      PROVE  IF PillPushed(w)' /\ stage'[w] # Exited
             THEN \E k \in Nat : At(w, k, nullptr)' /\ \A l \in Nat : At(w, l, nullptr)' => l = k
             ELSE \A k \in Nat : ~At(w, k, nullptr)'
  <2>1. CASE w # v
    BY <1>2, <1>3, <2>1, Zenon DEF PillInv
  <2>2. CASE w = v /\ PillPushed(w) /\ stage[w] # Exited
    <3>1. PICK k \in Nat : At(v, k, nullptr) /\ \A l \in Nat : At(v, l, nullptr) => l = k
      BY <2>2 DEF PillInv
    <3>2. k # 1 /\ k # 0
      BY <1>2, <3>1 DEF At
    <3>3. k - 1 \in Nat /\ k - 1 # 0 /\ (k - 1) + 1 = k
      BY <3>2
    <3>4. At(v, k - 1, nullptr)'
      BY <1>2, <3>1, <3>3
    <3>5. \A l \in Nat : At(v, l, nullptr)' => l = k - 1
      BY <1>2, <3>1
    <3> QED BY <1>3, <2>2, <3>3, <3>4, <3>5
  <2>3. CASE w = v /\ ~(PillPushed(w) /\ stage[w] # Exited)
    BY <1>2, <1>3, <2>3 DEF PillInv
  <2> QED BY <2>1, <2>2, <2>3, Zenon
<1> QED BY <1>4 DEF PillInv

\* A worker that pops its own pill leaves its loop at the same step.
LEMMA OwnPillPop ==
    ASSUME TypeOK, PillInv,
           NEW v \in Worker, q[v] # << >>, Head(q[v]) = nullptr, stage[v] # Exited,
           q' = [q EXCEPT ![v] = Tail(@)],
           stage' = [stage EXCEPT ![v] = Exited],
           UNCHANGED << dpc, di >>
    PROVE  PillInv'
<1>1. q \in [Worker -> Seq(Element)] /\ stage \in [Worker -> 0..Exited]
  BY DEF TypeOK, Element
<1>2. /\ At(v, 1, nullptr)
      /\ \A k \in Nat : At(v, k, nullptr)' <=> k # 0 /\ At(v, k + 1, nullptr)
      /\ \A w \in Worker : \A k \in Nat :
            w # v => (At(w, k, nullptr)' <=> At(w, k, nullptr))
  BY <1>1, AtPop, Zenon DEF Element
<1>3. \A w \in Worker : PillPushed(w)' <=> PillPushed(w)
  BY DEF PillPushed
<1>4. stage'[v] = Exited /\ \A w \in Worker : w # v => stage'[w] = stage[w]
  BY <1>1
<1>5. \A l \in Nat : At(v, l, nullptr) => l = 1
  BY <1>2 DEF PillInv
<1>6. \A k \in Nat : ~At(v, k, nullptr)'
  BY <1>2, <1>5
<1> QED BY <1>2, <1>3, <1>4, <1>6 DEF PillInv

\* The parts of the invariant depend only on the variables they mention.
LEMMA Frames ==
    /\ JobInv /\ UNCHANGED << q, accepted, started >> => JobInv'
    /\ CallInv /\ UNCHANGED << callJob, accepted, refused >> => CallInv'
    /\ PillInv /\ UNCHANGED << q, dpc, di >>
         /\ (\A w \in Worker : stage'[w] = Exited <=> stage[w] = Exited) => PillInv'
<1>1. JobInv /\ UNCHANGED << q, accepted, started >> => JobInv'
  <2> SUFFICES ASSUME JobInv, UNCHANGED << q, accepted, started >>
               PROVE  JobInv'
    OBVIOUS
  <2>1. \A w, k, e : At(w, k, e)' <=> At(w, k, e)
    BY DEF At
  <2>2. UniquePlace'
    BY <2>1 DEF JobInv, UniquePlace
  <2>3. QueuedFresh' /\ StartedOnce'
    BY <2>1 DEF JobInv, QueuedFresh, StartedOnce
  <2>4. NotLost'
    BY <2>1 DEF JobInv, NotLost
  <2> QED BY <2>2, <2>3, <2>4 DEF JobInv
<1>2. CallInv /\ UNCHANGED << callJob, accepted, refused >> => CallInv'
  BY DEF CallInv
<1>3. PillInv /\ UNCHANGED << q, dpc, di >>
         /\ (\A w \in Worker : stage'[w] = Exited <=> stage[w] = Exited) => PillInv'
  BY DEF PillInv, PillPushed, At
<1> QED BY <1>1, <1>2, <1>3

\* A new pool satisfies the invariant.
LEMMA InitIInv == Init => IInv
<1> SUFFICES ASSUME Init PROVE IInv
  OBVIOUS
<1> USE PoolAssumption
<1>1. 0 \in Worker /\ Dtor \in Thread /\ Worker \subseteq Thread
  BY DEF Worker, Dtor, Thread
<1>2. TypeOK
  <2>1. << >> \in Seq(Jobs \cup {nullptr})
    BY EmptySeq
  <2> QED BY <1>1, <2>1 DEF Init, TypeOK, Exited
<1>3. \A w \in Worker : \A k \in Nat : \A e \in Element : ~At(w, k, e)
  <2>1. \A w \in Worker : Len(q[w]) = 0
    BY DEF Init
  <2> QED BY <2>1 DEF At
<1>4. JobInv
  BY <1>3 DEF Init, JobInv, UniquePlace, QueuedFresh, StartedOnce, NotLost, Element
<1>5. CallInv
  BY DEF Init, CallInv
<1>6. PhaseInv
  BY <1>1 DEF Init, PhaseInv, Caller, Exited
<1>7. PillInv
  BY <1>3 DEF Init, PillInv, PillPushed, Element
<1> QED BY <1>2, <1>4, <1>5, <1>6, <1>7 DEF IInv

\* Every action preserves the invariant.
LEMMA NextIInv == IInv /\ [Next]_vars => IInv'
<1> SUFFICES ASSUME IInv, [Next]_vars PROVE IInv'
  OBVIOUS
<1> USE PoolAssumption
<1>t. /\ 0 \in Worker /\ Dtor \in Thread /\ Worker \subseteq Thread
      /\ Thread \subseteq Caller /\ Owners \subseteq Caller
      /\ Dtor \notin Worker /\ \A w \in Worker : w \in 0..N /\ w + 1 \in 0..N
      /\ Thread = Worker \cup {Dtor} /\ Owners \cap Thread = {}
  BY DEF Worker, Dtor, Thread, Caller
<1>i. TypeOK /\ JobInv /\ CallInv /\ PhaseInv /\ PillInv
  BY DEF IInv
<1>1. ASSUME NEW c \in Caller, NEW j \in Jobs, RunAsyncRefused(c, j)
      PROVE  IInv'
  <2>1. TypeOK'
    BY <1>t, <1>i, <1>1, Zenon DEF RunAsyncRefused, TypeOK
  <2>2. JobInv'
    BY <1>i, <1>1, Frames DEF RunAsyncRefused
  <2>3. CallInv'
    BY <1>i, <1>1 DEF RunAsyncRefused, CallInv, Fresh
  <2>4. PhaseInv'
    BY <1>t, <1>i, <1>1 DEF RunAsyncRefused, PhaseInv, PillPushed, TypeOK
  <2>5. PillInv'
    BY <1>i, <1>1, Frames DEF RunAsyncRefused
  <2> QED BY <2>1, <2>2, <2>3, <2>4, <2>5 DEF IInv
<1>2. ASSUME NEW c \in Caller, NEW j \in Jobs, RunAsyncDraw(c, j)
      PROVE  IInv'
  <2>0. round_robin % N \in Worker
    BY <1>i DEF TypeOK, Worker
  <2>1. TypeOK'
    <3>1. callQueue' \in [Caller -> Worker]
      <4>1. PICK n \in Worker : n = round_robin % N
        BY <2>0
      <4>2. callQueue' = [callQueue EXCEPT ![c] = n] /\ callQueue \in [Caller -> Worker]
        BY <1>i, <1>2, <4>1 DEF RunAsyncDraw, TypeOK
      <4> QED BY <4>2
    <3>2. round_robin' \in Nat /\ callJob' \in [Caller -> Jobs \cup {nullptr}]
      BY <1>i, <1>2 DEF RunAsyncDraw, TypeOK
    <3> QED BY <1>i, <1>2, <3>1, <3>2 DEF RunAsyncDraw, TypeOK
  <2>2. JobInv'
    BY <1>i, <1>2, Frames DEF RunAsyncDraw
  <2>3. CallInv'
    BY <1>i, <1>2 DEF RunAsyncDraw, CallInv, Fresh, TypeOK
  <2>4. PhaseInv'
    <3>1. dpc = "live" /\ c # Dtor
      BY <1>t, <1>i, <1>2 DEF RunAsyncDraw, CanCall, PhaseInv, TypeOK
    <3>2. callJob'[c] = j /\ \A d \in Caller : d # c => callJob'[d] = callJob[d]
      BY <1>i, <1>2 DEF RunAsyncDraw, TypeOK
    <3>3. c \in holders \/ (c \in Thread /\ running[c] # nullptr)
      BY <1>2 DEF RunAsyncDraw, CanCall
    <3>4. \A o \in Owners : callJob'[o] # nullptr => o \in holders
      BY <1>t, <1>i, <3>2, <3>3 DEF PhaseInv
    <3>5. \A t \in Thread : callJob'[t] # nullptr => running[t] # nullptr
      <4>1. holders \subseteq Owners
        BY <1>i DEF TypeOK
      <4> QED BY <1>t, <1>i, <3>2, <3>3, <4>1 DEF PhaseInv
    <3>6. callJob'[Dtor] = nullptr
      BY <1>t, <1>i, <3>1, <3>2 DEF PhaseInv
    <3> QED BY <1>i, <1>2, <3>1, <3>4, <3>5, <3>6 DEF RunAsyncDraw, PhaseInv, PillPushed
  <2>5. PillInv'
    BY <1>i, <1>2, Frames DEF RunAsyncDraw
  <2> QED BY <2>1, <2>2, <2>3, <2>4, <2>5 DEF IInv
<1>3. ASSUME NEW c \in Caller, RunAsyncPush(c)
      PROVE  IInv'
  <2> DEFINE v == callQueue[c]
             j == callJob[c]
  <2>0. v \in Worker /\ j \in Jobs /\ j \in Element /\ j \notin accepted \cup refused
    BY <1>i, <1>3 DEF RunAsyncPush, TypeOK, CallInv, Element
  <2>a. q' = [q EXCEPT ![v] = Append(@, j)] /\ accepted' = accepted \cup {j}
    BY <1>3 DEF RunAsyncPush
  <2>1. TypeOK'
    <3>1. q' \in [Worker -> Seq(Jobs \cup {nullptr})]
      BY <1>i, <2>0, <2>a, AtPush DEF TypeOK, Element
    <3> QED BY <1>i, <1>3, <2>0, <2>a, <3>1 DEF RunAsyncPush, TypeOK
  <2>2. JobInv'
    BY <1>i, <1>3, <2>0, <2>a, PushKeepsJobs, Zenon DEF RunAsyncPush
  <2>3. CallInv'
    BY <1>i, <1>3, <2>0, <2>a DEF RunAsyncPush, CallInv, TypeOK
  <2>4. PhaseInv'
    <3>1. dpc \notin {"drain", "done"}
      BY <1>t, <1>i, <1>3, Zenon DEF RunAsyncPush, PhaseInv, Caller, TypeOK
    <3> QED BY <1>t, <1>i, <1>3, <3>1, Zenon DEF RunAsyncPush, PhaseInv, PillPushed, TypeOK
  <2>5. PillInv'
    BY <1>i, <1>3, <2>0, <2>a, PushKeepsPills, Zenon DEF RunAsyncPush
  <2> QED BY <2>1, <2>2, <2>3, <2>4, <2>5 DEF IInv
<1>p. ASSUME NEW w \in Worker, NEW v \in Worker, q[v] # << >>, Idle(w), stage[w] # Exited,
             v = w \/ Head(q[v]) # nullptr,
             Obtain(w, Head(q[v])), q' = [q EXCEPT ![v] = Tail(@)], untried' = untried,
             UNCHANGED << should_stop, round_robin, holders, callJob, callQueue, dpc, di,
                          accepted, refused >>
      PROVE  IInv'
  <2>0. Head(q[v]) \in Jobs \cup {nullptr} /\ q' \in [Worker -> Seq(Jobs \cup {nullptr})]
    BY <1>i, <1>p, AtPop DEF TypeOK, Element
  <2>1. TypeOK'
    <3>1. started' \in [Jobs -> Nat]
      BY <1>i, <1>p, <2>0 DEF Obtain, TypeOK
    <3>2. running' \in [Thread -> Jobs \cup {nullptr}]
      <4>1. running \in [Thread -> Jobs \cup {nullptr}]
        BY <1>i DEF TypeOK
      <4> QED BY <1>p, <2>0, <4>1, Zenon DEF Obtain
    <3>3. stage' \in [Worker -> 0..Exited]
      <4>1. stage \in [Worker -> 0..Exited]
        BY <1>i DEF TypeOK
      <4>2. PICK n \in 0..Exited : stage' = [stage EXCEPT ![w] = n]
        <5>1. stage' = [stage EXCEPT ![w] = IF Head(q[v]) = nullptr THEN Exited ELSE 0]
          BY <1>p DEF Obtain
        <5>2. Exited \in 0..Exited /\ 0 \in 0..Exited
          BY DEF Exited
        <5> QED BY <5>1, <5>2, Zenon
      <4> QED BY <4>1, <4>2
    <3> QED BY <1>i, <1>p, <2>0, <3>1, <3>2, <3>3 DEF TypeOK
  <2>2. JobInv'
    BY <1>i, <1>p, PopKeepsJobs, Zenon DEF Obtain
  <2>3. CallInv'
    BY <1>i, <1>p, Frames
  <2>s. /\ stage'[w] = IF Head(q[v]) = nullptr THEN Exited ELSE 0
        /\ \A u \in Worker : u # w => stage'[u] = stage[u]
        /\ running'[w] = Head(q[v])
        /\ \A t \in Thread : t # w => running'[t] = running[t]
    BY <1>t, <1>i, <1>p DEF Obtain, TypeOK
  <2>4. PhaseInv'
    <3>1. dpc \notin {"drain", "done"}
      BY <1>i, <1>p DEF PhaseInv
    <3>2. callJob[w] = nullptr
      BY <1>t, <1>i, <1>p DEF PhaseInv, Idle
    <3>3. \A u \in Worker : stage'[u] = Exited => running'[u] = nullptr /\ PillPushed(u)'
      <4>1. PillPushed(w)' <=> PillPushed(w)
        BY <1>p DEF PillPushed
      <4>2. stage'[w] = Exited => Head(q[v]) = nullptr /\ v = w
        BY <1>p, <2>s DEF Exited
      <4>3. Head(q[v]) = nullptr /\ v = w => PillPushed(w)
        <5>1. At(v, 1, Head(q[v]))
          BY <1>i, <1>p, AtPop, Zenon DEF TypeOK, Element
        <5> QED BY <1>i, <1>p, <5>1 DEF PillInv
      <4>4. CASE stage'[w] = Exited
        BY <1>t, <1>i, <1>p, <2>s, <4>1, <4>2, <4>3, <4>4, Zenon DEF PhaseInv, PillPushed
      <4>5. CASE stage'[w] # Exited
        BY <1>t, <1>i, <1>p, <2>s, <4>5, Zenon DEF PhaseInv, PillPushed
      <4> QED BY <4>4, <4>5
    <3>4. \A t \in Thread : callJob[t] # nullptr => running'[t] # nullptr
      BY <1>t, <1>i, <2>s, <3>2 DEF PhaseInv
    <3>5. running'[Dtor] = running[Dtor]
      BY <1>t, <2>s
    <3>6. \A u \in Worker : stage[u] = Exited => stage'[u] = Exited
      BY <1>p, <2>s
    <3> QED BY <1>i, <1>p, <3>1, <3>3, <3>4, <3>5, <3>6 DEF PhaseInv
  <2>5. PillInv'
    <3>1. CASE Head(q[v]) = nullptr
      BY <1>i, <1>p, <3>1, OwnPillPop, Zenon DEF Obtain
    <3>2. CASE Head(q[v]) # nullptr
      <4>1. \A u \in Worker : stage'[u] = Exited <=> stage[u] = Exited
        BY <1>p, <2>s, <3>2 DEF Exited
      <4> QED BY <1>i, <1>p, <3>2, <4>1, PopKeepsPills, Zenon
    <3> QED BY <3>1, <3>2
  <2> QED BY <2>1, <2>2, <2>3, <2>4, <2>5 DEF IInv
<1>4. ASSUME NEW w \in Worker, TryPopOwn(w)
      PROVE  IInv'
  <2>a. CASE q[w] # << >>
    BY <1>4, <1>p, <2>a DEF TryPopOwn, Exited
  <2>b. CASE q[w] = << >>
    <3>0. stage'[w] \in {1, 3} /\ \A u \in Worker : u # w => stage'[u] = stage[u]
      BY <1>i, <1>4, <2>b DEF TryPopOwn, TypeOK
    <3>e. \A u \in Worker : stage'[u] = Exited <=> stage[u] = Exited
      BY <1>4, <3>0 DEF TryPopOwn, Exited
    <3>1. TypeOK'
      <4>1. stage \in [Worker -> 0..Exited] /\ untried \in [Worker -> SUBSET Worker]
        BY <1>i DEF TypeOK
      <4>2. stage' \in [Worker -> 0..Exited]
        <5>1. PICK n \in 0..Exited : stage' = [stage EXCEPT ![w] = n]
          BY <1>4, <2>b, <4>1 DEF TryPopOwn, Exited
        <5> QED BY <4>1, <5>1
      <4>3. untried' \in [Worker -> SUBSET Worker]
        BY <1>4, <2>b, <4>1 DEF TryPopOwn
      <4> QED BY <1>i, <1>4, <2>b, <4>2, <4>3 DEF TryPopOwn, TypeOK
    <3>2. JobInv' /\ CallInv'
      BY <1>i, <1>4, <2>b, Frames DEF TryPopOwn
    <3>4. PhaseInv'
      BY <1>i, <1>4, <2>b, <3>e DEF TryPopOwn, PhaseInv, PillPushed
    <3>5. PillInv'
      BY <1>i, <1>4, <2>b, <3>e, Frames DEF TryPopOwn
    <3> QED BY <3>1, <3>2, <3>4, <3>5 DEF IInv
  <2> QED BY <2>a, <2>b
<1>5. ASSUME NEW w \in Worker, PopOwn(w)
      PROVE  IInv'
  <2>1. stage[w] # Exited
    BY <1>5 DEF PopOwn, Exited
  <2> QED BY <1>5, <1>p, <2>1, Zenon DEF PopOwn
<1>6. ASSUME NEW w \in Worker, NEW v \in Worker, Steal(w, v)
      PROVE  IInv'
  <2>1. stage[w] # Exited
    BY <1>6 DEF Steal, Exited
  <2> QED BY <1>6, <1>p, <2>1, Zenon DEF Steal, Stealable
<1>7. ASSUME NEW w \in Worker, Sleep(w) \/ StealNone(w)
      PROVE  IInv'
  <2>0. stage'[w] \in {2, 4} /\ stage[w] \in {1, 3} /\ \A u \in Worker : u # w => stage'[u] = stage[u]
    BY <1>i, <1>7 DEF Sleep, StealNone, TypeOK
  <2>e. \A u \in Worker : stage'[u] = Exited <=> stage[u] = Exited
    BY <2>0 DEF Exited
  <2>1. TypeOK'
    <3>1. stage \in [Worker -> 0..Exited]
      BY <1>i DEF TypeOK
    <3>2. stage' \in [Worker -> 0..Exited]
      BY <1>7, <3>1 DEF Sleep, StealNone, Exited
    <3> QED BY <1>i, <1>7, <3>2 DEF Sleep, StealNone, TypeOK
  <2>2. JobInv' /\ CallInv'
    BY <1>i, <1>7, Frames DEF Sleep, StealNone
  <2>4. PhaseInv'
    BY <1>i, <1>7, <2>e DEF Sleep, StealNone, PhaseInv, PillPushed
  <2>5. PillInv'
    BY <1>i, <1>7, <2>e, Frames DEF Sleep, StealNone
  <2> QED BY <2>1, <2>2, <2>4, <2>5 DEF IInv
<1>8. ASSUME NEW w \in Worker, NEW v \in Worker, StealMiss(w, v)
      PROVE  IInv'
  <2>1. TypeOK'
    BY <1>t, <1>i, <1>8, Zenon DEF StealMiss, TypeOK
  <2>2. JobInv'
    BY <1>i, <1>8, Frames DEF StealMiss
  <2>3. CallInv'
    BY <1>i, <1>8, Frames DEF StealMiss
  <2>4. PhaseInv'
    BY <1>t, <1>i, <1>8 DEF StealMiss, PhaseInv, PillPushed, TypeOK
  <2>5. PillInv'
    BY <1>i, <1>8, Frames DEF StealMiss
  <2> QED BY <2>1, <2>2, <2>3, <2>4, <2>5 DEF IInv
<1>9. ASSUME NEW t \in Thread, FinishJob(t)
      PROVE  IInv'
  <2>1. TypeOK'
    BY <1>t, <1>i, <1>9, Zenon DEF FinishJob, TypeOK
  <2>2. JobInv'
    BY <1>i, <1>9, Frames DEF FinishJob
  <2>3. CallInv'
    BY <1>i, <1>9, Frames DEF FinishJob
  <2>4. PhaseInv'
    BY <1>t, <1>i, <1>9, Zenon DEF FinishJob, PhaseInv, PillPushed, TypeOK
  <2>5. PillInv'
    BY <1>i, <1>9, Frames DEF FinishJob
  <2> QED BY <2>1, <2>2, <2>3, <2>4, <2>5 DEF IInv
<1>10. ASSUME NEW o \in Owners, Release(o)
      PROVE  IInv'
  <2>1. TypeOK'
    BY <1>t, <1>i, <1>10, Zenon DEF Release, TypeOK
  <2>2. JobInv'
    BY <1>i, <1>10, Frames DEF Release
  <2>3. CallInv'
    BY <1>i, <1>10, Frames DEF Release
  <2>4. PhaseInv'
    BY <1>t, <1>i, <1>10, Zenon DEF Release, PhaseInv, PillPushed, TypeOK
  <2>5. PillInv'
    BY <1>i, <1>10, Frames DEF Release
  <2> QED BY <2>1, <2>2, <2>3, <2>4, <2>5 DEF IInv
<1>11. ASSUME DtorBegin
      PROVE  IInv'
  <2>1. TypeOK'
    BY <1>t, <1>i, <1>11, Zenon DEF DtorBegin, TypeOK
  <2>2. JobInv'
    BY <1>i, <1>11, Frames DEF DtorBegin
  <2>3. CallInv'
    BY <1>i, <1>11, Frames DEF DtorBegin
  <2>4. PhaseInv'
    BY <1>t, <1>i, <1>11 DEF DtorBegin, PhaseInv, PillPushed, TypeOK
  <2>5. PillInv'
    <3>1. \A w \in Worker : ~PillPushed(w) /\ ~PillPushed(w)'
      BY <1>i, <1>11 DEF DtorBegin, PillPushed, PhaseInv, Worker
    <3>2. \A w \in Worker : \A k \in Nat : At(w, k, nullptr)' <=> At(w, k, nullptr)
      BY <1>11 DEF DtorBegin, At
    <3> QED BY <1>i, <3>1, <3>2 DEF PillInv
  <2> QED BY <2>1, <2>2, <2>3, <2>4, <2>5 DEF IInv
<1>12. ASSUME DtorPill
      PROVE  IInv'
  <2>0. di \in Worker /\ nullptr \in Element /\ di < N /\ nullptr \notin Jobs
    BY <1>i, <1>12 DEF DtorPill, PhaseInv, TypeOK, Worker, Element
  <2>1. TypeOK'
    <3>1. q' \in [Worker -> Seq(Jobs \cup {nullptr})]
      BY <1>i, <1>12, <2>0, AtPush DEF DtorPill, TypeOK, Element
    <3>2. di' \in 0..N
      BY <1>i, <1>12, <2>0 DEF DtorPill, TypeOK
    <3> QED BY <1>i, <1>12, <3>1, <3>2 DEF DtorPill, TypeOK
  <2>2. JobInv'
    BY <1>i, <1>12, <2>0, PushKeepsJobs, Zenon DEF DtorPill
  <2>3. CallInv'
    BY <1>i, <1>12, Frames DEF DtorPill
  <2>4. PhaseInv'
    <3>1. dpc' \in {"pills", "join"} /\ di' \in 0..N /\ di' < N
      BY <1>i, <1>12, <2>0 DEF DtorPill, TypeOK
    <3>2. dpc' = "join" => di' = 0
      BY <1>12 DEF DtorPill
    <3>3. \A w \in Worker : PillPushed(w) => PillPushed(w)'
      BY <1>i, <1>12, <2>0, <3>1 DEF DtorPill, PillPushed, TypeOK, Worker
    <3>4. \A w \in Worker : ~(w < 0)
      BY DEF Worker
    <3> QED BY <1>i, <1>12, <3>1, <3>2, <3>3, <3>4 DEF DtorPill, PhaseInv
  <2>5. PillInv'
    <3>1. PICK d \in Worker, n \in Nat : d = di /\ n = Len(q[d]) + 1
      BY <1>i, <2>0, LenProperties DEF TypeOK
    <3>2. /\ \A w \in Worker : \A k \in Nat : At(w, k, nullptr)' <=> At(w, k, nullptr) \/ (w = d /\ k = n)
      BY <1>i, <1>12, <2>0, <3>1, AtPush, ZenonT(30) DEF DtorPill, TypeOK, Element
    <3>3. \A w \in Worker : PillPushed(w)' <=> PillPushed(w) \/ w = d
      BY <1>i, <1>12, <2>0, <3>1 DEF DtorPill, PillPushed, TypeOK, Worker
    <3>4. ~PillPushed(d)
      BY <1>12, <3>1 DEF DtorPill, PillPushed, Worker
    <3>5. stage[d] # Exited
      BY <1>i, <3>4 DEF PhaseInv
    <3> QED BY <1>i, <1>12, <3>2, <3>3, <3>4, <3>5 DEF DtorPill, PillInv
  <2> QED BY <2>1, <2>2, <2>3, <2>4, <2>5 DEF IInv
<1>13. ASSUME DtorJoin
      PROVE  IInv'
  <2>0. di \in Worker /\ di < N /\ di \in 0..N
    BY <1>i, <1>13 DEF DtorJoin, PhaseInv, TypeOK, Worker
  <2>a. /\ dpc' \in {"join", "drain"} /\ di' \in 0..N /\ di' < N
        /\ dpc' = "join" => di' = di + 1
        /\ dpc' = "drain" => di' = 0 /\ di + 1 = N
    BY <1>13, <2>0 DEF DtorJoin
  <2>b. \A w \in Worker : PillPushed(w) /\ PillPushed(w)'
    BY <1>13, <2>a DEF DtorJoin, PillPushed
  <2>1. TypeOK'
    BY <1>i, <1>13, <2>a DEF DtorJoin, TypeOK
  <2>2. JobInv' /\ CallInv'
    BY <1>i, <1>13, Frames DEF DtorJoin
  <2>4. PhaseInv'
    <3>1. \A w \in Worker : w < di + 1 => stage[w] = Exited
      BY <1>i, <1>13, <2>0 DEF DtorJoin, PhaseInv, Worker
    <3>2. \A w \in Worker : ~(w < 0) /\ w < N
      BY DEF Worker
    <3> QED BY <1>i, <1>13, <2>a, <2>b, <3>1, <3>2, ZenonT(30) DEF DtorJoin, PhaseInv
  <2>5. PillInv'
    <3>1. \A w \in Worker : \A k \in Nat : At(w, k, nullptr)' <=> At(w, k, nullptr)
      BY <1>13 DEF DtorJoin, At
    <3> QED BY <1>i, <1>13, <2>b, <3>1 DEF DtorJoin, PillInv
  <2> QED BY <2>1, <2>2, <2>4, <2>5 DEF IInv
<1>14. ASSUME DtorDrain
      PROVE  IInv'
  <2>0. di \in Worker
    BY <1>i, <1>14 DEF DtorDrain, TypeOK, Worker
  <2>a. Head(q[di]) # nullptr
    <3>1. At(di, 1, Head(q[di]))
      BY <1>i, <1>14, <2>0, AtPop, Zenon DEF DtorDrain, TypeOK, Element
    <3>2. stage[di] = Exited
      BY <1>i, <1>14, <2>0 DEF DtorDrain, PhaseInv
    <3> QED BY <1>i, <2>0, <3>1, <3>2 DEF PillInv
  <2>b. Head(q[di]) \in Jobs \cup {nullptr} /\ q' \in [Worker -> Seq(Jobs \cup {nullptr})]
        /\ \A w \in Worker : q[w] = << >> => q'[w] = << >>
    BY <1>i, <1>14, <2>0, AtPop DEF DtorDrain, TypeOK, Element
  <2>c. PICK j \in Jobs : j = Head(q[di])
    BY <2>a, <2>b
  <2>1. TypeOK'
    <3>1. running' \in [Thread -> Jobs \cup {nullptr}]
      <4>1. running \in [Thread -> Jobs \cup {nullptr}]
        BY <1>i DEF TypeOK
      <4> QED BY <1>14, <2>c, <4>1, Zenon DEF DtorDrain
    <3>2. started' \in [Jobs -> Nat]
      <4>1. started \in [Jobs -> Nat]
        BY <1>i DEF TypeOK
      <4> QED BY <1>14, <2>c, <4>1 DEF DtorDrain
    <3> QED BY <1>i, <1>14, <2>b, <3>1, <3>2 DEF DtorDrain, TypeOK
  <2>2. JobInv'
    BY <1>i, <1>14, <2>0, PopKeepsJobs, Zenon DEF DtorDrain
  <2>3. CallInv'
    BY <1>i, <1>14, Frames DEF DtorDrain
  <2>4. PhaseInv'
    <3>1. running'[Dtor] = j /\ \A w \in Worker : running'[w] = running[w]
      BY <1>t, <1>i, <1>14, <2>c DEF DtorDrain, TypeOK
    <3>2. \A t \in Thread : callJob[t] # nullptr => running'[t] # nullptr
      BY <1>t, <1>i, <3>1 DEF PhaseInv
    <3>3. \A w \in Worker : PillPushed(w)'
      BY <1>14 DEF DtorDrain, PillPushed
    <3> QED BY <1>i, <1>14, <2>b, <3>1, <3>2, <3>3 DEF DtorDrain, PhaseInv
  <2>5. PillInv'
    BY <1>i, <1>14, <2>0, <2>a, PopKeepsPills, Zenon DEF DtorDrain
  <2> QED BY <2>1, <2>2, <2>3, <2>4, <2>5 DEF IInv
<1>15. ASSUME DtorNext
      PROVE  IInv'
  <2>0. di \in Worker /\ di \in 0..N /\ di < N
    BY <1>i, <1>15 DEF DtorNext, TypeOK, Worker
  <2>a. /\ dpc' \in {"drain", "done"} /\ di' \in 0..N /\ di' = di + 1
        /\ dpc' = "drain" => di' < N
        /\ dpc' = "done" => di + 1 = N
    BY <1>15, <2>0 DEF DtorNext
  <2>b. \A w \in Worker : PillPushed(w) /\ PillPushed(w)'
    BY <1>15, <2>a DEF DtorNext, PillPushed
  <2>1. TypeOK'
    BY <1>i, <1>15, <2>a DEF DtorNext, TypeOK
  <2>2. JobInv' /\ CallInv'
    BY <1>i, <1>15, Frames DEF DtorNext
  <2>4. PhaseInv'
    <3>1. \A w \in Worker : w < di + 1 => q[w] = << >>
      BY <1>i, <1>15, <2>0 DEF DtorNext, PhaseInv, Worker
    <3>2. \A w \in Worker : w < N
      BY DEF Worker
    <3>3. running[Dtor] = nullptr
      BY <1>15, Zenon DEF DtorNext, Idle
    <3> QED BY <1>i, <1>15, <2>a, <2>b, <3>1, <3>2, <3>3 DEF DtorNext, PhaseInv
  <2>5. PillInv'
    <3>1. \A w \in Worker : \A k \in Nat : At(w, k, nullptr)' <=> At(w, k, nullptr)
      BY <1>15 DEF DtorNext, At
    <3> QED BY <1>i, <1>15, <2>b, <3>1 DEF DtorNext, PillInv
  <2> QED BY <2>1, <2>2, <2>4, <2>5 DEF IInv
<1>16. CASE UNCHANGED vars
  <2>1. TypeOK'
    BY <1>i, <1>16 DEF vars, TypeOK
  <2>2. JobInv' /\ CallInv' /\ PillInv'
    BY <1>i, <1>16, Frames DEF vars
  <2>3. PhaseInv'
    BY <1>i, <1>16 DEF vars, PhaseInv, PillPushed
  <2> QED BY <2>1, <2>2, <2>3 DEF IInv
<1> QED
  BY <1>1, <1>2, <1>3, <1>4, <1>5, <1>6, <1>7, <1>8, <1>9, <1>10, <1>11, <1>12, <1>13,
     <1>14, <1>15, <1>16
  DEF Next, CallStep, WorkerStep, DtorStep, Terminated

-----------------------------------------------------------------------------
(* The theorems. *)

\* IInv is an invariant of the pool.
LEMMA Inductive == Spec => []IInv
BY InitIInv, NextIInv, PTL DEF Spec

\* The pool's state is type correct.
THEOREM TypeCorrect == Spec => []TypeOK
<1>1. IInv => TypeOK
  BY DEF IInv
<1> QED BY <1>1, Inductive, PTL

\* No job is invoked twice by a worker, a thief and the destructor together.
THEOREM AtMostOnce == Spec => []RunsAtMostOnce
<1>1. IInv => RunsAtMostOnce
  BY DEF IInv, JobInv, StartedOnce, RunsAtMostOnce
<1> QED BY <1>1, Inductive, PTL

\* When ~ThreadPool returns, every accepted job was invoked exactly once.
THEOREM NothingLost == Spec => []NoJobLost
<1>1. IInv => NoJobLost
  <2> SUFFICES ASSUME IInv, dpc = "done", NEW j \in accepted
               PROVE  started[j] = 1
    BY DEF NoJobLost
  <2>1. \A w \in Worker : q[w] = << >>
    BY DEF IInv, PhaseInv
  <2>2. \A w \in Worker : \A k \in Nat : ~At(w, k, j)
    BY <2>1 DEF At
  <2> QED BY <2>2 DEF IInv, JobInv, NotLost
<1> QED BY <1>1, Inductive, PTL

\* A job for which run_async returned EPERM is never invoked.
THEOREM RefusedStaysOut == Spec => []RefusedNeverRuns
<1>1. IInv => RefusedNeverRuns
  BY DEF IInv, TypeOK, JobInv, StartedOnce, CallInv, RefusedNeverRuns
<1> QED BY <1>1, Inductive, PTL

\* Each worker consumes its own death pill and nobody else's.
THEOREM PillsReachTheirWorker == Spec => []OwnPill
<1>1. IInv => OwnPill
  <2> SUFFICES ASSUME IInv, NEW w \in Worker
               PROVE  IF PillPushed(w) /\ stage[w] # Exited
                      THEN \E k \in Pills(w) : Pills(w) = {k}
                      ELSE Pills(w) = {}
    BY DEF OwnPill, IInv
  <2>1. q[w] \in Seq(Jobs \cup {nullptr})
    BY DEF IInv, TypeOK
  <2>2. Pills(w) = {k \in Nat : At(w, k, nullptr)}
    BY <2>1, LenProperties DEF Pills, At
  <2> QED BY <2>2 DEF IInv, PillInv
<1> QED BY <1>1, Inductive, PTL

\* While the destructor runs left-over jobs, no worker runs or submits one.
THEOREM DrainIsAlone == Spec => []DrainAlone
<1>1. IInv => DrainAlone
  <2>1. \A w \in Worker : w \in Thread
    BY PoolAssumption DEF Worker, Thread
  <2> QED BY <2>1 DEF IInv, PhaseInv, DrainAlone
<1> QED BY <1>1, Inductive, PTL

-----------------------------------------------------------------------------
(* The pool implements an Executor. *)

\* Whoever takes the front of a queue, a worker, a thief or the destructor, runs an
\* accepted job for the first time, or finds a pill.
LEMMA PopIsRun ==
    ASSUME IInv,
           NEW v \in Worker, q[v] # << >>,
           started' = IF Head(q[v]) = nullptr THEN started
                      ELSE [started EXCEPT ![Head(q[v])] = @ + 1],
           UNCHANGED << dpc, accepted, refused >>
    PROVE  [E!Next]_E!vars
<1>1. /\ q \in [Worker -> Seq(Element)] /\ started \in [Jobs -> Nat]
      /\ dpc # "done"
  BY DEF IInv, TypeOK, Element, PhaseInv
<1>2. q[v] \in Seq(Element) /\ Head(q[v]) \in Element /\ At(v, 1, Head(q[v]))
  BY <1>1, HeadTailProperties, EmptySeq, LenProperties, Head(q[v]) = q[v][1] DEF At
<1>3. CASE Head(q[v]) = nullptr
  BY <1>3 DEF E!vars
<1>4. CASE Head(q[v]) # nullptr
  <2>1. Head(q[v]) \in Jobs
    BY <1>2, <1>4 DEF Element
  <2>2. Head(q[v]) \in accepted /\ started[Head(q[v])] = 0
    BY <1>2, <2>1 DEF IInv, JobInv, QueuedFresh
  <2>3. started' = [started EXCEPT ![Head(q[v])] = 1]
    BY <1>1, <1>4, <2>1, <2>2
  <2>4. E!Run(Head(q[v]))
    BY <1>1, <2>2, <2>3, Zenon DEF E!Run
  <2> QED BY <2>1, <2>4 DEF E!Next
<1> QED BY <1>3, <1>4

\* Every step of the pool is a step of the Executor or changes nothing it can see.
LEMMA StepIsExecutorStep == IInv /\ [Next]_vars => [E!Next]_E!vars
<1> SUFFICES ASSUME IInv, [Next]_vars PROVE [E!Next]_E!vars
  OBVIOUS
<1>1. ASSUME NEW c \in Caller, NEW j \in Jobs, RunAsyncRefused(c, j) PROVE [E!Next]_E!vars
  <2>1. dpc \in {"pills", "join", "drain"}
    <3>1. dpc # "live"
      BY <1>1 DEF RunAsyncRefused, IInv, PhaseInv
    <3>2. dpc # "done"
      <4>1. holders = {} /\ c \in Thread /\ running[c] # nullptr
        BY <1>1 DEF RunAsyncRefused, CanCall, IInv, PhaseInv
      <4>2. dpc = "done" => \A t \in Thread : running[t] = nullptr
        BY PoolAssumption DEF IInv, PhaseInv, Thread, Worker, Dtor
      <4> QED BY <4>1, <4>2
    <3> QED BY <3>1, <3>2 DEF IInv, TypeOK
  <2>2. E!Refuse(j)
    BY <1>1, <2>1 DEF RunAsyncRefused, Fresh, E!Refuse
  <2> QED BY <2>2 DEF E!Next
<1>2. ASSUME NEW c \in Caller, RunAsyncPush(c) PROVE [E!Next]_E!vars
  <2>1. callJob[c] \in Jobs /\ callJob[c] \notin accepted \cup refused
    BY <1>2 DEF RunAsyncPush, IInv, TypeOK, CallInv
  <2>2. dpc # "done"
    <3>1. dpc = "done" => \A t \in Thread : callJob[t] = nullptr
      BY PoolAssumption DEF IInv, PhaseInv, Thread, Worker, Dtor
    <3>2. dpc = "done" => \A o \in Owners : callJob[o] = nullptr
      BY DEF IInv, PhaseInv
    <3> QED BY <1>2, <3>1, <3>2 DEF RunAsyncPush, Caller
  <2>3. E!Accept(callJob[c])
    BY <1>2, <2>1, <2>2 DEF RunAsyncPush, E!Accept
  <2> QED BY <2>1, <2>3 DEF E!Next
<1>3. ASSUME NEW w \in Worker, TryPopOwn(w) PROVE [E!Next]_E!vars
  <2>1. CASE q[w] # << >>
    BY <1>3, <2>1, PopIsRun DEF TryPopOwn, Obtain
  <2>2. CASE q[w] = << >>
    BY <1>3, <2>2 DEF TryPopOwn, E!vars
  <2> QED BY <2>1, <2>2
<1>4. ASSUME NEW w \in Worker, NEW v \in Worker, Steal(w, v) PROVE [E!Next]_E!vars
  BY <1>4, PopIsRun, Zenon DEF Steal, Stealable, Obtain
<1>5. ASSUME NEW w \in Worker, PopOwn(w) PROVE [E!Next]_E!vars
  BY <1>5, PopIsRun DEF PopOwn, Obtain
<1>6. ASSUME DtorDrain PROVE [E!Next]_E!vars
  <2>1. di \in Worker
    <3>1. di \in 0..N /\ di < N
      BY <1>6 DEF DtorDrain, IInv, TypeOK
    <3> QED BY <3>1, PoolAssumption DEF Worker
  <2> QED BY <1>6, <2>1, PopIsRun DEF DtorDrain
<1>7. ASSUME DtorBegin PROVE [E!Next]_E!vars
  BY <1>7 DEF DtorBegin, E!Next, E!BeginClose
<1>8. ASSUME DtorNext PROVE [E!Next]_E!vars
  <2>1. CASE di + 1 = N
    <3>1. \A w \in Worker : q[w] = << >>
      <4>1. \A w \in Worker : w < di => q[w] = << >>
        BY <1>8, Zenon DEF DtorNext, IInv, PhaseInv
      <4>2. q[di] = << >> /\ di \in 0..N
        BY <1>8 DEF DtorNext, IInv, TypeOK
      <4>3. \A w \in Worker : w < di \/ w = di
        BY <2>1, <4>2, PoolAssumption DEF Worker
      <4> QED BY <4>1, <4>2, <4>3
    <3>2. \A w \in Worker : \A k \in Nat : \A j \in Jobs : ~At(w, k, j)
      BY <3>1 DEF At
    <3>3. \A j \in accepted : started[j] = 1
      BY <3>2 DEF IInv, TypeOK, JobInv, NotLost
    <3>4. E!Close
      BY <1>8, <2>1, <3>3 DEF DtorNext, E!Close
    <3> QED BY <3>4 DEF E!Next
  <2>2. CASE di + 1 # N
    BY <1>8, <2>2 DEF DtorNext, E!vars
  <2> QED BY <2>1, <2>2
<1>9. ASSUME DtorPill \/ DtorJoin PROVE [E!Next]_E!vars
  BY <1>9 DEF DtorPill, DtorJoin, E!vars
<1>10. ASSUME NEW w \in Worker, Sleep(w) \/ StealNone(w) \/ \E v \in Worker : StealMiss(w, v)
       PROVE  [E!Next]_E!vars
  BY <1>10 DEF Sleep, StealNone, StealMiss, E!vars
<1>11. ASSUME \/ \E c \in Caller : \E j \in Jobs : RunAsyncDraw(c, j)
              \/ \E t \in Thread : FinishJob(t)
              \/ \E o \in Owners : Release(o)
       PROVE  [E!Next]_E!vars
  BY <1>11 DEF RunAsyncDraw, FinishJob, Release, E!vars
<1>12. ASSUME UNCHANGED vars PROVE [E!Next]_E!vars
  BY <1>12 DEF vars, E!vars
<1> QED
  BY <1>1, <1>2, <1>3, <1>4, <1>5, <1>6, <1>7, <1>8, <1>9, <1>10, <1>11, <1>12
  DEF Next, CallStep, WorkerStep, DtorStep, Terminated

\* base::ThreadPool is an Executor for every number of workers, owners and jobs.
THEOREM Implements == Spec => IsExecutor
<1>1. Init => E!Init
  BY DEF Init, E!Init
<1> QED BY <1>1, Inductive, StepIsExecutorStep, PTL DEF Spec, IsExecutor, E!Spec
=============================================================================
