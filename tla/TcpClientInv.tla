---------------------------- MODULE TcpClientInv ----------------------------
(***************************************************************************)
(* What holds of TcpClient in every reachable state, for any number of     *)
(* callers, closers, requests and calls of connect:                        *)
(*   - CompletedOnce and CloseLeavesNothingPending, from IInv: exactly one *)
(*     of pending_fu_ and the closers' swapped tables holds a future that  *)
(*     is not completed, and the caller's own reference is counted from    *)
(*     ref_copy() on;                                                      *)
(*   - Io: what may be in the buffers, and that the bookmark a caller set  *)
(*     is the last one in out_.                                            *)
(* And two of the three parts of what holds of the first connection, which *)
(* TcpClientProofs puts together:                                          *)
(*   - Framing: the requests are whole up to the one being marshalled;     *)
(*   - Ends: what becomes of each request (here, in the steps of close()   *)
(*     and of handle_read() that complete futures).                        *)
(***************************************************************************)
EXTENDS TcpClient, Integers, TLAPS

\* A step that names no prover is left to SMT, if need be twice, and then to Zenon.
USE SMTT(10), SMTT(30), Zenon, SMTT(40), SMTT(60)


Early == {"recheck", "undo"}
Given == {"arg", "end", "hold"}
Places == {"idle", "new", "recheck", "undo", "mark", "xid", "rpc", "ref", "arg", "end", "hold"}

IsOwed(x) == x \in pending \/ \E p \in Closing : x \in job[p]
IsGiven(x) == \E c \in Callers : cur[c] = x /\ pc[c] \in Given

Types ==
    /\ xid \in 0 .. MaxXid
    /\ pending \in SUBSET (1 .. xid)
    /\ fu \in [Xids -> [refs : Int, done : {"no", "reply", "ENOTCONN"}, hits : Nat]]
    /\ pc \in [Callers -> Places]
    /\ cur \in [Callers -> 0 .. xid]
    /\ hp \in [Closing -> {"idle", "mark", "swap", "notify", "parse"}]
    /\ job \in [Closing -> SUBSET (1 .. xid)]

\* Between begin_request and end_request a caller holds out_l_.
Lock ==
    \A c \in Callers :
        /\ pc[c] \notin {"idle", "hold"} => out_l = c
        /\ pc[c] = "new" => xid < MaxXid

\* A future belongs to one caller.
Own ==
    /\ \A c \in Callers :
           /\ pc[c] \in {"idle", "new"} => cur[c] = 0
           /\ pc[c] \in Early \cup {"mark", "xid", "rpc", "ref", "arg", "hold"} => cur[c] # 0
    /\ \A c, d \in Callers : cur[c] # 0 /\ cur[c] = cur[d] => c = d

\* It is to be completed in one place: by whoever took it out of pending_fu_.
Jobs ==
    /\ \A p \in Closing :
           /\ hp[p] \in {"idle", "mark", "swap"} => job[p] = {}
           /\ p # poll => hp[p] # "parse"
           /\ hp[p] = "parse" => \A x, y \in job[p] : x = y
           /\ job[p] \cap pending = {}
    /\ \A p, q \in Closing : p # q => job[p] \cap job[q] = {}

Once ==
    \A x \in Xids :
        /\ fu[x].hits <= 1
        /\ IsOwed(x) \/ x > xid => fu[x].hits = 0

Counted ==
    \A x \in Xids :
        fu[x].refs = (IF IsOwed(x) THEN 1 ELSE 0) + (IF IsGiven(x) THEN 1 ELSE 0)

\* Once a closed client's table was emptied, only a caller that will look at status_
\* again can leave a future there.
Left ==
    status = "CLOSED" /\ (\A p \in Closing : hp[p] # "swap")
    => \A x \in pending : \E c \in Callers : cur[c] = x /\ pc[c] \in Early

IInv == Types /\ Lock /\ Own /\ Jobs /\ Once /\ Counted /\ Left

-----------------------------------------------------------------------------
\* A new client satisfies the invariant.
LEMMA InitIInv == Init => IInv
<1> SUFFICES ASSUME Init PROVE IInv
  OBVIOUS
<1> USE ClientAssumption DEF Init, Closing, Xids, Places
<1>1. Types
  BY DEF Types
<1>2. Lock /\ Own /\ Jobs /\ Left
  BY DEF Lock, Own, Jobs, Left, Early
<1>3. Once /\ Counted
  BY DEF Once, Counted, IsOwed, IsGiven, Given
<1> QED
  BY <1>1, <1>2, <1>3 DEF IInv

\* Steps that touch neither a caller nor a future.
Still == UNCHANGED << xid, pending, fu, pc, cur, out_l, job >>

\* A step that touches no future and no caller keeps what is said of them.
LEMMA StillKeeps ==
  ASSUME IInv, Still, Types', Jobs', Left'
  PROVE  IInv'
<1>1. Lock' /\ Own'
  BY DEF IInv, Still, Lock, Own
<1>2. Once' /\ Counted'
  BY DEF IInv, Still, Once, Counted, IsOwed, IsGiven
<1> QED
  BY <1>1, <1>2 DEF IInv

\* Steps of a caller that leave every future as it is.
Walk == UNCHANGED << status, xid, pending, fu, cur, hp, job >>

\* Nor does a step that only takes a caller from one place of begin_request to the next.
LEMMA WalkKeeps ==
  ASSUME NEW c \in Callers, NEW l \in Places, IInv, Walk, Goto(c, l), Lock',
         cur[c] # 0 => (pc[c] \in Given <=> l \in Given),
         l \in {"idle", "new"} => cur[c] = 0,
         l \in Early \cup {"mark", "xid", "rpc", "ref", "arg", "hold"} => cur[c] # 0,
         pc[c] \in Early => l \in Early \/ status # "CLOSED"
  PROVE  IInv'
<1> USE DEF Walk, Goto
<1>1. Types'
  BY DEF IInv, Types
<1>2. Own'
  BY <1>1 DEF IInv, Types, Own
<1>3. Jobs'
  BY DEF IInv, Jobs
<1>4. \A x \in Xids : IsGiven(x)' <=> IsGiven(x)
  BY ClientAssumption DEF IInv, Types, IsGiven, Xids
<1>5. Once' /\ Counted'
  BY <1>4 DEF IInv, Once, Counted, IsOwed
<1>6. Left'
  <2> SUFFICES ASSUME status = "CLOSED", \A p \in Closing : hp[p] # "swap", NEW x \in pending
               PROVE  \E d \in Callers : cur[d] = x /\ pc'[d] \in Early
    BY DEF Left
  <2>1. PICK d \in Callers : cur[d] = x /\ pc[d] \in Early
    BY DEF IInv, Left
  <2> QED
    BY <2>1 DEF IInv, Types
<1> QED
  BY <1>1, <1>2, <1>3, <1>5, <1>6 DEF IInv

-----------------------------------------------------------------------------
(* connect, and the socket *)

\* connect() and the two halves of the registration touch no future.
LEMMA ConnectKeeps ==
  ASSUME IInv, Connect \/ AddMode \/ AddRegister
  PROVE  IInv'
<1>1. Still /\ hp' = hp /\ (status' = status \/ status' = "CONNECTED")
  BY DEF Connect, AddMode, AddRegister, Still, ioVars
<1>2. Types' /\ Jobs' /\ Left'
  BY <1>1 DEF IInv, Still, Types, Jobs, Left
<1> QED
  BY <1>1, <1>2, StillKeeps

\* Nor does the traffic of the connection.
LEMMA TransferKeeps ==
  ASSUME IInv, HandleWrite \/ HandleRead \/ ParseEnd \/ \E x \in Xids : Answer(x)
  PROVE  IInv'
<1>1. Still /\ status' = status
  BY Zenon DEF HandleWrite, HandleRead, ParseEnd, Answer, Still, clientVars, ioVars, UpdateMode
<1>2. CASE hp' = hp
  <2>1. Types' /\ Jobs' /\ Left'
    BY <1>1, <1>2 DEF IInv, Still, Types, Jobs, Left
  <2> QED
    BY <1>1, <2>1, StillKeeps
<1>3. CASE HandleRead
  <2>1. hp[poll] = "idle" /\ hp' = [hp EXCEPT ![poll] = "parse"]
    BY <1>3 DEF HandleRead, Enter
  <2>2. Types' /\ Jobs' /\ Left'
    BY <1>1, <2>1 DEF IInv, Still, Types, Jobs, Left, Closing
  <2> QED
    BY <1>1, <2>2, StillKeeps
<1>4. CASE ParseEnd
  <2>1. hp[poll] = "parse" /\ job[poll] = {} /\ hp' = [hp EXCEPT ![poll] = "idle"]
    BY <1>4 DEF ParseEnd, Enter
  <2>2. Types' /\ Jobs' /\ Left'
    BY <1>1, <2>1 DEF IInv, Still, Types, Jobs, Left, Closing
  <2> QED
    BY <1>1, <2>2, StillKeeps
<1> QED
  BY <1>2, <1>3, <1>4, Zenon DEF HandleWrite, Answer

-----------------------------------------------------------------------------
(* begin_request ... end_request *)

\* The steps of begin_request and end_request that touch no future.
LEMMA WalksKeep ==
  ASSUME NEW c \in Callers, IInv, Begin(c) \/ Recheck(c) \/ Mark(c) \/ Put(c) \/ End(c)
  PROVE  IInv'
<1> USE DEF Places, Early, Given
<1>1. CASE Begin(c)
  <2> DEFINE l == IF status = "CONNECTED" THEN "new" ELSE "end"
  <2>1. pc[c] = "idle" /\ xid < MaxXid /\ out_l = none /\ out_l' = c /\ Goto(c, l) /\ Walk
    BY <1>1 DEF Begin, Walk, clientVars
  <2>2. Lock'
    BY <2>1, ClientAssumption DEF IInv, Types, Lock, Goto, Walk
  <2>3. cur[c] = 0
    BY <2>1 DEF IInv, Own
  <2> QED
    BY <2>1, <2>2, <2>3, WalkKeeps
<1>2. CASE Recheck(c)
  <2> DEFINE l == IF status = "CONNECTED" THEN "mark" ELSE "undo"
  <2>1. pc[c] = "recheck" /\ out_l' = out_l /\ Goto(c, l) /\ Walk
    BY <1>2 DEF Recheck, Walk, clientVars, ioVars
  <2>2. Lock' /\ cur[c] # 0
    BY <2>1 DEF IInv, Types, Lock, Goto, Walk, Own
  <2> QED
    BY <2>1, <2>2, WalkKeeps
<1>3. CASE Mark(c)
  <2>1. pc[c] = "mark" /\ out_l' = out_l /\ Goto(c, "xid") /\ Walk
    BY <1>3 DEF Mark, Walk, clientVars
  <2>2. Lock' /\ cur[c] # 0
    BY <2>1 DEF IInv, Types, Lock, Goto, Walk, Own
  <2> QED
    BY <2>1, <2>2, WalkKeeps
<1>4. CASE Put(c)
  <2> DEFINE l == CASE pc[c] = "xid" -> "rpc" [] pc[c] = "rpc" -> "ref" [] pc[c] = "arg" -> "end"
  <2>1. pc[c] \in {"xid", "rpc", "arg"} /\ out_l' = out_l /\ Goto(c, l) /\ Walk
    BY <1>4 DEF Put, Walk, clientVars
  <2>2. l \in {"rpc", "ref", "end"} /\ (l = "end" <=> pc[c] = "arg")
    BY <2>1
  <2>3. Lock' /\ cur[c] # 0
    BY <2>1, <2>2 DEF IInv, Types, Lock, Goto, Walk, Own
  <2> HIDE DEF l
  <2> QED
    BY <2>1, <2>2, <2>3, WalkKeeps
<1>5. CASE End(c)
  <2> DEFINE l == IF cur[c] = 0 THEN "idle" ELSE "hold"
  <2>1. pc[c] = "end" /\ Goto(c, l) /\ Walk
    BY <1>5 DEF End, Walk, clientVars
  <2>2. Lock'
    BY <2>1 DEF IInv, Types, Lock, Goto, Walk
  <2> QED
    BY <2>1, <2>2, WalkKeeps
<1> QED
  BY <1>1, <1>2, <1>3, <1>4, <1>5

\* A new future is pending, and has the reference that pending_fu_ holds.
LEMMA InsertKeeps ==
  ASSUME NEW c \in Callers, IInv, Insert(c)
  PROVE  IInv'
<1> DEFINE x == xid + 1
<1>1. /\ pc[c] = "new" /\ xid' = x /\ pending' = pending \cup {x}
      /\ fu' = [fu EXCEPT ![x].refs = 1] /\ cur' = [cur EXCEPT ![c] = x]
      /\ pc' = [pc EXCEPT ![c] = "recheck"]
      /\ status' = status /\ out_l' = out_l /\ hp' = hp /\ job' = job
  BY DEF Insert, Goto, ioVars
<1>2. x \in Xids /\ x \in 1 .. MaxXid /\ xid \in Nat /\ MaxXid \in Nat /\ out_l = c /\ cur[c] = 0
  BY <1>1, ClientAssumption DEF IInv, Types, Lock, Own, Xids
<1>3. Types'
  <2>1. xid' \in 0 .. MaxXid /\ 0 .. xid \subseteq 0 .. xid' /\ 1 .. xid \subseteq 1 .. xid' /\ x \in 1 .. xid'
    BY <1>1, <1>2
  <2>2. pending' \in SUBSET (1 .. xid') /\ job' \in [Closing -> SUBSET (1 .. xid')]
    BY <1>1, <2>1 DEF IInv, Types
  <2>3. cur' \in [Callers -> 0 .. xid']
    BY <1>1, <2>1 DEF IInv, Types
  <2>4. fu' \in [Xids -> [refs : Int, done : {"no", "reply", "ENOTCONN"}, hits : Nat]]
    BY <1>1, <1>2 DEF IInv, Types
  <2>5. pc' \in [Callers -> Places]
    BY <1>1 DEF IInv, Types, Places
  <2> QED
    BY <1>1, <2>1, <2>2, <2>3, <2>4, <2>5 DEF IInv, Types
<1>4. Lock'
  BY <1>1, <1>2 DEF IInv, Types, Lock
<1>5. Own'
  BY <1>1, <1>2 DEF IInv, Types, Own, Early
<1>6. Jobs'
  BY <1>1, <1>2 DEF IInv, Types, Jobs
<1>7. \A y \in Xids : (IsOwed(y)' <=> IsOwed(y) \/ y = x) /\ (IsGiven(y)' <=> IsGiven(y))
  BY <1>1, <1>2 DEF IInv, Types, IsOwed, IsGiven, Given, Xids
<1>8. ~IsGiven(x)
  BY <1>2 DEF IInv, Types, IsGiven
<1>9. Once'
  BY <1>1, <1>2, <1>7 DEF IInv, Types, Once, Xids
<1>10. Counted'
  BY <1>1, <1>2, <1>7, <1>8 DEF IInv, Types, Counted
<1>11. Left'
  BY <1>1, <1>2 DEF IInv, Types, Left, Early
<1> QED
  BY <1>3, <1>4, <1>5, <1>6, <1>9, <1>10, <1>11 DEF IInv

\* When the client was closed meanwhile, the future is taken out and released.
LEMMA UndoKeeps ==
  ASSUME NEW c \in Callers, IInv, Undo(c)
  PROVE  IInv'
<1> DEFINE x == cur[c]
<1>1. /\ pc[c] = "undo" /\ pending' = pending \ {x}
      /\ fu' = IF x \in pending THEN [fu EXCEPT ![x].refs = @ - 1] ELSE fu
      /\ cur' = [cur EXCEPT ![c] = 0] /\ pc' = [pc EXCEPT ![c] = "end"]
      /\ xid' = xid /\ status' = status /\ out_l' = out_l /\ hp' = hp /\ job' = job
  BY DEF Undo, Goto, ioVars
<1>2. x \in Xids /\ x \in 1 .. xid
  BY <1>1, ClientAssumption DEF IInv, Types, Own, Early, Xids
<1>3. Types'
  BY <1>1, <1>2 DEF IInv, Types, Places
<1>4. Lock'
  BY <1>1 DEF IInv, Types, Lock
<1>5. Own'
  BY <1>1 DEF IInv, Types, Own, Early
<1>6. Jobs'
  BY <1>1 DEF IInv, Jobs
<1>7. \A y \in Xids : IsGiven(y)' <=> IsGiven(y)
  BY <1>1 DEF IInv, Types, Own, IsGiven, Given, Xids
<1>8. \A y \in Xids : IsOwed(y)' <=> IsOwed(y) /\ (y = x => x \notin pending)
  BY <1>1 DEF IInv, Jobs, IsOwed
<1>9. Once'
  BY <1>1, <1>2, <1>8 DEF IInv, Types, Once
<1>10. Counted'
  <2>1. x \in pending => IsOwed(x)
    BY DEF IsOwed
  <2> QED
    BY <1>1, <1>2, <1>7, <1>8, <2>1 DEF IInv, Types, Counted
<1>11. Left'
  <2> SUFFICES ASSUME status = "CLOSED", \A p \in Closing : hp[p] # "swap", NEW y \in pending \ {x}
               PROVE  \E d \in Callers : cur'[d] = y /\ pc'[d] \in Early
    BY <1>1 DEF Left
  <2>1. PICK d \in Callers : cur[d] = y /\ pc[d] \in Early
    BY DEF IInv, Left
  <2> QED
    BY <1>1, <2>1 DEF IInv, Types
<1> QED
  BY <1>3, <1>4, <1>5, <1>6, <1>9, <1>10, <1>11 DEF IInv

\* The caller's reference is added.
LEMMA RefCopyKeeps ==
  ASSUME NEW c \in Callers, IInv, RefCopy(c)
  PROVE  IInv'
<1> DEFINE x == cur[c]
<1>1. /\ pc[c] = "ref" /\ fu' = [fu EXCEPT ![x].refs = @ + 1] /\ pc' = [pc EXCEPT ![c] = "arg"]
      /\ UNCHANGED << xid, pending, cur, status, out_l, hp, job >>
  BY DEF RefCopy, Goto, ioVars
<1>2. x \in Xids /\ x # 0
  BY <1>1, ClientAssumption DEF IInv, Types, Own, Xids
<1>3. Types'
  BY <1>1, <1>2 DEF IInv, Types, Places
<1>4. Lock' /\ Own' /\ Jobs'
  BY <1>1 DEF IInv, Types, Lock, Own, Jobs, Early
<1>5. ~IsGiven(x) /\ \A y \in Xids : IsGiven(y)' <=> IsGiven(y) \/ y = x
  BY <1>1, <1>2 DEF IInv, Types, Own, IsGiven, Given
<1>6. \A y \in Xids : IsOwed(y)' <=> IsOwed(y)
  BY <1>1 DEF IsOwed
<1>7. Once'
  BY <1>1, <1>2, <1>6 DEF IInv, Types, Once
<1>8. Counted'
  BY <1>1, <1>2, <1>5, <1>6 DEF IInv, Types, Counted
<1>9. Left'
  BY <1>1 DEF IInv, Types, Left, Early
<1> QED
  BY <1>3, <1>4, <1>7, <1>8, <1>9 DEF IInv

\* The caller gives its reference back.
LEMMA ReleaseKeeps ==
  ASSUME NEW c \in Callers, IInv, Release(c)
  PROVE  IInv'
<1> DEFINE x == cur[c]
<1>1. /\ pc[c] = "hold" /\ fu' = [fu EXCEPT ![x].refs = @ - 1]
      /\ cur' = [cur EXCEPT ![c] = 0] /\ pc' = [pc EXCEPT ![c] = "idle"]
      /\ UNCHANGED << xid, pending, status, out_l, hp, job >>
  BY DEF Release, Goto, ioVars
<1>2. x \in Xids /\ x # 0
  BY <1>1, ClientAssumption DEF IInv, Types, Own, Xids
<1>3. Types'
  BY <1>1, <1>2 DEF IInv, Types, Places
<1>4. Lock' /\ Own' /\ Jobs'
  BY <1>1 DEF IInv, Types, Lock, Own, Jobs, Early
<1>5. IsGiven(x) /\ \A y \in Xids : IsGiven(y)' <=> IsGiven(y) /\ y # x
  BY <1>1, <1>2 DEF IInv, Types, Own, IsGiven, Given, Xids
<1>6. \A y \in Xids : IsOwed(y)' <=> IsOwed(y)
  BY <1>1 DEF IsOwed
<1>7. Once'
  BY <1>1, <1>2, <1>6 DEF IInv, Types, Once
<1>8. Counted'
  BY <1>1, <1>2, <1>5, <1>6 DEF IInv, Types, Counted
<1>9. Left'
  BY <1>1 DEF IInv, Types, Left, Early
<1> QED
  BY <1>3, <1>4, <1>7, <1>8, <1>9 DEF IInv

-----------------------------------------------------------------------------
(* close and handle_read *)

\* close() sets status_ before it takes what is pending.
LEMMA CloseStartKeeps ==
  ASSUME NEW p \in Closing, IInv, CloseSocket(p) \/ CloseMark(p)
  PROVE  IInv'
<1>1. /\ Still
      /\ \/ hp[p] = "idle" /\ hp' = [hp EXCEPT ![p] = "mark"] /\ status' = status
         \/ hp[p] = "mark" /\ hp' = [hp EXCEPT ![p] = "swap"]
  BY DEF CloseSocket, CloseMark, Enter, Still, ioVars
<1>2. Types' /\ Jobs' /\ Left'
  BY <1>1 DEF IInv, Still, Types, Jobs, Left
<1> QED
  BY <1>1, <1>2, StillKeeps

\* Futures T move from pending_fu_ to p, which had none.
Take(p, T) ==
    /\ T \in SUBSET pending /\ pending' = pending \ T
    /\ job[p] = {} /\ job' = [job EXCEPT ![p] = T]
    /\ UNCHANGED << status, xid, fu, pc, cur, out_l >>

\* A thread that takes futures out of pending_fu_ owes their completion.
LEMMA TakeKeeps ==
  ASSUME NEW p \in Closing, NEW T, IInv, Take(p, T), Types',
         \/ hp' = [hp EXCEPT ![p] = "notify"] /\ hp[p] = "swap" /\ T = pending
         \/ hp' = hp /\ hp[p] = "parse" /\ \A x, y \in T : x = y
  PROVE  IInv'
<1> USE DEF Take
<1>1. Lock' /\ Own'
  BY DEF IInv, Lock, Own
<1>2. Jobs'
  BY DEF IInv, Types, Jobs
<1>3. \A x \in Xids : (IsOwed(x)' <=> IsOwed(x)) /\ (IsGiven(x)' <=> IsGiven(x))
  BY Zenon DEF IInv, Types, IsOwed, IsGiven
<1>4. Once' /\ Counted'
  BY <1>3 DEF IInv, Once, Counted
<1>5. Left'
  BY DEF IInv, Types, Left
<1> QED
  BY <1>1, <1>2, <1>4, <1>5 DEF IInv

\* The steps that take: the swap in close(), and the lookup of a reply.
LEMMA TakesKeep ==
  ASSUME NEW p \in Closing, IInv, CloseSwap(p) \/ Parse \/ ParseStray
  PROVE  IInv'
<1>1. CASE CloseSwap(p)
  <2>1. Take(p, pending) /\ hp[p] = "swap" /\ hp' = [hp EXCEPT ![p] = "notify"]
    BY <1>1 DEF CloseSwap, Take, Enter, ioVars, IInv, Jobs
  <2>2. Types'
    BY <2>1 DEF IInv, Types, Take
  <2> QED
    BY <2>1, <2>2, TakeKeeps, Zenon
<1>2. CASE Parse \/ ParseStray
  <2>1. hp' = hp /\ hp[poll] = "parse" /\ (Take(poll, {}) \/ \E x \in pending : Take(poll, {x}))
    <3>1. CASE Parse /\ in[1].v \in pending
      BY <3>1 DEF Parse, Take
    <3>2. CASE Parse /\ in[1].v \notin pending
      BY <3>2 DEF Parse, Take, IInv, Types
    <3>3. CASE ParseStray
      <4>1. hp[poll] = "parse" /\ job[poll] = {} /\ UNCHANGED << status, xid, fu, pc, cur, out_l, hp >>
        BY <3>3, Zenon DEF ParseStray
      <4>2. CASE UNCHANGED << pending, job >>
        BY <4>1, <4>2 DEF Take, IInv, Types
      <4>3. CASE \E x \in pending : pending' = pending \ {x} /\ job' = [job EXCEPT ![poll] = {x}]
        BY <4>1, <4>3, Zenon DEF Take
      <4> QED
        BY <3>3, <4>1, <4>2, <4>3, Zenon DEF ParseStray
    <3> QED
      BY <1>2, <3>1, <3>2, <3>3, Zenon
  <2>2. poll \in Closing
    BY DEF Closing
  <2>3. PICK T : Take(poll, T) /\ \A x, y \in T : x = y
    <3>1. CASE Take(poll, {})
      BY <3>1
    <3>2. ASSUME NEW x \in pending, Take(poll, {x})
          PROVE  \E T : Take(poll, T) /\ \A y, z \in T : y = z
      <4>1. \A y, z \in {x} : y = z
        OBVIOUS
      <4> QED
        BY <3>2, <4>1
    <3> QED
      BY <2>1, <3>1, <3>2, Zenon
  <2>4. Types'
    <3>1. T \in SUBSET (1 .. xid) /\ pending' \in SUBSET (1 .. xid)
      BY <2>3 DEF IInv, Types, Take
    <3>2. job' \in [Closing -> SUBSET (1 .. xid)]
      BY <2>2, <2>3, <3>1 DEF IInv, Types, Take
    <3> QED
      BY <2>1, <2>3, <3>1, <3>2 DEF IInv, Types, Take
  <2> QED
    BY <2>1, <2>2, <2>3, <2>4, TakeKeeps
<1> QED
  BY <1>1, <1>2

\* A future of p's is completed.
LEMMA CompleteKeeps ==
  ASSUME NEW p \in Closing, NEW x \in job[p], NEW how \in {"reply", "ENOTCONN"}, IInv,
         Complete(x, how), job' = [job EXCEPT ![p] = @ \ {x}],
         UNCHANGED << status, xid, pending, pc, cur, out_l, hp >>
  PROVE  IInv'
<1>1. x \in Xids
  BY ClientAssumption DEF IInv, Types, Xids
<1>2. fu' = [fu EXCEPT ![x] = [refs |-> fu[x].refs - 1, done |-> how, hits |-> fu[x].hits + 1]]
  BY DEF Complete
<1>3. Types'
  BY <1>1, <1>2 DEF IInv, Types
<1>4. Lock' /\ Own' /\ Left'
  BY DEF IInv, Lock, Own, Left
<1>5. Jobs'
  BY DEF IInv, Types, Jobs
<1>6. IsOwed(x) /\ \A y \in Xids : IsOwed(y)' <=> IsOwed(y) /\ y # x
  BY DEF IInv, Types, Jobs, IsOwed
<1>7. \A y \in Xids : IsGiven(y)' <=> IsGiven(y)
  BY DEF IsGiven
<1>8. Once'
  BY <1>1, <1>2, <1>3, <1>6 DEF IInv, Types, Once
<1>9. Counted'
  BY <1>1, <1>2, <1>6, <1>7 DEF IInv, Types, Counted
<1> QED
  BY <1>3, <1>4, <1>5, <1>8, <1>9 DEF IInv

\* The steps that complete a future and release the reference of pending_fu_.
LEMMA NotifiesKeep ==
  ASSUME NEW p \in Closing, IInv, CloseNotify(p) \/ ParseNotify
  PROVE  IInv'
<1>1. CASE CloseNotify(p) /\ hp' = hp
  <2>1. PICK x \in job[p] : Complete(x, "ENOTCONN") /\ job' = [job EXCEPT ![p] = @ \ {x}]
    BY <1>1 DEF CloseNotify, Enter, IInv, Types
  <2> QED
    BY <1>1, <2>1, CompleteKeeps, Zenon DEF CloseNotify, ioVars
<1>2. CASE CloseNotify(p) /\ hp' # hp
  <2>1. Still /\ status' = status /\ job[p] = {} /\ hp[p] = "notify" /\ hp' = [hp EXCEPT ![p] = "idle"]
    BY <1>2 DEF CloseNotify, Enter, Still, ioVars
  <2>2. Types' /\ Jobs' /\ Left'
    BY <2>1 DEF IInv, Still, Types, Jobs, Left
  <2> QED
    BY <2>1, <2>2, StillKeeps
<1>3. CASE ParseNotify
  <2>1. PICK x \in job[poll] : Complete(x, "reply")
    BY <1>3 DEF ParseNotify
  <2>2. job[poll] \ {x} = {} /\ poll \in Closing
    BY <1>3 DEF ParseNotify, IInv, Jobs, Closing
  <2>3. job' = [job EXCEPT ![poll] = @ \ {x}]
    BY <1>3, <2>2, Zenon DEF ParseNotify
  <2> QED
    BY <1>3, <2>1, <2>2, <2>3, CompleteKeeps, Zenon DEF ParseNotify, ioVars
<1> QED
  BY <1>1, <1>2, <1>3

-----------------------------------------------------------------------------
\* Every step keeps the invariant.
LEMMA NextIInv == IInv /\ [Next]_vars => IInv'
<1> SUFFICES ASSUME IInv, [Next]_vars PROVE IInv'
  OBVIOUS
<1>1. CASE UNCHANGED vars
  <2>1. Still /\ hp' = hp /\ status' = status
    BY <1>1 DEF vars, clientVars, ioVars, Still
  <2>2. Types' /\ Jobs' /\ Left'
    BY <2>1 DEF IInv, Still, Types, Jobs, Left
  <2> QED
    BY <2>1, <2>2, StillKeeps
<1>2. ASSUME NEW c \in Callers, Begin(c) \/ Request(c) \/ Release(c)
      PROVE  IInv'
  BY <1>2, WalksKeep, InsertKeeps, UndoKeeps, RefCopyKeeps, ReleaseKeeps DEF Request
<1>3. ASSUME NEW p \in Closing, CloseSocket(p) \/ Close(p)
      PROVE  IInv'
  BY <1>3, CloseStartKeeps, TakesKeep, NotifiesKeep DEF Close
<1>4. CASE Read
  <2>1. poll \in Closing
    BY DEF Closing
  <2> QED
    BY <1>4, <2>1, TakesKeep, NotifiesKeep, TransferKeeps DEF Read
<1> QED
  BY <1>1, <1>2, <1>3, <1>4, ConnectKeeps, TransferKeeps DEF Next

\* The inductive invariant holds of every behaviour of a TCPClient.
THEOREM Inductive == Spec => []IInv
  BY InitIInv, NextIInv, PTL DEF Spec

\* A future is completed at most once, by handle_read, close() or neither, however many
\* threads close the client and connect it again.
THEOREM CompletesOnce == Spec => []CompletedOnce
<1>1. IInv => CompletedOnce
  BY DEF IInv, Once, CompletedOnce
<1> QED
  BY Inductive, <1>1, PTL

\* When a client is closed and nobody is in close() or begin_request, pending_fu_ is
\* empty: no future is left to wait for ever.
THEOREM NothingPending == Spec => []CloseLeavesNothingPending
<1>1. IInv => CloseLeavesNothingPending
  BY DEF IInv, Left, Early, CloseLeavesNothingPending
<1> QED
  BY Inductive, <1>1, PTL

\* The last bookmark in out_ has at most d units behind it.
Since(d) == \E m \in 1 .. Len(out) :
    /\ out[m].k = "size" /\ Len(out) - m <= d
    /\ \A j \in m + 1 .. Len(out) : out[j].k # "size"

\* The types of status_, of the connection and of what travels on it.
IoTypes ==
    /\ status \in {"NEW", "CONNECTED", "CLOSED"}
    /\ conn \in [n : 0 .. MaxConnects, add : {"no", "mode", "read", "write", "done"}, open : BOOLEAN, closes : Nat]
    /\ out \in Seq(Unit) /\ in \in Seq(Unit) /\ net \in Seq(Unit) /\ wire \in Seq(Unit)
    /\ out_l \in Callers \cup {none} /\ writing \in BOOLEAN /\ answered \in SUBSET Xids

\* Between set_bookmark and end_request a caller finds its own bookmark last.
Marks ==
    \A c \in Callers :
        /\ pc[c] = "xid" => Since(0)
        /\ pc[c] = "rpc" => Since(1)
        /\ pc[c] \in {"ref", "arg"} => Since(2)
        /\ pc[c] = "end" /\ cur[c] # 0 => Since(3)

\* Only xids that were given out are marshalled.
Old ==
    /\ \A i \in 1 .. Len(out) : out[i].k # "size" => out[i].v <= xid
    /\ \A i \in 1 .. Len(wire) : wire[i].k # "size" => wire[i].v <= xid

Io == IoTypes /\ Marks /\ Old

-----------------------------------------------------------------------------
(* What is in the buffers *)

\* A new client has empty buffers.
LEMMA InitIo == Init => Io
<1> SUFFICES ASSUME Init PROVE Io
  OBVIOUS
<1>1. IoTypes
  <2>1. conn \in [n : 0 .. MaxConnects, add : {"no", "mode", "read", "write", "done"}, open : BOOLEAN, closes : Nat]
    BY ClientAssumption DEF Init
  <2>2. << >> \in Seq(Unit)
    OBVIOUS
  <2> QED
    BY <2>1, <2>2, Zenon DEF Init, IoTypes
<1>2. Marks /\ Old
  BY DEF Init, Marks, Old
<1> QED
  BY <1>1, <1>2 DEF Io

\* The bookmark that end_request fills is the one of this request.
LEMMA LastMarkFound ==
  ASSUME NEW d, out \in Seq(Unit), Since(d)
  PROVE  /\ LastMark \in 1 .. Len(out) /\ out[LastMark].k = "size" /\ Len(out) - LastMark <= d
         /\ \A j \in LastMark + 1 .. Len(out) : out[j].k # "size"
<1> DEFINE P(i) == out[i].k = "size" /\ \A j \in i + 1 .. Len(out) : out[j].k # "size"
<1>1. PICK m \in 1 .. Len(out) : P(m) /\ Len(out) - m <= d
  BY DEF Since
<1>2. LastMark = CHOOSE i \in 1 .. Len(out) : P(i)
  BY DEF LastMark
<1> HIDE DEF P
<1>3. LastMark \in 1 .. Len(out) /\ P(LastMark)
  BY <1>1, <1>2
<1>4. LastMark = m
  <2>1. Len(out) \in Nat
    OBVIOUS
  <2> QED
    BY <1>1, <1>3, <2>1 DEF P
<1> QED
  BY <1>1, <1>3, <1>4 DEF P

\* out_l_ is held by one thread.
LEMMA Alone ==
  ASSUME IInv
  PROVE  /\ out_l = none => \A d \in Callers : pc[d] \in {"idle", "hold"}
         /\ \A c, d \in Callers : pc[c] \notin {"idle", "hold"} /\ pc[d] \notin {"idle", "hold"} => c = d
  BY ClientAssumption DEF IInv, Lock

\* What callers and the server put into the buffers are units.
LEMMA UnitsAre ==
  /\ [k |-> "size", v |-> 0] \in Unit
  /\ \A x \in Xids : \A l \in {"xid", "rpc", "arg", "hdr", "ret"} : [k |-> l, v |-> x] \in Unit
  /\ \A d \in 0 .. 3 : [k |-> "size", v |-> d] \in Unit
  BY DEF Unit

\* What is cut from a buffer or put behind one is made of units.
LEMMA Cut ==
  ASSUME NEW s \in Seq(Unit), NEW t \in Seq(Unit), NEW n \in Nat, n <= Len(t)
  PROVE  /\ SubSeq(t, 1, n) \in Seq(Unit) /\ SubSeq(t, n + 1, Len(t)) \in Seq(Unit) /\ Len(SubSeq(t, 1, n)) = n
         /\ s \o SubSeq(t, 1, n) \in Seq(Unit) /\ Len(s \o SubSeq(t, 1, n)) = Len(s) + n
         /\ Len(SubSeq(t, n + 1, Len(t))) = Len(t) - n
         /\ \A i \in 1 .. Len(t) - n : SubSeq(t, n + 1, Len(t))[i] = t[n + i]
         /\ \A i \in 1 .. Len(s) : (s \o SubSeq(t, 1, n))[i] = s[i]
         /\ \A i \in 1 .. n : (s \o SubSeq(t, 1, n))[Len(s) + i] = t[i]
<1>1. SubSeq(t, 1, n) \in Seq(Unit) /\ Len(SubSeq(t, 1, n)) = n /\ \A i \in 1 .. n : SubSeq(t, 1, n)[i] = t[i]
  OBVIOUS
<1>2. /\ SubSeq(t, n + 1, Len(t)) \in Seq(Unit) /\ Len(SubSeq(t, n + 1, Len(t))) = Len(t) - n
      /\ \A i \in 1 .. Len(t) - n : SubSeq(t, n + 1, Len(t))[i] = t[n + i]
  OBVIOUS
<1> DEFINE r == SubSeq(t, 1, n)
<1>3. s \o r \in Seq(Unit) /\ Len(s \o r) = Len(s) + n
  BY <1>1
<1>4. \A i \in 1 .. Len(s) : (s \o r)[i] = s[i]
  BY <1>1
<1>5. \A i \in 1 .. n : (s \o r)[Len(s) + i] = r[i]
  BY <1>1
<1> QED
  BY <1>1, <1>2, <1>3, <1>4, <1>5, Zenon

\* The two halves of IoTypes.
Buffers == out \in Seq(Unit) /\ in \in Seq(Unit) /\ net \in Seq(Unit) /\ wire \in Seq(Unit)
Rest ==
    /\ status \in {"NEW", "CONNECTED", "CLOSED"}
    /\ conn \in [n : 0 .. MaxConnects, add : {"no", "mode", "read", "write", "done"}, open : BOOLEAN, closes : Nat]
    /\ out_l \in Callers \cup {none} /\ writing \in BOOLEAN /\ answered \in SUBSET Xids

\* Every step keeps the types of what is not a buffer.
LEMMA RestKept ==
  ASSUME IInv, Io, [Next]_vars
  PROVE  Rest'
<1>0. Rest
  BY DEF Io, IoTypes, Rest
<1>1. status' \in {"NEW", "CONNECTED", "CLOSED"}
  <2>1. status' = status \/ status' \in {"CONNECTED", "CLOSED"}
    BY Zenon DEF Next, Connect, AddMode, AddRegister, Begin, Request, Release, Insert, Recheck, Undo, Mark, Put, RefCopy, End,
       CloseSocket, Close, CloseMark, CloseSwap, CloseNotify, HandleWrite, HandleRead, Read, Parse, ParseNotify, ParseStray,
       ParseEnd, Answer, vars, clientVars
  <2> QED
    BY <1>0, <2>1 DEF Rest
<1>2. conn' \in [n : 0 .. MaxConnects, add : {"no", "mode", "read", "write", "done"}, open : BOOLEAN, closes : Nat]
  <2>1. CASE conn' = conn
    BY <1>0, <2>1 DEF Rest
  <2>2. CASE Connect
    BY <1>0, <2>2, ClientAssumption DEF Rest, Connect
  <2>3. CASE AddMode \/ AddRegister
    BY <1>0, <2>3 DEF Rest, AddMode, AddRegister
  <2>4. ASSUME NEW p \in Closing, CloseSocket(p), conn' # conn
        PROVE  conn' \in [n : 0 .. MaxConnects, add : {"no", "mode", "read", "write", "done"}, open : BOOLEAN, closes : Nat]
    <3>1. conn' = [conn EXCEPT !.open = FALSE, !.closes = @ + 1]
      BY <2>4 DEF CloseSocket
    <3>2. conn.closes + 1 \in Nat
      BY <1>0 DEF Rest
    <3> QED
      BY <1>0, <3>1, <3>2, Zenon DEF Rest
  <2> QED
    BY <2>1, <2>2, <2>3, <2>4, Zenon DEF Next, Begin, Request, Release, Insert, Recheck, Undo, Mark, Put, RefCopy, End,
       Close, CloseMark, CloseSwap, CloseNotify, HandleWrite, HandleRead, Read, Parse, ParseNotify, ParseStray,
       ParseEnd, Answer, vars, clientVars
<1>3. out_l' \in Callers \cup {none}
  <2>1. out_l' = out_l \/ out_l' \in Callers \cup {none}
    BY Zenon DEF Next, Connect, AddMode, AddRegister, Begin, Request, Release, Insert, Recheck, Undo, Mark, Put, RefCopy, End,
       CloseSocket, Close, CloseMark, CloseSwap, CloseNotify, HandleWrite, HandleRead, Read, Parse, ParseNotify, ParseStray,
       ParseEnd, Answer, vars, ioVars
  <2> QED
    BY <1>0, <2>1 DEF Rest
<1>4. writing' \in BOOLEAN
  <2>1. CASE writing' = writing
    BY <1>0, <2>1 DEF Rest
  <2>2. CASE Connect \/ AddRegister
    BY <2>2, Zenon DEF Connect, AddRegister
  <2>3. ASSUME NEW p \in Closing, CloseSocket(p)
        PROVE  writing' \in BOOLEAN
    BY <1>0, <2>3, Zenon DEF CloseSocket, Rest
  <2>4. ASSUME NEW w \in BOOLEAN, UpdateMode(w)
        PROVE  writing' \in BOOLEAN
    BY <1>0, <2>4, Zenon DEF UpdateMode, Rest
  <2>5. ASSUME NEW c \in Callers, End(c)
        PROVE  writing' \in BOOLEAN
    BY <2>4, <2>5, Zenon DEF End
  <2>6. CASE HandleWrite
    <3>1. PICK n \in 0 .. Len(out) : UpdateMode(n # Len(out))
      BY <2>6, Zenon DEF HandleWrite
    <3> QED
      BY <2>4, <3>1, Zenon
  <2> QED
    BY <2>1, <2>2, <2>3, <2>5, <2>6, Zenon DEF Next, AddMode, Begin, Request, Release, Insert, Recheck, Undo, Mark, Put,
       RefCopy, Close, CloseMark, CloseSwap, CloseNotify, HandleRead, Read, Parse, ParseNotify, ParseStray,
       ParseEnd, Answer, vars, ioVars
<1>5. answered' \in SUBSET Xids
  <2>1. answered' = answered \/ \E x \in Xids : answered' = answered \cup {x}
    BY Zenon DEF Next, Connect, AddMode, AddRegister, Begin, Request, Release, Insert, Recheck, Undo, Mark, Put, RefCopy, End,
       CloseSocket, Close, CloseMark, CloseSwap, CloseNotify, HandleWrite, HandleRead, Read, Parse, ParseNotify, ParseStray,
       ParseEnd, Answer, vars, ioVars
  <2> QED
    BY <1>0, <2>1 DEF Rest
<1> QED
  BY <1>1, <1>2, <1>3, <1>4, <1>5 DEF Rest

\* A unit other than a size belongs to a request.
LEMMA UnitNat == \A u \in Unit : u.v \in Nat /\ (u.k # "size" => u.v \in Xids)
  BY ClientAssumption DEF Unit, Xids

\* What is on its way to the server, when a step leaves it alone.
LEMMA MarksStay ==
  ASSUME IInv, Buffers, Marks, Old, out' = out, xid' \in Nat, xid <= xid', wire' \in {wire, << >>},
         \A c \in Callers : \/ pc'[c] \in {"idle", "new", "recheck", "undo", "mark", "hold"}
                            \/ pc'[c] = "end" /\ cur'[c] = 0
                            \/ pc'[c] \in {pc[c], IF pc[c] = "ref" THEN "arg" ELSE pc[c]} /\ cur'[c] = cur[c]
  PROVE  Marks' /\ Old'
<1>1. \A d : Since(d)' <=> Since(d)
  BY DEF Since
<1>2. Marks'
  BY <1>1 DEF Marks
<1>3. \A i \in 1 .. Len(wire') : i \in 1 .. Len(wire) /\ wire'[i] = wire[i]
  OBVIOUS
<1>4. xid \in Nat /\ \A u \in Unit : u.v <= xid => u.v <= xid'
  BY UnitNat DEF IInv, Types
<1>5. Old'
  <2>1. \A i \in 1 .. Len(out) : out[i] \in Unit /\ (out[i].k # "size" => out[i].v <= xid')
    BY <1>4 DEF Buffers, Old
  <2>2. \A i \in 1 .. Len(wire') : wire'[i].k # "size" => wire'[i].v <= xid'
    BY <1>3, <1>4 DEF Buffers, Old
  <2> QED
    BY <2>1, <2>2 DEF Old
<1> QED
  BY <1>2, <1>5

\* A unit that is put into out_ is behind the bookmark.
LEMMA Behind ==
  ASSUME NEW u \in Unit, out \in Seq(Unit), out' = Append(out, u)
  PROVE  /\ u.k = "size" => Since(0)'
         /\ \A d \in 0 .. 2 : u.k # "size" /\ Since(d) => Since(d + 1)'
<1>1. Len(out) \in Nat /\ Len(out') = Len(out) + 1 /\ out'[Len(out) + 1] = u /\ \A i \in 1 .. Len(out) : out'[i] = out[i]
  OBVIOUS
<1>2. u.k = "size" => Since(0)'
  BY <1>1 DEF Since
<1>3. ASSUME NEW d \in 0 .. 2, u.k # "size", Since(d)
      PROVE  Since(d + 1)'
  <2>1. PICK m \in 1 .. Len(out) : out[m].k = "size" /\ Len(out) - m <= d /\ \A j \in m + 1 .. Len(out) : out[j].k # "size"
    BY <1>3 DEF Since
  <2>2. m \in 1 .. Len(out') /\ out'[m].k = "size" /\ Len(out') - m <= d + 1
    BY <1>1, <2>1
  <2>3. \A j \in m + 1 .. Len(out') : out'[j].k # "size"
    BY <1>1, <1>3, <2>1
  <2> QED
    BY <2>2, <2>3 DEF Since
<1> QED
  BY <1>2, <1>3

\* A caller that has a future has an xid.
LEMMA OwnXid ==
  ASSUME IInv, NEW c \in Callers
  PROVE  /\ pc[c] \in {"recheck", "undo", "mark", "xid", "rpc", "ref", "arg", "hold"} => cur[c] # 0
         /\ cur[c] # 0 => cur[c] \in Xids /\ cur[c] \in 1 .. xid /\ cur[c] <= xid
<1>1. xid \in 0 .. MaxXid /\ cur[c] \in 0 .. xid
  BY DEF IInv, Types
<1>2. pc[c] \in {"recheck", "undo", "mark", "xid", "rpc", "ref", "arg", "hold"} => cur[c] # 0
  BY DEF IInv, Own, Early
<1> QED
  BY <1>1, <1>2, ClientAssumption DEF Xids

\* Requests are marshalled into out_ unit by unit; end_request fills the bookmark.
LEMMA MarshalKept ==
  ASSUME NEW c \in Callers, IInv, Io, Mark(c) \/ Put(c) \/ End(c), IInv'
  PROVE  Buffers' /\ Marks' /\ Old'
<1>0. /\ Buffers /\ Marks /\ Old /\ out \in Seq(Unit) /\ xid \in Nat
      /\ pc \in [Callers -> Places] /\ cur \in [Callers -> 0 .. xid]
  BY DEF IInv, Types, Io, IoTypes, Buffers
<1>1. UNCHANGED << in, net, wire, xid, cur >>
  BY Zenon DEF Mark, Put, End, clientVars
<1>2. \A d \in Callers : d # c => pc[d] \in {"idle", "hold"} /\ pc'[d] = pc[d]
  <2>1. pc[c] \notin {"idle", "hold"}
    BY Zenon DEF Mark, Put, End
  <2>2. \A d \in Callers : d # c => pc[d] \in {"idle", "hold"}
    BY <2>1, Alone
  <2> QED
    BY <1>0, <2>2, Zenon DEF Mark, Put, End, Goto
<1>3. ASSUME NEW u \in Unit, out' = Append(out, u), u.k # "size" => u.v <= xid,
             pc'[c] = "xid" => u.k = "size",
             pc'[c] = "rpc" => u.k # "size" /\ Since(0),
             pc'[c] \in {"ref", "arg"} => u.k # "size" /\ Since(1),
             pc'[c] = "end" => u.k # "size" /\ Since(2)
      PROVE  Buffers' /\ Marks' /\ Old'
  <2>1. out' \in Seq(Unit) /\ Len(out') = Len(out) + 1 /\ out'[Len(out) + 1] = u /\ \A i \in 1 .. Len(out) : out'[i] = out[i]
    BY <1>0, <1>3
  <2>2. Buffers'
    BY <1>0, <1>1, <2>1 DEF Buffers
  <2>3. /\ pc'[c] = "xid" => Since(0)'
        /\ pc'[c] = "rpc" => Since(1)'
        /\ pc'[c] \in {"ref", "arg"} => Since(2)'
        /\ pc'[c] = "end" => Since(3)'
    <3>1. /\ u.k = "size" => Since(0)'
          /\ \A d \in 0 .. 2 : u.k # "size" /\ Since(d) => Since(d + 1)'
      BY <1>0, <1>3, Behind
    <3>2. 0 \in 0 .. 2 /\ 1 \in 0 .. 2 /\ 2 \in 0 .. 2 /\ 0 + 1 = 1 /\ 1 + 1 = 2 /\ 2 + 1 = 3
      OBVIOUS
    <3> QED
      BY <1>3, <3>1, <3>2
  <2>4. Marks'
    BY <1>2, <2>3 DEF Marks
  <2>5. Old'
    BY <1>0, <1>1, <1>3, <2>1 DEF Old, Buffers
  <2> QED
    BY <2>2, <2>4, <2>5
<1>4. CASE Mark(c)
  <2>1. pc'[c] = "xid" /\ out' = Append(out, [k |-> "size", v |-> 0])
    BY <1>0, <1>4 DEF Mark, Goto
  <2> QED
    BY <1>3, <2>1, UnitsAre
<1>5. CASE Put(c) /\ status = "CONNECTED"
  <2> DEFINE u == [k |-> pc[c], v |-> cur[c]]
  <2>1. out' = Append(out, u) /\ pc[c] \in {"xid", "rpc", "arg"}
    BY <1>5 DEF Put
  <2>2. /\ pc[c] = "xid" => pc'[c] = "rpc"
        /\ pc[c] = "rpc" => pc'[c] = "ref"
        /\ pc[c] = "arg" => pc'[c] = "end"
    BY <1>0, <1>5 DEF Put, Goto
  <2>3. cur[c] \in Xids /\ cur[c] <= xid
    BY <2>1, OwnXid
  <2>4. u \in Unit /\ u.k # "size" /\ u.v <= xid
    BY <2>1, <2>3, UnitsAre, Zenon
  <2>5. (pc[c] = "xid" => Since(0)) /\ (pc[c] = "rpc" => Since(1)) /\ (pc[c] = "arg" => Since(2))
    BY <1>0 DEF Marks
  <2> HIDE DEF u
  <2> QED
    BY <1>3, <2>1, <2>2, <2>4, <2>5, Zenon
<1>6. CASE Put(c) /\ status # "CONNECTED"
  <2>1. out' = out /\ pc[c] \in {"xid", "rpc", "arg"}
    BY <1>6 DEF Put
  <2>2. /\ pc[c] = "xid" => pc'[c] = "rpc"
        /\ pc[c] = "rpc" => pc'[c] = "ref"
        /\ pc[c] = "arg" => pc'[c] = "end"
    BY <1>0, <1>6 DEF Put, Goto
  <2>3. (Since(0) => Since(1)') /\ (Since(1) => Since(2)') /\ (Since(2) => Since(3)')
    BY <1>0, <2>1 DEF Since
  <2>4. Marks'
    BY <1>0, <1>2, <2>1, <2>2, <2>3, Zenon DEF Marks
  <2>5. Old' /\ Buffers'
    BY <1>0, <1>1, <2>1 DEF Old, Buffers
  <2> QED
    BY <2>4, <2>5
<1>7. CASE End(c)
  <2>1. pc[c] = "end" /\ pc'[c] \in {"idle", "hold"}
    BY <1>0, <1>7 DEF End, Goto
  <2>2. Marks'
    BY <1>2, <2>1 DEF Marks
  <2>3. CASE cur[c] = 0
    <3>1. out' = out
      BY <1>7, <2>3 DEF End
    <3> QED
      BY <1>0, <1>1, <2>2, <3>1, Zenon DEF Old, Buffers
  <2>4. CASE cur[c] # 0
    <3>1. out' = [out EXCEPT ![LastMark].v = Len(out) - LastMark]
      BY <1>7, <2>4 DEF End
    <3>2. LastMark \in 1 .. Len(out) /\ out[LastMark].k = "size" /\ Len(out) - LastMark <= 3
      BY <1>0, <2>1, <2>4, LastMarkFound, Zenon DEF Marks
    <3>3. PICK m \in 1 .. Len(out) : m = LastMark
      BY <3>2
    <3>4. PICK d \in 0 .. 3 : d = Len(out) - m
      BY <1>0, <3>2, <3>3
    <3>5. out[m] \in Unit /\ out[m].k = "size" /\ out' = [out EXCEPT ![m].v = d]
      BY <1>0, <3>1, <3>2, <3>3, <3>4
    <3>6. [out[m] EXCEPT !.v = d] = [k |-> "size", v |-> d]
      BY <3>5 DEF Unit
    <3>7. out' = [out EXCEPT ![m] = [k |-> "size", v |-> d]]
      BY <3>5, <3>6, Zenon
    <3>8. out' \in Seq(Unit) /\ Len(out') = Len(out) /\ \A i \in 1 .. Len(out) : i # m => out'[i] = out[i]
      BY <1>0, <3>7, UnitsAre
    <3>9. Old'
      BY <1>0, <1>1, <3>7, <3>8 DEF Old
    <3> QED
      BY <1>0, <1>1, <2>2, <3>8, <3>9 DEF Buffers
  <2> QED
    BY <2>3, <2>4
<1> QED
  BY <1>4, <1>5, <1>6, <1>7

\* The other steps of a caller leave out_ alone.
LEMMA CallerKept ==
  ASSUME NEW c \in Callers, IInv, Io, IInv',
         Begin(c) \/ Insert(c) \/ Recheck(c) \/ Undo(c) \/ RefCopy(c) \/ Release(c)
  PROVE  Buffers' /\ Marks' /\ Old'
<1>1. UNCHANGED << out, in, net, wire >>
  BY Zenon DEF Begin, Insert, Recheck, Undo, RefCopy, Release, ioVars
<1>2. Buffers /\ Marks /\ Old /\ xid \in Nat /\ xid' \in Nat /\ pc \in [Callers -> Places] /\ cur \in [Callers -> 0 .. xid]
  BY DEF IInv, Types, Io, IoTypes, Buffers
<1>3. xid <= xid'
  BY <1>2 DEF Begin, Insert, Recheck, Undo, RefCopy, Release, clientVars
<1>4. ASSUME NEW d \in Callers, d # c
      PROVE  pc'[d] = pc[d] /\ cur'[d] = cur[d]
  BY <1>2, <1>4, Zenon DEF Begin, Insert, Recheck, Undo, RefCopy, Release, Goto
<1>5. \/ pc'[c] \in {"idle", "new", "recheck", "undo", "mark", "hold"}
      \/ pc'[c] = "end" /\ cur'[c] = 0
      \/ pc'[c] = "arg" /\ pc[c] = "ref" /\ cur'[c] = cur[c]
  <2>1. Begin(c) => cur[c] = 0 /\ cur' = cur
    BY DEF Begin, IInv, Own
  <2> QED
    BY <1>2, <2>1, Zenon DEF Begin, Insert, Recheck, Undo, RefCopy, Release, Goto
<1> QED
  BY <1>1, <1>2, <1>3, <1>4, <1>5, MarksStay DEF Buffers

\* handle_write moves a prefix of out_ to the wire, while no caller is in between.
LEMMA WriteKept ==
  ASSUME IInv, Io, HandleWrite
  PROVE  Buffers' /\ Marks' /\ Old'
<1>1. Buffers /\ Old /\ out_l = none /\ UNCHANGED << in, net, xid, pc, cur >>
  BY DEF HandleWrite, clientVars, Io, IoTypes, Buffers
<1>2. PICK n \in 0 .. Len(out) : wire' = wire \o SubSeq(out, 1, n) /\ out' = SubSeq(out, n + 1, Len(out))
  BY Zenon DEF HandleWrite
<1>3. out \in Seq(Unit) /\ wire \in Seq(Unit) /\ n \in Nat /\ n <= Len(out)
  BY <1>1, <1>2 DEF Buffers
<1>4. /\ wire' \in Seq(Unit) /\ out' \in Seq(Unit) /\ Len(wire') = Len(wire) + n /\ Len(out') = Len(out) - n
      /\ \A i \in 1 .. Len(out) - n : out'[i] = out[n + i]
      /\ \A i \in 1 .. Len(wire) : wire'[i] = wire[i]
      /\ \A i \in 1 .. n : wire'[Len(wire) + i] = out[i]
  BY <1>2, <1>3, Cut
<1>5. Marks'
  BY <1>1, Alone DEF Marks
<1>6. Old'
  <2>1. ASSUME NEW i \in 1 .. Len(out'), out'[i].k # "size"
        PROVE  out'[i].v <= xid
    <3>1. n + i \in 1 .. Len(out) /\ out'[i] = out[n + i]
      BY <1>3, <1>4
    <3> QED
      BY <1>1, <2>1, <3>1 DEF Old
  <2>2. ASSUME NEW i \in 1 .. Len(wire'), wire'[i].k # "size"
        PROVE  wire'[i].v <= xid
    <3>1. CASE i <= Len(wire)
      <4>1. i \in 1 .. Len(wire) /\ wire'[i] = wire[i]
        BY <1>3, <1>4, <3>1
      <4> QED
        BY <1>1, <2>2, <4>1 DEF Old
    <3>2. CASE i > Len(wire)
      <4>1. i - Len(wire) \in 1 .. n /\ i = Len(wire) + (i - Len(wire))
        BY <1>3, <1>4, <3>2
      <4>2. i - Len(wire) \in 1 .. Len(out) /\ wire'[i] = out[i - Len(wire)]
        BY <1>3, <1>4, <4>1
      <4> QED
        BY <1>1, <2>2, <4>2 DEF Old
    <3> QED
      BY <1>3, <3>1, <3>2
  <2> QED
    BY <1>1, <2>1, <2>2 DEF Old
<1> QED
  BY <1>1, <1>4, <1>5, <1>6 DEF Buffers

\* Nothing else touches the requests.
LEMMA ElseKept ==
  ASSUME IInv, Io, IInv', UNCHANGED << xid, pc, cur, out >>, wire' \in {wire, << >>}, in' \in Seq(Unit), net' \in Seq(Unit)
  PROVE  Buffers' /\ Marks' /\ Old'
<1>1. Buffers /\ Marks /\ Old /\ xid \in Nat /\ xid' \in Nat /\ pc \in [Callers -> Places]
  BY DEF IInv, Types, Io, IoTypes, Buffers
<1>2. Marks' /\ Old'
  BY <1>1, MarksStay
<1>3. << >> \in Seq(Unit)
  OBVIOUS
<1> QED
  BY <1>1, <1>2, <1>3, Zenon DEF Buffers

\* Replies are made of units too.
LEMMA RepliesKept ==
  ASSUME IInv, Io, HandleRead \/ Parse \/ ParseStray \/ \E x \in Xids : Answer(x)
  PROVE  in' \in Seq(Unit) /\ net' \in Seq(Unit)
<1>1. in \in Seq(Unit) /\ net \in Seq(Unit)
  BY DEF Io, IoTypes
<1>2. CASE HandleRead
  <2>1. PICK n \in 1 .. Len(net) : in' = in \o SubSeq(net, 1, n) /\ net' = SubSeq(net, n + 1, Len(net))
    BY <1>2, Zenon DEF HandleRead
  <2>2. n \in Nat /\ n <= Len(net)
    BY <1>1, <2>1
  <2> QED
    BY <1>1, <2>1, <2>2, Cut
<1>3. CASE Parse \/ ParseStray
  <2>1. net' = net /\ Len(in) \in Nat /\ in # << >> /\ in' \in {SubSeq(in, 3, Len(in)), Tail(in)}
    BY <1>1, <1>3 DEF Parse, ParseStray, Whole
  <2>2. SubSeq(in, 3, Len(in)) \in Seq(Unit) /\ Tail(in) \in Seq(Unit)
    BY <1>1, <2>1
  <2> QED
    BY <1>1, <2>1, <2>2, Zenon
<1>4. ASSUME NEW x \in Xids, Answer(x)
      PROVE  in' \in Seq(Unit) /\ net' \in Seq(Unit)
  <2>1. in' = in /\ net' = net \o << [k |-> "hdr", v |-> x], [k |-> "ret", v |-> x] >>
    BY <1>4 DEF Answer
  <2>2. [k |-> "hdr", v |-> x] \in Unit /\ [k |-> "ret", v |-> x] \in Unit
    BY UnitsAre, Zenon
  <2>3. \A u, w \in Unit : << u, w >> \in Seq(Unit)
    OBVIOUS
  <2>4. << [k |-> "hdr", v |-> x], [k |-> "ret", v |-> x] >> \in Seq(Unit)
    BY <2>2, <2>3, Zenon
  <2>5. \A s \in Seq(Unit) : net \o s \in Seq(Unit)
    BY <1>1
  <2> QED
    BY <1>1, <2>1, <2>4, <2>5, Zenon
<1> QED
  BY <1>2, <1>3, <1>4

\* Every step keeps the types of the buffers.
LEMMA NextIo == IInv /\ Io /\ [Next]_vars => Io'
<1> SUFFICES ASSUME IInv, Io, [Next]_vars PROVE Io'
  OBVIOUS
<1>0. IInv' /\ in \in Seq(Unit) /\ net \in Seq(Unit) /\ << >> \in Seq(Unit)
  BY NextIInv DEF Io, IoTypes
<1>1. Buffers' /\ Marks' /\ Old'
  <2>1. ASSUME NEW c \in Callers, Begin(c) \/ Request(c) \/ Release(c)
        PROVE  Buffers' /\ Marks' /\ Old'
    BY <1>0, <2>1, MarshalKept, CallerKept, Zenon DEF Request
  <2>2. CASE HandleWrite
    BY <2>2, WriteKept
  <2>3. CASE HandleRead \/ Parse \/ ParseStray \/ \E x \in Xids : Answer(x)
    <3>1. UNCHANGED << xid, pc, cur, out >> /\ wire' = wire
      BY <2>3, Zenon DEF HandleRead, Parse, ParseStray, Answer, clientVars
    <3> QED
      BY <1>0, <2>3, <3>1, RepliesKept, ElseKept
  <2>4. ASSUME \/ Connect \/ AddMode \/ AddRegister \/ ParseNotify \/ ParseEnd \/ UNCHANGED vars
               \/ \E p \in Closing : CloseSocket(p) \/ Close(p)
        PROVE  Buffers' /\ Marks' /\ Old'
    <3>1. UNCHANGED << xid, pc, cur, out, in >> /\ wire' \in {wire, << >>} /\ net' \in {net, << >>}
      BY <2>4, Zenon DEF Connect, AddMode, AddRegister, ParseNotify, ParseEnd, vars, CloseSocket, Close, CloseMark,
         CloseSwap, CloseNotify, clientVars, ioVars
    <3>2. in' \in Seq(Unit) /\ net' \in Seq(Unit)
      BY <1>0, <3>1, Zenon
    <3> QED
      BY <1>0, <3>1, <3>2, ElseKept
  <2> QED
    BY <2>1, <2>2, <2>3, <2>4, Zenon DEF Next, Read
<1> QED
  BY <1>1, RestKept, Zenon DEF Io, IoTypes, Buffers, Rest

-----------------------------------------------------------------------------
(* The requests of a connection *)

\* The units of all requests of the connection, sent or not.
Total == Len(wire) + Len(out)
At(i) == IF i <= Len(wire) THEN wire[i] ELSE out[i - Len(wire)]

\* How many units of its request a caller has marshalled.
Written(c) ==
    CASE pc[c] = "xid" -> 1
      [] pc[c] = "rpc" -> 2
      [] pc[c] \in {"ref", "arg"} -> 3
      [] pc[c] = "end" /\ cur[c] # 0 -> 4
      [] OTHER -> 0

\* Unit i belongs to a request that is being marshalled.
Open(i) == \E c \in Callers : i > Total - Written(c)

\* A request is a size, an xid, an rpc id and its arguments.
Framed(i) ==
    /\ i % 4 = 1 => At(i).k = "size" /\ (At(i).v = 3 \/ Open(i))
    /\ i % 4 = 2 => At(i).k = "xid"
    /\ i % 4 = 3 => At(i) = [k |-> "rpc", v |-> At(i - 1).v]
    /\ i % 4 = 0 => At(i) = [k |-> "arg", v |-> At(i - 1).v]

\* The same of what the server has received, whether the client is still connected or not.
WireWhole ==
    \A i \in 1 .. Len(wire) :
        /\ i % 4 = 1 => wire[i] = [k |-> "size", v |-> 3]
        /\ i % 4 = 2 => wire[i].k = "xid"
        /\ i % 4 = 3 => wire[i] = [k |-> "rpc", v |-> wire[i - 1].v]
        /\ i % 4 = 0 => wire[i] = [k |-> "arg", v |-> wire[i - 1].v]

\* A caller is as far in its request as the buffer is.
Placed(c) ==
    /\ pc[c] # "undo"
    /\ pc[c] \notin {"idle", "hold"} => Total % 4 = Written(c) % 4
    /\ Written(c) <= Len(out)
    /\ \A j \in Total - Written(c) + 2 .. Total : At(j).v = cur[c]

\* While the client is connected its units form whole requests but for the last, which is
\* the one of the caller that holds out_l_.
Framing ==
    /\ WireWhole
    /\ status = "CONNECTED" =>
          /\ \A i \in 1 .. Total : Framed(i)
          /\ out_l = none => Total % 4 = 0
          /\ \A c \in Callers : Placed(c)

-----------------------------------------------------------------------------
(* Requests are whole *)

\* A caller marshals at most four units.
LEMMA WrittenIs ==
  ASSUME NEW c \in Callers
  PROVE  /\ Written(c) \in 0 .. 4
         /\ pc[c] = "xid" => Written(c) = 1
         /\ pc[c] = "rpc" => Written(c) = 2
         /\ pc[c] \in {"ref", "arg"} => Written(c) = 3
         /\ pc[c] = "end" /\ cur[c] # 0 => Written(c) = 4
         /\ pc[c] = "end" /\ cur[c] = 0 => Written(c) = 0
         /\ pc[c] \in {"idle", "new", "recheck", "undo", "mark", "hold"} => Written(c) = 0
  BY DEF Written

\* A step that leaves the units alone.
LEMMA FramingStays ==
  ASSUME Framing, Buffers, UNCHANGED << wire, out >>,
         status' = "CONNECTED" =>
             /\ status = "CONNECTED"
             /\ out_l' = none => Total % 4 = 0
             /\ \A c \in Callers :
                   /\ Written(c)' = Written(c) /\ (Written(c) # 0 => cur'[c] = cur[c])
                   /\ pc'[c] # "undo"
                   /\ pc'[c] \notin {"idle", "hold"} => Total % 4 = Written(c) % 4
  PROVE  Framing'
<1>1. Total' = Total /\ Total \in Nat /\ Len(out) \in Nat /\ \A i : At(i)' = At(i)
  BY DEF Total, At, Buffers
<1>2. WireWhole'
  BY DEF Framing, WireWhole
<1> SUFFICES ASSUME status' = "CONNECTED"
             PROVE  (\A i \in 1 .. Total : Framed(i)') /\ (out_l' = none => Total % 4 = 0) /\ \A c \in Callers : Placed(c)'
  BY <1>1, <1>2 DEF Framing
<1>3. ASSUME NEW i \in 1 .. Total
      PROVE  Framed(i)'
  <2>1. Framed(i)
    BY DEF Framing
  <2>2. Open(i)' <=> Open(i)
    BY <1>1 DEF Open
  <2> QED
    BY <1>1, <2>1, <2>2 DEF Framed
<1>4. ASSUME NEW c \in Callers
      PROVE  Placed(c)'
  <2>1. Placed(c)
    BY DEF Framing
  <2> QED
    BY <1>1, <2>1, WrittenIs DEF Placed
<1> QED
  BY <1>3, <1>4

\* Putting a unit behind out_ leaves those before it.
LEMMA AtAppend ==
  ASSUME Buffers, NEW u \in Unit, out' = Append(out, u), wire' = wire, NEW T, T = Total
  PROVE  /\ T \in Nat /\ Total' = T + 1 /\ Len(out') = Len(out) + 1
         /\ \A i \in 1 .. T : At(i)' = At(i)
         /\ At(T + 1)' = u
<1>1. /\ Len(out) \in Nat /\ Len(wire) \in Nat /\ Len(out') = Len(out) + 1
      /\ out'[Len(out) + 1] = u /\ \A i \in 1 .. Len(out) : out'[i] = out[i]
  BY DEF Buffers
<1>2. T = Len(wire) + Len(out)
  BY DEF Total
<1>3. T \in Nat /\ Total' = T + 1
  BY <1>1, <1>2 DEF Total
<1>4. ASSUME NEW i \in 1 .. T
      PROVE  At(i)' = At(i)
  <2>1. CASE i <= Len(wire)
    BY <2>1 DEF At
  <2>2. CASE i > Len(wire)
    <3>1. i - Len(wire) \in 1 .. Len(out)
      BY <1>1, <1>2, <2>2
    <3>2. out'[i - Len(wire)] = out[i - Len(wire)]
      BY <1>1, <3>1
    <3> QED
      BY <1>1, <2>2, <3>2 DEF At
  <2> QED
    BY <1>1, <2>1, <2>2
<1>5. At(T + 1)' = u
  <2>0. PICK p : p = T + 1
    OBVIOUS
  <2>1. ~(p <= Len(wire)) /\ p - Len(wire) = Len(out) + 1
    BY <1>1, <1>2, <2>0
  <2>2. out'[p - Len(wire)] = u
    BY <1>1, <2>1, Zenon
  <2>3. At(p)' = u
    BY <2>1, <2>2, Zenon DEF At
  <2> QED
    BY <2>0, <2>3, Zenon
<1> QED
  BY <1>1, <1>3, <1>4, <1>5

\* set_bookmark starts a request behind whole ones.
LEMMA MarkFrames ==
  ASSUME NEW c \in Callers, IInv, Io, Framing, Mark(c)
  PROVE  Framing'
<1>1. /\ pc[c] = "mark" /\ pc'= [pc EXCEPT ![c] = "xid"] /\ out' = Append(out, [k |-> "size", v |-> 0])
      /\ wire' = wire /\ status' = status /\ out_l' = out_l /\ cur' = cur
  BY DEF Mark, Goto, clientVars
<1>2. Buffers /\ pc \in [Callers -> Places] /\ out_l = c /\ out_l # none
  <2>1. Buffers /\ pc \in [Callers -> Places] /\ Lock
    BY Zenon DEF IInv, Types, Io, IoTypes, Buffers
  <2> QED
    BY <1>1, <2>1, ClientAssumption DEF Lock
<1>3. WireWhole'
  BY <1>1 DEF Framing, WireWhole
<1> SUFFICES ASSUME status = "CONNECTED"
             PROVE  (\A i \in 1 .. Total' : Framed(i)') /\ \A d \in Callers : Placed(d)'
  BY <1>1, <1>2, <1>3 DEF Framing
<1>4. PICK T : T = Total
  OBVIOUS
<1> DEFINE u == [k |-> "size", v |-> 0]
<1>5. /\ T \in Nat /\ Total' = T + 1 /\ Len(out') = Len(out) + 1
      /\ \A i \in 1 .. T : At(i)' = At(i)
      /\ At(T + 1)' = u
  BY <1>1, <1>2, <1>4, AtAppend, UnitsAre, Zenon
<1>6. pc'[c] = "xid" /\ Written(c) = 0 /\ Written(c)' = 1
  BY <1>1, <1>2 DEF Written
<1>7. \A d \in Callers : d # c => pc[d] \in {"idle", "hold"} /\ pc'[d] = pc[d] /\ Written(d) = 0 /\ Written(d)' = 0
  <2>1. \A d \in Callers : d # c => pc[d] \in {"idle", "hold"} /\ pc'[d] = pc[d]
    BY <1>1, <1>2, Alone
  <2> QED
    BY <2>1 DEF Written
<1>8. T % 4 = 0 /\ (T + 1) % 4 = 1
  <2>1. T % 4 = 0 % 4
    BY <1>1, <1>4, <1>6 DEF Framing, Placed
  <2> QED
    BY <1>5, <2>1
<1>9. ASSUME NEW i \in 1 .. T
      PROVE  Framed(i)'
  <2>1. Framed(i) /\ ~Open(i)
    BY <1>4, <1>5, <1>6, <1>7 DEF Framing, Open
  <2>2. At(i)' = At(i) /\ (i % 4 \in {3, 0} => At(i - 1)' = At(i - 1))
    BY <1>5
  <2> QED
    BY <2>1, <2>2 DEF Framed
<1>10. Framed(T + 1)'
  <2>1. Open(T + 1)'
    BY <1>5, <1>6 DEF Open
  <2> QED
    BY <1>5, <1>8, <2>1 DEF Framed
<1>11. ASSUME NEW d \in Callers
       PROVE  Placed(d)'
  BY <1>1, <1>2, <1>5, <1>6, <1>7, <1>8 DEF Placed, Buffers
<1> QED
  BY <1>5, <1>9, <1>10, <1>11

\* Each unit that a caller marshals while the client is connected is the next of its request.
LEMMA PutFrames ==
  ASSUME NEW c \in Callers, IInv, Io, Framing, Put(c)
  PROVE  Framing'
<1>1. /\ pc[c] \in {"xid", "rpc", "arg"} /\ wire' = wire /\ status' = status /\ out_l' = out_l /\ cur' = cur
      /\ \A d \in Callers : d # c => pc'[d] = pc[d]
      /\ (pc[c] = "xid" => pc'[c] = "rpc") /\ (pc[c] = "rpc" => pc'[c] = "ref") /\ (pc[c] = "arg" => pc'[c] = "end")
  <2>1. pc \in [Callers -> Places]
    BY DEF IInv, Types
  <2> QED
    BY <2>1 DEF Put, Goto, clientVars
<1>2. Buffers /\ out_l = c /\ out_l # none
  <2>1. Buffers /\ Lock
    BY Zenon DEF IInv, Types, Io, IoTypes, Buffers
  <2> QED
    BY <1>1, <2>1, ClientAssumption DEF Lock
<1>3. WireWhole'
  BY <1>1 DEF Framing, WireWhole
<1> SUFFICES ASSUME status = "CONNECTED"
             PROVE  (\A i \in 1 .. Total' : Framed(i)') /\ \A d \in Callers : Placed(d)'
  BY <1>1, <1>2, <1>3 DEF Framing
<1>4. PICK T : T = Total
  OBVIOUS
<1>5. PICK w : w = Written(c)
  OBVIOUS
<1> DEFINE u == [k |-> pc[c], v |-> cur[c]]
<1>6. u \in Unit /\ out' = Append(out, u) /\ cur[c] # 0
  <2>1. cur[c] \in Xids /\ cur[c] # 0
    BY <1>1, OwnXid
  <2>2. u \in Unit
    BY <1>1, <2>1, UnitsAre, Zenon
  <2> QED
    BY <2>1, <2>2 DEF Put
<1>7. u.k = pc[c] /\ u.v = cur[c]
  OBVIOUS
<1> HIDE DEF u
<1>8. /\ T \in Nat /\ Total' = T + 1 /\ Len(out') = Len(out) + 1 /\ Len(out) \in Nat
      /\ \A i \in 1 .. T : At(i)' = At(i)
      /\ At(T + 1)' = u
  <2>1. Len(out) \in Nat
    BY <1>2 DEF Buffers
  <2>2. Buffers /\ wire' = wire
    BY <1>1, <1>2
  <2> QED
    BY <1>4, <1>6, <2>1, <2>2, AtAppend, Zenon
<1>9. /\ w \in 1 .. 3 /\ Written(c)' = w + 1
      /\ (w = 1 <=> pc[c] = "xid") /\ (w = 2 <=> pc[c] = "rpc") /\ (w = 3 <=> pc[c] = "arg")
  BY <1>1, <1>5, <1>6 DEF Written
<1>10. \A d \in Callers : d # c => pc[d] \in {"idle", "hold"} /\ pc'[d] = pc[d] /\ Written(d) = 0 /\ Written(d)' = 0
  <2>1. \A d \in Callers : d # c => pc[d] \in {"idle", "hold"} /\ pc'[d] = pc[d]
    BY <1>1, Alone
  <2> QED
    BY <2>1 DEF Written
<1>11. Placed(c) /\ \A i \in 1 .. T : Framed(i)
  BY <1>4 DEF Framing
<1>12. T % 4 = w /\ (T + 1) % 4 = (w + 1) % 4 /\ T >= w /\ w <= Len(out)
  <2>1. T % 4 = w % 4 /\ w <= Len(out)
    BY <1>1, <1>4, <1>5, <1>11 DEF Placed
  <2>2. T = Len(wire) + Len(out) /\ Len(wire) \in Nat
    BY <1>2, <1>4 DEF Total, Buffers
  <2>3. w % 4 = w /\ w \in Nat
    BY <1>9
  <2>4. T % 4 = w
    BY <2>1, <2>3
  <2>5. (T + 1) % 4 = (w + 1) % 4
    BY <1>8, <1>9, <2>4
  <2>6. T >= w
    BY <2>1, <2>2, <2>3
  <2> QED
    BY <2>1, <2>4, <2>5, <2>6, Zenon
<1>13. ASSUME NEW i \in 1 .. T
       PROVE  Framed(i)'
  <2>1. Framed(i)
    BY <1>11
  <2>2. Open(i) => Open(i)'
    <3>1. Open(i) <=> i > T - w
      BY <1>4, <1>5, <1>8, <1>9, <1>10 DEF Open
    <3>2. i > T - w => Open(i)'
      BY <1>8, <1>9 DEF Open
    <3> QED
      BY <3>1, <3>2
  <2>3. At(i)' = At(i) /\ (i % 4 \in {3, 0} => At(i - 1)' = At(i - 1))
    BY <1>8
  <2> QED
    BY <2>1, <2>2, <2>3 DEF Framed
<1>14. \A j \in T - w + 2 .. T : At(j).v = cur[c]
  BY <1>4, <1>5, <1>11 DEF Placed
<1>15. Framed(T + 1)'
  <2>1. CASE w = 1
    <3>1. (T + 1) % 4 = 2 /\ At(T + 1)'.k = "xid"
      BY <1>7, <1>8, <1>9, <1>12, <2>1
    <3> QED
      BY <3>1 DEF Framed
  <2>2. CASE w \in {2, 3}
    <3>1. At(T)' = At(T) /\ At(T).v = cur[c]
      BY <1>8, <1>12, <1>14, <2>2
    <3>2. u = [k |-> u.k, v |-> u.v]
      BY <1>6 DEF Unit
    <3>3. PICK p : p = T + 1
      OBVIOUS
    <3>4. p - 1 = T /\ At(p)' = [k |-> pc[c], v |-> At(T)'.v]
      BY <1>7, <1>8, <3>1, <3>2, <3>3
    <3>5. At(p)' = [k |-> pc[c], v |-> At(p - 1)'.v]
      BY <3>4, Zenon
    <3>6. \/ p % 4 = 3 /\ pc[c] = "rpc"
          \/ p % 4 = 0 /\ pc[c] = "arg"
      BY <1>9, <1>12, <2>2, <3>3
    <3>7. Framed(p)'
      BY <3>5, <3>6 DEF Framed
    <3> QED
      BY <3>3, <3>7, Zenon
  <2> QED
    BY <1>9, <2>1, <2>2
<1>16. Placed(c)'
  <2>1. \A j \in Total' - Written(c)' + 2 .. Total' : At(j)'.v = cur'[c]
    <3>1. ASSUME NEW j \in T - w + 2 .. T + 1
          PROVE  At(j)'.v = cur[c]
      <4>1. CASE j = T + 1
        BY <1>7, <1>8, <4>1
      <4>2. CASE j # T + 1
        <5>1. j \in T - w + 2 .. T /\ j \in 1 .. T
          BY <1>8, <1>9, <1>12, <3>1, <4>2
        <5> QED
          BY <1>8, <1>14, <5>1
      <4> QED
        BY <4>1, <4>2
    <3>2. Total' - Written(c)' + 2 = T - w + 2
      BY <1>8, <1>9
    <3> QED
      BY <1>1, <1>8, <3>1, <3>2, Zenon
  <2>2. pc'[c] # "undo" /\ Total' % 4 = Written(c)' % 4 /\ Written(c)' <= Len(out')
    BY <1>1, <1>8, <1>9, <1>12
  <2> QED
    BY <2>1, <2>2 DEF Placed
<1>17. ASSUME NEW d \in Callers, d # c
       PROVE  Placed(d)'
  BY <1>8, <1>10, <1>17 DEF Placed
<1> QED
  BY <1>8, <1>13, <1>15, <1>16, <1>17

\* end_request fills the bookmark of a whole request with its length, 3.
LEMMA EndFrames ==
  ASSUME NEW c \in Callers, IInv, Io, Framing, End(c)
  PROVE  Framing'
<1>1. /\ pc[c] = "end" /\ wire' = wire /\ status' = status /\ out_l' = none /\ cur' = cur
      /\ pc'[c] \in {"idle", "hold"} /\ \A d \in Callers : d # c => pc'[d] = pc[d]
  <2>1. pc \in [Callers -> Places]
    BY DEF IInv, Types
  <2> QED
    BY <2>1 DEF End, Goto, clientVars
<1>2. Buffers /\ Marks
  BY Zenon DEF Io, IoTypes, Buffers
<1>3. WireWhole'
  BY <1>1 DEF Framing, WireWhole
<1>4. \A d \in Callers : pc'[d] \in {"idle", "hold"} /\ Written(d)' = 0
  <2>1. \A d \in Callers : pc'[d] \in {"idle", "hold"}
    BY <1>1, Alone
  <2> QED
    BY <2>1 DEF Written
<1> SUFFICES ASSUME status = "CONNECTED"
             PROVE  (\A i \in 1 .. Total' : Framed(i)') /\ Total' % 4 = 0 /\ \A d \in Callers : Placed(d)'
  BY <1>1, <1>3 DEF Framing
<1>5. PICK T : T = Total
  OBVIOUS
<1>6. /\ T = Len(wire) + Len(out) /\ Len(wire) \in Nat /\ Len(out) \in Nat /\ T \in Nat
      /\ out \in Seq(Unit)
  BY <1>2, <1>5 DEF Total, Buffers
<1>7. Placed(c) /\ \A i \in 1 .. T : Framed(i)
  BY <1>5 DEF Framing
<1>8. T % 4 = 0
  <2>1. Written(c) \in {0, 4} /\ T % 4 = Written(c) % 4
    BY <1>1, <1>5, <1>7, WrittenIs, Zenon DEF Placed
  <2> QED
    BY <2>1
<1>9. ASSUME Total' = T, \A i \in 1 .. T : At(i)'.k = At(i).k,
             \A i \in 1 .. T : i % 4 # 1 => At(i)' = At(i),
             \A i \in 1 .. T : i % 4 = 1 => At(i)'.v = 3
      PROVE  (\A i \in 1 .. Total' : Framed(i)') /\ Total' % 4 = 0 /\ \A d \in Callers : Placed(d)'
  <2>1. ASSUME NEW i \in 1 .. T
        PROVE  Framed(i)'
    <3>1. Framed(i)
      BY <1>7
    <3>2. i % 4 \in {3, 0} => i - 1 \in 1 .. T /\ (i - 1) % 4 # 1 /\ At(i - 1)' = At(i - 1)
      BY <1>6, <1>9
    <3> QED
      BY <1>9, <3>1, <3>2 DEF Framed
  <2>2. ASSUME NEW d \in Callers
        PROVE  Placed(d)'
    <3>1. Len(out') \in Nat
      BY <1>6 DEF End
    <3> QED
      BY <1>4, <1>6, <1>9, <3>1 DEF Placed
  <2> QED
    BY <1>8, <1>9, <2>1, <2>2
<1>10. CASE cur[c] = 0
  <2>1. out' = out
    BY <1>10 DEF End
  <2>2. Total' = T /\ \A i : At(i)' = At(i)
    BY <1>1, <1>5, <2>1 DEF Total, At
  <2>3. \A d \in Callers : Written(d) = 0
    <3>1. \A d \in Callers : d # c => pc[d] \in {"idle", "hold"}
      BY <1>1, Alone
    <3> QED
      BY <1>1, <1>10, <3>1, WrittenIs
  <2>4. \A i \in 1 .. T : ~Open(i)
    BY <1>5, <1>6, <2>3 DEF Open
  <2>5. \A i \in 1 .. T : i % 4 = 1 => At(i).v = 3
    BY <1>7, <2>4 DEF Framed
  <2> QED
    BY <1>9, <2>2, <2>5
<1>11. CASE cur[c] # 0
  <2>1. Written(c) = 4 /\ Len(out) >= 4
    BY <1>1, <1>6, <1>7, <1>11, WrittenIs, Zenon DEF Placed
  <2>2. /\ LastMark \in 1 .. Len(out) /\ out[LastMark].k = "size" /\ Len(out) - LastMark <= 3
        /\ \A j \in LastMark + 1 .. Len(out) : out[j].k # "size"
    BY <1>1, <1>2, <1>6, <1>11, LastMarkFound DEF Marks
  <2>3. PICK m \in 1 .. Len(out) : m = LastMark
    BY <2>2
  <2>4. Len(wire) + m \in 1 .. T /\ At(Len(wire) + m) = out[m]
    BY <1>6, <2>3 DEF At
  <2>5. (Len(wire) + m) % 4 = 1
    <3>1. Framed(Len(wire) + m) /\ At(Len(wire) + m).k = "size"
      BY <1>7, <2>2, <2>3, <2>4
    <3>2. (Len(wire) + m) % 4 \in {0, 1, 2, 3}
      BY <1>6, <2>4
    <3> QED
      BY <3>1, <3>2 DEF Framed
  <2>6. m = Len(out) - 3 /\ Len(wire) + m = T - 3
    <3>1. Len(out) - m <= 3 /\ m <= Len(out) /\ m \in Nat
      BY <1>6, <2>2, <2>3
    <3>2. Len(wire) + m \in T - 3 .. T
      BY <1>6, <3>1
    <3>3. Len(wire) + m = T - 3
      BY <1>6, <1>8, <2>5, <3>2
    <3> QED
      BY <1>6, <3>1, <3>3
  <2>7. out' = [out EXCEPT ![m].v = 3]
    <3>1. out' = [out EXCEPT ![m].v = Len(out) - m]
      BY <1>11, <2>3 DEF End
    <3>2. Len(out) - m = 3
      BY <1>6, <2>6
    <3> QED
      BY <3>1, <3>2, Zenon
  <2>8. /\ Len(out') = Len(out) /\ out'[m].k = out[m].k /\ out'[m].v = 3
        /\ \A i \in 1 .. Len(out) : i # m => out'[i] = out[i]
    <3>1. out[m] \in Unit /\ [out[m] EXCEPT !.v = 3].v = 3 /\ [out[m] EXCEPT !.v = 3].k = out[m].k
      BY <1>6 DEF Unit
    <3>2. DOMAIN out = 1 .. Len(out)
      BY <1>6
    <3>3. Len(out') = Len(out)
      BY <1>6, <2>7
    <3> QED
      BY <2>7, <3>1, <3>2, <3>3
  <2>9. Total' = T
    BY <1>1, <1>6, <2>8 DEF Total
  <2>10. ASSUME NEW i \in 1 .. T, i # T - 3
         PROVE  At(i)' = At(i)
    <3>1. CASE i <= Len(wire)
      BY <1>1, <3>1 DEF At
    <3>2. CASE i > Len(wire)
      <4>1. i - Len(wire) \in 1 .. Len(out) /\ i - Len(wire) # m
        BY <1>6, <2>6, <2>10, <3>2
      <4>2. out'[i - Len(wire)] = out[i - Len(wire)]
        BY <2>8, <4>1, Zenon
      <4> QED
        BY <1>1, <1>6, <3>2, <4>2 DEF At
    <3> QED
      BY <1>6, <3>1, <3>2
  <2>11. T - 3 \in 1 .. T /\ At(T - 3)'.k = At(T - 3).k /\ At(T - 3)'.v = 3
    <3>1. ~(T - 3 <= Len(wire)) /\ T - 3 - Len(wire) = m
      BY <1>6, <2>6
    <3>2. At(T - 3)' = out'[m] /\ At(T - 3) = out[m]
      BY <1>1, <3>1 DEF At
    <3> QED
      BY <1>6, <2>4, <2>6, <2>8, <3>2, Zenon
  <2>12. \A d \in Callers : d # c => Written(d) = 0
    BY <1>1, Alone, WrittenIs, Zenon
  <2>13. \A i \in 1 .. T : i % 4 = 1 /\ i # T - 3 => ~Open(i)
    BY <1>5, <1>6, <1>8, <2>1, <2>12 DEF Open
  <2>14. \A i \in 1 .. T : i % 4 = 1 => At(i)'.v = 3
    BY <1>7, <2>10, <2>11, <2>13 DEF Framed
  <2>15. (T - 3) % 4 = 1
    BY <1>6, <1>8
  <2> QED
    BY <1>9, <2>9, <2>10, <2>11, <2>14, <2>15
<1> QED
  BY <1>10, <1>11

\* handle_write, while no caller is in between, moves units of whole requests.
LEMMA WriteFrames ==
  ASSUME IInv, Io, Framing, HandleWrite
  PROVE  Framing'
<1>1. Buffers /\ out_l = none /\ status = "CONNECTED" /\ UNCHANGED << out_l, status, pc, cur >>
  BY Zenon DEF HandleWrite, clientVars, Io, IoTypes, Buffers
<1>2. PICK n \in 0 .. Len(out) : wire' = wire \o SubSeq(out, 1, n) /\ out' = SubSeq(out, n + 1, Len(out))
  BY Zenon DEF HandleWrite
<1>3. PICK T : T = Total
  OBVIOUS
<1>4. /\ out \in Seq(Unit) /\ wire \in Seq(Unit) /\ n \in Nat /\ n <= Len(out) /\ Len(out) \in Nat /\ Len(wire) \in Nat
      /\ T = Len(wire) + Len(out) /\ T \in Nat
  BY <1>1, <1>2, <1>3 DEF Buffers, Total
<1>5. /\ Len(wire') = Len(wire) + n /\ Len(out') = Len(out) - n
      /\ \A i \in 1 .. Len(out) - n : out'[i] = out[n + i]
      /\ \A i \in 1 .. Len(wire) : wire'[i] = wire[i]
      /\ \A i \in 1 .. n : wire'[Len(wire) + i] = out[i]
  BY <1>2, <1>4, Cut
<1>6. ASSUME NEW i \in 1 .. Len(wire')
      PROVE  wire'[i] = At(i)
  <2>1. CASE i <= Len(wire)
    BY <1>5, <2>1 DEF At
  <2>2. CASE ~(i <= Len(wire))
    <3>1. i - Len(wire) \in 1 .. n /\ i = Len(wire) + (i - Len(wire))
      BY <1>4, <1>5, <2>2
    <3>2. wire'[i] = out[i - Len(wire)]
      BY <1>5, <3>1
    <3> QED
      BY <2>2, <3>2, Zenon DEF At
  <2> QED
    BY <2>1, <2>2
<1>7. Total' = T
  BY <1>4, <1>5 DEF Total
<1>8. ASSUME NEW i \in 1 .. T
      PROVE  At(i)' = At(i)
  <2>1. CASE i <= Len(wire')
    BY <1>4, <1>5, <1>6, <2>1 DEF At
  <2>2. CASE ~(i <= Len(wire'))
    <3>1. i - Len(wire') \in 1 .. Len(out) - n /\ n + (i - Len(wire')) = i - Len(wire) /\ ~(i <= Len(wire))
      BY <1>4, <1>5, <2>2
    <3>2. out'[i - Len(wire')] = out[i - Len(wire)]
      <4>1. out'[i - Len(wire')] = out[n + (i - Len(wire'))]
        BY <1>5, <3>1, Zenon
      <4> QED
        BY <3>1, <4>1, Zenon
    <3> QED
      BY <2>2, <3>1, <3>2, Zenon DEF At
  <2> QED
    BY <2>1, <2>2
<1>9. \A d \in Callers : pc[d] \in {"idle", "hold"} /\ Written(d) = 0 /\ Written(d)' = 0
  <2>1. \A d \in Callers : pc[d] \in {"idle", "hold"} /\ pc'[d] = pc[d]
    BY <1>1, Alone
  <2> QED
    BY <2>1 DEF Written
<1>10. T % 4 = 0 /\ \A i \in 1 .. T : Framed(i)
  BY <1>1, <1>3 DEF Framing
<1>11. \A i \in 1 .. T : ~Open(i)
  BY <1>3, <1>4, <1>9 DEF Open
<1>12. ASSUME NEW i \in 1 .. T
       PROVE  /\ Framed(i)' /\ (i % 4 = 1 => At(i).v = 3)
  <2>1. i % 4 \in {3, 0} => i - 1 \in 1 .. T /\ At(i - 1)' = At(i - 1)
    BY <1>4, <1>8
  <2> QED
    BY <1>8, <1>10, <1>11, <2>1, Zenon DEF Framed
<1>13. WireWhole'
  <2> SUFFICES ASSUME NEW i \in 1 .. Len(wire')
               PROVE  /\ i % 4 = 1 => wire'[i] = [k |-> "size", v |-> 3]
                      /\ i % 4 = 2 => wire'[i].k = "xid"
                      /\ i % 4 = 3 => wire'[i] = [k |-> "rpc", v |-> wire'[i - 1].v]
                      /\ i % 4 = 0 => wire'[i] = [k |-> "arg", v |-> wire'[i - 1].v]
    BY Zenon DEF WireWhole
  <2>1. i \in 1 .. T /\ wire'[i] = At(i) /\ Framed(i) /\ (i % 4 = 1 => At(i).v = 3)
    <3>1. i \in 1 .. T
      BY <1>4, <1>5
    <3> QED
      BY <1>6, <1>10, <1>12, <3>1
  <2>2. i % 4 \in {3, 0} => wire'[i - 1] = At(i - 1)
    <3>1. Len(wire') \in Nat
      BY <1>4, <1>5
    <3>2. i % 4 \in {3, 0} => i # 1
      OBVIOUS
    <3>3. i # 1 => i - 1 \in 1 .. Len(wire')
      BY <3>1
    <3> QED
      BY <1>6, <3>2, <3>3
  <2>3. wire'[i] \in Unit
    <3>1. wire' \in Seq(Unit)
      BY <1>2, <1>4, Cut
    <3> QED
      BY <3>1
  <2>4. i % 4 = 1 => wire'[i] = [k |-> "size", v |-> 3]
    BY <2>1, <2>3 DEF Framed, Unit
  <2> QED
    BY <2>1, <2>2, <2>4, Zenon DEF Framed
<1>14. \A d \in Callers : Placed(d)'
  BY <1>1, <1>4, <1>5, <1>7, <1>9 DEF Placed
<1> QED
  BY <1>1, <1>7, <1>10, <1>12, <1>13, <1>14 DEF Framing

\* A connection starts with empty buffers, and with no caller in a request.
LEMMA ConnectFrames ==
  ASSUME Connect, out = << >>, \A c \in Callers : pc[c] \in {"idle", "end"} /\ cur[c] = 0
  PROVE  Framing'
<1>1. out' = << >> /\ wire' = << >> /\ pc' = pc /\ cur' = cur
  BY DEF Connect
<1>2. Len(out') = 0 /\ Total' = 0
  BY <1>1 DEF Total
<1>3. \A c \in Callers : pc'[c] # "undo" /\ Written(c)' = 0
  BY <1>1 DEF Written
<1>4. \A c \in Callers : Placed(c)'
  BY <1>2, <1>3 DEF Placed
<1>5. WireWhole'
  BY <1>1 DEF WireWhole
<1> QED
  BY <1>2, <1>4, <1>5 DEF Framing

\* The other steps of a caller keep its place.
LEMMA CallerFrames ==
  ASSUME NEW c \in Callers, IInv, Io, Framing, Begin(c) \/ Insert(c) \/ Recheck(c) \/ Undo(c) \/ RefCopy(c) \/ Release(c)
  PROVE  Framing'
<1>1. UNCHANGED << out, wire, status >>
  BY Zenon DEF Begin, Insert, Recheck, Undo, RefCopy, Release, clientVars, ioVars
<1>2. Buffers /\ pc \in [Callers -> Places] /\ cur \in [Callers -> 0 .. xid] /\ Lock
  BY Zenon DEF IInv, Types, Io, IoTypes, Buffers
<1> SUFFICES ASSUME status = "CONNECTED"
             PROVE  /\ out_l' = none => Total % 4 = 0
                    /\ \A d \in Callers :
                          /\ Written(d)' = Written(d) /\ (Written(d) # 0 => cur'[d] = cur[d])
                          /\ pc'[d] # "undo"
                          /\ pc'[d] \notin {"idle", "hold"} => Total % 4 = Written(d) % 4
  BY <1>1, <1>2, FramingStays
<1>3. (out_l = none => Total % 4 = 0) /\ \A d \in Callers : Placed(d)
  BY DEF Framing
<1>4. ASSUME NEW d \in Callers, d # c
      PROVE  pc'[d] = pc[d] /\ cur'[d] = cur[d] /\ Written(d)' = Written(d)
  <2>1. pc'[d] = pc[d] /\ cur'[d] = cur[d]
    BY <1>2, <1>4, Zenon DEF Begin, Insert, Recheck, Undo, RefCopy, Release, Goto
  <2> QED
    BY <2>1 DEF Written
<1>5. CASE Begin(c)
  <2>1. pc[c] = "idle" /\ cur[c] = 0 /\ cur' = cur /\ pc'[c] = "new" /\ out_l = none /\ out_l' = c /\ c # none
    BY <1>2, <1>5, ClientAssumption, Zenon DEF Begin, IInv, Own, Goto
  <2>2. Written(c) = 0 /\ Written(c)' = 0 /\ 0 % 4 = 0
    BY <2>1 DEF Written
  <2> QED
    BY <1>3, <1>4, <2>1, <2>2, Zenon DEF Placed
<1>6. CASE Insert(c) \/ Recheck(c)
  <2>1. out_l' = out_l /\ pc[c] \in {"new", "recheck"} /\ pc'[c] \in {"recheck", "mark"}
    BY <1>2, <1>6, Zenon DEF Insert, Recheck, Goto, ioVars
  <2>2. Written(c) = 0 /\ Written(c)' = 0 /\ 0 % 4 = 0
    BY <2>1 DEF Written
  <2> QED
    BY <1>3, <1>4, <2>1, <2>2, Zenon DEF Placed
<1>7. CASE RefCopy(c)
  <2>1. out_l' = out_l /\ pc[c] = "ref" /\ pc'[c] = "arg" /\ cur' = cur
    BY <1>2, <1>7 DEF RefCopy, Goto, ioVars
  <2>2. Written(c) = 3 /\ Written(c)' = 3
    BY <2>1 DEF Written
  <2> QED
    BY <1>3, <1>4, <2>1, <2>2, Zenon DEF Placed
<1>8. CASE Release(c)
  <2>1. out_l' = out_l /\ pc[c] = "hold" /\ pc'[c] = "idle"
    BY <1>2, <1>8 DEF Release, Goto, ioVars
  <2>2. Written(c) = 0 /\ Written(c)' = 0
    BY <2>1 DEF Written
  <2> QED
    BY <1>3, <1>4, <2>1, <2>2, Zenon DEF Placed
<1>9. CASE Undo(c)
  BY <1>3, <1>9 DEF Undo, Placed
<1> QED
  BY <1>5, <1>6, <1>7, <1>8, <1>9, Zenon

\* Nor do the poll thread and those who close the client disturb the requests.
LEMMA ElseFrames ==
  ASSUME Io, Framing, UNCHANGED << out, wire, pc, cur, out_l >>, status' = "CONNECTED" => status = "CONNECTED"
  PROVE  Framing'
<1>1. Buffers
  BY Zenon DEF Io, IoTypes, Buffers
<1>2. \A c \in Callers : Written(c)' = Written(c)
  BY DEF Written
<1>3. status = "CONNECTED" =>
         /\ out_l = none => Total % 4 = 0
         /\ \A c \in Callers : pc[c] # "undo" /\ (pc[c] \notin {"idle", "hold"} => Total % 4 = Written(c) % 4)
  BY DEF Framing, Placed
<1> QED
  BY <1>1, <1>2, <1>3, FramingStays

-----------------------------------------------------------------------------
(* What becomes of a request *)

\* Before the first connect() there is nothing.
Unborn ==
    /\ conn.n = 0 <=> status = "NEW"
    /\ status = "NEW" =>
          /\ out = << >> /\ wire = << >> /\ in = << >> /\ net = << >> /\ answered = {} /\ xid = 0
          /\ ~conn.open /\ conn.add = "no"
          /\ \A c \in Callers : pc[c] \in {"idle", "end"} /\ cur[c] = 0
          /\ \A p \in Closing : hp[p] = "idle"

\* close() took future x, or handle_read did; the server has the request; it never will.
Withdrawn(x) == fu[x].done = "ENOTCONN" \/ \E p \in Closing : hp[p] = "notify" /\ x \in job[p]
Claimed(x) == fu[x].done = "reply" \/ (hp[poll] = "parse" /\ x \in job[poll])
Received(x) == \E i \in 1 .. Len(wire) : wire[i] = [k |-> "arg", v |-> x]
Dropped(x) == status = "CLOSED" /\ ~Received(x) /\ \A c \in Callers : cur[c] = x => pc[c] \in Early

\* Its caller will look at status_ again.
EarlyOwner(x) == \E c \in Callers : cur[c] = x /\ pc[c] \in Early

\* A future that was completed has a result.
Hits == \A x \in Xids : fu[x].done = "no" <=> fu[x].hits = 0

\* A client that is closed stays so.
Shut ==
    /\ \A p \in Closing : hp[p] = "mark" => ~conn.open
    /\ \A p \in Closing : hp[p] \in {"swap", "notify"} => status = "CLOSED"
    /\ status = "CLOSED" => ~conn.open
    /\ \A c \in Callers : pc[c] = "undo" => status = "CLOSED"

\* Once close() took futures, only callers that will see it have put others there.
Taken == \A x \in Xids : Withdrawn(x) => status = "CLOSED" /\ \A y \in pending : EarlyOwner(y)

\* The server has requests of callers that ended them, and answers those.
Sent ==
    /\ \A x \in Xids : Received(x) => x <= xid /\ \A c \in Callers : cur[c] = x => pc[c] = "hold"
    /\ \A x \in answered : Received(x)

\* A request is pending, taken by close(), answered, or will never be answered.
Fate ==
    \A x \in 1 .. xid :
        /\ Claimed(x) => x \in answered \/ Dropped(x)
        /\ x \in pending \/ Withdrawn(x) \/ x \in answered \/ Dropped(x)

\* A future is given up once it is decided, or the client is closed.
Owned == \A x \in 1 .. xid : (\E c \in Callers : cur[c] = x) \/ fu[x].done # "no" \/ status = "CLOSED"

Ends == Hits /\ Shut /\ Taken /\ Sent /\ Fate /\ Owned

\* The replies on their way to the client.
Awaited(x) == x \in answered /\ (x \in pending \/ Withdrawn(x))
RTotal == Len(in) + Len(net)
Reply(i) == IF i <= Len(in) THEN in[i] ELSE net[i - Len(in)]

\* A reply is to a request that is pending, or that close() took; only after close() does
\* a payload stay in in_ without its header.
Replies ==
    /\ \A i \in 1 .. RTotal :
          /\ Reply(i).k \in {"hdr", "ret"}
          /\ Reply(i).k = "hdr" =>
                i < RTotal /\ Reply(i + 1).k = "ret" /\ Awaited(Reply(i).v)
          /\ Reply(i).k = "ret" => IF i = 1 THEN \E x \in Xids : Withdrawn(x) ELSE Reply(i - 1).k = "hdr"
    /\ \A i, j \in 1 .. RTotal : Reply(i).k = "hdr" /\ Reply(j).k = "hdr" /\ Reply(i).v = Reply(j).v => i = j

First == conn.n <= 1 => Unborn /\ Framing /\ Ends /\ Replies

-----------------------------------------------------------------------------
(* close and handle_read complete futures *)

\* A step that touches neither a future nor a caller.
LEMMA StillEnds ==
  ASSUME IInv, Ends, Shut', UNCHANGED << fu, pending, job, xid, pc, cur, wire >>, answered \subseteq answered',
         status = "CLOSED" => status' = "CLOSED",
         \A x \in answered' : x \in answered \/ Received(x),
         \A p \in Closing : job[p] # {} => hp'[p] = hp[p]
  PROVE  Ends' /\ \A x : (Withdrawn(x)' <=> Withdrawn(x)) /\ (Received(x)' <=> Received(x))
<1>1. poll \in Closing
  BY DEF Closing
<1>2. \A x : (Withdrawn(x)' <=> Withdrawn(x)) /\ (Received(x)' <=> Received(x))
  BY DEF Withdrawn, Received
<1>3. \A x : Claimed(x)' <=> Claimed(x)
  BY <1>1 DEF Claimed
<1>4. \A x : (Dropped(x) => Dropped(x)') /\ (EarlyOwner(x)' <=> EarlyOwner(x))
  BY <1>2 DEF Dropped, EarlyOwner
<1>5. Hits' /\ Owned'
  BY DEF Ends, Hits, Owned
<1>6. Taken' /\ Sent'
  BY <1>2, <1>4 DEF Ends, Taken, Sent
<1>7. Fate'
  BY <1>2, <1>3, <1>4, Zenon DEF Ends, Fate
<1> QED
  BY <1>2, <1>5, <1>6, <1>7 DEF Ends

\* The first half of close(): the socket is closed before status_ is set.
LEMMA CloseStartEnds ==
  ASSUME NEW p \in Closing, IInv, Io, Unborn, Ends, CloseSocket(p) \/ CloseMark(p)
  PROVE  Ends' /\ (\A x : (Withdrawn(x)' <=> Withdrawn(x)) /\ (Received(x)' <=> Received(x)))
               /\ UNCHANGED << in, net, pending, xid, answered >>
<1>1. /\ hp \in [Closing -> {"idle", "mark", "swap", "notify", "parse"}] /\ Shut
      /\ hp[p] \in {"idle", "mark"} /\ job[p] = {}
  BY DEF IInv, Types, Jobs, Ends, CloseSocket, CloseMark
<1>2. UNCHANGED << fu, pending, job, xid, pc, cur, wire, answered, in, net >>
  BY Zenon DEF CloseSocket, CloseMark, ioVars
<1>3. CASE CloseSocket(p)
  <2>1. hp' = [hp EXCEPT ![p] = "mark"] /\ status' = status /\ (~conn.open => ~conn'.open) /\ ~conn'.open
    <3>1. hp' = [hp EXCEPT ![p] = "mark"] /\ status' = status /\ conn.add = "done"
      BY <1>3 DEF CloseSocket, Enter
    <3>2. conn \in [n : 0 .. MaxConnects, add : {"no", "mode", "read", "write", "done"}, open : BOOLEAN, closes : Nat]
      BY Zenon DEF Io, IoTypes
    <3>3. CASE status = "CONNECTED"
      <4>1. conn' = [conn EXCEPT !.open = FALSE, !.closes = @ + 1]
        BY <1>3, <3>3, Zenon DEF CloseSocket
      <4> QED
        BY <3>1, <3>2, <4>1
    <3>4. CASE status # "CONNECTED"
      <4>1. conn' = conn
        BY <1>3, <3>4, Zenon DEF CloseSocket
      <4>2. status = "CLOSED"
        BY <3>1, <3>4 DEF Io, IoTypes, Unborn
      <4> QED
        BY <1>1, <3>1, <3>4, <4>1, <4>2 DEF Shut
    <3> QED
      BY <3>3, <3>4
  <2>2. Shut'
    BY <1>1, <1>2, <2>1 DEF Shut
  <2> QED
    BY <1>1, <1>2, <2>1, <2>2, StillEnds, Zenon
<1>4. CASE CloseMark(p)
  <2>1. hp' = [hp EXCEPT ![p] = "swap"] /\ status' = "CLOSED" /\ conn' = conn /\ hp[p] = "mark"
    BY <1>4 DEF CloseMark, Enter
  <2>2. Shut'
    BY <1>1, <1>2, <2>1 DEF Shut
  <2> QED
    BY <1>1, <1>2, <2>1, <2>2, StillEnds, Zenon
<1> QED
  BY <1>3, <1>4

\* close() takes what is pending: from then on only callers that will see it put futures there.
LEMMA CloseSwapEnds ==
  ASSUME NEW p \in Closing, IInv, Ends, CloseSwap(p)
  PROVE  Ends' /\ \A x \in Xids : Withdrawn(x) \/ x \in pending => Withdrawn(x)'
<1>1. /\ hp \in [Closing -> {"idle", "mark", "swap", "notify", "parse"}] /\ job \in [Closing -> SUBSET (1 .. xid)]
      /\ Shut /\ hp[p] = "swap" /\ job[p] = {} /\ poll \in Closing
  BY DEF IInv, Types, Jobs, Ends, CloseSwap, Closing
<1>2. /\ hp' = [hp EXCEPT ![p] = "notify"] /\ job' = [job EXCEPT ![p] = pending] /\ pending' = {}
      /\ UNCHANGED << fu, xid, pc, cur, wire, answered, status, conn >>
  BY DEF CloseSwap, Enter, ioVars
<1>3. \A x : Withdrawn(x) \/ x \in pending => Withdrawn(x)'
  BY <1>1, <1>2 DEF Withdrawn
<1>4. \A x : (Claimed(x)' <=> Claimed(x)) /\ (Received(x)' <=> Received(x))
  BY <1>1, <1>2 DEF Claimed, Received
<1>5. \A x : Dropped(x)' <=> Dropped(x)
  BY <1>2, <1>4 DEF Dropped
<1>6. Hits' /\ Owned' /\ Sent'
  BY <1>2, <1>4 DEF Ends, Hits, Owned, Sent
<1>7. Shut' /\ Taken'
  BY <1>1, <1>2 DEF Shut, Taken
<1>8. Fate'
  BY <1>2, <1>3, <1>4, <1>5 DEF Ends, Fate
<1> QED
  BY <1>3, <1>6, <1>7, <1>8 DEF Ends

\* A future is completed by the thread that took it.
LEMMA CompleteEnds ==
  ASSUME NEW p \in Closing, NEW x \in job[p], NEW how \in {"reply", "ENOTCONN"}, IInv, Ends,
         Complete(x, how), job' = [job EXCEPT ![p] = @ \ {x}],
         hp[p] = (IF how = "reply" THEN "parse" ELSE "notify"), how = "reply" => p = poll,
         UNCHANGED << status, conn, hp, xid, pending, pc, cur, wire, answered >>
  PROVE  Ends' /\ \A y \in Xids : Withdrawn(y) => Withdrawn(y)'
<1>1. /\ x \in Xids /\ x \in 1 .. xid /\ fu \in [Xids -> [refs : Int, done : {"no", "reply", "ENOTCONN"}, hits : Nat]]
      /\ job \in [Closing -> SUBSET (1 .. xid)] /\ poll \in Closing
  BY ClientAssumption DEF IInv, Types, Xids, Closing
<1>2. fu' = [fu EXCEPT ![x] = [refs |-> fu[x].refs - 1, done |-> how, hits |-> fu[x].hits + 1]]
  BY DEF Complete
<1>3. fu[x].done = "no" /\ fu[x].hits = 0
  BY <1>1 DEF IInv, Once, IsOwed, Ends, Hits
<1>4. fu'[x].done = how /\ fu'[x].hits = 1 /\ \A y \in Xids : y # x => fu'[y] = fu[y]
  BY <1>1, <1>2, <1>3
<1>5. \A q \in Closing : q # p => job'[q] = job[q] /\ x \notin job[q]
  BY <1>1 DEF IInv, Jobs
<1>6. \A y \in Xids : (Withdrawn(y)' <=> Withdrawn(y)) /\ (Claimed(y)' <=> Claimed(y))
  <2>1. \A y \in Xids : y # x => (Withdrawn(y)' <=> Withdrawn(y))
    BY <1>1, <1>4, <1>5, Zenon DEF Withdrawn
  <2>2. \A y \in Xids : y # x => (Claimed(y)' <=> Claimed(y))
    BY <1>1, <1>4, <1>5, Zenon DEF Claimed
  <2>3. CASE how = "reply"
    <3>1. ~Withdrawn(x) /\ ~Withdrawn(x)'
      BY <1>3, <1>4, <1>5, <2>3 DEF Withdrawn
    <3>2. Claimed(x) /\ Claimed(x)'
      BY <1>4, <2>3 DEF Claimed
    <3> QED
      BY <2>1, <2>2, <3>1, <3>2
  <2>4. CASE how = "ENOTCONN"
    <3>1. Withdrawn(x) /\ Withdrawn(x)'
      BY <1>4, <2>4 DEF Withdrawn
    <3>2. ~Claimed(x) /\ ~Claimed(x)'
      BY <1>1, <1>3, <1>4, <1>5, <2>4, Zenon DEF Claimed
    <3> QED
      BY <2>1, <2>2, <3>1, <3>2
  <2> QED
    BY <2>3, <2>4
<1>7. \A y : (Received(y)' <=> Received(y)) /\ (EarlyOwner(y)' <=> EarlyOwner(y)) /\ (Dropped(y)' <=> Dropped(y))
  BY DEF Received, EarlyOwner, Dropped
<1>8. \A y \in 1 .. xid : y \in Xids
  BY ClientAssumption DEF IInv, Types, Xids
<1>9. Hits'
  BY <1>4 DEF Ends, Hits
<1>10. Shut' /\ Sent' /\ Taken'
  BY <1>6, <1>7, Zenon DEF Ends, Shut, Sent, Taken
<1>11. Fate'
  BY <1>6, <1>7, <1>8, Zenon DEF Ends, Fate
<1>12. Owned'
  BY <1>4, <1>8 DEF Ends, Owned
<1> QED
  BY <1>6, <1>9, <1>10, <1>11, <1>12 DEF Ends

\* The steps that complete a future, or end the round of those who do.
LEMMA NotifiesEnd ==
  ASSUME NEW p \in Closing, IInv, Ends, CloseNotify(p) \/ ParseNotify \/ HandleRead \/ ParseEnd
  PROVE  Ends' /\ \A x \in Xids : Withdrawn(x) => Withdrawn(x)'
<1>1. hp \in [Closing -> {"idle", "mark", "swap", "notify", "parse"}] /\ Shut /\ poll \in Closing
  BY DEF IInv, Types, Ends, Closing
<1>2. CASE CloseNotify(p) /\ \E x \in job[p] : Complete(x, "ENOTCONN") /\ job' = [job EXCEPT ![p] = @ \ {x}] /\ hp' = hp
  BY <1>2, CompleteEnds, Zenon DEF CloseNotify, ioVars
<1>3. CASE ParseNotify
  <2>1. PICK x \in job[poll] : Complete(x, "reply")
    BY <1>3 DEF ParseNotify
  <2>2. job[poll] \ {x} = {} /\ hp[poll] = "parse"
    BY <1>3 DEF ParseNotify, IInv, Jobs, Closing
  <2>3. job' = [job EXCEPT ![poll] = @ \ {x}]
    BY <1>3, <2>2, Zenon DEF ParseNotify
  <2>4. UNCHANGED << status, conn, hp, xid, pending, pc, cur, wire, answered >>
    BY <1>3 DEF ParseNotify, ioVars
  <2> QED
    BY <1>1, <2>1, <2>2, <2>3, <2>4, CompleteEnds, Zenon
<1>4. ASSUME NEW q \in Closing, NEW l \in {"idle", "parse"}, hp' = [hp EXCEPT ![q] = l], job[q] = {},
             UNCHANGED << fu, pending, job, xid, pc, cur, wire, answered, status, conn >>
      PROVE  Ends' /\ \A x \in Xids : Withdrawn(x) => Withdrawn(x)'
  <2>1. Shut'
    BY <1>1, <1>4 DEF Shut
  <2> QED
    BY <1>1, <1>4, <2>1, StillEnds, Zenon
<1>5. CASE CloseNotify(p) /\ job[p] = {} /\ Enter(p, "idle") /\ UNCHANGED << fu, job >>
  BY <1>4, <1>5, Zenon DEF CloseNotify, Enter, ioVars
<1>6. CASE HandleRead \/ ParseEnd
  <2>1. job[poll] = {} /\ hp' = [hp EXCEPT ![poll] = IF HandleRead THEN "parse" ELSE "idle"]
    BY <1>1, <1>6, Zenon DEF HandleRead, ParseEnd, Enter, IInv, Jobs
  <2>2. UNCHANGED << fu, pending, job, xid, pc, cur, wire, answered, status, conn >>
    BY <1>6, Zenon DEF HandleRead, ParseEnd, clientVars, ioVars
  <2> QED
    BY <1>1, <1>4, <2>1, <2>2, Zenon
<1> QED
  BY <1>2, <1>3, <1>5, <1>6, Zenon DEF CloseNotify

\* A future is claimed by handle_read: that of a reply, or, when a payload without its
\* header is taken for one, that of a caller which will drop it.
LEMMA ParseEnds ==
  ASSUME IInv, Ends, NEW x \in pending, pending' = pending \ {x}, job' = [job EXCEPT ![poll] = {x}],
         job[poll] = {}, hp[poll] = "parse",
         UNCHANGED << status, conn, fu, hp, xid, pc, cur, wire, answered >>,
         x \in answered \/ Dropped(x)
  PROVE  Ends' /\ \A y \in Xids : Withdrawn(y) => Withdrawn(y)'
<1>1. x \in 1 .. xid /\ poll \in Closing /\ job \in [Closing -> SUBSET (1 .. xid)]
  BY DEF IInv, Types, Closing
<1>2. \A y : (Withdrawn(y)' <=> Withdrawn(y)) /\ (Claimed(y)' <=> Claimed(y) \/ y = x)
  BY <1>1 DEF Withdrawn, Claimed
<1>3. \A y : (Received(y)' <=> Received(y)) /\ (EarlyOwner(y)' <=> EarlyOwner(y)) /\ (Dropped(y)' <=> Dropped(y))
  BY DEF Received, EarlyOwner, Dropped
<1>4. Hits' /\ Shut' /\ Owned' /\ Sent' /\ Taken'
  BY <1>2, <1>3, Zenon DEF Ends, Hits, Shut, Owned, Sent, Taken
<1>5. Fate'
  BY <1>2, <1>3 DEF Ends, Fate
<1> QED
  BY <1>2, <1>4, <1>5 DEF Ends

\* Of a future whose caller is early the server has seen nothing, and it will not.
LEMMA EarlyDropped ==
  ASSUME IInv, Ends, NEW x \in 1 .. xid, EarlyOwner(x), status = "CLOSED"
  PROVE  Dropped(x)
<1>1. x \in Xids /\ x # 0
  BY ClientAssumption DEF IInv, Types, Xids
<1>2. PICK c \in Callers : cur[c] = x /\ pc[c] \in Early
  BY DEF EarlyOwner
<1>3. \A d \in Callers : cur[d] = x => d = c
  BY <1>1, <1>2 DEF IInv, Own
<1>4. ~Received(x)
  BY <1>1, <1>2 DEF Ends, Sent, Early
<1> QED
  BY <1>2, <1>3, <1>4 DEF Dropped

\* handle_write lets the server receive requests, of callers that have ended them.
LEMMA WriteEnds ==
  ASSUME IInv, Io, Ends, HandleWrite
  PROVE  Ends' /\ \A x : Withdrawn(x) <=> Withdrawn(x)'
<1>1. /\ Buffers /\ Old /\ out_l = none /\ status = "CONNECTED" /\ pc \in [Callers -> Places]
      /\ UNCHANGED << status, conn, fu, pending, job, hp, xid, pc, cur, answered >>
  BY Zenon DEF HandleWrite, clientVars, Io, IoTypes, Buffers, IInv, Types
<1>2. PICK n \in 0 .. Len(out) : wire' = wire \o SubSeq(out, 1, n) /\ out' = SubSeq(out, n + 1, Len(out))
  BY Zenon DEF HandleWrite
<1>3. out \in Seq(Unit) /\ wire \in Seq(Unit) /\ n \in Nat /\ n <= Len(out)
  BY <1>1, <1>2 DEF Buffers
<1>4. /\ Len(wire') = Len(wire) + n
      /\ \A i \in 1 .. Len(wire) : wire'[i] = wire[i]
      /\ Old'
  BY <1>2, <1>3, Cut, WriteKept
<1>5. \A x : Received(x) => Received(x)'
  <2> SUFFICES ASSUME NEW x, Received(x) PROVE Received(x)'
    OBVIOUS
  <2>1. PICK i \in 1 .. Len(wire) : wire[i] = [k |-> "arg", v |-> x]
    BY DEF Received
  <2>2. i \in 1 .. Len(wire')
    BY <1>3, <1>4
  <2> QED
    BY <1>4, <2>1, <2>2 DEF Received
<1>6. \A x \in Xids : Received(x)' => x <= xid
  BY <1>1, <1>4 DEF Received, Old
<1>7. \A c \in Callers : pc[c] = "hold" \/ cur[c] = 0
  BY <1>1, Alone, Zenon DEF IInv, Own
<1>8. \A x : (Withdrawn(x)' <=> Withdrawn(x)) /\ (Claimed(x)' <=> Claimed(x)) /\ (EarlyOwner(x)' <=> EarlyOwner(x)) /\ ~Dropped(x)
  BY <1>1 DEF Withdrawn, Claimed, EarlyOwner, Dropped
<1>9. Hits' /\ Shut' /\ Owned' /\ Taken'
  BY <1>1, <1>8, Zenon DEF Ends, Hits, Shut, Owned, Taken
<1>10. Sent'
  <2>1. \A x \in Xids : x # 0
    BY DEF Xids
  <2> QED
    BY <1>1, <1>5, <1>6, <1>7, <2>1 DEF Ends, Sent
<1>11. Fate'
  BY <1>1, <1>8 DEF Ends, Fate
<1> QED
  BY <1>8, <1>9, <1>10, <1>11 DEF Ends
=============================================================================
