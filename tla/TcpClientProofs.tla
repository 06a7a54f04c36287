--------------------------- MODULE TcpClientProofs ---------------------------
(***************************************************************************)
(* The properties of TcpClient that need to know what was sent and what    *)
(* came back:                                                              *)
(*   - RequestsWhole as long as the client was connected at most once;     *)
(*   - IsCalls, the refinement of Calls, for a client that is connected at *)
(*     most once;                                                          *)
(*   - TypeOK and RefsMatchHolders, for any number of calls of connect.    *)
(*                                                                         *)
(* First says of the first connection that requests are whole up to the    *)
(* one being marshalled (Framing), what becomes of each (Ends) and which   *)
(* replies are on their way (Replies): close() may leave a payload without *)
(* its header, but only after it took every future a caller waits for.     *)
(***************************************************************************)
EXTENDS TcpClientInv

\* A step that names no prover is left to SMT, if need be twice, and then to Zenon.
USE SMTT(10), SMTT(30), Zenon, SMTT(40), SMTT(60)

-----------------------------------------------------------------------------
(* begin_request ... end_request *)

\* A caller that goes on takes no future with it.
LEMMA WalkEnds ==
  ASSUME NEW c \in Callers, NEW l, IInv, Ends, pc' = [pc EXCEPT ![c] = l], pc[c] # "hold",
         UNCHANGED << status, conn, xid, pending, job, hp, cur, wire, answered >>,
         \A x \in Xids : fu'[x].done = fu[x].done /\ fu'[x].hits = fu[x].hits,
         pc[c] \in Early => l \in Early \/ status = "CONNECTED",
         l = "undo" => status = "CLOSED"
  PROVE  Ends' /\ \A x \in Xids : Withdrawn(x) <=> Withdrawn(x)'
<1>1. pc \in [Callers -> Places] /\ poll \in Closing /\ \A x \in 1 .. xid : x \in Xids
  BY ClientAssumption DEF IInv, Types, Closing, Xids
<1>2. pc'[c] = l /\ \A d \in Callers : d # c => pc'[d] = pc[d]
  BY <1>1
<1>3. \A x \in Xids : (Withdrawn(x)' <=> Withdrawn(x)) /\ (Claimed(x)' <=> Claimed(x)) /\ (Received(x)' <=> Received(x))
  BY DEF Withdrawn, Claimed, Received
<1>4. status = "CLOSED" => \A x : EarlyOwner(x) => EarlyOwner(x)'
  BY <1>2 DEF EarlyOwner
<1>5. \A x \in Xids : Dropped(x) => Dropped(x)'
  BY <1>2, <1>3 DEF Dropped
<1>6. Hits' /\ Owned'
  BY <1>1 DEF Ends, Hits, Owned
<1>7. Shut'
  BY <1>2 DEF Ends, Shut
<1>8. Taken'
  BY <1>3, <1>4 DEF Ends, Taken
<1>9. Sent'
  <2>1. \A x : Received(x)' <=> Received(x)
    BY DEF Received
  <2> QED
    BY <1>2, <2>1 DEF Ends, Sent
<1>10. Fate'
  BY <1>1, <1>3, <1>5, Zenon DEF Ends, Fate
<1> QED
  BY <1>3, <1>6, <1>7, <1>8, <1>9, <1>10 DEF Ends

\* A new future is pending, and its caller will look at status_ again.
LEMMA InsertEnds ==
  ASSUME NEW c \in Callers, IInv, Io, Ends, Insert(c)
  PROVE  Ends' /\ \A x \in Xids : Withdrawn(x) <=> Withdrawn(x)'
<1>1. PICK n : n = xid + 1
  OBVIOUS
<1>2. /\ pc[c] = "new" /\ xid' = n /\ pending' = pending \cup {n}
      /\ fu' = [fu EXCEPT ![n].refs = 1] /\ cur' = [cur EXCEPT ![c] = n] /\ pc' = [pc EXCEPT ![c] = "recheck"]
      /\ UNCHANGED << status, conn, hp, job, wire, answered >>
  BY <1>1, Zenon DEF Insert, Goto, ioVars
<1>3. /\ n \in Xids /\ xid \in Nat /\ n = xid + 1 /\ cur[c] = 0 /\ pc \in [Callers -> Places] /\ cur \in [Callers -> 0 .. xid]
      /\ job \in [Closing -> SUBSET (1 .. xid)] /\ poll \in Closing /\ \A x \in 1 .. xid : x \in Xids
      /\ fu \in [Xids -> [refs : Int, done : {"no", "reply", "ENOTCONN"}, hits : Nat]]
  <2>1. xid \in 0 .. MaxXid /\ xid < MaxXid /\ cur[c] = 0
    BY <1>2 DEF IInv, Types, Lock, Own
  <2> QED
    BY <1>1, <2>1, ClientAssumption DEF IInv, Types, Xids, Closing
<1>4. \A x \in Xids : fu'[x].done = fu[x].done /\ fu'[x].hits = fu[x].hits
  BY <1>2, <1>3
<1>5. fu[n].done = "no"
  BY <1>3 DEF IInv, Once, Ends, Hits
<1>6. \A x : (x \in Xids /\ Withdrawn(x)' => Withdrawn(x)) /\ (x \in Xids /\ Withdrawn(x) => Withdrawn(x)')
  BY <1>2, <1>4 DEF Withdrawn
<1>7. \A x \in Xids : (Claimed(x)' <=> Claimed(x)) /\ (Received(x)' <=> Received(x))
  BY <1>2, <1>4 DEF Claimed, Received
<1>8. ~Claimed(n) /\ ~Received(n)
  BY <1>3, <1>5 DEF Claimed, Ends, Sent
<1>9. /\ cur'[c] = n /\ pc'[c] = "recheck" /\ pc[c] = "new"
      /\ \A d \in Callers : d # c => cur'[d] = cur[d] /\ pc'[d] = pc[d] /\ cur[d] # n
  BY <1>2, <1>3
<1>10. \A x \in 1 .. xid : (EarlyOwner(x) => EarlyOwner(x)') /\ (Dropped(x) => Dropped(x)')
  BY <1>2, <1>3, <1>7, <1>9 DEF EarlyOwner, Dropped
<1>11. EarlyOwner(n)'
  BY <1>9 DEF EarlyOwner, Early
<1>12. Hits' /\ Shut'
  BY <1>2, <1>4, <1>9 DEF Ends, Hits, Shut
<1>13. Owned'
  <2>1. ASSUME NEW x \in 1 .. n
        PROVE  (\E d \in Callers : cur'[d] = x) \/ fu'[x].done # "no" \/ status' = "CLOSED"
    <3>1. CASE x = n
      BY <1>9, <3>1
    <3>2. CASE x # n
      <4>1. x \in 1 .. xid /\ x \in Xids
        BY <1>3, <3>2
      <4>2. CASE \E d \in Callers : cur[d] = x
        <5>1. PICK d \in Callers : cur[d] = x
          BY <4>2
        <5>2. d # c
          BY <1>3, <4>1, <5>1
        <5> QED
          BY <1>9, <5>1, <5>2
      <4>3. CASE fu[x].done # "no" \/ status = "CLOSED"
        BY <1>2, <1>4, <4>1, <4>3
      <4> QED
        BY <4>1, <4>2, <4>3 DEF Ends, Owned
    <3> QED
      BY <3>1, <3>2
  <2> QED
    BY <1>2, <2>1 DEF Owned
<1>14. Taken'
  <2>1. pending \subseteq 1 .. xid
    BY DEF IInv, Types
  <2> QED
    BY <1>2, <1>6, <1>10, <1>11, <2>1 DEF Ends, Taken
<1>15. Sent'
  <2>1. \A x : Received(x)' <=> Received(x)
    BY <1>2 DEF Received
  <2>2. ASSUME NEW x \in Xids, Received(x)
        PROVE  x <= n /\ \A d \in Callers : cur'[d] = x => pc'[d] = "hold"
    <3>1. x <= xid /\ \A d \in Callers : cur[d] = x => pc[d] = "hold"
      BY <2>2 DEF Ends, Sent
    <3>2. x \in Nat
      BY DEF Xids
    <3> QED
      BY <1>3, <1>9, <3>1, <3>2
  <2> QED
    BY <1>2, <2>1, <2>2 DEF Ends, Sent
<1>16. Fate'
  <2>1. ASSUME NEW x \in 1 .. n
        PROVE  /\ Claimed(x)' => x \in answered' \/ Dropped(x)'
               /\ x \in pending' \/ Withdrawn(x)' \/ x \in answered' \/ Dropped(x)'
    <3>1. CASE x = n
      BY <1>2, <1>3, <1>7, <1>8, <3>1
    <3>2. CASE x # n
      <4>1. x \in 1 .. xid /\ x \in Xids
        BY <1>3, <3>2
      <4> QED
        BY <1>2, <1>6, <1>7, <1>10, <4>1 DEF Ends, Fate
    <3> QED
      BY <3>1, <3>2
  <2> QED
    BY <1>2, <2>1 DEF Fate
<1> QED
  BY <1>6, <1>12, <1>13, <1>14, <1>15, <1>16 DEF Ends

\* A caller leaves its future, because it saw that the client is closed or because it is done.
LEMMA LeaveEnds ==
  ASSUME NEW c \in Callers, NEW l \in {"end", "idle"}, IInv, Ends,
         pc' = [pc EXCEPT ![c] = l], cur' = [cur EXCEPT ![c] = 0], cur[c] # 0,
         UNCHANGED << status, conn, xid, job, hp, wire, answered >>,
         \A x \in Xids : fu'[x].done = fu[x].done /\ fu'[x].hits = fu[x].hits,
         \/ pc[c] = "undo" /\ pending' = pending \ {cur[c]}
         \/ pc[c] = "hold" /\ pending' = pending /\ fu[cur[c]].done # "no"
  PROVE  Ends' /\ \A x \in Xids : Withdrawn(x) <=> Withdrawn(x)'
<1>1. PICK n : n = cur[c]
  OBVIOUS
<1>2. /\ pc \in [Callers -> Places] /\ cur \in [Callers -> 0 .. xid] /\ poll \in Closing /\ n \in 1 .. xid
      /\ pending \subseteq 1 .. xid /\ \A x \in 1 .. xid : x \in Xids /\ x # 0
  <2>1. cur[c] \in 1 .. xid
    BY OwnXid
  <2> QED
    BY <1>1, <2>1, ClientAssumption DEF IInv, Types, Closing, Xids
<1>3. cur'[c] = 0 /\ pc'[c] = l /\ \A d \in Callers : d # c => pc'[d] = pc[d] /\ cur'[d] = cur[d] /\ cur[d] # n
  BY <1>1, <1>2, Zenon DEF IInv, Own
<1>4. \A x \in Xids : (Withdrawn(x)' <=> Withdrawn(x)) /\ (Claimed(x)' <=> Claimed(x))
  BY DEF Withdrawn, Claimed
<1>5. \A x : Received(x)' <=> Received(x)
  BY DEF Received
<1>6. \A x \in 1 .. xid : x # n => (EarlyOwner(x) => EarlyOwner(x)') /\ (Dropped(x) => Dropped(x)')
  BY <1>1, <1>2, <1>3, <1>5 DEF EarlyOwner, Dropped
<1>7. Hits' /\ Shut'
  BY <1>3 DEF Ends, Hits, Shut
<1>8. Owned'
  BY <1>1, <1>2, <1>3 DEF Ends, Owned, Shut
<1>9. Taken'
  <2>1. ASSUME NEW y \in pending', \A z \in pending : EarlyOwner(z)
        PROVE  EarlyOwner(y)'
    <3>1. y \in pending /\ y \in 1 .. xid
      BY <1>2, Zenon
    <3>2. y # n
      <4>1. pc[c] = "hold" => ~EarlyOwner(n)
        BY <1>1, <1>3 DEF EarlyOwner, Early
      <4> QED
        BY <1>1, <2>1, <3>1, <4>1
    <3> QED
      BY <1>6, <2>1, <3>1, <3>2, Zenon
  <2> QED
    BY <1>4, <2>1, Zenon DEF Ends, Taken
<1>10. Sent'
  BY <1>3, <1>5 DEF Ends, Sent, Xids
<1>11. Fate'
  <2>1. ASSUME NEW x \in 1 .. xid
        PROVE  /\ Claimed(x)' => x \in answered \/ Dropped(x)'
               /\ x \in pending' \/ Withdrawn(x)' \/ x \in answered \/ Dropped(x)'
    <3>1. CASE x # n
      <4>1. x \in pending => x \in pending'
        BY <1>1, <3>1
      <4> QED
        BY <1>2, <1>4, <1>6, <3>1, <4>1 DEF Ends, Fate
    <3>2. CASE x = n /\ pc[c] = "undo"
      <4>1. Dropped(x)
        <5>1. EarlyOwner(x)
          BY <1>1, <3>2 DEF EarlyOwner, Early
        <5> QED
          BY <3>2, <5>1, EarlyDropped, Zenon DEF Ends, Shut
      <4>2. Dropped(x)'
        BY <1>2, <1>3, <1>5, <3>2, <4>1 DEF Dropped
      <4> QED
        BY <4>2
    <3>3. CASE x = n /\ pc[c] = "hold"
      <4>1. ~Dropped(x)
        BY <1>1, <3>3 DEF Dropped, Early
      <4>2. pending' = pending
        BY <3>3
      <4> QED
        BY <1>2, <1>4, <4>1, <4>2 DEF Ends, Fate
    <3> QED
      BY <3>1, <3>2, <3>3, Zenon
  <2> QED
    BY <2>1 DEF Fate
<1> QED
  BY <1>4, <1>7, <1>8, <1>9, <1>10, <1>11 DEF Ends

\* What a step does to a request is not undone: close() keeps what it took, and a reply
\* stays the reply to a request that is pending or taken.
Kept == \A x \in Xids : (Withdrawn(x) => Withdrawn(x)') /\ (Awaited(x) => Awaited(x)')

\* A caller between begin_request and the release of its future.
LEMMA CallerEnds ==
  ASSUME NEW c \in Callers, IInv, Io, Unborn, Ends, Begin(c) \/ Request(c) \/ Release(c)
  PROVE  Ends' /\ Kept /\ UNCHANGED << in, net >>
<1>1. /\ fu \in [Xids -> [refs : Int, done : {"no", "reply", "ENOTCONN"}, hits : Nat]]
      /\ pc \in [Callers -> Places] /\ status \in {"NEW", "CONNECTED", "CLOSED"}
  BY DEF IInv, Types, Io, IoTypes
<1>2. UNCHANGED << in, net, answered >>
  BY Zenon DEF Begin, Request, Release, Insert, Recheck, Undo, Mark, Put, RefCopy, End, ioVars
<1>3. CASE Begin(c) \/ Mark(c) \/ Put(c) \/ End(c)
  <2>1. PICK l : l # "undo" /\ pc' = [pc EXCEPT ![c] = l]
    BY <1>3, Zenon DEF Begin, Mark, Put, End, Goto
  <2>2. pc[c] \notin {"hold", "recheck", "undo"}
    BY <1>3, Zenon DEF Begin, Mark, Put, End
  <2>3. UNCHANGED << status, conn, xid, pending, job, hp, cur, wire, answered, fu >>
    BY <1>3, Zenon DEF Begin, Mark, Put, End, clientVars
  <2>4. Ends' /\ \A x \in Xids : Withdrawn(x) <=> Withdrawn(x)'
    BY <2>1, <2>2, <2>3, WalkEnds, Zenon DEF Early
  <2> QED
    BY <1>2, <2>3, <2>4 DEF Kept, Awaited
<1>4. CASE Recheck(c)
  <2>1. PICK l : l = IF status = "CONNECTED" THEN "mark" ELSE "undo"
    OBVIOUS
  <2>2. pc' = [pc EXCEPT ![c] = l] /\ pc[c] = "recheck"
    BY <1>4, <2>1 DEF Recheck, Goto
  <2>3. UNCHANGED << status, conn, xid, pending, job, hp, cur, wire, answered, fu >>
    BY <1>4, Zenon DEF Recheck, clientVars, ioVars
  <2>4. l = "undo" => status = "CLOSED"
    BY <1>1, <2>1, <2>2 DEF Unborn
  <2>5. Ends' /\ \A x \in Xids : Withdrawn(x) <=> Withdrawn(x)'
    BY <2>1, <2>2, <2>3, <2>4, WalkEnds, Zenon DEF Early
  <2> QED
    BY <1>2, <2>3, <2>5 DEF Kept, Awaited
<1>5. CASE RefCopy(c)
  <2>1. pc' = [pc EXCEPT ![c] = "arg"] /\ pc[c] = "ref"
    BY <1>5 DEF RefCopy, Goto
  <2>2. UNCHANGED << status, conn, xid, pending, job, hp, cur, wire, answered >>
    BY <1>5, Zenon DEF RefCopy, ioVars
  <2>3. \A x \in Xids : fu'[x].done = fu[x].done /\ fu'[x].hits = fu[x].hits
    BY <1>1, <1>5 DEF RefCopy
  <2>4. Ends' /\ \A x \in Xids : Withdrawn(x) <=> Withdrawn(x)'
    BY <2>1, <2>2, <2>3, WalkEnds, Zenon DEF Early
  <2> QED
    BY <1>2, <2>2, <2>4 DEF Kept, Awaited
<1>6. CASE Insert(c)
  <2>1. Ends' /\ \A x \in Xids : Withdrawn(x) <=> Withdrawn(x)'
    BY <1>6, InsertEnds
  <2>2. pending \subseteq pending'
    BY <1>6 DEF Insert
  <2> QED
    BY <1>2, <2>1, <2>2 DEF Kept, Awaited
<1>7. CASE Undo(c)
  <2>1. pc' = [pc EXCEPT ![c] = "end"] /\ cur' = [cur EXCEPT ![c] = 0] /\ pc[c] = "undo" /\ pending' = pending \ {cur[c]}
    BY <1>7 DEF Undo, Goto
  <2>2. UNCHANGED << status, conn, xid, job, hp, wire, answered >>
    BY <1>7, Zenon DEF Undo, ioVars
  <2>3. \A x \in Xids : fu'[x].done = fu[x].done /\ fu'[x].hits = fu[x].hits
    BY <1>1, <1>7, Zenon DEF Undo
  <2>4. cur[c] # 0
    BY <2>1, OwnXid
  <2>5. Ends' /\ \A x \in Xids : Withdrawn(x) <=> Withdrawn(x)'
    BY <2>1, <2>2, <2>3, <2>4, LeaveEnds, Zenon
  <2>6. cur[c] \notin answered
    <3>1. answered \subseteq Xids
      BY DEF Io, IoTypes
    <3> QED
      BY <2>1, <3>1 DEF Ends, Sent
  <2> QED
    BY <1>2, <2>1, <2>5, <2>6 DEF Kept, Awaited
<1>8. CASE Release(c)
  <2>1. /\ pc' = [pc EXCEPT ![c] = "idle"] /\ cur' = [cur EXCEPT ![c] = 0] /\ pc[c] = "hold" /\ pending' = pending
        /\ fu[cur[c]].done # "no"
    BY <1>8 DEF Release, Goto
  <2>2. UNCHANGED << status, conn, xid, job, hp, wire, answered >>
    BY <1>8, Zenon DEF Release, ioVars
  <2>3. \A x \in Xids : fu'[x].done = fu[x].done /\ fu'[x].hits = fu[x].hits
    BY <1>1, <1>8 DEF Release
  <2>4. cur[c] # 0
    BY <2>1, OwnXid
  <2>5. Ends' /\ \A x \in Xids : Withdrawn(x) <=> Withdrawn(x)'
    BY <2>1, <2>2, <2>3, <2>4, LeaveEnds, Zenon
  <2> QED
    BY <1>2, <2>1, <2>5 DEF Kept, Awaited
<1> QED
  BY <1>2, <1>3, <1>4, <1>5, <1>6, <1>7, <1>8 DEF Request

-----------------------------------------------------------------------------
(* The stream of replies *)

\* The first d units of the stream are consumed, and no reply that is left loses its request.
LEMMA RepliesShift ==
  ASSUME Io, Replies, NEW d \in {0, 1, 2}, NEW T, T = RTotal, T \in Nat, d <= T, RTotal' = T - d,
         \A i \in 1 .. T - d : Reply(i)' = Reply(i + d),
         \A x \in Xids : Withdrawn(x) => Withdrawn(x)',
         \A i \in d + 1 .. T : \A x : Reply(i) = [k |-> "hdr", v |-> x] => Awaited(x)',
         d = 1 => \E x \in Xids : Withdrawn(x),
         d = 2 => Reply(2).k # "hdr"
  PROVE  Replies'
<1>1. ASSUME NEW i \in 1 .. T - d
      PROVE  /\ Reply(i)'.k \in {"hdr", "ret"}
             /\ Reply(i)'.k = "hdr" => i < T - d /\ Reply(i + 1)'.k = "ret" /\ Awaited(Reply(i).v)'
             /\ Reply(i)'.k = "ret" => IF i = 1 THEN \E x \in Xids : Withdrawn(x)' ELSE Reply(i - 1)'.k = "hdr"
  <2>1. PICK j : j = i + d
    OBVIOUS
  <2>2. j \in 1 .. T /\ j \in d + 1 .. T /\ Reply(i)' = Reply(j) /\ i \in Nat
    BY <2>1
  <2>3. Reply(j).k = "hdr" => i < T - d /\ Reply(i + 1)'.k = "ret" /\ Awaited(Reply(i).v)'
    <3>1. SUFFICES ASSUME Reply(j).k = "hdr" PROVE i < T - d /\ Reply(i + 1)'.k = "ret" /\ Awaited(Reply(i).v)'
      OBVIOUS
    <3>2. j < T /\ Reply(j + 1).k = "ret"
      BY <2>2, <3>1, Zenon DEF Replies
    <3>3. i < T - d /\ i + 1 \in 1 .. T - d /\ (i + 1) + d = j + 1
      BY <2>1, <2>2, <3>2
    <3>4. Reply(i + 1)' = Reply(j + 1)
      BY <3>3, Zenon
    <3>5. PICK x : x = Reply(j).v
      OBVIOUS
    <3>6. Reply(j) \in Unit
      BY <2>2 DEF Reply, RTotal, Io, IoTypes
    <3>7. Reply(j) = [k |-> "hdr", v |-> x]
      BY <3>1, <3>5, <3>6 DEF Unit
    <3>8. Awaited(x)'
      BY <2>2, <3>7, Zenon
    <3>9. Awaited(Reply(i).v)'
      BY <2>2, <3>5, <3>8 DEF Awaited, Withdrawn
    <3> QED
      BY <3>2, <3>3, <3>4, <3>9, Zenon
  <2>4. Reply(j).k = "ret" => IF i = 1 THEN \E x \in Xids : Withdrawn(x)' ELSE Reply(i - 1)'.k = "hdr"
    <3>1. SUFFICES ASSUME Reply(j).k = "ret"
                   PROVE  IF i = 1 THEN \E x \in Xids : Withdrawn(x)' ELSE Reply(i - 1)'.k = "hdr"
      OBVIOUS
    <3>2. IF j = 1 THEN \E x \in Xids : Withdrawn(x) ELSE Reply(j - 1).k = "hdr"
      BY <2>2, <3>1, Zenon DEF Replies
    <3>3. CASE i = 1
      <4>1. d = 0 \/ d = 1 \/ (d = 2 /\ j - 1 = 2 /\ j # 1)
        BY <2>1, <3>3
      <4>2. d = 0 => j = 1
        BY <2>1, <3>3
      <4>3. \E x \in Xids : Withdrawn(x)
        BY <3>2, <4>1, <4>2
      <4> QED
        BY <3>3, <4>3
    <3>4. CASE i # 1
      <4>1. i - 1 \in 1 .. T - d /\ (i - 1) + d = j - 1 /\ j # 1
        BY <2>1, <2>2, <3>4
      <4>2. Reply(i - 1)' = Reply(j - 1)
        BY <4>1, Zenon
      <4> QED
        BY <3>2, <3>4, <4>1, <4>2, Zenon
    <3> QED
      BY <3>3, <3>4, Zenon
  <2>5. Reply(j).k \in {"hdr", "ret"}
    BY <2>2, Zenon DEF Replies
  <2> QED
    BY <2>2, <2>3, <2>4, <2>5, Zenon
<1>2. ASSUME NEW i \in 1 .. T - d, NEW j \in 1 .. T - d,
             Reply(i)'.k = "hdr", Reply(j)'.k = "hdr", Reply(i)'.v = Reply(j)'.v
      PROVE  i = j
  <2>1. PICK m, n : m = i + d /\ n = j + d
    OBVIOUS
  <2>2. m \in 1 .. T /\ n \in 1 .. T /\ Reply(i)' = Reply(m) /\ Reply(j)' = Reply(n)
    BY <2>1
  <2>3. \A a, b \in 1 .. T : Reply(a).k = "hdr" /\ Reply(b).k = "hdr" /\ Reply(a).v = Reply(b).v => a = b
    BY DEF Replies
  <2>4. m = n
    BY <1>2, <2>2, <2>3, Zenon
  <2> QED
    BY <2>1, <2>4
<1> QED
  BY <1>1, <1>2 DEF Replies

\* What is kept is kept for every reply of the stream.
LEMMA RepliesKeep ==
  ASSUME Io, Replies, Kept, NEW T, T = RTotal
  PROVE  \A i \in 0 + 1 .. T : \A x : Reply(i) = [k |-> "hdr", v |-> x] => Awaited(x)'
<1>1. ASSUME NEW i \in 1 .. T, NEW x, Reply(i) = [k |-> "hdr", v |-> x]
      PROVE  Awaited(x)'
  <2>1. Reply(i).k = "hdr" /\ Reply(i).v = x
    BY <1>1
  <2>2. Awaited(x)
    BY <2>1, Zenon DEF Replies
  <2>3. x \in Xids
    BY <2>2 DEF Awaited, Io, IoTypes
  <2> QED
    BY <2>2, <2>3, Zenon DEF Kept
<1> QED
  BY <1>1

\* A step that leaves the stream alone.
LEMMA RepliesStay ==
  ASSUME Io, Replies, Kept, UNCHANGED << in, net >>
  PROVE  Replies'
<1>1. PICK T : T = RTotal
  OBVIOUS
<1>2. T \in Nat /\ answered \subseteq Xids
  BY <1>1 DEF Io, IoTypes, RTotal
<1>3. RTotal' = T - 0 /\ \A i \in 1 .. T - 0 : i + 0 = i /\ Reply(i)' = Reply(i)
  BY <1>1, <1>2 DEF RTotal, Reply
<1>4. \A i \in 0 + 1 .. T : \A x : Reply(i) = [k |-> "hdr", v |-> x] => Awaited(x)'
  BY <1>1, RepliesKeep
<1>5. 0 <= T /\ \A i \in 1 .. T - 0 : Reply(i)' = Reply(i + 0)
  BY <1>2, <1>3
<1>6. \A x \in Xids : Withdrawn(x) => Withdrawn(x)'
  BY DEF Kept
<1> QED
  BY <1>1, <1>2, <1>3, <1>4, <1>5, <1>6, RepliesShift

\* The server answers a request it has, and that request is not forgotten.
LEMMA AnswerReplies ==
  ASSUME NEW x \in Xids, IInv, Io, Ends, Replies, Answer(x)
  PROVE  Ends' /\ Replies'
<1>1. /\ x \notin answered /\ answered' = answered \cup {x} /\ Received(x)
      /\ net' = net \o << [k |-> "hdr", v |-> x], [k |-> "ret", v |-> x] >>
      /\ UNCHANGED << status, conn, xid, pending, fu, in, wire, pc, cur, hp, job >>
  BY Zenon DEF Answer, Received, clientVars
<1>2. Ends' /\ \A y : (Withdrawn(y)' <=> Withdrawn(y)) /\ (Received(y)' <=> Received(y))
  <2>1. Shut'
    BY <1>1 DEF Ends, Shut
  <2> QED
    BY <1>1, <2>1, StillEnds
<1>3. Awaited(x)'
  <2>1. x <= xid /\ x \in 1 .. xid
    BY <1>1 DEF Ends, Sent, IInv, Types, Xids
  <2>2. x \in pending \/ Withdrawn(x)
    BY <1>1, <2>1, Zenon DEF Ends, Fate, Dropped
  <2> QED
    BY <1>1, <1>2, <2>2 DEF Awaited
<1>4. \A y : Awaited(y) => Awaited(y)'
  BY <1>1, <1>2 DEF Awaited
<1>5. PICK T : T = RTotal
  OBVIOUS
<1>6. PICK u, w : u = [k |-> "hdr", v |-> x] /\ w = [k |-> "ret", v |-> x]
  BY Zenon
<1>7. /\ T \in Nat /\ RTotal' = T + 2 /\ Reply(T + 1)' = u /\ Reply(T + 2)' = w
      /\ \A i \in 1 .. T : Reply(i)' = Reply(i)
  <2>1. in \in Seq(Unit) /\ net \in Seq(Unit) /\ u \in Unit /\ w \in Unit /\ net' = net \o << u, w >>
    BY <1>1, <1>6, UnitsAre, Zenon DEF Io, IoTypes
  <2>2. /\ Len(net') = Len(net) + 2 /\ net'[Len(net) + 1] = u /\ net'[Len(net) + 2] = w
        /\ \A i \in 1 .. Len(net) : net'[i] = net[i]
    BY <2>1
  <2>3. Len(in) \in Nat /\ Len(net) \in Nat /\ T = Len(in) + Len(net) /\ Len(in') = Len(in) /\ in' = in
    BY <1>1, <1>5, <2>1 DEF RTotal
  <2>4. RTotal' = T + 2 /\ T \in Nat
    BY <2>2, <2>3 DEF RTotal
  <2>5. \A i \in 1 .. T : Reply(i)' = Reply(i)
    <3>1. ASSUME NEW i \in 1 .. T, ~(i <= Len(in))
          PROVE  net'[i - Len(in)] = net[i - Len(in)]
      BY <2>2, <2>3, <3>1
    <3> QED
      BY <2>3, <3>1 DEF Reply
  <2>6. Reply(T + 1)' = u /\ Reply(T + 2)' = w
    <3>1. /\ (T + 1) - Len(in) = Len(net) + 1 /\ (T + 2) - Len(in) = Len(net) + 2
          /\ ~(T + 1 <= Len(in)) /\ ~(T + 2 <= Len(in))
      BY <2>3
    <3>2. PICK a, b : a = T + 1 /\ b = T + 2
      OBVIOUS
    <3>3. Reply(a)' = u /\ Reply(b)' = w
      BY <2>2, <2>3, <3>1, <3>2 DEF Reply
    <3> QED
      BY <3>2, <3>3
  <2> QED
    BY <2>4, <2>5, <2>6
<1>8. ASSUME NEW i \in 1 .. T + 2
      PROVE  /\ Reply(i)'.k \in {"hdr", "ret"}
             /\ Reply(i)'.k = "hdr" => i < T + 2 /\ Reply(i + 1)'.k = "ret" /\ Awaited(Reply(i).v)'
             /\ Reply(i)'.k = "ret" => IF i = 1 THEN \E y \in Xids : Withdrawn(y)' ELSE Reply(i - 1)'.k = "hdr"
  <2>1. CASE i \in 1 .. T
    <3>1. Reply(i)' = Reply(i)
      BY <1>7, <2>1
    <3>2. /\ Reply(i).k \in {"hdr", "ret"}
          /\ Reply(i).k = "hdr" => i < T /\ Reply(i + 1).k = "ret" /\ Awaited(Reply(i).v)
          /\ Reply(i).k = "ret" => IF i = 1 THEN \E y \in Xids : Withdrawn(y) ELSE Reply(i - 1).k = "hdr"
      BY <1>5, <2>1, Zenon DEF Replies
    <3>3. Reply(i).k = "hdr" => i < T + 2 /\ Reply(i + 1)' = Reply(i + 1)
      BY <1>7, <2>1, <3>2
    <3>4. i # 1 => Reply(i - 1)' = Reply(i - 1)
      BY <1>7, <2>1
    <3>5. Awaited(Reply(i).v) => Awaited(Reply(i).v)'
      BY <1>1, <1>2, <3>1 DEF Awaited, Withdrawn
    <3> QED
      BY <1>2, <3>1, <3>2, <3>3, <3>4, <3>5, Zenon
  <2>2. CASE i = T + 1
    <3>1. Reply(i)' = u /\ Reply(i + 1)' = w /\ i < T + 2
      BY <1>7, <2>2
    <3>2. u.k = "hdr" /\ w.k = "ret" /\ u.v = x
      BY <1>6
    <3>3. Awaited(Reply(i).v)'
      BY <1>3, <3>1, <3>2 DEF Awaited, Withdrawn
    <3> QED
      BY <3>1, <3>2, <3>3
  <2>3. CASE i = T + 2
    <3>1. Reply(i)' = w /\ Reply(i - 1)' = u /\ i # 1
      BY <1>7, <2>3
    <3> QED
      BY <1>6, <3>1
  <2> QED
    BY <1>7, <2>1, <2>2, <2>3
<1>9. ASSUME NEW i \in 1 .. T + 2, NEW j \in 1 .. T + 2,
             Reply(i)'.k = "hdr", Reply(j)'.k = "hdr", Reply(i)'.v = Reply(j)'.v
      PROVE  i = j
  <2>1. ASSUME NEW a \in 1 .. T, Reply(a).k = "hdr"
        PROVE  Reply(a).v # x
    BY <1>1, <1>5, <2>1 DEF Replies, Awaited
  <2>2. Reply(T + 2)'.k # "hdr" /\ Reply(T + 1)'.v = x
    BY <1>6, <1>7
  <2>3. i \in 1 .. T + 1 /\ j \in 1 .. T + 1
    BY <1>7, <1>9, <2>2
  <2>4. CASE i \in 1 .. T /\ j \in 1 .. T
    BY <1>5, <1>7, <1>9, <2>4 DEF Replies
  <2>5. CASE i = T + 1
    BY <1>7, <1>9, <2>1, <2>2, <2>3, <2>5
  <2>6. CASE j = T + 1
    BY <1>7, <1>9, <2>1, <2>2, <2>3, <2>6
  <2> QED
    BY <1>7, <2>3, <2>4, <2>5, <2>6
<1> QED
  BY <1>2, <1>7, <1>8, <1>9 DEF Replies

\* handle_read moves units from the socket to in_.
LEMMA ReadReplies ==
  ASSUME IInv, Io, Ends, Replies, HandleRead
  PROVE  Ends' /\ Replies'
<1>1. Ends' /\ \A x \in Xids : Withdrawn(x) => Withdrawn(x)'
  BY NotifiesEnd DEF Closing
<1>2. Kept
  BY <1>1, Zenon DEF HandleRead, clientVars, Kept, Awaited
<1>3. in \in Seq(Unit) /\ net \in Seq(Unit) /\ answered \subseteq Xids
  BY DEF Io, IoTypes
<1>4. PICK n \in 1 .. Len(net) : in' = in \o SubSeq(net, 1, n) /\ net' = SubSeq(net, n + 1, Len(net))
  BY Zenon DEF HandleRead
<1>5. n \in Nat /\ n <= Len(net) /\ Len(in) \in Nat /\ Len(net) \in Nat
  BY <1>3, <1>4
<1>6. /\ Len(in') = Len(in) + n /\ Len(net') = Len(net) - n
      /\ \A i \in 1 .. Len(net) - n : net'[i] = net[n + i]
      /\ \A i \in 1 .. Len(in) : in'[i] = in[i]
      /\ \A i \in 1 .. n : in'[Len(in) + i] = net[i]
  BY <1>3, <1>4, <1>5, Cut
<1>7. PICK T : T = RTotal
  OBVIOUS
<1>8. T = Len(in) + Len(net) /\ T \in Nat /\ RTotal' = T - 0 /\ 0 <= T
  BY <1>5, <1>6, <1>7 DEF RTotal
<1>9. ASSUME NEW i \in 1 .. T - 0
      PROVE  Reply(i)' = Reply(i + 0)
  <2>1. CASE i <= Len(in)
    BY <1>5, <1>6, <2>1 DEF Reply
  <2>2. CASE ~(i <= Len(in)) /\ i <= Len(in')
    <3>1. i - Len(in) \in 1 .. n /\ Len(in) + (i - Len(in)) = i
      BY <1>5, <1>6, <1>8, <2>2
    <3>2. in'[i] = net[i - Len(in)]
      BY <1>6, <3>1
    <3> QED
      BY <1>8, <2>2, <3>2 DEF Reply
  <2>3. CASE ~(i <= Len(in'))
    <3>1. i - Len(in') \in 1 .. Len(net) - n /\ n + (i - Len(in')) = i - Len(in) /\ ~(i <= Len(in))
      BY <1>5, <1>6, <1>8, <2>3
    <3>2. net'[i - Len(in')] = net[i - Len(in)]
      <4>1. net'[i - Len(in')] = net[n + (i - Len(in'))]
        BY <1>6, <3>1, Zenon
      <4> QED
        BY <3>1, <4>1, Zenon
    <3> QED
      BY <1>8, <2>3, <3>1, <3>2 DEF Reply
  <2> QED
    BY <2>1, <2>2, <2>3
<1>10. \A i \in 0 + 1 .. T : \A x : Reply(i) = [k |-> "hdr", v |-> x] => Awaited(x)'
  BY <1>2, <1>3, <1>7, RepliesKeep
<1> QED
  BY <1>1, <1>7, <1>8, <1>9, <1>10, RepliesShift

\* The front of the stream is the front of in_.
LEMMA Front ==
  ASSUME Io, NEW d \in {1, 2}, d <= Len(in), in' = SubSeq(in, d + 1, Len(in)), net' = net, NEW T, T = RTotal
  PROVE  /\ T \in Nat /\ d <= T /\ RTotal' = T - d /\ Reply(1) = in[1]
         /\ \A i \in 1 .. T - d : Reply(i)' = Reply(i + d)
<1>1. in \in Seq(Unit) /\ net \in Seq(Unit) /\ Len(in) \in Nat /\ Len(net) \in Nat
  BY DEF Io, IoTypes
<1>2. Len(in') = Len(in) - d /\ \A i \in 1 .. Len(in) - d : in'[i] = in[d + i]
  BY <1>1, Cut
<1>3. T = Len(in) + Len(net) /\ T \in Nat /\ RTotal' = T - d /\ d <= T
  BY <1>1, <1>2 DEF RTotal
<1>4. Reply(1) = in[1]
  BY <1>1 DEF Reply
<1>5. ASSUME NEW i \in 1 .. T - d
      PROVE  Reply(i)' = Reply(i + d)
  <2>1. CASE i <= Len(in')
    <3>1. i \in 1 .. Len(in) - d /\ i + d <= Len(in) /\ d + i = i + d
      BY <1>1, <1>2, <2>1
    <3>2. in'[i] = in[i + d]
      BY <1>2, <3>1
    <3> QED
      BY <2>1, <3>1, <3>2 DEF Reply
  <2>2. CASE ~(i <= Len(in'))
    <3>1. PICK m : m = Len(in')
      OBVIOUS
    <3>2. m = Len(in) - d /\ i \in Nat /\ d \in Nat /\ ~(i <= m)
      BY <1>2, <1>3, <2>2, <3>1
    <3>3. ~(i + d <= Len(in)) /\ i - m = (i + d) - Len(in)
      BY <1>1, <3>2
    <3> QED
      BY <2>2, <3>1, <3>3 DEF Reply
  <2> QED
    BY <2>1, <2>2
<1> QED
  BY <1>3, <1>4, <1>5

\* handle_read takes a reply from in_: the future it completes was answered, or will never be.
LEMMA ParseReplies ==
  ASSUME IInv, Io, Ends, Replies, Parse \/ ParseStray
  PROVE  Ends' /\ Replies'
<1>1. /\ hp[poll] = "parse" /\ job[poll] = {} /\ net' = net
      /\ UNCHANGED << status, conn, fu, hp, xid, pc, cur, wire, answered >>
  BY Zenon DEF Parse, ParseStray
<1>2. /\ in \in Seq(Unit) /\ net \in Seq(Unit) /\ Len(in) \in Nat /\ Len(net) \in Nat /\ poll \in Closing
      /\ answered \subseteq Xids /\ pending \subseteq 1 .. xid /\ 1 .. xid \subseteq Xids
  <2>1. in \in Seq(Unit) /\ net \in Seq(Unit) /\ poll \in Closing /\ answered \subseteq Xids
    BY DEF Io, IoTypes, Closing
  <2>2. pending \subseteq 1 .. xid /\ 1 .. xid \subseteq Xids
    BY ClientAssumption DEF IInv, Types, Xids
  <2> QED
    BY <2>1, <2>2
<1>3. PICK T : T = RTotal
  OBVIOUS
<1>4. in # << >> /\ in' = Tail(in) => in' = SubSeq(in, 1 + 1, Len(in)) /\ 1 <= Len(in)
  BY <1>2
<1>5. (1 <= Len(in) => Reply(1) = in[1]) /\ T = Len(in) + Len(net)
  BY <1>2, <1>3 DEF Reply, RTotal
<1>6. ASSUME UNCHANGED << pending, job >>
      PROVE  Ends' /\ Kept
  <2>1. Shut'
    BY <1>1 DEF Ends, Shut
  <2>2. Ends' /\ \A x : Withdrawn(x)' <=> Withdrawn(x)
    BY <1>1, <1>6, <2>1, StillEnds
  <2> QED
    BY <1>1, <1>6, <2>2 DEF Kept, Awaited
<1>7. ASSUME NEW y \in pending, pending' = pending \ {y}, job' = [job EXCEPT ![poll] = {y}], y \in answered \/ Dropped(y)
      PROVE  Ends' /\ (\A x \in Xids : Withdrawn(x) => Withdrawn(x)')
                   /\ \A x \in Xids : Awaited(x) /\ x # y => Awaited(x)'
  <2>1. Ends' /\ \A x \in Xids : Withdrawn(x) => Withdrawn(x)'
    BY <1>1, <1>7, ParseEnds, Zenon
  <2> QED
    BY <1>1, <1>7, <2>1 DEF Awaited
<1>8. ASSUME NEW i \in 1 .. T, NEW x, Reply(i) = [k |-> "hdr", v |-> x]
      PROVE  x \in Xids /\ Awaited(x)
  BY <1>2, <1>3, <1>8 DEF Replies, Awaited
<1>9. CASE Parse /\ in[1].v \in pending
  <2>1. PICK y : y = in[1].v
    OBVIOUS
  <2>2. /\ y \in pending /\ pending' = pending \ {y} /\ job' = [job EXCEPT ![poll] = {y}]
        /\ in' = SubSeq(in, 2 + 1, Len(in)) /\ 2 <= Len(in) /\ in[1].k = "hdr"
    BY <1>2, <1>9, <2>1 DEF Parse, Whole
  <2>3. /\ T \in Nat /\ 2 <= T /\ RTotal' = T - 2
        /\ \A i \in 1 .. T - 2 : Reply(i)' = Reply(i + 2)
    BY <1>1, <1>3, <2>2, Front
  <2>4. 1 \in 1 .. T /\ Reply(1).k = "hdr" /\ Reply(1).v = y
    BY <1>5, <2>1, <2>2, <2>3
  <2>5. y \in answered /\ Reply(1 + 1).k = "ret"
    BY <1>3, <2>4 DEF Replies, Awaited
  <2>6. Ends' /\ (\A x \in Xids : Withdrawn(x) => Withdrawn(x)') /\ \A x \in Xids : Awaited(x) /\ x # y => Awaited(x)'
    BY <1>7, <2>2, <2>5, Zenon
  <2>7. ASSUME NEW i \in 2 + 1 .. T, NEW x, Reply(i) = [k |-> "hdr", v |-> x]
        PROVE  Awaited(x)'
    <3>1. i \in 1 .. T /\ i # 1 /\ Reply(i).k = "hdr" /\ Reply(i).v = x
      BY <2>3, <2>7
    <3>2. x # y
      BY <1>3, <2>4, <3>1 DEF Replies
    <3> QED
      BY <1>8, <2>6, <2>7, <3>1, <3>2
  <2>8. Reply(2).k # "hdr"
    BY <2>5
  <2> QED
    BY <1>3, <2>3, <2>6, <2>7, <2>8, RepliesShift
<1>10. CASE Parse /\ in[1].v \notin pending
  <2>1. UNCHANGED << pending, job >> /\ in' = Tail(in) /\ in # << >> /\ 1 <= Len(in) /\ in[1].k = "hdr"
    BY <1>2, <1>10 DEF Parse, Whole
  <2>2. T \in Nat /\ 1 <= T /\ RTotal' = T - 1 /\ \A i \in 1 .. T - 1 : Reply(i)' = Reply(i + 1)
    BY <1>1, <1>3, <1>4, <2>1, Front
  <2>3. Withdrawn(in[1].v) /\ in[1].v \in Xids
    BY <1>2, <1>3, <1>5, <1>10, <2>1, <2>2 DEF Replies, Awaited
  <2>4. Ends' /\ Kept
    BY <1>6, <2>1
  <2>5. \A i \in 1 + 1 .. T : \A x : Reply(i) = [k |-> "hdr", v |-> x] => Awaited(x)'
    BY <1>8, <2>2, <2>4 DEF Kept
  <2>6. \A x \in Xids : Withdrawn(x) => Withdrawn(x)'
    BY <2>4 DEF Kept
  <2> QED
    <3>1. Ends' /\ \E x \in Xids : Withdrawn(x)
      BY <2>3, <2>4, Zenon
    <3> QED
      BY <1>3, <2>2, <2>5, <2>6, <3>1, RepliesShift
<1>11. CASE ParseStray
  <2>1. in' = Tail(in) /\ in # << >> /\ 1 <= Len(in) /\ in[1].k = "ret"
    BY <1>2, <1>11 DEF ParseStray
  <2>2. T \in Nat /\ 1 <= T /\ RTotal' = T - 1 /\ \A i \in 1 .. T - 1 : Reply(i)' = Reply(i + 1)
    BY <1>1, <1>3, <1>4, <2>1, Front
  <2>3. \E x \in Xids : Withdrawn(x)
    BY <1>3, <1>5, <2>1, <2>2 DEF Replies
  <2>4. CASE UNCHANGED << pending, job >>
    <3>1. Ends' /\ Kept
      BY <1>6, <2>4
    <3>2. \A i \in 1 + 1 .. T : \A x : Reply(i) = [k |-> "hdr", v |-> x] => Awaited(x)'
      BY <1>8, <2>2, <3>1 DEF Kept
    <3>3. \A x \in Xids : Withdrawn(x) => Withdrawn(x)'
      BY <3>1 DEF Kept
    <3> QED
      BY <1>3, <2>2, <2>3, <3>1, <3>2, <3>3, RepliesShift
  <2>5. ASSUME NEW y \in pending, pending' = pending \ {y}, job' = [job EXCEPT ![poll] = {y}]
        PROVE  Ends' /\ Replies'
    <3>1. Dropped(y) /\ y \in Xids
      BY <1>2, <2>3, EarlyDropped DEF Ends, Taken
    <3>2. y \notin answered
      BY <3>1 DEF Dropped, Ends, Sent
    <3>3. Ends' /\ (\A x \in Xids : Withdrawn(x) => Withdrawn(x)') /\ \A x \in Xids : Awaited(x) /\ x # y => Awaited(x)'
      BY <1>7, <2>5, <3>1, Zenon
    <3>4. \A i \in 1 + 1 .. T : \A x : Reply(i) = [k |-> "hdr", v |-> x] => Awaited(x)'
      BY <1>8, <2>2, <3>2, <3>3 DEF Awaited
    <3> QED
      BY <1>3, <2>2, <2>3, <3>3, <3>4, RepliesShift
  <2> QED
    BY <1>11, <2>4, <2>5, Zenon DEF ParseStray
<1> QED
  BY <1>9, <1>10, <1>11

-----------------------------------------------------------------------------
(* The first connection *)

\* Only connect() opens a connection.
LEMMA Numbered ==
  ASSUME Io, [Next]_vars, ~Connect
  PROVE  conn'.n = conn.n
<1>1. conn \in [n : 0 .. MaxConnects, add : {"no", "mode", "read", "write", "done"}, open : BOOLEAN, closes : Nat]
  BY DEF Io, IoTypes
<1>2. \/ conn' = conn \/ AddMode \/ AddRegister
      \/ \E p \in Closing : CloseSocket(p) /\ conn' = [conn EXCEPT !.open = FALSE, !.closes = @ + 1]
  BY Zenon DEF Next, Begin, Request, Release, Insert, Recheck, Undo, Mark, Put, RefCopy, End, CloseSocket,
     Close, CloseMark, CloseSwap, CloseNotify, HandleWrite, HandleRead, Read, Parse, ParseNotify, ParseStray,
     ParseEnd, Answer, vars, clientVars
<1> QED
  BY <1>1, <1>2, Zenon DEF AddMode, AddRegister

\* Before connect() a caller gets no future, and nobody can close the client.
LEMMA UnbornStays ==
  ASSUME IInv, Io, Unborn, [Next]_vars
  PROVE  Unborn'
<1>1. /\ conn \in [n : 0 .. MaxConnects, add : {"no", "mode", "read", "write", "done"}, open : BOOLEAN, closes : Nat]
      /\ pc \in [Callers -> Places] /\ poll \in Closing
  BY DEF Io, IoTypes, IInv, Types, Closing
<1>2. CASE Connect
  <2>1. status' = "CONNECTED" /\ conn'.n = conn.n + 1
    BY <1>2 DEF Connect
  <2> QED
    BY <1>1, <2>1, ClientAssumption DEF Unborn
<1>3. CASE ~Connect /\ status # "NEW"
  <2>1. status' # "NEW"
    BY <1>3, Zenon DEF Next, AddMode, AddRegister, Begin, Request, Release, Insert, Recheck, Undo, Mark, Put, RefCopy, End,
       CloseSocket, Close, CloseMark, CloseSwap, CloseNotify, HandleWrite, HandleRead, Read, Parse, ParseNotify, ParseStray,
       ParseEnd, Answer, vars, clientVars
  <2>2. conn'.n = conn.n
    BY <1>1, <1>3, Numbered
  <2> QED
    BY <1>3, <2>1, <2>2 DEF Unborn
<1>4. CASE ~Connect /\ status = "NEW"
  <2>1. /\ ~conn.open /\ conn.add = "no" /\ \A c \in Callers : pc[c] \in {"idle", "end"} /\ cur[c] = 0
        /\ \A p \in Closing : hp[p] = "idle"
    BY <1>4 DEF Unborn
  <2>2. (\E c \in Callers : Begin(c) \/ End(c)) \/ UNCHANGED vars
    <3>1. ~AddMode /\ ~AddRegister /\ ~HandleWrite /\ ~HandleRead /\ ~Read /\ \A x \in Xids : ~Answer(x)
      BY <1>1, <1>4, <2>1, Zenon DEF AddMode, AddRegister, HandleWrite, HandleRead, Read, Parse, ParseNotify, ParseStray,
         ParseEnd, Answer
    <3>2. \A p \in Closing : ~CloseSocket(p) /\ ~Close(p)
      BY <2>1, Zenon DEF CloseSocket, Close, CloseMark, CloseSwap, CloseNotify
    <3>3. \A c \in Callers : ~Insert(c) /\ ~Recheck(c) /\ ~Undo(c) /\ ~Mark(c) /\ ~Put(c) /\ ~RefCopy(c) /\ ~Release(c)
      BY <2>1, Zenon DEF Insert, Recheck, Undo, Mark, Put, RefCopy, Release
    <3> QED
      BY <1>4, <3>1, <3>2, <3>3, Zenon DEF Next, Request
  <2>3. CASE UNCHANGED vars
    BY <2>3 DEF Unborn, vars, clientVars, ioVars
  <2>4. ASSUME NEW c \in Callers, Begin(c) \/ End(c)
        PROVE  Unborn'
    <3>1. UNCHANGED << status, conn, xid, out, wire, in, net, answered, cur, hp >>
      BY <2>1, <2>4, Zenon DEF Begin, End, clientVars
    <3>2. \A d \in Callers : pc'[d] \in {"idle", "end"}
      BY <1>1, <1>4, <2>1, <2>4, Zenon DEF Begin, End, Goto
    <3> QED
      BY <3>1, <3>2 DEF Unborn
  <2> QED
    BY <2>2, <2>3, <2>4
<1> QED
  BY <1>2, <1>3, <1>4

\* A new connection finds a client on which nothing was ever called.
LEMMA ConnectEnds ==
  ASSUME IInv, Unborn, Ends, status = "NEW", Connect
  PROVE  Ends' /\ Replies'
<1>1. /\ xid = 0 /\ answered = {} /\ in = << >> /\ \A p \in Closing : hp[p] = "idle"
      /\ \A c \in Callers : pc[c] \in {"idle", "end"}
  BY DEF Unborn
<1>2. /\ status' = "CONNECTED" /\ net' = << >> /\ wire' = << >>
      /\ UNCHANGED << xid, pending, fu, in, answered, pc, cur, hp, job >>
  BY DEF Connect
<1>3. \A x \in Xids : fu[x].done = "no"
  BY <1>1 DEF IInv, Once, Ends, Hits, Xids
<1>4. Hits' /\ Shut' /\ Taken' /\ Sent'
  <2>1. \A x \in Xids : ~Withdrawn(x)'
    BY <1>1, <1>2, <1>3 DEF Withdrawn
  <2>2. \A x : ~Received(x)'
    BY <1>2 DEF Received
  <2>3. Hits' /\ Shut'
    BY <1>1, <1>2 DEF Ends, Hits, Shut
  <2> QED
    BY <1>1, <1>2, <2>1, <2>2, <2>3 DEF Taken, Sent
<1>5. Fate' /\ Owned'
  BY <1>1, <1>2 DEF Fate, Owned
<1>6. Replies'
  <2>1. RTotal' = 0
    BY <1>1, <1>2 DEF RTotal
  <2> QED
    BY <2>1 DEF Replies
<1> QED
  BY <1>4, <1>5, <1>6 DEF Ends

\* Until the client is connected a second time, every step keeps what is said of the connection.
LEMMA NextFirst == IInv /\ Io /\ First /\ [Next]_vars => First'
<1> SUFFICES ASSUME IInv, Io, First, [Next]_vars, conn'.n <= 1
             PROVE  Unborn' /\ Framing' /\ Ends' /\ Replies'
  BY DEF First
<1>1. conn.n \in Nat /\ (~Connect => conn'.n = conn.n) /\ (Connect => conn'.n = conn.n + 1)
  <2>1. conn \in [n : 0 .. MaxConnects, add : {"no", "mode", "read", "write", "done"}, open : BOOLEAN, closes : Nat]
    BY DEF Io, IoTypes
  <2>2. conn.n \in Nat
    BY <2>1, ClientAssumption
  <2>3. ~Connect => conn'.n = conn.n
    BY Numbered, Zenon
  <2>4. Connect => conn'.n = conn.n + 1
    BY DEF Connect
  <2> QED
    BY <2>2, <2>3, <2>4, Zenon
<1>2. conn.n <= 1 /\ (Connect => conn.n = 0)
  BY <1>1
<1>3. Unborn /\ Framing /\ Ends /\ Replies
  BY <1>2 DEF First
<1>4. Unborn'
  BY <1>3, UnbornStays
<1>5. CASE Connect
  <2>1. status = "NEW"
    BY <1>2, <1>3, <1>5 DEF Unborn
  <2>2. out = << >> /\ \A c \in Callers : pc[c] \in {"idle", "end"} /\ cur[c] = 0
    BY <1>3, <2>1 DEF Unborn
  <2> QED
    BY <1>3, <1>4, <1>5, <2>1, <2>2, ConnectEnds, ConnectFrames
<1>6. ASSUME NEW c \in Callers, Begin(c) \/ Request(c) \/ Release(c)
      PROVE  Framing' /\ Ends' /\ Replies'
  <2>1. Framing'
    BY <1>3, <1>6, MarkFrames, PutFrames, EndFrames, CallerFrames, Zenon DEF Request
  <2> QED
    BY <1>3, <1>6, <2>1, CallerEnds, RepliesStay
<1>7. CASE HandleWrite
  <2>1. Framing' /\ Ends' /\ \A x : Withdrawn(x) <=> Withdrawn(x)'
    BY <1>3, <1>7, WriteFrames, WriteEnds
  <2>2. UNCHANGED << in, net, pending, answered >>
    BY <1>7, Zenon DEF HandleWrite, clientVars
  <2>3. Kept
    BY <2>1, <2>2 DEF Kept, Awaited
  <2> QED
    BY <1>3, <1>4, <2>1, <2>2, <2>3, RepliesStay
<1>8. ASSUME \/ AddMode \/ AddRegister \/ HandleRead \/ Read \/ UNCHANGED vars
             \/ \E p \in Closing : CloseSocket(p) \/ Close(p)
             \/ \E x \in Xids : Answer(x)
      PROVE  Framing'
  <2>1. UNCHANGED << out, wire, pc, cur, out_l >> /\ (status' = "CONNECTED" => status = "CONNECTED")
    BY <1>8, Zenon DEF AddMode, AddRegister, HandleRead, Read, Parse, ParseNotify, ParseStray, ParseEnd, vars, clientVars, ioVars,
       CloseSocket, Close, CloseMark, CloseSwap, CloseNotify, Answer
  <2> QED
    BY <1>3, <2>1, ElseFrames
<1>9. CASE HandleRead \/ Parse \/ ParseStray \/ \E x \in Xids : Answer(x)
  BY <1>3, <1>4, <1>8, <1>9, ReadReplies, ParseReplies, AnswerReplies, Zenon DEF Read
<1>10. CASE AddMode \/ AddRegister \/ UNCHANGED vars
  <2>1. UNCHANGED << fu, pending, job, xid, pc, cur, wire, answered, status, hp, in, net >>
    BY <1>10, Zenon DEF AddMode, AddRegister, vars, clientVars, ioVars
  <2>2. conn'.open = conn.open
    BY <1>10 DEF AddMode, AddRegister, vars, clientVars, Io, IoTypes
  <2>3. Shut'
    BY <1>3, <2>1, <2>2 DEF Ends, Shut
  <2>4. Ends' /\ \A x : Withdrawn(x)' <=> Withdrawn(x)
    BY <1>3, <2>1, <2>3, StillEnds
  <2>5. Kept
    BY <2>1, <2>4 DEF Kept, Awaited
  <2> QED
    BY <1>3, <1>4, <1>8, <1>10, <2>1, <2>4, <2>5, RepliesStay, Zenon
<1>11. ASSUME NEW p \in Closing, CloseSocket(p) \/ Close(p) \/ ParseNotify \/ ParseEnd
       PROVE  Ends' /\ Replies'
  <2>1. UNCHANGED << in, net, answered >> /\ (pending' = pending \/ CloseSwap(p))
    BY <1>11, Zenon DEF CloseSocket, Close, CloseMark, CloseSwap, CloseNotify, ParseNotify, ParseEnd, clientVars, ioVars
  <2>2. Ends' /\ \A x \in Xids : Withdrawn(x) => Withdrawn(x)'
    BY <1>3, <1>11, CloseStartEnds, CloseSwapEnds, NotifiesEnd, Zenon DEF Close
  <2>3. CloseSwap(p) => \A x \in Xids : x \in pending => Withdrawn(x)'
    BY <1>3, CloseSwapEnds, Zenon
  <2>4. Kept
    BY <2>1, <2>2, <2>3, Zenon DEF Kept, Awaited
  <2> QED
    BY <1>3, <2>1, <2>2, <2>4, RepliesStay
<1>12. poll \in Closing
  BY DEF Closing
<1>13. ASSUME HandleRead \/ Read PROVE Ends' /\ Replies'
  BY <1>9, <1>11, <1>12, <1>13, Zenon DEF Read
<1> QED
  <2>1. CASE Connect \/ HandleWrite \/ \E c \in Callers : Begin(c) \/ Request(c) \/ Release(c)
    BY <1>4, <1>5, <1>6, <1>7, <2>1, Zenon
  <2>2. CASE AddMode \/ AddRegister \/ UNCHANGED vars \/ \E x \in Xids : Answer(x)
    BY <1>4, <1>8, <1>9, <1>10, <2>2, Zenon
  <2>3. CASE HandleRead \/ Read \/ \E p \in Closing : CloseSocket(p) \/ Close(p)
    BY <1>4, <1>8, <1>11, <1>13, <2>3, Zenon
  <2> QED
    BY <2>1, <2>2, <2>3, Zenon DEF Next

\* A new client has no connection.
LEMMA InitFirst == Init => First
<1> SUFFICES ASSUME Init PROVE First
  OBVIOUS
<1>1. Unborn
  BY DEF Init, Unborn
<1>2. Framing
  BY DEF Init, Framing, WireWhole
<1>3. Ends
  <2>1. \A x \in Xids : ~Withdrawn(x) /\ ~Received(x)
    BY DEF Init, Withdrawn, Received
  <2>2. Hits /\ Shut /\ Owned
    BY DEF Init, Hits, Shut, Owned
  <2>3. Taken /\ Sent /\ Fate
    BY <2>1 DEF Init, Taken, Sent, Fate
  <2> QED
    BY <2>2, <2>3 DEF Ends
<1>4. Replies
  BY DEF Init, Replies, RTotal
<1> QED
  BY <1>1, <1>2, <1>3, <1>4 DEF First

\* The first connection, and what it needs of the client, hold throughout.
LEMMA FirstHolds == Spec => [](IInv /\ Io /\ First)
<1>1. Init => IInv /\ Io /\ First
  BY InitIInv, InitIo, InitFirst
<1>2. IInv /\ Io /\ First /\ [Next]_vars => IInv' /\ Io' /\ First'
  BY NextIInv, NextIo, NextFirst
<1> QED
  BY <1>1, <1>2, PTL DEF Spec

-----------------------------------------------------------------------------
(* A client that is connected once implements Calls. *)

\* The state of Calls, and that a caller has the future of request x.
Call == [c \in Callers |-> IF pc[c] = "hold" THEN cur[c] ELSE 0]
Result == [c \in Callers |-> IF pc[c] = "hold" THEN fu[cur[c]].done ELSE "no"]
Over == {x \in 1 .. xid : \A c \in Callers : cur[c] # x}
Holds(c, x) == pc[c] = "hold" /\ cur[c] = x

\* A caller sees its own future only, and only when begin_request has returned it.
LEMMA Seen ==
  ASSUME \A c \in Callers : pc[c] # "hold" <=> pc'[c] # "hold",
         \A c \in Callers : pc[c] = "hold" => cur'[c] = cur[c]
  PROVE  /\ Call' = Call
         /\ (\A c \in Callers : pc[c] = "hold" => fu'[cur[c]].done = fu[cur[c]].done) => Result' = Result
<1>1. Call' = Call
  BY DEF Call
<1>2. (\A c \in Callers : pc[c] = "hold" => fu'[cur[c]].done = fu[cur[c]].done) => Result' = Result
  BY DEF Result
<1> QED
  BY <1>1, <1>2

\* A step nobody sees.
LEMMA Unseen ==
  ASSUME \A c \in Callers : pc[c] # "hold" <=> pc'[c] # "hold",
         \A c \in Callers : pc[c] = "hold" => cur'[c] = cur[c] /\ fu'[cur[c]].done = fu[cur[c]].done,
         Over' = Over, answered' = answered, status' = "CLOSED" <=> status = "CLOSED"
  PROVE  UNCHANGED C!vars
<1>1. Call' = Call /\ Result' = Result
  BY Seen
<1> QED
  BY <1>1, Zenon DEF C!vars, Call, Result, Over

\* begin_request returns no future, or end_request one that is undecided unless the client was closed.
LEMMA CallerStep ==
  ASSUME NEW c \in Callers, IInv, Io, Ends, Begin(c) \/ Request(c) \/ Release(c)
  PROVE  [C!Next]_C!vars
<1>1. /\ fu \in [Xids -> [refs : Int, done : {"no", "reply", "ENOTCONN"}, hits : Nat]]
      /\ pc \in [Callers -> Places] /\ cur \in [Callers -> 0 .. xid] /\ xid \in Nat
      /\ \A x \in 1 .. xid : x \in Xids /\ x # 0
  BY ClientAssumption DEF IInv, Types, Xids
<1>2. UNCHANGED << answered, status >>
  BY Zenon DEF Begin, Request, Release, Insert, Recheck, Undo, Mark, Put, RefCopy, End, ioVars, clientVars
<1>3. CASE Begin(c) \/ Recheck(c) \/ Mark(c) \/ Put(c) \/ RefCopy(c) \/ (End(c) /\ cur[c] = 0)
  <2>1. UNCHANGED << xid, cur >>
    BY <1>3, Zenon DEF Begin, Recheck, Mark, Put, RefCopy, End, clientVars
  <2>2. pc[c] # "hold" /\ \E l : l # "hold" /\ pc' = [pc EXCEPT ![c] = l]
    BY <1>3, Zenon DEF Begin, Recheck, Mark, Put, RefCopy, End, Goto
  <2>3. fu' = fu \/ fu' = [fu EXCEPT ![cur[c]].refs = @ + 1]
    BY <1>3, Zenon DEF Begin, Recheck, Mark, Put, RefCopy, End, clientVars
  <2>4. \A d \in Callers : (pc[d] # "hold" <=> pc'[d] # "hold") /\ (d # c => pc'[d] = pc[d])
    BY <1>1, <2>2
  <2>5. \A d \in Callers : pc[d] = "hold" => fu'[cur[d]].done = fu[cur[d]].done
    <3>1. \A d \in Callers : pc[d] = "hold" => cur[d] \in Xids
      BY OwnXid
    <3> QED
      BY <1>1, <2>3, <3>1
  <2>6. Over' = Over
    BY <2>1 DEF Over
  <2> QED
    BY <1>2, <2>1, <2>4, <2>5, <2>6, Unseen
<1>4. CASE Insert(c)
  <2>1. PICK n : n = xid + 1
    OBVIOUS
  <2>2. /\ pc[c] = "new" /\ xid' = n /\ fu' = [fu EXCEPT ![n].refs = 1] /\ cur' = [cur EXCEPT ![c] = n]
        /\ pc' = [pc EXCEPT ![c] = "recheck"]
    BY <1>4, <2>1 DEF Insert, Goto
  <2>3. cur[c] = 0
    BY <2>2 DEF IInv, Own
  <2>4. \A d \in Callers : (pc[d] # "hold" <=> pc'[d] # "hold") /\ (d # c => cur'[d] = cur[d]) /\ cur'[c] = n
    BY <1>1, <2>2
  <2>5. \A d \in Callers : pc[d] = "hold" => cur'[d] = cur[d] /\ fu'[cur[d]].done = fu[cur[d]].done
    <3>1. \A d \in Callers : pc[d] = "hold" => cur[d] \in Xids /\ d # c
      BY <2>2, OwnXid
    <3> QED
      BY <1>1, <2>2, <2>4, <3>1
  <2>6. Over' = Over
    <3>1. \A x : x \in 1 .. n <=> x \in 1 .. xid \/ x = n
      BY <1>1, <2>1
    <3>2. n # 0 /\ n \notin 1 .. xid
      BY <1>1, <2>1
    <3> QED
      BY <1>1, <2>2, <2>3, <2>4, <3>1, <3>2 DEF Over
  <2> QED
    BY <1>2, <2>4, <2>5, <2>6, Unseen
<1>5. CASE End(c) /\ cur[c] # 0
  <2>1. PICK x : x = cur[c]
    OBVIOUS
  <2>2. x \in Xids /\ x \in 1 .. xid /\ x # 0
    BY <1>1, <1>5, <2>1, OwnXid
  <2>3. pc[c] = "end" /\ pc' = [pc EXCEPT ![c] = "hold"] /\ UNCHANGED << xid, cur, fu >>
    BY <1>5, Zenon DEF End, Goto, clientVars
  <2>4. \A d \in Callers : cur[d] = x => d = c
    BY <2>1, <2>2 DEF IInv, Own
  <2>5. Call[c] = 0 /\ (\A d \in Callers : Call[d] # x) /\ Call' = [Call EXCEPT ![c] = x]
    <3>1. Call[c] = 0 /\ \A d \in Callers : Call[d] # x
      BY <2>2, <2>3, <2>4 DEF Call
    <3>2. Call' = [Call EXCEPT ![c] = x]
      BY <1>1, <2>1, <2>3, Zenon DEF Call
    <3> QED
      BY <3>1, <3>2
  <2>6. x \notin Over /\ Over' = Over
    BY <2>1, <2>3 DEF Over
  <2>7. fu[x].done = "no" \/ (fu[x].done = "ENOTCONN" /\ status = "CLOSED")
    <3>1. fu[x].done \in {"no", "reply", "ENOTCONN"}
      BY <1>1, <2>2
    <3>2. fu[x].done # "reply"
      <4>1. ~Received(x) /\ ~Dropped(x)
        BY <2>1, <2>2, <2>3 DEF Ends, Sent, Dropped, Early
      <4> QED
        BY <2>2, <4>1 DEF Ends, Fate, Sent, Claimed
    <3>3. fu[x].done = "ENOTCONN" => status = "CLOSED"
      BY <2>2 DEF Ends, Taken, Withdrawn
    <3> QED
      BY <3>1, <3>2, <3>3
  <2>8. Result' = Result \/ (status = "CLOSED" /\ Result' = [Result EXCEPT ![c] = "ENOTCONN"])
    <3>1. CASE fu[x].done = "no"
      BY <1>1, <2>1, <2>3, <3>1 DEF Result
    <3>2. CASE fu[x].done = "ENOTCONN" /\ status = "CLOSED"
      BY <1>1, <2>1, <2>3, <3>2, Zenon DEF Result
    <3> QED
      BY <2>7, <3>1, <3>2
  <2>9. C!Make(c, x)
    BY <1>2, <2>5, <2>6, <2>8, Zenon DEF C!Make, Call, Result, Over
  <2> QED
    BY <2>2, <2>9, Zenon DEF C!Next
<1>6. CASE Undo(c)
  <2>1. PICK x : x = cur[c]
    OBVIOUS
  <2>2. /\ pc[c] = "undo" /\ pc' = [pc EXCEPT ![c] = "end"] /\ cur' = [cur EXCEPT ![c] = 0] /\ xid' = xid
        /\ (fu' = fu \/ fu' = [fu EXCEPT ![x].refs = @ - 1])
    BY <1>6, <2>1, Zenon DEF Undo, Goto
  <2>3. x \in Xids /\ x \in 1 .. xid /\ x # 0 /\ status = "CLOSED"
    BY <1>1, <2>1, <2>2, OwnXid DEF Ends, Shut
  <2>4. \A d \in Callers : (cur[d] = x => d = c) /\ (pc[d] # "hold" <=> pc'[d] # "hold")
    BY <1>1, <2>1, <2>2, <2>3 DEF IInv, Own
  <2>5. \A d \in Callers : pc[d] = "hold" => cur'[d] = cur[d] /\ fu'[cur[d]].done = fu[cur[d]].done
    <3>1. \A d \in Callers : pc[d] = "hold" => cur[d] \in Xids /\ d # c
      BY <2>2, OwnXid
    <3> QED
      BY <1>1, <2>2, <2>3, <3>1
  <2>6. Call' = Call /\ Result' = Result
    BY <2>4, <2>5, Seen
  <2>7. \A d \in Callers : Call[d] # x
    BY <2>2, <2>3, <2>4 DEF Call
  <2>8. Over' = Over \cup {x}
    BY <1>1, <2>1, <2>2, <2>3, <2>4 DEF Over
  <2>9. C!Refuse(x)
    BY <1>2, <2>3, <2>6, <2>7, <2>8, Zenon DEF C!Refuse, Call, Result, Over
  <2> QED
    BY <2>3, <2>9, Zenon DEF C!Next
<1>7. CASE Release(c)
  <2>1. PICK x : x = cur[c]
    OBVIOUS
  <2>2. /\ pc[c] = "hold" /\ pc' = [pc EXCEPT ![c] = "idle"] /\ cur' = [cur EXCEPT ![c] = 0] /\ xid' = xid
        /\ fu' = [fu EXCEPT ![x].refs = @ - 1] /\ fu[x].done # "no"
    BY <1>7, <2>1, Zenon DEF Release, Goto
  <2>3. x \in Xids /\ x \in 1 .. xid /\ x # 0
    BY <1>1, <2>1, <2>2, OwnXid
  <2>4. \A d \in Callers : (cur[d] = x => d = c) /\ (d # c => pc'[d] = pc[d] /\ cur'[d] = cur[d])
    BY <1>1, <2>1, <2>2, <2>3 DEF IInv, Own
  <2>5. Call[c] = x /\ Result[c] # "no"
    BY <2>1, <2>2 DEF Call, Result
  <2>6. Call' = [Call EXCEPT ![c] = 0]
    BY <1>1, <2>2, <2>4, Zenon DEF Call
  <2>7. Result' = [Result EXCEPT ![c] = "no"]
    <3>1. \A d \in Callers : d # c /\ pc[d] = "hold" => fu'[cur[d]].done = fu[cur[d]].done
      BY <1>1, <2>2, OwnXid
    <3>2. \A d \in Callers : Result'[d] = IF d = c THEN "no" ELSE Result[d]
      <4>1. pc'[c] = "idle"
        BY <1>1, <2>2
      <4> QED
        BY <2>4, <3>1, <4>1, Zenon DEF Result
    <3> QED
      BY <3>2, Zenon DEF Result
  <2>8. Over' = Over \cup {Call[c]}
    BY <1>1, <2>1, <2>2, <2>3, <2>4, <2>5 DEF Over
  <2>9. C!Return(c)
    BY <1>2, <2>3, <2>5, <2>6, <2>7, <2>8, Zenon DEF C!Return, Call, Result, Over
  <2> QED
    BY <2>9, Zenon DEF C!Next
<1> QED
  BY <1>3, <1>4, <1>5, <1>6, <1>7, Zenon DEF Request

\* Whoever completes a future decides the call of the caller that has it, if one has.
LEMMA CompleteStep ==
  ASSUME NEW x, IsOwed(x), NEW how \in {"reply", "ENOTCONN"}, IInv, Ends, Complete(x, how),
         UNCHANGED << status, xid, pc, cur, answered >>,
         how = "ENOTCONN" => status = "CLOSED",
         how = "reply" => x \in answered \/ Dropped(x)
  PROVE  [C!Next]_C!vars
<1>1. /\ fu \in [Xids -> [refs : Int, done : {"no", "reply", "ENOTCONN"}, hits : Nat]] /\ x \in Xids /\ x # 0
  <2>1. x \in 1 .. xid
    BY Zenon DEF IInv, Types, IsOwed
  <2> QED
    BY <2>1, ClientAssumption DEF IInv, Types, Xids
<1>2. fu[x].done = "no"
  BY <1>1 DEF IInv, Once, Ends, Hits
<1>3. fu'[x].done = how /\ \A y \in Xids : y # x => fu'[y] = fu[y]
  BY <1>1 DEF Complete
<1>4. Over' = Over /\ Call' = Call
  BY DEF Over, Call
<1>5. \A c \in Callers : pc[c] = "hold" => cur[c] \in Xids
  BY OwnXid
<1>6. CASE \E c \in Callers : Holds(c, x)
  <2>1. PICK c \in Callers : pc[c] = "hold" /\ cur[c] = x
    BY <1>6 DEF Holds
  <2>2. \A d \in Callers : cur[d] = x => d = c
    BY <1>1, <2>1 DEF IInv, Own
  <2>3. Call[c] = x /\ Result[c] = "no"
    BY <1>2, <2>1 DEF Call, Result
  <2>4. Result' = [Result EXCEPT ![c] = how]
    <3>1. \A d \in Callers : Result'[d] = IF d = c THEN how ELSE Result[d]
      BY <1>3, <1>5, <2>1, <2>2, Zenon DEF Result
    <3> QED
      BY <3>1, Zenon DEF Result
  <2>5. how = "reply" => x \in answered
    BY <2>1 DEF Dropped, Early
  <2>6. C!Decide(c)
    BY <1>1, <1>4, <2>3, <2>4, <2>5, Zenon DEF C!Decide, Call, Result, Over
  <2> QED
    BY <2>6, Zenon DEF C!Next
<1>7. CASE ~\E c \in Callers : Holds(c, x)
  <2>1. \A c \in Callers : pc[c] = "hold" => fu'[cur[c]].done = fu[cur[c]].done
    BY <1>3, <1>5, <1>7 DEF Holds
  <2> QED
    BY <1>4, <2>1, Unseen
<1> QED
  BY <1>6, <1>7

\* Every step of a client that is on its first connection is a step of Calls, or nobody sees it.
LEMMA StepIsCallsStep ==
  ASSUME IInv, Io, First, conn.n <= 1, conn'.n <= 1, [Next]_vars
  PROVE  [C!Next]_C!vars
<1>1. Unborn /\ Ends /\ Shut /\ poll \in Closing
  BY DEF First, Ends, Closing
<1>2. ASSUME NEW c \in Callers, Begin(c) \/ Request(c) \/ Release(c)
      PROVE  [C!Next]_C!vars
  BY <1>1, <1>2, CallerStep
<1>3. ASSUME UNCHANGED << pc, cur, fu, xid, answered >>, status' = "CLOSED" <=> status = "CLOSED"
      PROVE  [C!Next]_C!vars
  <2>1. Over' = Over
    BY <1>3 DEF Over
  <2> QED
    BY <1>3, <2>1, Unseen
<1>4. CASE Connect
  <2>1. status = "NEW"
    <3>1. conn.n \in Nat /\ conn'.n = conn.n + 1
      BY <1>4, ClientAssumption DEF Connect, Io, IoTypes
    <3> QED
      BY <1>1, <3>1 DEF Unborn
  <2> QED
    BY <1>3, <1>4, <2>1 DEF Connect
<1>5. CASE \/ AddMode \/ AddRegister \/ HandleWrite \/ HandleRead \/ Parse \/ ParseStray \/ ParseEnd \/ UNCHANGED vars
           \/ \E p \in Closing : CloseSocket(p) \/ CloseSwap(p)
  <2>1. UNCHANGED << pc, cur, fu, xid, answered, status >>
    BY <1>5, Zenon DEF AddMode, AddRegister, HandleWrite, HandleRead, Parse, ParseStray, ParseEnd, vars, CloseSocket, CloseSwap,
       clientVars, ioVars
  <2> QED
    BY <1>3, <2>1
<1>6. ASSUME NEW p \in Closing, CloseMark(p)
      PROVE  [C!Next]_C!vars
  <2>1. UNCHANGED << pc, cur, fu, xid, answered >> /\ status' = "CLOSED"
    BY <1>6, Zenon DEF CloseMark, ioVars
  <2>2. CASE status = "CLOSED"
    BY <1>3, <2>1, <2>2
  <2>3. CASE status # "CLOSED"
    <3>1. Over' = Over /\ Call' = Call /\ Result' = Result
      BY <2>1 DEF Over, Call, Result
    <3>2. C!GoDown
      BY <2>1, <2>3, <3>1, Zenon DEF C!GoDown, Call, Result, Over
    <3> QED
      BY <3>2, Zenon DEF C!Next
  <2> QED
    BY <2>2, <2>3
<1>7. ASSUME NEW p \in Closing, CloseNotify(p)
      PROVE  [C!Next]_C!vars
  <2>1. UNCHANGED << pc, cur, xid, answered, status >> /\ hp[p] = "notify"
    BY <1>7, Zenon DEF CloseNotify, ioVars
  <2>2. CASE fu' = fu
    BY <1>3, <2>1, <2>2
  <2>3. ASSUME NEW x \in job[p], Complete(x, "ENOTCONN")
        PROVE  [C!Next]_C!vars
    <3>1. IsOwed(x) /\ status = "CLOSED"
      BY <1>1, <2>1 DEF IsOwed, Shut
    <3> QED
      BY <1>1, <2>1, <2>3, <3>1, CompleteStep
  <2> QED
    BY <1>7, <2>2, <2>3, Zenon DEF CloseNotify
<1>8. CASE ParseNotify
  <2>1. UNCHANGED << pc, cur, xid, answered, status >> /\ hp[poll] = "parse"
    BY <1>8, Zenon DEF ParseNotify, ioVars
  <2>2. PICK x \in job[poll] : Complete(x, "reply")
    BY <1>8, Zenon DEF ParseNotify
  <2>3. IsOwed(x) /\ Claimed(x) /\ x \in 1 .. xid
    BY <1>1, <2>1 DEF IsOwed, Claimed, IInv, Types
  <2>4. x \in answered \/ Dropped(x)
    BY <1>1, <2>3 DEF Ends, Fate
  <2> QED
    BY <1>1, <2>1, <2>2, <2>3, <2>4, CompleteStep
<1>9. ASSUME NEW x \in Xids, Answer(x)
      PROVE  [C!Next]_C!vars
  <2>1. /\ conn.open /\ x \notin answered /\ Received(x) /\ answered' = answered \cup {x}
        /\ UNCHANGED << status, xid, fu, pc, cur >>
    BY <1>9, Zenon DEF Answer, Received, clientVars
  <2>2. status # "CLOSED"
    BY <1>1, <2>1 DEF Shut
  <2>3. x \in 1 .. xid /\ \A c \in Callers : cur[c] = x => pc[c] = "hold"
    BY <1>1, <2>1 DEF Ends, Sent, IInv, Types, Xids
  <2>4. fu[x].done = "no"
    <3>1. fu[x].done \in {"no", "reply", "ENOTCONN"}
      BY DEF IInv, Types
    <3>2. fu[x].done # "reply"
      BY <1>1, <2>1, <2>2, <2>3 DEF Ends, Fate, Claimed, Dropped
    <3>3. fu[x].done # "ENOTCONN"
      BY <1>1, <2>2 DEF Ends, Taken, Withdrawn
    <3> QED
      BY <3>1, <3>2, <3>3
  <2>5. \E c \in Callers : Call[c] = x
    BY <1>1, <2>2, <2>3, <2>4 DEF Ends, Owned, Call
  <2>6. Over' = Over /\ Call' = Call /\ Result' = Result
    BY <2>1 DEF Over, Call, Result
  <2>7. C!Answer(x)
    BY <2>1, <2>5, <2>6, Zenon DEF C!Answer, Call, Result, Over
  <2> QED
    BY <2>7, Zenon DEF C!Next
<1> QED
  BY <1>2, <1>4, <1>5, <1>6, <1>7, <1>8, <1>9, Zenon DEF Next, Read, Close

\* A client that is connected once implements Calls: a future that was returned is decided once,
\* by the reply to its own request or because the client was closed.
THEOREM Implements ==
  ASSUME MaxConnects <= 1
  PROVE  Spec => IsCalls
<1>1. Init => C!Init
  BY DEF Init, C!Init
<1>2. IInv /\ Io /\ First /\ IInv' /\ Io' /\ [Next]_vars => [C!Next]_C!vars
  <2> SUFFICES ASSUME IInv, Io, First, Io', [Next]_vars PROVE [C!Next]_C!vars
    OBVIOUS
  <2>1. conn.n <= 1 /\ conn'.n <= 1
    BY ClientAssumption DEF Io, IoTypes
  <2> QED
    BY <2>1, StepIsCallsStep
<1> QED
  BY <1>1, <1>2, FirstHolds, PTL DEF Spec, IsCalls, C!Spec

-----------------------------------------------------------------------------
(* Counting: who closes the socket, who holds a reference *)

\* close() closes the socket once for each thread that found the client connected.
Marking == {p \in Closing : hp[p] = "mark"}
Closes ==
    /\ status = "CONNECTED" => conn.closes <= Cardinality(Marking)
    /\ status # "CONNECTED" => conn.closes <= Cardinality(Closing)

\* What is used of the number of closing threads.
Tally ==
    /\ Cardinality(Closing) \in Nat /\ Cardinality(Marking) \in Nat /\ Cardinality(Marking) <= Cardinality(Closing)
    /\ \A p : p \notin Marking => Cardinality(Marking \cup {p}) = Cardinality(Marking) + 1

\* A step that starts or ends no close(), and no connection, closes no socket.
LEMMA ClosesStays ==
  ASSUME Closes, status' = status, conn'.closes = conn.closes,
         \A p \in Closing : hp'[p] = "mark" <=> hp[p] = "mark"
  PROVE  Closes'
<1>1. Marking' = Marking
  BY DEF Marking
<1> QED
  BY <1>1 DEF Closes

\* Every step closes the socket at most once for each thread that is past its test of status_.
LEMMA ClosesKept ==
  ASSUME IInv, Io, Closes, Tally, [Next]_vars
  PROVE  Closes'
<1>0. /\ Closes /\ hp \in [Closing -> {"idle", "mark", "swap", "notify", "parse"}]
      /\ conn \in [n : 0 .. MaxConnects, add : {"no", "mode", "read", "write", "done"}, open : BOOLEAN, closes : Nat]
      /\ conn.closes \in Nat
  BY DEF IInv, Types, Io, IoTypes
<1>1. ASSUME NEW p \in Closing, CloseSocket(p)
      PROVE  Closes'
  <2>1. hp[p] = "idle" /\ hp' = [hp EXCEPT ![p] = "mark"] /\ status' = status
    BY <1>1 DEF CloseSocket, Enter
  <2>2. CASE status = "CONNECTED"
    <3>1. conn'.closes = conn.closes + 1
      <4>1. conn' = [conn EXCEPT !.open = FALSE, !.closes = @ + 1]
        BY <1>1, <2>2 DEF CloseSocket
      <4> QED
        BY <1>0, <4>1
    <3>2. Marking' = Marking \cup {p} /\ p \notin Marking
      BY <1>0, <2>1 DEF Marking
    <3>3. Cardinality(Marking') = Cardinality(Marking) + 1
      BY <3>2, Zenon DEF Tally
    <3>4. Cardinality(Marking)' = Cardinality(Marking) + 1
      BY <3>3
    <3> QED
      <4>1. Cardinality(Marking) \in Nat
        BY Zenon DEF Tally
      <4> QED
        <5>1. conn.closes \in Nat /\ conn.closes <= Cardinality(Marking)
          BY <1>0, <2>2, Zenon DEF Closes
        <5>2. conn'.closes <= Cardinality(Marking)'
          BY <3>1, <3>4, <4>1, <5>1
        <5> QED
          BY <2>1, <2>2, <5>2, Zenon DEF Closes
  <2>3. CASE status # "CONNECTED"
    <3>1. conn' = conn
      BY <1>1, <2>3 DEF CloseSocket
    <3>2. Cardinality(Closing)' = Cardinality(Closing)
      BY DEF Closing
    <3> QED
      BY <2>1, <2>3, <3>1, <3>2 DEF Closes
  <2> QED
    BY <2>2, <2>3
<1>2. ASSUME NEW p \in Closing, CloseMark(p)
      PROVE  Closes'
  BY <1>0, <1>2 DEF CloseMark, Closes, Tally
<1>3. CASE Connect
  <2>1. conn'.closes = 0 /\ hp' = hp /\ status' = "CONNECTED"
    BY <1>3 DEF Connect
  <2>2. Marking' = Marking
    BY <2>1 DEF Marking
  <2> QED
    <3>1. Cardinality(Marking)' = Cardinality(Marking) /\ Cardinality(Marking) \in Nat
      BY <2>2, Zenon DEF Tally
    <3>2. conn'.closes <= Cardinality(Marking)'
      BY <2>1, <3>1
    <3> QED
      BY <2>1, <3>2 DEF Closes
<1>4. ASSUME status' = status, conn'.closes = conn.closes, hp' = hp
      PROVE  Closes'
  BY <1>4, ClosesStays, Zenon
<1>5. ASSUME NEW p \in Closing, CloseSwap(p) \/ CloseNotify(p) \/ HandleRead \/ ParseEnd
      PROVE  Closes'
  <2>1. UNCHANGED << status, conn >>
    BY <1>5, Zenon DEF CloseSwap, CloseNotify, HandleRead, ParseEnd, clientVars
  <2>2. poll \in Closing
    BY DEF Closing
  <2>3. \/ hp' = hp
        \/ \E q \in Closing, l \in {"notify", "idle", "parse"} : hp[q] # "mark" /\ hp' = [hp EXCEPT ![q] = l]
    <3>1. CASE CloseSwap(p) \/ CloseNotify(p)
      BY <3>1 DEF CloseSwap, CloseNotify, Enter
    <3>2. CASE HandleRead \/ ParseEnd
      BY <2>2, <3>2 DEF HandleRead, ParseEnd, Enter
    <3> QED
      BY <1>5, <3>1, <3>2, Zenon
  <2>4. \A q \in Closing : hp'[q] = "mark" <=> hp[q] = "mark"
    BY <1>0, <2>3
  <2> QED
    <3>1. status' = status /\ conn'.closes = conn.closes
      BY <2>1, Zenon
    <3> QED
      BY <2>4, <3>1, ClosesStays, Zenon
<1>6. CASE AddMode \/ AddRegister
  <2>1. status' = status /\ conn'.closes = conn.closes /\ hp' = hp
    BY <1>0, <1>6 DEF AddMode, AddRegister
  <2> QED
    BY <1>4, <2>1
<1>7. ASSUME NEW c \in Callers, Begin(c) \/ Request(c) \/ Release(c)
      PROVE  Closes'
  BY <1>4, <1>7, Zenon DEF Begin, Request, Release, Insert, Recheck, Undo, Mark, Put, RefCopy, End, clientVars
<1>8. CASE HandleWrite \/ Parse \/ ParseNotify \/ ParseStray \/ \E x \in Xids : Answer(x)
  BY <1>4, <1>8, Zenon DEF HandleWrite, Parse, ParseNotify, ParseStray, Answer, clientVars
<1>9. CASE UNCHANGED vars
  BY <1>4, <1>9 DEF vars, clientVars
<1> QED
  <2>1. poll \in Closing
    BY DEF Closing
  <2>2. ASSUME NEW p \in Closing, CloseSocket(p) \/ Close(p) PROVE Closes'
    <3>1. CloseSocket(p) \/ CloseMark(p) \/ CloseSwap(p) \/ CloseNotify(p)
      BY <2>2, Zenon DEF Close
    <3> QED
      BY <1>1, <1>2, <1>5, <3>1, Zenon
  <2>3. CASE HandleRead \/ Read
    <3>1. HandleRead \/ Parse \/ ParseNotify \/ ParseStray \/ ParseEnd
      BY <2>3, Zenon DEF Read
    <3> QED
      BY <1>5, <1>8, <2>1, <3>1, Zenon
  <2>4. \/ Connect \/ (AddMode \/ AddRegister) \/ (\E c \in Callers : Begin(c) \/ Request(c) \/ Release(c))
        \/ (\E p \in Closing : CloseSocket(p) \/ Close(p)) \/ HandleWrite \/ (HandleRead \/ Read)
        \/ (\E x \in Xids : Answer(x)) \/ UNCHANGED vars
    BY Zenon DEF Next
  <2>5. ASSUME Connect \/ (AddMode \/ AddRegister) \/ UNCHANGED vars PROVE Closes'
    BY <1>3, <1>6, <1>9, <2>5, Zenon
  <2>6. ASSUME HandleWrite \/ (HandleRead \/ Read) \/ (\E x \in Xids : Answer(x)) PROVE Closes'
    BY <1>8, <2>3, <2>6, Zenon
  <2>7. ASSUME (\E c \in Callers : Begin(c) \/ Request(c) \/ Release(c)) \/ (\E p \in Closing : CloseSocket(p) \/ Close(p))
        PROVE  Closes'
    BY <1>7, <2>2, <2>7, Zenon
  <2> QED
    BY <2>4, <2>5, <2>6, <2>7, Zenon

\* A new client has closed nothing.
LEMMA InitCloses == ASSUME Init, Tally PROVE IInv /\ Io /\ Closes
<1>1. conn.closes = 0 /\ Cardinality(Marking) \in Nat /\ Cardinality(Closing) \in Nat
  BY DEF Init, Tally
<1>2. Closes
  BY <1>1 DEF Closes
<1> QED
  BY <1>2, InitIInv, InitIo, Zenon

\* The invariants bound every variable.
LEMMA TypesCover == ASSUME IInv, Io, Closes, Tally PROVE TypeOK
<1>1. xid \in 0 .. MaxXid /\ 0 .. xid \subseteq Xids \cup {0} /\ 1 .. xid \subseteq Xids
  BY ClientAssumption DEF IInv, Types, Xids
<1>2. pending \subseteq Xids /\ cur \in [Callers -> Xids \cup {0}] /\ job \in [Closing -> SUBSET Xids]
  BY <1>1 DEF IInv, Types
<1>3. fu \in [Xids -> [refs : 0 .. 2, done : {"no", "reply", "ENOTCONN"}, hits : Nat]]
  BY DEF IInv, Types, Counted
<1>4. conn \in [n : 0 .. MaxConnects, add : {"no", "mode", "read", "write", "done"},
                open : BOOLEAN, closes : 0 .. Cardinality(Closing)]
  <2>1. conn.closes \in 0 .. Cardinality(Closing)
    BY DEF Io, IoTypes, Closes, Tally
  <2>2. conn \in [n : 0 .. MaxConnects, add : {"no", "mode", "read", "write", "done"}, open : BOOLEAN, closes : Nat]
    BY DEF Io, IoTypes
  <2> QED
    BY <2>1, <2>2, Zenon
<1>5. Types /\ IoTypes
  BY Zenon DEF IInv, Io
<1> QED
  BY <1>1, <1>2, <1>3, <1>4, <1>5, Zenon DEF Types, IoTypes, TypeOK, Places

\* On the first connection, what is on the wire is whole.
LEMMA FirstWhole == ASSUME First, TypeOK, conn.n <= 1 PROVE RequestsWhole
<1> SUFFICES ASSUME NEW i \in 1 .. Len(wire)
             PROVE  CASE i % 4 = 1 -> wire[i] = [k |-> "size", v |-> 3]
                      [] i % 4 = 2 -> wire[i].k = "xid"
                      [] i % 4 = 3 -> wire[i] = [k |-> "rpc", v |-> wire[i - 1].v]
                      [] i % 4 = 0 -> wire[i] = [k |-> "arg", v |-> wire[i - 1].v]
  BY Zenon DEF RequestsWhole
<1>1. /\ i % 4 = 1 => wire[i] = [k |-> "size", v |-> 3]
      /\ i % 4 = 2 => wire[i].k = "xid"
      /\ i % 4 = 3 => wire[i] = [k |-> "rpc", v |-> wire[i - 1].v]
      /\ i % 4 = 0 => wire[i] = [k |-> "arg", v |-> wire[i - 1].v]
  BY Zenon DEF First, Framing, WireWhole
<1>2. i % 4 \in {0, 1, 2, 3}
  BY DEF TypeOK
<1> QED
  BY <1>1, <1>2, Zenon

\* A caller that was given a future holds it alone, and the count says so.
LEMMA HeldOnce ==
  ASSUME IInv, NEW x \in Xids
  PROVE  \/ (\E c : HeldBy(x) = {c}) /\ fu[x].refs = (IF x \in Owed THEN 1 ELSE 0) + 1
         \/ HeldBy(x) = {} /\ fu[x].refs = (IF x \in Owed THEN 1 ELSE 0) + 0
<1>1. x \in Owed <=> IsOwed(x)
  BY DEF Owed, IsOwed
<1>2. CASE IsGiven(x)
  <2>1. PICK c \in Callers : cur[c] = x /\ pc[c] \in Given
    BY <1>2 DEF IsGiven
  <2>2. x # 0
    BY ClientAssumption DEF Xids
  <2>3. HeldBy(x) = {c}
    BY <2>1, <2>2 DEF IInv, Own, HeldBy, Given
  <2>4. fu[x].refs = (IF x \in Owed THEN 1 ELSE 0) + 1
    BY <1>1, <1>2 DEF IInv, Counted
  <2> QED
    BY <2>3, <2>4, Zenon
<1>3. CASE ~IsGiven(x)
  <2>1. HeldBy(x) = {}
    BY <1>3 DEF IsGiven, HeldBy, Given
  <2>2. fu[x].refs = (IF x \in Owed THEN 1 ELSE 0) + 0
    BY <1>1, <1>3 DEF IInv, Counted
  <2> QED
    BY <2>1, <2>2, Zenon
<1> QED
  BY <1>2, <1>3, Zenon

-----------------------------------------------------------------------------
(* The theorems that count *)

INSTANCE FiniteSetTheorems

\* The threads that may close the client are counted.
LEMMA ClosingCounted == Tally
<1>1. IsFiniteSet(Closing)
  BY ClientAssumption, FS_AddElement DEF Closing
<1>2. Marking \subseteq Closing
  BY DEF Marking
<1>3. IsFiniteSet(Marking) /\ Cardinality(Marking) <= Cardinality(Closing)
  BY <1>1, <1>2, FS_Subset, Zenon
<1>4. Cardinality(Closing) \in Nat /\ Cardinality(Marking) \in Nat
  BY <1>1, <1>3, FS_CardinalityType, Zenon
<1>5. ASSUME NEW p, p \notin Marking PROVE Cardinality(Marking \cup {p}) = Cardinality(Marking) + 1
  BY <1>3, <1>5, FS_AddElement, Zenon
<1> QED
  BY <1>3, <1>4, <1>5, Zenon DEF Tally

\* Every variable stays within its type, however often the client is connected and closed.
THEOREM AlwaysTyped == Spec => []TypeOK
<1>1. Init => IInv /\ Io /\ Closes
  BY InitCloses, ClosingCounted, Zenon
<1>2. IInv /\ Io /\ Closes /\ [Next]_vars => IInv' /\ Io' /\ Closes'
  BY NextIInv, NextIo, ClosesKept, ClosingCounted
<1>3. IInv /\ Io /\ Closes => TypeOK
  BY TypesCover, ClosingCounted
<1> QED
  BY <1>1, <1>2, <1>3, PTL DEF Spec

\* On its first connection the client sends whole requests only: whenever and by whomever it
\* is closed, the server reads size, xid, rpc id and arguments of one request after another.
THEOREM FirstRequestsWhole == Spec => [](conn.n <= 1 => RequestsWhole)
<1>1. First /\ TypeOK => (conn.n <= 1 => RequestsWhole)
  BY FirstWhole
<1> QED
  BY <1>1, FirstHolds, AlwaysTyped, PTL

\* A client that is connected at most once sends whole requests only.
THEOREM AlwaysWhole ==
  ASSUME MaxConnects <= 1
  PROVE  Spec => []RequestsWhole
<1>1. TypeOK => conn.n <= 1
  BY ClientAssumption DEF TypeOK
<1> QED
  BY <1>1, AlwaysTyped, FirstRequestsWhole, PTL

\* The reference count of a future is the number of those who will release it.
THEOREM RefsMatch == Spec => []RefsMatchHolders
<1>1. IInv => RefsMatchHolders
  <2> SUFFICES ASSUME IInv, NEW x \in Xids
               PROVE  fu[x].refs = (IF x \in Owed THEN 1 ELSE 0) + Cardinality(HeldBy(x))
    BY DEF RefsMatchHolders
  <2>1. Cardinality({}) = 0 /\ \A c : Cardinality({c}) = 1
    BY FS_EmptySet, FS_Singleton, Zenon
  <2> QED
    BY <2>1, HeldOnce, Zenon
<1> QED
  BY Inductive, <1>1, PTL
=============================================================================
