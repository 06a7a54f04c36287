--------------------------- MODULE TcpServerProofs ---------------------------
(***************************************************************************)
(* RepliesWhole, AnsweredOnce and RefsMatchHolders of TcpServer hold for any *)
(* number of connections, worker threads, requests and services.           *)
(***************************************************************************)
EXTENDS TcpServerInv

\* A step that names no prover is left to SMT, if need be twice, and then to Zenon.
USE SMTT(10), SMTT(30), Zenon, SMTT(40), SMTT(60)

\* Where the answers are, when only the stream of k grows.
LEMMA StreamAnswers ==
  ASSUME NEW k \in Conns, NEW z, z = stream'[k], IInv, UNCHANGED << handlers, rpc, dp, jobs, cur >>,
         \A t \in Threads : pc'[t] = "begin" => pc[t] = "begin",
         \A l \in Conns : l # k => stream'[l] = stream[l],
         \A a \in 1 .. Len(z) : z[a].u = "xid" => Coded(k, a)' /\ Done(k, z[a].v)'
  PROVE  Answers'
<1>1. ASSUME NEW l \in Conns, NEW a \in 1 .. Len(stream[l]), stream[l][a].u = "xid", l # k, NEW i, i = stream[l][a].v
      PROVE  Coded(l, a)' /\ Done(l, i)'
  <2>1. Coded(l, a) /\ Done(l, i) /\ stream'[l] = stream[l]
    BY <1>1, AnswerTypes
  <2>2. \A id : CodeOf(id)' = CodeOf(id)
    BY DEF CodeOf
  <2>3. Done(l, i)'
    BY <2>1 DEF Done
  <2>4. Coded(l, a)'
    BY <2>1, <2>2, Zenon DEF Coded
  <2> QED
    BY <2>3, <2>4
<1>2. ASSUME NEW l \in Conns, NEW a \in 1 .. Len(stream'[l]), stream'[l][a].u = "xid", NEW i, i = stream'[l][a].v
      PROVE  Coded(l, a)' /\ Done(l, i)'
  <2>1. CASE l = k
    BY <1>2, <2>1
  <2>2. CASE l # k
    BY <1>1, <1>2, <2>2
  <2> QED
    BY <2>1, <2>2
<1> QED
  BY <1>2 DEF Answers

\* begin_reply takes out_l_ and puts a header behind whole replies.
LEMMA BeginReplyKeeps ==
  ASSUME NEW t \in Threads, NEW c, c = cur[t], NEW k, k = c.k, NEW s, s = stream[k], NEW n, n = Len(s), IInv, BeginReply(t)
  PROVE  IInv'
<1> DEFINE h == Header(c)
           p == IF c.code = "0" THEN "ret" ELSE "end"
           z == s \o h
<1>1. /\ pc[t] = "begin" /\ out_l[k] = none /\ out_l' = [out_l EXCEPT ![k] = t]
      /\ stream' = [stream EXCEPT ![k] = z] /\ pc' = [pc EXCEPT ![t] = p]
      /\ UNCHANGED << serverVars, refs, inVars, dp, jobs, w, writing, cur >>
  BY DEF BeginReply, K, Put, Goto
<1>2. c # none /\ k \in Conns /\ c.i \in Xids /\ c.code \in Codes /\ s \in Seq(Unit) /\ n \in Nat /\ t # none
  <2>1. c # none
    BY <1>1, HasCall, Zenon
  <2>2. k \in Conns /\ c.i \in Xids /\ c.code \in Codes
    BY <2>1, CallTypes DEF IInv
  <2>3. s \in Seq(Unit)
    BY <2>2 DEF IInv, Typed
  <2> QED
    BY <2>1, <2>2, <2>3, ServerAssumption DEF Threads
<1>3. /\ h \in Seq(Unit) /\ Len(h) = 3 /\ h[1] = [u |-> "size", v |-> 0]
      /\ h[2] = [u |-> "xid", v |-> c.i] /\ h[3] = [u |-> "code", v |-> c.code]
  <2>1. [u |-> "size", v |-> 0] \in Unit /\ [u |-> "xid", v |-> c.i] \in Unit /\ [u |-> "code", v |-> c.code] \in Unit
    BY <1>2 DEF Unit
  <2> QED
    BY <2>1 DEF Header
<1> HIDE DEF h
<1>4. z \in Seq(Unit) /\ Len(z) = n + 3 /\ (\A a \in 1 .. n : z[a] = s[a])
      /\ z[n + 1] = h[1] /\ z[n + 2] = h[2] /\ z[n + 3] = h[3]
  <2> HIDE DEF z
  <2>1. z = s \o h
    BY DEF z
  <2> QED
    <3>1. Joined(s, h, n, z)
      BY <1>2, <1>3, <2>1, Zenon DEF Joined
    <3>2. Longer(s, h, n, z)
      BY <3>1, Appended
    <3> QED
      BY <3>2, Zenon DEF Longer
<1>5. z[n + 1].u = "size" /\ z[n + 2] = [u |-> "xid", v |-> c.i] /\ z[n + 3] = [u |-> "code", v |-> c.code]
  <2> HIDE DEF z
  <2> QED
    BY <1>3, <1>4
<1>6. w[k] <= n /\ \A a \in 1 .. n : Fits(z, a)
  <2>1. w[k] <= n /\ \A a \in 1 .. n : Fits(s, a)
    <3>1. Mark(k) = n
      BY <1>1, Zenon DEF Mark
    <3> QED
      BY <1>2, <3>1 DEF IInv, Whole
  <2> QED
    BY <1>2, <1>3, <2>1, FitsAppend
<1> HIDE DEF z
<1>7. Typed'
  BY <1>1, <1>2, <1>4, Zenon DEF IInv, Typed, serverVars, inVars
<1>8. stream'[k] = z /\ out_l'[k] = t /\ \A u \in Threads : pc'[u] = IF u = t THEN p ELSE pc[u]
  BY <1>1, <1>2 DEF IInv, Typed
<1>9. Flow'
  BY <1>1, Zenon DEF IInv, Flow, serverVars, inVars
<1>10. Calls'
  <2>1. \A u \in Threads : pc'[u] = "idle" <=> pc[u] = "idle"
    BY <1>1, <1>8
  <2> QED
    BY <1>1, <2>1, CallsKeep, Zenon DEF serverVars, inVars
<1>11. Mark(k)' = n /\ Length(t)' = 3
  <2>1. Length(t)' = 3
    BY <1>1, <1>8 DEF Length
  <2>2. Mark(k)' = Len(stream'[k]) - Length(t)'
    BY <1>2, <1>8 DEF Mark
  <2>3. Len(stream'[k]) = n + 3
    BY <1>4, <1>8, Zenon
  <2> QED
    BY <1>2, <2>1, <2>2, <2>3
<1>12. Locks' /\ Tails' /\ Whole'
  <2>1. w[k] <= Mark(k)' /\ \A a \in 1 .. Mark(k)' : Fits(stream'[k], a)
    BY <1>6, <1>8, <1>11
  <2>2. Mark(k)' >= 0 /\ Open(stream'[k], Mark(k)', cur[t])
    <3>1. Open(z, n, c)
      BY <1>2, <1>5, Zenon DEF Open
    <3> QED
      BY <1>2, <1>8, <1>11, <3>1
  <2>3. p \in {"ret", "end", "clean"} /\ p # "clean" /\ (p = "ret" => cur[t].code = "0")
    OBVIOUS
  <2> HIDE DEF p
  <2>4. \A l \in Conns : out_l'[l] = IF l # k THEN out_l[l] ELSE IF p = "clean" THEN none ELSE t
    BY <1>1, <2>3 DEF IInv, Typed
  <2>5. \A l \in Conns : l # k => stream'[l] = stream[l]
    BY <1>1 DEF IInv, Typed
  <2>6. cur[t] # none /\ cur' = cur /\ w' = w /\ pc' = [pc EXCEPT ![t] = p] /\ out_l[k] \in {none, t} /\ k = cur[t].k
    BY <1>1, <1>2
  <2>7. Length(t)' # 4
    BY <1>11
  <2>8. Writes(t, k, p)
    BY <2>1, <2>2, <2>3, <2>4, <2>5, <2>6, <2>7, ZenonT(30) DEF Writes
  <2> QED
    BY <1>7, <2>8, WriterKeeps
<1>13. Done(k, c.i)'
  <2>1. c.i <= dp[k] /\ << k, c.i >> \notin jobs
    BY <1>2 DEF IInv, Calls
  <2>2. ASSUME NEW u \in Threads, pc'[u] = "begin", cur[u].k = k PROVE c.i # cur[u].i
    <3>1. u # t /\ cur[u] # none
      BY <1>8, <2>2 DEF IInv, Calls
    <3> QED
      BY <1>2, <2>2, <3>1 DEF IInv, Calls
  <2> QED
    BY <1>1, <2>1, <2>2, Zenon DEF Done
<1> DEFINE f == [x \in Xids |-> CodeOf(rpc[k][x])]
           D == {x \in Xids : Done(k, x)'}
<1>14. ASSUME NEW a \in 1 .. n, s[a].u = "xid"
       PROVE  /\ a + 1 \in 1 .. n /\ s[a + 1] = [u |-> "code", v |-> f[s[a].v]]
              /\ s[a].v \in D /\ s[a].v # c.i
              /\ \A b \in 1 .. n : s[b].u = "xid" /\ s[b].v = s[a].v => a = b
  <2>1. PICK i : i = s[a].v
    OBVIOUS
  <2>2. Coded(k, a) /\ Done(k, i) /\ i \in Xids
    <3>1. a \in 1 .. Len(stream[k]) /\ stream[k][a].u = "xid" /\ stream[k][a].v = i
      BY <1>14, <2>1, Zenon
    <3> QED
      BY <1>2, <3>1, AnswerTypes, Zenon
  <2>3. Done(k, i)' /\ i # c.i
    BY <1>1, <1>8, <2>2, Zenon DEF Done
  <2>4. a < n /\ s[a + 1] = [u |-> "code", v |-> CodeOf(rpc[k][i])]
    BY <2>1, <2>2, Zenon DEF Coded
  <2>5. a + 1 \in 1 .. n
    BY <1>2, <2>4
  <2>6. \A b \in 1 .. n : s[b].u = "xid" /\ s[b].v = i => a = b
    BY <2>1, <2>2, Zenon DEF Coded
  <2>7. f[i] = CodeOf(rpc[k][i]) /\ i \in D
    BY <2>2, <2>3
  <2> HIDE DEF f, D
  <2> QED
    BY <2>1, <2>3, <2>4, <2>5, <2>6, <2>7, Zenon
<1>15. \A id : CodeOf(id)' = CodeOf(id)
  BY <1>1 DEF CodeOf, serverVars
<1>16. f[c.i] = c.code /\ c.i \in D
  BY <1>2, <1>13, Zenon DEF IInv, Calls
<1>17. ASSUME NEW a \in 1 .. n + 3, z[a].u = "xid"
       PROVE  /\ a < n + 3 /\ z[a + 1] = [u |-> "code", v |-> f[z[a].v]] /\ z[a].v \in D
              /\ \A b \in 1 .. n + 3 : z[b].u = "xid" /\ z[b].v = z[a].v => a = b
  <2> HIDE DEF f, D
  <2>1. z[n + 3] = [u |-> "code", v |-> f[c.i]]
    BY <1>5, <1>16
  <2>2. \A b \in 1 .. n : z[b] = s[b]
    BY <1>4
  <2> QED
    <3>1. Heads(n, s, z, c.i, f, D)
      BY <1>2, <1>4, <1>5, <1>14, <1>16, <2>1, <2>2, ZenonT(30) DEF Heads
    <3>2. Headed(n, z, f, D)
      BY <3>1, HeaderAnswers
    <3> QED
      BY <1>17, <3>2, Zenon DEF Headed
<1>18. Answers'
  <2>1. ASSUME NEW a \in 1 .. Len(z), z[a].u = "xid" PROVE Coded(k, a)' /\ Done(k, z[a].v)'
    <3>1. PICK i : i = z[a].v
      OBVIOUS
    <3>2. /\ a < Len(z) /\ z[a + 1] = [u |-> "code", v |-> f[i]] /\ i \in D
          /\ \A b \in 1 .. Len(z) : z[b].u = "xid" /\ z[b].v = i => a = b
      <4> HIDE DEF f, D
      <4>1. a \in 1 .. n + 3 /\ 1 .. Len(z) = 1 .. n + 3 /\ Len(z) = n + 3
        BY <1>4, Zenon
      <4> QED
        BY <1>17, <2>1, <3>1, <4>1, Zenon
    <3>3. f[i] = CodeOf(rpc[k][i])' /\ Done(k, i)'
      BY <1>1, <1>15, <3>2 DEF inVars
    <3> HIDE DEF f, D
    <3> QED
      BY <1>8, <3>1, <3>2, <3>3, Zenon DEF Coded
  <2>2. \A l \in Conns : l # k => stream'[l] = stream[l]
    BY <1>1 DEF IInv, Typed
  <2>3. \A u \in Threads : pc'[u] = "begin" => pc[u] = "begin"
    BY <1>8
  <2> QED
    <3>1. UNCHANGED << handlers, rpc, dp, jobs, cur >>
      BY <1>1 DEF serverVars, inVars
    <3>2. z = stream'[k]
      BY <1>8, Zenon
    <3> QED
      BY <1>2, <2>1, <2>2, <2>3, <3>1, <3>2, StreamAnswers, Zenon
<1> QED
  BY <1>1, <1>7, <1>9, <1>10, <1>12, <1>18 DEF IInv, serverVars

\* Answers stay when one stream keeps its xids and codes.
LEMMA KeptAnswers ==
  ASSUME NEW k \in Conns, NEW s, s = stream[k], NEW z, z = stream'[k], Kept(s, z), IInv,
         UNCHANGED << handlers, rpc, dp, jobs, cur >>,
         \A t \in Threads : pc'[t] = "begin" => pc[t] = "begin",
         \A l \in Conns : l # k => stream'[l] = stream[l]
  PROVE  Answers'
<1>1. ASSUME NEW a \in 1 .. Len(z), z[a].u = "xid" PROVE Coded(k, a)' /\ Done(k, z[a].v)'
  <2>1. a \in 1 .. Len(s) /\ z[a] = s[a] /\ s[a].u = "xid"
    BY <1>1 DEF Kept
  <2>2. PICK i : i = s[a].v
    OBVIOUS
  <2>3. Coded(k, a) /\ Done(k, i)
    BY <2>1, <2>2, AnswerTypes
  <2>4. a < Len(s) /\ s[a + 1] = [u |-> "code", v |-> CodeOf(rpc[k][i])]
    BY <2>2, <2>3 DEF Coded
  <2>5. \A b \in 1 .. Len(s) : s[b].u = "xid" /\ s[b].v = i => a = b
    BY <2>2, <2>3 DEF Coded
  <2>6. a < Len(z) /\ a + 1 \in 1 .. Len(s)
    BY <2>1, <2>4 DEF Kept
  <2>7. z[a + 1] = s[a + 1]
    BY <2>4, <2>6 DEF Kept
  <2>8. \A b \in 1 .. Len(z) : z[b].u = "xid" /\ z[b].v = i => a = b
    BY <2>5 DEF Kept
  <2>9. CodeOf(rpc[k][i])' = CodeOf(rpc[k][i])
    BY DEF CodeOf
  <2>10. Done(k, i)'
    BY <2>3 DEF Done
  <2>11. Coded(k, a)'
    BY <2>1, <2>2, <2>4, <2>6, <2>7, <2>8, <2>9, Zenon DEF Coded
  <2> QED
    BY <2>1, <2>2, <2>10, <2>11
<1> QED
  BY <1>1, StreamAnswers

\* The result is put behind the header of the reply, which stays open.
LEMMA MarshalReplyKeeps ==
  ASSUME NEW t \in Threads, NEW c, c = cur[t], NEW k, k = c.k, NEW s, s = stream[k], NEW n, n = Len(s), IInv, MarshalReply(t)
  PROVE  IInv'
<1> DEFINE e == [u |-> "ret", v |-> c.i]
           h == << e >>
           z == s \o h
<1>1. /\ pc[t] = "ret" /\ stream' = [stream EXCEPT ![k] = z] /\ pc' = [pc EXCEPT ![t] = "end"]
      /\ UNCHANGED << serverVars, refs, inVars, dp, jobs, w, out_l, writing, cur >>
  BY DEF MarshalReply, K, Put, Goto
<1>2. c # none /\ k \in Conns /\ c.i \in Xids /\ s \in Seq(Unit) /\ n \in Nat /\ t # none
  <2>1. c # none
    BY <1>1, HasCall, Zenon
  <2>2. k \in Conns /\ c.i \in Xids
    BY <2>1, CallTypes DEF IInv
  <2>3. s \in Seq(Unit)
    BY <2>2 DEF IInv, Typed
  <2> QED
    BY <2>1, <2>2, <2>3, ServerAssumption DEF Threads
<1>3. out_l[k] = t /\ c.code = "0" /\ Mark(k) = n - 3 /\ n >= 3 /\ Open(s, n - 3, c)
  <2>1. out_l[k] = t /\ c.code = "0" /\ Mark(k) >= 0 /\ Open(s, Mark(k), c)
    BY <1>1, Zenon DEF IInv, Locks, Tails
  <2>2. Mark(k) = n - 3
    BY <1>1, <1>2, <2>1, Zenon DEF Mark, Length
  <2> QED
    BY <1>2, <2>1, <2>2
<1>4. e \in Unit
  BY <1>2 DEF Unit
<1>5. /\ h \in Seq(Unit) /\ z \in Seq(Unit) /\ Len(z) = n + 1
      /\ (\A a \in 1 .. n : z[a] = s[a]) /\ z[n + 1] = e
  <2>1. One(s, e, n, z)
    BY <1>2, <1>4 DEF One
  <2> HIDE DEF e
  <2>2. Grown(s, e, n, z)
    BY <2>1, OneMore
  <2> QED
    BY <2>2, Zenon DEF Grown
<1>6. w[k] <= n - 3 /\ \A a \in 1 .. n - 3 : Fits(z, a)
  <2>1. w[k] <= n - 3 /\ \A a \in 1 .. n - 3 : Fits(s, a)
    BY <1>2, <1>3 DEF IInv, Whole
  <2>2. \A a \in 1 .. n - 3 : a \in 1 .. n
    BY <1>2
  <2> HIDE DEF h
  <2>3. ASSUME NEW a \in 1 .. n - 3 PROVE Fits(z, a)
    <3>1. a \in 1 .. Len(s) /\ Fits(s, a) /\ s \in Seq(Unit) /\ h \in Seq(Unit)
      BY <1>2, <1>5, <2>1, <2>2, Zenon
    <3> QED
      BY <3>1, FitsAppend, Zenon
  <2> QED
    BY <2>1, <2>3, Zenon
<1> HIDE DEF h, z
<1>7. Typed'
  BY <1>1, <1>2, <1>5, Zenon DEF IInv, Typed, serverVars, inVars
<1>8. /\ stream'[k] = z /\ (\A u \in Threads : pc'[u] = IF u = t THEN "end" ELSE pc[u])
      /\ \A l \in Conns : l # k => stream'[l] = stream[l]
  BY <1>1, <1>2 DEF IInv, Typed
<1>9. Flow'
  BY <1>1, Zenon DEF IInv, Flow, serverVars, inVars
<1>10. Calls'
  BY <1>1, <1>8, CallsKeep DEF serverVars, inVars
<1>11. Mark(k)' = n - 3 /\ Length(t)' = 4
  <2>1. Length(t)' = 4
    BY <1>1, <1>3, <1>8 DEF Length
  <2>2. Mark(k)' = Len(stream'[k]) - Length(t)'
    BY <1>1, <1>2, <1>3 DEF Mark
  <2> QED
    BY <1>2, <1>5, <1>8, <2>1, <2>2
<1>12. Locks' /\ Tails' /\ Whole'
  <2>1. w[k] <= Mark(k)' /\ \A a \in 1 .. Mark(k)' : Fits(stream'[k], a)
    BY <1>6, <1>8, <1>11
  <2>2. n - 3 + 1 \in 1 .. n /\ n - 3 + 2 \in 1 .. n /\ n - 3 + 3 \in 1 .. n /\ n - 3 >= 0 /\ n - 3 + 4 = n + 1
    <3>1. n \in Nat /\ n >= 3
      BY <1>2, <1>3
    <3> QED
      BY <3>1
  <2>3. Open(z, n - 3, c) /\ z[n - 3 + 4] = e
    BY <1>3, <1>5, <2>2, Zenon DEF Open
  <2>4. Writes(t, k, "end")
    <3>1. \A l \in Conns : out_l'[l] = IF l # k THEN out_l[l] ELSE t
      BY <1>1, <1>3
    <3>2. cur[t] # none /\ cur' = cur /\ w' = w /\ pc' = [pc EXCEPT ![t] = "end"] /\ out_l[k] \in {none, t} /\ k = cur[t].k
      BY <1>1, <1>2, <1>3
    <3> QED
      BY <1>3, <1>8, <1>11, <2>1, <2>2, <2>3, <3>1, <3>2, Zenon DEF Writes
  <2> QED
    BY <1>7, <2>4, WriterKeeps
<1>13. Kept(s, z)
  <2>1. z[n + 1].u # "xid"
    BY <1>5
  <2>2. \A a \in 1 .. n + 1 : a \in 1 .. n \/ a = n + 1
    BY <1>2
  <2>3. \A a \in 1 .. n + 1 : z[a].u = "xid" => a \in 1 .. n /\ z[a] = s[a]
    BY <1>5, <2>1, <2>2
  <2>4. Len(s) \in Nat /\ Len(z) \in Nat /\ Len(s) <= Len(z) /\ Len(z) = n + 1
    BY <1>2, <1>5
  <2> QED
    BY <1>5, <2>3, <2>4, Zenon DEF Kept
<1>14. Answers'
  <2>1. UNCHANGED << handlers, rpc, dp, jobs, cur >>
    BY <1>1 DEF serverVars, inVars
  <2>2. \A u \in Threads : pc'[u] = "begin" => pc[u] = "begin"
    BY <1>8
  <2>3. z = stream'[k] /\ \A l \in Conns : l # k => stream'[l] = stream[l]
    BY <1>8
  <2> QED
    BY <1>2, <1>13, <2>1, <2>2, <2>3, KeptAnswers, Zenon
<1> QED
  BY <1>1, <1>7, <1>9, <1>10, <1>12, <1>14 DEF IInv, serverVars

\* end_reply makes the last reply whole and gives out_l_ back.
LEMMA EndReplyKeeps ==
  ASSUME NEW t \in Threads, NEW c, c = cur[t], NEW k, k = c.k, NEW s, s = stream[k], NEW n, n = Len(s),
         NEW m, NEW z, Sized(c.code, s, n, m, z), IInv, EndReply(t)
  PROVE  IInv'
<1>1. /\ pc[t] = "end" /\ stream' = [stream EXCEPT ![k] = z] /\ pc' = [pc EXCEPT ![t] = "clean"]
      /\ writing' = [writing EXCEPT ![k] = TRUE] /\ out_l' = [out_l EXCEPT ![k] = none]
      /\ UNCHANGED << serverVars, refs, inVars, dp, jobs, w, cur >>
  BY Zenon DEF EndReply, K, Goto, Sized
<1>2. c # none /\ k \in Conns /\ s \in Seq(Unit) /\ n \in Nat /\ t # none
  <2>1. c # none
    BY <1>1, HasCall, Zenon
  <2>2. k \in Conns
    BY <2>1, CallTypes DEF IInv
  <2>3. s \in Seq(Unit)
    BY <2>2 DEF IInv, Typed
  <2> QED
    BY <2>1, <2>2, <2>3, ServerAssumption DEF Threads
<1>3. /\ out_l[k] = t /\ Mark(k) >= 0 /\ Open(s, Mark(k), c)
      /\ Length(t) = 4 => s[Mark(k) + 4] = [u |-> "ret", v |-> c.i]
  BY <1>1, Zenon DEF IInv, Locks, Tails
<1>4. Length(t) = (IF c.code = "0" THEN 4 ELSE 3) /\ Mark(k) = n - Length(t)
  <2>1. Length(t) = IF c.code = "0" THEN 4 ELSE 3
    BY <1>1, Zenon DEF Length
  <2> QED
    BY <1>2, <1>3, <2>1, Zenon DEF Mark
<1>5. Mark(k) = m - 1 /\ m \in 1 .. n /\ m - 1 + 4 = m + 3 /\ m - 1 + 1 = m /\ n = m + (IF c.code = "0" THEN 3 ELSE 2)
  <2>1. Length(t) \in Nat /\ n >= (IF c.code = "0" THEN 4 ELSE 3) /\ Mark(k) = n - (IF c.code = "0" THEN 4 ELSE 3)
    <3>1. Mark(k) = n - (IF c.code = "0" THEN 4 ELSE 3)
      BY <1>4, Zenon
    <3>2. Length(t) \in Nat
      BY <1>4
    <3>3. n >= (IF c.code = "0" THEN 4 ELSE 3)
      <4>1. Mark(k) >= 0
        BY <1>3, Zenon
      <4> QED
        BY <1>2, <3>1, <4>1
    <3> QED
      BY <3>1, <3>2, <3>3, Zenon
  <2>2. m \in 1 .. n /\ m - 1 + 4 = m + 3 /\ m - 1 + 1 = m
    BY <1>2, <2>1, SizedAt
  <2>3. n = m + (IF c.code = "0" THEN 3 ELSE 2)
    BY <1>2, <2>1, SizedAt
  <2>4. m - 1 = n - (IF c.code = "0" THEN 4 ELSE 3)
    <3>1. m \in Int
      BY <1>2, <2>2
    <3> QED
      BY <1>2, <2>3, <3>1
  <2> QED
    BY <2>1, <2>2, <2>3, <2>4, ZenonT(30)
<1>6. Patched(s, n, m, z)
  <2>1. s[m].u = "size"
    BY <1>3, <1>5, Zenon DEF Open
  <2> QED
    BY <1>2, <1>5, <2>1, SizedPatches, Zenon
<1>7. w[k] <= n /\ \A a \in 1 .. n : Fits(z, a)
  <2>1. w[k] <= m - 1 /\ \A a \in 1 .. m - 1 : Fits(s, a)
    BY <1>2, <1>5 DEF IInv, Whole
  <2>2. w[k] <= n
    <3>1. w[k] \in Nat
      BY <1>2 DEF IInv, Typed
    <3>2. m \in 1 .. n
      BY <1>5
    <3> QED
      BY <1>2, <2>1, <3>1, <3>2
  <2>3. Open(s, m - 1, c) /\ (c.code = "0" => s[m + 3] = [u |-> "ret", v |-> c.i])
    BY <1>3, <1>4, <1>5
  <2>4. \A a \in 1 .. n : Fits(z, a)
    BY <1>5, <1>6, <2>1, <2>3, FitsPatched, Zenon
  <2> QED
    BY <2>2, <2>4
<1>8. z \in Seq(Unit) /\ Len(z) = n
  BY <1>6 DEF Patched
<1>9. Typed'
  BY <1>1, <1>2, <1>8, Zenon DEF IInv, Typed, serverVars, inVars
<1>10. /\ stream'[k] = z /\ out_l'[k] = none /\ (\A u \in Threads : pc'[u] = IF u = t THEN "clean" ELSE pc[u])
       /\ \A l \in Conns : l # k => stream'[l] = stream[l]
  <2>1. stream \in [Conns -> Seq(Unit)] /\ DOMAIN out_l = Conns /\ DOMAIN pc = Threads
    BY DEF IInv, Typed
  <2> QED
    BY <1>1, <1>2, <2>1
<1>11. Flow'
  BY <1>1, Zenon DEF IInv, Flow, serverVars, inVars
<1>12. Calls'
  BY <1>1, <1>10, CallsKeep DEF serverVars, inVars
<1>13. Mark(k)' = n /\ Length(t)' # 4
  <2>1. Length(t)' = 3
    BY <1>10 DEF Length
  <2> QED
    BY <1>8, <1>10, <2>1 DEF Mark
<1>14. Locks' /\ Tails' /\ Whole'
  <2>1. w[k] <= Mark(k)' /\ \A a \in 1 .. Mark(k)' : Fits(stream'[k], a)
    BY <1>7, <1>10, <1>13
  <2>2. \A l \in Conns : out_l'[l] = IF l # k THEN out_l[l] ELSE none
    BY <1>1 DEF IInv, Typed
  <2>3. cur[t] # none /\ cur' = cur /\ w' = w /\ pc' = [pc EXCEPT ![t] = "clean"] /\ out_l[k] \in {none, t} /\ k = cur[t].k
    BY <1>1, <1>2, <1>3, Zenon
  <2>4. Writes(t, k, "clean")
    BY <1>10, <1>13, <2>1, <2>2, <2>3, Zenon DEF Writes
  <2> QED
    BY <1>9, <2>4, WriterKeeps
<1>15. Kept(s, z)
  BY <1>6, PatchedKept
<1>16. Answers'
  <2>1. UNCHANGED << handlers, rpc, dp, jobs, cur >>
    BY <1>1 DEF serverVars, inVars
  <2>2. \A u \in Threads : pc'[u] = "begin" => pc[u] = "begin"
    BY <1>10
  <2>3. z = stream'[k] /\ \A l \in Conns : l # k => stream'[l] = stream[l]
    BY <1>10
  <2> QED
    BY <1>2, <1>15, <2>1, <2>2, <2>3, KeptAnswers, Zenon
<1> QED
  BY <1>9, <1>11, <1>12, <1>14, <1>16, Zenon DEF IInv

-----------------------------------------------------------------------------
\* Every step keeps the invariant.
LEMMA NextIInv == ASSUME IInv, [Next]_vars PROVE IInv'
<1>1. CASE UNCHANGED vars
  <2>1. Quiet /\ UNCHANGED << status, loop, stop, link, refs, sent, rd, writing >>
    BY <1>1 DEF vars, serverVars, inVars, outVars, Quiet
  <2>2. Typed' /\ Flow'
    BY <2>1 DEF IInv, Typed, Flow, Quiet
  <2> QED
    BY <2>1, <2>2, QuietKeeps DEF IInv, Quiet
<1>2. ASSUME NEW s \in Services, Reg(s) PROVE IInv'
  BY <1>2, RegKeeps
<1>3. CASE Start \/ Loop \/ StopCall \/ Stop
  BY <1>3, StatusKeeps, LoopAddKeeps DEF Loop
<1>4. ASSUME NEW k \in Conns, Connect(k) \/ Send(k) \/ HandleRead(k) \/ Dispatch(k) \/ HandleWrite(k) PROVE IInv'
  BY <1>4, StatusKeeps, SendKeeps, HandleReadKeeps, DispatchesKeep, HandleWriteKeeps
<1>5. ASSUME NEW t \in Threads, Take(t) \/ Reply(t) PROVE IInv'
  <2>1. CASE Take(t)
    BY <2>1, TakeKeeps, Zenon
  <2>2. CASE BeginReply(t)
    BY <2>2, BeginReplyKeeps, Zenon
  <2>3. CASE MarshalReply(t)
    BY <2>3, MarshalReplyKeeps, Zenon
  <2>4. CASE EndReply(t)
    <3>1. PICK c, k, s, n : c = cur[t] /\ k = c.k /\ s = stream[k] /\ n = Len(s)
      BY Zenon
    <3>2. PICK m, z : Sized(c.code, s, n, m, z)
      BY <3>1, Zenon DEF Sized
    <3> QED
      BY <2>4, <3>1, <3>2, EndReplyKeeps, Zenon
  <2>5. CASE Clean(t)
    BY <2>5, CleanKeeps
  <2> QED
    BY <1>5, <2>1, <2>2, <2>3, <2>4, <2>5 DEF Reply
<1> QED
  BY <1>1, <1>2, <1>3, <1>4, <1>5 DEF Next

-----------------------------------------------------------------------------
(* References *)

INSTANCE FiniteSetTheorems

Counted(k) ==
    /\ IsFiniteSet(JobsOf(k)) /\ IsFiniteSet(HandlersOn(k))
    /\ refs[k] \in Nat
    /\ refs[k] = (IF link[k] = "served" THEN 2 ELSE 0) + Cardinality(JobsOf(k)) + Cardinality(HandlersOn(k))

Counts == refs \in [Conns -> Nat] /\ \A k \in Conns : Counted(k)

\* No connection, no reference.
LEMMA InitCounts == Init => Counts
<1> SUFFICES ASSUME Init, NEW k \in Conns PROVE refs \in [Conns -> Nat] /\ Counted(k)
  BY DEF Counts, Init
<1>1. JobsOf(k) = {} /\ HandlersOn(k) = {} /\ refs[k] = 0 /\ link[k] = "none" /\ refs \in [Conns -> Nat]
  BY DEF Init, JobsOf, HandlersOn
<1>2. IsFiniteSet({}) /\ Cardinality({}) = 0
  BY FS_EmptySet
<1> QED
  BY <1>1, <1>2 DEF Counted

\* Counts stay when the counters and the holders do.
LEMMA SameCounts ==
  ASSUME Counts, UNCHANGED << refs, jobs, cur >>, \A k \in Conns : link'[k] = "served" <=> link[k] = "served"
  PROVE  Counts'
<1>1. ASSUME NEW k \in Conns PROVE JobsOf(k)' = JobsOf(k) /\ HandlersOn(k)' = HandlersOn(k)
  BY DEF JobsOf, HandlersOn
<1> QED
  BY <1>1 DEF Counts, Counted

\* What a step adds to the jobs and the handlers of a connection, it adds to its references.
LEMMA MoreCounts ==
  ASSUME Counts, UNCHANGED link, refs' \in [Conns -> Int], NEW l \in Conns, NEW a \in Int, NEW b \in Int,
         IsFiniteSet(JobsOf(l)'), Cardinality(JobsOf(l)') = Cardinality(JobsOf(l)) + a,
         IsFiniteSet(HandlersOn(l)'), Cardinality(HandlersOn(l)') = Cardinality(HandlersOn(l)) + b,
         refs'[l] = refs[l] + a + b
  PROVE  Counted(l)'
<1>1. /\ Cardinality(JobsOf(l)) \in Nat /\ Cardinality(HandlersOn(l)) \in Nat
      /\ Cardinality(JobsOf(l)') \in Nat /\ Cardinality(HandlersOn(l)') \in Nat
  BY FS_CardinalityType DEF Counts, Counted
<1>2. refs[l] = (IF link[l] = "served" THEN 2 ELSE 0) + Cardinality(JobsOf(l)) + Cardinality(HandlersOn(l))
  BY DEF Counts, Counted
<1>3. refs'[l] = (IF link[l] = "served" THEN 2 ELSE 0) + Cardinality(JobsOf(l)') + Cardinality(HandlersOn(l)')
  BY <1>1, <1>2
<1>4. refs'[l] \in Nat
  BY <1>1, <1>3
<1> QED
  BY <1>3, <1>4 DEF Counted

\* A thread that begins a call is one more handler, if the call has one.
LEMMA NewHandler ==
  ASSUME Counts, Typed, NEW t \in Threads, NEW c \in Call, cur[t] = none, cur' = [cur EXCEPT ![t] = c], NEW l \in Conns
  PROVE  /\ IsFiniteSet(HandlersOn(l)')
         /\ Cardinality(HandlersOn(l)') = Cardinality(HandlersOn(l)) + (IF l = c.k /\ c.code = "0" THEN 1 ELSE 0)
<1>1. HandlersOn(l)' = IF l = c.k /\ c.code = "0" THEN HandlersOn(l) \cup {t} ELSE HandlersOn(l)
  BY ServerAssumption DEF Typed, HandlersOn
<1>2. t \notin HandlersOn(l) /\ IsFiniteSet(HandlersOn(l))
  BY Zenon DEF Counts, Counted, HandlersOn
<1>3. Cardinality(HandlersOn(l)) \in Nat
  BY <1>2, FS_CardinalityType
<1>4. IsFiniteSet(HandlersOn(l) \cup {t}) /\ Cardinality(HandlersOn(l) \cup {t}) = Cardinality(HandlersOn(l)) + 1
  BY <1>2, FS_AddElement
<1> QED
  BY <1>1, <1>2, <1>3, <1>4

\* A new connection is held by the server and the poll thread.
LEMMA LoopAddCounts == ASSUME IInv, Counts, LoopAdd PROVE Counts'
<1> DEFINE run == status = "RUNNING"
<1>1. PICK k \in Conns :
          /\ link[k] = "accepted"
          /\ link' = [link EXCEPT ![k] = IF run THEN "served" ELSE "dropped"]
          /\ refs' = [refs EXCEPT ![k] = IF run THEN 2 ELSE 0]
  BY Zenon DEF LoopAdd
<1>2. jobs' = jobs /\ cur' = cur
  BY DEF LoopAdd
<1>3. dp[k] = 0
  BY <1>1, FlowTypes DEF IInv
<1>4. JobsOf(k) = {}
  <2>1. ASSUME NEW j \in jobs, j[1] = k PROVE FALSE
    <3>1. PICK i \in Xids : j = << k, i >>
      BY <2>1 DEF IInv, Typed
    <3>2. i <= dp[k]
      BY <2>1, <3>1, Zenon DEF IInv, Calls
    <3> QED
      BY <1>3, <3>1, <3>2, ServerAssumption DEF Xids
  <2> QED
    BY <2>1 DEF JobsOf
<1>5. HandlersOn(k) = {}
  <2> SUFFICES ASSUME NEW t \in Threads, cur[t] # none, cur[t].k = k PROVE FALSE
    BY DEF HandlersOn
  <2>1. cur[t].i \in Xids /\ cur[t].i <= dp[k]
    BY CallTypes, Zenon DEF IInv, Calls
  <2> QED
    BY <1>3, <2>1, ServerAssumption DEF Xids
<1>6. \A l \in Conns : JobsOf(l)' = JobsOf(l) /\ HandlersOn(l)' = HandlersOn(l)
  BY <1>2 DEF JobsOf, HandlersOn
<1>7. Counted(k)'
  <2>1. IsFiniteSet({}) /\ Cardinality({}) = 0
    BY FS_EmptySet
  <2>2. refs'[k] = (IF link'[k] = "served" THEN 2 ELSE 0) /\ refs'[k] \in Nat
    BY <1>1 DEF Counts, IInv, Typed
  <2> QED
    BY <1>4, <1>5, <1>6, <2>1, <2>2 DEF Counted
<1>8. ASSUME NEW l \in Conns, l # k PROVE Counted(l)'
  <2>1. Counted(l) /\ refs \in [Conns -> Nat] /\ DOMAIN link = Conns
    BY DEF Counts, IInv, Typed
  <2>2. refs'[l] = refs[l] /\ link'[l] = link[l]
    BY <1>1, <1>8, <2>1
  <2> QED
    BY <1>6, <2>1, <2>2, Zenon DEF Counted
<1>9. refs' \in [Conns -> Nat]
  BY <1>1 DEF Counts
<1> QED
  BY <1>7, <1>8, <1>9 DEF Counts

\* A dispatched request's handler holds the connection, on the poll thread or as a job.
LEMMA DispatchCounts == ASSUME IInv, Counts, NEW k \in Conns, Dispatch(k) PROVE Counts'
<1>1. link' = link /\ (Typed /\ refs \in [Conns -> Nat])
  BY DEF IInv, Counts, Dispatch, DispatchShort, DispatchMissing, DispatchFast, DispatchLater, serverVars
<1>2. ASSUME NEW code \in Codes, StartReply(k, k, dp[k] + 1, code), dp[k] + 1 \in Xids, pc[k] = "idle", jobs' = jobs,
             refs' = IF code = "0" THEN [refs EXCEPT ![k] = @ + 1] ELSE refs
      PROVE  Counts'
  <2> DEFINE c == [k |-> k, i |-> dp[k] + 1, code |-> code]
  <2>1. k \in Threads /\ cur' = [cur EXCEPT ![k] = c] /\ cur[k] = none /\ c \in Call /\ c.k = k /\ c.code = code
    <3>1. k \in Threads /\ cur' = [cur EXCEPT ![k] = c]
      BY <1>2, Zenon DEF StartReply, Threads
    <3>2. cur[k] = none
      BY <1>2, <3>1, HasCall, Zenon
    <3>3. c \in Call /\ c.k = k /\ c.code = code
      BY <1>2 DEF Call
    <3> QED
      BY <3>1, <3>2, <3>3, Zenon
  <2> HIDE DEF c
  <2>2. refs' \in [Conns -> Nat]
    BY <1>1, <1>2
  <2>3. ASSUME NEW l \in Conns PROVE Counted(l)'
    <3> DEFINE b == IF l = k /\ code = "0" THEN 1 ELSE 0
    <3>1. IsFiniteSet(HandlersOn(l)') /\ Cardinality(HandlersOn(l)') = Cardinality(HandlersOn(l)) + b
      BY <1>1, <2>1, NewHandler, Zenon
    <3>2. IsFiniteSet(JobsOf(l)') /\ Cardinality(JobsOf(l)') = Cardinality(JobsOf(l)) + 0
      <4>1. JobsOf(l)' = JobsOf(l) /\ IsFiniteSet(JobsOf(l))
        BY <1>2 DEF JobsOf, Counts, Counted
      <4> QED
        BY <4>1, FS_CardinalityType
    <3>3. refs'[l] = refs[l] + 0 + b /\ b \in Int /\ 0 \in Int /\ refs' \in [Conns -> Int]
      BY <1>1, <1>2, <2>2
    <3> HIDE DEF b
    <3> QED
      BY <1>1, <3>1, <3>2, <3>3, MoreCounts, Zenon
  <2> QED
    BY <2>2, <2>3 DEF Counts
<1>3. dp[k] + 1 \in Xids /\ pc[k] = "idle"
  <2>1. dp[k] < rd[k] \div 2 /\ pc[k] = "idle"
    BY DEF Dispatch, DispatchShort, DispatchMissing, DispatchFast, DispatchLater, NextCall
  <2>2. dp[k] \in Nat /\ rd[k] \in Nat /\ rd[k] <= 2 * MaxReq /\ MaxReq \in Nat
    BY FlowTypes, ServerAssumption DEF IInv
  <2> QED
    BY <2>1, <2>2 DEF Xids
<1>4. CASE DispatchShort(k) \/ DispatchMissing(k) \/ DispatchFast(k)
  BY <1>2, <1>3, <1>4 DEF DispatchShort, DispatchMissing, DispatchFast, Handle, Codes
<1>5. CASE DispatchLater(k)
  <2> DEFINE i == dp[k] + 1
  <2>1. /\ << k, i >> \notin jobs /\ jobs' = jobs \cup {<< k, i >>} /\ cur' = cur
        /\ refs' = [refs EXCEPT ![k] = @ + 1]
    BY <1>5, Fresh DEF DispatchLater, Handle
  <2>2. refs' \in [Conns -> Nat]
    BY <1>1, <2>1
  <2> HIDE DEF i
  <2>3. ASSUME NEW l \in Conns PROVE Counted(l)'
    <3> DEFINE a == IF l = k THEN 1 ELSE 0
    <3>1. IsFiniteSet(HandlersOn(l)') /\ Cardinality(HandlersOn(l)') = Cardinality(HandlersOn(l)) + 0
      <4>1. HandlersOn(l)' = HandlersOn(l) /\ IsFiniteSet(HandlersOn(l))
        BY <2>1, Zenon DEF HandlersOn, Counts, Counted
      <4> QED
        BY <4>1, FS_CardinalityType
    <3>2. IsFiniteSet(JobsOf(l)') /\ Cardinality(JobsOf(l)') = Cardinality(JobsOf(l)) + a
      <4>1. JobsOf(l)' = IF l = k THEN JobsOf(l) \cup {<< k, i >>} ELSE JobsOf(l)
        BY <2>1 DEF JobsOf
      <4>2. << k, i >> \notin JobsOf(l) /\ IsFiniteSet(JobsOf(l))
        BY <2>1, Zenon DEF Counts, Counted, JobsOf
      <4>3. Cardinality(JobsOf(l)) \in Nat
        BY <4>2, FS_CardinalityType
      <4>4. IsFiniteSet(JobsOf(l) \cup {<< k, i >>}) /\ Cardinality(JobsOf(l) \cup {<< k, i >>}) = Cardinality(JobsOf(l)) + 1
        BY <4>2, FS_AddElement
      <4> QED
        BY <4>1, <4>2, <4>3, <4>4
    <3>3. refs'[l] = refs[l] + a + 0 /\ a \in Int /\ 0 \in Int /\ refs' \in [Conns -> Int]
      BY <1>1, <2>1, <2>2
    <3> HIDE DEF a
    <3> QED
      BY <1>1, <3>1, <3>2, <3>3, MoreCounts, Zenon
  <2> QED
    BY <2>2, <2>3 DEF Counts
<1> QED
  BY <1>4, <1>5 DEF Dispatch

\* A worker that takes a job takes over its reference.
LEMMA TakeCounts == ASSUME IInv, Counts, NEW t \in Threads, Take(t) PROVE Counts'
<1>1. PICK j \in jobs : StartReply(t, j[1], j[2], "0") /\ jobs' = jobs \ {j}
  BY DEF Take
<1> DEFINE k == j[1]
           c == [k |-> j[1], i |-> j[2], code |-> "0"]
<1>2. /\ k \in Conns /\ c \in Call /\ cur[t] = none /\ cur' = [cur EXCEPT ![t] = c] /\ c.k = k /\ c.code = "0"
      /\ link' = link /\ refs' = refs
  <2>1. k \in Conns /\ j[2] \in Xids
    BY DEF IInv, Typed
  <2>2. cur[t] = none /\ link' = link /\ refs' = refs
    BY DEF Take, IInv, Calls, serverVars
  <2> QED
    BY <1>1, <2>1, <2>2 DEF StartReply, Call, Codes
<1> HIDE DEF c
<1>3. ASSUME NEW l \in Conns PROVE Counted(l)'
  <2> DEFINE a == IF l = k THEN -1 ELSE 0
             b == IF l = k THEN 1 ELSE 0
  <2>1. IsFiniteSet(HandlersOn(l)') /\ Cardinality(HandlersOn(l)') = Cardinality(HandlersOn(l)) + b
    BY <1>2, NewHandler, Zenon DEF IInv
  <2>2. IsFiniteSet(JobsOf(l)') /\ Cardinality(JobsOf(l)') = Cardinality(JobsOf(l)) + a
    <3>1. JobsOf(l)' = JobsOf(l) \ {j} /\ (j \in JobsOf(l) <=> l = k)
      BY <1>1 DEF JobsOf
    <3>2. IsFiniteSet(JobsOf(l)) /\ Cardinality(JobsOf(l)) \in Nat
      BY FS_CardinalityType DEF Counts, Counted
    <3> QED
      BY <3>1, <3>2, FS_RemoveElement
  <2>3. refs'[l] = refs[l] + a + b /\ a \in Int /\ b \in Int /\ refs' \in [Conns -> Int]
    BY <1>2 DEF Counts
  <2> HIDE DEF a, b
  <2> QED
    BY <1>2, <2>1, <2>2, <2>3, MoreCounts, ZenonT(30)
<1> QED
  BY <1>2, <1>3 DEF Counts

\* A handler that has finished releases its own.
LEMMA CleanCounts == ASSUME IInv, Counts, NEW t \in Threads, Clean(t) PROVE Counts'
<1> DEFINE k == cur[t].k
<1>1. /\ pc[t] = "clean" /\ cur' = [cur EXCEPT ![t] = none] /\ link' = link /\ jobs' = jobs
      /\ refs' = IF cur[t].code = "0" THEN [refs EXCEPT ![k] = @ - 1] ELSE refs
  BY DEF Clean, Goto, K, serverVars
<1>2. cur[t] # none /\ k \in Conns
  <2>1. cur[t] # none
    BY <1>1, HasCall
  <2> QED
    BY <2>1, CallTypes, Zenon DEF IInv
<1>3. refs' \in [Conns -> Int]
  <2>1. refs \in [Conns -> Int] /\ refs[k] - 1 \in Int
    BY <1>2 DEF Counts
  <2> QED
    BY <1>1, <2>1, Zenon
<1>4. ASSUME NEW l \in Conns PROVE Counted(l)'
  <2> DEFINE b == IF l = k /\ cur[t].code = "0" THEN -1 ELSE 0
  <2>1. IsFiniteSet(HandlersOn(l)') /\ Cardinality(HandlersOn(l)') = Cardinality(HandlersOn(l)) + b
    <3>1. HandlersOn(l)' = HandlersOn(l) \ {t} /\ (t \in HandlersOn(l) <=> l = k /\ cur[t].code = "0")
      <4>1. \A u \in Threads : cur'[u] = IF u = t THEN none ELSE cur[u]
        BY <1>1 DEF IInv, Typed
      <4> QED
        BY <1>2, <4>1 DEF HandlersOn
    <3>2. IsFiniteSet(HandlersOn(l)) /\ Cardinality(HandlersOn(l)) \in Nat
      BY FS_CardinalityType DEF Counts, Counted
    <3> QED
      BY <3>1, <3>2, FS_RemoveElement
  <2>2. IsFiniteSet(JobsOf(l)') /\ Cardinality(JobsOf(l)') = Cardinality(JobsOf(l)) + 0
    <3>1. JobsOf(l)' = JobsOf(l) /\ IsFiniteSet(JobsOf(l))
      BY <1>1, ZenonT(30) DEF JobsOf, Counts, Counted
    <3> QED
      BY <3>1, FS_CardinalityType
  <2>3. refs'[l] = refs[l] + 0 + b /\ b \in Int /\ 0 \in Int
    BY <1>1 DEF Counts
  <2> HIDE DEF b
  <2>4. link' = link /\ refs' \in [Conns -> Int]
    BY <1>1, <1>3, Zenon
  <2> QED
    BY <2>1, <2>2, <2>3, <2>4, MoreCounts, ZenonT(30)
<1>5. refs' \in [Conns -> Nat]
  BY <1>3, <1>4 DEF Counted
<1> QED
  BY <1>4, <1>5 DEF Counts

\* Every step keeps the counts.
LEMMA NextCounts == ASSUME IInv, Counts, [Next]_vars PROVE Counts'
<1>1. CASE UNCHANGED vars \/ (\E s \in Services : Reg(s)) \/ Start \/ StopCall \/ Stop
  <2>1. UNCHANGED << link, refs, jobs, cur >>
    BY <1>1, Zenon DEF vars, serverVars, Reg, Start, StopCall, Stop, StopJoin, StopClose, StopWait
  <2> QED
    BY <2>1, SameCounts
<1>2. CASE LoopSelect \/ LoopEnd
  BY <1>2, SameCounts DEF LoopSelect, LoopEnd
<1>3. CASE LoopAccept \/ \E k \in Conns : Connect(k)
  <2>1. /\ UNCHANGED << refs, jobs, cur >>
        /\ \E k \in Conns : link[k] # "served" /\ link' = [link EXCEPT ![k] = IF link[k] = "none" THEN "backlog" ELSE "accepted"]
    BY <1>3 DEF LoopAccept, Connect
  <2>2. \A k \in Conns : link'[k] = "served" <=> link[k] = "served"
    BY <2>1 DEF IInv, Typed
  <2> QED
    BY <2>1, <2>2, SameCounts
<1>4. ASSUME NEW k \in Conns, Send(k) \/ HandleRead(k) \/ HandleWrite(k) PROVE Counts'
  BY <1>4, SameCounts DEF Send, HandleRead, HandleWrite, serverVars
<1>5. ASSUME NEW t \in Threads, BeginReply(t) \/ MarshalReply(t) \/ EndReply(t) PROVE Counts'
  BY <1>5, SameCounts, Zenon DEF BeginReply, MarshalReply, EndReply, serverVars
<1>6. ASSUME NEW t \in Threads, Take(t) \/ Clean(t) PROVE Counts'
  BY <1>6, TakeCounts, CleanCounts
<1>7. ASSUME NEW k \in Conns, Dispatch(k) PROVE Counts'
  BY <1>7, DispatchCounts
<1>8. CASE Loop
  BY <1>2, <1>3, <1>8, LoopAddCounts DEF Loop
<1>9. ASSUME NEW t \in Threads, Reply(t) PROVE Counts'
  BY <1>5, <1>6, <1>9 DEF Reply
<1>10. ASSUME NEW k \in Conns, Connect(k) \/ Send(k) \/ HandleRead(k) \/ Dispatch(k) \/ HandleWrite(k) PROVE Counts'
  BY <1>3, <1>4, <1>7, <1>10, Zenon
<1> QED
  BY <1>1, <1>6, <1>8, <1>9, <1>10, Zenon DEF Next

-----------------------------------------------------------------------------
\* The invariant above holds in every reachable state of the server.
THEOREM Inductive == Spec => []IInv
  BY InitIInv, NextIInv, PTL DEF Spec

\* Whatever threads reply on a connection, its client reads whole replies: begin_reply to
\* end_reply is one piece of the stream, and handle_write does not run in between.
THEOREM AlwaysWhole == Spec => []RepliesWhole
<1>1. IInv => RepliesWhole
  <2> SUFFICES ASSUME IInv, NEW k \in Conns, NEW a \in 1 .. w[k] PROVE Fits(stream[k], a)
    BY DEF RepliesWhole
  <2>1. w[k] <= Mark(k) /\ \A b \in 1 .. Mark(k) : Fits(stream[k], b)
    BY DEF IInv, Whole
  <2>2. w[k] \in Nat /\ Mark(k) \in Int
    <3>1. w[k] \in Nat /\ Len(stream[k]) \in Nat
      BY DEF IInv, Typed
    <3> QED
      BY <3>1 DEF Mark, Length
  <2>3. a \in 1 .. Mark(k)
    BY <2>1, <2>2
  <2> QED
    BY <2>1, <2>3
<1> QED
  BY Inductive, <1>1, PTL

\* No request is answered twice, or with a code other than that of what happened to it.
THEOREM AlwaysOnce == Spec => []AnsweredOnce
<1>1. IInv => AnsweredOnce
  <2> SUFFICES ASSUME IInv, NEW k \in Conns, NEW a \in 1 .. Len(stream[k]), NEW b \in 1 .. Len(stream[k]), stream[k][a].u = "xid"
               PROVE  /\ stream[k][b].u = "xid" /\ stream[k][b].v = stream[k][a].v => a = b
                      /\ a < Len(stream[k]) => stream[k][a + 1].v = CodeOf(rpc[k][stream[k][a].v])
    BY DEF AnsweredOnce
  <2>1. Coded(k, a)
    BY AnswerTypes
  <2> QED
    BY <2>1 DEF Coded
<1> QED
  BY Inductive, <1>1, PTL

\* A connection has a reference for each of its holders, whatever thread a handler runs on.
THEOREM AlwaysCounted == Spec => []RefsMatchHolders
<1>1. IInv /\ Counts => RefsMatchHolders
  BY DEF IInv, Counts, Counted, RefsMatchHolders, TypeOK
<1> QED
  BY Inductive, InitCounts, NextCounts, <1>1, PTL DEF Spec
==============================================================================
