------------------------------ MODULE TcpServer ------------------------------
(***************************************************************************)
(* rrr::TCPServer and rrr::TCPConnection (src/src/rpc/server.{hpp,cpp}) with *)
(* the stubs that pylib/simplerpcgen/lang_cpp.py generates: one thread      *)
(* accepts, a poll thread per connection reads requests and dispatches      *)
(* them, worker threads run handlers and reply, and one thread stops the    *)
(* server.                                                                 *)
(*                                                                         *)
(* Requests of a connection are numbered in the order they are sent, and a  *)
(* request is two units on the wire, so the incoming stream is a few        *)
(* counters.  The outgoing stream is a sequence of marshalled units: a      *)
(* reply is its size, xid, error code and, from a handler, a result.  The   *)
(* bytes in out_ are the units behind the first w[k].                       *)
(*                                                                         *)
(* Services are registered before the server starts, start() is called      *)
(* once, and clients stay connected.                                       *)
(***************************************************************************)
EXTENDS Naturals, Sequences, FiniteSets

CONSTANTS
    Conns,               \* connections; each has the poll thread of its name
    Workers,             \* other threads: those of the pool, and any that
                         \* calls DeferredReply::reply
    MaxReq,              \* bound: requests on a connection
    Fast, Normal, Defer, \* rpc ids of the functions with that attribute
    Services,            \* the sets of functions that are registered together
    none                 \* no rpc id; no thread; no call

Rpcs == Fast \cup Normal \cup Defer

Threads == Conns \cup Workers
Xids == 1 .. MaxReq
Codes == {"0", "ENOENT", "EINVAL"}
Call == [k : Conns, i : Xids, code : Codes]

ASSUME ServerAssumption ==
    /\ MaxReq \in Nat /\ Services \subseteq SUBSET Rpcs
    /\ Conns \cap Workers = {} /\ none \notin Conns \cup Workers \cup Rpcs /\ none \notin Call
    /\ Fast \cap Normal = {} /\ Fast \cap Defer = {} /\ Normal \cap Defer = {}

VARIABLES
    status,   \* status_ of the server
    loop,     \* where server_loop is
    stop,     \* where stop() is
    handlers, \* handlers_
    link,     \* what became of each client's connection
    refs,     \* references to each TCPConnection
    sent,     \* requests each client has sent
    rpc,      \* the rpc id of each request
    rd,       \* units read from each socket; those of whole packets are parsed
    dp,       \* requests dispatched, of the rd \div 2 parsed
    jobs,     \* handler calls in the pool, or deferred: <<connection, xid>>
    stream,   \* the units ever put into out_
    w,        \* how many of them were written to the socket
    out_l,    \* who holds out_l_ of each connection
    writing,  \* the poll thread waits for EPOLLOUT
    pc, cur   \* where each replying thread is, and the call it replies to

serverVars == << status, loop, stop, handlers, link >>
inVars == << sent, rpc, rd >>
outVars == << stream, w, out_l, writing >>
vars == << serverVars, refs, inVars, dp, jobs, outVars, pc, cur >>

Unit == [u : {"size"}, v : Nat] \cup [u : {"xid", "ret"}, v : Xids] \cup [u : {"code"}, v : Codes]

Typed ==
    /\ status \in {"NEW", "RUNNING", "STOPPING", "STOPPED"}
    /\ loop \in {"no", "select", "check", "accepted", "done"}
    /\ stop \in {"no", "join", "close", "wait", "done"}
    /\ handlers \subseteq Rpcs
    /\ link \in [Conns -> {"none", "backlog", "accepted", "served", "dropped"}]
    /\ sent \in [Conns -> 0 .. MaxReq]
    /\ rpc \in [Conns -> [Xids -> Rpcs \cup {none}]]
    /\ rd \in [Conns -> 0 .. 2 * MaxReq] /\ dp \in [Conns -> 0 .. MaxReq]
    /\ jobs \subseteq Conns \X Xids
    /\ stream \in [Conns -> Seq(Unit)] /\ w \in [Conns -> Nat]
    /\ out_l \in [Conns -> Threads \cup {none}]
    /\ writing \in [Conns -> BOOLEAN]
    /\ pc \in [Threads -> {"idle", "begin", "ret", "end", "clean"}]
    /\ cur \in [Threads -> Call \cup {none}]

TypeOK == Typed /\ refs \in [Conns -> Nat]

Init ==
    /\ status = "NEW" /\ loop = "no" /\ stop = "no" /\ handlers = {}
    /\ link = [k \in Conns |-> "none"] /\ refs = [k \in Conns |-> 0]
    /\ sent = [k \in Conns |-> 0] /\ rpc = [k \in Conns |-> [i \in Xids |-> none]]
    /\ rd = [k \in Conns |-> 0] /\ dp = [k \in Conns |-> 0] /\ jobs = {}
    /\ stream = [k \in Conns |-> << >>] /\ w = [k \in Conns |-> 0]
    /\ out_l = [k \in Conns |-> none] /\ writing = [k \in Conns |-> FALSE]
    /\ pc = [t \in Threads |-> "idle"] /\ cur = [t \in Threads |-> none]

-----------------------------------------------------------------------------
(* Registering, starting and accepting *)

\* __reg_to__: reg() refuses an rpc id that is taken, and then every function of
\* the service is unregistered.
Reg(s) ==
    /\ status = "NEW" /\ stop = "no"
    /\ handlers' = IF s \cap handlers = {} THEN handlers \cup s ELSE handlers \ s
    /\ UNCHANGED << status, loop, stop, link, refs, inVars, dp, jobs, outVars, pc, cur >>

Start ==
    /\ status = "NEW" /\ stop = "no"
    /\ status' = "RUNNING" /\ loop' = "select"
    /\ UNCHANGED << stop, handlers, link, refs, inVars, dp, jobs, outVars, pc, cur >>

\* server_loop: the test of the while, and select() that finds a client ...
LoopSelect ==
    /\ loop = "select" /\ status = "RUNNING" /\ \E k \in Conns : link[k] = "backlog"
    /\ loop' = "check"
    /\ UNCHANGED << status, stop, handlers, link, refs, inVars, dp, jobs, outVars, pc, cur >>

\* ... accept(), if status_ has not changed ...
LoopAccept ==
    /\ loop = "check" /\ status = "RUNNING"
    /\ \E k \in Conns : link[k] = "backlog" /\ link' = [link EXCEPT ![k] = "accepted"]
    /\ loop' = "accepted"
    /\ UNCHANGED << status, stop, handlers, refs, inVars, dp, jobs, outVars, pc, cur >>

\* ... and a TCPConnection held by TCPServer::sconns_ and by the poll manager, or,
\* if status_ has changed since, nothing at all.
LoopAdd ==
    /\ loop = "accepted" /\ loop' = "select"
    /\ \E k \in Conns :
          /\ link[k] = "accepted"
          /\ link' = [link EXCEPT ![k] = IF status = "RUNNING" THEN "served" ELSE "dropped"]
          /\ refs' = [refs EXCEPT ![k] = IF status = "RUNNING" THEN 2 ELSE 0]
    /\ UNCHANGED << status, stop, handlers, inVars, dp, jobs, outVars, pc, cur >>

\* Fault: the loop looks at status_ only when a client has come.
LoopEndLate ==
    /\ loop = "check" /\ status # "RUNNING"
    /\ loop' = "done" /\ status' = "STOPPED"
    /\ UNCHANGED << stop, handlers, link, refs, inVars, dp, jobs, outVars, pc, cur >>

LoopEnd ==
    /\ loop \in {"select", "check"} /\ status # "RUNNING"
    /\ loop' = "done" /\ status' = "STOPPED"
    /\ UNCHANGED << stop, handlers, link, refs, inVars, dp, jobs, outVars, pc, cur >>

-----------------------------------------------------------------------------
(* Stopping *)

StopCall ==
    /\ stop = "no"
    /\ status' = IF status = "RUNNING" THEN "STOPPING" ELSE status
    /\ stop' = IF status = "RUNNING" THEN "join" ELSE "close"
    /\ UNCHANGED << loop, handlers, link, refs, inVars, dp, jobs, outVars, pc, cur >>

StopJoin ==
    /\ stop = "join" /\ loop = "done"
    /\ stop' = "close"
    /\ UNCHANGED << status, loop, handlers, link, refs, inVars, dp, jobs, outVars, pc, cur >>

\* Server::sconns_, which TCPConnection::close consults: server_loop inserts the
\* connections into TCPServer::sconns_, a member of the same name, and nothing
\* ever inserts into this one.
sconns_ == {}

\* close() on every connection returns where it does not find itself in sconns_.
StopClose ==
    /\ stop = "close" /\ \A k \in Conns : k \notin sconns_
    /\ stop' = "wait"
    /\ UNCHANGED << status, loop, handlers, link, refs, inVars, dp, jobs, outVars, pc, cur >>

\* The wait until sconns_ctr_ is 0, and the release of the pool and the manager.
StopWait ==
    /\ stop = "wait" /\ \A k \in Conns : refs[k] = 0
    /\ stop' = "done" /\ status' = "STOPPED"
    /\ UNCHANGED << loop, handlers, link, refs, inVars, dp, jobs, outVars, pc, cur >>

-----------------------------------------------------------------------------
(* The poll thread of connection k *)

\* It is back in its loop: no reply and no parsed request is left to it.
Ready(k) == link[k] = "served" /\ pc[k] = "idle" /\ dp[k] = rd[k] \div 2

\* handle_read: some bytes are read, and every whole packet becomes a request.
HandleRead(k) ==
    /\ Ready(k)
    /\ \E n \in rd[k] + 1 .. 2 * sent[k] : rd' = [rd EXCEPT ![k] = n]
    /\ UNCHANGED << serverVars, refs, sent, rpc, dp, jobs, outVars, pc, cur >>

\* A thread starts to reply to request i of k.
StartReply(t, k, i, code) ==
    /\ pc' = [pc EXCEPT ![t] = "begin"]
    /\ cur' = [cur EXCEPT ![t] = [k |-> k, i |-> i, code |-> code]]

\* The next of the parsed requests has this rpc id.
NextCall(k, ids) ==
    /\ pc[k] = "idle" /\ dp[k] < rd[k] \div 2 /\ rpc[k][dp[k] + 1] \in ids
    /\ dp' = [dp EXCEPT ![k] = @ + 1]

\* "rpc id not provided"
DispatchShort(k) ==
    /\ NextCall(k, {none}) /\ StartReply(k, k, dp[k] + 1, "EINVAL")
    /\ UNCHANGED << serverVars, refs, inVars, jobs, outVars >>

\* Fault: a request nobody registered for is dropped.
DispatchMissingDropped(k) ==
    /\ NextCall(k, Rpcs \ handlers)
    /\ UNCHANGED << serverVars, refs, inVars, jobs, outVars, pc, cur >>

DispatchMissing(k) ==
    /\ NextCall(k, Rpcs \ handlers) /\ StartReply(k, k, dp[k] + 1, "ENOENT")
    /\ UNCHANGED << serverVars, refs, inVars, jobs, outVars >>

\* A handler is given a reference to the connection.  A fast one replies at once,
Handle(k) == refs' = [refs EXCEPT ![k] = @ + 1]

DispatchFast(k) ==
    /\ NextCall(k, Fast \cap handlers) /\ Handle(k) /\ StartReply(k, k, dp[k] + 1, "0")
    /\ UNCHANGED << serverVars, inVars, jobs, outVars >>

\* Fault: the request runs in the pool and on the poll thread as well.
DispatchTwice(k) ==
    /\ NextCall(k, (Normal \cup Defer) \cap handlers) /\ Handle(k) /\ StartReply(k, k, dp[k] + 1, "0")
    /\ jobs' = jobs \cup {<< k, dp[k] + 1 >>}
    /\ UNCHANGED << serverVars, inVars, outVars >>

\* others through the pool (run_async, which accepts work as long as the server
\* holds the pool) or when the service calls DeferredReply::reply.
DispatchLater(k) ==
    /\ NextCall(k, (Normal \cup Defer) \cap handlers) /\ Handle(k)
    /\ jobs' = jobs \cup {<< k, dp[k] + 1 >>}
    /\ UNCHANGED << serverVars, inVars, outVars, pc, cur >>

Dispatch(k) ==
    DispatchShort(k) \/ DispatchMissing(k) \/ DispatchFast(k) \/ DispatchLater(k)

\* Fault: EPOLLOUT is switched off though data is left.
HandleWriteOff(k) ==
    /\ Ready(k) /\ writing[k] /\ out_l[k] = none
    /\ \E n \in w[k] .. Len(stream[k]) : w' = [w EXCEPT ![k] = n]
    /\ writing' = [writing EXCEPT ![k] = FALSE]
    /\ UNCHANGED << serverVars, refs, inVars, dp, jobs, stream, out_l, pc, cur >>

\* handle_write: some prefix of out_ goes out, under out_l_.
HandleWrite(k) ==
    /\ Ready(k) /\ writing[k] /\ out_l[k] = none
    /\ \E n \in w[k] .. Len(stream[k]) :
          /\ w' = [w EXCEPT ![k] = n]
          /\ writing' = [writing EXCEPT ![k] = n < Len(stream[k])]
    /\ UNCHANGED << serverVars, refs, inVars, dp, jobs, stream, out_l, pc, cur >>

-----------------------------------------------------------------------------
(* begin_reply ... end_reply, by any thread *)

\* A worker takes a call from the pool, or the service one it had deferred.
Take(t) ==
    /\ t \in Workers /\ pc[t] = "idle"
    /\ \E j \in jobs : StartReply(t, j[1], j[2], "0") /\ jobs' = jobs \ {j}
    /\ UNCHANGED << serverVars, refs, inVars, dp, outVars >>

Goto(t, l) == pc' = [pc EXCEPT ![t] = l]
K(t) == cur[t].k
Put(t, units) == stream' = [stream EXCEPT ![K(t)] = @ \o units]
Header(c) == << [u |-> "size", v |-> 0], [u |-> "xid", v |-> c.i], [u |-> "code", v |-> c.code] >>

\* Fault: out_l_ is not taken.
BeginReplyUnlocked(t) ==
    /\ pc[t] = "begin"
    /\ Put(t, Header(cur[t]))
    /\ Goto(t, IF cur[t].code = "0" THEN "ret" ELSE "end")
    /\ UNCHANGED << serverVars, refs, inVars, dp, jobs, w, out_l, writing, cur >>

\* out_l_ is locked, a bookmark set, the xid and the error code marshalled.
BeginReply(t) ==
    /\ pc[t] = "begin" /\ out_l[K(t)] = none
    /\ out_l' = [out_l EXCEPT ![K(t)] = t]
    /\ Put(t, Header(cur[t]))
    /\ Goto(t, IF cur[t].code = "0" THEN "ret" ELSE "end")
    /\ UNCHANGED << serverVars, refs, inVars, dp, jobs, w, writing, cur >>

\* The stub marshals the result.
MarshalReply(t) ==
    /\ pc[t] = "ret"
    /\ Put(t, << [u |-> "ret", v |-> cur[t].i] >>)
    /\ Goto(t, "end")
    /\ UNCHANGED << serverVars, refs, inVars, dp, jobs, w, out_l, writing, cur >>

\* The bookmark m, behind which this reply was written, gets the number of units
\* written since, and out_l_ is unlocked.
EndReply(t) ==
    /\ pc[t] = "end"
    /\ LET s == stream[K(t)] m == Len(s) - (IF cur[t].code = "0" THEN 3 ELSE 2) IN
          stream' = [stream EXCEPT ![K(t)] = [s EXCEPT ![m].v = Len(s) - m]]
    /\ writing' = [writing EXCEPT ![K(t)] = TRUE]
    /\ out_l' = [out_l EXCEPT ![K(t)] = none]
    /\ Goto(t, "clean")
    /\ UNCHANGED << serverVars, refs, inVars, dp, jobs, w, cur >>

\* Fault: a reference is released that only handlers were given.
CleanAlways(t) ==
    /\ pc[t] = "clean"
    /\ refs' = [refs EXCEPT ![K(t)] = @ - 1]
    /\ Goto(t, "idle") /\ cur' = [cur EXCEPT ![t] = none]
    /\ UNCHANGED << serverVars, inVars, dp, jobs, outVars >>

\* The request is deleted, and the connection released by a handler.
Clean(t) ==
    /\ pc[t] = "clean"
    /\ refs' = IF cur[t].code = "0" THEN [refs EXCEPT ![K(t)] = @ - 1] ELSE refs
    /\ Goto(t, "idle") /\ cur' = [cur EXCEPT ![t] = none]
    /\ UNCHANGED << serverVars, inVars, dp, jobs, outVars >>

Reply(t) == BeginReply(t) \/ MarshalReply(t) \/ EndReply(t) \/ Clean(t)

-----------------------------------------------------------------------------
\* External: a client connects and sends requests.
Connect(k) ==
    /\ link[k] = "none" /\ status = "RUNNING"
    /\ link' = [link EXCEPT ![k] = "backlog"]
    /\ UNCHANGED << status, loop, stop, handlers, refs, inVars, dp, jobs, outVars, pc, cur >>

Send(k) ==
    /\ link[k] # "none" /\ sent[k] < MaxReq
    /\ sent' = [sent EXCEPT ![k] = @ + 1]
    /\ \E id \in Rpcs \cup {none} : rpc' = [rpc EXCEPT ![k][sent[k] + 1] = id]
    /\ UNCHANGED << serverVars, refs, rd, dp, jobs, outVars, pc, cur >>

Loop == LoopSelect \/ LoopAccept \/ LoopAdd \/ LoopEnd
Stop == StopJoin \/ StopClose \/ StopWait

Next ==
    \/ \E s \in Services : Reg(s)
    \/ Start \/ Loop \/ StopCall \/ Stop
    \/ \E k \in Conns : Connect(k) \/ Send(k) \/ HandleRead(k) \/ Dispatch(k) \/ HandleWrite(k)
    \/ \E t \in Threads : Take(t) \/ Reply(t)

\* Every thread makes progress, a socket is writable again in the end, and a
\* deferred reply is made.  Nobody has to connect, send or stop.
Fairness ==
    /\ WF_vars(Loop) /\ WF_vars(Stop)
    /\ \A k \in Conns :
          /\ WF_vars(HandleRead(k)) /\ WF_vars(Dispatch(k))
          /\ WF_vars(HandleWrite(k) /\ w' # w)
    /\ \A t \in Threads : WF_vars(Take(t)) /\ WF_vars(Reply(t))

Spec == Init /\ [][Next]_vars
FairSpec == Spec /\ Fairness

-----------------------------------------------------------------------------
(* Properties *)

\* What is written at place a of a stream of replies is part of a whole one.
Fits(s, a) ==
    /\ s[a].u = "size" => s[a].v \in {2, 3} /\ a + s[a].v <= Len(s) /\ s[a + 1].u = "xid"
    /\ s[a].u = "xid" => a > 1 /\ a < Len(s) /\ s[a - 1].u = "size" /\ s[a + 1].u = "code"
    /\ s[a].u = "code" =>
          /\ a > 2 /\ s[a - 1].u = "xid"
          /\ IF s[a].v # "0" THEN s[a - 2].v = 2
             ELSE s[a - 2].v = 3 /\ a < Len(s) /\ s[a + 1] = [u |-> "ret", v |-> s[a - 1].v]
    /\ s[a].u = "ret" => a > 3 /\ s[a - 1].u = "code"

\* "<size> <xid> <error_code> <ret1> <ret2> ... <retN>" (server.hpp): whatever
\* threads reply on a connection, its client reads whole replies one after another.
RepliesWhole == \A k \in Conns : \A a \in 1 .. w[k] : Fits(stream[k], a)

\* A request is answered at most once, and with the code of what happened to it:
\* "0: everything is fine, ENOENT: method not found, EINVAL: invalid packet".
CodeOf(id) == IF id = none THEN "EINVAL" ELSE IF id \in handlers THEN "0" ELSE "ENOENT"

AnsweredOnce ==
    \A k \in Conns : \A a, b \in 1 .. Len(stream[k]) :
        LET s == stream[k] IN
        s[a].u = "xid" =>
            /\ s[b].u = "xid" /\ s[b].v = s[a].v => a = b
            /\ a < Len(s) => s[a + 1].v = CodeOf(rpc[k][s[a].v])

\* "the handler should delete req, and release server_connection refcopy" (server.cpp):
\* a connection is referenced by the server, the poll manager and each handler
\* that has not finished, on whichever thread.
JobsOf(k) == {j \in jobs : j[1] = k}
HandlersOn(k) == {t \in Threads : cur[t] # none /\ cur[t].k = k /\ cur[t].code = "0"}
RefsMatchHolders ==
    TypeOK /\ \A k \in Conns :
        refs[k] = (IF link[k] = "served" THEN 2 ELSE 0) + Cardinality(JobsOf(k)) + Cardinality(HandlersOn(k))

\* Every request a served client sends is answered, by whichever thread, also
\* while the server is stopping.
RequestAnswered ==
    \A k \in Conns, i \in Xids :
        link[k] = "served" /\ i <= sent[k] ~>
            \E a \in 1 .. w[k] : stream[k][a] = [u |-> "xid", v |-> i]

\* stop() gets past "wait till accepting thread done" (server.cpp).
AcceptingEnds == stop = "join" ~> stop # "join"

\* "Closes all TCP connections" and "make sure all open connections are closed"
\* (server.cpp): stop() returns.
StopReturns == stop # "no" ~> stop = "done"
==============================================================================
