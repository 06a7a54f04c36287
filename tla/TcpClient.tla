------------------------------ MODULE TcpClient ------------------------------
(***************************************************************************)
(* rrr::TCPClient (src/src/rpc/client.{hpp,cpp}), built without DPDK:       *)
(* threads issue requests between begin_request() and end_request(), one   *)
(* poll thread runs handle_read, handle_write and handle_error, and any    *)
(* thread may close the client.                                            *)
(*                                                                         *)
(* out_ and in_ are sequences of marshalled units: a packet of a request is *)
(* its size, xid, rpc id and arguments; one of a reply is a header (size,   *)
(* xid, error code) and a payload.  out_l_ is held from begin_request to    *)
(* end_request.  status_ is read without a lock, so each read is a step.    *)
(* The server and the network are external.                                *)
(***************************************************************************)
EXTENDS Naturals, Sequences, FiniteSets

CONSTANTS
    Callers,     \* threads that issue requests
    Closers,     \* threads, other than the poll thread, that close the client
    MaxXid,      \* bound: requests issued
    MaxConnects, \* bound: calls of connect
    Eager,       \* whether callers may call while connect is in progress
    poll, none   \* the poll thread; no thread

ASSUME ClientAssumption ==
    /\ MaxXid \in Nat /\ MaxConnects \in Nat /\ Eager \in BOOLEAN
    /\ IsFiniteSet(Closers)
    /\ poll \notin Callers \cup Closers /\ Callers \cap Closers = {}
    /\ none \notin Callers \cup Closers \cup {poll}

Xids == 1 .. MaxXid

VARIABLES
    status,   \* status_
    conn,     \* [n: sockets opened so far, add: where connect() is,
              \*  open: whether sock_ is, closes: how often it was ::close()d]
    xid,      \* xid_counter_
    pending,  \* pending_fu_
    fu,       \* per future [refs, done, hits]: references, what it reports,
              \* how often notify_ready ran
    out,      \* out_
    out_l,    \* the thread that holds out_l_
    writing,  \* the poll thread waits for EPOLLOUT
    in,       \* in_
    net,      \* replies on their way to the client
    wire,     \* units the server received on this connection
    answered, \* requests the server replied to
    pc, cur,  \* where each caller is, and its future
    hp, job   \* where each closer is, and the futures it is completing

clientVars == << status, conn, xid, pending, fu >>
ioVars == << out, out_l, writing, in, net, wire, answered >>
vars == << clientVars, ioVars, pc, cur, hp, job >>

Unit == [k : {"size"}, v : 0 .. 3] \cup [k : {"xid", "rpc", "arg", "hdr", "ret"}, v : Xids]
Closing == Closers \cup {poll}

TypeOK ==
    /\ status \in {"NEW", "CONNECTED", "CLOSED"}
    /\ conn \in [n : 0 .. MaxConnects, add : {"no", "mode", "read", "write", "done"},
                 open : BOOLEAN, closes : 0 .. Cardinality(Closing)]
    /\ xid \in 0 .. MaxXid
    /\ pending \subseteq Xids
    /\ fu \in [Xids -> [refs : 0 .. 2, done : {"no", "reply", "ENOTCONN"}, hits : Nat]]
    /\ out \in Seq(Unit) /\ in \in Seq(Unit) /\ net \in Seq(Unit) /\ wire \in Seq(Unit)
    /\ out_l \in Callers \cup {none}
    /\ writing \in BOOLEAN
    /\ answered \subseteq Xids
    /\ pc \in [Callers -> {"idle", "new", "recheck", "undo", "mark", "xid", "rpc", "ref",
                           "arg", "end", "hold"}]
    /\ cur \in [Callers -> Xids \cup {0}]
    /\ hp \in [Closing -> {"idle", "mark", "swap", "notify", "parse"}]
    /\ job \in [Closing -> SUBSET Xids]

Init ==
    /\ status = "NEW"
    /\ conn = [n |-> 0, add |-> "no", open |-> FALSE, closes |-> 0]
    /\ xid = 0
    /\ pending = {}
    /\ fu = [x \in Xids |-> [refs |-> 0, done |-> "no", hits |-> 0]]
    /\ out = << >> /\ in = << >> /\ net = << >> /\ wire = << >>
    /\ out_l = none /\ writing = FALSE /\ answered = {}
    /\ pc = [c \in Callers |-> "idle"] /\ cur = [c \in Callers |-> 0]
    /\ hp = [p \in Closing |-> "idle"] /\ job = [p \in Closing |-> {}]

-----------------------------------------------------------------------------
(* connect *)

\* The socket is connected and status_ set; the old in_ and out_ stay.
Connect ==
    /\ conn.n < MaxConnects /\ conn.add \in {"no", "done"} /\ status # "CONNECTED"
    /\ status' = "CONNECTED"
    /\ conn' = [n |-> conn.n + 1, add |-> "mode", open |-> TRUE, closes |-> 0]
    /\ net' = << >> /\ wire' = << >> /\ writing' = FALSE
    /\ UNCHANGED << xid, pending, fu, out, out_l, in, answered, pc, cur, hp, job >>

\* pollmgr_->add: poll_mode() looks at out_ under out_l_ ...
AddMode ==
    /\ conn.add = "mode" /\ out_l = none
    /\ conn' = [conn EXCEPT !.add = IF out = << >> THEN "read" ELSE "write"]
    /\ UNCHANGED << status, xid, pending, fu, ioVars, pc, cur, hp, job >>

\* ... and the client is registered with that mode later.
AddRegister ==
    /\ conn.add \in {"read", "write"}
    /\ conn' = [conn EXCEPT !.add = "done"]
    /\ writing' = (conn.add = "write")
    /\ UNCHANGED << status, xid, pending, fu, out, out_l, in, net, wire, answered, pc, cur, hp, job >>

\* update_mode does nothing for a client that is not registered (yet).
UpdateMode(w) == writing' = IF conn.add = "done" /\ conn.open THEN w ELSE writing

-----------------------------------------------------------------------------
(* begin_request ... end_request *)

Goto(c, l) == pc' = [pc EXCEPT ![c] = l]

Begin(c) ==
    /\ pc[c] = "idle" /\ xid < MaxXid /\ out_l = none
    /\ ~Eager => conn.add = "done"
    /\ out_l' = c
    /\ Goto(c, IF status = "CONNECTED" THEN "new" ELSE "end")
    /\ UNCHANGED << clientVars, out, writing, in, net, wire, answered, cur, hp, job >>

\* new Future(xid_counter_.next()), inserted into pending_fu_.
Insert(c) ==
    /\ pc[c] = "new"
    /\ xid' = xid + 1
    /\ fu' = [fu EXCEPT ![xid + 1].refs = 1]
    /\ pending' = pending \cup {xid + 1}
    /\ cur' = [cur EXCEPT ![c] = xid + 1]
    /\ Goto(c, "recheck")
    /\ UNCHANGED << status, conn, ioVars, hp, job >>

\* Fault: the second look at status_ is dropped.
RecheckDropped(c) ==
    /\ pc[c] = "recheck"
    /\ Goto(c, "mark")
    /\ UNCHANGED << clientVars, ioVars, cur, hp, job >>

\* "check if the client gets closed in the meantime"
Recheck(c) ==
    /\ pc[c] = "recheck"
    /\ Goto(c, IF status = "CONNECTED" THEN "mark" ELSE "undo")
    /\ UNCHANGED << clientVars, ioVars, cur, hp, job >>

\* Fault: the future is erased but not released.
UndoLeak(c) ==
    /\ pc[c] = "undo"
    /\ pending' = pending \ {cur[c]}
    /\ cur' = [cur EXCEPT ![c] = 0]
    /\ Goto(c, "end")
    /\ UNCHANGED << status, conn, xid, fu, ioVars, hp, job >>

\* It was: the future is dropped unless invalidate_pending_futures() took it.
Undo(c) ==
    /\ pc[c] = "undo"
    /\ fu' = IF cur[c] \in pending THEN [fu EXCEPT ![cur[c]].refs = @ - 1] ELSE fu
    /\ pending' = pending \ {cur[c]}
    /\ cur' = [cur EXCEPT ![c] = 0]
    /\ Goto(c, "end")
    /\ UNCHANGED << status, conn, xid, ioVars, hp, job >>

\* set_bookmark, to be filled by end_request.
Mark(c) ==
    /\ pc[c] = "mark"
    /\ out' = Append(out, [k |-> "size", v |-> 0])
    /\ Goto(c, "xid")
    /\ UNCHANGED << clientVars, out_l, writing, in, net, wire, answered, cur, hp, job >>

\* operator<< marshals only while status_ is CONNECTED: the xid and the rpc id in
\* begin_request, then the arguments by the caller.
Put(c) ==
    /\ pc[c] \in {"xid", "rpc", "arg"}
    /\ out' = IF status = "CONNECTED" THEN Append(out, [k |-> pc[c], v |-> cur[c]]) ELSE out
    /\ Goto(c, CASE pc[c] = "xid" -> "rpc" [] pc[c] = "rpc" -> "ref" [] pc[c] = "arg" -> "end")
    /\ UNCHANGED << clientVars, out_l, writing, in, net, wire, answered, cur, hp, job >>

\* return fu->ref_copy(): "one ref is already in pending_fu_".  When that one is
\* gone the memory is freed; the model goes on as if it were still intact.
RefCopy(c) ==
    /\ pc[c] = "ref"
    /\ fu' = [fu EXCEPT ![cur[c]].refs = @ + 1]
    /\ Goto(c, "arg")
    /\ UNCHANGED << status, conn, xid, pending, ioVars, cur, hp, job >>

LastMark == CHOOSE i \in 1 .. Len(out) :
                out[i].k = "size" /\ \A j \in i + 1 .. Len(out) : out[j].k # "size"

\* Fault: the bookmark is not filled.
EndUnsized(c) ==
    /\ pc[c] = "end" /\ out_l' = none /\ UpdateMode(TRUE)
    /\ Goto(c, IF cur[c] = 0 THEN "idle" ELSE "hold")
    /\ UNCHANGED << clientVars, out, in, net, wire, answered, cur, hp, job >>

\* end_request: the size is the number of units written since the bookmark.
End(c) ==
    /\ pc[c] = "end" /\ out_l' = none /\ UpdateMode(TRUE)
    /\ out' = IF cur[c] = 0 THEN out ELSE [out EXCEPT ![LastMark].v = Len(out) - LastMark]
    /\ Goto(c, IF cur[c] = 0 THEN "idle" ELSE "hold")
    /\ UNCHANGED << clientVars, in, net, wire, answered, cur, hp, job >>

\* The caller waits for the future and releases it.
Release(c) ==
    /\ pc[c] = "hold" /\ fu[cur[c]].done # "no"
    /\ fu' = [fu EXCEPT ![cur[c]].refs = @ - 1]
    /\ cur' = [cur EXCEPT ![c] = 0]
    /\ Goto(c, "idle")
    /\ UNCHANGED << status, conn, xid, pending, ioVars, hp, job >>

-----------------------------------------------------------------------------
(* close, by the user or by handle_error on the poll thread *)

Enter(p, l) == hp' = [hp EXCEPT ![p] = l]

\* if (status_ == CONNECTED) { pollmgr_->remove(this); ::close(sock_); }
CloseSocket(p) ==
    /\ hp[p] = "idle" /\ conn.add = "done"
    /\ IF status = "CONNECTED"
       THEN conn' = [conn EXCEPT !.open = FALSE, !.closes = @ + 1] /\ writing' = FALSE
       ELSE UNCHANGED << conn, writing >>
    /\ Enter(p, "mark")
    /\ UNCHANGED << status, xid, pending, fu, out, out_l, in, net, wire, answered, pc, cur, job >>

CloseMark(p) ==
    /\ hp[p] = "mark"
    /\ status' = "CLOSED"
    /\ Enter(p, "swap")
    /\ UNCHANGED << conn, xid, pending, fu, ioVars, pc, cur, job >>

\* invalidate_pending_futures: the table is emptied under pending_fu_l_ ...
CloseSwap(p) ==
    /\ hp[p] = "swap"
    /\ job' = [job EXCEPT ![p] = pending]
    /\ pending' = {}
    /\ Enter(p, "notify")
    /\ UNCHANGED << status, conn, xid, fu, ioVars, pc, cur >>

Complete(x, how) == fu' = [fu EXCEPT ![x] = [refs |-> @.refs - 1, done |-> how, hits |-> @.hits + 1]]

\* ... and each future is completed and released.
CloseNotify(p) ==
    /\ hp[p] = "notify"
    /\ \/ \E x \in job[p] : Complete(x, "ENOTCONN") /\ job' = [job EXCEPT ![p] = @ \ {x}] /\ hp' = hp
       \/ job[p] = {} /\ Enter(p, "idle") /\ UNCHANGED << fu, job >>
    /\ UNCHANGED << status, conn, xid, pending, ioVars, pc, cur >>

-----------------------------------------------------------------------------
(* The poll thread *)

\* Fault: EPOLLOUT is switched off though data is left.
HandleWriteOff ==
    /\ hp[poll] = "idle" /\ writing /\ status = "CONNECTED" /\ conn.open /\ out_l = none
    /\ \E n \in 0 .. Len(out) :
          /\ wire' = wire \o SubSeq(out, 1, n)
          /\ out' = SubSeq(out, n + 1, Len(out))
    /\ UpdateMode(FALSE)
    /\ UNCHANGED << clientVars, out_l, in, net, answered, pc, cur, hp, job >>

\* handle_write: some prefix of out_ goes out, under out_l_.
HandleWrite ==
    /\ hp[poll] = "idle" /\ writing /\ status = "CONNECTED" /\ conn.open /\ out_l = none
    /\ \E n \in 0 .. Len(out) :
          /\ wire' = wire \o SubSeq(out, 1, n)
          /\ out' = SubSeq(out, n + 1, Len(out))
          /\ UpdateMode(n # Len(out))
    /\ UNCHANGED << clientVars, out_l, in, net, answered, pc, cur, hp, job >>

\* handle_read: read_from_fd ...
HandleRead ==
    /\ hp[poll] = "idle" /\ conn.add = "done" /\ status = "CONNECTED" /\ conn.open
    /\ net # << >>
    /\ \E n \in 1 .. Len(net) : in' = in \o SubSeq(net, 1, n) /\ net' = SubSeq(net, n + 1, Len(net))
    /\ Enter(poll, "parse")
    /\ UNCHANGED << clientVars, out, out_l, writing, wire, answered, pc, cur, job >>

Whole == Len(in) >= 2 /\ in[1].k = "hdr"

\* Fault: the entry of a reply stays in pending_fu_.
ParseKeep ==
    /\ hp[poll] = "parse" /\ job[poll] = {} /\ Whole
    /\ in[1].v \in pending
    /\ pending' = pending
    /\ job' = [job EXCEPT ![poll] = {in[1].v}] /\ in' = SubSeq(in, 3, Len(in))
    /\ UNCHANGED << status, conn, xid, fu, out, out_l, writing, net, wire, answered, pc, cur, hp >>

\* Fault: replies are taken to come in the order of the requests.
ParseInOrder ==
    /\ hp[poll] = "parse" /\ job[poll] = {} /\ Whole /\ pending # {}
    /\ \E x \in pending :
          /\ \A y \in pending : x <= y
          /\ pending' = pending \ {x} /\ job' = [job EXCEPT ![poll] = {x}]
    /\ in' = SubSeq(in, 3, Len(in))
    /\ UNCHANGED << status, conn, xid, fu, out, out_l, writing, net, wire, answered, pc, cur, hp >>

\* ... and the loop over whole packets.  The future is looked up and erased under
\* pending_fu_l_; its payload is consumed only when it was found.
Parse ==
    /\ hp[poll] = "parse" /\ job[poll] = {} /\ Whole
    /\ IF in[1].v \in pending
       THEN /\ pending' = pending \ {in[1].v}
            /\ job' = [job EXCEPT ![poll] = {in[1].v}]
            /\ in' = SubSeq(in, 3, Len(in))
       ELSE UNCHANGED << pending, job >> /\ in' = Tail(in)
    /\ UNCHANGED << status, conn, xid, fu, out, out_l, writing, net, wire, answered, pc, cur, hp >>

\* error_code_ and reply_ are stored, notify_ready() and release() called.
ParseNotify ==
    /\ hp[poll] = "parse"
    /\ \E x \in job[poll] : Complete(x, "reply")
    /\ job' = [job EXCEPT ![poll] = {}]
    /\ UNCHANGED << status, conn, xid, pending, ioVars, pc, cur, hp >>

\* A payload left over is read as a packet size: the units in front of the next
\* such size are dropped, or taken for a reply to some pending request.
ParseStray ==
    /\ hp[poll] = "parse" /\ job[poll] = {} /\ in # << >> /\ in[1].k = "ret"
    /\ in' = Tail(in)
    /\ \/ UNCHANGED << pending, job >>
       \/ \E x \in pending : pending' = pending \ {x} /\ job' = [job EXCEPT ![poll] = {x}]
    /\ UNCHANGED << status, conn, xid, fu, out, out_l, writing, net, wire, answered, pc, cur, hp >>

\* "packet incomplete or no more packets to process"
ParseEnd ==
    /\ hp[poll] = "parse" /\ job[poll] = {} /\ ~Whole
    /\ Enter(poll, "idle")
    /\ UNCHANGED << clientVars, ioVars, pc, cur, job >>

-----------------------------------------------------------------------------
\* External: the server answers a request it has received.
Answer(x) ==
    /\ conn.open /\ x \notin answered
    /\ \E i \in 1 .. Len(wire) : wire[i] = [k |-> "arg", v |-> x]
    /\ net' = net \o << [k |-> "hdr", v |-> x], [k |-> "ret", v |-> x] >>
    /\ answered' = answered \cup {x}
    /\ UNCHANGED << clientVars, out, out_l, writing, in, wire, pc, cur, hp, job >>

Request(c) == Insert(c) \/ Recheck(c) \/ Undo(c) \/ Mark(c) \/ Put(c) \/ RefCopy(c) \/ End(c)

Close(p) == CloseMark(p) \/ CloseSwap(p) \/ CloseNotify(p)

Read == Parse \/ ParseNotify \/ ParseStray \/ ParseEnd

Next ==
    \/ Connect \/ AddMode \/ AddRegister
    \/ \E c \in Callers : Begin(c) \/ Request(c) \/ Release(c)
    \/ \E p \in Closing : CloseSocket(p) \/ Close(p)
    \/ HandleWrite \/ HandleRead \/ Read
    \/ \E x \in Xids : Answer(x)

\* Threads make progress inside their calls, the poll thread serves the socket,
\* and the server answers while the connection is open.  Nobody has to call,
\* connect or close.
Fairness ==
    /\ WF_vars(AddMode) /\ WF_vars(AddRegister)
    /\ \A c \in Callers : WF_vars(Request(c)) /\ WF_vars(Release(c))
    /\ \A p \in Closing : WF_vars(Close(p))
    /\ WF_vars(HandleWrite /\ wire' # wire) /\ WF_vars(HandleRead) /\ WF_vars(Read)
    /\ \A x \in Xids : WF_vars(Answer(x))

Spec == Init /\ [][Next]_vars
FairSpec == Spec /\ Fairness

-----------------------------------------------------------------------------
(* Properties *)

\* "The request packet format is: <size> <xid> <rpc_id> <arg1> ... <argN>"
\* (client.hpp): whatever is closed, whenever, what the server receives is a
\* sequence of whole requests, up to where the stream stops.
RequestsWhole ==
    TypeOK /\ \A i \in 1 .. Len(wire) :
        LET u == wire[i] IN
        CASE i % 4 = 1 -> u = [k |-> "size", v |-> 3]
          [] i % 4 = 2 -> u.k = "xid"
          [] i % 4 = 3 -> u = [k |-> "rpc", v |-> wire[i - 1].v]
          [] i % 4 = 0 -> u = [k |-> "arg", v |-> wire[i - 1].v]

\* A future is completed at most once, though handle_read, close() on any thread
\* and begin_request itself compete for its entry in pending_fu_.
CompletedOnce == \A x \in Xids : fu[x].hits <= 1

\* The references of a future: one of whoever has to complete it and one of the
\* caller that was given it.
Owed == pending \cup UNION {job[p] : p \in Closing}
HeldBy(x) == {c \in Callers : cur[c] = x /\ pc[c] \in {"arg", "end", "hold"}}
RefsMatchHolders ==
    \A x \in Xids : fu[x].refs = (IF x \in Owed THEN 1 ELSE 0) + Cardinality(HeldBy(x))

\* When the client is closed and nobody is still closing it or inside
\* begin_request, no future is left in pending_fu_ to wait for ever.
CloseLeavesNothingPending ==
    /\ status = "CLOSED"
    /\ \A p \in Closing : hp[p] # "swap"
    /\ \A c \in Callers : pc[c] \notin {"recheck", "undo"}
    => pending = {}

\* A connection implements Calls: a future that begin_request returned reports the
\* reply to its own request, or that the client was closed, and never changes its mind.
C == INSTANCE Calls WITH
         call <- [c \in Callers |-> IF pc[c] = "hold" THEN cur[c] ELSE 0],
         result <- [c \in Callers |-> IF pc[c] = "hold" THEN fu[cur[c]].done ELSE "no"],
         over <- {x \in 1 .. xid : \A c \in Callers : cur[c] # x},
         down <- status = "CLOSED"
IsCalls == C!Spec

\* A future that begin_request returned is completed and the caller goes on.
CallReturns == \A c \in Callers : pc[c] = "hold" ~> pc[c] = "idle"

\* "one ref is already in pending_fu_" (client.cpp): begin_request touches the
\* future only while it exists.
FutureAlive == \A c \in Callers : pc[c] \in {"xid", "ref"} => fu[cur[c]].refs > 0
==============================================================================
