-------------------------------- MODULE Dpdk ---------------------------------
(***************************************************************************)
(* RPC over DPDK: the event loops of DpdkTransport, its connect() and       *)
(* accept() handshake, UDPClient and the connections of UDPServer           *)
(* (src/src/rpc/dpdk_transport, UDPServer.cpp and UDPClient in client.cpp).  *)
(*                                                                         *)
(* A host runs event-loop threads that share nothing but conn_th_lock, the  *)
(* map of connections and rings.  A packet may be lost or delayed; the      *)
(* receiving NIC hands all packets of a flow to the same thread (RSS).      *)
(* A connection is known on the server by the port it was given.           *)
(*                                                                         *)
(* Handlers are "fast" ones: a request is answered by the thread that       *)
(* received it, in its own packet.                                         *)
(***************************************************************************)
EXTENDS Naturals, Sequences, Functions, FiniteSets

CONSTANTS
    Hosts, Conns,
    From, To,   \* the client's and the server's host of each connection
    NThreads,   \* num_threads_ of each host
    Ports,      \* what s_port_counter can give
    RingSize,   \* bound: packets in a ring
    MaxReq,     \* bound: requests of a client
    MaxLosses,  \* bound: packets the network loses
    none        \* no connection

ASSUME DpdkAssumption ==
    /\ From \in [Conns -> Hosts] /\ To \in [Conns -> Hosts]
    /\ \A c \in Conns : From[c] # To[c]
    /\ NThreads \in [Hosts -> Nat \ {0}]
    /\ Ports \subseteq Nat \ {0} /\ Cardinality(Ports) >= Cardinality(Conns)
    /\ RingSize \in Nat \ {0} /\ MaxReq \in Nat /\ MaxLosses \in Nat /\ none \notin Conns

Threads(h) == 1 .. NThreads[h]
AllThreads == UNION {Threads(h) : h \in Hosts}
Kinds == {"CON", "CON_ACK", "RR", "RR_BG"}
Xids == 1 .. MaxReq

VARIABLES
    rss,     \* the thread each flow is received by
    ord,     \* the order of a thread's t_conns
    serving, \* us_server of each host is set
    held,    \* conn_th_lock: the connection being made
    accepted,\* on the server: the port given to each connection, or 0
    made,    \* the server's connections, with their port
    st,      \* what the client is doing
    acked,   \* out_addr.port once connected_, or 0
    job,     \* the thread that has the client as poll job, or 0
    pc,      \* of each thread: in its loop, or in accept()
    sm,      \* sm_ring of each thread
    tab,     \* out_connections and t_conns of each thread
    outr,    \* out_bufring of each client
    inr,     \* in_bufring of each client
    sent, pend, got, \* xid_counter_, pending_fu_, the futures that are ready
    runs,    \* how often each request was executed
    lost,    \* requests that were lost, or whose reply was
    losses,  \* packets the network lost
    net      \* packets on the wire

Looping == << "loop", none >>
hs == << serving, held, accepted, made, st, acked, job >>
cl == << sent, pend, got >>
vars == << rss, ord, hs, pc, sm, tab, outr, inr, cl, runs, lost, losses, net >>

Packet == [k : Kinds, c : Conns, p : Ports \cup {0}, x : Xids \cup {0}]
Pkt(k, c, p, x) == [k |-> k, c |-> c, p |-> p, x |-> x]
Target(k, c) == IF k \in {"CON", "RR"} THEN To[c] ELSE From[c]

TypeOK ==
    /\ \A c \in Conns, k \in Kinds : rss[c][k] \in Threads(Target(k, c))
    /\ serving \in [Hosts -> BOOLEAN] /\ held \in [Hosts -> Conns \cup {none}]
    /\ accepted \in [Conns -> Ports \cup {0}] /\ made \subseteq Conns \X Ports
    /\ st \in [Conns -> {"new", "conn", "wait", "up", "closed"}]
    /\ acked \in [Conns -> Ports \cup {0}] /\ job \in [Conns -> AllThreads \cup {0}]
    /\ pc \in [Hosts -> [AllThreads -> {Looping} \cup ({"accept", "tell"} \X Conns)]]
    /\ sm \in [Hosts -> [AllThreads -> SUBSET (Conns \X Ports)]]
    /\ tab \in [Hosts -> [AllThreads -> SUBSET (Conns \X Ports)]]
    /\ outr \in [Conns -> [AllThreads -> Seq(Xids)]] /\ inr \in [Conns -> [AllThreads -> Seq(Xids)]]
    /\ \A c \in Conns, t \in AllThreads : Len(outr[c][t]) <= RingSize /\ Len(inr[c][t]) <= RingSize
    /\ sent \in [Conns -> 0 .. MaxReq] /\ pend \in [Conns -> SUBSET Xids]
    /\ got \in [Conns -> [Xids -> {"-", "ok", "ENOTCONN"}]]
    /\ runs \in [Conns -> [Xids -> Nat]] /\ lost \subseteq Conns \X Xids
    /\ losses \in 0 .. MaxLosses /\ net \subseteq Packet

Init ==
    /\ rss \in [Conns -> [Kinds -> AllThreads]]
    /\ \A c \in Conns, k \in Kinds : rss[c][k] \in Threads(Target(k, c))
    /\ ord \in {f \in [Conns -> 1 .. Cardinality(Conns)] : \A c, d \in Conns : f[c] = f[d] => c = d}
    /\ serving = [h \in Hosts |-> FALSE] /\ held = [h \in Hosts |-> none]
    /\ accepted = [c \in Conns |-> 0] /\ made = {}
    /\ st = [c \in Conns |-> "new"] /\ acked = [c \in Conns |-> 0] /\ job = [c \in Conns |-> 0]
    /\ pc = [h \in Hosts |-> [t \in AllThreads |-> Looping]]
    /\ sm = [h \in Hosts |-> [t \in AllThreads |-> {}]] /\ tab = sm
    /\ outr = [c \in Conns |-> [t \in AllThreads |-> << >>]] /\ inr = outr
    /\ sent = [c \in Conns |-> 0] /\ pend = [c \in Conns |-> {}]
    /\ got = [c \in Conns |-> [x \in Xids |-> "-"]]
    /\ runs = [c \in Conns |-> [x \in Xids |-> 0]] /\ lost = {} /\ losses = 0 /\ net = {}

-----------------------------------------------------------------------------
(* The application *)

\* UDPServer::start and server_loop: reg_us_server.
RegServer(h) ==
    /\ \E c \in Conns : To[c] = h
    /\ ~serving[h] /\ serving' = [serving EXCEPT ![h] = TRUE]
    /\ UNCHANGED << rss, ord, held, accepted, made, st, acked, job, pc, sm, tab, outr, inr, cl, runs, lost, losses, net >>

\* connect(): takes the lock, which it keeps until it is connected.
ConnectBegin(c) ==
    /\ st[c] = "new" /\ held[From[c]] = none
    /\ st' = [st EXCEPT ![c] = "conn"] /\ held' = [held EXCEPT ![From[c]] = c]
    /\ UNCHANGED << rss, ord, serving, accepted, made, acked, job, pc, sm, tab, outr, inr, cl, runs, lost, losses, net >>

\* The connection request, sent again when no answer comes in time.
SendCon(c) ==
    /\ st[c] \in {"conn", "wait"}
    /\ st' = [st EXCEPT ![c] = "wait"] /\ net' = net \cup {Pkt("CON", c, 0, 0)}
    /\ UNCHANGED << rss, ord, serving, held, accepted, made, acked, job, pc, sm, tab, outr, inr, cl, runs, lost, losses >>

\* One of the threads gets the client as a poll job.
AddPollJob(c) == \E t \in Threads(From[c]) : job' = [job EXCEPT ![c] = t]

\* Fault: the threads are not told of the connection.
ConnectEndUntold(c) ==
    /\ st[c] = "wait" /\ acked[c] # 0
    /\ st' = [st EXCEPT ![c] = "up"] /\ held' = [held EXCEPT ![From[c]] = none]
    /\ AddPollJob(c)
    /\ UNCHANGED << rss, ord, serving, accepted, made, acked, pc, sm, tab, outr, inr, cl, runs, lost, losses, net >>

\* The threads of a host are told of a connection.
Told(h, e) == [sm EXCEPT ![h] = [t \in AllThreads |-> IF t \in Threads(h) THEN @[t] \cup {e} ELSE @[t]]]

\* connected_ is seen: the connection gets its final id, and is made known.
ConnectEnd(c) ==
    /\ st[c] = "wait" /\ acked[c] # 0
    /\ st' = [st EXCEPT ![c] = "up"] /\ held' = [held EXCEPT ![From[c]] = none]
    /\ sm' = Told(From[c], << c, acked[c] >>)
    /\ AddPollJob(c)
    /\ UNCHANGED << rss, ord, serving, accepted, made, acked, pc, tab, outr, inr, cl, runs, lost, losses, net >>

\* begin_request and end_request: rings are tried from the xid's on, until one has room.
Request(c) ==
    /\ st[c] = "up" /\ sent[c] < MaxReq
    /\ LET n == NThreads[From[c]]
           ring(i) == ((sent[c] + i) % n) + 1
           full(i) == Len(outr[c][ring(i)]) = RingSize IN
       \E i \in 0 .. n - 1 :
          /\ ~full(i) /\ \A j \in 0 .. i - 1 : full(j)
          /\ outr' = [outr EXCEPT ![c][ring(i)] = Append(@, sent[c] + 1)]
    /\ sent' = [sent EXCEPT ![c] = @ + 1] /\ pend' = [pend EXCEPT ![c] = @ \cup {sent[c] + 1}]
    /\ UNCHANGED << rss, ord, hs, pc, sm, tab, inr, got, runs, lost, losses, net >>

\* UDPClient::close and invalidate_pending_futures; the poll job stays.
Close(c) ==
    /\ st[c] = "up"
    /\ st' = [st EXCEPT ![c] = "closed"] /\ pend' = [pend EXCEPT ![c] = {}]
    /\ got' = [got EXCEPT ![c] = [x \in Xids |-> IF x \in pend[c] THEN "ENOTCONN" ELSE @[x]]]
    /\ UNCHANGED << rss, ord, serving, held, accepted, made, acked, job, pc, sm, tab, outr, inr, sent, runs, lost, losses, net >>

-----------------------------------------------------------------------------
(* ev_loop: process_requests *)

InLoop(h, t) == pc[h][t] = Looping
Goes(h, t, p) == p \in net /\ Target(p.k, p.c) = h /\ rss[p.c][p.k] = t
Step(h, t, to) == pc' = [pc EXCEPT ![h][t] = to]
LoseIf(b, p) == lost' = IF b THEN lost \cup {<< p.c, p.x >>} ELSE lost

\* A connection request is for accept(), which does nothing without a server.
RxCon(h, t, p) ==
    /\ InLoop(h, t) /\ p.k = "CON" /\ Goes(h, t, p)
    /\ net' = net \ {p} /\ Step(h, t, IF serving[h] THEN << "accept", p.c >> ELSE Looping)
    /\ UNCHANGED << rss, ord, hs, sm, tab, outr, inr, cl, runs, lost, losses >>

\* The answer finds the connection while it has its first id.
RxAck(h, t, p) ==
    /\ InLoop(h, t) /\ p.k = "CON_ACK" /\ Goes(h, t, p)
    /\ net' = net \ {p}
    /\ acked' = IF st[p.c] \in {"conn", "wait"} THEN [acked EXCEPT ![p.c] = p.p] ELSE acked
    /\ UNCHANGED << rss, ord, serving, held, accepted, made, st, job, pc, sm, tab, outr, inr, cl, runs, lost, losses >>

\* begin_reply and end_reply write the reply over the request, in its packet.
Reply(p) == [p EXCEPT !.k = "RR_BG"]

\* A request is executed, and its packet sent back by do_transmit; it is dropped
\* when the thread does not know the connection.
RxRequest(h, t, p) ==
    /\ InLoop(h, t) /\ p.k = "RR" /\ Goes(h, t, p)
    /\ LET known == << p.c, p.p >> \in tab[h][t] IN
       /\ net' = (net \ {p}) \cup IF known THEN {Reply(p)} ELSE {}
       /\ runs' = [runs EXCEPT ![p.c][p.x] = IF known THEN @ + 1 ELSE @]
       /\ LoseIf(~known, p)
    /\ UNCHANGED << rss, ord, hs, pc, sm, tab, outr, inr, cl, losses >>

\* Fault: a full ring is overwritten.
RxReplyOver(h, t, p) ==
    /\ InLoop(h, t) /\ p.k = "RR_BG" /\ Goes(h, t, p)
    /\ LET known == << p.c, p.p >> \in tab[h][t] IN
       /\ inr' = IF known THEN [inr EXCEPT ![p.c][t] = << p.x >>] ELSE inr
       /\ LoseIf(~known, p)
    /\ net' = net \ {p}
    /\ UNCHANGED << rss, ord, hs, pc, sm, tab, outr, cl, runs, losses >>

\* A reply goes to the thread's ring of the client; it is dropped when the thread
\* does not know the connection, or the ring stays full.
RxReply(h, t, p) ==
    /\ InLoop(h, t) /\ p.k = "RR_BG" /\ Goes(h, t, p)
    /\ LET fits == << p.c, p.p >> \in tab[h][t] /\ Len(inr[p.c][t]) < RingSize IN
       /\ inr' = IF fits THEN [inr EXCEPT ![p.c][t] = Append(@, p.x)] ELSE inr
       /\ LoseIf(~fits, p)
    /\ net' = net \ {p}
    /\ UNCHANGED << rss, ord, hs, pc, sm, tab, outr, cl, runs, losses >>

\* The network loses a packet.
Lose(p) ==
    /\ p \in net /\ losses < MaxLosses /\ losses' = losses + 1
    /\ net' = net \ {p} /\ LoseIf(p.k \in {"RR", "RR_BG"}, p)
    /\ UNCHANGED << rss, ord, hs, pc, sm, tab, outr, inr, cl, runs >>

-----------------------------------------------------------------------------
(* accept(), in the thread's loop *)

\* Fault: a repeated request makes a new connection.
AcceptAgain(h, t) ==
    \E c \in Conns, p \in Ports :
        /\ pc[h][t] = << "accept", c >> /\ held[h] = none
        /\ \A e \in made : e[2] # p
        /\ net' = net \cup {Pkt("CON_ACK", c, p, 0)}
        /\ made' = made \cup {<< c, p >>} /\ held' = [held EXCEPT ![h] = c]
        /\ Step(h, t, << "tell", c >>)
        /\ UNCHANGED << rss, ord, serving, accepted, st, acked, job, sm, tab, outr, inr, cl, runs, lost, losses >>

\* With the lock: a connection gets a port no other has and is acknowledged.
Accept(h, t) ==
    \E c \in Conns, p \in Ports :
        /\ pc[h][t] = << "accept", c >> /\ held[h] = none /\ accepted[c] = 0
        /\ \A e \in made : e[2] # p
        /\ net' = net \cup {Pkt("CON_ACK", c, p, 0)}
        /\ made' = made \cup {<< c, p >>} /\ held' = [held EXCEPT ![h] = c]
        /\ Step(h, t, << "tell", c >>)
        /\ UNCHANGED << rss, ord, serving, accepted, st, acked, job, sm, tab, outr, inr, cl, runs, lost, losses >>

\* Fault: a repeated request is not acknowledged.
AcceptedSilent(h, t) ==
    \E c \in Conns :
        /\ pc[h][t] = << "accept", c >> /\ held[h] = none /\ accepted[c] # 0
        /\ Step(h, t, Looping)
        /\ UNCHANGED << rss, ord, hs, sm, tab, outr, inr, cl, runs, lost, losses, net >>

\* "Already Accepted": it is acknowledged again.
Accepted(h, t) ==
    \E c \in Conns :
        /\ pc[h][t] = << "accept", c >> /\ held[h] = none /\ accepted[c] # 0
        /\ net' = net \cup {Pkt("CON_ACK", c, accepted[c], 0)} /\ Step(h, t, Looping)
        /\ UNCHANGED << rss, ord, hs, sm, tab, outr, inr, cl, runs, lost, losses >>

\* Fault: only the accepting thread is told.
TellSelf(h, t) ==
    \E e \in made :
        /\ pc[h][t] = << "tell", e[1] >> /\ accepted[e[1]] = 0
        /\ sm' = [sm EXCEPT ![h][t] = @ \cup {e}]
        /\ accepted' = [accepted EXCEPT ![e[1]] = e[2]]
        /\ held' = [held EXCEPT ![h] = none] /\ Step(h, t, Looping)
        /\ UNCHANGED << rss, ord, serving, made, st, acked, job, tab, outr, inr, cl, runs, lost, losses, net >>

\* The threads are told of the connection, which is noted as accepted.
Tell(h, t) ==
    \E e \in made :
        /\ pc[h][t] = << "tell", e[1] >> /\ accepted[e[1]] # e[2]
        /\ sm' = Told(h, e)
        /\ accepted' = [accepted EXCEPT ![e[1]] = e[2]]
        /\ held' = [held EXCEPT ![h] = none] /\ Step(h, t, Looping)
        /\ UNCHANGED << rss, ord, serving, made, st, acked, job, tab, outr, inr, cl, runs, lost, losses, net >>

-----------------------------------------------------------------------------
(* ev_loop: process_sm_req, do_transmit and do_poll_job *)

\* do_transmit goes over t_conns up to the first connection with nothing to send;
\* nothing is ever in the rings of the server's connections.
Idle(h, t, e) == From[e[1]] # h \/ outr[e[1]][t] = << >>
Reached(h, t, T) == {e \in T : ~Idle(h, t, e) /\ \A f \in T : ord[f[1]] < ord[e[1]] => ~Idle(h, t, f)}

\* do_poll_job: the clients whose handle_read does something.
Polled(h, t) == {c \in Conns : From[c] = h /\ job[c] = t /\ st[c] = "up"}

\* UDPClient::handle_read: what each ring holds, if its future is still pending.
Replies(c) == (UNION {Range(inr[c][t]) : t \in AllThreads}) \cap pend[c]

Turn(h, t) ==
    /\ InLoop(h, t)
    /\ LET T == tab[h][t] \cup sm[h][t]
           R == Reached(h, t, T)
           polled == Polled(h, t) IN
       /\ tab' = [tab EXCEPT ![h][t] = T] /\ sm' = [sm EXCEPT ![h][t] = {}]
       /\ net' = net \cup UNION {{Pkt("RR", e[1], e[2], x) : x \in Range(outr[e[1]][t])} : e \in R}
       /\ outr' = [c \in Conns |-> IF \E e \in R : e[1] = c THEN [outr[c] EXCEPT ![t] = << >>] ELSE outr[c]]
       /\ got' = [c \in Conns |-> [x \in Xids |-> IF c \in polled /\ x \in Replies(c) THEN "ok" ELSE got[c][x]]]
       /\ pend' = [c \in Conns |-> IF c \in polled THEN pend[c] \ Replies(c) ELSE pend[c]]
       /\ inr' = [c \in Conns |-> IF c \in polled THEN [u \in AllThreads |-> << >>] ELSE inr[c]]
    /\ UNCHANGED << rss, ord, hs, pc, sent, runs, lost, losses >>

-----------------------------------------------------------------------------
Rx(h, t) == \E p \in net : RxCon(h, t, p) \/ RxAck(h, t, p) \/ RxRequest(h, t, p) \/ RxReply(h, t, p)

Next ==
    \/ \E h \in Hosts : RegServer(h)
    \/ \E c \in Conns : ConnectBegin(c) \/ SendCon(c) \/ ConnectEnd(c) \/ Request(c) \/ Close(c)
    \/ \E h \in Hosts : \E t \in Threads(h) :
          Rx(h, t) \/ Accept(h, t) \/ Accepted(h, t) \/ Tell(h, t) \/ Turn(h, t)
    \/ \E p \in net : Lose(p)

Spec == Init /\ [][Next]_vars

\* The server starts, threads run and take what they receive, and a client goes on
\* with connect(); nothing is assumed of the application's calls, and not that a
\* packet arrives.
Fairness ==
    /\ \A h \in Hosts : WF_vars(RegServer(h))
    /\ \A c \in Conns : WF_vars(SendCon(c)) /\ WF_vars(ConnectEnd(c))
    /\ \A h \in Hosts : \A t \in Threads(h) :
          /\ WF_vars(Turn(h, t))
          /\ WF_vars(\E p \in net : RxCon(h, t, p)) /\ WF_vars(\E p \in net : RxAck(h, t, p))
          /\ WF_vars(Accept(h, t) \/ Accepted(h, t)) /\ WF_vars(Tell(h, t))
FairSpec == Spec /\ Fairness

-----------------------------------------------------------------------------
(* Properties *)

\* However often connection requests are repeated, a client gets one connection and
\* no two share a port; the client uses the port that was made for it.
OneConnection ==
    /\ \A e, f \in made : e[1] = f[1] <=> e[2] = f[2]
    /\ \A c \in Conns : acked[c] # 0 => << c, acked[c] >> \in made

\* Where a request, or its reply, is.
Places(c, x) ==
    {<< "out", t >> : t \in {u \in AllThreads : x \in Range(outr[c][u])}}
    \cup {<< "in", t >> : t \in {u \in AllThreads : x \in Range(inr[c][u])}}
    \cup {<< p.k, 0 >> : p \in {q \in net : q.c = c /\ q.x = x}}
    \cup IF << c, x >> \in lost THEN {<< "lost", 0 >>} ELSE {}

\* The future of a request is pending or ready, never both; while it is pending the
\* request, or its reply, is in exactly one place, or was lost.  A request is executed
\* at most once, and a future is successful only if it was.
Conservation ==
    /\ TypeOK
    /\ \A c \in Conns, x \in Xids : runs[c][x] <= 1 /\ (got[c][x] = "ok" => runs[c][x] = 1)
    /\ \A c \in Conns : \A x \in 1 .. sent[c] :
           /\ x \in pend[c] <=> got[c][x] = "-"
           /\ x \in pend[c] => Places(c, x) # {}
           /\ \A a, b \in Places(c, x) : a = b

\* A request on the wire names a connection every thread of the server knows, or is
\* about to be told of: the transport drops requests only while a handshake ends.
KnownWhereItGoes ==
    \A p \in net : p.k = "RR" =>
        \/ \A t \in Threads(To[p.c]) : << p.c, p.p >> \in tab[To[p.c]][t] \cup sm[To[p.c]][t]
        \/ \E t \in Threads(To[p.c]) : pc[To[p.c]][t] = << "tell", p.c >>

\* connect() "returns the conn_id to use": it ends although requests and answers
\* may be lost.
ConnectReturns == \A c \in Conns : (st[c] = "conn") ~> (st[c] = "up")

\* "Transmit packets from thread contexts out transmit rings": what is in a ring of
\* an established connection is sent.
Transmitted ==
    \A c \in Conns : \A x \in Xids :
        (\E t \in AllThreads : x \in Range(outr[c][t])) ~> (\A t \in AllThreads : x \notin Range(outr[c][t]))
==============================================================================
