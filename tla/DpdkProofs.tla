----------------------------- MODULE DpdkProofs ------------------------------
(***************************************************************************)
(* Proofs about RPC over DPDK, for any number of hosts, threads,           *)
(* connections, requests and losses and any size of the rings.             *)
(*                                                                         *)
(* HandInv follows the handshake: conn_th_lock is held by the one thread   *)
(* that is between making a connection and noting it as accepted, or by    *)
(* the one client that is in connect().  KnownInv says which threads know  *)
(* a connection.  PathInv follows a request: it is in one place, and that  *)
(* place tells whether it was executed.  KnownInv needs HandInv, and       *)
(* PathInv both: the port of a packet has to be the connection's only one. *)
(***************************************************************************)
EXTENDS Dpdk, TLAPS

\* A step that names no prover is left to SMT, if need be twice, and then to Zenon.
USE SMTT(10), SMTT(30), Zenon, SMTT(40), SMTT(60)

Telling(h, t, c) == pc[h][t] = << "tell", c >>
Known(h, t) == tab[h][t] \cup sm[h][t]

\* A connection is made once, and every port that anyone has is that of a connection.
MadeInv ==
    /\ \A e, f \in made : e[1] = f[1] <=> e[2] = f[2]
    /\ \A c \in Conns : acked[c] # 0 => << c, acked[c] >> \in made
    /\ \A c \in Conns : accepted[c] # 0 => << c, accepted[c] >> \in made
    /\ \A p \in net : p.k # "CON" => << p.c, p.p >> \in made

\* The lock of a host is held by the client that is in connect(), or by the thread that
\* has made a connection and not yet noted it as accepted.
ConnectInv == \A c \in Conns : st[c] \in {"conn", "wait"} => held[From[c]] = c
AcceptInv ==
    \A h \in Hosts, t \in AllThreads, c \in Conns :
        /\ pc[h][t] = << "accept", c >> => To[c] = h
        /\ Telling(h, t, c) => To[c] = h /\ held[h] = c /\ accepted[c] = 0
        /\ Telling(h, t, c) => \A u \in AllThreads : Telling(h, u, c) => u = t
NotedInv == \A e \in made : accepted[e[1]] = 0 => \E t \in Threads(To[e[1]]) : Telling(To[e[1]], t, e[1])
HandInv == MadeInv /\ ConnectInv /\ AcceptInv /\ NotedInv

\* Threads know only connections that were made, and all threads of the server know one
\* that is noted as accepted.
KnownInv ==
    /\ \A h \in Hosts, t \in AllThreads : Known(h, t) \subseteq made
    /\ \A e \in made : accepted[e[1]] # 0 => \A t \in Threads(To[e[1]]) : e \in Known(To[e[1]], t)

\* Of request x of c: it is in one place, or in none when it was answered; once executed
\* it is a reply; and its future is pending until it is ready.
On(c, x) == {q \in net : q.c = c /\ q.x = x}
Path(c, x) ==
    /\ \A a, b \in Places(c, x) : a = b
    /\ x \in pend[c] => Places(c, x) # {}
    /\ x > sent[c] => Places(c, x) = {} /\ x \notin pend[c] /\ got[c][x] = "-" /\ runs[c][x] = 0
    /\ x <= sent[c] => (x \in pend[c] <=> got[c][x] = "-")
    /\ runs[c][x] \in {0, 1} /\ (got[c][x] = "ok" => runs[c][x] = 1)
    /\ \A a \in Places(c, x) : (a[1] \in {"out", "RR"} => runs[c][x] = 0) /\ (a[1] \in {"in", "RR_BG"} => runs[c][x] = 1)

PathInv ==
    /\ \A p \in net : p.k \in {"CON", "CON_ACK"} <=> p.x = 0
    /\ \A c \in Conns, x \in Xids : Path(c, x)

IInv == TypeOK /\ HandInv /\ KnownInv /\ PathInv

-----------------------------------------------------------------------------
(* Threads, packets and places *)

LEMMA ThreadsIn ==
  /\ \A h \in Hosts : Threads(h) \subseteq AllThreads
  /\ \A t \in AllThreads : t \in Nat /\ t # 0
  /\ \A c \in Conns : From[c] \in Hosts /\ To[c] \in Hosts
  /\ \A k \in Kinds, c \in Conns : Target(k, c) \in Hosts
<1>1. \A h \in Hosts : Threads(h) \subseteq AllThreads
  BY Zenon DEF AllThreads
<1>2. ASSUME NEW t \in AllThreads PROVE t \in Nat /\ t # 0
  <2>1. PICK h \in Hosts : t \in Threads(h)
    BY Zenon DEF AllThreads
  <2> QED
    BY <2>1, DpdkAssumption DEF Threads
<1>3. \A c \in Conns : From[c] \in Hosts /\ To[c] \in Hosts
  BY DpdkAssumption
<1> QED
  BY <1>1, <1>2, <1>3 DEF Target

\* Appending to a ring adds one request.
LEMMA RangeAppend ==
  ASSUME NEW S, NEW s \in Seq(S), NEW e \in S
  PROVE  Range(Append(s, e)) = Range(s) \cup {e}
<1>1. /\ DOMAIN Append(s, e) = 1 .. Len(s) + 1 /\ DOMAIN s = 1 .. Len(s) /\ Len(s) \in Nat
      /\ \A n \in 1 .. Len(s) : Append(s, e)[n] = s[n]
      /\ Append(s, e)[Len(s) + 1] = e
  OBVIOUS
<1>2. \A n \in 1 .. Len(s) + 1 : n \in 1 .. Len(s) \/ n = Len(s) + 1
  BY <1>1
<1>3. 1 .. Len(s) \subseteq 1 .. Len(s) + 1 /\ Len(s) + 1 \in 1 .. Len(s) + 1
  BY <1>1
<1> QED
  BY <1>1, <1>2, <1>3 DEF Range

LEMMA RangeEmpty == Range(<< >>) = {}
  BY DEF Range

\* The parts of Places, now and after a step.
LEMMA InPlaces ==
  ASSUME NEW c, NEW x, NEW l
  PROVE  /\ l \in Places(c, x) <=>
               \/ \E t \in AllThreads : l = << "out", t >> /\ x \in Range(outr[c][t])
               \/ \E t \in AllThreads : l = << "in", t >> /\ x \in Range(inr[c][t])
               \/ \E p \in On(c, x) : l = << p.k, 0 >>
               \/ l = << "lost", 0 >> /\ << c, x >> \in lost
         /\ l \in Places(c, x)' <=>
               \/ \E t \in AllThreads : l = << "out", t >> /\ x \in Range(outr'[c][t])
               \/ \E t \in AllThreads : l = << "in", t >> /\ x \in Range(inr'[c][t])
               \/ \E p \in On(c, x)' : l = << p.k, 0 >>
               \/ l = << "lost", 0 >> /\ << c, x >> \in lost'
  BY DEF Places, On

\* What a step does not move stays where it is.
LEMMA PlacesKept ==
  ASSUME NEW c, NEW x,
         \A t \in AllThreads : x \in Range(outr'[c][t]) <=> x \in Range(outr[c][t]),
         \A t \in AllThreads : x \in Range(inr'[c][t]) <=> x \in Range(inr[c][t]),
         On(c, x)' = On(c, x),
         << c, x >> \in lost' <=> << c, x >> \in lost
  PROVE  Places(c, x)' = Places(c, x)
  BY DEF Places, On

\* ... and its future as it was.
LEMMA PathKept ==
  ASSUME NEW c, NEW x, Path(c, x), Places(c, x)' = Places(c, x),
         x \in pend'[c] <=> x \in pend[c], got'[c][x] = got[c][x], runs'[c][x] = runs[c][x], sent'[c] = sent[c]
  PROVE  Path(c, x)'
  BY Zenon DEF Path

\* Steps that move no request.
LEMMA PathInvKept ==
  ASSUME PathInv, UNCHANGED << outr, inr, lost, sent, pend, got, runs >>,
         \A p \in net' : p.k \in {"CON", "CON_ACK"} <=> p.x = 0,
         \A p : p.x # 0 => (p \in net' <=> p \in net)
  PROVE  PathInv'
<1>1. ASSUME NEW c \in Conns, NEW x \in Xids PROVE Path(c, x)'
  <2>1. x # 0
    BY DpdkAssumption DEF Xids
  <2>2. On(c, x)' = On(c, x)
    BY <2>1, Zenon DEF On
  <2>3. Places(c, x)' = Places(c, x)
    BY <2>2, PlacesKept, Zenon
  <2>4. Path(c, x)
    BY DEF PathInv
  <2> QED
    BY <2>3, <2>4, PathKept, Zenon
<1> QED
  BY <1>1, Zenon DEF PathInv

\* A request on the wire, or its reply, is one packet and nowhere else.
LEMMA OnePacket ==
  ASSUME IInv, NEW p \in net, p.k \in {"RR", "RR_BG"}
  PROVE  /\ p.c \in Conns /\ p.x \in Xids /\ On(p.c, p.x) = {p} /\ Places(p.c, p.x) = {<< p.k, 0 >>}
         /\ \A t \in AllThreads : p.x \notin Range(outr[p.c][t]) /\ p.x \notin Range(inr[p.c][t])
         /\ << p.c, p.x >> \notin lost
<1> DEFINE c == p.c
           x == p.x
<1>1. p \in Packet /\ p.x # 0
  <2>1. p \in Packet /\ (p.k \in {"CON", "CON_ACK"} <=> p.x = 0)
    BY Zenon DEF IInv, TypeOK, PathInv
  <2> QED
    BY <2>1
<1>2. c \in Conns /\ x \in Xids
  BY <1>1 DEF Packet
<1>3. p \in On(c, x)
  BY Zenon DEF On
<1>4. << p.k, 0 >> \in Places(c, x)
  BY <1>3, InPlaces, Zenon
<1>5. \A l \in Places(c, x) : l = << p.k, 0 >>
  <2>1. \A a, b \in Places(c, x) : a = b
    BY <1>2, Zenon DEF IInv, PathInv, Path
  <2> QED
    BY <1>4, <2>1, Zenon
<1>6. ASSUME NEW q \in On(c, x) PROVE q = p
  <2>1. q \in net /\ q.c = c /\ q.x = x /\ q \in Packet
    BY Zenon DEF On, IInv, TypeOK
  <2>2. << q.k, 0 >> \in Places(c, x)
    BY <1>6, InPlaces, Zenon
  <2>3. q.k = p.k
    <3>1. << q.k, 0 >> = << p.k, 0 >>
      BY <1>5, <2>2, Zenon
    <3> QED
      BY <3>1
  <2>4. << c, p.p >> \in made /\ << c, q.p >> \in made
    BY <2>1, <2>3 DEF IInv, HandInv, MadeInv
  <2>5. p.p = q.p
    BY <2>4 DEF IInv, HandInv, MadeInv
  <2> QED
    BY <1>1, <2>1, <2>3, <2>5 DEF Packet
<1>7. \A t \in AllThreads : x \notin Range(outr[c][t]) /\ x \notin Range(inr[c][t])
  <2> SUFFICES ASSUME NEW t \in AllThreads PROVE x \notin Range(outr[c][t]) /\ x \notin Range(inr[c][t])
    OBVIOUS
  <2>1. << "out", t >> # << p.k, 0 >> /\ << "in", t >> # << p.k, 0 >>
    OBVIOUS
  <2> QED
    BY <1>5, <2>1, InPlaces, Zenon
<1>8. << c, x >> \notin lost
  <2>1. << "lost", 0 >> # << p.k, 0 >>
    OBVIOUS
  <2> QED
    BY <1>5, <2>1, InPlaces, Zenon
<1> QED
  BY <1>2, <1>3, <1>4, <1>5, <1>6, <1>7, <1>8, Zenon

-----------------------------------------------------------------------------
(* What the invariant rests on *)

LEMMA InitIInv == Init => IInv
<1> SUFFICES ASSUME Init PROVE IInv
  OBVIOUS
<1> USE DEF Init
<1>1. TypeOK
  <2>1. /\ << >> \in Seq(Xids) /\ 0 \in Nat /\ 0 \in 0 .. MaxReq /\ 0 \in 0 .. MaxLosses /\ Len(<< >>) = 0 /\ 0 <= RingSize
    BY DpdkAssumption
  <2>2. /\ sm \in [Hosts -> [AllThreads -> SUBSET (Conns \X Ports)]] /\ tab \in [Hosts -> [AllThreads -> SUBSET (Conns \X Ports)]]
        /\ outr \in [Conns -> [AllThreads -> Seq(Xids)]] /\ inr \in [Conns -> [AllThreads -> Seq(Xids)]]
    BY <2>1, Zenon
  <2>3. \A c \in Conns, t \in AllThreads : Len(outr[c][t]) <= RingSize /\ Len(inr[c][t]) <= RingSize
    BY <2>1
  <2> QED
    BY <2>1, <2>2, <2>3, Zenon DEF TypeOK
<1>2. HandInv
  <2>1. \A h \in Hosts, t \in AllThreads, c \in Conns : pc[h][t] # << "accept", c >> /\ ~Telling(h, t, c)
    BY DEF Telling, Looping
  <2> QED
    BY <2>1, Zenon DEF HandInv, MadeInv, ConnectInv, AcceptInv, NotedInv
<1>3. KnownInv
  BY DEF KnownInv, Known
<1>4. ASSUME NEW c \in Conns, NEW x \in Xids PROVE Path(c, x)
  <2>1. Places(c, x) = {}
    BY RangeEmpty, Zenon DEF Places
  <2>2. x > 0 /\ ~(x <= 0)
    BY DpdkAssumption DEF Xids
  <2> QED
    BY <2>1, <2>2, Zenon DEF Path
<1> QED
  BY <1>1, <1>2, <1>3, <1>4, Zenon DEF IInv, PathInv

\* What the invariant says of a thread that is in accept().
LEMMA AcceptFacts ==
  ASSUME IInv, NEW h \in Hosts, NEW t \in AllThreads, NEW c \in Conns
  PROVE  /\ pc[h][t] = << "accept", c >> => To[c] = h
         /\ Telling(h, t, c) => To[c] = h /\ held[h] = c /\ accepted[c] = 0
         /\ Telling(h, t, c) => \A u \in AllThreads : Telling(h, u, c) => u = t
<1>1. AcceptInv
  BY DEF IInv, HandInv
<1> QED
  BY <1>1 DEF AcceptInv

\* Steps that have nothing to do with the handshake.
LEMMA HandKept ==
  ASSUME HandInv, UNCHANGED << made, acked, accepted, st, held, pc >>,
         \A p \in net' : p.k # "CON" => << p.c, p.p >> \in made
  PROVE  HandInv'
<1>1. MadeInv'
  BY Zenon DEF HandInv, MadeInv
<1>2. ConnectInv' /\ NotedInv'
  BY Zenon DEF HandInv, ConnectInv, NotedInv, Telling
<1>3. AcceptInv'
  BY DEF HandInv, AcceptInv, Telling
<1> QED
  BY <1>1, <1>2, <1>3 DEF HandInv

LEMMA KnownKept ==
  ASSUME KnownInv, UNCHANGED << made, accepted, tab, sm >>
  PROVE  KnownInv'
  BY Zenon DEF KnownInv, Known

\* Steps that send nothing and receive nothing.
LEMMA QuietPath ==
  ASSUME PathInv, UNCHANGED << outr, inr, lost, cl, runs, net >>
  PROVE  PathInv'
<1>1. UNCHANGED << sent, pend, got >>
  BY DEF cl
<1> QED
  BY <1>1, PathInvKept, Zenon DEF PathInv

-----------------------------------------------------------------------------
(* The application *)

LEMMA RegServerKeeps ==
  ASSUME IInv, NEW h \in Hosts, RegServer(h)
  PROVE  IInv'
<1> USE DEF RegServer, IInv
<1>1. TypeOK'
  BY Zenon DEF TypeOK, cl
<1>2. HandInv'
  BY HandKept, Zenon DEF HandInv, MadeInv
<1>3. KnownInv' /\ PathInv'
  BY KnownKept, QuietPath, Zenon
<1> QED
  BY <1>1, <1>2, <1>3

\* conn_th_lock was free: no thread of the host is in accept().
LEMMA ConnectBeginKeeps ==
  ASSUME IInv, NEW c \in Conns, ConnectBegin(c)
  PROVE  IInv'
<1>1. TypeOK'
  BY ThreadsIn, Zenon DEF IInv, ConnectBegin, TypeOK, cl
<1>2. /\ held[From[c]] = none /\ held' = [held EXCEPT ![From[c]] = c] /\ st' = [st EXCEPT ![c] = "conn"]
      /\ UNCHANGED << made, acked, accepted, pc, net >>
  BY DEF ConnectBegin
<1>3. held \in [Hosts -> Conns \cup {none}] /\ st \in [Conns -> {"new", "conn", "wait", "up", "closed"}] /\ From[c] \in Hosts
  BY ThreadsIn, Zenon DEF IInv, TypeOK
<1>4. \A h \in Hosts, d \in Conns : held[h] = d => held'[h] = d
  BY <1>2, <1>3, DpdkAssumption
<1>5. MadeInv' /\ NotedInv'
  BY <1>2, Zenon DEF IInv, HandInv, MadeInv, NotedInv, Telling
<1>6. ConnectInv'
  BY <1>2, <1>3, <1>4, ThreadsIn DEF IInv, HandInv, ConnectInv
<1>7. AcceptInv'
  BY <1>2, <1>4 DEF IInv, HandInv, AcceptInv, Telling
<1>8. KnownInv' /\ PathInv'
  BY KnownKept, QuietPath, Zenon DEF IInv, ConnectBegin
<1> QED
  BY <1>1, <1>5, <1>6, <1>7, <1>8 DEF IInv, HandInv

LEMMA SendConKeeps ==
  ASSUME IInv, NEW c \in Conns, SendCon(c)
  PROVE  IInv'
<1> DEFINE p == Pkt("CON", c, 0, 0)
<1>1. /\ st[c] \in {"conn", "wait"} /\ st' = [st EXCEPT ![c] = "wait"] /\ net' = net \cup {p}
      /\ UNCHANGED << rss, ord, serving, held, accepted, made, acked, job, pc, sm, tab, outr, inr, cl, runs, lost, losses >>
  BY DEF SendCon
<1>2. p \in Packet /\ p.k = "CON" /\ p.x = 0
  BY DEF Packet, Pkt, Kinds
<1> HIDE DEF p
<1>3. TypeOK'
  BY <1>1, <1>2, Zenon DEF IInv, TypeOK, cl
<1>4. HandInv'
  <2>1. \A d \in Conns : st'[d] \in {"conn", "wait"} => st[d] \in {"conn", "wait"}
    BY <1>1, Zenon DEF IInv, TypeOK
  <2>2. \A q \in net' : q.k # "CON" => << q.c, q.p >> \in made
    BY <1>1, <1>2, Zenon DEF IInv, HandInv, MadeInv
  <2>3. MadeInv' /\ NotedInv' /\ ConnectInv'
    BY <1>1, <2>1, <2>2, Zenon DEF IInv, HandInv, MadeInv, NotedInv, ConnectInv, Telling
  <2>4. AcceptInv'
    BY <1>1 DEF IInv, HandInv, AcceptInv, Telling
  <2> QED
    BY <2>3, <2>4 DEF HandInv
<1>5. KnownInv'
  BY <1>1, KnownKept, Zenon DEF IInv
<1>6. PathInv'
  <2>1. \A q \in net' : q.k \in {"CON", "CON_ACK"} <=> q.x = 0
    BY <1>1, <1>2 DEF IInv, PathInv
  <2>2. \A q : q.x # 0 => (q \in net' <=> q \in net)
    BY <1>1, <1>2
  <2> QED
    BY <1>1, <2>1, <2>2, PathInvKept, Zenon DEF cl, IInv
<1> QED
  BY <1>3, <1>4, <1>5, <1>6 DEF IInv

\* The threads of a host are told of a connection, which has been made.
LEMMA ToldIs ==
  ASSUME TypeOK, NEW h \in Hosts, NEW e \in Conns \X Ports, sm' = Told(h, e)
  PROVE  /\ sm' \in [Hosts -> [AllThreads -> SUBSET (Conns \X Ports)]]
         /\ \A g \in Hosts, t \in AllThreads : sm'[g][t] = IF g = h /\ t \in Threads(h) THEN sm[g][t] \cup {e} ELSE sm[g][t]
<1> DEFINE f == [t \in AllThreads |-> IF t \in Threads(h) THEN sm[h][t] \cup {e} ELSE sm[h][t]]
<1>1. sm \in [Hosts -> [AllThreads -> SUBSET (Conns \X Ports)]]
  BY Zenon DEF TypeOK
<1>2. sm' = [sm EXCEPT ![h] = f]
  BY <1>1 DEF Told
<1>3. f \in [AllThreads -> SUBSET (Conns \X Ports)]
  BY <1>1
<1>4. \A t \in AllThreads : f[t] = IF t \in Threads(h) THEN sm[h][t] \cup {e} ELSE sm[h][t]
  OBVIOUS
<1> HIDE DEF f
<1>5. sm' \in [Hosts -> [AllThreads -> SUBSET (Conns \X Ports)]]
  BY <1>1, <1>2, <1>3, Zenon
<1>6. \A g \in Hosts : sm'[g] = IF g = h THEN f ELSE sm[g]
  BY <1>1, <1>2
<1> QED
  BY <1>4, <1>5, <1>6, Zenon

LEMMA ConnectEndKeeps ==
  ASSUME IInv, NEW c \in Conns, ConnectEnd(c)
  PROVE  IInv'
<1> DEFINE e == << c, acked[c] >>
<1>1. /\ st[c] = "wait" /\ acked[c] # 0 /\ st' = [st EXCEPT ![c] = "up"] /\ held' = [held EXCEPT ![From[c]] = none]
      /\ sm' = Told(From[c], e) /\ AddPollJob(c)
      /\ UNCHANGED << rss, ord, serving, accepted, made, acked, pc, tab, outr, inr, cl, runs, lost, losses, net >>
  BY DEF ConnectEnd
<1>2. From[c] \in Hosts /\ held[From[c]] = c /\ From[c] # To[c]
  BY <1>1, ThreadsIn, DpdkAssumption, Zenon DEF IInv, HandInv, ConnectInv
<1>3. e \in made /\ e \in Conns \X Ports
  BY <1>1, Zenon DEF IInv, HandInv, MadeInv, TypeOK
<1> HIDE DEF e
<1>4. /\ sm' \in [Hosts -> [AllThreads -> SUBSET (Conns \X Ports)]]
      /\ \A g \in Hosts, t \in AllThreads : sm[g][t] \subseteq sm'[g][t] /\ sm'[g][t] \subseteq sm[g][t] \cup {e}
  <2>1. TypeOK
    BY DEF IInv
  <2>2. /\ sm' \in [Hosts -> [AllThreads -> SUBSET (Conns \X Ports)]]
        /\ \A g \in Hosts, t \in AllThreads :
              sm'[g][t] = IF g = From[c] /\ t \in Threads(From[c]) THEN sm[g][t] \cup {e} ELSE sm[g][t]
    BY <1>1, <1>2, <1>3, <2>1, ToldIs, Zenon
  <2> QED
    BY <2>2, Zenon
<1>0. /\ held \in [Hosts -> Conns \cup {none}] /\ st \in [Conns -> {"new", "conn", "wait", "up", "closed"}]
      /\ job \in [Conns -> AllThreads \cup {0}] /\ \A f \in made : f[1] \in Conns
  BY Zenon DEF IInv, TypeOK
<1>5. TypeOK'
  <2>1. job' \in [Conns -> AllThreads \cup {0}]
    <3>1. job \in [Conns -> AllThreads \cup {0}] /\ Threads(From[c]) \subseteq AllThreads
      BY <1>0, <1>2, ThreadsIn, Zenon
    <3> QED
      BY <1>1, <3>1 DEF AddPollJob
  <2>2. held' \in [Hosts -> Conns \cup {none}] /\ st' \in [Conns -> {"new", "conn", "wait", "up", "closed"}]
    BY <1>0, <1>1, Zenon
  <2> QED
    BY <1>1, <1>4, <2>1, <2>2, Zenon DEF IInv, TypeOK, cl
<1>6. HandInv'
  <2>1. ASSUME NEW h \in Hosts, NEW t \in AllThreads, NEW d \in Conns, Telling(h, t, d) PROVE h # From[c]
    <3>1. To[d] = h /\ held[h] = d
      BY <2>1, AcceptFacts, Zenon
    <3> QED
      BY <1>2, <3>1
  <2>2. MadeInv' /\ NotedInv'
    BY <1>1, Zenon DEF IInv, HandInv, MadeInv, NotedInv, Telling
  <2>3. AcceptInv'
    <3>1. \A h \in Hosts, t \in AllThreads, d \in Conns : Telling(h, t, d) => held'[h] = held[h]
      BY <1>0, <1>1, <2>1, Zenon
    <3> QED
      BY <1>1, <3>1 DEF IInv, HandInv, AcceptInv, Telling
  <2>4. ConnectInv'
    <3> SUFFICES ASSUME NEW d \in Conns, st'[d] \in {"conn", "wait"} PROVE held'[From[d]] = d
      BY Zenon DEF ConnectInv
    <3>1. d # c /\ st[d] \in {"conn", "wait"}
      BY <1>0, <1>1
    <3>2. held[From[d]] = d /\ From[d] \in Hosts
      BY <3>1, ThreadsIn DEF IInv, HandInv, ConnectInv
    <3> QED
      BY <1>0, <1>1, <1>2, <3>1, <3>2, Zenon
  <2> QED
    BY <2>2, <2>3, <2>4 DEF HandInv
<1>7. KnownInv'
  <2>1. \A g \in Hosts, t \in AllThreads : Known(g, t) \subseteq Known(g, t)' /\ Known(g, t)' \subseteq Known(g, t) \cup {e}
    BY <1>1, <1>4, Zenon DEF Known
  <2>2. \A f \in made : To[f[1]] \in Hosts /\ Threads(To[f[1]]) \subseteq AllThreads
    BY <1>0, ThreadsIn, Zenon
  <2> QED
    BY <1>1, <1>3, <2>1, <2>2, Zenon DEF IInv, KnownInv
<1>8. PathInv'
  BY <1>1, QuietPath, Zenon DEF IInv
<1> QED
  BY <1>5, <1>6, <1>7, <1>8 DEF IInv

\* A new request is put into one ring of the client.
LEMMA RequestKeeps ==
  ASSUME IInv, NEW c \in Conns, Request(c)
  PROVE  IInv'
<1> DEFINE n == NThreads[From[c]]
<1>0. PICK x : x = sent[c] + 1
  BY Zenon
<1>1. /\ sent[c] < MaxReq
      /\ sent' = [sent EXCEPT ![c] = @ + 1] /\ pend' = [pend EXCEPT ![c] = @ \cup {x}]
      /\ UNCHANGED << rss, ord, hs, pc, sm, tab, inr, got, runs, lost, losses, net >>
  BY <1>0, Zenon DEF Request
<1>2. /\ sent \in [Conns -> 0 .. MaxReq] /\ pend \in [Conns -> SUBSET Xids]
      /\ outr \in [Conns -> [AllThreads -> Seq(Xids)]]
      /\ \A d \in Conns, t \in AllThreads : Len(outr[d][t]) <= RingSize
  BY Zenon DEF IInv, TypeOK
<1>3. x \in Xids /\ n \in Nat \ {0} /\ From[c] \in Hosts /\ MaxReq \in Nat /\ RingSize \in Nat /\ sent[c] \in Nat
  BY <1>0, <1>1, <1>2, ThreadsIn, DpdkAssumption DEF Xids
<1>4. PICK u \in AllThreads : /\ Len(outr[c][u]) # RingSize
                              /\ outr' = [outr EXCEPT ![c][u] = Append(@, x)]
  <2>1. PICK i \in 0 .. n - 1 : /\ Len(outr[c][((sent[c] + i) % n) + 1]) # RingSize
                                /\ outr' = [outr EXCEPT ![c][((sent[c] + i) % n) + 1] = Append(@, x)]
    BY <1>0, Zenon DEF Request
  <2>2. (sent[c] + i) % n \in 0 .. n - 1
    BY <1>3
  <2>3. ((sent[c] + i) % n) + 1 \in Threads(From[c])
    BY <1>3, <2>2 DEF Threads
  <2> QED
    BY <1>3, <2>1, <2>3, ThreadsIn, Zenon
<1> HIDE DEF n
<1>5. /\ outr' \in [Conns -> [AllThreads -> Seq(Xids)]]
      /\ \A d \in Conns, t \in AllThreads :
            outr'[d][t] = IF d = c /\ t = u THEN Append(outr[c][u], x) ELSE outr[d][t]
  BY <1>2, <1>3, <1>4
<1>6. sent' \in [Conns -> 0 .. MaxReq] /\ pend' \in [Conns -> SUBSET Xids]
  BY <1>1, <1>2, <1>3 DEF Xids
<1>7. TypeOK'
  <2>1. \A d \in Conns, t \in AllThreads : Len(outr'[d][t]) <= RingSize
    <3>1. Len(Append(outr[c][u], x)) <= RingSize
      BY <1>2, <1>3, <1>4
    <3> QED
      BY <1>2, <1>5, <3>1, Zenon
  <2> QED
    BY <1>1, <1>5, <1>6, <2>1, Zenon DEF IInv, TypeOK, hs
<1>8. HandInv'
  <2>1. UNCHANGED << made, acked, accepted, st, held, pc, net >>
    BY <1>1 DEF hs
  <2> QED
    BY <2>1, HandKept, Zenon DEF IInv, HandInv, MadeInv
<1>9. KnownInv'
  BY <1>1, KnownKept, Zenon DEF IInv, hs
<1>10. ASSUME NEW d \in Conns, NEW y \in Xids PROVE Path(d, y)'
  <2>1. Path(d, y) /\ On(d, y)' = On(d, y)
    BY <1>1, Zenon DEF IInv, PathInv, On
  <2>2. \A t \in AllThreads : y \in Range(outr'[d][t]) <=> y \in Range(outr[d][t]) \/ (d = c /\ t = u /\ y = x)
    <3>1. Range(Append(outr[c][u], x)) = Range(outr[c][u]) \cup {x}
      BY <1>2, <1>3, RangeAppend
    <3> QED
      BY <1>5, <3>1
  <2>3. CASE d # c \/ y # x
    <3>1. Places(d, y)' = Places(d, y)
      BY <1>1, <2>1, <2>2, <2>3, PlacesKept, Zenon
    <3>2. y \in pend'[d] <=> y \in pend[d]
      BY <1>1, <1>2, <2>3
    <3>3. got'[d][y] = got[d][y] /\ runs'[d][y] = runs[d][y]
      BY <1>1
    <3>4. CASE d # c
      <4>1. sent'[d] = sent[d]
        BY <1>1, <1>2, <3>4
      <4> QED
        BY <2>1, <3>1, <3>2, <3>3, <4>1, PathKept, Zenon
    <3>5. CASE d = c
      <4>1. sent'[d] = sent[d] + 1 /\ (y > sent'[d] => y > sent[d]) /\ (y <= sent'[d] => y <= sent[d])
        BY <1>0, <1>1, <1>2, <1>3, <2>3, <3>5 DEF Xids
      <4> QED
        BY <2>1, <3>1, <3>2, <3>3, <4>1, Zenon DEF Path
    <3> QED
      BY <3>4, <3>5
  <2>4. CASE d = c /\ y = x
    <3>1. y > sent[c] /\ ~(y > sent'[c]) /\ y \in pend'[c]
      BY <1>0, <1>1, <1>2, <1>3, <2>4
    <3>2. Places(c, x) = {} /\ got[c][x] = "-" /\ runs[c][x] = 0
      BY <2>1, <2>4, <3>1, Zenon DEF Path
    <3>3. /\ \A t \in AllThreads : x \notin Range(outr[c][t]) /\ x \notin Range(inr[c][t])
          /\ On(c, x) = {} /\ << c, x >> \notin lost
      BY <3>2, Zenon DEF Places, On
    <3>4. \A t \in AllThreads : (x \in Range(outr'[c][t]) <=> t = u) /\ x \notin Range(inr'[c][t])
      BY <1>1, <2>2, <2>4, <3>3, Zenon
    <3>5. On(c, x)' = {} /\ << c, x >> \notin lost'
      BY <1>1, <2>1, <2>4, <3>3, Zenon
    <3>6. Places(c, x)' = {<< "out", u >>}
      BY <3>4, <3>5 DEF Places, On
    <3> QED
      BY <1>1, <2>4, <3>1, <3>2, <3>6 DEF Path
  <2> QED
    BY <2>3, <2>4
<1> QED
  BY <1>1, <1>7, <1>8, <1>9, <1>10, Zenon DEF IInv, PathInv

\* The futures that are pending get ENOTCONN; the requests stay where they are.
LEMMA CloseKeeps ==
  ASSUME IInv, NEW c \in Conns, Close(c)
  PROVE  IInv'
<1>1. /\ st[c] = "up" /\ st' = [st EXCEPT ![c] = "closed"] /\ pend' = [pend EXCEPT ![c] = {}]
      /\ got' = [got EXCEPT ![c] = [x \in Xids |-> IF x \in pend[c] THEN "ENOTCONN" ELSE @[x]]]
      /\ UNCHANGED << rss, ord, serving, held, accepted, made, acked, job, pc, sm, tab, outr, inr, sent, runs, lost, losses, net >>
  BY DEF Close
<1>2. /\ st \in [Conns -> {"new", "conn", "wait", "up", "closed"}] /\ pend \in [Conns -> SUBSET Xids]
      /\ got \in [Conns -> [Xids -> {"-", "ok", "ENOTCONN"}]]
  BY Zenon DEF IInv, TypeOK
<1>3. /\ \A d \in Conns : pend'[d] = IF d = c THEN {} ELSE pend[d]
      /\ \A d \in Conns, x \in Xids : got'[d][x] = IF d = c /\ x \in pend[d] THEN "ENOTCONN" ELSE got[d][x]
  BY <1>1, <1>2
<1>4. TypeOK'
  <2>1. st' \in [Conns -> {"new", "conn", "wait", "up", "closed"}] /\ pend' \in [Conns -> SUBSET Xids]
    BY <1>1, <1>2
  <2>2. got' \in [Conns -> [Xids -> {"-", "ok", "ENOTCONN"}]]
    BY <1>1, <1>2
  <2> QED
    BY <1>1, <2>1, <2>2, Zenon DEF IInv, TypeOK
<1>5. HandInv'
  <2>1. \A d \in Conns : st'[d] \in {"conn", "wait"} => st[d] \in {"conn", "wait"}
    BY <1>1, <1>2
  <2>2. MadeInv' /\ NotedInv' /\ ConnectInv'
    BY <1>1, <2>1, Zenon DEF IInv, HandInv, MadeInv, NotedInv, ConnectInv, Telling
  <2>3. AcceptInv'
    BY <1>1 DEF IInv, HandInv, AcceptInv, Telling
  <2> QED
    BY <2>2, <2>3 DEF HandInv
<1>6. KnownInv'
  BY <1>1, KnownKept, Zenon DEF IInv
<1>7. ASSUME NEW d \in Conns, NEW x \in Xids PROVE Path(d, x)'
  <2>1. Path(d, x) /\ Places(d, x)' = Places(d, x)
    BY <1>1, Zenon DEF IInv, PathInv, Places
  <2>2. CASE d # c
    <3>1. (x \in pend'[d] <=> x \in pend[d]) /\ got'[d][x] = got[d][x]
      BY <1>3, <2>2
    <3> QED
      BY <1>1, <2>1, <3>1, PathKept, Zenon
  <2>3. CASE d = c
    <3>1. x \notin pend'[d] /\ got'[d][x] = IF x \in pend[d] THEN "ENOTCONN" ELSE got[d][x]
      BY <1>3, <2>3
    <3> QED
      BY <1>1, <2>1, <2>3, <3>1 DEF Path
  <2> QED
    BY <2>2, <2>3
<1> QED
  BY <1>1, <1>4, <1>5, <1>6, <1>7, Zenon DEF IInv, PathInv

-----------------------------------------------------------------------------
(* Packets *)

\* A packet is taken off the wire by a thread of the host it goes to.
LEMMA GoesTo ==
  ASSUME IInv, NEW h \in Hosts, NEW t \in Threads(h), NEW p \in net
  PROVE  /\ p \in Packet /\ p.k \in Kinds /\ p.c \in Conns /\ t \in AllThreads
         /\ (p.k = "CON" /\ Goes(h, t, p) => To[p.c] = h)
         /\ net \subseteq Packet /\ net \ {p} \subseteq Packet
<1>1. p \in Packet /\ net \subseteq Packet /\ t \in AllThreads
  BY ThreadsIn, Zenon DEF IInv, TypeOK
<1> QED
  BY <1>1 DEF Packet, Goes, Target

\* Taking a packet of the handshake moves no request.
LEMMA ControlTaken ==
  ASSUME IInv, NEW p \in net, p.k \in {"CON", "CON_ACK"}, net' = net \ {p}, UNCHANGED << outr, inr, lost, cl, runs >>
  PROVE  PathInv'
<1>1. p.x = 0 /\ \A q \in net : q.k \in {"CON", "CON_ACK"} <=> q.x = 0
  BY Zenon DEF IInv, PathInv
<1>2. \A q : q.x # 0 => (q \in net' <=> q \in net)
  BY <1>1
<1>3. \A q \in net' : q.k \in {"CON", "CON_ACK"} <=> q.x = 0
  BY <1>1
<1>4. UNCHANGED << sent, pend, got >>
  BY DEF cl
<1> QED
  BY <1>2, <1>3, <1>4, PathInvKept, Zenon DEF IInv

\* A thread goes to another place of its loop.
LEMMA StepIs ==
  ASSUME TypeOK, NEW h \in Hosts, NEW t \in AllThreads, NEW to \in {Looping} \cup ({"accept", "tell"} \X Conns), Step(h, t, to)
  PROVE  /\ pc' \in [Hosts -> [AllThreads -> {Looping} \cup ({"accept", "tell"} \X Conns)]]
         /\ \A g \in Hosts, u \in AllThreads : pc'[g][u] = IF g = h /\ u = t THEN to ELSE pc[g][u]
<1>1. pc \in [Hosts -> [AllThreads -> {Looping} \cup ({"accept", "tell"} \X Conns)]]
  BY Zenon DEF TypeOK
<1> QED
  BY <1>1 DEF Step

LEMMA RxConKeeps ==
  ASSUME IInv, NEW h \in Hosts, NEW t \in Threads(h), NEW p \in net, RxCon(h, t, p)
  PROVE  IInv'
<1> DEFINE to == IF serving[h] THEN << "accept", p.c >> ELSE Looping
<1>1. /\ InLoop(h, t) /\ p.k = "CON" /\ Goes(h, t, p) /\ net' = net \ {p} /\ Step(h, t, to)
      /\ UNCHANGED << rss, ord, hs, sm, tab, outr, inr, cl, runs, lost, losses >>
  BY DEF RxCon
<1>2. p.c \in Conns /\ t \in AllThreads /\ To[p.c] = h /\ net \ {p} \subseteq Packet
  BY <1>1, GoesTo, Zenon
<1>3. to \in {Looping} \cup ({"accept", "tell"} \X Conns) /\ to[1] # "tell" /\ \A c \in Conns : to = << "accept", c >> => To[c] = h
  BY <1>2 DEF Looping
<1> HIDE DEF to
<1>4. /\ pc' \in [Hosts -> [AllThreads -> {Looping} \cup ({"accept", "tell"} \X Conns)]]
      /\ \A g \in Hosts, u \in AllThreads : pc'[g][u] = IF g = h /\ u = t THEN to ELSE pc[g][u]
  <2>1. TypeOK
    BY DEF IInv
  <2> QED
    BY <1>1, <1>2, <1>3, <2>1, StepIs
<1>5. TypeOK'
  BY <1>1, <1>2, <1>4, Zenon DEF IInv, TypeOK, hs, cl
<1>6. HandInv'
  <2>1. \A g \in Hosts, u \in AllThreads, c \in Conns : Telling(g, u, c)' <=> Telling(g, u, c)
    <3>1. pc[h][t] = Looping
      BY <1>1 DEF InLoop
    <3> QED
      BY <1>2, <1>3, <1>4, <3>1 DEF Telling, Looping
  <2>2. UNCHANGED << made, acked, accepted, held, st >>
    BY <1>1 DEF hs
  <2>3. MadeInv' /\ ConnectInv'
    BY <1>1, <2>2, Zenon DEF IInv, HandInv, MadeInv, ConnectInv
  <2>4. NotedInv'
    <3>1. \A e \in made : e[1] \in Conns /\ To[e[1]] \in Hosts /\ Threads(To[e[1]]) \subseteq AllThreads
      BY ThreadsIn, Zenon DEF IInv, TypeOK
    <3> QED
      BY <2>1, <2>2, <3>1, Zenon DEF IInv, HandInv, NotedInv
  <2>5. AcceptInv'
    <3>1. \A g \in Hosts, u \in AllThreads, c \in Conns : pc'[g][u] = << "accept", c >> => To[c] = g
      <4>1. \A g \in Hosts, u \in AllThreads, c \in Conns : pc[g][u] = << "accept", c >> => To[c] = g
        BY AcceptFacts
      <4> SUFFICES ASSUME NEW g \in Hosts, NEW u \in AllThreads, NEW c \in Conns, pc'[g][u] = << "accept", c >>
                   PROVE  To[c] = g
        BY Zenon
      <4>2. pc'[g][u] = IF g = h /\ u = t THEN to ELSE pc[g][u]
        BY <1>4, Zenon
      <4> QED
        BY <1>3, <4>1, <4>2, Zenon
    <3> QED
      BY <2>1, <2>2, <3>1 DEF IInv, HandInv, AcceptInv
  <2> QED
    BY <2>3, <2>4, <2>5 DEF HandInv
<1>7. KnownInv'
  BY <1>1, KnownKept, Zenon DEF IInv, hs
<1>8. PathInv'
  BY <1>1, ControlTaken
<1> QED
  BY <1>5, <1>6, <1>7, <1>8 DEF IInv

\* The answer names a port that was made for the connection.
LEMMA RxAckKeeps ==
  ASSUME IInv, NEW h \in Hosts, NEW t \in Threads(h), NEW p \in net, RxAck(h, t, p)
  PROVE  IInv'
<1>1. /\ p.k = "CON_ACK" /\ net' = net \ {p}
      /\ acked' = IF st[p.c] \in {"conn", "wait"} THEN [acked EXCEPT ![p.c] = p.p] ELSE acked
      /\ UNCHANGED << rss, ord, serving, held, accepted, made, st, job, pc, sm, tab, outr, inr, cl, runs, lost, losses >>
  BY Zenon DEF RxAck
<1>2. p \in Packet /\ p.c \in Conns /\ net \ {p} \subseteq Packet
  BY GoesTo, Zenon
<1>3. p.p \in Ports \cup {0} /\ << p.c, p.p >> \in made
  BY <1>1, <1>2, Zenon DEF Packet, IInv, HandInv, MadeInv
<1>4. acked \in [Conns -> Ports \cup {0}]
  BY Zenon DEF IInv, TypeOK
<1>5. acked' \in [Conns -> Ports \cup {0}] /\ \A c \in Conns : acked'[c] = acked[c] \/ (c = p.c /\ acked'[c] = p.p)
  BY <1>1, <1>2, <1>3, <1>4, Zenon
<1>6. TypeOK'
  BY <1>1, <1>2, <1>5, Zenon DEF IInv, TypeOK, cl
<1>7. HandInv'
  <2>1. \A c \in Conns : acked'[c] # 0 => << c, acked'[c] >> \in made
    <3>1. \A c \in Conns : acked[c] # 0 => << c, acked[c] >> \in made
      BY Zenon DEF IInv, HandInv, MadeInv
    <3> QED
      BY <1>3, <1>5, <3>1
  <2>2. MadeInv' /\ ConnectInv' /\ NotedInv'
    BY <1>1, <2>1, Zenon DEF IInv, HandInv, MadeInv, ConnectInv, NotedInv, Telling
  <2>3. AcceptInv'
    BY <1>1 DEF IInv, HandInv, AcceptInv, Telling
  <2> QED
    BY <2>2, <2>3 DEF HandInv
<1>8. KnownInv'
  BY <1>1, KnownKept, Zenon DEF IInv
<1>9. PathInv'
  BY <1>1, ControlTaken
<1> QED
  BY <1>6, <1>7, <1>8, <1>9 DEF IInv

\* What becomes of a packet that is taken from the wire: its request goes to one other
\* place, and all others stay where they are.
LEMMA OthersStay ==
  ASSUME IInv, NEW p \in net, \A q \in net' : q \in net \/ (q.c = p.c /\ q.x = p.x),
         \A q \in net : q = p \/ q \in net', UNCHANGED outr, UNCHANGED cl,
         \A c \in Conns, t \in AllThreads, x \in Xids :
            c # p.c \/ x # p.x => (x \in Range(inr'[c][t]) <=> x \in Range(inr[c][t])),
         \A c \in Conns, x \in Xids : c # p.c \/ x # p.x =>
            (<< c, x >> \in lost' <=> << c, x >> \in lost) /\ runs'[c][x] = runs[c][x],
         NEW c \in Conns, NEW x \in Xids, c # p.c \/ x # p.x
  PROVE  Path(c, x)'
<1>1. Path(c, x)
  BY Zenon DEF IInv, PathInv
<1>2. On(c, x)' = On(c, x)
  BY DEF On
<1>3. Places(c, x)' = Places(c, x)
  BY <1>2, PlacesKept, Zenon
<1>4. UNCHANGED << sent, pend, got >>
  BY DEF cl
<1> QED
  BY <1>1, <1>3, <1>4, PathKept, Zenon

\* Its own request is in the new place.
LEMMA PathMoved ==
  ASSUME NEW c, NEW x, NEW l, Path(c, x), Places(c, x) # {}, Places(c, x)' = {l},
         x \in pend'[c] <=> x \in pend[c], got'[c][x] = got[c][x], sent'[c] = sent[c],
         runs'[c][x] \in {0, 1}, runs[c][x] = 1 => runs'[c][x] = 1,
         l[1] \in {"out", "RR"} => runs'[c][x] = 0, l[1] \in {"in", "RR_BG"} => runs'[c][x] = 1
  PROVE  Path(c, x)'
<1>1. /\ ~(x > sent[c]) /\ (x <= sent[c] => (x \in pend[c] <=> got[c][x] = "-"))
      /\ (got[c][x] = "ok" => runs[c][x] = 1)
  BY Zenon DEF Path
<1>2. \A a, b \in {l} : a = b /\ b = l
  BY Zenon
<1>3. {l} # {}
  BY Zenon
<1> QED
  BY <1>1, <1>2, <1>3, Zenon DEF Path

\* The place of a request tells whether it was executed.
LEMMA PlaceRuns ==
  ASSUME NEW c, NEW x, NEW k, Path(c, x), Places(c, x) = {<< k, 0 >>}
  PROVE  (k = "RR" => runs[c][x] = 0) /\ (k = "RR_BG" => runs[c][x] = 1)
<1>1. << k, 0 >>[1] = k
  OBVIOUS
<1> QED
  BY <1>1 DEF Path

\* A request that a thread receives: executed, or lost when the connection is unknown.
LEMMA RxRequestKeeps ==
  ASSUME IInv, NEW h \in Hosts, NEW t \in Threads(h), NEW p \in net, RxRequest(h, t, p)
  PROVE  IInv'
<1> DEFINE known == << p.c, p.p >> \in tab[h][t]
           new == IF known THEN {Reply(p)} ELSE {}
<1>1. /\ p.k = "RR" /\ net' = (net \ {p}) \cup new
      /\ runs' = [runs EXCEPT ![p.c][p.x] = IF known THEN @ + 1 ELSE @]
      /\ lost' = IF ~known THEN lost \cup {<< p.c, p.x >>} ELSE lost
      /\ UNCHANGED << rss, ord, hs, pc, sm, tab, outr, inr, cl, losses >>
  BY Zenon DEF RxRequest, LoseIf
<1> HIDE DEF known
<1>2. /\ p.c \in Conns /\ p.x \in Xids /\ On(p.c, p.x) = {p} /\ Places(p.c, p.x) = {<< "RR", 0 >>}
      /\ \A u \in AllThreads : p.x \notin Range(outr[p.c][u]) /\ p.x \notin Range(inr[p.c][u])
      /\ << p.c, p.x >> \notin lost
  BY <1>1, OnePacket, Zenon
<1>3. p \in Packet /\ net \subseteq Packet
  BY GoesTo, Zenon
<1>4. /\ Reply(p) \in Packet /\ Reply(p).k = "RR_BG" /\ Reply(p).c = p.c /\ Reply(p).x = p.x /\ Reply(p).p = p.p
      /\ Reply(p) # p
  BY <1>1, <1>3, Zenon DEF Reply, Packet, Kinds
<1>5. new \subseteq Packet /\ \A q \in new : q = Reply(p)
  BY <1>4
<1>6. runs \in [Conns -> [Xids -> Nat]] /\ lost \subseteq Conns \X Xids
  BY Zenon DEF IInv, TypeOK
<1>7. /\ runs' \in [Conns -> [Xids -> Nat]]
      /\ \A c \in Conns, x \in Xids : runs'[c][x] = IF c = p.c /\ x = p.x /\ known THEN runs[c][x] + 1 ELSE runs[c][x]
  <2>1. p.c \in Conns /\ p.x \in Xids /\ runs' = [runs EXCEPT ![p.c][p.x] = IF known THEN @ + 1 ELSE @]
    BY <1>1, <1>2, Zenon
  <2> QED
    BY <1>6, <2>1
<1>8. TypeOK'
  <2>1. net' \subseteq Packet /\ lost' \subseteq Conns \X Xids
    <3>1. << p.c, p.x >> \in Conns \X Xids
      BY <1>2
    <3> QED
      BY <1>1, <1>3, <1>5, <1>6, <3>1, Zenon
  <2> QED
    BY <1>1, <1>7, <2>1, Zenon DEF IInv, TypeOK, hs, cl
<1>9. \A q \in net' : q \in net \/ q = Reply(p)
  BY <1>1, <1>5, Zenon
<1>10. HandInv'
  <2>1. UNCHANGED << made, acked, accepted, st, held, pc >>
    BY <1>1, Zenon DEF hs
  <2>2. << p.c, p.p >> \in made /\ \A q \in net : q.k # "CON" => << q.c, q.p >> \in made
    BY <1>1, Zenon DEF IInv, HandInv, MadeInv
  <2>3. \A q \in net' : q.k # "CON" => << q.c, q.p >> \in made
    BY <1>4, <1>9, <2>2
  <2> QED
    BY <2>1, <2>3, HandKept, Zenon DEF IInv
<1>11. KnownInv'
  BY <1>1, KnownKept, Zenon DEF IInv, hs
<1>12. \A q \in net' : q.k \in {"CON", "CON_ACK"} <=> q.x = 0
  <2>1. p.x # 0 /\ \A q \in net : q.k \in {"CON", "CON_ACK"} <=> q.x = 0
    BY <1>1, Zenon DEF IInv, PathInv
  <2> QED
    BY <1>4, <1>9, <2>1
<1>13. ASSUME NEW c \in Conns, NEW x \in Xids PROVE Path(c, x)'
  <2>1. CASE c # p.c \/ x # p.x
    <3>1. \A d \in Conns, y \in Xids : d # p.c \/ y # p.x =>
             (<< d, y >> \in lost' <=> << d, y >> \in lost) /\ runs'[d][y] = runs[d][y]
      <4>1. lost' = IF ~known THEN lost \cup {<< p.c, p.x >>} ELSE lost
        BY <1>1, Zenon
      <4> QED
        BY <1>7, <4>1
    <3>2. (\A q \in net' : q \in net \/ (q.c = p.c /\ q.x = p.x)) /\ \A q \in net : q = p \/ q \in net'
      BY <1>1, <1>4, <1>5, Zenon
    <3>3. UNCHANGED outr /\ UNCHANGED cl /\ UNCHANGED inr
      BY <1>1, Zenon
    <3> QED
      BY <2>1, <3>1, <3>2, <3>3, OthersStay, Zenon
  <2>2. CASE c = p.c /\ x = p.x
    <3>1. Path(c, x) /\ Places(c, x) = {<< "RR", 0 >>}
      BY <1>2, <2>2, Zenon DEF IInv, PathInv
    <3>2. runs[c][x] = 0 /\ UNCHANGED << sent, pend, got >>
      BY <1>1, <3>1, PlaceRuns, Zenon DEF cl
    <3>3. On(c, x)' = new
      BY <1>1, <1>2, <1>4, <1>5, <2>2, Zenon DEF On
    <3>4. CASE known
      <4>1. Places(c, x)' = {<< "RR_BG", 0 >>}
        BY <1>1, <1>2, <1>4, <2>2, <3>3, <3>4 DEF Places, On
      <4>2. runs'[c][x] = 1
        BY <1>7, <2>2, <3>2, <3>4
      <4>3. << "RR_BG", 0 >>[1] = "RR_BG" /\ {<< "RR", 0 >>} # {}
        OBVIOUS
      <4> QED
        BY <3>1, <3>2, <4>1, <4>2, <4>3, PathMoved, Zenon
    <3>5. CASE ~known
      <4>1. Places(c, x)' = {<< "lost", 0 >>}
        BY <1>1, <1>2, <2>2, <3>3, <3>5, Zenon DEF Places, On
      <4>2. runs'[c][x] = 0
        BY <1>7, <2>2, <3>2, <3>5, Zenon
      <4>3. << "lost", 0 >>[1] = "lost" /\ {<< "RR", 0 >>} # {}
        OBVIOUS
      <4> QED
        BY <3>1, <3>2, <4>1, <4>2, <4>3, PathMoved, Zenon
    <3> QED
      BY <3>4, <3>5
  <2> QED
    BY <2>1, <2>2
<1> QED
  BY <1>8, <1>10, <1>11, <1>12, <1>13, Zenon DEF IInv, PathInv

\* A reply that a thread receives: in its ring of the client, or lost.
LEMMA RxReplyKeeps ==
  ASSUME IInv, NEW h \in Hosts, NEW t \in Threads(h), NEW p \in net, RxReply(h, t, p)
  PROVE  IInv'
<1> DEFINE fits == << p.c, p.p >> \in tab[h][t] /\ Len(inr[p.c][t]) < RingSize
<1>1. /\ p.k = "RR_BG" /\ net' = net \ {p}
      /\ inr' = IF fits THEN [inr EXCEPT ![p.c][t] = Append(@, p.x)] ELSE inr
      /\ lost' = IF ~fits THEN lost \cup {<< p.c, p.x >>} ELSE lost
      /\ UNCHANGED << rss, ord, hs, pc, sm, tab, outr, cl, runs, losses >>
      /\ fits => Len(inr[p.c][t]) < RingSize
  BY Zenon DEF RxReply, LoseIf
<1> HIDE DEF fits
<1>2. /\ p.c \in Conns /\ p.x \in Xids /\ On(p.c, p.x) = {p} /\ Places(p.c, p.x) = {<< "RR_BG", 0 >>}
      /\ \A u \in AllThreads : p.x \notin Range(outr[p.c][u]) /\ p.x \notin Range(inr[p.c][u])
      /\ << p.c, p.x >> \notin lost
  BY <1>1, OnePacket, Zenon
<1>3. net \subseteq Packet /\ t \in AllThreads
  BY GoesTo, Zenon
<1>4. /\ inr \in [Conns -> [AllThreads -> Seq(Xids)]] /\ lost \subseteq Conns \X Xids
      /\ \A c \in Conns, u \in AllThreads : Len(inr[c][u]) <= RingSize
  BY Zenon DEF IInv, TypeOK
<1>5. /\ inr' \in [Conns -> [AllThreads -> Seq(Xids)]]
      /\ \A c \in Conns, u \in AllThreads :
            inr'[c][u] = IF fits /\ c = p.c /\ u = t THEN Append(inr[c][u], p.x) ELSE inr[c][u]
  <2>1. CASE fits
    <3>1. p.c \in Conns /\ p.x \in Xids /\ t \in AllThreads /\ inr' = [inr EXCEPT ![p.c][t] = Append(@, p.x)]
      BY <1>1, <1>2, <1>3, <2>1, Zenon
    <3> QED
      BY <1>4, <2>1, <3>1
  <2>2. CASE ~fits
    BY <1>1, <1>4, <2>2, Zenon
  <2> QED
    BY <2>1, <2>2
<1>6. \A c \in Conns, u \in AllThreads, x \in Xids :
         x \in Range(inr'[c][u]) <=> x \in Range(inr[c][u]) \/ (fits /\ c = p.c /\ u = t /\ x = p.x)
  <2>1. Range(Append(inr[p.c][t], p.x)) = Range(inr[p.c][t]) \cup {p.x}
    BY <1>2, <1>3, <1>4, RangeAppend
  <2> SUFFICES ASSUME NEW c \in Conns, NEW u \in AllThreads, NEW x \in Xids
               PROVE  x \in Range(inr'[c][u]) <=> x \in Range(inr[c][u]) \/ (fits /\ c = p.c /\ u = t /\ x = p.x)
    BY Zenon
  <2>2. inr'[c][u] = IF fits /\ c = p.c /\ u = t THEN Append(inr[p.c][t], p.x) ELSE inr[c][u]
    BY <1>5, Zenon
  <2> QED
    BY <2>1, <2>2
<1>7. TypeOK'
  <2>1. net' \subseteq Packet /\ lost' \subseteq Conns \X Xids
    <3>1. << p.c, p.x >> \in Conns \X Xids
      BY <1>2
    <3> QED
      BY <1>1, <1>3, <1>4, <3>1, Zenon
  <2>2. ASSUME NEW c \in Conns, NEW u \in AllThreads PROVE Len(inr'[c][u]) <= RingSize
    <3>1. inr[c][u] \in Seq(Xids) /\ RingSize \in Nat /\ Len(inr[c][u]) <= RingSize
      BY <1>4, DpdkAssumption
    <3>2. CASE fits /\ c = p.c /\ u = t
      <4>1. inr'[c][u] = Append(inr[c][u], p.x) /\ Len(inr[c][u]) < RingSize
        BY <1>1, <1>5, <3>2, Zenon
      <4> QED
        BY <1>2, <3>1, <4>1
    <3>3. CASE ~(fits /\ c = p.c /\ u = t)
      <4>1. inr'[c][u] = inr[c][u]
        BY <1>5, <3>3, Zenon
      <4> QED
        BY <3>1, <4>1
    <3> QED
      BY <3>2, <3>3, Zenon
  <2> QED
    BY <1>1, <1>5, <2>1, <2>2, Zenon DEF IInv, TypeOK, hs, cl
<1>8. HandInv'
  <2>1. UNCHANGED << made, acked, accepted, st, held, pc >>
    BY <1>1, Zenon DEF hs
  <2>2. \A q \in net' : q.k # "CON" => << q.c, q.p >> \in made
    BY <1>1, Zenon DEF IInv, HandInv, MadeInv
  <2> QED
    BY <2>1, <2>2, HandKept, Zenon DEF IInv
<1>9. KnownInv'
  BY <1>1, KnownKept, Zenon DEF IInv, hs
<1>10. \A q \in net' : q.k \in {"CON", "CON_ACK"} <=> q.x = 0
  BY <1>1, Zenon DEF IInv, PathInv
<1>11. ASSUME NEW c \in Conns, NEW x \in Xids PROVE Path(c, x)'
  <2>1. CASE c # p.c \/ x # p.x
    <3>1. \A d \in Conns, y \in Xids : d # p.c \/ y # p.x =>
             (<< d, y >> \in lost' <=> << d, y >> \in lost) /\ runs'[d][y] = runs[d][y]
      BY <1>1, Zenon
    <3>2. \A d \in Conns, u \in AllThreads, y \in Xids :
             d # p.c \/ y # p.x => (y \in Range(inr'[d][u]) <=> y \in Range(inr[d][u]))
      BY <1>6
    <3>3. /\ (\A q \in net' : q \in net \/ (q.c = p.c /\ q.x = p.x)) /\ (\A q \in net : q = p \/ q \in net')
          /\ UNCHANGED outr /\ UNCHANGED cl
      BY <1>1, Zenon
    <3> QED
      BY <1>1, <2>1, <3>1, <3>2, <3>3, OthersStay, Zenon
  <2>2. CASE c = p.c /\ x = p.x
    <3>1. Path(c, x) /\ Places(c, x) = {<< "RR_BG", 0 >>}
      BY <1>2, <2>2, Zenon DEF IInv, PathInv
    <3>2. runs[c][x] = 1 /\ runs'[c][x] = 1 /\ UNCHANGED << sent, pend, got >>
      BY <1>1, <3>1, PlaceRuns, Zenon DEF cl
    <3>3. On(c, x)' = {}
      BY <1>1, <1>2, <2>2, Zenon DEF On
    <3>4. CASE fits
      <4>1. \A u \in AllThreads : (x \in Range(inr'[c][u]) <=> u = t) /\ x \notin Range(outr'[c][u])
        BY <1>1, <1>2, <1>6, <2>2, <3>4, Zenon
      <4>2. << c, x >> \notin lost'
        BY <1>1, <1>2, <2>2, <3>4, Zenon
      <4>3. Places(c, x)' = {<< "in", t >>}
        BY <1>3, <3>3, <4>1, <4>2 DEF Places, On
      <4>4. << "in", t >>[1] = "in" /\ {<< "RR_BG", 0 >>} # {}
        OBVIOUS
      <4> QED
        BY <3>1, <3>2, <4>3, <4>4, PathMoved, Zenon
    <3>5. CASE ~fits
      <4>1. Places(c, x)' = {<< "lost", 0 >>}
        BY <1>1, <1>2, <2>2, <3>3, <3>5, Zenon DEF Places, On
      <4>2. << "lost", 0 >>[1] = "lost" /\ {<< "RR_BG", 0 >>} # {}
        OBVIOUS
      <4> QED
        BY <3>1, <3>2, <4>1, <4>2, PathMoved, Zenon
    <3> QED
      BY <3>4, <3>5
  <2> QED
    BY <2>1, <2>2
<1> QED
  BY <1>7, <1>8, <1>9, <1>10, <1>11, Zenon DEF IInv, PathInv

\* The network loses a packet: only that of a request, or of a reply, counts as lost.
LEMMA LoseKeeps ==
  ASSUME IInv, NEW p \in net, Lose(p)
  PROVE  IInv'
<1> DEFINE rr == p.k \in {"RR", "RR_BG"}
<1>1. /\ losses < MaxLosses /\ losses' = losses + 1 /\ net' = net \ {p}
      /\ lost' = IF rr THEN lost \cup {<< p.c, p.x >>} ELSE lost
      /\ UNCHANGED << rss, ord, hs, pc, sm, tab, outr, inr, cl, runs >>
  BY DEF Lose, LoseIf
<1>2. net \subseteq Packet /\ lost \subseteq Conns \X Xids /\ losses \in 0 .. MaxLosses /\ p.k \in Kinds
  BY Zenon DEF IInv, TypeOK, Packet
<1>3. rr => /\ p.c \in Conns /\ p.x \in Xids /\ On(p.c, p.x) = {p} /\ Places(p.c, p.x) = {<< p.k, 0 >>}
            /\ \A u \in AllThreads : p.x \notin Range(outr[p.c][u]) /\ p.x \notin Range(inr[p.c][u])
            /\ << p.c, p.x >> \notin lost
  BY OnePacket, Zenon
<1>4. TypeOK'
  <2>1. net' \subseteq Packet /\ lost' \subseteq Conns \X Xids /\ losses' \in 0 .. MaxLosses
    BY <1>1, <1>2, <1>3, DpdkAssumption
  <2> QED
    BY <1>1, <2>1, Zenon DEF IInv, TypeOK, hs, cl
<1>5. HandInv'
  <2>1. UNCHANGED << made, acked, accepted, st, held, pc >>
    BY <1>1 DEF hs
  <2>2. \A q \in net' : q.k # "CON" => << q.c, q.p >> \in made
    BY <1>1, Zenon DEF IInv, HandInv, MadeInv
  <2> QED
    BY <2>1, <2>2, HandKept, Zenon DEF IInv
<1>6. KnownInv'
  BY <1>1, KnownKept, Zenon DEF IInv, hs
<1>7. CASE ~rr
  <2>1. p.k \in {"CON", "CON_ACK"}
    BY <1>2, <1>7 DEF Kinds
  <2>2. UNCHANGED lost
    BY <1>1, <1>7
  <2>3. PathInv'
    BY <1>1, <2>1, <2>2, ControlTaken, Zenon
  <2> QED
    BY <1>4, <1>5, <1>6, <2>3 DEF IInv
<1>8. CASE rr
  <2>1. \A q \in net' : q.k \in {"CON", "CON_ACK"} <=> q.x = 0
    BY <1>1, Zenon DEF IInv, PathInv
  <2>2. ASSUME NEW c \in Conns, NEW x \in Xids PROVE Path(c, x)'
    <3>1. CASE c # p.c \/ x # p.x
      <4>1. \A d \in Conns, y \in Xids : d # p.c \/ y # p.x =>
               (<< d, y >> \in lost' <=> << d, y >> \in lost) /\ runs'[d][y] = runs[d][y]
        BY <1>1
      <4>2. \A d \in Conns, u \in AllThreads, y \in Xids :
               d # p.c \/ y # p.x => (y \in Range(inr'[d][u]) <=> y \in Range(inr[d][u]))
        BY <1>1, Zenon
      <4>3. /\ (\A q \in net' : q \in net \/ (q.c = p.c /\ q.x = p.x)) /\ (\A q \in net : q = p \/ q \in net')
          /\ UNCHANGED outr /\ UNCHANGED cl
        BY <1>1
      <4> QED
        BY <1>1, <3>1, <4>1, <4>2, <4>3, OthersStay, Zenon
    <3>2. CASE c = p.c /\ x = p.x
      <4>1. Path(c, x) /\ Places(c, x) = {<< p.k, 0 >>}
        BY <1>3, <1>8, <3>2, Zenon DEF IInv, PathInv
      <4>2. runs[c][x] \in {0, 1} /\ runs'[c][x] = runs[c][x] /\ UNCHANGED << sent, pend, got >>
        BY <1>1, <4>1, Zenon DEF Path, cl
      <4>3. On(c, x)' = {}
        BY <1>1, <1>3, <1>8, <3>2, Zenon DEF On
      <4>4. Places(c, x)' = {<< "lost", 0 >>}
        BY <1>1, <1>3, <1>8, <3>2, <4>3, Zenon DEF Places, On
      <4>5. << "lost", 0 >>[1] = "lost" /\ {<< p.k, 0 >>} # {}
        OBVIOUS
      <4> QED
        BY <4>1, <4>2, <4>4, <4>5, PathMoved, Zenon
    <3> QED
      BY <3>1, <3>2
  <2> QED
    BY <1>4, <1>5, <1>6, <2>1, <2>2, Zenon DEF IInv, PathInv
<1> QED
  BY <1>7, <1>8

-----------------------------------------------------------------------------
(* accept() *)

\* An answer is sent: it moves no request.
LEMMA AckSent ==
  ASSUME IInv, NEW c, NEW q, net' = net \cup {Pkt("CON_ACK", c, q, 0)}, UNCHANGED << outr, inr, lost, cl, runs >>
  PROVE  PathInv'
<1>1. Pkt("CON_ACK", c, q, 0).x = 0 /\ Pkt("CON_ACK", c, q, 0).k = "CON_ACK"
  BY DEF Pkt
<1>2. \A p : p.x # 0 => (p \in net' <=> p \in net)
  BY <1>1
<1>3. \A p \in net : p.k \in {"CON", "CON_ACK"} <=> p.x = 0
  BY Zenon DEF IInv, PathInv
<1>4. \A p \in net' : p.k \in {"CON", "CON_ACK"} <=> p.x = 0
  BY <1>1, <1>3
<1>5. UNCHANGED << sent, pend, got >>
  BY DEF cl
<1> QED
  BY <1>2, <1>4, <1>5, PathInvKept, Zenon DEF IInv

\* The lock was free, so no thread is making the connection; it was not accepted, so none
\* has made it.
LEMMA AcceptKeeps ==
  ASSUME IInv, NEW h \in Hosts, NEW t \in Threads(h), Accept(h, t)
  PROVE  IInv'
<1>1. PICK c \in Conns, q \in Ports :
         /\ pc[h][t] = << "accept", c >> /\ held[h] = none /\ accepted[c] = 0
         /\ \A e \in made : e[2] # q
         /\ net' = net \cup {Pkt("CON_ACK", c, q, 0)}
         /\ made' = made \cup {<< c, q >>} /\ held' = [held EXCEPT ![h] = c]
         /\ Step(h, t, << "tell", c >>)
         /\ UNCHANGED << rss, ord, serving, accepted, st, acked, job, sm, tab, outr, inr, cl, runs, lost, losses >>
  BY Zenon DEF Accept
<1>2. /\ held \in [Hosts -> Conns \cup {none}] /\ made \subseteq Conns \X Ports /\ net \subseteq Packet
      /\ t \in AllThreads /\ none \notin Conns /\ TypeOK
  BY ThreadsIn, DpdkAssumption, Zenon DEF IInv, TypeOK
<1>3. To[c] = h
  <2>1. \A g \in Hosts, u \in AllThreads, d \in Conns : pc[g][u] = << "accept", d >> => To[d] = g
    BY AcceptFacts
  <2> QED
    BY <1>1, <1>2, <2>1, Zenon
<1>4. /\ pc' \in [Hosts -> [AllThreads -> {Looping} \cup ({"accept", "tell"} \X Conns)]]
      /\ \A g \in Hosts, u \in AllThreads : pc'[g][u] = IF g = h /\ u = t THEN << "tell", c >> ELSE pc[g][u]
  <2>1. << "tell", c >> \in {Looping} \cup ({"accept", "tell"} \X Conns)
    OBVIOUS
  <2> QED
    BY <1>1, <1>2, <2>1, StepIs
<1>5. \A g \in Hosts : held'[g] = IF g = h THEN c ELSE held[g]
  BY <1>1, <1>2, Zenon
<1>6. \A u \in AllThreads, d \in Conns : ~Telling(h, u, d)
  BY <1>1, <1>2, AcceptFacts, Zenon
<1>7. \A e \in made : e[1] # c
  <2> SUFFICES ASSUME NEW e \in made, e[1] = c PROVE FALSE
    BY Zenon
  <2>1. \E u \in Threads(To[e[1]]) : Telling(To[e[1]], u, e[1])
    BY <1>1, Zenon DEF IInv, HandInv, NotedInv
  <2> QED
    BY <1>3, <1>6, <2>1, ThreadsIn, Zenon
<1>8. Pkt("CON_ACK", c, q, 0) \in Packet /\ Pkt("CON_ACK", c, q, 0).c = c /\ Pkt("CON_ACK", c, q, 0).p = q
  BY DEF Pkt, Packet, Kinds
<1>9. TypeOK'
  <2>1. net' \subseteq Packet /\ made' \subseteq Conns \X Ports /\ held' \in [Hosts -> Conns \cup {none}]
    <3>1. << c, q >> \in Conns \X Ports
      OBVIOUS
    <3> QED
      BY <1>1, <1>2, <1>8, <3>1, Zenon
  <2> QED
    BY <1>1, <1>4, <2>1, Zenon DEF IInv, TypeOK, cl
<1>10. MadeInv'
  <2>1. \A e, f \in made' : e[1] = f[1] <=> e[2] = f[2]
    <3>1. \A e, f \in made : e[1] = f[1] <=> e[2] = f[2]
      BY Zenon DEF IInv, HandInv, MadeInv
    <3>2. \A e \in made' : e \in made \/ (e[1] = c /\ e[2] = q)
      <4>1. \A e \in made' : e \in made \/ e = << c, q >>
        BY <1>1, Zenon
      <4>2. << c, q >>[1] = c /\ << c, q >>[2] = q
        OBVIOUS
      <4> QED
        BY <4>1, <4>2, Zenon
    <3>3. \A e \in made : e[1] # c /\ e[2] # q
      BY <1>1, <1>7, Zenon
    <3> QED
      BY <3>1, <3>2, <3>3, Zenon
  <2>2. \A p \in net' : p.k # "CON" => << p.c, p.p >> \in made'
    <3>1. \A p \in net : p.k # "CON" => << p.c, p.p >> \in made
      BY Zenon DEF IInv, HandInv, MadeInv
    <3> QED
      BY <1>1, <1>8, <3>1, Zenon
  <2>3. \A e \in made : e \in made'
    BY <1>1
  <2> QED
    BY <1>1, <2>1, <2>2, <2>3, Zenon DEF IInv, HandInv, MadeInv
<1>11. ConnectInv'
  <2>1. \A d \in Conns : st[d] \in {"conn", "wait"} => held[From[d]] = d /\ From[d] \in Hosts
    BY ThreadsIn, Zenon DEF IInv, HandInv, ConnectInv
  <2> QED
    BY <1>1, <1>2, <1>5, <2>1 DEF ConnectInv
<1>12. \A g \in Hosts, u \in AllThreads, d \in Conns :
         Telling(g, u, d)' <=> Telling(g, u, d) \/ (g = h /\ u = t /\ d = c)
  <2>1. ASSUME NEW g \in Hosts, NEW u \in AllThreads, NEW d \in Conns, g = h, u = t
        PROVE  (Telling(g, u, d)' <=> d = c) /\ ~Telling(g, u, d)
    BY <1>4, <1>6, <2>1 DEF Telling
  <2>2. ASSUME NEW g \in Hosts, NEW u \in AllThreads, NEW d \in Conns, g # h \/ u # t
        PROVE  Telling(g, u, d)' <=> Telling(g, u, d)
    BY <1>4, <2>2, Zenon DEF Telling
  <2> QED
    BY <2>1, <2>2, Zenon
<1>13. NotedInv'
  <2> SUFFICES ASSUME NEW e \in made', accepted[e[1]] = 0
               PROVE  \E u \in Threads(To[e[1]]) : Telling(To[e[1]], u, e[1])'
    BY <1>1, Zenon DEF NotedInv
  <2>1. CASE e \in made
    <3>1. e[1] \in Conns /\ To[e[1]] \in Hosts /\ Threads(To[e[1]]) \subseteq AllThreads
      BY <1>2, <2>1, ThreadsIn
    <3>2. PICK u \in Threads(To[e[1]]) : Telling(To[e[1]], u, e[1])
      BY <2>1, Zenon DEF IInv, HandInv, NotedInv
    <3> QED
      BY <1>12, <3>1, <3>2, Zenon
  <2>2. CASE e = << c, q >>
    <3>1. e[1] = c
      BY <2>2
    <3>2. Telling(h, t, c)'
      BY <1>2, <1>12, Zenon
    <3> QED
      BY <1>3, <3>1, <3>2, Zenon
  <2> QED
    BY <1>1, <2>1, <2>2, Zenon
<1>14. AcceptInv'
  <2> SUFFICES ASSUME NEW g \in Hosts, NEW u \in AllThreads, NEW d \in Conns
               PROVE  /\ pc'[g][u] = << "accept", d >> => To[d] = g
                      /\ Telling(g, u, d)' => To[d] = g /\ held'[g] = d /\ accepted'[d] = 0
                      /\ Telling(g, u, d)' => \A v \in AllThreads : Telling(g, v, d)' => v = u
    BY Zenon DEF AcceptInv
  <2>1. /\ pc[g][u] = << "accept", d >> => To[d] = g
        /\ Telling(g, u, d) => To[d] = g /\ held[g] = d /\ accepted[d] = 0
        /\ Telling(g, u, d) => \A v \in AllThreads : Telling(g, v, d) => v = u
    BY AcceptFacts, Zenon
  <2>2. pc'[g][u] = << "accept", d >> => pc[g][u] = << "accept", d >>
    BY <1>4
  <2>3. g = h => ~Telling(g, u, d) /\ \A v \in AllThreads : ~Telling(g, v, d)
    BY <1>6, Zenon
  <2>4. CASE g = h
    BY <1>1, <1>3, <1>5, <1>12, <2>1, <2>2, <2>3, <2>4, Zenon
  <2>5. CASE g # h
    BY <1>1, <1>5, <1>12, <2>1, <2>2, <2>5, Zenon
  <2> QED
    BY <2>4, <2>5, Zenon
<1>15. KnownInv'
  <2>1. UNCHANGED << tab, sm, accepted >> /\ made \subseteq made'
    BY <1>1
  <2>2. \A e \in made' : accepted[e[1]] # 0 => e \in made
    BY <1>1
  <2>3. (\A g \in Hosts, u \in AllThreads : Known(g, u) \subseteq made) /\ UNCHANGED accepted
    BY <2>1, Zenon DEF IInv, KnownInv
  <2>4. \A g, u : Known(g, u)' = Known(g, u)
    BY <2>1 DEF Known
  <2>5. \A g \in Hosts, u \in AllThreads : Known(g, u) \subseteq made'
    BY <2>1, <2>3
  <2> QED
    BY <2>2, <2>3, <2>4, <2>5, Zenon DEF IInv, KnownInv
<1>16. PathInv'
  BY <1>1, AckSent, Zenon
<1> QED
  BY <1>9, <1>10, <1>11, <1>13, <1>14, <1>15, <1>16 DEF IInv, HandInv

\* "Already Accepted": the answer names the port the connection has.
LEMMA AcceptedKeeps ==
  ASSUME IInv, NEW h \in Hosts, NEW t \in Threads(h), Accepted(h, t)
  PROVE  IInv'
<1>1. PICK c \in Conns :
         /\ pc[h][t] = << "accept", c >> /\ accepted[c] # 0
         /\ net' = net \cup {Pkt("CON_ACK", c, accepted[c], 0)} /\ Step(h, t, Looping)
         /\ UNCHANGED << rss, ord, hs, sm, tab, outr, inr, cl, runs, lost, losses >>
  BY Zenon DEF Accepted
<1>2. /\ t \in AllThreads /\ TypeOK /\ net \subseteq Packet /\ made \subseteq Conns \X Ports
      /\ UNCHANGED << made, acked, accepted, held, st >>
  BY <1>1, ThreadsIn, Zenon DEF IInv, TypeOK, hs
<1>3. << c, accepted[c] >> \in made /\ accepted[c] \in Ports
  <2>1. << c, accepted[c] >> \in made
    BY <1>1, Zenon DEF IInv, HandInv, MadeInv
  <2> QED
    BY <1>2, <2>1
<1>4. /\ pc' \in [Hosts -> [AllThreads -> {Looping} \cup ({"accept", "tell"} \X Conns)]]
      /\ \A g \in Hosts, u \in AllThreads : pc'[g][u] = IF g = h /\ u = t THEN Looping ELSE pc[g][u]
  <2>1. Looping \in {Looping} \cup ({"accept", "tell"} \X Conns)
    OBVIOUS
  <2> QED
    BY <1>1, <1>2, <2>1, StepIs
<1>5. /\ Pkt("CON_ACK", c, accepted[c], 0) \in Packet
      /\ Pkt("CON_ACK", c, accepted[c], 0).c = c /\ Pkt("CON_ACK", c, accepted[c], 0).p = accepted[c]
  BY <1>3 DEF Pkt, Packet, Kinds
<1>6. TypeOK'
  <2>1. net' \subseteq Packet
    BY <1>1, <1>2, <1>5, Zenon
  <2> QED
    BY <1>1, <1>4, <2>1, Zenon DEF IInv, TypeOK, hs, cl
<1>7. MadeInv' /\ ConnectInv'
  <2>1. \A p \in net : p.k # "CON" => << p.c, p.p >> \in made
    BY Zenon DEF IInv, HandInv, MadeInv
  <2>2. \A p \in net' : p.k # "CON" => << p.c, p.p >> \in made
    BY <1>1, <1>3, <1>5, <2>1, Zenon
  <2> QED
    BY <1>2, <2>2, Zenon DEF IInv, HandInv, MadeInv, ConnectInv
<1>8. \A g \in Hosts, u \in AllThreads, d \in Conns : Telling(g, u, d)' <=> Telling(g, u, d)
  BY <1>1, <1>4 DEF Telling, Looping
<1>9. NotedInv'
  <2>1. \A e \in made : e[1] \in Conns
    BY <1>2
  <2>2. \A e \in made : To[e[1]] \in Hosts /\ Threads(To[e[1]]) \subseteq AllThreads
    BY <2>1, ThreadsIn, Zenon
  <2> QED
    BY <1>2, <1>8, <2>1, <2>2, Zenon DEF IInv, HandInv, NotedInv
<1>10. AcceptInv'
  <2>1. \A g \in Hosts, u \in AllThreads, d \in Conns : pc[g][u] = << "accept", d >> => To[d] = g
    BY AcceptFacts
  <2>2. \A g \in Hosts, u \in AllThreads, d \in Conns : pc'[g][u] = << "accept", d >> => To[d] = g
    BY <1>4, <2>1 DEF Looping
  <2> QED
    BY <1>2, <1>8, <2>2 DEF IInv, HandInv, AcceptInv
<1>11. KnownInv' /\ PathInv'
  BY <1>1, <1>2, KnownKept, AckSent, Zenon DEF IInv
<1> QED
  BY <1>6, <1>7, <1>9, <1>10, <1>11 DEF IInv, HandInv

\* The connection the thread has made is the only one with its client: all threads of the
\* host are told of it and it is noted as accepted, and the lock is free again.
LEMMA TellKeeps ==
  ASSUME IInv, NEW h \in Hosts, NEW t \in Threads(h), Tell(h, t)
  PROVE  IInv'
<1>1. PICK e \in made :
         /\ pc[h][t] = << "tell", e[1] >>
         /\ sm' = Told(h, e) /\ accepted' = [accepted EXCEPT ![e[1]] = e[2]]
         /\ held' = [held EXCEPT ![h] = none] /\ Step(h, t, Looping)
         /\ UNCHANGED << rss, ord, serving, made, st, acked, job, tab, outr, inr, cl, runs, lost, losses, net >>
  BY Zenon DEF Tell
<1>2. /\ t \in AllThreads /\ TypeOK /\ made \subseteq Conns \X Ports /\ held \in [Hosts -> Conns \cup {none}]
      /\ accepted \in [Conns -> Ports \cup {0}]
  BY ThreadsIn, Zenon DEF IInv, TypeOK
<1>3. e \in Conns \X Ports /\ e[1] \in Conns /\ e[2] \in Ports /\ e[2] # 0 /\ e = << e[1], e[2] >>
  BY <1>1, <1>2, DpdkAssumption
<1>4. Telling(h, t, e[1]) /\ To[e[1]] = h /\ held[h] = e[1] /\ \A u \in AllThreads : Telling(h, u, e[1]) => u = t
  <2>1. Telling(h, t, e[1])
    BY <1>1 DEF Telling
  <2> QED
    BY <1>2, <1>3, <2>1, AcceptFacts
<1>5. /\ pc' \in [Hosts -> [AllThreads -> {Looping} \cup ({"accept", "tell"} \X Conns)]]
      /\ \A g \in Hosts, u \in AllThreads : pc'[g][u] = IF g = h /\ u = t THEN Looping ELSE pc[g][u]
  <2>1. Looping \in {Looping} \cup ({"accept", "tell"} \X Conns)
    OBVIOUS
  <2> QED
    BY <1>1, <1>2, <2>1, StepIs
<1>6. /\ sm' \in [Hosts -> [AllThreads -> SUBSET (Conns \X Ports)]]
      /\ \A g \in Hosts, u \in AllThreads : sm'[g][u] = IF g = h /\ u \in Threads(h) THEN sm[g][u] \cup {e} ELSE sm[g][u]
  BY <1>1, <1>2, <1>3, ToldIs, Zenon
<1>7. /\ accepted' \in [Conns -> Ports \cup {0}] /\ \A c \in Conns : accepted'[c] = IF c = e[1] THEN e[2] ELSE accepted[c]
      /\ held' \in [Hosts -> Conns \cup {none}] /\ \A g \in Hosts : held'[g] = IF g = h THEN none ELSE held[g]
  BY <1>1, <1>2, <1>3, Zenon
<1>8. TypeOK'
  BY <1>1, <1>5, <1>6, <1>7, Zenon DEF IInv, TypeOK, cl
<1>9. MadeInv'
  <2>1. \A c \in Conns : accepted[c] # 0 => << c, accepted[c] >> \in made
    BY Zenon DEF IInv, HandInv, MadeInv
  <2>2. \A c \in Conns : accepted'[c] # 0 => << c, accepted'[c] >> \in made
    BY <1>3, <1>7, <2>1
  <2> QED
    BY <1>1, <2>2, Zenon DEF IInv, HandInv, MadeInv
<1>10. ConnectInv'
  <2> SUFFICES ASSUME NEW d \in Conns, st[d] \in {"conn", "wait"} PROVE held'[From[d]] = d
    BY <1>1, Zenon DEF ConnectInv
  <2>1. held[From[d]] = d /\ From[d] \in Hosts /\ From[d] # To[d]
    BY ThreadsIn, DpdkAssumption, Zenon DEF IInv, HandInv, ConnectInv
  <2> QED
    BY <1>4, <1>7, <2>1
<1>11. \A g \in Hosts, u \in AllThreads, d \in Conns : Telling(g, u, d)' <=> Telling(g, u, d) /\ g # h
  <2> SUFFICES ASSUME NEW g \in Hosts, NEW u \in AllThreads, NEW d \in Conns
               PROVE  Telling(g, u, d)' <=> Telling(g, u, d) /\ g # h
    BY Zenon
  <2>1. Telling(g, u, d) /\ g = h => u = t
    <3>1. Telling(g, u, d) => held[g] = d
      BY AcceptFacts, Zenon
    <3> QED
      BY <1>4, <3>1, Zenon
  <2>2. pc'[g][u] = IF g = h /\ u = t THEN Looping ELSE pc[g][u]
    BY <1>5, Zenon
  <2> QED
    BY <2>1, <2>2 DEF Telling, Looping
<1>12. NotedInv'
  <2> SUFFICES ASSUME NEW f \in made, accepted'[f[1]] = 0
               PROVE  \E u \in Threads(To[f[1]]) : Telling(To[f[1]], u, f[1])'
    BY <1>1, Zenon DEF NotedInv
  <2>1. f[1] \in Conns /\ f[1] # e[1] /\ accepted[f[1]] = 0
    BY <1>2, <1>3, <1>7
  <2>2. PICK u \in Threads(To[f[1]]) : Telling(To[f[1]], u, f[1])
    BY <2>1, Zenon DEF IInv, HandInv, NotedInv
  <2>3. To[f[1]] \in Hosts /\ u \in AllThreads
    BY <2>1, ThreadsIn, Zenon
  <2>4. held[To[f[1]]] = f[1]
    BY <2>1, <2>2, <2>3, AcceptFacts
  <2> QED
    BY <1>4, <1>11, <2>1, <2>2, <2>3, <2>4, Zenon
<1>13. AcceptInv'
  <2> SUFFICES ASSUME NEW g \in Hosts, NEW u \in AllThreads, NEW d \in Conns
               PROVE  /\ pc'[g][u] = << "accept", d >> => To[d] = g
                      /\ Telling(g, u, d)' => To[d] = g /\ held'[g] = d /\ accepted'[d] = 0
                      /\ Telling(g, u, d)' => \A v \in AllThreads : Telling(g, v, d)' => v = u
    BY Zenon DEF AcceptInv
  <2>1. /\ pc[g][u] = << "accept", d >> => To[d] = g
        /\ Telling(g, u, d) => To[d] = g /\ held[g] = d /\ accepted[d] = 0
        /\ Telling(g, u, d) => \A v \in AllThreads : Telling(g, v, d) => v = u
    BY AcceptFacts, Zenon
  <2>2. pc'[g][u] = << "accept", d >> => pc[g][u] = << "accept", d >>
    BY <1>5 DEF Looping
  <2>3. Telling(g, u, d)' => d # e[1]
    BY <1>4, <1>11, <2>1, Zenon
  <2> QED
    BY <1>7, <1>11, <2>1, <2>2, <2>3, Zenon
<1>14. KnownInv'
  <2>1. \A g \in Hosts, u \in AllThreads : Known(g, u)' = IF g = h /\ u \in Threads(h) THEN Known(g, u) \cup {e} ELSE Known(g, u)
    BY <1>1, <1>6, Zenon DEF Known
  <2>2. \A g \in Hosts, u \in AllThreads : Known(g, u)' \subseteq made
    <3>1. \A g \in Hosts, u \in AllThreads : Known(g, u) \subseteq made
      BY DEF IInv, KnownInv
    <3> QED
      BY <1>1, <2>1, <3>1
  <2>3. ASSUME NEW f \in made, accepted'[f[1]] # 0, NEW u \in Threads(To[f[1]]) PROVE f \in Known(To[f[1]], u)'
    <3>1. f[1] \in Conns
      BY <1>2
    <3>2. To[f[1]] \in Hosts /\ u \in AllThreads
      BY <3>1, ThreadsIn, Zenon
    <3>3. CASE f[1] = e[1]
      <4>1. f = e
        BY <1>1, <1>2, <1>3, <3>3 DEF IInv, HandInv, MadeInv
      <4> QED
        BY <1>4, <2>1, <3>2, <4>1
    <3>4. CASE f[1] # e[1]
      <4>1. f \in Known(To[f[1]], u)
        BY <1>7, <2>3, <3>1, <3>4, Zenon DEF IInv, KnownInv
      <4> QED
        BY <2>1, <3>2, <4>1
    <3> QED
      BY <3>3, <3>4
  <2> QED
    BY <1>1, <2>2, <2>3, Zenon DEF KnownInv
<1>15. PathInv'
  BY <1>1, QuietPath, Zenon DEF IInv
<1> QED
  BY <1>8, <1>9, <1>10, <1>12, <1>13, <1>14, <1>15 DEF IInv, HandInv

-----------------------------------------------------------------------------
(* A turn of the loop *)

\* What a turn does, connection by connection: sends says that the rings of c are reached.
TurnIs(h, t, sends) ==
    /\ \A c \in Conns : sends[c] => \E q \in Ports : << c, q >> \in made
    /\ \A p \in net' : p \in net \/ \E c \in Conns : \E q \in Ports : \E x \in Range(outr[c][t]) :
                                       sends[c] /\ << c, q >> \in made /\ p = Pkt("RR", c, q, x)
    /\ \A c \in Conns, x \in Xids : sends[c] /\ x \in Range(outr[c][t]) =>
          \E q \in Ports : Pkt("RR", c, q, x) \in net'
    /\ net \subseteq net'
    /\ \A c \in Conns, u \in AllThreads : outr'[c][u] = IF sends[c] /\ u = t THEN << >> ELSE outr[c][u]
    /\ \A c \in Conns, u \in AllThreads : inr'[c][u] = IF c \in Polled(h, t) THEN << >> ELSE inr[c][u]
    /\ \A c \in Conns, x \in Xids :
          /\ got'[c][x] = IF c \in Polled(h, t) /\ x \in Replies(c) THEN "ok" ELSE got[c][x]
          /\ x \in pend'[c] <=> x \in pend[c] /\ ~(c \in Polled(h, t) /\ x \in Replies(c))

LEMMA TurnDoes ==
  ASSUME IInv, NEW h \in Hosts, NEW t \in Threads(h), Turn(h, t)
  PROVE  /\ TypeOK' /\ \E sends \in [Conns -> BOOLEAN] : TurnIs(h, t, sends)
         /\ \A g \in Hosts, u \in AllThreads : Known(g, u)' = Known(g, u)
         /\ UNCHANGED << rss, ord, hs, pc, sent, runs, lost, losses >>
<1> DEFINE T == tab[h][t] \cup sm[h][t]
           R == Reached(h, t, T)
           polled == Polled(h, t)
           sends == [c \in Conns |-> \E e \in R : e[1] = c]
           N == UNION {{Pkt("RR", e[1], e[2], x) : x \in Range(outr[e[1]][t])} : e \in R}
<1>1. /\ tab' = [tab EXCEPT ![h][t] = T] /\ sm' = [sm EXCEPT ![h][t] = {}]
      /\ net' = net \cup N
      /\ outr' = [c \in Conns |-> IF \E e \in R : e[1] = c THEN [outr[c] EXCEPT ![t] = << >>] ELSE outr[c]]
      /\ got' = [c \in Conns |-> [x \in Xids |-> IF c \in polled /\ x \in Replies(c) THEN "ok" ELSE got[c][x]]]
      /\ pend' = [c \in Conns |-> IF c \in polled THEN pend[c] \ Replies(c) ELSE pend[c]]
      /\ inr' = [c \in Conns |-> IF c \in polled THEN [u \in AllThreads |-> << >>] ELSE inr[c]]
      /\ UNCHANGED << rss, ord, hs, pc, sent, runs, lost, losses >>
  BY Zenon DEF Turn
<1>2. /\ tab \in [Hosts -> [AllThreads -> SUBSET (Conns \X Ports)]] /\ sm \in [Hosts -> [AllThreads -> SUBSET (Conns \X Ports)]]
      /\ outr \in [Conns -> [AllThreads -> Seq(Xids)]] /\ inr \in [Conns -> [AllThreads -> Seq(Xids)]]
      /\ \A c \in Conns, u \in AllThreads : Len(outr[c][u]) <= RingSize /\ Len(inr[c][u]) <= RingSize
      /\ got \in [Conns -> [Xids -> {"-", "ok", "ENOTCONN"}]] /\ pend \in [Conns -> SUBSET Xids] /\ net \subseteq Packet
      /\ t \in AllThreads
  BY ThreadsIn, Zenon DEF IInv, TypeOK
<1>3. /\ tab' \in [Hosts -> [AllThreads -> SUBSET (Conns \X Ports)]] /\ sm' \in [Hosts -> [AllThreads -> SUBSET (Conns \X Ports)]]
      /\ \A g \in Hosts, u \in AllThreads : Known(g, u)' = Known(g, u)
  <2>1. T \subseteq Conns \X Ports
    BY <1>2
  <2>2. tab' \in [Hosts -> [AllThreads -> SUBSET (Conns \X Ports)]] /\ sm' \in [Hosts -> [AllThreads -> SUBSET (Conns \X Ports)]]
    <3> HIDE DEF T
    <3> QED
      BY <1>1, <1>2, <2>1, Zenon
  <2>3. \A g \in Hosts, u \in AllThreads : /\ tab'[g][u] = IF g = h /\ u = t THEN tab[h][t] \cup sm[h][t] ELSE tab[g][u]
                                           /\ sm'[g][u] = IF g = h /\ u = t THEN {} ELSE sm[g][u]
    BY <1>1, <1>2, Zenon
  <2> QED
    BY <2>2, <2>3 DEF Known
<1>4. \A e \in R : e \in Conns \X Ports /\ e \in made /\ e[1] \in Conns /\ e[2] \in Ports /\ e = << e[1], e[2] >>
  <2>1. R \subseteq Known(h, t) /\ Known(h, t) \subseteq made /\ Known(h, t) \subseteq Conns \X Ports
    <3>1. Known(h, t) \subseteq made /\ made \subseteq Conns \X Ports
      BY <1>2, Zenon DEF IInv, KnownInv, TypeOK
    <3>2. R \subseteq T
      BY Zenon DEF Reached
    <3>3. T = Known(h, t)
      BY DEF Known
    <3> HIDE DEF R, T
    <3> QED
      BY <3>1, <3>2, <3>3
  <2> HIDE DEF R
  <2> QED
    BY <2>1
<1> HIDE DEF R, T, polled
<1>5. \A p \in N : \E e \in R : \E x \in Range(outr[e[1]][t]) : p = Pkt("RR", e[1], e[2], x)
  BY Zenon
<1>6. \A e \in R : \A x \in Range(outr[e[1]][t]) : Pkt("RR", e[1], e[2], x) \in N
  <2> SUFFICES ASSUME NEW e \in R, NEW x \in Range(outr[e[1]][t]) PROVE Pkt("RR", e[1], e[2], x) \in N
    BY Zenon
  <2>1. Pkt("RR", e[1], e[2], x) \in {Pkt("RR", e[1], e[2], y) : y \in Range(outr[e[1]][t])}
    BY Zenon
  <2> QED
    BY <2>1
<1> HIDE DEF N
<1>7. \A c \in Conns : \A u \in AllThreads : Range(outr[c][u]) \subseteq Xids
  BY <1>2 DEF Range
<1>8. sends \in [Conns -> BOOLEAN] /\ \A c \in Conns : sends[c] <=> \E e \in R : e[1] = c
  OBVIOUS
<1>9. \A c \in Conns, u \in AllThreads : outr'[c][u] = IF sends[c] /\ u = t THEN << >> ELSE outr[c][u]
  BY <1>1, <1>2, Zenon
<1>10. \A c \in Conns, u \in AllThreads : inr'[c][u] = IF c \in polled THEN << >> ELSE inr[c][u]
  BY <1>1, Zenon
<1>11. TypeOK'
  <2>0. << >> \in Seq(Xids) /\ Len(<< >>) <= RingSize
    BY DpdkAssumption
  <2>1. outr' \in [Conns -> [AllThreads -> Seq(Xids)]]
    BY <1>1, <1>2, <2>0, Zenon
  <2>2. inr' \in [Conns -> [AllThreads -> Seq(Xids)]]
    BY <1>1, <1>2, <2>0, Zenon
  <2>3. \A c \in Conns, u \in AllThreads : Len(outr'[c][u]) <= RingSize /\ Len(inr'[c][u]) <= RingSize
    <3> SUFFICES ASSUME NEW c \in Conns, NEW u \in AllThreads PROVE Len(outr'[c][u]) <= RingSize /\ Len(inr'[c][u]) <= RingSize
      BY Zenon
    <3>1. outr'[c][u] \in {<< >>, outr[c][u]} /\ inr'[c][u] \in {<< >>, inr[c][u]}
      BY <1>9, <1>10, Zenon
    <3> QED
      BY <1>2, <2>0, <3>1, Zenon
  <2>4. got' \in [Conns -> [Xids -> {"-", "ok", "ENOTCONN"}]]
    BY <1>1, <1>2, Zenon
  <2>5. pend' \in [Conns -> SUBSET Xids]
    BY <1>1, <1>2, Zenon
  <2>6. net' \subseteq Packet
    <3> SUFFICES ASSUME NEW p \in N PROVE p \in Packet
      BY <1>1, <1>2, Zenon
    <3>1. PICK e \in R : \E x \in Range(outr[e[1]][t]) : p = Pkt("RR", e[1], e[2], x)
      BY <1>5
    <3>2. PICK x \in Range(outr[e[1]][t]) : p = Pkt("RR", e[1], e[2], x)
      BY <3>1
    <3>3. x \in Xids /\ e[1] \in Conns /\ e[2] \in Ports
      BY <1>2, <1>4, <1>7, Zenon
    <3> QED
      BY <3>2, <3>3 DEF Pkt, Packet, Kinds
  <2> QED
    BY <1>1, <1>3, <2>1, <2>2, <2>3, <2>4, <2>5, <2>6, Zenon DEF IInv, TypeOK, hs
<1>12. TurnIs(h, t, sends)
  <2>1. \A c \in Conns : sends[c] => \E q \in Ports : << c, q >> \in made
    BY <1>4, <1>8
  <2>2. ASSUME NEW p \in net' PROVE p \in net \/ \E c \in Conns : \E q \in Ports : \E x \in Range(outr[c][t]) :
                                       sends[c] /\ << c, q >> \in made /\ p = Pkt("RR", c, q, x)
    <3> SUFFICES ASSUME p \in N PROVE \E c \in Conns : \E q \in Ports : \E x \in Range(outr[c][t]) :
                                         sends[c] /\ << c, q >> \in made /\ p = Pkt("RR", c, q, x)
      BY <1>1, Zenon
    <3>1. PICK e \in R : \E x \in Range(outr[e[1]][t]) : p = Pkt("RR", e[1], e[2], x)
      BY <1>5
    <3>2. e[1] \in Conns /\ e[2] \in Ports /\ << e[1], e[2] >> \in made
      BY <1>4
    <3>3. sends[e[1]]
      BY <1>8, <3>2
    <3> QED
      BY <3>1, <3>2, <3>3, Zenon
  <2>3. ASSUME NEW c \in Conns, NEW x \in Xids, sends[c], x \in Range(outr[c][t])
        PROVE  \E q \in Ports : Pkt("RR", c, q, x) \in net'
    <3>1. PICK e \in R : e[1] = c
      BY <1>8, <2>3
    <3>2. Pkt("RR", e[1], e[2], x) \in net'
      BY <1>1, <1>6, <2>3, <3>1, Zenon
    <3> QED
      BY <1>4, <3>1, <3>2, Zenon
  <2>4. net \subseteq net'
    BY <1>1, Zenon
  <2>5. \A c \in Conns, x \in Xids :
          /\ got'[c][x] = IF c \in polled /\ x \in Replies(c) THEN "ok" ELSE got[c][x]
          /\ x \in pend'[c] <=> x \in pend[c] /\ ~(c \in polled /\ x \in Replies(c))
    BY <1>1, Zenon
  <2> HIDE DEF sends
  <2> QED
    BY <1>9, <1>10, <2>1, <2>2, <2>3, <2>4, <2>5, Zenon DEF TurnIs, polled
<1> QED
  BY <1>1, <1>3, <1>8, <1>11, <1>12, Zenon

\* A place is the only one.
LEMMA OnePlace ==
  ASSUME NEW c, NEW x, Path(c, x), NEW l \in Places(c, x)
  PROVE  Places(c, x) = {l}
<1>1. \A a \in Places(c, x) : a = l
  BY Zenon DEF Path
<1> QED
  BY <1>1, Zenon

\* What was in a ring that is reached is on the wire; the replies that are polled are
\* gone, and the futures they were for are ready.
LEMMA TurnKeeps ==
  ASSUME IInv, NEW h \in Hosts, NEW t \in Threads(h), Turn(h, t)
  PROVE  IInv'
<1>1. /\ TypeOK' /\ (\A g \in Hosts, u \in AllThreads : Known(g, u)' = Known(g, u))
      /\ UNCHANGED << rss, ord, hs, pc, sent, runs, lost, losses >> /\ t \in AllThreads
  BY TurnDoes, ThreadsIn, Zenon
<1>2. PICK sends \in [Conns -> BOOLEAN] : TurnIs(h, t, sends)
  BY TurnDoes, Zenon
<1>3. /\ net \subseteq net'
      /\ \A p \in net' : p \in net \/ \E c \in Conns : \E q \in Ports : \E x \in Range(outr[c][t]) :
                                       sends[c] /\ << c, q >> \in made /\ p = Pkt("RR", c, q, x)
  BY <1>2, Zenon DEF TurnIs
<1>4. \A c \in Conns : \A u \in AllThreads : Range(outr[c][u]) \subseteq Xids
  <2>1. outr \in [Conns -> [AllThreads -> Seq(Xids)]]
    BY Zenon DEF IInv, TypeOK
  <2> QED
    BY <2>1 DEF Range
<1>5. ASSUME NEW p \in net', p \notin net
      PROVE  p.k = "RR" /\ << p.c, p.p >> \in made /\ sends[p.c] /\ p.x \in Range(outr[p.c][t]) /\ p.x \in Xids
  <2>0. PICK c \in Conns : \E q \in Ports : \E x \in Range(outr[c][t]) :
           sends[c] /\ << c, q >> \in made /\ p = Pkt("RR", c, q, x)
    BY <1>3, <1>5, Zenon
  <2>1. PICK q \in Ports, x \in Range(outr[c][t]) : sends[c] /\ << c, q >> \in made /\ p = Pkt("RR", c, q, x)
    BY <2>0, Zenon
  <2>2. p.k = "RR" /\ p.c = c /\ p.p = q /\ p.x = x
    BY <2>1 DEF Pkt
  <2>3. x \in Xids
    BY <1>1, <1>4, <2>1
  <2> QED
    BY <2>1, <2>2, <2>3, Zenon
<1>6. UNCHANGED << made, acked, accepted, st, held, pc >>
  BY <1>1 DEF hs
<1>7. HandInv'
  <2>1. \A p \in net : p.k # "CON" => << p.c, p.p >> \in made
    BY Zenon DEF IInv, HandInv, MadeInv
  <2>2. \A p \in net' : p.k # "CON" => << p.c, p.p >> \in made
    BY <1>5, <2>1, Zenon
  <2> QED
    BY <1>6, <2>2, HandKept, Zenon DEF IInv
<1>8. KnownInv'
  <2>1. \A e \in made : e[1] \in Conns
    BY Zenon DEF IInv, TypeOK
  <2>2. \A e \in made : To[e[1]] \in Hosts /\ Threads(To[e[1]]) \subseteq AllThreads
    BY <2>1, ThreadsIn, Zenon
  <2> QED
    BY <1>1, <1>6, <2>2 DEF IInv, KnownInv
<1>9. \A p \in net' : p.k \in {"CON", "CON_ACK"} <=> p.x = 0
  <2>1. \A p \in net : p.k \in {"CON", "CON_ACK"} <=> p.x = 0
    BY Zenon DEF IInv, PathInv
  <2>2. \A x \in Xids : x # 0
    BY DpdkAssumption DEF Xids
  <2> SUFFICES ASSUME NEW p \in net', p \notin net PROVE p.k \notin {"CON", "CON_ACK"} /\ p.x # 0
    BY <2>1, Zenon
  <2>3. p.k = "RR" /\ p.x \in Xids
    BY <1>5, Zenon
  <2> QED
    BY <2>2, <2>3
<1>10. ASSUME NEW c \in Conns, NEW x \in Xids PROVE Path(c, x)'
  <2> DEFINE polled == c \in Polled(h, t)
             sent_now == sends[c] /\ x \in Range(outr[c][t])
             answered == polled /\ \E u \in AllThreads : x \in Range(inr[c][u])
  <2>1. Path(c, x)
    BY Zenon DEF IInv, PathInv
  <2>2. /\ got'[c][x] = IF polled /\ x \in Replies(c) THEN "ok" ELSE got[c][x]
        /\ x \in pend'[c] <=> x \in pend[c] /\ ~(polled /\ x \in Replies(c))
        /\ runs'[c][x] = runs[c][x] /\ sent'[c] = sent[c] /\ (<< c, x >> \in lost' <=> << c, x >> \in lost)
    BY <1>1, <1>2, Zenon DEF TurnIs
  <2>3. x \in Replies(c) <=> x \in pend[c] /\ \E u \in AllThreads : x \in Range(inr[c][u])
    <3> DEFINE rings == {Range(inr[c][u]) : u \in AllThreads}
    <3>1. x \in UNION rings <=> \E u \in AllThreads : x \in Range(inr[c][u])
      BY Zenon
    <3>2. Replies(c) = (UNION rings) \cap pend[c]
      BY Zenon DEF Replies
    <3> HIDE DEF rings
    <3> QED
      BY <3>1, <3>2
  <2>4. \A u \in AllThreads : /\ x \in Range(outr'[c][u]) <=> x \in Range(outr[c][u]) /\ ~(sends[c] /\ u = t)
                              /\ x \in Range(inr'[c][u]) <=> x \in Range(inr[c][u]) /\ ~polled
    <3> SUFFICES ASSUME NEW u \in AllThreads
                 PROVE  /\ x \in Range(outr'[c][u]) <=> x \in Range(outr[c][u]) /\ ~(sends[c] /\ u = t)
                        /\ x \in Range(inr'[c][u]) <=> x \in Range(inr[c][u]) /\ ~polled
      BY Zenon
    <3>1. /\ outr'[c][u] = IF sends[c] /\ u = t THEN << >> ELSE outr[c][u]
          /\ inr'[c][u] = IF polled THEN << >> ELSE inr[c][u]
      BY <1>2, Zenon DEF TurnIs
    <3> QED
      BY <3>1, RangeEmpty, Zenon
  <2>5. ~sent_now => On(c, x)' = On(c, x)
    <3>1. \A p \in net' : p.c = c /\ p.x = x /\ ~sent_now => p \in net
      BY <1>5, Zenon
    <3>2. \A p \in net : p \in net'
      BY <1>3, Zenon
    <3> QED
      BY <3>1, <3>2 DEF On
  <2>6. CASE sent_now
    <3>1. << "out", t >> \in Places(c, x)
      BY <1>1, <2>6, InPlaces, Zenon
    <3>2. Places(c, x) = {<< "out", t >>}
      BY <2>1, <3>1, OnePlace, Zenon
    <3>3. \A u \in AllThreads : (x \in Range(outr[c][u]) => u = t) /\ x \notin Range(inr[c][u])
      <4>1. \A u \in AllThreads : (x \in Range(outr[c][u]) => << "out", u >> \in Places(c, x))
                               /\ (x \in Range(inr[c][u]) => << "in", u >> \in Places(c, x))
        BY InPlaces, Zenon
      <4> QED
        BY <3>2, <4>1
    <3>4. On(c, x) = {} /\ << c, x >> \notin lost
      <4>1. /\ \A p \in On(c, x) : << p.k, 0 >> \in Places(c, x)
            /\ << c, x >> \in lost => << "lost", 0 >> \in Places(c, x)
        BY InPlaces, Zenon
      <4>2. \A p \in On(c, x) : p.k \in Kinds
        BY Zenon DEF On, IInv, TypeOK, Packet
      <4> QED
        BY <3>2, <4>1, <4>2 DEF Kinds
    <3>5. On(c, x)' # {} /\ \A p \in On(c, x)' : p.k = "RR"
      <4>1. \E p \in net' : p.c = c /\ p.x = x
        <5>1. PICK q \in Ports : Pkt("RR", c, q, x) \in net'
          BY <1>2, <2>6, Zenon DEF TurnIs
        <5> QED
          <6>1. Pkt("RR", c, q, x).c = c /\ Pkt("RR", c, q, x).x = x
            BY DEF Pkt
          <6> QED
            BY <5>1, <6>1, Zenon
      <4>2. \A p \in net' : p.c = c /\ p.x = x => p.k = "RR"
        BY <1>5, <3>4, Zenon DEF On
      <4> QED
        BY <4>1, <4>2, Zenon DEF On
    <3>6. \A u \in AllThreads : x \notin Range(outr'[c][u]) /\ x \notin Range(inr'[c][u])
      BY <2>4, <2>6, <3>3, Zenon
    <3>7. Places(c, x)' = {<< "RR", 0 >>}
      <4>1. ASSUME NEW l PROVE l \in Places(c, x)' <=> \E p \in On(c, x)' : l = << p.k, 0 >>
        <5>1. << c, x >> \notin lost'
          BY <2>2, <3>4
        <5> QED
          BY <3>6, <5>1, InPlaces
      <4> QED
        BY <3>5, <4>1, Zenon
    <3>8. /\ << "RR", 0 >>[1] = "RR" /\ << "out", t >>[1] = "out" /\ {<< "out", t >>} # {}
          /\ runs[c][x] = 0
      <4>1. << "RR", 0 >>[1] = "RR" /\ << "out", t >>[1] = "out" /\ {<< "out", t >>} # {}
        OBVIOUS
      <4> QED
        BY <2>1, <3>1, <4>1, Zenon DEF Path
    <3>9. (x \in pend'[c] <=> x \in pend[c]) /\ got'[c][x] = got[c][x] /\ runs'[c][x] = 0
      BY <2>2, <2>3, <3>3, <3>8, Zenon
    <3> QED
      <4>1. runs'[c][x] \in {0, 1} /\ (runs[c][x] = 1 => runs'[c][x] = 1)
            /\ << "RR", 0 >>[1] \notin {"in", "RR_BG"}
        BY <3>8, <3>9
      <4> QED
        BY <2>1, <2>2, <3>2, <3>7, <3>8, <3>9, <4>1, PathMoved, Zenon
  <2>7. CASE answered
    <3>1. PICK u \in AllThreads : x \in Range(inr[c][u])
      BY <2>7
    <3>2. Places(c, x) = {<< "in", u >>}
      <4>1. << "in", u >> \in Places(c, x)
        BY <3>1, InPlaces, Zenon
      <4> QED
        BY <2>1, <4>1, OnePlace, Zenon
    <3>3. \A v \in AllThreads : x \notin Range(outr[c][v])
      <4>1. \A v \in AllThreads : (x \in Range(outr[c][v]) => << "out", v >> \in Places(c, x))
        BY InPlaces, Zenon
      <4> QED
        BY <3>2, <4>1
    <3>4. On(c, x) = {} /\ << c, x >> \notin lost
      <4>1. /\ \A p \in On(c, x) : << p.k, 0 >> \in Places(c, x)
            /\ << c, x >> \in lost => << "lost", 0 >> \in Places(c, x)
        BY InPlaces, Zenon
      <4>2. \A p \in On(c, x) : p.k \in Kinds
        BY Zenon DEF On, IInv, TypeOK, Packet
      <4> QED
        BY <3>2, <4>1, <4>2 DEF Kinds
    <3>5. Places(c, x)' = {}
      <4>1. \A v \in AllThreads : x \notin Range(outr'[c][v]) /\ x \notin Range(inr'[c][v])
        BY <2>4, <2>7, <3>3, Zenon
      <4>2. On(c, x)' = {}
        BY <1>1, <2>5, <3>3, <3>4
      <4>3. \A l : l \notin Places(c, x)'
        BY <2>2, <3>4, <4>1, <4>2, InPlaces, Zenon
      <4> QED
        BY <4>3, Zenon
    <3>6. /\ runs[c][x] = 1 /\ ~(x > sent[c]) /\ (x <= sent[c] => (x \in pend[c] <=> got[c][x] = "-"))
      BY <2>1, <3>2 DEF Path
    <3>7. x \notin pend'[c] /\ got'[c][x] = IF x \in pend[c] THEN "ok" ELSE got[c][x]
      BY <2>2, <2>3, <2>7, Zenon
    <3> QED
      BY <2>2, <3>5, <3>6, <3>7, Zenon DEF Path
  <2>8. CASE ~sent_now /\ ~answered
    <3>1. \A u \in AllThreads : /\ x \in Range(outr'[c][u]) <=> x \in Range(outr[c][u])
                                /\ x \in Range(inr'[c][u]) <=> x \in Range(inr[c][u])
      BY <2>4, <2>8, Zenon
    <3>2. Places(c, x)' = Places(c, x)
      BY <2>2, <2>5, <2>8, <3>1, PlacesKept, Zenon
    <3>3. (x \in pend'[c] <=> x \in pend[c]) /\ got'[c][x] = got[c][x]
      BY <2>2, <2>3, <2>8, Zenon
    <3> QED
      BY <2>1, <2>2, <3>2, <3>3, PathKept, Zenon
  <2> QED
    BY <2>6, <2>7, <2>8
<1> QED
  BY <1>1, <1>7, <1>8, <1>9, <1>10, Zenon DEF IInv, PathInv

-----------------------------------------------------------------------------
(* The theorems *)

LEMMA NextIInv == IInv /\ [Next]_vars => IInv'
<1> SUFFICES ASSUME IInv, [Next]_vars PROVE IInv'
  BY Zenon
<1>1. CASE UNCHANGED vars
  <2>1. /\ UNCHANGED << rss, ord, pc, sm, tab, outr, inr, runs, lost, losses, net >>
        /\ UNCHANGED << serving, held, accepted, made, st, acked, job >> /\ UNCHANGED << sent, pend, got >>
    BY <1>1 DEF vars, hs, cl
  <2>2. TypeOK' /\ KnownInv'
    BY <2>1, KnownKept, Zenon DEF IInv, TypeOK
  <2>3. HandInv'
    BY <2>1, HandKept, Zenon DEF IInv, HandInv, MadeInv
  <2>4. PathInv'
    BY <2>1, PathInvKept, Zenon DEF IInv, PathInv
  <2> QED
    BY <2>2, <2>3, <2>4 DEF IInv
<1>2. CASE \E h \in Hosts : RegServer(h)
  BY <1>2, RegServerKeeps, Zenon
<1>3. CASE \E c \in Conns : ConnectBegin(c) \/ SendCon(c) \/ ConnectEnd(c) \/ Request(c) \/ Close(c)
  BY <1>3, ConnectBeginKeeps, SendConKeeps, ConnectEndKeeps, RequestKeeps, CloseKeeps, Zenon
<1>4. ASSUME NEW h \in Hosts, NEW t \in Threads(h), Rx(h, t) PROVE IInv'
  BY <1>4, RxConKeeps, RxAckKeeps, RxRequestKeeps, RxReplyKeeps, Zenon DEF Rx
<1>5. ASSUME NEW h \in Hosts, NEW t \in Threads(h), Accept(h, t) \/ Accepted(h, t) \/ Tell(h, t) \/ Turn(h, t) PROVE IInv'
  BY <1>5, AcceptKeeps, AcceptedKeeps, TellKeeps, TurnKeeps, Zenon
<1>6. CASE \E p \in net : Lose(p)
  BY <1>6, LoseKeeps, Zenon
<1> QED
  BY <1>1, <1>2, <1>3, <1>4, <1>5, <1>6, Zenon DEF Next

LEMMA SpecIInv == Spec => []IInv
  BY InitIInv, NextIInv, PTL DEF Spec

\* However often connection requests are repeated or lost, a client gets one connection,
\* no two share a port, and the client uses the port that accept() made for it.
THEOREM AlwaysOneConnection == Spec => []OneConnection
<1>1. IInv => OneConnection
  BY DEF IInv, HandInv, MadeInv, OneConnection
<1> QED
  BY SpecIInv, <1>1, PTL

\* do_transmit puts a request on the wire only for a connection that all threads of the
\* server know, or are about to be told of by the thread that is in accept().
THEOREM AlwaysKnown == Spec => []KnownWhereItGoes
<1>1. IInv => KnownWhereItGoes
  <2> SUFFICES ASSUME IInv, NEW p \in net, p.k = "RR"
               PROVE  \/ \A t \in Threads(To[p.c]) : << p.c, p.p >> \in tab[To[p.c]][t] \cup sm[To[p.c]][t]
                      \/ \E t \in Threads(To[p.c]) : pc[To[p.c]][t] = << "tell", p.c >>
    BY Zenon DEF KnownWhereItGoes
  <2> DEFINE e == << p.c, p.p >>
  <2>1. e \in made /\ e[1] = p.c
    BY DEF IInv, HandInv, MadeInv
  <2>2. CASE accepted[p.c] = 0
    BY <2>1, <2>2, Zenon DEF IInv, HandInv, NotedInv, Telling
  <2>3. CASE accepted[p.c] # 0
    BY <2>1, <2>3, Zenon DEF IInv, KnownInv, Known
  <2> QED
    BY <2>2, <2>3, Zenon
<1> QED
  BY SpecIInv, <1>1, PTL

\* A request, or its reply, is in one place until its future is ready, whatever is lost and
\* however the threads of both hosts interleave; it is executed at most once, and a future
\* is successful only when it was.
THEOREM AlwaysConserved == Spec => []Conservation
<1>1. IInv => Conservation
  <2> SUFFICES ASSUME IInv PROVE Conservation
    OBVIOUS
  <2>1. ASSUME NEW c \in Conns, NEW x \in Xids PROVE runs[c][x] <= 1 /\ (got[c][x] = "ok" => runs[c][x] = 1)
    BY DEF IInv, PathInv, Path
  <2>2. ASSUME NEW c \in Conns, NEW x \in 1 .. sent[c]
        PROVE  /\ x \in pend[c] <=> got[c][x] = "-"
               /\ x \in pend[c] => Places(c, x) # {}
               /\ \A a, b \in Places(c, x) : a = b
    <3>1. sent[c] \in 0 .. MaxReq
      BY Zenon DEF IInv, TypeOK
    <3>2. x \in Xids /\ x <= sent[c]
      BY <3>1, DpdkAssumption DEF Xids
    <3> QED
      BY <3>2, Zenon DEF IInv, PathInv, Path
  <2> QED
    BY <2>1, <2>2, Zenon DEF Conservation, IInv
<1> QED
  BY SpecIInv, <1>1, PTL
==============================================================================
