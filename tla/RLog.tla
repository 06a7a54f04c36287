-------------------------------- MODULE RLog ---------------------------------
(***************************************************************************)
(* The remote log of apps/rlog: RLog, the class a process logs with, and    *)
(* RLogServiceImpl, which puts the messages of a process back in order,     *)
(* since their handlers run on a thread pool.                              *)
(*                                                                         *)
(* A process may call init() again after finalize(); it then has a new      *)
(* connection, session s, and the same name.  Everything RLog does is done  *)
(* with mutex_s, so each call is one action; log() of the service has its    *)
(* loop in steps of their own, in which nobody else has l_.                 *)
(* A connection brings what was sent, in order, until it is gone (TcpClient *)
(* and TcpServer).  A message is its session and msg_id.                   *)
(***************************************************************************)
EXTENDS Integers, Sequences, Functions

CONSTANTS
    MaxInit, \* bound: sessions
    MaxMsg   \* bound: messages of a session

ASSUME RLogAssumption == MaxInit \in Nat /\ MaxMsg \in Nat \ {0}

Sessions == 1 .. MaxInit
Messages == [s : Sessions, id : 0 .. MaxMsg - 1]

VARIABLES
    cl_s,          \* "null", or "up", or "down" when the connection is gone
    inits,         \* how many sessions were begun
    msg_counter_s,
    wire,          \* of each session: the requests the server has not read
    pool,          \* requests whose handlers have not run
    done_, buffer_,
    logged,        \* what the service wrote, in this order
    refused,       \* messages that buffer_ did not take
    l_             \* held by log()

serviceVars == << pool, done_, buffer_, logged, refused, l_ >>
rlogVars == << cl_s, inits, msg_counter_s, wire, serviceVars >>

RLogTypeOK ==
    /\ cl_s \in {"null", "up", "down"} /\ inits \in 0 .. MaxInit /\ msg_counter_s \in Nat
    /\ wire \in [Sessions -> Seq(Messages)] /\ pool \subseteq Messages
    /\ done_ \in Nat /\ buffer_ \subseteq Messages
    /\ logged \in Seq(Messages) /\ refused \subseteq Messages /\ l_ \in BOOLEAN

RLogInit ==
    /\ cl_s = "null" /\ inits = 0 /\ msg_counter_s = 0 /\ wire = [s \in Sessions |-> << >>]
    /\ pool = {} /\ done_ = 0 /\ buffer_ = {} /\ logged = << >> /\ refused = {} /\ l_ = FALSE

-----------------------------------------------------------------------------
(* RLog *)

\* Fault: messages are counted on from the last session.
InitKeeps ==
    /\ cl_s = "null" /\ inits < MaxInit
    /\ cl_s' = "up" /\ inits' = inits + 1
    /\ UNCHANGED << msg_counter_s, wire, serviceVars >>

\* init() without a client, when it can connect; otherwise all stays as it was.
InitConnects ==
    /\ cl_s = "null" /\ inits < MaxInit
    /\ cl_s' = "up" /\ inits' = inits + 1 /\ msg_counter_s' = 0
    /\ UNCHANGED << wire, serviceVars >>

\* The connection fails; the client learns of it when it begins a request.
Disconnect ==
    /\ cl_s = "up" /\ cl_s' = "down"
    /\ UNCHANGED << inits, msg_counter_s, wire, serviceVars >>

do_finalize == cl_s' = "null"

Finalize ==
    /\ cl_s # "null" /\ do_finalize
    /\ UNCHANGED << inits, msg_counter_s, wire, serviceVars >>

\* log_v: a message counts even if it cannot be sent, which ends the session.
LogV ==
    /\ cl_s # "null" /\ msg_counter_s < MaxMsg
    /\ msg_counter_s' = msg_counter_s + 1
    /\ IF cl_s = "down" THEN do_finalize /\ UNCHANGED wire
       ELSE /\ wire' = [wire EXCEPT ![inits] = Append(@, [s |-> inits, id |-> msg_counter_s])]
            /\ UNCHANGED cl_s
    /\ UNCHANGED << inits, serviceVars >>

\* aggregate_qps, which ends the session too if it cannot be sent.
AggregateQps ==
    /\ cl_s = "down" /\ do_finalize
    /\ UNCHANGED << inits, msg_counter_s, wire, serviceVars >>

-----------------------------------------------------------------------------
(* The connection and the service *)

\* A request is read and given to the pool.
Arrive(s) ==
    /\ wire[s] # << >>
    /\ wire' = [wire EXCEPT ![s] = Tail(@)] /\ pool' = pool \cup {Head(wire[s])}
    /\ UNCHANGED << cl_s, inits, msg_counter_s, done_, buffer_, logged, refused, l_ >>

\* What a connection that is gone has not brought is lost.
Vanish(s) ==
    /\ wire[s] # << >> /\ (s < inits \/ cl_s # "up")
    /\ wire' = [wire EXCEPT ![s] = << >>]
    /\ UNCHANGED << cl_s, inits, msg_counter_s, serviceVars >>

\* log() of the service, with l_: buffer_ has one message of each number.
Insert(m) ==
    /\ ~l_ /\ l_' = TRUE
    /\ m \in pool /\ pool' = pool \ {m}
    /\ IF \A b \in buffer_ : b.id # m.id
       THEN buffer_' = buffer_ \cup {m} /\ UNCHANGED refused
       ELSE refused' = refused \cup {m} /\ UNCHANGED buffer_
    /\ UNCHANGED << cl_s, inits, msg_counter_s, wire, done_, logged >>

\* Fault: the next message but one is not held back.
DueEarly(b) == b.id <= done_ + 2

\* The condition of the loop, of the first message.
Due(b) == b.id <= done_ + 1

\* The loop: the message is logged and erased.
LogFirst ==
    /\ l_
    /\ \E b \in buffer_ :
          /\ \A c \in buffer_ : b.id <= c.id
          /\ Due(b)
          /\ logged' = Append(logged, b)
          /\ done_' = IF done_ < b.id THEN b.id ELSE done_
          /\ buffer_' = buffer_ \ {b}
    /\ UNCHANGED << cl_s, inits, msg_counter_s, wire, pool, refused, l_ >>

Unlock ==
    /\ l_ /\ l_' = FALSE
    /\ \A b \in buffer_ : (\A c \in buffer_ : b.id <= c.id) => ~Due(b)
    /\ UNCHANGED << cl_s, inits, msg_counter_s, wire, pool, done_, buffer_, logged, refused >>

RLogNext ==
    \/ InitConnects \/ Disconnect \/ Finalize \/ LogV \/ AggregateQps
    \/ \E s \in Sessions : Arrive(s) \/ Vanish(s)
    \/ (\E m \in pool : Insert(m)) \/ LogFirst \/ Unlock

RLogSpec == RLogInit /\ [][RLogNext]_rlogVars

-----------------------------------------------------------------------------
\* A message is logged once, and not before those with smaller numbers, message 0
\* excepted, which comes when it comes.  Whatever is lost with a connection, nothing is
\* held back when every handler has run: a lost message is never waited for.  A message
\* is refused only if another session's has its number.
LoggedInOrder ==
    /\ RLogTypeOK
    /\ \A i, j \in DOMAIN logged : i # j => logged[i] # logged[j]
    /\ \A k \in DOMAIN logged : \A n \in 1 .. logged[k].id - 1 : \E i \in 1 .. k - 1 : logged[i].id = n
    /\ ~l_ /\ pool = {} /\ (\A s \in Sessions : wire[s] = << >>) => buffer_ = {}
    /\ \A m \in refused : \E b \in buffer_ \cup Range(logged) : b.id = m.id /\ b.s # m.s
==============================================================================
