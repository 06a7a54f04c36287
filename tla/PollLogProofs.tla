--------------------------- MODULE PollLogProofs ----------------------------
(***************************************************************************)
(* The poll thread and the log service. TouchesAlive, InterestMatchesMode  *)
(* and NoVerifyFails of PollThread hold for any number of Pollables,       *)
(* descriptors and sockets, with any order of add, update_mode, remove and *)
(* the steps of the poll loop; LoggedInOrder of RLog for any number of     *)
(* sessions and messages.                                                  *)
(*                                                                         *)
(* None of them is inductive. That an event's Pollable is alive depends on *)
(* who holds its references, and that on where the kernel's interest list, *)
(* mode_ and poll_set_ agree while a descriptor number changes hands:      *)
(* IInv. LogInv adds where a message is between a session and the log, and *)
(* that the messages of a session are read in the order in which it sent   *)
(* them.                                                                   *)
(***************************************************************************)
EXTENDS PollThread, RLog, TLAPS

\* A step that names no prover is left to SMT, if need be twice, and then to Zenon.
USE SMTT(10), SMTT(30), Zenon, SMTT(40), SMTT(60)

-----------------------------------------------------------------------------
(* PollThread *)

Registered(p) == owner[p] \in {"adding", "added", "erased"}
One(b) == IF b THEN 1 ELSE 0

\* The owner, add() and the two stages of a removal each hold a reference.
Holders(p) == One(owner[p] # "gone") + One(Registered(p)) + One(p \in pending) + One(p \in dropping)
Counted == \A p \in Pollables : refs[p] >= Holders(p)

\* What waits for dispatch is dropped in a later round.
Rounds ==
    /\ phase # "drop" => dropping = {}
    /\ phase # "dispatch" => evlist = {}
    /\ \A p \in evlist : Registered(p) \/ p \in pending

\* A descriptor number stands for the Pollable whose socket is open.
Numbers ==
    /\ \A p \in Pollables : owner[p] \notin {"closed", "gone"} => fd[p] \in Fds /\ table[fd[p]] = p
    /\ \A f \in Fds : table[f] # none => fd[table[f]] = f /\ owner[table[f]] \notin {"closed", "gone"}

\* poll_set_ and mode_ hold what add() entered and remove() did not erase.
Entered ==
    /\ \A p \in Pollables : p \in poll_set <=> owner[p] \in {"adding", "added"}
    /\ \A p \in Pollables : owner[p] \in {"adding", "added"} => mode[fd[p]] # none
    /\ \A f \in Fds : mode[f] # none => table[f] # none /\ owner[table[f]] \in {"adding", "added"}

\* The kernel watches open sockets only, those in use with the mode of mode_.
Watched ==
    /\ \A f \in Fds : ep[f] # none =>
          /\ ep[f].who = table[f] /\ owner[table[f]] \in {"added", "erased", "removed"}
          /\ owner[table[f]] = "removed" => table[f] \in pending \cup dropping
    /\ \A p \in Pollables : owner[p] = "added" => ep[fd[p]] = [who |-> p, mode |-> mode[fd[p]]]

Verified == EarlyUpdate \/ ~failed

IInv == TypeOK /\ Counted /\ Rounds /\ Numbers /\ Entered /\ Watched /\ Verified

-----------------------------------------------------------------------------
\* Before anything is added, the invariant holds.
LEMMA InitIInv == Init => IInv
<1> SUFFICES ASSUME Init PROVE IInv
  OBVIOUS
<1>1. TypeOK
  <2>1. opens \in [Pollables -> 0 .. MaxOpens] /\ refs \in [Pollables -> Nat]
    BY PollAssumption DEF Init
  <2> QED
    BY <2>1, Zenon DEF Init, TypeOK
<1>2. Counted
  BY DEF Init, Counted, Holders, One, Registered
<1>3. Rounds /\ Numbers /\ Entered /\ Watched /\ Verified
  BY DEF Init, Rounds, Numbers, Entered, Watched, Verified
<1> QED
  BY <1>1, <1>2, <1>3 DEF IInv


\* Steps of an owner that change neither references nor the loop's sets.
LEMMA OwnerKeeps ==
  ASSUME NEW p \in Pollables, NEW o, IInv, TypeOK',
         owner' = [owner EXCEPT ![p] = o],
         owner[p] = "gone" <=> o = "gone",
         owner[p] \in {"adding", "added", "erased"} <=> o \in {"adding", "added", "erased"},
         UNCHANGED << refs, pending, loopVars >>
  PROVE  Counted' /\ Rounds'
<1> USE DEF IInv, TypeOK, Registered, loopVars
<1>1. \A q \in Pollables : (Registered(q)' <=> Registered(q)) /\ (owner'[q] # "gone" <=> owner[q] # "gone")
  OBVIOUS
<1>2. Counted'
  BY <1>1 DEF Counted, Holders, One
<1>3. Rounds'
  BY <1>1 DEF Rounds
<1> QED
  BY <1>2, <1>3

\* The kernel has an entry for a Pollable that add() returned for.
LEMMA AddedWatched == ASSUME IInv, NEW p \in Pollables, owner[p] = "added" PROVE ep[fd[p]] # none
<1>1. ep[fd[p]] = [who |-> p, mode |-> mode[fd[p]]] /\ mode[fd[p]] \in Modes
  BY DEF IInv, TypeOK, Numbers, Entered, Watched
<1>2. ep[fd[p]] \in Interest
  BY <1>1 DEF Interest
<1> QED
  BY <1>2, PollAssumption

\* A new descriptor, its number perhaps used before, is in no table.
LEMMA OpenKeeps == ASSUME NEW p \in Pollables, IInv, Open(p) PROVE IInv'
<1> USE PollAssumption
<1>1. PICK f \in Fds : table[f] = none /\ table' = [table EXCEPT ![f] = p] /\ fd' = [fd EXCEPT ![p] = f]
  BY Zenon DEF Open
<1>2. owner[p] = "closed" /\ owner' = [owner EXCEPT ![p] = "open"] /\ opens[p] < MaxOpens /\ opens' = [opens EXCEPT ![p] = @ + 1]
  BY DEF Open
<1>3. UNCHANGED << refs, ep, poll_set, mode, pending, loopVars, failed >>
  BY DEF Open
<1>4. TypeOK'
  <2>1. opens' \in [Pollables -> 0 .. MaxOpens]
    BY <1>2 DEF IInv, TypeOK
  <2> QED
    BY <1>1, <1>2, <1>3, <2>1 DEF IInv, TypeOK, loopVars
<1>5. Counted' /\ Rounds'
  BY <1>2, <1>3, <1>4, OwnerKeeps, Zenon
<1>6. Numbers'
  BY <1>1, <1>2, <1>4 DEF IInv, TypeOK, Numbers
<1>7. Entered'
  BY <1>1, <1>2, <1>3 DEF IInv, TypeOK, Numbers, Entered
<1>8. Watched'
  BY <1>1, <1>2, <1>3 DEF IInv, TypeOK, Numbers, Watched, loopVars, Interest
<1> QED
  BY <1>3, <1>4, <1>5, <1>6, <1>7, <1>8 DEF IInv, Verified

\* The first half of add() puts a Pollable into the poll set, with a reference.
LEMMA AddKeeps == ASSUME NEW p \in Pollables, IInv, Add(p) PROVE IInv'
<1> USE PollAssumption
<1>1. PICK m \in Modes : mode' = [mode EXCEPT ![fd[p]] = m]
  BY Zenon DEF Add
<1>2. /\ owner[p] = "open" /\ owner' = [owner EXCEPT ![p] = "adding"]
      /\ refs' = [refs EXCEPT ![p] = @ + 1] /\ poll_set' = poll_set \cup {p}
      /\ UNCHANGED << opens, fd, table, ep, pending, loopVars >>
  BY DEF Add
<1>3. fd[p] \in Fds /\ table[fd[p]] = p /\ m # none /\ p # none
  BY <1>2 DEF IInv, TypeOK, Numbers, Modes
<1>4. p \notin poll_set /\ mode[fd[p]] = none
  BY <1>2, <1>3 DEF IInv, Entered
<1>5. failed' = failed
  BY <1>4 DEF Add, IInv, TypeOK
<1>6. TypeOK'
  BY <1>1, <1>2, <1>3, <1>5 DEF IInv, TypeOK, loopVars
<1>7. Counted'
  BY <1>2 DEF IInv, TypeOK, Counted, Holders, One, Registered, loopVars
<1>8. Rounds'
  BY <1>2 DEF IInv, TypeOK, Rounds, Registered, loopVars
<1>9. Numbers'
  BY <1>2 DEF IInv, TypeOK, Numbers
<1>10. Entered'
  BY <1>1, <1>2, <1>3 DEF IInv, TypeOK, Numbers, Entered
<1>11. Watched'
  BY <1>1, <1>2, <1>3 DEF IInv, TypeOK, Numbers, Watched, loopVars
<1> QED
  BY <1>5, <1>6, <1>7, <1>8, <1>9, <1>10, <1>11 DEF IInv, Verified

\* The second half makes the kernel watch the mode that add() has noted.
LEMMA AddCtlKeeps == ASSUME NEW p \in Pollables, IInv, AddCtl(p) PROVE IInv'
<1> USE PollAssumption
<1>1. /\ owner[p] = "adding" /\ owner' = [owner EXCEPT ![p] = "added"]
      /\ ep' = [ep EXCEPT ![fd[p]] = [who |-> p, mode |-> mode[fd[p]]]]
      /\ UNCHANGED << opens, fd, refs, table, poll_set, mode, pending, loopVars, failed >>
  BY DEF AddCtl
<1>2. fd[p] \in Fds /\ table[fd[p]] = p /\ mode[fd[p]] \in Modes
  BY <1>1 DEF IInv, TypeOK, Numbers, Entered
<1>3. TypeOK'
  BY <1>1, <1>2 DEF IInv, TypeOK, loopVars, Interest
<1>4. Counted' /\ Rounds'
  BY <1>1, <1>3, OwnerKeeps, Zenon
<1>5. Numbers' /\ Entered'
  BY <1>1 DEF IInv, TypeOK, Numbers, Entered
<1>6. Watched'
  BY <1>1, <1>2 DEF IInv, TypeOK, Numbers, Watched, loopVars
<1> QED
  BY <1>1, <1>3, <1>4, <1>5, <1>6 DEF IInv, Verified

\* update_mode changes mode_ and the interest of the kernel together.
LEMMA UpdateModeKeeps == ASSUME NEW p \in Pollables, NEW m \in Modes, IInv, UpdateMode(p, m) PROVE IInv'
<1> USE PollAssumption
<1>1. /\ owner[p] = "adding" => EarlyUpdate
      /\ mode' = [mode EXCEPT ![fd[p]] = m]
      /\ ep' = [ep EXCEPT ![fd[p]] = IF @ = none THEN none ELSE [who |-> p, mode |-> m]]
      /\ UNCHANGED << ownerVars, refs, table, poll_set, pending, loopVars >>
  BY DEF UpdateMode
<1>2. owner[p] \in {"adding", "added"} /\ fd[p] \in Fds /\ table[fd[p]] = p /\ mode[fd[p]] # none
  BY DEF UpdateMode, IInv, Entered, Numbers
<1>3. EarlyUpdate \/ ep[fd[p]] # none
  BY <1>1, <1>2, AddedWatched
<1>4. TypeOK'
  <2>1. failed' \in BOOLEAN
    BY DEF UpdateMode, IInv, TypeOK
  <2>2. ep' \in [Fds -> Interest \cup {none}] /\ mode' \in [Fds -> Modes \cup {none}]
    BY <1>1, <1>2 DEF IInv, TypeOK, Interest
  <2> QED
    BY <1>1, <2>1, <2>2 DEF IInv, TypeOK, ownerVars, loopVars
<1>5. Counted' /\ Rounds' /\ Numbers'
  BY <1>1 DEF IInv, Counted, Holders, Registered, Rounds, Numbers, ownerVars, loopVars
<1>6. Entered'
  BY <1>1, <1>2 DEF IInv, TypeOK, Numbers, Entered, ownerVars, Modes
<1>7. Watched'
  <2>1. ASSUME NEW f \in Fds, ep'[f] # none
        PROVE  /\ ep'[f].who = table[f] /\ owner[table[f]] \in {"added", "erased", "removed"}
               /\ owner[table[f]] = "removed" => table[f] \in pending \cup dropping
    BY <1>1, <1>2, <2>1 DEF IInv, TypeOK, Watched
  <2>2. ASSUME NEW q \in Pollables, owner[q] = "added"
        PROVE  ep'[fd[q]] = [who |-> q, mode |-> mode'[fd[q]]]
    <3>1. CASE q = p
      <4>1. ep[fd[p]] # none
        BY <2>2, <3>1, AddedWatched
      <4> QED
        BY <1>1, <1>2, <3>1, <4>1 DEF IInv, TypeOK
    <3>2. CASE q # p
      <4>1. fd[q] \in Fds /\ fd[q] # fd[p]
        BY <1>2, <2>2, <3>2 DEF IInv, Numbers
      <4> QED
        BY <1>1, <2>2, <4>1, Zenon DEF IInv, TypeOK, Watched
    <3> QED
      BY <3>1, <3>2
  <2> QED
    BY <1>1, <2>1, <2>2 DEF Watched, ownerVars, loopVars
<1>8. Verified'
  BY <1>3 DEF UpdateMode, IInv, TypeOK, Verified
<1> QED
  BY <1>4, <1>5, <1>6, <1>7, <1>8 DEF IInv

\* The first half of remove() takes a Pollable out of the poll set.
LEMMA EraseKeeps == ASSUME NEW p \in Pollables, IInv, Erase(p) PROVE IInv'
<1> USE PollAssumption
<1>1. /\ owner[p] = "added" /\ owner' = [owner EXCEPT ![p] = "erased"]
      /\ poll_set' = poll_set \ {p} /\ mode' = [mode EXCEPT ![fd[p]] = none]
      /\ UNCHANGED << opens, fd, refs, table, ep, pending, loopVars, failed >>
  BY DEF Erase
<1>2. fd[p] \in Fds /\ table[fd[p]] = p
  BY <1>1 DEF IInv, Numbers
<1>3. TypeOK'
  BY <1>1, Zenon DEF IInv, TypeOK, loopVars
<1>4. Counted' /\ Rounds'
  BY <1>1, <1>3, OwnerKeeps, Zenon
<1>5. Numbers'
  BY <1>1 DEF IInv, TypeOK, Numbers
<1>6. Entered'
  BY <1>1, <1>2 DEF IInv, TypeOK, Numbers, Entered
<1>7. Watched'
  BY <1>1, <1>2 DEF IInv, TypeOK, Numbers, Watched, loopVars
<1> QED
  BY <1>1, <1>3, <1>4, <1>5, <1>6, <1>7 DEF IInv, Verified

\* The second half leaves it, and its reference, to the loop.
LEMMA RemoveKeeps == ASSUME NEW p \in Pollables, IInv, Remove(p) PROVE IInv'
<1> USE PollAssumption
<1>1. /\ owner[p] = "erased" /\ owner' = [owner EXCEPT ![p] = "removed"]
      /\ pending' = pending \cup {p}
      /\ UNCHANGED << opens, fd, refs, table, ep, poll_set, mode, loopVars, failed >>
  BY DEF Remove
<1>2. TypeOK'
  BY <1>1 DEF IInv, TypeOK, loopVars
<1>3. Counted'
  BY <1>1 DEF IInv, TypeOK, Counted, Holders, One, Registered, loopVars
<1>4. Rounds'
  BY <1>1 DEF IInv, TypeOK, Rounds, Registered, loopVars
<1>5. Numbers' /\ Entered'
  BY <1>1 DEF IInv, TypeOK, Numbers, Entered
<1>6. Watched'
  BY <1>1 DEF IInv, TypeOK, Watched, loopVars
<1> QED
  BY <1>1, <1>2, <1>3, <1>4, <1>5, <1>6 DEF IInv, Verified

\* A closed number is watched no more.
LEMMA CloseFdKeeps == ASSUME NEW p \in Pollables, IInv, CloseFd(p) PROVE IInv'
<1> USE PollAssumption
<1>1. /\ owner[p] = "removed" /\ owner' = [owner EXCEPT ![p] = "closed"]
      /\ table' = [table EXCEPT ![fd[p]] = none] /\ ep' = [ep EXCEPT ![fd[p]] = none]
      /\ UNCHANGED << opens, fd, refs, poll_set, mode, pending, loopVars, failed >>
  BY DEF CloseFd
<1>2. fd[p] \in Fds /\ table[fd[p]] = p
  BY <1>1 DEF IInv, Numbers
<1>3. TypeOK'
  BY <1>1, Zenon DEF IInv, TypeOK, loopVars
<1>4. Counted' /\ Rounds'
  BY <1>1, <1>3, OwnerKeeps, Zenon
<1>5. Numbers' /\ Entered'
  BY <1>1, <1>2 DEF IInv, TypeOK, Numbers, Entered
<1>6. Watched'
  BY <1>1, <1>2 DEF IInv, TypeOK, Numbers, Watched, loopVars
<1> QED
  BY <1>1, <1>3, <1>4, <1>5, <1>6 DEF IInv, Verified

\* The owner's reference goes; the poll thread's stays if it has one.
LEMMA ReleaseKeeps == ASSUME NEW p \in Pollables, IInv, Release(p) PROVE IInv'
<1>1. /\ owner[p] = "closed" /\ owner' = [owner EXCEPT ![p] = "gone"] /\ refs' = [refs EXCEPT ![p] = @ - 1]
      /\ UNCHANGED << opens, fd, table, ep, poll_set, mode, pending, loopVars, failed >>
  BY DEF Release
<1>2. refs[p] \in Nat /\ refs[p] >= 1
  BY <1>1 DEF IInv, TypeOK, Counted, Holders, One
<1>3. TypeOK'
  BY <1>1, <1>2 DEF IInv, TypeOK, loopVars
<1>4. Counted'
  BY <1>1 DEF IInv, TypeOK, Counted, Holders, One, Registered, loopVars
<1>5. Rounds'
  BY <1>1 DEF IInv, TypeOK, Rounds, Registered, loopVars
<1>6. Numbers' /\ Entered'
  BY <1>1 DEF IInv, TypeOK, Numbers, Entered
<1>7. Watched'
  BY <1>1 DEF IInv, TypeOK, Watched, loopVars
<1> QED
  BY <1>1, <1>3, <1>4, <1>5, <1>6, <1>7 DEF IInv, Verified

-----------------------------------------------------------------------------
(* poll_loop *)

\* The loop gives back the reference of what was removed.
LEMMA DropKeeps == ASSUME NEW p \in Pollables, IInv, Drop(p) PROVE IInv'
<1> USE PollAssumption
<1>1. /\ phase = "drop" /\ p \in dropping /\ dropping' = dropping \ {p}
      /\ ep' = IF mode[fd[p]] = none THEN [ep EXCEPT ![fd[p]] = none] ELSE ep
      /\ refs' = [refs EXCEPT ![p] = @ - 1]
      /\ UNCHANGED << ownerVars, table, poll_set, mode, pending, phase, evlist, stop_flag, failed >>
  BY DEF Drop
<1>2. refs[p] \in Nat /\ refs[p] >= 1
  BY <1>1 DEF IInv, TypeOK, Counted, Holders, One
<1>3. TypeOK'
  <2>1. ep' \in [Fds -> Interest \cup {none}]
    BY <1>1, Zenon DEF IInv, TypeOK
  <2>2. refs' \in [Pollables -> Nat]
    BY <1>1, <1>2 DEF IInv, TypeOK
  <2> QED
    BY <1>1, <2>1, <2>2 DEF IInv, TypeOK, ownerVars
<1>4. Counted'
  BY <1>1 DEF IInv, TypeOK, Counted, Holders, One, Registered, ownerVars
<1>5. Rounds' /\ Numbers' /\ Entered'
  BY <1>1 DEF IInv, Rounds, Registered, Numbers, Entered, ownerVars
<1>6. Watched'
  <2>1. ASSUME NEW f \in Fds, ep'[f] # none
        PROVE  /\ ep'[f].who = table[f] /\ owner[table[f]] \in {"added", "erased", "removed"}
               /\ owner[table[f]] = "removed" => table[f] \in pending \cup dropping'
    <3>1. ep'[f] = ep[f] /\ ep[f] # none
      BY <1>1, <2>1 DEF IInv, TypeOK
    <3>2. table[f] = p /\ owner[p] = "removed" => mode[f] = none /\ fd[p] = f
      BY DEF IInv, Entered, Numbers, TypeOK
    <3>3. ~(table[f] = p /\ owner[p] = "removed")
      BY <1>1, <2>1, <3>1, <3>2 DEF IInv, TypeOK
    <3> QED
      BY <1>1, <3>1, <3>3 DEF IInv, Watched
  <2>2. ASSUME NEW q \in Pollables, owner[q] = "added"
        PROVE  ep'[fd[q]] = [who |-> q, mode |-> mode[fd[q]]]
    BY <1>1, <2>2 DEF IInv, TypeOK, Entered, Watched, Numbers
  <2> QED
    BY <1>1, <2>1, <2>2 DEF Watched, ownerVars
<1> QED
  BY <1>1, <1>3, <1>4, <1>5, <1>6 DEF IInv, Verified

\* The loop takes over pending_remove_, and with it the references.
LEMMA TakeRemovedKeeps == ASSUME IInv, TakeRemoved PROVE IInv'
<1>1. /\ phase = "dispatch" /\ evlist = {} /\ dropping' = pending /\ pending' = {} /\ phase' = "drop"
      /\ UNCHANGED << ownerVars, refs, table, ep, poll_set, mode, evlist, stop_flag, failed >>
  BY DEF TakeRemoved
<1>2. dropping = {}
  BY <1>1 DEF IInv, Rounds
<1>3. TypeOK'
  BY <1>1 DEF IInv, TypeOK, ownerVars
<1>4. Counted'
  BY <1>1, <1>2 DEF IInv, TypeOK, Counted, Holders, One, Registered, ownerVars
<1>5. Rounds' /\ Numbers' /\ Entered'
  BY <1>1 DEF IInv, Rounds, Registered, Numbers, Entered, ownerVars
<1>6. Watched'
  BY <1>1, <1>2 DEF IInv, Watched, ownerVars
<1> QED
  BY <1>1, <1>3, <1>4, <1>5, <1>6 DEF IInv, Verified

\* What epoll_wait reports is registered, so its Pollable is alive.
LEMMA EpollWaitKeeps == ASSUME IInv, EpollWait PROVE IInv'
<1>1. /\ phase = "wait" /\ phase' = "dispatch"
      /\ UNCHANGED << ownerVars, refs, table, ep, poll_set, mode, pending, dropping, stop_flag, failed >>
  BY DEF EpollWait
<1>2. \A p \in evlist' : \E f \in Fds : ep[f] # none /\ p = ep[f].who
  BY DEF EpollWait
<1>3. dropping = {}
  BY <1>1 DEF IInv, Rounds
<1>4. \A p \in evlist' : p \in Pollables /\ (Registered(p) \/ p \in pending)
  BY <1>2, <1>3 DEF IInv, TypeOK, Watched, Registered, Interest
<1>5. TypeOK'
  BY <1>1, <1>4 DEF IInv, TypeOK, ownerVars
<1>6. Rounds'
  BY <1>1, <1>3, <1>4 DEF Rounds, Registered, ownerVars
<1>7. Counted' /\ Numbers' /\ Entered' /\ Watched'
  BY <1>1 DEF IInv, Counted, Holders, Registered, Numbers, Entered, Watched, ownerVars
<1> QED
  BY <1>1, <1>5, <1>6, <1>7 DEF IInv, Verified

\* Steps that change no more than the phase, the flag and the events left.
LEMMA PhaseKeeps ==
  ASSUME IInv, Again \/ Exit \/ Stop \/ UNCHANGED vars \/ \E p \in Pollables : Dispatch(p)
  PROVE  IInv'
<1>1. /\ UNCHANGED << ownerVars, refs, table, ep, poll_set, mode, pending, dropping, failed >>
      /\ evlist' \subseteq evlist /\ stop_flag' \in BOOLEAN
  BY Zenon DEF IInv, TypeOK, Again, Exit, Stop, Dispatch, vars, loopVars
<1>2. \/ phase' = phase
      \/ phase = "drop" /\ dropping = {} /\ phase' = "wait"
      \/ phase = "wait" /\ phase' = "exited"
  BY DEF Again, Exit, Stop, Dispatch, vars, loopVars
<1>3. TypeOK'
  BY <1>1, <1>2 DEF IInv, TypeOK, ownerVars
<1>4. Rounds'
  BY <1>1, <1>2 DEF IInv, Rounds, Registered, ownerVars
<1>5. Counted' /\ Numbers' /\ Entered' /\ Watched'
  BY <1>1 DEF IInv, Counted, Holders, Registered, Numbers, Entered, Watched, ownerVars
<1> QED
  BY <1>1, <1>3, <1>4, <1>5 DEF IInv, Verified

-----------------------------------------------------------------------------
\* Every step keeps the invariant.
LEMMA NextIInv == IInv /\ [Next]_vars => IInv'
<1> SUFFICES ASSUME IInv, [Next]_vars PROVE IInv'
  OBVIOUS
<1>1. ASSUME NEW p \in Pollables, Owner(p)
      PROVE  IInv'
  BY <1>1, OpenKeeps, AddKeeps, AddCtlKeeps, UpdateModeKeeps, EraseKeeps, RemoveKeeps, CloseFdKeeps,
     ReleaseKeeps DEF Owner
<1>2. CASE Loop
  BY <1>2, DropKeeps, TakeRemovedKeeps, EpollWaitKeeps, PhaseKeeps DEF Loop
<1> QED
  BY <1>1, <1>2, PhaseKeeps DEF Next

\* The inductive invariant holds of every behaviour of a poll thread.
THEOREM Inductive == Spec => []IInv
  BY InitIInv, NextIInv, PTL DEF Spec

\* The loop never calls into, nor releases, a Pollable that is destroyed, and no such
\* pointer is left in the kernel's interest list.
THEOREM AlwaysAlive == Spec => []TouchesAlive
<1>1. IInv => TouchesAlive
  <2> SUFFICES ASSUME IInv PROVE TouchesAlive
    OBVIOUS
  <2>1. ASSUME NEW p \in evlist \cup dropping
        PROVE  refs[p] > 0
    <3>1. p \in Pollables /\ (Registered(p) \/ p \in pending \/ p \in dropping)
      BY DEF IInv, TypeOK, Rounds
    <3>2. refs[p] >= Holders(p) /\ refs[p] \in Nat
      BY <3>1 DEF IInv, TypeOK, Counted
    <3> QED
      BY <3>1, <3>2 DEF Holders, One
  <2>2. ASSUME NEW f \in Fds, ep[f] # none
        PROVE  refs[ep[f].who] > 0
    <3>1. ep[f].who \in Pollables /\ owner[ep[f].who] # "gone"
      BY <2>2 DEF IInv, TypeOK, Watched, Interest
    <3>2. refs[ep[f].who] >= Holders(ep[f].who) /\ refs[ep[f].who] \in Nat
      BY <3>1 DEF IInv, TypeOK, Counted
    <3> QED
      BY <3>1, <3>2 DEF Holders, One
  <2> QED
    BY <2>1, <2>2 DEF IInv, TouchesAlive
<1> QED
  BY Inductive, <1>1, PTL

\* What the kernel watches is what mode_ says, outside add().
THEOREM AlwaysMatches == Spec => []InterestMatchesMode
<1>1. IInv => InterestMatchesMode
  <2> SUFFICES ASSUME IInv, NEW f \in Fds, mode[f] # none
               PROVE  \E p \in Pollables : /\ table[f] = p
                                           /\ owner[p] # "adding" => ep[f] = [who |-> p, mode |-> mode[f]]
    BY DEF InterestMatchesMode
  <2>1. table[f] \in Pollables /\ owner[table[f]] \in {"adding", "added"} /\ fd[table[f]] = f
    BY DEF IInv, TypeOK, Entered, Numbers
  <2> QED
    BY <2>1 DEF IInv, Watched
<1> QED
  BY Inductive, <1>1, PTL

\* The verify()s of add() and update_mode() hold when nobody calls update_mode while
\* add() is in progress.
THEOREM VerifiesHold == ASSUME ~EarlyUpdate PROVE Spec => []NoVerifyFails
<1>1. IInv => NoVerifyFails
  BY DEF IInv, Verified, NoVerifyFails
<1> QED
  BY Inductive, <1>1, PTL

-----------------------------------------------------------------------------
(* RLog *)

Msg(s, n) == [s |-> s, id |-> n]
Written(m) == \E k \in 1 .. Len(logged) : logged[k] = m
Came(m) == m \in pool \/ m \in buffer_ \/ Written(m) \/ m \in refused
Sent(m) == \E k \in 1 .. Len(wire[m.s]) : wire[m.s][k] = m

\* All that session s sent before its ith message on the wire came, or is in front of it.
InLine(s, i) ==
    /\ wire[s][i].s = s /\ s <= inits
    /\ \A n \in 0 .. wire[s][i].id - 1 : Came(Msg(s, n)) \/ \E j \in 1 .. i - 1 : wire[s][j] = Msg(s, n)
    /\ \A j \in 1 .. i - 1 : wire[s][j] # wire[s][i]

\* Messages are read in the order in which a session sent them: when one came, all
\* before it did, and those on the wire are next.
WireInv ==
    /\ msg_counter_s <= MaxMsg
    /\ \A m \in Messages : Came(m) => m.s <= inits /\ ~Sent(m) /\ \A n \in 0 .. m.id - 1 : Came(Msg(m.s, n))
    /\ \A s \in Sessions : \A i \in 1 .. Len(wire[s]) : InLine(s, i)

\* While the connection stands the session has lost nothing.
UpInv ==
    cl_s = "up" =>
        /\ inits > 0
        /\ \A m \in Messages : m.s = inits /\ (Came(m) \/ Sent(m)) => m.id < msg_counter_s
        /\ \A n \in 0 .. msg_counter_s - 1 : Came(Msg(inits, n)) \/ Sent(Msg(inits, n))

\* A message is in one place of the service.
PlaceInv ==
    /\ \A m \in pool : m \notin buffer_ /\ m \notin refused /\ ~Written(m)
    /\ \A m \in buffer_ : m \notin refused /\ ~Written(m)
    /\ \A b, c \in buffer_ : b.id = c.id => b = c
    /\ \A i, j \in 1 .. Len(logged) : i # j => logged[i] # logged[j]
    /\ \A m \in refused : \E b \in Messages : (b \in buffer_ \/ Written(b)) /\ b.id = m.id /\ b.s # m.s

\* done_ is the number up to which all messages are logged; with l_ free, the next one
\* is not in the buffer.
DoneInv ==
    /\ \A n \in 1 .. done_ : \E k \in 1 .. Len(logged) : logged[k].id = n
    /\ \A k \in 1 .. Len(logged) :
          logged[k].id <= done_ /\ \A n \in 1 .. logged[k].id - 1 : \E i \in 1 .. k - 1 : logged[i].id = n
    /\ ~l_ => \A b \in buffer_ : b.id > done_ + 1

LogInv == RLogTypeOK /\ WireInv /\ UpInv /\ PlaceInv /\ DoneInv

-----------------------------------------------------------------------------
\* The invariant says what LoggedInOrder says: a message that is held back waits for one
\* that has been read, so it cannot be there when every handler has run.
LEMMA LogInvInOrder == LogInv => LoggedInOrder
<1> SUFFICES ASSUME LogInv PROVE LoggedInOrder
  OBVIOUS
<1> USE DEF LogInv
<1>0. DOMAIN logged = 1 .. Len(logged)
  BY DEF RLogTypeOK
<1>1. \A i, j \in DOMAIN logged : i # j => logged[i] # logged[j]
  BY <1>0 DEF PlaceInv
<1>2. \A k \in DOMAIN logged : \A n \in 1 .. logged[k].id - 1 : \E i \in 1 .. k - 1 : logged[i].id = n
  BY <1>0, Zenon DEF DoneInv
<1>3. ASSUME ~l_, pool = {}, \A s \in Sessions : wire[s] = << >>, NEW b \in buffer_ PROVE FALSE
  <2> DEFINE n == done_ + 1
             m == Msg(b.s, n)
  <2>1. b \in Messages /\ done_ \in Nat /\ b.id > n
    BY <1>3 DEF RLogTypeOK, DoneInv
  <2>2. n \in 0 .. b.id - 1 /\ m \in Messages /\ m.id = n
    BY <2>1, RLogAssumption DEF Messages, Msg
  <2>3. Came(m)
    BY <2>1, <2>2 DEF WireInv, Came
  <2>4. \A c \in buffer_ : c.id # n
    BY <1>3, <2>1 DEF DoneInv, RLogTypeOK, Messages
  <2>5. \A k \in 1 .. Len(logged) : logged[k].id # n
    BY <2>1 DEF DoneInv, RLogTypeOK, Messages
  <2>6. m \notin refused
    BY <2>2, <2>4, <2>5 DEF PlaceInv, Written
  <2> HIDE DEF m, n
  <2> QED
    BY <1>3, <2>2, <2>3, <2>4, <2>5, <2>6 DEF Came, Written
<1>4. ASSUME NEW m \in refused PROVE \E b \in buffer_ \cup Range(logged) : b.id = m.id /\ b.s # m.s
  <2>1. PICK b \in Messages : (b \in buffer_ \/ Written(b)) /\ b.id = m.id /\ b.s # m.s
    BY DEF PlaceInv
  <2>2. b \in buffer_ \cup Range(logged)
    BY <1>0, <2>1 DEF Written, Range
  <2> QED
    BY <2>1, <2>2
<1> QED
  BY <1>1, <1>2, <1>3, <1>4 DEF LoggedInOrder

\* It holds before the first session.
LEMMA LogInitInv == RLogInit => LogInv
<1> SUFFICES ASSUME RLogInit PROVE LogInv
  OBVIOUS
<1> USE RLogAssumption DEF RLogInit
<1>1. RLogTypeOK
  <2>1. << >> \in Seq(Messages) /\ 0 \in Nat /\ 0 \in 0 .. MaxInit
    OBVIOUS
  <2> QED
    BY <2>1, Zenon DEF RLogTypeOK
<1>2. \A m : ~Came(m)
  BY DEF Came, Written
<1>3. WireInv /\ UpInv
  BY <1>2 DEF WireInv, UpInv
<1>4. PlaceInv /\ DoneInv
  BY DEF PlaceInv, DoneInv
<1> QED
  BY <1>1, <1>3, <1>4 DEF LogInv

-----------------------------------------------------------------------------
\* A message stays in line when those in front of it do and what came stays.
LEMMA InLineKept ==
  ASSUME NEW r, NEW i, InLine(r, i), inits' = inits, \A x : Came(x) => Came(x)',
         wire'[r][i] = wire[r][i], \A j \in 1 .. i - 1 : wire'[r][j] = wire[r][j]
  PROVE  InLine(r, i)'
<1>1. \A n \in 0 .. wire'[r][i].id - 1 : Came(Msg(r, n))' \/ \E j \in 1 .. i - 1 : wire'[r][j] = Msg(r, n)
  BY Zenon DEF InLine
<1>2. wire'[r][i].s = r /\ r <= inits' /\ \A j \in 1 .. i - 1 : wire'[r][j] # wire'[r][i]
  BY DEF InLine
<1> QED
  BY <1>1, <1>2, Zenon DEF InLine

\* The service as it was, but for l_.
LEMMA ServiceSame ==
  ASSUME PlaceInv, DoneInv, pool' = pool, done_' = done_, buffer_' = buffer_, logged' = logged, refused' = refused,
         l_' = l_ \/ \A b \in buffer_ : b.id > done_ + 1
  PROVE  PlaceInv' /\ DoneInv' /\ \A m : Came(m)' <=> Came(m)
<1>1. \A m : (Written(m)' <=> Written(m)) /\ (Came(m)' <=> Came(m))
  BY Zenon DEF Written, Came
<1>2. PlaceInv'
  BY <1>1 DEF PlaceInv
<1>3. DoneInv'
  BY DEF DoneInv
<1> QED
  BY <1>1, <1>2, <1>3, Zenon

\* The wires as they were.
LEMMA WireSame ==
  ASSUME WireInv, inits' = inits, wire' = wire, \A m : Came(m)' <=> Came(m),
         msg_counter_s' = msg_counter_s \/ msg_counter_s' <= MaxMsg
  PROVE  WireInv' /\ \A m : Sent(m)' <=> Sent(m)
<1>1. \A m : Sent(m)' <=> Sent(m)
  BY Zenon DEF Sent
<1>2. ASSUME NEW s \in Sessions, NEW i \in 1 .. Len(wire[s]) PROVE InLine(s, i)'
  <2>1. InLine(s, i)
    BY <1>2, Zenon DEF WireInv
  <2> QED
    BY <2>1, Zenon DEF InLine
<1>3. \A m \in Messages : Came(m)' => m.s <= inits' /\ ~Sent(m)' /\ \A n \in 0 .. m.id - 1 : Came(Msg(m.s, n))'
  BY <1>1, Zenon DEF WireInv
<1>4. msg_counter_s' <= MaxMsg /\ \A s \in Sessions : \A i \in 1 .. Len(wire'[s]) : InLine(s, i)'
  BY <1>2, Zenon DEF WireInv
<1> QED
  BY <1>1, <1>3, <1>4, Zenon DEF WireInv

\* What the process does leaves the service alone.
LEMMA ProcessKeeps ==
  ASSUME LogInv, InitConnects \/ Disconnect \/ Finalize \/ LogV \/ AggregateQps
  PROVE  LogInv'
<1> USE RLogAssumption DEF LogInv
<1>0. UNCHANGED serviceVars
  BY DEF InitConnects, Disconnect, Finalize, LogV, AggregateQps
<1>1. PlaceInv' /\ DoneInv' /\ \A m : Came(m)' <=> Came(m)
  BY <1>0, ServiceSame, Zenon DEF serviceVars
<1>2. \A m : Came(m)' <=> Came(m)
  BY <1>1, Zenon
<1>3. CASE UNCHANGED << inits, msg_counter_s, wire >> /\ cl_s' \in {"down", "null"}
  <2>1. RLogTypeOK'
    BY <1>0, <1>3 DEF RLogTypeOK, serviceVars
  <2>2. WireInv'
    BY <1>2, <1>3 DEF WireInv, InLine, Sent
  <2>3. UpInv'
    BY <1>3 DEF UpInv
  <2> QED
    BY <1>1, <2>1, <2>2, <2>3
<1>4. CASE InitConnects
  <2>1. inits' = inits + 1 /\ inits' \in Sessions /\ inits \in Nat /\ msg_counter_s' = 0 /\ wire' = wire /\ cl_s' = "up"
    BY <1>4 DEF InitConnects, RLogTypeOK, Sessions
  <2>2. RLogTypeOK'
    BY <1>0, <2>1 DEF RLogTypeOK, serviceVars, Sessions
  <2>3. WireInv'
    <3>1. \A s \in Sessions : s <= inits => s <= inits'
      BY <2>1 DEF Sessions
    <3>2. msg_counter_s' <= MaxMsg /\ \A m \in Messages : m.s \in Sessions
      BY <2>1, RLogAssumption DEF Messages
    <3>3. \A m : Sent(m)' <=> Sent(m)
      BY <2>1 DEF Sent
    <3>4. \A s \in Sessions : \A i \in 1 .. Len(wire[s]) : InLine(s, i) => InLine(s, i)'
      BY <1>2, <2>1, <3>1, Zenon DEF InLine
    <3> QED
      BY <1>2, <2>1, <3>1, <3>2, <3>3, <3>4, Zenon DEF WireInv
  <2>4. ASSUME NEW m \in Messages, m.s = inits' PROVE ~Came(m) /\ ~Sent(m)
    <3>1. ~(m.s <= inits) /\ m.s \in Sessions
      BY <2>1, <2>4
    <3>2. \A i \in 1 .. Len(wire[m.s]) : m.s <= inits
      BY <3>1, Zenon DEF WireInv, InLine
    <3> QED
      BY <3>1, <3>2, Zenon DEF WireInv, Sent
  <2>5. UpInv'
    <3>1. \A m \in Messages : m.s = inits' => ~Came(m)' /\ ~Sent(m)'
      BY <1>2, <2>1, <2>4 DEF Sent
    <3>2. inits' > 0 /\ 0 .. msg_counter_s' - 1 = {}
      BY <2>1
    <3> QED
      BY <3>1, <3>2, Zenon DEF UpInv
  <2> QED
    BY <1>1, <2>2, <2>3, <2>5
<1>5. CASE LogV /\ cl_s = "up"
  <2> DEFINE s == inits
             m == Msg(inits, msg_counter_s)
  <2>1. /\ msg_counter_s < MaxMsg /\ msg_counter_s' = msg_counter_s + 1 /\ wire' = [wire EXCEPT ![s] = Append(@, m)]
        /\ cl_s' = cl_s /\ inits' = inits
    BY <1>5, Zenon DEF LogV, Msg
  <2>2. s \in Sessions /\ m \in Messages /\ msg_counter_s \in Nat /\ m.s = s /\ m.id = msg_counter_s
    BY <1>5, <2>1 DEF UpInv, RLogTypeOK, Sessions, Messages, Msg
  <2>3. wire[s] \in Seq(Messages) /\ wire'[s] = Append(wire[s], m) /\ \A r \in Sessions \ {s} : wire'[r] = wire[r]
    BY <2>1, <2>2 DEF RLogTypeOK
  <2>4. /\ Len(wire'[s]) = Len(wire[s]) + 1 /\ wire'[s][Len(wire[s]) + 1] = m
        /\ \A i \in 1 .. Len(wire[s]) : wire'[s][i] = wire[s][i]
    BY <2>2, <2>3
  <2>5. Len(wire[s]) \in Nat /\ wire' \in [Sessions -> Seq(Messages)]
    BY <2>1, <2>2, <2>3 DEF RLogTypeOK
  <2>6. RLogTypeOK'
    BY <1>0, <2>1, <2>2, <2>5 DEF RLogTypeOK, serviceVars
  <2>7. ~Came(m) /\ ~Sent(m)
    BY <1>5, <2>2 DEF UpInv
  <2> HIDE DEF m
  <2>8. \A x \in Messages : Sent(x)' <=> Sent(x) \/ x = m
    <3> SUFFICES ASSUME NEW x \in Messages PROVE Sent(x)' <=> Sent(x) \/ x = m
      OBVIOUS
    <3>1. CASE x.s # s
      BY <2>2, <2>3, <3>1, Zenon DEF Sent, Messages
    <3>2. CASE x.s = s
      BY <2>4, <2>5, <3>2 DEF Sent
    <3> QED
      BY <3>1, <3>2
  <2>9. \A n \in 0 .. msg_counter_s - 1 : Came(Msg(s, n)) \/ \E j \in 1 .. Len(wire[s]) : wire[s][j] = Msg(s, n)
    BY <1>5 DEF UpInv, Sent, Msg
  <2>10. WireInv'
    <3>1. msg_counter_s' <= MaxMsg
      BY <2>1, <2>2
    <3>2. \A x \in Messages : Came(x)' => x.s <= inits' /\ ~Sent(x)' /\ \A n \in 0 .. x.id - 1 : Came(Msg(x.s, n))'
      BY <1>2, <2>1, <2>7, <2>8, Zenon DEF WireInv
    <3>3. ASSUME NEW r \in Sessions, NEW i \in 1 .. Len(wire'[r])
          PROVE  InLine(r, i)'
      <4>1. CASE r # s
        <5>1. wire'[r] = wire[r]
          BY <2>3, <4>1
        <5>2. i \in 1 .. Len(wire[r])
          BY <5>1, <3>3
        <5>3. InLine(r, i)
          BY <5>2, Zenon DEF WireInv
        <5> QED
          BY <1>2, <2>1, <5>1, <5>3, InLineKept, Zenon
      <4>2. CASE r = s /\ i \in 1 .. Len(wire[s])
        <5>1. wire'[r][i] = wire[s][i] /\ \A j \in 1 .. i - 1 : j \in 1 .. Len(wire[s]) /\ wire'[r][j] = wire[s][j]
          BY <2>4, <2>5, <4>2
        <5>2. InLine(s, i)
          BY <2>2, <4>2, Zenon DEF WireInv
        <5> QED
          BY <1>2, <2>1, <4>2, <5>1, <5>2, InLineKept, Zenon
      <4>3. CASE r = s /\ i = Len(wire[s]) + 1
        <5>1. \A j \in 1 .. Len(wire[s]) : wire[s][j] # m
          BY <2>2, <2>7 DEF Sent
        <5>2. wire'[r][i] = m /\ i - 1 = Len(wire[s]) /\ \A j \in 1 .. i - 1 : wire'[r][j] = wire[s][j]
          BY <2>4, <2>5, <4>3
        <5>3. s <= inits
          BY DEF RLogTypeOK
        <5>4. \A n \in 0 .. m.id - 1 : Came(Msg(r, n)) \/ \E j \in 1 .. i - 1 : wire[s][j] = Msg(r, n)
          BY <2>2, <2>9, <4>3, <5>2
        <5>5. \A n \in 0 .. m.id - 1 : Came(Msg(r, n)) \/ \E j \in 1 .. i - 1 : wire'[r][j] = Msg(r, n)
          BY <5>2, <5>4, Zenon
        <5>6. \A j \in 1 .. i - 1 : wire'[r][j] # m
          BY <5>1, <5>2, Zenon
        <5>7. InLine(r, i)' <=> /\ m.s = r /\ r <= inits
                                /\ \A n \in 0 .. m.id - 1 : Came(Msg(r, n)) \/ \E j \in 1 .. i - 1 : wire'[r][j] = Msg(r, n)
                                /\ \A j \in 1 .. i - 1 : wire'[r][j] # m
          BY <1>2, <2>1, <5>2, Zenon DEF InLine
        <5> QED
          BY <2>2, <4>3, <5>3, <5>5, <5>6, <5>7, Zenon
      <4> QED
        BY <2>4, <2>5, <3>3, <4>1, <4>2, <4>3
    <3> QED
      BY <3>1, <3>2, <3>3, Zenon DEF WireInv
  <2>11. UpInv'
    <3>1. \A x \in Messages : x.s = inits /\ (Came(x) \/ Sent(x)') => x.id < msg_counter_s + 1
      BY <1>5, <2>2, <2>8 DEF UpInv, Messages
    <3>2. ASSUME NEW x \in Messages, x.s = inits, x.id \in 0 .. msg_counter_s PROVE Came(x) \/ Sent(x)'
      <4>1. CASE x.id = msg_counter_s
        BY <2>2, <2>8, <3>2, <4>1 DEF m, Messages, Msg
      <4>2. CASE x.id \in 0 .. msg_counter_s - 1
        <5>1. x = Msg(inits, x.id)
          BY <3>2 DEF Messages, Msg
        <5>2. Came(x) \/ Sent(x)
          BY <1>5, <4>2, <5>1, Zenon DEF UpInv
        <5> QED
          BY <2>8, <5>2
      <4> QED
        BY <2>2, <3>2, <4>1, <4>2
    <3>3. \A n \in 0 .. msg_counter_s : Msg(inits, n) \in Messages /\ Msg(inits, n).s = inits /\ Msg(inits, n).id = n
      BY <2>1, <2>2 DEF Messages, Msg
    <3>4. inits' > 0 /\ \A x \in Messages : x.s = inits' /\ (Came(x)' \/ Sent(x)') => x.id < msg_counter_s'
      BY <1>2, <1>5, <2>1, <3>1, Zenon DEF UpInv
    <3>5. ASSUME NEW n \in 0 .. msg_counter_s' - 1 PROVE (Came(Msg(inits, n)) \/ Sent(Msg(inits, n)))'
      <4>1. n \in 0 .. msg_counter_s
        BY <2>1, <2>2
      <4>2. PICK x \in Messages : x = Msg(inits, n) /\ (Came(x) \/ Sent(x)')
        BY <3>2, <3>3, <4>1
      <4>3. x = Msg(inits, n)'
        BY <2>1, <4>2 DEF Msg
      <4> QED
        BY <1>2, <4>2, <4>3
    <3> QED
      BY <3>4, <3>5, Zenon DEF UpInv
  <2> QED
    BY <1>1, <2>6, <2>10, <2>11
<1>6. CASE LogV /\ cl_s # "up"
  <2>1. inits' = inits /\ wire' = wire /\ msg_counter_s' = msg_counter_s + 1 /\ msg_counter_s < MaxMsg /\ cl_s' = "null"
    BY <1>6, Zenon DEF LogV, do_finalize, RLogTypeOK
  <2>2. RLogTypeOK'
    BY <1>0, <2>1 DEF RLogTypeOK, serviceVars
  <2>3. WireInv'
    <3>1. msg_counter_s' <= MaxMsg
      BY <2>1, RLogAssumption DEF RLogTypeOK
    <3> QED
      BY <1>2, <2>1, <3>1, WireSame, Zenon
  <2>4. UpInv'
    BY <2>1 DEF UpInv
  <2> QED
    BY <1>1, <2>2, <2>3, <2>4
<1> QED
  BY <1>3, <1>4, <1>5, <1>6, Zenon DEF Disconnect, Finalize, AggregateQps, do_finalize
\* The first request of a session is read: what came before is all before it.
LEMMA ArriveKeeps ==
  ASSUME LogInv, NEW s \in Sessions, Arrive(s)
  PROVE  LogInv'
<1> USE DEF LogInv
<1> DEFINE m == wire[s][1]
           w == wire[s]
<1>1. /\ w # << >> /\ wire' = [wire EXCEPT ![s] = Tail(w)] /\ pool' = pool \cup {Head(w)}
      /\ UNCHANGED << cl_s, inits, msg_counter_s, done_, buffer_, logged, refused, l_ >>
  BY DEF Arrive
<1>2. w \in Seq(Messages) /\ Len(w) \in Nat \ {0} /\ Head(w) = m /\ m \in Messages
  BY <1>1 DEF RLogTypeOK
<1>3. /\ Len(Tail(w)) = Len(w) - 1 /\ Tail(w) \in Seq(Messages)
      /\ \A i \in 1 .. Len(w) - 1 : i + 1 \in 1 .. Len(w) /\ Tail(w)[i] = w[i + 1]
  BY <1>1, <1>2
<1>4. wire'[s] = Tail(w) /\ \A r \in Sessions \ {s} : wire'[r] = wire[r]
  BY <1>1 DEF RLogTypeOK
<1>5. RLogTypeOK'
  BY <1>1, <1>2, <1>3, <1>4 DEF RLogTypeOK
<1>6. m.s = s /\ s <= inits /\ \A n \in 0 .. m.id - 1 : Came(Msg(s, n))
  <2>1. 1 \in 1 .. Len(w) /\ 1 .. 1 - 1 = {}
    BY <1>2
  <2>2. m.s = s /\ s <= inits /\ \A n \in 0 .. m.id - 1 : Came(Msg(s, n)) \/ \E j \in 1 .. 1 - 1 : wire[s][j] = Msg(s, n)
    BY <2>1, Zenon DEF WireInv, InLine
  <2> QED
    BY <2>1, <2>2, Zenon
<1>7. ~Came(m)
  <2>1. Sent(m)
    BY <1>2, <1>6 DEF Sent
  <2> QED
    BY <1>2, <2>1, Zenon DEF WireInv
<1>8. \A i \in 2 .. Len(w) : w[i] # m
  <2> SUFFICES ASSUME NEW i \in 2 .. Len(w) PROVE w[i] # m
    OBVIOUS
  <2>1. i \in 1 .. Len(w) /\ 1 \in 1 .. i - 1
    BY <1>2
  <2> QED
    BY <2>1, Zenon DEF WireInv, InLine
<1> HIDE DEF m, w
<1>9. \A x : Came(x)' <=> Came(x) \/ x = m
  BY <1>1, <1>2 DEF Came, Written
<1>10. \A x \in Messages : Sent(x)' <=> Sent(x) /\ x # m
  <2> SUFFICES ASSUME NEW x \in Messages PROVE Sent(x)' <=> Sent(x) /\ x # m
    OBVIOUS
  <2>1. CASE x.s # s
    BY <1>4, <1>6, <2>1, Zenon DEF Sent, Messages
  <2>2. CASE x.s = s
    <3>1. Sent(x) <=> \E k \in 1 .. Len(w) : w[k] = x
      BY <2>2 DEF Sent, w
    <3>2. Sent(x)' <=> \E k \in 1 .. Len(w) - 1 : w[k + 1] = x
      BY <1>3, <1>4, <2>2, Zenon DEF Sent
    <3>3. w[1] = m /\ \A k \in 1 .. Len(w) : k = 1 \/ (k - 1 \in 1 .. Len(w) - 1 /\ (k - 1) + 1 = k /\ k \in 2 .. Len(w))
      BY <1>2 DEF m, w
    <3>4. \A k \in 1 .. Len(w) - 1 : k + 1 \in 1 .. Len(w) /\ k + 1 \in 2 .. Len(w)
      BY <1>2
    <3> QED
      BY <1>8, <3>1, <3>2, <3>3, <3>4
  <2> QED
    BY <2>1, <2>2
<1>11. WireInv'
  <2>1. msg_counter_s' <= MaxMsg
    BY <1>1 DEF WireInv
  <2>2. ASSUME NEW x \in Messages, Came(x)'
        PROVE  x.s <= inits' /\ ~Sent(x)' /\ \A n \in 0 .. x.id - 1 : Came(Msg(x.s, n))'
    BY <1>1, <1>6, <1>9, <1>10, <2>2, Zenon DEF WireInv
  <2>3. ASSUME NEW r \in Sessions, NEW i \in 1 .. Len(wire'[r])
        PROVE  InLine(r, i)'
    <3>1. CASE r # s
      <4>1. wire'[r] = wire[r] /\ i \in 1 .. Len(wire[r])
        BY <1>4, <2>3, <3>1
      <4>2. InLine(r, i)
        BY <4>1, Zenon DEF WireInv
      <4> QED
        BY <1>1, <1>9, <4>1, <4>2, InLineKept, Zenon
    <3>2. CASE r = s
      <4> DEFINE k == i + 1
      <4>1. k \in 1 .. Len(w) /\ wire'[r][i] = w[k] /\ i \in 1 .. Len(w) - 1
        BY <1>2, <1>3, <1>4, <2>3, <3>2, Zenon
      <4>2. /\ w[k].s = s /\ s <= inits
            /\ \A n \in 0 .. w[k].id - 1 : Came(Msg(s, n)) \/ \E j \in 1 .. k - 1 : w[j] = Msg(s, n)
            /\ \A j \in 1 .. k - 1 : w[j] # w[k]
        <5> HIDE DEF k
        <5> QED
          BY <4>1, Zenon DEF WireInv, w, InLine
      <4>3. \A j \in 1 .. k - 1 : j = 1 \/ (j - 1 \in 1 .. i - 1 /\ wire'[r][j - 1] = w[j])
        <5> SUFFICES ASSUME NEW j \in 1 .. k - 1, j # 1 PROVE j - 1 \in 1 .. i - 1 /\ wire'[r][j - 1] = w[j]
          OBVIOUS
        <5>1. j - 1 \in 1 .. i - 1 /\ j - 1 \in 1 .. Len(w) - 1 /\ (j - 1) + 1 = j
          BY <1>2, <4>1
        <5> QED
          BY <1>3, <1>4, <3>2, <5>1, Zenon
      <4>4. \A j \in 1 .. i - 1 : j + 1 \in 1 .. k - 1 /\ wire'[r][j] = w[j + 1]
        <5> SUFFICES ASSUME NEW j \in 1 .. i - 1 PROVE j + 1 \in 1 .. k - 1 /\ wire'[r][j] = w[j + 1]
          OBVIOUS
        <5>1. j \in 1 .. Len(w) - 1 /\ j + 1 \in 1 .. k - 1
          BY <1>2, <4>1
        <5> QED
          BY <1>3, <1>4, <3>2, <5>1, Zenon
      <4>5. ASSUME NEW n \in 0 .. wire'[r][i].id - 1
            PROVE  Came(Msg(r, n))' \/ \E j \in 1 .. i - 1 : wire'[r][j] = Msg(r, n)
        <5>1. CASE Came(Msg(s, n))
          BY <1>9, <3>2, <5>1
        <5>2. ASSUME NEW j \in 1 .. k - 1, w[j] = Msg(s, n)
              PROVE  Came(Msg(r, n))' \/ \E l \in 1 .. i - 1 : wire'[r][l] = Msg(r, n)
          <6>1. CASE j = 1
            BY <1>9, <3>2, <5>2, <6>1, Zenon DEF m, w
          <6>2. CASE j # 1
            BY <3>2, <4>3, <5>2, <6>2, Zenon
          <6> QED
            BY <6>1, <6>2
        <5> QED
          BY <4>1, <4>2, <4>5, <5>1, <5>2, Zenon
      <4>6. \A j \in 1 .. i - 1 : wire'[r][j] # wire'[r][i]
        <5> HIDE DEF k
        <5> QED
          BY <4>1, <4>2, <4>4, Zenon
      <4> QED
        BY <1>1, <3>2, <4>1, <4>2, <4>5, <4>6, Zenon DEF InLine
    <3> QED
      BY <3>1, <3>2
  <2> QED
    BY <2>1, <2>2, <2>3, Zenon DEF WireInv
<1>12. UpInv'
  <2> SUFFICES ASSUME cl_s = "up"
               PROVE  /\ inits > 0
                      /\ \A x \in Messages : x.s = inits /\ (Came(x)' \/ Sent(x)') => x.id < msg_counter_s
                      /\ \A n \in 0 .. msg_counter_s - 1 : Came(Msg(inits, n))' \/ Sent(Msg(inits, n))'
    BY <1>1 DEF UpInv
  <2>1. Sent(m)
    <3>1. wire[m.s][1] = m /\ 1 \in 1 .. Len(wire[m.s])
      BY <1>2, <1>6 DEF m, w
    <3> QED
      BY <3>1, Zenon DEF Sent
  <2>2. inits > 0 /\ \A x \in Messages : x.s = inits /\ (Came(x)' \/ Sent(x)') => x.id < msg_counter_s
    BY <1>2, <1>9, <1>10, <2>1 DEF UpInv
  <2>3. \A n \in 0 .. msg_counter_s - 1 : Msg(inits, n) \in Messages
    BY <2>2, RLogAssumption DEF Messages, Msg, WireInv, RLogTypeOK, Sessions
  <2>4. \A n \in 0 .. msg_counter_s - 1 : Came(Msg(inits, n)) \/ Sent(Msg(inits, n))
    BY Zenon DEF UpInv
  <2>5. \A n : Msg(inits, n)' = Msg(inits, n)
    BY <1>1 DEF Msg
  <2> QED
    BY <1>9, <1>10, <2>2, <2>3, <2>4, <2>5, Zenon
<1>13. PlaceInv'
  <2>1. \A x : Written(x)' <=> Written(x)
    BY <1>1 DEF Written
  <2> QED
    BY <1>1, <1>2, <1>7, <2>1 DEF PlaceInv, Came
<1>14. DoneInv'
  BY <1>1 DEF DoneInv
<1> QED
  BY <1>5, <1>11, <1>12, <1>13, <1>14

\* What is lost was the end of what a session sent.
LEMMA VanishKeeps ==
  ASSUME LogInv, NEW s \in Sessions, Vanish(s)
  PROVE  LogInv'
<1> USE DEF LogInv
<1>1. /\ wire' = [wire EXCEPT ![s] = << >>] /\ (s < inits \/ cl_s # "up")
      /\ UNCHANGED << cl_s, inits, msg_counter_s, pool, done_, buffer_, logged, refused, l_ >>
  BY DEF Vanish, serviceVars
<1>2. wire'[s] = << >> /\ \A r \in Sessions \ {s} : wire'[r] = wire[r]
  BY <1>1 DEF RLogTypeOK
<1>3. RLogTypeOK'
  BY <1>1 DEF RLogTypeOK
<1>4. \A x : Came(x)' <=> Came(x)
  BY <1>1 DEF Came, Written
<1>5. \A x \in Messages : Sent(x)' <=> Sent(x) /\ x.s # s
  BY <1>2 DEF Sent, Messages
<1>6. WireInv'
  <2>1. msg_counter_s' <= MaxMsg
    BY <1>1 DEF WireInv
  <2>2. ASSUME NEW x \in Messages, Came(x)'
        PROVE  x.s <= inits' /\ ~Sent(x)' /\ \A n \in 0 .. x.id - 1 : Came(Msg(x.s, n))'
    BY <1>1, <1>4, <1>5, <2>2, Zenon DEF WireInv
  <2>3. ASSUME NEW r \in Sessions, NEW i \in 1 .. Len(wire'[r])
        PROVE  InLine(r, i)'
    <3>1. r # s
      BY <1>2, <2>3
    <3>2. wire'[r] = wire[r] /\ i \in 1 .. Len(wire[r])
      BY <1>2, <2>3, <3>1
    <3>3. InLine(r, i)
      BY <3>2, Zenon DEF WireInv
    <3> QED
      BY <1>1, <1>4, <3>2, <3>3, InLineKept, Zenon
  <2> QED
    BY <2>1, <2>2, <2>3, Zenon DEF WireInv
<1>7. UpInv'
  <2> SUFFICES ASSUME cl_s = "up"
               PROVE  /\ inits > 0
                      /\ \A x \in Messages : x.s = inits /\ (Came(x)' \/ Sent(x)') => x.id < msg_counter_s
                      /\ \A n \in 0 .. msg_counter_s - 1 : Came(Msg(inits, n))' \/ Sent(Msg(inits, n))'
    BY <1>1 DEF UpInv
  <2>1. s # inits
    BY <1>1 DEF RLogTypeOK, Sessions
  <2>2. inits > 0 /\ \A x \in Messages : x.s = inits /\ (Came(x)' \/ Sent(x)') => x.id < msg_counter_s
    BY <1>4, <1>5 DEF UpInv
  <2>3. \A n \in 0 .. msg_counter_s - 1 : Msg(inits, n) \in Messages /\ Msg(inits, n).s = inits
    BY <2>2, RLogAssumption DEF Messages, Msg, WireInv, RLogTypeOK, Sessions
  <2>4. \A n \in 0 .. msg_counter_s - 1 : Came(Msg(inits, n)) \/ Sent(Msg(inits, n))
    BY Zenon DEF UpInv
  <2>5. \A n : Msg(inits, n)' = Msg(inits, n)
    BY <1>1 DEF Msg
  <2> QED
    BY <1>4, <1>5, <2>1, <2>2, <2>3, <2>4, <2>5, Zenon
<1>8. PlaceInv' /\ DoneInv'
  BY <1>1 DEF PlaceInv, DoneInv, Written
<1> QED
  BY <1>3, <1>6, <1>7, <1>8

INSTANCE WellFoundedInduction

\* A sequence without repetitions that grows by a new element has none either.
LEMMA AllDiffer ==
  ASSUME NEW n \in Nat, NEW m, m = n + 1, NEW s, NEW t, NEW b, t[n + 1] = b,
         \A k \in 1 .. n : t[k] = s[k],
         \A k \in 1 .. n : s[k] # b,
         \A i, j \in 1 .. n : i # j => s[i] # s[j]
  PROVE  \A i, j \in 1 .. m : i # j => t[i] # t[j]
<1>1. \A i \in 1 .. m : i \in 1 .. n \/ i = n + 1
  OBVIOUS
<1> QED
  BY <1>1

-----------------------------------------------------------------------------
\* log() of the service moves messages, and loses none.
LEMMA ServiceKeeps ==
  ASSUME LogInv, (\E m \in pool : Insert(m)) \/ LogFirst \/ Unlock
  PROVE  LogInv'
<1> USE DEF LogInv
<1>1. SUFFICES ASSUME RLogTypeOK', PlaceInv', DoneInv', UNCHANGED << cl_s, inits, msg_counter_s, wire >>,
                      \A x : Came(x)' <=> Came(x)
               PROVE  LogInv'
  <2>1. UNCHANGED << cl_s, inits, msg_counter_s, wire >>
    BY Zenon DEF Insert, LogFirst, Unlock
  <2>2. ASSUME NEW m \in pool, Insert(m) PROVE RLogTypeOK' /\ PlaceInv' /\ DoneInv' /\ \A x : Came(x)' <=> Came(x)
    <3>1. m \in pool /\ m \in Messages /\ pool' = pool \ {m} /\ l_' = TRUE /\ UNCHANGED << done_, logged >>
      BY <2>2, Zenon DEF Insert, RLogTypeOK
    <3>2. \/ (\A b \in buffer_ : b.id # m.id) /\ buffer_' = buffer_ \cup {m} /\ refused' = refused
          \/ \E b \in buffer_ : b.id = m.id /\ refused' = refused \cup {m} /\ buffer_' = buffer_
      BY <2>2, Zenon DEF Insert
    <3>3. RLogTypeOK'
      BY <2>1, <3>1, <3>2, Zenon DEF RLogTypeOK
    <3>4. \A x : Came(x)' <=> Came(x)
      BY <3>1, <3>2 DEF Came, Written
    <3>5. DoneInv'
      BY <3>1 DEF DoneInv
    <3>6. PlaceInv'
      <4>1. \A x : Written(x)' <=> Written(x)
        BY <3>1 DEF Written
      <4>2. CASE (\A b \in buffer_ : b.id # m.id) /\ buffer_' = buffer_ \cup {m} /\ refused' = refused
        BY <3>1, <4>1, <4>2 DEF PlaceInv
      <4>3. ASSUME NEW b \in buffer_, b.id = m.id, refused' = refused \cup {m}, buffer_' = buffer_ PROVE PlaceInv'
        <5>1. b \in Messages /\ b # m /\ b.s # m.s
          <6>1. b \in Messages /\ b # m
            BY <3>1 DEF PlaceInv, RLogTypeOK
          <6>2. b = Msg(b.s, b.id) /\ m = Msg(m.s, m.id)
            BY <3>1, <6>1 DEF Messages, Msg
          <6> QED
            BY <4>3, <6>1, <6>2
        <5> QED
          BY <3>1, <4>1, <4>3, <5>1 DEF PlaceInv
      <4> QED
        BY <3>2, <4>2, <4>3
    <3> QED
      BY <3>3, <3>4, <3>5, <3>6
  <2>3. ASSUME LogFirst PROVE RLogTypeOK' /\ PlaceInv' /\ DoneInv' /\ \A x : Came(x)' <=> Came(x)
    <3>1. PICK b \in buffer_ : /\ b.id <= done_ + 1 /\ logged' = Append(logged, b)
                               /\ done_' = IF done_ < b.id THEN b.id ELSE done_
                               /\ buffer_' = buffer_ \ {b}
      BY <2>3, Zenon DEF LogFirst, Due
    <3>2. l_ /\ l_' /\ UNCHANGED << pool, refused >> /\ b \in Messages /\ b.id \in Nat /\ done_ \in Nat
      <4>1. l_ /\ l_' /\ UNCHANGED << pool, refused >>
        BY <2>3, Zenon DEF LogFirst
      <4> QED
        BY <4>1, RLogAssumption DEF RLogTypeOK, Messages
    <3>3. /\ Len(logged) \in Nat /\ Len(logged') = Len(logged) + 1 /\ logged'[Len(logged) + 1] = b
          /\ \A k \in 1 .. Len(logged) : logged'[k] = logged[k]
      BY <3>1, <3>2 DEF RLogTypeOK
    <3>4. RLogTypeOK'
      <4>1. buffer_' \subseteq buffer_ /\ done_' \in Nat /\ logged' = Append(logged, b)
        BY <3>1, <3>2
      <4> QED
        BY <2>1, <2>3, <3>2, <4>1 DEF RLogTypeOK, LogFirst
    <3>5. \A x : Written(x)' <=> Written(x) \/ x = b
      BY <3>3 DEF Written
    <3>6. \A x : Came(x)' <=> Came(x)
      BY <3>1, <3>2, <3>5, Zenon DEF Came
    <3>7. PlaceInv'
      <4>1. \A k \in 1 .. Len(logged) : logged[k] # b
        BY Zenon DEF PlaceInv, Written
      <4>0. \A i, j \in 1 .. Len(logged) : i # j => logged[i] # logged[j]
        BY Zenon DEF PlaceInv
      <4>2. \A i, j \in 1 .. Len(logged') : i # j => logged'[i] # logged'[j]
        BY <3>3, <4>0, <4>1, AllDiffer
      <4> QED
        BY <3>1, <3>2, <3>5, <4>2, Zenon DEF PlaceInv
    <3>8. DoneInv'
      <4>1. \A n \in 1 .. b.id - 1 : \E k \in 1 .. Len(logged) : logged[k].id = n
        <5>1. \A n \in 1 .. b.id - 1 : n \in 1 .. done_
          BY <3>1, <3>2
        <5> QED
          BY <5>1, Zenon DEF DoneInv
      <4>2. ASSUME NEW n \in 1 .. done_' PROVE \E k \in 1 .. Len(logged') : logged'[k].id = n
        <5>1. n \in 1 .. done_ \/ n = b.id
          BY <3>1, <3>2
        <5>2. CASE n = b.id
          BY <3>3, <5>2
        <5>3. CASE n \in 1 .. done_
          <6>1. PICK k \in 1 .. Len(logged) : logged[k].id = n
            BY <5>3, Zenon DEF DoneInv
          <6> QED
            BY <3>3, <6>1
        <5> QED
          BY <5>1, <5>2, <5>3
      <4>3. ASSUME NEW k \in 1 .. Len(logged')
            PROVE  logged'[k].id <= done_' /\ \A n \in 1 .. logged'[k].id - 1 : \E i \in 1 .. k - 1 : logged'[i].id = n
        <5>1. CASE k \in 1 .. Len(logged)
          <6>1. logged[k].id <= done_ /\ \A n \in 1 .. logged[k].id - 1 : \E i \in 1 .. k - 1 : logged[i].id = n
            BY <5>1, Zenon DEF DoneInv
          <6>2. logged'[k] = logged[k] /\ \A i \in 1 .. k - 1 : logged'[i] = logged[i]
            BY <3>3, <5>1
          <6>3. logged[k].id \in Nat
            <7>1. logged[k] \in Messages
              BY <5>1 DEF RLogTypeOK
            <7> QED
              BY <7>1, RLogAssumption DEF Messages
          <6> QED
            BY <3>1, <3>2, <6>1, <6>2, <6>3
        <5>2. CASE k = Len(logged) + 1
          <6>1. logged'[k] = b /\ b.id <= done_' /\ k - 1 = Len(logged)
            <7>1. logged'[k] = b /\ k - 1 = Len(logged)
              BY <3>3, <5>2
            <7>2. b.id <= done_'
              BY <3>1, <3>2
            <7> QED
              BY <7>1, <7>2
          <6> QED
            BY <3>3, <4>1, <6>1, Zenon
        <5> QED
          BY <3>3, <4>3, <5>1, <5>2
      <4> QED
        BY <3>2, <4>2, <4>3, Zenon DEF DoneInv
    <3> QED
      BY <3>4, <3>6, <3>7, <3>8
  <2>4. ASSUME Unlock PROVE RLogTypeOK' /\ PlaceInv' /\ DoneInv' /\ \A x : Came(x)' <=> Came(x)
    <3>1. UNCHANGED << pool, done_, buffer_, logged, refused >> /\ l_' = FALSE
      BY <2>4 DEF Unlock
    <3>2. \A b \in buffer_ : (\A c \in buffer_ : b.id <= c.id) => b.id > done_ + 1
      <4>1. \A b \in buffer_ : (\A c \in buffer_ : b.id <= c.id) => ~(b.id <= done_ + 1)
        BY <2>4 DEF Unlock, Due
      <4>2. \A b \in buffer_ : b.id \in Nat /\ done_ \in Nat
        BY RLogAssumption DEF RLogTypeOK, Messages
      <4> QED
        BY <4>1, <4>2
    <3>3. \A b \in buffer_ : b.id > done_ + 1
      <4>1. ASSUME NEW b \in buffer_ PROVE b.id > done_ + 1
        <5> DEFINE I == {c.id : c \in buffer_}
        <5>1. I \subseteq Nat /\ b.id \in I /\ done_ \in Nat
          BY RLogAssumption DEF RLogTypeOK, Messages
        <5>2. PICK i \in I : \A j \in I : ~(<< j, i >> \in OpToRel(<, Nat))
          BY <5>1, NatLessThanWellFounded, WFMin, Zenon
        <5>3. \A j \in I : i <= j
          <6>0. I \subseteq Nat /\ i \in I
            BY <5>1, <5>2, Zenon
          <6> HIDE DEF I
          <6> SUFFICES ASSUME NEW j \in I, j < i PROVE FALSE
            BY <6>0
          <6>1. << j, i >> \in Nat \X Nat /\ << j, i >>[1] < << j, i >>[2]
            BY <6>0
          <6> QED
            BY <5>2, <6>1 DEF OpToRel
        <5>4. PICK c \in buffer_ : c.id = i
          OBVIOUS
        <5>5. c.id > done_ + 1
          BY <3>2, <5>3, <5>4
        <5>6. i <= b.id /\ i \in Nat /\ b.id \in Nat
          BY <5>1, <5>3
        <5> QED
          BY <5>1, <5>4, <5>5, <5>6
      <4> QED
        BY <4>1
    <3>4. RLogTypeOK'
      BY <2>1, <3>1, Zenon DEF RLogTypeOK
    <3>5. PlaceInv' /\ DoneInv' /\ \A x : Came(x)' <=> Came(x)
      BY <3>1, <3>3, ServiceSame, Zenon
    <3> QED
      BY <3>4, <3>5, Zenon
  <2> QED
    BY <2>1, <2>2, <2>3, <2>4, Zenon
<1>2. WireInv' /\ \A x : Sent(x)' <=> Sent(x)
  BY <1>1, WireSame, Zenon
<1>3. UpInv'
  BY <1>1, <1>2, Zenon DEF UpInv
<1> QED
  BY <1>1, <1>2, <1>3, Zenon

\* Every step of the process, the connections and the service keeps the invariant.
LEMMA LogNextInv == LogInv /\ [RLogNext]_rlogVars => LogInv'
<1> SUFFICES ASSUME LogInv, [RLogNext]_rlogVars PROVE LogInv'
  BY Zenon
<1>1. CASE UNCHANGED rlogVars
  <2>1. /\ cl_s' = cl_s /\ inits' = inits /\ msg_counter_s' = msg_counter_s /\ wire' = wire
        /\ pool' = pool /\ done_' = done_ /\ buffer_' = buffer_ /\ logged' = logged /\ refused' = refused /\ l_' = l_
    BY <1>1 DEF rlogVars, serviceVars
  <2>2. PlaceInv' /\ DoneInv' /\ \A m : Came(m)' <=> Came(m)
    BY <2>1, ServiceSame, Zenon DEF LogInv
  <2>3. WireInv' /\ \A m : Sent(m)' <=> Sent(m)
    BY <2>1, <2>2, WireSame, Zenon DEF LogInv
  <2>4. RLogTypeOK' /\ UpInv'
    BY <2>1, <2>2, <2>3, Zenon DEF LogInv, RLogTypeOK, UpInv
  <2> QED
    BY <2>2, <2>3, <2>4, Zenon DEF LogInv
<1> QED
  BY <1>1, ProcessKeeps, ArriveKeeps, VanishKeeps, ServiceKeeps, Zenon DEF RLogNext

\* The messages of a process are logged once and in the order of their numbers, and none
\* waits for one that was lost (RLogServiceImpl::log), for any sessions and messages.
THEOREM AlwaysInOrder == RLogSpec => []LoggedInOrder
  BY LogInitInv, LogNextInv, LogInvInOrder, PTL DEF RLogSpec
=============================================================================
