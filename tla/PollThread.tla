----------------------------- MODULE PollThread -----------------------------
(***************************************************************************)
(* rrr::PollMgr::PollThread (src/src/rpc/polling.{hpp,cpp}), built without  *)
(* DPDK and with epoll: other threads add, remove and re-arm Pollables     *)
(* while the poll loop waits, dispatches events and then drops what was    *)
(* removed.                                                                *)
(*                                                                         *)
(* Each Pollable has an owner (a client's user, a server's loop or, in a    *)
(* handler, the poll thread itself) that opens its socket, adds it,         *)
(* removes it and closes the socket, in that order and again if it likes,   *)
(* and at last releases it.  l_ and pending_remove_l_ make each of their    *)
(* critical sections one step.  The descriptor table and the epoll interest *)
(* list belong to the kernel and are external: a closed descriptor leaves   *)
(* the interest list by itself, and its number is used again.              *)
(***************************************************************************)
EXTENDS Naturals, FiniteSets

CONSTANTS
    Pollables,
    Fds,          \* descriptor numbers
    MaxOpens,     \* bound: sockets one Pollable opens
    EarlyUpdate,  \* whether update_mode may run while add is in progress
    none

Modes == {"READ", "READWRITE"}
Interest == [who : Pollables, mode : Modes]

ASSUME PollAssumption ==
    /\ MaxOpens \in Nat /\ EarlyUpdate \in BOOLEAN
    /\ none \notin Pollables \cup Fds \cup Modes /\ none \notin Interest

VARIABLES
    owner,     \* where the owner of each Pollable is
    opens,     \* sockets it has opened
    fd,        \* fd(): the number of its last socket
    refs,      \* refcnt_
    table,     \* kernel: which Pollable's socket a descriptor number stands for
    ep,        \* kernel: the interest list, [who, mode] or none for each number
    poll_set,  \* poll_set_
    mode,      \* mode_, none for a number that is not in it
    pending,   \* pending_remove_
    phase,     \* where the poll loop is
    evlist,    \* the events it has still to dispatch
    dropping,  \* remove_poll, what is left of it
    stop_flag, \* stop_flag_
    failed     \* a verify() did not hold

ownerVars == << owner, opens, fd >>
loopVars == << phase, evlist, dropping, stop_flag >>
vars == << ownerVars, refs, table, ep, poll_set, mode, pending, loopVars, failed >>

TypeOK ==
    /\ owner \in [Pollables -> {"closed", "open", "adding", "added", "erased", "removed", "gone"}]
    /\ opens \in [Pollables -> 0 .. MaxOpens]
    /\ fd \in [Pollables -> Fds \cup {none}]
    /\ refs \in [Pollables -> Nat]
    /\ table \in [Fds -> Pollables \cup {none}]
    /\ ep \in [Fds -> Interest \cup {none}]
    /\ poll_set \subseteq Pollables /\ pending \subseteq Pollables
    /\ mode \in [Fds -> Modes \cup {none}]
    /\ phase \in {"wait", "dispatch", "drop", "exited"}
    /\ evlist \subseteq Pollables /\ dropping \subseteq Pollables
    /\ stop_flag \in BOOLEAN /\ failed \in BOOLEAN

Init ==
    /\ owner = [p \in Pollables |-> "closed"]
    /\ opens = [p \in Pollables |-> 0]
    /\ fd = [p \in Pollables |-> none]
    /\ refs = [p \in Pollables |-> 1]
    /\ table = [f \in Fds |-> none] /\ ep = [f \in Fds |-> none]
    /\ poll_set = {} /\ mode = [f \in Fds |-> none] /\ pending = {}
    /\ phase = "wait" /\ evlist = {} /\ dropping = {}
    /\ stop_flag = FALSE /\ failed = FALSE

-----------------------------------------------------------------------------
(* The owners *)

\* socket() or accept(), with any number that is free.
Open(p) ==
    /\ owner[p] = "closed" /\ opens[p] < MaxOpens
    /\ \E f \in Fds :
          /\ table[f] = none
          /\ table' = [table EXCEPT ![f] = p]
          /\ fd' = [fd EXCEPT ![p] = f]
    /\ owner' = [owner EXCEPT ![p] = "open"]
    /\ opens' = [opens EXCEPT ![p] = @ + 1]
    /\ UNCHANGED << refs, ep, poll_set, mode, pending, loopVars, failed >>

\* add: the reference, then poll_set_ and mode_ under l_ ...
Add(p) ==
    /\ owner[p] = "open" /\ ~stop_flag
    /\ owner' = [owner EXCEPT ![p] = "adding"]
    /\ refs' = [refs EXCEPT ![p] = @ + 1]
    /\ failed' = (failed \/ p \in poll_set \/ mode[fd[p]] # none)
    /\ poll_set' = poll_set \cup {p}
    /\ \E m \in Modes : mode' = [mode EXCEPT ![fd[p]] = m]
    /\ UNCHANGED << opens, fd, table, ep, pending, loopVars >>

\* ... and, outside it, EPOLL_CTL_ADD with the mode read before.
AddCtl(p) ==
    /\ owner[p] = "adding"
    /\ owner' = [owner EXCEPT ![p] = "added"]
    /\ ep' = [ep EXCEPT ![fd[p]] = [who |-> p, mode |-> mode[fd[p]]]]
    /\ UNCHANGED << opens, fd, refs, table, poll_set, mode, pending, loopVars, failed >>

\* update_mode, by any thread that uses p: EPOLL_CTL_MOD, verified, on a change.
UpdateMode(p, m) ==
    /\ owner[p] \notin {"closed", "gone"} /\ ~stop_flag
    /\ owner[p] = "adding" => EarlyUpdate
    /\ p \in poll_set /\ mode[fd[p]] # m
    /\ mode' = [mode EXCEPT ![fd[p]] = m]
    /\ failed' = (failed \/ ep[fd[p]] = none)
    /\ ep' = [ep EXCEPT ![fd[p]] = IF @ = none THEN none ELSE [who |-> p, mode |-> m]]
    /\ UNCHANGED << ownerVars, refs, table, poll_set, pending, loopVars >>

\* Fault: mode_ keeps the number.
EraseHalf(p) ==
    /\ owner[p] = "added" /\ ~stop_flag
    /\ owner' = [owner EXCEPT ![p] = "erased"]
    /\ poll_set' = poll_set \ {p}
    /\ UNCHANGED << opens, fd, refs, table, ep, mode, pending, loopVars, failed >>

\* remove: poll_set_ and mode_ under l_ ...
Erase(p) ==
    /\ owner[p] = "added" /\ ~stop_flag
    /\ owner' = [owner EXCEPT ![p] = "erased"]
    /\ poll_set' = poll_set \ {p}
    /\ mode' = [mode EXCEPT ![fd[p]] = none]
    /\ UNCHANGED << opens, fd, refs, table, ep, pending, loopVars, failed >>

\* Fault: the removal is not queued.
RemoveForgotten(p) ==
    /\ owner[p] = "erased"
    /\ owner' = [owner EXCEPT ![p] = "removed"]
    /\ UNCHANGED << opens, fd, refs, table, ep, poll_set, mode, pending, loopVars, failed >>

\* ... then pending_remove_ under pending_remove_l_.
Remove(p) ==
    /\ owner[p] = "erased"
    /\ owner' = [owner EXCEPT ![p] = "removed"]
    /\ pending' = pending \cup {p}
    /\ UNCHANGED << opens, fd, refs, table, ep, poll_set, mode, loopVars, failed >>

\* ::close: the number is free, the interest list forgets it; fd() stays.
CloseFd(p) ==
    /\ owner[p] = "removed"
    /\ owner' = [owner EXCEPT ![p] = "closed"]
    /\ table' = [table EXCEPT ![fd[p]] = none]
    /\ ep' = [ep EXCEPT ![fd[p]] = none]
    /\ UNCHANGED << opens, fd, refs, poll_set, mode, pending, loopVars, failed >>

\* The owner's own reference, at the end.
Release(p) ==
    /\ owner[p] = "closed"
    /\ owner' = [owner EXCEPT ![p] = "gone"]
    /\ refs' = [refs EXCEPT ![p] = @ - 1]
    /\ UNCHANGED << opens, fd, table, ep, poll_set, mode, pending, loopVars, failed >>

-----------------------------------------------------------------------------
(* poll_loop *)

\* epoll_wait returns events of some registered sockets, or none.
EpollWait ==
    /\ phase = "wait" /\ ~stop_flag
    /\ \E ev \in SUBSET {ep[f].who : f \in {g \in Fds : ep[g] # none}} : evlist' = ev
    /\ phase' = "dispatch"
    /\ UNCHANGED << ownerVars, refs, table, ep, poll_set, mode, pending, dropping, stop_flag, failed >>

\* handle_read, handle_write and handle_error of one Pollable.
Dispatch(p) ==
    /\ phase = "dispatch" /\ p \in evlist
    /\ evlist' = evlist \ {p}
    /\ UNCHANGED << ownerVars, refs, table, ep, poll_set, mode, pending, phase, dropping, stop_flag, failed >>

\* Fault: what is removed during the events is dropped while some are left.
TakeRemovedEarly ==
    /\ phase = "dispatch"
    /\ dropping' = pending /\ pending' = {}
    /\ phase' = "drop"
    /\ UNCHANGED << ownerVars, refs, table, ep, poll_set, mode, evlist, stop_flag, failed >>

\* "after each poll loop, remove uninterested pollables"
TakeRemoved ==
    /\ phase = "dispatch" /\ evlist = {}
    /\ dropping' = pending /\ pending' = {}
    /\ phase' = "drop"
    /\ UNCHANGED << ownerVars, refs, table, ep, poll_set, mode, evlist, stop_flag, failed >>

\* Fault: EPOLL_CTL_DEL though the number is in use again.
DropAlways(p) ==
    /\ phase = "drop" /\ p \in dropping
    /\ dropping' = dropping \ {p}
    /\ ep' = [ep EXCEPT ![fd[p]] = none]
    /\ refs' = [refs EXCEPT ![p] = @ - 1]
    /\ UNCHANGED << ownerVars, table, poll_set, mode, pending, phase, evlist, stop_flag, failed >>

\* EPOLL_CTL_DEL, "only ... when it is not immediately added again"; release().
Drop(p) ==
    /\ phase = "drop" /\ p \in dropping
    /\ dropping' = dropping \ {p}
    /\ ep' = IF mode[fd[p]] = none THEN [ep EXCEPT ![fd[p]] = none] ELSE ep
    /\ refs' = [refs EXCEPT ![p] = @ - 1]
    /\ UNCHANGED << ownerVars, table, poll_set, mode, pending, phase, evlist, stop_flag, failed >>

Again ==
    /\ phase = "drop" /\ dropping = {}
    /\ phase' = "wait"
    /\ UNCHANGED << ownerVars, refs, table, ep, poll_set, mode, pending, evlist, dropping, stop_flag, failed >>

\* PollMgr::stop_threads, called by ~PollMgr, when nobody uses the manager any
\* more: no call of it is in progress and none follows.
Stop ==
    /\ ~stop_flag
    /\ \A p \in Pollables : owner[p] \notin {"adding", "erased"}
    /\ stop_flag' = TRUE
    /\ UNCHANGED << ownerVars, refs, table, ep, poll_set, mode, pending, phase, evlist, dropping, failed >>

\* The end of the loop.  ~PollMgr deletes the array of pointers and not
\* the PollThreads, so ~PollThread does not run.
Exit ==
    /\ phase = "wait" /\ stop_flag
    /\ phase' = "exited"
    /\ UNCHANGED << ownerVars, refs, table, ep, poll_set, mode, pending, evlist, dropping, stop_flag, failed >>

-----------------------------------------------------------------------------
Owner(p) ==
    \/ Open(p) \/ Add(p) \/ AddCtl(p) \/ Erase(p) \/ Remove(p) \/ CloseFd(p) \/ Release(p)
    \/ \E m \in Modes : UpdateMode(p, m)

Loop == EpollWait \/ TakeRemoved \/ Again \/ Exit \/ (\E p \in Pollables : Dispatch(p) \/ Drop(p))

Next == Loop \/ Stop \/ (\E p \in Pollables : Owner(p))

\* The poll thread runs; epoll_wait returns after a millisecond at most.
Spec == Init /\ [][Next]_vars
FairSpec == Spec /\ WF_vars(Loop)

-----------------------------------------------------------------------------
(* Properties *)

\* The loop never calls into, and never releases, a Pollable that is destroyed,
\* though others remove and release it while its event waits in evlist, and the
\* pointer stays in the kernel's interest list.
TouchesAlive ==
    /\ TypeOK /\ \A p \in evlist \cup dropping : refs[p] > 0
    /\ \A f \in Fds : ep[f] # none => refs[ep[f].who] > 0

\* The kernel watches what mode_ says: outside add() every number in mode_ is in
\* the interest list with that mode and for the Pollable whose socket it is, even
\* when the number belonged to a Pollable whose removal is still in progress.
InterestMatchesMode ==
    \A f \in Fds : mode[f] # none =>
        \E p \in Pollables :
            /\ table[f] = p
            /\ owner[p] # "adding" => ep[f] = [who |-> p, mode |-> mode[f]]

\* The verify()s of add() and update_mode() hold: a number is never registered
\* twice, and epoll_ctl finds the number it is to change.
NoVerifyFails == ~failed

\* A Pollable that was added once, removed and released by its owner is destroyed:
\* the loop gives back the reference add() took, unless the manager is stopped
\* first.  (One that is removed again before the loop has dropped it, which only a
\* reconnecting client can do, keeps a reference: pending_remove_ is a set.)
RemovedDestroyed ==
    \A p \in Pollables : owner[p] = "gone" /\ opens[p] <= 1 ~> (refs[p] = 0 \/ stop_flag)
=============================================================================
