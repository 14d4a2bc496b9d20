--------------------------------- MODULE FD ---------------------------------
(***************************************************************************)
(* A network connection's poll.FD (src/src/internal/poll/fd_unix.go): Read *)
(* and Write, SetDeadline, other calls and Close, by fdMutex and the       *)
(* network poller together.  A call of Read or Write takes the lock of its *)
(* mode, resets the pollDesc, and tries the system call, waiting for the   *)
(* poller as often as needed.  When fd is destroyed its pollDesc goes to   *)
(* the next FD, which is followed from then on: what is left of the old    *)
(* one's timers and events may still turn up.                              *)
(***************************************************************************)
EXTENDS FdMutex, NetPoll

VARIABLES
  csema,  \* fd.csema, "signaled when file is closed"
  sysfd   \* fd.Sysfd is a file descriptor, not -1

fdVars == <<fdmuVars, pdVars, csema, sysfd>>

FDInit == FdMutexInit /\ PollInit /\ csema = 0 /\ sysfd = TRUE

KeepFd == UNCHANGED <<csema, sysfd>>

-----------------------------------------------------------------------------
(* The calls before and after they have a reference.                       *)
Enter(g, used) ==
  /\ \/ incref(g) \/ increfAndClose(g) \/ Semacquire(g) \/ Semrelease(g)
     \/ \E m \in used : rwlockClosed(g, m) \/ rwlockFree(g, m) \/ rwlockWait(g, m)
  /\ KeepFd /\ UNCHANGED pdVars

(* Read and Write, and setDeadlineImpl, while they have one.               *)
ReadWrite(g) ==
  /\ fpc[g] = "use" /\ role[g] \in Mode
  /\ IOStep(g, role[g])
  /\ KeepFd /\ UNCHANGED fdmuVars

SetDeadline(g, d, M) ==
  /\ fpc[g] = "use" /\ role[g] = "misc"
  /\ pollSetDeadline(g, d, M)
  /\ KeepFd /\ UNCHANGED fdmuVars

(* pollSetDeadline on a descriptor that is closing.                        *)
SetDeadlineClosing(g) ==
  /\ fpc[g] = "use" /\ role[g] = "misc"
  /\ NGoto(g, "idle", "done") /\ lock = None /\ closing
  /\ KeepLocked /\ KeepKernel /\ KeepFd /\ UNCHANGED <<fdmuVars, gate, netpollWaiters>>

(* fd.pd.evict() of Close.                                                 *)
Evict(g) ==
  /\ fpc[g] = "evict"
  /\ pollUnblock(g)
  /\ KeepFd /\ UNCHANGED fdmuVars

(* g drops its reference: readUnlock or writeUnlock, decref of the others, *)
(* and that of Close, which then waits for csema.                          *)
Leave(g) ==
  /\ \/ npc[g] \in {"idle", "done"} /\ rwunlock(g)
     \/ npc[g] \in {"idle", "done"} /\ role[g] = "misc" /\ decref(g, {"use"}, "idle")
     \/ npc[g] = "done" /\ role[g] = "close" /\ decref(g, {"evict"}, "csema")
  /\ npc' = [npc EXCEPT ![g] = "idle"]
  /\ KeepLocked /\ KeepKernel /\ KeepFd /\ UNCHANGED <<gate, netpollWaiters>>

(* fd.destroy(): fd.pd.close(), CloseFunc, Sysfd = -1, Semrelease(csema).  *)
destroy(g) ==
  /\ FGoto(g, {"destroy"}, IF role[g] = "close" THEN "csema" ELSE "idle")
  /\ pollClose
  /\ sysfd' = FALSE
  /\ csema' = csema + 1
  /\ KeepOwed /\ UNCHANGED <<fdmu, rwsema>>

(* The end of Close.                                                       *)
Closed(g) ==
  /\ csema > 0 /\ csema' = csema - 1
  /\ FGoto(g, {"csema"}, "idle")
  /\ KeepOwed /\ UNCHANGED <<fdmu, rwsema, sysfd, pdVars>>

(* The calls on the old FD have returned, and a new one gets the pollDesc. *)
Open(n) ==
  /\ ~sysfd /\ \A g \in G : fpc[g] = "idle"
  /\ \A m \in Mode : seq[m] < n
  /\ pollOpen
  /\ fdmu' = [fdmu EXCEPT !.closed = FALSE]
  /\ sysfd' = TRUE
  /\ UNCHANGED <<rwsema, role, fpc, owe, next, csema>>

-----------------------------------------------------------------------------
(* Calls in the modes of used, with the bound n on the seqs.               *)
CallStep(g, used, n) ==
  \/ Enter(g, used) \/ ReadWrite(g) \/ SetDeadlineClosing(g) \/ Evict(g) \/ Leave(g)
  \/ destroy(g) \/ Closed(g)
  \/ /\ \A m \in Mode : seq[m] < n
     /\ \E d \in Deadline \cup {0, -1}, M \in SUBSET used \ {{}} : SetDeadline(g, d, M)

RuntimeStep(used) ==
  /\ \/ PollerStep
     \/ \E m \in Mode : Fire(m)
     \/ sysfd /\ \E m \in used : Arrive({m}, FALSE)
     \/ sysfd /\ Arrive(Mode, TRUE)
  /\ KeepFd /\ UNCHANGED fdmuVars

FDNextWith(used, n) == (\E g \in G : CallStep(g, used, n)) \/ RuntimeStep(used) \/ Open(n)

FDNext == FDNextWith(Mode, MaxSeq)

FDSpec == FDInit /\ [][FDNext]_fdVars

-----------------------------------------------------------------------------
(* Who uses the lock of m, who sleeps for it, the tokens that are still to *)
(* be released to the sleepers, and who destroys fd.                       *)
Users(m) == {g \in G : fpc[g] = "use" /\ role[g] = m}
Sleepers(m) == {g \in G : fpc[g] = "sleep" /\ role[g] = m}
Owed(m) == UNION {{<<g, n>> : n \in 1..owe[g][m]} : g \in G}
Destroyers == {g \in G : fpc[g] = "destroy" \/ next[g] = "destroy"}

(* The word of fdMutex tells who uses fd: a reference for each call, the   *)
(* locks, and the sleepers who have not been promised a token.  So Close   *)
(* finds them all, and fd is destroyed by one call, after the last one.    *)
RefsCounted == fdmu.refs = Cardinality({g \in G : Holds(g)})

LocksCounted ==
  \A m \in Mode : Cardinality(Users(m)) = IF m \in fdmu.locked THEN 1 ELSE 0

SleepersCounted ==
  /\ fdmu.closed => fdmu.wait = Nobody
  /\ \A m \in Mode :
       Cardinality(Sleepers(m)) = fdmu.wait[m] + rwsema[m] + Cardinality(Owed(m))

DestroyedOnce ==
  Cardinality(Destroyers) + (IF sysfd THEN 0 ELSE 1) = IF NoReference(fdmu) THEN 1 ELSE 0

FdMutexInv ==
  FdMutexTypeOK /\ CallsFit /\ RefsCounted /\ LocksCounted /\ SleepersCounted /\ DestroyedOnce

(* Which calls are at which step of the poller, and who has pd.lock.       *)
PollCallsFit ==
  \A g \in G :
    /\ npc[g] \in IOPC => fpc[g] = "use" /\ role[g] \in Mode
    /\ npc[g] = "unblock" <=> lock = g
    /\ npc[g] = "unblock" => fpc[g] = "evict" \/ (fpc[g] = "use" /\ role[g] = "misc")
    /\ npc[g] # "idle" => fpc[g] \in {"use", "evict"}

(* A gate belongs to the one call that has the lock of its mode.           *)
GatesFit ==
  /\ \A m \in Mode :
       /\ gate[m] = "wait" =>
            \E g \in G : role[g] = m /\ npc[g] \in {"recheck", "commit", "swap"}
       /\ gate[m] \in G => npc[gate[m]] = "parked" /\ role[gate[m]] = m
  /\ \A g \in G : npc[g] = "parked" => gate[role[g]] = g

(* The pollDesc is closing from evict, which one Close reaches, until it   *)
(* is used again.                                                          *)
Closes(g) == fpc[g] = "evict" \/ next[g] = "evict"

ClosingFits ==
  /\ \A g, h \in G : Closes(g) /\ Closes(h) => g = h
  /\ \A g \in G : Closes(g) => fdmu.closed
  /\ closing <=> fdmu.closed /\ \A g \in G : Closes(g) => npc[g] # "idle"

(* The timers are those that the deadlines want; one that is not armed has *)
(* gone off, and its call is waiting for the lock.  Calls with another seq *)
(* are old ones.                                                           *)
TimersFit ==
  \A m \in Mode :
    /\ pdtimer[m].f <=> ~closing /\ Wants(deadline, m)
    /\ pdtimer[m].armed => pdtimer[m].f
    /\ pdtimer[m].f =>
         /\ pdtimer[m].seq = seq[m]
         /\ pdtimer[m].combo <=> m = "r" /\ Combo(deadline)
         /\ pdtimer[m].armed \/ [mode |-> m, combo |-> pdtimer[m].combo, seq |-> seq[m]] \in fired

FiredFit ==
  \A c \in fired :
    /\ c.seq <= seq[c.mode]
    /\ ~Stale(c) => /\ pdtimer[c.mode].f /\ ~pdtimer[c.mode].armed
                    /\ pdtimer[c.mode].combo = c.combo

(* What is left to do for the holder of the lock and for netpoll.          *)
WorkFits ==
  /\ lock = None <=> pending = {}
  /\ poller.stage = "wait" => poller.modes = {}
  /\ poller.stage = "event" /\ poller.err => poller.modes = Mode
  /\ event.err => event.modes = Mode

(* A call that found nothing to read or write gets to know when there is;  *)
(* one that has checked for errors for the last time is told of new ones.  *)
Committed(g) == npc[g] = "parked" \/ (npc[g] = "commit" /\ gate[role[g]] = "wait")

NothingMissed ==
  \A g \in G, m \in Mode :
    role[g] = m =>
      /\ npc[g] \in IOPC \ {"reset", "io"} /\ gate[m] # "ready" /\ data[m] =>
           m \in event.modes \cup poller.modes
      /\ Committed(g) =>
           /\ closing \/ deadline[m] < 0 => m \in pending
           /\ m = "r" /\ everr => m \in poller.modes

(* The inductive invariant of FD.                                          *)
FDInv ==
  /\ FdMutexInv /\ sysfd \in BOOLEAN /\ PollTypeOK
  /\ PollCallsFit /\ GatesFit /\ ClosingFits
  /\ TimersFit /\ FiredFit /\ WorkFits /\ NothingMissed

(* The poller does not throw: no "double wait", "corrupted polldesc" or    *)
(* "inconsistent deadline", no "blocked read" or "write" on a pollDesc     *)
(* that is closed or free, no close without unblock or unblock twice.      *)
Unused == \A m \in Mode : gate[m] \in {None, "ready"}

NoThrow ==
  /\ \A g \in G :
       /\ npc[g] = "block" => gate[role[g]] \in {None, "ready"}
       /\ npc[g] = "swap" => gate[role[g]] \notin G
       /\ fpc[g] = "evict" /\ npc[g] = "idle" => ~closing
       /\ fpc[g] = "destroy" => closing /\ Unused
  /\ ~sysfd => Unused
  /\ \A c \in fired :
       lock = None /\ ~Stale(c) => pdtimer[c.mode].f /\ \A m \in Expires(c) : deadline[m] > 0

(* Nobody is left parked: when fd is closing, the deadline has passed or   *)
(* there is something to read or write, then whoever has to wake the       *)
(* goroutine is on the way; and a deadline in the future has its timer.    *)
WokenInTime ==
  \A m \in Mode :
    /\ gate[m] \in G =>
         /\ closing \/ deadline[m] < 0 => m \in pending
         /\ data[m] \/ (m = "r" /\ everr) => m \in event.modes \cup poller.modes
    /\ deadline[m] > 0 /\ ~closing =>
         \E n \in Mode :
           /\ m = n \/ pdtimer[n].combo
           /\ pdtimer[n].f /\ pdtimer[n].seq = seq[n]
           /\ pdtimer[n].armed \/ [mode |-> n, combo |-> pdtimer[n].combo, seq |-> seq[n]] \in fired

=============================================================================
