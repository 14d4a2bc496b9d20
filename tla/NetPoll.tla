------------------------------ MODULE NetPoll ------------------------------
(***************************************************************************)
(* The network poller (src/src/runtime/netpoll.go, netpoll_epoll.go) on    *)
(* one pollDesc, which is freed and used again.  Its callers are those of  *)
(* module FD.                                                              *)
(*                                                                         *)
(* An action is one access to what others use without pd.lock (closing,    *)
(* everr, rd, wd, rg, wg), together with what is protected by the lock.    *)
(* Within one critical section rd is stored with wd, and with closing the  *)
(* timers are deleted: a reader looks only at rd and rg, a writer only at  *)
(* wd and wg, and the timers need the lock.  goready follows the swap of   *)
(* rg or wg at once: all it could do later is keep the goroutine waiting.  *)
(* A timer goes off any time after it was set.                             *)
(***************************************************************************)
EXTENDS Integers, Goroutines

CONSTANTS
  Deadline,  \* the points in time that are used as deadlines: positive
  MaxSeq,    \* bound: no deadline is set, and nothing opened, after this seq
  MaxEvents  \* bound: the descriptor gets ready this many times

VARIABLES
  lock,      \* the holder of pd.lock: a goroutine, "timer" or None
  pending,   \* the modes that the holder has still to unblock
  closing, everr,
  seq,       \* seq[m]: rseq, wseq
  gate,      \* gate[m]: rg, wg
  deadline,  \* deadline[m]: rd, wd
  pdtimer,   \* timer[m]: rt, wt
  fired,     \* the timer functions that have been called but do not have the lock
  netpollWaiters,
  poller,    \* the event that netpoll works on
  event,     \* external: the event that epoll has ready for netpoll
  arrivals,  \* the number of times that the descriptor got ready
  data,      \* external: data[m]: can the system call be done without blocking?
  npc        \* the next step of each goroutine

pdVars == <<lock, pending, closing, everr, seq, gate, deadline, pdtimer, fired,
            netpollWaiters, poller, event, arrivals, data, npc>>

Modes == {"r", "w"}

(* The values of lock and gate that are no goroutines are different ones.  *)
ASSUME GateAssumption ==
  /\ G \cap {"timer", "ready", "wait"} = {}
  /\ None \notin {"timer", "ready", "wait"}
ASSUME DeadlineAssumption == Deadline \subseteq Nat \ {0}

(* A timer: is f set, is it in a heap, its seq, and is f netpollDeadline?  *)
NoTimer == [f |-> FALSE, armed |-> FALSE, seq |-> 0, combo |-> FALSE]
NoEvent == [modes |-> {}, err |-> FALSE]

(* The steps of a call of Read or Write, and of a caller of the poller.    *)
IOPC == {"reset", "io", "wait", "block", "recheck", "commit", "parked", "swap"}
NPC == {"idle", "done", "unblock"} \cup IOPC

PollTypeOK ==
  /\ lock \in G \cup {"timer", None}
  /\ pending \in SUBSET Modes
  /\ closing \in BOOLEAN /\ everr \in BOOLEAN
  /\ seq \in [Modes -> Nat]
  /\ gate \in [Modes -> G \cup {None, "ready", "wait"}]
  /\ deadline \in [Modes -> Int]
  /\ pdtimer \in [Modes -> [f : BOOLEAN, armed : BOOLEAN, seq : Nat, combo : BOOLEAN]]
  /\ fired \in SUBSET [mode : Modes, combo : BOOLEAN, seq : Nat]
  /\ netpollWaiters \in Int
  /\ poller \in [stage : {"wait", "event", "ready"}, modes : SUBSET Modes, err : BOOLEAN]
  /\ event \in [modes : SUBSET Modes, err : BOOLEAN]
  /\ arrivals \in Nat
  /\ data \in [Modes -> BOOLEAN]
  /\ npc \in [G -> NPC]

PollInit ==
  /\ lock = None /\ pending = {}
  /\ closing = FALSE /\ everr = FALSE
  /\ seq = [m \in Modes |-> 1]
  /\ gate = [m \in Modes |-> None]
  /\ deadline = [m \in Modes |-> 0]
  /\ pdtimer = [m \in Modes |-> NoTimer]
  /\ fired = {}
  /\ netpollWaiters = 0
  /\ poller = [stage |-> "wait", modes |-> {}, err |-> FALSE]
  /\ event = NoEvent /\ arrivals = 0
  /\ data = [m \in Modes |-> FALSE]
  /\ npc = [g \in G |-> "idle"]

-----------------------------------------------------------------------------
NGoto(g, from, to) ==
  /\ npc[g] = from
  /\ npc' = [npc EXCEPT ![g] = to]

KeepLocked == UNCHANGED <<lock, pending, closing, seq, deadline, pdtimer, fired>>
KeepKernel == UNCHANGED <<poller, event, arrivals, data, everr>>

netpollcheckerr(m) == closing \/ deadline[m] < 0 \/ (m = "r" /\ everr)

-----------------------------------------------------------------------------
(* A goroutine that reads (m = "r") or writes.                             *)

CheckErr(g, m, from, ok) ==
  /\ NGoto(g, from, IF netpollcheckerr(m) THEN "done" ELSE ok)
  /\ KeepLocked /\ KeepKernel /\ UNCHANGED <<gate, netpollWaiters>>

(* pollReset: first the check, then rg = 0.                                *)
pollReset(g, m) == CheckErr(g, m, "idle", "reset")

Reset(g, m) ==
  /\ NGoto(g, "reset", "io")
  /\ gate' = [gate EXCEPT ![m] = None]
  /\ KeepLocked /\ KeepKernel /\ UNCHANGED netpollWaiters

(* The system call: it is done, or it would block.                         *)
Syscall(g, m) ==
  /\ NGoto(g, "io", IF data[m] THEN "done" ELSE "wait")
  /\ \E left \in BOOLEAN : data' = [data EXCEPT ![m] = @ /\ left]
  /\ KeepLocked /\ UNCHANGED <<gate, netpollWaiters, poller, event, arrivals, everr>>

(* pollWait and its loop around netpollblock.                              *)
pollWait(g, m) == CheckErr(g, m, "wait", "block")

(* Is there a notification?  If not, rg = pdWait.                          *)
netpollblock(g, m) ==
  /\ gate[m] \in {None, "ready"}
  /\ NGoto(g, "block", IF gate[m] = "ready" THEN "io" ELSE "recheck")
  /\ gate' = [gate EXCEPT ![m] = IF @ = "ready" THEN None ELSE "wait"]
  /\ KeepLocked /\ KeepKernel /\ UNCHANGED netpollWaiters

(* Mutant of Recheck: errors that came up since pollWait are overlooked.   *)
RecheckNot(g, m) ==
  /\ NGoto(g, "recheck", "commit")
  /\ KeepLocked /\ KeepKernel /\ UNCHANGED <<gate, netpollWaiters>>

Recheck(g, m) ==
  /\ NGoto(g, "recheck", IF netpollcheckerr(m) THEN "swap" ELSE "commit")
  /\ KeepLocked /\ KeepKernel /\ UNCHANGED <<gate, netpollWaiters>>

(* g parks, if nobody has changed pdWait in the meantime.                  *)
netpollblockcommit(g, m) ==
  LET ok == gate[m] = "wait" IN
  /\ NGoto(g, "commit", IF ok THEN "parked" ELSE "swap")
  /\ gate' = IF ok THEN [gate EXCEPT ![m] = g] ELSE gate
  /\ netpollWaiters' = netpollWaiters + (IF ok THEN 1 ELSE 0)
  /\ KeepLocked /\ KeepKernel

(* old = Xchg(rg, 0), and pollWait's next round if it is not pdReady.      *)
Swap(g, m) ==
  /\ gate[m] \in {None, "ready", "wait"}
  /\ NGoto(g, "swap", IF gate[m] = "ready" THEN "io" ELSE "wait")
  /\ gate' = [gate EXCEPT ![m] = None]
  /\ KeepLocked /\ KeepKernel /\ UNCHANGED netpollWaiters

IOStep(g, m) ==
  \/ pollReset(g, m) \/ Reset(g, m) \/ Syscall(g, m) \/ pollWait(g, m)
  \/ netpollblock(g, m) \/ Recheck(g, m) \/ netpollblockcommit(g, m) \/ Swap(g, m)

-----------------------------------------------------------------------------
(* netpollunblock(pd, m, ioready), and the goroutine it returns is ready.  *)
(* pc is npc, or what the caller has made of it.                           *)

Wakes(m) == gate[m] \in G

Unblocked(pc, m) == IF Wakes(m) THEN [pc EXCEPT ![gate[m]] = "swap"] ELSE pc

GateUnblocked(m, ioready) ==
  [gate EXCEPT ![m] = IF ioready THEN "ready" ELSE IF @ = "ready" THEN "ready" ELSE None]

(* The critical section begins with n to unblock, or is over at once.      *)
Begin(holder, n) ==
  /\ lock = None
  /\ lock' = IF n = {} THEN None ELSE holder
  /\ pending' = n

(* The holder unblocks the reader first; netpollgoready counts.            *)
netpollunblock ==
  LET m == IF "r" \in pending THEN "r" ELSE "w"
      n == pending \ {m}
      last == n = {} /\ lock \in G
  IN
  /\ lock # None
  /\ gate' = GateUnblocked(m, FALSE)
  /\ npc' = Unblocked(IF last THEN [npc EXCEPT ![lock] = "done"] ELSE npc, m)
  /\ netpollWaiters' = netpollWaiters - (IF Wakes(m) THEN 1 ELSE 0)
  /\ pending' = n
  /\ lock' = IF n = {} THEN None ELSE lock
  /\ KeepKernel /\ UNCHANGED <<closing, seq, deadline, pdtimer, fired>>

(* The timers and seqs after a change of the deadlines from old to new.    *)
Combo(d) == d["r"] > 0 /\ d["r"] = d["w"]

Wants(d, m) == d[m] > 0 /\ (m = "w" => ~Combo(d))

Retimed(old, new, m) ==
  LET t == pdtimer[m]
      changed == t.f /\ (new[m] # old[m] \/ Combo(new) # Combo(old))
      s == seq[m] + (IF changed THEN 1 ELSE 0)
  IN
  [seq |-> s,
   timer |-> IF t.f /\ ~changed THEN t
             ELSE IF Wants(new, m)
             THEN [f |-> TRUE, armed |-> TRUE, seq |-> s, combo |-> m = "r" /\ Combo(new)]
             ELSE NoTimer]

(* pollSetDeadline for the modes M: d is a point in time, 0 or in the past *)
(* (-1).                                                                   *)
pollSetDeadline(g, d, M) ==
  LET new == [m \in Modes |-> IF m \in M THEN d ELSE deadline[m]]
      past == {m \in Modes : new[m] < 0}
  IN
  /\ ~closing
  /\ NGoto(g, "idle", IF past = {} THEN "done" ELSE "unblock")
  /\ Begin(g, past)
  /\ deadline' = new
  /\ seq' = [m \in Modes |-> Retimed(deadline, new, m).seq]
  /\ pdtimer' = [m \in Modes |-> Retimed(deadline, new, m).timer]
  /\ KeepKernel /\ UNCHANGED <<closing, fired, gate, netpollWaiters>>

(* pollUnblock, for Close.                                                 *)
pollUnblock(g) ==
  /\ NGoto(g, "idle", "unblock")
  /\ Begin(g, Modes)
  /\ closing' = TRUE
  /\ seq' = [m \in Modes |-> seq[m] + 1]
  /\ pdtimer' = [m \in Modes |-> NoTimer]
  /\ KeepKernel /\ UNCHANGED <<fired, deadline, gate, netpollWaiters>>

-----------------------------------------------------------------------------
(* The timers: one goes off and its function is called, ...                *)
Fire(m) ==
  /\ pdtimer[m].armed
  /\ pdtimer' = [pdtimer EXCEPT ![m].armed = FALSE]
  /\ fired' = fired \cup {[mode |-> m, combo |-> pdtimer[m].combo, seq |-> pdtimer[m].seq]}
  /\ KeepKernel /\ UNCHANGED <<lock, pending, closing, seq, deadline, gate, netpollWaiters, npc>>

(* ... which is netpolldeadlineimpl.                                       *)
Expires(c) == IF c.combo THEN Modes ELSE {c.mode}

Stale(c) == c.seq # seq[c.mode]

netpolldeadlineimpl(c) ==
  /\ lock = None
  /\ fired' = fired \ {c}
  /\ IF Stale(c) THEN UNCHANGED <<lock, pending, deadline, pdtimer>>
     ELSE /\ Begin("timer", Expires(c))
          /\ deadline' = [m \in Modes |-> IF m \in Expires(c) THEN -1 ELSE deadline[m]]
          /\ pdtimer' = [m \in Modes |-> IF m \in Expires(c) THEN [pdtimer[m] EXCEPT !.f = FALSE] ELSE pdtimer[m]]
  /\ KeepKernel /\ UNCHANGED <<closing, seq, gate, netpollWaiters, npc>>

-----------------------------------------------------------------------------
(* netpoll: epollwait has returned an event, ...                           *)
epollwait ==
  /\ poller.stage = "wait" /\ event.modes # {}
  /\ poller' = [stage |-> "event", modes |-> event.modes, err |-> event.err]
  /\ event' = NoEvent
  /\ KeepLocked /\ UNCHANGED <<everr, arrivals, data, gate, netpollWaiters, npc>>

SetEverr ==
  /\ poller.stage = "event"
  /\ poller' = [poller EXCEPT !.stage = "ready"]
  /\ everr' = poller.err
  /\ KeepLocked /\ UNCHANGED <<event, arrivals, data, gate, netpollWaiters, npc>>

(* ... and netpollready gives the notifications; the goroutines are on the *)
(* list that netpoll returns.                                              *)
netpollready ==
  LET m == IF "r" \in poller.modes THEN "r" ELSE "w"
      rest == poller.modes \ {m}
  IN
  /\ poller.stage = "ready"
  /\ poller' = IF rest = {} THEN [stage |-> "wait", modes |-> {}, err |-> FALSE]
               ELSE [poller EXCEPT !.modes = rest]
  /\ gate' = GateUnblocked(m, TRUE)
  /\ npc' = Unblocked(npc, m)
  /\ KeepLocked /\ UNCHANGED <<event, arrivals, data, everr, netpollWaiters>>

(* External: the descriptor is ready for the modes M, or has an error.     *)
Arrive(M, err) ==
  /\ arrivals < MaxEvents /\ arrivals' = arrivals + 1
  /\ data' = [m \in Modes |-> data[m] \/ m \in M]
  /\ event' = [modes |-> event.modes \cup M, err |-> err /\ (event = NoEvent \/ event.err)]
  /\ KeepLocked /\ UNCHANGED <<poller, everr, gate, netpollWaiters, npc>>

-----------------------------------------------------------------------------
(* pollClose; netpollclose takes the descriptor away from epoll.           *)
pollClose ==
  /\ event' = NoEvent
  /\ KeepLocked /\ UNCHANGED <<gate, netpollWaiters, poller, arrivals, data, everr, npc>>

(* Mutant of pollOpen: the pollDesc is set up like a new one.              *)
pollOpenFromOne ==
  /\ lock = None
  /\ closing' = FALSE /\ everr' = FALSE
  /\ seq' = [m \in Modes |-> 1]
  /\ gate' = [m \in Modes |-> None]
  /\ deadline' = [m \in Modes |-> 0]
  /\ event' = NoEvent /\ data' = [m \in Modes |-> FALSE]
  /\ UNCHANGED <<lock, pending, pdtimer, fired, netpollWaiters, poller, arrivals, npc>>

(* pollOpen of the pollDesc that was freed last.                           *)
pollOpen ==
  /\ lock = None
  /\ closing' = FALSE /\ everr' = FALSE
  /\ seq' = [m \in Modes |-> seq[m] + 1]
  /\ gate' = [m \in Modes |-> None]
  /\ deadline' = [m \in Modes |-> 0]
  /\ event' = NoEvent /\ data' = [m \in Modes |-> FALSE]
  /\ UNCHANGED <<lock, pending, pdtimer, fired, netpollWaiters, poller, arrivals, npc>>

PollerStep ==
  \/ netpollunblock
  \/ \E c \in fired : netpolldeadlineimpl(c)
  \/ epollwait \/ SetEverr \/ netpollready

=============================================================================
