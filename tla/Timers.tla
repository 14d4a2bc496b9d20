------------------------------- MODULE Timers -------------------------------
(***************************************************************************)
(* The timers of the runtime (src/src/runtime/time.go, checkTimers of      *)
(* proc.go): each P has a heap of them, which only the holder of its       *)
(* timersLock changes, while everybody may stop and reset a timer through  *)
(* its status.                                                             *)
(*                                                                         *)
(* A heap is the set of its timers, whose first is one of those with the   *)
(* least when.  The statuses timerRunning, timerRemoving and, but for      *)
(* adjusttimers, timerMoving are passed through within one step: only the  *)
(* holder of the lock sets them, and all others wait for the next status   *)
(* or do as they do for it.  Waking the network poller, which sleeps until *)
(* the first timer, is left out, and so is moveTimers, for which the world *)
(* is stopped.                                                             *)
(***************************************************************************)
EXTENDS Integers, Goroutines

CONSTANTS
  P,        \* the Ps
  Timer,
  When,     \* the times that timers are set to
  Period,   \* the periods: 0 is none
  MaxNow    \* bound: the time goes no further

ASSUME TimersAssumption ==
  /\ IsFiniteSet(Timer)
  /\ When \subseteq Nat /\ Period \subseteq Nat
  /\ None \notin P \cup Timer \cup [when : Nat, period : Nat]
  /\ P \cap G = {}

VARIABLES
  now,        \* nanotime()
  status, when, nextwhen, period,  \* the fields of a timer
  pp,         \* pp[t]: the P whose heap t is in
  heap,       \* heap[p]: p.timers
  timersLock, \* timersLock[p]: the holder of p.timersLock
  adjustTimers, deletedTimers, timer0When, \* the fields of a P
  upc, uarg,  \* where a goroutine is in its call, and with what
  rpc, rarg,  \* where the thread that runs the timers of a P is, and with what
  answer      \* answer[u]: <<the result of u's call>>

timerVars == <<now, status, when, nextwhen, period, pp, heap, timersLock,
               adjustTimers, deletedTimers, timer0When, upc, uarg, rpc, rarg, answer>>

Modified == {"ModifiedEarlier", "ModifiedLater"}

(* The steps of an addtimer, of a deltimer or modtimer that has the status *)
(* of its timer at timerModifying, and of a checkTimers that has the lock. *)
Adding == {"addLock", "clean"}
Modifying == {"uncount", "deleting", "modAdd", "undelete", "modify", "modSet"}
Checking == {"adjust", "run", "clear", "unlock"}

NoArg == [t |-> None, p |-> None, when |-> 0, period |-> 0, old |-> "NoStatus"]
NoRound == [now |-> 0, todo |-> {}, moved |-> {}, deleted |-> 0, earlier |-> 0]

TimersInit ==
  /\ now = 0
  /\ status = [t \in Timer |-> "NoStatus"]
  /\ when = [t \in Timer |-> 0]
  /\ nextwhen = [t \in Timer |-> 0]
  /\ period = [t \in Timer |-> 0]
  /\ pp = [t \in Timer |-> None]
  /\ heap = [p \in P |-> {}]
  /\ timersLock = [p \in P |-> None]
  /\ adjustTimers = [p \in P |-> 0]
  /\ deletedTimers = [p \in P |-> 0]
  /\ timer0When = [p \in P |-> 0]
  /\ upc = [u \in G |-> "idle"]
  /\ uarg = [u \in G |-> NoArg]
  /\ rpc = [p \in P |-> "idle"]
  /\ rarg = [p \in P |-> NoRound]
  /\ answer = [u \in G |-> <<>>]

-----------------------------------------------------------------------------
(* The heaps.  A heap h under the whens w: its first timers, and what      *)
(* updateTimer0When stores.                                                *)
Least(h, w) == {t \in h : \A s \in h : w[t] <= w[s]}

First(p) == Least(heap[p], when)

FirstWhen(h, w) == IF h = {} THEN 0 ELSE w[CHOOSE t \in Least(h, w) : TRUE]

(* doaddtimer and dodeltimer, which keep timer0When.                       *)
SetHeap(p, h, w) ==
  /\ heap' = [heap EXCEPT ![p] = h]
  /\ when' = w
  /\ timer0When' = [timer0When EXCEPT ![p] = FirstWhen(h, w)]

doaddtimer(p, t, w) ==
  /\ SetHeap(p, heap[p] \cup {t}, [when EXCEPT ![t] = w])
  /\ pp' = [pp EXCEPT ![t] = p]

dodeltimer(p, t) ==
  /\ SetHeap(p, heap[p] \ {t}, when)
  /\ pp' = [pp EXCEPT ![t] = None]

SetStatus(t, s) == status' = [status EXCEPT ![t] = s]

(* Nobody reads t.nextwhen again before it is written.                     *)
NextwhenUsed(t) == nextwhen' = [nextwhen EXCEPT ![t] = 0]

IfThen(b, n) == IF b THEN n ELSE 0

KeepUsers == UNCHANGED <<upc, uarg, answer>>
KeepRunners == UNCHANGED <<rpc, rarg>>
KeepHeaps == UNCHANGED <<when, pp, heap, timer0When>>

-----------------------------------------------------------------------------
(* What cleantimers, adjusttimers and runtimer do with a timer of theirs   *)
(* that has been deleted or modified.                                      *)

(* timerDeleted -> timerRemoving -> timerRemoved                           *)
Remove(p, t) ==
  /\ status[t] = "Deleted"
  /\ SetStatus(t, "Removed")
  /\ dodeltimer(p, t)
  /\ deletedTimers' = [deletedTimers EXCEPT ![p] = @ - 1]
  /\ UNCHANGED <<nextwhen, adjustTimers>>

(* timerModifiedXX -> timerMoving -> timerWaiting                          *)
Move(p, t) ==
  /\ status[t] \in Modified
  /\ SetStatus(t, "Waiting")
  /\ SetHeap(p, heap[p], [when EXCEPT ![t] = nextwhen[t]])
  /\ NextwhenUsed(t)
  /\ adjustTimers' = [adjustTimers EXCEPT ![p] = @ - IfThen(status[t] = "ModifiedEarlier", 1)]
  /\ UNCHANGED <<pp, deletedTimers>>

-----------------------------------------------------------------------------
(* addtimer, of a timer that nobody else knows.                            *)
UGoto(u, from, to) == upc[u] = from /\ upc' = [upc EXCEPT ![u] = to]

Fresh(t) == status[t] = "NoStatus" /\ when[t] = 0 /\ \A u \in G : uarg[u].t # t

addtimer(u, p, t, w, per) ==
  /\ UGoto(u, "idle", "addLock")
  /\ Fresh(t)
  /\ SetStatus(t, "Waiting")
  /\ when' = [when EXCEPT ![t] = w]
  /\ period' = [period EXCEPT ![t] = per]
  /\ uarg' = [uarg EXCEPT ![u] = [NoArg EXCEPT !.t = t, !.p = p]]
  /\ answer' = [answer EXCEPT ![u] = <<FALSE>>]
  /\ KeepRunners
  /\ UNCHANGED <<now, nextwhen, pp, heap, timersLock, adjustTimers, deletedTimers, timer0When>>

LockToAdd(u) ==
  LET p == uarg[u].p IN
  /\ UGoto(u, "addLock", "clean")
  /\ timersLock[p] = None /\ timersLock' = [timersLock EXCEPT ![p] = u]
  /\ KeepRunners /\ KeepHeaps
  /\ UNCHANGED <<now, status, nextwhen, period, adjustTimers, deletedTimers, uarg, answer>>

(* A round of the loop of cleantimers, ...                                 *)
cleantimers(u) ==
  LET p == uarg[u].p IN
  /\ upc[u] = "clean"
  /\ \E t \in First(p) : Remove(p, t) \/ Move(p, t)
  /\ KeepUsers /\ KeepRunners /\ UNCHANGED <<now, period, timersLock>>

(* ... which ends at any other status, or if the goroutine is to be        *)
(* preempted; then doaddtimer and the end of addtimer.                     *)
AddTimer(u) ==
  LET a == uarg[u] IN
  /\ UGoto(u, "clean", "idle")
  /\ doaddtimer(a.p, a.t, when[a.t])
  /\ timersLock' = [timersLock EXCEPT ![a.p] = None]
  /\ uarg' = [uarg EXCEPT ![u] = NoArg]
  /\ answer' = [answer EXCEPT ![u] = <<>>]
  /\ KeepRunners /\ UNCHANGED <<now, status, nextwhen, period, adjustTimers, deletedTimers>>

-----------------------------------------------------------------------------
(* deltimer and modtimer.  A timer is known to others once it was added.   *)
Shared(t) == ~Fresh(t) /\ \A u \in G : upc[u] \in Adding => uarg[u].t # t

InHeap == {"Waiting"} \cup Modified

(* There is nothing to stop.                                               *)
deltimerIdle(u, t) ==
  /\ UGoto(u, "idle", "return")
  /\ Shared(t) /\ status[t] \in {"Deleted", "Removed", "NoStatus"}
  /\ answer' = [answer EXCEPT ![u] = <<FALSE>>]
  /\ KeepRunners /\ KeepHeaps
  /\ UNCHANGED <<now, status, nextwhen, period, timersLock, adjustTimers, deletedTimers, uarg>>

(* The swap to timerModifying, ...                                         *)
deltimer(u, t) ==
  /\ UGoto(u, "idle", IF status[t] = "ModifiedEarlier" THEN "uncount" ELSE "deleting")
  /\ Shared(t) /\ status[t] \in InHeap
  /\ SetStatus(t, "Modifying")
  /\ uarg' = [uarg EXCEPT ![u] = [NoArg EXCEPT !.t = t, !.p = pp[t], !.old = status[t]]]
  /\ answer' = [answer EXCEPT ![u] = <<TRUE>>]
  /\ KeepRunners /\ KeepHeaps
  /\ UNCHANGED <<now, nextwhen, period, timersLock, adjustTimers, deletedTimers>>

(* ... the count, if t was to be earlier, ...                              *)
Uncount(u) ==
  /\ UGoto(u, "uncount", "deleting")
  /\ adjustTimers' = [adjustTimers EXCEPT ![uarg[u].p] = @ - 1]
  /\ KeepRunners /\ KeepHeaps
  /\ UNCHANGED <<now, status, nextwhen, period, timersLock, deletedTimers, uarg, answer>>

(* ... the new status, ...                                                 *)
SetDeleted(u) ==
  LET a == uarg[u] IN
  /\ UGoto(u, "deleting", "deleted")
  /\ SetStatus(a.t, "Deleted")
  /\ NextwhenUsed(a.t)
  /\ KeepRunners /\ KeepHeaps
  /\ UNCHANGED <<now, period, timersLock, adjustTimers, deletedTimers, uarg, answer>>

(* ... and the other count, on the P that t was seen on.                   *)
CountDeleted(u) ==
  /\ UGoto(u, "deleted", "return")
  /\ deletedTimers' = [deletedTimers EXCEPT ![uarg[u].p] = @ + 1]
  /\ uarg' = [uarg EXCEPT ![u] = NoArg]
  /\ KeepRunners /\ KeepHeaps
  /\ UNCHANGED <<now, status, nextwhen, period, timersLock, adjustTimers, answer>>

(* modtimer on the P p: the swap to timerModifying, ...                    *)
modtimer(u, p, t, w, per) ==
  LET s == status[t] IN
  /\ Shared(t)
  /\ \/ s \in {"NoStatus", "Removed"} /\ UGoto(u, "idle", "modAdd")
     \/ s = "Deleted" /\ UGoto(u, "idle", "undelete")
     \/ s \in InHeap /\ UGoto(u, "idle", "modify")
  /\ SetStatus(t, "Modifying")
  /\ uarg' = [uarg EXCEPT ![u] = [t |-> t, p |-> p, when |-> w, period |-> per, old |-> s]]
  /\ answer' = [answer EXCEPT ![u] = <<s \in InHeap>>]
  /\ KeepRunners /\ KeepHeaps
  /\ UNCHANGED <<now, nextwhen, period, timersLock, adjustTimers, deletedTimers>>

(* ... and the count of the P that t was deleted on.                       *)
Undelete(u) ==
  /\ UGoto(u, "undelete", "modify")
  /\ deletedTimers' = [deletedTimers EXCEPT ![pp[uarg[u].t]] = @ - 1]
  /\ KeepRunners /\ KeepHeaps
  /\ UNCHANGED <<now, status, nextwhen, period, timersLock, adjustTimers, uarg, answer>>

(* It was in no heap.                                                      *)
ModAdd(u) ==
  LET a == uarg[u] IN
  /\ UGoto(u, "modAdd", "modSet")
  /\ timersLock[a.p] = None
  /\ doaddtimer(a.p, a.t, a.when)
  /\ period' = [period EXCEPT ![a.t] = a.period]
  /\ uarg' = [uarg EXCEPT ![u].old = "Waiting"]
  /\ KeepRunners /\ UNCHANGED <<now, status, nextwhen, timersLock, adjustTimers, deletedTimers, answer>>

(* Mutant of Modify: the count is left to whoever finds the timer.         *)
ModifyUncounted(u) ==
  LET a == uarg[u]
      new == IF a.when < when[a.t] THEN "ModifiedEarlier" ELSE "ModifiedLater"
  IN
  /\ UGoto(u, "modify", "modSet")
  /\ nextwhen' = [nextwhen EXCEPT ![a.t] = a.when]
  /\ period' = [period EXCEPT ![a.t] = a.period]
  /\ uarg' = [uarg EXCEPT ![u].old = new]
  /\ KeepRunners /\ KeepHeaps
  /\ UNCHANGED <<now, status, timersLock, adjustTimers, deletedTimers, answer>>

(* It is in some heap: nextwhen and the count, ...                         *)
Modify(u) ==
  LET a == uarg[u]
      new == IF a.when < when[a.t] THEN "ModifiedEarlier" ELSE "ModifiedLater"
  IN
  /\ UGoto(u, "modify", "modSet")
  /\ nextwhen' = [nextwhen EXCEPT ![a.t] = a.when]
  /\ period' = [period EXCEPT ![a.t] = a.period]
  /\ adjustTimers' = [adjustTimers EXCEPT ![pp[a.t]] =
       @ + IfThen(new = "ModifiedEarlier", 1) - IfThen(a.old = "ModifiedEarlier", 1)]
  /\ uarg' = [uarg EXCEPT ![u].old = new]
  /\ KeepRunners /\ KeepHeaps
  /\ UNCHANGED <<now, status, timersLock, deletedTimers, answer>>

(* ... and the new status.                                                 *)
SetModified(u) ==
  /\ UGoto(u, "modSet", "return")
  /\ SetStatus(uarg[u].t, uarg[u].old)
  /\ uarg' = [uarg EXCEPT ![u] = NoArg]
  /\ KeepRunners /\ KeepHeaps
  /\ UNCHANGED <<now, nextwhen, period, timersLock, adjustTimers, deletedTimers, answer>>

UReturn(u) ==
  /\ UGoto(u, "return", "idle")
  /\ answer' = [answer EXCEPT ![u] = <<>>]
  /\ KeepRunners /\ KeepHeaps
  /\ UNCHANGED <<now, status, nextwhen, period, timersLock, adjustTimers, deletedTimers, uarg>>

-----------------------------------------------------------------------------
(* checkTimers(p), by p's thread or by another one that looks for work.    *)
RGoto(p, from, to) == rpc[p] = from /\ rpc' = [rpc EXCEPT ![p] = to]

KeepTimers == KeepHeaps /\ UNCHANGED <<now, status, nextwhen, period, adjustTimers, deletedTimers>>

ManyDeleted(p) == deletedTimers[p] > Cardinality(heap[p]) \div 4

(* Without the lock: is there anything to do?                              *)
checkTimers(p) ==
  /\ \/ adjustTimers[p] # 0
     \/ timer0When[p] # 0 /\ (timer0When[p] <= now \/ ManyDeleted(p))
  /\ RGoto(p, "idle", "lock")
  /\ rarg' = [rarg EXCEPT ![p].now = now]
  /\ KeepUsers /\ KeepTimers /\ UNCHANGED timersLock

LockTimers(p) ==
  /\ RGoto(p, "lock", IF heap[p] = {} \/ adjustTimers[p] = 0 THEN "run" ELSE "adjust")
  /\ timersLock[p] = None /\ timersLock' = [timersLock EXCEPT ![p] = p]
  /\ rarg' = [rarg EXCEPT ![p].todo = IF adjustTimers[p] = 0 THEN {} ELSE heap[p]]
  /\ KeepUsers /\ KeepTimers

(* What the loop of adjusttimers still visits when t is taken from the     *)
(* heap: dodeltimer puts the last timer in its place, and if siftup moves  *)
(* that one up the loop has passed it and meets its old parent again.      *)
StillToVisit(p, t) ==
  LET rest == rarg[p].todo \ {t}
      visited == heap[p] \ rarg[p].todo
      Passed(last, parent) == when[last] < when[parent] /\ when[parent] <= when[t]
  IN {rest} \cup {todo \in SUBSET (rest \cup visited) :
                    \E last \in rest, parent \in visited :
                      Passed(last, parent) /\ todo = (rest \ {last}) \cup {parent}}

(* The loop of adjusttimers; at timerModifying it waits.                   *)
adjusttimers(p, t) ==
  LET earlier == status[t] = "ModifiedEarlier" IN
  /\ rpc[p] = "adjust" /\ t \in rarg[p].todo
  /\ \/ /\ status[t] = "Waiting"
        /\ rarg' = [rarg EXCEPT ![p].todo = @ \ {t}]
        /\ KeepHeaps /\ UNCHANGED <<status, nextwhen, adjustTimers, deletedTimers>>
     \/ /\ Remove(p, t)
        /\ \E todo \in StillToVisit(p, t) : rarg' = [rarg EXCEPT ![p].todo = todo]
     \/ /\ status[t] \in Modified
        /\ SetStatus(t, "Moving")
        /\ dodeltimer(p, t)
        /\ adjustTimers' = [adjustTimers EXCEPT ![p] = @ - IfThen(earlier, 1)]
        /\ \E todo \in IF earlier /\ adjustTimers[p] <= 1 THEN {{}} ELSE StillToVisit(p, t) :
             rarg' = [rarg EXCEPT ![p].todo = todo, ![p].moved = @ \cup {t}]
        /\ UNCHANGED <<nextwhen, deletedTimers>>
  /\ KeepUsers /\ UNCHANGED <<now, period, timersLock, rpc>>

addAdjustedTimers(p, t) ==
  /\ rpc[p] = "adjust" /\ rarg[p].todo = {} /\ t \in rarg[p].moved
  /\ doaddtimer(p, t, nextwhen[t])
  /\ NextwhenUsed(t)
  /\ SetStatus(t, "Waiting")
  /\ rarg' = [rarg EXCEPT ![p].moved = @ \ {t}]
  /\ KeepUsers /\ UNCHANGED <<now, period, timersLock, adjustTimers, deletedTimers, rpc>>

(* rnow is the time of the call, or read only now.                         *)
AdjustDone(p) ==
  /\ RGoto(p, "adjust", "run")
  /\ rarg[p].todo = {} /\ rarg[p].moved = {}
  /\ \E rnow \in {rarg[p].now, now} : rarg' = [rarg EXCEPT ![p].now = rnow]
  /\ KeepUsers /\ KeepTimers /\ UNCHANGED timersLock

(* runtimer: the first timer is removed or moved, ...                      *)
runtimer(p, t) ==
  /\ rpc[p] = "run" /\ t \in First(p)
  /\ Remove(p, t) \/ Move(p, t)
  /\ KeepUsers /\ KeepRunners /\ UNCHANGED <<now, period, timersLock>>

(* ... or is run: runOneTimer, which unlocks to call f, ...                *)
NextPeriod(t, n) == when[t] + period[t] * (1 + (n - when[t]) \div period[t])

(* Mutant of runOneTimer: a timer that is about to be set to a later time  *)
(* goes off at its old one.                                                *)
runOneTimerLate(p, t) ==
  /\ t \in First(p)
  /\ status[t] \in {"Waiting", "ModifiedLater"} /\ when[t] <= rarg[p].now
  /\ RGoto(p, "run", "f")
  /\ IF period[t] > 0
     THEN SetHeap(p, heap[p], [when EXCEPT ![t] = NextPeriod(t, rarg[p].now)]) /\ SetStatus(t, "Waiting") /\ UNCHANGED pp
     ELSE dodeltimer(p, t) /\ SetStatus(t, "NoStatus")
  /\ timersLock' = [timersLock EXCEPT ![p] = None]
  /\ KeepUsers /\ UNCHANGED <<now, nextwhen, period, adjustTimers, deletedTimers, rarg>>

runOneTimer(p, t) ==
  /\ t \in First(p)
  /\ status[t] = "Waiting" /\ when[t] <= rarg[p].now
  /\ RGoto(p, "run", "f")
  /\ IF period[t] > 0
     THEN SetHeap(p, heap[p], [when EXCEPT ![t] = NextPeriod(t, rarg[p].now)]) /\ UNCHANGED <<pp, status>>
     ELSE dodeltimer(p, t) /\ SetStatus(t, "NoStatus")
  /\ timersLock' = [timersLock EXCEPT ![p] = None]
  /\ KeepUsers /\ UNCHANGED <<now, nextwhen, period, adjustTimers, deletedTimers, rarg>>

Relock(p) ==
  /\ RGoto(p, "f", "run")
  /\ timersLock[p] = None /\ timersLock' = [timersLock EXCEPT ![p] = p]
  /\ KeepUsers /\ KeepTimers /\ UNCHANGED rarg

(* ... or is not due; then clearDeletedTimers, if p is the thread's own.   *)
RunDone(p) ==
  /\ heap[p] = {} \/ \E t \in First(p) : status[t] = "Waiting" /\ when[t] > rarg[p].now
  /\ \/ RGoto(p, "run", "unlock") /\ UNCHANGED rarg
     \/ /\ ManyDeleted(p)
        /\ RGoto(p, "run", "clear")
        /\ rarg' = [rarg EXCEPT ![p].todo = heap[p]]
  /\ KeepUsers /\ KeepTimers /\ UNCHANGED timersLock

(* Its loop changes heap and whens, and leaves the counts and timer0When   *)
(* to the end.                                                             *)
clearDeletedTimers(p, t) ==
  /\ rpc[p] = "clear" /\ t \in rarg[p].todo
  /\ \/ /\ status[t] = "Waiting"
        /\ rarg' = [rarg EXCEPT ![p].todo = @ \ {t}]
        /\ UNCHANGED <<status, when, nextwhen, pp, heap>>
     \/ /\ status[t] \in Modified
        /\ SetStatus(t, "Waiting")
        /\ when' = [when EXCEPT ![t] = nextwhen[t]]
        /\ NextwhenUsed(t)
        /\ rarg' = [rarg EXCEPT ![p].todo = @ \ {t}, ![p].earlier = @ + IfThen(status[t] = "ModifiedEarlier", 1)]
        /\ UNCHANGED <<pp, heap>>
     \/ /\ status[t] = "Deleted"
        /\ SetStatus(t, "Removed")
        /\ pp' = [pp EXCEPT ![t] = None]
        /\ heap' = [heap EXCEPT ![p] = @ \ {t}]
        /\ rarg' = [rarg EXCEPT ![p].todo = @ \ {t}, ![p].deleted = @ + 1]
        /\ UNCHANGED <<when, nextwhen>>
  /\ KeepUsers /\ UNCHANGED <<now, period, timersLock, adjustTimers, deletedTimers, timer0When, rpc>>

ClearDone(p) ==
  /\ RGoto(p, "clear", "unlock")
  /\ rarg[p].todo = {}
  /\ deletedTimers' = [deletedTimers EXCEPT ![p] = @ - rarg[p].deleted]
  /\ adjustTimers' = [adjustTimers EXCEPT ![p] = @ - rarg[p].earlier]
  /\ timer0When' = [timer0When EXCEPT ![p] = FirstWhen(heap[p], when)]
  /\ KeepUsers /\ UNCHANGED <<now, status, when, nextwhen, period, pp, heap, timersLock, rarg>>

Unlock(p) ==
  /\ RGoto(p, "unlock", "idle")
  /\ timersLock' = [timersLock EXCEPT ![p] = None]
  /\ rarg' = [rarg EXCEPT ![p] = NoRound]
  /\ KeepUsers /\ KeepTimers

Tick ==
  /\ now < MaxNow /\ now' = now + 1
  /\ KeepUsers /\ KeepRunners /\ KeepHeaps
  /\ UNCHANGED <<status, nextwhen, period, timersLock, adjustTimers, deletedTimers>>

-----------------------------------------------------------------------------
(* The settings of C: on which P, which timer is set to what.              *)
Settings == [p : P, t : Timer, when : When, period : Period]

UserStep(u, C) ==
  \/ \E c \in C : \/ addtimer(u, c.p, c.t, c.when, c.period)
                  \/ modtimer(u, c.p, c.t, c.when, c.period)
  \/ \E t \in {c.t : c \in C} : deltimerIdle(u, t) \/ deltimer(u, t)
  \/ LockToAdd(u) \/ cleantimers(u) \/ AddTimer(u)
  \/ Uncount(u) \/ SetDeleted(u) \/ CountDeleted(u)
  \/ ModAdd(u) \/ Undelete(u) \/ Modify(u) \/ SetModified(u) \/ UReturn(u)

RunnerStep(p) ==
  \/ checkTimers(p) \/ LockTimers(p) \/ AdjustDone(p) \/ Relock(p) \/ RunDone(p) \/ ClearDone(p) \/ Unlock(p)
  \/ \E t \in Timer : \/ adjusttimers(p, t) \/ addAdjustedTimers(p, t) \/ runtimer(p, t)
                      \/ runOneTimer(p, t) \/ clearDeletedTimers(p, t)

TimersNextWith(C) == (\E u \in G : UserStep(u, C)) \/ (\E p \in P : RunnerStep(p)) \/ Tick

TimersNext == TimersNextWith(Settings)

TimersSpec == TimersInit /\ [][TimersNext]_timerVars

-----------------------------------------------------------------------------
(* The call that has the status of t at timerModifying.                    *)
Modifier(t) == {u \in G : uarg[u].t = t /\ upc[u] \in Modifying}

(* What t is set to: a call takes effect with the swap to timerModifying.  *)
SetTo(t) ==
  LET s == status[t] IN
  IF s = "Waiting" THEN [when |-> when[t], period |-> period[t]]
  ELSE IF s \in Modified \cup {"Moving"} THEN [when |-> nextwhen[t], period |-> period[t]]
  ELSE IF s = "Modifying"
  THEN LET u == CHOOSE v \in Modifier(t) : TRUE
       IN IF upc[u] \in {"uncount", "deleting"} THEN None
          ELSE IF upc[u] = "modSet"
          THEN [when |-> IF uarg[u].old = "Waiting" THEN when[t] ELSE nextwhen[t], period |-> period[t]]
          ELSE [when |-> uarg[u].when, period |-> uarg[u].period]
  ELSE None

Service == INSTANCE TimerService WITH
  set <- [t \in Timer |-> SetTo(t)],
  Setting <- [when : When, period : Period]

(* A timer goes off only when its time has come, never after a Stop that   *)
(* answered true, and once per Reset, or once per period; and Stop and     *)
(* Reset tell the truth.  This is safety only: not that a timer goes off.  *)
TimerSpec == Service!Spec

-----------------------------------------------------------------------------
(* The bookkeeping that checkTimers relies on.                             *)

Status == {"NoStatus", "Waiting", "Moving", "Modifying", "Deleted", "Removed"} \cup Modified

TimersTypeOK ==
  /\ now \in Nat
  /\ status \in [Timer -> Status]
  /\ when \in [Timer -> Nat] /\ nextwhen \in [Timer -> Nat] /\ period \in [Timer -> Nat]
  /\ pp \in [Timer -> P \cup {None}]
  /\ heap \in [P -> SUBSET Timer]
  /\ timersLock \in [P -> P \cup G \cup {None}]
  /\ adjustTimers \in [P -> Int] /\ deletedTimers \in [P -> Int] /\ timer0When \in [P -> Nat]
  /\ upc \in [G -> {"idle", "deleted", "return"} \cup Adding \cup Modifying]
  /\ uarg \in [G -> [t : Timer \cup {None}, p : P \cup {None}, when : Nat, period : Nat, old : Status]]
  /\ rpc \in [P -> {"idle", "lock", "f"} \cup Checking]
  /\ rarg \in [P -> [now : Nat, todo : SUBSET Timer, moved : SUBSET Timer, deleted : Nat, earlier : Nat]]
  /\ answer \in [G -> {<<>>, <<TRUE>>, <<FALSE>>}]

(* A timer that is added belongs to its goroutine, one at timerModifying   *)
(* to a single one, which knows whether it is in a heap.                   *)
UserFits(u) ==
  LET a == uarg[u] IN
  /\ upc[u] = "idle" <=> answer[u] = <<>>
  /\ IF upc[u] \in {"idle", "return"} THEN a.t = None ELSE a.t \in Timer /\ a.p \in P
  /\ upc[u] \in Adding =>
       status[a.t] = "Waiting" /\ pp[a.t] = None /\ \A v \in G \ {u} : uarg[v].t # a.t
  /\ upc[u] \in Modifying =>
       /\ status[a.t] = "Modifying"
       /\ \A v \in G \ {u} : upc[v] \in Modifying => uarg[v].t # a.t
       /\ upc[u] = "uncount" => pp[a.t] = a.p /\ a.old = "ModifiedEarlier"
       /\ upc[u] = "deleting" => pp[a.t] = a.p
       /\ upc[u] = "modAdd" => pp[a.t] = None
       /\ upc[u] = "undelete" => pp[a.t] \in P /\ a.old = "Deleted"
       /\ upc[u] = "modify" => pp[a.t] \in P /\ a.old \in InHeap \cup {"Deleted"}
       /\ upc[u] = "modSet" => pp[a.t] \in P /\ a.old \in InHeap

(* pp and the heaps agree, and the status tells whether t is in one.       *)
StatusFits(t) ==
  /\ \A p \in P : t \in heap[p] <=> pp[t] = p
  /\ status[t] \in {"NoStatus", "Removed", "Moving"} => pp[t] = None
  /\ status[t] \in Modified \cup {"Deleted"} => pp[t] \in P
  /\ status[t] = "Waiting" /\ pp[t] = None => \E u \in G : upc[u] \in Adding /\ uarg[u].t = t
  /\ status[t] = "Modifying" => Modifier(t) # {}

(* What a checkTimers still has to look at is in its heap, and what it     *)
(* moves is in none.                                                       *)
RoundFits(p) ==
  LET r == rarg[p] IN
  /\ r.now <= now
  /\ r.todo \subseteq heap[p] /\ (r.todo # {} => rpc[p] \in {"adjust", "clear"})
  /\ \A t \in r.moved : status[t] = "Moving" /\ \A q \in P \ {p} : t \notin rarg[q].moved
  /\ r.moved # {} => rpc[p] = "adjust"
  /\ r.earlier # 0 => rpc[p] \in {"clear", "unlock"}

LockFits(p) ==
  /\ timersLock[p] = p <=> rpc[p] \in Checking
  /\ \A u \in G : timersLock[p] = u <=> upc[u] = "clean" /\ uarg[u].p = p

(* The timers of p that were set to an earlier time, those that are about  *)
(* to be told so or to forget it, and those that clearDeletedTimers has    *)
(* put right but not yet discounted.                                       *)
Earlier(p) == {t \in heap[p] : status[t] = "ModifiedEarlier"}
Telling(p) == {u \in G : /\ upc[u] \in {"uncount", "modify", "modSet"}
                         /\ pp[uarg[u].t] = p /\ uarg[u].old = "ModifiedEarlier"}
PutRight(p) == IF rpc[p] = "clear" THEN rarg[p].earlier ELSE 0

(* What tells checkTimers, without the lock, that there is something to    *)
(* do: timer0When is that of the first timer of the heap, and adjustTimers *)
(* counts those that are to go off earlier than the heap says, so that one *)
(* that a round of adjusttimers has missed is still counted for the next.  *)
CountsFit(p) ==
  /\ rpc[p] # "clear" => timer0When[p] = FirstWhen(heap[p], when)
  /\ adjustTimers[p] = Cardinality(Earlier(p)) + Cardinality(Telling(p)) + PutRight(p)

(* What checkTimers finds the timers that are due by, whatever users do at *)
(* the same time: pp, the heaps, the statuses and the locks agree, and the *)
(* counts are exact.                                                       *)
TimersInv ==
  /\ TimersTypeOK
  /\ \A u \in G : UserFits(u)
  /\ \A t \in Timer : StatusFits(t)
  /\ \A p \in P : RoundFits(p) /\ LockFits(p) /\ CountsFit(p)

=============================================================================
