------------------------------- MODULE Mutex -------------------------------
(***************************************************************************)
(* sync.Mutex (src/src/sync/mutex.go): one mutex shared by a set G of      *)
(* goroutines that lock and unlock it for ever.  An action is one atomic   *)
(* memory operation of the code together with the local computation up to  *)
(* the next one, so every interleaving of Lock, lockSlow, Unlock and       *)
(* unlockSlow is a behaviour.                                              *)
(*                                                                         *)
(* The runtime semaphore m.sema is the counting semaphore of module        *)
(* Semaphore: MutexSema replaces it by the implementation of               *)
(* runtime/sema.go and implements this module.                             *)
(***************************************************************************)
EXTENDS Naturals, Goroutines

CONSTANT ActiveSpin  \* active_spin of the runtime (4): a bound on iter

ASSUME ActiveSpinAssumption == ActiveSpin \in Nat

VARIABLES
  state,     \* m.state: the bits mutexLocked, mutexWoken, mutexStarving, and the waiter count
  sema,      \* m.sema
  pc,        \* the next atomic operation of each goroutine
  old,       \* lockSlow's and unlockSlow's local old
  starving,  \* lockSlow's local starving
  awoke,     \* lockSlow's local awoke
  iter,      \* lockSlow's local iter
  waited     \* lockSlow's waitStartTime != 0: it is queueLifo of the next sleep

locals == <<old, starving, awoke, iter, waited>>
vars == <<state, sema, pc, old, starving, awoke, iter, waited>>

(* The fields of the 32-bit word.  The waiter count needs 29 bits: it is   *)
(* bounded by the number of goroutines, so it never wraps.                 *)
MutexWord == [locked : BOOLEAN, woken : BOOLEAN, starving : BOOLEAN, waiters : Nat]

Unlocked == [locked |-> FALSE, woken |-> FALSE, starving |-> FALSE, waiters |-> 0]

InLoop == {"load", "loop"}
SlowLock == InLoop \cup {"semacquire", "awake", "handoff"}
Releasing == {"semrelease", "semreleaseHandoff"}
PC == SlowLock \cup Releasing \cup {"idle", "cs", "unlockSlow", "unlockLoad", "throw"}

TypeOK ==
  /\ state \in MutexWord
  /\ sema \in Nat
  /\ pc \in [G -> PC]
  /\ old \in [G -> MutexWord]
  /\ starving \in [G -> BOOLEAN]
  /\ awoke \in [G -> BOOLEAN]
  /\ iter \in [G -> 0..ActiveSpin]
  /\ waited \in [G -> BOOLEAN]

Init ==
  /\ state = Unlocked
  /\ sema = 0
  /\ pc = [g \in G |-> "idle"]
  /\ old = [g \in G |-> Unlocked]
  /\ starving = [g \in G |-> FALSE]
  /\ awoke = [g \in G |-> FALSE]
  /\ iter = [g \in G |-> 0]
  /\ waited = [g \in G |-> FALSE]

Goto(g, from, to) ==
  /\ pc[g] = from
  /\ pc' = [pc EXCEPT ![g] = to]

(* Locals die with the call: they go back to their initial values.         *)
ForgetLocals(g) ==
  /\ old' = [old EXCEPT ![g] = Unlocked]
  /\ starving' = [starving EXCEPT ![g] = FALSE]
  /\ awoke' = [awoke EXCEPT ![g] = FALSE]
  /\ iter' = [iter EXCEPT ![g] = 0]
  /\ waited' = [waited EXCEPT ![g] = FALSE]

-----------------------------------------------------------------------------
(* Lock and lockSlow.                                                      *)

(* The fast path CAS(&m.state, 0, mutexLocked) succeeds.                   *)
LockFast(g) ==
  /\ Goto(g, "idle", "cs")
  /\ state = Unlocked
  /\ state' = [state EXCEPT !.locked = TRUE]
  /\ UNCHANGED <<sema, locals>>

(* It fails, and the goroutine calls lockSlow.                             *)
LockContended(g) ==
  /\ Goto(g, "idle", "load")
  /\ state # Unlocked
  /\ UNCHANGED <<state, sema, locals>>

(* old = m.state, before the loop, after a spin and after a failed CAS.    *)
LoadOld(g) ==
  /\ Goto(g, "load", "loop")
  /\ old' = [old EXCEPT ![g] = state]
  /\ UNCHANGED <<state, sema, starving, awoke, iter, waited>>

(* Spinning makes sense: locked, not starving; runtime_canSpin is a choice *)
(* of the scheduler below active_spin iterations.                          *)
CanSpin(g) ==
  /\ old[g].locked
  /\ ~old[g].starving
  /\ iter[g] < ActiveSpin

(* A spinner may claim the woken flag, so that Unlock wakes nobody else.   *)
MayClaimWoken(g) ==
  /\ ~awoke[g]
  /\ ~old[g].woken
  /\ old[g].waiters # 0

Spin(g) ==
  /\ Goto(g, "loop", "load")
  /\ CanSpin(g)
  /\ iter' = [iter EXCEPT ![g] = @ + 1]
  /\ IF MayClaimWoken(g) /\ state = old[g]
       THEN /\ state' = [state EXCEPT !.woken = TRUE]
            /\ awoke' = [awoke EXCEPT ![g] = TRUE]
       ELSE UNCHANGED <<state, awoke>>
  /\ UNCHANGED <<sema, old, starving, waited>>

(* Mutants of NewWord: the lock bit is not set, a waiter on a starving     *)
(* mutex is not counted, starvation begins on an unlocked mutex.           *)
NewWordNotLocked(o, starve, woke) ==
  [o EXCEPT !.woken = @ /\ ~woke, !.starving = @ \/ (starve /\ o.locked),
            !.waiters = IF o.locked \/ o.starving THEN @ + 1 ELSE @]

NewWordUncounted(o, starve, woke) ==
  [locked   |-> o.locked \/ ~o.starving,
   woken    |-> o.woken /\ ~woke,
   starving |-> o.starving \/ (starve /\ o.locked),
   waiters  |-> IF o.locked THEN o.waiters + 1 ELSE o.waiters]

NewWordStarvesUnlocked(o, starve, woke) ==
  [locked   |-> o.locked \/ ~o.starving,
   woken    |-> o.woken /\ ~woke,
   starving |-> o.starving \/ starve,
   waiters  |-> IF o.locked \/ o.starving THEN o.waiters + 1 ELSE o.waiters]

(* new, computed from old: lines 137-163.                                  *)
NewWord(o, starve, woke) ==
  [locked   |-> o.locked \/ ~o.starving,
   woken    |-> o.woken /\ ~woke,
   starving |-> o.starving \/ (starve /\ o.locked),
   waiters  |-> IF o.locked \/ o.starving THEN o.waiters + 1 ELSE o.waiters]

(* Mutant of AfterCAS: a newcomer takes a mutex that is being handed off.  *)
AfterCASBarging(g) ==
  IF awoke[g] /\ ~old[g].woken THEN "throw"
  ELSE IF state # old[g] THEN "load"
  ELSE IF old[g].locked THEN "semacquire"
  ELSE "cs"

(* The outcome of one round of the loop that does not spin: the throw of   *)
(* line 160 (awoke, but mutexWoken is clear), or the CAS of line 166, that *)
(* fails, locks the mutex, or counts the goroutine as a waiter.            *)
AfterCAS(g) ==
  IF awoke[g] /\ ~old[g].woken THEN "throw"
  ELSE IF state # old[g] THEN "load"
  ELSE IF old[g].locked \/ old[g].starving THEN "semacquire"
  ELSE "cs"

CompareAndSwap(g) ==
  LET next == AfterCAS(g) IN
  /\ Goto(g, "loop", next)
  /\ state' = IF next \in {"semacquire", "cs"}
                THEN NewWord(old[g], starving[g], awoke[g]) ELSE state
  /\ IF next = "cs" THEN ForgetLocals(g) ELSE UNCHANGED locals
  /\ UNCHANGED sema

(* runtime_SemacquireMutex returns.                                        *)
SemacquireMutex(g) ==
  /\ Goto(g, "semacquire", "awake")
  /\ sema > 0
  /\ sema' = sema - 1
  /\ waited' = [waited EXCEPT ![g] = TRUE]
  /\ UNCHANGED <<state, old, starving, awoke, iter>>

(* After the wake-up: late says that more than starvationThresholdNs have  *)
(* passed since the first sleep.  In normal mode, compete again.           *)
AwakeNormal(g, late) ==
  /\ Goto(g, "awake", "loop")
  /\ ~state.starving
  /\ starving' = [starving EXCEPT ![g] = @ \/ late]
  /\ awoke' = [awoke EXCEPT ![g] = TRUE]
  /\ iter' = [iter EXCEPT ![g] = 0]
  /\ old' = [old EXCEPT ![g] = state]
  /\ UNCHANGED <<state, sema, waited>>

(* In starvation mode the mutex was handed off to this goroutine, unless   *)
(* the word is inconsistent: the throw of line 191.                        *)
HandoffBroken == state.locked \/ state.woken \/ state.waiters = 0

AwakeStarving(g, late) ==
  /\ state.starving
  /\ Goto(g, "awake", IF HandoffBroken THEN "throw" ELSE "handoff")
  /\ starving' = [starving EXCEPT ![g] = @ \/ late]
  /\ old' = [old EXCEPT ![g] = state]
  /\ UNCHANGED <<state, sema, awoke, iter, waited>>

(* Starvation mode ends with a waiter that waited less than 1ms or is the  *)
(* last one (line 198).                                                    *)
ExitsStarvation(g) == ~starving[g] \/ old[g].waiters = 1

(* atomic.AddInt32(&m.state, delta): sets mutexLocked, takes one waiter    *)
(* off and possibly clears mutexStarving.  The addition sets and clears    *)
(* these bits only if they are clear and set: a carry is the word "throw". *)
Handoff(g) ==
  LET carry == state.locked \/ ~state.starving \/ state.waiters = 0 IN
  /\ Goto(g, "handoff", IF carry THEN "throw" ELSE "cs")
  /\ state' = IF carry THEN state
              ELSE [state EXCEPT !.locked = TRUE,
                                 !.waiters = @ - 1,
                                 !.starving = ~ExitsStarvation(g)]
  /\ ForgetLocals(g)
  /\ UNCHANGED sema

-----------------------------------------------------------------------------
(* Unlock and unlockSlow.  A goroutine only unlocks a mutex it locked.     *)

(* new := atomic.AddInt32(&m.state, -mutexLocked), and where it leads.  A  *)
(* mutex found unlocked is throw("sync: unlock of unlocked mutex").        *)
AfterUnlock(new) ==
  CASE new = Unlocked -> "idle"
    [] new.starving -> "semreleaseHandoff"
    [] OTHER -> "unlockSlow"

Unlock(g) ==
  LET new == [state EXCEPT !.locked = FALSE]
      next == AfterUnlock(new)
  IN
  /\ Goto(g, "cs", IF state.locked THEN next ELSE "throw")
  /\ state' = new
  /\ old' = IF next = "unlockSlow" THEN [old EXCEPT ![g] = new] ELSE old
  /\ UNCHANGED <<sema, starving, awoke, iter, waited>>

(* Mutant of NobodyToWake: the waiter count is off by one.                 *)
NobodyToWakeButOne(o) == o.waiters <= 1 \/ o.locked \/ o.woken \/ o.starving

(* No waiter, or somebody is awake or holds the mutex: nobody to wake.     *)
NobodyToWake(o) == o.waiters = 0 \/ o.locked \/ o.woken \/ o.starving

UnlockReturn(g) ==
  /\ Goto(g, "unlockSlow", "idle")
  /\ NobodyToWake(old[g])
  /\ ForgetLocals(g)
  /\ UNCHANGED <<state, sema>>

(* Grab the right to wake someone: the CAS of line 278.                    *)
WakeWord(o) == [o EXCEPT !.waiters = @ - 1, !.woken = TRUE]

UnlockCAS(g) ==
  /\ Goto(g, "unlockSlow", "semrelease")
  /\ ~NobodyToWake(old[g])
  /\ state = old[g]
  /\ state' = WakeWord(old[g])
  /\ ForgetLocals(g)
  /\ UNCHANGED sema

UnlockFailedCAS(g) ==
  /\ Goto(g, "unlockSlow", "unlockLoad")
  /\ ~NobodyToWake(old[g])
  /\ state # old[g]
  /\ UNCHANGED <<state, sema, locals>>

UnlockLoad(g) ==
  /\ Goto(g, "unlockLoad", "unlockSlow")
  /\ old' = [old EXCEPT ![g] = state]
  /\ UNCHANGED <<state, sema, starving, awoke, iter, waited>>

(* runtime_Semrelease, with handoff = false and with handoff = true.       *)
Semrelease(g) ==
  /\ pc[g] \in Releasing
  /\ pc' = [pc EXCEPT ![g] = "idle"]
  /\ sema' = sema + 1
  /\ UNCHANGED <<state, locals>>

-----------------------------------------------------------------------------
LockStep(g) ==
  \/ LockContended(g) \/ LockFast(g) \/ LoadOld(g) \/ Spin(g)
  \/ CompareAndSwap(g)
  \/ \E late \in BOOLEAN : AwakeNormal(g, late) \/ AwakeStarving(g, late)
  \/ Handoff(g)

UnlockStep(g) ==
  Unlock(g) \/ UnlockReturn(g) \/ UnlockCAS(g) \/ UnlockFailedCAS(g) \/ UnlockLoad(g)

SemaStep(g) == SemacquireMutex(g) \/ Semrelease(g)

Next == \E g \in G : LockStep(g) \/ UnlockStep(g) \/ SemaStep(g)

Spec == Init /\ [][Next]_vars

-----------------------------------------------------------------------------
(* Two goroutines are never between Lock and Unlock together, although in  *)
(* starvation mode the mutex changes hands while mutexLocked is clear.     *)
MutualExclusion == \A g, h \in G : pc[g] = "cs" /\ pc[h] = "cs" => g = h

(* None of the three throws of mutex.go is reached, and the additions of   *)
(* Handoff and Unlock never carry from one field of m.state into another.  *)
NoThrow == \A g \in G : pc[g] # "throw"

(* A goroutine on its way from being woken to competing for the mutex: it  *)
(* is about to be woken, it has been, or it spins with the woken flag.     *)
Waker(g) ==
  \/ pc[g] \in Releasing \cup {"awake", "handoff"}
  \/ awoke[g] /\ pc[g] \in InLoop

(* A wake-up is under way: mutexWoken, or the mutex is being handed off.   *)
WakeupPending == state.woken \/ (state.starving /\ ~state.locked)

(* The two flags that stop Unlock from waking anybody tell the truth:      *)
(* there is exactly one wake-up under way, in the semaphore or in a        *)
(* goroutine, when they say so, and none otherwise.                        *)
OneWakeup ==
  /\ sema \in {0, 1}
  /\ WakeupPending <=> (sema = 1 \/ \E g \in G : Waker(g))
  /\ sema = 1 => \A g \in G : ~Waker(g)
  /\ \A g, h \in G : Waker(g) /\ Waker(h) => g = h

(* mutexLocked says exactly whether a goroutine holds the mutex.           *)
LockedIsHeld ==
  /\ state.locked <=> \E g \in G : pc[g] = "cs"
  /\ MutualExclusion

(* Starvation mode has waiters and no woken flag, only handoffs are under  *)
(* way in it, and handoffs only in it.                                     *)
StarvationMode ==
  /\ state.starving => ~state.woken /\ state.waiters > 0
  /\ \A g \in G :
       /\ pc[g] = "semrelease" \/ (awoke[g] /\ pc[g] \in InLoop) => ~state.starving
       /\ pc[g] = "semreleaseHandoff" => state.starving
       /\ pc[g] = "handoff" =>
            /\ state.starving
            /\ old[g].waiters \in 1..state.waiters

(* What lockSlow's local copies still say when they are used: the flag of  *)
(* a woken goroutine is in its old, and only woken goroutines starve.      *)
LocalsCurrent ==
  \A g \in G :
    /\ awoke[g] /\ pc[g] = "loop" => old[g].woken
    /\ starving[g] /\ pc[g] \in InLoop => awoke[g]
    /\ pc[g] \notin SlowLock => ~awoke[g] /\ ~starving[g]

(* The inductive invariant: what makes the handoff of a starving mutex     *)
(* safe although mutexLocked is clear while it lasts.                      *)
IInv == TypeOK /\ NoThrow /\ LockedIsHeld /\ OneWakeup /\ StarvationMode /\ LocalsCurrent

(* A free mutex with sleeping waiters is never left to itself: a wake-up   *)
(* is under way or an unlocking goroutine is about to try one (unlockSlow  *)
(* gives up only on an old that shows somebody else will).                 *)
NoLostWakeup ==
  ~state.locked /\ state.waiters > 0 =>
    \/ WakeupPending
    \/ \E g \in G : pc[g] = "unlockLoad"
    \/ \E g \in G : pc[g] = "unlockSlow" /\ ~NobodyToWake(old[g])

(* The waiter count is the number of goroutines asleep on m.sema, less the *)
(* one whose wake-up unlockSlow already paid for; in starvation mode a     *)
(* woken waiter stays counted until it has fixed the word.                 *)
WaitersCounted ==
  LET At(set) == Cardinality({g \in G : pc[g] \in set}) IN
  IF state.starving
    THEN state.waiters = At({"semacquire", "awake", "handoff"})
    ELSE state.waiters + sema + At({"semrelease"}) = At({"semacquire"})

(* A Mutex is a Locker: only lockSlow waits, and Lock and Unlock take      *)
(* effect at one atomic operation each.                                    *)
lockStatus ==
  [g \in G |-> CASE pc[g] = "cs" -> "held"
               [] pc[g] \in SlowLock -> "waiting"
               [] OTHER -> "out"]

Abs == INSTANCE Locker WITH status <- lockStatus

LockerSpec == Abs!Spec

=============================================================================
