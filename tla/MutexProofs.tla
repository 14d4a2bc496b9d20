---------------------------- MODULE MutexProofs ----------------------------
(***************************************************************************)
(* Proofs about module Mutex for every set G of goroutines: the inductive  *)
(* invariant IInv, one lemma per action, and what follows from it.         *)
(***************************************************************************)
EXTENDS Mutex, Counting, TLAPS

USE DEF MutexWord, Unlocked, InLoop, SlowLock, Releasing, PC

-----------------------------------------------------------------------------
(* Every action preserves the inductive invariant.                         *)

(* The zero Mutex satisfies the invariant.                                 *)
LEMMA InitIInv == Init => IInv
  BY ActiveSpinAssumption
     DEF Init, IInv, TypeOK, NoThrow, LockedIsHeld, MutualExclusion, OneWakeup, WakeupPending, Waker,
         StarvationMode, LocalsCurrent

(* The fast path takes a mutex nobody holds or is being woken for.         *)
LEMMA LockFastIInv ==
  ASSUME NEW g \in G, IInv, LockFast(g)
  PROVE  IInv'
  <1> USE DEF IInv, TypeOK, LockFast, Goto, locals
  <1>1. TypeOK'
    BY ActiveSpinAssumption
  <1>2. NoThrow'
    BY DEF NoThrow
  <1>3. LockedIsHeld'
    BY DEF LockedIsHeld, MutualExclusion
  <1>4. OneWakeup'
    BY DEF OneWakeup, WakeupPending, Waker
  <1>5. StarvationMode'
    BY DEF StarvationMode
  <1>6. LocalsCurrent'
    BY DEF LocalsCurrent
  <1> QED
    BY <1>2, <1>3, <1>4, <1>5, <1>6

(* A failed fast path changes nothing.                                     *)
LEMMA LockContendedIInv ==
  ASSUME NEW g \in G, IInv, LockContended(g)
  PROVE  IInv'
  <1> USE DEF IInv, TypeOK, LockContended, Goto, locals
  <1>1. TypeOK'
    BY ActiveSpinAssumption
  <1>2. NoThrow'
    BY DEF NoThrow
  <1>3. LockedIsHeld'
    BY DEF LockedIsHeld, MutualExclusion
  <1>4. OneWakeup'
    BY DEF OneWakeup, WakeupPending, Waker, LocalsCurrent
  <1>5. StarvationMode'
    BY DEF StarvationMode, LocalsCurrent
  <1>6. LocalsCurrent'
    BY DEF LocalsCurrent
  <1> QED
    BY <1>2, <1>3, <1>4, <1>5, <1>6

(* A fresh copy of the word has the flag of its waker.                     *)
LEMMA LoadOldIInv ==
  ASSUME NEW g \in G, IInv, LoadOld(g)
  PROVE  IInv'
  <1> USE DEF IInv, TypeOK, LoadOld, Goto, locals
  <1>1. TypeOK'
    BY ActiveSpinAssumption
  <1>2. NoThrow'
    BY DEF NoThrow
  <1>3. LockedIsHeld'
    BY DEF LockedIsHeld, MutualExclusion
  <1>4. OneWakeup'
    BY DEF OneWakeup, WakeupPending, Waker
  <1>5. StarvationMode'
    BY DEF StarvationMode
  <1>6. LocalsCurrent'
    BY DEF LocalsCurrent, OneWakeup, WakeupPending, Waker, StarvationMode
  <1> QED
    BY <1>2, <1>3, <1>4, <1>5, <1>6

(* A spinner becomes the one waker when it sets mutexWoken.                *)
LEMMA SpinIInv ==
  ASSUME NEW g \in G, IInv, Spin(g)
  PROVE  IInv'
  <1> USE DEF IInv, TypeOK, Spin, Goto, locals, CanSpin, MayClaimWoken
  <1>1. TypeOK'
    <2>1. state' \in MutexWord
      <3>1. CASE MayClaimWoken(g) /\ state = old[g]
        BY <3>1
      <3>2. CASE ~(MayClaimWoken(g) /\ state = old[g])
        BY <3>2
      <3> QED
        BY <3>1, <3>2
    <2>2. pc' \in [G -> PC] /\ sema' \in Nat
      OBVIOUS
    <2>3. old' \in [G -> MutexWord]
      OBVIOUS
    <2>4. awoke' \in [G -> BOOLEAN] /\ starving' \in [G -> BOOLEAN] /\ waited' \in [G -> BOOLEAN]
      OBVIOUS
    <2>5. iter' \in [G -> 0..ActiveSpin]
      BY ActiveSpinAssumption
    <2> QED
      BY <2>1, <2>5
  <1>2. NoThrow'
    BY DEF NoThrow
  <1>3. LockedIsHeld'
    BY DEF LockedIsHeld, MutualExclusion, OneWakeup, WakeupPending, Waker, StarvationMode, LocalsCurrent, NoThrow
  <1>4. OneWakeup'
    BY DEF OneWakeup, WakeupPending, Waker
  <1>5. StarvationMode'
    BY DEF StarvationMode
  <1>6. LocalsCurrent'
    BY DEF LocalsCurrent
  <1> QED
    BY <1>1, <1>2, <1>3, <1>4, <1>5, <1>6

(* The CAS locks a free mutex or begins a sleep; a waker is done then.     *)
LEMMA CompareAndSwapIInv ==
  ASSUME NEW g \in G, IInv, CompareAndSwap(g)
  PROVE  IInv'
  <1> USE DEF IInv, TypeOK, CompareAndSwap, Goto, locals, AfterCAS, NewWord, ForgetLocals
  <1>1. TypeOK'
    <2>1. state' \in MutexWord
      <3> DEFINE new == NewWord(old[g], starving[g], awoke[g])
      <3>1. /\ old[g] \in MutexWord
            /\ starving[g] \in BOOLEAN
            /\ awoke[g] \in BOOLEAN
        OBVIOUS
      <3>2. new \in MutexWord
        BY <3>1
      <3>3. state' \in {state, new}
        OBVIOUS
      <3> QED
        BY <3>2, <3>3
    <2>2. pc' \in [G -> PC] /\ sema' \in Nat
      OBVIOUS
    <2>3. old' \in [G -> MutexWord]
      <3>1. CASE AfterCAS(g) = "cs"
        <4>1. Unlocked \in MutexWord
          OBVIOUS
        <4> QED
          BY <3>1, <4>1
      <3>2. CASE AfterCAS(g) # "cs"
        BY <3>2
      <3> QED
        BY <3>1, <3>2
    <2>4. awoke' \in [G -> BOOLEAN] /\ starving' \in [G -> BOOLEAN] /\ waited' \in [G -> BOOLEAN]
      <3>1. CASE AfterCAS(g) = "cs"
        <4>1. Unlocked \in MutexWord
          OBVIOUS
        <4> QED
          BY <3>1, <4>1
      <3>2. CASE AfterCAS(g) # "cs"
        BY <3>2
      <3> QED
        BY <3>1, <3>2
    <2>5. iter' \in [G -> 0..ActiveSpin]
      BY ActiveSpinAssumption
    <2> QED
      BY <2>2, <2>3, <2>4, <2>5
  <1>2. NoThrow'
    BY DEF NoThrow, LocalsCurrent
  <1>3. LockedIsHeld'
    BY DEF LockedIsHeld, MutualExclusion, OneWakeup, WakeupPending, Waker, StarvationMode, LocalsCurrent, NoThrow
  <1>4. OneWakeup'
    BY DEF OneWakeup, WakeupPending, Waker, StarvationMode, LocalsCurrent
  <1>5. StarvationMode'
    BY DEF StarvationMode, OneWakeup, Waker, LocalsCurrent
  <1>6. LocalsCurrent'
    BY DEF LocalsCurrent
  <1> QED
    BY <1>1, <1>2, <1>3, <1>4, <1>5, <1>6

(* The token of the semaphore makes its taker the one waker.               *)
LEMMA SemacquireMutexIInv ==
  ASSUME NEW g \in G, IInv, SemacquireMutex(g)
  PROVE  IInv'
  <1> USE DEF IInv, TypeOK, SemacquireMutex, Goto, locals
  <1>1. TypeOK'
    BY ActiveSpinAssumption
  <1>2. NoThrow'
    BY DEF NoThrow
  <1>3. LockedIsHeld'
    BY DEF LockedIsHeld, MutualExclusion
  <1>4. OneWakeup'
    BY DEF OneWakeup, WakeupPending, Waker
  <1>5. StarvationMode'
    BY DEF StarvationMode
  <1>6. LocalsCurrent'
    BY DEF LocalsCurrent
  <1> QED
    BY <1>2, <1>3, <1>4, <1>5, <1>6

(* A goroutine woken in normal mode stays the one waker.                   *)
LEMMA AwakeNormalIInv ==
  ASSUME NEW g \in G, NEW late \in BOOLEAN, IInv, AwakeNormal(g, late)
  PROVE  IInv'
  <1> USE DEF IInv, TypeOK, AwakeNormal, Goto, locals
  <1>1. TypeOK'
    BY ActiveSpinAssumption
  <1>2. NoThrow'
    BY DEF NoThrow
  <1>3. LockedIsHeld'
    BY DEF LockedIsHeld, MutualExclusion
  <1>4. OneWakeup'
    BY DEF OneWakeup, WakeupPending, Waker
  <1>5. StarvationMode'
    BY DEF StarvationMode
  <1>6. LocalsCurrent'
    BY DEF LocalsCurrent, OneWakeup, WakeupPending, Waker
  <1> QED
    BY <1>1, <1>2, <1>3, <1>4, <1>5, <1>6

(* A goroutine woken in starvation mode finds the word as it must be.      *)
LEMMA AwakeStarvingIInv ==
  ASSUME NEW g \in G, NEW late \in BOOLEAN, IInv, AwakeStarving(g, late)
  PROVE  IInv'
  <1> USE DEF IInv, TypeOK, AwakeStarving, Goto, locals, HandoffBroken
  <1>1. TypeOK'
    BY ActiveSpinAssumption
  <1>2. NoThrow'
    BY DEF NoThrow, OneWakeup, WakeupPending, Waker, StarvationMode
  <1>3. LockedIsHeld'
    BY DEF LockedIsHeld, MutualExclusion
  <1>4. OneWakeup'
    BY DEF OneWakeup, WakeupPending, Waker, StarvationMode
  <1>5. StarvationMode'
    BY DEF StarvationMode
  <1>6. LocalsCurrent'
    BY DEF LocalsCurrent, OneWakeup, WakeupPending, Waker, StarvationMode
  <1> QED
    BY <1>2, <1>3, <1>4, <1>5, <1>6

(* The addition of delta completes a handoff: the waker is the holder.     *)
LEMMA HandoffIInv ==
  ASSUME NEW g \in G, IInv, Handoff(g)
  PROVE  IInv'
  <1> USE DEF IInv, TypeOK, Handoff, Goto, locals, ExitsStarvation, ForgetLocals
  <1>1. TypeOK'
    <2>1. state' \in MutexWord
      <3>1. CASE state.waiters = 0
        BY <3>1
      <3>2. CASE state.waiters # 0
        <4>1. state.waiters - 1 \in Nat
          BY <3>2
        <4> QED
          BY <4>1
      <3> QED
        BY <3>1, <3>2
    <2>2. pc' \in [G -> PC] /\ sema' \in Nat
      OBVIOUS
    <2>3. old' \in [G -> MutexWord]
      OBVIOUS
    <2>4. awoke' \in [G -> BOOLEAN] /\ starving' \in [G -> BOOLEAN] /\ waited' \in [G -> BOOLEAN]
      OBVIOUS
    <2>5. iter' \in [G -> 0..ActiveSpin]
      BY ActiveSpinAssumption
    <2> QED
      BY <2>1, <2>5
  <1>2. NoThrow'
    BY DEF NoThrow, OneWakeup, WakeupPending, Waker, StarvationMode
  <1>3. LockedIsHeld'
    BY DEF LockedIsHeld, MutualExclusion
  <1>4. OneWakeup'
    BY DEF OneWakeup, WakeupPending, Waker, StarvationMode
  <1>5. StarvationMode'
    BY DEF StarvationMode, OneWakeup, Waker
  <1>6. LocalsCurrent'
    BY DEF LocalsCurrent
  <1> QED
    BY <1>1, <1>2, <1>3, <1>4, <1>5, <1>6

(* Unlock frees the mutex, or begins the handoff of a starving one.        *)
LEMMA UnlockIInv ==
  ASSUME NEW g \in G, IInv, Unlock(g)
  PROVE  IInv'
  <1> USE DEF IInv, TypeOK, Unlock, Goto, locals, AfterUnlock
  <1>1. TypeOK'
    BY ActiveSpinAssumption
  <1>2. NoThrow'
    BY DEF NoThrow, LockedIsHeld
  <1>3. LockedIsHeld'
    BY DEF LockedIsHeld, MutualExclusion
  <1>4. OneWakeup'
    BY DEF OneWakeup, WakeupPending, Waker, StarvationMode
  <1>5. StarvationMode'
    BY DEF StarvationMode
  <1>6. LocalsCurrent'
    BY DEF LocalsCurrent
  <1> QED
    BY <1>2, <1>3, <1>4, <1>5, <1>6

(* Giving up changes nothing.                                              *)
LEMMA UnlockReturnIInv ==
  ASSUME NEW g \in G, IInv, UnlockReturn(g)
  PROVE  IInv'
  <1> USE DEF IInv, TypeOK, UnlockReturn, Goto, locals, ForgetLocals
  <1>1. TypeOK'
    BY ActiveSpinAssumption
  <1>2. NoThrow'
    BY DEF NoThrow
  <1>3. LockedIsHeld'
    BY DEF LockedIsHeld, MutualExclusion
  <1>4. OneWakeup'
    BY DEF OneWakeup, WakeupPending, Waker
  <1>5. StarvationMode'
    BY DEF StarvationMode
  <1>6. LocalsCurrent'
    BY DEF LocalsCurrent
  <1> QED
    BY <1>1, <1>2, <1>3, <1>4, <1>5, <1>6

(* unlockSlow becomes the one waker when it sets mutexWoken.               *)
LEMMA UnlockCASIInv ==
  ASSUME NEW g \in G, IInv, UnlockCAS(g)
  PROVE  IInv'
  <1> USE DEF IInv, TypeOK, UnlockCAS, Goto, locals, NobodyToWake, WakeWord, ForgetLocals
  <1>1. TypeOK'
    <2>1. state' \in MutexWord
      <3>1. old[g].waiters - 1 \in Nat
        OBVIOUS
      <3>2. old[g] \in MutexWord
        OBVIOUS
      <3> QED
        BY <3>1, <3>2
    <2>2. pc' \in [G -> PC] /\ sema' \in Nat
      OBVIOUS
    <2>3. old' \in [G -> MutexWord]
      OBVIOUS
    <2>4. awoke' \in [G -> BOOLEAN] /\ starving' \in [G -> BOOLEAN] /\ waited' \in [G -> BOOLEAN]
      OBVIOUS
    <2>5. iter' \in [G -> 0..ActiveSpin]
      BY ActiveSpinAssumption
    <2> QED
      BY <2>1, <2>5
  <1>2. NoThrow'
    BY DEF NoThrow
  <1>3. LockedIsHeld'
    BY DEF LockedIsHeld, MutualExclusion
  <1>4. OneWakeup'
    BY DEF OneWakeup, WakeupPending, Waker
  <1>5. StarvationMode'
    BY DEF StarvationMode
  <1>6. LocalsCurrent'
    BY DEF LocalsCurrent
  <1> QED
    BY <1>1, <1>2, <1>3, <1>4, <1>5, <1>6

(* A failed CAS changes nothing.                                           *)
LEMMA UnlockFailedCASIInv ==
  ASSUME NEW g \in G, IInv, UnlockFailedCAS(g)
  PROVE  IInv'
  <1> USE DEF IInv, TypeOK, UnlockFailedCAS, Goto, locals
  <1>1. TypeOK'
    BY ActiveSpinAssumption
  <1>2. NoThrow'
    BY DEF NoThrow
  <1>3. LockedIsHeld'
    BY DEF LockedIsHeld, MutualExclusion
  <1>4. OneWakeup'
    BY DEF OneWakeup, WakeupPending, Waker
  <1>5. StarvationMode'
    BY DEF StarvationMode
  <1>6. LocalsCurrent'
    BY DEF LocalsCurrent
  <1> QED
    BY <1>2, <1>3, <1>4, <1>5, <1>6

(* Reloading the word changes nothing.                                     *)
LEMMA UnlockLoadIInv ==
  ASSUME NEW g \in G, IInv, UnlockLoad(g)
  PROVE  IInv'
  <1> USE DEF IInv, TypeOK, UnlockLoad, Goto, locals
  <1>1. TypeOK'
    BY ActiveSpinAssumption
  <1>2. NoThrow'
    BY DEF NoThrow
  <1>3. LockedIsHeld'
    BY DEF LockedIsHeld, MutualExclusion
  <1>4. OneWakeup'
    BY DEF OneWakeup, WakeupPending, Waker
  <1>5. StarvationMode'
    BY DEF StarvationMode
  <1>6. LocalsCurrent'
    BY DEF LocalsCurrent
  <1> QED
    BY <1>2, <1>3, <1>4, <1>5, <1>6

(* The waker passes its wake-up to the semaphore.                          *)
LEMMA SemreleaseIInv ==
  ASSUME NEW g \in G, IInv, Semrelease(g)
  PROVE  IInv'
  <1> USE DEF IInv, TypeOK, Semrelease, Goto, locals
  <1>1. TypeOK'
    BY ActiveSpinAssumption
  <1>2. NoThrow'
    BY DEF NoThrow
  <1>3. LockedIsHeld'
    BY DEF LockedIsHeld, MutualExclusion
  <1>4. OneWakeup'
    BY DEF OneWakeup, WakeupPending, Waker
  <1>5. StarvationMode'
    BY DEF StarvationMode
  <1>6. LocalsCurrent'
    BY DEF LocalsCurrent
  <1> QED
    BY <1>2, <1>3, <1>4, <1>5, <1>6

-----------------------------------------------------------------------------
(* The inductive invariant of sync.Mutex holds in every reachable state,   *)
(* whatever the number of goroutines.                                      *)
THEOREM Invariance == Spec => []IInv
  <1>1. IInv /\ [Next]_vars => IInv'
    <2> SUFFICES ASSUME IInv, [Next]_vars
                 PROVE  IInv'
      OBVIOUS
    <2>1. CASE UNCHANGED vars
      BY <2>1
         DEF vars, IInv, TypeOK, NoThrow, LockedIsHeld, MutualExclusion, OneWakeup, WakeupPending, Waker,
             StarvationMode, LocalsCurrent
    <2>2. ASSUME NEW g \in G, LockStep(g)
          PROVE  IInv'
      BY <2>2, LockFastIInv, LockContendedIInv, LoadOldIInv, SpinIInv, CompareAndSwapIInv, AwakeNormalIInv,
         AwakeStarvingIInv, HandoffIInv
         DEF LockStep
    <2>3. ASSUME NEW g \in G, UnlockStep(g)
          PROVE  IInv'
      BY <2>3, UnlockIInv, UnlockReturnIInv, UnlockCASIInv, UnlockFailedCASIInv, UnlockLoadIInv DEF UnlockStep
    <2>4. ASSUME NEW g \in G, SemaStep(g)
          PROVE  IInv'
      BY <2>4, SemacquireMutexIInv, SemreleaseIInv DEF SemaStep
    <2> QED
      BY <2>1, <2>2, <2>3, <2>4 DEF Next
  <1> QED
    BY InitIInv, <1>1, PTL DEF Spec

(* The variables of sync.Mutex keep their types.                           *)
THEOREM TypeCorrectness == Spec => []TypeOK
  <1>1. IInv => TypeOK
    BY DEF IInv
  <1> QED
    BY Invariance, <1>1, PTL

(* Two goroutines are never between Lock and Unlock together.              *)
THEOREM MutexExcludes == Spec => []MutualExclusion
  <1>1. IInv => MutualExclusion
    BY DEF IInv, LockedIsHeld
  <1> QED
    BY Invariance, <1>1, PTL

(* None of the throws of mutex.go is reachable for a client that unlocks   *)
(* only what it locked.                                                    *)
THEOREM MutexNeverThrows == Spec => []NoThrow
  <1>1. IInv => NoThrow
    BY DEF IInv
  <1> QED
    BY Invariance, <1>1, PTL

(* mutexWoken and a handoff stand for exactly one wake-up under way.       *)
THEOREM MutexOneWakeup == Spec => []OneWakeup
  <1>1. IInv => OneWakeup
    BY DEF IInv
  <1> QED
    BY Invariance, <1>1, PTL


-----------------------------------------------------------------------------
(* What unlockSlow's old says about a free mutex that has waiters: while   *)
(* nobody else will wake one, the unlocker that freed it has not given up. *)

(* No step loses a wake-up.                                                *)
LEMMA NoLostWakeupStep ==
  ASSUME IInv, NoLostWakeup, [Next]_vars
  PROVE  NoLostWakeup'
  <1> USE DEF IInv, TypeOK, NoLostWakeup, WakeupPending, NobodyToWake, Goto, locals
  <1>1. CASE UNCHANGED vars
    BY <1>1 DEF vars
  <1>2. ASSUME NEW g \in G, LockFast(g) \/ LockContended(g)
        PROVE  NoLostWakeup'
    BY <1>2 DEF LockFast, LockContended
  <1>3. ASSUME NEW g \in G, LoadOld(g)
        PROVE  NoLostWakeup'
    BY <1>3 DEF LoadOld
  <1>4. ASSUME NEW g \in G, Spin(g)
        PROVE  NoLostWakeup'
    BY <1>4 DEF Spin, CanSpin, MayClaimWoken
  <1>5. ASSUME NEW g \in G, CompareAndSwap(g)
        PROVE  NoLostWakeup'
    BY <1>5 DEF CompareAndSwap, NewWord
  <1>6. ASSUME NEW g \in G, NEW late \in BOOLEAN, AwakeNormal(g, late) \/ AwakeStarving(g, late)
        PROVE  NoLostWakeup'
    BY <1>6 DEF AwakeNormal, AwakeStarving
  <1>7. ASSUME NEW g \in G, Handoff(g)
        PROVE  NoLostWakeup'
    BY <1>7 DEF Handoff, ForgetLocals
  <1>8. ASSUME NEW g \in G, Unlock(g)
        PROVE  NoLostWakeup'
    BY <1>8 DEF Unlock, AfterUnlock, LockedIsHeld
  <1>9. ASSUME NEW g \in G, UnlockReturn(g) \/ UnlockCAS(g)
        PROVE  NoLostWakeup'
    BY <1>9 DEF UnlockReturn, UnlockCAS, WakeWord, ForgetLocals
  <1>10. ASSUME NEW g \in G, UnlockFailedCAS(g) \/ UnlockLoad(g)
         PROVE  NoLostWakeup'
    BY <1>10 DEF UnlockFailedCAS, UnlockLoad
  <1>11. ASSUME NEW g \in G, SemacquireMutex(g) \/ Semrelease(g)
         PROVE  NoLostWakeup'
    BY <1>11 DEF SemacquireMutex, Semrelease
  <1> QED
    BY <1>1, <1>2, <1>3, <1>4, <1>5, <1>6, <1>7, <1>8, <1>9, <1>10, <1>11
       DEF Next, LockStep, UnlockStep, SemaStep

(* A free mutex with waiters is never left without somebody who will wake  *)
(* one: the early return of unlockSlow is safe.                            *)
THEOREM MutexLosesNoWakeup == Spec => []NoLostWakeup
  <1>1. Init => NoLostWakeup
    BY DEF Init, NoLostWakeup
  <1> QED
    BY Invariance, NoLostWakeupStep, <1>1, PTL DEF Spec

-----------------------------------------------------------------------------
(* Every step of sync.Mutex is a step of Locker or leaves every status.    *)
LEMMA LockerStep ==
  ASSUME IInv, IInv', [Next]_vars
  PROVE  [Abs!Next]_lockStatus
  <1> USE DEF IInv, TypeOK, Goto, locals, Abs!Next, Abs!Wait, Abs!Lock, Abs!Unlock, Abs!Free, lockStatus
  <1>1. CASE UNCHANGED vars
    BY <1>1 DEF vars
  <1>2. ASSUME NEW g \in G, LockFast(g)
        PROVE  Abs!Lock(g)
    BY <1>2 DEF LockFast, LockedIsHeld
  <1>3. ASSUME NEW g \in G, LockContended(g)
        PROVE  Abs!Wait(g)
    BY <1>3 DEF LockContended
  <1>4. ASSUME NEW g \in G, CompareAndSwap(g)
        PROVE  Abs!Lock(g) \/ UNCHANGED lockStatus
    BY <1>4 DEF CompareAndSwap, AfterCAS, NewWord, LockedIsHeld, NoThrow
  <1>5. ASSUME NEW g \in G, Handoff(g)
        PROVE  Abs!Lock(g)
    BY <1>5 DEF Handoff, LockedIsHeld, NoThrow
  <1>6. ASSUME NEW g \in G, Unlock(g)
        PROVE  Abs!Unlock(g)
    BY <1>6 DEF Unlock, AfterUnlock, NoThrow
  <1>7. ASSUME NEW g \in G, LoadOld(g) \/ Spin(g)
        PROVE  UNCHANGED lockStatus
    BY <1>7 DEF LoadOld, Spin
  <1>8. ASSUME NEW g \in G, NEW late \in BOOLEAN, AwakeNormal(g, late) \/ AwakeStarving(g, late)
        PROVE  UNCHANGED lockStatus
    BY <1>8 DEF AwakeNormal, AwakeStarving, NoThrow
  <1>9. ASSUME NEW g \in G,
               UnlockReturn(g) \/ UnlockCAS(g) \/ UnlockFailedCAS(g) \/ UnlockLoad(g)
        PROVE  UNCHANGED lockStatus
    BY <1>9 DEF UnlockReturn, UnlockCAS, UnlockFailedCAS, UnlockLoad
  <1>10. ASSUME NEW g \in G, SemaStep(g)
         PROVE  UNCHANGED lockStatus
    BY <1>10 DEF SemaStep, SemacquireMutex, Semrelease
  <1> HIDE DEF IInv, TypeOK, Goto, Abs!Wait, Abs!Lock, Abs!Unlock, Abs!Free, lockStatus
  <1> QED
    BY <1>1, <1>2, <1>3, <1>4, <1>5, <1>6, <1>7, <1>8, <1>9, <1>10 DEF Next, LockStep, UnlockStep

(* sync.Mutex implements the Locker interface.                             *)
THEOREM MutexImplementsLocker == Spec => LockerSpec
  <1>1. Init => Abs!Init
    BY DEF Init, Abs!Init, lockStatus
  <1> QED
    BY Invariance, LockerStep, <1>1, PTL DEF Spec, LockerSpec, Abs!Spec

-----------------------------------------------------------------------------
(* The waiter count.  The goroutines asleep on m.sema or with a token of   *)
(* it, those asleep, and those about to release one.                       *)
Handed == At(G, pc, {"semacquire", "awake", "handoff"})
Sleeping == At(G, pc, {"semacquire"})
Paying == At(G, pc, {"semrelease"})

Counted ==
  IF state.starving THEN state.waiters = Handed ELSE state.waiters + sema + Paying = Sleeping

(* WaitersCounted in these words.                                          *)
LEMMA CountedMeans == (WaitersCounted <=> Counted) /\ (WaitersCounted' <=> Counted')
  BY DEF WaitersCounted, Counted, Handed, Sleeping, Paying, At

(* What the counts are in a state with at most one waker.                  *)
LEMMA MutexCounts ==
  /\ Handed \in Nat /\ Sleeping \in Nat /\ Paying \in Nat
  /\ (\A h \in G : pc[h] \notin {"awake", "handoff"}) => Handed = Sleeping
  /\ (\A h \in G : pc[h] # "semrelease") => Paying = 0
  /\ \A g \in G : pc[g] = "handoff" /\ (\A h \in G : pc[h] \in {"awake", "handoff"} => h = g) =>
       Handed = Sleeping + 1
  <1>1. \A L : At(G, pc, L) \in Nat /\ (At(G, pc, L) = 0 <=> \A x \in G : pc[x] \notin L)
    BY GAssumption, AtIsNat
  <1>2. At(G, pc, {"semacquire"} \cup {"awake", "handoff"}) = Sleeping + At(G, pc, {"awake", "handoff"})
    BY GAssumption, AtDisjoint DEF Sleeping
  <1>3. {"semacquire"} \cup {"awake", "handoff"} = {"semacquire", "awake", "handoff"}
    OBVIOUS
  <1>4. Handed = Sleeping + At(G, pc, {"awake", "handoff"})
    BY <1>2, <1>3 DEF Handed
  <1>5. ASSUME NEW g \in G, pc[g] = "handoff", \A h \in G : pc[h] \in {"awake", "handoff"} => h = g
        PROVE  At(G, pc, {"awake", "handoff"}) = 1
    BY <1>5, GAssumption, AtOnly
  <1>6. Handed \in Nat /\ Sleeping \in Nat /\ Paying \in Nat
    BY <1>1 DEF Handed, Sleeping, Paying
  <1>7. (\A h \in G : pc[h] \notin {"awake", "handoff"}) => At(G, pc, {"awake", "handoff"}) = 0
    BY <1>1
  <1>8. (\A h \in G : pc[h] # "semrelease") => Paying = 0
    BY <1>1 DEF Paying
  <1> QED
    BY <1>4, <1>5, <1>6, <1>7, <1>8

(* A goroutine moves from one count to another.                            *)
LEMMA MutexCountsMove ==
  ASSUME pc \in [G -> PC], NEW g \in G, NEW from, NEW to, Goto(g, from, to)
  PROVE  /\ Handed' = Handed + In(to, {"semacquire", "awake", "handoff"})
                        - In(from, {"semacquire", "awake", "handoff"})
         /\ Sleeping' = Sleeping + In(to, {"semacquire"}) - In(from, {"semacquire"})
         /\ Paying' = Paying + In(to, {"semrelease"}) - In(from, {"semrelease"})
  <1>1. OthersStay(G, pc, pc', g) /\ pc[g] = from /\ pc'[g] = to
    BY DEF OthersStay, Goto
  <1>2. \A p, q, L : OthersStay(G, p, q, g) => At(G, q, L) = At(G, p, L) + In(q[g], L) - In(p[g], L)
    BY GAssumption, AtMove
  <1>3. \A L : At(G, pc', L) = At(G, pc, L) + In(to, L) - In(from, L)
    BY <1>1, <1>2
  <1> QED
    BY <1>3 DEF Handed, Sleeping, Paying

(* A step keeps Counted, when it keeps the word and the semaphore and does *)
(* not touch the places that count.                                        *)
LEMMA CountedStays ==
  ASSUME pc \in [G -> PC], Counted, NEW g \in G, NEW from, NEW to, Goto(g, from, to),
         {from, to} \cap {"semacquire", "awake", "handoff", "semrelease"} = {},
         state'.starving = state.starving, state'.waiters = state.waiters, sema' = sema
  PROVE  Counted'
  <1>1. /\ In(to, {"semacquire", "awake", "handoff"}) = 0 /\ In(from, {"semacquire", "awake", "handoff"}) = 0
        /\ In(to, {"semacquire"}) = 0 /\ In(from, {"semacquire"}) = 0
        /\ In(to, {"semrelease"}) = 0 /\ In(from, {"semrelease"}) = 0
    BY DEF In
  <1>2. Handed' = Handed /\ Sleeping' = Sleeping /\ Paying' = Paying
    BY <1>1, MutexCounts, MutexCountsMove
  <1> QED
    BY <1>2 DEF Counted

(* The CAS of lockSlow counts the goroutine before it sleeps; starvation   *)
(* mode begins with the only waker, so that there is nothing to carry over *)
(* from one form of the count to the other.                                *)
LEMMA CompareAndSwapCounted ==
  ASSUME IInv, Counted, NEW g \in G, CompareAndSwap(g)
  PROVE  Counted'
  <1>1. /\ Goto(g, "loop", AfterCAS(g)) /\ sema' = sema
        /\ state' = IF AfterCAS(g) \in {"semacquire", "cs"}
                      THEN NewWord(old[g], starving[g], awoke[g]) ELSE state
    BY DEF CompareAndSwap
  <1>2. /\ pc \in [G -> PC] /\ pc[g] = "loop" /\ state \in MutexWord /\ sema \in Nat
        /\ starving[g] \in BOOLEAN /\ awoke[g] \in BOOLEAN /\ old[g] \in MutexWord
    BY <1>1 DEF IInv, TypeOK, Goto
  <1>3. CASE AfterCAS(g) = "semacquire"
    <2>1. state = old[g] /\ (state.locked \/ state.starving)
      BY <1>3 DEF AfterCAS
    <2>2. /\ state'.waiters = state.waiters + 1
          /\ state'.starving = (state.starving \/ (starving[g] /\ state.locked))
      BY <1>1, <1>2, <1>3, <2>1 DEF NewWord
    <2>3. Handed' = Handed + 1 /\ Sleeping' = Sleeping + 1 /\ Paying' = Paying
      BY <1>1, <1>2, <1>3, MutexCounts, MutexCountsMove DEF In
    <2>4. CASE state'.starving /\ ~state.starving
      <3>1. awoke[g] /\ Waker(g)
        BY <1>2, <2>2, <2>4 DEF IInv, LocalsCurrent, Waker
      <3>2. sema = 0 /\ \A h \in G : Waker(h) => h = g
        BY <3>1 DEF IInv, OneWakeup
      <3>3. \A h \in G : pc[h] \notin {"awake", "handoff", "semrelease"}
        BY <1>2, <3>2 DEF Waker
      <3>4. Handed = Sleeping /\ Paying = 0
        BY <3>3, MutexCounts
      <3> QED
        BY <1>2, <2>2, <2>3, <2>4, <3>2, <3>4, MutexCounts DEF Counted
    <2>5. CASE state'.starving <=> state.starving
      BY <1>1, <1>2, <2>2, <2>3, <2>5, MutexCounts DEF Counted
    <2> QED
      BY <2>2, <2>4, <2>5
  <1>4. CASE AfterCAS(g) = "cs"
    <2>1. state = old[g] /\ ~state.locked /\ ~state.starving
      BY <1>4 DEF AfterCAS
    <2>2. state'.waiters = state.waiters /\ state'.starving = FALSE /\ state.starving = FALSE
      BY <1>1, <1>2, <1>4, <2>1 DEF NewWord
    <2> QED
      BY <1>1, <1>2, <1>4, <2>2, CountedStays
  <1>5. CASE AfterCAS(g) \in {"throw", "load"}
    BY <1>1, <1>2, <1>5, CountedStays
  <1> QED
    BY <1>3, <1>4, <1>5 DEF AfterCAS

(* A handoff takes the waiter off the count; when it ends starvation mode, *)
(* it was the only wake-up under way.                                      *)
LEMMA HandoffCounted ==
  ASSUME IInv, Counted, NEW g \in G, Handoff(g), NoThrow'
  PROVE  Counted'
  <1>1. pc \in [G -> PC] /\ pc[g] = "handoff" /\ state \in MutexWord /\ sema \in Nat
    BY DEF IInv, TypeOK, Handoff, Goto
  <1>2. Goto(g, "handoff", "cs") /\ sema' = sema /\ state.starving /\ state.waiters # 0
    <2>1. pc'[g] # "throw"
      BY DEF NoThrow
    <2> QED
      BY <1>1, <2>1 DEF Handoff, Goto
  <1>3. state'.waiters = state.waiters - 1 /\ state'.starving \in BOOLEAN
    BY <1>1, <1>2 DEF Handoff, Goto
  <1>4. Handed' = Handed - 1 /\ Sleeping' = Sleeping /\ Paying' = Paying
    BY <1>1, <1>2, MutexCounts, MutexCountsMove DEF In
  <1>5. sema = 0 /\ \A h \in G : Waker(h) => h = g
    BY <1>1 DEF IInv, OneWakeup, Waker
  <1>6. \A h \in G : pc[h] \in {"awake", "handoff", "semrelease"} => h = g
    BY <1>5 DEF Waker
  <1>7. Handed = Sleeping + 1 /\ Paying = 0
    BY <1>1, <1>6, MutexCounts
  <1> QED
    BY <1>1, <1>2, <1>3, <1>4, <1>5, <1>7, MutexCounts DEF Counted

(* Every other step.                                                       *)
LEMMA CountedStep ==
  ASSUME IInv, NoThrow', Counted, [Next]_vars
  PROVE  Counted'
  <1>0. pc \in [G -> PC] /\ state \in MutexWord /\ sema \in Nat
    BY DEF IInv, TypeOK
  <1>1. CASE UNCHANGED vars
    BY <1>1 DEF vars, Counted, Handed, Sleeping, Paying
  <1>2. ASSUME NEW g \in G, LockFast(g) \/ LockContended(g) \/ LoadOld(g)
        PROVE  Counted'
    BY <1>0, <1>2, CountedStays DEF LockFast, LockContended, LoadOld
  <1>3. ASSUME NEW g \in G, Spin(g)
        PROVE  Counted'
    <2>1. state'.starving = state.starving /\ state'.waiters = state.waiters
      BY <1>0, <1>3 DEF Spin
    <2> QED
      BY <1>0, <1>3, <2>1, CountedStays DEF Spin
  <1>4. ASSUME NEW g \in G, NEW late \in BOOLEAN, AwakeNormal(g, late)
        PROVE  Counted'
    <2>1. Sleeping' = Sleeping /\ Paying' = Paying /\ ~state.starving /\ state' = state /\ sema' = sema
      BY <1>0, <1>4, MutexCounts, MutexCountsMove DEF AwakeNormal, In
    <2> QED
      BY <2>1 DEF Counted
  <1>5. ASSUME NEW g \in G, NEW late \in BOOLEAN, AwakeStarving(g, late)
        PROVE  Counted'
    <2>1. Goto(g, "awake", "handoff") /\ state.starving /\ state' = state
      <3>1. pc'[g] # "throw"
        BY DEF NoThrow
      <3> QED
        BY <1>0, <1>5, <3>1 DEF AwakeStarving, Goto
    <2>2. Handed' = Handed
      BY <1>0, <2>1, MutexCounts, MutexCountsMove DEF In
    <2> QED
      BY <2>1, <2>2 DEF Counted
  <1>6. ASSUME NEW g \in G, Unlock(g)
        PROVE  Counted'
    <2>1. /\ state'.starving = state.starving /\ state'.waiters = state.waiters /\ sema' = sema
          /\ \E to \in {"idle", "semreleaseHandoff", "unlockSlow", "throw"} : Goto(g, "cs", to)
      BY <1>0, <1>6 DEF Unlock, AfterUnlock
    <2> QED
      BY <1>0, <2>1, CountedStays
  <1>7. ASSUME NEW g \in G, UnlockReturn(g) \/ UnlockFailedCAS(g) \/ UnlockLoad(g)
        PROVE  Counted'
    BY <1>0, <1>7, CountedStays DEF UnlockReturn, UnlockFailedCAS, UnlockLoad
  <1>8. ASSUME NEW g \in G, UnlockCAS(g)
        PROVE  Counted'
    <2>1. /\ Goto(g, "unlockSlow", "semrelease") /\ sema' = sema /\ ~state.starving
          /\ state'.waiters = state.waiters - 1 /\ state'.starving = state.starving /\ state.waiters # 0
      BY <1>0, <1>8 DEF UnlockCAS, NobodyToWake, WakeWord
    <2>2. Sleeping' = Sleeping /\ Paying' = Paying + 1
      BY <1>0, <2>1, MutexCounts, MutexCountsMove DEF In
    <2> QED
      BY <1>0, <2>1, <2>2, MutexCounts DEF Counted
  <1>9. ASSUME NEW g \in G, SemacquireMutex(g)
        PROVE  Counted'
    <2>1. Goto(g, "semacquire", "awake") /\ sema > 0 /\ sema' = sema - 1 /\ state' = state
      BY <1>9 DEF SemacquireMutex
    <2>2. Handed' = Handed /\ Sleeping' = Sleeping - 1 /\ Paying' = Paying
      BY <1>0, <2>1, MutexCounts, MutexCountsMove DEF In
    <2> QED
      BY <1>0, <2>1, <2>2, MutexCounts DEF Counted
  <1>10. ASSUME NEW g \in G, Semrelease(g)
         PROVE  Counted'
    <2>1. sema' = sema + 1 /\ state' = state
      BY <1>10 DEF Semrelease
    <2>2. CASE Goto(g, "semrelease", "idle")
      <3>1. ~state.starving
        BY <2>2 DEF IInv, StarvationMode, Goto
      <3>2. Sleeping' = Sleeping /\ Paying' = Paying - 1
        BY <1>0, <2>2, MutexCounts, MutexCountsMove DEF In
      <3> QED
        BY <1>0, <2>1, <3>1, <3>2, MutexCounts DEF Counted
    <2>3. CASE Goto(g, "semreleaseHandoff", "idle")
      <3>1. state.starving
        BY <2>3 DEF IInv, StarvationMode, Goto
      <3>2. Handed' = Handed
        BY <1>0, <2>3, MutexCounts, MutexCountsMove DEF In
      <3> QED
        BY <2>1, <3>1, <3>2 DEF Counted
    <2> QED
      BY <1>10, <2>2, <2>3 DEF Semrelease, Goto
  <1> QED
    BY <1>1, <1>2, <1>3, <1>4, <1>5, <1>6, <1>7, <1>8, <1>9, <1>10, CompareAndSwapCounted, HandoffCounted
       DEF Next, LockStep, UnlockStep, SemaStep

(* The waiter count of m.state is the number of goroutines that wait, in   *)
(* normal mode and in starvation mode, for any number of goroutines: no    *)
(* wake-up of unlockSlow is paid for twice or not at all.                  *)
THEOREM MutexCountsWaiters == Spec => []WaitersCounted
  <1>1. Init => Counted
    <2> SUFFICES ASSUME Init PROVE Counted
      OBVIOUS
    <2>1. \A L : At(G, pc, L) \in Nat /\ (At(G, pc, L) = 0 <=> \A x \in G : pc[x] \notin L)
      BY GAssumption, AtIsNat
    <2>2. Sleeping = 0 /\ Paying = 0
      BY <2>1 DEF Init, Sleeping, Paying
    <2> QED
      BY <2>2 DEF Init, Counted
  <1>2. IInv' => NoThrow'
    BY DEF IInv
  <1>3. Counted => WaitersCounted
    BY CountedMeans
  <1> QED
    BY Invariance, CountedStep, <1>1, <1>2, <1>3, PTL DEF Spec

=============================================================================
