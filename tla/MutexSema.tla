----------------------------- MODULE MutexSema -----------------------------
(***************************************************************************)
(* sync.Mutex on the semaphore of runtime/sema.go: module Mutex with its   *)
(* counting semaphore replaced by module Sema.  Lock and Unlock take their *)
(* steps as in Mutex; a goroutine at runtime_SemacquireMutex(&m.sema,      *)
(* queueLifo) or runtime_Semrelease(&m.sema, handoff) takes those of Sema  *)
(* until the call returns.                                                 *)
(***************************************************************************)
EXTENDS Sema

CONSTANTS
  ActiveSpin,  \* as in Mutex
  m            \* &m.sema

ASSUME OneSemaphore == Addr = {m}

VARIABLES state, pc, old, starving, awoke, iter, waited

mutexvars == <<state, pc, old, starving, awoke, iter, waited>>
vars == <<mutexvars, semavars>>

(* The code of mutex.go.  Its own steps leave the semaphore alone.         *)
Code == INSTANCE Mutex WITH sema <- 0

Init == Code!Init /\ SemaInit

MutexStep(g) ==
  /\ Code!LockStep(g) \/ Code!UnlockStep(g)
  /\ UNCHANGED semavars

(* runtime_SemacquireMutex has returned.                                   *)
Awake(g) ==
  /\ pc' = [pc EXCEPT ![g] = "awake"]
  /\ waited' = [waited EXCEPT ![g] = TRUE]
  /\ UNCHANGED <<state, old, starving, awoke, iter>>

(* runtime_SemacquireMutex(&m.sema, queueLifo, 1).                         *)
SemacquireMutex(g) ==
  /\ pc[g] = "semacquire"
  /\ \/ EasyAcquire(g, m) /\ Awake(g)
     \/ EasyMiss(g, m, waited[g]) /\ UNCHANGED mutexvars
     \/ AcquireReturns(g) /\ Awake(g)
     \/ AcquireStep(g) /\ UNCHANGED mutexvars

(* runtime_Semrelease(&m.sema, handoff, 1), and the return of Unlock.      *)
Semrelease(g) ==
  /\ pc[g] \in Code!Releasing
  /\ \/ /\ Release(g, m, pc[g] = "semreleaseHandoff")
        /\ UNCHANGED pc
     \/ /\ ReleaseStep(g)
        /\ pc' = IF spc'[g] = "idle" THEN [pc EXCEPT ![g] = "idle"] ELSE pc
  /\ UNCHANGED <<state, old, starving, awoke, iter, waited>>

Next == \E g \in G : MutexStep(g) \/ SemacquireMutex(g) \/ Semrelease(g)

Spec == Init /\ [][Next]_vars

(* Goroutines are scheduled fairly and every holder unlocks, but nobody    *)
(* has to call Lock.                                                       *)
Fairness ==
  \A g \in G : /\ WF_vars(MutexStep(g) /\ pc[g] # "idle")
               /\ WF_vars(SemacquireMutex(g))
               /\ WF_vars(Semrelease(g))

FairSpec == Spec /\ Fairness

-----------------------------------------------------------------------------
(* A goroutine holds a token although its call has not returned yet.       *)
HasToken(g) == spc[g] = "undo" \/ (spc[g] = "ready" /\ ticket[g])

(* The mutex with the real semaphore implements the mutex with a counting  *)
(* semaphore: SemacquireMutex takes effect when the token is taken, by or  *)
(* for the waiter, and Semrelease when it raises m.sema, although its      *)
(* wake-up comes later and may find the token gone.                        *)
Abs == INSTANCE Mutex WITH
  sema <- val[m],
  waited <- [g \in G |-> waited[g] \/ HasToken(g)],
  pc <- [g \in G |-> IF HasToken(g) THEN "awake"
                     ELSE IF spc[g] \in SemReleasing THEN "idle"
                     ELSE pc[g]]

MutexSpec == Abs!Spec

(* A call of Lock that had to wait for a free mutex is not forgotten: with *)
(* a real queue of sleepers too, somebody gets the mutex.                  *)
Progress == (\E g \in G : pc[g] \in Code!SlowLock) ~> (\E g \in G : pc[g] = "cs")

(* mutex.go: "In starvation mode ownership of the mutex is directly handed *)
(* off from the unlocking goroutine to the waiter at the front of the      *)
(* queue.  New arriving goroutines [...] queue themselves at the tail":    *)
(* while others are asleep, a goroutine in its first sleep comes out of    *)
(* the semaphore of a starving mutex only if it was dequeued.              *)
HandoffToFront ==
  [][\A g \in G :
       /\ state.starving /\ pc[g] = "semacquire" /\ pc'[g] = "awake"
       /\ ~waited[g]
       /\ \E h \in G \ {g} : spc[h] = "parked"
       => spc[g] = "ready"]_vars

=============================================================================
