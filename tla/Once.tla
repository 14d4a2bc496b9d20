-------------------------------- MODULE Once --------------------------------
(***************************************************************************)
(* sync.Once (src/src/sync/once.go): goroutines that call Do, any number   *)
(* of times.  f may return or panic, and takes its time.  o.m is a Locker  *)
(* (module Mutex implements it).                                           *)
(***************************************************************************)
EXTENDS Naturals, Goroutines

VARIABLES
  done,   \* o.done # 0
  m,      \* the holder of o.m
  at,     \* the next step of each goroutine
  begun,  \* history: how often f has been called
  ended   \* history: how often f has returned or panicked

onceVars == <<done, m, at, begun, ended>>

InDo == {"lock", "check", "f", "store", "unlock"}
Holding == InDo \ {"lock"}

OnceTypeOK ==
  /\ done \in BOOLEAN
  /\ m \in G \cup {None}
  /\ at \in [G -> InDo \cup {"idle", "returned"}]
  /\ begun \in Nat
  /\ ended \in Nat

OnceInit ==
  /\ done = FALSE
  /\ m = None
  /\ at = [g \in G |-> "idle"]
  /\ begun = 0
  /\ ended = 0

DoGoto(g, from, to) ==
  /\ at[g] = from
  /\ at' = [at EXCEPT ![g] = to]

-----------------------------------------------------------------------------
(* The fast path: atomic.LoadUint32(&o.done).                              *)
Do(g) ==
  /\ DoGoto(g, "idle", IF done THEN "returned" ELSE "lock")
  /\ UNCHANGED <<done, m, begun, ended>>

(* o.m.Lock().                                                             *)
DoLock(g) ==
  /\ DoGoto(g, "lock", "check")
  /\ m = None
  /\ m' = g
  /\ UNCHANGED <<done, begun, ended>>

(* Mutant of Check: o.done is set before f is called.                      *)
CheckStores(g) ==
  /\ DoGoto(g, "check", IF done THEN "unlock" ELSE "f")
  /\ begun' = IF done THEN begun ELSE begun + 1
  /\ done' = TRUE
  /\ UNCHANGED <<m, ended>>

(* o.done == 0, and if so f is called, with the store deferred.            *)
Check(g) ==
  /\ DoGoto(g, "check", IF done THEN "unlock" ELSE "f")
  /\ begun' = IF done THEN begun ELSE begun + 1
  /\ UNCHANGED <<done, m, ended>>

(* f returns or panics; the deferred calls are made all the same.          *)
EndF(g) ==
  /\ DoGoto(g, "f", "store")
  /\ ended' = ended + 1
  /\ UNCHANGED <<done, m, begun>>

(* defer atomic.StoreUint32(&o.done, 1).                                   *)
Store(g) ==
  /\ DoGoto(g, "store", "unlock")
  /\ done' = TRUE
  /\ UNCHANGED <<m, begun, ended>>

(* defer o.m.Unlock(), and Do returns.                                     *)
DoUnlock(g) ==
  /\ DoGoto(g, "unlock", "returned")
  /\ m' = None
  /\ UNCHANGED <<done, begun, ended>>

(* The goroutine goes on, and may call Do again.                           *)
GoOn(g) ==
  /\ DoGoto(g, "returned", "idle")
  /\ UNCHANGED <<done, m, begun, ended>>

-----------------------------------------------------------------------------
DoStep(g) == DoLock(g) \/ Check(g) \/ EndF(g) \/ Store(g) \/ DoUnlock(g)

OnceNext == \E g \in G : Do(g) \/ DoStep(g) \/ GoOn(g)

OnceSpec == OnceInit /\ [][OnceNext]_onceVars

-----------------------------------------------------------------------------
(* f is called at most once, and "Do guarantees that when it returns, f    *)
(* has finished": also in the calls that did not call f, and when f        *)
(* panics.                                                                 *)
CalledOnce ==
  /\ begun <= 1
  /\ (\E g \in G : at[g] = "returned") => ended = 1 /\ begun = 1

(* What makes it inductive: done follows the end of f, and the             *)
(* goroutine that runs f has the lock.                                     *)
MutexHeld == \A g \in G : at[g] \in Holding <=> m = g
Running == {g \in G : at[g] \in {"f", "store"}}
DoneAfterF ==
  /\ done => begun = 1 /\ ended = 1
  /\ ~done /\ Running = {} => begun = 0 /\ ended = 0
  /\ \A g \in Running : ~done /\ begun = 1 /\ ended = IF at[g] = "f" THEN 0 ELSE 1
  /\ \A g \in G : at[g] \in {"unlock", "returned"} => done

OnceInv == OnceTypeOK /\ MutexHeld /\ DoneAfterF

=============================================================================
