------------------------------ MODULE FdMutex ------------------------------
(***************************************************************************)
(* fdMutex (src/src/internal/poll/fd_mutex.go): the lifetime of a file     *)
(* descriptor and the locks of its readers and writers in one word.        *)
(*                                                                         *)
(* A loop of Load and CompareAndSwap on the word is one step: an attempt   *)
(* that fails changes nothing.  rsema, wsema and fd.csema are counting     *)
(* semaphores, as module Sema shows.  The counts do not reach their 20     *)
(* bits, so nobody panics with overflowMsg.                                *)
(***************************************************************************)
EXTENDS Integers, Goroutines

VARIABLES
  fdmu,   \* the word: closed, locked (RLock, WLock), refs, wait (RWait, WWait)
  rwsema, \* rsema and wsema
  role,   \* what a goroutine does: "r", "w", "misc", "close" or None
  fpc,    \* the next step of each goroutine
  owe,    \* owe[g][m]: the tokens that g has still to release for mode m
  next    \* next[g]: where g goes on when it has released them

fdmuVars == <<fdmu, rwsema, role, fpc, owe, next>>

Mode == {"r", "w"}
Nobody == [m \in Mode |-> 0]

FPC == {"idle", "use", "sleep", "lock", "release", "evict", "csema", "destroy"}

FdMutexTypeOK ==
  /\ fdmu \in [closed : BOOLEAN, locked : SUBSET Mode, refs : Nat, wait : [Mode -> Nat]]
  /\ rwsema \in [Mode -> Nat]
  /\ role \in [G -> Mode \cup {"misc", "close", None}]
  /\ fpc \in [G -> FPC]
  /\ owe \in [G -> [Mode -> Nat]]
  /\ next \in [G -> {"idle", "evict", "destroy"}]

FdMutexInit ==
  /\ fdmu = [closed |-> FALSE, locked |-> {}, refs |-> 0, wait |-> Nobody]
  /\ rwsema = Nobody
  /\ role = [g \in G |-> None]
  /\ fpc = [g \in G |-> "idle"]
  /\ owe = [g \in G |-> Nobody]
  /\ next = [g \in G |-> "idle"]

-----------------------------------------------------------------------------
FGoto(g, from, to) ==
  /\ fpc[g] \in from
  /\ fpc' = [fpc EXCEPT ![g] = to]
  /\ role' = [role EXCEPT ![g] = IF to = "idle" THEN None ELSE @]

(* g releases the tokens o and then goes on at s.                          *)
ReleaseThen(g, from, o, s) ==
  /\ FGoto(g, from, IF o = Nobody THEN s ELSE "release")
  /\ owe' = [owe EXCEPT ![g] = o]
  /\ next' = [next EXCEPT ![g] = IF o = Nobody THEN "idle" ELSE s]

KeepOwed == UNCHANGED <<owe, next>>

(* new&(mutexClosed|mutexRefMask) == mutexClosed                           *)
NoReference(w) == w.closed /\ w.refs = 0

(* incref fails on a closed descriptor, and then there is nothing to undo. *)
incref(g) ==
  /\ fpc[g] = "idle"
  /\ ~fdmu.closed
  /\ fdmu' = [fdmu EXCEPT !.refs = @ + 1]
  /\ fpc' = [fpc EXCEPT ![g] = "use"]
  /\ role' = [role EXCEPT ![g] = "misc"]
  /\ KeepOwed /\ UNCHANGED rwsema

(* The waiters are taken out of the word and then woken one by one.        *)
increfAndClose(g) ==
  /\ fpc[g] = "idle"
  /\ ~fdmu.closed
  /\ fdmu' = [fdmu EXCEPT !.closed = TRUE, !.refs = @ + 1, !.wait = Nobody]
  /\ role' = [role EXCEPT ![g] = "close"]
  /\ fpc' = [fpc EXCEPT ![g] = IF fdmu.wait = Nobody THEN "evict" ELSE "release"]
  /\ owe' = [owe EXCEPT ![g] = fdmu.wait]
  /\ next' = [next EXCEPT ![g] = IF fdmu.wait = Nobody THEN "idle" ELSE "evict"]
  /\ UNCHANGED rwsema

(* The reader waiters are released first.                                  *)
Semrelease(g) ==
  LET m == IF owe[g]["r"] > 0 THEN "r" ELSE "w"
      o == [owe[g] EXCEPT ![m] = @ - 1]
  IN
  /\ fpc[g] = "release"
  /\ rwsema' = [rwsema EXCEPT ![m] = @ + 1]
  /\ ReleaseThen(g, {"release"}, o, next[g])
  /\ UNCHANGED fdmu

(* g drops its reference; the last one to do so after Close destroys fd,   *)
(* the others go on at s.                                                  *)
decref(g, from, s) ==
  LET w == [fdmu EXCEPT !.refs = @ - 1] IN
  /\ FGoto(g, from, IF NoReference(w) THEN "destroy" ELSE s)
  /\ fdmu' = w
  /\ KeepOwed /\ UNCHANGED rwsema

(* rwlock(m), at its first attempt and after each wake-up.                 *)
RWLock(g, m) ==
  \/ fpc[g] = "idle"
  \/ fpc[g] = "lock" /\ role[g] = m

rwlockClosed(g, m) ==
  /\ RWLock(g, m) /\ fdmu.closed
  /\ FGoto(g, {"idle", "lock"}, "idle")
  /\ KeepOwed /\ UNCHANGED <<fdmu, rwsema>>

rwlockFree(g, m) ==
  /\ RWLock(g, m) /\ ~fdmu.closed /\ m \notin fdmu.locked
  /\ fdmu' = [fdmu EXCEPT !.locked = @ \cup {m}, !.refs = @ + 1]
  /\ fpc' = [fpc EXCEPT ![g] = "use"]
  /\ role' = [role EXCEPT ![g] = m]
  /\ KeepOwed /\ UNCHANGED rwsema

rwlockWait(g, m) ==
  /\ RWLock(g, m) /\ ~fdmu.closed /\ m \in fdmu.locked
  /\ fdmu' = [fdmu EXCEPT !.wait[m] = @ + 1]
  /\ fpc' = [fpc EXCEPT ![g] = "sleep"]
  /\ role' = [role EXCEPT ![g] = m]
  /\ KeepOwed /\ UNCHANGED rwsema

Semacquire(g) ==
  LET m == role[g] IN
  /\ fpc[g] = "sleep" /\ rwsema[m] > 0
  /\ rwsema' = [rwsema EXCEPT ![m] = @ - 1]
  /\ FGoto(g, {"sleep"}, "lock")
  /\ KeepOwed /\ UNCHANGED fdmu

(* Mutant of rwunlock: the signaller leaves the waiter counted.            *)
rwunlockCounted(g) ==
  LET m == role[g]
      w == [fdmu EXCEPT !.locked = @ \ {m}, !.refs = @ - 1]
      n == IF fdmu.wait[m] > 0 THEN 1 ELSE 0
  IN
  /\ fpc[g] = "use" /\ m \in Mode
  /\ fdmu' = w
  /\ ReleaseThen(g, {"use"}, [Nobody EXCEPT ![m] = n], IF NoReference(w) THEN "destroy" ELSE "idle")
  /\ UNCHANGED rwsema

(* rwunlock drops the lock and the reference, and wakes a waiter.          *)
rwunlock(g) ==
  LET m == role[g]
      n == IF fdmu.wait[m] > 0 THEN 1 ELSE 0
      w == [fdmu EXCEPT !.locked = @ \ {m}, !.refs = @ - 1, !.wait[m] = @ - n]
  IN
  /\ fpc[g] = "use" /\ m \in Mode
  /\ fdmu' = w
  /\ ReleaseThen(g, {"use"}, [Nobody EXCEPT ![m] = n], IF NoReference(w) THEN "destroy" ELSE "idle")
  /\ UNCHANGED rwsema

-----------------------------------------------------------------------------
(* The goroutines that have a reference.                                   *)
Holds(g) == fpc[g] = "use" \/ (role[g] = "close" /\ (fpc[g] = "evict" \/ next[g] = "evict"))

(* What a goroutine does fits the step that it is at: tokens are owed only *)
(* by Close and by those who drop a lock.                                  *)
CallsFit ==
  \A g \in G :
    /\ fpc[g] \in {"sleep", "lock"} => role[g] \in Mode
    /\ fpc[g] = "use" => role[g] \in Mode \cup {"misc"}
    /\ fpc[g] \in {"evict", "csema"} \/ next[g] = "evict" => role[g] = "close"
    /\ fpc[g] = "release" <=> owe[g] # Nobody
    /\ next[g] # "idle" => fpc[g] = "release"

=============================================================================
