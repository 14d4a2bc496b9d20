------------------------------ MODULE RWMutex ------------------------------
(***************************************************************************)
(* sync.RWMutex (src/src/sync/rwmutex.go): goroutines that lock it for     *)
(* reading or for writing and unlock it.  An action is one atomic          *)
(* operation of the code.  rw.w is a Locker (module Mutex implements it)   *)
(* and the semaphores are counting ones (module Sema implements them).     *)
(***************************************************************************)
EXTENDS Integers, Goroutines

CONSTANT MaxReaders  \* rwmutexMaxReaders

ASSUME MaxReadersAssumption == MaxReaders \in Nat /\ Cardinality(G) < MaxReaders

VARIABLES
  w,            \* the holder of rw.w
  writerSem,    \* rw.writerSem
  readerSem,    \* rw.readerSem
  readerCount,  \* rw.readerCount
  readerWait,   \* rw.readerWait
  pc,           \* the next atomic operation of each goroutine
  r,            \* the local r of the writer: readers to wait for or to release
  behind        \* history: the writer whose Lock call was blocked when a reader called RLock

vars == <<w, writerSem, readerSem, readerCount, readerWait, pc, r, behind>>
sems == <<writerSem, readerSem>>

ReaderPC == {"rwait", "reading", "rUnlockSlow", "releaseWriter"}
WriterPC == {"announce", "addWait", "wwait", "writing", "releaseReaders"}

TypeOK ==
  /\ w \in G \cup {None}
  /\ writerSem \in Nat
  /\ readerSem \in Nat
  /\ readerCount \in Int
  /\ readerWait \in Int
  /\ pc \in [G -> ReaderPC \cup WriterPC \cup {"idle", "throw"}]
  /\ r \in Nat
  /\ behind \in [G -> G \cup {None}]

Init ==
  /\ w = None
  /\ writerSem = 0
  /\ readerSem = 0
  /\ readerCount = 0
  /\ readerWait = 0
  /\ pc = [g \in G |-> "idle"]
  /\ r = 0
  /\ behind = [g \in G |-> None]

Goto(g, from, to) ==
  /\ pc[g] = from
  /\ pc' = [pc EXCEPT ![g] = to]

-----------------------------------------------------------------------------
(* RLock: a negative count says that a writer is pending.                  *)
RLock(g) ==
  LET pending == readerCount + 1 < 0 IN
  /\ Goto(g, "idle", IF pending THEN "rwait" ELSE "reading")
  /\ readerCount' = readerCount + 1
  /\ behind' = [behind EXCEPT ![g] = IF pending /\ pc[w] = "wwait" THEN w ELSE None]
  /\ UNCHANGED <<w, sems, readerWait, r>>

(* runtime_SemacquireMutex(&rw.readerSem, false, 0) returns.               *)
RLockAwake(g) ==
  /\ Goto(g, "rwait", "reading")
  /\ readerSem > 0
  /\ readerSem' = readerSem - 1
  /\ UNCHANGED <<w, writerSem, readerCount, readerWait, r, behind>>

(* The test of line 78: nobody was reading when RUnlock was called.        *)
NobodyReads(new) == new + 1 = 0 \/ new + 1 = -MaxReaders

RUnlock(g) ==
  LET new == readerCount - 1 IN
  /\ Goto(g, "reading", CASE new >= 0 -> "idle"
                          [] new < 0 /\ NobodyReads(new) -> "throw"
                          [] OTHER -> "rUnlockSlow")
  /\ readerCount' = new
  /\ UNCHANGED <<w, sems, readerWait, r, behind>>

(* Mutant of RUnlockSlow: the wake-up is sent by the last but one reader.  *)
RUnlockSlowEarly(g) ==
  /\ Goto(g, "rUnlockSlow", IF readerWait - 1 = 1 THEN "releaseWriter" ELSE "idle")
  /\ readerWait' = readerWait - 1
  /\ UNCHANGED <<w, sems, readerCount, r, behind>>

(* rUnlockSlow: the last of the readers the writer waits for wakes it.     *)
RUnlockSlow(g) ==
  /\ Goto(g, "rUnlockSlow", IF readerWait - 1 = 0 THEN "releaseWriter" ELSE "idle")
  /\ readerWait' = readerWait - 1
  /\ UNCHANGED <<w, sems, readerCount, r, behind>>

ReleaseWriter(g) ==
  /\ Goto(g, "releaseWriter", "idle")
  /\ writerSem' = writerSem + 1
  /\ UNCHANGED <<w, readerSem, readerCount, readerWait, r, behind>>

-----------------------------------------------------------------------------
(* Lock: rw.w.Lock().                                                      *)
Lock(g) ==
  /\ Goto(g, "idle", "announce")
  /\ w = None
  /\ w' = g
  /\ UNCHANGED <<sems, readerCount, readerWait, r, behind>>

(* Announce to the readers that there is a pending writer.                 *)
Announce(g) ==
  /\ Goto(g, "announce", IF readerCount = 0 THEN "writing" ELSE "addWait")
  /\ readerCount' = readerCount - MaxReaders
  /\ r' = readerCount
  /\ UNCHANGED <<w, sems, readerWait, behind>>

(* Mutant of AddWait: the writer does not look at the new readerWait.      *)
AddWaitAlways(g) ==
  /\ Goto(g, "addWait", "wwait")
  /\ readerWait' = readerWait + r
  /\ r' = 0
  /\ UNCHANGED <<w, sems, readerCount, behind>>

(* Mutant of AddWait: readerWait is set, not added to.                     *)
AddWaitStores(g) ==
  /\ Goto(g, "addWait", "wwait")
  /\ readerWait' = r
  /\ r' = 0
  /\ UNCHANGED <<w, sems, readerCount, behind>>

(* atomic.AddInt32(&rw.readerWait, r): readers may have left meanwhile, so *)
(* readerWait may have been negative.                                      *)
AddWait(g) ==
  /\ Goto(g, "addWait", IF readerWait + r = 0 THEN "writing" ELSE "wwait")
  /\ readerWait' = readerWait + r
  /\ r' = 0
  /\ UNCHANGED <<w, sems, readerCount, behind>>

(* runtime_SemacquireMutex(&rw.writerSem, false, 0) returns.               *)
LockAwake(g) ==
  /\ Goto(g, "wwait", "writing")
  /\ writerSem > 0
  /\ writerSem' = writerSem - 1
  /\ UNCHANGED <<w, readerSem, readerCount, readerWait, r, behind>>

(* Unlock: announce to the readers that there is no active writer.  A      *)
(* count of MaxReaders or more says that there was none (line 127).        *)
Unlock(g) ==
  LET new == readerCount + MaxReaders IN
  /\ Goto(g, "writing", IF new >= MaxReaders THEN "throw" ELSE "releaseReaders")
  /\ readerCount' = new
  /\ r' = new
  /\ behind' = [h \in G |-> IF behind[h] = g THEN None ELSE behind[h]]
  /\ UNCHANGED <<w, sems, readerWait>>

(* One iteration of the loop of line 132.                                  *)
ReleaseReader(g) ==
  /\ pc[g] = "releaseReaders"
  /\ r > 0
  /\ r' = r - 1
  /\ readerSem' = readerSem + 1
  /\ UNCHANGED <<w, writerSem, readerCount, readerWait, pc, behind>>

(* Mutant of UnlockW: other writers proceed before the readers are woken.  *)
UnlockWEarly(g) ==
  /\ Goto(g, "releaseReaders", "idle")
  /\ w' = None
  /\ UNCHANGED <<sems, readerCount, readerWait, r, behind>>

(* rw.w.Unlock().                                                          *)
UnlockW(g) ==
  /\ Goto(g, "releaseReaders", "idle")
  /\ r = 0
  /\ w' = None
  /\ UNCHANGED <<sems, readerCount, readerWait, r, behind>>

-----------------------------------------------------------------------------
ReaderStep(g) == RLockAwake(g) \/ RUnlock(g) \/ RUnlockSlow(g) \/ ReleaseWriter(g)

WriterStep(g) ==
  Announce(g) \/ AddWait(g) \/ LockAwake(g) \/ Unlock(g) \/ ReleaseReader(g) \/ UnlockW(g)

Next == \E g \in G : RLock(g) \/ Lock(g) \/ ReaderStep(g) \/ WriterStep(g)

Spec == Init /\ [][Next]_vars

(* Goroutines run, and readers and writers unlock.                         *)
Fairness == \A g \in G : WF_vars(ReaderStep(g)) /\ WF_vars(WriterStep(g))

-----------------------------------------------------------------------------
Count(labels) == Cardinality({g \in G : pc[g] \in labels})

(* The writer has taken its MaxReaders off readerCount.                    *)
Announced == \E g \in G : pc[g] \in {"addWait", "wwait", "writing"}

(* A writer excludes the readers and the other writers.                    *)
Exclusion ==
  \A g, h \in G : pc[g] = "writing" /\ pc[h] \in {"reading", "writing"} => g = h

(* The throws of RUnlock and Unlock are not reached: neither test mistakes *)
(* a legal state for an unlocked RWMutex.                                  *)
NoThrow == \A g \in G : pc[g] # "throw"

(* readerCount counts the readers that have the lock or wait for it; the   *)
(* ones that wait without a pending writer are those Unlock owes a token.  *)
ReadersCounted ==
  LET owed == IF \E g \in G : pc[g] = "releaseReaders" THEN r ELSE 0 IN
  /\ readerCount = Count({"rwait", "reading"}) - (IF Announced THEN MaxReaders ELSE 0)
  /\ IF Announced THEN readerSem <= Count({"rwait"}) ELSE readerSem + owed = Count({"rwait"})

(* The readers that a pending writer still waits for are the ones that     *)
(* read, that leave, or that have a token of the previous Unlock: when     *)
(* readerWait reaches zero, exactly one wake-up is sent.                   *)
DepartingCounted ==
  LET toAdd == IF \E g \in G : pc[g] = "addWait" THEN r ELSE 0
      sent == writerSem + Count({"releaseWriter"})
  IN
  /\ Announced => readerWait + toAdd = Count({"reading", "rUnlockSlow"}) + readerSem
  /\ ~Announced => readerWait = 0 /\ Count({"rUnlockSlow"}) = 0
  /\ sent = IF readerWait = 0 /\ Count({"wwait"}) = 1 THEN 1 ELSE 0

(* One writer at a time is past rw.w.Lock(), and r is zero where it is not *)
(* in use.  Readers may bring readerWait below zero before the writer adds *)
(* r to it, and when the writer has the lock nobody is left to change it.  *)
OneWriter ==
  /\ \A g \in G : pc[g] \in WriterPC <=> w = g
  /\ (\A g \in G : pc[g] \notin {"addWait", "releaseReaders"}) => r = 0
  /\ \A g \in G : pc[g] = "addWait" => readerWait <= 0 /\ r > 0
  /\ \A g \in G : pc[g] = "writing" => readerWait = 0

(* The words of the RWMutex count what they are meant to count at every    *)
(* step of every goroutine, and no throw is reached.  It is inductive.     *)
RWInv == TypeOK /\ NoThrow /\ OneWriter /\ ReadersCounted /\ DepartingCounted

(* A writer that has rw.w gets the lock, although readers keep coming.     *)
WriterServed == \A g \in G : pc[g] = "announce" ~> pc[g] = "writing"

(* A reader that waits for a writer gets the lock if no further writer     *)
(* does (a woken reader may lose its token to a later one).                *)
ReaderServed ==
  \A g \in G : pc[g] = "rwait" ~> (pc[g] = "reading" \/ \E h \in G : pc[h] \in WriterPC)

(* rwmutex.go: "a blocked Lock call excludes new readers from acquiring    *)
(* the lock": a reader that called RLock while a writer was blocked in     *)
(* Lock does not read before that writer has unlocked.                     *)
NewReadersExcluded == \A g \in G : pc[g] = "reading" => behind[g] = None

=============================================================================
