----------------------------- MODULE WaitGroup -----------------------------
(***************************************************************************)
(* sync.WaitGroup (src/src/sync/waitgroup.go): goroutines that Add, Done   *)
(* and Wait, as the documentation of Add allows.  An action is one atomic  *)
(* operation of the code, or one plain access to *statep.  The semaphore   *)
(* is a counting one (module Sema implements it).                          *)
(***************************************************************************)
EXTENDS Integers, Goroutines

CONSTANT MaxTasks  \* bound: the counter goes no higher

ASSUME MaxTasksAssumption == MaxTasks \in Nat

VARIABLES
  counter,  \* the high half of *statep
  waiters,  \* the low half of *statep
  sema,     \* *semap
  wgpc,     \* the next operation of each goroutine
  local,    \* the copy of *statep that Add and Wait work with
  released  \* history: the counter was zero since the goroutine called Wait

wgVars == <<counter, waiters, sema, wgpc, local, released>>

Word == [v : Int, w : Nat]
statep == [v |-> counter, w |-> waiters]
Zero == [v |-> 0, w |-> 0]

AddPC == {"check", "reset", "release"}
WaitPC == {"load", "cas", "sleep", "recheck"}

WGTypeOK ==
  /\ counter \in 0..MaxTasks
  /\ waiters \in Nat
  /\ sema \in Nat
  /\ wgpc \in [G -> AddPC \cup WaitPC \cup {"idle", "panic"}]
  /\ local \in [G -> Word]
  /\ released \in [G -> BOOLEAN]

WGInit ==
  /\ counter = 0
  /\ waiters = 0
  /\ sema = 0
  /\ wgpc = [g \in G |-> "idle"]
  /\ local = [g \in G |-> Zero]
  /\ released = [g \in G |-> FALSE]

WGGoto(g, from, to) ==
  /\ wgpc[g] = from
  /\ wgpc' = [wgpc EXCEPT ![g] = to]

-----------------------------------------------------------------------------
(* The documentation of Add: with a positive delta it may start when the   *)
(* counter is positive, or when all Wait calls have returned; a negative   *)
(* delta is for an event that was added.                                   *)
MayAdd(delta) ==
  IF delta > 0
    THEN /\ counter + delta <= MaxTasks
         /\ counter > 0 \/ \A h \in G : wgpc[h] \notin WaitPC
    ELSE counter + delta >= 0

(* Mutant of AfterAdd: the last Done returns without waking the waiters.   *)
AfterAddForgets(v, w, delta) ==
  IF v < 0 \/ (w # 0 /\ delta > 0 /\ v = delta) THEN "panic" ELSE "idle"

(* Where Add goes after atomic.AddUint64 has returned v and w.             *)
AfterAdd(v, w, delta) ==
  CASE v < 0 -> "panic"
    [] v >= 0 /\ w # 0 /\ delta > 0 /\ v = delta -> "panic"
    [] v > 0 \/ (v = 0 /\ w = 0) -> "idle"
    [] OTHER -> "check"

Add(g, delta) ==
  LET v == counter + delta
      next == AfterAdd(v, waiters, delta)
  IN
  /\ MayAdd(delta)
  /\ WGGoto(g, "idle", next)
  /\ counter' = v
  /\ local' = [local EXCEPT ![g] = IF next = "check" THEN [v |-> v, w |-> waiters] ELSE Zero]
  /\ released' = [h \in G |-> released[h] \/ (wgpc[h] \in WaitPC /\ v = 0)]
  /\ UNCHANGED <<waiters, sema>>

(* if *statep != state { panic }, "a cheap sanity check".                  *)
CheckState(g) ==
  /\ WGGoto(g, "check", IF statep = local[g] THEN "reset" ELSE "panic")
  /\ UNCHANGED <<counter, waiters, sema, local, released>>

(* *statep = 0.                                                            *)
Reset(g) ==
  /\ WGGoto(g, "reset", "release")
  /\ counter' = 0
  /\ waiters' = 0
  /\ UNCHANGED <<sema, local, released>>

(* Mutant of Release: one waiter too few is released.                      *)
ReleaseOneLess(g) ==
  /\ wgpc[g] = "release"
  /\ wgpc' = [wgpc EXCEPT ![g] = IF local[g].w <= 2 THEN "idle" ELSE "release"]
  /\ sema' = IF local[g].w > 1 THEN sema + 1 ELSE sema
  /\ local' = [local EXCEPT ![g].w = @ - 1]
  /\ UNCHANGED <<counter, waiters, released>>

(* One iteration of the loop of line 102.                                  *)
Release(g) ==
  /\ wgpc[g] = "release"
  /\ wgpc' = [wgpc EXCEPT ![g] = IF local[g].w = 1 THEN "idle" ELSE "release"]
  /\ sema' = sema + 1
  /\ local' = [local EXCEPT ![g].w = @ - 1]
  /\ UNCHANGED <<counter, waiters, released>>

-----------------------------------------------------------------------------
(* Wait is called.                                                         *)
Wait(g) ==
  /\ WGGoto(g, "idle", "load")
  /\ released' = [released EXCEPT ![g] = counter = 0]
  /\ UNCHANGED <<counter, waiters, sema, local>>

(* Mutant of Load: Wait returns when nobody else waits.                    *)
LoadCarelessly(g) ==
  /\ WGGoto(g, "load", IF counter = 0 \/ waiters = 0 THEN "idle" ELSE "cas")
  /\ local' = [local EXCEPT ![g] = IF counter = 0 \/ waiters = 0 THEN Zero ELSE statep]
  /\ UNCHANGED <<counter, waiters, sema, released>>

(* state := atomic.LoadUint64(statep): return when the counter is zero.    *)
Load(g) ==
  /\ WGGoto(g, "load", IF counter = 0 THEN "idle" ELSE "cas")
  /\ local' = [local EXCEPT ![g] = IF counter = 0 THEN Zero ELSE statep]
  /\ UNCHANGED <<counter, waiters, sema, released>>

(* CAS(statep, state, state+1).                                            *)
Cas(g) ==
  /\ WGGoto(g, "cas", IF statep = local[g] THEN "sleep" ELSE "load")
  /\ waiters' = IF statep = local[g] THEN waiters + 1 ELSE waiters
  /\ local' = [local EXCEPT ![g] = Zero]
  /\ UNCHANGED <<counter, sema, released>>

(* runtime_Semacquire(semap) returns.                                      *)
Semacquire(g) ==
  /\ WGGoto(g, "sleep", "recheck")
  /\ sema > 0
  /\ sema' = sema - 1
  /\ UNCHANGED <<counter, waiters, local, released>>

(* if *statep != 0 { panic }, "reused before previous Wait has returned".  *)
Recheck(g) ==
  /\ WGGoto(g, "recheck", IF statep = Zero THEN "idle" ELSE "panic")
  /\ UNCHANGED <<counter, waiters, sema, local, released>>

-----------------------------------------------------------------------------
AddStep(g) == CheckState(g) \/ Reset(g) \/ Release(g)
WaitStep(g) == Load(g) \/ Cas(g) \/ Semacquire(g) \/ Recheck(g)

WGNext ==
  \E g \in G : \/ \E delta \in {1, 2, -1} : Add(g, delta)
               \/ Wait(g) \/ AddStep(g) \/ WaitStep(g)

WGSpec == WGInit /\ [][WGNext]_wgVars

(* Goroutines run, and what was added is done.                             *)
WGFairness == \A g \in G : WF_wgVars(AddStep(g)) /\ WF_wgVars(WaitStep(g)) /\ WF_wgVars(Add(g, -1))

-----------------------------------------------------------------------------
(* Wait returns only after the counter was zero at some moment since the   *)
(* call.                                                                   *)
WaitsForZero ==
  [][\A g \in G : wgpc[g] \in WaitPC /\ wgpc'[g] = "idle" => released[g]]_wgVars

(* The Add that has reached zero is alone: the word stands still while it  *)
(* checks and resets it by plain accesses, and it has somebody to release. *)
ZeroReached ==
  /\ \A g \in G, h \in G : wgpc[g] \in AddPC /\ wgpc[h] \in AddPC => g = h
  /\ \A g \in G : wgpc[g] \in {"check", "reset"} => counter = 0 /\ waiters > 0 /\ local[g] = statep
  /\ \A g \in G : wgpc[g] = "release" => local[g].w > 0

(* Nobody adds or waits anew before those who are released have left Wait. *)
ReleasedFirst == sema > 0 \/ (\E g \in G : wgpc[g] \in {"release", "recheck"}) => statep = Zero

(* The sleepers are the waiters that the word counts, or those whose       *)
(* release is still owed, and those who have a token.                      *)
Asleep == Cardinality({g \in G : wgpc[g] \in {"sleep"}})

EverySleeper ==
  /\ \A g \in G : wgpc[g] = "release" => Asleep = local[g].w + sema
  /\ (\A g \in G : wgpc[g] # "release") => Asleep = waiters + sema

(* A WaitGroup used as documented does not panic, although its word is     *)
(* checked and reset by plain accesses after the counter has reached zero; *)
(* and every sleeper is counted by the waiter count or is owed a release   *)
(* by the Add that reached zero: none is forgotten, none released twice.   *)
SleepersCounted ==
  /\ WGTypeOK
  /\ \A g \in G : wgpc[g] # "panic"
  /\ \A g \in G : wgpc[g] = "cas" => local[g].v # 0
  /\ ZeroReached
  /\ ReleasedFirst
  /\ EverySleeper

(* Once the counter is zero, everybody in Wait gets out.                   *)
WaitReturns == \A g \in G : (wgpc[g] \in WaitPC /\ released[g]) ~> wgpc[g] = "idle"

=============================================================================
