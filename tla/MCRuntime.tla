----------------------------- MODULE MCRuntime -----------------------------
(***************************************************************************)
(* What ends a wait for something outside of the program, side by side:    *)
(* descriptors with the network poller (FD), the timers of the runtime,    *)
(* and contexts.  They share nothing, so a behavior is one of a single     *)
(* one: the initial state chooses which, and how it is used.               *)
(***************************************************************************)
EXTENDS FD, Context, Timers, TLC

CONSTANTS cA, cB, cC, cD, cX  \* the contexts

VARIABLE which  \* what is used

(* cC is a child of cB and cB one of cA; cD has a parent cX of a foreign   *)
(* type.                                                                   *)
ParentOf == cA :> None @@ cB :> cA @@ cC :> cB @@ cD :> cX @@ cX :> None

(* The number of goroutines that are in a call.                            *)
Calling(where) == Cardinality({g \in G : where[g] # "idle"})

(* What the timers are set to: on which Ps, which of them, and so on.  Of  *)
(* three timers, timer 2 is at its place in the heap, timer 1 belongs      *)
(* above it, and timer 3 is what is taken out below it; none is due yet.   *)
ATimer == [p : {1}, t : {1}, when : When, period : Period]
TwoTimers == [p : {1}, t : {1, 2}, when : When, period : {0}]
ThreeTimers == {c \in [p : {1}, t : Timer, when : When, period : {0}] : c.t < 3 => c.when = c.t}
TwoPs == [p : {1, 2}, t : {1}, when : {1}, period : {0}]

(* The contexts of C are not made.                                         *)
NoCallOn(C) == \A g \in G : stack'[g] # <<>> => stack'[g][1].c \notin C

RuntimeInit ==
  /\ which \in {"readers", "readers and writers", "a pollDesc used again",
               "a timer", "two timers", "three timers", "two Ps", "a chain of contexts", "a foreign context"}
  /\ FDInit /\ TimersInit /\ ContextInit

RuntimeNext ==
  /\ UNCHANGED which
  /\ \/ which = "readers" /\ FDNextWith({"r"}, 2) /\ UNCHANGED <<timerVars, ctxVars>>
     \/ /\ which = "a pollDesc used again" /\ FDNextWith({"r"}, MaxSeq)
        /\ Calling(fpc') <= 2 - arrivals'
        /\ UNCHANGED <<timerVars, ctxVars>>
     \/ /\ which = "readers and writers" /\ FDNextWith(Mode, 2)
        /\ Calling(fpc') <= 2 /\ arrivals' = 0
        /\ UNCHANGED <<timerVars, ctxVars>>
     \/ /\ which = "a timer" /\ TimersNextWith(ATimer) /\ Calling(upc') <= 2
        /\ UNCHANGED <<fdVars, ctxVars>>
     \/ /\ which = "two timers" /\ TimersNextWith(TwoTimers) /\ Calling(upc') <= 1
        /\ UNCHANGED <<fdVars, ctxVars>>
     \/ /\ which = "three timers" /\ TimersNextWith(ThreeTimers)
        /\ Calling(upc') <= 1 /\ now' = 0 /\ status'[2] \in {"NoStatus", "Waiting"}
        /\ UNCHANGED <<fdVars, ctxVars>>
     \/ /\ which = "two Ps" /\ TimersNextWith(TwoPs) /\ Calling(upc') <= 2
        /\ UNCHANGED <<fdVars, ctxVars>>
     \/ /\ which = "a chain of contexts" /\ ContextNext
        /\ NoCallOn({cD}) /\ err'[cX] = None
        /\ UNCHANGED <<fdVars, timerVars>>
     \/ /\ which = "a foreign context" /\ ContextNext /\ NoCallOn({cC})
        /\ UNCHANGED <<fdVars, timerVars>>

RuntimeSpec == RuntimeInit /\ [][RuntimeNext]_<<which, fdVars, timerVars, ctxVars>>

Symmetry == Permutations(G)

=============================================================================
