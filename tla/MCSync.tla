------------------------------- MODULE MCSync -------------------------------
(***************************************************************************)
(* The primitives of package sync that are built on Mutex and on the       *)
(* semaphores, and the contexts of package context, side by side.  They    *)
(* share nothing, so a behavior is one of a single primitive: the initial  *)
(* state chooses which.                                                    *)
(***************************************************************************)
EXTENDS RWMutex, Once, WaitGroup, Cond, TLC

CONSTANTS
  MaxActive, \* bound: the goroutines that use the Cond at any one time
  CtxUsers,  \* the goroutines that use contexts
  cA, cB, cC, \* the contexts
  Primitives \* the primitives that are used

VARIABLES
  which,                                         \* the primitive that is used
  made, err, mu, children, timer, watched, stack \* of the contexts

(* cC is a child of cB, which has a deadline, and cB is a child of cA.     *)
Contexts == {cA, cB, cC}
ParentOf == cA :> None @@ cB :> cA @@ cC :> cB

Context == INSTANCE Context WITH
  G <- CtxUsers, Ctx <- Contexts, Parent <- ParentOf, Timed <- {cB}, Custom <- {}

ASSUME BoundAssumption == MaxActive \in Nat
ASSUME TreeAssumption == Context!TreeAssumption

ctxVars == <<made, err, mu, children, timer, watched, stack>>
allVars == <<which, vars, onceVars, wgVars, condVars, ctxVars>>

SyncInit ==
  /\ which \in Primitives
  /\ Init /\ OnceInit /\ WGInit /\ CondInit /\ Context!ContextInit

SyncNext ==
  /\ UNCHANGED which
  /\ \/ which = "RWMutex" /\ Next /\ UNCHANGED <<onceVars, wgVars, condVars, ctxVars>>
     \/ which = "Once" /\ OnceNext /\ UNCHANGED <<vars, wgVars, condVars, ctxVars>>
     \/ which = "WaitGroup" /\ WGNext /\ UNCHANGED <<vars, onceVars, condVars, ctxVars>>
     \/ /\ which = "Cond" /\ CondNext /\ UNCHANGED <<vars, onceVars, wgVars, ctxVars>>
        /\ Cardinality({g \in G : condpc'[g] # "idle"}) <= MaxActive
     \/ which = "contexts" /\ Context!ContextNext /\ UNCHANGED <<vars, onceVars, wgVars, condVars>>

SyncSpec == SyncInit /\ [][SyncNext]_allVars

(* The fairness each primitive assumes; the one of a primitive that is not *)
(* used asks for nothing, for its goroutines are idle.                     *)
SyncFairSpec == SyncSpec /\ Fairness /\ WGFairness /\ CondFairness /\ Context!ContextFairness

Symmetry == Permutations(G)

-----------------------------------------------------------------------------
(* Cancellation arrives and every call returns (Context!Propagates).       *)
Propagates == Context!Propagates

=============================================================================
