---------------------------- MODULE MCStructures ----------------------------
(***************************************************************************)
(* The sequential algorithms that runtime/sema.go and runtime/select.go    *)
(* run under their locks, side by side: the treap of a semaRoot, and the   *)
(* orders of the cases of a select.  The initial state chooses which.      *)
(***************************************************************************)
EXTENDS SemaTreap, TLC

CONSTANTS
  NCases,  \* bound: the largest number of cases of a select
  Keys     \* the addresses of their channels; 0 is nil

ASSUME BoundAssumption == NCases \in Nat \ {0} /\ Keys \subseteq Nat

VARIABLES which, key, pollorder, lockorder, phase, i, locked, unlocked

Order == INSTANCE SelectOrder

orderVars == <<key, pollorder, lockorder, phase, i, locked, unlocked>>

StructuresInit ==
  \/ which = "treap" /\ Init /\ key = 0 :> 0 /\ Order!InitOrders
  \/ which = "orders" /\ Init /\ Order!Init

StructuresNext ==
  /\ UNCHANGED which
  /\ \/ which = "treap" /\ Next /\ UNCHANGED orderVars
     \/ which = "orders" /\ Order!Next /\ UNCHANGED vars

StructuresSpec == StructuresInit /\ [][StructuresNext]_<<which, vars, orderVars>>

(* Sudogs are interchangeable.                                             *)
Symmetry == Permutations(Sudog)

(* The orders of a select and the loops of sellock and selunlock           *)
(* (SelectOrder!LocksInOrder).                                             *)
LocksInOrder == Order!LocksInOrder

=============================================================================
