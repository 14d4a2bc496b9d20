------------------------------ MODULE MCAtomic ------------------------------
(***************************************************************************)
(* The parts of package sync that do without a lock below them, and work   *)
(* with atomic operations on single words and pointers: Mutex, Map and the *)
(* poolChain of Pool.  They share nothing, so a behavior is one of a       *)
(* single one: the initial state chooses which, and with which calls.      *)
(***************************************************************************)
EXTENDS Mutex, Map, PoolChain, TLC

CONSTANTS
  k1, k2, v1, v2  \* of the Map

VARIABLE which    \* what is used

(* Calls on k1, and a Store of k2 that lets the maps of a Map move.        *)
Op(op, k, v) == [op |-> op, key |-> k, val |-> v]

FewCalls == {Op("Load", k1, None), Op("LoadAndDelete", k1, None), Op("Store", k1, v1), Op("Store", k2, v1)}

MostCalls == FewCalls \cup {Op("Range", k1, None), Op("LoadOrStore", k1, v2)}

(* At most two goroutines are in a call.                                   *)
Two(where) == Cardinality({g \in G : where[g] # "idle"}) <= 2

AtomicInit ==
  /\ which \in {"Mutex", "Map, most calls", "Map, few calls", "poolChain"}
  /\ Init /\ MapInit /\ ChainInit

AtomicNext ==
  /\ UNCHANGED which
  /\ \/ which = "Mutex" /\ Next /\ UNCHANGED <<mapVars, chainVars>>
     \/ /\ which = "Map, most calls" /\ MapNextWith(MostCalls) /\ Two(mpc')
        /\ UNCHANGED <<vars, chainVars>>
     \/ /\ which = "Map, few calls" /\ MapNextWith(FewCalls)
        /\ UNCHANGED <<vars, chainVars>>
     \/ /\ which = "poolChain" /\ ChainNext /\ Two(dpc')
        /\ UNCHANGED <<vars, mapVars>>

AtomicSpec == AtomicInit /\ [][AtomicNext]_<<which, vars, mapVars, chainVars>>

Symmetry == Permutations(G) \cup Permutations(Obj)

=============================================================================
