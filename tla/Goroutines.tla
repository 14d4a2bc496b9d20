----------------------------- MODULE Goroutines -----------------------------
(* The goroutines that use a primitive of package sync.                    *)
EXTENDS FiniteSets

CONSTANTS
  G,    \* the goroutines
  None  \* no goroutine

ASSUME NoneAssumption == None \notin G
ASSUME GAssumption == IsFiniteSet(G)

=============================================================================
