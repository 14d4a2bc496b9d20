------------------------------- MODULE MCSema -------------------------------
(* Goroutines on the semaphores of one semaRoot.                           *)
EXTENDS Sema, TLC

Symmetry == Permutations(G) \cup Permutations(Addr)

=============================================================================
