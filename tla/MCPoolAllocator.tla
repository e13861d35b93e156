-------------------------- MODULE MCPoolAllocator --------------------------
(* PoolAllocator for TLC: the clients are interchangeable.                  *)
EXTENDS PoolAllocator, TLC

Interchangeable == Permutations(Clients)
=============================================================================
