------------------------ MODULE MCStoreTransactions ------------------------
(* StoreTransactions on small instances.                                   *)
EXTENDS StoreTransactions, TLC

\* Ids and threads are interchangeable: nothing compares or orders them.
Interchangeable == Permutations(Checkpoint) \cup Permutations(Thread)
=============================================================================
