----------------------- MODULE MCInMemoryQueueStorage -----------------------
(* The store with clients of every kind, small enough for TLC.             *)
EXTENDS InMemoryQueueStorage, TLC

MCSymmetry == Permutations(Ids)
=============================================================================
