--------------------------- MODULE MCStoreClients ---------------------------
(* Small instances of the shared adapters.                                  *)
EXTENDS StoreClients, TLC

MCSymmetry == Permutations(Ids) \cup Permutations(Clients)
=============================================================================
