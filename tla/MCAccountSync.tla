---------------------------- MODULE MCAccountSync ----------------------------
(* Small instances of AccountSync.                                          *)
EXTENDS AccountSync, TLC

Interchangeable == Permutations(Requests)

=============================================================================
