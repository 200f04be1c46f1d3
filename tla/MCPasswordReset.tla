--------------------------- MODULE MCPasswordReset ---------------------------
(* Small instances of PasswordReset.                                        *)
EXTENDS PasswordReset, TLC

Interchangeable == Permutations(Requests)

=============================================================================
