-------------------------- MODULE MCMultipartUpload --------------------------
(* Small instances of MultipartUpload.                                      *)
EXTENDS MultipartUpload, TLC

MCPartNumbers == 1..2

Interchangeable == Permutations(Requests)

=============================================================================
