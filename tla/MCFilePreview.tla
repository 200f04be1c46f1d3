---------------------------- MODULE MCFilePreview ----------------------------
(* Small instances of FilePreview.                                          *)
EXTENDS FilePreview, TLC

\* Nothing, what just fits the cap, and what does not.
MCSizes == {0, 2, 3}

\* "bytes=0-", "bytes=0-0", "bytes=1-9", "bytes=1-0", "bytes=2-".
MCRanges == {[from |-> 0, to |-> Open], [from |-> 0, to |-> 0], [from |-> 1, to |-> 9],
             [from |-> 1, to |-> 0], [from |-> 2, to |-> Open]}

Interchangeable == Permutations(Requests)

=============================================================================
