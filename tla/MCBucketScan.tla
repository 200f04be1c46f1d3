----------------------------- MODULE MCBucketScan -----------------------------
(* Small instances of BucketScan.  The listing order is that of the numbers. *)
EXTENDS BucketScan, TLC

\* "docs/", "docs/a", "docs/z", "users/1/items/u-b" (uploaded as "b").
MCKeys == 1..4
MCPath == << <<"docs">>, <<"docs", "a">>, <<"docs", "z">>, <<"users", "u-b">> >>
MCDirMarkers == {1}
MCInternal == {4}
MCUploadName == (4 :> "b")

\* A user may give a file the name of another object.
MCNewNames == {"z"}

MCIds == 1..9
MCSizes == {1, 2}

=============================================================================
