--------------------------- MODULE MCDriveListing ---------------------------
(* Small instances of DriveListing: the ids are 1..n, the odd ones files.   *)
EXTENDS DriveListing

MCIds == 1..4
MCFolderIds == {i \in Ids : i % 3 = 0}

=============================================================================
