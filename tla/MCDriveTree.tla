----------------------------- MODULE MCDriveTree -----------------------------
(* Small instances of DriveTree.  dirA, dirB, dirC are folders and fileF,  *)
(* fileG files of the first account; dirZ is a folder of a second one.     *)
EXTENDS DriveTree, TLC

CONSTANTS dirA, dirB, dirC, dirZ, fileF, fileG, acc1, acc2

MCFolders2 == {dirA, dirB}
MCFolders3 == {dirA, dirB, dirC}
MCFoldersZ == {dirA, dirB, dirZ}
MCNoFiles  == {}
MCFile     == {fileF}
MCFiles    == {fileF, fileG}
MCAccounts == {acc1, acc2}
MCAccountOf == [i \in Items |-> IF i = dirZ THEN acc2 ELSE acc1]

\* Requests are interchangeable, and so are the folders of one account: they
\* start alike and no action compares their ids.
Interchangeable == Permutations(Requests) \cup Permutations({dirA, dirB, dirC} \cap Folders)

=============================================================================
