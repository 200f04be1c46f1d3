------------------------------ MODULE BucketScan ------------------------------
(***************************************************************************)
(* ScanBucket: the walk over the listing of a bucket that gives every       *)
(* object a file row, and every directory of its key a folder row, while     *)
(* other requests and other tools change the drive and the bucket.           *)
(*                                                                         *)
(* Abstractions.  Keys are numbered in the order S3 lists them and Path     *)
(* holds their segments, without the empty ones; the size of an object      *)
(* stands for its content, size and ETag.  One account.  A request that       *)
(* reads a row and saves it later takes two steps or three; a deletion, and  *)
(* each statement of an upload, is one (the races inside them are checked    *)
(* in DriveTree and MultipartUpload).  The sum at the end of a scan belongs  *)
(* to AccountSync and PresignedUpload.                                      *)
(***************************************************************************)
EXTENDS Integers, Sequences, FiniteSets, FiniteSetsExt, Functions

CONSTANTS
  Scanners,     \* jobs that may run at a time
  Requests,     \* requests that may hold a row between reading and saving it
  Keys,         \* keys of the bucket, numbered as S3 sorts them
  Path,         \* the segments of each key
  DirMarkers,   \* keys that end with "/"
  Internal,     \* keys under the upload prefix users/<id>/items/
  UploadName,   \* the name a user gave to each internal key's file
  NewNames,     \* names that users give to rows
  Sizes,        \* sizes of objects
  Ids,          \* ids of drive_items rows
  Edits,        \* what others do meanwhile
  S3MayFail,    \* a listing may fail
  PageSize,     \* max-keys
  MaxEdits      \* bound: what others begin

AllEdits == {"move", "rename", "complete", "trash", "purge", "put", "presigned", "multipart",
             "scanInto"}

ASSUME KeyAssumption  == /\ Keys \subseteq Nat \ {0} /\ IsFiniteSet(Keys)
                         /\ DirMarkers \subseteq Keys /\ Internal \subseteq Keys \ DirMarkers
                         /\ Path \in [Keys -> Seq(STRING)]
                         /\ \A k \in Keys : k \in DirMarkers \/ Path[k] # <<>>
ASSUME RowAssumption  == /\ Ids \subseteq Nat \ {0}
                         /\ Sizes \subseteq Nat \ {0} /\ Sizes # {}
ASSUME EditAssumption == Edits \subseteq AllEdits /\ S3MayFail \in BOOLEAN
ASSUME PageAssumption == PageSize \in Nat \ {0} /\ MaxEdits \in Nat

VARIABLES
  rows,      \* drive_items, trashed rows included
  bucket,    \* size of the object at each key, 0 where there is none
  uploads,   \* progress of the upload of each internal key
  scan,      \* what each job is doing
  held,      \* the row that each request has read and not saved yet
  edits,     \* ghost: number of things that others began
  fresh,     \* ghost: whether a finished scan has seen all there is
  revived    \* ghost: keys that a Save gave back to a row that had lost them

requestVars == <<held, revived>>

vars == <<rows, bucket, uploads, scan, held, edits, fresh, revived>>

-----------------------------------------------------------------------------
Top   == 0     \* parent_id IS NULL
NoRow == 0     \* the id of a record that First did not fill
NoKey == 0     \* no storage_path

Names == (UNION {{Path[k][i] : i \in DOMAIN Path[k]} : k \in Keys})
           \cup {UploadName[k] : k \in Internal} \cup NewNames

ASSUME NameAssumption == Names # {}

Row == [state : {"none", "live", "trashed", "gone"},
        type : {"folder", "file"},
        name : Names,
        parent : Ids \cup {Top},
        key : Keys \cup {NoKey},
        size : Sizes \cup {0}]

\* What is left of a page: sizes of objects.
Pages == UNION {[S -> Sizes] : S \in SUBSET Keys}

Scan == [pc : {"idle", "list", "object", "lookup", "refresh", "folder", "createFolder",
               "match", "takeOver", "createFile"},
         root : Ids \cup {Top},
         page : Pages,                                     \* objects still to do
         token : Keys \cup {NoKey},                        \* last key listed
         more : BOOLEAN,                                   \* IsTruncated
         parent : Ids \cup {Top},                          \* currentParentID
         depth : Nat,                                      \* folders resolved
         id : Ids \cup {NoRow},                            \* the row that First found,
         snap : Row]                                       \* as it was

BlankRow == [state |-> "none", type |-> "file", name |-> CHOOSE n \in Names : TRUE,
             parent |-> Top, key |-> NoKey, size |-> 0]

Idle == [pc |-> "idle", root |-> Top, page |-> <<>>, token |-> NoKey, more |-> FALSE,
         parent |-> Top, depth |-> 0, id |-> NoRow, snap |-> BlankRow]

Held == [pc : {"idle", "head", "save"}, id : Ids \cup {NoRow}, snap : Row]

NothingHeld == [pc |-> "idle", id |-> NoRow, snap |-> BlankRow]

TypeOK ==
  /\ rows \in [Ids -> Row]
  /\ bucket \in [Keys -> Sizes \cup {0}]
  /\ uploads \in [Internal -> {"none", "row", "put", "object", "completed"}]
  /\ scan \in [Scanners -> Scan]
  /\ held \in [Requests -> Held]
  /\ edits \in Nat
  /\ fresh \in {"no", "scanning", "yes"}
  /\ revived \subseteq Keys \cup {NoKey}

Init ==
  /\ rows = [i \in Ids |-> BlankRow]
  /\ bucket \in [Keys -> {0, Min(Sizes)}]
  /\ \A k \in Internal : bucket[k] = 0
  /\ uploads = [k \in Internal |-> "none"]
  /\ scan = [s \in Scanners |-> Idle]
  /\ held = [r \in Requests |-> NothingHeld]
  /\ edits = 0
  /\ fresh = "no"
  /\ revived = {}

At(s, label) == scan[s].pc = label

Becomes(s, q) == scan' = [scan EXCEPT ![s] = q]

CountEdit == edits < MaxEdits /\ edits' = edits + 1

Objects == {k \in Keys : bucket[k] # 0}

LiveIds == {i \in Ids : rows[i].state = "live"}

IsFolder(i) == rows[i].type = "folder"

-----------------------------------------------------------------------------
(* Statements on drive_items.                                              *)

\* First: the lowest id among the live rows, or no row and no error.
FirstOf(S) == IF S = {} THEN NoRow ELSE Min(S)

Tracking(k) == {i \in LiveIds : rows[i].key = k}

Named(type, name, parent) ==
  {i \in LiveIds : rows[i].type = type /\ rows[i].name = name /\ rows[i].parent = parent}

Unused == {i \in Ids : rows[i].state = "none"}

\* INSERT with the next id; ids are not given out again.
Insert(i, row) ==
  /\ Unused # {} /\ i = Min(Unused)
  /\ rows' = [rows EXCEPT ![i] = row]

Folder(name, parent) ==
  [BlankRow EXCEPT !.state = "live", !.type = "folder", !.name = name, !.parent = parent]

File(name, parent, k, size) ==
  [BlankRow EXCEPT !.state = "live", !.name = name, !.parent = parent, !.key = k, !.size = size]

\* Save: the whole row as it was read, alive again if it was deleted meanwhile.
Save(i, row) == rows' = [rows EXCEPT ![i] = row]

-----------------------------------------------------------------------------
(* The scan.                                                               *)

Begin(s, root) ==
  /\ At(s, "idle")
  /\ Becomes(s, [Idle EXCEPT !.pc = "list", !.root = root])
  /\ UNCHANGED <<rows, bucket, uploads, requestVars>>

StartScan(s) ==
  /\ Begin(s, Top)
  /\ fresh' = IF fresh = "yes" THEN fresh ELSE "scanning"
  /\ UNCHANGED edits

\* A sync may name an item to scan into (parent_uuid): any live item.
StartScanInto(s, i) ==
  /\ "scanInto" \in Edits /\ i \in LiveIds
  /\ Begin(s, i)
  /\ CountEdit /\ fresh' = "no"

\* Mutated form of ListObjects: the continuation token is not passed on.
ListFromStart(s) ==
  /\ At(s, "list")
  /\ LET page == {k \in Objects : Cardinality({j \in Objects : j <= k}) <= PageSize}
     IN  Becomes(s, [scan[s] EXCEPT !.pc = "object", !.page = Restrict(bucket, page),
                                    !.more = page # Objects])
  /\ UNCHANGED <<rows, bucket, uploads, edits, fresh, requestVars>>

\* The next PageSize keys after the token.
ListObjects(s) ==
  /\ At(s, "list")
  /\ \/ LET rest == {k \in Objects : k > scan[s].token}
            page == {k \in rest : Cardinality({j \in rest : j <= k}) <= PageSize}
        IN  /\ Becomes(s, [scan[s] EXCEPT !.pc = "object",
                                          !.page = Restrict(bucket, page),
                                          !.token = IF page = {} THEN @ ELSE Max(page),
                                          !.more = page # rest])
            /\ UNCHANGED fresh
     \/ /\ S3MayFail
        /\ Becomes(s, Idle)
        /\ fresh' = IF fresh = "scanning" THEN "no" ELSE fresh
  /\ UNCHANGED <<rows, bucket, uploads, edits, requestVars>>

\* Mutated form of TakeObject: the last page is not looked at.
TakeFullPages(s) ==
  /\ At(s, "object")
  /\ IF scan[s].more
       THEN Becomes(s, [scan[s] EXCEPT !.pc = IF @.page = <<>> THEN "list" ELSE "lookup"])
       ELSE Becomes(s, Idle)
  /\ fresh' = IF ~scan[s].more /\ fresh = "scanning" THEN "yes" ELSE fresh
  /\ UNCHANGED <<rows, bucket, uploads, edits, requestVars>>

\* The next object of the page, the next page, or the end.
TakeObject(s) ==
  /\ At(s, "object")
  /\ \/ /\ DOMAIN scan[s].page # {}
        /\ Becomes(s, [scan[s] EXCEPT !.pc = "lookup"])
        /\ UNCHANGED fresh
     \/ /\ DOMAIN scan[s].page = {} /\ scan[s].more
        /\ Becomes(s, [scan[s] EXCEPT !.pc = "list"])
        /\ UNCHANGED fresh
     \/ /\ DOMAIN scan[s].page = {} /\ ~scan[s].more
        /\ Becomes(s, Idle)
        /\ fresh' = IF fresh = "scanning" THEN "yes" ELSE fresh
  /\ UNCHANGED <<rows, bucket, uploads, edits, requestVars>>

Key(s) == Min(DOMAIN scan[s].page)

Size(s) == scan[s].page[Key(s)]

\* Folders that the key of the object asks for.
Folders(k) == IF k \in DirMarkers THEN Path[k] ELSE SubSeq(Path[k], 1, Len(Path[k]) - 1)

FileName(k) == Path[k][Len(Path[k])]

\* The object is done with.
NextObject(s) ==
  Becomes(s, [scan[s] EXCEPT !.pc = "object", !.id = NoRow, !.snap = BlankRow,
                             !.parent = Top, !.depth = 0,
                             !.page = Restrict(@, DOMAIN @ \ {Key(s)})])

\* Mutated form of Lookup: tracked objects are not looked for.
LookupNothing(s) ==
  /\ At(s, "lookup")
  /\ Becomes(s, [scan[s] EXCEPT !.pc = "folder", !.parent = scan[s].root])
  /\ UNCHANGED <<rows, bucket, uploads, edits, fresh, requestVars>>

\* An object with a row of its own is refreshed, wherever the row hangs.
Lookup(s) ==
  /\ At(s, "lookup")
  /\ LET i == FirstOf(Tracking(Key(s)))
     IN  IF i # NoRow
           THEN Becomes(s, [scan[s] EXCEPT !.pc = "refresh", !.id = i, !.snap = rows[i]])
           ELSE Becomes(s, [scan[s] EXCEPT !.pc = "folder", !.parent = scan[s].root])
  /\ UNCHANGED <<rows, bucket, uploads, edits, fresh, requestVars>>

\* Mutated form of Refresh: the row is moved to the root of the scan.
RefreshAndMove(s) ==
  /\ At(s, "refresh")
  /\ Save(scan[s].id, [scan[s].snap EXCEPT !.size = Size(s), !.parent = scan[s].root])
  /\ NextObject(s)
  /\ UNCHANGED <<bucket, uploads, edits, fresh, requestVars>>

Refresh(s) ==
  /\ At(s, "refresh")
  /\ Save(scan[s].id, [scan[s].snap EXCEPT !.size = Size(s)])
  /\ NextObject(s)
  /\ UNCHANGED <<bucket, uploads, edits, fresh, requestVars>>

\* Mutated form of FindFolder: folders are created without a look.
FindNoFolder(s) ==
  /\ At(s, "folder") /\ scan[s].depth < Len(Folders(Key(s)))
  /\ Becomes(s, [scan[s] EXCEPT !.pc = "createFolder"])
  /\ UNCHANGED <<rows, bucket, uploads, edits, fresh, requestVars>>

FindFolder(s) ==
  /\ At(s, "folder") /\ scan[s].depth < Len(Folders(Key(s)))
  /\ LET i == FirstOf(Named("folder", Folders(Key(s))[scan[s].depth + 1], scan[s].parent))
     IN  IF i # NoRow
           THEN Becomes(s, [scan[s] EXCEPT !.parent = i, !.depth = @ + 1])
           ELSE Becomes(s, [scan[s] EXCEPT !.pc = "createFolder"])
  /\ UNCHANGED <<rows, bucket, uploads, edits, fresh, requestVars>>

CreateFolder(s) ==
  /\ At(s, "createFolder")
  /\ \E i \in Ids :
       /\ Insert(i, Folder(Folders(Key(s))[scan[s].depth + 1], scan[s].parent))
       /\ Becomes(s, [scan[s] EXCEPT !.pc = "folder", !.parent = i, !.depth = @ + 1])
  /\ UNCHANGED <<bucket, uploads, edits, fresh, requestVars>>

\* A marker has no file; the file of another key goes by its name.
FoldersDone(s) ==
  /\ At(s, "folder") /\ scan[s].depth = Len(Folders(Key(s)))
  /\ IF Key(s) \in DirMarkers
       THEN NextObject(s)
       ELSE Becomes(s, [scan[s] EXCEPT !.pc = "match"])
  /\ UNCHANGED <<rows, bucket, uploads, edits, fresh, requestVars>>

MatchName(s) ==
  /\ At(s, "match")
  /\ LET i == FirstOf(Named("file", FileName(Key(s)), scan[s].parent))
     IN  IF i # NoRow
           THEN Becomes(s, [scan[s] EXCEPT !.pc = "takeOver", !.id = i, !.snap = rows[i]])
           ELSE Becomes(s, [scan[s] EXCEPT !.pc = "createFile"])
  /\ UNCHANGED <<rows, bucket, uploads, edits, fresh, requestVars>>

\* If the row tracked an object that is still there, that one is now without.
TakeOver(s) ==
  /\ At(s, "takeOver")
  /\ Save(scan[s].id, [scan[s].snap EXCEPT !.key = Key(s), !.size = Size(s)])
  /\ NextObject(s)
  /\ fresh' = IF scan[s].snap.key \in Objects THEN "no" ELSE fresh
  /\ UNCHANGED <<bucket, uploads, edits, requestVars>>

CreateFile(s) ==
  /\ At(s, "createFile")
  /\ \E i \in Ids : Insert(i, File(FileName(Key(s)), scan[s].parent, Key(s), Size(s)))
  /\ NextObject(s)
  /\ UNCHANGED <<bucket, uploads, edits, fresh, requestVars>>

-----------------------------------------------------------------------------
(* Others.                                                                 *)

Edited == CountEdit /\ fresh' = "no" /\ UNCHANGED <<scan, requestVars>>

\* A request finds the row of an item and keeps it in memory, changed to row.
Read(r, i, label, row) ==
  /\ held[r].pc = "idle" /\ i \in LiveIds
  /\ CountEdit
  /\ held' = [held EXCEPT ![r] = [pc |-> label, id |-> i, snap |-> row]]
  /\ UNCHANGED <<rows, bucket, uploads, scan, fresh, revived>>

\* UpdateItem, into a folder of the top level so that no cycle can arise.
Move(r, i, p) ==
  /\ "move" \in Edits
  /\ p \in {Top} \cup {f \in LiveIds : IsFolder(f) /\ rows[f].parent = Top}
  /\ p \notin {i, rows[i].parent}
  /\ Read(r, i, "save", [rows[i] EXCEPT !.parent = p])

\* UpdateItem under a new name, or ToggleStar, which leaves even the name alone.
Rename(r, i, n) ==
  "rename" \in Edits /\ Read(r, i, "save", [rows[i] EXCEPT !.name = n])

\* CompletePresignedUpload, of any file.
Complete(r, i) ==
  "complete" \in Edits /\ rows[i].key # NoKey /\ Read(r, i, "head", rows[i])

\* The size of an object that is there; otherwise, or on an error of S3, the
\* status becomes "failed" and the size stays.
HeadObject(r) ==
  /\ held[r].pc = "head"
  /\ \E size \in {bucket[held[r].snap.key]} \cup (IF S3MayFail THEN {0} ELSE {}) :
       held' = [held EXCEPT ![r].pc = "save",
                            ![r].snap.size = IF size = 0 THEN @ ELSE size]
  /\ UNCHANGED <<rows, bucket, uploads, scan, edits, fresh, revived>>

\* Whether row i is deleted, or tracks another object, unlike the one that was read.
Lost(i, row) == rows[i].state # "live" \/ rows[i].key # row.key

SaveItem(r) ==
  /\ held[r].pc = "save"
  /\ Save(held[r].id, held[r].snap)
  /\ held' = [held EXCEPT ![r] = NothingHeld]
  /\ revived' = IF Lost(held[r].id, held[r].snap)
                  THEN revived \cup {held[r].snap.key} ELSE revived
  /\ fresh' = "no"
  /\ UNCHANGED <<bucket, uploads, scan, edits>>

Trash(i) ==
  /\ "trash" \in Edits /\ i \in LiveIds
  /\ rows' = [rows EXCEPT ![i].state = "trashed"]
  /\ Edited /\ UNCHANGED <<bucket, uploads>>

\* A file is deleted for ever, its object with it.
Purge(i) ==
  /\ "purge" \in Edits /\ rows[i].state \in {"live", "trashed"} /\ rows[i].type = "file"
  /\ rows' = [rows EXCEPT ![i].state = "gone"]
  /\ bucket' = [k \in Keys |-> IF k = rows[i].key THEN 0 ELSE bucket[k]]
  /\ Edited /\ UNCHANGED uploads

\* Another tool writes or removes an object.
Put(k, size) ==
  /\ "put" \in Edits /\ k \notin Internal /\ bucket[k] # size
  /\ bucket' = [bucket EXCEPT ![k] = size]
  /\ Edited /\ UNCHANGED <<rows, uploads>>

\* The row of an upload, at the top of the drive.
UploadRow(k, from, to) ==
  /\ uploads[k] = from
  /\ \E i \in Ids : Insert(i, File(UploadName[k], Top, k, Min(Sizes)))
  /\ uploads' = [uploads EXCEPT ![k] = to]
  /\ Edited /\ UNCHANGED bucket

UploadObject(k, from, to) ==
  /\ uploads[k] = from
  /\ bucket' = [bucket EXCEPT ![k] = Min(Sizes)]
  /\ uploads' = [uploads EXCEPT ![k] = to]
  /\ Edited /\ UNCHANGED rows

\* Presigned: the row, then the client's PUT.  Multipart: S3 completes the
\* object, then the row.
Presigned(k) ==
  "presigned" \in Edits /\ (UploadRow(k, "none", "row") \/ UploadObject(k, "row", "put"))

Multipart(k) ==
  "multipart" \in Edits /\ (UploadObject(k, "none", "object") \/ UploadRow(k, "object", "completed"))

Edit ==
  \/ \E i \in Ids : Trash(i) \/ Purge(i)
  \/ \E k \in Keys : \E size \in Sizes \cup {0} : Put(k, size)
  \/ \E k \in Internal : Presigned(k) \/ Multipart(k)

Request(r) ==
  \/ \E i \in Ids : \/ \E p \in Ids \cup {Top} : Move(r, i, p)
                    \/ \E n \in NewNames \cup {rows[i].name} : Rename(r, i, n)
                    \/ Complete(r, i)
  \/ HeadObject(r) \/ SaveItem(r)

-----------------------------------------------------------------------------
Step(s) ==
  \/ ListObjects(s) \/ TakeObject(s)
  \/ Lookup(s) \/ Refresh(s)
  \/ FindFolder(s) \/ CreateFolder(s) \/ FoldersDone(s)
  \/ MatchName(s) \/ TakeOver(s) \/ CreateFile(s)

Start(s) == StartScan(s) \/ \E i \in Ids : StartScanInto(s, i)

Next ==
  \/ Edit
  \/ \E r \in Requests : Request(r)
  \/ \E s \in Scanners : Start(s) \/ Step(s)

Spec == Init /\ [][Next]_vars

\* A job that was started is not suspended.
FairSpec == Spec /\ \A s \in Scanners : WF_vars(Step(s))

-----------------------------------------------------------------------------
(* Properties.                                                             *)

\* "synchronizes its objects": after a scan that nothing disturbed every object
\* has a live row that tracks it, with the size S3 reports.  The exception is
\* a scan that gave the row of one object to another of the same name.
ObjectsTracked ==
  fresh = "yes" =>
    \A k \in Objects \ DirMarkers : \E i \in Tracking(k) : rows[i].size = bucket[k]

\* "re-running sync should not create duplicate items": a scan after a scan,
\* both of the whole drive, changes no row at all.
RescanChangesNothing == [][fresh = "yes" /\ scan' # scan => rows' = rows]_vars

\* "sync must not duplicate it": no object has two live rows, whatever uploads,
\* edits and deletions a scan meets.  Two exceptions: the object of a multipart
\* upload, which a scan may see before its row is inserted, and an object whose
\* row lost it, deleted or taken over, between the read and the Save of one
\* request, which gives it back.
OneRowPerObject ==
  \A k \in Keys : \/ Cardinality(Tracking(k)) <= 1
                  \/ k \in Internal /\ uploads[k] = "completed"
                  \/ k \in revived

\* "sync must not move an uploaded file out of its folder": a scan that nothing
\* disturbs leaves every row in its folder under its name, whoever made the row
\* and wherever the user had moved it before.
ScanMovesNothing ==
  [][fresh # "no" /\ scan' # scan =>
       \A i \in LiveIds : rows'[i].parent = rows[i].parent /\ rows'[i].name = rows[i].name]_vars

\* "the internal upload prefix must never become a folder".
NoPhantomFolder ==
  \A k \in Internal : \A i \in LiveIds : IsFolder(i) => rows[i].name # Path[k][1]

\* A scan comes to its end, although the bucket changes while it is listed.
ScanEnds == \A s \in Scanners : At(s, "list") ~> At(s, "idle")

=============================================================================
