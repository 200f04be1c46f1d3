--------------------------- MODULE PresignedUpload ---------------------------
(***************************************************************************)
(* An upload that the client sends straight to S3: the drive_items row that *)
(* waits for it, the object, and the bytes counted in used_storage.          *)
(*                                                                         *)
(* Abstractions.  One upload; the account's other files are left out of      *)
(* used.  Scans run one at a time, as the queue's one worker runs them, and  *)
(* what a scan does to other files is BucketScan's matter; its pages are one  *)
(* listing, with a later one that may fail.  Nobody deletes the file          *)
(* meanwhile, no request is cut off, and single SQL statements do not fail.   *)
(***************************************************************************)
EXTENDS Integers

CONSTANTS
  Requests,        \* request goroutines
  Sizes,           \* sizes a client declares or sends
  S3MayFail,       \* presigning, HeadObject or a listing may fail
  MaxCompletions   \* bound: completions that are asked for

ASSUME SizeAssumption   == Sizes \subseteq Nat /\ MaxCompletions \in Nat
ASSUME SwitchAssumption == S3MayFail \in BOOLEAN

VARIABLES
  row,         \* the drive_items row
  object,      \* size of the object, NoObject while there is none
  used,        \* used_storage, counted from the start of the upload
  url,         \* ghost: the client was given an upload URL
  completions, \* ghost: completions asked for
  req,         \* what each request is doing
  scan,        \* what the sync job is doing
  behind       \* ghost: the latest scan broke off, or wrote a sum that a
               \* completion had overtaken, and no completion counted since

scanVars == <<scan, behind>>

vars == <<row, object, used, url, completions, req, scan, behind>>

-----------------------------------------------------------------------------
NoObject == -1

Row == [state : {"none", "live", "gone"},
        status : {"uploading", "ready", "failed"},
        size : Sizes \cup {0}]

NoRow == [state |-> "none", status |-> "uploading", size |-> 0]

Request == [pc : {"idle", "insert", "presign", "read", "getDriver", "head",
                  "saveReady", "saveFailed", "count"},
            snap : Row,               \* the row as this request read it
            acct : Int]               \* used_storage as it read that

Idle == [pc |-> "idle", snap |-> NoRow, acct |-> 0]

Scan == [pc : {"idle", "find", "refresh", "listMore", "saveUsed"},
         seen : Sizes \cup {NoObject},   \* the object as it was listed
         snap : Row,                     \* the row to be saved
         total : Nat,                    \* the sum that was read
         overtaken : BOOLEAN]            \* ghost: a completion saved the row since

NoScan == [pc |-> "idle", seen |-> NoObject, snap |-> NoRow, total |-> 0, overtaken |-> FALSE]

TypeOK ==
  /\ row \in Row
  /\ object \in Sizes \cup {NoObject}
  /\ used \in Int /\ completions \in Nat
  /\ url \in BOOLEAN
  /\ req \in [Requests -> Request]
  /\ scan \in Scan /\ behind \in BOOLEAN

Init ==
  /\ row = NoRow /\ object = NoObject /\ used = 0
  /\ url = FALSE /\ completions = 0
  /\ req = [r \in Requests |-> Idle]
  /\ scan = NoScan /\ behind = FALSE

At(r, label) == req[r].pc = label

Becomes(r, q) == req' = [req EXCEPT ![r] = q]

GoesTo(r, label) == Becomes(r, [req[r] EXCEPT !.pc = label])

Finish(r) == Becomes(r, Idle)

-----------------------------------------------------------------------------
(* Initiating: the row first, then the URL.                                *)

StartInitiate(r) ==
  /\ At(r, "idle") /\ row.state = "none"
  /\ \A p \in Requests : ~At(p, "insert")
  /\ GoesTo(r, "insert")
  /\ UNCHANGED <<row, object, used, url, completions, scanVars>>

InsertPending(r) ==
  /\ At(r, "insert")
  /\ \E size \in Sizes : row' = [state |-> "live", status |-> "uploading", size |-> size]
  /\ GoesTo(r, "presign")
  /\ UNCHANGED <<object, used, url, completions, scanVars>>

\* Without a URL the row is deleted for good.
Presign(r) ==
  /\ At(r, "presign")
  /\ \/ url' = TRUE /\ UNCHANGED row
     \/ S3MayFail /\ row' = [row EXCEPT !.state = "gone"] /\ UNCHANGED url
  /\ Finish(r)
  /\ UNCHANGED <<object, used, completions, scanVars>>

-----------------------------------------------------------------------------
(* Completing: whatever the status of the row, and as often as asked.      *)

StartComplete(r) ==
  /\ At(r, "idle") /\ url /\ completions < MaxCompletions
  /\ completions' = completions + 1
  /\ GoesTo(r, "read")
  /\ UNCHANGED <<row, object, used, url, scanVars>>

ReadItem(r) ==
  /\ At(r, "read")
  /\ IF row.state = "live"
       THEN Becomes(r, [req[r] EXCEPT !.snap = row, !.pc = "getDriver"])
       ELSE Finish(r)
  /\ UNCHANGED <<row, object, used, url, completions, scanVars>>

GetDriver(r) ==
  /\ At(r, "getDriver")
  /\ \/ Becomes(r, [req[r] EXCEPT !.acct = used, !.pc = "head"])
     \/ S3MayFail /\ Finish(r)
  /\ UNCHANGED <<row, object, used, url, completions, scanVars>>

\* Mutated form of GetMetadata: its error is not looked at.
MetadataIgnored(r) ==
  /\ At(r, "head")
  /\ Becomes(r, [req[r] EXCEPT !.snap.status = "ready", !.pc = "saveReady"])
  /\ UNCHANGED <<row, object, used, url, completions, scanVars>>

\* Any error of HeadObject counts as a missing file; an object without content
\* leaves the declared size.
GetMetadata(r) ==
  /\ At(r, "head")
  /\ \/ /\ object # NoObject
        /\ Becomes(r, [req[r] EXCEPT !.snap.status = "ready",
                                     !.snap.size = IF object > 0 THEN object ELSE @,
                                     !.pc = "saveReady"])
     \/ /\ object = NoObject \/ S3MayFail
        /\ Becomes(r, [req[r] EXCEPT !.snap.status = "failed", !.pc = "saveFailed"])
  /\ UNCHANGED <<row, object, used, url, completions, scanVars>>

\* Save: the row as it was read, inserted again if it is gone.
SaveItem(r) ==
  /\ \/ At(r, "saveReady") /\ GoesTo(r, "count")
     \/ At(r, "saveFailed") /\ Finish(r)
  /\ row' = req[r].snap
  /\ scan' = [scan EXCEPT !.overtaken = scan.pc = "saveUsed"]
  /\ UNCHANGED <<object, used, url, completions, behind>>

\* Mutated form of CountBytes: what was read is written back.
CountNothing(r) ==
  /\ At(r, "count")
  /\ used' = req[r].acct
  /\ Finish(r)
  /\ UNCHANGED <<row, object, url, completions, scanVars>>

CountBytes(r) ==
  /\ At(r, "count")
  /\ IF req[r].snap.size > 0
       THEN used' = req[r].acct + req[r].snap.size /\ behind' = FALSE
       ELSE UNCHANGED <<used, behind>>
  /\ Finish(r)
  /\ UNCHANGED <<row, object, url, completions, scan>>

-----------------------------------------------------------------------------
\* The client's PUT.
Send ==
  /\ url /\ object = NoObject
  /\ \E size \in Sizes : object' = size
  /\ UNCHANGED <<row, used, url, completions, req, scanVars>>

-----------------------------------------------------------------------------
(* ScanBucket, as far as it meets this upload.                             *)

ScanAt(label) == scan.pc = label

Scans(q) == scan' = q /\ UNCHANGED <<object, url, completions, req>>

ListObjects ==
  /\ ScanAt("idle")
  /\ Scans([NoScan EXCEPT !.seen = object, !.pc = "find"])
  /\ UNCHANGED <<row, used, behind>>

\* Only a listed object is looked up.
FindTracked ==
  /\ ScanAt("find")
  /\ IF scan.seen # NoObject /\ row.state = "live"
       THEN Scans([scan EXCEPT !.snap = [row EXCEPT !.status = "ready", !.size = scan.seen],
                               !.pc = "refresh"])
       ELSE Scans([NoScan EXCEPT !.pc = "listMore"])
  /\ UNCHANGED <<row, used, behind>>

\* Save: the row as it was found.
RefreshTracked ==
  /\ ScanAt("refresh")
  /\ row' = scan.snap
  /\ Scans([NoScan EXCEPT !.pc = "listMore"])
  /\ UNCHANGED <<used, behind>>

\* Without the next page the scan returns, and no sum is taken.
ListingFails ==
  /\ ScanAt("listMore") /\ S3MayFail
  /\ behind' = TRUE
  /\ Scans(NoScan)
  /\ UNCHANGED <<row, used>>

\* The sum is that of all rows, pending ones too.
SumSizes ==
  /\ ScanAt("listMore")
  /\ Scans([NoScan EXCEPT !.total = IF row.state = "live" THEN row.size ELSE 0,
                           !.pc = "saveUsed"])
  /\ UNCHANGED <<row, used, behind>>

\* Save: the account as it was read at the start of the scan, with the sum.
SaveUsed ==
  /\ ScanAt("saveUsed")
  /\ used' = scan.total
  /\ behind' = scan.overtaken
  /\ Scans(NoScan)
  /\ UNCHANGED row

ScanBucket ==
  \/ ListObjects \/ FindTracked \/ RefreshTracked \/ ListingFails
  \/ SumSizes \/ SaveUsed

Start(r) == StartInitiate(r) \/ StartComplete(r)

Advance(r) ==
  \/ InsertPending(r) \/ Presign(r)
  \/ ReadItem(r) \/ GetDriver(r) \/ GetMetadata(r) \/ SaveItem(r) \/ CountBytes(r)

Next ==
  \/ Send
  \/ ScanBucket
  \/ \E r \in Requests : Start(r)
  \/ \E r \in Requests : Advance(r)

Spec == Init /\ [][Next]_vars

-----------------------------------------------------------------------------
(* Properties.                                                             *)

Ready == row.state = "live" /\ row.status = "ready"

Quiet == \A r \in Requests : At(r, "idle")

\* "verifies the uploaded object on S3 and marks the DriveItem as ready": a
\* ready file has its object and the size of that, not the one that was
\* declared, however completions and a scan, which Save the row as they read it,
\* race with the PUT and with each other; only an empty object may stand under
\* the declared size.
ReadySizeIsReal == Ready => object \in {row.size, 0}

\* Between requests and scans used_storage covers a ready file, whichever of
\* completion and scan made it ready and in whatever order they write the
\* account, unless the last to write it was a scan whose sum a completion had
\* overtaken, or a scan broke off after it had refreshed the row.  (That the
\* bytes are counted no more than once is not said: each completion counts
\* them again, and one may count what a scan has summed.)
UsedCoversFile == Quiet /\ ScanAt("idle") /\ Ready /\ ~behind => used >= row.size

=============================================================================
