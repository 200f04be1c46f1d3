--------------------------- MODULE MultipartUpload ---------------------------
(***************************************************************************)
(* One multipart upload: the upload_sessions row, the upload S3 keeps under *)
(* its upload id, and the requests that initiate it, send parts, complete   *)
(* and abort it.  Requests run concurrently; each action is one SQL         *)
(* statement or one S3 call with the work in memory that follows it.        *)
(*                                                                         *)
(* Abstractions.  Other sessions are left out: they share the account row   *)
(* alone.  The file has size 1, a part is a number and the ETag of its      *)
(* data.  The parent of the file is looked at once, when the upload is      *)
(* initiated, and any row will do, a file's or one that is trashed or        *)
(* purged by the time the file is made: what becomes of it is DriveTree's.   *)
(***************************************************************************)
EXTENDS Integers, Sequences, FiniteSets

CONSTANTS
  Requests,       \* request goroutines
  PartNumbers,    \* part numbers that clients send
  Etags,          \* ETags of part data
  DriverMayFail,  \* GetDriver may fail
  S3MayFail,      \* an S3 call may answer an error, with or without its effect
  DbMayFail,      \* a SQL statement may fail
  MayCrash        \* the server may stop between two steps

ASSUME PartAssumption   == PartNumbers \subseteq Nat \ {0}
ASSUME SwitchAssumption == {DriverMayFail, S3MayFail, DbMayFail, MayCrash} \subseteq BOOLEAN

VARIABLES
  session,    \* the row: whether it exists, and uploaded_parts
  upload,     \* what S3 holds under the upload id
  object,     \* the parts of the finished object, <<>> while there is none
  items,      \* drive_items rows made of this upload
  used,       \* used_storage of the account, counted from the upload's start
  expired,    \* expires_at has passed
  confirmed,  \* ghost: parts whose request was answered with success
  past,       \* ghost: the worst that has happened to requests so far
  req         \* what each request goroutine is doing

vars == <<session, upload, object, items, used, expired, confirmed, past, req>>

-----------------------------------------------------------------------------
Part == [n : PartNumbers, etag : Etags]

NoPart == "noPart"

ASSUME EtagAssumption == NoPart \notin Etags

Session == [state : {"none", "open", "gone"}, parts : Seq(Part)]

Upload == [state : {"none", "open", "completed", "aborted"},
           parts : [PartNumbers -> Etags \cup {NoPart}],
           told : BOOLEAN,                        \* ghost: its id reached the code
           abortTried : BOOLEAN]                  \* ghost: the code asked to abort

Request == [op : {"none", "initiate", "part", "complete", "abort"},
            pc : {"idle", "checkParent", "createUpload", "insertSession", "cleanUp",
                  "readSession", "getDriver", "sendPart", "recordPart", "completeUpload", "createItem",
                  "saveAccount", "abortUpload", "deleteSession"},
            n : PartNumbers \cup {0},       \* part number of the request
            etag : Etags \cup {NoPart},     \* what S3 answered for it
            parts : Seq(Part),              \* uploaded_parts as this request read them
            acct : Nat]                     \* used_storage as this request read it

\* Nothing; the account's Save failed; a crash cut one short; two of them met.
Past == {"serial", "uncounted", "crashed", "overlapped"}

Idle == [op |-> "none", pc |-> "idle", n |-> 0, etag |-> NoPart, parts |-> <<>>, acct |-> 0]

TypeOK ==
  /\ session \in Session
  /\ upload \in Upload
  /\ object \in Seq(Part)
  /\ items \in Nat /\ used \in Nat
  /\ expired \in BOOLEAN
  /\ confirmed \subseteq PartNumbers
  /\ past \in Past
  /\ req \in [Requests -> Request]

Init ==
  /\ session = [state |-> "none", parts |-> <<>>]
  /\ upload = [state |-> "none", parts |-> [n \in PartNumbers |-> NoPart],
               told |-> FALSE, abortTried |-> FALSE]
  /\ object = <<>>
  /\ items = 0 /\ used = 0
  /\ expired = FALSE
  /\ confirmed = {}
  /\ past = "serial"
  /\ req = [r \in Requests |-> Idle]

At(r, label) == req[r].pc = label

Becomes(r, q) == req' = [req EXCEPT ![r] = q]

GoesTo(r, label) == Becomes(r, [req[r] EXCEPT !.pc = label])

Finish(r) == Becomes(r, Idle)

Quiet == \A r \in Requests : At(r, "idle")

\* A request that starts while another is in flight.
NoteOverlap == past' = IF Quiet THEN past ELSE "overlapped"

Numbers(parts) == {parts[i].n : i \in DOMAIN parts}

-----------------------------------------------------------------------------
(* Initiating: create the S3 upload, then the session row.                 *)

StartInitiate(r) ==
  /\ At(r, "idle") /\ upload.state = "none"
  /\ \A p \in Requests : req[p].op # "initiate"
  /\ Becomes(r, [Idle EXCEPT !.op = "initiate", !.pc = "checkParent"])
  /\ NoteOverlap
  /\ UNCHANGED <<session, upload, object, items, used, expired, confirmed>>

\* Without a driver, or without the row of the parent, the request ends.
CheckParent(r) ==
  /\ At(r, "checkParent")
  /\ GoesTo(r, "createUpload") \/ Finish(r)
  /\ UNCHANGED <<session, upload, object, items, used, expired, confirmed, past>>

\* An error ends the request, and with it the id of an upload that S3 may have
\* opened before its answer was lost.
CreateUpload(r) ==
  /\ At(r, "createUpload")
  /\ \/ /\ upload' = [upload EXCEPT !.state = "open", !.told = TRUE]
        /\ GoesTo(r, "insertSession")
     \/ /\ S3MayFail
        /\ upload' = [upload EXCEPT !.state = "open"] \/ UNCHANGED upload
        /\ Finish(r)
  /\ UNCHANGED <<session, object, items, used, expired, confirmed, past>>

\* Mutated form of InsertSession: the error path returns at once.
InsertOrGiveUp(r) ==
  /\ At(r, "insertSession")
  /\ \/ session' = [session EXCEPT !.state = "open"]
     \/ DbMayFail /\ UNCHANGED session
  /\ Finish(r)
  /\ UNCHANGED <<upload, object, items, used, expired, confirmed, past>>

InsertSession(r) ==
  /\ At(r, "insertSession")
  /\ \/ /\ session' = [session EXCEPT !.state = "open"]
        /\ Finish(r)
     \/ /\ DbMayFail /\ UNCHANGED session
        /\ GoesTo(r, "cleanUp")
  /\ UNCHANGED <<upload, object, items, used, expired, confirmed, past>>

\* AbortMultipart at S3: its error is ignored by every caller.
S3Abort ==
  \/ /\ upload.state = "open"
     /\ \E s \in {"aborted"} \cup (IF S3MayFail THEN {"open"} ELSE {}) :
          upload' = [upload EXCEPT !.state = s, !.abortTried = TRUE]
  \/ /\ upload.state # "open"
     /\ UNCHANGED upload

CleanUp(r) ==
  /\ At(r, "cleanUp")
  /\ S3Abort
  /\ Finish(r)
  /\ UNCHANGED <<session, object, items, used, expired, confirmed, past>>

-----------------------------------------------------------------------------
(* The other requests read the session and then the account.               *)

StartPart(r, n) ==
  /\ At(r, "idle") /\ session.state # "none"
  /\ Becomes(r, [Idle EXCEPT !.op = "part", !.n = n, !.pc = "readSession"])
  /\ NoteOverlap
  /\ UNCHANGED <<session, upload, object, items, used, expired, confirmed>>

StartClose(r, op) ==
  /\ At(r, "idle") /\ session.state # "none"
  /\ Becomes(r, [Idle EXCEPT !.op = op, !.pc = "readSession"])
  /\ NoteOverlap
  /\ UNCHANGED <<session, upload, object, items, used, expired, confirmed>>

\* Mutated form of ReadSession: First answers a zero record and no error when
\* there is no row, and nothing looks at it.
ReadNoSession(r) ==
  /\ At(r, "readSession")
  /\ Becomes(r, [req[r] EXCEPT !.parts = session.parts, !.pc = "getDriver"])
  /\ UNCHANGED <<session, upload, object, items, used, expired, confirmed, past>>

\* Only a part request looks at expires_at.
ReadSession(r) ==
  /\ At(r, "readSession")
  /\ \/ /\ session.state = "open" /\ ~(req[r].op = "part" /\ expired)
        /\ Becomes(r, [req[r] EXCEPT !.parts = session.parts, !.pc = "getDriver"])
     \/ /\ session.state # "open" \/ (req[r].op = "part" /\ expired) \/ DbMayFail
        /\ Finish(r)
  /\ UNCHANGED <<session, upload, object, items, used, expired, confirmed, past>>

AfterDriver(r) ==
  CASE req[r].op = "part"     -> "sendPart"
    [] req[r].op = "complete" -> "completeUpload"
    [] OTHER                  -> "abortUpload"

\* Mutated form of GetDriver: an upload without parts is not refused.
GetDriverForAny(r) ==
  /\ At(r, "getDriver")
  /\ Becomes(r, [req[r] EXCEPT !.acct = used, !.pc = AfterDriver(r)])
  /\ UNCHANGED <<session, upload, object, items, used, expired, confirmed, past>>

\* Without a driver an abort still deletes the session.
GetDriver(r) ==
  /\ At(r, "getDriver")
  /\ \/ /\ ~(req[r].op = "complete" /\ req[r].parts = <<>>)
        /\ Becomes(r, [req[r] EXCEPT !.acct = used, !.pc = AfterDriver(r)])
     \/ /\ req[r].op = "complete" /\ req[r].parts = <<>>
        /\ Finish(r)
     \/ /\ DriverMayFail
        /\ IF req[r].op = "abort" THEN GoesTo(r, "deleteSession") ELSE Finish(r)
  /\ UNCHANGED <<session, upload, object, items, used, expired, confirmed, past>>

-----------------------------------------------------------------------------
(* Sending a part.                                                         *)

SendPart(r) ==
  /\ At(r, "sendPart")
  /\ \/ /\ upload.state = "open"
        /\ \E e \in Etags :
             /\ upload' = [upload EXCEPT !.parts[req[r].n] = e]
             /\ \/ Becomes(r, [req[r] EXCEPT !.etag = e, !.pc = "recordPart"])
                \/ S3MayFail /\ Finish(r)
     \/ /\ upload.state # "open" \/ S3MayFail
        /\ UNCHANGED upload
        /\ Finish(r)
  /\ UNCHANGED <<session, object, items, used, expired, confirmed, past>>

\* Mutated form of AddUploadedPart: the last entry is taken for the part's own.
ReplaceLast(parts, part) ==
  IF parts = <<>> THEN <<part>> ELSE [parts EXCEPT ![Len(parts)] = part]

\* Mutated form of AddUploadedPart: always appended.
AlwaysAppend(parts, part) == Append(parts, part)

\* Replaces the entry of that part number, or appends one.
AddUploadedPart(parts, part) ==
  IF part.n \in Numbers(parts)
    THEN [i \in DOMAIN parts |-> IF parts[i].n = part.n THEN part ELSE parts[i]]
    ELSE Append(parts, part)

\* uploaded_parts as this request writes it.
WithPart(r) == AddUploadedPart(req[r].parts, [n |-> req[r].n, etag |-> req[r].etag])

\* Mutated form of RecordPart: the error of the Save is not looked at.
ConfirmAnyway(r) ==
  /\ At(r, "recordPart")
  /\ session' = [state |-> "open", parts |-> WithPart(r)] \/ (DbMayFail /\ UNCHANGED session)
  /\ confirmed' = confirmed \cup {req[r].n}
  /\ Finish(r)
  /\ UNCHANGED <<upload, object, items, used, expired, past>>

\* Save writes every column as this request read it, and inserts the row again
\* if it is gone.
RecordPart(r) ==
  /\ At(r, "recordPart")
  /\ \/ /\ session' = [state |-> "open", parts |-> WithPart(r)]
        /\ confirmed' = confirmed \cup {req[r].n}
     \/ DbMayFail /\ UNCHANGED <<session, confirmed>>
  /\ Finish(r)
  /\ UNCHANGED <<upload, object, items, used, expired, past>>

-----------------------------------------------------------------------------
(* Completing.                                                             *)

\* S3 wants the parts in ascending order, each with the ETag it holds for it.
S3Accepts(parts) ==
  /\ upload.state = "open"
  /\ \A i \in DOMAIN parts : upload.parts[parts[i].n] = parts[i].etag
  /\ \A i, j \in DOMAIN parts : i < j => parts[i].n < parts[j].n

\* Mutated form of CompleteUpload: the error of S3 is not looked at.
CompleteAnyway(r) ==
  /\ At(r, "completeUpload")
  /\ IF S3Accepts(req[r].parts)
       THEN upload' = [upload EXCEPT !.state = "completed"] /\ object' = req[r].parts
       ELSE UNCHANGED <<upload, object>>
  /\ GoesTo(r, "createItem")
  /\ UNCHANGED <<session, items, used, expired, confirmed, past>>

CompleteUpload(r) ==
  /\ At(r, "completeUpload")
  /\ \/ /\ S3Accepts(req[r].parts)
        /\ upload' = [upload EXCEPT !.state = "completed"]
        /\ object' = req[r].parts
        /\ \/ GoesTo(r, "createItem")
           \/ S3MayFail /\ Finish(r)
     \/ /\ ~S3Accepts(req[r].parts) \/ S3MayFail
        /\ UNCHANGED <<upload, object>>
        /\ Finish(r)
  /\ UNCHANGED <<session, items, used, expired, confirmed, past>>

CreateItem(r) ==
  /\ At(r, "createItem")
  /\ \/ items' = items + 1 /\ GoesTo(r, "saveAccount")
     \/ DbMayFail /\ UNCHANGED items /\ Finish(r)
  /\ UNCHANGED <<session, upload, object, used, expired, confirmed, past>>

\* Mutated form of SaveAccount: the size is set, not added to what was read.
OverwriteAccount(r) ==
  /\ At(r, "saveAccount")
  /\ used' = req[r].acct
  /\ GoesTo(r, "deleteSession")
  /\ UNCHANGED <<session, upload, object, items, expired, confirmed, past>>

\* The error of this Save is ignored: the file is there and not counted.
SaveAccount(r) ==
  /\ At(r, "saveAccount")
  /\ \/ used' = req[r].acct + 1 /\ UNCHANGED past
     \/ /\ DbMayFail /\ UNCHANGED used
        /\ past' = IF past = "serial" THEN "uncounted" ELSE past
  /\ GoesTo(r, "deleteSession")
  /\ UNCHANGED <<session, upload, object, items, expired, confirmed>>

-----------------------------------------------------------------------------
(* Aborting, and the end of both.                                          *)

AbortUpload(r) ==
  /\ At(r, "abortUpload")
  /\ S3Abort
  /\ GoesTo(r, "deleteSession")
  /\ UNCHANGED <<session, object, items, used, expired, confirmed, past>>

\* A hard delete, for upload_sessions has no deleted_at; its error is ignored.
DeleteSession(r) ==
  /\ At(r, "deleteSession")
  /\ \/ session' = [state |-> "gone", parts |-> <<>>]
     \/ DbMayFail /\ UNCHANGED session
  /\ Finish(r)
  /\ UNCHANGED <<upload, object, items, used, expired, confirmed, past>>

-----------------------------------------------------------------------------
\* A day passes.
Expire ==
  /\ session.state = "open" /\ ~expired
  /\ expired' = TRUE
  /\ UNCHANGED <<session, upload, object, items, used, confirmed, req, past>>

Crash ==
  /\ MayCrash
  /\ req' = [r \in Requests |-> Idle]
  /\ past' = IF Quiet \/ past = "overlapped" THEN past ELSE "crashed"
  /\ UNCHANGED <<session, upload, object, items, used, expired, confirmed>>

Start(r) ==
  \/ StartInitiate(r)
  \/ \E n \in PartNumbers : StartPart(r, n)
  \/ \E op \in {"complete", "abort"} : StartClose(r, op)

Advance(r) ==
  \/ CheckParent(r) \/ CreateUpload(r) \/ InsertSession(r) \/ CleanUp(r)
  \/ ReadSession(r) \/ GetDriver(r)
  \/ SendPart(r) \/ RecordPart(r)
  \/ CompleteUpload(r) \/ CreateItem(r) \/ SaveAccount(r)
  \/ AbortUpload(r) \/ DeleteSession(r)

Next == Expire \/ Crash \/ \E r \in Requests : Start(r) \/ Advance(r)

Spec == Init /\ [][Next]_vars

-----------------------------------------------------------------------------
(* Clients that send parts in parallel and complete or abort once they are *)
(* answered.                                                               *)

Closing(r) == req[r].op \in {"complete", "abort"}

ClosersAlone ==
  \A p, q \in Requests : Closing(p) /\ ~At(q, "idle") => p = q

PatientSpec == Init /\ [][Next /\ ClosersAlone']_vars

-----------------------------------------------------------------------------
(* The upload implements an atomic one: see OneFileUpload.                 *)

Fate ==
  CASE items > 0                 -> "listed"
    [] items = 0 /\ object # <<>> -> "stored"
    [] items = 0 /\ object = <<>> -> IF upload.state = "aborted" THEN "discarded" ELSE "open"

FileOf(parts) ==
  [n \in Numbers(parts) |-> parts[CHOOSE i \in DOMAIN parts : parts[i].n = n].etag]

File == INSTANCE OneFileUpload
          WITH received <- upload.parts, content <- FileOf(object), fate <- Fate

-----------------------------------------------------------------------------
(* Properties.                                                             *)

\* However many requests race, whatever fails and wherever the server stops,
\* an upload is one transfer with one end: it is discarded, or made into one
\* object of parts that were received, which never changes again and becomes
\* a file at most once.
ImplementsOneFile == File!Spec

\* However many requests race to complete or abort an upload, it becomes at
\* most one file, and only if its object exists: S3 refuses the second one,
\* and CompleteMultipartUpload stops at that error.
OneItemPerUpload == items <= 1 /\ (items = 1 => object # <<>>)

\* uploaded_parts never names a part S3 does not hold, nor one part twice: a
\* part is recorded after it was sent, and sent again it replaces its entry.
RecordedPartsStored ==
  /\ \A n \in Numbers(session.parts) : upload.parts[n] # NoPart
  /\ Cardinality(Numbers(session.parts)) = Len(session.parts)

\* An open S3 upload whose id reached the code is stored in a session or was
\* asked to go: an initiation that cannot store the session aborts the upload.
\* Two kinds are left behind: those of a server that stops between the two, and
\* those whose id was lost with S3's answer, for nothing looks for such uploads.
NoLeakedUpload ==
  /\ past # "crashed" /\ Quiet
  /\ upload.state = "open" /\ upload.told /\ ~upload.abortTried
  => session.state # "none"

\* A file is never counted twice, however often its completion is tried; and
\* where no request met another or was cut short, and the ignored Save of the
\* account did not fail, used_storage has grown by just the file that was made.
UsedCountsItem ==
  /\ used <= items
  /\ past = "serial" /\ Quiet => used = items

\* "records the part's ETag": with one request in flight at a time, as in
\* tests/feature/multipart_upload_test.go, and whatever crashes, a part that
\* was answered for stays recorded until the session ends.
ConfirmedRecorded ==
  past # "overlapped" /\ session.state = "open" => confirmed \subseteq Numbers(session.parts)

HoldsAllParts == object' # object => confirmed \subseteq Numbers(object')

\* "finalizes all parts": the object holds every part answered for by then.
CompletesAllParts == [][HoldsAllParts]_vars

\* The same, with one request in flight at a time.
CompletesAllPartsSerially == [][past' # "overlapped" => HoldsAllParts]_vars

\* "Record should be deleted": a session that was completed or aborted comes
\* back only where a part was sent at that very time.
SessionStaysGone ==
  [][past' # "overlapped" /\ session.state = "gone" => session'.state = "gone"]_vars

=============================================================================
