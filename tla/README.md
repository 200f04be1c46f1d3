# A formal model of the Ponta Drive API

Ponta Drive gives each user a file browser over S3 buckets of their own. The
tree of folders and files lives in PostgreSQL (`drive_items`), the bytes live in
S3, the buckets are described by `cloud_accounts`, and a queue runs the jobs that
bring a bucket's content into the tree. The server is a Go program on the Goravel
framework; it opens **no transaction and takes no lock** around its database
work, so each handler is a sequence of single SQL statements and S3 calls that
interleaves with every other handler, with the queue workers, with what clients
do directly at S3, and with other programs that use the same bucket.

The modules here are TLA+ translations of that code. Paths below are relative to
the repository's root; `CDS` is `app/services/cloud_drive_service.go`, `CAC` is
`app/http/controllers/cloud_account_controller.go`, `CUR` is
`app/services/drive_cursor.go`.

## 1. The system

### 1.1 Components

| component | state it keeps | operations | modelled by |
|---|---|---|---|
| Drive tree | rows of `drive_items` (parent, type, account, soft delete), objects in S3, `used_storage` | create folder, rename / move, star, trash, permanent delete | `DriveTree` |
| Listing | none on the server; the cursor the client sends back | `GET /drive/items` | `DriveListing` |
| Multipart upload | `upload_sessions` row, the upload S3 keeps, its object, the new row | initiate, part, complete, abort, expiry | `MultipartUpload` |
| Presigned upload | a `drive_items` row with a status, the object, `used_storage` | initiate, the client's PUT, complete | `PresignedUpload` |
| Accounts and syncs | a `cloud_accounts` row, the jobs table | store, update, destroy, sync; the job; the Saves of uploads and deletes | `AccountSync` |
| Bucket scan | rows of `drive_items`, the bucket | `ScanBucket` page by page | `BucketScan` |
| Driver factory | a cache of S3 drivers per factory instance | create, invalidate | `AccountSync`, the account controller's |
| Bucket CORS rules | the rule set of each bucket | get, merge, put | `AccountSync` |
| Previews, downloads, ranges | none | preview, content with a range, content, streamed download | `FilePreview` |
| Password reset | `password_reset_tokens`, the user's password | forgot, reset | `PasswordReset` |
| Breadcrumbs, dashboard, activity log, authentication, credential encryption, mail, validation and routes, the create-user command, bootstrap and migrations | | | not modelled (6.) |

### 1.2 How they interact

* **Through rows.** `drive_items` is written by the tree handlers, both kinds of
  upload and the scan. `cloud_accounts` is written by the account endpoints, by
  every upload and permanent delete (`used_storage`), by the dispatch of a sync
  and by the job.
* **Through Save.** `Query().Save(&row)` writes *all* columns as they were read
  earlier, and inserts the row again when it is gone. `Update("column", v)`
  writes one column. Most hazards of this code are about the distance between a
  read and the Save that follows it.
* **Through S3.** A permanent delete removes objects, then rows. A multipart
  upload completes the object, then inserts the row; a presigned one inserts the
  row, hands out a URL and learns of the object when the client says so. A scan
  reads what all of them, and other programs, have left in the bucket.
* **Through the queue.** `dispatchSync` sets `sync_status`, then hands over a job
  (or runs it in place, with the `sync` driver); the job scans, saves the account
  and releases the status in a deferred function.
* **Through caches.** Every service, controller and job has a driver factory of
  its own, which keeps the driver it built from an account's credentials. Only the
  account controller's is told when they change.
* **Through reads that do not agree.** A preview, a content request and a download
  read the row up to three times and the object once, while an upload may be
  writing both.

### 1.3 What is hard, and what makes each part correct

*Drive tree.* Two moves that check their ancestors at the same time; a Save over
somebody else's move; a permanent delete whose S3 part fails or whose folder is
changed under it; walks that a cycle would keep going for ever. Correct means:
the rows form a forest under folders of their own account; only moves relocate;
objects go before rows; a permanent delete takes along what hangs below its folder
by live rows; `used_storage` stays between what the rows and what the bucket say;
requests end.

*Listing.* The cursor is a copy of a row that may have changed by the time it
comes back. Correct means: an item that nobody changes is returned once, whatever
happens around it.

*Multipart upload.* Parts in parallel, lost answers, retries, completes and aborts
that race, a crash anywhere. Correct means: at most one file of an upload, with
an object; recorded parts exist at S3; parts that were answered for are in the
object; nothing is left open at S3 that nobody remembers.

*Presigned upload.* Completion before, during and after the PUT, twice, or next
to a scan. Correct means: "ready" implies an object of that size, and its bytes
are counted.

*Accounts and syncs.* A queue that rejects, a scan that fails, an account that is
edited or disconnected while a scan of minutes runs. Correct means: "syncing"
ends; settings are not reverted; a disconnected account stays so;
`used_storage` is the sum of the files. The driver that the controller keeps is
one of the current credentials; the frontend gets its CORS rule, and although Put
replaces all rules, none is lost that was there when they were read.

*Bucket scan.* Objects of uploads in flight, rows that move, names that clash,
requests that save a row they read long ago, pages that fail. Correct means: one
row per object, every object has one, a second scan changes nothing, and a scan
moves nothing.

*Previews and downloads.* The size in the row is the client's word until a
completion or a scan has seen the object, and the cap, the range and the headers
are computed from one reading of it. Correct means: a range is answered with the
bytes that were asked for, the headers announce the body that follows, no more
than the cap is proxied, and a client that is told to use the proxy is served.

*Password reset.* Links asked for and used at the same time, mails that arrive
late, statements whose errors nobody looks at. Correct means: a link that a reset
or a newer link has removed is dead for good, and the latest one works for its 60
minutes or until it is used.

The list of hazards with their lines is in `PROJECT.json`.

## 2. The modules

Every module is parameterised by CONSTANTS with named assumptions. One action is
one SQL statement or S3 call with the in-memory work up to the next one; a
request is a record with a program counter and the rows it holds in memory.
`Requests` are goroutines of the HTTP server. Faults are switched on by constants
(`S3MayFail`, `DriverMayFail`, `DbMayFail`, `QueueMayFail`, `MayCrash`).
Definitions named "Mutated form of ..." stand next to the definition they change;
no specification uses them. They show that the property of a run does depend on
the code it is about. `MC*.tla` give the constants of small instances.

### 2.1 `DriveTree` — CDS 73-135, 268-500, `drive_item_controller.go`

`rows` maps an id to its state (`unused`, `live`, `trashed` for a soft delete,
`purged`), parent and `starred`, which stands for every column that a Save
carries along. `objects` is the set of files that S3 holds, `used` is
`used_storage` per account. What a request carries: `snap` (the row as read),
`cur`/`seen` (the walk of `isSelfOrDescendant`), `seen`/`todo` (the BFS of
`CollectDescendantItems`), `acct` (`used_storage` as read by `GetDriver`).

| action | code |
|---|---|
| `StartCreate`, `CheckParent`, `InsertFolder` | `StoreFolder`, `CreateFolder` |
| `StartUpdate`, `ReadItem`, `CheckDestination`, `WalkUp`, `SaveItem` | `UpdateItem`, `isSelfOrDescendant` |
| `StartOnItem`, `ReadItem`, `SaveItem` | `ToggleStar` |
| `TrashItem` | `DeleteItem`, soft |
| `GetDriver`, `CollectRoot`, `CollectChildren`, `DeleteObjects`, `PurgeRows`, `SettleAccount` | `DeleteItem`, permanent |
| `Crash` | the process stops; requests are forgotten, statements are not undone |

`AtomicTree` is what a client sees whose requests do not overlap: rows, and five
operations that happen at once (`Create`, `Move`, `Star`, `Trash`, `Remove`). A move
goes to a live folder of the account outside the item's subtree; a removal takes
exactly the subtree. It knows no walk, no search, no limit, no snapshot and no S3.
`DriveTree` instantiates it as `Tree` with its own `rows`; `ImplementsAtomicTree`
is `Tree!Spec`. Of the actions of `DriveTree` only `InsertFolder`, `SaveItem`,
`TrashItem` and `PurgeRows` change `rows`; all others stutter.

### 2.2 `DriveListing` — CUR, CDS 148-200, `drive_item_controller.go` Index

`rows` are the sort values of the items the folder lists. `walk` is the client:
the cursor it holds. `seen` counts how often the walk returned an item, `steady`
(a ghost) the items nobody changed since its first page. `Index` is the whole
handler: the WHERE of the cursor, ORDER BY type, column, id, LIMIT n + 1, the
next cursor. `Edit` is anything another request does to an item of the folder.
The client may change the ordering in mid-walk; the server ignores a cursor of
another ordering, which starts the walk anew.

### 2.3 `MultipartUpload` — CDS 593-780, `upload_session.go`, `s3_driver.go`

`session` is the row with `uploaded_parts` in the order of recording, `upload` is
S3's side (external: what `S3Accepts` and `S3Abort` say is how S3 answers),
`object` is the finished object as the list of its parts. S3 calls may fail
before or after their effect, the opening of the upload too (CDS 622), whose id is
then lost; the ghost `upload.told` says whether it arrived. SQL statements may
fail: most errors end the request, those of the account's Save (CDS 753) and of
the session's delete (CDS 757) are ignored, and so they are here. The ghost `past`
is the worst that has happened to requests: an ignored failure of the account's
Save ("uncounted"), a crash ("crashed"), two that met ("overlapped"). The promises
that hold only without them say so in their premise. `PatientSpec` is a client
discipline: parts in parallel, complete and abort only once they are answered.

`OneFileUpload` is what an upload promises without sessions, requests and S3
calls: `received` parts, `content` of the object, `fate` (open, discarded, stored,
listed); it ends once and its content never changes. `MultipartUpload`
instantiates it as `File`, with the parts S3 holds for `received`, the object's
list as a function of part numbers for `content`, and `Fate` read off the upload,
the object and the row. `ImplementsOneFile` is `File!Spec`.

### 2.4 `PresignedUpload` — CDS 503-590

The row with its status, the object, `used`. `Send` is the client's PUT (any size,
whatever was declared). Completions may be repeated and run in parallel.
`ScanBucket` is one sync job, statement by statement as far as it meets this
upload: `ListObjects` (CDS 859), `FindTracked` (876), `RefreshTracked` (886),
`ListingFails` (861), `SumSizes` (1026), `SaveUsed` (1033). The ghost `behind` marks
a `used` that a scan left too small: by a sum that a completion had overtaken before
it was saved, or by breaking off after the refresh.

### 2.5 `FilePreview` — `preview_policy.go`, `drive_item_controller.go`, CDS, `s3_driver.go`

Extends `PresignedUpload`: the same row and object, and `reader`, what each client
that reads the file is doing and was last answered. `ReadForPreview` and
`ResolvePreview` are `Preview` with `DecidePreviewStrategy`; `ReadForContent` is
what the controller does with the row (cap, then `ParseRangeHeader`), `ReadAgain`
the second reading inside `GetItemRange` and `GetItemStream`, `GetRange` and `Get`
the answer of S3, which cuts a range off at the end of the object. A file is its
number of bytes, and byte *b* is its *b*-th.

### 2.6 `AccountSync` — CAC, `sync_s3_bucket_job.go`, `factory.go`, `cors_policy.go`, CDS 1022-1037

The account row with `status`, `settings` (a version of the user's columns) and
`used`; `jobs` waiting; `files`, the sum the scan will find. A process is a request
or a worker; under the `sync` queue driver the request runs the job itself. `Save`
and `SaveScan` write the whole row that was read; `SetStatus` one column. `cached`
is the driver in the account controller's factory, named after the settings it was
built from, and `rules` the CORS rules of the bucket that each version of the
settings names: `InvalidateCache`, `DriverForAccount`, `GetBucketCors` and
`PutBucketCors` run after a Store, an Update and on demand. `OtherAddsRule` is
another program that adds a rule to a bucket (that it takes one away is left out).
The ghosts are `newest`, the settings the user asked for last; `counted`, which a
crash or a failed scan between a file's row and its bytes makes false until the next
complete scan; `allowed`, which says that the latest attempt to set the rule was not
given up; and each request's `missed`, the rules that another program added since it
read them.

### 2.7 `BucketScan` — CDS 849-1020

`rows` and `bucket`, a listing in pages, and per object: `Lookup` by
`storage_path`, `Refresh`, or the folders of the path (`FindFolder`,
`CreateFolder`), then `MatchName`, `TakeOver` or `CreateFile`. What other requests
do to the drive goes on beside it. Those that read a row and Save it later have a
step for each: `Read`, as `Move` and `Rename` of `UpdateItem` (268-306; a rename
that keeps the name is `ToggleStar`) or `Complete` of `CompletePresignedUpload`
(552); `HeadObject` (563); `SaveItem` (307, 354, 566, 579), which writes the row as
it was read. `held` is what they carry. `Edit` collects the others, whose one
statement on the row is a step: trash, deletion, the two statements of each upload,
other tools' objects. The ghost `fresh` follows whether a scan of the whole drive
has run to its end with no change since it began, `revived` the keys of rows that
were deleted, or given to another object, between the read and the Save of one
request.

### 2.8 `PasswordReset` — `auth_controller.go` ForgotPassword and ResetPassword

`tokens` are the rows for one address with their `created` times, `mailed` the
links a mail goroutine was given, `password` the link that set it. A request is
`GenerateToken`, `ReplaceTokens`, `StoreToken` or `FindToken`, `FindUser`,
`SaveUser`, `ClearTokens`: the statements of the two handlers, of which all that
write ignore their errors. `Expired` counts whole minutes, as `DiffInMinutes` does:
the clock has `Minute` units to one. The ghosts are `dead`, the links that a reset
cleared or a later request replaced; `newest`, the link that was stored last; and
`safe`: it was stored in an empty table with no reset under way, and no reset has
used it since. The clock moves between requests.

## 3. The runs

| run | specification and instance | states | shows |
|---|---|---|---|
| `tree_serial` | one request, 2 + 1 folders of two accounts, 2 files, driver and S3 failures | 373 k | `LiveFilesStored`, `NoOrphans`, `UsedBetweenRowsAndBucket`, `ImplementsAtomicTree` |
| `tree_concurrent` | two requests that create, move, delete; 2 folders, 1 file; fair | 639 k | `ParentIsFolder`, `PurgedObjectsGone`, `RequestsFinish` |
| `tree_single_writer` | two requests of all kinds, 3 folders, one Saver at a time, crashes | 999 k | `Acyclic`, `OnlyMovesRelocate` |
| `listing_pages` | 4 items, 2 columns, 2 directions, pages of 1, one edit | 86 k | `NoDuplicates`, `NoneSkipped` |
| `upload_concurrent` | two requests at a time, 2 parts of 2 contents, every fault of S3 and the database, crashes | 2.29 M | `ImplementsOneFile`, `OneItemPerUpload`, `RecordedPartsStored`, `NoLeakedUpload`; without overlap `ConfirmedRecorded`, `CompletesAllPartsSerially`, `SessionStaysGone`; `UsedCountsItem`, whose equation holds without crashes and ignored errors too |
| `upload_lost_part` | two parts in parallel, no fault | | **violates** `CompletesAllParts` |
| `sync_queue` | database queue, store, sync and destroy by two requests, one worker, rejected jobs, failing scans; fair | 1.03 M | `SyncingHasCause`, `SyncReleased` |
| `account_one_writer` | all operations, the job inside the request, one reader-writer at a time, every fault, crashes, another program that adds CORS rules | 1.13 M | `SettingsKept`, `UsedIsSum`, `DisconnectedStays`, `OwnDriverCurrent`, `FrontendAllowed`, `OnlyUnseenRulesLost` |
| `scan_drive` | one scan job, 4 keys, pages of 2, two edits of any kind, of which one request at a time holds a row; fair | 175 k | `OneRowPerObject`, `ObjectsTracked`, `RescanChangesNothing`, `ScanMovesNothing`, `ScanEnds` |
| `scan_phantom` | as above, trash and a presigned upload | | **violates** `NoPhantomFolder` |
| `file_preview` | two requests that upload (sizes 0, 2 and 3, two completions), scans, one reader, six ranges, a cap of 2 | 3.29 M | of the upload `ReadySizeIsReal`, `UsedCoversFile`; of the reader `RangeAsAsked`, `LengthIsBody`, `CapHolds`, `ProxyIsServed` |
| `password_reset` | two requests at a time, three links, a clock of half minutes to 4, expiry after 1 minute, failing statements, crashes | 771 k | `DeadLinksRefused`, `LatestLinkWorks` |

The type invariants of all modules but `DriveListing` are theorems (4.), so the
runs do not spend their time on them.

### 3.1 Bounds, and why they are enough

* *Tree.* A cycle needs two folders, and a walk that meets one which it did not
  start on needs a third. Two accounts are needed for the checks of
  `cloud_account_id`. `MaxDepth` and `MaxItems` are above the number of rows, as
  10000 is above that of a real drive; the limits themselves are discussed in 5.
  Ids are not reused, which bounds creations.
* *Listing.* With pages of one row every item is a page boundary; four items give
  three boundaries, two types, and equal and different values within a type. One
  edit can touch the item under the cursor, one before it or one after it; the
  theorem of 4. has no bound.
* *Multipart.* Two parts give order, replacement and loss, two contents a part
  that was sent again. Two requests at a time are a complete against an abort, or
  either against a straggling part; the number of requests one after the other has
  no bound.
* *Accounts.* Two requests (and one worker) give the interleavings of two writers;
  `MaxFiles`, `MaxVersions`, `MaxJobs` bound counters that the code has no limit
  for. One file is enough for a sum that is too large or too small by one, one
  edit for a driver that is a version behind. Another program adds one rule to
  each bucket. A crash may leave
  `used_storage` too large, again and again, so `Crash` is bounded by
  `account.used <= MaxFiles`.
* *Scan.* The keys are a directory marker, a key below it, a second one that a
  user may give to another row as its name, and the internal key of an upload.
  Pages of two make a full last page and a page in the middle of a directory.
  `MaxEdits` bounds what others begin; a request that has read a row may ask for its
  object and Save it at any later time, which takes no further edit. So one of two
  edits can delete the row that the other has read, with any number of scans between
  the steps. The ids suffice for every row that two edits and any number of scans
  make.
* *Previews.* Sizes 0 (the empty object, and the branches for it), 2 (the cap) and
  3 (above it), so that declared and real size may differ on both sides of the cap;
  the ranges are open, single, beyond the end, reversed, and unsatisfiable for small
  files. Scans follow one another without bound.
* *Password reset.* Three links: one that is used, one that replaces it, one that
  comes between; two requests at a time, since any two statements that race belong
  to two requests, and what a third left behind is in the table already (the
  theorems have no bound on either). The clock
  has half minutes, so that a minute may be full, half over or not begun when the
  link's age is cut to whole minutes, and runs beyond the expiry.

Folders of one account and requests are interchangeable where a run declares
symmetry; no run that checks liveness does.

### 3.2 Fairness

`RequestsFinish`, `SyncReleased` and `ScanEnds` assume weak fairness of the steps
of each request, worker and job that has begun: a goroutine that is not killed is
scheduled again, calls to the database and S3 return (with an answer or an
error), and an idle worker polls the queue. No client has to start anything, and
nothing is assumed of crashes, which these runs leave out: a killed request does
not finish, it is gone. Deadlock is looked for everywhere but in `file_preview`,
where a failed initiation ends the story of the one upload there is.

### 3.3 Specifications with fewer behaviours

Where a property is false of the code with arbitrary concurrency, the run says
under which discipline it holds, and the discipline is part of the instance: the
constant `OneWriter` of `DriveTree` (clients start an update or a star when no
other is in flight) and of `AccountSync` (at most one process between reading the
account and writing it back). `MultipartUpload` needs no such switch: its runs
allow everything, and the properties that overlap or a crash would break name
`past` in their premise. They tell a reader what a lock or a transaction would
have to give. What happens without them is in 5.

### 3.4 Two disagreements with the repository's own words

* `upload_lost_part`. `UploadPart` reads the session, sends the part, and Saves
  the session as it read it (CDS 687). Of two parts in parallel one recording is
  lost, and `CompleteMultipartUpload` assembles the object without it, although
  CDS 655 says that the part's ETag is recorded and CDS 694 that all parts are
  finalized. A client that sends its parts one at a time is safe
  (`CompletesAllPartsSerially`).
* `scan_phantom`. A scan looks for an object's row among rows that are not soft
  deleted (CDS 877). The object of an uploaded file in the trash is unknown to
  it, and its internal key `users/<id>/items/<uuid>` becomes folders, which
  `tests/feature/bucket_sync_test.go:292` says must never be.

## 4. The proofs

`*_proofs.tla` hold the theorems; TLAPS checks them for all values of the
constants that meet the assumptions of the module, so for any number of rows,
requests, parts, keys, sizes and pages. What a run of 3. shows under a switch of
its instance is a hypothesis of the theorem.

| module | theorem | hypotheses | property, for every state of `Spec` |
|---|---|---|---|
| `DriveTree_proofs` | `TypeCorrect` | | `TypeOK` |
| | `ParentsAreFolders` | | `ParentIsFolder` |
| | `NothingLeftBehind` | driver and S3 answer | `PurgedObjectsGone` |
| | `TreeStaysForest` | `OneWriter` or one request at a time, fewer rows than `MaxDepth` | `Acyclic` |
| | `MovesAlone` | `OneWriter` | `OnlyMovesRelocate` |
| | `FilesKeepObjects` | Saves meet no other request, no crash | `LiveFilesStored` |
| | `LiveSubtreesGo` | one request at a time, fewer rows than `MaxItems` | `NoOrphans` |
| | `UsedInBetween` | one request at a time, no crash | `UsedBetweenRowsAndBucket` |
| | `TreeIsAtomic` | `Calm`, fewer rows than `MaxDepth` and `MaxItems` | `ImplementsAtomicTree`: the refinement of `AtomicTree` |
| | `RequestsRunOut` | | a request ends within 3 * rows + 8 of its steps |
| `DriveListing_proofs` | `NoItemTwice`, `NoItemSkipped` | no empty text value | `NoDuplicates`, `NoneSkipped` |
| | `ScrollEnds` | no empty text value | each page but the last takes `Limit` rows off those ahead, an edit adds one at most |
| `MultipartUpload_proofs` | `TypeCorrect` | | `TypeOK` |
| | `OneItem` | | `OneItemPerUpload` |
| | `PartsStored` | | `RecordedPartsStored` |
| | `OneFile` | | `ImplementsOneFile`: the refinement of `OneFileUpload` |
| `UploadSerial_proofs` | `NothingLeaked` | | `NoLeakedUpload` |
| | `PartsStayRecorded` | | `ConfirmedRecorded` |
| | `AllPartsCompleted` | | `CompletesAllPartsSerially` |
| | `EndedStaysEnded` | | `SessionStaysGone` |
| | `BytesCountedOnce` | | `UsedCountsItem` |
| `AccountSync_proofs` | `TypeCorrect` | | `TypeOK` |
| | `RulesKept` | | `OnlyUnseenRulesLost` |
| | `SyncNeverStuck` | `OneWriter`, or no operation that Saves the row as read; no crash | `SyncingHasCause` |
| | `SettingsStay`, `UsedAddsUp`, `DriverCurrent`, `BucketReadable`, `TrashedForGood` | `OneWriter` | `SettingsKept`, `UsedIsSum`, `OwnDriverCurrent`, `FrontendAllowed`, `DisconnectedStays` |
| | `WorkEnds` | | a request or job ends within 13 of its steps |
| `BucketScan_proofs` | `TypeCorrect` | | `TypeOK` |
| | `OneRowEach`, `EveryObjectTracked`, `ScanKeepsPlaces`, `RescanIdle` | one scan at a time | `OneRowPerObject`, `ObjectsTracked`, `ScanMovesNothing`, `RescanChangesNothing` |
| | `ScansRunOut` | | a scan ends within a number of its steps that keys and depth bound |
| `FilePreview_proofs` | `PreviewTyped`, `ReadySizes`, `BytesCovered` | | `PreviewTypeOK`, `ReadySizeIsReal`, `UsedCoversFile` |
| | `RangesServed`, `LengthsAnnounced`, `CapEnforced`, `ProxyServes` | | `RangeAsAsked`, `LengthIsBody`, `CapHolds`, `ProxyIsServed` |
| `PasswordReset_proofs` | `TypeCorrect`, `DeadStayDead`, `LatestWorks` | | `TypeOK`, `DeadLinksRefused`, `LatestLinkWorks` |

`Calm` is: one request at a time, or `OneWriter` and nothing is trashed or
deleted. The properties of `UploadSerial_proofs` carry their condition (no
overlap, no crash, no ignored error) in a premise about `past`, so their theorems
need none. In the same way `OneRowPerObject`, `UsedCoversFile` and `LatestLinkWorks`
name the cases that the code does not cover, in `revived`, `behind` and `safe`: the
theorems say that there are no others, and 5. says what happens in those.

### 4.1 The arguments

Hardly any property is inductive as it stands. Each proof adds what the program
counters say of the copies that requests hold, and the same step recurs: a copy
may be old, but only in ways that do no harm.

* *Types of the tree.* A `SaveItem` of a request whose `item` were `Root` would
  break `TypeOK`. `PhaseInv` adds what each program counter says of the request's
  other fields; `TypeInv` is the two together. The other modules do the same
  (`TypeInv`, `IInv`), `BucketScan` with `PhaseOf`.
* *Parents.* `HangInv` extends `ParentIsFolder` to the rows that requests carry:
  the destination of a creation past its check, and the parent in a `snap` that a
  Save will write. A folder that was good as a parent stays good, because a
  folder's kind, its account and its having existed never change
  (`GoodParentStable`). So the check may be as stale as it likes.
* *Forest.* "No set of rows is closed under parent": that formulation needs no
  transitive closure. `ForestInv` says that the table is a forest, that the
  *pending* Save of the one writer would leave a forest too (`Safe`: while it
  walks, every closed set that the move could make contains what is still to be
  visited), and that there is one writer at most, which the starts of requests
  keep (`WriterStaysAlone`). Deletes and creations by others keep `Safe`
  (`Prune`, `AddLeaf`); a move that has passed its walk grafts a tree on a row
  outside it (`Graft`). The depth limit lets a walk end early, which is why the
  theorem needs fewer rows than `MaxDepth` (`DepthNotReached`).
* *What a delete leaves.* `StoreInv`: a request about to remove rows has removed
  their objects; a Save that brings a row back is no removal. `StoredInv`: a live
  file without its object is on the list of a request about to remove it.
  `OrphanInv`: what the BFS has taken in is closed under "child of", but for the
  rows still to be visited, so that at its end it is the whole subtree. `UsedInv`
  puts what a delete under way owes on the right side of both inequalities, and
  the subtraction at its end moves it.
* *Atomic tree.* `CalmInv` is the inductive invariant of `TreeIsAtomic`. Where
  requests are calm, what a request checked still holds when it writes, and what
  it read is what it overwrites (`ExactInv`). The upward walk of a move has left
  behind it only rows outside the item's subtree; the search of a delete has, by
  `OrphanInv`, all of the subtree at its end, and, by `ExactInv`, nothing else. So
  `SaveItem` is a `Move` or a `Star`, and `PurgeRows` a `Remove` of exactly
  `Subtree(item)`, which `AtomicTree` defines without a transitive closure, as
  what every downward closed set with the item has. Deletes beside a Save are left
  out because the Save would bring the row back.
* *Moves.* `PlaceInv`: of the rows that requests carry, only that of a move past
  its check has another parent than the table.
* *Listing.* `PositionInv`: a steady item has been returned exactly if it does
  not come after the cursor. The comparison of the WHERE clause is transitive and
  extends the order of the ORDER BY (`WhereTransitive`, `WhereIsAfter`), and so a
  page leaves no gap behind it (`BeforePage`). What it leaves ahead are the rows
  that it could hold without those it does (`PageEnd`), from which `ScrollEnds`
  follows by counting: no folder that is left alone can be scrolled for ever.
* *One item, one file.* `ItemInv`: at most one request is past a successful
  completion and before the row's insertion, and only if there is no row yet; S3
  answers one completion, since the upload is then no longer open. `RecInv`: S3
  forgets no part, so an old list of parts names stored ones. With them each step
  of `MultipartUpload` is a step of `OneFileUpload` or leaves its state alone.
* *Uploads without overlap.* `EarlyInv` and `LeakInv`: until there is a session,
  the one initiation under way answers for the upload whose id it was told.
  `SerialInv`: a request that is alone holds the list the row has, whatever failed
  before; `CountInv` the same of the account. `LessInv` needs neither: what a
  request is about to write is no more than the items there will be, so overlaps
  and failures lose bytes but never count them twice.
* *Never stuck.* `SyncInv`: whoever could Save a row that says "syncing" is a job
  which will release it after that. It needs that no other Save is under way with
  a "syncing" that it read, so either there is one at a time, or only operations
  without such a Save are used.
* *Everything ends.* `StepsLeft` gives each program counter, with the data it
  holds, a number that each step of its owner lowers and that nobody else changes
  while it is not idle. For the tree it counts the rows that a walk has
  not `seen`: racing moves may tie a cycle, but no walk meets a row twice. For
  a scan it counts the keys after the token, the objects left on the page and the
  folders left of the path: what others put into the bucket behind the token is left
  to the next scan. For an account it is the rank of the label, since no statement
  of a request or job is ever repeated. These three theorems have no hypothesis:
  they hold for concurrent requests, failures and crashes.
* *CORS rules.* `CorsInv`: between Get and Put the bucket has no more than what was
  read, the frontend's rule, and what the request has `missed`; and of two requests
  on their way to the same Put, each has read or missed what the other has read. So
  a Put loses nothing that another request read, added or kept.
* *One writer of the account.* `WriterInv`: the copy that the one writer carries
  is the row, in the fields its next Save must not change; every other step writes
  single columns that no Save reads (`LightStep`, `WriterStep`).
* *Scan.* `RowInv`: past `Lookup` the key has no row but the one found, because the
  only others that insert rows with keys are uploads, whose keys were unknown before
  (`Unknown`: to the bucket, the rows, the scan and the requests that hold rows),
  and because a Save by a request gives a key to no row that has not had it all
  along, unless the key is one of `revived`. `FreshInv`: undisturbed, what the scan
  holds is what is there, and every object is on its page, still to be listed, or
  `Settled`: it has a row of its size, or is a marker with a `Way` of folders from
  the top. Rows that a scan makes break no way that is there (`WayStays`), and there
  is one way at most (`WayUnique`), so the next scan walks the same one.
* *Previews.* `RowsMatch`, `ReadersHold`: a row says "ready" only with the size of
  its object (or over an empty one), and so does every copy that a completion or a
  reader holds, since an object that is there does not change; with that the
  arithmetic of a range is that of the body. `CoverInv`: the bytes of a ready row
  are counted, or the request or the scan that counts them is under way; the sum
  that a scan has read covers the row unless it was `overtaken` (`ScanSound`).
* *Password reset.* `DeadGone`: a dead link is not in the table, and no request
  holds one that it could still store. `Alone`: while the latest link is `safe`, the
  table holds no other row. `OwnReset`: so whoever is past `FindToken` found this
  very link, to reset with it, or to clear it as expired; the rest is
  `LatestStored`, and that whole minutes only ever make it live longer
  (`WholeMinutes`).

### 4.2 What is model-checked only

`RequestsFinish`, `SyncReleased` and `ScanEnds`: liveness under fairness is out of
the prover's reach, as is ENABLED. The half of each that is a safety property is
proved: no request, job or scan can go on for ever, as each of its steps lowers a
number that is bounded (`RequestsRunOut`, `WorkEnds`, `ScansRunOut`). The other
half, that an unfinished one always has a step it can take and, being fair, takes,
is what TLC adds on its instances. Induction over data is available in a
first-order form only (a set of numbers that is not empty has a least element,
`LeastExists` of `BucketScan_proofs`), which `WayUnique` uses; no module has a
RECURSIVE operator. The two violations are counterexamples and need no proof.

## 5. Known limits of the code

What the model shows when a discipline or a bound of 3. is taken away. Each was
seen as a counterexample or read off the code where the model has no such step (the
item then says so); the runs above keep the promise that does hold.

* **Two moves at a time** tie a cycle: both pass `isSelfOrDescendant` before
  either is saved (CDS 294-297). `Acyclic` fails with `OneWriter = FALSE`.
* **More than 10000 descendants**: `CollectDescendantItems` stops (CDS 463), and
  the rest stays below a purged folder. `NoOrphans` fails when `MaxItems` is
  smaller than a subtree.
* **A folder in the trash under a folder that is purged**: the search leaves out
  rows that are soft deleted (CDS 469-474), so neither that folder nor what is live
  below it is deleted, although the comment at CDS 361 promises "all descendant
  files and folders". `NoOrphans` follows the way up by live rows only, and
  `Subtree` of `AtomicTree` is what hangs there by live rows.
* **Resurrected rows**: a rename, move or star in flight Saves, and so inserts, a
  row that was deleted for ever meanwhile (CDS 307); two in flight undo each other.
  `LiveFilesStored`, `Acyclic` and `OnlyMovesRelocate` are about drives where this
  does not happen.
* **Empty sort values**: the cursor of a row whose name is empty loses its column
  tier (CUR 64, 167) and rows are skipped; in a descending walk others come again,
  page after page: with two such names and one other, pages of one never end.
  `CreateFolder` trims names, so a name of blanks is stored empty. `NoneSkipped`
  fails with `TextValues = {0, 1}` (sizes may be 0: a number is not taken for a
  NULL).
* **A part recorded after the end** brings the session row back; parts recorded
  out of order make a list that S3 refuses (`s3_driver.go:380` sends them in that
  order), so the upload can never be completed.
* **An upload whose id is lost**: when S3 opens an upload and its answer does not
  arrive, the handler returns an error without an id to abort (CDS 622-625), and the
  upload stays open at S3 for good; nothing looks for such uploads. The same after a
  crash before the session is stored. `NoLeakedUpload` fails without `told` in its
  premise.
* **Bytes that are not counted**: the error of the account's Save after a multipart
  completion (CDS 753), and after a presigned one (586), is ignored; the file is
  there, and `used_storage` lacks it until the next scan. `UsedCountsItem` then says
  only that nothing is counted twice.
* **The parent of a multipart upload** is checked for its account only (CDS 607), so
  a file may be the parent of a file, and once, so it may be gone by the time the
  file is made. `ParentIsFolder` is about folders made by `CreateFolder` and moves.
* **An account update over a sync**: `Update` Saves the account with the
  "syncing" it read, after the job released it (CAC 337), and nothing releases it
  again. `SyncReleased` fails once `update` is among the `Ops` of `sync_queue`. A
  job that ends Saves the account as it read it (CDS 1033), over an update, or over
  a disconnection, which it undoes. `SettingsKept` and `DisconnectedStays` are
  checked under `OneWriter`.
* **The release of "syncing"** is one UPDATE whose error is ignored
  (`sync_s3_bucket_job.go:77`): when it fails the account stays "syncing". The model
  has no failing UPDATE there; `SyncReleased` is about a database that answers.
* **Two scans of one account**, or a scan and the end of a multipart upload, each
  insert a row for the object they both found unknown. `OneRowPerObject` fails with
  two `Scanners`, and excepts the upload.
* **A late Save beside a scan**: a request reads a row; the row goes to the trash, or
  a name match gives it to another object; a scan finds the object without a row and
  inserts one; the request then Saves what it read (CDS 307, 354, 566, 579), and the
  object has two live rows. `OneRowPerObject` excepts these objects (`revived`) and
  fails without the exception.
* **Scan over user**: `Refresh` Saves the row as looked up, over a move, a rename
  or a deletion in between; a name match (CDS 990) gives the row of one object to
  another object of that name, and the first is without a row. `ScanMovesNothing`
  and `ObjectsTracked` are about scans that nothing disturbs and that took no row
  from another object.
* **Drivers of the other factories**: the drive services and the jobs build their
  own factory, whose cache nobody invalidates (`factory.go:80`). After a change of
  credentials they use the old ones until the server restarts. `OwnDriverCurrent`
  is about the account controller's cache, the only one that is told; the others
  are not modelled.
* **CORS rules of others**: `ensureBucketCors` puts what it read and its own rule,
  so a rule that another program puts between Get and Put is lost (CAC 444). That is
  the one loss that `OnlyUnseenRulesLost` allows. Rules that another program takes
  away come back by the same Put; the model leaves that out.
* **Completions** of a presigned upload count the bytes once each (CDS 584) until
  a scan puts the sum right, and one that ends after a scan's sum counts what the
  scan has summed; one that saw no object Saves "failed" over a later "ready", and so
  does any error of HeadObject.
* **A scan's sum that is overtaken**: a completion that saves its row and its bytes
  between the SUM (CDS 1026) and the Save of the account (1033) is lost from
  `used_storage`; a scan whose later page fails returns before the SUM, with rows made
  ready that nobody has counted. Both last until the next completion or scan.
  `UsedCoversFile` excepts them (`behind`) and fails without the exception.
* **Previews of unfinished uploads** are capped and ranged by the size that the
  client declared (CDS 533), because the object has not been looked at yet; the
  properties of `FilePreview` are about files that were ready when they were read.
  A client that keeps its URL and PUTs again after the completion is outside the
  model: one PUT per URL is assumed.
* **Password reset**: no statement that writes checks its error. The user may be
  told of a success without a new password, or be mailed a link that was never
  stored; a reset that was accepted earlier may Save after a later one. Two requests
  for a link that overlap both delete, then both insert: two links live, and a reset
  with one, or one that has expired, deletes the other unused. A link is good until
  61 minutes have passed, not 60, because the comparison is between whole minutes
  (`auth_controller.go:320`). Until a reset has run its last delete, or when that
  fails or a crash prevents it, a second reset may use the link again. Sessions that
  are open stay open (JWTs are not modelled).
* **Crashes** leave: an object without a row (between S3's completion and the
  insert), an account that says "syncing" (between the status and the job). No
  code at start looks for either.

## 6. What is not modelled

* *Dashboard and breadcrumbs* only read. The breadcrumb walk stops at a repeated
  id exactly as that of `isSelfOrDescendant`, which `DriveTree` has.
* *Activity log*: rows that nothing reads back to decide anything, and whose
  failures are ignored.
* *Authentication, JWT, credential encryption, mail, validation, routes,
  localisation, the create-user command, bootstrap, configuration, migrations*:
  calls of the framework, rendering, wiring and schema, without a protocol of
  their own.
* *The framework*: the ORM beyond Save, Update, First and ForceDelete, the queue
  beyond "waits, then runs once".
* *Headers and links*: download links that S3 serves itself, range headers that do
  not parse, the drive services' and the jobs' driver caches.
* *Database errors* are modelled for the statements of `MultipartUpload` and of
  `PasswordReset`, both those that end the request and those that are ignored.
  Elsewhere a statement that fails ends the request with what was done before, which
  is what `Crash` models where a module has it; errors that the code ignores there
  (the account's Save at CDS 586 and after a permanent delete, the job's UPDATE) are
  named in 5. and have no step in a model.
* Scans are modelled for one account, uploads for one session at a time: others
  share rows with them only through `used_storage`, whose races `AccountSync` has.
  `PresignedUpload` has one scan at a time, as the queue's default of one worker has
  (`config/queue.go`).

## 7. Plan

Done: the modules of 2., the refinements of `OneFileUpload` and `AtomicTree`, and
the theorems of 4., which cover every safety property of the runs and bound the
steps of requests, jobs and scans.

Left, in this order: an account whose operations are atomic as an abstract
specification that `AccountSync` implements under `OneWriter`, but for the status,
which a Save may put back to what it read before a sync was marked; the drivers of
the drive services and the jobs, with which credentials each request reaches the
bucket; two scanners with the weaker promise that duplicates go away, once the
code has a way to remove them.
