----------------------------- MODULE AccountSync -----------------------------
(***************************************************************************)
(* One row of cloud_accounts and everything that writes it: the account     *)
(* endpoints, the dispatch of a bucket sync, the job that scans the bucket, *)
(* and the uploads and deletions that count used_storage.  With it go the   *)
(* driver that the account controller caches and the CORS rules it puts on  *)
(* the account's bucket.                                                    *)
(*                                                                         *)
(* Two kinds of writes meet here.  An UPDATE names its columns (sync_status *)
(* and last_synced_at alone); a Save writes every column as the request or  *)
(* the job read it earlier, and inserts the row again if it is gone.        *)
(*                                                                         *)
(* Abstractions.  settings is the version of the columns that a user edits  *)
(* (name, credentials, flags); each version names a bucket of its own.  A   *)
(* file has size 1 and files is the sum that the scan reads from            *)
(* drive_items; single SQL statements do not fail.  The drive services have *)
(* driver caches of their own, which nothing invalidates; they are left out. *)
(***************************************************************************)
EXTENDS Integers, FiniteSets

CONSTANTS
  Requests,      \* request goroutines
  Workers,       \* queue workers ("concurrent" of config/queue.go)
  Ops,           \* operations that clients send
  QueueDriver,   \* QUEUE_CONNECTION
  QueueMayFail,  \* the queue backend may reject a job
  S3MayFail,     \* no driver for the account, or a listing fails
  MayCrash,      \* the server may stop between two statements
  OneWriter,     \* discipline: what reads the row and writes it back runs alone
  SharedBuckets, \* other programs add CORS rules of their own
  MaxJobs,       \* bound: rows in the jobs table
  MaxFiles,      \* bound: drive_items rows of the account
  MaxVersions    \* bound: edits of the settings

AllOps == {"store", "sync", "update", "destroy", "cors", "upload", "purge"}

ASSUME ProcessAssumption == Requests \cap Workers = {}
ASSUME QueueAssumption   == QueueDriver \in {"sync", "database"} /\ Ops \subseteq AllOps
ASSUME SwitchAssumption  == {QueueMayFail, S3MayFail, MayCrash, OneWriter, SharedBuckets}
                              \subseteq BOOLEAN
ASSUME BoundAssumption   == {MaxJobs, MaxFiles, MaxVersions} \subseteq Nat

VARIABLES
  account,   \* the row
  jobs,      \* sync jobs waiting in the jobs table
  files,     \* SUM(size) of the account's files
  newest,    \* ghost: the latest version of the settings that was asked for
  counted,   \* ghost: nothing broke off between a file's row and its bytes
  cached,    \* settings of the driver in the account controller's factory
  rules,     \* CORS rules of each bucket
  allowed,   \* ghost: the latest attempt to set the CORS rule came to its end
  proc       \* what each request and each worker is doing

bucketVars == <<cached, rules, allowed>>

vars == <<account, jobs, files, newest, counted, cached, rules, allowed, proc>>

-----------------------------------------------------------------------------
Processes == Requests \cup Workers

Account == [state : {"none", "live", "trashed"},
            status : {"idle", "syncing", "error"},
            settings : 0..MaxVersions,
            used : Nat]

NoAccount == [state |-> "none", status |-> "idle", settings |-> 0, used |-> 0]

NoDriver == -1

\* The rule that lets the frontend GET, what other rules there are at first, and
\* what another program adds.
Rule == {"app", "other", "added"}

Process == [op : AllOps \cup {"none", "scan"},
            pc : {"idle", "insert", "read", "markSyncing", "dispatch", "markError",
                  "delete", "addFile", "removeFile", "save",
                  "invalidate", "reload", "corsDriver", "getCors", "putCors",
                  "getDriver", "list", "sum", "saveScan", "release"},
            snap : Account,       \* the row as this process read it
            failed : BOOLEAN,     \* scanErr
            driver : 0..MaxVersions,  \* settings of the driver it got for CORS
            existing : SUBSET Rule,   \* the rules it read with it
            missed : SUBSET Rule]     \* ghost: what others have added since

Idle == [op |-> "none", pc |-> "idle", snap |-> NoAccount, failed |-> FALSE,
         driver |-> 0, existing |-> {}, missed |-> {}]

TypeOK ==
  /\ account \in Account
  /\ jobs \in Nat /\ files \in Nat /\ newest \in 0..MaxVersions /\ counted \in BOOLEAN
  /\ cached \in {NoDriver} \cup 0..MaxVersions
  /\ rules \in [0..MaxVersions -> SUBSET Rule]
  /\ allowed \in BOOLEAN
  /\ proc \in [Processes -> Process]

Init ==
  /\ account = NoAccount
  /\ jobs = 0 /\ files = 0 /\ newest = 0 /\ counted = TRUE
  /\ cached = NoDriver
  /\ rules = [v \in 0..MaxVersions |-> {"other"}]
  /\ allowed = TRUE
  /\ proc = [p \in Processes |-> Idle]

At(p, label) == proc[p].pc = label

\* What reads the row and writes it back, or deletes it: as many at a time as
\* there are processes, or one where OneWriter says so.
Writing(p) ==
  \/ proc[p].op \in {"update", "destroy", "cors", "upload", "purge"}
  \/ proc[p].pc \in {"getDriver", "list", "sum", "saveScan", "release", "markError",
                    "reload", "corsDriver", "getCors", "putCors"}

AtMostOneWriter == \A p, q \in Processes : Writing(p) /\ Writing(q) => p = q

Becomes(p, q) ==
  /\ proc' = [proc EXCEPT ![p] = q]
  /\ OneWriter => AtMostOneWriter'

GoesTo(p, label) == Becomes(p, [proc[p] EXCEPT !.pc = label])

Finish(p) == Becomes(p, Idle)

Live == account.state = "live"

-----------------------------------------------------------------------------
(* Requests.                                                               *)

\* A fresh connection: create the row, then dispatch its first sync.
StartStore(r) ==
  /\ "store" \in Ops
  /\ At(r, "idle") /\ account.state = "none"
  /\ \A p \in Requests : proc[p].op # "store"
  /\ Becomes(r, [Idle EXCEPT !.op = "store", !.pc = "insert"])
  /\ UNCHANGED <<account, jobs, files, newest, counted, bucketVars>>

Insert(r) ==
  /\ At(r, "insert")
  /\ account' = [NoAccount EXCEPT !.state = "live"]
  /\ GoesTo(r, "markSyncing")
  /\ UNCHANGED <<jobs, files, newest, counted, bucketVars>>

StartRequest(r, op) ==
  /\ op \in Ops \ {"store"}
  /\ At(r, "idle") /\ account.state # "none"
  /\ Becomes(r, [Idle EXCEPT !.op = op, !.pc = "read"])
  /\ UNCHANGED <<account, jobs, files, newest, counted, bucketVars>>

AfterRead(r) ==
  CASE proc[r].op = "sync"    -> "markSyncing"
    [] proc[r].op = "update"  -> "save"
    [] proc[r].op = "destroy" -> "delete"
    [] proc[r].op = "cors"    -> "corsDriver"
    [] proc[r].op = "upload"  -> "addFile"
    [] OTHER                  -> "removeFile"

\* Mutated form of ReadAccount: trashed rows are found as well.
ReadWithTrashed(r) ==
  /\ At(r, "read")
  /\ newest' = newest + (IF proc[r].op = "update" THEN 1 ELSE 0)
  /\ newest' <= MaxVersions
  /\ Becomes(r, [proc[r] EXCEPT !.snap = [account EXCEPT !.state = "live", !.settings = newest'],
                                !.pc = AfterRead(r)])
  /\ UNCHANGED <<account, jobs, files, counted, bucketVars>>

\* An update changes the settings of the row in memory; the others keep them.
ReadAccount(r) ==
  /\ At(r, "read")
  /\ \/ /\ Live /\ proc[r].op = "update" /\ newest < MaxVersions
        /\ newest' = newest + 1
        /\ Becomes(r, [proc[r] EXCEPT !.snap = [account EXCEPT !.settings = newest + 1],
                                      !.pc = AfterRead(r)])
     \/ /\ Live /\ proc[r].op # "update"
        /\ Becomes(r, [proc[r] EXCEPT !.snap = account, !.pc = AfterRead(r)])
        /\ UNCHANGED newest
     \/ /\ ~Live \/ (proc[r].op = "update" /\ newest >= MaxVersions)
        /\ Finish(r)
        /\ UNCHANGED newest
  /\ UNCHANGED <<account, jobs, files, counted, bucketVars>>

\* The row of a finished upload is created; its bytes are counted next.
AddFile(r) ==
  /\ At(r, "addFile")
  /\ IF files < MaxFiles
       THEN /\ files' = files + 1
            /\ Becomes(r, [proc[r] EXCEPT !.snap.used = @ + 1, !.pc = "save"])
       ELSE UNCHANGED files /\ Finish(r)
  /\ UNCHANGED <<account, jobs, newest, counted, bucketVars>>

FlooredAt0(n) == IF n < 0 THEN 0 ELSE n

\* Mutated form of RemoveFile: the bytes that are freed are not subtracted.
RemoveRowOnly(r) ==
  /\ At(r, "removeFile")
  /\ IF files > 0
       THEN files' = files - 1 /\ GoesTo(r, "save")
       ELSE UNCHANGED files /\ Finish(r)
  /\ UNCHANGED <<account, jobs, newest, counted, bucketVars>>

RemoveFile(r) ==
  /\ At(r, "removeFile")
  /\ IF files > 0
       THEN /\ files' = files - 1
            /\ Becomes(r, [proc[r] EXCEPT !.snap.used = FlooredAt0(@ - 1), !.pc = "save"])
       ELSE UNCHANGED files /\ Finish(r)
  /\ UNCHANGED <<account, jobs, newest, counted, bucketVars>>

\* Mutated form of Save: a row built from the request alone, as Store makes it.
SaveNewRow(r) ==
  /\ At(r, "save")
  /\ account' = [NoAccount EXCEPT !.state = "live", !.used = proc[r].snap.used]
  /\ Finish(r)
  /\ UNCHANGED <<jobs, files, newest, counted, bucketVars>>

\* After the row is saved or deleted the controller's driver is dropped.
AfterSave(r) == IF proc[r].op = "update" THEN GoesTo(r, "invalidate") ELSE Finish(r)

\* The whole row as it was read, whatever happened to it meanwhile.
Save(r) ==
  /\ At(r, "save")
  /\ account' = proc[r].snap
  /\ AfterSave(r)
  /\ UNCHANGED <<jobs, files, newest, counted, bucketVars>>

SoftDelete(r) ==
  /\ At(r, "delete")
  /\ account' = [account EXCEPT !.state = "trashed"]
  /\ GoesTo(r, "invalidate")
  /\ UNCHANGED <<jobs, files, newest, counted, bucketVars>>

-----------------------------------------------------------------------------
(* Dispatching a sync.                                                     *)

\* Store goes on to the CORS rule once its sync is dispatched.
AfterSync(p) == IF proc[p].op = "store" THEN GoesTo(p, "reload") ELSE Finish(p)

\* UPDATE ... SET sync_status = s WHERE id = ? AND deleted_at IS NULL.
SetStatus(s) == account' = IF Live THEN [account EXCEPT !.status = s] ELSE account

MarkSyncing(r) ==
  /\ At(r, "markSyncing")
  /\ SetStatus("syncing")
  /\ GoesTo(r, "dispatch")
  /\ UNCHANGED <<jobs, files, newest, counted, bucketVars>>

\* Mutated form of Dispatch: a rejected job is only logged.
DispatchAndForget(r) ==
  /\ At(r, "dispatch")
  /\ \/ QueueDriver = "sync" /\ GoesTo(r, "getDriver") /\ UNCHANGED jobs
     \/ QueueDriver = "database" /\ jobs < MaxJobs /\ jobs' = jobs + 1 /\ AfterSync(r)
     \/ QueueMayFail /\ AfterSync(r) /\ UNCHANGED jobs
  /\ UNCHANGED <<account, files, newest, counted, bucketVars>>

\* The "sync" driver runs the job inside the request.
Dispatch(r) ==
  /\ At(r, "dispatch")
  /\ \/ QueueDriver = "sync" /\ GoesTo(r, "getDriver") /\ UNCHANGED jobs
     \/ QueueDriver = "database" /\ jobs < MaxJobs /\ jobs' = jobs + 1 /\ AfterSync(r)
     \/ QueueMayFail /\ GoesTo(r, "markError") /\ UNCHANGED jobs
  /\ UNCHANGED <<account, files, newest, counted, bucketVars>>

MarkError(r) ==
  /\ At(r, "markError")
  /\ SetStatus("error")
  /\ AfterSync(r)
  /\ UNCHANGED <<jobs, files, newest, counted, bucketVars>>

-----------------------------------------------------------------------------
(* The bucket's CORS rule, after Store and Update and on demand.  A failure *)
(* is logged, or answered on demand, and changes no row.                    *)

\* Mutated form of InvalidateCache: the driver stays in the cache.
KeepDriver(r) ==
  /\ At(r, "invalidate")
  /\ IF proc[r].op = "update" THEN GoesTo(r, "corsDriver") ELSE Finish(r)
  /\ UNCHANGED <<account, jobs, files, newest, counted, bucketVars>>

InvalidateCache(r) ==
  /\ At(r, "invalidate")
  /\ cached' = NoDriver
  /\ IF proc[r].op = "update" THEN GoesTo(r, "corsDriver") ELSE Finish(r)
  /\ UNCHANGED <<account, jobs, files, newest, counted, rules, allowed>>

GivesUp(r) == allowed' = FALSE /\ Finish(r)

Reload(r) ==
  /\ At(r, "reload")
  /\ \/ /\ Live
        /\ Becomes(r, [proc[r] EXCEPT !.snap = account, !.pc = "corsDriver"])
        /\ UNCHANGED allowed
     \/ ~Live /\ GivesUp(r)
  /\ UNCHANGED <<account, jobs, files, newest, counted, cached, rules>>

\* The cached driver is taken whatever settings it was built from.
DriverForAccount(r) ==
  /\ At(r, "corsDriver")
  /\ \/ \E v \in IF cached = NoDriver THEN {proc[r].snap.settings} ELSE {cached} :
          /\ cached' = v
          /\ Becomes(r, [proc[r] EXCEPT !.driver = v, !.pc = "getCors"])
          /\ UNCHANGED allowed
     \/ S3MayFail /\ GivesUp(r) /\ UNCHANGED cached
  /\ UNCHANGED <<account, jobs, files, newest, counted, rules>>

\* Mutated form of GetBucketCors: any rule is taken for the frontend's.
GetAnyRule(r) ==
  /\ At(r, "getCors")
  /\ \/ rules[proc[r].driver] # {} /\ allowed' = TRUE /\ Finish(r)
     \/ S3MayFail /\ GivesUp(r)
  /\ UNCHANGED <<account, jobs, files, newest, counted, cached, rules>>

GetBucketCors(r) ==
  /\ At(r, "getCors")
  /\ \/ "app" \in rules[proc[r].driver] /\ allowed' = TRUE /\ Finish(r)
     \/ /\ "app" \notin rules[proc[r].driver]
        /\ Becomes(r, [proc[r] EXCEPT !.existing = rules[proc[r].driver], !.pc = "putCors"])
        /\ UNCHANGED allowed
     \/ S3MayFail /\ GivesUp(r)
  /\ UNCHANGED <<account, jobs, files, newest, counted, cached, rules>>

\* Mutated form of MergeCorsRules: only the frontend's rule is put.
OnlyAppRule(existing) == {"app"}

MergeCorsRules(existing) == existing \cup {"app"}

\* Put replaces every rule of the bucket.
PutBucketCors(r) ==
  /\ At(r, "putCors")
  /\ \/ /\ rules' = [rules EXCEPT ![proc[r].driver] = MergeCorsRules(proc[r].existing)]
        /\ \/ allowed' = TRUE /\ Finish(r)
           \/ S3MayFail /\ GivesUp(r)
     \/ S3MayFail /\ GivesUp(r) /\ UNCHANGED rules
  /\ UNCHANGED <<account, jobs, files, newest, counted, cached>>

\* Another program adds a rule.  (That it takes some away is left out.)
OtherAddsRule(v) ==
  /\ SharedBuckets /\ "added" \notin rules[v]
  /\ rules' = [rules EXCEPT ![v] = @ \cup {"added"}]
  /\ proc' = [p \in Processes |->
                IF At(p, "putCors") /\ proc[p].driver = v
                  THEN [proc[p] EXCEPT !.missed = @ \cup {"added"}] ELSE proc[p]]
  /\ UNCHANGED <<account, jobs, files, newest, counted, cached, allowed>>

-----------------------------------------------------------------------------
(* The job.                                                                *)

TakeJob(w) ==
  /\ At(w, "idle") /\ jobs > 0
  /\ jobs' = jobs - 1
  /\ Becomes(w, [Idle EXCEPT !.op = "scan", !.pc = "getDriver"])
  /\ UNCHANGED <<account, files, newest, counted, bucketVars>>

Fails(p) == Becomes(p, [proc[p] EXCEPT !.failed = TRUE, !.pc = "release"])

GetDriver(p) ==
  /\ At(p, "getDriver")
  /\ \/ Live /\ Becomes(p, [proc[p] EXCEPT !.snap = account, !.pc = "list"])
     \/ ~Live /\ Fails(p)
     \/ S3MayFail /\ Fails(p)
  /\ UNCHANGED <<account, jobs, files, newest, counted, bucketVars>>

\* The scan creates rows for objects it does not know; it may fail half way.
ListBucket(p) ==
  /\ At(p, "list")
  /\ \E n \in {0, 1} :
       /\ files + n <= MaxFiles /\ files' = files + n
       /\ \/ GoesTo(p, "sum") /\ UNCHANGED counted
          \/ S3MayFail /\ Fails(p) /\ counted' = (counted /\ n = 0)
  /\ UNCHANGED <<account, jobs, newest, bucketVars>>

\* Mutated form of SumFiles: the files found are added to what was stored.
AddFiles(p) ==
  /\ At(p, "sum")
  /\ Becomes(p, [proc[p] EXCEPT !.snap.used = @ + files, !.pc = "saveScan"])
  /\ UNCHANGED <<account, jobs, files, newest, counted, bucketVars>>

SumFiles(p) ==
  /\ At(p, "sum")
  /\ Becomes(p, [proc[p] EXCEPT !.snap.used = files, !.pc = "saveScan"])
  /\ UNCHANGED <<account, jobs, files, newest, counted, bucketVars>>

SaveScan(p) ==
  /\ At(p, "saveScan")
  /\ account' = proc[p].snap
  /\ counted' = TRUE
  /\ GoesTo(p, "release")
  /\ UNCHANGED <<jobs, files, newest, bucketVars>>

\* Mutated form of Release: only a scan that succeeded releases the account.
ReleaseOnSuccess(p) ==
  /\ At(p, "release")
  /\ IF proc[p].failed THEN UNCHANGED account ELSE SetStatus("idle")
  /\ AfterSync(p)
  /\ UNCHANGED <<jobs, files, newest, counted, bucketVars>>

\* The deferred function of the job.  Inside a request its error comes back
\* from Dispatch.
Release(p) ==
  /\ At(p, "release")
  /\ SetStatus(IF proc[p].failed THEN "error" ELSE "idle")
  /\ IF proc[p].failed /\ p \in Requests THEN GoesTo(p, "markError") ELSE AfterSync(p)
  /\ UNCHANGED <<jobs, files, newest, counted, bucketVars>>

-----------------------------------------------------------------------------
\* The server stops: an update in flight is given up, the cached driver is gone,
\* and what was between a file's row and its bytes stays uncounted.  Bound:
\* used_storage would drift further with every crash, so it stops only while
\* that is within MaxFiles.
Crash ==
  /\ MayCrash
  /\ account.used <= MaxFiles
  /\ proc' = [p \in Processes |-> Idle]
  /\ newest' = account.settings
  /\ counted' = FALSE
  /\ cached' = NoDriver /\ allowed' = FALSE
  /\ UNCHANGED <<account, jobs, files, rules>>

Start(r) == StartStore(r) \/ \E op \in Ops : StartRequest(r, op)

RunJob(p) == GetDriver(p) \/ ListBucket(p) \/ SumFiles(p) \/ SaveScan(p) \/ Release(p)

Advance(r) ==
  \/ Insert(r) \/ ReadAccount(r) \/ AddFile(r) \/ RemoveFile(r) \/ Save(r)
  \/ SoftDelete(r)
  \/ MarkSyncing(r) \/ Dispatch(r) \/ MarkError(r)
  \/ InvalidateCache(r) \/ Reload(r) \/ DriverForAccount(r)
  \/ GetBucketCors(r) \/ PutBucketCors(r)

Next ==
  \/ Crash
  \/ \E r \in Requests : Start(r) \/ Advance(r)
  \/ \E w \in Workers : TakeJob(w)
  \/ \E p \in Processes : RunJob(p)
  \/ \E v \in DOMAIN rules : OtherAddsRule(v)

Spec == Init /\ [][Next]_vars

\* A goroutine that is not killed runs on, and an idle worker polls the queue.
Fairness ==
  /\ \A r \in Requests : WF_vars(Advance(r) \/ RunJob(r))
  /\ \A w \in Workers : WF_vars(TakeJob(w) \/ RunJob(w))

FairSpec == Spec /\ Fairness

-----------------------------------------------------------------------------
(* Properties.                                                             *)

\* A sync that someone still answers for: queued, about to be queued, or run.
UnderWay ==
  \/ jobs > 0
  \/ \E p \in Processes :
       proc[p].pc \in {"dispatch", "markError", "getDriver", "list", "sum",
                       "saveScan", "release"}

\* "otherwise the account stays stuck at 'syncing' forever": an account says
\* "syncing" only while a sync is queued or under way, whichever step fails.
SyncingHasCause == Live /\ account.status = "syncing" => UnderWay

\* "Always release the account from the 'syncing' state": a sync ends, failed or
\* not, and with it the state.
SyncReleased == Live /\ account.status = "syncing" ~> ~(Live /\ account.status = "syncing")

Quiet == \A p \in Processes : At(p, "idle")

\* What a user set stays set: when nothing is under way the settings are the
\* latest that were saved, however many Saves wrote the row for other reasons.
SettingsKept == Live /\ Quiet => account.settings = newest

\* A disconnected account stays disconnected.
DisconnectedStays == [][account.state = "trashed" => account'.state = "trashed"]_vars

\* When nothing is under way used_storage is the sum of the account's files,
\* unless a crash or a broken scan left some uncounted; a scan that comes to
\* its end puts even that right.
UsedIsSum == Live /\ Quiet /\ counted => account.used = files

\* "evicts the cached driver for an account when updated or deleted": when
\* nothing is under way the account controller holds no driver of settings that
\* have been replaced.
OwnDriverCurrent == Live /\ Quiet => cached \in {NoDriver, account.settings}

\* When nothing is under way the bucket of the latest settings lets the
\* frontend read it, unless setting the rule was given up.
FrontendAllowed == Live /\ Quiet /\ allowed => "app" \in rules[account.settings]

\* "Put replaces the entire configuration", and yet whichever requests overlap
\* the rules of a bucket are kept, the frontend's above all; only what another
\* program added between the Get and the Put of one request is lost to that Put,
\* which names no condition.
OnlyUnseenRulesLost ==
  [][\A v \in DOMAIN rules : \A x \in rules[v] \ rules'[v] :
       /\ x # "app"
       /\ \E r \in Requests : /\ At(r, "putCors") /\ proc[r].driver = v
                              /\ x \in proc[r].missed]_vars

=============================================================================
