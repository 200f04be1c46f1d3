------------------------------ MODULE DriveTree ------------------------------
(***************************************************************************)
(* The drive_items tree of one user and the HTTP requests that change it:  *)
(* create folder, rename / move, star, move to trash, delete for ever.     *)
(*                                                                         *)
(* CloudDriveService runs no transaction and takes no lock: every handler  *)
(* is a sequence of single SQL statements and S3 calls, and the handlers   *)
(* of concurrent requests interleave between any two of them.  One action  *)
(* below is one such statement or call, with the in-memory work that       *)
(* follows it.                                                             *)
(*                                                                         *)
(* Abstractions.  One user (every query is scoped by user_id).  An id      *)
(* determines its kind and its account, columns that no handler of this    *)
(* module ever updates.  starred stands for every column that travels with *)
(* a whole-row Save and is not parent_id (name, starred, ...), and every   *)
(* file has size 1, so that used_storage counts files.                     *)
(***************************************************************************)
EXTENDS Integers, FiniteSets

CONSTANTS
  Folders, Files,     \* ids of the rows that may ever exist
  Accounts,           \* cloud accounts of the user
  AccountOf,          \* the account each row is created in
  Requests,           \* request goroutines
  Root,               \* parent_id IS NULL
  NoMove,             \* "parent_uuid" absent from an update
  Ops,                \* operations that clients send
  MaxDepth,           \* maxDepth of isSelfOrDescendant (10000)
  MaxItems,           \* maxItems of CollectDescendantItems (10000)
  DriverMayFail,      \* GetDriver may fail
  S3MayFail,          \* object deletion may fail, in part or as a whole
  MayCrash,           \* the server may stop between two statements
  OneWriter           \* discipline: clients have one update or star in flight at a time

Items == Folders \cup Files

AllOps == {"create", "update", "star", "trash", "purge"}

ASSUME KindAssumption    == Folders \cap Files = {} /\ IsFiniteSet(Items)
ASSUME SentinelAssumption == Root \notin Items /\ NoMove \notin Items /\ Root # NoMove
ASSUME AccountAssumption == AccountOf \in [Items -> Accounts]
ASSUME LimitAssumption   == MaxDepth \in Nat /\ MaxItems \in Nat
ASSUME SwitchAssumption  == /\ Ops \subseteq AllOps
                            /\ {DriverMayFail, S3MayFail, MayCrash, OneWriter} \subseteq BOOLEAN

VARIABLES
  rows,       \* the drive_items table
  objects,    \* files whose S3 object exists
  used,       \* cloud_accounts.used_storage
  req         \* what each request goroutine is doing

vars == <<rows, objects, used, req>>

-----------------------------------------------------------------------------
(* Rows and requests.                                                      *)

Row == [state : {"unused", "live", "trashed", "purged"},
        parent : Items \cup {Root},
        starred : BOOLEAN]

NullRow == [state |-> "unused", parent |-> Root, starred |-> FALSE]

\* A hard-deleted row; its id is never given out again.
GoneRow == [NullRow EXCEPT !.state = "purged"]

\* The account pointer of a request: a snapshot of used_storage, or nil.
NoAccount == -1

Request == [op : AllOps \cup {"none"},
            pc : {"idle", "checkParent", "insert", "readItem", "checkDest", "walk",
                  "save", "trash", "getDriver", "collectRoot", "collect",
                  "deleteObjects", "purgeRows", "settle"},
            item : Items \cup {Root},
            dest : Items \cup {Root, NoMove},
            snap : Row,                         \* the row as this request read it
            cur  : Items \cup {Root},           \* where the upward walk stands
            seen : SUBSET Items,                \* visited set of the walk or the BFS
            todo : SUBSET Items,                \* BFS queue
            acct : Nat \cup {NoAccount}]

Idle == [op |-> "none", pc |-> "idle", item |-> Root, dest |-> Root, snap |-> NullRow,
         cur |-> Root, seen |-> {}, todo |-> {}, acct |-> NoAccount]

TypeOK ==
  /\ rows \in [Items -> Row]
  /\ objects \subseteq Files
  /\ used \in [Accounts -> Nat]
  /\ req \in [Requests -> Request]

Live(i) == rows[i].state = "live"

LiveItems == {i \in Items : Live(i)}

\* A uuid that a client names as a destination leads to a row of the user's own.
Resolved(d) == d \in Items => Live(d)

SameDrive(i, j) == AccountOf[i] = AccountOf[j]

At(r, label) == req[r].pc = label

Becomes(r, q) == req' = [req EXCEPT ![r] = q]

Finish(r) == Becomes(r, Idle)

\* A request that Saves an item.  The code lets any number of them run; with
\* OneWriter clients start one when no other is in flight, while creations and
\* deletions still run concurrently with it and with each other.
Writing(r) == req[r].op \in {"update", "star"}

Admitted(op) == OneWriter /\ op \in {"update", "star"} => \A q \in Requests : ~Writing(q)

-----------------------------------------------------------------------------
(* The uploaded files lie at the top of the drive, each with its object.   *)

Init ==
  /\ rows = [i \in Items |->
               IF i \in Files THEN [NullRow EXCEPT !.state = "live"] ELSE NullRow]
  /\ objects = Files
  /\ used = [a \in Accounts |-> Cardinality({f \in Files : AccountOf[f] = a})]
  /\ req = [r \in Requests |-> Idle]

-----------------------------------------------------------------------------
(* Creating a folder.                                                      *)

\* StoreFolder resolves parent_uuid to an id; the new uuid is i's.
StartCreate(r, i, d) ==
  /\ "create" \in Ops
  /\ At(r, "idle")
  /\ rows[i].state = "unused" /\ \A q \in Requests : req[q].item # i
  /\ Resolved(d)
  /\ Becomes(r, [Idle EXCEPT !.op = "create", !.item = i, !.dest = d,
                             !.pc = IF d = Root THEN "insert" ELSE "checkParent"])
  /\ UNCHANGED <<rows, objects, used>>

\* Mutated form of IsFolderOf: the parent need not be a folder.
IsItemOf(d, i) == d \in Items /\ Live(d) /\ SameDrive(d, i)

IsFolderOf(d, i) == d \in Folders /\ Live(d) /\ SameDrive(d, i)

CheckParent(r) ==
  /\ At(r, "checkParent")
  /\ IF IsFolderOf(req[r].dest, req[r].item)
       THEN Becomes(r, [req[r] EXCEPT !.pc = "insert"])
       ELSE Finish(r)
  /\ UNCHANGED <<rows, objects, used>>

InsertFolder(r) ==
  /\ At(r, "insert")
  /\ rows' = [rows EXCEPT ![req[r].item] =
                [state |-> "live", parent |-> req[r].dest, starred |-> FALSE]]
  /\ Finish(r)
  /\ UNCHANGED <<objects, used>>

-----------------------------------------------------------------------------
(* The requests on an existing item start by reading it.                   *)

\* Update: the destination uuid is resolved within the user, not the account.
StartUpdate(r, i, d) ==
  /\ "update" \in Ops
  /\ At(r, "idle") /\ Admitted("update")
  /\ rows[i].state # "unused"
  /\ Resolved(d)
  /\ Becomes(r, [Idle EXCEPT !.op = "update", !.item = i, !.dest = d, !.pc = "readItem"])
  /\ UNCHANGED <<rows, objects, used>>

\* Star and Destroy, without or with ?permanent=true.
StartOnItem(r, i, op) ==
  /\ op \in Ops \cap {"star", "trash", "purge"}
  /\ At(r, "idle") /\ Admitted(op)
  /\ rows[i].state # "unused"
  /\ Becomes(r, [Idle EXCEPT !.op = op, !.item = i, !.pc = "readItem"])
  /\ UNCHANGED <<rows, objects, used>>

AfterRead(r) ==
  CASE req[r].op = "update" -> IF req[r].dest = NoMove THEN "save" ELSE "checkDest"
    [] req[r].op = "star"   -> "save"
    [] req[r].op = "trash"  -> "trash"
    [] OTHER                -> "getDriver"

\* Mutated form of RowRead: a star that loads the columns it needs alone.
RowReadPartly(r) ==
  IF req[r].op = "star"
    THEN [NullRow EXCEPT !.state = "live", !.starred = ~rows[req[r].item].starred]
    ELSE rows[req[r].item]

\* What update and star keep of the row in memory; a delete needs its id alone.
RowRead(r) ==
  LET row == rows[req[r].item] IN
  CASE req[r].op = "update" -> row
    [] req[r].op = "star"   -> [row EXCEPT !.starred = ~@]
    [] OTHER                -> NullRow

ReadItem(r) ==
  /\ At(r, "readItem")
  /\ IF Live(req[r].item)
       THEN Becomes(r, [req[r] EXCEPT !.snap = RowRead(r), !.pc = AfterRead(r)])
       ELSE Finish(r)
  /\ UNCHANGED <<rows, objects, used>>

-----------------------------------------------------------------------------
(* Moving: validate the destination, walk up from it, save the whole row.  *)

CheckDestination(r) ==
  LET i == req[r].item  d == req[r].dest IN
  /\ At(r, "checkDest")
  /\ \/ /\ d = Root
        /\ Becomes(r, [req[r] EXCEPT !.snap.parent = Root, !.pc = "save"])
     \/ /\ d \in Items /\ d # i /\ IsFolderOf(d, i)
        /\ Becomes(r, [req[r] EXCEPT !.snap.parent = d, !.cur = d, !.pc = "walk"])
     \/ /\ d \in Items /\ (d = i \/ ~IsFolderOf(d, i))
        /\ Finish(r)
  /\ UNCHANGED <<rows, objects, used>>

\* Mutated forms of WalkEnds: only the destination itself is compared with the
\* item; neither the visited set nor the depth limit stops the walk.
WalkEndsAtOnce(r) == req[r].cur # req[r].item

WalkEndsAtTop(r) ==
  LET c == req[r].cur IN
  c # req[r].item /\ (~Live(c) \/ ~SameDrive(c, req[r].item) \/ rows[c].parent = Root)

\* The node at cur ends the walk without having met the item.
WalkEnds(r) ==
  LET c == req[r].cur IN
  \/ Cardinality(req[r].seen) >= MaxDepth
  \/ c # req[r].item /\ (\/ c \in req[r].seen
                         \/ ~Live(c)
                         \/ ~SameDrive(c, req[r].item)
                         \/ rows[c].parent = Root)

\* One iteration of isSelfOrDescendant.
WalkUp(r) ==
  LET c == req[r].cur IN
  /\ At(r, "walk")
  /\ \/ /\ WalkEnds(r)
        /\ Becomes(r, [req[r] EXCEPT !.seen = @ \cup {c}, !.cur = Root, !.pc = "save"])
     \/ /\ ~WalkEnds(r) /\ c = req[r].item
        /\ Finish(r)
     \/ /\ ~WalkEnds(r) /\ c # req[r].item
        /\ Becomes(r, [req[r] EXCEPT !.seen = @ \cup {c}, !.cur = rows[c].parent])
  /\ UNCHANGED <<rows, objects, used>>

\* Query().Save writes every column, and inserts the row again if it is gone.
SaveItem(r) ==
  /\ At(r, "save")
  /\ rows' = [rows EXCEPT ![req[r].item] = req[r].snap]
  /\ Finish(r)
  /\ UNCHANGED <<objects, used>>

-----------------------------------------------------------------------------
(* Deleting.                                                               *)

\* A soft delete touches the row alone: neither children nor used_storage.
TrashItem(r) ==
  LET i == req[r].item IN
  /\ At(r, "trash")
  /\ rows' = IF Live(i) THEN [rows EXCEPT ![i].state = "trashed"] ELSE rows
  /\ Finish(r)
  /\ UNCHANGED <<objects, used>>

\* The account row is read here, long before it is written back.
GetDriver(r) ==
  LET i == req[r].item IN
  /\ At(r, "getDriver")
  /\ \E a \in {used[AccountOf[i]]} \cup (IF DriverMayFail THEN {NoAccount} ELSE {}) :
       Becomes(r, [req[r] EXCEPT !.acct = a, !.seen = {i},
                                 !.pc = IF i \in Files THEN "deleteObjects" ELSE "collectRoot"])
  /\ UNCHANGED <<rows, objects, used>>

CollectRoot(r) ==
  /\ At(r, "collectRoot")
  /\ IF Live(req[r].item)
       THEN Becomes(r, [req[r] EXCEPT !.todo = {req[r].item}, !.pc = "collect"])
       ELSE Finish(r)
  /\ UNCHANGED <<rows, objects, used>>

\* Mutated form of ChildrenOf: the files of the folder alone.
ChildFilesOf(f) == {c \in Files : Live(c) /\ rows[c].parent = f /\ SameDrive(c, f)}

ChildrenOf(f) == {c \in Items : Live(c) /\ rows[c].parent = f /\ SameDrive(c, f)}

\* One iteration of the BFS of CollectDescendantItems, the queue as a set.
CollectChildren(r) ==
  /\ At(r, "collect")
  /\ \/ /\ req[r].todo = {} \/ Cardinality(req[r].seen) >= MaxItems
        /\ Becomes(r, [req[r] EXCEPT !.todo = {}, !.pc = "deleteObjects"])
     \/ /\ Cardinality(req[r].seen) < MaxItems
        /\ \E f \in req[r].todo :
             LET new == ChildrenOf(f) \ req[r].seen IN
             Becomes(r, [req[r] EXCEPT !.seen = @ \cup new,
                                       !.todo = (@ \ {f}) \cup (new \cap Folders)])
  /\ UNCHANGED <<rows, objects, used>>

\* Mutated form of DeletedKeys: a file that is itself the item is forgotten.
KeysBelow(r) == {(req[r].seen \cap Files) \ {req[r].item}}

\* Without a driver the objects stay; a failed deletion is only logged.
DeletedKeys(r) ==
  LET keys == req[r].seen \cap Files IN
  IF req[r].acct = NoAccount THEN {{}}
  ELSE IF S3MayFail THEN SUBSET keys ELSE {keys}

DeleteObjects(r) ==
  /\ At(r, "deleteObjects")
  /\ \E keys \in DeletedKeys(r) : objects' = objects \ keys
  /\ Becomes(r, [req[r] EXCEPT !.pc = "purgeRows"])
  /\ UNCHANGED <<rows, used>>

\* Mutated form of PurgeRows: the rows of the files stay.
PurgeFolderRows(r) ==
  /\ At(r, "purgeRows")
  /\ rows' = [i \in Items |-> IF i \in req[r].seen \cap Folders THEN GoneRow ELSE rows[i]]
  /\ Becomes(r, [req[r] EXCEPT !.pc = "settle"])
  /\ UNCHANGED <<objects, used>>

\* ForceDelete ... WHERE id IN (ids), one statement, trashed rows included.
PurgeRows(r) ==
  /\ At(r, "purgeRows")
  /\ rows' = [i \in Items |-> IF i \in req[r].seen THEN GoneRow ELSE rows[i]]
  /\ Becomes(r, [req[r] EXCEPT !.pc = "settle"])
  /\ UNCHANGED <<objects, used>>

FlooredAt0(n) == IF n < 0 THEN 0 ELSE n

\* Mutated form of SettleAccount: what is freed counts the folders as well.
SettleEveryRow(r) ==
  /\ At(r, "settle")
  /\ used' = IF req[r].acct # NoAccount
               THEN [used EXCEPT ![AccountOf[req[r].item]] =
                       FlooredAt0(req[r].acct - Cardinality(req[r].seen))]
               ELSE used
  /\ Finish(r)
  /\ UNCHANGED <<rows, objects>>

\* used_storage is written from the account snapshot of GetDriver.
SettleAccount(r) ==
  LET freed == Cardinality(req[r].seen \cap Files) IN
  /\ At(r, "settle")
  /\ used' = IF req[r].acct # NoAccount /\ freed > 0
               THEN [used EXCEPT ![AccountOf[req[r].item]] = FlooredAt0(req[r].acct - freed)]
               ELSE used
  /\ Finish(r)
  /\ UNCHANGED <<rows, objects>>

-----------------------------------------------------------------------------
\* The process stops and starts again: every request in flight is forgotten.
Crash ==
  /\ MayCrash
  /\ req' = [r \in Requests |-> Idle]
  /\ UNCHANGED <<rows, objects, used>>

Start(r) ==
  \/ \E i \in Folders, d \in Items \cup {Root} : StartCreate(r, i, d)
  \/ \E i \in Items, d \in Items \cup {Root, NoMove} : StartUpdate(r, i, d)
  \/ \E i \in Items, op \in Ops : StartOnItem(r, i, op)

Advance(r) ==
  \/ CheckParent(r) \/ InsertFolder(r)
  \/ ReadItem(r) \/ CheckDestination(r) \/ WalkUp(r) \/ SaveItem(r)
  \/ TrashItem(r)
  \/ GetDriver(r) \/ CollectRoot(r) \/ CollectChildren(r)
  \/ DeleteObjects(r) \/ PurgeRows(r) \/ SettleAccount(r)

Next == Crash \/ \E r \in Requests : Start(r) \/ Advance(r)

Spec == Init /\ [][Next]_vars

\* A goroutine that is not killed keeps running its handler.
FairSpec == Spec /\ \A r \in Requests : WF_vars(Advance(r))

-----------------------------------------------------------------------------
(* Properties.                                                             *)

\* No set of rows is closed under parent_id: from every row of the set L the
\* parent chain leaves L.  This says "no cycle" without following a chain.
AcyclicOn(L) == \A S \in SUBSET L : S # {} => \E x \in S : rows[x].parent \notin S

\* The live rows form a forest: a move never puts a folder below itself (the
\* check UpdateItem makes with isSelfOrDescendant), whatever is created and
\* deleted while the check climbs.  Under OneWriter only: of two moves at once
\* each may pass its check, and together they tie a cycle.
Acyclic == AcyclicOn(LiveItems)

\* Every row hangs at the top or under a folder of its own account that has
\* existed: CreateFolder and UpdateItem validate the parent they are given.
\* (InitiateMultipartUpload, which is not in this module, takes any row of the
\* account for a parent, a file's too, and CompleteMultipartUpload looks no
\* more: the files they make are outside this property.)
ParentIsFolder ==
  \A i \in Items :
    LET p == rows[i].parent IN
    p # Root => /\ p \in Folders /\ SameDrive(p, i)
                /\ rows[p].state # "unused"

\* A row changes parent only to the destination of a move of that very row:
\* neither a star nor a rename nor a delete relocates it, although Save
\* writes the parent_id that the request read earlier.  Under OneWriter only:
\* where two Saves overlap, the later one does undo a move.
OnlyMovesRelocate ==
  [][\A i \in Items :
       {rows[i].state, rows'[i].state} \subseteq {"live", "trashed"}
       /\ rows'[i].parent # rows[i].parent =>
         \E r \in Requests : /\ req[r].op = "update" /\ req[r].item = i
                             /\ req[r].dest = rows'[i].parent]_vars

\* Once its row is gone for good a file's object is gone too, whichever
\* requests race and wherever the server stops: DeleteItem removes objects
\* before rows, so nothing is left in the bucket that no row names.
PurgedObjectsGone == \A f \in Files : rows[f].state = "purged" => f \notin objects

\* When no delete is under way every live file still has its object: the
\* rows of the objects that DeleteItem removed are removed with them.
LiveFilesStored ==
  (\A r \in Requests : req[r].op # "purge") =>
    \A f \in Files : Live(f) => f \in objects

\* A permanent delete takes along what hangs below the folder by live rows: on
\* the way up from a live row, by live folders, one comes to the top or to a
\* folder in the trash, never to one that is gone.  (It is enough to say so of
\* each live row's parent.)  Less than "all descendant files and folders are
\* recursively deleted": the queries of CollectDescendantItems leave out rows
\* in the trash, so a folder in the trash stays, and so do the live rows under
\* it, and beyond MaxItems rows the search stops.
NoOrphans ==
  \A i \in Items : Live(i) /\ rows[i].parent # Root => rows[rows[i].parent].state # "purged"

\* Between requests used_storage lies between the files that have a row and
\* those whose object is in the bucket: a permanent delete that reaches
\* neither driver nor bucket may leave objects behind, but what it frees is
\* subtracted once, and never without the rows being gone.
UsedBetweenRowsAndBucket ==
  (\A r \in Requests : At(r, "idle")) =>
    \A a \in Accounts :
      /\ Cardinality({f \in Files : AccountOf[f] = a /\ rows[f].state \in {"live", "trashed"}})
           <= used[a]
      /\ used[a] <= Cardinality({f \in objects : AccountOf[f] = a})

\* Seen from their rows, requests that do not overlap are the atomic operations
\* of AtomicTree: the walk that UpdateItem makes admits exactly the moves out of
\* the item's subtree, and the search of a permanent delete finds exactly it,
\* the subtree being what hangs there by live rows.
Tree == INSTANCE AtomicTree

ImplementsAtomicTree == Tree!Spec

\* Every request is answered: the upward walk and the BFS stop even on a tree
\* that concurrent moves have tied into a cycle.
RequestsFinish == \A r \in Requests : ~At(r, "idle") ~> At(r, "idle")

=============================================================================
