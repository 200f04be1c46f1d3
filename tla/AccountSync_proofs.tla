-------------------------- MODULE AccountSync_proofs --------------------------
(* Proofs about AccountSync: its types, that an account never says           *)
(* "syncing" without a sync that will release it, which CORS rules can be    *)
(* lost, what holds under the discipline OneWriter, and that every request   *)
(* and job is over after a bounded number of steps.                          *)
EXTENDS AccountSync, TLAPS

-----------------------------------------------------------------------------
(* Type correctness.                                                       *)

LEMMA IdleType == Idle \in Process
BY BoundAssumption DEF Idle, Process, NoAccount, Account

LEMMA BecomesType ==
  ASSUME TypeOK, NEW p \in Processes, NEW q \in Process, Becomes(p, q)
  PROVE  proc' \in [Processes -> Process]
BY DEF TypeOK, Becomes

LEMMA FinishType ==
  ASSUME TypeOK, NEW p \in Processes, Finish(p)
  PROVE  proc' \in [Processes -> Process]
BY IdleType, BecomesType DEF Finish

Labels == {"idle", "insert", "read", "markSyncing", "dispatch", "markError",
           "delete", "addFile", "removeFile", "save",
           "invalidate", "reload", "corsDriver", "getCors", "putCors",
           "getDriver", "list", "sum", "saveScan", "release"}

LEMMA GoesToType ==
  ASSUME TypeOK, NEW p \in Processes, NEW l \in Labels, GoesTo(p, l)
  PROVE  proc' \in [Processes -> Process]
<1> DEFINE q == [proc[p] EXCEPT !.pc = l]
<1>1. q \in Process
  BY DEF TypeOK, Process, Labels
<1> QED
  BY <1>1, BecomesType DEF GoesTo

LEMMA FailsType ==
  ASSUME TypeOK, NEW p \in Processes, Fails(p)
  PROVE  proc' \in [Processes -> Process]
<1> DEFINE q == [proc[p] EXCEPT !.failed = TRUE, !.pc = "release"]
<1>1. proc[p] \in Process
  BY DEF TypeOK
<1>2. q \in Process
  BY <1>1 DEF Process
<1> QED
  BY <1>2, BecomesType DEF Fails

LEMMA SetStatusType ==
  ASSUME TypeOK, NEW s \in {"idle", "syncing", "error"}, SetStatus(s)
  PROVE  account' \in Account
BY DEF TypeOK, SetStatus, Account

LEMMA InitTypeOK == Init => TypeOK
BY IdleType, BoundAssumption DEF Init, TypeOK, NoAccount, Account, NoDriver, Rule

LEMMA StartTypeOK ==
  ASSUME TypeOK, NEW r \in Requests, Start(r)
  PROVE  TypeOK'
<1>0. r \in Processes
  BY DEF Processes
<1>1. CASE StartStore(r)
  <2> DEFINE q == [Idle EXCEPT !.op = "store", !.pc = "insert"]
  <2>1. q \in Process
    BY IdleType DEF Process, AllOps
  <2> QED
    BY <1>0, <1>1, <2>1, BecomesType DEF StartStore, TypeOK, bucketVars
<1>2. ASSUME NEW op \in Ops, StartRequest(r, op) PROVE TypeOK'
  <2> DEFINE q == [Idle EXCEPT !.op = op, !.pc = "read"]
  <2>0. op \in AllOps
    BY QueueAssumption
  <2>1. q \in Process
    BY <2>0, IdleType DEF Process
  <2> QED
    BY <1>0, <1>2, <2>1, BecomesType DEF StartRequest, TypeOK, bucketVars
<1> QED
  BY <1>1, <1>2 DEF Start

LEMMA ReadAccountType ==
  ASSUME TypeOK, NEW r \in Requests, ReadAccount(r)
  PROVE  TypeOK'
<1>0. r \in Processes /\ proc[r] \in Process /\ AfterRead(r) \in Labels
  BY DEF Processes, TypeOK, AfterRead, Labels
<1>1. CASE Finish(r) /\ UNCHANGED newest
  BY <1>0, <1>1, FinishType DEF ReadAccount, TypeOK, bucketVars
<1>2. CASE newest' = newest + 1
           /\ Becomes(r, [proc[r] EXCEPT !.snap = [account EXCEPT !.settings = newest + 1],
                                         !.pc = AfterRead(r)])
  <2> DEFINE q == [proc[r] EXCEPT !.snap = [account EXCEPT !.settings = newest + 1],
                                  !.pc = AfterRead(r)]
  <2>5. newest < MaxVersions
    BY <1>2 DEF ReadAccount, TypeOK
  <2>0. newest + 1 \in 0..MaxVersions /\ [account EXCEPT !.settings = newest + 1] \in Account
    <3>1. newest + 1 \in 0..MaxVersions
      BY <2>5, BoundAssumption DEF TypeOK
    <3> QED
      BY <3>1 DEF TypeOK, Account
  <2>1. q \in Process
    BY <1>0, <2>0 DEF Process, Labels
  <2>4. Becomes(r, q)
    BY <1>2
  <2> HIDE DEF q
  <2>2. proc' \in [Processes -> Process]
    BY <1>0, <2>1, <2>4, BecomesType
  <2>3. newest' \in 0..MaxVersions
    BY <1>2, <2>0
  <2> QED
    BY <2>2, <2>3 DEF ReadAccount, TypeOK, bucketVars
<1>3. CASE /\ UNCHANGED newest
           /\ Becomes(r, [proc[r] EXCEPT !.snap = account, !.pc = AfterRead(r)])
  <2> DEFINE q == [proc[r] EXCEPT !.snap = account, !.pc = AfterRead(r)]
  <2>1. q \in Process
    BY <1>0 DEF Process, TypeOK, Labels
  <2> QED
    BY <1>0, <1>3, <2>1, BecomesType DEF ReadAccount, TypeOK, bucketVars
<1> QED
  BY <1>1, <1>2, <1>3 DEF ReadAccount

LEMMA CountType ==
  ASSUME TypeOK, NEW r \in Requests, AddFile(r) \/ RemoveFile(r)
  PROVE  TypeOK'
<1>0. r \in Processes /\ proc[r] \in Process
  BY DEF Processes, TypeOK
<1>1. ASSUME NEW n \in Nat, Becomes(r, [proc[r] EXCEPT !.snap.used = n, !.pc = "save"])
      PROVE  proc' \in [Processes -> Process]
  <2> DEFINE q == [proc[r] EXCEPT !.snap.used = n, !.pc = "save"]
  <2>1. q \in Process
    BY <1>0 DEF Process, Account
  <2> QED
    BY <1>0, <1>1, <2>1, BecomesType
<1>2. proc[r].snap.used \in Nat
  BY <1>0 DEF Process, Account
<1>3. proc[r].snap.used + 1 \in Nat /\ FlooredAt0(proc[r].snap.used - 1) \in Nat
  BY <1>2 DEF FlooredAt0
<1>4. CASE AddFile(r)
  <2>1. proc' \in [Processes -> Process]
    BY <1>0, <1>1, <1>3, <1>4, FinishType DEF AddFile
  <2> QED
    BY <1>4, <2>1 DEF AddFile, TypeOK, bucketVars
<1>5. CASE RemoveFile(r)
  <2>1. proc' \in [Processes -> Process]
    BY <1>0, <1>1, <1>3, <1>5, FinishType DEF RemoveFile
  <2> QED
    BY <1>5, <2>1 DEF RemoveFile, TypeOK, bucketVars
<1> QED
  BY <1>4, <1>5

LEMMA AfterSyncType ==
  ASSUME TypeOK, NEW p \in Processes, AfterSync(p)
  PROVE  proc' \in [Processes -> Process]
BY FinishType, GoesToType DEF AfterSync, Labels

LEMMA CorsType ==
  ASSUME TypeOK, NEW r \in Requests,
         InvalidateCache(r) \/ Reload(r) \/ DriverForAccount(r) \/ GetBucketCors(r) \/ PutBucketCors(r)
  PROVE  TypeOK'
<1>0. r \in Processes /\ proc[r] \in Process /\ MaxVersions \in Nat
  BY BoundAssumption DEF Processes, TypeOK
<1>1. CASE InvalidateCache(r)
  BY <1>0, <1>1, GoesToType, FinishType DEF InvalidateCache, TypeOK, Labels
<1>2. CASE Reload(r)
  <2> DEFINE q == [proc[r] EXCEPT !.snap = account, !.pc = "corsDriver"]
  <2>1. q \in Process
    BY <1>0 DEF Process, TypeOK
  <2>2. Becomes(r, q) \/ Finish(r)
    BY <1>2 DEF Reload, GivesUp
  <2> HIDE DEF q
  <2>3. proc' \in [Processes -> Process]
    BY <1>0, <2>1, <2>2, BecomesType, FinishType
  <2> QED
    BY <1>2, <2>3 DEF Reload, GivesUp, TypeOK
<1>3. CASE DriverForAccount(r)
  <2>1. CASE GivesUp(r) /\ UNCHANGED cached
    BY <1>0, <1>3, <2>1, FinishType DEF DriverForAccount, GivesUp, TypeOK
  <2>2. ASSUME NEW v \in IF cached = NoDriver THEN {proc[r].snap.settings} ELSE {cached},
               cached' = v, UNCHANGED allowed,
               Becomes(r, [proc[r] EXCEPT !.driver = v, !.pc = "getCors"])
        PROVE  TypeOK'
    <3> DEFINE q == [proc[r] EXCEPT !.driver = v, !.pc = "getCors"]
    <3>1. v \in 0..MaxVersions
      BY <1>0 DEF TypeOK, Process, Account
    <3>2. q \in Process
      BY <1>0, <3>1 DEF Process
    <3>3. Becomes(r, q)
      BY <2>2
    <3> HIDE DEF q
    <3>4. proc' \in [Processes -> Process]
      BY <1>0, <3>2, <3>3, BecomesType
    <3> QED
      BY <1>3, <2>2, <3>1, <3>4 DEF DriverForAccount, TypeOK
  <2> QED
    BY <1>3, <2>1, <2>2 DEF DriverForAccount
<1>4. CASE GetBucketCors(r)
  <2> DEFINE q == [proc[r] EXCEPT !.existing = rules[proc[r].driver], !.pc = "putCors"]
  <2>1. q \in Process
    BY <1>0 DEF Process, TypeOK
  <2>2. Becomes(r, q) \/ Finish(r)
    BY <1>4 DEF GetBucketCors, GivesUp
  <2> HIDE DEF q
  <2>3. proc' \in [Processes -> Process]
    BY <1>0, <2>1, <2>2, BecomesType, FinishType
  <2> QED
    BY <1>4, <2>3 DEF GetBucketCors, GivesUp, TypeOK
<1>5. CASE PutBucketCors(r)
  <2>1. MergeCorsRules(proc[r].existing) \in SUBSET Rule
    BY <1>0 DEF MergeCorsRules, Process, Rule
  <2>2. rules' \in [0..MaxVersions -> SUBSET Rule]
    BY <1>5, <2>1 DEF PutBucketCors, TypeOK
  <2>3. Finish(r) /\ allowed' \in BOOLEAN
    BY <1>5 DEF PutBucketCors, GivesUp
  <2> QED
    BY <1>0, <1>5, <2>2, <2>3, FinishType DEF PutBucketCors, TypeOK
<1> QED
  BY <1>1, <1>2, <1>3, <1>4, <1>5

LEMMA AdvanceTypeOK ==
  ASSUME TypeOK, NEW r \in Requests, Advance(r)
  PROVE  TypeOK'
<1>0. r \in Processes /\ proc[r] \in Process
  BY DEF Processes, TypeOK
<1>1. CASE Insert(r)
  BY <1>0, <1>1, GoesToType, BoundAssumption DEF Insert, TypeOK, NoAccount, Account, Labels, bucketVars
<1>2. CASE Save(r)
  <2>1. account' \in Account
    BY <1>0, <1>2 DEF Save, Process
  <2>2. "invalidate" \in Labels
    BY DEF Labels
  <2>3. proc' \in [Processes -> Process]
    BY <1>0, <1>2, <2>2, FinishType, GoesToType DEF Save, AfterSave
  <2> QED
    BY <1>2, <2>1, <2>3 DEF Save, TypeOK, bucketVars
<1>6. CASE SoftDelete(r)
  <2>1. account' \in Account
    BY <1>6 DEF SoftDelete, TypeOK, Account
  <2>2. "invalidate" \in Labels
    BY DEF Labels
  <2>3. proc' \in [Processes -> Process]
    BY <1>0, <1>6, <2>2, GoesToType DEF SoftDelete
  <2> QED
    BY <1>6, <2>1, <2>3 DEF SoftDelete, TypeOK, bucketVars
<1>3. CASE MarkSyncing(r)
  BY <1>0, <1>3, GoesToType, SetStatusType DEF MarkSyncing, TypeOK, Labels, bucketVars
<1>4. CASE Dispatch(r)
  BY <1>0, <1>4, GoesToType, AfterSyncType DEF Dispatch, TypeOK, Labels, bucketVars
<1>5. CASE MarkError(r)
  BY <1>0, <1>5, AfterSyncType, SetStatusType DEF MarkError, TypeOK, bucketVars
<1> QED
  BY <1>1, <1>2, <1>3, <1>4, <1>5, <1>6, ReadAccountType, CountType, CorsType DEF Advance

LEMMA JobTypeOK ==
  ASSUME TypeOK, NEW p \in Processes, TakeJob(p) \/ RunJob(p)
  PROVE  TypeOK'
<1>0. proc[p] \in Process
  BY DEF TypeOK
<1>1. CASE TakeJob(p)
  <2> DEFINE q == [Idle EXCEPT !.op = "scan", !.pc = "getDriver"]
  <2>1. q \in Process
    BY IdleType DEF Process
  <2> QED
    BY <1>1, <2>1, BecomesType DEF TakeJob, TypeOK, bucketVars
<1>2. CASE GetDriver(p)
  <2> DEFINE q == [proc[p] EXCEPT !.snap = account, !.pc = "list"]
  <2>1. q \in Process
    BY <1>0 DEF Process, TypeOK
  <2> QED
    BY <1>2, <2>1, BecomesType, FailsType DEF GetDriver, TypeOK, bucketVars
<1>3. CASE ListBucket(p)
  <2>1. files' \in Nat /\ counted' \in BOOLEAN
    <3>1. PICK n \in {0, 1} :
             /\ files' = files + n
             /\ counted' = counted \/ counted' = (counted /\ n = 0)
      BY <1>3 DEF ListBucket
    <3>2. files' \in Nat
      BY <3>1 DEF TypeOK
    <3>3. counted' \in BOOLEAN
      BY <3>1, Zenon DEF TypeOK
    <3> QED
      BY <3>2, <3>3
  <2>2. GoesTo(p, "sum") \/ Fails(p)
    BY <1>3 DEF ListBucket
  <2>3. proc' \in [Processes -> Process]
    BY <2>2, GoesToType, FailsType DEF TypeOK, Labels
  <2> QED
    BY <1>3, <2>1, <2>3 DEF ListBucket, TypeOK, bucketVars
<1>4. CASE SumFiles(p)
  <2> DEFINE q == [proc[p] EXCEPT !.snap.used = files, !.pc = "saveScan"]
  <2>1. q \in Process
    BY <1>0 DEF Process, Account, TypeOK
  <2> QED
    BY <1>4, <2>1, BecomesType DEF SumFiles, TypeOK, bucketVars
<1>5. CASE SaveScan(p)
  BY <1>0, <1>5, GoesToType DEF SaveScan, TypeOK, Process, Labels, bucketVars
<1>6. CASE Release(p)
  BY <1>6, GoesToType, AfterSyncType, SetStatusType DEF Release, TypeOK, Labels, bucketVars
<1> QED
  BY <1>1, <1>2, <1>3, <1>4, <1>5, <1>6 DEF RunJob

\* Another program adds to the rules, and to what requests have missed of them.
LEMMA OtherAddsAlone ==
  ASSUME TypeOK, NEW v \in DOMAIN rules, OtherAddsRule(v)
  PROVE  /\ TypeOK'
         /\ UNCHANGED <<account, jobs, files, newest, counted, cached, allowed>>
         /\ \A p \in Processes :
              /\ proc'[p].op = proc[p].op /\ proc'[p].pc = proc[p].pc
              /\ proc'[p].snap = proc[p].snap /\ proc'[p].driver = proc[p].driver
              /\ proc'[p].existing = proc[p].existing
              /\ proc'[p].missed = IF At(p, "putCors") /\ proc[p].driver = v
                                     THEN proc[p].missed \cup {"added"} ELSE proc[p].missed
         /\ \A u \in DOMAIN rules :
              rules'[u] = IF u = v THEN rules[u] \cup {"added"} ELSE rules[u]
<1>1. UNCHANGED <<account, jobs, files, newest, counted, cached, allowed>>
  BY DEF OtherAddsRule
<1>2. ASSUME NEW p \in Processes
      PROVE  /\ proc'[p] \in Process
             /\ proc'[p].op = proc[p].op /\ proc'[p].pc = proc[p].pc
             /\ proc'[p].snap = proc[p].snap /\ proc'[p].driver = proc[p].driver
             /\ proc'[p].existing = proc[p].existing
             /\ proc'[p].missed = IF At(p, "putCors") /\ proc[p].driver = v
                                    THEN proc[p].missed \cup {"added"} ELSE proc[p].missed
  <2>1. proc[p] \in Process
    BY DEF TypeOK
  <2>2. proc'[p] = IF At(p, "putCors") /\ proc[p].driver = v
                     THEN [proc[p] EXCEPT !.missed = @ \cup {"added"}] ELSE proc[p]
    BY DEF OtherAddsRule
  <2>3. CASE At(p, "putCors") /\ proc[p].driver = v
    <3>1. proc'[p] = [proc[p] EXCEPT !.missed = @ \cup {"added"}]
      BY <2>2, <2>3
    <3> QED
      BY <2>1, <2>3, <3>1 DEF Process, Rule
  <2>4. CASE ~(At(p, "putCors") /\ proc[p].driver = v)
    <3>1. proc'[p] = proc[p]
      BY <2>2, <2>4
    <3> QED
      BY <2>1, <2>4, <3>1
  <2> QED
    BY <2>3, <2>4
<1>3. proc' \in [Processes -> Process]
  <2>1. proc' = [p \in Processes |-> proc'[p]]
    BY DEF OtherAddsRule
  <2> QED
    BY <1>2, <2>1
<1>4. /\ \A u \in DOMAIN rules :
             rules'[u] = IF u = v THEN rules[u] \cup {"added"} ELSE rules[u]
      /\ rules' \in [0..MaxVersions -> SUBSET Rule]
  BY DEF OtherAddsRule, TypeOK, Rule
<1>5. TypeOK'
  BY <1>1, <1>3, <1>4 DEF TypeOK
<1> QED
  BY <1>1, <1>2, <1>4, <1>5

LEMMA NextTypeOK == TypeOK /\ [Next]_vars => TypeOK'
<1> SUFFICES ASSUME TypeOK, [Next]_vars PROVE TypeOK'
  OBVIOUS
<1>1. CASE Crash
  <2>1. account'.settings \in 0..MaxVersions /\ newest' \in 0..MaxVersions
    BY <1>1 DEF Crash, TypeOK, Account
  <2> QED
    BY <1>1, <2>1, IdleType DEF Crash, TypeOK
<1>2. CASE UNCHANGED vars
  BY <1>2 DEF vars, TypeOK
<1>3. CASE \E r \in Requests : Start(r) \/ Advance(r)
  BY <1>3, StartTypeOK, AdvanceTypeOK
<1>4. CASE (\E w \in Workers : TakeJob(w)) \/ \E p \in Processes : RunJob(p)
  BY <1>4, JobTypeOK DEF Processes
<1>5. CASE \E v \in DOMAIN rules : OtherAddsRule(v)
  BY <1>5, OtherAddsAlone
<1> QED
  BY <1>1, <1>2, <1>3, <1>4, <1>5 DEF Next

\* Every reachable state is well typed: sync_status stays within its enum, and
\* used_storage never goes below 0.
THEOREM TypeCorrect == Spec => []TypeOK
BY InitTypeOK, NextTypeOK, PTL DEF Spec

-----------------------------------------------------------------------------
(* An account that says "syncing" has a sync that releases it, as long as    *)
(* the server stays up and either no request Saves the row or one process at  *)
(* a time reads the row and writes it back.  Each of the steps that may leave *)
(* "syncing" behind has the step that releases it ahead of it: the Save of a  *)
(* scan, too, although it writes a status that was read before; and the Save  *)
(* of a request writes "syncing" only while the sync that it saw still waits. *)

SavingPcs == {"save", "addFile", "removeFile"}

SavingOps == {"update", "upload", "purge"}

Answered(q) ==
  /\ q.pc = "read" => q.op \in Ops \ {"store"}
  /\ q.pc \in SavingPcs => /\ q.op \in Ops \cap SavingOps
                           /\ q.snap.status = "syncing" => UnderWay

SyncInv ==
  /\ SyncingHasCause
  /\ \A p \in Processes : Answered(proc[p])
  /\ OneWriter => AtMostOneWriter

Causes == {"dispatch", "markError", "getDriver", "list", "sum", "saveScan", "release"}

\* A step of p after which p itself, or the queue, answers for the sync.
LEMMA CauseAhead ==
  ASSUME TypeOK, SyncInv, NEW p \in Processes, NEW q, Becomes(p, q),
         q.pc \in Causes \/ jobs' > 0, q.pc \notin SavingPcs \cup {"read"}
  PROVE  SyncInv'
<1>1. \A x \in Processes : proc'[x] = IF x = p THEN q ELSE proc[x]
  BY DEF Becomes, TypeOK
<1>2. UnderWay'
  BY <1>1 DEF UnderWay, Causes
<1>3. OneWriter => AtMostOneWriter'
  BY DEF Becomes
<1>4. ASSUME NEW x \in Processes PROVE Answered(proc[x])'
  BY <1>1, <1>2 DEF SyncInv, Answered
<1> QED
  BY <1>2, <1>3, <1>4 DEF SyncInv, SyncingHasCause

\* A step of p that answers for nothing before it and nothing after it.
LEMMA NoCauseLost ==
  ASSUME TypeOK, SyncInv, NEW p \in Processes, NEW q, Becomes(p, q),
         proc[p].pc \notin Causes, Answered(q), jobs' = jobs,
         account'.state = "live" /\ account'.status = "syncing" => UnderWay
  PROVE  SyncInv'
<1>1. \A x \in Processes : proc'[x] = IF x = p THEN q ELSE proc[x]
  BY DEF Becomes, TypeOK
<1>2. \A x \in Processes : proc[x].pc \in Causes => proc'[x].pc \in Causes
  BY <1>1
<1>3. (\E x \in Processes : proc[x].pc \in Causes) => \E x \in Processes : proc'[x].pc \in Causes
  BY <1>2
<1>4. UnderWay => UnderWay'
  BY <1>3 DEF UnderWay, Causes
<1>5. OneWriter => AtMostOneWriter'
  BY DEF Becomes
<1>6. ASSUME NEW x \in Processes PROVE Answered(proc[x])'
  BY <1>1, <1>4 DEF SyncInv, Answered
<1> QED
  BY <1>4, <1>5, <1>6 DEF SyncInv, SyncingHasCause, Live

\* A step of p that leaves the account released: nobody is about to save what
\* it said before.
LEMMA Released ==
  ASSUME OneWriter \/ Ops \cap SavingOps = {},
         TypeOK, SyncInv, NEW p \in Processes, NEW q, Becomes(p, q), Writing(p),
         q.pc \notin SavingPcs \cup {"read"},
         ~(account'.state = "live" /\ account'.status = "syncing")
  PROVE  SyncInv'
<1>1. \A x \in Processes : proc'[x] = IF x = p THEN q ELSE proc[x]
  BY DEF Becomes, TypeOK
<1>2. OneWriter => AtMostOneWriter'
  BY DEF Becomes
<1>3. ASSUME NEW x \in Processes, x # p PROVE proc[x].pc \notin SavingPcs
  <2>1. SUFFICES ASSUME proc[x].pc \in SavingPcs PROVE FALSE
    OBVIOUS
  <2>2. proc[x].op \in Ops \cap SavingOps
    BY <2>1 DEF SyncInv, Answered
  <2>3. Writing(x)
    BY <2>2 DEF Writing, SavingOps
  <2> QED
    BY <1>3, <2>2, <2>3 DEF SyncInv, AtMostOneWriter
<1>4. ASSUME NEW x \in Processes PROVE Answered(proc[x])'
  BY <1>1, <1>3 DEF SyncInv, Answered
<1> QED
  BY <1>2, <1>4 DEF SyncInv, SyncingHasCause, Live

\* Where a process goes after the sync, and while it sets the CORS rule.
LEMMA AfterSyncGoes ==
  ASSUME NEW p \in Processes, proc[p] \in Process, AfterSync(p)
  PROVE  \E q : Becomes(p, q) /\ q.pc \in {"reload", "idle"}
<1> DEFINE q == [proc[p] EXCEPT !.pc = "reload"]
<1>1. q.pc = "reload" /\ Idle.pc = "idle"
  BY DEF Process, Idle
<1>2. Becomes(p, q) \/ Becomes(p, Idle)
  BY DEF AfterSync, GoesTo, Finish
<1> HIDE DEF q
<1> QED
  BY <1>1, <1>2

LEMMA CorsGoes ==
  ASSUME NEW r \in Processes, proc[r] \in Process,
         InvalidateCache(r) \/ Reload(r) \/ DriverForAccount(r) \/ GetBucketCors(r) \/ PutBucketCors(r)
  PROVE  \E q : Becomes(r, q) /\ q.pc \in {"corsDriver", "getCors", "putCors", "idle"}
<1>i. Idle.pc = "idle"
  BY DEF Idle
<1>1. CASE Finish(r)
  BY <1>i, <1>1 DEF Finish
<1>2. CASE GoesTo(r, "corsDriver")
  <2> DEFINE q == [proc[r] EXCEPT !.pc = "corsDriver"]
  <2>1. q.pc = "corsDriver" /\ Becomes(r, q)
    BY <1>2 DEF GoesTo, Process
  <2> HIDE DEF q
  <2> QED
    BY <2>1
<1>3. CASE Becomes(r, [proc[r] EXCEPT !.snap = account, !.pc = "corsDriver"])
  <2> DEFINE q == [proc[r] EXCEPT !.snap = account, !.pc = "corsDriver"]
  <2>1. q.pc = "corsDriver" /\ Becomes(r, q)
    BY <1>3 DEF Process
  <2> HIDE DEF q
  <2> QED
    BY <2>1
<1>4. ASSUME NEW v, Becomes(r, [proc[r] EXCEPT !.driver = v, !.pc = "getCors"])
      PROVE  \E q : Becomes(r, q) /\ q.pc \in {"corsDriver", "getCors", "putCors", "idle"}
  <2> DEFINE q == [proc[r] EXCEPT !.driver = v, !.pc = "getCors"]
  <2>1. q.pc = "getCors" /\ Becomes(r, q)
    BY <1>4 DEF Process
  <2> HIDE DEF q
  <2> QED
    BY <2>1
<1>5. CASE Becomes(r, [proc[r] EXCEPT !.existing = rules[proc[r].driver], !.pc = "putCors"])
  <2> DEFINE q == [proc[r] EXCEPT !.existing = rules[proc[r].driver], !.pc = "putCors"]
  <2>1. q.pc = "putCors" /\ Becomes(r, q)
    BY <1>5 DEF Process
  <2> HIDE DEF q
  <2> QED
    BY <2>1
<1>6. CASE InvalidateCache(r)
  BY <1>1, <1>2, <1>6 DEF InvalidateCache
<1>7. CASE Reload(r)
  BY <1>1, <1>3, <1>7 DEF Reload, GivesUp
<1>8. CASE DriverForAccount(r)
  BY <1>1, <1>4, <1>8 DEF DriverForAccount, GivesUp
<1>9. CASE GetBucketCors(r)
  BY <1>1, <1>5, <1>9 DEF GetBucketCors, GivesUp
<1>10. CASE PutBucketCors(r)
  BY <1>1, <1>10 DEF PutBucketCors, GivesUp
<1> QED
  BY <1>6, <1>7, <1>8, <1>9, <1>10

LEMMA InitSync == Init => SyncInv
BY DEF Init, SyncInv, SyncingHasCause, Answered, SavingPcs, AtMostOneWriter, Writing, Live,
       NoAccount, Idle

LEMMA NextSync ==
  ASSUME OneWriter \/ Ops \cap SavingOps = {}, ~MayCrash,
         TypeOK, SyncInv, [Next]_vars
  PROVE  SyncInv'
<1>0. \A p \in Processes : proc[p] \in Process
  BY DEF TypeOK
<1>i. Idle.pc = "idle" /\ Idle.op = "none" /\ Answered(Idle)
  BY DEF Idle, Answered, SavingPcs
<1>s. SyncingHasCause
  BY DEF SyncInv
<1>1. CASE Crash \/ UNCHANGED vars
  BY <1>1 DEF Crash, vars, SyncInv, SyncingHasCause, Answered, AtMostOneWriter, Writing, Live,
         UnderWay
<1>2. ASSUME NEW r \in Requests, Start(r) PROVE SyncInv'
  <2>0. r \in Processes
    BY DEF Processes
  <2>1. CASE StartStore(r)
    <3> DEFINE q == [Idle EXCEPT !.op = "store", !.pc = "insert"]
    <3>1. Answered(q)
      BY DEF Idle, Answered, SavingPcs
    <3>2. Becomes(r, q) /\ proc[r].pc \notin Causes /\ UNCHANGED <<account, jobs>>
      BY <2>1 DEF StartStore, At, Causes
    <3> HIDE DEF q
    <3> QED
      BY <1>s, <2>0, <3>1, <3>2, NoCauseLost DEF Live, SyncingHasCause
  <2>2. ASSUME NEW op \in Ops, StartRequest(r, op) PROVE SyncInv'
    <3> DEFINE q == [Idle EXCEPT !.op = op, !.pc = "read"]
    <3>1. Answered(q)
      BY <2>2 DEF Idle, StartRequest, Answered, SavingPcs
    <3>2. Becomes(r, q) /\ proc[r].pc \notin Causes /\ UNCHANGED <<account, jobs>>
      BY <2>2 DEF StartRequest, At, Causes
    <3> HIDE DEF q
    <3> QED
      BY <1>s, <2>0, <3>1, <3>2, NoCauseLost DEF Live, SyncingHasCause
  <2> QED
    BY <1>2, <2>1, <2>2 DEF Start
<1>3. ASSUME NEW r \in Requests, Advance(r) PROVE SyncInv'
  <2>0. r \in Processes /\ proc[r] \in Process
    BY <1>0 DEF Processes
  <2>g. \A l \in Labels : LET q == [proc[r] EXCEPT !.pc = l] IN q.pc = l /\ q.op = proc[r].op
    BY <2>0 DEF Process
  <2>1. CASE Insert(r)
    <3> DEFINE q == [proc[r] EXCEPT !.pc = "markSyncing"]
    <3>1. Becomes(r, q) /\ account'.status = "idle" /\ jobs' = jobs /\ proc[r].pc \notin Causes
      BY <2>1 DEF Insert, GoesTo, NoAccount, At, Causes
    <3>2. Answered(q)
      BY <2>0 DEF Process, Answered, SavingPcs
    <3> HIDE DEF q
    <3> QED
      BY <2>0, <3>1, <3>2, NoCauseLost
  <2>2. CASE ReadAccount(r)
    <3> DEFINE q(v) == [proc[r] EXCEPT !.snap = [account EXCEPT !.settings = v],
                                       !.pc = AfterRead(r)]
               z == [proc[r] EXCEPT !.snap = account, !.pc = AfterRead(r)]
    <3>0. /\ proc[r].op \in Ops \ {"store"} /\ proc[r].pc = "read" /\ proc[r].pc \notin Causes
          /\ proc[r].op \in {"sync", "update", "destroy", "cors", "upload", "purge"}
          /\ UNCHANGED <<account, jobs>>
      <4>1. proc[r].pc = "read" /\ UNCHANGED <<account, jobs>> /\ Answered(proc[r])
        BY <2>0, <2>2 DEF ReadAccount, At, SyncInv
      <4> QED
        BY <4>1, QueueAssumption DEF Answered, Causes, AllOps
    <3>1. ASSUME Live PROVE Answered(z) /\ \A v : Answered(q(v))
      <4>1. \A v : /\ q(v).pc = AfterRead(r) /\ q(v).op = proc[r].op
                   /\ q(v).snap.status = account.status
        BY <2>0 DEF Process, TypeOK, Account
      <4>2. z.pc = AfterRead(r) /\ z.op = proc[r].op /\ z.snap = account
        BY <2>0 DEF Process
      <4>3. /\ AfterRead(r) # "read"
            /\ AfterRead(r) \in SavingPcs => proc[r].op \in SavingOps
        BY <3>0 DEF AfterRead, SavingPcs, SavingOps
      <4>4. account.status = "syncing" => UnderWay
        BY <1>s, <3>1 DEF SyncingHasCause
      <4> HIDE DEF q, z
      <4> QED
        BY <3>0, <4>1, <4>2, <4>3, <4>4 DEF Answered
    <3>2. \/ Live /\ (Becomes(r, z) \/ \E v : Becomes(r, q(v)))
          \/ Becomes(r, Idle)
      BY <2>2 DEF ReadAccount, Finish
    <3> HIDE DEF q, z
    <3>3. PICK x : Becomes(r, x) /\ Answered(x)
      BY <1>i, <3>1, <3>2
    <3> QED
      BY <1>s, <2>0, <3>0, <3>3, NoCauseLost DEF Live, SyncingHasCause
  <2>3. CASE AddFile(r) \/ RemoveFile(r) \/ Save(r)
    <3>0. /\ proc[r].pc \in SavingPcs /\ proc[r].pc \notin Causes /\ jobs' = jobs
          /\ proc[r].op \in Ops \cap SavingOps
          /\ proc[r].snap.status = "syncing" => UnderWay
      <4>1. proc[r].pc \in SavingPcs /\ jobs' = jobs /\ Answered(proc[r])
        BY <2>0, <2>3 DEF AddFile, RemoveFile, Save, At, SyncInv, SavingPcs
      <4> QED
        BY <4>1 DEF Answered, SavingPcs, Causes
    <3>1. CASE Becomes(r, Idle) /\ account' = account
      BY <1>i, <1>s, <2>0, <3>0, <3>1, NoCauseLost DEF Live, SyncingHasCause
    <3>2. ASSUME NEW n, Becomes(r, [proc[r] EXCEPT !.snap.used = n, !.pc = "save"]),
                 account' = account
          PROVE  SyncInv'
      <4> DEFINE q == [proc[r] EXCEPT !.snap.used = n, !.pc = "save"]
      <4>1. q.pc = "save" /\ q.op = proc[r].op /\ q.snap.status = proc[r].snap.status
        BY <2>0 DEF Process, Account
      <4> HIDE DEF q
      <4>2. Answered(q)
        BY <3>0, <4>1 DEF Answered
      <4>3. Becomes(r, q)
        BY <3>2 DEF q
      <4> QED
        BY <1>s, <2>0, <3>0, <3>2, <4>2, <4>3, NoCauseLost DEF Live, SyncingHasCause
    <3>3. CASE AddFile(r) \/ RemoveFile(r)
      BY <3>1, <3>2, <3>3 DEF AddFile, RemoveFile, Finish
    <3>4. CASE Save(r)
      <4> DEFINE q == [proc[r] EXCEPT !.pc = "invalidate"]
      <4>1. Answered(q)
        BY <2>0 DEF Process, Answered, SavingPcs
      <4>2. account' = proc[r].snap /\ (Becomes(r, q) \/ Becomes(r, Idle))
        BY <3>4 DEF Save, AfterSave, GoesTo, Finish
      <4> HIDE DEF q
      <4> QED
        BY <1>i, <2>0, <3>0, <4>1, <4>2, NoCauseLost
    <3> QED
      BY <2>3, <3>3, <3>4
  <2>4. CASE SoftDelete(r)
    <3> DEFINE q == [proc[r] EXCEPT !.pc = "invalidate"]
    <3>1. /\ Becomes(r, q) /\ account'.state = "trashed" /\ jobs' = jobs
          /\ proc[r].pc \notin Causes
      BY <2>4 DEF SoftDelete, GoesTo, TypeOK, Account, At, Causes
    <3>2. Answered(q)
      BY <2>0 DEF Process, Answered, SavingPcs
    <3> HIDE DEF q
    <3> QED
      BY <2>0, <3>1, <3>2, NoCauseLost
  <2>5. CASE MarkSyncing(r)
    <3> DEFINE q == [proc[r] EXCEPT !.pc = "dispatch"]
    <3>1. q.pc = "dispatch" /\ Becomes(r, q)
      BY <2>0, <2>5 DEF MarkSyncing, GoesTo, Process
    <3> HIDE DEF q
    <3> QED
      BY <2>0, <3>1, CauseAhead DEF Causes, SavingPcs
  <2>6. CASE Dispatch(r)
    <3>1. CASE GoesTo(r, "getDriver") \/ GoesTo(r, "markError")
      <4>1. PICK l \in {"getDriver", "markError"} : GoesTo(r, l)
        BY <3>1
      <4> DEFINE q == [proc[r] EXCEPT !.pc = l]
      <4>2. q.pc = l /\ Becomes(r, q)
        BY <2>0, <4>1 DEF GoesTo, Process
      <4> HIDE DEF q
      <4> QED
        BY <2>0, <4>2, CauseAhead DEF Causes, SavingPcs
    <3>2. CASE jobs' = jobs + 1 /\ AfterSync(r)
      <4>1. jobs' > 0
        BY <3>2 DEF TypeOK
      <4>2. PICK q : Becomes(r, q) /\ q.pc \in {"reload", "idle"}
        BY <2>0, <3>2, AfterSyncGoes
      <4> QED
        BY <2>0, <4>1, <4>2, CauseAhead DEF SavingPcs
    <3> QED
      BY <2>6, <3>1, <3>2 DEF Dispatch
  <2>7. CASE MarkError(r)
    <3>1. ~(account'.state = "live" /\ account'.status = "syncing")
      BY <2>7 DEF MarkError, SetStatus, TypeOK, Account, Live
    <3>2. PICK q : Becomes(r, q) /\ q.pc \in {"reload", "idle"}
      BY <2>0, <2>7, AfterSyncGoes DEF MarkError
    <3>3. Writing(r)
      BY <2>7 DEF MarkError, At, Writing
    <3> QED
      BY <2>0, <3>1, <3>2, <3>3, Released DEF SavingPcs
  <2>8. CASE \/ InvalidateCache(r) \/ Reload(r) \/ DriverForAccount(r)
             \/ GetBucketCors(r) \/ PutBucketCors(r)
    <3>1. PICK q : Becomes(r, q) /\ q.pc \in {"corsDriver", "getCors", "putCors", "idle"}
      BY <2>0, <2>8, CorsGoes
    <3>2. UNCHANGED <<account, jobs>> /\ proc[r].pc \notin Causes
      BY <2>8 DEF InvalidateCache, Reload, DriverForAccount, GetBucketCors, PutBucketCors,
         At, Causes
    <3>3. Answered(q)
      BY <3>1 DEF Answered, SavingPcs
    <3> QED
      BY <1>s, <2>0, <3>1, <3>2, <3>3, NoCauseLost DEF Live, SyncingHasCause
  <2> QED
    BY <1>3, <2>1, <2>2, <2>3, <2>4, <2>5, <2>6, <2>7, <2>8 DEF Advance
<1>4. ASSUME NEW w \in Workers, TakeJob(w) PROVE SyncInv'
  <2> DEFINE q == [Idle EXCEPT !.op = "scan", !.pc = "getDriver"]
  <2>1. q.pc = "getDriver" /\ Becomes(w, q)
    BY <1>4 DEF TakeJob, Idle
  <2> HIDE DEF q
  <2> QED
    BY <2>1, CauseAhead DEF Causes, SavingPcs, Processes
<1>5. ASSUME NEW p \in Processes, RunJob(p) PROVE SyncInv'
  <2>1. CASE Release(p)
    <3> DEFINE q == [proc[p] EXCEPT !.pc = "markError"]
    <3>1. q.pc = "markError"
      BY <1>0 DEF Process
    <3>2. Becomes(p, q) \/ AfterSync(p)
      BY <2>1 DEF Release, GoesTo
    <3> HIDE DEF q
    <3>3. PICK x : Becomes(p, x) /\ x.pc \in {"markError", "reload", "idle"}
      BY <1>0, <3>1, <3>2, AfterSyncGoes
    <3>4. ~(account'.state = "live" /\ account'.status = "syncing")
      BY <2>1 DEF Release, SetStatus, TypeOK, Account, Live
    <3>5. Writing(p)
      BY <2>1 DEF Release, At, Writing
    <3> QED
      BY <3>3, <3>4, <3>5, Released DEF SavingPcs
  <2>2. CASE GetDriver(p) \/ ListBucket(p) \/ SumFiles(p) \/ SaveScan(p)
    <3>1. PICK q : Becomes(p, q) /\ q.pc \in {"list", "sum", "saveScan", "release"}
      <4> DEFINE a == [proc[p] EXCEPT !.failed = TRUE, !.pc = "release"]
                 b == [proc[p] EXCEPT !.snap = account, !.pc = "list"]
                 c == [proc[p] EXCEPT !.pc = "sum"]
                 d == [proc[p] EXCEPT !.snap.used = files, !.pc = "saveScan"]
                 e == [proc[p] EXCEPT !.pc = "release"]
      <4>1. a.pc = "release" /\ b.pc = "list" /\ c.pc = "sum" /\ d.pc = "saveScan" /\ e.pc = "release"
        BY <1>0 DEF Process
      <4>2. Becomes(p, a) \/ Becomes(p, b) \/ Becomes(p, c) \/ Becomes(p, d) \/ Becomes(p, e)
        BY <2>2 DEF GetDriver, ListBucket, SumFiles, SaveScan, Fails, GoesTo
      <4> HIDE DEF a, b, c, d, e
      <4> QED
        BY <4>1, <4>2
    <3> QED
      BY <3>1, CauseAhead DEF Causes, SavingPcs
  <2> QED
    BY <1>5, <2>1, <2>2 DEF RunJob
<1>6. ASSUME NEW v \in DOMAIN rules, OtherAddsRule(v) PROVE SyncInv'
  <2>1. /\ UNCHANGED <<account, jobs>>
        /\ \A p \in Processes : /\ proc'[p].op = proc[p].op /\ proc'[p].pc = proc[p].pc
                                /\ proc'[p].snap = proc[p].snap
    BY <1>6, OtherAddsAlone
  <2>2. UnderWay' <=> UnderWay
    BY <2>1 DEF UnderWay
  <2>3. SyncingHasCause'
    BY <1>s, <2>1, <2>2 DEF SyncingHasCause, Live
  <2>4. \A p \in Processes : Answered(proc[p])'
    BY <2>1, <2>2 DEF SyncInv, Answered
  <2>5. OneWriter => AtMostOneWriter'
    BY <2>1 DEF SyncInv, AtMostOneWriter, Writing
  <2> QED
    BY <2>3, <2>4, <2>5 DEF SyncInv
<1> QED
  BY <1>1, <1>2, <1>3, <1>4, <1>5, <1>6 DEF Next

\* While the server stays up, and no request Saves the row or those that do run
\* one at a time, an account that says "syncing" has a sync queued or under way
\* that will release it, whatever step of it fails.
THEOREM SyncNeverStuck ==
  ASSUME OneWriter \/ Ops \cap SavingOps = {}, ~MayCrash
  PROVE  Spec => []SyncingHasCause
<1>1. Init => TypeOK /\ SyncInv
  BY InitTypeOK, InitSync
<1>2. TypeOK /\ SyncInv /\ [Next]_vars => (TypeOK /\ SyncInv)'
  BY NextTypeOK, NextSync
<1>3. TypeOK /\ SyncInv => SyncingHasCause
  BY DEF SyncInv
<1> QED
  BY <1>1, <1>2, <1>3, PTL DEF Spec

-----------------------------------------------------------------------------
(* CORS rules.  What a request puts is what it read and the frontend's      *)
(* rule.  Two requests on their way to the same bucket's Put read the same,  *)
(* but for what other programs added between: that the later one has read,   *)
(* and the earlier one has missed.                                          *)

CorsInv ==
  \A p \in Processes : At(p, "putCors") =>
    /\ rules[proc[p].driver] \subseteq MergeCorsRules(proc[p].existing) \cup proc[p].missed
    /\ "app" \notin rules[proc[p].driver] => proc[p].existing \subseteq rules[proc[p].driver]
    /\ \A q \in Processes : At(q, "putCors") /\ proc[q].driver = proc[p].driver =>
         proc[p].existing \subseteq proc[q].existing \cup proc[q].missed

\* A step that loses only what a request at its Put has missed.
LosesUnseen ==
  \A v \in DOMAIN rules : \A x \in rules[v] \ rules'[v] :
    /\ x # "app"
    /\ \E r \in Requests : At(r, "putCors") /\ proc[r].driver = v /\ x \in proc[r].missed

\* A step of p that does not go to putCors and touches no rule.
Elsewhere(p) == UNCHANGED rules /\ \E q : Becomes(p, q) /\ q.pc # "putCors"

LEMMA GoesElsewhere ==
  ASSUME TypeOK, NEW p \in Processes
  PROVE  /\ Finish(p) => \E q : Becomes(p, q) /\ q.pc # "putCors"
         /\ \A l \in Labels \ {"putCors"} : GoesTo(p, l) => \E q : Becomes(p, q) /\ q.pc # "putCors"
         /\ Fails(p) => \E q : Becomes(p, q) /\ q.pc # "putCors"
<1>0. proc[p] \in Process
  BY DEF TypeOK
<1>1. Finish(p) => \E q : Becomes(p, q) /\ q.pc # "putCors"
  <2>1. Idle.pc # "putCors"
    BY DEF Idle
  <2> QED
    BY <2>1 DEF Finish
<1>2. ASSUME NEW l \in Labels \ {"putCors"}, GoesTo(p, l)
      PROVE  \E q : Becomes(p, q) /\ q.pc # "putCors"
  <2> DEFINE q == [proc[p] EXCEPT !.pc = l]
  <2>1. q.pc # "putCors" /\ Becomes(p, q)
    BY <1>0, <1>2 DEF GoesTo, Process
  <2> HIDE DEF q
  <2> QED
    BY <2>1
<1>3. ASSUME Fails(p) PROVE \E q : Becomes(p, q) /\ q.pc # "putCors"
  <2> DEFINE q == [proc[p] EXCEPT !.failed = TRUE, !.pc = "release"]
  <2>1. q.pc # "putCors" /\ Becomes(p, q)
    BY <1>0, <1>3 DEF Fails, Process
  <2> HIDE DEF q
  <2> QED
    BY <2>1
<1> QED
  BY <1>1, <1>2, <1>3

LEMMA ElsewhereKeeps ==
  ASSUME TypeOK, CorsInv, NEW p \in Processes, Elsewhere(p)
  PROVE  CorsInv' /\ LosesUnseen
<1>1. PICK q : Becomes(p, q) /\ q.pc # "putCors"
  BY DEF Elsewhere
<1>2. \A x \in Processes : proc'[x] = IF x = p THEN q ELSE proc[x]
  BY <1>1 DEF Becomes, TypeOK
<1>3. LosesUnseen
  BY DEF LosesUnseen, Elsewhere
<1>4. CorsInv'
  BY <1>1, <1>2 DEF CorsInv, Elsewhere, At
<1> QED
  BY <1>3, <1>4

LEMMA RequestElsewhere ==
  ASSUME TypeOK, NEW r \in Requests,
         Start(r) \/ (Advance(r) /\ ~GetBucketCors(r) /\ ~PutBucketCors(r))
  PROVE  Elsewhere(r)
<1>0. r \in Processes /\ proc[r] \in Process
  BY DEF Processes, TypeOK
<1>e. ASSUME NEW q, Becomes(r, q), q.pc # "putCors" PROVE \E x : Becomes(r, x) /\ x.pc # "putCors"
  BY <1>e
<1>1. CASE Start(r)
  <2>1. UNCHANGED rules
    BY <1>1 DEF Start, StartStore, StartRequest, bucketVars
  <2>2. PICK q \in {[Idle EXCEPT !.op = "store", !.pc = "insert"]}
                   \cup {[Idle EXCEPT !.op = op, !.pc = "read"] : op \in Ops} : Becomes(r, q)
    BY <1>1 DEF Start, StartStore, StartRequest
  <2>3. q.pc # "putCors"
    BY <2>2 DEF Idle
  <2> QED
    BY <2>1, <2>2, <2>3 DEF Elsewhere
<1>2. CASE Insert(r) \/ SoftDelete(r) \/ MarkSyncing(r)
  BY <1>0, <1>2, GoesElsewhere DEF Insert, SoftDelete, MarkSyncing, Elsewhere, Labels, bucketVars
<1>3. CASE ReadAccount(r)
  <2>1. UNCHANGED rules /\ AfterRead(r) # "putCors"
    BY <1>3 DEF ReadAccount, AfterRead, bucketVars
  <2> DEFINE a == [proc[r] EXCEPT !.snap = [account EXCEPT !.settings = newest + 1],
                                  !.pc = AfterRead(r)]
             b == [proc[r] EXCEPT !.snap = account, !.pc = AfterRead(r)]
  <2>2. a.pc = AfterRead(r) /\ b.pc = AfterRead(r)
    BY <1>0 DEF Process
  <2>3. Becomes(r, a) \/ Becomes(r, b) \/ Finish(r)
    BY <1>3 DEF ReadAccount
  <2> HIDE DEF a, b
  <2> QED
    BY <1>0, <1>e, <2>1, <2>2, <2>3, GoesElsewhere DEF Elsewhere
<1>4. CASE AddFile(r) \/ RemoveFile(r)
  <2> DEFINE a == [proc[r] EXCEPT !.snap.used = proc[r].snap.used + 1, !.pc = "save"]
             b == [proc[r] EXCEPT !.snap.used = FlooredAt0(proc[r].snap.used - 1), !.pc = "save"]
  <2>1. a.pc = "save" /\ b.pc = "save"
    BY <1>0 DEF Process
  <2>2. UNCHANGED rules /\ (Becomes(r, a) \/ Becomes(r, b) \/ Finish(r))
    BY <1>4 DEF AddFile, RemoveFile, bucketVars
  <2> HIDE DEF a, b
  <2> QED
    BY <1>0, <1>e, <2>1, <2>2, GoesElsewhere DEF Elsewhere
<1>5. CASE Save(r)
  BY <1>0, <1>5, GoesElsewhere DEF Save, AfterSave, Elsewhere, Labels, bucketVars
<1>6. CASE Dispatch(r) \/ MarkError(r)
  BY <1>0, <1>6, GoesElsewhere DEF Dispatch, MarkError, AfterSync, Elsewhere, Labels, bucketVars
<1>7. CASE InvalidateCache(r)
  BY <1>0, <1>7, GoesElsewhere DEF InvalidateCache, Elsewhere, Labels
<1>8. CASE Reload(r)
  <2> DEFINE q == [proc[r] EXCEPT !.snap = account, !.pc = "corsDriver"]
  <2>1. q.pc = "corsDriver"
    BY <1>0 DEF Process
  <2>2. UNCHANGED rules /\ (Becomes(r, q) \/ Finish(r))
    BY <1>8 DEF Reload, GivesUp
  <2> HIDE DEF q
  <2> QED
    BY <1>0, <1>e, <2>1, <2>2, GoesElsewhere DEF Elsewhere
<1>9. CASE DriverForAccount(r)
  <2>1. ASSUME NEW v, Becomes(r, [proc[r] EXCEPT !.driver = v, !.pc = "getCors"])
        PROVE  \E q : Becomes(r, q) /\ q.pc # "putCors"
    <3> DEFINE q == [proc[r] EXCEPT !.driver = v, !.pc = "getCors"]
    <3>1. q.pc = "getCors" /\ Becomes(r, q)
      BY <1>0, <2>1 DEF Process
    <3> HIDE DEF q
    <3> QED
      BY <3>1
  <2> QED
    BY <1>0, <1>9, <2>1, GoesElsewhere DEF DriverForAccount, GivesUp, Elsewhere
<1> QED
  BY <1>1, <1>2, <1>3, <1>4, <1>5, <1>6, <1>7, <1>8, <1>9 DEF Advance

LEMMA JobElsewhere ==
  ASSUME TypeOK, NEW p \in Processes, TakeJob(p) \/ RunJob(p)
  PROVE  Elsewhere(p)
<1>0. proc[p] \in Process
  BY DEF TypeOK
<1>1. UNCHANGED rules
  BY DEF TakeJob, RunJob, GetDriver, ListBucket, SumFiles, SaveScan, Release, bucketVars
<1> DEFINE a == [Idle EXCEPT !.op = "scan", !.pc = "getDriver"]
           b == [proc[p] EXCEPT !.snap = account, !.pc = "list"]
           c == [proc[p] EXCEPT !.snap.used = files, !.pc = "saveScan"]
<1>2. a.pc = "getDriver" /\ b.pc = "list" /\ c.pc = "saveScan"
  BY <1>0 DEF Process, Idle
<1>3. \/ Becomes(p, a) \/ Becomes(p, b) \/ Becomes(p, c) \/ Finish(p) \/ Fails(p)
      \/ \E l \in Labels \ {"putCors"} : GoesTo(p, l)
  BY DEF TakeJob, RunJob, GetDriver, ListBucket, SumFiles, SaveScan, Release, AfterSync, Labels
<1> HIDE DEF a, b, c
<1> QED
  BY <1>1, <1>2, <1>3, GoesElsewhere DEF Elsewhere

LEMMA GetBucketCorsStep ==
  ASSUME TypeOK, CorsInv, NEW r \in Requests, GetBucketCors(r)
  PROVE  CorsInv'
<1>0. r \in Processes /\ proc[r] \in Process /\ UNCHANGED rules
  BY DEF Processes, TypeOK, GetBucketCors
<1>1. CASE Finish(r)
  BY <1>0, <1>1, GoesElsewhere, ElsewhereKeeps DEF Elsewhere
<1>2. CASE /\ "app" \notin rules[proc[r].driver]
           /\ Becomes(r, [proc[r] EXCEPT !.existing = rules[proc[r].driver], !.pc = "putCors"])
  <2> DEFINE q == [proc[r] EXCEPT !.existing = rules[proc[r].driver], !.pc = "putCors"]
  <2>1. /\ q.existing = rules[q.driver] /\ q.driver = proc[r].driver /\ q.pc = "putCors"
        /\ Becomes(r, q)
    BY <1>0, <1>2 DEF Process
  <2>2. \A x \in Processes : proc'[x] = IF x = r THEN q ELSE proc[x]
    BY <2>1 DEF Becomes, TypeOK
  <2>3. "app" \notin rules[q.driver]
    BY <1>2, <2>1
  <2> HIDE DEF q
  <2>4. ASSUME NEW x \in Processes, x # r, At(x, "putCors"), proc[x].driver = q.driver
        PROVE  /\ q.existing \subseteq proc[x].existing \cup proc[x].missed
               /\ proc[x].existing \subseteq q.existing
    BY <2>1, <2>3, <2>4 DEF CorsInv, MergeCorsRules
  <2>5. ASSUME NEW p \in Processes, At(p, "putCors")'
        PROVE  /\ rules'[proc'[p].driver]
                    \subseteq MergeCorsRules(proc'[p].existing) \cup proc'[p].missed
               /\ "app" \notin rules'[proc'[p].driver] =>
                    proc'[p].existing \subseteq rules'[proc'[p].driver]
    <3>1. CASE p = r
      BY <1>0, <2>1, <2>2, <3>1 DEF MergeCorsRules
    <3>2. CASE p # r
      BY <1>0, <2>2, <2>5, <3>2 DEF CorsInv, At
    <3> QED
      BY <3>1, <3>2
  <2>6. ASSUME NEW p \in Processes, NEW x \in Processes, At(p, "putCors")', At(x, "putCors")',
               proc'[x].driver = proc'[p].driver
        PROVE  proc'[p].existing \subseteq proc'[x].existing \cup proc'[x].missed
    <3>1. CASE p = r /\ x = r
      BY <3>1
    <3>2. CASE p = r /\ x # r
      BY <2>2, <2>4, <2>6, <3>2 DEF At
    <3>3. CASE p # r /\ x = r
      BY <2>2, <2>4, <2>6, <3>3 DEF At
    <3>4. CASE p # r /\ x # r
      BY <2>2, <2>6, <3>4 DEF At, CorsInv
    <3> QED
      BY <3>1, <3>2, <3>3, <3>4
  <2> QED
    BY <2>5, <2>6 DEF CorsInv
<1> QED
  BY <1>1, <1>2 DEF GetBucketCors, GivesUp

LEMMA PutBucketCorsStep ==
  ASSUME TypeOK, CorsInv, NEW r \in Requests, PutBucketCors(r)
  PROVE  CorsInv' /\ LosesUnseen
<1>0. r \in Processes /\ proc[r] \in Process
  BY DEF Processes, TypeOK
<1>1. CASE UNCHANGED rules
  <2>1. Finish(r)
    BY DEF PutBucketCors, GivesUp
  <2> QED
    BY <1>0, <1>1, <2>1, GoesElsewhere, ElsewhereKeeps DEF Elsewhere
<1>2. CASE rules' = [rules EXCEPT ![proc[r].driver] = MergeCorsRules(proc[r].existing)]
  <2>1. \A x \in Processes : proc'[x] = IF x = r THEN Idle ELSE proc[x]
    BY <1>0 DEF PutBucketCors, GivesUp, Finish, Becomes, TypeOK
  <2>2. Idle.pc = "idle" /\ At(r, "putCors")
    BY DEF Idle, PutBucketCors
  <2>3. /\ proc[r].driver \in DOMAIN rules
        /\ \A x \in Processes : proc[x].driver \in DOMAIN rules
    BY <1>0 DEF TypeOK, Process
  <2>4. rules[proc[r].driver] \subseteq MergeCorsRules(proc[r].existing) \cup proc[r].missed
    BY <1>0, <2>2 DEF CorsInv
  <2>5. \A v \in DOMAIN rules : rules'[v] = IF v = proc[r].driver
                                             THEN MergeCorsRules(proc[r].existing) ELSE rules[v]
    BY <1>2
  <2>6. LosesUnseen
    BY <2>2, <2>4, <2>5 DEF LosesUnseen, MergeCorsRules
  <2>7. ASSUME NEW x \in Processes, x # r, At(x, "putCors")
        PROVE  /\ rules'[proc[x].driver]
                    \subseteq MergeCorsRules(proc[x].existing) \cup proc[x].missed
               /\ "app" \notin rules'[proc[x].driver] =>
                    proc[x].existing \subseteq rules'[proc[x].driver]
    <3>1. CASE proc[x].driver = proc[r].driver
      <4>1. proc[r].existing \subseteq proc[x].existing \cup proc[x].missed
        BY <1>0, <2>2, <2>7, <3>1 DEF CorsInv
      <4>2. rules'[proc[x].driver] = MergeCorsRules(proc[r].existing)
        BY <2>3, <2>5, <3>1
      <4> QED
        BY <4>1, <4>2 DEF MergeCorsRules
    <3>2. CASE proc[x].driver # proc[r].driver
      BY <2>3, <2>5, <2>7, <3>2 DEF CorsInv
    <3> QED
      BY <3>1, <3>2
  <2>8. ASSUME NEW x \in Processes, At(x, "putCors")' PROVE x # r /\ At(x, "putCors")
    BY <2>1, <2>2, <2>8 DEF At
  <2>9. CorsInv'
    BY <2>1, <2>7, <2>8 DEF CorsInv
  <2> QED
    BY <2>6, <2>9
<1> QED
  BY <1>1, <1>2 DEF PutBucketCors

LEMMA OtherAddsStep ==
  ASSUME TypeOK, CorsInv, NEW v \in DOMAIN rules, OtherAddsRule(v)
  PROVE  CorsInv' /\ LosesUnseen
<1>1. /\ \A p \in Processes :
           /\ proc'[p].pc = proc[p].pc /\ proc'[p].driver = proc[p].driver
           /\ proc'[p].existing = proc[p].existing
           /\ proc'[p].missed = IF At(p, "putCors") /\ proc[p].driver = v
                                  THEN proc[p].missed \cup {"added"} ELSE proc[p].missed
      /\ \A u \in DOMAIN rules : rules'[u] = IF u = v THEN rules[u] \cup {"added"} ELSE rules[u]
      /\ \A p \in Processes : proc[p].driver \in DOMAIN rules
  <2>1. \A p \in Processes : proc[p].driver \in DOMAIN rules
    BY DEF TypeOK, Process
  <2> QED
    BY <2>1, OtherAddsAlone
<1>2. LosesUnseen
  BY <1>1 DEF LosesUnseen
<1>3. ASSUME NEW p \in Processes, At(p, "putCors")
      PROVE  /\ rules'[proc[p].driver]
                  \subseteq MergeCorsRules(proc[p].existing) \cup proc'[p].missed
             /\ "app" \notin rules'[proc[p].driver] =>
                  proc[p].existing \subseteq rules'[proc[p].driver]
  <2>1. /\ rules[proc[p].driver] \subseteq MergeCorsRules(proc[p].existing) \cup proc[p].missed
        /\ "app" \notin rules[proc[p].driver] => proc[p].existing \subseteq rules[proc[p].driver]
    BY <1>3 DEF CorsInv
  <2>2. CASE proc[p].driver = v
    BY <1>1, <1>3, <2>1, <2>2
  <2>3. CASE proc[p].driver # v
    BY <1>1, <1>3, <2>1, <2>3
  <2> QED
    BY <2>2, <2>3
<1>4. \A p \in Processes : proc[p].missed \subseteq proc'[p].missed
  BY <1>1
<1>5. ASSUME NEW p \in Processes, NEW q \in Processes, At(p, "putCors"), At(q, "putCors"),
             proc[q].driver = proc[p].driver
      PROVE  proc[p].existing \subseteq proc[q].existing \cup proc'[q].missed
  <2>1. proc[p].existing \subseteq proc[q].existing \cup proc[q].missed
    BY <1>5 DEF CorsInv
  <2> QED
    BY <1>4, <2>1
<1>6. CorsInv'
  <2>1. \A p \in Processes : At(p, "putCors")' <=> At(p, "putCors")
    BY <1>1 DEF At
  <2>2. ASSUME NEW p \in Processes, At(p, "putCors")
        PROVE  /\ rules'[proc'[p].driver]
                    \subseteq MergeCorsRules(proc'[p].existing) \cup proc'[p].missed
               /\ "app" \notin rules'[proc'[p].driver] =>
                    proc'[p].existing \subseteq rules'[proc'[p].driver]
    <3>1. proc'[p].driver = proc[p].driver /\ proc'[p].existing = proc[p].existing
      BY <1>1
    <3> QED
      BY <1>3, <2>2, <3>1
  <2>3. ASSUME NEW p \in Processes, NEW q \in Processes, At(p, "putCors"), At(q, "putCors"),
               proc'[q].driver = proc'[p].driver
        PROVE  proc'[p].existing \subseteq proc'[q].existing \cup proc'[q].missed
    <3>1. /\ proc'[p].driver = proc[p].driver /\ proc'[p].existing = proc[p].existing
          /\ proc'[q].driver = proc[q].driver /\ proc'[q].existing = proc[q].existing
      BY <1>1
    <3> QED
      BY <1>5, <2>3, <3>1
  <2> QED
    BY <2>1, <2>2, <2>3 DEF CorsInv
<1> QED
  BY <1>2, <1>6

LEMMA NextCors ==
  ASSUME TypeOK, CorsInv, [Next]_vars
  PROVE  CorsInv' /\ LosesUnseen
<1>1. CASE Crash
  BY <1>1 DEF Crash, CorsInv, At, Idle, LosesUnseen
<1>2. CASE UNCHANGED vars
  BY <1>2 DEF vars, CorsInv, At, LosesUnseen
<1>3. ASSUME NEW r \in Requests, Start(r) \/ Advance(r)
      PROVE  CorsInv' /\ LosesUnseen
  <2>0. r \in Processes
    BY DEF Processes
  <2>1. CASE GetBucketCors(r)
    BY <2>1, GetBucketCorsStep DEF GetBucketCors, LosesUnseen
  <2>2. CASE PutBucketCors(r)
    BY <2>2, PutBucketCorsStep
  <2>3. CASE ~GetBucketCors(r) /\ ~PutBucketCors(r)
    BY <1>3, <2>0, <2>3, RequestElsewhere, ElsewhereKeeps
  <2> QED
    BY <2>1, <2>2, <2>3
<1>4. ASSUME NEW p \in Processes, TakeJob(p) \/ RunJob(p)
      PROVE  CorsInv' /\ LosesUnseen
  BY <1>4, JobElsewhere, ElsewhereKeeps
<1>5. ASSUME NEW v \in DOMAIN rules, OtherAddsRule(v)
      PROVE  CorsInv' /\ LosesUnseen
  BY <1>5, OtherAddsStep
<1> QED
  BY <1>1, <1>2, <1>3, <1>4, <1>5 DEF Next, Processes

\* Whichever requests set the frontend's rule at a time, fail or crash, no bucket
\* loses that rule again, nor any other but one that another program added after
\* the Get of a request that is at its Put.
THEOREM RulesKept == Spec => OnlyUnseenRulesLost
<1>1. Init => TypeOK /\ CorsInv
  BY InitTypeOK DEF Init, CorsInv, At, Idle
<1>2. TypeOK /\ CorsInv /\ [Next]_vars => (TypeOK /\ CorsInv)'
  BY NextTypeOK, NextCors
<1>3. TypeOK /\ CorsInv /\ [Next]_vars =>
        [\A v \in DOMAIN rules : \A x \in rules[v] \ rules'[v] :
           /\ x # "app"
           /\ \E r \in Requests : /\ At(r, "putCors") /\ proc[r].driver = v
                                  /\ x \in proc[r].missed]_vars
  BY NextCors DEF LosesUnseen
<1> QED
  BY <1>1, <1>2, <1>3, PTL DEF Spec, OnlyUnseenRulesLost

-----------------------------------------------------------------------------
(* The discipline OneWriter: what reads the account row and writes it back    *)
(* runs alone.  Then no Save reverts what another wrote, used_storage is      *)
(* right, and the driver and the CORS rules are those of the settings.        *)

\* Pending writes of used_storage.
Saving == {"save", "sum", "saveScan"}

\* The process holds a row that it is going to Save.
Carrying == {"addFile", "removeFile", "save", "list", "sum", "saveScan"}

CorsLabels == {"corsDriver", "getCors", "putCors"}

\* Which program counters an operation comes to.
Belongs(q) ==
  /\ q.op = "none" <=> q.pc = "idle"
  /\ q.pc = "insert" => q.op = "store"
  /\ q.pc = "read" => q.op \in AllOps \ {"store"}
  /\ q.pc \in {"addFile", "removeFile", "save"} => q.op \in {"update", "upload", "purge"}
  /\ q.pc = "delete" => q.op = "destroy"
  /\ q.pc = "invalidate" => q.op \in {"update", "destroy"}
  /\ q.op = "update" => q.pc \in {"read", "save", "invalidate"} \cup CorsLabels
  /\ q.op = "destroy" => q.pc \in {"read", "delete", "invalidate"}

\* What q holds agrees with the row a, the newest settings n, the files f, and
\* whether all of them are counted c.
Holds(q, a, n, f, c) ==
  /\ q.pc \in Carrying => a.state = "live" /\ q.snap.state = "live"
  /\ q.pc \in {"addFile", "removeFile", "list"} => q.snap.used = a.used
  /\ q.pc \in Carrying \ {"save"} => q.snap.settings = a.settings
  /\ q.pc = "save" => q.snap.settings = n /\ (c => q.snap.used = f)
  /\ q.pc = "saveScan" => q.snap.used = f
  /\ q.pc \in CorsLabels \/ (q.pc = "invalidate" /\ q.op = "update") =>
       a.state = "live" /\ q.snap.settings = a.settings
  /\ q.pc \in {"getCors", "putCors"} => q.driver = a.settings

\* An update that has replaced the settings and has yet to see to the bucket.
Updated(q) == q.op = "update" /\ q.pc \notin {"read", "save"}

ProcessInv ==
  \A p \in Processes : Belongs(proc[p]) /\ Holds(proc[p], account, newest, files, counted)

BeginInv ==
  /\ account.state = "none" =>
       /\ account.used = 0 /\ account.settings = 0
       /\ files = 0 /\ newest = 0 /\ cached = NoDriver /\ jobs = 0
       /\ \A p \in Processes : proc[p].pc \in {"idle", "insert"}
  /\ \A p \in Processes : At(p, "insert") => p \in Requests /\ account.state = "none"
  /\ \A p, q \in Processes : At(p, "insert") /\ At(q, "insert") => p = q

RowInv ==
  Live =>
    /\ \/ account.settings = newest
       \/ \E p \in Processes : At(p, "save") /\ proc[p].op = "update"
    /\ counted => account.used = files \/ \E p \in Processes : proc[p].pc \in Saving
    /\ \/ cached \in {NoDriver, account.settings}
       \/ \E p \in Processes : At(p, "invalidate") /\ proc[p].op = "update"
    /\ allowed => \/ "app" \in rules[account.settings]
                  \/ \E p \in Processes : proc[p].op = "store" \/ Updated(proc[p])

WriterInv == TypeOK /\ AtMostOneWriter /\ ProcessInv /\ BeginInv /\ RowInv

LEMMA InitWriter == Init => WriterInv
<1> SUFFICES ASSUME Init PROVE WriterInv
  OBVIOUS
<1>1. \A p \in Processes : proc[p].pc = "idle" /\ proc[p].op = "none"
  BY DEF Init, Idle
<1>2. account.state = "none" /\ account.used = 0 /\ account.settings = 0
  BY DEF Init, NoAccount
<1>3. AtMostOneWriter
  BY <1>1 DEF AtMostOneWriter, Writing
<1>4. ProcessInv
  BY <1>1 DEF ProcessInv, Belongs, Holds, Carrying, CorsLabels
<1>5. BeginInv /\ RowInv
  BY <1>1, <1>2 DEF Init, BeginInv, RowInv, Live, At
<1> QED
  BY <1>3, <1>4, <1>5, InitTypeOK DEF WriterInv

\* Beside a writer nobody holds a row or has a write pending.
LEMMA OthersRest ==
  ASSUME WriterInv, NEW p \in Processes, Writing(p), NEW x \in Processes, x # p
  PROVE  /\ proc[x].pc \notin Carrying \cup CorsLabels \cup {"invalidate", "delete"}
         /\ proc[x].op # "update"
<1>1. ~Writing(x)
  BY DEF WriterInv, AtMostOneWriter
<1> QED
  BY <1>1 DEF WriterInv, ProcessInv, Belongs, Writing, Carrying, CorsLabels

\* What is right while a writer has no write pending itself.
LEMMA Settled ==
  ASSUME WriterInv, NEW p \in Processes, Writing(p), Live,
         ~(At(p, "save") /\ proc[p].op = "update")
  PROVE  /\ account.settings = newest
         /\ counted /\ proc[p].pc \notin Saving => account.used = files
         /\ ~At(p, "invalidate") => cached \in {NoDriver, account.settings}
         /\ allowed => \/ "app" \in rules[account.settings]
                       \/ proc[p].op = "store" \/ Updated(proc[p])
                       \/ \E x \in Processes \ {p} : proc[x].op = "store"
<1>1. \A x \in Processes \ {p} :
        /\ ~At(x, "save") /\ ~At(x, "invalidate") /\ proc[x].pc \notin Saving
        /\ ~Updated(proc[x])
  BY OthersRest DEF At, Carrying, Saving, Updated
<1> QED
  BY <1>1 DEF WriterInv, RowInv

\* A step of a writer, which alone has anything in hand.
LEMMA WriterStep ==
  ASSUME OneWriter, WriterInv, TypeOK', NEW p \in Processes, Writing(p),
         NEW q, Becomes(p, q), Belongs(q), q.pc # "insert",
         account.state # "none", account'.state # "none",
         Holds(q, account', newest', files', counted'),
         account'.state = "live" =>
           /\ account'.settings = newest' \/ (q.pc = "save" /\ q.op = "update")
           /\ counted' => account'.used = files' \/ q.pc \in Saving
           /\ cached' \in {NoDriver, account'.settings} \/ (q.pc = "invalidate" /\ q.op = "update")
           /\ allowed' => \/ "app" \in rules'[account'.settings]
                          \/ q.op = "store" \/ Updated(q)
                          \/ \E x \in Processes \ {p} : proc[x].op = "store"
  PROVE  WriterInv'
<1>1. proc' = [proc EXCEPT ![p] = q] /\ proc \in [Processes -> Process] /\ AtMostOneWriter'
  BY DEF Becomes, WriterInv, TypeOK
<1>2. \A x \in Processes : IF x = p THEN proc'[x] = q ELSE proc'[x] = proc[x]
  BY <1>1
<1>3. ASSUME NEW x \in Processes, x # p
      PROVE  Belongs(proc[x]) /\ Holds(proc[x], account', newest', files', counted')
  <2>1. proc[x].pc \notin Carrying \cup CorsLabels \cup {"invalidate", "delete"}
    BY <1>3, OthersRest
  <2>2. Holds(proc[x], account', newest', files', counted')
    BY <2>1 DEF Holds, Carrying, CorsLabels
  <2> QED
    BY <2>2 DEF WriterInv, ProcessInv
<1>4. ProcessInv'
  BY <1>2, <1>3 DEF ProcessInv
<1>5. BeginInv'
  BY <1>2 DEF BeginInv, At, WriterInv
<1>6. RowInv'
  <2>1. proc'[p] = q
    BY <1>2
  <2>2. (\E x \in Processes \ {p} : proc[x].op = "store") => \E x \in Processes : proc'[x].op = "store"
    BY <1>2
  <2> QED
    BY <2>1, <2>2 DEF RowInv, Live, At
<1> QED
  BY <1>1, <1>4, <1>5, <1>6 DEF WriterInv

\* A step that leaves all but the status of the row alone.
LEMMA LightStep ==
  ASSUME OneWriter, WriterInv, TypeOK', NEW p \in Processes,
         NEW q, Becomes(p, q), Belongs(q), q.pc # "insert",
         Holds(q, account, newest, files, counted),
         proc[p].pc \notin Saving \cup {"insert", "invalidate"},
         proc[p].op = "store" => q.op = "store",
         Updated(proc[p]) => Updated(q),
         account.state # "none",
         account'.state = account.state, account'.settings = account.settings,
         account'.used = account.used,
         UNCHANGED <<files, newest, counted, cached, rules, allowed>>
  PROVE  WriterInv'
<1>1. proc' = [proc EXCEPT ![p] = q] /\ proc \in [Processes -> Process] /\ AtMostOneWriter'
  BY DEF Becomes, WriterInv, TypeOK
<1>2. \A x \in Processes : IF x = p THEN proc'[x] = q ELSE proc'[x] = proc[x]
  BY <1>1
<1>3. ProcessInv'
  BY <1>2 DEF WriterInv, ProcessInv, Holds
<1>4. BeginInv'
  BY <1>2 DEF BeginInv, At, WriterInv
<1>5. RowInv'
  <2> SUFFICES ASSUME account.state = "live" PROVE RowInv'
    BY DEF RowInv, Live
  <2>1. RowInv /\ Live
    BY DEF WriterInv, Live
  <2>2. /\ (\E x \in Processes : At(x, "save") /\ proc[x].op = "update") =>
             \E x \in Processes : At(x, "save")' /\ proc'[x].op = "update"
        /\ (\E x \in Processes : proc[x].pc \in Saving) => \E x \in Processes : proc'[x].pc \in Saving
        /\ (\E x \in Processes : At(x, "invalidate") /\ proc[x].op = "update") =>
             \E x \in Processes : At(x, "invalidate")' /\ proc'[x].op = "update"
        /\ (\E x \in Processes : proc[x].op = "store" \/ Updated(proc[x])) =>
             \E x \in Processes : proc'[x].op = "store" \/ Updated(proc'[x])
    BY <1>2 DEF At, Saving
  <2> QED
    BY <2>1, <2>2 DEF RowInv, Live
<1> QED
  BY <1>1, <1>3, <1>4, <1>5 DEF WriterInv

-----------------------------------------------------------------------------
(* The steps.                                                              *)

LEMMA IdleFits == Belongs(Idle) /\ Idle.pc = "idle" /\ Idle.op = "none" /\ ~Updated(Idle)
                  /\ \A a, n, f, c : Holds(Idle, a, n, f, c)
BY DEF Belongs, Idle, Updated, Holds, Carrying, CorsLabels

LEMMA GoesFits ==
  ASSUME NEW p \in Processes, proc[p] \in Process, NEW l
  PROVE  LET q == [proc[p] EXCEPT !.pc = l] IN
         /\ q.pc = l /\ q.op = proc[p].op /\ q.snap = proc[p].snap /\ q.driver = proc[p].driver
BY DEF Process

LEMMA CrashKeeps ==
  ASSUME WriterInv, TypeOK', Crash
  PROVE  WriterInv'
<1>1. \A p \in Processes : proc'[p] = Idle
  BY DEF Crash
<1>2. AtMostOneWriter'
  BY <1>1, IdleFits DEF AtMostOneWriter, Writing, Idle
<1>3. ProcessInv'
  BY <1>1, IdleFits DEF ProcessInv
<1>4. BeginInv' /\ RowInv'
  BY <1>1, IdleFits DEF Crash, WriterInv, BeginInv, RowInv, Live, At
<1> QED
  BY <1>2, <1>3, <1>4 DEF WriterInv

\* Before the row is there nothing but its creation happens.
LEMMA StartKeeps ==
  ASSUME OneWriter, WriterInv, TypeOK', NEW r \in Requests, Start(r)
  PROVE  WriterInv'
<1>0. r \in Processes /\ proc \in [Processes -> Process]
  BY DEF Processes, WriterInv, TypeOK
<1>1. CASE StartStore(r)
  <2> DEFINE q == [Idle EXCEPT !.op = "store", !.pc = "insert"]
  <2>1. q.op = "store" /\ q.pc = "insert"
    BY DEF Idle
  <2>2. /\ account.state = "none" /\ \A p \in Requests : proc[p].op # "store"
        /\ proc' = [proc EXCEPT ![r] = q] /\ AtMostOneWriter'
        /\ UNCHANGED <<account, jobs, files, newest, counted, cached, rules, allowed>>
    BY <1>1 DEF StartStore, Becomes, bucketVars
  <2> HIDE DEF q
  <2>3. \A x \in Processes : IF x = r THEN proc'[x] = q ELSE proc'[x] = proc[x]
    BY <1>0, <2>2
  <2>4. \A x \in Processes : proc[x].pc # "insert"
    BY <2>2 DEF WriterInv, BeginInv, ProcessInv, Belongs, At
  <2>5. Belongs(q) /\ \A a, n, f, c : Holds(q, a, n, f, c)
    BY <2>1 DEF Belongs, Holds, Carrying, CorsLabels
  <2>6. ProcessInv'
    BY <2>2, <2>3, <2>5 DEF ProcessInv, WriterInv
  <2>7. BeginInv'
    BY <2>1, <2>2, <2>3, <2>4 DEF BeginInv, At, WriterInv
  <2> QED
    BY <2>2, <2>6, <2>7 DEF WriterInv, RowInv, Live
<1>2. ASSUME NEW op \in Ops, StartRequest(r, op) PROVE WriterInv'
  <2> DEFINE q == [Idle EXCEPT !.op = op, !.pc = "read"]
  <2>1. q.op = op /\ q.pc = "read" /\ op \in AllOps \ {"store"}
    BY <1>2, QueueAssumption DEF Idle, StartRequest
  <2>2. /\ At(r, "idle") /\ account.state # "none" /\ Becomes(r, q)
        /\ UNCHANGED <<account, files, newest, counted, cached, rules, allowed>>
    BY <1>2 DEF StartRequest, bucketVars
  <2> HIDE DEF q
  <2>3. Belongs(q) /\ Holds(q, account, newest, files, counted) /\ q.pc # "insert"
    BY <2>1 DEF Belongs, Holds, Carrying, CorsLabels, AllOps
  <2>4. proc[r].pc = "idle" /\ proc[r].op = "none"
    BY <1>0, <2>2 DEF At, WriterInv, ProcessInv, Belongs
  <2> QED
    BY <1>0, <2>2, <2>3, <2>4, LightStep DEF Saving, Updated
<1> QED
  BY <1>1, <1>2 DEF Start

LEMMA InsertKeeps ==
  ASSUME OneWriter, WriterInv, TypeOK', NEW r \in Requests, Insert(r)
  PROVE  WriterInv'
<1>0. r \in Processes /\ proc \in [Processes -> Process]
  BY DEF Processes, WriterInv, TypeOK
<1> DEFINE q == [proc[r] EXCEPT !.pc = "markSyncing"]
<1>1. q.pc = "markSyncing" /\ q.op = "store"
  BY <1>0 DEF Insert, At, WriterInv, ProcessInv, Belongs, Process
<1>2. /\ At(r, "insert") /\ proc' = [proc EXCEPT ![r] = q] /\ AtMostOneWriter'
      /\ account'.state = "live" /\ account'.used = 0 /\ account'.settings = 0
      /\ UNCHANGED <<files, newest, counted, cached, rules, allowed>>
  BY DEF Insert, GoesTo, Becomes, bucketVars, NoAccount
<1>3. account.state = "none"
  BY <1>0, <1>2 DEF WriterInv, BeginInv
<1>4. files = 0 /\ newest = 0 /\ cached = NoDriver
  BY <1>3 DEF WriterInv, BeginInv
<1>5. \A x \in Processes \ {r} : proc[x].pc = "idle" /\ proc[x].op = "none"
  BY <1>0, <1>2, <1>3 DEF WriterInv, BeginInv, At, ProcessInv, Belongs
<1> HIDE DEF q
<1>6. \A x \in Processes : IF x = r THEN proc'[x] = q ELSE proc'[x] = proc[x]
  BY <1>0, <1>2
<1>7. Belongs(q) /\ \A a, n, f, c : Holds(q, a, n, f, c)
  BY <1>1 DEF Belongs, Holds, Carrying, CorsLabels
<1>8. \A x \in Processes \ {r} : Belongs(proc[x]) /\ \A a, n, f, c : Holds(proc[x], a, n, f, c)
  BY <1>5 DEF Belongs, Holds, Carrying, CorsLabels
<1>9. ProcessInv'
  BY <1>6, <1>7, <1>8 DEF ProcessInv
<1>10. BeginInv'
  BY <1>0, <1>1, <1>2, <1>5, <1>6 DEF BeginInv, At
<1>11. RowInv'
  BY <1>0, <1>1, <1>2, <1>4, <1>6 DEF RowInv, Live
<1> QED
  BY <1>2, <1>9, <1>10, <1>11 DEF WriterInv

\* From here on the row is there.
LEMMA RowIsThere ==
  ASSUME WriterInv, NEW p \in Processes, proc[p].pc \notin {"idle", "insert"}
  PROVE  account.state # "none"
BY DEF WriterInv, BeginInv

LEMMA FinishLight ==
  ASSUME OneWriter, WriterInv, TypeOK', NEW p \in Processes, Finish(p),
         proc[p].pc \notin Saving \cup {"idle", "insert", "invalidate"},
         proc[p].op # "store", ~Updated(proc[p]),
         account'.state = account.state, account'.settings = account.settings,
         account'.used = account.used,
         UNCHANGED <<files, newest, counted, cached, rules, allowed>>
  PROVE  WriterInv'
BY IdleFits, RowIsThere, LightStep DEF Finish

\* To a label where nothing is held.
LEMMA GoesLight ==
  ASSUME OneWriter, WriterInv, TypeOK', NEW p \in Processes, NEW l, GoesTo(p, l),
         l \in {"markSyncing", "dispatch", "markError", "getDriver", "release", "reload"},
         proc[p].op \notin {"none", "update", "destroy"},
         proc[p].pc \notin Saving \cup {"idle", "insert", "invalidate"},
         account'.state = account.state, account'.settings = account.settings,
         account'.used = account.used,
         UNCHANGED <<files, newest, counted, cached, rules, allowed>>
  PROVE  WriterInv'
<1> DEFINE q == [proc[p] EXCEPT !.pc = l]
<1>1. proc[p] \in Process
  BY DEF WriterInv, TypeOK
<1>2. q.pc = l /\ q.op = proc[p].op
  BY <1>1, GoesFits
<1>3. Becomes(p, q)
  BY DEF GoesTo
<1> HIDE DEF q
<1>4. Belongs(q) /\ Holds(q, account, newest, files, counted)
  BY <1>2 DEF Belongs, Holds, Carrying, CorsLabels
<1>5. ~Updated(proc[p]) /\ account.state # "none"
  BY RowIsThere DEF Updated
<1> QED
  BY <1>2, <1>3, <1>4, <1>5, LightStep

LEMMA ReadKeeps ==
  ASSUME OneWriter, WriterInv, TypeOK', NEW r \in Requests, ReadAccount(r)
  PROVE  WriterInv'
<1>0. r \in Processes /\ proc[r] \in Process
  BY DEF Processes, WriterInv, TypeOK
<1>1. /\ proc[r].pc = "read" /\ proc[r].op \in AllOps \ {"store"}
      /\ account.state # "none" /\ ~Updated(proc[r])
      /\ UNCHANGED <<account, files, counted, cached, rules, allowed>>
  BY <1>0, RowIsThere DEF ReadAccount, At, bucketVars, WriterInv, ProcessInv, Belongs, Updated
<1>2. CASE /\ Live /\ proc[r].op = "update"
           /\ newest' = newest + 1
           /\ Becomes(r, [proc[r] EXCEPT !.snap = [account EXCEPT !.settings = newest + 1],
                                         !.pc = AfterRead(r)])
  <2> DEFINE s == [account EXCEPT !.settings = newest + 1]
             q == [proc[r] EXCEPT !.snap = s, !.pc = AfterRead(r)]
  <2>1. s.state = "live" /\ s.settings = newest' /\ s.used = account.used
    BY <1>2 DEF Live, WriterInv, TypeOK, Account
  <2>2. q.pc = "save" /\ q.op = "update" /\ q.snap = s
    BY <1>0, <1>2 DEF Process, AfterRead
  <2>3. Becomes(r, q)
    BY <1>2
  <2>4. Writing(r)
    BY <1>2 DEF Writing
  <2> HIDE DEF s, q
  <2>5. counted => account.used = files
    BY <1>0, <1>1, <1>2, <2>4, Settled DEF At, Saving
  <2>6. cached \in {NoDriver, account.settings}
    BY <1>0, <1>1, <1>2, <2>4, Settled DEF At
  <2>7. allowed => "app" \in rules[account.settings] \/ \E x \in Processes \ {r} : proc[x].op = "store"
    BY <1>0, <1>1, <1>2, <2>4, Settled DEF At
  <2>8. Belongs(q)
    BY <2>2 DEF Belongs, CorsLabels
  <2>9. Holds(q, account', newest', files', counted')
    BY <1>1, <1>2, <2>1, <2>2, <2>5 DEF Holds, Carrying, CorsLabels, Live
  <2> QED
    BY <1>0, <1>1, <2>2, <2>3, <2>4, <2>6, <2>7, <2>8, <2>9, WriterStep DEF Saving
<1>3. CASE /\ Live /\ proc[r].op # "update" /\ UNCHANGED newest
           /\ Becomes(r, [proc[r] EXCEPT !.snap = account, !.pc = AfterRead(r)])
  <2> DEFINE q == [proc[r] EXCEPT !.snap = account, !.pc = AfterRead(r)]
  <2>1. q.pc = AfterRead(r) /\ q.op = proc[r].op /\ q.snap = account
    BY <1>0 DEF Process
  <2>2. Becomes(r, q)
    BY <1>3
  <2> HIDE DEF q
  <2>3. Belongs(q) /\ q.pc # "insert"
    BY <1>1, <1>3, <2>1 DEF Belongs, AfterRead, CorsLabels, AllOps
  <2>4. q.pc \in {"markSyncing", "delete", "corsDriver", "addFile", "removeFile"}
    BY <1>1, <1>3, <2>1 DEF AfterRead
  <2>5. Holds(q, account, newest, files, counted)
    BY <1>3, <2>1, <2>4 DEF Holds, Carrying, CorsLabels, Live
  <2> QED
    BY <1>0, <1>1, <1>3, <2>1, <2>2, <2>3, <2>5, LightStep DEF Saving
<1>4. CASE Finish(r) /\ UNCHANGED newest
  BY <1>0, <1>1, <1>4, FinishLight DEF Saving
<1> QED
  BY <1>2, <1>3, <1>4 DEF ReadAccount

LEMMA FileKeeps ==
  ASSUME OneWriter, WriterInv, TypeOK', NEW r \in Requests, AddFile(r) \/ RemoveFile(r)
  PROVE  WriterInv'
<1>0. r \in Processes /\ proc[r] \in Process
  BY DEF Processes, WriterInv, TypeOK
<1>1. /\ proc[r].pc \in {"addFile", "removeFile"}
      /\ proc[r].op \in {"update", "upload", "purge"}
      /\ UNCHANGED <<account, newest, counted, cached, rules, allowed>>
  BY <1>0 DEF AddFile, RemoveFile, At, bucketVars, WriterInv, ProcessInv, Belongs
<1>2. proc[r].op \in {"upload", "purge"} /\ ~Updated(proc[r]) /\ Writing(r) /\ account.state # "none"
  BY <1>0, <1>1, RowIsThere DEF WriterInv, ProcessInv, Belongs, Updated, Writing, CorsLabels
<1>3. /\ Live /\ proc[r].snap.state = "live" /\ proc[r].snap.used = account.used
      /\ proc[r].snap.settings = account.settings
  BY <1>0, <1>1 DEF WriterInv, ProcessInv, Holds, Carrying, Live
<1>4. /\ account.settings = newest
      /\ counted => account.used = files
      /\ cached \in {NoDriver, account.settings}
      /\ allowed => "app" \in rules[account.settings] \/ \E x \in Processes \ {r} : proc[x].op = "store"
  BY <1>0, <1>1, <1>2, <1>3, Settled DEF At, Saving
<1>5. ASSUME NEW u, Becomes(r, [proc[r] EXCEPT !.snap.used = u, !.pc = "save"]),
             counted => u = files'
      PROVE  WriterInv'
  <2> DEFINE q == [proc[r] EXCEPT !.snap.used = u, !.pc = "save"]
  <2>1. q.pc = "save" /\ q.op = proc[r].op
    BY <1>0 DEF Process
  <2>2. /\ q.snap.state = "live" /\ q.snap.used = u /\ q.snap.settings = account.settings
    BY <1>0, <1>3 DEF Process, Account
  <2>3. Becomes(r, q)
    BY <1>5
  <2> HIDE DEF q
  <2>4. Belongs(q)
    BY <1>1, <1>2, <2>1 DEF Belongs
  <2>5. Holds(q, account', newest', files', counted')
    BY <1>1, <1>3, <1>4, <1>5, <2>1, <2>2 DEF Holds, Carrying, CorsLabels, Live
  <2> QED
    BY <1>0, <1>1, <1>2, <1>4, <2>1, <2>3, <2>4, <2>5, WriterStep DEF Saving
<1>6. files \in Nat /\ account.used \in Nat
  BY DEF WriterInv, TypeOK, Account
<1>7. CASE AddFile(r)
  <2>1. CASE files' = files + 1 /\ Becomes(r, [proc[r] EXCEPT !.snap.used = @ + 1, !.pc = "save"])
    <3>1. counted => proc[r].snap.used + 1 = files'
      BY <1>3, <1>4, <2>1
    <3> QED
      BY <1>5, <2>1, <3>1
  <2>2. CASE UNCHANGED files /\ Finish(r)
    BY <1>0, <1>1, <1>2, <2>2, FinishLight DEF Saving
  <2> QED
    BY <1>7, <2>1, <2>2 DEF AddFile
<1>8. CASE RemoveFile(r)
  <2>1. CASE /\ files > 0 /\ files' = files - 1
             /\ Becomes(r, [proc[r] EXCEPT !.snap.used = FlooredAt0(@ - 1), !.pc = "save"])
    <3>1. counted => FlooredAt0(proc[r].snap.used - 1) = files'
      BY <1>3, <1>4, <1>6, <2>1 DEF FlooredAt0
    <3> QED
      BY <1>5, <2>1, <3>1
  <2>2. CASE UNCHANGED files /\ Finish(r)
    BY <1>0, <1>1, <1>2, <2>2, FinishLight DEF Saving
  <2> QED
    BY <1>8, <2>1, <2>2 DEF RemoveFile
<1> QED
  BY <1>7, <1>8

LEMMA SaveKeeps ==
  ASSUME OneWriter, WriterInv, TypeOK', NEW r \in Requests, Save(r)
  PROVE  WriterInv'
<1>0. r \in Processes /\ proc[r] \in Process
  BY DEF Processes, WriterInv, TypeOK
<1>1. /\ proc[r].pc = "save" /\ account' = proc[r].snap
      /\ proc[r].op \in {"update", "upload", "purge"}
      /\ UNCHANGED <<files, newest, counted, cached, rules, allowed>>
  BY <1>0 DEF Save, At, bucketVars, WriterInv, ProcessInv, Belongs
<1>2. Writing(r) /\ account.state # "none" /\ ~Updated(proc[r])
  BY <1>0, <1>1, RowIsThere DEF Writing, Updated
<1>3. /\ Live /\ account'.state = "live" /\ account'.settings = newest
      /\ counted => account'.used = files
  BY <1>0, <1>1 DEF WriterInv, ProcessInv, Holds, Carrying, Live
<1>4. CASE proc[r].op = "update" /\ GoesTo(r, "invalidate")
  <2> DEFINE q == [proc[r] EXCEPT !.pc = "invalidate"]
  <2>1. q.pc = "invalidate" /\ q.op = "update" /\ q.snap = account'
    BY <1>0, <1>1, <1>4, GoesFits
  <2>2. Becomes(r, q)
    BY <1>4 DEF GoesTo
  <2> HIDE DEF q
  <2>3. Belongs(q) /\ Updated(q)
    BY <2>1 DEF Belongs, Updated
  <2>4. Holds(q, account', newest', files', counted')
    BY <1>3, <2>1 DEF Holds, Carrying, CorsLabels
  <2> QED
    BY <1>0, <1>1, <1>2, <1>3, <2>1, <2>2, <2>3, <2>4, WriterStep
<1>5. CASE proc[r].op # "update" /\ Finish(r)
  <2>1. account.settings = newest
    BY <1>0, <1>2, <1>3, <1>5, Settled
  <2>2. /\ cached \in {NoDriver, account.settings}
        /\ allowed => "app" \in rules[account.settings]
                       \/ \E x \in Processes \ {r} : proc[x].op = "store"
    BY <1>0, <1>1, <1>2, <1>3, <1>5, Settled DEF At
  <2> QED
    BY <1>0, <1>1, <1>2, <1>3, <1>5, <2>1, <2>2, IdleFits, WriterStep DEF Finish
<1> QED
  BY <1>4, <1>5 DEF Save, AfterSave

LEMMA DeleteKeeps ==
  ASSUME OneWriter, WriterInv, TypeOK', NEW r \in Requests, SoftDelete(r)
  PROVE  WriterInv'
<1>0. r \in Processes /\ proc[r] \in Process
  BY DEF Processes, WriterInv, TypeOK
<1>1. /\ proc[r].pc = "delete" /\ account'.state = "trashed" /\ GoesTo(r, "invalidate")
      /\ proc[r].op = "destroy"
  BY <1>0 DEF SoftDelete, At, WriterInv, ProcessInv, Belongs, TypeOK, Account
<1>2. Writing(r) /\ account.state # "none"
  BY <1>0, <1>1, RowIsThere DEF Writing
<1> DEFINE q == [proc[r] EXCEPT !.pc = "invalidate"]
<1>3. q.pc = "invalidate" /\ q.op = proc[r].op
  BY <1>0, GoesFits
<1>4. Becomes(r, q)
  BY <1>1 DEF GoesTo
<1> HIDE DEF q
<1>5. Belongs(q) /\ Holds(q, account', newest', files', counted')
  BY <1>1, <1>3 DEF Belongs, Holds, Carrying, CorsLabels
<1> QED
  BY <1>0, <1>1, <1>2, <1>3, <1>4, <1>5, WriterStep

-----------------------------------------------------------------------------
(* The bucket's CORS rule.                                                 *)

\* A writer ends, its bucket as it should be or the rule given up.
LEMMA EndKeeps ==
  ASSUME OneWriter, WriterInv, TypeOK', NEW p \in Processes, Writing(p), Finish(p),
         proc[p].pc \notin Saving \cup {"idle", "insert", "invalidate"},
         UNCHANGED <<account, files, newest, counted>>,
         cached' = cached \/ cached' = NoDriver,
         Live /\ allowed' => "app" \in rules'[account.settings]
  PROVE  WriterInv'
<1>1. account.state # "none"
  BY RowIsThere
<1>2. Live => /\ account.settings = newest
              /\ counted => account.used = files
              /\ cached \in {NoDriver, account.settings}
  BY Settled DEF At, Saving
<1> QED
  BY <1>1, <1>2, IdleFits, WriterStep DEF Finish, Live

LEMMA InvalidateKeeps ==
  ASSUME OneWriter, WriterInv, TypeOK', NEW r \in Requests, InvalidateCache(r)
  PROVE  WriterInv'
<1>0. r \in Processes /\ proc[r] \in Process
  BY DEF Processes, WriterInv, TypeOK
<1>1. /\ proc[r].pc = "invalidate" /\ proc[r].op \in {"update", "destroy"}
      /\ cached' = NoDriver
      /\ UNCHANGED <<account, files, newest, counted, rules, allowed>>
  BY <1>0 DEF InvalidateCache, At, WriterInv, ProcessInv, Belongs
<1>2. Writing(r) /\ account.state # "none"
  BY <1>0, <1>1, RowIsThere DEF Writing
<1>3. Live => /\ account.settings = newest
              /\ counted => account.used = files
              /\ allowed => \/ "app" \in rules[account.settings]
                            \/ proc[r].op = "update"
                            \/ \E x \in Processes \ {r} : proc[x].op = "store"
  BY <1>0, <1>1, <1>2, Settled DEF At, Saving, Updated
<1>4. CASE proc[r].op = "update" /\ GoesTo(r, "corsDriver")
  <2> DEFINE q == [proc[r] EXCEPT !.pc = "corsDriver"]
  <2>1. q.pc = "corsDriver" /\ q.op = "update" /\ q.snap = proc[r].snap
    BY <1>0, <1>4, GoesFits
  <2>2. Becomes(r, q)
    BY <1>4 DEF GoesTo
  <2> HIDE DEF q
  <2>3. Belongs(q) /\ Updated(q)
    BY <2>1 DEF Belongs, Updated, CorsLabels
  <2>4. Live /\ proc[r].snap.settings = account.settings
    BY <1>0, <1>1, <1>4 DEF WriterInv, ProcessInv, Holds, Live
  <2>5. Holds(q, account', newest', files', counted')
    BY <1>1, <2>1, <2>4 DEF Holds, Carrying, CorsLabels, Live
  <2> QED
    BY <1>0, <1>1, <1>2, <1>3, <2>1, <2>2, <2>3, <2>4, <2>5, WriterStep
<1>5. CASE proc[r].op # "update" /\ Finish(r)
  BY <1>0, <1>1, <1>2, <1>3, <1>5, IdleFits, WriterStep DEF Finish, Live
<1> QED
  BY <1>1, <1>4, <1>5 DEF InvalidateCache

LEMMA ReloadKeeps ==
  ASSUME OneWriter, WriterInv, TypeOK', NEW r \in Requests, Reload(r)
  PROVE  WriterInv'
<1>0. r \in Processes /\ proc[r] \in Process
  BY DEF Processes, WriterInv, TypeOK
<1>1. /\ proc[r].pc = "reload" /\ Writing(r) /\ account.state # "none"
      /\ UNCHANGED <<account, files, newest, counted, cached, rules>>
  BY <1>0, RowIsThere DEF Reload, At, Writing
<1>2. CASE /\ Live /\ UNCHANGED allowed
           /\ Becomes(r, [proc[r] EXCEPT !.snap = account, !.pc = "corsDriver"])
  <2> DEFINE q == [proc[r] EXCEPT !.snap = account, !.pc = "corsDriver"]
  <2>1. q.pc = "corsDriver" /\ q.op = proc[r].op /\ q.snap = account
    BY <1>0 DEF Process
  <2>2. Becomes(r, q)
    BY <1>2
  <2> HIDE DEF q
  <2>3. Belongs(q)
    BY <1>0, <1>1, <2>1 DEF WriterInv, ProcessInv, Belongs, CorsLabels
  <2>4. Holds(q, account, newest, files, counted)
    BY <1>2, <2>1 DEF Holds, Carrying, CorsLabels, Live
  <2>5. Updated(proc[r]) => Updated(q)
    BY <2>1 DEF Updated
  <2> QED
    BY <1>0, <1>1, <1>2, <2>1, <2>2, <2>3, <2>4, <2>5, LightStep DEF Saving
<1>3. CASE GivesUp(r)
  BY <1>0, <1>1, <1>3, EndKeeps DEF GivesUp, Saving
<1> QED
  BY <1>2, <1>3 DEF Reload

\* The driver that is taken is one of the current settings.
LEMMA DriverKeeps ==
  ASSUME OneWriter, WriterInv, TypeOK', NEW r \in Requests, DriverForAccount(r)
  PROVE  WriterInv'
<1>0. r \in Processes /\ proc[r] \in Process
  BY DEF Processes, WriterInv, TypeOK
<1>1. /\ proc[r].pc = "corsDriver" /\ Writing(r) /\ account.state # "none"
      /\ UNCHANGED <<account, files, newest, counted, rules>>
  BY <1>0, RowIsThere DEF DriverForAccount, At, Writing
<1>2. Live /\ proc[r].snap.settings = account.settings
  BY <1>0, <1>1 DEF WriterInv, ProcessInv, Holds, CorsLabels, Live
<1>3. /\ account.settings = newest
      /\ counted => account.used = files
      /\ cached \in {NoDriver, account.settings}
      /\ allowed => \/ "app" \in rules[account.settings]
                    \/ proc[r].op = "store" \/ Updated(proc[r])
                    \/ \E x \in Processes \ {r} : proc[x].op = "store"
  BY <1>0, <1>1, <1>2, Settled DEF At, Saving
<1>4. CASE \E v \in IF cached = NoDriver THEN {proc[r].snap.settings} ELSE {cached} :
             /\ cached' = v
             /\ Becomes(r, [proc[r] EXCEPT !.driver = v, !.pc = "getCors"])
             /\ UNCHANGED allowed
  <2> DEFINE q == [proc[r] EXCEPT !.driver = account.settings, !.pc = "getCors"]
  <2>1. /\ q.pc = "getCors" /\ q.op = proc[r].op /\ q.snap = proc[r].snap
        /\ q.driver = account.settings
    BY <1>0 DEF Process
  <2>2. Becomes(r, q) /\ cached' = account.settings /\ UNCHANGED allowed
    BY <1>2, <1>3, <1>4
  <2> HIDE DEF q
  <2>3. Belongs(q) /\ (Updated(proc[r]) => Updated(q))
    BY <1>0, <1>1, <2>1 DEF WriterInv, ProcessInv, Belongs, CorsLabels, Updated
  <2>4. Holds(q, account', newest', files', counted')
    BY <1>1, <1>2, <2>1 DEF Holds, Carrying, CorsLabels, Live
  <2> QED
    BY <1>0, <1>1, <1>2, <1>3, <2>1, <2>2, <2>3, <2>4, WriterStep
<1>5. CASE GivesUp(r) /\ UNCHANGED cached
  BY <1>0, <1>1, <1>5, EndKeeps DEF GivesUp, Saving
<1> QED
  BY <1>4, <1>5 DEF DriverForAccount

LEMMA GetCorsKeeps ==
  ASSUME OneWriter, WriterInv, TypeOK', NEW r \in Requests, GetBucketCors(r)
  PROVE  WriterInv'
<1>0. r \in Processes /\ proc[r] \in Process
  BY DEF Processes, WriterInv, TypeOK
<1>1. /\ proc[r].pc = "getCors" /\ Writing(r) /\ account.state # "none"
      /\ UNCHANGED <<account, files, newest, counted, cached, rules>>
  BY <1>0, RowIsThere DEF GetBucketCors, At, Writing
<1>2. /\ Live /\ proc[r].snap.settings = account.settings
      /\ proc[r].driver = account.settings
  BY <1>0, <1>1 DEF WriterInv, ProcessInv, Holds, CorsLabels, Live
<1>3. CASE "app" \in rules[proc[r].driver] /\ Finish(r)
  BY <1>0, <1>1, <1>2, <1>3, EndKeeps DEF Saving
<1>4. CASE /\ UNCHANGED allowed
           /\ Becomes(r, [proc[r] EXCEPT !.existing = rules[proc[r].driver], !.pc = "putCors"])
  <2> DEFINE q == [proc[r] EXCEPT !.existing = rules[proc[r].driver], !.pc = "putCors"]
  <2>1. /\ q.pc = "putCors" /\ q.op = proc[r].op /\ q.snap = proc[r].snap
        /\ q.driver = proc[r].driver
    BY <1>0 DEF Process
  <2>2. Becomes(r, q)
    BY <1>4
  <2> HIDE DEF q
  <2>3. Belongs(q) /\ (Updated(proc[r]) => Updated(q))
    BY <1>0, <1>1, <2>1 DEF WriterInv, ProcessInv, Belongs, CorsLabels, Updated
  <2>4. Holds(q, account, newest, files, counted)
    BY <1>2, <2>1 DEF Holds, Carrying, CorsLabels, Live
  <2> QED
    BY <1>0, <1>1, <1>4, <2>1, <2>2, <2>3, <2>4, LightStep DEF Saving
<1>5. CASE GivesUp(r)
  BY <1>0, <1>1, <1>5, EndKeeps DEF GivesUp, Saving
<1> QED
  BY <1>3, <1>4, <1>5 DEF GetBucketCors

LEMMA PutCorsKeeps ==
  ASSUME OneWriter, WriterInv, TypeOK', NEW r \in Requests, PutBucketCors(r)
  PROVE  WriterInv'
<1>0. r \in Processes /\ proc[r] \in Process
  BY DEF Processes, WriterInv, TypeOK
<1>1. /\ proc[r].pc = "putCors" /\ Writing(r) /\ account.state # "none"
      /\ UNCHANGED <<account, files, newest, counted, cached>> /\ Finish(r)
  BY <1>0, RowIsThere DEF PutBucketCors, At, Writing, GivesUp
<1>2. proc[r].driver = account.settings /\ account.settings \in DOMAIN rules
  BY <1>0, <1>1 DEF WriterInv, ProcessInv, Holds, CorsLabels, TypeOK, Account
<1>3. allowed' => "app" \in rules'[account.settings]
  BY <1>2 DEF PutBucketCors, GivesUp, MergeCorsRules
<1> QED
  BY <1>0, <1>1, <1>3, EndKeeps DEF Saving

-----------------------------------------------------------------------------
(* The dispatch and the job.                                               *)

SyncLabels == {"markSyncing", "dispatch", "markError", "getDriver", "list", "sum",
               "saveScan", "release"}

\* No update and no deletion comes to a step of the sync.
LEMMA SyncOps ==
  ASSUME WriterInv, NEW p \in Processes, proc[p].pc \in SyncLabels
  PROVE  proc[p].op \notin {"none", "update", "destroy"} /\ ~Updated(proc[p])
BY DEF WriterInv, ProcessInv, Belongs, SyncLabels, CorsLabels, Updated

\* The status is a column that nothing here depends on.
LEMMA StatusAlone ==
  ASSUME WriterInv, NEW s, SetStatus(s)
  PROVE  /\ account'.state = account.state /\ account'.settings = account.settings
         /\ account'.used = account.used
BY DEF SetStatus, WriterInv, TypeOK, Account

\* The end of a sync, or of a step of it, where nothing is held.
LEMMA AfterSyncKeeps ==
  ASSUME OneWriter, WriterInv, TypeOK', NEW p \in Processes, AfterSync(p),
         proc[p].pc \in {"dispatch", "markError", "release"},
         account'.state = account.state, account'.settings = account.settings,
         account'.used = account.used,
         UNCHANGED <<files, newest, counted, cached, rules, allowed>>
  PROVE  WriterInv'
<1>1. proc[p].op \notin {"none", "update", "destroy"} /\ ~Updated(proc[p])
  BY SyncOps DEF SyncLabels
<1>2. proc[p].pc \notin Saving \cup {"idle", "insert", "invalidate"}
  BY DEF Saving
<1>3. CASE proc[p].op = "store" /\ GoesTo(p, "reload")
  BY <1>1, <1>2, <1>3, GoesLight
<1>4. CASE proc[p].op # "store" /\ Finish(p)
  BY <1>1, <1>2, <1>4, FinishLight
<1> QED
  BY <1>3, <1>4 DEF AfterSync

LEMMA DispatchKeeps ==
  ASSUME OneWriter, WriterInv, TypeOK', NEW r \in Requests,
         MarkSyncing(r) \/ Dispatch(r) \/ MarkError(r)
  PROVE  WriterInv'
<1>0. r \in Processes
  BY DEF Processes
<1>1. /\ proc[r].pc \in {"markSyncing", "dispatch", "markError"}
      /\ UNCHANGED <<files, newest, counted, cached, rules, allowed>>
  BY DEF MarkSyncing, Dispatch, MarkError, At, bucketVars
<1>2. /\ account'.state = account.state /\ account'.settings = account.settings
      /\ account'.used = account.used
  <2>1. CASE Dispatch(r)
    BY <2>1 DEF Dispatch
  <2>2. CASE MarkSyncing(r)
    BY <2>2, StatusAlone DEF MarkSyncing
  <2>3. CASE MarkError(r)
    BY <2>3, StatusAlone DEF MarkError
  <2> QED
    BY <2>1, <2>2, <2>3
<1>3. CASE AfterSync(r) /\ ~At(r, "markSyncing")
  BY <1>0, <1>1, <1>2, <1>3, AfterSyncKeeps DEF At
<1>4. ASSUME NEW l \in {"dispatch", "getDriver", "markError"}, GoesTo(r, l)
      PROVE  WriterInv'
  BY <1>0, <1>1, <1>2, <1>4, SyncOps, GoesLight DEF SyncLabels, Saving
<1>5. (AfterSync(r) /\ ~At(r, "markSyncing")) \/ \E l \in {"dispatch", "getDriver", "markError"} : GoesTo(r, l)
  BY DEF MarkSyncing, Dispatch, MarkError, At
<1> QED
  BY <1>3, <1>4, <1>5

LEMMA TakeJobKeeps ==
  ASSUME OneWriter, WriterInv, TypeOK', NEW w \in Workers, TakeJob(w)
  PROVE  WriterInv'
<1>0. w \in Processes
  BY DEF Processes
<1> DEFINE q == [Idle EXCEPT !.op = "scan", !.pc = "getDriver"]
<1>1. q.op = "scan" /\ q.pc = "getDriver"
  BY DEF Idle
<1>2. /\ proc[w].pc = "idle" /\ jobs > 0 /\ Becomes(w, q)
      /\ UNCHANGED <<account, files, newest, counted, cached, rules, allowed>>
  BY DEF TakeJob, At, bucketVars
<1> HIDE DEF q
<1>3. account.state # "none"
  BY <1>2 DEF WriterInv, BeginInv
<1>4. proc[w].op = "none"
  BY <1>0, <1>2 DEF WriterInv, ProcessInv, Belongs
<1>5. Belongs(q) /\ Holds(q, account, newest, files, counted)
  BY <1>1 DEF Belongs, Holds, Carrying, CorsLabels
<1> QED
  BY <1>0, <1>1, <1>2, <1>3, <1>4, <1>5, LightStep DEF Saving, Updated

LEMMA GetDriverKeeps ==
  ASSUME OneWriter, WriterInv, TypeOK', NEW p \in Processes, GetDriver(p)
  PROVE  WriterInv'
<1>0. proc[p] \in Process
  BY DEF WriterInv, TypeOK
<1>1. /\ proc[p].pc = "getDriver" /\ account.state # "none"
      /\ UNCHANGED <<account, files, newest, counted, cached, rules, allowed>>
  BY RowIsThere DEF GetDriver, At, bucketVars
<1>2. proc[p].op \notin {"none", "update", "destroy"} /\ ~Updated(proc[p])
  BY <1>1, SyncOps DEF SyncLabels
<1>3. CASE Live /\ Becomes(p, [proc[p] EXCEPT !.snap = account, !.pc = "list"])
  <2> DEFINE q == [proc[p] EXCEPT !.snap = account, !.pc = "list"]
  <2>1. q.pc = "list" /\ q.op = proc[p].op /\ q.snap = account
    BY <1>0 DEF Process
  <2>2. Becomes(p, q)
    BY <1>3
  <2> HIDE DEF q
  <2>3. Belongs(q)
    BY <1>2, <2>1 DEF Belongs
  <2>4. Holds(q, account, newest, files, counted)
    BY <1>3, <2>1 DEF Holds, Carrying, CorsLabels, Live
  <2> QED
    BY <1>1, <1>2, <2>1, <2>2, <2>3, <2>4, LightStep DEF Saving
<1>4. CASE Fails(p)
  <2> DEFINE q == [proc[p] EXCEPT !.failed = TRUE, !.pc = "release"]
  <2>1. q.pc = "release" /\ q.op = proc[p].op
    BY <1>0 DEF Process
  <2>2. Becomes(p, q)
    BY <1>4 DEF Fails
  <2> HIDE DEF q
  <2>3. Belongs(q) /\ Holds(q, account, newest, files, counted)
    BY <1>2, <2>1 DEF Belongs, Holds, Carrying, CorsLabels
  <2> QED
    BY <1>1, <1>2, <2>1, <2>2, <2>3, LightStep DEF Saving
<1> QED
  BY <1>3, <1>4 DEF GetDriver

\* What is true of the row while the job that scans its bucket runs.
LEMMA JobSettled ==
  ASSUME WriterInv, NEW p \in Processes, proc[p].pc \in {"list", "sum", "saveScan"}
  PROVE  /\ Writing(p) /\ Live
         /\ proc[p].snap.state = "live" /\ proc[p].snap.settings = account.settings
         /\ account.settings = newest
         /\ counted /\ At(p, "list") => account.used = files
         /\ cached \in {NoDriver, account.settings}
         /\ allowed => \/ "app" \in rules[account.settings]
                       \/ proc[p].op = "store"
                       \/ \E x \in Processes \ {p} : proc[x].op = "store"
<1>1. Writing(p)
  BY DEF Writing
<1>2. Live /\ proc[p].snap.state = "live" /\ proc[p].snap.settings = account.settings
  BY DEF WriterInv, ProcessInv, Holds, Carrying, Live
<1>3. ~Updated(proc[p])
  BY SyncOps DEF SyncLabels
<1> QED
  BY <1>1, <1>2, <1>3, Settled DEF At, Saving

LEMMA ListKeeps ==
  ASSUME OneWriter, WriterInv, TypeOK', NEW p \in Processes, ListBucket(p)
  PROVE  WriterInv'
<1>0. proc[p] \in Process
  BY DEF WriterInv, TypeOK
<1>1. /\ proc[p].pc = "list"
      /\ UNCHANGED <<account, newest, cached, rules, allowed>>
  BY DEF ListBucket, At, bucketVars
<1>2. proc[p].op \notin {"none", "update", "destroy"} /\ account.state # "none"
  BY <1>1, SyncOps, RowIsThere DEF SyncLabels
<1>3. /\ Writing(p) /\ Live
      /\ proc[p].snap.state = "live" /\ proc[p].snap.settings = account.settings
      /\ account.settings = newest
      /\ counted => account.used = files
      /\ cached \in {NoDriver, account.settings}
      /\ allowed => \/ "app" \in rules[account.settings]
                    \/ proc[p].op = "store"
                    \/ \E x \in Processes \ {p} : proc[x].op = "store"
  BY <1>1, JobSettled DEF At
<1>4. PICK n \in {0, 1} :
        /\ files' = files + n
        /\ \/ GoesTo(p, "sum") /\ UNCHANGED counted
           \/ Fails(p) /\ counted' = (counted /\ n = 0)
  BY DEF ListBucket
<1>5. CASE GoesTo(p, "sum")
  <2> DEFINE q == [proc[p] EXCEPT !.pc = "sum"]
  <2>1. q.pc = "sum" /\ q.op = proc[p].op /\ q.snap = proc[p].snap
    BY <1>0, GoesFits
  <2>2. Becomes(p, q)
    BY <1>5 DEF GoesTo
  <2> HIDE DEF q
  <2>3. Belongs(q)
    BY <1>2, <2>1 DEF Belongs
  <2>4. Holds(q, account', newest', files', counted')
    BY <1>1, <1>3, <2>1 DEF Holds, Carrying, CorsLabels, Live
  <2> QED
    BY <1>1, <1>2, <1>3, <2>1, <2>2, <2>3, <2>4, WriterStep DEF Saving
<1>6. CASE Fails(p) /\ counted' = (counted /\ n = 0)
  <2> DEFINE q == [proc[p] EXCEPT !.failed = TRUE, !.pc = "release"]
  <2>1. q.pc = "release" /\ q.op = proc[p].op
    BY <1>0 DEF Process
  <2>2. Becomes(p, q)
    BY <1>6 DEF Fails
  <2> HIDE DEF q
  <2>3. Belongs(q) /\ Holds(q, account', newest', files', counted')
    BY <1>2, <2>1 DEF Belongs, Holds, Carrying, CorsLabels
  <2>4. counted' => account'.used = files'
    <3>1. counted' => counted /\ n = 0
      BY <1>6, Zenon
    <3>2. n = 0 => files' = files
      BY <1>4 DEF WriterInv, TypeOK
    <3> QED
      BY <1>1, <1>3, <3>1, <3>2, Zenon
  <2> QED
    BY <1>1, <1>2, <1>3, <2>1, <2>2, <2>3, <2>4, WriterStep
<1> QED
  BY <1>4, <1>5, <1>6

LEMMA SumKeeps ==
  ASSUME OneWriter, WriterInv, TypeOK', NEW p \in Processes, SumFiles(p)
  PROVE  WriterInv'
<1>0. proc[p] \in Process
  BY DEF WriterInv, TypeOK
<1>1. /\ proc[p].pc = "sum"
      /\ UNCHANGED <<account, files, newest, counted, cached, rules, allowed>>
  BY DEF SumFiles, At, bucketVars
<1>2. proc[p].op \notin {"none", "update", "destroy"} /\ account.state # "none"
  BY <1>1, SyncOps, RowIsThere DEF SyncLabels
<1>3. /\ Writing(p) /\ Live
      /\ proc[p].snap.state = "live" /\ proc[p].snap.settings = account.settings
      /\ account.settings = newest
      /\ cached \in {NoDriver, account.settings}
      /\ allowed => \/ "app" \in rules[account.settings]
                    \/ proc[p].op = "store"
                    \/ \E x \in Processes \ {p} : proc[x].op = "store"
  BY <1>1, JobSettled
<1> DEFINE q == [proc[p] EXCEPT !.snap.used = files, !.pc = "saveScan"]
<1>4. /\ q.pc = "saveScan" /\ q.op = proc[p].op /\ q.snap.used = files
      /\ q.snap.state = proc[p].snap.state /\ q.snap.settings = proc[p].snap.settings
  BY <1>0 DEF Process, Account
<1>5. Becomes(p, q)
  BY DEF SumFiles
<1> HIDE DEF q
<1>6. Belongs(q)
  BY <1>2, <1>4 DEF Belongs
<1>7. Holds(q, account', newest', files', counted')
  BY <1>1, <1>3, <1>4 DEF Holds, Carrying, CorsLabels, Live
<1> QED
  BY <1>1, <1>2, <1>3, <1>4, <1>5, <1>6, <1>7, WriterStep DEF Saving

LEMMA SaveScanKeeps ==
  ASSUME OneWriter, WriterInv, TypeOK', NEW p \in Processes, SaveScan(p)
  PROVE  WriterInv'
<1>0. proc[p] \in Process
  BY DEF WriterInv, TypeOK
<1>1. /\ proc[p].pc = "saveScan" /\ account' = proc[p].snap
      /\ UNCHANGED <<files, newest, cached, rules, allowed>> /\ GoesTo(p, "release")
  BY DEF SaveScan, At, bucketVars
<1>2. proc[p].op \notin {"none", "update", "destroy"} /\ account.state # "none"
  BY <1>1, SyncOps, RowIsThere DEF SyncLabels
<1>3. /\ Writing(p) /\ account'.state = "live" /\ account'.settings = account.settings
      /\ account.settings = newest
      /\ cached \in {NoDriver, account.settings}
      /\ allowed => \/ "app" \in rules[account.settings]
                    \/ proc[p].op = "store"
                    \/ \E x \in Processes \ {p} : proc[x].op = "store"
  BY <1>1, JobSettled
<1>4. account'.used = files
  BY <1>1 DEF WriterInv, ProcessInv, Holds
<1> DEFINE q == [proc[p] EXCEPT !.pc = "release"]
<1>5. q.pc = "release" /\ q.op = proc[p].op
  BY <1>0, GoesFits
<1>6. Becomes(p, q)
  BY <1>1 DEF GoesTo
<1> HIDE DEF q
<1>7. Belongs(q) /\ Holds(q, account', newest', files', counted')
  BY <1>2, <1>5 DEF Belongs, Holds, Carrying, CorsLabels
<1> QED
  BY <1>1, <1>2, <1>3, <1>4, <1>5, <1>6, <1>7, WriterStep

LEMMA ReleaseKeeps ==
  ASSUME OneWriter, WriterInv, TypeOK', NEW p \in Processes, Release(p)
  PROVE  WriterInv'
<1>1. /\ proc[p].pc = "release"
      /\ UNCHANGED <<files, newest, counted, cached, rules, allowed>>
  BY DEF Release, At, bucketVars
<1>2. /\ account'.state = account.state /\ account'.settings = account.settings
      /\ account'.used = account.used
  BY StatusAlone DEF Release
<1>3. CASE GoesTo(p, "markError")
  BY <1>1, <1>2, <1>3, SyncOps, GoesLight DEF SyncLabels, Saving
<1>4. CASE AfterSync(p)
  BY <1>1, <1>2, <1>4, AfterSyncKeeps
<1> QED
  BY <1>3, <1>4 DEF Release

-----------------------------------------------------------------------------
(* The theorems.                                                           *)

LEMMA OtherAddsKeeps ==
  ASSUME WriterInv, NEW v \in DOMAIN rules, OtherAddsRule(v)
  PROVE  WriterInv'
<1>1. /\ TypeOK' /\ UNCHANGED <<account, jobs, files, newest, counted, cached, allowed>>
      /\ \A p \in Processes :
           /\ proc'[p].op = proc[p].op /\ proc'[p].pc = proc[p].pc
           /\ proc'[p].snap = proc[p].snap /\ proc'[p].driver = proc[p].driver
      /\ \A u \in DOMAIN rules : rules[u] \subseteq rules'[u]
      /\ account.settings \in DOMAIN rules
  <2>1. TypeOK
    BY DEF WriterInv
  <2>2. account.settings \in DOMAIN rules
    BY <2>1 DEF TypeOK, Account
  <2> QED
    BY <2>1, <2>2, OtherAddsAlone
<1>2. AtMostOneWriter'
  BY <1>1 DEF WriterInv, AtMostOneWriter, Writing
<1>3. ProcessInv'
  BY <1>1 DEF WriterInv, ProcessInv, Belongs, Holds
<1>4. BeginInv'
  BY <1>1 DEF WriterInv, BeginInv, At
<1>5. RowInv'
  <2>1. \A p \in Processes : Updated(proc[p])' <=> Updated(proc[p])
    BY <1>1 DEF Updated
  <2> QED
    BY <1>1, <2>1 DEF WriterInv, RowInv, Live, At
<1> QED
  BY <1>1, <1>2, <1>3, <1>4, <1>5 DEF WriterInv

LEMMA NextKeeps ==
  ASSUME OneWriter, WriterInv, [Next]_vars
  PROVE  WriterInv'
<1>0. TypeOK'
  BY NextTypeOK DEF WriterInv
<1>1. CASE UNCHANGED vars
  <2>1. UNCHANGED <<account, jobs, files, newest, counted, cached, rules, allowed, proc>>
    BY <1>1 DEF vars
  <2>2. AtMostOneWriter'
    BY <2>1 DEF WriterInv, AtMostOneWriter, Writing
  <2>3. ProcessInv'
    BY <2>1 DEF WriterInv, ProcessInv
  <2>4. BeginInv'
    BY <2>1 DEF WriterInv, BeginInv, At
  <2>5. RowInv'
    BY <2>1 DEF WriterInv, RowInv, Live, At
  <2> QED
    BY <1>0, <2>2, <2>3, <2>4, <2>5 DEF WriterInv
<1>2. CASE Crash
  BY <1>0, <1>2, CrashKeeps
<1>3. ASSUME NEW r \in Requests, Start(r) PROVE WriterInv'
  BY <1>0, <1>3, StartKeeps
<1>4. ASSUME NEW r \in Requests, Advance(r) PROVE WriterInv'
  <2>1. CASE Insert(r) \/ ReadAccount(r) \/ AddFile(r) \/ RemoveFile(r) \/ Save(r) \/ SoftDelete(r)
    BY <1>0, <2>1, InsertKeeps, ReadKeeps, FileKeeps, SaveKeeps, DeleteKeeps
  <2>2. CASE MarkSyncing(r) \/ Dispatch(r) \/ MarkError(r)
    BY <1>0, <2>2, DispatchKeeps
  <2>3. CASE \/ InvalidateCache(r) \/ Reload(r) \/ DriverForAccount(r)
             \/ GetBucketCors(r) \/ PutBucketCors(r)
    BY <1>0, <2>3, InvalidateKeeps, ReloadKeeps, DriverKeeps, GetCorsKeeps, PutCorsKeeps
  <2> QED
    BY <1>4, <2>1, <2>2, <2>3 DEF Advance
<1>5. ASSUME NEW w \in Workers, TakeJob(w) PROVE WriterInv'
  BY <1>0, <1>5, TakeJobKeeps
<1>6. ASSUME NEW p \in Processes, RunJob(p) PROVE WriterInv'
  BY <1>0, <1>6, GetDriverKeeps, ListKeeps, SumKeeps, SaveScanKeeps, ReleaseKeeps DEF RunJob
<1>7. ASSUME NEW v \in DOMAIN rules, OtherAddsRule(v) PROVE WriterInv'
  BY <1>7, OtherAddsKeeps
<1> QED
  BY <1>1, <1>2, <1>3, <1>4, <1>5, <1>6, <1>7 DEF Next

LEMMA WriterAlways == OneWriter => (Spec => []WriterInv)
<1> SUFFICES ASSUME OneWriter PROVE Spec => []WriterInv
  OBVIOUS
<1>1. WriterInv /\ [Next]_vars => WriterInv'
  BY NextKeeps
<1> QED
  BY <1>1, InitWriter, PTL DEF Spec

\* When nobody is at work no exception of RowInv applies.
LEMMA AtRest ==
  ASSUME WriterInv, Live, Quiet
  PROVE  /\ account.settings = newest
         /\ counted => account.used = files
         /\ cached \in {NoDriver, account.settings}
         /\ allowed => "app" \in rules[account.settings]
<1>1. \A p \in Processes : proc[p].pc = "idle" /\ proc[p].op = "none"
  BY DEF Quiet, At, WriterInv, ProcessInv, Belongs
<1> QED
  BY <1>1 DEF WriterInv, RowInv, At, Saving, Updated

\* Where what reads the row and writes it back runs alone, no Save brings an
\* older version of the settings back.
THEOREM SettingsStay == OneWriter => (Spec => []SettingsKept)
<1>1. WriterInv => SettingsKept
  BY AtRest DEF SettingsKept
<1> QED
  BY <1>1, WriterAlways, PTL

\* Where what reads the row and writes it back runs alone, used_storage comes to
\* the sum of the files, uploads, deletions and scans taken together.
THEOREM UsedAddsUp == OneWriter => (Spec => []UsedIsSum)
<1>1. WriterInv => UsedIsSum
  BY AtRest DEF UsedIsSum
<1> QED
  BY <1>1, WriterAlways, PTL

\* Where updates run alone, the controller's cached driver is the one of the
\* settings in the row.
THEOREM DriverCurrent == OneWriter => (Spec => []OwnDriverCurrent)
<1>1. WriterInv => OwnDriverCurrent
  BY AtRest DEF OwnDriverCurrent
<1> QED
  BY <1>1, WriterAlways, PTL

\* Where updates run alone, the CORS rule comes to stand on the bucket of the
\* latest settings, not on one that has been replaced.
THEOREM BucketReadable == OneWriter => (Spec => []FrontendAllowed)
<1>1. WriterInv => FrontendAllowed
  BY AtRest DEF FrontendAllowed
<1> QED
  BY <1>1, WriterAlways, PTL

\* A process at work on the row that can write all of it found it live.
LEMMA TrashedStays ==
  ASSUME WriterInv, [Next]_vars, account.state = "trashed"
  PROVE  account'.state = "trashed"
<1>1. \A p \in Processes : proc[p].pc \notin Carrying \cup {"insert"}
  BY DEF WriterInv, ProcessInv, Holds, BeginInv, At
<1>2. CASE UNCHANGED vars \/ Crash
  BY <1>2 DEF vars, Crash
<1>3. ASSUME NEW r \in Requests, Start(r) PROVE account' = account
  BY <1>3 DEF Start, StartStore, StartRequest
<1>4. ASSUME NEW r \in Requests, Advance(r) PROVE account'.state = "trashed"
  <2>1. r \in Processes
    BY DEF Processes
  <2>2. ~Insert(r) /\ ~Save(r)
    BY <1>1, <2>1 DEF Insert, Save, At, Carrying
  <2>3. CASE SoftDelete(r) \/ MarkSyncing(r) \/ MarkError(r)
    BY <2>3 DEF SoftDelete, MarkSyncing, MarkError, SetStatus, Live, WriterInv, TypeOK, Account
  <2>4. CASE \/ ReadAccount(r) \/ AddFile(r) \/ RemoveFile(r) \/ Dispatch(r)
             \/ InvalidateCache(r) \/ Reload(r) \/ DriverForAccount(r)
             \/ GetBucketCors(r) \/ PutBucketCors(r)
    BY <2>4 DEF ReadAccount, AddFile, RemoveFile, Dispatch, InvalidateCache, Reload,
                DriverForAccount, GetBucketCors, PutBucketCors
  <2> QED
    BY <1>4, <2>2, <2>3, <2>4 DEF Advance
<1>5. ASSUME NEW w \in Workers, TakeJob(w) PROVE account' = account
  BY <1>5 DEF TakeJob
<1>6. ASSUME NEW p \in Processes, RunJob(p) PROVE account'.state = "trashed"
  <2>1. ~SaveScan(p)
    BY <1>1 DEF SaveScan, At, Carrying
  <2> QED
    BY <1>6, <2>1 DEF RunJob, GetDriver, ListBucket, SumFiles, Release, SetStatus, Live
<1>7. ASSUME NEW v \in DOMAIN rules, OtherAddsRule(v) PROVE account' = account
  BY <1>7 DEF OtherAddsRule
<1> QED
  BY <1>2, <1>3, <1>4, <1>5, <1>6, <1>7 DEF Next

\* Where what reads the row and writes it back runs alone, no Save of a row read
\* before the account was disconnected connects it again.
THEOREM TrashedForGood == OneWriter => (Spec => DisconnectedStays)
<1> SUFFICES ASSUME OneWriter PROVE Spec => DisconnectedStays
  OBVIOUS
<1>1. WriterInv /\ [Next]_vars => [account.state = "trashed" => account'.state = "trashed"]_vars
  BY TrashedStays
<1>2. Spec => []WriterInv
  BY WriterAlways
<1> QED
  BY <1>1, <1>2, PTL DEF Spec, DisconnectedStays

-----------------------------------------------------------------------------
(* Every request and every job comes to its end.  No path through the        *)
(* handlers, the job that a dispatch runs inline included, passes a label     *)
(* twice: the labels can be numbered so that every statement goes down.       *)

StepsLeft(l) ==
  CASE l = "idle" -> 0
    [] l = "putCors" -> 1
    [] l = "getCors" -> 2
    [] l = "corsDriver" -> 3
    [] l \in {"reload", "invalidate"} -> 4
    [] l \in {"save", "delete", "markError"} -> 5
    [] l \in {"addFile", "removeFile", "release"} -> 6
    [] l = "saveScan" -> 7
    [] l = "sum" -> 8
    [] l = "list" -> 9
    [] l = "getDriver" -> 10
    [] l = "dispatch" -> 11
    [] l = "markSyncing" -> 12
    [] l \in {"insert", "read"} -> 13

Left(q) == StepsLeft(q.pc)

WorkBounded ==
  \A p \in Processes : Left(proc[p]) \in 0..13 /\ (Left(proc[p]) = 0 <=> At(p, "idle"))

\* Every statement of a process counts, and nobody else takes one back.
WorkRunsOut ==
  [][\A p \in Processes :
       /\ Advance(p) \/ RunJob(p) => Left(proc'[p]) < Left(proc[p])
       /\ ~At(p, "idle") => proc'[p].pc = proc[p].pc \/ Left(proc'[p]) < Left(proc[p])]_vars

LEMMA LeftBound ==
  ASSUME NEW q \in Process
  PROVE  Left(q) \in 0..13 /\ (Left(q) = 0 <=> q.pc = "idle")
<1>1. q.pc \in Labels
  BY DEF Process, Labels
<1>2. /\ StepsLeft("idle") = 0 /\ StepsLeft("putCors") = 1 /\ StepsLeft("getCors") = 2
      /\ StepsLeft("corsDriver") = 3 /\ StepsLeft("reload") = 4 /\ StepsLeft("invalidate") = 4
      /\ StepsLeft("save") = 5 /\ StepsLeft("delete") = 5 /\ StepsLeft("markError") = 5
      /\ StepsLeft("addFile") = 6 /\ StepsLeft("removeFile") = 6 /\ StepsLeft("release") = 6
  BY DEF StepsLeft
<1>3. /\ StepsLeft("saveScan") = 7 /\ StepsLeft("sum") = 8 /\ StepsLeft("list") = 9
      /\ StepsLeft("getDriver") = 10 /\ StepsLeft("dispatch") = 11
      /\ StepsLeft("markSyncing") = 12 /\ StepsLeft("insert") = 13 /\ StepsLeft("read") = 13
  BY DEF StepsLeft
<1>4. \A l \in Labels : StepsLeft(l) \in 0..13 /\ (StepsLeft(l) = 0 <=> l = "idle")
  BY <1>2, <1>3 DEF Labels
<1> QED
  BY <1>1, <1>4 DEF Left

\* A process that becomes q, from a label above that of q.
Sinks(p) == \E q : Becomes(p, q) /\ Left(q) < Left(proc[p])

LEMMA FinishSinks ==
  ASSUME TypeOK, NEW p \in Processes, Finish(p), ~At(p, "idle")
  PROVE  Sinks(p)
<1>1. Left(Idle) = 0 /\ proc[p] \in Process /\ proc[p].pc # "idle"
  BY DEF Left, StepsLeft, Idle, TypeOK, At
<1>2. Left(proc[p]) \in Nat /\ Left(proc[p]) # 0
  BY <1>1, LeftBound
<1>3. Left(Idle) < Left(proc[p])
  BY <1>1, <1>2
<1> QED
  BY <1>3 DEF Finish, Sinks

LEMMA GoesSinks ==
  ASSUME TypeOK, NEW p \in Processes, NEW l, GoesTo(p, l), StepsLeft(l) < StepsLeft(proc[p].pc)
  PROVE  Sinks(p)
<1> DEFINE q == [proc[p] EXCEPT !.pc = l]
<1>1. q.pc = l /\ Becomes(p, q)
  BY DEF GoesTo, TypeOK, Process
<1> HIDE DEF q
<1> QED
  BY <1>1 DEF Sinks, Left

LEMMA AfterSyncSinks ==
  ASSUME TypeOK, NEW p \in Processes, AfterSync(p), proc[p].pc \in {"dispatch", "markError", "release"}
  PROVE  Sinks(p)
<1>1. StepsLeft("reload") < StepsLeft(proc[p].pc)
  BY DEF StepsLeft
<1> QED
  BY <1>1, GoesSinks, FinishSinks DEF AfterSync, At

\* The statements of a request, apart from the CORS rule.
LEMMA RequestSinks ==
  ASSUME TypeOK, NEW r \in Processes,
         \/ Insert(r) \/ ReadAccount(r) \/ AddFile(r) \/ RemoveFile(r) \/ Save(r)
         \/ SoftDelete(r) \/ MarkSyncing(r) \/ Dispatch(r) \/ MarkError(r)
  PROVE  Sinks(r)
<1>0. proc[r] \in Process
  BY DEF TypeOK
<1>1. CASE Insert(r)
  BY <1>1, GoesSinks DEF Insert, At, StepsLeft
<1>2. CASE ReadAccount(r)
  <2> DEFINE q(a) == [proc[r] EXCEPT !.snap = a, !.pc = AfterRead(r)]
  <2>1. Finish(r) \/ \E a : Becomes(r, q(a))
    BY <1>2 DEF ReadAccount
  <2>2. proc[r].pc = "read" /\ ~At(r, "idle")
    BY <1>2 DEF ReadAccount, At
  <2>3. AfterRead(r) \in {"markSyncing", "save", "delete", "corsDriver", "addFile", "removeFile"}
    BY DEF AfterRead
  <2>4. \A a : q(a).pc = AfterRead(r)
    BY <1>0 DEF Process
  <2> HIDE DEF q
  <2>5. \A a : Left(q(a)) < Left(proc[r])
    BY <2>2, <2>3, <2>4 DEF Left, StepsLeft
  <2> QED
    BY <2>1, <2>2, <2>5, FinishSinks DEF Sinks
<1>3. ASSUME NEW u, Becomes(r, [proc[r] EXCEPT !.snap.used = u, !.pc = "save"]),
             proc[r].pc \in {"addFile", "removeFile"}
      PROVE  Sinks(r)
  <2> DEFINE q == [proc[r] EXCEPT !.snap.used = u, !.pc = "save"]
  <2>1. q.pc = "save" /\ Becomes(r, q)
    BY <1>0, <1>3 DEF Process
  <2> HIDE DEF q
  <2> QED
    BY <1>3, <2>1 DEF Sinks, Left, StepsLeft
<1>4. CASE AddFile(r) \/ RemoveFile(r)
  BY <1>3, <1>4, FinishSinks DEF AddFile, RemoveFile, At
<1>5. CASE Save(r)
  BY <1>5, GoesSinks, FinishSinks DEF Save, AfterSave, At, StepsLeft
<1>6. CASE SoftDelete(r)
  BY <1>6, GoesSinks DEF SoftDelete, At, StepsLeft
<1>7. CASE MarkSyncing(r)
  BY <1>7, GoesSinks DEF MarkSyncing, At, StepsLeft
<1>8. CASE Dispatch(r)
  <2>1. GoesTo(r, "getDriver") \/ GoesTo(r, "markError") \/ AfterSync(r)
    BY <1>8 DEF Dispatch
  <2>2. proc[r].pc = "dispatch"
    BY <1>8 DEF Dispatch, At
  <2>3. /\ StepsLeft("getDriver") < StepsLeft("dispatch")
        /\ StepsLeft("markError") < StepsLeft("dispatch")
    BY DEF StepsLeft
  <2> QED
    BY <2>1, <2>2, <2>3, GoesSinks, AfterSyncSinks
<1>9. CASE MarkError(r)
  BY <1>9, AfterSyncSinks DEF MarkError, At
<1> QED
  BY <1>1, <1>2, <1>4, <1>5, <1>6, <1>7, <1>8, <1>9

LEMMA CorsSinks ==
  ASSUME TypeOK, NEW r \in Processes,
         \/ InvalidateCache(r) \/ Reload(r) \/ DriverForAccount(r)
         \/ GetBucketCors(r) \/ PutBucketCors(r)
  PROVE  Sinks(r)
<1>0. proc[r] \in Process
  BY DEF TypeOK
<1>1. CASE InvalidateCache(r)
  BY <1>1, GoesSinks, FinishSinks DEF InvalidateCache, At, StepsLeft
<1>2. CASE Reload(r)
  <2> DEFINE q == [proc[r] EXCEPT !.snap = account, !.pc = "corsDriver"]
  <2>1. q.pc = "corsDriver" /\ proc[r].pc = "reload" /\ (Becomes(r, q) \/ Finish(r))
    BY <1>0, <1>2 DEF Reload, GivesUp, At, Process
  <2> HIDE DEF q
  <2>2. Left(q) < Left(proc[r])
    BY <2>1 DEF Left, StepsLeft
  <2> QED
    BY <2>1, <2>2, FinishSinks DEF Sinks, At
<1>3. CASE DriverForAccount(r)
  <2> DEFINE q(v) == [proc[r] EXCEPT !.driver = v, !.pc = "getCors"]
  <2>1. /\ \A v : q(v).pc = "getCors"
        /\ proc[r].pc = "corsDriver" /\ (Finish(r) \/ \E v : Becomes(r, q(v)))
    BY <1>0, <1>3 DEF DriverForAccount, GivesUp, At, Process
  <2> HIDE DEF q
  <2>2. \A v : Left(q(v)) < Left(proc[r])
    BY <2>1 DEF Left, StepsLeft
  <2> QED
    BY <2>1, <2>2, FinishSinks DEF Sinks, At
<1>4. CASE GetBucketCors(r)
  <2> DEFINE q == [proc[r] EXCEPT !.existing = rules[proc[r].driver], !.pc = "putCors"]
  <2>1. q.pc = "putCors" /\ proc[r].pc = "getCors" /\ (Becomes(r, q) \/ Finish(r))
    BY <1>0, <1>4 DEF GetBucketCors, GivesUp, At, Process
  <2> HIDE DEF q
  <2>2. Left(q) < Left(proc[r])
    BY <2>1 DEF Left, StepsLeft
  <2> QED
    BY <2>1, <2>2, FinishSinks DEF Sinks, At
<1>5. CASE PutBucketCors(r)
  BY <1>5, FinishSinks DEF PutBucketCors, GivesUp, At
<1> QED
  BY <1>1, <1>2, <1>3, <1>4, <1>5

LEMMA JobSinks ==
  ASSUME TypeOK, NEW p \in Processes, RunJob(p)
  PROVE  Sinks(p)
<1>0. proc[p] \in Process
  BY DEF TypeOK
<1>1. ASSUME Fails(p), proc[p].pc \in {"getDriver", "list"} PROVE Sinks(p)
  <2> DEFINE q == [proc[p] EXCEPT !.failed = TRUE, !.pc = "release"]
  <2>1. q.pc = "release" /\ Becomes(p, q)
    BY <1>0, <1>1 DEF Fails, Process
  <2> HIDE DEF q
  <2> QED
    BY <1>1, <2>1 DEF Sinks, Left, StepsLeft
<1>2. CASE GetDriver(p)
  <2> DEFINE q == [proc[p] EXCEPT !.snap = account, !.pc = "list"]
  <2>1. q.pc = "list" /\ proc[p].pc = "getDriver" /\ (Becomes(p, q) \/ Fails(p))
    BY <1>0, <1>2 DEF GetDriver, At, Process
  <2> HIDE DEF q
  <2>2. Left(q) < Left(proc[p])
    BY <2>1 DEF Left, StepsLeft
  <2> QED
    BY <1>1, <2>1, <2>2 DEF Sinks
<1>3. CASE ListBucket(p)
  <2>1. proc[p].pc = "list" /\ (GoesTo(p, "sum") \/ Fails(p))
    BY <1>3 DEF ListBucket, At
  <2>2. StepsLeft("sum") < StepsLeft("list")
    BY DEF StepsLeft
  <2> QED
    BY <1>1, <2>1, <2>2, GoesSinks
<1>4. CASE SumFiles(p)
  <2> DEFINE q == [proc[p] EXCEPT !.snap.used = files, !.pc = "saveScan"]
  <2>1. q.pc = "saveScan" /\ proc[p].pc = "sum" /\ Becomes(p, q)
    BY <1>0, <1>4 DEF SumFiles, At, Process
  <2> HIDE DEF q
  <2> QED
    BY <2>1 DEF Sinks, Left, StepsLeft
<1>5. CASE SaveScan(p)
  BY <1>5, GoesSinks DEF SaveScan, At, StepsLeft
<1>6. CASE Release(p)
  <2>1. proc[p].pc = "release" /\ (GoesTo(p, "markError") \/ AfterSync(p))
    BY <1>6 DEF Release, At
  <2>2. StepsLeft("markError") < StepsLeft("release")
    BY DEF StepsLeft
  <2> QED
    BY <2>1, <2>2, GoesSinks, AfterSyncSinks
<1> QED
  BY <1>2, <1>3, <1>4, <1>5, <1>6 DEF RunJob

LEMMA StepSinks ==
  ASSUME TypeOK, NEW p \in Processes, Advance(p) \/ RunJob(p)
  PROVE  /\ Left(proc'[p]) < Left(proc[p])
         /\ \A x \in Processes \ {p} : proc'[x] = proc[x]
<1>1. Sinks(p)
  BY RequestSinks, CorsSinks, JobSinks DEF Advance
<1> QED
  BY <1>1 DEF Sinks, Becomes, TypeOK

\* A request or a job on an account takes fewer than fourteen statements,
\* whichever of them fail and whatever runs beside it: every step it takes
\* lowers StepsLeft, and no other step but a crash changes where it is.
THEOREM WorkEnds == Spec => []WorkBounded /\ WorkRunsOut
<1>1. TypeOK => WorkBounded
  BY LeftBound DEF WorkBounded, TypeOK, At
<1>2. TypeOK /\ [Next]_vars =>
        [\A p \in Processes :
           /\ Advance(p) \/ RunJob(p) => Left(proc'[p]) < Left(proc[p])
           /\ ~At(p, "idle") => proc'[p].pc = proc[p].pc \/ Left(proc'[p]) < Left(proc[p])]_vars
  <2> SUFFICES ASSUME TypeOK, Next, NEW p \in Processes, ~At(p, "idle"), proc'[p].pc # proc[p].pc
               PROVE  Left(proc'[p]) < Left(proc[p])
    BY StepSinks
  <2>1. CASE Crash
    <3>1. proc'[p] = Idle /\ proc[p] \in Process /\ proc[p].pc # "idle"
      BY <2>1 DEF Crash, TypeOK, At
    <3>2. Left(proc[p]) \in Nat /\ Left(proc[p]) # 0
      BY <3>1, LeftBound
    <3>3. Left(Idle) = 0
      BY DEF Left, StepsLeft, Idle
    <3>4. \A n \in Nat : n # 0 => 0 < n
      OBVIOUS
    <3> QED
      BY <3>1, <3>2, <3>3, <3>4
  <2>2. ASSUME NEW x \in Processes, Advance(x) \/ RunJob(x)
        PROVE  Left(proc'[p]) < Left(proc[p])
    BY <2>2, StepSinks
  <2>3. ASSUME NEW x \in Processes, Start(x) \/ TakeJob(x) PROVE FALSE
    <3>1. At(x, "idle") /\ \E q : Becomes(x, q)
      BY <2>3 DEF Start, StartStore, StartRequest, TakeJob
    <3> QED
      BY <3>1 DEF Becomes, TypeOK, At
  <2>4. ASSUME NEW v \in DOMAIN rules, OtherAddsRule(v) PROVE FALSE
    BY <2>4, OtherAddsAlone
  <2> QED
    BY <2>1, <2>2, <2>3, <2>4 DEF Next, Processes
<1>3. Init => TypeOK
  BY InitTypeOK
<1>4. TypeOK /\ [Next]_vars => TypeOK'
  BY NextTypeOK
<1> QED
  BY <1>1, <1>2, <1>3, <1>4, PTL DEF Spec, WorkRunsOut

=============================================================================
