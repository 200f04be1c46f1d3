--------------------------- MODULE DriveTree_proofs ---------------------------
(* Proofs about DriveTree, in the order of what they assume of requests:    *)
(* nothing for the types and where rows hang; at most one that Saves an item *)
(* in flight for the forest and for what relocates a row; drivers and buckets *)
(* that answer for objects without rows; no Save next to another request for *)
(* rows without objects; one request at a time for whole subtrees and for    *)
(* the refinement of AtomicTree.  Last, again without any assumption, a      *)
(* bound on the steps of a request.                                          *)
EXTENDS DriveTree, FiniteSetTheorems, TLAPS

-----------------------------------------------------------------------------
(* Type correctness.                                                       *)

LEMMA CountIsNat ==
  ASSUME NEW S \in SUBSET Items
  PROVE  IsFiniteSet(S) /\ Cardinality(S) \in Nat
BY KindAssumption, FS_Subset, FS_CardinalityType

LEMMA NullRowType == NullRow \in Row /\ GoneRow \in Row
BY DEF NullRow, GoneRow, Row

LEMMA IdleType == Idle \in Request
BY NullRowType DEF Idle, Request, AllOps, NoAccount

\* The record with which the creation of a folder starts.
LEMMA CreateType ==
  ASSUME NEW i \in Folders, NEW d \in Items \cup {Root},
         NEW l \in {"insert", "checkParent"}
  PROVE  [Idle EXCEPT !.op = "create", !.item = i, !.dest = d, !.pc = l] \in Request
BY IdleType DEF Request, Items, AllOps

-----------------------------------------------------------------------------
(* Which operation a program counter belongs to, and what it has at hand.   *)

Phase(q) ==
  /\ q.pc # "idle" => q.item \in Items
  /\ q.op = "none" <=> q.pc = "idle"
  /\ q.op = "create" <=> q.pc \in {"checkParent", "insert"}
  /\ q.pc \in {"checkParent", "insert"} => q.dest # NoMove
  /\ q.pc \in {"checkDest", "walk"} => q.op = "update" /\ q.dest # NoMove
  /\ q.pc = "walk" => q.cur \in Items /\ q.dest \in Items
  /\ q.pc = "save" => q.op \in {"update", "star"}

PhaseInv == \A r \in Requests : Phase(req[r])

TypeInv == TypeOK /\ PhaseInv

LEMMA IdlePhase == Phase(Idle)
BY DEF Phase, Idle

LEMMA InitTypeInv == Init => TypeInv
<1> SUFFICES ASSUME Init PROVE TypeInv
  OBVIOUS
<1>1. rows \in [Items -> Row]
  BY NullRowType DEF Init, NullRow, Row
<1>2. used \in [Accounts -> Nat]
  <2> SUFFICES ASSUME NEW x \in Accounts
               PROVE  Cardinality({f \in Files : AccountOf[f] = x}) \in Nat
    BY DEF Init
  <2> QED
    BY CountIsNat DEF Items
<1>3. req \in [Requests -> Request] /\ PhaseInv
  BY IdleType, IdlePhase DEF Init, PhaseInv
<1> QED
  BY <1>1, <1>2, <1>3 DEF Init, TypeOK, TypeInv

LEMMA RowReadType ==
  ASSUME TypeOK, NEW r \in Requests, req[r].item \in Items
  PROVE  RowRead(r) \in Row
<1>1. rows[req[r].item] \in Row
  BY DEF TypeOK
<1>2. [rows[req[r].item] EXCEPT !.starred = ~@] \in Row
  BY <1>1 DEF Row
<1> QED
  BY <1>1, <1>2, NullRowType DEF RowRead

\* A step that changes one request needs to be checked for that request only.
LEMMA OneRequest ==
  ASSUME TypeInv, NEW r \in Requests, NEW q \in Request, Phase(q),
         Becomes(r, q)
  PROVE  req' \in [Requests -> Request] /\ PhaseInv'
BY DEF TypeInv, TypeOK, PhaseInv, Becomes

LEMMA FinishType ==
  ASSUME TypeInv, NEW r \in Requests, Finish(r)
  PROVE  req' \in [Requests -> Request] /\ PhaseInv'
BY OneRequest, IdleType, IdlePhase DEF Finish

LEMMA StartType ==
  ASSUME TypeInv, NEW r \in Requests, Start(r)
  PROVE  TypeInv'
<1>1. CASE \E i \in Folders, d \in Items \cup {Root} : StartCreate(r, i, d)
  <2>1. PICK i \in Folders, d \in Items \cup {Root} : StartCreate(r, i, d)
    BY <1>1
  <2> DEFINE l == IF d = Root THEN "insert" ELSE "checkParent"
             q == [Idle EXCEPT !.op = "create", !.item = i, !.dest = d, !.pc = l]
  <2>0. l \in {"insert", "checkParent"} /\ (l = "insert" => d = Root)
    OBVIOUS
  <2>a. Becomes(r, q)
    BY <2>1 DEF StartCreate
  <2> HIDE DEF l
  <2>2. q \in Request
    BY <2>0, CreateType
  <2>4. Phase(q)
    BY <2>0, SentinelAssumption DEF Idle, Phase, Items
  <2> HIDE DEF q
  <2>3. req' \in [Requests -> Request] /\ PhaseInv'
    BY <2>a, <2>2, <2>4, OneRequest
  <2> QED
    BY <2>1, <2>3 DEF StartCreate, TypeInv, TypeOK
<1>2. CASE \E i \in Items, d \in Items \cup {Root, NoMove} : StartUpdate(r, i, d)
  <2>1. PICK i \in Items, d \in Items \cup {Root, NoMove} : StartUpdate(r, i, d)
    BY <1>2
  <2> DEFINE q == [Idle EXCEPT !.op = "update", !.item = i, !.dest = d, !.pc = "readItem"]
  <2>2. q \in Request /\ Phase(q)
    BY IdleType DEF Request, Idle, Phase, AllOps
  <2>3. req' \in [Requests -> Request] /\ PhaseInv'
    BY <2>1, <2>2, OneRequest DEF StartUpdate
  <2> QED
    BY <2>1, <2>3 DEF StartUpdate, TypeInv, TypeOK
<1>3. CASE \E i \in Items, op \in Ops : StartOnItem(r, i, op)
  <2>1. PICK i \in Items, op \in Ops : StartOnItem(r, i, op)
    BY <1>3
  <2> DEFINE q == [Idle EXCEPT !.op = op, !.item = i, !.pc = "readItem"]
  <2>2. q \in Request /\ Phase(q)
    BY <2>1, IdleType DEF StartOnItem, Request, Idle, Phase, AllOps
  <2>3. req' \in [Requests -> Request] /\ PhaseInv'
    BY <2>1, <2>2, OneRequest DEF StartOnItem
  <2> QED
    BY <2>1, <2>3 DEF StartOnItem, TypeInv, TypeOK
<1> QED
  BY <1>1, <1>2, <1>3 DEF Start

LEMMA AdvanceType ==
  ASSUME TypeInv, NEW r \in Requests, Advance(r)
  PROVE  TypeInv'
<1> USE DEF TypeInv, TypeOK
<1>0. req[r] \in Request /\ Phase(req[r])
  BY DEF PhaseInv
<1>i. req[r].pc # "idle" => req[r].item \in Items /\ rows[req[r].item] \in Row
  BY <1>0 DEF Phase
<1>1. CASE CheckParent(r)
  <2> DEFINE q == [req[r] EXCEPT !.pc = "insert"]
  <2>1. q \in Request /\ Phase(q)
    BY <1>0, <1>1 DEF CheckParent, At, Request, Phase
  <2>2. Finish(r) \/ Becomes(r, q)
    BY <1>1 DEF CheckParent
  <2> QED
    BY <1>1, <2>1, <2>2, OneRequest, FinishType DEF CheckParent
<1>2. CASE InsertFolder(r)
  <2>1. req[r].item \in Items /\ req[r].dest \in Items \cup {Root}
    BY <1>0, <1>2 DEF InsertFolder, At, Phase, Request
  <2>2. rows' \in [Items -> Row]
    BY <1>2, <2>1 DEF InsertFolder, Row
  <2> QED
    BY <1>2, <2>2, FinishType DEF InsertFolder
<1>3. CASE ReadItem(r)
  <2> DEFINE q == [req[r] EXCEPT !.snap = RowRead(r), !.pc = AfterRead(r)]
  <2>1. RowRead(r) \in Row
    BY <1>3, <1>i, RowReadType DEF ReadItem, At
  <2>2. /\ AfterRead(r) \in {"save", "checkDest", "trash", "getDriver"}
        /\ AfterRead(r) = "save" => req[r].op \in {"update", "star"}
        /\ AfterRead(r) = "checkDest" => req[r].op = "update" /\ req[r].dest # NoMove
    BY DEF AfterRead
  <2>3. q \in Request /\ Phase(q)
    <3>1. req[r].pc = "readItem" /\ AfterRead(r) \in {"save", "checkDest", "trash", "getDriver"}
      BY <1>3, <2>2 DEF ReadItem, At
    <3>2. q \in Request
      BY <1>0, <2>1, <3>1 DEF Request
    <3> HIDE DEF RowRead, AfterRead
    <3>3. Phase(q)
      BY <1>0, <2>2, <3>1 DEF Request, Phase
    <3> QED
      BY <3>2, <3>3
  <2>4. Finish(r) \/ Becomes(r, q)
    BY <1>3 DEF ReadItem
  <2> QED
    BY <1>3, <2>3, <2>4, OneRequest, FinishType DEF ReadItem
<1>4. CASE CheckDestination(r)
  <2> DEFINE i == req[r].item
             d == req[r].dest
             p == [req[r] EXCEPT !.snap.parent = Root, !.pc = "save"]
             q == [req[r] EXCEPT !.snap.parent = d, !.cur = d, !.pc = "walk"]
  <2>1. p \in Request /\ Phase(p)
    BY <1>0, <1>4 DEF CheckDestination, At, Request, Row, Phase
  <2>2. d \in Items => q \in Request /\ Phase(q)
    BY <1>0, <1>4 DEF CheckDestination, At, Request, Row, Phase
  <2>3. \/ Finish(r)
        \/ Becomes(r, p)
        \/ d \in Items /\ Becomes(r, q)
    BY <1>4 DEF CheckDestination
  <2> QED
    BY <1>4, <2>1, <2>2, <2>3, OneRequest, FinishType DEF CheckDestination
<1>5. CASE WalkUp(r)
  <2> DEFINE c == req[r].cur
             p == [req[r] EXCEPT !.seen = @ \cup {c}, !.cur = Root, !.pc = "save"]
             q == [req[r] EXCEPT !.seen = @ \cup {c}, !.cur = rows[c].parent]
  <2>1. c \in Items /\ rows[c].parent \in Items \cup {Root}
    BY <1>0, <1>5 DEF WalkUp, At, Phase, Row
  <2>2. p \in Request /\ Phase(p)
    BY <1>0, <1>5, <2>1 DEF WalkUp, At, Request, Phase
  <2>3. rows[c].parent # Root => q \in Request /\ Phase(q)
    BY <1>0, <1>5, <2>1 DEF WalkUp, At, Request, Phase
  <2>4. \/ Finish(r)
        \/ Becomes(r, p)
        \/ rows[c].parent # Root /\ Becomes(r, q)
    BY <1>5 DEF WalkUp, WalkEnds
  <2> QED
    BY <1>5, <2>2, <2>3, <2>4, OneRequest, FinishType DEF WalkUp
<1>6. CASE SaveItem(r)
  <2>1. rows' \in [Items -> Row]
    BY <1>0, <1>6 DEF SaveItem, Request
  <2> QED
    BY <1>6, <2>1, FinishType DEF SaveItem
<1>7. CASE TrashItem(r)
  <2>1. rows' \in [Items -> Row]
    BY <1>7, <1>i DEF TrashItem, At, Row
  <2> QED
    BY <1>7, <2>1, FinishType DEF TrashItem
<1>8. CASE GetDriver(r)
  <2>1. req[r].item \in Items /\ used[AccountOf[req[r].item]] \in Nat
    BY <1>8, <1>i, AccountAssumption DEF GetDriver, At
  <2> DEFINE q(x) == [req[r] EXCEPT !.acct = x, !.seen = {req[r].item},
                                    !.pc = IF req[r].item \in Files THEN "deleteObjects"
                                                                    ELSE "collectRoot"]
  <2>2. PICK x \in Nat \cup {NoAccount} : Becomes(r, q(x))
    <3> HIDE DEF q
    <3>1. \E x \in {used[AccountOf[req[r].item]]}
                      \cup (IF DriverMayFail THEN {NoAccount} ELSE {}) : Becomes(r, q(x))
      BY <1>8 DEF GetDriver, q
    <3> QED
      BY <2>1, <3>1
  <2>3. q(x) \in Request
    <3> DEFINE l == IF req[r].item \in Files THEN "deleteObjects" ELSE "collectRoot"
    <3>1. l \in {"deleteObjects", "collectRoot"} /\ {req[r].item} \in SUBSET Items
      BY <2>1
    <3> HIDE DEF l
    <3>2. [req[r] EXCEPT !.acct = x, !.seen = {req[r].item}, !.pc = l] \in Request
      BY <1>0, <3>1 DEF Request
    <3> QED
      BY <3>2 DEF l
  <2>4. Phase(q(x))
    BY <1>0, <1>8, <2>1 DEF GetDriver, At, Request, Phase
  <2> HIDE DEF q
  <2> QED
    BY <1>8, <2>2, <2>3, <2>4, OneRequest DEF GetDriver
<1>9. CASE CollectRoot(r)
  <2> DEFINE q == [req[r] EXCEPT !.todo = {req[r].item}, !.pc = "collect"]
  <2>1. q \in Request /\ Phase(q)
    BY <1>0, <1>i, <1>9 DEF CollectRoot, At, Request, Phase
  <2>2. Finish(r) \/ Becomes(r, q)
    BY <1>9 DEF CollectRoot
  <2> QED
    BY <1>9, <2>1, <2>2, OneRequest, FinishType DEF CollectRoot
<1>10. CASE CollectChildren(r)
  <2> DEFINE new(x) == ChildrenOf(x) \ req[r].seen
             p == [req[r] EXCEPT !.todo = {}, !.pc = "deleteObjects"]
             q(x) == [req[r] EXCEPT !.seen = @ \cup new(x),
                                    !.todo = (@ \ {x}) \cup (new(x) \cap Folders)]
  <2>1. p \in Request /\ Phase(p)
    BY <1>0, <1>10 DEF CollectChildren, At, Request, Phase
  <2>2. ASSUME NEW x \in req[r].todo
        PROVE  q(x) \in Request /\ Phase(q(x))
    <3>1. new(x) \subseteq Items
      BY DEF ChildrenOf
    <3> HIDE DEF new
    <3> QED
      BY <1>0, <1>10, <3>1 DEF CollectChildren, At, Request, Phase
  <2>3. Becomes(r, p) \/ \E x \in req[r].todo : Becomes(r, q(x))
    BY <1>10 DEF CollectChildren
  <2> HIDE DEF p, q
  <2> QED
    BY <1>10, <2>1, <2>2, <2>3, OneRequest DEF CollectChildren
<1>11. CASE DeleteObjects(r)
  <2> DEFINE q == [req[r] EXCEPT !.pc = "purgeRows"]
  <2>1. q \in Request /\ Phase(q)
    BY <1>0, <1>11 DEF DeleteObjects, At, Request, Phase
  <2> QED
    BY <1>11, <2>1, OneRequest DEF DeleteObjects
<1>12. CASE PurgeRows(r)
  <2> DEFINE q == [req[r] EXCEPT !.pc = "settle"]
  <2>1. q \in Request /\ Phase(q)
    BY <1>0, <1>12 DEF PurgeRows, At, Request, Phase
  <2>2. rows' \in [Items -> Row]
    BY <1>12, NullRowType DEF PurgeRows
  <2> QED
    BY <1>12, <2>1, <2>2, OneRequest DEF PurgeRows
<1>13. CASE SettleAccount(r)
  <2> DEFINE freed == Cardinality(req[r].seen \cap Files)
  <2>1. freed \in Nat
    BY <1>0, CountIsNat DEF Request
  <2>2. req[r].acct # NoAccount => FlooredAt0(req[r].acct - freed) \in Nat
    BY <1>0, <2>1 DEF FlooredAt0, Request
  <2>3. used' \in [Accounts -> Nat]
    <3> HIDE DEF freed
    <3> QED
      BY <1>13, <2>2 DEF SettleAccount, freed
  <2> QED
    BY <1>13, <2>3, FinishType DEF SettleAccount
<1> QED
  BY <1>1, <1>2, <1>3, <1>4, <1>5, <1>6, <1>7, <1>8, <1>9, <1>10, <1>11, <1>12, <1>13
  DEF Advance

LEMMA NextTypeInv == TypeInv /\ [Next]_vars => TypeInv'
<1> SUFFICES ASSUME TypeInv, [Next]_vars PROVE TypeInv'
  OBVIOUS
<1>1. CASE Crash
  BY <1>1, IdleType, IdlePhase DEF Crash, TypeInv, TypeOK, PhaseInv
<1>2. CASE \E r \in Requests : Start(r) \/ Advance(r)
  BY <1>2, StartType, AdvanceType
<1>3. CASE UNCHANGED vars
  BY <1>3 DEF vars, TypeInv, TypeOK, PhaseInv, Phase
<1> QED
  BY <1>1, <1>2, <1>3 DEF Next

LEMMA TypeInvariance == Spec => []TypeInv
BY InitTypeInv, NextTypeInv, PTL DEF Spec

\* Every state of the concurrent system is well typed, used_storage included:
\* it never becomes negative, however stale the value a delete subtracts from.
THEOREM TypeCorrect == Spec => []TypeOK
BY TypeInvariance, PTL DEF TypeInv

-----------------------------------------------------------------------------
(* Where rows hang.  A parent that has been validated stays a folder of the *)
(* same account, because those columns never change and no row goes back to *)
(* "unused"; so do the parents that requests carry in memory.               *)

GoodParent(p, i) ==
  p # Root => p \in Folders /\ SameDrive(p, i) /\ rows[p].state # "unused"

\* What request record q carries is fit to be written.
CarriesGood(q) ==
  /\ GoodParent(q.snap.parent, q.item)
  /\ q.pc = "insert" => GoodParent(q.dest, q.item)
  /\ q.pc \in {"checkDest", "walk", "save"} => q.snap.state # "unused"

HangInv ==
  /\ \A i \in Items : GoodParent(rows[i].parent, i)
  /\ \A r \in Requests : CarriesGood(req[r])

NeverUnusedAgain ==
  \A i \in Items : rows[i].state # "unused" => rows'[i].state # "unused"

LEMMA GoodParentStable ==
  ASSUME TypeOK, NeverUnusedAgain, NEW p, NEW i, GoodParent(p, i)
  PROVE  GoodParent(p, i)'
BY DEF GoodParent, NeverUnusedAgain, SameDrive, Items

LEMMA IdleCarriesGood == CarriesGood(Idle)
BY DEF CarriesGood, Idle, NullRow, GoodParent

LEMMA InitHang == Init => HangInv
<1> SUFFICES ASSUME Init PROVE HangInv
  OBVIOUS
<1>1. \A i \in Items : rows[i].parent = Root
  BY DEF Init, NullRow
<1> QED
  BY <1>1, IdleCarriesGood DEF Init, HangInv, GoodParent

\* A step that leaves the table alone and changes one request.
LEMMA HangOneRequest ==
  ASSUME TypeInv, HangInv, UNCHANGED rows, NEW r \in Requests, NEW q \in Request,
         Becomes(r, q), CarriesGood(q)
  PROVE  HangInv'
BY DEF TypeInv, TypeOK, HangInv, CarriesGood, GoodParent, SameDrive, Becomes

\* A step that writes good rows and ends the request.
LEMMA HangFinish ==
  ASSUME TypeInv, HangInv, NEW r \in Requests, Finish(r), NeverUnusedAgain,
         \A i \in Items : GoodParent(rows'[i].parent, i)
  PROVE  HangInv'
<1>1. \A i \in Items : GoodParent(rows[i].parent, i)'
  BY GoodParentStable DEF TypeInv, TypeOK, GoodParent, NeverUnusedAgain, SameDrive, Items
<1>2. ASSUME NEW p \in Requests PROVE CarriesGood(req[p])'
  <2>1. CASE p = r
    <3>1. req'[p] = Idle
      BY <2>1 DEF Finish, Becomes, TypeInv, TypeOK
    <3> QED
      BY <3>1 DEF CarriesGood, Idle, NullRow, GoodParent
  <2>2. CASE p # r
    <3>1. req'[p] = req[p] /\ CarriesGood(req[p])
      BY <2>2 DEF Finish, Becomes, TypeInv, TypeOK, HangInv
    <3> QED
      BY <3>1, GoodParentStable DEF CarriesGood, GoodParent, NeverUnusedAgain, SameDrive,
         Items
  <2> QED
    BY <2>1, <2>2
<1> QED
  BY <1>1, <1>2 DEF HangInv

LEMMA StartHang ==
  ASSUME TypeInv, HangInv, NEW r \in Requests, Start(r)
  PROVE  HangInv'
<1>1. PICK q \in Request :
        /\ Becomes(r, q)
        /\ q.snap = NullRow
        /\ q.pc = "insert" => q.dest = Root
        /\ q.pc \notin {"checkDest", "walk", "save"}
  <2>1. CASE \E i \in Folders, d \in Items \cup {Root} : StartCreate(r, i, d)
    <3>1. PICK i \in Folders, d \in Items \cup {Root} : StartCreate(r, i, d)
      BY <2>1
    <3> DEFINE l == IF d = Root THEN "insert" ELSE "checkParent"
               q == [Idle EXCEPT !.op = "create", !.item = i, !.dest = d, !.pc = l]
    <3>0. l \in {"insert", "checkParent"} /\ (l = "insert" => d = Root)
      OBVIOUS
    <3>a. Becomes(r, q)
      BY <3>1 DEF StartCreate
    <3> HIDE DEF l
    <3>2. q \in Request
      BY <3>0, CreateType
    <3>3. /\ q.snap = NullRow
          /\ q.pc = "insert" => q.dest = Root
          /\ q.pc \notin {"checkDest", "walk", "save"}
      BY <3>0 DEF Idle
    <3> HIDE DEF q
    <3> QED
      BY <3>1, <3>2, <3>3, <3>a DEF StartCreate
  <2>2. CASE \E i \in Items, d \in Items \cup {Root, NoMove} : StartUpdate(r, i, d)
    <3>1. PICK i \in Items, d \in Items \cup {Root, NoMove} : StartUpdate(r, i, d)
      BY <2>2
    <3> DEFINE q == [Idle EXCEPT !.op = "update", !.item = i, !.dest = d, !.pc = "readItem"]
    <3>2. q \in Request /\ q.snap = NullRow /\ q.pc = "readItem"
      BY IdleType, NullRowType DEF Request, Idle, AllOps
    <3> QED
      BY <3>1, <3>2 DEF StartUpdate
  <2>3. CASE \E i \in Items, op \in Ops : StartOnItem(r, i, op)
    <3>1. PICK i \in Items, op \in Ops : StartOnItem(r, i, op)
      BY <2>3
    <3> DEFINE q == [Idle EXCEPT !.op = op, !.item = i, !.pc = "readItem"]
    <3>2. q \in Request /\ q.snap = NullRow /\ q.pc = "readItem"
      BY <3>1, IdleType, NullRowType DEF StartOnItem, Request, Idle, AllOps
    <3> QED
      BY <3>1, <3>2 DEF StartOnItem
  <2> QED
    BY <2>1, <2>2, <2>3 DEF Start
<1>2. CarriesGood(q)
  BY <1>1 DEF CarriesGood, GoodParent, NullRow
<1>3. UNCHANGED rows
  BY DEF Start, StartCreate, StartUpdate, StartOnItem
<1> QED
  BY <1>1, <1>2, <1>3, HangOneRequest

LEMMA AdvanceHang ==
  ASSUME TypeInv, HangInv, NEW r \in Requests, Advance(r)
  PROVE  HangInv' /\ NeverUnusedAgain
<1>0. req[r] \in Request /\ Phase(req[r]) /\ CarriesGood(req[r])
  BY DEF TypeInv, TypeOK, PhaseInv, HangInv
<1>f. ASSUME Finish(r), UNCHANGED rows PROVE HangInv'
  BY <1>f, HangFinish DEF NeverUnusedAgain, HangInv
<1>s. UNCHANGED rows => NeverUnusedAgain
  BY DEF NeverUnusedAgain
<1>1. CASE CheckParent(r)
  <2>1. CASE Finish(r)
    BY <1>1, <1>s, <1>f, <2>1 DEF CheckParent
  <2>2. CASE IsFolderOf(req[r].dest, req[r].item) /\ ~Finish(r)
    <3> DEFINE q == [req[r] EXCEPT !.pc = "insert"]
    <3>1. q \in Request /\ CarriesGood(q)
      BY <1>0, <2>2 DEF Request, CarriesGood, GoodParent, IsFolderOf, Live
    <3>2. Becomes(r, q)
      BY <1>1, <2>2 DEF CheckParent
    <3> QED
      BY <1>1, <1>s, <3>1, <3>2, HangOneRequest DEF CheckParent
  <2> QED
    BY <1>1, <2>1, <2>2 DEF CheckParent
<1>2. CASE InsertFolder(r)
  <2>1. req[r].item \in Items /\ GoodParent(req[r].dest, req[r].item)
    BY <1>0, <1>2 DEF InsertFolder, At, Phase, CarriesGood
  <2>2. NeverUnusedAgain /\ \A i \in Items : GoodParent(rows'[i].parent, i)
    BY <1>2, <2>1 DEF InsertFolder, NeverUnusedAgain, TypeInv, TypeOK, HangInv
  <2> QED
    BY <1>2, <2>2, HangFinish DEF InsertFolder
<1>3. CASE ReadItem(r)
  <2>1. CASE Finish(r)
    BY <1>3, <1>s, <1>f, <2>1 DEF ReadItem
  <2>2. CASE Live(req[r].item) /\ ~Finish(r)
    <3> DEFINE q == [req[r] EXCEPT !.snap = RowRead(r), !.pc = AfterRead(r)]
    <3>1. req[r].item \in Items /\ RowRead(r) \in Row
      BY <1>0, <1>3, RowReadType DEF ReadItem, At, Phase, TypeInv
    <3>2. GoodParent(RowRead(r).parent, req[r].item)
      <4>1. RowRead(r).parent \in {rows[req[r].item].parent, Root}
        BY <3>1 DEF RowRead, NullRow, TypeInv, TypeOK, Row
      <4> QED
        BY <3>1, <4>1 DEF HangInv, GoodParent
    <3>3. AfterRead(r) \in {"save", "checkDest"} => RowRead(r).state # "unused"
      BY <2>2, <3>1 DEF AfterRead, RowRead, Live, TypeInv, TypeOK, Row
    <3>4. AfterRead(r) \in {"save", "checkDest", "trash", "getDriver"}
      BY DEF AfterRead
    <3>5. q \in Request /\ CarriesGood(q)
      <4> HIDE DEF Live
      <4> QED
        BY <1>0, <3>1, <3>2, <3>3, <3>4 DEF Request, CarriesGood
    <3>6. Becomes(r, q)
      BY <1>3, <2>2 DEF ReadItem
    <3> QED
      BY <1>3, <1>s, <3>5, <3>6, HangOneRequest DEF ReadItem
  <2> QED
    BY <1>3, <2>1, <2>2 DEF ReadItem
<1>4. CASE CheckDestination(r)
  <2> DEFINE i == req[r].item
             d == req[r].dest
             p == [req[r] EXCEPT !.snap.parent = Root, !.pc = "save"]
             q == [req[r] EXCEPT !.snap.parent = d, !.cur = d, !.pc = "walk"]
  <2>0. req[r].snap \in Row /\ req[r].snap.state # "unused"
    BY <1>0, <1>4 DEF CheckDestination, At, Request, CarriesGood
  <2>1. p \in Request
    BY <1>0, <2>0 DEF Request, Row
  <2>4. CarriesGood(p)
    BY <1>0, <2>0 DEF Request, Row, CarriesGood, GoodParent
  <2>2. d \in Items /\ IsFolderOf(d, i) => q \in Request /\ CarriesGood(q)
    BY <1>0, <1>4
    DEF CheckDestination, At, Request, Row, CarriesGood, GoodParent, IsFolderOf, Live
  <2>3. \/ Finish(r)
        \/ Becomes(r, p)
        \/ d \in Items /\ IsFolderOf(d, i) /\ Becomes(r, q)
    BY <1>4 DEF CheckDestination
  <2> HIDE DEF p, q
  <2> QED
    BY <1>4, <1>s, <1>f, <2>1, <2>2, <2>3, <2>4, HangOneRequest DEF CheckDestination
<1>5. CASE WalkUp(r)
  <2>1. Finish(r) \/ \E q \in Request : Becomes(r, q) /\ CarriesGood(q)
    <3> DEFINE c == req[r].cur
               p == [req[r] EXCEPT !.seen = @ \cup {c}, !.cur = Root, !.pc = "save"]
               q == [req[r] EXCEPT !.seen = @ \cup {c}, !.cur = rows[c].parent]
    <3>1. c \in Items /\ rows[c].parent \in Items \cup {Root}
      BY <1>0, <1>5 DEF WalkUp, At, Phase, TypeInv, TypeOK, Row
    <3>2. p \in Request /\ q \in Request
      BY <1>0, <3>1 DEF Request
    <3>4. CarriesGood(p) /\ CarriesGood(q)
      BY <1>0, <1>5 DEF WalkUp, At, Request, CarriesGood
    <3>3. Finish(r) \/ Becomes(r, p) \/ Becomes(r, q)
      BY <1>5 DEF WalkUp
    <3> HIDE DEF p, q
    <3> QED
      BY <3>2, <3>3, <3>4
  <2> QED
    BY <1>5, <1>s, <1>f, <2>1, HangOneRequest DEF WalkUp
<1>6. CASE SaveItem(r)
  <2>1. /\ req[r].item \in Items
        /\ GoodParent(req[r].snap.parent, req[r].item)
        /\ req[r].snap.state # "unused"
    BY <1>0, <1>6 DEF SaveItem, At, Phase, CarriesGood
  <2>2. NeverUnusedAgain /\ \A i \in Items : GoodParent(rows'[i].parent, i)
    BY <1>6, <2>1 DEF SaveItem, NeverUnusedAgain, TypeInv, TypeOK, HangInv
  <2> QED
    BY <1>6, <2>2, HangFinish DEF SaveItem
<1>7. CASE TrashItem(r)
  <2>1. NeverUnusedAgain /\ \A i \in Items : rows'[i].parent = rows[i].parent
    BY <1>0, <1>7 DEF TrashItem, At, Phase, NeverUnusedAgain, TypeInv, TypeOK, Row
  <2> QED
    BY <1>7, <2>1, HangFinish DEF TrashItem, HangInv
<1>8. CASE PurgeRows(r)
  <2> DEFINE q == [req[r] EXCEPT !.pc = "settle"]
  <2>1. NeverUnusedAgain /\ \A i \in Items : GoodParent(rows'[i].parent, i)
    BY <1>8 DEF PurgeRows, NeverUnusedAgain, GoneRow, NullRow, HangInv, GoodParent
  <2>2. q \in Request /\ CarriesGood(q)
    BY <1>0, <1>8 DEF PurgeRows, At, Request, CarriesGood
  <2>3. Becomes(r, q)
    BY <1>8 DEF PurgeRows
  <2>4. \A i \in Items : GoodParent(rows[i].parent, i)'
    BY <2>1 DEF GoodParent, NeverUnusedAgain, SameDrive, Items
  <2>5. ASSUME NEW p \in Requests PROVE CarriesGood(req[p])'
    <3>1. req'[p] \in {req[p], q} /\ CarriesGood(req'[p])
      BY <2>2, <2>3 DEF Becomes, HangInv, TypeInv, TypeOK
    <3> QED
      BY <2>1, <3>1 DEF CarriesGood, GoodParent, NeverUnusedAgain, SameDrive, Items
  <2> QED
    BY <2>1, <2>4, <2>5 DEF HangInv
<1>9. CASE \/ GetDriver(r) \/ CollectRoot(r) \/ CollectChildren(r)
           \/ DeleteObjects(r) \/ SettleAccount(r)
  <2>1. UNCHANGED rows
    BY <1>9 DEF GetDriver, CollectRoot, CollectChildren, DeleteObjects, SettleAccount
  <2>2. \E q : /\ Becomes(r, q)
               /\ q = Idle \/ /\ q.snap = req[r].snap /\ q.item = req[r].item
                              /\ q.pc \in {"deleteObjects", "collectRoot", "collect",
                                           "purgeRows"}
    <3>1. CASE GetDriver(r)
      <4>1. PICK x \in {used[AccountOf[req[r].item]]}
                        \cup (IF DriverMayFail THEN {NoAccount} ELSE {}) :
              Becomes(r, [req[r] EXCEPT !.acct = x, !.seen = {req[r].item},
                            !.pc = IF req[r].item \in Files THEN "deleteObjects"
                                                            ELSE "collectRoot"])
        BY <3>1 DEF GetDriver
      <4> DEFINE q == [req[r] EXCEPT !.acct = x, !.seen = {req[r].item},
                            !.pc = IF req[r].item \in Files THEN "deleteObjects"
                                                            ELSE "collectRoot"]
      <4>2. /\ q.snap = req[r].snap /\ q.item = req[r].item
            /\ q.pc \in {"deleteObjects", "collectRoot"}
        BY <1>0 DEF Request
      <4>3. Becomes(r, q)
        BY <4>1
      <4> HIDE DEF q
      <4> QED
        BY <4>2, <4>3
    <3>2. CASE CollectRoot(r)
      <4>1. \/ Becomes(r, Idle)
            \/ Becomes(r, [req[r] EXCEPT !.todo = {req[r].item}, !.pc = "collect"])
        BY <3>2 DEF CollectRoot, Finish
      <4> DEFINE q == [req[r] EXCEPT !.todo = {req[r].item}, !.pc = "collect"]
      <4>2. q.snap = req[r].snap /\ q.item = req[r].item /\ q.pc = "collect"
        BY <1>0 DEF Request
      <4>3. Becomes(r, Idle) \/ Becomes(r, q)
        BY <4>1
      <4> HIDE DEF q
      <4> QED
        BY <4>2, <4>3
    <3>3. CASE CollectChildren(r)
      <4> DEFINE q(x) == [req[r] EXCEPT !.seen = @ \cup (ChildrenOf(x) \ req[r].seen),
                            !.todo = (@ \ {x}) \cup ((ChildrenOf(x) \ req[r].seen) \cap Folders)]
      <4>1. \/ Becomes(r, [req[r] EXCEPT !.todo = {}, !.pc = "deleteObjects"])
            \/ \E x \in req[r].todo : Becomes(r, q(x))
        BY <3>3 DEF CollectChildren
      <4>2. \A x : /\ q(x).snap = req[r].snap /\ q(x).item = req[r].item
                   /\ q(x).pc = "collect"
        BY <1>0, <3>3 DEF CollectChildren, At, Request
      <4> DEFINE p == [req[r] EXCEPT !.todo = {}, !.pc = "deleteObjects"]
      <4>3. p.snap = req[r].snap /\ p.item = req[r].item /\ p.pc = "deleteObjects"
        BY <1>0 DEF Request
      <4>4. Becomes(r, p) \/ \E x \in req[r].todo : Becomes(r, q(x))
        BY <4>1
      <4> HIDE DEF q, p
      <4> QED
        BY <4>2, <4>3, <4>4
    <3>4. CASE DeleteObjects(r)
      BY <1>0, <3>4 DEF DeleteObjects, Request
    <3>5. CASE SettleAccount(r)
      BY <3>5 DEF SettleAccount, Finish
    <3> QED
      BY <1>9, <3>1, <3>2, <3>3, <3>4, <3>5
  <2>3. TypeInv'
    BY AdvanceType
  <2>4. req'[r] \in Request /\ CarriesGood(req'[r]) /\ Becomes(r, req'[r])
    BY <1>0, <2>2, <2>3, IdleCarriesGood DEF Becomes, TypeInv, TypeOK, CarriesGood
  <2> QED
    BY <1>s, <2>1, <2>4, HangOneRequest
<1> QED
  BY <1>1, <1>2, <1>3, <1>4, <1>5, <1>6, <1>7, <1>8, <1>9 DEF Advance

LEMMA NextHang ==
  ASSUME TypeInv, HangInv, [Next]_vars
  PROVE  HangInv' /\ NeverUnusedAgain
<1>1. CASE Crash
  <2>1. UNCHANGED rows /\ \A r \in Requests : req'[r] = Idle
    BY <1>1 DEF Crash
  <2> QED
    BY <2>1, IdleCarriesGood
    DEF HangInv, NeverUnusedAgain, CarriesGood, GoodParent, SameDrive, Idle, NullRow
<1>2. CASE \E r \in Requests : Start(r) \/ Advance(r)
  <2>1. ASSUME NEW r \in Requests, Start(r) PROVE UNCHANGED rows
    BY <2>1 DEF Start, StartCreate, StartUpdate, StartOnItem
  <2> QED
    BY <1>2, <2>1, StartHang, AdvanceHang DEF NeverUnusedAgain
<1>3. CASE UNCHANGED vars
  BY <1>3 DEF vars, HangInv, NeverUnusedAgain, CarriesGood, GoodParent, SameDrive
<1> QED
  BY <1>1, <1>2, <1>3 DEF Next

LEMMA HangInvariance == Spec => [](TypeInv /\ HangInv)
<1>1. Init => TypeInv /\ HangInv
  BY InitTypeInv, InitHang
<1>2. TypeInv /\ HangInv /\ [Next]_vars => (TypeInv /\ HangInv)'
  BY NextTypeInv, NextHang
<1> QED
  BY <1>1, <1>2, PTL DEF Spec

\* Whatever requests race, a row hangs at the top or under a folder of its
\* own account: the checks CreateFolder and UpdateItem make on the parent
\* cannot be outrun, since nothing they check ever changes.
THEOREM ParentsAreFolders == Spec => []ParentIsFolder
<1>1. HangInv => ParentIsFolder
  BY DEF HangInv, GoodParent, ParentIsFolder
<1> QED
  BY <1>1, HangInvariance, PTL

-----------------------------------------------------------------------------
(* Forests.  A parent function is free of cycles on L when no non-empty     *)
(* subset of L is closed under it.  Three ways to change a forest keep it   *)
(* one: taking nodes away, adding a leaf, and moving a node i under a node  *)
(* d from which the way up was followed to its end without meeting i.       *)

ClosedFree(L, par) == \A S \in SUBSET L : S # {} => \E x \in S : par[x] \notin S

LEMMA Prune ==
  ASSUME NEW L, NEW M \in SUBSET L, NEW par, NEW par2,
         \A x \in M : par2[x] = par[x],
         ClosedFree(L, par)
  PROVE  ClosedFree(M, par2)
BY DEF ClosedFree

LEMMA AddLeaf ==
  ASSUME NEW L, NEW par, NEW par2, NEW j, ClosedFree(L, par),
         \A x \in L : par2[x] = par[x] /\ par[x] # j,
         par2[j] # j
  PROVE  ClosedFree(L \cup {j}, par2)
<1> SUFFICES ASSUME NEW S \in SUBSET (L \cup {j}), S # {},
                    \A x \in S : par2[x] \in S
             PROVE  FALSE
  BY DEF ClosedFree
<1>1. S \ {j} # {}
  OBVIOUS
<1>2. PICK x \in S \ {j} : par[x] \notin S \ {j}
  BY <1>1 DEF ClosedFree
<1> QED
  BY <1>2

\* par2 differs from par in that i hangs under d; V holds the nodes met on the
\* way up from d.
Grafts(L, par, par2, i, d, V) ==
  /\ i \notin V /\ d \in V
  /\ par2[i] = d /\ \A x \in L \ {i} : par2[x] = par[x]
  /\ \A y \in V \cap L : par[y] \in V \/ par[y] \notin L \cup {i}

LEMMA Graft ==
  ASSUME NEW L, NEW par, NEW par2, NEW i, NEW d, NEW V,
         ClosedFree(L, par), Grafts(L, par, par2, i, d, V)
  PROVE  ClosedFree(L \cup {i}, par2)
<1> USE DEF Grafts
<1> SUFFICES ASSUME NEW S \in SUBSET (L \cup {i}), S # {},
                    \A x \in S : par2[x] \in S
             PROVE  FALSE
  BY DEF ClosedFree
<1>1. CASE i \notin S
  <2>1. S \in SUBSET L
    BY <1>1
  <2>2. PICK x \in S : par[x] \notin S
    BY <2>1 DEF ClosedFree
  <2> QED
    BY <1>1, <2>2
<1>2. CASE i \in S
  <2>1. d \in S \cap V /\ S \cap V \in SUBSET L
    BY <1>2
  <2>2. PICK z \in S \cap V : par[z] \notin S \cap V
    BY <2>1 DEF ClosedFree
  <2>3. z # i /\ par[z] \in S
    BY <2>1, <2>2
  <2> QED
    BY <2>1, <2>2, <2>3
<1> QED
  BY <1>1, <1>2

-----------------------------------------------------------------------------
(* The invariant of the single-writer system.  Its parts are operators of a *)
(* table t and a request record q, so that they can be stated of the table  *)
(* before and after a step.                                                 *)

LiveIn(t) == {i \in Items : t[i].state = "live"}

Par(t) == [x \in Items |-> t[x].parent]

\* The parent function once request record q has been saved.
ParSaved(t, q) == [x \in Items |-> IF x = q.item THEN q.snap.parent ELSE t[x].parent]

\* The walk has followed parent_id from the destination up to cur, and has
\* not met the item.
WalkInv(t, q) ==
  /\ q.item \notin q.seen
  /\ q.dest \in q.seen \cup {q.cur}
  /\ q.snap.parent = q.dest
  /\ SameDrive(q.cur, q.item)
  /\ t[q.cur].state # "unused"
  /\ \A y \in q.seen : t[y].state = "live" => t[y].parent \in q.seen \cup {q.cur}

\* What holds of a request record; a pending Save would leave a forest.
Safe(t, q) ==
  /\ q.op = "create" => t[q.item].state = "unused"
  /\ q.op \notin {"create", "none"} => t[q.item].state # "unused"
  /\ \A y \in q.seen : t[y].state # "unused"
  /\ q.pc \in {"readItem", "checkDest"} => q.seen = {}
  /\ q.pc = "walk" => WalkInv(t, q)
  /\ q.pc = "save" => ClosedFree(LiveIn(t) \cup {q.item}, ParSaved(t, q))

NewItemsDiffer ==
  \A p, q \in Requests : req[p].op = "create" /\ req[p].item = req[q].item => p = q

\* Requests come one at a time.
Serial == \A p, q \in Requests : p = q

AtMostOneWriter == \A p, q \in Requests : Writing(p) /\ Writing(q) => p = q

ForestInv ==
  /\ ClosedFree(LiveIn(rows), Par(rows))
  /\ NewItemsDiffer
  /\ AtMostOneWriter
  /\ \A r \in Requests : Safe(rows, req[r])

AllInv == TypeInv /\ HangInv /\ ForestInv

LEMMA IdleSafe == \A t : Safe(t, Idle)
BY DEF Safe, Idle

LEMMA InitForest == Init => ForestInv
<1> SUFFICES ASSUME Init PROVE ForestInv
  OBVIOUS
<1>1. \A x \in Items : Par(rows)[x] = Root
  BY DEF Init, Par, NullRow
<1>2. ClosedFree(LiveIn(rows), Par(rows))
  BY <1>1, SentinelAssumption DEF ClosedFree, LiveIn
<1>3. \A r \in Requests : req[r] = Idle
  BY DEF Init
<1> QED
  BY <1>2, <1>3, IdleSafe DEF ForestInv, NewItemsDiffer, AtMostOneWriter, Writing, Idle

Table == [Items -> Row]

\* What a table has when no row hangs under an unused one.
NoneUnderUnused(t) ==
  \A i \in Items : t[i].parent # Root => t[i].parent \in Items /\ t[t[i].parent].state # "unused"

\* The two changes to the table that are not a Save.
Prunes(t, u) ==
  \A x \in Items :
    /\ u[x].state = "live" => t[x].state = "live" /\ u[x].parent = t[x].parent
    /\ t[x].state = "unused" <=> u[x].state = "unused"

Plants(t, u, j, d) ==
  /\ j \in Items /\ t[j].state = "unused"
  /\ d # Root => d \in Items /\ t[d].state # "unused"
  /\ u = [t EXCEPT ![j] = [state |-> "live", parent |-> d, starred |-> FALSE]]

\* A record that a step of another request leaves alone stays safe.
LEMMA SafeWhenPruned ==
  ASSUME NEW t \in Table, NEW u \in Table, Prunes(t, u),
         NEW q \in Request, Phase(q), Safe(t, q)
  PROVE  Safe(u, q)
<1>1. q.pc # "idle" => q.item \in Items
  BY DEF Phase
<1>2. q.pc = "walk" => WalkInv(u, q)
  BY DEF Prunes, Safe, WalkInv, Phase, Request
<1>3. ASSUME q.pc = "save" PROVE ClosedFree(LiveIn(u) \cup {q.item}, ParSaved(u, q))
  <2>1. LiveIn(u) \cup {q.item} \in SUBSET (LiveIn(t) \cup {q.item})
    BY DEF Prunes, LiveIn
  <2>2. \A x \in LiveIn(u) \cup {q.item} : ParSaved(u, q)[x] = ParSaved(t, q)[x]
    BY <1>1, <1>3 DEF Prunes, ParSaved, LiveIn
  <2>3. ClosedFree(LiveIn(t) \cup {q.item}, ParSaved(t, q))
    BY <1>3 DEF Safe
  <2> QED
    BY <2>1, <2>2, <2>3, Prune
<1> QED
  BY <1>1, <1>2, <1>3 DEF Safe, Prunes, Phase, Request

LEMMA SafeWhenPlanted ==
  ASSUME NEW t \in Table, NoneUnderUnused(t), NEW u \in Table, NEW j, NEW d,
         Plants(t, u, j, d),
         NEW q \in Request, Phase(q), Safe(t, q),
         q.snap.parent # Root =>
           q.snap.parent \in Items /\ t[q.snap.parent].state # "unused",
         q.op = "create" => q.item # j
  PROVE  Safe(u, q)
<1>0. \A x \in Items : x # j => u[x] = t[x]
  BY DEF Plants, Table
<1>1. q.pc = "walk" => WalkInv(u, q)
  BY <1>0 DEF Plants, Safe, WalkInv, Phase, Request
<1>2. ASSUME q.pc = "save" PROVE ClosedFree(LiveIn(u) \cup {q.item}, ParSaved(u, q))
  <2>1. q.item \in Items /\ q.item # j
    BY <1>2 DEF Plants, Safe, Phase
  <2>2. LiveIn(u) \cup {q.item} = LiveIn(t) \cup {q.item} \cup {j}
    BY <1>0 DEF Plants, LiveIn, Table, Row
  <2>3. \A x \in LiveIn(t) \cup {q.item} :
          ParSaved(u, q)[x] = ParSaved(t, q)[x] /\ ParSaved(t, q)[x] # j
    BY <1>0, <2>1, SentinelAssumption DEF Plants, ParSaved, LiveIn, NoneUnderUnused
  <2>4. ParSaved(u, q)[j] # j
    BY <2>1, SentinelAssumption DEF Plants, ParSaved, Table
  <2>5. ClosedFree(LiveIn(t) \cup {q.item}, ParSaved(t, q))
    BY <1>2 DEF Safe
  <2>6. ClosedFree(LiveIn(t) \cup {q.item} \cup {j}, ParSaved(u, q))
    BY <2>3, <2>4, <2>5, AddLeaf
  <2> QED
    BY <2>2, <2>6
<1> QED
  BY <1>0, <1>1, <1>2 DEF Safe, Plants, Phase, Request

LEMMA ForestWhenPlanted ==
  ASSUME NEW t \in Table, NoneUnderUnused(t), NEW u \in Table, NEW j, NEW d,
         Plants(t, u, j, d), ClosedFree(LiveIn(t), Par(t))
  PROVE  ClosedFree(LiveIn(u), Par(u))
<1>1. LiveIn(u) = LiveIn(t) \cup {j}
  BY DEF Plants, LiveIn, Table, Row
<1>2. \A x \in LiveIn(t) : Par(u)[x] = Par(t)[x] /\ Par(t)[x] # j
  BY SentinelAssumption DEF Plants, Par, LiveIn, NoneUnderUnused, Table
<1>3. Par(u)[j] # j
  BY SentinelAssumption DEF Plants, Par, Table
<1>4. ClosedFree(LiveIn(t) \cup {j}, Par(u))
  BY <1>2, <1>3, AddLeaf
<1> QED
  BY <1>1, <1>4

\* Only Start gives a request its item, so new rows keep distinct ids.
Continues(q, r) == q = Idle \/ (q.op = req[r].op /\ q.item = req[r].item)

LEMMA NewItemsKept ==
  ASSUME TypeInv, NewItemsDiffer, NEW r \in Requests, NEW q, Becomes(r, q), Continues(q, r)
  PROVE  NewItemsDiffer'
<1> SUFFICES ASSUME NEW p1 \in Requests, NEW p2 \in Requests,
                    req'[p1].op = "create", req'[p1].item = req'[p2].item
             PROVE  p1 = p2
  BY DEF NewItemsDiffer
<1>1. \A p \in Requests : req'[p] = IF p = r THEN q ELSE req[p]
  BY DEF Becomes, TypeInv, TypeOK
<1>2. Idle.op = "none" /\ Idle.item = Root
  BY DEF Idle
<1>3. req[p1].op = "create" /\ req[p1].item = req'[p1].item
  BY <1>1, <1>2 DEF Continues
<1>4. req[p1].item \in Items
  BY <1>3 DEF TypeInv, PhaseInv, Phase
<1>5. req[p2].item = req'[p2].item
  BY <1>1, <1>2, <1>3, <1>4, SentinelAssumption DEF Continues
<1> QED
  BY <1>3, <1>5 DEF NewItemsDiffer

\* What a step of request r has to show: the new table is a forest, and the
\* request's new record and those of the other requests are safe on it.
LEMMA ForestStep ==
  ASSUME AllInv, AtMostOneWriter', NEW r \in Requests, NEW q, Becomes(r, q), Continues(q, r),
         ClosedFree(LiveIn(rows'), Par(rows')), Safe(rows', q),
         \A p \in Requests : p # r => Safe(rows', req[p])
  PROVE  ForestInv'
<1>1. NewItemsDiffer'
  BY NewItemsKept DEF AllInv, ForestInv
<1>2. \A p \in Requests : Safe(rows', req'[p])
  BY DEF Becomes, AllInv, TypeInv, TypeOK
<1> QED
  BY <1>1, <1>2 DEF ForestInv

\* A step that leaves the table alone.
LEMMA ForestSameTable ==
  ASSUME AllInv, AtMostOneWriter', NEW r \in Requests, NEW q, Becomes(r, q), Continues(q, r),
         UNCHANGED rows, Safe(rows, q)
  PROVE  ForestInv'
BY ForestStep DEF AllInv, ForestInv

\* A step that removes rows, or loses the request's plans, without a Save.
LEMMA ForestPruned ==
  ASSUME AllInv, AtMostOneWriter', NEW r \in Requests, NEW q, Becomes(r, q), Continues(q, r),
         rows' \in Table, Prunes(rows, rows'), Safe(rows', q)
  PROVE  ForestInv'
<1>0. rows \in Table
  BY DEF AllInv, TypeInv, TypeOK, Table
<1>1. ClosedFree(LiveIn(rows'), Par(rows'))
  <2>1. LiveIn(rows') \in SUBSET LiveIn(rows)
    BY DEF Prunes, LiveIn
  <2>2. \A x \in LiveIn(rows') : Par(rows')[x] = Par(rows)[x]
    BY DEF Prunes, LiveIn, Par
  <2> QED
    BY <2>1, <2>2, Prune DEF AllInv, ForestInv
<1>2. ASSUME NEW p \in Requests PROVE Safe(rows', req[p])
  BY <1>0, SafeWhenPruned DEF AllInv, ForestInv, TypeInv, TypeOK, PhaseInv
<1> QED
  BY <1>1, <1>2, ForestStep

LEMMA StartForest ==
  ASSUME AllInv, AtMostOneWriter', NEW r \in Requests, Start(r)
  PROVE  ForestInv'
<1>0. UNCHANGED rows /\ At(r, "idle")
  BY DEF Start, StartCreate, StartUpdate, StartOnItem
<1>1. PICK q \in Request :
        /\ Becomes(r, q)
        /\ q.seen = {} /\ q.pc \notin {"walk", "save"}
        /\ q.op # "none" /\ q.item \in Items
        /\ q.op = "create" => /\ rows[q.item].state = "unused"
                              /\ \A p \in Requests : req[p].item # q.item
        /\ q.op # "create" => rows[q.item].state # "unused"
  <2>1. CASE \E i \in Folders, d \in Items \cup {Root} : StartCreate(r, i, d)
    <3>1. PICK i \in Folders, d \in Items \cup {Root} : StartCreate(r, i, d)
      BY <2>1
    <3> DEFINE l == IF d = Root THEN "insert" ELSE "checkParent"
               q == [Idle EXCEPT !.op = "create", !.item = i, !.dest = d, !.pc = l]
    <3>0. l \in {"insert", "checkParent"} /\ (l = "insert" => d = Root)
      OBVIOUS
    <3>a. Becomes(r, q)
      BY <3>1 DEF StartCreate
    <3> HIDE DEF l
    <3>2. q \in Request
      BY <3>0, CreateType
    <3>3. /\ q.seen = {} /\ q.pc \in {"insert", "checkParent"}
          /\ q.op = "create" /\ q.item = i /\ i \in Items
      BY <3>0 DEF Idle, Items
    <3> HIDE DEF q
    <3> QED
      BY <3>1, <3>2, <3>3, <3>a DEF StartCreate
  <2>2. CASE \E i \in Items, d \in Items \cup {Root, NoMove} : StartUpdate(r, i, d)
    <3>1. PICK i \in Items, d \in Items \cup {Root, NoMove} : StartUpdate(r, i, d)
      BY <2>2
    <3> DEFINE q == [Idle EXCEPT !.op = "update", !.item = i, !.dest = d, !.pc = "readItem"]
    <3>2. q \in Request /\ q.seen = {} /\ q.pc = "readItem" /\ q.op = "update" /\ q.item = i
      BY IdleType DEF Request, Idle, AllOps
    <3> QED
      BY <3>1, <3>2 DEF StartUpdate
  <2>3. CASE \E i \in Items, op \in Ops : StartOnItem(r, i, op)
    <3>1. PICK i \in Items, op \in Ops : StartOnItem(r, i, op)
      BY <2>3
    <3> DEFINE q == [Idle EXCEPT !.op = op, !.item = i, !.pc = "readItem"]
    <3>2. q \in Request /\ q.seen = {} /\ q.pc = "readItem" /\ q.op = op /\ q.item = i
          /\ op \notin {"none", "create"}
      BY <3>1, IdleType DEF StartOnItem, Request, Idle, AllOps
    <3> QED
      BY <3>1, <3>2 DEF StartOnItem
  <2> QED
    BY <2>1, <2>2, <2>3 DEF Start
<1>2. Safe(rows, q)
  BY <1>1 DEF Safe
<1>3. \A p \in Requests : req'[p] = IF p = r THEN q ELSE req[p]
  BY <1>1 DEF Becomes, AllInv, TypeInv, TypeOK
<1>4. NewItemsDiffer'
  <2> SUFFICES ASSUME NEW p1 \in Requests, NEW p2 \in Requests, p1 # p2,
                      req'[p1].op = "create", req'[p1].item = req'[p2].item
               PROVE  FALSE
    BY DEF NewItemsDiffer
  <2>1. CASE p1 = r
    BY <1>1, <1>3, <2>1
  <2>2. CASE p2 = r
    <3>1. rows[req[p1].item].state = "unused" /\ req[p1].item = q.item
      BY <1>3, <2>2 DEF AllInv, ForestInv, Safe
    <3> QED
      BY <1>1, <1>3, <2>2, <3>1
  <2>3. CASE p1 # r /\ p2 # r
    BY <1>3, <2>3 DEF AllInv, ForestInv, NewItemsDiffer
  <2> QED
    BY <2>1, <2>2, <2>3
<1> QED
  BY <1>0, <1>2, <1>3, <1>4 DEF AllInv, ForestInv

LEMMA InsertForest ==
  ASSUME AllInv, AtMostOneWriter', NEW r \in Requests, InsertFolder(r)
  PROVE  ForestInv'
<1> DEFINE j == req[r].item
           d == req[r].dest
<1>0. /\ rows \in Table /\ req[r] \in Request
      /\ Phase(req[r]) /\ CarriesGood(req[r]) /\ Safe(rows, req[r])
  BY DEF AllInv, TypeInv, TypeOK, PhaseInv, HangInv, ForestInv, Table
<1>1. NoneUnderUnused(rows)
  BY DEF AllInv, HangInv, GoodParent, NoneUnderUnused, Items
<1>2. req[r].op = "create" /\ j \in Items /\ d \in Items \cup {Root}
  BY <1>0 DEF InsertFolder, At, Phase, Request
<1>3. Plants(rows, rows', j, d)
  BY <1>0, <1>2 DEF InsertFolder, At, Plants, Safe, CarriesGood, GoodParent, Items
<1>4. rows' \in Table
  BY <1>0, <1>2, <1>3 DEF Plants, Table, Row
<1>5. ASSUME NEW p \in Requests, p # r PROVE Safe(rows', req[p])
  <2>1. req[p].op = "create" => req[p].item # j
    BY <1>5 DEF AllInv, ForestInv, NewItemsDiffer
  <2>2. req[p].snap.parent # Root =>
          req[p].snap.parent \in Items /\ rows[req[p].snap.parent].state # "unused"
    BY DEF AllInv, HangInv, CarriesGood, GoodParent, Items
  <2>3. req[p] \in Request /\ Phase(req[p]) /\ Safe(rows, req[p])
    BY DEF AllInv, ForestInv, TypeInv, TypeOK, PhaseInv
  <2> QED
    BY <1>0, <1>1, <1>3, <1>4, <2>1, <2>2, <2>3, SafeWhenPlanted
<1>6. ClosedFree(LiveIn(rows'), Par(rows'))
  <2> HIDE DEF j, d
  <2> QED
    BY <1>0, <1>1, <1>3, <1>4, ForestWhenPlanted DEF AllInv, ForestInv
<1>7. Becomes(r, Idle) /\ Continues(Idle, r)
  BY DEF InsertFolder, Finish, Continues
<1> QED
  BY <1>5, <1>6, <1>7, IdleSafe, ForestStep

LEMMA SaveForest ==
  ASSUME AllInv, AtMostOneWriter', NEW r \in Requests, SaveItem(r)
  PROVE  ForestInv'
<1> DEFINE i == req[r].item
<1>0. /\ rows \in Table /\ req[r] \in Request
      /\ Phase(req[r]) /\ Safe(rows, req[r]) /\ CarriesGood(req[r])
  BY DEF AllInv, TypeInv, TypeOK, PhaseInv, ForestInv, Table, HangInv
<1>1. i \in Items /\ Writing(r) /\ rows[i].state # "unused" /\ req[r].snap.state # "unused"
  BY <1>0 DEF SaveItem, At, Phase, Writing, Safe, CarriesGood
<1>2. rows' = [rows EXCEPT ![i] = req[r].snap]
  BY DEF SaveItem
<1>3. ClosedFree(LiveIn(rows'), Par(rows'))
  <2>1. LiveIn(rows') \in SUBSET (LiveIn(rows) \cup {i})
    BY <1>0, <1>2 DEF LiveIn, Table
  <2>2. \A x \in LiveIn(rows') : Par(rows')[x] = ParSaved(rows, req[r])[x]
    BY <1>0, <1>2 DEF LiveIn, Par, ParSaved, Table
  <2>3. ClosedFree(LiveIn(rows) \cup {i}, ParSaved(rows, req[r]))
    BY <1>0 DEF SaveItem, At, Safe
  <2> QED
    BY <2>1, <2>2, <2>3, Prune
<1>4. ASSUME NEW p \in Requests, p # r PROVE Safe(rows', req[p])
  <2>1. ~Writing(p)
    BY <1>1, <1>4 DEF AllInv, ForestInv, AtMostOneWriter
  <2>2. req[p] \in Request /\ Phase(req[p]) /\ Safe(rows, req[p])
    BY DEF AllInv, ForestInv, TypeInv, TypeOK, PhaseInv
  <2>3. req[p].pc \notin {"walk", "save"}
    BY <2>1, <2>2 DEF Phase, Writing
  <2>4. req[p].op # "none" => req[p].item \in Items
    BY <2>2 DEF Phase
  <2> QED
    BY <1>0, <1>1, <1>2, <2>2, <2>3, <2>4 DEF Safe, Table, Request
<1>5. Becomes(r, Idle) /\ Continues(Idle, r)
  BY DEF SaveItem, Finish, Continues
<1> QED
  BY <1>3, <1>4, <1>5, IdleSafe, ForestStep

\* The steps that read: the table stays, and what the request learns is safe.
LEMMA ReadForest ==
  ASSUME AllInv, AtMostOneWriter', NEW r \in Requests, ReadItem(r)
  PROVE  ForestInv'
<1>0. /\ rows \in Table /\ req[r] \in Request
      /\ Phase(req[r]) /\ Safe(rows, req[r])
  BY DEF AllInv, TypeInv, TypeOK, PhaseInv, ForestInv, Table
<1>1. UNCHANGED rows
  BY DEF ReadItem
<1>2. CASE Finish(r)
  BY <1>1, <1>2, IdleSafe, ForestSameTable DEF Finish, Continues
<1>3. CASE Live(req[r].item) /\ ~Finish(r)
  <2> DEFINE i == req[r].item
             q == [req[r] EXCEPT !.snap = RowRead(r), !.pc = AfterRead(r)]
  <2>1. i \in Items /\ RowRead(r) \in Row /\ req[r].op \notin {"none", "create"}
    BY <1>0, RowReadType DEF ReadItem, At, Phase, AllInv, TypeInv
  <2>2. AfterRead(r) \in {"save", "checkDest", "trash", "getDriver"}
    BY DEF AfterRead
  <2>3. AfterRead(r) = "save" => RowRead(r).parent = rows[i].parent
    <3>1. [rows[i] EXCEPT !.starred = ~@].parent = rows[i].parent
      BY <1>0, <2>1 DEF Table, Row
    <3>2. AfterRead(r) = "save" => req[r].op \in {"update", "star"}
      BY DEF AfterRead
    <3> QED
      BY <3>1, <3>2 DEF RowRead
  <2>4. /\ q.op = req[r].op /\ q.item = i /\ q.seen = {} /\ q.pc = AfterRead(r)
        /\ q.snap = RowRead(r)
    BY <1>0 DEF ReadItem, At, Request, Safe
  <2>5. ASSUME q.pc = "save"
        PROVE  ClosedFree(LiveIn(rows) \cup {q.item}, ParSaved(rows, q))
    <3>1. LiveIn(rows) \cup {q.item} = LiveIn(rows)
      BY <1>3, <2>1, <2>4 DEF LiveIn, Live
    <3>2. \A x \in LiveIn(rows) : ParSaved(rows, q)[x] = Par(rows)[x]
      BY <2>3, <2>4, <2>5 DEF ParSaved, Par, LiveIn
    <3>3. ClosedFree(LiveIn(rows), Par(rows))
      BY DEF AllInv, ForestInv
    <3> HIDE DEF q
    <3> QED
      BY <3>1, <3>2, <3>3, Prune
  <2>6. Becomes(r, q)
    BY <1>3 DEF ReadItem
  <2> HIDE DEF q
  <2>7. Safe(rows, q)
    BY <1>0, <2>1, <2>2, <2>4, <2>5 DEF Safe
  <2> QED
    BY <1>1, <2>4, <2>6, <2>7, ForestSameTable DEF Continues
<1> QED
  BY <1>2, <1>3 DEF ReadItem

LEMMA CheckDestinationForest ==
  ASSUME AllInv, AtMostOneWriter', NEW r \in Requests, CheckDestination(r)
  PROVE  ForestInv'
<1> DEFINE i == req[r].item
           d == req[r].dest
           p == [req[r] EXCEPT !.snap.parent = Root, !.pc = "save"]
           q == [req[r] EXCEPT !.snap.parent = d, !.cur = d, !.pc = "walk"]
<1>0. /\ rows \in Table /\ req[r] \in Request
      /\ Phase(req[r]) /\ Safe(rows, req[r])
      /\ ClosedFree(LiveIn(rows), Par(rows))
  BY DEF AllInv, TypeInv, TypeOK, PhaseInv, ForestInv, Table
<1>1. i \in Items /\ req[r].op = "update" /\ req[r].seen = {} /\ rows[i].state # "unused"
  BY <1>0 DEF CheckDestination, At, Phase, Safe
<1>2. Safe(rows, p) /\ Continues(p, r)
  <2>1. /\ p.op = "update" /\ p.item = i /\ p.seen = {} /\ p.pc = "save"
        /\ p.snap.parent = Root
    BY <1>0, <1>1 DEF Request, Row
  <2> HIDE DEF p
  <2>2. ClosedFree(LiveIn(rows) \cup {i}, ParSaved(rows, p))
    <3> SUFFICES ASSUME NEW S \in SUBSET (LiveIn(rows) \cup {i}), S # {},
                        \A x \in S : ParSaved(rows, p)[x] \in S
                 PROVE  FALSE
      BY DEF ClosedFree
    <3>1. i \notin S
      BY <1>1, <2>1, SentinelAssumption DEF ParSaved, LiveIn
    <3>2. S \in SUBSET LiveIn(rows) /\ \A x \in S : Par(rows)[x] \in S
      BY <2>1, <3>1 DEF ParSaved, Par, LiveIn
    <3> QED
      BY <1>0, <3>2 DEF ClosedFree
  <2> QED
    BY <1>1, <2>1, <2>2 DEF Safe, Continues
<1>3. d \in Items /\ d # i /\ IsFolderOf(d, i) => Safe(rows, q) /\ Continues(q, r)
  <2> SUFFICES ASSUME d \in Items, d # i, IsFolderOf(d, i)
               PROVE  Safe(rows, q) /\ Continues(q, r)
    OBVIOUS
  <2>1. /\ q.op = "update" /\ q.item = i /\ q.seen = {} /\ q.pc = "walk"
        /\ q.snap.parent = d /\ q.cur = d /\ q.dest = d
    BY <1>0, <1>1 DEF Request, Row
  <2> HIDE DEF q
  <2> QED
    BY <1>1, <2>1 DEF Safe, WalkInv, Continues, IsFolderOf, Live
<1>4. \/ Finish(r)
      \/ Becomes(r, p)
      \/ d \in Items /\ d # i /\ IsFolderOf(d, i) /\ Becomes(r, q)
  BY DEF CheckDestination
<1>5. UNCHANGED rows /\ Continues(Idle, r)
  BY DEF CheckDestination, Continues
<1> HIDE DEF p, q
<1> QED
  BY <1>2, <1>3, <1>4, <1>5, IdleSafe, ForestSameTable DEF Finish

\* The walk ends by its depth limit only on a drive of that many items.
LEMMA DepthNotReached ==
  ASSUME Cardinality(Items) < MaxDepth, NEW V \in SUBSET Items
  PROVE  ~(Cardinality(V) >= MaxDepth)
<1>1. Cardinality(V) <= Cardinality(Items)
  BY KindAssumption, FS_Subset
<1>2. Cardinality(V) \in Nat /\ Cardinality(Items) \in Nat
  BY CountIsNat
<1> QED
  BY <1>1, <1>2, LimitAssumption

LEMMA WalkForest ==
  ASSUME Cardinality(Items) < MaxDepth,
         AllInv, AtMostOneWriter', NEW r \in Requests, WalkUp(r)
  PROVE  ForestInv'
<1> DEFINE i == req[r].item
           c == req[r].cur
           V == req[r].seen \cup {c}
           p == [req[r] EXCEPT !.seen = @ \cup {c}, !.cur = Root, !.pc = "save"]
           q == [req[r] EXCEPT !.seen = @ \cup {c}, !.cur = rows[c].parent]
<1>0. /\ rows \in Table /\ req[r] \in Request
      /\ Phase(req[r]) /\ Safe(rows, req[r]) /\ req[r].pc = "walk"
      /\ ClosedFree(LiveIn(rows), Par(rows))
  BY DEF AllInv, TypeInv, TypeOK, PhaseInv, ForestInv, Table, WalkUp, At
<1>1. /\ i \in Items /\ c \in Items /\ V \in SUBSET Items /\ req[r].op = "update"
      /\ req[r].dest \in Items /\ rows[i].state # "unused"
  BY <1>0 DEF Phase, Safe, Request
<1>2. /\ i \notin req[r].seen
      /\ req[r].dest \in V
      /\ req[r].snap.parent = req[r].dest
      /\ SameDrive(c, i)
      /\ \A y \in V : rows[y].state # "unused"
      /\ \A y \in req[r].seen : rows[y].state = "live" => rows[y].parent \in V
  BY <1>0 DEF Safe, WalkInv
<1>3. GoodParent(rows[c].parent, c)
  BY <1>1 DEF AllInv, HangInv
<1>4. UNCHANGED rows
  BY DEF WalkUp
<1>5. CASE Becomes(r, p) /\ WalkEnds(r)
  <2>1. c # i /\ (c \in req[r].seen \/ ~Live(c) \/ rows[c].parent = Root)
    BY <1>0, <1>2, <1>5, DepthNotReached DEF WalkEnds, Request
  <2>2. /\ p.op = "update" /\ p.item = i /\ p.seen = V /\ p.pc = "save"
        /\ p.snap.parent = req[r].dest
    BY <1>0, <1>1, <1>2 DEF Request
  <2> HIDE DEF p
  <2>3. \A y \in V \cap LiveIn(rows) :
          Par(rows)[y] \in V \/ Par(rows)[y] \notin LiveIn(rows) \cup {i}
    <3> SUFFICES ASSUME NEW y \in V, y \in LiveIn(rows), rows[y].parent \notin V
                 PROVE  rows[y].parent \notin LiveIn(rows) \cup {i}
      BY DEF Par, LiveIn
    <3>1. y = c /\ rows[y].parent = Root
      BY <1>2, <2>1 DEF LiveIn, Live
    <3> QED
      BY <1>1, <3>1, SentinelAssumption DEF LiveIn
  <2>4. ClosedFree(LiveIn(rows) \cup {i}, ParSaved(rows, p))
    <3>1. /\ ParSaved(rows, p)[i] = req[r].dest
          /\ \A x \in LiveIn(rows) \ {i} : ParSaved(rows, p)[x] = Par(rows)[x]
      BY <1>1, <2>2 DEF ParSaved, Par, LiveIn
    <3>2. i \notin V
      BY <1>2, <2>1
    <3>3. Grafts(LiveIn(rows), Par(rows), ParSaved(rows, p), i, req[r].dest, V)
      BY <1>2, <2>3, <3>1, <3>2 DEF Grafts
    <3> QED
      BY <1>0, <3>3, Graft
  <2>5. Safe(rows, p) /\ Continues(p, r)
    BY <1>1, <1>2, <2>2, <2>4 DEF Safe, Continues
  <2> QED
    BY <1>4, <1>5, <2>5, ForestSameTable
<1>6. CASE Becomes(r, q) /\ ~WalkEnds(r) /\ c # i
  <2>1. /\ q.op = "update" /\ q.item = i /\ q.seen = V /\ q.pc = "walk"
        /\ q.snap.parent = req[r].dest /\ q.dest = req[r].dest
        /\ q.cur = rows[c].parent
    BY <1>0, <1>1, <1>2 DEF Request
  <2>2. rows[c].parent # Root /\ Live(c)
    BY <1>6 DEF WalkEnds
  <2>3. SameDrive(q.cur, i) /\ rows[q.cur].state # "unused"
    BY <1>2, <1>3, <2>1, <2>2 DEF GoodParent, SameDrive
  <2> HIDE DEF q
  <2>4. WalkInv(rows, q)
    BY <1>2, <1>6, <2>1, <2>3 DEF WalkInv
  <2>5. Safe(rows, q) /\ Continues(q, r)
    BY <1>1, <1>2, <2>1, <2>4 DEF Safe, Continues
  <2> QED
    BY <1>4, <1>6, <2>5, ForestSameTable
<1>7. CASE Finish(r)
  BY <1>4, <1>7, IdleSafe, ForestSameTable DEF Finish, Continues
<1> QED
  BY <1>5, <1>6, <1>7 DEF WalkUp

\* The steps that neither Save nor walk: what they write is pruned, what they
\* learn are ids of rows that exist.
LEMMA OtherForest ==
  ASSUME AllInv, AtMostOneWriter', NEW r \in Requests,
         \/ CheckParent(r) \/ GetDriver(r) \/ CollectRoot(r) \/ CollectChildren(r)
         \/ DeleteObjects(r) \/ SettleAccount(r)
  PROVE  ForestInv'
<1> DEFINE i == req[r].item
<1>0. /\ rows \in Table /\ req[r] \in Request
      /\ Phase(req[r]) /\ Safe(rows, req[r])
  BY DEF AllInv, TypeInv, TypeOK, PhaseInv, ForestInv, Table
<1>1. UNCHANGED rows
  BY DEF CheckParent, GetDriver, CollectRoot, CollectChildren, DeleteObjects, SettleAccount
<1>2. PICK q : /\ Becomes(r, q)
               /\ \/ q = Idle
                  \/ /\ q.item = i /\ q.op = req[r].op
                     /\ q.pc \in {"insert", "deleteObjects", "collectRoot", "collect",
                                  "purgeRows"}
                     /\ \A y \in q.seen : rows[y].state # "unused"
  <2>1. CASE CheckParent(r)
    <3> DEFINE q == [req[r] EXCEPT !.pc = "insert"]
    <3>1. q.item = i /\ q.op = req[r].op /\ q.pc = "insert" /\ q.seen = req[r].seen
      BY <1>0 DEF Request
    <3>2. Becomes(r, Idle) \/ Becomes(r, q)
      BY <2>1 DEF CheckParent, Finish
    <3> HIDE DEF q
    <3> QED
      BY <1>0, <3>1, <3>2 DEF Safe
  <2>2. CASE GetDriver(r)
    <3> DEFINE q(x) == [req[r] EXCEPT !.acct = x, !.seen = {req[r].item},
                                      !.pc = IF req[r].item \in Files THEN "deleteObjects"
                                                                      ELSE "collectRoot"]
    <3>1. PICK x : Becomes(r, q(x))
      BY <2>2 DEF GetDriver
    <3>2. /\ q(x).item = i /\ q(x).op = req[r].op /\ q(x).seen = {i}
          /\ q(x).pc \in {"deleteObjects", "collectRoot"}
      BY <1>0 DEF Request
    <3>3. rows[i].state # "unused"
      BY <1>0, <2>2 DEF GetDriver, At, Phase, Safe
    <3> HIDE DEF q
    <3> QED
      BY <3>1, <3>2, <3>3
  <2>3. CASE CollectRoot(r)
    <3> DEFINE q == [req[r] EXCEPT !.todo = {req[r].item}, !.pc = "collect"]
    <3>1. q.item = i /\ q.op = req[r].op /\ q.pc = "collect" /\ q.seen = req[r].seen
      BY <1>0 DEF Request
    <3>2. Becomes(r, Idle) \/ Becomes(r, q)
      BY <2>3 DEF CollectRoot, Finish
    <3> HIDE DEF q
    <3> QED
      BY <1>0, <3>1, <3>2 DEF Safe
  <2>4. CASE CollectChildren(r)
    <3> DEFINE p == [req[r] EXCEPT !.todo = {}, !.pc = "deleteObjects"]
               new(x) == ChildrenOf(x) \ req[r].seen
               q(x) == [req[r] EXCEPT !.seen = @ \cup new(x),
                                      !.todo = (@ \ {x}) \cup (new(x) \cap Folders)]
    <3>1. p.item = i /\ p.op = req[r].op /\ p.pc = "deleteObjects" /\ p.seen = req[r].seen
      BY <1>0 DEF Request
    <3>2. \A x : /\ q(x).item = i /\ q(x).op = req[r].op /\ q(x).pc = "collect"
                 /\ q(x).seen = req[r].seen \cup new(x)
      BY <1>0, <2>4 DEF CollectChildren, At, Request
    <3>3. Becomes(r, p) \/ \E x : Becomes(r, q(x))
      BY <2>4 DEF CollectChildren
    <3>4. \A x : \A y \in new(x) : rows[y].state # "unused"
      BY DEF ChildrenOf, Live
    <3> HIDE DEF p, q, new
    <3> QED
      BY <1>0, <3>1, <3>2, <3>3, <3>4 DEF Safe
  <2>5. CASE DeleteObjects(r)
    <3> DEFINE q == [req[r] EXCEPT !.pc = "purgeRows"]
    <3>1. q.item = i /\ q.op = req[r].op /\ q.pc = "purgeRows" /\ q.seen = req[r].seen
      BY <1>0 DEF Request
    <3>2. Becomes(r, q)
      BY <2>5 DEF DeleteObjects
    <3> HIDE DEF q
    <3> QED
      BY <1>0, <3>1, <3>2 DEF Safe
  <2>6. CASE SettleAccount(r)
    BY <2>6 DEF SettleAccount, Finish
  <2> QED
    BY <2>1, <2>2, <2>3, <2>4, <2>5, <2>6
<1>3. Safe(rows, q)
  BY <1>0, <1>2, IdleSafe DEF Safe
<1>4. Continues(q, r)
  BY <1>2 DEF Continues
<1> QED
  BY <1>1, <1>2, <1>3, <1>4, ForestSameTable

LEMMA RemoveForest ==
  ASSUME AllInv, AtMostOneWriter', NEW r \in Requests, TrashItem(r) \/ PurgeRows(r)
  PROVE  ForestInv'
<1>0. /\ rows \in Table /\ req[r] \in Request
      /\ Phase(req[r]) /\ Safe(rows, req[r])
  BY DEF AllInv, TypeInv, TypeOK, PhaseInv, ForestInv, Table
<1>1. CASE TrashItem(r)
  <2>1. req[r].item \in Items
    BY <1>0, <1>1 DEF TrashItem, At, Phase
  <2>2. Prunes(rows, rows') /\ rows' \in Table
    BY <1>0, <1>1, <2>1 DEF TrashItem, Prunes, Table, Row, Live
  <2> QED
    BY <1>1, <2>2, IdleSafe, ForestPruned DEF TrashItem, Finish, Continues
<1>2. CASE PurgeRows(r)
  <2> DEFINE q == [req[r] EXCEPT !.pc = "settle"]
  <2>1. q.item = req[r].item /\ q.op = req[r].op /\ q.pc = "settle" /\ q.seen = req[r].seen
    BY <1>0 DEF Request
  <2>2. Becomes(r, q)
    BY <1>2 DEF PurgeRows
  <2>3. \A y \in req[r].seen : rows[y].state # "unused"
    BY <1>0 DEF Safe
  <2>4. \A x \in Items : rows'[x] = IF x \in req[r].seen THEN GoneRow ELSE rows[x]
    BY <1>2 DEF PurgeRows
  <2>5. rows' \in Table
    BY <1>0, <1>2, NullRowType DEF PurgeRows, Table
  <2>6. GoneRow.state = "purged"
    BY DEF GoneRow, NullRow
  <2>7. Prunes(rows, rows')
    BY <2>3, <2>4, <2>6 DEF Prunes
  <2>8. Safe(rows', q)
    <3>1. req[r].item \in Items /\ req[r].op # "create" /\ req[r].op # "none"
      BY <1>0, <1>2 DEF PurgeRows, At, Phase
    <3>2. \A y \in req[r].seen : rows'[y].state # "unused"
      BY <1>0, <2>4, <2>6 DEF Request
    <3>3. rows'[req[r].item].state # "unused"
      BY <1>0, <2>4, <2>6, <3>1 DEF Safe
    <3> HIDE DEF q
    <3> QED
      BY <2>1, <3>1, <3>2, <3>3 DEF Safe
  <2> HIDE DEF q
  <2> QED
    BY <2>1, <2>2, <2>5, <2>7, <2>8, ForestPruned DEF Continues
<1> QED
  BY <1>1, <1>2

\* No step but the start of a request changes what the request is for.
LEMMA AdvanceKeepsOp ==
  ASSUME TypeInv, NEW r \in Requests, Advance(r)
  PROVE  /\ req'[r].op \in {req[r].op, "none"}
         /\ \A p \in Requests \ {r} : req'[p].op = req[p].op
<1> DEFINE Goal == /\ req'[r].op \in {req[r].op, "none"}
                   /\ \A p \in Requests \ {r} : req'[p].op = req[p].op
<1>0. req \in [Requests -> Request]
  BY DEF TypeInv, TypeOK
<1>1. ASSUME NEW q, Becomes(r, q), q.op \in {req[r].op, "none"}
      PROVE  Goal
  BY <1>0, <1>1 DEF Becomes
<1>2. CASE CheckParent(r) \/ InsertFolder(r) \/ ReadItem(r)
  BY <1>0, <1>2, <1>1 DEF CheckParent, InsertFolder, ReadItem, Finish, Idle, Request
<1>f. Idle.op = "none"
  BY DEF Idle
<1>3. CASE CheckDestination(r)
  <2> DEFINE p == [req[r] EXCEPT !.snap.parent = Root, !.pc = "save"]
             q == [req[r] EXCEPT !.snap.parent = req[r].dest, !.cur = req[r].dest, !.pc = "walk"]
  <2>1. p.op = req[r].op /\ q.op = req[r].op
    BY <1>0 DEF Request
  <2>2. Becomes(r, p) \/ Becomes(r, q) \/ Becomes(r, Idle)
    BY <1>3 DEF CheckDestination, Finish
  <2> HIDE DEF p, q
  <2> QED
    BY <1>1, <1>f, <2>1, <2>2
<1>4. CASE WalkUp(r) \/ SaveItem(r) \/ TrashItem(r)
  BY <1>0, <1>4, <1>1 DEF WalkUp, SaveItem, TrashItem, Finish, Idle, Request
<1>5. CASE GetDriver(r) \/ CollectRoot(r)
  BY <1>0, <1>5, <1>1 DEF GetDriver, CollectRoot, Finish, Idle, Request
<1>6. CASE CollectChildren(r)
  BY <1>0, <1>6, <1>1 DEF CollectChildren, Request
<1>7. CASE DeleteObjects(r) \/ PurgeRows(r) \/ SettleAccount(r)
  BY <1>0, <1>7, <1>1 DEF DeleteObjects, PurgeRows, SettleAccount, Finish, Idle, Request
<1> QED
  BY <1>2, <1>3, <1>4, <1>5, <1>6, <1>7 DEF Advance

LEMMA WriterStaysAlone ==
  ASSUME OneWriter \/ Serial, TypeInv, AtMostOneWriter, [Next]_vars
  PROVE  AtMostOneWriter'
<1> SUFFICES ASSUME OneWriter PROVE AtMostOneWriter'
  BY DEF Serial, AtMostOneWriter
<1>0. req \in [Requests -> Request]
  BY DEF TypeInv, TypeOK
<1>1. CASE Crash
  BY <1>1 DEF Crash, Idle, AtMostOneWriter, Writing
<1>2. ASSUME NEW r \in Requests, Start(r)
      PROVE  AtMostOneWriter'
  <2>1. PICK q : Becomes(r, q) /\ Admitted(q.op)
    <3>1. ASSUME NEW i \in Folders, NEW d \in Items \cup {Root}, StartCreate(r, i, d)
          PROVE  \E q : Becomes(r, q) /\ Admitted(q.op)
      <4> DEFINE q == [Idle EXCEPT !.op = "create", !.item = i, !.dest = d,
                               !.pc = IF d = Root THEN "insert" ELSE "checkParent"]
      <4>1. Becomes(r, q)
        BY <3>1 DEF StartCreate
      <4>2. q.op = "create"
        BY DEF Idle
      <4>3. Admitted("create")
        BY <3>1 DEF Admitted
      <4> QED
        BY <4>1, <4>2, <4>3
    <3>2. ASSUME NEW i \in Items, NEW d \in Items \cup {Root, NoMove}, StartUpdate(r, i, d)
          PROVE  \E q : Becomes(r, q) /\ Admitted(q.op)
      <4> DEFINE q == [Idle EXCEPT !.op = "update", !.item = i, !.dest = d, !.pc = "readItem"]
      <4>1. Becomes(r, q)
        BY <3>2 DEF StartUpdate
      <4>2. q.op = "update"
        BY DEF Idle
      <4>3. Admitted("update")
        BY <3>2 DEF StartUpdate
      <4> QED
        BY <4>1, <4>2, <4>3
    <3>3. ASSUME NEW i \in Items, NEW op \in Ops, StartOnItem(r, i, op)
          PROVE  \E q : Becomes(r, q) /\ Admitted(q.op)
      <4> DEFINE q == [Idle EXCEPT !.op = op, !.item = i, !.pc = "readItem"]
      <4>1. Becomes(r, q)
        BY <3>3 DEF StartOnItem
      <4>2. q.op = op
        BY DEF Idle
      <4>3. Admitted(op)
        BY <3>3 DEF StartOnItem
      <4> QED
        BY <4>1, <4>2, <4>3
    <3> QED
      BY <1>2, <3>1, <3>2, <3>3 DEF Start
  <2>2. req'[r].op = q.op /\ \A p \in Requests \ {r} : req'[p].op = req[p].op
    BY <1>0, <2>1 DEF Becomes
  <2> QED
    BY <2>1, <2>2 DEF Admitted, AtMostOneWriter, Writing
<1>3. ASSUME NEW r \in Requests, Advance(r)
      PROVE  AtMostOneWriter'
  BY <1>3, AdvanceKeepsOp DEF AtMostOneWriter, Writing
<1>4. CASE UNCHANGED vars
  BY <1>4 DEF vars, AtMostOneWriter, Writing
<1> QED
  BY <1>1, <1>2, <1>3, <1>4 DEF Next

LEMMA NextForest ==
  ASSUME Cardinality(Items) < MaxDepth, OneWriter \/ Serial, AllInv, [Next]_vars
  PROVE  AllInv'
<1>1. AtMostOneWriter'
  BY WriterStaysAlone DEF AllInv, ForestInv
<1>2. TypeInv' /\ HangInv'
  BY NextTypeInv, NextHang DEF AllInv
<1>3. ForestInv'
  <2>1. CASE Crash
    <3>1. UNCHANGED rows /\ \A r \in Requests : req'[r] = Idle
      BY <2>1 DEF Crash
    <3>2. NewItemsDiffer'
      BY <3>1 DEF NewItemsDiffer, Idle
    <3>3. \A r \in Requests : Safe(rows', req'[r])
      BY <3>1, IdleSafe
    <3> QED
      BY <1>1, <2>1, <3>1, <3>2, <3>3 DEF AllInv, ForestInv
  <2>2. ASSUME NEW r \in Requests, Start(r)
        PROVE  ForestInv'
    BY <1>1, <2>2, StartForest
  <2>3. ASSUME NEW r \in Requests, Advance(r)
        PROVE  ForestInv'
    BY <1>1, <2>3, InsertForest, ReadForest, CheckDestinationForest, WalkForest, SaveForest,
       RemoveForest, OtherForest
    DEF Advance
  <2>4. CASE UNCHANGED vars
    BY <2>4 DEF vars, AllInv, ForestInv, NewItemsDiffer, AtMostOneWriter, Writing
  <2> QED
    BY <2>1, <2>2, <2>3, <2>4 DEF Next
<1> QED
  BY <1>2, <1>3 DEF AllInv

\* While no two requests that Save an item overlap, the drive stays a forest:
\* isSelfOrDescendant suffices although it reads one row at a time and folders
\* are created, trashed and purged under it.  MaxDepth is the depth at which
\* the walk gives up and lets the move through.
THEOREM TreeStaysForest ==
  ASSUME Cardinality(Items) < MaxDepth, OneWriter \/ Serial
  PROVE  Spec => []Acyclic
<1>1. Init => AllInv
  BY InitTypeInv, InitHang, InitForest DEF AllInv
<1>2. AllInv /\ [Next]_vars => AllInv'
  BY NextForest
<1>3. AllInv => Acyclic
  BY DEF AllInv, ForestInv, ClosedFree, LiveIn, Par, Acyclic, AcyclicOn, LiveItems, Live
<1> QED
  BY <1>1, <1>2, <1>3, PTL DEF Spec

-----------------------------------------------------------------------------
(* Objects go before rows.                                                 *)

\* A row that will be written is live; a delete has its driver; and once it is
\* about to remove rows, the objects of all of them are gone from the bucket b.
Removes(q, b) ==
  /\ q.pc \in {"checkDest", "walk", "save"} => q.snap.state = "live"
  /\ q.pc \in {"collectRoot", "collect", "deleteObjects"} => q.acct # NoAccount
  /\ q.pc = "purgeRows" => q.seen \cap Files \cap b = {}

StoreInv == PurgedObjectsGone /\ \A r \in Requests : Removes(req[r], objects)

LEMMA IdleRemoves == \A b : Removes(Idle, b)
BY DEF Removes, Idle

LEMMA StoreStep ==
  ASSUME TypeInv, StoreInv, NEW r \in Requests, NEW q, Becomes(r, q), objects' \subseteq objects,
         Removes(q, objects'),
         \A f \in Files : rows'[f].state = "purged" => rows[f].state = "purged" \/ f \notin objects'
  PROVE  StoreInv'
<1>1. \A p \in Requests : req'[p] = IF p = r THEN q ELSE req[p]
  BY DEF Becomes, TypeInv, TypeOK
<1>2. \A p \in Requests : Removes(req[p], objects')
  BY DEF StoreInv, Removes
<1>3. PurgedObjectsGone'
  BY DEF StoreInv, PurgedObjectsGone
<1> QED
  BY <1>1, <1>2, <1>3 DEF StoreInv

\* A request that leaves the table and the bucket alone.
LEMMA StoreSame ==
  ASSUME TypeInv, StoreInv, NEW r \in Requests, NEW q, Becomes(r, q), UNCHANGED <<rows, objects>>,
         Removes(q, objects)
  PROVE  StoreInv'
BY StoreStep

LEMMA StartStore ==
  ASSUME TypeInv, StoreInv, NEW r \in Requests, Start(r)
  PROVE  StoreInv'
<1>1. UNCHANGED <<rows, objects>>
  BY DEF Start, StartCreate, StartUpdate, StartOnItem
<1>2. PICK q : Becomes(r, q) /\ q.pc \in {"insert", "checkParent", "readItem"}
  <2>1. ASSUME NEW i \in Folders, NEW d \in Items \cup {Root}, StartCreate(r, i, d)
        PROVE  \E q : Becomes(r, q) /\ q.pc \in {"insert", "checkParent", "readItem"}
    <3> DEFINE q == [Idle EXCEPT !.op = "create", !.item = i, !.dest = d,
                             !.pc = IF d = Root THEN "insert" ELSE "checkParent"]
    <3>1. Becomes(r, q)
      BY <2>1 DEF StartCreate
    <3>2. q.pc \in {"insert", "checkParent", "readItem"}
      BY DEF Idle
    <3> QED
      BY <3>1, <3>2
  <2>2. ASSUME NEW i \in Items, NEW d \in Items \cup {Root, NoMove}, StartUpdate(r, i, d)
        PROVE  \E q : Becomes(r, q) /\ q.pc \in {"insert", "checkParent", "readItem"}
    <3> DEFINE q == [Idle EXCEPT !.op = "update", !.item = i, !.dest = d, !.pc = "readItem"]
    <3>1. Becomes(r, q)
      BY <2>2 DEF StartUpdate
    <3>2. q.pc = "readItem"
      BY DEF Idle
    <3> QED
      BY <3>1, <3>2
  <2>3. ASSUME NEW i \in Items, NEW op \in Ops, StartOnItem(r, i, op)
        PROVE  \E q : Becomes(r, q) /\ q.pc \in {"insert", "checkParent", "readItem"}
    <3> DEFINE q == [Idle EXCEPT !.op = op, !.item = i, !.pc = "readItem"]
    <3>1. Becomes(r, q)
      BY <2>3 DEF StartOnItem
    <3>2. q.pc = "readItem"
      BY DEF Idle
    <3> QED
      BY <3>1, <3>2
  <2> QED
    BY <2>1, <2>2, <2>3 DEF Start
<1>3. Removes(q, objects)
  BY <1>2 DEF Removes
<1> QED
  BY <1>1, <1>2, <1>3, StoreSame

LEMMA FinishStore ==
  ASSUME TypeInv, StoreInv, NEW r \in Requests, Finish(r), objects' = objects,
         \A f \in Files : rows'[f].state = "purged" => rows[f].state = "purged"
  PROVE  StoreInv'
<1>1. Becomes(r, Idle) /\ Removes(Idle, objects')
  BY IdleRemoves DEF Finish
<1>2. \A f \in Files : rows'[f].state = "purged" => rows[f].state = "purged" \/ f \notin objects'
  OBVIOUS
<1>3. objects' \subseteq objects
  OBVIOUS
<1> QED
  BY <1>1, <1>2, <1>3, StoreStep

\* Creating, moving and starring neither remove a row nor keep one that is gone.
LEMMA WriteStore ==
  ASSUME TypeInv, StoreInv, NEW r \in Requests,
         \/ CheckParent(r) \/ InsertFolder(r) \/ ReadItem(r) \/ CheckDestination(r)
         \/ WalkUp(r) \/ SaveItem(r) \/ TrashItem(r)
  PROVE  StoreInv'
<1>0. /\ req[r] \in Request /\ rows \in [Items -> Row] /\ Removes(req[r], objects)
      /\ req[r].pc # "idle" => req[r].item \in Items
  BY DEF TypeInv, TypeOK, PhaseInv, Phase, StoreInv
<1>1. CASE CheckParent(r)
  <2> DEFINE q == [req[r] EXCEPT !.pc = "insert"]
  <2>1. Removes(q, objects)
    BY <1>0 DEF Removes, Request
  <2>2. Finish(r) \/ Becomes(r, q)
    BY <1>1 DEF CheckParent
  <2>3. UNCHANGED <<rows, objects>>
    BY <1>1 DEF CheckParent
  <2> HIDE DEF q
  <2> QED
    BY <2>1, <2>2, <2>3, StoreSame, FinishStore
<1>2. CASE InsertFolder(r)
  <2>1. Finish(r) /\ objects' = objects
    BY <1>2 DEF InsertFolder
  <2>2. \A f \in Files : rows'[f].state = "purged" => rows[f].state = "purged"
    BY <1>0, <1>2 DEF InsertFolder, Items
  <2> QED
    BY <2>1, <2>2, FinishStore
<1>3. CASE ReadItem(r)
  <2>1. UNCHANGED <<rows, objects>>
    BY <1>3 DEF ReadItem
  <2>2. CASE Finish(r)
    BY <2>1, <2>2, FinishStore
  <2>3. CASE /\ Live(req[r].item)
             /\ Becomes(r, [req[r] EXCEPT !.snap = RowRead(r), !.pc = AfterRead(r)])
    <3> DEFINE q == [req[r] EXCEPT !.snap = RowRead(r), !.pc = AfterRead(r)]
    <3>1. q.snap = RowRead(r) /\ q.pc = AfterRead(r)
      BY <1>0 DEF Request
    <3>2. Becomes(r, q)
      BY <2>3
    <3> HIDE DEF q
    <3>3. rows[req[r].item] \in Row /\ rows[req[r].item].state = "live"
      BY <1>0, <1>3, <2>3 DEF ReadItem, At, Live
    <3>4. q.pc \in {"checkDest", "save"} => q.snap.state = "live"
      BY <3>1, <3>3 DEF AfterRead, RowRead, Row
    <3>5. q.pc \in {"checkDest", "save", "trash", "getDriver"}
      BY <3>1 DEF AfterRead
    <3>6. Removes(q, objects)
      BY <3>4, <3>5 DEF Removes
    <3> QED
      BY <2>1, <3>2, <3>6, StoreSame
  <2> QED
    BY <1>3, <2>2, <2>3 DEF ReadItem
<1>4. CASE CheckDestination(r)
  <2> DEFINE p == [req[r] EXCEPT !.snap.parent = Root, !.pc = "save"]
             q == [req[r] EXCEPT !.snap.parent = req[r].dest, !.cur = req[r].dest, !.pc = "walk"]
  <2>1. UNCHANGED <<rows, objects>> /\ req[r].snap \in Row /\ req[r].snap.state = "live"
    BY <1>0, <1>4 DEF CheckDestination, At, Removes, Request
  <2>2. /\ p.pc = "save" /\ p.snap.state = "live"
        /\ q.pc = "walk" /\ q.snap.state = "live"
    BY <1>0, <2>1 DEF Request, Row
  <2>3. Finish(r) \/ Becomes(r, p) \/ Becomes(r, q)
    BY <1>4 DEF CheckDestination
  <2> HIDE DEF p, q
  <2>4. Removes(p, objects) /\ Removes(q, objects)
    BY <2>2 DEF Removes
  <2> QED
    BY <2>1, <2>3, <2>4, StoreSame, FinishStore
<1>5. CASE WalkUp(r)
  <2> DEFINE p == [req[r] EXCEPT !.seen = @ \cup {req[r].cur}, !.cur = Root, !.pc = "save"]
             q == [req[r] EXCEPT !.seen = @ \cup {req[r].cur}, !.cur = rows[req[r].cur].parent]
  <2>1. UNCHANGED <<rows, objects>> /\ req[r].pc = "walk"
    BY <1>5 DEF WalkUp, At
  <2>2. /\ p.pc = "save" /\ p.snap = req[r].snap
        /\ q.pc = "walk" /\ q.snap = req[r].snap
    BY <1>0, <2>1 DEF Request
  <2>3. Finish(r) \/ Becomes(r, p) \/ Becomes(r, q)
    BY <1>5 DEF WalkUp
  <2> HIDE DEF p, q
  <2>4. Removes(p, objects) /\ Removes(q, objects)
    BY <1>0, <2>1, <2>2 DEF Removes
  <2> QED
    BY <2>1, <2>3, <2>4, StoreSame, FinishStore
<1>6. CASE SaveItem(r)
  <2>1. Finish(r) /\ objects' = objects /\ req[r].snap.state = "live"
    BY <1>0, <1>6 DEF SaveItem, At, Removes
  <2>2. \A f \in Files : rows'[f].state = "purged" => rows[f].state = "purged"
    BY <1>0, <1>6, <2>1 DEF SaveItem, Items
  <2> QED
    BY <2>1, <2>2, FinishStore
<1>7. CASE TrashItem(r)
  <2>1. Finish(r) /\ objects' = objects
    BY <1>7 DEF TrashItem
  <2>2. \A f \in Files : rows'[f].state = "purged" => rows[f].state = "purged"
    BY <1>0, <1>7 DEF TrashItem, Items, Row
  <2> QED
    BY <2>1, <2>2, FinishStore
<1> QED
  BY <1>1, <1>2, <1>3, <1>4, <1>5, <1>6, <1>7

\* A permanent delete with a driver and a bucket that answers.
LEMMA PurgeStore ==
  ASSUME TypeInv, StoreInv, ~DriverMayFail, ~S3MayFail, NEW r \in Requests,
         \/ GetDriver(r) \/ CollectRoot(r) \/ CollectChildren(r)
         \/ DeleteObjects(r) \/ PurgeRows(r) \/ SettleAccount(r)
  PROVE  StoreInv'
<1>0. /\ req[r] \in Request /\ rows \in [Items -> Row] /\ Removes(req[r], objects)
      /\ req[r].pc # "idle" => req[r].item \in Items
  BY DEF TypeInv, TypeOK, PhaseInv, Phase, StoreInv
<1>1. CASE GetDriver(r)
  <2> DEFINE u == used[AccountOf[req[r].item]]
             l == IF req[r].item \in Files THEN "deleteObjects" ELSE "collectRoot"
             q == [req[r] EXCEPT !.acct = u, !.seen = {req[r].item}, !.pc = l]
  <2>1. u \in Nat
    BY <1>0, <1>1, AccountAssumption DEF GetDriver, At, TypeInv, TypeOK
  <2>2. Becomes(r, q)
    BY <1>1 DEF GetDriver
  <2>3. q.acct = u /\ q.pc = l
    BY <1>0 DEF Request
  <2>4. l \in {"deleteObjects", "collectRoot"}
    OBVIOUS
  <2> HIDE DEF q, u, l
  <2>5. Removes(q, objects)
    BY <2>1, <2>3, <2>4 DEF Removes, NoAccount
  <2> QED
    BY <1>1, <2>2, <2>5, StoreSame DEF GetDriver
<1>2. CASE CollectRoot(r)
  <2> DEFINE q == [req[r] EXCEPT !.todo = {req[r].item}, !.pc = "collect"]
  <2>1. q.pc = "collect" /\ q.acct = req[r].acct
    BY <1>0 DEF Request
  <2>2. Finish(r) \/ Becomes(r, q)
    BY <1>2 DEF CollectRoot
  <2>3. UNCHANGED <<rows, objects>> /\ req[r].pc = "collectRoot"
    BY <1>2 DEF CollectRoot, At
  <2> HIDE DEF q
  <2>4. Removes(q, objects)
    BY <1>0, <2>1, <2>3 DEF Removes
  <2> QED
    BY <2>2, <2>3, <2>4, StoreSame, FinishStore
<1>3. CASE CollectChildren(r)
  <2> DEFINE new(x) == ChildrenOf(x) \ req[r].seen
             p == [req[r] EXCEPT !.todo = {}, !.pc = "deleteObjects"]
             q(x) == [req[r] EXCEPT !.seen = @ \cup new(x),
                                    !.todo = (@ \ {x}) \cup (new(x) \cap Folders)]
  <2>1. UNCHANGED <<rows, objects>> /\ req[r].pc = "collect"
    BY <1>3 DEF CollectChildren, At
  <2>2. /\ p.pc = "deleteObjects" /\ p.acct = req[r].acct
        /\ \A x : q(x).pc = "collect" /\ q(x).acct = req[r].acct
    BY <1>0, <2>1 DEF Request
  <2>3. Becomes(r, p) \/ \E x \in req[r].todo : Becomes(r, q(x))
    BY <1>3 DEF CollectChildren
  <2> HIDE DEF p, q
  <2>4. Removes(p, objects) /\ \A x : Removes(q(x), objects)
    BY <1>0, <2>1, <2>2 DEF Removes
  <2> QED
    BY <2>1, <2>3, <2>4, StoreSame
<1>4. CASE DeleteObjects(r)
  <2> DEFINE q == [req[r] EXCEPT !.pc = "purgeRows"]
  <2>1. q.pc = "purgeRows" /\ q.seen = req[r].seen
    BY <1>0 DEF Request
  <2>2. Becomes(r, q) /\ UNCHANGED rows /\ req[r].pc = "deleteObjects"
    BY <1>4 DEF DeleteObjects, At
  <2>3. objects' = objects \ (req[r].seen \cap Files)
    BY <1>0, <1>4, <2>2 DEF DeleteObjects, DeletedKeys, Removes
  <2> HIDE DEF q
  <2>4. Removes(q, objects')
    BY <2>1, <2>3 DEF Removes
  <2> QED
    BY <2>2, <2>3, <2>4, StoreStep
<1>5. CASE PurgeRows(r)
  <2> DEFINE q == [req[r] EXCEPT !.pc = "settle"]
  <2>1. q.pc = "settle"
    BY <1>0 DEF Request
  <2>2. Becomes(r, q) /\ UNCHANGED objects /\ req[r].pc = "purgeRows"
    BY <1>5 DEF PurgeRows, At
  <2> HIDE DEF q
  <2>3. Removes(q, objects')
    BY <2>1 DEF Removes
  <2>4. \A f \in Files : rows'[f].state = "purged" => rows[f].state = "purged" \/ f \notin objects'
    BY <1>0, <1>5, <2>2 DEF PurgeRows, Removes, Items
  <2> QED
    BY <2>2, <2>3, <2>4, StoreStep
<1>6. CASE SettleAccount(r)
  BY <1>6, FinishStore DEF SettleAccount
<1> QED
  BY <1>1, <1>2, <1>3, <1>4, <1>5, <1>6

\* While the driver can be had and the bucket answers, no object outlives the
\* row of its file, whichever requests race, Saves that insert a deleted row
\* again included, and wherever the server stops: DeleteItem removes objects
\* before rows.
THEOREM NothingLeftBehind ==
  ASSUME ~DriverMayFail, ~S3MayFail
  PROVE  Spec => []PurgedObjectsGone
<1>1. Init => TypeInv /\ StoreInv
  <2> SUFFICES ASSUME Init PROVE StoreInv
    BY InitTypeInv
  <2>1. \A r \in Requests : req[r] = Idle
    BY DEF Init
  <2>2. PurgedObjectsGone
    BY DEF Init, PurgedObjectsGone, NullRow, Items
  <2> QED
    BY <2>1, <2>2, IdleRemoves DEF StoreInv
<1>2. ASSUME TypeInv, StoreInv, [Next]_vars PROVE StoreInv'
  <2>1. CASE Crash
    <3>1. \A r \in Requests : req'[r] = Idle
      BY <2>1 DEF Crash
    <3> QED
      BY <1>2, <2>1, <3>1, IdleRemoves DEF Crash, StoreInv, PurgedObjectsGone
  <2>2. ASSUME NEW r \in Requests, Start(r) PROVE StoreInv'
    BY <1>2, <2>2, StartStore
  <2>3. ASSUME NEW r \in Requests, Advance(r) PROVE StoreInv'
    BY <1>2, <2>3, WriteStore, PurgeStore DEF Advance
  <2>4. CASE UNCHANGED vars
    BY <1>2, <2>4 DEF vars, StoreInv, PurgedObjectsGone
  <2> QED
    BY <1>2, <2>1, <2>2, <2>3, <2>4 DEF Next
<1>3. StoreInv => PurgedObjectsGone
  BY DEF StoreInv
<1> QED
  BY <1>1, <1>2, <1>3, NextTypeInv, PTL DEF Spec

-----------------------------------------------------------------------------
(* Only moves relocate.                                                    *)

InTable == {"live", "trashed"}

\* The parent that q is going to write is the one the row has in table t.
KeepsPlace(t, q) == t[q.item].state \in InTable => q.snap.parent = t[q.item].parent

Collecting == {"collectRoot", "collect", "deleteObjects", "purgeRows"}

\* What q is going to write relocates its row to where its own move goes, if at
\* all; what it is going to remove has existed.
Aims(t, q) ==
  /\ q.op = "create" => t[q.item].state = "unused"
  /\ q.op \notin {"create", "none"} => t[q.item].state # "unused"
  /\ q.pc = "checkDest" => KeepsPlace(t, q)
  /\ q.pc \in {"walk", "save"} =>
       KeepsPlace(t, q) \/ (q.op = "update" /\ q.snap.parent = q.dest)
  /\ q.pc \in Collecting => \A y \in Items : y \in q.seen => t[y].state # "unused"

PlaceInv ==
  /\ NewItemsDiffer /\ AtMostOneWriter
  /\ \A r \in Requests : Aims(rows, req[r])

\* A change of the table that relocates nothing.
Stays(t, u) ==
  \A x \in Items :
    /\ t[x].state = "unused" <=> u[x].state = "unused"
    /\ u[x].state \in InTable => t[x].state \in InTable /\ u[x].parent = t[x].parent

LEMMA IdleAims == \A t : Aims(t, Idle)
BY DEF Aims, Idle, Collecting

LEMMA AimsWhenStays ==
  ASSUME NEW t, NEW u, Stays(t, u), NEW q, Phase(q), Aims(t, q)
  PROVE  Aims(u, q)
<1>1. CASE q.pc = "idle"
  BY <1>1 DEF Phase, Aims, Collecting
<1>2. CASE q.item \in Items
  <2>1. KeepsPlace(t, q) => KeepsPlace(u, q)
    BY <1>2 DEF Stays, KeepsPlace
  <2> QED
    BY <1>2, <2>1 DEF Stays, Aims
<1> QED
  BY <1>1, <1>2 DEF Phase

\* A step of request r: its new record aims well, and so do the others' on the
\* new table.
LEMMA PlaceStep ==
  ASSUME TypeInv, PlaceInv, AtMostOneWriter', NEW r \in Requests, NEW q, Becomes(r, q),
         Continues(q, r), Aims(rows', q), \A p \in Requests : p # r => Aims(rows', req[p])
  PROVE  PlaceInv'
<1>1. NewItemsDiffer'
  BY NewItemsKept DEF PlaceInv
<1>2. \A p \in Requests : Aims(rows', req'[p])
  BY DEF Becomes, TypeInv, TypeOK
<1> QED
  BY <1>1, <1>2 DEF PlaceInv

LEMMA PlaceStays ==
  ASSUME TypeInv, PlaceInv, AtMostOneWriter', NEW r \in Requests, NEW q, Becomes(r, q),
         Continues(q, r), Stays(rows, rows'), Aims(rows', q)
  PROVE  PlaceInv'
<1>1. \A p \in Requests : Aims(rows', req[p])
  BY AimsWhenStays DEF PlaceInv, TypeInv, PhaseInv
<1> QED
  BY <1>1, PlaceStep

LEMMA SameStays == UNCHANGED rows => Stays(rows, rows')
BY DEF Stays

LEMMA PlaceFinish ==
  ASSUME TypeInv, PlaceInv, AtMostOneWriter', NEW r \in Requests, Finish(r), Stays(rows, rows')
  PROVE  PlaceInv'
BY PlaceStays, IdleAims DEF Finish, Continues

\* A new item is nobody else's, and every other request's item has existed.
LEMMA StartPlace ==
  ASSUME TypeInv, PlaceInv, AtMostOneWriter', NEW r \in Requests, Start(r)
  PROVE  PlaceInv'
<1>0. req \in [Requests -> Request] /\ UNCHANGED rows
  BY DEF TypeInv, TypeOK, Start, StartCreate, StartUpdate, StartOnItem
<1>1. ASSUME NEW q, Becomes(r, q), q.pc \in {"insert", "checkParent", "readItem"}, q.item \in Items,
             \/ q.op = "create" /\ rows[q.item].state = "unused"
                /\ \A p \in Requests : req[p].item # q.item
             \/ q.op \notin {"create", "none"} /\ rows[q.item].state # "unused"
      PROVE  PlaceInv'
  <2>1. \A p \in Requests : req'[p] = IF p = r THEN q ELSE req[p]
    BY <1>0, <1>1 DEF Becomes
  <2>2. Aims(rows, q)
    BY <1>1 DEF Aims, Collecting
  <2>3. NewItemsDiffer'
    <3> SUFFICES ASSUME NEW p1 \in Requests, NEW p2 \in Requests,
                        req'[p1].op = "create", req'[p1].item = req'[p2].item
                 PROVE  p1 = p2
      BY DEF NewItemsDiffer
    <3>1. CASE p1 # r /\ p2 # r
      BY <2>1, <3>1 DEF PlaceInv, NewItemsDiffer
    <3>2. CASE p1 = r /\ p2 # r
      BY <1>1, <2>1, <3>2
    <3>3. CASE p1 # r /\ p2 = r
      BY <1>1, <2>1, <3>3 DEF PlaceInv, Aims
    <3> QED
      BY <3>1, <3>2, <3>3
  <2> QED
    BY <1>0, <2>1, <2>2, <2>3 DEF PlaceInv
<1>2. ASSUME NEW i \in Folders, NEW d \in Items \cup {Root}, StartCreate(r, i, d)
      PROVE  PlaceInv'
  <2> DEFINE q == [Idle EXCEPT !.op = "create", !.item = i, !.dest = d,
                           !.pc = IF d = Root THEN "insert" ELSE "checkParent"]
  <2>1. q.op = "create" /\ q.item = i /\ q.pc \in {"insert", "checkParent"}
    BY DEF Idle
  <2>2. /\ Becomes(r, q) /\ rows[i].state = "unused"
        /\ \A p \in Requests : req[p].item # i
    BY <1>2 DEF StartCreate
  <2> HIDE DEF q
  <2> QED
    BY <1>1, <2>1, <2>2 DEF Items
<1>3. ASSUME NEW i \in Items, NEW d \in Items \cup {Root, NoMove}, StartUpdate(r, i, d)
      PROVE  PlaceInv'
  <2> DEFINE q == [Idle EXCEPT !.op = "update", !.item = i, !.dest = d, !.pc = "readItem"]
  <2>1. q.op = "update" /\ q.item = i /\ q.pc = "readItem"
    BY DEF Idle
  <2>2. Becomes(r, q) /\ rows[i].state # "unused"
    BY <1>3 DEF StartUpdate
  <2> HIDE DEF q
  <2> QED
    BY <1>1, <2>1, <2>2
<1>4. ASSUME NEW i \in Items, NEW op \in Ops, StartOnItem(r, i, op)
      PROVE  PlaceInv'
  <2> DEFINE q == [Idle EXCEPT !.op = op, !.item = i, !.pc = "readItem"]
  <2>1. q.op = op /\ q.item = i /\ q.pc = "readItem" /\ op \in {"star", "trash", "purge"}
    BY <1>4 DEF Idle, StartOnItem
  <2>2. Becomes(r, q) /\ rows[i].state # "unused"
    BY <1>4 DEF StartOnItem
  <2> HIDE DEF q
  <2> QED
    BY <1>1, <2>1, <2>2
<1> QED
  BY <1>2, <1>3, <1>4 DEF Start

LEMMA ReadPlace ==
  ASSUME TypeInv, PlaceInv, AtMostOneWriter', NEW r \in Requests, ReadItem(r)
  PROVE  PlaceInv'
<1>0. req[r] \in Request /\ Phase(req[r]) /\ Aims(rows, req[r]) /\ rows \in [Items -> Row]
  BY DEF TypeInv, TypeOK, PhaseInv, PlaceInv
<1>1. UNCHANGED rows /\ req[r].pc = "readItem" /\ req[r].item \in Items
  BY <1>0 DEF ReadItem, At, Phase
<1>2. CASE Finish(r)
  BY <1>1, <1>2, PlaceFinish, SameStays
<1>3. CASE Becomes(r, [req[r] EXCEPT !.snap = RowRead(r), !.pc = AfterRead(r)])
  <2> DEFINE q == [req[r] EXCEPT !.snap = RowRead(r), !.pc = AfterRead(r)]
  <2>1. q.snap = RowRead(r) /\ q.pc = AfterRead(r) /\ q.op = req[r].op /\ q.item = req[r].item
    BY <1>0 DEF Request
  <2>2. Becomes(r, q)
    BY <1>3
  <2> HIDE DEF q
  <2>3. q.pc \in {"checkDest", "save", "trash", "getDriver"}
    BY <2>1 DEF AfterRead
  <2>4. q.pc \in {"checkDest", "save"} => q.snap.parent = rows[q.item].parent
    <3>1. rows[req[r].item] \in Row
      BY <1>0, <1>1
    <3> QED
      BY <2>1, <3>1 DEF AfterRead, RowRead, Row
  <2>5. Aims(rows, q)
    BY <1>0, <2>1, <2>3, <2>4 DEF Aims, KeepsPlace, Collecting
  <2> QED
    BY <1>1, <2>1, <2>2, <2>5, PlaceStays, SameStays DEF Continues
<1> QED
  BY <1>2, <1>3 DEF ReadItem

LEMMA MovePlace ==
  ASSUME TypeInv, PlaceInv, AtMostOneWriter', NEW r \in Requests,
         CheckDestination(r) \/ WalkUp(r)
  PROVE  PlaceInv'
<1>0. req[r] \in Request /\ Phase(req[r]) /\ Aims(rows, req[r]) /\ UNCHANGED rows
  BY DEF TypeInv, TypeOK, PhaseInv, PlaceInv, CheckDestination, WalkUp
<1>1. ASSUME NEW q, Becomes(r, q), q.op = req[r].op, q.item = req[r].item,
             q.pc \in {"walk", "save"},
             KeepsPlace(rows, q) \/ (q.op = "update" /\ q.snap.parent = q.dest)
      PROVE  PlaceInv'
  <2>1. Aims(rows, q)
    BY <1>0, <1>1 DEF Aims, Collecting
  <2> QED
    BY <1>0, <1>1, <2>1, PlaceStays, SameStays DEF Continues
<1>2. CASE CheckDestination(r)
  <2> DEFINE p == [req[r] EXCEPT !.snap.parent = Root, !.pc = "save"]
             q == [req[r] EXCEPT !.snap.parent = req[r].dest, !.cur = req[r].dest, !.pc = "walk"]
  <2>1. req[r].op = "update" /\ req[r].snap \in Row
    BY <1>0, <1>2 DEF CheckDestination, At, Phase, Request
  <2>2. /\ p.op = "update" /\ p.item = req[r].item /\ p.pc = "save" /\ p.snap.parent = Root
        /\ p.dest = req[r].dest
        /\ q.op = "update" /\ q.item = req[r].item /\ q.pc = "walk" /\ q.snap.parent = q.dest
    BY <1>0, <2>1 DEF Request, Row
  <2>3. Finish(r) \/ (req[r].dest = Root /\ Becomes(r, p)) \/ Becomes(r, q)
    BY <1>2 DEF CheckDestination
  <2> HIDE DEF p, q
  <2> QED
    BY <1>0, <1>1, <2>1, <2>2, <2>3, PlaceFinish, SameStays
<1>3. CASE WalkUp(r)
  <2> DEFINE p == [req[r] EXCEPT !.seen = @ \cup {req[r].cur}, !.cur = Root, !.pc = "save"]
             q == [req[r] EXCEPT !.seen = @ \cup {req[r].cur}, !.cur = rows[req[r].cur].parent]
  <2>1. req[r].pc = "walk"
    BY <1>3 DEF WalkUp, At
  <2>2. /\ p.op = req[r].op /\ p.item = req[r].item /\ p.pc = "save"
        /\ p.snap = req[r].snap /\ p.dest = req[r].dest
        /\ q.op = req[r].op /\ q.item = req[r].item /\ q.pc = "walk"
        /\ q.snap = req[r].snap /\ q.dest = req[r].dest
    BY <1>0, <2>1 DEF Request
  <2>3. Finish(r) \/ Becomes(r, p) \/ Becomes(r, q)
    BY <1>3 DEF WalkUp
  <2>4. KeepsPlace(rows, req[r]) \/ (req[r].op = "update" /\ req[r].snap.parent = req[r].dest)
    BY <1>0, <2>1 DEF Aims
  <2> HIDE DEF p, q
  <2>5. /\ KeepsPlace(rows, p) \/ (p.op = "update" /\ p.snap.parent = p.dest)
        /\ KeepsPlace(rows, q) \/ (q.op = "update" /\ q.snap.parent = q.dest)
    BY <2>2, <2>4 DEF KeepsPlace
  <2> QED
    BY <1>0, <1>1, <2>2, <2>3, <2>5, PlaceFinish, SameStays
<1> QED
  BY <1>2, <1>3

\* The one Save, or the insertion of a row that was not there.
LEMMA WritePlace ==
  ASSUME TypeInv, HangInv, PlaceInv, AtMostOneWriter', NEW r \in Requests,
         SaveItem(r) \/ InsertFolder(r)
  PROVE  PlaceInv'
<1>0. /\ req[r] \in Request /\ Phase(req[r]) /\ Aims(rows, req[r]) /\ CarriesGood(req[r])
      /\ rows \in [Items -> Row]
  BY DEF TypeInv, TypeOK, PhaseInv, PlaceInv, HangInv
<1>1. /\ req[r].item \in Items /\ Becomes(r, Idle) /\ Continues(Idle, r)
      /\ \A x \in Items : x # req[r].item => rows'[x] = rows[x]
      /\ rows'[req[r].item].state # "unused"
  BY <1>0 DEF SaveItem, InsertFolder, At, Phase, CarriesGood, Finish, Continues
<1>2. ASSUME NEW p \in Requests, p # r PROVE Aims(rows', req[p])
  <2>0. req[p] \in Request /\ Phase(req[p]) /\ Aims(rows, req[p])
    BY DEF TypeInv, TypeOK, PhaseInv, PlaceInv
  <2>1. CASE req[p].pc = "idle"
    BY <2>0, <2>1 DEF Phase, Aims, Collecting
  <2>2. CASE req[p].item \in Items /\ req[p].item # req[r].item
    <3>1. rows'[req[p].item] = rows[req[p].item]
      BY <1>1, <2>2
    <3> QED
      BY <1>1, <2>0, <3>1 DEF Aims, KeepsPlace
  <2>3. CASE req[p].item = req[r].item
    <3>1. req[p].op # "create" /\ req[r].op # "create"
      BY <1>2, <2>3 DEF PlaceInv, NewItemsDiffer
    <3>2. SaveItem(r) /\ Writing(r)
      BY <1>0, <3>1 DEF InsertFolder, SaveItem, At, Phase, Writing
    <3>3. ~Writing(p)
      BY <1>2, <3>2 DEF PlaceInv, AtMostOneWriter
    <3>4. req[p].pc \notin {"checkDest", "walk", "save"}
      BY <2>0, <3>3 DEF Writing, Phase
    <3> QED
      BY <1>1, <2>0, <2>3, <3>1, <3>4 DEF Aims
  <2> QED
    BY <2>0, <2>1, <2>2, <2>3 DEF Phase
<1> QED
  BY <1>1, <1>2, IdleAims, PlaceStep

\* The steps of a creation or a deletion carry no row.
LEMMA OtherPlace ==
  ASSUME TypeInv, PlaceInv, AtMostOneWriter', NEW r \in Requests,
         \/ CheckParent(r) \/ TrashItem(r) \/ GetDriver(r) \/ CollectRoot(r)
         \/ CollectChildren(r) \/ DeleteObjects(r) \/ PurgeRows(r) \/ SettleAccount(r)
  PROVE  PlaceInv'
<1>0. req[r] \in Request /\ Phase(req[r]) /\ Aims(rows, req[r]) /\ rows \in [Items -> Row]
  BY DEF TypeInv, TypeOK, PhaseInv, PlaceInv
<1>1. Stays(rows, rows')
  <2>1. CASE TrashItem(r)
    BY <1>0, <2>1 DEF TrashItem, Stays, InTable, Live, Row, At, Phase
  <2>2. CASE PurgeRows(r)
    <3>1. \A y \in Items : y \in req[r].seen => rows[y].state # "unused"
      BY <1>0, <2>2 DEF PurgeRows, At, Aims, Collecting
    <3> QED
      BY <1>0, <2>2, <3>1 DEF PurgeRows, Stays, InTable, GoneRow, NullRow
  <2>3. CASE UNCHANGED rows
    BY <2>3, SameStays
  <2> QED
    BY <2>1, <2>2, <2>3 DEF CheckParent, GetDriver, CollectRoot, CollectChildren, DeleteObjects,
       SettleAccount
<1>2. ASSUME NEW q, Becomes(r, q), q.op = req[r].op, q.item = req[r].item,
             q.pc \in {"insert", "settle"} \cup Collecting, q.op # "none",
             q.pc \in Collecting => \A y \in Items : y \in q.seen => rows'[y].state # "unused"
      PROVE  PlaceInv'
  <2>1. req[r].item \in Items
    BY <1>0, <1>2 DEF Phase
  <2>2. Aims(rows', q)
    BY <1>0, <1>1, <1>2, <2>1 DEF Aims, Stays, Collecting
  <2> QED
    BY <1>1, <1>2, <2>2, PlaceStays DEF Continues
<1>3. CASE CheckParent(r)
  <2> DEFINE q == [req[r] EXCEPT !.pc = "insert"]
  <2>1. q.item = req[r].item /\ q.op = req[r].op /\ q.pc = "insert" /\ req[r].op # "none"
    BY <1>0, <1>3 DEF Request, CheckParent, At, Phase
  <2>2. Finish(r) \/ Becomes(r, q)
    BY <1>3 DEF CheckParent
  <2> HIDE DEF q
  <2> QED
    BY <1>1, <1>2, <2>1, <2>2, PlaceFinish DEF Collecting
<1>4. CASE TrashItem(r) \/ SettleAccount(r)
  BY <1>1, <1>4, PlaceFinish DEF TrashItem, SettleAccount
<1>5. CASE GetDriver(r)
  <2>1. /\ req[r].item \in Items /\ req[r].op \notin {"none", "create"}
        /\ rows' = rows
    BY <1>0, <1>5 DEF GetDriver, At, Phase
  <2> DEFINE l == IF req[r].item \in Files THEN "deleteObjects" ELSE "collectRoot"
             q(x) == [req[r] EXCEPT !.acct = x, !.seen = {req[r].item}, !.pc = l]
  <2>2. PICK x : Becomes(r, q(x))
    BY <1>5 DEF GetDriver
  <2>3. /\ q(x).item = req[r].item /\ q(x).op = req[r].op /\ q(x).seen = {req[r].item}
        /\ q(x).pc = l
    BY <1>0 DEF Request
  <2>4. l \in {"deleteObjects", "collectRoot"}
    OBVIOUS
  <2> HIDE DEF q, l
  <2>5. rows[req[r].item].state # "unused"
    BY <1>0, <2>1 DEF Aims
  <2> QED
    BY <1>2, <2>1, <2>2, <2>3, <2>4, <2>5 DEF Collecting
<1>6. CASE CollectRoot(r) \/ DeleteObjects(r) \/ PurgeRows(r)
  <2> DEFINE p == [req[r] EXCEPT !.todo = {req[r].item}, !.pc = "collect"]
             q(l) == [req[r] EXCEPT !.pc = l]
  <2>1. /\ p.item = req[r].item /\ p.op = req[r].op /\ p.seen = req[r].seen /\ p.pc = "collect"
        /\ \A l : /\ q(l).item = req[r].item /\ q(l).op = req[r].op
                  /\ q(l).seen = req[r].seen /\ q(l).pc = l
    BY <1>0 DEF Request
  <2>2. \/ Finish(r) \/ Becomes(r, p)
        \/ \E l \in {"purgeRows", "settle"} : Becomes(r, q(l))
    BY <1>6 DEF CollectRoot, DeleteObjects, PurgeRows
  <2> HIDE DEF p, q
  <2>3. req[r].pc \in Collecting /\ req[r].op # "none"
    BY <1>0, <1>6 DEF CollectRoot, DeleteObjects, PurgeRows, At, Collecting, Phase
  <2>4. \A y \in Items : y \in req[r].seen => rows'[y].state # "unused"
    BY <1>0, <1>1, <2>3 DEF Aims, Stays
  <2> QED
    BY <1>1, <1>2, <2>1, <2>2, <2>3, <2>4, PlaceFinish DEF Collecting
<1>7. CASE CollectChildren(r)
  <2> DEFINE new(x) == ChildrenOf(x) \ req[r].seen
             p == [req[r] EXCEPT !.todo = {}, !.pc = "deleteObjects"]
             q(x) == [req[r] EXCEPT !.seen = @ \cup new(x),
                                    !.todo = (@ \ {x}) \cup (new(x) \cap Folders)]
  <2>1. rows' = rows /\ req[r].pc = "collect" /\ req[r].op # "none"
    BY <1>0, <1>7 DEF CollectChildren, At, Phase
  <2>2. /\ p.pc = "deleteObjects" /\ p.item = req[r].item /\ p.op = req[r].op
        /\ p.seen = req[r].seen
        /\ \A x : /\ q(x).pc = "collect" /\ q(x).item = req[r].item /\ q(x).op = req[r].op
                  /\ q(x).seen = req[r].seen \cup new(x)
    BY <1>0, <2>1 DEF Request
  <2>3. Becomes(r, p) \/ \E x \in req[r].todo : Becomes(r, q(x))
    BY <1>7 DEF CollectChildren
  <2>4. \A x : \A y \in new(x) : rows[y].state # "unused"
    BY DEF ChildrenOf, Live
  <2>5. \A y \in Items : y \in req[r].seen => rows[y].state # "unused"
    BY <1>0, <2>1 DEF Aims, Collecting
  <2> HIDE DEF p, q, new
  <2> QED
    BY <1>2, <2>1, <2>2, <2>3, <2>4, <2>5 DEF Collecting
<1> QED
  BY <1>3, <1>4, <1>5, <1>6, <1>7

LEMMA NextPlace ==
  ASSUME OneWriter, TypeInv, HangInv, PlaceInv, [Next]_vars
  PROVE  PlaceInv'
<1>0. AtMostOneWriter'
  BY WriterStaysAlone DEF PlaceInv
<1>1. CASE Crash
  <2>1. UNCHANGED rows /\ \A r \in Requests : req'[r] = Idle
    BY <1>1 DEF Crash
  <2>2. NewItemsDiffer'
    BY <2>1 DEF NewItemsDiffer, Idle
  <2> QED
    BY <1>0, <2>1, <2>2, IdleAims DEF PlaceInv
<1>2. ASSUME NEW r \in Requests, Start(r) PROVE PlaceInv'
  BY <1>0, <1>2, StartPlace
<1>3. ASSUME NEW r \in Requests, Advance(r) PROVE PlaceInv'
  BY <1>0, <1>3, ReadPlace, MovePlace, WritePlace, OtherPlace DEF Advance
<1>4. CASE UNCHANGED vars
  BY <1>0, <1>4 DEF vars, PlaceInv, NewItemsDiffer
<1> QED
  BY <1>1, <1>2, <1>3, <1>4 DEF Next

LEMMA StepRelocates ==
  ASSUME TypeInv, PlaceInv, [Next]_vars, NEW i \in Items,
         rows[i].state \in InTable, rows'[i].state \in InTable,
         rows'[i].parent # rows[i].parent
  PROVE  \E r \in Requests : /\ req[r].op = "update" /\ req[r].item = i
                             /\ req[r].dest = rows'[i].parent
<1>0. rows \in [Items -> Row] /\ rows' # rows
  BY DEF TypeInv, TypeOK
<1>1. PICK r \in Requests : Advance(r)
  BY <1>0 DEF Next, Crash, vars, Start, StartCreate, StartUpdate, StartOnItem
<1>2. req[r] \in Request /\ Phase(req[r]) /\ Aims(rows, req[r])
  BY DEF TypeInv, TypeOK, PhaseInv, PlaceInv
<1>3. ~InsertFolder(r)
  BY <1>0, <1>2 DEF InsertFolder, At, Phase, Aims, InTable
<1>4. ~TrashItem(r)
  BY <1>0, <1>2 DEF TrashItem, At, Phase, Row
<1>5. ~PurgeRows(r)
  BY <1>0 DEF PurgeRows, GoneRow, NullRow, InTable
<1>6. SaveItem(r)
  BY <1>0, <1>1, <1>3, <1>4, <1>5
  DEF Advance, CheckParent, ReadItem, CheckDestination, WalkUp, GetDriver, CollectRoot,
      CollectChildren, DeleteObjects, SettleAccount
<1>7. req[r].item = i /\ rows'[i].parent = req[r].snap.parent
  BY <1>0, <1>2, <1>6 DEF SaveItem, At, Phase
<1>8. req[r].op = "update" /\ req[r].snap.parent = req[r].dest
  BY <1>2, <1>6, <1>7 DEF SaveItem, At, Aims, KeepsPlace
<1> QED
  BY <1>7, <1>8

\* While no two requests that Save an item overlap, a row changes its parent only
\* to the destination of a move of that row: the parent_id that a star or a
\* rename writes back is the one in the table, whatever is created, trashed or
\* purged meanwhile.
THEOREM MovesAlone == OneWriter => (Spec => OnlyMovesRelocate)
<1> SUFFICES ASSUME OneWriter PROVE Spec => OnlyMovesRelocate
  OBVIOUS
<1>1. Init => PlaceInv
  <2> SUFFICES ASSUME Init PROVE PlaceInv
    OBVIOUS
  <2>1. \A r \in Requests : req[r] = Idle
    BY DEF Init
  <2> QED
    BY <2>1, IdleAims DEF PlaceInv, NewItemsDiffer, AtMostOneWriter, Writing, Idle
<1>2. TypeInv /\ HangInv /\ PlaceInv /\ [Next]_vars => PlaceInv'
  BY NextPlace
<1>3. TypeInv /\ PlaceInv /\ [Next]_vars =>
        [\A i \in Items :
           {rows[i].state, rows'[i].state} \subseteq {"live", "trashed"}
           /\ rows'[i].parent # rows[i].parent =>
             \E r \in Requests : /\ req[r].op = "update" /\ req[r].item = i
                                 /\ req[r].dest = rows'[i].parent]_vars
  BY StepRelocates DEF InTable
<1> QED
  BY <1>1, <1>2, <1>3, HangInvariance, PTL DEF Spec, OnlyMovesRelocate

-----------------------------------------------------------------------------
(* Rows without objects.                                                   *)

Saves == {"checkDest", "walk", "save"}

Purging == {"getDriver", "collectRoot", "collect", "deleteObjects", "purgeRows"}

\* The discipline that the next theorem needs: requests come one at a time, or
\* none of them Saves an item.
SavesAlone == Serial \/ Ops \cap {"update", "star"} = {}

\* A live file without object is about to be removed by someone.
StoredInv ==
  /\ \A r \in Requests : req[r].op \in Ops \cup {"none"}
  /\ \A r \in Requests : req[r].op = "create" => req[r].item \in Folders
  /\ \A r \in Requests : req[r].pc \in Purging => req[r].op = "purge"
  /\ \A r \in Requests : req[r].pc \in Saves => Live(req[r].item)
                          \/ ~\A p, q \in Requests : p = q
  /\ \A f \in Files : Live(f) /\ f \notin objects =>
       \E r \in Requests : At(r, "purgeRows") /\ f \in req[r].seen

\* A step of request r, which was not about to remove rows.
LEMMA StoredStep ==
  ASSUME TypeInv, StoredInv, NEW r \in Requests, NEW q, Becomes(r, q), ~At(r, "purgeRows"),
         q.op \in Ops \cup {"none"}, q.op = "create" => q.item \in Folders,
         q.pc \in Purging => q.op = "purge",
         q.pc \in Saves => rows'[q.item].state = "live" \/ ~\A p1, p2 \in Requests : p1 = p2,
         \A f \in Files : rows'[f].state = "live" /\ f \notin objects' =>
            \/ rows[f].state = "live" /\ f \notin objects
            \/ q.pc = "purgeRows" /\ f \in q.seen
  PROVE  StoredInv'
<1>0. \A p \in Requests : req'[p] = IF p = r THEN q ELSE req[p]
  BY DEF Becomes, TypeInv, TypeOK
<1>1. \A p \in Requests : req'[p].op \in Ops \cup {"none"}
  BY <1>0 DEF StoredInv
<1>2. /\ \A p \in Requests : req'[p].pc \in Purging => req'[p].op = "purge"
      /\ \A p \in Requests : req'[p].op = "create" => req'[p].item \in Folders
  BY <1>0 DEF StoredInv
<1>3. \A p \in Requests : req'[p].pc \in Saves =>
        rows'[req'[p].item].state = "live" \/ ~\A p1, p2 \in Requests : p1 = p2
  BY <1>0
<1>4. ASSUME NEW f \in Files, rows'[f].state = "live", f \notin objects'
      PROVE  \E p \in Requests : req'[p].pc = "purgeRows" /\ f \in req'[p].seen
  <2>1. CASE rows[f].state = "live" /\ f \notin objects
    <3>1. PICK p \in Requests : At(p, "purgeRows") /\ f \in req[p].seen
      BY <2>1 DEF StoredInv, Live
    <3>2. p # r
      BY <3>1
    <3> QED
      BY <1>0, <3>1, <3>2 DEF At
  <2>2. CASE q.pc = "purgeRows" /\ f \in q.seen
    BY <1>0, <2>2
  <2> QED
    BY <1>4, <2>1, <2>2
<1> QED
  BY <1>1, <1>2, <1>3, <1>4 DEF StoredInv, At, Live

LEMMA StoredFinish ==
  ASSUME TypeInv, StoredInv, NEW r \in Requests, Finish(r), ~At(r, "purgeRows"), objects' = objects,
         \A f \in Files : rows'[f].state = "live" => rows[f].state = "live" \/ f \in objects
  PROVE  StoredInv'
<1>1. Becomes(r, Idle) /\ Idle.op = "none" /\ Idle.pc = "idle"
  BY DEF Finish, Idle
<1> QED
  BY <1>1, StoredStep DEF Saves, Purging

\* A request that goes on with its item, and touches neither table nor bucket.
LEMMA StoredGoesOn ==
  ASSUME TypeInv, StoredInv, NEW r \in Requests, NEW q, Becomes(r, q), UNCHANGED <<rows, objects>>,
         ~At(r, "purgeRows"), q.op = req[r].op, q.item = req[r].item,
         q.pc \in Purging => q.op = "purge",
         q.pc \in Saves => Live(q.item) \/ ~\A p1, p2 \in Requests : p1 = p2
  PROVE  StoredInv'
<1>1. q.op \in Ops \cup {"none"} /\ (q.op = "create" => q.item \in Folders)
  BY DEF StoredInv
<1> QED
  BY <1>1, StoredStep DEF Live

LEMMA StartStored ==
  ASSUME TypeInv, StoredInv, NEW r \in Requests, Start(r)
  PROVE  StoredInv'
<1>1. UNCHANGED <<rows, objects>> /\ ~At(r, "purgeRows")
  BY DEF Start, StartCreate, StartUpdate, StartOnItem, At
<1>2. ASSUME NEW q, Becomes(r, q), q.pc \in {"insert", "checkParent", "readItem"}, q.op \in Ops,
             q.op = "create" => q.item \in Folders
      PROVE  StoredInv'
  BY <1>1, <1>2, StoredStep DEF Purging, Saves
<1>3. ASSUME NEW i \in Folders, NEW d \in Items \cup {Root}, StartCreate(r, i, d)
      PROVE  StoredInv'
  <2> DEFINE q == [Idle EXCEPT !.op = "create", !.item = i, !.dest = d,
                           !.pc = IF d = Root THEN "insert" ELSE "checkParent"]
  <2>1. q.op = "create" /\ q.item = i /\ q.pc \in {"insert", "checkParent"}
    BY DEF Idle
  <2>2. Becomes(r, q) /\ "create" \in Ops
    BY <1>3 DEF StartCreate
  <2> HIDE DEF q
  <2> QED
    BY <1>2, <2>1, <2>2
<1>4. ASSUME NEW i \in Items, NEW d \in Items \cup {Root, NoMove}, StartUpdate(r, i, d)
      PROVE  StoredInv'
  <2> DEFINE q == [Idle EXCEPT !.op = "update", !.item = i, !.dest = d, !.pc = "readItem"]
  <2>1. q.op = "update" /\ q.pc = "readItem"
    BY DEF Idle
  <2>2. Becomes(r, q) /\ "update" \in Ops
    BY <1>4 DEF StartUpdate
  <2> HIDE DEF q
  <2> QED
    BY <1>2, <2>1, <2>2
<1>5. ASSUME NEW i \in Items, NEW op \in Ops, StartOnItem(r, i, op)
      PROVE  StoredInv'
  <2> DEFINE q == [Idle EXCEPT !.op = op, !.item = i, !.pc = "readItem"]
  <2>1. q.op = op /\ q.pc = "readItem" /\ op \in {"star", "trash", "purge"}
    BY <1>5 DEF Idle, StartOnItem
  <2>2. Becomes(r, q)
    BY <1>5 DEF StartOnItem
  <2> HIDE DEF q
  <2> QED
    BY <1>2, <2>1, <2>2
<1> QED
  BY <1>3, <1>4, <1>5 DEF Start

LEMMA WriteStored ==
  ASSUME TypeInv, StoredInv, SavesAlone, NEW r \in Requests,
         \/ CheckParent(r) \/ InsertFolder(r) \/ ReadItem(r) \/ CheckDestination(r)
         \/ WalkUp(r) \/ SaveItem(r) \/ TrashItem(r)
  PROVE  StoredInv'
<1>0. /\ req[r] \in Request /\ Phase(req[r]) /\ rows \in [Items -> Row]
      /\ req[r].op \in Ops \cup {"none"}
      /\ req[r].op = "create" => req[r].item \in Folders
      /\ req[r].pc \in Saves => Live(req[r].item) \/ ~\A p1, p2 \in Requests : p1 = p2
      /\ ~At(r, "purgeRows")
  BY DEF TypeInv, TypeOK, PhaseInv, StoredInv, CheckParent, InsertFolder, ReadItem,
         CheckDestination, WalkUp, SaveItem, TrashItem, At
<1>1. CASE CheckParent(r)
  <2> DEFINE q == [req[r] EXCEPT !.pc = "insert"]
  <2>1. q.op = req[r].op /\ q.item = req[r].item /\ q.pc = "insert"
    BY <1>0 DEF Request
  <2>2. Finish(r) \/ Becomes(r, q)
    BY <1>1 DEF CheckParent
  <2>3. UNCHANGED <<rows, objects>>
    BY <1>1 DEF CheckParent
  <2> HIDE DEF q
  <2> QED
    BY <1>0, <2>1, <2>2, <2>3, StoredGoesOn, StoredFinish DEF Purging, Saves
<1>2. CASE InsertFolder(r)
  <2>1. Finish(r) /\ objects' = objects /\ req[r].item \in Folders
    BY <1>0, <1>2 DEF InsertFolder, At, Phase
  <2>2. \A f \in Files : rows'[f] = rows[f]
    BY <1>0, <1>2, <2>1, KindAssumption DEF InsertFolder, Items
  <2> QED
    BY <1>0, <2>1, <2>2, StoredFinish
<1>3. CASE ReadItem(r)
  <2>1. UNCHANGED <<rows, objects>>
    BY <1>3 DEF ReadItem
  <2>2. CASE Finish(r)
    BY <1>0, <2>1, <2>2, StoredFinish
  <2>3. CASE /\ Live(req[r].item)
             /\ Becomes(r, [req[r] EXCEPT !.snap = RowRead(r), !.pc = AfterRead(r)])
    <3> DEFINE q == [req[r] EXCEPT !.snap = RowRead(r), !.pc = AfterRead(r)]
    <3>1. q.op = req[r].op /\ q.item = req[r].item /\ q.pc = AfterRead(r)
      BY <1>0 DEF Request
    <3>2. Becomes(r, q)
      BY <2>3
    <3>3. req[r].op \in {"update", "star", "trash", "purge"}
      BY <1>0, <1>3 DEF ReadItem, At, Phase, Request, AllOps
    <3>4. AfterRead(r) \in Purging => req[r].op = "purge"
      BY <3>3 DEF AfterRead, Purging
    <3> HIDE DEF q
    <3> QED
      BY <1>0, <2>1, <2>3, <3>1, <3>2, <3>4, StoredGoesOn
  <2> QED
    BY <1>3, <2>2, <2>3 DEF ReadItem
<1>4. CASE CheckDestination(r)
  <2> DEFINE p == [req[r] EXCEPT !.snap.parent = Root, !.pc = "save"]
             q == [req[r] EXCEPT !.snap.parent = req[r].dest, !.cur = req[r].dest, !.pc = "walk"]
  <2>1. UNCHANGED <<rows, objects>> /\ req[r].pc = "checkDest"
    BY <1>4 DEF CheckDestination, At
  <2>2. /\ p.pc = "save" /\ p.item = req[r].item /\ p.op = req[r].op
        /\ q.pc = "walk" /\ q.item = req[r].item /\ q.op = req[r].op
    BY <1>0, <2>1 DEF Request
  <2>3. Finish(r) \/ Becomes(r, p) \/ Becomes(r, q)
    BY <1>4 DEF CheckDestination
  <2> HIDE DEF p, q
  <2> QED
    BY <1>0, <2>1, <2>2, <2>3, StoredGoesOn, StoredFinish DEF Purging, Saves
<1>5. CASE WalkUp(r)
  <2> DEFINE p == [req[r] EXCEPT !.seen = @ \cup {req[r].cur}, !.cur = Root, !.pc = "save"]
             q == [req[r] EXCEPT !.seen = @ \cup {req[r].cur}, !.cur = rows[req[r].cur].parent]
  <2>1. UNCHANGED <<rows, objects>> /\ req[r].pc = "walk"
    BY <1>5 DEF WalkUp, At
  <2>2. /\ p.pc = "save" /\ p.item = req[r].item /\ p.op = req[r].op
        /\ q.pc = "walk" /\ q.item = req[r].item /\ q.op = req[r].op
    BY <1>0, <2>1 DEF Request
  <2>3. Finish(r) \/ Becomes(r, p) \/ Becomes(r, q)
    BY <1>5 DEF WalkUp
  <2> HIDE DEF p, q
  <2> QED
    BY <1>0, <2>1, <2>2, <2>3, StoredGoesOn, StoredFinish DEF Purging, Saves
<1>6. CASE SaveItem(r)
  <2>1. /\ Finish(r) /\ objects' = objects /\ req[r].pc = "save"
        /\ req[r].op \in {"update", "star"}
    BY <1>0, <1>6 DEF SaveItem, At, Phase
  <2>2. \A p1, p2 \in Requests : p1 = p2
    BY <1>0, <2>1 DEF SavesAlone, Serial
  <2>3. rows[req[r].item].state = "live"
    BY <1>0, <2>1, <2>2 DEF Saves, Live
  <2>4. \A f \in Files : rows'[f].state = "live" => rows[f].state = "live"
    BY <1>0, <1>6, <2>3 DEF SaveItem, Items
  <2> QED
    BY <1>0, <2>1, <2>4, StoredFinish
<1>7. CASE TrashItem(r)
  <2>1. Finish(r) /\ objects' = objects
    BY <1>7 DEF TrashItem
  <2>2. \A f \in Files : rows'[f].state = "live" => rows[f].state = "live"
    BY <1>0, <1>7 DEF TrashItem, Items, Row
  <2> QED
    BY <1>0, <2>1, <2>2, StoredFinish
<1> QED
  BY <1>1, <1>2, <1>3, <1>4, <1>5, <1>6, <1>7

LEMMA PurgeStored ==
  ASSUME TypeInv, StoredInv, NEW r \in Requests,
         \/ GetDriver(r) \/ CollectRoot(r) \/ CollectChildren(r)
         \/ DeleteObjects(r) \/ PurgeRows(r) \/ SettleAccount(r)
  PROVE  StoredInv'
<1>0. /\ req[r] \in Request /\ Phase(req[r]) /\ rows \in [Items -> Row]
      /\ req[r].op \in Ops \cup {"none"}
      /\ req[r].op = "create" => req[r].item \in Folders
      /\ req[r].pc \in Purging => req[r].op = "purge"
  BY DEF TypeInv, TypeOK, PhaseInv, StoredInv
<1>1. CASE GetDriver(r)
  <2> DEFINE l == IF req[r].item \in Files THEN "deleteObjects" ELSE "collectRoot"
             q(x) == [req[r] EXCEPT !.acct = x, !.seen = {req[r].item}, !.pc = l]
  <2>1. PICK x : Becomes(r, q(x))
    BY <1>1 DEF GetDriver
  <2>2. /\ q(x).item = req[r].item /\ q(x).op = req[r].op /\ q(x).pc = l
    BY <1>0 DEF Request
  <2>3. l \in {"deleteObjects", "collectRoot"}
    OBVIOUS
  <2>4. UNCHANGED <<rows, objects>> /\ req[r].pc = "getDriver" /\ ~At(r, "purgeRows")
    BY <1>1 DEF GetDriver, At
  <2> HIDE DEF q, l
  <2>5. q(x).pc \notin Saves /\ req[r].op = "purge"
    BY <1>0, <2>2, <2>3, <2>4 DEF Saves, Purging
  <2> QED
    BY <2>1, <2>2, <2>4, <2>5, StoredGoesOn
<1>2. CASE CollectRoot(r)
  <2> DEFINE q == [req[r] EXCEPT !.todo = {req[r].item}, !.pc = "collect"]
  <2>1. q.pc = "collect" /\ q.item = req[r].item /\ q.op = req[r].op
    BY <1>0 DEF Request
  <2>2. Finish(r) \/ Becomes(r, q)
    BY <1>2 DEF CollectRoot
  <2>3. UNCHANGED <<rows, objects>> /\ req[r].pc = "collectRoot" /\ ~At(r, "purgeRows")
    BY <1>2 DEF CollectRoot, At
  <2> HIDE DEF q
  <2>4. q.pc \notin Saves /\ req[r].op = "purge"
    BY <1>0, <2>1, <2>3 DEF Saves, Purging
  <2> QED
    BY <2>1, <2>2, <2>3, <2>4, StoredGoesOn, StoredFinish
<1>3. CASE CollectChildren(r)
  <2> DEFINE new(x) == ChildrenOf(x) \ req[r].seen
             p == [req[r] EXCEPT !.todo = {}, !.pc = "deleteObjects"]
             q(x) == [req[r] EXCEPT !.seen = @ \cup new(x),
                                    !.todo = (@ \ {x}) \cup (new(x) \cap Folders)]
  <2>1. UNCHANGED <<rows, objects>> /\ req[r].pc = "collect" /\ ~At(r, "purgeRows")
    BY <1>3 DEF CollectChildren, At
  <2>2. /\ p.pc = "deleteObjects" /\ p.item = req[r].item /\ p.op = req[r].op
        /\ \A x : q(x).pc = "collect" /\ q(x).item = req[r].item /\ q(x).op = req[r].op
    BY <1>0, <2>1 DEF Request
  <2>3. Becomes(r, p) \/ \E x \in req[r].todo : Becomes(r, q(x))
    BY <1>3 DEF CollectChildren
  <2> HIDE DEF p, q
  <2>4. req[r].op = "purge" /\ "collect" \notin Saves /\ "deleteObjects" \notin Saves
    BY <1>0, <2>1 DEF Saves, Purging
  <2> QED
    BY <2>1, <2>2, <2>3, <2>4, StoredGoesOn
<1>4. CASE DeleteObjects(r)
  <2> DEFINE q == [req[r] EXCEPT !.pc = "purgeRows"]
  <2>1. q.pc = "purgeRows" /\ q.seen = req[r].seen /\ q.op = req[r].op /\ q.item = req[r].item
    BY <1>0 DEF Request
  <2>2. Becomes(r, q) /\ UNCHANGED rows /\ req[r].pc = "deleteObjects" /\ ~At(r, "purgeRows")
    BY <1>4 DEF DeleteObjects, At
  <2>3. PICK keys \in DeletedKeys(r) : objects' = objects \ keys
    BY <1>4 DEF DeleteObjects
  <2>4. keys \subseteq req[r].seen
    BY DEF DeletedKeys
  <2> HIDE DEF q
  <2>5. q.pc \notin Saves /\ req[r].op = "purge"
    BY <1>0, <2>1, <2>2 DEF Saves, Purging
  <2> QED
    BY <1>0, <2>1, <2>2, <2>3, <2>4, <2>5, StoredStep
<1>5. CASE PurgeRows(r)
  <2> DEFINE q == [req[r] EXCEPT !.pc = "settle"]
  <2>1. q.pc = "settle" /\ q.op = req[r].op /\ q.item = req[r].item
    BY <1>0 DEF Request
  <2>2. Becomes(r, q) /\ UNCHANGED objects
    BY <1>5 DEF PurgeRows
  <2> HIDE DEF q
  <2>3. \A p \in Requests : req'[p] = IF p = r THEN q ELSE req[p]
    BY <2>2 DEF Becomes, TypeInv, TypeOK
  <2>4. \A x \in Items : rows'[x].state = "live" => rows[x].state = "live" /\ x \notin req[r].seen
    BY <1>0, <1>5 DEF PurgeRows, GoneRow, NullRow
  <2>5. ASSUME NEW p \in Requests, req'[p].pc \in Saves
        PROVE  rows'[req'[p].item].state = "live" \/ ~\A p1, p2 \in Requests : p1 = p2
    BY <2>1, <2>3, <2>5 DEF Saves
  <2>6. ASSUME NEW f \in Files, rows'[f].state = "live", f \notin objects'
        PROVE  \E p \in Requests : req'[p].pc = "purgeRows" /\ f \in req'[p].seen
    <3>1. rows[f].state = "live" /\ f \notin req[r].seen /\ f \notin objects
      BY <2>2, <2>4, <2>6 DEF Items
    <3>2. PICK p \in Requests : req[p].pc = "purgeRows" /\ f \in req[p].seen
      BY <3>1 DEF StoredInv, Live, At
    <3> QED
      BY <2>3, <3>1, <3>2
  <2>7. \A p \in Requests : /\ req'[p].op \in Ops \cup {"none"}
                            /\ req'[p].op = "create" => req'[p].item \in Folders
                            /\ req'[p].pc \in Purging => req'[p].op = "purge"
    BY <1>0, <2>1, <2>3 DEF StoredInv, Purging
  <2> QED
    BY <2>5, <2>6, <2>7 DEF StoredInv, At, Live
<1>6. CASE SettleAccount(r)
  BY <1>6, StoredFinish DEF SettleAccount, At
<1> QED
  BY <1>1, <1>2, <1>3, <1>4, <1>5, <1>6

\* Where no Save of an item meets another request, and the server stays up, a
\* live file has its object whenever no permanent delete is under way, however
\* many of them ran into each other and whatever part of them failed: what
\* removes objects goes on to remove the rows.
THEOREM FilesKeepObjects ==
  ASSUME SavesAlone, ~MayCrash
  PROVE  Spec => []LiveFilesStored
<1>1. Init => TypeInv /\ StoredInv
  <2> SUFFICES ASSUME Init PROVE StoredInv
    BY InitTypeInv
  <2>1. \A r \in Requests : req[r].op = "none" /\ req[r].pc = "idle"
    BY DEF Init, Idle
  <2> QED
    BY <2>1 DEF Init, StoredInv, Purging, Saves
<1>2. ASSUME TypeInv, StoredInv, [Next]_vars PROVE StoredInv'
  <2>1. ASSUME NEW r \in Requests, Start(r) PROVE StoredInv'
    BY <1>2, <2>1, StartStored
  <2>2. ASSUME NEW r \in Requests, Advance(r) PROVE StoredInv'
    BY <1>2, <2>2, WriteStored, PurgeStored DEF Advance
  <2>3. CASE UNCHANGED vars
    BY <1>2, <2>3 DEF vars, StoredInv, At, Live
  <2> QED
    BY <1>2, <2>1, <2>2, <2>3 DEF Next, Crash
<1>3. StoredInv => LiveFilesStored
  BY DEF StoredInv, LiveFilesStored, Purging, At
<1> QED
  BY <1>1, <1>2, <1>3, NextTypeInv, PTL DEF Spec

-----------------------------------------------------------------------------
(* Nothing is left below a folder that is gone.                            *)

\* Every live row of table t that hangs in F has been collected in V.
Closed(t, F, V) == \A x \in Items : t[x].state = "live" /\ t[x].parent \in F => x \in V

\* What q has checked, read or collected so far agrees with the table.
Whole(t, q) ==
  /\ q.pc = "insert" /\ q.dest # Root => t[q.dest].state = "live"
  /\ q.pc \in Saves => /\ q.snap.state = "live"
                       /\ q.snap.parent # Root => t[q.snap.parent].state # "purged"
  /\ q.pc = "collectRoot" => q.seen = {q.item}
  /\ q.pc = "collect" => Closed(t, q.seen \ q.todo, q.seen)
  /\ q.pc \in {"deleteObjects", "purgeRows"} => Closed(t, q.seen, q.seen)

OrphanInv == NoOrphans /\ \A r \in Requests : Whole(rows, req[r])

LEMMA OrphanStep ==
  ASSUME Serial, TypeInv, NEW r \in Requests, NEW q, Becomes(r, q), Whole(rows', q), NoOrphans'
  PROVE  OrphanInv'
<1>1. \A p \in Requests : req'[p] = q
  BY DEF Becomes, TypeInv, TypeOK, Serial
<1> QED
  BY <1>1 DEF OrphanInv

\* A step that leaves the table alone.
LEMMA OrphanSame ==
  ASSUME Serial, TypeInv, OrphanInv, NEW r \in Requests, NEW q, Becomes(r, q), UNCHANGED rows,
         Whole(rows, q)
  PROVE  OrphanInv'
<1>1. NoOrphans'
  BY DEF OrphanInv, NoOrphans, Live
<1> QED
  BY <1>1, OrphanStep

LEMMA IdleWhole == \A t : Whole(t, Idle)
BY DEF Whole, Idle, Saves

\* A step that ends the request.
LEMMA OrphanFinish ==
  ASSUME Serial, TypeInv, OrphanInv, NEW r \in Requests, Finish(r), UNCHANGED rows
  PROVE  OrphanInv'
BY OrphanSame, IdleWhole DEF Finish

LEMMA StartOrphan ==
  ASSUME Serial, TypeInv, OrphanInv, NEW r \in Requests, Start(r)
  PROVE  OrphanInv'
<1>1. UNCHANGED rows
  BY DEF Start, StartCreate, StartUpdate, StartOnItem
<1>2. ASSUME NEW i \in Folders, NEW d \in Items \cup {Root}, StartCreate(r, i, d)
      PROVE  OrphanInv'
  <2> DEFINE q == [Idle EXCEPT !.op = "create", !.item = i, !.dest = d,
                           !.pc = IF d = Root THEN "insert" ELSE "checkParent"]
  <2>1. q.dest = d /\ q.pc \in {"insert", "checkParent"} /\ (q.pc = "insert" => d = Root)
    BY DEF Idle
  <2>2. Becomes(r, q)
    BY <1>2 DEF StartCreate
  <2> HIDE DEF q
  <2>3. Whole(rows, q)
    BY <2>1 DEF Whole, Saves
  <2> QED
    BY <1>1, <2>2, <2>3, OrphanSame
<1>3. ASSUME NEW q, Becomes(r, q), q.pc = "readItem"
      PROVE  OrphanInv'
  <2>1. Whole(rows, q)
    BY <1>3 DEF Whole, Saves
  <2> QED
    BY <1>1, <1>3, <2>1, OrphanSame
<1>4. ASSUME NEW i \in Items, NEW d \in Items \cup {Root, NoMove}, StartUpdate(r, i, d)
      PROVE  OrphanInv'
  <2> DEFINE q == [Idle EXCEPT !.op = "update", !.item = i, !.dest = d, !.pc = "readItem"]
  <2>1. q.pc = "readItem"
    BY DEF Idle
  <2>2. Becomes(r, q)
    BY <1>4 DEF StartUpdate
  <2> QED
    BY <1>3, <2>1, <2>2
<1>5. ASSUME NEW i \in Items, NEW op \in Ops, StartOnItem(r, i, op)
      PROVE  OrphanInv'
  <2> DEFINE q == [Idle EXCEPT !.op = op, !.item = i, !.pc = "readItem"]
  <2>1. q.pc = "readItem"
    BY DEF Idle
  <2>2. Becomes(r, q)
    BY <1>5 DEF StartOnItem
  <2> QED
    BY <1>3, <2>1, <2>2
<1> QED
  BY <1>2, <1>4, <1>5 DEF Start

LEMMA CreateOrphan ==
  ASSUME Serial, TypeInv, OrphanInv, NEW r \in Requests, CheckParent(r) \/ InsertFolder(r)
  PROVE  OrphanInv'
<1>0. req[r] \in Request /\ Phase(req[r]) /\ rows \in [Items -> Row] /\ Whole(rows, req[r])
  BY DEF TypeInv, TypeOK, PhaseInv, OrphanInv
<1>1. CASE CheckParent(r)
  <2> DEFINE q == [req[r] EXCEPT !.pc = "insert"]
  <2>1. q.dest = req[r].dest /\ q.pc = "insert"
    BY <1>0 DEF Request
  <2>2. \/ Finish(r)
        \/ Becomes(r, q) /\ rows[req[r].dest].state = "live"
    BY <1>1 DEF CheckParent, IsFolderOf, Live
  <2>3. UNCHANGED rows
    BY <1>1 DEF CheckParent
  <2> HIDE DEF q
  <2>4. rows[req[r].dest].state = "live" => Whole(rows, q)
    BY <2>1 DEF Whole, Saves
  <2> QED
    BY <2>2, <2>3, <2>4, OrphanSame, OrphanFinish
<1>2. CASE InsertFolder(r)
  <2>1. /\ req[r].item \in Items /\ req[r].dest \in Items \cup {Root}
        /\ req[r].dest # Root => rows[req[r].dest].state = "live"
    BY <1>0, <1>2 DEF InsertFolder, At, Phase, Whole, Request
  <2>2. \A x \in Items :
          IF x = req[r].item THEN rows'[x].state = "live" /\ rows'[x].parent = req[r].dest
          ELSE rows'[x] = rows[x]
    BY <1>0, <1>2, <2>1 DEF InsertFolder
  <2>3. \A x \in Items : rows[x].parent \in Items \cup {Root}
    BY <1>0 DEF Row
  <2>4. NoOrphans'
    BY <2>1, <2>2, <2>3 DEF OrphanInv, NoOrphans, Live
  <2> QED
    BY <1>2, <2>4, IdleWhole, OrphanStep DEF InsertFolder, Finish
<1> QED
  BY <1>1, <1>2

LEMMA MoveOrphan ==
  ASSUME Serial, TypeInv, OrphanInv, NEW r \in Requests,
         \/ ReadItem(r) \/ CheckDestination(r) \/ WalkUp(r) \/ SaveItem(r) \/ TrashItem(r)
  PROVE  OrphanInv'
<1>0. req[r] \in Request /\ Phase(req[r]) /\ rows \in [Items -> Row] /\ Whole(rows, req[r])
  BY DEF TypeInv, TypeOK, PhaseInv, OrphanInv
<1>p. \A x \in Items : rows[x].parent \in Items \cup {Root}
  BY <1>0 DEF Row
<1>1. CASE ReadItem(r)
  <2>1. UNCHANGED rows /\ req[r].item \in Items
    BY <1>0, <1>1 DEF ReadItem, At, Phase
  <2>2. CASE Finish(r)
    BY <2>1, <2>2, OrphanFinish
  <2>3. CASE /\ Live(req[r].item)
             /\ Becomes(r, [req[r] EXCEPT !.snap = RowRead(r), !.pc = AfterRead(r)])
    <3> DEFINE q == [req[r] EXCEPT !.snap = RowRead(r), !.pc = AfterRead(r)]
    <3>1. q.snap = RowRead(r) /\ q.pc = AfterRead(r)
      BY <1>0 DEF Request
    <3>2. Becomes(r, q)
      BY <2>3
    <3> HIDE DEF q
    <3>3. /\ AfterRead(r) \in {"checkDest", "save", "trash", "getDriver"}
          /\ AfterRead(r) \in {"checkDest", "save"} =>
               /\ RowRead(r).state = rows[req[r].item].state
               /\ RowRead(r).parent = rows[req[r].item].parent
      BY <1>0, <2>1 DEF AfterRead, RowRead, Row
    <3>4. /\ rows[req[r].item].state = "live"
          /\ rows[req[r].item].parent # Root => rows[rows[req[r].item].parent].state # "purged"
      BY <2>1, <2>3 DEF OrphanInv, NoOrphans, Live
    <3>5. Whole(rows, q)
      BY <3>1, <3>3, <3>4 DEF Whole, Saves
    <3> QED
      BY <2>1, <3>2, <3>5, OrphanSame
  <2> QED
    BY <1>1, <2>2, <2>3 DEF ReadItem
<1>2. CASE CheckDestination(r)
  <2> DEFINE p == [req[r] EXCEPT !.snap.parent = Root, !.pc = "save"]
             q == [req[r] EXCEPT !.snap.parent = req[r].dest, !.cur = req[r].dest, !.pc = "walk"]
  <2>1. UNCHANGED rows /\ req[r].snap \in Row /\ req[r].snap.state = "live"
    BY <1>0, <1>2 DEF CheckDestination, At, Whole, Saves, Request
  <2>2. /\ p.pc = "save" /\ p.snap.state = "live" /\ p.snap.parent = Root
        /\ q.pc = "walk" /\ q.snap.state = "live" /\ q.snap.parent = req[r].dest
    BY <1>0, <2>1 DEF Request, Row
  <2>3. \/ Finish(r) \/ Becomes(r, p)
        \/ Becomes(r, q) /\ rows[req[r].dest].state = "live"
    BY <1>2 DEF CheckDestination, IsFolderOf, Live
  <2> HIDE DEF p, q
  <2>4. Whole(rows, p) /\ (rows[req[r].dest].state = "live" => Whole(rows, q))
    BY <2>2 DEF Whole, Saves
  <2> QED
    BY <2>1, <2>3, <2>4, OrphanSame, OrphanFinish
<1>3. CASE WalkUp(r)
  <2> DEFINE p == [req[r] EXCEPT !.seen = @ \cup {req[r].cur}, !.cur = Root, !.pc = "save"]
             q == [req[r] EXCEPT !.seen = @ \cup {req[r].cur}, !.cur = rows[req[r].cur].parent]
  <2>1. UNCHANGED rows /\ req[r].pc = "walk"
    BY <1>3 DEF WalkUp, At
  <2>2. p.pc = "save" /\ p.snap = req[r].snap /\ q.pc = "walk" /\ q.snap = req[r].snap
    BY <1>0, <2>1 DEF Request
  <2>3. Finish(r) \/ Becomes(r, p) \/ Becomes(r, q)
    BY <1>3 DEF WalkUp
  <2> HIDE DEF p, q
  <2>4. Whole(rows, p) /\ Whole(rows, q)
    BY <1>0, <2>1, <2>2 DEF Whole, Saves
  <2> QED
    BY <2>1, <2>3, <2>4, OrphanSame, OrphanFinish
<1>4. CASE SaveItem(r)
  <2>1. /\ req[r].item \in Items /\ req[r].snap.state = "live"
        /\ req[r].snap.parent # Root => rows[req[r].snap.parent].state # "purged"
        /\ req[r].snap.parent \in Items \cup {Root}
    BY <1>0, <1>4 DEF SaveItem, At, Phase, Whole, Saves, Request, Row
  <2>2. \A x \in Items : rows'[x] = IF x = req[r].item THEN req[r].snap ELSE rows[x]
    BY <1>0, <1>4 DEF SaveItem
  <2>3. NoOrphans'
    BY <1>p, <2>1, <2>2 DEF OrphanInv, NoOrphans, Live
  <2> QED
    BY <1>4, <2>3, IdleWhole, OrphanStep DEF SaveItem, Finish
<1>5. CASE TrashItem(r)
  <2>1. req[r].item \in Items
    BY <1>0, <1>5 DEF TrashItem, At, Phase
  <2>2. \A x \in Items : /\ rows'[x].parent = rows[x].parent
                         /\ rows'[x].state = "live" => rows[x].state = "live"
                         /\ rows'[x].state = "purged" => rows[x].state = "purged"
    BY <1>0, <1>5, <2>1 DEF TrashItem, Row
  <2>3. NoOrphans'
    BY <1>p, <2>2 DEF OrphanInv, NoOrphans, Live
  <2> QED
    BY <1>5, <2>3, IdleWhole, OrphanStep DEF TrashItem, Finish
<1> QED
  BY <1>1, <1>2, <1>3, <1>4, <1>5

\* Only folders have children, and these are of the folder's own account.
LEMMA FoundAsChild ==
  ASSUME HangInv, SentinelAssumption, NEW x \in Items, Live(x), NEW f \in Items, rows[x].parent = f
  PROVE  f \in Folders /\ x \in ChildrenOf(f)
BY DEF HangInv, GoodParent, ChildrenOf, SameDrive

LEMMA SomeLeft ==
  ASSUME Cardinality(Items) < MaxItems, NEW V \in SUBSET Items
  PROVE  ~(Cardinality(V) >= MaxItems)
<1>1. Cardinality(V) <= Cardinality(Items)
  BY KindAssumption, FS_Subset
<1>2. Cardinality(V) \in Nat /\ Cardinality(Items) \in Nat
  BY CountIsNat
<1> QED
  BY <1>1, <1>2, LimitAssumption

\* The search is complete when its queue is empty.
LEMMA PurgeOrphan ==
  ASSUME Serial, Cardinality(Items) < MaxItems, TypeInv, HangInv, OrphanInv, NEW r \in Requests,
         \/ GetDriver(r) \/ CollectRoot(r) \/ CollectChildren(r)
         \/ DeleteObjects(r) \/ PurgeRows(r) \/ SettleAccount(r)
  PROVE  OrphanInv'
<1>0. req[r] \in Request /\ Phase(req[r]) /\ rows \in [Items -> Row] /\ Whole(rows, req[r])
  BY DEF TypeInv, TypeOK, PhaseInv, OrphanInv
<1>1. CASE GetDriver(r)
  <2> DEFINE l == IF req[r].item \in Files THEN "deleteObjects" ELSE "collectRoot"
             q(x) == [req[r] EXCEPT !.acct = x, !.seen = {req[r].item}, !.pc = l]
  <2>1. PICK x : Becomes(r, q(x))
    BY <1>1 DEF GetDriver
  <2>2. q(x).item = req[r].item /\ q(x).seen = {req[r].item} /\ q(x).pc = l
    BY <1>0 DEF Request
  <2>3. l \in {"deleteObjects", "collectRoot"} /\ (l = "deleteObjects" => req[r].item \in Files)
    OBVIOUS
  <2>4. UNCHANGED rows
    BY <1>1 DEF GetDriver
  <2> HIDE DEF q, l
  <2>5. req[r].item \in Files => Closed(rows, {req[r].item}, {req[r].item})
    BY FoundAsChild, SentinelAssumption, KindAssumption DEF Closed, Items, Live
  <2>6. Whole(rows, q(x))
    BY <2>2, <2>3, <2>5 DEF Whole, Saves
  <2> QED
    BY <2>1, <2>4, <2>6, OrphanSame
<1>2. CASE CollectRoot(r)
  <2> DEFINE q == [req[r] EXCEPT !.todo = {req[r].item}, !.pc = "collect"]
  <2>1. q.pc = "collect" /\ q.seen = req[r].seen /\ q.todo = {req[r].item}
    BY <1>0 DEF Request
  <2>2. Finish(r) \/ Becomes(r, q)
    BY <1>2 DEF CollectRoot
  <2>3. UNCHANGED rows /\ req[r].seen = {req[r].item}
    BY <1>0, <1>2 DEF CollectRoot, At, Whole
  <2> HIDE DEF q
  <2>4. Whole(rows, q)
    BY <2>1, <2>3 DEF Whole, Saves, Closed
  <2> QED
    BY <2>2, <2>3, <2>4, OrphanSame, OrphanFinish
<1>3. CASE CollectChildren(r)
  <2> DEFINE new(x) == ChildrenOf(x) \ req[r].seen
             p == [req[r] EXCEPT !.todo = {}, !.pc = "deleteObjects"]
             q(x) == [req[r] EXCEPT !.seen = @ \cup new(x),
                                    !.todo = (@ \ {x}) \cup (new(x) \cap Folders)]
  <2>1. UNCHANGED rows /\ req[r].pc = "collect" /\ req[r].seen \in SUBSET Items
        /\ Closed(rows, req[r].seen \ req[r].todo, req[r].seen)
    BY <1>0, <1>3 DEF CollectChildren, At, Whole, Request
  <2>2. /\ p.pc = "deleteObjects" /\ p.seen = req[r].seen
        /\ \A x : /\ q(x).pc = "collect" /\ q(x).seen = req[r].seen \cup new(x)
                  /\ q(x).todo = (req[r].todo \ {x}) \cup (new(x) \cap Folders)
    BY <1>0, <2>1 DEF Request
  <2>3. \/ req[r].todo = {} /\ Becomes(r, p)
        \/ \E x \in req[r].todo : Becomes(r, q(x))
    BY <1>3, <2>1, SomeLeft DEF CollectChildren
  <2>4. \A x : new(x) = ChildrenOf(x) \ req[r].seen
    OBVIOUS
  <2> HIDE DEF p, q, new
  <2>5. req[r].todo = {} => Whole(rows, p)
    BY <2>1, <2>2 DEF Whole, Saves
  <2>6. ASSUME NEW x \in req[r].todo PROVE Whole(rows, q(x))
    <3> SUFFICES ASSUME NEW y \in Items, Live(y), rows[y].parent \in q(x).seen \ q(x).todo
                 PROVE  y \in q(x).seen
      BY <2>2 DEF Whole, Saves, Closed, Live
    <3>1. CASE rows[y].parent \in req[r].seen \ req[r].todo
      BY <2>1, <2>2, <3>1 DEF Closed, Live
    <3>2. rows[y].parent \in Items
      BY <2>1, <2>2, <2>4 DEF ChildrenOf
    <3>3. rows[y].parent \in Folders /\ y \in ChildrenOf(rows[y].parent)
      BY <3>2, FoundAsChild, SentinelAssumption
    <3>4. CASE rows[y].parent = x
      BY <2>2, <2>4, <3>3, <3>4
    <3>5. \/ rows[y].parent \in req[r].seen \ req[r].todo
          \/ rows[y].parent = x
      BY <2>2, <3>3
    <3> QED
      BY <3>1, <3>4, <3>5
  <2> QED
    BY <2>1, <2>3, <2>5, <2>6, OrphanSame
<1>4. CASE DeleteObjects(r)
  <2> DEFINE q == [req[r] EXCEPT !.pc = "purgeRows"]
  <2>1. q.pc = "purgeRows" /\ q.seen = req[r].seen
    BY <1>0 DEF Request
  <2>2. Becomes(r, q) /\ UNCHANGED rows /\ Closed(rows, req[r].seen, req[r].seen)
    BY <1>0, <1>4 DEF DeleteObjects, At, Whole
  <2> HIDE DEF q
  <2>3. Whole(rows, q)
    BY <2>1, <2>2 DEF Whole, Saves
  <2> QED
    BY <2>2, <2>3, OrphanSame
<1>5. CASE PurgeRows(r)
  <2> DEFINE q == [req[r] EXCEPT !.pc = "settle"]
  <2>1. q.pc = "settle"
    BY <1>0 DEF Request
  <2>2. Becomes(r, q) /\ Closed(rows, req[r].seen, req[r].seen)
    BY <1>0, <1>5 DEF PurgeRows, At, Whole
  <2> HIDE DEF q
  <2>3. \A x \in Items : rows'[x] = IF x \in req[r].seen THEN GoneRow ELSE rows[x]
    BY <1>5 DEF PurgeRows
  <2>4. GoneRow.state = "purged" /\ \A x \in Items : rows[x].parent \in Items \cup {Root}
    BY <1>0 DEF GoneRow, NullRow, Row
  <2>5. NoOrphans'
    BY <2>2, <2>3, <2>4 DEF OrphanInv, NoOrphans, Live, Closed
  <2>6. Whole(rows', q)
    BY <2>1 DEF Whole, Saves
  <2> QED
    BY <2>2, <2>5, <2>6, OrphanStep
<1>6. CASE SettleAccount(r)
  BY <1>6, OrphanFinish DEF SettleAccount
<1> QED
  BY <1>1, <1>2, <1>3, <1>4, <1>5, <1>6

LEMMA OrphanInit == Init => OrphanInv
<1> SUFFICES ASSUME Init PROVE OrphanInv
  OBVIOUS
<1>1. (\A r \in Requests : req[r] = Idle) /\ \A i \in Items : rows[i].parent = Root
  BY DEF Init, NullRow
<1> QED
  BY <1>1, IdleWhole DEF OrphanInv, NoOrphans

LEMMA OrphanNext ==
  ASSUME Serial, Cardinality(Items) < MaxItems, TypeInv, HangInv, OrphanInv, [Next]_vars
  PROVE  OrphanInv'
<1>1. CASE Crash
  <2>1. UNCHANGED rows /\ \A r \in Requests : req'[r] = Idle
    BY <1>1 DEF Crash
  <2> QED
    BY <2>1, IdleWhole DEF OrphanInv, NoOrphans, Live
<1>2. ASSUME NEW r \in Requests, Start(r) PROVE OrphanInv'
  BY <1>2, StartOrphan
<1>3. ASSUME NEW r \in Requests, Advance(r) PROVE OrphanInv'
  BY <1>3, CreateOrphan, MoveOrphan, PurgeOrphan DEF Advance
<1>4. CASE UNCHANGED vars
  BY <1>4 DEF vars, OrphanInv, NoOrphans, Live
<1> QED
  BY <1>1, <1>2, <1>3, <1>4 DEF Next

\* Where requests come one at a time, and the drive has fewer items than
\* CollectDescendantItems gives up at, no live row hangs directly below a purged
\* one, and so none that reaches it by live rows, wherever the server stops: the
\* search misses no live row that it can come to by live folders, and a deletion
\* is one statement.  Rows under a folder in the trash are not searched: they
\* stay where they are, and the theorem leaves them there.
THEOREM LiveSubtreesGo ==
  ASSUME Serial, Cardinality(Items) < MaxItems
  PROVE  Spec => []NoOrphans
<1>1. TypeInv /\ HangInv /\ OrphanInv /\ [Next]_vars => OrphanInv'
  BY OrphanNext
<1>2. OrphanInv => NoOrphans
  BY DEF OrphanInv
<1> QED
  BY <1>1, <1>2, OrphanInit, HangInvariance, PTL DEF Spec

-----------------------------------------------------------------------------
(* Requests that do not overlap are atomic: see AtomicTree.  So are requests *)
(* that do, when nothing is deleted and one of them at most Saves an item.   *)

Calm == Serial \/ (OneWriter /\ Ops \cap {"trash", "purge"} = {})

CanHold(t, p, i) ==
  p = Root \/ (p \in Folders /\ t[p].state = "live" /\ AccountOf[p] = AccountOf[i])

\* The nodes outside S, which i lies in and no way down leads out of, include p.
Outside(t, i, p) == \E S \in SUBSET Items : i \in S /\ p \notin S /\ Closed(t, S, S)

\* Nothing has been collected that does not lie below the item.
Least(t, q) ==
  q.item \in q.seen /\ \A S \in SUBSET Items : q.item \in S /\ Closed(t, S, S) => q.seen \subseteq S

\* The row that a request is going to Save: what one atomic operation makes of
\* the row as it is.
OneChange(t, q) ==
  \/ q.snap = t[q.item]
  \/ q.snap = [t[q.item] EXCEPT !.starred = ~@]
  \/ \E p \in Folders \cup {Root} : /\ q.snap = [t[q.item] EXCEPT !.parent = p]
                                    /\ CanHold(t, p, q.item) /\ Outside(t, q.item, p)

\* What a request has read is still what the table says.
Exact(t, q) ==
  /\ q.op \in Ops \cup {"none"}
  /\ q.pc \in Purging => q.op = "purge"
  /\ q.pc = "trash" => q.op = "trash"
  /\ q.pc = "insert" => CanHold(t, q.dest, q.item) /\ q.item \in Folders
  /\ q.pc = "checkParent" => q.item \in Folders
  /\ q.pc \in Saves \cup Purging => t[q.item].state = "live"
  /\ q.pc = "checkDest" => q.snap = t[q.item]
  /\ q.pc = "walk" => q.snap = [t[q.item] EXCEPT !.parent = q.dest] /\ CanHold(t, q.dest, q.item)
  /\ q.pc = "save" => OneChange(t, q)
  /\ q.pc \in Purging \ {"getDriver"} => Least(t, q)
  /\ q.pc = "collect" => q.todo \subseteq q.seen

ExactInv == \A r \in Requests : Exact(rows, req[r])

CalmInv == AllInv /\ ExactInv /\ (Serial => OrphanInv)

LEMMA IdleExact == \A t : Exact(t, Idle)
BY DEF Exact, Idle, Saves, Purging

LEMMA ExactStep ==
  ASSUME TypeInv, NEW r \in Requests, NEW q, Becomes(r, q), Exact(rows', q),
         \A p \in Requests : p # r => Exact(rows', req[p])
  PROVE  ExactInv'
<1>1. \A p \in Requests : req'[p] = IF p = r THEN q ELSE req[p]
  BY DEF Becomes, TypeInv, TypeOK
<1>2. \A p \in Requests : Exact(rows', req'[p])
  BY <1>1
<1> QED
  BY <1>2 DEF ExactInv

LEMMA ExactSame ==
  ASSUME TypeInv, ExactInv, NEW r \in Requests, NEW q, Becomes(r, q), UNCHANGED rows,
         Exact(rows, q)
  PROVE  ExactInv'
BY ExactStep DEF ExactInv

LEMMA ExactFinish ==
  ASSUME TypeInv, ExactInv, NEW r \in Requests, Finish(r), UNCHANGED rows
  PROVE  ExactInv'
BY ExactSame, IdleExact DEF Finish

LEMMA StartExact ==
  ASSUME TypeInv, ExactInv, NEW r \in Requests, Start(r)
  PROVE  ExactInv'
<1>1. UNCHANGED rows
  BY DEF Start, StartCreate, StartUpdate, StartOnItem
<1>2. ASSUME NEW i \in Folders, NEW d \in Items \cup {Root}, StartCreate(r, i, d)
      PROVE  ExactInv'
  <2> DEFINE l == IF d = Root THEN "insert" ELSE "checkParent"
             q == [Idle EXCEPT !.op = "create", !.item = i, !.dest = d, !.pc = l]
  <2>0. l \in {"insert", "checkParent"} /\ (l = "insert" => d = Root)
    OBVIOUS
  <2>a. Becomes(r, q) /\ "create" \in Ops
    BY <1>2 DEF StartCreate
  <2> HIDE DEF l
  <2>1. q.dest = d /\ q.pc = l /\ q.op = "create" /\ q.item = i
    BY DEF Idle
  <2> HIDE DEF q
  <2>3. Exact(rows, q)
    BY <2>0, <2>1, <2>a DEF Exact, Saves, Purging, CanHold
  <2> QED
    BY <1>1, <2>a, <2>3, ExactSame
<1>3. ASSUME NEW q, Becomes(r, q), q.pc = "readItem", q.op \in Ops
      PROVE  ExactInv'
  <2>1. Exact(rows, q)
    BY <1>3 DEF Exact, Saves, Purging
  <2> QED
    BY <1>1, <1>3, <2>1, ExactSame
<1>4. ASSUME NEW i \in Items, NEW d \in Items \cup {Root, NoMove}, StartUpdate(r, i, d)
      PROVE  ExactInv'
  <2> DEFINE q == [Idle EXCEPT !.op = "update", !.item = i, !.dest = d, !.pc = "readItem"]
  <2>1. q.pc = "readItem" /\ q.op = "update"
    BY DEF Idle
  <2>2. Becomes(r, q) /\ "update" \in Ops
    BY <1>4 DEF StartUpdate
  <2> QED
    BY <1>3, <2>1, <2>2
<1>5. ASSUME NEW i \in Items, NEW op \in Ops, StartOnItem(r, i, op)
      PROVE  ExactInv'
  <2> DEFINE q == [Idle EXCEPT !.op = op, !.item = i, !.pc = "readItem"]
  <2>1. q.pc = "readItem" /\ q.op = op
    BY DEF Idle
  <2>2. Becomes(r, q)
    BY <1>5 DEF StartOnItem
  <2> QED
    BY <1>3, <2>1, <2>2
<1> QED
  BY <1>2, <1>4, <1>5 DEF Start

LEMMA CreateExact ==
  ASSUME Calm, AllInv, ExactInv, NEW r \in Requests, CheckParent(r) \/ InsertFolder(r)
  PROVE  ExactInv'
<1>0. /\ TypeInv /\ req[r] \in Request /\ Phase(req[r]) /\ rows \in Table
      /\ Exact(rows, req[r]) /\ Safe(rows, req[r])
  BY DEF AllInv, ForestInv, TypeInv, TypeOK, PhaseInv, ExactInv, Table
<1>1. CASE CheckParent(r)
  <2> DEFINE q == [req[r] EXCEPT !.pc = "insert"]
  <2>1. /\ q.dest = req[r].dest /\ q.item = req[r].item /\ q.op = req[r].op /\ q.pc = "insert"
        /\ req[r].pc = "checkParent"
    BY <1>0, <1>1 DEF Request, CheckParent, At
  <2>2. Finish(r) \/ (Becomes(r, q) /\ CanHold(rows, req[r].dest, req[r].item))
    BY <1>1 DEF CheckParent, IsFolderOf, Live, CanHold, SameDrive
  <2>3. UNCHANGED rows
    BY <1>1 DEF CheckParent
  <2> HIDE DEF q
  <2>4. CanHold(rows, req[r].dest, req[r].item) => Exact(rows, q)
    BY <1>0, <2>1 DEF Exact, Saves, Purging
  <2> QED
    BY <1>0, <2>2, <2>3, <2>4, ExactSame, ExactFinish
<1>2. CASE InsertFolder(r)
  <2> DEFINE j == req[r].item
             d == req[r].dest
  <2>1. /\ j \in Items /\ rows[j].state = "unused" /\ CanHold(rows, d, j)
        /\ d # Root => d \in Items /\ rows[d].state = "live"
    BY <1>0, <1>2 DEF InsertFolder, At, Phase, Safe, Exact, CanHold, Items
  <2>2. \A x \in Items :
          rows'[x] = IF x = j THEN [state |-> "live", parent |-> d, starred |-> FALSE] ELSE rows[x]
    BY <1>0, <1>2 DEF InsertFolder, Table
  <2>3. NoneUnderUnused(rows)
    BY DEF AllInv, HangInv, GoodParent, NoneUnderUnused, Items
  <2>4. ASSUME NEW p \in Requests, p # r PROVE Exact(rows', req[p])
    <3> DEFINE q == req[p]
    <3>0. q \in Request /\ Phase(q) /\ Safe(rows, q) /\ Exact(rows, q) /\ ~Serial
      BY <2>4 DEF AllInv, ForestInv, TypeInv, TypeOK, PhaseInv, ExactInv, Serial
    <3>1. q.pc \notin Purging
      BY <3>0 DEF Calm, Exact
    <3>2. q.op # "create" /\ q.op # "none" => q.item \in Items /\ rows'[q.item] = rows[q.item]
      BY <2>1, <2>2, <3>0 DEF Safe, Phase
    <3>3. ASSUME NEW x, NEW y, CanHold(rows, x, y) PROVE CanHold(rows', x, y)
      BY <2>1, <2>2, <3>3 DEF CanHold, Items
    <3>4. ASSUME NEW x \in Folders \cup {Root}, CanHold(rows, x, q.item), Outside(rows, q.item, x)
          PROVE  Outside(rows', q.item, x)
      <4>1. PICK S \in SUBSET Items : q.item \in S /\ x \notin S /\ Closed(rows, S, S)
        BY <3>4 DEF Outside
      <4>2. x # j
        BY <2>1, <3>4, SentinelAssumption DEF CanHold, Items
      <4>3. Closed(rows', S \cup {j}, S \cup {j})
        BY <2>1, <2>2, <2>3, <4>1, SentinelAssumption DEF Closed, NoneUnderUnused
      <4> QED
        BY <2>1, <4>1, <4>2, <4>3 DEF Outside
    <3>5. q.pc = "save" => OneChange(rows', q)
      BY <3>0, <3>2, <3>3, <3>4 DEF OneChange, Exact, Phase
    <3> HIDE DEF q
    <3>6. q.pc \in Saves => q.op # "create" /\ q.op # "none"
      BY <3>0 DEF Phase, Saves
    <3> QED
      BY <3>0, <3>1, <3>2, <3>3, <3>5, <3>6 DEF Exact, Saves, q
  <2> QED
    BY <1>0, <1>2, <2>4, IdleExact, ExactStep DEF InsertFolder, Finish
<1> QED
  BY <1>1, <1>2

LEMMA ReadExact ==
  ASSUME AllInv, ExactInv, NEW r \in Requests, ReadItem(r)
  PROVE  ExactInv'
<1>0. TypeInv /\ req[r] \in Request /\ Phase(req[r]) /\ Exact(rows, req[r]) /\ rows \in Table
  BY DEF AllInv, TypeInv, TypeOK, PhaseInv, ExactInv, Table
<1>1. UNCHANGED rows /\ req[r].item \in Items /\ rows[req[r].item] \in Row
  BY <1>0 DEF ReadItem, At, Phase, Table
<1>2. CASE Finish(r)
  BY <1>0, <1>1, <1>2, ExactFinish
<1>3. CASE /\ Live(req[r].item)
           /\ Becomes(r, [req[r] EXCEPT !.snap = RowRead(r), !.pc = AfterRead(r)])
  <2> DEFINE q == [req[r] EXCEPT !.snap = RowRead(r), !.pc = AfterRead(r)]
  <2>1. /\ q.snap = RowRead(r) /\ q.pc = AfterRead(r)
        /\ q.op = req[r].op /\ q.item = req[r].item
    BY <1>0 DEF Request
  <2>2. Becomes(r, q) /\ rows[req[r].item].state = "live"
    BY <1>3 DEF Live
  <2> HIDE DEF q
  <2>3. /\ AfterRead(r) \in {"checkDest", "save", "trash", "getDriver"}
        /\ AfterRead(r) = "checkDest" => RowRead(r) = rows[req[r].item]
        /\ AfterRead(r) = "save" => \/ RowRead(r) = rows[req[r].item]
                                    \/ RowRead(r) = [rows[req[r].item] EXCEPT !.starred = ~@]
        /\ AfterRead(r) = "trash" => req[r].op = "trash"
    BY DEF AfterRead, RowRead
  <2>4. AfterRead(r) = "getDriver" => req[r].op = "purge"
    <3>1. req[r].op \in {"update", "star", "trash", "purge"}
      BY <1>0 DEF ReadItem, At, Phase, Request, AllOps
    <3> QED
      BY <3>1 DEF AfterRead
  <2>5. Exact(rows, q)
    BY <1>0, <2>1, <2>2, <2>3, <2>4 DEF Exact, Saves, Purging, OneChange
  <2> QED
    BY <1>0, <1>1, <2>2, <2>5, ExactSame
<1> QED
  BY <1>2, <1>3 DEF ReadItem

LEMMA CheckDestinationExact ==
  ASSUME AllInv, ExactInv, NEW r \in Requests, CheckDestination(r)
  PROVE  ExactInv'
<1> DEFINE i == req[r].item
           d == req[r].dest
           p == [req[r] EXCEPT !.snap.parent = Root, !.pc = "save"]
           q == [req[r] EXCEPT !.snap.parent = d, !.cur = d, !.pc = "walk"]
<1>0. TypeInv /\ req[r] \in Request /\ Phase(req[r]) /\ Exact(rows, req[r]) /\ rows \in Table
  BY DEF AllInv, TypeInv, TypeOK, PhaseInv, ExactInv, Table
<1>1. /\ UNCHANGED rows /\ i \in Items /\ rows[i].state = "live" /\ rows[i] \in Row
      /\ req[r].snap = rows[i] /\ req[r].op \in Ops
  BY <1>0 DEF CheckDestination, At, Phase, Exact, Saves, Table
<1>2. /\ p.pc = "save" /\ p.op = req[r].op /\ p.item = i
      /\ p.snap = [rows[i] EXCEPT !.parent = Root]
      /\ q.pc = "walk" /\ q.op = req[r].op /\ q.item = i /\ q.dest = d
      /\ q.snap = [rows[i] EXCEPT !.parent = d]
  BY <1>0, <1>1 DEF Request, Row
<1>3. \/ Finish(r)
      \/ Becomes(r, p)
      \/ IsFolderOf(d, i) /\ Becomes(r, q)
  BY DEF CheckDestination
<1> HIDE DEF p, q
<1>4. Exact(rows, p)
  <2>1. Outside(rows, i, Root)
    <3>1. Closed(rows, Items, Items)
      BY DEF Closed
    <3> QED
      BY <1>1, <3>1, SentinelAssumption DEF Outside
  <2>2. OneChange(rows, p)
    BY <1>2, <2>1 DEF OneChange, CanHold
  <2> QED
    BY <1>1, <1>2, <2>2 DEF Exact, Saves, Purging
<1>5. IsFolderOf(d, i) => Exact(rows, q)
  BY <1>1, <1>2 DEF Exact, Saves, Purging, IsFolderOf, CanHold, Live, SameDrive
<1> QED
  BY <1>0, <1>1, <1>3, <1>4, <1>5, ExactSame, ExactFinish

\* The nodes that a finished walk has not met include the item, and no way
\* down leads from them to the destination.
LEMMA WalkExact ==
  ASSUME Cardinality(Items) < MaxDepth, AllInv, ExactInv, NEW r \in Requests, WalkUp(r)
  PROVE  ExactInv'
<1> DEFINE i == req[r].item
           c == req[r].cur
           d == req[r].dest
           V == req[r].seen \cup {c}
           p == [req[r] EXCEPT !.seen = @ \cup {c}, !.cur = Root, !.pc = "save"]
           q == [req[r] EXCEPT !.seen = @ \cup {c}, !.cur = rows[c].parent]
<1>0. /\ TypeInv /\ rows \in Table /\ req[r] \in Request /\ Phase(req[r])
      /\ Safe(rows, req[r]) /\ Exact(rows, req[r]) /\ req[r].pc = "walk"
  BY DEF AllInv, TypeInv, TypeOK, PhaseInv, ForestInv, ExactInv, Table, WalkUp, At
<1>1. /\ UNCHANGED rows /\ i \in Items /\ c \in Items /\ V \in SUBSET Items
      /\ rows[i].state = "live" /\ d \in Items /\ req[r].op \in Ops
      /\ req[r].snap = [rows[i] EXCEPT !.parent = d] /\ CanHold(rows, d, i)
  BY <1>0 DEF Phase, Exact, Saves, Request, WalkUp
<1>2. /\ i \notin req[r].seen /\ d \in V
      /\ \A y \in req[r].seen : rows[y].state = "live" => rows[y].parent \in V
  BY <1>0 DEF Safe, WalkInv
<1>3. /\ p.pc = "save" /\ p.op = req[r].op /\ p.item = i /\ p.snap = req[r].snap
      /\ q.pc = "walk" /\ q.op = req[r].op /\ q.item = i /\ q.snap = req[r].snap /\ q.dest = d
  BY <1>0 DEF Request
<1>4. \/ Finish(r)
      \/ Becomes(r, p) /\ WalkEnds(r)
      \/ Becomes(r, q)
  BY DEF WalkUp
<1> HIDE DEF p, q
<1>5. ASSUME WalkEnds(r) PROVE Exact(rows, p)
  <2>1. c # i /\ (c \in req[r].seen \/ ~Live(c) \/ ~SameDrive(c, i) \/ rows[c].parent = Root)
    BY <1>0, <1>2, <1>5, DepthNotReached DEF WalkEnds, Request
  <2>2. SameDrive(c, i)
    BY <1>0 DEF Safe, WalkInv
  <2>3. \A y \in V : rows[y].state = "live" => rows[y].parent \in V \cup {Root}
    BY <1>2, <2>1, <2>2 DEF Live
  <2> DEFINE S == Items \ V
  <2>4. Closed(rows, S, S)
    BY <2>3, SentinelAssumption DEF Closed
  <2>5. i \in S /\ d \notin S
    BY <1>1, <1>2, <2>1
  <2>6. Outside(rows, i, d)
    BY <2>4, <2>5 DEF Outside
  <2>7. d \in Folders \cup {Root}
    BY <1>1 DEF CanHold
  <2>8. OneChange(rows, p)
    BY <1>1, <1>3, <2>6, <2>7 DEF OneChange
  <2> QED
    BY <1>1, <1>3, <2>8 DEF Exact, Saves, Purging
<1>6. Exact(rows, q)
  BY <1>1, <1>3 DEF Exact, Saves, Purging
<1> QED
  BY <1>0, <1>1, <1>4, <1>5, <1>6, ExactSame, ExactFinish

\* A Save or a soft delete: what another request has checked outlasts it.
LEMMA WriteExact ==
  ASSUME Calm, AllInv, ExactInv, NEW r \in Requests, SaveItem(r) \/ TrashItem(r)
  PROVE  ExactInv'
<1>0. /\ TypeInv /\ rows \in Table /\ req[r] \in Request /\ Phase(req[r]) /\ Exact(rows, req[r])
  BY DEF AllInv, TypeInv, TypeOK, PhaseInv, ExactInv, Table
<1>1. ASSUME NEW p \in Requests, p # r PROVE Exact(rows', req[p])
  <2>1. /\ OneWriter /\ Ops \cap {"trash", "purge"} = {}
        /\ Phase(req[p]) /\ Exact(rows, req[p])
    BY <1>1 DEF Calm, Serial, AllInv, TypeInv, PhaseInv, ExactInv
  <2>2. SaveItem(r)
    BY <1>0, <2>1 DEF Exact, TrashItem, At
  <2>3. Writing(r) /\ ~Writing(p)
    BY <1>0, <1>1, <2>2 DEF SaveItem, At, Phase, Writing, AllInv, ForestInv, AtMostOneWriter
  <2>4. req[p].pc \notin Saves \cup Purging \cup {"trash"}
    BY <2>1, <2>3 DEF Exact, Phase, Saves, Writing
  <2>5. req[r].snap.state = "live"
    <3>1. rows[req[r].item].state = "live" /\ OneChange(rows, req[r]) /\ rows[req[r].item] \in Row
      BY <1>0, <2>2 DEF SaveItem, At, Exact, Saves, Phase, Table
    <3> QED
      BY <3>1 DEF OneChange, Row
  <2>6. \A x \in Items : rows[x].state = "live" => rows'[x].state = "live"
    BY <1>0, <2>2, <2>5 DEF SaveItem, Table
  <2>7. \A x, y : CanHold(rows, x, y) => CanHold(rows', x, y)
    BY <2>6 DEF CanHold, Items
  <2>8. req[p].pc # "collect"
    BY <2>4 DEF Purging
  <2> QED
    BY <2>1, <2>4, <2>7, <2>8 DEF Exact, Saves
<1>2. Finish(r)
  BY DEF SaveItem, TrashItem
<1> QED
  BY <1>0, <1>1, <1>2, IdleExact, ExactStep DEF Finish

\* The search of a permanent delete finds nothing but the subtree: whatever
\* contains the item and what hangs in it contains the next children as well.
LEMMA PurgeExact ==
  ASSUME Calm, AllInv, ExactInv, NEW r \in Requests,
         \/ GetDriver(r) \/ CollectRoot(r) \/ CollectChildren(r)
         \/ DeleteObjects(r) \/ PurgeRows(r) \/ SettleAccount(r)
  PROVE  ExactInv'
<1>0. /\ TypeInv /\ rows \in Table /\ req[r] \in Request /\ Phase(req[r]) /\ Exact(rows, req[r])
  BY DEF AllInv, TypeInv, TypeOK, PhaseInv, ExactInv, Table
<1>1. CASE GetDriver(r)
  <2> DEFINE l == IF req[r].item \in Files THEN "deleteObjects" ELSE "collectRoot"
             q(x) == [req[r] EXCEPT !.acct = x, !.seen = {req[r].item}, !.pc = l]
  <2>1. PICK x : Becomes(r, q(x))
    BY <1>1 DEF GetDriver
  <2>2. /\ q(x).item = req[r].item /\ q(x).op = req[r].op /\ q(x).seen = {req[r].item}
        /\ q(x).pc = l
    BY <1>0 DEF Request
  <2>3. l \in {"deleteObjects", "collectRoot"}
    OBVIOUS
  <2>4. UNCHANGED rows /\ req[r].pc = "getDriver"
    BY <1>1 DEF GetDriver, At
  <2> HIDE DEF q, l
  <2>5. Exact(rows, q(x))
    BY <1>0, <2>2, <2>3, <2>4 DEF Exact, Saves, Purging, Least
  <2> QED
    BY <1>0, <2>1, <2>4, <2>5, ExactSame
<1>2. CASE CollectRoot(r)
  <2> DEFINE q == [req[r] EXCEPT !.todo = {req[r].item}, !.pc = "collect"]
  <2>1. /\ q.pc = "collect" /\ q.seen = req[r].seen /\ q.todo = {req[r].item}
        /\ q.item = req[r].item /\ q.op = req[r].op
    BY <1>0 DEF Request
  <2>2. Finish(r) \/ Becomes(r, q)
    BY <1>2 DEF CollectRoot
  <2>3. UNCHANGED rows /\ req[r].pc = "collectRoot"
    BY <1>2 DEF CollectRoot, At
  <2> HIDE DEF q
  <2>4. Exact(rows, q)
    BY <1>0, <2>1, <2>3 DEF Exact, Saves, Purging, Least
  <2> QED
    BY <1>0, <2>2, <2>3, <2>4, ExactSame, ExactFinish
<1>3. CASE CollectChildren(r)
  <2> DEFINE new(x) == ChildrenOf(x) \ req[r].seen
             p == [req[r] EXCEPT !.todo = {}, !.pc = "deleteObjects"]
             q(x) == [req[r] EXCEPT !.seen = @ \cup new(x),
                                    !.todo = (@ \ {x}) \cup (new(x) \cap Folders)]
  <2>1. /\ UNCHANGED rows /\ req[r].pc = "collect" /\ req[r].todo \subseteq req[r].seen
        /\ Least(rows, req[r])
    BY <1>0, <1>3 DEF CollectChildren, At, Exact, Purging
  <2>2. /\ p.pc = "deleteObjects" /\ p.seen = req[r].seen /\ p.item = req[r].item
        /\ p.op = req[r].op
        /\ \A x : /\ q(x).pc = "collect" /\ q(x).seen = req[r].seen \cup new(x)
                  /\ q(x).todo = (req[r].todo \ {x}) \cup (new(x) \cap Folders)
                  /\ q(x).item = req[r].item /\ q(x).op = req[r].op
    BY <1>0, <2>1 DEF Request
  <2>3. Becomes(r, p) \/ \E x \in req[r].todo : Becomes(r, q(x))
    BY <1>3 DEF CollectChildren
  <2>4. ASSUME NEW x \in req[r].todo, NEW S \in SUBSET Items,
               req[r].item \in S, Closed(rows, S, S)
        PROVE  req[r].seen \cup new(x) \subseteq S
    <3>1. req[r].seen \subseteq S /\ x \in S
      BY <2>1, <2>4 DEF Least
    <3>2. new(x) \subseteq S
      BY <2>4, <3>1 DEF ChildrenOf, Closed, Live
    <3> QED
      BY <3>1, <3>2
  <2> HIDE DEF p, q, new
  <2>5. Exact(rows, p)
    BY <1>0, <2>1, <2>2 DEF Exact, Saves, Purging, Least
  <2>6. ASSUME NEW x \in req[r].todo PROVE Exact(rows, q(x))
    <3>1. Least(rows, q(x))
      BY <2>1, <2>2, <2>4 DEF Least
    <3>2. q(x).todo \subseteq q(x).seen
      BY <2>1, <2>2
    <3> QED
      BY <1>0, <2>1, <2>2, <3>1, <3>2 DEF Exact, Saves, Purging
  <2> QED
    BY <1>0, <2>1, <2>3, <2>5, <2>6, ExactSame
<1>4. CASE DeleteObjects(r)
  <2> DEFINE q == [req[r] EXCEPT !.pc = "purgeRows"]
  <2>1. /\ q.pc = "purgeRows" /\ q.seen = req[r].seen /\ q.item = req[r].item /\ q.op = req[r].op
        /\ req[r].pc = "deleteObjects"
    BY <1>0, <1>4 DEF DeleteObjects, At, Request
  <2>2. Becomes(r, q) /\ UNCHANGED rows
    BY <1>4 DEF DeleteObjects
  <2> HIDE DEF q
  <2>3. Exact(rows, q)
    BY <1>0, <2>1 DEF Exact, Saves, Purging, Least
  <2> QED
    BY <1>0, <2>2, <2>3, ExactSame
<1>5. CASE PurgeRows(r)
  <2> DEFINE q == [req[r] EXCEPT !.pc = "settle"]
  <2>1. q.pc = "settle" /\ q.op = req[r].op /\ req[r].pc = "purgeRows"
    BY <1>0, <1>5 DEF PurgeRows, At, Request
  <2>2. Becomes(r, q)
    BY <1>5 DEF PurgeRows
  <2> HIDE DEF q
  <2>3. Exact(rows', q)
    BY <1>0, <2>1 DEF Exact, Saves, Purging
  <2>4. Serial
    BY <1>0, <2>1 DEF Calm, Exact, Purging
  <2>5. \A p \in Requests : p = r
    BY <2>4 DEF Serial
  <2> QED
    BY <1>0, <2>2, <2>3, <2>5, ExactStep
<1>6. CASE SettleAccount(r)
  BY <1>0, <1>6, ExactFinish DEF SettleAccount
<1> QED
  BY <1>1, <1>2, <1>3, <1>4, <1>5, <1>6

LEMMA NextCalm ==
  ASSUME Calm, Cardinality(Items) < MaxDepth, Cardinality(Items) < MaxItems,
         CalmInv, [Next]_vars
  PROVE  CalmInv'
<1> USE DEF CalmInv
<1>1. AllInv'
  BY NextForest DEF Calm
<1>2. Serial => OrphanInv'
  BY OrphanNext DEF AllInv
<1>3. ExactInv'
  <2>1. CASE Crash
    <3>1. UNCHANGED rows /\ \A r \in Requests : req'[r] = Idle
      BY <2>1 DEF Crash
    <3> QED
      BY <3>1, IdleExact DEF ExactInv
  <2>2. ASSUME NEW r \in Requests, Start(r) PROVE ExactInv'
    BY <2>2, StartExact DEF AllInv
  <2>3. ASSUME NEW r \in Requests, Advance(r) PROVE ExactInv'
    BY <2>3, CreateExact, ReadExact, CheckDestinationExact, WalkExact, WriteExact, PurgeExact
    DEF Advance
  <2>4. CASE UNCHANGED vars
    BY <2>4 DEF vars, ExactInv
  <2> QED
    BY <2>1, <2>2, <2>3, <2>4 DEF Next
<1> QED
  BY <1>1, <1>2, <1>3

LEMMA SameRow ==
  ASSUME NEW a \in Row, NEW b \in Row,
         a.state = b.state, a.parent = b.parent, a.starred = b.starred
  PROVE  a = b
BY DEF Row

LEMMA TreeInit == Init => Tree!Init
BY DEF Init, NullRow, Items, Tree!Init, Tree!Items, Tree!Top

\* Every step of a request is one atomic operation, or none.
LEMMA TreeStep ==
  ASSUME Calm, CalmInv, [Next]_vars
  PROVE  [Tree!Next]_rows
<1> SUFFICES ASSUME NEW r \in Requests,
                    InsertFolder(r) \/ SaveItem(r) \/ TrashItem(r) \/ PurgeRows(r)
             PROVE  [Tree!Next]_rows
  BY DEF Next, Crash, vars, Start, StartCreate, StartUpdate, StartOnItem, Advance, CheckParent,
     ReadItem, CheckDestination, WalkUp, GetDriver, CollectRoot, CollectChildren,
     DeleteObjects, SettleAccount
<1> DEFINE i == req[r].item
<1>0. /\ rows \in Table /\ req[r] \in Request /\ Phase(req[r])
      /\ Exact(rows, req[r]) /\ Safe(rows, req[r])
  BY DEF CalmInv, AllInv, ForestInv, TypeInv, TypeOK, PhaseInv, ExactInv, Table
<1>1. i \in Items /\ rows[i] \in Row
  BY <1>0 DEF InsertFolder, SaveItem, TrashItem, PurgeRows, At, Phase, Table
<1>2. \A p \in Folders \cup {Root} : CanHold(rows, p, i) <=> Tree!MayHold(p, i)
  BY DEF CanHold, Tree!MayHold, Tree!Live
<1>3. \A S : Closed(rows, S, S) <=> Tree!Downward(S)
  BY DEF Closed, Tree!Downward, Tree!Live, Tree!Items, Items
<1>4. CASE InsertFolder(r)
  <2> DEFINE d == req[r].dest
  <2>1. /\ i \in Folders /\ rows[i].state = "unused" /\ CanHold(rows, d, i)
        /\ d \in Folders \cup {Root}
    BY <1>0, <1>4 DEF InsertFolder, At, Exact, Safe, Phase, CanHold
  <2>2. rows' = [rows EXCEPT ![i] = [Tree!Top("live") EXCEPT !.parent = d]]
    BY <1>4 DEF InsertFolder, Tree!Top
  <2>3. Tree!Create(i, d)
    BY <1>2, <2>1, <2>2 DEF Tree!Create
  <2> QED
    BY <2>1, <2>3 DEF Tree!Next
<1>5. CASE SaveItem(r)
  <2>1. rows[i].state = "live" /\ OneChange(rows, req[r]) /\ rows' = [rows EXCEPT ![i] = req[r].snap]
    BY <1>0, <1>5 DEF SaveItem, At, Exact, Saves
  <2>2. CASE req[r].snap = rows[i]
    BY <1>0, <1>1, <2>1, <2>2 DEF Table
  <2>3. CASE req[r].snap = [rows[i] EXCEPT !.starred = ~@]
    <3>1. Tree!Star(i)
      BY <2>1, <2>3 DEF Tree!Star, Tree!Live
    <3> QED
      BY <1>1, <3>1 DEF Tree!Next, Tree!Items, Items
  <2>4. ASSUME NEW p \in Folders \cup {Root}, req[r].snap = [rows[i] EXCEPT !.parent = p],
               CanHold(rows, p, i), Outside(rows, i, p)
        PROVE  [Tree!Next]_rows
    <3>1. p \notin Tree!Subtree(i)
      BY <1>3, <2>4 DEF Outside, Tree!Subtree, Tree!Items, Items
    <3>2. Tree!Move(i, p)
      BY <1>2, <2>1, <2>4, <3>1 DEF Tree!Move, Tree!Live
    <3> QED
      BY <1>1, <3>2 DEF Tree!Next, Tree!Items, Items
  <2> QED
    BY <2>1, <2>2, <2>3, <2>4 DEF OneChange
<1>6. CASE TrashItem(r)
  <2>1. CASE ~Live(i)
    BY <1>6, <2>1 DEF TrashItem
  <2>2. CASE Live(i)
    <3>1. Tree!Trash(i)
      BY <1>6, <2>2 DEF TrashItem, Tree!Trash, Tree!Live, Live
    <3> QED
      BY <1>1, <3>1 DEF Tree!Next, Tree!Items, Items
  <2> QED
    BY <2>1, <2>2
<1>7. CASE PurgeRows(r)
  <2>1. Serial
    BY <1>0, <1>7 DEF PurgeRows, At, Calm, Exact, Purging
  <2>2. /\ rows[i].state = "live" /\ Least(rows, req[r]) /\ req[r].seen \in SUBSET Items
        /\ Closed(rows, req[r].seen, req[r].seen)
    BY <1>0, <1>7, <2>1
    DEF PurgeRows, At, Exact, Saves, Purging, Request, CalmInv, OrphanInv, Whole
  <2>3. req[r].seen = Tree!Subtree(i)
    <3>1. Tree!Subtree(i) \subseteq req[r].seen
      BY <1>3, <2>2 DEF Tree!Subtree, Tree!Items, Items, Least
    <3>2. req[r].seen \subseteq Tree!Subtree(i)
      BY <1>3, <2>2 DEF Tree!Subtree, Tree!Items, Items, Least
    <3> QED
      BY <3>1, <3>2
  <2>4. rows' = [x \in Tree!Items |-> IF x \in Tree!Subtree(i) THEN Tree!Top("purged") ELSE rows[x]]
    <3>1. GoneRow = Tree!Top("purged")
      <4>1. GoneRow \in Row /\ Tree!Top("purged") \in Row
        BY NullRowType DEF Tree!Top, Row
      <4>2. /\ GoneRow.state = "purged" /\ GoneRow.parent = Root /\ GoneRow.starred = FALSE
            /\ Tree!Top("purged").state = "purged" /\ Tree!Top("purged").parent = Root
            /\ Tree!Top("purged").starred = FALSE
        BY DEF GoneRow, NullRow, Tree!Top
      <4> QED
        BY <4>1, <4>2, SameRow
    <3>2. rows' = [x \in Items |-> IF x \in req[r].seen THEN GoneRow ELSE rows[x]]
      BY <1>7 DEF PurgeRows
    <3>3. \A x : x \in req[r].seen <=> x \in Tree!Subtree(i)
      BY <2>3
    <3> QED
      BY <3>1, <3>2, <3>3 DEF Tree!Items, Items
  <2>5. Tree!Remove(i)
    BY <2>2, <2>4 DEF Tree!Remove, Tree!Live
  <2> QED
    BY <1>1, <2>5 DEF Tree!Next, Tree!Items, Items
<1> QED
  BY <1>4, <1>5, <1>6, <1>7

\* Where requests come one at a time, or nothing is deleted and one of them at
\* most Saves an item, the sequences of statements that serve them change the
\* rows like the atomic operations of AtomicTree: the upward walk admits just
\* the moves out of the item's subtree, the search below an item finds just its
\* subtree, and what a request read is what it overwrites.  MaxDepth and
\* MaxItems are the sizes at which the walk and the search give up.
THEOREM TreeIsAtomic ==
  ASSUME Calm, Cardinality(Items) < MaxDepth, Cardinality(Items) < MaxItems
  PROVE  Spec => ImplementsAtomicTree
<1>1. Init => CalmInv
  <2> SUFFICES ASSUME Init PROVE CalmInv
    OBVIOUS
  <2>1. \A r \in Requests : req[r] = Idle
    BY DEF Init
  <2>2. ExactInv
    BY <2>1, IdleExact DEF ExactInv
  <2> QED
    BY <2>2, InitTypeInv, InitHang, InitForest, OrphanInit DEF CalmInv, AllInv
<1>2. CalmInv /\ [Next]_vars => CalmInv'
  BY NextCalm
<1>3. CalmInv /\ [Next]_vars => [Tree!Next]_rows
  BY TreeStep
<1> QED
  BY <1>1, <1>2, <1>3, TreeInit, PTL DEF Spec, ImplementsAtomicTree, Tree!Spec

-----------------------------------------------------------------------------
(* used_storage, between requests.  While a permanent delete is under way,  *)
(* the files whose objects it has removed count as stored, and those whose   *)
(* rows it has removed as kept, until it settles the account.  So every step *)
(* but that one leaves both sides of the sum alone, or lets them drift apart. *)

Gathering == {"collectRoot", "collect", "deleteObjects", "purgeRows"}

Kept(i) == rows[i].state \in {"live", "trashed"}

Taken(q, f) == q.pc \in {"purgeRows", "settle"} /\ q.acct # NoAccount /\ f \in q.seen

Freed(q, f) == q.pc = "settle" /\ f \in q.seen

KeptOrOwed(a) ==
  {f \in Files : AccountOf[f] = a /\ (Kept(f) \/ \E r \in Requests : Freed(req[r], f))}

StoredOrOwed(a) ==
  {f \in Files : AccountOf[f] = a /\ (f \in objects \/ \E r \in Requests : Taken(req[r], f))}

\* What q has read of table t and accounts u is what they say.
Sound(t, u, q) ==
  /\ q.pc \in {"checkParent", "insert"} => q.item \in Folders
  /\ q.pc \in Saves \cup {"getDriver"} => t[q.item].state = "live"
  /\ q.pc \in Gathering => \A x \in q.seen : t[x].state = "live"
  /\ q.pc = "settle" => \A x \in q.seen : t[x].state = "purged"
  /\ q.pc \in Gathering \cup {"settle"} =>
       /\ \A x \in q.seen : AccountOf[x] = AccountOf[q.item]
       /\ q.acct \in {NoAccount, u[AccountOf[q.item]]}
  /\ q.pc = "collectRoot" => q.item \in q.seen
  /\ q.pc = "collect" => q.todo \subseteq q.seen

UsedInv ==
  /\ \A r \in Requests : Sound(rows, used, req[r])
  /\ \A a \in Accounts : /\ Cardinality(KeptOrOwed(a)) <= used[a]
                         /\ used[a] <= Cardinality(StoredOrOwed(a))

LEMMA FilesCount ==
  ASSUME NEW S \in SUBSET Files, NEW T \in SUBSET S
  PROVE  /\ IsFiniteSet(S) /\ IsFiniteSet(T)
         /\ Cardinality(S) \in Nat /\ Cardinality(T) \in Nat
         /\ Cardinality(T) <= Cardinality(S)
<1>1. IsFiniteSet(S) /\ Cardinality(S) \in Nat
  BY CountIsNat DEF Items
<1>2. IsFiniteSet(T) /\ Cardinality(T) \in Nat
  BY CountIsNat DEF Items
<1>3. Cardinality(T) <= Cardinality(S)
  BY <1>1, FS_Subset
<1> QED
  BY <1>1, <1>2, <1>3

\* A step that leaves the accounts alone, and by which neither side of the sum
\* moves towards the other.
LEMMA UsedStep ==
  ASSUME Serial, TypeInv, TypeOK', UsedInv, NEW r \in Requests, NEW q, Becomes(r, q), used' = used,
         Sound(rows', used, q),
         \A f \in Files : Kept(f)' \/ Freed(q, f) => Kept(f) \/ Freed(req[r], f),
         \A f \in Files : f \in objects \/ Taken(req[r], f) => f \in objects' \/ Taken(q, f)
  PROVE  UsedInv'
<1>0. \A p \in Requests : p = r /\ req'[p] = q
  BY DEF Becomes, TypeInv, TypeOK, Serial
<1>1. \A p \in Requests : Sound(rows, used, req[p])'
  BY <1>0
<1>2. ASSUME NEW a \in Accounts
      PROVE  /\ Cardinality(KeptOrOwed(a)') <= used[a]
             /\ used[a] <= Cardinality(StoredOrOwed(a)')
  <2>1. KeptOrOwed(a)' \subseteq KeptOrOwed(a)
    BY <1>0 DEF KeptOrOwed
  <2>2. StoredOrOwed(a) \subseteq StoredOrOwed(a)'
    BY <1>0 DEF StoredOrOwed
  <2>3. KeptOrOwed(a) \subseteq Files /\ StoredOrOwed(a)' \subseteq Files
    BY DEF KeptOrOwed, StoredOrOwed
  <2>4. /\ Cardinality(KeptOrOwed(a)') <= Cardinality(KeptOrOwed(a))
        /\ Cardinality(KeptOrOwed(a)') \in Nat /\ Cardinality(KeptOrOwed(a)) \in Nat
    BY <2>1, <2>3, FilesCount
  <2>5. /\ Cardinality(StoredOrOwed(a)) <= Cardinality(StoredOrOwed(a)')
        /\ Cardinality(StoredOrOwed(a)) \in Nat /\ Cardinality(StoredOrOwed(a)') \in Nat
    BY <2>2, <2>3, FilesCount
  <2>6. /\ Cardinality(KeptOrOwed(a)) <= used[a] /\ used[a] <= Cardinality(StoredOrOwed(a))
        /\ used[a] \in Nat
    BY DEF UsedInv, TypeInv, TypeOK
  <2> QED
    BY <2>4, <2>5, <2>6
<1> QED
  BY <1>1, <1>2 DEF UsedInv

\* A step of a request that has removed nothing yet.
LEMMA UsedBefore ==
  ASSUME Serial, TypeInv, TypeOK', UsedInv, NEW r \in Requests, NEW q, Becomes(r, q), used' = used,
         objects' = objects, req[r].pc \notin {"purgeRows", "settle"}, q.pc # "settle",
         Sound(rows', used, q), \A f \in Files : Kept(f)' => Kept(f)
  PROVE  UsedInv'
<1>1. \A f \in Files : ~Freed(q, f) /\ ~Taken(req[r], f)
  BY DEF Freed, Taken
<1> QED
  BY <1>1, UsedStep

LEMMA IdleSound == \A t, u : Sound(t, u, Idle)
BY DEF Sound, Idle, Saves, Gathering

LEMMA StartUsed ==
  ASSUME Serial, TypeInv, TypeOK', UsedInv, NEW r \in Requests, Start(r)
  PROVE  UsedInv'
<1>1. UNCHANGED <<rows, objects, used>> /\ req[r].pc = "idle"
  BY DEF Start, StartCreate, StartUpdate, StartOnItem, At
<1>2. ASSUME NEW q, Becomes(r, q),
             \/ q.pc = "readItem"
             \/ q.pc \in {"insert", "checkParent"} /\ q.item \in Folders
      PROVE  UsedInv'
  <2>1. Sound(rows', used, q)
    BY <1>2 DEF Sound, Saves, Gathering
  <2> QED
    BY <1>1, <1>2, <2>1, UsedBefore DEF Kept
<1>3. ASSUME NEW i \in Folders, NEW d \in Items \cup {Root}, StartCreate(r, i, d)
      PROVE  UsedInv'
  <2> DEFINE q == [Idle EXCEPT !.op = "create", !.item = i, !.dest = d,
                           !.pc = IF d = Root THEN "insert" ELSE "checkParent"]
  <2>1. q.item = i /\ q.pc \in {"checkParent", "insert"}
    BY DEF Idle
  <2>2. Becomes(r, q)
    BY <1>3 DEF StartCreate
  <2> HIDE DEF q
  <2> QED
    BY <1>2, <2>1, <2>2
<1>4. ASSUME NEW i \in Items, NEW d \in Items \cup {Root, NoMove}, StartUpdate(r, i, d)
      PROVE  UsedInv'
  <2> DEFINE q == [Idle EXCEPT !.op = "update", !.item = i, !.dest = d, !.pc = "readItem"]
  <2>1. q.pc = "readItem"
    BY DEF Idle
  <2>2. Becomes(r, q)
    BY <1>4 DEF StartUpdate
  <2> QED
    BY <1>2, <2>1, <2>2
<1>5. ASSUME NEW i \in Items, NEW op \in Ops, StartOnItem(r, i, op)
      PROVE  UsedInv'
  <2> DEFINE q == [Idle EXCEPT !.op = op, !.item = i, !.pc = "readItem"]
  <2>1. q.pc = "readItem"
    BY DEF Idle
  <2>2. Becomes(r, q)
    BY <1>5 DEF StartOnItem
  <2> QED
    BY <1>2, <2>1, <2>2
<1> QED
  BY <1>3, <1>4, <1>5 DEF Start

LEMMA WriteUsed ==
  ASSUME Serial, TypeInv, TypeOK', UsedInv, NEW r \in Requests,
         \/ CheckParent(r) \/ InsertFolder(r) \/ ReadItem(r) \/ CheckDestination(r)
         \/ WalkUp(r) \/ SaveItem(r) \/ TrashItem(r)
  PROVE  UsedInv'
<1>0. /\ req[r] \in Request /\ Phase(req[r]) /\ rows \in [Items -> Row]
      /\ Sound(rows, used, req[r])
  BY DEF TypeInv, TypeOK, PhaseInv, UsedInv
<1>1. /\ used' = used /\ objects' = objects /\ req[r].pc \notin {"purgeRows", "settle"}
      /\ req[r].item \in Items
  BY <1>0 DEF Phase, CheckParent, InsertFolder, ReadItem, CheckDestination, WalkUp, SaveItem,
              TrashItem, At
<1>2. ASSUME Finish(r), \A f \in Files : Kept(f)' => Kept(f)
      PROVE  UsedInv'
  <2>1. Idle.pc # "settle"
    BY DEF Idle
  <2> QED
    BY <1>1, <1>2, <2>1, IdleSound, UsedBefore DEF Finish
<1>3. ASSUME NEW q, Becomes(r, q), UNCHANGED rows, q.pc # "settle", Sound(rows, used, q)
      PROVE  UsedInv'
  BY <1>1, <1>3, UsedBefore DEF Kept
<1>4. CASE CheckParent(r)
  <2> DEFINE q == [req[r] EXCEPT !.pc = "insert"]
  <2>1. q.item = req[r].item /\ q.pc = "insert" /\ UNCHANGED rows
    BY <1>0, <1>4 DEF Request, CheckParent
  <2>2. Finish(r) \/ Becomes(r, q)
    BY <1>4 DEF CheckParent
  <2> HIDE DEF q
  <2>3. Sound(rows, used, q)
    BY <1>0, <1>4, <2>1 DEF Sound, Saves, Gathering, CheckParent, At
  <2> QED
    BY <1>2, <1>3, <2>1, <2>2, <2>3 DEF Kept
<1>5. CASE InsertFolder(r)
  <2>1. Finish(r) /\ req[r].item \in Folders
    BY <1>0, <1>5 DEF InsertFolder, At, Sound
  <2>2. \A f \in Files : rows'[f] = rows[f]
    BY <1>0, <1>5, <2>1, KindAssumption DEF InsertFolder, Items
  <2> QED
    BY <1>2, <2>1, <2>2 DEF Kept
<1>6. CASE ReadItem(r)
  <2>1. UNCHANGED rows
    BY <1>6 DEF ReadItem
  <2>2. CASE Finish(r)
    BY <1>2, <2>1, <2>2 DEF Kept
  <2>3. CASE /\ Live(req[r].item)
             /\ Becomes(r, [req[r] EXCEPT !.snap = RowRead(r), !.pc = AfterRead(r)])
    <3> DEFINE q == [req[r] EXCEPT !.snap = RowRead(r), !.pc = AfterRead(r)]
    <3>1. q.item = req[r].item /\ q.pc = AfterRead(r)
      BY <1>0 DEF Request
    <3>2. Becomes(r, q)
      BY <2>3
    <3> HIDE DEF q
    <3>3. q.pc \in {"save", "checkDest", "trash", "getDriver"}
      BY <3>1 DEF AfterRead
    <3>4. Sound(rows, used, q)
      BY <2>3, <3>1, <3>3 DEF Sound, Saves, Gathering, Live
    <3> QED
      BY <1>3, <2>1, <3>2, <3>3, <3>4
  <2> QED
    BY <1>6, <2>2, <2>3 DEF ReadItem
<1>7. CASE CheckDestination(r)
  <2> DEFINE p == [req[r] EXCEPT !.snap.parent = Root, !.pc = "save"]
             q == [req[r] EXCEPT !.snap.parent = req[r].dest, !.cur = req[r].dest, !.pc = "walk"]
  <2>1. /\ p.item = req[r].item /\ p.pc = "save" /\ q.item = req[r].item /\ q.pc = "walk"
        /\ UNCHANGED rows
    BY <1>0, <1>7 DEF Request, CheckDestination
  <2>2. Finish(r) \/ Becomes(r, p) \/ Becomes(r, q)
    BY <1>7 DEF CheckDestination
  <2> HIDE DEF p, q
  <2>3. Sound(rows, used, p) /\ Sound(rows, used, q)
    BY <1>0, <1>7, <2>1 DEF Sound, Saves, Gathering, CheckDestination, At
  <2> QED
    BY <1>2, <1>3, <2>1, <2>2, <2>3 DEF Kept
<1>8. CASE WalkUp(r)
  <2> DEFINE p == [req[r] EXCEPT !.seen = @ \cup {req[r].cur}, !.cur = Root, !.pc = "save"]
             q == [req[r] EXCEPT !.seen = @ \cup {req[r].cur}, !.cur = rows[req[r].cur].parent]
  <2>1. UNCHANGED rows /\ req[r].pc = "walk"
    BY <1>8 DEF WalkUp, At
  <2>2. p.item = req[r].item /\ p.pc = "save" /\ q.item = req[r].item /\ q.pc = "walk"
    BY <1>0, <2>1 DEF Request
  <2>3. Finish(r) \/ Becomes(r, p) \/ Becomes(r, q)
    BY <1>8 DEF WalkUp
  <2> HIDE DEF p, q
  <2>4. Sound(rows, used, p) /\ Sound(rows, used, q)
    BY <1>0, <2>1, <2>2 DEF Sound, Saves, Gathering
  <2> QED
    BY <1>2, <1>3, <2>1, <2>2, <2>3, <2>4 DEF Kept
<1>9. CASE SaveItem(r)
  <2>1. Finish(r) /\ rows[req[r].item].state = "live"
    BY <1>0, <1>9 DEF SaveItem, At, Sound, Saves
  <2>2. \A f \in Items : f # req[r].item => rows'[f] = rows[f]
    BY <1>0, <1>9 DEF SaveItem
  <2>3. \A f \in Files : Kept(f)' => Kept(f)
    BY <2>1, <2>2 DEF Kept, Items
  <2> QED
    BY <1>2, <2>1, <2>3
<1>10. CASE TrashItem(r)
  <2>1. Finish(r)
    BY <1>10 DEF TrashItem
  <2>2. \A f \in Items : rows'[f] = rows[f] \/ rows[f].state = "live"
    BY <1>0, <1>1, <1>10 DEF TrashItem, Live
  <2>3. \A f \in Files : Kept(f)' => Kept(f)
    BY <2>2 DEF Kept, Items
  <2> QED
    BY <1>2, <2>1, <2>3
<1> QED
  BY <1>4, <1>5, <1>6, <1>7, <1>8, <1>9, <1>10

\* The steps of a permanent delete up to the removal of its rows.
LEMMA PurgeUsed ==
  ASSUME Serial, TypeInv, TypeOK', UsedInv, NEW r \in Requests,
         \/ GetDriver(r) \/ CollectRoot(r) \/ CollectChildren(r)
         \/ DeleteObjects(r) \/ PurgeRows(r)
  PROVE  UsedInv'
<1>0. /\ req[r] \in Request /\ Phase(req[r]) /\ rows \in [Items -> Row]
      /\ Sound(rows, used, req[r]) /\ req[r].seen \in SUBSET Items
  BY DEF TypeInv, TypeOK, PhaseInv, UsedInv, Request
<1>1. used' = used
  BY DEF GetDriver, CollectRoot, CollectChildren, DeleteObjects, PurgeRows
<1>2. ASSUME NEW q, Becomes(r, q), UNCHANGED <<rows, objects>>, Sound(rows, used, q),
             q.pc # "settle", req[r].pc \notin {"purgeRows", "settle"}
      PROVE  UsedInv'
  BY <1>1, <1>2, UsedBefore DEF Kept
<1>3. CASE GetDriver(r)
  <2> DEFINE l == IF req[r].item \in Files THEN "deleteObjects" ELSE "collectRoot"
             q(x) == [req[r] EXCEPT !.acct = x, !.seen = {req[r].item}, !.pc = l]
  <2>1. PICK x \in {NoAccount, used[AccountOf[req[r].item]]} : Becomes(r, q(x))
    BY <1>3 DEF GetDriver
  <2>2. /\ q(x).item = req[r].item /\ q(x).seen = {req[r].item} /\ q(x).pc = l
        /\ q(x).acct = x
    BY <1>0 DEF Request
  <2>3. l \in {"deleteObjects", "collectRoot"}
    OBVIOUS
  <2>4. UNCHANGED <<rows, objects>> /\ req[r].pc = "getDriver"
    BY <1>3 DEF GetDriver, At
  <2> HIDE DEF q, l
  <2>5. Sound(rows, used, q(x))
    BY <1>0, <2>1, <2>2, <2>3, <2>4 DEF Sound, Saves, Gathering
  <2> QED
    BY <1>2, <2>1, <2>2, <2>3, <2>4, <2>5
<1>4. CASE CollectRoot(r)
  <2> DEFINE q == [req[r] EXCEPT !.todo = {req[r].item}, !.pc = "collect"]
  <2>1. /\ q.pc = "collect" /\ q.seen = req[r].seen /\ q.todo = {req[r].item}
        /\ q.item = req[r].item /\ q.acct = req[r].acct
    BY <1>0 DEF Request
  <2>2. UNCHANGED <<rows, objects>> /\ req[r].pc = "collectRoot"
    BY <1>4 DEF CollectRoot, At
  <2>3. CASE Becomes(r, q)
    <3> HIDE DEF q
    <3>1. Sound(rows, used, q)
      BY <1>0, <2>1, <2>2 DEF Sound, Saves, Gathering
    <3> QED
      BY <1>2, <2>1, <2>2, <2>3, <3>1
  <2>4. CASE Finish(r)
    <3>1. Idle.pc = "idle"
      BY DEF Idle
    <3> QED
      BY <1>2, <2>2, <2>4, <3>1, IdleSound DEF Finish
  <2> QED
    BY <1>4, <2>3, <2>4 DEF CollectRoot
<1>5. CASE CollectChildren(r)
  <2> DEFINE new(x) == ChildrenOf(x) \ req[r].seen
             p == [req[r] EXCEPT !.todo = {}, !.pc = "deleteObjects"]
             q(x) == [req[r] EXCEPT !.seen = @ \cup new(x),
                                    !.todo = (@ \ {x}) \cup (new(x) \cap Folders)]
  <2>1. /\ UNCHANGED <<rows, objects>> /\ req[r].pc = "collect"
        /\ req[r].todo \subseteq req[r].seen
        /\ \A x \in req[r].seen : Live(x) /\ AccountOf[x] = AccountOf[req[r].item]
    BY <1>0, <1>5 DEF CollectChildren, At, Sound, Gathering, Live
  <2>2. /\ p.pc = "deleteObjects" /\ p.seen = req[r].seen /\ p.item = req[r].item
        /\ p.acct = req[r].acct
        /\ \A x : /\ q(x).pc = "collect" /\ q(x).seen = req[r].seen \cup new(x)
                  /\ q(x).todo = (req[r].todo \ {x}) \cup (new(x) \cap Folders)
                  /\ q(x).item = req[r].item /\ q(x).acct = req[r].acct
    BY <1>0, <2>1 DEF Request
  <2>3. Becomes(r, p) \/ \E x \in req[r].todo : Becomes(r, q(x))
    BY <1>5 DEF CollectChildren
  <2>4. \A x \in req[r].todo : \A c \in new(x) : Live(c) /\ AccountOf[c] = AccountOf[x]
    BY DEF ChildrenOf, SameDrive
  <2> HIDE DEF p, q, new
  <2>5. Sound(rows, used, p)
    BY <1>0, <2>1, <2>2 DEF Sound, Saves, Gathering
  <2>6. ASSUME NEW x \in req[r].todo PROVE Sound(rows, used, q(x))
    <3>1. \A c \in q(x).seen : Live(c) /\ AccountOf[c] = AccountOf[req[r].item]
      BY <2>1, <2>2, <2>4
    <3>2. q(x).todo \subseteq q(x).seen
      BY <2>1, <2>2
    <3>3. req[r].acct \in {NoAccount, used[AccountOf[req[r].item]]}
      BY <1>0, <2>1 DEF Sound, Gathering
    <3> QED
      BY <2>2, <3>1, <3>2, <3>3 DEF Sound, Saves, Gathering, Live
  <2> QED
    BY <1>2, <2>1, <2>2, <2>3, <2>5, <2>6
<1>6. CASE DeleteObjects(r)
  <2> DEFINE q == [req[r] EXCEPT !.pc = "purgeRows"]
  <2>1. /\ q.pc = "purgeRows" /\ q.seen = req[r].seen /\ q.item = req[r].item
        /\ q.acct = req[r].acct
    BY <1>0 DEF Request
  <2>2. /\ Becomes(r, q) /\ UNCHANGED rows /\ req[r].pc = "deleteObjects"
        /\ \E keys \in DeletedKeys(r) : objects' = objects \ keys
    BY <1>6 DEF DeleteObjects, At
  <2> HIDE DEF q
  <2>3. Sound(rows, used, q)
    BY <1>0, <2>1, <2>2 DEF Sound, Saves, Gathering
  <2>4. \A f \in Files : f \in objects => f \in objects' \/ Taken(q, f)
    <3>1. \A keys \in DeletedKeys(r) :
            \A f \in keys : req[r].acct # NoAccount /\ f \in req[r].seen
      BY DEF DeletedKeys
    <3> QED
      BY <2>1, <2>2, <3>1 DEF Taken
  <2>5. \A f \in Files : ~Taken(req[r], f) /\ ~Freed(q, f)
    BY <2>1, <2>2 DEF Taken, Freed
  <2> QED
    BY <1>1, <2>2, <2>3, <2>4, <2>5, UsedStep DEF Kept
<1>7. CASE PurgeRows(r)
  <2> DEFINE q == [req[r] EXCEPT !.pc = "settle"]
  <2>1. /\ q.pc = "settle" /\ q.seen = req[r].seen /\ q.item = req[r].item
        /\ q.acct = req[r].acct
    BY <1>0 DEF Request
  <2>2. /\ Becomes(r, q) /\ objects' = objects /\ req[r].pc = "purgeRows"
        /\ \A x \in Items : rows'[x] = IF x \in req[r].seen THEN GoneRow ELSE rows[x]
    BY <1>7 DEF PurgeRows, At
  <2> HIDE DEF q
  <2>3. GoneRow.state = "purged"
    BY DEF GoneRow, NullRow
  <2>4. \A x \in req[r].seen : rows'[x].state = "purged" /\ rows[x].state = "live"
    BY <1>0, <2>2, <2>3 DEF Sound, Gathering
  <2>5. Sound(rows', used, q)
    BY <1>0, <2>1, <2>2, <2>4 DEF Sound, Saves, Gathering
  <2>6. \A f \in Files : Kept(f)' \/ Freed(q, f) => Kept(f)
    BY <2>1, <2>2, <2>4 DEF Kept, Freed, Items
  <2>7. \A f \in Files : Taken(req[r], f) => Taken(q, f)
    BY <2>1 DEF Taken
  <2> QED
    BY <1>1, <2>2, <2>5, <2>6, <2>7, UsedStep
<1> QED
  BY <1>3, <1>4, <1>5, <1>6, <1>7

LEMMA DisjointCount ==
  ASSUME NEW S \in SUBSET Files, NEW T \in SUBSET Files
  PROVE  /\ Cardinality(S \cup T) <= Cardinality(S) + Cardinality(T)
         /\ S \cap T = {} => Cardinality(S \cup T) = Cardinality(S) + Cardinality(T)
<1>1. /\ IsFiniteSet(S) /\ IsFiniteSet(T)
      /\ Cardinality(S) \in Nat /\ Cardinality(T) \in Nat /\ Cardinality(S \cap T) \in Nat
  BY CountIsNat DEF Items
<1>2. Cardinality(S \cup T) = Cardinality(S) + Cardinality(T) - Cardinality(S \cap T)
  BY <1>1, FS_Union
<1>3. S \cap T = {} => Cardinality(S \cap T) = 0
  BY FS_EmptySet
<1> QED
  BY <1>1, <1>2, <1>3

\* What is subtracted is what the files with rows or the objects have lost.
LEMMA SettleUsed ==
  ASSUME Serial, TypeInv, TypeOK', UsedInv, NEW r \in Requests, SettleAccount(r)
  PROVE  UsedInv'
<1> DEFINE D == req[r].seen \cap Files
           A == AccountOf[req[r].item]
<1>0. /\ req[r] \in Request /\ Phase(req[r]) /\ req[r].pc = "settle"
      /\ Sound(rows, used, req[r]) /\ rows' = rows /\ objects' = objects
  BY DEF TypeInv, TypeOK, PhaseInv, UsedInv, SettleAccount, At
<1>1. A \in Accounts /\ used \in [Accounts -> Nat]
  BY <1>0, AccountAssumption DEF Phase, TypeInv, TypeOK
<1>2. /\ \A f \in D : rows[f].state = "purged" /\ AccountOf[f] = A
      /\ req[r].acct \in {NoAccount, used[A]}
  BY <1>0 DEF Sound
<1>3. \A p \in Requests : p = r /\ req'[p] = Idle
  BY DEF SettleAccount, Finish, Becomes, TypeInv, TypeOK, Serial
<1>4. Idle.pc = "idle"
  BY DEF Idle
<1>5. \A f \in Files : /\ \A p \in Requests : ~Freed(req'[p], f) /\ ~Taken(req'[p], f)
                       /\ (\E p \in Requests : Freed(req[p], f)) <=> f \in D
                       /\ (\E p \in Requests : Taken(req[p], f)) <=>
                            f \in D /\ req[r].acct # NoAccount
  BY <1>0, <1>3, <1>4 DEF Freed, Taken
<1>6. D \subseteq Files /\ Cardinality(D) \in Nat
  BY FilesCount
<1>7. ASSUME NEW a \in Accounts
      PROVE  /\ KeptOrOwed(a)' \subseteq Files /\ StoredOrOwed(a)' \subseteq Files
             /\ KeptOrOwed(a) \subseteq Files /\ StoredOrOwed(a) \subseteq Files
             /\ KeptOrOwed(a)' \cap D = {}
             /\ KeptOrOwed(a) = IF a = A THEN KeptOrOwed(a)' \cup D ELSE KeptOrOwed(a)'
             /\ a # A \/ req[r].acct = NoAccount => StoredOrOwed(a) = StoredOrOwed(a)'
             /\ StoredOrOwed(a) \subseteq StoredOrOwed(a)' \cup D
  <2>1. KeptOrOwed(a)' = {f \in Files : AccountOf[f] = a /\ Kept(f)}
    BY <1>0, <1>5 DEF KeptOrOwed, Kept
  <2>2. KeptOrOwed(a) = {f \in Files : AccountOf[f] = a /\ (Kept(f) \/ f \in D)}
    BY <1>5 DEF KeptOrOwed
  <2>3. StoredOrOwed(a)' = {f \in Files : AccountOf[f] = a /\ f \in objects}
    BY <1>0, <1>5 DEF StoredOrOwed
  <2>4. StoredOrOwed(a) =
          {f \in Files : /\ AccountOf[f] = a
                         /\ f \in objects \/ (f \in D /\ req[r].acct # NoAccount)}
    BY <1>5 DEF StoredOrOwed
  <2>5. \A f \in D : ~Kept(f) /\ AccountOf[f] = A
    BY <1>2 DEF Kept
  <2> HIDE DEF D, A
  <2>6. KeptOrOwed(a)' \cap D = {}
    BY <2>1, <2>5
  <2>7. KeptOrOwed(a) = IF a = A THEN KeptOrOwed(a)' \cup D ELSE KeptOrOwed(a)'
    BY <1>6, <2>1, <2>2, <2>5
  <2>8. a # A \/ req[r].acct = NoAccount => StoredOrOwed(a) = StoredOrOwed(a)'
    BY <2>3, <2>4, <2>5
  <2>9. StoredOrOwed(a) \subseteq StoredOrOwed(a)' \cup D
    BY <2>3, <2>4
  <2> QED
    BY <2>1, <2>2, <2>3, <2>4, <2>6, <2>7, <2>8, <2>9
<1>8. ASSUME NEW a \in Accounts
      PROVE  Cardinality(KeptOrOwed(a)') <= used'[a] /\ used'[a] <= Cardinality(StoredOrOwed(a)')
  <2> DEFINE k == Cardinality(KeptOrOwed(a)')  s == Cardinality(StoredOrOwed(a)')
             d == Cardinality(D)
  <2>1. k \in Nat /\ s \in Nat /\ d \in Nat /\ used[a] \in Nat
    BY <1>1, <1>6, <1>7, FilesCount
  <2>2. Cardinality(KeptOrOwed(a)) = IF a = A THEN k + d ELSE k
    BY <1>6, <1>7, DisjointCount
  <2>3. /\ a # A \/ req[r].acct = NoAccount => Cardinality(StoredOrOwed(a)) = s
        /\ Cardinality(StoredOrOwed(a)) <= s + d /\ Cardinality(StoredOrOwed(a)) \in Nat
    <3>1. Cardinality(StoredOrOwed(a)' \cup D) <= s + d
      BY <1>6, <1>7, DisjointCount
    <3>2. /\ Cardinality(StoredOrOwed(a)) <= Cardinality(StoredOrOwed(a)' \cup D)
          /\ Cardinality(StoredOrOwed(a)) \in Nat
          /\ Cardinality(StoredOrOwed(a)' \cup D) \in Nat
      BY <1>6, <1>7, FilesCount
    <3> QED
      BY <1>7, <2>1, <3>1, <3>2
  <2>4. Cardinality(KeptOrOwed(a)) <= used[a] /\ used[a] <= Cardinality(StoredOrOwed(a))
    BY DEF UsedInv
  <2>5. used'[a] = IF a = A /\ req[r].acct # NoAccount /\ d > 0 THEN FlooredAt0(used[a] - d)
                   ELSE used[a]
    BY <1>1, <1>2 DEF SettleAccount
  <2> HIDE DEF k, s, d, A, D
  <2>6. k <= used'[a] /\ used'[a] <= s
    <3>1. CASE a = A /\ req[r].acct # NoAccount /\ d > 0
      BY <2>1, <2>2, <2>3, <2>4, <2>5, <3>1 DEF FlooredAt0
    <3>2. CASE ~(a = A /\ req[r].acct # NoAccount /\ d > 0)
      BY <2>1, <2>2, <2>3, <2>4, <2>5, <3>2
    <3> QED
      BY <3>1, <3>2
  <2> QED
    BY <2>6 DEF k, s
<1>9. \A p \in Requests : Sound(rows', used', req'[p])
  BY <1>3, IdleSound
<1> QED
  BY <1>8, <1>9 DEF UsedInv

\* Where requests come one at a time, and the server stays up, used_storage lies
\* between requests between the files that have a row and those that have an
\* object, whatever part of a permanent delete fails: what is subtracted is
\* what lost its row.
THEOREM UsedInBetween ==
  ASSUME Serial, ~MayCrash
  PROVE  Spec => []UsedBetweenRowsAndBucket
<1>1. Init => UsedInv
  <2> SUFFICES ASSUME Init PROVE UsedInv
    OBVIOUS
  <2>1. \A r \in Requests : req[r] = Idle
    BY DEF Init
  <2>2. \A f \in Files : Kept(f) /\ f \in objects
    BY DEF Init, Kept, NullRow, Items
  <2>3. \A q \in {Idle}, f \in Files : ~Freed(q, f) /\ ~Taken(q, f)
    BY DEF Freed, Taken, Idle
  <2>4. ASSUME NEW a \in Accounts
        PROVE  /\ Cardinality(KeptOrOwed(a)) <= used[a]
               /\ used[a] <= Cardinality(StoredOrOwed(a))
    <3>1. /\ KeptOrOwed(a) = {f \in Files : AccountOf[f] = a}
          /\ StoredOrOwed(a) = {f \in Files : AccountOf[f] = a}
      BY <2>2 DEF KeptOrOwed, StoredOrOwed
    <3>2. used[a] = Cardinality({f \in Files : AccountOf[f] = a})
      BY DEF Init
    <3>3. Cardinality({f \in Files : AccountOf[f] = a}) \in Nat
      BY CountIsNat DEF Items
    <3> QED
      BY <3>1, <3>2, <3>3
  <2> QED
    BY <2>1, <2>4, IdleSound DEF UsedInv
<1>2. ASSUME TypeInv, TypeInv', UsedInv, [Next]_vars PROVE UsedInv'
  <2>1. ASSUME NEW r \in Requests, Start(r) PROVE UsedInv'
    BY <1>2, <2>1, StartUsed DEF TypeInv
  <2>2. ASSUME NEW r \in Requests, Advance(r) PROVE UsedInv'
    BY <1>2, <2>2, WriteUsed, PurgeUsed, SettleUsed DEF Advance, TypeInv
  <2>3. CASE UNCHANGED vars
    BY <1>2, <2>3 DEF vars, UsedInv, KeptOrOwed, StoredOrOwed, Kept
  <2> QED
    BY <1>2, <2>1, <2>2, <2>3 DEF Next, Crash
<1>3. ASSUME TypeInv, UsedInv PROVE UsedBetweenRowsAndBucket
  <2> SUFFICES ASSUME \A r \in Requests : At(r, "idle"), NEW a \in Accounts
               PROVE  /\ Cardinality({f \in Files : AccountOf[f] = a /\ Kept(f)}) <= used[a]
                      /\ used[a] <= Cardinality({f \in objects : AccountOf[f] = a})
    BY DEF UsedBetweenRowsAndBucket, Kept
  <2>1. \A r \in Requests, f \in Files : ~Freed(req[r], f) /\ ~Taken(req[r], f)
    BY DEF At, Freed, Taken
  <2>2. /\ KeptOrOwed(a) = {f \in Files : AccountOf[f] = a /\ Kept(f)}
        /\ StoredOrOwed(a) = {f \in objects : AccountOf[f] = a}
    BY <1>3, <2>1 DEF KeptOrOwed, StoredOrOwed, TypeInv, TypeOK
  <2> QED
    BY <1>3, <2>2 DEF UsedInv
<1> QED
  BY <1>1, <1>2, <1>3, TypeInvariance, PTL DEF Spec

-----------------------------------------------------------------------------
(* Every request ends.  The upward walk meets a node it has not met before   *)
(* or stops, the search below a folder takes one folder off its queue and     *)
(* puts on it only what it had not seen: both sets of nodes are finite, so a  *)
(* number of steps left can be given that every step of a request lowers.    *)

Unmet(q) == Cardinality(Items \ q.seen)

StepsLeft(q) ==
  LET n == Cardinality(Items) IN
  CASE q.pc = "idle" -> 0
    [] q.pc \in {"insert", "save", "trash", "settle"} -> 1
    [] q.pc \in {"checkParent", "purgeRows"} -> 2
    [] q.pc = "deleteObjects" -> 3
    [] q.pc = "walk" -> 2 + Unmet(q)
    [] q.pc = "checkDest" -> 3 + n
    [] q.pc = "collect" -> 4 + Cardinality(q.todo) + 2 * Unmet(q)
    [] q.pc = "collectRoot" -> 6 + 2 * n
    [] q.pc = "getDriver" -> 7 + 2 * n
    [] q.pc = "readItem" -> 8 + 2 * n

\* Every statement of a request counts, and no other request undoes it.
WorkRunsOut ==
  [][\A r \in Requests :
       /\ Advance(r) => StepsLeft(req'[r]) < StepsLeft(req[r])
       /\ ~At(r, "idle") => req'[r] = req[r] \/ StepsLeft(req'[r]) < StepsLeft(req[r])]_vars

WorkBounded ==
  \A r \in Requests : /\ StepsLeft(req[r]) \in 0 .. 3 * Cardinality(Items) + 8
                      /\ StepsLeft(req[r]) = 0 <=> At(r, "idle")

LEMMA UnmetBounds ==
  ASSUME NEW q \in Request
  PROVE  /\ Unmet(q) \in Nat /\ Unmet(q) <= Cardinality(Items)
         /\ Cardinality(q.todo) \in Nat /\ Cardinality(q.todo) <= Cardinality(Items)
         /\ Cardinality(Items) \in Nat
<1>1. q.todo \in SUBSET Items /\ Items \ q.seen \in SUBSET Items
  BY DEF Request
<1> QED
  BY <1>1, CountIsNat, FS_Subset, KindAssumption DEF Unmet

\* The value of StepsLeft at each label.
LEMMA StepsLeftAt ==
  ASSUME NEW q \in Request
  PROVE  /\ q.pc = "idle" => StepsLeft(q) = 0
         /\ q.pc \in {"insert", "save", "trash", "settle"} => StepsLeft(q) = 1
         /\ q.pc \in {"checkParent", "purgeRows"} => StepsLeft(q) = 2
         /\ q.pc = "deleteObjects" => StepsLeft(q) = 3
         /\ q.pc = "walk" => StepsLeft(q) = 2 + Unmet(q)
         /\ q.pc = "checkDest" => StepsLeft(q) = 3 + Cardinality(Items)
         /\ q.pc = "collect" => StepsLeft(q) = 4 + Cardinality(q.todo) + 2 * Unmet(q)
         /\ q.pc = "collectRoot" => StepsLeft(q) = 6 + 2 * Cardinality(Items)
         /\ q.pc = "getDriver" => StepsLeft(q) = 7 + 2 * Cardinality(Items)
         /\ q.pc = "readItem" => StepsLeft(q) = 8 + 2 * Cardinality(Items)
BY DEF StepsLeft

LEMMA IdleLast == Idle \in Request /\ StepsLeft(Idle) = 0
<1>1. Idle.pc = "idle"
  BY DEF Idle
<1> QED
  BY <1>1, IdleType, StepsLeftAt

LEMMA StepsLeftBound ==
  ASSUME NEW q \in Request
  PROVE  /\ StepsLeft(q) \in 0 .. 3 * Cardinality(Items) + 8
         /\ StepsLeft(q) = 0 <=> q.pc = "idle"
<1>1. q.pc \in {"idle", "checkParent", "insert", "readItem", "checkDest", "walk",
                "save", "trash", "getDriver", "collectRoot", "collect",
                "deleteObjects", "purgeRows", "settle"}
  BY DEF Request
<1>2. CASE q.pc = "collect"
  BY <1>2, StepsLeftAt, UnmetBounds
<1>3. CASE q.pc \in {"idle", "insert", "save", "trash", "settle", "checkParent", "purgeRows",
                     "deleteObjects"}
  BY <1>3, StepsLeftAt, UnmetBounds
<1>4. CASE q.pc \in {"walk", "checkDest", "collectRoot", "getDriver", "readItem"}
  BY <1>4, StepsLeftAt, UnmetBounds
<1> QED
  BY <1>1, <1>2, <1>3, <1>4

\* Nodes that join a set are counted once.
LEMMA Disjoint ==
  ASSUME NEW A \in SUBSET Items, NEW B \in SUBSET Items, A \cap B = {}
  PROVE  Cardinality(A \cup B) = Cardinality(A) + Cardinality(B)
<1>1. /\ IsFiniteSet(A) /\ IsFiniteSet(B)
      /\ Cardinality(A) \in Nat /\ Cardinality(B) \in Nat
  BY CountIsNat
<1>2. Cardinality(A \cup B) = Cardinality(A) + Cardinality(B) - Cardinality(A \cap B)
  BY <1>1, FS_Union
<1>3. Cardinality(A \cap B) = 0
  BY FS_EmptySet
<1> QED
  BY <1>1, <1>2, <1>3

LEMMA WalkShrinks ==
  ASSUME TypeInv, NEW r \in Requests, WalkUp(r)
  PROVE  StepsLeft(req'[r]) < StepsLeft(req[r])
<1> DEFINE c == req[r].cur
           p == [req[r] EXCEPT !.seen = @ \cup {c}, !.cur = Root, !.pc = "save"]
           q == [req[r] EXCEPT !.seen = @ \cup {c}, !.cur = rows[c].parent]
<1>0. /\ req \in [Requests -> Request] /\ req[r] \in Request /\ req[r].pc = "walk" /\ c \in Items
      /\ req'[r] \in Request
  BY AdvanceType DEF Advance, TypeInv, TypeOK, PhaseInv, Phase, WalkUp, At
<1>1. StepsLeft(req[r]) = 2 + Unmet(req[r]) /\ Unmet(req[r]) \in Nat
  BY <1>0, StepsLeftAt, UnmetBounds
<1>2. CASE Finish(r)
  BY <1>0, <1>1, <1>2, IdleLast DEF Finish, Becomes
<1>3. CASE Becomes(r, p)
  <2>1. req'[r] = p /\ p.pc = "save"
    BY <1>0, <1>3 DEF Becomes, Request
  <2> HIDE DEF p
  <2>2. StepsLeft(req'[r]) = 1
    BY <1>0, <2>1, StepsLeftAt
  <2> QED
    BY <1>1, <2>2
<1>4. CASE ~WalkEnds(r) /\ c # req[r].item /\ Becomes(r, q)
  <2>1. req'[r] = q /\ q.pc = "walk" /\ q.seen = req[r].seen \cup {c}
    BY <1>0, <1>4 DEF Becomes, Request
  <2>2. c \notin req[r].seen
    BY <1>4 DEF WalkEnds
  <2> DEFINE A == Items \ q.seen
  <2>3. Items \ req[r].seen = A \cup {c} /\ A \cap {c} = {} /\ A \in SUBSET Items
    BY <1>0, <2>1, <2>2
  <2>4. Unmet(req[r]) = Unmet(q) + 1
    <3>1. Cardinality({c}) = 1
      BY FS_Singleton
    <3> HIDE DEF q, A
    <3>2. Cardinality(A \cup {c}) = Cardinality(A) + Cardinality({c})
      BY <1>0, <2>3, Disjoint
    <3> QED
      BY <2>3, <3>1, <3>2 DEF Unmet, A
  <2> HIDE DEF q
  <2>5. StepsLeft(req'[r]) = 2 + Unmet(q) /\ Unmet(q) \in Nat
    BY <1>0, <2>1, StepsLeftAt, UnmetBounds
  <2> QED
    BY <1>1, <2>4, <2>5
<1> QED
  BY <1>2, <1>3, <1>4 DEF WalkUp

LEMMA SearchShrinks ==
  ASSUME TypeInv, NEW r \in Requests, CollectChildren(r)
  PROVE  StepsLeft(req'[r]) < StepsLeft(req[r])
<1> DEFINE p == [req[r] EXCEPT !.todo = {}, !.pc = "deleteObjects"]
           new(f) == ChildrenOf(f) \ req[r].seen
           q(f) == [req[r] EXCEPT !.seen = @ \cup new(f),
                                  !.todo = (@ \ {f}) \cup (new(f) \cap Folders)]
<1>0. /\ req \in [Requests -> Request] /\ req[r] \in Request /\ req[r].pc = "collect"
      /\ req'[r] \in Request /\ req[r].todo \in SUBSET Items
  BY AdvanceType DEF Advance, TypeInv, TypeOK, CollectChildren, At, Request
<1>1. /\ StepsLeft(req[r]) = 4 + Cardinality(req[r].todo) + 2 * Unmet(req[r])
      /\ Unmet(req[r]) \in Nat /\ Cardinality(req[r].todo) \in Nat
  BY <1>0, StepsLeftAt, UnmetBounds
<1>2. CASE Becomes(r, p)
  <2>1. req'[r] = p /\ p.pc = "deleteObjects"
    BY <1>0, <1>2 DEF Becomes, Request
  <2> HIDE DEF p
  <2>2. StepsLeft(req'[r]) = 3
    BY <1>0, <2>1, StepsLeftAt
  <2> QED
    BY <1>1, <2>2
<1>3. ASSUME NEW f \in req[r].todo, Becomes(r, q(f))
      PROVE  StepsLeft(req'[r]) < StepsLeft(req[r])
  <2> DEFINE N == new(f)
             A == Items \ (req[r].seen \cup N)
             D == req[r].todo \ {f}
             E == N \cap Folders
  <2>1. /\ req'[r] = q(f) /\ q(f).pc = "collect" /\ q(f).seen = req[r].seen \cup N
        /\ q(f).todo = D \cup E
    BY <1>0, <1>3 DEF Becomes, Request
  <2>2. /\ N \in SUBSET Items /\ A \in SUBSET Items /\ D \in SUBSET Items /\ E \in SUBSET Items
        /\ E \subseteq N /\ Items \ req[r].seen = A \cup N /\ A \cap N = {}
        /\ req[r].todo = D \cup {f} /\ D \cap {f} = {} /\ f \in Items
    BY <1>0 DEF ChildrenOf
  <2> HIDE DEF q, N, A, D, E
  <2>3. Unmet(req[r]) = Unmet(q(f)) + Cardinality(N)
    BY <2>1, <2>2, Disjoint DEF Unmet, A
  <2>4. Cardinality(req[r].todo) = Cardinality(D) + 1
    <3>1. Cardinality({f}) = 1
      BY FS_Singleton
    <3> QED
      BY <2>2, <3>1, Disjoint
  <2>5. Cardinality(q(f).todo) <= Cardinality(D) + Cardinality(N)
    <3>1. /\ IsFiniteSet(D) /\ IsFiniteSet(E) /\ IsFiniteSet(N) /\ IsFiniteSet(D \cap E)
          /\ Cardinality(D) \in Nat /\ Cardinality(E) \in Nat /\ Cardinality(N) \in Nat
          /\ Cardinality(D \cap E) \in Nat
      BY <2>2, CountIsNat
    <3>2. Cardinality(D \cup E) = Cardinality(D) + Cardinality(E) - Cardinality(D \cap E)
      BY <3>1, FS_Union
    <3>3. Cardinality(E) <= Cardinality(N)
      BY <2>2, <3>1, FS_Subset
    <3> QED
      BY <2>1, <3>1, <3>2, <3>3
  <2>6. /\ StepsLeft(req'[r]) = 4 + Cardinality(q(f).todo) + 2 * Unmet(q(f))
        /\ Unmet(q(f)) \in Nat /\ Cardinality(q(f).todo) \in Nat
    BY <1>0, <2>1, StepsLeftAt, UnmetBounds
  <2>7. Cardinality(N) \in Nat /\ Cardinality(D) \in Nat
    BY <2>2, CountIsNat
  <2> QED
    BY <1>1, <2>3, <2>4, <2>5, <2>6, <2>7
<1>4. Becomes(r, p) \/ \E f \in req[r].todo : Becomes(r, q(f))
  BY DEF CollectChildren
<1> HIDE DEF p, q, new
<1> QED
  BY <1>2, <1>3, <1>4

\* The other steps go to a label nearer to the end.
LEMMA LabelShrinks ==
  ASSUME TypeInv, NEW r \in Requests, Advance(r), ~WalkUp(r), ~CollectChildren(r)
  PROVE  StepsLeft(req'[r]) < StepsLeft(req[r])
<1>0. /\ req \in [Requests -> Request] /\ req[r] \in Request /\ req'[r] \in Request
  BY AdvanceType DEF TypeInv, TypeOK
<1>f. ASSUME Finish(r), req[r].pc # "idle" PROVE StepsLeft(req'[r]) < StepsLeft(req[r])
  <2>1. req'[r] = Idle
    BY <1>0, <1>f DEF Finish, Becomes
  <2> QED
    BY <1>0, <1>f, <2>1, IdleLast, StepsLeftBound, UnmetBounds
<1>u. /\ Cardinality(Items) \in Nat /\ Unmet(req'[r]) \in Nat
      /\ Unmet(req'[r]) <= Cardinality(Items)
  BY <1>0, UnmetBounds
<1>1. CASE InsertFolder(r) \/ SaveItem(r) \/ TrashItem(r) \/ SettleAccount(r)
  BY <1>1, <1>f DEF InsertFolder, SaveItem, TrashItem, SettleAccount, At
<1>2. CASE CheckParent(r)
  <2>1. req[r].pc = "checkParent" /\ (Finish(r) \/ req'[r].pc = "insert")
    BY <1>0, <1>2 DEF CheckParent, At, Becomes, Request
  <2> QED
    BY <1>0, <1>f, <2>1, StepsLeftAt
<1>3. CASE ReadItem(r)
  <2> DEFINE l == AfterRead(r)
             q == [req[r] EXCEPT !.snap = RowRead(r), !.pc = l]
  <2>1. /\ req[r].pc = "readItem" /\ (Finish(r) \/ Becomes(r, q))
        /\ l \in {"save", "checkDest", "trash", "getDriver"}
    BY <1>3 DEF ReadItem, At, AfterRead
  <2> HIDE DEF l
  <2>2. q.pc = l
    BY <1>0 DEF Request
  <2> HIDE DEF q
  <2>3. Finish(r) \/ req'[r] = q
    BY <1>0, <2>1 DEF Becomes
  <2>4. CASE req'[r] = q
    <3>1. req'[r].pc \in {"save", "checkDest", "trash", "getDriver"}
      BY <2>1, <2>2, <2>4
    <3>2. StepsLeft(req[r]) = 8 + 2 * Cardinality(Items)
      BY <1>0, <2>1, StepsLeftAt
    <3>3. StepsLeft(req'[r]) \in {1, 3 + Cardinality(Items), 7 + 2 * Cardinality(Items)}
      BY <1>0, <3>1, StepsLeftAt
    <3> QED
      BY <1>u, <3>2, <3>3
  <2> QED
    BY <1>f, <2>1, <2>3, <2>4
<1>4. CASE CheckDestination(r)
  <2> DEFINE p == [req[r] EXCEPT !.snap.parent = Root, !.pc = "save"]
             q == [req[r] EXCEPT !.snap.parent = req[r].dest, !.cur = req[r].dest, !.pc = "walk"]
  <2>1. req[r].pc = "checkDest" /\ p.pc = "save" /\ q.pc = "walk"
    BY <1>0, <1>4 DEF CheckDestination, At, Request
  <2>2. Finish(r) \/ Becomes(r, p) \/ Becomes(r, q)
    BY <1>4 DEF CheckDestination
  <2> HIDE DEF p, q
  <2>3. Finish(r) \/ req'[r] = p \/ req'[r] = q
    BY <1>0, <2>2 DEF Becomes
  <2> QED
    BY <1>0, <1>f, <1>u, <2>1, <2>3, StepsLeftAt
<1>5. CASE GetDriver(r)
  <2> DEFINE l == IF req[r].item \in Files THEN "deleteObjects" ELSE "collectRoot"
             q(x) == [req[r] EXCEPT !.acct = x, !.seen = {req[r].item}, !.pc = l]
  <2>1. PICK x : Becomes(r, q(x))
    BY <1>5 DEF GetDriver
  <2>2. q(x).pc = l /\ l \in {"deleteObjects", "collectRoot"} /\ req[r].pc = "getDriver"
    BY <1>0, <1>5 DEF GetDriver, At, Request
  <2> HIDE DEF q, l
  <2>3. req'[r] = q(x)
    BY <1>0, <2>1 DEF Becomes
  <2> QED
    BY <1>0, <1>u, <2>2, <2>3, StepsLeftAt
<1>6. CASE CollectRoot(r)
  <2> DEFINE q == [req[r] EXCEPT !.todo = {req[r].item}, !.pc = "collect"]
  <2>1. /\ req[r].pc = "collectRoot" /\ q.pc = "collect" /\ q.todo = {req[r].item}
        /\ Finish(r) \/ Becomes(r, q)
    BY <1>0, <1>6 DEF CollectRoot, At, Request
  <2> HIDE DEF q
  <2>2. Finish(r) \/ req'[r] = q
    BY <1>0, <2>1 DEF Becomes
  <2>3. Cardinality(q.todo) = 1
    BY <2>1, FS_Singleton
  <2>4. CASE req'[r] = q
    <3>1. StepsLeft(req'[r]) = 4 + Cardinality(q.todo) + 2 * Unmet(req'[r])
      BY <1>0, <2>1, <2>4, StepsLeftAt
    <3>2. StepsLeft(req[r]) = 6 + 2 * Cardinality(Items)
      BY <1>0, <2>1, StepsLeftAt
    <3> QED
      BY <1>u, <2>3, <3>1, <3>2
  <2> QED
    BY <1>f, <2>1, <2>2, <2>4
<1>7. CASE DeleteObjects(r) \/ PurgeRows(r)
  <2>1. \/ req[r].pc = "deleteObjects" /\ req'[r].pc = "purgeRows"
        \/ req[r].pc = "purgeRows" /\ req'[r].pc = "settle"
    BY <1>0, <1>7 DEF DeleteObjects, PurgeRows, At, Becomes, Request
  <2> QED
    BY <1>0, <2>1, StepsLeftAt
<1> QED
  BY <1>1, <1>2, <1>3, <1>4, <1>5, <1>6, <1>7 DEF Advance

LEMMA StepShrinks ==
  ASSUME TypeInv, NEW r \in Requests, Advance(r)
  PROVE  StepsLeft(req'[r]) < StepsLeft(req[r])
BY WalkShrinks, SearchShrinks, LabelShrinks

\* What a step of request p is to another request: nothing.
LEMMA OthersWait ==
  ASSUME TypeInv, NEW p \in Requests, Start(p) \/ Advance(p), NEW r \in Requests, r # p
  PROVE  req'[r] = req[r]
<1>1. ASSUME NEW q, Becomes(p, q) PROVE req'[r] = req[r]
  BY <1>1 DEF Becomes, TypeInv, TypeOK
<1>2. ASSUME Finish(p) PROVE req'[r] = req[r]
  BY <1>1, <1>2 DEF Finish
<1>3. CASE Start(p)
  BY <1>1, <1>3 DEF Start, StartCreate, StartUpdate, StartOnItem
<1>4. CASE CheckParent(p) \/ InsertFolder(p) \/ ReadItem(p) \/ CheckDestination(p)
  BY <1>1, <1>2, <1>4 DEF CheckParent, InsertFolder, ReadItem, CheckDestination
<1>5. CASE WalkUp(p) \/ SaveItem(p) \/ TrashItem(p)
  BY <1>1, <1>2, <1>5 DEF WalkUp, SaveItem, TrashItem
<1>6. CASE GetDriver(p) \/ CollectRoot(p) \/ CollectChildren(p)
  BY <1>1, <1>2, <1>6 DEF GetDriver, CollectRoot, CollectChildren
<1>7. CASE DeleteObjects(p) \/ PurgeRows(p) \/ SettleAccount(p)
  BY <1>1, <1>2, <1>7 DEF DeleteObjects, PurgeRows, SettleAccount
<1> QED
  BY <1>3, <1>4, <1>5, <1>6, <1>7 DEF Advance

\* A request is over after a number of statements that the size of the drive
\* bounds, whatever other requests do to the tree meanwhile, a cycle that they
\* tie included: every step it takes lowers StepsLeft, and no other step but
\* the end of the process touches it.
THEOREM RequestsRunOut == Spec => []WorkBounded /\ WorkRunsOut
<1>1. TypeInv => WorkBounded
  BY StepsLeftBound DEF WorkBounded, TypeInv, TypeOK, At
<1>2. TypeInv /\ [Next]_vars =>
        [\A r \in Requests :
           /\ Advance(r) => StepsLeft(req'[r]) < StepsLeft(req[r])
           /\ ~At(r, "idle") =>
                req'[r] = req[r] \/ StepsLeft(req'[r]) < StepsLeft(req[r])]_vars
  <2> SUFFICES ASSUME TypeInv, Next, NEW r \in Requests, ~At(r, "idle"), req'[r] # req[r]
               PROVE  StepsLeft(req'[r]) < StepsLeft(req[r])
    BY StepShrinks
  <2>0. req[r] \in Request /\ req[r].pc # "idle"
    BY DEF TypeInv, TypeOK, At
  <2>1. CASE Crash
    <3>1. req'[r] = Idle
      BY <2>1 DEF Crash
    <3> QED
      BY <2>0, <3>1, IdleLast, StepsLeftBound, UnmetBounds
  <2>2. ASSUME NEW p \in Requests, Start(p) \/ Advance(p)
        PROVE  StepsLeft(req'[r]) < StepsLeft(req[r])
    <3>1. p = r
      BY <2>2, OthersWait
    <3>2. ~Start(r)
      BY <2>0 DEF Start, StartCreate, StartUpdate, StartOnItem, At
    <3> QED
      BY <2>2, <3>1, <3>2, StepShrinks
  <2> QED
    BY <2>1, <2>2 DEF Next
<1> QED
  BY <1>1, <1>2, TypeInvariance, PTL DEF Spec, WorkRunsOut

==============================================================================
