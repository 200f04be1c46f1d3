-------------------------- MODULE BucketScan_proofs --------------------------
(***************************************************************************)
(* Proofs about BucketScan: the types; and, with one scan at a time, that no *)
(* object gets two rows (RowInv), and what a scan that nothing disturbs has   *)
(* reached (FreshInv), from which follow that it gives every object a row,    *)
(* that it moves no row, and that the next one finds nothing to do.  Last, a  *)
(* bound on the steps of a scan, whatever happens beside it.                  *)
(***************************************************************************)
EXTENDS BucketScan, FiniteSetTheorems, TLAPS

-----------------------------------------------------------------------------
(* Least and greatest elements.  The strict inclusion of finite sets is well *)
(* founded; the least of the sets 0..x gives the least x, the least of the    *)
(* sets of those above x the greatest x.                                     *)

LEMMA LeastExists ==
  ASSUME NEW S \in SUBSET Nat, S # {}
  PROVE  \E x \in S : \A y \in S : x <= y
<1> DEFINE T == {0..x : x \in S}
<1>1. IsWellFoundedOn(StrictSubsetOrdering(Nat), FiniteSubsetsOf(Nat))
  BY FS_StrictSubsetOrderingWellFounded
<1>2. T \subseteq FiniteSubsetsOf(Nat) /\ T # {}
  <2>1. ASSUME NEW x \in S PROVE IsFiniteSet(0..x) /\ 0..x \in SUBSET Nat
    <3>1. x \in Int /\ 0 \in Int
      OBVIOUS
    <3> QED
      BY <3>1, FS_Interval
  <2> QED
    BY <2>1 DEF FiniteSubsetsOf
<1>3. PICK t \in T : \A u \in T : ~(<<u, t>> \in StrictSubsetOrdering(Nat))
  BY <1>1, <1>2, WFMin
<1>4. PICK x \in S : t = 0..x
  OBVIOUS
<1>5. ASSUME NEW y \in S PROVE x <= y
  <2>1. SUFFICES ASSUME ~(x <= y) PROVE FALSE
    OBVIOUS
  <2>2. x \in Nat /\ y \in Nat
    OBVIOUS
  <2>3. 0..y \in SUBSET Nat /\ 0..x \in SUBSET Nat /\ 0..y \subseteq 0..x /\ 0..y # 0..x
    BY <2>1, <2>2
  <2>4. <<0..y, 0..x>> \in StrictSubsetOrdering(Nat)
    BY <2>3 DEF StrictSubsetOrdering
  <2> QED
    BY <1>3, <1>4, <2>4
<1> QED
  BY <1>4, <1>5

LEMMA GreatestExists ==
  ASSUME NEW S \in SUBSET Nat, IsFiniteSet(S), S # {}
  PROVE  \E x \in S : \A y \in S : x >= y
<1> DEFINE Above(x) == {y \in S : y >= x}
<1> DEFINE T == {Above(x) : x \in S}
<1>1. IsWellFoundedOn(StrictSubsetOrdering(Nat), FiniteSubsetsOf(Nat))
  BY FS_StrictSubsetOrderingWellFounded
<1>2. T \subseteq FiniteSubsetsOf(Nat) /\ T # {}
  <2>1. ASSUME NEW x \in S PROVE IsFiniteSet(Above(x)) /\ Above(x) \in SUBSET Nat
    BY FS_Subset
  <2> QED
    BY <2>1 DEF FiniteSubsetsOf
<1>3. PICK t \in T : \A u \in T : ~(<<u, t>> \in StrictSubsetOrdering(Nat))
  BY <1>1, <1>2, WFMin
<1>4. PICK x \in S : t = Above(x)
  OBVIOUS
<1>5. ASSUME NEW y \in S PROVE x >= y
  <2>1. SUFFICES ASSUME ~(x >= y) PROVE FALSE
    OBVIOUS
  <2>2. x \in Nat /\ y \in Nat /\ S \subseteq Nat
    OBVIOUS
  <2>3. x \in Above(x) /\ x \notin Above(y) /\ Above(y) \subseteq S /\ Above(x) \subseteq S
    BY <2>1, <2>2
  <2>4. ASSUME NEW z \in Above(y) PROVE z \in Above(x)
    BY <2>1, <2>2
  <2>5. Above(y) \in SUBSET Nat /\ Above(x) \in SUBSET Nat /\ Above(y) \subseteq Above(x) /\ Above(y) # Above(x)
    <3> HIDE DEF Above
    <3> QED
      BY <2>2, <2>3, <2>4
  <2>6. <<Above(y), Above(x)>> \in StrictSubsetOrdering(Nat)
    <3> HIDE DEF Above
    <3> QED
      BY <2>5 DEF StrictSubsetOrdering
  <2> QED
    BY <1>3, <1>4, <2>6
<1> QED
  BY <1>4, <1>5

LEMMA MinIsLeast ==
  ASSUME NEW S \in SUBSET Nat, S # {}
  PROVE  Min(S) \in S /\ \A y \in S : Min(S) <= y
BY LeastExists, Zenon DEF Min

LEMMA MaxIsGreatest ==
  ASSUME NEW S \in SUBSET Nat, IsFiniteSet(S), S # {}
  PROVE  Max(S) \in S /\ \A y \in S : Max(S) >= y
BY GreatestExists, Zenon DEF Max

-----------------------------------------------------------------------------
(* Helpers of the model.                                                   *)

LEMMA RestrictsTo ==
  ASSUME NEW f, NEW S
  PROVE  DOMAIN Restrict(f, S) = S /\ \A x \in S : Restrict(f, S)[x] = f[x]
BY DEF Restrict

\* The next key of a scan, and its size.
KeyOf(q) == Min(DOMAIN q.page)

LEMMA KeyIsInPage ==
  ASSUME NEW q, q.page \in Pages, DOMAIN q.page # {}
  PROVE  KeyOf(q) \in DOMAIN q.page /\ KeyOf(q) \in Keys /\ q.page[KeyOf(q)] \in Sizes
<1>1. DOMAIN q.page \subseteq Keys /\ \A k \in DOMAIN q.page : q.page[k] \in Sizes
  BY DEF Pages
<1>2. DOMAIN q.page \in SUBSET Nat
  BY <1>1, KeyAssumption
<1> QED
  BY <1>1, <1>2, MinIsLeast DEF KeyOf

LEMMA PageWithout ==
  ASSUME NEW p \in Pages, NEW S
  PROVE  Restrict(p, DOMAIN p \ S) \in Pages
<1>1. PICK D \in SUBSET Keys : p \in [D -> Sizes]
  BY DEF Pages
<1>2. D \ S \in SUBSET Keys /\ [x \in D \ S |-> p[x]] \in [D \ S -> Sizes]
  BY <1>1
<1> QED
  BY <1>1, <1>2 DEF Restrict, Pages

LEMMA PathIsNames ==
  ASSUME NEW k \in Keys
  PROVE  /\ \A d \in Nat : d < Len(Folders(k)) => Folders(k)[d + 1] \in Names
         /\ Len(Folders(k)) \in Nat
         /\ k \notin DirMarkers => FileName(k) \in Names
<1>1. Path[k] \in Seq(STRING) /\ (k \in DirMarkers \/ Path[k] # <<>>)
  BY KeyAssumption
<1>2. \A i \in 1..Len(Path[k]) : Path[k][i] \in Names
  <2>1. ASSUME NEW i \in 1..Len(Path[k]) PROVE Path[k][i] \in Names
    <3>1. i \in DOMAIN Path[k]
      BY <1>1
    <3>2. Path[k][i] \in {Path[k][j] : j \in DOMAIN Path[k]}
      BY <3>1
    <3> QED
      BY <3>2 DEF Names
  <2> QED
    BY <2>1
<1>3. CASE k \in DirMarkers
  BY <1>1, <1>2, <1>3 DEF Folders
<1>4. CASE k \notin DirMarkers
  <2>1. Len(Path[k]) \in Nat /\ Len(Path[k]) > 0
    BY <1>1, <1>4
  <2>2. Folders(k) = SubSeq(Path[k], 1, Len(Path[k]) - 1)
    BY <1>4 DEF Folders
  <2>3. Len(Folders(k)) = Len(Path[k]) - 1 /\ \A i \in 1..(Len(Path[k]) - 1) : Folders(k)[i] = Path[k][i]
    BY <1>1, <2>1, <2>2
  <2> QED
    BY <1>2, <2>1, <2>3 DEF FileName
<1> QED
  BY <1>3, <1>4

LEMMA FirstIs ==
  ASSUME NEW S \in SUBSET Ids
  PROVE  \/ S = {} /\ FirstOf(S) = NoRow
         \/ S # {} /\ FirstOf(S) \in S /\ FirstOf(S) # NoRow /\ FirstOf(S) \in Ids
<1>1. S \in SUBSET Nat /\ NoRow \notin S
  BY RowAssumption DEF NoRow
<1> QED
  BY <1>1, MinIsLeast DEF FirstOf

LEMMA FirstIsLeast ==
  ASSUME NEW S \in SUBSET Ids, NEW i \in S
  PROVE  FirstOf(S) <= i
<1>1. S \in SUBSET Nat
  BY RowAssumption
<1> QED
  BY <1>1, MinIsLeast DEF FirstOf

LEMMA BlankIsRow == BlankRow \in Row
BY NameAssumption DEF BlankRow, Row, Top, NoKey

LEMMA IdleIsScan == Idle \in Scan
<1>1. <<>> \in Pages
  <2>1. {} \in SUBSET Keys /\ <<>> \in [{} -> Sizes]
    OBVIOUS
  <2> QED
    BY <2>1 DEF Pages
<1> QED
  BY <1>1, BlankIsRow DEF Idle, Scan, Top, NoKey, NoRow

-----------------------------------------------------------------------------
(* Types.  What each program counter says of the other fields of a scan      *)
(* makes them inductive.                                                    *)

PhaseOf(q) ==
  /\ q.pc \in {"idle", "list"} => DOMAIN q.page = {}
  /\ q.pc \notin {"idle", "list", "object"} => DOMAIN q.page # {}
  /\ q.pc = "createFolder" => q.depth < Len(Folders(KeyOf(q)))
  /\ q.pc \in {"match", "takeOver", "createFile"} => KeyOf(q) \notin DirMarkers
  /\ q.pc \in {"refresh", "takeOver"} => q.id \in Ids

PhaseInv == \A s \in Scanners : PhaseOf(scan[s])

\* A request that holds a row holds its id, and a key to ask S3 about.
HeldInv == \A r \in Requests : /\ held[r].pc # "idle" => held[r].id \in Ids
                               /\ held[r].pc = "head" => held[r].snap.key \in Keys

TypeInv == TypeOK /\ PhaseInv /\ HeldInv

LEMMA TypeInvInit == Init => TypeInv
<1> SUFFICES ASSUME Init PROVE TypeInv
  OBVIOUS
<1>1. Min(Sizes) \in Sizes
  BY RowAssumption, MinIsLeast
<1>2. PhaseOf(Idle)
  BY DEF PhaseOf, Idle
<1>3. NothingHeld \in Held /\ NothingHeld.pc = "idle"
  BY BlankIsRow DEF NothingHeld, Held, NoRow
<1> QED
  BY <1>1, <1>2, <1>3, BlankIsRow, IdleIsScan DEF Init, TypeInv, TypeOK, PhaseInv, HeldInv

LEMMA Becoming ==
  ASSUME TypeInv, NEW s \in Scanners, NEW q \in Scan, PhaseOf(q), Becomes(s, q)
  PROVE  scan' \in [Scanners -> Scan] /\ PhaseInv'
BY DEF TypeInv, TypeOK, PhaseInv, Becomes

\* A scan that goes down into a folder.
LEMMA DeeperTyped ==
  ASSUME NEW q \in Scan, NEW i \in Ids
  PROVE  /\ [q EXCEPT !.parent = i, !.depth = @ + 1] \in Scan
         /\ [q EXCEPT !.pc = "folder", !.parent = i, !.depth = @ + 1] \in Scan
<1>1. PICK d \in Nat : d = q.depth + 1
  BY DEF Scan
<1>2. [q EXCEPT !.parent = i, !.depth = d] \in Scan /\ [q EXCEPT !.pc = "folder", !.parent = i, !.depth = d] \in Scan
  BY DEF Scan
<1> QED
  BY <1>1, <1>2, Zenon

LEMMA NextTyped ==
  ASSUME TypeInv, NEW s \in Scanners, NextObject(s)
  PROVE  scan' \in [Scanners -> Scan] /\ PhaseInv'
<1> DEFINE q == [scan[s] EXCEPT !.pc = "object", !.id = NoRow, !.snap = BlankRow,
                                !.parent = Top, !.depth = 0,
                                !.page = Restrict(@, DOMAIN @ \ {Key(s)})]
<1>1. scan[s] \in Scan /\ scan[s].page \in Pages
  BY DEF TypeInv, TypeOK, Scan
<1>2. Restrict(scan[s].page, DOMAIN scan[s].page \ {Key(s)}) \in Pages
  BY <1>1, PageWithout
<1>3. q \in Scan
  BY <1>1, <1>2, BlankIsRow DEF Scan, NoRow, Top
<1>4. q.pc = "object"
  BY <1>1 DEF Scan
<1>5. PhaseOf(q)
  BY <1>4 DEF PhaseOf
<1>6. Becomes(s, q)
  BY DEF NextObject
<1> HIDE DEF q
<1> QED
  BY <1>3, <1>5, <1>6, Becoming

LEMMA SaveTyped ==
  ASSUME TypeInv, NEW i \in Ids, NEW r \in Row, Save(i, r)
  PROVE  rows' \in [Ids -> Row]
BY DEF TypeInv, TypeOK, Save

LEMMA InsertTyped ==
  ASSUME TypeInv, NEW i \in Ids, NEW r \in Row, Insert(i, r)
  PROVE  rows' \in [Ids -> Row]
BY DEF TypeInv, TypeOK, Insert

LEMMA FolderIsRow ==
  ASSUME NEW n \in Names, NEW p \in Ids \cup {Top}
  PROVE  Folder(n, p) \in Row
BY BlankIsRow DEF Folder, Row

LEMMA FileIsRow ==
  ASSUME NEW n \in Names, NEW p \in Ids \cup {Top}, NEW k \in Keys, NEW z \in Sizes
  PROVE  File(n, p, k, z) \in Row
BY BlankIsRow DEF File, Row

LEMMA UploadNames ==
  ASSUME NEW k \in Internal PROVE UploadName[k] \in Names
BY DEF Names

\* Every statement of a scan keeps the types.
LEMMA ListTyped ==
  ASSUME TypeInv, NEW s \in Scanners, ListObjects(s)
  PROVE  TypeInv'
<1>1. scan[s] \in Scan
  BY DEF TypeInv, TypeOK
<1>2. At(s, "list")
  BY DEF ListObjects
<1>3. /\ rows' = rows /\ bucket' = bucket /\ uploads' = uploads /\ edits' = edits
      /\ requestVars' = requestVars
  BY DEF ListObjects
<1>4. CASE Becomes(s, Idle)
  <2>1. scan' \in [Scanners -> Scan] /\ PhaseInv'
    BY <1>4, IdleIsScan, Becoming DEF PhaseOf, Idle
  <2>2. fresh' \in {"no", "scanning", "yes"}
    BY DEF ListObjects, TypeInv, TypeOK
  <2> QED
    BY <1>3, <2>1, <2>2 DEF TypeInv, TypeOK, HeldInv, requestVars
<1>5. CASE ~Becomes(s, Idle)
  <2> DEFINE rest == {k \in Objects : k > scan[s].token}
             page == {k \in rest : Cardinality({j \in rest : j <= k}) <= PageSize}
             q == [scan[s] EXCEPT !.pc = "object", !.page = Restrict(bucket, page),
                                  !.token = IF page = {} THEN @ ELSE Max(page),
                                  !.more = page # rest]
  <2>1. Becomes(s, q) /\ fresh' = fresh
    BY <1>5 DEF ListObjects
  <2>2. page \subseteq Keys /\ \A k \in page : bucket[k] \in Sizes
    BY DEF Objects, TypeInv, TypeOK
  <2> HIDE DEF page, rest
  <2>3. Restrict(bucket, page) \in Pages
    BY <2>2 DEF Restrict, Pages
  <2>4. page = {} \/ Max(page) \in Keys
    <3>1. page \in SUBSET Nat /\ IsFiniteSet(page)
      BY <2>2, KeyAssumption, FS_Subset
    <3> QED
      BY <2>2, <3>1, MaxIsGreatest
  <2>5. q \in Scan
    <3>1. PICK pg \in Pages : pg = Restrict(bucket, page)
      BY <2>3
    <3>2. PICK tk \in Keys \cup {NoKey} : tk = IF page = {} THEN scan[s].token ELSE Max(page)
      BY <1>1, <2>4 DEF Scan
    <3>3. PICK mr \in BOOLEAN : mr = (page # rest)
      OBVIOUS
    <3>4. q = [scan[s] EXCEPT !.pc = "object", !.page = pg, !.token = tk, !.more = mr]
      BY <3>1, <3>2, <3>3
    <3>5. ASSUME NEW x \in Scan
          PROVE  [x EXCEPT !.pc = "object", !.page = pg, !.token = tk, !.more = mr] \in Scan
      BY DEF Scan
    <3> HIDE DEF q
    <3> QED
      BY <1>1, <3>4, <3>5
  <2>6. PhaseOf(q)
    BY <1>1 DEF PhaseOf, Scan
  <2> HIDE DEF q
  <2>7. scan' \in [Scanners -> Scan] /\ PhaseInv'
    BY <2>1, <2>5, <2>6, Becoming
  <2> QED
    BY <1>3, <2>1, <2>7 DEF TypeInv, TypeOK, HeldInv, requestVars
<1> QED
  BY <1>4, <1>5

LEMMA TakeTyped ==
  ASSUME TypeInv, NEW s \in Scanners, TakeObject(s)
  PROVE  TypeInv'
<1>1. scan[s] \in Scan /\ PhaseOf(scan[s])
  BY DEF TypeInv, TypeOK, PhaseInv
<1>2. \E q \in Scan : PhaseOf(q) /\ Becomes(s, q)
  <2>1. CASE DOMAIN scan[s].page # {}
    <3>1. Becomes(s, [scan[s] EXCEPT !.pc = "lookup"])
      BY <2>1 DEF TakeObject
    <3> QED
      BY <1>1, <2>1, <3>1 DEF Scan, PhaseOf
  <2>2. CASE DOMAIN scan[s].page = {} /\ scan[s].more
    <3>1. Becomes(s, [scan[s] EXCEPT !.pc = "list"])
      BY <2>2 DEF TakeObject
    <3> QED
      BY <1>1, <2>2, <3>1 DEF Scan, PhaseOf
  <2>3. CASE DOMAIN scan[s].page = {} /\ ~scan[s].more
    <3>1. Becomes(s, Idle)
      BY <2>3 DEF TakeObject
    <3> QED
      BY <3>1, IdleIsScan DEF Idle, PhaseOf
  <2> QED
    BY <2>1, <2>2, <2>3
<1>3. scan' \in [Scanners -> Scan] /\ PhaseInv'
  BY <1>2, Becoming
<1> QED
  BY <1>3 DEF TakeObject, TypeInv, TypeOK, HeldInv, requestVars

\* What a scan at work on an object holds.
LEMMA AtWork ==
  ASSUME TypeInv, NEW s \in Scanners, scan[s].pc \notin {"idle", "list", "object"}
  PROVE  /\ Key(s) = KeyOf(scan[s])
         /\ Key(s) \in DOMAIN scan[s].page /\ Key(s) \in Keys /\ Size(s) \in Sizes
<1>1. scan[s].page \in Pages /\ DOMAIN scan[s].page # {}
  BY DEF TypeInv, TypeOK, PhaseInv, PhaseOf, Scan
<1> QED
  BY <1>1, KeyIsInPage DEF Key, KeyOf, Size

LEMMA LookupTyped ==
  ASSUME TypeInv, NEW s \in Scanners, Lookup(s)
  PROVE  TypeInv'
<1>1. scan[s] \in Scan /\ PhaseOf(scan[s]) /\ scan[s].pc = "lookup"
  BY DEF TypeInv, TypeOK, PhaseInv, Lookup, At
<1>2. \E q \in Scan : PhaseOf(q) /\ Becomes(s, q)
  <2> DEFINE i == FirstOf(Tracking(Key(s)))
  <2>1. i = NoRow \/ (i \in Ids /\ rows[i] \in Row)
    BY FirstIs DEF Tracking, LiveIds, TypeInv, TypeOK
  <2>2. CASE i # NoRow
    <3>1. Becomes(s, [scan[s] EXCEPT !.pc = "refresh", !.id = i, !.snap = rows[i]])
      BY <2>2 DEF Lookup
    <3> HIDE DEF i
    <3> QED
      BY <1>1, <2>1, <2>2, <3>1 DEF Scan, PhaseOf
  <2>3. CASE i = NoRow
    <3>1. Becomes(s, [scan[s] EXCEPT !.pc = "folder", !.parent = scan[s].root])
      BY <2>3 DEF Lookup
    <3> HIDE DEF i
    <3> QED
      BY <1>1, <3>1 DEF Scan, PhaseOf
  <2> QED
    BY <2>2, <2>3
<1>3. scan' \in [Scanners -> Scan] /\ PhaseInv'
  BY <1>2, Becoming
<1> QED
  BY <1>3 DEF Lookup, TypeInv, TypeOK, HeldInv, requestVars

LEMMA RefreshTyped ==
  ASSUME TypeInv, NEW s \in Scanners, Refresh(s)
  PROVE  TypeInv'
<1>1. scan[s] \in Scan /\ PhaseOf(scan[s]) /\ scan[s].pc = "refresh"
  BY DEF TypeInv, TypeOK, PhaseInv, Refresh, At
<1>2. scan[s].id \in Ids /\ scan[s].snap \in Row /\ Size(s) \in Sizes
  BY <1>1, AtWork DEF PhaseOf, Scan
<1>3. [scan[s].snap EXCEPT !.size = Size(s)] \in Row
  BY <1>2 DEF Row
<1>4. rows' \in [Ids -> Row]
  BY <1>2, <1>3, SaveTyped DEF Refresh
<1>5. scan' \in [Scanners -> Scan] /\ PhaseInv'
  BY NextTyped DEF Refresh
<1> QED
  BY <1>4, <1>5 DEF Refresh, TypeInv, TypeOK, HeldInv, requestVars

LEMMA FindTyped ==
  ASSUME TypeInv, NEW s \in Scanners, FindFolder(s)
  PROVE  TypeInv'
<1>1. scan[s] \in Scan /\ PhaseOf(scan[s]) /\ scan[s].pc = "folder" /\ scan[s].depth < Len(Folders(Key(s)))
  BY DEF TypeInv, TypeOK, PhaseInv, FindFolder, At
<1>2. \E q \in Scan : PhaseOf(q) /\ Becomes(s, q)
  <2> DEFINE i == FirstOf(Named("folder", Folders(Key(s))[scan[s].depth + 1], scan[s].parent))
  <2>1. i = NoRow \/ i \in Ids
    BY FirstIs DEF Named, LiveIds
  <2>2. CASE i # NoRow
    <3> DEFINE q == [scan[s] EXCEPT !.parent = i, !.depth = @ + 1]
    <3>1. Becomes(s, q)
      BY <2>2 DEF FindFolder
    <3> HIDE DEF i
    <3>2. q \in Scan
      BY <1>1, <2>1, <2>2, DeeperTyped
    <3>3. q.pc = "folder" /\ q.page = scan[s].page
      BY <1>1 DEF Scan
    <3>4. PhaseOf(q)
      BY <1>1, <3>3 DEF PhaseOf
    <3> HIDE DEF q
    <3> QED
      BY <3>1, <3>2, <3>4
  <2>3. CASE i = NoRow
    <3>1. Becomes(s, [scan[s] EXCEPT !.pc = "createFolder"])
      BY <2>3 DEF FindFolder
    <3> HIDE DEF i
    <3> QED
      BY <1>1, <3>1 DEF Scan, PhaseOf, Key, KeyOf
  <2> QED
    BY <2>2, <2>3
<1>3. scan' \in [Scanners -> Scan] /\ PhaseInv'
  BY <1>2, Becoming
<1> QED
  BY <1>3 DEF FindFolder, TypeInv, TypeOK, HeldInv, requestVars

LEMMA CreateFolderTyped ==
  ASSUME TypeInv, NEW s \in Scanners, CreateFolder(s)
  PROVE  TypeInv'
<1>1. scan[s] \in Scan /\ PhaseOf(scan[s]) /\ scan[s].pc = "createFolder"
  BY DEF TypeInv, TypeOK, PhaseInv, CreateFolder, At
<1>2. PICK i \in Ids :
        /\ Insert(i, Folder(Folders(Key(s))[scan[s].depth + 1], scan[s].parent))
        /\ Becomes(s, [scan[s] EXCEPT !.pc = "folder", !.parent = i, !.depth = @ + 1])
  BY DEF CreateFolder
<1>3. Folders(Key(s))[scan[s].depth + 1] \in Names /\ scan[s].parent \in Ids \cup {Top}
  BY <1>1, AtWork, PathIsNames DEF PhaseOf, Scan
<1>4. rows' \in [Ids -> Row]
  BY <1>2, <1>3, FolderIsRow, InsertTyped
<1>5. scan' \in [Scanners -> Scan] /\ PhaseInv'
  <2> DEFINE q == [scan[s] EXCEPT !.pc = "folder", !.parent = i, !.depth = @ + 1]
  <2>1. q \in Scan /\ PhaseOf(q)
    <3>1. q \in Scan
      BY <1>1, DeeperTyped
    <3>2. q.pc = "folder" /\ q.page = scan[s].page
      BY <1>1 DEF Scan
    <3> QED
      BY <1>1, <3>1, <3>2 DEF PhaseOf
  <2>2. Becomes(s, q)
    BY <1>2
  <2> HIDE DEF q
  <2> QED
    BY <2>1, <2>2, Becoming
<1> QED
  BY <1>4, <1>5 DEF CreateFolder, TypeInv, TypeOK, HeldInv, requestVars

LEMMA FoldersDoneTyped ==
  ASSUME TypeInv, NEW s \in Scanners, FoldersDone(s)
  PROVE  TypeInv'
<1>1. scan[s] \in Scan /\ PhaseOf(scan[s]) /\ scan[s].pc = "folder"
  BY DEF TypeInv, TypeOK, PhaseInv, FoldersDone, At
<1>2. scan' \in [Scanners -> Scan] /\ PhaseInv'
  <2>1. CASE Key(s) \in DirMarkers
    BY <2>1, NextTyped DEF FoldersDone
  <2>2. CASE Key(s) \notin DirMarkers
    <3> DEFINE q == [scan[s] EXCEPT !.pc = "match"]
    <3>1. q \in Scan /\ PhaseOf(q)
      BY <1>1, <2>2 DEF Scan, PhaseOf, Key, KeyOf
    <3>2. Becomes(s, q)
      BY <2>2 DEF FoldersDone
    <3> HIDE DEF q
    <3> QED
      BY <3>1, <3>2, Becoming
  <2> QED
    BY <2>1, <2>2
<1> QED
  BY <1>2 DEF FoldersDone, TypeInv, TypeOK, HeldInv, requestVars

LEMMA MatchTyped ==
  ASSUME TypeInv, NEW s \in Scanners, MatchName(s)
  PROVE  TypeInv'
<1>1. scan[s] \in Scan /\ PhaseOf(scan[s]) /\ scan[s].pc = "match"
  BY DEF TypeInv, TypeOK, PhaseInv, MatchName, At
<1>2. \E q \in Scan : PhaseOf(q) /\ Becomes(s, q)
  <2> DEFINE i == FirstOf(Named("file", FileName(Key(s)), scan[s].parent))
  <2>1. i = NoRow \/ (i \in Ids /\ rows[i] \in Row)
    BY FirstIs DEF Named, LiveIds, TypeInv, TypeOK
  <2>2. CASE i # NoRow
    <3>1. Becomes(s, [scan[s] EXCEPT !.pc = "takeOver", !.id = i, !.snap = rows[i]])
      BY <2>2 DEF MatchName
    <3> HIDE DEF i
    <3> QED
      BY <1>1, <2>1, <2>2, <3>1 DEF Scan, PhaseOf, KeyOf
  <2>3. CASE i = NoRow
    <3>1. Becomes(s, [scan[s] EXCEPT !.pc = "createFile"])
      BY <2>3 DEF MatchName
    <3> HIDE DEF i
    <3> QED
      BY <1>1, <3>1 DEF Scan, PhaseOf, KeyOf
  <2> QED
    BY <2>2, <2>3
<1>3. scan' \in [Scanners -> Scan] /\ PhaseInv'
  BY <1>2, Becoming
<1> QED
  BY <1>3 DEF MatchName, TypeInv, TypeOK, HeldInv, requestVars

LEMMA TakeOverTyped ==
  ASSUME TypeInv, NEW s \in Scanners, TakeOver(s)
  PROVE  TypeInv'
<1>1. scan[s] \in Scan /\ PhaseOf(scan[s]) /\ scan[s].pc = "takeOver"
  BY DEF TypeInv, TypeOK, PhaseInv, TakeOver, At
<1>2. scan[s].id \in Ids /\ scan[s].snap \in Row /\ Key(s) \in Keys /\ Size(s) \in Sizes
  BY <1>1, AtWork DEF PhaseOf, Scan
<1>3. [scan[s].snap EXCEPT !.key = Key(s), !.size = Size(s)] \in Row
  BY <1>2 DEF Row
<1>4. rows' \in [Ids -> Row]
  BY <1>2, <1>3, SaveTyped DEF TakeOver
<1>5. scan' \in [Scanners -> Scan] /\ PhaseInv'
  BY NextTyped DEF TakeOver
<1> QED
  BY <1>4, <1>5 DEF TakeOver, TypeInv, TypeOK, HeldInv, requestVars

LEMMA CreateFileTyped ==
  ASSUME TypeInv, NEW s \in Scanners, CreateFile(s)
  PROVE  TypeInv'
<1>1. scan[s] \in Scan /\ PhaseOf(scan[s]) /\ scan[s].pc = "createFile"
  BY DEF TypeInv, TypeOK, PhaseInv, CreateFile, At
<1>2. FileName(Key(s)) \in Names /\ Key(s) \in Keys /\ Size(s) \in Sizes /\ scan[s].parent \in Ids \cup {Top}
  BY <1>1, AtWork, PathIsNames DEF PhaseOf, Scan
<1>3. rows' \in [Ids -> Row]
  BY <1>2, FileIsRow, InsertTyped DEF CreateFile
<1>4. scan' \in [Scanners -> Scan] /\ PhaseInv'
  BY NextTyped DEF CreateFile
<1> QED
  BY <1>3, <1>4 DEF CreateFile, TypeInv, TypeOK, HeldInv, requestVars

LEMMA BeginTyped ==
  ASSUME TypeInv, NEW s \in Scanners, NEW r \in Ids \cup {Top}, Begin(s, r)
  PROVE  scan' \in [Scanners -> Scan] /\ PhaseInv'
<1> DEFINE q == [Idle EXCEPT !.pc = "list", !.root = r]
<1>1. q \in Scan
  BY IdleIsScan DEF Scan
<1>2. PhaseOf(q)
  BY DEF Idle, PhaseOf
<1>3. Becomes(s, q)
  BY DEF Begin
<1> HIDE DEF q
<1> QED
  BY <1>1, <1>2, <1>3, Becoming

LEMMA EditTyped ==
  ASSUME TypeInv, Edit
  PROVE  TypeInv'
<1>1. /\ scan' = scan /\ edits' \in Nat /\ fresh' = "no"
      /\ held' = held /\ revived' = revived
  BY DEF Edit, Trash, Purge, Put, Presigned, Multipart, UploadRow, UploadObject,
         Edited, CountEdit, requestVars, TypeInv, TypeOK
<1>2. PhaseInv' /\ HeldInv'
  BY <1>1 DEF TypeInv, PhaseInv, HeldInv
<1>3. ASSUME NEW i \in Ids, Trash(i) PROVE TypeInv'
  BY <1>1, <1>2, <1>3 DEF Trash, TypeInv, TypeOK, Row
<1>4. ASSUME NEW i \in Ids, Purge(i) PROVE TypeInv'
  BY <1>1, <1>2, <1>4 DEF Purge, TypeInv, TypeOK, Row
<1>5. ASSUME NEW k \in Keys, NEW z \in Sizes \cup {0}, Put(k, z) PROVE TypeInv'
  BY <1>1, <1>2, <1>5 DEF Put, TypeInv, TypeOK
<1>6. Min(Sizes) \in Sizes
  BY RowAssumption, MinIsLeast
<1>7. ASSUME NEW k \in Internal, NEW from, NEW to \in {"none", "row", "put", "object", "completed"},
             UploadRow(k, from, to)
      PROVE  TypeInv'
  <2>1. rows' \in [Ids -> Row]
    BY <1>6, <1>7, KeyAssumption, UploadNames, FileIsRow, InsertTyped DEF UploadRow
  <2> QED
    BY <1>1, <1>2, <1>7, <2>1 DEF UploadRow, TypeInv, TypeOK
<1>8. ASSUME NEW k \in Internal, NEW from, NEW to \in {"none", "row", "put", "object", "completed"},
             UploadObject(k, from, to)
      PROVE  TypeInv'
  BY <1>1, <1>2, <1>6, <1>8 DEF UploadObject, TypeInv, TypeOK
<1>9. ASSUME NEW k \in Internal, Presigned(k) \/ Multipart(k) PROVE TypeInv'
  BY <1>7, <1>8, <1>9 DEF Presigned, Multipart
<1> QED
  BY <1>3, <1>4, <1>5, <1>9 DEF Edit

\* A request reads a row as it is, but for its folder or its name.
LEMMA ReadOf ==
  ASSUME TypeInv, NEW r \in Requests, NEW i \in Ids,
         \/ \E p \in Ids \cup {Top} : Move(r, i, p)
         \/ \E n \in NewNames \cup {rows[i].name} : Rename(r, i, n)
         \/ Complete(r, i)
  PROVE  \E label \in {"head", "save"}, row \in Row :
           /\ Read(r, i, label, row)
           /\ row.key = rows[i].key
           /\ label = "head" => row.key \in Keys
<1>1. rows[i] \in Row /\ \A n \in NewNames : n \in Names
  BY DEF TypeInv, TypeOK, Names
<1>2. ASSUME NEW p \in Ids \cup {Top}, Move(r, i, p)
      PROVE  Read(r, i, "save", [rows[i] EXCEPT !.parent = p])
  BY <1>2 DEF Move
<1>3. ASSUME NEW n \in NewNames \cup {rows[i].name}, Rename(r, i, n)
      PROVE  Read(r, i, "save", [rows[i] EXCEPT !.name = n])
  BY <1>3 DEF Rename
<1>4. ASSUME Complete(r, i)
      PROVE  Read(r, i, "head", rows[i]) /\ rows[i].key \in Keys
  BY <1>1, <1>4 DEF Complete, Row
<1>5. ASSUME NEW p \in Ids \cup {Top}
      PROVE  /\ [rows[i] EXCEPT !.parent = p] \in Row
             /\ [rows[i] EXCEPT !.parent = p].key = rows[i].key
  BY <1>1 DEF Row
<1>6. ASSUME NEW n \in NewNames \cup {rows[i].name}
      PROVE  /\ [rows[i] EXCEPT !.name = n] \in Row
             /\ [rows[i] EXCEPT !.name = n].key = rows[i].key
  BY <1>1 DEF Row
<1> QED
  BY <1>1, <1>2, <1>3, <1>4, <1>5, <1>6

LEMMA RequestTyped ==
  ASSUME TypeInv, NEW r \in Requests, Request(r)
  PROVE  TypeInv'
<1>1. held[r] \in Held
  BY DEF TypeInv, TypeOK
<1>2. ASSUME NEW q \in Held, held' = [held EXCEPT ![r] = q],
             q.pc # "idle" => q.id \in Ids, q.pc = "head" => q.snap.key \in Keys
      PROVE  held' \in [Requests -> Held] /\ HeldInv'
  BY <1>2 DEF TypeInv, TypeOK, HeldInv
<1>3. ASSUME NEW i \in Ids, NEW label \in {"head", "save"}, NEW row \in Row,
             Read(r, i, label, row), label = "head" => row.key \in Keys
      PROVE  TypeInv'
  <2> DEFINE q == [pc |-> label, id |-> i, snap |-> row]
  <2>1. q \in Held /\ q.pc = label /\ q.id = i /\ q.snap = row
    BY DEF Held
  <2>2. held' = [held EXCEPT ![r] = q]
    BY <1>3 DEF Read
  <2> HIDE DEF q
  <2>3. held' \in [Requests -> Held] /\ HeldInv'
    BY <1>2, <1>3, <2>1, <2>2
  <2>4. edits' \in Nat
    BY <1>3 DEF Read, CountEdit, TypeInv, TypeOK
  <2> QED
    BY <1>3, <2>3, <2>4 DEF Read, TypeInv, TypeOK, PhaseInv
<1>4. CASE HeadObject(r)
  <2>1. held[r].pc = "head" /\ held[r].id \in Ids /\ held[r].snap \in Row /\ held[r].snap.key \in Keys
    BY <1>1, <1>4 DEF HeadObject, TypeInv, HeldInv, Held
  <2>0. bucket[held[r].snap.key] \in Sizes \cup {0}
    BY <2>1 DEF TypeInv, TypeOK
  <2>2. PICK z \in Sizes \cup {0} :
          held' = [held EXCEPT ![r].pc = "save",
                               ![r].snap.size = IF z = 0 THEN @ ELSE z]
    BY <1>4, <2>0 DEF HeadObject
  <2>3. PICK y \in Sizes \cup {0} : y = IF z = 0 THEN held[r].snap.size ELSE z
    BY <2>1 DEF Row
  <2> DEFINE q == [held[r] EXCEPT !.pc = "save", !.snap.size = y]
  <2>4. held' = [held EXCEPT ![r] = q]
    BY <2>2, <2>3 DEF TypeInv, TypeOK
  <2>5. q \in Held /\ q.pc = "save" /\ q.id \in Ids
    BY <1>1, <2>1 DEF Held, Row
  <2> HIDE DEF q
  <2>6. held' \in [Requests -> Held] /\ HeldInv'
    BY <1>2, <2>4, <2>5
  <2> QED
    BY <1>4, <2>6 DEF HeadObject, TypeInv, TypeOK, PhaseInv
<1>5. CASE SaveItem(r)
  <2>1. held[r].id \in Ids /\ held[r].snap \in Row
    BY <1>1, <1>5 DEF SaveItem, TypeInv, HeldInv, Held
  <2>2. rows' \in [Ids -> Row]
    BY <1>5, <2>1, SaveTyped DEF SaveItem
  <2>3. NothingHeld \in Held /\ NothingHeld.pc = "idle"
    BY BlankIsRow DEF NothingHeld, Held, NoRow
  <2>4. held' = [held EXCEPT ![r] = NothingHeld]
    BY <1>5 DEF SaveItem
  <2>5. held' \in [Requests -> Held] /\ HeldInv'
    BY <1>2, <2>3, <2>4
  <2>6. held[r].snap.key \in Keys \cup {NoKey}
    BY <2>1 DEF Row
  <2> QED
    BY <1>5, <2>2, <2>5, <2>6 DEF SaveItem, TypeInv, TypeOK, PhaseInv
<1> QED
  BY <1>3, <1>4, <1>5, ReadOf DEF Request

LEMMA TypeInvStep ==
  ASSUME TypeInv, [Next]_vars
  PROVE  TypeInv'
<1>1. CASE UNCHANGED vars
  BY <1>1 DEF TypeInv, TypeOK, PhaseInv, HeldInv, vars
<1>2. CASE Edit
  BY <1>2, EditTyped
<1>3. ASSUME NEW s \in Scanners, Step(s) PROVE TypeInv'
  BY <1>3, ListTyped, TakeTyped, LookupTyped, RefreshTyped, FindTyped, CreateFolderTyped,
     FoldersDoneTyped, MatchTyped, TakeOverTyped, CreateFileTyped DEF Step
<1>4. ASSUME NEW s \in Scanners, StartScan(s) PROVE TypeInv'
  <2>1. scan' \in [Scanners -> Scan] /\ PhaseInv'
    BY <1>4, BeginTyped DEF StartScan
  <2> QED
    BY <1>4, <2>1 DEF StartScan, Begin, TypeInv, TypeOK, HeldInv, requestVars
<1>5. ASSUME NEW s \in Scanners, NEW i \in Ids, StartScanInto(s, i) PROVE TypeInv'
  <2>1. scan' \in [Scanners -> Scan] /\ PhaseInv'
    BY <1>5, BeginTyped DEF StartScanInto
  <2> QED
    BY <1>5, <2>1 DEF StartScanInto, Begin, CountEdit, TypeInv, TypeOK, HeldInv, requestVars
<1>6. ASSUME NEW r \in Requests, Request(r) PROVE TypeInv'
  BY <1>6, RequestTyped
<1> QED
  BY <1>1, <1>2, <1>3, <1>4, <1>5, <1>6 DEF Next, Start

LEMMA TypeInvAlways == Spec => []TypeInv
<1>1. Init => TypeInv
  BY TypeInvInit
<1>2. TypeInv /\ [Next]_vars => TypeInv'
  BY TypeInvStep
<1> QED
  BY <1>1, <1>2, PTL DEF Spec

\* Every variable has its type: no scan looks at a page that is used up, asks a
\* path for a segment it does not have, or saves a row it did not find.
THEOREM TypeCorrect == Spec => []TypeOK
<1>1. TypeInv => TypeOK
  BY DEF TypeInv
<1> QED
  BY <1>1, TypeInvAlways, PTL

-----------------------------------------------------------------------------
(* One row per object, when one job scans at a time.                         *)

Alone == \A a, b \in Scanners : a = b

\* The object of a multipart upload, whose row may come second, or one that a
\* request gave back to a row that had lost it.
Exempt(k) == (k \in Internal /\ uploads[k] = "completed") \/ k \in revived

\* Nothing knows the key of an upload that has not begun.
Unknown(k) ==
  /\ bucket[k] = 0
  /\ \A i \in Ids : rows[i].key # k
  /\ \A s \in Scanners : k \notin DOMAIN scan[s].page /\ scan[s].snap.key # k
  /\ \A r \in Requests : held[r].snap.key # k

\* Past Lookup there is no row of the key but the one that was found.
Looking == {"folder", "createFolder", "match", "takeOver", "createFile"}

LookedUp(q) ==
  /\ q.pc = "refresh" => /\ q.snap.key = KeyOf(q)
                         /\ Exempt(KeyOf(q)) \/ Tracking(KeyOf(q)) \subseteq {q.id}
  /\ q.pc \in Looking => Exempt(KeyOf(q)) \/ Tracking(KeyOf(q)) = {}

OneRow(k) == Exempt(k) \/ \A i, j \in Tracking(k) : i = j

RowInv ==
  /\ \A k \in Internal : uploads[k] = "none" => Unknown(k)
  /\ \A s \in Scanners : LookedUp(scan[s])
  /\ \A k \in Keys : OneRow(k)

LEMMA OnlyOne ==
  ASSUME TypeInv, Alone, NEW s \in Scanners, NEW q, Becomes(s, q)
  PROVE  \A t \in Scanners : t = s /\ scan'[t] = q
BY DEF TypeInv, TypeOK, Alone, Becomes

LEMMA InternalKeys == ASSUME NEW k \in Internal PROVE k \in Keys /\ k # NoKey
BY KeyAssumption DEF NoKey

LEMMA RowInvInit == Init => RowInv
<1> SUFFICES ASSUME Init PROVE RowInv
  OBVIOUS
<1>1. BlankRow.key = NoKey /\ BlankRow.state = "none"
  BY DEF BlankRow
<1>2. \A k \in Keys : Tracking(k) = {}
  BY <1>1 DEF Init, Tracking, LiveIds
<1>3. ASSUME NEW k \in Internal PROVE Unknown(k)
  <2>1. \A s \in Scanners : DOMAIN scan[s].page = {} /\ scan[s].snap.key = NoKey
    BY <1>1 DEF Init, Idle
  <2> QED
    BY <1>1, <2>1, InternalKeys DEF Init, Unknown, NothingHeld
<1>4. \A s \in Scanners : LookedUp(scan[s])
  BY DEF Init, Idle, LookedUp, Looking
<1> QED
  BY <1>2, <1>3, <1>4 DEF RowInv, OneRow

\* A step of a scan that leaves the rows alone.
LEMMA QuietStep ==
  ASSUME TypeInv, RowInv, Alone, NEW s \in Scanners, NEW q, Becomes(s, q),
         rows' = rows, bucket' = bucket, uploads' = uploads, requestVars' = requestVars,
         LookedUp(q),
         \A k \in Internal : Unknown(k) => k \notin DOMAIN q.page /\ q.snap.key # k
  PROVE  RowInv'
<1>1. \A t \in Scanners : t = s /\ scan'[t] = q
  BY OnlyOne
<1>2. ASSUME NEW k \in Internal, uploads'[k] = "none" PROVE Unknown(k)'
  BY <1>1, <1>2 DEF RowInv, Unknown, requestVars
<1>3. LookedUp(q)'
  BY DEF LookedUp, Exempt, Tracking, LiveIds, requestVars
<1>4. ASSUME NEW t \in Scanners PROVE LookedUp(scan[t])'
  <2>1. scan'[t] = q
    BY <1>1
  <2> QED
    BY <1>3, <2>1 DEF LookedUp, Exempt, Tracking, LiveIds, KeyOf
<1>5. ASSUME NEW k \in Keys PROVE OneRow(k)'
  BY DEF RowInv, OneRow, Exempt, Tracking, LiveIds, requestVars
<1> QED
  BY <1>2, <1>4, <1>5 DEF RowInv

\* A scan that has done with its object.
LEMMA NextHolds ==
  ASSUME TypeInv, Alone, NEW s \in Scanners, NextObject(s)
  PROVE  \A t \in Scanners : /\ t = s /\ scan'[t].pc = "object"
                             /\ DOMAIN scan'[t].page \subseteq DOMAIN scan[s].page \ {Key(s)}
                             /\ \A k \in DOMAIN scan'[t].page : scan'[t].page[k] = scan[s].page[k]
                             /\ DOMAIN scan[s].page \subseteq DOMAIN scan'[t].page \cup {Key(s)}
                             /\ scan'[t].snap = BlankRow
                             /\ scan'[t].token = scan[s].token /\ scan'[t].more = scan[s].more
                             /\ scan'[t].root = scan[s].root
<1> DEFINE q == [scan[s] EXCEPT !.pc = "object", !.id = NoRow, !.snap = BlankRow,
                                !.parent = Top, !.depth = 0,
                                !.page = Restrict(@, DOMAIN @ \ {Key(s)})]
<1>1. scan[s] \in Scan
  BY DEF TypeInv, TypeOK
<1>2. /\ q.pc = "object" /\ q.snap = BlankRow /\ q.token = scan[s].token
      /\ q.more = scan[s].more /\ q.root = scan[s].root
      /\ q.page = Restrict(scan[s].page, DOMAIN scan[s].page \ {Key(s)})
  BY <1>1 DEF Scan
<1>3. Becomes(s, q)
  BY DEF NextObject
<1> HIDE DEF q
<1>4. \A t \in Scanners : t = s /\ scan'[t] = q
  BY <1>3, OnlyOne
<1>5. /\ DOMAIN q.page = DOMAIN scan[s].page \ {Key(s)}
      /\ \A k \in DOMAIN q.page : q.page[k] = scan[s].page[k]
  BY <1>2, RestrictsTo
<1> QED
  BY <1>2, <1>4, <1>5

\* A step that gives a row to the object of the scan.
LEMMA RowForObject ==
  ASSUME TypeInv, RowInv, Alone, NEW s \in Scanners, NEW i \in Ids, NEW r,
         scan[s].pc \notin {"idle", "list", "object"},
         rows' = [rows EXCEPT ![i] = r], r.key = Key(s), NextObject(s),
         bucket' = bucket, uploads' = uploads, requestVars' = requestVars,
         Exempt(Key(s)) \/ Tracking(Key(s)) \subseteq {i}
  PROVE  RowInv'
<1>1. \A j \in Ids : rows'[j] = IF j = i THEN r ELSE rows[j]
  BY DEF TypeInv, TypeOK
<1>2. Key(s) \in DOMAIN scan[s].page
  BY AtWork
<1>3. \A k : Exempt(k)' = Exempt(k)
  BY DEF Exempt, requestVars
<1>4. ASSUME NEW k \in Keys PROVE OneRow(k)'
  <2>1. ASSUME NEW j \in Tracking(k)' PROVE j \in Tracking(k) \/ (j = i /\ k = Key(s))
    BY <1>1, <2>1 DEF Tracking, LiveIds
  <2>2. CASE k = Key(s)
    BY <1>3, <2>1, <2>2 DEF OneRow
  <2>3. CASE k # Key(s)
    BY <1>3, <2>1, <2>3 DEF OneRow, RowInv
  <2> QED
    BY <2>2, <2>3
<1>5. ASSUME NEW k \in Internal, uploads'[k] = "none" PROVE Unknown(k)'
  <2>1. Unknown(k)
    BY <1>5 DEF RowInv
  <2>2. k # Key(s)
    BY <1>2, <2>1 DEF Unknown
  <2>3. \A j \in Ids : rows'[j].key # k
    BY <1>1, <2>1, <2>2 DEF Unknown
  <2>4. BlankRow.key # k
    BY InternalKeys DEF BlankRow
  <2>5. \A t \in Scanners : k \notin DOMAIN scan'[t].page /\ scan'[t].snap.key # k
    BY <2>1, <2>4, NextHolds DEF Unknown
  <2> QED
    BY <2>1, <2>3, <2>5 DEF Unknown, requestVars
<1>6. ASSUME NEW t \in Scanners PROVE LookedUp(scan[t])'
  <2>1. scan'[t].pc = "object"
    BY NextHolds
  <2> QED
    BY <2>1 DEF LookedUp, Looking
<1> QED
  BY <1>4, <1>5, <1>6 DEF RowInv

LEMMA ScanRows ==
  ASSUME TypeInv, RowInv, Alone, NEW s \in Scanners, Step(s)
  PROVE  RowInv'
<1>0. scan[s] \in Scan /\ LookedUp(scan[s])
  BY DEF TypeInv, TypeOK, RowInv
<1>01. \A k \in Internal : Unknown(k) => k \notin DOMAIN scan[s].page /\ scan[s].snap.key # k
  BY DEF Unknown
<1>02. \A k \in Internal : k \notin DOMAIN Idle.page /\ Idle.snap.key # k
  BY InternalKeys DEF Idle, BlankRow
<1>03. LookedUp(Idle)
  BY DEF LookedUp, Looking, Idle
<1>1. CASE ListObjects(s)
  <2>1. CASE Becomes(s, Idle)
    BY <1>1, <1>02, <1>03, <2>1, QuietStep DEF ListObjects
  <2>2. CASE ~Becomes(s, Idle)
    <3> DEFINE rest == {k \in Objects : k > scan[s].token}
               page == {k \in rest : Cardinality({j \in rest : j <= k}) <= PageSize}
               q == [scan[s] EXCEPT !.pc = "object", !.page = Restrict(bucket, page),
                                    !.token = IF page = {} THEN @ ELSE Max(page),
                                    !.more = page # rest]
    <3>1. Becomes(s, q)
      BY <1>1, <2>2 DEF ListObjects
    <3>2. \A k \in Internal : Unknown(k) => k \notin page
      BY DEF Objects, Unknown
    <3> HIDE DEF page, rest
    <3>3. q.pc = "object" /\ q.page = Restrict(bucket, page) /\ q.snap = scan[s].snap
      BY <1>0 DEF Scan
    <3> HIDE DEF q
    <3>4. LookedUp(q)
      BY <3>3 DEF LookedUp, Looking
    <3>5. \A k \in Internal : Unknown(k) => k \notin DOMAIN q.page /\ q.snap.key # k
      BY <1>01, <3>2, <3>3, RestrictsTo
    <3> QED
      BY <1>1, <3>1, <3>4, <3>5, QuietStep DEF ListObjects
  <2> QED
    BY <2>1, <2>2
<1>2. CASE TakeObject(s)
  <2>1. ASSUME NEW l \in {"lookup", "list"}, Becomes(s, [scan[s] EXCEPT !.pc = l]) PROVE RowInv'
    <3> DEFINE q == [scan[s] EXCEPT !.pc = l]
    <3>1. q.pc = l /\ q.page = scan[s].page /\ q.snap = scan[s].snap
      BY <1>0 DEF Scan
    <3>2. Becomes(s, q)
      BY <2>1
    <3> HIDE DEF q
    <3>3. LookedUp(q)
      BY <3>1 DEF LookedUp, Looking
    <3>4. \A k \in Internal : Unknown(k) => k \notin DOMAIN q.page /\ q.snap.key # k
      BY <1>01, <3>1
    <3> QED
      BY <1>2, <3>2, <3>3, <3>4, QuietStep DEF TakeObject
  <2>2. CASE Becomes(s, Idle)
    BY <1>2, <1>02, <1>03, <2>2, QuietStep DEF TakeObject
  <2> QED
    BY <1>2, <2>1, <2>2 DEF TakeObject
<1>3. CASE Lookup(s)
  <2> DEFINE i == FirstOf(Tracking(Key(s)))
  <2>0. Tracking(Key(s)) \in SUBSET Ids /\ Key(s) = KeyOf(scan[s]) /\ Key(s) \in Keys
    <3>1. scan[s].pc = "lookup"
      BY <1>3 DEF Lookup, At
    <3> QED
      BY <3>1, AtWork DEF Tracking, LiveIds
  <2>1. CASE i # NoRow
    <3> DEFINE q == [scan[s] EXCEPT !.pc = "refresh", !.id = i, !.snap = rows[i]]
    <3>1. Becomes(s, q)
      BY <1>3, <2>1 DEF Lookup
    <3>2. i \in Tracking(Key(s))
      BY <2>0, <2>1, FirstIs
    <3> HIDE DEF i
    <3>3. q.pc = "refresh" /\ q.page = scan[s].page /\ q.snap = rows[i] /\ q.id = i
      BY <1>0 DEF Scan
    <3> HIDE DEF q
    <3>4. rows[i].key = Key(s) /\ i \in Ids
      BY <3>2 DEF Tracking, LiveIds
    <3>5. KeyOf(q) = Key(s)
      BY <2>0, <3>3 DEF KeyOf
    <3>6. LookedUp(q)
      BY <2>0, <3>2, <3>3, <3>4, <3>5 DEF LookedUp, Looking, RowInv, OneRow
    <3>7. \A k \in Internal : Unknown(k) => k \notin DOMAIN q.page /\ q.snap.key # k
      BY <1>01, <3>3, <3>4 DEF Unknown
    <3> QED
      BY <1>3, <3>1, <3>6, <3>7, QuietStep DEF Lookup
  <2>2. CASE i = NoRow
    <3> DEFINE q == [scan[s] EXCEPT !.pc = "folder", !.parent = scan[s].root]
    <3>1. Becomes(s, q)
      BY <1>3, <2>2 DEF Lookup
    <3>2. Tracking(Key(s)) = {}
      BY <2>0, <2>2, FirstIs
    <3>3. q.pc = "folder" /\ q.page = scan[s].page /\ q.snap = scan[s].snap
      BY <1>0 DEF Scan
    <3> HIDE DEF q
    <3>4. KeyOf(q) = Key(s)
      BY <2>0, <3>3 DEF KeyOf
    <3>5. LookedUp(q)
      BY <3>2, <3>3, <3>4 DEF LookedUp
    <3> QED
      BY <1>01, <1>3, <3>1, <3>3, <3>5, QuietStep DEF Lookup
  <2> QED
    BY <2>1, <2>2
<1>4. CASE Refresh(s)
  <2>1. scan[s].pc = "refresh"
    BY <1>4 DEF Refresh, At
  <2>2. scan[s].id \in Ids /\ Key(s) = KeyOf(scan[s])
    BY <2>1, AtWork DEF TypeInv, PhaseInv, PhaseOf
  <2> DEFINE r == [scan[s].snap EXCEPT !.size = Size(s)]
  <2>3. r.key = Key(s) /\ (Exempt(Key(s)) \/ Tracking(Key(s)) \subseteq {scan[s].id})
    <3>1. scan[s].snap \in Row
      BY <1>0 DEF Scan
    <3> QED
      BY <1>0, <2>1, <2>2, <3>1 DEF LookedUp, Row
  <2>4. rows' = [rows EXCEPT ![scan[s].id] = r]
    BY <1>4 DEF Refresh, Save
  <2> HIDE DEF r
  <2> QED
    BY <1>4, <2>1, <2>2, <2>3, <2>4, RowForObject DEF Refresh
<1>5. CASE FindFolder(s)
  <2>0. scan[s].pc = "folder"
    BY <1>5 DEF FindFolder, At
  <2>1. PICK q : /\ Becomes(s, q) /\ q.pc \in {"folder", "createFolder"}
                 /\ q.page = scan[s].page /\ q.snap = scan[s].snap
    <3> DEFINE i == FirstOf(Named("folder", Folders(Key(s))[scan[s].depth + 1], scan[s].parent))
    <3>1. CASE i # NoRow
      <4> DEFINE q == [scan[s] EXCEPT !.parent = i, !.depth = @ + 1]
      <4>1. Becomes(s, q)
        BY <1>5, <3>1 DEF FindFolder
      <4> HIDE DEF i
      <4>2. q.pc = "folder" /\ q.page = scan[s].page /\ q.snap = scan[s].snap
        BY <1>0, <2>0 DEF Scan
      <4> HIDE DEF q
      <4> QED
        BY <4>1, <4>2
    <3>2. CASE i = NoRow
      <4>1. Becomes(s, [scan[s] EXCEPT !.pc = "createFolder"])
        BY <1>5, <3>2 DEF FindFolder
      <4> QED
        BY <1>0, <4>1 DEF Scan
    <3> QED
      BY <3>1, <3>2
  <2>2. KeyOf(q) = KeyOf(scan[s])
    BY <2>1 DEF KeyOf
  <2>3. LookedUp(q)
    BY <1>0, <2>0, <2>1, <2>2 DEF LookedUp, Looking
  <2> QED
    BY <1>01, <1>5, <2>1, <2>3, QuietStep DEF FindFolder
<1>6. CASE CreateFolder(s)
  <2>1. PICK i \in Ids :
          /\ Insert(i, Folder(Folders(Key(s))[scan[s].depth + 1], scan[s].parent))
          /\ Becomes(s, [scan[s] EXCEPT !.pc = "folder", !.parent = i, !.depth = @ + 1])
    BY <1>6 DEF CreateFolder
  <2>2. PICK q : q = [scan[s] EXCEPT !.pc = "folder", !.parent = i, !.depth = @ + 1]
    OBVIOUS
  <2>3. /\ \A t \in Scanners : t = s /\ scan'[t] = q
        /\ q.pc = "folder" /\ q.page = scan[s].page /\ q.snap = scan[s].snap
    <3>1. Becomes(s, q)
      BY <2>1, <2>2
    <3> QED
      BY <1>0, <2>2, <3>1, OnlyOne DEF Scan
  <2>4. PICK r : r.key = NoKey /\ rows' = [rows EXCEPT ![i] = r]
    BY <2>1 DEF Insert, Folder, BlankRow
  <2>5. \A j \in Ids : rows'[j] = IF j = i THEN r ELSE rows[j]
    BY <2>4 DEF TypeInv, TypeOK
  <2>6. ASSUME NEW k \in Keys PROVE Tracking(k)' \subseteq Tracking(k)
    <3>1. k # NoKey
      BY KeyAssumption DEF NoKey
    <3> QED
      BY <2>4, <2>5, <3>1 DEF Tracking, LiveIds
  <2>7. /\ bucket' = bucket /\ uploads' = uploads /\ held' = held
        /\ \A k : Exempt(k)' = Exempt(k)
    BY <1>6 DEF CreateFolder, Exempt, requestVars
  <2>8. ASSUME NEW k \in Internal, uploads'[k] = "none" PROVE Unknown(k)'
    <3>1. Unknown(k) /\ k # NoKey
      BY <2>7, <2>8, InternalKeys DEF RowInv
    <3>2. \A j \in Ids : rows'[j].key # k
      BY <2>4, <2>5, <3>1 DEF Unknown
    <3> QED
      BY <2>3, <2>7, <3>1, <3>2 DEF Unknown
  <2>9. ASSUME NEW t \in Scanners PROVE LookedUp(scan[t])'
    <3>1. scan[s].pc = "createFolder"
      BY <1>6 DEF CreateFolder, At
    <3>2. PICK k \in Keys : k = KeyOf(scan[s])
      BY <3>1, AtWork
    <3>3. scan'[t].pc = "folder" /\ KeyOf(scan[t])' = k
      BY <2>3, <3>2 DEF KeyOf
    <3>4. Exempt(k) \/ Tracking(k) = {}
      BY <1>0, <3>1, <3>2 DEF LookedUp, Looking
    <3>5. Exempt(k)' \/ Tracking(k)' = {}
      BY <2>6, <2>7, <3>4
    <3>6. Exempt(KeyOf(scan[t]))' \/ Tracking(KeyOf(scan[t]))' = {}
      BY <3>3, <3>5 DEF Exempt, Tracking, LiveIds
    <3> QED
      BY <3>3, <3>6 DEF LookedUp
  <2>10. ASSUME NEW k \in Keys PROVE OneRow(k)'
    BY <2>6, <2>7 DEF RowInv, OneRow
  <2> QED
    BY <2>8, <2>9, <2>10 DEF RowInv
<1>7. CASE FoldersDone(s)
  <2>1. CASE Key(s) \in DirMarkers
    <3>1. /\ NextObject(s) /\ rows' = rows /\ bucket' = bucket /\ uploads' = uploads
          /\ requestVars' = requestVars
      BY <1>7, <2>1 DEF FoldersDone
    <3>2. PICK q : Becomes(s, q)
      BY <3>1 DEF NextObject
    <3>3. q = scan'[s]
      BY <3>2, OnlyOne
    <3>31. q.pc = "object"
      BY <3>1, <3>3, NextHolds
    <3>4. LookedUp(q)
      BY <3>31 DEF LookedUp, Looking
    <3>5. \A k \in Internal : Unknown(k) => k \notin DOMAIN q.page /\ q.snap.key # k
      <4>1. q.snap = BlankRow /\ DOMAIN q.page \subseteq DOMAIN scan[s].page \ {Key(s)}
        BY <3>1, <3>3, NextHolds
      <4>2. q.snap.key = NoKey
        BY <4>1 DEF BlankRow
      <4> QED
        BY <1>01, <4>1, <4>2, InternalKeys
    <3> QED
      BY <3>1, <3>2, <3>4, <3>5, QuietStep
  <2>2. CASE Key(s) \notin DirMarkers
    <3> DEFINE q == [scan[s] EXCEPT !.pc = "match"]
    <3>1. Becomes(s, q) /\ scan[s].pc = "folder"
      BY <1>7, <2>2 DEF FoldersDone, At
    <3>2. q.pc = "match" /\ q.page = scan[s].page /\ q.snap = scan[s].snap
      BY <1>0 DEF Scan
    <3> HIDE DEF q
    <3>3. KeyOf(q) = KeyOf(scan[s])
      BY <3>2 DEF KeyOf
    <3>4. LookedUp(q)
      BY <1>0, <3>1, <3>2, <3>3 DEF LookedUp, Looking
    <3> QED
      BY <1>01, <1>7, <3>1, <3>2, <3>4, QuietStep DEF FoldersDone
  <2> QED
    BY <2>1, <2>2
<1>8. CASE MatchName(s)
  <2>0. scan[s].pc = "match"
    BY <1>8 DEF MatchName, At
  <2> DEFINE i == FirstOf(Named("file", FileName(Key(s)), scan[s].parent))
  <2>1. PICK q : /\ Becomes(s, q) /\ q.pc \in {"takeOver", "createFile"} /\ q.page = scan[s].page
                 /\ q.snap = scan[s].snap \/ \E j \in Ids : q.snap = rows[j]
    <3>1. CASE i # NoRow
      <4>1. Becomes(s, [scan[s] EXCEPT !.pc = "takeOver", !.id = i, !.snap = rows[i]])
        BY <1>8, <3>1 DEF MatchName
      <4>2. i \in Ids
        BY <3>1, FirstIs DEF Named, LiveIds
      <4> DEFINE q == [scan[s] EXCEPT !.pc = "takeOver", !.id = i, !.snap = rows[i]]
      <4>3. q.pc = "takeOver" /\ q.page = scan[s].page /\ q.snap = rows[i]
        BY <1>0 DEF Scan
      <4>4. Becomes(s, q)
        BY <4>1
      <4> HIDE DEF i, q
      <4> QED
        BY <4>2, <4>3, <4>4
    <3>2. CASE i = NoRow
      <4>1. Becomes(s, [scan[s] EXCEPT !.pc = "createFile"])
        BY <1>8, <3>2 DEF MatchName
      <4> QED
        BY <1>0, <4>1 DEF Scan
    <3> QED
      BY <3>1, <3>2
  <2>2. KeyOf(q) = KeyOf(scan[s])
    BY <2>1 DEF KeyOf
  <2>3. LookedUp(q)
    BY <1>0, <2>0, <2>1, <2>2 DEF LookedUp, Looking
  <2>4. \A k \in Internal : Unknown(k) => k \notin DOMAIN q.page /\ q.snap.key # k
    BY <1>01, <2>1 DEF Unknown
  <2> QED
    BY <1>8, <2>1, <2>3, <2>4, QuietStep DEF MatchName
<1>9. CASE TakeOver(s)
  <2>1. scan[s].pc = "takeOver"
    BY <1>9 DEF TakeOver, At
  <2>2. scan[s].id \in Ids /\ Key(s) = KeyOf(scan[s])
    BY <2>1, AtWork DEF TypeInv, PhaseInv, PhaseOf
  <2> DEFINE r == [scan[s].snap EXCEPT !.key = Key(s), !.size = Size(s)]
  <2>3. r.key = Key(s) /\ (Exempt(Key(s)) \/ Tracking(Key(s)) \subseteq {scan[s].id})
    <3>1. scan[s].snap \in Row
      BY <1>0 DEF Scan
    <3> QED
      BY <1>0, <2>1, <2>2, <3>1 DEF LookedUp, Looking, Row
  <2>4. rows' = [rows EXCEPT ![scan[s].id] = r]
    BY <1>9 DEF TakeOver, Save
  <2> HIDE DEF r
  <2> QED
    BY <1>9, <2>1, <2>2, <2>3, <2>4, RowForObject DEF TakeOver
<1>10. CASE CreateFile(s)
  <2>1. scan[s].pc = "createFile"
    BY <1>10 DEF CreateFile, At
  <2>2. Key(s) = KeyOf(scan[s])
    BY <2>1, AtWork
  <2>3. PICK i \in Ids : Insert(i, File(FileName(Key(s)), scan[s].parent, Key(s), Size(s)))
    BY <1>10 DEF CreateFile
  <2> DEFINE r == File(FileName(Key(s)), scan[s].parent, Key(s), Size(s))
  <2>4. r.key = Key(s) /\ rows' = [rows EXCEPT ![i] = r]
    BY <2>3 DEF Insert, File, BlankRow
  <2> HIDE DEF r
  <2>5. Exempt(Key(s)) \/ Tracking(Key(s)) \subseteq {i}
    BY <1>0, <2>1, <2>2 DEF LookedUp, Looking
  <2> QED
    BY <1>10, <2>1, <2>4, <2>5, RowForObject DEF CreateFile
<1> QED
  BY <1>1, <1>2, <1>3, <1>4, <1>5, <1>6, <1>7, <1>8, <1>9, <1>10 DEF Step

\* A step of others that gives no object a row, unless the object is exempt.
LEMMA NoNewRow ==
  ASSUME TypeInv, RowInv, scan' = scan, uploads' = uploads, revived \subseteq revived',
         \A k : Exempt(k)' \/ Tracking(k)' \subseteq Tracking(k),
         \A k \in Internal : Unknown(k) => Unknown(k)'
  PROVE  RowInv'
<1>1. \A k : Exempt(k) => Exempt(k)'
  BY DEF Exempt
<1>2. ASSUME NEW k \in Internal, uploads'[k] = "none" PROVE Unknown(k)'
  BY <1>2 DEF RowInv
<1>3. ASSUME NEW s \in Scanners PROVE LookedUp(scan[s])'
  <2>1. PICK k : k = KeyOf(scan[s])
    OBVIOUS
  <2>2. KeyOf(scan[s])' = k
    BY <2>1 DEF KeyOf
  <2>3. LookedUp(scan[s])
    BY DEF RowInv
  <2>4. Exempt(k)' \/ Tracking(k)' \subseteq Tracking(k)
    OBVIOUS
  <2>5. Exempt(KeyOf(scan[s]))' = Exempt(k)' /\ Tracking(KeyOf(scan[s]))' = Tracking(k)'
    BY <2>2 DEF Exempt, Tracking, LiveIds
  <2> QED
    BY <1>1, <2>1, <2>2, <2>3, <2>4, <2>5 DEF LookedUp
<1>4. ASSUME NEW k \in Keys PROVE OneRow(k)'
  BY <1>1 DEF RowInv, OneRow
<1> QED
  BY <1>2, <1>3, <1>4 DEF RowInv

\* One that takes rows out of the drive.
LEMMA Shrink ==
  ASSUME TypeInv, RowInv, scan' = scan, uploads' = uploads, requestVars' = requestVars,
         \A i \in Ids : /\ rows'[i].key = rows[i].key
                        /\ rows'[i].state = "live" => rows[i].state = "live",
         \A k \in Internal : bucket[k] = 0 => bucket'[k] = 0
  PROVE  RowInv'
<1>1. revived' = revived /\ held' = held
  BY DEF requestVars
<1>2. \A k : Tracking(k)' \subseteq Tracking(k)
  BY DEF Tracking, LiveIds
<1>3. \A k \in Internal : Unknown(k) => Unknown(k)'
  BY <1>1 DEF Unknown
<1> QED
  BY <1>1, <1>2, <1>3, NoNewRow

\* One request reads a row, asks for its object, and saves what it has read.
LEMMA RequestRows ==
  ASSUME TypeInv, RowInv, NEW r \in Requests, Request(r)
  PROVE  RowInv'
<1>1. held[r] \in Held /\ held \in [Requests -> Held]
  BY DEF TypeInv, TypeOK
<1>2. ASSUME rows' = rows, bucket' = bucket, uploads' = uploads, scan' = scan, revived' = revived,
             \A x \in Requests, k \in Internal : Unknown(k) => held'[x].snap.key # k
      PROVE  RowInv'
  <2>1. \A k : Tracking(k)' = Tracking(k)
    BY <1>2 DEF Tracking, LiveIds
  <2>2. \A k \in Internal : Unknown(k) => Unknown(k)'
    BY <1>2 DEF Unknown
  <2> QED
    BY <1>2, <2>1, <2>2, NoNewRow
<1>3. ASSUME NEW i \in Ids, NEW label, NEW row, Read(r, i, label, row), row.key = rows[i].key
      PROVE  RowInv'
  <2>1. held' = [held EXCEPT ![r] = [pc |-> label, id |-> i, snap |-> row]]
    BY <1>3 DEF Read
  <2>2. \A x \in Requests : held'[x].snap.key \in {held[x].snap.key, rows[i].key}
    BY <1>1, <1>3, <2>1
  <2>3. \A x \in Requests, k \in Internal : Unknown(k) => held'[x].snap.key # k
    BY <2>2 DEF Unknown
  <2> QED
    BY <1>2, <1>3, <2>3 DEF Read
<1>4. CASE HeadObject(r)
  <2>1. PICK z : held' = [held EXCEPT ![r].pc = "save", ![r].snap.size = z]
    BY <1>1, <1>4 DEF HeadObject
  <2>2. \A x \in Requests : held'[x].snap.key = held[x].snap.key
    BY <1>1, <2>1 DEF Held, Row
  <2>3. \A x \in Requests, k \in Internal : Unknown(k) => held'[x].snap.key # k
    BY <2>2 DEF Unknown
  <2> QED
    BY <1>2, <1>4, <2>3 DEF HeadObject
<1>5. CASE SaveItem(r)
  <2>1. PICK i \in Ids : i = held[r].id
    BY <1>5 DEF SaveItem, TypeInv, HeldInv
  <2>2. PICK row \in Row : row = held[r].snap
    BY <1>1 DEF Held
  <2>3. \A j \in Ids : rows'[j] = IF j = i THEN row ELSE rows[j]
    BY <1>5, <2>1, <2>2 DEF SaveItem, Save, TypeInv, TypeOK
  <2>4. revived' = IF Lost(i, row) THEN revived \cup {row.key} ELSE revived
    BY <1>5, <2>1, <2>2 DEF SaveItem
  <2>5. scan' = scan /\ uploads' = uploads /\ bucket' = bucket
    BY <1>5 DEF SaveItem
  <2>6. ASSUME NEW k PROVE Exempt(k)' \/ Tracking(k)' \subseteq Tracking(k)
    <3>1. ASSUME NEW j \in Tracking(k)', j \notin Tracking(k) PROVE k \in revived'
      <4>1. j = i /\ row.key = k /\ i \notin Tracking(k)
        BY <2>3, <3>1 DEF Tracking, LiveIds
      <4>2. Lost(i, row)
        BY <4>1 DEF Lost, Tracking, LiveIds
      <4> QED
        BY <2>4, <4>1, <4>2
    <3> QED
      BY <3>1 DEF Exempt
  <2>7. ASSUME NEW k \in Internal, Unknown(k) PROVE Unknown(k)'
    <3>1. row.key # k
      BY <2>2, <2>7 DEF Unknown
    <3>2. \A j \in Ids : rows'[j].key # k
      BY <2>3, <2>7, <3>1 DEF Unknown
    <3>3. NothingHeld.snap.key # k
      BY InternalKeys DEF NothingHeld, BlankRow
    <3>4. held' = [held EXCEPT ![r] = NothingHeld]
      BY <1>5 DEF SaveItem
    <3>5. \A x \in Requests : held'[x].snap.key # k
      BY <1>1, <2>7, <3>3, <3>4 DEF Unknown
    <3> QED
      BY <2>5, <2>7, <3>2, <3>5 DEF Unknown
  <2> QED
    BY <2>4, <2>5, <2>6, <2>7, NoNewRow
<1> QED
  BY <1>3, <1>4, <1>5, ReadOf DEF Request

\* The row or the object of an upload: nothing has looked for it yet, or it is
\* the row that comes second.
LEMMA UploadGrows ==
  ASSUME TypeInv, RowInv, scan' = scan, requestVars' = requestVars, NEW k \in Internal, NEW to,
         uploads' = [uploads EXCEPT ![k] = to], to # "none", uploads[k] # "completed",
         \A j \in Keys : j # k => Tracking(j)' \subseteq Tracking(j),
         \A i \in Ids : rows'[i].key \in {rows[i].key, k},
         \A j \in Keys : j # k => bucket'[j] = bucket[j],
         \/ to = "completed"
         \/ Tracking(k)' \subseteq Tracking(k)
         \/ uploads[k] = "none" /\ \A i, j \in Tracking(k)' : i = j
  PROVE  RowInv'
<1>1. \A j \in Internal : uploads'[j] = IF j = k THEN to ELSE uploads[j]
  BY DEF TypeInv, TypeOK
<1>2. \A j : Exempt(j) => Exempt(j)'
  BY <1>1 DEF Exempt, requestVars
<1>3. ASSUME NEW j \in Internal, uploads'[j] = "none" PROVE Unknown(j)'
  <2>1. j # k /\ Unknown(j) /\ j \in Keys
    BY <1>1, <1>3, InternalKeys DEF RowInv
  <2> QED
    BY <2>1 DEF Unknown, requestVars
<1>4. ASSUME NEW s \in Scanners PROVE LookedUp(scan[s])'
  <2>1. LookedUp(scan[s])
    BY DEF RowInv
  <2>2. CASE scan[s].pc \notin Looking \cup {"refresh"}
    BY <2>2 DEF LookedUp
  <2>3. CASE scan[s].pc \in Looking \cup {"refresh"}
    <3>1. PICK j \in Keys : j = KeyOf(scan[s]) /\ j \in DOMAIN scan[s].page
      BY <2>3, AtWork DEF Looking
    <3>2. KeyOf(scan[s])' = j
      BY <3>1 DEF KeyOf
    <3>3. Exempt(j)' \/ Tracking(j)' \subseteq Tracking(j)
      <4>1. CASE j # k
        BY <4>1
      <4>2. CASE j = k
        <5>1. uploads[k] # "none"
          BY <3>1, <4>2 DEF RowInv, Unknown
        <5> QED
          BY <1>1, <4>2, <5>1 DEF Exempt
      <4> QED
        BY <4>1, <4>2
    <3>4. Exempt(KeyOf(scan[s]))' = Exempt(j)' /\ Tracking(KeyOf(scan[s]))' = Tracking(j)'
      BY <3>2 DEF Exempt, Tracking, LiveIds
    <3> QED
      BY <1>2, <2>1, <3>1, <3>2, <3>3, <3>4 DEF LookedUp
  <2> QED
    BY <2>2, <2>3
<1>5. ASSUME NEW j \in Keys PROVE OneRow(j)'
  <2>1. OneRow(j)
    BY DEF RowInv
  <2>2. CASE j # k
    BY <1>2, <2>1, <2>2 DEF OneRow
  <2>3. CASE j = k /\ Tracking(k)' \subseteq Tracking(k)
    BY <1>2, <2>1, <2>3 DEF OneRow
  <2>4. CASE j = k /\ to = "completed"
    BY <1>1, <2>4 DEF OneRow, Exempt
  <2>5. CASE j = k /\ \A a, b \in Tracking(k)' : a = b
    BY <2>5 DEF OneRow
  <2> QED
    BY <2>2, <2>3, <2>4, <2>5
<1> QED
  BY <1>3, <1>4, <1>5 DEF RowInv

LEMMA EditRows ==
  ASSUME TypeInv, RowInv, Edit
  PROVE  RowInv'
<1>1. scan' = scan /\ requestVars' = requestVars
  BY DEF Edit, Trash, Purge, Put, Presigned, Multipart, UploadRow, UploadObject, Edited
<1>2. ASSUME NEW i \in Ids, Trash(i) PROVE RowInv'
  <2>1. uploads' = uploads /\ bucket' = bucket
    BY <1>2 DEF Trash
  <2>2. ASSUME NEW j \in Ids
        PROVE  rows'[j].key = rows[j].key /\ (rows'[j].state = "live" => rows[j].state = "live")
    BY <1>2 DEF Trash, TypeInv, TypeOK, Row
  <2> QED
    BY <1>1, <2>1, <2>2, Shrink
<1>3. ASSUME NEW i \in Ids, Purge(i) PROVE RowInv'
  <2>1. uploads' = uploads /\ \A k \in Internal : bucket[k] = 0 => bucket'[k] = 0
    BY <1>3, InternalKeys DEF Purge
  <2>2. ASSUME NEW j \in Ids
        PROVE  rows'[j].key = rows[j].key /\ (rows'[j].state = "live" => rows[j].state = "live")
    BY <1>3 DEF Purge, TypeInv, TypeOK, Row
  <2> QED
    BY <1>1, <2>1, <2>2, Shrink
<1>4. ASSUME NEW k \in Keys, NEW z \in Sizes \cup {0}, Put(k, z) PROVE RowInv'
  <2>1. uploads' = uploads /\ rows' = rows /\ \A j \in Internal : bucket'[j] = bucket[j]
    BY <1>4, InternalKeys DEF Put, TypeInv, TypeOK
  <2> QED
    BY <1>1, <2>1, Shrink
<1>5. ASSUME NEW k \in Internal, NEW from, NEW to, UploadRow(k, from, to), from # "completed", to # "none",
             from = "none" \/ to = "completed"
      PROVE  RowInv'
  <2>0. PICK i \in Ids : \E x : x.key = k /\ rows' = [rows EXCEPT ![i] = x]
    BY <1>5 DEF UploadRow, Insert, File, BlankRow
  <2>1. PICK r : r.key = k /\ rows' = [rows EXCEPT ![i] = r]
    BY <2>0
  <2>2. \A j \in Ids : rows'[j] = IF j = i THEN r ELSE rows[j]
    BY <2>1 DEF TypeInv, TypeOK
  <2>3. \A j \in Keys : j # k => Tracking(j)' \subseteq Tracking(j)
    BY <2>1, <2>2 DEF Tracking, LiveIds
  <2>4. \A j \in Ids : rows'[j].key \in {rows[j].key, k}
    BY <2>1, <2>2
  <2>5. from = "none" => \A a, b \in Tracking(k)' : a = b
    <3>1. SUFFICES ASSUME from = "none" PROVE Tracking(k)' \subseteq {i}
      OBVIOUS
    <3>2. Unknown(k)
      BY <1>5, <3>1 DEF RowInv, UploadRow
    <3> QED
      BY <2>2, <3>2 DEF Unknown, Tracking, LiveIds
  <2>6. uploads[k] = from /\ uploads' = [uploads EXCEPT ![k] = to] /\ bucket' = bucket
    BY <1>5 DEF UploadRow
  <2> QED
    BY <1>1, <1>5, <2>3, <2>4, <2>5, <2>6, UploadGrows
<1>6. ASSUME NEW k \in Internal, NEW from, NEW to, UploadObject(k, from, to), from # "completed", to # "none"
      PROVE  RowInv'
  <2>1. uploads[k] = from /\ uploads' = [uploads EXCEPT ![k] = to] /\ rows' = rows
    BY <1>6 DEF UploadObject
  <2>2. \A j \in Keys : j # k => bucket'[j] = bucket[j]
    BY <1>6 DEF UploadObject, TypeInv, TypeOK
  <2>3. \A j : Tracking(j)' = Tracking(j)
    BY <2>1 DEF Tracking, LiveIds
  <2>4. \A i \in Ids : rows'[i].key \in {rows[i].key, k}
    BY <2>1
  <2> QED
    BY <1>1, <1>6, <2>1, <2>2, <2>3, <2>4, UploadGrows
<1>7. ASSUME NEW k \in Internal, Presigned(k) \/ Multipart(k) PROVE RowInv'
  BY <1>5, <1>6, <1>7 DEF Presigned, Multipart
<1> QED
  BY <1>2, <1>3, <1>4, <1>7 DEF Edit

LEMMA BeginRows ==
  ASSUME TypeInv, RowInv, Alone, NEW s \in Scanners, NEW r \in Ids \cup {Top}, Begin(s, r)
  PROVE  RowInv'
<1> DEFINE q == [Idle EXCEPT !.pc = "list", !.root = r]
<1>1. /\ Becomes(s, q) /\ rows' = rows /\ bucket' = bucket /\ uploads' = uploads
      /\ requestVars' = requestVars
  BY DEF Begin
<1>2. q.pc = "list" /\ DOMAIN q.page = {} /\ q.snap.key = NoKey
  BY DEF Idle, BlankRow
<1> HIDE DEF q
<1>3. LookedUp(q)
  BY <1>2 DEF LookedUp, Looking
<1> QED
  BY <1>1, <1>2, <1>3, InternalKeys, QuietStep

LEMMA RowInvStep ==
  ASSUME TypeInv, RowInv, Alone, [Next]_vars
  PROVE  RowInv'
<1>1. CASE UNCHANGED vars
  <2>1. /\ scan' = scan /\ uploads' = uploads /\ rows' = rows /\ bucket' = bucket
        /\ requestVars' = requestVars
    BY <1>1 DEF vars, requestVars
  <2> QED
    BY <2>1, Shrink
<1>2. CASE Edit
  BY <1>2, EditRows
<1>3. ASSUME NEW s \in Scanners, Step(s) PROVE RowInv'
  BY <1>3, ScanRows
<1>4. ASSUME NEW s \in Scanners, Start(s) PROVE RowInv'
  BY <1>4, BeginRows DEF Start, StartScan, StartScanInto
<1>5. ASSUME NEW r \in Requests, Request(r) PROVE RowInv'
  BY <1>5, RequestRows
<1> QED
  BY <1>1, <1>2, <1>3, <1>4, <1>5 DEF Next

LEMMA RowInvAlways ==
  ASSUME Alone
  PROVE  Spec => [](TypeInv /\ RowInv)
<1>1. Init => RowInv
  BY RowInvInit
<1>2. TypeInv /\ RowInv /\ [Next]_vars => RowInv'
  BY RowInvStep
<1> QED
  BY <1>1, <1>2, TypeInvAlways, PTL DEF Spec

\* "sync must not duplicate it": with one scan at a time no object gets two live
\* rows, whatever edits, deletions and uploads a scan meets, and however long
\* requests hold the rows they save.  Two kinds of object are excepted: that of a
\* multipart upload, whose row may come after a scan saw it, and one whose row
\* lost it between the read and the Save of a request, which gives it back.
THEOREM OneRowEach ==
  ASSUME Alone
  PROVE  Spec => []OneRowPerObject
<1>1. ASSUME RowInv, TypeInv PROVE OneRowPerObject
  <2>1. ASSUME NEW k \in Keys, ~Exempt(k) PROVE Cardinality(Tracking(k)) <= 1
    <3>1. \A i, j \in Tracking(k) : i = j
      BY <1>1, <2>1 DEF RowInv, OneRow
    <3>2. CASE Tracking(k) = {}
      BY <3>2, FS_EmptySet
    <3>3. CASE Tracking(k) # {}
      <4>1. PICK i \in Tracking(k) : TRUE
        BY <3>3
      <4>2. Tracking(k) = {i}
        BY <3>1, <4>1
      <4>3. Cardinality({i}) = 1
        BY FS_Singleton
      <4> QED
        BY <4>2, <4>3
    <3> QED
      BY <3>2, <3>3
  <2> QED
    BY <2>1 DEF OneRowPerObject, Exempt
<1>2. TypeInv /\ RowInv => OneRowPerObject
  BY <1>1
<1> QED
  BY <1>2, RowInvAlways, PTL

-----------------------------------------------------------------------------
(* What a scan has reached, when nothing has disturbed it since it began.     *)

\* The first d folders of a key lead from the top to p.
Way(k, d, p) ==
  \E f \in [0..d -> Ids \cup {Top}] :
    /\ f[0] = Top /\ f[d] = p
    /\ \A e \in 1..d : /\ f[e] = FirstOf(Named("folder", Folders(k)[e], f[e - 1]))
                       /\ f[e] # NoRow

\* A scan that meets the key again changes nothing.
Settled(k) ==
  IF Tracking(k) # {}
    THEN rows[FirstOf(Tracking(k))].size = bucket[k]
    ELSE k \in DirMarkers /\ \E p : Way(k, Len(Folders(k)), p)

\* What the scan holds is what is there.
Current(q) ==
  /\ q.root = Top
  /\ \A k \in DOMAIN q.page : q.page[k] = bucket[k]
  /\ q.pc \in {"list", "object", "lookup"} => q.depth = 0
  /\ q.pc = "refresh" => q.id = FirstOf(Tracking(KeyOf(q)))
  /\ q.pc \in {"refresh", "takeOver"} => q.id \in LiveIds /\ q.snap = rows[q.id]
  /\ q.pc \in Looking => Tracking(KeyOf(q)) = {}
  /\ q.pc \in {"folder", "createFolder"} =>
       q.depth <= Len(Folders(KeyOf(q))) /\ Way(KeyOf(q), q.depth, q.parent)
  /\ q.pc = "createFolder" =>
       Named("folder", Folders(KeyOf(q))[q.depth + 1], q.parent) = {}

\* An object is on the page, done with, or still to be listed.
Covered(q, k) ==
  \/ k \in DOMAIN q.page
  \/ Settled(k)
  \/ k > q.token /\ (q.pc = "list" \/ q.more)

FreshInv ==
  fresh # "no" =>
    /\ \A s \in Scanners : Current(scan[s])
    /\ fresh = "scanning" =>
         \A s \in Scanners : scan[s].pc # "idle" /\ \A k \in Objects : Covered(scan[s], k)
    /\ fresh = "yes" => \A k \in Objects : Settled(k)

\* There is one way at most.
LEMMA WayUnique ==
  ASSUME NEW k, NEW d \in Nat, NEW g \in Nat, d <= g, NEW p, NEW z, Way(k, d, p), Way(k, g, z)
  PROVE  /\ d = g => p = z
         /\ d < g => FirstOf(Named("folder", Folders(k)[d + 1], p)) # NoRow
<1>1. PICK f \in [0..d -> Ids \cup {Top}] :
        /\ f[0] = Top /\ f[d] = p
        /\ \A e \in 1..d : f[e] = FirstOf(Named("folder", Folders(k)[e], f[e - 1])) /\ f[e] # NoRow
  BY DEF Way
<1>2. PICK h \in [0..g -> Ids \cup {Top}] :
        /\ h[0] = Top /\ h[g] = z
        /\ \A e \in 1..g : h[e] = FirstOf(Named("folder", Folders(k)[e], h[e - 1])) /\ h[e] # NoRow
  BY DEF Way
<1> DEFINE D == {e \in 0..d : f[e] # h[e]}
<1>3. D = {}
  <2>1. SUFFICES ASSUME D # {} PROVE FALSE
    OBVIOUS
  <2>2. PICK e \in D : \A c \in D : e <= c
    <3>1. D \in SUBSET Nat
      OBVIOUS
    <3> HIDE DEF D
    <3> QED
      BY <2>1, <3>1, LeastExists
  <2>3. e \in 0..d /\ e # 0 /\ f[e] # h[e]
    BY <1>1, <1>2
  <2>4. e \in 1..d /\ e \in 1..g /\ e - 1 \in 0..d /\ e - 1 \notin D
    BY <2>2, <2>3
  <2>5. f[e - 1] = h[e - 1]
    BY <2>4
  <2> QED
    BY <1>1, <1>2, <2>3, <2>4, <2>5
<1>4. f[d] = h[d]
  BY <1>3
<1>5. CASE d < g
  <2>1. d + 1 \in 1..g /\ (d + 1) - 1 = d
    BY <1>5
  <2>2. h[d + 1] = FirstOf(Named("folder", Folders(k)[d + 1], h[d])) /\ h[d + 1] # NoRow
    BY <1>2, <2>1
  <2> QED
    BY <1>1, <1>4, <1>5, <2>2
<1> QED
  BY <1>1, <1>2, <1>4, <1>5

\* A way goes on while no folder of it gets a rival.
LEMMA WayStays ==
  ASSUME NEW k, NEW d \in Nat, NEW p, Way(k, d, p),
         \A n, x : Named("folder", n, x) # {} => Named("folder", n, x)' = Named("folder", n, x)
  PROVE  Way(k, d, p)'
<1>1. PICK f \in [0..d -> Ids \cup {Top}] :
        /\ f[0] = Top /\ f[d] = p
        /\ \A e \in 1..d : f[e] = FirstOf(Named("folder", Folders(k)[e], f[e - 1])) /\ f[e] # NoRow
  BY DEF Way
<1>2. ASSUME NEW e \in 1..d
      PROVE  f[e] = FirstOf(Named("folder", Folders(k)[e], f[e - 1]))' /\ f[e] # NoRow
  <2>1. Named("folder", Folders(k)[e], f[e - 1]) # {}
    BY <1>1 DEF FirstOf
  <2>2. Named("folder", Folders(k)[e], f[e - 1])' = Named("folder", Folders(k)[e], f[e - 1])
    BY <2>1
  <2> QED
    BY <1>1, <2>2 DEF FirstOf
<1> QED
  BY <1>1, <1>2 DEF Way

LEMMA WayExtends ==
  ASSUME NEW k, NEW d \in Nat, NEW p, NEW i \in Ids, Way(k, d, p),
         i = FirstOf(Named("folder", Folders(k)[d + 1], p)), i # NoRow
  PROVE  Way(k, d + 1, i)
<1>1. PICK f \in [0..d -> Ids \cup {Top}] :
        /\ f[0] = Top /\ f[d] = p
        /\ \A e \in 1..d : f[e] = FirstOf(Named("folder", Folders(k)[e], f[e - 1])) /\ f[e] # NoRow
  BY DEF Way
<1> DEFINE h == [e \in 0..(d + 1) |-> IF e = d + 1 THEN i ELSE f[e]]
<1>2. h \in [0..(d + 1) -> Ids \cup {Top}] /\ h[0] = Top /\ h[d + 1] = i
  BY <1>1
<1>3. ASSUME NEW e \in 1..(d + 1)
      PROVE  h[e] = FirstOf(Named("folder", Folders(k)[e], h[e - 1])) /\ h[e] # NoRow
  <2>1. CASE e = d + 1
    <3>1. h[e - 1] = p /\ h[e] = i
      BY <1>1, <2>1
    <3> QED
      BY <2>1, <3>1
  <2>2. CASE e # d + 1
    <3>1. e \in 1..d /\ h[e] = f[e] /\ h[e - 1] = f[e - 1]
      BY <2>2
    <3> QED
      BY <1>1, <3>1
  <2> QED
    BY <2>1, <2>2
<1> HIDE DEF h
<1> QED
  BY <1>2, <1>3 DEF Way

\* The same of the rows after a step.
LEMMA WayExtendsNext ==
  ASSUME NEW k, NEW d \in Nat, NEW p, NEW i \in Ids, Way(k, d, p)',
         i = FirstOf(Named("folder", Folders(k)[d + 1], p))', i # NoRow
  PROVE  Way(k, d + 1, i)'
<1>1. PICK f \in [0..d -> Ids \cup {Top}] :
        /\ f[0] = Top /\ f[d] = p
        /\ \A e \in 1..d : f[e] = FirstOf(Named("folder", Folders(k)[e], f[e - 1]))' /\ f[e] # NoRow
  BY DEF Way
<1> DEFINE h == [e \in 0..(d + 1) |-> IF e = d + 1 THEN i ELSE f[e]]
<1>2. h \in [0..(d + 1) -> Ids \cup {Top}] /\ h[0] = Top /\ h[d + 1] = i
  BY <1>1
<1>3. ASSUME NEW e \in 1..(d + 1)
      PROVE  h[e] = FirstOf(Named("folder", Folders(k)[e], h[e - 1]))' /\ h[e] # NoRow
  <2>1. CASE e = d + 1
    <3>1. h[e - 1] = p /\ h[e] = i
      BY <1>1, <2>1
    <3> HIDE DEF h
    <3> QED
      BY <2>1, <3>1
  <2>2. CASE e # d + 1
    <3>1. e \in 1..d /\ h[e] = f[e] /\ h[e - 1] = f[e - 1]
      BY <2>2
    <3> HIDE DEF h
    <3> QED
      BY <1>1, <3>1
  <2> QED
    BY <2>1, <2>2
<1> HIDE DEF h
<1> QED
  BY <1>2, <1>3 DEF Way

LEMMA WayBegins == ASSUME NEW k PROVE Way(k, 0, Top)
<1> DEFINE f == [e \in 0..0 |-> Top]
<1>1. f \in [0..0 -> Ids \cup {Top}] /\ f[0] = Top /\ 1..0 = {}
  OBVIOUS
<1> HIDE DEF f
<1> QED
  BY <1>1 DEF Way

LEMMA SameRows ==
  ASSUME rows' = rows, bucket' = bucket
  PROVE  /\ \A k : Tracking(k)' = Tracking(k)
         /\ \A t, n, p : Named(t, n, p)' = Named(t, n, p)
         /\ \A k, d, p : Way(k, d, p)' = Way(k, d, p)
         /\ \A k : Settled(k)' = Settled(k)
<1>1. \A k : Tracking(k)' = Tracking(k)
  BY DEF Tracking, LiveIds
<1>2. \A t, n, p : Named(t, n, p)' = Named(t, n, p)
  BY DEF Named, LiveIds
<1>3. ASSUME NEW k, NEW d, NEW p PROVE Way(k, d, p)' = Way(k, d, p)
  <2>1. \A n, x : FirstOf(Named("folder", n, x))' = FirstOf(Named("folder", n, x))
    BY <1>2 DEF FirstOf
  <2>2. ASSUME NEW f
        PROVE  (\A e \in 1..d : f[e] = FirstOf(Named("folder", Folders(k)[e], f[e - 1]))' /\ f[e] # NoRow)
                 <=> (\A e \in 1..d : f[e] = FirstOf(Named("folder", Folders(k)[e], f[e - 1])) /\ f[e] # NoRow)
    BY <2>1
  <2> QED
    BY <2>2, Zenon DEF Way
<1>4. ASSUME NEW k PROVE Settled(k)' = Settled(k)
  <2>1. Tracking(k)' = Tracking(k) /\ FirstOf(Tracking(k))' = FirstOf(Tracking(k))
    BY <1>1 DEF FirstOf
  <2>2. \A p : Way(k, Len(Folders(k)), p)' = Way(k, Len(Folders(k)), p)
    BY <1>3
  <2> HIDE DEF Way
  <2> QED
    BY <2>1, <2>2 DEF Settled
<1> QED
  BY <1>1, <1>2, <1>3, <1>4

\* A step of a scan that leaves the rows alone.
LEMMA QuietFresh ==
  ASSUME TypeInv, Alone, NEW s \in Scanners, NEW q, Becomes(s, q),
         rows' = rows, bucket' = bucket, Current(q),
         fresh' = "scanning" => q.pc # "idle" /\ \A k \in Objects : Covered(q, k),
         fresh' = "yes" => \A k \in Objects : Settled(k)
  PROVE  FreshInv'
<1>1. \A t \in Scanners : t = s /\ scan'[t] = q
  BY OnlyOne
<1>2. \A k : Settled(k)' = Settled(k)
  BY SameRows
<1>3. Objects' = Objects
  BY DEF Objects
<1>4. PICK key : key = KeyOf(q)
  OBVIOUS
<1>5. ASSUME NEW t \in Scanners PROVE Current(scan[t])'
  <2>1. scan'[t] = q /\ KeyOf(scan[t])' = key
    BY <1>1, <1>4 DEF KeyOf
  <2>2. /\ Tracking(key)' = Tracking(key) /\ LiveIds' = LiveIds
        /\ Named("folder", Folders(key)[q.depth + 1], q.parent)' = Named("folder", Folders(key)[q.depth + 1], q.parent)
        /\ Way(key, q.depth, q.parent)' = Way(key, q.depth, q.parent)
    BY SameRows DEF LiveIds
  <2>3. Tracking(KeyOf(scan[t]))' = Tracking(key)
    BY <2>1, <2>2 DEF Tracking, LiveIds
  <2>4. Way(KeyOf(scan[t]), scan[t].depth, scan[t].parent)' = Way(key, q.depth, q.parent)
    BY <2>1, <2>2 DEF Way, Named, LiveIds, FirstOf
  <2>5. Named("folder", Folders(KeyOf(scan[t]))[scan[t].depth + 1], scan[t].parent)'
          = Named("folder", Folders(key)[q.depth + 1], q.parent)
    BY <2>1, <2>2 DEF Named, LiveIds
  <2>6. FirstOf(Tracking(KeyOf(scan[t])))' = FirstOf(Tracking(key))
    BY <2>3 DEF FirstOf
  <2> QED
    BY <1>4, <2>1, <2>2, <2>3, <2>4, <2>5, <2>6 DEF Current
<1>6. ASSUME fresh' = "scanning", NEW t \in Scanners
      PROVE  scan'[t].pc # "idle" /\ \A k \in Objects' : Covered(scan[t], k)'
  <2>1. scan'[t] = q
    BY <1>1
  <2>2. ASSUME NEW k \in Objects' PROVE Covered(scan[t], k)'
    <3>1. Covered(q, k)
      BY <1>3, <1>6
    <3>2. Settled(k)' = Settled(k)
      BY <1>2
    <3> QED
      BY <2>1, <3>1, <3>2 DEF Covered
  <2> QED
    BY <1>6, <2>1, <2>2
<1>7. ASSUME fresh' = "yes", NEW k \in Objects' PROVE Settled(k)'
  BY <1>2, <1>3, <1>7
<1> QED
  BY <1>5, <1>6, <1>7 DEF FreshInv

\* A scan that has done with its object, the object being settled.
LEMMA DoneFresh ==
  ASSUME TypeInv, FreshInv, Alone, NEW s \in Scanners, fresh # "no", fresh' = fresh,
         scan[s].pc # "list", NextObject(s), bucket' = bucket, NEW key, key = Key(s), Settled(key)',
         \A k \in Objects : k # key /\ Settled(k) => Settled(k)'
  PROVE  FreshInv'
<1>1. PICK q : Becomes(s, q) /\ q = scan'[s]
  <2>1. PICK q : Becomes(s, q)
    BY DEF NextObject
  <2>2. scan'[s] = q
    BY <2>1, OnlyOne
  <2> QED
    BY <2>1, <2>2
<1>2. /\ q.pc = "object" /\ q.depth = 0 /\ q.root = Top
      /\ DOMAIN q.page \subseteq DOMAIN scan[s].page
      /\ \A k \in DOMAIN q.page : q.page[k] = scan[s].page[k]
      /\ DOMAIN scan[s].page \subseteq DOMAIN q.page \cup {Key(s)}
      /\ q.token = scan[s].token /\ q.more = scan[s].more
  <2>1. scan[s] \in Scan /\ scan[s].root = Top
    BY DEF TypeInv, TypeOK, FreshInv, Current
  <2>2. q.depth = 0
    <3> DEFINE x == [scan[s] EXCEPT !.pc = "object", !.id = NoRow, !.snap = BlankRow,
                                    !.parent = Top, !.depth = 0,
                                    !.page = Restrict(@, DOMAIN @ \ {Key(s)})]
    <3>1. x.depth = 0
      BY <2>1 DEF Scan
    <3>2. Becomes(s, x)
      BY DEF NextObject
    <3> HIDE DEF x
    <3>3. scan'[s] = x
      BY <3>2, OnlyOne
    <3> QED
      BY <1>1, <3>1, <3>3
  <2> QED
    BY <1>1, <2>1, <2>2, NextHolds
<1>3. \A t \in Scanners : t = s /\ scan'[t] = q
  BY <1>1, OnlyOne
<1>4. Objects' = Objects
  BY DEF Objects
<1>5. ASSUME NEW t \in Scanners PROVE Current(scan[t])'
  <2>1. \A k \in DOMAIN q.page : q.page[k] = bucket'[k]
    BY <1>2 DEF FreshInv, Current
  <2> QED
    BY <1>2, <1>3, <2>1 DEF Current, Looking
<1>6. ASSUME fresh' = "scanning", NEW t \in Scanners
      PROVE  scan'[t].pc # "idle" /\ \A k \in Objects' : Covered(scan[t], k)'
  <2>0. scan'[t] = q
    BY <1>3
  <2>1. ASSUME NEW k \in Objects PROVE Covered(scan[t], k)'
    <3>1. Covered(scan[s], k) /\ scan[s].pc # "list"
      BY <1>6 DEF FreshInv
    <3>2. CASE k \in DOMAIN scan[s].page
      <4>1. k \in DOMAIN q.page \/ Settled(k)'
        BY <1>2, <3>2
      <4> QED
        BY <2>0, <4>1 DEF Covered
    <3>3. CASE Settled(k)
      <4>1. Settled(k)'
        BY <3>3
      <4> QED
        BY <4>1 DEF Covered
    <3>4. CASE k > scan[s].token /\ scan[s].more
      BY <1>2, <2>0, <3>4 DEF Covered
    <3> QED
      BY <3>1, <3>2, <3>3, <3>4 DEF Covered
  <2> QED
    BY <1>2, <1>3, <1>4, <2>1
<1>7. ASSUME fresh' = "yes", NEW k \in Objects' PROVE Settled(k)'
  <2>1. Settled(k) /\ k \in Objects
    BY <1>4, <1>7 DEF FreshInv
  <2>2. CASE k = key
    BY <2>2
  <2>3. CASE k # key
    BY <2>1, <2>3
  <2> QED
    BY <2>2, <2>3
<1> QED
  BY <1>5, <1>6, <1>7 DEF FreshInv

\* The ways and the other objects stay settled.
LEMMA SettledStays ==
  ASSUME NEW k, Settled(k), bucket' = bucket, Tracking(k)' = Tracking(k),
         \A i \in Tracking(k) : rows'[i].size = rows[i].size,
         k \in Keys, TypeInv,
         \A n, x : Named("folder", n, x) # {} => Named("folder", n, x)' = Named("folder", n, x)
  PROVE  Settled(k)'
<1>1. CASE Tracking(k) # {}
  <2>1. Tracking(k) \in SUBSET Ids
    BY DEF Tracking, LiveIds
  <2>2. FirstOf(Tracking(k)) \in Tracking(k) /\ FirstOf(Tracking(k))' = FirstOf(Tracking(k))
    <3>1. FirstOf(Tracking(k)) \in Tracking(k)
      BY <1>1, <2>1, FirstIs
    <3>2. FirstOf(Tracking(k))' = FirstOf(Tracking(k))
      BY DEF FirstOf
    <3> QED
      BY <3>1, <3>2
  <2>3. rows'[FirstOf(Tracking(k))].size = bucket'[k]
    BY <1>1, <2>2 DEF Settled
  <2> QED
    BY <1>1, <2>2, <2>3 DEF Settled
<1>2. CASE Tracking(k) = {}
  <2>1. k \in DirMarkers
    BY <1>2 DEF Settled
  <2>2. PICK p : Way(k, Len(Folders(k)), p)
    BY <1>2 DEF Settled
  <2>3. Len(Folders(k)) \in Nat
    BY PathIsNames
  <2>4. Way(k, Len(Folders(k)), p)'
    BY <2>2, <2>3, WayStays
  <2>5. \E x : Way(k, Len(Folders(k)), x)'
    BY <2>4
  <2> QED
    BY <1>2, <2>1, <2>5 DEF Settled
<1> QED
  BY <1>1, <1>2

\* A key that has just got its row is settled.
LEMMA SettledNow ==
  ASSUME NEW k, NEW i, Tracking(k)' \in SUBSET Ids, i \in Tracking(k)', \A j \in Tracking(k)' : i <= j,
         rows'[i].size = bucket'[k]
  PROVE  Settled(k)'
<1>1. PICK S \in SUBSET Ids : S = Tracking(k)'
  OBVIOUS
<1>2. FirstOf(S) = i
  <2>1. FirstOf(S) \in S /\ FirstOf(S) <= i
    BY <1>1, FirstIs, FirstIsLeast
  <2>2. i <= FirstOf(S) /\ i \in Nat /\ FirstOf(S) \in Nat
    BY <1>1, <2>1, RowAssumption
  <2> QED
    BY <2>1, <2>2
<1>3. FirstOf(Tracking(k))' = i
  BY <1>1, <1>2 DEF FirstOf
<1> QED
  BY <1>1, <1>3 DEF Settled

\* The statements of a scan.  A listing brings the next keys after the token.
LEMMA ListFresh ==
  ASSUME TypeInv, FreshInv, Alone, NEW s \in Scanners, ListObjects(s), fresh' # "no"
  PROVE  FreshInv'
<1>1. scan[s] \in Scan /\ scan[s].pc = "list" /\ DOMAIN scan[s].page = {}
  BY DEF ListObjects, At, TypeInv, TypeOK, PhaseInv, PhaseOf
<1>2. rows' = rows /\ bucket' = bucket /\ fresh # "no"
  BY DEF ListObjects, TypeInv, TypeOK
<1>3. Current(scan[s])
  BY <1>2 DEF FreshInv
<1>4. CASE Becomes(s, Idle) /\ fresh' # "scanning"
  <2>1. Current(Idle)
    BY DEF Current, Looking, Idle
  <2>2. fresh' = "yes" => \A k \in Objects : Settled(k)
    BY <1>4 DEF ListObjects, FreshInv
  <2> QED
    BY <1>2, <1>4, <2>1, <2>2, QuietFresh
<1>5. CASE ~(Becomes(s, Idle) /\ fresh' # "scanning")
  <2> DEFINE rest == {k \in Objects : k > scan[s].token}
             page == {k \in rest : Cardinality({j \in rest : j <= k}) <= PageSize}
             q == [scan[s] EXCEPT !.pc = "object", !.page = Restrict(bucket, page),
                                  !.token = IF page = {} THEN @ ELSE Max(page),
                                  !.more = page # rest]
  <2>1. Becomes(s, q) /\ fresh' = fresh
    BY <1>5 DEF ListObjects
  <2>2. page \subseteq rest
    OBVIOUS
  <2>3. ASSUME NEW k \in rest, k \notin page, page # {}
        PROVE  k > Max(page)
    <3>1. rest \in SUBSET Nat /\ IsFiniteSet(rest) /\ page \in SUBSET Nat /\ IsFiniteSet(page)
      <4>1. rest \subseteq Keys /\ page \subseteq Keys
        BY DEF Objects
      <4> HIDE DEF page, rest
      <4> QED
        BY <4>1, KeyAssumption, FS_Subset
    <3>2. Max(page) \in page
      <4> HIDE DEF page, rest
      <4> QED
        BY <2>3, <3>1, MaxIsGreatest
    <3>3. SUFFICES ASSUME ~(k > Max(page)) PROVE FALSE
      OBVIOUS
    <3>4. k \in Nat /\ Max(page) \in Nat /\ k <= Max(page)
      <4> HIDE DEF page, rest
      <4>1. k \in Nat /\ Max(page) \in Nat
        BY <3>1, <3>2
      <4> QED
        BY <3>3, <4>1
    <3> DEFINE A == {j \in rest : j <= k}
               B == {j \in rest : j <= Max(page)}
    <3>5. Cardinality(B) <= PageSize
      <4>1. \A j \in page : Cardinality({x \in rest : x <= j}) <= PageSize
        <5> HIDE DEF rest
        <5> QED
          OBVIOUS
      <4> QED
        BY <3>2, <4>1
    <3>6. ~(Cardinality(A) <= PageSize)
      <4>1. \A j \in rest : j \notin page => ~(Cardinality({x \in rest : x <= j}) <= PageSize)
        <5> HIDE DEF rest
        <5> QED
          OBVIOUS
      <4> HIDE DEF page, rest
      <4> QED
        BY <2>3, <4>1
    <3>7. A \in SUBSET B /\ IsFiniteSet(B)
      <4>1. B \in SUBSET rest
        OBVIOUS
      <4>2. IsFiniteSet(B)
        <5> HIDE DEF B, rest
        <5> QED
          BY <3>1, <4>1, FS_Subset
      <4>3. ASSUME NEW j \in A PROVE j \in B
        <5>1. j \in rest /\ j <= k /\ j \in Nat
          BY <3>1
        <5>2. j <= Max(page)
          BY <3>4, <5>1
        <5> QED
          BY <5>1, <5>2
      <4> QED
        BY <4>2, <4>3
    <3> HIDE DEF A, B, page, rest
    <3>8. Cardinality(A) <= Cardinality(B) /\ Cardinality(B) \in Nat /\ Cardinality(A) \in Nat
      BY <3>7, FS_Subset, FS_CardinalityType
    <3> QED
      BY <3>5, <3>6, <3>8, PageAssumption
  <2>4. \A k \in Objects : k \in rest <=> k > scan[s].token
    OBVIOUS
  <2> HIDE DEF page, rest
  <2>5. /\ q.pc = "object" /\ q.page = Restrict(bucket, page) /\ q.root = scan[s].root
        /\ q.depth = scan[s].depth /\ q.more = (page # rest)
        /\ q.token = IF page = {} THEN scan[s].token ELSE Max(page)
    BY <1>1 DEF Scan
  <2> HIDE DEF q
  <2>6. DOMAIN q.page = page /\ \A k \in page : q.page[k] = bucket[k]
    BY <2>5, RestrictsTo
  <2>7. Current(q)
    BY <1>1, <1>3, <2>5, <2>6 DEF Current, Looking
  <2>8. ASSUME fresh' = "scanning", NEW k \in Objects PROVE Covered(q, k)
    <3>1. Settled(k) \/ k > scan[s].token
      BY <1>1, <2>1, <2>8 DEF FreshInv, Covered
    <3>2. CASE Settled(k)
      BY <3>2 DEF Covered
    <3>3. CASE k \in rest /\ k \in page
      BY <2>6, <3>3 DEF Covered
    <3>4. CASE k \in rest /\ k \notin page
      <4>1. q.more
        BY <2>5, <3>4
      <4>2. k > q.token
        BY <2>3, <2>4, <2>5, <3>4
      <4> QED
        BY <4>1, <4>2 DEF Covered
    <3> QED
      BY <2>4, <3>1, <3>2, <3>3, <3>4
  <2>9. fresh' = "yes" => \A k \in Objects : Settled(k)
    BY <2>1 DEF FreshInv
  <2>10. q.pc # "idle"
    BY <2>5
  <2> QED
    BY <1>2, <2>1, <2>7, <2>8, <2>9, <2>10, QuietFresh
<1> QED
  BY <1>4, <1>5

LEMMA TakeFresh ==
  ASSUME TypeInv, FreshInv, Alone, NEW s \in Scanners, TakeObject(s), fresh' # "no"
  PROVE  FreshInv'
<1>1. scan[s] \in Scan /\ scan[s].pc = "object"
  BY DEF TakeObject, At, TypeInv, TypeOK
<1>2. rows' = rows /\ bucket' = bucket /\ fresh # "no"
  BY DEF TakeObject, TypeInv, TypeOK
<1>3. Current(scan[s])
  BY <1>2 DEF FreshInv
<1>4. ASSUME NEW l \in {"lookup", "list"}, Becomes(s, [scan[s] EXCEPT !.pc = l]), fresh' = fresh,
             l = "list" => scan[s].more
      PROVE  FreshInv'
  <2> DEFINE q == [scan[s] EXCEPT !.pc = l]
  <2>1. /\ q.pc = l /\ q.page = scan[s].page /\ q.token = scan[s].token /\ q.more = scan[s].more
        /\ q.root = scan[s].root /\ q.depth = scan[s].depth
    BY <1>1 DEF Scan
  <2>2. Becomes(s, q)
    BY <1>4
  <2> HIDE DEF q
  <2>3. Current(q)
    BY <1>1, <1>3, <2>1 DEF Current, Looking
  <2>4. ASSUME fresh' = "scanning", NEW k \in Objects PROVE Covered(q, k)
    <3>1. Covered(scan[s], k)
      BY <1>4, <2>4 DEF FreshInv
    <3> QED
      BY <1>1, <2>1, <3>1 DEF Covered
  <2>5. fresh' = "yes" => \A k \in Objects : Settled(k)
    BY <1>4 DEF FreshInv
  <2>6. q.pc # "idle"
    BY <2>1
  <2> QED
    BY <1>2, <2>2, <2>3, <2>4, <2>5, <2>6, QuietFresh
<1>5. CASE DOMAIN scan[s].page # {}
  BY <1>4, <1>5 DEF TakeObject
<1>6. CASE DOMAIN scan[s].page = {} /\ scan[s].more
  BY <1>4, <1>6 DEF TakeObject
<1>7. CASE DOMAIN scan[s].page = {} /\ ~scan[s].more
  <2>1. Becomes(s, Idle) /\ fresh' = "yes"
    BY <1>2, <1>7 DEF TakeObject, TypeInv, TypeOK
  <2>2. Current(Idle)
    BY DEF Current, Looking, Idle
  <2>3. ASSUME NEW k \in Objects PROVE Settled(k)
    <3>1. CASE fresh = "yes"
      BY <3>1 DEF FreshInv
    <3>2. CASE fresh = "scanning"
      <4>1. Covered(scan[s], k)
        BY <3>2 DEF FreshInv
      <4> QED
        BY <1>1, <1>7, <4>1 DEF Covered
    <3> QED
      BY <1>2, <3>1, <3>2 DEF TypeInv, TypeOK
  <2> QED
    BY <1>2, <2>1, <2>2, <2>3, QuietFresh
<1> QED
  BY <1>5, <1>6, <1>7

LEMMA LookupFresh ==
  ASSUME TypeInv, FreshInv, Alone, NEW s \in Scanners, Lookup(s), fresh' # "no"
  PROVE  FreshInv'
<1>1. scan[s] \in Scan /\ scan[s].pc = "lookup"
  BY DEF Lookup, At, TypeInv, TypeOK
<1>2. rows' = rows /\ bucket' = bucket /\ fresh' = fresh
  BY DEF Lookup
<1>3. Current(scan[s])
  BY <1>2 DEF FreshInv
<1>4. PICK key \in Keys : key = Key(s) /\ key = KeyOf(scan[s])
  BY <1>1, AtWork
<1>5. Tracking(key) \in SUBSET Ids
  BY DEF Tracking, LiveIds
<1>6. PICK q : /\ Becomes(s, q) /\ Current(q) /\ q.pc \notin {"idle", "list"}
               /\ q.page = scan[s].page /\ q.token = scan[s].token /\ q.more = scan[s].more
  <2> DEFINE i == FirstOf(Tracking(key))
  <2>1. CASE i # NoRow
    <3> DEFINE q == [scan[s] EXCEPT !.pc = "refresh", !.id = i, !.snap = rows[i]]
    <3>1. Becomes(s, q)
      BY <1>4, <2>1 DEF Lookup
    <3>2. i \in LiveIds
      BY <1>5, <2>1, FirstIs DEF Tracking
    <3> HIDE DEF i
    <3>3. /\ q.pc = "refresh" /\ q.page = scan[s].page /\ q.id = i /\ q.snap = rows[i]
          /\ q.token = scan[s].token /\ q.more = scan[s].more /\ q.root = scan[s].root
      BY <1>1 DEF Scan
    <3> HIDE DEF q
    <3>4. KeyOf(q) = key
      BY <1>4, <3>3 DEF KeyOf
    <3>5. Current(q)
      BY <1>3, <3>2, <3>3, <3>4 DEF Current, Looking, i
    <3> QED
      BY <3>1, <3>3, <3>5
  <2>2. CASE i = NoRow
    <3> DEFINE q == [scan[s] EXCEPT !.pc = "folder", !.parent = scan[s].root]
    <3>1. Becomes(s, q)
      BY <1>4, <2>2 DEF Lookup
    <3>2. Tracking(key) = {}
      BY <1>5, <2>2, FirstIs
    <3>3. /\ q.pc = "folder" /\ q.page = scan[s].page /\ q.parent = Top /\ q.depth = 0
          /\ q.token = scan[s].token /\ q.more = scan[s].more /\ q.root = scan[s].root
      BY <1>1, <1>3 DEF Scan, Current
    <3> HIDE DEF q
    <3>4. KeyOf(q) = key
      BY <1>4, <3>3 DEF KeyOf
    <3>5. 0 <= Len(Folders(key))
      BY PathIsNames
    <3>6. Current(q)
      BY <1>3, <3>2, <3>3, <3>4, <3>5, WayBegins DEF Current
    <3> QED
      BY <3>1, <3>3, <3>6
  <2> QED
    BY <2>1, <2>2
<1>7. ASSUME fresh' = "scanning", NEW k \in Objects PROVE Covered(q, k)
  <2>1. Covered(scan[s], k)
    BY <1>2, <1>7 DEF FreshInv
  <2> QED
    BY <1>1, <1>6, <2>1 DEF Covered
<1>8. fresh' = "yes" => \A k \in Objects : Settled(k)
  BY <1>2 DEF FreshInv
<1> QED
  BY <1>2, <1>6, <1>7, <1>8, QuietFresh

LEMMA FindFresh ==
  ASSUME TypeInv, FreshInv, Alone, NEW s \in Scanners, FindFolder(s), fresh' # "no"
  PROVE  FreshInv'
<1>1. scan[s] \in Scan /\ scan[s].pc = "folder" /\ scan[s].depth \in Nat
  BY DEF FindFolder, At, TypeInv, TypeOK, Scan
<1>2. rows' = rows /\ bucket' = bucket /\ fresh' = fresh
  BY DEF FindFolder
<1>3. Current(scan[s])
  BY <1>2 DEF FreshInv
<1>4. PICK key \in Keys : key = Key(s) /\ key = KeyOf(scan[s])
  BY <1>1, AtWork
<1> DEFINE N == Named("folder", Folders(key)[scan[s].depth + 1], scan[s].parent)
           i == FirstOf(N)
<1>5. N \in SUBSET Ids /\ scan[s].depth < Len(Folders(key)) /\ Len(Folders(key)) \in Nat
  BY <1>4, PathIsNames DEF Named, LiveIds, FindFolder
<1>6. /\ Tracking(key) = {} /\ Way(key, scan[s].depth, scan[s].parent)
  BY <1>1, <1>3, <1>4 DEF Current, Looking
<1>7. PICK q : /\ Becomes(s, q) /\ Current(q) /\ q.pc \notin {"idle", "list"}
               /\ q.page = scan[s].page /\ q.token = scan[s].token /\ q.more = scan[s].more
  <2>1. CASE i # NoRow
    <3> DEFINE q == [scan[s] EXCEPT !.parent = i, !.depth = @ + 1]
    <3>1. Becomes(s, q)
      BY <1>4, <2>1 DEF FindFolder
    <3>2. Way(key, scan[s].depth + 1, i)
      <4>1. i \in Ids
        <5> HIDE DEF N
        <5> QED
          BY <1>5, <2>1, FirstIs
      <4> QED
        BY <1>1, <1>6, <2>1, <4>1, WayExtends
    <3> HIDE DEF i
    <3>3. /\ q.pc = "folder" /\ q.page = scan[s].page /\ q.parent = i /\ q.depth = scan[s].depth + 1
          /\ q.token = scan[s].token /\ q.more = scan[s].more /\ q.root = scan[s].root
      BY <1>1 DEF Scan
    <3> HIDE DEF q
    <3>4. KeyOf(q) = key
      BY <1>4, <3>3 DEF KeyOf
    <3>5. q.depth <= Len(Folders(key))
      BY <1>1, <1>5, <3>3
    <3>6. Current(q)
      BY <1>3, <1>6, <3>2, <3>3, <3>4, <3>5 DEF Current
    <3> QED
      BY <3>1, <3>3, <3>6
  <2>2. CASE i = NoRow
    <3> DEFINE q == [scan[s] EXCEPT !.pc = "createFolder"]
    <3>1. Becomes(s, q)
      BY <1>4, <2>2 DEF FindFolder
    <3>2. N = {}
      <4> HIDE DEF N
      <4> QED
        BY <1>5, <2>2, FirstIs
    <3>3. /\ q.pc = "createFolder" /\ q.page = scan[s].page /\ q.parent = scan[s].parent
          /\ q.depth = scan[s].depth
          /\ q.token = scan[s].token /\ q.more = scan[s].more /\ q.root = scan[s].root
      BY <1>1 DEF Scan
    <3> HIDE DEF q
    <3>4. KeyOf(q) = key
      BY <1>4, <3>3 DEF KeyOf
    <3>5. q.depth <= Len(Folders(key))
      BY <1>1, <1>5, <3>3
    <3>6. Current(q)
      BY <1>3, <1>6, <3>2, <3>3, <3>4, <3>5 DEF Current
    <3> QED
      BY <3>1, <3>3, <3>6
  <2> QED
    BY <2>1, <2>2
<1>8. ASSUME fresh' = "scanning", NEW k \in Objects PROVE Covered(q, k)
  <2>1. Covered(scan[s], k)
    BY <1>2, <1>8 DEF FreshInv
  <2> QED
    BY <1>1, <1>7, <2>1 DEF Covered
<1>9. fresh' = "yes" => \A k \in Objects : Settled(k)
  BY <1>2 DEF FreshInv
<1> QED
  BY <1>2, <1>7, <1>8, <1>9, QuietFresh

LEMMA MatchFresh ==
  ASSUME TypeInv, FreshInv, Alone, NEW s \in Scanners, MatchName(s), fresh' # "no"
  PROVE  FreshInv'
<1>1. scan[s] \in Scan /\ scan[s].pc = "match"
  BY DEF MatchName, At, TypeInv, TypeOK
<1>2. rows' = rows /\ bucket' = bucket /\ fresh' = fresh
  BY DEF MatchName
<1>3. Current(scan[s])
  BY <1>2 DEF FreshInv
<1> DEFINE i == FirstOf(Named("file", FileName(Key(s)), scan[s].parent))
<1>4. PICK q : /\ Becomes(s, q) /\ q.pc \in {"takeOver", "createFile"} /\ q.root = scan[s].root
               /\ q.pc = "takeOver" => q.id \in LiveIds /\ q.snap = rows[q.id]
               /\ q.page = scan[s].page /\ q.token = scan[s].token /\ q.more = scan[s].more
  <2>1. CASE i # NoRow
    <3> DEFINE q == [scan[s] EXCEPT !.pc = "takeOver", !.id = i, !.snap = rows[i]]
    <3>1. Becomes(s, q)
      BY <2>1 DEF MatchName
    <3>2. i \in LiveIds
      <4>1. Named("file", FileName(Key(s)), scan[s].parent) \in SUBSET Ids
        BY DEF Named, LiveIds
      <4>2. i \in Named("file", FileName(Key(s)), scan[s].parent)
        BY <2>1, <4>1, FirstIs
      <4> QED
        BY <4>2 DEF Named
    <3> HIDE DEF i
    <3>3. /\ q.pc = "takeOver" /\ q.page = scan[s].page /\ q.id = i /\ q.snap = rows[i]
          /\ q.token = scan[s].token /\ q.more = scan[s].more /\ q.root = scan[s].root
      BY <1>1 DEF Scan
    <3> HIDE DEF q
    <3> QED
      BY <3>1, <3>2, <3>3
  <2>2. CASE i = NoRow
    <3> DEFINE q == [scan[s] EXCEPT !.pc = "createFile"]
    <3>1. Becomes(s, q)
      BY <2>2 DEF MatchName
    <3>2. /\ q.pc = "createFile" /\ q.page = scan[s].page
          /\ q.token = scan[s].token /\ q.more = scan[s].more /\ q.root = scan[s].root
      BY <1>1 DEF Scan
    <3> HIDE DEF q
    <3> QED
      BY <3>1, <3>2
  <2> QED
    BY <2>1, <2>2
<1>5. Current(q)
  <2>1. KeyOf(q) = KeyOf(scan[s])
    BY <1>4 DEF KeyOf
  <2> QED
    BY <1>1, <1>3, <1>4, <2>1 DEF Current, Looking
<1>6. ASSUME fresh' = "scanning", NEW k \in Objects PROVE Covered(q, k)
  <2>1. Covered(scan[s], k)
    BY <1>2, <1>6 DEF FreshInv
  <2> QED
    BY <1>1, <1>4, <2>1 DEF Covered
<1>7. fresh' = "yes" => \A k \in Objects : Settled(k)
  BY <1>2 DEF FreshInv
<1>8. q.pc # "idle"
  BY <1>4
<1> QED
  BY <1>2, <1>4, <1>5, <1>6, <1>7, <1>8, QuietFresh

LEMMA FoldersDoneFresh ==
  ASSUME TypeInv, FreshInv, Alone, NEW s \in Scanners, FoldersDone(s), fresh' # "no"
  PROVE  FreshInv'
<1>1. scan[s] \in Scan /\ scan[s].pc = "folder"
  BY DEF FoldersDone, At, TypeInv, TypeOK
<1>2. rows' = rows /\ bucket' = bucket /\ fresh' = fresh
  BY DEF FoldersDone
<1>3. Current(scan[s])
  BY <1>2 DEF FreshInv
<1>4. PICK key \in Keys : key = Key(s) /\ key = KeyOf(scan[s])
  BY <1>1, AtWork
<1>5. CASE key \in DirMarkers
  <2>1. Tracking(key) = {} /\ Way(key, Len(Folders(key)), scan[s].parent)
    BY <1>1, <1>3, <1>4 DEF Current, Looking, FoldersDone
  <2>2. Settled(key)
    BY <1>5, <2>1 DEF Settled
  <2>3. \A k : Settled(k)' = Settled(k)
    BY <1>2, SameRows
  <2>4. Settled(key)' /\ \A k \in Objects : k # key /\ Settled(k) => Settled(k)'
    BY <2>2, <2>3
  <2>5. NextObject(s)
    BY <1>4, <1>5 DEF FoldersDone
  <2> QED
    BY <1>1, <1>2, <1>4, <2>4, <2>5, DoneFresh
<1>6. CASE key \notin DirMarkers
  <2> DEFINE q == [scan[s] EXCEPT !.pc = "match"]
  <2>1. Becomes(s, q)
    BY <1>4, <1>6 DEF FoldersDone
  <2>2. /\ q.pc = "match" /\ q.page = scan[s].page
        /\ q.token = scan[s].token /\ q.more = scan[s].more /\ q.root = scan[s].root
    BY <1>1 DEF Scan
  <2> HIDE DEF q
  <2>3. Current(q)
    <3>1. KeyOf(q) = KeyOf(scan[s])
      BY <2>2 DEF KeyOf
    <3> QED
      BY <1>1, <1>3, <2>2, <3>1 DEF Current, Looking
  <2>4. ASSUME fresh' = "scanning", NEW k \in Objects PROVE Covered(q, k)
    <3>1. Covered(scan[s], k)
      BY <1>2, <2>4 DEF FreshInv
    <3> QED
      BY <1>1, <2>2, <3>1 DEF Covered
  <2>5. fresh' = "yes" => \A k \in Objects : Settled(k)
    BY <1>2 DEF FreshInv
  <2>6. q.pc # "idle"
    BY <2>2
  <2> QED
    BY <1>2, <2>1, <2>3, <2>4, <2>5, <2>6, QuietFresh
<1> QED
  BY <1>5, <1>6

\* A Save over the row that is there changes no name and no place.
LEMMA SavedInPlace ==
  ASSUME TypeInv, NEW i \in LiveIds, NEW r, rows' = [rows EXCEPT ![i] = r],
         r.state = rows[i].state, r.type = rows[i].type,
         r.name = rows[i].name, r.parent = rows[i].parent
  PROVE  /\ rows'[i] = r
         /\ \A j \in Ids : j # i => rows'[j] = rows[j]
         /\ \A j \in Ids : /\ rows'[j].state = rows[j].state /\ rows'[j].type = rows[j].type
                           /\ rows'[j].name = rows[j].name /\ rows'[j].parent = rows[j].parent
<1>1. rows'[i] = r /\ \A j \in Ids : j # i => rows'[j] = rows[j]
  BY DEF TypeInv, TypeOK, LiveIds
<1> QED
  BY <1>1

LEMMA RefreshFresh ==
  ASSUME TypeInv, RowInv, FreshInv, Alone, NEW s \in Scanners, Refresh(s), fresh' # "no"
  PROVE  FreshInv'
<1>1. scan[s] \in Scan /\ scan[s].pc = "refresh" /\ scan[s].snap \in Row
  BY DEF Refresh, At, TypeInv, TypeOK, Scan
<1>2. NextObject(s) /\ bucket' = bucket /\ fresh' = fresh
  BY DEF Refresh
<1>3. Current(scan[s]) /\ LookedUp(scan[s])
  BY <1>2 DEF FreshInv, RowInv
<1>4. PICK key \in Keys : key = Key(s) /\ key = KeyOf(scan[s]) /\ Size(s) = bucket[key]
  BY <1>1, <1>3, AtWork DEF Current, Size
<1>5. PICK i : i = scan[s].id /\ i = FirstOf(Tracking(key)) /\ i \in LiveIds /\ rows[i].key = key
  BY <1>1, <1>3, <1>4 DEF Current, LookedUp
<1>6. PICK r : /\ rows' = [rows EXCEPT ![i] = r]
               /\ r.state = scan[s].snap.state /\ r.type = scan[s].snap.type
               /\ r.name = scan[s].snap.name /\ r.parent = scan[s].snap.parent
               /\ r.key = key /\ r.size = bucket[key]
  <2> DEFINE r == [scan[s].snap EXCEPT !.size = Size(s)]
  <2>1. /\ r.state = scan[s].snap.state /\ r.type = scan[s].snap.type
        /\ r.name = scan[s].snap.name /\ r.parent = scan[s].snap.parent
        /\ r.key = scan[s].snap.key /\ r.size = bucket[key]
    BY <1>1, <1>4 DEF Row
  <2>2. rows' = [rows EXCEPT ![i] = r]
    BY <1>5 DEF Refresh, Save
  <2>3. scan[s].snap.key = key
    BY <1>1, <1>3, <1>4 DEF LookedUp
  <2> HIDE DEF r
  <2> QED
    BY <2>1, <2>2, <2>3
<1>7. /\ rows'[i] = r /\ \A j \in Ids : j # i => rows'[j] = rows[j]
      /\ LiveIds' = LiveIds
      /\ \A t, n, p : Named(t, n, p)' = Named(t, n, p)
  <2>1. rows[i] = scan[s].snap
    BY <1>1, <1>3, <1>5 DEF Current
  <2>2. /\ r.state = rows[i].state /\ r.type = rows[i].type
        /\ r.name = rows[i].name /\ r.parent = rows[i].parent
    BY <1>6, <2>1
  <2>3. /\ rows'[i] = r /\ \A j \in Ids : j # i => rows'[j] = rows[j]
        /\ \A j \in Ids : /\ rows'[j].state = rows[j].state /\ rows'[j].type = rows[j].type
                          /\ rows'[j].name = rows[j].name /\ rows'[j].parent = rows[j].parent
    BY <1>5, <1>6, <2>2, SavedInPlace
  <2>4. LiveIds' = LiveIds
    BY <2>3 DEF LiveIds
  <2>5. ASSUME NEW t, NEW n, NEW p PROVE Named(t, n, p)' = Named(t, n, p)
    BY <2>3 DEF Named, LiveIds
  <2> QED
    BY <2>3, <2>4, <2>5
<1>8. ASSUME NEW k PROVE Tracking(k)' = Tracking(k)
  <2>1. \A j \in Ids : rows'[j].key = rows[j].key
    BY <1>5, <1>6, <1>7
  <2>2. LiveIds \subseteq Ids
    BY DEF LiveIds
  <2> QED
    BY <1>7, <2>1, <2>2 DEF Tracking
<1>9. Settled(key)'
  <2>1. Tracking(key) \in SUBSET Ids /\ i \in Tracking(key)
    BY <1>5 DEF Tracking, LiveIds
  <2>2. \A j \in Tracking(key) : i <= j
    BY <1>5, <2>1, FirstIsLeast
  <2>3. PICK S \in SUBSET Ids : S = Tracking(key)
    BY <2>1
  <2>4. Tracking(key)' = S
    BY <1>8, <2>3
  <2>5. rows'[i].size = bucket'[key]
    BY <1>2, <1>6, <1>7
  <2> QED
    BY <2>1, <2>2, <2>3, <2>4, <2>5, SettledNow
<1>10. ASSUME NEW k \in Objects, k # key, Settled(k) PROVE Settled(k)'
  <2>1. k \in Keys
    BY DEF Objects
  <2>2. \A j \in Tracking(k) : rows'[j].size = rows[j].size
    BY <1>5, <1>7, <1>10 DEF Tracking, LiveIds
  <2>3. \A n, x : Named("folder", n, x)' = Named("folder", n, x)
    BY <1>7
  <2> QED
    BY <1>2, <1>8, <1>10, <2>1, <2>2, <2>3, SettledStays
<1> QED
  BY <1>1, <1>2, <1>4, <1>9, <1>10, DoneFresh

LEMMA TakeOverFresh ==
  ASSUME TypeInv, RowInv, FreshInv, Alone, NEW s \in Scanners, TakeOver(s), fresh' # "no"
  PROVE  FreshInv'
<1>1. scan[s] \in Scan /\ scan[s].pc = "takeOver"
  BY DEF TakeOver, At, TypeInv, TypeOK
<1>2. NextObject(s) /\ bucket' = bucket /\ fresh' = fresh /\ scan[s].snap.key \notin Objects
  BY DEF TakeOver
<1>3. Current(scan[s])
  BY <1>2 DEF FreshInv
<1>4. PICK key \in Keys : key = Key(s) /\ key = KeyOf(scan[s]) /\ Size(s) = bucket[key]
  BY <1>1, <1>3, AtWork DEF Current, Size
<1>5. PICK i : i = scan[s].id /\ i \in LiveIds /\ rows[i] = scan[s].snap
  BY <1>1, <1>3 DEF Current
<1>6. PICK r : /\ rows' = [rows EXCEPT ![i] = r]
               /\ r.state = scan[s].snap.state /\ r.type = scan[s].snap.type
               /\ r.name = scan[s].snap.name /\ r.parent = scan[s].snap.parent
               /\ r.key = key /\ r.size = bucket[key]
  <2> DEFINE r == [scan[s].snap EXCEPT !.key = Key(s), !.size = Size(s)]
  <2>1. scan[s].snap \in Row
    BY <1>1 DEF Scan
  <2>2. /\ r.state = scan[s].snap.state /\ r.type = scan[s].snap.type
        /\ r.name = scan[s].snap.name /\ r.parent = scan[s].snap.parent
        /\ r.key = key /\ r.size = bucket[key]
    BY <1>4, <2>1 DEF Row
  <2>3. rows' = [rows EXCEPT ![i] = r]
    BY <1>5 DEF TakeOver, Save
  <2> HIDE DEF r
  <2> QED
    BY <2>2, <2>3
<1>7. /\ rows'[i] = r /\ \A j \in Ids : j # i => rows'[j] = rows[j]
      /\ LiveIds' = LiveIds
      /\ \A t, n, p : Named(t, n, p)' = Named(t, n, p)
  <2>1. rows[i] = scan[s].snap
    BY <1>1, <1>3, <1>5 DEF Current
  <2>2. /\ r.state = rows[i].state /\ r.type = rows[i].type
        /\ r.name = rows[i].name /\ r.parent = rows[i].parent
    BY <1>6, <2>1
  <2>3. /\ rows'[i] = r /\ \A j \in Ids : j # i => rows'[j] = rows[j]
        /\ \A j \in Ids : /\ rows'[j].state = rows[j].state /\ rows'[j].type = rows[j].type
                          /\ rows'[j].name = rows[j].name /\ rows'[j].parent = rows[j].parent
    BY <1>5, <1>6, <2>2, SavedInPlace
  <2>4. LiveIds' = LiveIds
    BY <2>3 DEF LiveIds
  <2>5. ASSUME NEW t, NEW n, NEW p PROVE Named(t, n, p)' = Named(t, n, p)
    BY <2>3 DEF Named, LiveIds
  <2> QED
    BY <2>3, <2>4, <2>5
<1>8. Settled(key)'
  <2>1. Tracking(key) = {}
    BY <1>1, <1>3, <1>4 DEF Current, Looking
  <2>2. Tracking(key)' = {i}
    BY <1>5, <1>6, <1>7, <2>1 DEF Tracking, LiveIds
  <2>3. i \in Ids /\ i \in Nat
    BY <1>5, RowAssumption DEF LiveIds
  <2>4. rows'[i].size = bucket'[key]
    BY <1>2, <1>6, <1>7
  <2> QED
    BY <2>2, <2>3, <2>4, SettledNow
<1>9. ASSUME NEW k \in Objects, k # key, Settled(k) PROVE Settled(k)'
  <2>1. k \in Keys /\ rows[i].key # k
    BY <1>2, <1>5 DEF Objects
  <2>2. Tracking(k)' = Tracking(k)
    BY <1>5, <1>6, <1>7, <1>9, <2>1 DEF Tracking, LiveIds
  <2>3. \A j \in Tracking(k) : rows'[j].size = rows[j].size
    BY <1>7, <2>1 DEF Tracking, LiveIds
  <2>4. \A n, x : Named("folder", n, x)' = Named("folder", n, x)
    BY <1>7
  <2> QED
    BY <1>2, <1>9, <2>1, <2>2, <2>3, <2>4, SettledStays
<1> QED
  BY <1>1, <1>2, <1>4, <1>8, <1>9, DoneFresh

\* What an INSERT leaves alone.
LEMMA Inserted ==
  ASSUME TypeInv, NEW i \in Ids, NEW r, Insert(i, r)
  PROVE  /\ i \notin LiveIds /\ rows'[i] = r
         /\ \A j \in Ids : j # i => rows'[j] = rows[j]
         /\ \A j \in LiveIds : rows'[j] = rows[j]
<1>1. Unused \in SUBSET Nat /\ Unused # {} /\ i = Min(Unused)
  BY RowAssumption DEF Insert, Unused
<1>2. i \in Unused
  BY <1>1, MinIsLeast
<1>3. i \notin LiveIds
  BY <1>2 DEF Unused, LiveIds
<1>4. rows'[i] = r /\ \A j \in Ids : j # i => rows'[j] = rows[j]
  BY DEF Insert, TypeInv, TypeOK
<1> QED
  BY <1>3, <1>4 DEF LiveIds

LEMMA CreateFileFresh ==
  ASSUME TypeInv, FreshInv, Alone, NEW s \in Scanners, CreateFile(s), fresh' # "no"
  PROVE  FreshInv'
<1>1. scan[s] \in Scan /\ scan[s].pc = "createFile"
  BY DEF CreateFile, At, TypeInv, TypeOK
<1>2. NextObject(s) /\ bucket' = bucket /\ fresh' = fresh
  BY DEF CreateFile
<1>3. Current(scan[s])
  BY <1>2 DEF FreshInv
<1>4. PICK key \in Keys : key = Key(s) /\ key = KeyOf(scan[s]) /\ Size(s) = bucket[key]
  BY <1>1, <1>3, AtWork DEF Current, Size
<1>5. PICK i \in Ids : Insert(i, File(FileName(Key(s)), scan[s].parent, Key(s), Size(s)))
  BY DEF CreateFile
<1>6. PICK r : /\ r = File(FileName(Key(s)), scan[s].parent, Key(s), Size(s))
               /\ r.state = "live" /\ r.type = "file" /\ r.key = key /\ r.size = bucket[key]
  <2> DEFINE r == File(FileName(Key(s)), scan[s].parent, Key(s), Size(s))
  <2>1. BlankRow \in Row /\ BlankRow.type = "file"
    BY BlankIsRow DEF BlankRow
  <2>2. r.state = "live" /\ r.type = "file" /\ r.key = Key(s) /\ r.size = Size(s)
    BY <2>1 DEF File, Row
  <2> HIDE DEF r
  <2>3. \E x : x = r
    OBVIOUS
  <2> QED
    BY <1>4, <2>2, <2>3 DEF r
<1>7. /\ i \notin LiveIds /\ rows'[i] = r
      /\ \A j \in Ids : j # i => rows'[j] = rows[j]
  BY <1>5, <1>6, Inserted
<1>8. \A n, x : Named("folder", n, x)' = Named("folder", n, x)
  <2>1. ASSUME NEW n, NEW x PROVE Named("folder", n, x)' = Named("folder", n, x)
    BY <1>6, <1>7 DEF Named, LiveIds
  <2> QED
    BY <2>1
<1>9. Settled(key)'
  <2>1. Tracking(key) = {}
    BY <1>1, <1>3, <1>4 DEF Current, Looking
  <2>2. Tracking(key)' = {i}
    BY <1>6, <1>7, <2>1 DEF Tracking, LiveIds
  <2>3. i \in Nat
    BY RowAssumption
  <2>4. rows'[i].size = bucket'[key]
    BY <1>2, <1>6, <1>7
  <2> QED
    BY <2>2, <2>3, <2>4, SettledNow
<1>10. ASSUME NEW k \in Objects, k # key, Settled(k) PROVE Settled(k)'
  <2>1. k \in Keys
    BY DEF Objects
  <2>2. Tracking(k)' = Tracking(k)
    BY <1>6, <1>7, <1>10 DEF Tracking, LiveIds
  <2>3. \A j \in Tracking(k) : rows'[j].size = rows[j].size
    BY <1>7 DEF Tracking, LiveIds
  <2> QED
    BY <1>2, <1>8, <1>10, <2>1, <2>2, <2>3, SettledStays
<1> QED
  BY <1>1, <1>2, <1>4, <1>9, <1>10, DoneFresh

LEMMA CreateFolderFresh ==
  ASSUME TypeInv, FreshInv, Alone, NEW s \in Scanners, CreateFolder(s), fresh' # "no"
  PROVE  FreshInv'
<1>1. scan[s] \in Scan /\ scan[s].pc = "createFolder" /\ PhaseOf(scan[s]) /\ scan[s].depth \in Nat
  BY DEF CreateFolder, At, TypeInv, TypeOK, PhaseInv, Scan
<1>2. bucket' = bucket /\ fresh' = fresh
  BY DEF CreateFolder
<1>3. Current(scan[s])
  BY <1>2 DEF FreshInv
<1>4. PICK key \in Keys : key = Key(s) /\ key = KeyOf(scan[s])
  BY <1>1, AtWork
<1>5. PICK d \in Nat, p \in {scan[s].parent} : d = scan[s].depth /\ p = scan[s].parent
  BY <1>1
<1>6. PICK n : n = Folders(key)[d + 1]
  OBVIOUS
<1>7. /\ Tracking(key) = {} /\ Way(key, d, p) /\ Named("folder", n, p) = {} /\ d < Len(Folders(key))
  BY <1>1, <1>3, <1>4, <1>5, <1>6 DEF Current, Looking, PhaseOf
<1>8. PICK i \in Ids :
        /\ Insert(i, Folder(n, p))
        /\ Becomes(s, [scan[s] EXCEPT !.pc = "folder", !.parent = i, !.depth = @ + 1])
  BY <1>4, <1>5, <1>6 DEF CreateFolder
<1>9. PICK r : /\ r = Folder(n, p)
               /\ r.state = "live" /\ r.type = "folder" /\ r.name = n /\ r.parent = p /\ r.key = NoKey
  <2> DEFINE r == Folder(n, p)
  <2>1. BlankRow \in Row /\ BlankRow.key = NoKey
    BY BlankIsRow DEF BlankRow
  <2>2. r.state = "live" /\ r.type = "folder" /\ r.name = n /\ r.parent = p /\ r.key = NoKey
    BY <2>1 DEF Folder, Row
  <2> QED
    BY <2>2
<1>10. /\ i \notin LiveIds /\ rows'[i] = r
       /\ \A j \in Ids : j # i => rows'[j] = rows[j]
  BY <1>8, <1>9, Inserted
<1>11. PICK q : /\ \A t \in Scanners : t = s /\ scan'[t] = q
                /\ q.pc = "folder" /\ q.page = scan[s].page /\ q.parent = i /\ q.depth = d + 1
                /\ q.token = scan[s].token /\ q.more = scan[s].more /\ q.root = scan[s].root
  <2> DEFINE q == [scan[s] EXCEPT !.pc = "folder", !.parent = i, !.depth = @ + 1]
  <2>1. /\ q.pc = "folder" /\ q.page = scan[s].page /\ q.parent = i /\ q.depth = d + 1
        /\ q.token = scan[s].token /\ q.more = scan[s].more /\ q.root = scan[s].root
    BY <1>1, <1>5 DEF Scan
  <2>2. Becomes(s, q)
    BY <1>8
  <2> HIDE DEF q
  <2> QED
    BY <2>1, <2>2, OnlyOne
<1>12. ASSUME NEW k \in Keys PROVE Tracking(k)' = Tracking(k)
  <2>1. k # NoKey
    BY KeyAssumption DEF NoKey
  <2> QED
    BY <1>9, <1>10, <2>1 DEF Tracking, LiveIds
<1>13. Named("folder", n, p)' = {i}
  BY <1>7, <1>9, <1>10 DEF Named, LiveIds
<1>14. ASSUME NEW m, NEW x, Named("folder", m, x) # {} PROVE Named("folder", m, x)' = Named("folder", m, x)
  <2>1. m # n \/ x # p
    BY <1>7, <1>14
  <2> QED
    BY <1>9, <1>10, <2>1 DEF Named, LiveIds
<1>15. ASSUME NEW k \in Objects, Settled(k) PROVE Settled(k)'
  <2>1. k \in Keys
    BY DEF Objects
  <2>2. \A j \in Tracking(k) : rows'[j].size = rows[j].size
    BY <1>10 DEF Tracking, LiveIds
  <2> QED
    BY <1>2, <1>12, <1>14, <1>15, <2>1, <2>2, SettledStays
<1>16. Way(key, d + 1, i)'
  <2>1. Way(key, d, p)'
    BY <1>7, <1>14, WayStays
  <2>2. i # NoRow /\ i \in Nat
    BY RowAssumption DEF NoRow
  <2>3. FirstOf({i}) = i
    BY <2>2, FirstIs
  <2>4. FirstOf(Named("folder", Folders(key)[d + 1], p))' = i
    <3>1. Named("folder", Folders(key)[d + 1], p)' = {i}
      BY <1>6, <1>13
    <3> QED
      BY <2>3, <3>1 DEF FirstOf
  <2> QED
    BY <2>1, <2>2, <2>4, WayExtendsNext
<1>17. ASSUME NEW t \in Scanners PROVE Current(scan[t])'
  <2>1. scan'[t] = q
    BY <1>11
  <2>2. KeyOf(scan[t])' = key
    BY <1>4, <1>11, <2>1 DEF KeyOf
  <2>3. Tracking(KeyOf(scan[t]))' = {}
    <3>1. Tracking(key)' = {}
      BY <1>7, <1>12
    <3> QED
      BY <2>2, <3>1 DEF Tracking, LiveIds
  <2>4. Way(KeyOf(scan[t]), scan[t].depth, scan[t].parent)'
    BY <1>11, <1>16, <2>1, <2>2 DEF Way, Named, LiveIds
  <2>5. d + 1 <= Len(Folders(key))
    BY <1>7, PathIsNames
  <2> QED
    BY <1>2, <1>3, <1>11, <2>1, <2>2, <2>3, <2>4, <2>5 DEF Current
<1>18. Objects' = Objects
  BY <1>2 DEF Objects
<1>19. ASSUME fresh' = "scanning", NEW t \in Scanners
       PROVE  scan'[t].pc # "idle" /\ \A k \in Objects' : Covered(scan[t], k)'
  <2>0. scan'[t] = q
    BY <1>11
  <2>1. ASSUME NEW k \in Objects PROVE Covered(scan[t], k)'
    <3>1. Covered(scan[s], k)
      BY <1>2, <1>19 DEF FreshInv
    <3>2. CASE Settled(k)
      <4>1. Settled(k)'
        BY <1>15, <3>2
      <4> QED
        BY <4>1 DEF Covered
    <3>3. CASE ~Settled(k)
      BY <1>1, <1>11, <2>0, <3>1, <3>3 DEF Covered
    <3> QED
      BY <3>2, <3>3
  <2> QED
    BY <1>11, <1>18, <2>0, <2>1
<1>20. ASSUME fresh' = "yes", NEW k \in Objects' PROVE Settled(k)'
  BY <1>2, <1>15, <1>18, <1>20 DEF FreshInv
<1> QED
  BY <1>17, <1>19, <1>20 DEF FreshInv

LEMMA FreshInvInit == Init => FreshInv
BY DEF Init, FreshInv

LEMMA StartFresh ==
  ASSUME TypeInv, FreshInv, Alone, NEW s \in Scanners, StartScan(s)
  PROVE  FreshInv'
<1> DEFINE q == [Idle EXCEPT !.pc = "list", !.root = Top]
<1>1. scan[s].pc = "idle" /\ Becomes(s, q) /\ rows' = rows /\ bucket' = bucket
  BY DEF StartScan, Begin, At
<1>2. /\ q.pc = "list" /\ DOMAIN q.page = {} /\ q.root = Top /\ q.depth = 0 /\ q.token = NoKey
  BY DEF Idle
<1> HIDE DEF q
<1>3. Current(q)
  BY <1>2 DEF Current, Looking
<1>4. ASSUME NEW k \in Objects PROVE Covered(q, k)
  <2>1. k > NoKey
    BY KeyAssumption DEF Objects, NoKey
  <2> QED
    BY <1>2, <2>1 DEF Covered
<1>5. fresh' = "yes" => \A k \in Objects : Settled(k)
  BY DEF StartScan, FreshInv
<1> QED
  BY <1>1, <1>2, <1>3, <1>4, <1>5, QuietFresh

LEMMA StutterFresh ==
  ASSUME TypeInv, FreshInv, Alone,
         scan' = scan, rows' = rows, bucket' = bucket, fresh' = fresh
  PROVE  FreshInv'
<1>1. scan' = scan /\ rows' = rows /\ bucket' = bucket /\ fresh' = fresh
  OBVIOUS
<1>2. CASE fresh = "no"
  BY <1>1, <1>2 DEF FreshInv
<1>3. CASE fresh # "no" /\ Scanners # {}
  <2>1. PICK s \in Scanners : TRUE
    BY <1>3
  <2>2. Becomes(s, scan[s]) /\ Current(scan[s])
    BY <1>1, <1>3 DEF Becomes, TypeInv, TypeOK, FreshInv
  <2> QED
    BY <1>1, <1>3, <2>1, <2>2, QuietFresh DEF FreshInv
<1>4. CASE fresh # "no" /\ Scanners = {}
  <2>1. ASSUME fresh' = "yes", NEW k \in Objects' PROVE Settled(k)'
    BY <1>1, <1>4, <2>1, SameRows DEF FreshInv, Objects
  <2> QED
    BY <1>4, <2>1 DEF FreshInv
<1> QED
  BY <1>2, <1>3, <1>4

\* What others do leaves the scans alone.
LEMMA OthersAside ==
  ASSUME Edit \/ \E r \in Requests : Request(r)
  PROVE  scan' = scan
<1>1. CASE Edit
  BY <1>1 DEF Edit, Trash, Purge, Put, Presigned, Multipart, UploadRow, UploadObject, Edited
<1>2. ASSUME NEW r \in Requests, Request(r) PROVE scan' = scan
  BY <1>2 DEF Request, Move, Rename, Complete, Read, HeadObject, SaveItem
<1> QED
  BY <1>1, <1>2

\* It ends the freshness, unless it only reads.
LEMMA OthersFresh ==
  ASSUME Edit \/ \E r \in Requests : Request(r)
  PROVE  \/ fresh' = "no"
         \/ scan' = scan /\ rows' = rows /\ bucket' = bucket /\ fresh' = fresh
<1>1. CASE Edit
  BY <1>1 DEF Edit, Trash, Purge, Put, Presigned, Multipart, UploadRow, UploadObject, Edited
<1>2. ASSUME NEW r \in Requests, Request(r)
      PROVE  fresh' = "no" \/ (scan' = scan /\ rows' = rows /\ bucket' = bucket /\ fresh' = fresh)
  BY <1>2 DEF Request, Move, Rename, Complete, Read, HeadObject, SaveItem
<1> QED
  BY <1>1, <1>2

LEMMA StepFresh ==
  ASSUME TypeInv, RowInv, FreshInv, Alone, NEW s \in Scanners, Step(s)
  PROVE  FreshInv'
<1>1. CASE fresh' = "no"
  BY <1>1 DEF FreshInv
<1>2. CASE fresh' # "no"
  BY <1>2, ListFresh, TakeFresh, LookupFresh, RefreshFresh, FindFresh, CreateFolderFresh,
     FoldersDoneFresh, MatchFresh, TakeOverFresh, CreateFileFresh DEF Step
<1> QED
  BY <1>1, <1>2

LEMMA FreshInvStep ==
  ASSUME TypeInv, RowInv, FreshInv, Alone, [Next]_vars
  PROVE  FreshInv'
<1>1. CASE UNCHANGED vars
  BY <1>1, StutterFresh DEF vars
<1>2. CASE Edit \/ \E r \in Requests : Request(r)
  <2>1. CASE fresh' = "no"
    BY <2>1 DEF FreshInv
  <2> QED
    BY <1>2, <2>1, OthersFresh, StutterFresh
<1>3. ASSUME NEW s \in Scanners, Step(s) PROVE FreshInv'
  BY <1>3, StepFresh
<1>4. ASSUME NEW s \in Scanners, Start(s) PROVE FreshInv'
  <2>1. CASE StartScan(s)
    BY <2>1, StartFresh
  <2>2. ASSUME NEW i \in Ids, StartScanInto(s, i) PROVE FreshInv'
    BY <2>2 DEF StartScanInto, FreshInv
  <2> QED
    BY <1>4, <2>1, <2>2 DEF Start
<1> QED
  BY <1>1, <1>2, <1>3, <1>4 DEF Next

LEMMA FreshInvAlways ==
  ASSUME Alone
  PROVE  Spec => [](TypeInv /\ RowInv /\ FreshInv)
<1>1. Init => FreshInv
  BY FreshInvInit
<1>2. TypeInv /\ RowInv /\ FreshInv /\ [Next]_vars => FreshInv'
  BY FreshInvStep
<1> QED
  BY <1>1, <1>2, RowInvAlways, PTL DEF Spec

\* "synchronizes its objects": with one scan at a time, after a scan of the whole
\* drive that nothing disturbed every object has a live row, of its size.
THEOREM EveryObjectTracked ==
  ASSUME Alone
  PROVE  Spec => []ObjectsTracked
<1>1. ASSUME FreshInv, TypeInv PROVE ObjectsTracked
  <2>1. SUFFICES ASSUME fresh = "yes", NEW k \in Objects \ DirMarkers
                 PROVE  \E i \in Tracking(k) : rows[i].size = bucket[k]
    BY DEF ObjectsTracked
  <2>2. Settled(k)
    BY <1>1, <2>1 DEF FreshInv
  <2>3. Tracking(k) # {} /\ rows[FirstOf(Tracking(k))].size = bucket[k]
    BY <2>1, <2>2 DEF Settled
  <2>4. Tracking(k) \in SUBSET Ids
    BY DEF Tracking, LiveIds
  <2>5. FirstOf(Tracking(k)) \in Tracking(k)
    BY <2>3, <2>4, FirstIs
  <2> QED
    BY <2>3, <2>5
<1>2. TypeInv /\ RowInv /\ FreshInv => ObjectsTracked
  BY <1>1
<1> QED
  BY <1>2, FreshInvAlways, PTL

-----------------------------------------------------------------------------
(* What the steps of a scan that nothing disturbs do to the rows.             *)

\* Steps that touch no row at all.
LEMMA RowsTouched ==
  ASSUME TypeInv, NEW s \in Scanners, Start(s) \/ Step(s), rows' # rows
  PROVE  Refresh(s) \/ TakeOver(s) \/ CreateFile(s) \/ CreateFolder(s)
BY DEF Start, StartScan, StartScanInto, Begin, Step, ListObjects, TakeObject, Lookup, FindFolder,
       FoldersDone, MatchName

\* A step that moves a scan on, and changes rows, is one of that scan.
LEMMA ByAScan ==
  ASSUME TypeInv, [Next]_vars, scan' # scan, rows' # rows
  PROVE  \E s \in Scanners : Refresh(s) \/ TakeOver(s) \/ CreateFile(s) \/ CreateFolder(s)
<1>1. ~UNCHANGED vars
  BY DEF vars
<1>2. ~(Edit \/ \E r \in Requests : Request(r))
  BY OthersAside
<1>3. PICK s \in Scanners : Start(s) \/ Step(s)
  BY <1>1, <1>2 DEF Next
<1> QED
  BY <1>3, RowsTouched

\* "sync must not move an uploaded file out of its folder": with one scan at a
\* time, a scan that nothing disturbs leaves every row in its place, by its name.
THEOREM ScanKeepsPlaces ==
  ASSUME Alone
  PROVE  Spec => ScanMovesNothing
<1> DEFINE Kept == \A i \in LiveIds : rows'[i].parent = rows[i].parent /\ rows'[i].name = rows[i].name
<1>1. ASSUME TypeInv, FreshInv, [Next]_vars, fresh # "no", scan' # scan
      PROVE  Kept
  <2>1. CASE rows' = rows
    BY <2>1
  <2>2. CASE rows' # rows
    <3>1. PICK s \in Scanners : Refresh(s) \/ TakeOver(s) \/ CreateFile(s) \/ CreateFolder(s)
      BY <1>1, <2>2, ByAScan
    <3>2. Current(scan[s]) /\ scan[s] \in Scan /\ scan[s].snap \in Row
      BY <1>1 DEF FreshInv, TypeInv, TypeOK, Scan
    <3>3. ASSUME NEW i, NEW r, i = scan[s].id, i \in LiveIds, rows[i] = scan[s].snap, Save(i, r),
                 r.parent = scan[s].snap.parent, r.name = scan[s].snap.name
          PROVE  Kept
      BY <1>1, <3>3 DEF Save, TypeInv, TypeOK, LiveIds
    <3>4. CASE Refresh(s)
      <4> DEFINE r == [scan[s].snap EXCEPT !.size = Size(s)]
      <4>1. scan[s].id \in LiveIds /\ rows[scan[s].id] = scan[s].snap
        BY <3>2, <3>4 DEF Refresh, At, Current
      <4>2. r.parent = scan[s].snap.parent /\ r.name = scan[s].snap.name
        BY <3>2 DEF Row
      <4>3. Save(scan[s].id, r)
        BY <3>4 DEF Refresh
      <4> HIDE DEF r, Kept
      <4> QED
        BY <3>3, <4>1, <4>2, <4>3
    <3>5. CASE TakeOver(s)
      <4> DEFINE r == [scan[s].snap EXCEPT !.key = Key(s), !.size = Size(s)]
      <4>1. scan[s].id \in LiveIds /\ rows[scan[s].id] = scan[s].snap
        BY <3>2, <3>5 DEF TakeOver, At, Current
      <4>2. r.parent = scan[s].snap.parent /\ r.name = scan[s].snap.name
        BY <3>2 DEF Row
      <4>3. Save(scan[s].id, r)
        BY <3>5 DEF TakeOver
      <4> HIDE DEF r, Kept
      <4> QED
        BY <3>3, <4>1, <4>2, <4>3
    <3>6. ASSUME NEW i \in Ids, NEW r, Insert(i, r) PROVE Kept
      BY <1>1, <3>6, Inserted
    <3>7. CASE CreateFile(s) \/ CreateFolder(s)
      <4> HIDE DEF Kept
      <4> QED
        BY <3>6, <3>7 DEF CreateFile, CreateFolder
    <3> QED
      BY <3>1, <3>4, <3>5, <3>7
  <2> QED
    BY <2>1, <2>2
<1>2. TypeInv /\ RowInv /\ FreshInv /\ [Next]_vars => [fresh # "no" /\ scan' # scan => Kept]_vars
  BY <1>1
<1>3. [][fresh # "no" /\ scan' # scan => Kept]_vars => ScanMovesNothing
  BY PTL DEF ScanMovesNothing
<1> HIDE DEF Kept
<1> QED
  BY <1>2, <1>3, FreshInvAlways, PTL DEF Spec

\* The object of a scan that may find nothing new is there, and settled.
LEMMA NothingNew ==
  ASSUME TypeInv, FreshInv, fresh = "yes", NEW s \in Scanners,
         scan[s].pc \notin {"idle", "list", "object"}
  PROVE  /\ KeyOf(scan[s]) = Key(s) /\ Key(s) \in Keys
         /\ bucket[Key(s)] = Size(s) /\ Settled(Key(s))
<1>1. Current(scan[s])
  BY DEF FreshInv
<1>2. /\ Key(s) = KeyOf(scan[s]) /\ Key(s) \in DOMAIN scan[s].page /\ Key(s) \in Keys
      /\ Size(s) \in Sizes
  BY AtWork
<1>3. bucket[Key(s)] = Size(s)
  BY <1>1, <1>2 DEF Current, Size
<1>4. Key(s) \in Objects
  BY <1>2, <1>3, RowAssumption DEF Objects
<1> QED
  BY <1>2, <1>3, <1>4 DEF FreshInv

\* "re-running sync should not create duplicate items": with one scan at a time
\* a scan after a scan, both of the whole drive, changes no row at all.
THEOREM RescanIdle ==
  ASSUME Alone
  PROVE  Spec => RescanChangesNothing
<1>1. ASSUME TypeInv, RowInv, FreshInv, [Next]_vars, fresh = "yes", scan' # scan
      PROVE  rows' = rows
  <2>1. SUFFICES ASSUME rows' # rows PROVE FALSE
    OBVIOUS
  <2>2. PICK s \in Scanners : Refresh(s) \/ TakeOver(s) \/ CreateFile(s) \/ CreateFolder(s)
    BY <1>1, <2>1, ByAScan
  <2>3. scan[s].pc \in {"refresh", "takeOver", "createFile", "createFolder"}
    BY <2>2 DEF Refresh, TakeOver, CreateFile, CreateFolder, At
  <2>4. PICK key \in Keys : key = Key(s) /\ KeyOf(scan[s]) = key /\ bucket[key] = Size(s) /\ Settled(key)
    BY <1>1, <2>3, NothingNew
  <2>5. Current(scan[s]) /\ LookedUp(scan[s]) /\ PhaseOf(scan[s]) /\ scan[s] \in Scan
    BY <1>1 DEF FreshInv, RowInv, TypeInv, TypeOK, PhaseInv
  <2>6. CASE scan[s].pc = "refresh"
    <3>1. PICK i : i = scan[s].id /\ i = FirstOf(Tracking(key)) /\ i \in LiveIds /\ rows[i] = scan[s].snap
                   /\ rows[i].key = key
      BY <2>4, <2>5, <2>6 DEF Current, LookedUp
    <3>2. rows[i].size = bucket[key]
      <4>1. i \in Tracking(key)
        BY <3>1 DEF Tracking
      <4> QED
        BY <2>4, <3>1, <4>1 DEF Settled
    <3>3. i \in Ids /\ rows[i] \in Row
      BY <1>1, <3>1 DEF LiveIds, TypeInv, TypeOK
    <3>4. Refresh(s)
      BY <2>2, <2>6 DEF TakeOver, CreateFile, CreateFolder, At
    <3>5. rows' = [rows EXCEPT ![i] = [rows[i] EXCEPT !.size = bucket[key]]]
      BY <2>4, <3>1, <3>4 DEF Refresh, Save
    <3>6. [rows[i] EXCEPT !.size = bucket[key]] = rows[i]
      BY <3>2, <3>3 DEF Row
    <3>7. rows' = rows
      BY <1>1, <3>3, <3>5, <3>6 DEF TypeInv, TypeOK
    <3> QED
      BY <2>1, <3>7
  <2>7. CASE scan[s].pc \in {"takeOver", "createFile"}
    <3>1. Tracking(key) = {} /\ key \notin DirMarkers
      BY <2>4, <2>5, <2>7 DEF Current, Looking, PhaseOf
    <3> QED
      BY <2>4, <3>1 DEF Settled
  <2>8. CASE scan[s].pc = "createFolder"
    <3>1. PICK d \in Nat, p \in {scan[s].parent} : d = scan[s].depth /\ p = scan[s].parent
      BY <2>5 DEF Scan
    <3>2. /\ Tracking(key) = {} /\ Way(key, d, p) /\ d < Len(Folders(key))
          /\ Named("folder", Folders(key)[d + 1], p) = {}
      BY <2>4, <2>5, <2>8, <3>1 DEF Current, Looking, PhaseOf
    <3>3. PICK z : Way(key, Len(Folders(key)), z)
      BY <2>4, <3>2 DEF Settled
    <3>4. Len(Folders(key)) \in Nat
      BY PathIsNames
    <3>5. d <= Len(Folders(key))
      BY <3>2, <3>4
    <3>6. FirstOf(Named("folder", Folders(key)[d + 1], p)) # NoRow
      BY <3>2, <3>3, <3>4, <3>5, WayUnique
    <3> QED
      BY <3>2, <3>6 DEF FirstOf
  <2> QED
    BY <2>3, <2>6, <2>7, <2>8
<1>2. TypeInv /\ RowInv /\ FreshInv /\ [Next]_vars => [fresh = "yes" /\ scan' # scan => rows' = rows]_vars
  BY <1>1
<1> QED
  BY <1>2, FreshInvAlways, PTL DEF Spec, RescanChangesNothing

-----------------------------------------------------------------------------
(* Every scan ends.  A page takes its keys off those that are still to be     *)
(* listed, an object that is done with is off its page, and what is put into  *)
(* the bucket behind the continuation token is not seen any more: a number of *)
(* steps left can be given that every step of a scan lowers.                  *)

Depths == {Len(Folders(k)) : k \in Keys} \cup {0}

\* The deepest directory that a key of the bucket asks for.
Deepest == Max(Depths)

Unlisted(q) == Cardinality({k \in Keys : k > q.token})

\* Statements for one object at most: each folder looked up and created.
PerObject == 2 * Deepest + 5

\* What a page will still cost, once the object at work on is done with.
PageLeft(q, n) ==
  (PerObject + 2) * Unlisted(q) + PerObject * n + (IF q.more THEN 3 ELSE 1)

FoldersLeft(q) == IF q.depth < Deepest THEN Deepest - q.depth ELSE 0

ObjectLeft(q) ==
  CASE q.pc = "lookup" -> 2 * Deepest + 4
    [] q.pc = "folder" -> 2 * FoldersLeft(q) + 3
    [] q.pc = "createFolder" -> 2 * FoldersLeft(q) + 2
    [] q.pc = "match" -> 2
    [] OTHER -> 1

StepsLeft(q) ==
  CASE q.pc = "idle" -> 0
    [] q.pc = "list" -> (PerObject + 2) * Unlisted(q) + 2
    [] q.pc = "object" -> PageLeft(q, Cardinality(DOMAIN q.page))
    [] OTHER -> PageLeft(q, Cardinality(DOMAIN q.page) - 1) + ObjectLeft(q)

\* Every statement of a scan counts, and nobody else undoes it.
WorkRunsOut ==
  [][\A s \in Scanners :
       /\ Step(s) => StepsLeft(scan'[s]) < StepsLeft(scan[s])
       /\ ~At(s, "idle") => scan'[s] = scan[s] \/ StepsLeft(scan'[s]) < StepsLeft(scan[s])]_vars

WorkBounded ==
  \A s \in Scanners :
    /\ StepsLeft(scan[s]) \in 0 .. (2 * PerObject + 2) * Cardinality(Keys) + 3
    /\ StepsLeft(scan[s]) = 0 <=> At(s, "idle")

LEMMA DeepestIs ==
  /\ Deepest \in Nat /\ PerObject \in Nat
  /\ \A k \in Keys : Len(Folders(k)) \in Nat /\ Len(Folders(k)) <= Deepest
<1> DEFINE f == [k \in Keys |-> Len(Folders(k))]
           T == {Len(Folders(k)) : k \in Keys}
<1>1. f \in Surjection(Keys, T)
  BY DEF Surjection
<1>2. IsFiniteSet(T)
  BY <1>1, FS_Surjection, KeyAssumption
<1>3. IsFiniteSet(Depths)
  BY <1>2, FS_AddElement DEF Depths
<1>4. Depths \in SUBSET Nat /\ Depths # {}
  BY PathIsNames DEF Depths
<1>5. Deepest \in Depths /\ \A d \in Depths : Deepest >= d
  BY <1>3, <1>4, MaxIsGreatest DEF Deepest
<1> QED
  BY <1>4, <1>5 DEF Depths, PerObject

\* Counts are numbers no larger than that of the keys.
LEMMA CountKeys ==
  ASSUME NEW q \in Scan
  PROVE  /\ Unlisted(q) \in Nat /\ Unlisted(q) <= Cardinality(Keys)
         /\ Cardinality(DOMAIN q.page) \in Nat
         /\ Cardinality(DOMAIN q.page) <= Cardinality(Keys)
         /\ DOMAIN q.page # {} => Cardinality(DOMAIN q.page) >= 1
         /\ Cardinality(Keys) \in Nat
<1>1. DOMAIN q.page \in SUBSET Keys
  BY DEF Scan, Pages
<1>2. {k \in Keys : k > q.token} \in SUBSET Keys
  OBVIOUS
<1>3. IsFiniteSet(Keys)
  BY KeyAssumption
<1>4. /\ IsFiniteSet(DOMAIN q.page) /\ IsFiniteSet({k \in Keys : k > q.token})
      /\ Cardinality(DOMAIN q.page) <= Cardinality(Keys) /\ Unlisted(q) <= Cardinality(Keys)
  BY <1>1, <1>2, <1>3, FS_Subset DEF Unlisted
<1>5. /\ Cardinality(DOMAIN q.page) \in Nat /\ Unlisted(q) \in Nat /\ Cardinality(Keys) \in Nat
  BY <1>3, <1>4, FS_CardinalityType DEF Unlisted
<1>6. DOMAIN q.page # {} => Cardinality(DOMAIN q.page) # 0
  BY <1>4, FS_EmptySet
<1> QED
  BY <1>4, <1>5, <1>6

\* A page, and the keys behind it, were to be listed; an empty page is the last.
LEMMA PageShrinks ==
  ASSUME NEW t \in Keys \cup {NoKey}, NEW O \in SUBSET Keys, NEW rest, NEW page,
         rest = {k \in O : k > t},
         page = {k \in rest : Cardinality({j \in rest : j <= k}) <= PageSize}
  PROVE  /\ page = {} => rest = {}
         /\ page # {} => Cardinality({k \in Keys : k > Max(page)}) + Cardinality(page)
                           <= Cardinality({k \in Keys : k > t})
<1>1. /\ rest \in SUBSET Nat /\ page \in SUBSET Nat /\ page \subseteq rest /\ rest \subseteq Keys
      /\ Keys \in SUBSET Nat /\ IsFiniteSet(Keys)
  BY KeyAssumption
<1>2. ASSUME rest # {} PROVE page # {}
  <2>1. Min(rest) \in rest /\ \A y \in rest : Min(rest) <= y
    BY <1>1, <1>2, MinIsLeast
  <2>2. {j \in rest : j <= Min(rest)} = {Min(rest)}
    BY <1>1, <2>1
  <2>3. Cardinality({j \in rest : j <= Min(rest)}) = 1
    BY <2>2, FS_Singleton
  <2> QED
    BY <2>1, <2>3, PageAssumption
<1>3. ASSUME page # {}
      PROVE  Cardinality({k \in Keys : k > Max(page)}) + Cardinality(page)
               <= Cardinality({k \in Keys : k > t})
  <2> DEFINE A == {k \in Keys : k > Max(page)}
             B == {k \in Keys : k > t}
  <2>1. IsFiniteSet(page) /\ page \subseteq Keys
    BY <1>1, FS_Subset
  <2>2. Max(page) \in page /\ \A y \in page : Max(page) >= y
    BY <1>1, <1>3, <2>1, MaxIsGreatest
  <2>3. page \subseteq B
    BY <2>1
  <2>4. A \subseteq B /\ A \cap page = {}
    <3>1. Max(page) \in rest
      BY <1>1, <2>2
    <3>2. Max(page) > t
      BY <3>1
    <3>3. t \in Nat /\ Max(page) \in Nat
      BY <1>1, <3>1 DEF NoKey
    <3>4. PICK m \in Nat : m = Max(page)
      BY <3>3
    <3>5. A = {k \in Keys : k > m} /\ m > t /\ \A y \in page : y \in Nat /\ m >= y
      BY <1>1, <2>2, <3>2, <3>4
    <3>6. \A k \in Keys : k \in Nat /\ (k > m => k > t)
      BY <1>1, <3>3, <3>5
    <3> HIDE DEF A
    <3>7. \A k \in A : k \in Keys /\ k > t /\ k \notin page
      BY <3>5, <3>6
    <3> QED
      BY <3>7
  <2> HIDE DEF A
  <2>5. IsFiniteSet(A) /\ IsFiniteSet(B)
    BY <1>1, <2>4, FS_Subset
  <2> HIDE DEF B
  <2>6. /\ Cardinality(A) \in Nat /\ Cardinality(B) \in Nat /\ Cardinality(page) \in Nat
        /\ Cardinality(A \cap page) = 0
    BY <2>1, <2>4, <2>5, FS_CardinalityType, FS_EmptySet
  <2>7. Cardinality(A \cup page) = Cardinality(A) + Cardinality(page) - Cardinality(A \cap page)
    BY <2>1, <2>5, FS_Union
  <2>8. Cardinality(A \cup page) <= Cardinality(B)
    BY <2>3, <2>4, <2>5, FS_Subset
  <2>9. Cardinality(A) + Cardinality(page) <= Cardinality(B)
    BY <2>6, <2>7, <2>8
  <2> QED
    BY <2>9 DEF A, B
<1> QED
  BY <1>2, <1>3

\* The value of StepsLeft at each label, multiplied out.
LEMMA StepsLeftAt ==
  ASSUME NEW q \in Scan, NEW w \in Nat, w = PerObject, NEW n \in Nat, n = Cardinality(DOMAIN q.page),
         NEW u \in Nat, u = Unlisted(q), NEW m \in {1, 3}, m = IF q.more THEN 3 ELSE 1
  PROVE  /\ q.pc = "idle" => StepsLeft(q) = 0
         /\ q.pc = "list" => StepsLeft(q) = (w + 2) * u + 2
         /\ q.pc = "object" => StepsLeft(q) = (w + 2) * u + w * n + m
         /\ q.pc \notin {"idle", "list", "object"} =>
              StepsLeft(q) = (w + 2) * u + w * (n - 1) + m + ObjectLeft(q)
BY DEF StepsLeft, PageLeft

\* The work that one object takes.
LEMMA ObjectLeftBound ==
  ASSUME NEW q \in Scan
  PROVE  /\ ObjectLeft(q) \in Nat /\ 1 <= ObjectLeft(q) /\ ObjectLeft(q) <= PerObject - 1
         /\ FoldersLeft(q) \in Nat
<1>1. q.depth \in Nat /\ Deepest \in Nat
  BY DeepestIs DEF Scan
<1>2. FoldersLeft(q) \in Nat /\ FoldersLeft(q) <= Deepest
  BY <1>1 DEF FoldersLeft
<1> QED
  BY <1>1, <1>2 DEF ObjectLeft, PerObject

\* A natural number times another.
LEMMA Times ==
  /\ \A a, b \in Nat : a * b \in Nat
  /\ \A a, b, c \in Nat : b <= c => a * b <= a * c
  /\ \A a, b \in Nat : (a + 2) * b = a * b + 2 * b
  /\ \A a, b \in Nat : (2 * a + 2) * b = a * b + a * b + 2 * b
  /\ \A a, b \in Nat : a * (b + 1) = a * b + a
  /\ \A a, b, c \in Nat : a * (b + c) = a * b + a * c
OBVIOUS

LEMMA StepsLeftBound ==
  ASSUME NEW q \in Scan, PhaseOf(q)
  PROVE  /\ StepsLeft(q) \in 0 .. (2 * PerObject + 2) * Cardinality(Keys) + 3
         /\ StepsLeft(q) = 0 <=> q.pc = "idle"
<1>1. PICK w \in Nat : w = PerObject
  BY DeepestIs
<1>2. PICK c \in Nat, n \in Nat, u \in Nat :
        /\ c = Cardinality(Keys) /\ n = Cardinality(DOMAIN q.page) /\ u = Unlisted(q)
        /\ u <= c /\ n <= c /\ (DOMAIN q.page # {} => n >= 1)
  BY CountKeys
<1>3. PICK m \in {1, 3} : m = IF q.more THEN 3 ELSE 1
  OBVIOUS
<1>4. PICK wc \in Nat, wu \in Nat, wn \in Nat :
        wc = w * c /\ wu = w * u /\ wn = w * n /\ wu <= wc /\ wn <= wc
  BY <1>2, Times
<1>5. (w + 2) * u = wu + 2 * u /\ (2 * w + 2) * c = wc + wc + 2 * c
  BY <1>4, Times
<1>6. CASE q.pc = "idle"
  BY <1>1, <1>2, <1>3, <1>4, <1>5, <1>6, StepsLeftAt
<1>7. CASE q.pc = "list"
  <2>1. StepsLeft(q) = wu + 2 * u + 2
    BY <1>1, <1>2, <1>3, <1>5, <1>7, StepsLeftAt
  <2> QED
    BY <1>1, <1>2, <1>4, <1>5, <1>7, <2>1
<1>8. CASE q.pc = "object"
  <2>1. StepsLeft(q) = wu + 2 * u + wn + m
    BY <1>1, <1>2, <1>3, <1>4, <1>5, <1>8, StepsLeftAt
  <2> QED
    BY <1>1, <1>2, <1>3, <1>4, <1>5, <1>8, <2>1
<1>9. CASE q.pc \notin {"idle", "list", "object"}
  <2>1. n >= 1
    BY <1>2, <1>9 DEF PhaseOf
  <2>2. PICK n1 \in Nat : n1 = n - 1
    BY <2>1
  <2>3. PICK wn1 \in Nat : wn1 = w * n1 /\ wn1 + w = wn
    BY <1>4, <2>2, Times
  <2>4. PICK l \in Nat : l = ObjectLeft(q) /\ 1 <= l /\ l <= w - 1
    BY <1>1, ObjectLeftBound
  <2>5. StepsLeft(q) = wu + 2 * u + wn1 + m + l
    BY <1>1, <1>2, <1>3, <1>5, <1>9, <2>2, <2>3, <2>4, StepsLeftAt
  <2>6. PICK v \in Nat : v = wn1 + l /\ 1 <= v /\ v <= wn
    BY <1>1, <2>3, <2>4
  <2>7. StepsLeft(q) = wu + 2 * u + v + m
    BY <1>2, <1>3, <1>4, <2>3, <2>4, <2>5, <2>6
  <2> QED
    BY <1>1, <1>2, <1>3, <1>4, <1>5, <1>9, <2>6, <2>7
<1> QED
  BY <1>6, <1>7, <1>8, <1>9

\* A scan that goes on to another label of its object, or is done with it.
LEMMA SamePage ==
  ASSUME NEW p \in Scan, NEW q \in Scan, PhaseOf(p), PhaseOf(q),
         q.page = p.page, q.token = p.token, q.more = p.more,
         p.pc \notin {"idle", "list", "object"}, q.pc \notin {"idle", "list", "object"},
         ObjectLeft(q) < ObjectLeft(p)
  PROVE  StepsLeft(q) < StepsLeft(p)
<1>1. Unlisted(q) = Unlisted(p)
  BY DEF Unlisted
<1>2. PICK x \in Nat : StepsLeft(p) = x + ObjectLeft(p) /\ StepsLeft(q) = x + ObjectLeft(q)
  <2> DEFINE n == Cardinality(DOMAIN p.page)
             x == PageLeft(p, n - 1)
  <2>1. PageLeft(q, n - 1) = x
    BY <1>1 DEF PageLeft
  <2>2. StepsLeft(p) = x + ObjectLeft(p) /\ StepsLeft(q) = x + ObjectLeft(q)
    BY <2>1 DEF StepsLeft
  <2>3. PICK n1 \in Nat, u \in Nat, w \in Nat, m \in {1, 3} :
          n1 = n - 1 /\ u = Unlisted(p) /\ w = PerObject /\ m = IF p.more THEN 3 ELSE 1
    <3>1. n \in Nat /\ n >= 1 /\ Unlisted(p) \in Nat
      BY CountKeys DEF PhaseOf
    <3>2. n - 1 \in Nat
      BY <3>1
    <3> HIDE DEF n
    <3> QED
      BY <3>1, <3>2, DeepestIs
  <2>4. x = (w + 2) * u + w * n1 + m
    BY <2>3 DEF PageLeft
  <2>5. (w + 2) \in Nat /\ (w + 2) * u \in Nat /\ w * n1 \in Nat
    BY <2>3, Times
  <2> HIDE DEF x
  <2>6. x \in Nat
    BY <2>3, <2>4, <2>5
  <2> QED
    BY <2>2, <2>6
<1>3. ObjectLeft(p) \in Nat /\ ObjectLeft(q) \in Nat
  BY ObjectLeftBound
<1> QED
  BY <1>2, <1>3

LEMMA DoneShrinks ==
  ASSUME TypeInv, NEW s \in Scanners, NextObject(s), scan[s].pc \notin {"idle", "list", "object"}
  PROVE  StepsLeft(scan'[s]) < StepsLeft(scan[s])
<1> DEFINE p == scan[s]
           pg == Restrict(p.page, DOMAIN p.page \ {Key(s)})
           q == [p EXCEPT !.pc = "object", !.id = NoRow, !.snap = BlankRow,
                          !.parent = Top, !.depth = 0, !.page = pg]
<1>1. /\ p \in Scan /\ PhaseOf(p) /\ scan' \in [Scanners -> Scan]
      /\ p.pc \notin {"idle", "list", "object"}
  BY NextTyped DEF TypeInv, TypeOK, PhaseInv
<1>2. scan'[s] = q
  BY DEF NextObject, Becomes, TypeInv, TypeOK
<1>3. Key(s) \in DOMAIN p.page /\ DOMAIN pg = DOMAIN p.page \ {Key(s)}
  BY AtWork, RestrictsTo
<1> HIDE DEF pg
<1>4. q.pc = "object" /\ q.token = p.token /\ q.more = p.more /\ q.page = pg
  BY <1>1 DEF Scan
<1> HIDE DEF q
<1>5. PICK n \in Nat : n = Cardinality(DOMAIN q.page) /\ n + 1 = Cardinality(DOMAIN p.page)
  <2>1. IsFiniteSet(DOMAIN p.page)
    <3>1. DOMAIN p.page \in SUBSET Keys
      BY <1>1 DEF Scan, Pages
    <3> QED
      BY <3>1, KeyAssumption, FS_Subset
  <2>2. Cardinality(DOMAIN pg) = Cardinality(DOMAIN p.page) - 1
    BY <1>3, <2>1, FS_RemoveElement
  <2> QED
    BY <1>1, <1>2, <1>4, <2>2, CountKeys
<1>6. PICK u \in Nat, w \in Nat, m \in {1, 3} :
        u = Unlisted(p) /\ u = Unlisted(q) /\ w = PerObject /\ m = IF p.more THEN 3 ELSE 1
  BY <1>1, <1>4, CountKeys, DeepestIs DEF Unlisted
<1>7. PICK a \in Nat, b \in Nat : a = (w + 2) * u /\ b = w * n
  BY <1>5, <1>6, Times
<1>8. StepsLeft(q) = a + b + m
  BY <1>1, <1>2, <1>4, <1>5, <1>6, <1>7, StepsLeftAt
<1>9. StepsLeft(p) = a + b + m + ObjectLeft(p)
  <2>1. PICK k \in Nat : k = Cardinality(DOMAIN p.page) /\ k - 1 = n
    BY <1>5
  <2> HIDE DEF p
  <2>2. StepsLeft(p) = (w + 2) * u + w * (k - 1) + m + ObjectLeft(p)
    <3>1. StepsLeft(p) = PageLeft(p, k - 1) + ObjectLeft(p)
      BY <1>1, <2>1 DEF StepsLeft
    <3> QED
      BY <1>6, <3>1 DEF PageLeft
  <2>3. w * (k - 1) = b
    BY <1>7, <2>1
  <2> QED
    BY <1>7, <2>2, <2>3
<1> QED
  BY <1>1, <1>2, <1>6, <1>7, <1>8, <1>9, ObjectLeftBound

\* The first object of a page is taken up.
LEMMA TakeShrinks ==
  ASSUME TypeInv, NEW s \in Scanners, TakeObject(s)
  PROVE  StepsLeft(scan'[s]) < StepsLeft(scan[s])
<1> DEFINE p == scan[s]
           q == [p EXCEPT !.pc = "lookup"]
           z == [p EXCEPT !.pc = "list"]
<1>1. p \in Scan /\ PhaseOf(p) /\ p.pc = "object" /\ scan'[s] \in Scan
  BY TakeTyped DEF TypeInv, TypeOK, PhaseInv, TakeObject, At
<1>2. PICK n \in Nat, u \in Nat, w \in Nat, m \in {1, 3} :
        /\ u = Unlisted(p) /\ n = Cardinality(DOMAIN p.page) /\ w = PerObject
        /\ m = (IF p.more THEN 3 ELSE 1) /\ (DOMAIN p.page # {} => n >= 1)
  BY <1>1, CountKeys, DeepestIs
<1>3. PICK a \in Nat, b \in Nat : a = (w + 2) * u /\ b = w * n
  BY <1>2, Times
<1>4. StepsLeft(p) = a + b + m
  BY <1>1, <1>2, <1>3, StepsLeftAt
<1>5. CASE DOMAIN p.page # {} /\ Becomes(s, q)
  <2>1. /\ scan'[s] = q /\ q.pc = "lookup" /\ q.page = p.page /\ q.token = p.token
        /\ q.more = p.more
    BY <1>1, <1>5 DEF Becomes, TypeInv, TypeOK, Scan
  <2> HIDE DEF q
  <2>2. PICK n1 \in Nat : n1 + 1 = n /\ n1 = n - 1
    BY <1>2, <1>5
  <2>3. PICK b1 \in Nat : b1 = w * n1 /\ b1 + w = b
    BY <1>2, <1>3, <2>2, Times
  <2>4. ObjectLeft(q) = w - 1
    BY <1>2, <2>1, DeepestIs DEF ObjectLeft, PerObject
  <2>5. StepsLeft(q) = a + b1 + m + (w - 1)
    <3>1. /\ q \in Scan /\ n = Cardinality(DOMAIN q.page) /\ u = Unlisted(q)
          /\ m = IF q.more THEN 3 ELSE 1
      BY <1>1, <1>2, <2>1 DEF Unlisted
    <3>2. StepsLeft(q) = (w + 2) * u + w * (n - 1) + m + ObjectLeft(q)
      BY <1>2, <2>1, <3>1, StepsLeftAt
    <3>3. w * (n - 1) = b1
      BY <2>2, <2>3
    <3> QED
      BY <1>3, <2>4, <3>2, <3>3
  <2> QED
    BY <1>2, <1>3, <1>4, <2>1, <2>3, <2>5
<1>6. CASE DOMAIN p.page = {} /\ p.more /\ Becomes(s, z)
  <2>1. scan'[s] = z /\ z.pc = "list" /\ z.token = p.token
    BY <1>1, <1>6 DEF Becomes, TypeInv, TypeOK, Scan
  <2> HIDE DEF z
  <2>2. z \in Scan /\ u = Unlisted(z)
    BY <1>1, <1>2, <2>1 DEF Unlisted
  <2>3. StepsLeft(z) = a + 2
    <3>1. PICK n2 \in Nat, m2 \in {1, 3} :
            n2 = Cardinality(DOMAIN z.page) /\ m2 = IF z.more THEN 3 ELSE 1
      BY <2>2, CountKeys
    <3> QED
      BY <1>2, <1>3, <2>1, <2>2, <3>1, StepsLeftAt
  <2> QED
    BY <1>2, <1>3, <1>4, <1>6, <2>1, <2>3
<1>7. CASE Becomes(s, Idle)
  <2>1. scan'[s] = Idle /\ Idle.pc = "idle"
    BY <1>7 DEF Becomes, TypeInv, TypeOK, Idle
  <2>2. StepsLeft(scan'[s]) = 0
    BY <2>1 DEF StepsLeft
  <2> QED
    BY <1>2, <1>3, <1>4, <2>2
<1> QED
  BY <1>5, <1>6, <1>7 DEF TakeObject

LEMMA ListShrinks ==
  ASSUME TypeInv, NEW s \in Scanners, ListObjects(s)
  PROVE  StepsLeft(scan'[s]) < StepsLeft(scan[s])
<1> DEFINE p == scan[s]
           rest == {k \in Objects : k > p.token}
           page == {k \in rest : Cardinality({j \in rest : j <= k}) <= PageSize}
           pg == Restrict(bucket, page)
           tk == IF page = {} THEN p.token ELSE Max(page)
           mr == (page # rest)
           q == [p EXCEPT !.pc = "object", !.page = pg, !.token = tk, !.more = mr]
<1>1. p \in Scan /\ PhaseOf(p) /\ p.pc = "list" /\ scan'[s] \in Scan
  BY ListTyped DEF TypeInv, TypeOK, PhaseInv, ListObjects, At
<1>2. PICK n \in Nat, u \in Nat, w \in Nat, m \in {1, 3} :
        /\ u = Unlisted(p) /\ n = Cardinality(DOMAIN p.page) /\ w = PerObject
        /\ m = (IF p.more THEN 3 ELSE 1)
  BY <1>1, CountKeys, DeepestIs
<1>3. PICK wu \in Nat : wu = w * u /\ (w + 2) * u = wu + 2 * u
  BY <1>2, Times
<1>4. StepsLeft(p) = wu + 2 * u + 2
  BY <1>1, <1>2, <1>3, StepsLeftAt
<1>5. CASE Becomes(s, Idle)
  <2>1. scan'[s] = Idle /\ Idle.pc = "idle"
    BY <1>5 DEF Becomes, TypeInv, TypeOK, Idle
  <2>2. StepsLeft(scan'[s]) = 0
    BY <2>1 DEF StepsLeft
  <2> QED
    BY <1>2, <1>3, <1>4, <2>2
<1>6. CASE Becomes(s, q)
  <2>1. /\ p.token \in Keys \cup {NoKey} /\ Objects \in SUBSET Keys
    BY <1>1 DEF Scan, Objects
  <2>2. /\ page = {} => rest = {}
        /\ page # {} => Cardinality({k \in Keys : k > Max(page)}) + Cardinality(page)
                          <= Cardinality({k \in Keys : k > p.token})
    BY <2>1, PageShrinks, Zenon
  <2>3. DOMAIN pg = page
    BY RestrictsTo
  <2>4. scan'[s] = q
    BY <1>6 DEF Becomes, TypeInv, TypeOK
  <2> HIDE DEF pg, tk, mr
  <2>5. q.pc = "object" /\ q.page = pg /\ q.token = tk /\ q.more = mr
    BY <1>1 DEF Scan
  <2> HIDE DEF q, page, rest
  <2>6. PICK n2 \in Nat, u2 \in Nat, m2 \in {1, 3} :
          /\ n2 = Cardinality(page) /\ u2 = Unlisted(q) /\ m2 = (IF q.more THEN 3 ELSE 1)
          /\ page # {} => n2 >= 1
    BY <1>1, <2>3, <2>4, <2>5, CountKeys
  <2>7. PICK wu2 \in Nat, wn2 \in Nat :
          wu2 = w * u2 /\ (w + 2) * u2 = wu2 + 2 * u2 /\ wn2 = w * n2
    BY <1>2, <2>6, Times
  <2>8. StepsLeft(q) = wu2 + 2 * u2 + wn2 + m2
    BY <1>1, <1>2, <2>3, <2>4, <2>5, <2>6, <2>7, StepsLeftAt
  <2>9. CASE page = {}
    <3>1. u2 = u /\ m2 = 1
      BY <1>2, <2>2, <2>5, <2>6, <2>9 DEF tk, mr, Unlisted
    <3>2. n2 = 0
      BY <2>6, <2>9, FS_EmptySet
    <3>3. wu2 = wu /\ wn2 = 0
      BY <1>2, <1>3, <2>7, <3>1, <3>2
    <3> QED
      BY <1>2, <1>3, <1>4, <2>4, <2>8, <3>1, <3>3
  <2>10. CASE page # {}
    <3>1. u2 + n2 <= u
      BY <1>2, <2>2, <2>5, <2>6, <2>10 DEF tk, Unlisted
    <3>2. w * (u2 + n2) <= w * u
      BY <1>2, <2>6, <3>1, Times
    <3>3. w * (u2 + n2) = wu2 + wn2
      BY <1>2, <2>6, <2>7, Times
    <3>4. wu2 + wn2 <= wu
      BY <1>3, <3>2, <3>3
    <3>5. wu2 + 2 * u2 + wn2 + m2 < wu + 2 * u + 2
      <4>1. /\ u \in Nat /\ wu \in Nat /\ u2 \in Nat /\ wu2 \in Nat /\ wn2 \in Nat
            /\ n2 \in Nat /\ n2 >= 1 /\ m2 <= 3 /\ m2 \in Nat
        BY <1>2, <1>3, <2>6, <2>7, <2>10
      <4> QED
        BY <3>1, <3>4, <4>1
    <3> QED
      BY <1>4, <2>4, <2>8, <3>5
  <2> QED
    BY <2>9, <2>10
<1> QED
  BY <1>5, <1>6 DEF ListObjects

\* The statements on behalf of one object.
LEMMA ObjectShrinks ==
  ASSUME TypeInv, NEW s \in Scanners, Step(s), ~ListObjects(s), ~TakeObject(s)
  PROVE  StepsLeft(scan'[s]) < StepsLeft(scan[s])
<1> DEFINE p == scan[s]
           l == Len(Folders(Key(s)))
<1>1. /\ p \in Scan /\ PhaseOf(p) /\ scan'[s] \in Scan /\ PhaseOf(scan'[s])
      /\ p.depth \in Nat
  BY TypeInvStep DEF TypeInv, TypeOK, PhaseInv, Next, Scan
<1>2. p.pc \notin {"idle", "list", "object"}
  BY DEF Step, Lookup, Refresh, FindFolder, CreateFolder, FoldersDone, MatchName, TakeOver,
         CreateFile, At
<1>3. /\ KeyOf(p) = Key(s) /\ l \in Nat /\ l <= Deepest /\ Deepest \in Nat
  BY <1>2, AtWork, DeepestIs
<1> HIDE DEF l
<1>4. CASE NextObject(s)
  BY <1>2, <1>4, DoneShrinks
<1>5. ASSUME NEW q, Becomes(s, q), q.page = p.page, q.token = p.token, q.more = p.more,
             q.pc \notin {"idle", "list", "object"}, ObjectLeft(q) < ObjectLeft(p)
      PROVE  StepsLeft(scan'[s]) < StepsLeft(scan[s])
  <2>1. scan'[s] = q
    BY <1>5 DEF Becomes, TypeInv, TypeOK
  <2> QED
    BY <1>1, <1>2, <1>5, <2>1, SamePage
<1>6. CASE Lookup(s)
  <2> DEFINE i == FirstOf(Tracking(Key(s)))
             q == [p EXCEPT !.pc = "refresh", !.id = i, !.snap = rows[i]]
             z == [p EXCEPT !.pc = "folder", !.parent = p.root]
  <2>1. p.pc = "lookup" /\ (Becomes(s, q) \/ Becomes(s, z))
    BY <1>6 DEF Lookup, At
  <2>2. /\ q.pc = "refresh" /\ q.page = p.page /\ q.token = p.token /\ q.more = p.more
        /\ z.pc = "folder" /\ z.page = p.page /\ z.token = p.token /\ z.more = p.more
        /\ z.depth = p.depth
    BY <1>1 DEF Scan
  <2> HIDE DEF q, z
  <2>3. ObjectLeft(p) = 2 * Deepest + 4 /\ ObjectLeft(q) = 1
    BY <2>1, <2>2 DEF ObjectLeft
  <2>4. FoldersLeft(z) \in Nat /\ FoldersLeft(z) <= Deepest /\ ObjectLeft(z) = 2 * FoldersLeft(z) + 3
    BY <1>1, <1>3, <2>2 DEF ObjectLeft, FoldersLeft
  <2> QED
    BY <1>3, <1>5, <2>1, <2>2, <2>3, <2>4
<1>7. CASE FindFolder(s)
  <2> DEFINE i == FirstOf(Named("folder", Folders(Key(s))[p.depth + 1], p.parent))
             q == [p EXCEPT !.parent = i, !.depth = @ + 1]
             z == [p EXCEPT !.pc = "createFolder"]
  <2>1. p.pc = "folder" /\ p.depth < l /\ (Becomes(s, q) \/ Becomes(s, z))
    BY <1>7 DEF FindFolder, At, l
  <2>2. /\ q.pc = "folder" /\ q.page = p.page /\ q.token = p.token /\ q.more = p.more
        /\ q.depth = p.depth + 1
        /\ z.pc = "createFolder" /\ z.page = p.page /\ z.token = p.token /\ z.more = p.more
        /\ z.depth = p.depth
    BY <1>1, <2>1 DEF Scan
  <2> HIDE DEF q, z
  <2>3. /\ FoldersLeft(p) = Deepest - p.depth /\ FoldersLeft(z) = FoldersLeft(p)
        /\ FoldersLeft(q) = FoldersLeft(p) - 1 /\ FoldersLeft(p) \in Nat
    BY <1>1, <1>3, <2>1, <2>2 DEF FoldersLeft
  <2>4. /\ ObjectLeft(p) = 2 * FoldersLeft(p) + 3 /\ ObjectLeft(z) = 2 * FoldersLeft(z) + 2
        /\ ObjectLeft(q) = 2 * FoldersLeft(q) + 3
    BY <2>1, <2>2 DEF ObjectLeft
  <2>5. ObjectLeft(z) < ObjectLeft(p) /\ ObjectLeft(q) < ObjectLeft(p)
    BY <2>3, <2>4
  <2> QED
    BY <1>5, <2>1, <2>2, <2>5
<1>8. CASE CreateFolder(s)
  <2> DEFINE q(i) == [p EXCEPT !.pc = "folder", !.parent = i, !.depth = @ + 1]
  <2>1. PICK i \in Ids : Becomes(s, q(i))
    BY <1>8 DEF CreateFolder
  <2>2. p.pc = "createFolder" /\ p.depth < l
    BY <1>1, <1>3, <1>8 DEF CreateFolder, At, PhaseOf, l
  <2>3. /\ q(i).pc = "folder" /\ q(i).page = p.page /\ q(i).token = p.token
        /\ q(i).more = p.more /\ q(i).depth = p.depth + 1
    BY <1>1 DEF Scan
  <2> HIDE DEF q
  <2>4. FoldersLeft(q(i)) = FoldersLeft(p) - 1 /\ FoldersLeft(p) \in Nat
    BY <1>1, <1>3, <2>2, <2>3 DEF FoldersLeft
  <2>5. ObjectLeft(p) = 2 * FoldersLeft(p) + 2 /\ ObjectLeft(q(i)) = 2 * FoldersLeft(q(i)) + 3
    BY <2>2, <2>3 DEF ObjectLeft
  <2>6. ObjectLeft(q(i)) < ObjectLeft(p)
    BY <2>4, <2>5
  <2> QED
    BY <1>5, <2>1, <2>3, <2>6
<1>9. CASE FoldersDone(s) \/ MatchName(s)
  <2>1. CASE FoldersDone(s) /\ ~NextObject(s)
    <3> DEFINE q == [p EXCEPT !.pc = "match"]
    <3>1. p.pc = "folder" /\ Becomes(s, q)
      BY <2>1 DEF FoldersDone, At
    <3>2. /\ q.pc = "match" /\ q.page = p.page /\ q.token = p.token /\ q.more = p.more
      BY <1>1 DEF Scan
    <3> HIDE DEF q
    <3>3. ObjectLeft(p) = 2 * FoldersLeft(p) + 3 /\ FoldersLeft(p) \in Nat /\ ObjectLeft(q) = 2
      BY <1>1, <3>1, <3>2, ObjectLeftBound DEF ObjectLeft
    <3>4. ObjectLeft(q) < ObjectLeft(p)
      BY <3>3
    <3> QED
      BY <1>5, <3>1, <3>2, <3>4
  <2>2. CASE MatchName(s)
    <3> DEFINE i == FirstOf(Named("file", FileName(Key(s)), p.parent))
               q == [p EXCEPT !.pc = "takeOver", !.id = i, !.snap = rows[i]]
               z == [p EXCEPT !.pc = "createFile"]
    <3>1. p.pc = "match" /\ (Becomes(s, q) \/ Becomes(s, z))
      BY <2>2 DEF MatchName, At
    <3>2. /\ q.pc = "takeOver" /\ q.page = p.page /\ q.token = p.token /\ q.more = p.more
          /\ z.pc = "createFile" /\ z.page = p.page /\ z.token = p.token /\ z.more = p.more
      BY <1>1 DEF Scan
    <3> HIDE DEF q, z
    <3>3. ObjectLeft(p) = 2 /\ ObjectLeft(q) = 1 /\ ObjectLeft(z) = 1
      BY <3>1, <3>2 DEF ObjectLeft
    <3> QED
      BY <1>5, <3>1, <3>2, <3>3
  <2> QED
    BY <1>4, <1>9, <2>1, <2>2
<1>10. CASE Refresh(s) \/ TakeOver(s) \/ CreateFile(s)
  BY <1>4, <1>10 DEF Refresh, TakeOver, CreateFile
<1> QED
  BY <1>6, <1>7, <1>8, <1>9, <1>10 DEF Step

LEMMA StepShrinks ==
  ASSUME TypeInv, NEW s \in Scanners, Step(s)
  PROVE  StepsLeft(scan'[s]) < StepsLeft(scan[s])
BY ListShrinks, TakeShrinks, ObjectShrinks

\* What the step of one scan is to another: nothing.
LEMMA OthersWait ==
  ASSUME TypeInv, NEW p \in Scanners, Start(p) \/ Step(p), NEW s \in Scanners, s # p
  PROVE  scan'[s] = scan[s]
<1>1. ASSUME NEW q, Becomes(p, q) PROVE scan'[s] = scan[s]
  BY <1>1 DEF Becomes, TypeInv, TypeOK
<1>2. ASSUME NextObject(p) PROVE scan'[s] = scan[s]
  BY <1>1, <1>2 DEF NextObject
<1>3. CASE Start(p)
  BY <1>1, <1>3 DEF Start, StartScan, StartScanInto, Begin
<1>4. CASE ListObjects(p) \/ TakeObject(p) \/ Lookup(p)
  BY <1>1, <1>4 DEF ListObjects, TakeObject, Lookup
<1>5. CASE FindFolder(p) \/ CreateFolder(p) \/ FoldersDone(p) \/ MatchName(p)
  BY <1>1, <1>2, <1>5 DEF FindFolder, CreateFolder, FoldersDone, MatchName
<1>6. CASE Refresh(p) \/ TakeOver(p) \/ CreateFile(p)
  BY <1>2, <1>6 DEF Refresh, TakeOver, CreateFile
<1> QED
  BY <1>3, <1>4, <1>5, <1>6 DEF Step

\* A scan is over after a number of statements that the keys and their depth
\* bound, however the bucket and the drive change while it runs: the token only
\* goes up, and what is put behind it is left to the next scan.
THEOREM ScansRunOut == Spec => []WorkBounded /\ WorkRunsOut
<1>1. TypeInv => WorkBounded
  BY StepsLeftBound DEF WorkBounded, TypeInv, TypeOK, PhaseInv, At
<1>2. TypeInv /\ [Next]_vars =>
        [\A s \in Scanners :
           /\ Step(s) => StepsLeft(scan'[s]) < StepsLeft(scan[s])
           /\ ~At(s, "idle") =>
                scan'[s] = scan[s] \/ StepsLeft(scan'[s]) < StepsLeft(scan[s])]_vars
  <2> SUFFICES ASSUME TypeInv, Next, NEW s \in Scanners, ~At(s, "idle"), scan'[s] # scan[s]
               PROVE  StepsLeft(scan'[s]) < StepsLeft(scan[s])
    BY StepShrinks
  <2>1. ~(Edit \/ \E r \in Requests : Request(r))
    BY OthersAside
  <2>2. PICK p \in Scanners : Start(p) \/ Step(p)
    BY <2>1 DEF Next
  <2>3. p = s
    BY <2>2, OthersWait
  <2>4. ~Start(s)
    BY DEF Start, StartScan, StartScanInto, Begin
  <2> QED
    BY <2>2, <2>3, <2>4, StepShrinks
<1> QED
  BY <1>1, <1>2, TypeInvAlways, PTL DEF Spec, WorkRunsOut

==============================================================================
