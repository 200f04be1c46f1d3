-------------------------- MODULE FilePreview_proofs --------------------------
(***************************************************************************)
(* What a reader of a file is answered, for every number of uploads and      *)
(* readers, every size and every cap.  The argument: a row says "ready" only *)
(* under the size of its object (or over an empty one), and so does every    *)
(* copy of it that a completion, a scan or a reader holds, since an object    *)
(* that is there never changes.  What a reader derives from such a copy is true of   *)
(* the object whenever it comes to read that.                                *)
(***************************************************************************)
EXTENDS FilePreview, TLAPS

\* o stands for the object, q for a reader.
Matches(x, o) == x.status = "ready" => o \in {x.size, 0}

\* What a scan listed is still there, and what it will save is of that size.
ScanTrue(q, o) ==
  /\ q.seen \in {NoObject, o}
  /\ q.snap.size \in {0, o} /\ Matches(q.snap, o)

RowsMatch ==
  /\ Matches(row, object) /\ ScanTrue(scan, object)
  /\ \A r \in Requests : Matches(req[r].snap, object)

WithinCap(o) == 0 <= o /\ o <= MaxPreviewProxyBytes

InHand(q) == q.pc \in {"readAgain", "get"}

RangeHeld(q) ==
  InHand(q) /\ q.op = "range" =>
    /\ ParseRangeHeader(q.asked, q.item.size).ok
    /\ q.checked => q.item.status = "ready"

BytesOf(o, n) == 0..(o + n)

RangeServed(q, o) ==
  q.checked =>
    /\ q.reply.code = "part" =>
         \A b \in BytesOf(o, q.reply.body) :
           (q.reply.offset <= b /\ b < q.reply.offset + q.reply.body)
             <=> Asks(q.asked, b) /\ b < o
    /\ q.reply.code = "badRange" =>
         \A b \in BytesOf(o, q.reply.body) : ~(Asks(q.asked, b) /\ b < o)

LengthTrue(q, o) ==
  /\ q.reply.code = "part" /\ q.checked =>
       q.reply.length = q.reply.body /\ q.reply.offset + q.reply.length <= q.reply.total
  /\ q.reply.code = "whole" /\ q.item.status = "ready" =>
       q.reply.length \in {NoLength, q.reply.body} \/ o = 0

Capped(q) ==
  q.checked /\ q.reply.code \in {"whole", "part"} => q.reply.body <= MaxPreviewProxyBytes

SentAway(q, o) == q.checked /\ q.reply.code = "tooLarge" => o = 0 \/ o > MaxPreviewProxyBytes

ReaderInv(q, o) ==
  /\ Matches(q.item, o)
  /\ q.told => WithinCap(o)
  /\ q.checked => o # NoObject
  /\ InHand(q) /\ q.checked => WithinCap(o)
  /\ RangeHeld(q)
  /\ q.pc # "idle" => q.reply.code = "none"
  /\ RangeServed(q, o) /\ LengthTrue(q, o) /\ Capped(q) /\ SentAway(q, o)

ReadersHold == \A d \in Readers : ReaderInv(reader[d], object)

IInv == PreviewTypeOK /\ RowsMatch /\ ReadersHold

-----------------------------------------------------------------------------
(* Arithmetic of a range.                                                  *)

\* The parts of a parsed range.
LEMMA Parsed ==
  ASSUME NEW range, NEW size
  PROVE  LET p == ParseRangeHeader(range, size)
         IN  /\ p.ok = (range.from < size /\ (range.to = Open \/ range.from <= range.to))
             /\ p.offset = range.from
             /\ p.length = (IF range.to = Open \/ range.to >= size THEN size - 1 ELSE range.to)
                            - range.from + 1
BY DEF ParseRangeHeader

\* What is parsed of a range that fits is a part of the file, not empty.
LEMMA ParsedFits ==
  ASSUME NEW range \in ByteRange, NEW size \in Nat, ParseRangeHeader(range, size).ok
  PROVE  /\ ParseRangeHeader(range, size).offset \in Nat
         /\ ParseRangeHeader(range, size).length \in Nat \ {0}
         /\ ParseRangeHeader(range, size).offset + ParseRangeHeader(range, size).length <= size
<1>1. range.from < size /\ (range.to = Open \/ range.from <= range.to)
  BY Parsed, Zenon
<1>2. range.from \in Nat /\ range.to \in Nat \cup {Open}
  BY DEF ByteRange
<1> QED
  BY <1>1, <1>2, Parsed, SMT DEF Open

\* It holds the bytes that were asked for and that the file has.
LEMMA ParsedAsAsked ==
  ASSUME NEW range \in ByteRange, NEW size \in Nat, ParseRangeHeader(range, size).ok,
         NEW b \in Nat
  PROVE  LET p == ParseRangeHeader(range, size)
         IN  (p.offset <= b /\ b < p.offset + p.length) <=> (Asks(range, b) /\ b < size)
<1>1. range.from < size /\ (range.to = Open \/ range.from <= range.to)
  BY Parsed, Zenon
<1>2. range.from \in Nat /\ range.to \in Nat \cup {Open}
  BY DEF ByteRange
<1> QED
  BY <1>1, <1>2, Parsed, SMT DEF Open, Asks

\* A range that does not fit asks for no byte of the file.
LEMMA RefusedHasNone ==
  ASSUME NEW range \in ByteRange, NEW size \in Nat, ~ParseRangeHeader(range, size).ok,
         NEW b \in Nat
  PROVE  ~(Asks(range, b) /\ b < size)
<1>1. ~(range.from < size /\ (range.to = Open \/ range.from <= range.to))
  BY Parsed, Zenon
<1>2. range.from \in Nat /\ range.to \in Nat \cup {Open}
  BY DEF ByteRange
<1> QED
  BY <1>1, <1>2, SMT DEF Open, Asks

-----------------------------------------------------------------------------
(* The uploads: types, and rows that match the object.                     *)

LEMMA SizesAreNat == \A n \in Sizes \cup {0} : n \in Nat /\ n \in Int
<1> TAKE n \in Sizes \cup {0}
<1>1. CASE n \in Sizes
  <2>1. n \in Nat
    BY <1>1, SizeAssumption, Zenon
  <2> QED
    BY <2>1
<1>2. CASE n = 0
  BY <1>2
<1> QED
  BY <1>1, <1>2

LEMMA NoRowIsRow == NoRow \in Row /\ Idle \in Request /\ NoScan \in Scan
<1>1. NoRow \in Row
  BY DEF NoRow, Row
<1>2. Idle \in Request
  BY <1>1 DEF Idle, Request
<1>3. NoScan \in Scan
  BY <1>1 DEF NoScan, Scan
<1> QED
  BY <1>1, <1>2, <1>3

LEMMA NoScanTrue == \A o : ScanTrue(NoScan, o)
BY DEF ScanTrue, NoScan, NoRow, Matches

LEMMA UploadInit == Init => TypeOK /\ RowsMatch
<1> SUFFICES ASSUME Init PROVE TypeOK /\ RowsMatch
  OBVIOUS
<1>1. TypeOK
  <2>0. url \in BOOLEAN /\ behind \in BOOLEAN
    BY Zenon DEF Init
  <2>1. used \in Int /\ completions \in Nat
    BY DEF Init
  <2>2. row \in Row /\ object \in Sizes \cup {NoObject} /\ req \in [Requests -> Request]
        /\ scan \in Scan
    BY NoRowIsRow DEF Init
  <2> QED
    BY <2>0, <2>1, <2>2 DEF TypeOK
<1>2. Matches(NoRow, object)
  BY DEF Matches, NoRow
<1>3. \A r \in Requests : req[r].snap = NoRow
  BY DEF Init, Idle
<1>4. scan = NoScan /\ row = NoRow
  BY DEF Init
<1> QED
  BY <1>1, <1>2, <1>3, <1>4, NoScanTrue DEF RowsMatch

\* A request that changes alone, to something well typed that matches.
LEMMA RequestChanges ==
  ASSUME TypeOK, RowsMatch, NEW r \in Requests, NEW q \in Request, Becomes(r, q),
         Matches(q.snap, object)
  PROVE  /\ req' \in [Requests -> Request]
         /\ \A p \in Requests : Matches(req'[p].snap, object)
<1>1. req' = [req EXCEPT ![r] = q] /\ req \in [Requests -> Request]
  BY DEF Becomes, TypeOK
<1>2. \A p \in Requests : req'[p] = q \/ req'[p] = req[p]
  BY <1>1
<1> QED
  BY <1>1, <1>2 DEF RowsMatch

\* The same where only the place in the program changes.
LEMMA RequestGoesOn ==
  ASSUME TypeOK, RowsMatch, NEW r \in Requests,
         \/ Finish(r)
         \/ \E label \in {"insert", "presign", "read", "getDriver", "head", "saveReady",
                          "saveFailed", "count"} : GoesTo(r, label)
  PROVE  /\ req' \in [Requests -> Request]
         /\ \A p \in Requests : Matches(req'[p].snap, object)
<1>1. CASE Finish(r)
  <2>1. Matches(Idle.snap, object)
    BY DEF Matches, Idle, NoRow
  <2> QED
    BY <1>1, <2>1, NoRowIsRow, RequestChanges DEF Finish
<1>2. ASSUME NEW label \in {"insert", "presign", "read", "getDriver", "head", "saveReady",
                           "saveFailed", "count"}, GoesTo(r, label)
      PROVE  /\ req' \in [Requests -> Request]
             /\ \A p \in Requests : Matches(req'[p].snap, object)
  <2> DEFINE q == [req[r] EXCEPT !.pc = label]
  <2>1. req[r] \in Request
    BY DEF TypeOK
  <2>2. q \in Request /\ q.snap = req[r].snap
    BY <2>1 DEF Request
  <2>3. Becomes(r, q)
    BY <1>2 DEF GoesTo
  <2>4. Matches(q.snap, object)
    BY <2>2 DEF RowsMatch
  <2> HIDE DEF q
  <2> QED
    BY <2>2, <2>3, <2>4, RequestChanges
<1> QED
  BY <1>1, <1>2

\* Steps that change no object keep both.
LEMMA RequestKeeps ==
  ASSUME TypeOK, RowsMatch, NEW r \in Requests, Start(r) \/ Advance(r)
  PROVE  TypeOK' /\ RowsMatch' /\ object' = object
<1>1. object' = object
  BY DEF Start, StartInitiate, StartComplete, Advance, InsertPending, Presign, ReadItem,
         GetDriver, GetMetadata, SaveItem, CountBytes
<1>2. req' \in [Requests -> Request] /\ \A p \in Requests : Matches(req'[p].snap, object)
  <2>1. CASE StartInitiate(r) \/ StartComplete(r) \/ InsertPending(r) \/ Presign(r)
             \/ SaveItem(r) \/ CountBytes(r)
    BY <2>1, RequestGoesOn DEF StartInitiate, StartComplete, InsertPending, Presign, SaveItem,
                               CountBytes
  <2>2. CASE ReadItem(r)
    <3>1. CASE row.state = "live"
      <4> DEFINE q == [req[r] EXCEPT !.snap = row, !.pc = "getDriver"]
      <4>1. q \in Request /\ q.snap = row
        BY DEF TypeOK, Request
      <4>2. Becomes(r, q)
        BY <2>2, <3>1 DEF ReadItem
      <4> HIDE DEF q
      <4> QED
        BY <4>1, <4>2, RequestChanges DEF RowsMatch
    <3>2. CASE row.state # "live"
      BY <2>2, <3>2, RequestGoesOn DEF ReadItem
    <3> QED
      BY <3>1, <3>2
  <2>3. CASE GetDriver(r)
    <3>1. CASE Becomes(r, [req[r] EXCEPT !.acct = used, !.pc = "head"])
      <4> DEFINE q == [req[r] EXCEPT !.acct = used, !.pc = "head"]
      <4>1. q \in Request /\ q.snap = req[r].snap
        BY DEF TypeOK, Request
      <4>2. Becomes(r, q)
        BY <3>1
      <4> HIDE DEF q
      <4> QED
        BY <4>1, <4>2, RequestChanges DEF RowsMatch
    <3>2. CASE Finish(r)
      BY <3>2, RequestGoesOn
    <3> QED
      BY <2>3, <3>1, <3>2 DEF GetDriver
  <2>4. CASE GetMetadata(r)
    <3>0. req[r] \in Request /\ req[r].snap \in Row
      BY DEF TypeOK, Request
    <3>1. CASE /\ object # NoObject
               /\ Becomes(r, [req[r] EXCEPT !.snap.status = "ready",
                                            !.snap.size = IF object > 0 THEN object ELSE @,
                                            !.pc = "saveReady"])
      <4> DEFINE size == IF object > 0 THEN object ELSE req[r].snap.size
                 x == [req[r].snap EXCEPT !.status = "ready", !.size = size]
                 q == [req[r] EXCEPT !.snap.status = "ready", !.snap.size = size,
                                     !.pc = "saveReady"]
      <4>1. object \in Sizes /\ size \in Sizes \cup {0}
        BY <3>0, <3>1 DEF TypeOK, Row
      <4>2. x \in Row /\ x.size = size
        BY <3>0, <4>1 DEF Row
      <4>3. object \in {size, 0}
        BY <4>1, SizeAssumption, SMT
      <4>4. q.snap = x /\ q \in Request
        BY <3>0, <4>2 DEF Request, Row
      <4>5. Becomes(r, q)
        BY <3>1
      <4>6. Matches(q.snap, object)
        BY <4>2, <4>3, <4>4 DEF Matches
      <4> HIDE DEF q
      <4> QED
        BY <4>4, <4>5, <4>6, RequestChanges
    <3>2. CASE Becomes(r, [req[r] EXCEPT !.snap.status = "failed", !.pc = "saveFailed"])
      <4> DEFINE q == [req[r] EXCEPT !.snap.status = "failed", !.pc = "saveFailed"]
      <4>1. q \in Request /\ q.snap.status = "failed"
        BY <3>0 DEF Request, Row
      <4>2. Becomes(r, q)
        BY <3>2
      <4>3. Matches(q.snap, object)
        BY <4>1 DEF Matches
      <4> HIDE DEF q
      <4> QED
        BY <4>1, <4>2, <4>3, RequestChanges
    <3> QED
      BY <2>4, <3>1, <3>2 DEF GetMetadata
  <2> QED
    BY <2>1, <2>2, <2>3, <2>4 DEF Start, Advance
<1>3. row' \in Row /\ Matches(row', object)
  <2>0. row \in Row /\ req[r] \in Request /\ req[r].snap \in Row
    BY DEF TypeOK, Request
  <2>1. CASE row' = row
    BY <2>0, <2>1 DEF RowsMatch
  <2>2. CASE InsertPending(r)
    <3>1. PICK size \in Sizes : row' = [state |-> "live", status |-> "uploading", size |-> size]
      BY <2>2 DEF InsertPending
    <3> QED
      BY <3>1 DEF Row, Matches
  <2>3. CASE Presign(r)
    <3>1. row' = row \/ row' = [row EXCEPT !.state = "gone"]
      BY <2>3 DEF Presign
    <3>2. row' \in Row /\ row'.status = row.status /\ row'.size = row.size
      BY <2>0, <3>1 DEF Row
    <3> QED
      BY <3>2 DEF RowsMatch, Matches
  <2>4. CASE SaveItem(r)
    BY <2>0, <2>4 DEF SaveItem, RowsMatch
  <2>5. row' = row \/ InsertPending(r) \/ Presign(r) \/ SaveItem(r)
    BY DEF Start, StartInitiate, StartComplete, Advance, ReadItem, GetDriver, GetMetadata,
           CountBytes
  <2> QED
    BY <2>1, <2>2, <2>3, <2>4, <2>5
<1>4. used' \in Int /\ completions' \in Nat /\ url' \in BOOLEAN /\ behind' \in BOOLEAN
  <2>1. used' \in Int
    <3>1. CASE CountBytes(r)
      <4>0. req[r] \in Request /\ used \in Int
        BY DEF TypeOK
      <4>1. req[r].acct \in Int /\ req[r].snap \in Row
        BY <4>0 DEF Request
      <4>2. req[r].snap.size \in Sizes \cup {0}
        BY <4>1 DEF Row
      <4>3. req[r].snap.size \in Int
        BY <4>2, SizesAreNat, Zenon
      <4> QED
        BY <3>1, <4>0, <4>1, <4>3 DEF CountBytes
    <3>2. CASE used' = used
      BY <3>2 DEF TypeOK
    <3> QED
      BY <3>1, <3>2 DEF Start, StartInitiate, StartComplete, Advance, InsertPending, Presign,
                        ReadItem, GetDriver, GetMetadata, SaveItem, scanVars
  <2>2. completions' = completions \/ completions' = completions + 1
    BY DEF Start, StartInitiate, StartComplete, Advance, InsertPending, Presign, ReadItem,
           GetDriver, GetMetadata, SaveItem, CountBytes
  <2>3. url' = url \/ url' = TRUE
    BY DEF Start, StartInitiate, StartComplete, Advance, InsertPending, Presign, ReadItem,
           GetDriver, GetMetadata, SaveItem, CountBytes
  <2>4. completions' \in Nat
    BY <2>2 DEF TypeOK
  <2>5. url' \in BOOLEAN
    BY <2>3, Zenon DEF TypeOK
  <2>6. behind' = behind \/ behind' = FALSE
    BY DEF Start, StartInitiate, StartComplete, Advance, InsertPending, Presign, ReadItem,
           GetDriver, GetMetadata, SaveItem, CountBytes, scanVars
  <2>7. behind' \in BOOLEAN
    BY <2>6, Zenon DEF TypeOK
  <2> QED
    BY <2>1, <2>4, <2>5, <2>7
<1>5. scan' \in Scan /\ ScanTrue(scan', object)
  <2>0. scan \in Scan /\ ScanTrue(scan, object)
    BY DEF TypeOK, RowsMatch
  <2>1. CASE SaveItem(r)
    <3>1. scan' = [scan EXCEPT !.overtaken = scan.pc = "saveUsed"]
      BY <2>1 DEF SaveItem
    <3>2. scan' \in Scan /\ scan'.seen = scan.seen /\ scan'.snap = scan.snap
      BY <2>0, <3>1 DEF Scan
    <3> QED
      BY <2>0, <3>2 DEF ScanTrue
  <2>2. CASE scan' = scan
    BY <2>0, <2>2
  <2> QED
    BY <2>1, <2>2 DEF Start, StartInitiate, StartComplete, Advance, InsertPending, Presign,
                      ReadItem, GetDriver, GetMetadata, CountBytes, scanVars
<1>6. TypeOK'
  BY <1>1, <1>2, <1>3, <1>4, <1>5 DEF TypeOK
<1>7. RowsMatch'
  BY <1>1, <1>2, <1>3, <1>5 DEF RowsMatch
<1> QED
  BY <1>1, <1>6, <1>7

\* Nothing is ready while there is no object.
LEMMA ReadyIsThere ==
  ASSUME NEW x \in Row, Matches(x, NoObject) PROVE x.status # "ready"
BY SizeAssumption, SMT DEF Matches, NoObject, Row

LEMMA SendKeeps ==
  ASSUME TypeOK, RowsMatch, Send
  PROVE  TypeOK' /\ RowsMatch' /\ object = NoObject /\ object' \in Nat
<1>1. /\ object = NoObject /\ object' \in Sizes
      /\ UNCHANGED <<row, used, url, completions, req, scan, behind>>
  BY DEF Send, scanVars
<1>2. row \in Row /\ scan.snap \in Row /\ \A r \in Requests : req[r].snap \in Row
  BY DEF TypeOK, Request, Scan
<1>3. row.status # "ready" /\ \A r \in Requests : req[r].snap.status # "ready"
  BY <1>1, <1>2, ReadyIsThere DEF RowsMatch
<1>4. ScanTrue(scan, object')
  <2>1. scan.snap.status # "ready" /\ scan.seen = NoObject /\ scan.snap.size \in {0, NoObject}
    BY <1>1, <1>2, ReadyIsThere DEF RowsMatch, ScanTrue
  <2>2. scan.snap.size = 0
    BY <1>2, <2>1, SizeAssumption, SMT DEF Row, NoObject
  <2> QED
    BY <2>1, <2>2 DEF ScanTrue, Matches
<1>5. RowsMatch'
  BY <1>1, <1>3, <1>4 DEF RowsMatch, Matches
<1>6. object' \in Nat
  BY <1>1, SizeAssumption
<1> QED
  BY <1>1, <1>5, <1>6 DEF TypeOK

\* What a scan changes: itself, the row as it found it, and the sum.
LEMMA ScanKeeps ==
  ASSUME TypeOK, RowsMatch, ScanBucket
  PROVE  TypeOK' /\ RowsMatch' /\ object' = object
<1>0. /\ row \in Row /\ object \in Sizes \cup {NoObject} /\ scan \in Scan /\ ScanTrue(scan, object)
      /\ scan.snap \in Row /\ scan.seen \in Sizes \cup {NoObject} /\ scan.total \in Nat
      /\ Matches(row, object)
  BY DEF TypeOK, RowsMatch, Scan
<1>1. UNCHANGED <<object, url, completions, req>>
  BY DEF ScanBucket, ListObjects, FindTracked, RefreshTracked, ListingFails, SumSizes, SaveUsed,
         Scans
<1>2. scan' \in Scan /\ ScanTrue(scan', object)
  <2>1. CASE ListObjects
    <3>1. scan' = [NoScan EXCEPT !.seen = object, !.pc = "find"]
      BY <2>1 DEF ListObjects, Scans
    <3>2. scan' \in Scan /\ scan'.seen = object /\ scan'.snap = NoScan.snap
      BY <1>0, <3>1, NoRowIsRow DEF Scan
    <3> QED
      BY <3>2, NoScanTrue DEF ScanTrue
  <2>2. CASE FindTracked
    <3>1. CASE scan.seen # NoObject /\ row.state = "live"
      <4> DEFINE x == [row EXCEPT !.status = "ready", !.size = scan.seen]
      <4>1. scan' = [scan EXCEPT !.snap = x, !.pc = "refresh"]
        BY <2>2, <3>1 DEF FindTracked, Scans
      <4>2. scan.seen = object /\ object \in Sizes
        BY <1>0, <3>1 DEF ScanTrue
      <4>3. x \in Row /\ x.size = object
        BY <1>0, <4>2 DEF Row
      <4> HIDE DEF x
      <4>4. scan' \in Scan /\ scan'.seen = scan.seen /\ scan'.snap = x
        BY <1>0, <4>1, <4>3 DEF Scan
      <4> QED
        BY <4>2, <4>3, <4>4 DEF ScanTrue, Matches
    <3>2. CASE ~(scan.seen # NoObject /\ row.state = "live")
      <4>1. scan' = [NoScan EXCEPT !.pc = "listMore"]
        BY <2>2, <3>2 DEF FindTracked, Scans
      <4>2. scan' \in Scan /\ scan'.seen = NoScan.seen /\ scan'.snap = NoScan.snap
        BY <4>1, NoRowIsRow DEF Scan
      <4> QED
        BY <4>2, NoScanTrue DEF ScanTrue
    <3> QED
      BY <3>1, <3>2
  <2>3. CASE RefreshTracked
    <3>1. scan' = [NoScan EXCEPT !.pc = "listMore"]
      BY <2>3 DEF RefreshTracked, Scans
    <3>2. scan' \in Scan /\ scan'.seen = NoScan.seen /\ scan'.snap = NoScan.snap
      BY <3>1, NoRowIsRow DEF Scan
    <3> QED
      BY <3>2, NoScanTrue DEF ScanTrue
  <2>4. CASE ListingFails \/ SaveUsed
    BY <2>4, NoRowIsRow, NoScanTrue DEF ListingFails, SaveUsed, Scans
  <2>5. CASE SumSizes
    <3> DEFINE n == IF row.state = "live" THEN row.size ELSE 0
    <3>1. n \in Nat
      BY <1>0, SizesAreNat DEF Row
    <3>2. scan' = [NoScan EXCEPT !.total = n, !.pc = "saveUsed"]
      BY <2>5 DEF SumSizes, Scans
    <3> HIDE DEF n
    <3>3. scan' \in Scan /\ scan'.seen = NoScan.seen /\ scan'.snap = NoScan.snap
      BY <3>1, <3>2, NoRowIsRow DEF Scan
    <3> QED
      BY <3>3, NoScanTrue DEF ScanTrue
  <2> QED
    BY <2>1, <2>2, <2>3, <2>4, <2>5 DEF ScanBucket
<1>3. row' \in Row /\ Matches(row', object)
  BY <1>0 DEF ScanBucket, ListObjects, FindTracked, RefreshTracked, ListingFails, SumSizes,
              SaveUsed, ScanTrue
<1>4. used' \in Int
  <2>1. used' = used \/ used' = scan.total
    BY DEF ScanBucket, ListObjects, FindTracked, RefreshTracked, ListingFails, SumSizes, SaveUsed
  <2> QED
    BY <1>0, <2>1 DEF TypeOK
<1>5. behind' \in BOOLEAN
  <2>1. behind' \in {behind, TRUE, scan.overtaken}
    BY Zenon DEF ScanBucket, ListObjects, FindTracked, RefreshTracked, ListingFails, SumSizes, SaveUsed
  <2>2. behind \in BOOLEAN /\ scan.overtaken \in BOOLEAN
    BY <1>0 DEF TypeOK, Scan
  <2> QED
    BY <2>1, <2>2, Zenon
<1>6. TypeOK'
  BY <1>1, <1>2, <1>3, <1>4, <1>5 DEF TypeOK
<1>7. RowsMatch'
  BY <1>1, <1>2, <1>3 DEF RowsMatch
<1> QED
  BY <1>1, <1>6, <1>7

-----------------------------------------------------------------------------
(* The readers.                                                            *)

\* A reader that changes alone, to something well typed that is true.
LEMMA ReaderChanges ==
  ASSUME IInv, NEW d \in Readers, NEW q \in Reader, Continue(d, q), ReaderInv(q, object)
  PROVE  IInv'
<1>1. /\ reader' = [reader EXCEPT ![d] = q] /\ reader \in [Readers -> Reader]
      /\ UNCHANGED <<row, object, used, url, completions, req, scan, behind>>
  BY DEF Continue, IInv, PreviewTypeOK, uploadVars, vars
<1>2. reader' \in [Readers -> Reader] /\ \A e \in Readers : reader'[e] \in {q, reader[e]}
  BY <1>1
<1>3. ReadersHold'
  BY <1>1, <1>2 DEF IInv, ReadersHold
<1>4. TypeOK' /\ RowsMatch'
  BY <1>1 DEF IInv, PreviewTypeOK, TypeOK, RowsMatch
<1> QED
  BY <1>2, <1>3, <1>4 DEF IInv, PreviewTypeOK

\* An answer without a body that says nothing of the file.
Plain == {"failed", "direct", "proxy", "fallback"}

LEMMA NoReplyTyped ==
  /\ NoReply \in Reply /\ NoReply.body = 0 /\ NoReply.code = "none"
  /\ \A code \in {"failed", "tooLarge", "badRange", "direct", "proxy", "fallback"} :
       LET reply == [NoReply EXCEPT !.code = code]
       IN  reply \in Reply /\ reply.code = code /\ reply.body = 0
BY DEF NoReply, Reply, NoLength

LEMMA RestingTyped == Resting \in Reader
<1>1. [from |-> 0, to |-> Open] \in ByteRange
  BY DEF ByteRange
<1> QED
  BY <1>1, NoRowIsRow, NoReplyTyped DEF Resting, Reader

LEMMA PreviewInitHolds == PreviewInit => IInv
<1> SUFFICES ASSUME PreviewInit PROVE IInv
  OBVIOUS
<1>1. TypeOK /\ RowsMatch
  BY UploadInit DEF PreviewInit
<1>2. reader \in [Readers -> Reader] /\ \A d \in Readers : reader[d] = Resting
  BY RestingTyped DEF PreviewInit
<1>3. ReaderInv(Resting, object)
  BY DEF ReaderInv, Resting, NoReply, NoRow, Matches, InHand, RangeHeld, RangeServed,
         LengthTrue, Capped, SentAway
<1> QED
  BY <1>1, <1>2, <1>3 DEF IInv, PreviewTypeOK, ReadersHold

\* What a step may rely on.
LEMMA ReaderFacts ==
  ASSUME IInv, NEW d \in Readers
  PROVE  /\ reader[d] \in Reader /\ ReaderInv(reader[d], object)
         /\ reader[d].item \in Row /\ reader[d].asked \in ByteRange
         /\ row \in Row /\ Matches(row, object)
<1>1. reader[d] \in Reader /\ ReaderInv(reader[d], object)
  BY DEF IInv, PreviewTypeOK, ReadersHold
<1>2. row \in Row /\ Matches(row, object)
  BY DEF IInv, PreviewTypeOK, TypeOK, RowsMatch
<1> QED
  BY <1>1, <1>2 DEF Reader

LEMMA RefuseKeeps ==
  ASSUME IInv, NEW d \in Readers, Refuse(d, "failed")
  PROVE  IInv'
<1> DEFINE reply == [NoReply EXCEPT !.code = "failed"]
           q == [reader[d] EXCEPT !.pc = "idle", !.reply = reply]
<1>1. reply \in Reply /\ reply.code = "failed"
  BY NoReplyTyped
<1>2. Continue(d, q)
  BY DEF Refuse, Answer
<1> HIDE DEF reply
<1>3. /\ q \in Reader /\ q.item = reader[d].item /\ q.pc = "idle" /\ q.reply = reply
      /\ q.told = reader[d].told /\ q.checked = reader[d].checked
  BY <1>1, ReaderFacts DEF Reader
<1> HIDE DEF q
<1>4. ReaderInv(q, object)
  BY <1>1, <1>3, ReaderFacts DEF ReaderInv, InHand, RangeHeld, RangeServed, LengthTrue,
                                 Capped, SentAway
<1> QED
  BY <1>2, <1>3, <1>4, ReaderChanges

LEMMA AskKeeps ==
  ASSUME IInv, NEW d \in Readers, NEW op \in {"preview", "range", "whole", "stream"},
         NEW label \in {"readPreview", "readContent", "readAgain"},
         label = "readAgain" => op = "stream",
         NEW range \in ByteRange, Ask(d, op, label, range)
  PROVE  IInv'
<1> DEFINE told == IF op = "preview" THEN FALSE ELSE reader[d].told
           q == [Resting EXCEPT !.op = op, !.pc = label, !.asked = range, !.told = told]
<1>1. Continue(d, q)
  BY DEF Ask
<1>2. told \in BOOLEAN /\ (told => reader[d].told)
  BY ReaderFacts DEF Reader
<1> HIDE DEF told
<1>3. /\ q \in Reader /\ q.item = NoRow /\ q.pc = label /\ q.reply = NoReply /\ q.op = op
      /\ q.told = told /\ q.checked = FALSE
  BY <1>2, RestingTyped DEF Reader, Resting
<1> HIDE DEF q
<1>4. ReaderInv(q, object)
  <2>1. Matches(q.item, object) /\ q.item.status = "uploading"
    BY <1>3 DEF Matches, NoRow
  <2>2. q.reply.code = "none"
    BY <1>3, NoReplyTyped
  <2>3. q.told => WithinCap(object)
    BY <1>2, <1>3, ReaderFacts DEF ReaderInv
  <2>4. RangeHeld(q)
    BY <1>3 DEF RangeHeld, InHand
  <2> QED
    BY <1>3, <2>1, <2>2, <2>3, <2>4
    DEF ReaderInv, RangeServed, LengthTrue, Capped, SentAway
<1> QED
  BY <1>1, <1>3, <1>4, ReaderChanges

LEMMA AskSomethingKeeps ==
  ASSUME IInv, NEW d \in Readers, AskSomething(d)
  PROVE  IInv'
<1>1. Resting.asked \in ByteRange
  BY RestingTyped DEF Reader
<1>2. CASE Ask(d, "preview", "readPreview", Resting.asked)
  BY <1>1, <1>2, AskKeeps
<1>3. CASE Ask(d, "whole", "readContent", Resting.asked)
  BY <1>1, <1>3, AskKeeps
<1>4. ASSUME NEW range \in Ranges, Ask(d, "range", "readContent", range) PROVE IInv'
  BY <1>4, AskKeeps, RangeAssumption
<1>5. CASE Ask(d, "stream", "readAgain", Resting.asked)
  BY <1>1, <1>5, AskKeeps
<1> QED
  BY <1>2, <1>3, <1>4, <1>5 DEF AskSomething, AskPreview, AskContent, AskDownload

LEMMA ReadForPreviewKeeps ==
  ASSUME IInv, NEW d \in Readers, ReadForPreview(d)
  PROVE  IInv'
<1>1. CASE row.state = "live"
  <2> DEFINE q == [reader[d] EXCEPT !.item = row, !.pc = "resolve"]
  <2>1. Continue(d, q) /\ reader[d].pc # "idle"
    BY <1>1 DEF ReadForPreview, ReaderAt
  <2>2. /\ q \in Reader /\ q.item = row /\ q.pc = "resolve" /\ q.reply = reader[d].reply
        /\ q.told = reader[d].told /\ q.checked = reader[d].checked
    BY ReaderFacts DEF Reader
  <2> HIDE DEF q
  <2>3. ReaderInv(q, object)
    BY <2>1, <2>2, ReaderFacts DEF ReaderInv, InHand, RangeHeld, RangeServed, LengthTrue,
                                   Capped, SentAway
  <2> QED
    BY <2>1, <2>2, <2>3, ReaderChanges
<1>2. CASE row.state # "live"
  BY <1>2, RefuseKeeps DEF ReadForPreview
<1> QED
  BY <1>1, <1>2

LEMMA ProxiedFits ==
  ASSUME NEW kind \in Kinds, NEW size, NEW reachable,
         DecidePreviewStrategy(kind, size, reachable) = "proxy"
  PROVE  size <= MaxPreviewProxyBytes
BY DEF DecidePreviewStrategy, Kinds

LEMMA StrategyIsPlain ==
  ASSUME NEW kind \in Kinds, NEW size, NEW reachable
  PROVE  DecidePreviewStrategy(kind, size, reachable) \in {"direct", "proxy", "fallback"}
BY DEF DecidePreviewStrategy, Kinds

\* A row that is ready and fits the cap stands for an object that fits it.
LEMMA ReadyFits ==
  ASSUME NEW x \in Row, NEW o, Matches(x, o), x.status = "ready",
         x.size <= MaxPreviewProxyBytes
  PROVE  WithinCap(o) /\ o # NoObject
<1>1. o \in {x.size, 0} /\ x.size \in Sizes \cup {0}
  BY DEF Matches, Row
<1>2. x.size \in Nat
  BY <1>1, SizesAreNat, Zenon
<1>3. MaxPreviewProxyBytes \in Nat
  BY RangeAssumption
<1> QED
  BY <1>1, <1>2, <1>3 DEF WithinCap, NoObject

LEMMA ResolvePreviewKeeps ==
  ASSUME IInv, NEW d \in Readers, ResolvePreview(d)
  PROVE  IInv'
<1>1. ASSUME NEW kind \in Kinds, NEW reachable \in PublicURLReachable,
             LET strategy == DecidePreviewStrategy(kind, reader[d].item.size, reachable)
             IN  Continue(d, [reader[d] EXCEPT
                   !.pc = "idle",
                   !.told = strategy = "proxy" /\ reader[d].item.status = "ready",
                   !.reply = [NoReply EXCEPT !.code = strategy]])
      PROVE  IInv'
  <2> DEFINE strategy == DecidePreviewStrategy(kind, reader[d].item.size, reachable)
             told == strategy = "proxy" /\ reader[d].item.status = "ready"
             reply == [NoReply EXCEPT !.code = strategy]
             q == [reader[d] EXCEPT !.pc = "idle", !.told = told, !.reply = reply]
  <2>1. Continue(d, q)
    BY <1>1
  <2>2. strategy \in {"direct", "proxy", "fallback"}
    BY StrategyIsPlain
  <2>3. reply \in Reply /\ reply.code \in {"direct", "proxy", "fallback"}
    BY <2>2, NoReplyTyped
  <2>4. told \in BOOLEAN
    OBVIOUS
  <2>5. told => WithinCap(object)
    BY ReaderFacts, ProxiedFits, ReadyFits DEF ReaderInv
  <2> HIDE DEF reply, told
  <2>6. /\ q \in Reader /\ q.item = reader[d].item /\ q.pc = "idle" /\ q.reply = reply
        /\ q.told = told /\ q.checked = reader[d].checked
    BY <2>3, <2>4, ReaderFacts DEF Reader
  <2> HIDE DEF q
  <2>7. ReaderInv(q, object)
    BY <2>3, <2>5, <2>6, ReaderFacts DEF ReaderInv, InHand, RangeHeld, RangeServed, LengthTrue,
                                         Capped, SentAway
  <2> QED
    BY <2>1, <2>6, <2>7, ReaderChanges
<1>2. CASE Refuse(d, "failed")
  BY <1>2, RefuseKeeps
<1> QED
  BY <1>1, <1>2 DEF ResolvePreview

LEMMA ReadForContentKeeps ==
  ASSUME IInv, NEW d \in Readers, ReadForContent(d)
  PROVE  IInv'
<1> DEFINE checked == row.status = "ready"
           held == [reader[d] EXCEPT !.item = row, !.checked = checked]
           code == IF row.size > MaxPreviewProxyBytes THEN "tooLarge" ELSE "badRange"
           parsed == held.op = "range" => ParseRangeHeader(held.asked, row.size).ok
           fits == row.size <= MaxPreviewProxyBytes /\ parsed
<1>1. /\ row \in Row /\ Matches(row, object) /\ row.size \in Nat /\ checked \in BOOLEAN
      /\ MaxPreviewProxyBytes \in Nat
  BY ReaderFacts, SizesAreNat, RangeAssumption DEF Row
<1>2. reader[d].pc = "readContent" /\ reader[d].reply.code = "none"
  BY ReaderFacts DEF ReadForContent, ReaderAt, ReaderInv
<1>3. checked => object \in {row.size, 0} /\ object # NoObject
  BY <1>1 DEF Matches, NoObject
<1>4. /\ held \in Reader /\ held.item = row /\ held.checked = checked
      /\ held.asked = reader[d].asked /\ held.asked \in ByteRange
      /\ held.told = reader[d].told /\ held.op = reader[d].op /\ held.reply = reader[d].reply
  BY <1>1, ReaderFacts DEF Reader
<1>5. held.told => WithinCap(object)
  BY <1>4, ReaderFacts DEF ReaderInv
<1>6. \/ Refuse(d, "failed")
      \/ fits /\ Continue(d, [held EXCEPT !.pc = "readAgain"])
      \/ ~fits /\ Continue(d, [held EXCEPT !.pc = "idle", !.reply = [NoReply EXCEPT !.code = code]])
  BY DEF ReadForContent
<1> HIDE DEF held, checked
<1>7. ASSUME fits, Continue(d, [held EXCEPT !.pc = "readAgain"]) PROVE IInv'
  <2> DEFINE q == [held EXCEPT !.pc = "readAgain"]
  <2>1. /\ q \in Reader /\ q.item = row /\ q.checked = checked /\ q.asked = held.asked
        /\ q.told = held.told /\ q.op = held.op /\ q.reply = reader[d].reply
        /\ q.pc = "readAgain"
    BY <1>4 DEF Reader
  <2> HIDE DEF q
  <2>2. checked => WithinCap(object)
    BY <1>1, <1>7, ReadyFits DEF checked
  <2>3. RangeHeld(q)
    BY <1>7, <2>1 DEF RangeHeld, checked
  <2>4. ReaderInv(q, object)
    BY <1>1, <1>2, <1>3, <1>5, <2>1, <2>2, <2>3
    DEF ReaderInv, RangeServed, LengthTrue, Capped, SentAway
  <2>5. Continue(d, q)
    BY <1>7 DEF q
  <2> QED
    BY <2>1, <2>4, <2>5, ReaderChanges
<1>8. ASSUME ~fits, Continue(d, [held EXCEPT !.pc = "idle",
                                             !.reply = [NoReply EXCEPT !.code = code]])
      PROVE  IInv'
  <2> DEFINE reply == [NoReply EXCEPT !.code = code]
             q == [held EXCEPT !.pc = "idle", !.reply = reply]
  <2>1. reply \in Reply /\ reply.code = code /\ reply.body = 0
    BY NoReplyTyped
  <2> HIDE DEF reply
  <2>2. /\ q \in Reader /\ q.item = row /\ q.checked = checked /\ q.asked = held.asked
        /\ q.told = held.told /\ q.op = held.op /\ q.reply = reply /\ q.pc = "idle"
    BY <1>4, <2>1 DEF Reader
  <2>3. Continue(d, q)
    BY <1>8 DEF reply
  <2> HIDE DEF q
  <2>4. RangeServed(q, object)
    <3> SUFFICES ASSUME checked, code = "badRange", NEW b \in BytesOf(object, 0)
                 PROVE  ~(Asks(held.asked, b) /\ b < object)
      BY <2>1, <2>2 DEF RangeServed
    <3>1. row.size <= MaxPreviewProxyBytes
      BY <1>1
    <3>2. held.op = "range" /\ ~ParseRangeHeader(held.asked, row.size).ok
      BY <1>8, <3>1
    <3>3. b \in Nat
      BY DEF BytesOf
    <3>4. ~(Asks(held.asked, b) /\ b < row.size)
      BY <1>1, <1>4, <3>2, <3>3, RefusedHasNone
    <3> QED
      BY <1>3, <3>3, <3>4
  <2>5. SentAway(q, object)
    BY <1>1, <1>3, <2>1, <2>2 DEF SentAway
  <2>6. code \in {"tooLarge", "badRange"}
    OBVIOUS
  <2>7. LengthTrue(q, object) /\ Capped(q) /\ RangeHeld(q)
    BY <2>1, <2>2, <2>6 DEF LengthTrue, Capped, RangeHeld, InHand
  <2> QED
    BY <1>1, <1>3, <1>5, <2>2, <2>3, <2>4, <2>5, <2>7, ReaderChanges DEF ReaderInv, InHand
<1> QED
  BY <1>6, <1>7, <1>8, RefuseKeeps

LEMMA ReadAgainKeeps ==
  ASSUME IInv, NEW d \in Readers, ReadAgain(d)
  PROVE  IInv'
<1>1. CASE Refuse(d, "failed")
  BY <1>1, RefuseKeeps
<1>2. CASE Continue(d, [reader[d] EXCEPT !.item = IF reader[d].op = "range" THEN @ ELSE row,
                                         !.pc = "get"])
  <2> DEFINE item == IF reader[d].op = "range" THEN reader[d].item ELSE row
             q == [reader[d] EXCEPT !.item = item, !.pc = "get"]
  <2>1. Continue(d, q)
    BY <1>2
  <2>2. reader[d].pc = "readAgain" /\ reader[d].reply.code = "none"
    BY ReaderFacts DEF ReadAgain, ReaderAt, ReaderInv
  <2>3. item \in Row /\ Matches(item, object)
    BY ReaderFacts DEF ReaderInv
  <2>4. reader[d].op = "range" => item = reader[d].item
    OBVIOUS
  <2> HIDE DEF item
  <2>5. /\ q \in Reader /\ q.item = item /\ q.pc = "get" /\ q.reply = reader[d].reply
        /\ q.told = reader[d].told /\ q.checked = reader[d].checked /\ q.op = reader[d].op
        /\ q.asked = reader[d].asked
    BY <2>3, ReaderFacts DEF Reader
  <2> HIDE DEF q
  <2>6. RangeHeld(q)
    BY <2>2, <2>4, <2>5, ReaderFacts DEF ReaderInv, RangeHeld, InHand
  <2>7. ReaderInv(q, object)
    BY <2>2, <2>3, <2>5, <2>6, ReaderFacts
    DEF ReaderInv, InHand, RangeServed, LengthTrue, Capped, SentAway
  <2> QED
    BY <2>1, <2>5, <2>7, ReaderChanges
<1> QED
  BY <1>1, <1>2 DEF ReadAgain

LEMMA AnswerIs ==
  ASSUME IInv, NEW d \in Readers, NEW reply \in Reply, Answer(d, reply),
         RangeServed([reader[d] EXCEPT !.pc = "idle", !.reply = reply], object),
         LengthTrue([reader[d] EXCEPT !.pc = "idle", !.reply = reply], object),
         reader[d].checked => reply.body <= MaxPreviewProxyBytes,
         reply.code # "tooLarge"
  PROVE  IInv'
<1> DEFINE q == [reader[d] EXCEPT !.pc = "idle", !.reply = reply]
<1>1. /\ q \in Reader /\ q.item = reader[d].item /\ q.pc = "idle" /\ q.reply = reply
      /\ q.told = reader[d].told /\ q.checked = reader[d].checked
  BY ReaderFacts DEF Reader
<1>2. Continue(d, q) /\ RangeServed(q, object) /\ LengthTrue(q, object)
  BY DEF Answer
<1> HIDE DEF q
<1>3. ReaderInv(q, object)
  BY <1>1, <1>2, ReaderFacts DEF ReaderInv, InHand, RangeHeld, Capped, SentAway
<1> QED
  BY <1>1, <1>2, <1>3, ReaderChanges

LEMMA GetKeeps ==
  ASSUME IInv, NEW d \in Readers, Get(d)
  PROVE  IInv'
<1> DEFINE size == reader[d].item.size
           length == IF size > 0 THEN size ELSE NoLength
           reply == [code |-> "whole", offset |-> 0, length |-> length,
                     total |-> object, body |-> object]
           q == [reader[d] EXCEPT !.pc = "idle", !.reply = reply]
<1>1. CASE Refuse(d, "failed")
  BY <1>1, RefuseKeeps
<1>2. CASE object # NoObject /\ Answer(d, reply)
  <2>1. object \in Nat /\ size \in Nat
    <3>1. object \in Sizes \cup {0} /\ size \in Sizes \cup {0}
      BY <1>2, ReaderFacts DEF IInv, PreviewTypeOK, TypeOK, Row
    <3> QED
      BY <3>1, SizesAreNat, Zenon
  <2>2. reply \in Reply
    BY <2>1 DEF Reply, NoLength
  <2>3. /\ q.item = reader[d].item /\ q.reply = reply /\ q.checked = reader[d].checked
    BY <2>2, ReaderFacts DEF Reader
  <2>4. RangeServed(q, object)
    BY <2>3 DEF RangeServed
  <2>5. LengthTrue(q, object)
    <3>1. reader[d].item.status = "ready" => object \in {size, 0}
      BY ReaderFacts DEF ReaderInv, Matches
    <3> QED
      BY <2>1, <2>3, <3>1 DEF LengthTrue
  <2>6. reader[d].checked => reply.body <= MaxPreviewProxyBytes
    BY <1>2, ReaderFacts DEF Get, ReaderAt, ReaderInv, InHand, WithinCap
  <2> QED
    BY <1>2, <2>2, <2>4, <2>5, <2>6, AnswerIs
<1> QED
  BY <1>1, <1>2 DEF Get

LEMMA GetRangeKeeps ==
  ASSUME IInv, NEW d \in Readers, GetRange(d)
  PROVE  IInv'
<1> DEFINE range == ParseRangeHeader(reader[d].asked, reader[d].item.size)
           body == LeastOf(range.offset + range.length, object) - range.offset
           reply == [code |-> "part", offset |-> range.offset, length |-> range.length,
                     total |-> object, body |-> body]
           q == [reader[d] EXCEPT !.pc = "idle", !.reply = reply]
<1>1. CASE Refuse(d, "failed")
  BY <1>1, RefuseKeeps
<1>2. CASE range.offset < object /\ Answer(d, reply)
  <2>1. /\ reader[d].item \in Row /\ reader[d].item.size \in Nat
        /\ reader[d].asked \in ByteRange
    BY ReaderFacts, SizesAreNat DEF Row
  <2>2. range.ok /\ (reader[d].checked => reader[d].item.status = "ready")
    BY ReaderFacts DEF GetRange, ReaderAt, ReaderInv, RangeHeld, InHand
  <2>3. /\ range.offset \in Nat /\ range.length \in Nat \ {0}
        /\ range.offset + range.length <= reader[d].item.size
    BY <2>1, <2>2, ParsedFits
  <2>4. object \in Nat
    <3>1. object \in Sizes \cup {0, NoObject}
      BY DEF IInv, PreviewTypeOK, TypeOK
    <3>2. object # NoObject
      BY <1>2, <2>3 DEF NoObject
    <3> QED
      BY <3>1, <3>2, SizesAreNat
  <2>5. reader[d].checked => object = reader[d].item.size
    <3>1. reader[d].checked => object \in {reader[d].item.size, 0}
      BY <2>2, ReaderFacts DEF ReaderInv, Matches
    <3> QED
      BY <1>2, <2>3, <2>4, <3>1
  <2>6. body \in Nat /\ body <= object /\ (reader[d].checked => body = range.length)
    <3> HIDE DEF range
    <3> QED
      BY <1>2, <2>1, <2>3, <2>4, <2>5, SMT DEF LeastOf
  <2> HIDE DEF body
  <2>7. reply \in Reply
    BY <2>3, <2>4, <2>6 DEF Reply
  <2>8. /\ q.item = reader[d].item /\ q.reply = reply /\ q.checked = reader[d].checked
        /\ q.asked = reader[d].asked
    BY <2>7, ReaderFacts DEF Reader
  <2>9. RangeServed(q, object)
    <3> SUFFICES ASSUME reader[d].checked, NEW b \in BytesOf(object, body)
                 PROVE  (range.offset <= b /\ b < range.offset + body)
                          <=> Asks(reader[d].asked, b) /\ b < object
      BY <2>8 DEF RangeServed
    <3>1. b \in Nat
      BY <2>4, <2>6 DEF BytesOf
    <3>2. (range.offset <= b /\ b < range.offset + range.length)
             <=> Asks(reader[d].asked, b) /\ b < reader[d].item.size
      BY <2>1, <2>2, <3>1, ParsedAsAsked
    <3> QED
      BY <2>5, <2>6, <3>2
  <2>10. LengthTrue(q, object)
    BY <2>3, <2>5, <2>6, <2>8 DEF LengthTrue
  <2>11. reader[d].checked => reply.body <= MaxPreviewProxyBytes
    <3>1. MaxPreviewProxyBytes \in Nat /\ (reader[d].checked => WithinCap(object))
      BY ReaderFacts, RangeAssumption DEF GetRange, ReaderAt, ReaderInv, InHand
    <3> QED
      BY <2>4, <2>6, <3>1 DEF WithinCap
  <2> QED
    BY <1>2, <2>7, <2>9, <2>10, <2>11, AnswerIs
<1> QED
  BY <1>1, <1>2 DEF GetRange

-----------------------------------------------------------------------------
(* The two together.                                                       *)

\* The object arrives: nobody has seen it, so nothing was said of it.
LEMMA ObjectArrives ==
  ASSUME NEW q \in Reader, NEW o \in Nat, ReaderInv(q, NoObject)
  PROVE  ReaderInv(q, o)
<1>1. q.item \in Row
  BY DEF Reader
<1>2. q.item.status # "ready"
  BY <1>1, ReadyIsThere DEF ReaderInv
<1>3. ~q.checked
  BY DEF ReaderInv
<1>4. ~q.told
  BY DEF ReaderInv, WithinCap, NoObject
<1> QED
  BY <1>2, <1>3, <1>4
  DEF ReaderInv, Matches, RangeHeld, RangeServed, LengthTrue, Capped, SentAway

LEMMA NextKeeps ==
  ASSUME IInv, Next, UNCHANGED reader
  PROVE  IInv'
<1>1. TypeOK /\ RowsMatch /\ reader \in [Readers -> Reader]
  BY DEF IInv, PreviewTypeOK
<1>2. /\ TypeOK' /\ RowsMatch'
      /\ object' = object \/ (object = NoObject /\ object' \in Nat)
  BY <1>1, SendKeeps, ScanKeeps, RequestKeeps DEF Next
<1>3. ASSUME NEW d \in Readers PROVE ReaderInv(reader[d], object')
  BY <1>1, <1>2, <1>3, ObjectArrives DEF IInv, ReadersHold
<1>4. ReadersHold'
  BY <1>3 DEF ReadersHold
<1> QED
  BY <1>1, <1>2, <1>4 DEF IInv, PreviewTypeOK

LEMMA PreviewNextKeeps == IInv /\ [PreviewNext]_previewVars => IInv'
<1> SUFFICES ASSUME IInv, [PreviewNext]_previewVars PROVE IInv'
  OBVIOUS
<1>1. CASE Next /\ UNCHANGED reader
  BY <1>1, NextKeeps
<1>2. ASSUME NEW d \in Readers, AskSomething(d) \/ Serve(d) PROVE IInv'
  BY <1>2, AskSomethingKeeps, ReadForPreviewKeeps, ResolvePreviewKeeps, ReadForContentKeeps,
     ReadAgainKeeps, GetRangeKeeps, GetKeeps DEF Serve
<1>3. CASE UNCHANGED previewVars
  BY <1>3 DEF previewVars, vars, IInv, PreviewTypeOK, TypeOK, RowsMatch, ReadersHold
<1> QED
  BY <1>1, <1>2, <1>3 DEF PreviewNext

LEMMA PreviewInvariant == PreviewSpec => []IInv
BY PreviewInitHolds, PreviewNextKeeps, PTL DEF PreviewSpec

\* Every reachable state of the uploads and of their readers is well typed:
\* no body and no announced length is negative.
THEOREM PreviewTyped == PreviewSpec => []PreviewTypeOK
<1>1. IInv => PreviewTypeOK
  BY DEF IInv
<1> QED
  BY <1>1, PreviewInvariant, PTL

\* A ready file has its object and its object's size, whichever completions
\* and scans race: any number of them, and objects of any size.
THEOREM ReadySizes == PreviewSpec => []ReadySizeIsReal
<1>1. IInv => ReadySizeIsReal
  BY DEF IInv, RowsMatch, Matches, ReadySizeIsReal, Ready
<1> QED
  BY <1>1, PreviewInvariant, PTL

\* A range of a ready file is answered with the bytes that were asked for,
\* and refused only where there are none, for every range and every size.
THEOREM RangesServed == PreviewSpec => []RangeAsAsked
<1>1. IInv => RangeAsAsked
  BY DEF IInv, ReadersHold, ReaderInv, RangeServed, BytesOf, RangeAsAsked
<1> QED
  BY <1>1, PreviewInvariant, PTL

\* What the headers announce is what is sent.
THEOREM LengthsAnnounced == PreviewSpec => []LengthIsBody
<1>1. IInv => LengthIsBody
  BY DEF IInv, ReadersHold, ReaderInv, LengthTrue, LengthIsBody
<1> QED
  BY <1>1, PreviewInvariant, PTL

\* No preview of a ready file sends more than the cap, for every cap.
THEOREM CapEnforced == PreviewSpec => []CapHolds
<1>1. IInv => CapHolds
  BY DEF IInv, ReadersHold, ReaderInv, Capped, CapHolds
<1> QED
  BY <1>1, PreviewInvariant, PTL

\* A client that was sent to the proxy is served by it, for every cap.
THEOREM ProxyServes == PreviewSpec => []ProxyIsServed
<1>1. ASSUME IInv, NEW d \in Readers, reader[d].told, reader[d].checked,
             reader[d].reply.code = "tooLarge"
      PROVE  object = 0
  <2>1. WithinCap(object) /\ (object = 0 \/ object > MaxPreviewProxyBytes)
    BY <1>1 DEF IInv, ReadersHold, ReaderInv, SentAway
  <2>2. object \in Int /\ MaxPreviewProxyBytes \in Nat
    BY <1>1, SizesAreNat, RangeAssumption DEF IInv, PreviewTypeOK, TypeOK, NoObject
  <2> QED
    BY <2>1, <2>2 DEF WithinCap
<1>2. IInv => ProxyIsServed
  BY <1>1 DEF ProxyIsServed
<1> QED
  BY <1>2, PreviewInvariant, PTL

-----------------------------------------------------------------------------
(* What used_storage covers.  A row becomes ready by a scan, which goes on to *)
(* take the sum unless it breaks off, or by a Save that is counted after it.  *)
(* All ready rows that were ever in somebody's hands have the size of the     *)
(* object, or, over an empty object, the one size that was declared or none;  *)
(* so whoever counts last counts what the row says, and a sum that no Save    *)
(* has overtaken still covers the row when it is written.                     *)

Carries(q) == q.pc \in {"getDriver", "head", "saveReady", "saveFailed", "count"}

CopyTrue(q) ==
  /\ ~Carries(q) => q.snap.size = 0
  /\ Carries(q) => q.snap.state = "live"
  /\ q.pc \in {"saveReady", "count"} => q.snap.status = "ready"
  /\ q.pc = "saveFailed" => q.snap.status = "failed"
  /\ q.acct >= 0

Agree(x, y) == x.size = y.size \/ x.size = 0 \/ y.size = 0

\* While the object has no size to tell, no two declared sizes are about.
OneSize ==
  object \in {0, NoObject} =>
    /\ \A p \in Requests : Agree(row, req[p].snap)
    /\ \A p, q \in Requests : Agree(req[p].snap, req[q].snap)

\* What a scan will save, and the sum that it took.
ScanSound ==
  /\ ScanAt("refresh") => scan.snap.state = "live"
  /\ ScanAt("saveUsed") /\ ~scan.overtaken /\ Ready => scan.total >= row.size

Begun ==
  /\ ScanAt("refresh") => row.state # "none"
  /\ row.state = "none" =>
       row.size = 0 /\ url = FALSE /\ \A r \in Requests : req[r].pc \in {"idle", "insert"}
  /\ \A r \in Requests : At(r, "insert") =>
       row.state = "none" /\ \A p \in Requests : At(p, "insert") => p = r

Counted ==
  Ready /\ ~behind =>
    \/ used >= row.size
    \/ \E r \in Requests : At(r, "count") /\ req[r].snap.size = row.size
    \/ ScanAt("listMore")
    \/ ScanAt("saveUsed") /\ ~scan.overtaken

CoverInv ==
  /\ used >= 0
  /\ \A r \in Requests : CopyTrue(req[r])
  /\ OneSize /\ Begun /\ Counted /\ ScanSound

LEMMA RowSizes ==
  ASSUME NEW x \in Row PROVE x.size \in Nat /\ x.size \in Int
<1>1. x.size \in Sizes \cup {0}
  BY DEF Row
<1> QED
  BY <1>1, SizesAreNat, Zenon

LEMMA IdleTrue == CopyTrue(Idle) /\ Idle.snap.size = 0 /\ Idle.pc = "idle"
BY DEF CopyTrue, Idle, NoRow, Carries

LEMMA InitCover == Init => CoverInv
<1> SUFFICES ASSUME Init PROVE CoverInv
  OBVIOUS
<1>1. used >= 0 /\ row.state = "none" /\ row.size = 0 /\ row.status = "uploading"
  BY DEF Init, NoRow
<1>2. \A r \in Requests : req[r] = Idle
  BY DEF Init
<1>3. Begun
  BY <1>1, <1>2, IdleTrue DEF Begun, At, Init, ScanAt, NoScan
<1>4. ScanSound
  BY DEF ScanSound, ScanAt, Init, NoScan
<1> QED
  BY <1>1, <1>2, <1>3, <1>4, IdleTrue DEF CoverInv, OneSize, Agree, Counted, Ready

\* A step of a request that leaves row, object and account alone.
LEMMA CoverStep ==
  ASSUME TypeOK, CoverInv, NEW r \in Requests, NEW q, Becomes(r, q),
         UNCHANGED <<row, object, used, scan, behind>>, url' = url, CopyTrue(q), ~At(r, "count"),
         object \in {0, NoObject} => q.snap.size \in {req[r].snap.size, row.size, 0},
         row.state = "none" => q.pc \in {"idle", "insert"},
         q.pc = "insert" => row.state = "none" /\ \A p \in Requests : ~At(p, "insert")
  PROVE  CoverInv'
<1>0. \A p \in Requests : req'[p] = IF p = r THEN q ELSE req[p]
  BY DEF Becomes, TypeOK
<1>1. OneSize'
  <2> SUFFICES ASSUME object \in {0, NoObject}
               PROVE  /\ \A p \in Requests : Agree(row, req'[p].snap)
                      /\ \A p1, p2 \in Requests : Agree(req'[p1].snap, req'[p2].snap)
    BY DEF OneSize
  <2>1. /\ \A p \in Requests : Agree(row, req[p].snap)
        /\ \A p1, p2 \in Requests : Agree(req[p1].snap, req[p2].snap)
    BY DEF CoverInv, OneSize
  <2>2. \A p \in Requests : Agree(q.snap, req[p].snap) /\ Agree(req[p].snap, q.snap)
    BY <2>1 DEF Agree
  <2>3. Agree(row, q.snap) /\ Agree(q.snap, q.snap)
    BY <2>1 DEF Agree
  <2> QED
    BY <1>0, <2>1, <2>2, <2>3
<1>2. Begun'
  BY <1>0 DEF CoverInv, Begun, At, ScanAt
<1>3. Counted'
  <2> SUFFICES ASSUME Ready, ~behind, ~(used >= row.size), ~ScanAt("listMore"),
                      ~(ScanAt("saveUsed") /\ ~scan.overtaken)
               PROVE  \E p \in Requests : req'[p].pc = "count" /\ req'[p].snap.size = row.size
    BY DEF Counted, Ready, At, ScanAt
  <2>1. PICK p \in Requests : At(p, "count") /\ req[p].snap.size = row.size
    BY DEF CoverInv, Counted
  <2>2. req'[p] = req[p]
    BY <1>0, <2>1
  <2> QED
    BY <2>1, <2>2 DEF At
<1>4. ScanSound'
  BY DEF CoverInv, ScanSound, ScanAt, Ready
<1> QED
  BY <1>0, <1>1, <1>2, <1>3, <1>4 DEF CoverInv

\* The requests that begin, read and ask S3.
LEMMA ReadsCover ==
  ASSUME TypeOK, CoverInv, NEW r \in Requests,
         \/ StartInitiate(r) \/ StartComplete(r) \/ ReadItem(r) \/ GetDriver(r) \/ GetMetadata(r)
  PROVE  CoverInv'
<1>0. /\ req[r] \in Request /\ req[r].snap \in Row /\ CopyTrue(req[r]) /\ used >= 0
      /\ UNCHANGED <<row, object, used, scan, behind>> /\ ~At(r, "count")
      /\ url' = url
  BY DEF TypeOK, Request, CoverInv, StartInitiate, StartComplete, ReadItem, GetDriver,
         GetMetadata, At, scanVars
<1>1. ASSUME Finish(r) PROVE CoverInv'
  BY <1>0, <1>1, IdleTrue, CoverStep DEF Finish
<1>2. CASE StartInitiate(r)
  <2> DEFINE q == [req[r] EXCEPT !.pc = "insert"]
  <2>1. q.pc = "insert" /\ q.snap = req[r].snap /\ q.acct = req[r].acct
    BY <1>0 DEF Request
  <2>2. /\ Becomes(r, q) /\ row.state = "none" /\ \A p \in Requests : ~At(p, "insert")
        /\ req[r].pc = "idle"
    BY <1>2 DEF StartInitiate, GoesTo, At
  <2> HIDE DEF q
  <2>3. CopyTrue(q)
    BY <1>0, <2>1, <2>2 DEF CopyTrue, Carries
  <2> QED
    BY <1>0, <2>1, <2>2, <2>3, CoverStep
<1>3. CASE StartComplete(r)
  <2> DEFINE q == [req[r] EXCEPT !.pc = "read"]
  <2>1. q.pc = "read" /\ q.snap = req[r].snap /\ q.acct = req[r].acct
    BY <1>0 DEF Request
  <2>2. Becomes(r, q) /\ url /\ req[r].pc = "idle"
    BY <1>3 DEF StartComplete, GoesTo, At
  <2> HIDE DEF q
  <2>3. CopyTrue(q)
    BY <1>0, <2>1, <2>2 DEF CopyTrue, Carries
  <2>4. row.state # "none"
    BY <2>2, Zenon DEF CoverInv, Begun
  <2> QED
    BY <1>0, <2>1, <2>2, <2>3, <2>4, CoverStep
<1>4. CASE ReadItem(r)
  <2> DEFINE q == [req[r] EXCEPT !.snap = row, !.pc = "getDriver"]
  <2>1. q.pc = "getDriver" /\ q.snap = row /\ q.acct = req[r].acct
    BY <1>0 DEF Request
  <2>2. IF row.state = "live" THEN Becomes(r, q) ELSE Finish(r)
    BY <1>4 DEF ReadItem
  <2> HIDE DEF q
  <2>3. row.state = "live" => CopyTrue(q)
    BY <1>0, <2>1 DEF CopyTrue, Carries
  <2> QED
    BY <1>0, <1>1, <2>1, <2>2, <2>3, CoverStep
<1>5. ASSUME req[r].pc \in {"getDriver", "head"} PROVE row.state # "none"
  BY <1>5 DEF CoverInv, Begun
<1>6. CASE GetDriver(r)
  <2> DEFINE q == [req[r] EXCEPT !.acct = used, !.pc = "head"]
  <2>1. q.pc = "head" /\ q.snap = req[r].snap /\ q.acct = used
    BY <1>0 DEF Request
  <2>2. (Finish(r) \/ Becomes(r, q)) /\ req[r].pc = "getDriver"
    BY <1>6 DEF GetDriver, At
  <2> HIDE DEF q
  <2>3. CopyTrue(q)
    BY <1>0, <2>1, <2>2 DEF CopyTrue, Carries
  <2> QED
    BY <1>0, <1>1, <1>5, <2>1, <2>2, <2>3, CoverStep
<1>7. CASE GetMetadata(r)
  <2> DEFINE size == IF object > 0 THEN object ELSE req[r].snap.size
             p == [req[r] EXCEPT !.snap.status = "ready", !.snap.size = size, !.pc = "saveReady"]
             q == [req[r] EXCEPT !.snap.status = "failed", !.pc = "saveFailed"]
  <2>1. /\ p.pc = "saveReady" /\ p.acct = req[r].acct /\ p.snap.size = size
        /\ p.snap.status = "ready" /\ p.snap.state = req[r].snap.state
        /\ q.pc = "saveFailed" /\ q.acct = req[r].acct /\ q.snap.size = req[r].snap.size
        /\ q.snap.status = "failed" /\ q.snap.state = req[r].snap.state
    BY <1>0 DEF Request, Row
  <2>2. Becomes(r, p) \/ Becomes(r, q)
    BY <1>7 DEF GetMetadata
  <2>3. req[r].pc = "head" /\ (object \in {0, NoObject} => size = req[r].snap.size)
    BY <1>7 DEF GetMetadata, At, NoObject
  <2> HIDE DEF p, q, size
  <2>4. CopyTrue(p) /\ CopyTrue(q)
    BY <1>0, <2>1, <2>3 DEF CopyTrue, Carries
  <2>5. CASE Becomes(r, p)
    BY <1>0, <1>5, <2>1, <2>3, <2>4, <2>5, CoverStep
  <2>6. CASE Becomes(r, q)
    BY <1>0, <1>5, <2>1, <2>3, <2>4, <2>6, CoverStep
  <2> QED
    BY <2>2, <2>5, <2>6
<1> QED
  BY <1>2, <1>3, <1>4, <1>6, <1>7

\* The row is inserted, once, and before anybody can read it.
LEMMA InsertCovers ==
  ASSUME TypeOK, CoverInv, NEW r \in Requests, InsertPending(r)
  PROVE  CoverInv'
<1> DEFINE q == [req[r] EXCEPT !.pc = "presign"]
<1>1. /\ req[r] \in Request /\ req[r].pc = "insert" /\ Becomes(r, q)
      /\ UNCHANGED <<object, used, scan, behind>> /\ row'.state = "live"
      /\ row'.status = "uploading"
  BY DEF TypeOK, InsertPending, At, GoesTo, scanVars
<1>2. q.pc = "presign" /\ q.snap = req[r].snap /\ q.acct = req[r].acct
  BY <1>1 DEF Request
<1> HIDE DEF q
<1>3. \A p \in Requests : req'[p] = IF p = r THEN q ELSE req[p]
  BY <1>1 DEF Becomes, TypeOK
<1>4. /\ \A p \in Requests : req[p].pc \in {"idle", "insert"}
      /\ \A p \in Requests : req[p].pc = "insert" => p = r
  BY <1>1 DEF CoverInv, Begun, At
<1>5. \A p \in Requests : CopyTrue(req'[p]) /\ req'[p].snap.size = 0
  <2>1. \A p \in Requests : CopyTrue(req[p]) /\ req[p].snap.size = 0
    BY <1>4 DEF CoverInv, CopyTrue, Carries
  <2>2. CopyTrue(q)
    BY <1>1, <1>2, <2>1 DEF CopyTrue, Carries
  <2> QED
    BY <1>2, <1>3, <2>1, <2>2
<1>6. OneSize'
  BY <1>5 DEF OneSize, Agree
<1>7. Begun'
  BY <1>1, <1>2, <1>3, <1>4 DEF CoverInv, Begun, At, ScanAt
<1>8. Counted' /\ ScanSound'
  BY <1>1 DEF CoverInv, Counted, ScanSound, ScanAt, Ready
<1> QED
  BY <1>1, <1>5, <1>6, <1>7, <1>8 DEF CoverInv

LEMMA PresignCovers ==
  ASSUME TypeOK, CoverInv, NEW r \in Requests, Presign(r)
  PROVE  CoverInv'
<1>1. /\ req[r].pc = "presign" /\ UNCHANGED <<object, used, scan, behind>>
      /\ row \in Row
      /\ \A p \in Requests : req'[p] = IF p = r THEN Idle ELSE req[p]
  BY DEF TypeOK, Presign, At, Finish, Becomes, scanVars
<1>2. /\ row'.size = row.size /\ row'.status = row.status
      /\ row'.state \in {row.state, "gone"}
  BY <1>1 DEF Presign, Row
<1>3. row.state # "none"
  BY <1>1 DEF CoverInv, Begun
<1>4. OneSize'
  BY <1>1, <1>2, IdleTrue DEF CoverInv, OneSize, Agree
<1>5. Begun'
  BY <1>1, <1>2, <1>3, IdleTrue DEF CoverInv, Begun, At, ScanAt
<1>6. Counted'
  <2> SUFFICES ASSUME Ready', ~behind, ~(used >= row.size), ~ScanAt("listMore"),
                      ~(ScanAt("saveUsed") /\ ~scan.overtaken)
               PROVE  \E p \in Requests : req'[p].pc = "count" /\ req'[p].snap.size = row.size
    BY <1>1, <1>2 DEF Counted, At, ScanAt
  <2>1. Ready
    BY <1>2 DEF Ready
  <2>2. PICK p \in Requests : At(p, "count") /\ req[p].snap.size = row.size
    BY <2>1 DEF CoverInv, Counted
  <2> QED
    BY <1>1, <2>2 DEF At
<1>7. ScanSound'
  BY <1>1, <1>2 DEF CoverInv, ScanSound, ScanAt, Ready
<1> QED
  BY <1>1, <1>4, <1>5, <1>6, <1>7, IdleTrue DEF CoverInv

\* Whoever makes the row ready goes on to count it.
LEMMA SaveCovers ==
  ASSUME TypeOK, CoverInv, NEW r \in Requests, SaveItem(r)
  PROVE  CoverInv'
<1> DEFINE q == IF req[r].pc = "saveReady" THEN [req[r] EXCEPT !.pc = "count"] ELSE Idle
<1>1. /\ req[r] \in Request /\ req[r].snap \in Row /\ CopyTrue(req[r])
      /\ req[r].pc \in {"saveReady", "saveFailed"} /\ Becomes(r, q)
      /\ UNCHANGED <<object, used, url, behind>> /\ row' = req[r].snap
      /\ scan \in Scan /\ scan' = [scan EXCEPT !.overtaken = scan.pc = "saveUsed"]
  BY DEF TypeOK, Request, CoverInv, SaveItem, At, GoesTo, Finish
<1>2. /\ req[r].pc = "saveReady" => q.pc = "count" /\ q.snap = req[r].snap /\ q.acct = req[r].acct
      /\ req[r].pc = "saveFailed" => q = Idle
  BY <1>1 DEF Request
<1> HIDE DEF q
<1>3. \A p \in Requests : req'[p] = IF p = r THEN q ELSE req[p]
  BY <1>1 DEF Becomes, TypeOK
<1>4. /\ CopyTrue(q) /\ q.pc \notin {"insert"} /\ q.snap.size \in {req[r].snap.size, 0}
      /\ row'.state = "live" /\ row.state # "none"
  BY <1>1, <1>2, IdleTrue DEF CopyTrue, Carries, CoverInv, Begun
<1>5. \A p \in Requests : CopyTrue(req'[p])
  BY <1>3, <1>4 DEF CoverInv
<1>6. OneSize'
  <2> SUFFICES ASSUME object \in {0, NoObject}
               PROVE  /\ \A p \in Requests : Agree(row', req'[p].snap)
                      /\ \A p1, p2 \in Requests : Agree(req'[p1].snap, req'[p2].snap)
    BY <1>1 DEF OneSize
  <2>1. \A p1, p2 \in Requests : Agree(req[p1].snap, req[p2].snap)
    BY DEF CoverInv, OneSize
  <2>2. \A p \in Requests : Agree(q.snap, req[p].snap) /\ Agree(req[p].snap, q.snap)
    BY <1>4, <2>1 DEF Agree
  <2>3. Agree(row', q.snap) /\ Agree(q.snap, q.snap)
    BY <1>1, <1>4 DEF Agree
  <2> QED
    BY <1>1, <1>3, <2>1, <2>2, <2>3
<1>s. /\ scan'.pc = scan.pc /\ scan'.snap = scan.snap
      /\ scan.pc = "saveUsed" => scan'.overtaken
  BY <1>1 DEF Scan
<1>7. Begun'
  BY <1>3, <1>4 DEF CoverInv, Begun, At
<1>9. ScanSound'
  BY <1>s DEF CoverInv, ScanSound, ScanAt
<1>8. Counted'
  <2>1. CASE req[r].pc = "saveReady"
    BY <1>1, <1>2, <1>3, <2>1 DEF Counted, At
  <2>2. CASE req[r].pc = "saveFailed"
    BY <1>1, <2>2 DEF Counted, Ready, CopyTrue
  <2> QED
    BY <1>1, <2>1, <2>2
<1> QED
  BY <1>1, <1>5, <1>6, <1>7, <1>8, <1>9 DEF CoverInv

\* A count adds the size that the row has, or an empty one.
LEMMA CountCovers ==
  ASSUME TypeOK, RowsMatch, CoverInv, NEW r \in Requests, CountBytes(r)
  PROVE  CoverInv'
<1> DEFINE x == req[r].snap
<1>1. /\ req[r] \in Request /\ x \in Row /\ row \in Row /\ CopyTrue(req[r]) /\ used >= 0
      /\ req[r].pc = "count" /\ used \in Int /\ req[r].acct \in Int
      /\ UNCHANGED <<row, object, url, scan>>
      /\ \A p \in Requests : req'[p] = IF p = r THEN Idle ELSE req[p]
  BY DEF TypeOK, Request, CoverInv, CountBytes, At, Finish, Becomes
<1>2. /\ x.status = "ready" /\ x.size \in Nat /\ row.size \in Nat /\ req[r].acct >= 0
      /\ row.state # "none"
  BY <1>1, RowSizes DEF CopyTrue, CoverInv, Begun
<1>3. /\ used' = IF x.size > 0 THEN req[r].acct + x.size ELSE used
      /\ x.size = 0 => behind' = behind
  BY <1>2 DEF CountBytes
<1>4. object \in {x.size, 0} /\ (object = 0 => Agree(row, x))
  BY <1>2 DEF RowsMatch, Matches, CoverInv, OneSize
<1> HIDE DEF x
<1>5. used' >= 0
  BY <1>1, <1>2, <1>3
<1>6. ASSUME Ready, ~behind', ~(used' >= row.size), ~ScanAt("listMore"),
             ~(ScanAt("saveUsed") /\ ~scan.overtaken)
      PROVE  \E p \in Requests : req'[p].pc = "count" /\ req'[p].snap.size = row.size
  <2>1. object \in {row.size, 0}
    BY <1>6 DEF RowsMatch, Matches, Ready
  <2>2. row.size > 0
    BY <1>2, <1>5, <1>6
  <2>3. x.size > 0 => x.size = row.size
    <3>1. CASE object = 0
      BY <1>2, <1>4, <2>2, <3>1 DEF Agree
    <3>2. CASE object # 0
      BY <1>4, <2>1, <3>2
    <3> QED
      BY <3>1, <3>2
  <2>4. x.size = 0 /\ used' = used /\ behind' = behind
    BY <1>1, <1>2, <1>3, <1>6, <2>3
  <2>5. PICK p \in Requests : At(p, "count") /\ req[p].snap.size = row.size
    BY <1>6, <2>4 DEF CoverInv, Counted
  <2>6. p # r
    BY <2>2, <2>4, <2>5 DEF x
  <2> QED
    BY <1>1, <2>5, <2>6 DEF At
<1>8. Counted'
  BY <1>1, <1>6 DEF Counted, Ready, At, ScanAt
<1>9. OneSize'
  BY <1>1, IdleTrue DEF CoverInv, OneSize, Agree
<1>10. Begun'
  BY <1>1, <1>2, IdleTrue DEF CoverInv, Begun, At, ScanAt
<1>11. ScanSound'
  BY <1>1 DEF CoverInv, ScanSound, ScanAt, Ready
<1> QED
  BY <1>1, <1>5, <1>8, <1>9, <1>10, <1>11, IdleTrue DEF CoverInv

\* The steps of a scan that write neither row nor account.
LEMMA ScanReadsCover ==
  ASSUME TypeOK, CoverInv, ListObjects \/ FindTracked \/ SumSizes
  PROVE  CoverInv'
<1>1. /\ UNCHANGED <<row, object, used, url, req, behind>>
      /\ scan \in Scan /\ row \in Row
  BY DEF TypeOK, ListObjects, FindTracked, SumSizes, Scans
<1>2. OneSize'
  BY <1>1 DEF CoverInv, OneSize, Agree
<1>3. Begun' /\ Counted' /\ ScanSound'
  <2>1. CASE ListObjects
    <3>1. scan.pc = "idle" /\ scan'.pc = "find"
      BY <2>1, NoRowIsRow DEF ListObjects, Scans, ScanAt, Scan
    <3> QED
      BY <1>1, <3>1 DEF CoverInv, Begun, Counted, ScanSound, ScanAt, At, Ready
  <2>2. CASE FindTracked
    <3>1. CASE scan.seen # NoObject /\ row.state = "live"
      <4>1. scan' = [scan EXCEPT !.snap = [row EXCEPT !.status = "ready", !.size = scan.seen],
                                 !.pc = "refresh"]
        BY <2>2, <3>1 DEF FindTracked, Scans
      <4>2. scan'.pc = "refresh" /\ scan'.snap.state = "live" /\ scan.pc = "find"
        BY <1>1, <2>2, <3>1, <4>1 DEF Scan, Row, FindTracked, ScanAt
      <4> QED
        BY <1>1, <3>1, <4>2 DEF CoverInv, Begun, Counted, ScanSound, ScanAt, At, Ready
    <3>2. CASE ~(scan.seen # NoObject /\ row.state = "live")
      <4>1. scan' = [NoScan EXCEPT !.pc = "listMore"]
        BY <2>2, <3>2 DEF FindTracked, Scans
      <4>2. scan'.pc = "listMore"
        BY <4>1, NoRowIsRow DEF Scan
      <4> QED
        BY <1>1, <4>2 DEF CoverInv, Begun, Counted, ScanSound, ScanAt, At, Ready
    <3> QED
      BY <3>1, <3>2
  <2>3. CASE SumSizes
    <3> DEFINE n == IF row.state = "live" THEN row.size ELSE 0
    <3>1. scan' = [NoScan EXCEPT !.total = n, !.pc = "saveUsed"]
      BY <2>3 DEF SumSizes, Scans
    <3>2. scan'.pc = "saveUsed" /\ scan'.total = n /\ scan'.overtaken = FALSE
      BY <3>1, NoRowIsRow DEF Scan, NoScan
    <3>3. Ready => n >= row.size
      BY <1>1, RowSizes DEF Ready
    <3> HIDE DEF n
    <3> QED
      BY <1>1, <3>2, <3>3 DEF CoverInv, Begun, Counted, ScanSound, ScanAt, At, Ready
  <2> QED
    BY <2>1, <2>2, <2>3
<1> QED
  BY <1>1, <1>2, <1>3 DEF CoverInv

\* The row is saved with the size of the object, and the sum is still to come.
LEMMA RefreshCovers ==
  ASSUME TypeOK, RowsMatch, CoverInv, RefreshTracked
  PROVE  CoverInv'
<1>1. /\ UNCHANGED <<object, used, url, req, behind>>
      /\ row' = scan.snap /\ scan.snap \in Row /\ ScanTrue(scan, object)
      /\ scan.pc = "refresh" /\ scan' = [NoScan EXCEPT !.pc = "listMore"]
  BY DEF TypeOK, Scan, RowsMatch, RefreshTracked, Scans, ScanAt
<1>2. scan'.pc = "listMore"
  BY <1>1, NoRowIsRow DEF Scan
<1>3. row'.state = "live" /\ row.state # "none"
  BY <1>1 DEF CoverInv, ScanSound, Begun, ScanAt
<1>4. object \in {0, NoObject} => row'.size = 0
  <2>1. row'.size \in {0, object} /\ row'.size \in Nat
    BY <1>1, RowSizes DEF ScanTrue
  <2> QED
    BY <2>1 DEF NoObject
<1>5. OneSize'
  BY <1>1, <1>4 DEF CoverInv, OneSize, Agree
<1>6. Begun'
  BY <1>1, <1>2, <1>3 DEF CoverInv, Begun, At, ScanAt
<1>7. Counted' /\ ScanSound'
  BY <1>1, <1>2 DEF Counted, ScanSound, ScanAt
<1> QED
  BY <1>1, <1>5, <1>6, <1>7 DEF CoverInv

\* A sum that no Save has overtaken covers the row; otherwise the account is
\* behind, as it is when the scan breaks off.
LEMMA ScanEndCovers ==
  ASSUME TypeOK, CoverInv, ListingFails \/ SaveUsed
  PROVE  CoverInv'
<1>1. /\ UNCHANGED <<row, object, url, req>>
      /\ scan \in Scan /\ scan' = NoScan /\ scan'.pc = "idle"
  BY DEF TypeOK, ListingFails, SaveUsed, Scans, NoScan
<1>2. OneSize' /\ ScanSound'
  BY <1>1 DEF CoverInv, OneSize, Agree, ScanSound, ScanAt
<1>3. Begun'
  BY <1>1 DEF CoverInv, Begun, At, ScanAt
<1>4. used' >= 0
  <2>1. scan.total \in Nat
    BY <1>1 DEF Scan
  <2> QED
    BY <2>1 DEF ListingFails, SaveUsed, CoverInv
<1>5. Counted'
  <2>1. CASE ListingFails
    BY <2>1 DEF ListingFails, Counted
  <2>2. CASE SaveUsed
    BY <1>1, <2>2 DEF SaveUsed, CoverInv, ScanSound, Counted, Ready
  <2> QED
    BY <2>1, <2>2
<1> QED
  BY <1>1, <1>2, <1>3, <1>4, <1>5 DEF CoverInv

LEMMA ScanCovers ==
  ASSUME TypeOK, RowsMatch, CoverInv, ScanBucket
  PROVE  CoverInv'
BY ScanReadsCover, RefreshCovers, ScanEndCovers DEF ScanBucket

LEMMA SendCovers ==
  ASSUME TypeOK, CoverInv, Send
  PROVE  CoverInv'
<1>1. object = NoObject /\ UNCHANGED <<row, used, url, req, scan, behind>>
  BY DEF Send, scanVars
<1>2. OneSize' /\ Begun' /\ Counted' /\ ScanSound'
  BY <1>1 DEF CoverInv, OneSize, Agree, Begun, At, Counted, Ready, ScanSound, ScanAt
<1> QED
  BY <1>1, <1>2 DEF CoverInv

LEMMA NextCover ==
  ASSUME IInv, CoverInv, [PreviewNext]_previewVars
  PROVE  CoverInv'
<1>1. TypeOK /\ RowsMatch
  BY DEF IInv, PreviewTypeOK
<1>2. CASE Next
  <2>1. ASSUME NEW r \in Requests, Start(r) \/ Advance(r) PROVE CoverInv'
    BY <1>1, <2>1, ReadsCover, InsertCovers, PresignCovers, SaveCovers, CountCovers
    DEF Start, Advance
  <2> QED
    BY <1>1, <1>2, <2>1, ScanCovers, SendCovers DEF Next
<1>3. CASE UNCHANGED vars
  <2>1. UNCHANGED <<row, object, used, url, req, scan, behind>>
    BY <1>3 DEF vars
  <2> QED
    BY <2>1 DEF CoverInv, OneSize, Agree, Begun, At, Counted, Ready, ScanSound, ScanAt
<1>4. ASSUME NEW d \in Readers, AskSomething(d) \/ Serve(d) PROVE UNCHANGED vars
  BY <1>4 DEF AskSomething, AskPreview, AskContent, AskDownload, Ask, Serve, ReadForPreview,
              ResolvePreview, ReadForContent, ReadAgain, GetRange, Get, Refuse, Answer, Continue, uploadVars
<1> QED
  BY <1>2, <1>3, <1>4 DEF PreviewNext, previewVars

\* A ready file is covered by used_storage once nothing is under way, unless
\* the last to write the account was a scan that a completion had overtaken, or
\* a scan broke off: for any number of completions and objects of any size.
THEOREM BytesCovered == PreviewSpec => []UsedCoversFile
<1>1. PreviewInit => CoverInv
  BY InitCover DEF PreviewInit
<1>2. IInv /\ CoverInv /\ [PreviewNext]_previewVars => CoverInv'
  BY NextCover
<1>3. CoverInv => UsedCoversFile
  BY DEF CoverInv, Counted, UsedCoversFile, Quiet, At, ScanAt
<1> QED
  BY <1>1, <1>2, <1>3, PreviewInvariant, PTL DEF PreviewSpec

================================================================================
