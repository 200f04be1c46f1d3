----------------------- MODULE MultipartUpload_proofs -----------------------
(* Proofs about MultipartUpload: its types, that an upload becomes at most   *)
(* one file, that it records only parts S3 holds and each part once, and     *)
(* that it implements the atomic upload of OneFileUpload.                    *)
EXTENDS MultipartUpload, FiniteSetTheorems, TLAPS

-----------------------------------------------------------------------------
(* Type correctness.                                                       *)

\* What a request has at hand by the time it gets somewhere.
Phase(q) ==
  /\ q.pc = "sendPart" => q.n \in PartNumbers
  /\ q.pc = "recordPart" => q.n \in PartNumbers /\ q.etag \in Etags
  /\ q.op = "part" => q.n \in PartNumbers

TypeInv == TypeOK /\ \A r \in Requests : Phase(req[r])

LEMMA IdleType == Idle \in Request /\ Phase(Idle)
BY DEF Idle, Request, Phase

LEMMA AddUploadedPartType ==
  ASSUME NEW parts \in Seq(Part), NEW part \in Part
  PROVE  AddUploadedPart(parts, part) \in Seq(Part)
<1>1. CASE part.n \in Numbers(parts)
  <2> DEFINE s == [i \in DOMAIN parts |-> IF parts[i].n = part.n THEN part ELSE parts[i]]
  <2>1. DOMAIN parts = 1..Len(parts) /\ Len(parts) \in Nat
    OBVIOUS
  <2>2. s \in [1..Len(parts) -> Part]
    BY <2>1
  <2>3. s \in Seq(Part)
    BY <2>1, <2>2
  <2> QED
    BY <1>1, <2>3 DEF AddUploadedPart
<1>2. CASE part.n \notin Numbers(parts)
  BY <1>2 DEF AddUploadedPart
<1> QED
  BY <1>1, <1>2

LEMMA OneRequest ==
  ASSUME TypeInv, NEW r \in Requests, NEW q \in Request, Phase(q), Becomes(r, q)
  PROVE  req' \in [Requests -> Request] /\ \A p \in Requests : Phase(req'[p])
BY DEF TypeInv, TypeOK, Becomes

LEMMA FinishType ==
  ASSUME TypeInv, NEW r \in Requests, Finish(r)
  PROVE  req' \in [Requests -> Request] /\ \A p \in Requests : Phase(req'[p])
BY OneRequest, IdleType DEF Finish

Labels == {"idle", "checkParent", "createUpload", "insertSession", "cleanUp", "readSession",
           "getDriver", "sendPart", "recordPart", "completeUpload", "createItem",
           "saveAccount", "abortUpload", "deleteSession"}

LEMMA GoesToType ==
  ASSUME TypeInv, NEW r \in Requests, NEW l \in Labels \ {"sendPart", "recordPart"},
         GoesTo(r, l)
  PROVE  req' \in [Requests -> Request] /\ \A p \in Requests : Phase(req'[p])
<1> DEFINE q == [req[r] EXCEPT !.pc = l]
<1>1. req[r] \in Request /\ Phase(req[r])
  BY DEF TypeInv, TypeOK
<1>2. q \in Request
  BY <1>1 DEF Request, Labels
<1>3. Phase(q)
  BY <1>1 DEF Request, Phase
<1> QED
  BY <1>2, <1>3, OneRequest DEF GoesTo

LEMMA InitTypeInv == Init => TypeInv
<1> SUFFICES ASSUME Init PROVE TypeInv
  OBVIOUS
<1>1. <<>> \in Seq(Part)
  OBVIOUS
<1>2. session \in Session /\ object \in Seq(Part)
  BY <1>1 DEF Init, Session
<1>3. upload \in Upload
  BY DEF Init, Upload
<1>4. req \in [Requests -> Request] /\ \A r \in Requests : Phase(req[r])
  BY IdleType DEF Init
<1> QED
  BY <1>2, <1>3, <1>4 DEF Init, TypeInv, TypeOK, Past

LEMMA S3AbortType ==
  ASSUME TypeOK, S3Abort
  PROVE  upload' \in Upload
BY DEF TypeOK, S3Abort, Upload

LEMMA StartType ==
  ASSUME TypeInv, NEW r \in Requests, Start(r)
  PROVE  TypeInv'
<1>1. CASE StartInitiate(r)
  <2> DEFINE q == [Idle EXCEPT !.op = "initiate", !.pc = "checkParent"]
  <2>1. q \in Request /\ Phase(q)
    BY IdleType DEF Request, Phase
  <2>2. Becomes(r, q)
    BY <1>1 DEF StartInitiate
  <2> HIDE DEF q
  <2>3. req' \in [Requests -> Request] /\ \A p \in Requests : Phase(req'[p])
    BY <2>1, <2>2, OneRequest
  <2> QED
    BY <1>1, <2>3 DEF StartInitiate, NoteOverlap, TypeInv, TypeOK, Past
<1>2. ASSUME NEW n \in PartNumbers, StartPart(r, n) PROVE TypeInv'
  <2> DEFINE q == [Idle EXCEPT !.op = "part", !.n = n, !.pc = "readSession"]
  <2>1. q \in Request /\ Phase(q)
    BY IdleType DEF Request, Phase
  <2>2. Becomes(r, q)
    BY <1>2 DEF StartPart
  <2> HIDE DEF q
  <2>3. req' \in [Requests -> Request] /\ \A p \in Requests : Phase(req'[p])
    BY <2>1, <2>2, OneRequest
  <2> QED
    BY <1>2, <2>3 DEF StartPart, NoteOverlap, TypeInv, TypeOK, Past
<1>3. ASSUME NEW op \in {"complete", "abort"}, StartClose(r, op) PROVE TypeInv'
  <2> DEFINE q == [Idle EXCEPT !.op = op, !.pc = "readSession"]
  <2>1. q \in Request /\ Phase(q)
    BY IdleType DEF Request, Phase
  <2>2. Becomes(r, q)
    BY <1>3 DEF StartClose
  <2> HIDE DEF q
  <2>3. req' \in [Requests -> Request] /\ \A p \in Requests : Phase(req'[p])
    BY <2>1, <2>2, OneRequest
  <2> QED
    BY <1>3, <2>3 DEF StartClose, NoteOverlap, TypeInv, TypeOK, Past
<1> QED
  BY <1>1, <1>2, <1>3 DEF Start

LEMMA AdvanceType ==
  ASSUME TypeInv, NEW r \in Requests, Advance(r)
  PROVE  TypeInv'
<1> DEFINE Typed == req' \in [Requests -> Request] /\ \A p \in Requests : Phase(req'[p])
<1>0. req[r] \in Request /\ Phase(req[r]) /\ TypeOK
  BY DEF TypeInv, TypeOK
<1>f. Finish(r) => Typed
  BY FinishType
<1>g. \A l \in Labels \ {"sendPart", "recordPart"} : GoesTo(r, l) => Typed
  BY GoesToType
<1> SUFFICES ASSUME TRUE
             PROVE  /\ Typed
                    /\ session' \in Session /\ upload' \in Upload /\ object' \in Seq(Part)
                    /\ items' \in Nat /\ used' \in Nat /\ expired' \in BOOLEAN
                    /\ confirmed' \subseteq PartNumbers
                    /\ past' \in Past
  BY DEF TypeInv, TypeOK
<1> HIDE DEF Typed
<1>1. CASE CheckParent(r) \/ CreateUpload(r)
  BY <1>0, <1>f, <1>g, <1>1 DEF CheckParent, CreateUpload, TypeOK, Upload, Labels
<1>2. CASE InsertSession(r)
  BY <1>0, <1>f, <1>g, <1>2 DEF InsertSession, TypeOK, Session, Labels
<1>3. CASE CleanUp(r)
  BY <1>0, <1>f, <1>3, S3AbortType DEF CleanUp, TypeOK
<1>4. CASE ReadSession(r)
  <2> DEFINE q == [req[r] EXCEPT !.parts = session.parts, !.pc = "getDriver"]
  <2>1. q \in Request /\ Phase(q)
    BY <1>0 DEF TypeOK, Session, Request, Phase
  <2>2. Becomes(r, q) => Typed
    BY <2>1, OneRequest DEF Typed
  <2> QED
    BY <1>0, <1>f, <1>4, <2>2 DEF ReadSession, TypeOK
<1>5. CASE GetDriver(r)
  <2> DEFINE q == [req[r] EXCEPT !.acct = used, !.pc = AfterDriver(r)]
  <2>1. AfterDriver(r) \in {"sendPart", "completeUpload", "abortUpload"}
        /\ (AfterDriver(r) = "sendPart" => req[r].op = "part")
    BY DEF AfterDriver
  <2>0. q \in Request /\ q.pc = AfterDriver(r) /\ q.op = req[r].op /\ q.n = req[r].n
    BY <1>0, <2>1 DEF TypeOK, Request
  <2>2. Phase(q)
    BY <1>0, <2>0, <2>1 DEF Phase
  <2>3. Becomes(r, q) => Typed
    BY <2>0, <2>2, OneRequest DEF Typed
  <2> QED
    BY <1>0, <1>f, <1>g, <1>5, <2>3 DEF GetDriver, TypeOK, Labels
<1>6. CASE SendPart(r)
  <2>1. req[r].n \in PartNumbers
    BY <1>0, <1>6 DEF SendPart, At, Phase
  <2>2. ASSUME NEW e \in Etags, Becomes(r, [req[r] EXCEPT !.etag = e, !.pc = "recordPart"])
        PROVE  Typed
    <3> DEFINE q == [req[r] EXCEPT !.etag = e, !.pc = "recordPart"]
    <3>1. q \in Request /\ Phase(q)
      BY <1>0, <2>1 DEF Request, Phase
    <3> QED
      BY <2>2, <3>1, OneRequest DEF Typed
  <2>3. Typed
    BY <1>f, <1>6, <2>2 DEF SendPart
  <2>4. upload' \in Upload
    <3>1. UNCHANGED upload
          \/ \E e \in Etags : upload' = [upload EXCEPT !.parts[req[r].n] = e]
      BY <1>6 DEF SendPart
    <3>2. ASSUME NEW e \in Etags PROVE [upload EXCEPT !.parts[req[r].n] = e] \in Upload
      BY <1>0, <2>1 DEF TypeOK, Upload
    <3> QED
      BY <1>0, <3>1, <3>2 DEF TypeOK
  <2> QED
    BY <1>0, <1>6, <2>3, <2>4 DEF SendPart, TypeOK
<1>7. CASE RecordPart(r)
  <2> DEFINE part == [n |-> req[r].n, etag |-> req[r].etag]
  <2>1. part \in Part /\ req[r].parts \in Seq(Part)
    BY <1>0, <1>7 DEF RecordPart, At, Phase, Part, Request
  <2>2. WithPart(r) \in Seq(Part)
    BY <2>1, AddUploadedPartType DEF WithPart
  <2>3. session' \in Session /\ confirmed' \subseteq PartNumbers
    BY <1>0, <1>7, <2>1, <2>2 DEF RecordPart, Session, TypeOK, Part
  <2> QED
    BY <1>0, <1>f, <1>7, <2>3 DEF RecordPart, TypeOK
<1>8. CASE CompleteUpload(r)
  BY <1>0, <1>f, <1>g, <1>8 DEF CompleteUpload, TypeOK, Upload, Request, Labels
<1>9. CASE CreateItem(r)
  BY <1>0, <1>f, <1>g, <1>9 DEF CreateItem, TypeOK, Labels
<1>10. CASE SaveAccount(r)
  BY <1>0, <1>g, <1>10 DEF SaveAccount, TypeOK, Request, Labels, Past
<1>11. CASE AbortUpload(r)
  BY <1>0, <1>g, <1>11, S3AbortType DEF AbortUpload, TypeOK, Labels
<1>12. CASE DeleteSession(r)
  <2>1. session' \in Session
    <3>1. <<>> \in Seq(Part)
      OBVIOUS
    <3>2. session \in Session /\ [state |-> "gone", parts |-> <<>>] \in Session
      BY <1>0, <3>1 DEF TypeOK, Session
    <3>3. session' \in {session, [state |-> "gone", parts |-> <<>>]}
      BY <1>12 DEF DeleteSession
    <3> QED
      BY <3>2, <3>3
  <2> QED
    BY <1>0, <1>f, <1>12, <2>1 DEF DeleteSession, TypeOK
<1> QED
  BY <1>1, <1>2, <1>3, <1>4, <1>5, <1>6, <1>7, <1>8, <1>9, <1>10, <1>11, <1>12 DEF Advance

LEMMA NextTypeInv == TypeInv /\ [Next]_vars => TypeInv'
<1> SUFFICES ASSUME TypeInv, [Next]_vars PROVE TypeInv'
  OBVIOUS
<1>1. CASE Expire
  BY <1>1 DEF Expire, TypeInv, TypeOK
<1>2. CASE Crash
  BY <1>2, IdleType DEF Crash, TypeInv, TypeOK, Past
<1>3. CASE \E r \in Requests : Start(r) \/ Advance(r)
  BY <1>3, StartType, AdvanceType
<1>4. CASE UNCHANGED vars
  BY <1>4 DEF vars, TypeInv, TypeOK
<1> QED
  BY <1>1, <1>2, <1>3, <1>4 DEF Next

\* Every reachable state is well typed, the parts list being a sequence of
\* parts however often it is written back from a stale copy.
THEOREM TypeCorrect == Spec => []TypeOK
<1>1. TypeInv => TypeOK
  BY DEF TypeInv
<1> QED
  BY <1>1, InitTypeInv, NextTypeInv, PTL DEF Spec

-----------------------------------------------------------------------------
(* One file per upload.  S3 completes an upload id once; the request that   *)
(* it answered is the only one between that answer and the INSERT.          *)

Making(q) == q.pc = "createItem"

\* On the way to the S3 upload.
Opening(q) == q.pc \in {"checkParent", "createUpload"}

ItemInv ==
  /\ \A p, q \in Requests : req[p].op = "initiate" /\ req[q].op = "initiate" => p = q
  /\ \A r \in Requests : Opening(req[r]) => req[r].op = "initiate" /\ upload.state = "none"
  /\ \A r \in Requests : At(r, "completeUpload") => req[r].parts # <<>>
  /\ \A r \in Requests : Making(req[r]) => items = 0
  /\ \A p, q \in Requests : Making(req[p]) /\ Making(req[q]) => p = q
  /\ (\E r \in Requests : Making(req[r])) \/ items # 0
       => upload.state = "completed" /\ object # <<>>
  /\ items <= 1
  /\ object # <<>> => upload.state = "completed"

LEMMA InitItem == Init => ItemInv
BY DEF Init, ItemInv, Idle, At, Making, Opening

\* A step of request r that neither initiates nor makes an item.
LEMMA ItemKept ==
  ASSUME TypeInv, ItemInv, NEW r \in Requests, NEW q, Becomes(r, q),
         q.op = req[r].op \/ q.op # "initiate",
         q.pc \notin {"checkParent", "createUpload", "createItem"},
         q.pc = "completeUpload" => q.parts # <<>>,
         upload'.state = upload.state \/ (upload.state = "open" /\ upload'.state = "aborted"),
         UNCHANGED <<object, items>>
  PROVE  ItemInv'
<1>1. \A p \in Requests : req'[p] = IF p = r THEN q ELSE req[p]
  BY DEF Becomes, TypeInv, TypeOK
<1> QED
  BY <1>1 DEF ItemInv, At, Making, Opening

LEMMA NextItem ==
  ASSUME TypeInv, ItemInv, [Next]_vars
  PROVE  ItemInv'
<1>1. CASE Expire \/ Crash \/ UNCHANGED vars
  BY <1>1 DEF Expire, Crash, vars, ItemInv, At, Making, Opening, Idle
<1>2. ASSUME NEW r \in Requests, Start(r) PROVE ItemInv'
  <2>1. CASE StartInitiate(r)
    <3> DEFINE q == [Idle EXCEPT !.op = "initiate", !.pc = "checkParent"]
    <3>1. q.op = "initiate" /\ q.pc = "checkParent"
      BY DEF Idle
    <3>2. \A p \in Requests : req'[p] = IF p = r THEN q ELSE req[p]
      BY <2>1 DEF StartInitiate, Becomes, TypeInv, TypeOK
    <3> HIDE DEF q
    <3> QED
      BY <2>1, <3>1, <3>2 DEF StartInitiate, ItemInv, At, Making, Opening
  <2>2. ASSUME NEW n \in PartNumbers, StartPart(r, n) PROVE ItemInv'
    <3> DEFINE q == [Idle EXCEPT !.op = "part", !.n = n, !.pc = "readSession"]
    <3>1. q.op = "part" /\ q.pc = "readSession"
      BY DEF Idle
    <3> QED
      BY <2>2, <3>1, ItemKept DEF StartPart
  <2>3. ASSUME NEW op \in {"complete", "abort"}, StartClose(r, op) PROVE ItemInv'
    <3> DEFINE q == [Idle EXCEPT !.op = op, !.pc = "readSession"]
    <3>1. q.op = op /\ q.pc = "readSession"
      BY DEF Idle
    <3> QED
      BY <2>3, <3>1, ItemKept DEF StartClose
  <2> QED
    BY <1>2, <2>1, <2>2, <2>3 DEF Start
<1>3. ASSUME NEW r \in Requests, Advance(r) PROVE ItemInv'
  <2>0. req[r] \in Request
    BY DEF TypeInv, TypeOK
  <2>f. ASSUME Finish(r), UNCHANGED <<upload, object, items>> PROVE ItemInv'
    BY <2>f, ItemKept DEF Finish, Idle
  <2>p. CASE CheckParent(r)
    <3> DEFINE q == [req[r] EXCEPT !.pc = "createUpload"]
    <3>1. q.op = req[r].op /\ q.pc = "createUpload"
      BY <2>0 DEF Request
    <3>2. UNCHANGED <<upload, object, items>> /\ (Becomes(r, q) \/ Finish(r)) /\ Opening(req[r])
      BY <2>p DEF CheckParent, GoesTo, At, Opening
    <3> HIDE DEF q
    <3>3. CASE Becomes(r, q)
      <4>1. \A p \in Requests : req'[p] = IF p = r THEN q ELSE req[p]
        BY <3>3 DEF Becomes, TypeInv, TypeOK
      <4> QED
        BY <3>1, <3>2, <4>1 DEF ItemInv, At, Making, Opening
    <3> QED
      BY <2>f, <3>2, <3>3
  <2>1. CASE CreateUpload(r)
    <3>1. CASE Finish(r) /\ UNCHANGED upload
      BY <2>1, <2>f, <3>1 DEF CreateUpload
    <3>2. CASE upload'.state = "open" /\ (GoesTo(r, "insertSession") \/ Finish(r))
      <4>1. PICK q : /\ Becomes(r, q)
                     /\ q.op = req[r].op \/ q.op # "initiate"
                     /\ q.pc \in {"insertSession", "idle"}
        <5> DEFINE q == [req[r] EXCEPT !.pc = "insertSession"]
        <5>1. q.op = req[r].op /\ q.pc = "insertSession"
          BY <2>0 DEF Request
        <5>2. Becomes(r, q) \/ Becomes(r, Idle)
          BY <3>2 DEF GoesTo, Finish
        <5>3. Idle.op = "none" /\ Idle.pc = "idle"
          BY DEF Idle
        <5> HIDE DEF q
        <5> QED
          BY <5>1, <5>2, <5>3
      <4>2. \A p \in Requests : req'[p] = IF p = r THEN q ELSE req[p]
        BY <4>1 DEF Becomes, TypeInv, TypeOK
      <4>3. upload.state = "none" /\ req[r].op = "initiate"
        BY <2>1 DEF CreateUpload, ItemInv, At, Opening
      <4>4. \A p \in Requests : p # r => ~Opening(req[p])
        BY <4>3 DEF ItemInv
      <4>5. items = 0 /\ object = <<>> /\ \A p \in Requests : ~Making(req[p])
        BY <4>3 DEF ItemInv
      <4> QED
        BY <2>1, <3>2, <4>1, <4>2, <4>3, <4>4, <4>5 DEF CreateUpload, ItemInv, At, Making, Opening
    <3>3. \/ Finish(r) /\ UNCHANGED upload
          \/ upload'.state = "open" /\ (GoesTo(r, "insertSession") \/ Finish(r))
      BY <2>1 DEF CreateUpload, TypeInv, TypeOK, Upload
    <3> QED
      BY <3>1, <3>2, <3>3
  <2>2. CASE InsertSession(r)
    <3> DEFINE q == [req[r] EXCEPT !.pc = "cleanUp"]
    <3>1. q.op = req[r].op /\ q.pc = "cleanUp"
      BY <2>0 DEF Request
    <3>2. Finish(r) \/ Becomes(r, q)
      BY <2>2 DEF InsertSession, GoesTo
    <3> HIDE DEF q
    <3> QED
      BY <2>2, <2>f, <3>1, <3>2, ItemKept DEF InsertSession
  <2>3. CASE CleanUp(r)
    <3>1. upload'.state = upload.state \/ (upload.state = "open" /\ upload'.state = "aborted")
      BY <2>3 DEF CleanUp, S3Abort, TypeInv, TypeOK, Upload
    <3> QED
      BY <2>3, <3>1, ItemKept DEF CleanUp, Finish, Idle
  <2>4. CASE ReadSession(r)
    <3> DEFINE q == [req[r] EXCEPT !.parts = session.parts, !.pc = "getDriver"]
    <3>1. q.op = req[r].op /\ q.pc = "getDriver"
      BY <2>0 DEF Request
    <3>2. Finish(r) \/ Becomes(r, q)
      BY <2>4 DEF ReadSession
    <3> HIDE DEF q
    <3> QED
      BY <2>4, <2>f, <3>1, <3>2, ItemKept DEF ReadSession
  <2>5. CASE GetDriver(r)
    <3> DEFINE q == [req[r] EXCEPT !.acct = used, !.pc = AfterDriver(r)]
               p == [req[r] EXCEPT !.pc = "deleteSession"]
    <3>1. /\ q.op = req[r].op /\ q.pc = AfterDriver(r) /\ q.parts = req[r].parts
          /\ p.op = req[r].op /\ p.pc = "deleteSession"
      BY <2>0 DEF Request
    <3>2. \/ Finish(r)
          \/ Becomes(r, p)
          \/ Becomes(r, q) /\ ~(req[r].op = "complete" /\ req[r].parts = <<>>)
      BY <2>5 DEF GetDriver, GoesTo
    <3>3. AfterDriver(r) \in {"sendPart", "completeUpload", "abortUpload"}
          /\ (AfterDriver(r) = "completeUpload" => req[r].op = "complete")
      BY DEF AfterDriver
    <3> HIDE DEF p, q
    <3> QED
      BY <2>5, <2>f, <3>1, <3>2, <3>3, ItemKept DEF GetDriver
  <2>6. CASE SendPart(r)
    <3>1. upload'.state = upload.state
      BY <2>6 DEF SendPart, TypeInv, TypeOK, Upload
    <3>2. ASSUME NEW e \in Etags,
                 Becomes(r, [req[r] EXCEPT !.etag = e, !.pc = "recordPart"])
          PROVE  ItemInv'
      <4> DEFINE q == [req[r] EXCEPT !.etag = e, !.pc = "recordPart"]
      <4>1. q.op = req[r].op /\ q.pc = "recordPart"
        BY <2>0 DEF Request
      <4>2. Becomes(r, q) /\ UNCHANGED <<object, items>>
        BY <2>6, <3>2 DEF SendPart
      <4> HIDE DEF q
      <4> QED
        BY <3>1, <4>1, <4>2, ItemKept
    <3>3. Finish(r) => ItemInv'
      BY <2>6, <3>1, ItemKept DEF SendPart, Finish, Idle
    <3> QED
      BY <2>6, <3>2, <3>3 DEF SendPart
  <2>7. CASE RecordPart(r)
    BY <2>7, <2>f DEF RecordPart
  <2>8. CASE CompleteUpload(r)
    <3>1. CASE Finish(r) /\ UNCHANGED <<upload, object>>
      BY <2>8, <2>f, <3>1 DEF CompleteUpload
    <3>2. CASE /\ S3Accepts(req[r].parts)
               /\ upload' = [upload EXCEPT !.state = "completed"]
               /\ object' = req[r].parts
               /\ GoesTo(r, "createItem") \/ Finish(r)
      <4>1. /\ upload.state = "open" /\ upload'.state = "completed"
            /\ object' # <<>> /\ UNCHANGED items
        BY <2>8, <3>2 DEF CompleteUpload, S3Accepts, At, ItemInv, TypeInv, TypeOK, Upload
      <4>2. /\ items = 0 /\ \A p \in Requests : ~Making(req[p])
            /\ \A p \in Requests : ~Opening(req[p])
        BY <4>1 DEF ItemInv
      <4>3. PICK q : /\ Becomes(r, q)
                     /\ q.op = req[r].op \/ q.op # "initiate"
                     /\ q.pc \in {"createItem", "idle"}
        <5> DEFINE q == [req[r] EXCEPT !.pc = "createItem"]
        <5>1. q.op = req[r].op /\ q.pc = "createItem"
          BY <2>0 DEF Request
        <5>2. Becomes(r, q) \/ Becomes(r, Idle)
          BY <3>2 DEF GoesTo, Finish
        <5>3. Idle.op = "none" /\ Idle.pc = "idle"
          BY DEF Idle
        <5> HIDE DEF q
        <5> QED
          BY <5>1, <5>2, <5>3
      <4>4. \A p \in Requests : req'[p] = IF p = r THEN q ELSE req[p]
        BY <4>3 DEF Becomes, TypeInv, TypeOK
      <4> QED
        BY <4>1, <4>2, <4>3, <4>4 DEF ItemInv, At, Making, Opening
    <3> QED
      BY <2>8, <3>1, <3>2 DEF CompleteUpload
  <2>9. CASE CreateItem(r)
    <3>1. CASE Finish(r) /\ UNCHANGED items
      BY <2>9, <2>f, <3>1 DEF CreateItem
    <3>2. CASE items' = items + 1 /\ GoesTo(r, "saveAccount")
      <4> DEFINE q == [req[r] EXCEPT !.pc = "saveAccount"]
      <4>1. q.op = req[r].op /\ q.pc = "saveAccount"
        BY <2>0 DEF Request
      <4>2. \A p \in Requests : req'[p] = IF p = r THEN q ELSE req[p]
        BY <3>2 DEF GoesTo, Becomes, TypeInv, TypeOK
      <4>3. /\ items = 0 /\ items' = 1 /\ UNCHANGED <<upload, object>>
            /\ upload.state = "completed" /\ object # <<>>
            /\ \A p \in Requests : p # r => ~Making(req[p])
        BY <2>9, <3>2 DEF CreateItem, At, ItemInv, Making
      <4> HIDE DEF q
      <4> QED
        BY <4>1, <4>2, <4>3 DEF ItemInv, At, Making, Opening
    <3> QED
      BY <2>9, <3>1, <3>2 DEF CreateItem
  <2>10. CASE SaveAccount(r) \/ AbortUpload(r)
    <3> DEFINE q == [req[r] EXCEPT !.pc = "deleteSession"]
    <3>1. q.op = req[r].op /\ q.pc = "deleteSession"
      BY <2>0 DEF Request
    <3>2. Becomes(r, q) /\ UNCHANGED <<object, items>>
      BY <2>10 DEF SaveAccount, AbortUpload, GoesTo
    <3>3. upload'.state = upload.state \/ (upload.state = "open" /\ upload'.state = "aborted")
      <4>1. UNCHANGED upload \/ S3Abort
        BY <2>10 DEF SaveAccount, AbortUpload
      <4>2. upload \in Upload
        BY DEF TypeInv, TypeOK
      <4>3. ASSUME S3Abort, upload.state = "open" PROVE upload'.state \in {"open", "aborted"}
        BY <4>2, <4>3 DEF S3Abort, Upload
      <4>4. ASSUME S3Abort, upload.state # "open" PROVE UNCHANGED upload
        BY <4>4 DEF S3Abort
      <4> QED
        BY <4>1, <4>3, <4>4
    <3> HIDE DEF q
    <3> QED
      BY <3>1, <3>2, <3>3, ItemKept
  <2>11. CASE DeleteSession(r)
    BY <2>11, <2>f DEF DeleteSession
  <2> QED
    BY <1>3, <2>p, <2>1, <2>2, <2>3, <2>4, <2>5, <2>6, <2>7, <2>8, <2>9, <2>10, <2>11 DEF Advance
<1> QED
  BY <1>1, <1>2, <1>3 DEF Next

\* An upload becomes at most one file, whichever requests race, whatever part
\* of them fails and wherever the server stops.
THEOREM OneItem == Spec => []OneItemPerUpload
<1>1. Init => TypeInv /\ ItemInv
  BY InitTypeInv, InitItem
<1>2. TypeInv /\ ItemInv /\ [Next]_vars => (TypeInv /\ ItemInv)'
  BY NextTypeInv, NextItem
<1>3. TypeInv /\ ItemInv => OneItemPerUpload
  BY DEF ItemInv, OneItemPerUpload
<1> QED
  BY <1>1, <1>2, <1>3, PTL DEF Spec

-----------------------------------------------------------------------------
(* Recorded parts.  A list of parts travels from the row into a request and *)
(* back; S3 never forgets a part, so an old copy still names stored ones.   *)

StoredIn(held, parts) == \A i \in DOMAIN parts : held[parts[i].n] # NoPart

Distinct(parts) == \A i, j \in DOMAIN parts : parts[i].n = parts[j].n => i = j

RecInv ==
  /\ StoredIn(upload.parts, session.parts) /\ Distinct(session.parts)
  /\ \A r \in Requests : StoredIn(upload.parts, req[r].parts) /\ Distinct(req[r].parts)
  /\ \A r \in Requests : At(r, "recordPart") => upload.parts[req[r].n] # NoPart

Grows == \A n \in PartNumbers : upload.parts[n] # NoPart => upload'.parts[n] # NoPart

LEMMA AddUploadedPartStores ==
  ASSUME NEW held, NEW parts \in Seq(Part), NEW part \in Part,
         StoredIn(held, parts), held[part.n] # NoPart
  PROVE  StoredIn(held, AddUploadedPart(parts, part))
<1>1. CASE part.n \in Numbers(parts)
  BY <1>1 DEF AddUploadedPart, StoredIn
<1>2. CASE part.n \notin Numbers(parts)
  <2>1. AddUploadedPart(parts, part) = Append(parts, part)
    BY <1>2 DEF AddUploadedPart
  <2>2. \A i \in DOMAIN Append(parts, part) :
          Append(parts, part)[i] = part \/ (i \in DOMAIN parts /\ Append(parts, part)[i] = parts[i])
    OBVIOUS
  <2> QED
    BY <2>1, <2>2 DEF StoredIn
<1> QED
  BY <1>1, <1>2

LEMMA AddUploadedPartDistinct ==
  ASSUME NEW parts \in Seq(Part), NEW part \in Part, Distinct(parts)
  PROVE  Distinct(AddUploadedPart(parts, part))
<1>1. CASE part.n \in Numbers(parts)
  <2> DEFINE s == [i \in DOMAIN parts |-> IF parts[i].n = part.n THEN part ELSE parts[i]]
  <2>1. DOMAIN s = DOMAIN parts /\ \A i \in DOMAIN parts : s[i].n = parts[i].n
    OBVIOUS
  <2>2. AddUploadedPart(parts, part) = s
    BY <1>1 DEF AddUploadedPart
  <2> HIDE DEF s
  <2> QED
    BY <2>1, <2>2 DEF Distinct
<1>2. CASE part.n \notin Numbers(parts)
  <2> DEFINE s == Append(parts, part)
  <2>1. /\ DOMAIN s = 1..(Len(parts) + 1) /\ DOMAIN parts = 1..Len(parts) /\ Len(parts) \in Nat
        /\ \A i \in DOMAIN parts : s[i] = parts[i]
        /\ s[Len(parts) + 1] = part
    OBVIOUS
  <2>2. \A i \in DOMAIN parts : parts[i].n # part.n
    BY <1>2 DEF Numbers
  <2>3. AddUploadedPart(parts, part) = s
    BY <1>2 DEF AddUploadedPart
  <2> HIDE DEF s
  <2>4. \A i \in DOMAIN s : i \in DOMAIN parts \/ i = Len(parts) + 1
    BY <2>1
  <2> QED
    BY <2>1, <2>2, <2>3, <2>4 DEF Distinct
<1> QED
  BY <1>1, <1>2

\* A list without repetitions has as many entries as part numbers.
LEMMA DistinctCount ==
  ASSUME NEW parts \in Seq(Part), Distinct(parts)
  PROVE  Cardinality(Numbers(parts)) = Len(parts)
<1> DEFINE f == [i \in 1..Len(parts) |-> parts[i].n]
<1>1. Len(parts) \in Nat /\ DOMAIN parts = 1..Len(parts)
  OBVIOUS
<1>2. f \in Bijection(1..Len(parts), Numbers(parts))
  BY <1>1 DEF Distinct, Numbers, Bijection, Injection, Surjection, IsInjective
<1>3. ExistsBijection(1..Len(parts), Numbers(parts))
  BY <1>2 DEF ExistsBijection
<1>4. IsFiniteSet(1..Len(parts)) /\ Cardinality(1..Len(parts)) = Len(parts)
  BY <1>1, FS_Interval
<1> QED
  BY <1>3, <1>4, FS_Bijection

LEMMA PartsGrow ==
  ASSUME TypeInv, [Next]_vars
  PROVE  Grows
<1>1. ASSUME NEW r \in Requests, SendPart(r) PROVE Grows
  <2>1. ASSUME NEW e \in Etags, upload' = [upload EXCEPT !.parts[req[r].n] = e] PROVE Grows
    BY <2>1, EtagAssumption DEF Grows, TypeInv, TypeOK, Upload
  <2> QED
    BY <1>1, <2>1 DEF SendPart, Grows
<1>2. ASSUME NEW r \in Requests, Advance(r), ~SendPart(r) PROVE upload'.parts = upload.parts
  BY <1>2 DEF Advance, CheckParent, CreateUpload, InsertSession, CleanUp, S3Abort, ReadSession, GetDriver,
     RecordPart, CompleteUpload, CreateItem, SaveAccount, AbortUpload, DeleteSession,
     TypeInv, TypeOK, Upload
<1>3. ASSUME NEW r \in Requests, Start(r) PROVE upload'.parts = upload.parts
  BY <1>3 DEF Start, StartInitiate, StartPart, StartClose
<1>4. CASE Expire \/ Crash \/ UNCHANGED vars
  BY <1>4 DEF Expire, Crash, vars, Grows
<1> QED
  BY <1>1, <1>2, <1>3, <1>4 DEF Next, Grows

\* A step of request r that carries no list but its own or the row's.
LEMMA RecKept ==
  ASSUME TypeInv, RecInv, Grows, NEW r \in Requests, NEW q \in Request, Becomes(r, q),
         q.parts \in {req[r].parts, session.parts, <<>>},
         q.pc = "recordPart" => upload'.parts[q.n] # NoPart,
         session'.parts \in {session.parts, <<>>}
  PROVE  RecInv'
<1>1. \A p \in Requests : req'[p] = IF p = r THEN q ELSE req[p]
  BY DEF Becomes, TypeInv, TypeOK
<1>2. ASSUME NEW s \in Seq(Part), StoredIn(upload.parts, s) PROVE StoredIn(upload'.parts, s)
  <2>1. \A i \in DOMAIN s : s[i] \in Part
    OBVIOUS
  <2>2. \A i \in DOMAIN s : s[i].n \in PartNumbers
    BY <2>1 DEF Part
  <2> QED
    BY <1>2, <2>2 DEF StoredIn, Grows
<1>3. StoredIn(upload'.parts, <<>>) /\ Distinct(<<>>)
  BY DEF StoredIn, Distinct
<1>4. session.parts \in Seq(Part) /\ \A p \in Requests : req[p].parts \in Seq(Part)
  BY DEF TypeInv, TypeOK, Session, Request
<1>5. StoredIn(upload'.parts, session'.parts) /\ Distinct(session'.parts)
  BY <1>2, <1>3, <1>4 DEF RecInv
<1>6. StoredIn(upload'.parts, q.parts) /\ Distinct(q.parts)
  BY <1>2, <1>3, <1>4 DEF RecInv
<1>7. \A p \in Requests : StoredIn(upload'.parts, req'[p].parts) /\ Distinct(req'[p].parts)
  BY <1>1, <1>2, <1>4, <1>6 DEF RecInv
<1>8. ASSUME NEW p \in Requests, req'[p].pc = "recordPart" PROVE upload'.parts[req'[p].n] # NoPart
  <2>1. CASE p = r
    BY <1>1, <1>8, <2>1
  <2>2. CASE p # r
    <3>1. req'[p] = req[p] /\ At(p, "recordPart")
      BY <1>1, <1>8, <2>2 DEF At
    <3>2. req[p].n \in PartNumbers
      BY <3>1 DEF TypeInv, Phase, At
    <3> QED
      BY <3>1, <3>2 DEF RecInv, Grows
  <2> QED
    BY <2>1, <2>2
<1> QED
  BY <1>5, <1>7, <1>8 DEF RecInv, At

LEMMA InitRec == Init => RecInv
BY DEF Init, RecInv, StoredIn, Distinct, Idle, At


LEMMA NextRec ==
  ASSUME TypeInv, RecInv, [Next]_vars
  PROVE  RecInv'
<1>0. Grows
  BY PartsGrow
<1>1. CASE Expire \/ Crash \/ UNCHANGED vars
  BY <1>1 DEF Expire, Crash, vars, RecInv, StoredIn, Distinct, At, Idle
<1>2. ASSUME NEW r \in Requests, Start(r) PROVE RecInv'
  <2>1. PICK q \in {[Idle EXCEPT !.op = "initiate", !.pc = "checkParent"]}
                   \cup {[Idle EXCEPT !.op = "part", !.n = n, !.pc = "readSession"] : n \in PartNumbers}
                   \cup {[Idle EXCEPT !.op = op, !.pc = "readSession"] : op \in {"complete", "abort"}} :
          Becomes(r, q)
    BY <1>2 DEF Start, StartInitiate, StartPart, StartClose
  <2>2. q \in Request /\ q.parts = <<>> /\ q.pc # "recordPart"
    <3>1. CASE q = [Idle EXCEPT !.op = "initiate", !.pc = "checkParent"]
      BY <3>1, IdleType DEF Idle, Request
    <3>2. ASSUME NEW n \in PartNumbers,
                 q = [Idle EXCEPT !.op = "part", !.n = n, !.pc = "readSession"]
          PROVE  q \in Request /\ q.parts = <<>> /\ q.pc # "recordPart"
      BY <3>2, IdleType DEF Idle, Request
    <3>3. ASSUME NEW op \in {"complete", "abort"},
                 q = [Idle EXCEPT !.op = op, !.pc = "readSession"]
          PROVE  q \in Request /\ q.parts = <<>> /\ q.pc # "recordPart"
      BY <3>3, IdleType DEF Idle, Request
    <3> QED
      BY <2>1, <3>1, <3>2, <3>3
  <2>3. UNCHANGED session
    BY <1>2 DEF Start, StartInitiate, StartPart, StartClose
  <2> QED
    BY <1>0, <2>1, <2>2, <2>3, RecKept
<1>3. ASSUME NEW r \in Requests, Advance(r) PROVE RecInv'
  <2>0. req[r] \in Request
    BY DEF TypeInv, TypeOK
  <2>f. ASSUME Finish(r), session'.parts \in {session.parts, <<>>} PROVE RecInv'
    <3>1. Idle \in Request /\ Idle.parts = <<>> /\ Idle.pc = "idle"
      BY IdleType DEF Idle
    <3> QED
      BY <1>0, <2>f, <3>1, RecKept DEF Finish
  <2>g. ASSUME NEW l \in Labels \ {"recordPart"}, GoesTo(r, l), session'.parts = session.parts
        PROVE  RecInv'
    <3> DEFINE q == [req[r] EXCEPT !.pc = l]
    <3>1. q \in Request /\ q.parts = req[r].parts /\ q.pc # "recordPart"
      BY <2>0 DEF Request, Labels
    <3>2. Becomes(r, q)
      BY <2>g DEF GoesTo
    <3> HIDE DEF q
    <3> QED
      BY <1>0, <2>g, <3>1, <3>2, RecKept
  <2>1. CASE CheckParent(r) \/ CreateUpload(r)
    BY <2>1, <2>f, <2>g DEF CheckParent, CreateUpload, Labels
  <2>2. CASE InsertSession(r)
    <3>1. session'.parts = session.parts
      BY <2>2 DEF InsertSession, TypeInv, TypeOK, Session
    <3> QED
      BY <2>2, <2>f, <2>g, <3>1 DEF InsertSession, Labels
  <2>3. CASE CleanUp(r)
    BY <2>3, <2>f DEF CleanUp
  <2>4. CASE ReadSession(r)
    <3> DEFINE q == [req[r] EXCEPT !.parts = session.parts, !.pc = "getDriver"]
    <3>1. q \in Request /\ q.parts = session.parts /\ q.pc # "recordPart"
      BY <2>0 DEF TypeInv, TypeOK, Session, Request
    <3>2. UNCHANGED session /\ (Finish(r) \/ Becomes(r, q))
      BY <2>4 DEF ReadSession
    <3> HIDE DEF q
    <3> QED
      BY <1>0, <2>f, <3>1, <3>2, RecKept
  <2>5. CASE GetDriver(r)
    <3> DEFINE q == [req[r] EXCEPT !.acct = used, !.pc = AfterDriver(r)]
    <3>1. AfterDriver(r) \in {"sendPart", "completeUpload", "abortUpload"}
      BY DEF AfterDriver
    <3>2. q \in Request /\ q.parts = req[r].parts /\ q.pc # "recordPart"
      BY <2>0, <3>1 DEF TypeInv, TypeOK, Request
    <3>3. UNCHANGED session /\ (Finish(r) \/ Becomes(r, q) \/ GoesTo(r, "deleteSession"))
      BY <2>5 DEF GetDriver
    <3> HIDE DEF q
    <3> QED
      BY <1>0, <2>f, <2>g, <3>2, <3>3, RecKept DEF Labels
  <2>6. CASE SendPart(r)
    <3>1. req[r].n \in PartNumbers /\ UNCHANGED session
      BY <2>6 DEF SendPart, At, TypeInv, Phase
    <3>2. ASSUME NEW e \in Etags, upload' = [upload EXCEPT !.parts[req[r].n] = e],
                 Becomes(r, [req[r] EXCEPT !.etag = e, !.pc = "recordPart"])
          PROVE  RecInv'
      <4> DEFINE q == [req[r] EXCEPT !.etag = e, !.pc = "recordPart"]
      <4>1. q \in Request /\ q.parts = req[r].parts /\ q.n = req[r].n
        BY <2>0 DEF Request
      <4>2. upload'.parts[req[r].n] # NoPart
        BY <3>1, <3>2, EtagAssumption DEF TypeInv, TypeOK, Upload
      <4>3. Becomes(r, q)
        BY <3>2
      <4> HIDE DEF q
      <4> QED
        BY <1>0, <3>1, <4>1, <4>2, <4>3, RecKept
    <3> QED
      BY <2>6, <2>f, <3>1, <3>2 DEF SendPart
  <2>7. CASE RecordPart(r)
    <3> DEFINE part == [n |-> req[r].n, etag |-> req[r].etag]
               s == AddUploadedPart(req[r].parts, part)
    <3>1. part \in Part /\ part.n = req[r].n /\ req[r].parts \in Seq(Part)
      BY <2>0, <2>7 DEF RecordPart, At, TypeInv, Phase, Part, Request
    <3>2. StoredIn(upload.parts, req[r].parts) /\ Distinct(req[r].parts) /\ upload.parts[part.n] # NoPart
      BY <2>7, <3>1 DEF RecordPart, RecInv
    <3>3. StoredIn(upload.parts, s) /\ Distinct(s)
      BY <3>1, <3>2, AddUploadedPartStores, AddUploadedPartDistinct
    <3>4. session'.parts \in {s, session.parts} /\ UNCHANGED upload /\ Becomes(r, Idle)
      BY <2>7 DEF RecordPart, WithPart, Finish
    <3> HIDE DEF s
    <3>5. \A p \in Requests : req'[p] = IF p = r THEN Idle ELSE req[p]
      BY <3>4 DEF Becomes, TypeInv, TypeOK
    <3>6. Idle.pc = "idle" /\ Idle.parts = <<>>
      BY DEF Idle
    <3>7. StoredIn(upload.parts, <<>>) /\ Distinct(<<>>)
      BY DEF StoredIn, Distinct
    <3> QED
      BY <3>3, <3>4, <3>5, <3>6, <3>7 DEF RecInv, At
  <2>8. CASE CompleteUpload(r)
    BY <2>8, <2>f, <2>g DEF CompleteUpload, Labels
  <2>9. CASE CreateItem(r)
    BY <2>9, <2>f, <2>g DEF CreateItem, Labels
  <2>10. CASE SaveAccount(r) \/ AbortUpload(r)
    BY <2>10, <2>g DEF SaveAccount, AbortUpload, Labels
  <2>11. CASE DeleteSession(r)
    BY <2>11, <2>f DEF DeleteSession
  <2> QED
    BY <1>3, <2>1, <2>2, <2>3, <2>4, <2>5, <2>6, <2>7, <2>8, <2>9, <2>10, <2>11 DEF Advance
<1> QED
  BY <1>1, <1>2, <1>3 DEF Next

\* However requests, failures and retries interleave, every part the row names
\* is one S3 holds, and no part is named twice.
THEOREM PartsStored == Spec => []RecordedPartsStored
<1>1. Init => TypeInv /\ RecInv
  BY InitTypeInv, InitRec
<1>2. TypeInv /\ RecInv /\ [Next]_vars => (TypeInv /\ RecInv)'
  BY NextTypeInv, NextRec
<1>3. TypeInv /\ RecInv => RecordedPartsStored
  <2> SUFFICES ASSUME TypeInv, RecInv PROVE RecordedPartsStored
    OBVIOUS
  <2>1. session.parts \in Seq(Part)
    BY DEF TypeInv, TypeOK, Session
  <2> QED
    BY <2>1, DistinctCount DEF RecInv, RecordedPartsStored, StoredIn, Numbers
<1> QED
  BY <1>1, <1>2, <1>3, PTL DEF Spec


-----------------------------------------------------------------------------
(* The upload implements OneFileUpload.                                    *)

LEMMA FateIs ==
  ASSUME TypeInv, ItemInv
  PROVE  /\ items = 1 => Fate = "listed"
         /\ items = 0 /\ object # <<>> => Fate = "stored"
         /\ items = 0 /\ object = <<>> =>
              Fate = IF upload.state = "aborted" THEN "discarded" ELSE "open"
         /\ items \in {0, 1}
BY DEF Fate, ItemInv, TypeInv, TypeOK

LEMMA InitRefines == Init => File!Init
<1> SUFFICES ASSUME Init PROVE File!Init
  OBVIOUS
<1>1. Numbers(object) = {}
  BY DEF Init, Numbers
<1>2. FileOf(object) = File!NoContent
  BY <1>1 DEF FileOf, File!NoContent
<1>3. Fate = "open"
  BY DEF Init, Fate
<1> QED
  BY <1>2, <1>3 DEF Init, File!Init

\* The object made of a list that S3 accepts is the data S3 holds for its parts.
LEMMA AcceptedFile ==
  ASSUME NEW parts \in Seq(Part), S3Accepts(parts), parts # <<>>
  PROVE  /\ FileOf(parts) = [n \in Numbers(parts) |-> upload.parts[n]]
         /\ Numbers(parts) \in SUBSET File!Arrived /\ Numbers(parts) # {}
<1>1. \A i \in DOMAIN parts : parts[i] \in Part
  OBVIOUS
<1>2. \A i \in DOMAIN parts : parts[i].n \in PartNumbers /\ upload.parts[parts[i].n] # NoPart
  BY <1>1, EtagAssumption DEF S3Accepts, Part
<1>3. \A n \in Numbers(parts) :
        parts[CHOOSE i \in DOMAIN parts : parts[i].n = n].etag = upload.parts[n]
  BY DEF Numbers, S3Accepts
<1>4. 1 \in DOMAIN parts
  OBVIOUS
<1> QED
  BY <1>2, <1>3, <1>4 DEF FileOf, Numbers, File!Arrived

\* A step that touches nothing the abstract upload knows of.
LEMMA Stutters ==
  ASSUME UNCHANGED <<upload, object, items>>
  PROVE  UNCHANGED File!vars
BY DEF File!vars, Fate, FileOf, Numbers

LEMMA S3AbortRefines ==
  ASSUME TypeInv, ItemInv, TypeInv', ItemInv', S3Abort, UNCHANGED <<object, items>>
  PROVE  [File!Next]_File!vars
<1>1. CASE UNCHANGED upload
  BY <1>1, Stutters
<1>2. CASE /\ upload.state = "open" /\ upload'.state \in {"open", "aborted"}
           /\ upload'.parts = upload.parts
  <2>1. items = 0 /\ object = <<>> /\ items' = 0 /\ object' = <<>>
    BY <1>2, FateIs DEF ItemInv
  <2>2. Fate = "open" /\ Fate' = IF upload'.state = "aborted" THEN "discarded" ELSE "open"
    BY <1>2, <2>1 DEF Fate
  <2>3. FileOf(object)' = FileOf(object)
    BY DEF FileOf, Numbers
  <2> QED
    BY <1>2, <2>2, <2>3 DEF File!Next, File!Discard, File!vars
<1> QED
  BY <1>1, <1>2 DEF S3Abort, TypeInv, TypeOK, Upload

LEMMA StepRefines ==
  ASSUME TypeInv, ItemInv, TypeInv', ItemInv', [Next]_vars
  PROVE  [File!Next]_File!vars
<1>1. CASE Expire \/ Crash \/ UNCHANGED vars
  BY <1>1, Stutters DEF Expire, Crash, vars
<1>2. ASSUME NEW r \in Requests, Start(r) PROVE [File!Next]_File!vars
  BY <1>2, Stutters DEF Start, StartInitiate, StartPart, StartClose
<1>3. ASSUME NEW r \in Requests, Advance(r) PROVE [File!Next]_File!vars
  <2>p. CASE CheckParent(r)
    BY <2>p, Stutters DEF CheckParent
  <2>1. CASE CreateUpload(r)
    <3>1. upload.state = "none" /\ object = <<>> /\ items = 0
      BY <2>1 DEF CreateUpload, ItemInv, At, Opening
    <3>2. upload'.state # "aborted" /\ upload'.parts = upload.parts /\ UNCHANGED <<object, items>>
      <4>1. upload \in Upload /\ UNCHANGED <<object, items>>
        BY <2>1 DEF CreateUpload, TypeInv, TypeOK
      <4>2. upload' \in {[upload EXCEPT !.state = "open", !.told = TRUE],
                        [upload EXCEPT !.state = "open"], upload}
        BY <2>1 DEF CreateUpload
      <4> QED
        BY <3>1, <4>1, <4>2 DEF Upload
    <3>3. Fate = "open" /\ Fate' = "open"
      BY <3>1, <3>2 DEF Fate
    <3>4. FileOf(object)' = FileOf(object)
      BY <3>2 DEF FileOf, Numbers
    <3> QED
      BY <3>2, <3>3, <3>4 DEF File!vars
  <2>2. CASE \/ InsertSession(r) \/ ReadSession(r) \/ GetDriver(r) \/ RecordPart(r)
             \/ SaveAccount(r) \/ DeleteSession(r)
    BY <2>2, Stutters DEF InsertSession, ReadSession, GetDriver, RecordPart, SaveAccount,
       DeleteSession
  <2>3. CASE CleanUp(r) \/ AbortUpload(r)
    BY <2>3, S3AbortRefines DEF CleanUp, AbortUpload
  <2>4. CASE SendPart(r)
    <3>1. CASE UNCHANGED upload
      BY <2>4, <3>1, Stutters DEF SendPart
    <3>2. ASSUME NEW e \in Etags, upload.state = "open",
                 upload' = [upload EXCEPT !.parts[req[r].n] = e]
          PROVE  [File!Next]_File!vars
      <4>1. req[r].n \in PartNumbers /\ UNCHANGED <<object, items>>
        BY <2>4 DEF SendPart, At, TypeInv, Phase
      <4>2. /\ upload'.parts = [upload.parts EXCEPT ![req[r].n] = e]
            /\ upload'.state = "open"
        BY <3>2 DEF TypeInv, TypeOK, Upload
      <4>3. items = 0 /\ object = <<>>
        BY <3>2, FateIs DEF ItemInv
      <4>4. Fate = "open" /\ Fate' = "open"
        BY <3>2, <4>1, <4>2, <4>3 DEF Fate
      <4>5. FileOf(object)' = FileOf(object)
        BY <4>1 DEF FileOf, Numbers
      <4> QED
        BY <4>1, <4>2, <4>4, <4>5 DEF File!Next, File!Receive
    <3> QED
      BY <2>4, <3>1, <3>2 DEF SendPart
  <2>5. CASE CompleteUpload(r)
    <3>1. CASE UNCHANGED <<upload, object>>
      BY <2>5, <3>1, Stutters DEF CompleteUpload
    <3>2. CASE /\ S3Accepts(req[r].parts)
               /\ upload' = [upload EXCEPT !.state = "completed"]
               /\ object' = req[r].parts
      <4> DEFINE chosen == Numbers(req[r].parts)
      <4>1. req[r].parts # <<>> /\ req[r].parts \in Seq(Part) /\ UNCHANGED items
        BY <2>5 DEF CompleteUpload, ItemInv, TypeInv, TypeOK, Request
      <4>2. /\ FileOf(req[r].parts) = [n \in chosen |-> upload.parts[n]]
            /\ chosen \in SUBSET File!Arrived /\ chosen # {}
        BY <3>2, <4>1, AcceptedFile
      <4>3. FileOf(object)' = FileOf(req[r].parts)
        BY <3>2 DEF FileOf, Numbers
      <4>4. upload.state = "open" /\ items = 0 /\ object = <<>> /\ object' # <<>>
        BY <3>2, <4>1, FateIs DEF S3Accepts, ItemInv
      <4>5. upload'.parts = upload.parts
        BY <3>2 DEF TypeInv, TypeOK, Upload
      <4>6. Fate = "open" /\ Fate' = "stored"
        BY <4>1, <4>4 DEF Fate
      <4> HIDE DEF chosen
      <4> QED
        BY <4>2, <4>3, <4>5, <4>6 DEF File!Next, File!Store
    <3> QED
      BY <2>5, <3>1, <3>2 DEF CompleteUpload
  <2>6. CASE CreateItem(r)
    <3>1. CASE UNCHANGED items
      BY <2>6, <3>1, Stutters DEF CreateItem
    <3>2. CASE items' = items + 1
      <4>1. items = 0 /\ object # <<>> /\ UNCHANGED <<upload, object>>
        BY <2>6 DEF CreateItem, ItemInv, Making, At
      <4>2. Fate = "stored" /\ Fate' = "listed"
        BY <3>2, <4>1 DEF Fate
      <4>3. FileOf(object)' = FileOf(object)
        BY <4>1 DEF FileOf, Numbers
      <4> QED
        BY <4>1, <4>2, <4>3 DEF File!Next, File!List
    <3> QED
      BY <2>6, <3>1, <3>2 DEF CreateItem
  <2> QED
    BY <1>3, <2>p, <2>1, <2>2, <2>3, <2>4, <2>5, <2>6 DEF Advance
<1> QED
  BY <1>1, <1>2, <1>3 DEF Next

\* Whatever races, fails or stops, an upload is one transfer with one end.
THEOREM OneFile == Spec => ImplementsOneFile
<1>1. Init => TypeInv /\ ItemInv
  BY InitTypeInv, InitItem
<1>2. TypeInv /\ ItemInv /\ [Next]_vars => (TypeInv /\ ItemInv)'
  BY NextTypeInv, NextItem
<1>3. TypeInv /\ ItemInv /\ TypeInv' /\ ItemInv' /\ [Next]_vars => [File!Next]_File!vars
  BY StepRefines
<1> QED
  BY <1>1, <1>2, <1>3, InitRefines, PTL DEF Spec, ImplementsOneFile, File!Spec


=============================================================================
