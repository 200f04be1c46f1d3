------------------------- MODULE UploadSerial_proofs -------------------------
(* Proofs about MultipartUpload: no upload is left open that nobody          *)
(* remembers, and what clients may rely on that send one request at a time.  *)
EXTENDS MultipartUpload_proofs

-----------------------------------------------------------------------------
(* The initiation comes first and alone.                                    *)

InitiateLabels == {"checkParent", "createUpload", "insertSession", "cleanUp"}

Initiating(r) == req[r].pc \in InitiateLabels

\* Someone holds the id of the S3 upload and will store it, or abort it.
Responsible(r) == req[r].pc \in {"insertSession", "cleanUp"}

EarlyInv ==
  /\ \A r \in Requests : Initiating(r) <=> req[r].op = "initiate"
  /\ \A p, q \in Requests : Initiating(p) /\ Initiating(q) => p = q
  /\ session.state = "none" => \A r \in Requests : At(r, "idle") \/ Initiating(r)
  /\ session.state # "none" => /\ upload.state # "none"
                               /\ \A r \in Requests : ~Initiating(r)
  /\ \A r \in Requests : Responsible(r) => upload.state # "none"
  /\ past = "overlapped" => session.state # "none"
  /\ upload.state = "none" => ~upload.told
  /\ \A r \in Requests : Opening(req[r]) => ~upload.told

LeakInv ==
  /\ past # "crashed" /\ session.state = "none"
  /\ upload.state = "open" /\ upload.told /\ ~upload.abortTried
  => \E r \in Requests : Responsible(r)

LEMMA InitEarly == Init => EarlyInv /\ LeakInv
BY DEF Init, EarlyInv, LeakInv, Idle, Initiating, InitiateLabels, Responsible, At, Opening

\* A step of request r on a session that is there, and stays there.
LEMMA LateStep ==
  ASSUME TypeInv, EarlyInv, session.state # "none", session'.state # "none",
         NEW r \in Requests, NEW q, Becomes(r, q), q.pc \notin InitiateLabels,
         q.op # "initiate", upload'.state # "none"
  PROVE  EarlyInv' /\ LeakInv'
<1>1. req' = [req EXCEPT ![r] = q] /\ req \in [Requests -> Request]
  BY DEF Becomes, TypeInv, TypeOK
<1>2. \A p \in Requests : ~Initiating(p)' /\ req'[p].op # "initiate"
  BY <1>1 DEF EarlyInv, Initiating
<1> QED
  BY <1>2 DEF EarlyInv, LeakInv, Responsible, Initiating, InitiateLabels, Opening

LEMMA StartEarly ==
  ASSUME TypeInv, EarlyInv, LeakInv, NEW r \in Requests, Start(r)
  PROVE  EarlyInv' /\ LeakInv'
<1>0. req \in [Requests -> Request]
  BY DEF TypeInv, TypeOK
<1>1. CASE StartInitiate(r)
  <2> DEFINE q == [Idle EXCEPT !.op = "initiate", !.pc = "checkParent"]
  <2>1. q.op = "initiate" /\ q.pc = "checkParent"
    BY DEF Idle
  <2>2. /\ req' = [req EXCEPT ![r] = q] /\ upload.state = "none"
        /\ UNCHANGED <<session, upload>>
        /\ \A p \in Requests : req[p].op # "initiate"
    BY <1>1 DEF StartInitiate, Becomes
  <2> HIDE DEF q
  <2>3. \A p \in Requests : ~Initiating(p)
    BY <2>2 DEF EarlyInv
  <2>4. session.state = "none"
    BY <2>2 DEF EarlyInv
  <2>5. Quiet /\ past' = past
    BY <1>1, <2>3, <2>4 DEF EarlyInv, Quiet, StartInitiate, NoteOverlap
  <2>6. \A p \in Requests : IF p = r THEN req'[p].op = "initiate" /\ req'[p].pc = "checkParent"
                                     ELSE req'[p] = req[p]
    BY <1>0, <2>1, <2>2
  <2> QED
    BY <2>2, <2>3, <2>4, <2>5, <2>6
    DEF EarlyInv, LeakInv, Initiating, InitiateLabels, Responsible, At, Quiet, Opening
<1>2. ASSUME NEW q, Becomes(r, q), q.pc = "readSession", q.op # "initiate",
             session.state # "none", UNCHANGED <<session, upload>>
      PROVE  EarlyInv' /\ LeakInv'
  <2>1. req' = [req EXCEPT ![r] = q]
    BY <1>2 DEF Becomes
  <2>2. \A p \in Requests : ~Initiating(p)' /\ req'[p].op # "initiate"
    BY <1>0, <1>2, <2>1 DEF EarlyInv, Initiating, InitiateLabels
  <2> QED
    BY <1>2, <2>2 DEF EarlyInv, LeakInv, Responsible, Initiating, InitiateLabels, Opening
<1>3. ASSUME NEW n \in PartNumbers, StartPart(r, n) PROVE EarlyInv' /\ LeakInv'
  <2> DEFINE q == [Idle EXCEPT !.op = "part", !.n = n, !.pc = "readSession"]
  <2>1. q.pc = "readSession" /\ q.op # "initiate"
    BY DEF Idle
  <2>2. Becomes(r, q) /\ session.state # "none" /\ UNCHANGED <<session, upload>>
    BY <1>3 DEF StartPart
  <2> HIDE DEF q
  <2> QED
    BY <1>2, <2>1, <2>2
<1>4. ASSUME NEW op \in {"complete", "abort"}, StartClose(r, op) PROVE EarlyInv' /\ LeakInv'
  <2> DEFINE q == [Idle EXCEPT !.op = op, !.pc = "readSession"]
  <2>1. q.pc = "readSession" /\ q.op # "initiate"
    BY <1>4 DEF Idle
  <2>2. Becomes(r, q) /\ session.state # "none" /\ UNCHANGED <<session, upload>>
    BY <1>4 DEF StartClose
  <2> HIDE DEF q
  <2> QED
    BY <1>2, <2>1, <2>2
<1> QED
  BY <1>1, <1>3, <1>4 DEF Start

\* Steps of an initiation, which is alone, and steps of requests on its session.
LEMMA AdvanceEarly ==
  ASSUME TypeInv, EarlyInv, LeakInv, NEW r \in Requests, Advance(r)
  PROVE  EarlyInv' /\ LeakInv'
<1>0. req \in [Requests -> Request] /\ req[r] \in Request /\ Idle.op = "none" /\ Idle.pc = "idle"
  BY DEF TypeInv, TypeOK, Idle
<1>1. ASSUME CheckParent(r) \/ CreateUpload(r) \/ InsertSession(r) \/ CleanUp(r)
      PROVE  EarlyInv' /\ LeakInv'
  <2>1. Initiating(r) /\ session.state = "none" /\ \A p \in Requests \ {r} : At(p, "idle")
    BY <1>1 DEF EarlyInv, CheckParent, CreateUpload, InsertSession, CleanUp, At, Initiating,
                InitiateLabels
  <2>2. req[r].op = "initiate" /\ \A p \in Requests \ {r} : req[p].op # "initiate"
    BY <2>1 DEF EarlyInv, At, Initiating, InitiateLabels
  <2>3. past # "overlapped" /\ past' = past
    BY <1>1, <2>1 DEF EarlyInv, CheckParent, CreateUpload, InsertSession, CleanUp
  <2>r. ASSUME Opening(req[r]) PROVE ~upload.told /\ \A p \in Requests : ~Responsible(p)
    BY <2>1, <2>r DEF EarlyInv, Opening, Responsible, At
  <2>p. CASE CheckParent(r)
    <3>0. Opening(req[r]) /\ UNCHANGED <<session, upload>>
      BY <2>p DEF CheckParent, At, Opening
    <3>1. CASE GoesTo(r, "createUpload")
      <4>1. \A p \in Requests : IF p = r
                                 THEN req'[p].pc = "createUpload" /\ req'[p].op = "initiate"
                                 ELSE req'[p] = req[p]
        BY <1>0, <2>2, <3>1 DEF GoesTo, Becomes, Request
      <4> QED
        BY <2>1, <2>2, <2>3, <2>r, <3>0, <4>1
        DEF EarlyInv, LeakInv, At, Initiating, InitiateLabels, Responsible, Opening
    <3>2. CASE Finish(r)
      <4>1. \A p \in Requests : At(p, "idle")' /\ req'[p].op # "initiate"
        BY <1>0, <2>1, <2>2, <3>2 DEF Finish, Becomes, At
      <4> QED
        BY <2>1, <2>3, <2>r, <3>0, <4>1
        DEF EarlyInv, LeakInv, At, Initiating, InitiateLabels, Responsible, Opening
    <3> QED
      BY <2>p, <3>1, <3>2 DEF CheckParent
  <2>4. CASE CreateUpload(r)
    <3>0. UNCHANGED session /\ ~upload.told /\ \A p \in Requests : ~Responsible(p)
      BY <2>4, <2>r DEF CreateUpload, At, Opening
    <3>1. CASE /\ upload' = [upload EXCEPT !.state = "open", !.told = TRUE]
               /\ GoesTo(r, "insertSession")
      <4>1. upload'.state # "none"
        BY <3>1 DEF TypeInv, TypeOK, Upload
      <4>2. \A p \in Requests : IF p = r
                                 THEN req'[p].pc = "insertSession" /\ req'[p].op = "initiate"
                                 ELSE req'[p] = req[p]
        BY <1>0, <2>2, <3>1 DEF GoesTo, Becomes, Request
      <4> QED
        BY <2>1, <2>2, <2>3, <3>0, <4>1, <4>2
        DEF EarlyInv, LeakInv, At, Initiating, InitiateLabels, Responsible, Opening
    <3>2. CASE /\ upload' = [upload EXCEPT !.state = "open"] \/ UNCHANGED upload
               /\ Finish(r)
      <4>1. \A p \in Requests : At(p, "idle")' /\ req'[p].op # "initiate"
        BY <1>0, <2>1, <2>2, <3>2 DEF Finish, Becomes, At
      <4>2. ~upload'.told
        BY <3>0, <3>2 DEF TypeInv, TypeOK, Upload
      <4> QED
        BY <2>1, <2>3, <3>0, <4>1, <4>2
        DEF EarlyInv, LeakInv, At, Initiating, InitiateLabels, Responsible, Opening
    <3> QED
      BY <2>4, <3>1, <3>2 DEF CreateUpload
  <2>5. CASE InsertSession(r)
    <3>0. upload.state # "none" /\ UNCHANGED upload
      BY <2>5 DEF EarlyInv, Responsible, InsertSession, At
    <3>1. CASE session' = [session EXCEPT !.state = "open"] /\ Finish(r)
      <4>1. \A p \in Requests : At(p, "idle")' /\ req'[p].op # "initiate"
        BY <1>0, <2>1, <2>2, <3>1 DEF Finish, Becomes, At
      <4>2. session'.state = "open"
        BY <3>1 DEF TypeInv, TypeOK, Session
      <4> QED
        BY <2>3, <3>0, <4>1, <4>2 DEF EarlyInv, LeakInv, At, Initiating, InitiateLabels, Responsible, Opening
    <3>2. CASE UNCHANGED session /\ GoesTo(r, "cleanUp")
      <4>1. \A p \in Requests : IF p = r THEN req'[p].pc = "cleanUp" /\ req'[p].op = "initiate"
                                         ELSE req'[p] = req[p]
        BY <1>0, <2>2, <3>2 DEF GoesTo, Becomes, Request
      <4> QED
        BY <2>1, <2>2, <2>3, <3>0, <3>2, <4>1
        DEF EarlyInv, LeakInv, At, Initiating, InitiateLabels, Responsible, Opening
    <3> QED
      BY <2>5, <3>1, <3>2 DEF InsertSession
  <2>6. CASE CleanUp(r)
    <3>1. \A p \in Requests : At(p, "idle")' /\ req'[p].op # "initiate"
      BY <1>0, <2>1, <2>2, <2>6 DEF CleanUp, Finish, Becomes, At
    <3>2. /\ upload'.state = "open" => upload'.abortTried
          /\ upload'.state # "none"
      <4>1. upload.state # "none"
        BY <2>6 DEF CleanUp, At, EarlyInv, Responsible
      <4> QED
        BY <2>6, <4>1 DEF CleanUp, S3Abort, TypeInv, TypeOK, Upload
    <3>3. UNCHANGED session
      BY <2>6 DEF CleanUp
    <3> QED
      BY <2>1, <2>3, <3>1, <3>2, <3>3
      DEF EarlyInv, LeakInv, At, Initiating, InitiateLabels, Responsible, Opening
  <2> QED
    BY <1>1, <2>p, <2>4, <2>5, <2>6
<1>2. ASSUME ~(CheckParent(r) \/ CreateUpload(r) \/ InsertSession(r) \/ CleanUp(r)) PROVE EarlyInv' /\ LeakInv'
  <2>1. ~At(r, "idle") /\ ~Initiating(r)
    BY <1>2 DEF Advance, At, Initiating, InitiateLabels, ReadSession, GetDriver, SendPart,
                RecordPart, CompleteUpload, CreateItem, SaveAccount, AbortUpload, DeleteSession
  <2>2. session.state # "none" /\ req[r].op # "initiate" /\ upload.state # "none"
    BY <2>1 DEF EarlyInv
  <2>g. ASSUME NEW l, l \notin InitiateLabels, GoesTo(r, l),
               session'.state # "none", upload'.state # "none"
        PROVE  EarlyInv' /\ LeakInv'
    <3>1. [req[r] EXCEPT !.pc = l].pc = l /\ [req[r] EXCEPT !.pc = l].op = req[r].op
      BY <1>0 DEF Request
    <3> QED
      BY <2>2, <2>g, <3>1, LateStep DEF GoesTo
  <2>f. ASSUME Finish(r), session'.state # "none", upload'.state # "none"
        PROVE  EarlyInv' /\ LeakInv'
    BY <1>0, <2>2, <2>f, LateStep DEF Finish, InitiateLabels
  <2>a. S3Abort => upload'.state # "none"
    BY <2>2 DEF S3Abort, TypeInv, TypeOK, Upload
  <2>3. CASE ReadSession(r)
    <3> DEFINE q == [req[r] EXCEPT !.parts = session.parts, !.pc = "getDriver"]
    <3>1. q.pc = "getDriver" /\ q.op = req[r].op
      BY <1>0 DEF Request
    <3>2. Becomes(r, q) \/ Finish(r)
      BY <2>3 DEF ReadSession
    <3>3. UNCHANGED <<session, upload>>
      BY <2>3 DEF ReadSession
    <3> HIDE DEF q
    <3> QED
      BY <2>2, <2>f, <3>1, <3>2, <3>3, LateStep DEF InitiateLabels
  <2>4. CASE GetDriver(r)
    <3> DEFINE q == [req[r] EXCEPT !.acct = used, !.pc = AfterDriver(r)]
    <3>1. q.pc \in {"sendPart", "completeUpload", "abortUpload"} /\ q.op = req[r].op
      BY <1>0 DEF Request, AfterDriver
    <3>2. Becomes(r, q) \/ Finish(r) \/ GoesTo(r, "deleteSession")
      BY <2>4 DEF GetDriver
    <3>3. UNCHANGED <<session, upload>>
      BY <2>4 DEF GetDriver
    <3> HIDE DEF q
    <3> QED
      BY <2>2, <2>f, <2>g, <3>1, <3>2, <3>3, LateStep DEF InitiateLabels
  <2>5. CASE SendPart(r)
    <3>1. upload'.state # "none" /\ UNCHANGED session
      BY <2>2, <2>5 DEF SendPart, TypeInv, TypeOK, Upload
    <3>2. ASSUME NEW e \in Etags, Becomes(r, [req[r] EXCEPT !.etag = e, !.pc = "recordPart"])
          PROVE  EarlyInv' /\ LeakInv'
      <4> DEFINE q == [req[r] EXCEPT !.etag = e, !.pc = "recordPart"]
      <4>1. q.pc = "recordPart" /\ q.op = req[r].op
        BY <1>0 DEF Request
      <4>2. Becomes(r, q)
        BY <3>2
      <4> HIDE DEF q
      <4> QED
        BY <2>2, <3>1, <4>1, <4>2, LateStep DEF InitiateLabels
    <3>3. Finish(r) \/ \E e \in Etags : Becomes(r, [req[r] EXCEPT !.etag = e, !.pc = "recordPart"])
      BY <2>5 DEF SendPart
    <3> QED
      BY <2>2, <2>f, <3>1, <3>2, <3>3
  <2>6. CASE RecordPart(r)
    BY <2>2, <2>6, <2>f DEF RecordPart
  <2>7. CASE CompleteUpload(r)
    <3>1. upload'.state # "none" /\ UNCHANGED session
      BY <2>2, <2>7 DEF CompleteUpload, TypeInv, TypeOK, Upload
    <3>2. Finish(r) \/ GoesTo(r, "createItem")
      BY <2>7 DEF CompleteUpload
    <3> QED
      BY <2>2, <2>f, <2>g, <3>1, <3>2 DEF InitiateLabels
  <2>8. CASE CreateItem(r) \/ SaveAccount(r)
    BY <2>2, <2>8, <2>f, <2>g DEF CreateItem, SaveAccount, InitiateLabels
  <2>9. CASE AbortUpload(r)
    BY <2>2, <2>9, <2>a, <2>g DEF AbortUpload, InitiateLabels
  <2>10. CASE DeleteSession(r)
    BY <2>2, <2>10, <2>f DEF DeleteSession
  <2> QED
    BY <1>2, <2>3, <2>4, <2>5, <2>6, <2>7, <2>8, <2>9, <2>10 DEF Advance
<1> QED
  BY <1>1, <1>2

LEMMA NextEarly ==
  ASSUME TypeInv, EarlyInv, LeakInv, [Next]_vars
  PROVE  EarlyInv' /\ LeakInv'
<1>1. CASE Expire
  BY <1>1 DEF Expire, EarlyInv, LeakInv, Initiating, Responsible, At, Opening
<1>2. CASE UNCHANGED vars
  BY <1>2 DEF vars, EarlyInv, LeakInv, Initiating, Responsible, At, Opening
<1>3. CASE Crash
  <2>1. /\ UNCHANGED <<session, upload>>
        /\ \A r \in Requests : req'[r].pc = "idle" /\ req'[r].op = "none"
    BY <1>3 DEF Crash, Idle
  <2>2. past' = past \/ past' = "crashed"
    BY <1>3 DEF Crash
  <2>3. past' # "crashed" /\ session.state = "none" => Quiet
    BY <1>3 DEF Crash, EarlyInv
  <2> QED
    BY <2>1, <2>2, <2>3
    DEF EarlyInv, LeakInv, Initiating, InitiateLabels, Responsible, At, Quiet, Opening
<1> QED
  BY <1>1, <1>2, <1>3, StartEarly, AdvanceEarly DEF Next

\* No S3 upload whose id the code was answered is left open without a session,
\* unless the server stopped between the two or asked S3 to abort it.
THEOREM NothingLeaked == Spec => []NoLeakedUpload
<1>1. Init => TypeInv /\ EarlyInv /\ LeakInv
  BY InitTypeInv, InitEarly
<1>2. TypeInv /\ EarlyInv /\ LeakInv /\ [Next]_vars => (TypeInv /\ EarlyInv /\ LeakInv)'
  BY NextTypeInv, NextEarly
<1>3. LeakInv => NoLeakedUpload
  BY DEF LeakInv, NoLeakedUpload, Quiet, Responsible, At
<1> QED
  BY <1>1, <1>2, <1>3, PTL DEF Spec

-----------------------------------------------------------------------------
(* One request at a time: what it read of the session is what the row says. *)

OpenedLabels == {"getDriver", "sendPart", "recordPart", "completeUpload", "createItem",
                 "saveAccount", "abortUpload", "deleteSession"}

Alone == \A p, q \in Requests : ~At(p, "idle") /\ ~At(q, "idle") => p = q

ReadsTrue ==
  /\ \A r \in Requests : req[r].pc \in OpenedLabels =>
       session.state = "open" /\ req[r].parts = session.parts
  /\ session.state = "open" => confirmed \subseteq Numbers(session.parts)
  /\ session.state = "none" => confirmed = {}

SerialInv == past # "overlapped" => Alone /\ ReadsTrue

AllInv == TypeInv /\ EarlyInv /\ LeakInv /\ SerialInv

LEMMA InitSerial == Init => SerialInv
BY DEF Init, SerialInv, Alone, ReadsTrue, OpenedLabels, Idle, At

LEMMA AddUploadedPartNumbers ==
  ASSUME NEW parts \in Seq(Part), NEW part \in Part
  PROVE  Numbers(AddUploadedPart(parts, part)) = Numbers(parts) \cup {part.n}
<1>1. CASE part.n \in Numbers(parts)
  <2> DEFINE s == [i \in DOMAIN parts |-> IF parts[i].n = part.n THEN part ELSE parts[i]]
  <2>1. DOMAIN s = DOMAIN parts /\ \A i \in DOMAIN parts : s[i].n = parts[i].n
    OBVIOUS
  <2>2. Numbers(s) = Numbers(parts)
    BY <2>1 DEF Numbers
  <2> QED
    BY <1>1, <2>2 DEF AddUploadedPart
<1>2. CASE part.n \notin Numbers(parts)
  <2> DEFINE s == Append(parts, part)
  <2>1. /\ Len(parts) \in Nat /\ DOMAIN parts = 1..Len(parts)
        /\ DOMAIN s = 1..(Len(parts) + 1)
        /\ \A i \in 1..Len(parts) : s[i] = parts[i]
        /\ s[Len(parts) + 1] = part
    OBVIOUS
  <2>2. \A i \in DOMAIN s : i \in DOMAIN parts \/ i = Len(parts) + 1
    BY <2>1
  <2>3. Len(parts) + 1 \in DOMAIN s /\ DOMAIN parts \subseteq DOMAIN s
    BY <2>1
  <2> HIDE DEF s
  <2>4. Numbers(s) = Numbers(parts) \cup {part.n}
    BY <2>1, <2>2, <2>3 DEF Numbers
  <2> QED
    BY <1>2, <2>4 DEF AddUploadedPart, s
<1> QED
  BY <1>1, <1>2

\* A step of the one request there is.
LEMMA SerialStep ==
  ASSUME TypeInv, NEW r \in Requests, NEW q, Becomes(r, q),
         \A p \in Requests \ {r} : At(p, "idle"),
         q.pc \in OpenedLabels => session'.state = "open" /\ q.parts = session'.parts,
         session'.state = "open" => confirmed' \subseteq Numbers(session'.parts),
         session'.state = "none" => confirmed' = {}
  PROVE  SerialInv'
<1>1. req' = [req EXCEPT ![r] = q] /\ req \in [Requests -> Request]
  BY DEF Becomes, TypeInv, TypeOK
<1>2. \A p \in Requests : IF p = r THEN req'[p] = q ELSE req'[p].pc = "idle"
  BY <1>1 DEF At
<1>3. Alone'
  BY <1>2 DEF Alone, At
<1>4. ReadsTrue'
  BY <1>2 DEF ReadsTrue, OpenedLabels
<1> QED
  BY <1>3, <1>4 DEF SerialInv

LEMMA StartSerial ==
  ASSUME TypeInv, EarlyInv, SerialInv, NEW r \in Requests, Start(r)
  PROVE  SerialInv'
<1> SUFFICES ASSUME past' # "overlapped" PROVE SerialInv'
  BY DEF SerialInv
<1>1. PICK q \in {[Idle EXCEPT !.op = "initiate", !.pc = "checkParent"]}
                 \cup {[Idle EXCEPT !.op = "part", !.n = n, !.pc = "readSession"] : n \in PartNumbers}
                 \cup {[Idle EXCEPT !.op = op, !.pc = "readSession"] : op \in {"complete", "abort"}} :
        Becomes(r, q)
  BY DEF Start, StartInitiate, StartPart, StartClose
<1>2. q.pc \in {"checkParent", "readSession"}
  BY <1>1 DEF Idle
<1>3. NoteOverlap /\ UNCHANGED <<session, confirmed>>
  BY DEF Start, StartInitiate, StartPart, StartClose
<1>4. Quiet /\ past # "overlapped"
  BY <1>3 DEF NoteOverlap
<1>5. ReadsTrue
  BY <1>4 DEF SerialInv
<1> QED
  BY <1>1, <1>2, <1>3, <1>4, <1>5, SerialStep DEF Quiet, ReadsTrue, OpenedLabels

LEMMA AdvanceSerial ==
  ASSUME TypeInv, EarlyInv, SerialInv, NEW r \in Requests, Advance(r)
  PROVE  SerialInv'
<1>0. req \in [Requests -> Request] /\ req[r] \in Request /\ Idle.pc = "idle" /\ Phase(req[r])
  BY DEF TypeInv, TypeOK, Idle
<1>p. (past' # "overlapped" => past # "overlapped") /\ ~At(r, "idle")
  BY DEF Advance, CheckParent, CreateUpload, InsertSession, CleanUp, ReadSession, GetDriver,
         SendPart, At, RecordPart, CompleteUpload, CreateItem, SaveAccount, AbortUpload,
         DeleteSession
<1> SUFFICES ASSUME past # "overlapped" PROVE SerialInv'
  BY <1>p DEF SerialInv
<1>1. \A p \in Requests \ {r} : At(p, "idle")
  BY <1>p DEF SerialInv, Alone
<1>2. ReadsTrue
  BY DEF SerialInv
<1>g. ASSUME NEW l, GoesTo(r, l), UNCHANGED <<session, confirmed>>,
             l \in OpenedLabels => req[r].pc \in OpenedLabels
      PROVE  SerialInv'
  <2> DEFINE q == [req[r] EXCEPT !.pc = l]
  <2>1. q.pc = l /\ q.parts = req[r].parts
    BY <1>0 DEF Request
  <2>2. Becomes(r, q)
    BY <1>g DEF GoesTo
  <2> HIDE DEF q
  <2> QED
    BY <1>1, <1>2, <1>g, <2>1, <2>2, SerialStep DEF ReadsTrue
<1>f. ASSUME Finish(r),
             session'.state = "open" => confirmed' \subseteq Numbers(session'.parts),
             session'.state = "none" => confirmed' = {}
      PROVE  SerialInv'
  BY <1>0, <1>1, <1>f, SerialStep DEF Finish, OpenedLabels
<1>u. ASSUME Finish(r), UNCHANGED <<session, confirmed>> PROVE SerialInv'
  BY <1>2, <1>f, <1>u DEF ReadsTrue
<1>3. CASE CheckParent(r) \/ CreateUpload(r)
  BY <1>3, <1>g, <1>u DEF CheckParent, CreateUpload, OpenedLabels
<1>4. CASE InsertSession(r)
  <2>1. confirmed = {}
    BY <1>2, <1>4 DEF InsertSession, EarlyInv, Initiating, InitiateLabels, At, ReadsTrue
  <2>2. UNCHANGED confirmed
    BY <1>4 DEF InsertSession
  <2>3. \/ Finish(r)
        \/ UNCHANGED session /\ GoesTo(r, "cleanUp")
    BY <1>4 DEF InsertSession
  <2> QED
    BY <1>f, <1>g, <2>1, <2>2, <2>3 DEF OpenedLabels
<1>5. CASE CleanUp(r)
  BY <1>5, <1>u DEF CleanUp
<1>6. CASE ReadSession(r)
  <2> DEFINE q == [req[r] EXCEPT !.parts = session.parts, !.pc = "getDriver"]
  <2>1. q.parts = session.parts
    BY <1>0 DEF Request
  <2>2. UNCHANGED <<session, confirmed>> /\ (Finish(r) \/ (session.state = "open" /\ Becomes(r, q)))
    BY <1>6 DEF ReadSession
  <2> HIDE DEF q
  <2> QED
    BY <1>1, <1>2, <1>u, <2>1, <2>2, SerialStep DEF ReadsTrue
<1>7. CASE GetDriver(r)
  <2> DEFINE q == [req[r] EXCEPT !.acct = used, !.pc = AfterDriver(r)]
  <2>1. q.parts = req[r].parts /\ req[r].pc = "getDriver" /\ UNCHANGED <<session, confirmed>>
    BY <1>0, <1>7 DEF Request, GetDriver, At
  <2>2. Becomes(r, q) \/ Finish(r) \/ GoesTo(r, "deleteSession")
    BY <1>7 DEF GetDriver
  <2>3. session.state = "open" /\ req[r].parts = session.parts
    BY <1>2, <2>1 DEF ReadsTrue, OpenedLabels
  <2> HIDE DEF q
  <2> QED
    BY <1>1, <1>2, <1>g, <1>u, <2>1, <2>2, <2>3, SerialStep DEF ReadsTrue, OpenedLabels
<1>8. CASE SendPart(r)
  <2>1. req[r].pc = "sendPart" /\ UNCHANGED <<session, confirmed>>
    BY <1>8 DEF SendPart, At
  <2>2. session.state = "open" /\ req[r].parts = session.parts
    BY <1>2, <2>1 DEF ReadsTrue, OpenedLabels
  <2>3. ASSUME NEW e \in Etags, Becomes(r, [req[r] EXCEPT !.etag = e, !.pc = "recordPart"])
        PROVE  SerialInv'
    <3> DEFINE q == [req[r] EXCEPT !.etag = e, !.pc = "recordPart"]
    <3>1. q.parts = req[r].parts
      BY <1>0 DEF Request
    <3>2. Becomes(r, q)
      BY <2>3
    <3> HIDE DEF q
    <3> QED
      BY <1>1, <1>2, <2>1, <2>2, <3>1, <3>2, SerialStep DEF ReadsTrue
  <2>4. Finish(r) \/ \E e \in Etags : Becomes(r, [req[r] EXCEPT !.etag = e, !.pc = "recordPart"])
    BY <1>8 DEF SendPart
  <2> QED
    BY <1>u, <2>1, <2>3, <2>4
<1>9. CASE RecordPart(r)
  <2> DEFINE part == [n |-> req[r].n, etag |-> req[r].etag]
  <2>1. req[r].pc = "recordPart" /\ part \in Part
    BY <1>0, <1>9 DEF RecordPart, At, Phase, Part
  <2>2. session.state = "open" /\ req[r].parts = session.parts /\ session.parts \in Seq(Part)
    BY <1>2, <2>1 DEF ReadsTrue, OpenedLabels, TypeInv, TypeOK, Session
  <2>3. /\ \/ /\ session' = [state |-> "open", parts |-> AddUploadedPart(session.parts, part)]
              /\ confirmed' = confirmed \cup {req[r].n}
           \/ UNCHANGED <<session, confirmed>>
        /\ Finish(r)
    BY <1>9, <2>2 DEF RecordPart, WithPart
  <2>4. Numbers(AddUploadedPart(session.parts, part)) = Numbers(session.parts) \cup {req[r].n}
    BY <2>1, <2>2, AddUploadedPartNumbers
  <2> QED
    BY <1>2, <1>f, <1>u, <2>2, <2>3, <2>4 DEF ReadsTrue
<1>10. CASE CompleteUpload(r)
  BY <1>10, <1>g, <1>u DEF CompleteUpload, OpenedLabels, At
<1>11. CASE CreateItem(r) \/ SaveAccount(r) \/ AbortUpload(r)
  BY <1>11, <1>g, <1>u DEF CreateItem, SaveAccount, AbortUpload, OpenedLabels, At
<1>12. CASE DeleteSession(r)
  BY <1>12, <1>f, <1>u DEF DeleteSession
<1> QED
  BY <1>3, <1>4, <1>5, <1>6, <1>7, <1>8, <1>9, <1>10, <1>11, <1>12 DEF Advance

LEMMA NextSerial ==
  ASSUME TypeInv, EarlyInv, SerialInv, [Next]_vars
  PROVE  SerialInv'
<1>1. CASE Expire
  BY <1>1 DEF Expire, SerialInv, Alone, ReadsTrue, At
<1>2. CASE UNCHANGED vars
  BY <1>2 DEF vars, SerialInv, Alone, ReadsTrue, At
<1>3. CASE Crash
  <2>1. UNCHANGED <<session, confirmed>> /\ \A r \in Requests : req'[r].pc = "idle"
    BY <1>3 DEF Crash, Idle
  <2>2. past' # "overlapped" => past # "overlapped"
    BY <1>3 DEF Crash
  <2> QED
    BY <2>1, <2>2 DEF SerialInv, Alone, ReadsTrue, OpenedLabels, At
<1> QED
  BY <1>1, <1>2, <1>3, StartSerial, AdvanceSerial DEF Next

LEMMA AllHolds == Spec => []AllInv
<1>1. Init => AllInv
  BY InitTypeInv, InitEarly, InitSerial DEF AllInv
<1>2. AllInv /\ [Next]_vars => AllInv'
  BY NextTypeInv, NextEarly, NextSerial DEF AllInv
<1> QED
  BY <1>1, <1>2, PTL DEF Spec

\* With one request in flight at a time, a part that was answered for is
\* recorded until the session ends, wherever the server stops.
THEOREM PartsStayRecorded == Spec => []ConfirmedRecorded
<1>1. AllInv => ConfirmedRecorded
  BY DEF AllInv, SerialInv, ReadsTrue, ConfirmedRecorded
<1> QED
  BY <1>1, AllHolds, PTL

\* The object is assembled from what the one request read, which is all.
LEMMA StepCompletes ==
  ASSUME AllInv, [Next]_vars, past' # "overlapped"
  PROVE  HoldsAllParts
<1>1. ASSUME NEW r \in Requests, CompleteUpload(r) PROVE HoldsAllParts
  <2>1. past # "overlapped" /\ req[r].pc = "completeUpload"
    BY <1>1 DEF CompleteUpload, At
  <2>2. confirmed \subseteq Numbers(req[r].parts)
    BY <2>1 DEF AllInv, SerialInv, ReadsTrue, OpenedLabels
  <2>3. object' = req[r].parts \/ object' = object
    BY <1>1 DEF CompleteUpload
  <2> QED
    BY <2>2, <2>3 DEF HoldsAllParts, Numbers
<1>2. (\E r \in Requests : CompleteUpload(r)) \/ UNCHANGED object
  BY DEF Next, vars, Expire, Crash, Start, StartInitiate, StartPart, StartClose, Advance,
         CheckParent, CreateUpload, InsertSession, CleanUp, ReadSession, GetDriver, SendPart, RecordPart,
         CreateItem, SaveAccount, AbortUpload, DeleteSession
<1> QED
  BY <1>1, <1>2 DEF HoldsAllParts

\* With one request in flight at a time the finished object holds every part
\* that was answered for.
THEOREM AllPartsCompleted == Spec => CompletesAllPartsSerially
<1>1. AllInv /\ [Next]_vars => [past' # "overlapped" => HoldsAllParts]_vars
  BY StepCompletes
<1> QED
  BY <1>1, AllHolds, PTL DEF Spec, CompletesAllPartsSerially

LEMMA StepKeepsGone ==
  ASSUME AllInv, [Next]_vars, past' # "overlapped", session.state = "gone"
  PROVE  session'.state = "gone"
<1>1. ASSUME NEW r \in Requests, InsertSession(r) PROVE FALSE
  BY <1>1 DEF AllInv, EarlyInv, InsertSession, At, Initiating, InitiateLabels
<1>2. ASSUME NEW r \in Requests, RecordPart(r) PROVE FALSE
  BY <1>2 DEF AllInv, SerialInv, ReadsTrue, OpenedLabels, RecordPart, At
<1>3. ASSUME NEW r \in Requests, DeleteSession(r) PROVE session'.state = "gone"
  BY <1>3 DEF DeleteSession
<1>4. \/ UNCHANGED session
      \/ \E r \in Requests : InsertSession(r) \/ RecordPart(r) \/ DeleteSession(r)
  BY DEF Next, vars, Expire, Crash, Start, StartInitiate, StartPart, StartClose, Advance,
         CheckParent, CreateUpload, CleanUp, ReadSession, GetDriver, SendPart, CompleteUpload,
         CreateItem, SaveAccount, AbortUpload
<1> QED
  BY <1>1, <1>2, <1>3, <1>4

\* With one request in flight at a time a session that ended stays ended.
THEOREM EndedStaysEnded == Spec => SessionStaysGone
<1>1. AllInv /\ [Next]_vars =>
        [past' # "overlapped" /\ session.state = "gone" => session'.state = "gone"]_vars
  BY StepKeepsGone
<1> QED
  BY <1>1, AllHolds, PTL DEF Spec, SessionStaysGone

-----------------------------------------------------------------------------
(* The bytes of the file are counted once.                                  *)

ClosingLabels == {"completeUpload", "createItem", "saveAccount"}

CountInv ==
  past = "serial" =>
    /\ \A r \in Requests : req[r].pc \in ClosingLabels => req[r].acct = used
    /\ \A r \in Requests : At(r, "saveAccount") => items = used + 1
    /\ (\A r \in Requests : ~At(r, "saveAccount")) => items = used

LEMMA InitCount == Init => CountInv
BY DEF Init, CountInv, ClosingLabels, Idle, At

\* A step of the one request there is, to record q.
LEMMA CountStep ==
  ASSUME TypeInv, NEW r \in Requests, NEW q, Becomes(r, q),
         \A p \in Requests \ {r} : At(p, "idle"),
         q.pc \in ClosingLabels => q.acct = used',
         items' = IF q.pc = "saveAccount" THEN used' + 1 ELSE used'
  PROVE  CountInv'
<1>1. req' = [req EXCEPT ![r] = q] /\ req \in [Requests -> Request]
  BY DEF Becomes, TypeInv, TypeOK
<1>2. \A p \in Requests : IF p = r THEN req'[p] = q ELSE req'[p].pc = "idle"
  BY <1>1 DEF At
<1> QED
  BY <1>2 DEF CountInv, ClosingLabels, At

LEMMA StartCount ==
  ASSUME TypeInv, CountInv, NEW r \in Requests, Start(r)
  PROVE  CountInv'
<1> SUFFICES ASSUME past' = "serial" PROVE CountInv'
  BY DEF CountInv
<1>1. PICK q \in {[Idle EXCEPT !.op = "initiate", !.pc = "checkParent"]}
                 \cup {[Idle EXCEPT !.op = "part", !.n = n, !.pc = "readSession"] : n \in PartNumbers}
                 \cup {[Idle EXCEPT !.op = op, !.pc = "readSession"] : op \in {"complete", "abort"}} :
        Becomes(r, q)
  BY DEF Start, StartInitiate, StartPart, StartClose
<1>2. q.pc \in {"checkParent", "readSession"}
  BY <1>1 DEF Idle
<1>3. NoteOverlap /\ UNCHANGED <<items, used>>
  BY DEF Start, StartInitiate, StartPart, StartClose
<1>4. Quiet /\ past = "serial"
  BY <1>3 DEF NoteOverlap
<1>5. items = used
  BY <1>4 DEF CountInv, Quiet, At
<1> QED
  BY <1>1, <1>2, <1>3, <1>4, <1>5, CountStep DEF Quiet, ClosingLabels

LEMMA AdvanceCount ==
  ASSUME TypeInv, SerialInv, CountInv, NEW r \in Requests, Advance(r)
  PROVE  CountInv'
<1>0. /\ req \in [Requests -> Request] /\ req[r] \in Request /\ Idle.pc = "idle"
      /\ used \in Nat /\ items \in Nat
  BY DEF TypeInv, TypeOK, Idle
<1>p. (past' = "serial" => past = "serial") /\ ~At(r, "idle")
  BY DEF Advance, CheckParent, CreateUpload, InsertSession, CleanUp, ReadSession, GetDriver,
         SendPart, At, RecordPart, CompleteUpload, CreateItem, SaveAccount, AbortUpload,
         DeleteSession
<1> SUFFICES ASSUME past = "serial", past' = "serial" PROVE CountInv'
  BY <1>p DEF CountInv
<1>1. \A p \in Requests \ {r} : At(p, "idle")
  BY <1>p DEF SerialInv, Alone
<1>2. /\ req[r].pc \in ClosingLabels => req[r].acct = used
      /\ items = IF At(r, "saveAccount") THEN used + 1 ELSE used
  BY <1>1 DEF CountInv, At
<1>s. ASSUME NEW q, Becomes(r, q), UNCHANGED <<items, used>>, ~At(r, "saveAccount"),
             q.pc \notin ClosingLabels
      PROVE  CountInv'
  BY <1>1, <1>2, <1>s, CountStep DEF ClosingLabels
<1>g. ASSUME NEW l, GoesTo(r, l), UNCHANGED <<items, used>>, ~At(r, "saveAccount"),
             l \notin ClosingLabels
      PROVE  CountInv'
  <2>1. [req[r] EXCEPT !.pc = l].pc = l
    BY <1>0 DEF Request
  <2> QED
    BY <1>g, <1>s, <2>1 DEF GoesTo
<1>f. ASSUME Finish(r), UNCHANGED <<items, used>>, ~At(r, "saveAccount") PROVE CountInv'
  BY <1>0, <1>f, <1>s DEF Finish, ClosingLabels
<1>3. CASE CheckParent(r) \/ CreateUpload(r) \/ InsertSession(r) \/ CleanUp(r)
  BY <1>3, <1>g, <1>f DEF CheckParent, CreateUpload, InsertSession, CleanUp, At, ClosingLabels
<1>4. CASE ReadSession(r)
  <2> DEFINE q == [req[r] EXCEPT !.parts = session.parts, !.pc = "getDriver"]
  <2>1. q.pc = "getDriver"
    BY <1>0 DEF Request
  <2>2. UNCHANGED <<items, used>> /\ (Finish(r) \/ Becomes(r, q)) /\ ~At(r, "saveAccount")
    BY <1>4 DEF ReadSession, At
  <2> HIDE DEF q
  <2> QED
    BY <1>f, <1>s, <2>1, <2>2 DEF ClosingLabels
<1>5. CASE GetDriver(r)
  <2> DEFINE q == [req[r] EXCEPT !.acct = used, !.pc = AfterDriver(r)]
  <2>1. q.acct = used /\ q.pc \in {"sendPart", "completeUpload", "abortUpload"}
    BY <1>0 DEF Request, AfterDriver
  <2>2. UNCHANGED <<items, used>> /\ ~At(r, "saveAccount")
    BY <1>5 DEF GetDriver, At
  <2>3. Becomes(r, q) \/ Finish(r) \/ GoesTo(r, "deleteSession")
    BY <1>5 DEF GetDriver
  <2> HIDE DEF q
  <2> QED
    BY <1>1, <1>2, <1>f, <1>g, <2>1, <2>2, <2>3, CountStep DEF ClosingLabels
<1>6. CASE SendPart(r)
  <2>1. UNCHANGED <<items, used>> /\ ~At(r, "saveAccount")
    BY <1>6 DEF SendPart, At
  <2>2. ASSUME NEW e \in Etags, Becomes(r, [req[r] EXCEPT !.etag = e, !.pc = "recordPart"])
        PROVE  CountInv'
    <3> DEFINE q == [req[r] EXCEPT !.etag = e, !.pc = "recordPart"]
    <3>1. q.pc = "recordPart"
      BY <1>0 DEF Request
    <3>2. Becomes(r, q)
      BY <2>2
    <3> HIDE DEF q
    <3> QED
      BY <1>s, <2>1, <3>1, <3>2 DEF ClosingLabels
  <2>3. Finish(r) \/ \E e \in Etags : Becomes(r, [req[r] EXCEPT !.etag = e, !.pc = "recordPart"])
    BY <1>6 DEF SendPart
  <2> QED
    BY <1>f, <2>1, <2>2, <2>3
<1>7. CASE RecordPart(r) \/ AbortUpload(r) \/ DeleteSession(r)
  BY <1>7, <1>f, <1>g DEF RecordPart, AbortUpload, DeleteSession, At, ClosingLabels
<1>8. CASE CompleteUpload(r)
  <2>1. /\ req[r].pc = "completeUpload" /\ UNCHANGED <<items, used>> /\ ~At(r, "saveAccount")
        /\ Finish(r) \/ GoesTo(r, "createItem")
    BY <1>8 DEF CompleteUpload, At
  <2>2. [req[r] EXCEPT !.pc = "createItem"].pc = "createItem"
        /\ [req[r] EXCEPT !.pc = "createItem"].acct = req[r].acct
    BY <1>0 DEF Request
  <2>3. req[r].acct = used /\ items = used
    BY <1>2, <2>1 DEF ClosingLabels
  <2> QED
    BY <1>1, <1>f, <2>1, <2>2, <2>3, CountStep DEF GoesTo
<1>9. CASE CreateItem(r)
  <2>1. /\ req[r].pc = "createItem" /\ UNCHANGED used /\ ~At(r, "saveAccount")
        /\ \/ items' = items + 1 /\ GoesTo(r, "saveAccount")
           \/ UNCHANGED items /\ Finish(r)
    BY <1>9 DEF CreateItem, At
  <2>2. [req[r] EXCEPT !.pc = "saveAccount"].pc = "saveAccount"
        /\ [req[r] EXCEPT !.pc = "saveAccount"].acct = req[r].acct
    BY <1>0 DEF Request
  <2>3. req[r].acct = used /\ items = used
    BY <1>2, <2>1 DEF ClosingLabels
  <2> QED
    BY <1>1, <1>f, <2>1, <2>2, <2>3, CountStep DEF GoesTo
<1>10. CASE SaveAccount(r)
  <2>1. At(r, "saveAccount") /\ used' = req[r].acct + 1 /\ UNCHANGED items
        /\ GoesTo(r, "deleteSession")
    BY <1>10 DEF SaveAccount
  <2>2. [req[r] EXCEPT !.pc = "deleteSession"].pc = "deleteSession"
    BY <1>0 DEF Request
  <2>3. items' = used'
    BY <1>2, <2>1 DEF ClosingLabels, At
  <2> QED
    BY <1>1, <2>1, <2>2, <2>3, CountStep DEF GoesTo, ClosingLabels
<1> QED
  BY <1>3, <1>4, <1>5, <1>6, <1>7, <1>8, <1>9, <1>10 DEF Advance

LEMMA NextCount ==
  ASSUME TypeInv, SerialInv, CountInv, [Next]_vars
  PROVE  CountInv'
<1>1. CASE Expire
  BY <1>1 DEF Expire, CountInv, At
<1>2. CASE UNCHANGED vars
  BY <1>2 DEF vars, CountInv, At
<1>3. CASE Crash
  <2>1. UNCHANGED <<items, used>> /\ \A r \in Requests : req'[r].pc = "idle"
    BY <1>3 DEF Crash, Idle
  <2>2. past' = "serial" => past = "serial" /\ Quiet
    BY <1>3 DEF Crash
  <2> QED
    BY <2>1, <2>2 DEF CountInv, ClosingLabels, Quiet, At
<1> QED
  BY <1>1, <1>2, <1>3, StartCount, AdvanceCount DEF Next

(* Whatever overlaps, fails or crashes, nothing is counted twice.            *)

\* What a request will write is no more than there are items by then.
LessInv ==
  /\ used <= items
  /\ \A r \in Requests : req[r].pc \in {"completeUpload", "createItem"} => req[r].acct <= items
  /\ \A r \in Requests : At(r, "saveAccount") => req[r].acct + 1 <= items

LEMMA LessStep ==
  ASSUME TypeInv, LessInv, NEW r \in Requests, NEW q, Becomes(r, q),
         items' \in Nat, items' >= items, used' <= items',
         q.pc \in {"completeUpload", "createItem"} => q.acct <= items',
         q.pc = "saveAccount" => q.acct + 1 <= items'
  PROVE  LessInv'
<1>1. \A p \in Requests : req'[p] = IF p = r THEN q ELSE req[p]
  BY DEF Becomes, TypeInv, TypeOK
<1>2. items \in Nat /\ \A p \in Requests : req[p].acct \in Nat
  BY DEF TypeInv, TypeOK, Request
<1> QED
  BY <1>1, <1>2 DEF LessInv, At

\* A step of a request that neither reads nor writes what is counted.
LEMMA LessKept ==
  ASSUME TypeInv, LessInv, NEW r \in Requests, NEW q, Becomes(r, q), UNCHANGED <<items, used>>,
         q.pc \notin {"createItem", "saveAccount"},
         q.pc = "completeUpload" => q.acct <= items
  PROVE  LessInv'
<1>1. items \in Nat
  BY DEF TypeInv, TypeOK
<1> QED
  BY <1>1, LessStep DEF LessInv

LEMMA StartLess ==
  ASSUME TypeInv, LessInv, NEW r \in Requests, Start(r)
  PROVE  LessInv'
<1>1. PICK q \in {[Idle EXCEPT !.op = "initiate", !.pc = "checkParent"]}
                 \cup {[Idle EXCEPT !.op = "part", !.n = n, !.pc = "readSession"] : n \in PartNumbers}
                 \cup {[Idle EXCEPT !.op = op, !.pc = "readSession"] : op \in {"complete", "abort"}} :
        Becomes(r, q)
  BY DEF Start, StartInitiate, StartPart, StartClose
<1>2. q.pc \in {"checkParent", "readSession"}
  BY <1>1 DEF Idle
<1>3. UNCHANGED <<items, used>>
  BY DEF Start, StartInitiate, StartPart, StartClose
<1> QED
  BY <1>1, <1>2, <1>3, LessKept

LEMMA AdvanceLess ==
  ASSUME TypeInv, LessInv, NEW r \in Requests, Advance(r)
  PROVE  LessInv'
<1>0. /\ req[r] \in Request /\ Idle.pc = "idle" /\ used \in Nat /\ items \in Nat
      /\ req[r].acct \in Nat
  BY DEF TypeInv, TypeOK, Idle, Request
<1>g. ASSUME NEW l, GoesTo(r, l), UNCHANGED <<items, used>>,
             l \notin {"completeUpload", "createItem", "saveAccount"}
      PROVE  LessInv'
  <2>1. [req[r] EXCEPT !.pc = l].pc = l
    BY <1>0 DEF Request
  <2> QED
    BY <1>g, <2>1, LessKept DEF GoesTo
<1>f. ASSUME Finish(r), UNCHANGED <<items, used>> PROVE LessInv'
  BY <1>0, <1>f, LessKept DEF Finish
<1>3. CASE CheckParent(r) \/ CreateUpload(r) \/ InsertSession(r) \/ CleanUp(r)
  BY <1>3, <1>g, <1>f DEF CheckParent, CreateUpload, InsertSession, CleanUp
<1>4. CASE ReadSession(r)
  <2> DEFINE q == [req[r] EXCEPT !.parts = session.parts, !.pc = "getDriver"]
  <2>1. q.pc = "getDriver"
    BY <1>0 DEF Request
  <2>2. UNCHANGED <<items, used>> /\ (Finish(r) \/ Becomes(r, q))
    BY <1>4 DEF ReadSession
  <2> HIDE DEF q
  <2> QED
    BY <1>f, <2>1, <2>2, LessKept
<1>5. CASE GetDriver(r)
  <2> DEFINE q == [req[r] EXCEPT !.acct = used, !.pc = AfterDriver(r)]
  <2>1. q.acct = used /\ q.pc \in {"sendPart", "completeUpload", "abortUpload"}
    BY <1>0 DEF Request, AfterDriver
  <2>2. UNCHANGED <<items, used>> /\ (Becomes(r, q) \/ Finish(r) \/ GoesTo(r, "deleteSession"))
    BY <1>5 DEF GetDriver
  <2> HIDE DEF q
  <2>3. used <= items
    BY DEF LessInv
  <2> QED
    BY <1>f, <1>g, <2>1, <2>2, <2>3, LessKept
<1>6. CASE SendPart(r)
  <2>1. UNCHANGED <<items, used>>
    BY <1>6 DEF SendPart
  <2>2. ASSUME NEW e \in Etags, Becomes(r, [req[r] EXCEPT !.etag = e, !.pc = "recordPart"])
        PROVE  LessInv'
    <3> DEFINE q == [req[r] EXCEPT !.etag = e, !.pc = "recordPart"]
    <3>1. q.pc = "recordPart"
      BY <1>0 DEF Request
    <3>2. Becomes(r, q)
      BY <2>2
    <3> HIDE DEF q
    <3> QED
      BY <2>1, <3>1, <3>2, LessKept
  <2>3. Finish(r) \/ \E e \in Etags : Becomes(r, [req[r] EXCEPT !.etag = e, !.pc = "recordPart"])
    BY <1>6 DEF SendPart
  <2> QED
    BY <1>f, <2>1, <2>2, <2>3
<1>7. CASE RecordPart(r) \/ AbortUpload(r) \/ DeleteSession(r)
  BY <1>7, <1>f, <1>g DEF RecordPart, AbortUpload, DeleteSession
<1>8. CASE CompleteUpload(r)
  <2> DEFINE q == [req[r] EXCEPT !.pc = "createItem"]
  <2>1. req[r].pc = "completeUpload" /\ UNCHANGED <<items, used>> /\ (Finish(r) \/ Becomes(r, q))
    BY <1>8 DEF CompleteUpload, At, GoesTo
  <2>2. q.pc = "createItem" /\ q.acct = req[r].acct
    BY <1>0 DEF Request
  <2> HIDE DEF q
  <2>3. req[r].acct <= items /\ used <= items
    BY <2>1 DEF LessInv
  <2> QED
    BY <1>0, <1>f, <2>1, <2>2, <2>3, LessStep
<1>9. CASE CreateItem(r)
  <2> DEFINE q == [req[r] EXCEPT !.pc = "saveAccount"]
  <2>1. /\ req[r].pc = "createItem" /\ UNCHANGED used
        /\ \/ items' = items + 1 /\ Becomes(r, q)
           \/ UNCHANGED items /\ Finish(r)
    BY <1>9 DEF CreateItem, At, GoesTo
  <2>2. q.pc = "saveAccount" /\ q.acct = req[r].acct
    BY <1>0 DEF Request
  <2> HIDE DEF q
  <2>3. req[r].acct <= items /\ used <= items
    BY <2>1 DEF LessInv
  <2>4. CASE items' = items + 1 /\ Becomes(r, q)
    <3>1. items' \in Nat /\ items' >= items /\ used' <= items' /\ req[r].acct + 1 <= items'
      BY <1>0, <2>1, <2>3, <2>4
    <3> QED
      BY <2>2, <2>4, <3>1, LessStep
  <2> QED
    BY <1>f, <2>1, <2>4
<1>10. CASE SaveAccount(r)
  <2> DEFINE q == [req[r] EXCEPT !.pc = "deleteSession"]
  <2>1. /\ At(r, "saveAccount") /\ UNCHANGED items /\ Becomes(r, q)
        /\ used' = req[r].acct + 1 \/ UNCHANGED used
    BY <1>10 DEF SaveAccount, GoesTo
  <2>2. q.pc = "deleteSession"
    BY <1>0 DEF Request
  <2> HIDE DEF q
  <2>3. used' <= items' /\ items' \in Nat /\ items' >= items
    BY <1>0, <2>1 DEF LessInv
  <2> QED
    BY <2>1, <2>2, <2>3, LessStep
<1> QED
  BY <1>3, <1>4, <1>5, <1>6, <1>7, <1>8, <1>9, <1>10 DEF Advance

LEMMA NextLess ==
  ASSUME TypeInv, LessInv, [Next]_vars
  PROVE  LessInv'
<1>1. CASE Expire \/ UNCHANGED vars
  BY <1>1 DEF Expire, vars, LessInv, At
<1>2. CASE Crash
  BY <1>2 DEF Crash, LessInv, Idle, At
<1> QED
  BY <1>1, <1>2, StartLess, AdvanceLess DEF Next

\* The file is never counted twice, and is counted where requests come one at a
\* time, none is cut short and the Save of the account succeeds.
THEOREM BytesCountedOnce == Spec => []UsedCountsItem
<1>1. Init => AllInv /\ CountInv /\ LessInv
  <2>1. Init => LessInv
    BY DEF Init, LessInv, Idle, At
  <2> QED
    BY <2>1, InitTypeInv, InitEarly, InitSerial, InitCount DEF AllInv
<1>2. AllInv /\ CountInv /\ LessInv /\ [Next]_vars => (AllInv /\ CountInv /\ LessInv)'
  BY NextTypeInv, NextEarly, NextSerial, NextCount, NextLess DEF AllInv
<1>3. CountInv /\ LessInv => UsedCountsItem
  BY DEF CountInv, LessInv, UsedCountsItem, Quiet, At
<1> QED
  BY <1>1, <1>2, <1>3, PTL DEF Spec

=============================================================================
