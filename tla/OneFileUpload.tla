---------------------------- MODULE OneFileUpload ----------------------------
(***************************************************************************)
(* What a multipart upload promises, without sessions, requests or S3       *)
(* calls: parts are received while it is open; it ends once, discarded or   *)
(* stored as an object of parts that were received; a stored object never   *)
(* changes and is listed as a file at most once.                            *)
(***************************************************************************)
CONSTANTS PartNumbers, Etags, NoPart

VARIABLES
  received,   \* the latest data of each part, NoPart where there is none
  content,    \* the object: data by part number, none while it is not stored
  fate

vars == <<received, content, fate>>

NoContent == [n \in {} |-> NoPart]

Init ==
  /\ received = [n \in PartNumbers |-> NoPart]
  /\ content = NoContent
  /\ fate = "open"

Receive(n, e) ==
  /\ fate = "open"
  /\ received' = [received EXCEPT ![n] = e]
  /\ UNCHANGED <<content, fate>>

Arrived == {n \in PartNumbers : received[n] # NoPart}

Store(chosen) ==
  /\ fate = "open" /\ chosen # {}
  /\ content' = [n \in chosen |-> received[n]]
  /\ fate' = "stored"
  /\ UNCHANGED received

Discard ==
  /\ fate = "open"
  /\ fate' = "discarded"
  /\ UNCHANGED <<received, content>>

List ==
  /\ fate = "stored"
  /\ fate' = "listed"
  /\ UNCHANGED <<received, content>>

Next ==
  \/ \E n \in PartNumbers, e \in Etags : Receive(n, e)
  \/ \E chosen \in SUBSET Arrived : Store(chosen)
  \/ Discard
  \/ List

Spec == Init /\ [][Next]_vars

=============================================================================
