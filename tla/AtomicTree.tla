----------------------------- MODULE AtomicTree -----------------------------
(***************************************************************************)
(* What the drive promises a client whose requests do not overlap, without  *)
(* requests, snapshots, walks or S3: every operation happens at once and as *)
(* a whole.  A folder is created and an item is moved under a live folder   *)
(* of its account, never below itself; a permanent delete takes exactly     *)
(* the item and what lies below it.                                         *)
(***************************************************************************)
CONSTANTS Folders, Files, AccountOf, Root

VARIABLE rows

Items == Folders \cup Files

Live(i) == rows[i].state = "live"

Top(state) == [state |-> state, parent |-> Root, starred |-> FALSE]

Init == rows = [i \in Items |-> Top(IF i \in Files THEN "live" ELSE "unused")]

MayHold(p, i) ==
  p = Root \/ /\ p \in Folders /\ Live(p)
              /\ AccountOf[p] = AccountOf[i]

\* With an item, S holds the live items that hang under it.
Downward(S) == \A x \in Items : Live(x) /\ rows[x].parent \in S => x \in S

Subtree(i) == {x \in Items : \A S \in SUBSET Items : i \in S /\ Downward(S) => x \in S}

Create(i, p) ==
  /\ rows[i].state = "unused" /\ MayHold(p, i)
  /\ rows' = [rows EXCEPT ![i] = [Top("live") EXCEPT !.parent = p]]

Move(i, p) ==
  /\ Live(i) /\ MayHold(p, i)
  /\ rows' = [rows EXCEPT ![i].parent = p]
  /\ p \notin Subtree(i)

Star(i) == Live(i) /\ rows' = [rows EXCEPT ![i].starred = ~@]

Trash(i) == Live(i) /\ rows' = [rows EXCEPT ![i].state = "trashed"]

Remove(i) ==
  /\ Live(i)
  /\ rows' = [x \in Items |-> IF x \in Subtree(i) THEN Top("purged") ELSE rows[x]]

Next ==
  \/ \E i \in Folders, p \in Folders \cup {Root} : Create(i, p)
  \/ \E i \in Items, p \in Folders \cup {Root} : Move(i, p)
  \/ \E i \in Items : Star(i) \/ Trash(i) \/ Remove(i)

Spec == Init /\ [][Next]_rows

=============================================================================
