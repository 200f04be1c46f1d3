---------------------------- MODULE DriveListing ----------------------------
(***************************************************************************)
(* Listing a folder page by page: GET /drive/items with a keyset cursor.    *)
(*                                                                         *)
(* A client walks the pages of one folder while other requests create,     *)
(* rename, move and delete items in it.  The server keeps nothing between   *)
(* two pages: the cursor that the client sends back is all it knows.        *)
(*                                                                         *)
(* Abstractions.  An id determines the kind of its row.  A sort value is a  *)
(* number that keeps the order of the column; 0 is the empty text in a text *)
(* column and zero in "size".  The filters that do not change during a walk *)
(* (account, folder or search term, type) say which rows are here at all,   *)
(* and other requests put rows in and take rows out as they like.           *)
(***************************************************************************)
EXTENDS Integers, FiniteSets

CONSTANTS
  Ids,          \* primary keys of drive_items
  FolderIds,    \* those of folders
  Columns,      \* columns a client sorts by
  Orders,       \* directions a client sorts in
  TextValues,   \* sort values of a text column; 0 is the empty text
  SizeValues,   \* sizes that rows have, 0 for a folder or an empty file
  Limit,        \* page size, 1..100 after clamping
  MaxEdits      \* bound: changes by other requests during the life of the model

ASSUME IdAssumption     == Ids \subseteq Nat \ {0} /\ IsFiniteSet(Ids) /\ FolderIds \subseteq Ids
ASSUME ColumnAssumption == Columns \subseteq {"name", "size", "updated_at", "created_at"}
                           /\ Orders \subseteq {"asc", "desc"}
ASSUME ValueAssumption  == TextValues \subseteq Nat /\ SizeValues \subseteq Nat
ASSUME LimitAssumption  == Limit \in Nat \ {0} /\ MaxEdits \in Nat

VARIABLES
  rows,     \* id -> its sort values, or NoRow when the folder does not list it
  walk,     \* the client's walk: the cursor it holds and the state of its scroller
  seen,     \* id -> how often the walk has returned it, counted up to 2
  steady,   \* ghost: ids listed with the same values since the walk began
  edits     \* changes made so far

vars == <<rows, walk, seen, steady, edits>>

-----------------------------------------------------------------------------
NoRow == [c \in Columns |-> -1]

Values == TextValues \cup SizeValues

ValuesOf(col) == IF col = "size" THEN SizeValues ELSE TextValues

Row == {row \in [Columns -> Values] : \A col \in Columns : row[col] \in ValuesOf(col)}

\* The zero cursor asks for the first page.
NoCursor == [type |-> "none", value |-> 0, id |-> 0, sort |-> "none", order |-> "none"]

Types == {"folder", "file"}

Cursor == {c \in [type : Types, value : Values, id : Ids, sort : Columns, order : Orders] :
             c.value \in ValuesOf(c.sort)}

Walk == [cursor : Cursor \cup {NoCursor}, phase : {"new", "more", "done"}]

TypeOK ==
  /\ rows \in [Ids -> Row \cup {NoRow}]
  /\ walk \in Walk
  /\ seen \in [Ids -> 0..2]
  /\ steady \subseteq Ids
  /\ edits \in 0..MaxEdits

TypeOf(i) == IF i \in FolderIds THEN "folder" ELSE "file"

Listed == {i \in Ids : rows[i] # NoRow}

Init ==
  /\ rows \in [Ids -> Row \cup {NoRow}]
  /\ walk = [cursor |-> NoCursor, phase |-> "new"]
  /\ seen = [i \in Ids |-> 0]
  /\ steady = {}
  /\ edits = 0

-----------------------------------------------------------------------------
(* ORDER BY type DESC, <column> <dir>, id ASC.                             *)

\* The string order of the two types: 'file' < 'folder'.
TypeLess(s, t) == s = "file" /\ t = "folder"

Beyond(dir, x, y) == IF dir = "desc" THEN x < y ELSE x > y

Precedes(i, j, col, dir) ==
  \/ TypeLess(TypeOf(j), TypeOf(i))
  \/ /\ TypeOf(i) = TypeOf(j)
     /\ \/ Beyond(dir, rows[j][col], rows[i][col])
        \/ rows[i][col] = rows[j][col] /\ i < j

\* P is what ORDER BY ... LIMIT n leaves of the rows S.
IsFirst(P, S, n, col, dir) ==
  /\ P \subseteq S
  /\ Cardinality(P) = IF Cardinality(S) < n THEN Cardinality(S) ELSE n
  /\ \A i \in P, j \in S \ P : Precedes(i, j, col, dir)

IsLast(i, P, col, dir) ==
  i \in P /\ \A j \in P \ {i} : Precedes(j, i, col, dir)

-----------------------------------------------------------------------------
(* The cursor.                                                             *)

EncodeDriveCursor(i, col, dir) ==
  [type |-> TypeOf(i), value |-> rows[i][col], id |-> i, sort |-> col, order |-> dir]

Matches(c, col, dir) == c.sort = col /\ c.order = dir

\* The text that carries the value is empty; a size never is.
EmptyValue(c) == c.value = 0 /\ c.sort # "size"

\* Mutated forms of BuildCursorWhere: `id >= ?`, the comparison of an
\* ascending walk in every direction, no id tier.
NotStrictWhere(c, i, col, dir) ==
  \/ TypeLess(TypeOf(i), c.type)
  \/ /\ TypeOf(i) = c.type
     /\ \/ Beyond(dir, rows[i][col], c.value)
        \/ rows[i][col] = c.value /\ i >= c.id

AscendingWhere(c, i, col, dir) ==
  \/ TypeLess(TypeOf(i), c.type)
  \/ /\ TypeOf(i) = c.type
     /\ \/ rows[i][col] > c.value
        \/ rows[i][col] = c.value /\ i > c.id

NoIdTierWhere(c, i, col, dir) ==
  \/ TypeLess(TypeOf(i), c.type)
  \/ TypeOf(i) = c.type /\ Beyond(dir, rows[i][col], c.value)

BuildCursorWhere(c, i, col, dir) ==
  \/ TypeLess(TypeOf(i), c.type)
  \/ /\ TypeOf(i) = c.type
     /\ IF EmptyValue(c)
          THEN i > c.id
          ELSE \/ Beyond(dir, rows[i][col], c.value)
               \/ rows[i][col] = c.value /\ i > c.id

-----------------------------------------------------------------------------
(* One request for a page.                                                 *)

\* A cursor made under another ordering is ignored.
Resumes(col, dir) == walk.cursor.id > 0 /\ Matches(walk.cursor, col, dir)

Selected(col, dir) ==
  {i \in Listed : Resumes(col, dir) => BuildCursorWhere(walk.cursor, i, col, dir)}

Capped(n) == IF n > 2 THEN 2 ELSE n

\* The client takes the page: one that did not resume starts its walk anew.
Receive(items, resumed) ==
  /\ seen' = [i \in Ids |->
                Capped((IF resumed THEN seen[i] ELSE 0) + (IF i \in items THEN 1 ELSE 0))]
  /\ steady' = IF resumed THEN steady ELSE Listed

\* limit + 1 rows are fetched: the one too many says that there is a next page.
Index(col, dir) ==
  \E fetched \in SUBSET Selected(col, dir) :
    /\ IsFirst(fetched, Selected(col, dir), Limit + 1, col, dir)
    /\ \/ /\ Cardinality(fetched) > Limit
          /\ \E extra, last \in fetched :
               /\ IsLast(extra, fetched, col, dir)
               /\ IsLast(last, fetched \ {extra}, col, dir)
               /\ walk' = [cursor |-> EncodeDriveCursor(last, col, dir), phase |-> "more"]
               /\ Receive(fetched \ {extra}, Resumes(col, dir))
       \/ /\ Cardinality(fetched) <= Limit
          /\ walk' = [cursor |-> NoCursor, phase |-> "done"]
          /\ Receive(fetched, Resumes(col, dir))
    /\ UNCHANGED <<rows, edits>>

\* The scroller asks for the next page, in any ordering, as long as there is one.
FetchPage == walk.phase # "done" /\ \E col \in Columns, dir \in Orders : Index(col, dir)

\* The folder is opened again.
Reopen ==
  /\ walk.phase # "new"
  /\ walk' = [cursor |-> NoCursor, phase |-> "new"]
  /\ UNCHANGED <<rows, seen, steady, edits>>

\* Another request creates, renames, resizes, moves in or out, or deletes item i.
Edit(i) ==
  /\ edits < MaxEdits
  /\ edits' = edits + 1
  /\ \E row \in (Row \cup {NoRow}) \ {rows[i]} : rows' = [rows EXCEPT ![i] = row]
  /\ steady' = steady \ {i}
  /\ UNCHANGED <<walk, seen>>

Next == FetchPage \/ Reopen \/ \E i \in Ids : Edit(i)

Spec == Init /\ [][Next]_vars

-----------------------------------------------------------------------------
(* Properties.                                                             *)

\* "no item may appear twice": a walk never returns an item again unless some
\* request changed it meanwhile, wherever the page boundaries fall and
\* whatever is created, renamed or deleted around it.
NoDuplicates == \A i \in steady : seen[i] <= 1

\* "every item must appear": the last page of a walk leaves no item behind that
\* was there, unchanged, from the first page on.
NoneSkipped == walk.phase = "done" => \A i \in steady : seen[i] >= 1

=============================================================================
