------------------------ MODULE DriveListing_proofs ------------------------
(* Proofs about DriveListing: keyset paging returns every steady item once,  *)
(* for any set of rows, page size and ordering, and ends, as long as no sort *)
(* value is empty.                                                           *)
EXTENDS DriveListing, FiniteSetTheorems, TLAPS

-----------------------------------------------------------------------------
(* The order of the listing.                                               *)

LEMMA RowValues ==
  ASSUME TypeOK, NEW i \in Listed, NEW col \in Columns
  PROVE  rows[i] \in Row /\ rows[i][col] \in Values /\ rows[i][col] \in Nat /\ i \in Nat
BY IdAssumption, ValueAssumption DEF TypeOK, Listed, Row, Values

\* A size of zero is written as "0": only a text can be empty in a cursor.
LEMMA NeverEmpty ==
  ASSUME 0 \notin TextValues, NEW c \in Cursor
  PROVE  c.value \in Nat /\ c.id \in Nat /\ c.type \in Types /\ ~EmptyValue(c)
BY IdAssumption, ValueAssumption DEF Cursor, EmptyValue, Values, ValuesOf

LEMMA EncodesCursor ==
  ASSUME TypeOK, NEW i \in Listed, NEW col \in Columns, NEW dir \in Orders
  PROVE  EncodeDriveCursor(i, col, dir) \in Cursor
<1>1. rows[i] \in Row /\ i \in Ids
  BY RowValues DEF Listed
<1>2. rows[i][col] \in Values /\ rows[i][col] \in ValuesOf(col)
  BY <1>1 DEF Row
<1> QED
  BY <1>1, <1>2 DEF EncodeDriveCursor, Cursor, Types, TypeOf

LEMMA PrecedesAsymmetric ==
  ASSUME TypeOK, NEW col \in Columns, NEW dir,
         NEW i \in Listed, NEW j \in Listed, Precedes(i, j, col, dir)
  PROVE  ~Precedes(j, i, col, dir)
BY RowValues DEF Precedes, TypeLess, TypeOf, Beyond

\* Without empty values the predicate says what its comment says: the rows
\* that come after the item the cursor was made of.
LEMMA WhereIsAfter ==
  ASSUME TypeOK, 0 \notin TextValues, NEW col \in Columns, NEW dir \in Orders,
         NEW i \in Listed, NEW j \in Listed
  PROVE  BuildCursorWhere(EncodeDriveCursor(i, col, dir), j, col, dir)
           <=> Precedes(i, j, col, dir)
<1>1. ~EmptyValue(EncodeDriveCursor(i, col, dir))
  BY EncodesCursor, NeverEmpty
<1> QED
  BY <1>1, RowValues
  DEF BuildCursorWhere, EncodeDriveCursor, Precedes, TypeLess, TypeOf, Beyond

\* What comes after a row that comes after the cursor comes after the cursor.
LEMMA WhereTransitive ==
  ASSUME TypeOK, 0 \notin TextValues, NEW c \in Cursor, NEW col \in Columns, NEW dir,
         NEW i \in Listed, NEW j \in Listed,
         BuildCursorWhere(c, i, col, dir), Precedes(i, j, col, dir)
  PROVE  BuildCursorWhere(c, j, col, dir)
BY NeverEmpty, RowValues
DEF BuildCursorWhere, Precedes, TypeLess, TypeOf, Beyond, Types

-----------------------------------------------------------------------------
(* The invariant: the walk has returned the steady items that the cursor    *)
(* lies at or behind, once each, and no other.                              *)

PositionInv ==
  \A i \in steady :
    seen[i] = IF BuildCursorWhere(walk.cursor, i, walk.cursor.sort, walk.cursor.order)
                THEN 0 ELSE 1

ListInv ==
  /\ TypeOK
  /\ steady \subseteq Listed
  /\ \A i \in steady : seen[i] <= 1
  /\ walk.phase = "new" => walk.cursor = NoCursor
  /\ walk.phase = "more" => walk.cursor \in Cursor /\ PositionInv
  /\ walk.phase = "done" => \A i \in steady : seen[i] = 1

LEMMA InitList == Init => ListInv
BY LimitAssumption DEF Init, ListInv, TypeOK, Walk, NoCursor

LEMMA SelectedIsFinite ==
  ASSUME NEW S \in SUBSET Ids
  PROVE  IsFiniteSet(S) /\ Cardinality(S) \in Nat
BY IdAssumption, FS_Subset, FS_CardinalityType

\* How often the walk has met an item before the page at hand.
Before(i, resumed) == IF resumed THEN seen[i] ELSE 0

\* What Receive needs to know of a page: the items of S it holds are new to
\* the walk and those of Listed it leaves out are behind the cursor.
LEMMA ReceiveType ==
  ASSUME ListInv, NEW items \in SUBSET Listed, NEW resumed \in BOOLEAN,
         Receive(items, resumed)
  PROVE  /\ seen' \in [Ids -> 0..2]
         /\ steady' \subseteq Listed
         /\ \A i \in Ids : Before(i, resumed) <= 1 =>
              seen'[i] = Before(i, resumed) + (IF i \in items THEN 1 ELSE 0)
<1>1. \A i \in Ids : seen[i] \in 0..2
  BY DEF ListInv, TypeOK
<1>2. \A i \in Ids : seen'[i] = Capped(Before(i, resumed) + (IF i \in items THEN 1 ELSE 0))
  BY DEF Receive, Before
<1>3. \A i \in Ids : Before(i, resumed) \in 0..2
  BY <1>1 DEF Before
<1>4. \A n \in 0..3 : Capped(n) \in 0..2 /\ (n <= 2 => Capped(n) = n)
  BY DEF Capped
<1>5. seen' \in [Ids -> 0..2]
  <2>1. \A i \in Ids : Before(i, resumed) + (IF i \in items THEN 1 ELSE 0) \in 0..3
    BY <1>3
  <2> QED
    BY <1>2, <1>4, <2>1 DEF Receive, Before
<1>6. \A i \in Ids : Before(i, resumed) <= 1 =>
        seen'[i] = Before(i, resumed) + (IF i \in items THEN 1 ELSE 0)
  BY <1>2, <1>3, <1>4
<1>7. steady' \subseteq Listed
  BY DEF Receive, ListInv
<1> QED
  BY <1>5, <1>6, <1>7

\* Before a page a steady item has been returned unless the page may hold it.
LEMMA BeforePage ==
  ASSUME ListInv, walk.phase # "done", NEW col \in Columns, NEW dir \in Orders,
         NEW i \in (IF Resumes(col, dir) THEN steady ELSE Listed)
  PROVE  Before(i, Resumes(col, dir)) = IF i \in Selected(col, dir) THEN 0 ELSE 1
<1>1. CASE Resumes(col, dir)
  <2>1. walk.phase = "more"
    BY <1>1 DEF ListInv, Resumes, NoCursor, TypeOK, Walk
  <2>2. walk.cursor.sort = col /\ walk.cursor.order = dir
    BY <1>1 DEF Resumes, Matches
  <2>3. i \in Selected(col, dir) <=> BuildCursorWhere(walk.cursor, i, col, dir)
    BY <1>1 DEF Selected, ListInv
  <2> QED
    BY <1>1, <2>1, <2>2, <2>3 DEF ListInv, PositionInv, Before
<1>2. CASE ~Resumes(col, dir)
  BY <1>2 DEF Selected, Before
<1> QED
  BY <1>1, <1>2

\* A page that ends with last leaves of the rows it could hold those that come
\* after last; what lay behind the cursor stays behind it.
LEMMA PageEnd ==
  ASSUME ListInv, 0 \notin TextValues, NEW col \in Columns, NEW dir \in Orders,
         NEW fetched \in SUBSET Selected(col, dir),
         IsFirst(fetched, Selected(col, dir), Limit + 1, col, dir),
         NEW extra \in fetched, NEW last \in fetched,
         IsLast(extra, fetched, col, dir), IsLast(last, fetched \ {extra}, col, dir),
         NEW i \in Listed
  PROVE  BuildCursorWhere(EncodeDriveCursor(last, col, dir), i, col, dir)
           <=> i \in Selected(col, dir) \ (fetched \ {extra})
<1> DEFINE S == Selected(col, dir)
           items == fetched \ {extra}
<1>1. TypeOK /\ items \subseteq Listed /\ last \in items /\ last \in S /\ last \in Listed
  BY DEF ListInv, IsLast, Selected
<1>2. BuildCursorWhere(EncodeDriveCursor(last, col, dir), i, col, dir)
        <=> Precedes(last, i, col, dir)
  BY <1>1, WhereIsAfter
<1>3. CASE i \in items
  <2>1. ~Precedes(last, i, col, dir)
    <3>1. CASE i = last
      BY <1>1, <3>1, PrecedesAsymmetric
    <3>2. CASE i # last
      BY <1>1, <1>3, <3>2, PrecedesAsymmetric DEF IsLast
    <3> QED
      BY <3>1, <3>2
  <2> QED
    BY <1>2, <1>3, <2>1
<1>4. CASE i \in S \ items
  <2>1. Precedes(last, i, col, dir)
    BY <1>1, <1>4 DEF IsLast, IsFirst
  <2> QED
    BY <1>2, <1>4, <2>1
<1>5. CASE i \notin S
  <2>1. Resumes(col, dir) /\ ~BuildCursorWhere(walk.cursor, i, col, dir)
    BY <1>5 DEF Selected
  <2>2. walk.cursor \in Cursor
    BY <2>1 DEF ListInv, Resumes, NoCursor, TypeOK, Walk
  <2>3. BuildCursorWhere(walk.cursor, last, col, dir)
    BY <1>1, <2>1 DEF Selected
  <2> QED
    BY <1>1, <1>2, <1>5, <2>1, <2>2, <2>3, WhereTransitive
<1> QED
  BY <1>3, <1>4, <1>5

LEMMA IndexList ==
  ASSUME ListInv, 0 \notin TextValues, walk.phase # "done",
         NEW col \in Columns, NEW dir \in Orders, Index(col, dir)
  PROVE  ListInv'
<1> DEFINE S == Selected(col, dir)
           resumed == Resumes(col, dir)
<1>0. S \subseteq Listed /\ S \in SUBSET Ids /\ resumed \in BOOLEAN /\ Listed \subseteq Ids
  BY DEF Selected, Listed, Resumes
<1>1. PICK fetched \in SUBSET S :
        /\ IsFirst(fetched, S, Limit + 1, col, dir)
        /\ \/ /\ Cardinality(fetched) > Limit
              /\ \E extra, last \in fetched :
                   /\ IsLast(extra, fetched, col, dir)
                   /\ IsLast(last, fetched \ {extra}, col, dir)
                   /\ walk' = [cursor |-> EncodeDriveCursor(last, col, dir), phase |-> "more"]
                   /\ Receive(fetched \ {extra}, resumed)
           \/ /\ Cardinality(fetched) <= Limit
              /\ walk' = [cursor |-> NoCursor, phase |-> "done"]
              /\ Receive(fetched, resumed)
        /\ UNCHANGED <<rows, edits>>
  BY DEF Index
<1>2. TypeOK /\ Listed' = Listed
  BY <1>1 DEF ListInv, Listed
<1>3. \A i \in steady' : i \in (IF resumed THEN steady ELSE Listed)
  BY <1>1 DEF Receive
<1>4. \A i \in steady' : Before(i, resumed) = IF i \in S THEN 0 ELSE 1
  BY <1>3, BeforePage
<1>5. CASE /\ Cardinality(fetched) > Limit
           /\ \E extra, last \in fetched :
                /\ IsLast(extra, fetched, col, dir)
                /\ IsLast(last, fetched \ {extra}, col, dir)
                /\ walk' = [cursor |-> EncodeDriveCursor(last, col, dir), phase |-> "more"]
                /\ Receive(fetched \ {extra}, resumed)
  <2>1. PICK extra \in fetched, last \in fetched :
                /\ IsLast(extra, fetched, col, dir)
                /\ IsLast(last, fetched \ {extra}, col, dir)
                /\ walk' = [cursor |-> EncodeDriveCursor(last, col, dir), phase |-> "more"]
                /\ Receive(fetched \ {extra}, resumed)
    BY <1>5
  <2> DEFINE items == fetched \ {extra}
             d == EncodeDriveCursor(last, col, dir)
  <2>2. items \subseteq Listed /\ last \in items /\ last \in S /\ last \in Listed
    BY <1>0, <1>1, <2>1 DEF IsLast
  <2>3. /\ seen' \in [Ids -> 0..2] /\ steady' \subseteq Listed
        /\ \A i \in steady' : seen'[i] = Before(i, resumed) + (IF i \in items THEN 1 ELSE 0)
    <3>1. \A i \in steady' : Before(i, resumed) <= 1
      BY <1>4
    <3> HIDE DEF items, resumed
    <3>2. /\ seen' \in [Ids -> 0..2] /\ steady' \subseteq Listed
          /\ \A i \in Ids : Before(i, resumed) <= 1 =>
               seen'[i] = Before(i, resumed) + (IF i \in items THEN 1 ELSE 0)
      BY <1>0, <2>1, <2>2, ReceiveType DEF items
    <3> QED
      BY <1>0, <3>1, <3>2
  <2>4. d \in Cursor /\ d.sort = col /\ d.order = dir
    BY <1>2, <2>2, EncodesCursor DEF EncodeDriveCursor
  <2>5. \A i \in Listed : BuildCursorWhere(d, i, col, dir) <=> i \in S \ items
    BY <1>1, <2>1, PageEnd
  <2>9. \A i \in steady' :
          seen'[i] = IF BuildCursorWhere(d, i, col, dir) THEN 0 ELSE 1
    <3> HIDE DEF S, items, d, resumed
    <3> SUFFICES ASSUME NEW i \in steady'
                 PROVE  seen'[i] = IF BuildCursorWhere(d, i, col, dir) THEN 0 ELSE 1
      OBVIOUS
    <3>1. i \in Listed
      BY <2>3
    <3>2. items \subseteq S
      BY <1>1 DEF items
    <3>3. seen'[i] = Before(i, resumed) + (IF i \in items THEN 1 ELSE 0)
      BY <2>3
    <3> QED
      BY <1>4, <2>5, <3>1, <3>2, <3>3
  <2>10. PositionInv'
    <3> SUFFICES ASSUME NEW i \in steady'
                 PROVE  seen'[i] = IF BuildCursorWhere(walk.cursor, i, walk.cursor.sort,
                                                       walk.cursor.order)' THEN 0 ELSE 1
      BY DEF PositionInv
    <3>1. rows' = rows /\ walk'.cursor = d
      BY <1>1, <2>1
    <3> HIDE DEF d
    <3>2. BuildCursorWhere(walk.cursor, i, walk.cursor.sort, walk.cursor.order)'
            <=> BuildCursorWhere(d, i, col, dir)
      BY <2>4, <3>1 DEF BuildCursorWhere, Beyond, EmptyValue
    <3> QED
      BY <2>9, <3>2
  <2> QED
    <3>1. walk' = [cursor |-> d, phase |-> "more"]
      BY <2>1
    <3>2. TypeOK'
      BY <1>0, <1>1, <1>2, <2>3, <2>4, <3>1 DEF TypeOK, Walk
    <3>3. \A i \in steady' : seen'[i] <= 1
      BY <2>9
    <3> HIDE DEF d
    <3> QED
      BY <1>2, <2>3, <2>4, <2>10, <3>1, <3>2, <3>3 DEF ListInv
<1>6. CASE /\ Cardinality(fetched) <= Limit
           /\ walk' = [cursor |-> NoCursor, phase |-> "done"]
           /\ Receive(fetched, resumed)
  <2>1. fetched = S
    <3>1. IsFiniteSet(S) /\ Cardinality(S) \in Nat /\ Limit \in Nat
      BY <1>0, SelectedIsFinite, LimitAssumption
    <3>2. Cardinality(fetched) = Cardinality(S)
      BY <1>1, <1>6, <3>1 DEF IsFirst
    <3> HIDE DEF S
    <3> QED
      BY <1>1, <3>1, <3>2, FS_Subset
  <2>2. /\ seen' \in [Ids -> 0..2] /\ steady' \subseteq Listed
        /\ \A i \in steady' : seen'[i] = 1
    <3>1. \A i \in steady' : Before(i, resumed) <= 1
      BY <1>4
    <3> HIDE DEF S, resumed
    <3>2. /\ seen' \in [Ids -> 0..2] /\ steady' \subseteq Listed
          /\ \A i \in Ids : Before(i, resumed) <= 1 =>
               seen'[i] = Before(i, resumed) + (IF i \in S THEN 1 ELSE 0)
      BY <1>0, <1>6, <2>1, ReceiveType
    <3> QED
      BY <1>0, <1>4, <3>1, <3>2
  <2> QED
    BY <1>0, <1>1, <1>2, <1>6, <2>2 DEF ListInv, TypeOK, Walk
<1> QED
  BY <1>1, <1>5, <1>6

LEMMA EditList ==
  ASSUME ListInv, NEW i \in Ids, Edit(i)
  PROVE  ListInv'
<1>1. /\ rows' \in [Ids -> Row \cup {NoRow}]
      /\ \A j \in Ids \ {i} : rows'[j] = rows[j]
      /\ steady' = steady \ {i}
      /\ walk' = walk /\ seen' = seen
  BY DEF Edit, ListInv, TypeOK
<1>2. edits' \in 0..MaxEdits
  BY LimitAssumption DEF Edit, ListInv, TypeOK
<1>3. steady' \subseteq Listed'
  BY <1>1 DEF ListInv, Listed
<1>4. PositionInv => PositionInv'
  <2> SUFFICES ASSUME PositionInv, NEW j \in steady'
               PROVE  seen'[j] = IF BuildCursorWhere(walk.cursor, j, walk.cursor.sort,
                                                     walk.cursor.order)' THEN 0 ELSE 1
    BY <1>1 DEF PositionInv
  <2>1. j \in Ids \ {i} /\ j \in steady
    BY <1>1 DEF ListInv, TypeOK
  <2>2. rows'[j] = rows[j] /\ walk' = walk
    BY <1>1, <2>1
  <2>3. BuildCursorWhere(walk.cursor, j, walk.cursor.sort, walk.cursor.order)'
          <=> BuildCursorWhere(walk.cursor, j, walk.cursor.sort, walk.cursor.order)
    BY <2>2 DEF BuildCursorWhere, Beyond, EmptyValue
  <2> QED
    BY <1>1, <2>1, <2>3 DEF PositionInv
<1> QED
  BY <1>1, <1>2, <1>3, <1>4 DEF ListInv, TypeOK

LEMMA NextList ==
  ASSUME 0 \notin TextValues, ListInv, [Next]_vars
  PROVE  ListInv'
<1>1. CASE FetchPage
  BY <1>1, IndexList DEF FetchPage
<1>2. CASE Reopen
  BY <1>2 DEF Reopen, ListInv, TypeOK, Walk, Listed
<1>3. CASE \E i \in Ids : Edit(i)
  BY <1>3, EditList
<1>4. CASE UNCHANGED vars
  BY <1>4
  DEF vars, ListInv, TypeOK, Listed, PositionInv, BuildCursorWhere, Beyond, EmptyValue
<1> QED
  BY <1>1, <1>2, <1>3, <1>4 DEF Next

LEMMA ListInvariance ==
  ASSUME 0 \notin TextValues
  PROVE  Spec => []ListInv
<1>1. Init => ListInv
  BY InitList
<1>2. ListInv /\ [Next]_vars => ListInv'
  BY NextList
<1> QED
  BY <1>1, <1>2, PTL DEF Spec

\* A walk returns an item that stays as it was at most once, for every page
\* size, ordering and set of rows, whatever other requests do to the other
\* items and wherever the client changes the ordering, provided that no row
\* has an empty text to sort by.
THEOREM NoItemTwice ==
  ASSUME 0 \notin TextValues
  PROVE  Spec => []NoDuplicates
<1>1. ListInv => NoDuplicates
  BY DEF ListInv, NoDuplicates
<1> QED
  BY <1>1, ListInvariance, PTL

\* Under the same assumption a walk that has reached its last page has
\* returned every item that stayed as it was from its first page on.
THEOREM NoItemSkipped ==
  ASSUME 0 \notin TextValues
  PROVE  Spec => []NoneSkipped
<1>1. ListInv => NoneSkipped
  BY DEF ListInv, NoneSkipped, TypeOK
<1> QED
  BY <1>1, ListInvariance, PTL

-----------------------------------------------------------------------------
(* Scrolling ends.                                                         *)

\* The rows that the walk has still to come to, if nobody changes any.
Ahead == Selected(walk.cursor.sort, walk.cursor.order)

\* A page that is not the last one takes as many rows as it is long off those
\* it could hold, and an edit puts at most the item it is about before the walk.
PagesRunOut ==
  [][/\ \A col \in Columns, dir \in Orders :
          Index(col, dir) /\ walk'.phase = "more" =>
            Cardinality(Ahead') + Limit = Cardinality(Selected(col, dir))
     /\ \A i \in Ids : Edit(i) => Ahead' \subseteq Ahead \cup {i}]_vars

LEMMA PageShrinks ==
  ASSUME ListInv, 0 \notin TextValues, NEW col \in Columns, NEW dir \in Orders,
         Index(col, dir), walk'.phase = "more"
  PROVE  Cardinality(Ahead') + Limit = Cardinality(Selected(col, dir))
<1> DEFINE S == Selected(col, dir)
<1>1. PICK fetched \in SUBSET S :
        /\ IsFirst(fetched, S, Limit + 1, col, dir)
        /\ rows' = rows
        /\ Cardinality(fetched) > Limit
        /\ \E extra, last \in fetched :
             /\ IsLast(extra, fetched, col, dir)
             /\ IsLast(last, fetched \ {extra}, col, dir)
             /\ walk' = [cursor |-> EncodeDriveCursor(last, col, dir), phase |-> "more"]
  BY DEF Index
<1>2. PICK extra \in fetched, last \in fetched :
        /\ IsLast(extra, fetched, col, dir)
        /\ IsLast(last, fetched \ {extra}, col, dir)
        /\ walk' = [cursor |-> EncodeDriveCursor(last, col, dir), phase |-> "more"]
  BY <1>1
<1> DEFINE items == fetched \ {extra}
           d == EncodeDriveCursor(last, col, dir)
<1>3. \A i \in Listed : BuildCursorWhere(d, i, col, dir) <=> i \in S \ items
  BY <1>1, <1>2, PageEnd
<1>4. S \subseteq Listed /\ S \subseteq Ids /\ last \in Listed /\ TypeOK
  BY <1>1 DEF Selected, Listed, ListInv
<1>5. d \in Cursor /\ d.sort = col /\ d.order = dir
  BY <1>4, EncodesCursor DEF EncodeDriveCursor
<1>6. Ahead' = S \ items
  <2>1. PICK c \in Cursor : c = d /\ c.sort = col /\ c.order = dir
    BY <1>5
  <2>2. walk'.cursor = c /\ Listed' = Listed /\ rows' = rows
    BY <1>1, <1>2, <2>1 DEF Listed
  <2>3. c.id > 0
    <3>1. c.id \in Ids
      BY <1>4, <2>1 DEF EncodeDriveCursor, Listed
    <3>2. c.id \in Nat /\ c.id # 0
      BY <3>1, IdAssumption
    <3> QED
      BY <3>2
  <2>4. \A i \in Listed : BuildCursorWhere(c, i, col, dir) <=> i \in S \ items
    BY <1>3, <2>1
  <2> HIDE DEF d, S, items
  <2>5. \A i : BuildCursorWhere(c, i, col, dir)' <=> BuildCursorWhere(c, i, col, dir)
    BY <2>2 DEF BuildCursorWhere, Beyond, EmptyValue
  <2>6. Ahead' = {i \in Listed : BuildCursorWhere(c, i, col, dir)}
    BY <2>1, <2>2, <2>3, <2>5 DEF Ahead, Selected, Resumes, Matches
  <2> QED
    BY <1>4, <2>4, <2>6
<1>7. Cardinality(items) = Limit
  <2>1. IsFiniteSet(fetched) /\ Cardinality(fetched) \in Nat
    BY <1>1, <1>4, SelectedIsFinite
  <2>2. Cardinality(S) \in Nat /\ Limit \in Nat
    BY <1>4, SelectedIsFinite, LimitAssumption
  <2> HIDE DEF S
  <2>3. Cardinality(fetched) = Limit + 1
    BY <1>1, <2>2 DEF IsFirst
  <2>4. Cardinality(items) = Cardinality(fetched) - 1
    BY <2>1, FS_RemoveElement
  <2> QED
    BY <2>2, <2>3, <2>4
<1>8. Cardinality(S \ items) = Cardinality(S) - Cardinality(items)
  <2>1. IsFiniteSet(S) /\ items \subseteq S
    BY <1>4, SelectedIsFinite
  <2>2. S \cap items = items
    BY <2>1
  <2> HIDE DEF S, items
  <2> QED
    BY <2>1, <2>2, FS_Difference
<1>9. Cardinality(S) \in Nat /\ Limit \in Nat
  BY <1>4, SelectedIsFinite, LimitAssumption
<1> QED
  BY <1>6, <1>7, <1>8, <1>9

LEMMA EditAdds ==
  ASSUME TypeOK, NEW i \in Ids, Edit(i)
  PROVE  Ahead' \subseteq Ahead \cup {i}
<1>1. walk' = walk /\ \A j \in Ids \ {i} : rows'[j] = rows[j]
  BY DEF Edit, TypeOK
<1>2. ASSUME NEW j \in Ahead', j # i PROVE j \in Ahead
  <2>1. j \in Listed' /\ j \in Ids \ {i}
    BY <1>2 DEF Ahead, Selected, Listed
  <2>2. rows'[j] = rows[j] /\ j \in Listed
    BY <1>1, <2>1 DEF Listed
  <2>3. BuildCursorWhere(walk.cursor, j, walk.cursor.sort, walk.cursor.order)'
          <=> BuildCursorWhere(walk.cursor, j, walk.cursor.sort, walk.cursor.order)
    BY <1>1, <2>2 DEF BuildCursorWhere, Beyond, EmptyValue
  <2> QED
    BY <1>1, <1>2, <2>2, <2>3 DEF Ahead, Selected, Resumes
<1> QED
  BY <1>2

\* An endless scroll has an end: as long as the client keeps its ordering, a
\* walk through a folder of n items has at most n / Limit + 1 pages and a page
\* for every Limit changes that others make meanwhile.  A folder with empty
\* names, sorted descending, can be scrolled for ever.
THEOREM ScrollEnds ==
  ASSUME 0 \notin TextValues
  PROVE  Spec => PagesRunOut
<1>1. ListInv =>
        /\ \A col \in Columns, dir \in Orders :
             Index(col, dir) /\ walk'.phase = "more" =>
               Cardinality(Ahead') + Limit = Cardinality(Selected(col, dir))
        /\ \A i \in Ids : Edit(i) => Ahead' \subseteq Ahead \cup {i}
  <2> SUFFICES ASSUME ListInv
               PROVE  /\ \A col \in Columns, dir \in Orders :
                           Index(col, dir) /\ walk'.phase = "more" =>
                             Cardinality(Ahead') + Limit = Cardinality(Selected(col, dir))
                      /\ \A i \in Ids : Edit(i) => Ahead' \subseteq Ahead \cup {i}
    OBVIOUS
  <2>1. TypeOK
    BY DEF ListInv
  <2> QED
    BY <2>1, PageShrinks, EditAdds
<1> QED
  BY <1>1, ListInvariance, PTL DEF PagesRunOut

=============================================================================
