------------------------ MODULE CursorPaginationProofs ------------------------
(* Proofs about CursorPagination, for any movies, columns, orders and sizes *)
(* of pages.                                                                *)
EXTENDS CursorPagination, TLAPS, WellFoundedInduction, FiniteSetTheorems

-----------------------------------------------------------------------------
(* The order of the rows.                                                  *)

LEMMA LeastIndex ==
  ASSUME NEW S, S \subseteq Nat, S # {}
  PROVE  \E i \in S : \A j \in S : i <= j
  <1> DEFINE R == OpToRel(<, Nat)
  <1>1. PICK i \in S : \A j \in S : ~(<<j, i>> \in R)
    <2>1. IsWellFoundedOn(R, Nat)
      BY NatLessThanWellFounded
    <2> HIDE DEF R
    <2> QED
      BY <2>1, WFMin
  <1>2. ASSUME NEW j \in S PROVE i <= j
    <2>1. <<j, i>> \in Nat \X Nat /\ <<j, i>> \notin R
      BY <1>1
    <2>2. ~(j < i)
      BY <2>1 DEF OpToRel
    <2> QED
      BY <2>2
  <1> QED
    BY <1>2

\* Column i of the order is the first in which the rows differ, and puts a
\* before b.
First(o, a, b, i) ==
  /\ i \in DOMAIN o
  /\ \A j \in 1 .. (i - 1) : a[o[j].column] = b[o[j].column]
  /\ Before(o[i].direction, a[o[i].column], b[o[i].column])

LEMMA ColumnsOfOrder ==
  ASSUME NEW o \in Seq(Sort), NEW i \in DOMAIN o
  PROVE  /\ DOMAIN o = 1 .. Len(o) /\ Len(o) \in Nat /\ i \in Nat
         /\ \A j \in 1 .. (i - 1) : j \in DOMAIN o
         /\ o[i].column \in Columns
         /\ o[i].column \in SortColumns(o)
  <1>1. DOMAIN o = 1 .. Len(o) /\ Len(o) \in Nat
    OBVIOUS
  <1>2. i \in Nat /\ \A j \in 1 .. (i - 1) : j \in DOMAIN o
    BY <1>1
  <1>3. o[i] \in Sort
    BY <1>1
  <1>4. o[i].column \in Columns
    BY <1>3 DEF Sort
  <1>5. o[i].column \in SortColumns(o)
    BY DEF SortColumns
  <1> QED
    BY <1>1, <1>2, <1>4, <1>5

LEMMA PrecedesByFirst ==
  ASSUME NEW o \in Seq(Sort), NEW a \in Rows, NEW b \in Rows
  PROVE  Precedes(o, a, b) <=> \E i \in DOMAIN o : First(o, a, b, i)
  <1>1. ASSUME NEW i \in DOMAIN o, First(o, a, b, i)
        PROVE  Precedes(o, a, b)
    <2>1. a[o[i].column] \in Int /\ b[o[i].column] \in Int
      BY ColumnsOfOrder DEF Rows
    <2>2. i \in Differ(o, a, b)
      BY <1>1, <2>1 DEF First, Before, Differ
    <2>3. ASSUME NEW j \in Differ(o, a, b) PROVE i <= j
      <3>1. j \in Nat /\ i \in Nat /\ j >= 1
        BY ColumnsOfOrder DEF Differ
      <3>2. j \notin 1 .. (i - 1)
        BY <1>1 DEF First, Differ
      <3> QED
        BY <3>1, <3>2
    <2> QED
      BY <1>1, <2>2, <2>3 DEF Precedes, First
  <1>2. ASSUME Precedes(o, a, b)
        PROVE  \E i \in DOMAIN o : First(o, a, b, i)
    <2>1. PICK i \in Differ(o, a, b) :
            /\ \A j \in Differ(o, a, b) : i <= j
            /\ Before(o[i].direction, a[o[i].column], b[o[i].column])
      BY <1>2 DEF Precedes
    <2>2. i \in DOMAIN o /\ i \in Nat
      BY ColumnsOfOrder DEF Differ
    <2>3. ASSUME NEW j \in 1 .. (i - 1)
          PROVE  a[o[j].column] = b[o[j].column]
      <3>1. j \in DOMAIN o /\ ~(i <= j)
        BY <2>2, ColumnsOfOrder
      <3> QED
        BY <2>1, <3>1 DEF Differ
    <2> QED
      BY <2>1, <2>2, <2>3 DEF First
  <1> QED
    BY <1>1, <1>2

\* The WHERE clause that is built from a cursor selects what ORDER BY puts
\* after the row the cursor was made of.
LEMMA CursorWhereIsPrecedes ==
  ASSUME NEW o \in Seq(Sort), NEW a \in Rows, NEW b \in Rows
  PROVE  CursorWhere(o, CursorValues(o, a), b) <=> Precedes(o, a, b)
  <1> DEFINE values == CursorValues(o, a)
  <1>1. ASSUME NEW i \in DOMAIN o
        PROVE  values[o[i].column] = a[o[i].column]
    BY ColumnsOfOrder DEF CursorValues
  <1>2. ASSUME NEW i \in DOMAIN o
        PROVE  (/\ \A j \in 1 .. (i - 1) : b[o[j].column] = values[o[j].column]
                /\ Before(o[i].direction, values[o[i].column], b[o[i].column]))
               <=> First(o, a, b, i)
    <2> HIDE DEF values
    <2>1. \A j \in 1 .. (i - 1) : values[o[j].column] = a[o[j].column]
      BY <1>1, ColumnsOfOrder
    <2> QED
      BY <1>1, <2>1 DEF First
  <1>3. CursorWhere(o, values, b) <=> \E i \in DOMAIN o : First(o, a, b, i)
    <2> HIDE DEF values
    <2> QED
      BY <1>2 DEF CursorWhere
  <1> QED
    BY <1>3, PrecedesByFirst

LEMMA NotBeforeItself ==
  ASSUME NEW o \in Seq(Sort), NEW a \in Rows
  PROVE  ~Precedes(o, a, a)
  BY DEF Precedes, Differ

LEMMA PrecedesIsTransitive ==
  ASSUME NEW o \in Seq(Sort), NEW a \in Rows, NEW b \in Rows, NEW c \in Rows,
         Precedes(o, a, b), Precedes(o, b, c)
  PROVE  Precedes(o, a, c)
  <1>1. PICK i \in DOMAIN o : First(o, a, b, i)
    BY PrecedesByFirst
  <1>2. PICK k \in DOMAIN o : First(o, b, c, k)
    BY PrecedesByFirst
  <1>3. i \in Nat /\ k \in Nat /\ i >= 1 /\ k >= 1
    BY ColumnsOfOrder
  <1>4. CASE i < k
    <2>1. i \in 1 .. (k - 1) /\ 1 .. (i - 1) \subseteq 1 .. (k - 1)
      BY <1>3, <1>4
    <2>2. First(o, a, c, i)
      BY <1>1, <1>2, <2>1 DEF First
    <2> QED
      BY <2>2, PrecedesByFirst
  <1>5. CASE k < i
    <2>1. k \in 1 .. (i - 1) /\ 1 .. (k - 1) \subseteq 1 .. (i - 1)
      BY <1>3, <1>5
    <2>2. First(o, a, c, k)
      BY <1>1, <1>2, <2>1 DEF First
    <2> QED
      BY <2>2, PrecedesByFirst
  <1>6. CASE i = k
    <2> DEFINE n == o[i].column
    <2>1. a[n] \in Int /\ b[n] \in Int /\ c[n] \in Int
      BY ColumnsOfOrder DEF Rows
    <2>2. Before(o[i].direction, a[n], c[n])
      BY <1>1, <1>2, <1>6, <2>1 DEF First, Before
    <2>3. First(o, a, c, i)
      BY <1>1, <1>2, <1>6, <2>2 DEF First
    <2> QED
      BY <2>3, PrecedesByFirst
  <1> QED
    BY <1>3, <1>4, <1>5, <1>6

\* Rows that neither precede each other tie in every column of the order.
LEMMA PrecedesOrTie ==
  ASSUME NEW o \in Seq(Sort), NEW a \in Rows, NEW b \in Rows
  PROVE  \/ Precedes(o, a, b)
         \/ Precedes(o, b, a)
         \/ \A c \in SortColumns(o) : a[c] = b[c]
  <1>1. CASE Differ(o, a, b) = {}
    BY <1>1 DEF Differ, SortColumns
  <1>2. CASE Differ(o, a, b) # {}
    <2>1. Differ(o, a, b) \subseteq Nat
      BY ColumnsOfOrder DEF Differ
    <2>2. PICK i \in Differ(o, a, b) : \A j \in Differ(o, a, b) : i <= j
      BY <1>2, <2>1, LeastIndex
    <2> DEFINE n == o[i].column
    <2>3. a[n] \in Int /\ b[n] \in Int /\ a[n] # b[n]
      BY ColumnsOfOrder DEF Rows, Differ
    <2>4. \/ Before(o[i].direction, a[n], b[n])
          \/ Before(o[i].direction, b[n], a[n])
      BY <2>3 DEF Before
    <2>5. Differ(o, b, a) = Differ(o, a, b)
      BY DEF Differ
    <2> QED
      BY <2>2, <2>4, <2>5 DEF Precedes
  <1> QED
    BY <1>1, <1>2

\* An order with the id in it leaves no tie.
LEMMA PrecedesIsTotal ==
  ASSUME NEW o \in Seq(Sort), HasId(o), NEW a \in Rows, NEW b \in Rows, a["id"] # b["id"]
  PROVE  Precedes(o, a, b) \/ Precedes(o, b, a)
  BY PrecedesOrTie DEF HasId

-----------------------------------------------------------------------------
(* The walk: what the cursor says of the pages so far.                     *)

Keys == \A x \in Ids : movie[x]["id"] = x

Untouched == (given \cup page \cup old \cup live) \cap fresh = {}

Start == walk = "new" => given = {} /\ page = {} /\ old = {} /\ moved = {}

End == walk = "over" => page = {}

\* What was answered does not come after the row of the cursor ...
Behind(last) ==
  \A x \in (given \cup page) \ moved : ~Precedes(order, last, movie[x])

\* ... and what is still to be answered does.
Ahead(last) ==
  HasId(order) =>
    \A x \in (old \cap live) \ moved :
      x \in given \cup page \/ Precedes(order, last, movie[x])

Place(last) ==
  /\ cursor = CursorValues(order, last)
  /\ Behind(last)
  /\ Ahead(last)

Walk == walk = "on" => \E last \in Rows : Place(last)

Safe == NothingTwice /\ NothingSkipped /\ PagesInOrder

Inv == TypeOK /\ Keys /\ Untouched /\ Start /\ End /\ Walk /\ Safe

LEMMA RowOf ==
  ASSUME NEW x \in Ids, NEW row \in RowsOf(x)
  PROVE  row \in Rows /\ row["id"] = x
  <1>1. row \in [Columns -> Ids \cup Values]
    BY DEF RowsOf
  <1>2. \A c \in Columns : row[c] \in Int
    BY <1>1, NumbersAssumption
  <1>3. row \in Rows
    BY <1>1, <1>2 DEF Rows
  <1>4. row["id"] = x
    BY ColumnsAssumption DEF RowsOf
  <1> QED
    BY <1>3, <1>4

LEMMA CursorType ==
  ASSUME NEW o \in Seq(Sort), NEW row \in Rows
  PROVE  CursorValues(o, row) \in [SortColumns(o) -> Int]
  <1>1. ASSUME NEW c \in SortColumns(o)
        PROVE  row[c] \in Int
    <2>1. PICK i \in DOMAIN o : c = o[i].column
      BY DEF SortColumns
    <2>2. c \in Columns
      BY <2>1, ColumnsOfOrder
    <2> QED
      BY <2>2 DEF Rows
  <1> QED
    BY <1>1 DEF CursorValues

\* An answer ends the walk, and then nothing was selected, or it moves the
\* cursor to one of its rows that comes before no other, and after which come
\* all that were selected and left out.
LEMMA AnswerTo ==
  ASSUME NEW S, NEW o \in Seq(Sort), NEW n \in Nat \ {0}, Answer(S, o, n)
  PROVE  /\ page' \subseteq S
         /\ \/ /\ page' = {} /\ S = {} /\ walk' = "over"
               /\ order' = order /\ cursor' = cursor
            \/ /\ walk' = "on" /\ order' = o
               /\ \E l \in page' :
                    /\ cursor' = CursorValues(o, movie[l])
                    /\ \A x \in page' : ~Precedes(o, movie[l], movie[x])
                    /\ \A y \in S \ page' : ~Precedes(o, movie[y], movie[l])
  <1>1. PICK rows \in SUBSET S :
          /\ FindMany(S, o, n, rows)
          /\ page' = rows
          /\ \/ rows = {} /\ walk' = "over" /\ UNCHANGED <<order, cursor>>
             \/ /\ walk' = "on"
                /\ order' = o
                /\ \E last \in rows :
                     /\ \A x \in rows : ~Precedes(o, movie[last], movie[x])
                     /\ cursor' = CursorValues(o, movie[last])
    BY DEF Answer
  <1>2. \A x \in rows, y \in S \ rows : ~Precedes(o, movie[y], movie[x])
    BY <1>1 DEF FindMany
  <1>3. rows = {} => S = {}
    <2>1. rows = S \/ Cardinality(rows) = n
      BY <1>1 DEF FindMany
    <2>2. rows = {} => Cardinality(rows) = 0
      BY FS_EmptySet
    <2> QED
      BY <2>1, <2>2
  <1> QED
    BY <1>1, <1>2, <1>3

LEMMA InitInv == Init => Inv
  <1> SUFFICES ASSUME Init PROVE Inv
    OBVIOUS
  <1>1. \A x \in Ids : movie[x] \in Rows /\ movie[x]["id"] = x
    BY RowOf DEF Init
  <1>2. DOMAIN movie = Ids /\ movie = [x \in Ids |-> movie[x]]
    BY DEF Init
  <1>3. movie \in [Ids -> Rows]
    BY <1>1, <1>2
  <1>4. order \in Seq(Sort) /\ SortColumns(order) = {}
    BY DEF Init, SortColumns
  <1>5. cursor \in [SortColumns(order) -> Int]
    BY <1>4 DEF Init
  <1>6. TypeOK
    BY <1>3, <1>4, <1>5 DEF Init, TypeOK
  <1>7. Keys /\ Untouched /\ Start /\ End /\ Walk
    BY <1>1 DEF Init, Keys, Untouched, Start, End, Walk
  <1>8. Safe
    BY DEF Init, Safe, NothingTwice, NothingSkipped, PagesInOrder
  <1> QED
    BY <1>6, <1>7, <1>8 DEF Inv

LEMMA FirstPageInv ==
  ASSUME Inv, NEW o \in Orders, NEW n \in Takes, FirstPage(o, n)
  PROVE  Inv'
  <1>1. o \in Seq(Sort) /\ n \in Nat \ {0}
    BY OrdersAssumption, TakesAssumption
  <1>2. /\ TypeOK /\ Keys /\ Untouched
        /\ given = {} /\ page = {} /\ old = {} /\ moved = {}
    BY DEF Inv, Start, FirstPage
  <1>3. /\ movie' = movie /\ live' = live /\ fresh' = fresh
        /\ given' = {} /\ moved' = {} /\ old' = live
    BY <1>2 DEF FirstPage, table
  <1>4. Answer(live, o, n)
    BY DEF FirstPage
  <1>5. page' \subseteq live
    BY <1>1, <1>4, AnswerTo
  <1>6. CASE /\ page' = {} /\ live = {} /\ walk' = "over"
             /\ order' = order /\ cursor' = cursor
    <2>1. TypeOK'
      BY <1>2, <1>3, <1>6 DEF TypeOK
    <2>2. Keys' /\ Untouched'
      BY <1>2, <1>3, <1>6 DEF Keys, Untouched
    <2>3. Start' /\ End' /\ Walk'
      BY <1>6 DEF Start, End, Walk
    <2>4. Safe'
      BY <1>3, <1>6 DEF Safe, NothingTwice, NothingSkipped, PagesInOrder
    <2> QED
      BY <2>1, <2>2, <2>3, <2>4 DEF Inv
  <1>7. ASSUME walk' = "on", order' = o, NEW l \in page',
               cursor' = CursorValues(o, movie[l]),
               \A x \in page' : ~Precedes(o, movie[l], movie[x]),
               \A y \in live \ page' : ~Precedes(o, movie[y], movie[l])
        PROVE  Inv'
    <2>1. \A x \in live : x \in Ids /\ movie[x] \in Rows /\ movie[x]["id"] = x
      BY <1>2 DEF TypeOK, Keys
    <2>2. cursor' \in [SortColumns(o) -> Int]
      BY <1>1, <1>5, <1>7, <2>1, CursorType
    <2>3. TypeOK'
      <3>1. cursor' \in [SortColumns(order') -> Int]
        BY <1>7, <2>2
      <3> QED
        BY <1>1, <1>2, <1>3, <1>5, <1>7, <3>1 DEF TypeOK
    <2>4. Keys' /\ Untouched'
      BY <1>2, <1>3, <1>5 DEF Keys, Untouched
    <2>5. Behind(movie[l])'
      BY <1>3, <1>7 DEF Behind
    <2>6. Ahead(movie[l])'
      <3>1. ASSUME HasId(o), NEW x \in live, x \notin page'
            PROVE  Precedes(o, movie[l], movie[x])
        <4>1. movie[x]["id"] # movie[l]["id"]
          BY <1>5, <2>1, <3>1
        <4>2. ~Precedes(o, movie[x], movie[l])
          BY <1>7, <3>1
        <4> QED
          BY <1>1, <1>5, <2>1, <3>1, <4>1, <4>2, PrecedesIsTotal
      <3>2. HasId(order)' <=> HasId(o)
        BY <1>7 DEF HasId
      <3> QED
        BY <1>3, <1>7, <3>1, <3>2 DEF Ahead
    <2>7. Walk'
      <3>1. cursor' = CursorValues(order', movie[l])
        BY <1>7
      <3>2. \E last \in Rows : Place(last)'
        <4>1. Place(movie[l])'
          BY <1>3, <2>5, <2>6, <3>1 DEF Place
        <4> QED
          BY <1>3, <1>5, <2>1, <4>1
      <3> QED
        BY <3>2 DEF Walk
    <2>8. Start' /\ End'
      BY <1>7 DEF Start, End
    <2>9. Safe'
      BY <1>3, <1>7 DEF Safe, NothingTwice, NothingSkipped, PagesInOrder
    <2> QED
      BY <2>3, <2>4, <2>7, <2>8, <2>9 DEF Inv
  <1> QED
    BY <1>1, <1>4, <1>6, <1>7, AnswerTo

LEMMA NextPageInv ==
  ASSUME Inv, NEW o \in Orders, NEW n \in Takes, NextPage(o, n)
  PROVE  Inv'
  <1> DEFINE S == {x \in live : CursorWhere(order, cursor, movie[x])}
  <1>1. order \in Seq(Sort) /\ n \in Nat \ {0}
    BY TakesAssumption DEF Inv, TypeOK
  <1>2. TypeOK /\ Keys /\ Untouched /\ walk = "on"
    BY DEF Inv, NextPage
  <1>3. /\ movie' = movie /\ live' = live /\ fresh' = fresh
        /\ given' = given \cup page /\ moved' = moved /\ old' = old
    BY DEF NextPage, table
  <1>4. Answer(S, order, n)
    BY DEF NextPage, OrderUsed
  <1>5. PICK last \in Rows : Place(last)
    BY <1>2 DEF Inv, Walk
  <1>6. \A x \in Ids : movie[x] \in Rows /\ movie[x]["id"] = x
    BY <1>2 DEF TypeOK, Keys
  <1>7. live \subseteq Ids
    BY <1>2 DEF TypeOK
  <1>8. S \subseteq live /\ \A x \in live : x \in S <=> Precedes(order, last, movie[x])
    BY <1>1, <1>5, <1>6, <1>7, CursorWhereIsPrecedes DEF Place
  <1> HIDE DEF S
  <1>9. page' \subseteq S
    BY <1>1, <1>4, AnswerTo
  <1>10. page' \subseteq live /\ \A x \in page' : Precedes(order, last, movie[x])
    BY <1>8, <1>9
  <1>11. \A x \in (given \cup page) \ moved :
           x \in Ids /\ ~Precedes(order, last, movie[x])
    BY <1>2, <1>5 DEF Place, Behind, TypeOK
  <1>12. NothingTwice'
    BY <1>3, <1>10, <1>11 DEF NothingTwice
  <1>13. ASSUME NEW x \in (given \cup page) \ moved, NEW y \in page'
         PROVE  ~Precedes(order, movie[y], movie[x])
    <2>1. movie[x] \in Rows /\ movie[y] \in Rows
      BY <1>6, <1>7, <1>10, <1>11
    <2>2. Precedes(order, last, movie[y]) /\ ~Precedes(order, last, movie[x])
      BY <1>10, <1>11
    <2> QED
      BY <1>1, <2>1, <2>2, PrecedesIsTransitive
  <1>14. CASE /\ page' = {} /\ S = {} /\ walk' = "over"
              /\ order' = order /\ cursor' = cursor
    <2>1. TypeOK'
      BY <1>2, <1>3, <1>14 DEF TypeOK
    <2>2. Keys' /\ Untouched'
      BY <1>2, <1>3, <1>14 DEF Keys, Untouched
    <2>3. Start' /\ End' /\ Walk'
      BY <1>14 DEF Start, End, Walk
    <2>4. NothingSkipped'
      <3>1. ASSUME HasId(order), NEW x \in (old \cap live) \ moved
            PROVE  x \in given \cup page
        <4>1. ~Precedes(order, last, movie[x])
          BY <1>8, <1>14
        <4> QED
          BY <1>5, <3>1, <4>1 DEF Place, Ahead
      <3> QED
        BY <1>3, <1>14, <3>1 DEF NothingSkipped, HasId
    <2>5. PagesInOrder'
      BY <1>14 DEF PagesInOrder
    <2> QED
      BY <1>12, <2>1, <2>2, <2>3, <2>4, <2>5 DEF Inv, Safe
  <1>15. ASSUME walk' = "on", order' = order, NEW l \in page',
                cursor' = CursorValues(order, movie[l]),
                \A x \in page' : ~Precedes(order, movie[l], movie[x]),
                \A y \in S \ page' : ~Precedes(order, movie[y], movie[l])
         PROVE  Inv'
    <2>1. l \in Ids /\ movie[l] \in Rows
      BY <1>6, <1>7, <1>10
    <2>2. cursor' \in [SortColumns(order') -> Int]
      <3>1. CursorValues(order, movie[l]) \in [SortColumns(order) -> Int]
        BY <1>1, <2>1, CursorType
      <3> QED
        BY <1>15, <3>1
    <2>3. TypeOK'
      BY <1>2, <1>3, <1>10, <1>15, <2>2 DEF TypeOK
    <2>4. Keys' /\ Untouched'
      BY <1>2, <1>3, <1>10 DEF Keys, Untouched
    <2>5. Behind(movie[l])'
      <3>1. \A x \in (given \cup page) \ moved : ~Precedes(order, movie[l], movie[x])
        BY <1>13
      <3> QED
        BY <1>3, <1>15, <3>1 DEF Behind
    <2>6. Ahead(movie[l])'
      <3>1. ASSUME HasId(order), NEW x \in (old \cap live) \ moved,
                   x \notin given \cup page, x \notin page'
            PROVE  Precedes(order, movie[l], movie[x])
        <4>1. Precedes(order, last, movie[x])
          BY <1>5, <3>1 DEF Place, Ahead
        <4>2. x \in S /\ x \in Ids
          BY <1>7, <1>8, <4>1
        <4>3. ~Precedes(order, movie[x], movie[l])
          BY <1>15, <3>1, <4>2
        <4>4. movie[x] \in Rows /\ movie[x]["id"] # movie[l]["id"]
          BY <1>6, <2>1, <3>1, <4>2
        <4> QED
          BY <1>1, <2>1, <3>1, <4>3, <4>4, PrecedesIsTotal
      <3>2. HasId(order)' <=> HasId(order)
        BY <1>15 DEF HasId
      <3> QED
        BY <1>3, <1>15, <3>1, <3>2 DEF Ahead
    <2>7. Walk'
      <3>1. cursor' = CursorValues(order', movie[l])
        BY <1>15
      <3>2. Place(movie[l])'
        BY <1>3, <2>5, <2>6, <3>1 DEF Place
      <3> QED
        BY <1>3, <2>1, <3>2 DEF Walk
    <2>8. Start' /\ End'
      BY <1>15 DEF Start, End
    <2>9. NothingSkipped'
      BY <1>15 DEF NothingSkipped
    <2>10. PagesInOrder'
      BY <1>3, <1>13, <1>15 DEF PagesInOrder
    <2> QED
      BY <1>12, <2>3, <2>4, <2>7, <2>8, <2>9, <2>10 DEF Inv, Safe
  <1> QED
    BY <1>1, <1>4, <1>14, <1>15, AnswerTo

\* A movie that enters was in no answer and is not among the old.
LEMMA EnterInv ==
  ASSUME Inv, NEW x \in Ids, NEW row \in RowsOf(x), Enter(x, row)
  PROVE  Inv'
  <1>1. TypeOK /\ Keys /\ Untouched
    BY DEF Inv
  <1>2. /\ walk' = walk /\ order' = order /\ cursor' = cursor /\ page' = page
        /\ given' = given /\ old' = old /\ moved' = moved
        /\ live' = live \cup {x} /\ fresh' = fresh \ {x}
        /\ x \in fresh
    BY DEF Enter, client, history
  <1>3. row \in Rows /\ row["id"] = x
    BY RowOf
  <1>4. movie' \in [Ids -> Rows]
    BY <1>1, <1>3 DEF Enter, TypeOK
  <1>5. /\ movie'[x] = row
        /\ \A y \in Ids \ {x} : movie'[y] = movie[y]
    BY <1>1 DEF Enter, TypeOK
  <1>6. TypeOK'
    BY <1>1, <1>2, <1>4 DEF TypeOK
  <1>7. Keys' /\ Untouched'
    BY <1>1, <1>2, <1>3, <1>5 DEF Keys, Untouched
  <1>8. Start' /\ End'
    BY <1>2 DEF Inv, Start, End
  <1>9. \A y \in given \cup page \cup old : y \in Ids /\ y # x /\ movie'[y] = movie[y]
    BY <1>1, <1>2, <1>5 DEF Untouched, TypeOK
  <1>10. Walk'
    <2>1. ASSUME NEW last \in Rows, Place(last) PROVE Place(last)'
      <3>1. (cursor = CursorValues(order, last))'
        BY <1>2, <2>1 DEF Place
      <3>2. Behind(last)'
        BY <1>2, <1>9, <2>1 DEF Place, Behind
      <3>3. Ahead(last)'
        BY <1>2, <1>9, <2>1 DEF Place, Ahead, HasId
      <3> QED
        BY <3>1, <3>2, <3>3 DEF Place
    <2> QED
      BY <1>2, <2>1 DEF Inv, Walk
  <1>11. NothingTwice'
    BY <1>2 DEF Inv, Safe, NothingTwice
  <1>12. NothingSkipped'
    BY <1>2, <1>9 DEF Inv, Safe, NothingSkipped, HasId
  <1>13. PagesInOrder'
    BY <1>2, <1>9 DEF Inv, Safe, PagesInOrder
  <1> QED
    BY <1>6, <1>7, <1>8, <1>10, <1>11, <1>12, <1>13 DEF Inv, Safe

LEMMA LeaveInv ==
  ASSUME Inv, NEW x \in Ids, Leave(x)
  PROVE  Inv'
  <1>1. /\ walk' = walk /\ order' = order /\ cursor' = cursor /\ page' = page
        /\ given' = given /\ old' = old /\ moved' = moved
        /\ movie' = movie /\ fresh' = fresh /\ live' = live \ {x}
    BY DEF Leave, client, history
  <1>2. TypeOK'
    BY <1>1 DEF Inv, TypeOK
  <1>3. Keys' /\ Untouched' /\ Start' /\ End'
    BY <1>1 DEF Inv, Keys, Untouched, Start, End
  <1>4. Walk'
    <2>1. ASSUME NEW last \in Rows, Place(last) PROVE Place(last)'
      BY <1>1, <2>1 DEF Place, Behind, Ahead, HasId
    <2> QED
      BY <1>1, <2>1 DEF Inv, Walk
  <1>5. Safe'
    BY <1>1 DEF Inv, Safe, NothingTwice, NothingSkipped, PagesInOrder, HasId
  <1> QED
    BY <1>2, <1>3, <1>4, <1>5 DEF Inv

\* While there is a cursor, a movie that changes is one of those that moved.
LEMMA ChangeInv ==
  ASSUME Inv, NEW x \in Ids, NEW c \in Columns, NEW v \in Values, Change(x, c, v)
  PROVE  Inv'
  <1>1. TypeOK /\ Keys /\ Untouched /\ Start /\ End
    BY DEF Inv
  <1>2. /\ walk' = walk /\ order' = order /\ cursor' = cursor /\ page' = page
        /\ given' = given /\ old' = old /\ live' = live /\ fresh' = fresh
        /\ moved' = IF walk = "on" THEN moved \cup {x} ELSE moved
        /\ c # "id"
    BY DEF Change, client
  <1>3. v \in Int
    BY NumbersAssumption
  <1>4. movie'[x] = [movie[x] EXCEPT ![c] = v] /\ DOMAIN movie' = Ids
    BY <1>1 DEF Change, TypeOK
  <1>5. \A y \in Ids \ {x} : movie'[y] = movie[y]
    BY <1>1 DEF Change, TypeOK
  <1>6. movie'[x] \in Rows /\ movie'[x]["id"] = x
    <2>1. movie[x] \in Rows /\ movie[x]["id"] = x
      BY <1>1 DEF TypeOK, Keys
    <2>2. movie'[x] \in Rows
      BY <1>3, <1>4, <2>1 DEF Rows
    <2>3. movie'[x]["id"] = movie[x]["id"]
      BY <1>2, <1>4, <2>1, ColumnsAssumption DEF Rows
    <2> QED
      BY <2>1, <2>2, <2>3
  <1>7. movie' \in [Ids -> Rows]
    <2>1. movie' = [y \in Ids |-> movie'[y]]
      BY <1>1 DEF Change, TypeOK
    <2>2. \A y \in Ids : movie'[y] \in Rows
      BY <1>1, <1>5, <1>6 DEF TypeOK
    <2> QED
      BY <2>1, <2>2
  <1>8. TypeOK'
    BY <1>1, <1>2, <1>7 DEF TypeOK
  <1>9. Keys' /\ Untouched' /\ End'
    BY <1>1, <1>2, <1>5, <1>6 DEF Keys, Untouched, End
  <1>10. Start'
    BY <1>1, <1>2 DEF Start
  <1>11. Walk'
    <2>1. ASSUME walk = "on", NEW last \in Rows, Place(last) PROVE Place(last)'
      <3>1. \A y \in Ids \ moved' : y \notin moved /\ movie'[y] = movie[y]
        BY <1>2, <1>5, <2>1
      <3>2. given \cup page \subseteq Ids /\ old \cap live \subseteq Ids
        BY <1>1 DEF TypeOK
      <3>3. (cursor = CursorValues(order, last))'
        BY <1>2, <2>1 DEF Place
      <3>4. Behind(last)'
        BY <1>2, <2>1, <3>1, <3>2 DEF Place, Behind
      <3>5. Ahead(last)'
        BY <1>2, <2>1, <3>1, <3>2 DEF Place, Ahead, HasId
      <3> QED
        BY <3>3, <3>4, <3>5 DEF Place
    <2> QED
      BY <1>2, <2>1 DEF Inv, Walk
  <1>12. NothingTwice'
    BY <1>2 DEF Inv, Safe, NothingTwice
  <1>13. NothingSkipped'
    BY <1>2 DEF Inv, Safe, NothingSkipped, HasId
  <1>14. PagesInOrder'
    <2>1. CASE walk = "on"
      <3>1. \A y \in Ids \ moved' : y \notin moved /\ movie'[y] = movie[y]
        BY <1>2, <1>5, <2>1
      <3>2. given \subseteq Ids /\ page \subseteq Ids
        BY <1>1 DEF TypeOK
      <3> QED
        BY <1>2, <3>1, <3>2 DEF Inv, Safe, PagesInOrder
    <2>2. CASE walk # "on"
      <3>1. page = {}
        BY <1>1, <2>2 DEF Start, End, TypeOK
      <3> QED
        BY <1>2, <3>1 DEF PagesInOrder
    <2> QED
      BY <2>1, <2>2
  <1> QED
    BY <1>8, <1>9, <1>10, <1>11, <1>12, <1>13, <1>14 DEF Inv, Safe

LEMMA StutterInv ==
  ASSUME Inv, UNCHANGED vars
  PROVE  Inv'
  <1>1. /\ walk' = walk /\ order' = order /\ cursor' = cursor /\ page' = page
        /\ given' = given /\ old' = old /\ moved' = moved
        /\ movie' = movie /\ live' = live /\ fresh' = fresh
    BY DEF vars, table, client, history
  <1>2. (TypeOK /\ Keys /\ Untouched /\ Start /\ End)'
    BY <1>1 DEF Inv, TypeOK, Keys, Untouched, Start, End
  <1>3. Walk'
    BY <1>1 DEF Inv, Walk, Place, Behind, Ahead, HasId
  <1>4. Safe'
    BY <1>1 DEF Inv, Safe, NothingTwice, NothingSkipped, PagesInOrder, HasId
  <1> QED
    BY <1>2, <1>3, <1>4 DEF Inv

LEMMA InvHolds == Spec => []Inv
  <1>1. Inv /\ [Next]_vars => Inv'
    <2> SUFFICES ASSUME Inv, [Next]_vars PROVE Inv'
      OBVIOUS
    <2>1. ASSUME NEW o \in Orders, NEW n \in Takes, FirstPage(o, n) \/ NextPage(o, n)
          PROVE  Inv'
      BY <2>1, FirstPageInv, NextPageInv
    <2>2. ASSUME NEW x \in Ids,
                 \/ \E row \in RowsOf(x) : Enter(x, row)
                 \/ Leave(x)
                 \/ \E c \in Columns, v \in Values : Change(x, c, v)
          PROVE  Inv'
      BY <2>2, EnterInv, LeaveInv, ChangeInv
    <2> QED
      BY <2>1, <2>2, StutterInv DEF Next
  <1> QED
    BY InitInv, <1>1, PTL DEF Spec

-----------------------------------------------------------------------------
\* The cursor holds a value for each column of its order, and what is
\* answered are movies: every query of findAll is well formed.
THEOREM TypeCorrect == Spec => []TypeOK
  <1>1. Inv => TypeOK
    BY DEF Inv
  <1> QED
    BY InvHolds, <1>1, PTL

\* However many movies come, go and change between the pages, no page of
\* findAll answers a movie again that has not changed.
THEOREM NoMovieTwice == Spec => []NothingTwice
  <1>1. Inv => NothingTwice
    BY DEF Inv, Safe
  <1> QED
    BY InvHolds, <1>1, PTL

\* With the id in the order, a client that follows nextCursor to the end is
\* given every movie that was there from the first page on.
THEOREM NoMovieSkipped == Spec => []NothingSkipped
  <1>1. Inv => NothingSkipped
    BY DEF Inv, Safe
  <1> QED
    BY InvHolds, <1>1, PTL

\* The pages follow each other in the order the client asked for.
THEOREM PagesFollowOrder == Spec => []PagesInOrder
  <1>1. Inv => PagesInOrder
    BY DEF Inv, Safe
  <1> QED
    BY InvHolds, <1>1, PTL

\* Whatever the rows, buildPrismaCursorWhere selects what ORDER BY puts after
\* the row the cursor was made of.
THEOREM WhereFollowsOrder == Spec => []WhereIsOrder
  <1>1. ASSUME TypeOK PROVE WhereIsOrder
    <2>1. \A x \in Ids : movie[x] \in Rows
      BY <1>1 DEF TypeOK
    <2> QED
      BY <2>1, OrdersAssumption, CursorWhereIsPrecedes DEF WhereIsOrder
  <1> QED
    BY TypeCorrect, <1>1, PTL
-----------------------------------------------------------------------------
(* What a page may skip, for any order, the id in it or not.               *)

\* The movie is in the list and the next request selects it.
ToCome(x) ==
  /\ x \in live
  /\ \/ walk = "new"
     \/ walk = "on" /\ CursorWhere(order, cursor, movie[x])

\* It equals the row of the cursor in all that the order compares.
TiesWithCursor(x) ==
  walk = "on" /\ \A c \in SortColumns(order) : movie[x][c] = cursor[c]

SkipsTiesOnly ==
  \A x \in live \cap live' :
    ToCome(x) /\ movie'[x] = movie[x]
      => x \in page' \/ ToCome(x)' \/ TiesWithCursor(x)'

\* What a request has selected and not answered ties with the new cursor, or
\* the next request selects it.
LEMMA AnswerSkipsTiesOnly ==
  ASSUME Inv, NEW o \in Orders, NEW n \in Takes, FirstPage(o, n) \/ NextPage(o, n)
  PROVE  SkipsTiesOnly
  <1> SUFFICES ASSUME NEW x \in live, ToCome(x), x \notin page'
               PROVE  ToCome(x)' \/ TiesWithCursor(x)'
    BY DEF SkipsTiesOnly
  <1> DEFINE S == IF walk = "new" THEN live
                  ELSE {y \in live : CursorWhere(order, cursor, movie[y])}
             used == IF walk = "new" THEN o ELSE order
  <1>1. used \in Seq(Sort) /\ n \in Nat \ {0}
    BY OrdersAssumption, TakesAssumption DEF Inv, TypeOK
  <1>2. Answer(S, used, n)
    BY DEF FirstPage, NextPage, OrderUsed
  <1>3. movie' = movie /\ live' = live
    BY DEF FirstPage, NextPage, table
  <1>4. x \in S /\ S \subseteq live
    BY DEF ToCome
  <1>5. \A y \in live : movie[y] \in Rows
    BY DEF Inv, TypeOK
  <1> HIDE DEF S, used
  <1>6. walk' = "on" /\ order' = used
    BY <1>1, <1>2, <1>4, AnswerTo
  <1>7. PICK l \in page' :
          /\ cursor' = CursorValues(used, movie[l])
          /\ \A y \in S \ page' : ~Precedes(used, movie[y], movie[l])
    BY <1>1, <1>2, <1>4, AnswerTo
  <1>8. movie[l] \in Rows /\ movie[x] \in Rows
    <2>1. page' \subseteq S
      BY <1>1, <1>2, AnswerTo
    <2> QED
      BY <1>4, <1>5, <2>1
  <1>9. CASE Precedes(used, movie[l], movie[x])
    <2>1. CursorWhere(order', cursor', movie[x])
      BY <1>1, <1>6, <1>7, <1>8, <1>9, CursorWhereIsPrecedes
    <2> QED
      BY <1>3, <1>6, <2>1 DEF ToCome
  <1>10. CASE \A c \in SortColumns(used) : movie[l][c] = movie[x][c]
    <2>1. \A c \in SortColumns(order') : cursor'[c] = movie[x][c]
      BY <1>6, <1>7, <1>10 DEF CursorValues
    <2> QED
      BY <1>3, <1>6, <2>1 DEF TiesWithCursor
  <1> QED
    BY <1>1, <1>4, <1>7, <1>8, <1>9, <1>10, PrecedesOrTie

\* Whatever the order, a movie that findAll still has to come to and that stays
\* as it is gets answered, is still to come, or ties with the last movie of the
\* page in every column of the order: an order without the id skips these, and
\* no order skips any other.
THEOREM OnlyTiesAreSkipped == Spec => [][SkipsTiesOnly]_vars
  <1>1. ASSUME Inv, [Next]_vars
        PROVE  [SkipsTiesOnly]_vars
    <2>1. ASSUME NEW o \in Orders, NEW n \in Takes, FirstPage(o, n) \/ NextPage(o, n)
          PROVE  SkipsTiesOnly
      BY <1>1, <2>1, AnswerSkipsTiesOnly
    <2>2. ASSUME walk' = walk, order' = order, cursor' = cursor
          PROVE  SkipsTiesOnly
      BY <2>2 DEF SkipsTiesOnly, ToCome
    <2>3. ASSUME NEW x \in Ids,
                 \/ \E row \in RowsOf(x) : Enter(x, row)
                 \/ Leave(x)
                 \/ \E c \in Columns, v \in Values : Change(x, c, v)
          PROVE  SkipsTiesOnly
      BY <2>2, <2>3 DEF Enter, Leave, Change, client
    <2> QED
      BY <1>1, <2>1, <2>3 DEF Next
  <1> QED
    BY InvHolds, <1>1, PTL DEF Spec
=============================================================================
