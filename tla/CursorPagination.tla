--------------------------- MODULE CursorPagination ---------------------------
(***************************************************************************)
(* GET /movie page by page: MovieService.findAll with                      *)
(* CommonService.parseCursorPagination, buildPrismaCursorWhere and         *)
(* generateNextCursor.  A client asks for a first page in an order of its  *)
(* choice and then sends back each nextCursor until there is none.         *)
(* Meanwhile movies are created, removed and liked: every page is a query  *)
(* of its own, and all that is kept between two of them is the cursor.     *)
(*                                                                         *)
(* A movie is the row of its columns, numbers that stand for what they     *)
(* hold.  Only the movies that titleWhere selects are looked at.           *)
(***************************************************************************)
EXTENDS Integers, Sequences, FiniteSets

CONSTANTS Ids,      \* ids of movies
          Columns,  \* the columns of a movie, "id" among them
          Values,   \* what the other columns may hold
          Orders,   \* what a client may send as order: id_DESC, ...
          Takes     \* and as take

Sort == [column : Columns, direction : {"ASC", "DESC"}]

ASSUME ColumnsAssumption == "id" \in Columns
ASSUME NumbersAssumption == Ids \subseteq Int /\ Values \subseteq Int
ASSUME OrdersAssumption  == Orders \subseteq Seq(Sort)
ASSUME TakesAssumption   == Takes \subseteq Nat \ {0}

VARIABLES
  movie,   \* the row of each movie
  live,    \* movies that are in the list
  fresh,   \* movies that have not been in the list yet
  walk,    \* "new", "on" or "over": has the client a cursor?
  order,   \* cursorObj.order
  cursor,  \* cursorObj.values
  page,    \* the movies of the last answer
  given,   \* history: those of the answers before
  old,     \* history: the movies in the list when the walk began
  moved    \* history: movies whose columns have changed since then

table   == <<movie, live, fresh>>
client  == <<walk, order, cursor, page>>
history == <<given, old, moved>>
vars    == <<table, client, history>>

Rows == [Columns -> Int]

RowsOf(x) == {row \in [Columns -> Ids \cup Values] :
                \A c \in Columns : IF c = "id" THEN row[c] = x ELSE row[c] \in Values}

SortColumns(o) == {o[i].column : i \in DOMAIN o}

TypeOK ==
  /\ movie \in [Ids -> Rows]
  /\ live \subseteq Ids
  /\ fresh \subseteq Ids
  /\ walk \in {"new", "on", "over"}
  /\ order \in Seq(Sort)
  /\ cursor \in [SortColumns(order) -> Int]
  /\ page \subseteq Ids
  /\ given \subseteq Ids
  /\ old \subseteq Ids
  /\ moved \subseteq Ids

Init ==
  /\ live \in SUBSET Ids
  /\ fresh = Ids \ live
  /\ movie \in [Ids -> UNION {RowsOf(x) : x \in Ids}]
  /\ \A x \in Ids : movie[x] \in RowsOf(x)
  /\ walk = "new"
  /\ order = << >>
  /\ cursor = << >>
  /\ page = {}
  /\ given = {}
  /\ old = {}
  /\ moved = {}

-----------------------------------------------------------------------------
(* The order of the rows, as ORDER BY defines it: the first column in      *)
(* which two rows differ decides.                                          *)

Before(direction, v, w) == IF direction = "ASC" THEN v < w ELSE v > w

Differ(o, a, b) == {i \in DOMAIN o : a[o[i].column] # b[o[i].column]}

Precedes(o, a, b) ==
  \E i \in Differ(o, a, b) :
    /\ \A j \in Differ(o, a, b) : i <= j
    /\ Before(o[i].direction, a[o[i].column], b[o[i].column])

-----------------------------------------------------------------------------
(* The code.                                                               *)

\* Variant: "not before" in place of "after".
CursorWhere_Inclusive(o, values, row) ==
  \E i \in DOMAIN o :
    /\ \A j \in 1 .. (i - 1) : row[o[j].column] = values[o[j].column]
    /\ \/ Before(o[i].direction, values[o[i].column], row[o[i].column])
       \/ row[o[i].column] = values[o[i].column]

\* Variant: only the first column is compared.
CursorWhere_FirstColumn(o, values, row) ==
  o # << >> /\ Before(o[1].direction, values[o[1].column], row[o[1].column])

\* buildPrismaCursorWhere: an OR over the columns, each with the columns
\* before it equal to those of the cursor.
CursorWhere(o, values, row) ==
  \E i \in DOMAIN o :
    /\ \A j \in 1 .. (i - 1) : row[o[j].column] = values[o[j].column]
    /\ Before(o[i].direction, values[o[i].column], row[o[i].column])

\* Variant: the cursor holds the whole item.
CursorValues_Item(o, row) == row

\* The values that generateNextCursor takes from the last item.
CursorValues(o, row) == [c \in SortColumns(o) |-> row[c]]

\* findMany: take n of the rows in s, in the order o.  Rows that are equal in
\* all columns of the order come in any sequence.
FindMany(s, o, n, rows) ==
  /\ rows \subseteq s
  /\ IF Cardinality(s) <= n THEN rows = s ELSE Cardinality(rows) = n
  /\ \A x \in rows, y \in s \ rows : ~Precedes(o, movie[y], movie[x])

\* The answer to a request that selects s: its page, and the next cursor.
Answer(s, o, n) ==
  \E rows \in SUBSET s :
    /\ FindMany(s, o, n, rows)
    /\ page' = rows
    /\ \/ rows = {} /\ walk' = "over" /\ UNCHANGED <<order, cursor>>
       \/ /\ walk' = "on"
          /\ order' = o
          /\ \E last \in rows :
               /\ \A x \in rows : ~Precedes(o, movie[last], movie[x])
               /\ cursor' = CursorValues(o, movie[last])

FirstPage(o, n) ==
  /\ walk = "new"
  /\ Answer(live, o, n)
  /\ old' = live
  /\ UNCHANGED <<table, given, moved>>

\* Variant: the order the client sends wins over that of the cursor.
OrderUsed_Dto(o) == o

\* order = cursorObj.order, whatever the client sends with the cursor.
OrderUsed(o) == order

NextPage(o, n) ==
  /\ walk = "on"
  /\ Answer({x \in live : CursorWhere(order, cursor, movie[x])}, OrderUsed(o), n)
  /\ given' = given \cup page
  /\ UNCHANGED <<table, old, moved>>

-----------------------------------------------------------------------------
(* What happens to the movies between two pages.                           *)

\* A movie is created, or updated to a title that is looked for.
Enter(x, row) ==
  /\ x \in fresh
  /\ fresh' = fresh \ {x}
  /\ live' = live \cup {x}
  /\ movie' = [movie EXCEPT ![x] = row]
  /\ UNCHANGED <<client, history>>

\* It is removed, or updated to another title.
Leave(x) ==
  /\ x \in live
  /\ live' = live \ {x}
  /\ UNCHANGED <<movie, fresh, client, history>>

\* A column changes: a vote is counted, a title updated.
Change(x, c, v) ==
  /\ x \in live
  /\ c # "id"
  /\ movie[x][c] # v
  /\ movie' = [movie EXCEPT ![x][c] = v]
  /\ moved' = IF walk = "on" THEN moved \cup {x} ELSE moved
  /\ UNCHANGED <<live, fresh, client, given, old>>

Next ==
  \/ \E o \in Orders, n \in Takes : FirstPage(o, n) \/ NextPage(o, n)
  \/ \E x \in Ids : \/ \E row \in RowsOf(x) : Enter(x, row)
                     \/ Leave(x)
                     \/ \E c \in Columns, v \in Values : Change(x, c, v)

Spec == Init /\ [][Next]_vars

-----------------------------------------------------------------------------
(* What is meant to hold.                                                  *)

\* The order ends every tie.
HasId(o) == "id" \in SortColumns(o)

\* buildPrismaCursorWhere selects what ORDER BY puts after the cursor.
WhereIsOrder ==
  \A o \in Orders, x, y \in Ids :
    CursorWhere(o, CursorValues(o, movie[x]), movie[y])
      <=> Precedes(o, movie[x], movie[y])

\* No movie is answered on two pages of a walk, whatever is created, removed
\* or liked in between and whatever the order, unless its own columns change.
NothingTwice == page \cap given \subseteq moved

\* When the walk is over it has answered every movie that was in the list all
\* the time and has not changed, if the order has the id in it.
NothingSkipped ==
  walk = "over" /\ HasId(order) =>
    (old \cap live) \ moved \subseteq given \cup page

\* Nothing on a page comes before what was answered on the pages before.
PagesInOrder ==
  \A x \in given \ moved, y \in page \ moved :
    ~Precedes(order, movie[y], movie[x])
=============================================================================
