-------------------------- MODULE MovieCatalogProofs --------------------------
(***************************************************************************)
(* Proofs about MovieCatalog, for any catalogue and any number of requests.*)
(***************************************************************************)
EXTENDS MovieCatalog, TLAPS

USE NoneAssumption

(***************************************************************************)
(* Types.                                                                  *)
(***************************************************************************)
\* The statements that come when everything is written.
Closing == {"answer", "relations", "commit"}

USE DEF Closing

LEMMA TypeInit == Init => TypeOK
BY DEF Init, TypeOK, Dtos, Nothing, Drafts, Clean, Rows, Blank, Statements

\* The three ways a request goes on.
LEMMA FailsType ==
  ASSUME TypeOK, NEW r \in Requests, Fails(r)
  PROVE  TypeOK'
BY DEF TypeOK, Fails, Goto, tables, others, Dtos, Nothing, Drafts, Clean,
       Rows, Blank, Statements

LEMMA ReadsType ==
  ASSUME TypeOK, NEW r \in Requests, NEW next \in Statements, Reads(r, next)
  PROVE  TypeOK'
BY DEF TypeOK, Reads, Goto, tables, others

LEMMA WritesType ==
  ASSUME TypeOK, NEW r \in Requests, NEW next \in Statements,
         NEW d \in Drafts, Writes(r, d, next)
  PROVE  TypeOK'
BY DEF TypeOK, Writes, Goto, tables, others

\* A row with a draft applied is a row.
LEMMA AppliedType ==
  ASSUME NEW row \in Rows, NEW d \in Drafts
  PROVE  Applied(row, d) \in Rows
BY DEF Applied, Given, Rows, Drafts

LEMMA SeenType ==
  ASSUME TypeOK, NEW r \in Requests
  PROVE  Seen(r) \in Rows
BY AppliedType DEF TypeOK, Dtos, Seen

LEMMA TypeNext == TypeOK /\ [Next]_vars => TypeOK'
<1> SUFFICES ASSUME TypeOK, [Next]_vars PROVE TypeOK'
  OBVIOUS
<1>1. ASSUME NEW r \in Requests, RequestNext(r) PROVE TypeOK'
  <2>0. /\ dto[r] \in Dtos /\ dto[r].movie \in Movies
        /\ dto[r].title \in Titles \cup {None}
        /\ dto[r].director \in Directors \cup {None}
        /\ dto[r].genres \subseteq Genres
        /\ draft[r] \in Drafts /\ movie[dto[r].movie] \in Rows
        /\ current[r] \subseteq Genres
    BY DEF TypeOK, Dtos
  <2>1. ASSUME NEW d \in Dtos, Begin(r, d) PROVE TypeOK'
    BY <2>1 DEF TypeOK, Begin, Goto, Statements, Dtos
  <2>2. CASE FindMovie(r)
    <3>1. CASE Fails(r)
      BY <3>1, FailsType
    <3>2. CASE Exists(dto[r].movie)
      <4>1. movie[dto[r].movie].genres \subseteq Genres
        BY <2>0 DEF Rows
      <4> QED
        BY <2>2, <3>2, <4>1 DEF TypeOK, FindMovie, GenresOf, Goto, tables, others, Statements
    <3> QED  BY <2>2, <3>1, <3>2 DEF FindMovie, GenresOf
  <2>3. CASE FindTitle(r)
    BY <2>3, FailsType, ReadsType DEF FindTitle, AfterTitle, Statements
  <2>4. CASE Retitle(r)
    <3>1. [draft[r] EXCEPT !.title = dto[r].title] \in Drafts
      BY <2>0 DEF Drafts
    <3> QED  BY <2>4, <3>1, FailsType, WritesType DEF Retitle, Statements
  <2>5. CASE FindDirector(r)
    BY <2>5, FailsType, ReadsType DEF FindDirector, Statements
  <2>6. CASE Redirect(r)
    <3>1. [draft[r] EXCEPT !.director = dto[r].director] \in Drafts
      BY <2>0 DEF Drafts
    <3> QED  BY <2>6, <3>1, FailsType, WritesType DEF Redirect, Statements
  <2>7. CASE UpdateDetail(r)
    BY <2>7, FailsType, ReadsType DEF UpdateDetail, Statements
  <2>8. CASE FindGenres(r)
    BY <2>8, FailsType, ReadsType DEF FindGenres, Statements
  <2>9. CASE InsertMovie(r)
    <3>1. [draft[r] EXCEPT !.title = dto[r].title, !.director = dto[r].director]
            \in Drafts
      BY <2>0 DEF Drafts
    <3> QED  BY <2>9, <3>1, FailsType, WritesType DEF InsertMovie, Statements
  <2>10. CASE CutGenres(r)
    <3> DEFINE cut == GenreIdsToRemove(r) \cap movie[dto[r].movie].genres
    <3>1. [draft[r] EXCEPT !.cut = cut] \in Drafts
      BY <2>0 DEF Drafts, GenreIdsToRemove
    <3>2. Writes(r, [draft[r] EXCEPT !.cut = cut], "add")
      BY <2>10 DEF CutGenres
    <3> QED  BY <3>1, <3>2, WritesType DEF Statements
  <2>11. CASE AddGenres(r)
    <3>1. [draft[r] EXCEPT !.add = GenreIdsToAdd(r)] \in Drafts
      BY <2>0 DEF Drafts, GenreIdsToAdd
    <3> QED  BY <2>11, <3>1, FailsType, WritesType DEF AddGenres, Statements
  <2>12. CASE AnswerRow(r)
    <3>1. [Seen(r) EXCEPT !.genres = {}] \in Rows
      BY SeenType DEF Rows
    <3> QED  BY <2>12, <3>1 DEF TypeOK, AnswerRow, Goto, tables, others, Statements
  <2>13. CASE AnswerGenres(r)
    <3>1. Seen(r).genres \subseteq Genres /\ view[r] \in Rows
      BY SeenType DEF TypeOK, Rows
    <3>2. [view[r] EXCEPT !.genres = Seen(r).genres] \in Rows
      BY <3>1 DEF Rows
    <3> QED  BY <2>13, <3>2 DEF TypeOK, AnswerGenres, Goto, tables, others, Statements
  <2>14. CASE Commit(r)
    <3>1. Seen(r) \in Rows /\ Blank \in Rows /\ Clean \in Drafts
      BY SeenType DEF Blank, Rows, Clean, Drafts
    <3> QED  BY <2>14, <3>1 DEF TypeOK, Commit, Goto, others
  <2>15. CASE Abort(r)
    BY <2>15, FailsType DEF Abort
  <2> QED
    BY <1>1, <2>1, <2>2, <2>3, <2>4, <2>5, <2>6, <2>7, <2>8, <2>9, <2>10,
       <2>11, <2>12, <2>13, <2>14, <2>15 DEF RequestNext
<1>2. CASE RemoveNext
  <2>1. ASSUME NEW m \in Movies, RemoveMovie(m) PROVE TypeOK'
    BY <2>1 DEF TypeOK, RemoveMovie, requests, others, Rows, Blank
  <2>2. ASSUME NEW g \in Genres, FindDoomedGenre(g) \/ RemoveGenre(g)
        PROVE  TypeOK'
    BY <2>2 DEF TypeOK, FindDoomedGenre, RemoveGenre, InUse, tables, requests
  <2>3. ASSUME NEW d \in Directors, RemoveDirector(d) PROVE TypeOK'
    BY <2>3 DEF TypeOK, RemoveDirector, requests, others
  <2> QED  BY <1>2, <2>1, <2>2, <2>3 DEF RemoveNext
<1>3. CASE UNCHANGED vars
  BY <1>3 DEF TypeOK, vars, tables, requests, others
<1> QED  BY <1>1, <1>2, <1>3 DEF Next

\* Every behaviour keeps every variable in its type.
THEOREM TypeCorrect == Spec => []TypeOK
BY TypeInit, TypeNext, PTL DEF Spec

(***************************************************************************)
(* Titles and references.  Consistent is about committed rows; it is       *)
(* inductive only with what the drafts promise: a request that may still   *)
(* commit has referred to rows that are there and kept there, and its      *)
(* title is nobody's, committed or drafted.                                *)
(***************************************************************************)

\* Ids without a movie have no genres left.
NoLeftovers == \A m \in Movies : ~Exists(m) => movie[m].genres = {}

RowsSound == NoLeftovers /\ Consistent

\* Where the requests to create are, and what they have written by then.
StepsSound ==
  \A r \in Requests :
    /\ dto[r].op = "create" => dto[r].title # None /\ dto[r].director # None
    /\ pc[r] = "insert" => dto[r].op = "create"
    /\ pc[r] \in {"retitle", "redirect", "detail", "cut"} => dto[r].op = "update"
    /\ pc[r] \in {"add"} \cup Closing /\ dto[r].op = "create" =>
         draft[r].title # None /\ draft[r].director # None
    /\ pc[r] \notin Statements => draft[r] = Clean

\* A drafted title is on no other movie and in no other draft.
TitlesSound ==
  \A r \in Requests : draft[r].title # None =>
    /\ \A m \in Movies \ {dto[r].movie} : movie[m].title # draft[r].title
    /\ \A q \in Requests \ {r} : draft[q].title # draft[r].title

\* What a draft refers to is there.
RefsSound ==
  \A r \in Requests :
    /\ draft[r].director # None => draft[r].director \in directors
    /\ draft[r].add \subseteq genres

\* Whoever has written something has a movie, or is about to create one.
Founded(r) ==
  \/ draft[r] = Clean
  \/ Exists(dto[r].movie)
  \/ draft[r].title # None /\ draft[r].director # None

DraftsFounded == \A r \in Requests : Founded(r)

CatalogInv == RowsSound /\ StepsSound /\ TitlesSound /\ RefsSound /\ DraftsFounded

LEMMA CatalogInit == Init => CatalogInv
<1> SUFFICES ASSUME Init PROVE CatalogInv
  OBVIOUS
<1>1. RowsSound
  BY DEF Init, RowsSound, NoLeftovers, Exists, Blank
<1>2. StepsSound
  BY DEF Init, StepsSound, Nothing
<1>3. TitlesSound /\ RefsSound /\ DraftsFounded
  BY DEF Init, TitlesSound, RefsSound, DraftsFounded, Founded, Clean
<1> QED  BY <1>1, <1>2, <1>3 DEF CatalogInv

\* A request that fails takes its draft with it.
LEMMA FailsKeeps ==
  ASSUME TypeOK, CatalogInv, NEW r \in Requests, Fails(r)
  PROVE  CatalogInv'
<1>1. /\ UNCHANGED <<movie, directors, genres>>
      /\ \A q \in Requests \ {r} : /\ draft'[q] = draft[q]
                                   /\ dto'[q] = dto[q]
                                   /\ pc'[q] = pc[q]
      /\ draft'[r] = Clean
      /\ dto'[r] = Nothing(dto[r].movie)
      /\ pc'[r] = "failed"
  BY DEF TypeOK, Fails, Goto, tables
<1>2. RowsSound'
  BY <1>1 DEF CatalogInv, RowsSound, NoLeftovers, Consistent, Exists
<1>3. /\ dto'[r].op = "update" /\ dto'[r].movie = dto[r].movie
      /\ draft'[r].title = None /\ draft'[r].director = None /\ draft'[r].add = {}
      /\ pc'[r] \notin Statements
  BY <1>1 DEF Nothing, Clean, Statements
<1>4. StepsSound'
  <2> SUFFICES ASSUME NEW q \in Requests PROVE StepsSound!(q)'
    BY DEF StepsSound
  <2>1. CASE q = r
    BY <1>1, <1>3, <2>1 DEF Statements
  <2>2. CASE q # r
    BY <1>1, <2>2 DEF CatalogInv, StepsSound
  <2> QED  BY <2>1, <2>2
<1>5. TitlesSound'
  BY <1>1, <1>3 DEF CatalogInv, TitlesSound
<1>6. RefsSound'
  BY <1>1, <1>3 DEF CatalogInv, RefsSound
<1>7. DraftsFounded'
  BY <1>1 DEF CatalogInv, DraftsFounded, Founded, Exists
<1> QED  BY <1>2, <1>4, <1>5, <1>6, <1>7 DEF CatalogInv

\* A read changes nothing but the place of the request.
LEMMA ReadsKeeps ==
  ASSUME TypeOK, CatalogInv, NEW r \in Requests, NEW next \in Statements,
         Reads(r, next),
         next = "insert" => dto[r].op = "create",
         next \in {"retitle", "redirect", "detail", "cut"} \cup Closing =>
           dto[r].op = "update",
         next # "add"
  PROVE  CatalogInv'
<1>1. /\ UNCHANGED <<movie, directors, genres, draft, dto>>
      /\ \A q \in Requests \ {r} : pc'[q] = pc[q]
      /\ pc'[r] = next
  BY DEF TypeOK, Reads, Goto, tables
<1>2. RowsSound'
  BY <1>1 DEF CatalogInv, RowsSound, NoLeftovers, Consistent, Exists
<1>3. StepsSound'
  BY <1>1 DEF CatalogInv, StepsSound
<1>4. TitlesSound' /\ RefsSound' /\ DraftsFounded'
  BY <1>1 DEF CatalogInv, TitlesSound, RefsSound, DraftsFounded, Founded, Exists
<1> QED  BY <1>2, <1>3, <1>4 DEF CatalogInv

\* The closing look-up comes when everything is written.
LEMMA LooksKeeps ==
  ASSUME TypeOK, CatalogInv, NEW r \in Requests, AnswerRow(r) \/ AnswerGenres(r)
  PROVE  CatalogInv'
<1>1. /\ UNCHANGED <<movie, directors, genres, draft, dto>>
      /\ \A q \in Requests \ {r} : pc'[q] = pc[q]
      /\ pc[r] \in {"answer", "relations"} /\ pc'[r] \in {"relations", "commit"}
  BY DEF TypeOK, AnswerRow, AnswerGenres, Goto, tables
<1>2. RowsSound'
  BY <1>1 DEF CatalogInv, RowsSound, NoLeftovers, Consistent, Exists
<1>3. StepsSound'
  BY <1>1 DEF CatalogInv, StepsSound, Statements
<1>4. TitlesSound' /\ RefsSound' /\ DraftsFounded'
  BY <1>1 DEF CatalogInv, TitlesSound, RefsSound, DraftsFounded, Founded, Exists
<1> QED  BY <1>2, <1>3, <1>4 DEF CatalogInv

\* A write keeps the invariant when what it writes is sound.
LEMMA WritesKeeps ==
  ASSUME TypeOK, CatalogInv, NEW r \in Requests, NEW next \in Statements,
         NEW d \in Drafts, Writes(r, d, next),
         next \in {"retitle", "redirect", "detail", "cut"} => dto[r].op = "update",
         next # "insert",
         next \in {"add"} \cup Closing /\ dto[r].op = "create" =>
           d.title # None /\ d.director # None,
         d.title # None =>
           /\ \A m \in Movies \ {dto[r].movie} : movie[m].title # d.title
           /\ \A q \in Requests \ {r} : draft[q].title # d.title,
         d.director # None => d.director \in directors,
         d.add \subseteq genres,
         \/ d = Clean
         \/ Exists(dto[r].movie)
         \/ d.title # None /\ d.director # None
  PROVE  CatalogInv'
<1>1. /\ UNCHANGED <<movie, directors, genres, dto>>
      /\ \A q \in Requests \ {r} : draft'[q] = draft[q] /\ pc'[q] = pc[q]
      /\ draft'[r] = d
      /\ pc'[r] = next
  BY DEF TypeOK, Writes, Goto, tables
<1>2. RowsSound'
  BY <1>1 DEF CatalogInv, RowsSound, NoLeftovers, Consistent, Exists
<1>3. StepsSound'
  BY <1>1 DEF CatalogInv, StepsSound
<1>4. TitlesSound'
  BY <1>1 DEF CatalogInv, TitlesSound
<1>5. RefsSound' /\ DraftsFounded'
  BY <1>1 DEF CatalogInv, RefsSound, DraftsFounded, Founded, Exists
<1> QED  BY <1>2, <1>3, <1>4, <1>5 DEF CatalogInv

\* COMMIT: the draft becomes the row.
LEMMA CommitKeeps ==
  ASSUME TypeOK, CatalogInv, NEW r \in Requests, Commit(r)
  PROVE  CatalogInv'
<1> DEFINE m   == dto[r].movie
           d   == draft[r]
           row == movie'[m]
<1>1. /\ UNCHANGED <<directors, genres, dto>>
      /\ m \in Movies
      /\ \A n \in Movies \ {m} : movie'[n] = movie[n]
      /\ row = Applied(movie[m], d)
      /\ \A q \in Requests \ {r} : draft'[q] = draft[q] /\ pc'[q] = pc[q]
      /\ draft'[r] = Clean
      /\ pc'[r] = "done"
  BY DEF TypeOK, Commit, Seen, Goto, Dtos
<1>2. /\ row.title = Given(d.title, movie[m].title)
      /\ row.director = Given(d.director, movie[m].director)
      /\ row.genres = (movie[m].genres \ d.cut) \cup d.add
  BY <1>1 DEF Applied
<1>3. /\ d = Clean \/ Exists(m) \/ (d.title # None /\ d.director # None)
      /\ d = Clean => d.title = None /\ d.director = None /\ d.add = {}
      /\ d.director # None => d.director \in directors
      /\ d.add \subseteq genres
      /\ d.title # None =>
           /\ \A n \in Movies \ {m} : movie[n].title # d.title
           /\ \A q \in Requests \ {r} : draft[q].title # d.title
  <2>1. d = Clean \/ Exists(m) \/ (d.title # None /\ d.director # None)
    BY DEF CatalogInv, DraftsFounded, Founded
  <2>2. d = Clean => d.title = None /\ d.director = None /\ d.add = {}
    BY DEF Clean
  <2>3. /\ d.director # None => d.director \in directors
        /\ d.add \subseteq genres
    BY DEF CatalogInv, RefsSound
  <2>4. d.title # None =>
          /\ \A n \in Movies \ {m} : movie[n].title # d.title
          /\ \A q \in Requests \ {r} : draft[q].title # d.title
    BY DEF CatalogInv, TitlesSound
  <2> QED  BY <2>1, <2>2, <2>3, <2>4
<1>4. movie[m].genres \subseteq genres
  BY <1>1 DEF CatalogInv, RowsSound, NoLeftovers, Consistent
<1>5. /\ row.title # None => row.director \in directors
      /\ row.genres \subseteq genres
      /\ row.title = None => row.genres = {}
      /\ Exists(m) => row.title # None
  BY <1>1, <1>2, <1>3, <1>4
     DEF Given, CatalogInv, RowsSound, NoLeftovers, Consistent, Exists
<1>6. \A n \in Movies \ {m} : row.title # None => movie[n].title # row.title
  BY <1>1, <1>2, <1>3 DEF Given, CatalogInv, RowsSound, Consistent, Exists
<1> HIDE DEF row, d
<1>7. RowsSound'
  <2>1. NoLeftovers'
    BY <1>1, <1>5 DEF CatalogInv, RowsSound, NoLeftovers, Exists, row
  <2>2. ASSUME NEW n \in Movies, NEW k \in Movies, Exists(n)',
               movie'[n].title = movie'[k].title
        PROVE  n = k
    BY <1>1, <1>6, <2>2 DEF CatalogInv, RowsSound, Consistent, Exists, row
  <2>3. ASSUME NEW n \in Movies, Exists(n)'
        PROVE  movie'[n].director \in directors /\ movie'[n].genres \subseteq genres
    BY <1>1, <1>5, <2>3 DEF CatalogInv, RowsSound, Consistent, Exists, row
  <2> QED  BY <1>1, <2>1, <2>2, <2>3 DEF RowsSound, Consistent
<1>8. StepsSound'
  BY <1>1 DEF CatalogInv, StepsSound, Statements
<1>9. TitlesSound'
  <2> SUFFICES ASSUME NEW q \in Requests, draft'[q].title # None
               PROVE  TitlesSound!(q)!2'
    BY DEF TitlesSound
  <2>1. q # r
    BY <1>1 DEF Clean
  <2>2. draft'[q] = draft[q] /\ dto'[q] = dto[q] /\ draft[q].title # None
    BY <1>1, <2>1
  <2>3. /\ \A n \in Movies \ {dto[q].movie} : movie[n].title # draft[q].title
        /\ \A k \in Requests \ {q} : draft[k].title # draft[q].title
    BY <2>2 DEF CatalogInv, TitlesSound
  <2>4. \A k \in Requests \ {q} : draft'[k].title # draft'[q].title
    BY <1>1, <2>2, <2>3 DEF Clean
  <2>5. m # dto[q].movie => row.title # draft[q].title
    BY <1>1, <1>2, <2>1, <2>2, <2>3 DEF Given, d
  <2>6. \A n \in Movies \ {dto'[q].movie} : movie'[n].title # draft'[q].title
    BY <1>1, <2>2, <2>3, <2>5 DEF row
  <2> QED  BY <2>4, <2>6
<1>10. RefsSound'
  BY <1>1 DEF CatalogInv, RefsSound, Clean
<1>11. DraftsFounded'
  <2> SUFFICES ASSUME NEW q \in Requests PROVE Founded(q)'
    BY DEF DraftsFounded
  <2>1. CASE q = r
    BY <1>1, <2>1 DEF Founded
  <2>2. CASE q # r
    <3>1. Founded(q) /\ draft'[q] = draft[q] /\ dto'[q] = dto[q]
      BY <1>1, <2>2 DEF CatalogInv, DraftsFounded
    <3>2. dto[q].movie \in Movies
      BY DEF TypeOK, Dtos
    <3>3. Exists(dto[q].movie) => movie'[dto[q].movie].title # None
      BY <1>1, <1>5, <3>2 DEF Exists, row
    <3> QED  BY <3>1, <3>3 DEF Founded, Exists
  <2> QED  BY <2>1, <2>2
<1> QED  BY <1>7, <1>8, <1>9, <1>10, <1>11 DEF CatalogInv

LEMMA CatalogNext == TypeOK /\ CatalogInv /\ [Next]_vars => CatalogInv'
<1> SUFFICES ASSUME TypeOK, CatalogInv, [Next]_vars PROVE CatalogInv'
  OBVIOUS
<1>1. ASSUME NEW r \in Requests, RequestNext(r) PROVE CatalogInv'
  <2> DEFINE m == dto[r].movie
  <2>0. /\ m \in Movies
        /\ dto[r].title \in Titles \cup {None}
        /\ dto[r].director \in Directors \cup {None}
        /\ dto[r].genres \subseteq Genres
        /\ dto[r].op \in {"create", "update"}
        /\ current[r] \subseteq Genres
        /\ draft[r] \in Drafts
        /\ movie[m].genres \subseteq Genres
    BY DEF TypeOK, Dtos, Rows
  <2> DEFINE d == draft[r]
  <2>00. /\ d.director # None => d.director \in directors
         /\ d.add \subseteq genres
         /\ d.title # None =>
              /\ \A n \in Movies \ {m} : movie[n].title # d.title
              /\ \A q \in Requests \ {r} : draft[q].title # d.title
         /\ d = Clean \/ Exists(m) \/ (d.title # None /\ d.director # None)
    BY DEF CatalogInv, TitlesSound, RefsSound, DraftsFounded, Founded
  <2>01. StepsSound!(r)
    BY DEF CatalogInv, StepsSound
  <2> HIDE DEF d
  <2>1. ASSUME NEW e \in Dtos, Begin(r, e) PROVE CatalogInv'
    <3>1. /\ UNCHANGED <<movie, directors, genres, draft>>
          /\ \A q \in Requests \ {r} : dto'[q] = dto[q] /\ pc'[q] = pc[q]
          /\ dto'[r] = e
          /\ e.op = "create" => e.title # None /\ e.director # None
          /\ pc[r] = "new"
          /\ pc'[r] \in {"title", "find"}
      BY <2>1 DEF TypeOK, Begin, Goto
    <3>2. draft[r] = Clean
      BY <2>01, <3>1 DEF Statements
    <3>3. RowsSound' /\ RefsSound'
      BY <3>1 DEF CatalogInv, RowsSound, NoLeftovers, Consistent, Exists, RefsSound
    <3>4. StepsSound'
      BY <3>1 DEF CatalogInv, StepsSound, Statements
    <3>5. TitlesSound'
      BY <3>1, <3>2 DEF CatalogInv, TitlesSound, Clean
    <3>6. ASSUME NEW q \in Requests PROVE Founded(q)'
      <4>1. CASE q = r
        BY <3>1, <3>2, <4>1 DEF Founded
      <4>2. CASE q # r
        BY <3>1, <4>2 DEF CatalogInv, DraftsFounded, Founded, Exists
      <4> QED  BY <4>1, <4>2
    <3>7. DraftsFounded'
      BY <3>6 DEF DraftsFounded
    <3> QED  BY <3>3, <3>4, <3>5, <3>7 DEF CatalogInv
  <2>2. CASE FindMovie(r)
    <3>1. CASE Fails(r)
      BY <3>1, FailsKeeps
    <3>2. CASE ~Fails(r)
      <4>1. /\ UNCHANGED <<movie, directors, genres, draft, dto>>
            /\ \A q \in Requests \ {r} : pc'[q] = pc[q]
            /\ pc'[r] = "title"
        BY <2>2, <3>2 DEF TypeOK, FindMovie, GenresOf, Goto, tables
      <4>2. RowsSound' /\ RefsSound' /\ TitlesSound' /\ DraftsFounded'
        BY <4>1 DEF CatalogInv, RowsSound, NoLeftovers, Consistent, Exists,
                    RefsSound, TitlesSound, DraftsFounded, Founded
      <4>3. StepsSound'
        BY <4>1 DEF CatalogInv, StepsSound, Statements
      <4> QED  BY <4>2, <4>3 DEF CatalogInv
    <3> QED  BY <3>1, <3>2
  <2>3. CASE FindTitle(r)
    BY <2>0, <2>3, FailsKeeps, ReadsKeeps DEF FindTitle, AfterTitle, Statements
  <2>4. CASE Retitle(r)
    <3>1. CASE Fails(r)
      BY <3>1, FailsKeeps
    <3>2. CASE ~Fails(r)
      <4> DEFINE e == [d EXCEPT !.title = dto[r].title]
      <4>1. /\ e \in Drafts /\ e.title = dto[r].title
            /\ e.director = d.director /\ e.add = d.add
        BY <2>0 DEF Drafts, d
      <4>2. Writes(r, e, "director") /\ Exists(m) /\ ~Taken(r) /\ TitleFree(r)
        BY <2>4, <3>2 DEF Retitle, d
      <4> HIDE DEF e
      <4> QED
        BY <2>00, <4>1, <4>2, WritesKeeps DEF Taken, TitleFree, Statements
    <3> QED  BY <3>1, <3>2
  <2>5. CASE FindDirector(r)
    BY <2>0, <2>5, FailsKeeps, ReadsKeeps DEF FindDirector, Statements
  <2>6. CASE Redirect(r)
    <3>1. CASE Fails(r)
      BY <3>1, FailsKeeps
    <3>2. CASE ~Fails(r)
      <4> DEFINE e == [d EXCEPT !.director = dto[r].director]
      <4>1. /\ e \in Drafts /\ e.title = d.title
            /\ e.director = dto[r].director /\ e.add = d.add
        BY <2>0 DEF Drafts, d
      <4>2. /\ Writes(r, e, "detail") /\ Exists(m)
            /\ dto[r].director \in directors
            /\ dto[r].op = "update"
        BY <2>01, <2>6, <3>2 DEF Redirect, d
      <4> HIDE DEF e
      <4> QED  BY <2>00, <4>1, <4>2, WritesKeeps DEF Statements
    <3> QED  BY <3>1, <3>2
  <2>7. CASE UpdateDetail(r)
    BY <2>0, <2>01, <2>7, FailsKeeps, ReadsKeeps DEF UpdateDetail, Statements
  <2>8. CASE FindGenres(r)
    BY <2>0, <2>8, FailsKeeps, ReadsKeeps DEF FindGenres, Statements
  <2>9. CASE InsertMovie(r)
    <3>1. CASE Fails(r)
      BY <3>1, FailsKeeps
    <3>2. CASE ~Fails(r)
      <4> DEFINE e == [d EXCEPT !.title = dto[r].title, !.director = dto[r].director]
      <4>1. /\ e \in Drafts /\ e.title = dto[r].title
            /\ e.director = dto[r].director /\ e.add = d.add
        BY <2>0 DEF Drafts, d
      <4>2. /\ Writes(r, e, "add") /\ ~Taken(r) /\ TitleFree(r)
            /\ dto[r].director \in directors
            /\ dto[r].title # None /\ dto[r].director # None
        BY <2>01, <2>9, <3>2 DEF InsertMovie, d
      <4> HIDE DEF e
      <4> QED
        BY <2>00, <4>1, <4>2, WritesKeeps DEF Taken, TitleFree, Statements
    <3> QED  BY <3>1, <3>2
  <2>10. CASE CutGenres(r)
    <3> DEFINE cut == GenreIdsToRemove(r) \cap movie[m].genres
               e   == [d EXCEPT !.cut = cut]
    <3>1. /\ e \in Drafts /\ e.title = d.title
          /\ e.director = d.director /\ e.add = d.add
      BY <2>0 DEF Drafts, d, GenreIdsToRemove
    <3>2. Writes(r, e, "add") /\ dto[r].op = "update"
      BY <2>01, <2>10 DEF CutGenres, d
    <3>3. ~Exists(m) => cut = {}
      BY <2>0 DEF CatalogInv, RowsSound, NoLeftovers
    <3>4. cut = {} /\ d = Clean => e = Clean
      BY DEF Clean
    <3> HIDE DEF e, cut
    <3> QED  BY <2>00, <3>1, <3>2, <3>3, <3>4, WritesKeeps DEF Statements
  <2>11. CASE AddGenres(r)
    <3>1. CASE Fails(r)
      BY <3>1, FailsKeeps
    <3>2. CASE ~Fails(r)
      <4> DEFINE add == GenreIdsToAdd(r)
                 e   == [d EXCEPT !.add = add]
      <4>1. /\ e \in Drafts /\ e.title = d.title
            /\ e.director = d.director /\ e.add = add
        BY <2>0 DEF Drafts, d, GenreIdsToAdd
      <4>2. /\ Writes(r, e, "answer") /\ add \subseteq genres
            /\ add = {} \/ dto[r].op = "create" \/ Exists(m)
        BY <2>0, <2>11, <3>2 DEF AddGenres, d
      <4>3. dto[r].op = "create" => d.title # None /\ d.director # None
        BY <2>01, <2>11 DEF AddGenres, d
      <4>4. add = {} /\ d = Clean => e = Clean
        BY DEF Clean
      <4> HIDE DEF e, add
      <4> QED
        BY <2>00, <4>1, <4>2, <4>3, <4>4, WritesKeeps DEF Statements
    <3> QED  BY <3>1, <3>2
  <2>12. CASE AnswerRow(r) \/ AnswerGenres(r)
    BY <2>12, LooksKeeps
  <2>13. CASE Commit(r)
    BY <2>13, CommitKeeps
  <2>14. CASE Abort(r)
    BY <2>14, FailsKeeps DEF Abort
  <2> QED
    BY <1>1, <2>1, <2>2, <2>3, <2>4, <2>5, <2>6, <2>7, <2>8, <2>9, <2>10,
       <2>11, <2>12, <2>13, <2>14 DEF RequestNext
<1>2. ASSUME NEW m \in Movies, RemoveMovie(m) PROVE CatalogInv'
  <2>1. /\ UNCHANGED <<directors, genres, pc, dto, draft>>
        /\ \A n \in Movies \ {m} : movie'[n] = movie[n]
        /\ movie'[m] = Blank
        /\ \A q \in Requests : dto[q].movie = m => draft[q] = Clean
    BY <1>2 DEF TypeOK, RemoveMovie, requests
  <2>2. RowsSound'
    BY <2>1 DEF CatalogInv, RowsSound, NoLeftovers, Consistent, Exists, Blank
  <2>3. StepsSound' /\ RefsSound'
    BY <2>1 DEF CatalogInv, StepsSound, RefsSound
  <2>4. TitlesSound'
    BY <2>1 DEF CatalogInv, TitlesSound, Blank
  <2>5. DraftsFounded'
    <3> SUFFICES ASSUME NEW q \in Requests PROVE Founded(q)'
      BY DEF DraftsFounded
    <3>1. Founded(q) /\ dto[q].movie \in Movies
      BY DEF CatalogInv, DraftsFounded, TypeOK, Dtos
    <3> QED  BY <2>1, <3>1 DEF Founded, Exists
  <2> QED  BY <2>2, <2>3, <2>4, <2>5 DEF CatalogInv
<1>3. ASSUME NEW g \in Genres, FindDoomedGenre(g) \/ RemoveGenre(g)
      PROVE  CatalogInv'
  <2>1. /\ UNCHANGED <<movie, directors, pc, dto, draft>>
        /\ \/ genres' = genres
           \/ /\ genres' = genres \ {g}
              /\ \A n \in Movies : g \notin movie[n].genres
              /\ \A q \in Requests : g \notin draft[q].add
    BY <1>3 DEF FindDoomedGenre, RemoveGenre, InUse, tables, requests
  <2>2. RowsSound'
    BY <2>1 DEF CatalogInv, RowsSound, NoLeftovers, Consistent, Exists
  <2>3. RefsSound'
    BY <2>1 DEF CatalogInv, RefsSound
  <2>4. StepsSound' /\ TitlesSound' /\ DraftsFounded'
    BY <2>1 DEF CatalogInv, StepsSound, TitlesSound, DraftsFounded, Founded, Exists
  <2> QED  BY <2>2, <2>3, <2>4 DEF CatalogInv
<1>4. ASSUME NEW k \in Directors, RemoveDirector(k) PROVE CatalogInv'
  <2>1. /\ UNCHANGED <<movie, genres, pc, dto, draft>>
        /\ directors' = directors \ {k}
        /\ \A n \in Movies : movie[n].director # k
        /\ \A q \in Requests : draft[q].director # k
    BY <1>4 DEF RemoveDirector, requests
  <2>2. RowsSound'
    BY <2>1 DEF CatalogInv, RowsSound, NoLeftovers, Consistent, Exists
  <2>3. RefsSound'
    BY <2>1 DEF CatalogInv, RefsSound
  <2>4. StepsSound' /\ TitlesSound' /\ DraftsFounded'
    BY <2>1 DEF CatalogInv, StepsSound, TitlesSound, DraftsFounded, Founded, Exists
  <2> QED  BY <2>2, <2>3, <2>4 DEF CatalogInv
<1>5. CASE UNCHANGED vars
  BY <1>5 DEF vars, tables, requests, CatalogInv, RowsSound, NoLeftovers,
              Consistent, Exists, StepsSound, TitlesSound, RefsSound,
              DraftsFounded, Founded
<1> QED  BY <1>1, <1>2, <1>3, <1>4, <1>5 DEF Next, RemoveNext

\* No two movies share a title, and no movie refers to a director or genre that
\* is gone, however requests and others interleave.
THEOREM CatalogStaysConsistent == Spec => []Consistent
<1>1. CatalogInv => Consistent
  BY DEF CatalogInv, RowsSound
<1> QED  BY <1>1, TypeInit, TypeNext, CatalogInit, CatalogNext, PTL DEF Spec

(***************************************************************************)
(* What a request does alone.  For a movie no two requests were about at   *)
(* once, the draft of the one request that is about it is a function of    *)
(* its DTO, of the row, and of how far it has come.                        *)
(***************************************************************************)

Active(r) == pc[r] \in Statements

\* What create has written.
CreateDraft(r) ==
  IF pc[r] \notin {"add"} \cup Closing THEN Clean
  ELSE [title |-> dto[r].title, director |-> dto[r].director, cut |-> {},
        add |-> IF pc[r] \in Closing THEN dto[r].genres ELSE {}]

CreateSolo(r) ==
  /\ ~Exists(dto[r].movie)
  /\ current[r] = {}
  /\ dto[r].genres # {}
  /\ pc[r] \in {"title", "director", "genres", "insert", "add"} \cup Closing
  /\ draft[r] = CreateDraft(r)

\* What update has written, once it has written it.
TitleWritten(r)    == pc[r] \notin {"find", "title", "retitle"}
DirectorWritten(r) == TitleWritten(r) /\ pc[r] \notin {"director", "redirect"}

\* Whoever holds the movie row cannot lose it, and its genres are those read.
UpdateSolo(r) ==
  LET old == movie[dto[r].movie].genres
      cut == old \ dto[r].genres
      add == dto[r].genres \ old
      d   == draft[r]
  IN /\ ~Exists(dto[r].movie) => d = Clean
     /\ Exists(dto[r].movie) /\ pc[r] # "find" => current[r] = old
     /\ d.title = IF TitleWritten(r) THEN dto[r].title ELSE None
     /\ d.director = IF DirectorWritten(r) THEN dto[r].director ELSE None
     /\ pc[r] \in {"genres", "cut", "add"} => dto[r].genres # {}
     /\ pc[r] \notin {"add"} \cup Closing => d.cut = {}
     /\ pc[r] \notin Closing => d.add = {}
     /\ pc[r] = "add" /\ Exists(dto[r].movie) => d.cut = cut
     /\ pc[r] \in Closing /\ Exists(dto[r].movie) =>
          IF dto[r].genres = {} THEN d.cut = {} /\ d.add = {}
                                ELSE d.cut = cut /\ d.add = add

Solo(r) ==
  Active(r) /\ dto[r].movie \notin raced =>
    IF dto[r].op = "create" THEN CreateSolo(r) ELSE UpdateSolo(r)

\* Two requests about one movie have been noticed.
RacesNoticed ==
  \A r, q \in Requests :
    Active(r) /\ Active(q) /\ dto[r].movie = dto[q].movie /\ r # q =>
      dto[r].movie \in raced

FreshUntouched ==
  \A m \in fresh : ~Exists(m) /\ \A r \in Requests : Active(r) => dto[r].movie # m

GoneIsBlank == \A m \in Movies : ~Exists(m) => movie[m] = Blank

IdleIsClean == \A r \in Requests : pc[r] = "new" => current[r] = {}

SoloInv ==
  /\ IdleIsClean /\ RacesNoticed /\ FreshUntouched /\ GoneIsBlank
  /\ \A r \in Requests : Solo(r)
  /\ NeverWithoutGenres

LEMMA SoloInit == Init => SoloInv
<1> SUFFICES ASSUME Init PROVE SoloInv
  OBVIOUS
<1>1. \A r \in Requests : ~Active(r) /\ pc[r] # "done"
  BY DEF Init, Active, Statements
<1>2. \A m \in Movies : m \in fresh => movie[m] = Blank
  BY DEF Init
<1>3. \A m \in Movies : m \notin fresh => Exists(m) /\ movie[m].genres # {}
  BY DEF Init
<1>4. fresh \subseteq Movies
  BY DEF Init
<1>5. GoneIsBlank /\ NeverWithoutGenres
  BY <1>2, <1>3 DEF GoneIsBlank, NeverWithoutGenres, Blank, Exists
<1>6. FreshUntouched
  BY <1>1, <1>2, <1>4 DEF FreshUntouched, Blank, Exists
<1> QED
  BY <1>1, <1>5, <1>6 DEF Init, SoloInv, RacesNoticed, Solo, IdleIsClean

\* A step that moves only the request on which it is, and does not end it.
LEMMA OwnStepKeeps ==
  ASSUME TypeOK, SoloInv, NEW r \in Requests, Active(r),
         UNCHANGED <<movie, fresh, raced>>,
         \A q \in Requests \ {r} :
           /\ pc'[q] = pc[q] /\ dto'[q] = dto[q]
           /\ current'[q] = current[q] /\ draft'[q] = draft[q],
         dto'[r].movie = dto[r].movie,
         pc'[r] # "new",
         Solo(r)'
  PROVE  SoloInv'
<1>1. \A q \in Requests : /\ dto'[q].movie = dto[q].movie
                          /\ Active(q)' => Active(q)
  BY DEF Active
<1>2. RacesNoticed' /\ FreshUntouched'
  BY <1>1 DEF SoloInv, RacesNoticed, FreshUntouched, Exists
<1>3. GoneIsBlank' /\ NeverWithoutGenres'
  BY DEF SoloInv, GoneIsBlank, NeverWithoutGenres, Exists
<1>4. IdleIsClean'
  BY DEF SoloInv, IdleIsClean
<1>5. ASSUME NEW q \in Requests PROVE Solo(q)'
  <2>1. CASE q = r
    BY <2>1
  <2>2. CASE q # r
    <3>1. Solo(q)
      BY DEF SoloInv
    <3>2. /\ pc'[q] = pc[q] /\ dto'[q] = dto[q]
          /\ current'[q] = current[q] /\ draft'[q] = draft[q]
      BY <2>2
    <3> QED
      BY <3>1, <3>2 DEF Solo, Active, CreateSolo, UpdateSolo, CreateDraft,
         TitleWritten, DirectorWritten, Exists
  <2> QED  BY <2>1, <2>2
<1> QED  BY <1>2, <1>3, <1>4, <1>5 DEF SoloInv

LEMMA FailsSolo ==
  ASSUME TypeOK, SoloInv, NEW r \in Requests, Active(r), Fails(r)
  PROVE  SoloInv'
<1>1. /\ UNCHANGED <<movie, fresh, raced, answer>>
      /\ \A q \in Requests \ {r} :
           /\ pc'[q] = pc[q] /\ dto'[q] = dto[q]
           /\ current'[q] = current[q] /\ draft'[q] = draft[q]
      /\ dto'[r].movie = dto[r].movie
      /\ pc'[r] = "failed"
  BY DEF TypeOK, Fails, Goto, tables, others, Nothing
<1>2. Solo(r)'
  BY <1>1 DEF Solo, Active, Statements
<1> QED  BY <1>1, <1>2, OwnStepKeeps

LEMMA ReadsSolo ==
  ASSUME TypeOK, SoloInv, NEW r \in Requests, NEW next \in Statements,
         Active(r), Reads(r, next),
         dto[r].movie \notin raced =>
           \/ dto[r].op = "create"
                /\ next \in {"title", "director", "genres", "insert"}
                /\ pc[r] \notin {"add"} \cup Closing
           \/ /\ dto[r].op # "create"
              /\ pc[r] # "find" /\ next # "find"
              /\ pc[r] \notin {"add"} \cup Closing /\ next # "add"
              /\ ~TitleWritten(r) /\ next \notin {"title", "retitle"} =>
                   dto[r].title = None
              /\ TitleWritten(r) => next \notin {"title", "retitle"}
              /\ ~DirectorWritten(r)
                   /\ next \notin {"title", "retitle", "director", "redirect"} =>
                   dto[r].director = None
              /\ DirectorWritten(r) => next \notin {"director", "redirect"}
              /\ next \in {"genres", "cut"} => dto[r].genres # {}
              /\ next \in Closing => dto[r].genres = {}
  PROVE  SoloInv'
<1>1. /\ UNCHANGED <<movie, fresh, raced, answer, dto, current, draft>>
      /\ \A q \in Requests \ {r} : pc'[q] = pc[q]
      /\ pc'[r] = next
  BY DEF TypeOK, Reads, Goto, tables, others
<1>2. Solo(r)'
  <2> SUFFICES ASSUME dto[r].movie \notin raced
               PROVE  IF dto[r].op = "create" THEN CreateSolo(r)' ELSE UpdateSolo(r)'
    BY <1>1 DEF Solo
  <2>0. IF dto[r].op = "create" THEN CreateSolo(r) ELSE UpdateSolo(r)
    BY DEF SoloInv, Solo
  <2>1. CASE dto[r].op = "create"
    BY <1>1, <2>0, <2>1 DEF CreateSolo, CreateDraft, Exists
  <2>2. CASE dto[r].op # "create"
    BY <1>1, <2>0, <2>2 DEF UpdateSolo, TitleWritten, DirectorWritten, Exists
  <2> QED  BY <2>1, <2>2
<1>3. pc'[r] # "new"
  BY <1>1 DEF Statements
<1> QED  BY <1>1, <1>2, <1>3, OwnStepKeeps

LEMMA WritesSolo ==
  ASSUME TypeOK, SoloInv, NEW r \in Requests, NEW next \in Statements,
         NEW d \in Drafts, Active(r), Writes(r, d, next),
         /\ pc' = [pc EXCEPT ![r] = next]
         /\ draft' = [draft EXCEPT ![r] = d]
         /\ UNCHANGED <<movie, dto, current>>
         /\ dto[r].movie \notin raced =>
              IF dto[r].op = "create" THEN CreateSolo(r)' ELSE UpdateSolo(r)'
  PROVE  SoloInv'
<1>1. /\ UNCHANGED <<movie, fresh, raced, answer, dto, current>>
      /\ \A q \in Requests \ {r} : pc'[q] = pc[q] /\ draft'[q] = draft[q]
      /\ pc'[r] = next
  BY DEF TypeOK, Writes, Goto, tables, others
<1>2. Solo(r)'
  BY <1>1 DEF Solo
<1>3. pc'[r] # "new"
  BY <1>1 DEF Statements
<1> QED  BY <1>1, <1>2, <1>3, OwnStepKeeps

\* COMMIT: for a movie nobody else was about, the row is what was asked for.
LEMMA CommitSolo ==
  ASSUME TypeOK, CatalogInv, SoloInv, NEW r \in Requests, Commit(r)
  PROVE  SoloInv'
<1> DEFINE m   == dto[r].movie
           d   == draft[r]
           row == Applied(movie[m], d)
<1>1. /\ UNCHANGED <<fresh, raced, dto>>
      /\ movie' = [movie EXCEPT ![m] = row]
      /\ m \in Movies
      /\ \A n \in Movies \ {m} : movie'[n] = movie[n]
      /\ \A q \in Requests \ {r} :
           /\ pc'[q] = pc[q] /\ current'[q] = current[q]
           /\ draft'[q] = draft[q]
      /\ pc'[r] = "done" /\ pc[r] = "commit" /\ Active(r) /\ ~Active(r)'
      /\ movie'[m] = row
      /\ movie[m] \in Rows /\ d \in Drafts /\ dto[r] \in Dtos
  BY DEF TypeOK, Commit, Seen, Goto, Dtos, others, Active, Statements
<1>2. /\ row.title = Given(d.title, movie[m].title)
      /\ row.director = Given(d.director, movie[m].director)
      /\ row.genres = (movie[m].genres \ d.cut) \cup d.add
  BY DEF Applied
<1>3. m \notin fresh
  BY <1>1 DEF SoloInv, FreshUntouched
<1>4. ASSUME m \notin raced
      PROVE  /\ \A q \in Requests \ {r} : Active(q) => dto[q].movie # m
             /\ row.title # None => row.genres # {}
  <2>1. \A q \in Requests \ {r} : Active(q) => dto[q].movie # m
    BY <1>1, <1>4 DEF SoloInv, RacesNoticed
  <2>2. IF dto[r].op = "create" THEN CreateSolo(r) ELSE UpdateSolo(r)
    BY <1>1, <1>4 DEF SoloInv, Solo
  <2>3. CASE dto[r].op = "create"
    <3>1. d = [title |-> dto[r].title, director |-> dto[r].director, cut |-> {},
               add |-> dto[r].genres]
      BY <1>1, <2>2, <2>3 DEF CreateSolo, CreateDraft
    <3>2. movie[m] = Blank /\ dto[r].genres # {}
      BY <1>1, <2>2, <2>3 DEF CreateSolo, SoloInv, GoneIsBlank
    <3>3. dto[r].title # None /\ dto[r].director # None
      BY <2>3 DEF CatalogInv, StepsSound
    <3> QED  BY <1>2, <2>1, <3>1, <3>2, <3>3 DEF Given, Blank
  <2>4. CASE dto[r].op # "create" /\ Exists(m)
    <3>1. /\ d.title = dto[r].title /\ d.director = dto[r].director
          /\ IF dto[r].genres = {} THEN d.cut = {} /\ d.add = {}
             ELSE /\ d.cut = movie[m].genres \ dto[r].genres
                  /\ d.add = dto[r].genres \ movie[m].genres
      BY <1>1, <2>2, <2>4 DEF UpdateSolo, TitleWritten, DirectorWritten
    <3>2. movie[m].genres # {}
      BY <1>1, <1>4, <2>4 DEF SoloInv, NeverWithoutGenres
    <3>3. row.genres = IF dto[r].genres = {} THEN movie[m].genres ELSE dto[r].genres
      BY <1>2, <3>1
    <3> HIDE DEF row
    <3> QED  BY <1>2, <2>1, <3>1, <3>2, <3>3 DEF Given
  <2>5. CASE dto[r].op # "create" /\ ~Exists(m)
    <3>1. d = Clean /\ movie[m] = Blank
      BY <1>1, <2>2, <2>5 DEF UpdateSolo, SoloInv, GoneIsBlank
    <3>2. row = Blank
      BY <3>1 DEF Applied, Given, Clean, Blank
    <3> QED  BY <2>1, <3>2 DEF Blank
  <2> QED  BY <2>3, <2>4, <2>5
<1>5. ~Exists(m)' => row = Blank
  <2> SUFFICES ASSUME row.title = None PROVE row = Blank
    BY <1>1 DEF Exists
  <2>1. d.title = None /\ movie[m].title = None
    BY <1>2 DEF Given
  <2>2. d = Clean
    BY <2>1 DEF CatalogInv, DraftsFounded, Founded, Exists
  <2>3. movie[m] = Blank
    BY <1>1, <2>1 DEF SoloInv, GoneIsBlank, Exists
  <2> QED  BY <2>2, <2>3 DEF Applied, Given, Clean, Blank
<1> HIDE DEF row, d
<1>6. RacesNoticed' /\ IdleIsClean'
  BY <1>1 DEF SoloInv, RacesNoticed, IdleIsClean, Active
<1>7. FreshUntouched'
  <2>1. fresh \subseteq Movies
    BY DEF TypeOK
  <2> QED  BY <1>1, <1>3, <2>1 DEF SoloInv, FreshUntouched, Exists, Active
<1>8. GoneIsBlank'
  BY <1>1, <1>5 DEF SoloInv, GoneIsBlank, Exists
<1>9. NeverWithoutGenres'
  BY <1>1, <1>4 DEF SoloInv, NeverWithoutGenres, Exists
<1>10. ASSUME NEW q \in Requests PROVE Solo(q)'
  <2>1. CASE q = r
    BY <1>1, <2>1 DEF Solo
  <2>2. CASE q # r /\ (~Active(q) \/ dto[q].movie \in raced)
    BY <1>1, <2>2 DEF Solo, Active
  <2>3. CASE q # r /\ Active(q) /\ dto[q].movie \notin raced
    <3>1. dto[q].movie # m /\ dto[q].movie \in Movies
      BY <1>1, <1>4, <2>3 DEF TypeOK, Dtos
    <3>2. movie'[dto[q].movie] = movie[dto[q].movie]
      BY <1>1, <3>1
    <3>3. IF dto[q].op = "create" THEN CreateSolo(q) ELSE UpdateSolo(q)
      BY <2>3 DEF SoloInv, Solo
    <3>4. /\ pc'[q] = pc[q] /\ dto' = dto
          /\ current'[q] = current[q] /\ draft'[q] = draft[q]
      BY <1>1, <2>3
    <3>5. CASE dto[q].op = "create"
      BY <3>2, <3>3, <3>4, <3>5 DEF Solo, CreateSolo, CreateDraft, Exists
    <3>6. CASE dto[q].op # "create"
      BY <3>2, <3>3, <3>4, <3>6 DEF Solo, UpdateSolo, TitleWritten, DirectorWritten,
         Exists
    <3> QED  BY <3>5, <3>6
  <2> QED  BY <2>1, <2>2, <2>3
<1> QED  BY <1>6, <1>7, <1>8, <1>9, <1>10 DEF SoloInv

\* A request comes.
LEMMA BeginSolo ==
  ASSUME TypeOK, CatalogInv, SoloInv, NEW r \in Requests, NEW e \in Dtos,
         Begin(r, e)
  PROVE  SoloInv'
<1>1. /\ UNCHANGED <<movie, current, draft, answer>>
      /\ \A q \in Requests \ {r} : dto'[q] = dto[q] /\ pc'[q] = pc[q]
      /\ dto'[r] = e /\ e.movie \in Movies
      /\ pc[r] = "new" /\ ~Active(r)
      /\ raced \subseteq raced'
      /\ (\E q \in Requests : Active(q) /\ dto[q].movie = e.movie) => e.movie \in raced'
      /\ \/ /\ e.op = "create" /\ e.movie \in fresh /\ e.genres # {}
            /\ fresh' = fresh \ {e.movie} /\ pc'[r] = "title"
         \/ e.op = "update" /\ e.movie \notin fresh /\ fresh' = fresh /\ pc'[r] = "find"
  BY DEF TypeOK, Begin, Goto, Dtos, Active, Statements
<1>2. draft[r] = Clean
  BY <1>1 DEF CatalogInv, StepsSound, Active
<1>3. RacesNoticed' /\ IdleIsClean'
  BY <1>1 DEF SoloInv, RacesNoticed, IdleIsClean, Active
<1>4. FreshUntouched'
  BY <1>1 DEF SoloInv, FreshUntouched, Exists, Active
<1>5. GoneIsBlank' /\ NeverWithoutGenres'
  BY <1>1 DEF SoloInv, GoneIsBlank, NeverWithoutGenres, Exists
<1>6. ASSUME NEW q \in Requests PROVE Solo(q)'
  <2>1. CASE q # r
    BY <1>1, <2>1 DEF SoloInv, Solo, Active, CreateSolo, UpdateSolo, CreateDraft,
       TitleWritten, DirectorWritten, Exists
  <2>2. CASE q = r /\ e.op = "create"
    <3>1. ~Exists(e.movie) /\ pc'[r] = "title"
      BY <1>1, <2>2 DEF SoloInv, FreshUntouched
    <3>2. current[r] = {}
      BY <1>1 DEF SoloInv, IdleIsClean
    <3> QED
      BY <1>1, <1>2, <2>2, <3>1, <3>2 DEF Solo, CreateSolo, CreateDraft, Exists
  <2>3. CASE q = r /\ e.op = "update"
    BY <1>1, <1>2, <2>3 DEF Solo, UpdateSolo, TitleWritten, DirectorWritten,
       Clean, Exists
  <2> QED  BY <1>1, <2>1, <2>2, <2>3
<1> QED  BY <1>3, <1>4, <1>5, <1>6 DEF SoloInv

\* The closing look-up comes when everything is written.
LEMMA LooksSolo ==
  ASSUME TypeOK, SoloInv, NEW r \in Requests, AnswerRow(r) \/ AnswerGenres(r)
  PROVE  SoloInv'
<1>1. /\ UNCHANGED <<movie, fresh, raced, dto, current, draft>>
      /\ \A q \in Requests \ {r} : pc'[q] = pc[q]
      /\ pc[r] \in Closing /\ pc'[r] \in Closing
  BY DEF TypeOK, AnswerRow, AnswerGenres, Goto, tables, others
<1>2. Active(r) /\ Active(r)'
  BY <1>1 DEF Active, Statements
<1>3. Solo(r)
  BY DEF SoloInv
<1>4. Solo(r)'
  BY <1>1, <1>2, <1>3 DEF Solo, CreateSolo, UpdateSolo, CreateDraft, TitleWritten,
     DirectorWritten, Exists
<1> QED  BY <1>1, <1>2, <1>4, OwnStepKeeps

LEMMA RequestSolo ==
  ASSUME TypeOK, CatalogInv, SoloInv, NEW r \in Requests, RequestNext(r)
  PROVE  SoloInv'
<1> DEFINE m == dto[r].movie
           d == draft[r]
<1>0. /\ dto[r] \in Dtos /\ m \in Movies /\ d \in Drafts
      /\ dto[r].op \in {"create", "update"}
      /\ dto[r].genres \subseteq Genres /\ current[r] \subseteq Genres
      /\ dto[r].title \in Titles \cup {None}
      /\ dto[r].director \in Directors \cup {None}
      /\ movie[m].genres \subseteq Genres
  BY DEF TypeOK, Dtos, Rows
<1>00. StepsSound!(r)
  BY DEF CatalogInv, StepsSound
<1>01. Active(r) /\ m \notin raced =>
         IF dto[r].op = "create" THEN CreateSolo(r) ELSE UpdateSolo(r)
  BY DEF SoloInv, Solo
<1>1. ASSUME NEW e \in Dtos, Begin(r, e) PROVE SoloInv'
  BY <1>1, BeginSolo
<1>2. CASE FindMovie(r)
  <2>1. Active(r)
    BY <1>2 DEF FindMovie, Active, Statements
  <2>2. CASE Fails(r)
    BY <2>1, <2>2, FailsSolo
  <2>3. CASE ~Fails(r)
    <3>1. /\ UNCHANGED <<movie, fresh, raced, answer, dto, draft>>
          /\ \A q \in Requests \ {r} : pc'[q] = pc[q] /\ current'[q] = current[q]
          /\ pc[r] = "find" /\ pc'[r] = "title"
          /\ current'[r] = movie[m].genres
      BY <1>2, <2>3 DEF TypeOK, FindMovie, GenresOf, Goto, tables, others
    <3>2. Solo(r)'
      BY <1>01, <2>1, <3>1 DEF Solo, Active, CreateSolo, UpdateSolo,
         TitleWritten, DirectorWritten, Exists
    <3> QED  BY <2>1, <3>1, <3>2, OwnStepKeeps
  <2> QED  BY <2>2, <2>3
<1>3. CASE FindTitle(r)
  <2>1. Active(r) /\ pc[r] = "title" /\ AfterTitle(r) \in Statements
    BY <1>3 DEF FindTitle, AfterTitle, Active, Statements
  <2>2. CASE Reads(r, AfterTitle(r))
    BY <1>0, <1>00, <2>1, <2>2, ReadsSolo DEF AfterTitle, TitleWritten, DirectorWritten
  <2> QED  BY <1>3, <2>1, <2>2, FailsSolo DEF FindTitle
<1>4. CASE Retitle(r)
  <2>1. Active(r) /\ pc[r] = "retitle" /\ dto[r].op = "update"
    BY <1>4, <1>00 DEF Retitle, Active, Statements
  <2>2. CASE Fails(r)
    BY <2>1, <2>2, FailsSolo
  <2>3. CASE ~Fails(r)
    <3> DEFINE e == [d EXCEPT !.title = dto[r].title]
    <3>1. /\ e \in Drafts /\ e.title = dto[r].title
          /\ e.director = d.director /\ e.add = d.add /\ e.cut = d.cut
      BY <1>0 DEF Drafts
    <3>2. Writes(r, e, "director") /\ Exists(m)
      BY <1>4, <2>3 DEF Retitle
    <3> HIDE DEF e
    <3>3. /\ pc' = [pc EXCEPT ![r] = "director"]
          /\ draft' = [draft EXCEPT ![r] = e]
          /\ UNCHANGED <<movie, dto, current>>
      BY <3>2 DEF Writes, Goto, tables
    <3>4. draft'[r] = e /\ pc'[r] = "director"
      BY <3>3 DEF TypeOK
    <3>5. m \notin raced => UpdateSolo(r)'
      BY <1>01, <2>1, <3>1, <3>2, <3>3, <3>4
         DEF UpdateSolo, TitleWritten, DirectorWritten, Exists
    <3> QED  BY <2>1, <3>1, <3>2, <3>3, <3>5, WritesSolo DEF Statements
  <2> QED  BY <2>2, <2>3
<1>5. CASE FindDirector(r)
  <2> DEFINE next == IF dto[r].op = "create"     THEN "genres"
                     ELSE IF dto[r].director = None THEN "detail"
                     ELSE "redirect"
  <2>1. Active(r) /\ pc[r] = "director" /\ next \in Statements
    BY <1>5 DEF FindDirector, Active, Statements
  <2>2. CASE Reads(r, next)
    BY <1>0, <2>1, <2>2, ReadsSolo DEF TitleWritten, DirectorWritten
  <2> QED  BY <1>5, <2>1, <2>2, FailsSolo DEF FindDirector
<1>6. CASE Redirect(r)
  <2>1. Active(r) /\ pc[r] = "redirect" /\ dto[r].op = "update"
    BY <1>6, <1>00 DEF Redirect, Active, Statements
  <2>2. CASE Fails(r)
    BY <2>1, <2>2, FailsSolo
  <2>3. CASE ~Fails(r)
    <3> DEFINE e == [d EXCEPT !.director = dto[r].director]
    <3>1. /\ e \in Drafts /\ e.title = d.title
          /\ e.director = dto[r].director /\ e.add = d.add /\ e.cut = d.cut
      BY <1>0 DEF Drafts
    <3>2. Writes(r, e, "detail") /\ Exists(m)
      BY <1>6, <2>3 DEF Redirect
    <3> HIDE DEF e
    <3>3. /\ pc' = [pc EXCEPT ![r] = "detail"]
          /\ draft' = [draft EXCEPT ![r] = e]
          /\ UNCHANGED <<movie, dto, current>>
      BY <3>2 DEF Writes, Goto, tables
    <3>4. draft'[r] = e /\ pc'[r] = "detail"
      BY <3>3 DEF TypeOK
    <3>5. m \notin raced => UpdateSolo(r)'
      BY <1>01, <2>1, <3>1, <3>2, <3>3, <3>4
         DEF UpdateSolo, TitleWritten, DirectorWritten, Exists
    <3> QED  BY <2>1, <3>1, <3>2, <3>3, <3>5, WritesSolo DEF Statements
  <2> QED  BY <2>2, <2>3
<1>7. CASE UpdateDetail(r)
  <2> DEFINE next == IF dto[r].genres = {} THEN "answer" ELSE "genres"
  <2>1. Active(r) /\ pc[r] = "detail" /\ dto[r].op = "update" /\ next \in Statements
    BY <1>7, <1>00 DEF UpdateDetail, Active, Statements
  <2>2. CASE Reads(r, next)
    BY <1>0, <2>1, <2>2, ReadsSolo DEF TitleWritten, DirectorWritten
  <2> QED  BY <1>7, <2>1, <2>2, FailsSolo DEF UpdateDetail
<1>8. CASE FindGenres(r)
  <2> DEFINE next == IF dto[r].op = "create" THEN "insert" ELSE "cut"
  <2>1. Active(r) /\ pc[r] = "genres" /\ next \in Statements
    BY <1>8 DEF FindGenres, Active, Statements
  <2>2. CASE Reads(r, next)
    BY <1>0, <1>01, <2>1, <2>2, ReadsSolo DEF TitleWritten, DirectorWritten, UpdateSolo
  <2> QED  BY <1>8, <2>1, <2>2, FailsSolo DEF FindGenres
<1>9. CASE InsertMovie(r)
  <2>1. Active(r) /\ pc[r] = "insert" /\ dto[r].op = "create"
    BY <1>9, <1>00 DEF InsertMovie, Active, Statements
  <2>2. CASE Fails(r)
    BY <2>1, <2>2, FailsSolo
  <2>3. CASE ~Fails(r)
    <3> DEFINE e == [d EXCEPT !.title = dto[r].title, !.director = dto[r].director]
    <3>1. /\ e \in Drafts /\ e.title = dto[r].title
          /\ e.director = dto[r].director /\ e.add = d.add /\ e.cut = d.cut
      BY <1>0 DEF Drafts
    <3>2. Writes(r, e, "add")
      BY <1>9, <2>3 DEF InsertMovie
    <3>3. m \notin raced =>
            e = [title |-> dto[r].title, director |-> dto[r].director,
                 cut |-> {}, add |-> {}]
      <4> SUFFICES ASSUME m \notin raced
                   PROVE  e = [title |-> dto[r].title, director |-> dto[r].director,
                               cut |-> {}, add |-> {}]
        OBVIOUS
      <4>1. d.cut = {} /\ d.add = {}
        BY <1>01, <2>1 DEF CreateSolo, CreateDraft, Clean
      <4> HIDE DEF d, e
      <4> QED  BY <3>1, <4>1 DEF Drafts
    <3> HIDE DEF e
    <3>4. /\ pc' = [pc EXCEPT ![r] = "add"]
          /\ draft' = [draft EXCEPT ![r] = e]
          /\ UNCHANGED <<movie, dto, current>>
      BY <3>2 DEF Writes, Goto, tables
    <3>5. draft'[r] = e /\ pc'[r] = "add"
      BY <3>4 DEF TypeOK
    <3>6. m \notin raced => CreateSolo(r)'
      BY <1>01, <2>1, <3>3, <3>4, <3>5 DEF CreateSolo, CreateDraft, Exists
    <3> QED  BY <2>1, <3>1, <3>2, <3>4, <3>6, WritesSolo DEF Statements
  <2> QED  BY <2>2, <2>3
<1>10. CASE CutGenres(r)
  <2> DEFINE cut == GenreIdsToRemove(r) \cap movie[m].genres
             e   == [d EXCEPT !.cut = cut]
  <2>1. Active(r) /\ pc[r] = "cut" /\ dto[r].op = "update"
    BY <1>10, <1>00 DEF CutGenres, Active, Statements
  <2>2. /\ e \in Drafts /\ e.title = d.title
        /\ e.director = d.director /\ e.add = d.add /\ e.cut = cut
    BY <1>0 DEF Drafts, GenreIdsToRemove
  <2>3. Writes(r, e, "add")
    BY <1>10 DEF CutGenres
  <2>4. ~Exists(m) => cut = {}
    BY <1>0 DEF CatalogInv, RowsSound, NoLeftovers
  <2>5. cut = {} /\ d = Clean => e = Clean
    BY DEF Clean
  <2>6. current[r] = movie[m].genres => cut = movie[m].genres \ dto[r].genres
    BY DEF GenreIdsToRemove
  <2> HIDE DEF e, cut
  <2>7. /\ pc' = [pc EXCEPT ![r] = "add"]
        /\ draft' = [draft EXCEPT ![r] = e]
        /\ UNCHANGED <<movie, dto, current>>
    BY <2>3 DEF Writes, Goto, tables
  <2>8. draft'[r] = e /\ pc'[r] = "add"
    BY <2>7 DEF TypeOK
  <2>9. m \notin raced => UpdateSolo(r)'
    BY <1>01, <2>1, <2>2, <2>4, <2>5, <2>6, <2>7, <2>8
       DEF UpdateSolo, TitleWritten, DirectorWritten, Exists
  <2> QED  BY <2>1, <2>2, <2>3, <2>7, <2>9, WritesSolo DEF Statements
<1>11. CASE AddGenres(r)
  <2>1. Active(r) /\ pc[r] = "add"
    BY <1>11 DEF AddGenres, Active, Statements
  <2>2. CASE Fails(r)
    BY <2>1, <2>2, FailsSolo
  <2>3. CASE ~Fails(r)
    <3> DEFINE add == GenreIdsToAdd(r)
               e   == [d EXCEPT !.add = add]
    <3>1. /\ e \in Drafts /\ e.title = d.title
          /\ e.director = d.director /\ e.add = add /\ e.cut = d.cut
      BY <1>0 DEF Drafts, GenreIdsToAdd
    <3>2. /\ Writes(r, e, "answer")
          /\ add = {} \/ dto[r].op = "create" \/ Exists(m)
      BY <1>0, <1>11, <2>3 DEF AddGenres
    <3>3. add = {} /\ d = Clean => e = Clean
      BY DEF Clean
    <3>4. add = dto[r].genres \ current[r]
      BY DEF GenreIdsToAdd
    <3>5. m \notin raced /\ dto[r].op = "create" =>
            e = [title |-> dto[r].title, director |-> dto[r].director,
                 cut |-> {}, add |-> dto[r].genres]
      <4> SUFFICES ASSUME m \notin raced, dto[r].op = "create"
                   PROVE  e = [title |-> dto[r].title, director |-> dto[r].director,
                               cut |-> {}, add |-> dto[r].genres]
        OBVIOUS
      <4>1. d = [title |-> dto[r].title, director |-> dto[r].director,
                 cut |-> {}, add |-> {}]
        BY <1>01, <2>1 DEF CreateSolo, CreateDraft
      <4>2. add = dto[r].genres
        BY <1>01, <2>1, <3>4 DEF CreateSolo
      <4> HIDE DEF add, d
      <4> QED  BY <4>1, <4>2
    <3> HIDE DEF e, add
    <3>6. /\ pc' = [pc EXCEPT ![r] = "answer"]
          /\ draft' = [draft EXCEPT ![r] = e]
          /\ UNCHANGED <<movie, dto, current>>
      BY <3>2 DEF Writes, Goto, tables
    <3>7. draft'[r] = e /\ pc'[r] = "answer"
      BY <3>6 DEF TypeOK
    <3>8. m \notin raced /\ dto[r].op = "create" => CreateSolo(r)'
      BY <1>01, <2>1, <3>5, <3>6, <3>7 DEF CreateSolo, CreateDraft, Exists
    <3>9. m \notin raced /\ dto[r].op # "create" => UpdateSolo(r)'
      BY <1>01, <2>1, <3>1, <3>2, <3>3, <3>4, <3>6, <3>7
         DEF UpdateSolo, TitleWritten, DirectorWritten, Exists
    <3> QED  BY <2>1, <3>1, <3>2, <3>6, <3>8, <3>9, WritesSolo DEF Statements
  <2> QED  BY <2>2, <2>3
<1>12. CASE AnswerRow(r) \/ AnswerGenres(r)
  BY <1>12, LooksSolo
<1>13. CASE Commit(r)
  BY <1>13, CommitSolo
<1>14. CASE Abort(r)
  BY <1>14, FailsSolo DEF Abort, Active
<1> QED
  BY <1>1, <1>2, <1>3, <1>4, <1>5, <1>6, <1>7, <1>8, <1>9, <1>10, <1>11, <1>12,
     <1>13, <1>14 DEF RequestNext

LEMMA SoloNext == TypeOK /\ CatalogInv /\ SoloInv /\ [Next]_vars => SoloInv'
<1> SUFFICES ASSUME TypeOK, CatalogInv, SoloInv, [Next]_vars PROVE SoloInv'
  OBVIOUS
<1>1. ASSUME NEW r \in Requests, RequestNext(r) PROVE SoloInv'
  BY <1>1, RequestSolo
<1>2. ASSUME NEW m \in Movies, RemoveMovie(m) PROVE SoloInv'
  <2>1. /\ UNCHANGED <<fresh, raced, pc, dto, current, draft>>
        /\ Exists(m) /\ movie'[m] = Blank
        /\ \A n \in Movies \ {m} : movie'[n] = movie[n]
        /\ \A q \in Requests : dto[q].movie = m => draft[q] = Clean
    BY <1>2 DEF TypeOK, RemoveMovie, requests, others
  <2>2. ~Exists(m)'
    BY <2>1 DEF Exists, Blank
  <2>3. RacesNoticed' /\ IdleIsClean'
    BY <2>1 DEF SoloInv, RacesNoticed, IdleIsClean, Active
  <2>4. FreshUntouched'
    <3>1. fresh \subseteq Movies
      BY DEF TypeOK
    <3> QED  BY <2>1, <2>2, <3>1 DEF SoloInv, FreshUntouched, Exists, Active
  <2>5. GoneIsBlank' /\ NeverWithoutGenres'
    BY <2>1, <2>2 DEF SoloInv, GoneIsBlank, NeverWithoutGenres, Exists
  <2>6. ASSUME NEW q \in Requests PROVE Solo(q)'
    <3>1. Solo(q) /\ dto[q].movie \in Movies
      BY DEF SoloInv, TypeOK, Dtos
    <3>2. CASE dto[q].movie # m
      BY <2>1, <3>1, <3>2 DEF Solo, Active, CreateSolo, UpdateSolo, CreateDraft,
         TitleWritten, DirectorWritten, Exists
    <3>3. CASE dto[q].movie = m
      BY <2>1, <2>2, <3>1, <3>3 DEF Solo, Active, CreateSolo, UpdateSolo,
         TitleWritten, DirectorWritten, Exists, Clean
    <3> QED  BY <3>2, <3>3
  <2> QED  BY <2>3, <2>4, <2>5, <2>6 DEF SoloInv
<1>3. ASSUME UNCHANGED <<movie, fresh, raced, pc, dto, current, draft>>
      PROVE  SoloInv'
  BY <1>3 DEF SoloInv, RacesNoticed, FreshUntouched, GoneIsBlank, IdleIsClean,
     NeverWithoutGenres, Solo, Active, CreateSolo, UpdateSolo, CreateDraft,
     TitleWritten, DirectorWritten, Exists
<1>4. ASSUME NEW g \in Genres, FindDoomedGenre(g) \/ RemoveGenre(g)
      PROVE  SoloInv'
  BY <1>3, <1>4 DEF FindDoomedGenre, RemoveGenre, tables, requests
<1>5. ASSUME NEW k \in Directors, RemoveDirector(k) PROVE SoloInv'
  BY <1>3, <1>5 DEF RemoveDirector, requests, others
<1>6. CASE UNCHANGED vars
  BY <1>3, <1>6 DEF vars, tables, requests, others
<1> QED  BY <1>1, <1>2, <1>4, <1>5, <1>6 DEF Next, RemoveNext

\* A movie that no two requests were about at once never loses its last genre.
THEOREM MoviesKeepGenres == Spec => []NeverWithoutGenres
<1>1. SoloInv => NeverWithoutGenres
  BY DEF SoloInv
<1> QED
  BY <1>1, TypeInit, TypeNext, CatalogInit, CatalogNext, SoloInit, SoloNext, PTL
     DEF Spec

(***************************************************************************)
(* What a request has written when others are about its movie too.  A      *)
(* create request is still alone with its id, so that CreateSolo holds; an *)
(* update has written title and director as given, and of the genres it    *)
(* removes none it was given and adds none it was not.                     *)
(***************************************************************************)

UpdateDraft(r) ==
  LET d == draft[r]
  IN /\ ~Exists(dto[r].movie) => d = Clean
     /\ d.title = IF TitleWritten(r) THEN dto[r].title ELSE None
     /\ d.director = IF DirectorWritten(r) THEN dto[r].director ELSE None
     /\ pc[r] \in {"genres", "cut", "add"} => dto[r].genres # {}
     /\ dto[r].genres = {} => d.cut = {}
     /\ d.cut \cap dto[r].genres = {}
     /\ d.add \subseteq dto[r].genres

Faithful(r) ==
  Active(r) => IF dto[r].op = "create" THEN CreateSolo(r) ELSE UpdateDraft(r)

\* No two create requests have the same id.
IdsApart ==
  \A r, q \in Requests :
    /\ Active(r) /\ dto[r].op = "create"
    /\ Active(q) /\ dto[q].op = "create"
    /\ dto[r].movie = dto[q].movie
    => r = q

DraftInv == IdsApart /\ \A r \in Requests : Faithful(r)

LEMMA DraftInit == Init => DraftInv
BY DEF Init, DraftInv, IdsApart, Faithful, Active, Statements

\* A step of one request that leaves the movies alone.
LEMMA OwnDraftKeeps ==
  ASSUME TypeOK, DraftInv, NEW r \in Requests, Active(r), UNCHANGED movie,
         \A q \in Requests \ {r} :
           /\ pc'[q] = pc[q] /\ dto'[q] = dto[q]
           /\ current'[q] = current[q] /\ draft'[q] = draft[q],
         Active(r)' => dto'[r] = dto[r] /\ Faithful(r)'
  PROVE  DraftInv'
<1>1. IdsApart'
  BY DEF DraftInv, IdsApart, Active
<1>2. ASSUME NEW q \in Requests PROVE Faithful(q)'
  <2>1. CASE q = r
    BY <2>1 DEF Faithful
  <2>2. CASE q # r
    <3>1. /\ Faithful(q)
          /\ pc'[q] = pc[q] /\ dto'[q] = dto[q]
          /\ current'[q] = current[q] /\ draft'[q] = draft[q]
      BY <2>2 DEF DraftInv
    <3> QED
      BY <3>1 DEF Faithful, Active, CreateSolo, UpdateDraft, CreateDraft,
         TitleWritten, DirectorWritten, Exists
  <2> QED  BY <2>1, <2>2
<1> QED  BY <1>1, <1>2 DEF DraftInv

LEMMA FailsDraft ==
  ASSUME TypeOK, DraftInv, NEW r \in Requests, Active(r), Fails(r)
  PROVE  DraftInv'
<1>1. /\ UNCHANGED movie
      /\ \A q \in Requests \ {r} :
           /\ pc'[q] = pc[q] /\ dto'[q] = dto[q]
           /\ current'[q] = current[q] /\ draft'[q] = draft[q]
      /\ ~Active(r)'
  BY DEF TypeOK, Fails, Goto, tables, Active, Statements
<1> QED  BY <1>1, OwnDraftKeeps

LEMMA ReadsDraft ==
  ASSUME TypeOK, DraftInv, NEW r \in Requests, NEW next \in Statements,
         Active(r), Reads(r, next),
         \/ dto[r].op = "create"
              /\ next \in {"title", "director", "genres", "insert"}
              /\ pc[r] \notin {"add"} \cup Closing
         \/ /\ dto[r].op # "create"
            /\ next # "find" /\ next # "add"
            /\ pc[r] = "title" =>
                 next \in {"retitle", "director"}
                 /\ (dto[r].title # None => next = "retitle")
            /\ pc[r] = "director" =>
                 next \in {"redirect", "detail"}
                 /\ (dto[r].director # None => next = "redirect")
            /\ pc[r] \in {"title", "director"} \/ DirectorWritten(r)
            /\ DirectorWritten(r) =>
                 next \notin {"title", "retitle", "director", "redirect"}
            /\ next \in {"genres", "cut"} => dto[r].genres # {}
  PROVE  DraftInv'
<1>1. /\ UNCHANGED <<movie, dto, current, draft>>
      /\ \A q \in Requests \ {r} : pc'[q] = pc[q]
      /\ pc'[r] = next
  BY DEF TypeOK, Reads, Goto, tables
<1>0. Faithful(r)
  BY DEF DraftInv
<1>2. CASE dto[r].op = "create"
  <2>1. CreateSolo(r)'
    BY <1>0, <1>1, <1>2 DEF Faithful, CreateSolo, CreateDraft, Exists
  <2> QED  BY <1>1, <1>2, <2>1, OwnDraftKeeps DEF Faithful
<1>3. CASE dto[r].op # "create"
  <2>1. UpdateDraft(r)'
    BY <1>0, <1>1, <1>3 DEF Faithful, UpdateDraft, TitleWritten, DirectorWritten, Exists
  <2> QED  BY <1>1, <1>3, <2>1, OwnDraftKeeps DEF Faithful
<1> QED  BY <1>2, <1>3

LEMMA WritesDraft ==
  ASSUME TypeOK, DraftInv, NEW r \in Requests, NEW next \in Statements,
         NEW d \in Drafts, Active(r), Writes(r, d, next),
         /\ pc' = [pc EXCEPT ![r] = next]
         /\ draft' = [draft EXCEPT ![r] = d]
         /\ UNCHANGED <<movie, dto, current>>
         /\ IF dto[r].op = "create" THEN CreateSolo(r)' ELSE UpdateDraft(r)'
  PROVE  DraftInv'
<1>1. /\ UNCHANGED <<movie, dto, current>>
      /\ \A q \in Requests \ {r} : pc'[q] = pc[q] /\ draft'[q] = draft[q]
  BY DEF TypeOK
<1>2. Faithful(r)'
  BY <1>1 DEF Faithful
<1> QED  BY <1>1, <1>2, OwnDraftKeeps


\* COMMIT: of the others that are about the movie none is to create it, and
\* none has written anything if it was not there.
LEMMA CommitDraft ==
  ASSUME TypeOK, CatalogInv, SoloInv, DraftInv, NEW r \in Requests, Commit(r)
  PROVE  DraftInv'
<1> DEFINE m   == dto[r].movie
           row == Applied(movie[m], draft[r])
<1>1. /\ UNCHANGED dto
      /\ m \in Movies
      /\ \A n \in Movies \ {m} : movie'[n] = movie[n]
      /\ movie'[m] = row
      /\ \A q \in Requests \ {r} :
           /\ pc'[q] = pc[q] /\ current'[q] = current[q] /\ draft'[q] = draft[q]
      /\ Active(r) /\ ~Active(r)'
  BY DEF TypeOK, Commit, Seen, Goto, Dtos, Active, Statements
<1>2. Faithful(r)
  BY DEF DraftInv
<1>3. Exists(m) => row.title # None
  BY DEF Applied, Given, Exists
<1>4. dto[r].op # "create" /\ ~Exists(m) => row.title = None
  BY <1>1, <1>2 DEF Faithful, UpdateDraft, Applied, Given, Clean, Exists
<1> HIDE DEF row
<1>5. IdsApart'
  BY <1>1 DEF DraftInv, IdsApart, Active
<1>6. ASSUME NEW q \in Requests PROVE Faithful(q)'
  <2>1. CASE q = r
    BY <1>1, <2>1 DEF Faithful
  <2>2. CASE q # r
    <3>1. /\ pc'[q] = pc[q] /\ current'[q] = current[q]
          /\ draft'[q] = draft[q] /\ dto' = dto
          /\ Faithful(q) /\ dto[q].movie \in Movies
      BY <1>1, <2>2 DEF DraftInv, TypeOK, Dtos
    <3>2. CASE dto[q].op = "create"
      <4>1. Active(q) /\ dto[q].movie = m => dto[r].op # "create"
        BY <1>1, <2>2, <3>2 DEF DraftInv, IdsApart
      <4>2. Active(q) => (~Exists(dto[q].movie))'
        BY <1>1, <1>4, <3>1, <3>2, <4>1 DEF Faithful, CreateSolo, Exists
      <4> QED  BY <3>1, <3>2, <4>2 DEF Faithful, Active, CreateSolo, CreateDraft
    <3>3. CASE dto[q].op # "create"
      <4>1. Exists(dto[q].movie) => Exists(dto[q].movie)'
        BY <1>1, <1>3, <3>1 DEF Exists
      <4> QED  BY <3>1, <3>3, <4>1 DEF Faithful, Active, UpdateDraft, TitleWritten,
                  DirectorWritten
    <3> QED  BY <3>2, <3>3
  <2> QED  BY <2>1, <2>2
<1> QED  BY <1>5, <1>6 DEF DraftInv

LEMMA LooksDraft ==
  ASSUME TypeOK, DraftInv, NEW r \in Requests, AnswerRow(r) \/ AnswerGenres(r)
  PROVE  DraftInv'
<1>1. /\ UNCHANGED <<movie, dto, current, draft>>
      /\ \A q \in Requests \ {r} : pc'[q] = pc[q]
      /\ pc[r] \in Closing /\ pc'[r] \in Closing
  BY DEF TypeOK, AnswerRow, AnswerGenres, Goto, tables
<1>2. Active(r) /\ Active(r)'
  BY <1>1 DEF Active, Statements
<1>3. Faithful(r)
  BY DEF DraftInv
<1>4. Faithful(r)'
  BY <1>1, <1>2, <1>3 DEF Faithful, CreateSolo, UpdateDraft, CreateDraft,
     TitleWritten, DirectorWritten, Exists
<1> QED  BY <1>1, <1>2, <1>4, OwnDraftKeeps

LEMMA RequestDraft ==
  ASSUME TypeOK, CatalogInv, SoloInv, DraftInv, NEW r \in Requests, RequestNext(r)
  PROVE  DraftInv'
<1> DEFINE m == dto[r].movie
           d == draft[r]
<1>0. /\ dto[r] \in Dtos /\ m \in Movies /\ d \in Drafts
      /\ dto[r].op \in {"create", "update"}
      /\ dto[r].genres \subseteq Genres /\ current[r] \subseteq Genres
      /\ dto[r].title \in Titles \cup {None}
      /\ dto[r].director \in Directors \cup {None}
      /\ movie[m].genres \subseteq Genres
  BY DEF TypeOK, Dtos, Rows
<1>00. StepsSound!(r)
  BY DEF CatalogInv, StepsSound
<1>01. Active(r) => IF dto[r].op = "create" THEN CreateSolo(r) ELSE UpdateDraft(r)
  BY DEF DraftInv, Faithful
<1>1. ASSUME NEW e \in Dtos, Begin(r, e) PROVE DraftInv'
  <2>1. /\ UNCHANGED <<movie, current, draft>>
        /\ \A q \in Requests \ {r} : dto'[q] = dto[q] /\ pc'[q] = pc[q]
        /\ dto'[r] = e /\ pc[r] = "new" /\ ~Active(r)
        /\ \/ e.op = "create" /\ e.movie \in fresh /\ e.genres # {} /\ pc'[r] = "title"
           \/ e.op = "update" /\ pc'[r] = "find"
    BY <1>1 DEF TypeOK, Begin, Goto, Active, Statements
  <2>2. e.op = "create" =>
          ~Exists(e.movie) /\ \A q \in Requests : Active(q) => dto[q].movie # e.movie
    BY <2>1 DEF SoloInv, FreshUntouched
  <2>3. IdsApart'
    BY <2>1, <2>2 DEF DraftInv, IdsApart, Active
  <2>4. draft[r] = Clean /\ current[r] = {}
    BY <2>1 DEF CatalogInv, StepsSound, Active, SoloInv, IdleIsClean
  <2>5. Faithful(r)'
    BY <2>1, <2>2, <2>4 DEF Faithful, CreateSolo, CreateDraft, UpdateDraft,
       TitleWritten, DirectorWritten, Exists, Clean
  <2>6. ASSUME NEW q \in Requests \ {r} PROVE Faithful(q)'
    BY <2>1, <2>6 DEF DraftInv, Faithful, Active, CreateSolo, UpdateDraft,
       CreateDraft, TitleWritten, DirectorWritten, Exists
  <2> QED  BY <2>3, <2>5, <2>6 DEF DraftInv
<1>2. CASE FindMovie(r)
  <2>1. Active(r)
    BY <1>2 DEF FindMovie, Active, Statements
  <2>2. CASE Fails(r)
    BY <2>1, <2>2, FailsDraft
  <2>3. CASE ~Fails(r)
    <3>1. /\ UNCHANGED <<movie, dto, draft>>
          /\ \A q \in Requests \ {r} : pc'[q] = pc[q] /\ current'[q] = current[q]
          /\ pc[r] = "find" /\ pc'[r] = "title"
      BY <1>2, <2>3 DEF TypeOK, FindMovie, GenresOf, Goto, tables
    <3>2. Faithful(r)'
      BY <1>01, <2>1, <3>1 DEF Faithful, CreateSolo, UpdateDraft, TitleWritten,
         DirectorWritten, Exists
    <3> QED  BY <2>1, <3>1, <3>2, OwnDraftKeeps
  <2> QED  BY <2>2, <2>3
<1>3. CASE FindTitle(r)
  <2>1. Active(r) /\ pc[r] = "title" /\ AfterTitle(r) \in Statements
    BY <1>3 DEF FindTitle, AfterTitle, Active, Statements
  <2>2. CASE Reads(r, AfterTitle(r))
    BY <1>0, <1>00, <2>1, <2>2, ReadsDraft DEF AfterTitle, TitleWritten, DirectorWritten
  <2> QED  BY <1>3, <2>1, <2>2, FailsDraft DEF FindTitle
<1>4. CASE Retitle(r)
  <2>1. Active(r) /\ pc[r] = "retitle" /\ dto[r].op = "update"
    BY <1>4, <1>00 DEF Retitle, Active, Statements
  <2>2. CASE Fails(r)
    BY <2>1, <2>2, FailsDraft
  <2>3. CASE ~Fails(r)
    <3> DEFINE e == [d EXCEPT !.title = dto[r].title]
    <3>1. /\ e \in Drafts /\ e.title = dto[r].title
          /\ e.director = d.director /\ e.add = d.add /\ e.cut = d.cut
      BY <1>0 DEF Drafts
    <3>2. Writes(r, e, "director") /\ Exists(m)
      BY <1>4, <2>3 DEF Retitle
    <3> HIDE DEF e
    <3>3. /\ pc' = [pc EXCEPT ![r] = "director"]
          /\ draft' = [draft EXCEPT ![r] = e]
          /\ UNCHANGED <<movie, dto, current>>
      BY <3>2 DEF Writes, Goto, tables
    <3>4. draft'[r] = e /\ pc'[r] = "director"
      BY <3>3 DEF TypeOK
    <3>5. UpdateDraft(r)'
      BY <1>01, <2>1, <3>1, <3>2, <3>3, <3>4
         DEF UpdateDraft, TitleWritten, DirectorWritten, Exists
    <3> QED  BY <2>1, <3>1, <3>2, <3>3, <3>5, WritesDraft DEF Statements
  <2> QED  BY <2>2, <2>3
<1>5. CASE FindDirector(r)
  <2> DEFINE next == IF dto[r].op = "create"     THEN "genres"
                     ELSE IF dto[r].director = None THEN "detail"
                     ELSE "redirect"
  <2>1. Active(r) /\ pc[r] = "director" /\ next \in Statements
    BY <1>5 DEF FindDirector, Active, Statements
  <2>2. CASE Reads(r, next)
    BY <1>0, <2>1, <2>2, ReadsDraft DEF TitleWritten, DirectorWritten
  <2> QED  BY <1>5, <2>1, <2>2, FailsDraft DEF FindDirector
<1>6. CASE Redirect(r)
  <2>1. Active(r) /\ pc[r] = "redirect" /\ dto[r].op = "update"
    BY <1>6, <1>00 DEF Redirect, Active, Statements
  <2>2. CASE Fails(r)
    BY <2>1, <2>2, FailsDraft
  <2>3. CASE ~Fails(r)
    <3> DEFINE e == [d EXCEPT !.director = dto[r].director]
    <3>1. /\ e \in Drafts /\ e.title = d.title
          /\ e.director = dto[r].director /\ e.add = d.add /\ e.cut = d.cut
      BY <1>0 DEF Drafts
    <3>2. Writes(r, e, "detail") /\ Exists(m)
      BY <1>6, <2>3 DEF Redirect
    <3> HIDE DEF e
    <3>3. /\ pc' = [pc EXCEPT ![r] = "detail"]
          /\ draft' = [draft EXCEPT ![r] = e]
          /\ UNCHANGED <<movie, dto, current>>
      BY <3>2 DEF Writes, Goto, tables
    <3>4. draft'[r] = e /\ pc'[r] = "detail"
      BY <3>3 DEF TypeOK
    <3>5. UpdateDraft(r)'
      BY <1>01, <2>1, <3>1, <3>2, <3>3, <3>4
         DEF UpdateDraft, TitleWritten, DirectorWritten, Exists
    <3> QED  BY <2>1, <3>1, <3>2, <3>3, <3>5, WritesDraft DEF Statements
  <2> QED  BY <2>2, <2>3
<1>7. CASE UpdateDetail(r)
  <2> DEFINE next == IF dto[r].genres = {} THEN "answer" ELSE "genres"
  <2>1. Active(r) /\ pc[r] = "detail" /\ dto[r].op = "update" /\ next \in Statements
    BY <1>7, <1>00 DEF UpdateDetail, Active, Statements
  <2>2. CASE Reads(r, next)
    BY <1>0, <2>1, <2>2, ReadsDraft DEF TitleWritten, DirectorWritten
  <2> QED  BY <1>7, <2>1, <2>2, FailsDraft DEF UpdateDetail
<1>8. CASE FindGenres(r)
  <2> DEFINE next == IF dto[r].op = "create" THEN "insert" ELSE "cut"
  <2>1. Active(r) /\ pc[r] = "genres" /\ next \in Statements
    BY <1>8 DEF FindGenres, Active, Statements
  <2>2. CASE Reads(r, next)
    BY <1>0, <1>01, <2>1, <2>2, ReadsDraft DEF TitleWritten, DirectorWritten, UpdateDraft
  <2> QED  BY <1>8, <2>1, <2>2, FailsDraft DEF FindGenres
<1>9. CASE InsertMovie(r)
  <2>1. Active(r) /\ pc[r] = "insert" /\ dto[r].op = "create"
    BY <1>9, <1>00 DEF InsertMovie, Active, Statements
  <2>2. CASE Fails(r)
    BY <2>1, <2>2, FailsDraft
  <2>3. CASE ~Fails(r)
    <3> DEFINE e == [d EXCEPT !.title = dto[r].title, !.director = dto[r].director]
    <3>1. /\ e \in Drafts /\ e.title = dto[r].title
          /\ e.director = dto[r].director /\ e.add = d.add /\ e.cut = d.cut
      BY <1>0 DEF Drafts
    <3>2. Writes(r, e, "add")
      BY <1>9, <2>3 DEF InsertMovie
    <3>3. e = [title |-> dto[r].title, director |-> dto[r].director,
               cut |-> {}, add |-> {}]
      <4>1. d.cut = {} /\ d.add = {}
        BY <1>01, <2>1 DEF CreateSolo, CreateDraft, Clean
      <4> HIDE DEF d, e
      <4> QED  BY <3>1, <4>1 DEF Drafts
    <3> HIDE DEF e
    <3>4. /\ pc' = [pc EXCEPT ![r] = "add"]
          /\ draft' = [draft EXCEPT ![r] = e]
          /\ UNCHANGED <<movie, dto, current>>
      BY <3>2 DEF Writes, Goto, tables
    <3>5. draft'[r] = e /\ pc'[r] = "add"
      BY <3>4 DEF TypeOK
    <3>6. CreateSolo(r)'
      BY <1>01, <2>1, <3>3, <3>4, <3>5 DEF CreateSolo, CreateDraft, Exists
    <3> QED  BY <2>1, <3>1, <3>2, <3>4, <3>6, WritesDraft DEF Statements
  <2> QED  BY <2>2, <2>3
<1>10. CASE CutGenres(r)
  <2> DEFINE cut == GenreIdsToRemove(r) \cap movie[m].genres
             e   == [d EXCEPT !.cut = cut]
  <2>1. Active(r) /\ pc[r] = "cut" /\ dto[r].op = "update"
    BY <1>10, <1>00 DEF CutGenres, Active, Statements
  <2>2. /\ e \in Drafts /\ e.title = d.title
        /\ e.director = d.director /\ e.add = d.add /\ e.cut = cut
    BY <1>0 DEF Drafts, GenreIdsToRemove
  <2>3. Writes(r, e, "add")
    BY <1>10 DEF CutGenres
  <2>4. ~Exists(m) => cut = {}
    BY <1>0 DEF CatalogInv, RowsSound, NoLeftovers
  <2>5. cut = {} /\ d = Clean => e = Clean
    BY DEF Clean
  <2>6. cut \cap dto[r].genres = {}
    BY DEF GenreIdsToRemove
  <2> HIDE DEF e, cut
  <2>7. /\ pc' = [pc EXCEPT ![r] = "add"]
        /\ draft' = [draft EXCEPT ![r] = e]
        /\ UNCHANGED <<movie, dto, current>>
    BY <2>3 DEF Writes, Goto, tables
  <2>8. draft'[r] = e /\ pc'[r] = "add"
    BY <2>7 DEF TypeOK
  <2>9. UpdateDraft(r)'
    BY <1>01, <2>1, <2>2, <2>4, <2>5, <2>6, <2>7, <2>8
       DEF UpdateDraft, TitleWritten, DirectorWritten, Exists
  <2> QED  BY <2>1, <2>2, <2>3, <2>7, <2>9, WritesDraft DEF Statements
<1>11. CASE AddGenres(r)
  <2>1. Active(r) /\ pc[r] = "add"
    BY <1>11 DEF AddGenres, Active, Statements
  <2>2. CASE Fails(r)
    BY <2>1, <2>2, FailsDraft
  <2>3. CASE ~Fails(r)
    <3> DEFINE add == GenreIdsToAdd(r)
               e   == [d EXCEPT !.add = add]
    <3>1. /\ e \in Drafts /\ e.title = d.title
          /\ e.director = d.director /\ e.add = add /\ e.cut = d.cut
      BY <1>0 DEF Drafts, GenreIdsToAdd
    <3>2. /\ Writes(r, e, "answer")
          /\ add = {} \/ dto[r].op = "create" \/ Exists(m)
      BY <1>0, <1>11, <2>3 DEF AddGenres
    <3>3. add = {} /\ d = Clean => e = Clean
      BY DEF Clean
    <3>4. add = dto[r].genres \ current[r]
      BY DEF GenreIdsToAdd
    <3>5. dto[r].op = "create" =>
            e = [title |-> dto[r].title, director |-> dto[r].director,
                 cut |-> {}, add |-> dto[r].genres]
      <4> SUFFICES ASSUME dto[r].op = "create"
                   PROVE  e = [title |-> dto[r].title, director |-> dto[r].director,
                               cut |-> {}, add |-> dto[r].genres]
        OBVIOUS
      <4>1. d = [title |-> dto[r].title, director |-> dto[r].director,
                 cut |-> {}, add |-> {}]
        BY <1>01, <2>1 DEF CreateSolo, CreateDraft
      <4>2. add = dto[r].genres
        BY <1>01, <2>1, <3>4 DEF CreateSolo
      <4> HIDE DEF add, d
      <4> QED  BY <4>1, <4>2
    <3> HIDE DEF e, add
    <3>6. /\ pc' = [pc EXCEPT ![r] = "answer"]
          /\ draft' = [draft EXCEPT ![r] = e]
          /\ UNCHANGED <<movie, dto, current>>
      BY <3>2 DEF Writes, Goto, tables
    <3>7. draft'[r] = e /\ pc'[r] = "answer"
      BY <3>6 DEF TypeOK
    <3>8. dto[r].op = "create" => CreateSolo(r)'
      BY <1>01, <2>1, <3>5, <3>6, <3>7 DEF CreateSolo, CreateDraft, Exists
    <3>9. dto[r].op # "create" => UpdateDraft(r)'
      BY <1>01, <2>1, <3>1, <3>2, <3>3, <3>4, <3>6, <3>7
         DEF UpdateDraft, TitleWritten, DirectorWritten, Exists
    <3> QED  BY <2>1, <3>1, <3>2, <3>6, <3>8, <3>9, WritesDraft DEF Statements
  <2> QED  BY <2>2, <2>3
<1>12. CASE AnswerRow(r) \/ AnswerGenres(r)
  BY <1>12, LooksDraft
<1>13. CASE Commit(r)
  BY <1>13, CommitDraft
<1>14. CASE Abort(r)
  BY <1>14, FailsDraft DEF Abort, Active
<1> QED
  BY <1>1, <1>2, <1>3, <1>4, <1>5, <1>6, <1>7, <1>8, <1>9, <1>10, <1>11, <1>12,
     <1>13, <1>14 DEF RequestNext


LEMMA DraftNext ==
  TypeOK /\ CatalogInv /\ SoloInv /\ DraftInv /\ [Next]_vars => DraftInv'
<1> SUFFICES ASSUME TypeOK, CatalogInv, SoloInv, DraftInv, [Next]_vars
             PROVE  DraftInv'
  OBVIOUS
<1>1. ASSUME NEW r \in Requests, RequestNext(r) PROVE DraftInv'
  BY <1>1, RequestDraft
<1>2. ASSUME NEW m \in Movies, RemoveMovie(m) PROVE DraftInv'
  <2>1. /\ UNCHANGED <<pc, dto, current, draft>>
        /\ Exists(m) /\ movie'[m] = Blank
        /\ \A n \in Movies \ {m} : movie'[n] = movie[n]
        /\ \A q \in Requests : dto[q].movie = m => draft[q] = Clean
    BY <1>2 DEF TypeOK, RemoveMovie, requests
  <2>2. IdsApart'
    BY <2>1 DEF DraftInv, IdsApart, Active
  <2>3. ASSUME NEW q \in Requests PROVE Faithful(q)'
    <3>1. Faithful(q) /\ dto[q].movie \in Movies
      BY DEF DraftInv, TypeOK, Dtos
    <3> QED
      BY <2>1, <3>1 DEF Faithful, Active, CreateSolo, UpdateDraft, CreateDraft,
         TitleWritten, DirectorWritten, Exists, Blank
  <2> QED  BY <2>2, <2>3 DEF DraftInv
<1>3. ASSUME UNCHANGED <<movie, pc, dto, current, draft>> PROVE DraftInv'
  BY <1>3 DEF DraftInv, IdsApart, Faithful, Active, CreateSolo, UpdateDraft,
     CreateDraft, TitleWritten, DirectorWritten, Exists
<1>4. ASSUME NEW g \in Genres, FindDoomedGenre(g) \/ RemoveGenre(g)
      PROVE  DraftInv'
  BY <1>3, <1>4 DEF FindDoomedGenre, RemoveGenre, tables, requests
<1>5. ASSUME NEW k \in Directors, RemoveDirector(k) PROVE DraftInv'
  BY <1>3, <1>5 DEF RemoveDirector, requests
<1>6. CASE UNCHANGED vars
  BY <1>3, <1>6 DEF vars, tables, requests
<1> QED  BY <1>1, <1>2, <1>4, <1>5, <1>6 DEF Next, RemoveNext

(***************************************************************************)
(* The closing look-up.  It is some steps before the COMMIT, and what it   *)
(* returned stays what the COMMIT makes only if nobody else is about the   *)
(* movie; that it shows the title and the director the request gave holds  *)
(* in any case.                                                            *)
(***************************************************************************)

Looked(r) ==
  LET m    == dto[r].movie
      shut == pc[r] = "commit"
  IN pc[r] \in {"relations", "commit"} =>
       /\ dto[r].title    \in {None, view[r].title}
       /\ dto[r].director \in {None, view[r].director}
       /\ dto[r].op = "create" /\ shut => view[r].genres = dto[r].genres
       /\ dto[r].op # "create" /\ m \notin raced =>
            /\ view[r].genres = {} \/ dto[r].genres \in {{}, view[r].genres}
            /\ Exists(m) => /\ view[r].title = Seen(r).title
                            /\ view[r].director = Seen(r).director
                            /\ shut => view[r].genres = Seen(r).genres

\* Nobody has asked for an id before it is given out, or been answered about a
\* movie that is still being created.
FreshUnasked ==
  \A m \in fresh : \A q \in Requests : pc[q] = "done" => dto[q].movie # m

CreatesFirst ==
  \A r, q \in Requests :
    /\ Active(r) /\ dto[r].op = "create"
    /\ pc[q] = "done" /\ dto[q].movie = dto[r].movie
    => dto[r].movie \in raced

ViewInv ==
  /\ \A r \in Requests : Looked(r)
  /\ FreshUnasked /\ CreatesFirst
  /\ AnswerIsRequest

LEMMA ViewInit == Init => ViewInv
BY DEF Init, ViewInv, Looked, FreshUnasked, CreatesFirst, AnswerIsRequest, Active,
   Statements

\* What a transaction that has written everything sees of its movie.
LEMMA SeenIs ==
  ASSUME TypeOK, CatalogInv, SoloInv, DraftInv, NEW r \in Requests, pc[r] \in Closing
  PROVE  /\ dto[r].title    \in {None, Seen(r).title}
         /\ dto[r].director \in {None, Seen(r).director}
         /\ dto[r].op = "create" =>
              /\ dto[r].title # None /\ dto[r].director # None
              /\ ~Exists(dto[r].movie)
              /\ Seen(r) = [title |-> dto[r].title, director |-> dto[r].director,
                            genres |-> dto[r].genres]
         /\ dto[r].op # "create" /\ ~Exists(dto[r].movie) => Seen(r) = Blank
         /\ Exists(dto[r].movie) => Seen(r).title # None
         /\ dto[r].op # "create" /\ dto[r].movie \notin raced
              /\ Exists(dto[r].movie) /\ dto[r].genres # {} =>
              Seen(r).genres = dto[r].genres
<1> DEFINE m == dto[r].movie
           d == draft[r]
<1>1. Active(r) /\ m \in Movies
  BY DEF Active, Statements, TypeOK, Dtos
<1>2. /\ Seen(r) = [title    |-> Given(d.title, movie[m].title),
                    director |-> Given(d.director, movie[m].director),
                    genres   |-> (movie[m].genres \ d.cut) \cup d.add]
      /\ Seen(r).title = Given(d.title, movie[m].title)
      /\ Seen(r).director = Given(d.director, movie[m].director)
      /\ Seen(r).genres = (movie[m].genres \ d.cut) \cup d.add
  BY DEF Seen, Applied
<1>3. ~Exists(m) => movie[m] = Blank
  BY <1>1 DEF SoloInv, GoneIsBlank
<1>4. Faithful(r) /\ Solo(r)
  BY DEF DraftInv, SoloInv
<1>5. CASE dto[r].op = "create"
  <2>1. /\ ~Exists(m) /\ dto[r].title # None /\ dto[r].director # None
        /\ d = [title |-> dto[r].title, director |-> dto[r].director,
                cut |-> {}, add |-> dto[r].genres]
    BY <1>1, <1>4, <1>5 DEF Faithful, CreateSolo, CreateDraft, CatalogInv, StepsSound
  <2>2. Seen(r) = [title |-> dto[r].title, director |-> dto[r].director,
                   genres |-> dto[r].genres]
    <3>1. /\ d.title = dto[r].title /\ d.director = dto[r].director
          /\ d.cut = {} /\ d.add = dto[r].genres /\ movie[m].genres = {}
      BY <1>3, <2>1 DEF Blank
    <3>2. (movie[m].genres \ d.cut) \cup d.add = dto[r].genres
      BY <3>1
    <3> QED  BY <1>2, <2>1, <3>1, <3>2 DEF Given
  <2> QED  BY <1>5, <2>1, <2>2
<1>6. CASE dto[r].op # "create"
  <2>1. /\ d.title = dto[r].title /\ d.director = dto[r].director
        /\ ~Exists(m) => d = Clean
    BY <1>1, <1>4, <1>6 DEF Faithful, UpdateDraft, TitleWritten, DirectorWritten
  <2>2. ~Exists(m) => Seen(r) = Blank
    BY <1>2, <1>3, <2>1 DEF Given, Clean, Blank
  <2>3. Exists(m) => Seen(r).title # None
    BY <1>2 DEF Given, Exists
  <2>4. ASSUME m \notin raced, Exists(m), dto[r].genres # {}
        PROVE  Seen(r).genres = dto[r].genres
    <3>1. /\ d.cut = movie[m].genres \ dto[r].genres
          /\ d.add = dto[r].genres \ movie[m].genres
      BY <1>1, <1>4, <1>6, <2>4 DEF Solo, UpdateSolo
    <3> QED  BY <1>2, <3>1
  <2>5. /\ dto[r].title    \in {None, Seen(r).title}
        /\ dto[r].director \in {None, Seen(r).director}
    BY <1>2, <2>1 DEF Given
  <2> QED  BY <1>6, <2>2, <2>3, <2>4, <2>5
<1> QED  BY <1>5, <1>6

\* A statement of one request, which neither begins nor ends it with success.
LEMMA OwnViewKeeps ==
  ASSUME TypeOK, ViewInv, NEW r \in Requests, Active(r),
         UNCHANGED <<movie, fresh, raced, answer>>,
         \A q \in Requests \ {r} : /\ pc'[q] = pc[q] /\ dto'[q] = dto[q]
                                   /\ draft'[q] = draft[q] /\ view'[q] = view[q],
         dto'[r].movie = dto[r].movie,
         Active(r)' => dto'[r] = dto[r],
         pc'[r] # "done",
         Looked(r)'
  PROVE  ViewInv'
<1>1. FreshUnasked' /\ AnswerIsRequest'
  BY DEF ViewInv, FreshUnasked, AnswerIsRequest, Exists
<1>2. CreatesFirst'
  BY DEF ViewInv, CreatesFirst, Active
<1>3. ASSUME NEW q \in Requests \ {r} PROVE Looked(q)'
  <2>1. /\ Looked(q) /\ pc'[q] = pc[q] /\ dto'[q] = dto[q]
        /\ draft'[q] = draft[q] /\ view'[q] = view[q]
    BY DEF ViewInv
  <2> QED  BY <2>1 DEF Looked, Exists, Seen
<1> QED  BY <1>1, <1>2, <1>3 DEF ViewInv

LEMMA LooksView ==
  ASSUME TypeOK, CatalogInv, SoloInv, DraftInv, ViewInv, NEW r \in Requests,
         AnswerRow(r) \/ AnswerGenres(r)
  PROVE  ViewInv'
<1> DEFINE m == dto[r].movie
<1>1. /\ UNCHANGED <<movie, fresh, raced, answer, dto, draft>>
      /\ \A q \in Requests \ {r} : pc'[q] = pc[q] /\ view'[q] = view[q]
      /\ pc[r] \in Closing /\ pc'[r] \in {"relations", "commit"}
  BY DEF TypeOK, AnswerRow, AnswerGenres, Goto, tables, others
<1>2. Active(r)
  BY <1>1 DEF Active, Statements
<1>3. Seen(r)' = Seen(r) /\ (Exists(m)' <=> Exists(m))
  BY <1>1 DEF Seen, Exists
<1>4. Looked(r)'
  <2>1. CASE AnswerRow(r)
    <3>1. /\ view'[r].title = Seen(r).title /\ view'[r].director = Seen(r).director
          /\ view'[r].genres = {}
          /\ pc'[r] = "commit" => Seen(r).title = None
      BY <2>1, SeenType DEF AnswerRow, TypeOK, Goto, Rows
    <3> QED  BY <1>1, <1>3, <3>1, SeenIs DEF Looked
  <2>2. CASE AnswerGenres(r)
    <3>1. /\ view'[r].title = view[r].title /\ view'[r].director = view[r].director
          /\ view'[r].genres = Seen(r).genres
          /\ pc[r] = "relations"
      BY <2>2 DEF AnswerGenres, TypeOK, Rows
    <3>2. Looked(r)
      BY DEF ViewInv
    <3>3. ~Exists(m) /\ dto[r].op # "create" => Seen(r).genres = {}
      BY <1>1, SeenIs DEF Blank
    <3> QED  BY <1>1, <1>3, <3>1, <3>2, <3>3, SeenIs DEF Looked
  <2> QED  BY <2>1, <2>2
<1> QED  BY <1>1, <1>2, <1>4, OwnViewKeeps

\* COMMIT: what was read before it is answered now.
LEMMA CommitView ==
  ASSUME TypeOK, CatalogInv, SoloInv, DraftInv, ViewInv, NEW r \in Requests,
         Commit(r)
  PROVE  ViewInv'
<1> DEFINE m == dto[r].movie
<1>1. /\ UNCHANGED <<fresh, raced, dto>>
      /\ m \in Movies
      /\ \A n \in Movies \ {m} : movie'[n] = movie[n]
      /\ movie'[m] = Seen(r) /\ answer'[r] = view[r]
      /\ \A q \in Requests \ {r} : /\ pc'[q] = pc[q] /\ draft'[q] = draft[q]
                                   /\ view'[q] = view[q] /\ answer'[q] = answer[q]
      /\ pc[r] = "commit" /\ pc'[r] = "done" /\ Active(r) /\ ~Active(r)'
  BY DEF TypeOK, Commit, Goto, others, Dtos, Active, Statements
<1>2. m \notin raced => \A q \in Requests \ {r} : Active(q) => dto[q].movie # m
  BY <1>1 DEF SoloInv, RacesNoticed
<1>3. dto[r].op # "create" /\ ~Exists(m) => ~Exists(m)'
  BY <1>1, SeenIs DEF Exists, Blank
<1>4. FreshUnasked'
  BY <1>1 DEF ViewInv, FreshUnasked, SoloInv, FreshUntouched
<1>5. CreatesFirst'
  BY <1>1, <1>2 DEF ViewInv, CreatesFirst, Active
<1>6. ASSUME NEW q \in Requests PROVE Looked(q)'
  <2>1. CASE q = r
    BY <1>1, <2>1 DEF Looked
  <2>2. CASE q # r
    <3>1. /\ Looked(q) /\ pc'[q] = pc[q] /\ dto' = dto /\ raced' = raced
          /\ draft'[q] = draft[q] /\ view'[q] = view[q]
          /\ dto[q].movie \in Movies
      BY <1>1, <2>2 DEF ViewInv, TypeOK, Dtos
    <3>2. dto[q].movie # m => movie'[dto[q].movie] = movie[dto[q].movie]
      BY <1>1, <3>1
    <3>3. pc[q] \in {"relations", "commit"} => dto[q].movie # m \/ m \in raced
      BY <1>2, <2>2 DEF Active, Statements
    <3> QED  BY <3>1, <3>2, <3>3 DEF Looked, Exists, Seen
  <2> QED  BY <2>1, <2>2
<1>7. ASSUME NEW q \in Requests, pc'[q] = "done", answer'[q] # Blank,
             dto[q].movie \notin raced
      PROVE  /\ dto[q].title    \in {None, answer'[q].title}
             /\ dto[q].director \in {None, answer'[q].director}
             /\ \/ dto[q].genres \in {{}, answer'[q].genres}
                \/ answer'[q].genres = {} /\ ~Exists(dto[q].movie)'
  <2>1. CASE q = r
    <3>1. Looked(r)
      BY DEF ViewInv
    <3>2. /\ dto[r].title    \in {None, view[r].title}
          /\ dto[r].director \in {None, view[r].director}
          /\ dto[r].op = "create" => view[r].genres = dto[r].genres
          /\ dto[r].op # "create" =>
               /\ view[r].genres = {} \/ dto[r].genres \in {{}, view[r].genres}
               /\ Exists(m) => view[r].genres = Seen(r).genres
      BY <1>1, <1>7, <2>1, <3>1 DEF Looked
    <3>3. /\ dto[r].op # "create" /\ Exists(m) /\ dto[r].genres # {} =>
               view[r].genres = dto[r].genres
      BY <1>1, <1>7, <2>1, <3>2, SeenIs
    <3> QED  BY <1>1, <1>3, <2>1, <3>2, <3>3
  <2>2. CASE q # r
    <3>1. pc[q] = "done" /\ answer'[q] = answer[q] /\ dto[q].movie \in Movies
      BY <1>1, <1>7, <2>2 DEF TypeOK, Dtos
    <3>2. /\ dto[q].title    \in {None, answer[q].title}
          /\ dto[q].director \in {None, answer[q].director}
          /\ \/ dto[q].genres \in {{}, answer[q].genres}
             \/ answer[q].genres = {} /\ ~Exists(dto[q].movie)
      BY <1>7, <3>1 DEF ViewInv, AnswerIsRequest
    <3>3. ~Exists(dto[q].movie) => ~Exists(dto[q].movie)'
      <4>1. CASE dto[q].movie = m
        <5>1. dto[r].op # "create"
          BY <1>1, <1>7, <3>1, <4>1 DEF ViewInv, CreatesFirst
        <5> QED  BY <1>1, <1>3, <4>1, <5>1 DEF Exists
      <4>2. CASE dto[q].movie # m
        BY <1>1, <3>1, <4>2 DEF Exists
      <4> QED  BY <4>1, <4>2
    <3> QED  BY <3>1, <3>2, <3>3
  <2> QED  BY <2>1, <2>2
<1>8. AnswerIsRequest'
  BY <1>1, <1>7 DEF AnswerIsRequest, Exists
<1> QED  BY <1>4, <1>5, <1>6, <1>8 DEF ViewInv

LEMMA RequestView ==
  ASSUME TypeOK, CatalogInv, SoloInv, DraftInv, ViewInv, NEW r \in Requests,
         RequestNext(r)
  PROVE  ViewInv'
<1>1. ASSUME NEW e \in Dtos, Begin(r, e) PROVE ViewInv'
  <2>1. /\ UNCHANGED <<movie, draft, view, answer>>
        /\ \A q \in Requests \ {r} : dto'[q] = dto[q] /\ pc'[q] = pc[q]
        /\ dto'[r] = e /\ pc'[r] \in {"title", "find"}
        /\ raced \subseteq raced'
        /\ fresh' \subseteq fresh
        /\ e.op = "create" => e.movie \in fresh
    BY <1>1 DEF TypeOK, Begin, Goto
  <2>2. FreshUnasked' /\ AnswerIsRequest'
    BY <2>1 DEF ViewInv, FreshUnasked, AnswerIsRequest, Exists
  <2>3. CreatesFirst'
    <3> SUFFICES ASSUME NEW p \in Requests, NEW q \in Requests,
                        Active(p)', dto'[p].op = "create",
                        pc'[q] = "done", dto'[q].movie = dto'[p].movie
                 PROVE  dto'[p].movie \in raced'
      BY DEF CreatesFirst
    <3>1. q # r /\ pc[q] = "done" /\ dto'[q] = dto[q]
      BY <2>1
    <3>2. CASE p = r
      BY <2>1, <3>1, <3>2 DEF ViewInv, FreshUnasked
    <3>3. CASE p # r
      BY <2>1, <3>1, <3>3 DEF ViewInv, CreatesFirst, Active
    <3> QED  BY <3>2, <3>3
  <2>4. ASSUME NEW q \in Requests PROVE Looked(q)'
    BY <2>1 DEF ViewInv, Looked, Exists, Seen
  <2> QED  BY <2>2, <2>3, <2>4 DEF ViewInv
\* Every statement before the closing look-up, and a failure.
<1>2. ASSUME Active(r),
             UNCHANGED <<movie, fresh, raced, answer>>,
             \A q \in Requests \ {r} :
               /\ pc'[q] = pc[q] /\ dto'[q] = dto[q]
               /\ draft'[q] = draft[q] /\ view'[q] = view[q],
             dto'[r].movie = dto[r].movie,
             Active(r)' => dto'[r] = dto[r],
             pc'[r] \notin {"relations", "commit", "done"}
      PROVE  ViewInv'
  <2>1. Looked(r)'
    BY <1>2 DEF Looked
  <2> QED  BY <1>2, <2>1, OwnViewKeeps
<1>3. ASSUME Active(r), Fails(r) PROVE ViewInv'
  BY <1>2, <1>3 DEF TypeOK, Fails, Goto, tables, others, Nothing, Active, Statements
<1>4. ASSUME Active(r), NEW next \in Statements \ {"relations", "commit"},
             Reads(r, next)
      PROVE  ViewInv'
  BY <1>2, <1>4 DEF TypeOK, Reads, Goto, tables, others, Statements
<1>5. ASSUME Active(r), NEW next \in Statements \ {"relations", "commit"}, NEW d,
             Writes(r, d, next)
      PROVE  ViewInv'
  BY <1>2, <1>5 DEF TypeOK, Writes, Goto, tables, others, Statements
<1>6. CASE FindMovie(r)
  <2>1. Active(r)
    BY <1>6 DEF FindMovie, Active, Statements
  <2>2. CASE Fails(r)
    BY <1>3, <2>1, <2>2
  <2>3. CASE ~Fails(r)
    BY <1>2, <1>6, <2>1, <2>3 DEF TypeOK, FindMovie, Goto, tables, others
  <2> QED  BY <2>2, <2>3
<1>7. \A s \in Statements : pc[r] = s => Active(r)
  BY DEF Active
<1>8. CASE FindTitle(r) \/ FindDirector(r) \/ UpdateDetail(r) \/ FindGenres(r)
  BY <1>3, <1>4, <1>7, <1>8
     DEF FindTitle, AfterTitle, FindDirector, UpdateDetail, FindGenres, Statements
<1>9. CASE Retitle(r) \/ Redirect(r) \/ InsertMovie(r)
  BY <1>3, <1>5, <1>7, <1>9 DEF Retitle, Redirect, InsertMovie, Statements
<1>10. CASE CutGenres(r) \/ AddGenres(r)
  BY <1>3, <1>5, <1>7, <1>10 DEF CutGenres, AddGenres, Statements
<1>11. CASE AnswerRow(r) \/ AnswerGenres(r)
  BY <1>11, LooksView
<1>12. CASE Commit(r)
  BY <1>12, CommitView
<1>13. CASE Abort(r)
  BY <1>3, <1>13 DEF Abort, Active
<1> QED
  BY <1>1, <1>6, <1>8, <1>9, <1>10, <1>11, <1>12, <1>13 DEF RequestNext

LEMMA ViewNext ==
  TypeOK /\ CatalogInv /\ SoloInv /\ DraftInv /\ ViewInv /\ [Next]_vars => ViewInv'
<1> SUFFICES ASSUME TypeOK, CatalogInv, SoloInv, DraftInv, ViewInv, [Next]_vars
             PROVE  ViewInv'
  OBVIOUS
<1>1. ASSUME NEW r \in Requests, RequestNext(r) PROVE ViewInv'
  BY <1>1, RequestView
<1>2. ASSUME NEW m \in Movies, RemoveMovie(m) PROVE ViewInv'
  <2>1. /\ UNCHANGED <<fresh, raced, pc, dto, draft, view, answer>>
        /\ movie'[m] = Blank
        /\ \A n \in Movies \ {m} : movie'[n] = movie[n]
    BY <1>2 DEF TypeOK, RemoveMovie, requests, others
  <2>2. FreshUnasked' /\ CreatesFirst'
    BY <2>1 DEF ViewInv, FreshUnasked, CreatesFirst, Active
  <2>3. \A n \in Movies : Exists(n)' => Exists(n) /\ movie'[n] = movie[n]
    BY <2>1 DEF Exists, Blank
  <2>4. ASSUME NEW q \in Requests PROVE Looked(q)'
    <3>1. Looked(q) /\ dto[q].movie \in Movies
      BY DEF ViewInv, TypeOK, Dtos
    <3>2. Exists(dto[q].movie)' => Exists(dto[q].movie) /\ Seen(q)' = Seen(q)
      BY <2>1, <2>3, <3>1 DEF Seen
    <3> QED  BY <2>1, <3>1, <3>2 DEF Looked
  <2>5. \A q \in Requests : ~Exists(dto[q].movie) => ~Exists(dto[q].movie)'
    BY <2>1, <2>3 DEF TypeOK, Dtos
  <2>6. AnswerIsRequest'
    BY <2>1, <2>5 DEF ViewInv, AnswerIsRequest
  <2> QED  BY <2>2, <2>4, <2>6 DEF ViewInv
<1>3. ASSUME UNCHANGED <<movie, fresh, raced, pc, dto, draft, view, answer>>
      PROVE  ViewInv'
  BY <1>3 DEF ViewInv, Looked, FreshUnasked, CreatesFirst, AnswerIsRequest, Active,
     Exists, Seen
<1>4. ASSUME NEW g \in Genres, FindDoomedGenre(g) \/ RemoveGenre(g)
      PROVE  ViewInv'
  BY <1>3, <1>4 DEF FindDoomedGenre, RemoveGenre, tables, requests
<1>5. ASSUME NEW k \in Directors, RemoveDirector(k) PROVE ViewInv'
  BY <1>3, <1>5 DEF RemoveDirector, requests, others
<1>6. CASE UNCHANGED vars
  BY <1>3, <1>6 DEF vars, tables, requests, others
<1> QED  BY <1>1, <1>2, <1>4, <1>5, <1>6 DEF Next, RemoveNext

\* An update that meets no other of its movie does all it was asked and is
\* answered that, whatever movies, directors and genres come and go while it runs.
THEOREM AnswersAreRequests == Spec => []AnswerIsRequest
<1>1. ViewInv => AnswerIsRequest
  BY DEF ViewInv
<1> QED
  BY <1>1, TypeInit, TypeNext, CatalogInit, CatalogNext, SoloInit, SoloNext,
     DraftInit, DraftNext, ViewInit, ViewNext, PTL DEF Spec

(***************************************************************************)
(* The statements implement MovieStore: a COMMIT is its Create, Update or  *)
(* Miss, a failure its Refuse, the call its Ask, and every other statement *)
(* changes nothing a reader of committed rows could see.                   *)
(***************************************************************************)

LEMMA StoreInit == Init => Store!Init
<1> SUFFICES ASSUME Init PROVE Store!Init
  OBVIOUS
<1>1. Asked = [r \in Requests |-> Store!Idle]
  BY DEF Init, Asked, Statements, Store!Idle
<1>2. \A m \in Movies : ~(m \in fresh) => ~Store!TitleTaken(m, movie[m].title)
  BY DEF Init, Consistent, Exists, Store!TitleTaken
<1> QED  BY <1>1, <1>2 DEF Init, Blank, Exists, Store!Init, Store!Blank, Store!Exists

\* What is asked for changes with the request whose step it is.
LEMMA AskedOf ==
  ASSUME TypeOK, NEW r \in Requests,
         \A q \in Requests \ {r} : pc'[q] = pc[q] /\ dto'[q] = dto[q]
  PROVE  /\ Active(r)' /\ dto'[r] = dto[r] /\ Active(r) => Asked' = Asked
         /\ ~Active(r)' => Asked' = [Asked EXCEPT ![r] = Store!Idle]
         /\ Active(r)' => Asked' = [Asked EXCEPT ![r] = dto'[r]]
BY DEF Asked, Active, Store!Idle

LEMMA AskedIs ==
  ASSUME TypeOK, NEW r \in Requests
  PROVE  /\ Active(r) => Asked[r] = dto[r] /\ Asked[r] # Store!Idle
         /\ ~Active(r) => Asked[r] = Store!Idle
<1>1. Active(r) => Asked[r] = dto[r]
  BY DEF Asked, Active
<1>2. dto[r].op # Store!Idle.op
  BY DEF TypeOK, Dtos, Store!Idle
<1>3. ~Active(r) => Asked[r] = Store!Idle
  BY DEF Asked, Active, Store!Idle
<1> QED  BY <1>1, <1>2, <1>3

\* COMMIT.
LEMMA StoreCommit ==
  ASSUME TypeOK, CatalogInv, SoloInv, DraftInv, ViewInv, CatalogInv',
         NEW r \in Requests, Commit(r)
  PROVE  Store!Next
<1> DEFINE m   == dto[r].movie
           d   == draft[r]
<1>1. PICK row \in Rows : row = Seen(r)
  BY SeenType
<1>2. PICK shown \in Rows : shown = view[r]
  BY DEF TypeOK
<1>3. /\ UNCHANGED <<fresh, directors, genres, dto, raced>>
      /\ movie' = [movie EXCEPT ![m] = row]
      /\ answer' = [answer EXCEPT ![r] = shown]
      /\ m \in Movies /\ movie[m] \in Rows /\ d \in Drafts /\ dto[r] \in Dtos
      /\ \A q \in Requests \ {r} : pc'[q] = pc[q]
      /\ pc[r] = "commit" /\ Active(r) /\ ~Active(r)'
      /\ movie'[m] = row
  BY <1>1, <1>2 DEF TypeOK, Commit, Goto, Dtos, others, Active, Statements
<1>4. /\ Asked' = [Asked EXCEPT ![r] = Store!Idle]
      /\ Asked[r] = dto[r] /\ Asked[r] # Store!Idle
  BY <1>3, AskedOf, AskedIs
<1>5. Faithful(r) /\ Looked(r)
  BY DEF DraftInv, ViewInv
<1>6. /\ dto[r].title    \in {None, shown.title}
      /\ dto[r].director \in {None, shown.director}
  BY <1>2, <1>3, <1>5 DEF Looked
<1>7. row.title # None => Store!Makes(r, row, shown)
  <2> SUFFICES ASSUME row.title # None PROVE Store!Makes(r, row, shown)
    OBVIOUS
  <2>1. /\ row.director \in directors /\ row.genres \subseteq genres
        /\ ~Store!TitleTaken(m, row.title)
    <3>1. Exists(m)' /\ movie'[m] = row
      BY <1>3 DEF Exists
    <3>2. /\ movie'[m].director \in directors' /\ movie'[m].genres \subseteq genres'
          /\ \A n \in Movies : movie'[m].title = movie'[n].title => m = n
      BY <1>3, <3>1 DEF CatalogInv, RowsSound, Consistent
    <3>3. \A n \in Movies \ {m} : movie'[n] = movie[n]
      BY <1>3 DEF TypeOK
    <3> QED  BY <1>3, <3>2, <3>3 DEF Store!TitleTaken
  <2> QED  BY <1>3, <1>4, <2>1 DEF Store!Makes
<1>8. CASE dto[r].op = "create"
  <2>1. /\ dto[r].title # None /\ dto[r].director # None /\ ~Exists(m)
        /\ row = [title |-> dto[r].title, director |-> dto[r].director,
                  genres |-> dto[r].genres]
    BY <1>1, <1>3, <1>8, SeenIs
  <2>2. dto[r].genres # {}
    BY <1>3, <1>5, <1>8 DEF Faithful, CreateSolo
  <2>3. shown = row
    <3>1. shown.genres = dto[r].genres
      BY <1>2, <1>3, <1>5, <1>8 DEF Looked
    <3>2. shown = [title |-> shown.title, director |-> shown.director,
                   genres |-> shown.genres]
      BY DEF Rows
    <3> QED  BY <1>6, <2>1, <3>1, <3>2
  <2>4. Store!Makes(r, row, row)
    BY <1>7, <2>1, <2>3
  <2>5. Store!Create(r)
    BY <1>4, <1>8, <2>1, <2>2, <2>4 DEF Store!Create, Store!Exists, Exists
  <2> QED  BY <2>5 DEF Store!Next
<1>9. CASE dto[r].op # "create" /\ Exists(m)
  <2>0. dto[r].op = "update"
    BY <1>3, <1>9 DEF Dtos
  <2>1. /\ d.title = dto[r].title /\ d.director = dto[r].director
        /\ dto[r].genres = {} => d.cut = {} /\ d.add = {}
        /\ d.cut \cap dto[r].genres = {} /\ d.add \subseteq dto[r].genres
    BY <1>3, <1>5, <1>9 DEF Faithful, UpdateDraft, TitleWritten, DirectorWritten
  <2>2. row = [title    |-> Given(d.title, movie[m].title),
               director |-> Given(d.director, movie[m].director),
               genres   |-> (movie[m].genres \ d.cut) \cup d.add]
    BY <1>1 DEF Seen, Applied
  <2>3. row.genres \in Store!GenresAfter(r)
    <3>1. CASE dto[r].genres = {}
      BY <1>4, <2>1, <2>2, <3>1 DEF Store!GenresAfter
    <3>2. CASE dto[r].genres # {} /\ m \notin raced
      <4>1. row.genres = dto[r].genres
        BY <1>1, <1>3, <1>9, <3>2, SeenIs
      <4> QED  BY <1>4, <3>2, <4>1 DEF Store!GenresAfter
    <3>3. CASE dto[r].genres # {} /\ m \in raced
      <4>1. /\ row.genres \subseteq movie[m].genres \cup dto[r].genres
            /\ movie[m].genres \cap dto[r].genres \subseteq row.genres
        BY <2>1, <2>2
      <4> QED  BY <1>4, <3>3, <4>1 DEF Store!GenresAfter
    <3> QED  BY <3>1, <3>2, <3>3
  <2>4. row.title # None
    BY <1>1, <1>3, <1>9, SeenIs
  <2>5. row = [title    |-> Store!Given(dto[r].title, movie[m].title),
               director |-> Store!Given(dto[r].director, movie[m].director),
               genres   |-> row.genres]
    BY <2>1, <2>2 DEF Given, Store!Given
  <2>6. shown \in Store!Shown(r, row)
    <3>1. CASE m \notin raced
      <4>1. /\ shown.title = row.title /\ shown.director = row.director
            /\ shown.genres = row.genres
        BY <1>1, <1>2, <1>3, <1>5, <1>9, <3>1 DEF Looked
      <4>2. shown = row
        BY <4>1 DEF Rows
      <4> QED  BY <1>4, <3>1, <4>2 DEF Store!Shown
    <3>2. CASE m \in raced
      BY <1>4, <1>6, <3>2 DEF Store!Shown, Store!Rows, Rows
    <3> QED  BY <3>1, <3>2
  <2>7. Store!Update(r)
    BY <1>4, <1>7, <1>9, <2>0, <2>3, <2>4, <2>5, <2>6
       DEF Store!Update, Store!Exists, Exists
  <2> QED  BY <2>7 DEF Store!Next
<1>10. CASE dto[r].op # "create" /\ ~Exists(m)
  <2>0. dto[r].op = "update"
    BY <1>3, <1>10 DEF Dtos
  <2>1. row = Blank
    BY <1>1, <1>3, <1>10, SeenIs
  <2>2. movie[m] = Blank
    BY <1>3, <1>10 DEF SoloInv, GoneIsBlank
  <2>3. movie' = movie
    BY <1>3, <2>1, <2>2 DEF TypeOK
  <2>4. shown \in Store!Rows
    BY DEF Store!Rows, Rows
  <2>5. Store!Miss(r)
    BY <1>3, <1>4, <1>6, <1>10, <2>0, <2>3, <2>4 DEF Store!Miss, Store!Exists, Exists
  <2> QED  BY <2>5 DEF Store!Next
<1> QED  BY <1>8, <1>9, <1>10

\* The call, a failure, and a statement that others do not see.
LEMMA StoreBegin ==
  ASSUME TypeOK, NEW r \in Requests, NEW e \in Dtos, Begin(r, e)
  PROVE  Store!Next
<1>1. /\ UNCHANGED <<movie, directors, genres, answer>>
      /\ \A q \in Requests \ {r} : dto'[q] = dto[q] /\ pc'[q] = pc[q]
      /\ dto'[r] = e /\ e.movie \in Movies
      /\ ~Active(r) /\ Active(r)'
      /\ raced' = IF \E q \in Requests : Active(q) /\ dto[q].movie = e.movie
                    THEN raced \cup {e.movie} ELSE raced
      /\ \/ e.op = "create" /\ e.movie \in fresh /\ fresh' = fresh \ {e.movie}
         \/ e.op = "update" /\ e.movie \notin fresh /\ fresh' = fresh
  BY DEF TypeOK, Begin, Goto, Dtos, Active, Statements
<1>2. Asked' = [Asked EXCEPT ![r] = e] /\ Asked[r] = Store!Idle
  BY <1>1, AskedOf, AskedIs
<1>3. Asked'[r] = e
  BY <1>2 DEF Asked
<1>4. \A q \in Requests :
        (Active(q) /\ dto[q].movie = e.movie)
          <=> (Asked[q] # Store!Idle /\ Asked[q].movie = e.movie)
  BY AskedIs
<1>5. e \in Store!Wishes
  BY DEF Dtos, Store!Wishes
<1>6. Store!Ask(r)
  BY <1>1, <1>2, <1>3, <1>4, <1>5 DEF Store!Ask
<1> QED  BY <1>6 DEF Store!Next

LEMMA StoreFails ==
  ASSUME TypeOK, NEW r \in Requests, Active(r), Fails(r)
  PROVE  Store!Next
<1>1. /\ UNCHANGED <<movie, fresh, directors, genres, answer, raced>>
      /\ \A q \in Requests \ {r} : dto'[q] = dto[q] /\ pc'[q] = pc[q]
      /\ ~Active(r)'
  BY DEF TypeOK, Fails, Goto, tables, others, Active, Statements
<1>2. Asked' = [Asked EXCEPT ![r] = Store!Idle] /\ Asked[r] # Store!Idle
  BY <1>1, AskedOf, AskedIs
<1>3. Store!Refuse(r)
  BY <1>1, <1>2 DEF Store!Refuse
<1> QED  BY <1>3 DEF Store!Next

LEMMA StoreUnseen ==
  ASSUME TypeOK, NEW r \in Requests, Active(r), Active(r)',
         UNCHANGED <<tables, dto, answer, raced>>,
         \A q \in Requests \ {r} : pc'[q] = pc[q]
  PROVE  UNCHANGED Store!store
<1>1. Asked' = Asked
  BY AskedOf
<1> QED  BY <1>1 DEF Store!store, tables

LEMMA StoreReads ==
  ASSUME TypeOK, NEW r \in Requests, NEW next \in Statements, Active(r),
         Reads(r, next)
  PROVE  UNCHANGED Store!store
<1>1. /\ UNCHANGED <<tables, dto, answer, raced>> /\ Active(r)'
      /\ \A q \in Requests \ {r} : pc'[q] = pc[q]
  BY DEF TypeOK, Reads, Goto, others, Active
<1> QED  BY <1>1, StoreUnseen

LEMMA StoreWrites ==
  ASSUME TypeOK, NEW r \in Requests, NEW next \in Statements, NEW d, Active(r),
         Writes(r, d, next)
  PROVE  UNCHANGED Store!store
<1>1. /\ UNCHANGED <<tables, dto, answer, raced>> /\ Active(r)'
      /\ \A q \in Requests \ {r} : pc'[q] = pc[q]
  BY DEF TypeOK, Writes, Goto, others, Active
<1> QED  BY <1>1, StoreUnseen

LEMMA StoreNext ==
  TypeOK /\ CatalogInv /\ SoloInv /\ DraftInv /\ ViewInv /\ CatalogInv' /\ [Next]_vars
  => [Store!Next]_(Store!store)
<1> SUFFICES ASSUME TypeOK, CatalogInv, SoloInv, DraftInv, ViewInv, CatalogInv',
                    [Next]_vars
             PROVE  [Store!Next]_(Store!store)
  OBVIOUS
<1>1. ASSUME NEW r \in Requests, RequestNext(r)
      PROVE  [Store!Next]_(Store!store)
  <2>0. \A s \in Statements : pc[r] = s => Active(r)
    BY DEF Active
  <2>1. ASSUME NEW e \in Dtos, Begin(r, e) PROVE Store!Next
    BY <2>1, StoreBegin
  <2>2. CASE FindMovie(r)
    <3>1. Active(r)
      BY <2>2 DEF FindMovie, Active, Statements
    <3>2. CASE Fails(r)
      BY <3>1, <3>2, StoreFails
    <3>3. CASE ~Fails(r)
      <4>1. /\ UNCHANGED <<tables, dto, answer, raced>> /\ Active(r)'
            /\ \A q \in Requests \ {r} : pc'[q] = pc[q]
        BY <2>2, <3>3 DEF TypeOK, FindMovie, Goto, others, Active, Statements
      <4> QED  BY <3>1, <4>1, StoreUnseen
    <3> QED  BY <3>2, <3>3
  <2>3. CASE FindTitle(r)
    BY <2>0, <2>3, StoreFails, StoreReads DEF FindTitle, AfterTitle, Statements
  <2>4. CASE Retitle(r)
    BY <2>0, <2>4, StoreFails, StoreWrites DEF Retitle, Statements
  <2>5. CASE FindDirector(r)
    BY <2>0, <2>5, StoreFails, StoreReads DEF FindDirector, Statements
  <2>6. CASE Redirect(r)
    BY <2>0, <2>6, StoreFails, StoreWrites DEF Redirect, Statements
  <2>7. CASE UpdateDetail(r)
    BY <2>0, <2>7, StoreFails, StoreReads DEF UpdateDetail, Statements
  <2>8. CASE FindGenres(r)
    BY <2>0, <2>8, StoreFails, StoreReads DEF FindGenres, Statements
  <2>9. CASE InsertMovie(r)
    BY <2>0, <2>9, StoreFails, StoreWrites DEF InsertMovie, Statements
  <2>10. CASE CutGenres(r)
    BY <2>0, <2>10, StoreWrites DEF CutGenres, Statements
  <2>11. CASE AddGenres(r)
    BY <2>0, <2>11, StoreFails, StoreWrites DEF AddGenres, Statements
  <2>12. CASE AnswerRow(r) \/ AnswerGenres(r)
    <3>1. /\ UNCHANGED <<tables, dto, answer, raced>> /\ Active(r) /\ Active(r)'
          /\ \A q \in Requests \ {r} : pc'[q] = pc[q]
      BY <2>12 DEF TypeOK, AnswerRow, AnswerGenres, Goto, others, Active, Statements
    <3> QED  BY <3>1, StoreUnseen
  <2>13. CASE Commit(r)
    BY <2>13, StoreCommit
  <2>14. CASE Abort(r)
    BY <2>14, StoreFails DEF Abort, Active
  <2> QED
    BY <1>1, <2>1, <2>2, <2>3, <2>4, <2>5, <2>6, <2>7, <2>8, <2>9, <2>10,
       <2>11, <2>12, <2>13, <2>14 DEF RequestNext
<1>2. UNCHANGED <<pc, dto>> => UNCHANGED Asked
  BY DEF Asked
<1>3. ASSUME NEW m \in Movies, RemoveMovie(m) PROVE Store!Next
  <2>1. Store!Remove(m)
    BY <1>2, <1>3 DEF RemoveMovie, requests, others, Exists, Blank, Store!Remove,
       Store!Exists, Store!Blank
  <2> QED  BY <2>1 DEF Store!Next
<1>4. ASSUME NEW d \in Directors, RemoveDirector(d) PROVE Store!Next
  <2>1. Store!RemoveDirector(d)
    BY <1>2, <1>4 DEF RemoveDirector, requests, others, Store!RemoveDirector
  <2> QED  BY <2>1 DEF Store!Next
<1>5. ASSUME NEW g \in Genres, FindDoomedGenre(g) PROVE UNCHANGED Store!store
  BY <1>2, <1>5 DEF FindDoomedGenre, tables, requests, Store!store
<1>6. ASSUME NEW g \in Genres, RemoveGenre(g) PROVE [Store!Next]_(Store!store)
  <2>1. CASE InUse(g)
    BY <1>2, <1>6, <2>1 DEF RemoveGenre, requests, Store!store
  <2>2. CASE ~InUse(g)
    <3>1. Store!RemoveGenre(g)
      BY <1>2, <1>6, <2>2 DEF RemoveGenre, InUse, requests, Store!RemoveGenre
    <3> QED  BY <3>1 DEF Store!Next
  <2> QED  BY <2>1, <2>2
<1>7. UNCHANGED vars => UNCHANGED Store!store
  BY <1>2 DEF vars, tables, requests, others, Store!store
<1> QED  BY <1>1, <1>3, <1>4, <1>5, <1>6, <1>7 DEF Next, RemoveNext

\* Whatever statements interleave, every request is one step of MovieStore, its
\* COMMIT, that does what was asked, or it is none.  It is answered the row it
\* makes if it had its movie to itself, and the title and director it gave if not.
THEOREM RequestsImplementStore == Spec => StoreSpec
BY TypeInit, TypeNext, CatalogInit, CatalogNext, SoloInit, SoloNext, DraftInit,
   DraftNext, ViewInit, ViewNext, StoreInit, StoreNext, PTL DEF Spec, StoreSpec, Store!Spec

=============================================================================
