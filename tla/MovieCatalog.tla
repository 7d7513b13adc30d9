----------------------------- MODULE MovieCatalog -----------------------------
(***************************************************************************)
(* The catalogue: MovieService.create, update and remove, which keep the   *)
(* title, director and genres of movies, and DirectorService.remove and    *)
(* GenreService.remove, which take away what movies refer to.              *)
(*                                                                         *)
(* Every request of create and update is one READ COMMITTED transaction of *)
(* several statements.  What it has written is its draft: others see it    *)
(* from its COMMIT on, and wait for it where PostgreSQL's row, key and     *)
(* unique index locks make them wait.  An id is never used again, so the   *)
(* look-up before the DELETE of a movie or director decides nothing that   *)
(* the DELETE does not, and the two are one step.  Prisma reads a row and  *)
(* the relations a query includes in SELECTs of their own.                 *)
(***************************************************************************)
EXTENDS FiniteSets

CONSTANTS Movies,     \* ids of movies
          Titles,
          Directors,  \* ids of directors
          Genres,     \* ids of genres
          Requests,   \* requests to create or update a movie
          None        \* a field that is not given

ASSUME NoneAssumption == None \notin Titles \cup Directors

VARIABLES
  movie,      \* the committed movie rows with their movie_genres_genre rows
  fresh,      \* ids the sequence has not given out
  directors,  \* director rows that exist
  genres,     \* genre rows that exist
  pc,         \* the next statement of each request
  dto,        \* its movie and what is to become of it
  current,    \* currentGenreIds: the genres update found on the movie
  draft,      \* what its transaction has written so far
  view,       \* what its closing look-up has returned so far
  answer,     \* the movie it was answered
  doomed,     \* genres that GenreService.remove has found unused
  raced       \* history: movies that two requests were about at once

tables   == <<movie, fresh, directors, genres>>
requests == <<pc, dto, current, draft, view, answer>>
others   == <<doomed, raced>>
vars     == <<tables, requests, others>>

\* No row, and a row nobody has written to.
Blank == [title |-> None, director |-> None, genres |-> {}]
Clean == [title |-> None, director |-> None, cut |-> {}, add |-> {}]

Rows == [title : Titles \cup {None}, director : Directors \cup {None},
         genres : SUBSET Genres]

\* UpdateMovieDto makes every field optional; genreIds, if given, is not
\* empty, so that {} can stand for its absence.
Dtos == [op : {"create", "update"}, movie : Movies, title : Titles \cup {None},
         director : Directors \cup {None}, genres : SUBSET Genres]

\* A request that has yet to come, or has failed.
Nothing(m) == [op |-> "update", movie |-> m, title |-> None,
               director |-> None, genres |-> {}]

Drafts == [title : Titles \cup {None}, director : Directors \cup {None},
           cut : SUBSET Genres, add : SUBSET Genres]

Statements == {"find", "title", "retitle", "director", "redirect", "detail",
               "genres", "insert", "cut", "add", "answer", "relations", "commit"}

TypeOK ==
  /\ movie \in [Movies -> Rows]
  /\ fresh \subseteq Movies
  /\ directors \subseteq Directors
  /\ genres \subseteq Genres
  /\ pc \in [Requests -> Statements \cup {"new", "done", "failed"}]
  /\ dto \in [Requests -> Dtos]
  /\ current \in [Requests -> SUBSET Genres]
  /\ draft \in [Requests -> Drafts]
  /\ view \in [Requests -> Rows]
  /\ answer \in [Requests -> Rows]
  /\ doomed \subseteq Genres
  /\ raced \subseteq Movies

Exists(m) == movie[m].title # None

\* No two movies have the same title, and every director and genre a movie
\* refers to is there.
Consistent ==
  /\ \A m, n \in Movies :
       Exists(m) /\ movie[m].title = movie[n].title => m = n
  /\ \A m \in Movies :
       Exists(m) => /\ movie[m].director \in directors
                    /\ movie[m].genres \subseteq genres

\* A movie that was created has genres ("@ArrayNotEmpty()" on genreIds), as
\* long as nobody changes it while another request does.
NeverWithoutGenres ==
  \A m \in Movies \ raced : Exists(m) => movie[m].genres # {}

Init ==
  /\ fresh \in SUBSET Movies
  /\ movie \in [Movies -> Rows]
  /\ \A m \in Movies : IF m \in fresh THEN movie[m] = Blank
                                     ELSE Exists(m) /\ movie[m].genres # {}
  /\ directors = Directors
  /\ genres = Genres
  /\ Consistent
  /\ pc = [r \in Requests |-> "new"]
  /\ dto \in [Requests -> {Nothing(m) : m \in Movies}]
  /\ current = [r \in Requests |-> {}]
  /\ draft = [r \in Requests |-> Clean]
  /\ view = [r \in Requests |-> Blank]
  /\ answer = [r \in Requests |-> Blank]
  /\ doomed = {}
  /\ raced = {}

-----------------------------------------------------------------------------
Goto(r, statement) == pc' = [pc EXCEPT ![r] = statement]

\* An exception leaves $transaction: nothing of the draft stays.
Fails(r) ==
  /\ Goto(r, "failed")
  /\ dto' = [dto EXCEPT ![r] = Nothing(@.movie)]
  /\ current' = [current EXCEPT ![r] = {}]
  /\ draft' = [draft EXCEPT ![r] = Clean]
  /\ view' = [view EXCEPT ![r] = Blank]
  /\ UNCHANGED <<tables, answer, others>>

\* A statement that only reads, or waits, and goes on to the next.
Reads(r, next) ==
  /\ Goto(r, next)
  /\ UNCHANGED <<tables, dto, current, draft, view, answer, others>>

\* A statement that leaves the draft d.
Writes(r, d, next) ==
  /\ draft' = [draft EXCEPT ![r] = d]
  /\ Goto(r, next)
  /\ UNCHANGED <<tables, dto, current, view, answer, others>>

\* The other transactions that are about the same movie.
Rivals(r) == {q \in Requests \ {r} : dto[q].movie = dto[r].movie}

\* Those that hold the lock of the movie row, to change it.
Holders(r) == {q \in Rivals(r) : draft[q].title # None \/ draft[q].director # None}

-----------------------------------------------------------------------------
\* POST /movie for an id nobody has had, or PATCH /movie/:id.
Begin(r, d) ==
  /\ pc[r] = "new"
  /\ dto' = [dto EXCEPT ![r] = d]
  /\ \/ /\ d.op = "create"
        /\ d.movie \in fresh
        /\ d.title # None /\ d.director # None /\ d.genres # {}
        /\ fresh' = fresh \ {d.movie}
        /\ Goto(r, "title")
     \/ /\ d.op = "update"
        /\ d.movie \notin fresh
        /\ UNCHANGED fresh
        /\ Goto(r, "find")
  /\ raced' = IF \E q \in Requests : pc[q] \in Statements /\ dto[q].movie = d.movie
                THEN raced \cup {d.movie} ELSE raced
  /\ UNCHANGED <<movie, directors, genres, current, draft, view, answer, doomed>>

\* Variant for a run to refute: currentGenreIds holds rows in place of ids.
GenresOf_Rows(m) == {<<m, g>> : g \in movie[m].genres}

GenresOf(m) == movie[m].genres

\* existingMovie, with the genres it has now.  That a removal falls between its
\* SELECTs shows in nothing: the genres it names then have no movie to go to.
FindMovie(r) ==
  /\ pc[r] = "find"
  /\ IF Exists(dto[r].movie)
       THEN /\ current' = [current EXCEPT ![r] = GenresOf(dto[r].movie)]
            /\ Goto(r, "title")
            /\ UNCHANGED <<tables, dto, draft, view, answer, others>>
       ELSE Fails(r)

Taken(r) == \E m \in Movies \ {dto[r].movie} : movie[m].title = dto[r].title

\* Variant: the title is checked and not updated.
AfterTitle_NoUpdate(r) == "director"

AfterTitle(r) ==
  IF dto[r].title = None \/ dto[r].op = "create" THEN "director" ELSE "retitle"

\* titleExists, duplicateTitle.
FindTitle(r) ==
  /\ pc[r] = "title"
  /\ IF dto[r].title # None /\ Taken(r) THEN Fails(r)
                                       ELSE Reads(r, AfterTitle(r))

\* Nobody else has the title in a transaction that may still commit.
TitleFree(r) == \A q \in Requests \ {r} : draft[q].title # dto[r].title

\* movie.update of the title.  A title that changes is a key that changes: the
\* statement also waits for those who have added genres to the movie.
Retitle(r) ==
  LET m == dto[r].movie
  IN /\ pc[r] = "retitle"
     /\ TitleFree(r)
     /\ Holders(r) = {}
     /\ movie[m].title # dto[r].title => \A q \in Rivals(r) : draft[q].add = {}
     /\ IF ~Exists(m) \/ Taken(r)
          THEN Fails(r)
          ELSE Writes(r, [draft[r] EXCEPT !.title = dto[r].title], "director")

FindDirector(r) ==
  /\ pc[r] = "director"
  /\ IF dto[r].director # None /\ dto[r].director \notin directors
       THEN Fails(r)
       ELSE Reads(r, IF dto[r].op = "create"     THEN "genres"
                     ELSE IF dto[r].director = None THEN "detail"
                     ELSE "redirect")

\* movie.update of the director.
Redirect(r) ==
  /\ pc[r] = "redirect"
  /\ Holders(r) = {}
  /\ IF ~Exists(dto[r].movie) \/ dto[r].director \notin directors
       THEN Fails(r)
       ELSE Writes(r, [draft[r] EXCEPT !.director = dto[r].director], "detail")

\* movie_detail.update, if a detail is given, needs the detail of the movie.
UpdateDetail(r) ==
  /\ pc[r] = "detail"
  /\ \/ Reads(r, IF dto[r].genres = {} THEN "answer" ELSE "genres")
     \/ ~Exists(dto[r].movie) /\ Fails(r)

\* genres.length must be that of genreIds.
FindGenres(r) ==
  /\ pc[r] = "genres"
  /\ IF dto[r].genres \subseteq genres
       THEN Reads(r, IF dto[r].op = "create" THEN "insert" ELSE "cut")
       ELSE Fails(r)

\* movie_detail.create and movie.create.
InsertMovie(r) ==
  /\ pc[r] = "insert"
  /\ TitleFree(r)
  /\ IF Taken(r) \/ dto[r].director \notin directors
       THEN Fails(r)
       ELSE Writes(r, [draft[r] EXCEPT !.title = dto[r].title,
                                       !.director = dto[r].director], "add")

\* Variant: every genre is removed, and only the new ones are added.
GenreIdsToRemove_All(r) == current[r]

GenreIdsToRemove(r) == current[r] \ dto[r].genres
GenreIdsToAdd(r)    == dto[r].genres \ current[r]

\* deleteMany takes the rows that are still there, once nobody else is
\* deleting them.
CutGenres(r) ==
  /\ pc[r] = "cut"
  /\ \A q \in Rivals(r) : draft[q].cut \cap GenreIdsToRemove(r) = {}
  /\ LET cut == GenreIdsToRemove(r) \cap movie[dto[r].movie].genres
        IN Writes(r, [draft[r] EXCEPT !.cut = cut], "add")

\* createMany waits for rows with the same key and for those who change the
\* key of the movie; each row then needs its movie and its genre.
AddGenres(r) ==
  LET m   == dto[r].movie
      add == GenreIdsToAdd(r)
  IN /\ pc[r] = "add"
     /\ \A q \in Rivals(r) :
          add # {} => /\ (draft[q].add \cup draft[q].cut) \cap add = {}
                      /\ draft[q].title \in {None, movie[m].title}
     /\ IF \/ add \cap movie[m].genres # {}
           \/ ~(add \subseteq genres)
           \/ add # {} /\ dto[r].op = "update" /\ ~Exists(m)
          THEN Fails(r)
          ELSE Writes(r, [draft[r] EXCEPT !.add = add], "answer")

Given(value, default) == IF value = None THEN default ELSE value

\* The movie row with a draft applied.
Applied(row, d) ==
  [title    |-> Given(d.title, row.title),
   director |-> Given(d.director, row.director),
   genres   |-> (row.genres \ d.cut) \cup d.add]

\* What a SELECT of the transaction returns: the committed row of its movie, as
\* it is now, with what the transaction itself has written.
Seen(r) == Applied(movie[dto[r].movie], draft[r])

\* The closing findUnique reads the movie row; null if it has been removed ...
AnswerRow(r) ==
  /\ pc[r] = "answer"
  /\ view' = [view EXCEPT ![r] = [Seen(r) EXCEPT !.genres = {}]]
  /\ Goto(r, IF Seen(r).title = None THEN "commit" ELSE "relations")
  /\ UNCHANGED <<tables, dto, current, draft, answer, others>>

\* ... and then its genres.
AnswerGenres(r) ==
  /\ pc[r] = "relations"
  /\ view' = [view EXCEPT ![r].genres = Seen(r).genres]
  /\ Goto(r, "commit")
  /\ UNCHANGED <<tables, dto, current, draft, answer, others>>

\* COMMIT, after which the client is answered what was read before it.
Commit(r) ==
  /\ pc[r] = "commit"
  /\ movie' = [movie EXCEPT ![dto[r].movie] = Seen(r)]
  /\ answer' = [answer EXCEPT ![r] = view[r]]
  /\ current' = [current EXCEPT ![r] = {}]
  /\ draft' = [draft EXCEPT ![r] = Clean]
  /\ view' = [view EXCEPT ![r] = Blank]
  /\ Goto(r, "done")
  /\ UNCHANGED <<fresh, directors, genres, dto, others>>

\* A timeout, a deadlock's victim, a lost connection.
Abort(r) == pc[r] \in Statements /\ Fails(r)

RequestNext(r) ==
  \/ \E d \in Dtos : Begin(r, d)
  \/ FindMovie(r) \/ FindTitle(r) \/ Retitle(r) \/ FindDirector(r)
  \/ Redirect(r) \/ UpdateDetail(r) \/ FindGenres(r) \/ InsertMovie(r)
  \/ CutGenres(r) \/ AddGenres(r) \/ AnswerRow(r) \/ AnswerGenres(r)
  \/ Commit(r) \/ Abort(r)

-----------------------------------------------------------------------------
\* MovieService.remove: files, movie and detail; its genre rows go with it.
RemoveMovie(m) ==
  /\ Exists(m)
  /\ \A q \in Requests : dto[q].movie = m => draft[q] = Clean
  /\ movie' = [movie EXCEPT ![m] = Blank]
  /\ UNCHANGED <<fresh, directors, genres, requests, others>>

\* DirectorService.remove: the foreign key refuses it if a movie has the
\* director, and makes it wait for a request that has written it.
RemoveDirector(d) ==
  /\ d \in directors
  /\ \A q \in Requests : draft[q].director # d
  /\ \A m \in Movies : movie[m].director # d
  /\ directors' = directors \ {d}
  /\ UNCHANGED <<movie, fresh, genres, requests, others>>

(* GenreService.remove refuses itself to remove a genre that is in use,    *)
(* and finds out in a statement before the DELETE.                         *)

FindDoomedGenre(g) ==
  /\ g \in genres
  /\ \A m \in Movies : g \notin movie[m].genres
  /\ doomed' = doomed \cup {g}
  /\ UNCHANGED <<tables, requests, raced>>

\* Variant: no foreign key; the check made before is relied upon.
InUse_Never(g) == FALSE

InUse(g) == \E m \in Movies : g \in movie[m].genres

RemoveGenre(g) ==
  /\ g \in doomed
  /\ doomed' = doomed \ {g}
  /\ \A q \in Requests : g \notin draft[q].add
  /\ genres' = IF InUse(g) THEN genres ELSE genres \ {g}
  /\ UNCHANGED <<movie, fresh, directors, requests, raced>>

RemoveNext ==
  \/ \E m \in Movies : RemoveMovie(m)
  \/ \E d \in Directors : RemoveDirector(d)
  \/ \E g \in Genres : FindDoomedGenre(g) \/ RemoveGenre(g)

Next == (\E r \in Requests : RequestNext(r)) \/ RemoveNext

Spec == Init /\ [][Next]_vars

-----------------------------------------------------------------------------
(* What is meant to hold, with Consistent and NeverWithoutGenres.          *)

\* What a request asked for is what its answer shows, whatever movies,
\* directors and genres come and go while it runs: an update sets the genres
\* of the movie to those it names.  An answer without genres is of a movie that
\* was removed between the SELECTs of the closing look-up.
AnswerIsRequest ==
  \A r \in Requests :
    pc[r] = "done" /\ answer[r] # Blank /\ dto[r].movie \notin raced =>
      /\ dto[r].title    \in {None, answer[r].title}
      /\ dto[r].director \in {None, answer[r].director}
      /\ \/ dto[r].genres \in {{}, answer[r].genres}
         \/ answer[r].genres = {} /\ ~Exists(dto[r].movie)

\* What the requests that are under way ask for.
Asked == [r \in Requests |-> IF pc[r] \in Statements THEN dto[r]
                                                    ELSE [op |-> "idle"]]

Store == INSTANCE MovieStore
           WITH unused <- fresh, request <- Asked, shared <- raced

\* Whatever statements interleave, each request takes effect in one step, its
\* COMMIT, as it was asked, or not at all.  It is answered the row its COMMIT
\* makes if it had its movie to itself; requests that meet on one movie can undo
\* each other's genres and nothing else, and may be answered a row the movie
\* never was, which shows the title and the director they gave it.  A movie that
\* was removed does not come back.
StoreSpec == Store!Spec
=============================================================================
