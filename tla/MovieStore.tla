------------------------------ MODULE MovieStore ------------------------------
(***************************************************************************)
(* What the catalogue promises, without its statements: every request to   *)
(* create or update a movie takes effect in one step between the call and  *)
(* the answer and does all it was asked, or it is refused and does         *)
(* nothing.  A request that has its movie to itself is answered the row it *)
(* made.  Updates that meet on one movie may undo each other's genres, and *)
(* nothing else, and are answered what others may have changed since.      *)
(***************************************************************************)
EXTENDS FiniteSets

CONSTANTS Movies, Titles, Directors, Genres, Requests, None

VARIABLES movie,      \* the row of each movie, Blank if there is none
          unused,     \* ids no request has been given yet
          directors,
          genres,
          request,    \* what each request asks for, or Idle
          answer,     \* the row each was answered last
          shared      \* movies several requests were about at once

store == <<movie, unused, directors, genres, request, answer, shared>>

Blank == [title |-> None, director |-> None, genres |-> {}]
Idle  == [op |-> "idle"]

\* What is not given is None or, of genres, {}.
Wishes == [op : {"create", "update"}, movie : Movies, title : Titles \cup {None},
           director : Directors \cup {None}, genres : SUBSET Genres]

Exists(m) == movie[m].title # None

TitleTaken(m, title) == \E n \in Movies \ {m} : movie[n].title = title

Init ==
  /\ unused \subseteq Movies
  /\ \A m \in Movies : IF m \in unused
                         THEN movie[m] = Blank
                         ELSE Exists(m) /\ ~TitleTaken(m, movie[m].title)
  /\ directors = Directors
  /\ genres = Genres
  /\ request = [r \in Requests |-> Idle]
  /\ answer = [r \in Requests |-> Blank]
  /\ shared = {}

\* A movie is created under an id nobody has had.
Ask(r) ==
  LET wish == request'[r]
      m    == wish.movie
  IN /\ request[r] = Idle
     /\ wish \in Wishes
     /\ request' = [request EXCEPT ![r] = wish]
     /\ \/ wish.op = "create" /\ m \in unused /\ unused' = unused \ {m}
        \/ wish.op = "update" /\ m \notin unused /\ unused' = unused
     /\ shared' = IF \E q \in Requests : request[q] # Idle /\ request[q].movie = m
                    THEN shared \cup {m} ELSE shared
     /\ UNCHANGED <<movie, directors, genres, answer>>

Refuse(r) ==
  /\ request[r] # Idle
  /\ request' = [request EXCEPT ![r] = Idle]
  /\ UNCHANGED <<movie, unused, directors, genres, answer, shared>>

Rows == [title : Titles \cup {None}, director : Directors \cup {None},
         genres : SUBSET Genres]

\* The request is done and is answered shown, and its movie has become row,
\* which breaks no rule.
Makes(r, row, shown) ==
  LET m == request[r].movie
  IN /\ row.title # None /\ ~TitleTaken(m, row.title)
     /\ row.director \in directors
     /\ row.genres \subseteq genres
     /\ movie' = [movie EXCEPT ![m] = row]
     /\ answer' = [answer EXCEPT ![r] = shown]
     /\ request' = [request EXCEPT ![r] = Idle]
     /\ UNCHANGED <<unused, directors, genres, shared>>

Create(r) ==
  LET row == [title    |-> request[r].title,
              director |-> request[r].director,
              genres   |-> request[r].genres]
  IN /\ request[r].op = "create"
     /\ ~Exists(request[r].movie)
     /\ request[r].genres # {}
     /\ Makes(r, row, row)

Given(value, default) == IF value = None THEN default ELSE value

\* What an update may make of the genres of its movie: exactly those it was
\* given, unless the movie is shared.  Then some the movie had may stay, and
\* some that are new may be missing.
GenresAfter(r) ==
  LET old == movie[request[r].movie].genres
      new == request[r].genres
  IN IF new = {} THEN {old}
     ELSE IF request[r].movie \notin shared THEN {new}
     ELSE {some \in SUBSET (old \cup new) : old \cap new \subseteq some}

\* What an update that makes row may be answered: if others have been at the
\* movie, any row with the title and the director the request gave.
Shown(r, row) ==
  IF request[r].movie \notin shared THEN {row}
  ELSE {any \in Rows : /\ request[r].title \in {None, any.title}
                       /\ request[r].director \in {None, any.director}}

Update(r) ==
  LET old == movie[request[r].movie]
  IN /\ request[r].op = "update"
     /\ Exists(request[r].movie)
     /\ \E after \in GenresAfter(r) :
          LET row == [title    |-> Given(request[r].title, old.title),
                      director |-> Given(request[r].director, old.director),
                      genres   |-> after]
          IN \E shown \in Shown(r, row) : Makes(r, row, shown)

\* The movie has been removed.  The request is answered that there is none, or,
\* if that was the last it saw of it, what it was.
Miss(r) ==
  /\ request[r].op = "update"
  /\ ~Exists(request[r].movie)
  /\ request' = [request EXCEPT ![r] = Idle]
  /\ \E shown \in Rows : /\ request[r].title \in {None, shown.title}
                         /\ request[r].director \in {None, shown.director}
                         /\ answer' = [answer EXCEPT ![r] = shown]
  /\ UNCHANGED <<movie, unused, directors, genres, shared>>

Remove(m) ==
  /\ Exists(m)
  /\ movie' = [movie EXCEPT ![m] = Blank]
  /\ UNCHANGED <<unused, directors, genres, request, answer, shared>>

RemoveDirector(d) ==
  /\ \A m \in Movies : movie[m].director # d
  /\ directors' = directors \ {d}
  /\ UNCHANGED <<movie, unused, genres, request, answer, shared>>

RemoveGenre(g) ==
  /\ \A m \in Movies : g \notin movie[m].genres
  /\ genres' = genres \ {g}
  /\ UNCHANGED <<movie, unused, directors, request, answer, shared>>

Next ==
  \/ \E r \in Requests : Ask(r) \/ Refuse(r) \/ Create(r) \/ Update(r) \/ Miss(r)
  \/ \E m \in Movies : Remove(m)
  \/ \E d \in Directors : RemoveDirector(d)
  \/ \E g \in Genres : RemoveGenre(g)

Spec == Init /\ [][Next]_store
===============================================================================
