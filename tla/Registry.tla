------------------------------ MODULE Registry ------------------------------
(***************************************************************************)
(* The rows of user, genre and director, each with a unique key: e-mail,   *)
(* name, or name and date of birth.  UserService, GenreService and         *)
(* DirectorService create, update and remove them in the same way: find    *)
(* the row, look whether another has the key, write, read again, with an   *)
(* await after each and no transaction around them.  The unique index      *)
(* decides in the end, with an exception no filter translates: a 500.      *)
(***************************************************************************)
EXTENDS FiniteSets

CONSTANTS Ids,       \* primary keys
          Values,    \* values of the fields of a key
          Requests,  \* requests to the three controllers
          Nobody     \* no id

ASSUME NobodyAssumption == Nobody \notin Ids

VARIABLES
  table,      \* the table the requests are about: the three do not interact
  rows,       \* the key of each row that there is
  drawn,      \* ids drawn from the sequence: they are not used again
  kind,       \* what each request asks for: "create", "update" or "remove"
  id,         \* the row it is about
  given,      \* the fields of the key its DTO holds
  step,       \* where its handler is
  seen,       \* the key of the row it found first
  told,       \* the id in its answer: its row, or the one in its way
  disturbed   \* history: requests that others have written under

requestVars == <<kind, id, given>>
vars == <<table, rows, drawn, requestVars, step, seen, told, disturbed>>

Tables == {"user", "genre", "director"}

Fields(t) == CASE t = "user"     -> {"email"}
               [] t = "genre"    -> {"name"}
               [] t = "director" -> {"name", "dob"}

Keys(t)    == [Fields(t) -> Values]
\* The update DTOs are partial: a request may give some fields or none.
Partial(t) == UNION {[F -> Values] : F \in SUBSET Fields(t)}

NoFields == [f \in {} |-> Nobody]

Ended == {"done", "missing", "refused", "used", "crashed"}

TypeOK ==
  /\ table \in Tables
  /\ rows \in [Ids -> Keys(table) \cup {NoFields}]
  /\ drawn \subseteq Ids
  /\ kind \in [Requests -> {"none", "create", "update", "remove"}]
  /\ id \in [Requests -> Ids \cup {Nobody}]
  /\ given \in [Requests -> Partial(table)]
  /\ step \in [Requests -> {"idle", "find", "look", "write", "read"} \cup Ended]
  /\ seen \in [Requests -> Keys(table) \cup {NoFields}]
  /\ told \in [Requests -> Ids \cup {Nobody}]
  /\ disturbed \subseteq Requests

Live(i) == DOMAIN rows[i] # {}

Init ==
  /\ table \in Tables
  /\ rows \in [Ids -> Keys(table) \cup {NoFields}]
  /\ drawn = {i \in Ids : Live(i)}
  /\ \A i, j \in Ids : Live(i) /\ rows[i] = rows[j] => i = j
  /\ kind = [q \in Requests |-> "none"]
  /\ id = [q \in Requests |-> Nobody]
  /\ given = [q \in Requests |-> NoFields]
  /\ step = [q \in Requests |-> "idle"]
  /\ seen = [q \in Requests |-> NoFields]
  /\ told = [q \in Requests |-> Nobody]
  /\ disturbed = {}

Holders(key) == {i \in Ids : Live(i) /\ rows[i] = key}

With(key, g) == [f \in DOMAIN key |-> IF f \in DOMAIN g THEN g[f] ELSE key[f]]

-----------------------------------------------------------------------------
Begin(q, k, i, g, s) ==
  /\ step[q] = "idle"
  /\ kind' = [kind EXCEPT ![q] = k]
  /\ id' = [id EXCEPT ![q] = i]
  /\ given' = [given EXCEPT ![q] = g]
  /\ step' = [step EXCEPT ![q] = s]
  /\ UNCHANGED <<table, rows, drawn, seen, told, disturbed>>

Create(q) == \E g \in Keys(table) : Begin(q, "create", Nobody, g, "look")
Update(q) == \E i \in Ids, g \in Partial(table) : Begin(q, "update", i, g, "find")
Remove(q) == \E i \in Ids : Begin(q, "remove", i, NoFields, "find")

Go(q, s) == step' = [step EXCEPT ![q] = s]

\* 404 for an id that has no row, 409 for a genre to be removed that a movie has.
Find(q) ==
  /\ step[q] = "find"
  /\ IF Live(id[q])
       THEN \/ /\ seen' = [seen EXCEPT ![q] = rows[id[q]]]
               /\ Go(q, IF kind[q] = "remove" THEN "write" ELSE "look")
            \/ /\ kind[q] = "remove" /\ table = "genre"
               /\ Go(q, "used")
               /\ UNCHANGED seen
       ELSE Go(q, "missing") /\ UNCHANGED seen
  /\ UNCHANGED <<table, rows, drawn, requestVars, told, disturbed>>

\* Variant for a run to refute: GenreService.update without NOT: { id }.
OwnRow_Counts(q) == {}

OwnRow(q) == {id[q]}

\* Variant: DirectorService.update looks only if it is given the whole key.
NextKey_Given(q) == given[q]

\* nextName and nextDob: what is not given is taken from the row as it was read.
NextKey(q) == With(seen[q], given[q])

LookedFor(q) ==
  IF kind[q] = "update" /\ table = "director" THEN NextKey(q) ELSE given[q]

\* A genre is looked for only under a name that is given, an e-mail only if it
\* is not the one the row had.
Looks(q) ==
  kind[q] = "update" =>
    /\ table = "genre" => DOMAIN given[q] # {}
    /\ table = "user"  => given[q] # seen[q]

\* The rows found in the way of q.  The row a request is about is not in its
\* way, but for users it is.
InTheWay(q) ==
  {i \in Holders(LookedFor(q)) :
     Looks(q) /\ (kind[q] = "update" /\ table # "user" => i \notin OwnRow(q))}

\* A PATCH that leaves the e-mail out, to change the password.
NoEmail(q) == table = "user" /\ kind[q] = "update" /\ DOMAIN given[q] = {}

\* findUnique throws for where: { email: undefined }.
Look(q) ==
  /\ step[q] = "look"
  /\ \/ NoEmail(q) /\ Go(q, "crashed") /\ UNCHANGED told
     \/ ~NoEmail(q) /\ InTheWay(q) = {} /\ Go(q, "write") /\ UNCHANGED told
     \/ /\ ~NoEmail(q)
        /\ \E i \in InTheWay(q) : told' = [told EXCEPT ![q] = i]
        /\ Go(q, "refused")
  /\ UNCHANGED <<table, rows, drawn, requestVars, seen, disturbed>>

\* A statement of q has changed a row while others are handled.
Disturbs(q) ==
  disturbed' = disturbed \cup {p \in Requests \ {q} :
                                 step[p] \notin {"idle"} \cup Ended}

\* Unique index, missing row (P2002, P2025): nothing is written.
Crash(q) == Go(q, "crashed") /\ UNCHANGED <<rows, drawn, id, told, disturbed>>

Insert(q) ==
  /\ kind[q] = "create"
  /\ IF Holders(given[q]) # {} THEN Crash(q)
     ELSE \E i \in Ids :
            /\ i \notin drawn
            /\ drawn' = drawn \cup {i}
            /\ rows' = [rows EXCEPT ![i] = given[q]]
            /\ id' = [id EXCEPT ![q] = i]
            /\ IF table = "user" THEN Go(q, "read") /\ UNCHANGED told
               ELSE Go(q, "done") /\ told' = [told EXCEPT ![q] = i]
            /\ Disturbs(q)

\* Variant: the completed key is written in place of the DTO.
Written_Completed(q) == NextKey(q)

\* Variant: the row is replaced by what the DTO holds.
Written_Replaced(q) == given[q]

Written(q) == With(rows[id[q]], given[q])

Change(q) ==
  /\ kind[q] = "update"
  /\ IF Live(id[q]) /\ Holders(Written(q)) \subseteq {id[q]}
       THEN /\ rows' = [rows EXCEPT ![id[q]] = Written(q)]
            /\ Go(q, "read")
            /\ Disturbs(q)
            /\ UNCHANGED <<drawn, id, told>>
       ELSE Crash(q)

\* A row that is gone is not deleted (P2025), nor one that others refer to
\* (P2003): a director or user a movie has, or a genre it was given meanwhile.
Delete(q) ==
  /\ kind[q] = "remove"
  /\ \/ Crash(q)
     \/ /\ Live(id[q])
        /\ rows' = [rows EXCEPT ![id[q]] = NoFields]
        /\ Go(q, "done")
        /\ Disturbs(q)
        /\ UNCHANGED <<drawn, id, told>>

Write(q) ==
  /\ step[q] = "write"
  /\ Insert(q) \/ Change(q) \/ Delete(q)
  /\ UNCHANGED <<table, kind, given, seen>>

\* Variant: every answer is read by the key that was given.
ReadBy_Key(q) == Holders(given[q])

\* UserService.create reads by the e-mail, the updates by the id.
ReadBy(q) == IF kind[q] = "create" THEN Holders(given[q])
                                   ELSE {i \in {id[q]} : Live(i)}

\* The row may have gone by now: the answer is 200 and empty.
Read(q) ==
  /\ step[q] = "read"
  /\ IF ReadBy(q) = {} THEN UNCHANGED told
     ELSE \E i \in ReadBy(q) : told' = [told EXCEPT ![q] = i]
  /\ Go(q, "done")
  /\ UNCHANGED <<table, rows, drawn, requestVars, seen, disturbed>>

Next == \E q \in Requests :
  \/ Create(q) \/ Update(q) \/ Remove(q)
  \/ Find(q) \/ Look(q) \/ Write(q) \/ Read(q)

Spec == Init /\ [][Next]_vars

-----------------------------------------------------------------------------
(* What is meant to hold.                                                  *)

\* A field changes only to what a request gives for it: of two updates of one
\* director, of the name and of the date of birth, neither undoes the other.
NoLostUpdate ==
  [][\A i \in Ids : Live(i) /\ Live(i)' =>
       \A f \in DOMAIN rows[i] : rows'[i][f] # rows[i][f] =>
         \E q \in Requests : /\ id[q] = i /\ f \in DOMAIN given[q]
                             /\ rows'[i][f] = given[q][f]]_vars

\* A request is refused for a row other than its own, unless somebody else
\* gave its account the very e-mail meanwhile.
RefusedForAnother ==
  \A q \in Requests : step[q] = "refused" =>
    /\ told[q] \in Ids
    /\ told[q] = id[q] => table = "user" /\ q \in disturbed

\* Nobody gets a 500 who was alone: the look-ups find what the unique index
\* would refuse.  (Not so for a PATCH without e-mail, and a DELETE.)
CrashHasRival ==
  \A q \in Requests : step[q] = "crashed" =>
    q \in disturbed \/ NoEmail(q) \/ kind[q] = "remove"

\* Who was alone is answered the row that was written.
AnswerIsOwn ==
  \A q \in Requests :
    step[q] = "done" /\ kind[q] # "remove" /\ q \notin disturbed =>
      told[q] = id[q]
=============================================================================
