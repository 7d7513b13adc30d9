--------------------------- MODULE RegistryProofs ---------------------------
(***************************************************************************)
(* Proofs about Registry, for any ids, values and number of requests, and  *)
(* each of the three tables.                                               *)
(***************************************************************************)
EXTENDS Registry, TLAPS

USE NobodyAssumption

(***************************************************************************)
(* Keys.                                                                   *)
(***************************************************************************)
LEMMA FieldsOfTables ==
  ASSUME table \in Tables
  PROVE  /\ Fields(table) # {}
         /\ table # "director" => \E f : Fields(table) = {f}
BY DEF Tables, Fields

LEMMA NoFieldsIsPartial == NoFields \in Partial(table) /\ DOMAIN NoFields = {}
<1>1. NoFields \in [{} -> Values]
  BY DEF NoFields
<1> QED  BY <1>1 DEF Partial

LEMMA WithIsKey ==
  ASSUME NEW key \in Keys(table), NEW g \in Partial(table)
  PROVE  /\ With(key, g) \in Keys(table)
         /\ DOMAIN g = {} => With(key, g) = key
         /\ DOMAIN g = Fields(table) => With(key, g) = g
<1>1. PICK F \in SUBSET Fields(table) : g \in [F -> Values]
  BY DEF Partial
<1> QED  BY <1>1 DEF With, Keys

LEMMA KeysAreLive ==
  ASSUME TypeOK, NEW i \in Ids
  PROVE  Live(i) <=> rows[i] \in Keys(table)
BY FieldsOfTables, NoFieldsIsPartial DEF TypeOK, Live, Keys

LEMMA KeysArePartial == \A k \in Keys(table) : k \in Partial(table)
BY DEF Keys, Partial

(***************************************************************************)
(* Types, and what the steps of a request say of it.                       *)
(***************************************************************************)
StepInv ==
  \A q \in Requests :
    /\ step[q] = "find" => kind[q] \in {"update", "remove"}
    /\ step[q] \in {"look", "read"} => kind[q] \in {"create", "update"}
    /\ step[q] # "idle" /\ kind[q] \in {"update", "remove"} => id[q] \in Ids
    /\ step[q] \in {"look", "write", "refused"} /\ kind[q] = "create" =>
         id[q] = Nobody
    /\ kind[q] = "create" => given[q] \in Keys(table)
    /\ step[q] \in {"look", "write"} /\ kind[q] = "update" =>
         seen[q] \in Keys(table)
    /\ step[q] = "refused" =>
         /\ told[q] \in Ids
         /\ told[q] = id[q] => table = "user"

Typed == TypeOK /\ StepInv

LEMMA TypedInit == Init => Typed
<1> SUFFICES ASSUME Init PROVE Typed
  OBVIOUS
<1> QED  BY NoFieldsIsPartial DEF Init, Typed, TypeOK, StepInv

LEMMA TypedNext ==
  ASSUME Typed, [Next]_vars
  PROVE  Typed'
<1> USE DEF Typed, TypeOK, StepInv
<1>1. CASE UNCHANGED vars
  BY <1>1 DEF vars, requestVars
<1>2. ASSUME NEW q \in Requests, Create(q) \/ Update(q) \/ Remove(q)
      PROVE  Typed'
  BY <1>2, NoFieldsIsPartial, KeysArePartial
     DEF Create, Update, Remove, Begin
<1>3. ASSUME NEW q \in Requests, Find(q) PROVE Typed'
  BY <1>3, KeysAreLive DEF Find, Go, requestVars, Ended
<1>4. ASSUME NEW q \in Requests, Look(q) PROVE Typed'
  <2>1. \A i \in InTheWay(q) : /\ i \in Ids
                               /\ kind[q] = "update" /\ table # "user" =>
                                    i # id[q]
    BY DEF InTheWay, OwnRow, Holders
  <2> QED
    BY <1>4, <2>1 DEF Look, Go, requestVars, Ended
<1>5. ASSUME NEW q \in Requests, Write(q) PROVE Typed'
  <2> USE <1>5 DEF Write, Crash, Go, Disturbs, Ended
  <2>1. CASE Insert(q)
    BY <2>1 DEF Insert
  <2>2. CASE Change(q)
    <3>1. CASE Crash(q)
      BY <3>1
    <3>2. CASE ~Crash(q)
      <4>1. Live(id[q]) /\ rows' = [rows EXCEPT ![id[q]] = Written(q)]
        BY <2>2, <3>2 DEF Change
      <4>2. Written(q) \in Keys(table)
        BY <2>2, <4>1, KeysAreLive, WithIsKey DEF Change, Written
      <4> QED
        BY <2>2, <3>2, <4>1, <4>2 DEF Change
    <3> QED
      BY <3>1, <3>2
  <2>3. CASE Delete(q)
    BY <2>3 DEF Delete
  <2> QED
    BY <2>1, <2>2, <2>3
<1>6. ASSUME NEW q \in Requests, Read(q) PROVE Typed'
  BY <1>6 DEF Read, ReadBy, Holders, Go, requestVars, Ended
<1> QED
  BY <1>1, <1>2, <1>3, <1>4, <1>5, <1>6 DEF Next

LEMMA TypeInvariant == Spec => []Typed
BY TypedInit, TypedNext, PTL DEF Spec

\* Every behaviour of the three services keeps its type: also a partial update
\* leaves a whole key.
THEOREM TypeCorrect == Spec => []TypeOK
BY TypeInvariant, PTL DEF Typed

(***************************************************************************)
(* Keys are unique, and an id is used once.                                *)
(***************************************************************************)
KeysInv ==
  /\ \A i \in Ids : Live(i) => i \in drawn
  /\ \A i, j \in Ids : Live(i) /\ rows[i] = rows[j] => i = j

LEMMA KeysNext ==
  ASSUME Typed, KeysInv, [Next]_vars
  PROVE  KeysInv'
<1> USE DEF Typed, TypeOK, KeysInv, Live
<1>1. CASE UNCHANGED <<rows, drawn>>
  BY <1>1
<1>2. ASSUME NEW q \in Requests, Insert(q), ~Crash(q) PROVE KeysInv'
  BY <1>2 DEF Insert, Holders
<1>3. ASSUME NEW q \in Requests, Change(q), ~Crash(q) PROVE KeysInv'
  <2>1. /\ rows' = [rows EXCEPT ![id[q]] = Written(q)]
        /\ Live(id[q]) /\ Holders(Written(q)) \subseteq {id[q]}
        /\ drawn' = drawn
    BY <1>3 DEF Change
  <2> QED
    BY <1>3, <2>1 DEF Holders, Change
<1>4. ASSUME NEW q \in Requests, Delete(q), ~Crash(q) PROVE KeysInv'
  BY <1>4, NoFieldsIsPartial DEF Delete
<1> QED
  BY <1>1, <1>2, <1>3, <1>4
     DEF Next, Create, Update, Remove, Begin, Find, Look, Write, Read, Crash,
         vars

(***************************************************************************)
(* A request nobody has written under finds the table as its own steps     *)
(* left it.                                                                *)
(***************************************************************************)
Alone(q) ==
  CASE step[q] = "look" ->
         kind[q] = "update" => Live(id[q]) /\ rows[id[q]] = seen[q]
    [] step[q] = "write" ->
         /\ kind[q] = "create" => Holders(given[q]) = {}
         /\ kind[q] = "update" => /\ Live(id[q])
                                  /\ Holders(Written(q)) \subseteq {id[q]}
    [] step[q] = "read" -> ReadBy(q) = {id[q]}
    [] step[q] = "done" -> kind[q] # "remove" => told[q] = id[q]
    [] step[q] = "crashed" -> NoEmail(q) \/ kind[q] = "remove"
    [] step[q] = "refused" -> told[q] # id[q]
    [] OTHER -> TRUE

AloneInv == \A q \in Requests : q \notin disturbed => Alone(q)

\* What the look-up has not found is not in the way of the write.
LEMMA LookedUpIsWritten ==
  ASSUME Typed, KeysInv, NEW q \in Requests, step[q] = "look",
         kind[q] = "update", Live(id[q]), rows[id[q]] = seen[q],
         InTheWay(q) = {}, ~NoEmail(q)
  PROVE  Holders(Written(q)) \subseteq {id[q]}
<1> USE DEF Typed, TypeOK, StepInv
<1>1. id[q] \in Ids /\ seen[q] \in Keys(table) /\ given[q] \in Partial(table)
  OBVIOUS
<1>2. Written(q) = With(seen[q], given[q])
  BY DEF Written
<1>3. Holders(seen[q]) \subseteq {id[q]}
  BY <1>1 DEF KeysInv, Holders
<1>4. CASE table = "director"
  BY <1>2, <1>4 DEF InTheWay, LookedFor, Looks, NextKey, OwnRow
<1>5. CASE table # "director"
  <2>1. DOMAIN given[q] = {} \/ DOMAIN given[q] = Fields(table)
    <3>1. PICK F \in SUBSET Fields(table) : given[q] \in [F -> Values]
      BY <1>1 DEF Partial
    <3>2. PICK f : Fields(table) = {f}
      BY <1>5, FieldsOfTables
    <3> QED  BY <3>1, <3>2
  <2>2. CASE DOMAIN given[q] = {}
    BY <1>1, <1>2, <1>3, <2>2, WithIsKey
  <2>3. CASE DOMAIN given[q] = Fields(table)
    <3>1. Written(q) = given[q]
      BY <1>1, <1>2, <2>3, WithIsKey
    <3>2. DOMAIN given[q] # {}
      BY <2>3, FieldsOfTables
    <3>3. CASE given[q] = seen[q]
      BY <1>3, <3>1, <3>3
    <3>4. CASE given[q] # seen[q]
      BY <1>5, <3>1, <3>2, <3>4 DEF InTheWay, LookedFor, Looks, OwnRow
    <3> QED
      BY <3>3, <3>4
  <2> QED
    BY <2>1, <2>2, <2>3
<1> QED
  BY <1>4, <1>5

\* The step of q itself.
LEMMA OwnStepKeepsAlone ==
  ASSUME Typed, KeysInv, AloneInv, NEW q \in Requests, q \notin disturbed',
         \/ Create(q) \/ Update(q) \/ Remove(q)
         \/ Find(q) \/ Look(q) \/ Write(q) \/ Read(q)
  PROVE  Alone(q)'
<1> USE DEF Typed, TypeOK, Alone, Go, requestVars
<1>1. CASE Create(q) \/ Update(q) \/ Remove(q)
  BY <1>1 DEF Create, Update, Remove, Begin
<1>2. CASE Find(q)
  BY <1>2 DEF Find, Live
<1>3. CASE Look(q)
  <2>0. q \notin disturbed /\ Alone(q)
    BY <1>3 DEF Look, AloneInv
  <2>1. CASE NoEmail(q) /\ Go(q, "crashed") /\ UNCHANGED told
    BY <1>3, <2>1 DEF Look, NoEmail
  <2>2. CASE ~NoEmail(q) /\ InTheWay(q) = {} /\ Go(q, "write") /\ UNCHANGED told
    <3>1. CASE kind[q] = "create"
      BY <1>3, <2>2, <3>1 DEF Look, InTheWay, LookedFor, Looks, Holders, Live
    <3>2. CASE kind[q] = "update"
      BY <1>3, <2>0, <2>2, <3>2, LookedUpIsWritten
         DEF Look, Holders, Live, Written
    <3> QED
      BY <1>3, <3>1, <3>2 DEF Look, StepInv
  <2>3. ASSUME NEW i \in InTheWay(q), told' = [told EXCEPT ![q] = i],
               ~NoEmail(q), Go(q, "refused")
        PROVE  Alone(q)'
    <3>1. i # id[q]
      BY <1>3, <2>0
         DEF Look, InTheWay, LookedFor, Looks, Holders, OwnRow, StepInv, Tables
    <3> QED
      BY <1>3, <2>3, <3>1 DEF Look, InTheWay, Holders
  <2> QED
    BY <1>3, <2>1, <2>2, <2>3 DEF Look
<1>4. CASE Write(q)
  <2>0. q \notin disturbed
    BY <1>4 DEF Write, Insert, Change, Delete, Crash, Disturbs
  <2>1. Alone(q)
    BY <2>0 DEF AloneInv
  <2>2. CASE Insert(q)
    <3>1. Holders(given[q]) = {}
      BY <1>4, <2>1, <2>2 DEF Write, Insert
    <3>2. PICK i \in Ids :
            /\ rows' = [rows EXCEPT ![i] = given[q]]
            /\ id' = [id EXCEPT ![q] = i]
            /\ IF table = "user" THEN Go(q, "read") /\ UNCHANGED told
               ELSE Go(q, "done") /\ told' = [told EXCEPT ![q] = i]
      BY <2>2, <3>1 DEF Insert
    <3>3. given[q] \in Keys(table) /\ DOMAIN given[q] # {}
      BY <2>2, FieldsOfTables DEF Insert, StepInv, Keys
    <3>4. Holders(given[q])' = {i}
      BY <1>4, <3>1, <3>2, <3>3 DEF Holders, Live, Write
    <3> QED
      BY <1>4, <2>2, <3>2, <3>4 DEF Write, Insert, ReadBy
  <2>3. CASE Change(q)
    <3>1. /\ rows' = [rows EXCEPT ![id[q]] = Written(q)]
          /\ Go(q, "read")
          /\ UNCHANGED id
      BY <1>4, <2>1, <2>3 DEF Write, Change
    <3>2. id[q] \in Ids /\ Written(q) \in Keys(table)
      BY <1>4, <2>1, <2>3, KeysAreLive, WithIsKey
         DEF Write, Change, StepInv, Written
    <3>3. DOMAIN Written(q) # {}
      BY <3>2, FieldsOfTables DEF Keys
    <3> QED
      BY <1>4, <2>3, <3>1, <3>2, <3>3 DEF Write, Change, ReadBy, Live
  <2>4. CASE Delete(q)
    BY <1>4, <2>4 DEF Write, Delete, Crash
  <2> QED
    BY <1>4, <2>2, <2>3, <2>4 DEF Write
<1>5. CASE Read(q)
  <2>1. ReadBy(q) = {id[q]}
    BY <1>5 DEF Read, AloneInv
  <2> QED
    BY <1>5, <2>1 DEF Read
<1> QED
  BY <1>1, <1>2, <1>3, <1>4, <1>5

\* The step of another request: if it writes, q is disturbed or at its end.
LEMMA OthersKeepAlone ==
  ASSUME Typed, AloneInv, NEW p \in Requests, NEW q \in Requests, p # q,
         q \notin disturbed',
         \/ Create(p) \/ Update(p) \/ Remove(p)
         \/ Find(p) \/ Look(p) \/ Write(p) \/ Read(p)
  PROVE  Alone(q)'
<1> USE DEF Typed, TypeOK, Go, requestVars
<1>1. /\ step'[q] = step[q] /\ kind'[q] = kind[q] /\ id'[q] = id[q]
      /\ given'[q] = given[q] /\ seen'[q] = seen[q] /\ told'[q] = told[q]
      /\ table' = table
  BY DEF Create, Update, Remove, Begin, Find, Look, Write, Insert, Change,
         Delete, Crash, Read
<1>2. q \notin disturbed /\ Alone(q)
  BY DEF Create, Update, Remove, Begin, Find, Look, Write, Insert, Change,
         Delete, Crash, Read, Disturbs, AloneInv
<1>3. rows' = rows \/ step[q] \in {"idle"} \cup Ended
  BY <1>2 DEF Create, Update, Remove, Begin, Find, Look, Write, Insert, Change,
              Delete, Crash, Read, Disturbs
<1>4. CASE rows' = rows
  BY <1>1, <1>2, <1>4 DEF Alone, Live, Holders, Written, ReadBy, NoEmail
<1>5. CASE step[q] \in {"idle"} \cup Ended
  BY <1>1, <1>2, <1>5 DEF Alone, NoEmail, Ended
<1> QED
  BY <1>3, <1>4, <1>5

LEMMA AloneInvariant == Spec => [](Typed /\ KeysInv /\ AloneInv)
<1>1. Init => Typed /\ KeysInv /\ AloneInv
  BY TypedInit DEF Init, KeysInv, AloneInv, Alone
<1>2. Typed /\ KeysInv /\ AloneInv /\ [Next]_vars =>
        Typed' /\ KeysInv' /\ AloneInv'
  <2> SUFFICES ASSUME Typed, KeysInv, AloneInv, [Next]_vars
               PROVE  AloneInv'
    BY TypedNext, KeysNext
  <2>1. CASE UNCHANGED vars
    BY <2>1 DEF vars, requestVars, AloneInv, Alone, Live, Holders, Written,
                ReadBy, NoEmail
  <2> QED
    BY <2>1, OwnStepKeepsAlone, OthersKeepAlone DEF Next, AloneInv
<1> QED
  BY <1>1, <1>2, PTL DEF Spec

(***************************************************************************)
(* What follows.                                                           *)
(***************************************************************************)
\* Nobody gets a 500 who was alone: what the unique index refuses, the look-up
\* has found before, in each of the three services.
THEOREM CrashesHaveRivals == Spec => []CrashHasRival
<1>1. AloneInv => CrashHasRival
  BY DEF AloneInv, Alone, CrashHasRival
<1> QED
  BY <1>1, AloneInvariant, PTL

\* A request is refused for a row of another, but for an account that was
\* given the same e-mail meanwhile.
THEOREM RefusalsNameAnother == Spec => []RefusedForAnother
<1>1. Typed /\ AloneInv => RefusedForAnother
  BY DEF Typed, StepInv, AloneInv, Alone, RefusedForAnother
<1> QED
  BY <1>1, AloneInvariant, PTL

\* Who was alone is answered the row that was written.
THEOREM AnswersAreOwn == Spec => []AnswerIsOwn
<1>1. AloneInv => AnswerIsOwn
  BY DEF AloneInv, Alone, AnswerIsOwn
<1> QED
  BY <1>1, AloneInvariant, PTL

\* No update undoes what another has written to a field it was not given.
THEOREM UpdatesAreNotLost == Spec => NoLostUpdate
<1> DEFINE Kept ==
      \A i \in Ids : Live(i) /\ Live(i)' =>
        \A f \in DOMAIN rows[i] : rows'[i][f] # rows[i][f] =>
          \E q \in Requests : /\ id[q] = i /\ f \in DOMAIN given[q]
                              /\ rows'[i][f] = given[q][f]
<1>1. Typed /\ KeysInv /\ [Next]_vars => [Kept]_vars
  <2> SUFFICES ASSUME Typed, KeysInv, Next PROVE Kept
    OBVIOUS
  <2> USE DEF Typed, TypeOK, Live
  <2>1. CASE UNCHANGED rows
    BY <2>1
  <2>2. ASSUME NEW q \in Requests, Insert(q), ~Crash(q) PROVE Kept
    BY <2>2 DEF Insert, KeysInv
  <2>3. ASSUME NEW q \in Requests, Change(q), ~Crash(q) PROVE Kept
    <3>1. rows' = [rows EXCEPT ![id[q]] = Written(q)]
      BY <2>3 DEF Change
    <3>2. \A f \in DOMAIN rows[id[q]] : Written(q)[f] # rows[id[q]][f] =>
            f \in DOMAIN given[q] /\ Written(q)[f] = given[q][f]
      BY DEF Written, With
    <3> QED
      BY <3>1, <3>2
  <2>4. ASSUME NEW q \in Requests, Delete(q), ~Crash(q) PROVE Kept
    BY <2>4, NoFieldsIsPartial DEF Delete
  <2> QED
    BY <2>1, <2>2, <2>3, <2>4
       DEF Next, Create, Update, Remove, Begin, Find, Look, Write, Read, Crash
<1> QED
  BY <1>1, AloneInvariant, PTL DEF NoLostUpdate, Spec
=============================================================================
