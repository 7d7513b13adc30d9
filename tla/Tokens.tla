-------------------------------- MODULE Tokens --------------------------------
(***************************************************************************)
(* JSON web tokens from log-in to log-out: AuthService.login, issueToken,  *)
(* tokenBlock and parseBearerToken, BearerTokenMiddleware.use, which every *)
(* request but a log-in passes, AuthGuard, and                             *)
(* AuthController.rotateAccessToken.                                       *)
(*                                                                         *)
(* A token is its payload: two tokens signed for the same payload in the   *)
(* same second are the same string.  Its exp counts seconds; the clock and *)
(* the TTL of a cache entry count the smaller Unit of a second.  Passwords *)
(* are right, and all accounts have one role (UserService.create gives     *)
(* admin), so that neither appears.  A token is only sent by who holds it. *)
(***************************************************************************)
EXTENDS Integers

CONSTANTS Users,     \* ids of accounts
          Requests,  \* HTTP requests
          Unit,      \* units of time per second (1000 in the code)
          Life,      \* expiresIn of each type of token, in seconds
          MaxTime,   \* bound on the clock
          None       \* undefined

Types == {"refresh", "access"}

ASSUME UnitAssumption == Unit \in Nat \ {0}
ASSUME LifeAssumption == Life \in [Types -> Nat \ {0}]
Tokens == [type : Types, sub : Users \cup {None}, exp : Nat]

ASSUME NoneAssumption == None \notin Users \cup Tokens

VARIABLES
  now,     \* Date.now()
  cache,   \* auth:block entries, with the time at which they go
  wallet,  \* the tokens each user has been answered
  pc,      \* where each request is
  call,    \* what it asks: by whom, with which bearer, for which token
  signed,  \* the refresh token of a log-in that has yet to sign the other
  ttl,     \* remainingTime, between its computation and cacheManager.set
  userId,  \* req.user.sub, for a handler that was reached
  late     \* history: had its bearer's block been answered when it came?

local == <<signed, ttl, userId>>
vars  == <<now, cache, wallet, pc, call, local, late>>

Calls == [kind : {"login", "rotate", "block", "private"}, who : Users,
          bearer : Tokens \cup {None}, body : Tokens \cup {None}]

\* A request that has yet to come.
NoCall(u) == [kind |-> "private", who |-> u, bearer |-> None, body |-> None]

TypeOK ==
  /\ now \in Nat
  /\ cache \subseteq [token : Tokens, until : Nat]
  /\ wallet \in [Users -> SUBSET Tokens]
  /\ pc \in [Requests -> {"new", "check", "verify", "guard", "handle", "sign",
                          "set", "served", "refused"}]
  /\ call \in [Requests -> Calls]
  /\ signed \in [Requests -> Tokens \cup {None}]
  /\ ttl \in [Requests -> Nat]
  /\ userId \in [Requests -> Users \cup {None}]
  /\ late \in [Requests -> BOOLEAN]

Init ==
  /\ now = 0
  /\ cache = {}
  /\ wallet = [u \in Users |-> {}]
  /\ pc = [r \in Requests |-> "new"]
  /\ call \in [Requests -> {NoCall(u) : u \in Users}]
  /\ signed = [r \in Requests |-> None]
  /\ ttl = [r \in Requests |-> 0]
  /\ userId = [r \in Requests |-> None]
  /\ late = [r \in Requests |-> FALSE]

Goto(r, l) == pc' = [pc EXCEPT ![r] = l]

Bearer(r) == call[r].bearer

HasType(r, type) == Bearer(r) # None /\ Bearer(r).type = type

\* verifyAsync compares whole seconds.
Expired(t) == now \div Unit >= t.exp

\* issueToken for a payload with this id.  jsonwebtoken rounds iat down.
IssueToken(id, type) == [type |-> type, sub |-> id, exp |-> now \div Unit + Life[type]]

\* The tokens whose block is being or has been asked for, and those whose
\* block has been answered.
Asked    == {call[r].body : r \in {q \in Requests : call[q].kind = "block"}}
Answered == {call[r].body : r \in {q \in Requests : call[q].kind = "block"
                                                   /\ pc[q] = "served"}}

-----------------------------------------------------------------------------
(* Time.  Redis drops an entry when its time has come.                     *)

Tick ==
  /\ now < MaxTime
  /\ now' = now + 1
  /\ cache' = {e \in cache : now + 1 < e.until}
  /\ UNCHANGED <<wallet, pc, call, local, late>>

-----------------------------------------------------------------------------
(* Requests come.                                                          *)

Come(r, c, l) ==
  /\ pc[r] = "new"
  /\ call' = [call EXCEPT ![r] = c]
  /\ late' = [late EXCEPT ![r] = c.bearer \in Answered]
  /\ Goto(r, l)
  /\ UNCHANGED <<now, cache, wallet, local>>

\* POST /auth/login is excluded from the middleware.  authenticate finds the
\* account.
Login(r) ==
  Come(r, [NoCall(call[r].who) EXCEPT !.kind = "login"], "handle")

\* The other requests pass the middleware, which looks at the bearer if
\* there is one.
Ask(r, kind, bearer, body) ==
  Come(r, [kind |-> kind, who |-> call[r].who, bearer |-> bearer, body |-> body],
       IF bearer = None THEN "guard" ELSE "check")

-----------------------------------------------------------------------------
(* BearerTokenMiddleware.use and AuthGuard.canActivate.                    *)

\* Variant: entries are kept per user.
Blocked_ByUser(t) == \E e \in cache : e.token.sub = t.sub

Blocked(t) == \E e \in cache : e.token = t

CheckBlock(r) ==
  /\ pc[r] = "check"
  /\ Goto(r, IF Blocked(Bearer(r)) THEN "refused" ELSE "verify")
  /\ UNCHANGED <<now, cache, wallet, call, local, late>>

Verify(r) ==
  /\ pc[r] = "verify"
  /\ IF Expired(Bearer(r))
     THEN Goto(r, "refused") /\ UNCHANGED userId
     ELSE Goto(r, "guard") /\ userId' = [userId EXCEPT ![r] = Bearer(r).sub]
  /\ UNCHANGED <<now, cache, wallet, call, signed, ttl, late>>

\* token/access and token/block are @Public; the others need an access token.
Guard(r) ==
  /\ pc[r] = "guard"
  /\ \/ call[r].kind # "private" /\ Goto(r, "handle")
     \/ /\ call[r].kind = "private"
        /\ Goto(r, IF HasType(r, "access") THEN "served" ELSE "refused")
  /\ UNCHANGED <<now, cache, wallet, call, local, late>>

-----------------------------------------------------------------------------
(* The handlers.                                                           *)

\* login signs the refresh token, and then the access token.
SignRefresh(r) ==
  /\ pc[r] = "handle" /\ call[r].kind = "login"
  /\ signed' = [signed EXCEPT ![r] = IssueToken(call[r].who, "refresh")]
  /\ Goto(r, "sign")
  /\ UNCHANGED <<now, cache, wallet, call, ttl, userId, late>>

SignAccess(r) ==
  /\ pc[r] = "sign"
  /\ wallet' = [wallet EXCEPT ![call[r].who] =
                  @ \cup {signed[r], IssueToken(call[r].who, "access")}]
  /\ signed' = [signed EXCEPT ![r] = None]
  /\ Goto(r, "served")
  /\ UNCHANGED <<now, cache, call, ttl, userId, late>>

\* rotateAccessToken: parseBearerToken verifies the bearer once more, and
\* issueToken is given its payload, which has a sub and no id.
Rotate(r) ==
  /\ pc[r] = "handle" /\ call[r].kind = "rotate"
  /\ IF ~HasType(r, "refresh") \/ Expired(Bearer(r))
     THEN Goto(r, "refused") /\ UNCHANGED wallet
     ELSE /\ Goto(r, "served")
          /\ wallet' = [wallet EXCEPT ![call[r].who] = @ \cup {IssueToken(None, "access")}]
  /\ UNCHANGED <<now, cache, call, local, late>>

\* Variant: the TTL is given in seconds.
RemainingTime_Seconds(t) ==
  IF t.exp * Unit - now > 1 THEN (t.exp * Unit - now) \div Unit ELSE 1

\* Variant: an expired token gets a TTL that Redis does not take.
RemainingTime_NoMax(t) == t.exp * Unit - now

\* Math.max(expiry - now, 1).
RemainingTime(t) == IF t.exp * Unit - now > 1 THEN t.exp * Unit - now ELSE 1

\* tokenBlock decodes the token, without verifying it, and computes the TTL;
ReadTime(r) ==
  /\ pc[r] = "handle" /\ call[r].kind = "block"
  /\ ttl' = [ttl EXCEPT ![r] = RemainingTime(call[r].body)]
  /\ Goto(r, "set")
  /\ UNCHANGED <<now, cache, wallet, call, signed, userId, late>>

\* and the entry, which replaces an older one, lives from when Redis gets it.
SetBlock(r) ==
  /\ pc[r] = "set"
  /\ cache' = {e \in cache : e.token # call[r].body}
              \cup {[token |-> call[r].body, until |-> now + ttl[r]]}
  /\ ttl' = [ttl EXCEPT ![r] = 0]
  /\ Goto(r, "served")
  /\ UNCHANGED <<now, wallet, call, signed, userId, late>>

-----------------------------------------------------------------------------

Arrive(r) ==
  LET mine == wallet[call[r].who] IN
    \/ Login(r)
    \/ \E b \in mine \cup {None} :
         \/ Ask(r, "private", b, None)
         \/ Ask(r, "rotate", b, None)
         \/ \E t \in mine : Ask(r, "block", b, t)

Serve(r) ==
  \/ CheckBlock(r) \/ Verify(r) \/ Guard(r)
  \/ SignRefresh(r) \/ SignAccess(r) \/ Rotate(r)
  \/ ReadTime(r) \/ SetBlock(r)

Next == Tick \/ \E r \in Requests : Arrive(r) \/ Serve(r)

Spec == Init /\ [][Next]_vars

-----------------------------------------------------------------------------
(* What is meant to hold.                                                  *)

\* "Requests from then on are blocked at once": once the block of a token has
\* been answered no request that comes with it is served, by no interleaving
\* of the entry's TTL with the exp of the token.
BlockedStaysOut == \A r \in Requests : late[r] => pc[r] # "served"

\* A request with the right type of token is only refused if the token had
\* expired or somebody asked to block that very token.
Fits(r) == \/ call[r].kind = "private" /\ HasType(r, "access")
           \/ call[r].kind = "rotate" /\ HasType(r, "refresh")

RefusalHasCause ==
  \A r \in Requests :
    pc[r] = "refused" /\ Fits(r) => Expired(Bearer(r)) \/ Bearer(r) \in Asked

\* Whoever uses the tokens answered to it, the renewed ones included, is
\* served as itself.
ServedAsSelf ==
  \A r \in Requests :
    call[r].kind = "private" /\ pc[r] = "served" => userId[r] = call[r].who
=============================================================================
