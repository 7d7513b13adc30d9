----------------------------- MODULE TokensProofs -----------------------------
(* Proofs about Tokens, for any users, requests, clock unit and lifetimes. *)
EXTENDS Tokens, TLAPS

\* Whole seconds: what verifyAsync compares against what the TTL is made of.
LEMMA DivAtLeast ==
  ASSUME NEW a \in Nat, NEW u \in Nat \ {0}, NEW k \in Nat, a >= k * u
  PROVE  a \div u >= k
  OBVIOUS

LEMMA DivGrows ==
  ASSUME NEW a \in Nat, NEW u \in Nat \ {0}
  PROVE  /\ a \div u \in Nat
         /\ (a + 1) \div u \in Nat
         /\ (a + 1) \div u >= a \div u
  OBVIOUS

LEMMA IssuedIsToken ==
  ASSUME now \in Nat, NEW id \in Users \cup {None}, NEW type \in Types
  PROVE  IssueToken(id, type) \in Tokens
  <1>1. now \div Unit \in Nat
    BY DivGrows, UnitAssumption
  <1>2. Life[type] \in Nat
    BY LifeAssumption
  <1> QED
    BY <1>1, <1>2 DEF IssueToken, Tokens

\* A bearer that is looked at is there, and a block is of a token.
Shape == \A r \in Requests :
  /\ pc[r] \in {"check", "verify"} => Bearer(r) \in Tokens
  /\ pc[r] # "new" /\ call[r].kind = "block" => call[r].body \in Tokens
  /\ pc[r] = "set" => call[r].kind = "block"
  /\ pc[r] = "sign" => signed[r] \in Tokens /\ call[r].kind = "login"

\* What comes, whatever it asks, is a call of the right shape.
LEMMA ArrivingCalls ==
  ASSUME TypeOK, NEW r \in Requests, Arrive(r)
  PROVE  \E c \in Calls, l \in {"guard", "check", "handle"} :
           /\ Come(r, c, l)
           /\ IF l = "check" THEN c.bearer \in Tokens ELSE c.bearer = None
           /\ c.kind = "block" => c.body \in Tokens
           /\ c.who = call[r].who
           /\ c.bearer \in wallet[c.who] \cup {None}
  <1> DEFINE mine == wallet[call[r].who]
  <1>1. call[r] \in Calls /\ mine \subseteq Tokens
    BY DEF TypeOK, Calls
  <1>2. CASE Login(r)
    <2> DEFINE c == [NoCall(call[r].who) EXCEPT !.kind = "login"]
    <2>1. /\ c \in Calls /\ c.kind = "login" /\ c.bearer = None
          /\ c.who = call[r].who
      BY <1>1 DEF Calls, NoCall
    <2> QED
      BY <1>2, <2>1 DEF Login
  <1>3. CASE \E b \in mine \cup {None} :
               \/ Ask(r, "private", b, None)
               \/ Ask(r, "rotate", b, None)
               \/ \E t \in mine : Ask(r, "block", b, t)
    <2>1. PICK b \in mine \cup {None}, t \in mine \cup {None},
               kind \in {"private", "rotate", "block"} :
                 Ask(r, kind, b, t) /\ (kind = "block" => t \in mine)
      BY <1>3
    <2> DEFINE c == [kind |-> kind, who |-> call[r].who, bearer |-> b, body |-> t]
    <2>2. /\ c \in Calls
          /\ c.bearer = b /\ c.who = call[r].who
          /\ c.kind = "block" => c.body \in Tokens
      BY <1>1, <2>1 DEF Calls
    <2>3. Come(r, c, IF b = None THEN "guard" ELSE "check")
      BY <2>1 DEF Ask
    <2> QED
      BY <1>1, <2>2, <2>3
  <1> QED
    BY <1>2, <1>3 DEF Arrive

LEMMA NextKeepsType == TypeOK /\ Shape /\ [Next]_vars => TypeOK'
  <1> SUFFICES ASSUME TypeOK, Shape, [Next]_vars PROVE TypeOK'
    OBVIOUS
  <1> USE DEF TypeOK, Goto, local
  <1>1. CASE Tick
    BY <1>1 DEF Tick
  <1>2. ASSUME NEW r \in Requests, Arrive(r) PROVE TypeOK'
    <2>1. PICK c \in Calls, l \in {"guard", "check", "handle"} : Come(r, c, l)
      BY <1>2, ArrivingCalls
    <2>2. late' \in [Requests -> BOOLEAN]
      <3>1. (c.bearer \in Answered) \in BOOLEAN
        OBVIOUS
      <3> QED
        BY <2>1, <3>1 DEF Come
    <2> QED
      BY <2>1, <2>2 DEF Come
  <1>3. ASSUME NEW r \in Requests, CheckBlock(r) PROVE TypeOK'
    BY <1>3 DEF CheckBlock, Blocked
  <1>4. ASSUME NEW r \in Requests, Verify(r) PROVE TypeOK'
    <2>1. Bearer(r).sub \in Users \cup {None}
      BY <1>4 DEF Verify, Shape, Tokens
    <2> QED
      BY <1>4, <2>1 DEF Verify
  <1>5. ASSUME NEW r \in Requests, Guard(r) PROVE TypeOK'
    BY <1>5 DEF Guard
  <1>6. ASSUME NEW r \in Requests, SignRefresh(r) PROVE TypeOK'
    <2>1. IssueToken(call[r].who, "refresh") \in Tokens
      BY IssuedIsToken DEF Calls, Types
    <2>2. signed' \in [Requests -> Tokens \cup {None}]
      BY <1>6, <2>1 DEF SignRefresh
    <2> QED
      BY <1>6, <2>2 DEF SignRefresh
  <1>7. ASSUME NEW r \in Requests, SignAccess(r) PROVE TypeOK'
    <2>1. IssueToken(call[r].who, "access") \in Tokens /\ signed[r] \in Tokens
      BY <1>7, IssuedIsToken DEF Calls, Types, SignAccess, Shape
    <2>2. wallet' \in [Users -> SUBSET Tokens]
      BY <1>7, <2>1 DEF SignAccess
    <2> QED
      BY <1>7, <2>2 DEF SignAccess
  <1>8. ASSUME NEW r \in Requests, Rotate(r) PROVE TypeOK'
    <2>1. IssueToken(None, "access") \in Tokens
      BY IssuedIsToken DEF Types
    <2>2. wallet' \in [Users -> SUBSET Tokens]
      BY <1>8, <2>1 DEF Rotate
    <2> QED
      BY <1>8, <2>2 DEF Rotate
  <1>9. ASSUME NEW r \in Requests, ReadTime(r) PROVE TypeOK'
    <2>1. call[r].body \in Tokens
      BY <1>9 DEF ReadTime, Shape
    <2>2. RemainingTime(call[r].body) \in Nat
      BY <2>1, UnitAssumption DEF RemainingTime, Tokens
    <2> QED
      BY <1>9, <2>2 DEF ReadTime
  <1>10. ASSUME NEW r \in Requests, SetBlock(r) PROVE TypeOK'
    <2>1. call[r].body \in Tokens
      BY <1>10 DEF SetBlock, Shape
    <2> QED
      BY <1>10, <2>1 DEF SetBlock
  <1>11. CASE UNCHANGED vars
    BY <1>11 DEF vars
  <1> QED
    BY <1>1, <1>2, <1>3, <1>4, <1>5, <1>6, <1>7, <1>8, <1>9, <1>10, <1>11 DEF Next, Serve

LEMMA NextKeepsShape == TypeOK /\ Shape /\ [Next]_vars => Shape'
  <1> SUFFICES ASSUME TypeOK, Shape, [Next]_vars PROVE Shape'
    OBVIOUS
  <1> USE DEF Shape, Bearer, Goto, local
  <1>1. CASE Tick
    BY <1>1 DEF Tick
  <1>2. ASSUME NEW r \in Requests, Arrive(r) PROVE Shape'
    <2>1. PICK c \in Calls, l \in {"guard", "check", "handle"} :
            /\ Come(r, c, l)
            /\ IF l = "check" THEN c.bearer \in Tokens ELSE c.bearer = None
            /\ c.kind = "block" => c.body \in Tokens
      BY <1>2, ArrivingCalls
    <2>2. /\ pc'[r] = l /\ call'[r] = c
          /\ \A q \in Requests \ {r} : pc'[q] = pc[q] /\ call'[q] = call[q]
      BY <2>1 DEF Come, TypeOK
    <2> QED
      BY <2>1, <2>2 DEF Come
  <1>3. ASSUME NEW r \in Requests, Serve(r) PROVE Shape'
    <2>1. /\ call' = call
          /\ \A q \in Requests \ {r} : pc'[q] = pc[q] /\ signed'[q] = signed[q]
      BY <1>3 DEF Serve, CheckBlock, Blocked, Verify, Guard, SignRefresh, SignAccess, Rotate,
                  ReadTime, SetBlock, TypeOK
    <2>2. CASE CheckBlock(r)
      BY <2>1, <2>2 DEF CheckBlock, Blocked, TypeOK
    <2>3. CASE Verify(r)
      BY <2>1, <2>3 DEF Verify, TypeOK
    <2>4. CASE Guard(r)
      BY <2>1, <2>4 DEF Guard, TypeOK
    <2>5. CASE SignRefresh(r)
      <3>1. IssueToken(call[r].who, "refresh") \in Tokens
        BY IssuedIsToken DEF Calls, Types, TypeOK
      <3> QED
        BY <2>1, <2>5, <3>1 DEF SignRefresh, TypeOK
    <2>6. CASE SignAccess(r) \/ Rotate(r) \/ SetBlock(r)
      BY <2>1, <2>6 DEF SignAccess, Rotate, SetBlock, TypeOK
    <2>7. CASE ReadTime(r)
      BY <2>1, <2>7 DEF ReadTime, TypeOK
    <2> QED
      BY <1>3, <2>2, <2>3, <2>4, <2>5, <2>6, <2>7 DEF Serve
  <1>4. CASE UNCHANGED vars
    BY <1>4 DEF vars
  <1> QED
    BY <1>1, <1>2, <1>3, <1>4 DEF Next

LEMMA InitHolds == Init => TypeOK /\ Shape
  <1> SUFFICES ASSUME Init PROVE TypeOK /\ Shape
    OBVIOUS
  <1>1. call \in [Requests -> Calls]
    BY DEF Init, NoCall, Calls
  <1>2. TypeOK
    BY <1>1 DEF Init, TypeOK
  <1>3. Shape
    BY DEF Init, Shape
  <1> QED
    BY <1>2, <1>3

\* Every behaviour of log-ins, renewals, blocks and requests keeps its type:
\* no TTL is negative and every entry is for a token.
THEOREM TypeCorrect == Spec => []TypeOK
  <1>1. TypeOK /\ Shape /\ [Next]_vars => (TypeOK /\ Shape)'
    BY NextKeepsType, NextKeepsShape
  <1> QED
    BY InitHolds, <1>1, PTL DEF Spec

-----------------------------------------------------------------------------
(* Why a blocked token stays out: its entry lives until its exp, and from  *)
(* then on verifyAsync refuses it.                                         *)

\* No entry goes before its token has expired.
LongEnough ==
  /\ \A e \in cache : e.until >= e.token.exp * Unit
  /\ \A r \in Requests : pc[r] = "set" => now + ttl[r] >= call[r].body.exp * Unit

\* What the middleware does not let pass.
ShutOut(t) == Expired(t) \/ \E e \in cache : e.token = t

\* Every token whose block was answered is shut out, and the requests that
\* came with it later are on their way to be refused.
Shut ==
  /\ \A t \in Answered : ShutOut(t)
  /\ \A r \in Requests : late[r] =>
       /\ Bearer(r) \in Answered
       /\ pc[r] \in {"check", "verify", "refused"}
       /\ pc[r] = "verify" => Expired(Bearer(r))

LEMMA ExpiredStays ==
  ASSUME TypeOK, [Next]_vars, NEW t \in Tokens, Expired(t)
  PROVE  Expired(t)'
  <1>1. now' = now \/ now' = now + 1
    BY DEF Next, Tick, Arrive, Login, Ask, Come, Serve, CheckBlock, Blocked, Verify, Guard,
           SignRefresh, SignAccess, Rotate, ReadTime, SetBlock, vars
  <1>2. /\ now \div Unit \in Nat
        /\ (now + 1) \div Unit \in Nat
        /\ (now + 1) \div Unit >= now \div Unit
    BY DivGrows, UnitAssumption DEF TypeOK
  <1>3. t.exp \in Nat
    BY DEF Tokens
  <1> QED
    BY <1>1, <1>2, <1>3 DEF Expired

LEMMA AnsweredAreTokens == Shape => Answered \subseteq Tokens
  BY DEF Shape, Answered

LEMMA AnsweredGrows ==
  ASSUME TypeOK, Shape, [Next]_vars
  PROVE  /\ Answered \subseteq Answered'
         /\ \A t \in Answered' \ Answered :
              \E r \in Requests : SetBlock(r) /\ call[r].body = t
  <1> USE DEF Answered, Goto
  <1>1. CASE Tick \/ UNCHANGED vars
    BY <1>1 DEF Tick, vars
  <1>2. ASSUME NEW r \in Requests, Arrive(r)
        PROVE  Answered' = Answered
    <2>1. PICK c \in Calls, l \in {"guard", "check", "handle"} : Come(r, c, l)
      BY <1>2, ArrivingCalls
    <2>2. /\ pc[r] = "new" /\ pc'[r] # "served"
          /\ \A q \in Requests \ {r} : pc'[q] = pc[q] /\ call'[q] = call[q]
      BY <2>1 DEF Come, TypeOK
    <2> QED
      BY <2>2
  <1>3. ASSUME NEW r \in Requests, Serve(r), ~SetBlock(r)
        PROVE  Answered' = Answered
    <2>1. /\ call' = call
          /\ pc[r] # "served"
          /\ \A q \in Requests \ {r} : pc'[q] = pc[q]
      BY <1>3 DEF Serve, CheckBlock, Blocked, Verify, Guard, SignRefresh, SignAccess, Rotate,
                  ReadTime, TypeOK
    <2>2. pc'[r] = "served" => call[r].kind # "block"
      BY <1>3 DEF Serve, CheckBlock, Blocked, Verify, Guard, SignRefresh, SignAccess, Rotate,
                  ReadTime, TypeOK, Shape
    <2> QED
      BY <2>1, <2>2
  <1>4. ASSUME NEW r \in Requests, SetBlock(r)
        PROVE  Answered' = Answered \cup {call[r].body}
    <2>1. /\ call' = call /\ call[r].kind = "block"
          /\ pc[r] = "set" /\ pc'[r] = "served"
          /\ \A q \in Requests \ {r} : pc'[q] = pc[q]
      BY <1>4 DEF SetBlock, TypeOK, Shape
    <2> QED
      BY <2>1
  <1> QED
    BY <1>1, <1>2, <1>3, <1>4 DEF Next

LEMMA NextKeepsLongEnough ==
  TypeOK /\ Shape /\ LongEnough /\ [Next]_vars => LongEnough'
  <1> SUFFICES ASSUME TypeOK, Shape, LongEnough, [Next]_vars PROVE LongEnough'
    OBVIOUS
  <1> USE DEF LongEnough, Goto
  <1>1. CASE Tick
    <2>1. \A r \in Requests : pc[r] = "set" =>
            now + 1 + ttl[r] >= call[r].body.exp * Unit
      <3> SUFFICES ASSUME NEW r \in Requests, pc[r] = "set"
                   PROVE  now + 1 + ttl[r] >= call[r].body.exp * Unit
        OBVIOUS
      <3>1. /\ call[r].body.exp * Unit \in Nat
            /\ now \in Nat /\ ttl[r] \in Nat
        BY UnitAssumption DEF TypeOK, Shape, Tokens
      <3> QED
        BY <3>1
    <2> QED
      BY <1>1, <2>1 DEF Tick, local
  <1>2. ASSUME NEW r \in Requests, Arrive(r) PROVE LongEnough'
    <2>1. PICK c \in Calls, l \in {"guard", "check", "handle"} : Come(r, c, l)
      BY <1>2, ArrivingCalls
    <2>2. /\ pc'[r] # "set"
          /\ \A q \in Requests \ {r} : pc'[q] = pc[q] /\ call'[q] = call[q]
      BY <2>1 DEF Come, TypeOK
    <2> QED
      BY <2>1, <2>2 DEF Come, local
  <1>3. ASSUME NEW r \in Requests, ReadTime(r) PROVE LongEnough'
    <2> DEFINE t == call[r].body
    <2>1. t \in Tokens
      BY <1>3 DEF ReadTime, Shape
    <2>2. /\ t.exp * Unit \in Nat /\ now \in Nat
      BY <2>1, UnitAssumption DEF TypeOK, Tokens
    <2>3. now + RemainingTime(t) >= t.exp * Unit
      BY <2>2 DEF RemainingTime
    <2>4. /\ ttl'[r] = RemainingTime(t)
          /\ \A q \in Requests \ {r} : pc'[q] = pc[q] /\ ttl'[q] = ttl[q]
          /\ UNCHANGED <<now, cache, call>>
      BY <1>3 DEF ReadTime, TypeOK
    <2> QED
      BY <2>3, <2>4
  <1>4. ASSUME NEW r \in Requests, SetBlock(r) PROVE LongEnough'
    <2>1. now + ttl[r] >= call[r].body.exp * Unit
      BY <1>4 DEF SetBlock
    <2>2. \A e \in cache' : e.until >= e.token.exp * Unit
      BY <1>4, <2>1 DEF SetBlock
    <2>3. /\ pc'[r] # "set"
          /\ \A q \in Requests \ {r} : pc'[q] = pc[q] /\ ttl'[q] = ttl[q]
          /\ UNCHANGED <<now, call>>
      BY <1>4 DEF SetBlock, TypeOK
    <2> QED
      BY <2>2, <2>3
  <1>5. ASSUME NEW r \in Requests, Serve(r), ~ReadTime(r), ~SetBlock(r)
        PROVE  LongEnough'
    <2>1. /\ pc'[r] # "set"
          /\ \A q \in Requests \ {r} : pc'[q] = pc[q]
          /\ UNCHANGED <<now, cache, call, ttl>>
      BY <1>5 DEF Serve, CheckBlock, Blocked, Verify, Guard, SignRefresh, SignAccess, Rotate,
                  local, TypeOK
    <2> QED
      BY <2>1
  <1>6. CASE UNCHANGED vars
    BY <1>6 DEF vars, local
  <1> QED
    BY <1>1, <1>2, <1>3, <1>4, <1>5, <1>6 DEF Next

LEMMA ShutOutStays ==
  ASSUME TypeOK, Shape, LongEnough, [Next]_vars, NEW t \in Tokens, ShutOut(t)
  PROVE  ShutOut(t)'
  <1>1. CASE Expired(t)
    BY <1>1, ExpiredStays DEF ShutOut
  <1>2. ASSUME NEW e \in cache, e.token = t
        PROVE  ShutOut(t)'
    <2>1. CASE Tick
      <3>1. CASE now + 1 < e.until
        BY <1>2, <2>1, <3>1 DEF Tick, ShutOut
      <3>2. CASE ~(now + 1 < e.until)
        <4>1. /\ t.exp \in Nat /\ now + 1 \in Nat /\ e.until \in Nat
              /\ t.exp * Unit \in Nat
          BY <1>2, UnitAssumption DEF TypeOK, Tokens
        <4>2. now + 1 >= t.exp * Unit
          BY <1>2, <3>2, <4>1 DEF LongEnough
        <4>3. (now + 1) \div Unit >= t.exp
          BY <4>1, <4>2, DivAtLeast, UnitAssumption
        <4> QED
          BY <2>1, <4>3 DEF Tick, ShutOut, Expired
      <3> QED
        BY <3>1, <3>2
    <2>2. CASE \E r \in Requests : SetBlock(r)
      <3>1. PICK r \in Requests : SetBlock(r)
        BY <2>2
      <3> DEFINE new == [token |-> call[r].body, until |-> now + ttl[r]]
      <3>2. CASE t = call[r].body
        <4>1. new \in cache' /\ new.token = t
          BY <3>1, <3>2 DEF SetBlock
        <4> QED
          BY <4>1 DEF ShutOut
      <3>3. CASE t # call[r].body
        <4>1. e \in cache'
          BY <1>2, <3>1, <3>3 DEF SetBlock
        <4> QED
          BY <1>2, <4>1 DEF ShutOut
      <3> QED
        BY <3>2, <3>3
    <2>3. CASE cache' = cache
      BY <1>2, <2>3 DEF ShutOut
    <2>4. cache' = cache \/ Tick \/ \E r \in Requests : SetBlock(r)
      BY DEF Next, Arrive, Login, Ask, Come, Serve, CheckBlock, Blocked, Verify, Guard,
             SignRefresh, SignAccess, Rotate, ReadTime, vars
    <2> QED
      BY <2>1, <2>2, <2>3, <2>4
  <1> QED
    BY <1>1, <1>2 DEF ShutOut

LEMMA NextKeepsShut ==
  TypeOK /\ Shape /\ LongEnough /\ Shut /\ [Next]_vars => Shut'
  <1> SUFFICES ASSUME TypeOK, Shape, LongEnough, Shut, [Next]_vars PROVE Shut'
    OBVIOUS
  <1>1. /\ Answered \subseteq Tokens
        /\ Answered \subseteq Answered'
    BY AnsweredAreTokens, AnsweredGrows
  <1>2. ASSUME NEW t \in Answered'
        PROVE  ShutOut(t)'
    <2>1. CASE t \in Answered
      BY <1>1, <2>1, ShutOutStays DEF Shut
    <2>2. CASE t \notin Answered
      <3>1. PICK r \in Requests : SetBlock(r) /\ call[r].body = t
        BY <2>2, AnsweredGrows
      <3> DEFINE new == [token |-> call[r].body, until |-> now + ttl[r]]
      <3>2. new \in cache' /\ new.token = t
        BY <3>1 DEF SetBlock
      <3> QED
        BY <3>2 DEF ShutOut
    <2> QED
      BY <2>1, <2>2
  <1> DEFINE Kept(r) == late[r] =>
               /\ Bearer(r) \in Answered
               /\ pc[r] \in {"check", "verify", "refused"}
               /\ pc[r] = "verify" => Expired(Bearer(r))
  <1>3. ASSUME NEW r \in Requests, pc'[r] = pc[r], call'[r] = call[r], late'[r] = late[r]
        PROVE  Kept(r)'
    BY <1>1, <1>3, ExpiredStays DEF Shut, Bearer
  <1>4. ASSUME NEW r \in Requests, Arrive(r), late'[r]
        PROVE  Kept(r)'
    <2>1. PICK c \in Calls, l \in {"guard", "check", "handle"} :
            /\ Come(r, c, l)
            /\ IF l = "check" THEN c.bearer \in Tokens ELSE c.bearer = None
      BY <1>4, ArrivingCalls
    <2>2. pc'[r] = l /\ call'[r] = c /\ c.bearer \in Answered
      BY <1>4, <2>1 DEF Come, Goto, TypeOK
    <2>3. l = "check"
      BY <1>1, <2>1, <2>2, NoneAssumption
    <2> QED
      BY <1>1, <2>2, <2>3 DEF Bearer
  <1>5. ASSUME NEW r \in Requests, Serve(r), late'[r]
        PROVE  Kept(r)'
    <2>1. late[r] /\ call' = call
      BY <1>5 DEF Serve, CheckBlock, Blocked, Verify, Guard, SignRefresh, SignAccess, Rotate,
                  ReadTime, SetBlock
    <2>2. /\ Bearer(r) \in Answered
          /\ pc[r] \in {"check", "verify", "refused"}
          /\ pc[r] = "verify" => Expired(Bearer(r))
          /\ ShutOut(Bearer(r))
      BY <2>1 DEF Shut
    <2>3. CASE pc[r] = "check"
      <3>1. /\ pc'[r] \in {"verify", "refused"}
            /\ pc'[r] = "verify" => Expired(Bearer(r))
            /\ now' = now
        BY <1>5, <2>2, <2>3 DEF Serve, CheckBlock, Blocked, Verify, Guard, SignRefresh,
               SignAccess, Rotate, ReadTime, SetBlock, Goto, ShutOut, TypeOK
      <3> QED
        BY <1>1, <2>1, <2>2, <3>1 DEF Bearer, Expired
    <2>4. CASE pc[r] = "verify"
      <3>1. pc'[r] = "refused"
        BY <1>5, <2>2, <2>4 DEF Serve, CheckBlock, Blocked, Verify, Guard, SignRefresh,
               SignAccess, Rotate, ReadTime, SetBlock, Goto, TypeOK
      <3> QED
        BY <1>1, <2>1, <2>2, <3>1 DEF Bearer
    <2>5. pc[r] # "refused"
      BY <1>5 DEF Serve, CheckBlock, Blocked, Verify, Guard, SignRefresh, SignAccess, Rotate,
             ReadTime, SetBlock
    <2> QED
      BY <2>2, <2>3, <2>4, <2>5
  <1>6. ASSUME NEW q \in Requests PROVE Kept(q)'
    <2>1. CASE Tick \/ UNCHANGED vars
      BY <1>3, <2>1 DEF Tick, vars
    <2>2. ASSUME NEW r \in Requests, Arrive(r) \/ Serve(r)
          PROVE  Kept(q)'
      <3>1. CASE q = r
        BY <1>4, <1>5, <2>2, <3>1
      <3>2. CASE q # r
        <4>1. CASE Arrive(r)
          <5>1. PICK c \in Calls, l \in {"guard", "check", "handle"} : Come(r, c, l)
            BY <4>1, ArrivingCalls
          <5>2. pc'[q] = pc[q] /\ call'[q] = call[q] /\ late'[q] = late[q]
            BY <3>2, <5>1 DEF Come, Goto, TypeOK
          <5> QED
            BY <1>3, <5>2
        <4>2. CASE Serve(r)
          <5>1. pc'[q] = pc[q] /\ call'[q] = call[q] /\ late'[q] = late[q]
            BY <3>2, <4>2 DEF Serve, CheckBlock, Blocked, Verify, Guard, SignRefresh, SignAccess,
                 Rotate, ReadTime, SetBlock, Goto, TypeOK
          <5> QED
            BY <1>3, <5>1
        <4> QED
          BY <2>2, <4>1, <4>2
      <3> QED
        BY <3>1, <3>2
    <2> QED
      BY <2>1, <2>2 DEF Next
  <1> QED
    BY <1>2, <1>6 DEF Shut

\* Once the block of a token has been answered, no request that comes with it
\* afterwards is served, whatever the unit of the clock, the lifetimes, the
\* time of day and the interleaving.
THEOREM BlockedTokensStayOut == Spec => []BlockedStaysOut
  <1> DEFINE Inv == TypeOK /\ Shape /\ LongEnough /\ Shut
  <1>1. Init => Inv
    <2> SUFFICES ASSUME Init PROVE LongEnough /\ Shut
      BY InitHolds
    <2>1. LongEnough
      BY DEF Init, LongEnough
    <2>2. Shut
      BY DEF Init, Shut, Answered
    <2> QED
      BY <2>1, <2>2
  <1>2. Inv /\ [Next]_vars => Inv'
    BY NextKeepsType, NextKeepsShape, NextKeepsLongEnough, NextKeepsShut
  <1>3. Inv => BlockedStaysOut
    BY DEF Shut, BlockedStaysOut
  <1> QED
    BY <1>1, <1>2, <1>3, PTL DEF Spec

-----------------------------------------------------------------------------
(* Why a refusal has a cause: the cache only has tokens somebody asked to  *)
(* block, and neither a wish to block nor an expiry is ever taken back.    *)

Founded ==
  /\ \A e \in cache : e.token \in Asked
  /\ \A r \in Requests : pc[r] = "new" => call[r].kind # "block"
  /\ RefusalHasCause

LEMMA AskedGrows ==
  ASSUME TypeOK, Founded, [Next]_vars
  PROVE  Asked \subseteq Asked'
  <1> USE DEF Asked
  <1>1. ASSUME NEW r \in Requests, Arrive(r) PROVE Asked \subseteq Asked'
    <2>1. PICK c \in Calls, l \in {"guard", "check", "handle"} : Come(r, c, l)
      BY <1>1, ArrivingCalls
    <2>2. /\ call[r].kind # "block"
          /\ \A q \in Requests \ {r} : call'[q] = call[q]
      BY <2>1 DEF Come, TypeOK, Founded
    <2> QED
      BY <2>2
  <1>2. ASSUME NEW r \in Requests, Serve(r) PROVE call' = call
    BY <1>2 DEF Serve, CheckBlock, Verify, Guard, SignRefresh, SignAccess, Rotate,
           ReadTime, SetBlock
  <1>3. CASE Tick \/ UNCHANGED vars
    BY <1>3 DEF Tick, vars
  <1> QED
    BY <1>1, <1>2, <1>3 DEF Next

\* A request that was refused stays so, and so does its cause.
LEMMA CauseStays ==
  ASSUME TypeOK, Founded, [Next]_vars, NEW r \in Requests, call'[r] = call[r],
         Fits(r), Expired(Bearer(r)) \/ Bearer(r) \in Asked
  PROVE  Expired(Bearer(r))' \/ Bearer(r)' \in Asked'
  <1>1. Bearer(r) \in Tokens /\ Bearer(r)' = Bearer(r)
    BY DEF Fits, HasType, Bearer, TypeOK, Calls
  <1> QED
    BY <1>1, AskedGrows, ExpiredStays DEF Expired

LEMMA NextKeepsFounded == TypeOK /\ Shape /\ Founded /\ [Next]_vars => Founded'
  <1> SUFFICES ASSUME TypeOK, Shape, Founded, [Next]_vars PROVE Founded'
    OBVIOUS
  <1>1. Asked \subseteq Asked'
    BY AskedGrows
  <1>2. ASSUME NEW e \in cache' PROVE e.token \in Asked'
    <2>1. CASE e \in cache
      BY <1>1, <2>1 DEF Founded
    <2>2. CASE e \notin cache
      <3>1. PICK r \in Requests : SetBlock(r)
        BY <2>2 DEF Next, Tick, Arrive, Login, Ask, Come, Serve, CheckBlock, Verify, Guard,
               SignRefresh, SignAccess, Rotate, ReadTime, vars
      <3>2. e.token = call[r].body /\ call[r].kind = "block"
        BY <2>2, <3>1 DEF SetBlock, Shape
      <3> QED
        BY <1>1, <3>2 DEF Asked
    <2> QED
      BY <2>1, <2>2
  <1> DEFINE Cause(q) == /\ pc[q] = "new" => call[q].kind # "block"
                         /\ pc[q] = "refused" /\ Fits(q) =>
                              Expired(Bearer(q)) \/ Bearer(q) \in Asked
  <1>3. ASSUME NEW q \in Requests, pc'[q] = pc[q], call'[q] = call[q]
        PROVE  Cause(q)'
    <2>1. Fits(q)' = Fits(q)
      BY <1>3 DEF Fits, HasType, Bearer
    <2> QED
      BY <1>3, <2>1, CauseStays DEF Founded, RefusalHasCause
  <1>4. ASSUME NEW r \in Requests, Arrive(r)
        PROVE  /\ Cause(r)'
               /\ \A q \in Requests \ {r} : pc'[q] = pc[q] /\ call'[q] = call[q]
    <2>1. PICK c \in Calls, l \in {"guard", "check", "handle"} : Come(r, c, l)
      BY <1>4, ArrivingCalls
    <2>2. /\ pc'[r] \notin {"new", "refused"}
          /\ \A q \in Requests \ {r} : pc'[q] = pc[q] /\ call'[q] = call[q]
      BY <2>1 DEF Come, Goto, TypeOK
    <2> QED
      BY <2>2
  <1>5. ASSUME NEW r \in Requests, Serve(r)
        PROVE  /\ Cause(r)'
               /\ \A q \in Requests \ {r} : pc'[q] = pc[q] /\ call'[q] = call[q]
    <2>1. /\ call' = call /\ pc'[r] # "new"
          /\ \A q \in Requests \ {r} : pc'[q] = pc[q]
      BY <1>5 DEF Serve, CheckBlock, Verify, Guard, SignRefresh, SignAccess, Rotate,
             ReadTime, SetBlock, Goto, TypeOK
    <2>2. Fits(r)' = Fits(r)
      BY <2>1 DEF Fits, HasType, Bearer
    <2>3. ASSUME pc'[r] = "refused", Fits(r)
          PROVE  Expired(Bearer(r)) \/ Bearer(r) \in Asked
      <3>1. CASE CheckBlock(r)
        <4>1. PICK e \in cache : e.token = Bearer(r)
          BY <2>3, <3>1 DEF CheckBlock, Blocked, Goto, TypeOK
        <4> QED
          BY <4>1 DEF Founded
      <3>2. CASE Verify(r) \/ Rotate(r)
        BY <2>3, <3>2 DEF Verify, Rotate, Fits, Goto, TypeOK
      <3>3. CASE Guard(r)
        BY <2>3, <3>3 DEF Guard, Fits, Goto, TypeOK
      <3>4. CASE SignRefresh(r) \/ SignAccess(r) \/ ReadTime(r) \/ SetBlock(r)
        BY <2>3, <3>4 DEF SignRefresh, SignAccess, ReadTime, SetBlock, Goto, TypeOK
      <3> QED
        BY <1>5, <3>1, <3>2, <3>3, <3>4 DEF Serve
    <2> QED
      BY <2>1, <2>2, <2>3, CauseStays
  <1>6. ASSUME NEW q \in Requests PROVE Cause(q)'
    <2>1. CASE Tick \/ UNCHANGED vars
      BY <1>3, <2>1 DEF Tick, vars
    <2>2. ASSUME NEW r \in Requests, Arrive(r) \/ Serve(r) PROVE Cause(q)'
      <3>1. CASE q = r
        BY <1>4, <1>5, <2>2, <3>1
      <3>2. CASE q # r
        <4>1. pc'[q] = pc[q] /\ call'[q] = call[q]
          BY <1>4, <1>5, <2>2, <3>2
        <4> QED
          BY <1>3, <4>1
      <3> QED
        BY <3>1, <3>2
    <2> QED
      BY <2>1, <2>2 DEF Next
  <1> QED
    BY <1>2, <1>6 DEF Founded, RefusalHasCause

\* A bearer of the right type is refused only once it has expired or somebody
\* has asked to block that very token, whatever the interleaving.
THEOREM RefusalsHaveCause == Spec => []RefusalHasCause
  <1>1. Init => TypeOK /\ Shape /\ Founded
    <2> SUFFICES ASSUME Init PROVE Founded
      BY InitHolds
    <2>1. \A r \in Requests : pc[r] = "new" /\ call[r].kind = "private"
      BY DEF Init, NoCall
    <2> QED
      BY <2>1 DEF Init, Founded, RefusalHasCause
  <1>2. TypeOK /\ Shape /\ Founded /\ [Next]_vars => (TypeOK /\ Shape /\ Founded)'
    BY NextKeepsType, NextKeepsShape, NextKeepsFounded
  <1>3. Founded => RefusalHasCause
    BY DEF Founded
  <1> QED
    BY <1>1, <1>2, <1>3, PTL DEF Spec

-----------------------------------------------------------------------------
(* As whom a request is served.  A renewed access token has no sub, so that *)
(* its user is served as nobody (MCTokens_renewed); but nobody is served as *)
(* another user, and who has renewed no token is served as itself.          *)

\* u has been answered a renewed access token.
Renewed(u) ==
  \E q \in Requests :
    call[q].kind = "rotate" /\ call[q].who = u /\ pc[q] = "served"

\* What the sub of a token of u may be.
Own(t, u) == t.sub = u \/ (t.sub = None /\ Renewed(u))

\* Every user's tokens are its own, and req.user is that of the bearer.
Owned ==
  /\ \A u \in Users : \A t \in wallet[u] : Own(t, u)
  /\ \A r \in Requests :
       /\ Bearer(r) # None => Own(Bearer(r), call[r].who)
       /\ pc[r] = "sign" => signed[r].sub = call[r].who
       /\ /\ Bearer(r) # None
          /\ pc[r] \in {"guard", "handle", "sign", "set", "served"}
          => userId[r] = Bearer(r).sub
       /\ call[r].kind = "private" /\ pc[r] = "served" => Bearer(r) # None

\* A private request is served as who has made it, or as nobody when that user
\* has renewed a token.
NeverAsAnother ==
  \A r \in Requests : call[r].kind = "private" /\ pc[r] = "served" =>
    userId[r] = call[r].who \/ (userId[r] = None /\ Renewed(call[r].who))

LEMMA RenewedStays ==
  ASSUME TypeOK, [Next]_vars, NEW u \in Users, Renewed(u)
  PROVE  Renewed(u)'
  <1>1. PICK q \in Requests :
          call[q].kind = "rotate" /\ call[q].who = u /\ pc[q] = "served"
    BY DEF Renewed
  <1>2. call'[q] = call[q] /\ pc'[q] = "served"
    BY <1>1 DEF Next, Tick, Arrive, Login, Ask, Come, Serve, CheckBlock, Verify,
           Guard, SignRefresh, SignAccess, Rotate, ReadTime, SetBlock, Goto, vars, TypeOK
  <1> QED
    BY <1>1, <1>2 DEF Renewed

LEMMA NextKeepsOwned == TypeOK /\ Shape /\ Owned /\ [Next]_vars => Owned'
  <1> SUFFICES ASSUME TypeOK, Shape, Owned, [Next]_vars PROVE Owned'
    OBVIOUS
  <1> DEFINE Mine(q) ==
        /\ Bearer(q) # None => Own(Bearer(q), call[q].who)
        /\ pc[q] = "sign" => signed[q].sub = call[q].who
        /\ /\ Bearer(q) # None
           /\ pc[q] \in {"guard", "handle", "sign", "set", "served"}
           => userId[q] = Bearer(q).sub
        /\ call[q].kind = "private" /\ pc[q] = "served" => Bearer(q) # None
  <1>0. \A q \in Requests : call[q] \in Calls /\ call[q].who \in Users
    BY DEF TypeOK, Calls
  <1>1. \A u \in Users : \A t : Own(t, u) => Own(t, u)'
    BY RenewedStays DEF Own
  <1>2. ASSUME NEW q \in Requests, pc'[q] = pc[q], call'[q] = call[q],
               signed'[q] = signed[q], userId'[q] = userId[q]
        PROVE  Mine(q)'
    BY <1>0, <1>1, <1>2 DEF Owned, Bearer
  <1>3. CASE Tick \/ UNCHANGED vars
    <2>1. UNCHANGED <<wallet, pc, call, signed, userId>>
      BY <1>3 DEF Tick, vars, local
    <2> QED
      BY <1>1, <1>2, <2>1 DEF Owned
  <1>4. ASSUME NEW r \in Requests, Arrive(r) PROVE Owned'
    <2>1. PICK c \in Calls, l \in {"guard", "check", "handle"} :
            /\ Come(r, c, l)
            /\ IF l = "check" THEN c.bearer \in Tokens ELSE c.bearer = None
            /\ c.who = call[r].who
            /\ c.bearer \in wallet[c.who] \cup {None}
      BY <1>4, ArrivingCalls
    <2>2. /\ pc'[r] = l /\ call'[r] = c
          /\ \A q \in Requests \ {r} : pc'[q] = pc[q] /\ call'[q] = call[q]
          /\ UNCHANGED <<wallet, signed, userId>>
      BY <2>1 DEF Come, Goto, local, TypeOK
    <2>3. Mine(r)'
      BY <1>0, <1>1, <2>1, <2>2, NoneAssumption DEF Owned, Bearer
    <2> QED
      BY <1>1, <1>2, <2>2, <2>3 DEF Owned
  <1>5. ASSUME NEW r \in Requests, Serve(r) PROVE Owned'
    <2>1. /\ call' = call
          /\ \A q \in Requests \ {r} : /\ pc'[q] = pc[q] /\ signed'[q] = signed[q]
                                       /\ userId'[q] = userId[q]
      BY <1>5 DEF Serve, CheckBlock, Blocked, Verify, Guard, SignRefresh, SignAccess,
             Rotate, ReadTime, SetBlock, Goto, local, TypeOK
    <2>2. (Bearer(r) # None => Own(Bearer(r), call[r].who))'
      BY <1>0, <1>1, <2>1 DEF Owned, Bearer
    \* Only the two that answer a token, and Verify and SignRefresh, do more
    \* than to go on.
    <2>3. CASE SignRefresh(r)
      <3>1. /\ signed'[r].sub = call[r].who /\ pc'[r] = "sign"
            /\ UNCHANGED <<wallet, userId>> /\ pc[r] = "handle"
        BY <2>3 DEF SignRefresh, IssueToken, Goto, TypeOK
      <3>2. Mine(r)'
        BY <2>1, <2>2, <3>1 DEF Bearer, Owned
      <3> QED
        BY <1>1, <1>2, <2>1, <3>1, <3>2 DEF Owned
    <2>4. CASE SignAccess(r)
      <3> DEFINE a == IssueToken(call[r].who, "access")
                 u == call[r].who
      <3>1. /\ pc[r] = "sign" /\ pc'[r] = "served" /\ userId' = userId
            /\ call[r].kind = "login"
            /\ wallet' = [wallet EXCEPT ![u] = @ \cup {signed[r], a}]
        BY <2>4 DEF SignAccess, Goto, TypeOK, Shape
      <3>2. signed[r].sub = u /\ a.sub = u
        BY <3>1 DEF Owned, IssueToken
      <3>3. ASSUME NEW v \in Users, NEW t \in wallet'[v] PROVE Own(t, v)'
        <4>1. CASE t \in wallet[v]
          BY <1>1, <4>1 DEF Owned
        <4>2. CASE t \notin wallet[v]
          <5>1. v = u /\ t \in {signed[r], a}
            BY <1>0, <3>1, <3>3, <4>2 DEF TypeOK
          <5> QED
            BY <3>2, <5>1 DEF Own
        <4> QED
          BY <4>1, <4>2
      <3>4. Mine(r)'
        BY <2>1, <2>2, <3>1 DEF Bearer, Owned
      <3> QED
        BY <1>2, <2>1, <3>3, <3>4 DEF Owned
    <2>5. CASE Rotate(r)
      <3> DEFINE u == call[r].who
      <3>1. /\ pc[r] = "handle" /\ pc'[r] \in {"served", "refused"}
            /\ UNCHANGED <<signed, userId>> /\ call[r].kind = "rotate"
            /\ \/ wallet' = wallet
               \/ /\ wallet' = [wallet EXCEPT ![u] = @ \cup {IssueToken(None, "access")}]
                  /\ pc'[r] = "served"
        BY <2>5 DEF Rotate, Goto, local, TypeOK
      <3>2. pc'[r] = "served" => Renewed(u)'
        BY <2>1, <3>1 DEF Renewed
      <3>3. ASSUME NEW v \in Users, NEW t \in wallet'[v] PROVE Own(t, v)'
        <4>1. CASE t \in wallet[v]
          BY <1>1, <4>1 DEF Owned
        <4>2. CASE t \notin wallet[v]
          <5>1. v = u /\ t = IssueToken(None, "access") /\ pc'[r] = "served"
            BY <1>0, <3>1, <3>3, <4>2 DEF TypeOK
          <5> QED
            BY <2>1, <3>2, <5>1 DEF Own, IssueToken
        <4> QED
          BY <4>1, <4>2
      <3>4. Mine(r)'
        BY <2>1, <2>2, <3>1 DEF Bearer, Owned
      <3> QED
        BY <1>2, <2>1, <3>3, <3>4 DEF Owned
    <2>6. CASE Verify(r)
      <3>1. /\ pc'[r] = "refused" \/ (pc'[r] = "guard" /\ userId'[r] = Bearer(r).sub)
            /\ UNCHANGED <<wallet, signed>>
        BY <2>6 DEF Verify, Goto, TypeOK
      <3>2. Mine(r)'
        BY <2>1, <2>2, <3>1 DEF Bearer
      <3> QED
        BY <1>1, <1>2, <2>1, <3>1, <3>2 DEF Owned
    <2>7. CASE CheckBlock(r) \/ Guard(r) \/ ReadTime(r) \/ SetBlock(r)
      <3>1. /\ UNCHANGED <<wallet, signed, userId>>
            /\ pc'[r] # "sign"
            /\ pc[r] = "check" => pc'[r] \in {"verify", "refused"}
            /\ pc[r] \in {"check", "guard", "handle", "set"}
            /\ call[r].kind = "private" /\ pc'[r] = "served" => Bearer(r) # None
        BY <2>7 DEF CheckBlock, Guard, HasType, ReadTime, SetBlock, Shape, Goto, local,
               TypeOK
      <3>2. Mine(r)'
        BY <2>1, <2>2, <3>1 DEF Bearer, Owned
      <3> QED
        BY <1>1, <1>2, <2>1, <3>1, <3>2 DEF Owned
    <2> QED
      BY <1>5, <2>3, <2>4, <2>5, <2>6, <2>7 DEF Serve
  <1> QED
    BY <1>3, <1>4, <1>5 DEF Next

\* No interleaving of log-ins, renewals, log-outs and expiries serves a request
\* as another user than the one who has made it; that ServedAsSelf fails is due
\* to renewed tokens only, and to their sub.
THEOREM NobodyIsServedAsAnother == Spec => []NeverAsAnother
  <1>1. Init => TypeOK /\ Shape /\ Owned
    BY InitHolds DEF Init, Owned, Bearer, NoCall
  <1>2. TypeOK /\ Shape /\ Owned /\ [Next]_vars => (TypeOK /\ Shape /\ Owned)'
    BY NextKeepsType, NextKeepsShape, NextKeepsOwned
  <1>3. TypeOK /\ Owned => NeverAsAnother
    <2> SUFFICES ASSUME TypeOK, Owned, NEW r \in Requests,
                        call[r].kind = "private", pc[r] = "served"
                 PROVE  userId[r] = call[r].who
                          \/ (userId[r] = None /\ Renewed(call[r].who))
      BY DEF NeverAsAnother
    <2> QED
      BY DEF Owned, Own
  <1> QED
    BY <1>1, <1>2, <1>3, PTL DEF Spec
=============================================================================
