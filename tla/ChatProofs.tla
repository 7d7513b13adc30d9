----------------------------- MODULE ChatProofs -----------------------------
(***************************************************************************)
(* Proofs about Chat, for any users, sockets, rooms and messages, and      *)
(* however many sockets a user has.                                        *)
(***************************************************************************)
EXTENDS Chat, FiniteSetTheorems, TLAPS

\* The handler of a message runs for a socket, and past its first look-up for a
\* user.
SentFrom ==
  \A m \in Messages :
    /\ step[m] # "unsent" => from[m] \in Sockets
    /\ step[m] \in {"create", "commit", "announce", "done"} => Sender(m) \in Users

Typed == TypeOK /\ SentFrom

LEMMA TypeInvariant == Spec => []Typed
<1> USE AdminsAssumption, UserOfAssumption, NobodyAssumption, NoUserAssumption
<1>1. Init => Typed
  BY DEF Init, TypeOK, SentFrom, Typed, RoomOrNone
<1>2. Typed /\ [Next]_vars => Typed'
  <2> SUFFICES ASSUME Typed, [Next]_vars PROVE Typed'
    OBVIOUS
  <2> USE DEF Typed, TypeOK, SentFrom, RoomOrNone, Sender
  <2>1. CASE UNCHANGED vars
    BY <2>1 DEF vars, socketVars, messageVars
  <2>2. ASSUME NEW s \in Sockets, SocketNext(s) PROVE Typed'
    <3>1. CASE Connect(s)
      BY <3>1 DEF Connect, messageVars
    <3>2. CASE Register(s)
      BY <3>2 DEF Register, messageVars
    <3>3. CASE FindRooms(s)
      BY <3>3 DEF FindRooms, JoinedBy, RoomsOf, messageVars
    <3>4. CASE Join(s)
      BY <3>4 DEF Join, messageVars
    <3>5. CASE Disconnect(s)
      BY <3>5 DEF Disconnect, messageVars
    <3> QED
      BY <2>2, <3>1, <3>2, <3>3, <3>4, <3>5 DEF SocketNext
  <2>3. ASSUME NEW m \in Messages, MessageNext(m) PROVE Typed'
    <3>1. CASE \E s \in Sockets, r \in RoomOrNone : Send(m, s, r)
      BY <3>1 DEF Send, socketVars
    <3>2. CASE FindNamedRoom(m)
      BY <3>2 DEF FindNamedRoom, Goto, socketVars
    <3>3. CASE FindOwnRoom(m)
      BY <3>3 DEF FindOwnRoom, Goto, RoomsOf, socketVars
    <3>4. CASE CreateRoom(m)
      <4>1. Sender(m) \in Users
        BY <3>4 DEF CreateRoom
      <4>2. CASE Goto(m, "failed") /\ UNCHANGED <<members, room, created>>
        BY <3>4, <4>2 DEF CreateRoom, Goto, socketVars
      <4>3. ASSUME NEW r \in Rooms, NEW a \in Admins,
                   members' = [members EXCEPT ![r] = {Sender(m), a}],
                   room' = [room EXCEPT ![m] = {r}],
                   created' = created \cup {m}, Goto(m, "announce")
            PROVE  Typed'
        BY <3>4, <4>1, <4>3 DEF CreateRoom, Goto, socketVars
      <4> QED
        BY <3>4, <4>2, <4>3 DEF CreateRoom
    <3>5. CASE Store(m)
      BY <3>5 DEF Store, Goto, socketVars
    <3>6. CASE Fails(m)
      BY <3>6 DEF Fails, Goto, socketVars
    <3>7. CASE Announce(m)
      BY <3>7 DEF Announce, Goto, Audience
    <3> QED
      BY <2>3, <3>1, <3>2, <3>3, <3>4, <3>5, <3>6, <3>7 DEF MessageNext
  <2> QED
    BY <2>1, <2>2, <2>3 DEF Next
<1> QED
  BY <1>1, <1>2, PTL DEF Spec

\* Every behaviour of the chat keeps its type.
THEOREM TypeCorrect == Spec => []TypeOK
BY TypeInvariant, PTL DEF Typed

-----------------------------------------------------------------------------
(* Who sees what.  The sockets of a customer never enter a room it is not  *)
(* a member of, nor does a handler ever hold such a room for them; those   *)
(* of nobody never enter one their query did not return; rooms gain        *)
(* members only when they are created.                                     *)

StaysInOwn ==
  \A s \in Sockets :
    /\ UserOf[s] \in Users \ Admins =>
         joined[s] \cup found[s] \subseteq RoomsOf(UserOf[s])
    /\ UserOf[s] = NoUser => joined[s] \subseteq found[s]
    /\ stage[s] \in {"new", "verify", "query"} => found[s] = {}

WritesToOwn ==
  \A m \in Messages : step[m] \in {"commit", "announce", "done"} =>
    \E r \in Rooms : /\ room[m] = {r}
                     /\ members[r] # {}
                     /\ Sender(m) \in members[r] \cup Admins

NotSentBefore == \A m \in Messages : step[m] # "done" => delivered[m] = {}

SeenInv == StaysInOwn /\ WritesToOwn /\ NotSentBefore /\ OnlyMembersSee

\* Connecting and disconnecting.
LEMMA SocketsKeepSeen ==
  ASSUME Typed, SeenInv, NEW s \in Sockets, SocketNext(s)
  PROVE  SeenInv'
<1> USE DEF Typed, TypeOK, SeenInv, WritesToOwn, NotSentBefore,
            OnlyMembersSee, messageVars, Sender
<1>1. CASE Connect(s)
  BY <1>1 DEF Connect, StaysInOwn, RoomsOf
<1>2. CASE Register(s)
  BY <1>2 DEF Register, StaysInOwn, RoomsOf
<1>3. CASE FindRooms(s)
  BY <1>3, NoUserAssumption DEF FindRooms, JoinedBy, StaysInOwn, RoomsOf
<1>4. CASE Join(s)
  BY <1>4 DEF Join, StaysInOwn, RoomsOf
<1>5. CASE Disconnect(s)
  BY <1>5 DEF Disconnect, StaysInOwn, RoomsOf
<1> QED
  BY <1>1, <1>2, <1>3, <1>4, <1>5 DEF SocketNext

\* A new room.
LEMMA CreationKeepsSeen ==
  ASSUME Typed, SeenInv, NEW m \in Messages, CreateRoom(m)
  PROVE  SeenInv'
<1> USE DEF Typed, TypeOK, CreateRoom, Goto, socketVars
<1>1. CASE Goto(m, "failed") /\ UNCHANGED <<members, room, created>>
  BY <1>1 DEF SeenInv, StaysInOwn, WritesToOwn, NotSentBefore,
              OnlyMembersSee, RoomsOf, Sender
<1>2. ASSUME NEW r \in Rooms, NEW a \in Admins, ~Exists(r),
             members' = [members EXCEPT ![r] = {Sender(m), a}],
             room' = [room EXCEPT ![m] = {r}],
             Goto(m, "announce")
      PROVE  SeenInv'
  <2>1. \A q \in Rooms : members[q] \subseteq members'[q]
    BY <1>2 DEF Exists
  <2>2. StaysInOwn'
    BY <2>1 DEF SeenInv, StaysInOwn, RoomsOf
  <2>3. WritesToOwn'
    <3> SUFFICES ASSUME NEW n \in Messages,
                        step'[n] \in {"commit", "announce", "done"}
                 PROVE  \E q \in Rooms : /\ room'[n] = {q}
                                         /\ members'[q] # {}
                                         /\ Sender(n)' \in members'[q] \cup Admins
      BY DEF WritesToOwn
    <3>1. CASE n = m
      BY <1>2, <3>1 DEF Sender
    <3>2. CASE n # m
      <4>1. PICK q \in Rooms : /\ room[n] = {q}
                               /\ members[q] # {}
                               /\ Sender(n) \in members[q] \cup Admins
        BY <1>2, <3>2 DEF SeenInv, WritesToOwn
      <4> QED
        BY <1>2, <3>2, <4>1, <2>1 DEF Sender
    <3> QED
      BY <3>1, <3>2
  <2>4. NotSentBefore'
    BY <1>2 DEF SeenInv, NotSentBefore
  <2>5. OnlyMembersSee'
    BY <1>2, <2>1 DEF SeenInv, OnlyMembersSee, NotSentBefore
  <2> QED
    BY <2>2, <2>3, <2>4, <2>5 DEF SeenInv
<1> QED
  BY <1>1, <1>2

\* The new message goes out.
LEMMA AnnouncementKeepsSeen ==
  ASSUME Typed, SeenInv, NEW m \in Messages, Announce(m)
  PROVE  SeenInv'
<1> USE UserOfAssumption, NoUserAssumption, AdminsAssumption
        DEF Typed, TypeOK, Announce, Goto
<1>1. PICK r \in Rooms : /\ room[m] = {r}
                         /\ members[r] # {}
                         /\ Sender(m) \in members[r] \cup Admins
  BY DEF SeenInv, WritesToOwn
<1>2. \A s \in Enters(m) : UserOf[s] \in (members[r] \cup Admins) \cap Users
  BY <1>1 DEF Enters, SentFrom
<1>3. StaysInOwn'
  BY <1>1, <1>2 DEF SeenInv, StaysInOwn, RoomsOf
<1>4. WritesToOwn'
  BY DEF SeenInv, WritesToOwn, Sender
<1>5. NotSentBefore'
  BY DEF SeenInv, NotSentBefore
<1>6. \A s \in Audience(m) : \/ UserOf[s] \in members[r] \cup Admins
                             \/ UserOf[s] = NoUser /\ room[m] \subseteq found[s]
  BY <1>1, <1>2 DEF Audience, SeenInv, StaysInOwn, RoomsOf
<1>7. OnlyMembersSee'
  BY <1>1, <1>6 DEF SeenInv, OnlyMembersSee
<1> QED
  BY <1>3, <1>4, <1>5, <1>7 DEF SeenInv

LEMMA MessagesKeepSeen ==
  ASSUME Typed, SeenInv, NEW m \in Messages, MessageNext(m)
  PROVE  SeenInv'
<1> USE DEF Typed, TypeOK, SeenInv, StaysInOwn, WritesToOwn, NotSentBefore,
            OnlyMembersSee, RoomsOf, Goto, socketVars
<1>1. CASE \E s \in Sockets, r \in RoomOrNone : Send(m, s, r)
  BY <1>1 DEF Send, Sender
<1>2. CASE FindNamedRoom(m)
  BY <1>2 DEF FindNamedRoom, Sender, Exists, RoomOrNone
<1>3. CASE FindOwnRoom(m)
  BY <1>3 DEF FindOwnRoom, Sender
<1>4. CASE Store(m)
  BY <1>4 DEF Store, Sender
<1>5. CASE Fails(m)
  BY <1>5 DEF Fails, Sender
<1> QED
  BY <1>1, <1>2, <1>3, CreationKeepsSeen, <1>4, <1>5, AnnouncementKeepsSeen
     DEF MessageNext

LEMMA SeenInvariant == Spec => []SeenInv
<1>1. Init => SeenInv
  BY DEF Init, SeenInv, StaysInOwn, WritesToOwn, NotSentBefore, OnlyMembersSee
<1>2. Typed /\ SeenInv /\ [Next]_vars => SeenInv'
  <2> SUFFICES ASSUME Typed, SeenInv, [Next]_vars PROVE SeenInv'
    OBVIOUS
  <2>1. CASE UNCHANGED vars
    BY <2>1 DEF vars, socketVars, messageVars, SeenInv, StaysInOwn, RoomsOf,
                WritesToOwn, NotSentBefore, OnlyMembersSee, Sender
  <2> QED
    BY <2>1, SocketsKeepSeen, MessagesKeepSeen DEF Next
<1> QED
  BY <1>1, <1>2, TypeInvariant, PTL DEF Spec

\* A message is sent to members of its room and to admins only, whichever
\* sockets connect, reconnect and close while rooms are created and announced.
THEOREM OnlyMembersAreTold == Spec => []OnlyMembersSee
BY SeenInvariant, PTL DEF SeenInv

\* A stored message is in a room that its author may write to.
THEOREM MessagesStayInOwnRooms == Spec => []StoredInOwnRoom
<1>1. SeenInv => StoredInOwnRoom
  BY DEF SeenInv, WritesToOwn, StoredInOwnRoom
<1> QED
  BY <1>1, SeenInvariant, PTL

-----------------------------------------------------------------------------
(* One room per patient customer: while its message is on its way to       *)
(* create a room nobody else creates one for it.                           *)

Customers == Patient \ Admins

OneAtATime ==
  \A m, n \in Messages :
    InFlight(m) /\ InFlight(n) /\ Sender(m) \in Patient /\ Sender(n) = Sender(m) => m = n

RoomlessCreate ==
  \A m \in Messages :
    step[m] = "create" /\ Sender(m) \in Customers => RoomsOf(Sender(m)) = {}

AtMostOne == \A u \in Customers : \A q, r \in RoomsOf(u) : q = r

RoomInv == OneAtATime /\ RoomlessCreate /\ AtMostOne

\* A step of a message on its way that makes no room.
LEMMA ProgressKeepsRooms ==
  ASSUME Typed, RoomInv, NEW m \in Messages, InFlight(m),
         UNCHANGED <<members, from>>,
         \A n \in Messages \ {m} : step'[n] = step[n],
         step'[m] = "create" /\ Sender(m) \notin Admins => RoomsOf(Sender(m)) = {}
  PROVE  RoomInv'
<1>1. /\ \A n \in Messages : Sender(n)' = Sender(n) /\ (InFlight(n)' => InFlight(n))
      /\ \A u \in Users : RoomsOf(u)' = RoomsOf(u)
  BY DEF Sender, InFlight, RoomsOf
<1>2. OneAtATime'
  BY <1>1 DEF RoomInv, OneAtATime
<1>3. Customers \subseteq Users
  BY PatientAssumption DEF Customers
<1>4. RoomlessCreate'
  BY <1>1, <1>3 DEF RoomInv, RoomlessCreate, Customers
<1>5. AtMostOne'
  BY <1>1, <1>3 DEF RoomInv, AtMostOne
<1> QED
  BY <1>2, <1>4, <1>5 DEF RoomInv

LEMMA CreationKeepsRooms ==
  ASSUME Typed, RoomInv, NEW m \in Messages, CreateRoom(m)
  PROVE  RoomInv'
<1>1. CASE Goto(m, "failed") /\ UNCHANGED <<members, room, created>>
  <2>1. /\ InFlight(m) /\ step'[m] = "failed" /\ UNCHANGED <<members, from>>
        /\ \A n \in Messages \ {m} : step'[n] = step[n]
    BY <1>1 DEF CreateRoom, Goto, InFlight, Typed, TypeOK
  <2> QED
    BY <2>1, ProgressKeepsRooms
<1>2. ASSUME NEW r \in Rooms, NEW a \in Admins, ~Exists(r),
             members' = [members EXCEPT ![r] = {Sender(m), a}],
             Goto(m, "announce")
      PROVE  RoomInv'
  <2>1. /\ InFlight(m) /\ step[m] = "create" /\ step'[m] = "announce" /\ from' = from
        /\ \A n \in Messages \ {m} : step'[n] = step[n]
        /\ \A n \in Messages : Sender(n)' = Sender(n) /\ (InFlight(n)' => InFlight(n))
        /\ members'[r] = {Sender(m), a} /\ members[r] = {}
        /\ \A q \in Rooms \ {r} : members'[q] = members[q]
    BY <1>2 DEF CreateRoom, Goto, InFlight, Sender, Typed, TypeOK, Exists
  <2>2. \A u \in Customers : u # Sender(m) => RoomsOf(u)' = RoomsOf(u)
    BY <2>1 DEF RoomsOf, Customers
  <2>3. Sender(m) \in Customers => RoomsOf(Sender(m)) = {} /\ RoomsOf(Sender(m))' = {r}
    BY <2>1 DEF RoomInv, RoomlessCreate, RoomsOf
  <2>4. OneAtATime'
    BY <2>1 DEF RoomInv, OneAtATime
  <2>5. RoomlessCreate'
    <3> SUFFICES ASSUME NEW n \in Messages, step'[n] = "create", Sender(n) \in Customers
                 PROVE  RoomsOf(Sender(n))' = {}
      BY <2>1 DEF RoomlessCreate
    <3>1. n # m /\ step[n] = "create"
      BY <2>1
    <3>2. Sender(n) # Sender(m)
      BY <2>1, <3>1 DEF RoomInv, OneAtATime, InFlight, Customers
    <3> QED
      BY <2>1, <2>2, <3>1, <3>2 DEF RoomInv, RoomlessCreate, RoomsOf
  <2>6. AtMostOne'
    <3> SUFFICES ASSUME NEW u \in Customers PROVE \A p, q \in RoomsOf(u)' : p = q
      BY DEF AtMostOne
    <3>1. CASE u = Sender(m)
      <4>1. RoomsOf(u)' = {r}
        BY <2>1, <2>3, <3>1
      <4> QED
        BY <4>1
    <3>2. CASE u # Sender(m)
      BY <2>2, <3>2 DEF RoomInv, AtMostOne
    <3> QED
      BY <3>1, <3>2
  <2> QED
    BY <2>4, <2>5, <2>6 DEF RoomInv
<1> QED
  BY <1>1, <1>2 DEF CreateRoom

LEMMA SendKeepsRooms ==
  ASSUME Typed, RoomInv, NEW m \in Messages, NEW s \in Sockets, NEW r \in RoomOrNone,
         Send(m, s, r)
  PROVE  RoomInv'
<1>1. /\ step'[m] = "room" /\ from'[m] = s /\ members' = members
      /\ \A n \in Messages \ {m} : step'[n] = step[n] /\ from'[n] = from[n]
      /\ UserOf[s] \in Patient =>
           \A n \in Messages : InFlight(n) => Sender(n) # UserOf[s]
  BY DEF Send, Typed, TypeOK
<1>2. /\ Sender(m)' = UserOf[s]
      /\ \A n \in Messages \ {m} : Sender(n)' = Sender(n) /\ InFlight(n)' = InFlight(n)
  BY <1>1 DEF Sender, InFlight
<1>3. OneAtATime'
  <2> SUFFICES ASSUME NEW k \in Messages, NEW n \in Messages, InFlight(k)', InFlight(n)',
                      Sender(k)' \in Patient, Sender(n)' = Sender(k)', k # n
               PROVE  FALSE
    BY DEF OneAtATime
  <2>1. CASE k # m /\ n # m
    BY <1>2, <2>1 DEF RoomInv, OneAtATime
  <2>2. CASE k = m \/ n = m
    BY <1>1, <1>2, <2>2
  <2> QED
    BY <2>1, <2>2
<1>4. \A u \in Customers : RoomsOf(u)' = RoomsOf(u)
  BY <1>1 DEF RoomsOf
<1>5. RoomlessCreate'
  BY <1>1, <1>2, <1>4 DEF RoomInv, RoomlessCreate
<1>6. AtMostOne'
  BY <1>4 DEF RoomInv, AtMostOne
<1> QED
  BY <1>3, <1>5, <1>6 DEF RoomInv

LEMMA RoomInvariant == Spec => []RoomInv
<1>1. Init => RoomInv
  BY DEF Init, RoomInv, OneAtATime, RoomlessCreate, AtMostOne, InFlight, RoomsOf
<1>2. Typed /\ RoomInv /\ [Next]_vars => RoomInv'
  <2> SUFFICES ASSUME Typed, RoomInv, [Next]_vars PROVE RoomInv'
    OBVIOUS
  <2>1. CASE UNCHANGED <<members, step, from>>
    BY <2>1 DEF RoomInv, OneAtATime, RoomlessCreate, AtMostOne, InFlight, Sender, RoomsOf
  <2>2. ASSUME NEW s \in Sockets, SocketNext(s) PROVE UNCHANGED <<members, step, from>>
    BY <2>2 DEF SocketNext, Connect, Register, FindRooms, Join, Disconnect, messageVars
  <2>3. ASSUME NEW m \in Messages,
               \/ FindNamedRoom(m) \/ FindOwnRoom(m) \/ Store(m) \/ Fails(m) \/ Announce(m)
        PROVE  RoomInv'
    <3>1. /\ InFlight(m) /\ UNCHANGED <<members, from>>
          /\ \A n \in Messages \ {m} : step'[n] = step[n]
          /\ step'[m] = "create" => RoomsOf(Sender(m)) = {}
      BY <2>3 DEF FindNamedRoom, FindOwnRoom, Store, Fails, Announce, Goto, InFlight,
                  Typed, TypeOK
    <3> QED
      BY <3>1, ProgressKeepsRooms
  <2> QED
    BY <2>1, <2>2, <2>3, SendKeepsRooms, CreationKeepsRooms
       DEF Next, MessageNext, vars, socketVars, messageVars
<1> QED
  BY <1>1, <1>2, TypeInvariant, PTL DEF Spec

\* A customer who sends one message at a time has one room at most, whatever
\* all the others do.
THEOREM PatientHaveOneRoom == Spec => []OneRoomPerCustomer
<1>1. AtMostOne => OneRoomPerCustomer
  <2> SUFFICES ASSUME AtMostOne, NEW u \in Customers
               PROVE  Cardinality(RoomsOf(u)) <= 1
    BY DEF OneRoomPerCustomer, Customers
  <2>1. CASE RoomsOf(u) = {}
    BY <2>1, FS_EmptySet
  <2>2. ASSUME NEW r \in RoomsOf(u) PROVE Cardinality(RoomsOf(u)) = 1
    <3>1. RoomsOf(u) = {r}
      BY <2>2 DEF AtMostOne
    <3> QED
      BY <3>1, FS_Singleton
  <2> QED
    BY <2>1, <2>2
<1> QED
  BY <1>1, RoomInvariant, PTL DEF RoomInv

-----------------------------------------------------------------------------
(* A socket that is done connecting misses no room, if its user has no     *)
(* other.  A room that comes into being after the query of a socket is yet *)
(* to be announced, and by then the socket is registered for its user.     *)

\* The only socket of its user, while it is open, is the registered one.
StaysRegistered ==
  \A s \in alive : Sole(s) /\ Known(s) => connected[UserOf[s]] = s

\* What a socket has missed since its query is still to be announced.
MissesNone ==
  \A s \in alive : Sole(s) =>
    /\ stage[s] = "join" =>
         RoomsOf(UserOf[s]) \subseteq found[s] \cup joined[s] \cup Unannounced
    /\ stage[s] = "ready" => RoomsOf(UserOf[s]) \subseteq joined[s] \cup Unannounced

JoinInv == StaysRegistered /\ MissesNone

LEMMA SocketsKeepJoined ==
  ASSUME Typed, JoinInv, NEW s \in Sockets, SocketNext(s)
  PROVE  JoinInv'
<1> USE UserOfAssumption DEF Typed, TypeOK, Known, messageVars
<1>1. Unannounced' = Unannounced /\ members' = members
  BY DEF SocketNext, Connect, Register, FindRooms, Join, Disconnect, Unannounced
<1>2. \A t \in Sockets : /\ RoomsOf(UserOf[t])' = RoomsOf(UserOf[t])
                         /\ RoomsOf(UserOf[t]) \subseteq JoinedBy(UserOf[t])
  BY <1>1, NoUserAssumption DEF RoomsOf, JoinedBy, Exists
<1>3. \A t \in Sockets : Sole(t)' = Sole(t)
  BY DEF Sole
<1>4. \A t \in Sockets : Sole(t) /\ t # s => UserOf[t] # UserOf[s]
  BY DEF Sole
<1>5. CASE Connect(s)
  BY <1>1, <1>2, <1>3, <1>5 DEF Connect, JoinInv, StaysRegistered, MissesNone
<1>6. CASE Register(s)
  BY <1>1, <1>2, <1>3, <1>4, <1>6 DEF Register, JoinInv, StaysRegistered, MissesNone
<1>7. CASE FindRooms(s)
  BY <1>1, <1>2, <1>3, <1>7 DEF FindRooms, JoinInv, StaysRegistered, MissesNone
<1>8. CASE Join(s)
  BY <1>1, <1>2, <1>3, <1>8 DEF Join, JoinInv, StaysRegistered, MissesNone
<1>9. CASE Disconnect(s)
  BY <1>1, <1>2, <1>3, <1>4, <1>9 DEF Disconnect, JoinInv, StaysRegistered, MissesNone
<1> QED
  BY <1>5, <1>6, <1>7, <1>8, <1>9 DEF SocketNext

\* A room created is a room to announce.
LEMMA CreationKeepsJoined ==
  ASSUME Typed, JoinInv, NEW m \in Messages, CreateRoom(m)
  PROVE  JoinInv'
<1> USE UserOfAssumption DEF Typed, TypeOK, CreateRoom, Goto, socketVars
<1>1. StaysRegistered'
  BY DEF JoinInv, StaysRegistered, Sole, Known
<1>2. Unannounced \subseteq Unannounced'
  BY DEF Unannounced
<1>3. \A u \in Users \cup {NoUser} : RoomsOf(u)' \subseteq RoomsOf(u) \cup Unannounced'
  <2>1. CASE UNCHANGED members
    BY <2>1 DEF RoomsOf
  <2>2. ASSUME NEW r \in Rooms, NEW a \in Admins,
               members' = [members EXCEPT ![r] = {Sender(m), a}],
               room' = [room EXCEPT ![m] = {r}],
               created' = created \cup {m}, Goto(m, "announce")
        PROVE  \A u \in Users \cup {NoUser} : RoomsOf(u)' \subseteq RoomsOf(u) \cup Unannounced'
    <3>1. r \in Unannounced'
      BY <2>2 DEF Unannounced
    <3> QED
      BY <2>2, <3>1 DEF RoomsOf
  <2> QED
    BY <2>1, <2>2
<1>4. MissesNone'
  BY <1>2, <1>3 DEF JoinInv, MissesNone, Sole
<1> QED
  BY <1>1, <1>4 DEF JoinInv

\* All registered sockets of its members enter a new room that is announced.
LEMMA AnnouncementKeepsJoined ==
  ASSUME Typed, JoinInv, NEW m \in Messages, Announce(m)
  PROVE  JoinInv'
<1> USE UserOfAssumption DEF Typed, TypeOK
<1>1. /\ UNCHANGED <<stage, alive, connected, found, members, from, room, created>>
      /\ step[m] = "announce" /\ step'[m] = "done"
      /\ \A n \in Messages \ {m} : step'[n] = step[n]
      /\ \A s \in Sockets : joined[s] \subseteq joined'[s]
      /\ \A s \in Enters(m) : room[m] \subseteq joined'[s]
  BY DEF Announce, Goto, Enters
<1>2. \A s \in Sockets : /\ RoomsOf(UserOf[s])' = RoomsOf(UserOf[s])
                         /\ Sole(s)' = Sole(s)
  BY <1>1 DEF RoomsOf, Sole
<1>3. \A q \in Unannounced \ Unannounced' : m \in created /\ q \in room[m]
  BY <1>1 DEF Unannounced
<1>4. ASSUME NEW s \in alive, Sole(s), stage[s] \in {"join", "ready"},
             NEW q \in RoomsOf(UserOf[s]), q \in Unannounced, q \notin Unannounced'
      PROVE  q \in joined'[s]
  <2>1. connected[UserOf[s]] = s
    BY <1>4 DEF JoinInv, StaysRegistered, Known
  <2>2. s \in Enters(m)
    BY <1>3, <1>4, <2>1 DEF Enters, RoomsOf
  <2> QED
    BY <1>1, <1>3, <1>4, <2>2
<1>5. StaysRegistered'
  BY <1>1, <1>2 DEF JoinInv, StaysRegistered, Known
<1>6. MissesNone'
  BY <1>1, <1>2, <1>4 DEF JoinInv, MissesNone
<1> QED
  BY <1>5, <1>6 DEF JoinInv

\* No other step of a message takes a room from those to be announced.
LEMMA MessagesKeepJoined ==
  ASSUME Typed, JoinInv, NEW m \in Messages, MessageNext(m)
  PROVE  JoinInv'
<1> USE UserOfAssumption DEF Typed, TypeOK
<1>1. ASSUME UNCHANGED <<socketVars, members, created>>,
             step[m] # "announce",
             \A n \in Messages \ {m} : step'[n] = step[n] /\ room'[n] = room[n]
      PROVE  JoinInv'
  <2>1. Unannounced \subseteq Unannounced'
    BY <1>1 DEF Unannounced
  <2> QED
    BY <1>1, <2>1 DEF JoinInv, StaysRegistered, MissesNone, Sole, Known, RoomsOf, socketVars
<1>2. CASE \E s \in Sockets, r \in RoomOrNone : Send(m, s, r)
  BY <1>1, <1>2 DEF Send
<1>3. CASE FindNamedRoom(m) \/ FindOwnRoom(m) \/ Fails(m)
  BY <1>1, <1>3 DEF FindNamedRoom, FindOwnRoom, Fails, Goto
<1>4. CASE Store(m)
  BY <1>1, <1>4 DEF Store, Goto
<1> QED
  BY <1>2, <1>3, <1>4, CreationKeepsJoined, AnnouncementKeepsJoined DEF MessageNext

LEMMA JoinInvariant == Spec => []JoinInv
<1>1. Init => JoinInv
  BY DEF Init, JoinInv, StaysRegistered, MissesNone
<1>2. Typed /\ JoinInv /\ [Next]_vars => JoinInv'
  <2> SUFFICES ASSUME Typed, JoinInv, [Next]_vars PROVE JoinInv'
    OBVIOUS
  <2>1. CASE UNCHANGED vars
    BY <2>1 DEF vars, socketVars, messageVars, JoinInv, StaysRegistered, MissesNone,
                Sole, Known, RoomsOf, Unannounced
  <2> QED
    BY <2>1, SocketsKeepJoined, MessagesKeepJoined DEF Next
<1> QED
  BY <1>1, <1>2, TypeInvariant, PTL DEF Spec

\* The only socket of a user is in all rooms of its user once it is done
\* connecting, but for those whose announcement will have it join.
THEOREM ReadyHaveJoined == Spec => []ReadyIsJoined
<1>1. JoinInv => ReadyIsJoined
  BY DEF JoinInv, MissesNone, ReadyIsJoined
<1> QED
  BY <1>1, JoinInvariant, PTL

-----------------------------------------------------------------------------
(* Who is told: every socket that has joined or that joins with the rest.  *)

SendersKnown == \A m \in Messages : step[m] # "unsent" => Known(from[m])

LEMMA SendersKnownInvariant == Spec => []SendersKnown
<1>1. Init => SendersKnown
  BY DEF Init, SendersKnown
<1>2. Typed /\ SendersKnown /\ [Next]_vars => SendersKnown'
  <2> SUFFICES ASSUME Typed, SendersKnown, [Next]_vars PROVE SendersKnown'
    OBVIOUS
  <2> USE DEF Typed, TypeOK, SentFrom, SendersKnown, Known
  <2>1. ASSUME NEW s \in Sockets, SocketNext(s)
        PROVE  /\ UNCHANGED <<step, from>>
               /\ \A t \in Sockets : Known(t) => Known(t)'
    BY <2>1 DEF SocketNext, Connect, Register, FindRooms, Join, Disconnect, messageVars
  <2>2. ASSUME NEW m \in Messages, NEW s \in Sockets, NEW r \in RoomOrNone, Send(m, s, r)
        PROVE  SendersKnown'
    BY <2>2 DEF Send, socketVars
  <2>3. ASSUME NEW m \in Messages,
               \/ FindNamedRoom(m) \/ FindOwnRoom(m) \/ CreateRoom(m)
               \/ Store(m) \/ Fails(m) \/ Announce(m)
        PROVE  SendersKnown'
    <3>1. /\ UNCHANGED <<stage, from>> /\ step[m] # "unsent"
          /\ \A n \in Messages \ {m} : step'[n] = step[n]
      BY <2>3 DEF FindNamedRoom, FindOwnRoom, CreateRoom, Store, Fails, Announce, Goto,
                  socketVars
    <3> QED
      BY <3>1
  <2>4. CASE UNCHANGED vars
    BY <2>4 DEF vars, socketVars, messageVars
  <2> QED
    BY <2>1, <2>2, <2>3, <2>4 DEF Next, MessageNext
<1> QED
  BY <1>1, <1>2, TypeInvariant, PTL DEF Spec

\* What ReachesMembers says of one step and one message.
Told(m) ==
  /\ Announce(m)
  /\ from[m] \in alive /\ Sole(from[m])
  /\ room[m] \cap Unannounced' = {}
  => \A s \in alive :
       /\ Sole(s) /\ stage[s] = "ready"
       /\ room[m] \subseteq RoomsOf(UserOf[s])
       => s \in delivered'[m]

LEMMA AnnouncementTells ==
  ASSUME Typed, SeenInv, JoinInv, SendersKnown, NEW m \in Messages
  PROVE  Told(m)
<1> USE UserOfAssumption, NobodyAssumption DEF Typed, TypeOK
<1> SUFFICES ASSUME Announce(m), from[m] \in alive, Sole(from[m]),
                    room[m] \cap Unannounced' = {},
                    NEW s \in alive, Sole(s), stage[s] = "ready",
                    room[m] \subseteq RoomsOf(UserOf[s])
             PROVE  s \in delivered'[m]
  BY DEF Told
<1>1. PICK q \in Rooms : room[m] = {q}
  BY DEF Announce, SeenInv, WritesToOwn
<1>2. connected[Sender(m)] # Nobody
  BY DEF Announce, SendersKnown, JoinInv, StaysRegistered, Sender
<1>3. q \in joined[s] \cup Unannounced
  BY <1>1 DEF JoinInv, MissesNone
<1>4. s \in Audience(m)
  <2>1. CASE q \in joined[s]
    BY <1>1, <2>1 DEF Audience
  <2>2. CASE q \in Unannounced
    <3>1. /\ UNCHANGED <<room, created>>
          /\ \A n \in Messages \ {m} : step'[n] = step[n]
      BY DEF Announce, Goto
    <3>2. m \in created
      BY <1>1, <2>2, <3>1 DEF Unannounced
    <3>3. connected[UserOf[s]] = s
      BY DEF JoinInv, StaysRegistered, Known
    <3> QED
      BY <1>1, <3>2, <3>3 DEF Audience, Enters, RoomsOf
  <2> QED
    BY <1>3, <2>1, <2>2
<1> QED
  BY <1>2, <1>4 DEF Announce

\* A message reaches every member that is done connecting, if its author is
\* still there and nobody has two sockets.
THEOREM MembersAreReached == Spec => ReachesMembers
<1>1. Typed /\ SeenInv /\ JoinInv /\ SendersKnown => \A m \in Messages : Told(m)
  BY AnnouncementTells
<1>2. (\A m \in Messages : Told(m)) <=>
      \A m \in Messages :
       /\ Announce(m)
       /\ from[m] \in alive /\ Sole(from[m])
       /\ room[m] \cap Unannounced' = {}
       => \A s \in alive :
            /\ Sole(s) /\ stage[s] = "ready"
            /\ room[m] \subseteq RoomsOf(UserOf[s])
            => s \in delivered'[m]
  BY DEF Told
<1> QED
  BY <1>1, <1>2, TypeInvariant, SeenInvariant, JoinInvariant, SendersKnownInvariant, PTL
     DEF ReachesMembers
=============================================================================
