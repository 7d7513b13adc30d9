-------------------------------- MODULE Chat --------------------------------
(***************************************************************************)
(* The chat between customers and admins: ChatGateway's handlers for a     *)
(* socket that connects, sends and disconnects, and ChatService, which     *)
(* keeps one socket per user in connectedClients and the rooms and their   *)
(* messages in the database.  One process runs every handler, so code      *)
(* between two awaits is one step; but the handlers of several events,     *)
(* also of one socket, interleave at their awaits.                         *)
(***************************************************************************)
EXTENDS Naturals, FiniteSets

CONSTANTS Users,      \* all accounts
          Admins,     \* those with Role.admin
          Sockets,    \* connections: a client that reconnects has a new one
          UserOf,     \* the account whose token each socket presents, if any
          NoUser,     \* what a token without sub names: undefined
          Rooms,      \* ids of chat rooms
          Messages,   \* sendMessage events
          Patient,    \* users who send one message at a time
          Lasting,    \* bound: sockets that stay open
          Nobody      \* no socket

ASSUME AdminsAssumption == Admins \subseteq Users
ASSUME PatientAssumption == Patient \subseteq Users
ASSUME NoUserAssumption == NoUser \notin Users
ASSUME UserOfAssumption == UserOf \in [Sockets -> Users \cup {NoUser}]
ASSUME NobodyAssumption == Nobody \notin Sockets

VARIABLES
  stage,         \* how far handleConnection has come for each socket
  alive,         \* sockets whose connection is open
  connected,     \* connectedClients: the socket registered for each sub
  found,         \* the rooms joinUserRoom's query returned, by socket
  joined,        \* the socket.io rooms each socket is in
  members,       \* chat_room_users_user: {} for a room that does not exist
  step,          \* where the handler of each message is
  from,          \* the socket it was sent on
  room,          \* the rooms its handler has to do with: at most one
  created,       \* messages whose transaction created their room
  delivered      \* the sockets that were sent newMessage for each message

\* A room or none.
RoomOrNone == {{}} \cup {{r} : r \in Rooms}

socketVars  == <<stage, alive, connected, found, joined>>
messageVars == <<step, from, room, created, delivered>>
vars == <<socketVars, members, messageVars>>

TypeOK ==
  /\ stage \in [Sockets -> {"new", "verify", "query", "join", "ready"}]
  /\ alive \subseteq Sockets
  /\ connected \in [Users \cup {NoUser} -> Sockets \cup {Nobody}]
  /\ found \in [Sockets -> SUBSET Rooms]
  /\ joined \in [Sockets -> SUBSET Rooms]
  /\ members \in [Rooms -> SUBSET Users]
  /\ step \in [Messages -> {"unsent", "room", "create", "commit", "announce",
                            "done", "failed"}]
  /\ from \in [Messages -> Sockets \cup {Nobody}]
  /\ room \in [Messages -> RoomOrNone]
  /\ created \subseteq Messages
  /\ delivered \in [Messages -> SUBSET Sockets]

Init ==
  /\ stage = [s \in Sockets |-> "new"]
  /\ alive = {}
  /\ connected = [u \in Users \cup {NoUser} |-> Nobody]
  /\ found = [s \in Sockets |-> {}]
  /\ joined = [s \in Sockets |-> {}]
  /\ members = [r \in Rooms |-> {}]
  /\ step = [m \in Messages |-> "unsent"]
  /\ from = [m \in Messages |-> Nobody]
  /\ room = [m \in Messages |-> {}]
  /\ created = {}
  /\ delivered = [m \in Messages |-> {}]

RoomsOf(u) == {r \in Rooms : u \in members[r]}

\* Variant: the room an admin names is not looked up.
Exists_Unchecked(r) == TRUE

Exists(r) == members[r] # {}

-----------------------------------------------------------------------------
(* handleConnection and handleDisconnect.                                  *)

Connect(s) ==
  /\ stage[s] = "new"
  /\ stage' = [stage EXCEPT ![s] = "verify"]
  /\ alive' = alive \cup {s}
  /\ UNCHANGED <<connected, found, joined, members, messageVars>>

\* parseBearerToken answers: the socket is registered for its user, in place
\* of any other, before the query for the user's rooms is sent.  The socket
\* may have been closed while the token was verified.  An access token that was
\* renewed has no sub, and is as good as any here: its sockets are registered
\* under undefined.
Register(s) ==
  /\ stage[s] = "verify"
  /\ stage' = [stage EXCEPT ![s] = "query"]
  /\ connected' = [connected EXCEPT ![UserOf[s]] = s]
  /\ UNCHANGED <<alive, found, joined, members, messageVars>>

\* Variant for a run to refute: everybody's rooms are found.
JoinedBy_All(u) == {r \in Rooms : Exists(r)}

\* A filter some: { userId: undefined } is met by every room with a member.
JoinedBy(u) == IF u = NoUser THEN {r \in Rooms : Exists(r)} ELSE RoomsOf(u)

FindRooms(s) ==
  /\ stage[s] = "query"
  /\ stage' = [stage EXCEPT ![s] = "join"]
  /\ found' = [found EXCEPT ![s] = JoinedBy(UserOf[s])]
  /\ UNCHANGED <<alive, connected, joined, members, messageVars>>

Join(s) ==
  /\ stage[s] = "join"
  /\ stage' = [stage EXCEPT ![s] = "ready"]
  /\ joined' = IF s \in alive
                 THEN [joined EXCEPT ![s] = @ \cup found[s]] ELSE joined
  /\ UNCHANGED <<alive, connected, found, members, messageVars>>

\* client.data.user is set by Register; a socket refused before has none.
Known(s) == stage[s] \in {"query", "join", "ready"}

\* The connection ends, or the server ends it (an invalid token, a failed
\* query).  handleDisconnect removes whatever socket its user has registered.
Disconnect(s) ==
  /\ s \in alive \ Lasting
  /\ alive' = alive \ {s}
  /\ joined' = [joined EXCEPT ![s] = {}]
  /\ connected' = IF Known(s) THEN [connected EXCEPT ![UserOf[s]] = Nobody]
                              ELSE connected
  /\ UNCHANGED <<stage, found, members, messageVars>>

-----------------------------------------------------------------------------
(* handleEvent: createMessage and getOrCreateChatRoom.                     *)

Sender(m) == UserOf[from[m]]

InFlight(m) == step[m] \in {"room", "create", "commit", "announce"}

\* An admin names the room it writes to; a customer's room is looked up.  The
\* handler looks the user up first: without one it goes no further than that.
Send(m, s, r) ==
  /\ step[m] = "unsent"
  /\ s \in alive /\ Known(s)
  /\ UserOf[s] \notin Admins => r = {}
  /\ UserOf[s] \in Patient =>
       \A n \in Messages : InFlight(n) => Sender(n) # UserOf[s]
  /\ from' = [from EXCEPT ![m] = s]
  /\ room' = [room EXCEPT ![m] = r]
  /\ step' = [step EXCEPT ![m] = "room"]
  /\ UNCHANGED <<socketVars, members, created, delivered>>

Goto(m, st) == step' = [step EXCEPT ![m] = st]

\* An admin's room must be given and exist.
FindNamedRoom(m) ==
  /\ step[m] = "room"
  /\ Sender(m) \in Admins
  /\ IF \E r \in room[m] : Exists(r) THEN Goto(m, "commit")
                                    ELSE Goto(m, "failed")
  /\ UNCHANGED <<socketVars, members, from, room, created, delivered>>

\* Variant: an existing room is not looked for.
FindOwnRoom_Never(m) ==
  /\ step[m] = "room"
  /\ Sender(m) \in Users \ Admins
  /\ Goto(m, "create")
  /\ UNCHANGED <<socketVars, members, from, room, created, delivered>>

\* findFirst returns some room of a customer that has one.
FindOwnRoom(m) ==
  /\ step[m] = "room"
  /\ Sender(m) \in Users \ Admins
  /\ IF RoomsOf(Sender(m)) = {}
       THEN Goto(m, "create") /\ UNCHANGED room
       ELSE /\ \E r \in RoomsOf(Sender(m)) : room' = [room EXCEPT ![m] = {r}]
            /\ Goto(m, "commit")
  /\ UNCHANGED <<socketVars, members, from, created, delivered>>

\* Some admin is found, and the room, its two members and the message commit
\* together: nothing before it is visible outside the transaction.
CreateRoom(m) ==
  /\ step[m] = "create"
  /\ \/ Admins = {} /\ Goto(m, "failed") /\ UNCHANGED <<members, room, created>>
     \/ \E r \in Rooms, a \in Admins :
          /\ ~Exists(r)
          /\ members' = [members EXCEPT ![r] = {Sender(m), a}]
          /\ room' = [room EXCEPT ![m] = {r}]
          /\ created' = created \cup {m}
          /\ Goto(m, "announce")
  /\ UNCHANGED <<socketVars, from, delivered>>

\* The message alone commits.
Store(m) ==
  /\ step[m] = "commit"
  /\ Goto(m, "announce")
  /\ UNCHANGED <<socketVars, members, from, room, created, delivered>>

\* A statement of the transaction fails, findUnique({ id: undefined }) always;
\* the message is not stored.
Fails(m) ==
  /\ step[m] \in {"room", "create", "commit"}
  /\ Goto(m, "failed")
  /\ UNCHANGED <<socketVars, members, from, room, created, delivered>>

\* Variant: only the author's socket joins a new room.
Enters_AuthorOnly(m) == {s \in alive : connected[Sender(m)] = s}

\* A new room is joined by the sockets registered for its two members, and the
\* socket that is registered for the author joins the room in any case.
Enters(m) ==
  {s \in alive : /\ connected[UserOf[s]] = s
                 /\ \/ UserOf[s] = Sender(m)
                    \/ m \in created
                         /\ \E r \in room[m] : UserOf[s] \in members[r]}

\* Variant: the message goes out before the room is joined.
Audience_Early(m) == {s \in alive : room[m] \subseteq joined[s]}

\* Variant: users in place of their sockets.
Audience_Users(m) == {UserOf[s] : s \in Enters(m)}

Audience(m) == {s \in alive : s \in Enters(m) \/ room[m] \subseteq joined[s]}

\* All that follows the transaction, in one go.  If the author has no socket
\* registered by now, the message goes to nobody.
Announce(m) ==
  /\ step[m] = "announce"
  /\ joined' = [s \in Sockets |-> IF s \in Enters(m) THEN joined[s] \cup room[m]
                                                     ELSE joined[s]]
  /\ delivered' = [delivered EXCEPT
       ![m] = IF connected[Sender(m)] = Nobody THEN {} ELSE Audience(m)]
  /\ Goto(m, "done")
  /\ UNCHANGED <<stage, alive, connected, found, members, from, room, created>>

-----------------------------------------------------------------------------
SocketNext(s) ==
  Connect(s) \/ Register(s) \/ FindRooms(s) \/ Join(s) \/ Disconnect(s)

MessageNext(m) ==
  \/ \E s \in Sockets, r \in RoomOrNone : Send(m, s, r)
  \/ FindNamedRoom(m) \/ FindOwnRoom(m) \/ CreateRoom(m)
  \/ Store(m) \/ Fails(m) \/ Announce(m)

Next ==
  \/ \E s \in Sockets : SocketNext(s)
  \/ \E m \in Messages : MessageNext(m)

Spec == Init /\ [][Next]_vars

-----------------------------------------------------------------------------
(* What is meant to hold.                                                  *)

\* A message is seen only by the members of its room, by admins, and by the
\* sockets whose token names nobody, which joinUserRoom has join all the rooms
\* there are when they connect.  Whichever sockets come and go while a room is
\* created and announced, none of those is told of a room made later.
OnlyMembersSee ==
  \A m \in Messages : \A s \in delivered[m] :
    \/ UserOf[s] \in Admins
    \/ \A r \in room[m] : UserOf[s] \in members[r]
    \/ UserOf[s] = NoUser /\ room[m] \subseteq found[s]

\* A stored message is in a room that exists and that its author may write to.
StoredInOwnRoom ==
  \A m \in Messages : step[m] \in {"announce", "done"} =>
    \E r \in Rooms : /\ room[m] = {r}
                     /\ members[r] # {}
                     /\ Sender(m) \in members[r] \cup Admins

\* Rooms whose creator has yet to tell their members.
Unannounced == UNION {room[m] : m \in {n \in created : step[n] = "announce"}}

\* The user of s has no other connection.
Sole(s) == \A t \in Sockets : UserOf[t] = UserOf[s] => t = s

\* The only socket of its user, once it is done connecting, is in all rooms of
\* its user, no matter how the creation of a room falls between the
\* registration of the socket, its query and its joins.
ReadyIsJoined ==
  \A s \in alive : Sole(s) /\ stage[s] = "ready" =>
    RoomsOf(UserOf[s]) \subseteq joined[s] \cup Unannounced

\* When the handling of a message ends while its author is still there, every
\* member that is done connecting gets it, if they have one socket each.
ReachesMembers ==
  [][\A m \in Messages :
       /\ Announce(m)
       /\ from[m] \in alive /\ Sole(from[m])
       /\ room[m] \cap Unannounced' = {}
       => \A s \in alive :
            /\ Sole(s) /\ stage[s] = "ready"
            /\ room[m] \subseteq RoomsOf(UserOf[s])
            => s \in delivered'[m]]_vars

\* A customer who is patient has one room, however the steps of its messages
\* interleave with those of others.
OneRoomPerCustomer ==
  \A u \in Patient \ Admins : Cardinality(RoomsOf(u)) <= 1
=============================================================================
