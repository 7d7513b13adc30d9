\* One socket for each user and one for none; ann sends messages at once, the
\* others in turn.  Bob's socket stays open.
CONSTANTS
  admin = admin
  ann = ann
  bob = bob
  s1 = s1
  s2 = s2
  s3 = s3
  s4 = s4
  m1 = m1
  m2 = m2
  r1 = r1
  r2 = r2
  Nobody = Nobody
  NoUser = NoUser
  Users = {admin, ann, bob}
  Admins = {admin}
  Patient = {admin, bob}
  Sockets = {s1, s2, s3, s4}
  Lasting = {s3}
  UserOf <- OneSocketEach
  Messages = {m1, m2}
  Rooms = {r1, r2}
SPECIFICATION Spec
SYMMETRY Symmetry
INVARIANTS TypeOK OnlyMembersSee ReadyIsJoined OneRoomPerCustomer StoredInOwnRoom
PROPERTIES ReachesMembers
CHECK_DEADLOCK FALSE
