\* Three users, two invitations, three keys, two requests at a time, three in all.
SPECIFICATION Spec
CONSTANTS
  User = {u1, u2, u3}
  Invite = {i1, i2}
  Key = {k1, k2, k3}
  Call = {c1, c2}
  Requested = {"admin", "member"}
  MaxCalls = 3
SYMMETRY Symmetry
INVARIANTS TypeOK ExactlyOneOwner PendingInvitesAreUseful SomeKeyWorks
PROPERTIES InvitesComeFromManagers
CHECK_DEADLOCK FALSE
