\* Both kinds of database: connections that enforce foreign keys and that do not.
SPECIFICATION Spec
\* The clock and the logins are bounded.
CHECK_DEADLOCK FALSE
CONSTANTS
  u1 = u1
  u2 = u2
  t1 = t1
  t2 = t2
  r1 = r1
  r2 = r2
  NoUser = NoUser
  NoToken = NoToken
  Users <- MCUsers
  Tokens <- MCTokens
  Slots <- MCSlots
  ForeignKeys = {TRUE, FALSE}
  TokenTTL = 2
  MaxWait = 1
  MaxTime = 4
SYMMETRY MCSymmetry
INVARIANTS
  TypeOK
  KeysFollowRows
  KeysLapse
  DeletedUsersOut
PROPERTIES
  TokenStaysOut
