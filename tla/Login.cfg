SPECIFICATION FairLoginSpec
CONSTANTS
  u1 = u1
  u2 = u2
  k1 = k1
  Admins <- MCAdmins
  Callbacks = {k1}
  MaxAttempts = 2
  MaxHandoffs = 2
INVARIANTS SuccessIsRedeemable NoOrphanServer
PROPERTIES WaitingEnds
CHECK_DEADLOCK FALSE
