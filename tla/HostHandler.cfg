CONSTANTS
  MaxAttempts = 1
  DoPortForwarding = TRUE
  Guests = {g1, g2}
  NoGuest = NoGuest
  NatServer = NatServer
  AutoGenKey = TRUE
  Budget = 4
SPECIFICATION FairSpec
CHECK_DEADLOCK FALSE
INVARIANTS
  TypeOK
  GoneGuestIsTimed
  LostGuestIsAwaited
  HostIsReachable
PROPERTIES
  SessionSpec
  NoTakeover
  GoneGuestIsDropped
  InvitationOrBlocked
