CONSTANTS
  MaxAttempts = 1
  DoPortForwarding = TRUE
  Guests = {g1}
  NoGuest = NoGuest
  NatServer = NatServer
  AutoGenKey = TRUE
  Budget = 4
SPECIFICATION FairSpec
CHECK_DEADLOCK FALSE
PROPERTIES
  InvitationIsMade
