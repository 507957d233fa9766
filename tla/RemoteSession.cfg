CONSTANTS
  Games = {g1, g2}
  None = None
  g1 = g1
  g2 = g2
  MaxGuests = 2
  MaxLoads = 2
  MaxToggles = 2
  MaxInputs = 2
SPECIFICATION FairSpec
CHECK_DEADLOCK FALSE
INVARIANTS
  InfoIsComplete
  HostKnowsGuest
  InputsAreHeard
  RunsWhatItSays
PROPERTIES
  VoiceStarts
