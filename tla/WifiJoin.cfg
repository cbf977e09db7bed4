SPECIFICATION FairSpec
CONSTANTS
  Networks = {n1, n2, n3}
  Passwords = {p1}
  SlotCount = 2
  Trouble = {"power", "memory"}
  None = None
  NoPassword = NoPassword
  Torn = Torn
INVARIANT AutoIsQuiet
PROPERTIES
  SavesWhatJoined
  NothingForgotten
  KeychainIsKept
  AttemptsEnd
