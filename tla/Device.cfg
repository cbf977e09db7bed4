SPECIFICATION DeviceSpec
CONSTANTS
  Keys <- ConfirmKeys
  EdgeSides = TRUE
  HasTilt = TRUE
  MaxTaps = 1
  ImuFails = TRUE
INVARIANTS
  WakePressNeverSleeps
  OnlyFlicksTurn
  LowOnlyInReader
PROPERTY WakeReleaseNeverToggles
