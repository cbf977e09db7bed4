SPECIFICATION Spec
CONSTANTS
  Zones = {48, 104}
  Seconds <- MCSeconds
  MaxMonth = 3
  OldFiles <- MCOldFiles
  Trouble = {"power", "rtc"}
INVARIANTS
  SettingsInRange
  ManualZoneIsKept
  NothingUnsaved
  ShowsLocalTime
PROPERTY OncePerMonth
