SPECIFICATION Spec
CONSTANTS
  LogLines = 3
  Lines <- MCLines
  MaxCrashes = 3
  Trouble = {"card"}
INVARIANT OwedIsKept
PROPERTIES
  LogIsTheLastLines
  ToldOnce
