SPECIFICATION PanelSpec
CONSTANTS
  PageCount = 4
  PageSize <- MCPageSize
  Books <- MCBooks
  WindowSize = 3
  Lookbehind = 1
  LruSize = 2
  RefreshEvery = 3
  MaxDelta = 2
  Trouble = {"card", "memory", "power"}
INVARIANTS
  ShownIsAsked
  CachesAgree
  ChaptersInBook
  GlassShowsImage
  CleanEveryN
PROPERTY PositionKept
