SPECIFICATION FairSpec
CONSTANTS
  Root = rt
  Folders = {rt, d1, d2}
  Names = {n1}
  Books = {b1}
  BookSize = 3
  BufferSize = 2
  RecvMax = 2
  Trouble = {"power", "peer", "short", "folders"}
  NoBook = NoBook
  NoPath = NoPath
  NoFolder = NoFolder
INVARIANT UploadOkIsWhole
PROPERTIES WholeOrGone RequestsEnd
