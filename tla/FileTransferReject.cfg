SPECIFICATION Spec
CONSTANTS
  Root = rt
  Folders = {rt}
  Names = {n1}
  Books = {b1, b2}
  BookSize = 2
  BufferSize = 2
  RecvMax = 2
  Trouble = {}
  NoBook = NoBook
  NoPath = NoPath
  NoFolder = NoFolder
PROPERTY OnlyIncompleteDeleted
