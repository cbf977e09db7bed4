SPECIFICATION Spec
CONSTANTS
  Root = rt
  Folders = {rt, d1}
  Names = {n1, n2}
  Books = {b1, b2}
  BookSize = 2
  BufferSize = 1
  RecvMax = 1
  Trouble = {"stuck"}
  NoBook = NoBook
  NoPath = NoPath
  NoFolder = NoFolder
SYMMETRY Alike
INVARIANT ProgressBelongs
PROPERTIES ProgressKept BooksAreUnits
