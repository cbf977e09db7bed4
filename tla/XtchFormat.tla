----------------------------- MODULE XtchFormat -----------------------------
(***************************************************************************)
(* The chapters of a book: what XtchBook::readChapters() makes of the      *)
(* table in the file, at which row the chapter list opens, and the page    *)
(* that PageJumpScreen goes to.                                            *)
(*                                                                         *)
(* A file f is its size, the fields of its header and the rows stored from *)
(* chapterOffset on, of which the card gives the first f.readable.  The    *)
(* 64-bit offsets never wrap: chapterOffset is below the size of the file  *)
(* when the size of an entry is added to it.                               *)
(***************************************************************************)
EXTENDS Integers, Sequences

kHeader == 56         \* sizeof(xtch::Header)
kChapterEntry == 96   \* kChapterEntrySize

\* What a file may hold: any rows, any offsets, read to any point.
TableRows == [startPage : Nat, endPage : Nat, unnamed : BOOLEAN]
BookFiles ==
  [size : Nat, pageCount : Nat, hasChapters : BOOLEAN, chapterOffset : Nat,
   pageTableOffset : Nat, dataOffset : Nat, rows : Seq(TableRows), readable : Nat]

\* open() and the checks of readChapters() on the offset.
TableAvailable(f) ==
  /\ f.hasChapters /\ f.pageTableOffset >= kHeader
  /\ f.chapterOffset >= kHeader /\ f.chapterOffset + kChapterEntry <= f.size

\* The chapters end where the page table or the data begins, if that is after
\* them, or with the file.
MaxOffset(f) ==
  LET Follows(offset) == offset > f.chapterOffset /\ offset <= f.size
  IN  IF Follows(f.pageTableOffset) THEN f.pageTableOffset
      ELSE IF Follows(f.dataOffset) THEN f.dataOffset ELSE f.size

ChapterCount(f) == (MaxOffset(f) - f.chapterOffset) \div kChapterEntry

\* What the loop reads: to the end of the table, a read that falls short, or an
\* unused entry.
Unused(row) == row.unnamed /\ row.startPage = 0 /\ row.endPage = 0
Goes(f, n) == n <= ChapterCount(f) /\ n <= f.readable /\ \A i \in 1 .. n : ~Unused(f.rows[i])
RowsRead(f) ==
  SubSeq(f.rows, 1, CHOOSE n \in 0 .. Len(f.rows) :
                      Goes(f, n) /\ (n = Len(f.rows) \/ ~Goes(f, n + 1)))

\* On the card pages count from 1, and 0 stands for the first page as well.
ZeroBased(n) == IF n > 0 THEN n - 1 ELSE 0

\* Mutant: a chapter may end one page after the book.
ClampLoose(n, pageCount) == IF n > pageCount THEN pageCount - 1 ELSE n

Clamp(n, pageCount) == IF n >= pageCount THEN pageCount - 1 ELSE n

Chapter(row, pageCount) ==
  [startPage |-> ZeroBased(row.startPage),
   endPage   |-> Clamp(ZeroBased(row.endPage), pageCount)]

\* A chapter is listed if it begins in the book and not after its end.
Kept(row, pageCount) ==
  /\ ZeroBased(row.startPage) < pageCount
  /\ Chapter(row, pageCount).startPage <= Chapter(row, pageCount).endPage

\* readChapters(): no chapters where the table cannot be one of this book.
Chapters(f) ==
  IF ~TableAvailable(f) \/ ChapterCount(f) \notin 1 .. f.pageCount THEN <<>>
  ELSE LET list[i \in 0 .. Len(RowsRead(f))] ==
             IF i = 0 THEN <<>>
             ELSE IF Kept(RowsRead(f)[i], f.pageCount)
                  THEN Append(list[i - 1], Chapter(RowsRead(f)[i], f.pageCount))
                  ELSE list[i - 1]
       IN  list[Len(RowsRead(f))]

\* The list opens at the first chapter the page is in; row 0 is "Go to page".
Covers(chapter, page) == chapter.startPage <= page /\ page <= chapter.endPage
OpensAt(chapters, page) ==
  LET at == {i \in DOMAIN chapters : Covers(chapters[i], page)}
  IN  IF at = {} THEN 0 ELSE CHOOSE i \in at : \A j \in at : i <= j

\* Go: the number typed, to the nearest page there is.
JumpTarget(value, pageCount) ==
  (IF value < 1 THEN 1 ELSE IF value > pageCount THEN pageCount ELSE value) - 1
-----------------------------------------------------------------------------
\* What a row says, as a set of pages of the book.
PagesOf(row, pageCount) ==
  {p \in 0 .. pageCount - 1 :
     /\ p + 1 >= row.startPage
     /\ p + 1 <= row.endPage \/ (row.endPage = 0 /\ p = 0)}

\* A table of no more chapters than pages, with the page table right after it.
PlainTable(f) ==
  /\ f.hasChapters /\ f.chapterOffset >= kHeader /\ f.pageTableOffset <= f.size
  /\ \E n \in 1 .. f.pageCount : f.pageTableOffset = f.chapterOffset + n * kChapterEntry

\* The chapters listed are the rows with pages in the book, each with its pages
\* and in their order; where the table is a plain one, and wherever any is listed,
\* none is missing.
ListsRows(f) ==
  LET l    == Chapters(f)
      read == Len(RowsRead(f))
  IN  l # <<>> \/ PlainTable(f) =>
        \E at \in [1 .. Len(l) -> 1 .. read] :
          /\ \A c, d \in 1 .. Len(l) : c < d => at[c] < at[d]
          /\ \A c \in 1 .. Len(l) :
               l[c].startPage .. l[c].endPage = PagesOf(f.rows[at[c]], f.pageCount)
          /\ \A r \in 1 .. read :
               PagesOf(f.rows[r], f.pageCount) # {} <=> \E c \in 1 .. Len(l) : at[c] = r
=============================================================================
