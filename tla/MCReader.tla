------------------------------ MODULE MCReader ------------------------------
\* Instance of Reader and its panel for TLC: pages of two sizes, more pages than
\* the window and the cluster cache hold, and the panels of both boards.
EXTENDS ReaderPanel

MCPageSize == [p \in Pages |-> 1 + (p % 2)]

\* Files: every row, alone and in a table of three with unused ones, behind
\* every kind of table, with offsets at and around their limits.
Row96(start, end, unnamed) == [startPage |-> start, endPage |-> end, unnamed |-> unnamed]
Blank == Row96(0, 0, TRUE)
Ends  == 0 .. PageCount + 2
Rows  == {Row96(s, e, u) : s \in Ends, e \in Ends, u \in BOOLEAN}
File(rows, room) ==
  [size |-> kHeader + room + 200, pageCount |-> PageCount, hasChapters |-> TRUE,
   chapterOffset |-> kHeader, pageTableOffset |-> kHeader + room,
   dataOffset |-> kHeader + room + 64, rows |-> rows, readable |-> Len(rows)]
Plainly == {File(<<r>>, kChapterEntry) : r \in Rows}
             \union {File(<<Row96(1, 2, FALSE), r, Row96(3, 3, TRUE), Blank>>, 4 * kChapterEntry) : r \in Rows}
Whole   == File(<<Row96(2, 2, FALSE), Row96(1, 9, TRUE), Row96(4, 4, TRUE)>>, 3 * kChapterEntry)
Odd     ==
       {[Whole EXCEPT !.readable = n] : n \in 0 .. 3}
  \cup {[Whole EXCEPT !.chapterOffset = @ + d] : d \in {-56, -1, 1, 192, 193, 392, 393, 488}}
  \cup {[Whole EXCEPT !.pageTableOffset = n, !.dataOffset = m] :
          n \in {0, 55, 56, 151, 152, 247, 344, 545}, m \in {0, 56, 152, 440, 441, 545}}
  \cup {[Whole EXCEPT !.hasChapters = FALSE]}
MCBooks == Plainly \cup Odd
=============================================================================
