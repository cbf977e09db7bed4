------------------------------- MODULE Reader -------------------------------
(***************************************************************************)
(* Reading a book: ReaderScreen with XtchBook's caches (the decoded page,  *)
(* the window on the page table, the FAT clusters of visited pages), the   *)
(* page prefetched while the user reads, the deferred resync of the        *)
(* display controller, and the saved position.                             *)
(*                                                                         *)
(* A page stands for its own content, table row and offset.  A load is the *)
(* set of its outcomes: every seek, read, reopen and allocation may fail   *)
(* where Trouble says so, and leaves behind what the code leaves behind.   *)
(* Bytes of a page, the inflater and the planes' bit layout are left out.  *)
(* The book's file may be any of Books: what is in its chapter table       *)
(* (XtchFormat) decides where the chapter list leads.                      *)
(***************************************************************************)
EXTENDS XtchFormat, SequencesExt

CONSTANTS
  PageCount,            \* header.pageCount
  PageSize,             \* decoded size of each page
  Books,                \* what the file may hold
  WindowSize, Lookbehind,  \* kPageTableWindowSize, kPageTableLookbehind
  LruSize,              \* kClusterLruSize
  RefreshEvery,         \* settings.refreshEveryNPages
  MaxDelta,             \* bound on the pages one tick turns
  Trouble               \* what may go wrong

Pages  == 0 .. PageCount - 1
NoPage == -1     \* 0xFFFFFFFF
Junk   == -2     \* bytes of no page
Torn   == -3     \* a position file without a position
Status == -4     \* the reader's own message
Menu   == -5     \* any other screen
Planes == -6     \* gray planes, of no whole image
Shown  == Pages \union {Status, Menu}
Image  == [what : Shown, dots : BOOLEAN]
Plain(what) == [what |-> what, dots |-> FALSE]

ASSUME PagesAssumption ==
  PageCount \in Nat \ {0} /\ PageSize \in [Pages -> Nat \ {0}]
ASSUME BooksAssumption == \A f \in Books : f \in BookFiles /\ f.pageCount = PageCount
ASSUME BoundsAssumption ==
  /\ WindowSize \in Nat \ {0} /\ Lookbehind \in 0 .. WindowSize - 1
  /\ LruSize \in Nat \ {0} /\ RefreshEvery \in Nat \ {0} /\ MaxDelta \in Nat
ASSUME TroubleAssumption == Trouble \subseteq {"card", "memory", "save", "power"}

VARIABLES
  screen,        \* "other", "reader", or "child" (chapters, page jump)
  stage,         \* "top" of a tick, or "draw" after the screen's loop()
  dirty,         \* a repaint is requested
  loaded,        \* the book opened
  page, until,   \* ReaderScreen: page, pagesUntilFull
  saved,         \* the position file
  left, misread, \* history: the page last saved; the file was not read on opening
  cache,         \* XtchBook: file, pageBuffer, window, clusterLru
  pending,       \* cleanupPending
  fb, bank, panel, \* frame buffer, the controller's old-image bank, the panel
  fast           \* pages drawn since the last clean refresh

display == <<fb, bank, panel>>
vars == <<screen, stage, dirty, loaded, page, until, saved, left, misread, cache, pending, display, fast>>

Row     == Pages \union {Junk}
Cluster(p) == p + 1        \* never 0, another one for every page
Slot    == [page : Pages, cluster : 1 .. PageCount]
Cache   ==
  [open : BOOLEAN, buffer : Row, cap : Nat, at : Pages \union {NoPage},
   start : Pages, rows : Seq(Row), lru : Seq(Slot)]
Closed  ==
  [open |-> FALSE, buffer |-> Junk, cap |-> 0, at |-> NoPage, start |-> 0,
   rows |-> <<>>, lru |-> <<>>]

TypeOK ==
  /\ screen \in {"other", "reader", "child"} /\ stage \in {"top", "draw"}
  /\ dirty \in BOOLEAN /\ loaded \in BOOLEAN /\ pending \in BOOLEAN
  /\ page \in Pages /\ until \in 0 .. RefreshEvery
  /\ saved \in 0 .. PageCount \union {NoPage, Torn}
  /\ left \in Pages /\ misread \in BOOLEAN
  /\ cache \in Cache /\ Len(cache.rows) <= WindowSize /\ Len(cache.lru) <= LruSize
  /\ fb \in Image /\ panel \in Image
  /\ bank \in Image \union {Plain(Planes)}
  /\ fast \in Nat
-----------------------------------------------------------------------------
CardFails == "card" \in Trouble
Ok(c)     == [ok |-> TRUE, c |-> c]
Failed(c) == [ok |-> FALSE, c |-> c]

\* An operation on the card that leaves c, or fails and leaves d.
Attempt(c, d) == {Ok(c)} \union IF CardFails THEN {Failed(d)} ELSE {}

\* Go on with F where a step succeeded.
Then(outcomes, F(_)) == UNION {IF o.ok THEN F(o.c) ELSE {o} : o \in outcomes}

\* ensureOpen()
EnsureOpen(c) == IF c.open THEN {Ok(c)} ELSE Attempt([c EXCEPT !.open = TRUE], c)

\* ensurePageTableWindow(): where the window goes, and its refill.
WindowStart(p) ==
  LET start == IF p >= Lookbehind THEN p - Lookbehind ELSE 0
      last  == IF PageCount > WindowSize THEN PageCount - WindowSize ELSE 0
  IN  IF start + WindowSize > PageCount THEN last ELSE start
WindowCount(start) == IF PageCount - start < WindowSize THEN PageCount - start ELSE WindowSize

\* The rows in force are pageTableWindow up to pageTableWindowCount.
InWindow(c, p) == c.start <= p /\ p < c.start + Len(c.rows)

\* Mutant: a failed refill leaves the old window in force.
ShortReadKept(c, start, n) ==
  [c EXCEPT !.rows = [i \in DOMAIN c.rows |-> IF i <= n THEN start + i - 1 ELSE c.rows[i]]]

\* A read that stops after n rows leaves no window.
ShortRead(c, start, n) == [c EXCEPT !.rows = <<>>]

Refill(c, p) ==
  LET start == WindowStart(p)
      count == WindowCount(start)
  IN  {Ok([c EXCEPT !.start = start, !.rows = [i \in 1 .. count |-> start + i - 1]])}
        \union {Failed(ShortRead(c, start, n)) : n \in IF CardFails THEN 0 .. count - 1 ELSE {}}

EnsureWindow(c, p) ==
  IF InWindow(c, p) THEN {Ok(c)} ELSE Then(EnsureOpen(c), LAMBDA d : Refill(d, p))

\* readPageTableEntry(): the row, from the window or else alone.
RowOf(c, p) == c.rows[p - c.start + 1]
SingleRow(c, p) ==
  {[ok |-> o.ok, row |-> p, c |-> o.c] :
     o \in Then(EnsureOpen(c), LAMBDA d : Attempt(d, d))}
TableEntry(c, p) ==
  UNION {IF o.ok THEN {[ok |-> TRUE, row |-> RowOf(o.c, p), c |-> o.c]} ELSE SingleRow(o.c, p) :
           o \in EnsureWindow(c, p)}
-----------------------------------------------------------------------------
\* clusterLruLookup() and clusterLruRemember(): most recent first, one slot a
\* page, the oldest dropped when the slots are used up.
Find(lru, p)    == SelectInSeq(lru, LAMBDA s : s.page = p)

ToFront(lru, i) == <<lru[i]>> \o RemoveAt(lru, i)

Remember(lru, p, cluster) ==
  LET i    == Find(lru, p)
      slot == [page |-> p, cluster |-> cluster]
  IN  IF i # 0 THEN <<slot>> \o RemoveAt(lru, i)
      ELSE SubSeq(<<slot>> \o lru, 1, IF Len(lru) < LruSize THEN Len(lru) + 1 ELSE LruSize)

\* growBuffer(): a failed malloc keeps the old block and what it holds.
Grow(c, row) ==
  LET need == PageSize[row]
  IN  IF c.cap >= need THEN {Ok(c)}
      ELSE {Ok([c EXCEPT !.cap = need, !.buffer = Junk])}
             \union IF "memory" \in Trouble THEN {Failed(c)} ELSE {}

\* The file position for p's data: by its remembered cluster, or by a seek.
Position(c, p, row) ==
  LET i == Find(c.lru, p)
  IN  IF i # 0
      THEN {[ok |-> TRUE, c |-> [c EXCEPT !.lru = ToFront(c.lru, i)],
             pos |-> IF c.lru[i].cluster = Cluster(row) THEN row ELSE Junk]}
      ELSE {[ok |-> o.ok, c |-> o.c, pos |-> row] :
              o \in Attempt([c EXCEPT !.lru = Remember(c.lru, p, Cluster(row))], c)}

\* The page header (left alone when it is not one), then the body.
ReadPage(q, p) ==
  IF ~q.ok THEN {Failed(q.c)}
  ELSE (IF q.pos = Junk THEN {} ELSE {Ok([q.c EXCEPT !.buffer = q.pos, !.at = p])})
         \union (IF q.pos = Junk \/ CardFails
                 THEN {Failed(q.c), Failed([q.c EXCEPT !.buffer = Junk])} ELSE {})

\* Nothing is loaded from the first step of a load to its last.
Unload(c) == [c EXCEPT !.at = NoPage]

\* loadPageData()
Load(c, p) ==
  UNION {IF ~t.ok THEN {Failed(t.c)}
         ELSE Then(Then(EnsureOpen(t.c), LAMBDA d : Grow(d, t.row)),
                   LAMBDA d : UNION {ReadPage(q, p) : q \in Position(d, p, t.row)}) :
           t \in TableEntry(Unload(c), p)}

\* Mutant: whatever was prefetched is taken for the page.
PrefetchedAny(c, p) == c.at # NoPage

Prefetched(c, p) == c.at = p

\* The caches as drawPage() needs them, or as its fail() leaves them.
Fetch(c, p) ==
  LET fetched ==
        UNION {IF ~t.ok THEN {Failed(t.c)}
               ELSE Then(EnsureOpen(t.c),
                         LAMBDA d : IF Prefetched(d, p) THEN {Ok(d)} ELSE Load(d, p)) :
                 t \in TableEntry(c, p)}
  IN  {IF o.ok THEN o ELSE Failed([o.c EXCEPT !.at = NoPage, !.open = FALSE]) : o \in fetched}

\* prefetchForward()
Prefetch(c, p) ==
  IF p + 1 >= PageCount \/ Prefetched(c, p + 1) THEN {c} ELSE {o.c : o \in Load(c, p + 1)}
-----------------------------------------------------------------------------
\* Mutant: the position is saved before the page is turned.
SavesEarly(p) == left' = p /\ saved' = page

\* saveProgress(): opening truncates the file, then it is written; no failure
\* of either is reported.
Saves(p) ==
  /\ left' = p
  /\ saved' \in {p} \union IF "save" \in Trouble THEN {saved, Torn} ELSE {}

\* The page of a position file that was read, clamped to the pages there are.
Restored == IF saved \in {NoPage, Torn} THEN 0
            ELSE IF saved >= PageCount THEN PageCount - 1 ELSE saved

\* loadProgress().  A file that does not open, or is read short, is taken for none.
LoadProgress ==
  \/ page' = Restored /\ misread' = FALSE
  \/ CardFails /\ saved # NoPage /\ page' = 0 /\ misread' = TRUE

\* ReaderScreen::onEnter().  The page buffer outlives the books.
Enter ==
  /\ screen = "other" /\ screen' = "reader"
  /\ stage = "top" /\ stage' = "draw" /\ dirty' = TRUE
  /\ until' = RefreshEvery
  /\ \/ /\ loaded' = TRUE /\ LoadProgress
        /\ cache' = [Closed EXCEPT !.open = TRUE, !.buffer = cache.buffer, !.cap = cache.cap]
     \/ /\ CardFails
        /\ loaded' = FALSE
        /\ UNCHANGED <<page, misread, cache>>
  /\ UNCHANGED <<saved, left, pending, display, fast>>

\* flushPendingCleanup(): the bank takes what the frame buffer holds.
Resynced == IF pending THEN fb ELSE bank

Flush == pending' = FALSE /\ bank' = Resynced

\* A tick of the open book: the resync comes before the keys.
Reads ==
  /\ screen = "reader" /\ loaded
  /\ stage = "top" /\ stage' = "draw"
  /\ Flush

\* Turning by delta, to the ends of the book at most.
Turn(delta) ==
  LET target == IF page + delta < 0 THEN 0
                ELSE IF page + delta >= PageCount THEN PageCount - 1 ELSE page + delta
  IN
  /\ Reads
  /\ page' = target
  /\ IF target # page THEN dirty' = TRUE /\ Saves(target) ELSE UNCHANGED <<dirty, saved, left>>
  /\ UNCHANGED <<screen, loaded, until, misread, cache, fb, panel, fast>>

\* onExit() saves once more and closes the book.
Leave ==
  /\ Reads
  /\ screen' = "other" /\ loaded' = FALSE /\ dirty' = TRUE
  /\ Saves(page)
  /\ cache' = [Closed EXCEPT !.buffer = cache.buffer, !.cap = cache.cap]
  /\ until' = 0 /\ page' = 0
  /\ UNCHANGED <<misread, fb, panel, fast>>

\* Confirm: getChapters() may close the file; the push may find no memory.
OpenChapters ==
  /\ Reads
  /\ until' = 1
  /\ \E open \in {cache.open, FALSE} : cache' = [cache EXCEPT !.open = open]
  /\ \/ screen' = "child" /\ dirty' = TRUE
     \/ "memory" \in Trouble /\ UNCHANGED <<screen, dirty>>
  /\ UNCHANGED <<loaded, page, saved, left, misread, fb, panel, fast>>

\* A book that did not open can only be left.
LeaveUnopened ==
  /\ screen = "reader" /\ ~loaded /\ stage = "top"
  /\ screen' = "other" /\ stage' = "draw" /\ dirty' = TRUE /\ pending' = FALSE
  /\ UNCHANGED <<loaded, page, until, saved, left, misread, cache, display, fast>>

\* Where the chapter list and the page jump lead: no more digits can be typed than
\* PageCount has.
Lists   == {Chapters(f) : f \in Books}
Offered ==
  (UNION {{l[c].startPage : c \in DOMAIN l} : l \in Lists})
    \union {JumpTarget(typed, PageCount) : typed \in 0 .. 10 * PageCount}

\* A chapter or a page number chosen, and jumpToPage() if the book has the page,
\* or Back; then onResume().
LeaveChild ==
  /\ screen = "child" /\ stage = "top"
  /\ screen' = "reader" /\ stage' = "draw" /\ dirty' = TRUE /\ until' = 1
  /\ \/ UNCHANGED <<page, saved, left>>
     \/ \E p \in Offered \cap Pages : page' = p /\ Saves(p)
  /\ UNCHANGED <<loaded, misread, cache, pending, display, fast>>
-----------------------------------------------------------------------------
\* The marker of the gyro lock, painted over what the frame buffer holds.
MarkerOn(image) == [image EXCEPT !.dots = TRUE]
PaintsMarker(image) ==
  fb' = MarkerOn(image) /\ bank' = MarkerOn(image) /\ panel' = MarkerOn(image)

\* setTiltLock() at the top of a tick paints it, or asks for a repaint.
LockChanges ==
  /\ screen = "reader" /\ stage = "top"
  /\ \/ PaintsMarker(fb) /\ UNCHANGED dirty
     \/ dirty' = TRUE /\ UNCHANGED display
  /\ UNCHANGED <<screen, stage, loaded, page, until, saved, left, misread, cache, pending, fast>>

\* present(HALF) of a screen that is not a page.
Presents(what) == fb' = Plain(what) /\ bank' = Plain(what) /\ panel' = Plain(what)

\* Mutant: the count goes down to 0 before a clean refresh.
BaseLate ==
  \/ until <= 0 /\ until' = RefreshEvery /\ fast' = 0
  \/ until > 0  /\ until' = until - 1 /\ fast' = fast + 1

\* The page's base refresh, clean or fast, and the count to the next clean one.
Base ==
  \/ until <= 1 /\ until' = RefreshEvery /\ fast' = 0
  \/ until > 1  /\ until' = until - 1 /\ fast' = fast + 1

\* drawPage(), the marker, and the prefetch unless taps are already queued.
DrawPage ==
  /\ stage = "draw" /\ dirty /\ screen = "reader" /\ loaded
  /\ stage' = "top" /\ dirty' = FALSE /\ misread' = FALSE
  /\ \E o \in Fetch(cache, page) :
       \/ /\ o.ok
          /\ Base /\ pending' = TRUE
          /\ \/ PaintsMarker(Plain(o.c.buffer))
             \/ /\ fb' = Plain(o.c.buffer) /\ panel' = Plain(o.c.buffer)
                /\ bank' = Plain(Planes)
          /\ cache' \in {o.c} \union Prefetch(o.c, page)
       \/ /\ ~o.ok
          /\ Presents(Status) /\ fast' = 0
          /\ cache' = o.c /\ UNCHANGED <<until, pending>>
  /\ UNCHANGED <<screen, loaded, page, saved, left>>

\* Any other screen, and the reader's own message.
DrawOther ==
  /\ stage = "draw" /\ dirty /\ ~(screen = "reader" /\ loaded)
  /\ stage' = "top" /\ dirty' = FALSE /\ misread' = FALSE
  /\ Presents(IF screen = "reader" THEN Status ELSE Menu) /\ fast' = 0
  /\ UNCHANGED <<screen, loaded, page, until, saved, left, cache, pending>>

NothingToDraw ==
  /\ stage = "draw" /\ ~dirty
  /\ stage' = "top" /\ misread' = FALSE
  /\ UNCHANGED <<screen, dirty, loaded, page, until, saved, left, cache, pending, display, fast>>

\* The power goes, or deep sleep restarts the device; the card keeps saved,
\* unless a save was under way.  A controller's first refresh is a full one.
PowerLost ==
  /\ "power" \in Trouble
  /\ screen' = "other" /\ stage' = "top" /\ dirty' = FALSE /\ loaded' = FALSE
  /\ pending' = FALSE /\ cache' = Closed
  /\ Presents(Menu) /\ fast' = 0
  /\ until' = 0 /\ misread' = FALSE
  /\ saved' \in {saved} \union IF loaded THEN {Torn} ELSE {}
  /\ page' = 0 /\ UNCHANGED left
-----------------------------------------------------------------------------
\* The first start, with any position file: the page it gives counts as saved.
Init ==
  /\ screen = "other" /\ stage = "top" /\ dirty = FALSE /\ loaded = FALSE
  /\ saved \in 0 .. PageCount \union {NoPage, Torn} /\ page = 0
  /\ left = Restored /\ misread = FALSE
  /\ until = 0 /\ fast = 0 /\ pending = FALSE
  /\ cache = Closed
  /\ fb = Plain(Menu) /\ bank = Plain(Menu) /\ panel = Plain(Menu)

Next ==
  \/ Enter \/ Leave \/ LeaveUnopened \/ OpenChapters \/ LeaveChild
  \/ \E delta \in -MaxDelta .. MaxDelta : Turn(delta)
  \/ LockChanges \/ DrawPage \/ DrawOther \/ NothingToDraw \/ PowerLost

Spec == Init /\ [][Next]_vars
-----------------------------------------------------------------------------
\* Whatever was prefetched, remembered, refused or half read before: once
\* drawn, the page on the panel is the page the reader is at.
ShownIsAsked ==
  screen = "reader" /\ stage = "top" /\ ~dirty
    => panel.what \in {page, Status}

\* The caches agree with the book.  A page recorded as loaded is what the
\* buffer holds, so a prefetch is only used for the page it fetched; and the
\* rows of the window in force are the rows of the page table.
CachesAgree ==
  /\ cache.at # NoPage => cache.buffer = cache.at
  /\ \A p \in Pages : InWindow(cache, p) => RowOf(cache, p) = p

\* With the resync that is still due, the controller's old image is what the
\* panel shows: a fast refresh never drives from gray planes, and the book is
\* not closed with the resync undone.
BaselineIsShown == Resynced = panel

\* Ghosting is bounded: no more than RefreshEvery - 1 pages are drawn fast
\* between two clean refreshes, through chapters, errors and reopening.
CleanEveryN == fast < RefreshEvery

\* Opening the book again leads to the page last read, also after the power
\* was lost.  What starts the book over is a save cut short, or a position file
\* the card does not give back; nothing ever leads elsewhere.
PositionKept ==
  [][~loaded /\ loaded' => page' = left \/ (page' = 0 /\ (saved = Torn \/ misread'))]_vars

\* Whatever the file says, the chapters listed are those its rows describe, with
\* pages of the book; the list opens at the first that the reader is in; and what
\* is chosen in it, or typed, is a page that jumpToPage() goes to.
ListsRight == \A f \in Books : ListsRows(f)
ChaptersInBook ==
  screen = "child" =>
    /\ ListsRight
    /\ Offered \subseteq Pages
    /\ \A l \in Lists :
         LET i == OpensAt(l, page) IN
         /\ \A c \in DOMAIN l : l[c].startPage \in Pages /\ l[c].endPage \in Pages
         /\ i # 0 => Covers(l[i], page)
         /\ \A j \in DOMAIN l : Covers(l[j], page) => i \in 1 .. j
=============================================================================
