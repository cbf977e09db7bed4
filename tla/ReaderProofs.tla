---------------------------- MODULE ReaderProofs ----------------------------
(***************************************************************************)
(* Proofs about Reader, for every book, window, number of cluster slots    *)
(* and kind of trouble.  Good is what every step of a load leaves the      *)
(* caches in, also when it fails; the lemmas follow the code of a load     *)
(* from its smallest step to drawPage().  Inv adds what the display and    *)
(* the count to the next clean refresh need.  The last part is about the   *)
(* panel: each call of a driver, then of the facade, then each action of   *)
(* ReaderPanel keeps PanelInv, which says what the controller's planes     *)
(* hold and when its next refresh has to drive every pixel.  At the end,   *)
(* the chapter table of a file.                                            *)
(***************************************************************************)
EXTENDS ReaderPanel, SequenceTheorems, WellFoundedInduction, TLAPS

\* The caches agree with the book: rows of the window, clusters of the slots,
\* and the page that is recorded as loaded.
Good(c) ==
  /\ c \in Cache
  /\ Len(c.rows) <= WindowSize /\ Len(c.lru) <= LruSize
  /\ c.start + Len(c.rows) <= PageCount
  /\ \A i \in 1 .. Len(c.rows) : c.rows[i] = c.start + i - 1
  /\ \A i \in 1 .. Len(c.lru) : c.lru[i].cluster = Cluster(c.lru[i].page)
  /\ c.at # NoPage => c.buffer = c.at

\* A step that leaves the loaded page alone.
Keeps(o, c) == Good(o.c) /\ o.c.at = c.at

USE PagesAssumption, BoundsAssumption
-----------------------------------------------------------------------------
LEMMA Outcomes ==
  ASSUME NEW c
  PROVE  Ok(c).c = c /\ Ok(c).ok = TRUE /\ Failed(c).c = c /\ Failed(c).ok = FALSE
  BY DEF Ok, Failed

LEMMA PagesReal ==
  ASSUME NEW p \in Pages
  PROVE  p \in Nat /\ p # NoPage /\ p # Junk /\ p < PageCount
  BY DEF Pages, NoPage, Junk

LEMMA WindowTyped ==
  ASSUME NEW c \in Cache, NEW start \in Pages, NEW rows \in Seq(Row)
  PROVE  [c EXCEPT !.start = start, !.rows = rows] \in Cache
  BY DEF Cache

LEMMA OpenGood ==
  ASSUME NEW c, Good(c), NEW b \in BOOLEAN
  PROVE  Good([c EXCEPT !.open = b]) /\ [c EXCEPT !.open = b].at = c.at
  BY DEF Good, Cache

LEMMA EnsureOpenKeeps ==
  ASSUME NEW c, Good(c), NEW o \in EnsureOpen(c)
  PROVE  Keeps(o, c)
  <1>1. o \in {Ok(c), Ok([c EXCEPT !.open = TRUE]), Failed(c)}
    BY DEF EnsureOpen, Attempt
  <1>2. o.c = c \/ o.c = [c EXCEPT !.open = TRUE]
    BY <1>1, Outcomes
  <1>. QED
    BY <1>2, OpenGood DEF Keeps

LEMMA WindowInBook ==
  ASSUME NEW p \in Pages
  PROVE  /\ WindowStart(p) \in Pages
         /\ WindowCount(WindowStart(p)) \in 1 .. WindowSize
         /\ WindowStart(p) + WindowCount(WindowStart(p)) <= PageCount
         /\ WindowStart(p) <= p /\ p < WindowStart(p) + WindowCount(WindowStart(p))
  BY DEF WindowStart, WindowCount, Pages

\* The refill of the window, whole or cut short.
LEMMA RefillKeeps ==
  ASSUME NEW c, Good(c), NEW p \in Pages, NEW o \in Refill(c, p)
  PROVE  Keeps(o, c) /\ (o.ok => InWindow(o.c, p))
  <1> DEFINE start == WindowStart(p)
             count == WindowCount(start)
             rows  == [i \in 1 .. count |-> start + i - 1]
  <1>1. /\ start \in Pages /\ count \in 1 .. WindowSize
        /\ start + count <= PageCount /\ start <= p /\ p < start + count
    BY WindowInBook
  <1>2. \/ o.ok /\ o.c = [c EXCEPT !.start = start, !.rows = rows]
        \/ ~o.ok /\ o.c = [c EXCEPT !.rows = <<>>]
    BY DEF Refill, ShortRead, Ok, Failed
  <1> HIDE DEF start, count
  <1>3. rows \in Seq(Row) /\ Len(rows) = count /\ \A i \in 1 .. count : rows[i] = start + i - 1
    <2>1. \A i \in 1 .. count : start + i - 1 \in Row
      BY <1>1 DEF Row, Pages
    <2>. QED
      BY <1>1, <2>1
  <1> HIDE DEF rows
  <1>4. CASE o.ok
    <2>1. o.c = [c EXCEPT !.start = start, !.rows = rows]
      BY <1>2, <1>4
    <2>2. o.c \in Cache
      <3>1. c \in Cache
        BY DEF Good
      <3>2. [c EXCEPT !.start = start, !.rows = rows] \in Cache
        BY <1>1, <1>3, <3>1, WindowTyped
      <3>. QED
        BY <2>1, <3>2
    <2>3. o.c.start = start /\ o.c.rows = rows /\ o.c.lru = c.lru /\ o.c.at = c.at /\ o.c.buffer = c.buffer
      BY <2>1 DEF Good, Cache
    <2>4. Good(o.c)
      <3>1. \A i \in 1 .. Len(o.c.rows) : o.c.rows[i] = o.c.start + i - 1
        BY <1>1, <1>3, <2>3
      <3>2. Len(o.c.rows) <= WindowSize /\ o.c.start + Len(o.c.rows) <= PageCount
        BY <1>1, <1>3, <2>3
      <3>3. /\ Len(o.c.lru) <= LruSize /\ (o.c.at # NoPage => o.c.buffer = o.c.at)
            /\ \A i \in 1 .. Len(o.c.lru) : o.c.lru[i].cluster = Cluster(o.c.lru[i].page)
        BY <2>3 DEF Good
      <3>. QED
        BY <2>2, <3>1, <3>2, <3>3 DEF Good
    <2>. QED
      BY <1>1, <1>3, <2>3, <2>4 DEF Keeps, InWindow
  <1>5. CASE ~o.ok
    <2>1. o.c = [c EXCEPT !.rows = <<>>]
      BY <1>2, <1>5
    <2>2. o.c \in Cache
      <3>1. c \in Cache /\ <<>> \in Seq(Row)
        BY DEF Good
      <3>2. [c EXCEPT !.rows = <<>>] \in Cache
        BY <3>1 DEF Cache
      <3>. QED
        BY <2>1, <3>2
    <2>3. o.c.start = c.start /\ o.c.rows = <<>> /\ o.c.lru = c.lru /\ o.c.at = c.at /\ o.c.buffer = c.buffer
      BY <2>1 DEF Good, Cache
    <2>4. Good(o.c)
      BY <2>2, <2>3 DEF Good, Cache, Pages
    <2>. QED
      BY <1>5, <2>3, <2>4 DEF Keeps
  <1>. QED
    BY <1>4, <1>5

LEMMA WindowKeeps ==
  ASSUME NEW c, Good(c), NEW p \in Pages, NEW o \in EnsureWindow(c, p)
  PROVE  Keeps(o, c) /\ (o.ok => InWindow(o.c, p))
  <1>1. CASE InWindow(c, p)
    BY <1>1 DEF EnsureWindow, Ok, Keeps
  <1>2. CASE ~InWindow(c, p)
    <2>1. PICK q \in EnsureOpen(c) : (q.ok /\ o \in Refill(q.c, p)) \/ (~q.ok /\ o = q)
      BY <1>2 DEF EnsureWindow, Then
    <2>2. Keeps(q, c)
      BY EnsureOpenKeeps
    <2>3. CASE q.ok /\ o \in Refill(q.c, p)
      <3>1. Good(q.c)
        BY <2>2 DEF Keeps
      <3>2. Keeps(o, q.c) /\ (o.ok => InWindow(o.c, p))
        BY <2>3, <3>1, RefillKeeps
      <3>. QED
        BY <2>2, <3>2 DEF Keeps
    <2>. QED
      BY <2>1, <2>2, <2>3
  <1>. QED
    BY <1>1, <1>2

\* A row read is the row asked for.
LEMMA EntryKeeps ==
  ASSUME NEW c, Good(c), NEW p \in Pages, NEW t \in TableEntry(c, p)
  PROVE  Keeps(t, c) /\ (t.ok => t.row = p)
  <1>1. PICK o \in EnsureWindow(c, p) :
          \/ o.ok /\ t = [ok |-> TRUE, row |-> RowOf(o.c, p), c |-> o.c]
          \/ ~o.ok /\ t \in SingleRow(o.c, p)
    BY DEF TableEntry
  <1>2. Keeps(o, c) /\ (o.ok => InWindow(o.c, p))
    BY WindowKeeps
  <1>3. CASE o.ok /\ t = [ok |-> TRUE, row |-> RowOf(o.c, p), c |-> o.c]
    <2> DEFINE d == o.c
    <2>0. Good(d) /\ InWindow(d, p)
      BY <1>2, <1>3 DEF Keeps
    <2>1. d.start \in Int /\ p \in Int /\ Len(d.rows) \in Int
      BY <2>0 DEF Good, Cache, Pages
    <2> HIDE DEF d
    <2>2. p - d.start + 1 \in 1 .. Len(d.rows)
      BY <2>0, <2>1 DEF InWindow
    <2>3. d.rows[p - d.start + 1] = d.start + (p - d.start + 1) - 1
      BY <2>0, <2>2 DEF Good
    <2>4. RowOf(d, p) = p
      BY <2>1, <2>3 DEF RowOf
    <2>. QED
      BY <1>2, <1>3, <2>4 DEF Keeps, d
  <1>4. CASE ~o.ok /\ t \in SingleRow(o.c, p)
    <2>1. PICK r \in Then(EnsureOpen(o.c), LAMBDA d : Attempt(d, d)) : t = [ok |-> r.ok, row |-> p, c |-> r.c]
      BY <1>4 DEF SingleRow
    <2>2. PICK q \in EnsureOpen(o.c) : (q.ok /\ r \in Attempt(q.c, q.c)) \/ (~q.ok /\ r = q)
      BY <2>1 DEF Then
    <2>3. r \in {Ok(q.c), Failed(q.c)} \/ r = q
      BY <2>2 DEF Attempt
    <2>4. r.c = q.c
      BY <2>3, Outcomes
    <2>5. Keeps(q, o.c)
      BY <1>2, EnsureOpenKeeps DEF Keeps
    <2>. QED
      BY <1>2, <2>1, <2>4, <2>5 DEF Keeps
  <1>. QED
    BY <1>1, <1>3, <1>4
-----------------------------------------------------------------------------
\* What SelectInSeq() finds by CHOOSE exists: the least index.
LEMMA Smallest ==
  ASSUME NEW S, S \subseteq Nat, S # {}
  PROVE  \E x \in S : \A y \in S : x <= y
  <1> DEFINE Less == {ss \in Nat \X Nat : ss[1] < ss[2]}
  <1>1. IsWellFoundedOn(Less, Nat)
    BY NatLessThanWellFounded DEF OpToRel
  <1>2. PICK x \in S : \A y \in S : ~(<<y, x>> \in Less)
    <2> HIDE DEF Less
    <2>. QED
      BY <1>1, WFMin
  <1>3. ASSUME NEW y \in S
        PROVE  x <= y
    <2>1. x \in Nat /\ y \in Nat /\ <<y, x>> \in Nat \X Nat
      OBVIOUS
    <2>2. ~(y < x)
      BY <1>2, <2>1
    <2>. QED
      BY <2>1, <2>2
  <1>. QED
    BY <1>3

LEMMA Found ==
  ASSUME NEW lru \in Seq(Slot), NEW p \in Pages, Find(lru, p) # 0
  PROVE  Find(lru, p) \in 1 .. Len(lru) /\ lru[Find(lru, p)].page = p
  <1> DEFINE I == {i \in 1 .. Len(lru) : lru[i].page = p}
  <1>1. Find(lru, p) = IF I # {} THEN Min(I) ELSE 0
    BY DEF Find, SelectInSeq
  <1>2. I # {} /\ I \subseteq Nat
    BY <1>1
  <1>3. \E x \in I : \A y \in I : x =< y
    <2> HIDE DEF I
    <2>. QED
      BY <1>2, Smallest
  <1>4. Min(I) \in I
    <2> HIDE DEF I
    <2>. QED
      BY <1>3 DEF Min
  <1>. QED
    BY <1>1, <1>2, <1>4

\* The slots agree with the book.
Remembers(lru) ==
  /\ lru \in Seq(Slot) /\ Len(lru) <= LruSize
  /\ \A i \in 1 .. Len(lru) : lru[i].cluster = Cluster(lru[i].page)

LEMMA Moves ==
  ASSUME NEW lru, Remembers(lru), NEW i \in 1 .. Len(lru), NEW slot \in Slot, slot.cluster = Cluster(slot.page)
  PROVE  Remembers(<<slot>> \o RemoveAt(lru, i))
  <1>1. /\ RemoveAt(lru, i) \in Seq(Slot) /\ Len(RemoveAt(lru, i)) = Len(lru) - 1
        /\ \A j \in 1 .. Len(lru) - 1 : RemoveAt(lru, i)[j] = IF j < i THEN lru[j] ELSE lru[j + 1]
    <2> DEFINE head == SubSeq(lru, 1, i - 1)
               tail == SubSeq(lru, i + 1, Len(lru))
    <2>1. head \in Seq(Slot) /\ Len(head) = i - 1 /\ \A j \in 1 .. i - 1 : head[j] = lru[j]
      BY DEF Remembers
    <2>2. /\ tail \in Seq(Slot) /\ Len(tail) = Len(lru) - i
          /\ \A j \in 1 .. Len(lru) - i : tail[j] = lru[j + i]
      BY DEF Remembers
    <2>3. RemoveAt(lru, i) = head \o tail
      BY DEF RemoveAt
    <2>4. Len(lru) \in Nat
      BY DEF Remembers
    <2> HIDE DEF head, tail
    <2>5. /\ head \o tail \in Seq(Slot) /\ Len(head \o tail) = Len(lru) - 1
          /\ \A j \in 1 .. Len(lru) - 1 : (head \o tail)[j] = IF j < i THEN head[j] ELSE tail[j - i + 1]
      BY <2>1, <2>2, <2>4
    <2>6. ASSUME NEW j \in 1 .. Len(lru) - 1
          PROVE  (head \o tail)[j] = IF j < i THEN lru[j] ELSE lru[j + 1]
      <3>1. CASE j < i
        BY <2>1, <2>4, <2>5, <3>1
      <3>2. CASE ~(j < i)
        <4>1. j - i + 1 \in 1 .. Len(lru) - i /\ (j - i + 1) + i = j + 1
          BY <2>4, <3>2
        <4>. QED
          BY <2>2, <2>5, <3>2, <4>1
      <3>. QED
        BY <3>1, <3>2
    <2>. QED
      BY <2>3, <2>5, <2>6
  <1> DEFINE rest == RemoveAt(lru, i)
  <1>2. \A j \in 1 .. Len(rest) : rest[j].cluster = Cluster(rest[j].page)
    BY <1>1 DEF Remembers
  <1>3. /\ rest \in Seq(Slot) /\ Len(rest) + 1 <= LruSize
    BY <1>1 DEF Remembers
  <1> HIDE DEF rest
  <1>4. /\ <<slot>> \o rest \in Seq(Slot) /\ Len(<<slot>> \o rest) = 1 + Len(rest)
        /\ \A j \in 1 .. 1 + Len(rest) : (<<slot>> \o rest)[j] = IF j = 1 THEN slot ELSE rest[j - 1]
    BY <1>3
  <1>5. Remembers(<<slot>> \o rest)
    BY <1>2, <1>3, <1>4 DEF Remembers
  <1>. QED
    BY <1>5 DEF rest

LEMMA Adds ==
  ASSUME NEW lru, Remembers(lru), NEW slot \in Slot, slot.cluster = Cluster(slot.page),
         NEW n \in 1 .. LruSize, n <= Len(lru) + 1
  PROVE  Remembers(SubSeq(<<slot>> \o lru, 1, n))
  <1>1. /\ <<slot>> \o lru \in Seq(Slot) /\ Len(<<slot>> \o lru) = 1 + Len(lru)
        /\ \A j \in 1 .. 1 + Len(lru) : (<<slot>> \o lru)[j] = IF j = 1 THEN slot ELSE lru[j - 1]
    BY DEF Remembers
  <1> DEFINE all == <<slot>> \o lru
  <1>2. \A j \in 1 .. Len(all) : all[j].cluster = Cluster(all[j].page)
    BY <1>1 DEF Remembers
  <1>3. all \in Seq(Slot) /\ n \in 1 .. Len(all)
    BY <1>1 DEF Remembers
  <1> HIDE DEF all
  <1>4. /\ SubSeq(all, 1, n) \in Seq(Slot) /\ Len(SubSeq(all, 1, n)) = n
        /\ \A j \in 1 .. n : SubSeq(all, 1, n)[j] = all[j]
    BY <1>3
  <1>5. Remembers(SubSeq(all, 1, n))
    BY <1>2, <1>3, <1>4 DEF Remembers
  <1>. QED
    BY <1>5 DEF all

LEMMA RememberKeeps ==
  ASSUME NEW lru, Remembers(lru), NEW p \in Pages
  PROVE  Remembers(Remember(lru, p, Cluster(p)))
  <1> DEFINE slot == [page |-> p, cluster |-> Cluster(p)]
             n    == IF Len(lru) < LruSize THEN Len(lru) + 1 ELSE LruSize
  <1>1. slot \in Slot /\ slot.cluster = Cluster(slot.page)
    BY DEF Slot, Cluster, Pages
  <1>2. n \in 1 .. LruSize /\ n <= Len(lru) + 1
    BY DEF Remembers
  <1>3. CASE Find(lru, p) # 0
    <2>1. Find(lru, p) \in 1 .. Len(lru)
      BY <1>3, Found DEF Remembers
    <2>2. Remember(lru, p, Cluster(p)) = <<slot>> \o RemoveAt(lru, Find(lru, p))
      BY <1>3 DEF Remember
    <2> HIDE DEF slot
    <2>. QED
      BY <1>1, <2>1, <2>2, Moves
  <1>4. CASE Find(lru, p) = 0
    <2>1. Remember(lru, p, Cluster(p)) = SubSeq(<<slot>> \o lru, 1, n)
      BY <1>4 DEF Remember
    <2> HIDE DEF slot, n
    <2>. QED
      BY <1>1, <1>2, <2>1, Adds
  <1>. QED
    BY <1>3, <1>4
-----------------------------------------------------------------------------
\* Nothing is loaded: the buffer may hold anything.
Unloaded(c) == Good(c) /\ c.at = NoPage

\* A change of the buffer while nothing is loaded.
LEMMA BufferFree ==
  ASSUME NEW c, Unloaded(c), NEW b \in Row, NEW n \in Nat
  PROVE  Unloaded([c EXCEPT !.cap = n, !.buffer = b]) /\ Unloaded([c EXCEPT !.buffer = b])
  <1>1. c \in Cache
    BY DEF Unloaded, Good
  <1>2. [c EXCEPT !.cap = n, !.buffer = b] \in Cache /\ [c EXCEPT !.buffer = b] \in Cache
    BY <1>1 DEF Cache
  <1> DEFINE d == [c EXCEPT !.cap = n, !.buffer = b]
             e == [c EXCEPT !.buffer = b]
  <1>3. d.rows = c.rows /\ d.lru = c.lru /\ d.start = c.start /\ d.at = c.at
    BY <1>1 DEF Cache
  <1>4. e.rows = c.rows /\ e.lru = c.lru /\ e.start = c.start /\ e.at = c.at
    BY <1>1 DEF Cache
  <1> HIDE DEF d, e
  <1>5. d \in Cache => Unloaded(d)
    BY <1>3 DEF Unloaded, Good
  <1>6. e \in Cache => Unloaded(e)
    BY <1>4 DEF Unloaded, Good
  <1>. QED
    BY <1>2, <1>5, <1>6 DEF d, e

LEMMA Unloads ==
  ASSUME NEW c, Good(c)
  PROVE  Unloaded(Unload(c))
  <1>1. c \in Cache
    BY DEF Good
  <1>2. Unload(c) \in Cache
    BY <1>1 DEF Unload, Cache
  <1>3. /\ Unload(c).rows = c.rows /\ Unload(c).lru = c.lru /\ Unload(c).start = c.start
        /\ Unload(c).at = NoPage
    BY <1>1 DEF Unload, Cache
  <1>. QED
    BY <1>2, <1>3 DEF Unloaded, Good

LEMMA GrowKeeps ==
  ASSUME NEW c, Unloaded(c), NEW p \in Pages, NEW o \in Grow(c, p)
  PROVE  Unloaded(o.c)
  <1> DEFINE need == PageSize[p]
  <1>1. o \in {Ok(c), Failed(c), Ok([c EXCEPT !.cap = need, !.buffer = Junk])}
    BY DEF Grow
  <1>2. need \in Nat /\ Junk \in Row
    BY DEF Row
  <1> HIDE DEF need
  <1>3. Unloaded([c EXCEPT !.cap = need, !.buffer = Junk])
    BY <1>2, BufferFree
  <1>4. o.c = c \/ o.c = [c EXCEPT !.cap = need, !.buffer = Junk]
    BY <1>1, Outcomes
  <1>. QED
    BY <1>3, <1>4

\* The position is that of the page, by its cluster or by a seek.
LEMMA PositionKeeps ==
  ASSUME NEW c, Unloaded(c), NEW p \in Pages, NEW q \in Position(c, p, p)
  PROVE  Unloaded(q.c) /\ q.pos = p
  <1>1. c \in Cache /\ Remembers(c.lru)
    BY DEF Unloaded, Good, Remembers, Cache
  <1>2. ASSUME NEW lru, Remembers(lru)
        PROVE  Unloaded([c EXCEPT !.lru = lru])
    <2> DEFINE d == [c EXCEPT !.lru = lru]
    <2>1. d \in Cache /\ d.lru = lru /\ d.rows = c.rows /\ d.start = c.start /\ d.at = c.at /\ d.buffer = c.buffer
      BY <1>1, <1>2 DEF Cache, Remembers
    <2> HIDE DEF d
    <2>2. Unloaded(d)
      BY <1>2, <2>1 DEF Unloaded, Good, Remembers
    <2>. QED
      BY <2>2 DEF d
  <1> DEFINE i == Find(c.lru, p)
  <1>3. CASE i # 0
    <2>1. i \in 1 .. Len(c.lru) /\ c.lru[i].page = p
      BY <1>1, <1>3, Found DEF Remembers
    <2>2. c.lru[i] \in Slot /\ c.lru[i].cluster = Cluster(c.lru[i].page)
      BY <1>1, <2>1 DEF Remembers
    <2>3. q = [ok |-> TRUE, c |-> [c EXCEPT !.lru = ToFront(c.lru, i)],
               pos |-> IF c.lru[i].cluster = Cluster(p) THEN p ELSE Junk]
      BY <1>3 DEF Position
    <2> HIDE DEF i
    <2>4. Remembers(ToFront(c.lru, i))
      BY <1>1, <2>1, <2>2, Moves DEF ToFront
    <2>5. q.c = [c EXCEPT !.lru = ToFront(c.lru, i)] /\ q.pos = p
      BY <2>1, <2>2, <2>3
    <2>. QED
      BY <1>2, <2>4, <2>5
  <1>4. CASE i = 0
    <2>1. PICK o \in Attempt([c EXCEPT !.lru = Remember(c.lru, p, Cluster(p))], c) :
            q = [ok |-> o.ok, c |-> o.c, pos |-> p]
      BY <1>4 DEF Position
    <2>2. o \in {Ok([c EXCEPT !.lru = Remember(c.lru, p, Cluster(p))]), Failed(c)}
      BY DEF Attempt
    <2>3. o.c = c \/ o.c = [c EXCEPT !.lru = Remember(c.lru, p, Cluster(p))]
      BY <2>2, Outcomes
    <2>4. Remembers(Remember(c.lru, p, Cluster(p)))
      BY <1>1, RememberKeeps
    <2>5. q.c = o.c /\ q.pos = p
      BY <2>1
    <2>. QED
      BY <1>2, <2>3, <2>4, <2>5
  <1>. QED
    BY <1>3, <1>4

\* The page is recorded as loaded only once the buffer holds it.
LEMMA ReadPageGood ==
  ASSUME NEW q, Unloaded(q.c), NEW p \in Pages, q.pos = p, NEW o \in ReadPage(q, p)
  PROVE  Good(o.c) /\ (o.ok => o.c.at = p)
  <1> DEFINE c == q.c
  <1>1. Unloaded(c) /\ c \in Cache
    BY DEF Unloaded, Good
  <1>2. o \in {Failed(c), Failed([c EXCEPT !.buffer = Junk]), Ok([c EXCEPT !.buffer = p, !.at = p])}
    BY DEF ReadPage, Junk, Pages
  <1> HIDE DEF c
  <1>3. Good(c) /\ Good([c EXCEPT !.buffer = Junk])
    BY <1>1, BufferFree DEF Unloaded, Row
  <1>4. Good([c EXCEPT !.buffer = p, !.at = p]) /\ [c EXCEPT !.buffer = p, !.at = p].at = p
    <2> DEFINE d == [c EXCEPT !.buffer = p, !.at = p]
    <2>1. p \in Row /\ p \in Pages \union {NoPage}
      BY DEF Row
    <2>2. d \in Cache
      BY <1>1, <2>1 DEF Cache
    <2>3. d.rows = c.rows /\ d.lru = c.lru /\ d.start = c.start /\ d.at = p /\ d.buffer = p
      BY <1>1, <2>1 DEF Cache
    <2> HIDE DEF d
    <2>4. Good(d)
      BY <1>3, <2>2, <2>3 DEF Good
    <2>. QED
      BY <2>3, <2>4 DEF d
  <1>5. \/ o.ok = FALSE /\ (o.c = c \/ o.c = [c EXCEPT !.buffer = Junk])
        \/ o.c = [c EXCEPT !.buffer = p, !.at = p]
    BY <1>2, Outcomes
  <1>. QED
    BY <1>3, <1>4, <1>5

LEMMA LoadGood ==
  ASSUME NEW c, Good(c), NEW p \in Pages, NEW o \in Load(c, p)
  PROVE  Good(o.c) /\ (o.ok => o.c.at = p)
  <1>1. Unloaded(Unload(c))
    BY Unloads
  <1> DEFINE u == Unload(c)
  <1>2. PICK t \in TableEntry(u, p) :
          \/ ~t.ok /\ o = Failed(t.c)
          \/ t.ok /\ o \in Then(Then(EnsureOpen(t.c), LAMBDA d : Grow(d, t.row)),
                                LAMBDA d : UNION {ReadPage(q, p) : q \in Position(d, p, t.row)})
    BY DEF Load
  <1> HIDE DEF u
  <1>3. Unloaded(t.c) /\ (t.ok => t.row = p)
    BY <1>1, EntryKeeps DEF Unloaded, Keeps, u
  <1>4. CASE ~t.ok /\ o = Failed(t.c)
    <2>1. o.c = t.c /\ o.ok = FALSE
      BY <1>4, Outcomes
    <2>2. Good(t.c)
      BY <1>3 DEF Unloaded
    <2>. QED
      BY <2>1, <2>2
  <1>5. CASE t.ok /\ o \in Then(Then(EnsureOpen(t.c), LAMBDA d : Grow(d, t.row)),
                                LAMBDA d : UNION {ReadPage(q, p) : q \in Position(d, p, t.row)})
    <2>1. PICK g \in Then(EnsureOpen(t.c), LAMBDA d : Grow(d, p)) :
            \/ g.ok /\ o \in UNION {ReadPage(q, p) : q \in Position(g.c, p, p)}
            \/ ~g.ok /\ o = g
      BY <1>3, <1>5 DEF Then
    <2>2. PICK e \in EnsureOpen(t.c) : (e.ok /\ g \in Grow(e.c, p)) \/ (~e.ok /\ g = e)
      BY <2>1 DEF Then
    <2>3. Unloaded(e.c)
      BY <1>3, EnsureOpenKeeps DEF Unloaded, Keeps
    <2>4. Unloaded(g.c)
      BY <2>2, <2>3, GrowKeeps
    <2>5. CASE ~g.ok /\ o = g
      BY <2>4, <2>5 DEF Unloaded
    <2>6. CASE g.ok /\ o \in UNION {ReadPage(q, p) : q \in Position(g.c, p, p)}
      <3>1. PICK q \in Position(g.c, p, p) : o \in ReadPage(q, p)
        BY <2>6
      <3>2. Unloaded(q.c) /\ q.pos = p
        BY <2>4, PositionKeeps
      <3>. QED
        BY <3>1, <3>2, ReadPageGood
    <2>. QED
      BY <2>1, <2>5, <2>6
  <1>. QED
    BY <1>2, <1>4, <1>5

\* What drawPage() may use: the page asked for, in the buffer.
LEMMA FetchGood ==
  ASSUME NEW c, Good(c), NEW p \in Pages, NEW o \in Fetch(c, p)
  PROVE  Good(o.c) /\ (o.ok => o.c.at = p /\ o.c.buffer = p)
  <1>1. PICK f \in UNION {IF ~t.ok THEN {Failed(t.c)}
                          ELSE Then(EnsureOpen(t.c),
                                    LAMBDA d : IF Prefetched(d, p) THEN {Ok(d)} ELSE Load(d, p)) :
                            t \in TableEntry(c, p)} :
          o = IF f.ok THEN f ELSE Failed([f.c EXCEPT !.at = NoPage, !.open = FALSE])
    BY DEF Fetch
  <1>2. PICK t \in TableEntry(c, p) :
          \/ ~t.ok /\ f = Failed(t.c)
          \/ \E e \in EnsureOpen(t.c) :
               \/ ~e.ok /\ f = e
               \/ e.ok /\ f \in IF Prefetched(e.c, p) THEN {Ok(e.c)} ELSE Load(e.c, p)
    BY <1>1 DEF Then
  <1>3. Good(t.c)
    BY EntryKeeps DEF Keeps
  <1>4. Good(f.c) /\ (f.ok => f.c.at = p)
    <2>1. CASE ~t.ok /\ f = Failed(t.c)
      <3>1. f.c = t.c /\ f.ok = FALSE
        BY <2>1, Outcomes
      <3>. QED
        BY <1>3, <3>1
    <2>2. ASSUME NEW e \in EnsureOpen(t.c),
                 \/ ~e.ok /\ f = e
                 \/ e.ok /\ f \in IF Prefetched(e.c, p) THEN {Ok(e.c)} ELSE Load(e.c, p)
          PROVE  Good(f.c) /\ (f.ok => f.c.at = p)
      <3>1. Good(e.c)
        BY <1>3, EnsureOpenKeeps DEF Keeps
      <3>2. CASE ~e.ok /\ f = e
        BY <3>1, <3>2
      <3>3. CASE Prefetched(e.c, p) /\ f = Ok(e.c)
        <4>1. f.c = e.c
          BY <3>3, Outcomes
        <4>. QED
          BY <3>1, <3>3, <4>1 DEF Prefetched
      <3>4. CASE f \in Load(e.c, p)
        BY <3>1, <3>4, LoadGood
      <3>. QED
        BY <2>2, <3>2, <3>3, <3>4
    <2>. QED
      BY <1>2, <2>1, <2>2
  <1>5. CASE f.ok
    <2>1. o = f
      BY <1>1, <1>5
    <2>2. f.c.at = p
      BY <1>4, <1>5
    <2>3. p # NoPage
      BY PagesReal
    <2>4. f.c.buffer = p
      BY <1>4, <2>2, <2>3 DEF Good
    <2>. QED
      BY <1>4, <2>1, <2>2, <2>4
  <1>6. CASE ~f.ok
    <2> DEFINE d == [f.c EXCEPT !.at = NoPage, !.open = FALSE]
    <2>1. o.c = d /\ o.ok = FALSE
      BY <1>1, <1>6, Outcomes
    <2>2. f.c \in Cache
      BY <1>4 DEF Good
    <2>3. d \in Cache
      BY <2>2 DEF Cache
    <2>4. d.rows = f.c.rows /\ d.lru = f.c.lru /\ d.start = f.c.start /\ d.at = NoPage
      BY <2>2 DEF Cache
    <2> HIDE DEF d
    <2>5. Good(d)
      BY <1>4, <2>3, <2>4 DEF Good
    <2>. QED
      BY <2>1, <2>5
  <1>. QED
    BY <1>5, <1>6

LEMMA PrefetchGood ==
  ASSUME NEW c, Good(c), NEW p \in Pages, NEW d \in Prefetch(c, p)
  PROVE  Good(d)
  <1>1. CASE d = c
    BY <1>1
  <1>2. CASE p + 1 < PageCount /\ d \in {o.c : o \in Load(c, p + 1)}
    <2>1. p + 1 \in Pages
      BY <1>2 DEF Pages
    <2>. QED
      BY <1>2, <2>1, LoadGood
  <1>. QED
    BY <1>1, <1>2 DEF Prefetch, Pages
-----------------------------------------------------------------------------
\* A page that is not to be repainted is on the panel, whatever the stage.
ShownInv == screen = "reader" /\ ~dirty => panel.what \in {page, Status}

\* The frame buffer is on the panel, and the controller's bank holds it or will.
\* Only an open book leaves the resync for later.
DisplayInv ==
  /\ fb = panel
  /\ pending \/ bank = panel
  /\ pending => loaded
  /\ loaded => screen # "other"

\* What is left of the count bounds the pages drawn fast.  Outside the book the
\* next paint is a clean one.
CountInv ==
  /\ fast + until <= RefreshEvery /\ fast < RefreshEvery
  /\ screen = "other" /\ stage = "draw" => dirty
  /\ screen = "other" /\ stage = "top" => fast = 0

Inv == TypeOK /\ Good(cache) /\ ShownInv /\ DisplayInv /\ CountInv

LEMMA Images ==
  /\ \A w \in Shown : Plain(w) \in Image /\ Plain(w).what = w
  /\ \A m \in Image : MarkerOn(m) \in Image /\ MarkerOn(m).what = m.what
  /\ Status \in Shown /\ Menu \in Shown /\ Pages \subseteq Shown
  BY DEF Shown, Image, Plain, MarkerOn, Status, Menu

LEMMA SavesTyped ==
  ASSUME TypeOK, NEW p \in Pages, Saves(p)
  PROVE  saved' \in 0 .. PageCount \union {NoPage, Torn} /\ left' \in Pages
  BY DEF TypeOK, Saves, Pages

LEMMA FlushTyped ==
  ASSUME TypeOK, DisplayInv, Flush, UNCHANGED <<fb, panel>>
  PROVE  /\ pending' = FALSE /\ bank' = panel'
         /\ bank' \in Image \union {Plain(Planes)}
  BY DEF TypeOK, DisplayInv, Flush, Resynced

\* A book is closed with its buffer kept for the next.
LEMMA ClosedGood ==
  ASSUME Good(cache), NEW b \in BOOLEAN
  PROVE  /\ Good([Closed EXCEPT !.open = b, !.buffer = cache.buffer, !.cap = cache.cap])
         /\ Good([Closed EXCEPT !.buffer = cache.buffer, !.cap = cache.cap])
         /\ Good(Closed)
  <1>1. cache.buffer \in Row /\ cache.cap \in Nat
    BY DEF Good, Cache
  <1>2. Closed \in Cache
    BY DEF Closed, Cache, Pages, Row
  <1>3. Closed.rows = <<>> /\ Closed.lru = <<>> /\ Closed.start = 0 /\ Closed.at = NoPage
    BY DEF Closed
  <1>4. Good(Closed)
    BY <1>2, <1>3 DEF Good
  <1>5. ASSUME NEW c \in Cache, c.rows = <<>>, c.lru = <<>>, c.start = 0, c.at = NoPage,
               NEW r \in Row, NEW n \in Nat
        PROVE  /\ Good([c EXCEPT !.open = b, !.buffer = r, !.cap = n])
               /\ Good([c EXCEPT !.buffer = r, !.cap = n])
    <2> DEFINE d == [c EXCEPT !.open = b, !.buffer = r, !.cap = n]
               e == [c EXCEPT !.buffer = r, !.cap = n]
    <2>1. d \in Cache /\ e \in Cache
      BY <1>5 DEF Cache
    <2>2. /\ d.rows = <<>> /\ d.lru = <<>> /\ d.start = 0 /\ d.at = NoPage
          /\ e.rows = <<>> /\ e.lru = <<>> /\ e.start = 0 /\ e.at = NoPage
      BY <1>5 DEF Cache
    <2> HIDE DEF d, e
    <2>3. Good(d) /\ Good(e)
      BY <2>1, <2>2 DEF Good
    <2>. QED
      BY <2>3 DEF d, e
  <1>. QED
    BY <1>1, <1>2, <1>3, <1>4, <1>5

\* TypeOK in two halves.
ScreenTyped ==
  /\ screen \in {"other", "reader", "child"} /\ stage \in {"top", "draw"}
  /\ dirty \in BOOLEAN /\ loaded \in BOOLEAN /\ pending \in BOOLEAN
  /\ page \in Pages /\ until \in 0 .. RefreshEvery
DataTyped ==
  /\ saved \in 0 .. PageCount \union {NoPage, Torn}
  /\ left \in Pages /\ misread \in BOOLEAN
  /\ cache \in Cache /\ Len(cache.rows) <= WindowSize /\ Len(cache.lru) <= LruSize
  /\ fb \in Image /\ panel \in Image
  /\ bank \in Image \union {Plain(Planes)}
  /\ fast \in Nat

LEMMA TypeHalves == TypeOK <=> ScreenTyped /\ DataTyped
  BY DEF TypeOK, ScreenTyped, DataTyped

LEMMA TypeHalvesNext == TypeOK' <=> ScreenTyped' /\ DataTyped'
  BY DEF TypeOK, ScreenTyped, DataTyped

LEMMA EnterKeeps ==
  ASSUME Inv, Enter
  PROVE  Inv'
  <1> USE DEF Inv
  <1>1. /\ screen = "other" /\ screen' = "reader" /\ stage = "top" /\ stage' = "draw" /\ dirty' = TRUE
        /\ until' = RefreshEvery /\ UNCHANGED <<saved, left, pending, fb, bank, panel, fast>>
    BY DEF Enter, display
  <1>2. Restored \in Pages /\ 0 \in Pages
    BY DEF Restored, TypeOK, Pages, NoPage, Torn
  <1>3. page' \in Pages /\ misread' \in BOOLEAN /\ loaded' \in BOOLEAN
    BY <1>2 DEF Enter, LoadProgress, TypeOK
  <1>4. Good(cache')
    BY ClosedGood DEF Enter
  <1>5. ~pending
    BY <1>1 DEF DisplayInv
  <1>6. TypeOK'
    BY <1>1, <1>3, <1>4 DEF TypeOK, Good
  <1>7. ShownInv' /\ DisplayInv'
    BY <1>1, <1>5 DEF ShownInv, DisplayInv
  <1>8. CountInv'
    BY <1>1 DEF CountInv
  <1>. QED
    BY <1>4, <1>6, <1>7, <1>8

LEMMA TurnKeeps ==
  ASSUME Inv, NEW delta \in -MaxDelta .. MaxDelta, Turn(delta)
  PROVE  Inv'
  <1> USE DEF Inv
  <1> DEFINE target == IF page + delta < 0 THEN 0
                       ELSE IF page + delta >= PageCount THEN PageCount - 1 ELSE page + delta
  <1>1. target \in Pages
    BY DEF TypeOK, Pages
  <1>2. /\ screen = "reader" /\ loaded /\ stage = "top" /\ stage' = "draw" /\ Flush
        /\ page' = target
        /\ \/ target # page /\ dirty' = TRUE /\ Saves(target)
           \/ target = page /\ UNCHANGED <<dirty, saved, left>>
        /\ UNCHANGED <<screen, loaded, until, misread, cache, fb, panel, fast>>
    BY DEF Turn, Reads
  <1> HIDE DEF target
  <1>3. pending' = FALSE /\ bank' = panel' /\ bank' \in Image \union {Plain(Planes)}
    BY <1>2, FlushTyped
  <1>4. saved' \in 0 .. PageCount \union {NoPage, Torn} /\ left' \in Pages
    BY <1>1, <1>2, SavesTyped DEF TypeOK
  <1>5. TypeOK'
    BY <1>1, <1>2, <1>3, <1>4 DEF TypeOK
  <1>6. ShownInv' /\ DisplayInv'
    BY <1>2, <1>3 DEF ShownInv, DisplayInv
  <1>7. CountInv' /\ Good(cache')
    BY <1>2 DEF CountInv
  <1>. QED
    BY <1>5, <1>6, <1>7

LEMMA LeaveKeeps ==
  ASSUME Inv, Leave
  PROVE  Inv'
  <1> USE DEF Inv
  <1>1. /\ screen = "reader" /\ loaded /\ stage = "top" /\ stage' = "draw" /\ Flush
        /\ screen' = "other" /\ loaded' = FALSE /\ dirty' = TRUE /\ Saves(page) /\ until' = 0
        /\ page' = 0 /\ 0 \in Pages /\ UNCHANGED <<misread, fb, panel, fast>>
    BY DEF Leave, Reads, Pages
  <1>2. Good(cache')
    BY ClosedGood DEF Leave
  <1>3. pending' = FALSE /\ bank' = panel' /\ bank' \in Image \union {Plain(Planes)}
    BY <1>1, FlushTyped
  <1>4. saved' \in 0 .. PageCount \union {NoPage, Torn} /\ left' \in Pages
    BY <1>1, SavesTyped DEF TypeOK
  <1>5. TypeOK'
    <2>1. ScreenTyped'
      <3>1. until' = 0
        BY <1>1
      <3>2. until' \in 0 .. RefreshEvery
        BY <3>1
      <3>3. pending' \in BOOLEAN
        BY <1>3
      <3>. QED
        BY <1>1, <3>2, <3>3, TypeHalves DEF ScreenTyped
    <2>2. DataTyped'
      BY <1>1, <1>2, <1>3, <1>4, TypeHalves DEF DataTyped, Good
    <2>. QED
      BY <2>1, <2>2, TypeHalvesNext
  <1>6. ShownInv' /\ DisplayInv'
    BY <1>1, <1>3 DEF ShownInv, DisplayInv
  <1>7. CountInv'
    BY <1>1 DEF CountInv, TypeOK
  <1>. QED
    BY <1>2, <1>5, <1>6, <1>7

LEMMA ChaptersKeep ==
  ASSUME Inv, OpenChapters
  PROVE  Inv'
  <1> USE DEF Inv
  <1>1. /\ screen = "reader" /\ loaded /\ stage = "top" /\ stage' = "draw" /\ Flush
        /\ until' = 1
        /\ (screen' = "child" /\ dirty' = TRUE) \/ UNCHANGED <<screen, dirty>>
        /\ UNCHANGED <<loaded, page, saved, left, misread, fb, panel, fast>>
    BY DEF OpenChapters, Reads
  <1>2. Good(cache')
    <2>1. cache.open \in BOOLEAN
      BY DEF Good, Cache
    <2>2. PICK open \in {cache.open, FALSE} : cache' = [cache EXCEPT !.open = open]
      BY DEF OpenChapters
    <2>. QED
      BY <2>1, <2>2, OpenGood
  <1>3. pending' = FALSE /\ bank' = panel' /\ bank' \in Image \union {Plain(Planes)}
    BY <1>1, FlushTyped
  <1>4. TypeOK'
    <2>1. ScreenTyped'
      <3>1. until' = 1
        BY <1>1
      <3>2. until' \in 0 .. RefreshEvery
        BY <3>1
      <3>3. pending' \in BOOLEAN
        BY <1>3
      <3>. QED
        BY <1>1, <3>2, <3>3, TypeHalves DEF ScreenTyped
    <2>2. DataTyped'
      BY <1>1, <1>2, <1>3, TypeHalves DEF DataTyped, Good
    <2>. QED
      BY <2>1, <2>2, TypeHalvesNext
  <1>5. ShownInv' /\ DisplayInv'
    BY <1>1, <1>3 DEF ShownInv, DisplayInv
  <1>6. CountInv'
    BY <1>1 DEF CountInv, TypeOK
  <1>. QED
    BY <1>2, <1>4, <1>5, <1>6

LEMMA UnopenedKeeps ==
  ASSUME Inv, LeaveUnopened
  PROVE  Inv'
  <1> USE DEF Inv
  <1>1. /\ screen = "reader" /\ ~loaded /\ screen' = "other" /\ stage' = "draw"
        /\ dirty' = TRUE /\ pending' = FALSE
        /\ UNCHANGED <<loaded, page, until, saved, left, misread, cache, fb, bank, panel, fast>>
    BY DEF LeaveUnopened, display
  <1>2. TypeOK'
    BY <1>1 DEF TypeOK
  <1>3. ShownInv' /\ DisplayInv'
    BY <1>1 DEF ShownInv, DisplayInv
  <1>4. CountInv' /\ Good(cache')
    BY <1>1 DEF CountInv
  <1>. QED
    BY <1>2, <1>3, <1>4

LEMMA ChildKeeps ==
  ASSUME Inv, LeaveChild
  PROVE  Inv'
  <1> USE DEF Inv
  <1>1. /\ screen = "child" /\ screen' = "reader" /\ stage' = "draw" /\ dirty' = TRUE /\ until' = 1
        /\ UNCHANGED <<loaded, misread, cache, pending, fb, bank, panel, fast>>
    BY DEF LeaveChild, display
  <1>2. page' \in Pages /\ left' \in Pages /\ saved' \in 0 .. PageCount \union {NoPage, Torn}
    BY SavesTyped DEF LeaveChild, TypeOK
  <1>3. TypeOK'
    <2>1. ScreenTyped'
      <3>1. until' \in 0 .. RefreshEvery
        BY <1>1
      <3>. QED
        BY <1>1, <1>2, <3>1, TypeHalves DEF ScreenTyped
    <2>2. DataTyped'
      BY <1>1, <1>2, TypeHalves DEF DataTyped
    <2>. QED
      BY <2>1, <2>2, TypeHalvesNext
  <1>4. ShownInv' /\ DisplayInv'
    BY <1>1 DEF ShownInv, DisplayInv
  <1>5. CountInv' /\ Good(cache')
    BY <1>1 DEF CountInv, TypeOK
  <1>. QED
    BY <1>3, <1>4, <1>5

LEMMA LockKeeps ==
  ASSUME Inv, LockChanges
  PROVE  Inv'
  <1> USE DEF Inv
  <1>1. /\ screen = "reader" /\ stage = "top"
        /\ UNCHANGED <<screen, stage, loaded, page, until, saved, left, misread, cache, pending, fast>>
    BY DEF LockChanges
  <1>2. \/ PaintsMarker(fb) /\ UNCHANGED dirty
        \/ dirty' = TRUE /\ UNCHANGED <<fb, bank, panel>>
    BY DEF LockChanges, display
  <1>3. /\ fb' \in Image /\ panel' \in Image /\ bank' \in Image \union {Plain(Planes)}
        /\ fb' = panel' /\ (pending \/ bank' = panel') /\ panel'.what = panel.what
    BY <1>2, Images DEF PaintsMarker, TypeOK, DisplayInv
  <1>4. TypeOK'
    BY <1>1, <1>2, <1>3 DEF TypeOK
  <1>5. ShownInv' /\ DisplayInv'
    BY <1>1, <1>2, <1>3 DEF ShownInv, DisplayInv
  <1>6. CountInv' /\ Good(cache')
    BY <1>1, <1>2 DEF CountInv
  <1>. QED
    BY <1>4, <1>5, <1>6

LEMMA BaseKeeps ==
  ASSUME TypeOK, CountInv, Base
  PROVE  /\ until' \in 0 .. RefreshEvery /\ fast' \in Nat
         /\ fast' + until' <= RefreshEvery /\ fast' < RefreshEvery
  BY DEF TypeOK, CountInv, Base

LEMMA DrawPageKeeps ==
  ASSUME Inv, DrawPage
  PROVE  Inv'
  <1> USE DEF Inv
  <1>1. /\ screen = "reader" /\ loaded /\ stage' = "top" /\ dirty' = FALSE
        /\ misread' = FALSE /\ UNCHANGED <<screen, loaded, page, saved, left>>
    BY DEF DrawPage
  <1>2. PICK o \in Fetch(cache, page) :
          \/ /\ o.ok
             /\ Base /\ pending' = TRUE
             /\ \/ PaintsMarker(Plain(o.c.buffer))
                \/ /\ fb' = Plain(o.c.buffer) /\ panel' = Plain(o.c.buffer)
                   /\ bank' = Plain(Planes)
             /\ cache' \in {o.c} \union Prefetch(o.c, page)
          \/ /\ ~o.ok
             /\ Presents(Status) /\ fast' = 0
             /\ cache' = o.c /\ UNCHANGED <<until, pending>>
    BY DEF DrawPage
  <1>3. page \in Pages
    BY DEF TypeOK
  <1>4. Good(o.c) /\ (o.ok => o.c.buffer = page)
    BY <1>3, FetchGood
  <1>5. CASE /\ o.ok
             /\ Base /\ pending' = TRUE
             /\ \/ PaintsMarker(Plain(o.c.buffer))
                \/ /\ fb' = Plain(o.c.buffer) /\ panel' = Plain(o.c.buffer)
                   /\ bank' = Plain(Planes)
             /\ cache' \in {o.c} \union Prefetch(o.c, page)
    <2>1. Good(cache')
      BY <1>3, <1>4, <1>5, PrefetchGood
    <2>2. Plain(page) \in Image /\ Plain(page).what = page
      BY <1>3, Images
    <2>3. /\ fb' \in Image /\ panel' \in Image /\ bank' \in Image \union {Plain(Planes)}
          /\ fb' = panel' /\ panel'.what = page
      BY <1>4, <1>5, <2>2, Images DEF PaintsMarker
    <2>4. /\ until' \in 0 .. RefreshEvery /\ fast' \in Nat
          /\ fast' + until' <= RefreshEvery /\ fast' < RefreshEvery
      BY <1>5, BaseKeeps
    <2>5. TypeOK'
      <3>1. ScreenTyped'
        BY <1>1, <1>5, <2>4, TypeHalves DEF ScreenTyped
      <3>2. DataTyped'
        BY <1>1, <2>1, <2>3, <2>4, TypeHalves DEF DataTyped, Good
      <3>. QED
        BY <3>1, <3>2, TypeHalvesNext
    <2>6. ShownInv' /\ DisplayInv'
      BY <1>1, <1>5, <2>3 DEF ShownInv, DisplayInv
    <2>7. CountInv'
      BY <1>1, <2>4 DEF CountInv
    <2>. QED
      BY <2>1, <2>5, <2>6, <2>7
  <1>6. CASE /\ ~o.ok
             /\ Presents(Status) /\ fast' = 0
             /\ cache' = o.c /\ UNCHANGED <<until, pending>>
    <2>1. Plain(Status) \in Image /\ Plain(Status).what = Status
      BY Images
    <2>2. /\ fb' \in Image /\ panel' \in Image /\ bank' = panel' /\ fb' = panel'
          /\ panel'.what = Status
      BY <1>6, <2>1 DEF Presents
    <2>3. TypeOK'
      <3>1. ScreenTyped'
        BY <1>1, <1>6, TypeHalves DEF ScreenTyped
      <3>2. DataTyped'
        BY <1>1, <1>4, <1>6, <2>2, TypeHalves DEF DataTyped, Good
      <3>. QED
        BY <3>1, <3>2, TypeHalvesNext
    <2>4. ShownInv' /\ DisplayInv'
      BY <1>1, <1>6, <2>2 DEF ShownInv, DisplayInv
    <2>5. CountInv'
      BY <1>1, <1>6 DEF CountInv, TypeOK
    <2>. QED
      BY <1>4, <1>6, <2>3, <2>4, <2>5
  <1>. QED
    BY <1>2, <1>5, <1>6

\* A screen that is not a page, and the first refresh after a start.
LEMMA PresentsKeeps ==
  ASSUME NEW w \in {Status, Menu}, Presents(w)
  PROVE  /\ fb' \in Image /\ panel' \in Image /\ bank' = panel' /\ fb' = panel'
         /\ panel'.what = w
  BY Images DEF Presents

LEMMA DrawOtherKeeps ==
  ASSUME Inv, DrawOther
  PROVE  Inv'
  <1> USE DEF Inv
  <1>1. /\ stage' = "top" /\ dirty' = FALSE /\ fast' = 0 /\ ~(screen = "reader" /\ loaded)
        /\ misread' = FALSE /\ UNCHANGED <<screen, loaded, page, until, saved, left, cache, pending>>
    BY DEF DrawOther
  <1> DEFINE w == IF screen = "reader" THEN Status ELSE Menu
  <1>2. w \in {Status, Menu} /\ Presents(w)
    BY DEF DrawOther
  <1>3. screen = "reader" => w = Status
    OBVIOUS
  <1> HIDE DEF w
  <1>4. /\ fb' \in Image /\ panel' \in Image /\ bank' = panel' /\ fb' = panel'
        /\ panel'.what = w
    BY <1>2, PresentsKeeps
  <1>5. TypeOK'
    BY <1>1, <1>4 DEF TypeOK
  <1>6. ShownInv' /\ DisplayInv'
    BY <1>1, <1>3, <1>4 DEF ShownInv, DisplayInv
  <1>7. CountInv' /\ Good(cache')
    BY <1>1 DEF CountInv, TypeOK
  <1>. QED
    BY <1>5, <1>6, <1>7

LEMMA PowerKeeps ==
  ASSUME Inv, PowerLost
  PROVE  Inv'
  <1> USE DEF Inv
  <1>1. /\ screen' = "other" /\ stage' = "top" /\ dirty' = FALSE /\ loaded' = FALSE
        /\ pending' = FALSE /\ cache' = Closed /\ fast' = 0 /\ until' = 0
        /\ page' = 0 /\ 0 \in Pages /\ misread' = FALSE /\ left' = left
        /\ saved' \in {saved, Torn}
    BY DEF PowerLost, Pages
  <1>2. /\ fb' \in Image /\ panel' \in Image /\ bank' = panel' /\ fb' = panel'
    BY PresentsKeeps DEF PowerLost
  <1>3. Good(cache')
    BY <1>1, ClosedGood
  <1>4. TypeOK'
    <2>1. ScreenTyped'
      <3>1. until' \in 0 .. RefreshEvery
        BY <1>1
      <3>. QED
        BY <1>1, <3>1, TypeHalves DEF ScreenTyped
    <2>2. DataTyped'
      BY <1>1, <1>2, <1>3, TypeHalves DEF DataTyped, Good
    <2>. QED
      BY <2>1, <2>2, TypeHalvesNext
  <1>5. ShownInv' /\ DisplayInv'
    BY <1>1, <1>2 DEF ShownInv, DisplayInv
  <1>6. CountInv'
    BY <1>1 DEF CountInv
  <1>. QED
    BY <1>3, <1>4, <1>5, <1>6
-----------------------------------------------------------------------------
LEMMA InitGood == Init => Inv
  <1> SUFFICES ASSUME Init
               PROVE  Inv
    OBVIOUS
  <1>1. /\ 0 \in Pages /\ Junk \in Row /\ Restored \in Pages
    BY DEF Init, Restored, Pages, Row, NoPage, Torn
  <1>2. Good(Closed)
    <2>1. Closed \in Cache
      BY <1>1 DEF Closed, Cache
    <2>2. Closed.rows = <<>> /\ Closed.lru = <<>> /\ Closed.start = 0 /\ Closed.at = NoPage
      BY DEF Closed
    <2>. QED
      BY <2>1, <2>2 DEF Good
  <1>3. Plain(Menu) \in Image
    BY Images
  <1>4. TypeOK
    <2>1. ScreenTyped
      <3>1. until \in 0 .. RefreshEvery /\ page \in Pages
        BY <1>1 DEF Init
      <3>. QED
        BY <3>1 DEF Init, ScreenTyped
    <2>2. DataTyped
      BY <1>1, <1>2, <1>3 DEF Init, DataTyped, Good
    <2>. QED
      BY <2>1, <2>2, TypeHalves
  <1>5. ShownInv /\ DisplayInv /\ CountInv
    BY DEF Init, ShownInv, DisplayInv, CountInv
  <1>. QED
    BY <1>2, <1>4, <1>5 DEF Inv, Init

LEMMA NextKeeps == Inv /\ [Next]_vars => Inv'
  <1> SUFFICES ASSUME Inv, [Next]_vars
               PROVE  Inv'
    OBVIOUS
  <1>1. CASE Enter
    BY <1>1, EnterKeeps
  <1>2. CASE Leave
    BY <1>2, LeaveKeeps
  <1>3. CASE LeaveUnopened
    BY <1>3, UnopenedKeeps
  <1>4. CASE OpenChapters
    BY <1>4, ChaptersKeep
  <1>5. CASE LeaveChild
    BY <1>5, ChildKeeps
  <1>6. CASE \E delta \in -MaxDelta .. MaxDelta : Turn(delta)
    BY <1>6, TurnKeeps
  <1>7. CASE LockChanges
    BY <1>7, LockKeeps
  <1>8. CASE DrawPage
    BY <1>8, DrawPageKeeps
  <1>9. CASE DrawOther
    BY <1>9, DrawOtherKeeps
  <1>10. CASE NothingToDraw
    BY <1>10 DEF NothingToDraw, Inv, TypeOK, ShownInv, DisplayInv, CountInv, display
  <1>11. CASE PowerLost
    BY <1>11, PowerKeeps
  <1>12. CASE UNCHANGED vars
    BY <1>12 DEF vars, display, Inv, TypeOK, ShownInv, DisplayInv, CountInv
  <1>. QED
    BY <1>1, <1>2, <1>3, <1>4, <1>5, <1>6, <1>7, <1>8, <1>9, <1>10, <1>11, <1>12 DEF Next

LEMMA Invariance == Spec => []Inv
  BY InitGood, NextKeeps, PTL DEF Spec

\* Every variable of the reader and its caches keeps its type, also when a
\* load stops half way: the window and the cluster slots stay within their
\* arrays (XtchBook::ensurePageTableWindow(), clusterLruRemember()).
THEOREM TypeCorrect == Spec => []TypeOK
  <1>1. Inv => TypeOK
    BY DEF Inv
  <1>. QED
    BY <1>1, Invariance, PTL

\* drawPage() shows the page the reader is at or a message, whatever the
\* prefetch, the failed reads and the failed allocations before it left.
THEOREM ShowsWhatIsAsked == Spec => []ShownIsAsked
  <1>1. Inv => ShownIsAsked
    BY DEF Inv, ShownInv, ShownIsAsked
  <1>. QED
    BY <1>1, Invariance, PTL

\* isPageLoaded() never names another page than pageBuffer holds, and the
\* rows of the window are those of the page table, for every window size.
THEOREM CachesAgreeWithBook == Spec => []CachesAgree
  <1>1. Inv => CachesAgree
    <2> SUFFICES ASSUME Inv
                 PROVE  CachesAgree
      OBVIOUS
    <2>1. Good(cache)
      BY DEF Inv
    <2>2. ASSUME NEW p \in Pages, InWindow(cache, p)
          PROVE  RowOf(cache, p) = p
      <3>1. cache.start \in Int /\ p \in Int /\ Len(cache.rows) \in Int
        BY <2>1 DEF Good, Cache, Pages
      <3>2. p - cache.start + 1 \in 1 .. Len(cache.rows)
        BY <2>2, <3>1 DEF InWindow
      <3>3. cache.rows[p - cache.start + 1] = cache.start + (p - cache.start + 1) - 1
        BY <2>1, <3>2 DEF Good
      <3>. QED
        BY <3>1, <3>3 DEF RowOf
    <2>. QED
      BY <2>1, <2>2 DEF CachesAgree, Good
  <1>. QED
    BY <1>1, Invariance, PTL

\* flushPendingCleanup() always comes before the next fast refresh: the
\* controller's old image is the panel's, or will be.
THEOREM ShowsTheBaseline == Spec => []BaselineIsShown
  <1>1. Inv => BaselineIsShown
    BY DEF Inv, DisplayInv, BaselineIsShown, Resynced
  <1>. QED
    BY <1>1, Invariance, PTL

\* pagesUntilFull: for every setting of refreshEveryNPages, at most one fewer
\* pages are drawn fast between two clean refreshes.
THEOREM CleansInTime == Spec => []CleanEveryN
  <1>1. Inv => CleanEveryN
    BY DEF Inv, CountInv, CleanEveryN
  <1>. QED
    BY <1>1, Invariance, PTL
-----------------------------------------------------------------------------
\* The position file leads to the page last saved, unless a save was cut short.
SavedInv == saved = Torn \/ left = Restored

LEMMA SavedLeadsBack ==
  ASSUME "save" \notin Trouble, NEW p \in Pages, Saves(p)
  PROVE  SavedInv'
  <1>1. saved' = p /\ left' = p
    BY DEF Saves
  <1>2. p \in Nat /\ p < PageCount /\ p \notin {NoPage, Torn}
    BY DEF Pages, NoPage, Torn
  <1>. QED
    BY <1>1, <1>2 DEF SavedInv, Restored

LEMMA SavedStays ==
  ASSUME SavedInv, UNCHANGED left, saved' \in {saved, Torn}
  PROVE  SavedInv'
  BY DEF SavedInv, Restored

LEMMA SavedKeeps ==
  ASSUME Inv, "save" \notin Trouble, SavedInv, [Next]_vars
  PROVE  SavedInv'
  <1>1. page \in Pages
    BY DEF Inv, TypeOK
  <1>2. CASE Leave
    BY <1>1, <1>2, SavedLeadsBack DEF Leave
  <1>3. CASE LeaveChild
    <2>1. CASE UNCHANGED <<page, saved, left>>
      BY <2>1, SavedStays
    <2>2. CASE \E p \in Pages : page' = p /\ Saves(p)
      BY <2>2, SavedLeadsBack
    <2>. QED
      BY <1>3, <2>1, <2>2 DEF LeaveChild
  <1>4. CASE \E delta \in -MaxDelta .. MaxDelta : Turn(delta)
    <2>1. PICK delta \in -MaxDelta .. MaxDelta : Turn(delta)
      BY <1>4
    <2> DEFINE target == IF page + delta < 0 THEN 0
                         ELSE IF page + delta >= PageCount THEN PageCount - 1 ELSE page + delta
    <2>2. target \in Pages
      BY <1>1 DEF Pages
    <2>3. Saves(target) \/ UNCHANGED <<saved, left>>
      BY <2>1 DEF Turn
    <2> HIDE DEF target
    <2>. QED
      BY <2>2, <2>3, SavedLeadsBack, SavedStays
  <1>5. CASE PowerLost
    <2>1. UNCHANGED left /\ saved' \in {saved, Torn}
      BY <1>5 DEF PowerLost
    <2>. QED
      BY <2>1, SavedStays
  <1>6. CASE Enter \/ LeaveUnopened \/ OpenChapters \/ LockChanges \/ DrawPage \/ DrawOther \/ NothingToDraw
    <2>1. UNCHANGED <<saved, left>>
      BY <1>6 DEF Enter, LeaveUnopened, OpenChapters, LockChanges, DrawPage, DrawOther, NothingToDraw
    <2>. QED
      BY <2>1, SavedStays
  <1>7. CASE UNCHANGED vars
    BY <1>7, SavedStays DEF vars
  <1>. QED
    BY <1>2, <1>3, <1>4, <1>5, <1>6, <1>7 DEF Next

LEMMA OpensAtSaved ==
  ASSUME Inv, SavedInv, [Next]_vars, ~loaded, loaded'
  PROVE  page' = left \/ (page' = 0 /\ (saved = Torn \/ misread'))
  <1>1. Enter
    <2>1. ~Reads
      BY DEF Reads
    <2>2. ~(Leave \/ OpenChapters \/ \E delta \in -MaxDelta .. MaxDelta : Turn(delta))
      BY <2>1 DEF Leave, OpenChapters, Turn
    <2>3. ~(LeaveUnopened \/ LeaveChild \/ LockChanges \/ DrawPage \/ DrawOther \/ NothingToDraw \/ PowerLost)
      BY DEF LeaveUnopened, LeaveChild, LockChanges, DrawPage, DrawOther, NothingToDraw, PowerLost
    <2>4. ~UNCHANGED vars
      BY DEF vars
    <2>. QED
      BY <2>2, <2>3, <2>4 DEF Next
  <1>2. LoadProgress
    BY <1>1 DEF Enter
  <1>. QED
    BY <1>2 DEF SavedInv, Restored, LoadProgress

\* saveProgress() and loadProgress(): where saves do not fail unseen, a book
\* reopens at the page last saved, over any power cuts; or at the first page
\* when the power went during the save, or the file was not read on opening.
THEOREM ReopensWhereLeft ==
  ASSUME "save" \notin Trouble
  PROVE  Spec => PositionKept
  <1>1. Init => SavedInv
    BY DEF Init, SavedInv
  <1>2. Inv /\ SavedInv /\ [Next]_vars => SavedInv'
    BY SavedKeeps
  <1>3. Inv /\ SavedInv /\ [Next]_vars
          => [~loaded /\ loaded' => page' = left \/ (page' = 0 /\ (saved = Torn \/ misread'))]_vars
    BY OpensAtSaved
  <1>. QED
    BY <1>1, <1>2, <1>3, Invariance, PTL DEF Spec, PositionKept
-----------------------------------------------------------------------------
\* The fields a driver's state has, and what they hold.
Wired(e) ==
  /\ {"glass", "old", "new", "gray", "first", "dark", "synced", "force", "lsbValid", "scrubbed"}
       \subseteq DOMAIN e
  /\ e.glass \in Tones /\ e.old \in Bits /\ e.new \in Bits
  /\ e.gray \in BOOLEAN /\ e.first \in BOOLEAN /\ e.dark \in BOOLEAN
  /\ e.synced \in BOOLEAN /\ e.force \in BOOLEAN /\ e.lsbValid \in BOOLEAN

\* Between two calls of the firmware no gray plane is waiting.
Idle(e, board) == Wired(e) /\ ~e.lsbValid /\ (board = "X4" => ~e.force)

\* Nothing makes the next refresh a full one.
Sure(e, board) == ~e.first /\ ~e.force /\ (board = "X3" => e.synced)

\* The ink agrees with the bit v that was sent, and the old plane holds it.
Agrees(e, v) == e.old = v /\ (e.glass = White <=> v = 1)

\* What a refresh to v leaves, from e on.
Refreshed(r, e, board, v) ==
  /\ Idle(r, board) /\ ~r.gray /\ Sure(r, board) /\ Agrees(r, v) /\ r.new = v
  /\ r.dark = e.dark

LEMMA BitsAndTones ==
  /\ \A v \in Bits : v \in {0, 1} /\ Opposite(v) \in Bits /\ Opposite(v) # v
                     /\ ToneOf(v) \in Tones /\ (ToneOf(v) = White <=> v = 1)
  /\ \A t \in Tones : /\ InkBit(t) \in Bits /\ LsbBit(t) \in Bits /\ MsbBit(t) \in Bits
                      /\ (InkBit(t) = 1 <=> t = White)
  BY DEF Bits, Tones, White, Black, Opposite, ToneOf, InkBit, LsbBit, MsbBit

LEMMA X4Refreshes ==
  ASSUME NEW e, Idle(e, "X4"), NEW v \in Bits, NEW mode,
         e.first \/ mode # "Fast" \/ (~e.gray /\ Agrees(e, e.old))
  PROVE  LET r == X4!Display(e, v, mode) IN
         /\ Refreshed(r, e, "X4", v)
         /\ e.first \/ mode # "Fast" \/ e.dark \/ e.glass = ToneOf(e.old) => r.glass = ToneOf(v)
         /\ mode = "Fast" /\ ~e.first /\ ~e.gray => r.scrubbed = FALSE
  BY DEF Refreshed, Idle, Wired, Sure, Agrees, X4!Display, X4!Mode, X4!ToneOf, X4!Driven,
         X4!Opposite, X4!White, X4!Black, ToneOf, White, Black, Tones, Bits

LEMMA X3Refreshes ==
  ASSUME NEW e, Idle(e, "X3"), ~e.gray, NEW v \in Bits, NEW mode,
         ~Sure(e, "X3") \/ mode # "Fast" \/ Agrees(e, e.old)
  PROVE  LET r == X3!Display(e, v, mode) IN
         /\ Refreshed(r, e, "X3", v)
         /\ e.first \/ mode # "Fast" \/ e.dark \/ e.glass = ToneOf(e.old) => r.glass = ToneOf(v)
         /\ mode = "Fast" /\ Sure(e, "X3") => r.scrubbed = FALSE
  BY DEF Refreshed, Idle, Wired, Sure, Agrees, X3!Display, X3!GrayscaleRevert, X3!Unsure,
         X3!ToneOf, X3!Driven, X3!Opposite, X3!White, X3!Black, ToneOf, White, Black, Tones, Bits
LEMMA X3Base ==
  ASSUME NEW e, Idle(e, "X3"), ~e.gray, NEW v \in Bits, NEW mode,
         ~Sure(e, "X3") \/ Agrees(e, e.old)
  PROVE  LET r == X3!GrayscaleBase(e, v, mode) IN
         /\ Refreshed(r, e, "X3", v)
         /\ e.first => r.glass = ToneOf(v)
         /\ Sure(e, "X3") => r.scrubbed = FALSE
  <1>1. CASE X3!Unsure(e)
    <2>1. X3!GrayscaleBase(e, v, mode) = X3!Display(e, v, mode)
      BY <1>1 DEF X3!GrayscaleBase, X3!GrayscaleRevert
    <2>2. ~Sure(e, "X3")
      BY <1>1 DEF X3!Unsure, Sure
    <2>. QED
      BY <2>1, <2>2, X3Refreshes
  <1>2. CASE ~X3!Unsure(e)
    <2> DEFINE g == X3!Driven(e.glass, e.old, v)
               r == [e EXCEPT !.glass = g, !.old = v, !.new = v, !.synced = TRUE, !.scrubbed = e.gray]
    <2>1. X3!GrayscaleBase(e, v, mode) = r
      BY <1>2 DEF X3!GrayscaleBase, X3!GrayscaleRevert, Idle
    <2>2. Sure(e, "X3") /\ Agrees(e, e.old)
      BY <1>2 DEF X3!Unsure, Sure, Idle, Wired
    <2>3. g \in Tones /\ (g = White <=> v = 1)
      BY <2>2 DEF Agrees, Idle, Wired, X3!Driven, X3!ToneOf, X3!White, X3!Black, White, Tones, Bits
    <2>. HIDE DEF g
    <2>4. Refreshed(r, e, "X3", v) /\ r.scrubbed = FALSE
      BY <2>2, <2>3 DEF Refreshed, Idle, Wired, Sure, Agrees
    <2>. QED
      BY <2>1, <2>2, <2>4 DEF Sure
  <1>. QED
    BY <1>1, <1>2

\* The gray pass, from a base of the page: where the base shows its own tone,
\* the page's tone; elsewhere at least its polarity.
Shaded(r, e, board, tone) ==
  /\ Idle(r, board) /\ r.gray /\ ~r.first /\ r.dark = e.dark /\ ~r.force
  /\ r.glass = White <=> tone = White
  /\ e.glass = ToneOf(InkBit(tone)) => r.glass = tone

LEMMA X4Shades ==
  ASSUME NEW e, Idle(e, "X4"), ~e.first, NEW tone \in Tones, e.glass = White <=> InkBit(tone) = 1
  PROVE  Shaded(X4!DisplayGray(X4!CopyGrayscaleMsb(X4!CopyGrayscaleLsb(e, LsbBit(tone)), MsbBit(tone))),
                e, "X4", tone)
  <1> DEFINE lsb == LsbBit(tone)
             msb == MsbBit(tone)
             l == X4!CopyGrayscaleLsb(e, lsb)
             m == X4!CopyGrayscaleMsb(l, msb)
             r == X4!DisplayGray(m)
  <1>1. lsb \in Bits /\ msb \in Bits
    BY BitsAndTones
  <1>2. /\ Idle(l, "X4") /\ l.new = lsb
        /\ l.glass = e.glass /\ l.dark = e.dark /\ l.first = e.first
    BY <1>1 DEF X4!CopyGrayscaleLsb, Idle, Wired
  <1>3. /\ Idle(m, "X4") /\ m.new = lsb /\ m.old = msb
        /\ m.glass = e.glass /\ m.dark = e.dark /\ m.first = e.first
    BY <1>1, <1>2 DEF X4!CopyGrayscaleMsb, Idle, Wired
  <1>. HIDE DEF l, m
  <1>4. r.glass = IF lsb = 0 /\ msb = 0 THEN e.glass ELSE IF lsb = 1 THEN 1 ELSE 2
    BY <1>3 DEF X4!DisplayGray, X4!Nudged, Idle, Wired
  <1>5. Idle(r, "X4") /\ r.gray /\ r.dark = e.dark /\ ~r.first /\ ~r.force
    BY <1>3, <1>4 DEF X4!DisplayGray, X4!Nudged, Idle, Wired, Tones
  <1>6. lsb = (IF tone = 1 THEN 1 ELSE 0) /\ msb = (IF tone \in {1, 2} THEN 1 ELSE 0)
    BY DEF LsbBit, MsbBit
  <1>7. InkBit(tone) = (IF tone = 0 THEN 1 ELSE 0) /\ ToneOf(0) = 3 /\ ToneOf(1) = 0 /\ White = 0
    BY DEF InkBit, ToneOf, White, Black
  <1>. HIDE DEF lsb, msb, r
  <1>8. ASSUME tone = 1 \/ tone = 2 PROVE Shaded(r, e, "X4", tone)
    BY <1>4, <1>5, <1>6, <1>7, <1>8 DEF Shaded
  <1>9. ASSUME tone = 0 \/ tone = 3 PROVE Shaded(r, e, "X4", tone)
    BY <1>4, <1>5, <1>6, <1>7, <1>9 DEF Shaded
  <1>10. Shaded(r, e, "X4", tone)
    BY <1>8, <1>9 DEF Tones
  <1>. QED
    BY <1>10 DEF r, m, l, lsb, msb

LEMMA X3Shades ==
  ASSUME NEW e, Idle(e, "X3"), ~e.first, NEW tone \in Tones, e.glass = White <=> InkBit(tone) = 1
  PROVE  Shaded(X3!DisplayGray(X3!CopyGrayscaleMsb(X3!CopyGrayscaleLsb(e, LsbBit(tone)), MsbBit(tone))),
                e, "X3", tone)
  <1> DEFINE lsb == LsbBit(tone)
             msb == MsbBit(tone)
             l == X3!CopyGrayscaleLsb(e, lsb)
             m == X3!CopyGrayscaleMsb(l, msb)
             r == X3!DisplayGray(m)
  <1>1. lsb \in Bits /\ msb \in Bits
    BY BitsAndTones
  <1>2. /\ Wired(l) /\ l.old = lsb /\ l.lsbValid = TRUE
        /\ l.glass = e.glass /\ l.dark = e.dark /\ l.first = e.first
    BY <1>1 DEF X3!CopyGrayscaleLsb, Idle, Wired
  <1>3. /\ Wired(m) /\ m.new = msb /\ m.old = lsb /\ m.lsbValid = TRUE
        /\ m.glass = e.glass /\ m.dark = e.dark /\ m.first = e.first
    BY <1>1, <1>2 DEF X3!CopyGrayscaleMsb, Wired
  <1>. HIDE DEF l, m
  <1>4. r.glass = IF lsb = 0 /\ msb = 0 THEN e.glass ELSE IF lsb = 1 THEN 1 ELSE 2
    BY <1>3 DEF X3!DisplayGray, X3!Nudged, Wired
  <1>5. Idle(r, "X3") /\ r.gray /\ r.dark = e.dark /\ ~r.first /\ ~r.force
    BY <1>3, <1>4 DEF X3!DisplayGray, X3!Nudged, Idle, Wired, Tones
  <1>6. lsb = (IF tone = 1 THEN 1 ELSE 0) /\ msb = (IF tone \in {1, 2} THEN 1 ELSE 0)
    BY DEF LsbBit, MsbBit
  <1>7. InkBit(tone) = (IF tone = 0 THEN 1 ELSE 0) /\ ToneOf(0) = 3 /\ ToneOf(1) = 0 /\ White = 0
    BY DEF InkBit, ToneOf, White, Black
  <1>. HIDE DEF lsb, msb, r
  <1>8. ASSUME tone = 1 \/ tone = 2 PROVE Shaded(r, e, "X3", tone)
    BY <1>4, <1>5, <1>6, <1>7, <1>8 DEF Shaded
  <1>9. ASSUME tone = 0 \/ tone = 3 PROVE Shaded(r, e, "X3", tone)
    BY <1>4, <1>5, <1>6, <1>7, <1>9 DEF Shaded
  <1>10. Shaded(r, e, "X3", tone)
    BY <1>8, <1>9 DEF Tones
  <1>. QED
    BY <1>10 DEF r, m, l, lsb, msb

\* The resync: the planes hold v again, and the ink stays.
Rebased(r, e, board, v) ==
  /\ Idle(r, board) /\ ~r.gray /\ Sure(r, board) /\ r.old = v
  /\ r.glass = e.glass /\ r.dark = e.dark

LEMMA X4Rebases ==
  ASSUME NEW e, Idle(e, "X4"), ~e.first, NEW v \in Bits
  PROVE  Rebased(X4!CleanupGrayscaleBuffers(e, v), e, "X4", v)
  BY DEF Rebased, Idle, Wired, Sure, X4!CleanupGrayscaleBuffers

LEMMA X3Rebases ==
  ASSUME NEW e, Idle(e, "X3"), ~e.first, NEW v \in Bits
  PROVE  Rebased(X3!CleanupGrayscaleBuffers(e, v), e, "X3", v)
  BY DEF Rebased, Idle, Wired, Sure, X3!CleanupGrayscaleBuffers
-----------------------------------------------------------------------------
DisplayGood(d) ==
  /\ {"board", "epd", "inverted", "inversionDirty"} \subseteq DOMAIN d
  /\ d.board \in Boards /\ d.inverted \in BOOLEAN /\ d.inversionDirty \in BOOLEAN
  /\ Idle(d.epd, d.board) /\ d.epd.dark = d.inverted

\* The frame b is on the panel, and the planes hold it.
Settled(d, b) ==
  /\ DisplayGood(d) /\ ~d.inversionDirty
  /\ ~d.epd.gray /\ Sure(d.epd, d.board) /\ Agrees(d.epd, Sent(d, b))

\* As Settled, but for gray planes that are still in the RAM.
Grayed(d, b) ==
  /\ DisplayGood(d) /\ ~d.inversionDirty /\ ~d.inverted
  /\ d.epd.gray /\ ~d.epd.first /\ ~d.epd.force
  /\ d.epd.glass = White <=> b = 1

\* The next refresh will be absolute.
Absolute(d) == d.epd.first \/ d.inversionDirty
Fresh(d)    == DisplayGood(d) /\ ~d.epd.gray /\ d.epd.first

\* What a refresh may start from.
Ready(d) ==
  /\ DisplayGood(d) /\ ~d.epd.gray
  /\ Absolute(d) \/ (Sure(d.epd, d.board) /\ Agrees(d.epd, d.epd.old))

LEMMA SettledReady ==
  ASSUME NEW d, NEW b, Settled(d, b) \/ Fresh(d)
  PROVE  Ready(d)
  BY DEF Settled, Fresh, Ready, Absolute, Agrees

LEMMA SentBit ==
  ASSUME NEW d, NEW b \in Bits
  PROVE  Sent(d, b) \in Bits
  BY BitsAndTones DEF Sent

\* Putting the driver's new state into the display.
LEMMA Puts ==
  ASSUME NEW d, DisplayGood(d), NEW e, NEW b \in Bits,
         Refreshed(e, d.epd, d.board, Sent(d, b))
  PROVE  LET r == [d EXCEPT !.inversionDirty = FALSE, !.epd = e] IN
         /\ Settled(r, b) /\ r.inverted = d.inverted /\ r.board = d.board /\ r.epd = e
  BY DEF DisplayGood, Settled, Refreshed, Sent

LEMMA Modal ==
  ASSUME NEW d, NEW mode, DisplayGood(d)
  PROVE  LET m == EffectiveMode(d, mode) IN
         /\ d.inversionDirty => m # "Fast"
         /\ mode # "Fast" => m # "Fast"
         /\ ~d.inversionDirty => m = mode
  BY DEF EffectiveMode

LEMMA Presented ==
  ASSUME NEW d, Ready(d), NEW b \in Bits, NEW mode
  PROVE  LET r == DisplayBuffer(d, b, mode) IN
         /\ Settled(r, b) /\ r.inverted = d.inverted /\ r.board = d.board
         /\ r.epd.new = Sent(d, b) /\ r.epd.old = Sent(d, b)
         /\ Absolute(d) \/ mode # "Fast" \/ d.inverted \/ d.epd.glass = ToneOf(d.epd.old)
              => r.epd.glass = ToneOf(Sent(d, b))
         /\ mode = "Fast" /\ ~Absolute(d) => r.epd.scrubbed = FALSE
  <1> DEFINE v == Sent(d, b)
             m == EffectiveMode(d, mode)
             e4 == X4!Display(d.epd, v, m)
             e3 == X3!Display(d.epd, v, m)
             r  == DisplayBuffer(d, b, mode)
  <1>1. v \in Bits
    BY SentBit
  <1>2. DisplayGood(d) /\ Idle(d.epd, d.board) /\ d.board \in Boards /\ d.epd.dark = d.inverted
    BY DEF Ready, DisplayGood
  <1>3. /\ Absolute(d) \/ mode # "Fast" => d.epd.first \/ m # "Fast"
        /\ ~Absolute(d) /\ mode = "Fast" => m = "Fast" /\ ~d.epd.first /\ Sure(d.epd, d.board)
        /\ d.epd.first => ~Sure(d.epd, d.board)
        /\ ~Absolute(d) => Agrees(d.epd, d.epd.old)
        /\ ~d.epd.gray
    BY <1>2, Modal DEF Ready, Absolute, Sure
  <1>. HIDE DEF v, m
  <1>4. CASE d.board = "X4"
    <2>1. /\ Refreshed(e4, d.epd, "X4", v)
          /\ d.epd.first \/ m # "Fast" \/ d.epd.dark \/ d.epd.glass = ToneOf(d.epd.old)
               => e4.glass = ToneOf(v)
          /\ m = "Fast" /\ ~d.epd.first /\ ~d.epd.gray => e4.scrubbed = FALSE
      BY <1>1, <1>2, <1>3, <1>4, X4Refreshes
    <2>2. DisplayBuffer(d, b, mode) = [d EXCEPT !.inversionDirty = FALSE, !.epd = e4]
      BY <1>4 DEF DisplayBuffer, v, m
    <2>. HIDE DEF e4
    <2>3. Refreshed(e4, d.epd, d.board, Sent(d, b))
      BY <2>1, <1>4 DEF v
    <2>. DEFINE p == [d EXCEPT !.inversionDirty = FALSE, !.epd = e4]
    <2>8. Settled(p, b) /\ p.inverted = d.inverted /\ p.board = d.board /\ p.epd = e4
      BY <2>3, <1>2, Puts
    <2>. HIDE DEF p
    <2>4. Settled(r, b) /\ r.inverted = d.inverted /\ r.board = d.board /\ r.epd = e4
      BY <2>2, <2>8 DEF p
    <2>5. e4.new = v /\ e4.old = v
      BY <2>1 DEF Refreshed, Agrees
    <2>. HIDE DEF r
    <2>6. Absolute(d) \/ mode # "Fast" \/ d.inverted \/ d.epd.glass = ToneOf(d.epd.old)
            => r.epd.glass = ToneOf(v)
      BY <1>2, <1>3, <2>1, <2>4
    <2>7. mode = "Fast" /\ ~Absolute(d) => r.epd.scrubbed = FALSE
      BY <1>3, <2>1, <2>4
    <2>. QED
      BY <2>4, <2>5, <2>6, <2>7 DEF r, v
  <1>5. CASE d.board = "X3"
    <2>1. /\ Refreshed(e3, d.epd, "X3", v)
          /\ d.epd.first \/ m # "Fast" \/ d.epd.dark \/ d.epd.glass = ToneOf(d.epd.old)
               => e3.glass = ToneOf(v)
          /\ m = "Fast" /\ Sure(d.epd, "X3") => e3.scrubbed = FALSE
      BY <1>1, <1>2, <1>3, <1>5, X3Refreshes
    <2>2. DisplayBuffer(d, b, mode) = [d EXCEPT !.inversionDirty = FALSE, !.epd = e3]
      BY <1>5 DEF DisplayBuffer, v, m
    <2>. HIDE DEF e3
    <2>3. Refreshed(e3, d.epd, d.board, Sent(d, b))
      BY <2>1, <1>5 DEF v
    <2>. DEFINE p == [d EXCEPT !.inversionDirty = FALSE, !.epd = e3]
    <2>8. Settled(p, b) /\ p.inverted = d.inverted /\ p.board = d.board /\ p.epd = e3
      BY <2>3, <1>2, Puts
    <2>. HIDE DEF p
    <2>4. Settled(r, b) /\ r.inverted = d.inverted /\ r.board = d.board /\ r.epd = e3
      BY <2>2, <2>8 DEF p
    <2>5. e3.new = v /\ e3.old = v
      BY <2>1 DEF Refreshed, Agrees
    <2>. HIDE DEF r
    <2>6. Absolute(d) \/ mode # "Fast" \/ d.inverted \/ d.epd.glass = ToneOf(d.epd.old)
            => r.epd.glass = ToneOf(v)
      BY <1>2, <1>3, <2>1, <2>4
    <2>7. mode = "Fast" /\ ~Absolute(d) => r.epd.scrubbed = FALSE
      BY <1>3, <1>5, <2>1, <2>4
    <2>. QED
      BY <2>4, <2>5, <2>6, <2>7 DEF r, v
  <1>. QED
    BY <1>2, <1>4, <1>5 DEF Boards
\* Putting a driver's new state into the display changes nothing else of it.
LEMMA PutsEpd ==
  ASSUME NEW d, DisplayGood(d), NEW e
  PROVE  LET r == [d EXCEPT !.epd = e] IN
         /\ {"board", "epd", "inverted", "inversionDirty"} \subseteq DOMAIN r
         /\ r.board = d.board /\ r.inverted = d.inverted
         /\ r.inversionDirty = d.inversionDirty /\ r.epd = e
  BY DEF DisplayGood

LEMMA Placed ==
  ASSUME NEW d, DisplayGood(d), NEW e, Idle(e, d.board), e.dark = d.epd.dark
  PROVE  LET r == [d EXCEPT !.epd = e] IN
         /\ DisplayGood(r) /\ r.board = d.board /\ r.inverted = d.inverted
         /\ r.inversionDirty = d.inversionDirty /\ r.epd = e
  <1> DEFINE r == [d EXCEPT !.epd = e]
  <1>1. /\ {"board", "epd", "inverted", "inversionDirty"} \subseteq DOMAIN r
        /\ r.board = d.board /\ r.inverted = d.inverted
        /\ r.inversionDirty = d.inversionDirty /\ r.epd = e
    BY PutsEpd
  <1>. HIDE DEF r
  <1>2. DisplayGood(r)
    BY <1>1 DEF DisplayGood
  <1>3. /\ DisplayGood(r) /\ r.board = d.board /\ r.inverted = d.inverted
        /\ r.inversionDirty = d.inversionDirty /\ r.epd = e
    BY <1>1, <1>2
  <1>. QED
    BY <1>3 DEF r

\* The fast base of a page.
LEMMA Based ==
  ASSUME NEW d, Ready(d), NEW b \in Bits
  PROVE  LET r == DisplayGrayscaleBase(d, b, "Fast") IN
         /\ Settled(r, b) /\ r.inverted = d.inverted
         /\ ~Absolute(d) => r.epd.scrubbed = FALSE
  <1>1. CASE d.inverted \/ d.inversionDirty
    BY <1>1, Presented DEF DisplayGrayscaleBase
  <1>2. CASE ~(d.inverted \/ d.inversionDirty)
    <2>1. DisplayGood(d) /\ Idle(d.epd, d.board) /\ d.board \in Boards /\ d.epd.dark = d.inverted
          /\ Sent(d, b) = b /\ ~d.epd.gray
      BY <1>2 DEF Ready, DisplayGood, Sent
    <2>2. /\ Absolute(d) <=> d.epd.first
          /\ ~Absolute(d) => Sure(d.epd, d.board) /\ Agrees(d.epd, d.epd.old)
          /\ d.epd.first => ~Sure(d.epd, d.board)
      BY <1>2 DEF Ready, Absolute, Sure
    <2> DEFINE r == DisplayGrayscaleBase(d, b, "Fast")
    <2>3. \E e : /\ r = [d EXCEPT !.epd = e] /\ Refreshed(e, d.epd, d.board, b)
                 /\ ~Absolute(d) => e.scrubbed = FALSE
      <3>1. CASE d.board = "X4"
        <4> DEFINE e4 == X4!Display(d.epd, b, "Fast")
        <4>1. r = [d EXCEPT !.epd = e4]
          BY <1>2, <3>1 DEF DisplayGrayscaleBase, X4!GrayscaleBase
        <4>2. /\ Refreshed(e4, d.epd, "X4", b)
              /\ ~d.epd.first /\ ~d.epd.gray => e4.scrubbed = FALSE
          BY <2>1, <2>2, <3>1, X4Refreshes
        <4>. HIDE DEF e4, r
        <4>. QED
          BY <3>1, <2>1, <2>2, <4>1, <4>2
      <3>2. CASE d.board = "X3"
        <4> DEFINE e3 == X3!GrayscaleBase(d.epd, b, "Fast")
        <4>1. r = [d EXCEPT !.epd = e3]
          BY <1>2, <3>2 DEF DisplayGrayscaleBase
        <4>2. /\ Refreshed(e3, d.epd, "X3", b)
              /\ Sure(d.epd, "X3") => e3.scrubbed = FALSE
          BY <2>1, <2>2, <3>2, X3Base
        <4>. HIDE DEF e3, r
        <4>. QED
          BY <3>2, <2>1, <2>2, <4>1, <4>2
      <3>. QED
        BY <2>1, <3>1, <3>2 DEF Boards
    <2>4. PICK e : /\ r = [d EXCEPT !.epd = e] /\ Refreshed(e, d.epd, d.board, b)
                   /\ ~Absolute(d) => e.scrubbed = FALSE
      BY <2>3
    <2> DEFINE p == [d EXCEPT !.epd = e]
    <2>5. /\ DisplayGood(p) /\ p.board = d.board /\ p.inverted = d.inverted
          /\ p.inversionDirty = d.inversionDirty /\ p.epd = e
      BY <2>1, <2>4, Placed DEF Refreshed
    <2>. HIDE DEF p, r
    <2>6. r = p
      BY <2>4 DEF p
    <2>7. Settled(p, b) /\ p.inverted = d.inverted /\ (~Absolute(d) => p.epd.scrubbed = FALSE)
      BY <1>2, <2>4, <2>5 DEF Settled, Refreshed, Sent
    <2>8. Settled(r, b) /\ r.inverted = d.inverted /\ (~Absolute(d) => r.epd.scrubbed = FALSE)
      BY <2>6, <2>7
    <2>. QED
      BY <1>2, <2>8 DEF r
  <1>. QED
    BY <1>1, <1>2

\* The settling pass after a clean base moves nothing.
LEMMA Preconditioned ==
  ASSUME NEW d, NEW b, Settled(d, b), d.epd.new = d.epd.old
  PROVE  LET r == PreconditionGrayscale(d) IN
         Settled(r, b) /\ r.inverted = d.inverted /\ r.epd.glass = d.epd.glass
  <1>1. DisplayGood(d) /\ Idle(d.epd, d.board) /\ d.board \in Boards
    BY DEF Settled, DisplayGood
  <1>2. CASE d.inverted
    BY <1>2 DEF PreconditionGrayscale
  <1>3. CASE ~d.inverted
    <2> DEFINE e3 == X3!PreconditionGrayscale(d.epd)
               e  == IF d.board = "X4" THEN d.epd ELSE e3
               r  == [d EXCEPT !.epd = e]
    <2>1. PreconditionGrayscale(d) = r
      BY <1>3 DEF PreconditionGrayscale, X4!PreconditionGrayscale
    <2>2. /\ Wired(e3) /\ e3.glass = d.epd.glass /\ e3.old = d.epd.old /\ e3.gray = d.epd.gray
          /\ e3.first = d.epd.first /\ e3.dark = d.epd.dark /\ e3.synced = d.epd.synced
          /\ e3.force = d.epd.force /\ e3.lsbValid = d.epd.lsbValid
      BY <1>1 DEF Idle, Wired, X3!PreconditionGrayscale, X3!Driven
    <2>. HIDE DEF e3
    <2>3. /\ Idle(e, d.board) /\ e.glass = d.epd.glass /\ e.old = d.epd.old /\ ~e.gray
          /\ e.dark = d.epd.dark /\ Sure(e, d.board)
      BY <1>1, <2>2 DEF Idle, Settled, Sure
    <2>. HIDE DEF e
    <2>4. /\ DisplayGood(r) /\ r.board = d.board /\ r.inverted = d.inverted
          /\ r.inversionDirty = d.inversionDirty /\ r.epd = e
      BY <1>1, <2>3, Placed
    <2>. HIDE DEF r
    <2>5. Settled(r, b) /\ r.epd.glass = d.epd.glass
      BY <2>3, <2>4 DEF Settled, Agrees, Sent
    <2>. QED
      BY <2>1, <2>4, <2>5
  <1>. QED
    BY <1>2, <1>3 DEF Settled, DisplayGood
LEMMA PageBased ==
  ASSUME NEW d, Ready(d), NEW b \in Bits
  PROVE  LET r == PageBase(d, b) IN
         /\ Settled(r, b) /\ r.inverted = d.inverted
         /\ until <= 1 => r.epd.glass = ToneOf(Sent(d, b))
         /\ ~(until <= 1) /\ ~Absolute(d) => r.epd.scrubbed = FALSE
  <1>1. CASE until <= 1
    <2> DEFINE h == DisplayBuffer(d, b, "Half")
    <2>1. /\ Settled(h, b) /\ h.inverted = d.inverted /\ h.epd.new = h.epd.old
          /\ h.epd.glass = ToneOf(Sent(d, b))
      BY Presented
    <2>2. PageBase(d, b) = PreconditionGrayscale(h)
      BY <1>1 DEF PageBase
    <2>. HIDE DEF h
    <2>. QED
      BY <1>1, <2>1, <2>2, Preconditioned
  <1>2. CASE ~(until <= 1)
    BY <1>2, Based DEF PageBase
  <1>. QED
    BY <1>1, <1>2

LEMMA InkSent ==
  ASSUME NEW d, DisplayGood(d), NEW tone \in Tones, ~d.inverted
  PROVE  Sent(d, InkBit(tone)) = InkBit(tone) /\ InkBit(tone) \in Bits
  BY BitsAndTones DEF Sent

LEMMA Grays ==
  ASSUME NEW d, NEW tone \in Tones, Settled(d, InkBit(tone)), ~d.inverted
  PROVE  LET r == DisplayGray(d, tone) IN
         /\ Grayed(r, InkBit(tone))
         /\ d.epd.glass = ToneOf(InkBit(tone)) => r.epd.glass = tone
  <1>1. /\ DisplayGood(d) /\ Idle(d.epd, d.board) /\ d.board \in Boards /\ ~d.inversionDirty
        /\ ~d.epd.first /\ (d.epd.glass = White <=> InkBit(tone) = 1)
    BY InkSent DEF Settled, DisplayGood, Sure, Agrees
  <1> DEFINE e4 == X4!DisplayGray(X4!CopyGrayscaleMsb(X4!CopyGrayscaleLsb(d.epd, LsbBit(tone)), MsbBit(tone)))
             e3 == X3!DisplayGray(X3!CopyGrayscaleMsb(X3!CopyGrayscaleLsb(d.epd, LsbBit(tone)), MsbBit(tone)))
             e  == IF d.board = "X4" THEN e4 ELSE e3
             r  == [d EXCEPT !.epd = e]
  <1>2. DisplayGray(d, tone) = r
    BY DEF DisplayGray
  <1>3. d.board = "X4" => Shaded(e4, d.epd, "X4", tone)
    BY <1>1, X4Shades
  <1>4. d.board = "X3" => Shaded(e3, d.epd, "X3", tone)
    BY <1>1, X3Shades
  <1>. HIDE DEF e4, e3
  <1>5. Shaded(e, d.epd, d.board, tone)
    BY <1>1, <1>3, <1>4 DEF Boards
  <1>. HIDE DEF e
  <1>6. /\ DisplayGood(r) /\ r.board = d.board /\ r.inverted = d.inverted
        /\ r.inversionDirty = d.inversionDirty /\ r.epd = e
    BY <1>1, <1>5, Placed DEF Shaded
  <1>. HIDE DEF r
  <1>7. Grayed(r, InkBit(tone)) /\ (d.epd.glass = ToneOf(InkBit(tone)) => r.epd.glass = tone)
    BY <1>1, <1>5, <1>6, BitsAndTones DEF Grayed, Shaded
  <1>. QED
    BY <1>2, <1>7

\* The resync keeps the image and leaves no gray planes.
LEMMA Cleaned ==
  ASSUME NEW d, NEW b \in Bits, Settled(d, b) \/ Grayed(d, b)
  PROVE  LET r == CleanupGrayscaleBuffers(d, b) IN
         Settled(r, b) /\ r.inverted = d.inverted /\ r.epd.glass = d.epd.glass
  <1>1. /\ DisplayGood(d) /\ Idle(d.epd, d.board) /\ d.board \in Boards /\ ~d.inversionDirty
        /\ ~d.epd.first /\ d.inverted \in BOOLEAN
    BY DEF Settled, Grayed, DisplayGood, Sure
  <1>2. CASE d.inverted
    BY <1>2 DEF CleanupGrayscaleBuffers, Grayed
  <1>3. CASE ~d.inverted
    <2> DEFINE e4 == X4!CleanupGrayscaleBuffers(d.epd, b)
               e3 == X3!CleanupGrayscaleBuffers(d.epd, b)
               e  == IF d.board = "X4" THEN e4 ELSE e3
               r  == [d EXCEPT !.epd = e]
    <2>1. CleanupGrayscaleBuffers(d, b) = r
      BY <1>3 DEF CleanupGrayscaleBuffers
    <2>2. d.board = "X4" => Rebased(e4, d.epd, "X4", b)
      BY <1>1, X4Rebases
    <2>3. d.board = "X3" => Rebased(e3, d.epd, "X3", b)
      BY <1>1, X3Rebases
    <2>. HIDE DEF e4, e3
    <2>4. Rebased(e, d.epd, d.board, b)
      BY <1>1, <2>2, <2>3 DEF Boards
    <2>. HIDE DEF e
    <2>5. /\ DisplayGood(r) /\ r.board = d.board /\ r.inverted = d.inverted
          /\ r.inversionDirty = d.inversionDirty /\ r.epd = e
      BY <1>1, <2>4, Placed DEF Rebased
    <2>. HIDE DEF r
    <2>6. d.epd.glass = White <=> b = 1
      BY <1>3 DEF Settled, Grayed, Agrees, Sent
    <2>7. Settled(r, b) /\ r.epd.glass = d.epd.glass
      BY <1>1, <1>3, <2>4, <2>5, <2>6 DEF Settled, Rebased, Agrees, Sent
    <2>. QED
      BY <2>1, <2>5, <2>7
  <1>. QED
    BY <1>1, <1>2, <1>3

LEMMA Marked ==
  ASSUME NEW d, NEW b \in Bits, NEW dotted \in Bits, Settled(d, b) \/ Grayed(d, b)
  PROVE  LET r == MarkerFrom(d, b, dotted) IN
         Settled(r, dotted) /\ r.inverted = d.inverted /\ r.epd.scrubbed = FALSE
  <1> DEFINE c == CleanupGrayscaleBuffers(d, b)
  <1>1. Settled(c, b) /\ c.inverted = d.inverted
    BY Cleaned
  <1>. HIDE DEF c
  <1>2. Ready(c) /\ ~Absolute(c)
    BY <1>1, SettledReady DEF Settled, Absolute, Sure
  <1>. QED
    BY <1>1, <1>2, Presented DEF MarkerFrom, c
-----------------------------------------------------------------------------
\* Where the gray planes may still be in the RAM, what the glass shows, and
\* that nothing was painted yet only where the start has not been drawn.
PendingInv == pending => screen = "reader" /\ loaded /\ stage = "top"
BlankInv   ==
  asked = Unpainted =>
    /\ Fresh(disp)
    /\ screen = "other" \/ (screen = "reader" /\ stage = "draw" /\ dirty)
ImageInv   ==
  asked # Unpainted =>
    /\ Settled(disp, bit) \/ (pending /\ Grayed(disp, bit))
    /\ asked = White <=> Sent(disp, bit) = 1
    /\ fast = 0 /\ ~panel.dots => disp.epd.glass = asked
    /\ panel = Plain(Menu) => disp.epd.glass = ToneOf(Sent(disp, bit))
PanelInv   ==
  bit \in Bits /\ asked \in Tones \union {Unpainted} /\ ~flashed
    /\ PendingInv /\ BlankInv /\ ImageInv

LEMMA Unpaintable == \A t \in Tones : t # Unpainted
  BY DEF Tones, Unpainted

\* Without gray planes the display is ready, painted or not.
LEMMA PanelReady ==
  ASSUME PanelInv, ~pending
  PROVE  Ready(disp)
  BY SettledReady DEF PanelInv, BlankInv, ImageInv

\* The facts of a frame just shown.
Showing ==
  /\ bit \in Bits /\ asked \in Tones /\ Settled(disp, bit)
  /\ asked = ToneOf(Sent(disp, bit)) /\ disp.epd.glass = asked

LEMMA ShowsFrame ==
  ASSUME NEW d, Ready(d), NEW b \in Bits, NEW mode, Shows(d, b, mode),
         Absolute(d) \/ mode # "Fast" \/ d.inverted \/ d.epd.glass = ToneOf(d.epd.old)
  PROVE  Showing'
  <1> DEFINE r == DisplayBuffer(d, b, mode)
  <1>1. disp' = r /\ bit' = b /\ asked' = ToneOf(Sent(d, b))
    BY DEF Shows
  <1>2. Settled(r, b) /\ r.inverted = d.inverted /\ r.epd.glass = ToneOf(Sent(d, b))
    BY Presented
  <1>. HIDE DEF r
  <1>3. Sent(r, b) = Sent(d, b) /\ Sent(d, b) \in Bits
    BY <1>2, SentBit DEF Sent
  <1>4. ToneOf(Sent(d, b)) \in Tones
    BY <1>3, BitsAndTones
  <1>. QED
    BY <1>1, <1>2, <1>3, <1>4 DEF Showing

LEMMA ShowingKeeps ==
  ASSUME Showing', PendingInv', ~flashed'
  PROVE  PanelInv'
  <1>1. asked' \in Tones /\ asked' # Unpainted
    BY Unpaintable DEF Showing
  <1>2. asked' = White <=> Sent(disp', bit') = 1
    BY SentBit, BitsAndTones DEF Showing
  <1>. QED
    BY <1>1, <1>2 DEF Showing, PanelInv, BlankInv, ImageInv

\* The display after a step that neither paints nor resyncs.
LEMMA QuietKeeps ==
  ASSUME TypeOK, PanelInv, Quiet, UNCHANGED panelVars
  PROVE  PanelInv'
  <1>1. UNCHANGED <<disp, bit, asleep, asked, flashed>>
    BY DEF panelVars
  <1>2. fast' = fast /\ panel' = panel
    BY DEF Quiet, Enter, LeaveUnopened, LeaveChild, NothingToDraw, display
  <1>3. PendingInv' /\ ~pending /\ ~pending'
    BY DEF Quiet, Enter, LeaveUnopened, LeaveChild, NothingToDraw, PanelInv, PendingInv, TypeOK
  <1>4. BlankInv'
    BY <1>1 DEF Quiet, Enter, LeaveUnopened, LeaveChild, NothingToDraw, PanelInv, BlankInv
  <1>5. ImageInv'
    BY <1>1, <1>2, <1>3 DEF PanelInv, ImageInv
  <1>. QED
    BY <1>1, <1>3, <1>4, <1>5 DEF PanelInv

\* A tick resyncs first: the glass keeps its image.
LEMMA TicksKeep ==
  ASSUME TypeOK, PanelInv, Ticks, PanelFlush
  PROVE  PanelInv'
  <1>1. /\ screen = "reader" /\ stage = "top" /\ pending' = FALSE
        /\ fast' = fast /\ panel' = panel
    BY DEF Ticks, Turn, Leave, OpenChapters, Reads, Flush
  <1>2. disp' = Flushed /\ UNCHANGED <<bit, asked, flashed>>
    BY DEF PanelFlush
  <1>3. asked # Unpainted
    BY <1>1 DEF PanelInv, BlankInv
  <1>4. bit \in Bits /\ (Settled(disp, bit) \/ Grayed(disp, bit)) /\ (~pending => Settled(disp, bit))
    BY <1>3 DEF PanelInv, ImageInv
  <1>5. Settled(Flushed, bit) /\ Flushed.inverted = disp.inverted /\ Flushed.epd.glass = disp.epd.glass
    BY <1>4, Cleaned DEF Flushed
  <1>6. Sent(Flushed, bit) = Sent(disp, bit)
    BY <1>5 DEF Sent
  <1>7. ImageInv'
    BY <1>1, <1>2, <1>3, <1>5, <1>6 DEF PanelInv, ImageInv
  <1>. QED
    BY <1>1, <1>2, <1>3, <1>7 DEF PanelInv, PendingInv, BlankInv

\* The marker, whether its dots cover the pixel or not.
LEMMA MarkerKeeps ==
  ASSUME TypeOK, PanelInv, PanelLock
  PROVE  PanelInv'
  <1>1. /\ screen = "reader" /\ stage = "top" /\ fast' = fast
        /\ UNCHANGED <<screen, loaded, stage, pending>>
    BY DEF PanelLock, LockChanges
  <1>2. asked # Unpainted
    BY <1>1 DEF PanelInv, BlankInv
  <1>3. PendingInv'
    BY <1>1 DEF PanelInv, PendingInv
  <1>4. CASE UNCHANGED display /\ dirty' /\ UNCHANGED <<disp, bit, asked, flashed>>
    <2>1. panel' = panel
      BY <1>4 DEF display
    <2>. QED
      BY <1>1, <1>2, <1>3, <1>4, <2>1 DEF PanelInv, BlankInv, ImageInv
  <1>5. CASE PaintsMarker(fb) /\ UNCHANGED dirty /\ Marks
    <2>1. panel'.dots = TRUE /\ Plain(Menu).dots = FALSE
      BY <1>5 DEF PaintsMarker, MarkerOn, TypeOK, Image, Plain
    <2>2. PICK dotted \in {bit, 0} :
            /\ disp' = MarkerFrom(disp, bit, dotted) /\ bit' = dotted
            /\ asked' = IF dotted = bit THEN asked ELSE ToneOf(Sent(disp, dotted))
            /\ flashed' = (flashed \/ (asked # Unpainted /\ MarkerFrom(disp, bit, dotted).epd.scrubbed))
      BY <1>5 DEF Marks
    <2>3. /\ bit \in Bits /\ dotted \in Bits /\ asked \in Tones /\ ~flashed
          /\ Settled(disp, bit) \/ Grayed(disp, bit)
          /\ asked = White <=> Sent(disp, bit) = 1
      BY <1>2, <2>2 DEF PanelInv, ImageInv, Bits
    <2> DEFINE r == MarkerFrom(disp, bit, dotted)
    <2>4. Settled(r, dotted) /\ r.inverted = disp.inverted /\ r.epd.scrubbed = FALSE
      BY <2>3, Marked
    <2>. HIDE DEF r
    <2>5. disp' = r /\ bit' = dotted /\ ~flashed'
      BY <2>2, <2>3, <2>4 DEF r
    <2>6. Sent(r, dotted) = Sent(disp, dotted) /\ Sent(disp, dotted) \in Bits
      BY <2>3, <2>4, SentBit DEF Sent
    <2>7. asked' \in Tones /\ (asked' = White <=> Sent(r, dotted) = 1)
      BY <2>2, <2>3, <2>6, BitsAndTones
    <2>8. asked' # Unpainted
      BY <2>7, Unpaintable
    <2>9. ImageInv'
      BY <2>1, <2>4, <2>5, <2>7 DEF ImageInv
    <2>. QED
      BY <1>3, <2>3, <2>5, <2>7, <2>8, <2>9 DEF PanelInv, BlankInv
  <1>. QED
    BY <1>4, <1>5 DEF PanelLock

\* A page: base, gray planes, and perhaps the marker.
LEMMA PageKeeps ==
  ASSUME TypeOK, PanelInv, DrawPage, pending', panel'.what \in Pages,
         NEW tone \in Tones, DrawsPage(tone)
  PROVE  PanelInv'
  <1> DEFINE b     == InkBit(tone)
             based == PageBase(Flushed, b)
             page1 == DisplayGray(based, tone)
             shown == IF disp.inverted THEN ToneOf(Sent(disp, b)) ELSE tone
             flash == until > 1 /\ asked # Unpainted /\ based.epd.scrubbed
  <1>1. /\ screen = "reader" /\ loaded /\ stage = "draw" /\ stage' = "top"
        /\ UNCHANGED <<screen, loaded>>
    BY DEF DrawPage
  <1>2. ~pending /\ Flushed = disp /\ Ready(disp)
    BY <1>1, PanelReady DEF PanelInv, PendingInv, Flushed
  <1>3. Base /\ fb'.dots = panel'.dots
    BY <1>2 DEF DrawPage, PaintsMarker, Plain, MarkerOn
  <1>4. until <= 1 \/ fast' # 0
    BY <1>3 DEF Base, TypeOK
  <1>5. b \in Bits /\ (b = 1 <=> tone = White) /\ Menu \notin Pages /\ Plain(Menu).what = Menu
    BY BitsAndTones DEF Menu, Pages, Plain
  <1>6. /\ Settled(based, b) /\ based.inverted = disp.inverted
        /\ until <= 1 => based.epd.glass = ToneOf(Sent(disp, b))
        /\ ~(until <= 1) /\ ~Absolute(disp) => based.epd.scrubbed = FALSE
    BY <1>2, <1>5, PageBased
  <1>. HIDE DEF based
  <1>7. asked # Unpainted => ~Absolute(disp)
    BY <1>2 DEF PanelInv, ImageInv, Settled, Absolute, Sure
  <1>8. ~flash
    BY <1>6, <1>7 DEF TypeOK
  <1>9. disp.inverted => page1 = based
    BY <1>6 DEF DisplayGray
  <1>10. ~disp.inverted => Grayed(page1, b) /\ (based.epd.glass = ToneOf(b) => page1.epd.glass = tone)
    BY <1>6, Grays
  <1>. HIDE DEF page1
  <1>11. page1.inverted = disp.inverted
    BY <1>6, <1>9, <1>10 DEF Grayed, Settled, DisplayGood, Ready
  <1>12. Settled(page1, b) \/ Grayed(page1, b)
    BY <1>6, <1>9, <1>10
  <1>13. disp.inverted \in BOOLEAN /\ Sent(page1, b) = Sent(disp, b) /\ Sent(disp, b) \in Bits
         /\ (~disp.inverted => Sent(disp, b) = b)
    BY <1>2, <1>5, <1>11, SentBit DEF Sent, Ready, DisplayGood
  <1>14. shown \in Tones /\ (shown = White <=> Sent(disp, b) = 1)
    BY <1>5, <1>13, BitsAndTones
  <1>15. until <= 1 => page1.epd.glass = shown
    BY <1>6, <1>9, <1>10, <1>13
  <1>. HIDE DEF b, shown, flash
  <1>16. CASE ~fb'.dots
    <2>1. disp' = page1 /\ bit' = b /\ asked' = shown /\ ~flashed'
      BY <1>8, <1>16 DEF DrawsPage, page1, based, b, shown, flash, PanelInv
    <2>2. asked' # Unpainted
      BY <1>14, <2>1, Unpaintable
    <2>3. PendingInv'
      BY <1>1 DEF PendingInv
    <2>4. panel' # Plain(Menu)
      BY <1>5
    <2>5. ImageInv'
      BY <1>4, <1>12, <1>13, <1>14, <1>15, <2>1, <2>4 DEF ImageInv
    <2>. QED
      BY <1>5, <1>14, <2>1, <2>2, <2>3, <2>5 DEF PanelInv, BlankInv
  <1>17. CASE fb'.dots
    <2>1. PICK dotted \in {b, 0} :
            /\ disp' = MarkerFrom(page1, b, dotted) /\ bit' = dotted
            /\ asked' = IF dotted = b THEN shown ELSE ToneOf(Sent(disp, dotted))
            /\ flashed' = (flashed \/ flash \/ disp'.epd.scrubbed)
      BY <1>17 DEF DrawsPage, page1, based, b, shown, flash
    <2> DEFINE r == MarkerFrom(page1, b, dotted)
    <2>2. dotted \in Bits
      BY <1>5 DEF Bits
    <2>3. Settled(r, dotted) /\ r.inverted = disp.inverted /\ r.epd.scrubbed = FALSE
      BY <1>5, <1>11, <1>12, <2>2, Marked
    <2>. HIDE DEF r
    <2>4. disp' = r /\ bit' = dotted /\ ~flashed'
      BY <1>8, <2>1, <2>3 DEF PanelInv, r
    <2>5. Sent(r, dotted) = Sent(disp, dotted) /\ Sent(disp, dotted) \in Bits
      BY <2>2, <2>3, SentBit DEF Sent
    <2>6. asked' \in Tones /\ (asked' = White <=> Sent(r, dotted) = 1)
      BY <1>14, <2>1, <2>5, BitsAndTones
    <2>7. asked' # Unpainted
      BY <2>6, Unpaintable
    <2>8. PendingInv'
      BY <1>1 DEF PendingInv
    <2>9. ImageInv'
      BY <1>3, <1>5, <1>17, <2>3, <2>4, <2>6 DEF ImageInv
    <2>. QED
      BY <2>2, <2>4, <2>6, <2>7, <2>8, <2>9 DEF PanelInv, BlankInv
  <1>. QED
    BY <1>16, <1>17

LEMMA OthersKeep ==
  ASSUME TypeOK, PanelInv, DrawOther, (\E b \in Bits : Shows(disp, b, "Half")), UNCHANGED flashed
  PROVE  PanelInv'
  <1>1. ~pending /\ PendingInv'
    BY DEF DrawOther, PanelInv, PendingInv
  <1>2. PICK b \in Bits : Shows(disp, b, "Half")
    OBVIOUS
  <1>3. Showing'
    BY <1>1, <1>2, PanelReady, ShowsFrame
  <1>. QED
    BY <1>1, <1>3, ShowingKeeps DEF PanelInv

LEMMA DrawKeeps ==
  ASSUME TypeOK, PanelInv, PanelDrawPage
  PROVE  PanelInv'
  <1>1. DrawPage
    BY DEF PanelDrawPage
  <1>2. CASE pending' /\ panel'.what \in Pages
    BY <1>1, <1>2, PageKeeps DEF PanelDrawPage
  <1>3. CASE ~(pending' /\ panel'.what \in Pages)
    <2>1. ~pending /\ PendingInv' /\ ~flashed'
      BY <1>1, <1>3 DEF PanelDrawPage, DrawPage, PanelInv, PendingInv
    <2>2. PICK b \in Bits : Shows(disp, b, "Half")
      BY <1>3 DEF PanelDrawPage
    <2>3. Showing'
      BY <2>1, <2>2, PanelReady, ShowsFrame
    <2>. QED
      BY <2>1, <2>3, ShowingKeeps
  <1>. QED
    BY <1>2, <1>3

\* Painting a menu again: nothing but black and white is on the glass.
LEMMA RepaintKeeps ==
  ASSUME TypeOK, PanelInv, OtherPaints
  PROVE  PanelInv'
  <1>1. screen # "reader" /\ panel = Plain(Menu) /\ UNCHANGED <<screen, stage, loaded, pending, flashed>>
    BY DEF OtherPaints, vars
  <1>2. ~pending /\ PendingInv' /\ ~flashed'
    BY <1>1 DEF PanelInv, PendingInv
  <1>3. PICK b \in Bits, mode \in {"Half", "Fast"} : Shows(disp, b, mode)
    BY DEF OtherPaints
  <1>4. Absolute(disp) \/ disp.epd.glass = ToneOf(disp.epd.old)
    BY <1>1, <1>2 DEF PanelInv, BlankInv, ImageInv, Fresh, Absolute, Settled, Agrees
  <1>5. Showing'
    BY <1>2, <1>3, <1>4, PanelReady, ShowsFrame
  <1>. QED
    BY <1>2, <1>5, ShowingKeeps

\* A change of polarity asks for an absolute refresh.
LEMMA Turned ==
  ASSUME NEW d, DisplayGood(d), ~d.epd.gray, NEW v \in BOOLEAN
  PROVE  LET r == SetInverted(d, v) IN
         DisplayGood(r) /\ ~r.epd.gray /\ r.epd.first = d.epd.first /\ (r = d \/ r.inversionDirty)
  <1>1. CASE d.inverted = v
    BY <1>1 DEF SetInverted
  <1>2. CASE d.inverted # v
    <2> DEFINE e == [d.epd EXCEPT !.dark = v]
               r == [d EXCEPT !.inverted = v, !.inversionDirty = TRUE, !.epd = e]
    <2>1. SetInverted(d, v) = r
      BY <1>2 DEF SetInverted
    <2>2. /\ Idle(e, d.board) /\ e.dark = v /\ e.gray = d.epd.gray /\ e.first = d.epd.first
      BY DEF DisplayGood, Idle, Wired
    <2>. HIDE DEF e
    <2>3. /\ {"board", "epd", "inverted", "inversionDirty"} \subseteq DOMAIN r
          /\ r.board = d.board /\ r.inverted = v /\ r.inversionDirty = TRUE /\ r.epd = e
      BY DEF DisplayGood
    <2>. HIDE DEF r
    <2>4. DisplayGood(r) /\ ~r.epd.gray /\ r.epd.first = d.epd.first /\ r.inversionDirty
      BY <2>2, <2>3 DEF DisplayGood
    <2>. QED
      BY <2>1, <2>4
  <1>. QED
    BY <1>1, <1>2

LEMMA NightKeeps ==
  ASSUME TypeOK, PanelInv, NightMode
  PROVE  PanelInv'
  <1>1. screen = "other" /\ asked # Unpainted /\ UNCHANGED <<screen, stage, loaded, pending, flashed>>
    BY DEF NightMode, vars
  <1>2. ~pending /\ PendingInv' /\ ~flashed'
    BY <1>1 DEF PanelInv, PendingInv
  <1>3. Settled(disp, bit) /\ (~disp.inverted) \in BOOLEAN
    BY <1>1, <1>2 DEF PanelInv, ImageInv
  <1> DEFINE d == SetInverted(disp, ~disp.inverted)
  <1>4. DisplayGood(d) /\ ~d.epd.gray /\ (d = disp \/ d.inversionDirty)
    BY <1>3, Turned DEF Settled
  <1>5. d # disp
    <2>1. d.inverted = ~disp.inverted /\ disp.inverted \in BOOLEAN
      BY <1>3 DEF SetInverted, Settled, DisplayGood
    <2>. QED
      BY <2>1
  <1>6. PICK b \in Bits : Shows(d, b, "Fast")
    BY DEF NightMode
  <1>. HIDE DEF d
  <1>7. Ready(d) /\ Absolute(d)
    BY <1>4, <1>5 DEF Ready, Absolute
  <1>8. Showing'
    BY <1>6, <1>7, ShowsFrame
  <1>. QED
    BY <1>2, <1>8, ShowingKeeps

LEMMA SleepKeeps ==
  ASSUME TypeOK, PanelInv, SleepsWhite
  PROVE  PanelInv'
  <1>1. screen # "reader" /\ UNCHANGED <<screen, stage, loaded, pending, flashed>>
    BY DEF SleepsWhite, vars
  <1>2. ~pending /\ PendingInv' /\ ~flashed'
    BY <1>1 DEF PanelInv, PendingInv
  <1>3. Ready(disp)
    BY <1>2, PanelReady
  <1> DEFINE d == SetInverted(disp, FALSE)
  <1>4. DisplayGood(d) /\ ~d.epd.gray /\ (d = disp \/ d.inversionDirty)
    BY <1>3, Turned DEF Ready
  <1>5. Shows(d, 1, "Full") /\ 1 \in Bits
    BY DEF SleepsWhite, Bits
  <1>. HIDE DEF d
  <1>6. Ready(d)
    BY <1>3, <1>4 DEF Ready, Absolute
  <1>7. Showing'
    BY <1>5, <1>6, ShowsFrame
  <1>. QED
    BY <1>2, <1>7, ShowingKeeps

\* A start: nothing was painted, and the first refresh will be absolute.
LEMMA StartsFresh ==
  ASSUME NEW board \in Boards, NEW glass \in Tones, NEW resync \in BOOLEAN, NEW night \in BOOLEAN
  PROVE  Fresh(SetInverted(Begun(board, glass, resync), night))
  <1> DEFINE d == Begun(board, glass, resync)
             e == Started(glass)
  <1>1. /\ Wired(e) /\ ~e.lsbValid /\ ~e.force /\ ~e.gray /\ e.first /\ e.dark = FALSE
    BY DEF Wired, Started, Tones, Bits
  <1>2. DisplayGood(d) /\ ~d.epd.gray /\ d.epd.first
    <2>1. CASE board = "X4" \/ ~resync
      <3>1. /\ {"board", "epd", "inverted", "inversionDirty"} \subseteq DOMAIN d
            /\ d.board = board /\ d.inverted = FALSE /\ d.inversionDirty = FALSE /\ d.epd = e
        BY <2>1 DEF Begun, X4!RequestResync
      <3>. HIDE DEF d, e
      <3>. QED
        BY <1>1, <3>1 DEF DisplayGood, Idle
    <2>2. CASE ~(board = "X4" \/ ~resync)
      <3> DEFINE f == [e EXCEPT !.force = TRUE]
      <3>1. /\ {"board", "epd", "inverted", "inversionDirty"} \subseteq DOMAIN d
            /\ d.board = board /\ d.inverted = FALSE /\ d.inversionDirty = FALSE /\ d.epd = f
        BY <2>2 DEF Begun, X3!RequestResync
      <3>. HIDE DEF d, e
      <3>2. Wired(f) /\ ~f.lsbValid /\ ~f.gray /\ f.first /\ f.dark = FALSE
        BY <1>1 DEF Wired
      <3>. HIDE DEF f
      <3>. QED
        BY <2>2, <3>1, <3>2 DEF DisplayGood, Idle
    <2>. QED
      BY <2>1, <2>2
  <1>. HIDE DEF d
  <1>. QED
    BY <1>2, Turned DEF Fresh, d

LEMMA StartKeeps ==
  ASSUME TypeOK, PanelInv, PowerLost, PanelStarts
  PROVE  PanelInv'
  <1>1. pending' = FALSE /\ screen' = "other"
    BY DEF PowerLost
  <1>2. PICK resync \in BOOLEAN, night \in BOOLEAN :
          disp' = SetInverted(Begun(disp.board, disp.epd.glass, resync), night)
    BY DEF PanelStarts
  <1>3. bit' \in Bits /\ asked' = Unpainted /\ ~flashed'
    BY DEF PanelStarts, Bits
  <1>4. disp.board \in Boards /\ disp.epd.glass \in Tones
    BY DEF PanelInv, BlankInv, ImageInv, Fresh, Settled, Grayed, DisplayGood, Idle, Wired
  <1>5. Fresh(disp')
    BY <1>2, <1>4, StartsFresh
  <1>. QED
    BY <1>1, <1>3, <1>5 DEF PanelInv, PendingInv, BlankInv, ImageInv

LEMMA PanelStarted ==
  ASSUME PanelInit
  PROVE  PanelInv
  <1>1. ~pending /\ screen = "other"
    BY DEF Init, PanelInit
  <1>2. bit \in Bits /\ asked = Unpainted /\ ~flashed
    BY DEF PanelInit, Bits
  <1>3. Fresh(disp)
    BY StartsFresh DEF PanelInit
  <1>. QED
    BY <1>1, <1>2, <1>3 DEF PanelInv, PendingInv, BlankInv, ImageInv

LEMMA PanelNextKeeps == TypeOK /\ PanelInv /\ [PanelNext]_<<vars, panelVars>> => PanelInv'
  <1> SUFFICES ASSUME TypeOK, PanelInv, [PanelNext]_<<vars, panelVars>>
               PROVE  PanelInv'
    OBVIOUS
  <1>1. CASE Ticks /\ PanelFlush
    BY <1>1, TicksKeep
  <1>2. CASE Quiet /\ UNCHANGED panelVars
    BY <1>2, QuietKeeps
  <1>3. CASE PanelLock
    BY <1>3, MarkerKeeps
  <1>4. CASE PanelDrawPage
    BY <1>4, DrawKeeps
  <1>5. CASE PanelDrawOther
    BY <1>5, OthersKeep DEF PanelDrawOther
  <1>6. CASE OtherPaints
    BY <1>6, RepaintKeeps
  <1>7. CASE NightMode
    BY <1>7, NightKeeps
  <1>8. CASE SleepsWhite
    BY <1>8, SleepKeeps
  <1>9. CASE PowerLost /\ PanelStarts
    BY <1>9, StartKeeps
  <1>10. CASE UNCHANGED <<vars, panelVars>>
    BY <1>10 DEF vars, display, panelVars, PanelInv, PendingInv, BlankInv, ImageInv
  <1>. QED
    BY <1>1, <1>2, <1>3, <1>4, <1>5, <1>6, <1>7, <1>8, <1>9, <1>10 DEF PanelNext, Awake

\* The panel only adds to the reader: what is proved of Reader holds with it.
THEOREM PanelIsReader == PanelSpec => Spec
  <1>1. PanelInit => Init
    BY DEF PanelInit
  <1>2. [PanelNext]_<<vars, panelVars>> => [Next]_vars
    <2> SUFFICES ASSUME PanelNext
                 PROVE  [Next]_vars
      BY DEF vars
    <2>. QED
      BY DEF PanelNext, Awake, Ticks, Quiet, PanelLock, PanelDrawPage, PanelDrawOther,
             OtherPaints, NightMode, SleepsWhite, Next
  <1>. QED
    BY <1>1, <1>2, PTL DEF PanelSpec, Spec

\* For the SSD1677 and the UC8253, every book and every order of clean and fast refreshes,
\* gray planes, markers, night mode and restarts: displayBuffer(),
\* displayGrayscaleBase() and the resync leave on the glass what was asked for.
THEOREM GlassIsRight == PanelSpec => []GlassShowsImage
  <1>1. PanelInit => PanelInv
    BY PanelStarted
  <1>2. PanelInv => GlassShowsImage
    BY DEF PanelInv, ImageInv, Settled, Grayed, Agrees, Sent, GlassShowsImage
  <1>3. PanelSpec => []TypeOK
    BY PanelIsReader, TypeCorrect, PTL
  <1>4. PanelSpec => []PanelInv
    BY <1>1, <1>3, PanelNextKeeps, PTL DEF PanelSpec
  <1>. QED
    BY <1>2, <1>4, PTL
-----------------------------------------------------------------------------
(* The chapter table of a file. *)
(* A row is kept exactly when it names pages of the book, and its chapter is *)
(* those pages.                                                              *)
LEMMA ChapterIsRow ==
  ASSUME NEW row \in TableRows, NEW n \in Nat
  PROVE  /\ Kept(row, n) <=> PagesOf(row, n) # {}
         /\ Kept(row, n) =>
              /\ Chapter(row, n).startPage \in 0 .. n - 1 /\ Chapter(row, n).endPage \in 0 .. n - 1
              /\ Chapter(row, n).startPage .. Chapter(row, n).endPage = PagesOf(row, n)
  <1> DEFINE c == Chapter(row, n)
  <1>0. row.startPage \in Nat /\ row.endPage \in Nat
    BY DEF TableRows
  <1>1. c.startPage = ZeroBased(row.startPage) /\ c.endPage = Clamp(ZeroBased(row.endPage), n)
    BY DEF Chapter
  <1>2. \A p \in 0 .. n - 1 : p \in PagesOf(row, n) <=> c.startPage <= p /\ p <= c.endPage
    BY <1>0, <1>1 DEF PagesOf, ZeroBased, Clamp
  <1>3. Kept(row, n) => c.startPage \in 0 .. n - 1 /\ c.endPage \in 0 .. n - 1 /\ c.startPage <= c.endPage
    BY <1>0, <1>1 DEF Kept, ZeroBased, Clamp
  <1>4. Kept(row, n) => c.startPage .. c.endPage = PagesOf(row, n)
    <2> SUFFICES ASSUME Kept(row, n) PROVE c.startPage .. c.endPage = PagesOf(row, n)
      OBVIOUS
    <2>1. PagesOf(row, n) \subseteq 0 .. n - 1
      BY DEF PagesOf
    <2>2. c.startPage .. c.endPage \subseteq 0 .. n - 1
      BY <1>3
    <2> HIDE DEF c
    <2>3. \A p : p \in PagesOf(row, n) <=> p \in c.startPage .. c.endPage
      BY <1>2, <1>3, <2>1, <2>2
    <2>. QED
      BY <2>3
  <1>5. PagesOf(row, n) # {} => Kept(row, n)
    <2> SUFFICES ASSUME NEW p \in PagesOf(row, n) PROVE Kept(row, n)
      OBVIOUS
    <2>1. p \in 0 .. n - 1 /\ c.startPage <= p /\ p <= c.endPage
      BY <1>2 DEF PagesOf
    <2>. QED
      BY <1>0, <1>1, <2>1 DEF Kept, ZeroBased, Clamp
  <1>6. Kept(row, n) => PagesOf(row, n) # {}
    <2>1. Kept(row, n) => c.startPage \in PagesOf(row, n)
      BY <1>0, <1>1, <1>2, <1>3 DEF ZeroBased, Clamp
    <2>. QED
      BY <2>1
  <1>. QED
    BY <1>3, <1>4, <1>5, <1>6

(* The loop stops somewhere, and has read rows of the file. *)
LEMMA RowsAreRead ==
  ASSUME NEW f \in BookFiles, ChapterCount(f) \in Nat
  PROVE  /\ RowsRead(f) \in Seq(TableRows) /\ Len(RowsRead(f)) <= Len(f.rows)
         /\ \A i \in 1 .. Len(RowsRead(f)) : RowsRead(f)[i] = f.rows[i]
  <1> DEFINE Stops(n) == Goes(f, n) /\ (n = Len(f.rows) \/ ~Goes(f, n + 1))
             Late == {n \in 0 .. Len(f.rows) : n = Len(f.rows) \/ ~Goes(f, n + 1)}
  <1>0. Len(f.rows) \in Nat /\ f.rows \in Seq(TableRows) /\ f.readable \in Nat
    BY DEF BookFiles
  <1>1. Late \subseteq Nat /\ Len(f.rows) \in Late
    BY <1>0
  <1>2. PICK n \in Late : \A m \in Late : n <= m
    <2> HIDE DEF Late
    <2>. QED
      BY <1>1, Smallest
  <1>3. Goes(f, n)
    <2>1. CASE n = 0
      BY <1>0, <2>1 DEF Goes
    <2>2. CASE n # 0
      <3>1. n - 1 \in 0 .. Len(f.rows) /\ ~(n <= n - 1) /\ (n - 1) + 1 = n
        BY <1>0, <1>2, <2>2
      <3>2. n - 1 \notin Late
        <4> HIDE DEF Late
        <4>. QED
          BY <1>2, <3>1
      <3>. QED
        BY <3>1, <3>2
    <2>. QED
      BY <2>1, <2>2
  <1>4. n \in 0 .. Len(f.rows) /\ Stops(n)
    BY <1>2, <1>3
  <1> DEFINE k == CHOOSE x \in 0 .. Len(f.rows) : Stops(x)
  <1>5. k \in 0 .. Len(f.rows)
    <2> HIDE DEF Stops
    <2>. QED
      BY <1>4
  <1>6. RowsRead(f) = SubSeq(f.rows, 1, k)
    BY DEF RowsRead
  <1> HIDE DEF k
  <1>. QED
    BY <1>0, <1>5, <1>6, SubSeqProperties

ChapterRows == [startPage : Nat, endPage : Nat]

(* One round of the loop over the rows. *)
Round(l, row, n) == IF Kept(row, n) THEN Append(l, Chapter(row, n)) ELSE l

(* The list after k rounds. *)
Rounds(g, rows, n, k) ==
  g = [i \in 0 .. k |-> IF i = 0 THEN <<>> ELSE Round(g[i - 1], rows[i], n)]

(* l lists the kept ones of the first k rows, in their order: chapter c is at *)
(* row at[c].                                                                *)
Places(at, l, rows, n, k) ==
  /\ at \in [1 .. Len(l) -> 1 .. k]
  /\ \A c, d \in 1 .. Len(l) : c < d => at[c] < at[d]
  /\ \A c \in 1 .. Len(l) : l[c] = Chapter(rows[at[c]], n)
  /\ \A r \in 1 .. k : Kept(rows[r], n) <=> \E c \in 1 .. Len(l) : at[c] = r
Listed(l, rows, n, k) == l \in Seq(ChapterRows) /\ \E at : Places(at, l, rows, n, k)

(* The loop can be run to any row. *)
LEMMA RoundsExist ==
  ASSUME NEW rows \in Seq(TableRows), NEW n \in Nat, NEW m \in Nat
  PROVE  \E g : Rounds(g, rows, n, m)
  <1> DEFINE Wrong == {k \in Nat : ~\E g : Rounds(g, rows, n, k)}
  <1>1. SUFFICES ASSUME Wrong # {} PROVE FALSE
    OBVIOUS
  <1>2. PICK k \in Wrong : \A j \in Wrong : k <= j
    <2>1. Wrong \subseteq Nat
      OBVIOUS
    <2>. HIDE DEF Wrong
    <2>. QED
      BY <1>1, <2>1, Smallest
  <1>3. k \in Nat /\ k # 0
    <2>1. Rounds([i \in 0 .. 0 |-> <<>>], rows, n, 0)
      BY DEF Rounds
    <2>. QED
      BY <1>2, <2>1
  <1>4. k - 1 \in Nat /\ k - 1 \notin Wrong
    <2> HIDE DEF Wrong
    <2>. QED
      BY <1>2, <1>3
  <1>5. PICK g : Rounds(g, rows, n, k - 1)
    BY <1>4
  <1> DEFINE h == [i \in 0 .. k |-> IF i = k THEN Round(g[k - 1], rows[k], n) ELSE g[i]]
  <1>6. ASSUME NEW i \in 0 .. k
        PROVE  h[i] = IF i = 0 THEN <<>> ELSE Round(h[i - 1], rows[i], n)
    <2>1. CASE i = k
      BY <1>3, <2>1
    <2>2. CASE i # k
      <3>1. i \in 0 .. k - 1 /\ (i # 0 => i - 1 \in 0 .. k - 1)
        BY <1>3, <2>2
      <3>2. g[i] = IF i = 0 THEN <<>> ELSE Round(g[i - 1], rows[i], n)
        BY <1>5, <3>1 DEF Rounds
      <3>3. h[i] = g[i] /\ (i # 0 => h[i - 1] = g[i - 1])
        BY <1>3, <3>1
      <3>. HIDE DEF h
      <3>. QED
        BY <3>2, <3>3
    <2>. QED
      BY <2>1, <2>2
  <1>7. h = [i \in 0 .. k |-> h[i]]
    OBVIOUS
  <1>8. Rounds(h, rows, n, k)
    <2> HIDE DEF h
    <2>. QED
      BY <1>6, <1>7 DEF Rounds
  <1>. QED
    BY <1>2, <1>8

(* A round keeps the list right. *)
LEMMA RoundLists ==
  ASSUME NEW rows \in Seq(TableRows), NEW n \in Nat, NEW k \in 1 .. Len(rows), NEW l,
         Listed(l, rows, n, k - 1)
  PROVE  Listed(Round(l, rows[k], n), rows, n, k)
  <1>1. PICK at :
          /\ at \in [1 .. Len(l) -> 1 .. k - 1]
          /\ \A c, d \in 1 .. Len(l) : c < d => at[c] < at[d]
          /\ \A c \in 1 .. Len(l) : l[c] = Chapter(rows[at[c]], n)
          /\ \A r \in 1 .. k - 1 : Kept(rows[r], n) <=> \E c \in 1 .. Len(l) : at[c] = r
    BY DEF Listed, Places
  <1>2. l \in Seq(ChapterRows) /\ Len(l) \in Nat /\ rows[k] \in TableRows
    BY DEF Listed
  <1>3. CASE ~Kept(rows[k], n)
    <2>1. at \in [1 .. Len(l) -> 1 .. k] /\ \A c \in 1 .. Len(l) : at[c] # k
      <3>1. 1 .. k - 1 \subseteq 1 .. k /\ k \notin 1 .. k - 1
        OBVIOUS
      <3>2. at \in [1 .. Len(l) -> 1 .. k - 1]
        BY <1>1
      <3>. QED
        BY <3>1, <3>2
    <2>2. \A r \in 1 .. k : r = k \/ r \in 1 .. k - 1
      OBVIOUS
    <2>3. \A r \in 1 .. k : Kept(rows[r], n) <=> \E c \in 1 .. Len(l) : at[c] = r
      BY <1>1, <1>3, <2>1, <2>2
    <2>4. Round(l, rows[k], n) = l
      BY <1>3 DEF Round
    <2>5. Places(at, l, rows, n, k)
      BY <1>1, <2>1, <2>3 DEF Places
    <2>. QED
      BY <1>2, <2>4, <2>5 DEF Listed
  <1>4. CASE Kept(rows[k], n)
    <2> DEFINE t == Append(l, Chapter(rows[k], n))
               last == Len(l) + 1
               to == [c \in 1 .. last |-> IF c = last THEN k ELSE at[c]]
    <2>1. Chapter(rows[k], n) \in ChapterRows
      BY <1>2, <1>4, ChapterIsRow DEF Chapter, ChapterRows
    <2>2. /\ t \in Seq(ChapterRows) /\ Len(t) = last /\ t[last] = Chapter(rows[k], n)
          /\ \A c \in 1 .. Len(l) : t[c] = l[c]
      BY <1>2, <2>1
    <2>3. Round(l, rows[k], n) = t
      BY <1>4 DEF Round
    <2>4. /\ to[last] = k /\ \A c \in 1 .. Len(l) : to[c] = at[c] /\ to[c] \in 1 .. k - 1
          /\ \A c \in 1 .. last : c = last \/ c \in 1 .. Len(l)
          /\ last \in 1 .. last /\ \A c \in 1 .. Len(l) : c \in 1 .. last /\ c < last
      <3>1. \A c \in 1 .. last : to[c] = IF c = last THEN k ELSE at[c]
        OBVIOUS
      <3>2. /\ last \in 1 .. last /\ \A c \in 1 .. Len(l) : c \in 1 .. last /\ c < last /\ c # last
            /\ \A c \in 1 .. last : c = last \/ c \in 1 .. Len(l)
        BY <1>2
      <3> HIDE DEF to, last
      <3>3. to[last] = k
        BY <3>1, <3>2
      <3>4. \A c \in 1 .. Len(l) : to[c] = at[c]
        BY <3>1, <3>2
      <3>5. \A c \in 1 .. Len(l) : at[c] \in 1 .. k - 1
        BY <1>1
      <3>. QED
        BY <3>2, <3>3, <3>4, <3>5
    <2>5. to \in [1 .. last -> 1 .. k]
      BY <1>1, <1>2
    <2> HIDE DEF t, to, last
    <2>6. \A c, d \in 1 .. last : c < d => to[c] < to[d]
      <3> SUFFICES ASSUME NEW c \in 1 .. last, NEW d \in 1 .. last, c < d PROVE to[c] < to[d]
        OBVIOUS
      <3>1. c \in 1 .. Len(l)
        BY <1>2, <2>4 DEF last
      <3>2. CASE d = last
        BY <2>4, <3>1, <3>2
      <3>3. CASE d # last
        <4>1. d \in 1 .. Len(l)
          BY <2>4, <3>3
        <4>. QED
          BY <1>1, <2>4, <3>1, <4>1
      <3>. QED
        BY <3>2, <3>3
    <2>7. \A c \in 1 .. last : t[c] = Chapter(rows[to[c]], n)
      BY <1>1, <2>2, <2>4
    <2>8. ASSUME NEW r \in 1 .. k
          PROVE  Kept(rows[r], n) <=> \E c \in 1 .. last : to[c] = r
      <3>1. CASE r = k
        BY <1>4, <2>4, <3>1
      <3>2. CASE r # k
        <4>1. r \in 1 .. k - 1
          BY <3>2
        <4>2. (\E c \in 1 .. last : to[c] = r) <=> \E c \in 1 .. Len(l) : at[c] = r
          BY <2>4, <3>2
        <4>. QED
          BY <1>1, <4>1, <4>2
      <3>. QED
        BY <3>1, <3>2
    <2>9. Places(to, t, rows, n, k)
      BY <2>2, <2>5, <2>6, <2>7, <2>8 DEF Places
    <2>. QED
      BY <2>2, <2>3, <2>9 DEF Listed
  <1>. QED
    BY <1>3, <1>4

(* So it is right after every round. *)
LEMMA RoundsList ==
  ASSUME NEW rows \in Seq(TableRows), NEW n \in Nat, NEW g, Rounds(g, rows, n, Len(rows))
  PROVE  Listed(g[Len(rows)], rows, n, Len(rows))
  <1> DEFINE Wrong == {k \in 0 .. Len(rows) : ~Listed(g[k], rows, n, k)}
  <1>0. Len(rows) \in Nat
    OBVIOUS
  <1>1. SUFFICES ASSUME Wrong # {} PROVE FALSE
    BY <1>0
  <1>2. PICK k \in Wrong : \A j \in Wrong : k <= j
    <2>1. Wrong \subseteq Nat
      BY <1>0
    <2>. HIDE DEF Wrong
    <2>. QED
      BY <1>1, <2>1, Smallest
  <1>3. k \in 0 .. Len(rows) /\ ~Listed(g[k], rows, n, k)
    BY <1>2
  <1>4. k # 0
    <2>1. g[0] = <<>>
      BY <1>0 DEF Rounds
    <2>2. Listed(<<>>, rows, n, 0)
      <3>1. PICK e : e = <<>>
        OBVIOUS
      <3>2. e \in [1 .. 0 -> 1 .. 0] /\ e \in Seq(ChapterRows) /\ Len(e) = 0
        BY <3>1
      <3>3. Places(e, e, rows, n, 0)
        BY <3>2 DEF Places
      <3>. QED
        BY <3>1, <3>2, <3>3 DEF Listed
    <2>. QED
      BY <1>3, <2>1, <2>2
  <1>5. k \in 1 .. Len(rows) /\ k - 1 \in 0 .. Len(rows) /\ k - 1 \notin Wrong
    <2> HIDE DEF Wrong
    <2>. QED
      BY <1>0, <1>2, <1>3, <1>4
  <1>6. g[k] = Round(g[k - 1], rows[k], n)
    BY <1>3, <1>4 DEF Rounds
  <1>7. Listed(g[k - 1], rows, n, k - 1)
    BY <1>5
  <1>. QED
    BY <1>3, <1>5, <1>6, <1>7, RoundLists

(* Where the table can be one of the book, the chapters are the rows read that *)
(* name pages of it: each with those pages, all of them, in the order of the   *)
(* table.                                                                      *)
LEMMA TableIsListed ==
  ASSUME NEW f \in BookFiles, TableAvailable(f), ChapterCount(f) \in 1 .. f.pageCount
  PROVE  LET l == Chapters(f)
             read == Len(RowsRead(f))
         IN  /\ l \in Seq(ChapterRows)
             /\ \E at \in [1 .. Len(l) -> 1 .. read] :
               /\ \A c, d \in 1 .. Len(l) : c < d => at[c] < at[d]
               /\ \A c \in 1 .. Len(l) :
                    /\ l[c].startPage \in 0 .. f.pageCount - 1
                    /\ l[c].endPage \in 0 .. f.pageCount - 1
                    /\ l[c].startPage .. l[c].endPage = PagesOf(f.rows[at[c]], f.pageCount)
               /\ \A r \in 1 .. read :
                    PagesOf(f.rows[r], f.pageCount) # {} <=> \E c \in 1 .. Len(l) : at[c] = r
  <1> DEFINE l == Chapters(f)
             rows == RowsRead(f)
             n == f.pageCount
             list == CHOOSE g : Rounds(g, rows, n, Len(rows))
  <1>1. n \in Nat /\ ChapterCount(f) \in 1 .. n /\ f.rows \in Seq(TableRows)
    BY DEF BookFiles
  <1>2. /\ rows \in Seq(TableRows) /\ Len(rows) \in Nat /\ Len(rows) <= Len(f.rows)
        /\ \A i \in 1 .. Len(rows) : rows[i] = f.rows[i]
    BY <1>1, RowsAreRead
  <1>3. l = list[Len(rows)]
    BY DEF Chapters, Rounds, Round
  <1>4. Rounds(list, rows, n, Len(rows))
    <2>1. \E g : Rounds(g, rows, n, Len(rows))
      BY <1>1, <1>2, RoundsExist
    <2>. QED
      BY <2>1
  <1>5. Listed(l, rows, n, Len(rows))
    <2> HIDE DEF list, l, rows, n
    <2>. QED
      BY <1>1, <1>2, <1>3, <1>4, RoundsList
  <1>6. PICK at : Places(at, l, rows, n, Len(rows))
    BY <1>5 DEF Listed
  <1> HIDE DEF l, rows, n, list
  <1>7. at \in [1 .. Len(l) -> 1 .. Len(rows)]
    BY <1>6 DEF Places
  <1>8. \A c, d \in 1 .. Len(l) : c < d => at[c] < at[d]
    BY <1>6 DEF Places
  <1>9. ASSUME NEW c \in 1 .. Len(l)
        PROVE  /\ l[c].startPage \in 0 .. n - 1 /\ l[c].endPage \in 0 .. n - 1
               /\ l[c].startPage .. l[c].endPage = PagesOf(f.rows[at[c]], n)
    <2>1. at[c] \in 1 .. Len(rows) /\ l[c] = Chapter(rows[at[c]], n)
      BY <1>6 DEF Places
    <2>2. Kept(rows[at[c]], n)
      BY <1>6, <2>1 DEF Places
    <2>3. rows[at[c]] \in TableRows /\ rows[at[c]] = f.rows[at[c]]
      BY <1>2, <2>1
    <2>. QED
      BY <1>1, <2>1, <2>2, <2>3, ChapterIsRow
  <1>10. ASSUME NEW r \in 1 .. Len(rows)
         PROVE  PagesOf(f.rows[r], n) # {} <=> \E c \in 1 .. Len(l) : at[c] = r
    <2>1. rows[r] \in TableRows /\ rows[r] = f.rows[r]
      BY <1>2
    <2>2. Kept(rows[r], n) <=> PagesOf(rows[r], n) # {}
      BY <1>1, <2>1, ChapterIsRow
    <2>. QED
      BY <1>6, <2>1, <2>2 DEF Places
  <1>11. l \in Seq(ChapterRows)
    BY <1>5 DEF Listed
  <1>. QED
    BY <1>7, <1>8, <1>9, <1>10, <1>11 DEF l, rows, n

(* A plain table can be one of the book, and holds a chapter at least. *)
LEMMA PlainIsTable ==
  ASSUME NEW f \in BookFiles, PlainTable(f)
  PROVE  TableAvailable(f) /\ ChapterCount(f) \in 1 .. f.pageCount
  <1>1. PICK n \in 1 .. f.pageCount : f.pageTableOffset = f.chapterOffset + n * kChapterEntry
    BY DEF PlainTable
  <1>2. /\ f.size \in Nat /\ f.pageCount \in Nat /\ f.chapterOffset \in Nat
        /\ f.pageTableOffset \in Nat /\ n \in Nat /\ n >= 1
    BY <1>1 DEF BookFiles
  <1>3. MaxOffset(f) = f.pageTableOffset
    BY <1>1, <1>2 DEF PlainTable, MaxOffset, kChapterEntry
  <1>4. ChapterCount(f) = n
    BY <1>1, <1>2, <1>3 DEF ChapterCount, kChapterEntry
  <1>5. TableAvailable(f)
    BY <1>1, <1>2 DEF PlainTable, TableAvailable, kChapterEntry, kHeader
  <1>. QED
    BY <1>1, <1>4, <1>5

\* Whatever a file holds, what readChapters() lists is made of exactly the rows it
\* read that name pages of the book, in their order, with pages there are.
THEOREM ChaptersAreTheRows ==
  ASSUME NEW f \in BookFiles
  PROVE  /\ ListsRows(f)
         /\ Chapters(f) \in Seq(ChapterRows)
         /\ \A c \in 1 .. Len(Chapters(f)) :
              /\ Chapters(f)[c].startPage \in 0 .. f.pageCount - 1
              /\ Chapters(f)[c].endPage \in 0 .. f.pageCount - 1
  <1>1. CASE TableAvailable(f) /\ ChapterCount(f) \in 1 .. f.pageCount
    <2> DEFINE l == Chapters(f)
               read == Len(RowsRead(f))
    <2>1. /\ l \in Seq(ChapterRows)
          /\ \E at \in [1 .. Len(l) -> 1 .. read] :
               /\ \A c, d \in 1 .. Len(l) : c < d => at[c] < at[d]
               /\ \A c \in 1 .. Len(l) :
                    /\ l[c].startPage \in 0 .. f.pageCount - 1
                    /\ l[c].endPage \in 0 .. f.pageCount - 1
                    /\ l[c].startPage .. l[c].endPage = PagesOf(f.rows[at[c]], f.pageCount)
               /\ \A r \in 1 .. read :
                    PagesOf(f.rows[r], f.pageCount) # {} <=> \E c \in 1 .. Len(l) : at[c] = r
      BY <1>1, TableIsListed
    <2> HIDE DEF l, read
    <2>2. \A c \in 1 .. Len(l) :
            l[c].startPage \in 0 .. f.pageCount - 1 /\ l[c].endPage \in 0 .. f.pageCount - 1
      BY <2>1
    <2>3. \E at \in [1 .. Len(l) -> 1 .. read] :
            /\ \A c, d \in 1 .. Len(l) : c < d => at[c] < at[d]
            /\ \A c \in 1 .. Len(l) :
                 l[c].startPage .. l[c].endPage = PagesOf(f.rows[at[c]], f.pageCount)
            /\ \A r \in 1 .. read :
                 PagesOf(f.rows[r], f.pageCount) # {} <=> \E c \in 1 .. Len(l) : at[c] = r
      BY <2>1
    <2>. QED
      BY <2>1, <2>2, <2>3 DEF ListsRows, l, read
  <1>2. CASE ~(TableAvailable(f) /\ ChapterCount(f) \in 1 .. f.pageCount)
    <2>1. Chapters(f) = <<>> /\ ~PlainTable(f)
      BY <1>2, PlainIsTable DEF Chapters
    <2>2. ListsRows(f)
      BY <2>1 DEF ListsRows
    <2>. QED
      BY <2>1, <2>2
  <1>. QED
    BY <1>1, <1>2

(* The chapter list opens at the first chapter the reader is in, or at "Go to *)
(* page" when it is in none; a page typed there is one of the book.           *)
THEOREM ListOpensInBook ==
  ASSUME NEW l \in Seq(ChapterRows), NEW at \in Nat, NEW n \in Nat \ {0}, NEW typed \in Int
  PROVE  /\ OpensAt(l, at) \in 0 .. Len(l)
         /\ OpensAt(l, at) # 0 => Covers(l[OpensAt(l, at)], at)
         /\ \A j \in 1 .. Len(l) : Covers(l[j], at) => OpensAt(l, at) \in 1 .. j
         /\ JumpTarget(typed, n) \in 0 .. n - 1
  <1> DEFINE in == {i \in DOMAIN l : Covers(l[i], at)}
  <1>0. DOMAIN l = 1 .. Len(l) /\ Len(l) \in Nat
    OBVIOUS
  <1>1. in \subseteq Nat /\ in \subseteq 1 .. Len(l)
    BY <1>0
  <1>2. JumpTarget(typed, n) \in 0 .. n - 1
    BY DEF JumpTarget
  <1>3. CASE in = {}
    <2>1. OpensAt(l, at) = 0
      BY <1>3 DEF OpensAt
    <2>. QED
      BY <1>0, <1>2, <1>3, <2>1
  <1>4. CASE in # {}
    <2>1. OpensAt(l, at) = CHOOSE i \in in : \A j \in in : i <= j
      BY <1>4 DEF OpensAt
    <2>2. OpensAt(l, at) \in in /\ \A j \in in : OpensAt(l, at) <= j
      <3> HIDE DEF in
      <3>1. \E i \in in : \A j \in in : i <= j
        BY <1>1, <1>4, Smallest
      <3>. QED
        BY <2>1, <3>1
    <2>. QED
      BY <1>0, <1>1, <1>2, <2>2
  <1>. QED
    BY <1>3, <1>4

\* The files of the book agree with its page count, so the list and the page jump
\* offer pages of the book only.
LEMMA ListsInBook ==
  ASSUME NEW l \in Lists
  PROVE  /\ l \in Seq(ChapterRows)
         /\ \A c \in DOMAIN l : l[c].startPage \in Pages /\ l[c].endPage \in Pages
  <1>1. PICK f \in Books : l = Chapters(f)
    BY DEF Lists
  <1>2. f \in BookFiles /\ f.pageCount = PageCount
    BY BooksAssumption
  <1>3. /\ l \in Seq(ChapterRows)
        /\ \A c \in 1 .. Len(l) :
             l[c].startPage \in 0 .. PageCount - 1 /\ l[c].endPage \in 0 .. PageCount - 1
    BY <1>1, <1>2, ChaptersAreTheRows
  <1>4. DOMAIN l = 1 .. Len(l)
    BY <1>3
  <1>. QED
    BY <1>3, <1>4 DEF Pages

LEMMA OfferedInBook == Offered \subseteq Pages
  <1>1. \A l \in Lists : {l[c].startPage : c \in DOMAIN l} \subseteq Pages
    BY ListsInBook
  <1>2. \A typed \in 0 .. 10 * PageCount : JumpTarget(typed, PageCount) \in Pages
    BY DEF JumpTarget, Pages
  <1>. QED
    BY <1>1, <1>2 DEF Offered

\* Whatever files the book may be in, and wherever the reader is: the chapter list
\* shows what the rows describe, opens at the reader's chapter, and leads into the
\* book.
THEOREM ChaptersStayInBook == Spec => []ChaptersInBook
  <1>1. ListsRight
    BY BooksAssumption, ChaptersAreTheRows DEF ListsRight
  <1>2. TypeOK => ChaptersInBook
    <2> SUFFICES ASSUME TypeOK, NEW l \in Lists
                 PROVE  LET i == OpensAt(l, page) IN
                        /\ i # 0 => Covers(l[i], page)
                        /\ \A j \in DOMAIN l : Covers(l[j], page) => i \in 1 .. j
      BY <1>1, OfferedInBook, ListsInBook DEF ChaptersInBook
    <2>1. l \in Seq(ChapterRows) /\ DOMAIN l = 1 .. Len(l)
      BY ListsInBook
    <2>2. page \in Nat
      BY PagesReal DEF TypeOK
    <2>. QED
      BY <2>1, <2>2, ListOpensInBook, 0 \in Int, PageCount \in Nat \ {0}
  <1>. QED
    BY <1>2, TypeCorrect, PTL
=============================================================================
