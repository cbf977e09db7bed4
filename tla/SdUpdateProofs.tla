--------------------------- MODULE SdUpdateProofs ---------------------------
(***************************************************************************)
(* SdUpdate for every partition size, block size, set of images and        *)
(* sequence bound, and whatever files the card holds: inspect() accepts    *)
(* the images for the device and no more, so the device always boots, the  *)
(* running image is never touched, a flash that reports success boots the  *)
(* new image, and an update is atomic.                                     *)
(***************************************************************************)
EXTENDS SdUpdate, WellFoundedInduction, TLAPS

-----------------------------------------------------------------------------

(* A set of numbers has a least element. *)
LEMMA Smallest ==
  ASSUME NEW S, S \subseteq Nat, S # {}
  PROVE  \E x \in S : \A y \in S : x <= y
  <1> DEFINE Before == {ss \in Nat \X Nat : ss[1] < ss[2]}
  <1>1. IsWellFoundedOn(Before, Nat)
    BY NatLessThanWellFounded DEF OpToRel
  <1>2. PICK x \in S : \A y \in S : ~(<<y, x>> \in Before)
    <2> HIDE DEF Before
    <2>. QED
      BY <1>1, WFMin
  <1>3. ASSUME NEW y \in S
        PROVE  x <= y
    <2>1. x \in Nat /\ y \in Nat /\ <<y, x>> \in Nat \X Nat
      OBVIOUS
    <2>2. ~(y < x)
      BY <1>2, <2>1
    <2>. QED
      BY <2>1, <2>2
  <1>. QED
    BY <1>3

(* The sizes of header and segments, summed up to each segment. *)
Sums(g, s) ==
  g = [i \in 0 .. Len(s) |-> IF i = 0 THEN kHeader ELSE g[i - 1] + kSegHeader + s[i]]
SumsTo(g, s, n) ==
  g = [i \in 0 .. n |-> IF i = 0 THEN kHeader ELSE g[i - 1] + kSegHeader + s[i]]

(* Such sums exist for every sequence of segments, up to each of them. *)
LEMMA SumsExist ==
  ASSUME NEW s \in Seq(Nat), NEW n \in 0 .. Len(s)
  PROVE  \E g \in [0 .. n -> Nat] : SumsTo(g, s, n)
  <1> DEFINE Wrong == {k \in 0 .. Len(s) : ~\E g \in [0 .. k -> Nat] : SumsTo(g, s, k)}
  <1>1. SUFFICES ASSUME Wrong # {} PROVE FALSE
    OBVIOUS
  <1>2. Wrong \subseteq Nat
    OBVIOUS
  <1>3. PICK k \in Wrong : \A m \in Wrong : k <= m
    BY <1>1, <1>2, Smallest
  <1>4. k # 0
    <2>1. [i \in 0 .. 0 |-> kHeader] \in [0 .. 0 -> Nat]
      BY DEF kHeader
    <2>2. SumsTo([i \in 0 .. 0 |-> kHeader], s, 0)
      BY DEF SumsTo
    <2>. QED
      BY <2>1, <2>2
  <1>5. k - 1 \in 0 .. Len(s) /\ k - 1 \notin Wrong
    <2>1. k \in 0 .. Len(s) /\ Wrong \subseteq Nat
      BY <1>2
    <2>. HIDE DEF Wrong
    <2>. QED
      BY <1>3, <1>4, <2>1
  <1>6. PICK g \in [0 .. k - 1 -> Nat] : SumsTo(g, s, k - 1)
    BY <1>5
  <1> DEFINE h == [i \in 0 .. k |-> IF i = k THEN g[k - 1] + kSegHeader + s[k] ELSE g[i]]
  <1>7. h \in [0 .. k -> Nat]
    BY <1>3, <1>4 DEF kSegHeader
  <1>8. SumsTo(h, s, k)
    <2>1. ASSUME NEW i \in 0 .. k
          PROVE  h[i] = IF i = 0 THEN kHeader ELSE h[i - 1] + kSegHeader + s[i]
      <3>1. g = [x \in 0 .. k - 1 |-> IF x = 0 THEN kHeader ELSE g[x - 1] + kSegHeader + s[x]]
        BY <1>6 DEF SumsTo
      <3>2. CASE i = k
        BY <1>3, <1>4, <3>2
      <3>3. CASE i # k
        <4>1. i \in 0 .. k - 1 /\ (i # 0 => i - 1 \in 0 .. k - 1)
          BY <3>3
        <4>2. g[i] = IF i = 0 THEN kHeader ELSE g[i - 1] + kSegHeader + s[i]
          BY <3>1, <4>1
        <4>3. h[i] = g[i] /\ (i # 0 => h[i - 1] = g[i - 1])
          BY <4>1
        <4>. QED
          BY <4>2, <4>3
      <3>. QED
        BY <3>2, <3>3
    <2>2. h = [i \in 0 .. k |-> h[i]]
      OBVIOUS
    <2>. HIDE DEF h
    <2>. QED
      BY <2>1, <2>2 DEF SumsTo
  <1>. QED
    BY <1>3, <1>7, <1>8

(* There is one way to sum. *)
LEMMA SumsAgree ==
  ASSUME NEW s \in Seq(Nat), NEW g, NEW h, Sums(g, s), Sums(h, s)
  PROVE  \A i \in 0 .. Len(s) : g[i] = h[i]
  <1> DEFINE Wrong == {i \in 0 .. Len(s) : g[i] # h[i]}
  <1>1. SUFFICES ASSUME Wrong # {} PROVE FALSE
    OBVIOUS
  <1>2. PICK k \in Wrong : \A m \in Wrong : k <= m
    <2>1. Wrong \subseteq Nat
      OBVIOUS
    <2>. HIDE DEF Wrong
    <2>. QED
      BY <1>1, <2>1, Smallest
  <1>3. k # 0
    BY <1>2 DEF Sums
  <1>4. k - 1 \in 0 .. Len(s) /\ k - 1 \notin Wrong
    <2>1. k \in 0 .. Len(s) /\ Wrong \subseteq Nat
      BY <1>2
    <2>. HIDE DEF Wrong
    <2>. QED
      BY <1>2, <1>3, <2>1
  <1>5. g[k] = g[k - 1] + kSegHeader + s[k] /\ h[k] = h[k - 1] + kSegHeader + s[k]
    <2>1. k \in 0 .. Len(s)
      BY <1>2
    <2>. HIDE DEF Wrong
    <2>. QED
      BY <2>1, <1>3 DEF Sums
  <1>. QED
    BY <1>2, <1>4, <1>5

(* Body is the last of the sums. *)
LEMMA BodyIsSum ==
  ASSUME NEW s \in Seq(Nat)
  PROVE  \E g \in [0 .. Len(s) -> Nat] : Sums(g, s) /\ Body(s) = g[Len(s)]
  <1>1. PICK g \in [0 .. Len(s) -> Nat] : Sums(g, s)
    <2>1. Len(s) \in 0 .. Len(s)
      OBVIOUS
    <2>. QED
      BY <2>1, SumsExist DEF Sums, SumsTo
  <1> DEFINE sum == CHOOSE x : Sums(x, s)
  <1>2. Sums(sum, s)
    BY <1>1
  <1>3. Body(s) = sum[Len(s)]
    BY DEF Body, Sums
  <1>. QED
    BY <1>1, <1>2, <1>3, SumsAgree

(* inspect()'s loop over the segments: where each of them ends, if it does. *)
Ends(e, f) ==
  e = [i \in 0 .. Len(f.segments) |->
         IF i = 0 THEN kHeader ELSE SegmentEnd(f, e[i - 1], f.segments[i])]

(* The loop can be no other. *)
LEMMA EndsAgree ==
  ASSUME NEW f \in Files, NEW e, NEW h, Ends(e, f), Ends(h, f)
  PROVE  \A i \in 0 .. Len(f.segments) : e[i] = h[i]
  <1> DEFINE Wrong == {i \in 0 .. Len(f.segments) : e[i] # h[i]}
  <1>0. Len(f.segments) \in Nat
    BY DEF Files
  <1>1. SUFFICES ASSUME Wrong # {} PROVE FALSE
    OBVIOUS
  <1>2. PICK k \in Wrong : \A m \in Wrong : k <= m
    <2>1. Wrong \subseteq Nat
      BY <1>0
    <2>. HIDE DEF Wrong
    <2>. QED
      BY <1>1, <2>1, Smallest
  <1>3. k # 0
    BY <1>0, <1>2 DEF Ends
  <1>4. k - 1 \in 0 .. Len(f.segments) /\ k - 1 \notin Wrong
    <2>1. k \in 0 .. Len(f.segments) /\ Wrong \subseteq Nat
      BY <1>0, <1>2
    <2>. HIDE DEF Wrong
    <2>. QED
      BY <1>0, <1>2, <1>3, <2>1
  <1>5. /\ e[k] = SegmentEnd(f, e[k - 1], f.segments[k])
        /\ h[k] = SegmentEnd(f, h[k - 1], f.segments[k])
    <2>1. k \in 0 .. Len(f.segments)
      BY <1>2
    <2>. HIDE DEF Wrong
    <2>. QED
      BY <1>0, <1>3, <2>1 DEF Ends
  <1>6. e[k - 1] = h[k - 1]
    BY <1>4
  <1>. QED
    BY <1>2, <1>5, <1>6

(* The wrap changes nothing: a segment ends where its bytes do, or cannot be *)
(* read.                                                                     *)
LEMMA SegmentFits ==
  ASSUME NEW f \in Files, NEW at \in Nat, NEW n \in Nat
  PROVE  SegmentEnd(f, at, n) = IF at + kSegHeader + n <= f.size THEN at + kSegHeader + n ELSE NoEnd
  <1>1. f.size \in Nat
    BY DEF Files
  <1>2. (at + kSegHeader + n) % Word <= at + kSegHeader + n
    <2>1. at + kSegHeader + n \in Nat
      BY DEF kSegHeader
    <2>2. \A x \in Nat : x % Word <= x
      BY WordAssumption
    <2>. QED
      BY <2>1, <2>2
  <1>3. (at + kSegHeader + n) % Word \in Nat
    BY WordAssumption DEF kSegHeader
  <1>. QED
    BY <1>1, <1>2, <1>3 DEF SegmentEnd, kSegHeader, NoEnd

(* The loop ends where the body does, or cannot read it. *)
LEMMA SegmentsFit ==
  ASSUME NEW f \in Files, Len(f.segments) # 0
  PROVE  /\ Body(f.segments) \in Nat
         /\ SegmentsEnd(f) = IF Body(f.segments) <= f.size THEN Body(f.segments) ELSE NoEnd
  <1> DEFINE s == f.segments
  <1>1. s \in Seq(Nat) /\ Len(s) \in Nat \ {0} /\ f.size \in Nat
    BY DEF Files
  <1>2. PICK g \in [0 .. Len(s) -> Nat] : Sums(g, s) /\ Body(s) = g[Len(s)]
    BY <1>1, BodyIsSum
  <1> DEFINE e == [i \in 0 .. Len(s) |->
                     IF i = 0 THEN kHeader ELSE IF g[i] <= f.size THEN g[i] ELSE NoEnd]
  <1>3. Ends(e, f)
    <2>1. ASSUME NEW i \in 0 .. Len(s)
          PROVE  e[i] = IF i = 0 THEN kHeader ELSE SegmentEnd(f, e[i - 1], s[i])
      <3>1. CASE i = 0
        BY <3>1
      <3>2. CASE i # 0
        <4>1. i - 1 \in 0 .. Len(s) /\ i \in 1 .. Len(s) /\ s[i] \in Nat
          BY <1>1, <3>2
        <4>2. g[i] = g[i - 1] + kSegHeader + s[i] /\ g[0] = kHeader
          <5>1. g = [x \in 0 .. Len(s) |-> IF x = 0 THEN kHeader ELSE g[x - 1] + kSegHeader + s[x]]
            BY <1>2 DEF Sums
          <5>2. 0 \in 0 .. Len(s)
            BY <1>1
          <5>. HIDE DEF s
          <5>. QED
            BY <3>2, <5>1, <5>2
        <4>3. e[i] = IF g[i] <= f.size THEN g[i] ELSE NoEnd
          BY <3>2
        <4>4. g[i - 1] \in Nat /\ g[i] \in Nat
          BY <1>2, <4>1
        <4>5. CASE e[i - 1] = NoEnd
          <5>1. i - 1 # 0 /\ ~(g[i - 1] <= f.size)
            BY <4>1, <4>4, <4>5 DEF NoEnd, kHeader
          <5>2. ~(g[i] <= f.size)
            BY <1>1, <4>1, <4>2, <4>4, <5>1 DEF kSegHeader
          <5>. QED
            BY <3>2, <4>3, <4>5, <5>2 DEF SegmentEnd
        <4>6. CASE e[i - 1] # NoEnd
          <5>1. e[i - 1] = g[i - 1]
            BY <4>1, <4>2, <4>6
          <5>2. SegmentEnd(f, g[i - 1], s[i]) = IF g[i] <= f.size THEN g[i] ELSE NoEnd
            BY <4>1, <4>2, <4>4, SegmentFits
          <5>. QED
            BY <3>2, <4>3, <5>1, <5>2
        <4>. QED
          BY <4>5, <4>6
      <3>. QED
        BY <3>1, <3>2
    <2>2. e = [i \in 0 .. Len(s) |-> e[i]]
      OBVIOUS
    <2>. HIDE DEF e
    <2>. QED
      BY <2>1, <2>2 DEF Ends
  <1> DEFINE end == CHOOSE x : Ends(x, f)
  <1>4. Ends(end, f)
    BY <1>3
  <1>5. SegmentsEnd(f) = end[Len(s)]
    BY DEF SegmentsEnd, Ends
  <1>6. end[Len(s)] = e[Len(s)]
    <2>1. Len(s) \in 0 .. Len(s)
      BY <1>1
    <2>. HIDE DEF e, end
    <2>. QED
      BY <1>3, <1>4, <2>1, EndsAgree
  <1>. QED
    BY <1>1, <1>2, <1>5, <1>6

(* (pos + 16) & ~15 is the one multiple of 16 among the next 16 numbers. *)
LEMMA PadIsNext ==
  ASSUME NEW n \in Nat
  PROVE  PadEnd(n) = CHOOSE m \in n + 1 .. n + 16 : m % 16 = 0
  <1>1. PadEnd(n) \in n + 1 .. n + 16 /\ PadEnd(n) % 16 = 0
    BY DEF PadEnd
  <1>2. \A m \in n + 1 .. n + 16 : m % 16 = 0 => m = PadEnd(n)
    BY DEF PadEnd
  <1>. QED
    BY <1>1, <1>2

(* inspect() lets exactly the whole images for this device through to flash(): *)
(* the check of a segment's length that wraps, and the padding, let no other    *)
(* file pass and refuse no image.                                               *)
THEOREM InspectAcceptsImages ==
  ASSUME NEW f \in Files
  PROVE  Accepts(f) <=> /\ WholeImage(f)
                        /\ f.size >= MinBytes
                        /\ ChipKnown => f.chip = DeviceChip
  <1> DEFINE s == f.segments
  <1>1. SUFFICES ASSUME Len(s) \in 1 .. kMaxSegments
                 PROVE  /\ SegmentsEnd(f) # NoEnd
                        /\ f.size = PadEnd(SegmentsEnd(f)) + (IF f.hashAppended THEN kShaTrailer ELSE 0)
                     <=> f.size = ImageBytes(s, f.hashAppended)
    BY DEF Accepts, HeaderAccepted, WholeImage
  <1>2. f.size \in Nat /\ Body(s) \in Nat
        /\ SegmentsEnd(f) = IF Body(s) <= f.size THEN Body(s) ELSE NoEnd
    BY <1>1, SegmentsFit DEF Files
  <1>3. ImageBytes(s, f.hashAppended) = PadEnd(Body(s)) + (IF f.hashAppended THEN kShaTrailer ELSE 0)
    BY <1>2, PadIsNext DEF ImageBytes
  <1>4. PadEnd(Body(s)) >= Body(s) /\ PadEnd(Body(s)) \in Nat
    BY <1>2 DEF PadEnd
  <1>5. CASE Body(s) <= f.size
    BY <1>2, <1>3, <1>5 DEF NoEnd
  <1>6. CASE ~(Body(s) <= f.size)
    BY <1>2, <1>3, <1>4, <1>6 DEF kShaTrailer
  <1>. QED
    BY <1>5, <1>6

\* What inspect() accepts, the bootloader starts: its checks imply the bootloader's.
LEMMA AcceptedBoots ==
  ASSUME NEW v \in Versions, Accepts(FileOf[v]), ChipKnown
  PROVE  v \in Images
  <1>1. FileOf[v] \in Files
    BY VersionsAssumption
  <1>2. WholeImage(FileOf[v]) /\ FileOf[v].chip = DeviceChip
    BY <1>1, InspectAcceptsImages
  <1>. QED
    BY <1>2, ChipAssumption DEF ChipKnown, Images, BootsHere

\* A file takes a number of chunks, and an image at least one.
LEMMA ImageLenType ==
  /\ ImageLen \in [Versions -> Nat]
  /\ \A v \in Images : v \in Versions /\ ImageLen[v] \in Nat \ {0}
  <1>1. \A n, c \in Nat : c # 0 => (n + c - 1) \div c \in Nat /\ (n # 0 => (n + c - 1) \div c # 0)
    OBVIOUS
  <1>2. \A v \in Versions : FileOf[v] \in Files /\ FileOf[v].size \in Nat
    BY VersionsAssumption DEF Files
  <1>3. ImageLen \in [Versions -> Nat]
    BY <1>1, <1>2, SizesAssumption DEF ImageLen
  <1>4. ASSUME NEW v \in Images PROVE FileOf[v].size # 0
    <2> DEFINE s == FileOf[v].segments
    <2>1. WholeImage(FileOf[v]) /\ v \in Versions
      BY <1>4 DEF Images, BootsHere
    <2>2. Len(s) \in 1 .. kMaxSegments /\ FileOf[v].size = ImageBytes(s, FileOf[v].hashAppended)
      BY <2>1 DEF WholeImage
    <2>3. Body(s) \in Nat
      BY <1>2, <2>1, <2>2, SegmentsFit DEF Files
    <2>4. ImageBytes(s, FileOf[v].hashAppended)
            = PadEnd(Body(s)) + (IF FileOf[v].hashAppended THEN kShaTrailer ELSE 0)
      BY <2>3, PadIsNext DEF ImageBytes
    <2>5. PadEnd(Body(s)) > 0
      BY <2>3 DEF PadEnd
    <2>6. PadEnd(Body(s)) \in Nat
      BY <2>3 DEF PadEnd
    <2>. QED
      BY <2>2, <2>4, <2>5, <2>6 DEF kShaTrailer
  <1>5. ASSUME NEW v \in Images PROVE v \in Versions /\ ImageLen[v] \in Nat \ {0}
    <2>1. v \in Versions
      BY DEF Images
    <2>. QED
      BY <1>1, <1>2, <1>4, <2>1, SizesAssumption DEF ImageLen
  <1>. QED
    BY <1>3, <1>5
-----------------------------------------------------------------------------
\* A file is being installed that inspect() accepted and that fits the partition.
Flashing == pc \in {"flash", "switch", "entry", "done"}
TargetFits ==
  Flashing => target \in Versions /\ ImageLen[target] <= PartChunks /\ Accepts(FileOf[target])

\* From the end of the loop on, the destination holds the image.
ImageInPlace == pc \in {"switch", "entry", "done"} => Holds(Dest, target)

\* Sector s names the destination and wins over the other sector.
Names(s, seq) == SlotOf(seq) = Dest /\ otadata[1 - s] < seq

EntryNamesDest == pc = "entry" => (otadata[entry.slot] = NotGood /\ Names(entry.slot, entry.seq))
DoneNamesDest  == pc = "done" => \E s \in Slots : otadata[s] # NotGood /\ Names(s, otadata[s])

IInv ==
  /\ TypeOK
  /\ Complete(running)
  /\ TargetFits
  /\ WrittenSoFar
  /\ ImageInPlace
  /\ EntryNamesDest
  /\ DoneNamesDest
-----------------------------------------------------------------------------
\* switchBoot() reads a sequence number in range, from a sector that exists.
LEMMA ActiveType ==
  ASSUME otadata \in [Slots -> Sector], MaxSeq \in Nat
  PROVE  /\ ActiveSector \in Slots \union {NoSlot}
         /\ ActiveSeq \in 0 .. MaxSeq
         /\ \A s \in Slots : otadata[s] = NotGood \/ otadata[s] <= ActiveSeq
         /\ ActiveSector = NoSlot => \A s \in Slots : otadata[s] = NotGood
  BY DEF ActiveSector, ActiveSeq, Slots, Sector, NotGood, NoSlot

\* A sequence number names one of the two partitions, and its successor the other.
LEMMA SlotsAlternate ==
  ASSUME NEW n \in Nat
  PROVE  SlotOf(n) \in Slots /\ SlotOf(n + 1) = 1 - SlotOf(n) /\ SlotOf(n + 2) = SlotOf(n)
  BY DEF SlotOf, Slots

\* The sequence number switchBoot() chooses names the destination and beats both sectors.
LEMMA NextSeqNamesDest ==
  ASSUME otadata \in [Slots -> Sector], MaxSeq \in Nat, running \in Slots
  PROVE  NextSeq \in Nat /\ NextSeq > ActiveSeq /\ SlotOf(NextSeq) = Dest
  <1>1. ActiveSeq \in Nat
    BY ActiveType
  <1>2. Dest \in Slots
    BY DEF Dest, Slots
  <1>3. SlotOf(ActiveSeq + 1) \in Slots /\ SlotOf(ActiveSeq + 2) = 1 - SlotOf(ActiveSeq + 1)
    BY <1>1, SlotsAlternate, ActiveSeq + 1 \in Nat, (ActiveSeq + 1) + 1 = ActiveSeq + 2
  <1>. QED
    BY <1>1, <1>2, <1>3 DEF NextSeq, Slots

\* One whole image is enough to boot.
LEMMA CompleteBoots ==
  ASSUME otadata \in [Slots -> Sector], MaxSeq \in Nat, running \in Slots, Complete(running)
  PROVE  BootSlot \in Slots
  <1>1. ActiveSeq \in Nat
    BY ActiveType
  <1>2. SlotOf(ActiveSeq) \in Slots
    BY <1>1, SlotsAlternate
  <1> DEFINE first == IF ActiveSector = NoSlot THEN 0 ELSE SlotOf(ActiveSeq)
  <1>3. first \in Slots /\ (running = first \/ running = 1 - first)
    BY <1>2 DEF Slots
  <1>4. Complete(first) \/ Complete(1 - first)
    BY <1>3
  <1>5. 1 - first \in Slots
    BY <1>3 DEF Slots
  <1>. QED
    BY <1>3, <1>4, <1>5 DEF BootSlot
-----------------------------------------------------------------------------
LEMMA InitIInv == Init => IInv
  <1> SUFFICES ASSUME Init PROVE IInv
    OBVIOUS
  <1> USE SizesAssumption, VersionsAssumption
  <1>1. otadata \in [Slots -> Sector] /\ MaxSeq \in Nat
    BY DEF Init
  <1>2. cells \in [Slots -> [Chunks -> Cell]]
    BY DEF Init, Images, Cell
  <1>3. running \in Slots /\ Complete(running)
    <2>1. ActiveSeq \in Nat
      BY <1>1, ActiveType
    <2>2. SlotOf(ActiveSeq) \in Slots
      BY <2>1, SlotsAlternate
    <2>. QED
      BY <2>2 DEF Init, BootSlot, Slots, NoSlot
  <1>4. TypeOK
    BY <1>1, <1>2, <1>3 DEF Init, IdleInit, TypeOK, NoEntry, Slots
  <1>. QED
    BY <1>3, <1>4 DEF Init, IdleInit, IInv, TargetFits, Flashing, WrittenSoFar, ImageInPlace,
                      EntryNamesDest, DoneNamesDest
-----------------------------------------------------------------------------
\* Whatever ends flash() early leaves the invariant to the running image alone.
LEMMA IdleIInv ==
  ASSUME TypeOK, Idle, running' \in Slots, Complete(running)',
         cells' \in [Slots -> [Chunks -> Cell]], otadata' \in [Slots -> Sector]
  PROVE  IInv'
  BY SizesAssumption DEF Idle, IInv, TypeOK, NoEntry, Slots, TargetFits, Flashing, WrittenSoFar,
                         ImageInPlace, EntryNamesDest, DoneNamesDest

\* Writing the destination leaves the running image in place.
LEMMA RunningStays ==
  ASSUME running \in Slots, UNCHANGED running, cells'[running] = cells[running], Complete(running)
  PROVE  Complete(running)'
  BY DEF Complete, Holds

LEMMA StartIInv ==
  ASSUME IInv, NEW v \in Versions, Start(v)
  PROVE  IInv'
  <1>1. TypeOK'
    BY SizesAssumption DEF IInv, TypeOK, Start, NoTarget
  <1>2. Complete(running)'
    BY RunningStays DEF IInv, TypeOK, Start
  <1>. QED
    BY <1>1, <1>2 DEF IInv, Start, TargetFits, Flashing, WrittenSoFar, ImageInPlace,
                      EntryNamesDest, DoneNamesDest

LEMMA EraseBlockIInv ==
  ASSUME IInv, EraseBlock
  PROVE  IInv' /\ cells'[running] = cells[running]
  <1> USE SizesAssumption, ImageLenType DEF IInv, EraseBlock
  <1>1. target \in Versions /\ ImageLen[target] <= PartChunks /\ ImageLen[target] \in Nat
    BY DEF TargetFits, Flashing
  <1>2. pos \in Nat /\ pos < PartChunks /\ pos = erased
    BY <1>1 DEF TypeOK, WrittenSoFar
  <1>3. EraseLen \in Nat /\ EraseLen > 0 /\ pos + EraseLen <= PartChunks
    BY <1>2 DEF EraseLen
  <1>4. Dest \in Slots /\ Dest # running /\ Dest' = Dest
    BY DEF Dest, Slots, TypeOK
  <1>5. /\ cells' \in [Slots -> [Chunks -> Cell]]
        /\ cells'[running] = cells[running]
        /\ \A c \in Chunks : cells'[Dest][c] =
             IF pos <= c /\ c < pos + EraseLen THEN Erased ELSE cells[Dest][c]
    BY <1>4 DEF TypeOK, Cell
  <1>6. TypeOK'
    BY <1>2, <1>3, <1>5 DEF TypeOK
  <1>7. Complete(running)'
    BY <1>5, RunningStays DEF TypeOK
  <1>8. WrittenSoFar'
    BY <1>2, <1>3, <1>4, <1>5 DEF WrittenSoFar, Chunks
  <1>. QED
    BY <1>5, <1>6, <1>7, <1>8 DEF TargetFits, Flashing, ImageInPlace, EntryNamesDest, DoneNamesDest

LEMMA WriteChunkIInv ==
  ASSUME IInv, WriteChunk
  PROVE  IInv' /\ cells'[running] = cells[running]
  <1> USE SizesAssumption, ImageLenType DEF IInv, WriteChunk
  <1>1. target \in Versions /\ ImageLen[target] <= PartChunks /\ ImageLen[target] \in Nat
    BY DEF TargetFits, Flashing
  <1>2. pos \in Chunks /\ pos + 1 <= erased /\ erased \in 0 .. PartChunks
    BY <1>1 DEF TypeOK, Chunks
  <1>3. cells[Dest][pos] = Erased
    BY <1>2 DEF WrittenSoFar, Chunks
  <1>4. Dest \in Slots /\ Dest # running /\ Dest' = Dest
    BY DEF Dest, Slots, TypeOK
  <1>5. /\ cells' \in [Slots -> [Chunks -> Cell]]
        /\ cells'[running] = cells[running]
        /\ \A c \in Chunks : cells'[Dest][c] = IF c = pos THEN target ELSE cells[Dest][c]
    BY <1>1, <1>2, <1>3, <1>4 DEF TypeOK, Cell
  <1>6. TypeOK'
    BY <1>2, <1>5 DEF TypeOK, Chunks
  <1>7. Complete(running)'
    BY <1>5, RunningStays DEF TypeOK
  <1>8. WrittenSoFar'
    BY <1>2, <1>4, <1>5 DEF WrittenSoFar, Chunks
  <1>. QED
    BY <1>5, <1>6, <1>7, <1>8 DEF TargetFits, Flashing, ImageInPlace, EntryNamesDest, DoneNamesDest

LEMMA FlashFailsIInv ==
  ASSUME IInv, FlashFails
  PROVE  IInv' /\ cells'[running] = cells[running]
  <1>1. Dest \in Slots /\ Dest # running
    BY DEF IInv, Dest, Slots, TypeOK
  <1>2. /\ cells' \in [Slots -> [Chunks -> Cell]]
        /\ cells'[running] = cells[running]
    BY <1>1 DEF IInv, FlashFails, TypeOK, Cell
  <1>3. Complete(running)' /\ running' \in Slots /\ otadata' \in [Slots -> Sector]
    BY <1>2, RunningStays DEF IInv, TypeOK, FlashFails, Fails
  <1>. QED
    BY <1>2, <1>3, IdleIInv DEF IInv, FlashFails, Fails

\* The loop is over: what has been written so far is the whole image.
LEMMA ImageWrittenIInv ==
  ASSUME IInv, ImageWritten
  PROVE  IInv'
  <1> USE ImageLenType DEF IInv, ImageWritten
  <1>1. target \in Versions /\ ImageLen[target] <= PartChunks /\ ImageLen[target] \in Nat
    BY DEF TargetFits, Flashing
  <1>2. Holds(Dest, target)
    BY <1>1 DEF WrittenSoFar, Holds, TypeOK
  <1>3. ImageInPlace'
    BY <1>2 DEF ImageInPlace, Holds, Dest
  <1>4. TypeOK' /\ Complete(running)'
    BY RunningStays DEF TypeOK
  <1>. QED
    BY <1>3, <1>4 DEF TargetFits, Flashing, WrittenSoFar, EntryNamesDest, DoneNamesDest

LEMMA EraseSectorIInv ==
  ASSUME IInv, EraseSector
  PROVE  IInv'
  <1> USE SizesAssumption DEF IInv, EraseSector
  <1>1. otadata \in [Slots -> Sector] /\ MaxSeq \in Nat /\ running \in Slots
    BY DEF TypeOK
  <1>2. NextSeq \in 0 .. MaxSeq /\ NextSeq > ActiveSeq /\ SlotOf(NextSeq) = Dest
    BY <1>1, NextSeqNamesDest
  <1>3. TargetSector \in Slots
    BY DEF TargetSector, Slots
  <1>4. otadata' \in [Slots -> Sector]
    BY <1>1, <1>3 DEF Sector
  <1>5. TypeOK'
    BY <1>2, <1>3, <1>4 DEF TypeOK
  <1>6. Complete(running)' /\ ImageInPlace'
    BY RunningStays DEF TypeOK, ImageInPlace, Holds, Dest
  <1>7. EntryNamesDest'
    <2>1. entry'.slot = TargetSector /\ entry'.seq = NextSeq /\ Dest' = Dest
      BY DEF Dest
    <2>2. otadata'[TargetSector] = NotGood
      BY <1>1, <1>3
    <2>3. otadata'[1 - TargetSector] = otadata[1 - TargetSector]
      BY <1>1, <1>3 DEF Slots
    <2>4. 1 - TargetSector \in Slots /\ ActiveSeq \in Nat
      BY <1>1, <1>3, ActiveType DEF Slots
    <2>5. otadata[1 - TargetSector] < NextSeq
      BY <1>1, <1>2, <2>4, ActiveType DEF NotGood, Sector
    <2>. QED
      BY <1>2, <2>1, <2>2, <2>3, <2>5 DEF EntryNamesDest, Names, SlotOf
  <1>. QED
    BY <1>5, <1>6, <1>7 DEF TargetFits, Flashing, WrittenSoFar, DoneNamesDest

LEMMA WriteSectorIInv ==
  ASSUME IInv, WriteSector
  PROVE  IInv'
  <1> USE SizesAssumption DEF IInv, WriteSector
  <1>1. entry.slot \in Slots /\ entry.seq \in 0 .. MaxSeq /\ 1 - entry.slot \in Slots
        /\ 1 - entry.slot # entry.slot
    BY DEF TypeOK, Slots
  <1>2. otadata' \in [Slots -> Sector]
    BY <1>1 DEF TypeOK, Sector
  <1>3. TypeOK'
    BY <1>2 DEF TypeOK
  <1>4. Complete(running)' /\ ImageInPlace'
    BY RunningStays DEF TypeOK, ImageInPlace, Holds, Dest
  <1>5. DoneNamesDest'
    <2>1. otadata'[entry.slot] = entry.seq /\ otadata'[1 - entry.slot] = otadata[1 - entry.slot]
      BY <1>1 DEF TypeOK
    <2>2. SlotOf(entry.seq) = Dest /\ otadata[1 - entry.slot] < entry.seq
      BY DEF EntryNamesDest, Names
    <2>3. Dest' = Dest /\ entry.seq # NotGood
      BY <1>1 DEF Dest, NotGood
    <2>. QED
      BY <1>1, <2>1, <2>2, <2>3 DEF DoneNamesDest, Names, SlotOf
  <1>. QED
    BY <1>3, <1>4, <1>5 DEF TargetFits, Flashing, WrittenSoFar, EntryNamesDest

LEMMA SwitchFailsIInv ==
  ASSUME IInv, SwitchFails
  PROVE  IInv'
  <1>1. otadata' \in [Slots -> Sector]
    BY DEF IInv, TypeOK, SwitchFails, TargetSector, Slots, Sector
  <1>2. Complete(running)' /\ running' \in Slots /\ cells' \in [Slots -> [Chunks -> Cell]]
    BY RunningStays DEF IInv, TypeOK, SwitchFails, Fails
  <1>. QED
    BY <1>1, <1>2, IdleIInv DEF IInv, SwitchFails, Fails

LEMMA RebootIInv ==
  ASSUME IInv, Reboot
  PROVE  IInv'
  <1>1. BootSlot \in Slots /\ Complete(BootSlot)
    <2>1. ActiveSeq \in Nat
      BY ActiveType, SizesAssumption DEF IInv, TypeOK
    <2>2. SlotOf(ActiveSeq) \in Slots
      BY <2>1, SlotsAlternate
    <2>. QED
      BY <2>2 DEF Reboot, BootSlot, Slots, NoSlot
  <1>2. Complete(running)' /\ running' \in Slots
    BY <1>1 DEF Reboot, Complete, Holds
  <1>. QED
    BY <1>2, IdleIInv DEF IInv, Reboot, TypeOK
-----------------------------------------------------------------------------
LEMMA NextIInv == IInv /\ [Next]_vars => IInv'
  <1> SUFFICES ASSUME IInv, [Next]_vars PROVE IInv'
    OBVIOUS
  <1>1. ASSUME NEW v \in Versions, Start(v) PROVE IInv'
    BY <1>1, StartIInv
  <1>2. CASE EraseBlock   BY <1>2, EraseBlockIInv
  <1>3. CASE WriteChunk   BY <1>3, WriteChunkIInv
  <1>4. CASE FlashFails   BY <1>4, FlashFailsIInv
  <1>5. CASE ImageWritten BY <1>5, ImageWrittenIInv
  <1>6. CASE EraseSector  BY <1>6, EraseSectorIInv
  <1>7. CASE WriteSector  BY <1>7, WriteSectorIInv
  <1>8. CASE SwitchFails  BY <1>8, SwitchFailsIInv
  <1>9. CASE Reboot       BY <1>9, RebootIInv
  <1>10. CASE UNCHANGED vars
    BY <1>10 DEF vars, IInv, TypeOK, Complete, Holds, TargetFits, Flashing, WrittenSoFar,
                 ImageInPlace, EntryNamesDest, DoneNamesDest, Names, Dest
  <1>. QED
    BY <1>1, <1>2, <1>3, <1>4, <1>5, <1>6, <1>7, <1>8, <1>9, <1>10 DEF Next

LEMMA Invariance == Spec => []IInv
  BY InitIInv, NextIInv, PTL DEF Spec

\* Every variable keeps its range: positions stay inside the partition and sequence
\* numbers inside their bound.
THEOREM TypeCorrect == Spec => []TypeOK
  <1>1. IInv => TypeOK
    BY DEF IInv
  <1>. QED
    BY <1>1, Invariance, PTL

\* The device always boots, whatever step of an update fails or loses power.
THEOREM UpdateNeverBricks == Spec => []AlwaysBoots
  <1>1. IInv => AlwaysBoots
    BY CompleteBoots, SizesAssumption DEF IInv, TypeOK, AlwaysBoots, Slots, NoSlot
  <1>. QED
    BY <1>1, Invariance, PTL

\* A sector that names the destination and wins is the active one.
LEMMA NamedIsActive ==
  ASSUME otadata \in [Slots -> Sector], MaxSeq \in Nat,
         NEW s \in Slots, otadata[s] # NotGood, otadata[1 - s] < otadata[s]
  PROVE  ActiveSector # NoSlot /\ ActiveSeq = otadata[s]
  BY DEF ActiveSector, ActiveSeq, Slots, Sector, NotGood, NoSlot

\* When flash() reports success the next boot runs the image it wrote.
THEOREM SuccessBootsTheNewImage == Spec => []DoneBootsNew
  <1>1. ASSUME IInv, pc = "done", ChipKnown PROVE BootSlot = Dest /\ Holds(Dest, target)
    <2>1. otadata \in [Slots -> Sector] /\ MaxSeq \in Nat
      BY <1>1, SizesAssumption DEF IInv, TypeOK
    <2>2. Holds(Dest, target) /\ Complete(Dest)
      BY <1>1, AcceptedBoots DEF IInv, ImageInPlace, TargetFits, Flashing, Complete
    <2>3. PICK s \in Slots : otadata[s] # NotGood /\ Names(s, otadata[s])
      BY <1>1 DEF IInv, DoneNamesDest
    <2>4. ActiveSector # NoSlot /\ ActiveSeq = otadata[s]
      BY <2>1, <2>3, NamedIsActive DEF Names
    <2>5. SlotOf(ActiveSeq) = Dest
      BY <2>3, <2>4 DEF Names
    <2>. QED
      BY <2>2, <2>4, <2>5 DEF BootSlot
  <1>2. IInv => DoneBootsNew
    BY <1>1 DEF DoneBootsNew
  <1>. QED
    BY <1>2, Invariance, PTL

\* Nothing is written on a chunk that has not been erased first.
THEOREM ErasedBeforeWritten == Spec => []WrittenSoFar
  <1>1. IInv => WrittenSoFar
    BY DEF IInv
  <1>. QED
    BY <1>1, Invariance, PTL

\* No step writes to the partition that is running.
THEOREM RunningImageIsKept == Spec => RunningIsKept
  <1>1. IInv /\ [Next]_vars => [cells'[running] = cells[running]]_vars
    <2> SUFFICES ASSUME IInv, Next PROVE cells'[running] = cells[running]
      BY DEF vars
    <2>1. CASE EraseBlock BY <2>1, EraseBlockIInv
    <2>2. CASE WriteChunk BY <2>2, WriteChunkIInv
    <2>3. CASE FlashFails BY <2>3, FlashFailsIInv
    <2>4. CASE UNCHANGED cells BY <2>4
    <2>. QED
      BY <2>1, <2>2, <2>3, <2>4
      DEF Next, Start, ImageWritten, EraseSector, WriteSector, SwitchFails, Reboot
  <1>. QED
    BY <1>1, Invariance, PTL DEF Spec, RunningIsKept
-----------------------------------------------------------------------------
(* The refinement.  Between updates, and until one has succeeded, the boot  *)
(* sector names the running partition: this holds of the states that only  *)
(* updates lead to, and not after the bootloader has fallen back.           *)
NamesRunning ==
  /\ ActiveSector = NoSlot => running = 0
  /\ ActiveSector # NoSlot => running = SlotOf(ActiveSeq)
TargetIsSet == target = NoTarget <=> pc = "idle"
CleanInv == ChipKnown /\ TargetIsSet /\ (pc # "done" => NamesRunning)

\* The first chunk tells which image a partition holds.
LEMMA OneVersion ==
  ASSUME NEW v \in Images, BootSlot # NoSlot, Holds(BootSlot, v)
  PROVE  BootVersion = v
  <1>1. ASSUME NEW w \in Images, Holds(BootSlot, w) PROVE w = v
    <2>1. ImageLen[v] \in Nat \ {0} /\ ImageLen[w] \in Nat \ {0}
      BY ImageLenType
    <2>2. 0 \in 0 .. ImageLen[v] - 1 /\ 0 \in 0 .. ImageLen[w] - 1
      BY <2>1
    <2>. QED
      BY <1>1, <2>2 DEF Holds
  <1>. QED
    BY <1>1 DEF BootVersion

\* Until an update has succeeded the next boot runs what is running.
LEMMA BootsRunning ==
  ASSUME IInv, NamesRunning
  PROVE  BootSlot = running /\ BootSlot # NoSlot
  BY DEF IInv, TypeOK, NamesRunning, BootSlot, Slots, NoSlot

LEMMA BootsSomeVersion ==
  ASSUME IInv
  PROVE  BootVersion \in Images /\ BootSlot # NoSlot /\ Holds(BootSlot, BootVersion)
  <1>1. BootSlot \in Slots /\ BootSlot # NoSlot /\ Complete(BootSlot)
    <2>1. otadata \in [Slots -> Sector] /\ MaxSeq \in Nat /\ running \in Slots
      BY SizesAssumption DEF IInv, TypeOK
    <2>2. BootSlot \in Slots
      BY <2>1, CompleteBoots DEF IInv
    <2>. QED
      BY <2>2 DEF BootSlot, Slots, NoSlot
  <1>2. PICK v \in Images : Holds(BootSlot, v)
    BY <1>1 DEF Complete
  <1>. QED
    BY <1>1, <1>2, OneVersion

\* The partition booted next and its chunks decide which version that is.
LEMMA SameVersion ==
  ASSUME IInv, IInv', BootSlot' = BootSlot, cells'[BootSlot] = cells[BootSlot]
  PROVE  BootVersion' = BootVersion
  <1>1. Holds(BootSlot, BootVersion) /\ BootVersion \in Images /\ BootSlot # NoSlot
    BY BootsSomeVersion
  <1>2. (\A v \in Images : Holds(BootSlot, v) <=> Holds(BootSlot, v)')
    BY DEF Holds
  <1>. QED
    BY <1>2 DEF BootVersion

LEMMA NamesRunningKept ==
  ASSUME NamesRunning, UNCHANGED <<otadata, running>>
  PROVE  NamesRunning'
  BY DEF NamesRunning, ActiveSector, ActiveSeq, SlotOf

\* The sector that is erased is not the active one.
LEMMA ErasedIsNotActive ==
  ASSUME IInv, NamesRunning, UNCHANGED running,
         otadata' = [otadata EXCEPT ![TargetSector] = NotGood]
  PROVE  NamesRunning'
  <1>1. otadata \in [Slots -> Sector] /\ MaxSeq \in Nat
    BY SizesAssumption DEF IInv, TypeOK
  <1>2. ActiveSector' = ActiveSector
    BY <1>1 DEF ActiveSector, TargetSector, Slots, Sector, NotGood, NoSlot
  <1>3. ActiveSeq' = ActiveSeq
    BY <1>1, <1>2 DEF ActiveSeq, ActiveSector, TargetSector, Slots, Sector, NotGood, NoSlot
  <1>. QED
    BY <1>2, <1>3 DEF NamesRunning, SlotOf

\* Where a step leaves the boot sector and the running partition alone.
LEMMA QuietStep ==
  ASSUME IInv, IInv', NamesRunning, NamesRunning', running' = running,
         cells'[running] = cells[running]
  PROVE  BootVersion' = BootVersion
  <1>1. BootSlot = running /\ BootSlot' = running'
    <2>1. BootSlot = running
      BY BootsRunning
    <2>2. BootSlot' = running'
      BY DEF IInv, TypeOK, NamesRunning, BootSlot, Slots, NoSlot
    <2>. QED
      BY <2>1, <2>2
  <1>. QED
    BY <1>1, SameVersion

\* After a success the next boot runs the new image.
LEMMA BootsDest ==
  ASSUME IInv, pc = "done", ChipKnown
  PROVE  /\ BootSlot = Dest /\ BootSlot # NoSlot /\ BootVersion = target
         /\ ActiveSector # NoSlot /\ SlotOf(ActiveSeq) = Dest
  <1>1. otadata \in [Slots -> Sector] /\ MaxSeq \in Nat /\ running \in Slots
    BY SizesAssumption DEF IInv, TypeOK
  <1>2. Holds(Dest, target) /\ Complete(Dest) /\ target \in Images
    BY AcceptedBoots DEF IInv, ImageInPlace, TargetFits, Flashing, Complete
  <1>3. PICK s \in Slots : otadata[s] # NotGood /\ Names(s, otadata[s])
    BY DEF IInv, DoneNamesDest
  <1>4. ActiveSector # NoSlot /\ ActiveSeq = otadata[s]
    BY <1>1, <1>3, NamedIsActive DEF Names
  <1>5. SlotOf(ActiveSeq) = Dest
    BY <1>3, <1>4 DEF Names
  <1>6. BootSlot = Dest /\ BootSlot # NoSlot
    BY <1>1, <1>2, <1>4, <1>5 DEF BootSlot, Dest, Slots, NoSlot
  <1>. QED
    BY <1>2, <1>4, <1>5, <1>6, OneVersion

LEMMA BootsDestNext == (IInv /\ ChipKnown /\ pc = "done" => BootVersion = target)'
  <1>1. IInv /\ ChipKnown /\ pc = "done" => BootVersion = target
    BY BootsDest
  <1>. QED
    BY <1>1, PTL

\* The flash alone decides what the next boot runs.
LEMMA SameFlash ==
  ASSUME UNCHANGED <<cells, otadata>>
  PROVE  BootVersion' = BootVersion /\ ActiveSector' = ActiveSector /\ ActiveSeq' = ActiveSeq
  BY DEF BootVersion, BootSlot, Complete, Holds, ActiveSector, ActiveSeq, SlotOf

\* What a step of an update does to what the next boot would run.
Maps == Abstract!Next \/ UNCHANGED <<BootVersion, target>>

LEMMA StepMaps ==
  ASSUME IInv, IInv', CleanInv, [Next]_vars
  PROVE  CleanInv' /\ Maps
  <1> USE DEF CleanInv, TargetIsSet
  <1>0. target \in Versions => target # NoTarget
    BY VersionsAssumption DEF NoTarget
  <1>1. ASSUME NEW v \in Versions, Start(v) PROVE CleanInv' /\ Maps
    <2>1. NamesRunning' /\ v # NoTarget
      BY <1>1, NamesRunningKept, VersionsAssumption DEF Start, NoTarget
    <2>2. BootVersion' = BootVersion
      BY <1>1, <2>1, QuietStep DEF Start
    <2>3. Abstract!Ask(v) /\ v \in Images
      BY <1>1, <2>2, AcceptedBoots DEF Start, Abstract!Ask
    <2>. QED
      BY <1>1, <2>1, <2>3 DEF Start, Maps, Abstract!Next
  <1>2. CASE EraseBlock \/ WriteChunk
    <2>1. cells'[running] = cells[running] /\ UNCHANGED <<otadata, running, target, pc>> /\ pc # "done"
      BY <1>2, EraseBlockIInv, WriteChunkIInv DEF EraseBlock, WriteChunk
    <2>2. NamesRunning'
      BY <2>1, NamesRunningKept
    <2>. QED
      BY <2>1, <2>2, QuietStep DEF Maps
  <1>3. CASE ImageWritten
    <2>1. NamesRunning'
      BY <1>3, NamesRunningKept DEF ImageWritten
    <2>. QED
      BY <1>3, <2>1, QuietStep DEF ImageWritten, Maps
  <1>4. CASE FlashFails
    <2>1. cells'[running] = cells[running]
      BY <1>4, FlashFailsIInv
    <2>2. NamesRunning'
      BY <1>4, NamesRunningKept DEF FlashFails, Fails
    <2>3. BootVersion' = BootVersion
      BY <1>4, <2>1, <2>2, QuietStep DEF FlashFails, Fails
    <2>4. Abstract!End
      BY <1>4, <2>3 DEF FlashFails, Fails, Idle, Abstract!End
    <2>. QED
      BY <1>4, <2>2, <2>4 DEF FlashFails, Fails, Idle, Maps, Abstract!Next
  <1>5. CASE EraseSector
    <2>1. NamesRunning'
      BY <1>5, ErasedIsNotActive DEF EraseSector
    <2>2. BootVersion' = BootVersion
      BY <1>5, <2>1, QuietStep DEF EraseSector
    <2>. QED
      BY <1>5, <2>1, <2>2 DEF EraseSector, Maps
  <1>6. CASE WriteSector
    <2>1. (BootVersion = target)'
      BY <1>6, BootsDestNext DEF WriteSector
    <2>2. Abstract!Commit
      BY <1>6, <2>1 DEF WriteSector, Abstract!Commit
    <2>. QED
      BY <1>6, <2>2 DEF WriteSector, Maps, Abstract!Next
  <1>7. CASE SwitchFails
    <2>1. NamesRunning'
      BY <1>7, NamesRunningKept, ErasedIsNotActive DEF SwitchFails, Fails
    <2>2. BootVersion' = BootVersion
      BY <1>7, <2>1, QuietStep DEF SwitchFails, Fails
    <2>3. Abstract!End
      BY <1>7, <2>2 DEF SwitchFails, Fails, Idle, Abstract!End
    <2>. QED
      BY <1>7, <2>1, <2>3 DEF SwitchFails, Fails, Idle, Maps, Abstract!Next
  <1>8. CASE Reboot
    <2>1. BootVersion' = BootVersion
      BY <1>8, SameFlash DEF Reboot
    <2>2. NamesRunning'
      <3>1. ActiveSector' = ActiveSector /\ ActiveSeq' = ActiveSeq
        BY <1>8, SameFlash DEF Reboot
      <3>2. CASE pc = "done"
        BY <1>8, <3>1, <3>2, BootsDest DEF Reboot, NamesRunning, SlotOf
      <3>3. CASE pc # "done"
        BY <1>8, <3>1, <3>3, BootsRunning DEF Reboot, NamesRunning, SlotOf
      <3>. QED
        BY <3>2, <3>3
    <2>3. target = NoTarget \/ Abstract!End
      BY <1>8, <2>1 DEF Reboot, Idle, Abstract!End
    <2>. QED
      BY <1>8, <2>1, <2>2, <2>3 DEF Reboot, Idle, Maps, Abstract!Next
  <1>9. CASE UNCHANGED vars
    <2>1. BootVersion' = BootVersion
      BY <1>9, SameFlash DEF vars
    <2>. QED
      BY <1>9, <2>1, NamesRunningKept DEF vars, Maps
  <1>. QED
    BY <1>1, <1>2, <1>3, <1>4, <1>5, <1>6, <1>7, <1>8, <1>9 DEF Next

LEMMA CleanStart == CleanInit => IInv /\ CleanInv /\ Abstract!Init
  <1> SUFFICES ASSUME CleanInit PROVE IInv /\ CleanInv /\ Abstract!Init
    OBVIOUS
  <1>1. IInv
    BY InitIInv DEF CleanInit
  <1>2. CleanInv
    BY DEF CleanInit, Init, IdleInit, CleanInv, TargetIsSet, NamesRunning
  <1>3. BootVersion \in Images
    BY <1>1, BootsSomeVersion
  <1>. QED
    BY <1>1, <1>2, <1>3 DEF CleanInit, Init, IdleInit, Abstract!Init

\* flash() and switchBoot() implement the atomic update: for every partition,
\* block and set of images the next boot runs the old image or the new one, and
\* the only step that changes which is the write of the otadata sector.
THEOREM UpdateIsAtomic == CleanSpec => UpdatesAtomically
  <1>1. IInv /\ [Next]_vars => IInv'
    BY NextIInv
  <1>2. IInv /\ IInv' /\ CleanInv /\ [Next]_vars => CleanInv' /\ Maps
    BY StepMaps
  <1>3. Maps => [Abstract!Next]_<<BootVersion, target>>
    BY DEF Maps
  <1>. QED
    BY <1>1, <1>2, <1>3, CleanStart, PTL DEF CleanSpec, UpdatesAtomically, Abstract!Spec
=============================================================================
