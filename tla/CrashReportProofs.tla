-------------------------- MODULE CrashReportProofs --------------------------
(***************************************************************************)
(* Proofs about CrashReport, for every size of the log ring, every line    *)
(* and any number of crashes.                                              *)
(***************************************************************************)
EXTENDS CrashReport, SequenceTheorems, WellFoundedInduction, TLAPS

\* The ring and what was said, apart from the rest.
LogType ==
  /\ logMessages \in [Index -> Lines \union {Blank, Garbage}]
  /\ logHead \in Index \union {Wild} /\ logMagic \in BOOLEAN
  /\ said \in Seq(Lines) /\ Len(said) <= LogLines

PanicType ==
  /\ message \in Number \union {Blanks, Unknown}
  /\ stack \in Number \union {Blanks, Unknown} /\ marker \in BOOLEAN
  /\ cause \in Causes
  /\ pc \in {"early", "booting", "wrote", "up", "message"}
  /\ report.message \in Number \union {Blanks, Unknown}
  /\ report.stack \in Number \union {Blanks, Unknown}
  /\ crashes \in 0 .. MaxCrashes
  /\ owed \in 0 .. MaxCrashes /\ told \in 0 .. MaxCrashes /\ dropped \in 0 .. MaxCrashes
  /\ unmarked \in Number \union {Blanks, Unknown}

LEMMA TypeParts == TypeOK <=> LogType /\ PanicType
BY DEF TypeOK, LogType, PanicType

\* A slot of the ring is followed by a slot of the ring.
LEMMA NextSlotInRing == ASSUME NEW i \in Index PROVE NextSlot(i) \in Index /\ 0 \in Index
BY LogAssumption DEF NextSlot, Index

LEMMA LastIsShort ==
  ASSUME NEW s \in Seq(Lines), NEW line \in Lines, Len(s) <= LogLines
  PROVE  /\ Last(Append(s, line)) \in Seq(Lines)
         /\ Len(Last(Append(s, line))) <= LogLines
<1>1. Append(s, line) \in Seq(Lines) /\ Len(Append(s, line)) = Len(s) + 1 /\ Len(s) \in Nat
  OBVIOUS
<1> DEFINE t == Append(s, line)
<1>2. CASE Len(t) > LogLines
  <2>1. Last(t) = SubSeq(t, 2, Len(t))
    BY <1>2 DEF Last
  <2> QED BY <1>1, <1>2, <2>1, LogAssumption, SubSeqProperties
<1>3. CASE ~(Len(t) > LogLines)
  <2>1. Last(t) = SubSeq(t, 1, Len(t))
    BY <1>3 DEF Last
  <2> QED BY <1>1, <1>3, <2>1, LogAssumption, SubSeqProperties
<1> QED BY <1>2, <1>3

LEMMA LogTypeNext == LogType /\ [Next]_vars => LogType'
<1> SUFFICES ASSUME LogType, [Next]_vars PROVE LogType'
  OBVIOUS
<1> USE DEF LogType
<1>0. 0 \in Index
  BY LogAssumption DEF Index
<1>1. ASSUME ClearLog PROVE LogType'
  BY <1>0, <1>1, LogAssumption DEF ClearLog, Cleared
<1>2. CASE Begin
  BY <1>1, <1>2 DEF Begin, ring
<1>3. ASSUME NEW line \in Lines, Log(line)
      PROVE  LogType'
  <2> DEFINE slot == IF LogIsSane THEN logHead ELSE 0
  <2>1. slot \in Index
    BY <1>0 DEF LogIsSane
  <2>2. logHead' = NextSlot(slot) /\ logMagic' = TRUE /\ said' = Last(Append(said, line))
        /\ logMessages' = [(IF LogIsSane THEN logMessages ELSE Cleared) EXCEPT ![slot] = line]
    BY <1>3 DEF Log, Add
  <2> HIDE DEF slot
  <2>3. logMessages' \in [Index -> Lines \union {Blank, Garbage}]
    BY <2>1, <2>2 DEF Cleared
  <2>4. said' \in Seq(Lines) /\ Len(said') <= LogLines
    BY <2>2, LastIsShort
  <2> QED BY <2>1, <2>2, <2>3, <2>4, NextSlotInRing
<1>4. CASE NoCard
  BY <1>4 DEF NoCard, ring, history
<1>5. CASE CheckPanic \/ Consume
  BY <1>5 DEF CheckPanic, Consume, ring
<1>6. CASE Panic
  BY <1>6 DEF Panic, ring
<1>7. CASE Restart
  BY <1>7 DEF Restart, ring
<1>8. CASE PowerOn
  <2>1. logMessages' \in [Index -> Lines \union {Blank, Garbage}]
    BY <1>8 DEF PowerOn
  <2>2. logHead' \in Index \union {Wild} /\ logMagic' \in BOOLEAN
    BY <1>8 DEF PowerOn
  <2>3. said' \in Seq(Lines) /\ Len(said') <= LogLines
    BY <1>8, LogAssumption DEF PowerOn
  <2> QED BY <2>1, <2>2, <2>3
<1>9. CASE UNCHANGED vars
  BY <1>9 DEF vars, ring, history
<1> QED BY <1>2, <1>3, <1>4, <1>5, <1>6, <1>7, <1>8, <1>9 DEF Next
-----------------------------------------------------------------------------
LEMMA PanicTypeNext == PanicType /\ [Next]_vars => PanicType'
<1> SUFFICES ASSUME PanicType, [Next]_vars PROVE PanicType'
  OBVIOUS
<1> USE BoundAssumption DEF PanicType, Blanks, Unknown
<1>1. CASE Begin
  <2>1. UNCHANGED panic \/ ClearCapture
    BY <1>1 DEF Begin
  <2>2. marker' \in BOOLEAN /\ message' \in {message, Blanks} /\ stack' \in {stack, Blanks}
    BY <2>1 DEF panic, ClearCapture
  <2> QED BY <1>1, <2>2 DEF Begin
<1>2. ASSUME NEW line \in Lines, Log(line)
      PROVE  PanicType'
  BY <1>2 DEF Log, panic
<1>3. CASE NoCard
  BY <1>3 DEF NoCard, panic, history
<1>4. CASE CheckPanic
  <2>1. UNCHANGED <<message, stack, marker, cause, crashes, unmarked>>
    BY <1>4 DEF CheckPanic, panic
  <2>2. pc' \in {"up", "wrote"}
    BY <1>4 DEF CheckPanic, Consumed
  <2>3. /\ report'.message \in Number \union {Blanks, Unknown}
        /\ report'.stack \in Number \union {Blanks, Unknown}
    BY <1>4 DEF CheckPanic
  <2>4. owed' \in {owed, 0} /\ told' \in {told, stack} /\ dropped' \in {dropped, owed}
        /\ (told' = told \/ stack > told)
    BY <1>4 DEF CheckPanic
  <2>5. told' \in 0 .. MaxCrashes
    BY <2>4 DEF Number
  <2> QED BY <2>1, <2>2, <2>3, <2>4, <2>5
<1>9. CASE Consume
  <2>1. marker' = FALSE /\ pc' = "up" /\ unmarked' = Blanks
        /\ UNCHANGED <<message, stack, cause, report, crashes, owed, told, dropped>>
    BY <1>9 DEF Consume
  <2> QED BY <2>1
<1>5. CASE Panic
  <2>1. crashes + 1 \in Number /\ crashes + 1 \in 0 .. MaxCrashes
    BY <1>5 DEF Panic, Number
  <2>2. \E withMessage \in BOOLEAN : Capture(crashes + 1, withMessage)
    BY <1>5 DEF Panic
  <2>3. message' \in {message, crashes + 1} /\ stack' = crashes + 1 /\ marker' = TRUE
        /\ crashes' = crashes + 1 /\ owed' = crashes + 1 /\ unmarked' = Blanks
    BY <2>2 DEF Capture
  <2>4. cause' \in Causes /\ pc' = "early" /\ report' = NoReport /\ UNCHANGED <<told, dropped>>
    BY <1>5 DEF Panic, Reset, Causes
  <2> QED BY <2>1, <2>3, <2>4 DEF NoReport
<1>6. CASE Restart
  BY <1>6 DEF Restart, Reset, Causes, NoReport, panic
<1>7. CASE PowerOn
  <2>1. marker' \in BOOLEAN
    BY <1>7 DEF PowerOn
  <2> QED BY <1>7, <2>1 DEF PowerOn, Reset, Causes, NoReport
<1>8. CASE UNCHANGED vars
  BY <1>8 DEF vars, panic, history
<1> QED BY <1>1, <1>2, <1>3, <1>4, <1>5, <1>6, <1>7, <1>8, <1>9 DEF Next

LEMMA TypeInit == Init => LogType /\ PanicType
<1> SUFFICES ASSUME Init PROVE LogType /\ PanicType
  OBVIOUS
<1>1. said \in Seq(Lines) /\ Len(said) <= LogLines
  BY LogAssumption DEF Init
<1>2. logMagic \in BOOLEAN /\ marker \in BOOLEAN
  BY DEF Init
<1>3. LogType
  BY <1>1, <1>2 DEF Init, LogType
<1>4. PanicType
  BY <1>2, BoundAssumption DEF Init, PanicType, NoReport, Causes, Blanks, Unknown
<1> QED BY <1>3, <1>4

\* Every variable keeps its range, the log ring its slots and the lines said their
\* bound, whatever RTC memory held at power-on.
THEOREM TypeCorrect == Spec => []TypeOK
<1>1. Init => LogType /\ PanicType
  BY TypeInit
<1>2. LogType /\ PanicType /\ [Next]_vars => LogType' /\ PanicType'
  BY LogTypeNext, PanicTypeNext
<1>3. LogType /\ PanicType => TypeOK
  BY TypeParts
<1> QED BY <1>1, <1>2, <1>3, PTL DEF Spec
-----------------------------------------------------------------------------
\* The marker is of a crash that has not been told of, until checkPanic() gets to
\* clear it, or since a reset kept it from that.
MarkerIsNew == marker => stack \in Number /\ (stack > told \/ pc = "wrote" \/ stack = unmarked)

\* On the boot after a panic nothing has taken the marker yet.
PanicIsMarked == cause = "panic" /\ pc \in {"early", "booting"} => marker

\* A crash whose marker is about to be cleared has been told, or lost by the card.
WroteIsSettled == pc = "wrote" => owed \in {0, dropped}

IInv ==
  /\ PanicType /\ OwedIsKept /\ MarkerIsNew /\ PanicIsMarked /\ WroteIsSettled
  /\ told <= crashes /\ stack <= crashes

LEMMA IInvNext == IInv /\ [Next]_vars => IInv'
<1> SUFFICES ASSUME IInv, [Next]_vars PROVE IInv'
  OBVIOUS
<1>t. PanicType'
  BY PanicTypeNext DEF IInv
<1> USE BoundAssumption DEF IInv, OwedIsKept, MarkerIsNew, PanicIsMarked, WroteIsSettled
<1>1. CASE Begin
  <2>1. CASE RebootFromPanic
    BY <1>1, <1>t, <2>1 DEF Begin, panic, RebootFromPanic
  <2>2. CASE ~RebootFromPanic
    <3>1. marker' = FALSE /\ stack' = Blanks /\ UNCHANGED <<told, crashes, cause>> /\ cause # "panic"
      BY <1>1, <2>2 DEF Begin, ClearCapture, RebootFromPanic
    <3>2. owed' \in {0, dropped'} /\ pc' = "booting"
      BY <1>1, <2>2 DEF Begin, RebootFromPanic, PanicType, Causes
    <3> QED BY <1>t, <3>1, <3>2 DEF PanicType, Blanks
  <2> QED BY <2>1, <2>2
<1>2. ASSUME NEW line \in Lines, Log(line)
      PROVE  IInv'
  BY <1>2, <1>t DEF Log, panic
<1>3. CASE NoCard
  BY <1>3, <1>t DEF NoCard, panic, history
<1>4. CASE CheckPanic
  <2>1. UNCHANGED <<message, stack, marker, cause, crashes, unmarked>> /\ pc = "booting" /\ pc' \in {"up", "wrote"}
    BY <1>4 DEF CheckPanic, Consumed, panic
  <2>2. CASE owed' = 0 /\ told' = (IF stack > told THEN stack ELSE told) /\ pc' = "wrote"
    BY <1>t, <2>1, <2>2
  <2>3. CASE UNCHANGED <<owed, told>> /\ pc' = "wrote" /\ dropped' = owed
    BY <1>t, <2>1, <2>3
  <2>4. CASE UNCHANGED <<owed, told, dropped>> /\ pc' = "up"
    BY <1>t, <2>1, <2>4
  <2> QED BY <1>4, <2>2, <2>3, <2>4 DEF CheckPanic, Consumed
<1>9. CASE Consume
  <2>1. marker' = FALSE /\ pc' = "up" /\ UNCHANGED <<owed, dropped, told, stack, crashes>> /\ pc = "wrote"
    BY <1>9 DEF Consume
  <2> QED BY <1>t, <2>1
<1>5. CASE Panic
  <2>1. \E withMessage \in BOOLEAN : Capture(crashes + 1, withMessage)
    BY <1>5 DEF Panic
  <2>2. stack' = crashes + 1 /\ marker' = TRUE /\ crashes' = crashes + 1 /\ owed' = crashes + 1
        /\ told' = told /\ pc' = "early"
    BY <1>5, <2>1 DEF Panic, Capture, Reset
  <2>3. stack' \in Number
    BY <1>5, <2>2 DEF Panic, PanicType, Number
  <2> QED BY <1>t, <2>2, <2>3 DEF PanicType
<1>6. CASE Restart
  BY <1>6, <1>t DEF Restart, Reset, panic
<1>7. CASE PowerOn
  <2>1. marker' = FALSE /\ stack' = Unknown /\ owed' = 0 /\ cause' = "power" /\ pc' = "early"
        /\ UNCHANGED <<crashes, told>>
    BY <1>7 DEF PowerOn, Reset
  <2> QED BY <1>t, <2>1 DEF PanicType, Unknown
<1>8. CASE UNCHANGED vars
  BY <1>8, <1>t DEF vars, panic, history
<1> QED BY <1>1, <1>2, <1>3, <1>4, <1>5, <1>6, <1>7, <1>8, <1>9 DEF Next

LEMMA IInvInit == Init => IInv
<1> SUFFICES ASSUME Init PROVE IInv
  OBVIOUS
<1>1. PanicType
  BY TypeInit
<1>2. OwedIsKept /\ MarkerIsNew /\ PanicIsMarked /\ WroteIsSettled
  BY DEF Init, OwedIsKept, MarkerIsNew, PanicIsMarked, WroteIsSettled
<1>3. told <= crashes /\ stack <= crashes
  BY DEF Init, Unknown
<1> QED BY <1>1, <1>2, <1>3 DEF IInv

\* A captured crash stays until it is told, replaced or cleared by an ordinary boot;
\* it is lost only with a report that checkPanic() wrote whole and could not close.
THEOREM CapturedIsKept == Spec => []OwedIsKept
<1>1. Init => IInv
  BY IInvInit
<1>2. IInv /\ [Next]_vars => IInv'
  BY IInvNext
<1>3. IInv => OwedIsKept
  BY DEF IInv
<1> QED BY <1>1, <1>2, <1>3, PTL DEF Spec

\* A report that a panic or a watchdog causes is of a crash never told before, or
\* of one that a reset kept from being marked once its report was closed.
THEOREM EachCrashToldOnce == Spec => ToldOnce
<1>1. Init => IInv
  BY IInvInit
<1>2. IInv /\ [Next]_vars => IInv'
  BY IInvNext
<1>3. ASSUME IInv, [Next]_vars
      PROVE  [Reports /\ cause # "lockup" => report'.stack > told \/ report'.stack = unmarked]_vars
  <2> SUFFICES ASSUME Next, Reports, cause # "lockup"
               PROVE  report'.stack > told \/ report'.stack = unmarked
    BY <1>3 DEF vars, ring, panic, history, Reports
  <2>1. CASE CheckPanic
    <3>1. RebootFromPanic /\ pc = "booting"
      BY <2>1 DEF CheckPanic, Reports
    <3>2. marker
      BY <1>3, <3>1 DEF RebootFromPanic, IInv, PanicIsMarked
    <3>3. report' = report \/ report'.stack = stack
      BY <2>1 DEF CheckPanic
    <3> QED BY <1>3, <3>1, <3>2, <3>3 DEF IInv, MarkerIsNew, Reports
  <2>2. CASE ~CheckPanic
    BY <2>2 DEF Next, Begin, NoCard, Consume, Log, Panic, Restart, PowerOn, Reset, Reports
  <2> QED BY <2>1, <2>2
<1> QED BY <1>1, <1>2, <1>3, PTL DEF Spec, ToldOnce
-----------------------------------------------------------------------------
(* The ring.  Counted from the head, its last slots hold what was said, and *)
(* those before them are blank.                                             *)
Slot(h, i) == (h + i - 1) % LogLines
Fits(m, h, s) ==
  \A i \in 1 .. LogLines :
    m[Slot(h, i)] = IF i <= LogLines - Len(s) THEN Blank ELSE s[i - (LogLines - Len(s))]

\* A ring whose magic is right holds what was said; another has nothing to tell.
RingInv == IF logMagic THEN logHead \in Index /\ Fits(logMessages, logHead, said) ELSE said = <<>>

LEMMA ModOnce ==
  ASSUME NEW a \in 0 .. 2 * LogLines - 1
  PROVE  a % LogLines = IF a < LogLines THEN a ELSE a - LogLines
  BY LogAssumption

LEMMA SlotIs ==
  ASSUME NEW h \in Index, NEW i \in 1 .. LogLines
  PROVE  Slot(h, i) = IF h + i - 1 < LogLines THEN h + i - 1 ELSE h + i - 1 - LogLines
  BY ModOnce, LogAssumption, h + i - 1 \in 0 .. 2 * LogLines - 1 DEF Slot, Index

\* After the head moves on, every slot is one nearer, and the old head is the last.
LEMMA SlotsMove ==
  ASSUME NEW h \in Index, NEW i \in 1 .. LogLines
  PROVE  /\ Slot(h, i) \in Index
         /\ i < LogLines => Slot(NextSlot(h), i) = Slot(h, i + 1) /\ Slot(h, i + 1) # h
         /\ i = LogLines => Slot(NextSlot(h), i) = h
  <1> USE LogAssumption DEF Index
  <1>1. NextSlot(h) = IF h + 1 < LogLines THEN h + 1 ELSE 0
    BY ModOnce, h + 1 \in 0 .. 2 * LogLines - 1 DEF NextSlot
  <1>3. Slot(h, i) = IF h + i - 1 < LogLines THEN h + i - 1 ELSE h + i - 1 - LogLines
    BY SlotIs
  <1>4. i < LogLines => Slot(h, i + 1) = IF h + i < LogLines THEN h + i ELSE h + i - LogLines
    BY SlotIs, i < LogLines => i + 1 \in 1 .. LogLines
  <1>5. Slot(NextSlot(h), i) =
          IF NextSlot(h) + i - 1 < LogLines THEN NextSlot(h) + i - 1 ELSE NextSlot(h) + i - 1 - LogLines
    BY NextSlotInRing, SlotIs
  <1>. QED
    BY <1>1, <1>3, <1>4, <1>5

LEMMA ClearFits == 0 \in Index /\ Fits(Cleared, 0, <<>>)
  <1>1. 0 \in Index
    BY LogAssumption DEF Index
  <1>2. ASSUME NEW i \in 1 .. LogLines
        PROVE  Slot(0, i) \in Index /\ i <= LogLines - Len(<<>>)
    BY <1>1, SlotsMove, LogAssumption
  <1>. QED
    BY <1>1, <1>2 DEF Fits, Cleared

\* What Last() keeps of a line more.
LEMMA LastShifts ==
  ASSUME NEW s \in Seq(Lines), Len(s) <= LogLines, NEW line \in Lines
  PROVE  LET t    == Last(Append(s, line))
             full == Len(s) = LogLines
         IN  /\ Len(t) = IF full THEN Len(s) ELSE Len(s) + 1
             /\ \A k \in 1 .. Len(t) - 1 : t[k] = IF full THEN s[k + 1] ELSE s[k]
             /\ t[Len(t)] = line
  <1> DEFINE u == Append(s, line)
  <1>1. /\ u \in Seq(Lines) /\ Len(u) = Len(s) + 1 /\ Len(s) \in Nat /\ u[Len(s) + 1] = line
        /\ \A k \in 1 .. Len(s) : u[k] = s[k]
    OBVIOUS
  <1> HIDE DEF u
  <1>2. CASE Len(s) = LogLines
    <2>1. Last(u) = SubSeq(u, 2, Len(u))
      BY <1>1, <1>2 DEF Last
    <2>2. Len(Last(u)) = Len(s) /\ \A k \in 1 .. Len(s) : Last(u)[k] = u[k + 1]
      BY <1>1, <1>2, <2>1, SubSeqProperties, LogAssumption
    <2>. QED
      BY <1>1, <1>2, <2>2, LogAssumption DEF u
  <1>3. CASE Len(s) # LogLines
    <2>1. Last(u) = SubSeq(u, 1, Len(u))
      BY <1>1, <1>3, LogAssumption DEF Last
    <2>2. Len(Last(u)) = Len(u) /\ \A k \in 1 .. Len(u) : Last(u)[k] = u[k]
      BY <1>1, <2>1, SubSeqProperties
    <2>. QED
      BY <1>1, <1>3, <2>2 DEF u
  <1>. QED
    BY <1>2, <1>3

LEMMA AddFits ==
  ASSUME NEW m \in [Index -> Lines \union {Blank, Garbage}], NEW h \in Index,
         NEW s \in Seq(Lines), Len(s) <= LogLines, NEW line \in Lines, Fits(m, h, s)
  PROVE  NextSlot(h) \in Index /\ Fits([m EXCEPT ![h] = line], NextSlot(h), Last(Append(s, line)))
  <1> DEFINE t == Last(Append(s, line))
             n == [m EXCEPT ![h] = line]
             d == LogLines - Len(s)
             e == LogLines - Len(t)
  <1>0. Len(s) \in Nat /\ LogLines \in Nat \ {0}
    BY LogAssumption
  <1>1. /\ Len(t) = IF Len(s) = LogLines THEN Len(s) ELSE Len(s) + 1
        /\ \A k \in 1 .. Len(t) - 1 : t[k] = IF Len(s) = LogLines THEN s[k + 1] ELSE s[k]
        /\ t[Len(t)] = line
    BY LastShifts
  <1>2. d \in 0 .. LogLines /\ e = IF d = 0 THEN 0 ELSE d - 1
    BY <1>0, <1>1
  <1>3. ASSUME NEW i \in 1 .. LogLines
        PROVE  n[Slot(NextSlot(h), i)] = IF i <= e THEN Blank ELSE t[i - e]
    <2>1. CASE i = LogLines
      <3>1. n[Slot(NextSlot(h), i)] = line
        BY <2>1, SlotsMove
      <3>2. ~(i <= e) /\ i - e = Len(t)
        BY <1>0, <1>1, <1>2, <2>1
      <3>. QED
        BY <1>1, <3>1, <3>2
    <2>2. CASE i < LogLines
      <3>1. PICK j \in 1 .. LogLines : j = i + 1
        BY <1>0, <2>2
      <3>2. Slot(NextSlot(h), i) = Slot(h, j) /\ Slot(h, j) # h /\ Slot(h, j) \in Index
        BY <2>2, <3>1, SlotsMove
      <3>3. n[Slot(NextSlot(h), i)] = m[Slot(h, j)]
        BY <3>2
      <3>4. CASE i <= e
        <4>1. j <= LogLines - Len(s)
          BY <1>0, <1>2, <3>1, <3>4
        <4>2. m[Slot(h, j)] = Blank
          BY <4>1 DEF Fits
        <4>. QED
          BY <3>3, <3>4, <4>2
      <3>5. CASE ~(i <= e)
        <4>1. ~(j <= LogLines - Len(s)) /\ i - e \in 1 .. Len(t) - 1
          BY <1>0, <1>1, <1>2, <2>2, <3>1, <3>5
        <4>2. m[Slot(h, j)] = s[j - (LogLines - Len(s))]
          BY <4>1 DEF Fits
        <4>3. t[i - e] = s[j - (LogLines - Len(s))]
          <5>1. CASE Len(s) = LogLines
            <6>1. (i - e) + 1 = j - (LogLines - Len(s))
              BY <1>0, <1>2, <3>1, <5>1
            <6>. QED
              BY <1>1, <4>1, <5>1, <6>1
          <5>2. CASE Len(s) # LogLines
            <6>1. i - e = j - (LogLines - Len(s))
              BY <1>0, <1>2, <3>1, <5>2
            <6>. QED
              BY <1>1, <4>1, <5>2, <6>1
          <5>. QED
            BY <5>1, <5>2
        <4>. QED
          BY <3>3, <3>5, <4>2, <4>3
      <3>. QED
        BY <3>4, <3>5
    <2>. QED
      BY <1>0, <2>1, <2>2
  <1>4. Fits(n, NextSlot(h), t)
    <2> HIDE DEF n, t
    <2>. QED
      BY <1>3 DEF Fits
  <1>. QED
    BY <1>4, NextSlotInRing

LEMMA RingInvNext == LogType /\ RingInv /\ [Next]_vars => RingInv'
  <1> SUFFICES ASSUME LogType, RingInv, [Next]_vars PROVE RingInv'
    OBVIOUS
  <1>1. ASSUME UNCHANGED <<ring, said>> PROVE RingInv'
    BY <1>1 DEF RingInv, ring, Fits
  <1>2. ASSUME ClearLog PROVE RingInv'
    BY <1>2, ClearFits DEF ClearLog, RingInv
  <1>3. CASE Begin
    BY <1>1, <1>2, <1>3 DEF Begin
  <1>4. ASSUME NEW line \in Lines, Log(line)
        PROVE  RingInv'
    <2>1. CASE LogIsSane
      BY <1>4, <2>1, AddFits DEF Log, Add, LogIsSane, RingInv, LogType
    <2>2. CASE ~LogIsSane
      <3>1. ~logMagic /\ said = <<>>
        BY <2>2, LogAssumption DEF RingInv, LogIsSane, Index, Wild
      <3>2. Cleared \in [Index -> Lines \union {Blank, Garbage}] /\ <<>> \in Seq(Lines) /\ Len(<<>>) <= LogLines
        BY LogAssumption DEF Cleared
      <3>3. NextSlot(0) \in Index /\ Fits([Cleared EXCEPT ![0] = line], NextSlot(0), Last(Append(<<>>, line)))
        BY <3>2, ClearFits, AddFits
      <3>. QED
        BY <1>4, <2>2, <3>1, <3>3 DEF Log, Add, RingInv
    <2>. QED
      BY <2>1, <2>2
  <1>5. CASE NoCard \/ CheckPanic \/ Consume \/ Panic \/ Restart
    BY <1>1, <1>5 DEF NoCard, CheckPanic, Consume, Panic, Restart, history, ring
  <1>6. CASE PowerOn
    BY <1>6 DEF PowerOn, RingInv
  <1>7. CASE UNCHANGED vars
    BY <1>1, <1>7 DEF vars, history
  <1>. QED
    BY <1>3, <1>4, <1>5, <1>6, <1>7 DEF Next

(* getLastLogs(): what the loop has put together after i entries.  Such a   *)
(* function exists, and the loop can be no other.                           *)
Told(i) == IF i <= LogLines - Len(said) THEN <<>> ELSE SubSeq(said, 1, i - (LogLines - Len(said)))

LEMMA Smallest ==
  ASSUME NEW S, S \subseteq Nat, S # {}
  PROVE  \E x \in S : \A y \in S : x <= y
  <1> DEFINE Before == {ss \in Nat \X Nat : ss[1] < ss[2]}
  <1>1. IsWellFoundedOn(Before, Nat)
    BY NatLessThanWellFounded DEF OpToRel
  <1>2. PICK x \in S : \A y \in S : ~(<<y, x>> \in Before)
    <2> HIDE DEF Before
    <2>. QED
      BY <1>1, WFMin
  <1>3. ASSUME NEW y \in S
        PROVE  x <= y
    <2>1. x \in Nat /\ y \in Nat /\ <<y, x>> \in Nat \X Nat
      OBVIOUS
    <2>2. ~(y < x)
      BY <1>2, <2>1
    <2>. QED
      BY <2>1, <2>2
  <1>. QED
    BY <1>3

\* One entry more.
LEMMA ToldNext ==
  ASSUME LogType, RingInv, logMagic, NEW i \in 1 .. LogLines
  PROVE  Told(i) = IF LogEntry(i) = Blank THEN Told(i - 1) ELSE Append(Told(i - 1), LogEntry(i))
  <1> DEFINE d == LogLines - Len(said)
  <1>0. said \in Seq(Lines) /\ Len(said) \in 0 .. LogLines /\ LogLines \in Nat \ {0} /\ d \in 0 .. LogLines
    BY LogAssumption DEF LogType
  <1>1. LogEntry(i) = IF i <= d THEN Blank ELSE said[i - d]
    BY DEF RingInv, Fits, Slot, LogEntry
  <1> HIDE DEF d
  <1>2. Told(i) = IF i <= d THEN <<>> ELSE SubSeq(said, 1, i - d)
    BY DEF Told, d
  <1>3. Told(i - 1) = IF i - 1 <= d THEN <<>> ELSE SubSeq(said, 1, i - 1 - d)
    BY DEF Told, d
  <1>4. CASE i <= d
    BY <1>0, <1>1, <1>2, <1>3, <1>4
  <1>5. CASE ~(i <= d)
    <2> DEFINE k == i - d
    <2>1. k \in 1 .. Len(said) /\ said[k] \in Lines
      BY <1>0, <1>5 DEF d
    <2>2. LogEntry(i) = said[k] /\ LogEntry(i) # Blank
      BY <1>1, <1>5, <2>1, LogAssumption
    <2>3. Told(i - 1) = SubSeq(said, 1, k - 1)
      <3>1. CASE k = 1
        BY <1>0, <1>3, <3>1, SubSeqEmpty
      <3>2. CASE k # 1
        <4>1. ~(i - 1 <= d) /\ i - 1 - d = k - 1
          BY <1>0, <1>5, <2>1, <3>2
        <4>. QED
          BY <1>3, <4>1
      <3>. QED
        BY <3>1, <3>2
    <2>4. Told(i) = SubSeq(said, 1, k)
      BY <1>2, <1>5
    <2> HIDE DEF k
    <2>5. SubSeq(said, 1, k) = Append(SubSeq(said, 1, k - 1), said[k])
      BY <1>0, <2>1, SubSeqProperties
    <2>. QED
      BY <2>2, <2>3, <2>4, <2>5
  <1>. QED
    BY <1>4, <1>5

LEMMA OutputIsSaid ==
  ASSUME LogType, RingInv, logMagic
  PROVE  Output[LogLines] = said
  <1> DEFINE Dom == 0 .. LogLines
             Loop(g) == [i \in Dom |->
               IF i = 0 THEN <<>>
               ELSE IF LogEntry(i) = Blank THEN g[i - 1] ELSE Append(g[i - 1], LogEntry(i))]
             told0 == [i \in Dom |-> Told(i)]
  <1>0. said \in Seq(Lines) /\ Len(said) \in 0 .. LogLines /\ LogLines \in Nat \ {0}
    BY LogAssumption DEF LogType
  <1>1. Told(0) = <<>>
    BY <1>0 DEF Told
  <1>2. told0 = Loop(told0)
    <2>1. ASSUME NEW i \in Dom
          PROVE  told0[i] = IF i = 0 THEN <<>>
                            ELSE IF LogEntry(i) = Blank THEN told0[i - 1]
                            ELSE Append(told0[i - 1], LogEntry(i))
      <3>1. CASE i = 0
        BY <1>0, <1>1, <3>1
      <3>2. CASE i # 0
        <4>1. i \in 1 .. LogLines /\ i - 1 \in Dom
          BY <1>0, <3>2
        <4>. QED
          BY <3>2, <4>1, ToldNext
      <3>. QED
        BY <3>1, <3>2
    <2>. QED
      BY <2>1
  <1>3. Output = CHOOSE g : g = Loop(g)
    BY DEF Output
  <1>4. Output = Loop(Output)
    <2> HIDE DEF Loop, told0
    <2>. QED
      BY <1>2, <1>3
  <1>5. \A i \in Dom : Output[i] = Told(i)
    <2> DEFINE Wrong == {i \in Dom : Output[i] # Told(i)}
    <2>1. SUFFICES ASSUME Wrong # {} PROVE FALSE
      OBVIOUS
    <2>2. PICK i \in Wrong : \A j \in Wrong : i <= j
      <3>1. Wrong \subseteq Nat
        BY <1>0
      <3> HIDE DEF Wrong
      <3>. QED
        BY <2>1, <3>1, Smallest
    <2>3. i \in Dom /\ Output[i] # Told(i)
      OBVIOUS
    <2>4. Output[i] = IF i = 0 THEN <<>>
                      ELSE IF LogEntry(i) = Blank THEN Output[i - 1]
                      ELSE Append(Output[i - 1], LogEntry(i))
      BY <1>4, <2>3
    <2>5. CASE i = 0
      BY <1>1, <2>3, <2>4, <2>5
    <2>6. CASE i # 0
      <3>1. i \in 1 .. LogLines /\ i - 1 \in Dom /\ ~(i <= i - 1)
        BY <1>0, <2>3, <2>6
      <3>2. Output[i - 1] = Told(i - 1)
        BY <2>2, <3>1
      <3>. QED
        BY <2>3, <2>4, <2>6, <3>1, <3>2, ToldNext
    <2>. QED
      BY <2>5, <2>6
  <1>6. Told(LogLines) = said
    <2>1. CASE Len(said) = 0
      BY <1>0, <2>1, EmptySeq DEF Told
    <2>2. CASE Len(said) # 0
      <3>1. Told(LogLines) = SubSeq(said, 1, Len(said))
        BY <1>0, <2>2 DEF Told
      <3>. QED
        BY <1>0, <3>1, SubSeqFull
    <2>. QED
      BY <2>1, <2>2
  <1>. QED
    BY <1>0, <1>5, <1>6

\* The log of every report is what was said last, in its order: for a ring of
\* any size, however often it wrapped and wherever the boots and crashes fell.
THEOREM ReportEndsWithTheLog == Spec => LogIsTheLastLines
<1>1. Init => RingInv
  BY DEF Init, RingInv
<1>2. LogType /\ RingInv /\ [Next]_vars => RingInv'
  BY RingInvNext
<1>3. ASSUME LogType, RingInv, [Next]_vars
      PROVE  [Reports => report'.log = said]_vars
  <2> SUFFICES ASSUME Next, Reports PROVE report'.log = said
    BY <1>3 DEF vars
  <2>1. CheckPanic
    BY DEF Next, Begin, NoCard, Consume, Log, Panic, Restart, PowerOn, Reset, Reports
  <2>2. report'.log = GetLastLogs
    BY <2>1 DEF CheckPanic, Reports
  <2>3. GetLastLogs = said
    BY <1>3, OutputIsSaid DEF GetLastLogs, RingInv
  <2> QED BY <2>2, <2>3
<1>4. Spec => []LogType
  BY TypeInit, LogTypeNext, PTL DEF Spec
<1> QED BY <1>1, <1>2, <1>3, <1>4, PTL DEF Spec, LogIsTheLastLines
=============================================================================
