--------------------------- MODULE MainLoopProofs ---------------------------
(***************************************************************************)
(* MainLoop for every set of keys, board and number of queued taps: the    *)
(* press that woke the device neither powers it off nor toggles the gyro   *)
(* lock, a latched power-off is never dropped, and on a board without side *)
(* buttons a tap moves as far whoever sees it.  Device makes no step that  *)
(* MainLoop does not; a flick turns one page, and the low clock stays in   *)
(* the reader.                                                             *)
(***************************************************************************)
EXTENDS Device, TLAPS

\* TypeOK, one part for each group of variables an action leaves alone.
KeysType  == down \subseteq Keys /\ held \in BOOLEAN /\ press \in {"wake", "user"}
TimeType  == idle \in 0..2 /\ allowed \in BOOLEAN
GpioType  == /\ snap \subseteq Keys /\ released \subseteq Keys
             /\ pressed \in BOOLEAN /\ snapHeld \in BOOLEAN /\ polled \in BOOLEAN
PowerType == /\ wakePending \in BOOLEAN /\ releasedSinceWake \in BOOLEAN
             /\ powerOff \in BOOLEAN /\ tiltLock \in BOOLEAN
QueueType == fwd \in 0..MaxTaps /\ bck \in 0..MaxTaps /\ wanted \in Int
TapType   == conf \in 0..MaxTaps /\ canc \in 0..MaxTaps
LatchType == confirmLatched \in BOOLEAN /\ backLatched \in BOOLEAN
ShownType == screen \in Screens /\ dirty \in BOOLEAN
PcType    == pc \in PcValues /\ after \in {"update", "toggle"} /\ cause \in {"none", "hold", "idle"}

\* While the waking press lasts, its snapshots show it and nothing has released it.
WakePressSeen ==
  (press = "wake" /\ "Power" \in down) =>
    "Power" \in snap /\ ~releasedSinceWake /\ ~powerOff /\ cause # "hold"

\* The wake release is consumed by the first tick that sees the key up.
WakeReleaseOnce ==
  (press = "wake" /\ ~wakePending) =>
    "Power" \notin down /\ "Power" \notin snap /\ (pc # "update" => "Power" \notin released)

\* A pending wake release and an allowed hold exclude each other.
PendingExcludesHold ==
  /\ wakePending => ~releasedSinceWake
  /\ (pc = "activity" /\ wakePending) => "Power" \in snap
  /\ powerOff => powerHoldAllowed
  /\ pc = "asleep" => ~powerOff

IInv == TypeOK /\ WakePressSeen /\ WakeReleaseOnce /\ PendingExcludesHold
-----------------------------------------------------------------------------
AllTypes == /\ KeysType /\ TimeType /\ GpioType /\ PowerType /\ QueueType /\ TapType
            /\ LatchType /\ ShownType /\ PcType

LEMMA TypeParts == (TypeOK <=> AllTypes) /\ (TypeOK' <=> AllTypes')
  BY DEF TypeOK, AllTypes, KeysType, TimeType, GpioType, PowerType, QueueType, TapType,
         LatchType, ShownType, PcType

\* A part keeps its type while its variables do not change.
LEMMA TypeFrame ==
  /\ KeysType  /\ UNCHANGED keys => KeysType'
  /\ TimeType  /\ UNCHANGED time => TimeType'
  /\ GpioType  /\ UNCHANGED gpio => GpioType'
  /\ PowerType /\ UNCHANGED power => PowerType'
  /\ QueueType /\ UNCHANGED queued => QueueType'
  /\ TapType   /\ UNCHANGED <<conf, canc>> => TapType'
  /\ LatchType /\ UNCHANGED latch => LatchType'
  /\ ShownType /\ UNCHANGED <<screen, dirty>> => ShownType'
  /\ PcType    /\ UNCHANGED <<pc, after, cause>> => PcType'
  BY DEF KeysType, TimeType, GpioType, PowerType, QueueType, TapType, LatchType, ShownType,
         PcType, keys, time, gpio, power, queued, latch

\* The power part of the invariant reads only these variables.
LEMMA PowerFrame ==
  ASSUME WakePressSeen, WakeReleaseOnce, PendingExcludesHold,
         UNCHANGED <<keys, time, snap, released, power>>,
         pc # "asleep" => pc' # "asleep",
         pc # "activity" => pc' # "activity",
         pc # "update" \/ pc' = "update",
         UNCHANGED cause
  PROVE  WakePressSeen' /\ WakeReleaseOnce' /\ PendingExcludesHold'
  BY DEF keys, time, power, WakePressSeen, WakeReleaseOnce, PendingExcludesHold, powerHoldAllowed

LEMMA StepsAreInts ==
  ASSUME NEW s \in Screens, NEW rel
  PROVE  StepOf(s, rel) \in Int
  BY DEF Screens, StepOf, ReaderStep, ListStep, Bit

LEMMA TapsAreNats ==
  ASSUME NEW rel
  PROVE  QueuedForward(rel) \in 0..1 /\ QueuedBack(rel) \in 0..1
  BY DEF QueuedForward, QueuedBack, Bit

LEMMA SnapshotType ==
  ASSUME KeysType, Snapshot, GpioType
  PROVE  snap' \subseteq Keys /\ released' \subseteq Keys /\ pressed' \in BOOLEAN /\ snapHeld' \in BOOLEAN
  BY DEF KeysType, GpioType, Snapshot
-----------------------------------------------------------------------------
LEMMA InitIInv == Init => IInv
  <1> SUFFICES ASSUME Init PROVE IInv
    OBVIOUS
  <1> USE KeysAssumption, MaxTapsAssumption DEF Init
  <1>1. KeysType /\ TimeType
    <2>1. (press = "user") \in BOOLEAN
      OBVIOUS
    <2>2. allowed \in BOOLEAN /\ held \in BOOLEAN
      BY <2>1, Zenon
    <2>3. down \subseteq Keys /\ press \in {"wake", "user"} /\ idle \in 0..2
      OBVIOUS
    <2>. QED
      BY <2>2, <2>3, Zenon DEF KeysType, TimeType
  <1>2. GpioType /\ PowerType
    BY DEF GpioType, PowerType
  <1>3. QueueType /\ TapType /\ LatchType
    <2>1. 0 \in 0..MaxTaps /\ 0 \in Int
      OBVIOUS
    <2>2. LatchType
      BY Zenon DEF LatchType
    <2>. QED
      BY <2>1, <2>2 DEF QueueType, TapType
  <1>4. ShownType /\ PcType
    BY DEF ShownType, PcType, PcValues
  <1>5. WakePressSeen /\ WakeReleaseOnce /\ PendingExcludesHold
    BY DEF WakePressSeen, WakeReleaseOnce, PendingExcludesHold
  <1>. QED
    BY <1>1, <1>2, <1>3, <1>4, <1>5, TypeParts DEF IInv, AllTypes

LEMMA PressIInv ==
  ASSUME IInv, NEW k \in Keys, Press(k)
  PROVE  IInv' /\ UNCHANGED power
  <1> USE DEF IInv, AllTypes, Press
  <1>1. KeysType'
    BY TypeParts DEF KeysType
  <1>2. TypeOK'
    BY <1>1, TypeParts, TypeFrame DEF taps, task
  <1>3. WakePressSeen' /\ WakeReleaseOnce' /\ PendingExcludesHold'
    BY DEF UserTurn, time, gpio, power, task, WakePressSeen, WakeReleaseOnce, PendingExcludesHold,
           powerHoldAllowed
  <1>. QED
    BY <1>2, <1>3

LEMMA ReleaseIInv ==
  ASSUME IInv, NEW k \in Keys, Release(k)
  PROVE  IInv' /\ UNCHANGED power
  <1> USE DEF IInv, AllTypes, Release
  <1>1. KeysType'
    BY TypeParts DEF KeysType
  <1>2. TypeOK'
    BY <1>1, TypeParts, TypeFrame DEF taps, task
  <1>3. WakePressSeen' /\ WakeReleaseOnce' /\ PendingExcludesHold'
    BY DEF time, gpio, power, task, WakePressSeen, WakeReleaseOnce, PendingExcludesHold, powerHoldAllowed
  <1>. QED
    BY <1>2, <1>3

LEMMA HoldPowerIInv ==
  ASSUME IInv, HoldPower
  PROVE  IInv' /\ UNCHANGED power
  <1> USE DEF IInv, AllTypes, HoldPower
  <1>1. KeysType'
    BY TypeParts DEF KeysType
  <1>2. TypeOK'
    BY <1>1, TypeParts, TypeFrame DEF taps, task
  <1>3. WakePressSeen' /\ WakeReleaseOnce' /\ PendingExcludesHold'
    BY DEF time, gpio, power, task, WakePressSeen, WakeReleaseOnce, PendingExcludesHold, powerHoldAllowed
  <1>. QED
    BY <1>2, <1>3

LEMMA TimePassesIInv ==
  ASSUME IInv, TimePasses
  PROVE  IInv' /\ UNCHANGED power
  <1> USE DEF IInv, AllTypes, TimePasses
  <1>1. TimeType'
    <2>1. idle' \in 0..2
      BY TypeParts DEF TimeType
    <2>2. allowed' \in BOOLEAN
      BY TypeParts DEF TimeType
    <2>. QED
      BY <2>1, <2>2 DEF TimeType
  <1>2. TypeOK'
    BY <1>1, TypeParts, TypeFrame DEF taps, task
  <1>3. WakePressSeen' /\ WakeReleaseOnce' /\ PendingExcludesHold'
    BY DEF keys, gpio, power, task, WakePressSeen, WakeReleaseOnce, PendingExcludesHold, powerHoldAllowed
  <1>. QED
    BY <1>2, <1>3

\* Nothing is pending, allowed or latched after a boot.
LEMMA WakeIInv ==
  ASSUME IInv, Wake
  PROVE  IInv' /\ ~powerOff
  <1> USE KeysAssumption, MaxTapsAssumption DEF IInv, AllTypes, Wake, Boots, ResetTaps
  <1>1. KeysType' /\ TimeType'
    <2>1. down' \subseteq Keys /\ press' = "wake" /\ idle' = 0
      OBVIOUS
    <2>2. held' \in BOOLEAN /\ allowed' \in BOOLEAN
      BY Zenon
    <2>. QED
      BY <2>1, <2>2 DEF KeysType, TimeType
  <1>2. GpioType'
    BY <1>1 DEF KeysType, GpioType
  <1>3. PowerType'
    BY DEF PowerType
  <1>4. QueueType' /\ TapType' /\ LatchType'
    <2>1. 0 \in 0..MaxTaps /\ 0 \in Int
      OBVIOUS
    <2>2. LatchType'
      BY Zenon DEF LatchType
    <2>. QED
      BY <2>1, <2>2 DEF QueueType, TapType
  <1>5. ShownType' /\ PcType'
    BY DEF ShownType, PcType, PcValues
  <1>6. WakePressSeen' /\ WakeReleaseOnce' /\ PendingExcludesHold'
    BY DEF WakePressSeen, WakeReleaseOnce, PendingExcludesHold
  <1>7. ~powerOff
    BY DEF PendingExcludesHold
  <1>. QED
    BY <1>1, <1>2, <1>3, <1>4, <1>5, <1>6, <1>7, TypeParts

LEMMA UpdateIInv ==
  ASSUME IInv, Update
  PROVE  IInv' /\ UNCHANGED power
  <1> USE DEF IInv, AllTypes, Update
  <1>1. GpioType'
    BY TypeParts, SnapshotType DEF GpioType
  <1>2. LatchType' /\ TapType'
    BY TypeParts, MaxTapsAssumption DEF LatchType, TapType, TapsAfter
  <1>3. PcType'
    BY TypeParts DEF PcType, PcValues
  <1>4. TypeOK'
    BY <1>1, <1>2, <1>3, TypeParts, TypeFrame
  <1>5. WakePressSeen' /\ WakeReleaseOnce' /\ PendingExcludesHold'
    BY DEF Snapshot, keys, time, power, WakePressSeen, WakeReleaseOnce, PendingExcludesHold, powerHoldAllowed
  <1>. QED
    BY <1>4, <1>5

\* While the release is pending no hold has been latched, so nothing is cleared.
LEMMA ConsumeIInv ==
  ASSUME IInv, ConsumeWakeRelease
  PROVE  IInv' /\ (powerOff => powerOff')
  <1> USE DEF IInv, AllTypes, ConsumeWakeRelease
  <1>1. PowerType' /\ PcType'
    BY TypeParts DEF PowerType, PcType, PcValues, power
  <1>2. TypeOK'
    BY <1>1, TypeParts, TypeFrame DEF taps
  <1>3. WakePressSeen' /\ WakeReleaseOnce' /\ PendingExcludesHold' /\ (powerOff => powerOff')
    BY DEF keys, time, gpio, power, WakePressSeen, WakeReleaseOnce, PendingExcludesHold, powerHoldAllowed
  <1>. QED
    BY <1>2, <1>3

LEMMA ActivityIInv ==
  ASSUME IInv, NoteUserActivity
  PROVE  IInv' /\ UNCHANGED powerOff
  <1> USE DEF IInv, AllTypes, NoteUserActivity
  <1>1. PowerType' /\ PcType'
    BY TypeParts DEF PowerType, PcType, PcValues
  <1>2. TimeType'
    BY TypeParts DEF TimeType
  <1>3. TypeOK'
    BY <1>1, <1>2, TypeParts, TypeFrame DEF taps
  <1>4. WakePressSeen' /\ WakeReleaseOnce' /\ PendingExcludesHold'
    BY DEF keys, gpio, WakePressSeen, WakeReleaseOnce, PendingExcludesHold, powerHoldAllowed
  <1>. QED
    BY <1>3, <1>4

\* The device sleeps with nothing latched: an allowed, latched hold sleeps first.
LEMMA SleepIInv ==
  ASSUME IInv, MaybeSleep
  PROVE  IInv' /\ ((powerOff /\ ~powerOff') => pc' = "asleep")
  <1> USE DEF IInv, AllTypes, MaybeSleep, EnterDeepSleep, SetTiltLock
  <1>1. PowerType'
    BY TypeParts DEF PowerType, power
  <1>2. PcType'
    BY TypeParts DEF PcType, PcValues
  <1>3. ShownType'
    BY TypeParts DEF ShownType
  <1>4. TypeOK'
    BY <1>1, <1>2, <1>3, TypeParts, TypeFrame DEF taps
  <1>5. WakePressSeen' /\ WakeReleaseOnce' /\ PendingExcludesHold' /\ ((powerOff /\ ~powerOff') => pc' = "asleep")
    BY DEF HoldSleeps, keys, time, gpio, power, WakePressSeen, WakeReleaseOnce, PendingExcludesHold,
           powerHoldAllowed
  <1>. QED
    BY <1>4, <1>5

\* A release that toggles the lock belongs to a later press.
LEMMA ToggleIInv ==
  ASSUME IInv, MaybeToggleTiltLock
  PROVE  /\ IInv' /\ UNCHANGED powerOff
         /\ ("Power" \in released /\ tiltLock' # tiltLock) => press = "user"
  <1> USE DEF IInv, AllTypes, MaybeToggleTiltLock, SetTiltLock
  <1>1. PowerType'
    BY TypeParts DEF PowerType
  <1>2. PcType'
    BY TypeParts DEF PcType, PcValues
  <1>3. ShownType'
    BY TypeParts DEF ShownType
  <1>4. TypeOK'
    BY <1>1, <1>2, <1>3, TypeParts, TypeFrame DEF taps
  <1>5. WakePressSeen' /\ WakeReleaseOnce' /\ PendingExcludesHold'
    BY DEF keys, time, gpio, WakePressSeen, WakeReleaseOnce, PendingExcludesHold, powerHoldAllowed
  <1>6. wakePending => tiltLock' = tiltLock
    OBVIOUS
  <1>7. press # "user" => press = "wake"
    BY TypeParts DEF KeysType
  <1>8. ("Power" \in released /\ tiltLock' # tiltLock) => press = "user"
    BY <1>6, <1>7 DEF WakeReleaseOnce
  <1>. QED
    BY <1>4, <1>5, <1>8

\* A screen leaves the queued taps alone or clears both directions together.
LEMMA ScreenTaps ==
  ASSUME RunScreen
  PROVE  \/ UNCHANGED taps
         \/ fwd' = 0 /\ bck' = 0 /\ wanted' = 0 /\ UNCHANGED <<conf, canc>>
         \/ fwd' = 0 /\ bck' = 0 /\ wanted' = 0 /\ conf' = 0 /\ canc' = 0
  BY DEF RunScreen, ReaderRuns, ListRuns, BusyRuns, Navigate, ResetTaps, Consume

LEMMA ScreenIInv ==
  ASSUME IInv, RunScreen
  PROVE  IInv' /\ UNCHANGED powerOff
  <1> USE DEF IInv, AllTypes, RunScreen
  <1>1. screen' \in Screens /\ dirty' \in BOOLEAN
    BY TypeParts DEF ShownType, Screens, ReaderRuns, ListRuns, BusyRuns, Navigate
  <1>2. QueueType' /\ TapType'
    BY ScreenTaps, TypeParts, MaxTapsAssumption DEF QueueType, TapType, taps, queued
  <1>3. PcType'
    BY TypeParts DEF PcType, PcValues
  <1>4. TypeOK'
    BY <1>1, <1>2, <1>3, TypeParts, TypeFrame DEF ShownType
  <1>5. WakePressSeen' /\ WakeReleaseOnce' /\ PendingExcludesHold' /\ UNCHANGED powerOff
    BY PowerFrame DEF gpio, power
  <1>. QED
    BY <1>4, <1>5

LEMMA DrawIInv ==
  ASSUME IInv, Draw
  PROVE  IInv' /\ UNCHANGED powerOff
  <1> USE DEF IInv, AllTypes, Draw
  <1>1. ShownType' /\ PcType'
    BY TypeParts DEF ShownType, PcType, PcValues
  <1>2. TypeOK'
    BY <1>1, TypeParts, TypeFrame DEF taps
  <1>3. WakePressSeen' /\ WakeReleaseOnce' /\ PendingExcludesHold' /\ UNCHANGED powerOff
    BY PowerFrame DEF gpio, power
  <1>. QED
    BY <1>2, <1>3

LEMMA PollIInv ==
  ASSUME IInv, Poll
  PROVE  IInv' /\ (powerOff => powerOff')
  <1> USE DEF IInv, AllTypes, Poll, PollForHold
  <1>1. GpioType'
    BY TypeParts, SnapshotType DEF GpioType
  <1>2. QueueType' /\ TapType'
    <2>1. fwd' \in 0..MaxTaps /\ bck' \in 0..MaxTaps
      BY TypeParts, TapsAreNats, MaxTapsAssumption DEF QueueType
    <2>2. conf' \in 0..MaxTaps /\ canc' \in 0..MaxTaps
      BY TypeParts, MaxTapsAssumption DEF TapType, Bit
    <2>3. wanted' \in Int
      BY TypeParts, StepsAreInts DEF QueueType, ShownType
    <2>. QED
      BY <2>1, <2>2, <2>3 DEF QueueType, TapType
  <1>3. PowerType'
    BY TypeParts DEF PowerType
  <1>4. TypeOK'
    BY <1>1, <1>2, <1>3, TypeParts, TypeFrame DEF task
  <1>5. WakePressSeen' /\ WakeReleaseOnce' /\ PendingExcludesHold' /\ (powerOff => powerOff')
    BY DEF Snapshot, keys, time, task, WakePressSeen, WakeReleaseOnce, PendingExcludesHold, powerHoldAllowed
  <1>. QED
    BY <1>4, <1>5

LEMMA PaintIInv ==
  ASSUME IInv, PaintEnds
  PROVE  IInv' /\ UNCHANGED powerOff
  <1> USE DEF IInv, AllTypes, PaintEnds
  <1>1. PcType' /\ pc' \in {"update", "toggle"}
    BY TypeParts DEF PcType, PcValues
  <1>2. TypeOK'
    BY <1>1, TypeParts, TypeFrame DEF taps
  <1>3. WakePressSeen' /\ WakeReleaseOnce' /\ PendingExcludesHold' /\ UNCHANGED powerOff
    BY <1>1, PowerFrame DEF gpio, power
  <1>. QED
    BY <1>2, <1>3
-----------------------------------------------------------------------------
\* Each step keeps the invariant; none but falling asleep drops a latched power-off,
\* and none lets the waking press toggle the lock.
LEMMA StepIInv ==
  ASSUME IInv, Next
  PROVE  /\ IInv'
         /\ (powerOff /\ ~powerOff') => pc' = "asleep"
         /\ (pc = "toggle" /\ "Power" \in released /\ tiltLock' # tiltLock) => press = "user"
  <1>1. ASSUME NEW k \in Keys, Press(k) PROVE IInv' /\ UNCHANGED power
    BY <1>1, PressIInv
  <1>2. ASSUME NEW k \in Keys, Release(k) PROVE IInv' /\ UNCHANGED power
    BY <1>2, ReleaseIInv
  <1>3. CASE \E k \in Keys : Press(k) \/ Release(k)
    BY <1>1, <1>2, <1>3 DEF power
  <1>4. CASE HoldPower           BY <1>4, HoldPowerIInv DEF power
  <1>5. CASE TimePasses          BY <1>5, TimePassesIInv DEF power
  <1>6. CASE Wake                BY <1>6, WakeIInv DEF Wake
  <1>7. CASE Update              BY <1>7, UpdateIInv DEF power
  <1>8. CASE ConsumeWakeRelease  BY <1>8, ConsumeIInv DEF ConsumeWakeRelease
  <1>9. CASE NoteUserActivity    BY <1>9, ActivityIInv DEF NoteUserActivity
  <1>10. CASE MaybeSleep         BY <1>10, SleepIInv DEF MaybeSleep
  <1>11. CASE MaybeToggleTiltLock BY <1>11, ToggleIInv
  <1>12. CASE RunScreen          BY <1>12, ScreenIInv DEF RunScreen
  <1>13. CASE Draw
    <2>1. pc = "draw"
      BY <1>13 DEF Draw
    <2>. QED
      BY <1>13, <2>1, DrawIInv
  <1>14. CASE Poll               BY <1>14, PollIInv DEF Poll
  <1>15. CASE PaintEnds          BY <1>15, PaintIInv DEF PaintEnds
  <1>. QED
    BY <1>3, <1>4, <1>5, <1>6, <1>7, <1>8, <1>9, <1>10, <1>11, <1>12, <1>13, <1>14, <1>15
    DEF Next, Loop, World

LEMMA StutterIInv ==
  ASSUME IInv, UNCHANGED vars
  PROVE  IInv'
  BY TypeParts, TypeFrame
  DEF IInv, AllTypes, vars, taps, task, keys, time, gpio, power, WakePressSeen, WakeReleaseOnce,
      PendingExcludesHold, powerHoldAllowed

LEMMA Invariance == Spec => []IInv
  <1>1. IInv /\ [Next]_vars => IInv'
    BY StepIInv, StutterIInv
  <1>. QED
    BY InitIInv, <1>1, PTL DEF Spec

\* Every variable keeps its range.
THEOREM TypeCorrect == Spec => []TypeOK
  <1>1. IInv => TypeOK
    BY DEF IInv
  <1>. QED
    BY <1>1, Invariance, PTL

\* However long the waking press lasts and however many refreshes it spans, it
\* neither sleeps the device again nor leaves a power-off behind.
THEOREM WakePressIsSafe == Spec => []WakePressNeverSleeps
  <1>1. IInv => WakePressNeverSleeps
    BY DEF IInv, WakePressSeen, WakePressNeverSleeps
  <1>. QED
    BY <1>1, Invariance, PTL

\* The release of the waking press never toggles the gyro lock.
THEOREM WakeReleaseIsSafe == Spec => WakeReleaseNeverToggles
  <1>1. IInv /\ [Next]_vars =>
          [(pc = "toggle" /\ "Power" \in released /\ tiltLock' # tiltLock) => press = "user"]_vars
    BY StepIInv
  <1>. QED
    BY <1>1, Invariance, PTL DEF Spec, WakeReleaseNeverToggles

\* A power-off latched inside a refresh is dropped by no step but falling asleep.
THEOREM LatchedPowerOffIsKept == Spec => PowerOffIsKept
  <1>1. IInv /\ [Next]_vars => [(powerOff /\ ~powerOff') => pc' = "asleep"]_vars
    BY StepIInv
  <1>. QED
    BY <1>1, Invariance, PTL DEF Spec, PowerOffIsKept

\* How many steps of the loop are left, at most, before maybeSleep() has run.
StepsToSleep ==
  IF pc = "asleep" THEN 0
  ELSE IF pc = "sleep" THEN 1
  ELSE IF pc = "activity" THEN 2
  ELSE IF pc = "wake" THEN 3
  ELSE IF pc = "update" THEN 4
  ELSE IF pc = "paint" /\ after = "update" THEN 5
  ELSE IF pc = "draw" THEN 6
  ELSE IF pc = "screens" THEN 7
  ELSE IF pc = "toggle" THEN 8
  ELSE 9

\* With a latched power-off every step of the loop leads on: no tick is cut short by
\* the waking press, and no gyro lock comes between.
LEMMA LoopLeadsOn ==
  ASSUME IInv, powerOff, Loop
  PROVE  StepsToSleep' < StepsToSleep
  <1> USE DEF StepsToSleep
  <1>1. /\ ~wakePending /\ powerHoldAllowed /\ pc # "asleep"
        /\ pc \in PcValues /\ after \in {"update", "toggle"}
    BY DEF IInv, PendingExcludesHold, powerHoldAllowed, TypeOK
  <1>2. CASE Update
    BY <1>2 DEF Update
  <1>3. CASE ConsumeWakeRelease
    BY <1>1, <1>3 DEF ConsumeWakeRelease
  <1>4. CASE NoteUserActivity
    BY <1>4 DEF NoteUserActivity
  <1>5. CASE MaybeSleep
    BY <1>1, <1>5 DEF MaybeSleep, HoldSleeps, EnterDeepSleep
  <1>6. CASE MaybeToggleTiltLock
    BY <1>6 DEF MaybeToggleTiltLock, SetTiltLock
  <1>7. CASE RunScreen
    BY <1>7 DEF RunScreen
  <1>8. CASE Draw
    BY <1>8 DEF Draw
  <1>9. CASE PaintEnds
    BY <1>1, <1>9 DEF PaintEnds
  <1>. QED
    BY <1>2, <1>3, <1>4, <1>5, <1>6, <1>7, <1>8, <1>9 DEF Loop

LEMMA OthersWait ==
  ASSUME [Next]_vars, ~Loop, pc # "asleep"
  PROVE  StepsToSleep' = StepsToSleep
  <1>1. UNCHANGED <<pc, after>>
    BY DEF Next, Poll, World, Press, Release, HoldPower, TimePasses, Wake, task, vars
  <1>. QED
    BY <1>1 DEF StepsToSleep

\* A latched power-off puts the device to sleep within nine steps of the loop, that
\* is one tick and the refresh it was latched in; only the loop's steps count, and
\* what the user, the clock or a refresh's polls do takes none back (Power.cpp
\* maybeSleep(), main.cpp loop()).
THEOREM PowerOffIsNear ==
  Spec => [][powerOff => /\ StepsToSleep \in 1 .. 9
                         /\ IF Loop THEN StepsToSleep' < StepsToSleep
                                    ELSE StepsToSleep' = StepsToSleep]_vars
  <1>1. IInv /\ powerOff => pc # "asleep"
    BY DEF IInv, PendingExcludesHold
  <1>2. pc # "asleep" => StepsToSleep \in 1 .. 9
    BY DEF StepsToSleep
  <1>3. IInv /\ [Next]_vars
          => [powerOff => /\ StepsToSleep \in 1 .. 9
                          /\ IF Loop THEN StepsToSleep' < StepsToSleep
                                     ELSE StepsToSleep' = StepsToSleep]_vars
    BY <1>1, <1>2, LoopLeadsOn, OthersWait
  <1>. QED
    BY <1>3, Invariance, PTL DEF Spec
-----------------------------------------------------------------------------
\* Without side buttons and gyro the queued taps are what they meant, and no refresh
\* comes between a tick's snapshot and its screen.
TapsInv ==
  /\ wanted = fwd - bck
  /\ pc \in {"wake", "activity", "sleep", "toggle", "screens"} => ~polled
  /\ after = "update"

\* On such a board every screen reads a release the way a refresh queues it.
LEMMA QueuedAsMeant ==
  ASSUME ~EdgeSides, NEW s \in Screens, NEW rel
  PROVE  StepOf(s, rel) = QueuedForward(rel) - QueuedBack(rel)
  <1> DEFINE F == rel \intersect {"Down", "Right"} # {}
             B == rel \intersect {"Up", "Left"} # {}
  <1>1. QueuedForward(rel) = Bit(F)
    BY DEF QueuedForward
  <1>2. QueuedBack(rel) = Bit(B)
    <2>1. {"Left"} \union {"Up"} = {"Up", "Left"}
      OBVIOUS
    <2>. QED
      BY <2>1 DEF QueuedBack
  <1>3. ListStep(rel) = Bit(F) - Bit(B)
    BY DEF ListStep
  <1>4. ReaderStep(rel) = Bit(F) - Bit(B)
    <2>1. {"Left"} \union {"Up"} = {"Up", "Left"}
      OBVIOUS
    <2>. QED
      BY <2>1 DEF ReaderStep
  <1>. QED
    BY <1>1, <1>2, <1>3, <1>4 DEF StepOf

LEMMA TapsStep ==
  ASSUME ~EdgeSides, ~HasTilt, IInv, TapsInv, [Next]_vars
  PROVE  TapsInv'
  <1> USE DEF TapsInv
  <1>1. ASSUME NEW k \in Keys, Press(k) PROVE TapsInv'
    BY <1>1 DEF Press, taps, queued, gpio, task
  <1>2. ASSUME NEW k \in Keys, Release(k) PROVE TapsInv'
    BY <1>2 DEF Release, taps, queued, gpio, task
  <1>3. CASE HoldPower  BY <1>3 DEF HoldPower, taps, queued, gpio, task
  <1>4. CASE TimePasses BY <1>4 DEF TimePasses, taps, queued, gpio, task
  <1>5. CASE Wake       BY <1>5 DEF Wake, Boots, ResetTaps
  <1>6. CASE Update     BY <1>6 DEF Update, queued
  <1>7. CASE ConsumeWakeRelease
    BY <1>7 DEF ConsumeWakeRelease, gpio, taps, queued
  <1>8. CASE NoteUserActivity
    BY <1>8 DEF NoteUserActivity, gpio, taps, queued
  <1>9. CASE MaybeSleep
    BY <1>9 DEF MaybeSleep, EnterDeepSleep, gpio, taps, queued
  <1>10. CASE MaybeToggleTiltLock
    BY <1>10 DEF MaybeToggleTiltLock, SetTiltLock, gpio, taps, queued
  <1>11. CASE RunScreen
    <2>1. wanted' = fwd' - bck'
      BY <1>11, ScreenTaps DEF taps, queued
    <2>2. pc' = "draw" /\ UNCHANGED after
      BY <1>11 DEF RunScreen
    <2>. QED
      BY <2>1, <2>2
  <1>12. CASE Draw      BY <1>12 DEF Draw, gpio, taps, queued
  <1>13. CASE Poll
    <2>1. screen \in Screens /\ fwd \in Int /\ bck \in Int
      BY TypeParts DEF IInv, AllTypes, ShownType, QueueType
    <2>2. StepOf(screen, released') = QueuedForward(released') - QueuedBack(released')
      BY <2>1, QueuedAsMeant
    <2>3. QueuedForward(released') \in Int /\ QueuedBack(released') \in Int
      BY TapsAreNats
    <2>. QED
      BY <1>13, <2>1, <2>2, <2>3 DEF Poll, task
  <1>14. CASE PaintEnds BY <1>14 DEF PaintEnds, gpio, taps, queued
  <1>15. CASE UNCHANGED vars
    BY <1>15 DEF vars, taps, queued, gpio, task
  <1>. QED
    BY <1>1, <1>2, <1>3, <1>4, <1>5, <1>6, <1>7, <1>8, <1>9, <1>10, <1>11, <1>12, <1>13, <1>14, <1>15
    DEF Next, Loop, World

LEMMA TapsInvariance ==
  ASSUME ~EdgeSides, ~HasTilt
  PROVE  Spec => [](IInv /\ TapsInv)
  <1>1. Init => TapsInv
    BY DEF Init, TapsInv
  <1>2. IInv /\ TapsInv /\ [Next]_vars => TapsInv'
    BY TapsStep
  <1>. QED
    BY <1>1, <1>2, Invariance, PTL DEF Spec

\* What the running screen reads is what the taps meant.
LEMMA DeltaAsMeant ==
  ASSUME IInv, TapsInv, pc = "screens"
  PROVE  Delta = Meant
  <1>1. StepOf(screen, released) \in Int /\ fwd \in Int /\ bck \in Int
    BY StepsAreInts, TypeParts DEF IInv, AllTypes, ShownType, QueueType
  <1>. QED
    BY <1>1 DEF TapsInv, Delta, Meant

\* On a board without side buttons and gyro, a list moves as far as its keys were
\* pressed and in their direction, however many releases a refresh took in.
THEOREM ListsMoveAsPressed ==
  ASSUME ~EdgeSides, ~HasTilt
  PROVE  Spec => []ListMovesAsPressed
  <1>1. IInv /\ TapsInv => ListMovesAsPressed
    BY DeltaAsMeant DEF ListMovesAsPressed
  <1>. QED
    BY <1>1, TapsInvariance, PTL

\* The same for the reader's pages.
THEOREM PagesTurnAsPressed ==
  ASSUME ~EdgeSides, ~HasTilt
  PROVE  Spec => []ReaderTurnsAsPressed
  <1>1. IInv /\ TapsInv => ReaderTurnsAsPressed
    BY DeltaAsMeant DEF ReaderTurnsAsPressed
  <1>. QED
    BY <1>1, TapsInvariance, PTL
-----------------------------------------------------------------------------
\* Sensor and clock only add to the loop: what is proved of it holds with them.
THEOREM DeviceIsMainLoop == DeviceSpec => Spec
  <1>1. DeviceInit => Init
    BY DEF DeviceInit
  <1>2. [DeviceNext]_deviceVars => [Next]_vars
    <2>1. DeviceLoop => Loop
      BY DEF DeviceLoop, DeviceInput, DeviceActivity, DeviceSleep, DeviceToggle, DeviceScreen,
             DeviceDraw, DevicePaintEnds, Loop
    <2>2. DevicePoll => Poll
      BY DEF DevicePoll
    <2>3. DeviceWorld => World \/ UNCHANGED vars
      BY DEF DeviceWorld, DeviceWakes, World
    <2>4. UNCHANGED deviceVars => UNCHANGED vars
      BY DEF deviceVars
    <2>. QED
      BY <2>1, <2>2, <2>3, <2>4 DEF DeviceNext, Next
  <1>. QED
    BY <1>1, <1>2, PTL DEF DeviceSpec, Spec

\* The low clock leaves the reader only into the render of the next screen.
ClockInv == isLowPower => screen = "Reader" \/ (pc = "draw" /\ dirty)

LEMMA ClockStep ==
  ASSUME ClockInv, [DeviceNext]_deviceVars
  PROVE  ClockInv'
  <1> USE DEF ClockInv
  <1>1. CASE UNCHANGED deviceVars
    BY <1>1 DEF deviceVars, vars, clock, task
  <1>2. CASE DeviceInput
    BY <1>2 DEF DeviceInput, Update, ConsumeWakeRelease, clock
  <1>3. CASE DeviceActivity
    BY <1>3 DEF DeviceActivity, NoteUserActivity, SetPowerSaving, clock
  <1>4. CASE DeviceSleep
    BY <1>4 DEF DeviceSleep, MaybeSleep, EnterDeepSleep, SetTiltLock, TakeLock, clock
  <1>5. CASE DeviceToggle
    BY <1>5 DEF DeviceToggle, MaybeToggleTiltLock, SetTiltLock, clock
  <1>6. CASE DeviceScreen
    <2>1. pc = "screens" /\ pc' = "draw" /\ UNCHANGED isLowPower
      BY <1>6 DEF DeviceScreen, RunScreen, clock
    <2>2. screen = "Reader" => screen' = "Reader" \/ dirty'
      BY <1>6 DEF DeviceScreen, RunScreen, ReaderRuns, ListRuns, BusyRuns, Navigate
    <2>. QED
      BY <2>1, <2>2
  <1>7. CASE DeviceDraw
    BY <1>7 DEF DeviceDraw, Draw, TakeLock, IdleDelay
  <1>8. CASE DevicePaintEnds
    BY <1>8 DEF DevicePaintEnds, PaintEnds, IdleDelay, clock
  <1>9. CASE DevicePoll
    BY <1>9 DEF DevicePoll, Poll, task, clock
  <1>10. CASE DeviceWakes
    BY <1>10 DEF DeviceWakes
  <1>11. CASE pc = "update" /\ SensorTime /\ UNCHANGED <<vars, clock>>
    BY <1>11 DEF vars, task, clock
  <1>12. CASE ((\E k \in Keys : Press(k) \/ Release(k)) \/ HoldPower \/ TimePasses) /\ UNCHANGED <<tilt, clock>>
    BY <1>12 DEF Press, Release, HoldPower, TimePasses, task, clock
  <1>. QED
    BY <1>1, <1>2, <1>3, <1>4, <1>5, <1>6, <1>7, <1>8, <1>9, <1>10, <1>11, <1>12
    DEF DeviceNext, DeviceLoop, DeviceWorld

\* Whichever way the reader is left, the next screen runs at full speed.
THEOREM LowClockStaysInReader == DeviceSpec => []LowOnlyInReader
  <1>1. DeviceInit => ClockInv
    BY DEF DeviceInit, ClockInit, ClockInv
  <1>2. ClockInv => LowOnlyInReader
    BY DEF ClockInv, LowOnlyInReader
  <1>. QED
    BY <1>1, <1>2, ClockStep, PTL DEF DeviceSpec
-----------------------------------------------------------------------------
\* Events are of flicks still due, or the IMU refused to forget them.  Those of
\* a visit that ended are gone before the next screen runs.
Owed == events \subseteq due \/ refused
TiltInv ==
  /\ events # {} => awake
  /\ spent => inTilt
  /\ Owed \/ (screen # "Reader" /\ pc # "screens")

\* Standing by, done or refused, leaves nothing that would turn a page unseen.
LEMMA StandbyOwes ==
  ASSUME TiltInv, DeepSleepSensor
  PROVE  (events' # {} => awake') /\ (spent' => inTilt') /\ Owed'
  <1>1. CASE StandsBy
    BY <1>1 DEF StandsBy, ClearPendingEvents, Owed
  <1>2. CASE RefusesToStandBy
    <2>1. UNCHANGED <<awake, inTilt, events, spent>>
      BY <1>2 DEF RefusesToStandBy, sensor
    <2>2. events # {} => refused'
      BY <1>2 DEF RefusesToStandBy
    <2>. QED
      BY <2>1, <2>2 DEF TiltInv, Owed
  <1>. QED
    BY <1>1, <1>2 DEF DeepSleepSensor

LEMMA LockOwes ==
  ASSUME TiltInv, LockStandsBy, UNCHANGED screen, pc' # "screens"
  PROVE  TiltInv'
  <1>1. CASE DeepSleepSensor
    BY <1>1, StandbyOwes DEF TiltInv
  <1>2. CASE UNCHANGED tilt
    <2>1. UNCHANGED <<awake, inTilt, events, spent, due, refused>>
      BY <1>2 DEF tilt, sensor, flicks
    <2>. QED
      BY <2>1 DEF TiltInv, Owed
  <1>. QED
    BY <1>1, <1>2 DEF LockStandsBy

\* What update() leaves is due, whether the reader is on top or not.
LEMMA UpdateOwes ==
  ASSUME TiltInv, NEW asked \in BOOLEAN, UpdateSensor(asked), asked => screen = "Reader"
  PROVE  (events' # {} => awake') /\ (spent' => inTilt') /\ Owed'
  <1>1. CASE asked /\ ~awake
    <2>1. events = {}
      BY <1>1 DEF TiltInv
    <2>2. UNCHANGED <<inTilt, events, spent>>
      BY <1>1 DEF UpdateSensor, WakeSensor, tilt, sensor, flicks
    <2>. QED
      BY <2>1, <2>2 DEF TiltInv, Owed
  <1>2. CASE DeepSleepSensor
    BY <1>2, StandbyOwes
  <1>3. ASSUME asked, awake, NEW rate \in Rates, Sample(rate)
        PROVE  (events' # {} => awake') /\ (spent' => inTilt') /\ Owed'
    <2>1. Owed
      BY <1>3 DEF TiltInv
    <2>2. CASE Triggers(rate)
      <3>1. events' = events \union {rate} /\ due' = due \union {rate} /\ inTilt'
        BY <1>3, <2>2 DEF Sample, Triggers, TiltInv
      <3>2. awake' = awake /\ refused' = refused
        BY <1>3 DEF Sample
      <3>. QED
        BY <2>1, <3>1, <3>2, <1>3 DEF Owed
    <2>3. CASE ~Triggers(rate)
      <3>1. events' = events /\ due' = due /\ awake' = awake /\ refused' = refused
        BY <1>3, <2>3 DEF Sample
      <3>2. spent' => inTilt'
        BY <1>3, <2>3 DEF Sample, TiltInv
      <3>. QED
        BY <2>1, <3>1, <3>2, <1>3 DEF Owed
    <2>. QED
      BY <2>2, <2>3
  <1>4. CASE asked = awake /\ UNCHANGED tilt
    <2>1. UNCHANGED <<awake, inTilt, events, spent, due, refused>>
      BY <1>4 DEF tilt, sensor, flicks
    <2>2. Owed
      BY <1>4 DEF TiltInv, Owed
    <2>. QED
      BY <2>1, <2>2 DEF TiltInv, Owed
  <1>. QED
    BY <1>1, <1>2, <1>3, <1>4 DEF UpdateSensor

LEMMA ScreenOwes ==
  ASSUME TiltInv, DeviceScreen
  PROVE  TiltInv'
  <1>1. pc = "screens" /\ pc' = "draw" /\ Owed
    BY DEF DeviceScreen, RunScreen, TiltInv
  <1>2. CASE ReaderTurns
    <2>1. ConsumeTilt
      BY <1>2 DEF DeviceScreen
    <2>2. (events' # {} => awake') /\ (spent' => inTilt')
      BY <2>1 DEF ConsumeTilt, TiltInv
    <2>3. Owed'
      BY <1>1, <2>1 DEF ConsumeTilt, Owed
    <2>. QED
      BY <2>2, <2>3 DEF TiltInv
  <1>3. CASE screen = "Reader" /\ backLatched
    <2>1. LeaveReader
      BY <1>1, <1>3 DEF DeviceScreen, ReaderTurns
    <2>. QED
      BY <2>1 DEF LeaveReader, ClearPendingEvents, TiltInv, Owed
  <1>4. CASE screen = "Reader" /\ ~backLatched /\ confirmLatched
    <2>1. \/ screen' # "Reader" /\ due' = {} /\ UNCHANGED <<sensor, spent, refused>>
          \/ UNCHANGED tilt
      BY <1>1, <1>4 DEF DeviceScreen, ReaderTurns
    <2>2. CASE UNCHANGED tilt
      <3>1. UNCHANGED <<awake, inTilt, events, spent, due, refused>>
        BY <2>2 DEF tilt, sensor, flicks
      <3>. QED
        BY <1>1, <3>1 DEF TiltInv, Owed
    <2>3. CASE screen' # "Reader" /\ UNCHANGED <<sensor, spent, refused>>
      BY <1>1, <2>3 DEF sensor, TiltInv
    <2>. QED
      BY <2>1, <2>2, <2>3
  <1>5. CASE screen # "Reader"
    <2>1. UNCHANGED tilt
      BY <1>5 DEF DeviceScreen, ReaderTurns
    <2>2. UNCHANGED <<awake, inTilt, events, spent, due, refused>>
      BY <2>1 DEF tilt, sensor, flicks
    <2>. QED
      BY <1>1, <2>2 DEF TiltInv, Owed
  <1>. QED
    BY <1>1, <1>2, <1>3, <1>4, <1>5 DEF ReaderTurns

\* A step that leaves the sensor and the screen alone, and is not the way to the screens.
LEMMA TiltFrame ==
  ASSUME TiltInv, UNCHANGED <<awake, inTilt, events, spent, due, refused>>, UNCHANGED screen,
         pc' = "screens" => pc = "screens"
  PROVE  TiltInv'
  BY DEF TiltInv, Owed

LEMMA TiltStep ==
  ASSUME TypeOK, TiltInv, [DeviceNext]_deviceVars
  PROVE  TiltInv'
  <1>1. CASE UNCHANGED deviceVars
    BY <1>1, TiltFrame DEF deviceVars, vars, task, tilt, sensor, flicks
  <1>2. CASE DeviceInput
    BY <1>2, TiltFrame DEF DeviceInput, Update, ConsumeWakeRelease, tilt, sensor, flicks
  <1>3. CASE DeviceActivity
    BY <1>3, TiltFrame DEF DeviceActivity, NoteUserActivity, AskActivity, flicks
  <1>4. CASE DeviceSleep
    <2>1. UNCHANGED screen /\ pc' # "screens"
      BY <1>4 DEF DeviceSleep, MaybeSleep, EnterDeepSleep, SetTiltLock
    <2>2. CASE DeepSleepSensor
      BY <2>1, <2>2, StandbyOwes DEF TiltInv
    <2>3. CASE LockStandsBy
      BY <2>1, <2>3, LockOwes
    <2>. QED
      BY <1>4, <2>2, <2>3 DEF DeviceSleep
  <1>5. CASE DeviceToggle
    <2>1. UNCHANGED screen
      BY <1>5 DEF DeviceToggle, MaybeToggleTiltLock
    <2>2. CASE pc' = "screens"
      <3> DEFINE asked == HasTilt /\ ~tiltLock' /\ screen = "Reader"
      <3>1. UpdateSensor(asked) /\ asked \in BOOLEAN /\ (asked => screen = "Reader")
        BY <1>5, <2>2 DEF DeviceToggle
      <3> HIDE DEF asked
      <3>2. (events' # {} => awake') /\ (spent' => inTilt') /\ Owed'
        BY <3>1, UpdateOwes
      <3>. QED
        BY <3>2 DEF TiltInv
    <2>3. CASE pc' # "screens"
      BY <1>5, <2>1, <2>3, LockOwes DEF DeviceToggle
    <2>. QED
      BY <2>2, <2>3
  <1>6. CASE DeviceScreen
    BY <1>6, ScreenOwes
  <1>7. CASE DeviceDraw
    BY <1>7, TiltFrame DEF DeviceDraw, Draw, tilt, sensor, flicks
  <1>8. CASE DevicePaintEnds
    <2>1. after # "screens"
      BY DEF TypeOK
    <2>. QED
      BY <1>8, <2>1, TiltFrame DEF DevicePaintEnds, PaintEnds, tilt, sensor, flicks
  <1>9. CASE DevicePoll
    BY <1>9, TiltFrame DEF DevicePoll, Poll, task, tilt, sensor, flicks
  <1>10. CASE DeviceWakes
    BY <1>10 DEF DeviceWakes, TiltStarts, TiltInv, Owed
  <1>11. CASE pc = "update" /\ SensorTime /\ UNCHANGED <<vars, clock>>
    BY <1>11, TiltFrame DEF SensorTime, vars, task, flicks
  <1>12. CASE ((\E k \in Keys : Press(k) \/ Release(k)) \/ HoldPower \/ TimePasses) /\ UNCHANGED <<tilt, clock>>
    BY <1>12, TiltFrame DEF Press, Release, HoldPower, TimePasses, task, tilt, sensor, flicks
  <1>. QED
    BY <1>1, <1>2, <1>3, <1>4, <1>5, <1>6, <1>7, <1>8, <1>9, <1>10, <1>11, <1>12
    DEF DeviceNext, DeviceLoop, DeviceWorld

\* One page for each flick, in its own visit to the reader and never once the
\* gyro is locked, unless the IMU refused to stand by.
THEOREM FlicksTurnOnce == DeviceSpec => []OnlyFlicksTurn
  <1>1. DeviceInit => TiltInv
    BY DEF DeviceInit, TiltInit, TiltInv, Owed
  <1>2. TiltInv => OnlyFlicksTurn
    BY DEF TiltInv, Owed, OnlyFlicksTurn, ReaderTurns
  <1>3. TypeOK /\ TiltInv /\ [DeviceNext]_deviceVars => TiltInv'
    BY TiltStep
  <1>4. DeviceSpec => []TypeOK
    BY DeviceIsMainLoop, TypeCorrect
  <1>. QED
    BY <1>1, <1>2, <1>3, <1>4, PTL DEF DeviceSpec
=============================================================================
