------------------------------ MODULE MainLoop ------------------------------
(***************************************************************************)
(* One tick of loop() in src/src/main.cpp with the power policy of         *)
(* core/Power.cpp and the button bookkeeping of core/MappedInput.cpp.      *)
(*                                                                         *)
(* The keys are only seen through snapshots: gpio.update() compares the    *)
(* keys that are down with the previous snapshot and keeps the edges.  The *)
(* loop takes one snapshot per tick; every blocking panel refresh takes    *)
(* more of them from MappedInput::busyWaitPoll, which queues the releases  *)
(* the loop would miss.  The user presses and releases keys between any    *)
(* two snapshots.  Screens are reduced to what the loop asks of them:      *)
(* "Reader", "List" (paging keys move a selection), "Busy" (blocksSleep).  *)
(*                                                                         *)
(* Abstracted: time.  held says the last power press has lasted longer     *)
(* than kShortPressMs, allowed that millis() >= allowSleepAt, idle how far *)
(* millis() - lastActivity has come (0 recent, 1 gyro auto-off, 2 sleep).  *)
(***************************************************************************)
EXTENDS Integers

CONSTANTS
  Keys,       \* the keys the user may touch
  EdgeSides,  \* gpio.hasEdgeSideButtons(): X3, where UP is a page-forward key
  HasTilt,    \* the board has the IMU and tilt page turn is on
  MaxTaps     \* bound: how many taps one refresh may queue per direction

AllKeys == {"Power", "Down", "Right", "Up", "Left", "Confirm", "Back"}

ASSUME KeysAssumption == "Power" \in Keys /\ Keys \subseteq AllKeys
ASSUME BoardAssumption == EdgeSides \in BOOLEAN /\ HasTilt \in BOOLEAN
ASSUME MaxTapsAssumption == MaxTaps \in Nat \ {0}

VARIABLES
  \* the physical world
  down,       \* keys that are down
  held,       \* the last power press lasted longer than kShortPressMs
  press,      \* history: "wake" until a power press other than the waking one, then "user"
  idle, allowed,
  \* InputManager: the last snapshot and its edges
  snap, released, pressed, snapHeld, polled,
  \* Power.cpp
  wakePending, releasedSinceWake, powerOff, tiltLock,
  \* MappedInput.cpp
  fwd, bck, conf, canc, confirmLatched, backLatched,
  \* the loop
  screen, dirty, pc, after, cause,
  wanted      \* history: what the queued taps meant when they were made

keys   == <<down, held, press>>
time   == <<idle, allowed>>
gpio   == <<snap, released, pressed, snapHeld, polled>>
power  == <<wakePending, releasedSinceWake, powerOff, tiltLock>>
queued == <<fwd, bck, wanted>>
taps   == <<queued, conf, canc>>
latch  == <<confirmLatched, backLatched>>
task   == <<screen, dirty, pc, after, cause>>
vars   == <<keys, time, gpio, power, taps, latch, task>>

Screens == {"Reader", "List", "Busy"}
PcValues == {"update", "wake", "activity", "sleep", "toggle", "screens", "draw", "paint", "asleep"}

TypeOK ==
  /\ down \subseteq Keys /\ held \in BOOLEAN /\ press \in {"wake", "user"}
  /\ idle \in 0..2 /\ allowed \in BOOLEAN
  /\ snap \subseteq Keys /\ released \subseteq Keys
  /\ pressed \in BOOLEAN /\ snapHeld \in BOOLEAN /\ polled \in BOOLEAN
  /\ wakePending \in BOOLEAN /\ releasedSinceWake \in BOOLEAN
  /\ powerOff \in BOOLEAN /\ tiltLock \in BOOLEAN
  /\ fwd \in 0..MaxTaps /\ bck \in 0..MaxTaps /\ wanted \in Int
  /\ conf \in 0..MaxTaps /\ canc \in 0..MaxTaps
  /\ confirmLatched \in BOOLEAN /\ backLatched \in BOOLEAN
  /\ screen \in Screens /\ dirty \in BOOLEAN
  /\ pc \in PcValues /\ after \in {"update", "toggle"} /\ cause \in {"none", "hold", "idle"}
-----------------------------------------------------------------------------
\* The user.  Keys matter only where a snapshot may follow: before the loop's
\* own and inside a refresh.
UserTurn == pc \in {"update", "paint"}

Press(k) ==
  /\ UserTurn /\ k \in Keys \ down
  /\ down' = down \union {k}
  /\ held' = (IF k = "Power" THEN FALSE ELSE held)
  /\ press' = (IF k = "Power" THEN "user" ELSE press)
  /\ UNCHANGED <<time, gpio, power, taps, latch, task>>

Release(k) ==
  /\ UserTurn /\ k \in down
  /\ down' = down \ {k}
  /\ UNCHANGED <<held, press, time, gpio, power, taps, latch, task>>

HoldPower ==
  /\ UserTurn /\ "Power" \in down /\ ~held
  /\ held' = TRUE
  /\ UNCHANGED <<down, press, time, gpio, power, taps, latch, task>>

TimePasses ==
  /\ pc = "update"
  /\ \/ idle < 2 /\ idle' = idle + 1 /\ UNCHANGED allowed
     \/ ~allowed /\ allowed' = TRUE /\ UNCHANGED idle
  /\ UNCHANGED <<keys, gpio, power, taps, latch, task>>
-----------------------------------------------------------------------------
\* gpio.update(): a snapshot and its edges.
Snapshot ==
  /\ snap' = down
  /\ released' = snap \ down
  /\ pressed' = (down \ snap # {})
  /\ snapHeld' = held

Bit(b) == IF b THEN 1 ELSE 0

\* What the screens make of a snapshot's releases: MappedInput::consumeNavigationDelta
\* and consumeReaderPageDelta, live part.
ListStep(rel)   == Bit(rel \intersect {"Down", "Right"} # {}) - Bit(rel \intersect {"Up", "Left"} # {})
ReaderStep(rel) ==
  Bit(rel \intersect ({"Down", "Right"} \union (IF EdgeSides THEN {"Up"} ELSE {})) # {})
  - Bit(rel \intersect ({"Left"} \union (IF EdgeSides THEN {} ELSE {"Up"})) # {})
StepOf(s, rel) == IF s = "Reader" THEN ReaderStep(rel) ELSE ListStep(rel)

\* Mutant: UP queued as on a board with side buttons.
UpQueuedForward(rel) == Bit(rel \intersect {"Down", "Right", "Up"} # {})

\* What busyWaitPoll queues for a snapshot's releases, whatever screen is up.
QueuedForward(rel) == Bit(rel \intersect ({"Down", "Right"} \union (IF EdgeSides THEN {"Up"} ELSE {})) # {})
QueuedBack(rel)    == Bit(rel \intersect ({"Left"} \union (IF EdgeSides THEN {} ELSE {"Up"})) # {})

ResetTaps == fwd' = 0 /\ bck' = 0 /\ conf' = 0 /\ canc' = 0 /\ wanted' = 0

\* Mutant: only the time since wake counts.
HoldAllowedByTime == allowed

powerHoldAllowed == releasedSinceWake /\ allowed
isLongPowerHold    == "Power" \in snap /\ snapHeld
isLongPowerRelease == "Power" \in released /\ snapHeld

\* A queue of taps is read, and emptied, only where this snapshot has no release
\* of its key: with one, `||` stops short and the taps latch in the next tick.
TapsAfter(key, queue) == IF key \in released' THEN queue ELSE 0

\* MappedInput::update(): Confirm and Back are latched for the whole tick.
Update ==
  /\ pc = "update"
  /\ Snapshot
  /\ polled' = FALSE
  /\ confirmLatched' = ("Confirm" \in released' \/ conf > 0)
  /\ backLatched' = ("Back" \in released' \/ canc > 0)
  /\ conf' = TapsAfter("Confirm", conf)
  /\ canc' = TapsAfter("Back", canc)
  /\ pc' = "wake"
  /\ UNCHANGED <<keys, time, power, queued, screen, dirty, after, cause>>

\* Mutant: the tick that sees the waking press end goes on.
WakeReleaseGoesOn ==
  /\ pc = "wake"
  /\ IF wakePending /\ "Power" \notin snap
     THEN /\ wakePending' = FALSE /\ releasedSinceWake' = TRUE /\ powerOff' = FALSE
          /\ UNCHANGED tiltLock
     ELSE UNCHANGED power
  /\ pc' = "activity"
  /\ UNCHANGED <<keys, time, gpio, taps, latch, screen, dirty, after, cause>>

\* power::consumeWakeRelease(): the tick that sees the waking press end does nothing else.
ConsumeWakeRelease ==
  /\ pc = "wake"
  /\ IF wakePending /\ "Power" \notin snap
     THEN /\ wakePending' = FALSE /\ releasedSinceWake' = TRUE /\ powerOff' = FALSE
          /\ pc' = "update"
          /\ UNCHANGED tiltLock
     ELSE pc' = "activity" /\ UNCHANGED power
  /\ UNCHANGED <<keys, time, gpio, taps, latch, screen, dirty, after, cause>>

\* power::noteUserActivity(); a tilt event counts as activity too.
NoteUserActivity ==
  /\ pc = "activity"
  /\ \/ (pressed \/ released # {} \/ HasTilt) /\ idle' = 0
     \/ ~pressed /\ released = {} /\ UNCHANGED idle
  /\ releasedSinceWake' = (releasedSinceWake \/ "Power" \notin snap)
  /\ pc' = "sleep"
  /\ UNCHANGED <<keys, allowed, gpio, wakePending, powerOff, tiltLock, taps, latch, screen, dirty, after, cause>>

\* setTiltLock(on) from the tick position next: locking in the reader paints the
\* marker before it returns, unlocking asks for a repaint.
SetTiltLock(on, next) ==
  /\ tiltLock' = on
  /\ IF on /\ ~tiltLock /\ screen = "Reader"
     THEN pc' = "paint" /\ after' = next
     ELSE pc' = next /\ UNCHANGED after
  /\ dirty' = (dirty \/ (~on /\ tiltLock /\ screen = "Reader"))

\* Mutant: only the hold this tick sees counts.
HoldSleepsLive == powerHoldAllowed /\ (isLongPowerHold \/ isLongPowerRelease)

HoldSleeps == powerHoldAllowed /\ (powerOff \/ isLongPowerHold \/ isLongPowerRelease)
IdleSleeps == screen # "Busy" /\ idle = 2

\* enterDeepSleep(): the last paint and the chip's sleep; it never returns.
EnterDeepSleep(why) == pc' = "asleep" /\ cause' = why /\ UNCHANGED <<screen, dirty, after>>

\* power::maybeSleep().  A screen that blocks sleep blocks only the idle timer.
MaybeSleep ==
  /\ pc = "sleep"
  /\ \/ /\ HoldSleeps
        /\ powerOff' = FALSE
        /\ EnterDeepSleep("hold")
        /\ UNCHANGED <<wakePending, releasedSinceWake, tiltLock>>
     \/ ~HoldSleeps /\ IdleSleeps /\ EnterDeepSleep("idle") /\ UNCHANGED power
     \/ /\ ~HoldSleeps /\ screen # "Busy" /\ HasTilt /\ idle >= 1 /\ ~IdleSleeps /\ ~tiltLock
        /\ SetTiltLock(TRUE, "toggle")
        /\ UNCHANGED <<wakePending, releasedSinceWake, powerOff, screen, cause>>
     \/ /\ ~HoldSleeps /\ (screen = "Busy" \/ (~IdleSleeps /\ (~HasTilt \/ idle = 0 \/ tiltLock)))
        /\ pc' = "toggle"
        /\ UNCHANGED <<power, screen, dirty, after, cause>>
  /\ UNCHANGED <<keys, time, gpio, taps, latch>>

\* power::maybeToggleTiltLock(): a short press toggles and ends the tick, any
\* other edge unlocks and goes on to the screen.
MaybeToggleTiltLock ==
  /\ pc = "toggle"
  /\ IF ~wakePending /\ "Power" \in released /\ ~snapHeld
     THEN SetTiltLock(~tiltLock, "update")
     ELSE IF ~wakePending /\ tiltLock /\ (pressed \/ released # {})
     THEN SetTiltLock(FALSE, "screens")
     ELSE pc' = "screens" /\ UNCHANGED <<tiltLock, dirty, after>>
  /\ UNCHANGED <<keys, time, gpio, wakePending, releasedSinceWake, powerOff, taps, latch, screen, cause>>
-----------------------------------------------------------------------------
\* What the running screen reads as its page or selection delta.
Delta == StepOf(screen, released) + fwd - bck

\* Mutant: taps one way are kept.
ConsumeForward == fwd' = 0 /\ wanted' = 0 /\ UNCHANGED <<bck, conf, canc>>

Consume == fwd' = 0 /\ bck' = 0 /\ wanted' = 0 /\ UNCHANGED <<conf, canc>>

\* applyPending() drops every queued tap before the next screen runs.
Navigate == screen' \in Screens /\ dirty' = TRUE /\ ResetTaps

\* ReaderScreen::loop(): leaving or the chapter list come before paging.  Both
\* lead to a list.
ReaderRuns ==
  /\ screen = "Reader"
  /\ \/ (backLatched \/ confirmLatched) /\ Navigate /\ screen' = "List"
     \/ ~backLatched /\ confirmLatched /\ UNCHANGED <<screen, dirty, taps>>  \* no memory for the list
     \/ /\ ~backLatched /\ ~confirmLatched
        /\ Consume
        /\ dirty' \in {dirty, dirty \/ Delta # 0 \/ HasTilt}   \* or already at the end; a flick turns too
        /\ UNCHANGED screen

\* A list: Back, else move, else Confirm.
ListRuns ==
  /\ screen = "List"
  /\ \/ backLatched /\ (Navigate \/ (dirty' = TRUE /\ UNCHANGED <<screen, taps>>))
     \/ ~backLatched /\ Delta # 0 /\ Consume /\ dirty' = TRUE /\ UNCHANGED screen
     \/ ~backLatched /\ Delta = 0 /\ ~confirmLatched /\ Consume /\ UNCHANGED <<dirty, screen>>
     \/ ~backLatched /\ Delta = 0 /\ confirmLatched /\ (Navigate \/ (Consume /\ dirty' = TRUE /\ UNCHANGED screen))

\* Wi-Fi, transfer and update screens do not page: queued taps stay queued.
BusyRuns ==
  /\ screen = "Busy"
  /\ \/ Navigate
     \/ dirty' \in {dirty, TRUE} /\ UNCHANGED <<screen, taps>>

RunScreen ==
  /\ pc = "screens"
  /\ ReaderRuns \/ ListRuns \/ BusyRuns
  /\ pc' = "draw"
  /\ UNCHANGED <<keys, time, gpio, power, latch, after, cause>>

Draw ==
  /\ pc = "draw"
  /\ IF dirty THEN pc' = "paint" /\ after' = "update" ELSE pc' = "update" /\ UNCHANGED after
  /\ dirty' = FALSE
  /\ UNCHANGED <<keys, time, gpio, power, taps, latch, screen, cause>>

\* power::pollForHold(): a hold seen inside a refresh is remembered.
PollForHold == powerOff' = (powerOff \/ (powerHoldAllowed /\ "Power" \in snap' /\ snapHeld'))

\* MappedInput::busyWaitPoll(): a snapshot in the middle of a refresh.
Poll ==
  /\ pc = "paint"
  /\ Snapshot
  /\ polled' = TRUE
  /\ PollForHold
  /\ fwd' = fwd + QueuedForward(released') /\ fwd' <= MaxTaps
  /\ bck' = bck + QueuedBack(released') /\ bck' <= MaxTaps
  /\ conf' = conf + Bit("Confirm" \in released') /\ conf' <= MaxTaps
  /\ canc' = canc + Bit("Back" \in released') /\ canc' <= MaxTaps
  /\ wanted' = wanted + StepOf(screen, released')
  /\ UNCHANGED <<keys, time, wakePending, releasedSinceWake, tiltLock, latch, task>>

PaintEnds ==
  /\ pc = "paint"
  /\ pc' = after
  /\ UNCHANGED <<keys, time, gpio, power, taps, latch, screen, dirty, after, cause>>
-----------------------------------------------------------------------------
\* Waking: RAM is gone.  setup() settles for 500 ms, long enough for the keys to
\* be read, so the first snapshot holds exactly the keys that are down.
Boots(byPower) ==
  /\ idle' = 0 /\ allowed' = ~byPower
  /\ snap' = down' /\ released' = {} /\ pressed' = FALSE /\ snapHeld' = FALSE /\ polled' = FALSE
  /\ wakePending' = byPower /\ releasedSinceWake' = FALSE /\ powerOff' = FALSE /\ tiltLock' = FALSE
  /\ ResetTaps /\ confirmLatched' = FALSE /\ backLatched' = FALSE
  /\ screen' \in Screens /\ dirty' = TRUE /\ pc' = "update" /\ after' = "update" /\ cause' = "none"

\* Only the power button wakes the chip; the finger may or may not still be on it.
Wake ==
  /\ pc = "asleep"
  /\ down' \in {{}, {"Power"}}
  /\ held' = FALSE /\ press' = "wake"
  /\ Boots(TRUE)

\* A first boot by power button, or a restart with the keys in any position.
Init ==
  /\ down \in SUBSET Keys /\ held = FALSE /\ press \in {"wake", "user"}
  /\ idle = 0 /\ allowed = (press = "user")
  /\ snap = down /\ released = {} /\ pressed = FALSE /\ snapHeld = FALSE /\ polled = FALSE
  /\ wakePending = (press = "wake") /\ releasedSinceWake = FALSE /\ powerOff = FALSE /\ tiltLock = FALSE
  /\ fwd = 0 /\ bck = 0 /\ conf = 0 /\ canc = 0 /\ wanted = 0
  /\ confirmLatched = FALSE /\ backLatched = FALSE
  /\ screen \in Screens /\ dirty = TRUE /\ pc = "update" /\ after = "update" /\ cause = "none"

\* The loop task, and the world around it.
Loop ==
  \/ Update \/ ConsumeWakeRelease \/ NoteUserActivity \/ MaybeSleep \/ MaybeToggleTiltLock
  \/ RunScreen \/ Draw \/ PaintEnds
World == (\E k \in Keys : Press(k) \/ Release(k)) \/ HoldPower \/ TimePasses \/ Wake

Next == Loop \/ Poll \/ World

Spec == Init /\ [][Next]_vars

\* The task never blocks: a refresh ends (its BUSY wait has a timeout) and every
\* handler returns.  Nothing is assumed of the user.
FairSpec == Spec /\ WF_vars(Loop)
-----------------------------------------------------------------------------
\* The press that woke the device can neither put it back to sleep nor leave a
\* power-off behind, however long it lasts and however many refreshes it spans.
WakePressNeverSleeps ==
  (press = "wake" /\ "Power" \in down) => (cause # "hold" /\ ~powerOff)

\* The release of the waking press never toggles the gyro lock, whichever snapshot
\* sees it.
WakeReleaseNeverToggles ==
  [][(pc = "toggle" /\ "Power" \in released /\ tiltLock' # tiltLock) => press = "user"]_vars

\* A power-off latched during a refresh is never dropped: no tick, toggle or
\* navigation between the refresh and maybeSleep() clears it without sleeping.
PowerOffIsKept == [][(powerOff /\ ~powerOff') => pc' = "asleep"]_vars

\* A hold that ends before the refresh returns still powers the device off.
HeldPowersOff == powerOff ~> pc = "asleep"

\* A release moves a list the same way and as far whether the loop's snapshot or
\* a refresh's poll sees it, and is counted once.
Meant == wanted + (IF polled THEN 0 ELSE StepOf(screen, released))
ListMovesAsPressed == (pc = "screens" /\ screen = "List") => Delta = Meant

\* The same for the reader's pages.
ReaderTurnsAsPressed == (pc = "screens" /\ screen = "Reader") => Delta = Meant
=============================================================================
