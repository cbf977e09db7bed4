----------------------------- MODULE TiltSensor -----------------------------
(***************************************************************************)
(* The tilt gestures of src/lib/hal/HalTiltSensor.cpp.  A quick turn of    *)
(* the wrist past RATE_THRESHOLD_DPS is one flick, however long it lasts;  *)
(* it leaves an event that the reader consumes in the same tick or later.  *)
(* The IMU is a part of its own: it may refuse to wake or to stand by.     *)
(*                                                                         *)
(* Abstracted: time.  settled says WAKE_STABILIZE_MS have passed since the *)
(* last wake(), cooled that COOLDOWN_MS have since that or the last        *)
(* trigger.  Of a reading only its range of speeds is kept.                *)
(***************************************************************************)
EXTENDS Naturals

CONSTANT ImuFails   \* the IMU may refuse wake() and sleep()

ASSUME ImuAssumption == ImuFails \in BOOLEAN

Directions == {"forward", "back"}
Rates      == {"still", "slow"} \union Directions

VARIABLES
  awake, inTilt,     \* _isAwake, _inTilt
  events, activity,  \* _tiltForwardEvent and _tiltBackEvent, _hadActivity
  settled, cooled,
  spent,             \* history: the flick under way has already triggered
  due,               \* history: flicks of this visit to the reader without a turn yet
  refused            \* history: events had to be cleared and the IMU refused to stand by

sensor == <<awake, inTilt, events, activity, settled, cooled>>
flicks == <<spent, due, refused>>
tilt   == <<sensor, flicks>>

TiltTypeOK ==
  /\ awake \in BOOLEAN /\ inTilt \in BOOLEAN
  /\ events \subseteq Directions /\ activity \in BOOLEAN
  /\ settled \in BOOLEAN /\ cooled \in BOOLEAN
  /\ spent \in BOOLEAN /\ due \subseteq Directions /\ refused \in BOOLEAN
-----------------------------------------------------------------------------
\* Mutant: the sensor stands by with what it has seen.
ClearsNothing == UNCHANGED <<events, activity>>

\* clearPendingEvents()
ClearPendingEvents == events' = {} /\ activity' = FALSE

\* deepSleep().  Until the next wake() nothing reads the time.  On refusal
\* everything stays, to be tried again.
StandsBy ==
  /\ ClearPendingEvents
  /\ inTilt' = FALSE /\ awake' = FALSE
  /\ settled' = FALSE /\ cooled' = FALSE
  /\ spent' = FALSE /\ due' = {} /\ refused' = FALSE
RefusesToStandBy ==
  /\ ImuFails
  /\ due' = {} /\ refused' = (refused \/ events # {})
  /\ UNCHANGED <<sensor, spent>>
DeepSleepSensor == StandsBy \/ RefusesToStandBy

\* wake(), and update()'s return right after it.
WakeSensor ==
  \/ awake' = TRUE /\ settled' = FALSE /\ cooled' = FALSE
     /\ UNCHANGED <<inTilt, events, activity, flicks>>
  \/ ImuFails /\ UNCHANGED tilt

\* A reading triggers: past the threshold, not in a flick already, and cooled.
Triggers(rate) == ~inTilt /\ cooled /\ rate \in Directions

\* update() reads the gyro.
Sample(rate) ==
  /\ settled
  /\ IF Triggers(rate)
     THEN /\ events' = events \union {rate} /\ activity' = TRUE
          /\ inTilt' = TRUE /\ cooled' = FALSE
     ELSE /\ inTilt' = (inTilt /\ rate # "still")
          /\ UNCHANGED <<events, activity, cooled>>
  /\ spent' = (rate # "still" /\ (spent \/ Triggers(rate)))
  /\ due' = IF Triggers(rate) /\ ~spent THEN due \union {rate} ELSE due
  /\ UNCHANGED <<awake, settled, refused>>

\* update().  Between polls, or when a reading fails, nothing happens.
UpdateSensor(wanted) ==
  \/ wanted /\ ~awake /\ WakeSensor
  \/ ~wanted /\ awake /\ DeepSleepSensor
  \/ wanted /\ awake /\ \E rate \in Rates : Sample(rate)
  \/ (wanted = awake) /\ UNCHANGED tilt

\* wasTiltedForward() || wasTiltedBack(): the second is not asked when the
\* first is true.
Consumed == IF "forward" \in events THEN {"forward"} ELSE events
ConsumeTilt ==
  /\ events' = events \ Consumed /\ due' = due \ Consumed
  /\ refused' = (refused /\ events' # {})
  /\ UNCHANGED <<awake, inTilt, activity, settled, cooled, spent>>

\* ReaderScreen::onExit()
LeaveReader ==
  /\ ClearPendingEvents /\ due' = {} /\ refused' = FALSE
  /\ UNCHANGED <<awake, inTilt, settled, cooled, spent>>

\* hadActivity(), asked only if no key was seen.
AskActivity(keySeen) ==
  /\ activity' = (activity /\ keySeen)
  /\ UNCHANGED <<awake, inTilt, events, settled, cooled, flicks>>

SensorTime ==
  /\ awake
  /\ \/ ~settled /\ settled' = TRUE /\ UNCHANGED cooled
     \/ settled /\ ~cooled /\ cooled' = TRUE /\ UNCHANGED settled
  /\ UNCHANGED <<awake, inTilt, events, activity, flicks>>

\* begin(): standing by, as far as the code knows.
TiltInit ==
  /\ awake = FALSE /\ inTilt = FALSE /\ events = {} /\ activity = FALSE
  /\ settled = FALSE /\ cooled = FALSE
  /\ spent = FALSE /\ due = {} /\ refused = FALSE
TiltStarts ==
  /\ awake' = FALSE /\ inTilt' = FALSE /\ events' = {} /\ activity' = FALSE
  /\ settled' = FALSE /\ cooled' = FALSE
  /\ spent' = FALSE /\ due' = {} /\ refused' = FALSE
=============================================================================
