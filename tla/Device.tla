------------------------------- MODULE Device -------------------------------
(***************************************************************************)
(* The tick of MainLoop with the tilt sensor and the CPU clock it drives.  *)
(* Each action is one of MainLoop together with the calls the same code    *)
(* makes on halTiltSensor and powerManager: loop() of src/src/main.cpp,    *)
(* core/Power.cpp, ScreenManager::loop(), and what the reader consumes.    *)
(* What MainLoop leaves to chance about tilt is decided here.              *)
(***************************************************************************)
EXTENDS MainLoop, TiltSensor, CpuClock

deviceVars == <<vars, tilt, clock>>

DeviceTypeOK == TypeOK /\ TiltTypeOK /\ ClockTypeOK
-----------------------------------------------------------------------------
\* MappedInput::update() and power::consumeWakeRelease() call neither.
DeviceInput == (Update \/ ConsumeWakeRelease) /\ UNCHANGED <<tilt, clock>>

\* power::noteUserActivity(): a key or a flick restores the clock.
KeySeen == pressed \/ released # {}
DeviceActivity ==
  /\ NoteUserActivity
  /\ idle' = IF KeySeen \/ activity THEN 0 ELSE idle
  /\ AskActivity(KeySeen)
  /\ IF KeySeen \/ activity THEN SetPowerSaving(FALSE, screen = "Busy") ELSE UNCHANGED clock

\* setTiltLock() stands the sensor by before the marker is painted.
LockStandsBy == IF tiltLock' /\ ~tiltLock THEN DeepSleepSensor ELSE UNCHANGED tilt

\* power::maybeSleep(): enterDeepSleep() holds a Lock to its end.
DeviceSleep ==
  /\ MaybeSleep
  /\ IF pc' = "asleep" THEN DeepSleepSensor /\ TakeLock ELSE LockStandsBy /\ UNCHANGED clock

\* power::maybeToggleTiltLock(), and halTiltSensor.update() if the tick goes on.
DeviceToggle ==
  /\ MaybeToggleTiltLock
  /\ IF pc' = "screens" THEN UpdateSensor(HasTilt /\ ~tiltLock' /\ screen = "Reader") ELSE LockStandsBy
  /\ UNCHANGED clock

\* The screen's loop().  The reader asks for a flick only where it turns pages;
\* its onExit() drops one, the chapter list on top of it does not.
ReaderTurns  == pc = "screens" /\ screen = "Reader" /\ ~backLatched /\ ~confirmLatched
DeviceScreen ==
  /\ RunScreen
  /\ IF ReaderTurns THEN ConsumeTilt
     ELSE IF screen = "Reader" /\ backLatched THEN LeaveReader
     ELSE IF screen' # screen /\ screen = "Reader" THEN due' = {} /\ UNCHANGED <<sensor, spent, refused>>
     ELSE UNCHANGED tilt
  /\ UNCHANGED clock

\* power::idleDelay() ends the tick.  IDLE_POWER_SAVING_MS is shorter than both
\* timeouts that idle counts, and may have passed where it is still 0.
IdleDelay ==
  isLowPower' \in IF screen # "Reader" THEN {isLowPower}
                  ELSE {TRUE} \union IF idle = 0 THEN {isLowPower} ELSE {}

\* render() under a Lock, or nothing to draw and the end of the tick.
DeviceDraw ==
  /\ Draw
  /\ IF dirty THEN TakeLock ELSE IdleDelay /\ UNCHANGED locked
  /\ UNCHANGED tilt

\* The Lock of render() is given back before idleDelay().  The marker of the
\* gyro lock is painted without one, and loop() goes on or returns.
DevicePaintEnds ==
  /\ PaintEnds
  /\ IF locked THEN IdleDelay /\ locked' = FALSE ELSE UNCHANGED clock
  /\ UNCHANGED tilt

DeviceLoop ==
  \/ DeviceInput \/ DeviceActivity \/ DeviceSleep \/ DeviceToggle
  \/ DeviceScreen \/ DeviceDraw \/ DevicePaintEnds

DevicePoll == Poll /\ UNCHANGED <<tilt, clock>>

\* RAM is gone; sensor and clock start anew.
DeviceWakes == Wake /\ TiltStarts /\ isLowPower' = FALSE /\ locked' = FALSE

DeviceWorld ==
  \/ ((\E k \in Keys : Press(k) \/ Release(k)) \/ HoldPower \/ TimePasses) /\ UNCHANGED <<tilt, clock>>
  \/ pc = "update" /\ SensorTime /\ UNCHANGED <<vars, clock>>
  \/ DeviceWakes

DeviceInit == Init /\ TiltInit /\ ClockInit
DeviceNext == DeviceLoop \/ DevicePoll \/ DeviceWorld
DeviceSpec == DeviceInit /\ [][DeviceNext]_deviceVars
-----------------------------------------------------------------------------
\* A flick turns one page, in the visit to the reader in which it was made and
\* not after the gyro lock was set, however late the reader gets to it.  The
\* exception is an IMU that refused to stand by while a flick was pending.
OnlyFlicksTurn == ReaderTurns => events \subseteq due \/ refused

\* The low clock never outlives the reader: whichever way it is left, by a key
\* of this tick or one latched in a refresh, the next screen runs at full speed.
LowOnlyInReader == isLowPower /\ pc = "update" => screen = "Reader"
=============================================================================
