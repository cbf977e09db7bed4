------------------------------ MODULE CpuClock ------------------------------
(***************************************************************************)
(* The clock of the CPU in src/lib/hal/HalPowerManager.cpp: lowered while  *)
(* the reader waits for a key, restored by activity and by a Lock.  There  *)
(* is never more than one Lock.  setCpuFrequencyMhz() succeeds: both       *)
(* frequencies are ones the chip has.                                      *)
(***************************************************************************)
VARIABLES
  isLowPower,
  locked   \* currentLockMode = NormalSpeed

clock == <<isLowPower, locked>>

ClockTypeOK == isLowPower \in BOOLEAN /\ locked \in BOOLEAN

\* setPowerSaving(): active Wi-Fi or a lock forces it off.
SetPowerSaving(enabled, wifi) ==
  isLowPower' = (enabled /\ ~wifi /\ ~locked) /\ UNCHANGED locked

\* Mutant: a lock only keeps the clock from being lowered.
LockKeepsClock == locked' = TRUE /\ UNCHANGED isLowPower

\* Lock::Lock() takes the lock and restores the clock; Lock::~Lock() gives it
\* back and leaves the clock to whoever comes next.
TakeLock == locked' = TRUE /\ isLowPower' = FALSE

ClockInit == isLowPower = FALSE /\ locked = FALSE
=============================================================================
