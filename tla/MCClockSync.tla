---------------------------- MODULE MCClockSync -----------------------------
\* Instance of ClockSync for TLC: files of every version around the changes of
\* layout, with fields in and out of range.
EXTENDS ClockSync

\* Kathmandu, Newfoundland, a place 20 minutes ahead and one 44 behind, as
\* Amsterdam and Monrovia once were, and a place that is not.
MCSeconds == {20700, -12600, 1200, -2640, 60000}

MCOldFiles ==
  [version : 2 .. 10, gyroAutoOffSeconds : {30, 99}, trueSleepMinutes : {15, 99},
   clockHasBeenSynced : BOOLEAN, clockUtcOffsetQ : {48, 200}, ntpSync : {Never, 1},
   language : {1, 7}] \union {Unreadable}
=============================================================================
