------------------------------ MODULE Settings ------------------------------
(***************************************************************************)
(* The settings struct, the file it is kept in (/.crossxtch/settings.bin), *)
(* and Settings::load(): which files it takes, how it fills in the fields  *)
(* an older layout did not have, and how it corrects those out of range.   *)
(*                                                                         *)
(* Night mode, the tilt switch, refreshEveryNPages and lastBookPath are    *)
(* taken from any file as they are and left out.  The two ntpSync fields   *)
(* are one count of months; Never stands for a year or month that          *)
(* onWifiConnected() does not accept.                                      *)
(***************************************************************************)
EXTENDS TimeZone

Never == 0
LanguageUnset == 255
OldestVersion  == 3      \* kMinVersion
CurrentVersion == 9      \* VERSION

GyroChoices  == {0, 30, 45, 60}
SleepChoices == {0, 5, 10, 15}
Languages    == {0, 1, 2}

Struct ==
  [version : Int, gyroAutoOffSeconds : Int, trueSleepMinutes : Int,
   clockHasBeenSynced : BOOLEAN, clockUtcOffsetQ : Int, ntpSync : Nat, language : Int]

Defaults ==
  [version |-> CurrentVersion, gyroAutoOffSeconds |-> 60, trueSleepMinutes |-> 0,
   clockHasBeenSynced |-> FALSE, clockUtcOffsetQ |-> Utc, ntpSync |-> Never,
   language |-> LanguageUnset]

\* No file, one that is shorter than ten bytes, or one with another magic.
Unreadable == [Defaults EXCEPT !.version = 0]

Accepted(f) == f.version \in OldestVersion .. CurrentVersion

\* What an older layout did not have is set to its default.
Migrated(f) ==
  [f EXCEPT !.version            = CurrentVersion,
            !.trueSleepMinutes   = IF f.version < 4 THEN 0 ELSE @,
            !.clockHasBeenSynced = IF f.version < 5 THEN FALSE ELSE @,
            !.clockUtcOffsetQ    = IF f.version < 6 THEN Utc ELSE @,
            !.ntpSync            = IF f.version < 7 THEN Never ELSE @,
            !.language           = IF f.version < 9 THEN LanguageUnset ELSE @]

\* Mutant: the time zone is taken as it is.
CorrectedButZone(s) ==
  [s EXCEPT !.gyroAutoOffSeconds = IF @ \in GyroChoices THEN @ ELSE 60,
            !.trueSleepMinutes   = IF @ \in SleepChoices THEN @ ELSE 15,
            !.language           = IF @ \in Languages THEN @ ELSE LanguageUnset]

Corrected(s) ==
  [s EXCEPT !.gyroAutoOffSeconds = IF @ \in GyroChoices THEN @ ELSE 60,
            !.trueSleepMinutes   = IF @ \in SleepChoices THEN @ ELSE 15,
            !.clockUtcOffsetQ    = IF @ \in ZoneQ THEN @ ELSE Utc,
            !.language           = IF @ \in Languages THEN @ ELSE LanguageUnset]

Load(f) == IF Accepted(f) THEN Corrected(Migrated(f)) ELSE Defaults

\* A click on a row of the settings screen goes round its choices.
NextGyro(g)  == IF g = 0 THEN 30 ELSE IF g \in {30, 45} THEN g + 15 ELSE 0
NextSleep(m) == IF m \in {0, 5, 10} THEN m + 5 ELSE 0

InRange(s) ==
  /\ s.version = CurrentVersion
  /\ s.gyroAutoOffSeconds \in GyroChoices /\ s.trueSleepMinutes \in SleepChoices
  /\ s.clockUtcOffsetQ \in ZoneQ
  /\ s.language \in Languages \union {LanguageUnset}
=============================================================================
