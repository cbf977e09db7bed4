----------------------------- MODULE ClockSync ------------------------------
(***************************************************************************)
(* What keeps the time: the RTC, the monthly NTP request and the time-zone *)
(* lookup of ClockSync::onWifiConnected(), the zone set by hand on the     *)
(* file-manager page, and the settings file all of it is remembered in,    *)
(* with the power allowed to go at any point.                              *)
(*                                                                         *)
(* One session runs from a boot to the next restart.  onWifiConnected() is *)
(* called once in it, when the transfer screen opens; the page is served   *)
(* after it.  saving names a change that is in memory and not yet in the   *)
(* file: the code goes straight on to save(), but the power may go first.  *)
(*                                                                         *)
(* Time is counted in calendar months.  The RTC reads a month, is Stopped  *)
(* (its oscillator-stop flag makes nowUtc() fail until it is set), or is   *)
(* Absent (X4).  Once set it does not jump; NTP tells the true time.       *)
(* With "rtc" in Trouble any single reading of it may fail.                *)
(***************************************************************************)
EXTENDS Settings

CONSTANTS
  Zones,      \* biased offsets the user may set
  Seconds,    \* offsets the lookup services may report
  MaxMonth,   \* bound on the calendar
  OldFiles,   \* settings files there may be at the start
  Trouble     \* what may go wrong

Stopped == -1
Absent  == -2

ASSUME ZonesAssumption == Zones \subseteq ZoneQ
\* Time zones are whole minutes.
ASSUME SecondsAssumption == \A s \in Seconds : s \in Int /\ s % 60 = 0
ASSUME MonthAssumption == MaxMonth \in Nat \ {0}
ASSUME FilesAssumption ==
  OldFiles \subseteq Struct /\ \A f \in OldFiles : f.ntpSync \in {Never, 1}
ASSUME TroubleAssumption == Trouble \subseteq {"power", "card", "rtc"}

VARIABLES
  file,      \* what settings.bin holds
  settings,  \* the struct in memory
  pc,        \* "off", "up", or "online" with the page served
  saving,    \* "no", or what save() is about to write
  rtc,       \* what the RTC reads
  month,     \* the true month
  \* History: the zone last chosen by hand, while the file it was saved in
  \* lasts; the month of the last NTP answer, and where it is noted; whether the
  \* server answered in this session; whether the RTC was not read before it was
  \* asked; and the offset taken from a service in this session.
  chosen, asked, memo, ntp, unread, reported

vars == <<file, settings, pc, saving, rtc, month, chosen, asked, memo, ntp, unread, reported>>

TypeOK ==
  /\ file \in Struct /\ file.ntpSync <= MaxMonth
  /\ settings \in Struct /\ settings.ntpSync <= MaxMonth
  /\ pc \in {"off", "up", "online"}
  /\ saving \in {"no", "option", "month", "zone"}
  /\ rtc \in {Stopped, Absent} \union Nat
  /\ month \in 1 .. MaxMonth
  /\ chosen \in ZoneQ \union {NoZone}
  /\ asked \in 0 .. MaxMonth /\ memo \in {"none", "memory", "file"}
  /\ ntp \in BOOLEAN /\ unread \in BOOLEAN /\ reported \subseteq Seconds
-----------------------------------------------------------------------------
\* setup(): the struct starts as its defaults and is loaded.
Boot ==
  /\ pc = "off"
  /\ settings' = Load(file)
  /\ pc' = "up" /\ ntp' = FALSE
  /\ UNCHANGED <<file, saving, rtc, month, chosen, asked, memo, unread, reported>>

\* A row of SettingsScreen, or a pick of LanguageScreen.
SetOption ==
  /\ pc = "up" /\ saving = "no"
  /\ settings' \in {[settings EXCEPT !.gyroAutoOffSeconds = NextGyro(@)],
                    [settings EXCEPT !.trueSleepMinutes = NextSleep(@)]}
                   \union {[settings EXCEPT !.language = l] : l \in Languages}
  /\ saving' = "option"
  /\ UNCHANGED <<file, pc, rtc, month, chosen, asked, memo, ntp, unread, reported>>

\* Mutant: the month of the RTC is not asked for.
NtpDueAlways(read) == TRUE

\* The RTC was read, a month is known and the RTC has not passed it: nothing is due.
NtpDue(read) == read => settings.ntpSync = Never \/ rtc > settings.ntpSync

\* needTimezone, read before the NTP request.
NeedTimezone == ~settings.clockHasBeenSynced

\* The settings after NTP; the RTC may fail to read back what was set.
Synced(noted) ==
  [settings EXCEPT !.clockHasBeenSynced = TRUE,
                   !.ntpSync = IF noted THEN month ELSE @]

\* Mutant: only an NTP answer is saved.
DirtyNtpOnly(answered, before, after) == answered

Dirty(answered, before, after) == answered \/ after # before

\* fetchTimezoneOffset(): the answer of one of the services, if it can be used.
Lookup ==
  UNION {{[place |-> s, zone |-> OffsetOf(a)] : a \in Answers(s)} : s \in Seconds}
Lookups == IF NeedTimezone THEN {l \in Lookup : l.zone # NoZone} ELSE {}

\* onWifiConnected(): first NTP, if it is due and answers, then the zone.  The RTC
\* is read before the request and read back after it.
Connect ==
  /\ pc = "up" /\ saving = "no"
  /\ \E answered, read, noted \in BOOLEAN :
       LET timed == IF answered THEN Synced(noted) ELSE settings IN
       /\ answered => rtc # Absent /\ NtpDue(read)
       /\ read => rtc \notin {Stopped, Absent}
       /\ ~read => rtc \in {Stopped, Absent} \/ "rtc" \in Trouble
       /\ ~noted => "rtc" \in Trouble
       /\ \/ settings' = timed /\ UNCHANGED reported
          \/ \E l \in Lookups : /\ settings' = [timed EXCEPT !.clockUtcOffsetQ = l.zone]
                               /\ reported' = {l.place}
       /\ saving' = IF Dirty(answered, settings, settings') THEN "month" ELSE "no"
       /\ rtc' = IF answered THEN month ELSE rtc
       /\ ntp' = answered /\ unread' = ~read
       /\ IF answered THEN asked' = month /\ memo' = IF noted THEN "memory" ELSE "none"
          ELSE UNCHANGED <<asked, memo>>
  /\ pc' = "online"
  /\ UNCHANGED <<file, month, chosen>>

\* Mutant: the first lookup may still come.
ByHandUnsynced(q) == [settings EXCEPT !.clockUtcOffsetQ = q]

\* "Manual choice wins over the one-shot HTTP timezone lookup."
ByHand(q) == [settings EXCEPT !.clockUtcOffsetQ = q, !.clockHasBeenSynced = TRUE]

\* handleTimezone() of the file-manager page.
SetZone(q) ==
  /\ pc = "online" /\ saving = "no"
  /\ settings' = ByHand(q)
  /\ saving' = "zone"
  /\ reported' = {}
  /\ UNCHANGED <<file, pc, rtc, month, chosen, asked, memo, ntp, unread>>

\* What the file says from now on: its zone may be the hand-set one, and its
\* month the one of this session's answer.
Stored ==
  /\ file' = settings
  /\ chosen' = IF saving = "zone" THEN settings.clockUtcOffsetQ ELSE chosen
  /\ memo'   = IF memo = "memory" THEN "file" ELSE memo

\* save(); on a failing card the caller is not told.
Save ==
  /\ saving # "no" /\ saving' = "no"
  /\ \/ Stored
     \/ /\ "card" \in Trouble /\ UNCHANGED chosen
        /\ \/ UNCHANGED <<file, memo>>
           \/ file' = Unreadable /\ memo' = IF memo = "file" THEN "memory" ELSE memo
  /\ UNCHANGED <<settings, pc, rtc, month, asked, ntp, unread, reported>>

\* The power goes, deep sleep, or the restart at the end of a Wi-Fi session.
\* A save that is cut off leaves the old file, the new one or, truncated, none.
PowerGoes ==
  /\ pc # "off" /\ (saving # "no" => "power" \in Trouble)
  /\ \/ UNCHANGED <<file, chosen>> /\ memo' = IF memo = "memory" THEN "none" ELSE memo
     \/ saving # "no" /\ Stored
     \/ saving # "no" /\ file' = Unreadable /\ chosen' = NoZone /\ memo' = "none"
  /\ pc' = "off" /\ saving' = "no" /\ settings' = Defaults
  /\ ntp' = FALSE /\ unread' = FALSE /\ reported' = {}
  /\ UNCHANGED <<rtc, month, asked>>

\* A month passes for the RTC as well.
MonthPasses ==
  /\ month < MaxMonth
  /\ month' = month + 1
  /\ rtc' = IF rtc \in {Stopped, Absent} THEN rtc ELSE rtc + 1
  /\ UNCHANGED <<file, settings, pc, saving, chosen, asked, memo, ntp, unread, reported>>

\* Its battery runs out.
RtcStops ==
  /\ rtc # Absent /\ rtc' = Stopped
  /\ UNCHANGED <<file, settings, pc, saving, month, chosen, asked, memo, ntp, unread, reported>>
-----------------------------------------------------------------------------
\* A new device's RTC may read any month; one that has been set reads the true one.
Init ==
  /\ file \in OldFiles
  /\ settings = Defaults /\ pc = "off" /\ saving = "no"
  /\ month = 1
  /\ rtc \in {Stopped, Absent, month} \union (IF Load(file).ntpSync = Never THEN {0, 2} ELSE {})
  /\ chosen = NoZone /\ asked = 0 /\ memo = "none"
  /\ ntp = FALSE /\ unread = FALSE /\ reported = {}

Next ==
  \/ Boot \/ SetOption \/ Connect \/ Save
  \/ \E q \in Zones : SetZone(q)
  \/ PowerGoes \/ MonthPasses \/ RtcStops

Spec == Init /\ [][Next]_vars
-----------------------------------------------------------------------------
\* Whatever file the card holds, an older layout or values no screen can set,
\* every field in use is one of its choices, and stays one.
SettingsInRange == pc # "off" => InRange(settings)

\* A zone set by hand is in use from then on: no lookup of a later connect
\* replaces it, in any later session, as long as the settings file lasts.
ManualZoneIsKept ==
  pc # "off" /\ saving # "zone" /\ chosen # NoZone => settings.clockUtcOffsetQ = chosen

\* "NTP at most once per calendar month" (Settings.h:32), with the only exceptions
\* the code makes: NTP answers a second time in a month only where the RTC was not
\* read before the request, or where the month of the answer before could not be
\* read back or was lost with the save of it.
OncePerMonth == [][ntp' /\ ~ntp => asked < month \/ memo = "none" \/ unread']_vars

\* Between saves the file says what memory holds: a restart changes nothing.
NothingUnsaved == pc # "off" /\ saving = "no" => Load(file) = settings

\* The minute shown at a UTC minute is right to half a quarter hour where the time
\* is s seconds ahead.
IsRight(s, zone, utc) ==
  LET shown == LocalMinutes(utc, zone)
      error == (60 * shown - (60 * utc + s)) % 86400
  IN shown \in 0 .. 1439 /\ (error <= 450 \/ error >= 86400 - 450)

\* The time on the screen is the local time of the place the service reported, to
\* half a quarter hour, whichever form the report had and across either midnight.
ShowsLocalTime ==
  \A s \in reported, utc \in {0, 29, 719, 1439} : IsRight(s, settings.clockUtcOffsetQ, utc)
=============================================================================
