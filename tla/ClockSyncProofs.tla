--------------------------- MODULE ClockSyncProofs ---------------------------
(***************************************************************************)
(* Proofs about ClockSync and Settings, for every bound on the calendar,   *)
(* every settings file and every zone.                                     *)
(***************************************************************************)
EXTENDS ClockSync, TLAPS

LEMMA StructFields ==
  ASSUME NEW s \in Struct
  PROVE  /\ s = [version |-> s.version, gyroAutoOffSeconds |-> s.gyroAutoOffSeconds,
                 trueSleepMinutes |-> s.trueSleepMinutes,
                 clockHasBeenSynced |-> s.clockHasBeenSynced,
                 clockUtcOffsetQ |-> s.clockUtcOffsetQ, ntpSync |-> s.ntpSync,
                 language |-> s.language]
         /\ s.clockHasBeenSynced \in BOOLEAN /\ s.ntpSync \in Nat
BY DEF Struct

\* Corrected() and Migrated(), field by field.
LEMMA CorrectedFields ==
  ASSUME NEW s \in Struct
  PROVE  LET c == Corrected(s) IN
         /\ c \in Struct
         /\ c.version = s.version
         /\ c.gyroAutoOffSeconds =
              IF s.gyroAutoOffSeconds \in GyroChoices THEN s.gyroAutoOffSeconds ELSE 60
         /\ c.trueSleepMinutes =
              IF s.trueSleepMinutes \in SleepChoices THEN s.trueSleepMinutes ELSE 15
         /\ c.clockHasBeenSynced = s.clockHasBeenSynced
         /\ c.clockUtcOffsetQ = IF s.clockUtcOffsetQ \in ZoneQ THEN s.clockUtcOffsetQ ELSE Utc
         /\ c.ntpSync = s.ntpSync
         /\ c.language = IF s.language \in Languages THEN s.language ELSE LanguageUnset
<1> DEFINE g == IF s.gyroAutoOffSeconds \in GyroChoices THEN s.gyroAutoOffSeconds ELSE 60
           t == IF s.trueSleepMinutes \in SleepChoices THEN s.trueSleepMinutes ELSE 15
           z == IF s.clockUtcOffsetQ \in ZoneQ THEN s.clockUtcOffsetQ ELSE Utc
           l == IF s.language \in Languages THEN s.language ELSE LanguageUnset
<1>1. g \in Int /\ t \in Int /\ z \in Int /\ l \in Int
  BY DEF Struct, Utc, LanguageUnset
<1>2. Corrected(s) = [s EXCEPT !.gyroAutoOffSeconds = g, !.trueSleepMinutes = t,
                              !.clockUtcOffsetQ = z, !.language = l]
  BY DEF Corrected
<1> HIDE DEF g, t, z, l
<1>3. Corrected(s) \in Struct
  BY <1>1, <1>2 DEF Struct
<1>4. /\ Corrected(s).version = s.version /\ Corrected(s).gyroAutoOffSeconds = g
      /\ Corrected(s).trueSleepMinutes = t
      /\ Corrected(s).clockHasBeenSynced = s.clockHasBeenSynced
      /\ Corrected(s).clockUtcOffsetQ = z /\ Corrected(s).ntpSync = s.ntpSync
      /\ Corrected(s).language = l
  BY <1>2 DEF Struct
<1> QED BY <1>3, <1>4 DEF g, t, z, l

LEMMA MigratedFields ==
  ASSUME NEW s \in Struct
  PROVE  LET m == Migrated(s) IN
         /\ m \in Struct
         /\ m.version = CurrentVersion
         /\ m.ntpSync \in {Never, s.ntpSync}
         /\ s.version = CurrentVersion =>
              /\ m.gyroAutoOffSeconds = s.gyroAutoOffSeconds
              /\ m.trueSleepMinutes = s.trueSleepMinutes
              /\ m.clockHasBeenSynced = s.clockHasBeenSynced
              /\ m.clockUtcOffsetQ = s.clockUtcOffsetQ
              /\ m.ntpSync = s.ntpSync
              /\ m.language = s.language
<1> DEFINE t == IF s.version < 4 THEN 0 ELSE s.trueSleepMinutes
           h == IF s.version < 5 THEN FALSE ELSE s.clockHasBeenSynced
           z == IF s.version < 6 THEN Utc ELSE s.clockUtcOffsetQ
           n == IF s.version < 7 THEN Never ELSE s.ntpSync
           l == IF s.version < 9 THEN LanguageUnset ELSE s.language
<1>1. t \in Int /\ z \in Int /\ n \in Nat /\ l \in Int
  BY DEF Struct, Utc, Never, LanguageUnset
<1>2. h \in BOOLEAN
  <2>1. CASE s.version < 5
    BY <2>1
  <2>2. CASE ~(s.version < 5)
    BY <2>2, StructFields
  <2> QED BY <2>1, <2>2
<1>3. Migrated(s) = [s EXCEPT !.version = CurrentVersion, !.trueSleepMinutes = t,
                             !.clockHasBeenSynced = h, !.clockUtcOffsetQ = z,
                             !.ntpSync = n, !.language = l]
  BY DEF Migrated
<1>4. /\ n \in {Never, s.ntpSync}
      /\ s.version = CurrentVersion =>
           t = s.trueSleepMinutes /\ z = s.clockUtcOffsetQ /\ n = s.ntpSync /\ l = s.language
  BY DEF CurrentVersion
<1>5. ASSUME s.version = CurrentVersion
      PROVE  h = s.clockHasBeenSynced
  <2>1. ~(s.version < 5)
    BY <1>5 DEF CurrentVersion
  <2> QED BY <2>1
<1> HIDE DEF t, h, z, n, l
<1>6. Migrated(s) \in Struct
  <2>1. CurrentVersion \in Int
    BY DEF CurrentVersion
  <2>2. [s EXCEPT !.version = CurrentVersion, !.trueSleepMinutes = t] \in Struct
    BY <1>1, <2>1 DEF Struct
  <2>3. ASSUME NEW r \in Struct
        PROVE  [r EXCEPT !.clockHasBeenSynced = h] \in Struct
    BY <1>2 DEF Struct
  <2>4. ASSUME NEW r \in Struct
        PROVE  [r EXCEPT !.clockUtcOffsetQ = z, !.ntpSync = n, !.language = l] \in Struct
    BY <1>1 DEF Struct
  <2> QED BY <1>3, <2>2, <2>3, <2>4
<1>7. /\ Migrated(s).version = CurrentVersion
      /\ Migrated(s).gyroAutoOffSeconds = s.gyroAutoOffSeconds
      /\ Migrated(s).trueSleepMinutes = t /\ Migrated(s).clockHasBeenSynced = h
      /\ Migrated(s).clockUtcOffsetQ = z /\ Migrated(s).ntpSync = n
      /\ Migrated(s).language = l
  BY <1>3 DEF Struct
<1> QED BY <1>4, <1>6, <1>7, <1>5

LEMMA DefaultsInRange == Defaults \in Struct /\ InRange(Defaults) /\ Defaults.ntpSync = Never
<1>1. Defaults \in Struct
  BY DEF Defaults, Struct, CurrentVersion, Utc, LanguageUnset, Never
<1>2. InRange(Defaults) /\ Defaults.ntpSync = Never
  BY DEF Defaults, InRange, GyroChoices, SleepChoices, ZoneQ, Utc
<1> QED BY <1>1, <1>2

\* Settings::load() of any file gives fields that are all in range, and takes the
\* month of the last answer from it or none.
LEMMA LoadsInRange ==
  ASSUME NEW f \in Struct
  PROVE  Load(f) \in Struct /\ InRange(Load(f)) /\ Load(f).ntpSync \in {Never, f.ntpSync}
<1>1. ASSUME NEW s \in Struct, s.version = CurrentVersion
      PROVE  InRange(Corrected(s))
  BY <1>1, CorrectedFields DEF InRange, GyroChoices, SleepChoices, ZoneQ, Utc
<1> QED BY <1>1, DefaultsInRange, MigratedFields, CorrectedFields DEF Load

\* What save() wrote is read back as it was.
LEMMA LoadOfSaved ==
  ASSUME NEW s \in Struct, InRange(s)
  PROVE  Load(s) = s
<1>1. Accepted(s) /\ s.version = CurrentVersion
  BY DEF Accepted, InRange, CurrentVersion, OldestVersion
<1>2. Migrated(s) = s
  BY <1>1, MigratedFields, StructFields
<1>3. Corrected(s) = s
  BY CorrectedFields, StructFields DEF InRange
<1> QED BY <1>1, <1>2, <1>3 DEF Load

\* A lookup that is used has a zone the byte can hold.
LEMMA LookupsInRange ==
  ASSUME NEW l \in Lookups
  PROVE  l.zone \in ZoneQ /\ l.place \in Seconds /\ NeedTimezone
<1>1. l \in Lookup /\ l.zone # NoZone /\ NeedTimezone
  BY DEF Lookups
<1>2. PICK s \in Seconds : \E a \in Answers(s) : l = [place |-> s, zone |-> OffsetOf(a)]
  BY <1>1 DEF Lookup
<1>3. \A n : SecondsToBiased(n) \in ZoneQ \union {NoZone}
  BY DEF SecondsToBiased
<1> QED BY <1>1, <1>2, <1>3 DEF OffsetOf
-----------------------------------------------------------------------------
\* What each action that changes the settings makes of them.
LEMMA OptionChanges ==
  ASSUME TypeOK, SettingsInRange, SetOption
  PROVE  /\ settings' \in Struct /\ InRange(settings')
         /\ settings'.ntpSync = settings.ntpSync
         /\ settings'.clockUtcOffsetQ = settings.clockUtcOffsetQ
         /\ settings'.clockHasBeenSynced = settings.clockHasBeenSynced
<1>1. settings \in Struct /\ InRange(settings)
  BY DEF TypeOK, SettingsInRange, SetOption
<1>2. NextGyro(settings.gyroAutoOffSeconds) \in GyroChoices
  BY <1>1 DEF InRange, NextGyro, GyroChoices
<1>3. NextSleep(settings.trueSleepMinutes) \in SleepChoices
  BY <1>1 DEF InRange, NextSleep, SleepChoices
<1>4. CASE settings' = [settings EXCEPT !.gyroAutoOffSeconds = NextGyro(settings.gyroAutoOffSeconds)]
  BY <1>1, <1>2, <1>4 DEF Struct, InRange, GyroChoices
<1>5. CASE settings' = [settings EXCEPT !.trueSleepMinutes = NextSleep(settings.trueSleepMinutes)]
  BY <1>1, <1>3, <1>5 DEF Struct, InRange, SleepChoices
<1>6. CASE \E l \in Languages : settings' = [settings EXCEPT !.language = l]
  BY <1>1, <1>6 DEF Struct, InRange, Languages
<1> QED BY <1>4, <1>5, <1>6 DEF SetOption

LEMMA SyncedFields ==
  ASSUME NEW noted, settings \in Struct, InRange(settings), month \in Nat
  PROVE  LET t == Synced(noted) IN
         /\ t \in Struct /\ InRange(t)
         /\ t.ntpSync \in {settings.ntpSync, month}
         /\ t.clockUtcOffsetQ = settings.clockUtcOffsetQ
         /\ t.clockHasBeenSynced
         /\ noted => t.ntpSync = month
<1> DEFINE n == IF noted THEN month ELSE settings.ntpSync
<1>1. n \in Nat /\ n \in {settings.ntpSync, month} /\ (noted => n = month)
  BY StructFields
<1>2. Synced(noted) = [settings EXCEPT !.clockHasBeenSynced = TRUE, !.ntpSync = n]
  BY DEF Synced
<1> HIDE DEF n
<1> QED BY <1>1, <1>2 DEF Struct, InRange

LEMMA ZoneFields ==
  ASSUME NEW s \in Struct, InRange(s), NEW q \in ZoneQ
  PROVE  LET t == [s EXCEPT !.clockUtcOffsetQ = q] IN
         t \in Struct /\ InRange(t) /\ t.ntpSync = s.ntpSync
BY DEF Struct, InRange, ZoneQ

LEMMA ConnectChanges ==
  ASSUME TypeOK, SettingsInRange, Connect
  PROVE  /\ settings' \in Struct /\ InRange(settings')
         /\ settings'.ntpSync \in {settings.ntpSync, month}
         /\ ~ntp' => settings'.ntpSync = settings.ntpSync
         /\ settings.clockHasBeenSynced =>
              settings'.clockUtcOffsetQ = settings.clockUtcOffsetQ /\ settings'.clockHasBeenSynced
         /\ reported' \subseteq Seconds
         /\ ntp' => asked' = month /\ (memo' = "none" \/ (memo' = "memory" /\ settings'.ntpSync = month))
         /\ ~ntp' => UNCHANGED <<asked, memo>>
<1>1. settings \in Struct /\ InRange(settings) /\ month \in Nat
  BY DEF TypeOK, SettingsInRange, Connect
<1>2. PICK answered \in BOOLEAN, noted \in BOOLEAN :
        LET timed == IF answered THEN Synced(noted) ELSE settings IN
        /\ \/ settings' = timed /\ UNCHANGED reported
           \/ \E l \in Lookups : /\ settings' = [timed EXCEPT !.clockUtcOffsetQ = l.zone]
                                /\ reported' = {l.place}
        /\ ntp' = answered
        /\ IF answered THEN asked' = month /\ memo' = IF noted THEN "memory" ELSE "none"
           ELSE UNCHANGED <<asked, memo>>
  BY DEF Connect
<1> DEFINE timed == IF answered THEN Synced(noted) ELSE settings
<1>3. /\ timed \in Struct /\ InRange(timed)
      /\ timed.ntpSync \in {settings.ntpSync, month}
      /\ ~answered => timed.ntpSync = settings.ntpSync
      /\ timed.clockUtcOffsetQ = settings.clockUtcOffsetQ
      /\ settings.clockHasBeenSynced => timed.clockHasBeenSynced
      /\ answered /\ noted => timed.ntpSync = month
  <2>1. CASE answered
    BY <1>1, <2>1, SyncedFields
  <2>2. CASE ~answered
    BY <1>1, <2>2
  <2> QED BY <2>1, <2>2
<1>4. /\ ntp' = answered
      /\ ntp' => asked' = month /\ (memo' = "none" \/ (memo' = "memory" /\ timed.ntpSync = month))
      /\ ~ntp' => UNCHANGED <<asked, memo>>
  <2>1. CASE answered
    BY <1>2, <1>3, <2>1
  <2>2. CASE ~answered
    BY <1>2, <2>2
  <2> QED BY <2>1, <2>2
<1> HIDE DEF timed
<1>5. CASE settings' = timed /\ UNCHANGED reported
  BY <1>3, <1>4, <1>5 DEF TypeOK
<1>6. ASSUME NEW l \in Lookups, settings' = [timed EXCEPT !.clockUtcOffsetQ = l.zone],
             reported' = {l.place}
      PROVE  /\ settings' \in Struct /\ InRange(settings') /\ reported' \subseteq Seconds
             /\ settings'.ntpSync = timed.ntpSync /\ ~settings.clockHasBeenSynced
  BY <1>3, <1>6, LookupsInRange, ZoneFields DEF NeedTimezone
<1> QED BY <1>2, <1>3, <1>4, <1>5, <1>6 DEF timed

LEMMA SetZoneChanges ==
  ASSUME TypeOK, SettingsInRange, NEW q \in Zones, SetZone(q)
  PROVE  /\ settings' \in Struct /\ InRange(settings')
         /\ settings'.ntpSync = settings.ntpSync
         /\ settings'.clockHasBeenSynced
<1>1. settings \in Struct /\ InRange(settings)
  BY DEF TypeOK, SettingsInRange, SetZone
<1>2. q \in ZoneQ /\ settings' = [settings EXCEPT !.clockUtcOffsetQ = q, !.clockHasBeenSynced = TRUE]
  BY ZonesAssumption DEF SetZone, ByHand
<1> DEFINE t == [settings EXCEPT !.clockUtcOffsetQ = q]
<1>3. t \in Struct /\ InRange(t) /\ t.ntpSync = settings.ntpSync
  BY <1>1, <1>2, ZoneFields
<1>4. settings' = [t EXCEPT !.clockHasBeenSynced = TRUE]
  BY <1>2
<1> HIDE DEF t
<1> QED BY <1>3, <1>4 DEF Struct, InRange

LEMMA UnreadableIsAFile == Unreadable \in Struct /\ Unreadable.ntpSync = Never
<1>1. Defaults \in Struct /\ Defaults.ntpSync = Never
  BY DefaultsInRange
<1> HIDE DEF Defaults
<1> QED BY <1>1 DEF Unreadable, Struct
-----------------------------------------------------------------------------
\* Settings that are in range stay so, whatever goes wrong.
Ranges == TypeOK /\ SettingsInRange /\ (saving # "no" => pc # "off")

LEMMA RangesInit == Init => Ranges
<1> SUFFICES ASSUME Init PROVE Ranges
  OBVIOUS
<1>1. file \in Struct /\ file.ntpSync <= MaxMonth
  BY FilesAssumption, MonthAssumption DEF Init, Never
<1>2. settings \in Struct /\ settings.ntpSync <= MaxMonth
  BY DefaultsInRange, MonthAssumption DEF Init, Never
<1>3. rtc \in {Stopped, Absent} \union Nat
  BY DEF Init
<1>4. SettingsInRange /\ saving = "no" /\ pc = "off" /\ ntp \in BOOLEAN /\ unread \in BOOLEAN /\ reported \subseteq Seconds
  BY DEF Init, SettingsInRange
<1>5. month \in 1 .. MaxMonth /\ asked \in 0 .. MaxMonth /\ chosen = NoZone /\ memo = "none"
  BY MonthAssumption DEF Init
<1>6. TypeOK
  BY <1>1, <1>2, <1>3, <1>4, <1>5 DEF TypeOK
<1> QED BY <1>4, <1>6 DEF Ranges

\* save(), or the part of it that reached the card.
LEMMA StoredRanges ==
  ASSUME Ranges, saving # "no", Stored
  PROVE  /\ file' \in Struct /\ file'.ntpSync <= MaxMonth
         /\ chosen' \in ZoneQ \union {NoZone} /\ memo' \in {"none", "memory", "file"}
<1>1. settings \in Struct /\ settings.ntpSync <= MaxMonth /\ InRange(settings)
      /\ chosen \in ZoneQ \union {NoZone} /\ memo \in {"none", "memory", "file"}
  BY DEF Ranges, TypeOK, SettingsInRange
<1>2. settings.clockUtcOffsetQ \in ZoneQ /\ settings.ntpSync \in 0 .. MaxMonth
  BY <1>1, StructFields, MonthAssumption DEF InRange
<1> QED BY <1>1, <1>2 DEF Stored

LEMMA RangesNext == Ranges /\ [Next]_vars => Ranges'
<1> SUFFICES ASSUME Ranges, [Next]_vars PROVE Ranges'
  OBVIOUS
<1>t. TypeOK /\ SettingsInRange /\ (saving # "no" => pc # "off")
  BY DEF Ranges
<1>m. MaxMonth \in Nat /\ MaxMonth > 0
  BY MonthAssumption
<1> USE DEF TypeOK
<1>1. CASE Boot
  <2>1. Load(file) \in Struct /\ InRange(Load(file)) /\ Load(file).ntpSync <= MaxMonth
    BY <1>t, <1>m, LoadsInRange, StructFields DEF Never
  <2>2. settings' = Load(file) /\ pc' = "up" /\ ntp' \in BOOLEAN
    BY <1>1 DEF Boot
  <2> QED BY <1>1, <1>t, <2>1, <2>2 DEF Boot, Ranges, SettingsInRange
<1>2. CASE SetOption
  BY <1>2, <1>t, OptionChanges DEF SetOption, Ranges, SettingsInRange
<1>3. CASE Connect
  <2>1. /\ pc' = "online" /\ UNCHANGED <<file, month, chosen>>
        /\ ntp' \in BOOLEAN /\ unread' \in BOOLEAN /\ saving' \in {"no", "month"}
        /\ asked' \in 0 .. MaxMonth /\ memo' \in {"none", "memory", "file"}
        /\ rtc' \in {Stopped, Absent} \union Nat
    BY <1>3, <1>t, <1>m DEF Connect
  <2>2. settings'.ntpSync <= MaxMonth
    BY <1>3, <1>t, <1>m, ConnectChanges
  <2> QED BY <1>3, <1>t, <2>1, <2>2, ConnectChanges DEF Ranges, SettingsInRange
<1>4. CASE Save
  <2>1. file' \in Struct /\ file'.ntpSync <= MaxMonth
        /\ chosen' \in ZoneQ \union {NoZone} /\ memo' \in {"none", "memory", "file"}
    BY <1>4, <1>t, <1>m, StoredRanges, UnreadableIsAFile DEF Save, Never
  <2> QED BY <1>4, <1>t, <2>1 DEF Save, Ranges, SettingsInRange
<1>5. ASSUME NEW q \in Zones, SetZone(q)
      PROVE  Ranges'
  BY <1>5, <1>t, SetZoneChanges DEF SetZone, Ranges, SettingsInRange
<1>6. CASE PowerGoes
  <2>1. file' \in Struct /\ file'.ntpSync <= MaxMonth
        /\ chosen' \in ZoneQ \union {NoZone} /\ memo' \in {"none", "memory", "file"}
    BY <1>6, <1>t, <1>m, StoredRanges, UnreadableIsAFile DEF PowerGoes, Never
  <2>2. settings' \in Struct /\ settings'.ntpSync <= MaxMonth
    BY <1>6, <1>m, DefaultsInRange DEF PowerGoes, Never
  <2>3. ntp' \in BOOLEAN /\ unread' \in BOOLEAN /\ reported' \subseteq Seconds
    BY <1>6 DEF PowerGoes
  <2> QED BY <1>6, <1>t, <2>1, <2>2, <2>3 DEF PowerGoes, Ranges, SettingsInRange
<1>7. CASE MonthPasses
  BY <1>7, <1>t, <1>m DEF MonthPasses, Ranges, SettingsInRange, Stopped, Absent
<1>8. CASE RtcStops
  BY <1>8, <1>t DEF RtcStops, Ranges, SettingsInRange
<1>9. CASE UNCHANGED vars
  BY <1>9, <1>t DEF vars, Ranges, SettingsInRange
<1> QED BY <1>1, <1>2, <1>3, <1>4, <1>5, <1>6, <1>7, <1>8, <1>9 DEF Next

\* Every variable keeps its range: the struct its types, the months their bound.
THEOREM TypeCorrect == Spec => []TypeOK
<1>1. Init => Ranges
  BY RangesInit
<1>2. Ranges /\ [Next]_vars => Ranges'
  BY RangesNext
<1>3. Ranges => TypeOK
  BY DEF Ranges
<1> QED BY <1>1, <1>2, <1>3, PTL DEF Spec

\* Whatever file is found and whatever is set, looked up, cut or not saved, every
\* field of the settings in use is one of its choices.
THEOREM SettingsStayInRange == Spec => []SettingsInRange
<1>1. Init => Ranges
  BY RangesInit
<1>2. Ranges /\ [Next]_vars => Ranges'
  BY RangesNext
<1>3. Ranges => SettingsInRange
  BY DEF Ranges
<1> QED BY <1>1, <1>2, <1>3, PTL DEF Spec
-----------------------------------------------------------------------------
\* The card keeps what it is given.
Keeps == "card" \notin Trouble

\* The zone set by hand is in the file, marked so that no lookup is made,
ChoiceInFile ==
  chosen # NoZone => Load(file).clockUtcOffsetQ = chosen /\ Load(file).clockHasBeenSynced

\* and in memory, until another is set.
ChoiceInUse ==
  pc # "off" /\ chosen # NoZone /\ saving # "zone" =>
    settings.clockUtcOffsetQ = chosen /\ settings.clockHasBeenSynced

HandSynced == saving = "zone" => settings.clockHasBeenSynced

IInv ==
  /\ Ranges /\ NothingUnsaved
  /\ ChoiceInFile /\ ChoiceInUse /\ HandSynced

LEMMA IInvInit == Init => IInv
<1> SUFFICES ASSUME Init PROVE IInv
  OBVIOUS
<1>1. NothingUnsaved /\ ChoiceInUse /\ HandSynced
  BY DEF Init, NothingUnsaved, ChoiceInUse, HandSynced
<1>2. ChoiceInFile
  BY DEF Init, ChoiceInFile
<1> QED BY <1>1, <1>2, RangesInit DEF IInv

\* After a save, whole or cut off by the power but done, the file is the memory.
LEMMA StoredAgrees ==
  ASSUME IInv, saving # "no", Stored
  PROVE  Load(file') = settings /\ ChoiceInFile'
<1>1. Load(settings) = settings /\ file' = settings
  BY LoadOfSaved DEF IInv, Ranges, TypeOK, SettingsInRange, Stored
<1>2. pc # "off"
  BY DEF IInv, Ranges
<1>3. ChoiceInFile'
  <2>1. CASE saving = "zone"
    BY <1>1, <2>1 DEF IInv, HandSynced, Stored, ChoiceInFile
  <2>2. CASE saving # "zone"
    BY <1>1, <1>2, <2>2 DEF IInv, ChoiceInUse, Stored, ChoiceInFile
  <2> QED BY <2>1, <2>2
<1> QED BY <1>1, <1>3

LEMMA IInvNext ==
  ASSUME Keeps
  PROVE  IInv /\ [Next]_vars => IInv'
<1> SUFFICES ASSUME IInv, [Next]_vars PROVE IInv'
  OBVIOUS
<1>r. Ranges'
  BY RangesNext DEF IInv
<1>t. TypeOK /\ SettingsInRange /\ (saving # "no" => pc # "off")
  BY DEF IInv, Ranges
<1>1. CASE Boot
  <2>1. /\ settings' = Load(file) /\ pc' = "up"
        /\ UNCHANGED <<file, saving, chosen>> /\ saving = "no"
    BY <1>1, <1>t DEF Boot
  <2>2. NothingUnsaved' /\ HandSynced'
    BY <2>1 DEF NothingUnsaved, HandSynced
  <2>3. ChoiceInFile' /\ ChoiceInUse'
    BY <2>1 DEF IInv, ChoiceInFile, ChoiceInUse
  <2> QED BY <1>r, <2>2, <2>3 DEF IInv
<1>2. CASE SetOption
  <2>1. /\ UNCHANGED <<file, pc, chosen>>
        /\ saving = "no" /\ saving' = "option" /\ pc = "up"
    BY <1>2 DEF SetOption
  <2>2. /\ settings'.clockUtcOffsetQ = settings.clockUtcOffsetQ
        /\ settings'.clockHasBeenSynced = settings.clockHasBeenSynced
    BY <1>2, <1>t, OptionChanges
  <2>3. NothingUnsaved' /\ HandSynced'
    BY <2>1 DEF IInv, NothingUnsaved, HandSynced
  <2>4. ChoiceInFile' /\ ChoiceInUse'
    BY <2>1, <2>2 DEF IInv, ChoiceInFile, ChoiceInUse
  <2> QED BY <1>r, <2>3, <2>4 DEF IInv
<1>3. CASE Connect
  <2>1. /\ UNCHANGED <<file, chosen>>
        /\ saving = "no" /\ pc = "up" /\ saving' \in {"no", "month"}
    BY <1>3 DEF Connect
  <2>2. saving' = "no" => settings' = settings
    BY <1>3 DEF Connect, Dirty
  <2>3. NothingUnsaved' /\ HandSynced'
    BY <2>1, <2>2 DEF IInv, NothingUnsaved, HandSynced
  <2>4. ChoiceInFile' /\ ChoiceInUse'
    BY <1>3, <1>t, <2>1, ConnectChanges DEF IInv, ChoiceInFile, ChoiceInUse
  <2> QED BY <1>r, <2>3, <2>4 DEF IInv
<1>4. CASE Save
  <2>1. /\ Stored /\ saving # "no" /\ saving' = "no"
        /\ UNCHANGED <<settings, pc>>
    BY <1>4 DEF Save, Keeps
  <2>2. Load(file') = settings /\ ChoiceInFile'
    BY <2>1, StoredAgrees
  <2>3. NothingUnsaved' /\ HandSynced'
    BY <2>1, <2>2 DEF IInv, NothingUnsaved, HandSynced
  <2>4. ChoiceInUse'
    BY <2>1, <2>2 DEF ChoiceInFile, ChoiceInUse
  <2> QED BY <1>r, <2>2, <2>3, <2>4 DEF IInv
<1>5. ASSUME NEW q \in Zones, SetZone(q)
      PROVE  IInv'
  <2>1. UNCHANGED <<file, pc, chosen>> /\ saving = "no" /\ saving' = "zone"
    BY <1>5 DEF SetZone
  <2>2. settings'.clockHasBeenSynced
    BY <1>5, <1>t, SetZoneChanges
  <2>3. NothingUnsaved' /\ HandSynced'
    BY <2>1, <2>2 DEF IInv, NothingUnsaved, HandSynced
  <2>4. ChoiceInFile' /\ ChoiceInUse'
    BY <2>1 DEF IInv, ChoiceInFile, ChoiceInUse
  <2> QED BY <1>r, <2>3, <2>4 DEF IInv
<1>6. CASE PowerGoes
  <2>1. pc' = "off" /\ saving' = "no"
    BY <1>6 DEF PowerGoes
  <2>2. ChoiceInFile'
    <3>1. CASE UNCHANGED <<file, chosen>>
      BY <3>1 DEF IInv, ChoiceInFile
    <3>2. CASE saving # "no" /\ Stored
      BY <3>2, StoredAgrees
    <3>3. CASE chosen' = NoZone
      BY <3>3 DEF ChoiceInFile
    <3> QED BY <1>6, <3>1, <3>2, <3>3 DEF PowerGoes
  <2>3. NothingUnsaved' /\ ChoiceInUse' /\ HandSynced'
    BY <2>1 DEF NothingUnsaved, ChoiceInUse, HandSynced
  <2> QED BY <1>r, <2>2, <2>3 DEF IInv
<1>7. CASE MonthPasses \/ RtcStops \/ UNCHANGED vars
  <2>1. UNCHANGED <<file, settings, pc, saving, chosen>>
    BY <1>7 DEF MonthPasses, RtcStops, vars
  <2> QED BY <1>r, <2>1 DEF IInv, NothingUnsaved, ChoiceInFile, ChoiceInUse, HandSynced
<1> QED BY <1>1, <1>2, <1>3, <1>4, <1>5, <1>6, <1>7 DEF Next

\* Between saves a restart changes nothing of the settings.
THEOREM MemoryIsInTheFile ==
  ASSUME Keeps
  PROVE  Spec => []NothingUnsaved
<1>1. Init => IInv
  BY IInvInit
<1>2. IInv /\ [Next]_vars => IInv'
  BY IInvNext
<1>3. IInv => NothingUnsaved
  BY DEF IInv
<1> QED BY <1>1, <1>2, <1>3, PTL DEF Spec

\* No lookup, of this session or a later one, replaces a zone set by hand.
THEOREM HandSetZoneStays ==
  ASSUME Keeps
  PROVE  Spec => []ManualZoneIsKept
<1>1. Init => IInv
  BY IInvInit
<1>2. IInv /\ [Next]_vars => IInv'
  BY IInvNext
<1>3. IInv => ManualZoneIsKept
  BY DEF IInv, ChoiceInUse, ManualZoneIsKept
<1> QED BY <1>1, <1>2, <1>3, PTL DEF Spec

-----------------------------------------------------------------------------
\* Where the month of the last answer is noted, there it is, whatever fails: in
\* memory until it is saved, and in the file until that is lost.  An answer sets
\* the RTC, which from then on reads the true month or nothing.
MonthIsNoted ==
  /\ asked # 0 => rtc \in {Stopped, month}
  /\ memo = "file" => Load(file).ntpSync = asked
  /\ pc # "off" /\ memo # "none" => settings.ntpSync = asked
  /\ pc = "off" => memo # "memory"
  /\ memo # "none" => asked # 0

LEMMA NotedByConnect ==
  ASSUME Ranges, MonthIsNoted, Connect
  PROVE  MonthIsNoted'
<1>t. TypeOK /\ SettingsInRange
  BY DEF Ranges
<1>1. /\ pc = "up" /\ pc' = "online" /\ UNCHANGED <<file, month>>
      /\ rtc' = IF ntp' THEN month ELSE rtc
  BY DEF Connect
<1>2. month # 0
  BY <1>t DEF TypeOK
<1>3. CASE ntp'
  <2>1. asked' = month /\ (memo' = "none" \/ (memo' = "memory" /\ settings'.ntpSync = month))
    BY <1>3, <1>t, ConnectChanges
  <2> QED BY <1>1, <1>2, <1>3, <2>1 DEF MonthIsNoted
<1>4. CASE ~ntp'
  <2>1. settings'.ntpSync = settings.ntpSync /\ UNCHANGED <<asked, memo>>
    BY <1>4, <1>t, ConnectChanges
  <2> QED BY <1>1, <1>4, <2>1 DEF MonthIsNoted
<1> QED BY <1>3, <1>4

LEMMA NotedNext == Ranges /\ MonthIsNoted /\ [Next]_vars => MonthIsNoted'
<1> SUFFICES ASSUME Ranges, MonthIsNoted, [Next]_vars PROVE MonthIsNoted'
  OBVIOUS
<1>t. TypeOK /\ SettingsInRange /\ (saving # "no" => pc # "off")
  BY DEF Ranges
<1>s. ASSUME saving # "no", Stored
      PROVE  /\ Load(file') = settings
             /\ memo' \in {"none", "file"} /\ (memo' = "file" <=> memo # "none")
  <2>1. Load(settings) = settings
    BY <1>s, <1>t, LoadOfSaved DEF TypeOK, SettingsInRange
  <2> QED BY <1>s, <1>t, <2>1 DEF Stored, TypeOK
<1>1. CASE Boot
  BY <1>1, <1>t DEF Boot, MonthIsNoted, TypeOK
<1>2. CASE SetOption
  BY <1>2, <1>t, OptionChanges DEF SetOption, MonthIsNoted
<1>3. CASE Connect
  BY <1>3, NotedByConnect
<1>4. CASE Save
  <2>1. saving # "no" /\ pc # "off" /\ UNCHANGED <<settings, pc, rtc, month, asked>>
    BY <1>4, <1>t DEF Save
  <2>2. CASE Stored
    BY <1>s, <2>1, <2>2 DEF MonthIsNoted
  <2>3. CASE UNCHANGED <<file, memo>>
    BY <2>1, <2>3 DEF MonthIsNoted
  <2>4. CASE memo' = IF memo = "file" THEN "memory" ELSE memo
    BY <2>1, <2>4 DEF MonthIsNoted
  <2> QED BY <1>4, <2>2, <2>3, <2>4 DEF Save
<1>5. ASSUME NEW q \in Zones, SetZone(q)
      PROVE  MonthIsNoted'
  <2>1. settings'.ntpSync = settings.ntpSync
    BY <1>5, <1>t, SetZoneChanges
  <2> QED BY <1>5, <2>1 DEF SetZone, MonthIsNoted
<1>6. CASE PowerGoes
  <2>1. pc' = "off" /\ UNCHANGED <<rtc, month, asked>>
    BY <1>6 DEF PowerGoes
  <2>2. CASE UNCHANGED file /\ memo' = IF memo = "memory" THEN "none" ELSE memo
    BY <1>t, <2>1, <2>2 DEF MonthIsNoted, TypeOK
  <2>3. CASE saving # "no" /\ Stored
    BY <1>s, <1>t, <2>1, <2>3 DEF MonthIsNoted
  <2>4. CASE memo' = "none"
    BY <2>1, <2>4 DEF MonthIsNoted
  <2> QED BY <1>6, <2>2, <2>3, <2>4 DEF PowerGoes
<1>7. CASE MonthPasses
  <2>1. /\ UNCHANGED <<file, settings, pc, asked, memo>>
        /\ month' = month + 1 /\ (rtc = Stopped => rtc' = Stopped)
        /\ (rtc = month => rtc' = month')
    BY <1>7, <1>t DEF MonthPasses, TypeOK, Stopped, Absent
  <2> QED BY <2>1 DEF MonthIsNoted
<1>8. CASE RtcStops
  BY <1>8 DEF RtcStops, MonthIsNoted
<1>9. CASE UNCHANGED vars
  BY <1>9 DEF vars, MonthIsNoted
<1> QED BY <1>1, <1>2, <1>3, <1>4, <1>5, <1>6, <1>7, <1>8, <1>9 DEF Next

\* Whatever fails, NTP answers at most once in a calendar month, but for an answer
\* whose month could not be read back or was lost with its save, and for a
\* request made without the RTC being read.
THEOREM AnsweredOncePerMonth == Spec => OncePerMonth
<1>1. Init => Ranges /\ MonthIsNoted
  BY RangesInit DEF Init, MonthIsNoted
<1>2. Ranges /\ MonthIsNoted /\ [Next]_vars => Ranges' /\ MonthIsNoted'
  BY RangesNext, NotedNext
<1>3. ASSUME Ranges, MonthIsNoted, [Next]_vars
      PROVE  [ntp' /\ ~ntp => asked < month \/ memo = "none" \/ unread']_vars
  <2>1. CASE Connect /\ ntp' /\ memo # "none" /\ ~unread'
    <3>1. PICK read \in BOOLEAN :
            NtpDue(read) /\ (read => rtc \notin {Stopped, Absent}) /\ unread' = ~read /\ pc = "up"
      BY <2>1 DEF Connect
    <3>2. read
      BY <2>1, <3>1
    <3>3. settings.ntpSync = asked /\ asked # Never /\ rtc = month
      BY <2>1, <1>3, <3>1, <3>2 DEF MonthIsNoted, Never
    <3>4. asked \in Nat /\ month \in Nat
      BY <1>3 DEF Ranges, TypeOK
    <3> QED BY <3>1, <3>2, <3>3, <3>4 DEF NtpDue
  <2>2. ~Connect /\ Next => ~(ntp' /\ ~ntp)
    BY DEF Next, Boot, SetOption, Save, SetZone, PowerGoes, MonthPasses, RtcStops
  <2> QED BY <1>3, <2>1, <2>2
<1> QED BY <1>1, <1>2, <1>3, PTL DEF Spec, OncePerMonth
-----------------------------------------------------------------------------
\* The arithmetic of TimeZone, for every number of seconds and minutes.
LEMMA QuotientBounds ==
  ASSUME NEW a \in Int
  PROVE  LET q == Quotient(a, 900) IN
         /\ q \in Int
         /\ a >= 0 => 900 * q <= a /\ a < 900 * q + 900
         /\ a < 0 => 900 * q >= a /\ a > 900 * q - 900
BY DEF Quotient

\* secondsToBiased() takes the nearest quarter hour, for every number of seconds.
LEMMA NearestQuarter ==
  ASSUME NEW n \in Int
  PROVE  Biased(n) \in Int /\ Distance(900 * (Biased(n) - Utc), n) <= 450
<1>1. CASE n >= 0
  BY <1>1, QuotientBounds, n + 450 \in Int DEF Biased, Distance, Utc
<1>2. CASE n < 0
  BY <1>2, QuotientBounds, n - 450 \in Int DEF Biased, Distance, Utc
<1> QED BY <1>1, <1>2

\* "+hh:mm" says a whole number of minutes exactly.
LEMMA WrittenIsWhole ==
  ASSUME NEW n \in Int, n % 60 = 0
  PROVE  LET a == Written(n) IN a.sign * (a.hours * 3600 + a.mins * 60) = n
<1>1. CASE n >= 0
  <2>1. Distance(n, 0) = n
    BY <1>1 DEF Distance
  <2>2. n = (n \div 3600) * 3600 + ((n % 3600) \div 60) * 60
    BY <1>1
  <2> QED BY <1>1, <2>1, <2>2 DEF Written
<1>2. CASE n < 0
  <2>1. Distance(n, 0) = -n
    BY <1>2 DEF Distance
  <2>2. -n = ((-n) \div 3600) * 3600 + (((-n) % 3600) \div 60) * 60
    BY <1>2
  <2> QED BY <1>2, <2>1, <2>2 DEF Written
<1> QED BY <1>1, <1>2

LEMMA IntoTheDay ==
  ASSUME NEW m \in Int, -1440 < m, m < 1440
  PROVE  Remainder(m + 1440, 1440) = IF m >= 0 THEN m ELSE m + 1440
<1>1. Remainder(m + 1440, 1440) = m + 1440 - 1440 * ((m + 1440) \div 1440)
  BY DEF Remainder, Quotient
<1>2. (m + 1440) \div 1440 = IF m >= 0 THEN 1 ELSE 0
  OBVIOUS
<1> QED BY <1>1, <1>2

\* An offset to half a quarter hour gives a time of day to half a quarter hour,
\* across either midnight.
LEMMA RightToTheQuarter ==
  ASSUME NEW s \in Int, NEW z \in ZoneQ, Distance(900 * (z - Utc), s) <= 450,
         NEW utc \in 0 .. 1439
  PROVE  IsRight(s, z, utc)
<1> DEFINE shown == LocalMinutes(utc, z)
           total == utc + (z - Utc) * 15
           m == Remainder(total, 1440)
           q == Quotient(total, 1440)
<1>1. total \in Int
  BY DEF ZoneQ, Utc
<1>2. shown = Remainder(m + 1440, 1440)
  BY DEF LocalMinutes, ZoneQ
<1>3. m \in Int /\ q \in Int /\ -1440 < m /\ m < 1440 /\ m = total - 1440 * q
  <2> HIDE DEF total, shown
  <2>1. CASE total >= 0
    BY <1>1, <2>1 DEF Remainder, Quotient
  <2>2. CASE total < 0
    <3>1. q = -((-total) \div 1440) /\ m = total - 1440 * q
      BY <1>1, <2>2 DEF Quotient, Remainder
    <3>2. /\ (-total) \div 1440 \in Int
          /\ 1440 * ((-total) \div 1440) <= -total
          /\ -total < 1440 * ((-total) \div 1440) + 1440
      BY <1>1, <2>2
    <3> HIDE DEF q, m
    <3> QED BY <1>1, <3>1, <3>2
  <2> QED BY <1>1, <2>1, <2>2
<1> HIDE DEF shown, m, q
<1>4. shown = IF m >= 0 THEN m ELSE m + 1440
  BY <1>2, <1>3, IntoTheDay
<1>5. shown \in 0 .. 1439
  BY <1>3, <1>4
<1>6. PICK k \in Int : shown = total - 1440 * k
  <2> HIDE DEF total
  <2>1. CASE m >= 0
    BY <1>3, <1>4, <2>1
  <2>2. CASE m < 0
    <3>1. q - 1 \in Int /\ shown = total - 1440 * (q - 1)
      BY <1>1, <1>3, <1>4, <2>2
    <3> QED BY <3>1
  <2> QED BY <1>3, <2>1, <2>2
<1> DEFINE d == 900 * (z - Utc) - s
<1>7. d \in -450 .. 450
  BY DEF Distance, ZoneQ, Utc
<1>8. 60 * shown - (60 * utc + s) = d - 86400 * k
  <2>1. z \in Int /\ utc \in Int
    BY DEF ZoneQ
  <2> QED BY <1>6, <2>1 DEF Utc
<1> HIDE DEF d
<1>9. (d - 86400 * k) % 86400 = IF d >= 0 THEN d ELSE d + 86400
  BY <1>7
<1> QED BY <1>5, <1>7, <1>8, <1>9 DEF shown, IsRight

LEMMA OffsetIsNear ==
  ASSUME NEW s \in Seconds, NEW a \in Answers(s), OffsetOf(a) # NoZone
  PROVE  Distance(900 * (OffsetOf(a) - Utc), s) <= 450
<1>1. s \in Int /\ s % 60 = 0
  BY SecondsAssumption
<1>2. ASSUME SecondsToBiased(s) # NoZone
      PROVE  Distance(900 * (SecondsToBiased(s) - Utc), s) <= 450
  BY <1>1, <1>2, NearestQuarter DEF SecondsToBiased
<1>3. OffsetOf([offset |-> s]) = SecondsToBiased(s)
  BY DEF OffsetOf
<1>4. OffsetOf(Written(s)) = SecondsToBiased(s)
  <2>1. OffsetOf(Written(s)) =
          SecondsToBiased(Written(s).sign * (Written(s).hours * 3600 + Written(s).mins * 60))
    BY DEF OffsetOf, Written
  <2> QED BY <1>1, <2>1, WrittenIsWhole
<1> QED BY <1>2, <1>3, <1>4 DEF Answers

\* The zone in use is the nearest to the offset that was reported, if one was.
ReportedIsUsed ==
  /\ pc = "off" => reported = {}
  /\ \A s \in reported : Distance(900 * (settings.clockUtcOffsetQ - Utc), s) <= 450

LEMMA ConnectUsesReported ==
  ASSUME Ranges, ReportedIsUsed, Connect
  PROVE  ReportedIsUsed'
<1>1. settings \in Struct /\ InRange(settings) /\ month \in Nat /\ pc' = "online"
  BY DEF Ranges, TypeOK, SettingsInRange, Connect
<1>2. PICK answered \in BOOLEAN, noted \in BOOLEAN :
        LET timed == IF answered THEN Synced(noted) ELSE settings IN
        \/ settings' = timed /\ UNCHANGED reported
        \/ \E l \in Lookups : /\ settings' = [timed EXCEPT !.clockUtcOffsetQ = l.zone]
                             /\ reported' = {l.place}
  BY DEF Connect
<1> DEFINE timed == IF answered THEN Synced(noted) ELSE settings
<1>3. timed \in Struct /\ timed.clockUtcOffsetQ = settings.clockUtcOffsetQ
  BY <1>1, SyncedFields
<1> HIDE DEF timed
<1>4. CASE settings' = timed /\ UNCHANGED reported
  BY <1>1, <1>3, <1>4 DEF ReportedIsUsed
<1>5. ASSUME NEW l \in Lookups, settings' = [timed EXCEPT !.clockUtcOffsetQ = l.zone],
             reported' = {l.place}
      PROVE  ReportedIsUsed'
  <2>1. PICK s \in Seconds : \E a \in Answers(s) : l = [place |-> s, zone |-> OffsetOf(a)]
    BY DEF Lookups, Lookup
  <2>2. PICK a \in Answers(s) : l = [place |-> s, zone |-> OffsetOf(a)]
    BY <2>1
  <2>3. l.zone # NoZone
    BY DEF Lookups
  <2>4. l.place = s /\ l.zone = OffsetOf(a)
    BY <2>2
  <2>5. Distance(900 * (l.zone - Utc), s) <= 450
    BY <2>3, <2>4, OffsetIsNear
  <2>6. settings'.clockUtcOffsetQ = l.zone
    BY <1>3, <1>5 DEF Struct
  <2> QED BY <1>1, <1>5, <2>4, <2>5, <2>6 DEF ReportedIsUsed
<1> QED BY <1>2, <1>4, <1>5 DEF timed

LEMMA ReportedNext == Ranges /\ ReportedIsUsed /\ [Next]_vars => ReportedIsUsed'
<1> SUFFICES ASSUME Ranges, ReportedIsUsed, [Next]_vars PROVE ReportedIsUsed'
  OBVIOUS
<1> USE DEF ReportedIsUsed
<1>t. TypeOK /\ SettingsInRange
  BY DEF Ranges
<1>1. CASE Boot
  BY <1>1 DEF Boot
<1>2. CASE SetOption
  <2>1. settings'.clockUtcOffsetQ = settings.clockUtcOffsetQ
    BY <1>2, <1>t, OptionChanges
  <2> QED BY <1>2, <2>1 DEF SetOption
<1>3. CASE Connect
  BY <1>3, ConnectUsesReported
<1>4. CASE Save
  BY <1>4 DEF Save
<1>5. ASSUME NEW q \in Zones, SetZone(q)
      PROVE  ReportedIsUsed'
  BY <1>5 DEF SetZone
<1>6. CASE PowerGoes
  BY <1>6 DEF PowerGoes
<1>7. CASE MonthPasses
  BY <1>7 DEF MonthPasses
<1>8. CASE RtcStops
  BY <1>8 DEF RtcStops
<1>9. CASE UNCHANGED vars
  BY <1>9 DEF vars
<1> QED BY <1>1, <1>2, <1>3, <1>4, <1>5, <1>6, <1>7, <1>8, <1>9 DEF Next

\* The time shown is the local time of the place the service reported, to half a
\* quarter hour, for every offset in whole minutes.
THEOREM LocalTimeIsShown == Spec => []ShowsLocalTime
<1>1. Init => Ranges /\ ReportedIsUsed
  BY RangesInit DEF Init, ReportedIsUsed
<1>2. Ranges /\ ReportedIsUsed /\ [Next]_vars => Ranges' /\ ReportedIsUsed'
  BY RangesNext, ReportedNext
<1>3. Ranges /\ ReportedIsUsed => ShowsLocalTime
  <2> SUFFICES ASSUME Ranges, ReportedIsUsed,
                      NEW s \in reported, NEW utc \in {0, 29, 719, 1439}
               PROVE  IsRight(s, settings.clockUtcOffsetQ, utc)
    BY DEF ShowsLocalTime
  <2>1. s \in Int
    BY SecondsAssumption DEF Ranges, TypeOK
  <2>2. settings.clockUtcOffsetQ \in ZoneQ
    BY DEF Ranges, SettingsInRange, ReportedIsUsed, InRange
  <2>3. Distance(900 * (settings.clockUtcOffsetQ - Utc), s) <= 450
    BY DEF ReportedIsUsed
  <2>4. utc \in 0 .. 1439
    OBVIOUS
  <2> QED BY <2>1, <2>2, <2>3, <2>4, RightToTheQuarter
<1> QED BY <1>1, <1>2, <1>3, PTL DEF Spec
=============================================================================
