------------------------------ MODULE TimeZone ------------------------------
(***************************************************************************)
(* Time zones as the settings keep them, a byte of quarter hours from      *)
(* UTC-12: made from the seconds or the "+hh:mm" of two lookup services,   *)
(* and applied to the RTC's UTC time.  The code's / and % go towards zero. *)
(***************************************************************************)
EXTENDS Integers

ZoneQ  == 0 .. 104
Utc    == 48
NoZone == -1

Quotient(a, b)  == IF a >= 0 THEN a \div b ELSE -((-a) \div b)
Remainder(a, b) == a - b * Quotient(a, b)

\* Mutant: half a quarter is added on both sides of Greenwich.
BiasedUp(seconds) == Quotient(seconds + 450, 900) + Utc

Biased(seconds) ==
  Quotient(IF seconds >= 0 THEN seconds + 450 ELSE seconds - 450, 900) + Utc

\* secondsToBiased(): the nearest quarter hour, if the byte has it.
SecondsToBiased(seconds) == IF Biased(seconds) \in ZoneQ THEN Biased(seconds) ELSE NoZone

\* The two answers parseOffsetJson() takes: "offset" in seconds, and
\* "utc_offset" as a sign, hours and minutes.  An answer has either, or neither.
OffsetOf(answer) ==
  IF "offset" \in DOMAIN answer THEN SecondsToBiased(answer.offset)
  ELSE IF "hours" \in DOMAIN answer
       THEN SecondsToBiased(answer.sign * (answer.hours * 3600 + answer.mins * 60))
  ELSE NoZone

\* getLocalTime(), in minutes of the day; a corrupt zone is the easternmost.
LocalMinutes(utc, zone) ==
  LET quarters == (IF zone > 104 THEN 104 ELSE zone) - Utc
      total    == utc + quarters * 15
  IN Remainder(Remainder(total, 1440) + 1440, 1440)
-----------------------------------------------------------------------------
\* External: the services.
Distance(a, b) == IF a >= b THEN a - b ELSE b - a

\* "+hh:mm" of whole minutes.
Written(seconds) ==
  LET size == Distance(seconds, 0) IN
  [sign |-> IF seconds < 0 THEN -1 ELSE 1,
   hours |-> size \div 3600, mins |-> (size % 3600) \div 60]

\* The two forms in which a service may report an offset.
Answers(seconds) == {[offset |-> seconds], Written(seconds)}
=============================================================================
