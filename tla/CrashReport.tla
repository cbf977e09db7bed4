---------------------------- MODULE CrashReport -----------------------------
(***************************************************************************)
(* What a crash leaves for the next boot: the panic message, the stack and *)
(* the ring of the last log lines, in RTC memory that survives a reset and *)
(* holds garbage after a power-on, and crash_report.txt, which setup()     *)
(* writes from them.                                                       *)
(*                                                                         *)
(* pc is how far the firmware has got: "early" until HalSystem::begin(),   *)
(* "booting" until checkPanic(), "wrote" when that has closed the report   *)
(* and not yet cleared the marker, "up", or "message" when the card did    *)
(* not mount and checkPanic() is not reached.  A crash may come at any of  *)
(* them.  Crashes are numbered; a panic's message and stack dump are its   *)
(* number.  That garbage should spell the capture marker or the log magic  *)
(* by chance is left out; that a garbage logHead is in range is not.       *)
(***************************************************************************)
EXTENDS Integers, Sequences

CONSTANTS
  LogLines,    \* MAX_LOG_LINES
  Lines,       \* what may be logged
  MaxCrashes,  \* bound on the crashes of one behaviour
  Trouble      \* what may go wrong

Blank   == "blank"     \* an entry, or a stack frame, that was cleared
Garbage == "garbage"
Wild    == -1          \* a logHead that is out of range
Index   == 0 .. LogLines - 1
Causes  == {"power", "soft", "panic", "lockup", "watchdog"}
Number  == 1 .. MaxCrashes
Blanks  == 0           \* the number of no crash: nothing retained,
Unknown == -1          \* and of garbage
NoReport == [message |-> Blanks, stack |-> Blanks, log |-> <<>>]

ASSUME LogAssumption == LogLines \in Nat \ {0} /\ Lines \cap {Blank, Garbage} = {}
ASSUME BoundAssumption == MaxCrashes \in Nat
ASSUME TroubleAssumption == Trouble \subseteq {"card"}

VARIABLES
  logMessages, logHead, logMagic,   \* the ring, and whether rtcLogMagic is right
  message, stack, marker,           \* panicMessage, panicStack, panicCaptureMarker
  cause,                            \* esp_reset_reason()
  pc, report,
  \* History: the crashes so far; the last one captured whose report is due; the
  \* last reported; the one whose report the card lost on closing it; the one a
  \* reset kept from being marked as told; and the lines since the ring was cleared.
  crashes, owed, told, dropped, unmarked, said

ring    == <<logMessages, logHead, logMagic>>
panic   == <<message, stack, marker>>
history == <<crashes, owed, told, dropped, unmarked, said>>
vars    == <<ring, panic, cause, pc, report, history>>

TypeOK ==
  /\ logMessages \in [Index -> Lines \union {Blank, Garbage}]
  /\ logHead \in Index \union {Wild} /\ logMagic \in BOOLEAN
  /\ message \in Number \union {Blanks, Unknown}
  /\ stack \in Number \union {Blanks, Unknown} /\ marker \in BOOLEAN
  /\ cause \in Causes
  /\ pc \in {"early", "booting", "wrote", "up", "message"}
  /\ report.message \in Number \union {Blanks, Unknown}
  /\ report.stack \in Number \union {Blanks, Unknown}
  /\ crashes \in 0 .. MaxCrashes
  /\ owed \in 0 .. MaxCrashes /\ told \in 0 .. MaxCrashes /\ dropped \in 0 .. MaxCrashes
  /\ unmarked \in Number \union {Blanks, Unknown}
  /\ said \in Seq(Lines) /\ Len(said) <= LogLines
-----------------------------------------------------------------------------
Cleared == [i \in Index |-> Blank]

\* clearLastLogs().
ClearLog == logMessages' = Cleared /\ logHead' = 0 /\ logMagic' = TRUE /\ said' = <<>>

\* What sanitizeLogHead() and addToLogRingBuffer() ask of the ring.
LogIsSane == logMagic /\ logHead # Wild

\* History: the last lines a ring of this size can hold.
Last(s) == SubSeq(s, IF Len(s) > LogLines THEN 2 ELSE 1, Len(s))

NextSlot(i) == (i + 1) % LogLines

\* addToLogRingBuffer(): over the oldest entry when the ring is full.
Add(line) ==
  LET slot == IF LogIsSane THEN logHead ELSE 0 IN
  /\ logMessages' = [(IF LogIsSane THEN logMessages ELSE Cleared) EXCEPT ![slot] = line]
  /\ logHead' = NextSlot(slot) /\ logMagic' = TRUE
  /\ said' = Last(Append(said, line))

\* Mutant: the entries as they lie.
LogFromSlot(i) == logMessages[i - 1]

\* The i-th entry of getLastLogs(), from the oldest.
LogEntry(i) == logMessages[(logHead + i - 1) % LogLines]

\* The loop of getLastLogs(): entries that are blank are passed over.
Output[i \in 0 .. LogLines] ==
  IF i = 0 THEN <<>>
  ELSE IF LogEntry(i) = Blank THEN Output[i - 1] ELSE Append(Output[i - 1], LogEntry(i))

GetLastLogs == IF logMagic THEN Output[LogLines] ELSE <<>>

\* Mutant: every watchdog reset is a panic's.
RebootFromWatchdog == cause \in {"panic", "lockup", "watchdog"}

\* isRebootFromPanic().
RebootFromPanic ==
  cause \in {"panic", "lockup"} \/ (cause = "watchdog" /\ marker)

\* clearPanic(), but for the log.
ClearCapture == marker' = FALSE /\ message' = Blanks /\ stack' = Blanks

\* HalSystem::begin().
Begin ==
  /\ pc = "early" /\ pc' = "booting"
  /\ IF RebootFromPanic
     THEN /\ IF LogIsSane THEN UNCHANGED <<ring, said>> ELSE ClearLog
          /\ UNCHANGED panic
     ELSE ClearCapture /\ ClearLog
  /\ owed' = IF cause \in {"power", "soft"} THEN 0 ELSE owed
  /\ UNCHANGED <<cause, report, crashes, told, dropped, unmarked>>

\* LOG_*: the boot logs too, before and after the report.
Log(line) ==
  /\ pc \notin {"early", "wrote"}
  /\ Add(line)
  /\ UNCHANGED <<panic, cause, pc, report, crashes, owed, told, dropped, unmarked>>

\* Storage.begin() fails: setup() shows a message and returns.
NoCard ==
  /\ pc = "booting" /\ "card" \in Trouble
  /\ pc' = "message"
  /\ UNCHANGED <<ring, panic, cause, report, history>>

\* Mutant: the marker goes whether the report was written or not.
ConsumedAnyway(written) == TRUE

\* The marker goes once write() has taken the whole report.
Consumed(written) == written

\* checkPanic() up to the close of crash_report.txt, which was truncated first.
\* close() may fail after a whole write: its result is not looked at.
CheckPanic ==
  /\ pc = "booting"
  /\ \/ ~RebootFromPanic /\ pc' = "up" /\ UNCHANGED <<report, owed, told, dropped>>
     \/ /\ RebootFromPanic
        /\ \E written, closed \in BOOLEAN :
             /\ ~(written /\ closed) => "card" \in Trouble
             /\ pc' = IF Consumed(written) THEN "wrote" ELSE "up"
             /\ IF written /\ closed
                THEN /\ report' = [message |-> message, stack |-> stack, log |-> GetLastLogs]
                     /\ owed' = 0 /\ told' = (IF stack > told THEN stack ELSE told)
                     /\ UNCHANGED dropped
                ELSE /\ dropped' = IF written THEN owed ELSE dropped
                     /\ UNCHANGED <<report, owed, told>>
  /\ UNCHANGED <<ring, panic, cause, crashes, unmarked, said>>

\* "Mark consumed", in a step of its own: a reset may come before it.
Consume ==
  /\ pc = "wrote" /\ pc' = "up"
  /\ marker' = FALSE /\ unmarked' = Blanks
  /\ UNCHANGED <<ring, message, stack, cause, report, crashes, owed, told, dropped, said>>
-----------------------------------------------------------------------------
\* The chip restarts; nothing that is not in RTC memory is left.
Reset(why) == cause' = why /\ pc' = "early" /\ report' = NoReport

\* __wrap_panic_abort() and __wrap_panic_print_backtrace(): abort() gives a
\* message and a stack, an exception or a watchdog's panic only the stack.
Capture(n, withMessage) ==
  /\ message' = IF withMessage THEN n ELSE message
  /\ stack' = n /\ marker' = TRUE
  /\ crashes' = n /\ owed' = n /\ unmarked' = Blanks

Panic ==
  /\ crashes < MaxCrashes
  /\ \/ \E withMessage \in BOOLEAN : Capture(crashes + 1, withMessage) /\ Reset("panic")
     \/ Capture(crashes + 1, FALSE) /\ Reset("watchdog")
  /\ UNCHANGED <<ring, told, dropped, said>>

\* A reset that captures nothing: a hardware watchdog, a CPU lockup, esp_restart()
\* or the wake from deep sleep.
Restart ==
  /\ \E why \in {"watchdog", "lockup", "soft"} : Reset(why)
  /\ unmarked' = IF pc = "wrote" THEN stack ELSE unmarked
  /\ UNCHANGED <<ring, panic, crashes, owed, told, dropped, said>>

\* RTC memory was without power.
PowerOn ==
  /\ Reset("power")
  /\ logMessages' = [i \in Index |-> Garbage] /\ logHead' \in Index \union {Wild} /\ logMagic' = FALSE
  /\ message' = Unknown /\ stack' = Unknown /\ marker' = FALSE
  /\ owed' = 0 /\ said' = <<>>
  /\ UNCHANGED <<crashes, told, dropped, unmarked>>
-----------------------------------------------------------------------------
Init ==
  /\ logMessages = [i \in Index |-> Garbage] /\ logHead \in Index \union {Wild} /\ logMagic = FALSE
  /\ message = Unknown /\ stack = Unknown /\ marker = FALSE
  /\ cause = "power" /\ pc = "early" /\ report = NoReport
  /\ crashes = 0 /\ owed = 0 /\ told = 0 /\ said = <<>>
  /\ dropped = 0 /\ unmarked = Blanks

Next ==
  \/ Begin \/ NoCard \/ CheckPanic \/ Consume
  \/ \E line \in Lines : Log(line)
  \/ Panic \/ Restart \/ PowerOn

Spec == Init /\ [][Next]_vars
-----------------------------------------------------------------------------
Reports == report' # report /\ report' # NoReport

\* The log of a report is the last lines before it, oldest first and each once:
\* those of the session that crashed, then those of this boot, and never what
\* RTC memory held before the ring was set up.
LogIsTheLastLines == [][Reports => report'.log = said]_vars

\* A captured crash stays in RTC memory, over failed boots and watchdog resets,
\* until its report is on the card, a later crash takes its place or an ordinary
\* boot clears it ("preserve diagnostics until checkPanic() has tried").  It is
\* lost only where the card took the whole report and failed on closing it.
OwedIsKept == owed \notin {0, dropped} => marker /\ stack = owed

\* A crash that was reported is not reported again ("mark consumed so a later
\* watchdog reset is not treated as this panic"), unless a reset came between the
\* report and the mark.  A CPU lockup is left out: it captures nothing, and its
\* report shows what was there before.
ToldOnce ==
  [][Reports /\ cause # "lockup" => report'.stack > told \/ report'.stack = unmarked]_vars
=============================================================================
