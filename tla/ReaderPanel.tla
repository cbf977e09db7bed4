----------------------------- MODULE ReaderPanel -----------------------------
(***************************************************************************)
(* Reader with the panel it draws on: each of its actions that refreshes,  *)
(* or resyncs the controller, together with the calls of the display       *)
(* library the code makes there, at one pixel with arbitrary contents.     *)
(* What Reader says of panel and bank is carried out here by the driver of *)
(* either board.  Added are the steps that change nothing for Reader: the  *)
(* other screens painting again, night mode, and the last image before     *)
(* deep sleep.                                                             *)
(***************************************************************************)
EXTENDS Reader, FreeInkDisplay

VARIABLES
  disp,      \* the display library and the panel
  bit,       \* the frame buffer at the pixel
  asleep,    \* the last image is painted; only a wakeup follows
  asked,     \* history: the tone last asked for, or Unpainted since the start
  flashed    \* history: a page or marker asked to be fast drove every pixel

Unpainted == -1

panelVars == <<disp, bit, asleep, asked, flashed>>

PanelTypeOK ==
  /\ disp \in Displays /\ bit \in Bits /\ asleep \in BOOLEAN
  /\ asked \in Tones \union {Unpainted} /\ flashed \in BOOLEAN
-----------------------------------------------------------------------------
\* present() of a frame.
Shows(d, b, mode) ==
  LET after == DisplayBuffer(d, b, mode)
  IN  disp' = after /\ bit' = b /\ asked' = ToneOf(Sent(d, b))

\* paintReaderCornerDots(): the resync first, then fast; the pixel may be in a dot.
MarkerFrom(d, b, dotted) == DisplayBuffer(CleanupGrayscaleBuffers(d, b), dotted, "Fast")
Marks ==
  \E dotted \in {bit, 0} :
    LET after == MarkerFrom(disp, bit, dotted)
    IN  /\ disp' = after /\ bit' = dotted
        /\ asked' = IF dotted = bit THEN asked ELSE ToneOf(Sent(disp, dotted))
        /\ flashed' = (flashed \/ (asked # Unpainted /\ after.epd.scrubbed))

\* flushPendingCleanup()
Flushed == IF pending THEN CleanupGrayscaleBuffers(disp, bit) ELSE disp
PanelFlush == disp' = Flushed /\ UNCHANGED <<bit, asleep, asked, flashed>>

\* drawPage()'s base of a page, clean or fast, then the gray planes.
PageBase(d, b) ==
  IF until <= 1 THEN PreconditionGrayscale(DisplayBuffer(d, b, "Half"))
  ELSE DisplayGrayscaleBase(d, b, "Fast")

\* The page with or without the marker of the gyro lock on it.
DrawsPage(tone) ==
  LET b     == InkBit(tone)
      based == PageBase(Flushed, b)
      page1 == DisplayGray(based, tone)
      shown == IF disp.inverted THEN ToneOf(Sent(disp, b)) ELSE tone
      flash == until > 1 /\ asked # Unpainted /\ based.epd.scrubbed
  IN  IF ~fb'.dots
      THEN /\ disp' = page1 /\ bit' = b /\ asked' = shown
           /\ flashed' = (flashed \/ flash)
      ELSE \E dotted \in {b, 0} :
             /\ disp' = MarkerFrom(page1, b, dotted) /\ bit' = dotted
             /\ asked' = IF dotted = b THEN shown ELSE ToneOf(Sent(disp, dotted))
             /\ flashed' = (flashed \/ flash \/ disp'.epd.scrubbed)

PanelDrawPage ==
  /\ DrawPage
  /\ IF pending' /\ panel'.what \in Pages
     THEN \E tone \in Tones : DrawsPage(tone)
     ELSE (\E b \in Bits : Shows(disp, b, "Half")) /\ UNCHANGED flashed
  /\ UNCHANGED asleep

\* The first frame of a screen, and the message of the reader, are clean.
PanelDrawOther ==
  /\ DrawOther
  /\ \E b \in Bits : Shows(disp, b, "Half")
  /\ UNCHANGED <<asleep, flashed>>

\* The same screen again, another one, or the progress of an update.
OtherPaints ==
  /\ screen # "reader" /\ stage = "top" /\ panel = Plain(Menu)
  /\ \E b \in Bits, mode \in {"Half", "Fast"} : Shows(disp, b, mode)
  /\ UNCHANGED <<vars, asleep, flashed>>

\* SettingsScreen switches night mode and asks for a repaint of itself.
NightMode ==
  /\ screen = "other" /\ stage = "top" /\ panel = Plain(Menu) /\ asked # Unpainted
  /\ \E b \in Bits : Shows(SetInverted(disp, ~disp.inverted), b, "Fast")
  /\ UNCHANGED <<vars, asleep, flashed>>

\* enterDeepSleep() leaves a page with its marker on it, as PanelLock does, and
\* any other screen white in either polarity.
SleepsWhite ==
  /\ screen # "reader" /\ stage = "top" /\ panel = Plain(Menu)
  /\ Shows(SetInverted(disp, FALSE), 1, "Full") /\ asleep' = TRUE
  /\ UNCHANGED <<vars, flashed>>

PanelLock ==
  /\ LockChanges
  /\ \/ PaintsMarker(fb) /\ UNCHANGED dirty /\ Marks
     \/ UNCHANGED display /\ dirty' /\ UNCHANGED <<disp, bit, asked, flashed>>
  /\ UNCHANGED asleep

\* A start: RAM and frame buffer are new, and the glass is as it was left.
PanelStarts ==
  /\ \E resync, night \in BOOLEAN :
       disp' = SetInverted(Begun(disp.board, disp.epd.glass, resync), night)
  /\ bit' = 1 /\ asleep' = FALSE /\ asked' = Unpainted /\ flashed' = FALSE

\* The first start, with a panel in any state.
PanelInit ==
  /\ Init
  /\ \E board \in Boards, glass \in Tones, resync, night \in BOOLEAN :
       disp = SetInverted(Begun(board, glass, resync), night)
  /\ bit = 1 /\ asleep = FALSE /\ asked = Unpainted /\ flashed = FALSE

\* The reader's ticks, and what draws nothing.
Ticks == (\E delta \in -MaxDelta .. MaxDelta : Turn(delta)) \/ Leave \/ OpenChapters
Quiet == Enter \/ LeaveUnopened \/ LeaveChild \/ NothingToDraw

Awake ==
  \/ Ticks /\ PanelFlush
  \/ Quiet /\ UNCHANGED panelVars
  \/ PanelLock \/ PanelDrawPage \/ PanelDrawOther
  \/ OtherPaints \/ NightMode \/ SleepsWhite

PanelNext == (~asleep /\ Awake) \/ (PowerLost /\ PanelStarts)

PanelSpec == PanelInit /\ [][PanelNext]_<<vars, panelVars>>
-----------------------------------------------------------------------------
\* What was asked for is on the glass.  Whichever differential, half or full
\* refreshes lie behind it, with or without gray planes, in either polarity and
\* from a sleep screen on: a pixel is white exactly where white was asked for;
\* after a clean refresh it has its exact tone.  And nothing that was to be
\* fast flashes: the resync keeps the drivers from having to start over.
GlassShowsImage ==
  asked # Unpainted =>
    /\ disp.epd.glass = White <=> asked = White
    /\ fast = 0 /\ ~panel.dots => disp.epd.glass = asked
    /\ ~flashed
=============================================================================
