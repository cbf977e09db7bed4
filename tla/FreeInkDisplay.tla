--------------------------- MODULE FreeInkDisplay ---------------------------
(***************************************************************************)
(* The facade src/lib/EInkDisplay/src/FreeInkDisplay.cpp over the driver   *)
(* of the board, with the one frame buffer of the firmware's builds and    *)
(* the blocking calls the firmware makes: night mode turns the frame on    *)
(* its way to the panel and leaves the gray planes out.                    *)
(*                                                                         *)
(* A display d is the board, the driver's state, and the facade's two      *)
(* flags; bit is the frame buffer at the pixel.  A board is one with the   *)
(* panel of its first batches: the X4 with an SSD1677, the X3 with a       *)
(* UC8253.  The drivers of later batches (UC8179, UC8279) are left out.    *)
(***************************************************************************)
EXTENDS EInk

X4 == INSTANCE Ssd1677
X3 == INSTANCE Uc8253

Boards   == {"X3", "X4"}
Displays == [board : Boards, epd : Epd, inverted : BOOLEAN, inversionDirty : BOOLEAN]

\* The frame as it goes to the panel.
Sent(d, bit) == IF d.inverted THEN Opposite(bit) ELSE bit

\* setInverted()
SetInverted(d, inverted) ==
  IF d.inverted = inverted THEN d
  ELSE [d EXCEPT !.inverted = inverted, !.inversionDirty = TRUE, !.epd = [@ EXCEPT !.dark = inverted]]

\* displayBuffer(): the first frame after a change of polarity is never fast.
EffectiveMode(d, mode) == IF d.inversionDirty /\ mode = "Fast" THEN "Half" ELSE mode

DisplayBuffer(d, bit, mode) ==
  LET m == EffectiveMode(d, mode)
  IN  [d EXCEPT !.inversionDirty = FALSE,
                !.epd = IF d.board = "X4" THEN X4!Display(@, Sent(d, bit), m)
                        ELSE X3!Display(@, Sent(d, bit), m)]

DisplayGrayscaleBase(d, bit, fallback) ==
  IF d.inverted \/ d.inversionDirty THEN DisplayBuffer(d, bit, fallback)
  ELSE [d EXCEPT !.epd = IF d.board = "X4" THEN X4!GrayscaleBase(@, bit, fallback)
                         ELSE X3!GrayscaleBase(@, bit, fallback)]

PreconditionGrayscale(d) ==
  IF d.inverted THEN d
  ELSE [d EXCEPT !.epd = IF d.board = "X4" THEN X4!PreconditionGrayscale(@)
                         ELSE X3!PreconditionGrayscale(@)]

\* copyGrayscaleLsbBuffers(), copyGrayscaleMsbBuffers(), displayGrayBuffer()
DisplayGray(d, tone) ==
  IF d.inverted THEN d
  ELSE [d EXCEPT !.epd =
          IF d.board = "X4"
          THEN X4!DisplayGray(X4!CopyGrayscaleMsb(X4!CopyGrayscaleLsb(@, LsbBit(tone)), MsbBit(tone)))
          ELSE X3!DisplayGray(X3!CopyGrayscaleMsb(X3!CopyGrayscaleLsb(@, LsbBit(tone)), MsbBit(tone)))]

CleanupGrayscaleBuffers(d, bit) ==
  IF d.inverted THEN d
  ELSE [d EXCEPT !.epd = IF d.board = "X4" THEN X4!CleanupGrayscaleBuffers(@, bit)
                         ELSE X3!CleanupGrayscaleBuffers(@, bit)]

\* HalDisplay::begin(); some wakeups ask for a resync.
Begun(board, glass, resync) ==
  LET e == Started(glass)
  IN  [board |-> board, inverted |-> FALSE, inversionDirty |-> FALSE,
       epd |-> IF ~resync THEN e ELSE IF board = "X4" THEN X4!RequestResync(e) ELSE X3!RequestResync(e)]
=============================================================================
