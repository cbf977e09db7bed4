------------------------------- MODULE Ssd1677 -------------------------------
(***************************************************************************)
(* The driver of the X4's panel, src/lib/EInkDisplay/src/driver/           *)
(* Ssd1677Driver.cpp, as used with one frame buffer (prev = nullptr) and   *)
(* without turning the panel off.  The X4's update sequences power the     *)
(* panel themselves, so _isScreenOn decides nothing.                       *)
(***************************************************************************)
EXTENDS EInk

\* displayImpl(): the first paint, and one that finds gray planes in the RAM,
\* are made absolute.
Mode(e, mode) ==
  IF e.first THEN "Half" ELSE IF e.gray /\ mode = "Fast" THEN "Half" ELSE mode

Display(e, bit, mode) ==
  LET m   == Mode(e, mode)
      old == IF e.dark THEN Opposite(bit) ELSE e.old
  IN  [e EXCEPT !.glass = IF m # "Fast" THEN ToneOf(bit) ELSE Driven(e.glass, old, bit),
                !.old = bit, !.new = bit, !.gray = FALSE, !.first = FALSE,
                !.scrubbed = (m # "Fast")]

\* PanelDriver's defaults: no waveform of its own, nothing to settle.
GrayscaleBase(e, bit, fallback) == Display(e, bit, fallback)
PreconditionGrayscale(e)        == e
RequestResync(e)                == e

CopyGrayscaleLsb(e, lsb) == [e EXCEPT !.new = lsb]
CopyGrayscaleMsb(e, msb) == [e EXCEPT !.old = msb]

DisplayGray(e) == [e EXCEPT !.glass = Nudged(@, e.new, e.old), !.gray = TRUE]

CleanupGrayscaleBuffers(e, bit) == [e EXCEPT !.old = bit, !.gray = FALSE]
=============================================================================
