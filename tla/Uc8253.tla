------------------------------- MODULE Uc8253 -------------------------------
(***************************************************************************)
(* The driver of the X3's panel, src/lib/EInkDisplay/src/driver/           *)
(* Uc8253X3Driver.cpp.  The panel is off only until the first refresh,     *)
(* which is a full one anyway.  The conditioning and settling passes after *)
(* a full refresh drive to the frame it has just shown.                    *)
(***************************************************************************)
EXTENDS EInk

\* grayscaleRevert(): both planes white, and everything driven there.
GrayscaleRevert(e) ==
  IF ~e.gray THEN e
  ELSE [e EXCEPT !.glass = White, !.old = 1, !.new = 1, !.gray = FALSE,
                 !.lsbValid = FALSE, !.synced = TRUE, !.scrubbed = TRUE]

\* What makes a refresh full, and a base clean.
Unsure(e) == ~e.synced \/ e.first \/ e.force

\* displayStart() and displayFinish().  A full refresh starts from white, a
\* half one ignores the old plane; then the old plane takes the frame.
Display(e, bit, mode) ==
  LET r    == GrayscaleRevert(e)
      fast == mode = "Fast" /\ ~Unsure(r)
      old  == IF e.dark THEN Opposite(bit) ELSE r.old
  IN  [r EXCEPT !.glass = IF fast THEN Driven(r.glass, old, bit) ELSE ToneOf(bit),
                !.old = bit, !.new = bit, !.lsbValid = FALSE, !.synced = TRUE,
                !.first = FALSE, !.force = FALSE,
                !.scrubbed = ~fast \/ e.gray]

\* displayGrayscaleBase(): the difference to the old plane, or the ordinary
\* refresh and a pass over pixels that are already there.
GrayscaleBase(e, bit, fallback) ==
  LET r == GrayscaleRevert(e)
  IN  IF Unsure(r) \/ r.lsbValid THEN Display(r, bit, fallback)
      ELSE [r EXCEPT !.glass = Driven(r.glass, r.old, bit), !.old = bit, !.new = bit,
                     !.synced = TRUE, !.scrubbed = e.gray]

\* preconditionGrayscale(), left out where a plane may be a gray one.
PreconditionGrayscale(e) ==
  IF e.gray \/ ~e.synced \/ e.lsbValid THEN e ELSE [e EXCEPT !.glass = Driven(@, e.old, e.new)]

RequestResync(e) == [e EXCEPT !.force = TRUE]

CopyGrayscaleLsb(e, lsb) == [e EXCEPT !.old = lsb, !.lsbValid = TRUE]
CopyGrayscaleMsb(e, msb) == IF e.lsbValid THEN [e EXCEPT !.new = msb] ELSE e

\* displayGray(), without a plane nothing.
DisplayGray(e) ==
  IF ~e.lsbValid THEN e
  ELSE [e EXCEPT !.glass = Nudged(@, e.old, e.new), !.gray = TRUE, !.synced = FALSE,
                 !.force = FALSE, !.lsbValid = FALSE]

\* Mutant: the planes are rebased and the panel still taken for a gray one.
CleanupKeepsGray(e, bit) ==
  [e EXCEPT !.old = bit, !.new = bit, !.lsbValid = FALSE, !.synced = TRUE, !.force = FALSE]

CleanupGrayscaleBuffers(e, bit) ==
  [e EXCEPT !.old = bit, !.new = bit, !.lsbValid = FALSE, !.synced = TRUE, !.force = FALSE,
            !.gray = FALSE]
=============================================================================
