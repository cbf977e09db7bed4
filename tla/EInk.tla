-------------------------------- MODULE EInk --------------------------------
(***************************************************************************)
(* One pixel of the panel and what the controllers' waveforms do to it.    *)
(* All operations of the display library act on every pixel alike, so one  *)
(* pixel with arbitrary contents stands for each of them.  A framebuffer   *)
(* or RAM bit is 1 for white, as in the code; a pixel of a page, and the   *)
(* ink on the glass, has one of four tones.                                *)
(***************************************************************************)
EXTENDS Integers

Tones == 0 .. 3
White == 0
Black == 3
Bits  == {0, 1}
Modes == {"Full", "Half", "Fast"}

ToneOf(bit)   == IF bit = 1 THEN White ELSE Black
Opposite(bit) == 1 - bit

\* drawPage()'s paint(): the ink of a page, and its two gray planes.
InkBit(tone) == IF tone = White THEN 1 ELSE 0
LsbBit(tone) == IF tone = 1 THEN 1 ELSE 0
MsbBit(tone) == IF tone \in {1, 2} THEN 1 ELSE 0

\* A differential waveform idles where the old plane equals the new one.
Driven(glass, old, new) == IF old = new THEN glass ELSE ToneOf(new)

\* The gray waveform moves what is in a plane, and nothing else.
Nudged(glass, lsb, msb) == IF lsb = 0 /\ msb = 0 THEN glass ELSE IF lsb = 1 THEN 1 ELSE 2

\* The state of a driver and its controller.  old and new are the two planes of
\* the RAM: RED and BW of the SSD1677, DTM1 and DTM2 of the UC8253.
Epd ==
  [glass : Tones, old : Bits, new : Bits,
   gray : BOOLEAN,      \* _inGrayscaleMode
   first : BOOLEAN,     \* _needsInitialFull, or _initialFullSyncsRemaining = 1
   dark : BOOLEAN,      \* _darkBackground
   synced : BOOLEAN,    \* _redRamSynced, of the UC8253
   force : BOOLEAN,     \* _forceFullSyncNext, of the UC8253
   lsbValid : BOOLEAN,  \* _grayState.lsbValid, of the UC8253
   scrubbed : BOOLEAN]  \* history: the last refresh drove every pixel

\* After reset(), initController() fills both planes with white.
Started(glass) ==
  [glass |-> glass, old |-> 1, new |-> 1, gray |-> FALSE, first |-> TRUE, dark |-> FALSE,
   synced |-> FALSE, force |-> FALSE, lsbValid |-> FALSE, scrubbed |-> FALSE]
=============================================================================
