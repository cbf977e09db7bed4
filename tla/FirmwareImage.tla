--------------------------- MODULE FirmwareImage ----------------------------
(***************************************************************************)
(* Which files sdUpdate::inspect() lets through to flash(): the header,    *)
(* the segments one after the other, the padding that ends in a checksum   *)
(* byte, and the hash an image may end with.                               *)
(*                                                                         *)
(* A file is its size and what is read from it.  Offsets are size_t: they  *)
(* wrap at Word (2^32).  Reading past the end fails.  Errors of the card   *)
(* reject any file and are left out, and the upper limit of the size is    *)
(* the partition's, in SdUpdate.                                           *)
(***************************************************************************)
EXTENDS Integers, Sequences

CONSTANTS
  Word,        \* offsets are smaller than this
  MinBytes,    \* kMinBytes
  Chip,        \* the chip of the device
  DeviceChip,  \* runningChipId(): the chip, or
  UnknownChip  \* 0xFFFF when the running partition could not be read

kHeader      == 24
kSegHeader   == 8
kShaTrailer  == 32
kMaxSegments == 16
NoEnd        == -1

ASSUME WordAssumption == Word \in Nat \ {0}
ASSUME ChipAssumption == DeviceChip \in {Chip, UnknownChip}

\* What a file may hold: any size, any segments, any flags.
Files ==
  [size : Nat, magic : BOOLEAN, chip : Nat, segments : Seq(Nat),
   hashAppended : BOOLEAN, checksumRight : BOOLEAN, hashRight : BOOLEAN]

ChipKnown == DeviceChip # UnknownChip

\* Mutant: the block that is padded may be empty.
PadEndAligned(pos) == ((pos + 15) \div 16) * 16

\* (pos + 16) & ~15.
PadEnd(pos) == ((pos + 16) \div 16) * 16

\* Where a segment ends that is read from pos, if the file lets it be read.
SegmentEnd(f, pos, dataLen) ==
  LET data == pos + kSegHeader IN
  IF /\ pos # NoEnd
     /\ data <= f.size
     /\ (data + dataLen) % Word <= f.size   \* the code's check, which wraps
     /\ data + dataLen <= f.size            \* feed() reads every byte
  THEN data + dataLen ELSE NoEnd

\* Where the segments end, the last of them included.
SegmentsEnd(f) ==
  LET end[i \in 0 .. Len(f.segments)] ==
        IF i = 0 THEN kHeader ELSE SegmentEnd(f, end[i - 1], f.segments[i])
  IN end[Len(f.segments)]

HeaderAccepted(f) ==
  /\ f.size >= MinBytes
  /\ f.magic
  /\ ChipKnown => f.chip = DeviceChip
  /\ Len(f.segments) \in 1 .. kMaxSegments

\* inspect().
Accepts(f) ==
  /\ HeaderAccepted(f)
  /\ SegmentsEnd(f) # NoEnd
  /\ f.size = PadEnd(SegmentsEnd(f)) + (IF f.hashAppended THEN kShaTrailer ELSE 0)
  /\ f.checksumRight
  /\ f.hashAppended => f.hashRight
-----------------------------------------------------------------------------
\* The bytes an image with these segments has: its parts end to end, filled up
\* to the next multiple of 16 with at least the checksum byte.
Body(segments) ==
  LET sum[i \in 0 .. Len(segments)] ==
        IF i = 0 THEN kHeader ELSE sum[i - 1] + kSegHeader + segments[i]
  IN sum[Len(segments)]

ImageBytes(segments, hashed) ==
  (CHOOSE n \in Body(segments) + 1 .. Body(segments) + 16 : n % 16 = 0)
  + (IF hashed THEN kShaTrailer ELSE 0)

\* External: what the bootloader verifies, of a file that is the image and no more.
WholeImage(f) ==
  /\ f.magic /\ Len(f.segments) \in 1 .. kMaxSegments
  /\ f.size = ImageBytes(f.segments, f.hashAppended)
  /\ f.checksumRight /\ (f.hashAppended => f.hashRight)

\* External: and the bootloader starts only what was built for the chip.
BootsHere(f) == WholeImage(f) /\ f.chip = Chip
=============================================================================
