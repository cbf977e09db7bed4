------------------------------ MODULE SdUpdate ------------------------------
(***************************************************************************)
(* Flashing a firmware image from the SD card: flash() and switchBoot() of *)
(* src/src/core/SdUpdate.cpp, driven by UpdateScreen, with the power       *)
(* allowed to fail between any two flash operations and every operation    *)
(* allowed to fail half done.                                              *)
(*                                                                         *)
(* An app partition is a row of 4 KiB chunks; a chunk holds a piece of one *)
(* image version, is erased, or is bad.  NOR flash takes a write only on   *)
(* an erased chunk.  The unit of erasing is BlkChunks (kBlk / kChunk).  An *)
(* otadata sector is its sequence number while that number counts (not     *)
(* blank, CRC right, not marked invalid or aborted), and NotGood otherwise. *)
(*                                                                         *)
(* What is on the card are files, images or not, each with a number;       *)
(* inspect() (FirmwareImage) decides which of them is flashed, so that     *)
(* what boots afterwards rests on its checks.                              *)
(*                                                                         *)
(* The second-stage bootloader is not in the repository: BootSlot is what  *)
(* switchBoot() relies on.                                                 *)
(***************************************************************************)
EXTENDS FirmwareImage

CONSTANTS
  PartChunks,   \* size of an app partition
  BlkChunks,    \* chunks erased at a time
  ChunkBytes,   \* kChunk
  Versions,     \* the files that are on the card or were flashed, by number
  FileOf,       \* and what is in them
  MaxSeq        \* bound on otadata sequence numbers (32 bits in the code)

Slots  == {0, 1}            \* app0 and app1; also the two otadata sectors
Chunks == 0 .. PartChunks - 1
Erased == -1
Bad    == -2
NoSlot == -1
NotGood == -1    \* an otadata sector switchBoot() passes over
NoTarget == -1
NoEntry == [slot |-> 0, seq |-> 0]

ASSUME SizesAssumption ==
  /\ PartChunks \in Nat \ {0} /\ BlkChunks \in Nat \ {0} /\ ChunkBytes \in Nat \ {0}
  /\ MaxSeq \in Nat
ASSUME VersionsAssumption == Versions \subseteq Nat /\ FileOf \in [Versions -> Files]

\* The chunks a file takes, and the files that are images for this device.
ImageLen == [v \in Versions |-> (FileOf[v].size + ChunkBytes - 1) \div ChunkBytes]
Images   == {v \in Versions : BootsHere(FileOf[v])}

VARIABLES
  cells,     \* the two app partitions
  otadata,   \* the two otadata sectors
  running,   \* the partition this run was booted from
  pc,        \* "idle", or where flash() is
  target,    \* the version being flashed
  pos, erased,
  entry      \* switchBoot()'s locals: the sector and sequence number to write

vars == <<cells, otadata, running, pc, target, pos, erased, entry>>

Cell  == Versions \union {Erased, Bad}
Sector == 0 .. MaxSeq \union {NotGood}

TypeOK ==
  /\ cells \in [Slots -> [Chunks -> Cell]]
  /\ otadata \in [Slots -> Sector]
  /\ running \in Slots
  /\ pc \in {"idle", "flash", "switch", "entry", "done"}
  /\ target \in Versions \union {NoTarget}
  /\ pos \in 0..PartChunks /\ erased \in 0..PartChunks
  /\ entry \in [slot : Slots, seq : 0..MaxSeq]
-----------------------------------------------------------------------------
\* A partition the bootloader accepts: every chunk of one image is in place.
Holds(p, v) == ImageLen[v] <= PartChunks /\ \A c \in 0 .. ImageLen[v] - 1 : cells[p][c] = v
Complete(p) == \E v \in Images : Holds(p, v)

\* The sector with the greatest good sequence number, the first on a tie.
ActiveSector ==
  IF otadata[0] # NotGood /\ otadata[0] >= otadata[1] THEN 0
  ELSE IF otadata[1] # NotGood THEN 1 ELSE NoSlot
ActiveSeq == IF ActiveSector = NoSlot THEN 0 ELSE otadata[ActiveSector]

\* The partition a sequence number names, and the number of a partition.
SlotOf(seq) == (seq + 1) % 2

\* External: the bootloader takes the active partition, app0 without one, and
\* falls back to the other when the image there does not verify.
BootSlot ==
  LET first == IF ActiveSector = NoSlot THEN 0 ELSE SlotOf(ActiveSeq) IN
  IF Complete(first) THEN first
  ELSE IF Complete(1 - first) THEN 1 - first
  ELSE NoSlot

\* Mutant: the destination is the running partition.
DestRunning == running

\* esp_ota_get_next_update_partition(nullptr).
Dest == 1 - running
-----------------------------------------------------------------------------
\* flash() is over, or never started: its locals are gone.
Idle == pc' = "idle" /\ target' = NoTarget /\ pos' = 0 /\ erased' = 0 /\ entry' = NoEntry
Fails == Idle /\ UNCHANGED running

\* inspect() accepts the file; a rejected file changes nothing.
Start(v) ==
  /\ pc = "idle"
  /\ ImageLen[v] <= PartChunks /\ Accepts(FileOf[v])
  /\ pc' = "flash"
  /\ target' = v
  /\ pos' = 0 /\ erased' = 0
  /\ UNCHANGED <<cells, otadata, running, entry>>

\* The erase length at pos: one block, less at the end of the partition.
EraseLen == IF PartChunks - pos > BlkChunks THEN BlkChunks ELSE PartChunks - pos

EraseBlock ==
  /\ pc = "flash" /\ pos < ImageLen[target] /\ pos >= erased
  /\ cells' = [cells EXCEPT ![Dest] =
       [c \in Chunks |-> IF pos <= c /\ c < pos + EraseLen THEN Erased ELSE @[c]]]
  /\ erased' = pos + EraseLen
  /\ UNCHANGED <<otadata, running, pc, target, pos, entry>>

WriteChunk ==
  /\ pc = "flash" /\ pos < ImageLen[target] /\ pos < erased
  /\ cells' = [cells EXCEPT ![Dest][pos] = IF @ = Erased THEN target ELSE Bad]
  /\ pos' = pos + 1
  /\ UNCHANGED <<otadata, running, pc, target, erased, entry>>

\* An erase or a write that fails, or is cut off by the power, leaves anything
\* in the chunks it was given; a short read leaves them alone.
FlashFails ==
  /\ pc = "flash" /\ pos < ImageLen[target]
  /\ \E junk \in SUBSET {c \in Chunks : pos <= c /\ c < pos + EraseLen} :
       cells' = [cells EXCEPT ![Dest] = [c \in Chunks |-> IF c \in junk THEN Bad ELSE @[c]]]
  /\ UNCHANGED otadata
  /\ Fails

ImageWritten ==
  /\ pc = "flash" /\ pos >= ImageLen[target]
  /\ pc' = "switch"
  /\ UNCHANGED <<cells, otadata, running, target, pos, erased, entry>>

\* Mutants: the next number whatever it names; the sector that is active.
NextSeqPlain    == ActiveSeq + 1
OverwriteActive == IF ActiveSector = NoSlot THEN 0 ELSE ActiveSector

\* switchBoot(): the next number that names Dest goes to the sector that is not active.
NextSeq == IF SlotOf(ActiveSeq + 1) = Dest THEN ActiveSeq + 1 ELSE ActiveSeq + 2
TargetSector == IF ActiveSector = 0 THEN 1 ELSE 0

EraseSector ==
  /\ pc = "switch" /\ NextSeq <= MaxSeq
  /\ entry' = [slot |-> TargetSector, seq |-> NextSeq]
  /\ otadata' = [otadata EXCEPT ![TargetSector] = NotGood]
  /\ pc' = "entry"
  /\ UNCHANGED <<cells, running, target, pos, erased>>

WriteSector ==
  /\ pc = "entry"
  /\ otadata' = [otadata EXCEPT ![entry.slot] = entry.seq]
  /\ pc' = "done"
  /\ UNCHANGED <<cells, running, target, pos, erased, entry>>

\* A failed or torn sector operation leaves a sector whose CRC is wrong, or the old one.
SwitchFails ==
  /\ \/ pc = "switch" /\ otadata' \in {otadata, [otadata EXCEPT ![TargetSector] = NotGood]}
     \/ pc = "entry" /\ UNCHANGED otadata
  /\ UNCHANGED cells
  /\ Fails

\* esp_restart() after a good flash, deep sleep, or the power failing anywhere.
Reboot ==
  /\ BootSlot # NoSlot
  /\ running' = BootSlot
  /\ Idle
  /\ UNCHANGED <<cells, otadata>>
-----------------------------------------------------------------------------
IdleInit ==
  /\ pc = "idle" /\ target = NoTarget /\ pos = 0 /\ erased = 0 /\ entry = NoEntry

\* Any state that boots: a USB flash, earlier updates, or a slot that went bad
\* and made the bootloader fall back.
Init ==
  /\ cells \in [Slots -> {[c \in Chunks |-> v] : v \in Images \union {Erased, Bad}}]
  /\ otadata \in [Slots -> Sector]
  /\ running = BootSlot /\ running # NoSlot
  /\ IdleInit

\* The states updates alone lead to, on a device that knows its chip: the active
\* sector names the running partition.
CleanInit == Init /\ ChipKnown
                  /\ (ActiveSector = NoSlot => running = 0)
                  /\ (ActiveSector # NoSlot => running = SlotOf(ActiveSeq))

Next ==
  \/ \E v \in Versions : Start(v)
  \/ EraseBlock \/ WriteChunk \/ FlashFails \/ ImageWritten
  \/ EraseSector \/ WriteSector \/ SwitchFails
  \/ Reboot

Spec == Init /\ [][Next]_vars
CleanSpec == CleanInit /\ [][Next]_vars
-----------------------------------------------------------------------------
\* The device always boots: whatever step the power fails at and whatever an
\* operation leaves behind, one partition holds a whole image.
AlwaysBoots == BootSlot # NoSlot

\* The image that is running is never written to, so a failed update can always
\* fall back to it.
RunningIsKept == [][cells'[running] = cells[running]]_vars

\* When flash() returns true the next boot runs the image it wrote: whatever file
\* the card holds, inspect() let none through that the bootloader would refuse.
\* An image for another chip is refused if the device could read its own.
DoneBootsNew == pc = "done" /\ ChipKnown => (BootSlot = Dest /\ Holds(Dest, target))

\* Everything is erased before it is written: what has been written so far is
\* the image, and the rest of the erased range is still blank.
WrittenSoFar ==
  pc = "flash" =>
    /\ pos <= erased
    /\ \A c \in 0 .. pos - 1 : cells[Dest][c] = target
    /\ \A c \in pos .. erased - 1 : cells[Dest][c] = Erased
-----------------------------------------------------------------------------
\* The image the next boot would run.
BootVersion == CHOOSE v \in Images : BootSlot # NoSlot /\ Holds(BootSlot, v)

\* Refinement: the next boot's image, and the update under way.
Abstract == INSTANCE AtomicUpdate WITH
  Versions <- Images,
  boots    <- BootVersion,
  wanted   <- target,
  None     <- NoTarget

\* flash() and switchBoot() replace one whole image by another in a single step,
\* the write of the otadata sector, or not at all; what is not an image for this
\* device is not even begun with.
UpdatesAtomically == Abstract!Spec
=============================================================================
