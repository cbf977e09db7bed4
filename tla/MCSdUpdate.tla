----------------------------- MODULE MCSdUpdate -----------------------------
\* Instance of SdUpdate for TLC: a partition of five chunks erased two at a time,
\* so the last block is short; an image that ends inside a block, one that fills
\* the partition and one that does not fit, and the files these become when a
\* part is damaged, missing or too much.
EXTENDS SdUpdate, FiniteSetsExt, TLC

Image(segments, hashed) ==
  [size |-> ImageBytes(segments, hashed), magic |-> TRUE, chip |-> Chip,
   segments |-> segments, hashAppended |-> hashed, checksumRight |-> TRUE, hashRight |-> TRUE]

\* 48 bytes with an empty segment and a whole padding block; 80 and 96 bytes.
Whole == {Image(<<0>>, FALSE), Image(<<3>>, TRUE), Image(<<20, 22>>, FALSE)}

\* A segment of Word - n bytes ends where a segment of -n would.
Damaged(f) ==
       {[f EXCEPT !.size = @ + d] : d \in {-48, -33, -32, -16, -1, 1, 15, 16, 32}}
  \cup {[f EXCEPT !.segments = <<n>>] : n \in {1, 16, 17, Word - 32, Word - 1}}
  \cup {[f EXCEPT !.segments = @ \o <<n>>] : n \in {0, 8, Word - 8, Word - 9}}
  \cup {[f EXCEPT !.segments = [i \in 1 .. n |-> 0]] : n \in {0, 16, 17}}
  \cup {[f EXCEPT !.magic = FALSE], [f EXCEPT !.chip = UnknownChip],
        [f EXCEPT !.checksumRight = FALSE], [f EXCEPT !.hashRight = FALSE],
        [f EXCEPT !.hashAppended = ~@]}

\* The card: all of these, numbered; a damaged file that is another image is left out.
Spoilt == {f \in UNION {Damaged(g) : g \in Whole} : ~BootsHere(f)}
Card   == FoldSet(LAMBDA f, s : Append(s, f), <<>>, Whole \cup Spoilt)
MCVersions == DOMAIN Card
MCFileOf   == Card
=============================================================================
