------------------------------- MODULE TiffFile -------------------------------
(***************************************************************************)
(* A TIFF file as what was last written where, and what a reader makes of  *)
(* it.  A file is a set of disjoint extents [off, len, val]: the bytes     *)
(* off .. off+len-1 hold val, a number or the payload of a block.  Bytes   *)
(* no extent covers hold something nobody can interpret.  A write of n     *)
(* bytes destroys every extent it overlaps, wholly or partly, and leaves   *)
(* its own fields.                                                         *)
(*                                                                         *)
(* The reader is tiff-reader's: parse the header, follow the IFD chain,    *)
(* find the block arrays of each IFD, and fetch each block.  It knows      *)
(* nothing of what the writer meant.                                       *)
(***************************************************************************)
EXTENDS IfdLayout

MaxOf(a, b) == IF a >= b THEN a ELSE b

Untouched(file, off, n) ==
  {e \in file : e.off + e.len <= off \/ off + n <= e.off}

Overwrite(file, off, n, fields) == Untouched(file, off, n) \cup fields

----------------------------------------------------------------------------
(***************************************************************************)
(* The reader.  What it reads at a place is a set: one value when the file *)
(* has a field of that length there, none when the bytes mean nothing.     *)
(***************************************************************************)
Nums(file, off, len) ==
  {e.val.num : e \in {x \in file : /\ x.off = off /\ x.len = len
                                   /\ DOMAIN x.val = {"num"}}}

Payloads(file, off, len) ==
  {e.val : e \in {x \in file : /\ x.off = off /\ x.len = len
                               /\ DOMAIN x.val # {"num"}}}

Sparse  == [sparse |-> TRUE]
Damaged == [damaged |-> TRUE]
TheOne(S, default) == IF Cardinality(S) = 1 THEN CHOOSE x \in S : TRUE ELSE default

ClassicVersion == 42
BigVersion     == 43

\* TiffHeader::parse; a BigTIFF header also states offset size 8, reserved 0.
IsBig(file, header) ==
  {v = BigVersion : v \in
     {x \in Nums(file, header, 4) :
        x = ClassicVersion \/ (x = BigVersion /\ Nums(file, header + 4, 4) = {8})}}

FirstIfd(file, header, big) ==
  Nums(file, header + IF big THEN 8 ELSE 4, Width(big))

EntryCount(file, ifd, big) == Nums(file, ifd, CountSize(big))

NextIfd(file, ifd, big) ==
  UNION {Nums(file, ifd + CountSize(big) + n * EntrySize(big), NextPtrSize(big)) :
           n \in EntryCount(file, ifd, big)}

\* The offsets of the entries with one of these codes.
Entries(file, ifd, big, codes) ==
  UNION {{entry \in {EntryOffset(ifd, big, i) : i \in 1..n} :
            Nums(file, entry, 2) \cap codes # {}} : n \in EntryCount(file, ifd, big)}

\* Where the n elements of an entry's array are: inline, or where the entry points.
ArrayAt(file, entry, big, n) ==
  IF n * Width(big) <= InlineMax(big) THEN {entry + ValueField(big)}
  ELSE Nums(file, entry + ValueField(big), Width(big))

BlockArrays(file, ifd, big, codes) ==
  UNION {UNION {{[j \in 1..n |-> Nums(file, at + (j - 1) * Width(big), Width(big))] :
                    at \in ArrayAt(file, entry, big, n)} :
                 n \in Nums(file, entry + 4, Width(big))} :
           entry \in Entries(file, ifd, big, codes)}

\* A zero offset or byte count is a sparse block; any other one is fetched as stated.
ReadBlock(file, off, count) ==
  IF off = 0 \/ count = 0 THEN Sparse ELSE TheOne(Payloads(file, off, count), Damaged)

ReadIfd(file, ifd, big) ==
  LET block(offs, counts) ==
        TheOne({ReadBlock(file, off, count) : off \in offs, count \in counts}, Damaged)
  IN TheOne({[b \in DOMAIN o |-> block(o[b], IF b \in DOMAIN c THEN c[b] ELSE {})] :
               o \in BlockArrays(file, ifd, big, {TagStripOffsets, TagTileOffsets}),
               c \in BlockArrays(file, ifd, big, {TagStripByteCounts, TagTileByteCounts})},
            <<Damaged>>)

(***************************************************************************)
(* parse_ifd_chain: follow the pointers from the header to the zero one,   *)
(* over at most maxIfds IFDs.  An unreadable pointer counts as a damaged   *)
(* image; a file without a header holds no image.                          *)
(***************************************************************************)
ReadChain(file, header, big, maxIfds) ==
  LET ptr[k \in 1..(maxIfds + 1)] ==
        IF k = 1 THEN FirstIfd(file, header, big)
        ELSE UNION {NextIfd(file, p, big) : p \in ptr[k - 1] \ {0}}
      length == Cardinality({k \in 1..maxIfds : ptr[k] \notin {{}, {0}}})
      tail   == IF ptr[length + 1] = {0} THEN <<>> ELSE <<<<Damaged>>>>
  IN [k \in 1..length |->
        TheOne({ReadIfd(file, p, big) : p \in ptr[k]}, <<Damaged>>)] \o tail

ReadFile(file, header, maxIfds) ==
  TheOne({ReadChain(file, header, big, maxIfds) : big \in IsBig(file, header)}, <<>>)
=============================================================================
