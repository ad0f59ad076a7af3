------------------------------ MODULE IfdLayout ------------------------------
(***************************************************************************)
(* tiff-writer's encoder: where an IFD, its entries, its next-IFD pointer  *)
(* and its deferred values lie in the file.  The encoder computes these    *)
(* places three times, in estimate_ifd_size (to choose between classic     *)
(* TIFF and BigTIFF), in write_ifd (to emit them) and in                   *)
(* find_tag_value_offset (to patch them later), and nothing but the        *)
(* agreement of the three keeps a file readable.                           *)
(***************************************************************************)
EXTENDS ImageBuilder

HeaderLen(big)   == IF big THEN 16 ELSE 8
EntrySize(big)   == IF big THEN 20 ELSE 12
InlineMax(big)   == IF big THEN 8 ELSE 4
NextPtrSize(big) == IF big THEN 8 ELSE 4
CountSize(big)   == IF big THEN 8 ELSE 2     \* of the entry count
ValueField(big)  == IF big THEN 12 ELSE 8   \* within an entry
Width(big)       == ElementWidth(big)       \* of an offset stored in the file

Deferred(tag, big) == tag.len > InlineMax(big)

\* Bytes of deferred values among the first n tags.
DeferredLen(tags, big) ==
  LET sum[n \in 0..Len(tags)] ==
        IF n = 0 THEN 0
        ELSE sum[n - 1] + IF Deferred(tags[n], big) THEN tags[n].len ELSE 0
  IN sum

\* Mutant: the next-IFD pointer and the deferred values are forgotten.
EstimateEntriesOnly(big, tags) == CountSize(big) + Len(tags) * EntrySize(big)

EstimateIfdSize(big, tags) ==
  CountSize(big) + Len(tags) * EntrySize(big) + NextPtrSize(big)
    + DeferredLen(tags, big)[Len(tags)]

IndexOf(tags, code) == {i \in DOMAIN tags : tags[i].code = code}

DeferredStart(ifdOff, tags, big) ==
  ifdOff + CountSize(big) + Len(tags) * EntrySize(big) + NextPtrSize(big)

EntryOffset(ifdOff, big, i) == ifdOff + CountSize(big) + (i - 1) * EntrySize(big)

NextPtrOffset(ifdOff, tags, big) ==
  ifdOff + CountSize(big) + Len(tags) * EntrySize(big)

DeferredOffset(ifdOff, tags, big, i) ==
  DeferredStart(ifdOff, tags, big) + DeferredLen(tags, big)[i - 1]

(***************************************************************************)
(* What write_ifd leaves in the file, as fields [off, len, val] whose value *)
(* is a number: the entry count, each entry's code, each deferred value's  *)
(* offset, a zero next-IFD pointer, and for the two block arrays and the   *)
(* SubIFDs the element count and the zero placeholders patched later.      *)
(***************************************************************************)
Field(off, len, n) == [off |-> off, len |-> len, val |-> [num |-> n]]

OffsetArrayCodes ==
  {TagStripOffsets, TagStripByteCounts, TagTileOffsets, TagTileByteCounts, TagSubIfds}

ArrayFields(off, n, big) ==
  {Field(off + (j - 1) * Width(big), Width(big), 0) : j \in 1..n}

IfdFields(ifdOff, tags, big) ==
  LET elems(i) == tags[i].len \div Width(big)
      entry(i) == EntryOffset(ifdOff, big, i)
      data(i)  == DeferredOffset(ifdOff, tags, big, i)
      deferred == {i \in DOMAIN tags : Deferred(tags[i], big)}
      arrays   == {i \in DOMAIN tags : tags[i].code \in OffsetArrayCodes}
  IN {Field(ifdOff, CountSize(big), Len(tags)),
      Field(NextPtrOffset(ifdOff, tags, big), NextPtrSize(big), 0)}
     \cup {Field(entry(i), 2, tags[i].code) : i \in DOMAIN tags}
     \cup {Field(entry(i) + ValueField(big), Width(big), data(i)) : i \in deferred}
     \cup {Field(entry(i) + 4, Width(big), elems(i)) : i \in arrays}
     \cup (UNION {ArrayFields(data(i), elems(i), big) : i \in arrays \cap deferred})
     \cup (UNION {ArrayFields(entry(i) + ValueField(big), elems(i), big) :
                    i \in arrays \ deferred})

\* The first byte after the IFD and its deferred values.
IfdEnd(ifdOff, tags, big) ==
  DeferredStart(ifdOff, tags, big) + DeferredLen(tags, big)[Len(tags)]

\* The entries whose value offset write_ifd cannot narrow to a classic one.
Overflowing(ifdOff, tags, big, limit) ==
  {i \in DOMAIN tags : /\ ~big /\ Deferred(tags[i], big)
                       /\ DeferredOffset(ifdOff, tags, big, i) > limit}

\* Strictly increasing codes: write_ifd refuses anything else.
TagsSorted(tags) == \A i \in 1..(Len(tags) - 1) : tags[i].code < tags[i + 1].code

\* Where the value of a tag lies, as find_tag_value_offset computes it: {} for None.
FindTagValueOffset(ifdOff, tags, big, code) ==
  {IF Deferred(tags[i], big)
     THEN DeferredStart(ifdOff, tags, big) + DeferredLen(tags, big)[i - 1]
     ELSE EntryOffset(ifdOff, big, i) + ValueField(big) : i \in IndexOf(tags, code)}

\* Mutant: deferred values of earlier tags are not skipped.
DeferredStartOnly(ifdOff, tags, big, code) ==
  {DeferredStart(ifdOff, tags, big) :
     i \in {k \in IndexOf(tags, code) : Deferred(tags[k], big)}}

\* IfdWriteResult's data offset of a block array: {} unless the array is deferred.
DeferredDataOffset(ifdOff, tags, big, code) ==
  {DeferredOffset(ifdOff, tags, big, i) :
     i \in {k \in IndexOf(tags, code) : Deferred(tags[k], big)}}
=============================================================================
