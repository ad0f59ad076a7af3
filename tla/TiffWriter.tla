------------------------------ MODULE TiffWriter ------------------------------
(***************************************************************************)
(* tiff-writer's TiffWriter: block payloads are streamed to the end of the *)
(* sink as they come, in any order and for any of the images, and finish() *)
(* writes the header, the IFDs with zero placeholders, and then patches    *)
(* block arrays and links IFDs one pointer at a time.  Every write of      *)
(* finish() is a step of its own, so each state between two of them is a   *)
(* file that a crash, or an error of the sink, leaves behind.              *)
(***************************************************************************)
EXTENDS TiffFile

CONSTANTS Variants,       \* the WriteOptions in use: "Classic", "BigTiff", "Auto"
          Builders,       \* the images callers configure, valid or not
          PayloadLens,    \* encoded block lengths
          WrapLens,       \* prefix and suffix lengths of a segmented block
          PrefixLens,     \* header prefix lengths
          SinkStarts,     \* [pos, len]: position and length of the sink at new()
          Limit,          \* CLASSIC_TIFF_LIMIT, the largest classic offset
          SampleCounts,   \* lengths of the sample slices callers pass
          MaxImages, MaxBlocks,     \* bounds of the model: images, blocks in all,
          MaxPrefixes, MaxFaults    \* header prefixes, failures of the sink

ASSUME LimitAssumption    == Limit \in Nat
ASSUME VariantsAssumption == Variants \subseteq {"Classic", "BigTiff", "Auto"}
ASSUME LensAssumption ==
  PayloadLens \subseteq Nat /\ WrapLens \subseteq Nat /\ PrefixLens \subseteq Nat
ASSUME SinkStartsAssumption == SinkStarts \subseteq [pos : Nat, len : Nat]
ASSUME BoundsAssumption ==
  /\ MaxImages \in Nat /\ MaxBlocks \in Nat /\ MaxPrefixes \in Nat /\ MaxFaults \in Nat
  /\ SampleCounts \subseteq Nat
ASSUME BuildersAssumption == Builders \subseteq Builder

VARIABLES variant,        \* requested_variant
          headerOffset,   \* header_offset
          images,         \* images: a builder and its block_records each
          file, len,      \* what the sink holds, and its length
          phase,          \* "open", then the stages of finish(), "done" or "failed"
          error,          \* why the writer failed
          big,            \* is_bigtiff, once chosen
          ifds,           \* ifd_offset of each IFD written
          cur,            \* finish(): the patch to write next, [image, step]
          prefixes, faults    \* counted for the model's bounds

vars == <<variant, headerOffset, images, file, len, phase, error, big, ifds,
          cur, prefixes, faults>>
sink == <<file, len>>
finishing == <<phase, error, big, ifds, cur>>
options == <<variant, headerOffset>>

----------------------------------------------------------------------------
\* Handles, records and payloads.
Self == "self"
Other == "other"          \* a handle another writer gave out
Handles == [owner : {Self, Other}, index : 1..MaxImages]

NoRecord == [off |-> -1, count |-> -1]
SparseRecord == [off |-> 0, count |-> 0]
Record(off, count) == [off |-> off, count |-> count]

\* The bytes a caller writes through handle h for block b, as a value.
Payload(h, b) == [owner |-> h.owner, image |-> h.index, block |-> b]
Extent(off, n, val) == [off |-> off, len |-> n, val |-> val]
Existing == [existing |-> TRUE]   \* what the sink held before

DataFields(off, n, val) == IF n = 0 THEN {} ELSE {Extent(off, n, val)}

\* Mutant: only BigTIFF, not Auto, reserves the longer header.
ReservedForBigTiff == HeaderLen(variant = "BigTiff")

Reserved == HeaderLen(variant # "Classic")

ImageIndex(h) == h.owner = Self /\ h.index \in DOMAIN images

Writable(h, b) ==
  /\ ImageIndex(h)
  /\ b \in DOMAIN images[h.index].records
  /\ images[h.index].records[b] = NoRecord

\* write_all at the end of the sink, n bytes.
AppendToSink(n, fields) ==
  /\ file' = Overwrite(file, len, n, fields)
  /\ len' = len + n

WithRecord(image, b, record) ==
  [builder |-> image.builder, records |-> [image.records EXCEPT ![b] = record]]

SetRecord(h, b, record) ==
  images' = [images EXCEPT ![h.index] = WithRecord(@, b, record)]

\* Mutant: off by one at the limit.
BelowClassicLimit(n) == n < Limit

FitsClassic(n) == n <= Limit
WhenClassic(cond) == variant = "Classic" => cond
----------------------------------------------------------------------------
\* new(): the reserved header is zeros; bytes the sink holds after it stay.
Init ==
  /\ variant \in Variants
  /\ \E s \in SinkStarts :
       LET end == s.pos + Reserved
       IN /\ headerOffset = s.pos
          /\ len = MaxOf(s.len, end)
          /\ file = {e \in {Field(s.pos + 4, 4, 0), Field(s.pos + 8, 8, 0)} :
                       e.off + e.len <= end}
                    \cup (IF s.len > end THEN {Extent(end, s.len - end, Existing)}
                          ELSE {})
  /\ images = <<>> /\ ifds = <<>> /\ cur = [image |-> 1, step |-> 1]
  /\ phase = "open" /\ error = "none" /\ big = FALSE
  /\ prefixes = 0 /\ faults = 0

BlockIds == UNION {{i} \X DOMAIN images[i].records : i \in DOMAIN images}

AddImage(b) ==
  /\ phase = "open" /\ Len(images) < MaxImages
  /\ Validate(b)
  /\ Cardinality(BlockIds) + CheckedBlockCount(b) <= MaxBlocks
  /\ images' = Append(images, [builder |-> b,
                               records |-> [k \in 1..CheckedBlockCount(b) |-> NoRecord]])
  /\ UNCHANGED <<options, sink, finishing, prefixes, faults>>

WriteHeaderPrefix(n) ==
  /\ phase = "open" /\ prefixes < MaxPrefixes
  /\ images = <<>>
  /\ WhenClassic(FitsClassic(len + n))
  /\ AppendToSink(n, {})
  /\ prefixes' = prefixes + 1
  /\ UNCHANGED <<options, images, finishing, faults>>

WriteBlockRaw(h, b, n) ==
  /\ phase = "open" /\ Writable(h, b)
  /\ WhenClassic(FitsClassic(len) /\ FitsClassic(n))
  /\ AppendToSink(n, DataFields(len, n, Payload(h, b)))
  /\ SetRecord(h, b, Record(len, n))
  /\ UNCHANGED <<options, finishing, prefixes, faults>>

\* n is the length the samples compress to.
WriteBlock(h, b, samples, n) ==
  /\ Writable(h, b)
  /\ samples = CheckedBlockSampleCount(images[h.index].builder, b - 1)
  /\ WriteBlockRaw(h, b, n)

WriteBlockSparse(h, b) ==
  /\ phase = "open" /\ Writable(h, b)
  /\ SetRecord(h, b, SparseRecord)
  /\ UNCHANGED <<options, sink, finishing, prefixes, faults>>

\* Mutant: the record points at the prefix.
SegmentedRecordsPrefix(h, b, pre, n, suf) ==
  /\ phase = "open" /\ Writable(h, b)
  /\ AppendToSink(pre + n + suf, DataFields(len + pre, n, Payload(h, b)))
  /\ SetRecord(h, b, Record(len, n))
  /\ UNCHANGED <<options, finishing, prefixes, faults>>

WriteBlockRawSegmented(h, b, pre, n, suf) ==
  /\ phase = "open" /\ Writable(h, b)
  /\ WhenClassic(/\ FitsClassic(len + pre) /\ FitsClassic(n)
                 /\ FitsClassic(len + pre + n + suf))
  /\ AppendToSink(pre + n + suf, DataFields(len + pre, n, Payload(h, b)))
  /\ SetRecord(h, b, Record(len + pre, n))
  /\ UNCHANGED <<options, finishing, prefixes, faults>>

\* The sink fails after k of a block's bytes: they stay, the block has no record.
WriteBlockFails(h, b, n, k) ==
  /\ phase = "open" /\ Writable(h, b)
  /\ faults < MaxFaults /\ k < n
  /\ WhenClassic(FitsClassic(len) /\ FitsClassic(n))
  /\ AppendToSink(k, {})
  /\ faults' = faults + 1
  /\ UNCHANGED <<options, images, finishing, prefixes>>
----------------------------------------------------------------------------
\* finish(): the layout decisions.
Tags(i, isBig) == BuildTags(images[i].builder, isBig)

Written(image) == \A b \in DOMAIN image.records : image.records[b] # NoRecord

RecordsFitClassic ==
  \A i \in DOMAIN images : \A b \in DOMAIN images[i].records :
    /\ FitsClassic(images[i].records[b].off)
    /\ FitsClassic(images[i].records[b].count)

\* Where the classic IFD of each image would end.
ClassicEnd ==
  LET end[i \in 0..Len(images)] ==
        IF i = 0 THEN len ELSE end[i - 1] + EstimateIfdSize(FALSE, Tags(i, FALSE))
  IN end

\* Mutant: the IFDs are left out of the estimate.
OnlyRecordsFit == RecordsFitClassic

ClassicLayoutFits ==
  RecordsFitClassic /\ \A i \in DOMAIN images : FitsClassic(ClassicEnd[i])

Fail(why) == phase' = "failed" /\ error' = why /\ UNCHANGED <<big, ifds, cur>>
Continue(to) == phase' = to /\ UNCHANGED error

\* finish() up to its first write: it refuses, or settles on a variant.
Finish ==
  /\ phase = "open"
  /\ IF \E i \in DOMAIN images : ~Written(images[i]) THEN Fail("incomplete")
     ELSE IF variant = "Classic" /\ ~ClassicLayoutFits THEN Fail("layout")
     ELSE /\ Continue("header")
          /\ big' = (variant = "BigTiff" \/ (variant = "Auto" /\ ~ClassicLayoutFits))
          /\ UNCHANGED <<ifds, cur>>
  /\ UNCHANGED <<options, images, sink, prefixes, faults>>

HeaderFields ==
  IF big THEN {Field(headerOffset, 4, BigVersion), Field(headerOffset + 4, 4, 8),
               Field(headerOffset + 8, 8, 0)}
  ELSE {Field(headerOffset, 4, ClassicVersion), Field(headerOffset + 4, 4, 0)}

WriteHeader ==
  /\ phase = "header"
  /\ file' = Overwrite(file, headerOffset, HeaderLen(big), HeaderFields)
  /\ len' = MaxOf(len, headerOffset + HeaderLen(big))
  /\ Continue("ifds")
  /\ UNCHANGED <<options, images, big, ifds, cur, prefixes, faults>>

\* On an overflow the entries before the offending one are already written.
WriteIfd ==
  LET i == Len(ifds) + 1
      tags == Tags(i, big)
      overflowing == Overflowing(len, tags, big, Limit)
  IN /\ phase = "ifds" /\ i \in DOMAIN images
     /\ IF ~TagsSorted(tags) THEN Fail("unsorted") /\ UNCHANGED sink
        ELSE IF overflowing # {}
        THEN /\ Fail("overflow")
             /\ \E first \in overflowing :
                  /\ \A k \in overflowing : first <= k
                  /\ AppendToSink(EntryOffset(0, big, first) + ValueField(big), {})
        ELSE /\ AppendToSink(IfdEnd(0, tags, big), IfdFields(len, tags, big))
             /\ ifds' = Append(ifds, len)
             /\ UNCHANGED <<phase, error, big, cur>>
     /\ UNCHANGED <<options, images, prefixes, faults>>

\* Mutant: the loop over the images ends one too early.
IfdsWrittenEarly ==
  /\ phase = "ifds" /\ Len(ifds) + 1 >= Len(images)
  /\ Continue("patch")
  /\ UNCHANGED <<options, images, sink, big, ifds, cur, prefixes, faults>>

IfdsWritten ==
  /\ phase = "ifds" /\ Len(ifds) = Len(images)
  /\ Continue("patch")
  /\ UNCHANGED <<options, images, sink, big, ifds, cur, prefixes, faults>>

\* finish() takes the place of a lone element from find_tag_value_offset, and of
\* an array from what write_ifd returned.
BlockArray(i, code) ==
  IF Len(images[i].records) = 1 THEN FindTagValueOffset(ifds[i], Tags(i, big), big, code)
  ELSE DeferredDataOffset(ifds[i], Tags(i, big), big, code)

Link(i) ==
  IF i > 1 THEN Field(NextPtrOffset(ifds[i - 1], Tags(i - 1, big), big),
                      NextPtrSize(big), ifds[i])
  ELSE Field(headerOffset + IF big THEN 8 ELSE 4, Width(big), ifds[1])

\* The patches of image i: block offsets, byte counts, then the pointer to its IFD.
PatchCount(i) == 2 * Len(images[i].records) + 1

\* Mutant: an IFD is linked before its block arrays are patched.
PatchLinkFirst(i, k) ==
  LET n == Len(images[i].records)
      b == images[i].builder
      elem(a, j, v) == Field(a + (j - 1) * Width(big), Width(big), v)
  IN IF k = 1 THEN {Link(i)}
     ELSE IF k <= n + 1 THEN {elem(a, k - 1, images[i].records[k - 1].off) :
                                a \in BlockArray(i, OffsetsTagCode(b))}
     ELSE {elem(a, k - 1 - n, images[i].records[k - 1 - n].count) :
             a \in BlockArray(i, ByteCountsTagCode(b))}

Patch(i, k) ==
  LET n == Len(images[i].records)
      b == images[i].builder
      elem(a, j, v) == Field(a + (j - 1) * Width(big), Width(big), v)
  IN IF k <= n THEN {elem(a, k, images[i].records[k].off) :
                       a \in BlockArray(i, OffsetsTagCode(b))}
     ELSE IF k <= 2 * n THEN {elem(a, k - n, images[i].records[k - n].count) :
                                a \in BlockArray(i, ByteCountsTagCode(b))}
     ELSE {Link(i)}

WritePatch ==
  LET i == cur.image
      patch == Patch(i, cur.step)
      next == IF cur.step < PatchCount(i) THEN [cur EXCEPT !.step = @ + 1]
              ELSE [image |-> i + 1, step |-> 1]
      overflow == ~big /\ \E w \in patch : ~FitsClassic(w.val.num)
  IN /\ phase = "patch" /\ i \in DOMAIN images
     /\ IF overflow THEN Fail("overflow") /\ UNCHANGED sink
        ELSE /\ IF patch = {} THEN UNCHANGED sink
                ELSE \E w \in patch : /\ file' = Overwrite(file, w.off, w.len, {w})
                                      /\ len' = MaxOf(len, w.off + w.len)
             /\ cur' = next
             /\ UNCHANGED <<phase, error, big, ifds>>
     /\ UNCHANGED <<options, images, prefixes, faults>>

Finished ==
  /\ phase = "patch" /\ cur.image > Len(images)
  /\ Continue("done")
  /\ UNCHANGED <<options, images, sink, big, ifds, cur, prefixes, faults>>

(***************************************************************************)
(* The sink fails during finish(): the write under way leaves nothing, a   *)
(* header without its pointer, or the first k bytes of an IFD.             *)
(***************************************************************************)
FinishFails ==
  /\ phase \in {"header", "ifds", "patch"} /\ faults < MaxFaults
  /\ \/ UNCHANGED sink
     \/ /\ phase = "header"
        /\ \E w \in HeaderFields :
             /\ w.off = headerOffset
             /\ file' = Overwrite(file, w.off, w.len, {w}) /\ UNCHANGED len
     \/ /\ phase = "ifds" /\ Len(ifds) < Len(images)
        /\ \E k \in {1, IfdEnd(0, Tags(Len(ifds) + 1, big), big) - 1} :
             AppendToSink(k, {})
  /\ Fail("io")
  /\ faults' = faults + 1
  /\ UNCHANGED <<options, images, prefixes>>

Next ==
  \/ \E b \in Builders : AddImage(b)
  \/ \E n \in PrefixLens : WriteHeaderPrefix(n)
  \/ \E h \in Handles : \E b \in 1..(MaxBlocks + 1) :
       \/ WriteBlockSparse(h, b)
       \/ \E n \in PayloadLens :
            \/ WriteBlockRaw(h, b, n)
            \/ \E samples \in SampleCounts : WriteBlock(h, b, samples, n)
            \/ \E k \in 0..(n - 1) : WriteBlockFails(h, b, n, k)
            \/ \E pre, suf \in WrapLens : WriteBlockRawSegmented(h, b, pre, n, suf)
  \/ Finish \/ WriteHeader \/ WriteIfd \/ IfdsWritten \/ WritePatch \/ Finished
  \/ FinishFails

Spec == Init /\ [][Next]_vars
----------------------------------------------------------------------------
Phases == {"open", "header", "ifds", "patch", "done", "failed"}
Errors == {"none", "incomplete", "layout", "overflow", "unsorted", "io"}
Records == [off : Nat, count : Nat] \cup {NoRecord}
Extents == [off : Nat, len : Nat \ {0},
            val : [num : Int] \cup [owner : {Self, Other}, image : Nat, block : Nat]
                  \cup {Existing}]

IfdState == [builder : {b \in Builders : Validate(b)}, records : Seq(Records)]

TypeOK ==
  /\ variant \in Variants /\ headerOffset \in Nat
  /\ images \in Seq(IfdState)
  /\ \A i \in DOMAIN images :
       Len(images[i].records) = CheckedBlockCount(images[i].builder)
  /\ file \subseteq Extents /\ len \in Nat
  /\ phase \in Phases /\ error \in Errors /\ big \in BOOLEAN
  /\ ifds \in Seq(Nat) /\ Len(ifds) <= Len(images)
  /\ phase \in {"patch", "done"} => Len(ifds) = Len(images)
  /\ cur \in [image : Nat \ {0}, step : Nat \ {0}]
  /\ prefixes \in Nat /\ faults \in Nat

(***************************************************************************)
(* Wherever the records say a block lies, its own bytes lie, of the stated *)
(* length, at every moment: another block's write, a failed write and its  *)
(* retry, a prefix, the final header (8 bytes over a reservation of 16, or *)
(* 16 over 16), the IFDs and all the patches leave them alone.             *)
(***************************************************************************)
Recorded(i, b) ==
  LET r == images[i].records[b]
  IN r # NoRecord /\ r.count > 0

PayloadsIntact ==
  \A i \in DOMAIN images : \A b \in DOMAIN images[i].records :
    Recorded(i, b) =>
      Extent(images[i].records[b].off, images[i].records[b].count,
             [owner |-> Self, image |-> i, block |-> b]) \in file

(***************************************************************************)
(* No write ever destroys payload bytes, recorded or not, nor what the     *)
(* sink held beyond the reserved header when the writer was created.       *)
(***************************************************************************)
PayloadsSurvive ==
  [][\A e \in file : DOMAIN e.val # {"num"} => e \in file']_vars

(***************************************************************************)
(* Once finish() has settled on a variant only the sink can make it fail:  *)
(* no offset turns out too large for a classic file after bytes of the     *)
(* header and the IFDs are out, and no tag list is refused that add_image  *)
(* accepted.  The layout estimate and the bytes written must agree for it. *)
(***************************************************************************)
NoLateFailure == error \notin {"overflow", "unsorted"}

(***************************************************************************)
(* A classic file with images ends within reach of a classic offset.       *)
(***************************************************************************)
ClassicWithinLimit ==
  phase \in {"patch", "done"} /\ ~big /\ images # <<>> => len <= Limit

(***************************************************************************)
(* Auto chooses BigTIFF only when the classic file, laid out as write_ifd  *)
(* would lay it out behind the data, would not fit the limit: the choice   *)
(* is exact, not conservative.                                             *)
(***************************************************************************)
ClassicIfdsLen ==
  LET sum[i \in 0..Len(images)] ==
        IF i = 0 THEN 0 ELSE sum[i - 1] + IfdEnd(0, Tags(i, FALSE), FALSE)
  IN sum[Len(images)]

AutoIsExact ==
  variant = "Auto" /\ big /\ phase = "header" => len + ClassicIfdsLen > Limit

(***************************************************************************)
(* The writer keeps the contract of a TIFF file: what a reader decodes     *)
(* from the bytes, starting at the header, is at every step a prefix of    *)
(* the images, each with every block as given, and all of them at the end. *)
(***************************************************************************)
NotGiven == [none |-> TRUE]
GivenTo(i, b) == {Sparse, [owner |-> Self, image |-> i, block |-> b]}

ContentOfRecord(i, b) ==
  LET r == images[i].records[b]
  IN IF r = NoRecord THEN NotGiven
     ELSE IF r.count = 0 THEN Sparse
     ELSE [owner |-> Self, image |-> i, block |-> b]

Store ==
  [i \in DOMAIN images |-> [b \in DOMAIN images[i].records |-> ContentOfRecord(i, b)]]
Readable == ReadFile(file, headerOffset, MaxImages)
Status == CASE phase = "open"   -> "open"
            [] phase = "done"   -> "closed"
            [] phase = "failed" -> "failed"
            [] OTHER            -> "closing"

Contract == INSTANCE TiffFileContract WITH
  BlockCounts <- {CheckedBlockCount(b) : b \in {x \in Builders : Validate(x)}},
  ContentOf   <- GivenTo,
  NoContent   <- NotGiven,
  store       <- Store,
  readable    <- Readable,
  status      <- Status

ImplementsContract == Contract!Spec
=============================================================================
