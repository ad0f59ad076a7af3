---------------------------- MODULE ImageBuilder ----------------------------
(***************************************************************************)
(* The part of tiff-writer's ImageBuilder the file layout depends on: how   *)
(* many strips or tiles an image has, how large each of them is, and the   *)
(* sorted tag list of its IFD.  A tag is its code and the encoded byte     *)
(* length of its value; what the value says does not matter here, except   *)
(* for the two block arrays, whose elements the writer patches.            *)
(***************************************************************************)
EXTENDS Integers, Sequences, FiniteSets

Tag == [code : Nat, len : Nat]

(***************************************************************************)
(* layout is "strips" (blockHeight = rows_per_strip) or "tiles".  Images   *)
(* without a predictor and without tags of a color model or of LERC.       *)
(***************************************************************************)
Builder ==
  [width : Nat, height : Nat, spp : Nat, bits : Nat, planar : BOOLEAN,
   layout : {"strips", "tiles"}, blockWidth : Nat, blockHeight : Nat,
   overview : BOOLEAN, extra : Seq(Tag)]

\* TIFF tag codes the writer manages, as numbered in tiff-core.
TagNewSubfileType   == 254
TagImageWidth       == 256
TagImageLength      == 257
TagBitsPerSample    == 258
TagCompression      == 259
TagPhotometric      == 262
TagStripOffsets     == 273
TagSamplesPerPixel  == 277
TagRowsPerStrip     == 278
TagStripByteCounts  == 279
TagPlanarConfig     == 284
TagPredictor        == 317
TagColorMap         == 320
TagTileWidth        == 322
TagTileLength       == 323
TagTileOffsets      == 324
TagTileByteCounts   == 325
TagSubIfds          == 330
TagInkSet           == 332
TagExtraSamples     == 338
TagSampleFormat     == 339
TagYcbcrSubsampling == 530
TagYcbcrPositioning == 531
TagLercParameters   == 50674

DivCeil(a, b) == (a + b - 1) \div b

CheckedLayout(b) ==
  IF b.layout = "strips" THEN b.blockHeight > 0
  ELSE /\ b.blockWidth > 0 /\ b.blockHeight > 0
       /\ b.blockWidth % 16 = 0 /\ b.blockHeight % 16 = 0

Managed ==
  {TagNewSubfileType, TagImageWidth, TagImageLength, TagBitsPerSample,
   TagCompression, TagPhotometric, TagStripOffsets, TagSamplesPerPixel,
   TagRowsPerStrip, TagStripByteCounts, TagPlanarConfig, TagPredictor,
   TagColorMap, TagTileWidth, TagTileLength, TagTileOffsets, TagTileByteCounts,
   TagInkSet, TagExtraSamples, TagSampleFormat, TagYcbcrSubsampling,
   TagYcbcrPositioning, TagLercParameters}

ValidateExtraTags(b) ==
  /\ \A i, j \in DOMAIN b.extra : b.extra[i].code = b.extra[j].code => i = j
  /\ \A i \in DOMAIN b.extra : b.extra[i].code \notin Managed

Validate(b) ==
  /\ b.width > 0 /\ b.height > 0 /\ b.spp > 0
  /\ ValidateExtraTags(b)
  /\ b.bits \in {1, 2, 4, 8, 16, 32, 64}
  /\ CheckedLayout(b)

BlocksPerPlane(b) ==
  IF b.layout = "strips" THEN DivCeil(b.height, b.blockHeight)
  ELSE DivCeil(b.width, b.blockWidth) * DivCeil(b.height, b.blockHeight)

CheckedBlockCount(b) ==
  IF b.planar THEN BlocksPerPlane(b) * b.spp ELSE BlocksPerPlane(b)

BlockSamplesPerPixel(b) == IF b.planar THEN 1 ELSE b.spp

PlaneIndex(b, index) ==
  IF b.planar THEN index % BlocksPerPlane(b) ELSE index

BlockRowWidth(b) == IF b.layout = "strips" THEN b.width ELSE b.blockWidth

\* Tiles are padded to their full height; the last strip of a plane may be short.
CheckedBlockHeight(b, index) ==
  IF b.layout = "tiles" THEN b.blockHeight
  ELSE LET start == PlaneIndex(b, index) * b.blockHeight
           left  == b.height - start
       IN IF left < b.blockHeight THEN left ELSE b.blockHeight

CheckedBlockSampleCount(b, index) ==
  CheckedBlockHeight(b, index) * BlockRowWidth(b) * BlockSamplesPerPixel(b)

OffsetsTagCode(b)    == IF b.layout = "strips" THEN TagStripOffsets ELSE TagTileOffsets
ByteCountsTagCode(b) == IF b.layout = "strips" THEN TagStripByteCounts ELSE TagTileByteCounts

LayoutTags(b) ==
  IF b.layout = "strips" THEN <<[code |-> TagRowsPerStrip, len |-> 4]>>
  ELSE <<[code |-> TagTileWidth, len |-> 4], [code |-> TagTileLength, len |-> 4]>>

\* The block arrays hold 4-byte elements in a classic file and 8-byte ones in BigTIFF.
ElementWidth(big) == IF big THEN 8 ELSE 4

\* sort_by_key by the code, which is stable: a tag goes behind those that precede it.
Precedes(tags, i, j) ==
  tags[i].code < tags[j].code \/ (tags[i].code = tags[j].code /\ i < j)

RankOf(tags, i) == 1 + Cardinality({j \in DOMAIN tags : Precedes(tags, j, i)})

SortedByCode(tags) ==
  [k \in DOMAIN tags |-> tags[CHOOSE i \in DOMAIN tags : RankOf(tags, i) = k]]

When(cond, tag) == IF cond THEN <<tag>> ELSE <<>>

BuildTags(b, big) ==
  LET arrayLen == CheckedBlockCount(b) * ElementWidth(big)
      tags ==
        When(b.overview, [code |-> TagNewSubfileType, len |-> 4]) \o
        <<[code |-> TagImageWidth, len |-> 4],
          [code |-> TagImageLength, len |-> 4],
          [code |-> TagBitsPerSample, len |-> 2 * b.spp],
          [code |-> TagCompression, len |-> 2],
          [code |-> TagPhotometric, len |-> 2],
          [code |-> TagSamplesPerPixel, len |-> 2]>> \o
        When(b.planar, [code |-> TagPlanarConfig, len |-> 2]) \o
        <<[code |-> TagSampleFormat, len |-> 2 * b.spp]>> \o
        LayoutTags(b) \o
        <<[code |-> OffsetsTagCode(b), len |-> arrayLen],
          [code |-> ByteCountsTagCode(b), len |-> arrayLen]>> \o
        b.extra
  IN SortedByCode(tags)
=============================================================================
