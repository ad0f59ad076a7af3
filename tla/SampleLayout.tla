---------------------------- MODULE SampleLayout ----------------------------
(***************************************************************************)
(* What tiff-reader makes of the tags of an IFD: the layout of the stored  *)
(* samples, the color model, the layout of decoded pixels, which stored    *)
(* channels each decoded channel is computed from, and how long a block    *)
(* has to be.  IFDs are those of ImageConfig.tla, written by anyone.       *)
(***************************************************************************)
EXTENDS ImageConfig

Photometric(ifd)     == OrElse(ifd.photometric, MinIsBlack)
CompressionOf(ifd)   == OrElse(ifd.compression, Uncompressed)
SamplesPerPixel(ifd) == OrElse(ifd.spp, 1)
PlanarOf(ifd)        == OrElse(ifd.planar, 1)
PredictorOf(ifd)     == OrElse(ifd.predictor, NoPredictor)
ExtrasOf(ifd)        == OrElse(ifd.extras, <<>>)
SubsamplingOf(ifd)   == OrElse(ifd.subsampling, <<1, 1>>)
RowsPerStrip(ifd)    == OrElse(ifd.rowsPerStrip, ifd.height)

\* A value per channel, one value for all of them, or none, which stands for 1.
Normalizes(tag, n) == Len(OrElse(tag, <<1>>)) \in {0, 1, n}
Normalized(tag, n) ==
  LET values == OrElse(tag, <<1>>)
  IN [i \in 1..n |-> IF Len(values) = 0 THEN 1
                    ELSE IF Len(values) = n THEN values[i] ELSE values[1]]
Uniform(tag, n) ==
  Normalizes(tag, n) /\ \A i \in 1..n : Normalized(tag, n)[i] = Normalized(tag, n)[1]

BitsOf(ifd)   == Normalized(ifd.bits, SamplesPerPixel(ifd))[1]
FormatOf(ifd) == Normalized(ifd.format, SamplesPerPixel(ifd))[1]

ValidSampleEncoding(format, bits) ==
  \/ format = UintFormat  /\ bits \in {1, 2, 4, 8, 16, 32, 64}
  \/ format = IntFormat   /\ bits \in {8, 16, 32, 64}
  \/ format = FloatFormat /\ bits \in {32, 64}

(***************************************************************************)
(* The color model: base channels first, then extra samples.  Models with  *)
(* a fixed number of base channels pad the extra samples they are not told *)
(* about; inks other than CMYK are as many as are left.                    *)
(***************************************************************************)
FreeInks(ifd) ==
  Photometric(ifd) = Separated /\ OrElse(ifd.inkSet, Cmyk) # Cmyk

ColorChannels(ifd) ==
  IF Photometric(ifd) \in {MinIsWhite, MinIsBlack, Palette, Mask} THEN 1
  ELSE IF Photometric(ifd) \in {Rgb, YCbCr, CieLab, IccLab} THEN 3
  ELSE IF FreeInks(ifd) THEN SamplesPerPixel(ifd) - Len(ExtrasOf(ifd))
  ELSE 4

HasColorModel(ifd) ==
  /\ Photometric(ifd) \in {MinIsWhite, MinIsBlack, Rgb, Palette, Mask, Separated,
                           YCbCr, CieLab, IccLab}
  /\ Photometric(ifd) = Palette =>
       ifd.colorMap # <<>> /\ ifd.colorMap[1].values % 3 = 0
  /\ Photometric(ifd) # Mask =>
       /\ ColorChannels(ifd) >= 0
       /\ Len(ExtrasOf(ifd)) <= SamplesPerPixel(ifd) - ColorChannels(ifd)

ExtraCount(ifd) ==
  IF Photometric(ifd) = Mask THEN 0 ELSE SamplesPerPixel(ifd) - ColorChannels(ifd)

\* Extra samples without a declared meaning are Unspecified, code 0.
ResolvedExtras(ifd) ==
  [i \in 1..ExtraCount(ifd) |->
     IF i <= Len(ExtrasOf(ifd)) THEN ExtrasOf(ifd)[i] ELSE 0]

ValidSubsampling(ifd) ==
  /\ SubsamplingOf(ifd)[1] > 0 /\ SubsamplingOf(ifd)[2] > 0
  /\ SubsamplingOf(ifd) # <<1, 1>> =>
       ExtraCount(ifd) = 0 /\ PredictorOf(ifd) = NoPredictor

AcceptsColorModel(ifd) ==
  /\ HasColorModel(ifd)
  /\ Photometric(ifd) = Palette =>
       HasPaletteOf(ifd.colorMap[1].values \div 3, BitsOf(ifd))
  /\ FreeInks(ifd) => ColorChannels(ifd) # 0 \/ ExtrasOf(ifd) # <<>>
  /\ Photometric(ifd) = YCbCr => ValidSubsampling(ifd)
  /\ SamplesPerPixel(ifd) = ColorChannels(ifd) + ExtraCount(ifd)

HasRasterLayout(ifd) ==
  /\ ifd.width > 0 /\ ifd.height > 0 /\ SamplesPerPixel(ifd) > 0
  /\ Uniform(ifd.bits, SamplesPerPixel(ifd))
  /\ Uniform(ifd.format, SamplesPerPixel(ifd))
  /\ ValidSampleEncoding(FormatOf(ifd), BitsOf(ifd))
  /\ PlanarOf(ifd) \in {1, 2}
  /\ PredictorOf(ifd) \in {NoPredictor, Horizontal, FloatingPoint}
  /\ BitsOf(ifd) < 8 => PredictorOf(ifd) = NoPredictor
  /\ AcceptsColorModel(ifd)

RasterLayout(ifd) ==
  [width |-> ifd.width, height |-> ifd.height, spp |-> SamplesPerPixel(ifd),
   bits |-> BitsOf(ifd), format |-> FormatOf(ifd), planar |-> PlanarOf(ifd) = 2,
   predictor |-> PredictorOf(ifd)]

(***************************************************************************)
(* Decoded pixels.                                                         *)
(***************************************************************************)
AtLeastAByte(bits) == IF bits < 8 THEN 8 ELSE bits

IsCmyk(ifd) == Photometric(ifd) = Separated /\ ~FreeInks(ifd)

DecodedChannels(ifd) ==
  (IF Photometric(ifd) = Palette \/ IsCmyk(ifd) THEN 3 ELSE ColorChannels(ifd))
    + ExtraCount(ifd)

\* A palette decides the depth of the pixels it decodes to, extra samples included.
DecodedType(ifd) ==
  IF Photometric(ifd) = Palette
  THEN [format |-> UintFormat, bits |-> IF ifd.colorMap[1].narrow THEN 8 ELSE 16]
  ELSE [format |-> FormatOf(ifd), bits |-> AtLeastAByte(BitsOf(ifd))]

HasDecodedLayout(ifd) ==
  /\ HasRasterLayout(ifd)
  /\ (Photometric(ifd) = YCbCr \/ IsCmyk(ifd)) => FormatOf(ifd) = UintFormat

PassesThrough(ifd) ==
  /\ BitsOf(ifd) >= 8
  /\ DecodedType(ifd) = [format |-> FormatOf(ifd), bits |-> BitsOf(ifd)]
  /\ DecodedChannels(ifd) = SamplesPerPixel(ifd)
  /\ \/ Photometric(ifd) \in {MinIsBlack, Rgb, Mask, CieLab, IccLab}
     \/ FreeInks(ifd)
     \/ Photometric(ifd) = YCbCr /\ CompressionOf(ifd) = Jpeg

DecodesPixels(ifd) ==
  /\ HasDecodedLayout(ifd)
  /\ \/ PassesThrough(ifd)
     \/ Photometric(ifd) \in {MinIsWhite, MinIsBlack} => FormatOf(ifd) = UintFormat

\* The stored channels (from 0) each base channel of a decoded pixel depends on.
BaseReads(ifd) ==
  IF Photometric(ifd) = Palette THEN <<{0}, {0}, {0}>>
  ELSE IF IsCmyk(ifd) THEN <<{0, 3}, {1, 3}, {2, 3}>>
  ELSE IF Photometric(ifd) = YCbCr /\ CompressionOf(ifd) # Jpeg
  THEN <<{0, 2}, {0, 1, 2}, {0, 1}>>
  ELSE [i \in 1..ColorChannels(ifd) |-> {i - 1}]

\* Mutant: extra samples are taken from behind the decoded base channels.
PixelReadsBehindDecoded(ifd) ==
  BaseReads(ifd) \o [i \in 1..ExtraCount(ifd) |-> {Len(BaseReads(ifd)) + i - 1}]

PixelReads(ifd) ==
  IF PassesThrough(ifd) THEN [i \in 1..SamplesPerPixel(ifd) |-> {i - 1}]
  ELSE BaseReads(ifd) \o [i \in 1..ExtraCount(ifd) |-> {ColorChannels(ifd) + i - 1}]

\* A Rust sample type can hold the pixels of exactly one layout, except that u8
\* also takes integers of fewer bits.
MatchesLayout(type, layout) ==
  /\ type.format = layout.format
  /\ IF type.bits = 8 /\ type.format = UintFormat THEN layout.bits <= 8
     ELSE layout.bits = type.bits

(***************************************************************************)
(* Blocks.                                                                 *)
(***************************************************************************)
IsTiled(ifd) == ifd.tile # <<>>

BlockSamples(ifd) == IF PlanarOf(ifd) = 1 THEN SamplesPerPixel(ifd) ELSE 1
BlockWidth(ifd)   == IF IsTiled(ifd) THEN ifd.tile[1][1] ELSE ifd.width
PlaneBlocks(ifd)  ==
  IF IsTiled(ifd)
  THEN DivCeil(ifd.width, ifd.tile[1][1]) * DivCeil(ifd.height, ifd.tile[1][2])
  ELSE DivCeil(ifd.height, RowsPerStrip(ifd))
\* Mutant: strips are numbered through all planes.
BlockRowsAcrossPlanes(ifd, index) ==
  IF IsTiled(ifd) THEN ifd.tile[1][2]
  ELSE LET left == ifd.height - index * RowsPerStrip(ifd)
       IN IF left < RowsPerStrip(ifd) THEN left ELSE RowsPerStrip(ifd)

BlockRows(ifd, index) ==
  IF IsTiled(ifd) THEN ifd.tile[1][2]
  ELSE LET left == ifd.height - (index % PlaneBlocks(ifd)) * RowsPerStrip(ifd)
       IN IF left < RowsPerStrip(ifd) THEN left ELSE RowsPerStrip(ifd)

\* Chroma is stored at a lower resolution: one unit holds h * v lumas and two chromas.
Subsampled(ifd) ==
  /\ Photometric(ifd) = YCbCr /\ SubsamplingOf(ifd) # <<1, 1>>
  /\ ExtraCount(ifd) = 0 /\ CompressionOf(ifd) # Jpeg

BytesPerSample(ifd) == DivCeil(BitsOf(ifd), 8)

BlockRowBytes(ifd) ==
  IF BitsOf(ifd) < 8
  THEN PackedRowBytes(BlockWidth(ifd), BlockSamples(ifd), BitsOf(ifd))
  ELSE BlockWidth(ifd) * BlockSamples(ifd) * BytesPerSample(ifd)

ExpectedEncodedLen(ifd, index) ==
  LET h == SubsamplingOf(ifd)[1]
      v == SubsamplingOf(ifd)[2]
  IN IF Subsampled(ifd)
     THEN DivCeil(BlockWidth(ifd), h) * DivCeil(BlockRows(ifd, index), v)
            * (h * v + 2) * BytesPerSample(ifd)
     ELSE BlockRows(ifd, index) * BlockRowBytes(ifd)

DecodedLen(ifd, index) ==
  IF Subsampled(ifd)
  THEN BlockWidth(ifd) * BlockRows(ifd, index) * 3 * BytesPerSample(ifd)
  ELSE IF BitsOf(ifd) < 8
  THEN BlockWidth(ifd) * BlockSamples(ifd) * BlockRows(ifd, index)
  ELSE ExpectedEncodedLen(ifd, index)

HasLercType(ifd) ==
  \/ BitsOf(ifd) \in {8, 16, 32}
  \/ BitsOf(ifd) = 64 /\ FormatOf(ifd) = FloatFormat

DecodesLerc(ifd, index, block) ==
  /\ OrElse(ifd.lerc, 0) = block.additional
  /\ block.width = BlockWidth(ifd) /\ block.rows = BlockRows(ifd, index)
  /\ HasLercType(ifd) /\ block.type = [bits |-> BitsOf(ifd), format |-> FormatOf(ifd)]
  /\ block.samples = BlockSamples(ifd)

DecodesJpeg(ifd, index, block) ==
  /\ block.width = BlockWidth(ifd) /\ block.rows = BlockRows(ifd, index)
  /\ block.samples = BlockSamples(ifd)
  /\ block.len = ExpectedEncodedLen(ifd, index)

\* Mutant: blocks that decode to more bytes than the IFD calls for are cut short.
DecodesCut(ifd, index, block) ==
  IF CompressionOf(ifd) = Lerc THEN DecodesLerc(ifd, index, block)
  ELSE IF CompressionOf(ifd) = Jpeg THEN DecodesJpeg(ifd, index, block)
  ELSE block.len >= ExpectedEncodedLen(ifd, index)

(***************************************************************************)
(* Every other codec asks for one byte more than expected and refuses the  *)
(* block if it gets one - but LZW asks for at most LzwRequest bytes at a   *)
(* time and returns once it has the expected length, so it never asks for  *)
(* that byte if the requests add up to the expected length: the rest of    *)
(* the stream is cut off unnoticed.                                        *)
(***************************************************************************)
LzwRequest == 8192
LzwCuts(expected) == expected > 0 /\ expected % LzwRequest = 0

DecodesBlock(ifd, index, block) ==
  LET expected == ExpectedEncodedLen(ifd, index)
  IN IF CompressionOf(ifd) = Lerc THEN DecodesLerc(ifd, index, block)
     ELSE IF CompressionOf(ifd) = Jpeg THEN DecodesJpeg(ifd, index, block)
     ELSE /\ CompressionOf(ifd) \in {Uncompressed, Lzw, Deflate, DeflateOld, PackBits, Zstd}
          /\ \/ block.len = expected
             \/ block.len > expected /\ CompressionOf(ifd) = Lzw /\ LzwCuts(expected)
          /\ PredictorOf(ifd) = FloatingPoint => BitsOf(ifd) \in {16, 32, 64}

\* A payload of more than four times the expected length and some slack is refused
\* unread.  How far a block compresses depends on its samples; with LZW, whose codes
\* have up to 12 bits, its payload has up to one and a half times its length.
PayloadLimit(expected) == 4 * expected + 4096
PayloadMayExceed(ifd, index, block) ==
  3 * block.len > 2 * PayloadLimit(ExpectedEncodedLen(ifd, index))
=============================================================================
