----------------------------- MODULE ImageConfig -----------------------------
(***************************************************************************)
(* The whole ImageBuilder of tiff-writer: its setters, its validation, the *)
(* tags it writes about how samples are stored, and what write_block does  *)
(* with a block of samples of a given type.  Block geometry and the checks *)
(* of dimensions, layout and extra tags are those of ImageBuilder.tla.     *)
(*                                                                         *)
(* An optional value is <<>> or <<value>>.  Compressions, photometric      *)
(* interpretations and the like are the codes that stand for them in a     *)
(* file; a ColorMap is the number of its entries and whether all of them   *)
(* fit eight bits; a block of samples is its sample type and its size.     *)
(***************************************************************************)
EXTENDS ImageBuilder

\* Compression codes.
Uncompressed == 1
Lzw          == 5
OldJpeg      == 6
Jpeg         == 7
Deflate      == 8
PackBits     == 32773
DeflateOld   == 32946
Lerc         == 34887
Zstd         == 50000

NoPredictor   == 1
Horizontal    == 2
FloatingPoint == 3

UintFormat  == 1
IntFormat   == 2
FloatFormat == 3

MinIsWhite == 0
MinIsBlack == 1
Rgb        == 2
Palette    == 3
Mask       == 4
Separated  == 5
YCbCr      == 6
CieLab     == 8
IccLab     == 9

Cmyk    == 1
NotCmyk == 2

Option(S) == {option \in Seq(S) : Len(option) <= 1}
OrElse(option, default) == IF option = <<>> THEN default ELSE option[1]

ColorMaps == [entries : Nat, narrow : BOOLEAN]

ImageBuilders ==
  [width : Nat, height : Nat, spp : Nat, bits : Nat,
   format : {UintFormat, IntFormat, FloatFormat}, compression : Nat,
   predictor : {NoPredictor, Horizontal, FloatingPoint},
   photometric : {MinIsWhite, MinIsBlack, Rgb, Palette, Mask, Separated, YCbCr,
                  CieLab, IccLab},
   extras : Seq(Nat), colorMap : Option(ColorMaps), inkSet : Option(Nat),
   subsampling : Option(Nat \X Nat), positioning : Option(Nat), planar : BOOLEAN,
   layout : {"strips", "tiles"}, blockWidth : Nat, blockHeight : Nat,
   extra : Seq(Tag), overview : BOOLEAN, lerc : Option(Nat), jpeg : Option(Nat),
   deflateLevel : Option(Nat)]

(***************************************************************************)
(* Setters.  The builder starts as one 8-bit unsigned channel in strips.   *)
(***************************************************************************)
NewBuilder(width, height) ==
  [width |-> width, height |-> height, spp |-> 1, bits |-> 8,
   format |-> UintFormat, compression |-> Uncompressed,
   predictor |-> NoPredictor, photometric |-> MinIsBlack, extras |-> <<>>,
   colorMap |-> <<>>, inkSet |-> <<>>, subsampling |-> <<>>,
   positioning |-> <<>>, planar |-> FALSE, layout |-> "strips",
   blockWidth |-> 0, blockHeight |-> IF height < 256 THEN height ELSE 256,
   extra |-> <<>>, overview |-> FALSE, lerc |-> <<>>, jpeg |-> <<>>,
   deflateLevel |-> <<>>]

SetSampleType(b, type) == [b EXCEPT !.bits = type.bits, !.format = type.format]

SetCompression(b, c) ==
  [b EXCEPT !.compression = c,
            !.lerc = IF c = Lerc THEN @ ELSE <<>>,
            !.jpeg = IF c = Jpeg THEN @ ELSE <<>>,
            !.predictor = IF c \in {Lerc, Jpeg} THEN NoPredictor ELSE @]

SetLerc(b, additional) ==
  [b EXCEPT !.compression = Lerc, !.predictor = NoPredictor,
            !.lerc = <<additional>>, !.jpeg = <<>>]

SetJpeg(b, quality) ==
  [b EXCEPT !.compression = Jpeg, !.predictor = NoPredictor,
            !.jpeg = <<quality>>, !.lerc = <<>>]

SetStrips(b, rows) ==
  [b EXCEPT !.layout = "strips", !.blockWidth = 0, !.blockHeight = rows]

SetTiles(b, width, height) ==
  [b EXCEPT !.layout = "tiles", !.blockWidth = width, !.blockHeight = height]

(***************************************************************************)
(* Validation.                                                             *)
(***************************************************************************)
SubByte(b) == b.bits \in {1, 2, 4}

\* Mutant: any predictor with any format.
ValidEncodingOfAnyPredictor(b) ==
  /\ SubByte(b) => b.format = UintFormat /\ b.predictor = NoPredictor
                   /\ b.compression # Lerc
  /\ b.compression \in {Uncompressed, Lzw, Deflate, DeflateOld, Lerc, Jpeg, Zstd}
  /\ b.predictor # NoPredictor => b.compression \notin {Uncompressed, Lerc}
  /\ b.format = FloatFormat => b.bits \in {32, 64}

ValidEncoding(b) ==
  /\ SubByte(b) => /\ b.format = UintFormat
                   /\ b.predictor = NoPredictor
                   /\ b.compression # Lerc
  /\ b.compression \in {Uncompressed, Lzw, Deflate, DeflateOld, Lerc, Jpeg, Zstd}
  /\ b.predictor # NoPredictor => b.compression \notin {Uncompressed, Lerc}
  /\ b.format = FloatFormat => b.bits \in {32, 64}
  /\ b.predictor = Horizontal => b.format # FloatFormat
  /\ b.predictor = FloatingPoint => b.format = FloatFormat
  /\ b.deflateLevel # <<>> => /\ b.deflateLevel[1] <= 9
                              /\ b.compression \in {Deflate, DeflateOld}

\* No palette has more than 2^16 entries.
MaxPaletteBits == 16
HasPaletteOf(entries, bits) == bits <= MaxPaletteBits /\ entries = 2^bits

InkSetOf(b) == OrElse(b.inkSet, Cmyk)

SeparatedBaseSamples(b) ==
  IF InkSetOf(b) = Cmyk THEN 4 ELSE b.spp - Len(b.extras)

BaseSamples(b) ==
  IF b.photometric \in {MinIsWhite, MinIsBlack, Palette, Mask} THEN 1
  ELSE IF b.photometric \in {Rgb, YCbCr, CieLab, IccLab} THEN 3
  ELSE SeparatedBaseSamples(b)

\* Mutant: any number of ExtraSamples, as long as there are that many channels.
ExtraSamplesFitLoosely(b) == Len(b.extras) <= b.spp

\* Declared extra samples must fit behind the base channels; fewer are fine.
ValidExtraSamples(b) == Len(b.extras) <= b.spp - BaseSamples(b)

ValidYCbCr(b) ==
  /\ b.format = UintFormat /\ b.bits = 8
  /\ b.subsampling # <<>> =>
       \/ b.subsampling[1] = <<1, 1>>
       \/ b.compression = Jpeg /\ b.subsampling[1] = <<2, 2>>

ValidColorModel(b) ==
  /\ b.photometric # Palette => b.colorMap = <<>>
  /\ b.photometric # Separated => b.inkSet = <<>>
  /\ b.photometric = Palette =>
       b.colorMap # <<>> /\ HasPaletteOf(b.colorMap[1].entries, b.bits)
  /\ b.photometric = Separated => SeparatedBaseSamples(b) >= 0
  /\ ValidExtraSamples(b)
  /\ IF b.photometric = YCbCr THEN ValidYCbCr(b)
     ELSE b.subsampling = <<>> /\ b.positioning = <<>>

MaxJpegSide == 65535

ValidJpeg(b) ==
  /\ OrElse(b.jpeg, 75) \in 1..100
  /\ b.bits = 8 /\ b.format = UintFormat /\ b.predictor = NoPredictor
  /\ BlockRowWidth(b) <= MaxJpegSide /\ b.blockHeight <= MaxJpegSide
  /\ \/ BlockSamplesPerPixel(b) = 1
     \/ BlockSamplesPerPixel(b) = 3 /\ b.photometric = YCbCr
  /\ b.photometric \notin {Palette, Mask}

ValidImage(b) ==
  /\ Validate(b)
  /\ ValidEncoding(b)
  /\ ValidColorModel(b)
  /\ b.compression = Jpeg => ValidJpeg(b)

(***************************************************************************)
(* What the IFD says about the samples: one field per tag, <<>> where the  *)
(* tag is left out.  BitsPerSample and SampleFormat have a value per       *)
(* channel; ColorMap is the number of its values.                          *)
(***************************************************************************)
EffectiveSubsampling(b) ==
  IF b.subsampling = <<>> /\ b.photometric = YCbCr /\ b.compression = Jpeg
  THEN <<<<2, 2>>>> ELSE b.subsampling

PerChannel(b, value) == [i \in 1..b.spp |-> value]

LercParametersTag(b) ==
  IF b.compression = Lerc THEN <<OrElse(b.lerc, 0)>> ELSE <<>>

ColorMapTag(b) ==
  IF b.colorMap = <<>> THEN <<>>
  ELSE <<[values |-> 3 * b.colorMap[1].entries, narrow |-> b.colorMap[1].narrow]>>

ImageTags(b) ==
  [width |-> b.width, height |-> b.height,
   bits |-> <<PerChannel(b, b.bits)>>, format |-> <<PerChannel(b, b.format)>>,
   compression |-> <<b.compression>>, photometric |-> <<b.photometric>>,
   spp |-> <<b.spp>>,
   planar |-> IF b.planar THEN <<2>> ELSE <<>>,
   predictor |-> IF b.predictor # NoPredictor THEN <<b.predictor>> ELSE <<>>,
   rowsPerStrip |-> IF b.layout = "strips" THEN <<b.blockHeight>> ELSE <<>>,
   tile |-> IF b.layout = "tiles" THEN <<<<b.blockWidth, b.blockHeight>>>> ELSE <<>>,
   extras |-> IF b.extras = <<>> THEN <<>> ELSE <<b.extras>>,
   colorMap |-> ColorMapTag(b), inkSet |-> b.inkSet,
   subsampling |-> EffectiveSubsampling(b), positioning |-> b.positioning,
   lerc |-> LercParametersTag(b)]

(***************************************************************************)
(* write_block: whether samples of a type are encoded, and what is stored. *)
(***************************************************************************)
SampleTypes ==
  [bits : {8, 16, 32, 64}, format : {UintFormat, IntFormat}]
    \cup [bits : {32, 64}, format : {FloatFormat}]

EncodesSubByte(b, type) ==
  /\ b.predictor = NoPredictor
  /\ type.bits = 8 /\ type.format = UintFormat
  /\ b.compression \in {Uncompressed, Lzw, Deflate, DeflateOld, Zstd}

EncodesJpeg(b, type) ==
  /\ type.bits = 8 /\ type.format = UintFormat
  /\ BlockSamplesPerPixel(b) \in {1, 3}

EncodesBytes(b, type) ==
  /\ b.predictor = Horizontal => type.format # FloatFormat
  /\ b.predictor = FloatingPoint => type.format = FloatFormat
  /\ b.compression = Jpeg => EncodesJpeg(b, type)

\* 64-bit integers have no LERC encoding.
EncodesLerc(type) == type.bits = 64 => type.format = FloatFormat

Encodes(b, type) ==
  IF b.compression = Lerc THEN EncodesLerc(type)
  ELSE IF b.bits < 8 THEN EncodesSubByte(b, type) ELSE EncodesBytes(b, type)

PackedRowBytes(width, spp, bits) == DivCeil(width * spp * bits, 8)

\* The length of a block before its codec; the codecs restore it.
PlainLen(b, index, type) ==
  IF b.bits < 8
  THEN CheckedBlockHeight(b, index)
         * PackedRowBytes(BlockRowWidth(b), BlockSamplesPerPixel(b), b.bits)
  ELSE CheckedBlockSampleCount(b, index) * (type.bits \div 8)

\* A JPEG or LERC block says of itself how large it is, a LERC block its type.
EncodedBlock(b, index, type) ==
  [width |-> BlockRowWidth(b), rows |-> CheckedBlockHeight(b, index),
   samples |-> BlockSamplesPerPixel(b), type |-> type,
   additional |-> OrElse(b.lerc, 0), len |-> PlainLen(b, index, type)]
=============================================================================
