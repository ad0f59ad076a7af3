--------------------------- MODULE ImageModelProofs ---------------------------
(***************************************************************************)
(* For every set of builders, arguments and foreign IFDs: what the writer  *)
(* accepts the reader reads, but for the known kinds, write_block encodes  *)
(* the declared sample type, but for the known one, and decoded pixels use *)
(* every stored channel, whoever wrote the file.                           *)
(*                                                                         *)
(* The argument has two halves.  Pure lemmas compare the writer's          *)
(* ValidImage with the reader's HasRasterLayout and DecodesPixels on the   *)
(* tags of any builder; an inductive invariant says that an image beyond   *)
(* add_image has passed ValidImage and that the phase records what the     *)
(* reader found.                                                           *)
(***************************************************************************)
EXTENDS ImageModel, TLAPS, SequenceTheorems, FiniteSetTheorems

----------------------------------------------------------------------------
(* Options and lists.                                                      *)

LEMMA Options ==
  ASSUME NEW S
  PROVE  <<>> \in Option(S) /\ \A x \in S : <<x>> \in Option(S)
<1>1. <<>> \in Seq(S) /\ Len(<<>>) = 0
  BY EmptySeq
<1>2. \A x \in S : <<x>> \in Seq(S) /\ Len(<<x>>) = 1
  OBVIOUS
<1> QED BY <1>1, <1>2 DEF Option

LEMMA OptionValue ==
  ASSUME NEW S, NEW option \in Option(S), option # <<>>
  PROVE  option[1] \in S /\ Len(option) = 1
<1>1. option \in Seq(S) /\ Len(option) <= 1
  BY DEF Option
<1>2. Len(option) \in Nat /\ Len(option) # 0
  BY <1>1, EmptySeq
<1>3. Len(option) = 1
  <2> \A n \in Nat : n # 0 /\ n <= 1 => n = 1
    OBVIOUS
  <2> QED BY <1>1, <1>2
<1> QED BY <1>1, <1>3, ElementOfSeq

\* A value per channel is a list as long as there are channels.
LEMMA PerChannelIsAList ==
  ASSUME NEW b, b.spp \in Nat, NEW value
  PROVE  /\ Len(PerChannel(b, value)) = b.spp
         /\ \A i \in 1..b.spp : PerChannel(b, value)[i] = value
<1> DEFINE list == PerChannel(b, value)
<1>1. list \in [1..b.spp -> {value}]
  BY DEF PerChannel
<1>2. list \in Seq({value})
  BY <1>1
<1>3. DOMAIN list = 1..b.spp /\ DOMAIN list = 1..Len(list) /\ Len(list) \in Nat
  BY <1>1, <1>2
<1>4. Len(list) = b.spp
  BY <1>3
<1> QED BY <1>4 DEF PerChannel

----------------------------------------------------------------------------
(* What the reader makes of the tags of a builder.                         *)

\* The reader normalizes a value per channel to the value of all of them.
LEMMA UniformList ==
  ASSUME NEW b, b.spp \in Nat, b.spp > 0, NEW value
  PROVE  /\ Uniform(<<PerChannel(b, value)>>, b.spp)
         /\ Normalized(<<PerChannel(b, value)>>, b.spp)[1] = value
<1> DEFINE list == PerChannel(b, value)
<1>1. Len(list) = b.spp /\ \A i \in 1..b.spp : list[i] = value
  BY PerChannelIsAList
<1>2. OrElse(<<list>>, <<1>>) = list
  BY DEF OrElse
<1>3. Normalized(<<list>>, b.spp) = [i \in 1..b.spp |-> value]
  <2> HIDE DEF list
  <2> QED BY <1>1, <1>2 DEF Normalized
<1>4. Normalizes(<<list>>, b.spp)
  <2> HIDE DEF list
  <2> QED BY <1>1, <1>2 DEF Normalizes
<1> QED BY <1>3, <1>4 DEF Uniform

\* The tags carry the sizes, the encoding and the color model over unchanged.
LEMMA TagsAsSet ==
  ASSUME NEW b \in ImageBuilders, b.spp > 0
  PROVE  LET tags == ImageTags(b)
         IN /\ tags.width = b.width /\ tags.height = b.height
            /\ SamplesPerPixel(tags) = b.spp
            /\ Uniform(tags.bits, b.spp) /\ BitsOf(tags) = b.bits
            /\ Uniform(tags.format, b.spp) /\ FormatOf(tags) = b.format
            /\ Photometric(tags) = b.photometric
            /\ CompressionOf(tags) = b.compression
            /\ PlanarOf(tags) = IF b.planar THEN 2 ELSE 1
            /\ PredictorOf(tags) = b.predictor
            /\ ExtrasOf(tags) = b.extras
            /\ tags.inkSet = b.inkSet
            /\ tags.colorMap = ColorMapTag(b)
            /\ SubsamplingOf(tags) = OrElse(EffectiveSubsampling(b), <<1, 1>>)
<1> DEFINE tags == ImageTags(b)
<1>1. b.spp \in Nat
  BY DEF ImageBuilders
<1>2. /\ Uniform(<<PerChannel(b, b.bits)>>, b.spp)
      /\ Normalized(<<PerChannel(b, b.bits)>>, b.spp)[1] = b.bits
      /\ Uniform(<<PerChannel(b, b.format)>>, b.spp)
      /\ Normalized(<<PerChannel(b, b.format)>>, b.spp)[1] = b.format
  BY <1>1, UniformList
<1>3. SamplesPerPixel(tags) = b.spp
  BY DEF SamplesPerPixel, ImageTags, OrElse
<1>4. /\ tags.bits = <<PerChannel(b, b.bits)>>
      /\ tags.format = <<PerChannel(b, b.format)>>
  BY DEF ImageTags
<1>5. BitsOf(tags) = b.bits /\ FormatOf(tags) = b.format
  BY <1>2, <1>3, <1>4 DEF BitsOf, FormatOf
<1>6. tags.width = b.width /\ tags.height = b.height /\ tags.inkSet = b.inkSet
      /\ tags.colorMap = ColorMapTag(b) /\ tags.subsampling = EffectiveSubsampling(b)
  BY DEF ImageTags
<1>7. Photometric(tags) = b.photometric /\ CompressionOf(tags) = b.compression
  BY DEF Photometric, CompressionOf, ImageTags, OrElse
<1>8. PlanarOf(tags) = IF b.planar THEN 2 ELSE 1
  BY DEF PlanarOf, ImageTags, OrElse
<1>9. PredictorOf(tags) = b.predictor
  BY DEF PredictorOf, ImageTags, OrElse
<1>10. ExtrasOf(tags) = b.extras
  BY DEF ExtrasOf, ImageTags, OrElse
<1> QED BY <1>2, <1>3, <1>4, <1>5, <1>6, <1>7, <1>8, <1>9, <1>10 DEF SubsamplingOf

----------------------------------------------------------------------------
(* The color model.  One lemma per way the channels are counted.           *)

Colors == {MinIsWhite, MinIsBlack, Rgb, Palette, Mask, Separated, YCbCr, CieLab, IccLab}

\* What validation has established that the color model depends on.
LEMMA Validated ==
  ASSUME NEW b \in ImageBuilders, ValidImage(b)
  PROVE  /\ b.width > 0 /\ b.height > 0 /\ b.spp > 0 /\ b.spp \in Nat
         /\ b.bits \in {1, 2, 4, 8, 16, 32, 64}
         /\ b.photometric \in Colors
         /\ BaseSamples(b) \in Int /\ Len(b.extras) \in Nat
         /\ Len(b.extras) <= b.spp - BaseSamples(b)
         /\ b.predictor # NoPredictor => b.bits >= 8
<1>1. b.extras \in Seq(Nat) /\ b.spp \in Nat /\ b.photometric \in Colors
  BY DEF ImageBuilders, Colors
<1>2. Len(b.extras) \in Nat
  BY <1>1, LenProperties
<1>3. /\ b.width > 0 /\ b.height > 0 /\ b.spp > 0
      /\ b.bits \in {1, 2, 4, 8, 16, 32, 64}
      /\ SubByte(b) => b.predictor = NoPredictor
  BY DEF ValidImage, Validate, ValidEncoding
<1>4. SeparatedBaseSamples(b) \in Int
  BY <1>1, <1>2 DEF SeparatedBaseSamples
<1>5. BaseSamples(b) \in Int
  BY <1>1, <1>4 DEF BaseSamples, Colors, MinIsWhite, MinIsBlack, Rgb, Palette, Mask,
                    Separated, YCbCr, CieLab, IccLab
<1>6. Len(b.extras) <= b.spp - BaseSamples(b)
  BY DEF ValidImage, ValidColorModel, ValidExtraSamples
<1> QED BY <1>1, <1>2, <1>3, <1>5, <1>6 DEF SubByte

LEMMA ReadsOneChannel ==
  ASSUME NEW b \in ImageBuilders, ValidImage(b),
         b.photometric \in {MinIsWhite, MinIsBlack, Palette}
  PROVE  AcceptsColorModel(ImageTags(b)) /\ ~KnownUnreadable(b)
<1> DEFINE tags == ImageTags(b)
<1>1. /\ SamplesPerPixel(tags) = b.spp /\ Photometric(tags) = b.photometric
      /\ ExtrasOf(tags) = b.extras /\ tags.colorMap = ColorMapTag(b) /\ BitsOf(tags) = b.bits
  BY Validated, TagsAsSet
<1>2. b.spp \in Nat /\ Len(b.extras) \in Nat /\ Len(b.extras) <= b.spp - 1
  <2>1. BaseSamples(b) = 1
    BY DEF BaseSamples, MinIsWhite, MinIsBlack, Palette, Mask
  <2> QED BY <2>1, Validated
<1>3. ColorChannels(tags) = 1 /\ ExtraCount(tags) = b.spp - 1
  BY <1>1 DEF ColorChannels, ExtraCount, MinIsWhite, MinIsBlack, Palette, Mask
<1>4. b.photometric = Palette =>
        /\ tags.colorMap # <<>> /\ tags.colorMap[1].values % 3 = 0
        /\ HasPaletteOf(tags.colorMap[1].values \div 3, BitsOf(tags))
  <2> SUFFICES ASSUME b.photometric = Palette
               PROVE  /\ tags.colorMap # <<>> /\ tags.colorMap[1].values % 3 = 0
                      /\ HasPaletteOf(tags.colorMap[1].values \div 3, BitsOf(tags))
    OBVIOUS
  <2>1. b.colorMap # <<>> /\ HasPaletteOf(b.colorMap[1].entries, b.bits)
    BY DEF ValidImage, ValidColorModel
  <2>2. b.colorMap \in Option(ColorMaps)
    BY DEF ImageBuilders
  <2>3. b.colorMap[1].entries \in Nat
    <3>1. b.colorMap[1] \in ColorMaps
      BY <2>1, <2>2, OptionValue
    <3> QED BY <3>1 DEF ColorMaps
  <2>4. tags.colorMap # <<>> /\ tags.colorMap[1].values = 3 * b.colorMap[1].entries
    BY <1>1, <2>1 DEF ColorMapTag
  <2>5. \A n \in Nat : (3 * n) % 3 = 0 /\ (3 * n) \div 3 = n
    OBVIOUS
  <2> QED BY <1>1, <2>1, <2>3, <2>4, <2>5
<1>5. HasColorModel(tags)
  BY <1>1, <1>2, <1>3, <1>4 DEF HasColorModel
<1>6. b.photometric \notin {Mask, Separated, YCbCr}
  BY DEF MinIsWhite, MinIsBlack, Palette, Mask, Separated, YCbCr
<1> QED BY <1>1, <1>2, <1>3, <1>4, <1>5, <1>6
        DEF AcceptsColorModel, FreeInks, KnownUnreadable

LEMMA ReadsMask ==
  ASSUME NEW b \in ImageBuilders, ValidImage(b), b.photometric = Mask
  PROVE  AcceptsColorModel(ImageTags(b)) <=> ~KnownUnreadable(b)
<1> DEFINE tags == ImageTags(b)
<1>1. SamplesPerPixel(tags) = b.spp /\ Photometric(tags) = Mask /\ b.spp \in Nat /\ b.spp > 0
  BY Validated, TagsAsSet
<1>2. ColorChannels(tags) = 1 /\ ExtraCount(tags) = 0
  BY <1>1 DEF ColorChannels, ExtraCount
<1>3. Mask \notin {Palette, Separated, YCbCr}
  BY DEF Palette, Mask, Separated, YCbCr
<1>4. HasColorModel(tags)
  BY <1>1, <1>3 DEF HasColorModel
<1>5. AcceptsColorModel(tags) <=> b.spp = 1
  BY <1>1, <1>2, <1>3, <1>4 DEF AcceptsColorModel, FreeInks
<1> QED BY <1>1, <1>3, <1>5 DEF KnownUnreadable

LEMMA ReadsThreeChannels ==
  ASSUME NEW b \in ImageBuilders, ValidImage(b), b.photometric \in {Rgb, CieLab, IccLab}
  PROVE  AcceptsColorModel(ImageTags(b)) /\ ~KnownUnreadable(b)
<1> DEFINE tags == ImageTags(b)
<1>1. /\ SamplesPerPixel(tags) = b.spp /\ Photometric(tags) = b.photometric
      /\ ExtrasOf(tags) = b.extras
  BY Validated, TagsAsSet
<1>2. b.spp \in Nat /\ Len(b.extras) \in Nat /\ Len(b.extras) <= b.spp - 3
  <2>1. BaseSamples(b) = 3
    BY DEF BaseSamples, MinIsWhite, MinIsBlack, Palette, Mask, Rgb, CieLab, IccLab
  <2> QED BY <2>1, Validated
<1>3. b.photometric \notin {MinIsWhite, MinIsBlack, Palette, Mask, Separated, YCbCr}
  BY DEF MinIsWhite, MinIsBlack, Palette, Mask, Separated, YCbCr, Rgb, CieLab, IccLab
<1>4. ColorChannels(tags) = 3 /\ ExtraCount(tags) = b.spp - 3
  BY <1>1, <1>3 DEF ColorChannels, ExtraCount
<1>5. HasColorModel(tags)
  BY <1>1, <1>2, <1>3, <1>4 DEF HasColorModel
<1> QED BY <1>1, <1>2, <1>3, <1>4, <1>5
        DEF AcceptsColorModel, FreeInks, KnownUnreadable

LEMMA ReadsYCbCr ==
  ASSUME NEW b \in ImageBuilders, ValidImage(b), b.photometric = YCbCr
  PROVE  AcceptsColorModel(ImageTags(b)) <=> ~KnownUnreadable(b)
<1> DEFINE tags == ImageTags(b)
           units == OrElse(EffectiveSubsampling(b), <<1, 1>>)
<1>1. /\ SamplesPerPixel(tags) = b.spp /\ Photometric(tags) = YCbCr
      /\ ExtrasOf(tags) = b.extras /\ PredictorOf(tags) = b.predictor
      /\ SubsamplingOf(tags) = units
  BY Validated, TagsAsSet
<1>2. b.spp \in Nat /\ Len(b.extras) \in Nat /\ Len(b.extras) <= b.spp - 3
  <2>1. BaseSamples(b) = 3
    BY DEF BaseSamples, MinIsWhite, MinIsBlack, Palette, Mask, Rgb, YCbCr, CieLab, IccLab
  <2> QED BY <2>1, Validated
<1>3. YCbCr \notin {MinIsWhite, MinIsBlack, Palette, Mask, Separated}
  BY DEF MinIsWhite, MinIsBlack, Palette, Mask, Separated, YCbCr
<1>4. ColorChannels(tags) = 3 /\ ExtraCount(tags) = b.spp - 3
  BY <1>1, <1>3 DEF ColorChannels, ExtraCount
<1>5. HasColorModel(tags)
  BY <1>1, <1>2, <1>3, <1>4 DEF HasColorModel
<1>6. \/ units = <<1, 1>>
      \/ units = <<2, 2>> /\ b.predictor = NoPredictor
  <2>1. b.subsampling # <<>> =>
          \/ b.subsampling[1] = <<1, 1>>
          \/ b.compression = Jpeg /\ b.subsampling[1] = <<2, 2>>
    BY DEF ValidImage, ValidColorModel, ValidYCbCr
  <2>2. b.compression = Jpeg => b.predictor = NoPredictor
    BY DEF ValidImage, ValidJpeg
  <2> QED BY <2>1, <2>2 DEF EffectiveSubsampling, OrElse
<1>7. ValidSubsampling(tags) <=> (units # <<1, 1>> => b.spp = 3)
  BY <1>1, <1>2, <1>4, <1>6 DEF ValidSubsampling
<1>8. AcceptsColorModel(tags) <=> ValidSubsampling(tags)
  BY <1>1, <1>2, <1>3, <1>4, <1>5 DEF AcceptsColorModel, FreeInks
<1> QED BY <1>2, <1>3, <1>7, <1>8 DEF KnownUnreadable

LEMMA ReadsInks ==
  ASSUME NEW b \in ImageBuilders, ValidImage(b), b.photometric = Separated
  PROVE  AcceptsColorModel(ImageTags(b)) /\ ~KnownUnreadable(b)
<1> DEFINE tags == ImageTags(b)
<1>1. /\ SamplesPerPixel(tags) = b.spp /\ Photometric(tags) = Separated
      /\ ExtrasOf(tags) = b.extras /\ tags.inkSet = b.inkSet
  BY Validated, TagsAsSet
<1>2. Separated \notin {MinIsWhite, MinIsBlack, Palette, Mask, Rgb, YCbCr, CieLab, IccLab}
  BY DEF MinIsWhite, MinIsBlack, Palette, Mask, Separated, Rgb, YCbCr, CieLab, IccLab
<1>3. BaseSamples(b) = SeparatedBaseSamples(b)
  BY <1>2 DEF BaseSamples
<1>4. FreeInks(tags) <=> InkSetOf(b) # Cmyk
  BY <1>1 DEF FreeInks, InkSetOf
<1>5. ColorChannels(tags) = SeparatedBaseSamples(b)
  BY <1>1, <1>2, <1>4 DEF ColorChannels, SeparatedBaseSamples
<1>6. /\ b.spp \in Nat /\ b.spp > 0 /\ Len(b.extras) \in Nat
      /\ SeparatedBaseSamples(b) \in Int /\ SeparatedBaseSamples(b) >= 0
      /\ Len(b.extras) <= b.spp - SeparatedBaseSamples(b)
  BY <1>3, Validated DEF ValidImage, ValidColorModel
<1>7. ExtraCount(tags) = b.spp - SeparatedBaseSamples(b)
  BY <1>1, <1>2, <1>5 DEF ExtraCount
<1>8. HasColorModel(tags)
  BY <1>1, <1>2, <1>5, <1>6 DEF HasColorModel
<1>9. FreeInks(tags) => ColorChannels(tags) # 0 \/ ExtrasOf(tags) # <<>>
  <2>1. b.extras = <<>> => Len(b.extras) = 0
    OBVIOUS
  <2>2. FreeInks(tags) => SeparatedBaseSamples(b) = b.spp - Len(b.extras)
    BY <1>4 DEF SeparatedBaseSamples
  <2> QED BY <1>1, <1>5, <1>6, <2>1, <2>2
<1>10. SamplesPerPixel(tags) = ColorChannels(tags) + ExtraCount(tags)
  BY <1>1, <1>5, <1>6, <1>7
<1> QED BY <1>1, <1>2, <1>8, <1>9, <1>10 DEF AcceptsColorModel, KnownUnreadable

\* The reader accepts the color model of an accepted image but for the known kinds.
LEMMA ColorModelReadable ==
  ASSUME NEW b \in ImageBuilders, ValidImage(b)
  PROVE  AcceptsColorModel(ImageTags(b)) <=> ~KnownUnreadable(b)
<1>1. b.photometric \in Colors
  BY Validated
<1> QED BY <1>1, ReadsOneChannel, ReadsMask, ReadsThreeChannels, ReadsYCbCr, ReadsInks
        DEF Colors

\* And the layout with it.
LEMMA LayoutReadable ==
  ASSUME NEW b \in ImageBuilders, ValidImage(b)
  PROVE  HasRasterLayout(ImageTags(b)) <=> ~KnownUnreadable(b)
<1> DEFINE tags == ImageTags(b)
<1>1. /\ b.width > 0 /\ b.height > 0 /\ b.spp > 0
      /\ b.bits \in {1, 2, 4, 8, 16, 32, 64}
      /\ b.predictor # NoPredictor => b.bits >= 8
  BY Validated
<1>2. b.predictor \in {NoPredictor, Horizontal, FloatingPoint}
      /\ b.format \in {UintFormat, IntFormat, FloatFormat} /\ b.planar \in BOOLEAN
  BY DEF ImageBuilders
<1>3. ValidSampleEncoding(b.format, b.bits)
  <2>1. /\ b.bits \in {1, 2, 4} => b.format = UintFormat
        /\ b.format = FloatFormat => b.bits \in {32, 64}
    BY DEF ValidImage, ValidEncoding, SubByte
  <2> QED BY <1>1, <1>2, <2>1 DEF ValidSampleEncoding
<1>4. /\ tags.width = b.width /\ tags.height = b.height /\ SamplesPerPixel(tags) = b.spp
      /\ Uniform(tags.bits, b.spp) /\ BitsOf(tags) = b.bits
      /\ Uniform(tags.format, b.spp) /\ FormatOf(tags) = b.format
      /\ PlanarOf(tags) \in {1, 2} /\ PredictorOf(tags) = b.predictor
  BY <1>1, <1>2, TagsAsSet
<1>5. HasRasterLayout(tags) <=> AcceptsColorModel(tags)
  BY <1>1, <1>2, <1>3, <1>4 DEF HasRasterLayout
<1> QED BY <1>5, ColorModelReadable

\* What becomes of the pixels of an accepted image that has a layout.
LEMMA PixelsDecodable ==
  ASSUME NEW b \in ImageBuilders, ValidImage(b), HasRasterLayout(ImageTags(b))
  PROVE  DecodesPixels(ImageTags(b)) <=> ~KnownUndecodable(b)
<1> DEFINE tags == ImageTags(b)
<1>1. /\ SamplesPerPixel(tags) = b.spp /\ b.spp \in Nat /\ Len(b.extras) \in Nat
      /\ BitsOf(tags) = b.bits /\ FormatOf(tags) = b.format
      /\ Photometric(tags) = b.photometric /\ tags.inkSet = b.inkSet
      /\ b.bits \in {1, 2, 4, 8, 16, 32, 64}
  BY Validated, TagsAsSet
<1>2. b.format \in {UintFormat, IntFormat, FloatFormat} /\ b.photometric \in Colors
  BY Validated DEF ImageBuilders
<1>3. /\ b.format # UintFormat => b.bits >= 8
      /\ b.photometric = YCbCr => b.format = UintFormat
  BY <1>1 DEF ValidImage, ValidEncoding, SubByte, ValidColorModel, ValidYCbCr
<1>4. IsCmyk(tags) <=> b.photometric = Separated /\ InkSetOf(b) = Cmyk
  BY <1>1 DEF IsCmyk, FreeInks, InkSetOf
<1>5. CASE b.photometric = MinIsBlack
  <2>1. HasDecodedLayout(tags)
    BY <1>1, <1>4, <1>5 DEF HasDecodedLayout, MinIsBlack, YCbCr, Separated
  <2>2. b.format # UintFormat => PassesThrough(tags)
    <3> SUFFICES ASSUME b.format # UintFormat PROVE PassesThrough(tags)
      OBVIOUS
    <3>1. b.bits >= 8 /\ AtLeastAByte(b.bits) = b.bits
      BY <1>1, <1>3 DEF AtLeastAByte
    <3>2. DecodedType(tags) = [format |-> b.format, bits |-> b.bits]
      BY <1>1, <1>5, <3>1 DEF DecodedType, MinIsBlack, Palette
    <3>3. ColorChannels(tags) = 1 /\ ExtraCount(tags) = b.spp - 1
      BY <1>1, <1>5 DEF ColorChannels, ExtraCount, MinIsBlack, Mask
    <3>4. DecodedChannels(tags) = b.spp
      BY <1>1, <1>4, <1>5, <3>3 DEF DecodedChannels, MinIsBlack, Palette, Separated
    <3> QED BY <1>1, <1>5, <3>1, <3>2, <3>4 DEF PassesThrough
  <2>3. ~KnownUndecodable(b)
    BY <1>5 DEF KnownUndecodable, MinIsBlack, MinIsWhite, Separated
  <2> QED BY <1>1, <2>1, <2>2, <2>3 DEF DecodesPixels
<1>6. CASE b.photometric = MinIsWhite
  <2>1. HasDecodedLayout(tags)
    BY <1>1, <1>4, <1>6 DEF HasDecodedLayout, MinIsWhite, YCbCr, Separated
  <2>2. ~PassesThrough(tags)
    BY <1>1, <1>6 DEF PassesThrough, FreeInks, MinIsWhite, MinIsBlack, Rgb, Mask, CieLab,
                      IccLab, YCbCr, Separated
  <2>3. KnownUndecodable(b) <=> b.format # UintFormat
    BY <1>6 DEF KnownUndecodable
  <2> QED BY <1>1, <1>6, <2>1, <2>2, <2>3 DEF DecodesPixels
<1>7. CASE b.photometric \notin {MinIsBlack, MinIsWhite}
  <2>1. DecodesPixels(tags) <=> HasDecodedLayout(tags)
    BY <1>1, <1>7 DEF DecodesPixels
  <2>2. HasDecodedLayout(tags) <=> (IsCmyk(tags) => b.format = UintFormat)
    BY <1>1, <1>3 DEF HasDecodedLayout
  <2>3. KnownUndecodable(b) <=> b.format # UintFormat /\ IsCmyk(tags)
    BY <1>4, <1>7 DEF KnownUndecodable
  <2> QED BY <2>1, <2>2, <2>3
<1> QED BY <1>5, <1>6, <1>7

----------------------------------------------------------------------------
(* Setters keep the builder a builder.                                     *)

LEMMA Setters ==
  ASSUME NEW b \in ImageBuilders
  PROVE  /\ \A t \in SampleTypes : SetSampleType(b, t) \in ImageBuilders
         /\ \A c \in Nat : SetCompression(b, c) \in ImageBuilders
         /\ \A a \in Nat : SetLerc(b, a) \in ImageBuilders
         /\ \A q \in Nat : SetJpeg(b, q) \in ImageBuilders
         /\ \A rows \in Nat : SetStrips(b, rows) \in ImageBuilders
         /\ \A w, h \in Nat : SetTiles(b, w, h) \in ImageBuilders
<1>1. \A t \in SampleTypes : SetSampleType(b, t) \in ImageBuilders
  <2>1. \A t \in SampleTypes :
          t.bits \in Nat /\ t.format \in {UintFormat, IntFormat, FloatFormat}
    BY DEF SampleTypes
  <2> QED BY <2>1 DEF SetSampleType, ImageBuilders
<1>2. <<>> \in Option(Nat) /\ \A n \in Nat : <<n>> \in Option(Nat)
  BY Options
<1>3. /\ Lerc \in Nat /\ Jpeg \in Nat
      /\ NoPredictor \in {NoPredictor, Horizontal, FloatingPoint}
  BY DEF Lerc, Jpeg
<1>4. \A c \in Nat : SetCompression(b, c) \in ImageBuilders
  BY <1>2, <1>3, ZenonT(60) DEF SetCompression, ImageBuilders
<1>5. \A a \in Nat : SetLerc(b, a) \in ImageBuilders
  BY <1>2, <1>3 DEF SetLerc, ImageBuilders
<1>6. \A q \in Nat : SetJpeg(b, q) \in ImageBuilders
  BY <1>2, <1>3 DEF SetJpeg, ImageBuilders
<1>7. \A rows \in Nat : SetStrips(b, rows) \in ImageBuilders
  BY DEF SetStrips, ImageBuilders
<1>8. \A w, h \in Nat : SetTiles(b, w, h) \in ImageBuilders
  BY DEF SetTiles, ImageBuilders
<1> QED BY <1>1, <1>4, <1>5, <1>6, <1>7, <1>8

\* The builder a stored image stands next to, which is valid.
LEMMA Smallest ==
  NewBuilder(1, 1) \in ImageBuilders /\ ValidImage(NewBuilder(1, 1))
<1> DEFINE b == NewBuilder(1, 1)
<1>1. /\ b.width = 1 /\ b.height = 1 /\ b.spp = 1 /\ b.bits = 8
      /\ b.format = UintFormat /\ b.compression = Uncompressed
      /\ b.predictor = NoPredictor /\ b.photometric = MinIsBlack
      /\ b.extras = <<>> /\ b.colorMap = <<>> /\ b.inkSet = <<>>
      /\ b.subsampling = <<>> /\ b.positioning = <<>> /\ b.layout = "strips"
      /\ b.blockHeight = 1 /\ b.extra = <<>> /\ b.deflateLevel = <<>>
  BY DEF NewBuilder
<1>2. b \in ImageBuilders
  <2>1. /\ <<>> \in Option(Nat) /\ <<>> \in Option(ColorMaps)
        /\ <<>> \in Option(Nat \X Nat)
    BY Options
  <2>2. <<>> \in Seq(Nat) /\ <<>> \in Seq(Tag)
    BY EmptySeq
  <2>3. Uncompressed \in Nat
    BY DEF Uncompressed
  <2> QED BY <2>1, <2>2, <2>3 DEF NewBuilder, ImageBuilders
<1>3. Validate(b)
  <2>1. ValidateExtraTags(b)
    BY <1>1 DEF ValidateExtraTags
  <2>2. CheckedLayout(b)
    BY <1>1 DEF CheckedLayout
  <2> QED BY <1>1, <2>1, <2>2 DEF Validate
<1>4. ValidEncoding(b)
  BY <1>1 DEF ValidEncoding, SubByte, Uncompressed, UintFormat, FloatFormat,
              NoPredictor, Horizontal, FloatingPoint
<1>5. ValidColorModel(b)
  <2>1. Len(b.extras) = 0 /\ BaseSamples(b) = 1
    BY <1>1, EmptySeq DEF BaseSamples
  <2> QED BY <1>1, <2>1 DEF ValidColorModel, ValidExtraSamples, MinIsBlack, Palette,
                            Separated, YCbCr
<1> QED BY <1>1, <1>2, <1>3, <1>4, <1>5 DEF ValidImage, Uncompressed, Jpeg

----------------------------------------------------------------------------
(* The inductive invariant.                                                *)

\* The variables hold what they are declared to.
TypeInv == builder \in ImageBuilders /\ phase \in Phases

\* Beyond add_image there are only images that were validated.
AcceptedInv == phase \notin {"building", "refused"} => ValidImage(builder)

\* The phase says what the reader found in the IFD.
OpenedInv ==
  /\ phase = "unreadable" => ~HasRasterLayout(ifd[1])
  /\ phase \in Opened \ {"unreadable"} => HasRasterLayout(ifd[1])
  /\ phase = "decoded" => DecodesPixels(ifd[1])
  /\ phase = "undecodable" => ~DecodesPixels(ifd[1])

\* What write_block refused it has no encoding for.
RefusalsInv ==
  /\ phase \in {"building", "refused"} => refusals = {}
  /\ \A type \in refusals : type \in SampleTypes /\ ~Encodes(builder, type)

ImageInv == TypeInv /\ AcceptedInv /\ OpenedInv /\ RefusalsInv

LEMMA InitImageInv == Init => ImageInv
<1> SUFFICES ASSUME Init PROVE ImageInv
  OBVIOUS
<1>1. TypeInv
  BY CallsAssumption, Smallest DEF Init, TypeInv, Phases
<1>2. AcceptedInv
  BY Smallest DEF Init, AcceptedInv
<1>3. OpenedInv
  BY DEF Init, OpenedInv, Opened
<1>4. RefusalsInv
  BY DEF Init, RefusalsInv
<1> QED BY <1>1, <1>2, <1>3, <1>4 DEF ImageInv

\* A setter call on a builder under configuration.
LEMMA CallKeepsInv ==
  ASSUME NEW configured \in ImageBuilders, ImageInv, Call(configured)
  PROVE  ImageInv'
<1>1. phase = "building" /\ phase' = "building" /\ refusals' = {}
      /\ builder' = configured
  BY DEF Call, ImageInv, RefusalsInv
<1> QED BY <1>1 DEF ImageInv, TypeInv, AcceptedInv, OpenedInv, RefusalsInv, Phases, Opened

LEMMA ConfigureKeepsInv ==
  ASSUME ImageInv, Configure
  PROVE  ImageInv'
<1>1. builder \in ImageBuilders
  BY DEF ImageInv, TypeInv
<1>2. CASE CallSampleType
  BY <1>1, <1>2, Setters, CallKeepsInv DEF CallSampleType
<1>3. CASE CallCompression
  <2>1. \A c \in Compressions : SetCompression(builder, c) \in ImageBuilders
    BY <1>1, Setters, CallsAssumption
  <2> QED BY <1>3, <2>1, CallKeepsInv DEF CallCompression
<1>4. CASE CallStrips
  <2>1. \A rows \in {0, 7} : SetStrips(builder, rows) \in ImageBuilders
    BY <1>1, Setters
  <2> QED BY <1>4, <2>1, CallKeepsInv DEF CallStrips
<1>5. CASE CallTiles
  <2>1. \A side \in {8, 16} : SetTiles(builder, side, 16) \in ImageBuilders
    BY <1>1, Setters
  <2> QED BY <1>5, <2>1, CallKeepsInv DEF CallTiles
<1>6. CASE CallLercOptions
  <2>1. \A a \in 0..2 : SetLerc(builder, a) \in ImageBuilders
    BY <1>1, Setters
  <2> QED BY <1>6, <2>1, CallKeepsInv DEF CallLercOptions
<1>7. CASE CallJpegOptions
  <2>1. \A q \in {0, 75, 101} : SetJpeg(builder, q) \in ImageBuilders
    BY <1>1, Setters
  <2> QED BY <1>7, <2>1, CallKeepsInv DEF CallJpegOptions
<1>8. CASE CallBits
  <2>1. \A n \in Nat : [builder EXCEPT !.bits = n] \in ImageBuilders
    BY <1>1 DEF ImageBuilders
  <2> QED BY <1>8, <2>1, CallKeepsInv DEF CallBits
<1>9. CASE CallSamples
  <2>1. \A n \in Nat : [builder EXCEPT !.spp = n] \in ImageBuilders
    BY <1>1 DEF ImageBuilders
  <2> QED BY <1>9, <2>1, CallKeepsInv DEF CallSamples
<1>10. CASE CallPredictor
  <2> DEFINE P == {NoPredictor, Horizontal, FloatingPoint}
  <2>2. Predictors \subseteq P
    BY CallsAssumption
  <2>3. \A p \in P : [builder EXCEPT !.predictor = p] \in ImageBuilders
    BY <1>1 DEF ImageBuilders
  <2>1. \A p \in Predictors : [builder EXCEPT !.predictor = p] \in ImageBuilders
    BY ONLY <2>2, <2>3
  <2> QED BY <1>10, <2>1, CallKeepsInv DEF CallPredictor
<1>11. CASE CallDeflateLevel
  <2>2. Levels \subseteq Nat /\ \A n \in Nat : <<n>> \in Option(Nat)
    BY CallsAssumption, Options
  <2>3. \A o \in Option(Nat) : [builder EXCEPT !.deflateLevel = o] \in ImageBuilders
    BY <1>1 DEF ImageBuilders
  <2>1. \A n \in Levels : [builder EXCEPT !.deflateLevel = <<n>>] \in ImageBuilders
    BY <2>2, <2>3
  <2> QED BY <1>11, <2>1, CallKeepsInv DEF CallDeflateLevel
<1>12. CASE CallPhotometric
  <2> DEFINE P == {MinIsWhite, MinIsBlack, Rgb, Palette, Mask, Separated, YCbCr, CieLab, IccLab}
  <2>2. Photometrics \subseteq P
    BY CallsAssumption
  <2>3. \A p \in P : [builder EXCEPT !.photometric = p] \in ImageBuilders
    BY <1>1, ZenonT(60) DEF ImageBuilders
  <2>1. \A p \in Photometrics : [builder EXCEPT !.photometric = p] \in ImageBuilders
    BY ONLY <2>2, <2>3
  <2> QED BY <1>12, <2>1, CallKeepsInv DEF CallPhotometric
<1>13. CASE CallExtraSamples
  <2>1. \A e \in ExtraLists : [builder EXCEPT !.extras = e] \in ImageBuilders
    BY <1>1, CallsAssumption, ZenonT(60) DEF ImageBuilders
  <2> QED BY <1>13, <2>1, CallKeepsInv DEF CallExtraSamples
<1>14. CASE CallColorMap
  <2>1. \A m \in Palettes : [builder EXCEPT !.colorMap = <<m>>] \in ImageBuilders
    BY <1>1, CallsAssumption, Options, SMTT(30) DEF ImageBuilders
  <2> QED BY <1>14, <2>1, CallKeepsInv DEF CallColorMap
<1>15. CASE CallInkSet
  <2>1. \A k \in InkSets : [builder EXCEPT !.inkSet = <<k>>] \in ImageBuilders
    BY <1>1, CallsAssumption, Options, ZenonT(60) DEF ImageBuilders
  <2> QED BY <1>15, <2>1, CallKeepsInv DEF CallInkSet
<1>16. CASE CallSubsampling
  <2>1. \A k \in Subsamplings : <<k>> \in Option(Nat \X Nat)
    BY CallsAssumption, Options
  <2>2. \A k \in Subsamplings : [builder EXCEPT !.subsampling = <<k>>] \in ImageBuilders
    BY <1>1, <2>1 DEF ImageBuilders
  <2> QED BY <1>16, <2>2, CallKeepsInv DEF CallSubsampling
<1>17. CASE CallPositioning
  <2>1. \A n \in Nat : [builder EXCEPT !.positioning = <<n>>] \in ImageBuilders
    BY <1>1, Options DEF ImageBuilders
  <2> QED BY <1>17, <2>1, CallKeepsInv DEF CallPositioning
<1>18. CASE CallPlanar
  <2>1. \A p \in BOOLEAN : [builder EXCEPT !.planar = p] \in ImageBuilders
    BY <1>1 DEF ImageBuilders
  <2> QED BY <1>18, <2>1, CallKeepsInv DEF CallPlanar
<1> QED BY <1>2, <1>3, <1>4, <1>5, <1>6, <1>7, <1>8, <1>9, <1>10, <1>11, <1>12, <1>13,
           <1>14, <1>15, <1>16, <1>17, <1>18 DEF Configure

LEMMA NextImageInv == ImageInv /\ [Next]_vars => ImageInv'
<1> SUFFICES ASSUME ImageInv, [Next]_vars PROVE ImageInv'
  OBVIOUS
<1> USE DEF ImageInv, TypeInv, AcceptedInv, OpenedInv, RefusalsInv, Phases, Opened
<1>1. CASE Configure
  BY <1>1, ConfigureKeepsInv
<1>2. CASE AddImage
  BY <1>2 DEF AddImage
<1>3. ASSUME phase = "writing",
             NEW i \in BlockIndices, NEW t \in SampleTypes, WriteBlock(i, t)
      PROVE  ImageInv'
  <2>1. phase' = "writing" /\ builder' = builder
    BY <1>3 DEF WriteBlock
  <2>2. \A type \in refusals' : type \in SampleTypes /\ ~Encodes(builder, type)
    BY <1>3 DEF WriteBlock
  <2> QED BY <1>3, <2>1, <2>2
<1>4. CASE Open
  BY <1>4 DEF Open
<1>5. ASSUME NEW i \in DOMAIN blocks, ReadBlock(i)
      PROVE  ImageInv'
  BY <1>5 DEF ReadBlock
<1>6. CASE DecodePixels
  BY <1>6 DEF DecodePixels
<1>7. CASE UNCHANGED vars
  BY <1>7 DEF vars
<1> QED BY <1>1, <1>2, <1>3, <1>4, <1>5, <1>6, <1>7 DEF Next

\* Whatever is configured, written and read: the phase tells the truth about the
\* image, and only validated images are written.
THEOREM ImageInvariant == Spec => []ImageInv
<1> QED BY InitImageInv, NextImageInv, PTL DEF Spec

\* What the writer accepts the reader reads, and decodes, except for exactly the
\* known kinds (the validations of builder.rs and of ifd.rs agree).
THEOREM AcceptedImagesAreReadable == Spec => []AcceptedIsReadable
<1>1. ImageInv => AcceptedIsReadable
  <2> SUFFICES ASSUME ImageInv, Own, phase \in Opened
               PROVE  /\ phase = "unreadable" <=> KnownUnreadable(builder)
                      /\ phase = "decoded" => ~KnownUndecodable(builder)
                      /\ phase = "undecodable" => KnownUndecodable(builder)
    BY DEF AcceptedIsReadable, Opened
  <2>1. builder \in ImageBuilders /\ ValidImage(builder)
    BY DEF ImageInv, TypeInv, AcceptedInv, Opened
  <2>2. ifd[1] = ImageTags(builder)
    BY DEF Own
  <2>3. phase = "unreadable" <=> KnownUnreadable(builder)
    BY <2>1, <2>2, LayoutReadable DEF ImageInv, OpenedInv
  <2>4. phase \in {"decoded", "undecodable"} =>
          /\ HasRasterLayout(ifd[1])
          /\ phase = "decoded" <=> DecodesPixels(ifd[1])
    BY DEF ImageInv, OpenedInv, Opened
  <2> QED BY <2>1, <2>2, <2>3, <2>4, PixelsDecodable
<1> QED BY <1>1, ImageInvariant, PTL

\* write_block encodes the declared sample type of every image that validates, but
\* 64-bit integers with LERC.
THEOREM DeclaredTypeIsEncoded == Spec => []RefusalsAreKnown
<1>1. ImageInv => RefusalsAreKnown
  <2> SUFFICES ASSUME ImageInv, NEW type \in refusals, type = DeclaredType(builder)
               PROVE  /\ builder.compression = Lerc
                      /\ builder.bits = 64 /\ builder.format # FloatFormat
    BY DEF RefusalsAreKnown
  <2>1. builder \in ImageBuilders /\ ValidImage(builder) /\ ~Encodes(builder, type)
    BY DEF ImageInv, TypeInv, AcceptedInv, RefusalsInv
  <2>2. builder.bits \in {1, 2, 4, 8, 16, 32, 64}
    BY <2>1, Validated
  <2>3. type.format = builder.format
        /\ type.bits = IF builder.bits < 8 THEN 8 ELSE builder.bits
    BY DEF DeclaredType, AtLeastAByte
  <2>4. CASE builder.compression = Lerc
    BY <2>1, <2>2, <2>3, <2>4 DEF Encodes, EncodesLerc, ValidImage, ValidEncoding, SubByte
  <2>5. CASE builder.compression # Lerc /\ builder.bits < 8
    <3>1. /\ builder.format = UintFormat /\ builder.predictor = NoPredictor
          /\ builder.compression # Jpeg
          /\ builder.compression \in {Uncompressed, Lzw, Deflate, DeflateOld, Jpeg, Zstd}
      BY <2>1, <2>2, <2>5 DEF ValidImage, ValidEncoding, ValidJpeg, SubByte
    <3> QED BY <2>1, <2>3, <2>5, <3>1 DEF Encodes, EncodesSubByte
  <2>6. CASE builder.compression # Lerc /\ builder.bits >= 8
    <3>1. /\ builder.predictor = Horizontal => builder.format # FloatFormat
          /\ builder.predictor = FloatingPoint => builder.format = FloatFormat
          /\ builder.compression = Jpeg =>
               /\ builder.bits = 8 /\ builder.format = UintFormat
               /\ BlockSamplesPerPixel(builder) \in {1, 3}
      BY <2>1 DEF ValidImage, ValidEncoding, ValidJpeg
    <3> QED BY <2>1, <2>2, <2>3, <2>6, <3>1 DEF Encodes, EncodesBytes, EncodesJpeg
  <2> QED BY <2>2, <2>4, <2>5, <2>6
<1> QED BY <1>1, ImageInvariant, PTL

----------------------------------------------------------------------------
(* Block geometry.                                                         *)

LEMMA SmallModulus ==
  ASSUME NEW i \in Nat, NEW n \in Nat, i < n
  PROVE  i % n = i
  OBVIOUS

\* An accepted image has a whole number of blocks per plane.
LEMMA BlocksAreCounted ==
  ASSUME NEW b \in ImageBuilders, ValidImage(b)
  PROVE  BlocksPerPlane(b) \in Int
<1>1. /\ b.width \in Nat /\ b.height \in Nat /\ b.blockHeight \in Nat /\ b.blockWidth \in Nat
      /\ b.layout \in {"strips", "tiles"}
  BY DEF ImageBuilders
<1>2. b.blockHeight > 0 /\ (b.layout = "tiles" => b.blockWidth > 0)
  BY <1>1 DEF ValidImage, Validate, CheckedLayout
<1>3. DivCeil(b.height, b.blockHeight) \in Int
  BY <1>1, <1>2 DEF DivCeil
<1>4. b.layout = "tiles" => DivCeil(b.width, b.blockWidth) \in Int
  BY <1>1, <1>2 DEF DivCeil
<1> QED BY <1>1, <1>3, <1>4 DEF BlocksPerPlane

LEMMA GeometryAgrees ==
  ASSUME NEW b \in ImageBuilders, ValidImage(b)
  PROVE  LET tags == ImageTags(b)
         IN /\ PlaneBlocks(tags) = BlocksPerPlane(b)
            /\ BlockSamples(tags) = BlockSamplesPerPixel(b)
            /\ BlockWidth(tags) = BlockRowWidth(b)
            /\ \A i \in 0..CheckedBlockCount(b) - 1 :
                 BlockRows(tags, i) = CheckedBlockHeight(b, i)
<1> DEFINE tags == ImageTags(b)
<1>1. /\ tags.width = b.width /\ tags.height = b.height /\ SamplesPerPixel(tags) = b.spp
      /\ PlanarOf(tags) = IF b.planar THEN 2 ELSE 1
  BY Validated, TagsAsSet
<1>2. b.layout \in {"strips", "tiles"} /\ b.planar \in BOOLEAN
  BY DEF ImageBuilders
<1>3. tags.tile = IF b.layout = "tiles" THEN <<<<b.blockWidth, b.blockHeight>>>> ELSE <<>>
  BY DEF ImageTags
<1>4. b.layout = "strips" => RowsPerStrip(tags) = b.blockHeight
  BY DEF RowsPerStrip, ImageTags, OrElse
<1>5. PlaneBlocks(tags) = BlocksPerPlane(b)
  BY <1>1, <1>2, <1>3, <1>4 DEF PlaneBlocks, BlocksPerPlane, IsTiled
<1>6. BlockSamples(tags) = BlockSamplesPerPixel(b)
  BY <1>1, <1>2 DEF BlockSamples, BlockSamplesPerPixel
<1>7. BlockWidth(tags) = BlockRowWidth(b)
  BY <1>1, <1>2, <1>3 DEF BlockWidth, BlockRowWidth, IsTiled
<1>8. ASSUME NEW i \in 0..CheckedBlockCount(b) - 1
      PROVE  BlockRows(tags, i) = CheckedBlockHeight(b, i)
  <2>1. i % PlaneBlocks(tags) = PlaneIndex(b, i)
    <3>1. CASE b.planar
      BY <1>5, <3>1 DEF PlaneIndex
    <3>2. CASE ~b.planar
      <4>1. BlocksPerPlane(b) \in Int /\ i \in 0..BlocksPerPlane(b) - 1
        BY <3>2, BlocksAreCounted DEF CheckedBlockCount
      <4>2. BlocksPerPlane(b) \in Nat /\ i \in Nat /\ i < BlocksPerPlane(b)
        BY <4>1
      <4>3. i % BlocksPerPlane(b) = i
        BY <4>2, SmallModulus
      <4> QED BY <1>5, <3>2, <4>3 DEF PlaneIndex
    <3> QED BY <3>1, <3>2
  <2> QED BY <1>1, <1>2, <1>3, <1>4, <2>1 DEF BlockRows, CheckedBlockHeight, IsTiled
<1> QED BY <1>5, <1>6, <1>7, <1>8

\* Declared extra samples keep their meaning.
LEMMA ExtrasAgree ==
  ASSUME NEW b \in ImageBuilders, ValidImage(b), HasRasterLayout(ImageTags(b)),
         b.photometric # Mask
  PROVE  \A i \in DOMAIN b.extras : ResolvedExtras(ImageTags(b))[i] = b.extras[i]
<1> DEFINE tags == ImageTags(b)
<1>1. SamplesPerPixel(tags) = b.spp /\ Photometric(tags) = b.photometric
      /\ ExtrasOf(tags) = b.extras /\ b.spp \in Nat
  BY Validated, TagsAsSet
<1>2. b.extras \in Seq(Nat) /\ Len(b.extras) \in Nat
      /\ DOMAIN b.extras = 1..Len(b.extras)
  BY LenProperties DEF ImageBuilders
<1>3. ExtraCount(tags) = b.spp - ColorChannels(tags)
  BY <1>1 DEF ExtraCount
<1>4. Len(b.extras) <= ExtraCount(tags) /\ ColorChannels(tags) \in Int
  <2>1. Len(b.extras) <= b.spp - ColorChannels(tags)
    BY <1>1 DEF HasRasterLayout, AcceptsColorModel, HasColorModel
  <2>2. ColorChannels(tags) \in Int
    BY <1>1, <1>2 DEF ColorChannels
  <2> QED BY <1>3, <2>1, <2>2
<1>5. ExtraCount(tags) \in Int
  BY <1>1, <1>3, <1>4
<1>6. ASSUME NEW i \in DOMAIN b.extras
      PROVE  ResolvedExtras(tags)[i] = b.extras[i]
  <2>1. i \in 1..ExtraCount(tags) /\ i <= Len(b.extras)
    BY <1>2, <1>4, <1>5
  <2> QED BY <1>1, <2>1 DEF ResolvedExtras
<1> QED BY <1>6

\* Writer and reader cut every accepted image into the same blocks and give its
\* samples the same meaning (builder.rs against tags.rs and the decoders).
THEOREM LayoutsAgree == Spec => []LayoutAgrees
<1>1. ImageInv => LayoutAgrees
  <2> SUFFICES ASSUME ImageInv, Own, phase = "reading" PROVE LayoutAgrees
    BY DEF LayoutAgrees
  <2>1. builder \in ImageBuilders /\ ValidImage(builder)
        /\ ifd[1] = ImageTags(builder) /\ HasRasterLayout(ImageTags(builder))
    BY DEF ImageInv, TypeInv, AcceptedInv, OpenedInv, Opened, Own
  <2>2. builder.planar \in BOOLEAN /\ builder.spp > 0
    BY <2>1, Validated DEF ImageBuilders
  <2>3. RasterLayout(ifd[1]) =
          [width |-> builder.width, height |-> builder.height, spp |-> builder.spp,
           bits |-> builder.bits, format |-> builder.format,
           planar |-> builder.planar, predictor |-> builder.predictor]
    <3>1. (PlanarOf(ifd[1]) = 2) = builder.planar
      BY <2>1, <2>2, TagsAsSet
    <3> QED BY <2>1, <2>2, <3>1, TagsAsSet DEF RasterLayout
  <2> QED BY <2>1, <2>3, GeometryAgrees, ExtrasAgree DEF LayoutAgrees, BlockIndices
<1> QED BY <1>1, ImageInvariant, PTL

----------------------------------------------------------------------------
(* Blocks of samples.                                                      *)

\* What rounding up means.
LEMMA RoundedUp ==
  ASSUME NEW a \in Nat, NEW k \in Nat, k > 0, a > 0
  PROVE  /\ DivCeil(a, k) \in Nat
         /\ \A p \in Nat : p < DivCeil(a, k) => p * k < a
<1> DEFINE q == (a + k - 1) \div k
<1>1. q \in Nat
  OBVIOUS
<1>2. q * k <= a + k - 1
  OBVIOUS
<1>3. ASSUME NEW p \in Nat, p < q
      PROVE  p * k < a
  <2> HIDE DEF q
  <2>1. PICK d \in Nat : q = p + 1 + d
    <3>1. q - p - 1 \in Nat /\ q = p + 1 + (q - p - 1)
      BY <1>1, <1>3
    <3> QED BY <3>1
  <2>2. q * k = p * k + k + d * k
    BY <1>1, <2>1
  <2>3. d * k \in Nat /\ p * k \in Nat
    BY <2>1
  <2> QED BY <1>2, <2>2, <2>3
<1> QED BY <1>1, <1>3 DEF DivCeil

\* No block of an accepted image is empty.
LEMMA BlocksHaveSamples ==
  ASSUME NEW b \in ImageBuilders, ValidImage(b), NEW i \in 0..CheckedBlockCount(b) - 1
  PROVE  /\ CheckedBlockHeight(b, i) \in Nat /\ CheckedBlockHeight(b, i) > 0
         /\ BlockRowWidth(b) \in Nat /\ BlockRowWidth(b) > 0
         /\ BlockSamplesPerPixel(b) \in Nat /\ BlockSamplesPerPixel(b) > 0
<1>1. /\ b.width \in Nat /\ b.height \in Nat /\ b.blockHeight \in Nat /\ b.blockWidth \in Nat
      /\ b.spp \in Nat /\ b.layout \in {"strips", "tiles"} /\ b.planar \in BOOLEAN
  BY DEF ImageBuilders
<1>2. /\ b.width > 0 /\ b.height > 0 /\ b.spp > 0 /\ b.blockHeight > 0
      /\ b.layout = "tiles" => b.blockWidth > 0
  BY <1>1 DEF ValidImage, Validate, CheckedLayout
<1>3. CASE b.layout = "tiles"
  BY <1>1, <1>2, <1>3 DEF CheckedBlockHeight, BlockRowWidth, BlockSamplesPerPixel
<1>4. CASE b.layout = "strips"
  <2>1. BlocksPerPlane(b) = DivCeil(b.height, b.blockHeight) /\ BlocksPerPlane(b) \in Nat
    BY <1>1, <1>2, <1>4, RoundedUp DEF BlocksPerPlane
  <2>2. PlaneIndex(b, i) \in Nat /\ PlaneIndex(b, i) < BlocksPerPlane(b)
    <3>1. CASE b.planar
      <4>1. i \in Nat /\ BlocksPerPlane(b) # 0
        BY <1>1, <2>1, <3>1 DEF CheckedBlockCount
      <4> QED BY <2>1, <3>1, <4>1 DEF PlaneIndex
    <3>2. CASE ~b.planar
      BY <2>1, <3>2 DEF PlaneIndex, CheckedBlockCount
    <3> QED BY <3>1, <3>2
  <2>3. PlaneIndex(b, i) * b.blockHeight < b.height
        /\ PlaneIndex(b, i) * b.blockHeight \in Nat
    BY <1>1, <1>2, <2>1, <2>2, RoundedUp
  <2>4. CheckedBlockHeight(b, i) \in Nat /\ CheckedBlockHeight(b, i) > 0
    BY <1>1, <1>2, <1>4, <2>3 DEF CheckedBlockHeight
  <2> QED BY <1>1, <1>2, <1>4, <2>4 DEF BlockRowWidth, BlockSamplesPerPixel
<1> QED BY <1>1, <1>3, <1>4

\* Blocks of as many samples are as long only if the samples are as wide, and longer
\* only if they are wider.
LEMMA LengthTellsWidth ==
  ASSUME NEW rows \in Nat, NEW width \in Nat, NEW samples \in Nat,
         rows > 0, width > 0, samples > 0,
         NEW x \in {1, 2, 4, 8}, NEW y \in {1, 2, 4, 8}
  PROVE  /\ rows * (width * samples * x) = (rows * width * samples) * x
         /\ (rows * width * samples) * x = (rows * width * samples) * y <=> x = y
         /\ (rows * width * samples) * x > (rows * width * samples) * y <=> x > y
         /\ (rows * width * samples) * x \in Nat /\ (rows * width * samples) * x # 0
<1> DEFINE count == rows * width * samples
<1>1. width * samples \in Nat /\ width * samples > 0
  OBVIOUS
<1>2. rows * (width * samples) \in Nat /\ rows * (width * samples) > 0
  BY <1>1
<1>3. count = rows * (width * samples)
  OBVIOUS
<1>4. count \in Nat /\ count > 0
  BY <1>2, <1>3
<1>5. rows * (width * samples * x) = count * x
  OBVIOUS
<1>6. /\ count * x = count * y <=> x = y
      /\ count * x > count * y <=> x > y
      /\ count * x \in Nat /\ count * x # 0
  <2> HIDE DEF count
  <2> QED BY <1>4
<1> QED BY <1>5, <1>6

\* A block the writer encoded is read back exactly if its type fits, or LZW cuts it
\* off unnoticed; if it fits, its payload is never too long.
LEMMA BlockComesBack ==
  ASSUME NEW b \in ImageBuilders, ValidImage(b), NEW i \in 0..CheckedBlockCount(b) - 1,
         NEW type \in SampleTypes, Encodes(b, type)
  PROVE  LET tags  == ImageTags(b)
             fits == IF b.compression = Lerc THEN type = DeclaredType(b)
                     ELSE type.bits = DeclaredType(b).bits
             all  == CheckedBlockSampleCount(b, i) * (DeclaredType(b).bits \div 8)
             cut  == /\ b.compression = Lzw
                     /\ type.bits > DeclaredType(b).bits
                     /\ LzwCuts(all)
         IN /\ DecodesBlock(tags, i, EncodedBlock(b, i, type)) <=> fits \/ cut
            /\ DecodedLen(tags, i) = all
            /\ fits => ~PayloadMayExceed(tags, i, EncodedBlock(b, i, type))
<1> DEFINE tags     == ImageTags(b)
           block   == EncodedBlock(b, i, type)
           rows    == CheckedBlockHeight(b, i)
           width   == BlockRowWidth(b)
           samples == BlockSamplesPerPixel(b)
           all     == CheckedBlockSampleCount(b, i) * (DeclaredType(b).bits \div 8)
<1>1. /\ rows \in Nat /\ rows > 0 /\ width \in Nat /\ width > 0
      /\ samples \in Nat /\ samples > 0
  BY BlocksHaveSamples
<1>2. BlockRows(tags, i) = rows /\ BlockWidth(tags) = width /\ BlockSamples(tags) = samples
  BY GeometryAgrees
<1>3. /\ BitsOf(tags) = b.bits /\ FormatOf(tags) = b.format
      /\ CompressionOf(tags) = b.compression /\ PredictorOf(tags) = b.predictor
      /\ Photometric(tags) = b.photometric
      /\ SubsamplingOf(tags) = OrElse(EffectiveSubsampling(b), <<1, 1>>)
      /\ b.bits \in {1, 2, 4, 8, 16, 32, 64}
  BY Validated, TagsAsSet
<1>4. /\ type.bits \in {8, 16, 32, 64} /\ b.format \in {UintFormat, IntFormat, FloatFormat}
      /\ type = [bits |-> type.bits, format |-> type.format]
  BY DEF SampleTypes, ImageBuilders
<1>5. ~Subsampled(tags)
  <2>1. b.photometric = YCbCr /\ b.subsampling # <<>> =>
          b.subsampling[1] = <<1, 1>> \/ b.compression = Jpeg
    BY DEF ValidImage, ValidColorModel, ValidYCbCr
  <2> QED BY <1>3, <2>1 DEF Subsampled, EffectiveSubsampling, OrElse
<1>6. CheckedBlockSampleCount(b, i) = rows * width * samples
  BY DEF CheckedBlockSampleCount
<1>7. /\ block.width = width /\ block.rows = rows /\ block.samples = samples
      /\ block.type = type /\ block.additional = OrElse(b.lerc, 0)
      /\ block.len = PlainLen(b, i, type)
  BY DEF EncodedBlock
<1>8. CASE b.bits < 8
  <2>1. type.bits = 8 /\ b.compression # Lerc /\ b.compression # Jpeg
        /\ b.compression \in {Uncompressed, Lzw, Deflate, DeflateOld, Zstd}
        /\ b.predictor = NoPredictor
    <3>1. b.compression # Lerc
      BY <1>3, <1>8 DEF ValidImage, ValidEncoding, SubByte
    <3>2. EncodesSubByte(b, type)
      BY <1>8, <3>1 DEF Encodes
    <3> QED BY <3>1, <3>2 DEF EncodesSubByte, Uncompressed, Lzw, Deflate, DeflateOld, Zstd,
                            Jpeg
  <2>2. DeclaredType(b).bits = 8
    BY <1>8 DEF DeclaredType, AtLeastAByte
  <2>3. ExpectedEncodedLen(tags, i) = rows * PackedRowBytes(width, samples, b.bits)
    BY <1>2, <1>3, <1>5, <1>8 DEF ExpectedEncodedLen, BlockRowBytes
  <2>4. block.len = rows * PackedRowBytes(width, samples, b.bits)
    BY <1>7, <1>8 DEF PlainLen
  <2>5. DecodesBlock(tags, i, block)
    BY <1>3, <2>1, <2>3, <2>4 DEF DecodesBlock, NoPredictor, FloatingPoint
  <2>6. DecodedLen(tags, i) = width * samples * rows
    BY <1>2, <1>3, <1>5, <1>8 DEF DecodedLen
  <2>7. width * samples * rows = rows * width * samples * 1
    BY <1>1
  <2>8. PackedRowBytes(width, samples, b.bits) \in Nat
    <3>1. width * samples * b.bits \in Nat
      BY <1>1, <1>3
    <3> QED BY <3>1 DEF PackedRowBytes, DivCeil
  <2>9. block.len \in Nat /\ block.len = ExpectedEncodedLen(tags, i)
    <3>1. rows * PackedRowBytes(width, samples, b.bits) \in Nat
      BY <1>1, <2>8
    <3> QED BY <2>3, <2>4, <3>1
  <2>10. ~PayloadMayExceed(tags, i, block)
    BY <2>9 DEF PayloadMayExceed, PayloadLimit
  <2> QED BY <1>6, <2>1, <2>2, <2>5, <2>6, <2>7, <2>10
<1>9. CASE b.bits >= 8
  <2> DEFINE x == type.bits \div 8
             y == b.bits \div 8
  <2>1. /\ x \in {1, 2, 4, 8} /\ y \in {1, 2, 4, 8}
        /\ (x = y <=> type.bits = b.bits) /\ (x > y <=> type.bits > b.bits)
        /\ DivCeil(b.bits, 8) = y
    BY <1>3, <1>4, <1>9 DEF DivCeil
  <2>2. DeclaredType(b) = [bits |-> b.bits, format |-> b.format]
    BY <1>3, <1>9 DEF DeclaredType, AtLeastAByte
  <2>3. ExpectedEncodedLen(tags, i) = rows * (width * samples * y)
    BY <1>2, <1>3, <1>5, <1>9, <2>1 DEF ExpectedEncodedLen, BlockRowBytes, BytesPerSample
  <2>4. block.len = (rows * width * samples) * x
    BY <1>3, <1>6, <1>7, <1>9 DEF PlainLen
  <2> HIDE DEF x, y
  <2>5. /\ ExpectedEncodedLen(tags, i) = (rows * width * samples) * y
        /\ ExpectedEncodedLen(tags, i) \in Nat
        /\ block.len = ExpectedEncodedLen(tags, i) <=> x = y
        /\ block.len > ExpectedEncodedLen(tags, i) <=> x > y
    BY <1>1, <2>1, <2>3, <2>4, LengthTellsWidth
  <2>6. DecodedLen(tags, i) = CheckedBlockSampleCount(b, i) * (DeclaredType(b).bits \div 8)
    BY <1>3, <1>5, <1>6, <1>9, <2>2, <2>5 DEF DecodedLen, y
  <2>7. type.bits = b.bits => ~PayloadMayExceed(tags, i, block)
    BY <2>1, <2>5 DEF PayloadMayExceed, PayloadLimit
  <2>8. CASE b.compression = Lerc
    <3>1. tags.lerc = <<OrElse(b.lerc, 0)>>
      BY <2>8 DEF ImageTags, LercParametersTag
    <3>2. OrElse(tags.lerc, 0) = block.additional
      BY <1>7, <3>1 DEF OrElse
    <3>3. type = DeclaredType(b) => HasLercType(tags)
      <4>1. type.bits = 64 => type.format = FloatFormat
        BY <2>8 DEF Encodes, EncodesLerc
      <4> QED BY <1>3, <1>9, <2>2, <4>1 DEF HasLercType
    <3>4. DecodesLerc(tags, i, block) <=> type = DeclaredType(b)
      BY <1>2, <1>3, <1>7, <2>2, <3>2, <3>3 DEF DecodesLerc
    <3> QED BY <1>3, <2>2, <2>6, <2>8, <2>7, <3>4 DEF DecodesBlock, Lerc, Lzw
  <2>9. CASE b.compression = Jpeg
    <3>1. DecodesBlock(tags, i, block) <=> block.len = ExpectedEncodedLen(tags, i)
      BY <1>2, <1>3, <1>7, <2>9 DEF DecodesBlock, DecodesJpeg, Jpeg, Lerc
    <3> QED BY <2>1, <2>2, <2>5, <2>6, <2>9, <2>7, <3>1 DEF Jpeg, Lerc, Lzw
  <2>10. CASE b.compression \notin {Lerc, Jpeg}
    <3>1. b.compression \in {Uncompressed, Lzw, Deflate, DeflateOld, PackBits, Zstd}
      BY <2>10 DEF ValidImage, ValidEncoding
    <3>2. b.predictor = FloatingPoint => b.bits \in {16, 32, 64}
      BY <1>9 DEF ValidImage, ValidEncoding, UintFormat, IntFormat, FloatFormat
    <3>3. DecodesBlock(tags, i, block) <=>
            \/ block.len = ExpectedEncodedLen(tags, i)
            \/ /\ block.len > ExpectedEncodedLen(tags, i) /\ b.compression = Lzw
               /\ LzwCuts(ExpectedEncodedLen(tags, i))
      BY <1>3, <2>10, <3>1, <3>2 DEF DecodesBlock
    <3>4. ExpectedEncodedLen(tags, i) = all
      BY <1>6, <2>2, <2>5 DEF y
    <3>5. DecodesBlock(tags, i, block) <=>
            \/ type.bits = b.bits
            \/ type.bits > b.bits /\ b.compression = Lzw /\ LzwCuts(all)
      BY <2>1, <2>5, <3>3, <3>4
    <3> QED BY <2>2, <2>6, <2>10, <2>7, <3>5
  <2> QED BY <2>8, <2>9, <2>10
<1> QED BY <1>3, <1>8, <1>9
\* Stored blocks were encoded for this image, and results are what decoding them gave.
BlocksInv ==
  /\ phase \in {"building", "refused"} => DOMAIN blocks = {}
  /\ phase = "writing" => Own
  /\ \A i \in DOMAIN blocks :
       /\ Own /\ i \in BlockIndices
       /\ \E type \in SampleTypes :
            Encodes(builder, type) /\ blocks[i] = EncodedBlock(builder, i, type)
  /\ \A i \in DOMAIN results :
       /\ i \in DOMAIN blocks
       /\ results[i] \in Outcomes(i)

LEMMA InitBlocksInv == Init => BlocksInv
BY DEF Init, BlocksInv, NoBlocks

LEMMA NextBlocksInv == BlocksInv /\ [Next]_vars => BlocksInv'
<1> SUFFICES ASSUME BlocksInv, [Next]_vars PROVE BlocksInv'
  OBVIOUS
<1>1. CASE Configure
  <2>1. PICK configured : Call(configured)
    BY <1>1, Zenon
       DEF Configure, CallSampleType, CallBits, CallSamples, CallCompression, CallPredictor,
           CallDeflateLevel, CallPhotometric, CallExtraSamples, CallColorMap, CallInkSet,
           CallSubsampling, CallPositioning, CallPlanar, CallStrips, CallTiles,
           CallLercOptions, CallJpegOptions
  <2>2. phase' = "building" /\ blocks' = blocks /\ results' = results
        /\ DOMAIN blocks = {} /\ DOMAIN results = {}
    BY <2>1 DEF Call, BlocksInv
  <2> QED BY <2>2 DEF BlocksInv
<1>2. CASE AddImage
  <2>1. /\ phase' \in {"writing", "refused"} /\ blocks' = blocks /\ results' = results
        /\ DOMAIN blocks = {} /\ DOMAIN results = {}
        /\ phase' = "writing" => ifd' = <<ImageTags(builder')>>
    BY <1>2 DEF AddImage, BlocksInv
  <2> QED BY <2>1 DEF BlocksInv, Own
<1>3. ASSUME phase = "writing",
             NEW k \in BlockIndices, NEW t \in SampleTypes, WriteBlock(k, t)
      PROVE  BlocksInv'
  <2>1. /\ phase' = "writing" /\ ifd' = ifd /\ builder' = builder /\ results' = results
        /\ k \notin DOMAIN blocks
        /\ Own /\ Own' /\ BlockIndices' = BlockIndices
    BY <1>3 DEF WriteBlock, BlocksInv, Own, BlockIndices
  <2>2. CASE ~Encodes(builder, t)
    <3>1. blocks' = blocks
      BY <1>3, <2>2 DEF WriteBlock
    <3> QED BY <1>3, <2>1, <3>1 DEF BlocksInv, Outcomes
  <2>3. CASE Encodes(builder, t)
    <3>1. blocks' = [i \in DOMAIN blocks \cup {k} |->
                       IF i = k THEN EncodedBlock(builder, k, t) ELSE blocks[i]]
      BY <1>3, <2>3 DEF WriteBlock
    <3>2. /\ DOMAIN blocks' = DOMAIN blocks \cup {k}
          /\ blocks'[k] = EncodedBlock(builder, k, t)
          /\ \A i \in DOMAIN blocks : blocks'[i] = blocks[i]
      BY <2>1, <3>1
    <3>3. ASSUME NEW i \in DOMAIN blocks'
          PROVE  /\ i \in BlockIndices
                 /\ \E type \in SampleTypes :
                      /\ Encodes(builder, type)
                      /\ blocks'[i] = EncodedBlock(builder, i, type)
      BY <1>3, <2>3, <3>2 DEF BlocksInv
    <3>4. \A i \in DOMAIN results :
            i \in DOMAIN blocks /\ blocks'[i] = blocks[i]
      BY <3>2 DEF BlocksInv
    <3> QED BY <2>1, <3>2, <3>3, <3>4 DEF BlocksInv, Outcomes
  <2> QED BY <2>2, <2>3
<1>4. CASE Open
  <2>1. phase' \in {"reading", "unreadable"}
        /\ UNCHANGED <<builder, ifd, blocks, results>>
    BY <1>4 DEF Open
  <2> QED BY <2>1 DEF BlocksInv, Own, BlockIndices, Outcomes
<1>5. ASSUME NEW k \in DOMAIN blocks, ReadBlock(k)
      PROVE  BlocksInv'
  <2>1. PICK length \in Outcomes(k) :
          results' = [i \in DOMAIN results \cup {k} |->
                        IF i = k THEN length ELSE results[i]]
    BY <1>5 DEF ReadBlock
  <2>2. /\ phase = "reading" /\ phase' = "reading"
        /\ UNCHANGED <<builder, ifd, blocks>>
        /\ k \notin DOMAIN results
    BY <1>5 DEF ReadBlock
  <2>3. /\ DOMAIN results' = DOMAIN results \cup {k} /\ results'[k] = length
        /\ \A i \in DOMAIN results : results'[i] = results[i]
    BY <2>1, <2>2
  <2>4. \A i : Outcomes(i)' = Outcomes(i)
    BY <2>2 DEF Outcomes
  <2> QED BY <2>1, <2>2, <2>3, <2>4 DEF BlocksInv, Own, BlockIndices
<1>6. CASE DecodePixels
  <2>1. phase' \in {"decoded", "undecodable"}
        /\ UNCHANGED <<builder, ifd, blocks, results>>
    BY <1>6 DEF DecodePixels
  <2> QED BY <2>1 DEF BlocksInv, Own, BlockIndices, Outcomes
<1>7. CASE UNCHANGED vars
  BY <1>7 DEF vars, BlocksInv, Own, BlockIndices, Outcomes
<1> QED BY <1>1, <1>2, <1>3, <1>4, <1>5, <1>6, <1>7 DEF Next

\* A block comes back with all its samples if their type has the declared width, and
\* is refused otherwise, or cut off if it is one LZW may cut (write_block of writer.rs
\* against block_decode.rs and decompress_lzw of filters.rs).
THEOREM BlocksComeBack == Spec => []BlocksReadBack
<1>1. ImageInv /\ BlocksInv => BlocksReadBack
  <2> SUFFICES ASSUME ImageInv, BlocksInv, NEW i \in DOMAIN results
               PROVE  LET type     == blocks[i].type
                          declared == DeclaredType(builder)
                          fits     == IF builder.compression = Lerc THEN type = declared
                                      ELSE type.bits = declared.bits
                          all      == CheckedBlockSampleCount(builder, i)
                                        * (declared.bits \div 8)
                      IN IF fits THEN results[i] = all
                         ELSE IF CutUnnoticed(i) THEN results[i] \in {0, all}
                         ELSE results[i] = 0
    BY DEF BlocksReadBack
  <2>1. /\ i \in DOMAIN blocks /\ ifd[1] = ImageTags(builder)
        /\ i \in 0..CheckedBlockCount(builder) - 1
        /\ results[i] \in Outcomes(i)
    BY DEF BlocksInv, Own, BlockIndices
  <2>2. PICK type \in SampleTypes :
          Encodes(builder, type) /\ blocks[i] = EncodedBlock(builder, i, type)
    BY <2>1 DEF BlocksInv
  <2>3. blocks[i].type = type
    BY <2>2 DEF EncodedBlock
  <2>4. builder \in ImageBuilders /\ ValidImage(builder)
    BY <2>1 DEF ImageInv, TypeInv, AcceptedInv, BlocksInv
  <2> DEFINE declared == DeclaredType(builder)
             fits     == IF builder.compression = Lerc THEN type = declared
                         ELSE type.bits = declared.bits
             all      == CheckedBlockSampleCount(builder, i) * (declared.bits \div 8)
  <2>5. /\ DecodesBlock(ifd[1], i, blocks[i]) <=> fits \/ CutUnnoticed(i)
        /\ DecodedLen(ifd[1], i) = all
        /\ fits => ~PayloadMayExceed(ifd[1], i, blocks[i])
    BY <2>1, <2>2, <2>3, <2>4, BlockComesBack DEF CutUnnoticed
  <2> HIDE DEF declared, all
  <2>6. /\ fits => results[i] = all
        /\ ~fits /\ CutUnnoticed(i) => results[i] \in {0, all}
        /\ ~fits /\ ~CutUnnoticed(i) => results[i] = 0
    BY <2>1, <2>5 DEF Outcomes
  <2> QED BY <2>3, <2>6 DEF declared, all
<1>2. Spec => []BlocksInv
  BY InitBlocksInv, NextBlocksInv, PTL DEF Spec
<1> QED BY <1>1, <1>2, ImageInvariant, PTL

----------------------------------------------------------------------------
(* Decoded pixels, of IFDs by anyone.                                      *)

\* The number of channels and their declared meanings are numbers.
CountsChannels(i) == SamplesPerPixel(i) \in Nat /\ ExtrasOf(i) \in Seq(Nat)

\* The stored channels are the base channels and the extra ones.
LEMMA ChannelsSplit ==
  ASSUME NEW i, CountsChannels(i), HasRasterLayout(i)
  PROVE  /\ ColorChannels(i) \in Nat /\ ExtraCount(i) \in Nat
         /\ SamplesPerPixel(i) = ColorChannels(i) + ExtraCount(i)
<1>1. /\ SamplesPerPixel(i) \in Nat /\ Len(ExtrasOf(i)) \in Nat
      /\ AcceptsColorModel(i) /\ HasColorModel(i)
  BY DEF CountsChannels, HasRasterLayout, AcceptsColorModel
<1>2. SamplesPerPixel(i) = ColorChannels(i) + ExtraCount(i)
  BY <1>1 DEF AcceptsColorModel
<1>3. ColorChannels(i) \in Int
  BY <1>1 DEF ColorChannels
<1>4. CASE Photometric(i) = Mask
  BY <1>2, <1>4 DEF ColorChannels, ExtraCount, Mask
<1>5. CASE Photometric(i) # Mask
  <2>1. ColorChannels(i) >= 0 /\ Len(ExtrasOf(i)) <= SamplesPerPixel(i) - ColorChannels(i)
    BY <1>1, <1>5 DEF HasColorModel
  <2>2. ExtraCount(i) = SamplesPerPixel(i) - ColorChannels(i)
    BY <1>5 DEF ExtraCount
  <2> QED BY <1>1, <1>2, <1>3, <2>1, <2>2
<1> QED BY <1>4, <1>5

\* The base channels of a decoded pixel depend on all stored base channels.
LEMMA BaseIsAll ==
  ASSUME NEW i, ColorChannels(i) \in Nat
  PROVE  /\ BaseReads(i) \in Seq(SUBSET Nat)
         /\ UNION {BaseReads(i)[k] : k \in 1..Len(BaseReads(i))} = 0..(ColorChannels(i) - 1)
         /\ Len(BaseReads(i)) = IF Photometric(i) = Palette \/ IsCmyk(i) THEN 3
                                ELSE ColorChannels(i)
<1>1. CASE Photometric(i) = Palette
  <2> DEFINE s == <<{0}, {0}, {0}>>
  <2>1. BaseReads(i) = s /\ ColorChannels(i) = 1
    BY <1>1 DEF BaseReads, ColorChannels, Palette
  <2>2. s \in Seq(SUBSET Nat) /\ Len(s) = 3 /\ UNION {s[k] : k \in 1..3} = 0..0
    OBVIOUS
  <2> QED BY <1>1, <2>1, <2>2
<1>2. CASE Photometric(i) # Palette /\ IsCmyk(i)
  <2> DEFINE s == <<{0, 3}, {1, 3}, {2, 3}>>
  <2>1. BaseReads(i) = s /\ ColorChannels(i) = 4
    BY <1>2 DEF BaseReads, ColorChannels, IsCmyk, Separated, MinIsWhite, MinIsBlack, Palette,
                Mask, Rgb, YCbCr, CieLab, IccLab
  <2>2. s \in Seq(SUBSET Nat) /\ Len(s) = 3
    OBVIOUS
  <2>3. UNION {s[k] : k \in 1..3} = s[1] \cup s[2] \cup s[3]
    OBVIOUS
  <2>4. s[1] \cup s[2] \cup s[3] = 0..3
    OBVIOUS
  <2> QED BY <1>2, <2>1, <2>2, <2>3, <2>4
<1>3. CASE Photometric(i) = YCbCr /\ CompressionOf(i) # Jpeg
  <2> DEFINE s == <<{0, 2}, {0, 1, 2}, {0, 1}>>
  <2>1. BaseReads(i) = s /\ ColorChannels(i) = 3 /\ Photometric(i) # Palette /\ ~IsCmyk(i)
    BY <1>3 DEF BaseReads, ColorChannels, IsCmyk, Separated, MinIsWhite, MinIsBlack, Palette,
                Mask, Rgb, YCbCr, CieLab, IccLab
  <2>2. s \in Seq(SUBSET Nat) /\ Len(s) = 3
    OBVIOUS
  <2>3. UNION {s[k] : k \in 1..3} = s[1] \cup s[2] \cup s[3]
    OBVIOUS
  <2>4. s[1] \cup s[2] \cup s[3] = 0..2
    OBVIOUS
  <2> QED BY <2>1, <2>2, <2>3, <2>4
<1>4. CASE /\ Photometric(i) # Palette /\ ~IsCmyk(i)
           /\ ~(Photometric(i) = YCbCr /\ CompressionOf(i) # Jpeg)
  <2> DEFINE n == ColorChannels(i)
             s == [k \in 1..n |-> {k - 1}]
  <2>1. BaseReads(i) = s
    BY <1>4 DEF BaseReads
  <2> HIDE DEF n
  <2>2. n \in Nat
    BY DEF n
  <2>3. s \in Seq(SUBSET Nat) /\ Len(s) = n /\ \A k \in 1..n : s[k] = {k - 1}
    BY <2>2
  <2>4. UNION {s[k] : k \in 1..n} = 0..(n - 1)
    <3>1. \A x \in 0..(n - 1) : x + 1 \in 1..n /\ x \in s[x + 1]
      BY <2>2, <2>3
    <3>2. \A k \in 1..n : s[k] \subseteq 0..(n - 1)
      BY <2>2, <2>3
    <3> QED BY <3>1, <3>2
  <2> QED BY <1>4, <2>1, <2>3, <2>4 DEF n
<1> QED BY <1>1, <1>2, <1>3, <1>4

\* A decoded pixel depends on all stored channels and no other.
LEMMA PixelsUseAll ==
  ASSUME NEW i, CountsChannels(i), HasRasterLayout(i)
  PROVE  /\ UNION {PixelReads(i)[k] : k \in DOMAIN PixelReads(i)} = 0..(SamplesPerPixel(i) - 1)
         /\ Len(PixelReads(i)) = DecodedChannels(i)
<1> DEFINE n == SamplesPerPixel(i)
           c == ColorChannels(i)
           e == ExtraCount(i)
           s == BaseReads(i)
           t == [k \in 1..e |-> {c + k - 1}]
           r == PixelReads(i)
<1>1. c \in Nat /\ e \in Nat /\ n = c + e
  BY ChannelsSplit
<1>2. CASE PassesThrough(i)
  <2>1. r = [k \in 1..n |-> {k - 1}] /\ DecodedChannels(i) = n
    BY <1>2 DEF PixelReads, PassesThrough
  <2> HIDE DEF n, c, e, r
  <2>2. DOMAIN r = 1..n /\ n \in Nat /\ Len(r) = n /\ \A k \in 1..n : r[k] = {k - 1}
    BY <1>1, <2>1
  <2>3. \A x \in 0..(n - 1) : x + 1 \in 1..n /\ x \in r[x + 1]
    BY <2>2
  <2>4. \A k \in 1..n : r[k] \subseteq 0..(n - 1)
    BY <2>2
  <2>5. UNION {r[k] : k \in DOMAIN r} = 0..(n - 1)
    BY <2>2, <2>3, <2>4
  <2> QED BY <2>1, <2>2, <2>5 DEF n, r
<1>3. CASE ~PassesThrough(i)
  <2>1. r = s \o t
    BY <1>3 DEF PixelReads
  <2>2. /\ s \in Seq(SUBSET Nat) /\ UNION {s[k] : k \in 1..Len(s)} = 0..(c - 1)
        /\ Len(s) + e = DecodedChannels(i)
    BY <1>1, BaseIsAll DEF DecodedChannels
  <2> HIDE DEF n, c, e, r, s
  <2>3. /\ t \in Seq(SUBSET Nat) /\ Len(t) = e /\ \A k \in 1..e : t[k] = {c + k - 1}
    BY <1>1
  <2> HIDE DEF t
  <2>4. /\ Len(s) \in Nat /\ DOMAIN r = 1..(Len(s) + e) /\ Len(r) = Len(s) + e
        /\ \A k \in 1..(Len(s) + e) : r[k] = IF k <= Len(s) THEN s[k] ELSE t[k - Len(s)]
    <3> DEFINE T == SUBSET Nat
    <3>0. s \in Seq(T) /\ t \in Seq(T)
      BY <2>2, <2>3
    <3> HIDE DEF T
    <3>1. /\ s \o t \in Seq(T) /\ Len(s \o t) = Len(s) + Len(t)
          /\ \A k \in 1..(Len(s) + Len(t)) :
               (s \o t)[k] = IF k <= Len(s) THEN s[k] ELSE t[k - Len(s)]
      BY ONLY <3>0, ConcatProperties
    <3>2. Len(s) \in Nat /\ DOMAIN (s \o t) = 1..Len(s \o t)
      BY ONLY <3>0, <3>1
    <3> QED BY ONLY <2>1, <2>3, <3>1, <3>2
  <2>5. \A k \in 1..Len(s) : r[k] = s[k] /\ k \in DOMAIN r
    BY <1>1, <2>4
  <2>6. \A k \in 1..e : r[Len(s) + k] = {c + k - 1} /\ Len(s) + k \in DOMAIN r
    <3> SUFFICES ASSUME NEW k \in 1..e
                 PROVE  r[Len(s) + k] = {c + k - 1} /\ Len(s) + k \in DOMAIN r
      OBVIOUS
    <3>1. Len(s) + k \in 1..(Len(s) + e) /\ ~(Len(s) + k <= Len(s)) /\ Len(s) + k - Len(s) = k
      BY <1>1, <2>4
    <3>2. r[Len(s) + k] = t[k]
      BY <2>4, <3>1
    <3> QED BY <2>3, <2>4, <3>1, <3>2
  <2>7. \A k \in DOMAIN r : k \in 1..Len(s) \/ \E m \in 1..e : k = Len(s) + m
    <3> SUFFICES ASSUME NEW k \in DOMAIN r, ~(k \in 1..Len(s))
                 PROVE  \E m \in 1..e : k = Len(s) + m
      OBVIOUS
    <3>1. k \in 1..(Len(s) + e) /\ Len(s) \in Nat /\ e \in Nat
      BY <1>1, <2>4
    <3>2. k - Len(s) \in 1..e /\ k = Len(s) + (k - Len(s))
      BY <3>1
    <3> QED BY <3>2
  <2>8. UNION {r[k] : k \in DOMAIN r} = 0..(c - 1) \cup c..(c + e - 1)
    <3>1. \A k \in 1..e : {c + k - 1} \subseteq c..(c + e - 1)
      BY <1>1
    <3>2. \A x \in c..(c + e - 1) : x - c + 1 \in 1..e /\ x = c + (x - c + 1) - 1
      BY <1>1
    <3>3. UNION {r[k] : k \in DOMAIN r} \subseteq 0..(c - 1) \cup c..(c + e - 1)
      BY <2>2, <2>5, <2>6, <2>7, <3>1
    <3>4. 0..(c - 1) \subseteq UNION {r[k] : k \in DOMAIN r}
      BY <2>2, <2>5
    <3>5. c..(c + e - 1) \subseteq UNION {r[k] : k \in DOMAIN r}
      <4> SUFFICES ASSUME NEW x \in c..(c + e - 1)
                   PROVE  \E k \in DOMAIN r : x \in r[k]
        OBVIOUS
      <4>1. PICK m \in 1..e : x = c + m - 1
        BY <3>2
      <4> QED BY <2>6, <4>1
    <3> QED BY <3>3, <3>4, <3>5
  <2>9. 0..(c - 1) \cup c..(c + e - 1) = 0..(n - 1)
    BY <1>1
  <2> QED BY <2>2, <2>4, <2>8, <2>9 DEF n, r
<1> QED BY <1>2, <1>3

\* One Rust type can hold the pixels of any IFD.
LEMMA OneTypeMatches ==
  ASSUME NEW i, HasRasterLayout(i)
  PROVE  Cardinality({t \in SampleTypes : MatchesLayout(t, DecodedType(i))}) = 1
<1> DEFINE d == DecodedType(i)
<1>1. ValidSampleEncoding(FormatOf(i), BitsOf(i))
  BY DEF HasRasterLayout
<1>2. \/ d.format \in {UintFormat, IntFormat} /\ d.bits \in {8, 16, 32, 64}
      \/ d.format = FloatFormat /\ d.bits \in {32, 64}
  BY <1>1 DEF DecodedType, ValidSampleEncoding, AtLeastAByte
<1> HIDE DEF d
<1> DEFINE u == [bits |-> d.bits, format |-> d.format]
<1>3. u \in SampleTypes /\ MatchesLayout(u, d)
  BY <1>2 DEF SampleTypes, MatchesLayout, UintFormat, IntFormat, FloatFormat
<1>4. ASSUME NEW t \in SampleTypes, MatchesLayout(t, d)
      PROVE  t = u
  <2>1. t = [bits |-> t.bits, format |-> t.format] /\ t.bits \in {8, 16, 32, 64}
    BY DEF SampleTypes
  <2>2. t.format = d.format /\ t.bits = d.bits
    BY <1>2, <1>4, <2>1 DEF MatchesLayout, UintFormat, IntFormat, FloatFormat
  <2> QED BY <2>1, <2>2
<1>5. {t \in SampleTypes : MatchesLayout(t, d)} = {u}
  BY <1>3, <1>4
<1> QED BY <1>5, FS_Singleton DEF d

\* An IFD on its way to the reader counts its channels.
ChannelInv == phase \notin {"building", "refused"} => CountsChannels(ifd[1])

\* The tags are counted when a builder's or a foreign IFD goes to the reader.
LEMMA NextChannelInv == ImageInv /\ ChannelInv /\ [Next]_vars => ChannelInv'
<1> SUFFICES ASSUME ImageInv, ChannelInv, [Next]_vars PROVE ChannelInv'
  OBVIOUS
<1>1. CASE AddImage
  <2>1. ASSUME ValidImage(builder) PROVE CountsChannels(ImageTags(builder))
    <3>1. builder \in ImageBuilders
      BY DEF ImageInv, TypeInv
    <3>2. builder.spp \in Nat /\ builder.spp > 0 /\ builder.extras \in Seq(Nat)
      BY <2>1, <3>1, Validated DEF ImageBuilders
    <3> QED BY <3>1, <3>2, TagsAsSet DEF CountsChannels
  <2> QED BY <1>1, <2>1 DEF AddImage, ChannelInv
<1>2. CASE Configure
  <2>1. phase' = "building"
    BY <1>2 DEF Configure, Call, CallSampleType, CallBits, CallSamples, CallCompression,
       CallPredictor, CallDeflateLevel, CallPhotometric, CallExtraSamples, CallColorMap,
       CallInkSet, CallSubsampling, CallPositioning, CallPlanar, CallStrips, CallTiles,
       CallLercOptions, CallJpegOptions
  <2> QED BY <2>1 DEF ChannelInv
<1>3. ASSUME UNCHANGED ifd, phase \notin {"building", "refused"}
      PROVE  ChannelInv'
  BY <1>3 DEF ChannelInv
<1>4. CASE Open
  BY <1>3, <1>4 DEF Open
<1>5. CASE DecodePixels
  BY <1>3, <1>5 DEF DecodePixels
<1>6. CASE phase = "writing" /\ \E k \in BlockIndices, t \in SampleTypes : WriteBlock(k, t)
  BY <1>3, <1>6 DEF WriteBlock
<1>7. CASE \E k \in DOMAIN blocks : ReadBlock(k)
  BY <1>3, <1>7 DEF ReadBlock
<1>8. CASE UNCHANGED vars
  BY <1>8 DEF vars, ChannelInv
<1> QED BY <1>1, <1>2, <1>4, <1>5, <1>6, <1>7, <1>8 DEF Next

\* Whoever wrote an IFD: a decoded pixel uses every stored channel and no other, has the
\* channels it announces, and one Rust type can hold it (the color decoders of tiff-reader).
THEOREM PixelsUseEveryChannel == Spec => []ChannelsAllUsed
<1>1. Init => ChannelInv
  <2> SUFFICES ASSUME NEW i \in ForeignIfds PROVE CountsChannels(i)
    BY DEF Init, ChannelInv
  <2>1. \A S : \A o \in Option(S) : o # <<>> => o[1] \in S
    BY DEF Option
  <2>2. <<>> \in Seq(Nat)
    OBVIOUS
  <2> QED BY <2>1, <2>2, ForeignAssumption DEF CountsChannels, SamplesPerPixel, ExtrasOf, OrElse
<1>2. ImageInv /\ ChannelInv => ChannelsAllUsed
  <2> SUFFICES ASSUME ImageInv, ChannelInv, phase = "decoded"
               PROVE  ChannelsAllUsed
    BY DEF ChannelsAllUsed
  <2>1. HasRasterLayout(ifd[1]) /\ CountsChannels(ifd[1])
    BY DEF ImageInv, OpenedInv, Opened, ChannelInv
  <2> QED BY <2>1, PixelsUseAll, OneTypeMatches DEF ChannelsAllUsed
<1> QED BY <1>1, <1>2, NextChannelInv, ImageInvariant, PTL DEF Spec
=============================================================================
