----------------------------- MODULE ImageModel -----------------------------
(***************************************************************************)
(* One image from its configuration to its pixels.  A caller configures an *)
(* ImageBuilder with any sequence of setters and adds the image to a       *)
(* TiffWriter, which validates it and derives its tags; blocks of samples  *)
(* of any type are written; a reader then opens the IFD, reads blocks and  *)
(* decodes pixels.  The reader also meets IFDs other programs wrote.       *)
(***************************************************************************)
EXTENDS SampleLayout

CONSTANTS
  Builders,        \* the builders the calls start from
  ForeignIfds,     \* IFDs the reader is handed that this writer did not write
  Compressions, Predictors, Photometrics, ExtraLists, Palettes, InkSets,
  Subsamplings, Levels,  \* the arguments of the setters
  MaxCalls,        \* bound on setter calls
  MaxWrites        \* bound on write_block calls

ASSUME BoundsAssumption == MaxCalls \in Nat /\ MaxWrites \in Nat

ASSUME CallsAssumption ==
  /\ Builders \subseteq ImageBuilders
  /\ Compressions \subseteq Nat
  /\ Predictors \subseteq {NoPredictor, Horizontal, FloatingPoint}
  /\ Photometrics \subseteq {MinIsWhite, MinIsBlack, Rgb, Palette, Mask, Separated,
                             YCbCr, CieLab, IccLab}
  /\ ExtraLists \subseteq Seq(Nat)
  /\ Palettes \subseteq ColorMaps
  /\ InkSets \subseteq Nat
  /\ Subsamplings \subseteq Nat \X Nat
  /\ Levels \subseteq Nat

\* Whatever wrote an IFD, its tags hold numbers.
ASSUME ForeignAssumption ==
  \A i \in ForeignIfds : i.spp \in Option(Nat) /\ i.extras \in Option(Seq(Nat))

VARIABLES
  phase,     \* how far the image has come, see Phases
  builder,   \* the ImageBuilder
  calls,     \* setter calls so far
  ifd,       \* the IFD written or given, <<>> before
  blocks,    \* the stored blocks: a function from some of the block indices
  refusals,  \* the sample types write_block refused
  results    \* for each block index read, the length that came back, or 0

vars == <<phase, builder, calls, ifd, blocks, refusals, results>>

Phases == {"building", "refused", "writing", "stored", "reading", "unreadable",
           "decoded", "undecodable"}

NoBlocks == [i \in {} |-> 0]

Init ==
  /\ calls = 0 /\ blocks = NoBlocks /\ refusals = {} /\ results = NoBlocks
  /\ \/ phase = "building" /\ builder \in Builders /\ ifd = <<>>
     \/ /\ phase = "stored" /\ builder = NewBuilder(1, 1)
        /\ ifd \in {<<i>> : i \in ForeignIfds}

(***************************************************************************)
(* Setters.                                                                *)
(***************************************************************************)
Call(configured) ==
  /\ phase = "building" /\ calls < MaxCalls
  /\ builder' = configured /\ calls' = calls + 1
  /\ UNCHANGED <<phase, ifd, blocks, refusals, results>>

CallSampleType     == \E t \in SampleTypes : Call(SetSampleType(builder, t))
CallBits           == \E n \in {1, 4} : Call([builder EXCEPT !.bits = n])
CallSamples        == \E n \in 1..5 : Call([builder EXCEPT !.spp = n])
CallCompression    == \E c \in Compressions : Call(SetCompression(builder, c))
CallPredictor      == \E p \in Predictors : Call([builder EXCEPT !.predictor = p])
CallDeflateLevel   == \E n \in Levels : Call([builder EXCEPT !.deflateLevel = <<n>>])
CallPhotometric    == \E p \in Photometrics : Call([builder EXCEPT !.photometric = p])
CallExtraSamples   == \E e \in ExtraLists : Call([builder EXCEPT !.extras = e])
CallColorMap       == \E m \in Palettes : Call([builder EXCEPT !.colorMap = <<m>>])
CallInkSet         == \E s \in InkSets : Call([builder EXCEPT !.inkSet = <<s>>])
CallSubsampling    == \E s \in Subsamplings : Call([builder EXCEPT !.subsampling = <<s>>])
CallPositioning    == \E n \in 1..2 : Call([builder EXCEPT !.positioning = <<n>>])
CallPlanar         == \E p \in BOOLEAN : Call([builder EXCEPT !.planar = p])
CallStrips         == \E rows \in {0, 7} : Call(SetStrips(builder, rows))
CallTiles          == \E side \in {8, 16} : Call(SetTiles(builder, side, 16))
CallLercOptions    == \E a \in 0..2 : Call(SetLerc(builder, a))
CallJpegOptions    == \E q \in {0, 75, 101} : Call(SetJpeg(builder, q))

Configure ==
  \/ CallSampleType \/ CallBits \/ CallSamples \/ CallCompression
  \/ CallPredictor \/ CallDeflateLevel \/ CallPhotometric \/ CallExtraSamples
  \/ CallColorMap \/ CallInkSet \/ CallSubsampling \/ CallPositioning
  \/ CallPlanar \/ CallStrips \/ CallTiles \/ CallLercOptions
  \/ CallJpegOptions

(***************************************************************************)
(* The writer.                                                             *)
(***************************************************************************)
AddImage ==
  /\ phase = "building"
  /\ IF ValidImage(builder)
     THEN phase' = "writing" /\ ifd' = <<ImageTags(builder)>>
     ELSE phase' = "refused" /\ UNCHANGED ifd
  /\ UNCHANGED <<builder, calls, blocks, refusals, results>>

WriteBlock(index, type) ==
  /\ phase = "writing"
  /\ index \notin DOMAIN blocks
  /\ Cardinality(DOMAIN blocks) + Cardinality(refusals) < MaxWrites
  /\ IF Encodes(builder, type)
     THEN /\ blocks' = [i \in DOMAIN blocks \cup {index} |->
                         IF i = index THEN EncodedBlock(builder, index, type)
                         ELSE blocks[i]]
          /\ UNCHANGED refusals
     ELSE refusals' = refusals \cup {type} /\ UNCHANGED blocks
  /\ UNCHANGED <<phase, builder, calls, ifd, results>>

(***************************************************************************)
(* The reader.                                                             *)
(***************************************************************************)
Open ==
  /\ phase \in {"writing", "stored"}
  /\ phase' = IF HasRasterLayout(ifd[1]) THEN "reading" ELSE "unreadable"
  /\ UNCHANGED <<builder, calls, ifd, blocks, refusals, results>>

\* The lengths a read of a block may give, 0 if it is refused.
Outcomes(index) ==
  {IF DecodesBlock(ifd[1], index, blocks[index]) THEN DecodedLen(ifd[1], index) ELSE 0}
    \cup (IF PayloadMayExceed(ifd[1], index, blocks[index]) THEN {0} ELSE {})

ReadBlock(index) ==
  /\ phase = "reading" /\ index \in DOMAIN blocks /\ index \notin DOMAIN results
  /\ \E length \in Outcomes(index) :
       results' = [i \in DOMAIN results \cup {index} |->
                     IF i = index THEN length ELSE results[i]]
  /\ UNCHANGED <<phase, builder, calls, ifd, blocks, refusals>>

DecodePixels ==
  /\ phase = "reading" /\ DOMAIN results = DOMAIN blocks
  /\ phase' = IF DecodesPixels(ifd[1]) THEN "decoded" ELSE "undecodable"
  /\ UNCHANGED <<builder, calls, ifd, blocks, refusals, results>>

BlockIndices == 0..CheckedBlockCount(builder) - 1

Next ==
  \/ Configure
  \/ AddImage
  \/ phase = "writing" /\ \E i \in BlockIndices, t \in SampleTypes : WriteBlock(i, t)
  \/ Open
  \/ \E i \in DOMAIN blocks : ReadBlock(i)
  \/ DecodePixels

Spec == Init /\ [][Next]_vars

(***************************************************************************)
(* Properties.                                                             *)
(***************************************************************************)
Opened == {"reading", "unreadable", "decoded", "undecodable"}
Own == ifd = <<ImageTags(builder)>>

DeclaredType(b) == [bits |-> AtLeastAByte(b.bits), format |-> b.format]

\* The two kinds of image the writer accepts and the reader does not: a mask of
\* several channels, and subsampled YCbCr with more than three.
KnownUnreadable(b) ==
  \/ b.photometric = Mask /\ b.spp > 1
  \/ /\ b.photometric = YCbCr /\ b.spp > 3
     /\ OrElse(EffectiveSubsampling(b), <<1, 1>>) # <<1, 1>>

\* The kinds it accepts and whose blocks can be read but not turned into pixels:
\* signed or float samples where white is zero or inks are mixed to RGB.
KnownUndecodable(b) ==
  /\ b.format # UintFormat
  /\ \/ b.photometric = MinIsWhite
     \/ b.photometric = Separated /\ InkSetOf(b) = Cmyk

\* Two validations written apart agree: whatever sequence of setters led to an image
\* the writer accepted, the reader accepts its IFD, except for exactly the known kinds;
\* and it decodes the pixels, except for exactly the known kinds.
AcceptedIsReadable ==
  Own =>
    /\ phase \in Opened => (phase = "unreadable" <=> KnownUnreadable(builder))
    /\ phase = "decoded" => ~KnownUndecodable(builder)
    /\ phase = "undecodable" => KnownUndecodable(builder)

\* What a comment of the writer promises of channels without a declared meaning: the
\* reader takes them for Unspecified and "a round-trip stays pixel-identical".
UndeclaredExtrasAreRead ==
  Own /\ builder.extras = <<>> => phase # "unreadable"

\* Both sides cut an image into the same blocks, number by number, the short last
\* strip of every plane included, and see the same samples and the same meanings
\* of the extra channels, although each derives them from its own defaults.
LayoutAgrees ==
  Own /\ phase = "reading" =>
    /\ RasterLayout(ifd[1]) =
         [width |-> builder.width, height |-> builder.height, spp |-> builder.spp,
          bits |-> builder.bits, format |-> builder.format,
          planar |-> builder.planar, predictor |-> builder.predictor]
    /\ PlaneBlocks(ifd[1]) = BlocksPerPlane(builder)
    /\ BlockSamples(ifd[1]) = BlockSamplesPerPixel(builder)
    /\ BlockWidth(ifd[1]) = BlockRowWidth(builder)
    /\ \A i \in BlockIndices :
         BlockRows(ifd[1], i) = CheckedBlockHeight(builder, i)
    /\ builder.photometric # Mask =>
         \A i \in DOMAIN builder.extras :
            ResolvedExtras(ifd[1])[i] = builder.extras[i]

\* The samples of block i are wider than declared and LZW may cut them off unnoticed:
\* the bytes the image calls for are a multiple of what its decoder asks for at a time.
CutUnnoticed(i) ==
  /\ builder.compression = Lzw
  /\ blocks[i].type.bits > DeclaredType(builder).bits
  /\ LzwCuts(CheckedBlockSampleCount(builder, i) * (DeclaredType(builder).bits \div 8))

\* write_block does not compare the type of its samples with what the image declares;
\* only the lengths tell the reader.  A block comes back with all its samples if its
\* type has the declared width (for LERC, is the declared type), and is refused
\* otherwise, with exactly one exception: wider samples in an LZW block whose length is
\* a multiple of 8192 may be cut to that length and read as if they fitted.
BlocksReadBack ==
  \A i \in DOMAIN results :
    LET type     == blocks[i].type
        declared == DeclaredType(builder)
        fits     == IF builder.compression = Lerc THEN type = declared
                    ELSE type.bits = declared.bits
        all      == CheckedBlockSampleCount(builder, i) * (declared.bits \div 8)
    IN IF fits THEN results[i] = all
       ELSE IF CutUnnoticed(i) THEN results[i] \in {0, all}
       ELSE results[i] = 0

\* What ONYX-FORK-CHANGES.md promises of LZW, that the guard "still catches a genuinely
\* oversized stream": no block of more bytes than the IFD calls for is read.
OverlongIsRefused ==
  \A i \in DOMAIN results :
    results[i] # 0 =>
      blocks[i].len <= ExpectedEncodedLen(ifd[1], i)

\* What validates can be written: write_block encodes samples of the declared type,
\* except 64-bit integers with LERC, which no check of the configuration excludes.
RefusalsAreKnown ==
  \A type \in refusals :
    type = DeclaredType(builder) =>
      /\ builder.compression = Lerc
      /\ builder.bits = 64 /\ builder.format # FloatFormat

\* Decoding a pixel, of an own or a foreign IFD, uses every stored channel and none
\* that is not there, gives as many channels as it announces, and exactly one Rust
\* type can hold the result.
ChannelsAllUsed ==
  phase = "decoded" =>
    /\ UNION {PixelReads(ifd[1])[i] : i \in DOMAIN PixelReads(ifd[1])} =
         0..SamplesPerPixel(ifd[1]) - 1
    /\ Len(PixelReads(ifd[1])) = DecodedChannels(ifd[1])
    /\ Cardinality({t \in SampleTypes : MatchesLayout(t, DecodedType(ifd[1]))}) = 1
=============================================================================
