---------------------------- MODULE MCImageModel ----------------------------
(* Builders a few calls away from every check, and IFDs of other programs.  *)
EXTENDS ImageModel

Base == NewBuilder(17, 20)
With(b, photometric, spp) == [b EXCEPT !.photometric = photometric, !.spp = spp]

StartBuilders ==
  {Base,
   SetStrips([Base EXCEPT !.planar = TRUE, !.spp = 3], 7),
   SetTiles(Base, 16, 16),
   SetTiles(SetCompression(Base, Lzw), 128, 64),
   SetStrips(SetLerc(Base, 1), 7),
   [SetCompression(Base, Deflate) EXCEPT !.predictor = Horizontal, !.bits = 16],
   [SetCompression(Base, Zstd) EXCEPT !.predictor = FloatingPoint, !.bits = 32,
                                      !.format = FloatFormat],
   SetStrips([With(Base, Palette, 1) EXCEPT !.bits = 4], 6),
   [With(Base, Separated, 5) EXCEPT !.inkSet = <<NotCmyk>>],
   With(Base, Separated, 4),
   With(SetJpeg(Base, 75), YCbCr, 3),
   With(SetJpeg([Base EXCEPT !.planar = TRUE], 75), YCbCr, 4),
   With(Base, YCbCr, 4),
   With(Base, Mask, 1),
   [With(Base, Rgb, 3) EXCEPT !.bits = 1],
   SetStrips(SetJpeg(Base, 75), 65536)}

SomeCompressions == {Uncompressed, Lzw, Jpeg, Deflate, Lerc, OldJpeg, Zstd}
SomePredictors == {NoPredictor, Horizontal, FloatingPoint}
AllPhotometrics == {MinIsWhite, MinIsBlack, Rgb, Palette, Mask, Separated, YCbCr,
                    CieLab, IccLab}
SomeExtras == {<<>>, <<2>>, <<0, 2>>, <<1, 1, 1, 1, 1>>}
SomeColorMaps == {[entries |-> 16, narrow |-> FALSE], [entries |-> 256, narrow |-> TRUE]}
SomeInkSets == {Cmyk, NotCmyk, 7}
SomeSubsamplings == {<<1, 1>>, <<2, 2>>, <<2, 1>>}
SomeLevels == {9, 10}

Foreign ==
  {[width |-> 5, height |-> 5, bits |-> bits, format |-> format,
    compression |-> compression, photometric |-> photometric, spp |-> spp,
    planar |-> <<>>, predictor |-> predictor, rowsPerStrip |-> <<>>, tile |-> <<>>,
    extras |-> extras, colorMap |-> colorMap, inkSet |-> inkSet,
    subsampling |-> subsampling, positioning |-> <<>>, lerc |-> <<>>] :
    bits \in {<<>>, <<<<8>>>>, <<<<8, 8, 16>>>>, <<<<4, 4, 4, 4>>>>},
    format \in {<<>>, <<<<2>>>>},
    compression \in {<<>>, <<Jpeg>>},
    photometric \in {<<>>, <<0>>, <<2>>, <<3>>, <<4>>, <<5>>, <<6>>, <<7>>, <<8>>},
    spp \in {<<>>, <<3>>, <<4>>, <<5>>},
    predictor \in {<<>>, <<2>>},
    extras \in {<<>>, <<<<2>>>>},
    colorMap \in {<<>>, <<[values |-> 768, narrow |-> FALSE]>>},
    inkSet \in {<<>>, <<NotCmyk>>},
    subsampling \in {<<>>, <<<<2, 1>>>>, <<<<0, 2>>>>}}
=============================================================================
