---------------------------- MODULE BlockPipeline ----------------------------
(***************************************************************************)
(* A TIFF image from samples to bytes and back.  A writer turns each block *)
(* into its bytes and appends them, framed if the file has GDAL's          *)
(* structural metadata; a caller of tiff-reader then reads one window of   *)
(* the samples, of one band, or of the packed rows.  The blocks a window   *)
(* touches are read and copied into the output in any order (rayon).       *)
(* BlockReads has the cache, the budgets and the failing sources that are  *)
(* left out here; this module has the bytes that are left out there.       *)
(***************************************************************************)
EXTENDS SampleBytes

CONSTANTS Images,     \* images and the files that hold them, see IsImage
          Windows     \* the windows callers ask for: [row, col, rows, cols]

\* bits of 1, 2 and 4 are packed; units is the YCbCr subsampling; padBits is what a
\* writer leaves in the spare bits of a packed row (tiff-writer: zero); ghost says that
\* the file declares block leaders, trailer that it declares trailers too, and wrapped
\* that its blocks still have them; sparse names the blocks without bytes.
IsImage(img) ==
  /\ {img.width, img.height, img.spp, img.blockWidth, img.blockHeight} \subseteq Nat \ {0}
  /\ img.bits \in {1, 2, 4, 8, 16, 32}
  /\ img.predictor \in {"none", "horizontal", "float"}
  /\ img.compression \in {"none", "packbits"} /\ img.padBits \in {0, 1}
  /\ {img.planar, img.tiled, img.bigEndian, img.ghost, img.trailer, img.wrapped} \subseteq BOOLEAN
  /\ img.units # <<1, 1>> => img.spp = 3 /\ img.bits = 8 /\ ~img.planar
  /\ img.bits < 8 => img.predictor = "none"

ASSUME ImagesAssumption == \A img \in Images : IsImage(img)

VARIABLES image,
          file,     \* the bytes of the file
          blocks,   \* per block written: where its payload is
          phase,    \* writing, refused, ready, reading, done or failed
          read      \* the caller's request, the blocks to copy and the output

vars == <<image, file, blocks, phase, read>>
----------------------------------------------------------------------------
\* Layout: RasterLayout, and the specs of strips and tiles.
SubByte   == image.bits < 8
ValueLen  == IF image.bits <= 8 THEN 1 ELSE image.bits \div 8
PixelLen  == image.spp * ValueLen
Subsampled == image.units # <<1, 1>>
BlockSamples == IF image.planar THEN 1 ELSE image.spp

Across   == IF image.tiled THEN CeilDiv(image.width, image.blockWidth) ELSE 1
Down     == CeilDiv(image.height, image.blockHeight)
PerPlane == Across * Down
Planes   == IF image.planar THEN 0..(image.spp - 1) ELSE {0}
BlockIndices == 0..(PerPlane * (IF image.planar THEN image.spp ELSE 1) - 1)

Least(a, b) == IF a <= b THEN a ELSE b
Most(a, b)  == IF a >= b THEN a ELSE b

\* width and height are those of the decoded block, cols and rows of what the image
\* has of it; only tiles are filled up.
BlockSpec(index) ==
  LET k == index % PerPlane
      y == (k \div Across) * image.blockHeight
      x == IF image.tiled THEN (k % Across) * image.blockWidth ELSE 0
      rows == Least(image.blockHeight, image.height - y)
  IN [index |-> index, plane |-> index \div PerPlane, x |-> x, y |-> y, rows |-> rows,
      cols   |-> IF image.tiled THEN Least(image.blockWidth, image.width - x) ELSE image.width,
      width  |-> IF image.tiled THEN image.blockWidth ELSE image.width,
      height |-> IF image.tiled THEN image.blockHeight ELSE rows,
      skip   |-> 0]

EncodedRowLen(width) == IF SubByte THEN PackedLen(width * BlockSamples, image.bits)
                        ELSE width * BlockSamples * ValueLen
ExpectedEncodedLen(spec) ==
  IF Subsampled
  THEN CeilDiv(spec.width, image.units[1]) * CeilDiv(spec.height, image.units[2])
       * UnitLen(image.units[1], image.units[2])
  ELSE spec.height * EncodedRowLen(spec.width)
----------------------------------------------------------------------------
\* The samples of an image: what a caller hands the writer, here one of a few patterns.
PatternByte(row, col, channel, k) ==
  CASE image.pattern = "ramp" -> (37 * row + 11 * col + 5 * channel + 101 * k + 3) % 256
    [] image.pattern = "edge" -> IF (row + col + channel) % 2 = 0 THEN 0 ELSE 255
    [] image.pattern = "flat" -> 0
    [] image.pattern = "wide" -> 128

\* The samples of a chroma pair are those of all its pixels.
Sample(row, col, channel) ==
  LET unit == IF channel > 0 /\ Subsampled THEN image.units ELSE <<1, 1>>
      value(k) == PatternByte((row \div unit[2]) * unit[2], (col \div unit[1]) * unit[1],
                              channel, k)
  IN [k \in 1..ValueLen |-> IF SubByte /\ image.pattern # "wide"
                            THEN value(k) % 2 ^ image.bits ELSE value(k)]

Filler == [k \in 1..ValueLen |-> 1]

\* The samples of the channels of a block, row by row.
BlockRow(spec, row) ==
  FlattenSeq([i \in 1..(spec.width * BlockSamples) |->
    LET col == spec.x + ((i - 1) \div BlockSamples)
        channel == IF image.planar THEN spec.plane ELSE (i - 1) % BlockSamples
    IN IF row < image.height /\ col < image.width THEN Sample(row, col, channel) ELSE Filler])
BlockBytes(spec) == FlattenSeq([r \in 1..spec.height |-> BlockRow(spec, spec.y + r - 1)])

\* compress_block.  The writer's spare bits are zero, other programs' may not be.
EncodedBlock(spec, samples) ==
  LET plain == IF Subsampled
               THEN SubsampledOf(samples, spec.width, spec.height, image.units[1], image.units[2])
               ELSE IF SubByte
               THEN EachRow(samples, spec.width * BlockSamples,
                            LAMBDA row : PackRow(row, image.bits, image.padBits * (2 ^ image.bits - 1)))
               ELSE EachRow(samples, EncodedRowLen(spec.width),
                            LAMBDA row : ApplyForwardPredictor(
                              EncodeRow(row, ValueLen, image.bigEndian), ValueLen, BlockSamples,
                              image.bigEndian, image.predictor))
  IN IF image.compression = "packbits" THEN PackBitsOf(plain) ELSE plain

\* GDAL's framing: the payload's length before it, its last bytes again after it.
InFileOrder(bytes) == IF image.bigEndian THEN Reverse(bytes) ELSE bytes
Leader(payload)  == IF image.wrapped THEN InFileOrder(BytesOf(Len(payload), 4)) ELSE <<>>
Trailer(payload) == IF image.wrapped /\ image.trailer
                    THEN SubSeq(payload, Most(1, Len(payload) - 3), Len(payload)) ELSE <<>>
----------------------------------------------------------------------------
\* Reading the payload of a block.
RangeOf(offset, len) ==
  IF offset + len <= Len(file) THEN Some(SubSeq(file, offset + 1, offset + len)) ELSE None

\* Lengths that no block of the model has are all one: FarTooLong.
FarTooLong == 65536
DeclaredLen(leader) ==
  LET bytes == InFileOrder(leader)
  IN IF bytes[3] = 0 /\ bytes[4] = 0 THEN bytes[1] + 256 * bytes[2] ELSE FarTooLong

HasLeader(raw) == Len(raw) >= 4 /\ 4 + DeclaredLen(SubSeq(raw, 1, 4)) <= Len(raw)

\* None for a trailer that is not the payload's end.
UnwrapLed(raw) ==
  LET end == 4 + DeclaredLen(SubSeq(raw, 1, 4))
  IN IF /\ image.trailer /\ end + 4 <= Len(raw)
        /\ SubSeq(raw, end - 3, end) # SubSeq(raw, end + 1, end + 4)
     THEN None ELSE Some(SubSeq(raw, 5, end))

UnwrapBlock(raw) ==
  LET len == Len(raw)
  IN IF HasLeader(raw) THEN UnwrapLed(raw)
     ELSE IF Len(raw) < 4 THEN Some(raw)
     ELSE IF /\ image.trailer /\ len >= 8
             /\ SubSeq(raw, len - 7, len - 4) = SubSeq(raw, len - 3, len)
          THEN Some(SubSeq(raw, 1, len - 4))
     ELSE Some(raw)

Within(payload, limit) == IF payload # None /\ Len(payload[1]) <= limit THEN payload ELSE None

Unwrapped(range) == IF range = None THEN None ELSE UnwrapBlock(range[1])

\* read_wrapped_gdal_block: the block with what should be around it.
WrappedPayload(offset, len, limit) ==
  IF offset < 4 THEN None
  ELSE Within(Unwrapped(RangeOf(offset - 4, len + IF image.trailer THEN 8 ELSE 4)), limit)

\* Mutant: the bytes around a block are not read, or not told from the block.
DirectPayloadOnly(offset, len, limit) ==
  IF len > limit THEN None ELSE Within(Unwrapped(RangeOf(offset, len)), limit)

GdalBlockPayload(offset, len, limit) ==
  LET wrapped == WrappedPayload(offset, len, limit)
      direct  == Unwrapped(RangeOf(offset, len))
  IN IF len > limit THEN None
     ELSE IF wrapped # None /\ Len(wrapped[1]) = len THEN wrapped
     ELSE IF direct # None THEN Within(direct, limit)
     ELSE wrapped

BlockPayload(offset, len, limit) ==
  IF image.ghost THEN GdalBlockPayload(offset, len, limit)
  ELSE IF len > limit THEN None ELSE RangeOf(offset, len)

ByteCountLimit(spec) ==
  IF image.compression = "none" THEN ExpectedEncodedLen(spec)
  ELSE 4 * ExpectedEncodedLen(spec) + 4096

\* decode_compressed_block; packed reads leave sub-byte samples in their bytes.
DecodedRows(spec, bytes) ==
  EachRow(bytes, IF Subsampled THEN Len(bytes) ELSE EncodedRowLen(spec.width),
          LAMBDA row : FixEndiannessAndPredict(row, ValueLen, BlockSamples, image.bigEndian,
                                               image.predictor))

DecodeBlock(spec, payload, packed) ==
  LET plain == Decompress(image.compression, payload, ExpectedEncodedLen(spec))
      rows  == DecodedRows(spec, plain[1])
  IN IF plain = None \/ Len(plain[1]) < ExpectedEncodedLen(spec) THEN None
     ELSE Some(IF Subsampled
               THEN ExpandSubsampledYCbCr(rows, spec.width, spec.height,
                                          image.units[1], image.units[2])
               ELSE IF SubByte /\ ~packed
               THEN UnpackSubByteBlock(rows, image.bits, spec.width * BlockSamples)
               ELSE rows)

DecodedLen(spec, packed) ==
  IF Subsampled THEN spec.width * spec.height * 3
  ELSE IF SubByte /\ ~packed THEN spec.width * BlockSamples * spec.height
  ELSE ExpectedEncodedLen(spec)

\* Of the one uncompressed strip of an image, the rows of the window.
IsBounded(spec) ==
  /\ ~image.ghost /\ ~image.tiled /\ image.compression = "none" /\ ~Subsampled
  /\ spec.y = 0 /\ spec.rows = image.height

Clipped(spec, w) ==
  IF IsBounded(spec)
  THEN [spec EXCEPT !.y = w.row, !.rows = w.rows, !.height = w.rows,
                    !.skip = w.row * EncodedRowLen(spec.width)]
  ELSE spec

ReadBlock(spec, packed) ==
  LET len == IF IsBounded(BlockSpec(spec.index)) THEN ExpectedEncodedLen(spec)
             ELSE blocks[spec.index].len
      payload == BlockPayload(blocks[spec.index].offset + spec.skip, len, ByteCountLimit(spec))
  IN IF blocks[spec.index].offset = 0 \/ blocks[spec.index].len = 0
     THEN Some([k \in 1..DecodedLen(spec, packed) |-> 0])
     ELSE IF payload = None THEN None
     ELSE DecodeBlock(spec, payload[1], packed)
----------------------------------------------------------------------------
\* Windows.  A read is of one band (<<band>>) or of all of them (None).
ValidWindow(w) == w.row + w.rows <= image.height /\ w.col + w.cols <= image.width
ValidBand(band) == band = None \/ band[1] < image.spp
IsEmpty(w) == w.rows = 0 \/ w.cols = 0

\* The blocks of a window: of every plane, or of the band's own.
SpecsFor(w, band) ==
  {Clipped(BlockSpec(plane * PerPlane + r * Across + c), w) :
     plane \in IF image.planar /\ band # None THEN {band[1]} ELSE Planes,
     r \in (w.row \div image.blockHeight)..(Least(Down, CeilDiv(w.row + w.rows, image.blockHeight)) - 1),
     c \in IF image.tiled
           THEN (w.col \div image.blockWidth)
                  ..(Least(Across, CeilDiv(w.col + w.cols, image.blockWidth)) - 1)
           ELSE {0}}

\* Mutant: a window that ends inside a byte is taken for aligned.
AlignedOnTheLeft(w, unitBits) == (w.col * unitBits) % 8 = 0

PackedWindowIsByteAligned(w, unitBits) ==
  /\ (w.col * unitBits) % 8 = 0
  /\ w.col + w.cols = image.width \/ ((w.col + w.cols) * unitBits) % 8 = 0

UnitBits(band) == IF band = None THEN image.spp * image.bits ELSE image.bits

\* Rows of packed bytes are copied as they are only where a row of the window is a row
\* of whole bytes on disk.
IsVerbatim(w, band) ==
  /\ SubByte /\ ~image.tiled
  /\ image.planar = (band # None)
  /\ PackedWindowIsByteAligned(w, UnitBits(band))

OutputRowLen(w, band, verbatim) ==
  IF verbatim THEN CeilDiv(w.cols * UnitBits(band), 8)
  ELSE w.cols * IF band = None THEN PixelLen ELSE ValueLen

\* Where the bytes of a block go: pairs of a place in the output and one in the block.
RowsShared(spec, w) == Most(spec.y, w.row)..(Least(spec.y + spec.rows, w.row + w.rows) - 1)
ColsShared(spec, w) == Most(spec.x, w.col)..(Least(spec.x + spec.cols, w.col + w.cols) - 1)

PackedMoves(spec, w, band) ==
  LET out == OutputRowLen(w, band, TRUE)
  IN {<<(row - w.row) * out + k,
        (row - spec.y) * EncodedRowLen(spec.width) + (w.col * UnitBits(band)) \div 8 + k>> :
        row \in RowsShared(spec, w), k \in 1..out}

SampleMoves(spec, w, band) ==
  LET stride == IF image.planar THEN ValueLen ELSE PixelLen       \* of the block
      out    == IF band = None THEN PixelLen ELSE ValueLen
      from   == IF ~image.planar /\ band # None THEN band[1] * ValueLen ELSE 0
      to     == IF image.planar /\ band = None THEN spec.plane * ValueLen ELSE 0
  IN {<<((row - w.row) * w.cols + col - w.col) * out + to + k,
        ((row - spec.y) * spec.width + col - spec.x) * stride + from + k>> :
        row \in RowsShared(spec, w), col \in ColsShared(spec, w), k \in 1..Least(stride, out)}

Copied(output, data, moves) ==
  LET source == [to \in {m[1] : m \in moves} |-> CHOOSE from \in {m[2] : m \in moves} :
                                                   <<to, from>> \in moves]
  IN [k \in DOMAIN output |-> IF k \in DOMAIN source THEN data[source[k]] ELSE output[k]]
----------------------------------------------------------------------------
NoRead == [todo |-> {}]

\* Before any block: the header, and where the structural metadata would be.
Init ==
  /\ image \in Images
  /\ file = <<73, 73, 42, 0, 8, 0, 0, 0>>
  /\ blocks = <<>> /\ phase = "writing" /\ read = NoRead

Written == DOMAIN blocks

WriteBlock ==
  /\ phase = "writing"
  /\ LET index == Cardinality(Written)
         spec  == BlockSpec(index)
         samples == BlockBytes(spec)
     IN IF index \in image.sparse
        THEN /\ blocks' = blocks @@ (index :> [offset |-> 0, len |-> 0])
             /\ UNCHANGED file
             /\ phase' = IF index + 1 \in BlockIndices THEN "writing" ELSE "ready"
        ELSE IF SubByte /\ ~FitsBits(samples, image.bits)
        THEN phase' = "refused" /\ UNCHANGED <<file, blocks>>
        ELSE \E payload \in {EncodedBlock(spec, samples)} :
               /\ file' = file \o Leader(payload) \o payload \o Trailer(payload)
               /\ blocks' = blocks @@ (index :> [offset |-> Len(file \o Leader(payload)),
                                                 len |-> Len(payload)])
               /\ phase' = IF index + 1 \in BlockIndices THEN "writing" ELSE "ready"
  /\ UNCHANGED <<image, read>>

\* A read starts with its output zeroed, or ends where the request is not valid.
Start(kind, w, band, verbatim) ==
  LET size == IF IsEmpty(w) THEN 0 ELSE w.rows * OutputRowLen(w, band, verbatim)
  IN /\ phase' = "reading"
     /\ read' = [kind |-> kind, window |-> w, band |-> band, verbatim |-> verbatim,
                 todo |-> IF IsEmpty(w) THEN {} ELSE SpecsFor(w, band),
                 output |-> [k \in 1..size |-> 0]]

Refuse(kind, w, band) ==
  /\ phase' = "failed"
  /\ read' = [kind |-> kind, window |-> w, band |-> band, verbatim |-> FALSE, todo |-> {},
              output |-> <<>>]

\* read_window_bytes and read_band_window_bytes, and the typed reads over them.
ReadWindow(w, band) ==
  /\ phase = "ready"
  /\ IF ValidWindow(w) /\ ValidBand(band) THEN Start("samples", w, band, FALSE)
     ELSE Refuse("samples", w, band)
  /\ UNCHANGED <<image, file, blocks>>

\* read_window_packed_bytes and read_band_window_packed_bytes.
ReadWindowPacked(w, band) ==
  /\ phase = "ready"
  /\ IF /\ ValidWindow(w) /\ ValidBand(band)
        /\ IsEmpty(w) \/ ~(SubByte /\ image.planar /\ band = None)
     THEN Start("packed", w, band, IsVerbatim(w, band))
     ELSE Refuse("packed", w, band)
  /\ UNCHANGED <<image, file, blocks>>

\* One task: read and decode a block, and copy its part of the window.
CopyBlock(spec) ==
  /\ phase = "reading"
  /\ \E data \in {ReadBlock(spec, read.verbatim)} :
       IF data = None
       THEN phase' = "failed" /\ read' = [read EXCEPT !.todo = {}]
       ELSE /\ read' = [read EXCEPT !.todo = @ \ {spec},
                          !.output = Copied(@, data[1],
                            IF read.verbatim THEN PackedMoves(spec, read.window, read.band)
                            ELSE SampleMoves(spec, read.window, read.band))]
            /\ UNCHANGED phase
  /\ UNCHANGED <<image, file, blocks>>

\* All blocks are copied; the samples of a packed read are packed again.
Return ==
  /\ phase = "reading" /\ read.todo = {}
  /\ phase' = "done"
  /\ read' = IF read.kind = "packed" /\ SubByte /\ ~read.verbatim /\ ~IsEmpty(read.window)
             THEN [read EXCEPT !.output =
                     RepackSubByteMsbFirst(@, OutputRowLen(read.window, read.band, FALSE),
                                           image.bits)]
             ELSE read
  /\ UNCHANGED <<image, file, blocks>>

Next ==
  \/ WriteBlock
  \/ \E w \in Windows, band \in {None} \cup {<<b>> : b \in 0..image.spp} :
       ReadWindow(w, band) \/ ReadWindowPacked(w, band)
  \/ \E spec \in read.todo : CopyBlock(spec)
  \/ Return

Spec == Init /\ [][Next]_vars
----------------------------------------------------------------------------
\* Properties.
Bands(band) == IF band = None THEN 0..(image.spp - 1) ELSE {band[1]}

\* What a caller should see: the samples the writer was given, zeros in sparse blocks.
BlockIndexOf(row, col, channel) ==
  (IF image.planar THEN channel * PerPlane ELSE 0)
  + (row \div image.blockHeight) * Across
  + IF image.tiled THEN col \div image.blockWidth ELSE 0
TrueSample(row, col, channel) ==
  IF BlockIndexOf(row, col, channel) \in image.sparse THEN [k \in 1..ValueLen |-> 0]
  ELSE Sample(row, col, channel)

TrueRow(row, col, cols, band) ==
  LET count == Cardinality(Bands(band))
  IN FlattenSeq([i \in 1..(cols * count) |->
       TrueSample(row, col + ((i - 1) \div count),
                  IF band = None THEN (i - 1) % count ELSE band[1])])
TrueBytes(w, band) ==
  FlattenSeq([r \in 1..w.rows |-> TrueRow(w.row + r - 1, w.col, w.cols, band)])

Finished(kind) == phase = "done" /\ read.kind = kind

\* A read of samples that returns gives exactly the samples that were written, whatever
\* the blocks, planes, predictor, byte order and framing (strip.rs:24, tile.rs:22), also
\* when a program has taken the leaders and trailers away that the file declares.
SamplesExact == Finished("samples") => read.output = TrueBytes(read.window, read.band)

\* A packed row as it is on disk: the spare bits of its last byte included.
DiskRow(row, band) ==
  LET spare == IF BlockIndexOf(row, 0, IF band = None THEN 0 ELSE band[1]) \in image.sparse
               THEN 0 ELSE image.padBits * (2 ^ image.bits - 1)
  IN PackRow(TrueRow(row, 0, image.width, band), image.bits, spare)

AlignedBytes(w, band) ==
  FlattenSeq([r \in 1..w.rows |->
    SubSeq(DiskRow(w.row + r - 1, band), (w.col * UnitBits(band)) \div 8 + 1,
           CeilDiv((w.col + w.cols) * UnitBits(band), 8))])
FreshBytes(w, band) ==
  FlattenSeq([r \in 1..w.rows |-> PackRow(TrueRow(w.row + r - 1, w.col, w.cols, band),
                                          image.bits, 0)])

\* A packed read of rows of whole bytes returns the bytes on disk, spare bits included;
\* any other one returns its samples packed from bit zero, and spare bits of zero
\* (lib.rs:716-740, lib.rs:797-815).
PackedExact ==
  Finished("packed") =>
    read.output = IF IsEmpty(read.window) THEN <<>>
                  ELSE IF ~SubByte THEN TrueBytes(read.window, read.band)
                  ELSE IF /\ ~image.tiled /\ image.planar = (read.band # None)
                          /\ \E last \in {(read.window.col + read.window.cols)} :
                               last = image.width \/ (last * UnitBits(read.band)) % 8 = 0
                          /\ (read.window.col * UnitBits(read.band)) % 8 = 0
                  THEN AlignedBytes(read.window, read.band)
                  ELSE FreshBytes(read.window, read.band)

ValidRequest ==
  /\ ValidWindow(read.window) /\ ValidBand(read.band)
  /\ ~(read.kind = "packed" /\ SubByte /\ image.planar /\ read.band = None)

\* A block that has no leader and trailer but looks as if it had: its first bytes are a
\* length it contains, or its last ones repeat.
LooksWrapped(index) ==
  \E payload \in {SubSeq(file, blocks[index].offset + 1, blocks[index].offset + blocks[index].len)} :
    \/ HasLeader(payload)
    \/ /\ image.trailer /\ Len(payload) >= 8
       /\ SubSeq(payload, Len(payload) - 7, Len(payload) - 4)
            = SubSeq(payload, Len(payload) - 3, Len(payload))

\* A valid read of a complete file fails only where the file declares leaders, its blocks
\* have none, and one of them looks as if it had (lib.rs:284).
FailsForCause ==
  phase = "failed" /\ ValidRequest =>
    image.ghost /\ ~image.wrapped /\ \E index \in Written : LooksWrapped(index)

\* "The direct payload-range read must win" where there are no leaders (lib.rs:2173).
DirectReadWins == phase = "failed" /\ ValidRequest => ~(image.ghost /\ ~image.wrapped)

\* A band read at full extent has its plane's "exact on-disk bytes (trailing padding
\* included) for both chunky and planar storage" (lib.rs:771): of the one band of an
\* image, the image's own.
BandPackedIsOnDisk ==
  /\ Finished("packed") /\ SubByte /\ ~image.tiled /\ image.spp = 1 /\ read.band # None
  /\ read.window = [row |-> 0, col |-> 0, rows |-> image.height, cols |-> image.width]
  => read.output = AlignedBytes(read.window, None)
=============================================================================
