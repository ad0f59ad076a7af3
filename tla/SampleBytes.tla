----------------------------- MODULE SampleBytes -----------------------------
(***************************************************************************)
(* The bytes of one block: how tiff-writer turns samples into rows of      *)
(* packed or predicted bytes, and how tiff-reader turns them back.  The    *)
(* samples of a block are their bytes as the host (little-endian) holds    *)
(* them; a sample narrower than a byte takes one byte.  Of the codecs, the *)
(* reader's own PackBits is here; the lossless ones of other crates are    *)
(* not, and an uncompressed block stands for what they return.             *)
(***************************************************************************)
EXTENDS Integers, Sequences, FiniteSetsExt, SequencesExt

Byte == 0..255

Some(x) == <<x>>
None    == <<>>

CeilDiv(a, b) == (a + b - 1) \div b

\* The rows of a block, each changed by Op (chunks_exact; a block has whole rows).
EachRow(bytes, rowLen, Op(_)) ==
  FlattenSeq([r \in 1..(Len(bytes) \div rowLen) |->
                Op(SubSeq(bytes, (r - 1) * rowLen + 1, r * rowLen))])
----------------------------------------------------------------------------
\* Samples of 1, 2 and 4 bits: the first one takes a byte's highest bits.
Shift(bits, i) == 2 ^ (8 - bits * ((i % (8 \div bits)) + 1))
PackedLen(samples, bits) == CeilDiv(samples * bits, 8)

PackRow(row, bits, padding) ==
  LET perByte == 8 \div bits
      Value(i) == IF i < Len(row) THEN row[i + 1] % 2 ^ bits ELSE padding
  IN [j \in 1..PackedLen(Len(row), bits) |->
        MapThenSumSet(LAMBDA k : Value(perByte * (j - 1) + k) * Shift(bits, k), 0..(perByte - 1))]

\* The writer refuses a value that does not fit.
FitsBits(samples, bits) == \A i \in DOMAIN samples : samples[i] < 2 ^ bits

UnpackRow(row, bits, rowSamples) ==
  [i \in 1..rowSamples |->
     (row[(i - 1) \div (8 \div bits) + 1] \div Shift(bits, i - 1)) % 2 ^ bits]

UnpackSubByteBlock(packed, bits, rowSamples) ==
  EachRow(packed, PackedLen(rowSamples, bits), LAMBDA row : UnpackRow(row, bits, rowSamples))

RepackSubByteMsbFirst(samples, rowSamples, bits) ==
  EachRow(samples, rowSamples, LAMBDA row : PackRow(row, bits, 0))
----------------------------------------------------------------------------
\* Values of n bytes in a row, and the byte order of a file.
Number(bytes) == FoldFunction(+, 0, [i \in DOMAIN bytes |-> bytes[i] * 256 ^ (i - 1)])
BytesOf(value, n) == [i \in 1..n |-> (value \div 256 ^ (i - 1)) % 256]

ValueOf(row, n, i) == SubSeq(row, (i - 1) * n + 1, i * n)
Values(row, n) == [i \in 1..(Len(row) \div n) |-> Number(ValueOf(row, n, i))]
RowOf(values, n) == FlattenSeq([i \in DOMAIN values |-> BytesOf(values[i], n)])

SwapValues(row, n) ==
  FlattenSeq([i \in 1..(Len(row) \div n) |-> Reverse(ValueOf(row, n, i))])
FixEndianness(row, n, bigEndian) == IF bigEndian THEN SwapValues(row, n) ELSE row
EncodeRow(row, n, bigEndian)     == IF bigEndian THEN SwapValues(row, n) ELSE row

\* Mutant: the predictor runs from left to right, over values that are already differences.
DifferencesInPlace(values, back, modulus) ==
  LET d[i \in DOMAIN values] ==
        IF i > back THEN (values[i] - d[i - back]) % modulus ELSE values[i]
  IN d

\* Each value less the one a pixel before, and back: modulo the values' width.
Differences(values, back, modulus) ==
  [i \in DOMAIN values |->
     IF i > back THEN (values[i] - values[i - back]) % modulus ELSE values[i]]

Sums(values, back, modulus) ==
  LET s[i \in DOMAIN values] ==
        IF i > back THEN (values[i] + s[i - back]) % modulus ELSE values[i]
  IN s

\* Forward predictors, on the bytes of one row in the file's order.
ForwardHorizontal(row, n, samples, bigEndian) ==
  EncodeRow(RowOf(Differences(Values(FixEndianness(row, n, bigEndian), n), samples, 256 ^ n), n),
            n, bigEndian)

\* Byte planes: the most significant bytes of all values first.
BytePlanes(row, n) ==
  LET count == Len(row) \div n
  IN [k \in 1..Len(row) |-> row[((k - 1) % count) * n + n - (k - 1) \div count]]
FromBytePlanes(planes, n) ==
  LET count == Len(planes) \div n
  IN [k \in 1..Len(planes) |-> planes[(n - 1 - ((k - 1) % n)) * count + (k - 1) \div n + 1]]

ForwardFloat(row, n, samples, bigEndian) ==
  Differences(BytePlanes(FixEndianness(row, n, bigEndian), n), samples, 256)

ApplyForwardPredictor(row, n, samples, bigEndian, predictor) ==
  CASE predictor = "none"       -> row
    [] predictor = "horizontal" -> ForwardHorizontal(row, n, samples, bigEndian)
    [] predictor = "float"      -> ForwardFloat(row, n, samples, bigEndian)

FixEndiannessAndPredict(row, n, samples, bigEndian, predictor) ==
  CASE predictor = "none"       -> FixEndianness(row, n, bigEndian)
    [] predictor = "horizontal" ->
         RowOf(Sums(Values(FixEndianness(row, n, bigEndian), n), samples, 256 ^ n), n)
    [] predictor = "float"      -> FromBytePlanes(Sums(row, samples, 256), n)
----------------------------------------------------------------------------
\* PackBits.  None when a run is cut short; another program's encoder writes runs
\* of equal bytes, single bytes and bytes that say nothing.
RunLen(bytes) ==
  CHOOSE k \in 1..Len(bytes) : /\ \A i \in 1..k : bytes[i] = bytes[1]
                               /\ k < Len(bytes) => bytes[k + 1] # bytes[1]
PackBitsOf(bytes) ==
  LET from[i \in 1..(Len(bytes) + 1)] ==
        IF i > Len(bytes) THEN <<128>>
        ELSE LET run == RunLen(SubSeq(bytes, i, Len(bytes)))
             IN (IF run = 1 THEN <<0, bytes[i]>> ELSE <<257 - run, bytes[i]>>) \o from[i + run]
  IN from[1]

DecompressPackBits(data, limit) ==
  LET after(run, rest) == IF rest = None THEN None ELSE Some(run \o rest[1])
      from[c \in 1..(Len(data) + 1)] ==
        IF c > Len(data) THEN Some(<<>>)
        ELSE IF data[c] = 128 THEN from[c + 1]
        ELSE IF data[c] < 128
             THEN IF c + data[c] + 1 > Len(data) THEN None
                  ELSE after(SubSeq(data, c + 1, c + data[c] + 1), from[c + data[c] + 2])
        ELSE IF c = Len(data) THEN None
             ELSE after([i \in 1..(257 - data[c]) |-> data[c + 1]], from[c + 2])
  IN IF from[1] # None /\ Len(from[1][1]) <= limit THEN from[1] ELSE None

Decompress(compression, data, limit) ==
  IF compression = "packbits" THEN DecompressPackBits(data, limit)
  ELSE IF Len(data) <= limit THEN Some(data) ELSE None
----------------------------------------------------------------------------
\* YCbCr with one chroma pair for h x v pixels: a block is its units, row by row,
\* each the luma of its pixels and then the pair.  Another program writes them.
UnitLen(h, v) == h * v + 2

SubsampledOf(pixels, width, height, h, v) ==
  LET across == CeilDiv(width, h)
      Pixel(row, col, k) == IF row < height /\ col < width
                            THEN pixels[(row * width + col) * 3 + k] ELSE 255
      Unit(top, left, k) == IF k <= h * v
                            THEN Pixel(top + ((k - 1) \div h), left + ((k - 1) % h), 1)
                            ELSE Pixel(top, left, k - h * v + 1)
  IN FlattenSeq([u \in 1..(across * CeilDiv(height, v)) |->
                   [k \in 1..UnitLen(h, v) |->
                      Unit(((u - 1) \div across) * v, ((u - 1) % across) * h, k)]])

\* Sample k of the pixel at row and col, from its unit when a row has across units.
FromUnit(packed, across, h, v, row, col, k) ==
  packed[((row \div v) * across + (col \div h)) * UnitLen(h, v)
         + IF k = 0 THEN (row % v) * h + (col % h) + 1 ELSE h * v + k]

ExpandSubsampledYCbCr(packed, width, height, h, v) ==
  [i \in 1..(width * height * 3) |->
     FromUnit(packed, CeilDiv(width, h), h, v, (i - 1) \div (3 * width),
              ((i - 1) \div 3) % width, (i - 1) % 3)]
=============================================================================
