# A verification project for geotiff-rust

TLA+ models of the parts of this workspace where bytes can end up in the wrong
place or be taken for something they are not: the streaming TIFF writer and the
array and tile writers above it, the image builder and the reader that must accept
what it accepts, the way of samples through predictors, packing and blocks back to
windows, georeferencing, the Cloud Optimized GeoTIFF (COG) writer, the opening of
files with its budgets, the concurrent block reads with their shared cache, and the
HTTP range sources. TLC checks the models on small instances; TLAPS proves for every
instance the file layout, the safety of the TIFF writer, that rasters and COGs read back
and that an unfinished COG never misleads, the agreement of image builder and reader,
the safety of concurrent window reads, of their cache and of the range sources, and
the bounds on opening. `PROJECT.json` maps each definition to the lines it models, and
lists the runs, the mutants that show each property can fail, the hazards and the
theorems.

    tlc -workers 2 -config WriterFaults.cfg MCTiffWriter.tla
    tlapm TiffWriterProofs.tla

## 1. Inventory

| Component | State | Operations | Modelled |
|---|---|---|---|
| TIFF writer (`tiff-writer/src/writer.rs`, `encoder.rs`) | the sink, per image its block records, the header offset, the variant asked for | `new`, `add_image`, `write_header_prefix`, `write_block`, `write_block_raw`, `write_block_raw_segmented`, `write_block_sparse`, `finish` | `TiffWriter` |
| Image builder (`tiff-writer/src/builder.rs`) | the configuration of an image | setters, `validate`, block geometry, the tags of its IFD | `ImageBuilder`, `ImageConfig`, `ImageModel` |
| Encoders (`compress.rs`, `sample.rs`) | none | packing, byte order, predictors, codecs | `SampleBytes`; the codecs of other crates not |
| TIFF reader, files (`tiff-reader/src/header.rs`, `ifd.rs`, `tag.rs`, `lib.rs`) | the parsed IFDs | parse of header, chain and tags, both layouts, fetch of a block | `TiffFile`, `GeoTiffOpen`, `SampleLayout` |
| TIFF reader, windows (`strip.rs`, `tile.rs`, `block_decode.rs`) | output of a call, its tasks | window, band and packed reads by strips or tiles | `BlockReads`, `BlockPipeline` |
| Block cache (`tiff-reader/src/cache.rs`) | LRU list, byte counter | `get`, `insert` | `LruCache` |
| Filters and pixels (`filters.rs`, `pixel.rs`) | none | PackBits, predictors, color conversion | `SampleBytes`, `SampleLayout`; not the arithmetic of colors |
| Sources (`source.rs`, `io.rs`) | none | positioned reads | only that they may fail |
| GeoTIFF reader (`geotiff-reader/src/lib.rs`) | base and overview IFDs, the pending SubIFDs, the georeferencing | choice of the base image, overview discovery, checks of the model tags | `GeoTiffOpen`, `GeoTags` |
| HTTP sources (`cog.rs`, `cog_async.rs`, `http_range.rs` of geotiff-reader) | object length, chunk cache | open, read a range | `HttpRange` |
| Georeferencing (`geotiff-core`: `crs.rs`, `geokeys.rs`, `transform.rs`) | the key directory | set, remove, serialize, parse; apply and extract a CRS; affine transforms | `GeoKeys`, `GeoTransform`, `GeoTags` |
| COG writer (`geotiff-writer/src/cog.rs`) | raw tile store, written flags, spool, records, sink | `write_tile`, `write_array_to`, `finish` | `CogWriter` |
| GeoTIFF builder (`geotiff-writer/src/builder.rs`, `sample.rs`, `raster_copy.rs`) | a configuration | georeferencing setters, images for the writers, blocks cut out of arrays | `GeoTags`, `GeoTiffWriter`, `CogWriter` |
| Streaming tile writer (`geotiff-writer/src/tile_writer.rs`) | a `TiffWriter`, written flags | `write_tile`, `write_tile_3d`, `finish` | `GeoTiffWriter` |
| tests, fuzz targets, scripts, containers, docs | - | - | no |

How they interact. A GeoTIFF or COG builder configures `ImageBuilder`s. The TIFF
writer streams their blocks to its sink and writes the IFDs behind them; the COG
writer does it the other way round, so it keeps everything in temporary stores
until the layout is known. Both use the encoder for IFDs and patches. On the other
side `TiffFile` holds parsed IFDs, one source and one block cache that all calls
and all their rayon tasks share; the source may be an HTTP one, with a chunk cache
of the same construction. GeoTIFF files find their overviews among the IFDs.
Writer and reader share no code about what an image is: `tiff-core` gives them the
codes, each validates, counts and computes lengths for itself.

What is hard, and what must hold (`hazards` in `PROJECT.json` has the lines):

- *TIFF writer*: blocks come in any order, some writes fail halfway and are
  repeated, the header is reserved before the variant is known, block arrays are
  written as placeholders and patched. What a reader finds after any of these steps
  must be true, and the choice of the variant must be neither late nor early.
- *Image builder and reader*: setters undo each other; two validations, two
  computations of block counts, heights and lengths, and two sets of defaults must
  agree, and a block of another sample type must not pass for a good one.
- *Samples to bytes*: rows end inside bytes, blocks end outside the image,
  differences run one way and are undone the other, in the byte order of the file;
  a GDAL-structured file may have lost what it says is around its blocks.
- *Georeferencing*: setters in any order replace each other in part, a raster type
  set last changes what a tiepoint means, and the keys of one reference system must
  not show through those of the next.
- *Tile writer*: it keeps flags of its own beside the records of the `TiffWriter`; a
  planar tile may fail between its bands, and `finish()` fills in what is missing.
- *COG writer*: offsets are planned before anything is written and the data come
  last. Plan and emission must agree; an unfinished file must not mislead.
- *Opening*: pointers may dangle, meet or run in circles, and every tag may be huge. The
  work must stay within the budgets, and no good file may be refused.
- *Window reads*: many tasks miss the same block, decode it twice and insert it
  twice; packed and unpacked forms and partial reads of one giant strip go through
  one cache. The result may depend on the file alone.
- *HTTP*: the object may be replaced between two range requests; responses break
  off, run on or hold another range.
- *Caches*: the byte counter must follow replacements and both kinds of eviction.

Nothing here has a protocol between machines or a persistent state of its own:
"crash recovery" means what the bytes of a half-written file say to a reader.

## 2. Modules

    ImageBuilder <- IfdLayout <- TiffFile <- TiffWriter <- GeoTiffWriter <- MCGeoTiffWriter
         ^                          ^  ^     (MCTiffWriter;  INSTANCE TiffFileContract)
         |                          |  +---- CogWriter <- MCCogWriter
         |              SharedLemmas <- TiffWriterProofs (also extends GeoTiffWriter)
         |                           <- CogWriterProofs (also extends CogWriter)
         |
         +- ImageConfig <- SampleLayout <- ImageModel <- MCImageModel
                                                     <- ImageModelProofs

    GeoTiffOpen <- MCGeoTiffOpen
                <- GeoTiffOpenProofs (INSTANCE SharedLemmas)

    SampleBytes <- BlockPipeline <- MCBlockPipeline
    GeoKeys, GeoTransform <- GeoTags <- MCGeoTags
                                     <- GeoTagsProofs (also extends SharedLemmas)

    LruCache <- BlockReads <- MCBlockReads
             <- HttpRange  <- MCHttpRange

    SharedLemmas (also extends LruCache) <- BlockReadsProofs (also extends BlockReads)
                                         <- HttpRangeProofs (also extends HttpRange)

- **ImageBuilder**: block counts, sizes and the sorted tag list of an IFD. A tag is
  its code and the encoded length of its value. `Managed` is the list extra tags may
  not use. The file layout runs use images without a predictor or a color model.
- **ImageConfig**: the rest of the image builder. Its setters, `ValidImage` (all of
  `validate`), the tags about samples (`ImageTags`), and what `write_block` does with
  a block of samples of a type: `Encodes`, `EncodedBlock`.
- **SampleLayout**: what tiff-reader makes of such tags, written by anyone:
  `HasRasterLayout` with the color model, `DecodesPixels`, `PixelReads` (which stored
  channels a decoded one is computed from), block geometry and lengths, `DecodesBlock`.
- **ImageModel**: one image from the first setter to its pixels, or a foreign IFD from
  opening to its pixels.
- **IfdLayout**: the three computations of the encoder of where things lie
  (`estimate_ifd_size`, `write_ifd`, `find_tag_value_offset`), each translated on its
  own, so that their agreement is a property.
- **TiffFile**: the bytes of a file as fields `[off, len, val]` that do not overlap
  (`Overwrite`), and the reader that parses them: header, chain, arrays, blocks. A
  number that is not where it is looked for is unreadable, not guessed.
- **TiffWriter**: one action per public operation, and one per write of `finish()`.
- **TiffFileContract**: the abstract specification of a TIFF writer: images are
  added, blocks given at most once, and after closing the images become readable one
  by one, whole or not at all. `ImplementsContract` is the refinement; `readable` is
  mapped to what `TiffFile` decodes from the model's bytes.
- **SampleBytes**: real bytes. Packing of sub-byte samples, byte order, horizontal and
  floating-point predictors, PackBits, chroma units, and what undoes them.
- **BlockPipeline**: an image written block by block into bytes, framed or not, and
  then one read of a window: of samples, of one band, or of packed rows. The blocks of
  a window are copied in any order.
- **GeoKeys**: the key directory with its two parameter tags, and the reference system
  taken from keys (`CrsFromGeoKeys`) or applied to them (`ApplyToGeoKeys`).
- **GeoTransform**: the affine transform, its tags, bounds and overview scaling.
- **GeoTags**: the georeferencing setters of `GeoTiffBuilder`, the tags of the base
  image and of an overview, and what `GeoTiffFile` reads from them.
- **LruCache**: the cache as operators on `[entries, bytes]`, least recently used
  first. The `lru` crate's own capacity is `MaxSlots`.
- **BlockReads**: callers, their requests and a task per block, with the stages at
  which the code holds no lock.
- **HttpRange**: readers, chunk requests, a server that may replace its object.
- **CogWriter**: staging, overviews, spool, plan, emission.
- **GeoTiffWriter**: whole arrays block by block, or tiles in any order with the
  streaming tile writer. It extends the `TiffWriter` below it: each step of its own that
  touches the file is a step of that module, and the images rasters make are among its
  `Builders`.
- **GeoTiffOpen**: the chain parsed IFD by IFD within the budgets, the choice of the base
  image, the overviews of the chain and the traversal of the SubIFD tree.

State and code. `images[i].records` is `block_records`, `headerOffset` is
`header_offset`, `file`/`len` the sink. `phase` and `cur` are the program counter of
`finish()`. In `ImageModel` `builder` is the `ImageBuilder`, `ifd` what `add_image`
derives from it, `results` what block reads return. In `BlockPipeline` `file` is the
file byte for byte, `blocks` the two block arrays, `read` one call with the blocks its
tasks still have to copy. In `GeoTags` `builder` has the georeferencing fields of
`GeoTiffBuilder`, `tags` and `overview` the tags of the two images, `opened` the
`GeoTiffFile`. In `BlockReads` `calls[c].tasks` are the rayon tasks of one call, and
`output` the buffer behind its mutex. In `HttpRange` `length` is the length learnt at
open. In `CogWriter` `staged` is the `RawTileStore`, `spool` the `BlockSpool`, `planned`
the `CogLayout`, `cur` the patch of `emit_cog` that comes next. In `GeoTiffWriter` `written` is the field of that name, `call` the
local state of `write_tile_3d` between two bands. In `GeoTiffOpen` `usage` is
`metadata_value_bytes`, `pending` the stack and `seen` the set of `collect_subifd_overviews`.
`older` of `BlockReads`, `calls` of `GeoTags`, `count`, `faults` and the like exist for properties and
bounds.

### Abstractions

*Files.* A write of at most eight bytes is atomic and writes reach the file in
order: a crash is modelled as the prefix of writes that got out, not as pages
reordered by a power failure. Larger writes (block payload, IFD, header, spool) may
break off in the middle. Sums do not overflow `u64` (the code checks them; no small
instance gets there); the classic limit is the constant `Limit`, and sizes are real.

*Images.* Tags have the types the reader's accessors ask for; `InkSet::Unknown(1)` and
CMYK are the same code and the same thing; no palette has more than 2^16 entries. The
features are the default ones (JPEG and Zstd, no half floats). A block of samples is
its type and its number of samples; that codecs restore what they are given is taken
for granted, that their lengths are compared is not. `DecodesBlock` says codec by codec
which lengths pass: LZW asks its decoder for at most 8192 bytes at a time and returns as
soon as it has enough (`filters.rs:198`), so that it notices a block that is too long
only if it should not have a multiple of 8192 bytes (`LzwCuts`). How well such a block
compresses is a choice of the model (`Outcomes`): its payload may exceed the limit on
what is read, and is then refused (`PayloadMayExceed`).

*Bytes.* `BlockPipeline` runs on a little-endian host. Uncompressed stands for the
lossless codecs of other crates, PackBits, which only the reader has, for any codec
whose blocks differ in length from their samples. Horizontal differences are taken at
8 and 16 bits, floating-point ones at 32. The text of GDAL's structural metadata is
parsed to the two flags it sets; framing declared without a leader, or with a trailer
only, is left out. Blocks are written in index order; that their order
does not matter is `TiffWriter`'s. Cache, budgets and faulty sources are `BlockReads`'s.

*Georeferencing.* A double is an integer in a unit in which pixel sizes are even, or
`NotFinite`; rounding is left out. Keys are a function of their ids, a text is its
character codes. The nodata tag is in `RasterWrites`. Key directories that other
programs wrote are not enumerated, the reader's parser runs on serialized ones.

*COGs and rasters.* In `CogWriter` the samples of a tile are "zero", "data" or "fill";
"data" has no zero samples and its averages are not zero, so a sparse block is one made
of zeros only. All images of a COG carry the same extra tags. In `BlockReads` a row is
one value: columns, bit packing and filters are `BlockPipeline`'s. In `GeoTiffWriter`
samples are bytes, and "zero" or "data" as in a COG; calls refused before they change
anything (offsets that are no tile corner, arrays of another height or width, arrays of
`write_3d_to` with another number of bands) are left out, and so
is the default of 256 by 256 tiles for a raster without any, which is a raster with
such tiles. `write_2d_to` does not compare its one band with the builder's number
(`builder.rs:699`), so `raster.by` tells the two array writers apart: `extract_block_2d`
knows of no planes, and the blocks of later ones lie below the raster for it. That a
strip which ends above its beginning panics (`Panic`) is the subtraction's overflow check
or, in a build without, the allocation of the vector.

*Opening.* In `GeoTiffOpen` a file is a graph of directories: of a tag only the length
of its value counts, an empty SubIFDs tag is an absent one, and georeferencing tags are
well-formed. Each SubIFD is read with a fresh budget of value bytes (`ifd.rs:709`),
which the model keeps: only the chain adds up.

## 3. Runs

All runs set `CHECK_DEADLOCK FALSE`: every model ends when its callers are done.

| Run | Question | Instance |
|---|---|---|
| `WriterFaults` | Does a failure of the sink anywhere cost more than the write it hit? | two images, three blocks, a sink that starts at 2 and holds 24 bytes, one failure, a limit that some files reach |
| `WriterLayout` | Do reader and writer agree on strips, tiles, planes, extra tags, and is the variant chosen neither late nor early? | one-element arrays (inline), two-element ones (deferred), odd lengths, refused configurations; limit 400 with sinks of 0 and 274 bytes: a classic one-strip IFD is 126 bytes, so the comparisons with the limit are met from both sides |
| `ImageModels` | Does the reader read what the builder accepts, into the same blocks and channels? | any two setters from sixteen builders near every check (every color model, codec and predictor; an LZW tile of 8192 samples), one block of any of ten sample types; some six thousand foreign IFDs |
| `PipelineReads` | Are the samples of every window the samples written? | 31 images of five columns (eleven for bits) by three or four rows, strips and tiles that do not divide them; every predictor, both byte orders, framing present, stripped or partly there, payloads that look like leaders; windows over every edge, empty and beyond the image |
| `BlockReads` | Can tasks of two calls corrupt the cache, each other or the bounded read of one strip? | strips and planar tiles, packed and not; single strips with byte counts that are missing, short, exact and long; an array that lacks a strip; five bytes in two slots; a budget some strips exceed; one source error |
| `HttpReads` | Do reads of a shared source return, with the right bytes, also at the edges of the object? | both sources, two readers with a read each, cache of five bytes in two slots, a replacement by a version of the same length or a shorter one, one bad response, servers that do not state the total |
| `RasterWrites` | Does a raster read back however it was written, and do the two levels of bookkeeping agree? | one and two bands, chunky and planar, tiles that fit and that are padded, two strips, nodata, sparse, in every way to write each, `write_2d_to` for two bands included; sinks at 0, 1 and before 191 bytes; limit 190; one failure |
| `GeoTags` | Is georeferencing read as it was set last, and covered by its overview? | any three of fifteen setters with valid, degenerate and not finite values; keys of every type, empty, on both sides of the longest value; one overview of level 2 |
| `GeoTiffOpens` | Is opening bounded by its budgets, and are exactly the right overviews found? | all small chains with every kind of subfile and georeferencing, SubIFD trees of four nodes with cycles and shared nodes, tag values on both sides of each budget, more pointers than nodes |
| `Cogs` | Does a finished COG read back, and what does an unfinished one say? | chunky, planar, SubIFDs, chained, no overview; three tiles in a column, three in a row, and four; levels 4, 2, 2 as given, padding and nodata; sinks at 0 and 11; the limit 546 is passed by some plans and not by others; one failure |
| `CogLongSink`, `CogRefusal` | violations, see section 4 | the smallest COG that shows each |

Why the bounds are enough. Two images are the fewest with a link between IFDs, and
two blocks the fewest with a deferred array; a third image or block repeats the same
step. One failure is enough because a failed `finish()` ends the writer, and a failed
block write leaves only unrecorded bytes that a second one leaves as well (the proofs
below hold for any number). Two callers and two slots are enough for every pair
of cache operations to meet; the cache of `BlockReads` holds no two whole blocks of
the larger images, and that of `HttpReads` not all chunks of the object, so that reads
evict. Three IFDs within the budget and one beyond it, five nodes and depth two put
each limit of `GeoTiffOpen` within reach of a file that passes and one that does not.
A replacement by a version of equal length is the one the code cannot notice.
Two setters of `ImageModels` reach every pair that undo each other from builders that
already stand next to a check; its proofs hold for any number of calls. Blocks are
copied independently of each other, so `PipelineReads` needs images of a few blocks, but
every way a window, a block and a byte can overlap. Three setters of `GeoTags` are a
scale, an origin and a raster type in any order: the longest chain one result depends
on; its proofs hold for any number of setters. `MaxShort = 8` stands for 65535, so that
key values pass the limits of a SHORT.

Fairness. `BlockReads` has weak fairness of each call's own steps: rayon's workers and
the calling thread keep running, and no step waits for anything but a mutex held
for a bounded time. Only a call's tasks are obliged to move, never a caller to
start another call. `HttpRange` has weak fairness of each reader's lookup, answer and
store: a request ends with an answer or a timeout (the default options set all three
timeouts; a client configured without any is outside of this assumption). The writers
and the other models are sequential, and no liveness is claimed of them.

## 4. Disagreements with the code's own words

Two are runs:

- `CogLongSink`: `emit_cog` plans block offsets from the start position and the size of
  the IFDs, and copies the blocks to the *end* of the sink (`cog.rs:866`). Over a sink
  that holds more bytes than the layout, all offsets are wrong, while
  `cog.rs:1007` speaks of any `Write + Seek` target. `ReadsBack` of the other runs holds for
  sinks that end where the COG begins.
- `CogRefusal`: after a store error between two bands of a planar tile the retry is
  refused with "has already been written" (`error.rs:39`), because the refusal looks at the
  first band only (`cog.rs:1325`); `finish()` then fills the missing bands silently. The
  streaming tile writer refuses in the same way (`tile_writer.rs:197`); there `FlagsAgree`
  holds, so that what `finish()` fills in is exactly what is missing.

Six smaller ones have a configuration each, to be run by hand; TLC stops with the
counterexample:

- `CogAlignment.cfg` (module `MCCogWriter`, `IfdsAligned`): the comment at `cog.rs:627`
  wants IFDs on a word boundary. Only the first one is aligned: deferred values of odd
  length (GDAL_NODATA) move the next.
- `ImageModelsExtras.cfg` (`MCImageModel`, `UndeclaredExtrasAreRead`): the writer accepts
  channels without a declared meaning and says the reader takes them for Unspecified
  (`tiff-writer/src/builder.rs:929`); of a mask it takes none, and the image is refused.
- `ImageModelsOverlong.cfg` (`MCImageModel`, `OverlongIsRefused`): `filters.rs:194` and
  `docs/ONYX-FORK-CHANGES.md:475` say that the guard of LZW still catches an oversized
  stream. It does not if the expected length is a multiple of 8192: 16-bit samples written
  to an 8-bit LZW tile of 128 by 64 are read as 8192 bytes, the first half of them. The
  test of the guard (`filters.rs:745`) expects fewer bytes than one request.
- `PipelineDirect.cfg` (`MCBlockPipeline`, `DirectReadWins`): where a file declares leaders
  its blocks no longer have, a test says that the direct payload read must win
  (`tiff-reader/src/lib.rs:2173`). A payload that begins with a small number or ends
  with the same four bytes twice is unwrapped all the same, and the read fails.
- `PipelineBandPacked.cfg` (`MCBlockPipeline`, `BandPackedIsOnDisk`): `lib.rs:771` promises a
  band read at full extent the bytes on disk, padding included, for both storages. A
  chunky one is unpacked and packed again, with padding of zeros.
- `GeoTagsModelType.cfg` (`MCGeoTags`, `ModelTypePreserved`): `epsg` says a model type that
  was already set is preserved (`geotiff-writer/src/builder.rs:112`). One that is none
  of the three known ones becomes geocentric.

Known limits the properties name, which no text of the repository denies: a mask of
several channels and subsampled YCbCr with more than three are accepted and unreadable;
signed or floating-point samples are accepted as MinIsWhite or CMYK, readable and not
decodable; 64-bit integers with LERC are accepted by `add_image` and refused by
`write_block` (`KnownUnreadable`, `KnownUndecodable`, `RefusalsAreKnown`). `write_2d_to`,
"a single-band 2D array" (`geotiff-writer/src/builder.rs:730`), takes builders of several
bands (`RefusedForBandsOnly`): then a chunky block is refused for its length after the
header is out, unless it is sparse; a later plane of strips panics, is refused, or, where it
begins at the very end of the raster, has no samples and is stored sparse even if nodata
is not zero (`ReadsBack`); and planar tiles end in a file whose other bands are filled, without an
error. A key set to an
empty list of doubles makes a file the reader refuses (`AcceptedOpens`); trailing NULs of
a text are lost and a reference system with an empty part is read without it (`AsRead`,
`CrsAsRead`).

## 5. Proofs

`SharedLemmas` follows an IFD from the builder to the reader, for every builder, tag
list and variant:

- `BuiltTags`: what `build_image_tags` gives for a builder that validates is strictly
  sorted, its extra tags included, with one array of offsets and one of byte counts. The
  sort is stated by ranks (`RankOf`), so that a counting argument shows it is a bijection.
- `EstimateIsExact`: `estimate_ifd_size` is exactly what `write_ifd` writes.
- `DeferredValuesDisjoint`: deferred values lie apart and within the IFD.
- `SlotsApart`: no two numbers of an IFD share a byte. A *slot* names a number of an IFD
  that is read back or patched: the count, the next pointer, a tag's code, a value's
  offset, the length and each element of a block array. Each lies in a region (the count,
  an entry, the pointer, a deferred value), and regions lie in a row (`RegionsInOrder`).
- `ReadsCount` to `ReadsChain`: in bytes that hold what the slots should hold, the reader
  of `TiffFile` finds the entries, the arrays, the blocks, and the chain of IFDs.

The sums over tags are recursive functions. `RunningSum` shows that such
sums exist, are unique and grow, by induction over a prefix of the numbers. The library's
induction rules take an operator, so `SetInduction` proves the step from the finiteness of
intervals with a set in its place.

`TiffWriterProofs` proves, for every set of builders, variants, lengths, sinks, limits
and any number of failures:

- `TypeCorrect`: `Spec => []TypeOK`.
- `WriterInvariant`: `Spec => []WriterInv`, where
  `WriterInv == TypeOK /\ Placed /\ PayloadsIntact`.
- `BlocksStayIntact`: `Spec => []PayloadsIntact`.
- `DataSurvives`: `Spec => PayloadsSurvive`, an action property.
- `FullInvariant`: `Spec => []FullInv`, where
  `FullInv == WriterInv /\ FileInv /\ RecordsInSink /\ LayoutInv`.
- `NeverFailsLate`, `ClassicStaysClassic`, `AutoChoosesExactly`:
  `Spec => []NoLateFailure`, `Spec => []ClassicWithinLimit`, `Spec => []AutoIsExact`.
- `WriterKeepsContract`: `Spec => ImplementsContract`, the refinement of
  `TiffFileContract` with `readable` mapped to what a reader decodes from the bytes.

`PayloadsIntact` is not inductive: nothing in it says that a patch or the final header
falls beside a payload. `Placed` adds it for all data (payloads, and what the sink held
behind the header): they begin behind the reserved header, end within the sink and,
once there are IFDs, end before every one of them. Appending then cannot touch data, the
header fits the reservation in each variant (`ReservedCoversHeader`: this is where Auto
must reserve 16 bytes), and patches lie in the header or behind the first IFD, hence
behind all data. The lemmas `AppendKeeps`, `FieldKeeps`, `PlacedKept` and `PlacedAppend`
state this once, and each action cites them.

The limit properties need to know how far the file can still grow. `LayoutInv` says that
the sink, less the IFDs written, plus the estimates of all IFDs stays within the limit
of a classic file, and that every record fits it (`RecordsFitClassic`). It is preserved
because an IFD takes exactly its estimate, and it bounds every place a patch writes: a
record lies in the sink (`RecordsInSink`), an IFD's offset before its end.

The refinement needs the bytes themselves. `FileInv` says that no two extents overlap
(`FileSolid`), that the IFDs lie in a row behind the data (`IfdsInRow`), that the header
names the first IFD only once it is linked, and, of every slot of every IFD, that it
holds at each moment what it should: what `write_ifd` put there, or, once the cursor of
`finish()` has passed it, its patch (`Now`, `Passed`). That one patch leaves every other
slot alone is `SlotsApart` within an IFD and `IfdsInRow` between two. From it the lemmas
of the reader give `ReadsLinked`: what is readable during `finish()` is exactly the prefix
of the images linked so far (`Linked`), each with its blocks, since the link of an IFD is
its last patch. `ContractStep` then maps every step: adding an image and giving a block to
theirs, the link of an image to `Publish`, the return of `finish()` to `Closed`, an error
to `Fail`, and any other write to a stutter.

The raster writers come next in the same module, for every set of rasters whose images
are among the builders, and for any order of tiles and failures:

- `RastersUseTheWriter`: `RasterSpec => Spec`.
- `RasterInvariant`: `RasterSpec => [](RasterInv /\ FullInv)`.
- `RastersRefusedForBandsOnly`: `RasterSpec => []RefusedForBandsOnly`.
- `TileFlagsAgree`: `RasterSpec => []FlagsAgree`.
- `RastersReadBack`: `RasterSpec => []ReadsBack`.

Every step of a raster writer is a step of the `TiffWriter` or leaves it alone, so what is
proved above holds of every raster too, and `RasterInv` only relates the two levels of
bookkeeping: block by block, the flags (but for the bands of a tile under way), the
history of what was stored and the records of the only image tell the same. From it follows
that no block is given twice or, if no band is missing, with another length than its own,
which is all a `TiffWriter` with room refuses (`SampleCountsFit`; `PlacedBelow` shows that
the blocks `extract_block_2d` places below the raster are those of missing bands), and, with `ReadsLinked`, that the reader finds in each
block what was cut out for it.

`CogWriterProofs` proves, for any set of COGs (sizes, bands, levels in any order, tags,
resampling), sinks, limits and any number of failures:

- `CogNeverFailsLate`: `Spec => []NoLateFailure`.
- `CogInvariant`: `Spec /\ ShortSink => []CogInv`.
- `GhostAreaIsTrue`: `Spec /\ ShortSink => []GhostAreaHolds`.
- `CogNeverMisleads`: `Spec /\ ShortSink => []NeverMisleads`.
- `CogReadsBack`: `Spec /\ ShortSink => []ReadsBack`.

`ShortSink` asks that the sink does not reach beyond what is written in place, the header
and the IFDs, before anything is written. It is no weakening of the model: over a longer
sink the properties are false, which is what `CogLongSink` shows, and a new file
is always short (`NewFilesAreShort`). `NoLateFailure` needs no such hypothesis.

`CogInv` is `CogTypeOK /\ PlanInv /\ SpoolInv /\ SinkShort /\ SinkInv`. The plan is a
function of the records (`PlanFor`), made once all blocks are spooled, and each IFD lies
where the plan says (`PlanInv`), because an IFD takes exactly its estimate. The spool
holds each recorded block with its leader and trailer, in the order of the blocks, and
what is sparse instead is all zero (`SpoolInv`). The sink is never longer than the place the spool will go to (`SinkShort`),
so that the copy, which goes to its end, goes to that place. What the sink holds
(`SinkInv`) is said slot by slot as for the TIFF writer: a slot holds what `write_ifd` put
there or, once `cur` has passed it, its one patch (`SlotsOut`); that no two patches go to
one slot is `TargetsDiffer`. Payloads are what the sink held before or spooled blocks
moved by `DataStart`, and numbers lie behind `base`.

For `NeverMisleads`: before the header names the first IFD nothing is readable
(`NothingRead`). Afterwards `Pointed` counts the images whose arrays are patched, and of
the others, as of blocks not copied yet, a reader gets nothing but an error.
`ReadsBack` follows the reader through the chain (`ChainReads`), the SubIFDs
(`SubIfdsRead`) and the block arrays (`ImageReads`, `BlockShown`). That a tile of an overview
is made of all the base tiles it stands for and of no other is arithmetic: `ReachedIs`
shows, along each axis, that the rows or columns resampling reads lie in exactly `level`
neighbouring tiles, clipped at the edge of the image.

`ImageModelProofs` proves, for every set of builders, arguments of setters and foreign
IFDs, and any number of calls and blocks:

- `AcceptedImagesAreReadable`: `Spec => []AcceptedIsReadable`.
- `LayoutsAgree`: `Spec => []LayoutAgrees`.
- `BlocksComeBack`: `Spec => []BlocksReadBack`.
- `DeclaredTypeIsEncoded`: `Spec => []RefusalsAreKnown`.
- `PixelsUseEveryChannel`: `Spec => []ChannelsAllUsed`.

The substance is in lemmas without time about one builder `b` with `ValidImage(b)`:
`TagsAsSet` (the reader's accessors return the builder's fields), one lemma per way of
counting channels up to `ColorModelReadable`, then `LayoutReadable`, `PixelsDecodable`,
`GeometryAgrees`, `ExtrasAgree`, and `BlockComesBack`, which needs that no block is empty
(`BlocksHaveSamples`, from what rounding up means) so that a length tells the width of
its samples, wherever it is compared (`LengthTellsWidth`; not where `CutUnnoticed` holds). None of the properties is inductive, since none says that an image being
written was validated. `ImageInv` does (`AcceptedInv`), and adds types, what the phase
says of the IFD (`OpenedInv`), and that a refused type has no encoding
(`RefusalsInv`); `BlocksInv` says that stored blocks were encoded for this image.
`ChannelsAllUsed` speaks of foreign IFDs as well, so nothing that `ValidImage` checks may
enter: `ChannelInv` only says that the tags count the channels. `ChannelsSplit` shows that
what makes a layout readable splits the stored channels into base and extra ones,
`BaseIsAll` and `PixelsUseAll` that the reads of a pixel cover both and nothing else for
every color model, and `OneTypeMatches` that one sample type fits what is decoded.
`CASE` expressions are beyond the prover's encoding, which is why these modules use IF.

`SharedLemmas` also has one lemma per operation of the cache: given a cache whose entries
are of a set `E` and that is within its limits, the result is (`PromotedKeeps`,
`PoppedKeeps`, `EvictedKeeps`, `PushedKeeps`, and `InsertedKeeps` for the whole of
`insert`, for every size, cap and key). The counter is a sum over the entries, so what
removing, appending and dropping do to it goes by `SetInduction`. Eviction needs that the
counter is exact, or the room it makes would not be room, and an exact counter needs
that keys are unique, or the push of a key held would replace an entry it does not
subtract: neither cap is inductive alone. `InsertedEnds` tells how an insertion ends, if a
key determines the size of its entry: the block is refused and nothing changes, it
replaces the one under its key and nothing else leaves, or it is new and just enough of
the oldest leave. `InOrder` says that a list is drawn from another without a change of
order, and `AppendOrders` that an append to such a list keeps the order of uses.

`GeoTagsProofs` proves, for any number of setters in any order, key directories, texts,
transforms, image sizes and overview levels:

- `AcceptedFilesOpen`: `Spec => []AcceptedOpens`.
- `TransformSurvives`: `Spec => []TransformReadsBack`.
- `CrsSurvives`: `Spec => []CrsReadsBack`.
- `OverviewsCover`: `Spec => []OverviewCovers`.
- `RoundTrip`: what `parse` finds in the tags `serialize` made.

The properties speak of opened files and of the calls that led to them, and say nothing
of the builder in between. `GeoInv`, the inductive invariant (`GeoInvariant`), is that the builder is
what its calls made of it: `Latest` is the last call of a kind since another, and
`WholeKept`, `ScaleKept` and `PlaceKept` say which of transform, matrix, scale, origin and
tiepoint stands and which has been replaced, `CrsKept` and `EpsgKept` which keys the last
reference system or EPSG code left, as long as no later call took them away. `LastsMove`
is what one more call does to the last calls. `IsWritten` ties the tags of the base image
and of the overview to the builder. The rest is about the functions between builder and
reader:

- `RoundTrip`: `FlatPlaces` says where each part of a flattened list lies, from the folds of the
  community modules; so each key finds its value where its entry points (`EntryReads`),
  texts behind the delimiters of the earlier ones.
- `CrsReads` and `EpsgReads`: what is read from keys a reference system or a code was
  applied to, field by field, without a rest of the keys before.
- `ModelReads`: which of the model tags the reader takes, for every builder accepted;
  `NorthUpReads` is the case of a scale and a tiepoint, in which the half pixel of the raster
  type goes out and comes back, and `PixelRoundTrip` inverts the transform.
- `OverviewGiven` and `BoundsWiden`: the overview has the scaled transform whichever tags
  the base image uses, and more pixels of a larger size cover what fewer did.

Doubles are integers in a unit in which pixel sizes are even, or `NotFinite`, so these
theorems say that the algebra is right, not how far rounding carries.

`BlockReadsProofs` proves, for any number of callers, images with strips or tiles of
any height, caches of any size and any number of source errors:

- `SuccessfulReadsAreExact`: `Spec => []ReadsExact`.
- `TasksNeverPanic`: `Spec => []NoPanic`.
- `CacheChangesNoOutcome`: `Spec => []OutcomeIsDetermined`.
- `CacheStaysWithinLimits`: `Spec => []CacheWithinLimits`.
- `EvictionIsForced`: `Spec => EvictsOnlyWhatItMust`, an action property.

`ReadsInv` says of the cache that it holds only whole, decodable blocks under their own
keys (`Blocks`), of a task that it has the right block for its stage and has passed the
checks before it (`TaskOK`), and of a task that is done that its rows are in the output
(`Right`). The substance is in `KeyTells` (equal keys mean the same block of the same
image: indices of planes and strips do not collide, and here the assumption enters that
no two images share an IFD), `CellsCovered` (the blocks collected for a window cover
its rows) and `CopiedRow` (the row arithmetic of the copies stays in the block, of a whole
one as of one clipped to the window). Another task's copy cannot undo a row, since it
writes only rows of its own block or the same value.

Evictions are judged by the history `older`, which relates two cached keys if the first
was used less recently, and knows nothing of the list the cache keeps. `OlderInv` says
that the order of the list is this history. `EvictionIsForced` then needs that a block
that replaces another of its key is as large (`KeyTellsSize`, from `KeyTells`): the
replaced one leaves first, so nothing has to make room for it.

`HttpRangeProofs` proves, for objects and chunks of any size, any readers, faults,
timeouts and replacements:

- `SuccessfulReadsHaveTheirBytes`: `Spec => []BytesInPlace`.
- `CachedChunksAreWhole`: `Spec => []ChunksAreWhole`.
- `UndisturbedReadsSucceed`: `Spec => []ReadsSucceed`.
- `ChunkCacheStaysWithinLimits`: `Spec => []WithinLimits(cache)`.

`HttpInv` adds to them where a running read stands: it has what lies before its next
chunk, which lies in the object (`RunOK`), and a body waiting to be stored is a whole
chunk. `AcceptedIsWhole` goes through every response the server can give and shows that
what passes the checks is the chunk; `ProperAccepted` that a proper one passes them;
`TakenFacts` that the parts of the chunks join without a gap from the first byte to the
last. Since the object may be replaced at any time, the invariant speaks of all versions
that get past the length check (`Passing`), not of the one opened.

`GeoTiffOpenProofs` proves, for directory graphs of any size and shape and any limits:

- `WorkStaysBounded`: `Spec => []WorkBounded`.
- `OpeningFindsAll`: `Spec => []Discovered`.
- `RefusalsHaveCause`: `Spec => []RefusedForCause`.

A node counts as visited when it is pushed, and pushing passes over what is seen, so
`OpenInv` relates the two (`Work`): the nodes on the stack and those read are all seen,
all different, none of them an overview of the chain or the base image, and together
at most the pointers counted. `PushKeeps` and `PopKeeps` state what one push and one
pop do to it; that a push brings no node twice (`PushedNodes`), although a directory may
name one several times, goes by `SetInduction` over the pointers. `BaseIsOne` shows that
the base image is one of the chain, whichever tags the file carries.

`Discovered` compares what was read with `OnChain` and `InTree`, which are least sets
closed under a pointer. That nothing else was read needs that what is read lies in every
closed set (`OnlyTree`, `ReadIsOnChain`); that nothing is missed needs that what was read
is itself closed: the chain by its links (`ChainLinked`), the tree because whatever an IFD
read points to has been seen, and what has been seen is on the chain, on the stack or read
(`AllSeen`), so that an empty stack leaves nothing out (`TreeIsAll`). `Listed` says that
the list holds each overview found once, and `SortOrders` that the final sort, stated by
ranks like that of the tags, orders them. `FoundInv` is their conjunction with `OpenInv`.

`RefusedForCause` compares the budgets with sums over the file, in one direction: what
is refused exceeds one. That what exceeds a budget is refused is `WorkBounded` for
directories and nodes, and not stated for value bytes. `CauseInv` adds to
`FoundInv` that the bytes counted are the sum over the chain read, that the pointers
counted are the sum over the base image and the SubIFDs read (`Counted`), and that every
node on the stack is reached by a path through IFDs read that is as long as the node is
deep (`Paths`): a refused depth then shows a branch of the file that is as deep. What was
read is part of what there is, so a sum beyond a limit is one of the file too
(`SumGrows`); the sums over finite sets are proved about in `SharedLemmas`, once more by
`SetInduction`, from the folds of the community modules.

Assumptions: those named in `GeoTiffOpen` (`FilesAssumption`: pointers are numbers, no
directory lies at 0, and a file has finitely many; `BudgetsAssumption`), `LruCache` (`CacheAssumption`), `BlockReads`
(`ReadsAssumption`) and `HttpRange` (`HttpAssumption`), in `GeoKeys` (`MaxShortAssumption`),
`GeoTransform` (`NotFiniteAssumption`: a NaN or an infinity is no number) and `GeoTags`
(`GeoAssumption`: setters are given values of the types Rust gives them, sizes and levels
are positive), in `CogWriter` (`CogAssumption`: dimensions and tile
sizes are positive, no encoded block is empty, no extra tag is a SubIFDs tag) and `GeoTiffWriter`
(`RastersAssumption`: the same of rasters), those named in `TiffWriter` (`LimitAssumption`, `VariantsAssumption`,
`LensAssumption`, `SinkStartsAssumption`, `BoundsAssumption`, `BuildersAssumption`) and in
`ImageModel` (`CallsAssumption`: what the setters are given has the types Rust gives it;
`ForeignAssumption`: the SamplesPerPixel and ExtraSamples of a foreign IFD are numbers if
they are there, as the parser of tag values ensures).
`BuildersAssumption` says no more than that builders are of the builder's type. TLC
evaluates all of them.

Only model-checked: liveness (`CallsReturn`, `ReadsReturn`), the bytes of samples
(`SamplesExact`, `PackedExact` and `FailsForCause` of `BlockPipeline`).
Liveness under fairness is beyond the prover, and so is what the folds of `SampleBytes`
compute for every row.

## 6. Not modelled

The codecs of other crates (LZW, Deflate, JPEG, Zstd, LERC) and the arithmetic of color
conversion have no state, and what they compute is not this code's. WebP is read
through a crate of its own. Client setup, and the bridge from async reads to a blocking
decoder, are plumbing. Sources are positioned reads of a file, a buffer or a memory map:
that they fail is modelled, how is not. Tests, fuzz targets, scripts and containers are
not part of the libraries.

Hazards no property covers: an overview of the size of its base image
(`geotiff-reader/src/lib.rs:464`), which takes an image of one pixel; and the budget of
value bytes that every SubIFD gets anew (`ifd.rs:709`), where the code bounds the sum only
by the number of SubIFDs.

## 7. Plan

Order: what can corrupt a file first, then what can misread one, then proofs.

Done: the modules of section 2 with their runs, and the proofs of section 5.

Next, modelling: foreign GeoKey directories through `Parse`; `CogWriter` read back through
`GeoTiffOpen`, so that what the writers emit is discovered whole; the `RawBlockCache` of
the COG writer; the fallback of `BlockPipeline` under `BlockReads`'s budgets.

Next, proofs: the properties of `BlockPipeline` as far as they do not rest on folds over
bytes.
