---------------------------- MODULE GeoTiffWriter ----------------------------
(***************************************************************************)
(* geotiff-writer without the COG layout: a raster written at once         *)
(* (write_2d_to, write_3d_to) or tile by tile, in any order, with the      *)
(* streaming tile writer, whose finish() fills in what is missing.  Both   *)
(* cut the raster into the blocks of one image of a TiffWriter.            *)
(***************************************************************************)
EXTENDS TiffWriter

CONSTANT Rasters      \* the GeoTiffBuilders in use, see IsRaster

\* nodata says that the fill value is not zero; samples are bytes.  by says how the
\* raster is written: write_2d_to, write_3d_to or the tile writer, which is for tiled
\* rasters (it gives others tiles of 256 by 256 first).
IsRaster(r) ==
  /\ r.by \in {"2d", "3d", "tiles"} /\ (r.by = "tiles" => r.tiled)
  /\ {r.width, r.height, r.bands, r.tileWidth, r.tileHeight} \subseteq Nat \ {0}
  /\ {r.tiled, r.planar, r.sparse, r.nodata} \subseteq BOOLEAN
  /\ r.variant \in {"Classic", "BigTiff", "Auto"} /\ r.tags \in Seq(Tag)

\* Strips take the default of 256 rows.
BuilderOf(r) ==
  [width |-> r.width, height |-> r.height, spp |-> r.bands, bits |-> 8, planar |-> r.planar,
   layout |-> IF r.tiled THEN "tiles" ELSE "strips",
   blockWidth  |-> IF r.tiled THEN r.tileWidth ELSE 0,
   blockHeight |-> IF r.tiled THEN r.tileHeight ELSE IF r.height < 256 THEN r.height ELSE 256,
   overview |-> FALSE, extra |-> r.tags]

\* A block has samples, and they are never encoded to nothing.
ASSUME RastersAssumption ==
  /\ \A r \in Rasters : IsRaster(r) /\ BuilderOf(r) \in Builders
  /\ Variants = {"Classic", "BigTiff", "Auto"} /\ MaxImages > 0 /\ 0 \notin PayloadLens

VARIABLES raster,
          stage,      \* "new", "open", "tile", "array", "fill", "finish", "failed" or
                      \* "panicked"
          call,       \* the write_tile_3d under way: tile, band, samples per band
          written,    \* per block, StreamingTileWriter::written
          contents,   \* history: what was stored in each block
          refused     \* history: the TiffWriter refused a block it was not out of room for

rasterVars == <<raster, stage, call, written, contents, refused>>

Handle == [owner |-> Self, index |-> 1]
----------------------------------------------------------------------------
\* The raster cut into blocks.
Builder1 == BuilderOf(raster)
Across == IF raster.tiled THEN DivCeil(raster.width, raster.tileWidth) ELSE 1
Down == DivCeil(raster.height, Builder1.blockHeight)
PerPlane == Across * Down
Blocks == 1..CheckedBlockCount(Builder1)

(***************************************************************************)
(* extract_block_3d and extract_block_2d, which knows of no planes: to it  *)
(* the blocks of later planes lie below the raster.                        *)
(***************************************************************************)
By2d == raster.by = "2d"

\* Where the samples of block b begin.
Place(b) ==
  LET planes == raster.planar /\ ~By2d
      k      == IF planes THEN (b - 1) % PerPlane ELSE b - 1
  IN [plane |-> IF planes THEN (b - 1) \div PerPlane ELSE 0,
      top   |-> (k \div Across) * Builder1.blockHeight,
      left  |-> (k % Across) * raster.tileWidth]

\* How many they are; a strip ends above the end of the raster, wherever it begins.
StripEnd(top) ==
  IF top + Builder1.blockHeight < raster.height THEN top + Builder1.blockHeight
  ELSE raster.height

Underflows(b) == ~raster.tiled /\ StripEnd(Place(b).top) < Place(b).top

Extracted(b) ==
  LET top  == Place(b).top
      area == IF raster.tiled THEN raster.tileWidth * raster.tileHeight
              ELSE (StripEnd(top) - top) * raster.width
  IN area * IF raster.planar \/ By2d THEN 1 ELSE raster.bands

TileSamples == raster.tileWidth * raster.tileHeight * IF raster.planar THEN 1 ELSE raster.bands

\* Tiles of the streaming writer, [row, col], and the block of one of their bands.
Tiles == [row : 0..(Down - 1), col : 0..(Across - 1)]
TileIndex(t) == t.row * Across + t.col + 1
Bands == IF raster.planar THEN raster.bands ELSE 1
BlockOf(t, band) == (band - 1) * PerPlane + TileIndex(t)
PlaceOf(t, band) ==
  [plane |-> band - 1, top |-> t.row * raster.tileHeight, left |-> t.col * raster.tileWidth]

(***************************************************************************)
(* A block holds what lies at a place of the raster, all zero or not, or   *)
(* the fill value.  A block padded with another fill value is not zero.    *)
(***************************************************************************)
Nothing == [from |-> "nothing"]
Fill    == [from |-> "fill"]
Cut(place, from) == [from |-> from, place |-> place]

Padded(place) ==
  raster.tiled /\ \/ place.top + raster.tileHeight > raster.height
                  \/ place.left + raster.tileWidth > raster.width

Samples(place) == IF raster.nodata /\ Padded(place) THEN {"data"} ELSE {"zero", "data"}

\* What block b of an array holds: a tile below the raster is all padding, a strip
\* below it has no samples.
Given(b) ==
  IF Place(b).top < raster.height THEN {Cut(Place(b), from) : from \in Samples(Place(b))}
  ELSE {Fill}

\* Mutant: filled tiles are taken to be zero.
SparseOrFilled(samples, content) == raster.sparse /\ content.from \in {"zero", "fill"}

\* All samples of the block are zero, which holds of no samples, too.
StoredSparse(samples, content) ==
  /\ raster.sparse
  /\ \/ samples = 0
     \/ content.from = "zero"
     \/ content.from = "fill" /\ ~raster.nodata
----------------------------------------------------------------------------
RasterInit ==
  /\ raster \in Rasters
  /\ Init /\ variant = raster.variant
  /\ stage = "new" /\ call = Nothing /\ refused = FALSE
  /\ written = [b \in Blocks |-> FALSE] /\ contents = [b \in Blocks |-> Nothing]

\* TiffWriter::new has been called; add_image validates the image.
Create ==
  /\ stage = "new"
  /\ IF Validate(Builder1)
     THEN /\ AddImage(Builder1)
          /\ stage' = IF raster.by = "tiles" THEN "open" ELSE "array"
     ELSE UNCHANGED vars /\ stage' = "failed"
  /\ UNCHANGED <<raster, call, written, contents, refused>>

\* write_padded_block: a block is stored, or the call fails with its error.
StoreBlock(b, samples, content) ==
  /\ IF StoredSparse(samples, content) THEN WriteBlockSparse(Handle, b)
     ELSE \E n \in PayloadLens : WriteBlock(Handle, b, samples, n)
  /\ contents' = [contents EXCEPT ![b] = content]
  /\ UNCHANGED <<raster, refused>>

Refuses(b, samples, content) ==
  \/ ~Writable(Handle, b)
  \/ ~StoredSparse(samples, content) /\ samples # CheckedBlockSampleCount(Builder1, b - 1)

StoreFails(b, samples, content) ==
  /\ refused' = (refused \/ Refuses(b, samples, content))
  /\ IF refused' THEN UNCHANGED vars
     ELSE /\ ~StoredSparse(samples, content)
          /\ \/ variant = "Classic" /\ ~FitsClassic(len) /\ UNCHANGED vars
             \/ \E n \in PayloadLens :
                  \E k \in 0..(n - 1) : WriteBlockFails(Handle, b, n, k)
  /\ UNCHANGED <<raster, contents>>
----------------------------------------------------------------------------
\* write_2d_to and write_3d_to, block by block; an error ends the call.  The number of
\* rows of a strip is computed without a check: a negative one panics, be it in the
\* subtraction or, where that wraps around, for want of room.
NextBlock(b) == contents[b] = Nothing /\ \A c \in 1..(b - 1) : contents[c] # Nothing

WriteArray(b) ==
  /\ stage = "array" /\ NextBlock(b) /\ ~Underflows(b)
  /\ \E content \in Given(b) :
       \/ StoreBlock(b, Extracted(b), content) /\ UNCHANGED stage
       \/ StoreFails(b, Extracted(b), content) /\ stage' = "failed"
  /\ UNCHANGED <<call, written>>

Panic(b) ==
  /\ stage = "array" /\ NextBlock(b) /\ Underflows(b)
  /\ stage' = "panicked"
  /\ UNCHANGED <<vars, raster, call, written, contents, refused>>

\* write_tile and write_tile_3d.
BeginTile(t) ==
  /\ stage = "open" /\ ~written[TileIndex(t)]
  /\ \E froms \in [1..Bands -> {"zero", "data"}] :
       /\ \A band \in 1..Bands : froms[band] \in Samples(PlaceOf(t, band))
       /\ call' = [tile |-> t, band |-> 1, froms |-> froms]
  /\ stage' = "tile"
  /\ UNCHANGED <<vars, raster, written, contents, refused>>

\* Mutant: a band that could not be stored counts as written.
MarkedAnyway(b, samples, content) ==
  /\ stage = "tile"
  /\ \/ StoreBlock(b, samples, content) \/ StoreFails(b, samples, content)
  /\ written' = [written EXCEPT ![b] = TRUE]

Marked(b, samples, content) ==
  /\ stage = "tile"
  /\ \/ StoreBlock(b, samples, content) /\ written' = [written EXCEPT ![b] = TRUE]
     \/ StoreFails(b, samples, content) /\ UNCHANGED written

WriteBand ==
  LET t == call.tile
      b == BlockOf(t, call.band)
      content == Cut(PlaceOf(t, call.band), call.froms[call.band])
  IN /\ stage = "tile"
     /\ Marked(b, TileSamples, content)
     /\ IF contents'[b] = contents[b] \/ call.band = Bands
        THEN stage' = "open" /\ call' = Nothing
        ELSE call' = [call EXCEPT !.band = @ + 1] /\ UNCHANGED stage

\* finish() fills what was not written, in order; an error ends the writer.
BeginFinish ==
  /\ stage = "open"
  /\ stage' = "fill"
  /\ UNCHANGED <<vars, raster, call, written, contents, refused>>

Filled(b) == written[b] \/ contents[b] = Fill

\* Mutant: blocks without data are filled, written or not.
NextUnfilled(b) ==
  /\ contents[b].from \in {"nothing", "zero"}
  /\ \A c \in 1..(b - 1) : contents[c].from \notin {"nothing", "zero"}

NextToFill(b) ==
  /\ ~Filled(b)
  /\ \A c \in 1..(b - 1) : Filled(c)

FillBlock(b) ==
  /\ stage = "fill" /\ NextToFill(b)
  /\ \/ StoreBlock(b, TileSamples, Fill) /\ UNCHANGED stage
     \/ StoreFails(b, TileSamples, Fill) /\ stage' = "failed"
  /\ UNCHANGED <<call, written>>

AllStored ==
  /\ \/ stage = "array" /\ \A b \in Blocks : contents[b] # Nothing
     \/ stage = "fill" /\ \A b \in Blocks : Filled(b)
  /\ stage' = "finish"
  /\ UNCHANGED <<vars, raster, call, written, contents, refused>>

FinishWriter ==
  /\ stage = "finish"
  /\ \/ Finish \/ WriteHeader \/ WriteIfd \/ IfdsWritten
     \/ WritePatch \/ Finished \/ FinishFails
  /\ UNCHANGED <<raster, stage, call, written, contents, refused>>

RasterNext ==
  \/ Create \/ WriteBand \/ BeginFinish \/ AllStored \/ FinishWriter
  \/ \E t \in Tiles : BeginTile(t)
  \/ \E b \in Blocks : WriteArray(b) \/ Panic(b) \/ FillBlock(b)

RasterSpec == RasterInit /\ [][RasterNext]_<<vars, rasterVars>>
----------------------------------------------------------------------------

(***************************************************************************)
(* write_2d_to compares height and width with the builder's, not bands: it *)
(* also takes builders of more than the one band it is given.              *)
(***************************************************************************)
MissesBands == By2d /\ raster.bands > 1

(***************************************************************************)
(* A raster that was finished reads back: the block that a reader takes    *)
(* for a tile or strip of a plane holds the samples of that place, or the  *)
(* fill value where none were stored, and a sparse block, which reads as   *)
(* zeros, stands for zeros only - but for a strip of a band write_2d_to    *)
(* was not given, which it takes for zeros whatever the fill value is.     *)
(***************************************************************************)
Zeros(b) == contents[b].from = "zero" \/ (contents[b] = Fill /\ ~raster.nodata)
Planes == 0..(Bands - 1)

ReadsBack ==
  phase = "done" =>
    \A read \in {Readable} :
      /\ Len(read) = 1 /\ DOMAIN read[1] = Blocks
      /\ \A plane \in Planes : \A t \in Tiles :
           LET b == plane * PerPlane + t.row * Across + t.col + 1
               place == [plane |-> plane, top |-> t.row * Builder1.blockHeight,
                         left |-> t.col * raster.tileWidth]
           IN /\ contents[b] \in {Fill, Cut(place, "zero"), Cut(place, "data")}
              /\ read[1][b] = Sparse =>
                   Zeros(b) \/ (MissesBands /\ ~raster.tiled /\ plane > 0)
              /\ read[1][b] # Sparse => read[1][b] = Payload(Handle, b)

(***************************************************************************)
(* The tile writer's flags and the records of the TiffWriter below agree,  *)
(* also after a tile that failed in one of its bands, and with them what   *)
(* write_tile refuses and what finish() fills in.                          *)
(***************************************************************************)
FlagsAgree ==
  stage \in {"open", "tile"} =>
    \A b \in Blocks : written[b] <=> images[1].records[b] # NoRecord

(***************************************************************************)
(* Blocks have the length the TiffWriter expects, none is stored twice and *)
(* none is missing: apart from the sink and the classic limit nothing can  *)
(* make the TiffWriter refuse, nor panic - with exactly one exception, the *)
(* bands write_2d_to is not given.  Then chunky blocks, unless they are    *)
(* sparse, and strips of later planes are too short, and the latter panic  *)
(* if they begin below the end of the raster; only planar tiles, filled,   *)
(* are always accepted.                                                    *)
(***************************************************************************)
RefusedForBandsOnly ==
  /\ error # "incomplete"
  /\ refused => MissesBands /\ ~(raster.planar /\ raster.tiled)
  /\ stage = "panicked" => MissesBands /\ raster.planar /\ ~raster.tiled
===============================================================================
