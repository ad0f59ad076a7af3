------------------------------ MODULE CogWriter ------------------------------
(***************************************************************************)
(* geotiff-writer's COG writer.  Base tiles are staged in a raw tile       *)
(* store, one per call; finish() resamples the overviews from them, spools *)
(* every encoded block with a leader and a trailer, smallest overview      *)
(* first, and only then plans the whole file and emits it: header and      *)
(* ghost area, the IFDs, the patches of their arrays and pointers, and the *)
(* spooled blocks at last.  Each write to the sink is a step, so that each *)
(* state in between is a file an error or a crash leaves behind.           *)
(***************************************************************************)
EXTENDS TiffFile

CONSTANTS Cogs,           \* the CogBuilders in use, see IsCog
          SinkStarts,     \* [pos, len]: position and length of the sink
          Limit,          \* u32::MAX, the largest classic offset
          MaxFaults       \* bound of the model: failures of the store and the sink

(***************************************************************************)
(* levels are the overview levels as given; nodata says that unwritten     *)
(* samples are filled with a value other than zero; lens are the lengths   *)
(* its encoded blocks may have.  Every image of the file carries the same   *)
(* extra tags, of which build_extra_tags makes none a SubIFDs tag.         *)
(***************************************************************************)
IsCog(c) ==
  /\ {c.width, c.height, c.bands, c.tileWidth, c.tileHeight} \subseteq Nat \ {0}
  /\ {c.planar, c.subIfds, c.average, c.sparse, c.nodata} \subseteq BOOLEAN
  /\ c.variant \in {"Classic", "BigTiff", "Auto"}
  /\ c.levels \in Seq(Nat)
  /\ c.tags \in Seq(Tag) /\ c.lens \subseteq Nat \ {0}
  /\ \A n \in DOMAIN c.tags : c.tags[n].code # TagSubIfds

ASSUME CogAssumption ==
  /\ \A c \in Cogs : IsCog(c)
  /\ SinkStarts \subseteq [pos : Nat, len : Nat]
  /\ Limit \in Nat /\ MaxFaults \in Nat

VARIABLES cog,
          staged,       \* base_tiles: per base block, what the raw store holds
          written,      \* per base block
          images,       \* per image, the records of its spooled blocks
          spool, spoolLen,
          base,         \* base_offset
          file, len,    \* what the sink holds, and its length
          at,           \* position of the sink while the IFDs are written
          big, planned, \* the CogLayout: the variant, each image's tags and block offsets
          ifds,         \* the place of each IFD written
          cur,          \* emit_cog: the patch to write next, [image, step]
          phase, error, faults

vars == <<cog, staged, written, images, spool, spoolLen, base, file, len, at, big, planned,
          ifds, cur, phase, error, faults>>
staging == <<staged, written>>
spooled == <<images, spool, spoolLen>>
sink == <<file, len, at>>
layout == <<big, planned, ifds, cur>>
options == <<cog, base>>
----------------------------------------------------------------------------
\* The images of a COG: the base image and one overview per level, ascending.
Levels ==
  LET given == {cog.levels[n] : n \in DOMAIN cog.levels}
      rank(level) == Cardinality({x \in given : x <= level})
  IN [k \in 1..Cardinality(given) |-> CHOOSE level \in given : rank(level) = k]
ImageCount == 1 + Len(Levels)
LevelOf(i) == IF i = 1 THEN 1 ELSE Levels[i - 1]

BuilderAt(c, level) ==
  [width |-> DivCeil(c.width, level), height |-> DivCeil(c.height, level), spp |-> c.bands,
   bits |-> 8, planar |-> c.planar, layout |-> "tiles", blockWidth |-> c.tileWidth,
   blockHeight |-> c.tileHeight, overview |-> level > 1, extra |-> c.tags]

ValidCog(c) ==
  /\ \A n \in DOMAIN c.levels : c.levels[n] > 1
  /\ \A level \in {1} \cup {c.levels[n] : n \in DOMAIN c.levels} : Validate(BuilderAt(c, level))

BuilderOf(i) == BuilderAt(cog, LevelOf(i))
Across(i) == DivCeil(BuilderOf(i).width, cog.tileWidth)
Down(i)   == DivCeil(BuilderOf(i).height, cog.tileHeight)
Blocks(i) == 1..CheckedBlockCount(BuilderOf(i))

\* The block of image i that holds a tile, in a plane if the image is planar.
BlockAt(i, plane, row, col) == plane * Across(i) * Down(i) + row * Across(i) + col + 1
PlaneOf(i, b) == (b - 1) \div (Across(i) * Down(i))
RowOfTile(i, b) == ((b - 1) % (Across(i) * Down(i))) \div Across(i)
ColOfTile(i, b) == ((b - 1) % (Across(i) * Down(i))) % Across(i)

Tiles == 1..(Across(1) * Down(1))
TileBlocks(t) ==
  IF cog.planar THEN [band \in 1..cog.bands |-> (band - 1) * Across(1) * Down(1) + t] ELSE <<t>>

\* GDAL's ghost area is 183 bytes, 199 when it also says INTERLEAVE=BAND.
PrefixLen == IF cog.planar THEN 199 ELSE 183
----------------------------------------------------------------------------
\* What the samples of a base block are: all zero, some other data, or left as filled.
Nothing == "nothing"   \* no such block in the store
Torn    == "torn"      \* a write that failed
Samples == {"zero", "data"}

NoRecord == [off |-> -1, count |-> -1, sparse |-> FALSE]

Init ==
  /\ cog \in {c \in Cogs : ValidCog(c)}
  /\ staged = [b \in Blocks(1) |-> Nothing]
  /\ written = [b \in Blocks(1) |-> FALSE]
  /\ images = [i \in 1..ImageCount |-> [b \in Blocks(i) |-> NoRecord]]
  /\ spool = {} /\ spoolLen = 0
  /\ \E s \in SinkStarts :
       /\ base = s.pos /\ len = s.len /\ at = s.pos
       /\ file = IF s.len = 0 THEN {} ELSE {[off |-> 0, len |-> s.len, val |-> [existing |-> TRUE]]}
  /\ big = FALSE /\ planned = <<>> /\ ifds = <<>> /\ cur = [image |-> 1, step |-> 1]
  /\ phase = "open" /\ error = "none" /\ faults = 0

(***************************************************************************)
(* write_tile and write_tile_3d.  The blocks of a planar tile are stored   *)
(* one band after the other; a store that fails tears the block it was at  *)
(* and keeps the ones before.                                              *)
(***************************************************************************)
Refused(t) == written[TileBlocks(t)[1]]

StoreTile(t, content, n) ==
  LET blocks == TileBlocks(t)
      done == {blocks[k] : k \in 1..n}
      tear == {blocks[k] : k \in {n + 1} \cap DOMAIN blocks}
  IN /\ staged' = [b \in DOMAIN staged |->
                     IF b \in done THEN content ELSE IF b \in tear THEN Torn ELSE staged[b]]
     /\ written' = [b \in DOMAIN written |-> b \in done \/ written[b]]

WriteTile(t, content) ==
  /\ phase = "open" /\ ~Refused(t)
  /\ StoreTile(t, content, Len(TileBlocks(t)))
  /\ UNCHANGED <<options, spooled, sink, layout, phase, error, faults>>

WriteTileFails(t, content, n) ==
  /\ phase = "open" /\ ~Refused(t)
  /\ faults < MaxFaults /\ n < Len(TileBlocks(t))
  /\ faults' = faults + 1
  /\ StoreTile(t, content, n)
  /\ UNCHANGED <<options, spooled, sink, layout, phase, error>>

\* write_array_to: all tiles at once.
WriteArray ==
  /\ phase = "open" /\ \A b \in Blocks(1) : staged[b] = Nothing
  /\ \E contents \in [Tiles -> Samples] :
       staged' = [b \in Blocks(1) |-> contents[((b - 1) % Cardinality(Tiles)) + 1]]
  /\ written' = [b \in Blocks(1) |-> TRUE]
  /\ phase' = "spool"
  /\ UNCHANGED <<options, spooled, sink, layout, error, faults>>

Finish ==
  /\ phase = "open"
  /\ phase' = "spool"
  /\ UNCHANGED <<options, staging, spooled, sink, layout, error, faults>>
----------------------------------------------------------------------------
(***************************************************************************)
(* resample_band_into reads, for each sample of an overview block, either  *)
(* one sample of the base image or the square it stands for; what lies     *)
(* outside the base image is not read.  From is what a block is made of.   *)
(***************************************************************************)
\* Mutant: the square of a sample reaches one sample too far.
ReachedBeyond(n, tile, size, level, limit) ==
  LET samples == {x \in (n * tile)..(n * tile + tile - 1) : x < size}
      taken(x) == (x * level)..(x * level + level)
  IN {y \div tile : y \in {z \in UNION {taken(x) : x \in samples} : z < limit}}

Reached(n, tile, size, level, limit) ==
  LET samples == {x \in (n * tile)..(n * tile + tile - 1) : x < size}
      taken(x) == IF cog.average THEN (x * level)..(x * level + level - 1) ELSE {x * level}
  IN {y \div tile : y \in {z \in UNION {taken(x) : x \in samples} : z < limit}}

Sources(i, b) ==
  {BlockAt(1, PlaneOf(i, b), row, col) :
     row \in Reached(RowOfTile(i, b), cog.tileHeight, BuilderOf(i).height, LevelOf(i), cog.height),
     col \in Reached(ColOfTile(i, b), cog.tileWidth, BuilderOf(i).width, LevelOf(i), cog.width)}

Content(b) == IF written[b] THEN staged[b] ELSE "fill"
From(i, b) == [s \in Sources(i, b) |-> Content(s)]

Padded(i, b) ==
  \/ (RowOfTile(i, b) + 1) * cog.tileHeight > BuilderOf(i).height
  \/ (ColOfTile(i, b) + 1) * cog.tileWidth > BuilderOf(i).width

AllZero(i, b) ==
  /\ \A s \in Sources(i, b) : Content(s) = "zero" \/ (Content(s) = "fill" /\ ~cog.nodata)
  /\ cog.nodata => ~Padded(i, b)

\* A block in the file, its leader with its length, its trailer with its last bytes.
Encoded(i, b) == [image |-> i, block |-> b, from |-> From(i, b)]
TailOf(payload) == [tail |-> payload]

\* Mutant: the leader counts itself and the trailer.
SegmentedPhysical(off, n, payload) ==
  {Field(off, 4, n + 8), [off |-> off + 4, len |-> n, val |-> payload],
   [off |-> off + 4 + n, len |-> IF n < 4 THEN n ELSE 4, val |-> TailOf(payload)]}

Segmented(off, n, payload) ==
  {Field(off, 4, n), [off |-> off + 4, len |-> n, val |-> payload],
   [off |-> off + 4 + n, len |-> IF n < 4 THEN n ELSE 4, val |-> TailOf(payload)]}

SegmentedLen(n) == 4 + n + IF n < 4 THEN n ELSE 4

\* Blocks are spooled image by image, from the smallest overview to the base image.
Unspooled(i) == {b \in Blocks(i) : images[i][b] = NoRecord}
NextToSpool(i, b) ==
  /\ i \in 1..ImageCount /\ b \in Unspooled(i)
  /\ \A j \in (i + 1)..ImageCount : Unspooled(j) = {}
  /\ \A c \in Unspooled(i) : b <= c

SetRecord(i, b, record) == images' = [images EXCEPT ![i][b] = record]

SpoolBlock(i, b, n) ==
  /\ phase = "spool" /\ NextToSpool(i, b)
  /\ IF cog.sparse /\ AllZero(i, b)
     THEN /\ SetRecord(i, b, [off |-> 0, count |-> 0, sparse |-> TRUE])
          /\ UNCHANGED <<spool, spoolLen>>
     ELSE /\ SetRecord(i, b, [off |-> spoolLen + 4, count |-> n, sparse |-> FALSE])
          /\ spool' = spool \cup Segmented(spoolLen, n, Encoded(i, b))
          /\ spoolLen' = spoolLen + SegmentedLen(n)
  /\ UNCHANGED <<options, staging, sink, layout, phase, error, faults>>
----------------------------------------------------------------------------
\* The plan: plan_cog_layout_for_variant, for either variant.
SubIfdsTag(isBig) == [code |-> TagSubIfds, len |-> Len(Levels) * ElementWidth(isBig)]

Tags(i, isBig) ==
  LET tags == BuildTags(BuilderOf(i), isBig)
  IN IF i = 1 /\ cog.subIfds /\ Levels # <<>>
     THEN SortedByCode(Append(tags, SubIfdsTag(isBig)))
     ELSE tags

PrefixEnd(isBig) == base + HeaderLen(isBig) + PrefixLen
FirstIfdStart(isBig) == PrefixEnd(isBig) + (PrefixEnd(isBig) % 2)

PlannedEnd(isBig) ==
  LET end[i \in 0..ImageCount] ==
        IF i = 0 THEN FirstIfdStart(isBig)
        ELSE end[i - 1] + EstimateIfdSize(isBig, Tags(i, isBig))
  IN end

\* Mutant: an image whose blocks are all sparse is taken to fit.
ClassicFitsBlocks(end) ==
  \A i \in 1..ImageCount : \A b \in Blocks(i) : images[i][b].sparse
    \/ (end[ImageCount] + images[i][b].off <= Limit /\ images[i][b].count <= Limit)

\* The offsets of image i's blocks in the file, and whether all offsets are classic ones.
Offsets(i, start) ==
  [b \in Blocks(i) |-> IF images[i][b].sparse THEN 0 ELSE start + images[i][b].off]

ClassicFits(end) ==
  /\ \A i \in 1..ImageCount : end[i] <= Limit
  /\ \A i \in 1..ImageCount : \A b \in Blocks(i) :
       Offsets(i, end[ImageCount])[b] <= Limit /\ images[i][b].count <= Limit

PlanFor(isBig, end) ==
  [i \in 1..ImageCount |-> [tags |-> Tags(i, isBig), offsets |-> Offsets(i, end[ImageCount])]]

Fail(why) == phase' = "failed" /\ error' = why
Continue(to) == phase' = to /\ UNCHANGED error

Plan ==
  /\ phase = "spool" /\ \A i \in 1..ImageCount : Unspooled(i) = {}
  /\ IF cog.variant = "Classic" /\ ~ClassicFits(PlannedEnd(FALSE))
     THEN Fail("layout") /\ UNCHANGED <<big, planned>>
     ELSE /\ big' = (cog.variant = "BigTiff"
                       \/ (cog.variant = "Auto" /\ ~ClassicFits(PlannedEnd(FALSE))))
          /\ planned' = PlanFor(big', PlannedEnd(big'))
          /\ Continue("header")
  /\ UNCHANGED <<options, staging, spooled, sink, ifds, cur, faults>>
----------------------------------------------------------------------------
\* emit_cog.  Everything up to the IFDs is written in place, over what the sink held.
WriteAt(off, n, fields) ==
  /\ file' = Overwrite(file, off, n, fields)
  /\ len' = MaxOf(len, off + n)

HeaderFields ==
  IF big THEN {Field(base, 4, BigVersion), Field(base + 4, 4, 8), Field(base + 8, 8, 0)}
  ELSE {Field(base, 4, ClassicVersion), Field(base + 4, 4, 0)}

EmitHeader ==
  /\ phase = "header"
  /\ WriteAt(base, FirstIfdStart(big) - base, HeaderFields)
  /\ at' = FirstIfdStart(big)
  /\ Continue("ifds")
  /\ UNCHANGED <<options, staging, spooled, layout, faults>>

EmitIfd ==
  LET i == Len(ifds) + 1
      tags == planned[i].tags
      n == IfdEnd(0, tags, big)
  IN /\ phase = "ifds" /\ i \in 1..ImageCount
     /\ IF ~TagsSorted(tags) \/ Overflowing(at, tags, big, Limit) # {}
        THEN Fail("overflow") /\ UNCHANGED <<sink, ifds>>
        ELSE /\ WriteAt(at, n, IfdFields(at, tags, big))
             /\ at' = at + n
             /\ ifds' = Append(ifds, at)
             /\ UNCHANGED <<phase, error>>
     /\ UNCHANGED <<options, staging, spooled, big, planned, cur, faults>>

IfdsEmitted ==
  /\ phase = "ifds" /\ Len(ifds) = ImageCount
  /\ Continue("patch")
  /\ UNCHANGED <<options, staging, spooled, sink, layout, faults>>

\* Where the elements of an array lie that is patched: nowhere if it is not found.
ArrayOf(i, code, n) ==
  IF n = 1 \/ code = TagSubIfds THEN FindTagValueOffset(ifds[i], planned[i].tags, big, code)
  ELSE DeferredDataOffset(ifds[i], planned[i].tags, big, code)

\* Element k of such an array of n elements.
Element(i, code, n, k, value) ==
  {Field(a + (k - 1) * Width(big), Width(big), value) : a \in ArrayOf(i, code, n)}

\* The patches of image i: the offsets of its blocks, then their byte counts.
ArrayPatch(i, k) ==
  LET n == CheckedBlockCount(BuilderOf(i))
      b == BuilderOf(i)
  IN IF k <= n THEN Element(i, OffsetsTagCode(b), n, k, planned[i].offsets[k])
     ELSE Element(i, ByteCountsTagCode(b), n, k - n, images[i][k - n].count)

\* The pointer to image k: in the header, in the SubIFDs tag, or in the IFD before.
PointerPatch(k) ==
  IF k = 1 THEN {Field(base + IF big THEN 8 ELSE 4, Width(big), ifds[1])}
  ELSE IF cog.subIfds THEN Element(1, TagSubIfds, ImageCount - 1, k - 1, ifds[k])
  ELSE {Field(NextPtrOffset(ifds[k - 1], planned[k - 1].tags, big), NextPtrSize(big), ifds[k])}

\* The arrays of all images come first, and the pointers at last.
PatchCount(i) == IF i <= ImageCount THEN 2 * CheckedBlockCount(BuilderOf(i)) ELSE ImageCount

\* Mutant: the header points at the first IFD before the block arrays are patched.
PatchFirstIfdFirst(i, k) ==
  IF i = 1 /\ k = 1 THEN PointerPatch(1)
  ELSE IF i > ImageCount /\ k = 1 THEN ArrayPatch(1, 1)
  ELSE IF i <= ImageCount THEN ArrayPatch(i, k) ELSE PointerPatch(k)

Patch(i, k) == IF i <= ImageCount THEN ArrayPatch(i, k) ELSE PointerPatch(k)

EmitPatch ==
  LET i == cur.image
      patch == Patch(i, cur.step)
      next == IF cur.step < PatchCount(i) THEN [cur EXCEPT !.step = @ + 1]
              ELSE [image |-> i + 1, step |-> 1]
  IN /\ phase = "patch" /\ i <= ImageCount + 1
     /\ IF ~big /\ \E w \in patch : w.val.num > Limit
        THEN Fail("overflow") /\ UNCHANGED <<file, len, cur>>
        ELSE /\ IF patch = {} THEN UNCHANGED <<file, len>>
                ELSE \E w \in patch : WriteAt(w.off, w.len, {w})
             /\ cur' = next
             /\ UNCHANGED <<phase, error>>
     /\ UNCHANGED <<options, staging, spooled, at, big, planned, ifds, faults>>

PatchesEmitted == phase = "patch" /\ cur.image > ImageCount + 1

\* copy_into: the first n bytes of the spool go to the end of the sink.
Copied(n) == {[e EXCEPT !.off = len + @] : e \in {x \in spool : x.off + x.len <= n}}

CopySpool ==
  /\ PatchesEmitted
  /\ WriteAt(len, spoolLen, Copied(spoolLen))
  /\ Continue("done")
  /\ UNCHANGED <<options, staging, spooled, at, layout, faults>>

(***************************************************************************)
(* An error of the spool leaves the sink alone.  One of the sink leaves    *)
(* out the write under way, or all but the header of the first write, or   *)
(* all but some blocks of the last.                                        *)
(***************************************************************************)
FinishFails ==
  /\ phase \in {"spool", "header", "ifds", "patch"} /\ faults < MaxFaults
  /\ \/ UNCHANGED <<file, len>>
     \/ phase = "header" /\ WriteAt(base, HeaderLen(big), HeaderFields)
     \/ /\ PatchesEmitted
        /\ \E e \in spool : WriteAt(len, e.off + e.len, Copied(e.off + e.len))
  /\ Fail("io")
  /\ faults' = faults + 1
  /\ UNCHANGED <<options, staging, spooled, at, layout>>

Next ==
  \/ \E t \in Tiles : \E content \in Samples :
       \/ WriteTile(t, content)
       \/ \E n \in 0..cog.bands : WriteTileFails(t, content, n)
  \/ WriteArray \/ Finish
  \/ \E i \in 1..ImageCount : \E b \in Blocks(i) : \E n \in cog.lens : SpoolBlock(i, b, n)
  \/ Plan \/ EmitHeader \/ EmitIfd \/ IfdsEmitted \/ EmitPatch \/ CopySpool \/ FinishFails

Spec == Init /\ [][Next]_vars
----------------------------------------------------------------------------
\* tiff-reader and geotiff-reader: the IFD chain, then the SubIFDs of the first IFD.
SubIfds(header) ==
  UNION {UNION {BlockArrays(file, ifd, isBig, {TagSubIfds}) :
                  ifd \in FirstIfd(file, header, isBig) \ {0}} : isBig \in IsBig(file, header)}

ReadSubIfds(header) ==
  IF SubIfds(header) = {} THEN <<>>
  ELSE LET places == CHOOSE p \in SubIfds(header) : TRUE
       IN [k \in DOMAIN places |->
             TheOne({ReadIfd(file, ifd, big) : ifd \in places[k]}, <<Damaged>>)]

ReadCog == ReadFile(file, base, ImageCount) \o ReadSubIfds(base)

(***************************************************************************)
(* What a reader should find: a block holds the samples of all the base    *)
(* tiles in the square it stands for, as written to them last, or the fill *)
(* where nothing was; left out as sparse it reads as zeros, which it may   *)
(* only if all of them are.  One sample alone stands for its square if no  *)
(* average is taken, so that a level beyond the size of a tile may pass    *)
(* over a whole tile.                                                      *)
(***************************************************************************)
Square(i, b) ==
  LET level == LevelOf(i)
      shown(k, tile, size) == \E y \in (k * tile)..(k * tile + tile - 1) : y < size /\ y % level = 0
      span(n, count, tile, size) ==
        {k \in (n * level)..(n * level + level - 1) :
           k < count /\ (cog.average \/ shown(k, tile, size))}
  IN {BlockAt(1, PlaneOf(i, b), row, col) :
        row \in span(RowOfTile(i, b), Down(1), cog.tileHeight, cog.height),
        col \in span(ColOfTile(i, b), Across(1), cog.tileWidth, cog.width)}

Given(i, b) ==
  LET from  == [s \in Square(i, b) |-> Content(s)]
      zeros == \A s \in Square(i, b) : from[s] = "zero" \/ (from[s] = "fill" /\ ~cog.nodata)
  IN IF images[i][b].sparse /\ zeros THEN Sparse ELSE [image |-> i, block |-> b, from |-> from]

(***************************************************************************)
(* A COG that was finished reads back: the base image first, then every    *)
(* overview in the order of the levels, each block with its samples.       *)
(***************************************************************************)
ReadsBack ==
  phase = "done" => ReadCog = [i \in 1..ImageCount |-> [b \in Blocks(i) |-> Given(i, b)]]

(***************************************************************************)
(* A COG that was not finished, wherever it broke off, may be unreadable   *)
(* but never misleads: each block that can be read at all is right, and    *)
(* no placeholder is taken for a sparse block.                             *)
(***************************************************************************)
NeverMisleads ==
  phase \in {"ifds", "patch", "done", "failed"} =>
    \A read \in {ReadCog} : \A i \in DOMAIN read : \A b \in DOMAIN read[i] :
      read[i][b] # Damaged =>
        /\ i <= ImageCount /\ b \in Blocks(i)
        /\ read[i][b] = Given(i, b)

(***************************************************************************)
(* What the ghost area says of the file is so: IFDs before data, tiles of  *)
(* the base image in row-major order, the length of each block in front    *)
(* of it and its last bytes repeated behind it.                            *)
(***************************************************************************)
GhostAreaHolds ==
  phase = "done" =>
    /\ \A i \in 1..ImageCount : \A b \in Blocks(i) : ~images[i][b].sparse =>
         LET off == planned[i].offsets[b]
             n == images[i][b].count
         IN /\ \A k \in DOMAIN ifds : IfdEnd(ifds[k], planned[k].tags, big) <= off - 4
            /\ Nums(file, off - 4, 4) = {n}
            /\ Payloads(file, off + n, IF n < 4 THEN n ELSE 4) = {TailOf(Given(i, b))}
    /\ \A b, c \in Blocks(1) :
         b < c /\ ~images[1][b].sparse /\ ~images[1][c].sparse =>
           planned[1].offsets[b] < planned[1].offsets[c]

(***************************************************************************)
(* Once a variant is settled on only the sink can fail: the plan and what  *)
(* is written agree on every offset.                                       *)
(***************************************************************************)
NoLateFailure == error # "overflow"

(***************************************************************************)
(* Every IFD begins on a word boundary, as the comment on the padding of   *)
(* the ghost area says of TIFF.  It does not hold: a value of odd length   *)
(* in one IFD moves all the ones behind it.                                *)
(***************************************************************************)
IfdsAligned == \A k \in DOMAIN ifds : ifds[k] % 2 = 0

(***************************************************************************)
(* A tile that write_tile_3d refuses as already written is written, in     *)
(* all its bands.  It does not hold: the refusal goes by the first band.   *)
(***************************************************************************)
RefusedTilesAreWritten ==
  \A t \in Tiles : Refused(t) => \A k \in DOMAIN TileBlocks(t) : written[TileBlocks(t)[k]]
===============================================================================
