---------------------------- MODULE CogWriterProofs ----------------------------
(***************************************************************************)
(* Proofs about CogWriter, for every set of COGs, sink, limit and number   *)
(* of failures: finish() never fails late on an offset; what GDAL's ghost  *)
(* area claims of a finished file is so; a file that broke off anywhere    *)
(* never misleads a reader; and a finished one reads back.  The last three *)
(* ask for a sink that is short to begin with, as a new file is.           *)
(*                                                                         *)
(* The invariant has four parts: the plan (PlanInv), the spool (SpoolInv), *)
(* the length of the sink (SinkShort) and what the sink holds (SinkInv).   *)
(***************************************************************************)
EXTENDS CogWriter, SharedLemmas

----------------------------------------------------------------------------
\* The COG in use was accepted.
Accepted == cog \in Cogs /\ ValidCog(cog)

LEMMA CogType ==
  ASSUME Accepted
  PROVE  /\ cog.width \in Nat \ {0} /\ cog.height \in Nat \ {0} /\ cog.bands \in Nat \ {0}
         /\ cog.tileWidth \in Nat \ {0} /\ cog.tileHeight \in Nat \ {0}
         /\ cog.planar \in BOOLEAN /\ cog.subIfds \in BOOLEAN /\ cog.average \in BOOLEAN
         /\ cog.sparse \in BOOLEAN /\ cog.nodata \in BOOLEAN
         /\ cog.levels \in Seq(Nat) /\ cog.tags \in Seq(Tag) /\ cog.lens \subseteq Nat \ {0}
         /\ \A n \in DOMAIN cog.tags : cog.tags[n].code # TagSubIfds
         /\ cog.variant \in {"Classic", "BigTiff", "Auto"}
<1>1. IsCog(cog)
  BY CogAssumption DEF Accepted
<1> QED BY <1>1 DEF IsCog

(***************************************************************************)
(* The levels given, sorted and without repetition: each of them has a     *)
(* rank of its own, and every rank up to their number is taken.            *)
(***************************************************************************)
Levelled == {cog.levels[n] : n \in DOMAIN cog.levels}
LevelRank(level) == Cardinality({x \in Levelled : x <= level})

LEMMA LevelRanks ==
  ASSUME Accepted
  PROVE  /\ IsFiniteSet(Levelled) /\ Levelled \subseteq Nat /\ Cardinality(Levelled) \in Nat
         /\ \A k \in 1..Cardinality(Levelled) : \E level \in Levelled : LevelRank(level) = k
<1>1. Levelled \subseteq Nat
  BY CogType DEF Levelled
<1>2. IsFiniteSet(Levelled)
  <2>1. cog.levels \in [1..Len(cog.levels) -> Nat] /\ Len(cog.levels) \in Nat
    BY CogType
  <2>2. cog.levels \in Surjection(1..Len(cog.levels), Levelled)
    BY <2>1 DEF Surjection, Levelled
  <2>3. IsFiniteSet(1..Len(cog.levels))
    BY <2>1, FS_Interval
  <2> QED BY <2>2, <2>3, FS_Surjection
<1> QED BY <1>1, <1>2, Ranks DEF LevelRank

LEMMA LevelsAre ==
  ASSUME Accepted
  PROVE  /\ Levels \in Seq(Nat) /\ Len(Levels) = Cardinality(Levelled)
         /\ DOMAIN Levels = 1..Len(Levels) /\ Len(Levels) \in Nat
         /\ \A k \in 1..Len(Levels) : Levels[k] \in Levelled
<1> DEFINE N == Cardinality(Levelled)
<1>1. Levels = [k \in 1..N |-> CHOOSE level \in Levelled : LevelRank(level) = k]
  BY DEF Levels, Levelled, LevelRank
<1>2. N \in Nat /\ Levelled \subseteq Nat
  BY LevelRanks
<1>3. \A k \in 1..N : Levels[k] \in Levelled
  BY <1>1, LevelRanks
<1>4. Levels \in [1..N -> Nat]
  BY <1>1, <1>2, <1>3
<1> HIDE DEF N
<1> QED BY <1>2, <1>3, <1>4 DEF N

\* Images are numbered from one, the base image, and their builders validate.
LEMMA ImagesAre ==
  ASSUME Accepted
  PROVE  /\ ImageCount \in Nat \ {0} /\ ImageCount = 1 + Len(Levels)
         /\ \A i \in 1..ImageCount :
              /\ LevelOf(i) \in Nat \ {0}
              /\ BuilderOf(i) \in Builder /\ Validate(BuilderOf(i))
              /\ BuilderOf(i).width \in Nat \ {0} /\ BuilderOf(i).height \in Nat \ {0}
<1>1. ImageCount \in Nat \ {0} /\ ImageCount = 1 + Len(Levels)
  BY LevelsAre DEF ImageCount
<1>2. ASSUME NEW i \in 1..ImageCount
      PROVE  /\ LevelOf(i) \in {1} \cup Levelled /\ LevelOf(i) \in Nat \ {0}
  <2>1. i # 1 => i - 1 \in 1..Len(Levels)
    BY <1>1
  <2>2. i # 1 => LevelOf(i) \in Levelled
    BY <2>1, LevelsAre DEF LevelOf
  <2>3. \A level \in Levelled : level \in Nat /\ level > 1
    BY LevelRanks DEF Levelled, Accepted, ValidCog
  <2> QED BY <2>2, <2>3 DEF LevelOf
<1>3. ASSUME NEW i \in 1..ImageCount
      PROVE  /\ BuilderOf(i) \in Builder /\ Validate(BuilderOf(i))
             /\ BuilderOf(i).width \in Nat \ {0} /\ BuilderOf(i).height \in Nat \ {0}
  <2>1. Validate(BuilderOf(i))
    BY <1>2 DEF BuilderOf, Accepted, ValidCog, Levelled
  <2>2. DivCeil(cog.width, LevelOf(i)) \in Nat \ {0} /\ DivCeil(cog.height, LevelOf(i)) \in Nat \ {0}
    BY <1>2, CogType, DivCeilType
  <2>3. BuilderOf(i) \in Builder
    BY <2>2, CogType DEF BuilderOf, BuilderAt, Builder
  <2> QED BY <2>1, <2>2, <2>3 DEF BuilderOf, BuilderAt
<1> QED BY <1>1, <1>2, <1>3

----------------------------------------------------------------------------
\* Only the base image lists the overviews, if they are SubIFDs and there are any.
HasSubIfds(i) == i = 1 /\ cog.subIfds /\ Levels # <<>>

(***************************************************************************)
(* The tags of every image, the SubIFDs array of the base image included,  *)
(* are strictly sorted, with one array of offsets and one of byte counts.  *)
(***************************************************************************)
LEMMA TagsAre ==
  ASSUME Accepted, NEW i \in 1..ImageCount, NEW isBig \in BOOLEAN
  PROVE  LET tags == Tags(i, isBig)
             b == BuilderOf(i)
         IN /\ tags \in Seq(Tag) /\ TagsSorted(tags) /\ DistinctCodes(tags)
            /\ BlockArrayTags(b, isBig) \subseteq TagSet(tags)
            /\ Codes(tags) \cap {TagStripOffsets, TagTileOffsets} = {OffsetsTagCode(b)}
            /\ Codes(tags) \cap {TagStripByteCounts, TagTileByteCounts} = {ByteCountsTagCode(b)}
            /\ TagSubIfds \in Codes(tags) <=> HasSubIfds(i)
            /\ HasSubIfds(i) => SubIfdsTag(isBig) \in TagSet(tags)
<1> DEFINE b == BuilderOf(i)
           built == BuildTags(b, isBig)
           sub == SubIfdsTag(isBig)
           tags == Tags(i, isBig)
<1>1. b \in Builder /\ Validate(b) /\ b.extra = cog.tags
  BY ImagesAre DEF BuilderOf, BuilderAt
<1>2. /\ built \in Seq(Tag) /\ TagsSorted(built) /\ DistinctCodes(built)
      /\ BlockArrayTags(b, isBig) \subseteq TagSet(built)
      /\ Codes(built) \cap {TagStripOffsets, TagTileOffsets} = {OffsetsTagCode(b)}
      /\ Codes(built) \cap {TagStripByteCounts, TagTileByteCounts} = {ByteCountsTagCode(b)}
      /\ Codes(built) \subseteq Managed \cup Codes(b.extra)
  BY <1>1, BuiltTags
<1>3. TagSubIfds \notin Codes(built)
  <2>1. TagSubIfds \notin Managed
    BY DEF Managed, TagSubIfds, TagNewSubfileType, TagImageWidth, TagImageLength,
       TagBitsPerSample, TagCompression, TagPhotometric, TagStripOffsets, TagSamplesPerPixel,
       TagRowsPerStrip, TagStripByteCounts, TagPlanarConfig, TagPredictor, TagColorMap,
       TagTileWidth, TagTileLength, TagTileOffsets, TagTileByteCounts, TagInkSet,
       TagExtraSamples, TagSampleFormat, TagYcbcrSubsampling, TagYcbcrPositioning,
       TagLercParameters
  <2>2. TagSubIfds \notin Codes(b.extra)
    BY <1>1, CogType DEF Codes
  <2> QED BY <1>2, <2>1, <2>2
<1> HIDE DEF built, b
<1>4. CASE ~HasSubIfds(i)
  <2>1. tags = built
    BY <1>4 DEF Tags, HasSubIfds, built, b
  <2> HIDE DEF tags
  <2> QED BY <1>2, <1>3, <1>4, <2>1 DEF tags, b
<1>5. CASE HasSubIfds(i)
  <2>1. sub \in Tag /\ sub.code = TagSubIfds
    BY LevelsAre DEF SubIfdsTag, Tag, TagSubIfds, ElementWidth
  <2> HIDE DEF sub
  <2> DEFINE both == built \o <<sub>>
  <2>2. /\ both \in Seq(Tag) /\ DistinctCodes(both) /\ TagSet(both) = TagSet(built) \cup {sub}
        /\ Codes(both) = Codes(built) \cup {TagSubIfds}
    <3>1. /\ <<sub>> \in Seq(Tag) /\ DistinctCodes(<<sub>>)
          /\ TagSet(<<sub>>) = {sub} /\ Codes(<<sub>>) = {TagSubIfds}
      BY <2>1, OneTag
    <3>2. Codes(built) \cap Codes(<<sub>>) = {}
      BY <1>3, <3>1
    <3> DEFINE one == <<sub>>
    <3> HIDE DEF one
    <3>3. /\ one \in Seq(Tag) /\ DistinctCodes(one) /\ TagSet(one) = {sub}
          /\ Codes(one) = {TagSubIfds} /\ Codes(built) \cap Codes(one) = {}
      BY <3>1, <3>2 DEF one
    <3>4. /\ built \o one \in Seq(Tag) /\ DistinctCodes(built \o one)
          /\ TagSet(built \o one) = TagSet(built) \cup TagSet(one)
          /\ Codes(built \o one) = Codes(built) \cup Codes(one)
      BY <1>2, <3>3, JoinedTags
    <3> QED BY <3>3, <3>4 DEF one
  <2>3. Append(built, sub) = both
    BY <1>2, <2>1
  <2>4. tags = SortedByCode(both)
    <3> HIDE DEF both
    <3> QED BY <1>5, <2>3 DEF Tags, HasSubIfds, built, b, sub
  <2> HIDE DEF tags, both
  <2>5. /\ tags \in Seq(Tag) /\ TagSet(tags) = TagSet(both)
        /\ \A k, m \in 1..Len(tags) : k < m => tags[k].code < tags[m].code
    BY <2>2, <2>4, SortedFacts
  <2>6. TagsSorted(tags)
    BY <2>5 DEF TagsSorted
  <2>7. DistinctCodes(tags)
    <3>1. \A k \in 1..Len(tags) : tags[k].code \in Nat
      <4>1. \A k \in 1..Len(tags) : tags[k] \in Tag
        BY <2>5
      <4> QED BY <4>1 DEF Tag
    <3> QED BY <2>5, <3>1 DEF DistinctCodes
  <2>8. Codes(tags) = Codes(both)
    <3>1. \A s : Codes(s) = {t.code : t \in TagSet(s)}
      BY DEF Codes, TagSet
    <3> QED BY <2>5, <3>1
  <2>9. TagSubIfds \notin {TagStripOffsets, TagTileOffsets, TagStripByteCounts, TagTileByteCounts}
    BY DEF TagSubIfds, TagStripOffsets, TagTileOffsets, TagStripByteCounts, TagTileByteCounts
  <2> QED BY <1>2, <1>5, <2>2, <2>5, <2>6, <2>7, <2>8, <2>9 DEF tags, b, sub
<1> QED BY <1>4, <1>5

\* The arrays of an image that emit_cog patches, with how many elements they have.
IsArray(i, code, n) ==
  \/ code \in {OffsetsTagCode(BuilderOf(i)), ByteCountsTagCode(BuilderOf(i))}
     /\ n = CheckedBlockCount(BuilderOf(i))
  \/ HasSubIfds(i) /\ code = TagSubIfds /\ n = ImageCount - 1

LEMMA ArraysAre ==
  ASSUME Accepted, NEW i \in 1..ImageCount, NEW isBig \in BOOLEAN, NEW code, NEW n,
         IsArray(i, code, n)
  PROVE  LET tags == Tags(i, isBig)
             o == ArrayIndex(tags, code)
         IN /\ o \in DOMAIN tags /\ tags[o].code = code /\ IndexOf(tags, code) = {o}
            /\ tags[o].len \div Width(isBig) = n /\ code \in OffsetArrayCodes
            /\ Deferred(tags[o], isBig) <=> n # 1
            /\ n * Width(isBig) <= InlineMax(isBig) <=> ~Deferred(tags[o], isBig)
            /\ n \in Nat \ {0} /\ o \in Nat
<1> DEFINE tags == Tags(i, isBig)
           b == BuilderOf(i)
<1>1. /\ tags \in Seq(Tag) /\ DistinctCodes(tags) /\ BlockArrayTags(b, isBig) \subseteq TagSet(tags)
      /\ HasSubIfds(i) => SubIfdsTag(isBig) \in TagSet(tags)
  BY TagsAre
<1>2. n \in Nat \ {0} /\ [code |-> code, len |-> n * ElementWidth(isBig)] \in TagSet(tags)
  <2>1. CASE HasSubIfds(i) /\ code = TagSubIfds /\ n = ImageCount - 1
    <3>1. n = Len(Levels) /\ n \in Nat
      BY <2>1, ImagesAre, LevelsAre
    <3>2. n # 0
      BY <2>1, <3>1, LevelsAre DEF HasSubIfds
    <3> QED BY <1>1, <2>1, <3>1, <3>2 DEF SubIfdsTag
  <2>2. CASE code \in {OffsetsTagCode(b), ByteCountsTagCode(b)} /\ n = CheckedBlockCount(b)
    <3>1. n \in Nat \ {0}
      BY <2>2, ImagesAre, BlockCounts
    <3> QED BY <1>1, <2>2, <3>1 DEF BlockArrayTags
  <2> QED BY <2>1, <2>2 DEF IsArray
<1>3. code \in OffsetArrayCodes
  BY DEF IsArray, OffsetArrayCodes, OffsetsTagCode, ByteCountsTagCode
<1>4. DOMAIN tags \subseteq Nat
  BY <1>1
<1> HIDE DEF tags
<1> QED BY <1>1, <1>2, <1>3, <1>4, ArrayFound DEF tags

----------------------------------------------------------------------------
(***************************************************************************)
(* The plan.  Each IFD begins where the one before ends, and takes exactly *)
(* the room it is estimated at.                                            *)
(***************************************************************************)
EndPart(isBig) == [i \in 1..ImageCount |-> EstimateIfdSize(isBig, Tags(i, isBig))]

LEMMA PlannedEndIs ==
  ASSUME Accepted, base \in Nat, NEW isBig \in BOOLEAN
  PROVE  /\ EndPart(isBig) \in [1..ImageCount -> Nat]
         /\ FirstIfdStart(isBig) \in Nat
         /\ base + HeaderLen(isBig) <= FirstIfdStart(isBig)
         /\ Sums(PlannedEnd(isBig), ImageCount, FirstIfdStart(isBig), EndPart(isBig))
<1> DEFINE n == ImageCount
           start == FirstIfdStart(isBig)
           est(i) == EstimateIfdSize(isBig, Tags(i, isBig))
<1>1. n \in Nat
  BY ImagesAre
<1>2. \A i \in 1..n : est(i) \in Nat
  BY TagsAre, EstimateType
<1>3. EndPart(isBig) \in [1..n -> Nat] /\ \A i \in 1..n : EndPart(isBig)[i] = est(i)
  BY <1>2 DEF EndPart
<1>4. start \in Nat /\ base + HeaderLen(isBig) <= start
  <2>1. HeaderLen(isBig) \in Nat /\ PrefixLen \in Nat
    BY SizesType DEF PrefixLen
  <2>2. PrefixEnd(isBig) \in Nat /\ base + HeaderLen(isBig) <= PrefixEnd(isBig)
    BY <2>1 DEF PrefixEnd
  <2>3. PrefixEnd(isBig) % 2 \in Nat
    BY <2>2
  <2> QED BY <2>1, <2>2, <2>3 DEF FirstIfdStart
<1> HIDE DEF start, est, n
<1>5. PICK f : Sums(f, n, start, EndPart(isBig))
  BY <1>1, <1>3, <1>4, RunningSum
<1>6. f = [i \in 0..n |-> IF i = 0 THEN start ELSE f[i - 1] + est(i)]
  <2>1. f = [i \in 0..n |-> IF i = 0 THEN start ELSE f[i - 1] + EndPart(isBig)[i]]
    BY <1>5 DEF Sums
  <2>2. \A i \in 0..n : i # 0 => i \in 1..n
    BY <1>1
  <2>3. \A i \in 0..n : (IF i = 0 THEN start ELSE f[i - 1] + EndPart(isBig)[i])
                       = (IF i = 0 THEN start ELSE f[i - 1] + est(i))
    BY <1>3, <2>2
  <2> QED BY <2>1, <2>3
<1>7. Sums(PlannedEnd(isBig), n, start, EndPart(isBig))
  <2>1. \E end : end = [i \in 0..ImageCount |-> IF i = 0 THEN FirstIfdStart(isBig)
                          ELSE end[i - 1] + EstimateIfdSize(isBig, Tags(i, isBig))]
    BY <1>6 DEF n, start, est
  <2>2. PlannedEnd(isBig) = [i \in 0..ImageCount |-> IF i = 0 THEN FirstIfdStart(isBig)
                          ELSE PlannedEnd(isBig)[i - 1] + EstimateIfdSize(isBig, Tags(i, isBig))]
    BY <2>1 DEF PlannedEnd
  <2>3. PlannedEnd(isBig) = [i \in 0..n |-> IF i = 0 THEN start ELSE PlannedEnd(isBig)[i - 1] + est(i)]
    BY <2>2 DEF n, start, est
  <2>4. \A i \in 0..n : i # 0 => i \in 1..n
    BY <1>1
  <2> DEFINE g == PlannedEnd(isBig)
  <2> HIDE DEF g
  <2>5. \A i \in 0..n : (IF i = 0 THEN start ELSE g[i - 1] + EndPart(isBig)[i])
                       = (IF i = 0 THEN start ELSE g[i - 1] + est(i))
    BY <1>3, <2>4
  <2>6. g = [i \in 0..n |-> IF i = 0 THEN start ELSE g[i - 1] + est(i)]
    BY <2>3 DEF g
  <2>7. Sums(g, n, start, EndPart(isBig))
    BY <2>5, <2>6 DEF Sums
  <2> QED BY <2>7 DEF g
<1> QED BY <1>3, <1>4, <1>7 DEF n, start

LEMMA EndsAre ==
  ASSUME Accepted, base \in Nat, NEW isBig \in BOOLEAN
  PROVE  LET end == PlannedEnd(isBig)
         IN /\ end[0] = FirstIfdStart(isBig) /\ base + HeaderLen(isBig) <= end[0]
            /\ \A i \in 0..ImageCount : end[i] \in Nat
            /\ \A i, j \in 0..ImageCount : i <= j => end[i] <= end[j]
            /\ \A i \in 1..ImageCount :
                 /\ end[i] = end[i - 1] + IfdEnd(0, Tags(i, isBig), isBig)
                 /\ IfdEnd(end[i - 1], Tags(i, isBig), isBig) = end[i]
                 /\ IfdEnd(0, Tags(i, isBig), isBig) \in Nat
<1> DEFINE end == PlannedEnd(isBig)
           n == ImageCount
           start == FirstIfdStart(isBig)
<1>1. /\ EndPart(isBig) \in [1..n -> Nat] /\ start \in Nat /\ n \in Nat
      /\ base + HeaderLen(isBig) <= start
      /\ Sums(end, n, start, EndPart(isBig))
  BY PlannedEndIs, ImagesAre
<1> HIDE DEF end, start
<1>2. /\ end \in [0..n -> Nat] /\ end[0] = start
      /\ \A i, j \in 0..n : i <= j => end[i] <= end[j]
  BY <1>1, RunningSumType
<1>3. ASSUME NEW i \in 1..n
      PROVE  /\ end[i] = end[i - 1] + IfdEnd(0, Tags(i, isBig), isBig)
             /\ IfdEnd(end[i - 1], Tags(i, isBig), isBig) = end[i]
             /\ IfdEnd(0, Tags(i, isBig), isBig) \in Nat
  <2>1. i \in 0..n /\ i # 0 /\ i - 1 \in 0..n
    BY <1>1
  <2>2. end[i] = end[i - 1] + EndPart(isBig)[i]
    BY <1>1, <2>1 DEF Sums
  <2>3. EndPart(isBig)[i] = EstimateIfdSize(isBig, Tags(i, isBig))
    BY DEF EndPart
  <2>4. Tags(i, isBig) \in Seq(Tag)
    BY TagsAre
  <2>5. IfdEnd(0, Tags(i, isBig), isBig) = EstimateIfdSize(isBig, Tags(i, isBig))
    BY <2>4, EstimateType
  <2>6. /\ IfdEnd(end[i - 1], Tags(i, isBig), isBig) = end[i - 1] + IfdEnd(0, Tags(i, isBig), isBig)
        /\ IfdEnd(0, Tags(i, isBig), isBig) \in Nat
    BY <1>2, <2>1, <2>4, IfdEndShift
  <2> QED BY <2>2, <2>3, <2>5, <2>6
<1>4. \A i \in 0..n : end[i] \in Nat
  BY <1>2
<1> QED BY <1>1, <1>2, <1>3, <1>4 DEF end, start

----------------------------------------------------------------------------
\* What hangs on the COG alone stays while it does.
LEMMA CogKept ==
  ASSUME UNCHANGED cog
  PROVE  /\ Accepted' = Accepted /\ ImageCount' = ImageCount /\ Levels' = Levels
         /\ \A i : /\ BuilderOf(i)' = BuilderOf(i) /\ Blocks(i)' = Blocks(i)
                   /\ PatchCount(i)' = PatchCount(i) /\ LevelOf(i)' = LevelOf(i)
         /\ \A i, isBig : Tags(i, isBig)' = Tags(i, isBig)
<1>1. Levels' = Levels
  BY DEF Levels
<1>2. ImageCount' = ImageCount
  BY <1>1 DEF ImageCount
<1>3. \A i : LevelOf(i)' = LevelOf(i)
  BY <1>1 DEF LevelOf
<1>4. \A i : BuilderOf(i)' = BuilderOf(i)
  BY <1>3 DEF BuilderOf
<1>5. \A i : Blocks(i)' = Blocks(i) /\ PatchCount(i)' = PatchCount(i)
  BY <1>2, <1>4 DEF Blocks, PatchCount
<1>6. \A i, isBig : Tags(i, isBig)' = Tags(i, isBig)
  BY <1>1, <1>4 DEF Tags, SubIfdsTag
<1>7. Accepted' = Accepted
  BY DEF Accepted
<1> QED BY <1>1, <1>2, <1>3, <1>4, <1>5, <1>6, <1>7

\* The plan hangs on the place of the file, too.
LEMMA EndKept ==
  ASSUME UNCHANGED <<cog, base>>, NEW isBig
  PROVE  PlannedEnd(isBig)' = PlannedEnd(isBig)
<1>1. /\ ImageCount' = ImageCount /\ \A i : Tags(i, isBig)' = Tags(i, isBig)
  BY CogKept
<1>2. FirstIfdStart(isBig)' = FirstIfdStart(isBig)
  BY DEF FirstIfdStart, PrefixEnd, PrefixLen
<1> QED BY <1>1, <1>2 DEF PlannedEnd

----------------------------------------------------------------------------
(***************************************************************************)
(* The invariant of the plan: types; that the plan stands once all blocks  *)
(* are spooled, and fits the variant; that each IFD lies where it was      *)
(* planned; and where the cursor of the patches is.                        *)
(***************************************************************************)
SparseRecord == [off |-> 0, count |-> 0, sparse |-> TRUE]
IsRecord(r) ==
  \/ r \in {NoRecord, SparseRecord}
  \/ r \in [off : Nat, count : Nat \ {0}, sparse : {FALSE}] /\ r.off >= 4

CogTypeOK ==
  /\ Accepted /\ base \in Nat /\ at \in Nat /\ spoolLen \in Nat
  /\ big \in BOOLEAN
  /\ DOMAIN images = 1..ImageCount
  /\ \A i \in 1..ImageCount :
       DOMAIN images[i] = Blocks(i) /\ \A b \in Blocks(i) : IsRecord(images[i][b])
  /\ ifds \in Seq(Nat) /\ Len(ifds) <= ImageCount
  /\ cur \in [image : Nat \ {0}, step : Nat \ {0}]

AllSpooled == \A i \in 1..ImageCount : Unspooled(i) = {}
AtFirst == cur = [image |-> 1, step |-> 1]

PlanInv ==
  /\ phase \in {"open", "spool"} => planned = <<>>
  /\ phase \in {"header", "ifds", "patch", "done"} => planned # <<>>
  /\ planned # <<>> =>
       /\ planned = PlanFor(big, PlannedEnd(big)) /\ AllSpooled
       /\ ~big => ClassicFits(PlannedEnd(FALSE))
  /\ planned = <<>> \/ phase = "header" => ifds = <<>>
  /\ \A k \in DOMAIN ifds : ifds[k] = PlannedEnd(big)[k - 1]
  /\ phase = "ifds" => at = PlannedEnd(big)[Len(ifds)]
  /\ phase \in {"patch", "done"} \/ ~AtFirst => Len(ifds) = ImageCount
  /\ phase \in {"open", "spool", "header", "ifds"} => AtFirst
  /\ cur.image <= ImageCount + 2
  /\ cur.image <= ImageCount + 1 => cur.step <= PatchCount(cur.image)
  /\ phase = "done" => cur.image = ImageCount + 2
  /\ NoLateFailure

\* The slots of the patches.
NextSlot == Slot("next", 0, 0)
ElemSlot(i, code, k) == Slot("elem", ArrayIndex(Tags(i, big), code), k)
InIfd(i, s, v) == SlotField(ifds[i], Tags(i, big), big, s, v)
FirstPointer(v) == Field(base + IF big THEN 8 ELSE 4, Width(big), v)

Steps == {x \in [image : 1..(ImageCount + 1), step : Nat \ {0}] : x.step <= PatchCount(x.image)}
IsHead(x) == x.image = ImageCount + 1 /\ x.step = 1

\* Which slot a patch goes to, and the value it gets.
Target(x) ==
  LET n == CheckedBlockCount(BuilderOf(x.image))
      b == BuilderOf(x.image)
  IN IF x.image <= ImageCount
     THEN [ifd |-> x.image, slot |-> IF x.step <= n THEN ElemSlot(x.image, OffsetsTagCode(b), x.step)
                                     ELSE ElemSlot(x.image, ByteCountsTagCode(b), x.step - n)]
     ELSE IF cog.subIfds THEN [ifd |-> 1, slot |-> ElemSlot(1, TagSubIfds, x.step - 1)]
     ELSE [ifd |-> x.step - 1, slot |-> NextSlot]

Value(x) ==
  LET n == CheckedBlockCount(BuilderOf(x.image))
  IN IF x.image > ImageCount THEN ifds[x.step]
     ELSE IF x.step <= n THEN planned[x.image].offsets[x.step]
     ELSE images[x.image][x.step - n].count

LEMMA BlocksAre ==
  ASSUME Accepted, NEW i \in 1..ImageCount
  PROVE  LET n == CheckedBlockCount(BuilderOf(i))
         IN n \in Nat \ {0} /\ Blocks(i) = 1..n /\ PatchCount(i) = 2 * n
BY ImagesAre, BlockCounts DEF Blocks, PatchCount

\* An element of an array of n elements is a slot of the IFD.
LEMMA ElemSlots ==
  ASSUME Accepted, big \in BOOLEAN, NEW i \in 1..ImageCount, NEW code, NEW n,
         IsArray(i, code, n), NEW k \in 1..n, NEW value
  PROVE  /\ ElemSlot(i, code, k) \in Slots(Tags(i, big), big)
         /\ planned[i].tags = Tags(i, big) =>
              Element(i, code, n, k, value) = {InIfd(i, ElemSlot(i, code, k), value)}
<1> DEFINE tags == Tags(i, big)
           o == ArrayIndex(tags, code)
<1>1. /\ o \in DOMAIN tags /\ tags[o].code = code /\ IndexOf(tags, code) = {o}
      /\ tags[o].len \div Width(big) = n /\ code \in OffsetArrayCodes
      /\ Deferred(tags[o], big) <=> n # 1
      /\ n \in Nat \ {0} /\ o \in Nat
  BY ArraysAre
<1>2. ElemSlot(i, code, k) = Slot("elem", o, k)
  BY DEF ElemSlot
<1> HIDE DEF tags, o
<1>3. Slot("elem", o, k) \in Slots(tags, big)
  BY <1>1 DEF Slots, Slot
<1>4. ASSUME planned[i].tags = tags
      PROVE  ArrayOf(i, code, n) = {ValueOffset(ifds[i], tags, big, o)}
  <2>1. FindTagValueOffset(ifds[i], tags, big, code) = {ValueOffset(ifds[i], tags, big, o)}
    BY <1>1 DEF FindTagValueOffset, ValueOffset, DeferredOffset
  <2>2. n # 1 => DeferredDataOffset(ifds[i], tags, big, code) = {ValueOffset(ifds[i], tags, big, o)}
    BY <1>1 DEF DeferredDataOffset, ValueOffset
  <2> QED BY <1>4, <2>1, <2>2 DEF ArrayOf
<1>5. \A v : InIfd(i, Slot("elem", o, k), v)
             = Field(ValueOffset(ifds[i], tags, big, o) + (k - 1) * Width(big), Width(big), v)
  BY DEF InIfd, SlotField, SlotOff, SlotLen, Slot, tags
<1> QED BY <1>2, <1>3, <1>4, <1>5 DEF Element, tags

\* What the plan says of an image.
LEMMA PlanIs ==
  ASSUME CogTypeOK, PlanInv, planned # <<>>, NEW i \in 1..ImageCount
  PROVE  /\ planned[i].tags = Tags(i, big) /\ DOMAIN planned = 1..ImageCount
         /\ \A b \in Blocks(i) :
              /\ images[i][b] # NoRecord
              /\ planned[i].offsets[b] = Offsets(i, PlannedEnd(big)[ImageCount])[b]
              /\ images[i][b].sparse => images[i][b] = SparseRecord /\ planned[i].offsets[b] = 0
              /\ ~images[i][b].sparse =>
                   /\ images[i][b].off \in Nat /\ images[i][b].off >= 4
                   /\ images[i][b].count \in Nat \ {0}
                   /\ planned[i].offsets[b] = PlannedEnd(big)[ImageCount] + images[i][b].off
<1> DEFINE end == PlannedEnd(big)
<1>1. planned = PlanFor(big, end) /\ AllSpooled
  BY DEF PlanInv
<1>2. /\ planned[i].tags = Tags(i, big) /\ DOMAIN planned = 1..ImageCount
      /\ planned[i].offsets = Offsets(i, end[ImageCount])
  BY <1>1 DEF PlanFor
<1> HIDE DEF end
<1>3. ASSUME NEW b \in Blocks(i)
      PROVE  /\ images[i][b] # NoRecord /\ IsRecord(images[i][b])
             /\ Offsets(i, end[ImageCount])[b]
                  = IF images[i][b].sparse THEN 0 ELSE end[ImageCount] + images[i][b].off
  BY <1>1 DEF AllSpooled, Unspooled, CogTypeOK, Offsets
<1>4. ASSUME NEW b \in Blocks(i)
      PROVE  \/ images[i][b] = SparseRecord /\ images[i][b].sparse
             \/ /\ ~images[i][b].sparse /\ images[i][b].off \in Nat /\ images[i][b].off >= 4
                /\ images[i][b].count \in Nat \ {0}
  <2> DEFINE r == images[i][b]
  <2> HIDE DEF r
  <2>1. r # NoRecord /\ IsRecord(r)
    BY <1>3 DEF r
  <2>2. CASE r = SparseRecord
    BY <2>2 DEF SparseRecord, r
  <2>3. CASE r \in [off : Nat, count : Nat \ {0}, sparse : {FALSE}] /\ r.off >= 4
    BY <2>3 DEF r
  <2> QED BY <2>1, <2>2, <2>3 DEF IsRecord
<1> QED BY <1>2, <1>3, <1>4 DEF end

\* A patch fills one slot, or the pointer in the header, with an offset or count that
\* fits the variant.
LEMMA PatchIs ==
  ASSUME CogTypeOK, PlanInv, planned # <<>>, Len(ifds) = ImageCount, NEW x \in Steps
  PROVE  /\ IsHead(x) => Patch(x.image, x.step) = {FirstPointer(Value(x))}
         /\ ~IsHead(x) =>
              /\ Target(x).ifd \in 1..ImageCount
              /\ Target(x).slot \in Slots(Tags(Target(x).ifd, big), big)
              /\ Patch(x.image, x.step) = {InIfd(Target(x).ifd, Target(x).slot, Value(x))}
         /\ Value(x) \in Nat /\ (~big => Value(x) <= Limit)
<1> DEFINE i == x.image
           k == x.step
           N == ImageCount
           b == BuilderOf(i)
           n == CheckedBlockCount(b)
           end == PlannedEnd(big)
<1>0. Accepted /\ big \in BOOLEAN /\ N \in Nat \ {0}
  BY ImagesAre DEF CogTypeOK
<1>1. i \in 1..(N + 1) /\ k \in Nat \ {0} /\ k <= PatchCount(i)
  BY DEF Steps
<1>fits. ~big => big = FALSE /\ ClassicFits(end)
  BY <1>0 DEF PlanInv
<1>ends. /\ \A j \in 0..N : end[j] \in Nat
         /\ \A j \in 1..N : ifds[j] = end[j - 1]
         /\ ~big => \A j \in 0..N : end[j] <= Limit
  <2>1. /\ (\A j \in 0..N : end[j] \in Nat) /\ \A h, j \in 0..N : h <= j => end[h] <= end[j]
    BY <1>0, EndsAre DEF CogTypeOK
  <2>2. DOMAIN ifds = 1..N
    BY DEF CogTypeOK
  <2>3. ~big => \A j \in 1..N : end[j] <= Limit
    BY <1>0, <1>fits DEF ClassicFits
  <2>4. \A j \in 1..N : ifds[j] = end[j - 1]
    BY <2>2 DEF PlanInv
  <2> HIDE DEF end
  <2>5. ~big => end[0] <= Limit
    <3>1. end[0] <= end[1] /\ end[0] \in Nat /\ end[1] \in Nat
      BY <1>0, <2>1
    <3>2. Limit \in Nat
      BY CogAssumption
    <3> QED BY <1>0, <2>3, <3>1, <3>2
  <2> QED BY <1>0, <2>1, <2>3, <2>4, <2>5
<1>2. CASE i <= N
  <2>1. i \in 1..N /\ ~IsHead(x)
    BY <1>0, <1>1, <1>2 DEF IsHead
  <2>2. n \in Nat \ {0} /\ Blocks(i) = 1..n /\ PatchCount(i) = 2 * n
    BY <1>0, <2>1, BlocksAre
  <2>3. planned[i].tags = Tags(i, big)
    BY <2>1, PlanIs
  <2>4. ASSUME NEW h \in 1..n
        PROVE  /\ planned[i].offsets[h] \in Nat /\ images[i][h].count \in Nat
               /\ ~big => planned[i].offsets[h] <= Limit /\ images[i][h].count <= Limit
    <3>1. h \in Blocks(i)
      BY <2>2
    <3>2. /\ planned[i].offsets[h] = Offsets(i, end[N])[h]
          /\ images[i][h].sparse => images[i][h] = SparseRecord /\ planned[i].offsets[h] = 0
          /\ ~images[i][h].sparse =>
               /\ images[i][h].off \in Nat /\ images[i][h].count \in Nat
               /\ planned[i].offsets[h] = end[N] + images[i][h].off
      BY <2>1, <3>1, PlanIs
    <3>3. ~big => Offsets(i, end[N])[h] <= Limit /\ images[i][h].count <= Limit
      BY <1>fits, <2>1, <3>1 DEF ClassicFits
    <3>4. end[N] \in Nat
      BY <1>0, <1>ends
    <3> QED BY <3>2, <3>3, <3>4 DEF SparseRecord
  <2>5. CASE k <= n
    <3>1. k \in 1..n /\ IsArray(i, OffsetsTagCode(b), n)
      BY <1>1, <2>2, <2>5 DEF IsArray
    <3>2. /\ Target(x) = [ifd |-> i, slot |-> ElemSlot(i, OffsetsTagCode(b), k)]
          /\ Value(x) = planned[i].offsets[k]
      BY <1>0, <1>1, <1>2, <2>5 DEF Target, Value
    <3>3. Patch(i, k) = Element(i, OffsetsTagCode(b), n, k, Value(x))
      BY <1>2, <2>5, <3>2 DEF Patch, ArrayPatch
    <3> QED BY <1>0, <2>1, <2>3, <2>4, <3>1, <3>2, <3>3, ElemSlots
  <2>6. CASE k > n
    <3>1. k - n \in 1..n /\ IsArray(i, ByteCountsTagCode(b), n)
      BY <1>1, <2>2, <2>6 DEF IsArray
    <3>2. /\ Target(x) = [ifd |-> i, slot |-> ElemSlot(i, ByteCountsTagCode(b), k - n)]
          /\ Value(x) = images[i][k - n].count
      BY <1>0, <1>1, <1>2, <2>2, <2>6 DEF Target, Value
    <3>3. Patch(i, k) = Element(i, ByteCountsTagCode(b), n, k - n, Value(x))
      BY <1>1, <1>2, <2>2, <2>6, <3>2 DEF Patch, ArrayPatch
    <3> QED BY <1>0, <2>1, <2>3, <2>4, <3>1, <3>2, <3>3, ElemSlots
  <2> QED BY <1>1, <2>2, <2>5, <2>6
<1>3. CASE i = N + 1
  <2>1. PatchCount(i) = N /\ k \in 1..N /\ k - 1 \in 0..N /\ Patch(i, k) = PointerPatch(k)
    BY <1>0, <1>1, <1>3 DEF PatchCount, Patch
  <2>2. Value(x) = ifds[k]
    BY <1>0, <1>3 DEF Value
  <2>3. Value(x) \in Nat /\ (~big => Value(x) <= Limit)
    BY <1>ends, <2>1, <2>2
  <2>4. CASE k = 1
    BY <1>3, <2>1, <2>2, <2>3, <2>4 DEF IsHead, PointerPatch, FirstPointer
  <2>5. CASE k # 1
    <3>0. ~IsHead(x) /\ k - 1 \in 1..(N - 1)
      BY <1>0, <2>1, <2>5 DEF IsHead
    <3>1. CASE cog.subIfds
      <4>1. Target(x) = [ifd |-> 1, slot |-> ElemSlot(1, TagSubIfds, k - 1)]
        BY <1>0, <1>3, <3>1 DEF Target
      <4>2. HasSubIfds(1)
        <5>1. Len(Levels) # 0
          BY <1>0, <3>0, ImagesAre
        <5> QED BY <3>1, <5>1 DEF HasSubIfds
      <4>3. IsArray(1, TagSubIfds, N - 1) /\ 1 \in 1..N
        BY <1>0, <4>2 DEF IsArray
      <4>4. Patch(i, k) = Element(1, TagSubIfds, N - 1, k - 1, Value(x))
        BY <2>1, <2>2, <2>5, <3>1 DEF PointerPatch
      <4>5. planned[1].tags = Tags(1, big)
        BY <4>3, PlanIs
      <4> QED BY <1>0, <2>3, <3>0, <4>1, <4>3, <4>4, <4>5, ElemSlots
    <3>2. CASE ~cog.subIfds
      <4>1. Target(x) = [ifd |-> k - 1, slot |-> NextSlot]
        BY <1>0, <1>3, <3>2 DEF Target
      <4>2. k - 1 \in 1..N /\ planned[k - 1].tags = Tags(k - 1, big)
        BY <1>0, <3>0, PlanIs
      <4>3. NextSlot \in Slots(Tags(k - 1, big), big)
        BY DEF NextSlot, Slots, Slot
      <4>4. Patch(i, k) = {Field(NextPtrOffset(ifds[k - 1], Tags(k - 1, big), big), NextPtrSize(big), Value(x))}
        BY <2>1, <2>2, <2>5, <3>2, <4>2 DEF PointerPatch
      <4>5. Patch(i, k) = {InIfd(k - 1, NextSlot, Value(x))}
        BY <4>4 DEF InIfd, NextSlot, SlotField, SlotOff, SlotLen, Slot
      <4> QED BY <2>3, <3>0, <4>1, <4>2, <4>3, <4>5
    <3> QED BY <3>1, <3>2, CogType, <1>0
  <2> QED BY <2>4, <2>5
<1> QED BY <1>0, <1>1, <1>2, <1>3

----------------------------------------------------------------------------
\* What the records of the blocks say of the plan stays while they do.
LEMMA PlanKept ==
  ASSUME UNCHANGED <<cog, base, images>>
  PROVE  /\ AllSpooled' = AllSpooled
         /\ \A end : ClassicFits(end)' = ClassicFits(end)
         /\ \A isBig, end : PlanFor(isBig, end)' = PlanFor(isBig, end)
         /\ \A i : Unspooled(i)' = Unspooled(i)
<1>1. /\ ImageCount' = ImageCount /\ \A i : Blocks(i)' = Blocks(i)
      /\ \A i, isBig : Tags(i, isBig)' = Tags(i, isBig)
  BY CogKept
<1>2. \A i, start : Offsets(i, start)' = Offsets(i, start)
  BY <1>1 DEF Offsets
<1>3. \A i : Unspooled(i)' = Unspooled(i)
  BY <1>1 DEF Unspooled
<1>4. AllSpooled' = AllSpooled
  BY <1>1, <1>3 DEF AllSpooled
<1>5. \A end : ClassicFits(end)' = ClassicFits(end)
  BY <1>1, <1>2 DEF ClassicFits
<1>6. \A isBig, end : PlanFor(isBig, end)' = PlanFor(isBig, end)
  BY <1>1, <1>2 DEF PlanFor
<1> QED BY <1>3, <1>4, <1>5, <1>6

\* A step of the staging, or one that fails.
LEMMA PlanStutters ==
  ASSUME CogTypeOK, PlanInv, UNCHANGED <<options, images, layout>>, UNCHANGED <<at, spoolLen>>,
         error' # "overflow",
         \/ phase' = "failed" \/ phase' = phase
         \/ phase = "open" /\ phase' = "spool"
  PROVE  CogTypeOK' /\ PlanInv'
<1> USE DEF options, layout
<1>1. /\ Accepted' = Accepted /\ ImageCount' = ImageCount /\ \A i : Blocks(i)' = Blocks(i)
      /\ \A i : PatchCount(i)' = PatchCount(i)
  BY CogKept
<1>2. CogTypeOK'
  BY <1>1 DEF CogTypeOK
<1>3. /\ AllSpooled' = AllSpooled /\ \A end : ClassicFits(end)' = ClassicFits(end)
      /\ \A isBig, end : PlanFor(isBig, end)' = PlanFor(isBig, end)
  BY PlanKept
<1>4. PlannedEnd(big)' = PlannedEnd(big) /\ PlannedEnd(FALSE)' = PlannedEnd(FALSE)
  <2>1. \A isBig : PlannedEnd(isBig)' = PlannedEnd(isBig)
    BY EndKept
  <2> QED BY <2>1
<1>5. PlanInv'
  BY <1>1, <1>3, <1>4 DEF PlanInv, NoLateFailure, AtFirst
<1> QED BY <1>2, <1>5

LEMMA PlanInit == Init => CogTypeOK /\ PlanInv
<1> SUFFICES ASSUME Init PROVE CogTypeOK /\ PlanInv
  OBVIOUS
<1>1. Accepted
  BY DEF Init, Accepted
<1>2. base \in Nat /\ at \in Nat
  <2>1. PICK s \in SinkStarts : base = s.pos /\ at = s.pos
    BY DEF Init
  <2>2. s \in [pos : Nat, len : Nat]
    BY CogAssumption
  <2> QED BY <2>1, <2>2
<1>3. ImageCount \in Nat \ {0} /\ PatchCount(1) \in Nat \ {0} /\ 1 <= PatchCount(1)
  <2>1. ImageCount \in Nat \ {0} /\ 1 \in 1..ImageCount
    BY <1>1, ImagesAre
  <2> QED BY <1>1, <2>1, BlocksAre
<1>4. /\ DOMAIN images = 1..ImageCount
      /\ \A i \in 1..ImageCount :
           DOMAIN images[i] = Blocks(i) /\ \A b \in Blocks(i) : IsRecord(images[i][b])
  BY DEF Init, IsRecord
<1>5. /\ spoolLen = 0 /\ big = FALSE /\ planned = <<>> /\ ifds = <<>>
      /\ cur = [image |-> 1, step |-> 1] /\ phase = "open" /\ error = "none"
  BY DEF Init
<1>6. CogTypeOK
  <2>1. Len(ifds) = 0 /\ ifds \in Seq(Nat)
    BY <1>5
  <2>2. cur \in [image : Nat \ {0}, step : Nat \ {0}]
    BY <1>5
  <2>3. Len(ifds) <= ImageCount
    BY <1>3, <2>1
  <2>4. spoolLen \in Nat /\ big \in BOOLEAN
    BY <1>5
  <2> QED BY <1>1, <1>2, <1>4, <2>1, <2>2, <2>3, <2>4 DEF CogTypeOK
<1>7. PlanInv
  BY <1>3, <1>5 DEF PlanInv, AtFirst, NoLateFailure
<1> QED BY <1>6, <1>7

\* The record of one block.
LEMMA RecordSet ==
  ASSUME CogTypeOK, NEW i \in 1..ImageCount, NEW b \in Blocks(i), NEW r, SetRecord(i, b, r)
  PROVE  /\ DOMAIN images' = DOMAIN images
         /\ \A j \in DOMAIN images : DOMAIN images'[j] = DOMAIN images[j]
         /\ images'[i][b] = r
         /\ \A j \in 1..ImageCount : \A c \in Blocks(j) :
              j # i \/ c # b => images'[j][c] = images[j][c]
<1>1. DOMAIN images = 1..ImageCount /\ \A j \in 1..ImageCount : DOMAIN images[j] = Blocks(j)
  BY DEF CogTypeOK
<1> QED BY <1>1 DEF SetRecord

LEMMA PlanSpool ==
  ASSUME CogTypeOK, PlanInv, NEW i \in 1..ImageCount, NEW b \in Blocks(i), NEW n \in cog.lens,
         SpoolBlock(i, b, n)
  PROVE  CogTypeOK' /\ PlanInv'
<1> USE DEF options, staging, sink, layout
<1>1. /\ Accepted' = Accepted /\ ImageCount' = ImageCount /\ \A j : Blocks(j)' = Blocks(j)
      /\ \A j : PatchCount(j)' = PatchCount(j)
  BY CogKept DEF SpoolBlock
<1>2. n \in Nat \ {0}
  BY CogType DEF CogTypeOK
<1>3. PICK r : SetRecord(i, b, r) /\ IsRecord(r) /\ spoolLen' \in Nat
  <2>1. CASE cog.sparse /\ AllZero(i, b)
    BY <2>1 DEF SpoolBlock, IsRecord, SparseRecord, CogTypeOK
  <2>2. CASE ~(cog.sparse /\ AllZero(i, b))
    <3>1. /\ SetRecord(i, b, [off |-> spoolLen + 4, count |-> n, sparse |-> FALSE])
          /\ spoolLen' = spoolLen + SegmentedLen(n)
      BY <2>2 DEF SpoolBlock
    <3>2. spoolLen \in Nat /\ SegmentedLen(n) \in Nat
      BY <1>2 DEF CogTypeOK, SegmentedLen
    <3> DEFINE r == [off |-> spoolLen + 4, count |-> n, sparse |-> FALSE]
    <3>3. r \in [off : Nat, count : Nat \ {0}, sparse : {FALSE}] /\ r.off >= 4
      BY <1>2, <3>2
    <3>4. IsRecord(r)
      BY <3>3 DEF IsRecord
    <3>5. spoolLen + SegmentedLen(n) \in Nat
      BY <3>2
    <3> QED BY <3>1, <3>4, <3>5
  <2> QED BY <2>1, <2>2
<1>4. CogTypeOK'
  <2>1. DOMAIN images' = 1..ImageCount
    BY <1>3, RecordSet DEF CogTypeOK
  <2>2. ASSUME NEW j \in 1..ImageCount
        PROVE  DOMAIN images'[j] = Blocks(j) /\ \A c \in Blocks(j) : IsRecord(images'[j][c])
    BY <1>3, RecordSet DEF CogTypeOK
  <2> QED BY <1>1, <1>3, <2>1, <2>2 DEF CogTypeOK, SpoolBlock
<1>5. PlanInv'
  BY <1>1 DEF SpoolBlock, PlanInv, NoLateFailure, AtFirst
<1> QED BY <1>4, <1>5

LEMMA PlanPlans ==
  ASSUME CogTypeOK, PlanInv, Plan
  PROVE  CogTypeOK' /\ PlanInv'
<1> USE DEF options, staging, spooled, sink
<1>1. /\ Accepted' = Accepted /\ ImageCount' = ImageCount /\ \A j : Blocks(j)' = Blocks(j)
      /\ \A j : PatchCount(j)' = PatchCount(j)
  BY CogKept DEF Plan
<1>2. CogTypeOK'
  <2>1. big' \in BOOLEAN /\ UNCHANGED <<cog, base, images, spoolLen, at, ifds, cur>>
    BY DEF Plan, CogTypeOK
  <2> QED BY <1>1, <2>1 DEF CogTypeOK
<1>3. CASE phase' = "failed"
  <2>1. error' # "overflow" /\ UNCHANGED layout
    BY <1>3 DEF Plan, Fail, Continue, PlanInv, NoLateFailure, layout
  <2> QED BY <1>3, <2>1, PlanStutters DEF Plan, CogTypeOK
<1>4. CASE phase' # "failed"
  <2>1. /\ phase = "spool" /\ AllSpooled /\ phase' = "header" /\ error' = error
        /\ planned' = PlanFor(big', PlannedEnd(big')) /\ big' \in BOOLEAN
        /\ ~big' => ClassicFits(PlannedEnd(FALSE))
    BY <1>4, CogType DEF Plan, Fail, Continue, AllSpooled, CogTypeOK
  <2>2. UNCHANGED <<cog, base, images, ifds, cur>>
    BY DEF Plan
  <2>3. AllSpooled' /\ (~big' => ClassicFits(PlannedEnd(FALSE))')
    <3>1. AllSpooled' = AllSpooled /\ \A end : ClassicFits(end)' = ClassicFits(end)
      BY <2>2, PlanKept
    <3>2. PlannedEnd(FALSE)' = PlannedEnd(FALSE)
      BY <2>2, EndKept
    <3> QED BY <2>1, <3>1, <3>2
  <2>4. planned = <<>> /\ ifds = <<>> /\ AtFirst
    BY <2>1 DEF PlanInv
  <2>5. planned' = PlanFor(big, PlannedEnd(big))'
    <3>1. \A isBig, end : PlanFor(isBig, end)' = PlanFor(isBig, end)
      BY <2>2, PlanKept
    <3>2. \A isBig : PlannedEnd(isBig)' = PlannedEnd(isBig)
      BY <2>2, EndKept
    <3> QED BY <2>1, <3>1, <3>2
  <2>6. planned' # <<>>
    <3>1. DOMAIN planned' = 1..ImageCount
      BY <2>1 DEF PlanFor
    <3>2. 1 \in 1..ImageCount
      BY ImagesAre DEF CogTypeOK
    <3>3. DOMAIN <<>> = {}
      OBVIOUS
    <3> QED BY <3>1, <3>2, <3>3
  <2>7. AtFirst' /\ ifds' = <<>> /\ DOMAIN ifds' = {}
    BY <2>2, <2>4 DEF AtFirst
  <2>8. /\ cur'.image <= ImageCount' + 2 /\ NoLateFailure'
        /\ cur'.image <= ImageCount' + 1 => cur'.step <= PatchCount(cur.image)'
    BY <1>1, <2>1, <2>2 DEF PlanInv, NoLateFailure
  <2>9. PlanInv'
    BY <2>1, <2>2, <2>3, <2>5, <2>6, <2>7, <2>8 DEF PlanInv
  <2> QED BY <1>2, <2>9
<1> QED BY <1>3, <1>4

\* A step of emit_cog keeps to the plan.
LEMMA PlanMoves ==
  ASSUME CogTypeOK, PlanInv, planned # <<>>, UNCHANGED <<options, images, spoolLen, big, planned>>,
         at' \in Nat, ifds' \in Seq(Nat), Len(ifds') <= ImageCount,
         cur' \in [image : Nat \ {0}, step : Nat \ {0}],
         phase' \in {"header", "ifds", "patch", "done", "failed"}, phase' # "header",
         \A k \in DOMAIN ifds' : ifds'[k] = PlannedEnd(big)[k - 1],
         phase' = "ifds" => at' = PlannedEnd(big)[Len(ifds')] /\ AtFirst',
         phase' \in {"patch", "done"} \/ ~AtFirst' => Len(ifds') = ImageCount,
         cur'.image <= ImageCount + 2,
         cur'.image <= ImageCount + 1 => cur'.step <= PatchCount(cur'.image),
         phase' = "done" => cur'.image = ImageCount + 2,
         error' # "overflow"
  PROVE  CogTypeOK' /\ PlanInv'
<1>1. UNCHANGED <<cog, base, images>>
  BY DEF options
<1>2. /\ Accepted' = Accepted /\ ImageCount' = ImageCount /\ \A i : Blocks(i)' = Blocks(i)
  BY <1>1, CogKept
<1>3. PatchCount(cur.image)' = PatchCount(cur'.image)
  <2>1. \A i : BuilderOf(i)' = BuilderOf(i)
    BY <1>1, CogKept
  <2> QED BY <1>2, <2>1 DEF PatchCount
<1>4. CogTypeOK'
  BY <1>1, <1>2 DEF CogTypeOK
<1>5. PlannedEnd(big)' = PlannedEnd(big) /\ PlannedEnd(FALSE)' = PlannedEnd(FALSE)
  <2>1. \A isBig : PlannedEnd(isBig)' = PlannedEnd(isBig)
    BY <1>1, EndKept
  <2> QED BY <2>1
<1>6. /\ planned' = PlanFor(big, PlannedEnd(big))' /\ AllSpooled' /\ planned' # <<>>
      /\ ~big' => ClassicFits(PlannedEnd(FALSE))'
  <2>1. AllSpooled' = AllSpooled /\ (\A end : ClassicFits(end)' = ClassicFits(end))
        /\ \A isBig, end : PlanFor(isBig, end)' = PlanFor(isBig, end)
    BY <1>1, PlanKept
  <2> QED BY <1>5, <2>1 DEF PlanInv
<1>7. PlanInv'
  BY <1>2, <1>3, <1>5, <1>6 DEF PlanInv, NoLateFailure
<1> QED BY <1>4, <1>7

LEMMA PlanHeader == ASSUME CogTypeOK, PlanInv, EmitHeader PROVE CogTypeOK' /\ PlanInv'
<1> USE DEF options, staging, spooled, layout
<1>1. /\ phase = "header" /\ phase' = "ifds" /\ error' = error /\ planned # <<>> /\ ifds = <<>>
      /\ at' = PlannedEnd(big)[0] /\ UNCHANGED <<ifds, cur>> /\ AtFirst
      /\ FirstIfdStart(big) \in Nat /\ base + HeaderLen(big) <= FirstIfdStart(big)
      /\ PlannedEnd(big)[0] \in Nat
  <2>1. /\ PlannedEnd(big)[0] = FirstIfdStart(big) /\ base + HeaderLen(big) <= PlannedEnd(big)[0]
        /\ \A i \in 0..ImageCount : PlannedEnd(big)[i] \in Nat
    BY EndsAre DEF CogTypeOK
  <2>2. 0 \in 0..ImageCount
    BY ImagesAre DEF CogTypeOK
  <2> QED BY <2>1, <2>2 DEF EmitHeader, Continue, PlanInv
<1>2. Len(ifds) = 0 /\ DOMAIN ifds = {}
  BY <1>1
<1> QED BY <1>1, <1>2, PlanMoves DEF EmitHeader, CogTypeOK, PlanInv, NoLateFailure, AtFirst

\* An IFD is written where it was planned, and takes the room it was planned to.
LEMMA IfdDoes ==
  ASSUME CogTypeOK, PlanInv, EmitIfd
  PROVE  LET i == Len(ifds) + 1
             tags == Tags(i, big)
             end == PlannedEnd(big)
         IN /\ phase = "ifds" /\ i \in 1..ImageCount /\ Len(ifds) \in Nat /\ AtFirst
            /\ planned # <<>> /\ at = end[i - 1] /\ at' = end[i]
            /\ end[i - 1] \in Nat /\ end[i] \in Nat /\ IfdEnd(end[i - 1], tags, big) = end[i]
            /\ IfdEnd(0, tags, big) \in Nat /\ end[i] = end[i - 1] + IfdEnd(0, tags, big)
            /\ WriteAt(at, IfdEnd(0, tags, big), IfdFields(at, tags, big))
            /\ ifds' = Append(ifds, at) /\ ifds' \in Seq(Nat) /\ DOMAIN ifds' = 1..i /\ Len(ifds') = i
            /\ (\A k \in DOMAIN ifds : ifds'[k] = ifds[k]) /\ ifds'[i] = at
            /\ DOMAIN ifds = 1..(i - 1)
            /\ UNCHANGED <<phase, error, cur>>
            /\ UNCHANGED <<options, staging, spooled, big, planned, cur, faults>>
<1> DEFINE i == Len(ifds) + 1
           tags == planned[i].tags
           n == IfdEnd(0, tags, big)
           end == PlannedEnd(big)
<1>0. /\ Accepted /\ big \in BOOLEAN /\ base \in Nat /\ planned # <<>>
      /\ ImageCount \in Nat
  BY ImagesAre DEF CogTypeOK, PlanInv, EmitIfd
<1>1. /\ phase = "ifds" /\ i \in 1..ImageCount /\ Len(ifds) \in Nat /\ i - 1 = Len(ifds)
      /\ at = end[i - 1] /\ AtFirst /\ UNCHANGED cur
  BY DEF EmitIfd, PlanInv, CogTypeOK
<1>2. tags = Tags(i, big)
  BY <1>0, <1>1, PlanIs
<1>3. /\ end[i - 1] \in Nat /\ end[i] \in Nat /\ end[i] = end[i - 1] + n /\ n \in Nat
      /\ IfdEnd(end[i - 1], tags, big) = end[i]
  <2>1. i \in 0..ImageCount /\ i - 1 \in 0..ImageCount
    BY <1>0, <1>1, ImagesAre
  <2> QED BY <1>0, <1>1, <1>2, <2>1, EndsAre
<1>4. tags \in Seq(Tag) /\ TagsSorted(tags)
  BY <1>0, <1>1, <1>2, TagsAre
<1>5. Overflowing(at, tags, big, Limit) = {}
  <2> SUFFICES ASSUME NEW k \in Overflowing(at, tags, big, Limit) PROVE FALSE
    OBVIOUS
  <2>1. k \in DOMAIN tags /\ ~big /\ Deferred(tags[k], big) /\ DeferredOffset(at, tags, big, k) > Limit
    BY DEF Overflowing
  <2>2. /\ DeferredOffset(at, tags, big, k) + tags[k].len <= end[i]
        /\ DeferredOffset(at, tags, big, k) \in Nat /\ tags[k].len \in Nat
    <3>1. tags[k] \in Tag
      BY <1>4, <2>1
    <3> HIDE DEF tags, end, i
    <3>2. DeferredOffset(at, tags, big, k) \in Nat
      BY <1>0, <1>1, <1>3, <1>4, <2>1, PlacesType
    <3>3. DeferredOffset(at, tags, big, k) + tags[k].len <= IfdEnd(at, tags, big)
      BY <1>0, <1>1, <1>3, <1>4, <2>1, DeferredValuesDisjoint
    <3> QED BY <1>1, <1>3, <3>1, <3>2, <3>3 DEF Tag
  <2>3. end[i] <= Limit
    BY <1>0, <1>1, <2>1 DEF PlanInv, ClassicFits
  <2> QED BY <1>3, <2>1, <2>2, <2>3, CogAssumption
<1>6. /\ WriteAt(at, n, IfdFields(at, tags, big)) /\ at' = end[i] /\ ifds' = Append(ifds, at)
      /\ UNCHANGED <<phase, error>>
  BY <1>1, <1>3, <1>4, <1>5 DEF EmitIfd
<1>7. /\ ifds' \in Seq(Nat) /\ Len(ifds') = i /\ DOMAIN ifds' = 1..i
      /\ \A k \in DOMAIN ifds : ifds'[k] = ifds[k]
      /\ ifds'[i] = at /\ DOMAIN ifds = 1..(i - 1)
  BY <1>1, <1>3, <1>6 DEF CogTypeOK
<1>8. UNCHANGED <<options, staging, spooled, big, planned, cur, faults>>
  BY DEF EmitIfd
<1> QED BY <1>0, <1>1, <1>2, <1>3, <1>6, <1>7, <1>8

LEMMA PlanIfd == ASSUME CogTypeOK, PlanInv, EmitIfd PROVE CogTypeOK' /\ PlanInv'
<1> USE DEF options, staging, spooled
<1> DEFINE i == Len(ifds) + 1
           end == PlannedEnd(big)
<1>1. /\ phase = "ifds" /\ i \in 1..ImageCount /\ Len(ifds) \in Nat /\ AtFirst
      /\ planned # <<>> /\ at = end[i - 1] /\ at' = end[i] /\ end[i] \in Nat
      /\ ifds' \in Seq(Nat) /\ DOMAIN ifds' = 1..i /\ Len(ifds') = i
      /\ (\A k \in DOMAIN ifds : ifds'[k] = ifds[k]) /\ ifds'[i] = at
      /\ DOMAIN ifds = 1..(i - 1)
      /\ UNCHANGED <<phase, error, cur>>
      /\ UNCHANGED <<options, staging, spooled, big, planned, cur, faults>>
  BY IfdDoes
<1>2. ImageCount \in Nat
  BY ImagesAre DEF CogTypeOK
<1>3. \A k \in DOMAIN ifds : ifds[k] = end[k - 1]
  BY DEF PlanInv
<1> HIDE DEF i, end
<1>4. \A k \in DOMAIN ifds' : ifds'[k] = end[k - 1]
  BY <1>1, <1>2, <1>3
<1>5. at' \in Nat /\ Len(ifds') <= ImageCount
  BY <1>1, <1>2
<1>6. AtFirst' /\ error' # "overflow"
  BY <1>1 DEF AtFirst, PlanInv, NoLateFailure
<1> QED BY <1>1, <1>4, <1>5, <1>6, PlanMoves
        DEF CogTypeOK, PlanInv, end

LEMMA PlanEmitted == ASSUME CogTypeOK, PlanInv, IfdsEmitted PROVE CogTypeOK' /\ PlanInv'
<1> USE DEF options, staging, spooled, sink, layout
<1>1. /\ phase' = "patch" /\ error' = error /\ planned # <<>> /\ Len(ifds) = ImageCount
      /\ UNCHANGED <<cog, base, images, spoolLen, big, planned, at, ifds, cur>>
  BY DEF IfdsEmitted, Continue, PlanInv
<1>2. AtFirst' = AtFirst
  BY <1>1 DEF AtFirst
<1> QED BY <1>1, <1>2, PlanMoves DEF CogTypeOK, PlanInv, NoLateFailure

\* The cursor stands at a patch, and moves to the next.
LEMMA CursorMoves ==
  ASSUME CogTypeOK, PlanInv, EmitPatch
  PROVE  LET next == IF cur.step < PatchCount(cur.image) THEN [cur EXCEPT !.step = @ + 1]
                     ELSE [image |-> cur.image + 1, step |-> 1]
         IN /\ cur \in Steps /\ Len(ifds) = ImageCount /\ planned # <<>>
            /\ next \in [image : Nat \ {0}, step : Nat \ {0}]
            /\ next.image <= ImageCount + 2
            /\ next.image <= ImageCount + 1 => next.step <= PatchCount(next.image)
            /\ next # [image |-> 1, step |-> 1]
<1>1. /\ cur \in [image : Nat \ {0}, step : Nat \ {0}] /\ cur.image <= ImageCount + 1
      /\ cur.step <= PatchCount(cur.image) /\ ImageCount \in Nat \ {0}
      /\ Len(ifds) = ImageCount /\ planned # <<>>
  BY ImagesAre DEF CogTypeOK, PlanInv, EmitPatch
<1>2. \A i \in 1..(ImageCount + 1) : PatchCount(i) \in Nat \ {0}
  <2> SUFFICES ASSUME NEW i \in 1..(ImageCount + 1) PROVE PatchCount(i) \in Nat \ {0}
    OBVIOUS
  <2>1. CASE i <= ImageCount
    <3>1. i \in 1..ImageCount
      BY <1>1, <2>1
    <3> QED BY <3>1, BlocksAre DEF CogTypeOK
  <2>2. CASE ~(i <= ImageCount)
    BY <1>1, <2>2 DEF PatchCount
  <2> QED BY <2>1, <2>2
<1>3. CASE cur.step < PatchCount(cur.image)
  <2> DEFINE next == [cur EXCEPT !.step = @ + 1]
  <2>1. next = [image |-> cur.image, step |-> cur.step + 1]
    BY <1>1
  <2>2. PatchCount(cur.image) \in Nat /\ cur.image \in 1..(ImageCount + 1)
    BY <1>1, <1>2
  <2>3. cur.step + 1 <= PatchCount(cur.image) /\ cur.step + 1 \in Nat \ {0} /\ cur.step + 1 # 1
    BY <1>1, <1>3, <2>2
  <2>4. next \in [image : Nat \ {0}, step : Nat \ {0}] /\ next.image = cur.image /\ next.step = cur.step + 1
    BY <1>1, <2>1, <2>3
  <2>5. cur \in Steps
    BY <1>1, <2>2 DEF Steps
  <2> HIDE DEF next
  <2>6. next # [image |-> 1, step |-> 1] /\ cur.image <= ImageCount + 2
    BY <1>1, <2>3, <2>4
  <2> QED BY <1>1, <1>3, <2>3, <2>4, <2>5, <2>6 DEF next
<1>4. CASE ~(cur.step < PatchCount(cur.image))
  <2> DEFINE next == [image |-> cur.image + 1, step |-> 1]
  <2>1. next \in [image : Nat \ {0}, step : Nat \ {0}] /\ next.image = cur.image + 1 /\ next.step = 1
    BY <1>1
  <2>2. cur \in Steps
    BY <1>1 DEF Steps
  <2> HIDE DEF next
  <2>3. next # [image |-> 1, step |-> 1] /\ next.image <= ImageCount + 2
    BY <1>1, <2>1
  <2>4. next.image <= ImageCount + 1 => next.step <= PatchCount(next.image)
    BY <1>1, <1>2, <2>1
  <2> QED BY <1>1, <1>4, <2>1, <2>2, <2>3, <2>4 DEF next
<1> QED BY <1>3, <1>4

\* What a patch does: no offset or count overflows the variant.
LEMMA PatchDoes ==
  ASSUME CogTypeOK, PlanInv, EmitPatch
  PROVE  /\ cur \in Steps /\ Len(ifds) = ImageCount /\ planned # <<>>
         /\ cur' = IF cur.step < PatchCount(cur.image) THEN [cur EXCEPT !.step = @ + 1]
                   ELSE [image |-> cur.image + 1, step |-> 1]
         /\ \E w \in Patch(cur.image, cur.step) : WriteAt(w.off, w.len, {w})
         /\ phase = "patch" /\ phase' = phase /\ error' = error
         /\ UNCHANGED <<options, staging, spooled, at, big, planned, ifds, faults>>
<1> DEFINE patch == Patch(cur.image, cur.step)
<1>1. cur \in Steps /\ Len(ifds) = ImageCount /\ planned # <<>>
  BY CursorMoves
<1>2. \E w : patch = {w} /\ (~big => ~(w.val.num > Limit))
  <2>1. Value(cur) \in Nat /\ (~big => Value(cur) <= Limit)
    BY <1>1, PatchIs
  <2>2. ~big => ~(Value(cur) > Limit)
    BY <2>1, CogAssumption
  <2>3. \E w : patch = {w} /\ w.val.num = Value(cur)
    <3>1. CASE IsHead(cur)
      <4>1. patch = {FirstPointer(Value(cur))}
        BY <1>1, <3>1, PatchIs
      <4>2. FirstPointer(Value(cur)).val.num = Value(cur)
        BY FieldIs DEF FirstPointer
      <4> QED BY <4>1, <4>2
    <3>2. CASE ~IsHead(cur)
      <4> DEFINE w == InIfd(Target(cur).ifd, Target(cur).slot, Value(cur))
      <4>1. patch = {w}
        BY <1>1, <3>2, PatchIs
      <4>2. w.val.num = Value(cur)
        BY FieldIs DEF InIfd, SlotField
      <4> QED BY <4>1, <4>2
    <3> QED BY <3>1, <3>2
  <2> QED BY <2>2, <2>3
<1>3. ~(~big /\ \E w \in patch : w.val.num > Limit) /\ patch # {}
  BY <1>2
<1> HIDE DEF patch
<1>4. /\ UNCHANGED <<phase, error>> /\ \E w \in patch : WriteAt(w.off, w.len, {w})
      /\ cur' = IF cur.step < PatchCount(cur.image) THEN [cur EXCEPT !.step = @ + 1]
                   ELSE [image |-> cur.image + 1, step |-> 1]
  BY <1>3 DEF EmitPatch, patch
<1> QED BY <1>1, <1>4 DEF EmitPatch, patch

LEMMA PlanPatch == ASSUME CogTypeOK, PlanInv, EmitPatch PROVE CogTypeOK' /\ PlanInv'
<1> USE DEF options, spooled
<1>1. /\ Len(ifds) = ImageCount /\ planned # <<>>
      /\ phase = "patch" /\ phase' = phase /\ error' = error
      /\ UNCHANGED <<options, images, spoolLen, at, big, planned, ifds>>
  BY PatchDoes
<1>2. /\ cur' \in [image : Nat \ {0}, step : Nat \ {0}]
      /\ cur'.image <= ImageCount + 2
      /\ cur'.image <= ImageCount + 1 => cur'.step <= PatchCount(cur'.image)
  <2> DEFINE next == IF cur.step < PatchCount(cur.image) THEN [cur EXCEPT !.step = @ + 1]
                     ELSE [image |-> cur.image + 1, step |-> 1]
  <2>1. cur' = next
    BY PatchDoes
  <2>2. /\ next \in [image : Nat \ {0}, step : Nat \ {0}]
        /\ next.image <= ImageCount + 2
        /\ next.image <= ImageCount + 1 => next.step <= PatchCount(next.image)
    BY CursorMoves
  <2> HIDE DEF next
  <2> QED BY <2>1, <2>2
<1> QED BY <1>1, <1>2, PlanMoves DEF CogTypeOK, PlanInv, NoLateFailure

LEMMA PlanCopies == ASSUME CogTypeOK, PlanInv, CopySpool PROVE CogTypeOK' /\ PlanInv'
<1> USE DEF options, staging, spooled, layout
<1>1. /\ phase' = "done" /\ error' = error /\ planned # <<>> /\ Len(ifds) = ImageCount
      /\ UNCHANGED <<cog, base, images, spoolLen, big, planned, at, ifds, cur>>
      /\ ~(cur.image <= ImageCount + 1)
  BY ImagesAre DEF CopySpool, PatchesEmitted, Continue, PlanInv, CogTypeOK
<1>2. cur.image = ImageCount + 2
  BY <1>1, ImagesAre DEF PlanInv, CogTypeOK
<1>3. AtFirst' = AtFirst
  BY <1>1 DEF AtFirst
<1> QED BY <1>1, <1>2, <1>3, PlanMoves DEF CogTypeOK, PlanInv, NoLateFailure

LEMMA PlanStep == ASSUME CogTypeOK, PlanInv, [Next]_vars PROVE CogTypeOK' /\ PlanInv'
<1> USE DEF options, staging, spooled, sink, layout
<1>1. ASSUME NEW t \in Tiles, NEW content \in Samples, WriteTile(t, content)
      PROVE  CogTypeOK' /\ PlanInv'
  BY <1>1, PlanStutters DEF WriteTile, PlanInv, NoLateFailure
<1>2. ASSUME NEW t \in Tiles, NEW content \in Samples, NEW n \in 0..cog.bands,
             WriteTileFails(t, content, n)
      PROVE  CogTypeOK' /\ PlanInv'
  BY <1>2, PlanStutters DEF WriteTileFails, PlanInv, NoLateFailure
<1>3. ASSUME WriteArray PROVE CogTypeOK' /\ PlanInv'
  BY <1>3, PlanStutters DEF WriteArray, PlanInv, NoLateFailure
<1>4. ASSUME Finish PROVE CogTypeOK' /\ PlanInv'
  BY <1>4, PlanStutters DEF Finish, PlanInv, NoLateFailure
<1>5. ASSUME FinishFails PROVE CogTypeOK' /\ PlanInv'
  BY <1>5, PlanStutters DEF FinishFails, Fail
<1>6. ASSUME UNCHANGED vars PROVE CogTypeOK' /\ PlanInv'
  BY <1>6, PlanStutters DEF vars, PlanInv, NoLateFailure
<1> QED BY <1>1, <1>2, <1>3, <1>4, <1>5, <1>6, PlanSpool, PlanPlans, PlanHeader, PlanIfd, PlanEmitted,
           PlanPatch, PlanCopies DEF Next

(***************************************************************************)
(* Once a variant is settled on only the sink can fail: what decides       *)
(* between classic TIFF and BigTIFF is exact for all that is written.      *)
(***************************************************************************)
THEOREM CogNeverFailsLate == Spec => []NoLateFailure
<1>1. Init => CogTypeOK /\ PlanInv
  BY PlanInit
<1>2. (CogTypeOK /\ PlanInv) /\ [Next]_vars => (CogTypeOK /\ PlanInv)'
  BY PlanStep
<1>3. CogTypeOK /\ PlanInv => NoLateFailure
  BY DEF PlanInv
<1> QED BY <1>1, <1>2, <1>3, PTL DEF Spec

----------------------------------------------------------------------------
(***************************************************************************)
(* The spool: every recorded block lies in it with its leader and its      *)
(* trailer, the blocks of an image in order, but for those of zeros, which *)
(* are sparse.  What a block is made of cannot change any more, since      *)
(* tiles are staged only before.                                           *)
(***************************************************************************)
SpoolInv ==
  /\ Solid(spool) /\ \A e \in spool : e.off + e.len <= spoolLen /\ DOMAIN e = {"off", "len", "val"}
  /\ phase = "open" => \A i \in 1..ImageCount : \A b \in Blocks(i) : images[i][b] = NoRecord
  /\ \A i \in 1..ImageCount : \A b \in Blocks(i) :
       images[i][b] # NoRecord /\ ~images[i][b].sparse =>
         Segmented(images[i][b].off - 4, images[i][b].count, Encoded(i, b)) \subseteq spool
  /\ \A i \in 1..ImageCount : \A b \in Blocks(i) :
       images[i][b] # NoRecord /\ images[i][b].sparse => AllZero(i, b)
  /\ \A i \in 1..ImageCount : \A b, c \in Blocks(i) :
       b < c /\ images[i][c] # NoRecord =>
         /\ images[i][b] # NoRecord
         /\ ~images[i][b].sparse /\ ~images[i][c].sparse => images[i][b].off < images[i][c].off

\* Where the spool begins in the sink, and a spooled extent there.
DataStart == PlannedEnd(big)[ImageCount]
Moved(e) == [e EXCEPT !.off = DataStart + @]

\* The patches made so far.
Passed(x) == x.image < cur.image \/ (x.image = cur.image /\ x.step < cur.step)
Made == {x \in Steps : Passed(x)}
HeadStep == [image |-> ImageCount + 1, step |-> 1]

Unnumbered == \A e \in file : ~IsNumber(e)

HeaderOut ==
  /\ Field(base, 4, IF big THEN BigVersion ELSE ClassicVersion) \in file
  /\ big => Field(base + 4, 4, 8) \in file
  /\ FirstPointer(IF HeadStep \in Made THEN ifds[1] ELSE 0) \in file

\* A slot is as the IFD was written, or as the one patch of it left it.
SlotsOut ==
  /\ \A x \in Made : ~IsHead(x) => InIfd(Target(x).ifd, Target(x).slot, Value(x)) \in file
  /\ \A k \in DOMAIN ifds : \A s \in Slots(Tags(k, big), big) :
       (\A x \in Made : IsHead(x) \/ Target(x) # [ifd |-> k, slot |-> s]) =>
         InIfd(k, s, SlotStart(ifds[k], Tags(k, big), big, s)) \in file

(***************************************************************************)
(* The sink.  Its numbers are the header, the IFDs and the leaders; a      *)
(* payload is what it held before, or a spooled block at its place.        *)
(***************************************************************************)
SinkSolid == Solid(file) /\ len \in Nat /\ \A e \in file : e.off + e.len <= len
NumbersPlaced == \A e \in file : IsNumber(e) => e.off >= base /\ (e.off = base => e.len = 4)
PayloadsPlaced ==
  \A e \in file : ~IsNumber(e) => e.off = 0 \/ (planned # <<>> /\ \E x \in spool : e = Moved(x))
SinkShort ==
  /\ planned = <<>> => \A isBig \in BOOLEAN : len <= PlannedEnd(isBig)[ImageCount]
  /\ phase \in {"header", "ifds", "patch"} => len <= DataStart
  /\ phase \in {"ifds", "patch"} => PlannedEnd(big)[Len(ifds)] <= len

SinkInv ==
  /\ SinkSolid /\ NumbersPlaced /\ PayloadsPlaced
  /\ planned = <<>> \/ phase = "header" => Unnumbered
  /\ planned # <<>> => Unnumbered \/ HeaderOut
  /\ ifds # <<>> \/ phase \in {"ifds", "patch", "done"} => HeaderOut
  /\ SlotsOut
  /\ phase = "done" => \A x \in spool : Moved(x) \in file

\* The sink holds no more than the part of the file that is written in place.
ShortSink == \A isBig \in BOOLEAN : len <= PlannedEnd(isBig)[ImageCount]

CogInv == CogTypeOK /\ PlanInv /\ SpoolInv /\ SinkShort /\ SinkInv

----------------------------------------------------------------------------
\* What a block is made of stays while the tiles do.
LEMMA EncodedKept ==
  ASSUME UNCHANGED <<cog, staged, written>>
  PROVE  \A i, b : Encoded(i, b)' = Encoded(i, b) /\ (AllZero(i, b)' <=> AllZero(i, b))
<1>1. \A i : BuilderOf(i)' = BuilderOf(i) /\ LevelOf(i)' = LevelOf(i)
  BY CogKept
<1>2. \A i : Across(i)' = Across(i) /\ Down(i)' = Down(i)
  BY <1>1 DEF Across, Down
<1>3. \A i, b : /\ PlaneOf(i, b)' = PlaneOf(i, b) /\ RowOfTile(i, b)' = RowOfTile(i, b)
                /\ ColOfTile(i, b)' = ColOfTile(i, b)
  BY <1>2 DEF PlaneOf, RowOfTile, ColOfTile
<1>4. \A n, tile, size, level, limit :
        Reached(n, tile, size, level, limit)' = Reached(n, tile, size, level, limit)
  BY DEF Reached
<1>5. \A i, plane, row, col : BlockAt(i, plane, row, col)' = BlockAt(i, plane, row, col)
  BY <1>2 DEF BlockAt
<1>6. \A i, b : Sources(i, b)' = Sources(i, b)
  BY <1>1, <1>3, <1>4, <1>5 DEF Sources
<1>7. \A b : Content(b)' = Content(b)
  BY DEF Content
<1>8. \A i, b : From(i, b)' = From(i, b)
  BY <1>6, <1>7 DEF From
<1>9. \A i, b : Padded(i, b)' <=> Padded(i, b)
  BY <1>1, <1>3 DEF Padded
<1>10. \A i, b : AllZero(i, b)' <=> AllZero(i, b)
  BY <1>6, <1>7, <1>9 DEF AllZero
<1>11. \A i, b : Encoded(i, b)' = Encoded(i, b)
  BY <1>8 DEF Encoded
<1> QED BY <1>10, <1>11

\* The extents of one block, one behind the other.
LEMMA SegmentedSolid ==
  ASSUME NEW off \in Nat, NEW n \in Nat \ {0}, NEW payload
  PROVE  /\ Solid(Segmented(off, n, payload)) /\ SegmentedLen(n) \in Nat
         /\ \A e \in Segmented(off, n, payload) :
              /\ off <= e.off /\ e.off + e.len <= off + SegmentedLen(n)
              /\ DOMAIN e = {"off", "len", "val"}
<1> DEFINE t == IF n < 4 THEN n ELSE 4
           x == Field(off, 4, n)
           y == [off |-> off + 4, len |-> n, val |-> payload]
           z == [off |-> off + 4 + n, len |-> t, val |-> TailOf(payload)]
<1>1. t \in Nat \ {0} /\ SegmentedLen(n) = 4 + n + t
  BY DEF SegmentedLen
<1>2. /\ x.off = off /\ x.len = 4 /\ y.off = off + 4 /\ y.len = n
      /\ z.off = off + 4 + n /\ z.len = t
  BY DEF Field
<1>3. Segmented(off, n, payload) = {x, y, z}
  BY DEF Segmented
<1>7. \A e \in {x, y, z} : DOMAIN e = {"off", "len", "val"}
  BY DEF Field
<1> HIDE DEF x, y, z, t
<1>4. /\ x.off \in Nat /\ x.len \in Nat \ {0} /\ y.off \in Nat /\ y.len \in Nat \ {0}
      /\ z.off \in Nat /\ z.len \in Nat \ {0}
      /\ x.off + x.len <= y.off /\ y.off + y.len <= z.off /\ x.off + x.len <= z.off
      /\ off <= x.off /\ off <= y.off /\ off <= z.off
      /\ x.off + x.len <= off + SegmentedLen(n) /\ y.off + y.len <= off + SegmentedLen(n)
      /\ z.off + z.len <= off + SegmentedLen(n)
  BY <1>1, <1>2
<1>5. SegmentedLen(n) \in Nat
  BY <1>1
<1>6. Solid({x, y, z})
  BY <1>4 DEF Solid, Apart
<1> QED BY <1>3, <1>4, <1>5, <1>6, <1>7

LEMMA SpoolInit == Init => SpoolInv
<1> SUFFICES ASSUME Init PROVE SpoolInv
  OBVIOUS
<1>1. spool = {} /\ \A i \in 1..ImageCount : \A b \in Blocks(i) : images[i][b] = NoRecord
  BY DEF Init
<1>2. Solid(spool)
  BY <1>1, NothingSolid
<1>3. SpoolInv
  <2> HIDE DEF NoRecord
  <2> QED BY <1>1, <1>2 DEF SpoolInv
<1> QED BY <1>3

\* No step but the spooling of a block touches the spool.
LEMMA SpoolStutters ==
  ASSUME SpoolInv, UNCHANGED <<cog, images, spool, spoolLen>>, phase' = "open" => phase = "open",
         UNCHANGED <<staged, written>> \/ phase = "open"
  PROVE  SpoolInv'
<1>1. ImageCount' = ImageCount /\ \A i : Blocks(i)' = Blocks(i)
  BY CogKept
<1>2. ASSUME NEW i \in 1..ImageCount, NEW b \in Blocks(i),
             images[i][b] # NoRecord, ~images[i][b].sparse
      PROVE  Segmented(images[i][b].off - 4, images[i][b].count, Encoded(i, b)') \subseteq spool
  <2>1. phase # "open"
    BY <1>2 DEF SpoolInv
  <2>2. Encoded(i, b)' = Encoded(i, b)
    BY <2>1, EncodedKept
  <2> QED BY <1>2, <2>2 DEF SpoolInv
<1>3. \A i \in (1..ImageCount)' : \A b \in Blocks(i)' :
        (images[i][b])' # NoRecord /\ ~(images[i][b].sparse)' =>
          Segmented(images[i][b].off - 4, images[i][b].count, Encoded(i, b))' \subseteq spool'
  BY <1>1, <1>2 DEF Segmented
<1>4. NoRecord' = NoRecord
  BY DEF NoRecord
<1>5. ASSUME NEW i \in 1..ImageCount, NEW b \in Blocks(i), images[i][b] # NoRecord, images[i][b].sparse
      PROVE  AllZero(i, b)'
  <2>1. phase # "open" /\ AllZero(i, b)
    BY <1>5 DEF SpoolInv
  <2> QED BY <2>1, EncodedKept
<1> HIDE DEF NoRecord
<1> QED BY <1>1, <1>3, <1>4, <1>5 DEF SpoolInv

LEMMA SpoolAdds ==
  ASSUME CogTypeOK, SpoolInv, NEW i \in 1..ImageCount, NEW b \in Blocks(i), NEW n \in cog.lens,
         SpoolBlock(i, b, n)
  PROVE  SpoolInv'
<1> DEFINE new == Segmented(spoolLen, n, Encoded(i, b))
           r == images'[i][b]
<1>0. /\ n \in Nat \ {0} /\ spoolLen \in Nat
      /\ \A j \in 1..ImageCount : \A c \in Blocks(j) : IsRecord(images[j][c]) /\ c \in Nat
  <2>1. \A j \in 1..ImageCount : Blocks(j) \subseteq Nat
    BY BlocksAre DEF CogTypeOK
  <2> QED BY <2>1, CogType DEF CogTypeOK
<1>1. /\ ImageCount' = ImageCount /\ \A j : Blocks(j)' = Blocks(j)
      /\ \A j, c : Encoded(j, c)' = Encoded(j, c) /\ (AllZero(j, c)' <=> AllZero(j, c))
  BY CogKept, EncodedKept DEF SpoolBlock, options, staging
<1>2. /\ images[i][b] = NoRecord /\ phase = "spool" /\ phase' = "spool"
      /\ \A c \in Blocks(i) : c < b => images[i][c] # NoRecord
  <2>1. b \in Unspooled(i) /\ \A c \in Unspooled(i) : b <= c
    BY DEF SpoolBlock, NextToSpool
  <2>2. \A c \in Blocks(i) : c < b => c \notin Unspooled(i)
    BY <1>0, <2>1
  <2> QED BY <2>1, <2>2 DEF SpoolBlock, Unspooled
<1>3. /\ Solid(new) /\ SegmentedLen(n) \in Nat
      /\ \A e \in new : /\ spoolLen <= e.off /\ e.off + e.len <= spoolLen + SegmentedLen(n)
                        /\ DOMAIN e = {"off", "len", "val"}
  BY <1>0, SegmentedSolid
<1>4. /\ Solid(spool) /\ \A e \in spool : e.off \in Nat /\ e.len \in Nat \ {0} /\ e.off + e.len <= spoolLen
      /\ \A e \in spool : DOMAIN e = {"off", "len", "val"}
  BY DEF SpoolInv, Solid
<1>5. \/ /\ r.sparse /\ r # NoRecord /\ SetRecord(i, b, r) /\ UNCHANGED <<spool, spoolLen>>
         /\ AllZero(i, b)
      \/ /\ r = [off |-> spoolLen + 4, count |-> n, sparse |-> FALSE] /\ SetRecord(i, b, r)
         /\ r # NoRecord /\ r.off = spoolLen + 4 /\ r.count = n /\ ~r.sparse
         /\ spool' = spool \cup new /\ spoolLen' = spoolLen + SegmentedLen(n)
  <2> DEFINE some == [off |-> spoolLen + 4, count |-> n, sparse |-> FALSE]
             none == [off |-> 0, count |-> 0, sparse |-> TRUE]
  <2>1. some.off = spoolLen + 4 /\ some.count = n /\ ~some.sparse /\ none.sparse /\ none.off = 0
    OBVIOUS
  <2>2. some # NoRecord /\ none # NoRecord
    <3>1. NoRecord.off = -1
      BY DEF NoRecord
    <3> HIDE DEF some, none
    <3> QED BY <1>0, <2>1, <3>1
  <2>3. \/ SetRecord(i, b, none) /\ UNCHANGED <<spool, spoolLen>> /\ AllZero(i, b)
        \/ SetRecord(i, b, some) /\ spool' = spool \cup new /\ spoolLen' = spoolLen + SegmentedLen(n)
    BY DEF SpoolBlock
  <2> HIDE DEF some, none
  <2>4. (SetRecord(i, b, none) => r = none) /\ (SetRecord(i, b, some) => r = some)
    BY RecordSet
  <2> QED BY <2>1, <2>2, <2>3, <2>4 DEF some
<1>6. \A j \in 1..ImageCount : \A c \in Blocks(j) : j # i \/ c # b => images'[j][c] = images[j][c]
  BY <1>5, RecordSet
<1> HIDE DEF r
<1>7. /\ Solid(spool') /\ spool \subseteq spool'
      /\ \A e \in spool' : e.off + e.len <= spoolLen' /\ DOMAIN e = {"off", "len", "val"}
  <2>1. CASE UNCHANGED <<spool, spoolLen>>
    BY <1>4, <2>1
  <2>2. CASE spool' = spool \cup new /\ spoolLen' = spoolLen + SegmentedLen(n)
    <3> HIDE DEF new
    <3>1. Overwrite(spool, spoolLen, SegmentedLen(n), new) = spool'
      BY <1>4, <2>2 DEF Overwrite, Untouched
    <3>2. Solid(spool')
      BY <1>0, <1>3, <1>4, <3>1, OverwriteSolid
    <3>3. \A e \in spool' : e.off + e.len <= spoolLen' /\ DOMAIN e = {"off", "len", "val"}
      <4>1. \A e \in spool : e.off + e.len <= spoolLen + SegmentedLen(n)
        BY <1>0, <1>3, <1>4
      <4> QED BY <1>3, <1>4, <2>2, <4>1
    <3> QED BY <2>2, <3>2, <3>3
  <2> QED BY <1>5, <2>1, <2>2
<1>8. ASSUME NEW j \in 1..ImageCount, NEW c \in Blocks(j),
             images'[j][c] # NoRecord, ~images'[j][c].sparse
      PROVE  Segmented(images'[j][c].off - 4, images'[j][c].count, Encoded(j, c)) \subseteq spool'
  <2>1. CASE j = i /\ c = b
    <3>1. r.off - 4 = spoolLen
      BY <1>0, <1>5, <1>8, <2>1 DEF r
    <3>2. Segmented(r.off - 4, r.count, Encoded(i, b)) = new /\ new \subseteq spool'
      BY <1>5, <1>8, <2>1, <3>1 DEF r
    <3> QED BY <2>1, <3>2 DEF r
  <2>2. CASE j # i \/ c # b
    <3>1. Segmented(images[j][c].off - 4, images[j][c].count, Encoded(j, c)) \subseteq spool
      BY <1>6, <1>8, <2>2 DEF SpoolInv
    <3> QED BY <1>6, <1>7, <2>2, <3>1
  <2> QED BY <2>1, <2>2
<1>9. ASSUME NEW j \in 1..ImageCount, NEW c \in Blocks(j), NEW d \in Blocks(j), c < d,
             images'[j][d] # NoRecord
      PROVE  /\ images'[j][c] # NoRecord
             /\ ~images'[j][c].sparse /\ ~images'[j][d].sparse => images'[j][c].off < images'[j][d].off
  <2>1. CASE j = i /\ d = b
    <3>1. images'[j][c] = images[j][c] /\ images[j][c] # NoRecord
      BY <1>0, <1>2, <1>6, <1>9, <2>1
    <3>2. ASSUME ~images[j][c].sparse, ~r.sparse PROVE images[j][c].off < r.off
      <4>1. Segmented(images[j][c].off - 4, images[j][c].count, Encoded(j, c)) \subseteq spool
        BY <3>1, <3>2 DEF SpoolInv
      <4>2. images[j][c].off \in Nat
        <5> DEFINE q == images[j][c]
        <5>1. IsRecord(q) /\ q # NoRecord /\ ~q.sparse
          BY <1>0, <3>1, <3>2
        <5> HIDE DEF q
        <5>2. q # SparseRecord
          BY <5>1 DEF SparseRecord
        <5>3. q \in [off : Nat, count : Nat \ {0}, sparse : {FALSE}]
          BY <5>1, <5>2 DEF IsRecord
        <5>4. q.off \in Nat
          BY <5>3
        <5> QED BY <5>4 DEF q
      <4> DEFINE e == Field(images[j][c].off - 4, 4, images[j][c].count)
      <4>3. e \in spool /\ e.off = images[j][c].off - 4 /\ e.len = 4
        BY <4>1 DEF Segmented, Field
      <4>4. r.off = spoolLen + 4
        BY <1>5, <3>2
      <4> HIDE DEF e
      <4> QED BY <1>0, <1>4, <4>2, <4>3, <4>4
    <3> QED BY <2>1, <3>1, <3>2 DEF r
  <2>2. CASE j = i /\ c = b
    <3>1. images'[j][d] = images[j][d]
      BY <1>0, <1>6, <1>9, <2>2
    <3>2. images[j][c] # NoRecord
      BY <1>9, <3>1 DEF SpoolInv
    <3> QED BY <1>2, <2>2, <3>2
  <2>3. CASE j # i \/ (c # b /\ d # b)
    BY <1>6, <1>9, <2>3 DEF SpoolInv
  <2> QED BY <2>1, <2>2, <2>3
<1>10. NoRecord' = NoRecord
  BY DEF NoRecord
<1> HIDE DEF NoRecord
<1>11. \A j \in (1..ImageCount)' : \A c \in Blocks(j)' :
        (images[j][c])' # NoRecord /\ ~(images[j][c].sparse)' =>
          Segmented(images[j][c].off - 4, images[j][c].count, Encoded(j, c))' \subseteq spool'
  BY <1>1, <1>8 DEF Segmented
<1>12. \A j \in (1..ImageCount)' : \A c, d \in Blocks(j)' :
         c < d /\ (images[j][d])' # NoRecord =>
         /\ (images[j][c])' # NoRecord
         /\ ~(images[j][c].sparse)' /\ ~(images[j][d].sparse)' => (images[j][c].off)' < (images[j][d].off)'
  BY <1>1, <1>9
<1>13. ASSUME NEW j \in 1..ImageCount, NEW c \in Blocks(j), images'[j][c] # NoRecord, images'[j][c].sparse
       PROVE  AllZero(j, c)'
  <2>1. CASE j = i /\ c = b
    BY <1>1, <1>5, <1>13, <2>1 DEF r
  <2>2. CASE j # i \/ c # b
    BY <1>1, <1>6, <1>13, <2>2 DEF SpoolInv
  <2> QED BY <2>1, <2>2
<1> QED BY <1>1, <1>2, <1>7, <1>10, <1>11, <1>12, <1>13 DEF SpoolInv

LEMMA SpoolStep == ASSUME CogTypeOK, SpoolInv, [Next]_vars PROVE SpoolInv'
<1> USE DEF options, staging, spooled, sink, layout
<1>1. ASSUME NEW t \in Tiles, NEW content \in Samples, WriteTile(t, content) PROVE SpoolInv'
  BY <1>1, SpoolStutters DEF WriteTile
<1>2. ASSUME NEW t \in Tiles, NEW content \in Samples, NEW n \in 0..cog.bands,
             WriteTileFails(t, content, n)
      PROVE  SpoolInv'
  BY <1>2, SpoolStutters DEF WriteTileFails
<1>3. ASSUME WriteArray \/ Finish PROVE SpoolInv'
  BY <1>3, SpoolStutters DEF WriteArray, Finish
<1>4. ASSUME Plan \/ EmitHeader PROVE SpoolInv'
  BY <1>4, SpoolStutters DEF Plan, EmitHeader, Fail, Continue
<1>5. ASSUME EmitIfd \/ EmitPatch PROVE SpoolInv'
  BY <1>5, SpoolStutters DEF EmitIfd, EmitPatch, Fail
<1>6. ASSUME IfdsEmitted \/ CopySpool \/ FinishFails \/ UNCHANGED vars PROVE SpoolInv'
  BY <1>6, SpoolStutters DEF IfdsEmitted, CopySpool, FinishFails, Fail, Continue, vars
<1> QED BY <1>1, <1>2, <1>3, <1>4, <1>5, <1>6, SpoolAdds DEF Next

----------------------------------------------------------------------------
End(k) == PlannedEnd(big)[k]

\* Where things lie: the header, the IFDs in their order, and the data.
LEMMA Places ==
  ASSUME CogTypeOK, PlanInv
  PROVE  /\ Accepted /\ big \in BOOLEAN /\ base \in Nat /\ ImageCount \in Nat \ {0}
         /\ HeaderLen(big) \in Nat \ {0} /\ DataStart = End(ImageCount) /\ DataStart \in Nat
         /\ \A k \in 0..ImageCount :
              End(k) \in Nat /\ base + HeaderLen(big) <= End(k) /\ End(k) <= DataStart
         /\ \A h, k \in 0..ImageCount : h <= k => End(h) <= End(k)
         /\ \A k \in DOMAIN ifds :
              /\ k \in 1..ImageCount /\ k - 1 \in 0..ImageCount /\ k \in 0..ImageCount
              /\ ifds[k] = End(k - 1) /\ ifds[k] \in Nat /\ Tags(k, big) \in Seq(Tag)
              /\ IfdEnd(ifds[k], Tags(k, big), big) = End(k)
<1>1. /\ Accepted /\ big \in BOOLEAN /\ base \in Nat /\ ImageCount \in Nat \ {0}
      /\ HeaderLen(big) \in Nat \ {0}
  BY ImagesAre, SizesType DEF CogTypeOK
<1>2. /\ base + HeaderLen(big) <= End(0)
      /\ \A k \in 0..ImageCount : End(k) \in Nat
      /\ \A h, k \in 0..ImageCount : h <= k => End(h) <= End(k)
      /\ \A k \in 1..ImageCount : IfdEnd(End(k - 1), Tags(k, big), big) = End(k)
  BY <1>1, EndsAre DEF End
<1>3. DataStart = End(ImageCount)
  BY DEF DataStart, End
<1>4. 0 \in 0..ImageCount /\ ImageCount \in 0..ImageCount /\ \A k \in 0..ImageCount : 0 <= k /\ k <= ImageCount
  BY <1>1
<1>5. \A k \in 0..ImageCount : base + HeaderLen(big) <= End(k) /\ End(k) <= End(ImageCount)
  BY <1>1, <1>2, <1>4
<1>6. \A k \in DOMAIN ifds : k \in 1..ImageCount /\ k - 1 \in 0..ImageCount /\ k \in 0..ImageCount
  BY <1>1 DEF CogTypeOK
<1>7. \A k \in DOMAIN ifds : ifds[k] = End(k - 1)
  BY DEF PlanInv, End
<1>8. \A k \in DOMAIN ifds : Tags(k, big) \in Seq(Tag)
  BY <1>1, <1>6, TagsAre
<1> QED BY <1>1, <1>2, <1>3, <1>4, <1>5, <1>6, <1>7, <1>8

\* The slots of all the IFDs are apart from each other and from the header.
LEMMA SlotPlaces ==
  ASSUME CogTypeOK, PlanInv, NEW k \in DOMAIN ifds, NEW s \in Slots(Tags(k, big), big), NEW v
  PROVE  LET w == InIfd(k, s, v)
         IN /\ w.off \in Nat /\ w.len \in Nat \ {0} /\ IsNumber(w) /\ w.val.num = v
            /\ ifds[k] <= w.off /\ base + HeaderLen(big) <= w.off /\ w.off + w.len <= End(k)
            /\ w.off + w.len <= DataStart
            /\ \A j \in DOMAIN ifds : \A t \in Slots(Tags(j, big), big) : \A u :
                 LET x == InIfd(j, t, u)
                 IN (j # k \/ t # s) => Apart(x.off, x.len, w.off, w.len)
<1> DEFINE tags(j) == Tags(j, big)
           so(j, t) == SlotOff(ifds[j], tags(j), big, t)
           sl(t) == SlotLen(big, t)
<1>1. \A j, t, u : /\ InIfd(j, t, u).off = so(j, t) /\ InIfd(j, t, u).len = sl(t)
                   /\ IsNumber(InIfd(j, t, u)) /\ InIfd(j, t, u).val.num = u
  BY FieldIs DEF InIfd, SlotField
<1>2. /\ big \in BOOLEAN /\ base \in Nat /\ HeaderLen(big) \in Nat /\ DataStart \in Nat
      /\ \A h, j \in 0..ImageCount : h <= j => End(h) <= End(j)
      /\ \A j \in 0..ImageCount :
           End(j) \in Nat /\ base + HeaderLen(big) <= End(j) /\ End(j) <= DataStart
      /\ \A j \in DOMAIN ifds :
           /\ j \in 0..ImageCount /\ j - 1 \in 0..ImageCount /\ ifds[j] = End(j - 1)
           /\ ifds[j] \in Nat /\ tags(j) \in Seq(Tag) /\ IfdEnd(ifds[j], tags(j), big) = End(j)
  BY Places
<1>3. \A j \in DOMAIN ifds : \A t \in Slots(tags(j), big) :
        /\ so(j, t) \in Nat /\ sl(t) \in Nat \ {0} /\ ifds[j] <= so(j, t)
        /\ so(j, t) + sl(t) <= End(j)
  BY <1>2, SlotPlace
<1>4. \A j, m \in DOMAIN ifds : j < m => End(j) <= ifds[m]
  <2> SUFFICES ASSUME NEW j \in DOMAIN ifds, NEW m \in DOMAIN ifds, j < m PROVE End(j) <= ifds[m]
    OBVIOUS
  <2>1. j \in 0..ImageCount /\ m - 1 \in 0..ImageCount /\ ifds[m] = End(m - 1)
    BY <1>2
  <2>2. j <= m - 1
    BY <1>2
  <2> QED BY <1>2, <2>1, <2>2
<1>5. ASSUME NEW j \in DOMAIN ifds, NEW t \in Slots(tags(j), big), j # k \/ t # s
      PROVE  Apart(so(j, t), sl(t), so(k, s), sl(s))
  <2>1. CASE j = k
    BY <1>2, <1>5, <2>1, SlotsApart
  <2>2. CASE j # k
    <3>0. \A m \in DOMAIN ifds : m \in Int /\ End(m) \in Nat /\ ifds[m] \in Nat
      BY <1>2
    <3> HIDE DEF tags, so, sl
    <3>1. j < k \/ k < j
      BY <3>0, <2>2
    <3>2. CASE j < k
      BY <3>0, <1>3, <1>4, <3>2 DEF Apart, tags
    <3>3. CASE k < j
      BY <3>0, <1>3, <1>4, <3>3 DEF Apart, tags
    <3> QED BY <3>1, <3>2, <3>3
  <2> QED BY <2>1, <2>2
<1> HIDE DEF so, sl
<1>6. /\ so(k, s) \in Nat /\ sl(s) \in Nat \ {0} /\ ifds[k] <= so(k, s)
      /\ so(k, s) + sl(s) <= End(k)
  BY <1>3
<1>7. End(k) \in Nat /\ End(k) <= DataStart /\ ifds[k] \in Nat /\ base + HeaderLen(big) <= ifds[k]
  <2>1. k \in 0..ImageCount /\ k - 1 \in 0..ImageCount /\ ifds[k] = End(k - 1) /\ ifds[k] \in Nat
    BY <1>2
  <2> QED BY <1>2, <2>1
<1>8. base + HeaderLen(big) <= so(k, s) /\ so(k, s) + sl(s) <= DataStart
  BY <1>2, <1>6, <1>7
<1> HIDE DEF tags
<1> QED BY <1>1, <1>5, <1>6, <1>8 DEF tags

LEMMA HeadPlace ==
  ASSUME big \in BOOLEAN, base \in Nat, NEW v
  PROVE  LET w == FirstPointer(v)
         IN /\ w.off = base + (IF big THEN 8 ELSE 4) /\ w.len = (IF big THEN 8 ELSE 4)
            /\ w.off \in Nat /\ w.len \in Nat \ {0} /\ IsNumber(w) /\ w.val.num = v
            /\ base < w.off /\ w.off + w.len = base + HeaderLen(big)
<1>1. Width(big) = IF big THEN 8 ELSE 4
  BY DEF Width, ElementWidth
<1>2. HeaderLen(big) = IF big THEN 16 ELSE 8
  BY DEF HeaderLen
<1>3. LET w == FirstPointer(v)
      IN w.off = base + (IF big THEN 8 ELSE 4) /\ w.len = Width(big) /\ IsNumber(w) /\ w.val.num = v
  BY FieldIs DEF FirstPointer
<1> QED BY <1>1, <1>2, <1>3

\* A patch goes to a slot of an IFD or to the pointer in the header.
LEMMA PatchPlace ==
  ASSUME CogTypeOK, PlanInv, planned # <<>>, Len(ifds) = ImageCount, NEW x \in Steps,
         NEW w \in Patch(x.image, x.step)
  PROVE  /\ w.off \in Nat /\ w.len \in Nat \ {0} /\ IsNumber(w) /\ w.val.num = Value(x)
         /\ base < w.off /\ w.off + w.len <= DataStart
         /\ IsHead(x) => w = FirstPointer(Value(x)) /\ w.off + w.len = base + HeaderLen(big)
         /\ ~IsHead(x) =>
              /\ Target(x).ifd \in DOMAIN ifds
              /\ Target(x).slot \in Slots(Tags(Target(x).ifd, big), big)
              /\ w = InIfd(Target(x).ifd, Target(x).slot, Value(x))
<1>1. /\ big \in BOOLEAN /\ base \in Nat /\ HeaderLen(big) \in Nat \ {0} /\ DataStart \in Nat
      /\ base + HeaderLen(big) <= DataStart /\ DOMAIN ifds = 1..ImageCount
  <2>1. ImageCount \in 0..ImageCount /\ ifds \in Seq(Nat)
    BY Places DEF CogTypeOK
  <2> QED BY <2>1, Places
<1>2. CASE IsHead(x)
  <2>1. w = FirstPointer(Value(x))
    BY <1>2, PatchIs
  <2> QED BY <1>1, <1>2, <2>1, HeadPlace
<1>3. CASE ~IsHead(x)
  <2> DEFINE k == Target(x).ifd
             s == Target(x).slot
  <2>1. k \in 1..ImageCount /\ s \in Slots(Tags(k, big), big) /\ w = InIfd(k, s, Value(x))
    BY <1>3, PatchIs
  <2>2. k \in DOMAIN ifds
    BY <1>1, <2>1
  <2>3. /\ w.off \in Nat /\ w.len \in Nat \ {0} /\ IsNumber(w) /\ w.val.num = Value(x)
        /\ base + HeaderLen(big) <= w.off /\ w.off + w.len <= DataStart
    BY <2>1, <2>2, SlotPlaces
  <2>4. base < w.off
    BY <1>1, <2>3
  <2> QED BY <1>3, <2>1, <2>2, <2>3, <2>4
<1> QED BY <1>2, <1>3

\* A write to the sink leaves alone what it does not overlap.
LEMMA SinkWrite ==
  ASSUME SinkSolid, NEW off \in Nat, NEW n \in Nat, NEW fields, Solid(fields),
         \A e \in fields : off <= e.off /\ e.off + e.len <= off + n, WriteAt(off, n, fields)
  PROVE  /\ SinkSolid' /\ len \in Nat /\ len' \in Nat /\ len <= len' /\ off + n <= len'
         /\ len' = len \/ len' = off + n
         /\ (off + n <= len => len' = len)
         /\ fields \subseteq file'
         /\ \A e \in file : Apart(e.off, e.len, off, n) => e \in file'
         /\ \A e \in file' : e \in file \/ e \in fields
<1>1. /\ len \in Nat /\ len' \in Nat /\ len <= len' /\ off + n <= len'
      /\ len' = len \/ len' = off + n
      /\ (off + n <= len => len' = len)
  BY DEF SinkSolid, WriteAt, MaxOf
<1>2. Solid(file) /\ file' = Overwrite(file, off, n, fields)
  BY DEF SinkSolid, WriteAt
<1>3. Solid(file')
  BY <1>2, OverwriteSolid
<1>4. /\ fields \subseteq file' /\ \A e \in file' : e \in file \/ e \in fields
      /\ \A e \in file : Apart(e.off, e.len, off, n) => e \in file'
  BY <1>2 DEF Overwrite, Untouched, Apart
<1>5. \A e \in file' : e.off \in Nat /\ e.len \in Nat
  BY <1>3 DEF Solid
<1>6. \A e \in file' : e.off + e.len <= len'
  <2>1. \A e \in file : e.off + e.len <= len
    BY DEF SinkSolid
  <2> QED BY <1>1, <1>4, <1>5, <2>1
<1>7. SinkSolid'
  BY <1>1, <1>3, <1>6 DEF SinkSolid
<1> QED BY <1>1, <1>4, <1>7

\* The header: the version, and a pointer to the first IFD that is zero so far.
LEMMA HeaderFieldsAre ==
  ASSUME big \in BOOLEAN, base \in Nat
  PROVE  /\ Solid(HeaderFields)
         /\ Field(base, 4, IF big THEN BigVersion ELSE ClassicVersion) \in HeaderFields
         /\ big => Field(base + 4, 4, 8) \in HeaderFields
         /\ FirstPointer(0) \in HeaderFields
         /\ \A e \in HeaderFields : /\ IsNumber(e) /\ base <= e.off /\ (e.off = base => e.len = 4)
                                    /\ e.off + e.len <= base + HeaderLen(big)
<1>1. CASE big
  <2> DEFINE x == Field(base, 4, BigVersion)
             y == Field(base + 4, 4, 8)
             z == Field(base + 8, 8, 0)
  <2>1. HeaderFields = {x, y, z} /\ FirstPointer(0) = z /\ HeaderLen(big) = 16
    BY <1>1 DEF HeaderFields, FirstPointer, Width, ElementWidth, HeaderLen
  <2>2. /\ x.off = base /\ x.len = 4 /\ y.off = base + 4 /\ y.len = 4 /\ z.off = base + 8 /\ z.len = 8
        /\ IsNumber(x) /\ IsNumber(y) /\ IsNumber(z)
    BY FieldIs
  <2>3. x = Field(base, 4, IF big THEN BigVersion ELSE ClassicVersion) /\ y = Field(base + 4, 4, 8)
    BY <1>1
  <2> HIDE DEF x, y, z
  <2>4. Solid({x, y, z})
    BY <2>2 DEF Solid, Apart
  <2>5. \A e \in {x, y, z} : /\ IsNumber(e) /\ base <= e.off /\ (e.off = base => e.len = 4)
                            /\ e.off + e.len <= base + HeaderLen(big)
    BY <2>1, <2>2
  <2> QED BY <2>1, <2>3, <2>4, <2>5
<1>2. CASE ~big
  <2> DEFINE x == Field(base, 4, ClassicVersion)
             z == Field(base + 4, 4, 0)
  <2>1. HeaderFields = {x, z} /\ FirstPointer(0) = z /\ HeaderLen(big) = 8
    BY <1>2 DEF HeaderFields, FirstPointer, Width, ElementWidth, HeaderLen
  <2>2. /\ x.off = base /\ x.len = 4 /\ z.off = base + 4 /\ z.len = 4
        /\ IsNumber(x) /\ IsNumber(z)
    BY FieldIs
  <2>3. x = Field(base, 4, IF big THEN BigVersion ELSE ClassicVersion)
    BY <1>2
  <2> HIDE DEF x, z
  <2>4. Solid({x, z})
    BY <2>2 DEF Solid, Apart
  <2> QED BY <1>2, <2>1, <2>2, <2>3, <2>4
<1> QED BY <1>1, <1>2

\* What the header takes.
LEMMA HeaderDoes ==
  ASSUME CogTypeOK, PlanInv, EmitHeader
  PROVE  /\ phase = "header" /\ phase' = "ifds" /\ planned # <<>> /\ ifds = <<>>
         /\ End(0) \in Nat /\ base + HeaderLen(big) <= End(0) /\ End(0) - base \in Nat
         /\ base + (End(0) - base) = End(0)
         /\ WriteAt(base, End(0) - base, HeaderFields)
         /\ UNCHANGED <<options, staging, spooled, layout, faults>>
<1>1. End(0) = FirstIfdStart(big)
  BY EndsAre DEF End, CogTypeOK
<1>2. /\ End(0) \in Nat /\ base + HeaderLen(big) <= End(0) /\ base \in Nat /\ HeaderLen(big) \in Nat
  <2>1. 0 \in 0..ImageCount
    BY Places
  <2> QED BY <2>1, Places
<1>3. WriteAt(base, End(0) - base, HeaderFields)
  BY <1>1 DEF EmitHeader
<1> QED BY <1>2, <1>3 DEF EmitHeader, PlanInv, Continue

----------------------------------------------------------------------------
\* Elements of different arrays of an IFD, or at different places, are different slots.
LEMMA ElemSlotsDiffer ==
  ASSUME Accepted, big \in BOOLEAN, NEW i \in 1..ImageCount,
         NEW c, NEW m, IsArray(i, c, m), NEW d, NEW n, IsArray(i, d, n), NEW j, NEW k,
         ElemSlot(i, c, j) = ElemSlot(i, d, k)
  PROVE  c = d /\ j = k
<1> DEFINE tags == Tags(i, big)
<1>1. tags[ArrayIndex(tags, c)].code = c /\ tags[ArrayIndex(tags, d)].code = d
  BY ArraysAre
<1>2. ArrayIndex(tags, c) = ArrayIndex(tags, d) /\ j = k
  BY DEF ElemSlot, Slot
<1> QED BY <1>1, <1>2

\* The arrays of the blocks of an image, and which step patches them.
LEMMA StepIs ==
  ASSUME Accepted, NEW x \in Steps
  PROVE  LET n == CheckedBlockCount(BuilderOf(x.image))
             b == BuilderOf(x.image)
         IN /\ ImageCount \in Nat \ {0} /\ x.image \in 1..(ImageCount + 1) /\ x.step \in Nat \ {0}
            /\ x.step <= PatchCount(x.image)
            /\ x.image <= ImageCount =>
                 /\ ~IsHead(x) /\ n \in Nat \ {0} /\ PatchCount(x.image) = 2 * n
                 /\ x.image \in 1..ImageCount
                 /\ IsArray(x.image, OffsetsTagCode(b), n) /\ IsArray(x.image, ByteCountsTagCode(b), n)
                 /\ OffsetsTagCode(b) # ByteCountsTagCode(b)
                 /\ TagSubIfds \notin {OffsetsTagCode(b), ByteCountsTagCode(b)}
            /\ x.image = ImageCount + 1 => x.step <= ImageCount
            /\ x.image = ImageCount + 1 /\ ~IsHead(x) => x.step > 1
            /\ x.image = ImageCount + 1 /\ ~IsHead(x) /\ cog.subIfds =>
                 HasSubIfds(1) /\ 1 \in 1..ImageCount /\ IsArray(1, TagSubIfds, ImageCount - 1)
<1>1. /\ ImageCount \in Nat \ {0} /\ x.image \in 1..(ImageCount + 1) /\ x.step \in Nat \ {0}
      /\ x.step <= PatchCount(x.image)
  BY ImagesAre DEF Steps
<1>2. ASSUME x.image <= ImageCount
      PROVE  LET n == CheckedBlockCount(BuilderOf(x.image))
                 b == BuilderOf(x.image)
             IN /\ ~IsHead(x) /\ n \in Nat \ {0} /\ PatchCount(x.image) = 2 * n
                /\ x.image \in 1..ImageCount
                /\ IsArray(x.image, OffsetsTagCode(b), n) /\ IsArray(x.image, ByteCountsTagCode(b), n)
                /\ OffsetsTagCode(b) # ByteCountsTagCode(b)
                /\ TagSubIfds \notin {OffsetsTagCode(b), ByteCountsTagCode(b)}
  <2>1. x.image \in 1..ImageCount /\ ~IsHead(x)
    BY <1>1, <1>2 DEF IsHead
  <2>2. \A b : /\ OffsetsTagCode(b) # ByteCountsTagCode(b)
               /\ TagSubIfds \notin {OffsetsTagCode(b), ByteCountsTagCode(b)}
    BY DEF OffsetsTagCode, ByteCountsTagCode, TagSubIfds, TagStripOffsets, TagTileOffsets,
           TagStripByteCounts, TagTileByteCounts
  <2> QED BY <2>1, <2>2, BlocksAre DEF IsArray
<1>3. ASSUME x.image = ImageCount + 1
      PROVE  /\ x.step <= ImageCount /\ (~IsHead(x) => x.step > 1)
             /\ ~IsHead(x) /\ cog.subIfds =>
                  HasSubIfds(1) /\ 1 \in 1..ImageCount /\ IsArray(1, TagSubIfds, ImageCount - 1)
  <2>1. x.step <= ImageCount
    BY <1>1, <1>3 DEF PatchCount
  <2>2. ~IsHead(x) => x.step > 1
    BY <1>1, <1>3 DEF IsHead
  <2>3. ~IsHead(x) /\ cog.subIfds => HasSubIfds(1)
    <3>1. ImageCount = 1 + Len(Levels)
      BY ImagesAre
    <3>2. ~IsHead(x) => Len(Levels) # 0
      BY <1>1, <2>1, <2>2, <3>1
    <3>3. Len(Levels) # 0 => Levels # <<>>
      OBVIOUS
    <3> QED BY <3>2, <3>3 DEF HasSubIfds
  <2> QED BY <1>1, <2>1, <2>2, <2>3 DEF IsArray
<1> QED BY <1>1, <1>2, <1>3

\* No two patches go to the same slot.
LEMMA TargetsDiffer ==
  ASSUME Accepted, big \in BOOLEAN, NEW x \in Steps, NEW y \in Steps, ~IsHead(x), ~IsHead(y),
         Target(x) = Target(y)
  PROVE  x = y
<1> DEFINE N == ImageCount
           n(z) == CheckedBlockCount(BuilderOf(z.image))
           O(z) == OffsetsTagCode(BuilderOf(z.image))
           C(z) == ByteCountsTagCode(BuilderOf(z.image))
<1>0. \A z \in Steps : \A u \in Steps : z.image = u.image /\ z.step = u.step => z = u
  BY DEF Steps
<1>1. \A z \in Steps : z.image <= N =>
        Target(z) = [ifd |-> z.image,
                     slot |-> IF z.step <= n(z) THEN ElemSlot(z.image, O(z), z.step)
                              ELSE ElemSlot(z.image, C(z), z.step - n(z))]
  BY DEF Target
<1>2. \A z \in Steps : z.image = N + 1 /\ cog.subIfds =>
        Target(z) = [ifd |-> 1, slot |-> ElemSlot(1, TagSubIfds, z.step - 1)]
  BY ImagesAre DEF Target
<1>3. \A z \in Steps : z.image = N + 1 /\ ~cog.subIfds =>
        Target(z) = [ifd |-> z.step - 1, slot |-> NextSlot]
  BY ImagesAre DEF Target
<1>4. \A i, c, k : ElemSlot(i, c, k) # NextSlot
  BY DEF ElemSlot, NextSlot, Slot
<1>5. ASSUME NEW z \in Steps, NEW u \in Steps, z.image <= N, u.image = N + 1, ~IsHead(u),
             Target(z) = Target(u)
      PROVE  FALSE
  <2>1. CASE cog.subIfds
    <3>1. /\ z.image = 1
          /\ \E c \in {O(z), C(z)} : \E k : ElemSlot(1, c, k) = ElemSlot(1, TagSubIfds, u.step - 1)
      BY <1>1, <1>2, <1>5, <2>1
    <3>2. /\ IsArray(1, O(z), n(z)) /\ IsArray(1, C(z), n(z)) /\ TagSubIfds \notin {O(z), C(z)}
          /\ IsArray(1, TagSubIfds, N - 1) /\ 1 \in 1..N
      BY <1>5, <2>1, <3>1, StepIs
    <3> HIDE DEF N, n, O, C
    <3>3. PICK c \in {O(z), C(z)} : \E k : ElemSlot(1, c, k) = ElemSlot(1, TagSubIfds, u.step - 1)
      BY <3>1
    <3>6. PICK k : ElemSlot(1, c, k) = ElemSlot(1, TagSubIfds, u.step - 1)
      BY <3>3
    <3>4. IsArray(1, c, n(z))
      BY <3>2
    <3>5. c = TagSubIfds
      BY <3>2, <3>4, <3>6, ElemSlotsDiffer DEF N
    <3> QED BY <3>2, <3>5
  <2>2. CASE ~cog.subIfds
    BY <1>1, <1>3, <1>4, <1>5, <2>2
  <2> QED BY <2>1, <2>2
<1>6. CASE x.image <= N /\ y.image <= N
  <2>1. x.image = y.image /\ n(x) = n(y) /\ O(x) = O(y) /\ C(x) = C(y)
    BY <1>1, <1>6
  <2>2. /\ IsArray(x.image, O(x), n(x)) /\ IsArray(x.image, C(x), n(x)) /\ x.image \in 1..N
        /\ O(x) # C(x) /\ x.step \in Nat /\ y.step \in Nat /\ n(x) \in Nat
    BY <1>6, StepIs
  <2>3. (IF x.step <= n(x) THEN ElemSlot(x.image, O(x), x.step)
         ELSE ElemSlot(x.image, C(x), x.step - n(x)))
        = (IF y.step <= n(x) THEN ElemSlot(x.image, O(x), y.step)
           ELSE ElemSlot(x.image, C(x), y.step - n(x)))
    BY <1>1, <1>6, <2>1
  <2> HIDE DEF n, O, C, N
  <2>4. \A c, d \in {O(x), C(x)} : \A j, k :
          ElemSlot(x.image, c, j) = ElemSlot(x.image, d, k) => c = d /\ j = k
    BY <2>2, ElemSlotsDiffer DEF N
  <2>5. x.step = y.step
    BY <2>2, <2>3, <2>4
  <2> QED BY <1>0, <2>1, <2>5
<1>7. CASE x.image = N + 1 /\ y.image = N + 1
  <2>1. x.step \in Nat /\ y.step \in Nat
    BY StepIs
  <2>2. CASE cog.subIfds
    <3>1. ElemSlot(1, TagSubIfds, x.step - 1) = ElemSlot(1, TagSubIfds, y.step - 1)
      BY <1>2, <1>7, <2>2
    <3>2. x.step - 1 = y.step - 1
      BY <3>1 DEF ElemSlot, Slot
    <3> QED BY <1>0, <1>7, <2>1, <3>2
  <2>3. CASE ~cog.subIfds
    <3>1. x.step - 1 = y.step - 1
      BY <1>3, <1>7, <2>3
    <3> QED BY <1>0, <1>7, <2>1, <3>1
  <2> QED BY <2>2, <2>3
<1>8. \A z \in Steps : z.image <= N \/ z.image = N + 1
  BY StepIs
<1> QED BY <1>5, <1>6, <1>7, <1>8

LEMMA StepsKept == ASSUME UNCHANGED cog PROVE Steps' = Steps
<1>1. ImageCount' = ImageCount /\ \A i : PatchCount(i)' = PatchCount(i)
  BY CogKept
<1> QED BY <1>1 DEF Steps

LEMMA MadeKept == ASSUME UNCHANGED <<cog, cur>> PROVE Made' = Made
BY StepsKept DEF Made, Passed

LEMMA NoneMade == ASSUME AtFirst PROVE Made = {}
<1>1. ASSUME NEW x \in Steps PROVE ~Passed(x)
  <2>1. x.image \in Nat \ {0} /\ x.step \in Nat \ {0}
    <3>1. x.image \in 1..(ImageCount + 1) /\ x.step \in Nat \ {0}
      BY DEF Steps
    <3> QED BY <3>1
  <2>2. cur.image = 1 /\ cur.step = 1
    BY DEF AtFirst
  <2> QED BY <2>1, <2>2 DEF Passed
<1> QED BY <1>1 DEF Made

\* A patch adds itself to those made.
LEMMA MadeGrows ==
  ASSUME CogTypeOK, PlanInv, EmitPatch
  PROVE  Made' = Made \cup {cur} /\ cur \notin Made /\ cur \in Steps
<1>1. /\ cur \in Steps
      /\ cur' = IF cur.step < PatchCount(cur.image) THEN [cur EXCEPT !.step = @ + 1]
                ELSE [image |-> cur.image + 1, step |-> 1]
      /\ UNCHANGED cog
  BY PatchDoes DEF options
<1>2. /\ cur.image \in Nat \ {0} /\ cur.step \in Nat \ {0} /\ PatchCount(cur.image) \in Nat
      /\ cur.step <= PatchCount(cur.image)
  <2>1. cur.image \in 1..(ImageCount + 1) /\ cur.step \in Nat \ {0} /\ cur.step <= PatchCount(cur.image)
        /\ ImageCount \in Nat
    BY <1>1, StepIs DEF CogTypeOK
  <2>2. PatchCount(cur.image) \in Nat
    <3>1. cur.image <= ImageCount => PatchCount(cur.image) = 2 * CheckedBlockCount(BuilderOf(cur.image))
                                     /\ CheckedBlockCount(BuilderOf(cur.image)) \in Nat
      BY <1>1, StepIs DEF CogTypeOK
    <3>2. ~(cur.image <= ImageCount) => PatchCount(cur.image) = ImageCount
      BY DEF PatchCount
    <3> QED BY <2>1, <3>1, <3>2
  <2> QED BY <2>1, <2>2
<1>3. ASSUME NEW x \in Steps PROVE Passed(x)' <=> Passed(x) \/ x = cur
  <2>1. /\ x.image \in Nat /\ x.step \in Nat \ {0} /\ (x.image = cur.image => x.step <= PatchCount(cur.image))
        /\ (x = cur <=> x.image = cur.image /\ x.step = cur.step)
    BY <1>1 DEF Steps
  <2>2. CASE cur.step < PatchCount(cur.image)
    <3>1. cur'.image = cur.image /\ cur'.step = cur.step + 1
      BY <1>1, <2>2 DEF Steps
    <3> QED BY <1>2, <2>1, <3>1 DEF Passed
  <2>3. CASE ~(cur.step < PatchCount(cur.image))
    <3>1. cur'.image = cur.image + 1 /\ cur'.step = 1
      BY <1>1, <2>3
    <3>2. cur.step = PatchCount(cur.image)
      BY <1>2, <2>3
    <3> QED BY <1>2, <2>1, <3>1, <3>2 DEF Passed
  <2> QED BY <2>2, <2>3
<1>4. Steps' = Steps
  BY <1>1, StepsKept
<1>5. ~Passed(cur)
  BY <1>2 DEF Passed
<1> QED BY <1>1, <1>3, <1>4, <1>5 DEF Made

----------------------------------------------------------------------------
\* The part of the file in front of the data covers what the sink held before.
LEMMA ShortStutters ==
  ASSUME SinkShort, UNCHANGED <<cog, base, len, planned, big, ifds>>,
         phase' \in {"header", "ifds", "patch"} => phase \in {"header", "ifds", "patch"},
         phase' \in {"ifds", "patch"} => phase \in {"ifds", "patch"}
  PROVE  SinkShort'
<1>1. ImageCount' = ImageCount
  BY CogKept
<1>2. \A isBig : PlannedEnd(isBig)' = PlannedEnd(isBig)
  BY EndKept
<1>3. PlannedEnd(big)' = PlannedEnd(big)
  BY <1>2
<1>4. DataStart' = DataStart
  BY <1>1, <1>3 DEF DataStart
<1> QED BY <1>1, <1>2, <1>3, <1>4 DEF SinkShort

LEMMA ShortPlan == ASSUME CogTypeOK, PlanInv, SinkShort, Plan PROVE SinkShort'
<1> USE DEF options, staging, spooled, sink
<1>1. CASE phase' = "failed"
  <2>1. UNCHANGED <<cog, base, len, planned, big, ifds>>
    BY <1>1 DEF Plan, Fail, Continue
  <2> QED BY <1>1, <2>1, ShortStutters
<1>2. CASE phase' # "failed"
  <2>1. /\ phase' = "header" /\ planned = <<>> /\ big' \in BOOLEAN /\ len' = len
        /\ UNCHANGED <<cog, base>>
        /\ planned' = PlanFor(big', PlannedEnd(big'))
    BY <1>2, CogType DEF Plan, Fail, Continue, PlanInv, CogTypeOK
  <2>2. planned' # <<>>
    <3>1. DOMAIN planned' = 1..ImageCount /\ 1 \in 1..ImageCount /\ DOMAIN <<>> = {}
      BY <2>1, ImagesAre DEF PlanFor, CogTypeOK
    <3> QED BY <3>1
  <2>3. \A isBig \in BOOLEAN : len <= PlannedEnd(isBig)[ImageCount]
    BY <2>1 DEF SinkShort
  <2>4. ImageCount' = ImageCount /\ \A isBig : PlannedEnd(isBig)' = PlannedEnd(isBig)
    BY <2>1, CogKept, EndKept
  <2>5. len' <= DataStart'
    BY <2>1, <2>3, <2>4 DEF DataStart
  <2> QED BY <2>1, <2>2, <2>5 DEF SinkShort
<1> QED BY <1>1, <1>2

\* A step that writes to the sink before the data is copied.
LEMMA ShortWrites ==
  ASSUME CogTypeOK, PlanInv, SinkShort, UNCHANGED <<cog, base, planned, big>>, planned # <<>>,
         len \in Nat, phase \in {"header", "ifds", "patch"}, NEW m \in Nat,
         len <= len', m <= len', len' = len \/ len' = m, m <= DataStart,
         phase' \in {"ifds", "patch"} => End(Len(ifds')) <= len'
  PROVE  SinkShort'
<1>1. ImageCount' = ImageCount
  BY CogKept
<1>2. PlannedEnd(big)' = PlannedEnd(big)
  <2>1. \A isBig : PlannedEnd(isBig)' = PlannedEnd(isBig)
    BY EndKept
  <2> QED BY <2>1
<1>3. DataStart' = DataStart /\ planned' # <<>>
  BY <1>1, <1>2 DEF DataStart
<1>4. len' <= DataStart
  BY DEF SinkShort
<1>5. phase' \in {"ifds", "patch"} => PlannedEnd(big)[Len(ifds')] <= len'
  BY DEF End
<1> QED BY <1>2, <1>3, <1>4, <1>5 DEF SinkShort

LEMMA ShortHeader == ASSUME CogTypeOK, PlanInv, SinkShort, SinkSolid, EmitHeader PROVE SinkShort'
<1> USE DEF options, staging, spooled, layout
<1>1. /\ phase = "header" /\ phase' = "ifds" /\ planned # <<>> /\ ifds = <<>>
      /\ End(0) \in Nat /\ base + HeaderLen(big) <= End(0) /\ End(0) - base \in Nat
      /\ base + (End(0) - base) = End(0)
      /\ WriteAt(base, End(0) - base, HeaderFields)
      /\ UNCHANGED <<options, staging, spooled, layout, faults>>
  BY HeaderDoes
<1>2. /\ base \in Nat /\ big \in BOOLEAN /\ End(0) <= DataStart
  <2>1. 0 \in 0..ImageCount
    BY Places
  <2> QED BY <2>1, Places
<1>3. /\ Solid(HeaderFields) /\ HeaderLen(big) \in Nat
      /\ \A e \in HeaderFields : base <= e.off /\ e.off + e.len <= base + HeaderLen(big)
  BY <1>2, HeaderFieldsAre, SizesType
<1>4. \A e \in HeaderFields : e.off + e.len <= base + (End(0) - base)
  <2>1. \A e \in HeaderFields : e.off \in Nat /\ e.len \in Nat
    BY <1>3 DEF Solid
  <2> QED BY <1>1, <1>2, <1>3, <2>1
<1>5. len \in Nat /\ len <= len' /\ End(0) <= len' /\ (len' = len \/ len' = End(0))
  BY <1>1, <1>2, <1>3, <1>4, SinkWrite
<1>6. Len(ifds') = 0
  BY <1>1
<1> QED BY <1>1, <1>2, <1>5, <1>6, ShortWrites

LEMMA ShortIfd == ASSUME CogTypeOK, PlanInv, SinkShort, SinkSolid, EmitIfd PROVE SinkShort'
<1> USE DEF options
<1> DEFINE i == Len(ifds) + 1
           tags == Tags(i, big)
           n == IfdEnd(0, tags, big)
<1>1. /\ phase = "ifds" /\ i \in 1..ImageCount /\ planned # <<>> /\ at = End(i - 1)
      /\ End(i - 1) \in Nat /\ End(i) \in Nat /\ IfdEnd(at, tags, big) = End(i)
      /\ n \in Nat /\ End(i) = at + n /\ WriteAt(at, n, IfdFields(at, tags, big))
      /\ Len(ifds') = i /\ phase' = phase
      /\ UNCHANGED <<options, big, planned>>
  BY IfdDoes DEF End
<1>2. tags \in Seq(Tag) /\ big \in BOOLEAN /\ End(i) <= DataStart
  <2>1. i \in 0..ImageCount /\ Accepted /\ big \in BOOLEAN
    BY <1>1, Places
  <2> QED BY <1>1, <2>1, Places, TagsAre
<1>3. /\ Solid(IfdFields(at, tags, big))
      /\ \A e \in IfdFields(at, tags, big) : at <= e.off /\ e.off + e.len <= at + n
  BY <1>1, <1>2, IfdFieldsSolid
<1> HIDE DEF i, tags, n
<1>4. len \in Nat /\ len <= len' /\ End(i) <= len' /\ (len' = len \/ len' = End(i))
  BY <1>1, <1>3, SinkWrite
<1> QED BY <1>1, <1>2, <1>4, ShortWrites

\* All the IFDs are written: the sink ends where the data begins.
LEMMA SinkFull ==
  ASSUME CogTypeOK, PlanInv, SinkShort, SinkSolid, phase = "patch"
  PROVE  len = DataStart /\ Len(ifds) = ImageCount
<1>1. Len(ifds) = ImageCount
  BY DEF PlanInv
<1>2. len <= DataStart /\ DataStart <= len
  BY <1>1 DEF SinkShort, DataStart
<1>3. len \in Nat /\ DataStart \in Nat
  BY Places DEF SinkSolid
<1> QED BY <1>1, <1>2, <1>3

\* What a patch leaves in the sink.
LEMMA PatchWrites ==
  ASSUME CogTypeOK, PlanInv, SinkShort, SinkSolid, EmitPatch
  PROVE  \E w \in Patch(cur.image, cur.step) :
           /\ SinkSolid' /\ len' = len /\ w \in file'
           /\ \A e \in file : Apart(e.off, e.len, w.off, w.len) => e \in file'
           /\ \A e \in file' : e \in file \/ e = w
<1>1. /\ cur \in Steps /\ Len(ifds) = ImageCount /\ planned # <<>> /\ phase = "patch"
      /\ \E w \in Patch(cur.image, cur.step) : WriteAt(w.off, w.len, {w})
  BY PatchDoes
<1>2. PICK w \in Patch(cur.image, cur.step) : WriteAt(w.off, w.len, {w})
  BY <1>1
<1>3. w.off \in Nat /\ w.len \in Nat \ {0} /\ w.off + w.len <= DataStart
  BY <1>1, PatchPlace
<1>4. len = DataStart
  BY <1>1, SinkFull
<1>5. Solid({w}) /\ w.len \in Nat /\ w.off + w.len <= len
  BY <1>3, <1>4, FieldSolid
<1>6. \A e \in {w} : w.off <= e.off /\ e.off + e.len <= w.off + w.len
  BY <1>3
<1>7. /\ SinkSolid' /\ len' = len /\ {w} \subseteq file'
      /\ \A e \in file : Apart(e.off, e.len, w.off, w.len) => e \in file'
      /\ \A e \in file' : e \in file \/ e \in {w}
  BY <1>2, <1>3, <1>5, <1>6, SinkWrite
<1> QED BY <1>7

LEMMA ShortStep == ASSUME CogTypeOK, PlanInv, SinkShort, SinkSolid, [Next]_vars PROVE SinkShort'
<1> USE DEF options, staging, spooled, sink, layout
<1>1. ASSUME NEW t \in Tiles, NEW content \in Samples, WriteTile(t, content) PROVE SinkShort'
  BY <1>1, ShortStutters DEF WriteTile
<1>2. ASSUME NEW t \in Tiles, NEW content \in Samples, NEW n \in 0..cog.bands,
             WriteTileFails(t, content, n)
      PROVE  SinkShort'
  BY <1>2, ShortStutters DEF WriteTileFails
<1>3. ASSUME WriteArray \/ Finish PROVE SinkShort'
  BY <1>3, ShortStutters DEF WriteArray, Finish
<1>4. ASSUME NEW i \in 1..ImageCount, NEW b \in Blocks(i), NEW n \in cog.lens, SpoolBlock(i, b, n)
      PROVE  SinkShort'
  BY <1>4, ShortStutters DEF SpoolBlock
<1>5. ASSUME IfdsEmitted \/ UNCHANGED vars PROVE SinkShort'
  BY <1>5, ShortStutters DEF IfdsEmitted, Continue, vars
<1>6. ASSUME EmitPatch PROVE SinkShort'
  <2>1. len' = len
    BY <1>6, PatchWrites
  <2>2. UNCHANGED <<cog, base, planned, big, ifds>> /\ phase' = phase
    BY <1>6, PatchDoes
  <2> QED BY <2>1, <2>2, ShortStutters
<1>7. ASSUME CopySpool PROVE SinkShort'
  BY <1>7 DEF CopySpool, PatchesEmitted, Continue, PlanInv, SinkShort
<1>8. ASSUME FinishFails PROVE SinkShort'
  <2>1. CASE UNCHANGED <<file, len>>
    BY <1>8, <2>1, ShortStutters DEF FinishFails, Fail
  <2>2. CASE ~UNCHANGED <<file, len>>
    BY <1>8, <2>2 DEF FinishFails, PatchesEmitted, Fail, PlanInv, SinkShort
  <2> QED BY <2>1, <2>2
<1> QED BY <1>1, <1>2, <1>3, <1>4, <1>5, <1>6, <1>7, <1>8, ShortPlan, ShortHeader, ShortIfd DEF Next

----------------------------------------------------------------------------
\* Where the patches go, and where the data, hangs on the plan alone.
LEMMA TargetsKept ==
  ASSUME UNCHANGED <<cog, base, big>>
  PROVE  /\ \A x : Target(x)' = Target(x) /\ (IsHead(x)' <=> IsHead(x))
         /\ \A k : Tags(k, big)' = Tags(k, big)
         /\ \A v : FirstPointer(v)' = FirstPointer(v)
         /\ \A e : Moved(e)' = Moved(e)
         /\ DataStart' = DataStart /\ HeadStep' = HeadStep
         /\ \A k : End(k)' = End(k)
         /\ \A k, s, v : (ifds[k])' = ifds[k] => InIfd(k, s, v)' = InIfd(k, s, v)
<1>1. /\ ImageCount' = ImageCount
      /\ \A i : BuilderOf(i)' = BuilderOf(i)
      /\ \A i, isBig : Tags(i, isBig)' = Tags(i, isBig)
  BY CogKept
<1>2. \A k : Tags(k, big)' = Tags(k, big)
  BY <1>1
<1>3. \A x : Target(x)' = Target(x)
  BY <1>1, <1>2 DEF Target, ElemSlot
<1>4. \A x : IsHead(x)' <=> IsHead(x)
  BY <1>1 DEF IsHead
<1>5. PlannedEnd(big)' = PlannedEnd(big)
  <2>1. \A isBig : PlannedEnd(isBig)' = PlannedEnd(isBig)
    BY EndKept
  <2> QED BY <2>1
<1>6. DataStart' = DataStart /\ \A k : End(k)' = End(k)
  BY <1>1, <1>5 DEF DataStart, End
<1>7. \A e : Moved(e)' = Moved(e)
  BY <1>6 DEF Moved
<1>8. HeadStep' = HeadStep
  BY <1>1 DEF HeadStep
<1>9. \A v : FirstPointer(v)' = FirstPointer(v)
  BY DEF FirstPointer
<1>10. \A k, s, v : (ifds[k])' = ifds[k] => InIfd(k, s, v)' = InIfd(k, s, v)
  BY <1>2 DEF InIfd
<1> QED BY <1>2, <1>3, <1>4, <1>6, <1>7, <1>8, <1>9, <1>10

LEMMA ValuesKept ==
  ASSUME UNCHANGED <<cog, planned, images, ifds>>
  PROVE  \A x : Value(x)' = Value(x)
<1>1. ImageCount' = ImageCount /\ \A i : BuilderOf(i)' = BuilderOf(i)
  BY CogKept
<1> QED BY <1>1 DEF Value

\* The header and the slots stay as they are while nothing but new extents is written.
LEMMA SlotsGrow ==
  ASSUME UNCHANGED <<cog, base, big, planned, images, ifds, cur>>, file \subseteq file'
  PROVE  (SlotsOut => SlotsOut') /\ (HeaderOut => HeaderOut')
<1>1. /\ \A x : Target(x)' = Target(x) /\ (IsHead(x)' <=> IsHead(x))
      /\ \A k : Tags(k, big)' = Tags(k, big)
      /\ \A v : FirstPointer(v)' = FirstPointer(v)
      /\ HeadStep' = HeadStep
      /\ \A k, s, v : InIfd(k, s, v)' = InIfd(k, s, v)
  BY TargetsKept
<1>2. (\A x : Value(x)' = Value(x)) /\ Made' = Made
  BY ValuesKept, MadeKept
<1>3. ASSUME SlotsOut PROVE SlotsOut'
  <2>1. ASSUME NEW x \in Made, ~IsHead(x)
        PROVE  InIfd(Target(x).ifd, Target(x).slot, Value(x))' \in file'
    <3>1. InIfd(Target(x).ifd, Target(x).slot, Value(x)) \in file
      BY <1>3, <2>1 DEF SlotsOut
    <3>2. InIfd(Target(x).ifd, Target(x).slot, Value(x))'
            = InIfd(Target(x).ifd, Target(x).slot, Value(x))
      BY <1>1, <1>2 DEF InIfd
    <3> QED BY <3>1, <3>2
  <2>2. ASSUME NEW k \in DOMAIN ifds, NEW s \in Slots(Tags(k, big), big),
               \A x \in Made : IsHead(x) \/ Target(x) # [ifd |-> k, slot |-> s]
        PROVE  InIfd(k, s, SlotStart(ifds[k], Tags(k, big), big, s))' \in file'
    <3>1. InIfd(k, s, SlotStart(ifds[k], Tags(k, big), big, s)) \in file
      BY <1>3, <2>2 DEF SlotsOut
    <3>2. InIfd(k, s, SlotStart(ifds[k], Tags(k, big), big, s))'
            = InIfd(k, s, SlotStart(ifds[k], Tags(k, big), big, s))
      BY <1>1 DEF InIfd
    <3> QED BY <3>1, <3>2
  <2> QED BY <1>1, <1>2, <2>1, <2>2 DEF SlotsOut
<1>4. ASSUME HeaderOut PROVE HeaderOut'
  <2>1. FirstPointer(IF HeadStep \in Made THEN ifds[1] ELSE 0)'
          = FirstPointer(IF HeadStep \in Made THEN ifds[1] ELSE 0)
    BY <1>1, <1>2 DEF FirstPointer
  <2> QED BY <1>4, <2>1 DEF HeaderOut
<1> QED BY <1>3, <1>4

\* Without IFDs there are no slots and no patches.
LEMMA NoSlots ==
  ASSUME Accepted, ifds = <<>>, AtFirst
  PROVE  SlotsOut
<1>1. Made = {} /\ DOMAIN ifds = {}
  BY NoneMade
<1> QED BY <1>1 DEF SlotsOut

LEMMA EarlySlots ==
  ASSUME CogTypeOK, PlanInv, ifds = <<>>
  PROVE  SlotsOut /\ AtFirst
<1>1. Len(ifds) = 0 /\ ImageCount \in Nat \ {0}
  BY Places
<1>2. AtFirst
  BY <1>1 DEF PlanInv
<1> QED BY <1>2, NoSlots DEF CogTypeOK

LEMMA SinkInit == Init => SinkInv
<1> SUFFICES ASSUME Init PROVE SinkInv
  OBVIOUS
<1>1. /\ ifds = <<>> /\ AtFirst /\ Accepted /\ planned = <<>> /\ phase = "open"
  BY DEF Init, AtFirst, Accepted
<1>2. PICK s \in SinkStarts : /\ len = s.len
                              /\ file = IF s.len = 0 THEN {}
                                        ELSE {[off |-> 0, len |-> s.len, val |-> [existing |-> TRUE]]}
  BY DEF Init
<1>3. s.len \in Nat
  <2>1. s \in [pos : Nat, len : Nat]
    BY CogAssumption
  <2> QED BY <2>1
<1>4. \A e \in file : e.off = 0 /\ e.len = len /\ len # 0 /\ e.val = [existing |-> TRUE]
  <2>1. CASE s.len = 0
    BY <1>2, <2>1
  <2>2. CASE s.len # 0
    <3> DEFINE x == [off |-> 0, len |-> s.len, val |-> [existing |-> TRUE]]
    <3>1. x.off = 0 /\ x.len = s.len /\ x.val = [existing |-> TRUE]
      OBVIOUS
    <3>2. file = {x}
      BY <1>2, <2>2
    <3> HIDE DEF x
    <3> QED BY <1>2, <2>2, <3>1, <3>2
  <2> QED BY <2>1, <2>2
<1>5. SinkSolid
  <2>1. Solid(file)
    <3>1. \A d, e \in file : d = e
      BY <1>2
    <3> QED BY <1>2, <1>3, <1>4, <3>1 DEF Solid
  <2> QED BY <1>2, <1>3, <1>4, <2>1 DEF SinkSolid
<1>6. Unnumbered
  <2>1. \A e \in file : DOMAIN e.val = {"existing"}
    BY <1>4
  <2>2. {"existing"} # {"num"}
    OBVIOUS
  <2> QED BY <2>1, <2>2 DEF Unnumbered, IsNumber
<1>7. NumbersPlaced
  BY <1>6 DEF Unnumbered, NumbersPlaced
<1>8. PayloadsPlaced
  BY <1>4 DEF PayloadsPlaced
<1> QED BY <1>1, <1>5, <1>6, <1>7, <1>8, NoSlots DEF SinkInv

\* A step that leaves the sink and the plan alone.
LEMMA SinkStutters ==
  ASSUME CogTypeOK, PlanInv, SinkInv, UNCHANGED <<cog, base, big, planned, ifds, cur, file, len>>,
         spool \subseteq spool', UNCHANGED images \/ planned = <<>>,
         phase' = "header" => phase = "header",
         phase' \in {"ifds", "patch", "done"} => phase \in {"ifds", "patch", "done"},
         phase' = "done" => phase = "done" /\ spool' = spool
  PROVE  SinkInv'
<1>1. /\ \A e : Moved(e)' = Moved(e)
      /\ \A v : FirstPointer(v)' = FirstPointer(v)
      /\ HeadStep' = HeadStep
  BY TargetsKept
<1>2. Made' = Made
  BY MadeKept
<1>3. SlotsOut'
  <2>1. CASE UNCHANGED images
    <3>1. SlotsOut /\ file \subseteq file'
      BY DEF SinkInv
    <3> QED BY <2>1, <3>1, SlotsGrow
  <2>2. CASE planned = <<>>
    <3>1. ifds = <<>> /\ AtFirst
      BY <2>2, EarlySlots DEF PlanInv
    <3>2. Made' = {} /\ DOMAIN ifds' = {}
      BY <1>2, <3>1, NoneMade
    <3> QED BY <3>2 DEF SlotsOut
  <2> QED BY <2>1, <2>2
<1>4. HeaderOut => HeaderOut'
  BY <1>1, <1>2 DEF HeaderOut
<1>5. (SinkSolid /\ NumbersPlaced => SinkSolid' /\ NumbersPlaced') /\ (Unnumbered => Unnumbered')
  BY DEF SinkSolid, NumbersPlaced, Unnumbered
<1>6. PayloadsPlaced => PayloadsPlaced'
  BY <1>1 DEF PayloadsPlaced
<1>7. phase' = "done" => \A x \in spool' : Moved(x)' \in file'
  <2>1. phase = "done" => \A x \in spool : Moved(x) \in file
    BY DEF SinkInv
  <2> QED BY <1>1, <2>1
<1> QED BY <1>3, <1>4, <1>5, <1>6, <1>7 DEF SinkInv

LEMMA SinkPlan == ASSUME CogTypeOK, PlanInv, SinkInv, Plan PROVE SinkInv'
<1> USE DEF options, staging, spooled, sink
<1>1. CASE phase' = "failed"
  <2>1. UNCHANGED <<cog, base, big, planned, ifds, cur, file, len, spool, images>>
    BY <1>1 DEF Plan, Fail, Continue
  <2> QED BY <1>1, <2>1, SinkStutters
<1>2. CASE phase' # "failed"
  <2>1. /\ phase' = "header" /\ planned = <<>>
        /\ UNCHANGED <<cog, base, ifds, cur, file, len>>
    BY <1>2 DEF Plan, Fail, Continue, PlanInv
  <2>2. ifds = <<>> /\ AtFirst /\ Unnumbered /\ SinkSolid /\ PayloadsPlaced
    BY <2>1, EarlySlots DEF PlanInv, SinkInv
  <2>3. SlotsOut'
    <3>1. Made' = {} /\ DOMAIN ifds' = {}
      BY <2>1, <2>2, NoneMade, MadeKept
    <3> QED BY <3>1 DEF SlotsOut
  <2>4. SinkSolid' /\ Unnumbered' /\ NumbersPlaced'
    BY <2>1, <2>2 DEF SinkSolid, Unnumbered, NumbersPlaced
  <2>5. PayloadsPlaced'
    BY <2>1, <2>2 DEF PayloadsPlaced
  <2> QED BY <2>1, <2>2, <2>3, <2>4, <2>5 DEF SinkInv
<1> QED BY <1>1, <1>2

\* The header is written, at the front of the first write.
LEMMA HeaderWrites ==
  ASSUME CogTypeOK, PlanInv, SinkInv, phase = "header", planned # <<>>, ifds = <<>>,
         UNCHANGED <<cog, base, big, planned, ifds, cur, spool>>,
         phase' \in {"ifds", "failed"}, NEW n \in Nat, HeaderLen(big) <= n,
         WriteAt(base, n, HeaderFields)
  PROVE  SinkInv'
<1>1. base \in Nat /\ big \in BOOLEAN /\ HeaderLen(big) \in Nat
  BY Places
<1>2. SinkSolid /\ Unnumbered /\ PayloadsPlaced
  BY DEF SinkInv
<1>3. /\ Solid(HeaderFields)
      /\ Field(base, 4, IF big THEN BigVersion ELSE ClassicVersion) \in HeaderFields
      /\ big => Field(base + 4, 4, 8) \in HeaderFields
      /\ FirstPointer(0) \in HeaderFields
      /\ \A e \in HeaderFields : /\ IsNumber(e) /\ base <= e.off /\ (e.off = base => e.len = 4)
                                 /\ e.off + e.len <= base + HeaderLen(big)
  BY <1>1, HeaderFieldsAre
<1>4. \A e \in HeaderFields : base <= e.off /\ e.off + e.len <= base + n
  <2>1. \A e \in HeaderFields : e.off \in Nat /\ e.len \in Nat
    BY <1>3 DEF Solid
  <2> QED BY <1>1, <1>3, <2>1
<1>5. SinkSolid' /\ HeaderFields \subseteq file' /\ \A e \in file' : e \in file \/ e \in HeaderFields
  BY <1>1, <1>2, <1>3, <1>4, SinkWrite
<1>6. /\ \A e : Moved(e)' = Moved(e)
      /\ \A v : FirstPointer(v)' = FirstPointer(v)
      /\ HeadStep' = HeadStep
  BY TargetsKept
<1>7. Made' = {} /\ DOMAIN ifds' = {}
  <2>1. AtFirst
    BY DEF PlanInv
  <2> QED BY <2>1, NoneMade, MadeKept
<1>8. HeaderOut'
  BY <1>3, <1>5, <1>6, <1>7 DEF HeaderOut
<1>9. NumbersPlaced'
  <2>1. \A e \in file' : IsNumber(e) => e \in HeaderFields
    BY <1>2, <1>5 DEF Unnumbered
  <2> QED BY <1>1, <1>3, <2>1 DEF NumbersPlaced
<1>10. PayloadsPlaced'
  <2>1. \A e \in file' : ~IsNumber(e) => e \in file
    BY <1>3, <1>5
  <2> QED BY <1>2, <1>6, <2>1 DEF PayloadsPlaced
<1>11. SlotsOut'
  BY <1>7 DEF SlotsOut
<1> QED BY <1>5, <1>8, <1>9, <1>10, <1>11 DEF SinkInv

\* A write behind the header leaves it alone.
LEMMA HeaderKept ==
  ASSUME big \in BOOLEAN, base \in Nat, HeaderOut, UNCHANGED <<cog, base, big>>,
         NEW off \in Nat, NEW n, base + HeaderLen(big) <= off,
         \A e \in file : Apart(e.off, e.len, off, n) => e \in file',
         NEW v, FirstPointer(v) \in file, v = (IF HeadStep \in Made THEN ifds[1] ELSE 0)'
  PROVE  HeaderOut'
<1>1. HeaderLen(big) = IF big THEN 16 ELSE 8
  BY DEF HeaderLen
<1>2. /\ \A x : FirstPointer(x)' = FirstPointer(x)
      /\ FirstPointer(v).off + FirstPointer(v).len = base + HeaderLen(big)
  BY HeadPlace, TargetsKept
<1>3. FirstPointer(v) \in file'
  BY <1>1, <1>2 DEF Apart
<1>4. Field(base, 4, IF big THEN BigVersion ELSE ClassicVersion) \in file'
  <2> DEFINE x == Field(base, 4, IF big THEN BigVersion ELSE ClassicVersion)
  <2>1. x.off = base /\ x.len = 4 /\ x \in file
    BY FieldIs DEF HeaderOut
  <2> HIDE DEF x
  <2>2. x \in file'
    BY <1>1, <2>1 DEF Apart
  <2> QED BY <2>2 DEF x
<1>5. big => Field(base + 4, 4, 8) \in file'
  <2> DEFINE x == Field(base + 4, 4, 8)
  <2>1. big => x.off = base + 4 /\ x.len = 4 /\ x \in file
    BY FieldIs DEF HeaderOut
  <2> HIDE DEF x
  <2>2. big => x \in file'
    BY <1>1, <2>1 DEF Apart
  <2> QED BY <2>2 DEF x
<1> QED BY <1>2, <1>3, <1>4, <1>5 DEF HeaderOut

LEMMA SinkIfd == ASSUME CogTypeOK, PlanInv, SinkInv, EmitIfd PROVE SinkInv'
<1> USE DEF options
<1> DEFINE i == Len(ifds) + 1
           tags == Tags(i, big)
           n == IfdEnd(0, tags, big)
           fields == IfdFields(at, tags, big)
<1>1. /\ phase = "ifds" /\ i \in 1..ImageCount /\ AtFirst /\ planned # <<>> /\ at = End(i - 1)
      /\ End(i - 1) \in Nat /\ End(i) \in Nat /\ IfdEnd(at, tags, big) = End(i)
      /\ n \in Nat /\ End(i) = at + n /\ WriteAt(at, n, fields)
      /\ DOMAIN ifds' = 1..i /\ DOMAIN ifds = 1..(i - 1)
      /\ (\A k \in DOMAIN ifds : ifds'[k] = ifds[k]) /\ ifds'[i] = at
      /\ phase' = phase
      /\ UNCHANGED <<options, spooled, cur, big, planned>>
  BY IfdDoes DEF End
<1>2. /\ tags \in Seq(Tag) /\ big \in BOOLEAN /\ base \in Nat /\ HeaderLen(big) \in Nat
      /\ base + HeaderLen(big) <= at /\ at \in Nat
  <2>1. i - 1 \in 0..ImageCount /\ Accepted /\ big \in BOOLEAN
    BY <1>1, Places
  <2> QED BY <1>1, <2>1, Places, TagsAre
<1>3. /\ Solid(fields)
      /\ \A e \in fields : at <= e.off /\ e.off + e.len <= at + n
  BY <1>1, <1>2, IfdFieldsSolid
<1>4. SinkSolid /\ HeaderOut /\ SlotsOut /\ NumbersPlaced /\ PayloadsPlaced
  BY <1>1 DEF SinkInv
<1> HIDE DEF tags, n, fields
<1>5. /\ SinkSolid' /\ fields \subseteq file'
      /\ \A e \in file : Apart(e.off, e.len, at, n) => e \in file'
      /\ \A e \in file' : e \in file \/ e \in fields
  BY <1>1, <1>2, <1>3, <1>4, SinkWrite
<1>6. fields = {SlotField(at, tags, big, s, SlotStart(at, tags, big, s)) : s \in Slots(tags, big)}
  BY <1>2, IfdFieldsAre DEF fields
<1>7. Made = {} /\ Made' = {}
  BY <1>1, NoneMade, MadeKept
<1>8. HeaderOut'
  <2>1. FirstPointer(0) \in file
    BY <1>4, <1>7 DEF HeaderOut
  <2>2. 0 = (IF HeadStep \in Made THEN ifds[1] ELSE 0)'
    BY <1>7
  <2>3. UNCHANGED <<cog, base, big>>
    BY <1>1
  <2> QED BY <1>2, <1>4, <1>5, <2>1, <2>2, <2>3, HeaderKept
<1>9. \A k : Tags(k, big)' = Tags(k, big)
  BY <1>1, TargetsKept
<1>10. SlotsOut'
  <2> SUFFICES ASSUME NEW k \in 1..i, NEW s \in Slots(Tags(k, big), big)
               PROVE  SlotField(ifds'[k], Tags(k, big), big, s, SlotStart(ifds'[k], Tags(k, big), big, s))
                        \in file'
    <3>1. \A k : InIfd(k, NextSlot, 0)' = InIfd(k, NextSlot, 0)' /\ big' = big
      BY <1>1
    <3> QED BY <1>1, <1>7, <1>9 DEF SlotsOut, InIfd
  <2>1. CASE k = i
    BY <1>1, <1>5, <1>6, <2>1 DEF tags
  <2>2. CASE k # i
    <3>1. k \in DOMAIN ifds /\ ifds'[k] = ifds[k] /\ k \in 0..ImageCount /\ i - 1 \in 0..ImageCount
          /\ k <= i - 1
      <4>1. i \in 1..ImageCount /\ ImageCount \in Nat
        BY <1>1, Places
      <4>2. k \in 1..(i - 1) /\ k \in 0..ImageCount /\ i - 1 \in 0..ImageCount /\ k <= i - 1
        BY <2>2, <4>1
      <4> QED BY <1>1, <4>2
    <3> DEFINE w == InIfd(k, s, SlotStart(ifds[k], Tags(k, big), big, s))
    <3>2. w \in file
      BY <1>4, <1>7, <3>1 DEF SlotsOut
    <3>3. w.off \in Nat /\ w.len \in Nat /\ w.off + w.len <= End(k)
      BY <3>1, SlotPlaces
    <3>4. End(k) <= at /\ End(k) \in Nat
      BY <1>1, <3>1, Places
    <3>5. w = SlotField(ifds'[k], Tags(k, big), big, s, SlotStart(ifds'[k], Tags(k, big), big, s))
      BY <3>1 DEF InIfd
    <3> HIDE DEF w
    <3>6. w \in file'
      BY <1>2, <1>5, <3>2, <3>3, <3>4 DEF Apart
    <3> QED BY <3>5, <3>6
  <2> QED BY <2>1, <2>2
<1>11. \A e \in fields : IsNumber(e) /\ base < e.off
  <2>1. \A e \in fields : IsNumber(e)
    BY <1>6, FieldIs DEF SlotField
  <2>2. HeaderLen(big) > 0
    BY DEF HeaderLen
  <2>3. \A e \in fields : e.off \in Nat
    BY <1>3 DEF Solid
  <2> QED BY <1>2, <1>3, <2>1, <2>2, <2>3
<1>12. NumbersPlaced'
  <2>1. base' = base
    BY <1>1
  <2>2. \A e \in fields : e.off \in Nat
    BY <1>3 DEF Solid
  <2>3. \A e \in fields : e.off >= base /\ e.off # base
    BY <1>2, <1>11, <2>2
  <2> QED BY <1>4, <1>5, <2>1, <2>3 DEF NumbersPlaced
<1>13. PayloadsPlaced'
  <2>1. \A e : Moved(e)' = Moved(e)
    BY <1>1, TargetsKept
  <2>2. \A e \in file' : ~IsNumber(e) => e \in file
    BY <1>5, <1>11
  <2>3. spool' = spool /\ planned' = planned
    BY <1>1 DEF spooled
  <2> QED BY <1>4, <2>1, <2>2, <2>3 DEF PayloadsPlaced
<1> QED BY <1>1, <1>5, <1>8, <1>10, <1>12, <1>13 DEF SinkInv

LEMMA SinkPatch == ASSUME CogTypeOK, PlanInv, SinkShort, SinkInv, EmitPatch PROVE SinkInv'
<1> USE DEF options, staging, spooled
<1>1. /\ cur \in Steps /\ Len(ifds) = ImageCount /\ planned # <<>> /\ phase = "patch" /\ phase' = phase
      /\ UNCHANGED <<cog, base, images, spool, big, planned, ifds>>
  BY PatchDoes
<1>2. /\ Accepted /\ big \in BOOLEAN /\ base \in Nat /\ HeaderLen(big) \in Nat
  BY Places
<1>3. SinkSolid /\ HeaderOut /\ SlotsOut /\ NumbersPlaced /\ PayloadsPlaced
  BY <1>1 DEF SinkInv
<1>4. PICK w \in Patch(cur.image, cur.step) :
           /\ SinkSolid' /\ len' = len /\ w \in file'
           /\ \A e \in file : Apart(e.off, e.len, w.off, w.len) => e \in file'
           /\ \A e \in file' : e \in file \/ e = w
  BY <1>3, PatchWrites
<1>5. /\ w.off \in Nat /\ w.len \in Nat \ {0} /\ IsNumber(w) /\ base < w.off
      /\ IsHead(cur) => w = FirstPointer(Value(cur)) /\ w.off + w.len = base + HeaderLen(big)
      /\ ~IsHead(cur) =>
           /\ Target(cur).ifd \in DOMAIN ifds
           /\ Target(cur).slot \in Slots(Tags(Target(cur).ifd, big), big)
           /\ w = InIfd(Target(cur).ifd, Target(cur).slot, Value(cur))
  BY <1>1, PatchPlace
<1>6. Made' = Made \cup {cur} /\ cur \notin Made
  BY MadeGrows
<1>7. /\ \A x : Target(x)' = Target(x) /\ (IsHead(x)' <=> IsHead(x))
      /\ \A k : Tags(k, big)' = Tags(k, big)
      /\ \A v : FirstPointer(v)' = FirstPointer(v)
      /\ \A e : Moved(e)' = Moved(e)
      /\ HeadStep' = HeadStep
      /\ \A k, s, v : InIfd(k, s, v)' = InIfd(k, s, v)
      /\ \A x : Value(x)' = Value(x)
  BY <1>1, TargetsKept, ValuesKept
<1>8. \A x \in Steps : IsHead(x) <=> x = HeadStep
  BY DEF IsHead, Steps, HeadStep
<1>9. NumbersPlaced'
  <2>1. w.off >= base /\ w.off # base /\ base' = base
    BY <1>1, <1>2, <1>5
  <2> QED BY <1>3, <1>4, <2>1 DEF NumbersPlaced
<1>10. PayloadsPlaced'
  <2>1. \A e \in file' : ~IsNumber(e) => e \in file
    BY <1>4, <1>5
  <2> QED BY <1>1, <1>3, <1>7, <2>1 DEF PayloadsPlaced
\* What a slot holds that this patch does not go to.
<1>11. ASSUME NEW k \in DOMAIN ifds, NEW s \in Slots(Tags(k, big), big), NEW v,
              InIfd(k, s, v) \in file, IsHead(cur) \/ Target(cur) # [ifd |-> k, slot |-> s]
       PROVE  InIfd(k, s, v) \in file'
  <2> DEFINE e == InIfd(k, s, v)
  <2>1. Apart(e.off, e.len, w.off, w.len)
    <3>1. CASE IsHead(cur)
      <4>1. base + HeaderLen(big) <= e.off /\ e.off \in Nat
        BY SlotPlaces
      <4> HIDE DEF e
      <4> QED BY <1>2, <1>5, <3>1, <4>1 DEF Apart
    <3>2. CASE ~IsHead(cur)
      <4> DEFINE j == Target(cur).ifd
                 t == Target(cur).slot
      <4>1. Target(cur) = [ifd |-> j, slot |-> t]
        BY DEF Target
      <4>2. j # k \/ t # s
        BY <1>11, <3>2, <4>1
      <4>3. j \in DOMAIN ifds /\ t \in Slots(Tags(j, big), big) /\ w = InIfd(j, t, Value(cur))
        BY <1>5, <3>2
      <4> HIDE DEF j, t
      <4>4. LET x == InIfd(k, s, v)
                y == InIfd(j, t, Value(cur))
            IN Apart(x.off, x.len, y.off, y.len)
        BY <4>2, <4>3, SlotPlaces
      <4> QED BY <4>3, <4>4
    <3> QED BY <3>1, <3>2
  <2> QED BY <1>4, <1>11, <2>1
<1>12. SlotsOut'
  <2>1. ASSUME NEW x \in Made', ~IsHead(x)
        PROVE  InIfd(Target(x).ifd, Target(x).slot, Value(x)) \in file'
    <3>1. CASE x = cur
      BY <1>4, <1>5, <2>1, <3>1
    <3>2. CASE x # cur
      <4>1. x \in Made /\ x \in Steps
        BY <1>6, <3>2 DEF Made
      <4>2. InIfd(Target(x).ifd, Target(x).slot, Value(x)) \in file
        BY <1>3, <2>1, <4>1 DEF SlotsOut
      <4>3. /\ Target(x).ifd \in 1..ImageCount
            /\ Target(x).slot \in Slots(Tags(Target(x).ifd, big), big)
        BY <1>1, <2>1, <4>1, PatchIs
      <4>4. Target(x).ifd \in DOMAIN ifds
        <5>1. DOMAIN ifds = 1..ImageCount
          BY <1>1, Places DEF CogTypeOK
        <5> QED BY <4>3, <5>1
      <4>5. Target(x) = [ifd |-> Target(x).ifd, slot |-> Target(x).slot]
        BY DEF Target
      <4>6. IsHead(cur) \/ Target(cur) # Target(x)
        BY <1>1, <1>2, <2>1, <3>2, <4>1, TargetsDiffer
      <4> QED BY <1>11, <4>2, <4>3, <4>4, <4>5, <4>6
    <3> QED BY <3>1, <3>2
  <2>2. ASSUME NEW k \in DOMAIN ifds, NEW s \in Slots(Tags(k, big), big),
               \A x \in Made' : IsHead(x) \/ Target(x) # [ifd |-> k, slot |-> s]
        PROVE  InIfd(k, s, SlotStart(ifds[k], Tags(k, big), big, s)) \in file'
    <3>1. InIfd(k, s, SlotStart(ifds[k], Tags(k, big), big, s)) \in file
      BY <1>3, <1>6, <2>2 DEF SlotsOut
    <3>2. IsHead(cur) \/ Target(cur) # [ifd |-> k, slot |-> s]
      BY <1>6, <2>2
    <3> QED BY <1>11, <3>1, <3>2
  <2>3. \A k, s : SlotStart(ifds[k], Tags(k, big), big, s)' = SlotStart(ifds[k], Tags(k, big), big, s)
    BY <1>1, <1>7 DEF SlotStart
  <2>4. ASSUME NEW x \in Made', ~IsHead(x)'
        PROVE  InIfd(Target(x).ifd, Target(x).slot, Value(x))' \in file'
    <3>1. InIfd(Target(x).ifd, Target(x).slot, Value(x))'
            = InIfd(Target(x).ifd, Target(x).slot, Value(x))
      BY <1>1, <1>7 DEF InIfd
    <3> QED BY <1>7, <2>1, <2>4, <3>1
  <2>5. ASSUME NEW k \in DOMAIN ifds', NEW s \in Slots(Tags(k, big), big)',
               \A x \in Made' : IsHead(x)' \/ Target(x)' # [ifd |-> k, slot |-> s]
        PROVE  InIfd(k, s, SlotStart(ifds[k], Tags(k, big), big, s))' \in file'
    <3>1. InIfd(k, s, SlotStart(ifds[k], Tags(k, big), big, s))'
            = InIfd(k, s, SlotStart(ifds[k], Tags(k, big), big, s))
      BY <1>1, <1>7, <2>3 DEF InIfd
    <3>2. s \in Slots(Tags(k, big), big) /\ k \in DOMAIN ifds
      BY <1>1, <1>7, <2>5
    <3> QED BY <1>7, <2>2, <2>5, <3>1, <3>2
  <2> QED BY <2>4, <2>5 DEF SlotsOut
<1>13. HeaderOut'
  <2>1. CASE IsHead(cur)
    <3>1. Value(cur) = ifds[1]
      <4>1. cur.image > ImageCount /\ cur.step = 1
        BY <1>2, <2>1, Places DEF IsHead
      <4> QED BY <4>1 DEF Value
    <3>2. HeadStep \in Made'
      BY <1>1, <1>6, <1>8, <2>1
    <3>3. FirstPointer(ifds[1]) \in file'
      BY <1>4, <1>5, <2>1, <3>1
    <3>4. /\ w.off = base + (IF big THEN 8 ELSE 4)
      BY <1>2, <1>5, <2>1, HeadPlace
    <3>5. Field(base, 4, IF big THEN BigVersion ELSE ClassicVersion) \in file'
      <4> DEFINE x == Field(base, 4, IF big THEN BigVersion ELSE ClassicVersion)
      <4>1. x.off = base /\ x.len = 4 /\ x \in file
        BY <1>3, FieldIs DEF HeaderOut
      <4> HIDE DEF x
      <4>2. x \in file'
        BY <1>2, <1>4, <3>4, <4>1 DEF Apart
      <4> QED BY <4>2 DEF x
    <3>6. big => Field(base + 4, 4, 8) \in file'
      <4> DEFINE x == Field(base + 4, 4, 8)
      <4>1. big => x.off = base + 4 /\ x.len = 4 /\ x \in file
        BY <1>3, FieldIs DEF HeaderOut
      <4> HIDE DEF x
      <4>2. big => x \in file'
        BY <1>2, <1>4, <3>4, <4>1 DEF Apart
      <4> QED BY <4>2 DEF x
    <3> QED BY <1>1, <1>7, <3>2, <3>3, <3>5, <3>6 DEF HeaderOut
  <2>2. CASE ~IsHead(cur)
    <3> DEFINE v == IF HeadStep \in Made THEN ifds[1] ELSE 0
    <3>1. HeadStep \in Made' <=> HeadStep \in Made
      BY <1>1, <1>6, <1>8, <2>2
    <3>2. v = (IF HeadStep \in Made THEN ifds[1] ELSE 0)'
      BY <1>1, <1>7, <3>1
    <3>3. FirstPointer(v) \in file
      BY <1>3 DEF HeaderOut
    <3>4. base + HeaderLen(big) <= w.off
      BY <1>5, <2>2, SlotPlaces
    <3> HIDE DEF v
    <3> QED BY <1>1, <1>2, <1>3, <1>4, <1>5, <3>2, <3>3, <3>4, HeaderKept
  <2> QED BY <2>1, <2>2
<1> QED BY <1>1, <1>4, <1>9, <1>10, <1>12, <1>13 DEF SinkInv

\* Spooled extents at their place in the sink.
LEMMA MovedIs ==
  ASSUME CogTypeOK, PlanInv, SpoolInv
  PROVE  /\ DataStart \in Nat
         /\ \A e \in spool : /\ e.off \in Nat /\ e.len \in Nat \ {0}
                             /\ e.off + e.len <= spoolLen
                             /\ Moved(e).off = DataStart + e.off /\ Moved(e).len = e.len
                             /\ Moved(e).val = e.val /\ (IsNumber(Moved(e)) <=> IsNumber(e))
         /\ \A S \in SUBSET spool : Solid({Moved(e) : e \in S})
<1>1. DataStart \in Nat /\ spoolLen \in Nat
  BY Places DEF CogTypeOK
<1>2. \A e \in spool : e.off \in Nat /\ e.len \in Nat \ {0} /\ e.off + e.len <= spoolLen
  BY DEF SpoolInv, Solid
<1>3. \A e \in spool : /\ Moved(e).off = DataStart + e.off /\ Moved(e).len = e.len
                       /\ Moved(e).val = e.val /\ (IsNumber(Moved(e)) <=> IsNumber(e))
  <2>1. \A e \in spool : DOMAIN e = {"off", "len", "val"}
    BY DEF SpoolInv
  <2> QED BY <2>1 DEF Moved, IsNumber
<1>4. ASSUME NEW S \in SUBSET spool PROVE Solid({Moved(e) : e \in S})
  <2>1. \A d, e \in S : d # e => Apart(d.off, d.len, e.off, e.len)
    BY DEF SpoolInv, Solid
  <2>2. ASSUME NEW d \in S, NEW e \in S, d # e
        PROVE  Apart(Moved(d).off, Moved(d).len, Moved(e).off, Moved(e).len)
    BY <1>1, <1>2, <1>3, <2>1, <2>2 DEF Apart
  <2>3. \A d \in S : Moved(d).off \in Nat /\ Moved(d).len \in Nat \ {0}
    BY <1>1, <1>2, <1>3
  <2> QED BY <2>2, <2>3 DEF Solid
<1> QED BY <1>1, <1>2, <1>3, <1>4

\* The spool, or its first n bytes, goes to the end of the sink, where the data begins.
LEMMA SpoolCopied ==
  ASSUME CogTypeOK, PlanInv, SpoolInv, SinkShort, SinkInv, phase = "patch",
         UNCHANGED <<cog, base, big, planned, images, spool, ifds, cur>>,
         phase' \in {"done", "failed"}, NEW n \in Nat, WriteAt(len, n, Copied(n)),
         phase' = "done" => n = spoolLen
  PROVE  SinkInv'
<1> DEFINE S == {x \in spool : x.off + x.len <= n}
<1>1. len = DataStart /\ len \in Nat /\ SinkSolid /\ HeaderOut /\ SlotsOut /\ planned # <<>>
      /\ NumbersPlaced /\ PayloadsPlaced
  BY SinkFull DEF SinkInv, SinkSolid, PlanInv
<1>2. Copied(n) = {Moved(e) : e \in S}
  BY <1>1 DEF Copied, Moved
<1>3. /\ \A e \in spool : /\ e.off \in Nat /\ e.len \in Nat \ {0} /\ e.off + e.len <= spoolLen
                          /\ Moved(e).off = DataStart + e.off /\ Moved(e).len = e.len
      /\ Solid(Copied(n)) /\ S \subseteq spool /\ DataStart \in Nat
  BY <1>2, MovedIs
<1>4. \A e \in Copied(n) : len <= e.off /\ e.off + e.len <= len + n
  <2>1. ASSUME NEW e \in S PROVE len <= Moved(e).off /\ Moved(e).off + Moved(e).len <= len + n
    BY <1>1, <1>3
  <2> QED BY <1>2, <2>1
<1>5. /\ SinkSolid' /\ Copied(n) \subseteq file'
      /\ \A e \in file : Apart(e.off, e.len, len, n) => e \in file'
      /\ \A e \in file' : e \in file \/ e \in Copied(n)
  BY <1>1, <1>3, <1>4, SinkWrite
<1>6. file \subseteq file'
  <2>1. \A e \in file : e.off + e.len <= len
    BY <1>1 DEF SinkSolid
  <2> QED BY <1>5, <2>1 DEF Apart
<1>7. SlotsOut' /\ HeaderOut'
  BY <1>1, <1>6, SlotsGrow
<1>8. \A e : Moved(e)' = Moved(e)
  BY TargetsKept
<1>9. NumbersPlaced'
  <2>1. base < DataStart /\ base \in Nat
    BY Places
  <2>2. \A e \in Copied(n) : e.off >= base /\ e.off # base
    <3>1. \A e \in S : Moved(e).off >= base /\ Moved(e).off # base
      BY <1>3, <2>1
    <3> QED BY <1>2, <3>1
  <2> QED BY <1>1, <1>5, <2>2 DEF NumbersPlaced
<1>10. PayloadsPlaced'
  <2>1. \A e \in Copied(n) : \E x \in spool : e = Moved(x)
    BY <1>2
  <2> QED BY <1>1, <1>5, <1>8, <2>1 DEF PayloadsPlaced
<1>11. phase' = "done" => \A x \in spool' : Moved(x)' \in file'
  <2>1. phase' = "done" => S = spool
    BY <1>3
  <2> QED BY <1>2, <1>5, <1>8, <2>1
<1>12. (planned = <<>> \/ phase = "header" => Unnumbered)'
  BY <1>1
<1> QED BY <1>5, <1>7, <1>9, <1>10, <1>11, <1>12 DEF SinkInv

LEMMA SinkFails ==
  ASSUME CogTypeOK, PlanInv, SpoolInv, SinkShort, SinkInv, FinishFails PROVE SinkInv'
<1> USE DEF options, staging, spooled, layout
<1>1. /\ UNCHANGED <<cog, base, big, planned, images, spool, ifds, cur>> /\ phase' = "failed"
  BY DEF FinishFails, Fail
<1>2. CASE UNCHANGED <<file, len>>
  BY <1>1, <1>2, SinkStutters
<1>3. CASE phase = "header" /\ WriteAt(base, HeaderLen(big), HeaderFields)
  <2>1. HeaderLen(big) \in Nat /\ HeaderLen(big) <= HeaderLen(big)
    BY Places
  <2>2. planned # <<>> /\ ifds = <<>>
    BY <1>3 DEF PlanInv
  <2> QED BY <1>1, <1>3, <2>1, <2>2, HeaderWrites
<1>4. ASSUME PatchesEmitted, NEW e \in spool, WriteAt(len, e.off + e.len, Copied(e.off + e.len))
      PROVE  SinkInv'
  <2>1. e.off + e.len \in Nat /\ phase = "patch"
    BY <1>4, MovedIs DEF PatchesEmitted
  <2> QED BY <1>1, <1>4, <2>1, SpoolCopied
<1> QED BY <1>2, <1>3, <1>4 DEF FinishFails

LEMMA SinkStep ==
  ASSUME CogTypeOK, PlanInv, SpoolInv, SinkShort, SinkInv, [Next]_vars PROVE SinkInv'
<1> USE DEF options, staging, spooled, sink, layout
<1>1. ASSUME NEW t \in Tiles, NEW content \in Samples, WriteTile(t, content) PROVE SinkInv'
  BY <1>1, SinkStutters DEF WriteTile
<1>2. ASSUME NEW t \in Tiles, NEW content \in Samples, NEW n \in 0..cog.bands,
             WriteTileFails(t, content, n)
      PROVE  SinkInv'
  BY <1>2, SinkStutters DEF WriteTileFails
<1>3. ASSUME WriteArray \/ Finish PROVE SinkInv'
  BY <1>3, SinkStutters DEF WriteArray, Finish
<1>4. ASSUME NEW i \in 1..ImageCount, NEW b \in Blocks(i), NEW n \in cog.lens, SpoolBlock(i, b, n)
      PROVE  SinkInv'
  <2>1. /\ UNCHANGED <<cog, base, big, planned, ifds, cur, file, len>> /\ phase = "spool"
        /\ phase' = phase /\ spool \subseteq spool'
    BY <1>4 DEF SpoolBlock
  <2> QED BY <2>1, SinkStutters DEF PlanInv
<1>5. ASSUME IfdsEmitted \/ UNCHANGED vars PROVE SinkInv'
  BY <1>5, SinkStutters DEF IfdsEmitted, Continue, vars
<1>6. ASSUME EmitHeader PROVE SinkInv'
  <2>1. /\ phase = "header" /\ phase' = "ifds" /\ planned # <<>> /\ ifds = <<>>
        /\ End(0) \in Nat /\ base + HeaderLen(big) <= End(0) /\ End(0) - base \in Nat
        /\ WriteAt(base, End(0) - base, HeaderFields)
        /\ UNCHANGED <<options, staging, spooled, layout, faults>>
    BY <1>6, HeaderDoes
  <2>2. HeaderLen(big) <= End(0) - base
    BY <2>1, Places
  <2> HIDE DEF End
  <2> QED BY <2>1, <2>2, HeaderWrites
<1>7. ASSUME CopySpool PROVE SinkInv'
  <2>1. /\ UNCHANGED <<cog, base, big, planned, images, spool, ifds, cur>> /\ phase' = "done"
        /\ phase = "patch" /\ WriteAt(len, spoolLen, Copied(spoolLen)) /\ spoolLen \in Nat
    BY <1>7 DEF CopySpool, PatchesEmitted, Continue, CogTypeOK
  <2> QED BY <2>1, SpoolCopied
<1> QED BY <1>1, <1>2, <1>3, <1>4, <1>5, <1>6, <1>7, SinkPlan, SinkIfd, SinkPatch, SinkFails DEF Next

LEMMA CogStep == CogInv /\ [Next]_vars => CogInv'
BY PlanStep, SpoolStep, ShortStep, SinkStep DEF CogInv, SinkInv

LEMMA CogInit == Init /\ ShortSink => CogInv
<1> SUFFICES ASSUME Init, ShortSink PROVE CogInv
  OBVIOUS
<1>1. planned = <<>> /\ phase = "open"
  BY DEF Init
<1>2. SinkShort
  BY <1>1 DEF SinkShort, ShortSink
<1> QED BY <1>2, PlanInit, SpoolInit, SinkInit DEF CogInv

----------------------------------------------------------------------------
(***************************************************************************)
(* The tiles of the base image that a tile of an overview is resampled     *)
(* from, along one axis: n is the tile's place, limit the base's size.     *)
(***************************************************************************)
Taken(x, level) == IF cog.average THEN (x * level)..(x * level + level - 1) ELSE {x * level}
Shown(k, tile, size, level) == \E y \in (k * tile)..(k * tile + tile - 1) : y < size /\ y % level = 0

Span(n, count, tile, size, level) ==
  {k \in (n * level)..(n * level + level - 1) :
     k < count /\ (cog.average \/ Shown(k, tile, size, level))}

LEMMA TileReached ==
  ASSUME NEW n \in Nat, NEW tile \in Nat \ {0}, NEW level \in Nat \ {0}, NEW limit \in Nat \ {0},
         NEW x \in (n * tile)..(n * tile + tile - 1), x < DivCeil(limit, level),
         NEW y \in Taken(x, level), y < limit
  PROVE  /\ y \div tile \in (n * level)..(n * level + level - 1)
         /\ y \div tile < DivCeil(limit, tile)
         /\ cog.average \/ Shown(y \div tile, tile, limit, level)
<1> DEFINE k == y \div tile
<1>1. x \in Nat /\ n * tile <= x /\ x < n * tile + tile /\ n * tile \in Nat /\ x * level \in Nat
  OBVIOUS
<1>2. y \in Nat /\ x * level <= y /\ y < x * level + level
  BY <1>1 DEF Taken
<1>3. k \in Nat /\ k * tile <= y /\ y < k * tile + tile /\ k * tile \in Nat
  BY <1>2, Quotient
<1> HIDE DEF k
<1>4. (n * level) * tile <= y
  <2>1. (n * tile) * level <= x * level
    BY <1>1
  <2> QED BY <1>2, <2>1
<1>5. y < (n * level + level) * tile
  <2>1. x * level + level <= (n * tile + tile) * level
    BY <1>1, Multiples
  <2> QED BY <1>2, <2>1
<1>6. n * level <= k
  <2>1. n * level \in Nat
    OBVIOUS
  <2>2. CASE k < n * level
    <3>1. k * tile + tile <= (n * level) * tile
      BY <1>3, <2>1, <2>2, Multiples
    <3>2. (n * level) * tile \in Nat
      BY <2>1
    <3> HIDE DEF k
    <3> QED BY <1>2, <1>3, <1>4, <3>1, <3>2
  <2> QED BY <1>3, <2>1, <2>2
<1>7. k < n * level + level
  <2>1. n * level + level \in Nat
    OBVIOUS
  <2>2. CASE n * level + level <= k
    <3>1. (n * level + level) * tile <= k * tile
      BY <1>3, <2>1, <2>2
    <3>2. (n * level + level) * tile \in Nat
      BY <2>1
    <3> QED BY <1>2, <1>3, <1>5, <3>1, <3>2
  <2> QED BY <1>3, <2>1, <2>2
<1>8. k < DivCeil(limit, tile)
  <2>1. k * tile < limit
    BY <1>2, <1>3
  <2> QED BY <1>3, <2>1, RoundedUpCounts DEF DivCeil
<1>9. cog.average \/ Shown(k, tile, limit, level)
  <2>1. CASE ~cog.average
    <3>1. y = x * level + 0 /\ 0 \in Nat /\ 0 < level
      BY <1>1, <2>1 DEF Taken
    <3>2. y % level = 0
      BY <1>1, <1>2, <3>1, RemainderIs
    <3>3. y \in (k * tile)..(k * tile + tile - 1)
      BY <1>2, <1>3
    <3> QED BY <3>2, <3>3 DEF Shown
  <2> QED BY <2>1
<1>10. k \in (n * level)..(n * level + level - 1)
  BY <1>3, <1>6, <1>7
<1> QED BY <1>8, <1>9, <1>10 DEF k

LEMMA TileSpanned ==
  ASSUME NEW n \in Nat, NEW tile \in Nat \ {0}, NEW level \in Nat \ {0}, NEW limit \in Nat \ {0},
         NEW k \in Span(n, DivCeil(limit, tile), tile, limit, level)
  PROVE  \E x \in (n * tile)..(n * tile + tile - 1) :
           x < DivCeil(limit, level) /\
           \E y \in Taken(x, level) : y < limit /\ y \div tile = k
<1>0. /\ k \in (n * level)..(n * level + level - 1) /\ k < DivCeil(limit, tile)
      /\ cog.average \/ Shown(k, tile, limit, level)
  BY DEF Span
<1>1. /\ n * level \in Nat /\ n * tile \in Nat /\ k \in Nat
      /\ n * level <= k /\ k < n * level + level /\ k * tile \in Nat
  BY <1>0
<1>2. k * tile < limit
  BY <1>0, <1>1, RoundedUpCounts DEF DivCeil
<1>3. \E y \in Nat : /\ k * tile <= y /\ y < k * tile + tile /\ y < limit
                     /\ cog.average \/ y % level = 0
  <2>1. CASE cog.average
    BY <1>1, <1>2, <2>1
  <2>2. CASE ~cog.average
    <3>1. PICK y \in (k * tile)..(k * tile + tile - 1) : y < limit /\ y % level = 0
      BY <1>0, <2>2 DEF Shown
    <3>2. y \in Nat /\ k * tile <= y /\ y < k * tile + tile
      BY <1>1
    <3> QED BY <3>1, <3>2
  <2> QED BY <2>1, <2>2
<1>4. PICK y \in Nat : /\ k * tile <= y /\ y < k * tile + tile /\ y < limit
                       /\ cog.average \/ y % level = 0
  BY <1>3
<1> DEFINE x == y \div level
<1>5. x \in Nat /\ x * level <= y /\ y < x * level + level /\ x * level \in Nat
  BY Quotient
<1> HIDE DEF x
<1>6. y \div tile = k
  BY <1>1, <1>4, QuotientIs
<1>7. y \in Taken(x, level)
  <2>1. CASE cog.average
    BY <1>5, <2>1 DEF Taken
  <2>2. CASE ~cog.average
    <3> DEFINE r == y - x * level
    <3>1. r \in Nat /\ r < level /\ y = x * level + r
      BY <1>5
    <3> HIDE DEF r
    <3>2. y % level = r
      BY <1>5, <3>1, RemainderIs
    <3>3. y = x * level
      BY <1>4, <1>5, <2>2, <3>1, <3>2
    <3> QED BY <2>2, <3>3 DEF Taken
  <2> QED BY <2>1, <2>2
<1>8. x < DivCeil(limit, level)
  <2>1. x * level < limit
    BY <1>4, <1>5
  <2> QED BY <1>5, <2>1, RoundedUpCounts DEF DivCeil
<1>9. (n * tile) * level <= y
  <2>1. (n * level) * tile <= k * tile
    BY <1>1
  <2> QED BY <1>1, <1>4, <2>1
<1>10. y < (n * tile + tile) * level
  <2>1. k * tile + tile <= (n * level + level) * tile
    BY <1>1, Multiples
  <2> QED BY <1>1, <1>4, <2>1
<1>11. n * tile <= x
  <2>1. CASE x < n * tile
    <3>1. x * level + level <= (n * tile) * level
      BY <1>1, <1>5, <2>1, Multiples
    <3> QED BY <1>5, <1>9, <3>1
  <2> QED BY <1>1, <1>5, <2>1
<1>12. x < n * tile + tile
  <2>1. n * tile + tile \in Nat
    OBVIOUS
  <2>2. CASE n * tile + tile <= x
    <3>1. (n * tile + tile) * level <= x * level
      BY <1>5, <2>1, <2>2
    <3> QED BY <1>5, <1>10, <3>1
  <2> QED BY <1>5, <2>1, <2>2
<1>13. x \in (n * tile)..(n * tile + tile - 1)
  BY <1>1, <1>5, <1>11, <1>12
<1> QED BY <1>4, <1>6, <1>7, <1>8, <1>13

LEMMA ReachedIs ==
  ASSUME NEW n \in Nat, NEW tile \in Nat \ {0}, NEW level \in Nat \ {0}, NEW limit \in Nat \ {0}
  PROVE  Reached(n, tile, DivCeil(limit, level), level, limit)
           = Span(n, DivCeil(limit, tile), tile, limit, level)
<1> DEFINE size == DivCeil(limit, level)
           samples == {x \in (n * tile)..(n * tile + tile - 1) : x < size}
           reached == UNION {Taken(x, level) : x \in samples}
<1>1. Reached(n, tile, size, level, limit) = {y \div tile : y \in {z \in reached : z < limit}}
  BY DEF Reached, Taken
<1>2. ASSUME NEW x \in (n * tile)..(n * tile + tile - 1), x < size,
             NEW y \in Taken(x, level), y < limit
      PROVE  y \div tile \in Span(n, DivCeil(limit, tile), tile, limit, level)
  <2>1. /\ y \div tile \in (n * level)..(n * level + level - 1)
        /\ y \div tile < DivCeil(limit, tile)
        /\ cog.average \/ Shown(y \div tile, tile, limit, level)
    BY <1>2, TileReached
  <2> QED BY <2>1 DEF Span
<1>3. ASSUME NEW k \in Span(n, DivCeil(limit, tile), tile, limit, level)
      PROVE  \E x \in samples : \E y \in Taken(x, level) : y < limit /\ y \div tile = k
  <2>1. \E x \in (n * tile)..(n * tile + tile - 1) :
          x < DivCeil(limit, level) /\ \E y \in Taken(x, level) : y < limit /\ y \div tile = k
    <3> HIDE DEF size, samples, reached
    <3> QED BY TileSpanned
  <2> QED BY <2>1
<1> HIDE DEF size
<1>4. \A k : k \in {y \div tile : y \in {z \in reached : z < limit}}
        <=> \E x \in samples : \E y \in Taken(x, level) : y < limit /\ y \div tile = k
  OBVIOUS
<1>5. \A k : (\E x \in samples : \E y \in Taken(x, level) : y < limit /\ y \div tile = k)
        <=> k \in Span(n, DivCeil(limit, tile), tile, limit, level)
  BY <1>2, <1>3
<1>6. Reached(n, tile, size, level, limit) = Span(n, DivCeil(limit, tile), tile, limit, level)
  <2> HIDE DEF samples, reached
  <2>1. \A k : k \in Reached(n, tile, size, level, limit)
                <=> k \in Span(n, DivCeil(limit, tile), tile, limit, level)
    BY <1>1, <1>4, <1>5
  <2> QED BY <2>1
<1> QED BY <1>6 DEF size

LEMMA TilePlaces ==
  ASSUME Accepted, NEW i \in 1..ImageCount, NEW b \in Blocks(i)
  PROVE  RowOfTile(i, b) \in Nat /\ ColOfTile(i, b) \in Nat
<1>1. /\ BuilderOf(i).width \in Nat \ {0} /\ BuilderOf(i).height \in Nat \ {0}
      /\ cog.tileWidth \in Nat \ {0} /\ cog.tileHeight \in Nat \ {0}
  BY ImagesAre, CogType
<1>2. Across(i) \in Nat \ {0} /\ Down(i) \in Nat \ {0}
  BY <1>1, DivCeilType DEF Across, Down
<1>3. b \in Nat \ {0} /\ b - 1 \in Nat
  <2>1. b \in 1..CheckedBlockCount(BuilderOf(i)) /\ CheckedBlockCount(BuilderOf(i)) \in Nat
    BY BlocksAre
  <2> QED BY <2>1
<1> DEFINE m == Across(i) * Down(i)
           r == (b - 1) % m
<1>4. m \in Nat \ {0}
  BY <1>2
<1> HIDE DEF m
<1>5. r \in Nat
  BY <1>3, <1>4
<1> HIDE DEF r
<1>6. r \div Across(i) \in Nat
  BY <1>2, <1>5, Quotient
<1>7. r % Across(i) \in Nat
  BY <1>2, <1>5
<1> QED BY <1>6, <1>7 DEF RowOfTile, ColOfTile, r, m

\* A block is made of the tiles that a reader expects it to show.
LEMMA SourcesAreSquare ==
  ASSUME Accepted, NEW i \in 1..ImageCount, NEW b \in Blocks(i)
  PROVE  Sources(i, b) = Square(i, b)
<1> DEFINE row == RowOfTile(i, b)
           col == ColOfTile(i, b)
           level == LevelOf(i)
<1>1. /\ level \in Nat \ {0} /\ row \in Nat /\ col \in Nat
      /\ cog.width \in Nat \ {0} /\ cog.height \in Nat \ {0}
      /\ cog.tileWidth \in Nat \ {0} /\ cog.tileHeight \in Nat \ {0}
  BY ImagesAre, CogType, TilePlaces
<1>2. BuilderOf(i).height = DivCeil(cog.height, level) /\ BuilderOf(i).width = DivCeil(cog.width, level)
  BY DEF BuilderOf, BuilderAt
<1>3. Down(1) = DivCeil(cog.height, cog.tileHeight) /\ Across(1) = DivCeil(cog.width, cog.tileWidth)
  <2>1. BuilderOf(1).height = DivCeil(cog.height, 1) /\ BuilderOf(1).width = DivCeil(cog.width, 1)
    BY DEF BuilderOf, BuilderAt, LevelOf
  <2>2. \A x \in Nat \ {0} : DivCeil(x, 1) = x
    <3>1. ASSUME NEW x \in Nat \ {0} PROVE (x + 1 - 1) \div 1 = x
      <4>1. x * 1 <= x + 1 - 1 /\ x + 1 - 1 < x * 1 + 1 /\ x + 1 - 1 \in Nat /\ 1 \in Nat \ {0}
        OBVIOUS
      <4> QED BY <4>1, QuotientIs
    <3> QED BY <3>1 DEF DivCeil
  <2> QED BY <1>1, <2>1, <2>2 DEF Down, Across
<1>4. Reached(row, cog.tileHeight, BuilderOf(i).height, level, cog.height)
        = Span(row, Down(1), cog.tileHeight, cog.height, level)
  BY <1>1, <1>2, <1>3, ReachedIs
<1>5. Reached(col, cog.tileWidth, BuilderOf(i).width, level, cog.width)
        = Span(col, Across(1), cog.tileWidth, cog.width, level)
  BY <1>1, <1>2, <1>3, ReachedIs
<1>6. Square(i, b) = {BlockAt(1, PlaneOf(i, b), y, x) :
                        y \in Span(row, Down(1), cog.tileHeight, cog.height, level),
                        x \in Span(col, Across(1), cog.tileWidth, cog.width, level)}
  BY DEF Square, Span, Shown
<1> QED BY <1>4, <1>5, <1>6 DEF Sources

LEMMA GivenIs ==
  ASSUME Accepted, SpoolInv, NEW i \in 1..ImageCount, NEW b \in Blocks(i)
  PROVE  Given(i, b) = IF images[i][b].sparse THEN Sparse ELSE Encoded(i, b)
<1>1. Square(i, b) = Sources(i, b)
  BY SourcesAreSquare
<1>2. images[i][b].sparse => images[i][b] # NoRecord
  BY DEF NoRecord
<1>3. images[i][b].sparse =>
        \A s \in Square(i, b) : Content(s) = "zero" \/ (Content(s) = "fill" /\ ~cog.nodata)
  BY <1>1, <1>2 DEF SpoolInv, AllZero
<1>4. Encoded(i, b) = [image |-> i, block |-> b, from |-> [s \in Square(i, b) |-> Content(s)]]
  BY <1>1 DEF Encoded, From
<1> QED BY <1>3, <1>4 DEF Given

----------------------------------------------------------------------------
\* The extents of a planned block, and where they go in the sink.
LEMMA BlockSpooled ==
  ASSUME CogInv, planned # <<>>, NEW i \in 1..ImageCount, NEW b \in Blocks(i), ~images[i][b].sparse
  PROVE  LET off == planned[i].offsets[b]
             n == images[i][b].count
             t == IF n < 4 THEN n ELSE 4
         IN /\ off \in Nat /\ off - 4 \in Nat /\ DataStart \in Nat /\ DataStart <= off - 4
            /\ n \in Nat \ {0} /\ t \in Nat \ {0}
            /\ off = DataStart + images[i][b].off /\ images[i][b].off \in Nat
            /\ \E e \in spool : Moved(e) = Field(off - 4, 4, n)
            /\ \E e \in spool : /\ Moved(e).off = off /\ Moved(e).len = n
                                /\ ~IsNumber(Moved(e)) /\ Moved(e).val = Encoded(i, b)
            /\ \E e \in spool : /\ Moved(e).off = off + n /\ Moved(e).len = t
                                /\ ~IsNumber(Moved(e)) /\ Moved(e).val = TailOf(Encoded(i, b))
<1> DEFINE start == images[i][b].off
           off == planned[i].offsets[b]
           n == images[i][b].count
           t == IF n < 4 THEN n ELSE 4
           x == Field(start - 4, 4, n)
           y == [off |-> start, len |-> n, val |-> Encoded(i, b)]
           z == [off |-> start + n, len |-> t, val |-> TailOf(Encoded(i, b))]
<1> USE DEF CogInv
<1>1. /\ images[i][b] # NoRecord /\ start \in Nat /\ start >= 4 /\ n \in Nat \ {0}
      /\ off = DataStart + start
  BY PlanIs DEF DataStart
<1> HIDE DEF start, off, n, x, y, z
<1>2. DataStart \in Nat
  BY Places
<1>3. /\ start - 4 + 4 = start /\ start - 4 \in Nat
      /\ off \in Nat /\ off - 4 \in Nat /\ DataStart <= off - 4 /\ t \in Nat \ {0}
      /\ DataStart + (start - 4) = off - 4 /\ DataStart + (start + n) = off + n
  BY <1>1, <1>2
<1> USE DEF start, n, x, y, z
<1>4. Segmented(start - 4, n, Encoded(i, b)) \subseteq spool
  BY <1>1 DEF SpoolInv
<1>5. x \in spool /\ y \in spool /\ z \in spool
  <2>1. Segmented(start - 4, n, Encoded(i, b))
          = {x, [off |-> start - 4 + 4, len |-> n, val |-> Encoded(i, b)],
             [off |-> start - 4 + 4 + n, len |-> t, val |-> TailOf(Encoded(i, b))]}
    BY DEF Segmented
  <2> HIDE DEF start, n, t, x
  <2>2. Segmented(start - 4, n, Encoded(i, b)) = {x, y, z}
    BY <1>3, <2>1
  <2> QED BY <1>4, <2>2
<1>6. \A e \in spool : /\ Moved(e).off = DataStart + e.off /\ Moved(e).len = e.len
                       /\ Moved(e).val = e.val /\ (IsNumber(Moved(e)) <=> IsNumber(e))
  BY MovedIs
<1>7. Moved(x) = Field(off - 4, 4, n)
  <2> HIDE DEF start, n
  <2>1. Moved(x) = Field(DataStart + (start - 4), 4, n)
    BY DEF Moved, Field
  <2> QED BY <1>3, <2>1
<1>8. ~IsNumber(y) /\ ~IsNumber(z)
  <2>1. "from" \in DOMAIN Encoded(i, b) /\ "tail" \in DOMAIN TailOf(Encoded(i, b))
    BY DEF Encoded, TailOf
  <2> QED BY <2>1 DEF IsNumber
<1>9. y.off = start /\ y.len = n /\ y.val = Encoded(i, b)
      /\ z.off = start + n /\ z.len = t /\ z.val = TailOf(Encoded(i, b))
  OBVIOUS
<1> HIDE DEF x, y, z
<1>10. /\ Moved(y).off = off /\ Moved(y).len = n /\ ~IsNumber(Moved(y)) /\ Moved(y).val = Encoded(i, b)
       /\ Moved(z).off = off + n /\ Moved(z).len = t /\ ~IsNumber(Moved(z))
       /\ Moved(z).val = TailOf(Encoded(i, b))
  BY <1>1, <1>3, <1>5, <1>6, <1>8, <1>9
<1> HIDE DEF start, off, n, t
<1> QED BY <1>1, <1>2, <1>3, <1>5, <1>7, <1>10 DEF start, off, n, t

\* What the ghost area says follows from where the spooled blocks end up.
LEMMA GhostHolds == CogInv => GhostAreaHolds
<1> SUFFICES ASSUME CogInv, phase = "done"
             PROVE  /\ \A i \in 1..ImageCount : \A b \in Blocks(i) : ~images[i][b].sparse =>
                         LET off == planned[i].offsets[b]
                             n == images[i][b].count
                         IN /\ \A k \in DOMAIN ifds : IfdEnd(ifds[k], planned[k].tags, big) <= off - 4
                            /\ Nums(file, off - 4, 4) = {n}
                            /\ Payloads(file, off + n, IF n < 4 THEN n ELSE 4) = {TailOf(Given(i, b))}
                    /\ \A b, c \in Blocks(1) :
                         b < c /\ ~images[1][b].sparse /\ ~images[1][c].sparse =>
                           planned[1].offsets[b] < planned[1].offsets[c]
  BY DEF GhostAreaHolds
<1>1. /\ planned # <<>> /\ Solid(file) /\ \A e \in spool : Moved(e) \in file
      /\ CogTypeOK /\ PlanInv /\ SpoolInv /\ Accepted
  BY DEF CogInv, PlanInv, SinkInv, SinkSolid, CogTypeOK
<1>2. ASSUME NEW i \in 1..ImageCount, NEW b \in Blocks(i), ~images[i][b].sparse
      PROVE  LET off == planned[i].offsets[b]
                 n == images[i][b].count
             IN /\ \A k \in DOMAIN ifds : IfdEnd(ifds[k], planned[k].tags, big) <= off - 4
                /\ Nums(file, off - 4, 4) = {n}
                /\ Payloads(file, off + n, IF n < 4 THEN n ELSE 4) = {TailOf(Given(i, b))}
  <2> DEFINE off == planned[i].offsets[b]
             n == images[i][b].count
             t == IF n < 4 THEN n ELSE 4
  <2>1. /\ off \in Nat /\ off - 4 \in Nat /\ DataStart \in Nat /\ DataStart <= off - 4
        /\ \E e \in spool : Moved(e) = Field(off - 4, 4, n)
        /\ \E e \in spool : /\ Moved(e).off = off + n /\ Moved(e).len = t
                            /\ ~IsNumber(Moved(e)) /\ Moved(e).val = TailOf(Encoded(i, b))
    BY <1>1, <1>2, BlockSpooled
  <2>2. Given(i, b) = Encoded(i, b)
    BY <1>1, <1>2, GivenIs
  <2> HIDE DEF off, n, t
  <2>3. Field(off - 4, 4, n) \in file
    BY <1>1, <2>1
  <2>4. Nums(file, off - 4, 4) = {n}
    BY <1>1, <2>3, NumsAre
  <2>5. PICK e \in spool : /\ Moved(e).off = off + n /\ Moved(e).len = t
                           /\ ~IsNumber(Moved(e)) /\ Moved(e).val = TailOf(Encoded(i, b))
    BY <2>1
  <2>6. Payloads(file, off + n, t) = {TailOf(Given(i, b))}
    <3>1. Moved(e) \in file
      BY <1>1
    <3>2. Payloads(file, Moved(e).off, Moved(e).len) = {Moved(e).val}
      BY <1>1, <2>5, <3>1, PayloadsAre
    <3> QED BY <2>2, <2>5, <3>2
  <2>7. ASSUME NEW k \in DOMAIN ifds PROVE IfdEnd(ifds[k], planned[k].tags, big) <= off - 4
    <3>1. k \in 1..ImageCount /\ IfdEnd(ifds[k], Tags(k, big), big) = End(k)
          /\ End(k) \in Nat /\ End(k) <= DataStart
      BY <1>1, Places
    <3>2. planned[k].tags = Tags(k, big)
      BY <1>1, <3>1, PlanIs
    <3> QED BY <2>1, <3>1, <3>2
  <2> QED BY <2>4, <2>6, <2>7 DEF off, n, t
<1>3. ASSUME NEW b \in Blocks(1), NEW c \in Blocks(1), b < c,
             ~images[1][b].sparse, ~images[1][c].sparse
      PROVE  planned[1].offsets[b] < planned[1].offsets[c]
  <2>1. 1 \in 1..ImageCount
    BY <1>1, ImagesAre
  <2>2. /\ planned[1].offsets[b] = DataStart + images[1][b].off /\ images[1][b].off \in Nat
        /\ planned[1].offsets[c] = DataStart + images[1][c].off /\ images[1][c].off \in Nat
        /\ DataStart \in Nat
    BY <1>1, <1>3, <2>1, BlockSpooled
  <2>3. images[1][c] # NoRecord
    BY <1>1, <2>1, PlanIs
  <2>4. images[1][b].off < images[1][c].off
    BY <1>3, <2>1, <2>3 DEF CogInv, SpoolInv
  <2> QED BY <2>2, <2>4
<1> QED BY <1>2, <1>3

----------------------------------------------------------------------------
\* What the slots of an IFD hold, patched or not.
Held(k) == [s \in Slots(Tags(k, big), big) |-> CHOOSE v : InIfd(k, s, v) \in file]
Reading == CogInv /\ planned # <<>> /\ Len(ifds) = ImageCount

LEMMA HeldIs ==
  ASSUME Reading, NEW k \in DOMAIN ifds, NEW s \in Slots(Tags(k, big), big), NEW v,
         InIfd(k, s, v) \in file
  PROVE  Held(k)[s] = v
<1>1. \A u : InIfd(k, s, u) \in file => u = v
  <2> SUFFICES ASSUME NEW u, InIfd(k, s, u) \in file PROVE u = v
    OBVIOUS
  <2>1. Solid(file)
    BY DEF Reading, CogInv, SinkInv, SinkSolid
  <2>2. /\ InIfd(k, s, u).off = InIfd(k, s, v).off /\ InIfd(k, s, u).len = InIfd(k, s, v).len
        /\ InIfd(k, s, u).val.num = u /\ InIfd(k, s, v).val.num = v
    BY FieldIs DEF InIfd, SlotField
  <2>3. InIfd(k, s, u) = InIfd(k, s, v)
    BY <2>1, <2>2, SamePlace
  <2> QED BY <2>2, <2>3
<1>2. (CHOOSE u : InIfd(k, s, u) \in file) = v
  BY <1>1
<1> QED BY <1>2 DEF Held

\* Only elements of arrays and the pointers to the next IFD are patched.
LEMMA TargetKinds ==
  \A x : Target(x).slot.kind \in {"elem", "next"} /\ Target(x) = [ifd |-> Target(x).ifd, slot |-> Target(x).slot]
<1>1. \A i, code, k : ElemSlot(i, code, k).kind = "elem"
  BY DEF ElemSlot, Slot
<1>2. NextSlot.kind = "next"
  BY DEF NextSlot, Slot
<1> QED BY <1>1, <1>2 DEF Target

LEMMA SlotHeld ==
  ASSUME Reading, NEW k \in DOMAIN ifds, NEW s \in Slots(Tags(k, big), big)
  PROVE  /\ InIfd(k, s, Held(k)[s]) \in file
         /\ \A x \in Made : ~IsHead(x) /\ Target(x) = [ifd |-> k, slot |-> s] => Held(k)[s] = Value(x)
         /\ (\A x \in Made : IsHead(x) \/ Target(x) # [ifd |-> k, slot |-> s]) =>
              Held(k)[s] = SlotStart(ifds[k], Tags(k, big), big, s)
<1>1. SlotsOut
  BY DEF Reading, CogInv, SinkInv
<1>2. ASSUME NEW x \in Made, ~IsHead(x), Target(x) = [ifd |-> k, slot |-> s]
      PROVE  InIfd(k, s, Value(x)) \in file /\ Held(k)[s] = Value(x)
  <2>1. InIfd(Target(x).ifd, Target(x).slot, Value(x)) \in file
    BY <1>1, <1>2 DEF SlotsOut
  <2>2. Target(x).ifd = k /\ Target(x).slot = s
    BY <1>2
  <2>3. InIfd(k, s, Value(x)) \in file
    BY <2>1, <2>2
  <2> QED BY <2>3, HeldIs
<1>3. ASSUME \A x \in Made : IsHead(x) \/ Target(x) # [ifd |-> k, slot |-> s]
      PROVE  /\ InIfd(k, s, SlotStart(ifds[k], Tags(k, big), big, s)) \in file
             /\ Held(k)[s] = SlotStart(ifds[k], Tags(k, big), big, s)
  <2>1. InIfd(k, s, SlotStart(ifds[k], Tags(k, big), big, s)) \in file
    BY <1>1, <1>3 DEF SlotsOut
  <2> QED BY <2>1, HeldIs
<1> QED BY <1>2, <1>3

LEMMA IfdHeld ==
  ASSUME Reading, NEW k \in DOMAIN ifds
  PROVE  /\ HoldsIfd(file, ifds[k], Tags(k, big), big, Held(k))
         /\ Patched(ifds[k], Tags(k, big), big, Held(k))
         /\ Solid(file) /\ Tags(k, big) \in Seq(Tag) /\ big \in BOOLEAN /\ ifds[k] \in Nat
         /\ Accepted /\ k \in 1..ImageCount
<1>1. HoldsIfd(file, ifds[k], Tags(k, big), big, Held(k))
  BY SlotHeld DEF HoldsIfd, InIfd
<1>2. Patched(ifds[k], Tags(k, big), big, Held(k))
  <2> SUFFICES ASSUME NEW s \in Slots(Tags(k, big), big), s.kind \notin {"next", "elem"}
               PROVE  Held(k)[s] = SlotStart(ifds[k], Tags(k, big), big, s)
    BY DEF Patched
  <2>1. \A x \in Made : Target(x) # [ifd |-> k, slot |-> s]
    <3> SUFFICES ASSUME NEW x \in Made, Target(x) = [ifd |-> k, slot |-> s] PROVE FALSE
      OBVIOUS
    <3>1. Target(x).slot = s
      OBVIOUS
    <3> QED BY <3>1, TargetKinds
  <2> QED BY <2>1, SlotHeld
<1>3. Solid(file) /\ CogTypeOK /\ PlanInv
  BY DEF Reading, CogInv, SinkInv, SinkSolid
<1> QED BY <1>1, <1>2, <1>3, Places

----------------------------------------------------------------------------
\* How many of the pointers are patched: none before the block arrays all are.
Pointed ==
  IF cur.image <= ImageCount THEN 0 ELSE IF cur.image = ImageCount + 1 THEN cur.step - 1 ELSE ImageCount

LEMMA PointedIs ==
  ASSUME Reading
  PROVE  /\ Pointed \in 0..ImageCount /\ ImageCount \in Nat \ {0}
         /\ HeadStep \in Made <=> Pointed # 0
         /\ \A k \in 1..ImageCount : LET x == [image |-> ImageCount + 1, step |-> k]
                                     IN x \in Steps /\ (x \in Made <=> k <= Pointed)
         /\ Pointed # 0 => \A x \in Steps : x.image <= ImageCount => x \in Made
<1>1. /\ ImageCount \in Nat \ {0} /\ cur.image \in Nat \ {0} /\ cur.step \in Nat \ {0}
      /\ cur.image <= ImageCount + 2
      /\ cur.image = ImageCount + 1 => cur.step <= ImageCount
  <2>1. /\ ImageCount \in Nat \ {0} /\ cur.image \in Nat \ {0} /\ cur.step \in Nat \ {0}
    BY Places DEF Reading, CogInv, CogTypeOK
  <2>2. cur.image <= ImageCount + 2 /\ (cur.image <= ImageCount + 1 => cur.step <= PatchCount(cur.image))
    BY DEF Reading, CogInv, PlanInv
  <2>3. cur.image = ImageCount + 1 => PatchCount(cur.image) = ImageCount
    BY <2>1 DEF PatchCount
  <2> QED BY <2>1, <2>2, <2>3
<1>2. Pointed \in 0..ImageCount
  BY <1>1 DEF Pointed
<1>3. PatchCount(ImageCount + 1) = ImageCount
  BY <1>1 DEF PatchCount
<1>4. ASSUME NEW k \in 1..ImageCount
      PROVE  LET x == [image |-> ImageCount + 1, step |-> k]
             IN x \in Steps /\ (x \in Made <=> k <= Pointed)
  <2> DEFINE x == [image |-> ImageCount + 1, step |-> k]
  <2>1. x.image = ImageCount + 1 /\ x.step = k
        /\ x \in [image : 1..(ImageCount + 1), step : Nat \ {0}]
    BY <1>1
  <2> HIDE DEF x
  <2>2. x \in Steps
    BY <1>1, <1>3, <2>1 DEF Steps
  <2>3. Passed(x) <=> k <= Pointed
    BY <1>1, <2>1 DEF Passed, Pointed
  <2> QED BY <2>2, <2>3 DEF Made, x
<1>5. HeadStep \in Made <=> Pointed # 0
  <2>1. HeadStep \in Made <=> 1 <= Pointed
    BY <1>1, <1>4 DEF HeadStep
  <2> QED BY <1>2, <2>1
<1>6. ASSUME Pointed # 0, NEW x \in Steps, x.image <= ImageCount PROVE x \in Made
  <2>1. cur.image > ImageCount /\ x.image \in Nat
    <3>1. x.image \in 1..(ImageCount + 1)
      BY DEF Steps
    <3> QED BY <1>1, <1>6, <3>1 DEF Pointed
  <2>2. Passed(x)
    BY <1>1, <1>6, <2>1 DEF Passed
  <2> QED BY <2>2 DEF Made
<1> QED BY <1>1, <1>2, <1>4, <1>5, <1>6

\* What a slot that some step patches holds: the value once it is patched, and zero before.
LEMMA TargetHeld ==
  ASSUME Reading, NEW x \in Steps, ~IsHead(x), NEW k, NEW s, Target(x) = [ifd |-> k, slot |-> s]
  PROVE  /\ k \in DOMAIN ifds /\ s \in Slots(Tags(k, big), big)
         /\ Held(k)[s] = IF x \in Made THEN Value(x) ELSE 0
<1>1. Target(x).ifd = k /\ Target(x).slot = s
  OBVIOUS
<1>2. CogTypeOK /\ PlanInv /\ planned # <<>> /\ Len(ifds) = ImageCount /\ Accepted /\ big \in BOOLEAN
      /\ DOMAIN ifds = 1..ImageCount
  <2>1. CogTypeOK /\ PlanInv /\ planned # <<>> /\ Len(ifds) = ImageCount
    BY DEF Reading, CogInv
  <2> QED BY <2>1, Places DEF CogTypeOK
<1>3. k \in DOMAIN ifds /\ s \in Slots(Tags(k, big), big)
  BY <1>1, <1>2, PatchIs
<1>4. CASE x \in Made
  BY <1>3, <1>4, SlotHeld
<1>5. CASE x \notin Made
  <2>1. ASSUME NEW y \in Made, ~IsHead(y), Target(y) = [ifd |-> k, slot |-> s] PROVE FALSE
    <3>1. y \in Steps
      BY DEF Made
    <3>2. x = y
      BY <1>2, <2>1, <3>1, TargetsDiffer
    <3> QED BY <1>5, <3>2
  <2>2. Held(k)[s] = SlotStart(ifds[k], Tags(k, big), big, s)
    BY <1>3, <2>1, SlotHeld
  <2>3. s.kind \in {"elem", "next"}
    BY <1>1, TargetKinds
  <2>4. SlotStart(ifds[k], Tags(k, big), big, s) = 0
    BY <2>3 DEF SlotStart
  <2> QED BY <1>3, <1>5, <2>2, <2>4
<1> QED BY <1>3, <1>4, <1>5

\* The pointer to the next IFD.
LEMMA NextHeld ==
  ASSUME Reading, NEW k \in 1..ImageCount
  PROVE  NextIfd(file, ifds[k], big) = {IF ~cog.subIfds /\ k < Pointed THEN ifds[k + 1] ELSE 0}
<1>1. /\ ImageCount \in Nat \ {0} /\ Pointed \in 0..ImageCount
      /\ \A j \in 1..ImageCount : LET x == [image |-> ImageCount + 1, step |-> j]
                                  IN x \in Steps /\ (x \in Made <=> j <= Pointed)
  BY PointedIs
<1>2. k \in DOMAIN ifds
  <2>1. Len(ifds) = ImageCount /\ ifds \in Seq(Nat)
    BY DEF Reading, CogInv, CogTypeOK
  <2> QED BY <2>1
<1>3. NextIfd(file, ifds[k], big) = {Held(k)[NextSlot]}
  BY <1>2, IfdHeld, ReadsNext DEF NextSlot
<1>4. CASE ~cog.subIfds /\ k < ImageCount
  <2> DEFINE x == [image |-> ImageCount + 1, step |-> k + 1]
  <2>1. k + 1 \in 1..ImageCount /\ (k + 1 <= Pointed <=> k < Pointed)
    BY <1>1, <1>4
  <2>2. x \in Steps /\ (x \in Made <=> k < Pointed)
    BY <1>1, <2>1
  <2>3. x.image = ImageCount + 1 /\ x.step = k + 1 /\ ~IsHead(x)
    BY <1>1 DEF IsHead
  <2> HIDE DEF x
  <2>4. Target(x) = [ifd |-> k, slot |-> NextSlot]
    <3>1. Target(x) = [ifd |-> x.step - 1, slot |-> NextSlot]
      BY <1>1, <1>4, <2>3 DEF Target
    <3>2. x.step - 1 = k
      BY <2>3
    <3> QED BY <3>1, <3>2
  <2>5. Value(x) = ifds[k + 1]
    BY <1>1, <2>3 DEF Value
  <2>6. Held(k)[NextSlot] = IF x \in Made THEN Value(x) ELSE 0
    BY <2>2, <2>3, <2>4, TargetHeld
  <2> QED BY <1>3, <1>4, <2>2, <2>5, <2>6
<1>5. CASE cog.subIfds \/ ~(k < ImageCount)
  <2>1. ASSUME NEW x \in Made, ~IsHead(x), Target(x) = [ifd |-> k, slot |-> NextSlot] PROVE FALSE
    <3>1. Target(x).ifd = k /\ Target(x).slot = NextSlot /\ x \in Steps
      BY <2>1 DEF Made
    <3>2. NextSlot.kind = "next" /\ \A i, code, j : ElemSlot(i, code, j).kind = "elem"
      BY DEF NextSlot, ElemSlot, Slot
    <3>3. ~cog.subIfds /\ ~(x.image <= ImageCount) /\ k = x.step - 1
      BY <3>1, <3>2 DEF Target
    <3>4. Accepted
      BY DEF Reading, CogInv, CogTypeOK
    <3>5. x.image = ImageCount + 1 /\ x.step \in Nat \ {0} /\ x.step <= ImageCount
      BY <1>1, <3>1, <3>3, <3>4, StepIs
    <3> QED BY <1>1, <1>5, <3>3, <3>5
  <2>2. NextSlot \in Slots(Tags(k, big), big) /\ NextSlot.kind = "next"
    BY DEF NextSlot, Slot, Slots
  <2>3. Held(k)[NextSlot] = SlotStart(ifds[k], Tags(k, big), big, NextSlot)
    BY <1>2, <2>1, <2>2, SlotHeld
  <2>4. Held(k)[NextSlot] = 0
    BY <2>2, <2>3 DEF SlotStart
  <2>5. k < Pointed => k < ImageCount
    BY <1>1
  <2> QED BY <1>3, <1>5, <2>4, <2>5
<1> QED BY <1>4, <1>5

\* An array of an IFD, as the reader finds it.
LEMMA ArrayReads ==
  ASSUME Reading, NEW k \in DOMAIN ifds, NEW code, NEW n, IsArray(k, code, n), NEW codes,
         Codes(Tags(k, big)) \cap codes = {code}
  PROVE  /\ BlockArrays(file, ifds[k], big, codes) = {[j \in 1..n |-> {Held(k)[ElemSlot(k, code, j)]}]}
         /\ n \in Nat \ {0}
<1> DEFINE tags == Tags(k, big)
           a == ArrayIndex(tags, code)
<1>1. /\ Solid(file) /\ tags \in Seq(Tag) /\ big \in BOOLEAN /\ ifds[k] \in Nat
      /\ HoldsIfd(file, ifds[k], tags, big, Held(k)) /\ Patched(ifds[k], tags, big, Held(k))
      /\ Accepted /\ k \in 1..ImageCount
  BY IfdHeld
<1>2. /\ a \in DOMAIN tags /\ tags[a].code = code /\ code \in OffsetArrayCodes
      /\ tags[a].len \div Width(big) = n /\ n \in Nat \ {0}
      /\ n * Width(big) <= InlineMax(big) <=> ~Deferred(tags[a], big)
  BY <1>1, ArraysAre
<1>3. DistinctCodes(tags) /\ DOMAIN tags = 1..Len(tags)
  BY <1>1, TagsAre
<1>4. \A i \in DOMAIN tags : tags[i].code \in codes <=> i = a
  <2> HIDE DEF a, tags
  <2>1. ASSUME NEW i \in DOMAIN tags, tags[i].code \in codes PROVE i = a
    <3>1. tags[i].code \in Codes(tags)
      BY <1>3 DEF Codes
    <3>2. tags[i].code = code
      BY <2>1, <3>1 DEF tags
    <3> QED BY <1>2, <1>3, <3>2 DEF DistinctCodes
  <2>2. tags[a].code \in codes
    BY <1>2
  <2> QED BY <2>1, <2>2
<1> HIDE DEF a, tags
<1>5. BlockArrays(file, ifds[k], big, codes) = {[j \in 1..n |-> {Held(k)[Slot("elem", a, j)]}]}
  <2>1. n \in Nat /\ tags[a].code \in OffsetArrayCodes
    BY <1>2
  <2> QED BY ONLY <1>1, <1>2, <1>4, <2>1, ReadsArray
<1> QED BY <1>2, <1>5 DEF ElemSlot, a, tags

\* What a reader makes of the blocks of an image once its arrays are patched.
Shows(k) == [b \in Blocks(k) |-> ReadBlock(file, planned[k].offsets[b], images[k][b].count)]

LEMMA ImageReads ==
  ASSUME Reading, Pointed # 0, NEW k \in 1..ImageCount
  PROVE  ReadIfd(file, ifds[k], big) = Shows(k)
<1> DEFINE bb == BuilderOf(k)
           n == CheckedBlockCount(bb)
           O == OffsetsTagCode(bb)
           C == ByteCountsTagCode(bb)
           offs == [j \in 1..n |-> {planned[k].offsets[j]}]
           counts == [j \in 1..n |-> {images[k][j].count}]
<1>1. k \in DOMAIN ifds
  <2>1. Len(ifds) = ImageCount /\ ifds \in Seq(Nat)
    BY DEF Reading, CogInv, CogTypeOK
  <2> QED BY <2>1
<1>2. Accepted /\ big \in BOOLEAN
  BY <1>1, IfdHeld
<1>3. n \in Nat \ {0} /\ Blocks(k) = 1..n /\ PatchCount(k) = 2 * n /\ ImageCount \in Nat \ {0}
  BY <1>2, BlocksAre, ImagesAre
<1>4. IsArray(k, O, n) /\ IsArray(k, C, n)
  BY DEF IsArray
<1>5. /\ Codes(Tags(k, big)) \cap {TagStripOffsets, TagTileOffsets} = {O}
      /\ Codes(Tags(k, big)) \cap {TagStripByteCounts, TagTileByteCounts} = {C}
  BY <1>2, TagsAre
<1>6. ASSUME NEW j \in 1..n
      PROVE  /\ Held(k)[ElemSlot(k, O, j)] = planned[k].offsets[j]
             /\ Held(k)[ElemSlot(k, C, j)] = images[k][j].count
  <2> DEFINE x == [image |-> k, step |-> j]
             y == [image |-> k, step |-> n + j]
  <2>1. /\ j \in Nat \ {0} /\ n + j \in Nat \ {0} /\ j <= n /\ ~(n + j <= n) /\ n + j - n = j
        /\ n + j <= 2 * n /\ j <= 2 * n /\ k \in 1..(ImageCount + 1) /\ k <= ImageCount
        /\ k # ImageCount + 1 /\ ~(k > ImageCount)
    BY <1>3
  <2>2. x.image = k /\ x.step = j /\ y.image = k /\ y.step = n + j
    OBVIOUS
  <2>3. x \in Steps /\ y \in Steps
    BY <1>3, <2>1 DEF Steps
  <2> HIDE DEF x, y
  <2>4. x \in Made /\ y \in Made /\ ~IsHead(x) /\ ~IsHead(y)
    BY <2>1, <2>2, <2>3, PointedIs DEF IsHead
  <2>5. Target(x) = [ifd |-> k, slot |-> ElemSlot(k, O, j)] /\ Value(x) = planned[k].offsets[j]
    BY <2>1, <2>2 DEF Target, Value
  <2>6. Target(y) = [ifd |-> k, slot |-> ElemSlot(k, C, j)] /\ Value(y) = images[k][j].count
    <3>1. /\ y.image = k /\ ~(y.step <= n) /\ y.step - n = j /\ k <= ImageCount /\ ~(k > ImageCount)
      <4> HIDE DEF n
      <4>1. n \in Nat /\ j \in Nat
        BY <1>3, <2>1
      <4>2. ~(y.step <= n) /\ y.step - n = j
        BY <2>2, <4>1, <2>1
      <4> QED BY <2>1, <2>2, <4>2
    <3>2. Target(y) = [ifd |-> k, slot |-> ElemSlot(k, C, y.step - n)]
      BY <3>1 DEF Target
    <3>3. Value(y) = images[k][y.step - n].count
      BY <3>1 DEF Value
    <3> QED BY <3>1, <3>2, <3>3
  <2> HIDE DEF O, C, n
  <2>7. Held(k)[ElemSlot(k, O, j)] = IF x \in Made THEN Value(x) ELSE 0
    BY <2>3, <2>4, <2>5, TargetHeld
  <2>8. Held(k)[ElemSlot(k, C, j)] = IF y \in Made THEN Value(y) ELSE 0
    BY <2>3, <2>4, <2>6, TargetHeld
  <2> QED BY <2>4, <2>5, <2>6, <2>7, <2>8
<1> HIDE DEF O, C, bb
<1>7. /\ BlockArrays(file, ifds[k], big, {TagStripOffsets, TagTileOffsets})
           = {[j \in 1..n |-> {Held(k)[ElemSlot(k, O, j)]}]}
      /\ BlockArrays(file, ifds[k], big, {TagStripByteCounts, TagTileByteCounts})
           = {[j \in 1..n |-> {Held(k)[ElemSlot(k, C, j)]}]}
  BY <1>1, <1>4, <1>5, ArrayReads
<1>8. FindsArrays(file, ifds[k], big, offs, counts)
  <2>1. [j \in 1..n |-> {Held(k)[ElemSlot(k, O, j)]}] = offs
    BY <1>6
  <2>2. [j \in 1..n |-> {Held(k)[ElemSlot(k, C, j)]}] = counts
    BY <1>6
  <2> QED BY <1>7, <2>1, <2>2 DEF FindsArrays
<1>9. ReadIfd(file, ifds[k], big) = FetchedImage(file, offs, counts)
  <2>1. DOMAIN counts = DOMAIN offs
    OBVIOUS
  <2> HIDE DEF offs, counts
  <2> QED BY ONLY <1>8, <2>1, ReadsIfd
<1>10. FetchedImage(file, offs, counts) = Shows(k)
  <2>1. \A j \in 1..n : FetchedBlock(file, offs[j], counts[j])
                          = ReadBlock(file, planned[k].offsets[j], images[k][j].count)
    BY ReadsFetched
  <2> QED BY <1>3, <2>1 DEF FetchedImage, Shows
<1> QED BY <1>9, <1>10

\* Without an entry of that code there is no such array.
LEMMA NoArray ==
  ASSUME Reading, NEW k \in DOMAIN ifds, NEW code, code \notin Codes(Tags(k, big))
  PROVE  BlockArrays(file, ifds[k], big, {code}) = {}
<1> DEFINE tags == Tags(k, big)
<1>1. /\ Solid(file) /\ tags \in Seq(Tag) /\ big \in BOOLEAN /\ ifds[k] \in Nat
      /\ HoldsIfd(file, ifds[k], tags, big, Held(k)) /\ Patched(ifds[k], tags, big, Held(k))
  BY IfdHeld
<1> HIDE DEF tags
<1>2. EntryCount(file, ifds[k], big) = {Len(tags)}
  BY <1>1, ReadsCount
<1>3. ASSUME NEW i \in 1..Len(tags) PROVE Nums(file, EntryOffset(ifds[k], big, i), 2) \cap {code} = {}
  <2> DEFINE s == Slot("code", i, 0)
  <2>1. s \in Slots(tags, big) /\ s.kind = "code" /\ s.i = i
    BY <1>1 DEF Slots, Slot
  <2> HIDE DEF s
  <2>2. Nums(file, SlotOff(ifds[k], tags, big, s), SlotLen(big, s)) = {Held(k)[s]}
    BY <1>1, <2>1, SlotReads
  <2>3. SlotOff(ifds[k], tags, big, s) = EntryOffset(ifds[k], big, i) /\ SlotLen(big, s) = 2
    BY <2>1 DEF SlotOff, SlotLen
  <2>4. Held(k)[s] = tags[i].code
    BY <1>1, <2>1 DEF Patched, SlotStart
  <2>5. tags[i].code # code
    BY DEF Codes, tags
  <2> QED BY <2>2, <2>3, <2>4, <2>5
<1>4. Entries(file, ifds[k], big, {code}) = {}
  BY <1>2, <1>3 DEF Entries
<1> QED BY <1>4 DEF BlockArrays

\* An IFD at offset zero cannot be read: the sink holds no number of that length there.
LEMMA NoIfdAtZero ==
  ASSUME Reading
  PROVE  ReadIfd(file, 0, big) = <<Damaged>>
<1>1. NumbersPlaced /\ base \in Nat /\ big \in BOOLEAN
  BY DEF Reading, CogInv, SinkInv, CogTypeOK
<1>2. CountSize(big) # 4
  BY <1>1 DEF CountSize
<1>3. EntryCount(file, 0, big) = {}
  <2>1. \A e \in file : e.off = 0 /\ e.len = CountSize(big) => ~IsNumber(e)
    BY <1>1, <1>2 DEF NumbersPlaced
  <2> QED BY <2>1 DEF EntryCount, Nums, IsNumber
<1>4. \A codes : BlockArrays(file, 0, big, codes) = {}
  BY <1>3 DEF BlockArrays, Entries
<1> DEFINE block(offs, counts) ==
             TheOne({ReadBlock(file, off, count) : off \in offs, count \in counts}, Damaged)
           images0 == {[b \in DOMAIN o |-> block(o[b], IF b \in DOMAIN c THEN c[b] ELSE {})] :
                         o \in BlockArrays(file, 0, big, {TagStripOffsets, TagTileOffsets}),
                         c \in BlockArrays(file, 0, big, {TagStripByteCounts, TagTileByteCounts})}
<1>5. images0 = {}
  BY <1>4
<1>6. ReadIfd(file, 0, big) = TheOne(images0, <<Damaged>>)
  BY DEF ReadIfd
<1> HIDE DEF images0
<1> QED BY <1>5, <1>6, TheOneOfNone

LEMMA FunctionIsSeq ==
  ASSUME NEW S, NEW m \in Nat, NEW f \in [1..m -> S]
  PROVE  f \in Seq(S) /\ Len(f) = m /\ DOMAIN f = 1..m
OBVIOUS

LEMMA Joined ==
  ASSUME NEW S, NEW s \in Seq(S), NEW t \in Seq(S), NEW u \in Seq(S), Len(u) = Len(s) + Len(t),
         \A i \in 1..Len(s) : u[i] = s[i], \A i \in 1..Len(t) : u[Len(s) + i] = t[i]
  PROVE  s \o t = u
<1>1. s \o t \in Seq(S) /\ Len(s \o t) = Len(s) + Len(t) /\ Len(s) \in Nat /\ Len(t) \in Nat
  OBVIOUS
<1>2. ASSUME NEW i \in 1..(Len(s) + Len(t)) PROVE (s \o t)[i] = u[i]
  <2>1. CASE i <= Len(s)
    <3>1. i \in 1..Len(s) /\ (s \o t)[i] = s[i]
      BY <1>1, <2>1
    <3> QED BY <3>1
  <2>2. CASE ~(i <= Len(s))
    <3>1. i - Len(s) \in 1..Len(t) /\ Len(s) + (i - Len(s)) = i /\ (s \o t)[i] = t[i - Len(s)]
      BY <1>1, <2>2
    <3> QED BY <3>1
  <2> QED BY <2>1, <2>2
<1> DEFINE v == s \o t
<1>3. v \in Seq(S) /\ Len(v) = Len(u) /\ \A i \in 1..Len(u) : v[i] = u[i]
  BY <1>1, <1>2
<1> HIDE DEF v
<1>4. v = u
  BY <1>3
<1> QED BY <1>4 DEF v

----------------------------------------------------------------------------
\* How many images the chain holds, and how many there are with the SubIFDs.
Chained == IF cog.subIfds THEN 1 ELSE Pointed
Listed  == IF cog.subIfds THEN ImageCount ELSE Pointed

\* What the reader makes of image i of the file: nothing if its pointer is not patched yet.
Image(i) == IF i <= Pointed THEN Shows(i) ELSE <<Damaged>>

LEMMA HeaderReads ==
  ASSUME CogInv, HeaderOut
  PROVE  /\ IsBig(file, base) = {big} /\ big \in BOOLEAN
         /\ FirstIfd(file, base, big) = {IF HeadStep \in Made THEN ifds[1] ELSE 0}
<1>1. Solid(file) /\ big \in BOOLEAN
  BY DEF CogInv, SinkInv, SinkSolid, CogTypeOK
<1>2. IsBig(file, base) = {big}
  BY <1>1, ReadsHeader DEF HeaderOut
<1>3. FirstIfd(file, base, big) = {IF HeadStep \in Made THEN ifds[1] ELSE 0}
  <2> DEFINE v == IF HeadStep \in Made THEN ifds[1] ELSE 0
  <2>1. Field(base + IF big THEN 8 ELSE 4, Width(big), v) \in file
    BY DEF HeaderOut, FirstPointer
  <2> HIDE DEF v
  <2>2. Nums(file, base + IF big THEN 8 ELSE 4, Width(big)) = {v}
    BY <1>1, <2>1, NumsAre
  <2> QED BY <2>2 DEF FirstIfd, v
<1> QED BY <1>1, <1>2, <1>3

LEMMA ChainReads ==
  ASSUME Reading, HeaderOut, Pointed # 0
  PROVE  ReadFile(file, base, ImageCount) = [k \in 1..Chained |-> Shows(k)]
<1> DEFINE m == Chained
           at0 == [k \in 1..m |-> ifds[k]]
<1>1. /\ ImageCount \in Nat \ {0} /\ Pointed \in 0..ImageCount /\ Pointed # 0
      /\ HeadStep \in Made
  BY PointedIs
<1>2. m \in 0..ImageCount /\ m # 0 /\ m \in Nat /\ m <= ImageCount
  BY <1>1 DEF Chained
<1>3. /\ DOMAIN ifds = 1..ImageCount /\ CogInv
      /\ \A k \in 1..ImageCount : ifds[k] \in Nat \ {0}
  <2>1. Len(ifds) = ImageCount /\ ifds \in Seq(Nat) /\ CogInv /\ CogTypeOK /\ PlanInv
    BY DEF Reading, CogInv, CogTypeOK
  <2>2. DOMAIN ifds = 1..ImageCount
    BY <2>1
  <2>3. ASSUME NEW k \in 1..ImageCount PROVE ifds[k] \in Nat \ {0}
    <3>1. k \in DOMAIN ifds /\ k - 1 \in 0..ImageCount /\ ifds[k] = End(k - 1)
      BY <2>1, <2>2, Places
    <3>2. End(k - 1) \in Nat /\ base + HeaderLen(big) <= End(k - 1) /\ base \in Nat
          /\ HeaderLen(big) \in Nat \ {0}
      BY <2>1, <3>1, Places
    <3> QED BY <3>1, <3>2
  <2> QED BY <2>1, <2>2, <2>3
<1>4. /\ IsBig(file, base) = {big} /\ big \in BOOLEAN
      /\ FirstIfd(file, base, big) = {ifds[1]}
  BY <1>1, <1>3, HeaderReads
<1>5. \A k \in 1..m : k \in 1..ImageCount /\ at0[k] = ifds[k] /\ (k < m => at0[k + 1] = ifds[k + 1])
  <2> HIDE DEF m
  <2>1. ImageCount \in Nat
    BY <1>1
  <2>2. ASSUME NEW k \in 1..m
        PROVE  k \in 1..ImageCount /\ at0[k] = ifds[k] /\ (k < m => at0[k + 1] = ifds[k + 1])
    <3>1. k \in 1..ImageCount /\ (k < m => k + 1 \in 1..m)
      BY <1>2, <2>1
    <3> QED BY <3>1
  <2> QED BY <2>2
<1>6. at0 \in [1..m -> Nat \ {0}]
  BY <1>3, <1>5
<1>7. ASSUME NEW k \in 1..m
      PROVE  NextIfd(file, at0[k], big) = {IF k < m THEN at0[k + 1] ELSE 0}
  <2>1. NextIfd(file, ifds[k], big) = {IF ~cog.subIfds /\ k < Pointed THEN ifds[k + 1] ELSE 0}
    BY <1>5, NextHeld
  <2>2. (~cog.subIfds /\ k < Pointed) <=> k < m
    BY <1>2 DEF Chained
  <2> QED BY <1>5, <2>1, <2>2
<1>8. FirstIfd(file, base, big) = {IF m = 0 THEN 0 ELSE at0[1]}
  BY <1>2, <1>4, <1>5
<1>9. ReadChain(file, base, big, ImageCount) = [k \in 1..m |-> ReadIfd(file, at0[k], big)]
  <2> HIDE DEF at0, m
  <2> QED BY <1>1, <1>2, <1>6, <1>7, <1>8, ReadsChain
<1>10. \A k \in 1..m : ReadIfd(file, at0[k], big) = Shows(k)
  BY <1>1, <1>5, ImageReads
<1>11. ReadFile(file, base, ImageCount) = ReadChain(file, base, big, ImageCount)
  BY <1>4, ReadsFile
<1> HIDE DEF at0
<1> QED BY <1>9, <1>10, <1>11

LEMMA SubIfdsRead ==
  ASSUME Reading, HeaderOut, Pointed # 0
  PROVE  ReadSubIfds(base)
           = IF HasSubIfds(1) THEN [j \in 1..(ImageCount - 1) |-> Image(j + 1)] ELSE <<>>
<1>1. /\ ImageCount \in Nat \ {0} /\ Pointed \in 0..ImageCount /\ HeadStep \in Made
      /\ \A j \in 1..ImageCount : LET x == [image |-> ImageCount + 1, step |-> j]
                                  IN x \in Steps /\ (x \in Made <=> j <= Pointed)
  BY PointedIs
<1>2. CogInv /\ CogTypeOK /\ PlanInv /\ DOMAIN ifds = 1..ImageCount /\ 1 \in 1..ImageCount
  BY <1>1 DEF Reading, CogInv, CogTypeOK
<1>3. /\ IsBig(file, base) = {big} /\ big \in BOOLEAN /\ Accepted
      /\ FirstIfd(file, base, big) = {ifds[1]}
  BY <1>1, <1>2, HeaderReads DEF CogTypeOK
<1>4. ifds[1] # 0
  <2>1. ifds[1] = End(0) /\ 0 \in 0..ImageCount
    BY <1>1, <1>2, Places
  <2>2. End(0) \in Nat /\ base + HeaderLen(big) <= End(0) /\ base \in Nat /\ HeaderLen(big) \in Nat \ {0}
    BY <1>2, <2>1, Places
  <2> QED BY <2>1, <2>2
<1>5. SubIfds(base) = BlockArrays(file, ifds[1], big, {TagSubIfds})
  <2>1. FirstIfd(file, base, big) \ {0} = {ifds[1]}
    BY <1>3, <1>4
  <2>2. SubIfds(base) = UNION {UNION {BlockArrays(file, ifd, isBig, {TagSubIfds}) :
                  ifd \in FirstIfd(file, base, isBig) \ {0}} : isBig \in {big}}
    BY <1>3 DEF SubIfds
  <2>3. SubIfds(base) = UNION {BlockArrays(file, ifd, big, {TagSubIfds}) :
                  ifd \in FirstIfd(file, base, big) \ {0}}
    BY <2>2
  <2> QED BY <2>1, <2>3
<1>6. CASE ~HasSubIfds(1)
  <2>1. TagSubIfds \notin Codes(Tags(1, big))
    BY <1>2, <1>3, <1>6, TagsAre
  <2>2. SubIfds(base) = {}
    BY <1>2, <1>5, <2>1, NoArray
  <2> QED BY <1>6, <2>2 DEF ReadSubIfds
<1>7. CASE HasSubIfds(1)
  <2> DEFINE n == ImageCount - 1
             held == [j \in 1..n |-> {Held(1)[ElemSlot(1, TagSubIfds, j)]}]
  <2>1. IsArray(1, TagSubIfds, n)
    BY <1>7 DEF IsArray
  <2>2. Codes(Tags(1, big)) \cap {TagSubIfds} = {TagSubIfds}
    BY <1>2, <1>3, <1>7, TagsAre
  <2>3. SubIfds(base) = {held}
    BY <1>2, <1>5, <2>1, <2>2, ArrayReads
  <2>4. ASSUME NEW j \in 1..n
        PROVE  Held(1)[ElemSlot(1, TagSubIfds, j)] = IF j + 1 <= Pointed THEN ifds[j + 1] ELSE 0
    <3> DEFINE x == [image |-> ImageCount + 1, step |-> j + 1]
    <3>1. j + 1 \in 1..ImageCount
      BY <1>1
    <3>2. x \in Steps /\ (x \in Made <=> j + 1 <= Pointed)
      BY <1>1, <3>1
    <3>3. x.image = ImageCount + 1 /\ x.step = j + 1 /\ ~IsHead(x)
      BY <1>1 DEF IsHead
    <3> HIDE DEF x
    <3>4. Target(x) = [ifd |-> 1, slot |-> ElemSlot(1, TagSubIfds, j)]
      <4>1. Target(x) = [ifd |-> 1, slot |-> ElemSlot(1, TagSubIfds, x.step - 1)]
        BY <1>1, <1>7, <3>3 DEF Target, HasSubIfds
      <4>2. x.step - 1 = j
        BY <3>3
      <4> QED BY <4>1, <4>2
    <3>5. Value(x) = ifds[j + 1]
      BY <1>1, <3>3 DEF Value
    <3>6. Held(1)[ElemSlot(1, TagSubIfds, j)] = IF x \in Made THEN Value(x) ELSE 0
      BY <3>2, <3>3, <3>4, TargetHeld
    <3> QED BY <3>2, <3>5, <3>6
  <2>5. ASSUME NEW j \in 1..n
        PROVE  TheOne({ReadIfd(file, ifd, big) : ifd \in held[j]}, <<Damaged>>) = Image(j + 1)
    <3> DEFINE v == IF j + 1 <= Pointed THEN ifds[j + 1] ELSE 0
    <3>1. held[j] = {v}
      BY <2>4
    <3> HIDE DEF held, v
    <3>2. {ReadIfd(file, ifd, big) : ifd \in held[j]} = {ReadIfd(file, v, big)}
      BY <3>1
    <3>3. TheOne({ReadIfd(file, v, big)}, <<Damaged>>) = ReadIfd(file, v, big)
      BY TheOneIs
    <3>4. j + 1 \in 1..ImageCount
      BY <1>1
    <3>5. ReadIfd(file, v, big) = Image(j + 1)
      BY <3>4, ImageReads, NoIfdAtZero DEF v, Image
    <3> QED BY <3>2, <3>3, <3>5
  <2>6. (CHOOSE p \in SubIfds(base) : TRUE) = held
    BY <2>3
  <2>7. SubIfds(base) # {}
    BY <2>3
  <2> DEFINE places == CHOOSE p \in SubIfds(base) : TRUE
  <2>8. ReadSubIfds(base) = [k \in DOMAIN places |->
             TheOne({ReadIfd(file, ifd, big) : ifd \in places[k]}, <<Damaged>>)]
    BY <2>7 DEF ReadSubIfds
  <2>9. DOMAIN held = 1..n
    OBVIOUS
  <2> HIDE DEF held, n
  <2>10. ReadSubIfds(base) = [k \in 1..n |-> Image(k + 1)]
    BY <2>5, <2>6, <2>8, <2>9
  <2> QED BY <1>7, <2>10 DEF n
<1> QED BY <1>6, <1>7

----------------------------------------------------------------------------
\* A block at its planned place is right or cannot be read; it can be once the spool is copied.
LEMMA BlockShown ==
  ASSUME Reading, NEW i \in 1..ImageCount, NEW b \in Blocks(i)
  PROVE  LET read == ReadBlock(file, planned[i].offsets[b], images[i][b].count)
         IN read \in {Given(i, b), Damaged} /\ (phase = "done" => read = Given(i, b))
<1>1. /\ CogInv /\ planned # <<>> /\ CogTypeOK /\ PlanInv /\ Accepted
      /\ SpoolInv /\ Solid(spool) /\ Solid(file) /\ PayloadsPlaced
      /\ phase = "done" => \A x \in spool : Moved(x) \in file
  BY DEF Reading, CogInv, CogTypeOK, SpoolInv, SinkInv, SinkSolid
<1> DEFINE off == planned[i].offsets[b]
           n == images[i][b].count
           found == Payloads(file, off, n)
<1>2. CASE images[i][b].sparse
  <2>1. off = 0
    BY <1>1, <1>2, PlanIs
  <2>2. Given(i, b) = Sparse
    BY <1>1, <1>2, GivenIs
  <2> QED BY <2>1, <2>2 DEF ReadBlock
<1>3. CASE ~images[i][b].sparse
  <2>1. Given(i, b) = Encoded(i, b)
    BY <1>1, <1>3, GivenIs
  <2>2. off \in Nat /\ off # 0 /\ n \in Nat \ {0} /\ DataStart \in Nat
    <3>1. off \in Nat /\ off - 4 \in Nat /\ n \in Nat \ {0} /\ DataStart \in Nat
      BY <1>1, <1>3, BlockSpooled
    <3> QED BY <3>1
  <2>3. PICK y \in spool : /\ Moved(y).off = off /\ Moved(y).len = n
                           /\ ~IsNumber(Moved(y)) /\ Moved(y).val = Encoded(i, b)
    BY <1>1, <1>3, BlockSpooled
  <2> HIDE DEF off, n
  <2>4. ASSUME NEW e \in file, e.off = off, e.len = n, ~IsNumber(e) PROVE e.val = Encoded(i, b)
    <3>1. PICK x \in spool : e = Moved(x)
      BY <1>1, <2>2, <2>4 DEF PayloadsPlaced
    <3>2. /\ x.off \in Nat /\ x.len \in Nat /\ DataStart + x.off = off /\ x.len = n
          /\ y.off \in Nat /\ y.len \in Nat /\ DataStart + y.off = off /\ y.len = n
      BY <1>1, <2>3, <2>4, <3>1, MovedIs
    <3>3. x.off = y.off /\ x.len = y.len
      BY <2>2, <3>2
    <3>4. x = y
      BY <1>1, <3>3, SamePlace
    <3> QED BY <2>3, <3>1, <3>4
  <2>5. found \subseteq {Encoded(i, b)}
    BY <2>4 DEF Payloads, IsNumber
  <2>6. phase = "done" => found = {Encoded(i, b)}
    <3> SUFFICES ASSUME phase = "done" PROVE found = {Encoded(i, b)}
      OBVIOUS
    <3>1. Moved(y) \in file
      BY <1>1
    <3> QED BY <1>1, <2>3, <3>1, PayloadsAre
  <2>7. ReadBlock(file, off, n) = TheOne(found, Damaged)
    BY <2>2 DEF ReadBlock
  <2> HIDE DEF found
  <2>8. found = {Encoded(i, b)} => ReadBlock(file, off, n) = Given(i, b)
    BY <2>1, <2>7, TheOneIs
  <2>9. found = {} => ReadBlock(file, off, n) = Damaged
    BY <2>7, TheOneOfNone
  <2>10. found = {} \/ found = {Encoded(i, b)}
    BY <2>5
  <2> QED BY <2>6, <2>8, <2>9, <2>10 DEF off, n
<1> QED BY <1>2, <1>3

\* The reader finds no image, or the images there are, each as far as its pointer goes.
Blank == IsBig(file, base) = {} \/ (FirstIfd(file, base, big) = {0} /\ IsBig(file, base) = {big})

LEMMA NothingRead ==
  ASSUME CogInv, Blank
  PROVE  ReadCog = <<>>
<1>1. ImageCount \in Nat /\ big \in BOOLEAN
  BY ImagesAre DEF CogInv, CogTypeOK
<1>2. ReadFile(file, base, ImageCount) = <<>>
  <2>1. CASE IsBig(file, base) = {}
    BY <2>1, ReadsNoFile
  <2>2. CASE FirstIfd(file, base, big) = {0} /\ IsBig(file, base) = {big}
    <3>1. ReadFile(file, base, ImageCount) = ReadChain(file, base, big, ImageCount)
      BY <1>1, <2>2, ReadsFile
    <3> QED BY <1>1, <2>2, <3>1, ReadsEmpty
  <2> QED BY <2>1, <2>2 DEF Blank
<1>3. SubIfds(base) = {}
  <2>1. \A isBig \in IsBig(file, base) : FirstIfd(file, base, isBig) \ {0} = {}
    BY DEF Blank
  <2>2. \A isBig \in IsBig(file, base) :
          UNION {BlockArrays(file, ifd, isBig, {TagSubIfds}) :
                   ifd \in FirstIfd(file, base, isBig) \ {0}} = {}
    BY <2>1
  <2> QED BY <2>2 DEF SubIfds
<1>4. ReadSubIfds(base) = <<>>
  BY <1>3 DEF ReadSubIfds
<1>5. <<>> \o <<>> = <<>>
  OBVIOUS
<1> QED BY <1>2, <1>4, <1>5 DEF ReadCog

LEMMA ImagesRead ==
  ASSUME Reading, HeaderOut, Pointed # 0
  PROVE  ReadCog = [i \in 1..Listed |-> Image(i)] /\ Listed \in 1..ImageCount
<1> DEFINE S == {Shows(k) : k \in 1..ImageCount} \cup {<<Damaged>>}
           s == [k \in 1..Chained |-> Shows(k)]
           n == Listed - Chained
           t == [j \in 1..n |-> Image(j + 1)]
           u == [i \in 1..Listed |-> Image(i)]
<1>1. /\ ImageCount \in Nat \ {0} /\ Pointed \in 0..ImageCount /\ Pointed # 0
      /\ Accepted /\ ImageCount = 1 + Len(Levels) /\ Levels \in Seq(Nat)
  <2>1. Accepted
    BY DEF Reading, CogInv, CogTypeOK
  <2> QED BY <2>1, PointedIs, ImagesAre, LevelsAre
<1>2. /\ Chained \in 1..ImageCount /\ Listed \in 1..ImageCount /\ n \in Nat /\ Chained \in Nat
      /\ Chained <= Pointed /\ Listed = Chained + n /\ (n # 0 => Chained = 1)
  BY <1>1 DEF Chained, Listed
<1>3. HasSubIfds(1) => n = ImageCount - 1
  BY DEF HasSubIfds, Chained, Listed
<1>4. ~HasSubIfds(1) => n = 0
  <2>1. Levels = <<>> => ImageCount = 1
    BY <1>1
  <2> QED BY <1>1, <2>1 DEF HasSubIfds, Chained, Listed
<1>5. ReadSubIfds(base) = t
  <2>1. CASE HasSubIfds(1)
    BY <1>3, <2>1, SubIfdsRead
  <2>2. CASE ~HasSubIfds(1)
    <3>1. ReadSubIfds(base) = <<>> /\ n = 0
      BY <1>4, <2>2, SubIfdsRead
    <3> HIDE DEF n
    <3>2. t = <<>>
      BY <3>1
    <3> QED BY <3>1, <3>2
  <2> QED BY <2>1, <2>2
<1>6. ReadCog = s \o t
  BY <1>5, ChainReads DEF ReadCog
<1> HIDE DEF n
<1>7. \A k \in 1..ImageCount : Shows(k) \in S /\ Image(k) \in S
  BY DEF Image
<1> HIDE DEF S
<1>8. s \in [1..Chained -> S]
  <2>1. \A k \in 1..Chained : k \in 1..ImageCount
    BY <1>1, <1>2
  <2> QED BY <1>7, <2>1
<1>9. t \in [1..n -> S]
  <2>1. \A j \in 1..n : j + 1 \in 1..ImageCount
    BY <1>1, <1>2
  <2> QED BY <1>7, <2>1
<1>10. u \in [1..Listed -> S]
  <2>1. \A k \in 1..Listed : k \in 1..ImageCount
    BY <1>1, <1>2
  <2> QED BY <1>7, <2>1
<1>11. \A k \in 1..Chained : u[k] = s[k]
  <2>1. ASSUME NEW k \in 1..Chained PROVE k \in 1..Listed /\ k <= Pointed
    BY <1>1, <1>2
  <2>2. \A k \in 1..Chained : Image(k) = Shows(k)
    BY <2>1 DEF Image
  <2> QED BY <2>1, <2>2
<1>12. \A j \in 1..n : u[Chained + j] = t[j]
  <2>1. ASSUME NEW j \in 1..n PROVE Chained + j \in 1..Listed /\ Chained + j = j + 1
    BY <1>1, <1>2
  <2> QED BY <2>1
<1> HIDE DEF s, t, u
<1>13. s \in Seq(S) /\ Len(s) = Chained
  BY <1>2, <1>8, FunctionIsSeq
<1>14. t \in Seq(S) /\ Len(t) = n
  BY <1>2, <1>9, FunctionIsSeq
<1>15. u \in Seq(S) /\ Len(u) = Listed
  <2>1. Listed \in Nat
    BY <1>1, <1>2
  <2> QED BY <1>10, <2>1, FunctionIsSeq
<1>16. s \o t = u
  BY <1>2, <1>11, <1>12, <1>13, <1>14, <1>15, Joined
<1> QED BY <1>2, <1>6, <1>16 DEF u

LEMMA CogReads ==
  ASSUME CogInv
  PROVE  \/ ReadCog = <<>> /\ ~(Reading /\ Pointed # 0 /\ HeaderOut)
         \/ /\ Reading /\ Pointed # 0 /\ HeaderOut
            /\ ReadCog = [i \in 1..Listed |-> Image(i)] /\ Listed \in 1..ImageCount
<1>1. /\ planned = <<>> => Unnumbered
      /\ planned # <<>> => Unnumbered \/ HeaderOut
      /\ Solid(file) /\ PlanInv
  BY DEF CogInv, SinkInv, SinkSolid
<1>2. ASSUME Unnumbered PROVE ReadCog = <<>> /\ ~HeaderOut
  <2>1. \A off, n : Nums(file, off, n) = {}
    BY <1>2 DEF Unnumbered, Nums, IsNumber
  <2>2. IsBig(file, base) = {}
    BY <2>1 DEF IsBig
  <2>3. ~HeaderOut
    <3> DEFINE e == Field(base, 4, IF big THEN BigVersion ELSE ClassicVersion)
    <3>1. IsNumber(e)
      BY FieldIs
    <3> HIDE DEF e
    <3>2. e \notin file
      BY <1>2, <3>1 DEF Unnumbered
    <3> QED BY <3>2 DEF HeaderOut, e
  <2>4. ReadCog = <<>>
    BY <2>2, NothingRead DEF Blank
  <2> QED BY <2>3, <2>4
<1>3. ASSUME HeaderOut, planned # <<>>, ~(Reading /\ Pointed # 0) PROVE ReadCog = <<>>
  <2>1. HeadStep \notin Made
    <3>1. CASE Reading
      BY <1>3, <3>1, PointedIs
    <3>2. CASE ~Reading
      <4>1. AtFirst
        BY <1>1, <1>3, <3>2 DEF Reading, PlanInv
      <4> QED BY <4>1, NoneMade
    <3> QED BY <3>1, <3>2
  <2>2. IsBig(file, base) = {big} /\ FirstIfd(file, base, big) = {0}
    BY <1>3, <2>1, HeaderReads
  <2> QED BY <2>2, NothingRead DEF Blank
<1>4. CASE Reading /\ Pointed # 0 /\ HeaderOut
  BY <1>4, ImagesRead
<1>5. CASE ~(Reading /\ Pointed # 0 /\ HeaderOut)
  <2>1. CASE Unnumbered
    BY <1>2, <1>5, <2>1
  <2>2. CASE ~Unnumbered
    BY <1>1, <1>3, <1>5, <2>2
  <2> QED BY <2>1, <2>2
<1> QED BY <1>4, <1>5

LEMMA MisleadsNever == CogInv => NeverMisleads
<1> SUFFICES ASSUME CogInv,
                    NEW i \in DOMAIN ReadCog, NEW b \in DOMAIN ReadCog[i], ReadCog[i][b] # Damaged
             PROVE  i <= ImageCount /\ b \in Blocks(i) /\ ReadCog[i][b] = Given(i, b)
  BY DEF NeverMisleads
<1>1. ReadCog # <<>>
  <2>1. DOMAIN <<>> = {}
    OBVIOUS
  <2> QED BY <2>1
<1>2. /\ Reading /\ Pointed # 0 /\ HeaderOut
      /\ ReadCog = [k \in 1..Listed |-> Image(k)] /\ Listed \in 1..ImageCount
  BY <1>1, CogReads
<1>3. ImageCount \in Nat
  BY <1>2, PointedIs
<1>4. i \in 1..Listed /\ ReadCog[i] = Image(i)
  BY <1>2
<1>5. i \in 1..ImageCount /\ i <= ImageCount
  BY <1>2, <1>3, <1>4
<1>6. i <= Pointed
  <2> SUFFICES ASSUME ~(i <= Pointed) PROVE FALSE
    OBVIOUS
  <2>1. ReadCog[i] = <<Damaged>>
    BY <1>4 DEF Image
  <2>2. \A c \in DOMAIN <<Damaged>> : <<Damaged>>[c] = Damaged
    OBVIOUS
  <2> QED BY <2>1, <2>2
<1>7. ReadCog[i] = Shows(i)
  BY <1>4, <1>6 DEF Image
<1>8. b \in Blocks(i)
  BY <1>7 DEF Shows
<1>9. ReadCog[i][b] = ReadBlock(file, planned[i].offsets[b], images[i][b].count)
  BY <1>7, <1>8 DEF Shows
<1> QED BY <1>2, <1>5, <1>8, <1>9, BlockShown

LEMMA ReadsBackAtEnd == CogInv => ReadsBack
<1> SUFFICES ASSUME CogInv, phase = "done"
             PROVE  ReadCog = [i \in 1..ImageCount |-> [b \in Blocks(i) |-> Given(i, b)]]
  BY DEF ReadsBack
<1>1. /\ planned # <<>> /\ Len(ifds) = ImageCount /\ HeaderOut /\ cur.image = ImageCount + 2
  BY DEF CogInv, PlanInv, SinkInv
<1>2. Reading
  BY <1>1 DEF Reading
<1>3. ImageCount \in Nat \ {0}
  BY <1>2, PointedIs
<1>4. Pointed = ImageCount /\ Pointed # 0
  BY <1>1, <1>3 DEF Pointed
<1>5. Listed = ImageCount
  BY <1>4 DEF Listed
<1>6. ReadCog = [i \in 1..ImageCount |-> Image(i)]
  BY <1>1, <1>2, <1>4, <1>5, CogReads
<1>7. ASSUME NEW i \in 1..ImageCount PROVE Image(i) = [b \in Blocks(i) |-> Given(i, b)]
  <2>1. Image(i) = Shows(i)
    BY <1>3, <1>4 DEF Image
  <2>2. \A b \in Blocks(i) :
          ReadBlock(file, planned[i].offsets[b], images[i][b].count) = Given(i, b)
    BY <1>2, BlockShown
  <2> QED BY <2>1, <2>2 DEF Shows
<1> QED BY <1>6, <1>7

----------------------------------------------------------------------------
(***************************************************************************)
(* A sink no longer than its own position, as a new file is, is short.     *)
(***************************************************************************)
LEMMA NewFilesAreShort ==
  ASSUME Init, len <= base
  PROVE  ShortSink
<1>1. Accepted /\ base \in Nat /\ len \in Nat
  <2>1. CogTypeOK /\ SinkInv
    BY PlanInit, SinkInit
  <2> QED BY <2>1 DEF CogTypeOK, SinkInv, SinkSolid
<1>2. ASSUME NEW isBig \in BOOLEAN PROVE len <= PlannedEnd(isBig)[ImageCount]
  <2> DEFINE end == PlannedEnd(isBig)
  <2>1. ImageCount \in Nat /\ 0 \in 0..ImageCount /\ ImageCount \in 0..ImageCount
    BY <1>1, ImagesAre
  <2>2. /\ base + HeaderLen(isBig) <= end[0] /\ end[0] \in Nat /\ end[ImageCount] \in Nat
        /\ end[0] <= end[ImageCount]
    BY <1>1, <2>1, EndsAre
  <2>3. HeaderLen(isBig) \in Nat
    BY SizesType
  <2> HIDE DEF end
  <2>4. len <= end[ImageCount]
    BY <1>1, <2>2, <2>3
  <2> QED BY <2>4 DEF end
<1> QED BY <1>2 DEF ShortSink

(***************************************************************************)
(* What the sink, the spool and the plan hold fits together in every state *)
(* of a writer whose sink is short to begin with.                          *)
(***************************************************************************)
THEOREM CogInvariant == Spec /\ ShortSink => []CogInv
<1>1. Init /\ ShortSink => CogInv
  BY CogInit
<1>2. CogInv /\ [Next]_vars => CogInv'
  BY CogStep
<1> QED BY <1>1, <1>2, PTL DEF Spec

(***************************************************************************)
(* GDAL's ghost area says of the file what is so: the IFDs come first, the *)
(* base tiles follow in order, each with its leader and its trailer.       *)
(***************************************************************************)
THEOREM GhostAreaIsTrue == Spec /\ ShortSink => []GhostAreaHolds
BY CogInvariant, GhostHolds, PTL

(***************************************************************************)
(* Wherever emit_cog breaks off, what can be read of the file is right.    *)
(***************************************************************************)
THEOREM CogNeverMisleads == Spec /\ ShortSink => []NeverMisleads
BY CogInvariant, MisleadsNever, PTL

(***************************************************************************)
(* A finished COG reads back: every image in the order of the levels, each *)
(* block made of all the base tiles it stands for.                         *)
(***************************************************************************)
THEOREM CogReadsBack == Spec /\ ShortSink => []ReadsBack
BY CogInvariant, ReadsBackAtEnd, PTL
=============================================================================
