--------------------------- MODULE TiffWriterProofs ---------------------------
(***************************************************************************)
(* Proofs about TiffWriter, for every set of images, payload lengths, sink *)
(* and limit: type correctness; no block's bytes are ever lost; finish()   *)
(* never fails late and chooses between classic and BigTIFF exactly; and   *)
(* the writer implements the contract of a TIFF file, what a reader makes  *)
(* of the bytes at every step included.                                    *)
(*                                                                         *)
(* The raster writers of GeoTiffWriter are proved about on top of it: each *)
(* of their steps is one of the writer's, and for every set of rasters     *)
(* they are refused blocks for missing bands only, agree with it on which  *)
(* tiles are written, and read back.                                       *)
(***************************************************************************)
EXTENDS GeoTiffWriter, SharedLemmas

\* A builder add_image accepts has blocks, and its tags form a sequence.
LEMMA BuilderFacts ==
  ASSUME NEW b \in {x \in Builders : Validate(x)}
  PROVE  /\ CheckedBlockCount(b) \in Nat \ {0}
         /\ \A isBig \in BOOLEAN : BuildTags(b, isBig) \in Seq(Tag)
<1>1. b \in Builder /\ Validate(b)
  BY BuildersAssumption
<1> QED BY <1>1, BlockCounts, BuiltTags

\* The tags of an image that was added form a sequence.
LEMMA TagsType ==
  ASSUME TypeOK, NEW i \in DOMAIN images, NEW isBig \in BOOLEAN
  PROVE  Tags(i, isBig) \in Seq(Tag)
<1>1. images[i] \in IfdState
  BY DEF TypeOK
<1>2. images[i].builder \in {x \in Builders : Validate(x)}
  BY <1>1 DEF IfdState
<1> QED BY <1>2, BuilderFacts DEF Tags

\* A write at the end of the sink keeps the sink well typed.
LEMMA AppendType ==
  ASSUME file \subseteq Extents, len \in Nat, NEW n \in Nat,
         NEW fields \in SUBSET Extents, AppendToSink(n, fields)
  PROVE  file' \subseteq Extents /\ len' \in Nat
BY DEF AppendToSink, Overwrite, Untouched

\* A number in the file is a well-formed extent.
LEMMA FieldsAreExtents == Fields \subseteq Extents
BY DEF Fields, Extents

\* So are the bytes of a block.
LEMMA DataFieldsType ==
  ASSUME NEW off \in Nat, NEW n \in Nat, NEW h \in Handles, NEW b \in Nat
  PROVE  DataFields(off, n, Payload(h, b)) \subseteq Extents
<1>1. Payload(h, b) \in [owner : {Self, Other}, image : Nat, block : Nat]
  BY DEF Payload, Handles
<1>2. n # 0 => Extent(off, n, Payload(h, b)) \in Extents
  BY <1>1 DEF Extent, Extents
<1> QED BY <1>2 DEF DataFields

\* Recording a block keeps the images well typed and their block counts unchanged.
LEMMA SetRecordType ==
  ASSUME TypeOK, NEW h, NEW b, Writable(h, b), NEW r \in Records, SetRecord(h, b, r)
  PROVE  /\ images' \in Seq(IfdState) /\ Len(images') = Len(images)
         /\ \A i \in DOMAIN images' :
              /\ Len(images'[i].records) = CheckedBlockCount(images'[i].builder)
              /\ images'[i].builder = images[i].builder
              /\ DOMAIN images'[i].records = DOMAIN images[i].records
              /\ \A k \in DOMAIN images[i].records :
                   images'[i].records[k] =
                     IF i = h.index /\ k = b THEN r ELSE images[i].records[k]
<1>1. images \in Seq(IfdState) /\ h.index \in DOMAIN images
  BY DEF TypeOK, Writable, ImageIndex
<1>2. \A i \in DOMAIN images : images[i] \in IfdState
  BY <1>1
<1>3. b \in DOMAIN images[h.index].records
  BY DEF Writable
<1> DEFINE new == WithRecord(images[h.index], b, r)
<1>4. images' = [images EXCEPT ![h.index] = new]
  BY DEF SetRecord
<1>5. /\ new \in IfdState
      /\ new.builder = images[h.index].builder
      /\ new.records = [images[h.index].records EXCEPT ![b] = r]
  <2>1. images[h.index].records \in Seq(Records)
    BY <1>1, <1>2 DEF IfdState
  <2>2. [images[h.index].records EXCEPT ![b] = r] \in Seq(Records)
    BY <1>3, <2>1
  <2>3. images[h.index].builder \in {x \in Builders : Validate(x)}
    BY <1>1, <1>2 DEF IfdState
  <2> QED BY <2>2, <2>3 DEF IfdState, WithRecord
<1>6. /\ DOMAIN new.records = DOMAIN images[h.index].records
      /\ Len(new.records) = Len(images[h.index].records)
      /\ \A k \in DOMAIN images[h.index].records :
           new.records[k] = IF k = b THEN r ELSE images[h.index].records[k]
  <2>1. images[h.index].records \in Seq(Records)
    BY <1>1, <1>2 DEF IfdState
  <2> QED BY <1>5, <2>1
<1> HIDE DEF new
<1>7. images' \in Seq(IfdState) /\ Len(images') = Len(images)
  BY <1>1, <1>4, <1>5
<1>8. \A i \in DOMAIN images' : i \in DOMAIN images
                               /\ images'[i] = IF i = h.index THEN new ELSE images[i]
  BY <1>1, <1>4
<1>9. \A i \in DOMAIN images :
        Len(images[i].records) = CheckedBlockCount(images[i].builder)
  BY DEF TypeOK
<1> QED BY <1>1, <1>5, <1>6, <1>7, <1>8, <1>9

\* A patch is a number written into an IFD already out, or into the header.
LEMMA PatchType ==
  ASSUME TypeOK, phase = "patch", cur.image \in DOMAIN images, NEW w \in Patch(cur.image, cur.step)
  PROVE  /\ w \in Fields
         /\ \/ \E k \in DOMAIN ifds : w.off >= ifds[k]
            \/ w.off >= headerOffset /\ w.off + w.len <= headerOffset + HeaderLen(big)
<1> DEFINE i == cur.image
           k == cur.step
           n == Len(images[i].records)
           b == images[i].builder
<1>1. /\ i \in DOMAIN ifds /\ i \in Nat \ {0} /\ ifds \in Seq(Nat) /\ Len(ifds) = Len(images)
      /\ images[i] \in IfdState /\ big \in BOOLEAN /\ headerOffset \in Nat /\ k \in Nat \ {0}
  BY DEF TypeOK
<1>2. n \in Nat /\ images[i].records \in Seq(Records)
  BY <1>1 DEF IfdState
<1>3. \A r \in Records : r.off \in Int /\ r.count \in Int
  BY DEF Records, NoRecord
<1>4. \A j \in 1..n : images[i].records[j].off \in Int /\ images[i].records[j].count \in Int
  BY <1>2, <1>3
<1>5. ASSUME NEW code, NEW a \in BlockArray(i, code)
      PROVE  a \in Nat /\ a >= ifds[i]
  <2>1. Tags(i, big) \in Seq(Tag) /\ ifds[i] \in Nat
    BY <1>1, TagsType
  <2> QED BY <1>1, <2>1, <1>5, PatchPlaces DEF BlockArray
<1>6. ASSUME NEW a \in Nat, a >= ifds[i], NEW j \in Nat \ {0}, NEW v \in Int
      PROVE  /\ Field(a + (j - 1) * Width(big), Width(big), v) \in Fields
             /\ Field(a + (j - 1) * Width(big), Width(big), v).off >= ifds[i]
  <2> DEFINE at == a + (j - 1) * Width(big)
  <2>1. at \in Nat /\ at >= a /\ ifds[i] \in Nat
    BY <1>1, ElementPlace
  <2>2. Width(big) \in Nat \ {0}
    BY <1>1, SizesType
  <2> HIDE DEF at
  <2>3. Field(at, Width(big), v) \in Fields
    BY <2>1, <2>2, FieldType
  <2>4. Field(at, Width(big), v).off = at
    BY DEF Field
  <2>5. at >= ifds[i]
    BY <2>1, <1>6
  <2> QED BY <2>3, <2>4, <2>5 DEF at
<1>7. CASE k <= n
  <2>1. PICK a \in BlockArray(i, OffsetsTagCode(b)) :
          w = Field(a + (k - 1) * Width(big), Width(big), images[i].records[k].off)
    BY <1>7 DEF Patch
  <2>2. images[i].records[k].off \in Int /\ a \in Nat /\ a >= ifds[i]
    BY <1>1, <1>4, <1>5, <1>7
  <2> QED BY <1>1, <1>6, <2>1, <2>2
<1>8. CASE k > n /\ k <= 2 * n
  <2>1. PICK a \in BlockArray(i, ByteCountsTagCode(b)) :
          w = Field(a + (k - n - 1) * Width(big), Width(big), images[i].records[k - n].count)
    BY <1>1, <1>2, <1>8 DEF Patch
  <2>2. k - n \in Nat \ {0} /\ k - n \in 1..n
    BY <1>1, <1>2, <1>8, SMTT(30)
  <2>3. images[i].records[k - n].count \in Int /\ a \in Nat /\ a >= ifds[i]
    BY <1>4, <1>5, <2>2
  <2> QED BY <1>1, <1>6, <2>1, <2>2, <2>3
<1>9. CASE k > 2 * n
  <2>1. w = Link(i)
    BY <1>1, <1>2, <1>9 DEF Patch
  <2>2. CASE i > 1
    <3>1. i - 1 \in DOMAIN ifds /\ i - 1 \in DOMAIN images /\ ifds[i - 1] \in Nat /\ ifds[i] \in Nat
      BY <1>1, <2>2
    <3>2. Tags(i - 1, big) \in Seq(Tag)
      BY <1>1, <3>1, TagsType
    <3>3. /\ NextPtrOffset(ifds[i - 1], Tags(i - 1, big), big) \in Nat
          /\ NextPtrOffset(ifds[i - 1], Tags(i - 1, big), big) >= ifds[i - 1]
      BY <1>1, <3>1, <3>2, PlacesType
    <3>4. NextPtrSize(big) \in Nat \ {0}
      BY <1>1, SizesType
    <3>5. w = Field(NextPtrOffset(ifds[i - 1], Tags(i - 1, big), big), NextPtrSize(big), ifds[i])
      BY <2>1, <2>2 DEF Link
    <3>6. w \in Fields
      BY <3>1, <3>3, <3>4, <3>5, FieldType
    <3>7. w.off = NextPtrOffset(ifds[i - 1], Tags(i - 1, big), big)
      BY <3>5 DEF Field
    <3> QED BY <3>1, <3>3, <3>6, <3>7
  <2>3. CASE i = 1
    <3>1. w = Field(headerOffset + (IF big THEN 8 ELSE 4), Width(big), ifds[1])
      BY <2>1, <2>3 DEF Link
    <3>2. ifds[1] \in Nat
      BY <1>1, <2>3
    <3>3. w \in Fields
      <4>1. headerOffset + (IF big THEN 8 ELSE 4) \in Nat
        BY <1>1
      <4>2. Width(big) \in Nat \ {0}
        BY <1>1, SizesType
      <4> QED BY <3>1, <3>2, <4>1, <4>2, FieldType
    <3>4. w.off >= headerOffset /\ w.off + w.len <= headerOffset + HeaderLen(big)
      BY <1>1, <3>1 DEF Field, Width, ElementWidth, HeaderLen
    <3> QED BY <3>3, <3>4
  <2> QED BY <1>1, <2>2, <2>3
<1> QED BY <1>1, <1>2, <1>7, <1>8, <1>9

\* The records the writer makes are well typed.
LEMMA RecordType ==
  ASSUME NEW off \in Nat, NEW n \in Nat
  PROVE  Record(off, n) \in Records /\ SparseRecord \in Records /\ NoRecord \in Records
BY DEF Record, SparseRecord, NoRecord, Records

\* The header is made of well-formed extents.
LEMMA HeaderFieldsType ==
  ASSUME TypeOK
  PROVE  HeaderFields \subseteq Fields
<1>1. headerOffset \in Nat /\ big \in BOOLEAN
  BY DEF TypeOK
<1>2. /\ Field(headerOffset, 4, BigVersion) \in Fields
      /\ Field(headerOffset + 4, 4, 8) \in Fields
      /\ Field(headerOffset + 8, 8, 0) \in Fields
      /\ Field(headerOffset, 4, ClassicVersion) \in Fields
      /\ Field(headerOffset + 4, 4, 0) \in Fields
  BY <1>1, FieldType DEF BigVersion, ClassicVersion
<1> QED BY <1>2 DEF HeaderFields

\* A new writer is well typed.
LEMMA TypeInit == Init => TypeOK
<1> SUFFICES ASSUME Init PROVE TypeOK
  OBVIOUS
<1>1. PICK s \in SinkStarts :
        LET end == s.pos + Reserved
        IN /\ headerOffset = s.pos
           /\ len = MaxOf(s.len, end)
           /\ file = {e \in {Field(s.pos + 4, 4, 0), Field(s.pos + 8, 8, 0)} :
                        e.off + e.len <= end}
                     \cup (IF s.len > end THEN {Extent(end, s.len - end, Existing)}
                           ELSE {})
  BY DEF Init
<1> DEFINE end == s.pos + Reserved
<1>2. s.pos \in Nat /\ s.len \in Nat
  BY SinkStartsAssumption
<1>3. end \in Nat
  BY <1>2 DEF Reserved, HeaderLen
<1>4. headerOffset \in Nat /\ len \in Nat
  BY <1>1, <1>2, <1>3 DEF MaxOf
<1>5. file \subseteq Extents
  <2>1. Field(s.pos + 4, 4, 0) \in Extents /\ Field(s.pos + 8, 8, 0) \in Extents
    BY <1>2, FieldType, FieldsAreExtents
  <2>2. s.len > end => Extent(end, s.len - end, Existing) \in Extents
    BY <1>2, <1>3 DEF Extent, Extents
  <2> HIDE DEF end
  <2> QED BY <1>1, <2>1, <2>2 DEF end
<1>6. /\ images = <<>> /\ ifds = <<>> /\ cur = [image |-> 1, step |-> 1]
      /\ phase = "open" /\ error = "none" /\ big = FALSE /\ prefixes = 0 /\ faults = 0
      /\ variant \in Variants
  BY DEF Init
<1>7. images \in Seq(IfdState) /\ ifds \in Seq(Nat) /\ Len(ifds) = Len(images)
      /\ DOMAIN images = {} /\ Len(images) \in Nat
  BY <1>6
<1>8. cur \in [image : Nat \ {0}, step : Nat \ {0}]
  BY <1>6
<1>9. phase \in Phases /\ error \in Errors
  BY <1>6 DEF Phases, Errors
<1>10. \A i \in DOMAIN images :
         Len(images[i].records) = CheckedBlockCount(images[i].builder)
  BY <1>7
<1>11. Len(ifds) <= Len(images)
  BY <1>7
<1> QED BY <1>4, <1>5, <1>6, <1>7, <1>8, <1>9, <1>10, <1>11 DEF TypeOK

\* Every step keeps the writer well typed.
LEMMA TypeStep ==
  ASSUME TypeOK, [Next]_vars
  PROVE  TypeOK'
<1> USE DEF options, sink, finishing
<1>0. /\ file \subseteq Extents /\ len \in Nat /\ images \in Seq(IfdState)
      /\ headerOffset \in Nat /\ big \in BOOLEAN
  BY DEF TypeOK
<1>1. ASSUME NEW b \in Builders, AddImage(b) PROVE TypeOK'
  <2> DEFINE n == CheckedBlockCount(b)
             new == [builder |-> b, records |-> [k \in 1..n |-> NoRecord]]
  <2>1. n \in Nat \ {0}
    BY <1>1, BuilderFacts DEF AddImage
  <2>2. [k \in 1..n |-> NoRecord] \in Seq(Records) /\ Len([k \in 1..n |-> NoRecord]) = n
    BY <2>1 DEF Records
  <2>3. new \in IfdState
    BY <1>1, <2>2 DEF IfdState, AddImage
  <2>4. images' = Append(images, new)
    BY <1>1 DEF AddImage
  <2>5. images' \in Seq(IfdState) /\ Len(images') = Len(images) + 1
    BY <1>0, <2>3, <2>4
  <2>6. \A i \in DOMAIN images' :
          Len(images'[i].records) = CheckedBlockCount(images'[i].builder)
    <3> HIDE DEF n
    <3>1. \A i \in DOMAIN images' :
            images'[i] = IF i = Len(images) + 1 THEN new ELSE images[i]
      BY <1>0, <2>4
    <3>2. \A i \in DOMAIN images' : i # Len(images) + 1 => i \in DOMAIN images
      BY <1>0, <2>4
    <3>3. Len(new.records) = CheckedBlockCount(new.builder)
      BY <2>2 DEF n
    <3> HIDE DEF new
    <3> QED BY <3>1, <3>2, <3>3 DEF TypeOK
  <2>7. /\ phase' = "open" /\ ifds' = ifds
        /\ UNCHANGED <<variant, headerOffset, file, len, error, big, cur, prefixes, faults>>
    BY <1>1 DEF AddImage
  <2>8. Len(ifds') <= Len(images')
    <3>1. Len(ifds) \in Nat /\ Len(images) \in Nat /\ Len(ifds) <= Len(images)
      BY DEF TypeOK
    <3> QED BY <2>5, <2>7, <3>1
  <2>9. phase' \in Phases /\ ~(phase' \in {"patch", "done"})
    BY <2>7 DEF Phases
  <2> HIDE DEF n, new
  <2> QED BY <2>5, <2>6, <2>7, <2>8, <2>9 DEF TypeOK
<1>2. ASSUME NEW n \in PrefixLens, WriteHeaderPrefix(n) PROVE TypeOK'
  <2>1. file' \subseteq Extents /\ len' \in Nat
    BY <1>0, <1>2, AppendType, LensAssumption DEF WriteHeaderPrefix
  <2> QED BY <1>2, <2>1 DEF WriteHeaderPrefix, TypeOK
<1>3. ASSUME NEW h \in Handles, NEW b \in 1..(MaxBlocks + 1), WriteBlockSparse(h, b)
      PROVE  TypeOK'
  <2>1. /\ images' \in Seq(IfdState) /\ Len(images') = Len(images)
        /\ \A i \in DOMAIN images' :
              Len(images'[i].records) = CheckedBlockCount(images'[i].builder)
    BY <1>3, SetRecordType, RecordType DEF WriteBlockSparse
  <2> QED BY <1>3, <2>1 DEF WriteBlockSparse, TypeOK
<1>4. ASSUME NEW h \in Handles, NEW b \in 1..(MaxBlocks + 1), NEW n \in PayloadLens,
             WriteBlockRaw(h, b, n)
      PROVE  TypeOK'
  <2>1. n \in Nat /\ b \in Nat
    BY <1>4, LensAssumption
  <2>2. /\ images' \in Seq(IfdState) /\ Len(images') = Len(images)
        /\ \A i \in DOMAIN images' :
              Len(images'[i].records) = CheckedBlockCount(images'[i].builder)
    BY <1>0, <1>4, <2>1, SetRecordType, RecordType DEF WriteBlockRaw
  <2>3. file' \subseteq Extents /\ len' \in Nat
    BY <1>0, <1>4, <2>1, DataFieldsType, AppendType DEF WriteBlockRaw
  <2> QED BY <1>4, <2>2, <2>3 DEF WriteBlockRaw, TypeOK
<1>5. ASSUME NEW h \in Handles, NEW b \in 1..(MaxBlocks + 1), NEW n \in PayloadLens,
             NEW k \in 0..(n - 1), WriteBlockFails(h, b, n, k)
      PROVE  TypeOK'
  <2>1. k \in Nat
    BY <1>5, LensAssumption
  <2>2. file' \subseteq Extents /\ len' \in Nat
    BY <1>0, <1>5, <2>1, AppendType DEF WriteBlockFails
  <2> QED BY <1>5, <2>2 DEF WriteBlockFails, TypeOK
<1>6. ASSUME NEW h \in Handles, NEW b \in 1..(MaxBlocks + 1), NEW n \in PayloadLens,
             NEW pre \in WrapLens, NEW suf \in WrapLens,
             WriteBlockRawSegmented(h, b, pre, n, suf)
      PROVE  TypeOK'
  <2>1. n \in Nat /\ b \in Nat /\ pre \in Nat /\ suf \in Nat
    BY <1>6, LensAssumption
  <2>2. /\ images' \in Seq(IfdState) /\ Len(images') = Len(images)
        /\ \A i \in DOMAIN images' :
              Len(images'[i].records) = CheckedBlockCount(images'[i].builder)
    BY <1>0, <1>6, <2>1, SetRecordType, RecordType DEF WriteBlockRawSegmented
  <2>3. len + pre \in Nat /\ pre + n + suf \in Nat
    BY <1>0, <2>1
  <2>4. file' \subseteq Extents /\ len' \in Nat
    BY <1>0, <1>6, <2>1, <2>3, DataFieldsType, AppendType DEF WriteBlockRawSegmented
  <2> QED BY <1>6, <2>2, <2>4 DEF WriteBlockRawSegmented, TypeOK
<1>7. CASE Finish
  BY <1>7 DEF Finish, Fail, Continue, TypeOK, Phases, Errors
<1>8. CASE WriteHeader
  <2>1. file' \subseteq Extents
    BY <1>0, <1>8, HeaderFieldsType, FieldsAreExtents DEF WriteHeader, Overwrite, Untouched
  <2>2. len' \in Nat
    BY <1>0, <1>8, SizesType DEF WriteHeader, MaxOf
  <2> QED BY <1>8, <2>1, <2>2 DEF WriteHeader, Continue, TypeOK, Phases
<1>9. CASE WriteIfd
  <2> DEFINE i == Len(ifds) + 1
             tags == Tags(i, big)
  <2>1. i \in DOMAIN images /\ tags \in Seq(Tag)
    BY <1>0, <1>9, TagsType DEF WriteIfd
  <2>2. CASE Fail("unsorted") /\ UNCHANGED sink
    BY <1>9, <2>2 DEF WriteIfd, Fail, TypeOK, Phases, Errors
  <2>3. ASSUME Fail("overflow"), NEW first \in Overflowing(len, tags, big, Limit),
               AppendToSink(EntryOffset(0, big, first) + ValueField(big), {})
        PROVE  TypeOK'
    <3>1. first \in DOMAIN tags
      BY <2>3 DEF Overflowing
    <3>2. EntryOffset(0, big, first) \in Nat /\ ValueField(big) \in Nat
      BY <1>0, <2>1, <3>1, PlacesType, SizesType
    <3>3. EntryOffset(0, big, first) + ValueField(big) \in Nat
      BY <3>2
    <3>4. file' \subseteq Extents /\ len' \in Nat
      <4> HIDE DEF tags
      <4> QED BY <1>0, <2>3, <3>3, AppendType
    <3> QED BY <1>9, <2>3, <3>4 DEF WriteIfd, Fail, TypeOK, Phases, Errors
  <2>4. CASE /\ AppendToSink(IfdEnd(0, tags, big), IfdFields(len, tags, big))
             /\ ifds' = Append(ifds, len)
             /\ UNCHANGED <<phase, error, big, cur>>
    <3>1. IfdEnd(0, tags, big) \in Nat
      BY <1>0, <2>1, PlacesType
    <3>2. IfdFields(len, tags, big) \subseteq Extents
      BY <1>0, <2>1, IfdFieldsType, FieldsAreExtents
    <3>3. file' \subseteq Extents /\ len' \in Nat
      <4> HIDE DEF tags
      <4> QED BY <1>0, <2>4, <3>1, <3>2, AppendType
    <3>4. ifds' \in Seq(Nat) /\ Len(ifds') = Len(ifds) + 1 /\ Len(ifds') <= Len(images)
      BY <1>0, <2>1, <2>4 DEF TypeOK
    <3>5. phase = "ifds"
      BY <1>9 DEF WriteIfd
    <3> QED BY <1>9, <2>4, <3>3, <3>4, <3>5 DEF WriteIfd, TypeOK
  <2> QED BY <1>9, <2>2, <2>3, <2>4 DEF WriteIfd
<1>10. CASE IfdsWritten
  BY <1>10 DEF IfdsWritten, Continue, TypeOK, Phases
<1>11. CASE WritePatch
  <2>1. CASE Fail("overflow") /\ UNCHANGED sink
    BY <1>11, <2>1 DEF WritePatch, Fail, TypeOK, Phases, Errors
  <2>2. cur \in [image : Nat \ {0}, step : Nat \ {0}]
    BY DEF TypeOK
  <2>3. ASSUME cur' = IF cur.step < PatchCount(cur.image) THEN [cur EXCEPT !.step = @ + 1]
                      ELSE [image |-> cur.image + 1, step |-> 1]
        PROVE  cur' \in [image : Nat \ {0}, step : Nat \ {0}]
    BY <2>2, <2>3
  <2>4. CASE UNCHANGED sink /\ UNCHANGED <<phase, error, big, ifds>>
    BY <1>11, <2>3, <2>4, <2>1 DEF WritePatch, TypeOK
  <2>5. ASSUME NEW w \in Patch(cur.image, cur.step),
               file' = Overwrite(file, w.off, w.len, {w}), len' = MaxOf(len, w.off + w.len),
               UNCHANGED <<phase, error, big, ifds>>
        PROVE  TypeOK'
    <3>1. w \in Fields
      BY <1>11, <2>5, PatchType DEF WritePatch
    <3>2. w \in Extents /\ w.off \in Nat /\ w.len \in Nat
      BY <3>1, FieldsAreExtents DEF Fields
    <3>3. file' \subseteq Extents /\ len' \in Nat
      BY <1>0, <2>5, <3>2 DEF Overwrite, Untouched, MaxOf
    <3> QED BY <1>11, <2>1, <2>3, <2>5, <3>3 DEF WritePatch, TypeOK
  <2> QED BY <1>11, <2>1, <2>4, <2>5 DEF WritePatch
<1>12. CASE Finished
  BY <1>12 DEF Finished, Continue, TypeOK, Phases
<1>13. CASE FinishFails
  <2>1. file' \subseteq Extents /\ len' \in Nat
    <3>1. CASE UNCHANGED sink
      BY <1>0, <3>1
    <3>2. ASSUME NEW w \in HeaderFields, file' = Overwrite(file, w.off, w.len, {w}), UNCHANGED len
          PROVE  file' \subseteq Extents /\ len' \in Nat
      BY <1>0, <3>2, HeaderFieldsType, FieldsAreExtents DEF Overwrite, Untouched
    <3>3. ASSUME Len(ifds) < Len(images),
                 NEW k \in {1, IfdEnd(0, Tags(Len(ifds) + 1, big), big) - 1}, AppendToSink(k, {})
          PROVE  file' \subseteq Extents /\ len' \in Nat
      <4>1. Len(ifds) + 1 \in DOMAIN images
        BY <1>0, <3>3 DEF TypeOK
      <4>2. Tags(Len(ifds) + 1, big) \in Seq(Tag)
        BY <1>0, <4>1, TagsType
      <4>3. k \in Nat
        BY <1>0, <4>2, <3>3, IfdEndPositive
      <4> QED BY <1>0, <3>3, <4>3, AppendType
    <3> QED BY <1>13, <3>1, <3>2, <3>3 DEF FinishFails
  <2> QED BY <1>13, <2>1 DEF FinishFails, Fail, TypeOK, Phases, Errors
<1>14. CASE UNCHANGED vars
  BY <1>14 DEF vars, TypeOK
<1> QED
  <2>1. CASE Next
    BY <2>1, <1>1, <1>2, <1>3, <1>4, <1>5, <1>6, <1>7, <1>8, <1>9, <1>10, <1>11, <1>12, <1>13
       DEF Next, WriteBlock
  <2> QED BY <2>1, <1>14

(***************************************************************************)
(* Every state of the writer is well typed: images keep one record per     *)
(* block, the sink holds well-formed extents, and patching starts only     *)
(* when each image has its IFD.                                            *)
(***************************************************************************)
THEOREM TypeCorrect == Spec => []TypeOK
<1>1. Init => TypeOK
  BY TypeInit
<1>2. TypeOK /\ [Next]_vars => TypeOK'
  BY TypeStep
<1> QED BY <1>1, <1>2, PTL DEF Spec

-----------------------------------------------------------------------------
(***************************************************************************)
(* The inductive invariant behind PayloadsIntact: bytes that are not the   *)
(* writer's own numbers lie behind the reserved header, inside the sink    *)
(* and, once there are IFDs, before every one of them.  All that finish()  *)
(* writes lands in the header, at the end of the sink or inside an IFD.    *)
(***************************************************************************)
IsData(e) == DOMAIN e.val # {"num"}
DataStart == headerOffset + Reserved

Placed ==
  /\ len >= DataStart
  /\ big => variant # "Classic"
  /\ phase = "open" => ifds = <<>>
  /\ \A e \in file : IsData(e) => e.off >= DataStart /\ e.off + e.len <= len
  /\ \A i \in DOMAIN ifds : \A e \in file : IsData(e) => e.off + e.len <= ifds[i]

\* The inductive invariant behind the theorems below.
WriterInv == TypeOK /\ Placed /\ PayloadsIntact

DataKept == \A e \in file : IsData(e) => e \in file'
NoNewData == \A e \in file' : IsData(e) => e \in file

\* A number is not data.
LEMMA FieldsAreNotData == \A e \in Fields : ~IsData(e)
BY DEF Fields, IsData

\* The header finally written fits the reserved place, whichever variant is chosen.
LEMMA ReservedCoversHeader ==
  ASSUME TypeOK, Placed
  PROVE  /\ DataStart \in Nat /\ headerOffset \in Nat
         /\ headerOffset + HeaderLen(big) <= DataStart
         /\ HeaderLen(big) \in Nat
BY DEF TypeOK, Placed, DataStart, Reserved, HeaderLen

\* Appending destroys no data.
LEMMA AppendKeeps ==
  ASSUME TypeOK, Placed, NEW n \in Nat, NEW fields, AppendToSink(n, fields)
  PROVE  /\ DataKept /\ len' = len + n
         /\ \A e \in file' : e \in file \/ e \in fields
<1>1. \A e \in file : IsData(e) => e.off \in Nat /\ e.len \in Nat /\ e.off + e.len <= len
  BY DEF TypeOK, Extents, Placed
<1>2. \A e \in file : IsData(e) => e \in Untouched(file, len, n)
  BY <1>1 DEF Untouched
<1> QED BY <1>2 DEF AppendToSink, Overwrite, DataKept, Untouched

\* So does writing a field into the header or into an IFD.
LEMMA FieldKeeps ==
  ASSUME TypeOK, Placed, NEW w \in Fields,
         \/ \E k \in DOMAIN ifds : w.off >= ifds[k]
         \/ w.off >= headerOffset /\ w.off + w.len <= headerOffset + HeaderLen(big),
         file' = Overwrite(file, w.off, w.len, {w})
  PROVE  DataKept /\ NoNewData
<1>1. w.off \in Nat /\ w.len \in Nat
  BY DEF Fields
<1>2. ~IsData(w)
  BY FieldsAreNotData
<1>3. ASSUME NEW e \in file, IsData(e) PROVE e \in Untouched(file, w.off, w.len)
  <2>1. e.off \in Nat /\ e.len \in Nat /\ e.off >= DataStart
    BY <1>3 DEF TypeOK, Extents, Placed
  <2>2. CASE \E k \in DOMAIN ifds : w.off >= ifds[k]
    <3>1. PICK k \in DOMAIN ifds : w.off >= ifds[k]
      BY <2>2
    <3>2. ifds[k] \in Nat /\ e.off + e.len <= ifds[k]
      BY <1>3, <3>1 DEF TypeOK, Placed
    <3> QED BY <1>1, <2>1, <3>1, <3>2 DEF Untouched
  <2>3. CASE w.off >= headerOffset /\ w.off + w.len <= headerOffset + HeaderLen(big)
    BY <1>1, <2>1, <2>3, ReservedCoversHeader DEF Untouched
  <2> QED BY <2>2, <2>3
<1> QED BY <1>2, <1>3 DEF Overwrite, Untouched, DataKept, NoNewData

\* A step that adds no data, and IFDs only at the end of the sink, keeps Placed.
LEMMA PlacedKept ==
  ASSUME TypeOK, Placed, NoNewData, len' \in Nat, len' >= len,
         UNCHANGED <<variant, headerOffset>>,
         big' => variant # "Classic", phase' = "open" => ifds' = <<>>,
         ifds' = ifds \/ ifds' = Append(ifds, len)
  PROVE  Placed'
<1>1. /\ DataStart' = DataStart /\ DataStart \in Nat /\ len \in Nat /\ len >= DataStart
      /\ ifds \in Seq(Nat)
  BY ReservedCoversHeader DEF DataStart, Reserved, TypeOK, Placed
<1>2. \A e \in file : e.off \in Nat /\ e.len \in Nat
  BY DEF TypeOK, Extents
<1>3. ASSUME NEW e \in file', IsData(e)
      PROVE  e \in file /\ e.off >= DataStart /\ e.off + e.len <= len
  BY <1>3 DEF NoNewData, Placed
<1>4. ASSUME NEW e \in file', IsData(e)
      PROVE  e.off >= DataStart' /\ e.off + e.len <= len'
  BY <1>1, <1>2, <1>3, <1>4
<1>5. ASSUME NEW k \in DOMAIN ifds', NEW e \in file', IsData(e)
      PROVE  e.off + e.len <= ifds'[k]
  <2>1. CASE k \in DOMAIN ifds
    <3>1. ifds'[k] = ifds[k]
      BY <1>1, <2>1, SMTT(30)
    <3> QED BY <1>3, <1>5, <2>1, <3>1 DEF Placed
  <2>2. CASE k \notin DOMAIN ifds
    <3>1. ifds'[k] = len
      BY <1>1, <1>5, <2>2
    <3> QED BY <1>3, <1>5, <3>1
  <2> QED BY <2>1, <2>2
<1> QED BY <1>1, <1>4, <1>5 DEF Placed

\* So does a block written to the end of the sink while the writer is open.
LEMMA PlacedAppend ==
  ASSUME TypeOK, Placed, phase = "open",
         UNCHANGED <<variant, headerOffset, phase, big, ifds>>,
         NEW n \in Nat, NEW fields, AppendToSink(n, fields),
         \A e \in fields : e.off \in Nat /\ e.len \in Nat /\ e.off >= len /\ e.off + e.len <= len + n
  PROVE  Placed' /\ DataKept
<1>1. /\ DataKept /\ len' = len + n
      /\ \A e \in file' : e \in file \/ e \in fields
  BY AppendKeeps
<1>2. /\ DataStart' = DataStart /\ DataStart \in Nat /\ len \in Nat /\ len >= DataStart
      /\ ifds' = <<>> /\ DOMAIN ifds' = {}
  BY ReservedCoversHeader DEF DataStart, Reserved, TypeOK, Placed
<1>3. \A e \in file : e.off \in Nat /\ e.len \in Nat
  BY DEF TypeOK, Extents
<1>4. ASSUME NEW e \in file', IsData(e)
      PROVE  e.off >= DataStart' /\ e.off + e.len <= len'
  <2>1. CASE e \in file
    BY <1>1, <1>2, <1>3, <1>4, <2>1 DEF Placed
  <2>2. CASE e \in fields
    BY <1>1, <1>2, <2>2
  <2> QED BY <1>1, <2>1, <2>2
<1> QED BY <1>1, <1>2, <1>4 DEF Placed

\* The fields of an append that holds numbers only, and of one that holds a block.
LEMMA BlockFieldPlace ==
  ASSUME NEW at \in Nat, NEW pre \in Nat, NEW n \in Nat, NEW suf \in Nat, NEW val,
         NEW e \in DataFields(at + pre, n, val)
  PROVE  /\ e.off \in Nat /\ e.len \in Nat /\ e.off >= at
         /\ e.off + e.len <= at + (pre + n + suf)
BY DEF DataFields, Extent

\* A new writer satisfies Placed.
LEMMA PlacedInit == Init => Placed
<1> SUFFICES ASSUME Init PROVE Placed
  OBVIOUS
<1>1. PICK s \in SinkStarts :
        LET end == s.pos + Reserved
        IN /\ headerOffset = s.pos
           /\ len = MaxOf(s.len, end)
           /\ file = {e \in {Field(s.pos + 4, 4, 0), Field(s.pos + 8, 8, 0)} :
                        e.off + e.len <= end}
                     \cup (IF s.len > end THEN {Extent(end, s.len - end, Existing)}
                           ELSE {})
  BY DEF Init
<1> DEFINE end == s.pos + Reserved
<1>2. s.pos \in Nat /\ s.len \in Nat /\ end \in Nat
  BY SinkStartsAssumption DEF Reserved, HeaderLen
<1>3. len >= end /\ len \in Nat /\ DataStart = end /\ (s.len > end => len = s.len)
  BY <1>1, <1>2 DEF MaxOf, DataStart
<1>4. ~IsData(Field(s.pos + 4, 4, 0)) /\ ~IsData(Field(s.pos + 8, 8, 0))
  BY DEF IsData, Field
<1> HIDE DEF end
<1>5. ASSUME NEW e \in file, IsData(e)
      PROVE  e.off >= DataStart /\ e.off + e.len <= len
  <2>1. s.len > end /\ e = Extent(end, s.len - end, Existing)
    BY <1>1, <1>4, <1>5 DEF end
  <2> QED BY <1>2, <1>3, <2>1 DEF Extent
<1>6. ifds = <<>> /\ DOMAIN ifds = {} /\ big = FALSE /\ phase = "open"
  BY DEF Init
<1> QED BY <1>3, <1>5, <1>6 DEF Placed

\* Every step keeps Placed and destroys no data.
LEMMA PlacedStep ==
  ASSUME TypeOK, TypeOK', Placed, [Next]_vars
  PROVE  Placed' /\ DataKept
<1> USE DEF options, sink, finishing
<1>0. /\ len \in Nat /\ len' \in Nat /\ ifds \in Seq(Nat) /\ big \in BOOLEAN
      /\ headerOffset \in Nat /\ images \in Seq(IfdState)
  BY DEF TypeOK
<1>a. ASSUME UNCHANGED <<variant, headerOffset, file, len, ifds>>,
             big' => variant # "Classic", phase' = "open" => phase = "open"
      PROVE  Placed' /\ DataKept
  <2>1. NoNewData /\ DataKept
    BY <1>a DEF NoNewData, DataKept
  <2>2. phase' = "open" => ifds' = <<>>
    BY <1>a DEF Placed
  <2> QED BY <1>0, <1>a, <2>1, <2>2, PlacedKept
<1>b. big => variant # "Classic"
  BY DEF Placed
<1>c. \A fields : fields = {} =>
        \A e \in fields : e.off \in Nat /\ e.len \in Nat /\ e.off >= len /\ e.off + e.len <= len
  OBVIOUS
<1>1. ASSUME NEW b \in Builders, AddImage(b) PROVE Placed' /\ DataKept
  BY <1>a, <1>b, <1>1 DEF AddImage
<1>2. ASSUME NEW n \in PrefixLens, WriteHeaderPrefix(n) PROVE Placed' /\ DataKept
  BY <1>2, PlacedAppend, LensAssumption DEF WriteHeaderPrefix
<1>3. ASSUME NEW h \in Handles, NEW b \in 1..(MaxBlocks + 1), WriteBlockSparse(h, b)
      PROVE  Placed' /\ DataKept
  BY <1>a, <1>b, <1>3 DEF WriteBlockSparse
<1>4. ASSUME NEW h \in Handles, NEW b \in 1..(MaxBlocks + 1), NEW n \in PayloadLens,
             WriteBlockRaw(h, b, n)
      PROVE  Placed' /\ DataKept
  <2>1. n \in Nat
    BY LensAssumption
  <2>2. \A e \in DataFields(len, n, Payload(h, b)) :
          /\ e.off \in Nat /\ e.len \in Nat /\ e.off >= len /\ e.off + e.len <= len + n
    BY <1>0, <2>1 DEF DataFields, Extent
  <2> QED BY <1>4, <2>1, <2>2, PlacedAppend DEF WriteBlockRaw
<1>5. ASSUME NEW h \in Handles, NEW b \in 1..(MaxBlocks + 1), NEW n \in PayloadLens,
             NEW k \in 0..(n - 1), WriteBlockFails(h, b, n, k)
      PROVE  Placed' /\ DataKept
  <2>1. k \in Nat
    BY LensAssumption
  <2> QED BY <1>5, <2>1, PlacedAppend DEF WriteBlockFails
<1>6. ASSUME NEW h \in Handles, NEW b \in 1..(MaxBlocks + 1), NEW n \in PayloadLens,
             NEW pre \in WrapLens, NEW suf \in WrapLens,
             WriteBlockRawSegmented(h, b, pre, n, suf)
      PROVE  Placed' /\ DataKept
  <2>1. n \in Nat /\ pre \in Nat /\ suf \in Nat /\ pre + n + suf \in Nat
    BY LensAssumption
  <2>2. \A e \in DataFields(len + pre, n, Payload(h, b)) :
          /\ e.off \in Nat /\ e.len \in Nat /\ e.off >= len
          /\ e.off + e.len <= len + (pre + n + suf)
    BY <1>0, <2>1, BlockFieldPlace
  <2> QED BY <1>6, <2>1, <2>2, PlacedAppend DEF WriteBlockRawSegmented
<1>7. CASE Finish
  BY <1>a, <1>b, <1>7 DEF Finish, Fail, Continue
<1>8. CASE WriteHeader
  <2>1. HeaderLen(big) \in Nat /\ headerOffset + HeaderLen(big) <= len
    BY <1>0, ReservedCoversHeader DEF Placed
  <2>2. file' = Overwrite(file, headerOffset, HeaderLen(big), HeaderFields) /\ len' = len
    BY <1>0, <1>8, <2>1 DEF WriteHeader, MaxOf
  <2>3. ASSUME NEW e \in file, IsData(e)
        PROVE  e \in Untouched(file, headerOffset, HeaderLen(big))
    <3>1. e.off \in Nat
      BY <2>3 DEF TypeOK, Extents
    <3>2. e.off >= DataStart
      BY <2>3 DEF Placed
    <3> QED BY <1>0, <3>1, <3>2, ReservedCoversHeader DEF Untouched
  <2>4. \A e \in HeaderFields : ~IsData(e)
    BY HeaderFieldsType, FieldsAreNotData
  <2>5. DataKept /\ NoNewData
    BY <2>2, <2>3, <2>4 DEF Overwrite, Untouched, DataKept, NoNewData
  <2>6. phase' # "open" /\ UNCHANGED <<variant, headerOffset, big, ifds>>
    BY <1>8 DEF WriteHeader, Continue
  <2> QED BY <1>0, <1>b, <2>2, <2>5, <2>6, PlacedKept
<1>9. CASE WriteIfd
  <2> DEFINE i == Len(ifds) + 1
             tags == Tags(i, big)
  <2>1. i \in DOMAIN images /\ tags \in Seq(Tag) /\ phase = "ifds"
    BY <1>0, <1>9, TagsType DEF WriteIfd
  <2>2. CASE Fail("unsorted") /\ UNCHANGED sink
    BY <1>9, <1>a, <1>b, <2>2 DEF WriteIfd, Fail
  <2>3. ASSUME Fail("overflow"), NEW first \in Overflowing(len, tags, big, Limit),
               AppendToSink(EntryOffset(0, big, first) + ValueField(big), {})
        PROVE  Placed' /\ DataKept
    <3>1. first \in DOMAIN tags
      BY <2>3 DEF Overflowing
    <3>2. EntryOffset(0, big, first) + ValueField(big) \in Nat
      <4>1. EntryOffset(0, big, first) \in Nat /\ ValueField(big) \in Nat
        BY <1>0, <2>1, <3>1, PlacesType, SizesType
      <4> QED BY <4>1
    <3> HIDE DEF tags
    <3>3. DataKept /\ NoNewData /\ len' >= len
      BY <1>0, <2>3, <3>2, AppendKeeps DEF NoNewData
    <3>4. phase' # "open" /\ UNCHANGED <<variant, headerOffset, big, ifds>>
      BY <1>9, <2>3 DEF WriteIfd, Fail
    <3> QED BY <1>0, <1>b, <3>3, <3>4, PlacedKept
  <2>4. CASE /\ AppendToSink(IfdEnd(0, tags, big), IfdFields(len, tags, big))
             /\ ifds' = Append(ifds, len)
             /\ UNCHANGED <<phase, error, big, cur>>
    <3>1. IfdEnd(0, tags, big) \in Nat
      BY <1>0, <2>1, PlacesType
    <3>2. \A e \in IfdFields(len, tags, big) : ~IsData(e)
      BY <1>0, <2>1, IfdFieldsType, FieldsAreNotData
    <3> HIDE DEF tags
    <3>3. DataKept /\ NoNewData /\ len' >= len
      BY <1>0, <2>4, <3>1, <3>2, AppendKeeps DEF NoNewData
    <3>4. phase' # "open" /\ UNCHANGED <<variant, headerOffset, big>>
      BY <1>9, <2>1, <2>4 DEF WriteIfd
    <3> QED BY <1>0, <1>b, <2>4, <3>3, <3>4, PlacedKept
  <2> QED BY <1>9, <2>2, <2>3, <2>4 DEF WriteIfd
<1>10. CASE IfdsWritten
  BY <1>a, <1>b, <1>10 DEF IfdsWritten, Continue
<1>11. CASE WritePatch
  <2>1. CASE UNCHANGED sink /\ (Fail("overflow") \/ UNCHANGED <<phase, error, big, ifds>>)
    BY <1>11, <1>a, <1>b, <2>1 DEF WritePatch, Fail
  <2>2. ASSUME NEW w \in Patch(cur.image, cur.step),
               file' = Overwrite(file, w.off, w.len, {w}), len' = MaxOf(len, w.off + w.len),
               UNCHANGED <<phase, error, big, ifds>>
        PROVE  Placed' /\ DataKept
    <3>1. /\ w \in Fields
          /\ \/ \E k \in DOMAIN ifds : w.off >= ifds[k]
             \/ w.off >= headerOffset /\ w.off + w.len <= headerOffset + HeaderLen(big)
      BY <1>11, PatchType DEF WritePatch
    <3>2. DataKept /\ NoNewData
      BY <2>2, <3>1, FieldKeeps
    <3>3. len' >= len
      BY <1>0, <2>2, <3>1 DEF MaxOf, Fields
    <3>4. phase' # "open" /\ UNCHANGED <<variant, headerOffset, big, ifds>>
      BY <1>11, <2>2 DEF WritePatch
    <3> QED BY <1>0, <1>b, <3>2, <3>3, <3>4, PlacedKept
  <2> QED BY <1>11, <2>1, <2>2 DEF WritePatch
<1>12. CASE Finished
  BY <1>a, <1>b, <1>12 DEF Finished, Continue
<1>13. CASE FinishFails
  <2>0. phase' # "open" /\ UNCHANGED <<variant, headerOffset, big, ifds>>
    BY <1>13 DEF FinishFails, Fail
  <2>1. CASE UNCHANGED sink
    BY <1>a, <1>b, <2>0, <2>1
  <2>2. ASSUME NEW w \in HeaderFields, w.off = headerOffset,
               file' = Overwrite(file, w.off, w.len, {w}), UNCHANGED len
        PROVE  Placed' /\ DataKept
    <3>1. w \in Fields
      BY <2>2, HeaderFieldsType
    <3>2. w.off + w.len <= headerOffset + HeaderLen(big) /\ w.off >= headerOffset
      BY <1>0, <2>2 DEF HeaderFields, Field, HeaderLen
    <3>3. DataKept /\ NoNewData
      BY <2>2, <3>1, <3>2, FieldKeeps
    <3> QED BY <1>0, <1>b, <2>0, <2>2, <3>3, PlacedKept
  <2>3. ASSUME Len(ifds) < Len(images),
               NEW k \in {1, IfdEnd(0, Tags(Len(ifds) + 1, big), big) - 1}, AppendToSink(k, {})
        PROVE  Placed' /\ DataKept
    <3>1. Len(ifds) + 1 \in DOMAIN images
      BY <1>0, <2>3
    <3>2. Tags(Len(ifds) + 1, big) \in Seq(Tag)
      BY <1>0, <3>1, TagsType
    <3>3. k \in Nat
      BY <1>0, <3>2, <2>3, IfdEndPositive
    <3>4. DataKept /\ NoNewData /\ len' >= len
      BY <1>0, <2>3, <3>3, AppendKeeps DEF NoNewData
    <3> QED BY <1>0, <1>b, <2>0, <3>4, PlacedKept
  <2> QED BY <1>13, <2>1, <2>2, <2>3 DEF FinishFails
<1>14. CASE UNCHANGED vars
  BY <1>a, <1>b, <1>14 DEF vars
<1> QED
  <2>1. CASE Next
    BY <2>1, <1>1, <1>2, <1>3, <1>4, <1>5, <1>6, <1>7, <1>8, <1>9, <1>10, <1>11, <1>12, <1>13
       DEF Next, WriteBlock
  <2> QED BY <2>1, <1>14

\* The extent PayloadsIntact promises for a block.
BlockExtent(r, i, b) ==
  Extent(r.off, r.count, [owner |-> Self, image |-> i, block |-> b])

\* It is data, unlike a number.
LEMMA BlockExtentIsData ==
  ASSUME NEW r, NEW i, NEW b
  PROVE  IsData(BlockExtent(r, i, b))
<1>1. BlockExtent(r, i, b).val = [owner |-> Self, image |-> i, block |-> b]
  BY DEF BlockExtent, Extent
<1>2. "owner" \in DOMAIN [owner |-> Self, image |-> i, block |-> b]
  OBVIOUS
<1> QED BY <1>1, <1>2 DEF IsData

\* Recording a block whose bytes are in the file keeps PayloadsIntact.
LEMMA IntactRecord ==
  ASSUME TypeOK, PayloadsIntact, DataKept,
         NEW h \in Handles, NEW b, Writable(h, b), NEW r \in Records, SetRecord(h, b, r),
         r.count > 0 => BlockExtent(r, h.index, b) \in file'
  PROVE  PayloadsIntact'
<1> SUFFICES ASSUME NEW i \in DOMAIN images', NEW k \in DOMAIN images'[i].records,
                    Recorded(i, k)'
             PROVE  BlockExtent(images'[i].records[k], i, k) \in file'
  BY DEF PayloadsIntact, BlockExtent
<1>1. /\ DOMAIN images' = DOMAIN images /\ DOMAIN images'[i].records = DOMAIN images[i].records
      /\ images'[i].records[k] = IF i = h.index /\ k = b THEN r ELSE images[i].records[k]
  BY SetRecordType DEF TypeOK
<1>2. images'[i].records[k] # NoRecord /\ images'[i].records[k].count > 0
  BY DEF Recorded
<1>3. CASE i = h.index /\ k = b
  BY <1>1, <1>2, <1>3
<1>4. CASE ~(i = h.index /\ k = b)
  <2>1. Recorded(i, k)
    BY <1>1, <1>2, <1>4 DEF Recorded
  <2>2. BlockExtent(images[i].records[k], i, k) \in file
    BY <1>1, <2>1 DEF PayloadsIntact, BlockExtent
  <2> QED BY <1>1, <1>4, <2>2, BlockExtentIsData DEF DataKept
<1> QED BY <1>3, <1>4

\* Every step keeps PayloadsIntact.
LEMMA IntactStep ==
  ASSUME TypeOK, DataKept, PayloadsIntact, [Next]_vars
  PROVE  PayloadsIntact'
<1> USE DEF options, sink, finishing
<1>0. len \in Nat /\ images \in Seq(IfdState)
  BY DEF TypeOK
<1>a. ASSUME UNCHANGED images PROVE PayloadsIntact'
  <2> SUFFICES ASSUME NEW i \in DOMAIN images', NEW k \in DOMAIN images'[i].records,
                      Recorded(i, k)'
               PROVE  BlockExtent(images'[i].records[k], i, k) \in file'
    BY DEF PayloadsIntact, BlockExtent
  <2>1. Recorded(i, k) /\ i \in DOMAIN images /\ k \in DOMAIN images[i].records
    BY <1>a DEF Recorded
  <2>2. BlockExtent(images[i].records[k], i, k) \in file
    BY <2>1 DEF PayloadsIntact, BlockExtent
  <2> QED BY <1>a, <2>2, BlockExtentIsData DEF DataKept
<1>1. ASSUME NEW b \in Builders, AddImage(b) PROVE PayloadsIntact'
  <2> SUFFICES ASSUME NEW i \in DOMAIN images', NEW k \in DOMAIN images'[i].records,
                      Recorded(i, k)'
               PROVE  BlockExtent(images'[i].records[k], i, k) \in file'
    BY DEF PayloadsIntact, BlockExtent
  <2> DEFINE records == [j \in 1..CheckedBlockCount(b) |-> NoRecord]
             new == [builder |-> b, records |-> records]
  <2>1. images' = Append(images, new)
    BY <1>1 DEF AddImage
  <2>2. images'[i] = IF i = Len(images) + 1 THEN new ELSE images[i]
    BY <1>0, <2>1
  <2>3. i # Len(images) + 1
    <3>1. CASE i = Len(images) + 1
      <4>1. images'[i].records = records
        BY <2>2, <3>1
      <4>2. images'[i].records[k] = NoRecord
        BY <4>1
      <4> QED BY <4>2 DEF Recorded
    <3> QED BY <3>1
  <2>4. i \in DOMAIN images /\ images'[i] = images[i]
    BY <1>0, <2>1, <2>2, <2>3
  <2>5. Recorded(i, k)
    BY <2>4 DEF Recorded
  <2>6. BlockExtent(images[i].records[k], i, k) \in file
    BY <2>4, <2>5 DEF PayloadsIntact, BlockExtent
  <2> QED BY <2>4, <2>6, BlockExtentIsData DEF DataKept
<1>2. ASSUME NEW h \in Handles, NEW b \in 1..(MaxBlocks + 1), WriteBlockSparse(h, b)
      PROVE  PayloadsIntact'
  <2>1. SparseRecord \in Records /\ ~(SparseRecord.count > 0)
    BY DEF SparseRecord, Records
  <2> QED BY <1>2, <2>1, IntactRecord DEF WriteBlockSparse
<1>b. ASSUME NEW h \in Handles, NEW b, NEW off \in Nat, NEW n \in Nat, NEW total,
             Writable(h, b), AppendToSink(total, DataFields(off, n, Payload(h, b))),
             SetRecord(h, b, Record(off, n))
      PROVE  PayloadsIntact'
  <2>1. h.owner = Self
    BY <1>b DEF Writable, ImageIndex
  <2>2. Record(off, n).count = n /\ Record(off, n).off = off
    BY DEF Record
  <2>3. BlockExtent(Record(off, n), h.index, b) = Extent(off, n, Payload(h, b))
    BY <2>1, <2>2 DEF BlockExtent, Payload
  <2>4. n > 0 => Extent(off, n, Payload(h, b)) \in file'
    BY <1>b DEF AppendToSink, Overwrite, DataFields
  <2>5. Record(off, n) \in Records
    BY <1>b, RecordType
  <2> QED BY <1>b, <2>2, <2>3, <2>4, <2>5, IntactRecord
<1>3. ASSUME NEW h \in Handles, NEW b \in 1..(MaxBlocks + 1), NEW n \in PayloadLens,
             WriteBlockRaw(h, b, n)
      PROVE  PayloadsIntact'
  <2>1. n \in Nat
    BY LensAssumption
  <2> QED BY <1>0, <1>3, <1>b, <2>1 DEF WriteBlockRaw
<1>4. ASSUME NEW h \in Handles, NEW b \in 1..(MaxBlocks + 1), NEW n \in PayloadLens,
             NEW pre \in WrapLens, NEW suf \in WrapLens,
             WriteBlockRawSegmented(h, b, pre, n, suf)
      PROVE  PayloadsIntact'
  <2>1. n \in Nat /\ len + pre \in Nat
    BY <1>0, LensAssumption
  <2> QED BY <1>4, <1>b, <2>1 DEF WriteBlockRawSegmented
<1>5. ASSUME \/ \E n \in PrefixLens : WriteHeaderPrefix(n)
             \/ \E h \in Handles : \E b \in 1..(MaxBlocks + 1) : \E n \in PayloadLens :
                  \E k \in 0..(n - 1) : WriteBlockFails(h, b, n, k)
             \/ Finish \/ WriteHeader \/ WriteIfd \/ IfdsWritten \/ WritePatch \/ Finished
             \/ FinishFails \/ UNCHANGED vars
      PROVE  UNCHANGED images
  BY <1>5 DEF WriteHeaderPrefix, WriteBlockFails, Finish, WriteHeader, WriteIfd, IfdsWritten,
              WritePatch, Finished, FinishFails, vars
<1> QED
  <2>1. CASE Next
    BY <2>1, <1>a, <1>1, <1>2, <1>3, <1>4, <1>5 DEF Next, WriteBlock
  <2> QED BY <2>1, <1>a, <1>5

\* A new writer has no records.
LEMMA IntactInit == Init => PayloadsIntact
<1> SUFFICES ASSUME Init PROVE PayloadsIntact
  OBVIOUS
<1>1. DOMAIN images = {}
  BY DEF Init
<1> QED BY <1>1 DEF PayloadsIntact

(***************************************************************************)
(* The inductive invariant holds of every run: data lies behind the place  *)
(* reserved for the header, before every IFD, and where the records say.   *)
(***************************************************************************)
THEOREM WriterInvariant == Spec => []WriterInv
<1>1. Init => WriterInv
  BY TypeInit, PlacedInit, IntactInit DEF WriterInv
<1>2. WriterInv /\ [Next]_vars => WriterInv'
  BY TypeStep, PlacedStep, IntactStep DEF WriterInv
<1> QED BY <1>1, <1>2, PTL DEF Spec

(***************************************************************************)
(* Whatever is written, retried, prefixed or patched, and wherever the     *)
(* sink fails, the bytes every record points to are that block's bytes.    *)
(***************************************************************************)
THEOREM BlocksStayIntact == Spec => []PayloadsIntact
<1>1. WriterInv => PayloadsIntact
  BY DEF WriterInv
<1> QED BY <1>1, WriterInvariant, PTL

(***************************************************************************)
(* No step of the writer destroys the bytes of a block, recorded or not,   *)
(* or the bytes the sink held behind the reserved header.                  *)
(***************************************************************************)
THEOREM DataSurvives == Spec => PayloadsSurvive
<1>1. WriterInv /\ WriterInv' /\ [Next]_vars =>
        [\A e \in file : DOMAIN e.val # {"num"} => e \in file']_vars
  BY PlacedStep DEF WriterInv, DataKept, IsData
<1> QED BY <1>1, WriterInvariant, PTL DEF Spec, PayloadsSurvive

\* What the writer knows of an image it took.
LEMMA ImageFacts ==
  ASSUME TypeOK, NEW i \in DOMAIN images, NEW isBig \in BOOLEAN
  PROVE  LET b == images[i].builder
             n == Len(images[i].records)
             tags == Tags(i, isBig)
         IN /\ b \in Builder /\ Validate(b) /\ n = CheckedBlockCount(b) /\ n \in Nat \ {0}
            /\ images[i].records \in Seq(Records) /\ DOMAIN images[i].records = 1..n
            /\ tags \in Seq(Tag) /\ TagsSorted(tags) /\ tags = BuildTags(b, isBig)
            /\ i \in 1..Len(images) /\ Len(images) \in Nat
<1>1. images[i] \in IfdState /\ i \in 1..Len(images) /\ Len(images) \in Nat
  BY DEF TypeOK
<1>2. images[i].builder \in {x \in Builders : Validate(x)} /\ images[i].records \in Seq(Records)
  BY <1>1 DEF IfdState
<1>3. images[i].builder \in Builder /\ Validate(images[i].builder)
  BY <1>2, BuildersAssumption
<1>4. Len(images[i].records) = CheckedBlockCount(images[i].builder)
  BY DEF TypeOK
<1>5. CheckedBlockCount(images[i].builder) \in Nat \ {0}
  BY <1>3, BlockCounts
<1>6. Tags(i, isBig) \in Seq(Tag) /\ TagsSorted(Tags(i, isBig))
  BY <1>3, BuiltTags DEF Tags
<1>7. DOMAIN images[i].records = 1..Len(images[i].records)
  BY <1>2
<1> QED BY <1>1, <1>2, <1>3, <1>4, <1>5, <1>6, <1>7 DEF Tags

(***************************************************************************)
(* The slot each patch goes to: the element of block k in the array of     *)
(* offsets, then in the array of counts, then the pointer to the IFD in    *)
(* the IFD before it, or in the header.                                    *)
(***************************************************************************)
OffsetSlot(i, k) == Slot("elem", ArrayIndex(Tags(i, big), OffsetsTagCode(images[i].builder)), k)
CountSlot(i, k) == Slot("elem", ArrayIndex(Tags(i, big), ByteCountsTagCode(images[i].builder)), k)
NextSlot == Slot("next", 0, 0)
InIfd(i, s, v) == SlotField(ifds[i], Tags(i, big), big, s, v)
FirstPointer(v) == Field(headerOffset + IF big THEN 8 ELSE 4, Width(big), v)

\* finish() patches slots of the IFD it wrote.
LEMMA ArraySlots ==
  ASSUME TypeOK, NEW i \in DOMAIN images, NEW k \in 1..Len(images[i].records)
  PROVE  /\ OffsetSlot(i, k) \in Slots(Tags(i, big), big)
         /\ CountSlot(i, k) \in Slots(Tags(i, big), big)
         /\ NextSlot \in Slots(Tags(i, big), big)
<1> DEFINE b == images[i].builder
           n == Len(images[i].records)
           tags == Tags(i, big)
<1>1. /\ big \in BOOLEAN /\ b \in Builder /\ Validate(b) /\ n = CheckedBlockCount(b)
      /\ tags = BuildTags(b, big) /\ n \in Nat
  BY ImageFacts DEF TypeOK
<1>2. k \in Nat
  BY <1>1
<1>3. ASSUME NEW code \in {OffsetsTagCode(b), ByteCountsTagCode(b)}
      PROVE  Slot("elem", ArrayIndex(tags, code), k) \in Slots(tags, big)
  <2> DEFINE o == ArrayIndex(tags, code)
  <2>1. /\ o \in DOMAIN tags /\ tags[o].code \in OffsetArrayCodes
        /\ tags[o].len \div Width(big) = n
    BY <1>1, BlockArrayIndex
  <2>2. o \in Nat
    <3>1. tags \in Seq(Tag)
      BY ImageFacts DEF TypeOK
    <3> QED BY <2>1, <3>1
  <2> QED BY <1>2, <2>1, <2>2 DEF Slots, Slot
<1>4. NextSlot \in Slots(tags, big)
  BY DEF NextSlot, Slots, Slot
<1> QED BY <1>3, <1>4 DEF OffsetSlot, CountSlot

\* Which slot each patch of finish() fills: the offsets, then the counts, then the
\* pointer that links the IFD.
LEMMA PatchSlots ==
  ASSUME TypeOK, Len(ifds) = Len(images), NEW i \in DOMAIN images, NEW k \in Nat \ {0}
  PROVE  LET n == Len(images[i].records)
             r == images[i].records
         IN /\ k <= n => Patch(i, k) = {InIfd(i, OffsetSlot(i, k), r[k].off)}
            /\ n < k /\ k <= 2 * n => Patch(i, k) = {InIfd(i, CountSlot(i, k - n), r[k - n].count)}
            /\ 2 * n < k /\ i > 1 => Patch(i, k) = {InIfd(i - 1, NextSlot, ifds[i])}
            /\ 2 * n < k /\ i = 1 => Patch(i, k) = {FirstPointer(ifds[1])}
<1> DEFINE b == images[i].builder
           n == Len(images[i].records)
           r == images[i].records
           tags == Tags(i, big)
<1>1. /\ big \in BOOLEAN /\ b \in Builder /\ Validate(b) /\ n = CheckedBlockCount(b)
      /\ tags = BuildTags(b, big) /\ n \in Nat \ {0}
  BY ImageFacts DEF TypeOK
<1>2. ASSUME NEW code \in {OffsetsTagCode(b), ByteCountsTagCode(b)}
      PROVE  BlockArray(i, code) = {ValueOffset(ifds[i], tags, big, ArrayIndex(tags, code))}
  <2> DEFINE o == ArrayIndex(tags, code)
  <2>1. IndexOf(tags, code) = {o} /\ (Deferred(tags[o], big) <=> n # 1)
    BY <1>1, BlockArrayIndex
  <2> HIDE DEF o, tags
  <2>2. CASE n = 1
    <3>1. FindTagValueOffset(ifds[i], tags, big, code)
            = {EntryOffset(ifds[i], big, o) + ValueField(big)}
      BY <2>1, <2>2 DEF FindTagValueOffset
    <3> QED BY <2>1, <2>2, <3>1 DEF BlockArray, ValueOffset, tags, o
  <2>3. CASE n # 1
    <3>1. DeferredDataOffset(ifds[i], tags, big, code) = {DeferredOffset(ifds[i], tags, big, o)}
      BY <2>1, <2>3 DEF DeferredDataOffset
    <3> QED BY <2>1, <2>3, <3>1 DEF BlockArray, ValueOffset, tags, o
  <2> QED BY <2>2, <2>3
<1>3. ASSUME NEW o, NEW j, NEW v
      PROVE  InIfd(i, Slot("elem", o, j), v)
               = Field(ValueOffset(ifds[i], tags, big, o) + (j - 1) * Width(big), Width(big), v)
  BY DEF InIfd, SlotField, SlotOff, SlotLen, Slot
<1>4. ASSUME k <= n PROVE Patch(i, k) = {InIfd(i, OffsetSlot(i, k), r[k].off)}
  <2>1. Patch(i, k) = {Field(a + (k - 1) * Width(big), Width(big), r[k].off) :
                         a \in BlockArray(i, OffsetsTagCode(b))}
    BY <1>4 DEF Patch
  <2> QED BY <1>2, <1>3, <2>1 DEF OffsetSlot
<1>5. ASSUME n < k, k <= 2 * n
      PROVE  Patch(i, k) = {InIfd(i, CountSlot(i, k - n), r[k - n].count)}
  <2>1. Patch(i, k) = {Field(a + (k - n - 1) * Width(big), Width(big), r[k - n].count) :
                         a \in BlockArray(i, ByteCountsTagCode(b))}
    BY <1>1, <1>5 DEF Patch
  <2> QED BY <1>2, <1>3, <2>1 DEF CountSlot
<1>6. ASSUME 2 * n < k PROVE Patch(i, k) = {Link(i)}
  BY <1>1, <1>6 DEF Patch
<1>7. i > 1 => Link(i) = InIfd(i - 1, NextSlot, ifds[i])
  BY DEF Link, InIfd, NextSlot, SlotField, SlotOff, SlotLen, Slot
<1>8. i = 1 => Link(i) = FirstPointer(ifds[1])
  BY DEF Link, FirstPointer
<1> QED BY <1>4, <1>5, <1>6, <1>7, <1>8

----------------------------------------------------------------------------
\* Extents do not overlap, and lie in the sink.
FileSolid == Solid(file) /\ \A e \in file : e.off + e.len <= len

\* While nothing of the header is out: no version, a zero classic pointer.
Unnamed ==
  /\ Field(headerOffset + 4, 4, 0) \in file
  /\ \A e \in file : headerOffset < e.off

\* The IFDs follow one another behind the data.
IfdsInRow ==
  \A k \in DOMAIN ifds :
    /\ DataStart <= ifds[k] /\ IfdEnd(ifds[k], Tags(k, big), big) <= len
    /\ \A m \in DOMAIN ifds : k < m => IfdEnd(ifds[k], Tags(k, big), big) <= ifds[m]

\* Patch number step of image k is written.
Passed(k, step) == k < cur.image \/ (cur.image = k /\ step < cur.step)

\* What each slot of IFD k holds by now.
Now(k) ==
  LET r == images[k].records
  IN [s \in Slots(Tags(k, big), big) |->
        IF s = NextSlot /\ k + 1 < cur.image THEN ifds[k + 1]
        ELSE IF s = OffsetSlot(k, s.j) /\ Passed(k, s.j) THEN r[s.j].off
        ELSE IF s = CountSlot(k, s.j) /\ Passed(k, Len(r) + s.j) THEN r[s.j].count
        ELSE SlotStart(ifds[k], Tags(k, big), big, s)]

HeaderOut ==
  /\ Field(headerOffset, 4, IF big THEN BigVersion ELSE ClassicVersion) \in file
  /\ big => Field(headerOffset + 4, 4, 8) \in file
  /\ FirstPointer(IF cur.image > 1 THEN ifds[1] ELSE 0) \in file

IfdsOut == \A k \in DOMAIN ifds : HoldsIfd(file, ifds[k], Tags(k, big), big, Now(k))

Progress ==
  /\ Len(images) <= MaxImages
  /\ phase \in {"open", "header"} => ifds = <<>>
  /\ phase \in {"header", "ifds", "patch", "done"} =>
       \A i \in DOMAIN images : Written(images[i])
  /\ phase \in {"open", "header", "ifds"} => cur = [image |-> 1, step |-> 1]
  /\ cur.image <= Len(images) + 1
  /\ cur.image <= Len(images) => cur.step <= PatchCount(cur.image)
  /\ phase = "done" => cur.image = Len(images) + 1

FileInv ==
  /\ FileSolid /\ IfdsInRow /\ Progress
  /\ phase \in {"open", "header"} => Unnamed
  /\ phase \in {"ifds", "patch", "done"} => HeaderOut /\ IfdsOut

----------------------------------------------------------------------------
\* A write at the end of the sink adds to what it holds and destroys nothing.
LEMMA FileAppend ==
  ASSUME TypeOK, FileSolid, NEW n \in Nat, NEW fields, AppendToSink(n, fields), Solid(fields),
         \A e \in fields : len <= e.off /\ e.off + e.len <= len + n
  PROVE  /\ FileSolid' /\ len' = len + n /\ len <= len'
         /\ file \subseteq file' /\ fields \subseteq file'
         /\ \A e \in file' : e \in file \/ e \in fields
<1>1. len \in Nat /\ len' = len + n /\ file' = Overwrite(file, len, n, fields)
  BY DEF TypeOK, AppendToSink
<1>2. \A e \in file : e.off \in Nat /\ e.len \in Nat /\ e.off + e.len <= len
  BY DEF FileSolid, Solid
<1>3. file \subseteq Untouched(file, len, n)
  BY <1>2 DEF Untouched
<1>4. /\ file \subseteq file' /\ fields \subseteq file'
      /\ \A e \in file' : e \in file \/ e \in fields
  BY <1>1, <1>3 DEF Overwrite, Untouched
<1>5. Solid(file')
  BY <1>1, OverwriteSolid DEF FileSolid
<1>6. \A e \in fields : e.off \in Nat /\ e.len \in Nat
  BY DEF Solid
<1>7. \A e \in file' : e.off + e.len <= len'
  BY <1>1, <1>2, <1>4
<1> QED BY <1>1, <1>4, <1>5, <1>7 DEF FileSolid

\* A write inside the sink.
LEMMA FileWrite ==
  ASSUME TypeOK, FileSolid, NEW off \in Nat, NEW n \in Nat, NEW fields, Solid(fields),
         \A e \in fields : off <= e.off /\ e.off + e.len <= off + n,
         off + n <= len, file' = Overwrite(file, off, n, fields), len' = len
  PROVE  /\ FileSolid' /\ fields \subseteq file'
         /\ \A e \in file : Apart(e.off, e.len, off, n) => e \in file'
<1>1. Solid(file')
  BY OverwriteSolid DEF FileSolid
<1>2. \A e \in file' : e \in file \/ e \in fields
  BY DEF Overwrite, Untouched
<1>3. \A e \in file : Apart(e.off, e.len, off, n) => e \in file'
  BY OverwriteKeeps
<1>4. fields \subseteq file'
  BY DEF Overwrite
<1>5. \A e \in fields : e.off \in Nat /\ e.len \in Nat
  BY DEF Solid
<1>6. len \in Nat
  BY DEF TypeOK
<1>7. \A e \in file' : e.off + e.len <= len'
  BY <1>2, <1>5, <1>6 DEF FileSolid
<1> QED BY <1>1, <1>3, <1>4, <1>7 DEF FileSolid

\* The bytes of a block, too.
LEMMA DataSolid ==
  ASSUME NEW off \in Nat, NEW n \in Nat, NEW val
  PROVE  /\ Solid(DataFields(off, n, val))
         /\ \A e \in DataFields(off, n, val) : off <= e.off /\ e.off + e.len <= off + n
<1>1. \A e \in DataFields(off, n, val) :
        e = Extent(off, n, val) /\ n # 0 /\ e.off = off /\ e.len = n
  BY DEF DataFields, Extent
<1> QED BY <1>1 DEF Solid

\* A new writer.
LEMMA FileInit == Init => FileInv
<1> SUFFICES ASSUME Init PROVE FileInv
  OBVIOUS
<1>1. PICK s \in SinkStarts :
        LET end == s.pos + Reserved
        IN /\ headerOffset = s.pos
           /\ len = MaxOf(s.len, end)
           /\ file = {e \in {Field(s.pos + 4, 4, 0), Field(s.pos + 8, 8, 0)} :
                        e.off + e.len <= end}
                     \cup (IF s.len > end THEN {Extent(end, s.len - end, Existing)}
                           ELSE {})
  BY DEF Init
<1> DEFINE end == s.pos + Reserved
           low == Field(s.pos + 4, 4, 0)
           high == Field(s.pos + 8, 8, 0)
           rest == Extent(end, s.len - end, Existing)
<1>2. s.pos \in Nat /\ s.len \in Nat /\ end \in Nat /\ s.pos + 8 <= end
  BY SinkStartsAssumption DEF Reserved, HeaderLen
<1>3. end <= len /\ len \in Nat /\ (s.len > end => len = s.len)
  BY <1>1, <1>2 DEF MaxOf
<1>4. /\ low.off = s.pos + 4 /\ low.len = 4 /\ high.off = s.pos + 8 /\ high.len = 8
      /\ rest.off = end /\ rest.len = s.len - end
  BY DEF Field, Extent
<1>5. \A e \in file : \/ e = low \/ (e = high /\ s.pos + 16 <= end) \/ (e = rest /\ s.len > end)
  BY <1>1, <1>2, <1>4
<1>6. low \in file
  BY <1>1, <1>2, <1>4
<1> HIDE DEF end, low, high, rest
<1>7. \A e \in file : e.off \in Nat /\ e.len \in Nat \ {0} /\ e.off + e.len <= len /\ s.pos < e.off
  BY <1>2, <1>3, <1>4, <1>5
<1>8. \A d, e \in file : d # e => Apart(d.off, d.len, e.off, e.len)
  BY <1>2, <1>4, <1>5 DEF Apart
<1>9. FileSolid
  BY <1>7, <1>8 DEF FileSolid, Solid
<1>10. Unnamed
  BY <1>1, <1>6, <1>7 DEF Unnamed, low
<1>11. /\ images = <<>> /\ ifds = <<>> /\ cur = [image |-> 1, step |-> 1] /\ phase = "open"
       /\ DOMAIN ifds = {} /\ Len(images) = 0
  BY DEF Init
<1>12. IfdsInRow
  BY <1>11 DEF IfdsInRow
<1>13. Progress
  BY <1>11, BoundsAssumption DEF Progress
<1> QED BY <1>9, <1>10, <1>11, <1>12, <1>13 DEF FileInv

----------------------------------------------------------------------------
\* An IFD that is out belongs to an image and ends behind its start.
LEMMA IfdPlaces ==
  ASSUME TypeOK, NEW k \in DOMAIN ifds
  PROVE  /\ k \in DOMAIN images /\ k \in 1..Len(ifds) /\ ifds[k] \in Nat /\ big \in BOOLEAN
         /\ Tags(k, big) \in Seq(Tag)
         /\ IfdEnd(ifds[k], Tags(k, big), big) \in Nat
         /\ ifds[k] <= IfdEnd(ifds[k], Tags(k, big), big)
<1>1. k \in 1..Len(ifds) /\ k \in DOMAIN images /\ ifds[k] \in Nat /\ big \in BOOLEAN
  BY DEF TypeOK
<1>2. Tags(k, big) \in Seq(Tag)
  BY <1>1, ImageFacts
<1> QED BY <1>1, <1>2, PlacesType

\* A step of the open writer: no IFDs, no header.
LEMMA FileStepOpen ==
  ASSUME TypeOK, TypeOK', FileInv, phase = "open", phase' = "open", ifds' = ifds, cur' = cur,
         Len(images') <= MaxImages, FileSolid', Unnamed'
  PROVE  FileInv'
<1>1. ifds' = <<>> /\ cur' = [image |-> 1, step |-> 1]
  BY DEF FileInv, Progress
<1>2. Len(images') \in Nat
  BY DEF TypeOK
<1>3. 1 <= Len(images') => Len(images'[1].records) \in Nat
  <2>1. 1 <= Len(images') => images'[1] \in IfdState'
    BY <1>2 DEF TypeOK
  <2> QED BY <2>1 DEF IfdState
<1>4. Progress'
  BY <1>1, <1>2, <1>3 DEF Progress, PatchCount
<1>5. IfdsInRow'
  BY <1>1 DEF IfdsInRow
<1> QED BY <1>4, <1>5 DEF FileInv

\* Whatever the open writer appends leaves the header unwritten.
LEMMA UnnamedAppend ==
  ASSUME TypeOK, Placed, FileInv, phase = "open", NEW n \in Nat, NEW fields,
         AppendToSink(n, fields), Solid(fields), headerOffset' = headerOffset,
         \A e \in fields : len <= e.off /\ e.off + e.len <= len + n
  PROVE  FileSolid' /\ Unnamed'
<1>1. FileSolid /\ Unnamed
  BY DEF FileInv
<1>2. /\ FileSolid' /\ file \subseteq file' /\ \A e \in file' : e \in file \/ e \in fields
  BY <1>1, FileAppend
<1>3. headerOffset \in Nat /\ headerOffset < len /\ len \in Nat
  BY ReservedCoversHeader DEF Placed, DataStart, Reserved, HeaderLen, TypeOK
<1>4. \A e \in fields : headerOffset < e.off
  BY <1>3 DEF Solid
<1> QED BY <1>1, <1>2, <1>4 DEF Unnamed

\* A failed writer's file is still made of disjoint extents, its IFDs in a row.
LEMMA FileStepFail ==
  ASSUME TypeOK, FileInv, phase' = "failed", UNCHANGED <<images, ifds, cur, big, headerOffset, variant>>,
         FileSolid', len' \in Nat, len <= len'
  PROVE  FileInv'
<1>1. IfdsInRow'
  <2>1. IfdsInRow
    BY DEF FileInv
  <2>2. \A k \in DOMAIN ifds : Tags(k, big)' = Tags(k, big) /\ IfdEnd(ifds[k], Tags(k, big), big) \in Nat
    BY IfdPlaces DEF Tags
  <2>3. DataStart' = DataStart /\ len \in Nat
    BY DEF DataStart, Reserved, TypeOK
  <2> QED BY <2>1, <2>2, <2>3 DEF IfdsInRow
<1>2. Progress'
  BY DEF FileInv, Progress, PatchCount
<1> QED BY <1>1, <1>2 DEF FileInv

\* A step that leaves the sink and what finish() wrote alone.
LEMMA IfdsKept ==
  ASSUME TypeOK, FileInv, UNCHANGED <<images, ifds, cur, big, headerOffset, variant, file, len>>
  PROVE  /\ FileSolid' /\ IfdsInRow'
         /\ (Unnamed => Unnamed') /\ (HeaderOut => HeaderOut') /\ (IfdsOut => IfdsOut')
<1>1. \A k \in DOMAIN ifds : Tags(k, big)' = Tags(k, big)
  BY DEF Tags
<1>2. DataStart' = DataStart
  BY DEF DataStart, Reserved
<1>3. FileSolid' /\ (Unnamed => Unnamed')
  BY DEF FileInv, FileSolid, Unnamed
<1>4. IfdsInRow'
  BY <1>1, <1>2 DEF FileInv, IfdsInRow
<1>5. HeaderOut => HeaderOut'
  BY DEF HeaderOut, FirstPointer
<1>6. \A k \in DOMAIN ifds : Now(k)' = Now(k)
  BY <1>1 DEF Now, OffsetSlot, CountSlot, Passed
<1>7. IfdsOut => IfdsOut'
  BY <1>1, <1>6 DEF IfdsOut
<1> QED BY <1>3, <1>4, <1>5, <1>7

\* finish() starts: the header is still to come.
LEMMA FileFinish ==
  ASSUME TypeOK, FileInv, Finish
  PROVE  FileInv'
<1> USE DEF options, sink
<1>1. UNCHANGED <<images, ifds, cur, headerOffset, variant, file, len>> /\ phase = "open"
  BY DEF Finish, Fail
<1>2. ifds = <<>> /\ Unnamed /\ FileSolid
  BY <1>1 DEF FileInv, Progress
<1>3. FileSolid' /\ Unnamed' /\ IfdsInRow'
  BY <1>1, <1>2 DEF FileSolid, Unnamed, IfdsInRow
<1>4. phase' = "failed" \/ (phase' = "header" /\ \A i \in DOMAIN images : Written(images[i]))
  BY DEF Finish, Fail, Continue
<1>5. Progress'
  BY <1>1, <1>4 DEF FileInv, Progress, PatchCount
<1> QED BY <1>3, <1>4, <1>5 DEF FileInv

\* The header: version, BigTIFF's offset size, and a zero pointer to the first IFD.
LEMMA FileHeader ==
  ASSUME TypeOK, Placed, FileInv, WriteHeader
  PROVE  FileInv' /\ len' = len
<1> USE DEF options, sink
<1>1. /\ UNCHANGED <<images, ifds, cur, big, headerOffset, variant>>
      /\ phase = "header" /\ phase' = "ifds"
      /\ file' = Overwrite(file, headerOffset, HeaderLen(big), HeaderFields)
      /\ len' = MaxOf(len, headerOffset + HeaderLen(big))
  BY DEF WriteHeader, Continue
<1>2. /\ headerOffset \in Nat /\ HeaderLen(big) \in Nat /\ headerOffset + HeaderLen(big) <= len
      /\ len \in Nat /\ big \in BOOLEAN
  BY ReservedCoversHeader DEF Placed, TypeOK
<1>3. len' = len
  BY <1>1, <1>2 DEF MaxOf
<1>4. \A e \in HeaderFields : /\ e.off \in Nat /\ e.len \in Nat \ {0} /\ headerOffset <= e.off
                              /\ e.off + e.len <= headerOffset + HeaderLen(big)
  <2>1. CASE big
    BY <1>2, <2>1 DEF HeaderFields, Field, HeaderLen
  <2>2. CASE ~big
    BY <1>2, <2>2 DEF HeaderFields, Field, HeaderLen
  <2> QED BY <1>2, <2>1, <2>2
<1>5. Solid(HeaderFields)
  <2>1. \A d, e \in HeaderFields : d # e => Apart(d.off, d.len, e.off, e.len)
    <3>1. CASE big
      BY <1>2, <3>1 DEF HeaderFields, Field, Apart
    <3>2. CASE ~big
      BY <1>2, <3>2 DEF HeaderFields, Field, Apart
    <3> QED BY <1>2, <3>1, <3>2
  <2> QED BY <1>4, <2>1 DEF Solid
<1>6. FileSolid' /\ HeaderFields \subseteq file'
  BY <1>1, <1>2, <1>3, <1>4, <1>5, FileWrite DEF FileInv
<1>7. cur = [image |-> 1, step |-> 1] /\ ifds = <<>>
  BY <1>1 DEF FileInv, Progress
<1>8. HeaderOut'
  <2>1. FirstPointer(0) \in HeaderFields
    BY <1>2 DEF FirstPointer, HeaderFields, Width, ElementWidth
  <2>2. /\ Field(headerOffset, 4, IF big THEN BigVersion ELSE ClassicVersion) \in HeaderFields
        /\ big => Field(headerOffset + 4, 4, 8) \in HeaderFields
    BY <1>2 DEF HeaderFields
  <2> QED BY <1>1, <1>6, <1>7, <2>1, <2>2 DEF HeaderOut, FirstPointer
<1>9. IfdsOut' /\ IfdsInRow'
  BY <1>1, <1>7 DEF IfdsOut, IfdsInRow
<1>10. Progress'
  BY <1>1 DEF FileInv, Progress, PatchCount
<1> QED BY <1>1, <1>3, <1>6, <1>8, <1>9, <1>10 DEF FileInv

\* An IFD appended to the sink.
LEMMA FileIfd ==
  ASSUME TypeOK, TypeOK', Placed, FileInv, WriteIfd
  PROVE  FileInv' /\ len <= len'
<1> USE DEF options, sink
<1>0. PICK i : i = Len(ifds) + 1
  OBVIOUS
<1> DEFINE tags == Tags(i, big)
<1>1. /\ UNCHANGED <<images, cur, big, headerOffset, variant>>
      /\ phase = "ifds" /\ i \in DOMAIN images
  BY <1>0 DEF WriteIfd, Fail
<1>2. /\ len \in Nat /\ big \in BOOLEAN /\ ifds \in Seq(Nat) /\ i \in Nat \ {0}
      /\ tags \in Seq(Tag) /\ DataStart \in Nat /\ DataStart <= len
  BY SMTT(30), <1>0, <1>1, ImageFacts, ReservedCoversHeader DEF TypeOK, Placed
<1>3. FileSolid /\ HeaderOut /\ IfdsOut /\ IfdsInRow
  BY <1>1 DEF FileInv
<1>4. CASE Fail("unsorted") /\ UNCHANGED sink
  <2>1. FileSolid'
    BY <1>3, <1>4 DEF FileSolid
  <2> QED BY <1>1, <1>2, <1>4, <2>1, FileStepFail DEF Fail
<1>5. ASSUME Fail("overflow"), NEW first \in Overflowing(len, tags, big, Limit),
             AppendToSink(EntryOffset(0, big, first) + ValueField(big), {})
      PROVE  FileInv' /\ len <= len'
  <2>1. EntryOffset(0, big, first) + ValueField(big) \in Nat
    <3>1. first \in DOMAIN tags
      BY <1>5 DEF Overflowing
    <3>2. EntryOffset(0, big, first) \in Nat /\ ValueField(big) \in Nat
      BY <1>2, <3>1, PlacesType, SizesType
    <3> QED BY <3>2
  <2> HIDE DEF tags
  <2>2. FileSolid' /\ len <= len'
    BY <1>3, <1>5, <2>1, NothingSolid, FileAppend
  <2>3. len' \in Nat
    BY DEF TypeOK
  <2> QED BY <1>1, <1>5, <2>2, <2>3, FileStepFail DEF Fail
<1>6. CASE /\ AppendToSink(IfdEnd(0, tags, big), IfdFields(len, tags, big))
           /\ ifds' = Append(ifds, len)
           /\ UNCHANGED <<phase, error, big, cur>>
  <2>1. IfdEnd(len, tags, big) = len + IfdEnd(0, tags, big) /\ IfdEnd(0, tags, big) \in Nat
    BY <1>2, IfdEndShift
  <2>2. /\ Solid(IfdFields(len, tags, big))
        /\ \A e \in IfdFields(len, tags, big) :
              len <= e.off /\ e.off + e.len <= len + IfdEnd(0, tags, big)
    BY <1>2, <2>1, IfdFieldsSolid
  <2>3. /\ FileSolid' /\ len' = IfdEnd(len, tags, big)
        /\ file \subseteq file' /\ IfdFields(len, tags, big) \subseteq file'
    <3> HIDE DEF tags
    <3> QED BY <1>3, <1>6, <2>1, <2>2, FileAppend
  <2>4. /\ DOMAIN ifds' = 1..i /\ ifds'[i] = len /\ DOMAIN ifds = 1..(i - 1)
        /\ \A k \in DOMAIN ifds : ifds'[k] = ifds[k] /\ k \in Nat \ {0} /\ k < i
        /\ \A k \in DOMAIN ifds' : k \in DOMAIN ifds \/ k = i
    BY <1>0, <1>2, <1>6
  <2>5. \A k : Tags(k, big)' = Tags(k, big)
    BY <1>1 DEF Tags
  <2>6. DataStart' = DataStart
    BY <1>1 DEF DataStart, Reserved
  <2>7. len <= len' /\ len' \in Nat
    BY <1>2, <2>1, <2>3
  <2>8. IfdsInRow'
    <3> DEFINE end(k) == IfdEnd(ifds[k], Tags(k, big), big)
    <3>1. \A k \in DOMAIN ifds : /\ DataStart <= ifds[k] /\ end(k) <= len /\ end(k) \in Nat
                                 /\ \A m \in DOMAIN ifds : k < m => end(k) <= ifds[m]
      BY <1>3, IfdPlaces DEF IfdsInRow
    <3>2. \A k \in DOMAIN ifds : IfdEnd(ifds[k], Tags(k, big), big)' = end(k)
      BY <1>1, <2>4, <2>5
    <3>3. IfdEnd(ifds[i], Tags(i, big), big)' = IfdEnd(len, tags, big)
      BY <1>1, <2>4, <2>5
    <3> HIDE DEF end, tags
    <3>4. ASSUME NEW k \in DOMAIN ifds'
          PROVE  /\ DataStart' <= ifds'[k] /\ IfdEnd(ifds[k], Tags(k, big), big)' <= len'
                 /\ \A m \in DOMAIN ifds' :
                      k < m => IfdEnd(ifds[k], Tags(k, big), big)' <= ifds'[m]
      <4>1. CASE k \in DOMAIN ifds
        <5>1. /\ DataStart' <= ifds'[k] /\ IfdEnd(ifds[k], Tags(k, big), big)' = end(k)
              /\ end(k) <= len /\ end(k) \in Nat
          BY <2>4, <2>6, <3>1, <3>2, <4>1
        <5>2. end(k) <= len'
          BY <1>2, <2>7, <5>1
        <5>3. ASSUME NEW m \in DOMAIN ifds', k < m PROVE end(k) <= ifds'[m]
          <6>1. CASE m \in DOMAIN ifds
            BY <2>4, <3>1, <4>1, <5>3, <6>1
          <6>2. CASE m = i
            BY <2>4, <5>1, <6>2
          <6> QED BY <2>4, <6>1, <6>2
        <5> QED BY <5>1, <5>2, <5>3
      <4>2. CASE k = i
        <5>1. \A m \in DOMAIN ifds' : ~(k < m)
          BY <1>2, <2>4, <4>2
        <5> QED BY <1>2, <2>3, <2>4, <2>6, <2>7, <3>3, <4>2, <5>1
      <4> QED BY <2>4, <4>1, <4>2
    <3> QED BY <3>4 DEF IfdsInRow
  <2>9. cur = [image |-> 1, step |-> 1] /\ cur' = cur
    BY <1>1 DEF FileInv, Progress
  <2>10. ASSUME NEW k \in DOMAIN ifds' PROVE HoldsIfd(file, ifds[k], Tags(k, big), big, Now(k))'
    <3>1. k \in DOMAIN images /\ k \in Nat \ {0} /\ Len(images[k].records) \in Nat
      BY SMTT(30), <1>1, <1>2, <2>4, ImageFacts DEF TypeOK
    <3>2. \A m \in Nat \ {0} : ~Passed(k, m)'
      BY <2>9, <3>1 DEF Passed
    <3>3. ~(k + 1 < cur'.image)
      BY <2>9, <3>1
    <3>4. ASSUME NEW s \in Slots(Tags(k, big), big)
          PROVE  Now(k)'[s] = SlotStart(ifds'[k], Tags(k, big), big, s)
      <4> DEFINE r == images[k].records
      <4>1. /\ s = OffsetSlot(k, s.j)' => ~Passed(k, s.j)'
            /\ s = CountSlot(k, s.j)' => ~Passed(k, Len(r) + s.j)'
        <5>1. s.kind = "elem" => s.j \in Nat \ {0} /\ Len(r) + s.j \in Nat \ {0}
          BY <3>1, ElementSlot
        <5>2. (s = OffsetSlot(k, s.j)' \/ s = CountSlot(k, s.j)') => s.kind = "elem"
          BY DEF OffsetSlot, CountSlot, Slot
        <5> QED BY <3>2, <5>1, <5>2
      <4> QED BY <1>1, <2>5, <3>3, <4>1 DEF Now
    <3>5. HoldsIfd(file', ifds'[k], Tags(k, big), big, [s \in Slots(Tags(k, big), big) |->
                     SlotStart(ifds'[k], Tags(k, big), big, s)])
      <4>1. CASE k \in DOMAIN ifds
        <5>1. HoldsIfd(file, ifds[k], Tags(k, big), big, Now(k)) /\ ifds'[k] = ifds[k]
          BY <1>3, <2>4, <4>1 DEF IfdsOut
        <5>2. ASSUME NEW s \in Slots(Tags(k, big), big)
              PROVE  Now(k)[s] = SlotStart(ifds[k], Tags(k, big), big, s)
          <6> DEFINE r == images[k].records
          <6>1. \A m \in Nat \ {0} : ~Passed(k, m)
            BY <2>9, <3>1 DEF Passed
          <6>2. ~(k + 1 < cur.image)
            BY <2>9, <3>1
          <6>3. s.kind = "elem" => s.j \in Nat \ {0} /\ Len(r) + s.j \in Nat \ {0}
            BY <3>1, ElementSlot
          <6>4. (s = OffsetSlot(k, s.j) \/ s = CountSlot(k, s.j)) => s.kind = "elem"
            BY DEF OffsetSlot, CountSlot, Slot
          <6> QED BY <6>1, <6>2, <6>3, <6>4 DEF Now
        <5> QED BY <2>3, <5>1, <5>2 DEF HoldsIfd
      <4>2. CASE k = i
        BY <1>2, <2>3, <2>4, <4>2, IfdFieldsAre DEF HoldsIfd
      <4> QED BY <2>4, <4>1, <4>2
    <3> QED BY <1>1, <2>5, <3>4, <3>5 DEF HoldsIfd
  <2>11. Progress'
    BY <1>1, <1>6 DEF FileInv, Progress, PatchCount
  <2>12. HeaderOut'
    BY <1>1, <1>3, <2>3, <2>9 DEF HeaderOut, FirstPointer
  <2> QED BY <1>1, <1>6, <2>3, <2>7, <2>8, <2>10, <2>11, <2>12 DEF FileInv, IfdsOut
<1> QED BY <1>0, <1>4, <1>5, <1>6 DEF WriteIfd

----------------------------------------------------------------------------
\* The slots of all the IFDs are apart from each other and from the header.
LEMMA AllSlotsApart ==
  ASSUME TypeOK, Placed, FileInv, NEW k \in DOMAIN ifds, NEW s \in Slots(Tags(k, big), big), NEW v
  PROVE  LET w == InIfd(k, s, v)
         IN /\ w.off \in Nat /\ w.len \in Nat \ {0} /\ DataStart <= w.off /\ w.off + w.len <= len
            /\ \A j \in DOMAIN ifds : \A t \in Slots(Tags(j, big), big) : \A u :
                 LET x == InIfd(j, t, u)
                 IN (j # k \/ t # s) => Apart(x.off, x.len, w.off, w.len)
<1> DEFINE tags(j) == Tags(j, big)
           so(j, t) == SlotOff(ifds[j], tags(j), big, t)
           sl(t) == SlotLen(big, t)
           end(j) == IfdEnd(ifds[j], tags(j), big)
<1>1. \A j, t, u : InIfd(j, t, u).off = so(j, t) /\ InIfd(j, t, u).len = sl(t)
  BY FieldIs DEF InIfd, SlotField
<1>2. \A j \in DOMAIN ifds : /\ tags(j) \in Seq(Tag) /\ ifds[j] \in Nat /\ big \in BOOLEAN
                             /\ end(j) \in Nat /\ j \in Int
  BY IfdPlaces
<1>3. \A j \in DOMAIN ifds : \A t \in Slots(tags(j), big) :
        /\ so(j, t) \in Nat /\ sl(t) \in Nat \ {0} /\ ifds[j] <= so(j, t)
        /\ so(j, t) + sl(t) <= end(j)
  BY <1>2, SlotPlace
<1>4. \A j \in DOMAIN ifds : /\ DataStart <= ifds[j] /\ end(j) <= len
                             /\ \A m \in DOMAIN ifds : j < m => end(j) <= ifds[m]
  BY DEF FileInv, IfdsInRow
<1>5. DataStart \in Nat /\ len \in Nat
  BY ReservedCoversHeader DEF TypeOK
<1>6. ASSUME NEW j \in DOMAIN ifds, NEW t \in Slots(tags(j), big), j # k \/ t # s
      PROVE  Apart(so(j, t), sl(t), so(k, s), sl(s))
  <2>1. CASE j = k
    BY <1>2, <1>6, <2>1, SlotsApart
  <2>2. CASE j # k
    <3> HIDE DEF tags, so, sl, end
    <3>1. j < k \/ k < j
      BY <1>2, <2>2
    <3>2. CASE j < k
      BY <1>2, <1>3, <1>4, <3>2 DEF Apart, tags
    <3>3. CASE k < j
      BY <1>2, <1>3, <1>4, <3>3 DEF Apart, tags
    <3> QED BY <3>1, <3>2, <3>3
  <2> QED BY <2>1, <2>2
<1> HIDE DEF so, sl, end
<1>7. so(k, s) \in Nat /\ sl(s) \in Nat \ {0} /\ DataStart <= so(k, s) /\ so(k, s) + sl(s) <= len
  BY <1>2, <1>3, <1>4, <1>5
<1> QED BY <1>1, <1>6, <1>7

\* Patching a slot changes that slot and nothing else.
LEMMA SlotPatched ==
  ASSUME TypeOK, Placed, FileInv, NEW k \in DOMAIN ifds, NEW s \in Slots(Tags(k, big), big), NEW v,
         NEW w, w = InIfd(k, s, v),
         file' = Overwrite(file, w.off, w.len, {w}), len' = MaxOf(len, w.off + w.len)
  PROVE  /\ len' = len /\ FileSolid' /\ w \in file'
         /\ \A j \in DOMAIN ifds : \A t \in Slots(Tags(j, big), big) : \A u :
              (j # k \/ t # s) /\ InIfd(j, t, u) \in file => InIfd(j, t, u) \in file'
         /\ \A e \in file : e.off + e.len <= DataStart => e \in file'
<1>1. /\ w.off \in Nat /\ w.len \in Nat \ {0} /\ DataStart <= w.off /\ w.off + w.len <= len
      /\ DataStart \in Nat /\ len \in Nat
  BY AllSlotsApart, ReservedCoversHeader DEF TypeOK
<1>2. len' = len
  BY <1>1 DEF MaxOf
<1>3. Solid({w}) /\ FileSolid
  BY <1>1, FieldSolid DEF FileInv
<1>4. FileSolid' /\ w \in file' /\ \A e \in file : Apart(e.off, e.len, w.off, w.len) => e \in file'
  BY SMTT(30), <1>1, <1>2, <1>3, FileWrite
<1>5. ASSUME NEW j \in DOMAIN ifds, NEW t \in Slots(Tags(j, big), big), NEW u,
             j # k \/ t # s, InIfd(j, t, u) \in file
      PROVE  InIfd(j, t, u) \in file'
  <2>1. Apart(InIfd(j, t, u).off, InIfd(j, t, u).len, w.off, w.len)
    BY <1>5, AllSlotsApart
  <2> QED BY <1>4, <1>5, <2>1
<1>6. ASSUME NEW e \in file, e.off + e.len <= DataStart PROVE e \in file'
  <2>1. e.off \in Nat /\ e.len \in Nat
    BY <1>3 DEF FileSolid, Solid
  <2>2. Apart(e.off, e.len, w.off, w.len)
    BY <1>1, <1>6, <2>1 DEF Apart
  <2> QED BY <1>4, <2>2
<1> QED BY <1>2, <1>4, <1>5, <1>6

\* Linking the first IFD changes the pointer in the header and nothing else.
LEMMA HeadPatched ==
  ASSUME TypeOK, Placed, FileInv, NEW v, NEW w, w = FirstPointer(v),
         file' = Overwrite(file, w.off, w.len, {w}), len' = MaxOf(len, w.off + w.len)
  PROVE  /\ len' = len /\ FileSolid' /\ w \in file'
         /\ \A j \in DOMAIN ifds : \A t \in Slots(Tags(j, big), big) : \A u :
              InIfd(j, t, u) \in file => InIfd(j, t, u) \in file'
         /\ \A x : Field(headerOffset, 4, x) \in file => Field(headerOffset, 4, x) \in file'
         /\ big => (Field(headerOffset + 4, 4, 8) \in file => Field(headerOffset + 4, 4, 8) \in file')
<1>1. /\ headerOffset \in Nat /\ len \in Nat /\ DataStart \in Nat /\ DataStart <= len /\ big \in BOOLEAN
      /\ headerOffset + HeaderLen(big) <= DataStart
  BY ReservedCoversHeader DEF TypeOK, Placed
<1>2. /\ w.off = headerOffset + (IF big THEN 8 ELSE 4) /\ w.len = IF big THEN 8 ELSE 4
      /\ w.off + w.len = headerOffset + HeaderLen(big)
  BY <1>1 DEF FirstPointer, Field, Width, ElementWidth, HeaderLen
<1>3. /\ w.off \in Nat /\ w.len \in Nat \ {0} /\ w.off + w.len <= DataStart
  BY <1>1, <1>2
<1>4. len' = len
  BY <1>1, <1>3 DEF MaxOf
<1>5. Solid({w}) /\ FileSolid
  BY <1>3, FieldSolid DEF FileInv
<1>6. FileSolid' /\ w \in file' /\ \A e \in file : Apart(e.off, e.len, w.off, w.len) => e \in file'
  BY SMTT(30), <1>1, <1>3, <1>4, <1>5, FileWrite
<1>7. ASSUME NEW j \in DOMAIN ifds, NEW t \in Slots(Tags(j, big), big), NEW u, InIfd(j, t, u) \in file
      PROVE  InIfd(j, t, u) \in file'
  <2>1. InIfd(j, t, u).off \in Nat /\ DataStart <= InIfd(j, t, u).off
    BY AllSlotsApart
  <2>2. Apart(InIfd(j, t, u).off, InIfd(j, t, u).len, w.off, w.len)
    BY <1>1, <1>3, <2>1 DEF Apart
  <2> QED BY <1>6, <1>7, <2>2
<1>8. ASSUME NEW x, Field(headerOffset, 4, x) \in file PROVE Field(headerOffset, 4, x) \in file'
  <2>1. Field(headerOffset, 4, x).off = headerOffset /\ Field(headerOffset, 4, x).len = 4
    BY FieldIs
  <2>2. Apart(headerOffset, 4, w.off, w.len)
    BY <1>1, <1>2 DEF Apart
  <2> QED BY <1>6, <1>8, <2>1, <2>2
<1>9. ASSUME big, Field(headerOffset + 4, 4, 8) \in file PROVE Field(headerOffset + 4, 4, 8) \in file'
  <2>1. Field(headerOffset + 4, 4, 8).off = headerOffset + 4 /\ Field(headerOffset + 4, 4, 8).len = 4
    BY FieldIs
  <2>2. Apart(headerOffset + 4, 4, w.off, w.len)
    BY <1>1, <1>2, <1>9 DEF Apart
  <2> QED BY <1>6, <1>9, <2>1, <2>2
<1> QED BY <1>4, <1>6, <1>7, <1>8, <1>9

\* The elements of the two arrays, and the pointer, are different slots.
LEMMA ArrayElements ==
  ASSUME TypeOK, NEW k \in DOMAIN images, NEW s \in Slots(Tags(k, big), big)
  PROVE  /\ s = OffsetSlot(k, s.j) => /\ s.j \in 1..Len(images[k].records)
                                      /\ s # CountSlot(k, s.j) /\ s # NextSlot
         /\ s = CountSlot(k, s.j) => s.j \in 1..Len(images[k].records) /\ s # NextSlot
<1> DEFINE b == images[k].builder
           n == Len(images[k].records)
           tags == Tags(k, big)
           o == ArrayIndex(tags, OffsetsTagCode(b))
           c == ArrayIndex(tags, ByteCountsTagCode(b))
<1>1. /\ big \in BOOLEAN /\ b \in Builder /\ Validate(b) /\ n = CheckedBlockCount(b)
      /\ tags = BuildTags(b, big)
  BY ImageFacts DEF TypeOK
<1>2. /\ tags[o].code = OffsetsTagCode(b) /\ tags[o].len \div Width(big) = n
      /\ tags[c].code = ByteCountsTagCode(b) /\ tags[c].len \div Width(big) = n
  BY <1>1, BlockArrayIndex
<1>3. OffsetsTagCode(b) # ByteCountsTagCode(b)
  BY DEF OffsetsTagCode, ByteCountsTagCode, TagStripOffsets, TagTileOffsets, TagStripByteCounts,
     TagTileByteCounts
<1>4. o # c
  BY <1>2, <1>3
<1> HIDE DEF tags, o, c
<1>5. OffsetSlot(k, s.j) = [kind |-> "elem", i |-> o, j |-> s.j]
      /\ CountSlot(k, s.j) = [kind |-> "elem", i |-> c, j |-> s.j]
  BY DEF OffsetSlot, CountSlot, Slot, o, c, tags
<1>6. NextSlot.kind = "next"
  BY DEF NextSlot, Slot
<1>7. s.kind = "elem" => s.j \in 1..(tags[s.i].len \div Width(big))
  BY ElementSlot DEF tags
<1>8. CASE s = OffsetSlot(k, s.j)
  <2>1. s.kind = "elem" /\ s.i = o
    BY <1>5, <1>8
  <2>2. CountSlot(k, s.j).i = c
    BY <1>5
  <2>3. s # CountSlot(k, s.j) /\ s # NextSlot
    BY <1>4, <1>6, <2>1, <2>2
  <2> QED BY <1>2, <1>7, <2>1, <2>3
<1>9. CASE s = CountSlot(k, s.j)
  <2>1. s.kind = "elem" /\ s.i = c
    BY <1>5, <1>9
  <2>2. OffsetSlot(k, s.j).i = o
    BY <1>5
  <2>3. s # OffsetSlot(k, s.j) /\ s # NextSlot
    BY <1>4, <1>6, <2>1, <2>2
  <2> QED BY <1>2, <1>7, <2>1, <2>3
<1> QED BY <1>8, <1>9

\* What a patch step adds to the patches that are written.
LEMMA PassedStep ==
  ASSUME TypeOK, FileInv, cur.image \in DOMAIN images, images' = images,
         cur' = IF cur.step < PatchCount(cur.image) THEN [cur EXCEPT !.step = @ + 1]
                ELSE [image |-> cur.image + 1, step |-> 1]
  PROVE  LET last == cur.step = PatchCount(cur.image)
         IN /\ cur.step \in 1..PatchCount(cur.image)
            /\ \A k \in DOMAIN images : \A m \in 1..(2 * Len(images[k].records)) :
                 Passed(k, m)' <=> Passed(k, m) \/ (k = cur.image /\ m = cur.step)
            /\ \A k \in Nat : k < cur'.image <=> k < cur.image \/ (k = cur.image /\ last)
            /\ cur'.image <= Len(images) + 1
            /\ cur'.image <= Len(images) => cur'.step <= PatchCount(cur'.image)
<1> DEFINE i == cur.image
           p == cur.step
           n(k) == Len(images[k].records)
<1>1. /\ i \in Nat \ {0} /\ p \in Nat \ {0} /\ cur = [image |-> i, step |-> p]
      /\ Len(images) \in Nat /\ DOMAIN images = 1..Len(images)
  BY DEF TypeOK
<1>2. \A k \in DOMAIN images : n(k) \in Nat \ {0} /\ PatchCount(k) = 2 * n(k) + 1
  BY ImageFacts DEF TypeOK, PatchCount
<1>3. p <= PatchCount(i)
  BY <1>1 DEF FileInv, Progress
<1> HIDE DEF n
<1>4. CASE p < PatchCount(i)
  <2>1. cur'.image = i /\ cur'.step = p + 1
    BY <1>1, <1>4
  <2>2. ASSUME NEW k \in DOMAIN images, NEW m \in 1..(2 * n(k))
        PROVE  Passed(k, m)' <=> Passed(k, m) \/ (k = i /\ m = p)
    <3>1. k \in Nat /\ m \in Nat
      BY <1>1, <1>2
    <3> QED BY <1>1, <2>1, <3>1 DEF Passed
  <2> QED BY <1>1, <1>2, <1>3, <1>4, <2>1, <2>2 DEF n
<1>5. CASE p = PatchCount(i)
  <2>1. cur'.image = i + 1 /\ cur'.step = 1
    BY <1>1, <1>5
  <2>2. ASSUME NEW k \in DOMAIN images, NEW m \in 1..(2 * n(k))
        PROVE  Passed(k, m)' <=> Passed(k, m) \/ (k = i /\ m = p)
    <3>1. k \in Nat /\ m \in Nat /\ 1 <= m /\ m <= 2 * n(k)
      BY <1>1, <1>2
    <3>2. k = i => m < p
      BY <1>2, <1>5, <3>1
    <3> QED BY <1>1, <2>1, <3>1, <3>2 DEF Passed
  <2>3. i + 1 <= Len(images) => 1 <= PatchCount(i + 1)
    <3>1. i + 1 <= Len(images) => i + 1 \in DOMAIN images
      BY <1>1
    <3> QED BY <1>2, <3>1
  <2>4. \A k \in Nat : k < i + 1 <=> k < i \/ k = i
    BY <1>1
  <2>5. i + 1 <= Len(images) + 1
    BY <1>1
  <2>6. p \in 1..PatchCount(i)
    BY <1>1, <1>2, <1>5
  <2>7. cur'.image <= Len(images) => cur'.step <= PatchCount(cur'.image)
    BY <2>1, <2>3
  <2> HIDE DEF i, p
  <2> QED BY <1>5, <2>1, <2>2, <2>4, <2>5, <2>6, <2>7 DEF n, i, p
<1> QED BY <1>1, <1>2, <1>3, <1>4, <1>5

\* What a patch step changes in the slots of the IFDs.
LEMMA NowStep ==
  ASSUME TypeOK, FileInv, cur.image \in DOMAIN images, UNCHANGED <<images, ifds, big>>,
         cur' = IF cur.step < PatchCount(cur.image) THEN [cur EXCEPT !.step = @ + 1]
                ELSE [image |-> cur.image + 1, step |-> 1],
         Len(ifds) = Len(images), NEW k \in DOMAIN ifds, NEW s \in Slots(Tags(k, big), big)
  PROVE  LET i == cur.image
             p == cur.step
             n == Len(images[i].records)
             r == images[i].records
         IN /\ p <= n => Now(k)'[s] = IF k = i /\ s = OffsetSlot(i, p) THEN r[p].off ELSE Now(k)[s]
            /\ n < p /\ p <= 2 * n =>
                 Now(k)'[s] = IF k = i /\ s = CountSlot(i, p - n) THEN r[p - n].count ELSE Now(k)[s]
            /\ 2 * n < p =>
                 Now(k)'[s] = IF k + 1 = i /\ s = NextSlot THEN ifds[i] ELSE Now(k)[s]
<1> DEFINE i == cur.image
           p == cur.step
           n == Len(images[i].records)
           r == images[i].records
           N == Len(images[k].records)
           R == images[k].records
           isX == s = NextSlot
           isO == s = OffsetSlot(k, s.j)
           isC == s = CountSlot(k, s.j)
           start == SlotStart(ifds[k], Tags(k, big), big, s)
<1>1. /\ k \in DOMAIN images /\ k \in Nat \ {0} /\ N \in Nat \ {0} /\ n \in Nat \ {0}
      /\ i \in Nat \ {0} /\ p \in Nat \ {0}
  <2>1. k \in DOMAIN images /\ k \in 1..Len(ifds) /\ big \in BOOLEAN
    BY IfdPlaces
  <2>2. N \in Nat \ {0} /\ n \in Nat \ {0}
    BY <2>1, ImageFacts
  <2>3. i \in Nat \ {0} /\ p \in Nat \ {0}
    BY DEF TypeOK
  <2> QED BY <2>1, <2>2, <2>3
<1>2. Tags(k, big)' = Tags(k, big)
  BY DEF Tags
<1>3. Now(k)'[s] = IF isX /\ k + 1 < cur'.image THEN ifds[k + 1]
                   ELSE IF isO /\ Passed(k, s.j)' THEN R[s.j].off
                   ELSE IF isC /\ Passed(k, N + s.j)' THEN R[s.j].count ELSE start
  BY <1>2 DEF Now, OffsetSlot, CountSlot
<1>4. Now(k)[s] = IF isX /\ k + 1 < i THEN ifds[k + 1]
                  ELSE IF isO /\ Passed(k, s.j) THEN R[s.j].off
                  ELSE IF isC /\ Passed(k, N + s.j) THEN R[s.j].count ELSE start
  BY DEF Now
<1>5. /\ isO => s.j \in 1..N /\ ~isC /\ ~isX
      /\ isC => s.j \in 1..N /\ ~isX
  BY <1>1, ArrayElements
<1>6. /\ p \in 1..PatchCount(i) /\ PatchCount(i) = 2 * n + 1
      /\ \A m \in 1..(2 * N) : Passed(k, m)' <=> Passed(k, m) \/ (k = i /\ m = p)
      /\ k + 1 < cur'.image <=> k + 1 < i \/ (k + 1 = i /\ p = PatchCount(i))
  <2>1. k + 1 \in Nat
    BY <1>1
  <2> QED BY <1>1, <2>1, PassedStep DEF PatchCount
<1>7. /\ k = i /\ s = OffsetSlot(i, p) <=> k = i /\ isO /\ s.j = p
      /\ k = i /\ s = CountSlot(i, p - n) <=> k = i /\ isC /\ s.j = p - n
  BY DEF OffsetSlot, CountSlot, Slot
<1>8. k = i => N = n /\ R = r
  OBVIOUS
<1>9. /\ isO => (Passed(k, s.j)' <=> Passed(k, s.j) \/ (k = i /\ s.j = p))
      /\ isC => (Passed(k, N + s.j)' <=> Passed(k, N + s.j) \/ (k = i /\ N + s.j = p))
  <2>1. isO => s.j \in 1..(2 * N)
    BY <1>1, <1>5
  <2>2. isC => N + s.j \in 1..(2 * N)
    BY <1>1, <1>5
  <2> QED BY <1>6, <2>1, <2>2
<1> DEFINE new == Now(k)'[s]
           old == Now(k)[s]
           offTarget == k = i /\ s = OffsetSlot(i, p)
           countTarget == k = i /\ s = CountSlot(i, p - n)
<1>13. /\ isX /\ k + 1 < cur'.image => new = ifds[k + 1]
       /\ isO /\ Passed(k, s.j)' => new = R[s.j].off
       /\ isC /\ Passed(k, N + s.j)' => new = R[s.j].count
  BY <1>3, <1>5
<1> HIDE DEF isX, isO, isC, start, N, n, R, r, new, old, offTarget, countTarget
<1>14. ASSUME isX => (k + 1 < cur'.image <=> k + 1 < i),
              isO => (Passed(k, s.j)' <=> Passed(k, s.j)),
              isC => (Passed(k, N + s.j)' <=> Passed(k, N + s.j))
       PROVE  new = old
  BY <1>3, <1>4, <1>14 DEF new, old
<1>10. ASSUME p <= n PROVE new = IF offTarget THEN r[p].off ELSE old
  <2>1. p # PatchCount(i)
    BY <1>1, <1>6, <1>10
  <2>2. isC => ~(k = i /\ N + s.j = p)
    BY <1>1, <1>5, <1>8, <1>10
  <2>3. CASE offTarget
    <3>1. k = i /\ isO /\ s.j = p
      BY <1>7, <2>3 DEF offTarget
    <3> QED BY <1>8, <1>9, <1>13, <2>3, <3>1
  <2>4. CASE ~offTarget
    <3>1. isO => ~(k = i /\ s.j = p)
      BY <1>7, <2>4 DEF offTarget
    <3> QED BY <1>6, <1>9, <1>14, <2>1, <2>2, <2>4, <3>1
  <2> QED BY <2>3, <2>4
<1>11. ASSUME n < p, p <= 2 * n PROVE new = IF countTarget THEN r[p - n].count ELSE old
  <2>1. p # PatchCount(i)
    BY <1>1, <1>6, <1>11
  <2>2. isO => ~(k = i /\ s.j = p)
    BY <1>1, <1>5, <1>8, <1>11
  <2>3. isC => (k = i /\ N + s.j = p <=> k = i /\ s.j = p - n)
    BY <1>1, <1>5, <1>8, <1>11
  <2>4. CASE countTarget
    <3>1. k = i /\ isC /\ s.j = p - n /\ N + s.j = p
      BY <1>7, <2>3, <2>4 DEF countTarget
    <3> QED BY <1>8, <1>9, <1>13, <2>4, <3>1
  <2>5. CASE ~countTarget
    <3>1. isC => ~(k = i /\ N + s.j = p)
      BY <1>7, <2>3, <2>5 DEF countTarget
    <3> QED BY <1>6, <1>9, <1>14, <2>1, <2>2, <2>5, <3>1
  <2> QED BY <2>4, <2>5
<1>12. ASSUME 2 * n < p PROVE new = IF k + 1 = i /\ isX THEN ifds[i] ELSE old
  <2>1. p = PatchCount(i)
    BY <1>1, <1>6, <1>12
  <2>2. isO => ~(k = i /\ s.j = p)
    BY <1>1, <1>5, <1>8, <1>12
  <2>3. isC => ~(k = i /\ N + s.j = p)
    BY <1>1, <1>5, <1>8, <1>12
  <2>4. CASE k + 1 = i /\ isX
    BY <1>6, <1>13, <2>1, <2>4
  <2>5. CASE ~(k + 1 = i /\ isX)
    BY <1>6, <1>9, <1>14, <2>2, <2>3, <2>5
  <2> QED BY <2>4, <2>5
<1> QED BY <1>10, <1>11, <1>12 DEF n, r, new, old, isX, offTarget, countTarget

\* An IFD that is out stays as it is but for the slot patched.
LEMMA IfdsStep ==
  ASSUME TypeOK, Placed, FileInv, IfdsOut, UNCHANGED <<images, ifds, big, headerOffset>>,
         NEW k \in DOMAIN ifds, NEW s \in Slots(Tags(k, big), big), NEW v, NEW w, w = InIfd(k, s, v),
         file' = Overwrite(file, w.off, w.len, {w}), len' = MaxOf(len, w.off + w.len),
         \A j \in DOMAIN ifds : \A t \in Slots(Tags(j, big), big) :
           Now(j)'[t] = IF j = k /\ t = s THEN v ELSE Now(j)[t]
  PROVE  IfdsOut'
<1>1. /\ w \in file'
      /\ \A j \in DOMAIN ifds : \A t \in Slots(Tags(j, big), big) : \A u :
           (j # k \/ t # s) /\ InIfd(j, t, u) \in file => InIfd(j, t, u) \in file'
  BY SlotPatched
<1>2. ASSUME NEW j \in DOMAIN ifds, NEW t \in Slots(Tags(j, big), big)
      PROVE  InIfd(j, t, Now(j)'[t]) \in file'
  <2>1. CASE j = k /\ t = s
    BY <1>1, <2>1
  <2>2. CASE ~(j = k /\ t = s)
    <3>1. InIfd(j, t, Now(j)[t]) \in file
      BY DEF IfdsOut, HoldsIfd, InIfd
    <3>2. Now(j)'[t] = Now(j)[t]
      BY <2>2
    <3> QED BY <1>1, <2>2, <3>1, <3>2
  <2> QED BY <2>1, <2>2
<1>3. \A j : Tags(j, big)' = Tags(j, big)
  BY DEF Tags
<1> QED BY <1>2, <1>3 DEF IfdsOut, HoldsIfd, InIfd

\* Every patch goes to its slot; the sink does not grow.
LEMMA FilePatch ==
  ASSUME TypeOK, Placed, FileInv, WritePatch
  PROVE  FileInv' /\ len' = len
<1> USE DEF options, sink
<1> DEFINE i == cur.image
           p == cur.step
           n == Len(images[i].records)
           r == images[i].records
<1>1. /\ UNCHANGED <<images, headerOffset, variant, big, ifds>>
      /\ phase = "patch" /\ i \in DOMAIN images /\ Len(ifds) = Len(images)
  BY DEF WritePatch, Fail, TypeOK
<1>2. /\ FileSolid /\ HeaderOut /\ IfdsOut /\ IfdsInRow
      /\ len \in Nat /\ i \in DOMAIN ifds /\ i \in Nat \ {0} /\ p \in Nat \ {0} /\ n \in Nat \ {0}
      /\ big \in BOOLEAN /\ 1 \in DOMAIN ifds
  <2>1. n \in Nat \ {0} /\ i \in 1..Len(images)
    BY <1>1, ImageFacts DEF TypeOK
  <2>2. len \in Nat /\ p \in Nat \ {0} /\ ifds \in Seq(Nat) /\ big \in BOOLEAN
    BY DEF TypeOK
  <2> QED BY <1>1, <2>1, <2>2 DEF FileInv
<1>3. CASE Fail("overflow") /\ UNCHANGED sink
  <2>1. FileSolid' /\ len' = len
    BY <1>2, <1>3 DEF FileSolid
  <2> QED BY <1>1, <1>2, <1>3, <2>1, FileStepFail DEF Fail
<1>4. CASE ~(Fail("overflow") /\ UNCHANGED sink)
  <2>1. /\ phase' = phase
        /\ cur' = IF p < PatchCount(i) THEN [cur EXCEPT !.step = @ + 1]
                  ELSE [image |-> i + 1, step |-> 1]
        /\ Patch(i, p) # {} => \E w \in Patch(i, p) : /\ file' = Overwrite(file, w.off, w.len, {w})
                                                      /\ len' = MaxOf(len, w.off + w.len)
    BY <1>1, <1>4 DEF WritePatch
  <2>2. /\ p <= n => Patch(i, p) = {InIfd(i, OffsetSlot(i, p), r[p].off)}
        /\ n < p /\ p <= 2 * n => Patch(i, p) = {InIfd(i, CountSlot(i, p - n), r[p - n].count)}
        /\ 2 * n < p /\ i > 1 => Patch(i, p) = {InIfd(i - 1, NextSlot, ifds[i])}
        /\ 2 * n < p /\ i = 1 => Patch(i, p) = {FirstPointer(ifds[1])}
    BY <1>1, <1>2, PatchSlots
  <2>3. \A k \in DOMAIN ifds : \A s \in Slots(Tags(k, big), big) :
          /\ p <= n => Now(k)'[s] = IF k = i /\ s = OffsetSlot(i, p) THEN r[p].off ELSE Now(k)[s]
          /\ n < p /\ p <= 2 * n =>
               Now(k)'[s] = IF k = i /\ s = CountSlot(i, p - n) THEN r[p - n].count ELSE Now(k)[s]
          /\ 2 * n < p =>
               Now(k)'[s] = IF k + 1 = i /\ s = NextSlot THEN ifds[i] ELSE Now(k)[s]
    BY <1>1, <2>1, NowStep
  <2>4. /\ 1 < cur'.image <=> 1 < i \/ (1 = i /\ p = PatchCount(i))
        /\ cur'.image <= Len(images) + 1
        /\ cur'.image <= Len(images) => cur'.step <= PatchCount(cur'.image)
        /\ p \in 1..PatchCount(i) /\ PatchCount(i) = 2 * n + 1
    BY <1>1, <2>1, PassedStep DEF PatchCount
  <2>5. ASSUME NEW k \in DOMAIN ifds, NEW s \in Slots(Tags(k, big), big), NEW v, NEW w,
               w = InIfd(k, s, v),
               file' = Overwrite(file, w.off, w.len, {w}), len' = MaxOf(len, w.off + w.len),
               \A j \in DOMAIN ifds : \A t \in Slots(Tags(j, big), big) :
                 Now(j)'[t] = IF j = k /\ t = s THEN v ELSE Now(j)[t],
               1 < cur'.image <=> 1 < i
        PROVE  FileSolid' /\ len' = len /\ HeaderOut' /\ IfdsOut'
    <3>1. IfdsOut'
      <4>1. UNCHANGED <<images, ifds, big, headerOffset>> /\ IfdsOut
        BY <1>1, <1>2
      <4> HIDE DEF i, p, n, r
      <4> QED BY <2>5, <4>1, IfdsStep
    <3>2. /\ len' = len /\ FileSolid' /\ \A e \in file : e.off + e.len <= DataStart => e \in file'
      BY <2>5, SlotPatched
    <3>3. /\ headerOffset \in Nat /\ DataStart \in Nat /\ headerOffset + HeaderLen(big) <= DataStart
      BY ReservedCoversHeader
    <3>4. \A x : /\ Field(headerOffset, 4, x).off + Field(headerOffset, 4, x).len <= DataStart
                 /\ FirstPointer(x).off + FirstPointer(x).len <= DataStart
      BY <1>2, <3>3 DEF Field, FirstPointer, HeaderLen, Width, ElementWidth
    <3>5. big => Field(headerOffset + 4, 4, 8).off + Field(headerOffset + 4, 4, 8).len <= DataStart
      BY <3>3 DEF Field, HeaderLen
    <3>6. HeaderOut'
      <4>1. \A x : FirstPointer(x)' = FirstPointer(x)
        BY <1>1 DEF FirstPointer
      <4> QED BY <1>1, <1>2, <2>5, <3>2, <3>4, <3>5, <4>1 DEF HeaderOut
    <3> QED BY <3>1, <3>2, <3>6
  <2>9. i \in DOMAIN ifds
    BY <1>2
  <2>6. FileSolid' /\ len' = len /\ HeaderOut' /\ IfdsOut'
    <3>1. CASE p <= n
      <4>1. OffsetSlot(i, p) \in Slots(Tags(i, big), big)
        BY <1>1, <1>2, <3>1, ArraySlots
      <4>2. PICK w : /\ w = InIfd(i, OffsetSlot(i, p), r[p].off)
                     /\ file' = Overwrite(file, w.off, w.len, {w}) /\ len' = MaxOf(len, w.off + w.len)
        BY <2>1, <2>2, <3>1
      <4>3. \A j \in DOMAIN ifds : \A t \in Slots(Tags(j, big), big) :
              Now(j)'[t] = IF j = i /\ t = OffsetSlot(i, p) THEN r[p].off ELSE Now(j)[t]
        BY <2>3, <3>1
      <4>4. 1 < cur'.image <=> 1 < i
        BY <1>2, <2>4, <3>1
      <4> HIDE DEF i, p, n, r
      <4> QED BY <2>9, <2>5, <4>1, <4>2, <4>3, <4>4
    <3>2. CASE n < p /\ p <= 2 * n
      <4>1. p - n \in 1..n
        BY <1>2, <3>2
      <4>2. CountSlot(i, p - n) \in Slots(Tags(i, big), big)
        BY <1>1, <4>1, ArraySlots
      <4>3. PICK w : /\ w = InIfd(i, CountSlot(i, p - n), r[p - n].count)
                     /\ file' = Overwrite(file, w.off, w.len, {w}) /\ len' = MaxOf(len, w.off + w.len)
        BY <2>1, <2>2, <3>2
      <4>4. \A j \in DOMAIN ifds : \A t \in Slots(Tags(j, big), big) :
              Now(j)'[t] = IF j = i /\ t = CountSlot(i, p - n) THEN r[p - n].count ELSE Now(j)[t]
        BY <2>3, <3>2
      <4>5. 1 < cur'.image <=> 1 < i
        BY <1>2, <2>4, <3>2
      <4> HIDE DEF i, p, n, r
      <4> QED BY <2>9, <2>5, <4>2, <4>3, <4>4, <4>5
    <3>3. CASE 2 * n < p /\ i > 1
      <4>1. i - 1 \in DOMAIN ifds /\ i - 1 \in DOMAIN images
        BY <1>1, <1>2, <3>3 DEF TypeOK
      <4>2. NextSlot \in Slots(Tags(i - 1, big), big)
        BY DEF NextSlot, Slots, Slot
      <4>3. \A k \in DOMAIN ifds : k + 1 = i <=> k = i - 1
        BY <1>2 DEF TypeOK
      <4>4. 1 < cur'.image <=> 1 < i
        BY <2>4, <3>3
      <4>5. PICK w : /\ w = InIfd(i - 1, NextSlot, ifds[i])
                     /\ file' = Overwrite(file, w.off, w.len, {w}) /\ len' = MaxOf(len, w.off + w.len)
        BY <2>1, <2>2, <3>3
      <4>6. \A j \in DOMAIN ifds : \A t \in Slots(Tags(j, big), big) :
              Now(j)'[t] = IF j = i - 1 /\ t = NextSlot THEN ifds[i] ELSE Now(j)[t]
        BY <2>3, <3>3, <4>3
      <4> HIDE DEF i, p, n, r
      <4> QED BY <2>5, <4>1, <4>2, <4>4, <4>5, <4>6
    <3>4. CASE 2 * n < p /\ i = 1
      <4>1. \A k \in DOMAIN ifds : k + 1 # i
        BY <1>2, <3>4 DEF TypeOK
      <4>2. PICK w : /\ w = FirstPointer(ifds[1])
                     /\ file' = Overwrite(file, w.off, w.len, {w}) /\ len' = MaxOf(len, w.off + w.len)
        BY <2>1, <2>2, <3>4
      <4>3. /\ len' = len /\ FileSolid' /\ w \in file'
            /\ \A j \in DOMAIN ifds : \A t \in Slots(Tags(j, big), big) : \A u :
                 InIfd(j, t, u) \in file => InIfd(j, t, u) \in file'
            /\ \A x : Field(headerOffset, 4, x) \in file => Field(headerOffset, 4, x) \in file'
            /\ big => (Field(headerOffset + 4, 4, 8) \in file => Field(headerOffset + 4, 4, 8) \in file')
        BY <4>2, HeadPatched
      <4>4. p = PatchCount(i) /\ cur'.image > 1
        BY <1>2, <2>4, <3>4
      <4>5. HeaderOut'
        <5>1. \A x : FirstPointer(x)' = FirstPointer(x)
          BY <1>1 DEF FirstPointer
        <5> QED BY <1>1, <1>2, <4>2, <4>3, <4>4, <5>1 DEF HeaderOut
      <4>6. ASSUME NEW j \in DOMAIN ifds, NEW t \in Slots(Tags(j, big), big)
            PROVE  InIfd(j, t, Now(j)'[t]) \in file'
        <5>1. Now(j)'[t] = Now(j)[t]
          BY <2>3, <3>4, <4>1
        <5>2. InIfd(j, t, Now(j)[t]) \in file
          BY <1>2 DEF IfdsOut, HoldsIfd, InIfd
        <5> QED BY <4>3, <5>1, <5>2
      <4>7. \A j : Tags(j, big)' = Tags(j, big)
        BY <1>1 DEF Tags
      <4>8. IfdsOut'
        BY <1>1, <4>6, <4>7 DEF IfdsOut, HoldsIfd, InIfd
      <4> QED BY <4>3, <4>5, <4>8
    <3> QED BY <1>2, <3>1, <3>2, <3>3, <3>4
  <2>7. Progress'
    <3>1. PatchCount(cur'.image) = PatchCount(cur.image)'
      BY <1>1 DEF PatchCount
    <3> QED BY <1>1, <2>1, <2>4, <3>1 DEF FileInv, Progress
  <2>8. IfdsInRow'
    <3>1. DataStart' = DataStart /\ \A j : Tags(j, big)' = Tags(j, big)
      BY <1>1 DEF DataStart, Reserved, Tags
    <3> QED BY <1>1, <1>2, <2>6, <3>1 DEF IfdsInRow
  <2> QED BY <1>1, <2>1, <2>6, <2>7, <2>8 DEF FileInv
<1> QED BY <1>3, <1>4

\* The sink fails during finish(): what is left is still made of disjoint extents.
LEMMA FileFails ==
  ASSUME TypeOK, TypeOK', Placed, FileInv, FinishFails
  PROVE  FileInv' /\ len <= len'
<1> USE DEF options, sink
<1>1. /\ UNCHANGED <<images, ifds, cur, big, headerOffset, variant>> /\ phase' = "failed"
      /\ len \in Nat /\ len' \in Nat /\ FileSolid
  BY DEF FinishFails, Fail, TypeOK, FileInv
<1>2. CASE UNCHANGED sink
  <2>1. FileSolid' /\ len <= len'
    BY <1>1, <1>2 DEF FileSolid
  <2> QED BY <1>1, <2>1, FileStepFail
<1>3. ASSUME NEW w \in HeaderFields, w.off = headerOffset,
             file' = Overwrite(file, w.off, w.len, {w}), UNCHANGED len
      PROVE  FileInv' /\ len <= len'
  <2>1. w \in Fields
    BY <1>3, HeaderFieldsType
  <2>2. w.off \in Nat /\ w.len \in Nat \ {0}
    BY <2>1 DEF Fields
  <2>3. /\ headerOffset \in Nat /\ HeaderLen(big) \in Nat /\ headerOffset + HeaderLen(big) <= len
    BY <1>1, ReservedCoversHeader DEF Placed
  <2>4. w.len <= HeaderLen(big)
    BY <1>3, <2>3 DEF HeaderFields, Field, HeaderLen
  <2>5. FileSolid'
    BY <1>1, <1>3, <2>2, <2>3, <2>4, FieldSolid, FileWrite
  <2> QED BY <1>1, <1>3, <2>5, FileStepFail
<1>4. ASSUME Len(ifds) < Len(images),
             NEW k \in {1, IfdEnd(0, Tags(Len(ifds) + 1, big), big) - 1}, AppendToSink(k, {})
      PROVE  FileInv' /\ len <= len'
  <2>1. Len(ifds) + 1 \in DOMAIN images /\ big \in BOOLEAN
    BY <1>4 DEF TypeOK
  <2>2. Tags(Len(ifds) + 1, big) \in Seq(Tag)
    BY <2>1, TagsType
  <2>3. k \in Nat
    BY <1>4, <2>1, <2>2, IfdEndPositive
  <2>4. FileSolid' /\ len <= len'
    BY <1>1, <1>4, <2>3, NothingSolid, FileAppend
  <2> QED BY <1>1, <2>4, FileStepFail
<1> QED BY <1>2, <1>3, <1>4 DEF FinishFails

\* Every step keeps FileInv.
LEMMA FileStep ==
  ASSUME TypeOK, TypeOK', Placed, FileInv, [Next]_vars
  PROVE  FileInv' /\ len <= len'
<1> USE DEF options, sink, finishing
<1>0. len \in Nat /\ len' \in Nat /\ images \in Seq(IfdState)
  BY DEF TypeOK
<1>a. ASSUME phase = "open", UNCHANGED <<headerOffset, file, len, phase, ifds, cur>>,
             Len(images') <= MaxImages
      PROVE  FileInv' /\ len <= len'
  <2>1. FileSolid' /\ Unnamed'
    BY <1>a DEF FileInv, FileSolid, Unnamed
  <2> QED BY <1>0, <1>a, <2>1, FileStepOpen
<1>b. ASSUME phase = "open", UNCHANGED <<headerOffset, phase, ifds, cur>>, Len(images') = Len(images),
             NEW n \in Nat, NEW fields, AppendToSink(n, fields), Solid(fields),
             \A e \in fields : len <= e.off /\ e.off + e.len <= len + n
      PROVE  FileInv' /\ len <= len'
  <2>1. FileSolid' /\ Unnamed'
    BY <1>b, UnnamedAppend
  <2>2. Len(images') <= MaxImages
    BY <1>b DEF FileInv, Progress
  <2>3. len <= len'
    BY <1>0, <1>b DEF AppendToSink
  <2> QED BY <1>b, <2>1, <2>2, <2>3, FileStepOpen
<1>c. ASSUME NEW h \in Handles, NEW b, Writable(h, b), NEW r \in Records, SetRecord(h, b, r)
      PROVE  Len(images') = Len(images)
  BY <1>c, SetRecordType
<1>1. ASSUME NEW b \in Builders, AddImage(b) PROVE FileInv' /\ len <= len'
  <2>1. Len(images') <= MaxImages
    BY <1>0, <1>1, BoundsAssumption DEF AddImage
  <2> QED BY <1>1, <1>a, <2>1 DEF AddImage
<1>2. ASSUME NEW n \in PrefixLens, WriteHeaderPrefix(n) PROVE FileInv' /\ len <= len'
  <2>1. n \in Nat
    BY LensAssumption
  <2> QED BY <1>2, <1>b, <2>1, NothingSolid DEF WriteHeaderPrefix
<1>3. ASSUME NEW h \in Handles, NEW b, WriteBlockSparse(h, b) PROVE FileInv' /\ len <= len'
  <2>1. Len(images') = Len(images)
    BY <1>3, <1>c, RecordType DEF WriteBlockSparse
  <2>2. Len(images') <= MaxImages
    BY <2>1 DEF FileInv, Progress
  <2> QED BY <1>3, <1>a, <2>2 DEF WriteBlockSparse
<1>4. ASSUME NEW h \in Handles, NEW b, NEW n \in PayloadLens, WriteBlockRaw(h, b, n)
      PROVE  FileInv' /\ len <= len'
  <2>1. n \in Nat
    BY LensAssumption
  <2>2. Len(images') = Len(images)
    BY <1>0, <1>4, <1>c, <2>1, RecordType DEF WriteBlockRaw
  <2>3. /\ Solid(DataFields(len, n, Payload(h, b)))
        /\ \A e \in DataFields(len, n, Payload(h, b)) : len <= e.off /\ e.off + e.len <= len + n
    BY <1>0, <2>1, DataSolid
  <2> QED BY <1>4, <1>b, <2>1, <2>2, <2>3 DEF WriteBlockRaw
<1>5. ASSUME NEW h \in Handles, NEW b, NEW n \in PayloadLens, NEW k \in 0..(n - 1),
             WriteBlockFails(h, b, n, k)
      PROVE  FileInv' /\ len <= len'
  <2>1. k \in Nat
    BY LensAssumption
  <2> QED BY <1>5, <1>b, <2>1, NothingSolid DEF WriteBlockFails
<1>6. ASSUME NEW h \in Handles, NEW b, NEW n \in PayloadLens, NEW pre \in WrapLens,
             NEW suf \in WrapLens, WriteBlockRawSegmented(h, b, pre, n, suf)
      PROVE  FileInv' /\ len <= len'
  <2>1. n \in Nat /\ pre \in Nat /\ suf \in Nat /\ pre + n + suf \in Nat /\ len + pre \in Nat
    BY <1>0, LensAssumption
  <2>2. Len(images') = Len(images)
    BY <1>6, <1>c, <2>1, RecordType DEF WriteBlockRawSegmented
  <2>3. Solid(DataFields(len + pre, n, Payload(h, b)))
    BY <2>1, DataSolid
  <2>4. \A e \in DataFields(len + pre, n, Payload(h, b)) :
          len <= e.off /\ e.off + e.len <= len + (pre + n + suf)
    BY <1>0, <2>1, BlockFieldPlace
  <2> QED BY <1>6, <1>b, <2>1, <2>2, <2>3, <2>4 DEF WriteBlockRawSegmented
<1>7. ASSUME Finish PROVE FileInv' /\ len <= len'
  BY <1>0, <1>7, FileFinish DEF Finish
<1>8. ASSUME IfdsWritten PROVE FileInv' /\ len <= len'
  <2>1. /\ UNCHANGED <<images, ifds, cur, big, headerOffset, variant, file, len>>
        /\ phase = "ifds" /\ phase' = "patch" /\ Len(ifds) = Len(images)
    BY <1>8 DEF IfdsWritten, Continue
  <2>2. FileSolid' /\ IfdsInRow' /\ HeaderOut' /\ IfdsOut'
    BY <2>1, IfdsKept DEF FileInv
  <2>3. Progress'
    BY <2>1 DEF FileInv, Progress, PatchCount
  <2> QED BY <1>0, <2>1, <2>2, <2>3 DEF FileInv
<1>9. ASSUME Finished PROVE FileInv' /\ len <= len'
  <2>1. /\ UNCHANGED <<images, ifds, cur, big, headerOffset, variant, file, len>>
        /\ phase = "patch" /\ phase' = "done" /\ cur.image > Len(images)
    BY <1>9 DEF Finished, Continue
  <2>2. FileSolid' /\ IfdsInRow' /\ HeaderOut' /\ IfdsOut'
    BY <2>1, IfdsKept DEF FileInv
  <2>3. cur.image = Len(images) + 1
    BY <1>0, <2>1 DEF FileInv, Progress, TypeOK
  <2>4. Progress'
    BY <2>1, <2>3 DEF FileInv, Progress, PatchCount
  <2> QED BY <1>0, <2>1, <2>2, <2>4 DEF FileInv
<1>10. ASSUME UNCHANGED vars PROVE FileInv' /\ len <= len'
  <2>1. UNCHANGED <<images, ifds, cur, big, headerOffset, variant, file, len, phase>>
    BY <1>10 DEF vars
  <2>2. /\ FileSolid' /\ IfdsInRow' /\ (Unnamed => Unnamed') /\ (HeaderOut => HeaderOut')
        /\ (IfdsOut => IfdsOut')
    BY <2>1, IfdsKept
  <2>3. Progress'
    BY <2>1 DEF FileInv, Progress, PatchCount
  <2> QED BY <1>0, <2>1, <2>2, <2>3 DEF FileInv
<1>11. FileInv' /\ len <= len'
  <2>1. CASE Next
    BY <2>1, <1>0, <1>1, <1>2, <1>3, <1>4, <1>5, <1>6, <1>7, <1>8, <1>9,
       FileHeader, FileIfd, FilePatch, FileFails DEF Next, WriteBlock
  <2> QED BY <2>1, <1>10
<1> QED BY <1>11

----------------------------------------------------------------------------
(***************************************************************************)
(* The layout of a classic file: what finish() estimates before it writes  *)
(* anything still bounds what is left to write at every step.              *)
(***************************************************************************)
ClassicPart == [i \in 1..Len(images) |-> EstimateIfdSize(FALSE, Tags(i, FALSE))]

\* Bytes the classic IFDs of the first i images take.
ClassicSums ==
  LET sum[i \in 0..Len(images)] ==
        IF i = 0 THEN 0 ELSE sum[i - 1] + EstimateIfdSize(FALSE, Tags(i, FALSE))
  IN sum

RecordsInSink ==
  \A i \in DOMAIN images : \A b \in DOMAIN images[i].records :
    LET r == images[i].records[b] IN r # NoRecord => r.off + r.count <= len

LayoutInv ==
  /\ phase \in {"header", "ifds", "patch"} /\ ~big => RecordsFitClassic
  /\ phase \in {"header", "ifds"} /\ ~big =>
       \A i \in DOMAIN images : len - ClassicSums[Len(ifds)] + ClassicSums[i] <= Limit
  /\ ClassicWithinLimit
  /\ AutoIsExact
  /\ NoLateFailure

\* The recursive sums over the images are running sums of the estimates.
LEMMA ClassicSumsAre ==
  ASSUME TypeOK
  PROVE  LET n == Len(images)
         IN /\ n \in Nat /\ ClassicPart \in [1..n -> Nat]
            /\ Sums(ClassicSums, n, 0, ClassicPart)
            /\ Sums(ClassicEnd, n, len, ClassicPart)
            /\ ClassicIfdsLen = ClassicSums[n]
<1> DEFINE n == Len(images)
           est(i) == EstimateIfdSize(FALSE, Tags(i, FALSE))
<1>1. n \in Nat /\ len \in Nat /\ DOMAIN images = 1..n
  BY DEF TypeOK
<1>2. \A i \in 1..n : est(i) \in Nat /\ IfdEnd(0, Tags(i, FALSE), FALSE) = est(i)
  BY <1>1, TagsType, EstimateType
<1>3. ClassicPart \in [1..n -> Nat] /\ \A i \in 1..n : ClassicPart[i] = est(i)
  BY <1>1, <1>2 DEF ClassicPart
<1>4. ASSUME NEW base \in Nat, NEW f, Sums(f, n, base, ClassicPart)
      PROVE  /\ f = [i \in 0..n |-> IF i = 0 THEN base ELSE f[i - 1] + est(i)]
             /\ f = [i \in 0..n |-> IF i = 0 THEN base
                                    ELSE f[i - 1] + IfdEnd(0, Tags(i, FALSE), FALSE)]
  <2>1. f = [i \in 0..n |-> IF i = 0 THEN base ELSE f[i - 1] + ClassicPart[i]]
    BY <1>4 DEF Sums
  <2>2. \A i \in 0..n : i # 0 => i \in 1..n
    BY <1>1
  <2> HIDE DEF n, est
  <2>3. /\ \A i \in 0..n : (IF i = 0 THEN base ELSE f[i - 1] + ClassicPart[i])
                         = (IF i = 0 THEN base ELSE f[i - 1] + est(i))
        /\ \A i \in 0..n : (IF i = 0 THEN base ELSE f[i - 1] + ClassicPart[i])
             = (IF i = 0 THEN base ELSE f[i - 1] + IfdEnd(0, Tags(i, FALSE), FALSE))
    BY <1>2, <1>3, <2>2
  <2> QED BY <2>1, <2>3
<1>5. PICK f : Sums(f, n, 0, ClassicPart)
  BY <1>1, <1>3, RunningSum
<1>6. PICK g : Sums(g, n, len, ClassicPart)
  BY <1>1, <1>3, RunningSum
<1>7. Sums(ClassicSums, n, 0, ClassicPart)
  <2>1. f = [i \in 0..n |-> IF i = 0 THEN 0 ELSE f[i - 1] + est(i)]
    BY <1>4, <1>5
  <2>2. \E sum : sum = [i \in 0..Len(images) |-> IF i = 0 THEN 0
                          ELSE sum[i - 1] + EstimateIfdSize(FALSE, Tags(i, FALSE))]
    BY <2>1
  <2>3. ClassicSums = [i \in 0..Len(images) |-> IF i = 0 THEN 0
                          ELSE ClassicSums[i - 1] + EstimateIfdSize(FALSE, Tags(i, FALSE))]
    BY <2>2 DEF ClassicSums
  <2> QED BY <2>3, <1>3 DEF Sums
<1>8. Sums(ClassicEnd, n, len, ClassicPart)
  <2>1. g = [i \in 0..n |-> IF i = 0 THEN len ELSE g[i - 1] + est(i)]
    BY <1>1, <1>4, <1>6
  <2>2. \E end : end = [i \in 0..Len(images) |-> IF i = 0 THEN len
                          ELSE end[i - 1] + EstimateIfdSize(FALSE, Tags(i, FALSE))]
    BY <2>1
  <2>3. ClassicEnd = [i \in 0..Len(images) |-> IF i = 0 THEN len
                          ELSE ClassicEnd[i - 1] + EstimateIfdSize(FALSE, Tags(i, FALSE))]
    BY <2>2 DEF ClassicEnd
  <2> QED BY <2>3, <1>3 DEF Sums
<1> DEFINE emitted ==
             CHOOSE sum : sum = [i \in 0..Len(images) |->
               IF i = 0 THEN 0 ELSE sum[i - 1] + IfdEnd(0, Tags(i, FALSE), FALSE)]
<1>9. emitted = [i \in 0..Len(images) |->
               IF i = 0 THEN 0 ELSE emitted[i - 1] + IfdEnd(0, Tags(i, FALSE), FALSE)]
  <2>1. f = [i \in 0..n |-> IF i = 0 THEN 0 ELSE f[i - 1] + IfdEnd(0, Tags(i, FALSE), FALSE)]
    BY <1>4, <1>5
  <2>2. \E sum : sum = [i \in 0..Len(images) |->
               IF i = 0 THEN 0 ELSE sum[i - 1] + IfdEnd(0, Tags(i, FALSE), FALSE)]
    BY <2>1
  <2> QED BY <2>2
<1>10. ClassicIfdsLen = emitted[n]
  BY DEF ClassicIfdsLen
<1> HIDE DEF emitted
<1>11. Sums(emitted, n, 0, ClassicPart)
  <2>1. \A i \in 0..n : i # 0 => i \in 1..n
    BY <1>1
  <2> HIDE DEF est
  <2>2. \A i \in 0..n : (IF i = 0 THEN 0 ELSE emitted[i - 1] + IfdEnd(0, Tags(i, FALSE), FALSE))
                      = (IF i = 0 THEN 0 ELSE emitted[i - 1] + ClassicPart[i])
    BY <1>2, <1>3, <2>1
  <2> QED BY <1>9, <2>2 DEF Sums
<1>12. emitted = ClassicSums
  BY <1>1, <1>3, <1>7, <1>11, RunningSumUnique
<1> QED BY <1>1, <1>3, <1>7, <1>8, <1>10, <1>12

\* The running end of a classic layout is the end of the data and the estimates so far.
LEMMA LayoutSums ==
  ASSUME TypeOK
  PROVE  LET n == Len(images)
         IN /\ n \in Nat /\ len \in Nat
            /\ \A i \in 0..n : ClassicSums[i] \in Nat /\ ClassicEnd[i] = len + ClassicSums[i]
            /\ \A i \in 1..n :
                 ClassicSums[i] = ClassicSums[i - 1] + EstimateIfdSize(FALSE, Tags(i, FALSE))
            /\ \A i \in 0..n : ClassicSums[i] <= ClassicSums[n]
            /\ ClassicIfdsLen = ClassicSums[n]
<1> DEFINE n == Len(images)
           est(i) == EstimateIfdSize(FALSE, Tags(i, FALSE))
<1>1. /\ n \in Nat /\ len \in Nat /\ ClassicPart \in [1..n -> Nat]
      /\ Sums(ClassicSums, n, 0, ClassicPart) /\ Sums(ClassicEnd, n, len, ClassicPart)
      /\ ClassicIfdsLen = ClassicSums[n]
  BY ClassicSumsAre DEF TypeOK
<1>2. \A i \in 1..n : ClassicPart[i] = est(i)
  BY <1>1 DEF ClassicPart
<1> HIDE DEF n, est
<1>3. ClassicSums \in [0..n -> Nat] /\ \A i, j \in 0..n : i <= j => ClassicSums[i] <= ClassicSums[j]
  BY <1>1, RunningSumType
<1>4. \A i \in 0..n : ClassicEnd[i] = len + ClassicSums[i]
  BY <1>1, RunningSumsShift
<1>5. \A i \in 1..n : ClassicSums[i] = ClassicSums[i - 1] + est(i)
  <2>1. \A i \in 0..n : ClassicSums[i] = IF i = 0 THEN 0 ELSE ClassicSums[i - 1] + ClassicPart[i]
    BY <1>1 DEF Sums
  <2>2. \A i \in 1..n : i \in 0..n /\ i # 0
    BY <1>1
  <2> QED BY <1>2, <2>1, <2>2
<1>6. \A i \in 0..n : ClassicSums[i] \in Nat /\ ClassicSums[i] <= ClassicSums[n]
  BY <1>1, <1>3
<1> QED BY <1>1, <1>4, <1>5, <1>6 DEF n, est

\* No step that leaves the images alone changes the estimates.
LEMMA SumsKept ==
  ASSUME TypeOK, TypeOK', UNCHANGED images
  PROVE  ClassicSums' = ClassicSums
BY DEF ClassicSums, Tags

\* Every record's bytes lie within the sink.
LEMMA RecordsStep ==
  ASSUME TypeOK, TypeOK', RecordsInSink, len' >= len, [Next]_vars
  PROVE  RecordsInSink'
<1> USE DEF options, sink, finishing
<1>0. len \in Nat /\ len' \in Nat /\ images \in Seq(IfdState)
  BY DEF TypeOK
<1>r. \A i \in DOMAIN images : \A k \in DOMAIN images[i].records :
        /\ images[i].records[k].off \in Int /\ images[i].records[k].count \in Int
  <2>1. \A r \in Records : r.off \in Int /\ r.count \in Int
    BY DEF Records, NoRecord
  <2>2. \A i \in DOMAIN images : images[i] \in IfdState
    BY <1>0
  <2>3. \A i \in DOMAIN images : images[i].records \in Seq(Records)
    BY <2>2 DEF IfdState
  <2>4. \A i \in DOMAIN images : \A k \in DOMAIN images[i].records :
          images[i].records[k] \in Records
    BY <2>3
  <2> QED BY <2>1, <2>4
<1>a. ASSUME UNCHANGED images PROVE RecordsInSink'
  BY <1>0, <1>a, <1>r DEF RecordsInSink
<1>b. ASSUME NEW h \in Handles, NEW b, NEW r \in Records, Writable(h, b), SetRecord(h, b, r),
             r.off + r.count <= len'
      PROVE  RecordsInSink'
  <2> SUFFICES ASSUME NEW i \in DOMAIN images', NEW k \in DOMAIN images'[i].records,
                      images'[i].records[k] # NoRecord
               PROVE  images'[i].records[k].off + images'[i].records[k].count <= len'
    BY DEF RecordsInSink
  <2>1. /\ i \in DOMAIN images /\ k \in DOMAIN images[i].records
        /\ images'[i].records[k] = IF i = h.index /\ k = b THEN r ELSE images[i].records[k]
    BY SMTT(30), <1>b, SetRecordType DEF TypeOK
  <2>2. CASE i = h.index /\ k = b
    BY <1>b, <2>1, <2>2
  <2>3. CASE ~(i = h.index /\ k = b)
    BY <1>0, <1>r, <2>1, <2>3 DEF RecordsInSink
  <2> QED BY <2>2, <2>3
<1>1. ASSUME NEW b \in Builders, AddImage(b) PROVE RecordsInSink'
  <2> SUFFICES ASSUME NEW i \in DOMAIN images', NEW k \in DOMAIN images'[i].records,
                      images'[i].records[k] # NoRecord
               PROVE  images'[i].records[k].off + images'[i].records[k].count <= len'
    BY DEF RecordsInSink
  <2> DEFINE records == [j \in 1..CheckedBlockCount(b) |-> NoRecord]
             new == [builder |-> b, records |-> records]
  <2>1. images' = Append(images, new)
    BY <1>1 DEF AddImage
  <2>2. images'[i] = IF i = Len(images) + 1 THEN new ELSE images[i]
    BY <1>0, <2>1
  <2>3. i # Len(images) + 1
    <3>1. CASE i = Len(images) + 1
      <4>1. images'[i].records = records
        BY <2>2, <3>1
      <4> QED BY <4>1
    <3> QED BY <3>1
  <2>4. i \in DOMAIN images /\ images'[i] = images[i]
    BY <1>0, <2>1, <2>2, <2>3
  <2> QED BY <1>0, <1>r, <2>4 DEF RecordsInSink
<1>2. ASSUME NEW h \in Handles, NEW b \in 1..(MaxBlocks + 1), WriteBlockSparse(h, b)
      PROVE  RecordsInSink'
  <2>1. SparseRecord \in Records /\ SparseRecord.off + SparseRecord.count <= len'
    BY <1>0 DEF SparseRecord, Records
  <2> QED BY <1>2, <1>b, <2>1 DEF WriteBlockSparse
<1>3. ASSUME NEW h \in Handles, NEW b \in 1..(MaxBlocks + 1), NEW n \in PayloadLens,
             WriteBlockRaw(h, b, n)
      PROVE  RecordsInSink'
  <2>1. n \in Nat
    BY LensAssumption
  <2>2. Record(len, n) \in Records /\ Record(len, n).off + Record(len, n).count <= len'
    BY <1>0, <1>3, <2>1, RecordType DEF WriteBlockRaw, AppendToSink, Record
  <2> QED BY <1>3, <1>b, <2>2 DEF WriteBlockRaw
<1>4. ASSUME NEW h \in Handles, NEW b \in 1..(MaxBlocks + 1), NEW n \in PayloadLens,
             NEW pre \in WrapLens, NEW suf \in WrapLens,
             WriteBlockRawSegmented(h, b, pre, n, suf)
      PROVE  RecordsInSink'
  <2>1. n \in Nat /\ pre \in Nat /\ suf \in Nat /\ len + pre \in Nat
    BY <1>0, LensAssumption
  <2>2. Record(len + pre, n) \in Records
    BY <2>1, RecordType
  <2>3. Record(len + pre, n).off + Record(len + pre, n).count <= len'
    BY <1>0, <1>4, <2>1 DEF WriteBlockRawSegmented, AppendToSink, Record
  <2> QED BY <1>4, <1>b, <2>2, <2>3 DEF WriteBlockRawSegmented
<1>5. ASSUME \/ \E n \in PrefixLens : WriteHeaderPrefix(n)
             \/ \E h \in Handles : \E b \in 1..(MaxBlocks + 1) : \E n \in PayloadLens :
                  \E k \in 0..(n - 1) : WriteBlockFails(h, b, n, k)
             \/ Finish \/ WriteHeader \/ WriteIfd \/ IfdsWritten \/ WritePatch \/ Finished
             \/ FinishFails \/ UNCHANGED vars
      PROVE  UNCHANGED images
  BY <1>5 DEF WriteHeaderPrefix, WriteBlockFails, Finish, WriteHeader, WriteIfd, IfdsWritten,
              WritePatch, Finished, FinishFails, vars
<1> QED
  <2>1. CASE Next
    BY <2>1, <1>a, <1>1, <1>2, <1>3, <1>4, <1>5 DEF Next, WriteBlock
  <2> QED BY <2>1, <1>a, <1>5

\* A new writer has estimated nothing yet.
LEMMA LayoutInit == Init => LayoutInv /\ RecordsInSink
<1> SUFFICES ASSUME Init PROVE LayoutInv /\ RecordsInSink
  OBVIOUS
<1>1. /\ images = <<>> /\ ifds = <<>> /\ phase = "open" /\ error = "none"
  BY DEF Init
<1>2. DOMAIN ifds = {} /\ DOMAIN images = {}
  BY <1>1
<1>3. ClassicWithinLimit /\ AutoIsExact /\ NoLateFailure
  BY <1>1 DEF ClassicWithinLimit, AutoIsExact, NoLateFailure
<1> QED BY <1>1, <1>2, <1>3 DEF LayoutInv, RecordsInSink

\* Every step keeps the layout within what was estimated.
LEMMA LayoutStep ==
  ASSUME TypeOK, TypeOK', Placed, FileInv, RecordsInSink, LayoutInv, [Next]_vars
  PROVE  LayoutInv'
<1> USE DEF options, sink, finishing
<1>0. /\ len \in Nat /\ len' \in Nat /\ images \in Seq(IfdState) /\ ifds \in Seq(Nat)
      /\ big \in BOOLEAN /\ Limit \in Nat /\ Len(ifds) <= Len(images) /\ headerOffset \in Nat
  BY LimitAssumption DEF TypeOK
<1>n. NoLateFailure
  BY DEF LayoutInv
<1>a. ASSUME phase = "open", phase' = "open", UNCHANGED <<error, ifds>> PROVE LayoutInv'
  <2>1. ClassicWithinLimit' /\ AutoIsExact' /\ NoLateFailure'
    BY <1>a, <1>n DEF ClassicWithinLimit, AutoIsExact, NoLateFailure
  <2> QED BY <1>a, <2>1 DEF LayoutInv
<1>b. ASSUME phase' = "failed", error' \notin {"overflow", "unsorted"} PROVE LayoutInv'
  <2>1. ClassicWithinLimit' /\ AutoIsExact' /\ NoLateFailure'
    BY <1>b DEF ClassicWithinLimit, AutoIsExact, NoLateFailure
  <2> QED BY <1>b, <2>1 DEF LayoutInv
<1>1. ASSUME NEW b \in Builders, AddImage(b) PROVE LayoutInv'
  BY <1>1, <1>a DEF AddImage
<1>2. ASSUME NEW n \in PrefixLens, WriteHeaderPrefix(n) PROVE LayoutInv'
  BY <1>2, <1>a DEF WriteHeaderPrefix
<1>3. ASSUME NEW h \in Handles, NEW b \in 1..(MaxBlocks + 1), WriteBlockSparse(h, b)
      PROVE  LayoutInv'
  BY <1>3, <1>a DEF WriteBlockSparse
<1>4. ASSUME NEW h \in Handles, NEW b \in 1..(MaxBlocks + 1), NEW n \in PayloadLens,
             WriteBlockRaw(h, b, n)
      PROVE  LayoutInv'
  BY <1>4, <1>a DEF WriteBlockRaw
<1>5. ASSUME NEW h \in Handles, NEW b \in 1..(MaxBlocks + 1), NEW n \in PayloadLens,
             NEW k \in 0..(n - 1), WriteBlockFails(h, b, n, k)
      PROVE  LayoutInv'
  BY <1>5, <1>a DEF WriteBlockFails
<1>6. ASSUME NEW h \in Handles, NEW b \in 1..(MaxBlocks + 1), NEW n \in PayloadLens,
             NEW pre \in WrapLens, NEW suf \in WrapLens,
             WriteBlockRawSegmented(h, b, pre, n, suf)
      PROVE  LayoutInv'
  BY <1>6, <1>a DEF WriteBlockRawSegmented
<1>7. CASE Finish
  <2>1. CASE Fail("incomplete") \/ Fail("layout")
    BY <1>7, <1>b, <2>1 DEF Finish, Fail
  <2>2. CASE /\ ~(variant = "Classic" /\ ~ClassicLayoutFits)
             /\ Continue("header")
             /\ big' = (variant = "BigTiff" \/ (variant = "Auto" /\ ~ClassicLayoutFits))
             /\ UNCHANGED <<ifds, cur>>
    <3>1. /\ phase = "open" /\ phase' = "header" /\ ifds = <<>> /\ ifds' = <<>> /\ error' = error
          /\ UNCHANGED <<images, len, variant>> /\ Len(ifds') = 0
      BY <1>7, <2>2 DEF Finish, Continue, FileInv, Progress
    <3>2. ClassicSums' = ClassicSums
      BY <3>1, SumsKept
    <3>3. /\ \A i \in DOMAIN images : i \in 0..Len(images) /\ i \in 1..Len(images)
          /\ Len(images) \in Nat
      BY <1>0
    <3>4. /\ \A i \in 0..Len(images) : ClassicSums[i] \in Nat
                                       /\ ClassicEnd[i] = len + ClassicSums[i]
                                       /\ ClassicSums[i] <= ClassicSums[Len(images)]
          /\ ClassicIfdsLen = ClassicSums[Len(images)]
      BY LayoutSums
    <3>5. ClassicSums[0] = 0
      BY ClassicSumsAre, RunningSumType
    <3>6. variant \in {"Classic", "BigTiff", "Auto"}
      BY VariantsAssumption DEF TypeOK
    <3>7. ASSUME ~big' PROVE ClassicLayoutFits
      BY <2>2, <3>6, <3>7
    <3>8. ASSUME ~big'
          PROVE  /\ RecordsFitClassic'
                 /\ \A i \in DOMAIN images' : len' - ClassicSums'[Len(ifds')] + ClassicSums'[i] <= Limit
      <4>1. RecordsFitClassic /\ \A i \in DOMAIN images : ClassicEnd[i] <= Limit
        BY <3>7, <3>8 DEF ClassicLayoutFits, FitsClassic
      <4>2. RecordsFitClassic'
        BY <3>1, <4>1 DEF RecordsFitClassic, FitsClassic
      <4>3. ASSUME NEW i \in DOMAIN images PROVE len - 0 + ClassicSums[i] <= Limit
        BY <1>0, <3>3, <3>4, <4>1
      <4> QED BY <3>1, <3>2, <3>5, <4>2, <4>3
    <3>9. AutoIsExact'
      <4> SUFFICES ASSUME variant = "Auto", big' PROVE (len + ClassicIfdsLen > Limit)'
        BY <3>1 DEF AutoIsExact
      <4>1. ~ClassicLayoutFits
        BY <2>2
      <4>2. len + ClassicSums[Len(images)] > Limit
        <5>1. CASE ~RecordsFitClassic
          <6>0. PICK i \in DOMAIN images : \E k \in DOMAIN images[i].records :
                  ~(images[i].records[k].off <= Limit /\ images[i].records[k].count <= Limit)
            BY <5>1 DEF RecordsFitClassic, FitsClassic
          <6>1. PICK k \in DOMAIN images[i].records :
                  ~(images[i].records[k].off <= Limit /\ images[i].records[k].count <= Limit)
            BY <6>0
          <6> DEFINE r == images[i].records[k]
          <6>2. r \in Records
            <7>1. images[i] \in IfdState
              BY <1>0
            <7>2. images[i].records \in Seq(Records)
              BY <7>1 DEF IfdState
            <7> QED BY <7>2
          <6>3. r # NoRecord
            BY <1>0, <6>1 DEF NoRecord
          <6>4. r.off \in Nat /\ r.count \in Nat
            BY <6>2, <6>3 DEF Records
          <6>5. r.off + r.count <= len
            BY <6>3 DEF RecordsInSink
          <6>6. ClassicSums[Len(images)] \in Nat
            BY <3>3, <3>4
          <6> HIDE DEF r
          <6>7. ~(r.off <= Limit /\ r.count <= Limit)
            BY <6>1 DEF r
          <6> QED BY SMTT(30), <1>0, <6>4, <6>5, <6>6, <6>7
        <5>2. CASE \E i \in DOMAIN images : ClassicEnd[i] > Limit
          <6>1. PICK i \in DOMAIN images : ClassicEnd[i] > Limit
            BY <5>2
          <6>2. /\ ClassicEnd[i] = len + ClassicSums[i] /\ ClassicSums[i] <= ClassicSums[Len(images)]
                /\ ClassicSums[i] \in Nat /\ ClassicSums[Len(images)] \in Nat
            BY <3>3, <3>4
          <6> QED BY <1>0, <6>1, <6>2
        <5>3. \A i \in DOMAIN images : ClassicEnd[i] \in Nat
          BY <1>0, <3>3, <3>4
        <5> QED BY <1>0, <4>1, <5>1, <5>2, <5>3 DEF ClassicLayoutFits, FitsClassic
      <4>3. ClassicIfdsLen' = ClassicIfdsLen
        BY <3>1 DEF ClassicIfdsLen, Tags
      <4> QED BY <3>1, <3>4, <4>2, <4>3
    <3>10. ClassicWithinLimit' /\ NoLateFailure'
      BY <1>n, <3>1 DEF ClassicWithinLimit, NoLateFailure
    <3> QED BY <3>1, <3>8, <3>9, <3>10 DEF LayoutInv
  <2> QED BY <1>7, <2>1, <2>2 DEF Finish
<1>8. CASE WriteHeader
  <2>1. HeaderLen(big) \in Nat /\ headerOffset + HeaderLen(big) <= len
    BY <1>0, ReservedCoversHeader DEF Placed
  <2>2. /\ len' = len /\ phase = "header" /\ phase' = "ifds"
        /\ UNCHANGED <<images, ifds, big, error>>
    BY <1>0, <1>8, <2>1 DEF WriteHeader, MaxOf, Continue
  <2>3. ClassicSums' = ClassicSums /\ (RecordsFitClassic => RecordsFitClassic')
    BY <2>2, SumsKept DEF RecordsFitClassic, FitsClassic
  <2>4. ClassicWithinLimit' /\ AutoIsExact' /\ NoLateFailure'
    BY <1>n, <2>2 DEF ClassicWithinLimit, AutoIsExact, NoLateFailure
  <2> QED BY <2>2, <2>3, <2>4 DEF LayoutInv
<1>9. CASE WriteIfd
  <2> DEFINE i == Len(ifds) + 1
             tags == Tags(i, big)
  <2>1. i \in DOMAIN images /\ tags \in Seq(Tag) /\ TagsSorted(tags) /\ phase = "ifds"
        /\ UNCHANGED images
    BY <1>0, <1>9, ImageFacts DEF WriteIfd
  <2>2. /\ i \in 0..Len(images) /\ i \in 1..Len(images) /\ i - 1 = Len(ifds)
        /\ Len(ifds) \in 0..Len(images) /\ Len(images) \in Nat
    BY <1>0, <2>1
  <2>3. /\ \A k \in 0..Len(images) : ClassicSums[k] \in Nat
        /\ ClassicSums[i] = ClassicSums[Len(ifds)] + EstimateIfdSize(FALSE, Tags(i, FALSE))
    BY <2>2, LayoutSums
  <2>4. /\ IfdEnd(0, tags, big) = EstimateIfdSize(big, tags)
        /\ EstimateIfdSize(big, tags) \in Nat
        /\ IfdEnd(len, tags, big) = len + EstimateIfdSize(big, tags)
    BY <1>0, <2>1, EstimateType, EstimateIsExact
  <2>5. Overflowing(len, tags, big, Limit) = {}
    <3> SUFFICES ASSUME NEW k \in Overflowing(len, tags, big, Limit) PROVE FALSE
      OBVIOUS
    <3>1. /\ k \in DOMAIN tags /\ ~big /\ Deferred(tags[k], big)
          /\ DeferredOffset(len, tags, big, k) > Limit
      BY DEF Overflowing
    <3>2. DeferredOffset(len, tags, big, k) + tags[k].len <= IfdEnd(len, tags, big)
      BY <1>0, <2>1, <3>1, DeferredValuesDisjoint
    <3>3. tags[k].len \in Nat /\ DeferredOffset(len, tags, big, k) \in Nat
      <4>1. tags[k] \in Tag
        BY <2>1, <3>1
      <4>2. tags[k].len \in Nat
        BY <4>1 DEF Tag
      <4>3. DeferredOffset(len, tags, big, k) \in Nat
        BY <1>0, <2>1, <3>1, PlacesType
      <4> QED BY <4>2, <4>3
    <3>4. len - ClassicSums[Len(ifds)] + ClassicSums[i] <= Limit
      BY <2>1, <3>1 DEF LayoutInv
    <3>5. len + EstimateIfdSize(big, tags) <= Limit
      <4>1. tags = Tags(i, FALSE) /\ big = FALSE
        BY <1>0, <3>1
      <4>2. EstimateIfdSize(big, tags) = EstimateIfdSize(FALSE, Tags(i, FALSE))
        BY <4>1
      <4>3. ClassicSums[i] \in Nat /\ ClassicSums[Len(ifds)] \in Nat
        BY <2>2, <2>3
      <4>4. EstimateIfdSize(FALSE, Tags(i, FALSE)) \in Nat
        BY <2>4, <4>2
      <4>5. ClassicSums[i] = ClassicSums[Len(ifds)] + EstimateIfdSize(FALSE, Tags(i, FALSE))
        BY <2>3
      <4>6. \A a, b, e \in Nat : b = a + e /\ len - a + b <= Limit => len + e <= Limit
        BY <1>0
      <4> HIDE DEF tags, i
      <4> QED BY <3>4, <4>2, <4>3, <4>4, <4>5, <4>6
    <3> HIDE DEF tags, i
    <3> QED BY <1>0, <2>4, <3>1, <3>2, <3>3, <3>5
  <2>6. /\ len' = len + IfdEnd(0, tags, big) /\ ifds' = Append(ifds, len)
        /\ UNCHANGED <<phase, error, big>>
    BY <1>9, <2>1, <2>5 DEF WriteIfd, AppendToSink
  <2> HIDE DEF tags
  <2>8. ClassicSums' = ClassicSums /\ (RecordsFitClassic => RecordsFitClassic')
        /\ Len(ifds') = i
    BY <1>0, <2>1, <2>6, SumsKept DEF RecordsFitClassic, FitsClassic
  <2>9. ASSUME ~big'
        PROVE  \A k \in DOMAIN images' : len' - ClassicSums'[Len(ifds')] + ClassicSums'[k] <= Limit
    <3> SUFFICES ASSUME NEW k \in DOMAIN images
                 PROVE  len' - ClassicSums[i] + ClassicSums[k] <= Limit
      BY <2>1, <2>8
    <3>1. len - ClassicSums[Len(ifds)] + ClassicSums[k] <= Limit
      BY <2>1, <2>6, <2>9 DEF LayoutInv
    <3>2. /\ len' = len + EstimateIfdSize(FALSE, Tags(i, FALSE))
          /\ EstimateIfdSize(FALSE, Tags(i, FALSE)) \in Nat
      <4>1. big = FALSE /\ tags = Tags(i, FALSE)
        BY <1>0, <2>6, <2>9 DEF tags
      <4> QED BY <2>4, <2>6, <4>1
    <3>3. k \in 0..Len(images) /\ ClassicSums[k] \in Nat /\ ClassicSums[Len(ifds)] \in Nat
      BY <2>2, <2>3
    <3>4. /\ ClassicSums[i] = ClassicSums[Len(ifds)] + EstimateIfdSize(FALSE, Tags(i, FALSE))
          /\ ClassicSums[i] \in Nat
      BY <2>2, <2>3
    <3>5. \A a, b, c, e \in Nat : b = a + e /\ len - a + c <= Limit => (len + e) - b + c <= Limit
      BY <1>0
    <3> HIDE DEF i
    <3> QED BY <3>1, <3>2, <3>3, <3>4, <3>5
  <2>10. ClassicWithinLimit' /\ AutoIsExact' /\ NoLateFailure'
    BY <1>n, <2>1, <2>6 DEF ClassicWithinLimit, AutoIsExact, NoLateFailure
  <2> QED BY <2>1, <2>6, <2>8, <2>9, <2>10 DEF LayoutInv
<1>10. CASE IfdsWritten
  <2>1. /\ phase = "ifds" /\ phase' = "patch" /\ UNCHANGED <<images, ifds, len, big, error>>
        /\ Len(ifds) = Len(images)
    BY <1>10 DEF IfdsWritten, Continue
  <2>2. RecordsFitClassic => RecordsFitClassic'
    BY <2>1 DEF RecordsFitClassic, FitsClassic
  <2>3. ASSUME ~big, images # <<>> PROVE len <= Limit
    <3>1. Len(images) \in DOMAIN images
      BY <1>0, <2>3
    <3>2. len - ClassicSums[Len(ifds)] + ClassicSums[Len(images)] <= Limit
      BY <2>1, <2>3, <3>1 DEF LayoutInv
    <3>3. ClassicSums[Len(images)] \in Nat
      BY <1>0, LayoutSums
    <3> QED BY <1>0, <2>1, <3>2, <3>3
  <2>4. ClassicWithinLimit' /\ AutoIsExact' /\ NoLateFailure'
    BY <1>n, <2>1, <2>3 DEF ClassicWithinLimit, AutoIsExact, NoLateFailure
  <2> QED BY <2>1, <2>2, <2>4 DEF LayoutInv
<1>11. CASE WritePatch
  <2> DEFINE i == cur.image
             patch == Patch(i, cur.step)
  <2>1. phase = "patch" /\ i \in DOMAIN images /\ UNCHANGED images
    BY <1>11 DEF WritePatch
  <2>2. ~big => RecordsFitClassic /\ len <= Limit
    <3>1. images # <<>>
      BY <2>1
    <3> QED BY <2>1, <3>1 DEF LayoutInv, ClassicWithinLimit
  <2>3. ~big => \A w \in patch : w.val.num <= Limit
    <3> SUFFICES ASSUME ~big, NEW w \in patch PROVE w.val.num <= Limit
      OBVIOUS
    <3> DEFINE n == Len(images[i].records)
               k == cur.step
    <3>1. n \in Nat /\ k \in Nat \ {0} /\ i \in Nat \ {0} /\ Len(ifds) = Len(images)
          /\ DOMAIN images[i].records = 1..n
      <4>1. images[i] \in IfdState
        BY <1>0, <2>1
      <4>2. images[i].records \in Seq(Records)
        BY <4>1 DEF IfdState
      <4> QED BY <1>0, <2>1, <4>2 DEF TypeOK
    <3>2. \A j \in 1..n : /\ images[i].records[j].off <= Limit
                          /\ images[i].records[j].count <= Limit
      BY <2>1, <2>2, <3>1 DEF RecordsFitClassic, FitsClassic
    <3>3. \A j \in DOMAIN ifds : ifds[j] <= Limit
      <4>1. \A j \in DOMAIN ifds : ifds[j] <= len /\ ifds[j] \in Nat
        BY <1>0, IfdPlaces DEF FileInv, IfdsInRow
      <4> QED BY <1>0, <2>2, <4>1
    <3>4. \A off, l, v : Field(off, l, v).val.num = v
      BY DEF Field
    <3>5. CASE k <= n
      <4>1. k \in 1..n
        BY <3>1, <3>5
      <4>2. \E a : w = Field(a + (k - 1) * Width(big), Width(big), images[i].records[k].off)
        BY <3>5 DEF Patch
      <4> QED BY <3>2, <3>4, <4>1, <4>2
    <3>6. CASE ~(k <= n) /\ k <= 2 * n
      <4>0. PICK m : m = k - n
        OBVIOUS
      <4>1. m \in 1..n
        BY SMTT(30), <3>1, <3>6, <4>0
      <4>2. \E a : w = Field(a + (m - 1) * Width(big), Width(big), images[i].records[m].count)
        BY <3>6, <4>0 DEF Patch
      <4>3. PICK a : w = Field(a, Width(big), images[i].records[m].count)
        BY <4>2
      <4>4. w.val.num = images[i].records[m].count
        BY <3>4, <4>3
      <4> QED BY <3>2, <4>1, <4>4
    <3>7. CASE ~(k <= n) /\ ~(k <= 2 * n)
      <4>1. w = Link(i)
        BY <3>7 DEF Patch
      <4>2. w.val.num = ifds[i]
        BY <3>1, <3>4, <4>1 DEF Link
      <4>3. i \in DOMAIN ifds
        BY <1>0, <2>1, <3>1
      <4> QED BY <3>3, <4>2, <4>3
    <3> QED BY <3>5, <3>6, <3>7
  <2>4. ~(~big /\ \E w \in patch : ~FitsClassic(w.val.num))
    BY <2>3 DEF FitsClassic
  <2>5. UNCHANGED <<phase, error, big, ifds>>
    BY <1>11, <2>4 DEF WritePatch
  <2>6. len' = len
    BY <1>11, FilePatch
  <2>7. RecordsFitClassic => RecordsFitClassic'
    BY <2>1 DEF RecordsFitClassic, FitsClassic
  <2>8. ClassicWithinLimit' /\ AutoIsExact' /\ NoLateFailure'
    BY <1>n, <2>1, <2>2, <2>5, <2>6 DEF ClassicWithinLimit, AutoIsExact, NoLateFailure
  <2> QED BY <2>1, <2>2, <2>5, <2>7, <2>8 DEF LayoutInv
<1>12. CASE Finished
  <2>1. phase = "patch" /\ phase' = "done" /\ UNCHANGED <<images, ifds, len, big, error>>
    BY <1>12 DEF Finished, Continue
  <2>2. ClassicWithinLimit' /\ AutoIsExact' /\ NoLateFailure'
    BY <1>n, <2>1 DEF ClassicWithinLimit, AutoIsExact, NoLateFailure, LayoutInv
  <2> QED BY <2>1, <2>2 DEF LayoutInv
<1>13. CASE FinishFails
  BY <1>13, <1>b DEF FinishFails, Fail
<1>14. CASE UNCHANGED vars
  <2>1. UNCHANGED <<images, ifds, len, phase, big, error, variant>>
    BY <1>14 DEF vars
  <2>2. ClassicSums' = ClassicSums /\ (RecordsFitClassic => RecordsFitClassic')
    BY <2>1, SumsKept DEF RecordsFitClassic, FitsClassic
  <2>3. ClassicIfdsLen' = ClassicIfdsLen
    BY <2>1 DEF ClassicIfdsLen, Tags
  <2>4. ClassicWithinLimit' /\ AutoIsExact' /\ NoLateFailure'
    BY <1>n, <2>1, <2>3 DEF ClassicWithinLimit, AutoIsExact, NoLateFailure, LayoutInv
  <2> QED BY <2>1, <2>2, <2>4 DEF LayoutInv
<1> QED
  <2>1. CASE Next
    BY <2>1, <1>1, <1>2, <1>3, <1>4, <1>5, <1>6, <1>7, <1>8, <1>9, <1>10, <1>11, <1>12, <1>13
       DEF Next, WriteBlock
  <2> QED BY <2>1, <1>14

----------------------------------------------------------------------------
(***************************************************************************)
(* The bytes of the file as finish() leaves them, and what is left to      *)
(* write, at every step: the invariant behind the layout and the reader.   *)
(***************************************************************************)
FullInv == WriterInv /\ FileInv /\ RecordsInSink /\ LayoutInv

\* The invariant holds at first.
LEMMA InitInv == Init => FullInv
BY TypeInit, PlacedInit, IntactInit, FileInit, LayoutInit DEF WriterInv, FullInv

\* It holds of every step.
LEMMA FullStep ==
  ASSUME FullInv, [Next]_vars
  PROVE  FullInv'
<1>1. TypeOK /\ Placed /\ FileInv /\ RecordsInSink /\ LayoutInv /\ WriterInv
  BY DEF FullInv, WriterInv
<1>2. WriterInv' /\ TypeOK'
  BY <1>1, TypeStep, PlacedStep, IntactStep DEF WriterInv
<1>3. FileInv' /\ len <= len'
  BY <1>1, <1>2, FileStep
<1>4. RecordsInSink'
  BY <1>1, <1>2, <1>3, RecordsStep
<1>5. LayoutInv'
  BY <1>1, <1>2, LayoutStep
<1> QED BY <1>2, <1>3, <1>4, <1>5 DEF FullInv

(***************************************************************************)
(* The inductive invariant of the whole writer: types and the place of     *)
(* everything, intact payloads, what each slot of each IFD holds at each   *)
(* stage of finish(), and how far a classic file can still grow.           *)
(***************************************************************************)
THEOREM FullInvariant == Spec => []FullInv
<1>1. FullInv /\ [Next]_vars => FullInv'
  BY FullStep
<1> QED BY <1>1, InitInv, PTL DEF Spec

(***************************************************************************)
(* plan_layout rejects what cannot be written before anything is: once     *)
(* finish() has chosen classic or BigTIFF, neither write_ifd's conversion  *)
(* of an offset to 32 bits nor a patch of one fails, for any images, any   *)
(* payloads and any place of the sink.                                     *)
(***************************************************************************)
THEOREM NeverFailsLate == Spec => []NoLateFailure
<1>1. FullInv => NoLateFailure
  BY DEF FullInv, LayoutInv
<1> QED BY <1>1, FullInvariant, PTL

(***************************************************************************)
(* A classic file that finish() has written the IFDs of ends within reach  *)
(* of a 32-bit offset, patches included.                                   *)
(***************************************************************************)
THEOREM ClassicStaysClassic == Spec => []ClassicWithinLimit
<1>1. FullInv => ClassicWithinLimit
  BY DEF FullInv, LayoutInv
<1> QED BY <1>1, FullInvariant, PTL

(***************************************************************************)
(* TiffVariant::Auto turns to BigTIFF only when the very images it was     *)
(* given would not fit a classic file: the estimate it decides by, made    *)
(* before an IFD is written, is what write_ifd would take, not a bound.    *)
(***************************************************************************)
THEOREM AutoChoosesExactly == Spec => []AutoIsExact
<1>1. FullInv => AutoIsExact
  BY DEF FullInv, LayoutInv
<1> QED BY <1>1, FullInvariant, PTL

\* What the readers find of the images that are linked.
Linked == [k \in 1..(cur.image - 1) |->
            [b \in DOMAIN images[k].records |-> ContentOfRecord(k, b)]]

\* A block is read from where its record says.
LEMMA ReadsBlock ==
  ASSUME TypeOK, Placed, PayloadsIntact, Solid(file),
         NEW k \in DOMAIN images, NEW j \in DOMAIN images[k].records,
         images[k].records[j] # NoRecord
  PROVE  ReadBlock(file, images[k].records[j].off, images[k].records[j].count) = ContentOfRecord(k, j)
<1> DEFINE r == images[k].records[j]
           v == [owner |-> Self, image |-> k, block |-> j]
           e == Extent(r.off, r.count, v)
<1>1. r \in [off : Nat, count : Nat]
  <2>1. images[k].records \in Seq(Records)
    BY ImageFacts DEF TypeOK
  <2> QED BY <2>1 DEF Records
<1>2. CASE r.count = 0
  BY <1>2 DEF ReadBlock, ContentOfRecord
<1>3. CASE r.count # 0
  <2>1. Recorded(k, j)
    BY <1>1, <1>3 DEF Recorded
  <2>2. e \in file
    BY <2>1 DEF PayloadsIntact
  <2>3. e.off = r.off /\ e.len = r.count /\ e.val = v
    BY DEF Extent
  <2>4. DOMAIN v # {"num"}
    <3>1. "owner" \in DOMAIN v
      OBVIOUS
    <3> QED BY <3>1
  <2>5. IsData(e) /\ ~IsNumber(e)
    BY <2>3, <2>4 DEF IsData, IsNumber
  <2>6. r.off >= DataStart /\ DataStart \in Nat /\ DataStart > 0
    <3>1. e.off >= DataStart
      BY <2>2, <2>5 DEF Placed
    <3>2. DataStart \in Nat /\ DataStart > 0
      BY ReservedCoversHeader DEF DataStart, Reserved, HeaderLen
    <3> QED BY <2>3, <3>1, <3>2
  <2>7. Payloads(file, r.off, r.count) = {v}
    <3> HIDE DEF e
    <3>1. Payloads(file, e.off, e.len) = {e.val}
      BY <2>2, <2>5, PayloadsAre
    <3> QED BY <2>3, <3>1
  <2>8. r.off # 0
    BY <1>1, <2>6
  <2>9. ReadBlock(file, r.off, r.count) = v
    BY <1>3, <2>7, <2>8, TheOneIs DEF ReadBlock
  <2> QED BY <1>3, <2>9 DEF ContentOfRecord
<1> QED BY <1>2, <1>3

\* A linked image is read as it was given.
LEMMA ReadsLinked ==
  ASSUME TypeOK, Placed, PayloadsIntact, FileInv, phase \in {"patch", "done"},
         NEW k \in 1..(cur.image - 1)
  PROVE  /\ ReadIfd(file, ifds[k], big) = Linked[k]
         /\ NextIfd(file, ifds[k], big) = {IF k < cur.image - 1 THEN ifds[k + 1] ELSE 0}
<1> DEFINE b == images[k].builder
           n == Len(images[k].records)
           r == images[k].records
           tags == Tags(k, big)
           val == Now(k)
           o == ArrayIndex(tags, OffsetsTagCode(b))
           c == ArrayIndex(tags, ByteCountsTagCode(b))
<1>0. /\ cur.image \in Nat \ {0} /\ cur.image <= Len(images) + 1 /\ Len(images) \in Nat
      /\ Len(ifds) = Len(images) /\ big \in BOOLEAN /\ ifds \in Seq(Nat)
  BY DEF TypeOK, FileInv, Progress
<1>1. k \in DOMAIN images /\ k \in DOMAIN ifds /\ k \in Nat /\ k < cur.image
  BY <1>0 DEF TypeOK
<1>2. /\ b \in Builder /\ Validate(b) /\ n = CheckedBlockCount(b) /\ n \in Nat \ {0}
      /\ DOMAIN r = 1..n /\ tags \in Seq(Tag) /\ tags = BuildTags(b, big)
  BY <1>0, <1>1, ImageFacts
<1>3. ifds[k] \in Nat
  BY <1>0, <1>1
<1>4. Solid(file) /\ HoldsIfd(file, ifds[k], tags, big, val)
  BY <1>1 DEF FileInv, FileSolid, IfdsOut
<1>5. ASSUME NEW j \in 1..n
      PROVE  val[Slot("elem", o, j)] = r[j].off /\ val[Slot("elem", c, j)] = r[j].count
  <2>1. OffsetSlot(k, j) \in Slots(tags, big) /\ CountSlot(k, j) \in Slots(tags, big)
    BY <1>1, ArraySlots
  <2>2. OffsetSlot(k, j).j = j /\ CountSlot(k, j).j = j
    BY DEF OffsetSlot, CountSlot, Slot
  <2>3. OffsetSlot(k, j) # NextSlot /\ CountSlot(k, j) # NextSlot /\ CountSlot(k, j) # OffsetSlot(k, j)
    BY <1>1, <2>1, <2>2, ArrayElements
  <2>4. Passed(k, j) /\ Passed(k, n + j)
    BY <1>1 DEF Passed
  <2>5. val[OffsetSlot(k, j)] = r[j].off
    BY <2>1, <2>2, <2>3, <2>4 DEF Now
  <2>6. val[CountSlot(k, j)] = r[j].count
    BY <2>1, <2>2, <2>3, <2>4 DEF Now
  <2> QED BY <2>5, <2>6 DEF OffsetSlot, CountSlot
<1>6. Patched(ifds[k], tags, big, val)
  <2> SUFFICES ASSUME NEW s \in Slots(tags, big), s.kind \notin {"next", "elem"}
               PROVE  val[s] = SlotStart(ifds[k], tags, big, s)
    BY DEF Patched
  <2>1. s # NextSlot /\ s # OffsetSlot(k, s.j) /\ s # CountSlot(k, s.j)
    BY DEF NextSlot, OffsetSlot, CountSlot, Slot
  <2> QED BY <2>1 DEF Now
<1>7. NextIfd(file, ifds[k], big) = {val[NextSlot]}
  BY <1>0, <1>2, <1>3, <1>4, <1>6, ReadsNext DEF NextSlot
<1>8. val[NextSlot] = IF k < cur.image - 1 THEN ifds[k + 1] ELSE 0
  <2>1. NextSlot \in Slots(tags, big) /\ NextSlot.kind = "next"
    BY DEF Slots, NextSlot, Slot
  <2>2. NextSlot # OffsetSlot(k, NextSlot.j) /\ NextSlot # CountSlot(k, NextSlot.j)
    BY DEF NextSlot, OffsetSlot, CountSlot, Slot
  <2>3. SlotStart(ifds[k], tags, big, NextSlot) = 0
    BY <2>1 DEF SlotStart
  <2>4. k + 1 < cur.image <=> k < cur.image - 1
    BY <1>0, <1>1
  <2> QED BY <2>1, <2>2, <2>3, <2>4 DEF Now
<1>9. ASSUME NEW code \in {OffsetsTagCode(b), ByteCountsTagCode(b)}, NEW codes,
             Codes(tags) \cap codes = {code}
      PROVE  BlockArrays(file, ifds[k], big, codes)
               = {[j \in 1..n |-> {val[Slot("elem", ArrayIndex(tags, code), j)]}]}
  <2> DEFINE a == ArrayIndex(tags, code)
  <2>1. /\ a \in DOMAIN tags /\ tags[a].code = code /\ code \in OffsetArrayCodes
        /\ tags[a].len \div Width(big) = n
        /\ n * Width(big) <= InlineMax(big) <=> ~Deferred(tags[a], big)
    BY <1>0, <1>2, BlockArrayIndex
  <2>2. DistinctCodes(tags) /\ DOMAIN tags = 1..Len(tags)
    BY <1>0, <1>2, BuiltTags
  <2>3. \A i \in DOMAIN tags : tags[i].code \in codes <=> i = a
    <3> HIDE DEF a, tags
    <3>1. ASSUME NEW i \in DOMAIN tags, tags[i].code \in codes PROVE i = a
      <4>1. tags[i].code \in Codes(tags)
        BY <2>2 DEF Codes
      <4>2. tags[i].code = code
        BY <1>9, <3>1, <4>1
      <4> QED BY <2>1, <2>2, <4>2 DEF DistinctCodes
    <3>2. tags[a].code \in codes
      BY <1>9, <2>1
    <3> QED BY <3>1, <3>2
  <2> HIDE DEF a, tags, val, n
  <2>4. BlockArrays(file, ifds[k], big, codes) = {[j \in 1..n |-> {val[Slot("elem", a, j)]}]}
    <3>1. /\ Solid(file) /\ tags \in Seq(Tag) /\ big \in BOOLEAN /\ ifds[k] \in Nat
          /\ HoldsIfd(file, ifds[k], tags, big, val) /\ Patched(ifds[k], tags, big, val)
          /\ n \in Nat /\ tags[a].code \in OffsetArrayCodes
      BY <1>0, <1>2, <1>3, <1>4, <1>6, <2>1
    <3> QED BY ONLY <2>1, <2>3, <3>1, ReadsArray
  <2> QED BY <2>4 DEF a
<1>10. Codes(tags) \cap {TagStripOffsets, TagTileOffsets} = {OffsetsTagCode(b)}
       /\ Codes(tags) \cap {TagStripByteCounts, TagTileByteCounts} = {ByteCountsTagCode(b)}
  BY <1>0, <1>2, BuiltTags
<1> DEFINE offs == [j \in 1..n |-> {r[j].off}]
           counts == [j \in 1..n |-> {r[j].count}]
<1>11. /\ BlockArrays(file, ifds[k], big, {TagStripOffsets, TagTileOffsets}) = {offs}
       /\ BlockArrays(file, ifds[k], big, {TagStripByteCounts, TagTileByteCounts}) = {counts}
  <2>1. [j \in 1..n |-> {val[Slot("elem", o, j)]}] = offs
    BY <1>5
  <2>2. [j \in 1..n |-> {val[Slot("elem", c, j)]}] = counts
    BY <1>5
  <2> QED BY <1>9, <1>10, <2>1, <2>2
<1>12. ReadIfd(file, ifds[k], big) = FetchedImage(file, offs, counts)
  <2>1. DOMAIN counts = DOMAIN offs
    OBVIOUS
  <2>2. FindsArrays(file, ifds[k], big, offs, counts)
    BY <1>11 DEF FindsArrays
  <2> HIDE DEF offs, counts
  <2> QED BY ONLY <2>1, <2>2, ReadsIfd
<1>13. \A j \in 1..n : FetchedBlock(file, offs[j], counts[j]) = ContentOfRecord(k, j)
  <2> SUFFICES ASSUME NEW j \in 1..n
               PROVE  FetchedBlock(file, offs[j], counts[j]) = ContentOfRecord(k, j)
    OBVIOUS
  <2>1. images[k].records[j] # NoRecord
    BY <1>1, <1>2 DEF FileInv, Progress, Written
  <2>2. ReadBlock(file, r[j].off, r[j].count) = ContentOfRecord(k, j)
    BY <1>1, <1>2, <1>4, <2>1, ReadsBlock
  <2> QED BY <2>2, ReadsFetched
<1>14. Linked[k] = [j \in 1..n |-> ContentOfRecord(k, j)]
  BY <1>2 DEF Linked
<1>15. FetchedImage(file, offs, counts) = Linked[k]
  BY <1>13, <1>14 DEF FetchedImage
<1> QED BY <1>7, <1>8, <1>12, <1>15

(***************************************************************************)
(* Once the header is out, what the reader gets is the linked images, each *)
(* as it was given, and nothing else.                                      *)
(***************************************************************************)
LEMMA ReadsWritten ==
  ASSUME FullInv, phase \in {"ifds", "patch", "done"}
  PROVE  ReadFile(file, headerOffset, MaxImages) = Linked
<1> DEFINE m == cur.image - 1
           at == [k \in 1..m |-> ifds[k]]
           chain == ReadChain(file, headerOffset, big, MaxImages)
<1>0. /\ TypeOK /\ Placed /\ PayloadsIntact /\ FileInv
      /\ cur.image \in Nat \ {0} /\ cur.image <= Len(images) + 1 /\ Len(images) \in Nat
      /\ big \in BOOLEAN /\ ifds \in Seq(Nat) /\ headerOffset \in Nat
      /\ MaxImages \in Nat /\ Len(images) <= MaxImages
      /\ phase = "ifds" => cur.image = 1
      /\ phase \in {"patch", "done"} => Len(ifds) = Len(images)
  BY BoundsAssumption DEF FullInv, WriterInv, TypeOK, FileInv, Progress
<1>1. m \in 0..MaxImages
  BY <1>0
<1>2. \A k \in 1..m : k \in DOMAIN ifds /\ phase \in {"patch", "done"}
  BY <1>0
<1>3. at \in [1..m -> Nat \ {0}]
  <2>1. DataStart \in Nat \ {0}
    BY <1>0, ReservedCoversHeader DEF DataStart, Reserved, HeaderLen
  <2>2. \A k \in 1..m : ifds[k] \in Nat /\ DataStart <= ifds[k]
    BY <1>0, <1>2 DEF FileInv, IfdsInRow
  <2> QED BY <2>1, <2>2
<1>4. Solid(file) /\ HeaderOut
  BY <1>0 DEF FileInv, FileSolid
<1>5. IsBig(file, headerOffset) = {big}
  BY <1>0, <1>4, ReadsHeader DEF HeaderOut
<1>6. FirstIfd(file, headerOffset, big) = {IF m = 0 THEN 0 ELSE at[1]}
  <2>1. FirstPointer(IF m = 0 THEN 0 ELSE at[1]) \in file
    <3>1. CASE m = 0
      <4>1. ~(cur.image > 1)
        BY <1>0, <3>1
      <4> QED BY <1>4, <3>1, <4>1 DEF HeaderOut
    <3>2. CASE m # 0
      <4>1. cur.image > 1 /\ 1 \in 1..m
        BY <1>0, <3>2
      <4> QED BY <1>4, <3>2, <4>1 DEF HeaderOut
    <3> QED BY <3>1, <3>2
  <2> HIDE DEF at
  <2> QED BY <1>4, <2>1, NumsAre DEF FirstPointer, FirstIfd
<1>7. ASSUME NEW k \in 1..m
      PROVE  /\ ReadIfd(file, at[k], big) = Linked[k]
             /\ NextIfd(file, at[k], big) = {IF k < m THEN at[k + 1] ELSE 0}
  <2>1. k < m => k + 1 \in 1..m
    BY <1>0
  <2>2. /\ ReadIfd(file, ifds[k], big) = Linked[k]
        /\ NextIfd(file, ifds[k], big) = {IF k < cur.image - 1 THEN ifds[k + 1] ELSE 0}
    BY <1>0, <1>2, ReadsLinked
  <2> QED BY <2>1, <2>2
<1>8. chain = [k \in 1..m |-> ReadIfd(file, at[k], big)]
  <2>1. PICK w : w = m
    OBVIOUS
  <2>2. PICK g : g = at
    OBVIOUS
  <2> HIDE DEF m, at
  <2>3. /\ w \in 0..MaxImages /\ g \in [1..w -> Nat \ {0}] /\ MaxImages \in Nat
        /\ FirstIfd(file, headerOffset, big) = {IF w = 0 THEN 0 ELSE g[1]}
        /\ \A k \in 1..w : NextIfd(file, g[k], big) = {IF k < w THEN g[k + 1] ELSE 0}
    BY <1>0, <1>1, <1>3, <1>6, <1>7, <2>1, <2>2
  <2>4. ReadChain(file, headerOffset, big, MaxImages) = [k \in 1..w |-> ReadIfd(file, g[k], big)]
    BY ONLY <2>3, ReadsChain
  <2> QED BY <2>1, <2>2, <2>4 DEF chain
<1>9. chain = Linked
  <2> HIDE DEF chain, at
  <2>1. Linked = [k \in 1..m |-> Linked[k]]
    BY DEF Linked
  <2> HIDE DEF m
  <2> QED BY <1>7, <1>8, <2>1
<1> QED BY <1>0, <1>5, <1>9, ReadsFile

\* Before the header is out there is no file.
LEMMA ReadsUnwritten ==
  ASSUME FullInv, phase \in {"open", "header"}
  PROVE  ReadFile(file, headerOffset, MaxImages) = <<>>
<1>1. headerOffset \in Nat /\ file \subseteq Extents /\ Unnamed
  BY DEF FullInv, WriterInv, TypeOK, FileInv
<1>2. \A e \in file : e.off # headerOffset
  BY <1>1 DEF Unnamed, Extents
<1>3. Nums(file, headerOffset, 4) = {}
  BY <1>2, NoNums
<1>4. IsBig(file, headerOffset) = {}
  BY <1>3 DEF IsBig
<1> QED BY <1>4, ReadsNoFile

----------------------------------------------------------------------------
(***************************************************************************)
(* The refinement of TiffFileContract.                                     *)
(***************************************************************************)
\* A step of the writer that a reader and the contract do not see.
LEMMA ContractStutters ==
  ASSUME UNCHANGED <<Store, Readable, Status>>
  PROVE  UNCHANGED Contract!vars
BY DEF Contract!vars

\* Each step of the contract, from what it asks of the store, the reader and the
\* status: add an image,
LEMMA ContractAdd ==
  ASSUME Status = "open", NEW b \in {x \in Builders : Validate(x)},
         Store' = Append(Store, [k \in 1..CheckedBlockCount(b) |-> NotGiven]),
         UNCHANGED <<Readable, Status>>
  PROVE  Contract!Next
<1>1. Contract!Add
  BY DEF Contract!Add
<1> QED BY <1>1 DEF Contract!Next

\* give a block,
LEMMA ContractPut ==
  ASSUME Status = "open", NEW i \in DOMAIN Store, NEW b \in DOMAIN Store[i],
         Store[i][b] = NotGiven, NEW c \in GivenTo(i, b),
         Store' = [Store EXCEPT ![i][b] = c], UNCHANGED <<Readable, Status>>
  PROVE  Contract!Next
<1>1. Contract!Put
  BY DEF Contract!Put
<1> QED BY <1>1 DEF Contract!Next

\* start to close,
LEMMA ContractClose ==
  ASSUME Status = "open", \A i \in DOMAIN Store : \A b \in DOMAIN Store[i] : Store[i][b] # NotGiven,
         Status' = "closing", UNCHANGED <<Store, Readable>>
  PROVE  Contract!Next
<1>1. Contract!Close
  BY DEF Contract!Close, Contract!Complete
<1> QED BY <1>1 DEF Contract!Next

\* let a reader see one more image,
LEMMA ContractPublish ==
  ASSUME Status = "closing", Len(Readable) < Len(Store),
         Readable' = Append(Readable, Store[Len(Readable) + 1]), UNCHANGED <<Store, Status>>
  PROVE  Contract!Next
<1>1. Contract!Publish
  BY DEF Contract!Publish
<1> QED BY <1>1 DEF Contract!Next

\* be closed,
LEMMA ContractClosed ==
  ASSUME Status = "closing", Readable = Store, Status' = "closed", UNCHANGED <<Store, Readable>>
  PROVE  Contract!Next
<1>1. Contract!Closed
  BY DEF Contract!Closed
<1> QED BY <1>1 DEF Contract!Next

\* and fail.
LEMMA ContractFail ==
  ASSUME Status \in {"open", "closing"}, Status' = "failed", UNCHANGED <<Store, Readable>>
  PROVE  Contract!Next
<1>1. Contract!Fail
  BY DEF Contract!Fail
<1> QED BY <1>1 DEF Contract!Next

\* The status of the contract in each phase of the writer.
LEMMA StatusIs ==
  /\ phase = "open" => Status = "open"
  /\ phase = "done" => Status = "closed"
  /\ phase = "failed" => Status = "failed"
  /\ phase \in {"header", "ifds", "patch"} => Status = "closing"
BY DEF Status

\* The sequence with one more element at its end.
LEMMA AppendIs ==
  ASSUME NEW S, NEW s \in Seq(S), NEW e
  PROVE  Append(s, e) = [i \in 1..(Len(s) + 1) |-> IF i = Len(s) + 1 THEN e ELSE s[i]]
<1>1. s \in Seq(S \cup {e})
  OBVIOUS
<1> DEFINE t == Append(s, e)
<1>2. t \in Seq(S \cup {e}) /\ Len(t) = Len(s) + 1
  BY <1>1
<1>3. \A i \in 1..Len(s) : t[i] = s[i]
  BY <1>1
<1>4. t[Len(s) + 1] = e
  BY <1>1
<1>5. Len(s) \in Nat
  OBVIOUS
<1> HIDE DEF t
<1>6. t = [i \in 1..Len(t) |-> t[i]]
  BY <1>2
<1>7. \A i \in 1..(Len(s) + 1) : i = Len(s) + 1 \/ i \in 1..Len(s)
  BY <1>5
<1> QED BY <1>2, <1>3, <1>4, <1>6, <1>7 DEF t

\* What the contract's store is: the images and, for each block, what its record says.
LEMMA StoreIs ==
  ASSUME TypeOK
  PROVE  /\ DOMAIN Store = 1..Len(images) /\ Len(Store) = Len(images) /\ Len(images) \in Nat
         /\ DOMAIN images = 1..Len(images) /\ Store \in Seq({Store[i] : i \in DOMAIN Store})
         /\ \A i \in DOMAIN images :
              Store[i] = [b \in DOMAIN images[i].records |-> ContentOfRecord(i, b)]
         /\ \A i \in DOMAIN images : \A b \in DOMAIN images[i].records :
              Store[i][b] = NotGiven <=> images[i].records[b] = NoRecord
<1>1. DOMAIN images = 1..Len(images) /\ Len(images) \in Nat
  BY DEF TypeOK
<1>2. DOMAIN Store = 1..Len(images) /\ Len(Store) = Len(images)
  BY <1>1 DEF Store
<1>3. \A i \in DOMAIN images :
        Store[i] = [b \in DOMAIN images[i].records |-> ContentOfRecord(i, b)]
  BY DEF Store
<1>4. \A i, b : ContentOfRecord(i, b) = NotGiven <=> images[i].records[b] = NoRecord
  <2> TAKE i, b
  <2>1. Sparse # NotGiven
    <3>1. "sparse" \in DOMAIN Sparse /\ "sparse" \notin DOMAIN NotGiven
      BY DEF Sparse, NotGiven
    <3> QED BY <3>1
  <2>2. [owner |-> Self, image |-> i, block |-> b] # NotGiven
    <3>1. "owner" \notin DOMAIN NotGiven
      BY DEF NotGiven
    <3> QED BY <3>1
  <2> QED BY <2>1, <2>2 DEF ContentOfRecord
<1>5. Store \in Seq({Store[i] : i \in DOMAIN Store})
  <2>1. Store \in [1..Len(images) -> {Store[i] : i \in DOMAIN Store}]
    BY <1>1 DEF Store
  <2> QED BY <1>1, <2>1
<1> QED BY <1>1, <1>2, <1>3, <1>4, <1>5

\* The store changes with the images only.
LEMMA StoreKept ==
  ASSUME UNCHANGED images
  PROVE  UNCHANGED Store
BY DEF Store, ContentOfRecord

\* What a reader gets at each step.
ReaderInv ==
  /\ phase \in {"open", "header"} => Readable = <<>>
  /\ phase \in {"ifds", "patch", "done"} => Readable = Linked

\* A reader sees nothing before the first IFD is out, and the linked images from then on.
LEMMA ReaderFacts == FullInv => ReaderInv
BY ReadsUnwritten, ReadsWritten DEF ReaderInv, Readable

\* A caller adds an image.
LEMMA AddsImage ==
  ASSUME FullInv, FullInv', ReaderInv, ReaderInv', NEW b \in Builders, AddImage(b)
  PROVE  Contract!Next
<1> DEFINE n == CheckedBlockCount(b)
           new == [builder |-> b, records |-> [k \in 1..n |-> NoRecord]]
<1>1. /\ TypeOK /\ TypeOK' /\ phase = "open" /\ phase' = "open" /\ Validate(b)
      /\ images' = Append(images, new)
  BY DEF FullInv, WriterInv, AddImage, finishing
<1>2. UNCHANGED <<Readable, Status>> /\ Status = "open"
  BY <1>1, StatusIs DEF Status, ReaderInv
<1>3. Store' = Append(Store, [k \in 1..n |-> NotGiven])
  <2> DEFINE added == [k \in 1..n |-> NotGiven]
  <2>0. PICK N \in Nat : N = Len(images)
    BY <1>1, StoreIs
  <2>1. /\ DOMAIN Store = 1..N /\ DOMAIN Store' = 1..(N + 1)
        /\ Len(Store) = N /\ DOMAIN images = 1..N /\ DOMAIN images' = 1..(N + 1)
    <3>1. DOMAIN images' = 1..Len(images') /\ Len(images') = N + 1
      BY <1>1, <2>0 DEF TypeOK
    <3>2. DOMAIN Store' = DOMAIN images'
      BY DEF Store
    <3> QED BY <1>1, <2>0, <3>1, <3>2, StoreIs
  <2>2. \A i \in 1..N : images'[i] = images[i]
    BY <1>1, <2>1
  <2>3. images'[N + 1] = new
    BY <1>1, <2>0, <2>1
  <2>4. \A i \in 1..N : Store'[i] = Store[i]
    BY <2>1, <2>2 DEF Store, ContentOfRecord
  <2>5. Store'[N + 1] = added
    <3>1. Store'[N + 1] = [k \in DOMAIN images'[N + 1].records |-> ContentOfRecord(N + 1, k)']
      BY <2>1 DEF Store
    <3>2. DOMAIN images'[N + 1].records = 1..n
      BY <2>3
    <3>3. \A k \in 1..n : ContentOfRecord(N + 1, k)' = NotGiven
      BY <2>3 DEF ContentOfRecord
    <3> QED BY <3>1, <3>2, <3>3
  <2> HIDE DEF added, new
  <2>6. Store' = [i \in 1..(N + 1) |-> Store'[i]]
    BY <2>1 DEF Store
  <2>7. Append(Store, added) = [i \in 1..(N + 1) |-> IF i = N + 1 THEN added ELSE Store[i]]
    BY <1>1, <2>0, <2>1, StoreIs, AppendIs
  <2> QED BY <2>1, <2>4, <2>5, <2>6, <2>7 DEF added
<1>4. b \in {x \in Builders : Validate(x)}
  BY <1>1
<1> QED BY <1>2, <1>3, <1>4, ContractAdd

\* A caller gives a block its content.
LEMMA GivesBlock ==
  ASSUME FullInv, FullInv', ReaderInv, ReaderInv', phase = "open", phase' = "open",
         NEW h \in Handles, NEW b, Writable(h, b), NEW record, record # NoRecord,
         SetRecord(h, b, record)
  PROVE  Contract!Next
<1>1. PICK i : i = h.index
  OBVIOUS
<1>2. /\ TypeOK /\ i \in DOMAIN images /\ b \in DOMAIN images[i].records
      /\ images[i].records[b] = NoRecord
      /\ images' = [images EXCEPT ![i] = WithRecord(@, b, record)]
  BY <1>1 DEF FullInv, WriterInv, Writable, ImageIndex, SetRecord
<1>3. UNCHANGED <<Readable, Status>> /\ Status = "open"
  BY StatusIs DEF Status, ReaderInv
<1>4. /\ DOMAIN images' = DOMAIN images
      /\ \A j \in DOMAIN images : j # i => images'[j] = images[j]
      /\ images'[i].records = [images[i].records EXCEPT ![b] = record]
  BY <1>2 DEF WithRecord
<1>5. i \in DOMAIN Store /\ b \in DOMAIN Store[i] /\ Store[i][b] = NotGiven
  BY <1>2, StoreIs
<1>6. PICK c \in GivenTo(i, b) : c = ContentOfRecord(i, b)'
  <2>1. images'[i].records[b] = record
    BY <1>2, <1>4
  <2> QED BY <2>1 DEF ContentOfRecord, GivenTo
<1>7. Store' = [Store EXCEPT ![i][b] = c]
  <2>1. DOMAIN Store' = DOMAIN Store /\ Store' = [j \in DOMAIN Store |-> Store'[j]]
    BY <1>4 DEF Store
  <2>2. \A j \in DOMAIN Store : j # i => Store'[j] = Store[j]
    BY <1>4 DEF Store, ContentOfRecord
  <2>3. Store'[i] = [Store[i] EXCEPT ![b] = c]
    <3>1. Store'[i] = [k \in DOMAIN images[i].records |-> ContentOfRecord(i, k)']
      BY <1>2, <1>4 DEF Store
    <3>2. Store[i] = [k \in DOMAIN images[i].records |-> ContentOfRecord(i, k)]
      BY <1>2 DEF Store
    <3>3. \A k \in DOMAIN images[i].records : k # b => ContentOfRecord(i, k)' = ContentOfRecord(i, k)
      BY <1>4 DEF ContentOfRecord
    <3> QED BY <1>6, <3>1, <3>2, <3>3
  <2> QED BY <1>5, <2>1, <2>2, <2>3
<1> QED BY <1>3, <1>5, <1>7, ContractPut

\* finish() settles on a variant, or gives up.
LEMMA ClosesOrFails ==
  ASSUME FullInv, FullInv', ReaderInv, ReaderInv', Finish
  PROVE  Contract!Next
<1>1. /\ TypeOK /\ phase = "open" /\ UNCHANGED Readable /\ UNCHANGED Store
  BY StoreKept DEF FullInv, WriterInv, Finish, options, sink, Readable
<1>2. Status = "open"
  BY <1>1, StatusIs
<1>3. CASE phase' = "failed"
  <2>1. Status' = "failed"
    BY <1>3 DEF Status
  <2> QED BY <1>1, <1>2, <2>1, ContractFail
<1>4. CASE phase' # "failed"
  <2>1. phase' = "header" /\ \A i \in DOMAIN images : Written(images[i])
    BY <1>4 DEF Finish, Fail, Continue
  <2>2. Status' = "closing"
    BY <2>1 DEF Status
  <2>3. \A i \in DOMAIN Store : \A b \in DOMAIN Store[i] : Store[i][b] # NotGiven
    <3> SUFFICES ASSUME NEW i \in DOMAIN Store, NEW b \in DOMAIN Store[i]
                 PROVE  Store[i][b] # NotGiven
      OBVIOUS
    <3>1. i \in DOMAIN images /\ b \in DOMAIN images[i].records
      BY <1>1, StoreIs
    <3>2. images[i].records[b] # NoRecord
      BY <2>1, <3>1 DEF Written
    <3> QED BY <1>1, <3>1, <3>2, StoreIs
  <2> QED BY <1>1, <1>2, <2>2, <2>3, ContractClose
<1> QED BY <1>3, <1>4

\* A patch that is not an image's last changes nothing for a reader; the last
\* one makes the image readable.
LEMMA Publishes ==
  ASSUME FullInv, FullInv', ReaderInv, ReaderInv', WritePatch
  PROVE  Contract!Next \/ UNCHANGED Contract!vars
<1>1. PICK i : i = cur.image
  OBVIOUS
<1>2. /\ TypeOK /\ phase = "patch" /\ i \in DOMAIN images /\ UNCHANGED images
      /\ phase' = "patch" /\ (cur'.image = i \/ cur'.image = i + 1)
  <2>1. error' # "overflow"
    BY DEF FullInv, LayoutInv, NoLateFailure
  <2>2. TypeOK /\ cur \in [image : Nat \ {0}, step : Nat \ {0}]
    BY DEF FullInv, WriterInv, TypeOK
  <2>3. cur' = IF cur.step < PatchCount(cur.image) THEN [cur EXCEPT !.step = @ + 1]
               ELSE [image |-> cur.image + 1, step |-> 1]
    BY <2>1 DEF WritePatch, Fail
  <2>4. cur'.image = i \/ cur'.image = i + 1
    BY <1>1, <2>2, <2>3
  <2> QED BY <1>1, <2>1, <2>2, <2>4 DEF WritePatch, Fail
<1>3. /\ Readable = Linked /\ Readable' = Linked' /\ UNCHANGED Store
      /\ UNCHANGED Status /\ Status = "closing"
  BY <1>2, StoreKept, StatusIs DEF ReaderInv, Status
<1>4. /\ i \in Nat \ {0} /\ DOMAIN images = 1..Len(images) /\ Len(images) \in Nat
      /\ Len(Store) = Len(images) /\ i \in 1..Len(images) /\ DOMAIN Store = 1..Len(images)
  BY <1>2, StoreIs
<1>5. \A k \in 1..i : Store[k] = [b \in DOMAIN images[k].records |-> ContentOfRecord(k, b)]
  BY <1>4 DEF Store
<1>6. Linked = [k \in 1..(i - 1) |-> Store[k]]
  BY <1>1, <1>4, <1>5 DEF Linked
<1>7. Linked' = [k \in 1..(cur'.image - 1) |-> Store[k]]
  <2>1. Linked' = [k \in 1..(cur'.image - 1) |->
                     [b \in DOMAIN images[k].records |-> ContentOfRecord(k, b)]]
    BY <1>2 DEF Linked, ContentOfRecord
  <2>2. PICK m \in {i - 1, i} : m = cur'.image - 1
    BY <1>2, <1>4
  <2>3. \A k \in 1..m : k \in 1..i
    BY <1>4
  <2> QED BY <1>5, <2>1, <2>2, <2>3
<1>8. CASE cur'.image = i
  <2>1. UNCHANGED <<Store, Readable, Status>>
    BY <1>3, <1>6, <1>7, <1>8
  <2> QED BY <2>1, ContractStutters
<1>9. CASE cur'.image = i + 1
  <2> DEFINE S == {Store[k] : k \in DOMAIN Store}
  <2>1. Readable \in Seq(S) /\ Len(Readable) = i - 1
    BY <1>3, <1>4, <1>6
  <2>2. Readable' = [k \in 1..i |-> Store[k]]
    BY <1>3, <1>4, <1>7, <1>9
  <2>3. Append(Readable, Store[i]) = [k \in 1..i |-> IF k = i THEN Store[i] ELSE Readable[k]]
    <3> HIDE DEF S
    <3>1. Append(Readable, Store[i])
            = [k \in 1..(Len(Readable) + 1) |->
                 IF k = Len(Readable) + 1 THEN Store[i] ELSE Readable[k]]
      BY <2>1, AppendIs
    <3> QED BY <1>4, <2>1, <3>1
  <2>4. \A k \in 1..i : k = i \/ Readable[k] = Store[k]
    BY <1>3, <1>4, <1>6
  <2>5. Readable' = Append(Readable, Store[i])
    BY <2>2, <2>3, <2>4
  <2>6. Len(Readable) < Len(Store) /\ Len(Readable) + 1 = i
    BY <1>4, <2>1
  <2>7. Readable' = Append(Readable, Store[Len(Readable) + 1])
    BY <2>5, <2>6
  <2> QED BY <1>3, <2>6, <2>7, ContractPublish
<1> QED BY <1>2, <1>8, <1>9

(***************************************************************************)
(* The sink fails in finish(): the file reads as it did.  A BigTIFF        *)
(* version without the offset size behind it is no header, and a classic   *)
(* header with a zero pointer holds no image.                              *)
(***************************************************************************)
LEMMA FailsReadable ==
  ASSUME FullInv, FullInv', ReaderInv, FinishFails
  PROVE  Contract!Next
<1>0. /\ TypeOK /\ FileInv /\ FileInv' /\ phase \in {"header", "ifds", "patch"}
      /\ phase' = "failed" /\ UNCHANGED <<images, headerOffset>>
      /\ big \in BOOLEAN /\ headerOffset \in Nat /\ len \in Nat /\ file \subseteq Extents
  BY DEF FullInv, WriterInv, TypeOK, FinishFails, Fail, options
<1>1. Status \in {"open", "closing"} /\ Status' = "failed" /\ UNCHANGED Store
  BY <1>0, StatusIs, StoreKept DEF Status
<1>2. ASSUME UNCHANGED sink PROVE UNCHANGED Readable
  BY <1>0, <1>2 DEF Readable, sink
<1>3. ASSUME phase = "header", NEW w \in HeaderFields, w.off = headerOffset,
             file' = Overwrite(file, w.off, w.len, {w})
      PROVE  UNCHANGED Readable
  <2> DEFINE H == headerOffset
  <2>1. w = Field(H, 4, IF big THEN BigVersion ELSE ClassicVersion) /\ w.len = 4
    BY <1>0, <1>3 DEF HeaderFields, Field
  <2>2. Solid(file')
    BY <1>0 DEF FileInv, FileSolid
  <2>3. Field(H + 4, 4, 0) \in file
    BY <1>0, <1>3 DEF FileInv, Unnamed
  <2>4. Field(H + 4, 4, 0) \in file'
    <3>1. Apart(H + 4, 4, H, 4)
      BY <1>0 DEF Apart
    <3>2. Field(H + 4, 4, 0).off = H + 4 /\ Field(H + 4, 4, 0).len = 4
      BY FieldIs
    <3> QED BY <1>3, <2>1, <2>3, <3>1, <3>2, OverwriteKeeps
  <2>5. Nums(file', H, 4) = {IF big THEN BigVersion ELSE ClassicVersion}
    <3>1. w \in file'
      BY <1>3 DEF Overwrite
    <3> QED BY <2>1, <2>2, <3>1, NumsAre
  <2>6. Nums(file', H + 4, 4) = {0}
    BY <2>2, <2>4, NumsAre
  <2>7. ReadFile(file', H, MaxImages) = <<>>
    <3>1. CASE big
      <4>1. IsBig(file', H) = {}
        BY <2>5, <2>6, <3>1 DEF IsBig, BigVersion, ClassicVersion
      <4> QED BY <4>1, ReadsNoFile
    <3>2. CASE ~big
      <4>0. big = FALSE
        BY <1>0, <3>2
      <4>1. IsBig(file', H) = {FALSE}
        <5>1. Field(H, 4, ClassicVersion) \in file'
          BY <1>3, <2>1, <4>0 DEF Overwrite
        <5> QED BY <2>2, <5>1, ReadsHeader
      <4>2. FirstIfd(file', H, FALSE) = {0}
        BY <2>6 DEF FirstIfd, Width, ElementWidth
      <4>3. ReadChain(file', H, FALSE, MaxImages) = <<>>
        BY <4>2, ReadsEmpty, BoundsAssumption
      <4> QED BY <4>1, <4>3, ReadsFile
    <3> QED BY <3>1, <3>2
  <2>8. Readable = <<>>
    BY <1>3 DEF ReaderInv
  <2> QED BY <1>0, <2>7, <2>8 DEF Readable
<1>4. ASSUME NEW k, AppendToSink(k, {}) PROVE UNCHANGED Readable
  <2>1. \A e \in file : e.off + e.len <= len
    BY <1>0 DEF FileInv, FileSolid
  <2>2. file' = file
    BY <1>4, <2>1 DEF AppendToSink, Overwrite, Untouched
  <2> QED BY <1>0, <2>2 DEF Readable
<1>5. UNCHANGED Readable
  BY <1>2, <1>3, <1>4 DEF FinishFails
<1> QED BY <1>1, <1>5, ContractFail

----------------------------------------------------------------------------
\* Every step of the writer is a step of the contract, or changes nothing in it.
LEMMA ContractStep ==
  ASSUME FullInv, FullInv', ReaderInv, ReaderInv', [Next]_vars
  PROVE  Contract!Next \/ UNCHANGED Contract!vars
<1> USE DEF options, sink, finishing
<1>0. TypeOK /\ Len(images) \in Nat /\ len \in Nat
  BY DEF FullInv, WriterInv, TypeOK
<1>a. ASSUME phase = "open", phase' = "open", UNCHANGED images
      PROVE  UNCHANGED Contract!vars
  <2>1. UNCHANGED <<Readable, Status>>
    BY <1>a DEF ReaderInv, Status
  <2> QED BY <1>a, <2>1, StoreKept, ContractStutters
<1>b. ASSUME phase \in {"header", "ifds"}, phase' \in {"ifds", "patch"}, UNCHANGED <<images, cur>>,
             phase = "header" => cur.image = 1
      PROVE  UNCHANGED Contract!vars
  <2>1. UNCHANGED Status
    BY <1>b DEF Status
  <2>2. Readable' = Linked' /\ Linked' = Linked
    BY <1>b DEF ReaderInv, Linked, ContentOfRecord
  <2>3. CASE phase = "header"
    <3>1. Linked = <<>>
      BY <1>b, <2>3 DEF Linked
    <3> QED BY <1>b, <2>1, <2>2, <2>3, <3>1, StoreKept, ContractStutters DEF ReaderInv
  <2>4. CASE phase = "ifds"
    BY <1>b, <2>1, <2>2, <2>4, StoreKept, ContractStutters DEF ReaderInv
  <2> QED BY <1>b, <2>3, <2>4
<1>1. ASSUME NEW b \in Builders, AddImage(b) PROVE Contract!Next
  BY <1>1, AddsImage
<1>2. ASSUME NEW n \in PrefixLens, WriteHeaderPrefix(n) PROVE UNCHANGED Contract!vars
  BY <1>2, <1>a DEF WriteHeaderPrefix
<1>3. ASSUME NEW h \in Handles, NEW b \in 1..(MaxBlocks + 1), WriteBlockSparse(h, b)
      PROVE  Contract!Next
  <2>1. SparseRecord # NoRecord
    BY DEF SparseRecord, NoRecord
  <2> QED BY <1>3, <2>1, GivesBlock DEF WriteBlockSparse
<1>4. ASSUME NEW h \in Handles, NEW b \in 1..(MaxBlocks + 1), NEW n \in PayloadLens,
             WriteBlockRaw(h, b, n)
      PROVE  Contract!Next
  <2>1. Record(len, n) # NoRecord
    BY <1>0 DEF Record, NoRecord
  <2> QED BY <1>4, <2>1, GivesBlock DEF WriteBlockRaw
<1>5. ASSUME NEW h \in Handles, NEW b \in 1..(MaxBlocks + 1), NEW n \in PayloadLens,
             NEW pre \in WrapLens, NEW suf \in WrapLens, WriteBlockRawSegmented(h, b, pre, n, suf)
      PROVE  Contract!Next
  <2>1. Record(len + pre, n) # NoRecord
    BY <1>0, LensAssumption DEF Record, NoRecord
  <2> QED BY <1>5, <2>1, GivesBlock DEF WriteBlockRawSegmented
<1>6. ASSUME NEW h \in Handles, NEW b \in 1..(MaxBlocks + 1), NEW n \in PayloadLens,
             NEW k \in 0..(n - 1), WriteBlockFails(h, b, n, k)
      PROVE  UNCHANGED Contract!vars
  BY <1>6, <1>a DEF WriteBlockFails
<1>7. ASSUME WriteHeader PROVE UNCHANGED Contract!vars
  <2>1. cur.image = 1
    BY <1>7 DEF WriteHeader, FullInv, FileInv, Progress
  <2> QED BY <1>7, <1>b, <2>1 DEF WriteHeader, Continue
<1>8. ASSUME WriteIfd PROVE UNCHANGED Contract!vars
  <2>1. error' \notin {"overflow", "unsorted"}
    BY DEF FullInv, LayoutInv, NoLateFailure
  <2>2. phase = "ifds" /\ phase' = "ifds" /\ UNCHANGED <<images, cur>>
    BY <1>8, <2>1 DEF WriteIfd, Fail
  <2> QED BY <1>b, <2>2
<1>9. ASSUME IfdsWritten PROVE UNCHANGED Contract!vars
  BY <1>9, <1>b DEF IfdsWritten, Continue
<1>10. ASSUME Finished PROVE Contract!Next
  <2>1. /\ phase = "patch" /\ phase' = "done" /\ UNCHANGED <<images, cur>>
        /\ cur.image = Len(images) + 1
    <3>1. cur.image <= Len(images) + 1 /\ cur.image \in Nat
      BY <1>0 DEF FullInv, FileInv, Progress, TypeOK
    <3> QED BY <1>0, <1>10, <3>1 DEF Finished, Continue
  <2>2. Status = "closing" /\ Status' = "closed" /\ UNCHANGED Store
    BY <2>1, StatusIs, StoreKept DEF Status
  <2>3. Readable = Linked /\ Readable' = Linked' /\ Linked' = Linked
    BY <2>1 DEF ReaderInv, Linked, ContentOfRecord
  <2>4. Linked = Store
    BY <1>0, <2>1, StoreIs DEF Linked, Store
  <2> QED BY <2>2, <2>3, <2>4, ContractClosed
<1>11. ASSUME UNCHANGED vars PROVE UNCHANGED Contract!vars
  <2>1. UNCHANGED <<images, file, headerOffset, phase>>
    BY <1>11 DEF vars
  <2> QED BY <2>1, StoreKept, ContractStutters DEF Readable, Status
<1> QED
  <2>1. CASE Next
    BY <2>1, <1>1, <1>2, <1>3, <1>4, <1>5, <1>6, <1>7, <1>8, <1>9, <1>10,
       ClosesOrFails, Publishes, FailsReadable DEF Next, WriteBlock
  <2> QED BY <2>1, <1>11

(***************************************************************************)
(* The writer implements the contract of a TIFF file: at every step of any *)
(* run, what a reader decodes from the bytes that are out, starting at the *)
(* header, is a prefix of the images, each with every block as it was      *)
(* given, and all of them when finish() returns.  A failure at any step of *)
(* the sink leaves such a prefix behind too.                               *)
(***************************************************************************)
THEOREM WriterKeepsContract == Spec => ImplementsContract
<1>1. Init => Contract!Init
  <2> SUFFICES ASSUME Init PROVE Contract!Init
    OBVIOUS
  <2>1. FullInv /\ phase = "open" /\ images = <<>>
    BY InitInv DEF Init
  <2>2. Readable = <<>> /\ Status = "open"
    BY <2>1, ReaderFacts, StatusIs DEF ReaderInv
  <2>3. Store = <<>>
    BY <2>1 DEF Store
  <2> QED BY <2>2, <2>3 DEF Contract!Init
<1>2. FullInv => ReaderInv
  BY ReaderFacts
<1>3. FullInv /\ FullInv' /\ ReaderInv /\ ReaderInv' /\ [Next]_vars => [Contract!Next]_(Contract!vars)
  BY ContractStep
<1> QED BY <1>1, <1>2, <1>3, FullInvariant, PTL DEF Spec, ImplementsContract, Contract!Spec

\* The raster in use is well typed, and so is the image it is cut into.
LEMMA RasterType ==
  ASSUME raster \in Rasters
  PROVE  /\ raster.width \in Nat \ {0} /\ raster.height \in Nat \ {0} /\ raster.bands \in Nat \ {0}
         /\ raster.tileWidth \in Nat \ {0} /\ raster.tileHeight \in Nat \ {0}
         /\ raster.tiled \in BOOLEAN /\ raster.planar \in BOOLEAN
         /\ raster.sparse \in BOOLEAN /\ raster.nodata \in BOOLEAN
         /\ raster.by = "tiles" => raster.tiled
         /\ Builder1 \in Builders
         /\ Builder1.width = raster.width /\ Builder1.height = raster.height
         /\ Builder1.spp = raster.bands /\ Builder1.planar = raster.planar
         /\ Builder1.layout = (IF raster.tiled THEN "tiles" ELSE "strips")
         /\ raster.tiled => Builder1.blockWidth = raster.tileWidth
         /\ raster.tiled => Builder1.blockHeight = raster.tileHeight
         /\ Builder1.blockHeight \in Nat \ {0}
<1>1. IsRaster(raster) /\ Builder1 \in Builders
  BY RastersAssumption DEF Builder1
<1>2. /\ raster.width \in Nat \ {0} /\ raster.height \in Nat \ {0} /\ raster.bands \in Nat \ {0}
      /\ raster.tileWidth \in Nat \ {0} /\ raster.tileHeight \in Nat \ {0}
      /\ raster.tiled \in BOOLEAN /\ raster.planar \in BOOLEAN
      /\ raster.sparse \in BOOLEAN /\ raster.nodata \in BOOLEAN
      /\ raster.by = "tiles" => raster.tiled
  BY <1>1 DEF IsRaster
<1>3. /\ Builder1.width = raster.width /\ Builder1.height = raster.height
      /\ Builder1.spp = raster.bands /\ Builder1.planar = raster.planar
      /\ Builder1.layout = (IF raster.tiled THEN "tiles" ELSE "strips")
      /\ Builder1.blockWidth = (IF raster.tiled THEN raster.tileWidth ELSE 0)
      /\ Builder1.blockHeight = IF raster.tiled THEN raster.tileHeight
                                ELSE IF raster.height < 256 THEN raster.height ELSE 256
  BY DEF Builder1, BuilderOf
<1>4. Builder1.blockHeight \in Nat \ {0}
  BY <1>2, <1>3
<1> QED BY <1>1, <1>2, <1>3, <1>4

\* The blocks of a raster: as many planes as it has bands of their own, each of Down rows
\* of Across blocks.
LEMMA BlocksAre ==
  ASSUME raster \in Rasters
  PROVE  /\ Across \in Nat \ {0} /\ Down \in Nat \ {0} /\ PerPlane \in Nat \ {0}
         /\ Bands \in Nat \ {0} /\ PerPlane = BlocksPerPlane(Builder1)
         /\ CheckedBlockCount(Builder1) = Bands * PerPlane
         /\ Blocks = 1..(Bands * PerPlane) /\ Bands * PerPlane \in Nat \ {0}
<1>1. Across \in Nat \ {0} /\ Down \in Nat \ {0}
  <2>1. /\ raster.width \in Nat \ {0} /\ raster.height \in Nat \ {0}
        /\ raster.tileWidth \in Nat \ {0} /\ Builder1.blockHeight \in Nat \ {0}
    BY RasterType
  <2>2. DivCeil(raster.width, raster.tileWidth) \in Nat \ {0}
    BY <2>1, DivCeilType
  <2>3. DivCeil(raster.height, Builder1.blockHeight) \in Nat \ {0}
    BY <2>1, DivCeilType
  <2> QED BY <2>2, <2>3 DEF Across, Down
<1>2. PerPlane \in Nat \ {0}
  <2> HIDE DEF Across, Down
  <2>1. \A a, d \in Nat \ {0} : a * d \in Nat \ {0}
    OBVIOUS
  <2> QED BY <1>1, <2>1 DEF PerPlane
<1>3. Bands \in Nat \ {0}
  BY RasterType DEF Bands
<1>4. PerPlane = BlocksPerPlane(Builder1)
  <2>1. CASE raster.tiled
    <3>1. Builder1.layout = "tiles"
      BY <2>1, RasterType
    <3> QED BY <2>1, <3>1, RasterType DEF PerPlane, Across, Down, BlocksPerPlane
  <2>2. CASE ~raster.tiled
    <3>1. Builder1.layout = "strips" /\ Across = 1
      BY <2>2, RasterType DEF Across
    <3>2. PerPlane = Down
      BY <1>1, <3>1 DEF PerPlane
    <3> QED BY <3>1, <3>2, RasterType DEF Down, BlocksPerPlane
  <2> QED BY <2>1, <2>2
<1>5. CheckedBlockCount(Builder1) = Bands * PerPlane
  <2>1. CASE raster.planar
    <3>1. CheckedBlockCount(Builder1) = PerPlane * raster.bands /\ Bands = raster.bands
      BY <1>4, <2>1, RasterType DEF CheckedBlockCount, Bands
    <3>2. \A p, n \in Nat : p * n = n * p
      OBVIOUS
    <3> QED BY <1>2, <1>3, <3>1, <3>2
  <2>2. CASE ~raster.planar
    <3>1. CheckedBlockCount(Builder1) = PerPlane /\ Bands = 1
      BY <1>4, <2>2, RasterType DEF CheckedBlockCount, Bands
    <3> QED BY <1>2, <3>1
  <2> QED BY <2>1, <2>2
<1>6. Bands * PerPlane \in Nat \ {0}
  <2>1. \A p, n \in Nat \ {0} : n * p \in Nat \ {0}
    OBVIOUS
  <2> QED BY <1>2, <1>3, <2>1
<1> QED BY <1>1, <1>2, <1>3, <1>4, <1>5, <1>6 DEF Blocks

(***************************************************************************)
(* The blocks of the bands that write_2d_to is not given lie below the     *)
(* raster, and no others do.                                               *)
(***************************************************************************)
Below(b) == MissesBands /\ b > PerPlane

\* The number of a block in its plane, as the array writers see it.
CutIndex(b) == IF raster.planar /\ ~By2d THEN (b - 1) % PerPlane ELSE b - 1

LEMMA PlacedBelow ==
  ASSUME raster \in Rasters, NEW b \in Blocks
  PROVE  /\ CutIndex(b) \in Nat
         /\ Place(b).top = (CutIndex(b) \div Across) * Builder1.blockHeight
         /\ Place(b).top \in Nat
         /\ Place(b).top < raster.height <=> ~Below(b)
         /\ ~Below(b) => CutIndex(b) = PlaneIndex(Builder1, b - 1)
         /\ Below(b) => raster.planar
<1>1. /\ Across \in Nat \ {0} /\ Down \in Nat \ {0} /\ PerPlane \in Nat \ {0} /\ Bands \in Nat \ {0}
      /\ PerPlane = BlocksPerPlane(Builder1) /\ Builder1.planar = raster.planar
      /\ raster.planar \in BOOLEAN /\ b \in 1..(Bands * PerPlane) /\ Bands * PerPlane \in Nat
      /\ raster.bands \in Nat \ {0}
  BY BlocksAre, RasterType
<1>2. b \in Nat /\ b - 1 \in Nat
  BY <1>1
<1>3. Bands = 1 => b <= PerPlane
  BY <1>1, <1>2
<1> HIDE DEF Across, Down, PerPlane, Bands, Blocks
<1>4. b <= PerPlane => (b - 1) % PerPlane = b - 1
  BY <1>1, <1>2
<1>5. ASSUME ~Below(b)
      PROVE  CutIndex(b) \in Nat /\ CutIndex(b) < PerPlane /\ CutIndex(b) = PlaneIndex(Builder1, b - 1)
  <2>1. CASE raster.planar /\ ~By2d
    <3>1. (b - 1) % PerPlane \in Nat /\ (b - 1) % PerPlane < PerPlane
      BY <1>1, <1>2
    <3> QED BY <1>1, <2>1, <3>1 DEF CutIndex, PlaneIndex
  <2>2. CASE ~raster.planar
    <3>1. b <= PerPlane
      BY <1>3, <2>2 DEF Bands
    <3> QED BY <1>1, <1>2, <2>2, <3>1 DEF CutIndex, PlaneIndex
  <2>3. CASE raster.planar /\ By2d
    <3>1. b <= PerPlane
      <4>1. CASE raster.bands > 1
        BY <1>1, <1>2, <1>5, <2>3, <4>1 DEF Below, MissesBands
      <4>2. CASE ~(raster.bands > 1)
        BY <1>1, <1>3, <2>3, <4>2 DEF Bands
      <4> QED BY <4>1, <4>2
    <3> QED BY <1>1, <1>2, <1>4, <2>3, <3>1 DEF CutIndex, PlaneIndex
  <2> QED BY <1>1, <2>1, <2>2, <2>3
<1>6. ASSUME Below(b)
      PROVE  raster.planar /\ CutIndex(b) \in Nat /\ ~(CutIndex(b) < PerPlane)
  <2>1. By2d /\ b > PerPlane
    BY <1>6 DEF Below, MissesBands
  <2>2. raster.planar
    BY <1>1, <1>2, <1>3, <2>1 DEF Bands
  <2>3. CutIndex(b) = b - 1
    BY <2>1 DEF CutIndex
  <2> QED BY <1>1, <1>2, <2>1, <2>2, <2>3
<1> DEFINE k == CutIndex(b)
           q == k \div Across
<1>7. k \in Nat /\ (k < PerPlane <=> ~Below(b))
  BY <1>5, <1>6
<1>8. Place(b).top = q * Builder1.blockHeight
  BY DEF Place, CutIndex
<1> HIDE DEF k
<1>9. q \in Nat /\ q * Across <= k /\ k < q * Across + Across
  BY <1>1, <1>7, Quotient
<1> HIDE DEF q
<1>10. k < PerPlane <=> q < Down
  <2>1. q * Across \in Nat /\ PerPlane = Down * Across
    BY <1>1, <1>9 DEF PerPlane
  <2>2. CASE q < Down
    <3>1. q * Across + Across <= Down * Across
      BY <1>1, <1>9, <2>2, Multiples
    <3> QED BY <1>1, <1>7, <1>9, <2>1, <2>2, <3>1
  <2>3. CASE ~(q < Down)
    <3>1. Down * Across <= q * Across
      <4>1. CASE Down = q
        BY <1>1, <2>1, <4>1
      <4>2. CASE Down < q
        <5>1. Down * Across + Across <= q * Across
          BY <1>1, <1>9, <4>2, Multiples
        <5> QED BY <1>1, <2>1, <5>1
      <4> QED BY <1>1, <1>9, <2>3, <4>1, <4>2
    <3> QED BY <1>1, <1>7, <1>9, <2>1, <2>3, <3>1
  <2> QED BY <2>2, <2>3
<1>11. q < Down <=> q * Builder1.blockHeight < raster.height
  BY <1>9, RasterType, RoundedUpCounts DEF Down, DivCeil
<1>12. q * Builder1.blockHeight \in Nat
  BY <1>9, RasterType
<1> QED BY <1>5, <1>6, <1>7, <1>8, <1>10, <1>11, <1>12 DEF k, q

(***************************************************************************)
(* A plane and a tile make a block, and what the block is cut from is the  *)
(* tile: the streaming writer, the array writer and a reader agree on the  *)
(* numbering, but for the planes write_2d_to does not know of.             *)
(***************************************************************************)
Numbered(plane, t) == plane * PerPlane + TileIndex(t)

LEMMA NumberedBlocks ==
  ASSUME raster \in Rasters, NEW plane \in Planes, NEW t \in Tiles
  PROVE  LET b == Numbered(plane, t)
         IN /\ b \in Blocks /\ b = plane * PerPlane + t.row * Across + t.col + 1
            /\ (b - 1) \div PerPlane = plane
            /\ ((b - 1) % PerPlane) \div Across = t.row
            /\ ((b - 1) % PerPlane) % Across = t.col
            /\ Below(b) <=> MissesBands /\ plane > 0
            /\ ~Below(b) => Place(b) = [plane |-> plane, top |-> t.row * Builder1.blockHeight,
                                        left |-> t.col * raster.tileWidth]
<1> DEFINE k == t.row * Across + t.col
           b == Numbered(plane, t)
<1>1. /\ Across \in Nat \ {0} /\ Down \in Nat \ {0} /\ PerPlane \in Nat \ {0} /\ Bands \in Nat \ {0}
      /\ Blocks = 1..(Bands * PerPlane) /\ Bands * PerPlane \in Nat
  BY BlocksAre
<1>2. t.row \in 0..(Down - 1) /\ t.col \in 0..(Across - 1) /\ plane \in 0..(Bands - 1)
  BY DEF Tiles, Planes
<1>3. t.row \in Nat /\ t.col \in Nat /\ t.row < Down /\ t.col < Across /\ plane \in Nat /\ plane < Bands
  BY <1>1, <1>2
<1>4. t.row * Across \in Nat /\ plane * PerPlane \in Nat
  BY <1>1, <1>3
<1>5. k \in Nat /\ k < PerPlane
  <2>1. t.row * Across + Across <= Down * Across
    BY <1>1, <1>3, Multiples
  <2>2. Down * Across = PerPlane
    BY <1>1 DEF PerPlane
  <2> HIDE DEF Across, Down, PerPlane
  <2>3. ASSUME NEW x \in Nat, NEW a \in Nat, NEW c \in Nat, NEW p \in Nat, x + a <= p, c < a
        PROVE  x + c \in Nat /\ x + c < p
    BY ONLY <2>3
  <2>4. t.row * Across + Across <= PerPlane
    BY ONLY <2>1, <2>2
  <2>5. t.row * Across \in Nat /\ Across \in Nat /\ t.col \in Nat /\ PerPlane \in Nat /\ t.col < Across
    BY ONLY <1>1, <1>3, <1>4
  <2> QED BY ONLY <2>3, <2>4, <2>5, Zenon
<1>6. plane * PerPlane + PerPlane <= Bands * PerPlane
  BY <1>1, <1>3, Multiples
<1>7. b = plane * PerPlane + k + 1 /\ b = plane * PerPlane + t.row * Across + t.col + 1
  <2>1. b = plane * PerPlane + (t.row * Across + t.col + 1)
    BY ONLY DEF Numbered, TileIndex
  <2>2. ASSUME NEW x \in Nat, NEW y \in Nat, NEW c \in Nat
        PROVE  x + (y + c + 1) = x + (y + c) + 1 /\ x + (y + c + 1) = x + y + c + 1
    OBVIOUS
  <2>3. plane * PerPlane \in Nat /\ t.row * Across \in Nat /\ t.col \in Nat
    BY ONLY <1>3, <1>4
  <2> QED BY ONLY <2>1, <2>2, <2>3, Zenon
<1> HIDE DEF b
<1>8. b \in Blocks /\ b - 1 \in Nat /\ b - 1 = plane * PerPlane + k
  <2> HIDE DEF k
  <2>1. PerPlane \in Nat /\ plane * PerPlane \in Nat /\ Bands * PerPlane \in Nat
    BY <1>1, <1>4
  <2> QED BY <1>1, <1>4, <1>5, <1>6, <1>7, <2>1
<1>9. (b - 1) \div PerPlane = plane /\ (b - 1) % PerPlane = k
  <2> HIDE DEF k
  <2> QED BY <1>1, <1>3, <1>5, <1>8, RemainderIs
<1>10. k \div Across = t.row /\ k % Across = t.col
  BY <1>1, <1>3, <1>5, RemainderIs
<1>11. b > PerPlane <=> plane > 0
  <2> HIDE DEF k
  <2>1. plane > 0 => PerPlane <= plane * PerPlane
    <3>1. CASE plane > 0
      <4>1. 0 * PerPlane + PerPlane <= plane * PerPlane
        BY <1>1, <1>3, <3>1, Multiples
      <4> QED BY <1>1, <1>4, <4>1
    <3> QED BY <3>1
  <2>2. plane = 0 => plane * PerPlane = 0
    BY <1>1
  <2>3. ASSUME NEW x \in Nat, NEW c \in Nat, NEW p \in Nat, NEW n \in Nat, c < p,
               n > 0 => p <= x, n = 0 => x = 0
        PROVE  x + c + 1 > p <=> n > 0
    BY ONLY <2>3
  <2>4. plane * PerPlane + k + 1 > PerPlane <=> plane > 0
    <3>1. PerPlane \in Nat
      BY <1>1
    <3> QED BY ONLY <1>3, <1>4, <1>5, <2>1, <2>2, <2>3, <3>1
  <2> QED BY ONLY <1>7, <2>4
<1>12. Below(b) <=> MissesBands /\ plane > 0
  BY <1>11 DEF Below
<1>13. ASSUME ~Below(b)
       PROVE  Place(b) = [plane |-> plane, top |-> t.row * Builder1.blockHeight,
                          left |-> t.col * raster.tileWidth]
  <2>1. CASE raster.planar /\ ~By2d
    BY <1>9, <1>10, <2>1 DEF Place
  <2>2. CASE ~(raster.planar /\ ~By2d)
    <3>1. plane = 0
      <4>1. CASE ~raster.planar
        BY <1>3, <4>1 DEF Bands
      <4>2. CASE By2d /\ raster.planar
        <5>1. raster.bands > 1 => plane = 0
          BY <1>3, <1>12, <1>13, <4>2 DEF MissesBands
        <5>2. ~(raster.bands > 1) => Bands = 1
          BY <4>2, RasterType DEF Bands
        <5> QED BY <1>3, <5>1, <5>2
      <4> QED BY <2>2, <4>1, <4>2
    <3>2. b - 1 = k
      <4> HIDE DEF k
      <4> QED BY <1>1, <1>5, <1>8, <3>1
    <3> QED BY <1>10, <2>2, <3>1, <3>2 DEF Place
  <2> QED BY <2>1, <2>2
<1> QED BY <1>7, <1>8, <1>9, <1>10, <1>12, <1>13 DEF b

\* Two tiles of two planes make two blocks.
LEMMA NumberedOnce ==
  ASSUME raster \in Rasters, NEW p \in Planes, NEW t \in Tiles, NEW q \in Planes, NEW u \in Tiles,
         Numbered(p, t) = Numbered(q, u)
  PROVE  p = q /\ t = u
<1>1. p = q /\ t.row = u.row /\ t.col = u.col
  BY NumberedBlocks
<1>2. t = [row |-> t.row, col |-> t.col] /\ u = [row |-> u.row, col |-> u.col]
  BY DEF Tiles
<1> QED BY <1>1, <1>2

(***************************************************************************)
(* The writers hand the TiffWriter as many samples as it expects of a      *)
(* block, except for bands that are missing: then only planar tiles fit,   *)
(* and only strips below the raster are empty, or panic.                   *)
(***************************************************************************)
LEMMA SampleCountsFit ==
  ASSUME raster \in Rasters, NEW b \in Blocks
  PROVE  /\ raster.by = "tiles" => /\ TileSamples = CheckedBlockSampleCount(Builder1, b - 1)
                                   /\ TileSamples = Extracted(b)
         /\ ~MissesBands \/ (raster.planar /\ raster.tiled) =>
              Extracted(b) = CheckedBlockSampleCount(Builder1, b - 1)
         /\ Underflows(b) => MissesBands /\ raster.planar /\ ~raster.tiled
         /\ Extracted(b) = 0 => Below(b) /\ ~raster.tiled
<1> DEFINE per == IF raster.planar THEN 1 ELSE raster.bands
           cut == IF raster.planar \/ By2d THEN 1 ELSE raster.bands
<1>1. BlockSamplesPerPixel(Builder1) = per /\ per \in Nat \ {0} /\ cut \in Nat \ {0}
  BY RasterType DEF BlockSamplesPerPixel
<1>2. ~MissesBands \/ raster.planar => cut = per
  BY RasterType DEF MissesBands
<1>3. ASSUME NEW rows \in Nat \ {0}, NEW width \in Nat \ {0}
      PROVE  rows * width * cut # 0
  <2> HIDE DEF cut
  <2>1. rows * width \in Nat \ {0}
    BY <1>3
  <2> DEFINE area == rows * width
  <2> HIDE DEF area
  <2>2. area \in Nat \ {0}
    BY <2>1 DEF area
  <2>3. area * cut # 0
    BY <1>1, <2>2
  <2> QED BY <2>3 DEF area
<1>4. CASE raster.tiled
  <2>1. CheckedBlockSampleCount(Builder1, b - 1) = raster.tileHeight * raster.tileWidth * per
    BY <1>1, <1>4, RasterType DEF CheckedBlockSampleCount, CheckedBlockHeight, BlockRowWidth
  <2>2. Extracted(b) = raster.tileWidth * raster.tileHeight * cut
    BY <1>4, RasterType DEF Extracted
  <2>3. TileSamples = raster.tileWidth * raster.tileHeight * per
    BY DEF TileSamples
  <2>4. raster.tileHeight * raster.tileWidth = raster.tileWidth * raster.tileHeight
    BY RasterType
  <2>5. Extracted(b) # 0
    BY <1>3, <2>2, RasterType
  <2>6. raster.by = "tiles" => ~MissesBands
    BY DEF MissesBands, By2d
  <2> HIDE DEF per, cut
  <2> QED BY <1>2, <1>4, <2>1, <2>2, <2>3, <2>4, <2>5, <2>6 DEF Underflows
<1>5. CASE ~raster.tiled
  <2> DEFINE top  == Place(b).top
             rows == IF raster.height - top < Builder1.blockHeight THEN raster.height - top
                     ELSE Builder1.blockHeight
  <2>1. Builder1.layout = "strips" /\ Across = 1 /\ raster.by # "tiles"
    BY <1>5, RasterType DEF Across
  <2>2. /\ CutIndex(b) \in Nat /\ top = (CutIndex(b) \div Across) * Builder1.blockHeight
        /\ top \in Nat /\ (top < raster.height <=> ~Below(b))
        /\ ~Below(b) => CutIndex(b) = PlaneIndex(Builder1, b - 1)
        /\ Below(b) => raster.planar
    BY PlacedBelow
  <2>3. CutIndex(b) \div Across = CutIndex(b)
    <3>1. CutIndex(b) * 1 <= CutIndex(b) /\ CutIndex(b) < CutIndex(b) * 1 + 1
      BY <2>2
    <3> QED BY <2>1, <2>2, <3>1, QuotientIs
  <2>4. ~Below(b) => CheckedBlockSampleCount(Builder1, b - 1) = rows * raster.width * per
    BY <1>1, <2>1, <2>2, <2>3, RasterType
       DEF CheckedBlockSampleCount, CheckedBlockHeight, BlockRowWidth
  <2>5. Extracted(b) = (StripEnd(top) - top) * raster.width * cut
    BY <1>5 DEF Extracted
  <2>6. Underflows(b) <=> StripEnd(top) < top
    BY <1>5 DEF Underflows
  <2> HIDE DEF top
  <2>7. /\ ~Below(b) => StripEnd(top) - top = rows /\ ~(StripEnd(top) < top) /\ rows \in Nat \ {0}
    BY <2>2, RasterType DEF StripEnd
  <2>8. ~Below(b) => Extracted(b) # 0
    <3> HIDE DEF rows, cut
    <3> QED BY <1>3, <2>5, <2>7, RasterType
  <2>9. ~MissesBands => ~Below(b)
    BY DEF Below
  <2>10. Below(b) => MissesBands
    BY DEF Below
  <2> HIDE DEF rows, per, cut
  <2> QED BY <1>2, <1>5, <2>1, <2>2, <2>4, <2>5, <2>6, <2>7, <2>8, <2>9, <2>10
<1> QED BY <1>4, <1>5, RasterType

----------------------------------------------------------------------------
(***************************************************************************)
(* The raster writers.  Their invariant relates what they hold of a raster *)
(* to the one image below: a block was stored exactly if it has a record,  *)
(* the flags of the tile writer and, once finish() fills in, what it       *)
(* filled say the same, and the bands of a tile are stored in order.       *)
(***************************************************************************)
\* What may have been stored in block b: the fill value, or what lies at its place, if that
\* is not below the raster.
Storable(b) == {Fill} \cup IF Below(b) THEN {} ELSE {Cut(Place(b), "zero"), Cut(Place(b), "data")}

\* The image below is the raster's, and its records say what was stored.
Agrees ==
  /\ Len(images) = 1 /\ images[1].builder = Builder1
  /\ DOMAIN images[1].records = Blocks /\ CheckedBlockCount(Builder1) <= MaxBlocks
  /\ \A b \in Blocks :
       /\ contents[b] = Nothing <=> images[1].records[b] = NoRecord
       /\ images[1].records[b].count = 0 => StoredSparse(Extracted(b), contents[b])

FlagsTrack ==
  /\ \A b \in Blocks : written[b] <=> contents[b] # Nothing
  /\ \A t \in Tiles : \A band \in 1..Bands : \A lower \in 1..band :
       written[BlockOf(t, band)] => written[BlockOf(t, lower)]

\* A tile under way: the bands before its band are stored, the others are not.
CallInv ==
  /\ call \in [tile : Tiles, band : 1..Bands, froms : [1..Bands -> {"zero", "data"}]]
  /\ \A band \in call.band..Bands : ~written[BlockOf(call.tile, band)]
  /\ \A band \in 1..(call.band - 1) : written[BlockOf(call.tile, band)]

Stages == {"new", "open", "tile", "array", "fill", "finish", "failed", "panicked"}

RasterTypeOK ==
  /\ raster \in Rasters /\ stage \in Stages /\ refused \in BOOLEAN
  /\ written \in [Blocks -> BOOLEAN] /\ DOMAIN contents = Blocks
  /\ \A b \in Blocks : contents[b] \in Storable(b) \cup {Nothing}

StageInv ==
  /\ stage = "new" => images = <<>> /\ \A b \in Blocks : ~written[b] /\ contents[b] = Nothing
  /\ stage # "finish" => phase = "open"
  /\ stage \notin {"new", "failed", "panicked"} => Agrees
  /\ refused => stage = "failed"
  /\ stage \in {"open", "tile", "fill"} => raster.by = "tiles"
  /\ stage \in {"open", "tile"} => FlagsTrack
  /\ stage = "tile" => CallInv
  /\ stage = "fill" => \A b \in Blocks : Filled(b) <=> contents[b] # Nothing
  /\ stage = "finish" => \A b \in Blocks : contents[b] # Nothing

RasterInv == RasterTypeOK /\ RefusedForBandsOnly /\ StageInv

\* What is cut from a raster stays what it is while the raster does.
LEMMA RasterKept ==
  ASSUME UNCHANGED raster
  PROVE  /\ Builder1' = Builder1 /\ Blocks' = Blocks /\ Tiles' = Tiles /\ Bands' = Bands
         /\ \A b : Storable(b)' = Storable(b)
         /\ \A t, band : BlockOf(t, band)' = BlockOf(t, band)
         /\ \A b : Extracted(b)' = Extracted(b)
         /\ \A samples, content :
              StoredSparse(samples, content)' <=> StoredSparse(samples, content)
BY DEF Builder1, Blocks, Tiles, Bands, Storable, BlockOf, StoredSparse, Across, Down, PerPlane,
       TileIndex, Place, Cut, Fill, Extracted, StripEnd, By2d, Below, MissesBands

\* Nothing is nothing that is stored.
LEMMA StoredIsSomething ==
  /\ Fill # Nothing
  /\ \A place, from : from \in {"zero", "data"} => Cut(place, from) # Nothing /\ Cut(place, from) # Fill
<1>1. Nothing.from = "nothing" /\ Fill.from = "fill"
  BY DEF Nothing, Fill
<1>2. \A place, from : Cut(place, from).from = from
  BY DEF Cut
<1> QED BY <1>1, <1>2

\* The raster invariant depends on nothing but these variables.
LEMMA RasterStutters ==
  ASSUME RasterInv, UNCHANGED <<rasterVars, images, phase, error>>
  PROVE  RasterInv'
<1>1. UNCHANGED <<raster, stage, call, written, contents, refused, images, phase, error>>
  BY DEF rasterVars
<1>2. /\ Builder1' = Builder1 /\ Blocks' = Blocks /\ Tiles' = Tiles /\ Bands' = Bands
      /\ \A b : Storable(b)' = Storable(b)
      /\ \A t, band : BlockOf(t, band)' = BlockOf(t, band)
      /\ \A b : Extracted(b)' = Extracted(b)
      /\ \A samples, content : StoredSparse(samples, content)' <=> StoredSparse(samples, content)
  BY <1>1, RasterKept
<1>3. RasterTypeOK' /\ RefusedForBandsOnly'
  BY <1>1, <1>2 DEF RasterInv, RasterTypeOK, RefusedForBandsOnly, MissesBands, By2d
<1>4. Agrees => Agrees'
  BY <1>1, <1>2 DEF Agrees
<1>5. FlagsTrack => FlagsTrack'
  BY <1>1, <1>2 DEF FlagsTrack
<1>6. CallInv => CallInv'
  BY <1>1, <1>2 DEF CallInv
<1>7. \A b : Filled(b)' <=> Filled(b)
  BY <1>1 DEF Filled
<1>8. StageInv'
  BY <1>1, <1>2, <1>4, <1>5, <1>6, <1>7 DEF RasterInv, StageInv
<1> QED BY <1>3, <1>8 DEF RasterInv

\* A block of the raster that was not stored can be written.
LEMMA BlockWritable ==
  ASSUME TypeOK, RasterTypeOK, Agrees, NEW b \in Blocks, contents[b] = Nothing
  PROVE  /\ Writable(Handle, b) /\ Handle \in Handles /\ b \in 1..(MaxBlocks + 1)
         /\ Handle.index = 1 /\ images[1].builder = Builder1
<1>1. Handle.owner = Self /\ Handle.index = 1
  BY DEF Handle
<1>2. 1 \in DOMAIN images
  BY DEF TypeOK, Agrees
<1>3. images[1].records[b] = NoRecord /\ b \in DOMAIN images[1].records
  BY DEF Agrees
<1>4. Handle \in Handles
  BY RastersAssumption, BoundsAssumption DEF Handle, Handles
<1>5. b \in 1..(MaxBlocks + 1)
  <2>1. Blocks = 1..CheckedBlockCount(Builder1) /\ CheckedBlockCount(Builder1) <= MaxBlocks
    BY DEF Blocks, Agrees
  <2>2. CheckedBlockCount(Builder1) \in Nat /\ MaxBlocks \in Nat
    BY BlocksAre, BoundsAssumption DEF RasterTypeOK
  <2> QED BY <2>1, <2>2
<1> QED BY <1>1, <1>2, <1>3, <1>4, <1>5 DEF Writable, ImageIndex, Agrees

(***************************************************************************)
(* Storing a block that was not: a step of the TiffWriter, which leaves    *)
(* its records and what was stored in agreement.                           *)
(***************************************************************************)
LEMMA StoresBlock ==
  ASSUME TypeOK, RasterTypeOK, Agrees, NEW b \in Blocks, contents[b] = Nothing, NEW samples,
         samples = Extracted(b), NEW content \in Storable(b), StoreBlock(b, samples, content)
  PROVE  /\ Next /\ UNCHANGED <<phase, error, raster, refused>> /\ phase = "open"
         /\ Agrees' /\ contents' = [contents EXCEPT ![b] = content]
         /\ contents'[b] = content /\ content # Nothing
         /\ \A c \in Blocks : c # b => contents'[c] = contents[c]
         /\ DOMAIN contents' = Blocks'
         /\ \A c \in Blocks' : contents'[c] \in Storable(c)' \cup {Nothing}
<1>1. /\ Writable(Handle, b) /\ Handle \in Handles /\ b \in 1..(MaxBlocks + 1)
      /\ Handle.index = 1 /\ images[1].builder = Builder1
  BY BlockWritable
<1>2. /\ contents' = [contents EXCEPT ![b] = content] /\ UNCHANGED <<raster, refused>>
      /\ IF StoredSparse(samples, content) THEN WriteBlockSparse(Handle, b)
         ELSE \E n \in PayloadLens : WriteBlock(Handle, b, samples, n)
  BY DEF StoreBlock
<1>3. /\ Builder1' = Builder1 /\ Blocks' = Blocks /\ \A c : Storable(c)' = Storable(c)
      /\ \A c : Extracted(c)' = Extracted(c)
      /\ \A n, c : StoredSparse(n, c)' <=> StoredSparse(n, c)
  BY <1>2, RasterKept
<1>4. content # Nothing
  BY StoredIsSomething DEF Storable
<1>5. /\ contents'[b] = content /\ DOMAIN contents' = Blocks
      /\ \A c \in Blocks : c # b => contents'[c] = contents[c]
  BY <1>2 DEF RasterTypeOK
<1>6. \A c \in Blocks' : contents'[c] \in Storable(c)' \cup {Nothing}
  BY <1>3, <1>5 DEF RasterTypeOK
<1>7. /\ Next /\ UNCHANGED <<phase, error>> /\ phase = "open"
      /\ \E r \in Records : /\ SetRecord(Handle, b, r) /\ r # NoRecord
                            /\ r.count = 0 => StoredSparse(samples, content)
  <2>1. CASE StoredSparse(samples, content)
    <3>1. WriteBlockSparse(Handle, b)
      BY <1>2, <2>1
    <3>2. Next
      BY <1>1, <3>1 DEF Next
    <3>3. SparseRecord \in Records /\ SparseRecord # NoRecord
      BY DEF SparseRecord, Records, NoRecord
    <3> QED BY <2>1, <3>1, <3>2, <3>3 DEF WriteBlockSparse, finishing
  <2>2. CASE ~StoredSparse(samples, content)
    <3>1. PICK n \in PayloadLens : WriteBlock(Handle, b, samples, n)
      BY <1>2, <2>2
    <3>2. WriteBlockRaw(Handle, b, n)
      BY <3>1 DEF WriteBlock
    <3>3. Next
      BY <1>1, <3>2 DEF Next
    <3>4. n \in Nat /\ n # 0 /\ len \in Nat
      BY LensAssumption, RastersAssumption DEF TypeOK
    <3>5. Record(len, n) \in Records /\ Record(len, n) # NoRecord /\ Record(len, n).count # 0
      BY <3>4 DEF Record, Records, NoRecord
    <3> QED BY <3>2, <3>3, <3>5 DEF WriteBlockRaw, finishing
  <2> QED BY <2>1, <2>2
<1>8. PICK r \in Records : /\ SetRecord(Handle, b, r) /\ r # NoRecord
                           /\ r.count = 0 => StoredSparse(samples, content)
  BY <1>7
<1>9. /\ images' \in Seq(IfdState) /\ Len(images') = Len(images)
      /\ \A i \in DOMAIN images' :
           /\ images'[i].builder = images[i].builder
           /\ DOMAIN images'[i].records = DOMAIN images[i].records
           /\ \A k \in DOMAIN images[i].records :
                images'[i].records[k] =
                  IF i = Handle.index /\ k = b THEN r ELSE images[i].records[k]
  BY <1>1, <1>8, SetRecordType
<1>10. Agrees'
  <2>1. 1 \in DOMAIN images'
    BY <1>9 DEF Agrees
  <2>2. /\ Len(images') = 1 /\ images'[1].builder = Builder1'
        /\ DOMAIN images'[1].records = Blocks' /\ CheckedBlockCount(Builder1') <= MaxBlocks
    BY <1>3, <1>9, <2>1 DEF Agrees
  <2>3. ASSUME NEW c \in Blocks
        PROVE  /\ contents'[c] = Nothing <=> images'[1].records[c] = NoRecord
               /\ images'[1].records[c].count = 0 => StoredSparse(Extracted(c), contents'[c])
    <3>1. images'[1].records[c] = IF c = b THEN r ELSE images[1].records[c]
      BY <1>1, <1>9, <2>1 DEF Agrees
    <3>2. CASE c = b
      BY <1>4, <1>5, <1>8, <3>1, <3>2
    <3>3. CASE c # b
      BY <1>5, <3>1, <3>3 DEF Agrees
    <3> QED BY <3>2, <3>3
  <2> QED BY <1>3, <2>2, <2>3 DEF Agrees
<1> QED BY <1>2, <1>3, <1>4, <1>5, <1>6, <1>7, <1>10

(***************************************************************************)
(* A block that could not be stored: the TiffWriter refused it for its     *)
(* length only, and nothing was recorded.                                  *)
(***************************************************************************)
LEMMA StoreFailing ==
  ASSUME TypeOK, RasterTypeOK, Agrees, ~refused, NEW b \in Blocks, contents[b] = Nothing,
         NEW samples, NEW content, StoreFails(b, samples, content)
  PROVE  /\ [Next]_vars /\ UNCHANGED <<images, phase, error, raster, contents>>
         /\ refused' \in BOOLEAN
         /\ refused' => samples # CheckedBlockSampleCount(Builder1, b - 1)
<1>1. Writable(Handle, b) /\ Handle \in Handles /\ b \in 1..(MaxBlocks + 1)
  BY BlockWritable
<1>2. Refuses(b, samples, content) => samples # CheckedBlockSampleCount(Builder1, b - 1)
  BY <1>1 DEF Refuses
<1>3. /\ refused' = (refused \/ Refuses(b, samples, content)) /\ UNCHANGED <<raster, contents>>
      /\ \/ UNCHANGED vars
         \/ \E n \in PayloadLens : \E k \in 0..(n - 1) : WriteBlockFails(Handle, b, n, k)
  BY <1>2 DEF StoreFails
<1>4. UNCHANGED vars => [Next]_vars /\ UNCHANGED <<images, phase, error>>
  BY DEF vars
<1>5. ASSUME NEW n \in PayloadLens, NEW k \in 0..(n - 1), WriteBlockFails(Handle, b, n, k)
      PROVE  Next /\ UNCHANGED <<images, phase, error>>
  <2>1. Next
    BY <1>1, <1>5 DEF Next
  <2> QED BY <1>5, <2>1 DEF WriteBlockFails, finishing
<1>6. [Next]_vars /\ UNCHANGED <<images, phase, error>>
  BY <1>3, <1>4, <1>5
<1>7. Refuses(b, samples, content) \in BOOLEAN
  BY DEF Refuses
<1>8. refused' \in BOOLEAN /\ (refused' => samples # CheckedBlockSampleCount(Builder1, b - 1))
  BY <1>2, <1>3, <1>7
<1> QED BY <1>3, <1>6, <1>8

\* Agreement depends on the images and on what was stored.
LEMMA AgreesKept ==
  ASSUME Agrees, UNCHANGED <<raster, images, contents>>
  PROVE  Agrees'
<1>1. /\ Builder1' = Builder1 /\ Blocks' = Blocks
      /\ \A b : Extracted(b)' = Extracted(b)
      /\ \A samples, content : StoredSparse(samples, content)' <=> StoredSparse(samples, content)
  BY RasterKept
<1> QED BY <1>1 DEF Agrees

\* The types of what no step but a store changes.
LEMMA TypeKept ==
  ASSUME RasterTypeOK, UNCHANGED <<raster, contents>>, written' \in [Blocks -> BOOLEAN],
         stage' \in Stages, refused' \in BOOLEAN
  PROVE  RasterTypeOK'
<1>1. Blocks' = Blocks /\ \A b : Storable(b)' = Storable(b)
  BY RasterKept
<1> QED BY <1>1 DEF RasterTypeOK

\* A band of a tile is a block, cut from the place of the tile.
LEMMA BandBlock ==
  ASSUME raster \in Rasters, NEW t \in Tiles, NEW band \in 1..Bands
  PROVE  /\ BlockOf(t, band) = Numbered(band - 1, t) /\ band - 1 \in Planes
         /\ BlockOf(t, band) \in Blocks
         /\ raster.by = "tiles" => /\ PlaceOf(t, band) = Place(BlockOf(t, band))
                                   /\ ~Below(BlockOf(t, band))
<1>1. Bands \in Nat /\ band - 1 \in Planes
  BY BlocksAre DEF Planes
<1>2. BlockOf(t, band) = Numbered(band - 1, t)
  BY DEF BlockOf, Numbered
<1>3. /\ BlockOf(t, band) \in Blocks
      /\ ~Below(BlockOf(t, band)) =>
           Place(BlockOf(t, band)) = [plane |-> band - 1, top |-> t.row * Builder1.blockHeight,
                                      left |-> t.col * raster.tileWidth]
  BY <1>1, <1>2, NumberedBlocks
<1>4. raster.by = "tiles" => ~Below(BlockOf(t, band)) /\ Builder1.blockHeight = raster.tileHeight
  BY RasterType DEF Below, MissesBands, By2d
<1> QED BY <1>1, <1>2, <1>3, <1>4 DEF PlaceOf

\* Two bands of two tiles are two blocks.
LEMMA BandsApart ==
  ASSUME raster \in Rasters, NEW t \in Tiles, NEW band \in 1..Bands,
         NEW u \in Tiles, NEW other \in 1..Bands, BlockOf(t, band) = BlockOf(u, other)
  PROVE  t = u /\ band = other
<1>1. /\ Numbered(band - 1, t) = Numbered(other - 1, u)
      /\ band - 1 \in Planes /\ other - 1 \in Planes
  BY BandBlock
<1>2. t = u /\ band - 1 = other - 1
  BY <1>1, NumberedOnce
<1>3. band \in Int /\ other \in Int
  OBVIOUS
<1> QED BY <1>2, <1>3

\* The builder's first call: the image is added, or refused before anything is.
LEMMA RasterCreate ==
  ASSUME TypeOK, RasterInv, Create
  PROVE  RasterInv' /\ [Next]_vars
<1>1. /\ RasterTypeOK /\ RefusedForBandsOnly /\ StageInv /\ stage = "new" /\ phase = "open"
      /\ images = <<>> /\ \A b \in Blocks : ~written[b] /\ contents[b] = Nothing
      /\ UNCHANGED <<raster, call, written, contents, refused>> /\ ~refused
  BY DEF RasterInv, StageInv, Create
<1>2. CASE Validate(Builder1)
  <2>1. AddImage(Builder1) /\ (stage' = "array" \/ (raster.by = "tiles" /\ stage' = "open"))
    BY <1>2 DEF Create
  <2>2. Builder1 \in Builders
    BY RasterType, <1>1 DEF RasterTypeOK
  <2>3. Next
    BY <2>1, <2>2 DEF Next
  <2>4. UNCHANGED <<phase, error>>
    BY <2>1 DEF AddImage, finishing
  <2>5. RasterTypeOK' /\ RefusedForBandsOnly'
    BY <1>1, <2>1, <2>4, TypeKept DEF RasterTypeOK, RefusedForBandsOnly, Stages
  <2>6. /\ Builder1' = Builder1 /\ Blocks' = Blocks /\ Tiles' = Tiles /\ Bands' = Bands
        /\ \A t, band : BlockOf(t, band)' = BlockOf(t, band)
    BY <1>1, RasterKept
  <2>7. CheckedBlockCount(Builder1) \in Nat
    BY <1>1, BlocksAre DEF RasterTypeOK
  <2>8. CheckedBlockCount(Builder1) <= MaxBlocks
    <3>1. BlockIds = {}
      BY <1>1 DEF BlockIds
    <3>2. Cardinality(BlockIds) = 0
      BY <3>1, FS_EmptySet
    <3>3. Cardinality(BlockIds) + CheckedBlockCount(Builder1) <= MaxBlocks
      BY <2>1 DEF AddImage
    <3> QED BY <2>7, <3>2, <3>3
  <2>9. images' = <<[builder |-> Builder1,
                     records |-> [k \in 1..CheckedBlockCount(Builder1) |-> NoRecord]]>>
    BY <1>1, <2>1 DEF AddImage
  <2>10. Agrees'
    <3>1. /\ Len(images') = 1 /\ images'[1].builder = Builder1
          /\ DOMAIN images'[1].records = Blocks
          /\ \A b \in Blocks : images'[1].records[b] = NoRecord
      BY <2>9 DEF Blocks
    <3>2. NoRecord.count # 0
      BY DEF NoRecord
    <3> QED BY <1>1, <2>6, <2>8, <3>1, <3>2 DEF Agrees
  <2>11. FlagsTrack'
    <3>1. \A b \in Blocks : written'[b] <=> contents'[b] # Nothing
      BY <1>1
    <3>2. \A t \in Tiles : \A band \in 1..Bands : ~written'[BlockOf(t, band)]
      BY <1>1, BandBlock DEF RasterTypeOK
    <3> QED BY <2>6, <3>1, <3>2 DEF FlagsTrack
  <2>12. StageInv'
    BY <1>1, <2>1, <2>4, <2>10, <2>11 DEF StageInv
  <2> QED BY <2>3, <2>5, <2>12 DEF RasterInv
<1>3. CASE ~Validate(Builder1)
  <2>1. UNCHANGED vars /\ stage' = "failed"
    BY <1>3 DEF Create
  <2>2. UNCHANGED <<phase, error, images>>
    BY <2>1 DEF vars
  <2>3. RasterTypeOK' /\ RefusedForBandsOnly'
    BY <1>1, <2>1, <2>2, TypeKept DEF RasterTypeOK, RefusedForBandsOnly, Stages
  <2>4. StageInv'
    BY <1>1, <2>1, <2>2 DEF StageInv
  <2> QED BY <2>1, <2>3, <2>4 DEF RasterInv
<1> QED BY <1>2, <1>3

\* The array writer stores the next block, or gives up.
LEMMA RasterWriteArray ==
  ASSUME TypeOK, RasterInv, NEW b \in Blocks, WriteArray(b)
  PROVE  RasterInv' /\ [Next]_vars
<1>1. /\ RasterTypeOK /\ RefusedForBandsOnly /\ StageInv /\ stage = "array" /\ phase = "open" /\ Agrees
      /\ contents[b] = Nothing /\ UNCHANGED <<call, written>> /\ ~refused
  BY DEF RasterInv, StageInv, WriteArray, NextBlock, RefusedForBandsOnly
<1>2. PICK content \in Given(b) :
        \/ StoreBlock(b, Extracted(b), content) /\ UNCHANGED stage
        \/ StoreFails(b, Extracted(b), content) /\ stage' = "failed"
  BY DEF WriteArray
<1>3. content \in Storable(b)
  BY <1>1, PlacedBelow DEF Given, Samples, Storable, RasterTypeOK
<1>4. Extracted(b) = CheckedBlockSampleCount(Builder1, b - 1) \/
        (MissesBands /\ ~(raster.planar /\ raster.tiled))
  BY <1>1, SampleCountsFit DEF RasterTypeOK
<1>5. CASE StoreBlock(b, Extracted(b), content) /\ UNCHANGED stage
  <2>1. /\ Next /\ UNCHANGED <<phase, error, raster, refused>>
        /\ Agrees' /\ DOMAIN contents' = Blocks'
        /\ \A c \in Blocks' : contents'[c] \in Storable(c)' \cup {Nothing}
    BY <1>1, <1>3, <1>5, StoresBlock
  <2>2. Blocks' = Blocks
    BY <2>1, RasterKept
  <2>3. RasterTypeOK' /\ RefusedForBandsOnly'
    BY <1>1, <1>5, <2>1, <2>2 DEF RasterTypeOK, RefusedForBandsOnly
  <2>4. StageInv'
    BY <1>1, <1>5, <2>1 DEF StageInv
  <2> QED BY <2>1, <2>3, <2>4 DEF RasterInv
<1>6. CASE StoreFails(b, Extracted(b), content) /\ stage' = "failed"
  <2>1. /\ [Next]_vars /\ UNCHANGED <<images, phase, error, raster, contents>>
        /\ refused' \in BOOLEAN
        /\ refused' => Extracted(b) # CheckedBlockSampleCount(Builder1, b - 1)
    BY <1>1, <1>6, StoreFailing
  <2>2. RefusedForBandsOnly'
    BY <1>1, <1>4, <1>6, <2>1 DEF RefusedForBandsOnly, MissesBands, By2d
  <2>3. RasterTypeOK'
    BY <1>1, <1>6, <2>1, TypeKept DEF RasterTypeOK, Stages
  <2>4. StageInv'
    BY <1>1, <1>6, <2>1 DEF StageInv
  <2> QED BY <2>1, <2>2, <2>3, <2>4 DEF RasterInv
<1> QED BY <1>2, <1>5, <1>6

\* The array writer panics: it was to write a strip below the raster.
LEMMA RasterPanic ==
  ASSUME TypeOK, RasterInv, NEW b \in Blocks, Panic(b)
  PROVE  RasterInv' /\ [Next]_vars
<1>1. /\ RasterTypeOK /\ RefusedForBandsOnly /\ StageInv /\ stage = "array" /\ phase = "open"
      /\ ~refused /\ Underflows(b) /\ stage' = "panicked"
      /\ UNCHANGED <<vars, raster, call, written, contents, refused>>
  BY DEF RasterInv, StageInv, Panic
<1>2. UNCHANGED <<images, phase, error>>
  BY <1>1 DEF vars
<1>3. MissesBands /\ raster.planar /\ ~raster.tiled
  BY <1>1, SampleCountsFit DEF RasterTypeOK
<1>4. RefusedForBandsOnly'
  BY <1>1, <1>2, <1>3 DEF RefusedForBandsOnly, MissesBands, By2d
<1>5. RasterTypeOK'
  BY <1>1, TypeKept DEF RasterTypeOK, Stages
<1>6. StageInv'
  BY <1>1, <1>2 DEF StageInv
<1> QED BY <1>1, <1>4, <1>5, <1>6 DEF RasterInv

\* write_tile_3d starts: none of the bands of the tile is stored.
LEMMA RasterBeginTile ==
  ASSUME TypeOK, RasterInv, NEW t \in Tiles, BeginTile(t)
  PROVE  RasterInv' /\ [Next]_vars
<1>1. /\ RasterTypeOK /\ RefusedForBandsOnly /\ StageInv /\ stage = "open" /\ phase = "open"
      /\ Agrees /\ FlagsTrack /\ raster.by = "tiles" /\ ~refused /\ ~written[TileIndex(t)]
      /\ stage' = "tile" /\ UNCHANGED <<vars, raster, written, contents, refused>>
  BY DEF RasterInv, StageInv, BeginTile
<1>2. UNCHANGED <<images, phase, error>>
  BY <1>1 DEF vars
<1>3. PICK froms \in [1..Bands -> {"zero", "data"}] :
        call' = [tile |-> t, band |-> 1, froms |-> froms]
  BY DEF BeginTile
<1>4. RasterTypeOK' /\ RefusedForBandsOnly' /\ Agrees'
  BY <1>1, <1>2, TypeKept, AgreesKept DEF RasterTypeOK, RefusedForBandsOnly, Stages
<1>5. /\ Blocks' = Blocks /\ Tiles' = Tiles /\ Bands' = Bands
      /\ \A u, band : BlockOf(u, band)' = BlockOf(u, band)
  BY <1>1, RasterKept
<1>6. FlagsTrack'
  BY <1>1, <1>5 DEF FlagsTrack
<1>7. Bands \in Nat \ {0} /\ PerPlane \in Nat
  BY <1>1, BlocksAre DEF RasterTypeOK
<1>8. ~written[BlockOf(t, 1)]
  <2>1. TileIndex(t) \in Int
    <3>1. BlockOf(t, 1) = Numbered(0, t) /\ BlockOf(t, 1) \in Nat /\ 0 \in Planes
      BY <1>1, <1>7, BandBlock, BlocksAre DEF RasterTypeOK
    <3>2. Numbered(0, t) = 0 * PerPlane + t.row * Across + t.col + 1
      BY <1>1, <3>1, NumberedBlocks DEF RasterTypeOK
    <3>3. Across \in Nat /\ Down \in Nat /\ t.row \in 0..(Down - 1) /\ t.col \in 0..(Across - 1)
      BY <1>1, BlocksAre DEF RasterTypeOK, Tiles
    <3> QED BY <3>3 DEF TileIndex
  <2>2. BlockOf(t, 1) = TileIndex(t)
    BY <1>7, <2>1 DEF BlockOf
  <2> QED BY <1>1, <2>2
<1>9. \A band \in 1..Bands : ~written[BlockOf(t, band)]
  <2> TAKE band \in 1..Bands
  <2>1. 1 \in 1..band
    OBVIOUS
  <2> QED BY <1>1, <1>8, <2>1 DEF FlagsTrack
<1>10. CallInv'
  <2>1. call'.tile = t /\ call'.band = 1 /\ 1 \in 1..Bands
    BY <1>3, <1>7
  <2>2. call' \in [tile : Tiles', band : 1..Bands', froms : [1..Bands' -> {"zero", "data"}]]
    BY <1>3, <1>5, <2>1
  <2>3. \A band \in 1..Bands' : ~written'[BlockOf(t, band)']
    BY <1>1, <1>5, <1>9
  <2> QED BY <1>5, <2>1, <2>2, <2>3 DEF CallInv
<1>11. StageInv'
  BY <1>1, <1>2, <1>4, <1>6, <1>10 DEF StageInv
<1> QED BY <1>1, <1>4, <1>11 DEF RasterInv

(***************************************************************************)
(* write_tile_3d, one band: it is stored and its flag set, or neither, and *)
(* the tile can be tried again only if it failed in its first band.        *)
(***************************************************************************)
LEMMA RasterWriteBand ==
  ASSUME TypeOK, RasterInv, WriteBand
  PROVE  RasterInv' /\ [Next]_vars
<1> DEFINE t == call.tile
           b == BlockOf(t, call.band)
           content == Cut(PlaceOf(t, call.band), call.froms[call.band])
<1>1. /\ RasterTypeOK /\ RefusedForBandsOnly /\ StageInv /\ stage = "tile" /\ phase = "open"
      /\ Agrees /\ FlagsTrack /\ CallInv /\ raster.by = "tiles" /\ raster \in Rasters
      /\ ~refused /\ Marked(b, TileSamples, content)
      /\ IF contents'[b] = contents[b] \/ call.band = Bands
         THEN stage' = "open" /\ call' = Nothing
         ELSE call' = [call EXCEPT !.band = @ + 1] /\ UNCHANGED stage
  BY DEF RasterInv, RasterTypeOK, StageInv, WriteBand, RefusedForBandsOnly
<1>2. t \in Tiles /\ call.band \in 1..Bands /\ Bands \in Nat \ {0}
  BY <1>1, BlocksAre DEF CallInv
<1>3. b \in Blocks /\ ~written[b] /\ contents[b] = Nothing
  <2>1. call.band \in call.band..Bands
    BY <1>2
  <2> QED BY <1>1, <1>2, <2>1, BandBlock DEF CallInv, FlagsTrack
<1>4. content \in Storable(b)
  <2>1. call.froms[call.band] \in {"zero", "data"}
    BY <1>1, <1>2 DEF CallInv
  <2>2. PlaceOf(t, call.band) = Place(b) /\ ~Below(b)
    BY <1>1, <1>2, BandBlock
  <2> QED BY <2>1, <2>2 DEF Storable
<1>5. TileSamples = CheckedBlockSampleCount(Builder1, b - 1) /\ TileSamples = Extracted(b)
  BY <1>1, <1>3, SampleCountsFit
<1> HIDE DEF b, content
<1>6. CASE StoreBlock(b, TileSamples, content) /\ written' = [written EXCEPT ![b] = TRUE]
  <2>1. /\ Next /\ UNCHANGED <<phase, error, raster, refused>>
        /\ Agrees' /\ DOMAIN contents' = Blocks'
        /\ contents'[b] = content /\ content # Nothing
        /\ \A c \in Blocks : c # b => contents'[c] = contents[c]
        /\ \A c \in Blocks' : contents'[c] \in Storable(c)' \cup {Nothing}
    BY <1>1, <1>3, <1>4, <1>5, <1>6, StoresBlock
  <2>2. /\ Blocks' = Blocks /\ Tiles' = Tiles /\ Bands' = Bands
        /\ \A u, band : BlockOf(u, band)' = BlockOf(u, band)
    BY <2>1, RasterKept
  <2>3. written' \in [Blocks -> BOOLEAN] /\ \A c \in Blocks : written'[c] = (c = b \/ written[c])
    BY <1>1, <1>3, <1>6 DEF RasterTypeOK
  <2>4. stage' \in {"open", "tile"}
    BY <1>1
  <2>5. RasterTypeOK' /\ RefusedForBandsOnly'
    BY <1>1, <2>1, <2>2, <2>3, <2>4 DEF RasterTypeOK, RefusedForBandsOnly, Stages
  <2>6. ASSUME NEW u \in Tiles, NEW band \in 1..Bands
        PROVE  /\ BlockOf(u, band) \in Blocks
               /\ BlockOf(u, band) = b => u = t /\ band = call.band
    BY <1>1, <1>2, BandBlock, BandsApart DEF b
  <2>7. FlagsTrack'
    <3>1. \A c \in Blocks : written'[c] <=> contents'[c] # Nothing
      BY <1>1, <2>1, <2>3 DEF FlagsTrack
    <3>2. ASSUME NEW u \in Tiles, NEW band \in 1..Bands, NEW lower \in 1..band,
                 written'[BlockOf(u, band)]
          PROVE  written'[BlockOf(u, lower)]
      <4>1. lower \in 1..Bands /\ BlockOf(u, lower) \in Blocks /\ BlockOf(u, band) \in Blocks
        BY <1>2, <2>6
      <4>2. CASE BlockOf(u, band) = b
        <5>1. u = t /\ band = call.band
          BY <2>6, <4>2
        <5>2. CASE lower = band
          BY <3>2, <5>2
        <5>3. CASE lower # band
          <6>1. lower \in 1..(call.band - 1)
            BY <1>2, <5>1, <5>3
          <6> QED BY <1>1, <2>3, <4>1, <5>1, <6>1 DEF CallInv
        <5> QED BY <5>2, <5>3
      <4>3. CASE BlockOf(u, band) # b
        BY <1>1, <2>3, <3>2, <4>1, <4>3 DEF FlagsTrack
      <4> QED BY <4>2, <4>3
    <3> QED BY <2>2, <3>1, <3>2 DEF FlagsTrack
  <2>8. stage' = "tile" => CallInv'
    <3> SUFFICES ASSUME stage' = "tile" PROVE CallInv'
      OBVIOUS
    <3>1. call.band # Bands /\ call' = [call EXCEPT !.band = @ + 1]
      BY <1>1
    <3>2. call'.tile = t /\ call'.froms = call.froms /\ call'.band = call.band + 1
      <4>1. call.tile = t
        OBVIOUS
      <4> QED BY <1>1, <3>1, <4>1
    <3>3. call'.band \in 1..Bands
      BY <1>2, <3>1, <3>2
    <3>4. ASSUME NEW band \in (call.band + 1)..Bands
          PROVE  ~written'[BlockOf(t, band)]
      <4>1. band \in 1..Bands /\ band # call.band /\ band \in call.band..Bands
        BY <1>2
      <4> QED BY <1>1, <1>2, <2>3, <2>6, <4>1 DEF CallInv
    <3>5. ASSUME NEW band \in 1..((call.band + 1) - 1)
          PROVE  written'[BlockOf(t, band)]
      <4>1. band = call.band \/ band \in 1..(call.band - 1)
        BY <1>2
      <4>2. band \in 1..Bands
        BY <1>2
      <4> QED BY <1>1, <1>2, <2>3, <2>6, <4>1, <4>2 DEF CallInv, b
    <3> QED BY <1>1, <1>2, <2>2, <3>2, <3>3, <3>4, <3>5 DEF CallInv
  <2>9. StageInv'
    BY <1>1, <2>1, <2>4, <2>7, <2>8 DEF StageInv
  <2> QED BY <2>1, <2>5, <2>9 DEF RasterInv
<1>7. CASE StoreFails(b, TileSamples, content) /\ UNCHANGED written
  <2>1. [Next]_vars /\ UNCHANGED <<images, phase, error, raster, contents>> /\ refused' = FALSE
    BY <1>1, <1>3, <1>5, <1>7, StoreFailing
  <2>2. stage' = "open"
    BY <1>1, <2>1
  <2>3. /\ Blocks' = Blocks /\ Tiles' = Tiles /\ Bands' = Bands
        /\ \A u, band : BlockOf(u, band)' = BlockOf(u, band)
    BY <2>1, RasterKept
  <2>4. RasterTypeOK' /\ RefusedForBandsOnly' /\ Agrees'
    BY <1>1, <1>7, <2>1, <2>2, TypeKept, AgreesKept DEF RasterTypeOK, RefusedForBandsOnly, Stages
  <2>5. FlagsTrack'
    BY <1>1, <1>7, <2>1, <2>3 DEF FlagsTrack
  <2>6. StageInv'
    BY <1>1, <2>1, <2>2, <2>4, <2>5 DEF StageInv
  <2> QED BY <2>1, <2>4, <2>6 DEF RasterInv
<1> QED BY <1>1, <1>6, <1>7 DEF Marked

\* finish() starts: what is flagged is what was stored.
LEMMA RasterBeginFinish ==
  ASSUME TypeOK, RasterInv, BeginFinish
  PROVE  RasterInv' /\ [Next]_vars
<1>1. /\ RasterTypeOK /\ RefusedForBandsOnly /\ StageInv /\ stage = "open" /\ phase = "open"
      /\ Agrees /\ FlagsTrack /\ raster.by = "tiles" /\ ~refused
      /\ stage' = "fill" /\ UNCHANGED <<vars, raster, call, written, contents, refused>>
  BY DEF RasterInv, StageInv, BeginFinish
<1>2. UNCHANGED <<images, phase, error>>
  BY <1>1 DEF vars
<1>3. RasterTypeOK' /\ RefusedForBandsOnly' /\ Agrees' /\ Blocks' = Blocks
  BY <1>1, <1>2, TypeKept, AgreesKept, RasterKept DEF RasterTypeOK, RefusedForBandsOnly, Stages
<1>4. \A b \in Blocks : Filled(b)' <=> contents'[b] # Nothing
  BY <1>1, StoredIsSomething DEF FlagsTrack, Filled
<1>5. StageInv'
  BY <1>1, <1>2, <1>3, <1>4 DEF StageInv
<1> QED BY <1>1, <1>3, <1>5 DEF RasterInv

\* finish() fills the next block that was not stored, or gives up.
LEMMA RasterFillBlock ==
  ASSUME TypeOK, RasterInv, NEW b \in Blocks, FillBlock(b)
  PROVE  RasterInv' /\ [Next]_vars
<1>1. /\ RasterTypeOK /\ RefusedForBandsOnly /\ StageInv /\ stage = "fill" /\ phase = "open" /\ Agrees
      /\ contents[b] = Nothing /\ UNCHANGED <<call, written>> /\ raster.by = "tiles" /\ ~refused
      /\ \A c \in Blocks : Filled(c) <=> contents[c] # Nothing
  BY DEF RasterInv, StageInv, FillBlock, NextToFill, RefusedForBandsOnly
<1>2. /\ Fill \in Storable(b) /\ TileSamples = Extracted(b)
      /\ TileSamples = CheckedBlockSampleCount(Builder1, b - 1)
  BY <1>1, SampleCountsFit DEF Storable, RasterTypeOK
<1>3. CASE StoreBlock(b, TileSamples, Fill) /\ UNCHANGED stage
  <2>1. /\ Next /\ UNCHANGED <<phase, error, raster, refused>>
        /\ Agrees' /\ DOMAIN contents' = Blocks' /\ contents'[b] = Fill /\ Fill # Nothing
        /\ \A c \in Blocks : c # b => contents'[c] = contents[c]
        /\ \A c \in Blocks' : contents'[c] \in Storable(c)' \cup {Nothing}
    BY <1>1, <1>2, <1>3, StoresBlock
  <2>2. Blocks' = Blocks
    BY <2>1, RasterKept
  <2>3. RasterTypeOK' /\ RefusedForBandsOnly'
    BY <1>1, <1>3, <2>1, <2>2 DEF RasterTypeOK, RefusedForBandsOnly
  <2>4. \A c \in Blocks : Filled(c)' <=> contents'[c] # Nothing
    BY <1>1, <2>1 DEF Filled
  <2>5. StageInv'
    BY <1>1, <1>3, <2>1, <2>2, <2>4 DEF StageInv
  <2> QED BY <2>1, <2>3, <2>5 DEF RasterInv
<1>4. CASE StoreFails(b, TileSamples, Fill) /\ stage' = "failed"
  <2>1. [Next]_vars /\ UNCHANGED <<images, phase, error, raster, contents>> /\ refused' = FALSE
    BY <1>1, <1>2, <1>4, StoreFailing
  <2>2. RasterTypeOK' /\ RefusedForBandsOnly'
    BY <1>1, <1>4, <2>1, TypeKept DEF RasterTypeOK, RefusedForBandsOnly, Stages
  <2>3. StageInv'
    BY <1>1, <1>4, <2>1 DEF StageInv
  <2> QED BY <2>1, <2>2, <2>3 DEF RasterInv
<1> QED BY <1>3, <1>4 DEF FillBlock

\* Everything is stored.
LEMMA RasterAllStored ==
  ASSUME TypeOK, RasterInv, AllStored
  PROVE  RasterInv' /\ [Next]_vars
<1>1. /\ RasterTypeOK /\ RefusedForBandsOnly /\ StageInv /\ stage \in {"array", "fill"} /\ Agrees /\ ~refused
      /\ stage' = "finish" /\ UNCHANGED <<vars, raster, call, written, contents, refused>>
  BY DEF RasterInv, StageInv, AllStored
<1>2. UNCHANGED <<images, phase, error>>
  BY <1>1 DEF vars
<1>3. \A b \in Blocks : contents[b] # Nothing
  BY <1>1 DEF AllStored, StageInv
<1>4. RasterTypeOK' /\ RefusedForBandsOnly' /\ Agrees' /\ Blocks' = Blocks
  BY <1>1, <1>2, TypeKept, AgreesKept, RasterKept DEF RasterTypeOK, RefusedForBandsOnly, Stages
<1>5. StageInv'
  BY <1>1, <1>3, <1>4 DEF StageInv
<1> QED BY <1>1, <1>4, <1>5 DEF RasterInv

\* The TiffWriter finishes: it misses no block.
LEMMA RasterFinish ==
  ASSUME TypeOK, RasterInv, FinishWriter
  PROVE  RasterInv' /\ [Next]_vars
<1>1. /\ RasterTypeOK /\ RefusedForBandsOnly /\ StageInv /\ stage = "finish" /\ Agrees /\ ~refused
      /\ UNCHANGED <<raster, stage, call, written, contents, refused>>
      /\ \A b \in Blocks : contents[b] # Nothing
  BY DEF RasterInv, StageInv, FinishWriter
<1>2. Next
  BY DEF FinishWriter, Next
<1>3. \A i \in DOMAIN images : Written(images[i])
  <2>1. DOMAIN images = {1}
    BY <1>1 DEF TypeOK, Agrees
  <2> QED BY <1>1, <2>1 DEF Written, Agrees
<1>4. images' = images /\ error' # "incomplete"
  <2>1. error # "incomplete"
    BY <1>1 DEF RefusedForBandsOnly
  <2>2. CASE Finish
    BY <1>3, <2>1, <2>2 DEF Finish, Fail, Continue
  <2>3. CASE WriteHeader \/ IfdsWritten \/ Finished
    BY <2>1, <2>3 DEF WriteHeader, IfdsWritten, Finished, Continue
  <2>4. CASE WriteIfd
    BY <2>1, <2>4 DEF WriteIfd, Fail
  <2>5. CASE WritePatch
    BY <2>1, <2>5 DEF WritePatch, Fail
  <2>6. CASE FinishFails
    BY <2>6 DEF FinishFails, Fail
  <2> QED BY <2>2, <2>3, <2>4, <2>5, <2>6 DEF FinishWriter
<1>5. RasterTypeOK' /\ RefusedForBandsOnly' /\ Agrees' /\ Blocks' = Blocks
  BY <1>1, <1>4, TypeKept, AgreesKept, RasterKept DEF RasterTypeOK, RefusedForBandsOnly, Stages
<1>6. StageInv'
  BY <1>1, <1>5 DEF StageInv
<1> QED BY <1>2, <1>5, <1>6 DEF RasterInv

\* A step of the raster writers is a step of the TiffWriter, or none.
LEMMA RasterStep ==
  ASSUME TypeOK, RasterInv, [RasterNext]_<<vars, rasterVars>>
  PROVE  RasterInv' /\ [Next]_vars
<1>1. CASE Create
  BY <1>1, RasterCreate
<1>2. CASE WriteBand
  BY <1>2, RasterWriteBand
<1>3. CASE BeginFinish
  BY <1>3, RasterBeginFinish
<1>4. CASE AllStored
  BY <1>4, RasterAllStored
<1>5. CASE FinishWriter
  BY <1>5, RasterFinish
<1>6. ASSUME NEW t \in Tiles, BeginTile(t) PROVE RasterInv' /\ [Next]_vars
  BY <1>6, RasterBeginTile
<1>7. ASSUME NEW b \in Blocks, WriteArray(b) PROVE RasterInv' /\ [Next]_vars
  BY <1>7, RasterWriteArray
<1>10. ASSUME NEW b \in Blocks, Panic(b) PROVE RasterInv' /\ [Next]_vars
  BY <1>10, RasterPanic
<1>8. ASSUME NEW b \in Blocks, FillBlock(b) PROVE RasterInv' /\ [Next]_vars
  BY <1>8, RasterFillBlock
<1>9. CASE UNCHANGED <<vars, rasterVars>>
  <2>1. UNCHANGED vars /\ UNCHANGED <<rasterVars, images, phase, error>>
    BY <1>9 DEF vars
  <2> QED BY <2>1, RasterStutters
<1> QED BY <1>1, <1>2, <1>3, <1>4, <1>5, <1>6, <1>7, <1>8, <1>9, <1>10 DEF RasterNext

\* At first nothing of the raster is stored.
LEMMA RasterStart == RasterInit => RasterInv
<1> SUFFICES ASSUME RasterInit PROVE RasterInv
  OBVIOUS
<1>1. /\ raster \in Rasters /\ stage = "new" /\ refused = FALSE
      /\ written = [b \in Blocks |-> FALSE] /\ contents = [b \in Blocks |-> Nothing]
      /\ images = <<>> /\ phase = "open" /\ error = "none"
  BY DEF RasterInit, Init
<1>2. RasterTypeOK /\ RefusedForBandsOnly
  BY <1>1 DEF RasterTypeOK, RefusedForBandsOnly, Stages
<1>3. StageInv
  BY <1>1 DEF StageInv
<1> QED BY <1>2, <1>3 DEF RasterInv

(***************************************************************************)
(* write_2d_to, write_3d_to and the streaming tile writer keep their       *)
(* invariant above any TiffWriter, whatever the raster, its tiles and the  *)
(* order they come in, and whichever writes fail.                          *)
(***************************************************************************)
THEOREM RasterInvariant == RasterSpec => [](RasterInv /\ FullInv)
<1>1. RasterInit => RasterInv /\ FullInv
  BY RasterStart, InitInv DEF RasterInit
<1>2. RasterInv /\ FullInv /\ [RasterNext]_<<vars, rasterVars>> => (RasterInv /\ FullInv)'
  <2> SUFFICES ASSUME RasterInv, FullInv, [RasterNext]_<<vars, rasterVars>>
               PROVE  (RasterInv /\ FullInv)'
    OBVIOUS
  <2>1. TypeOK
    BY DEF FullInv, WriterInv
  <2>2. RasterInv' /\ [Next]_vars
    BY <2>1, RasterStep
  <2> QED BY <2>2, FullStep
<1> QED BY <1>1, <1>2, PTL DEF RasterSpec

(***************************************************************************)
(* The raster writers use the TiffWriter as it is meant to be used: what   *)
(* they do to it is a behaviour of its own specification, so that what is  *)
(* proved of it holds for every raster.                                    *)
(***************************************************************************)
THEOREM RastersUseTheWriter == RasterSpec => Spec
<1>1. RasterInit => Init
  BY DEF RasterInit
<1>2. RasterInv /\ FullInv /\ [RasterNext]_<<vars, rasterVars>> => [Next]_vars
  BY RasterStep DEF FullInv, WriterInv
<1> QED BY <1>1, <1>2, RasterInvariant, PTL DEF RasterSpec, Spec

(***************************************************************************)
(* write_padded_block hands every block over once, with the length the     *)
(* TiffWriter expects, and finish() misses none, for any raster: nothing   *)
(* but the sink and the classic limit can make the TiffWriter refuse -     *)
(* except that write_2d_to takes builders of several bands, whose blocks   *)
(* are then refused, or panic, unless they are planar tiles.               *)
(***************************************************************************)
THEOREM RastersRefusedForBandsOnly == RasterSpec => []RefusedForBandsOnly
<1>1. RasterInv => RefusedForBandsOnly
  BY DEF RasterInv
<1> QED BY <1>1, RasterInvariant, PTL

(***************************************************************************)
(* The flags of the streaming tile writer are the records below it, after  *)
(* any sequence of tiles, whole or failed in one of their bands.           *)
(***************************************************************************)
THEOREM TileFlagsAgree == RasterSpec => []FlagsAgree
<1>1. RasterInv => FlagsAgree
  BY DEF RasterInv, StageInv, FlagsTrack, Agrees, FlagsAgree
<1> QED BY <1>1, RasterInvariant, PTL

(***************************************************************************)
(* A finished raster reads back tile for tile, whatever its dimensions,    *)
(* its tiling, the number of its bands and the order its tiles came in:    *)
(* a reader finds one image, with what was cut from its place, or filled   *)
(* in, in each block, and sparse blocks for zeros only - or for the strips *)
(* of a band that write_2d_to was not given, zero or not.                  *)
(***************************************************************************)
THEOREM RastersReadBack == RasterSpec => []ReadsBack
<1>1. RasterInv /\ FullInv => ReadsBack
  <2> SUFFICES ASSUME RasterInv, FullInv, phase = "done"
               PROVE  /\ Len(Readable) = 1 /\ DOMAIN Readable[1] = Blocks
                      /\ \A plane \in Planes : \A t \in Tiles :
                           LET b == plane * PerPlane + t.row * Across + t.col + 1
                               place == [plane |-> plane, top |-> t.row * Builder1.blockHeight,
                                         left |-> t.col * raster.tileWidth]
                           IN /\ contents[b] \in {Fill, Cut(place, "zero"), Cut(place, "data")}
                              /\ Readable[1][b] = Sparse =>
                                   Zeros(b) \/ (MissesBands /\ ~raster.tiled /\ plane > 0)
                              /\ Readable[1][b] # Sparse => Readable[1][b] = Payload(Handle, b)
    BY DEF ReadsBack
  <2>1. /\ stage = "finish" /\ Agrees /\ raster \in Rasters
        /\ \A b \in Blocks : contents[b] # Nothing /\ contents[b] \in Storable(b)
    BY DEF RasterInv, RasterTypeOK, StageInv
  <2>2. Readable = Linked /\ cur.image = 2
    BY <2>1, ReaderFacts DEF ReaderInv, FullInv, FileInv, Progress, Agrees
  <2>3. /\ Len(Readable) = 1 /\ DOMAIN Readable[1] = Blocks
        /\ \A b \in Blocks : Readable[1][b] = ContentOfRecord(1, b)
    <3>1. Readable = [k \in 1..1 |-> [b \in DOMAIN images[k].records |-> ContentOfRecord(k, b)]]
      BY <2>2 DEF Linked
    <3> QED BY <2>1, <3>1 DEF Agrees
  <2>4. ASSUME NEW b \in Blocks
        PROVE  /\ Readable[1][b] = Sparse => Zeros(b) \/ (Below(b) /\ ~raster.tiled)
               /\ Readable[1][b] # Sparse => Readable[1][b] = Payload(Handle, b)
    <3>1. images[1].records[b] # NoRecord
      BY <2>1 DEF Agrees
    <3>2. images[1].records[b].count = 0 => Zeros(b) \/ (Below(b) /\ ~raster.tiled)
      <4>1. images[1].records[b].count = 0 => StoredSparse(Extracted(b), contents[b])
        BY <2>1 DEF Agrees
      <4>2. contents[b].from = "fill" => contents[b] = Fill
        BY <2>1 DEF Storable, Cut
      <4>3. Extracted(b) = 0 => Below(b) /\ ~raster.tiled
        BY <2>1, SampleCountsFit
      <4> QED BY <4>1, <4>2, <4>3 DEF StoredSparse, Zeros
    <3>3. Payload(Handle, b) = [owner |-> Self, image |-> 1, block |-> b]
      BY DEF Payload, Handle
    <3>4. Sparse # [owner |-> Self, image |-> 1, block |-> b]
      <4>1. "sparse" \in DOMAIN Sparse /\ "sparse" \notin DOMAIN [owner |-> Self, image |-> 1, block |-> b]
        BY DEF Sparse
      <4> QED BY <4>1
    <3> QED BY <2>3, <3>1, <3>2, <3>3, <3>4 DEF ContentOfRecord
  <2>5. ASSUME NEW plane \in Planes, NEW t \in Tiles
        PROVE  LET b == plane * PerPlane + t.row * Across + t.col + 1
                   place == [plane |-> plane, top |-> t.row * Builder1.blockHeight,
                             left |-> t.col * raster.tileWidth]
               IN  /\ b \in Blocks /\ Storable(b) \subseteq {Fill, Cut(place, "zero"), Cut(place, "data")}
                   /\ Below(b) <=> MissesBands /\ plane > 0
    BY <2>1, NumberedBlocks DEF Storable
  <2> QED BY <2>1, <2>3, <2>4, <2>5
<1> QED BY <1>1, RasterInvariant, PTL
=============================================================================
