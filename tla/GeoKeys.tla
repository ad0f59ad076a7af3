------------------------------- MODULE GeoKeys -------------------------------
(***************************************************************************)
(* The GeoKey directory of a GeoTIFF (geotiff-core/src/geokeys.rs) and the   *)
(* coordinate reference system read from it and applied to it (crs.rs).      *)
(*                                                                         *)
(* The keys are a function of their ids: `set` replaces a key in place,      *)
(* `serialize` sorts by id, and `parse` refuses a repeated id, so that the    *)
(* order of the vector is never seen.  A text is a sequence of codes, an      *)
(* Option a sequence of at most one value.                                   *)
(***************************************************************************)
EXTENDS Integers, Sequences, FiniteSetsExt, SequencesExt

\* The largest value of a SHORT, where a directory counts and addresses its
\* parameters; 65535 in the code.
CONSTANT MaxShort
ASSUME MaxShortAssumption == MaxShort \in Nat \ {0}

None == <<>>
Some(x) == <<x>>

GtModelType == 1024
GtRasterType == 1025
GeodeticCrsType == 2048
GeodeticCitation == 2049
ProjectedCrsType == 3072
ProjCitation == 3073
VerticalCsType == 4096
VerticalCitation == 4097
VerticalDatum == 4098
VerticalUnits == 4099

Inline == 0
GeoDoubleParams == 34736
GeoAsciiParams == 34737
Pipe == 124
Nul == 0

Text == Seq(Nat)
Option(S) == {option \in Seq(S) : Len(option) <= 1}

Short(value) == [type |-> "short", of |-> <<value>>]
Double(values) == [type |-> "double", of |-> values]
Ascii(text) == [type |-> "ascii", of |-> text]

-----------------------------------------------------------------------------
(* The directory.                                                           *)

NewDirectory == [minor |-> 1, keys |-> [id \in {} |-> None]]

SetKey(keys, id, value) ==
  [other \in DOMAIN keys \cup {id} |-> IF other = id THEN value ELSE keys[other]]
RemoveKey(keys, id) == [other \in DOMAIN keys \ {id} |-> keys[other]]

GetOf(type, keys, id) ==
  IF id \in DOMAIN keys /\ keys[id].type = type THEN Some(keys[id].of) ELSE None

GetShort(keys, id) ==
  LET found == GetOf("short", keys, id) IN IF found = None THEN None ELSE found[1]
GetAscii(keys, id) == GetOf("ascii", keys, id)

IsAscii(text) == \A i \in DOMAIN text : text[i] < 128

\* What a value adds to the parameters of its type: texts end in a pipe.
Stored(value) == IF value.type = "ascii" THEN Append(value.of, Pipe) ELSE value.of

\* The ids in ascending order: each has a rank of its own.
Rank(ids, id) == Cardinality({other \in ids : other <= id})
Sorted(keys) ==
  [i \in 1 .. Cardinality(DOMAIN keys) |->
     CHOOSE id \in DOMAIN keys : Rank(DOMAIN keys, id) = i]

\* The parameters of one type of the keys `ids`, in their order.
Params(keys, ids, type) ==
  FlattenSeq([i \in DOMAIN ids |->
                IF keys[ids[i]].type = type THEN Stored(keys[ids[i]]) ELSE <<>>])

StartOf(keys, ids, i) == Len(Params(keys, SubSeq(ids, 1, i - 1), keys[ids[i]].type))

ValueFits(keys, ids, i) ==
  LET value == keys[ids[i]] IN
  /\ value.type = "ascii" => IsAscii(value.of) /\ \A c \in Range(value.of) : c # Pipe
  /\ value.type # "short" => /\ Len(Stored(value)) <= MaxShort
                             /\ StartOf(keys, ids, i) <= MaxShort

EntryOf(keys, ids, i) ==
  LET value == keys[ids[i]] IN
  IF value.type = "short" THEN <<ids[i], Inline, 1, value.of[1]>>
  ELSE <<ids[i], IF value.type = "double" THEN GeoDoubleParams ELSE GeoAsciiParams,
         Len(Stored(value)), StartOf(keys, ids, i)>>

RequiresGeoTiff11(keys) ==
  {VerticalCsType, VerticalCitation, VerticalDatum, VerticalUnits} \cap DOMAIN keys # {}

\* The three tags of a directory, or None where it is refused.
Serialize(directory) ==
  LET keys == directory.keys
      ids == Sorted(keys)
      minor == IF RequiresGeoTiff11(keys) THEN 1 ELSE directory.minor
  IN IF /\ directory.minor \in {0, 1} /\ Len(ids) <= MaxShort
        /\ \A i \in DOMAIN ids : ValueFits(keys, ids, i)
     THEN Some([directory |-> <<1, 1, minor, Len(ids)>>
                                \o FlattenSeq([i \in DOMAIN ids |-> EntryOf(keys, ids, i)]),
                doubles |-> Params(keys, ids, "double"),
                text |-> Params(keys, ids, "ascii")])
     ELSE None

TrimmedEnd(text, code) ==
  SubSeq(text, 1, Max({0} \cup {i \in DOMAIN text : text[i] # code}))

ParsedValue(location, count, offset, doubles, text) ==
  IF location = Inline /\ count = 1 THEN Some(Short(offset))
  ELSE IF location = GeoDoubleParams /\ count > 0 /\ offset + count <= Len(doubles)
  THEN Some(Double(SubSeq(doubles, offset + 1, offset + count)))
  ELSE IF /\ location = GeoAsciiParams /\ count > 0 /\ offset + count <= Len(text)
          /\ text[offset + count] = Pipe
  THEN Some(Ascii(TrimmedEnd(TrimmedEnd(SubSeq(text, offset + 1, offset + count), Pipe), Nul)))
  ELSE None

\* The directory three tags hold, or None where they hold none.
Parse(tags) ==
  LET d == tags.directory
      Id(i) == d[4 * i + 1]
      Value(i) == ParsedValue(d[4 * i + 2], d[4 * i + 3], d[4 * i + 4],
                              tags.doubles, tags.text)
      entries == 1 .. d[4]
  IN IF \/ Len(d) < 4
        \/ d[1] # 1 \/ d[2] # 1 \/ d[3] \notin {0, 1} \/ Len(d) # 4 + 4 * d[4]
        \/ ~IsAscii(tags.text)
        \/ \E i, j \in entries : i < j /\ Id(i) = Id(j)
        \/ \E i \in entries : Value(i) = None
     THEN None
     ELSE Some([minor |-> d[3],
                keys |-> [id \in {Id(i) : i \in entries} |->
                            Value(CHOOSE i \in entries : Id(i) = id)[1]]])

-----------------------------------------------------------------------------
(* The coordinate reference system.                                         *)

Projected == 1
Geographic == 2
Geocentric == 3

OrElse(option, default) == IF option = None THEN default ELSE option[1]

Horizontal(keys) ==
  [projected |-> GetShort(keys, ProjectedCrsType), geodetic |-> GetShort(keys, GeodeticCrsType),
   projCitation |-> GetAscii(keys, ProjCitation),
   geodCitation |-> GetAscii(keys, GeodeticCitation)]

Vertical(keys) ==
  [epsg |-> GetShort(keys, VerticalCsType), datum |-> GetShort(keys, VerticalDatum),
   units |-> GetShort(keys, VerticalUnits), citation |-> GetAscii(keys, VerticalCitation)]

IsPresent(crs) == \E field \in DOMAIN crs : crs[field] # None

CrsFromGeoKeys(keys) ==
  LET model == OrElse(GetShort(keys, GtModelType), 0) IN
  [model |-> model,
   raster |-> OrElse(GetShort(keys, GtRasterType), 1),
   horizontal |-> IF model # 0 \/ IsPresent(Horizontal(keys))
                  THEN Some(Horizontal(keys)) ELSE None,
   vertical |-> IF IsPresent(Vertical(keys)) THEN Some(Vertical(keys)) ELSE None]

FirstOf(a, b) == IF a # None THEN a ELSE b

PrimaryHorizontalEpsg(crs) ==
  IF crs.horizontal = None THEN None
  ELSE LET horizontal == crs.horizontal[1] IN
       IF crs.model = Projected THEN FirstOf(horizontal.projected, horizontal.geodetic)
       ELSE FirstOf(horizontal.geodetic, horizontal.projected)

VerticalEpsg(crs) == IF crs.vertical = None THEN None ELSE crs.vertical[1].epsg

Epsg(crs) == FirstOf(PrimaryHorizontalEpsg(crs), VerticalEpsg(crs))

OptionalShort(option) == IF option = None THEN None ELSE Some(Short(option[1]))
OptionalAscii(option) == IF option = None THEN None ELSE Some(Ascii(option[1]))

CrsKeys == {GtModelType, GtRasterType, ProjectedCrsType, GeodeticCrsType, ProjCitation,
            GeodeticCitation, VerticalCsType, VerticalDatum, VerticalUnits, VerticalCitation}

\* What applying `crs` sets and, where it is None, removes.
KeysOfCrs(crs) ==
  LET Part(option, field) == IF option = None THEN None ELSE option[1][field]
      NonZero(code) == IF code = 0 THEN None ELSE Some(Short(code))
  IN [id \in CrsKeys |->
        IF id = GtModelType THEN NonZero(crs.model)
        ELSE IF id = GtRasterType THEN NonZero(crs.raster)
        ELSE IF id = ProjectedCrsType THEN OptionalShort(Part(crs.horizontal, "projected"))
        ELSE IF id = GeodeticCrsType THEN OptionalShort(Part(crs.horizontal, "geodetic"))
        ELSE IF id = ProjCitation THEN OptionalAscii(Part(crs.horizontal, "projCitation"))
        ELSE IF id = GeodeticCitation THEN OptionalAscii(Part(crs.horizontal, "geodCitation"))
        ELSE IF id = VerticalCsType THEN OptionalShort(Part(crs.vertical, "epsg"))
        ELSE IF id = VerticalDatum THEN OptionalShort(Part(crs.vertical, "datum"))
        ELSE IF id = VerticalUnits THEN OptionalShort(Part(crs.vertical, "units"))
        ELSE OptionalAscii(Part(crs.vertical, "citation"))]

\* Applied without removing what the system leaves out.
ApplyOverGeoKeys(crs, keys) ==
  LET managed == KeysOfCrs(crs)
      set == {id \in DOMAIN managed : managed[id] # None}
  IN [id \in DOMAIN keys \cup set |-> IF id \in set THEN managed[id][1] ELSE keys[id]]

ApplyToGeoKeys(crs, keys) ==
  LET managed == KeysOfCrs(crs)
      kept == DOMAIN keys \ DOMAIN managed
      set == {id \in DOMAIN managed : managed[id] # None}
  IN [id \in kept \cup set |-> IF id \in set THEN managed[id][1] ELSE keys[id]]
=============================================================================
