------------------------------- MODULE GeoTags -------------------------------
(***************************************************************************)
(* Georeferencing, from the setters of GeoTiffBuilder                         *)
(* (geotiff-writer/src/builder.rs) through the tags of the base image and of  *)
(* an overview to what GeoTiffFile reads (geotiff-reader/src/lib.rs).         *)
(*                                                                         *)
(* The setters come in any order and undo each other: an origin takes the     *)
(* place of a matrix, a raster type moves a tiepoint that was set before it.  *)
(* `calls` remembers them for the properties; nothing else reads it.          *)
(***************************************************************************)
EXTENDS GeoKeys, GeoTransform

CONSTANTS
  Scales, Origins, Tiepoints, Transforms, Matrices,  \* what the setters are given
  RasterTypes, ModelTypes, EpsgCodes, VerticalCodes, Citations, CrsInfos,
  KeyValues,
  Levels,          \* the overview levels; 1 stands for no overview
  ImageWidth, ImageHeight,   \* of the base image
  MaxCalls         \* bound on the setters called

Transform == [originX : Doubles, pixelWidth : Doubles, skewX : Doubles,
              originY : Doubles, skewY : Doubles, pixelHeight : Doubles]

KeyValue ==
  {v \in [type : {"short", "double", "ascii"}, of : Seq(Doubles)] :
     /\ v.type = "short" => Len(v.of) = 1 /\ v.of[1] \in Nat
     /\ v.type = "ascii" => v.of \in Text}

CrsInfo ==
  [model : Nat, raster : Nat,
   horizontal : Option([projected : Option(Nat), geodetic : Option(Nat),
                        projCitation : Option(Text), geodCitation : Option(Text)]),
   vertical : Option([epsg : Option(Nat), datum : Option(Nat), units : Option(Nat),
                      citation : Option(Text)])]

ASSUME GeoAssumption ==
  /\ Scales \cup Origins \subseteq Doubles \X Doubles
  /\ Tiepoints \subseteq [1 .. 6 -> Doubles] /\ Matrices \subseteq [1 .. 16 -> Doubles]
  /\ Transforms \subseteq Transform
  /\ RasterTypes \cup ModelTypes \cup EpsgCodes \cup VerticalCodes \subseteq Nat
  /\ Citations \subseteq Text /\ CrsInfos \subseteq CrsInfo
  /\ KeyValues \subseteq [id : Nat, value : KeyValue]
  /\ Levels \cup {ImageWidth, ImageHeight} \subseteq Nat \ {0} /\ MaxCalls \in Nat

VARIABLES builder, calls, phase, tags, overview, opened

vars == <<builder, calls, phase, tags, overview, opened>>

NewBuilder == [geokeys |-> NewDirectory, scale |-> None, tiepoint |-> None,
               isOrigin |-> FALSE, affine |-> None, matrix |-> None]

NoTags == [matrix |-> None, scale |-> None, tiepoint |-> None, keys |-> None]
NotOpened == [status |-> "unread"]

-----------------------------------------------------------------------------
(* The setters.                                                             *)

WithKey(b, id, value) == [b EXCEPT !.geokeys.keys = SetKey(@, id, value)]
WithoutKey(b, id) == [b EXCEPT !.geokeys.keys = RemoveKey(@, id)]

SetProjectedEpsg(b, code) ==
  WithoutKey(WithKey(WithKey(b, GtModelType, Short(Projected)),
                     ProjectedCrsType, Short(code)), GeodeticCrsType)

SetGeodeticEpsg(b, model, code) ==
  WithKey(WithoutKey(WithKey(b, GtModelType, Short(model)), ProjectedCrsType),
          GeodeticCrsType, Short(code))

SetEpsg(b, code) ==
  LET guessed == IF code = 4978 THEN Geocentric
                 ELSE IF code \in 4000 .. 4999 THEN Geographic ELSE Projected
      model == OrElse(GetShort(b.geokeys.keys, GtModelType), guessed)
  IN IF model = Projected THEN SetProjectedEpsg(b, code)
     ELSE IF model = Geographic THEN SetGeodeticEpsg(b, Geographic, code)
     ELSE SetGeodeticEpsg(b, Geocentric, code)

SetCrs(b, crs) == [b EXCEPT !.geokeys.keys = ApplyToGeoKeys(crs, @)]

SetScale(b, scale) ==
  [b EXCEPT !.scale = Some(<<scale[1], scale[2], 0>>), !.affine = None, !.matrix = None]

SetOrigin(b, origin) ==
  [b EXCEPT !.tiepoint = Some(<<0, 0, 0, origin[1], origin[2], 0>>), !.isOrigin = TRUE,
            !.affine = None, !.matrix = None]

SetTiepoint(b, tiepoint) ==
  [b EXCEPT !.tiepoint = Some(tiepoint), !.isOrigin = FALSE,
            !.affine = None, !.matrix = None]

SetMatrix(b, matrix) ==
  [NewBuilder EXCEPT !.geokeys = b.geokeys, !.matrix = Some(matrix)]

SetTransform(b, t) ==
  IF IsNorthUp(t) THEN [NewBuilder EXCEPT !.geokeys = b.geokeys, !.affine = Some(t)]
  ELSE SetMatrix(b, ToTransformationMatrix(t))

-----------------------------------------------------------------------------
(* The tags of an image.                                                    *)

CurrentRasterType(b) ==
  OrElse(GetShort(b.geokeys.keys, GtRasterType), PixelIsArea)

\* A scale alone passes.
ValidWithoutTiepoint(b) ==
  /\ b.matrix # None =>
       AllFinite(b.matrix[1]) /\ IsInvertible(FromTransformationMatrix(b.matrix[1]))
  /\ b.affine # None => AllFinite(b.affine[1]) /\ IsInvertible(b.affine[1])
  /\ b.scale # None =>
       /\ AllFinite(b.scale[1])
       /\ b.scale[1][1] > 0 /\ b.scale[1][2] > 0 /\ b.scale[1][3] >= 0
  /\ b.tiepoint # None => AllFinite(b.tiepoint[1])

ValidGeoreferencing(b) ==
  ValidWithoutTiepoint(b) /\ (b.scale # None => b.tiepoint # None)

OriginAsCorner(b) == b.tiepoint[1]

\* The tiepoint an origin, a corner, stands for under the raster type.
OriginTiepoint(b) ==
  LET at == b.tiepoint[1]
      t == FromOriginAndPixelSize(at[4], at[5], b.scale[1][1], -b.scale[1][2])
  IN IF b.scale # None /\ IsNorthUp(t)
     THEN TiepointOf(t, CurrentRasterType(b)) ELSE at

WritesGeoreferencing(b) ==
  b.matrix # None \/ b.affine # None \/ b.scale # None \/ b.tiepoint # None

ModelTags(b) ==
  IF b.matrix # None THEN [NoTags EXCEPT !.matrix = b.matrix]
  ELSE IF b.affine # None
  THEN [NoTags EXCEPT !.scale = Some(ScaleOf(b.affine[1])),
                      !.tiepoint = Some(TiepointOf(b.affine[1], CurrentRasterType(b)))]
  ELSE [NoTags EXCEPT !.scale = b.scale,
                      !.tiepoint = IF b.tiepoint # None /\ b.isOrigin
                                   THEN Some(OriginTiepoint(b)) ELSE b.tiepoint]

WritesKeys(b) == WritesGeoreferencing(b) \/ DOMAIN b.geokeys.keys # {}

BuildsTags(b) ==
  ValidGeoreferencing(b) /\ (WritesKeys(b) => Serialize(b.geokeys) # None)

ExtraTags(b) ==
  [ModelTags(b) EXCEPT !.keys = IF WritesKeys(b) THEN Serialize(b.geokeys) ELSE None]

OverviewOf(b, transform, factor) ==
  [NewBuilder EXCEPT !.geokeys = b.geokeys,
                     !.affine = Some(ScaledForOverview(transform, factor))]

\* An origin taken for a tiepoint of the raster type.
OverviewFromTiepoint(b, factor) ==
  OverviewOf(b, FromTiepointAndScale(b.tiepoint[1], b.scale[1], CurrentRasterType(b)), factor)

OverviewFromParts(b, factor) ==
  LET at == b.tiepoint[1] IN
  IF b.isOrigin
  THEN OverviewOf(b, FromOriginAndPixelSize(at[4], at[5], b.scale[1][1], -b.scale[1][2]),
                  factor)
  ELSE OverviewFromTiepoint(b, factor)

WithOverviewGeoreferencing(b, factor) ==
  IF factor = 1 THEN b
  ELSE IF b.matrix # None THEN SetMatrix(b, ScaledMatrix(b.matrix[1], factor))
  ELSE IF b.affine # None THEN OverviewOf(b, b.affine[1], factor)
  ELSE IF b.tiepoint # None /\ b.scale # None THEN OverviewFromParts(b, factor)
  ELSE IF b.scale # None
  THEN [b EXCEPT !.scale[1][1] = @ * factor, !.scale[1][2] = @ * factor]
  ELSE b

-----------------------------------------------------------------------------
(* Reading the tags back.                                                   *)

HasMetadata(read) ==
  read.keys # None \/ read.matrix # None \/ (read.tiepoint # None /\ read.scale # None)

ParsedDirectory(read) ==
  IF read.keys = None THEN Some(NewDirectory) ELSE Parse(read.keys[1])

ValidModel(read) ==
  /\ read.tiepoint # None => AllFinite(read.tiepoint[1])
  /\ read.scale # None =>
       /\ AllFinite(read.scale[1])
       /\ read.scale[1][1] > 0 /\ read.scale[1][2] > 0 /\ read.scale[1][3] >= 0
       /\ read.tiepoint # None
  /\ read.matrix # None =>
       /\ AllFinite(read.matrix[1]) /\ IsInvertible(FromTransformationMatrix(read.matrix[1]))
       /\ read.scale = None /\ read.tiepoint = None

TransformOf(read, crs) ==
  IF read.matrix # None THEN Some(FromTransformationMatrix(read.matrix[1]))
  ELSE IF read.tiepoint # None /\ read.scale # None
  THEN Some(FromTiepointAndScale(read.tiepoint[1], read.scale[1], crs.raster))
  ELSE None

Opened(read) ==
  LET keys == ParsedDirectory(read)[1].keys
      crs == CrsFromGeoKeys(keys)
      transform == TransformOf(read, crs)
  IN [status |-> "open", keys |-> keys, crs |-> crs, epsg |-> Epsg(crs),
      transform |-> transform,
      bounds |-> IF transform = None THEN None
                 ELSE Some(Bounds(transform[1], ImageWidth, ImageHeight))]

Refused(read) ==
  IF ~HasMetadata(read) THEN "not a GeoTIFF"
  ELSE IF ParsedDirectory(read) = None THEN "bad directory"
  ELSE IF ~ValidModel(read) THEN "bad model" ELSE "no"

-----------------------------------------------------------------------------

Init == /\ builder = NewBuilder /\ calls = <<>> /\ phase = "building"
        /\ tags = NoTags /\ overview = [level |-> 1, tags |-> NoTags]
        /\ opened = NotOpened

Set(name, value, next) ==
  /\ phase = "building" /\ Len(calls) < MaxCalls
  /\ builder' = next
  /\ calls' = Append(calls, [set |-> name, to |-> value])
  /\ UNCHANGED <<phase, tags, overview, opened>>

SetKeyTo(id, value) ==
  Set("geokey", [id |-> id, value |-> value], WithKey(builder, id, value))

CallEpsg == \E c \in EpsgCodes : Set("epsg", c, SetEpsg(builder, c))
CallProjected == \E c \in EpsgCodes : Set("projected_epsg", c, SetProjectedEpsg(builder, c))
CallGeographic ==
  \E c \in EpsgCodes : Set("geographic_epsg", c, SetGeodeticEpsg(builder, Geographic, c))
CallGeocentric ==
  \E c \in EpsgCodes : Set("geocentric_epsg", c, SetGeodeticEpsg(builder, Geocentric, c))
CallCrs == \E crs \in CrsInfos : Set("crs", crs, SetCrs(builder, crs))
CallModelType == \E m \in ModelTypes :
  Set("model_type", m, WithKey(builder, GtModelType, Short(m)))
CallRasterType == \E r \in RasterTypes :
  Set("raster_type", r, WithKey(builder, GtRasterType, Short(r)))
CallVertical == \E id \in {VerticalCsType, VerticalDatum, VerticalUnits}, c \in VerticalCodes :
  Set("vertical", c, WithKey(builder, id, Short(c)))
CallVerticalCitation == \E text \in Citations :
  Set("vertical", text, WithKey(builder, VerticalCitation, Ascii(text)))
CallGeoKey == \E key \in KeyValues : SetKeyTo(key.id, key.value)

CallScale == \E s \in Scales : Set("pixel_scale", s, SetScale(builder, s))
CallOrigin == \E o \in Origins : Set("origin", o, SetOrigin(builder, o))
CallTiepoint == \E t \in Tiepoints : Set("tiepoint", t, SetTiepoint(builder, t))
CallTransform == \E t \in Transforms : Set("transform", t, SetTransform(builder, t))
CallMatrix == \E m \in Matrices : Set("transformation_matrix", m, SetMatrix(builder, m))

\* The base image and at most one overview; nothing is written if either fails.
Write ==
  /\ phase = "building"
  /\ \E level \in Levels \cup {1} :
       LET reduced == WithOverviewGeoreferencing(builder, level) IN
       IF BuildsTags(builder) /\ BuildsTags(reduced)
       THEN /\ phase' = "written"
            /\ tags' = ExtraTags(builder)
            /\ overview' = [level |-> level, tags |-> ExtraTags(reduced)]
       ELSE phase' = "refused" /\ UNCHANGED <<tags, overview>>
  /\ UNCHANGED <<builder, calls, opened>>

Open ==
  /\ phase = "written"
  /\ phase' = "opened"
  /\ opened' = IF Refused(tags) = "no" THEN Opened(tags) ELSE [status |-> Refused(tags)]
  /\ UNCHANGED <<builder, calls, tags, overview>>

Next ==
  \/ CallEpsg \/ CallProjected \/ CallGeographic \/ CallGeocentric \/ CallCrs
  \/ CallModelType \/ CallRasterType \/ CallVertical \/ CallVerticalCitation
  \/ CallGeoKey \/ CallScale \/ CallOrigin \/ CallTiepoint \/ CallTransform
  \/ CallMatrix \/ Write \/ Open

Spec == Init /\ [][Next]_vars

-----------------------------------------------------------------------------
(* Properties.                                                              *)

Keys == builder.geokeys.keys
IsOpen == phase = "opened" /\ opened.status = "open"

\* Metadata the builder accepts makes a file the reader opens, whatever setters
\* were called and in which order, with two exceptions: a builder without any
\* georeferencing or key makes a plain TIFF, and a key set to no doubles at all
\* is written with a count of zero, which the reader refuses.
AcceptedOpens ==
  phase = "opened" =>
    \/ opened.status = "open"
    \/ opened.status = "not a GeoTIFF" /\ ~WritesKeys(builder)
    \/ opened.status = "bad directory" /\ \E id \in DOMAIN Keys : Keys[id] = Double(<<>>)

SetsWhole == {"transform", "transformation_matrix"}

\* What the calls say of the transform: the last whole one, unless parts were
\* set after it; of these the last scale and the last origin or tiepoint.  An
\* origin is a corner whatever the raster type; a tiepoint is not.
Asked ==
  LET Latest(names, from) ==
        Max({0} \cup {i \in DOMAIN calls : i > from /\ calls[i].set \in names})
      whole == Latest(SetsWhole, 0)
      scale == Latest({"pixel_scale"}, whole)
      at == Latest({"origin", "tiepoint"}, whole)
      To(i) == calls[i].to
  IN IF scale = 0 /\ at = 0
     THEN IF whole = 0 THEN None
          ELSE IF calls[whole].set = "transform" THEN Some(To(whole))
          ELSE Some(FromTransformationMatrix(To(whole)))
     ELSE IF scale = 0 \/ at = 0 THEN None
     ELSE IF calls[at].set = "origin"
     THEN Some(Affine(To(at)[1], To(scale)[1], 0, To(at)[2], 0, -To(scale)[2]))
     ELSE Some(FromTiepointAndScale(To(at), To(scale), CurrentRasterType(builder)))

\* The transform of an opened file is the one the calls say, however the setters
\* that undo each other and the raster type were ordered, and it takes every
\* corner of the image to the map and back.
TransformReadsBack ==
  IsOpen =>
    /\ opened.transform = Asked
    /\ opened.transform # None =>
         \A t \in {opened.transform[1]}, col \in 0 .. ImageWidth, row \in 0 .. ImageHeight :
           LET at == PixelToGeo(t, col, row) IN GeoToPixel(t, at[1], at[2]) = <<col, row>>

\* A text loses the NULs at its end.
AsRead(value) ==
  IF value.type = "ascii" THEN Ascii(TrimmedEnd(value.of, Nul)) ELSE value

\* A system without any field of a part is read as one without that part, a
\* raster type of zero as PixelIsArea.
TextAsRead(text) == IF text = None THEN None ELSE Some(TrimmedEnd(text[1], Nul))

GivenHorizontal(crs) ==
  IF crs.horizontal # None THEN crs.horizontal[1] ELSE Horizontal(<<>>)
GivenVertical(crs) == IF crs.vertical # None THEN crs.vertical[1] ELSE Vertical(<<>>)

CrsAsRead(crs) ==
  LET horizontal == [GivenHorizontal(crs) EXCEPT !.projCitation = TextAsRead(@),
                                                 !.geodCitation = TextAsRead(@)]
      vertical == [GivenVertical(crs) EXCEPT !.citation = TextAsRead(@)]
  IN [model |-> crs.model,
      raster |-> IF crs.raster = 0 THEN PixelIsArea ELSE crs.raster,
      horizontal |-> IF crs.model # 0 \/ IsPresent(horizontal) THEN Some(horizontal) ELSE None,
      vertical |-> IF IsPresent(vertical) THEN Some(vertical) ELSE None]

SetsEpsg == {"epsg", "projected_epsg", "geographic_epsg", "geocentric_epsg"}
SetsCrsKeys == SetsEpsg \cup {"crs", "geokey"}
SetsAnyKey == SetsCrsKeys \cup {"model_type", "raster_type", "vertical"}
LastOf(i, names) == \A j \in DOMAIN calls : j > i => calls[j].set \notin names

\* Every key is read as it was set last.  A coordinate reference system set as
\* a whole is read as a whole: nothing of the keys set before it shows through.
\* And the EPSG code is the one set last, whatever the model type.
CrsReadsBack ==
  IsOpen =>
    /\ opened.keys = [id \in DOMAIN Keys |-> AsRead(Keys[id])]
    /\ \A i \in DOMAIN calls :
         /\ calls[i].set = "crs" /\ LastOf(i, SetsAnyKey)
              => opened.crs = CrsAsRead(calls[i].to)
         /\ calls[i].set \in SetsEpsg /\ LastOf(i, SetsCrsKeys)
              => opened.epsg = Some(calls[i].to)

\* Pixel (c, r) of an overview is at pixel (c * level, r * level) of the base
\* image, whatever the georeferencing was given as, and the overview, rounded up
\* to whole pixels, covers the base image.
OverviewCovers ==
  IsOpen =>
    LET level == overview.level
        reduced == TransformOf(overview.tags, opened.crs)
        CeilDiv(n) == (n + level - 1) \div level
    IN /\ (reduced = None) = (opened.transform = None)
       /\ opened.transform # None =>
            /\ \A col \in 0 .. ImageWidth, row \in 0 .. ImageHeight :
                 PixelToGeo(reduced[1], col, row)
                   = PixelToGeo(opened.transform[1], col * level, row * level)
            /\ LET inner == opened.bounds[1]
                   outer == Bounds(reduced[1], CeilDiv(ImageWidth), CeilDiv(ImageHeight))
               IN /\ outer[1] <= inner[1] /\ outer[2] <= inner[2]
                  /\ inner[3] <= outer[3] /\ inner[4] <= outer[4]

\* The comment on `epsg`: a model type that was already set is preserved.
ModelTypePreserved ==
  [][LET Model(b) == GetShort(b.geokeys.keys, GtModelType) IN
     (calls' # calls /\ calls'[Len(calls')].set = "epsg" /\ Model(builder) # None)
       => Model(builder') = Model(builder)]_vars
=============================================================================
