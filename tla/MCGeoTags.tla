------------------------------ MODULE MCGeoTags ------------------------------
(* Values at the boundaries of the checks, a few of each.                   *)
EXTENDS GeoTags

SomeScales == {<<2, 4>>, <<6, 2>>, <<-2, 2>>}
SomeOrigins == {<<10, 20>>, <<NotFinite, 0>>}
SomeTiepoints == {<<0, 0, 0, 3, 5, 0>>, <<1, 2, 0, 3, 5, 0>>}
SomeTransforms == {Affine(7, 4, 0, 9, 0, -2), Affine(7, 4, 2, 9, 0, -2),
                   Affine(0, 2, 0, 0, 0, 2), Affine(1, 2, 4, 1, 2, 4)}
SomeMatrices == {ToTransformationMatrix(Affine(5, 0, 2, 6, 4, 0)),
                 [ToTransformationMatrix(Affine(5, 2, 0, 6, 0, -2)) EXCEPT ![12] = NotFinite]}
SomeRasterTypes == {PixelIsArea, PixelIsPoint, 3}
SomeModelTypes == {Geographic, 32767}
SomeCodes == {4326, 4978, 32633}
SomeCitations == {<<65, 66, 67>>, <<65, 0>>, <<65, 124, 66>>, <<200>>}

Fields(projected, geodetic, citation) ==
  <<[projected |-> projected, geodetic |-> geodetic, projCitation |-> citation,
     geodCitation |-> None]>>
Heights(epsg, citation) ==
  <<[epsg |-> epsg, datum |-> None, units |-> None, citation |-> citation]>>
SomeCrsInfos ==
  {[model |-> Projected, raster |-> PixelIsPoint,
    horizontal |-> Fields(<<32633>>, <<4269>>, <<<<65>>>>), vertical |-> None],
   [model |-> 0, raster |-> 0, horizontal |-> Fields(None, None, None),
    vertical |-> Heights(None, None)],
   [model |-> Geographic, raster |-> PixelIsArea, horizontal |-> None,
    vertical |-> Heights(<<5703>>, <<<<66, 0>>>>)]}

SomeKeyValues ==
  {[id |-> GtRasterType, value |-> Ascii(<<65>>)],
   [id |-> 3076, value |-> Double(<<>>)],
   [id |-> 3076, value |-> Double(<<1, 2>>)],
   [id |-> 2057, value |-> Double(<<3, 4, 5>>)],
   [id |-> 1026, value |-> Ascii([i \in 1 .. 8 |-> 65])],
   [id |-> 1026, value |-> Ascii([i \in 1 .. 7 |-> 65])],
   [id |-> GeodeticCrsType, value |-> Short(4269)]}
=============================================================================
