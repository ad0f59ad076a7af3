---------------------------- MODULE GeoTransform ----------------------------
(***************************************************************************)
(* The affine transform between pixels and the map                           *)
(* (geotiff-core/src/transform.rs), always in terms of pixel corners, and     *)
(* the tags it is read from and written to.                                  *)
(*                                                                         *)
(* A double is an integer, in a unit in which the pixel sizes are even, or    *)
(* NotFinite; the rounding and the overflow of doubles are left out.          *)
(***************************************************************************)
EXTENDS Integers, Sequences, FiniteSetsExt, Functions

PixelIsArea == 1
PixelIsPoint == 2

\* A NaN or an infinity.
CONSTANT NotFinite
ASSUME NotFiniteAssumption == NotFinite \notin Int

Doubles == Int \cup {NotFinite}
IsFinite(value) == value # NotFinite
AllFinite(values) == \A i \in DOMAIN values : IsFinite(values[i])

Affine(ox, pw, sx, oy, sy, ph) ==
  [originX |-> ox, pixelWidth |-> pw, skewX |-> sx,
   originY |-> oy, skewY |-> sy, pixelHeight |-> ph]

\* What raster type `raster` adds to a tiepoint of `pixels` pixels: a tiepoint
\* of a PixelIsPoint raster is at the centre of its pixel.
InMap(pixels, raster, scale) ==
  pixels * scale + (IF raster = PixelIsPoint THEN scale \div 2 ELSE 0)

FromTiepointAndScale(tiepoint, scale, raster) ==
  Affine(tiepoint[4] - InMap(tiepoint[1], raster, scale[1]), scale[1], 0,
         tiepoint[5] + InMap(tiepoint[2], raster, scale[2]), 0, -scale[2])

FromTransformationMatrix(matrix) ==
  Affine(matrix[4], matrix[1], matrix[2], matrix[8], matrix[5], matrix[6])

FromOriginAndPixelSize(x, y, width, height) == Affine(x, width, 0, y, 0, height)

PixelToGeo(t, col, row) ==
  <<t.originX + col * t.pixelWidth + row * t.skewX,
    t.originY + col * t.skewY + row * t.pixelHeight>>

Determinant(t) == (t.pixelWidth * t.pixelHeight) - (t.skewX * t.skewY)

\* The check geo_to_pixel makes, at the origin of the transform.
IsInvertible(t) == Determinant(t) # 0

\* Exact where (x, y) is a corner of a pixel of an invertible transform.
GeoToPixel(t, x, y) ==
  LET dx == x - t.originX
      dy == y - t.originY
      Divided(n) == IF Determinant(t) > 0 THEN n \div Determinant(t)
                    ELSE (-n) \div (-Determinant(t))
  IN <<Divided((t.pixelHeight * dx) - (t.skewX * dy)),
       Divided((t.pixelWidth * dy) - (t.skewY * dx))>>

Bounds(t, width, height) ==
  LET corners == {PixelToGeo(t, 0, 0), PixelToGeo(t, width, 0),
                  PixelToGeo(t, 0, height), PixelToGeo(t, width, height)}
  IN <<Min({c[1] : c \in corners}), Min({c[2] : c \in corners}),
       Max({c[1] : c \in corners}), Max({c[2] : c \in corners})>>

\* North up: a tiepoint and a scale say it exactly.
IsNorthUp(t) ==
  /\ t.skewX = 0 /\ t.skewY = 0
  /\ IsFinite(t.pixelWidth) /\ t.pixelWidth > 0
  /\ IsFinite(t.pixelHeight) /\ t.pixelHeight < 0

ScaleOf(t) == <<t.pixelWidth, -t.pixelHeight, 0>>
TiepointOf(t, raster) ==
  <<0, 0, 0, t.originX + InMap(0, raster, t.pixelWidth),
    t.originY - InMap(0, raster, -t.pixelHeight), 0>>

ToTransformationMatrix(t) ==
  <<t.pixelWidth, t.skewX, 0, t.originX, t.skewY, t.pixelHeight, 0, t.originY,
    0, 0, 0, 0, 0, 0, 0, 1>>

\* The same corner of the map, with pixels `factor` times as large.
ScaledForOverview(t, factor) ==
  Affine(t.originX, t.pixelWidth * factor, t.skewX * factor,
         t.originY, t.skewY * factor, t.pixelHeight * factor)

ScaledMatrix(matrix, factor) ==
  [i \in 1 .. 16 |-> IF (i - 1) % 4 \in {0, 1} THEN matrix[i] * factor ELSE matrix[i]]
=============================================================================
