--------------------------- MODULE MCGeoTiffWriter ---------------------------
(* Small rasters: strips, tiles that divide the raster and tiles that do not, *)
(* chunky and planar, with and without nodata and sparse blocks, written in   *)
(* every way; write_2d_to also where the builder has two bands.               *)
EXTENDS GeoTiffWriter

Plain == [by |-> "tiles", variant |-> "Auto", width |-> 17, height |-> 17, bands |-> 1,
          planar |-> FALSE, tiled |-> TRUE, tileWidth |-> 16, tileHeight |-> 16,
          tags |-> <<>>, sparse |-> TRUE, nodata |-> FALSE]

Planar == [Plain EXCEPT !.height = 32, !.width = 16, !.bands = 2, !.planar = TRUE]
Chunky == [Plain EXCEPT !.height = 16, !.bands = 2, !.nodata = TRUE, !.variant = "Classic"]
Strips == [Plain EXCEPT !.by = "3d", !.tiled = FALSE, !.width = 1, !.height = 300,
                        !.bands = 2, !.planar = TRUE, !.sparse = FALSE]
OneStrip == [Strips EXCEPT !.height = 5, !.nodata = TRUE]
Refused == [Plain EXCEPT !.tileWidth = 15]

AllRasters ==
  {Refused, [Chunky EXCEPT !.by = "2d", !.nodata = FALSE]} \cup {[r EXCEPT !.by = how] : r \in {Plain, Planar, Chunky}, how \in {"2d", "3d", "tiles"}}
    \cup {[r EXCEPT !.by = how] : r \in {Strips, OneStrip, [OneStrip EXCEPT !.sparse = TRUE]},
                                  how \in {"2d", "3d"}}
AllBuilders == {BuilderOf(r) : r \in AllRasters}
Sinks      == {[pos |-> 0, len |-> 0], [pos |-> 1, len |-> 30], [pos |-> 0, len |-> 191]}
===============================================================================
