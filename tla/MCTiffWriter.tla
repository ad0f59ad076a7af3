----------------------------- MODULE MCTiffWriter -----------------------------
(* Small instances of TiffWriter.  Sizes are the real ones: a classic IFD of  *)
(* one strip is 126 bytes, a BigTIFF one 216, so a limit of a few hundred     *)
(* bytes puts every boundary of the 4 GiB limit within reach.                 *)
EXTENDS TiffWriter

Image == [width |-> 1, height |-> 1, spp |-> 1, bits |-> 8, planar |-> FALSE,
          layout |-> "strips", blockWidth |-> 0, blockHeight |-> 1,
          overview |-> FALSE, extra |-> <<>>]

OneStrip  == Image
TwoStrips == [Image EXCEPT !.height = 3, !.blockHeight = 2]
Planes    == [Image EXCEPT !.planar = TRUE, !.spp = 2]
Tiles     == [Image EXCEPT !.layout = "tiles", !.width = 17, !.blockWidth = 16,
                           !.blockHeight = 16]
Tagged    == [Image EXCEPT !.overview = TRUE,
                           !.extra = <<[code |-> 33550, len |-> 24],
                                       [code |-> 33922, len |-> 47]>>]

\* Configurations add_image must refuse.
NoRows    == [Image EXCEPT !.blockHeight = 0]
Repeated  == [Image EXCEPT !.extra = <<[code |-> 700, len |-> 1],
                                       [code |-> 700, len |-> 1]>>]
Managing  == [Image EXCEPT !.extra = <<[code |-> 273, len |-> 4]>>]

FaultVariants == {"Classic", "BigTiff", "Auto"}
FaultBuilders == {OneStrip, TwoStrips, NoRows}
FaultSinks    == {[pos |-> 2, len |-> 24]}

LayoutBuilders == {OneStrip, Planes, Tiles, Tagged, Repeated, Managing}
LayoutVariants == {"Classic", "BigTiff", "Auto"}
LayoutSinks    == {[pos |-> 0, len |-> n] : n \in {0, 274}}
===============================================================================
