----------------------------- MODULE MCCogWriter -----------------------------
(* Small COGs: a base image of one to four tiles of 16 x 16 with at most three*)
(* overviews.  Sizes are the real ones.                                       *)
EXTENDS CogWriter

Base == [variant |-> "Auto", width |-> 17, height |-> 16, bands |-> 1, planar |-> FALSE,
         tileWidth |-> 16, tileHeight |-> 16, tags |-> <<>>, levels |-> <<2>>,
         subIfds |-> FALSE, average |-> TRUE, sparse |-> TRUE, nodata |-> FALSE, lens |-> {3}]

\* GDAL_NODATA, an ASCII value of odd length.
Nodata == [code |-> 42113, len |-> 5]

\* Two levels, given out of order, over three tiles in a column, in a row, and four.
Column == [Base EXCEPT !.width = 16, !.height = 33, !.average = FALSE, !.levels = <<4, 2, 2>>,
                       !.nodata = TRUE, !.tags = <<Nodata>>, !.lens = {5}]
InRow  == [Column EXCEPT !.width = 33, !.height = 16, !.average = TRUE]
Four   == [Column EXCEPT !.width = 17, !.height = 17]
InSubIfds == [Base EXCEPT !.subIfds = TRUE, !.variant = "BigTiff", !.levels = <<3, 2>>]
Lone      == [Base EXCEPT !.width = 16, !.levels = <<>>, !.sparse = FALSE,
                       !.lens = {3, 5}]
Planar    == [Base EXCEPT !.planar = TRUE, !.bands = 2, !.sparse = FALSE, !.nodata = TRUE]
OneSub    == [Base EXCEPT !.subIfds = TRUE]
BadLevel  == [Base EXCEPT !.levels = <<1>>]

\* In both variants, with a deferred value at the end of each IFD.
Limited == {[c EXCEPT !.variant = v, !.tags = <<Nodata>>] : c \in {Base, OneSub}, v \in {"Classic", "Auto"}}

AllCogs    == Limited \cup {InSubIfds, Lone, Planar, BadLevel, Column, InRow, Four}
Sinks      == {[pos |-> 0, len |-> 0], [pos |-> 11, len |-> 11]}
AtStart    == {[pos |-> 0, len |-> 0]}

\* A sink that holds more bytes than the layout in front of the data takes.
LongSink   == {[pos |-> 0, len |-> 2000]}
JustLone   == {Lone}
JustPlanar == {Planar}
JustColumn == {Column}
===============================================================================
