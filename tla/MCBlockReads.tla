----------------------------- MODULE MCBlockReads -----------------------------
(* Small files for BlockReads: images of three rows in blocks of two rows or  *)
(* of all three, whose rows take one byte in the file and, where samples are  *)
(* narrower than a byte, two bytes when unpacked.                             *)
EXTENDS BlockReads

Strips == [ifd |-> 1, kind |-> "Strip", height |-> 3, blockHeight |-> 2, planes |-> 1,
           verbatim |-> FALSE, diskRow |-> 1, row |-> 2, bytes |-> (0 :> 2 @@ 1 :> 9),
           unset |-> {}]
Tiles  == [Strips EXCEPT !.ifd = 2, !.kind = "Tile", !.row = 1, !.planes = 2,
           !.bytes = (0 :> 2 @@ 1 :> 2 @@ 2 :> 2 @@ 3 :> 0)]
Giant  == [Strips EXCEPT !.ifd = 3, !.blockHeight = 3, !.verbatim = TRUE,
           !.bytes = (0 :> 3)]
Hole   == [Giant EXCEPT !.ifd = 4, !.unset = {0}]
\* Declared byte counts that are too small, and too large.
Short  == [Giant EXCEPT !.ifd = 5, !.bytes = (0 :> 2)]
Long   == [Giant EXCEPT !.ifd = 6, !.bytes = (0 :> 4)]
\* An array that lacks a strip, and strips that unpack to more than the budget.
Lacking == [Strips EXCEPT !.ifd = 7, !.bytes = (0 :> 2)]
Wide    == [Strips EXCEPT !.ifd = 8, !.row = 4]

Read(img, off, rows, packed) ==
  [image |-> img, off |-> off, rows |-> rows, packed |-> packed, planes |-> 0..(img.planes - 1)]

SomeImages   == {Strips, Tiles, Giant, Hole, Short, Long, Lacking, Wide}
SomeRequests ==
  {Read(img, 0, 1, FALSE) : img \in SomeImages \ {Tiles}}
  \cup {Read(img, 1, 2, TRUE) : img \in {Giant, Short}}
  \cup {Read(img, 0, 3, FALSE) : img \in {Giant, Strips, Short}}
  \cup {Read(Strips, 1, 1, TRUE), [Read(Tiles, 1, 2, FALSE) EXCEPT !.planes = {1}],
        Read(Tiles, 0, 1, FALSE)}
===============================================================================
