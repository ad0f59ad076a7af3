--------------------------- MODULE MCBlockPipeline ---------------------------
(* Small images whose rows end inside a byte, whose blocks end outside the    *)
(* image, and whose bytes look like a leader or a trailer.                    *)
EXTENDS BlockPipeline

Plain == [width |-> 5, height |-> 4, spp |-> 1, bits |-> 8, planar |-> FALSE, tiled |-> FALSE,
          blockWidth |-> 1, blockHeight |-> 2, predictor |-> "none", compression |-> "none",
          bigEndian |-> FALSE, units |-> <<1, 1>>, padBits |-> 0, ghost |-> FALSE,
          trailer |-> FALSE, wrapped |-> FALSE, sparse |-> {}, pattern |-> "ramp"]
Tiled(img) == [img EXCEPT !.tiled = TRUE, !.blockWidth = 4]

Layouts ==
  {[Plain EXCEPT !.spp = 3],
   [Plain EXCEPT !.spp = 2, !.planar = TRUE, !.blockHeight = 4],
   Tiled([Plain EXCEPT !.spp = 2, !.planar = TRUE, !.height = 3]),
   Tiled([Plain EXCEPT !.spp = 2, !.height = 3, !.sparse = {1}])}

Predicted ==
  {Tiled([Plain EXCEPT !.spp = 2, !.bits = 16, !.predictor = "horizontal", !.pattern = "edge"]),
   [Plain EXCEPT !.spp = 2, !.bits = 16, !.predictor = "horizontal", !.planar = TRUE,
                 !.bigEndian = TRUE],
   [Plain EXCEPT !.spp = 3, !.predictor = "horizontal", !.blockHeight = 4],
   [Plain EXCEPT !.spp = 2, !.bits = 32, !.predictor = "float"],
   [Plain EXCEPT !.width = 3, !.bits = 32, !.predictor = "float", !.bigEndian = TRUE,
                 !.compression = "packbits"]}

Packed ==
  {[Plain EXCEPT !.width = 11, !.bits = 1, !.padBits = 1],
   [Plain EXCEPT !.width = 11, !.bits = 1, !.padBits = 1, !.blockHeight = 4],
   [Plain EXCEPT !.spp = 3, !.bits = 2, !.padBits = 1, !.compression = "packbits"],
   [Plain EXCEPT !.spp = 2, !.bits = 4, !.planar = TRUE, !.padBits = 1, !.sparse = {2}],
   Tiled([Plain EXCEPT !.bits = 4, !.padBits = 1]),
   [Plain EXCEPT !.bits = 4, !.pattern = "wide"]}

Chroma ==
  {[Plain EXCEPT !.spp = 3, !.units = <<2, 2>>, !.height = 3],
   Tiled([Plain EXCEPT !.spp = 3, !.units = <<4, 1>>, !.height = 3])}

Framed ==
  {[Plain EXCEPT !.ghost = TRUE, !.trailer = trailer, !.wrapped = wrapped,
                 !.compression = compression, !.pattern = pattern, !.bigEndian = bigEndian] :
     trailer \in BOOLEAN, wrapped \in BOOLEAN, compression \in {"none", "packbits"},
     pattern \in {"ramp", "flat"}, bigEndian \in BOOLEAN}

AllImages == Layouts \cup Predicted \cup Packed \cup Chroma \cup Framed

AllWindows ==
  {[row |-> row, col |-> col, rows |-> rows, cols |-> cols] :
     row \in {0, 1}, col \in {0, 1, 2, 4}, rows \in {1, 2, 3}, cols \in {0, 1, 2, 4, 9}}
  \cup {[row |-> 0, col |-> 0, rows |-> 4, cols |-> 5],
        [row |-> 0, col |-> 0, rows |-> 4, cols |-> 11],
        [row |-> 1, col |-> 4, rows |-> 2, cols |-> 1],
        [row |-> 1, col |-> 8, rows |-> 2, cols |-> 3],
        [row |-> 2, col |-> 0, rows |-> 2, cols |-> 8]}

\* For the runs that contradict a comment.
Unframed == {img \in Framed : ~img.wrapped}
WholeWindow == {[row |-> 0, col |-> 0, rows |-> 4, cols |-> 5]}
OddRows == {[Plain EXCEPT !.bits = 4, !.padBits = 1, !.blockHeight = height] : height \in {2, 4}}
=============================================================================
