--------------------------- MODULE BlockReadsProofs ---------------------------
(***************************************************************************)
(* Window reads over a shared cache, for any number of callers, images of  *)
(* any geometry and caches of any size: reads that succeed are exact, no   *)
(* task panics, the outcome of a call is determined by the file and the    *)
(* request, and the cache keeps its limits and evicts only for want of     *)
(* room, in the order of use.                                              *)
(***************************************************************************)
EXTENDS BlockReads, SharedLemmas

----------------------------------------------------------------------------
\* What the assumptions say of one request.
LEMMA RequestFacts ==
  ASSUME NEW r \in Requests
  PROVE  /\ r.image \in Images /\ r.off \in Nat /\ r.rows \in Nat \ {0}
         /\ r.off + r.rows <= r.image.height
         /\ r.image.kind \in {"Strip", "Tile"}
         /\ r.image.height \in Nat \ {0} /\ r.image.blockHeight \in Nat \ {0}
         /\ r.image.planes \in Nat \ {0}
         /\ r.image.diskRow \in Nat \ {0} /\ r.image.row \in Nat \ {0}
         /\ r.planes \subseteq 0..(r.image.planes - 1)
<1>1. IsRequest(r)
  BY ReadsAssumption
<1>2. r.image \in Images
  BY <1>1 DEF IsRequest
<1>3. IsImage(r.image)
  BY <1>2, ReadsAssumption
<1> QED BY <1>1, <1>2, <1>3 DEF IsRequest, IsImage

LEMMA PerPlaneType ==
  ASSUME NEW r \in Requests
  PROVE  PerPlane(r.image) \in Nat
<1>1. r.image.height + r.image.blockHeight - 1 \in Nat
  BY RequestFacts
<1> QED BY <1>1, RequestFacts, Quotient DEF PerPlane, CeilDiv

\* A spec is the k-th block of a plane, and that block lies in the image.
Names(r, spec, plane, k) ==
  /\ plane \in r.planes /\ k \in Nat /\ k < PerPlane(r.image)
  /\ spec = BlockSpec(r.image, plane, k)

LEMMA SpecNamed ==
  ASSUME NEW r \in Requests, NEW spec \in SpecsFor(r)
  PROVE  \E plane, k : Names(r, spec, plane, k)
<1> DEFINE first == r.off \div r.image.blockHeight
           reach == CeilDiv(r.off + r.rows, r.image.blockHeight)
           end == Least(reach, PerPlane(r.image))
<1>1. first \in Nat
  BY RequestFacts, Quotient
<1>2. reach \in Int
  <2>1. (r.off + r.rows) + r.image.blockHeight - 1 \in Nat
    BY RequestFacts
  <2> QED BY <2>1, RequestFacts, Quotient DEF CeilDiv
<1>3. PICK plane \in r.planes, k \in first..(end - 1) : spec = BlockSpec(r.image, plane, k)
  BY DEF SpecsFor
<1> HIDE DEF first, reach
<1>4. end \in Int /\ end <= PerPlane(r.image)
  BY <1>2, PerPlaneType DEF Least
<1> HIDE DEF end
<1>5. k \in Nat /\ k < PerPlane(r.image)
  BY <1>1, <1>3, <1>4, PerPlaneType
<1> QED BY <1>3, <1>5 DEF Names

LEMMA NamedFacts ==
  ASSUME NEW r \in Requests, NEW spec, NEW plane, NEW k, Names(r, spec, plane, k)
  PROVE  /\ plane \in r.planes /\ plane \in Nat /\ k \in Nat /\ k < PerPlane(r.image)
         /\ spec.index = plane * PerPlane(r.image) + k /\ spec.index \in Nat
         /\ spec.plane = plane
         /\ spec.start = k * r.image.blockHeight /\ spec.start \in Nat
         /\ spec.start < r.image.height
         /\ spec.rows = Least(r.image.blockHeight, r.image.height - spec.start)
         /\ spec.rows \in Nat \ {0} /\ spec.rows <= r.image.blockHeight
         /\ spec.start + spec.rows <= r.image.height
         /\ spec.decoded \in Nat \ {0} /\ spec.rows <= spec.decoded
         /\ r.image.kind = "Strip" => spec.decoded = spec.rows
<1> DEFINE img == r.image
           h == img.height
           b == img.blockHeight
<1>1. h \in Nat \ {0} /\ b \in Nat \ {0} /\ PerPlane(img) \in Nat
  BY RequestFacts, PerPlaneType
<1>2. plane \in Nat /\ k \in Nat /\ k < PerPlane(img)
  BY RequestFacts DEF Names
<1>9. plane \in r.planes
  BY DEF Names
<1>3. k * b < h /\ k * b \in Nat
  <2>1. k < (h + b - 1) \div b
    BY <1>2 DEF PerPlane, CeilDiv
  <2>2. k * b < h
    BY <1>1, <1>2, <2>1, RoundedUpCounts
  <2> QED BY <1>1, <1>2, <2>2
<1>4. /\ spec.index = plane * PerPlane(img) + k /\ spec.plane = plane
      /\ spec.start = k * b
      /\ spec.rows = Least(b, h - spec.start)
      /\ spec.decoded = IF img.kind = "Tile" THEN b ELSE spec.rows
  BY DEF Names, BlockSpec
<1>5. spec.index \in Nat
  <2>1. plane * PerPlane(img) \in Nat
    BY <1>1, <1>2
  <2> QED BY <1>2, <1>4, <2>1
<1> HIDE DEF h, b
<1>6. /\ spec.rows \in Nat \ {0} /\ spec.rows <= b /\ spec.start + spec.rows <= h
  <2> DEFINE at == k * b
  <2> HIDE DEF at
  <2>1. at \in Nat /\ at < h /\ spec.start = at
    BY <1>3, <1>4 DEF at
  <2>2. spec.rows = Least(b, h - at)
    BY <1>4, <2>1
  <2> QED BY <1>1, <2>1, <2>2 DEF Least
<1>7. spec.decoded \in Nat \ {0} /\ spec.rows <= spec.decoded
  BY <1>1, <1>4, <1>6
<1>8. img.kind = "Strip" => spec.decoded = spec.rows
  BY <1>4
<1> QED BY <1>2, <1>3, <1>4, <1>5, <1>6, <1>7, <1>8, <1>9 DEF h, b

\* Blocks of one image with the same index are the same block.
LEMMA IndexNames ==
  ASSUME NEW p1 \in Nat, NEW k1 \in Nat, NEW p2 \in Nat, NEW k2 \in Nat, NEW n \in Nat,
         k1 < n, k2 < n, p1 * n + k1 = p2 * n + k2
  PROVE  p1 = p2 /\ k1 = k2
<1>0. p1 * n \in Nat /\ p2 * n \in Nat
  OBVIOUS
<1>1. ~(p1 < p2)
  <2> SUFFICES ASSUME p1 < p2 PROVE FALSE
    OBVIOUS
  <2>1. p1 * n + n <= p2 * n
    BY Multiples
  <2> QED BY <1>0, <2>1
<1>2. ~(p2 < p1)
  <2> SUFFICES ASSUME p2 < p1 PROVE FALSE
    OBVIOUS
  <2>1. p2 * n + n <= p1 * n
    BY Multiples
  <2> QED BY <1>0, <2>1
<1>3. p1 = p2
  BY <1>1, <1>2
<1> QED BY <1>0, <1>3

LEMMA KeyTells ==
  ASSUME NEW r \in Requests, NEW spec \in SpecsFor(r),
         NEW q \in Requests, NEW other \in SpecsFor(q), Key(q, other) = Key(r, spec)
  PROVE  /\ q.image = r.image /\ q.packed = r.packed /\ other = spec
<1>1. q.image.ifd = r.image.ifd /\ other.index = spec.index /\ q.packed = r.packed
  BY DEF Key
<1>2. q.image = r.image
  BY <1>1, RequestFacts, ReadsAssumption
<1>3. PICK p1, k1 : Names(r, spec, p1, k1)
  BY SpecNamed
<1>4. PICK p2, k2 : Names(q, other, p2, k2)
  BY SpecNamed
<1> DEFINE n == PerPlane(r.image)
<1>5. p1 \in Nat /\ k1 \in Nat /\ k1 < n /\ p1 * n + k1 = spec.index
  BY <1>3, NamedFacts
<1>6. p2 \in Nat /\ k2 \in Nat /\ k2 < n /\ p2 * n + k2 = other.index
  BY <1>2, <1>4, NamedFacts
<1>7. n \in Nat
  BY PerPlaneType
<1> HIDE DEF n
<1>8. p1 = p2 /\ k1 = k2
  BY <1>1, <1>5, <1>6, <1>7, IndexNames
<1>9. other = spec
  BY <1>2, <1>3, <1>4, <1>8 DEF Names
<1> QED BY <1>1, <1>2, <1>9

----------------------------------------------------------------------------
\* The rows of the window a task copies, and the block it copies them from.
From(r, spec) == CopySpec(r, spec).start
Rows(r, spec) ==
  Most(From(r, spec), r.off)
    ..(Least(From(r, spec) + CopySpec(r, spec).rows, r.off + r.rows) - 1)
BlockFor(r, spec) == IF Bounded(r, spec) THEN RowsOnly(r, spec) ELSE Whole(r, spec)

\* In either form of block these are the rows of the window that lie in the spec's.
LEMMA RowsAre ==
  ASSUME NEW r \in Requests, NEW spec \in SpecsFor(r)
  PROVE  \A row \in Int :
           row \in Rows(r, spec) <=> /\ spec.start <= row /\ row < spec.start + spec.rows
                                    /\ r.off <= row /\ row < r.off + r.rows
<1>1. PICK plane, k : Names(r, spec, plane, k)
  BY SpecNamed
<1>2. spec.start \in Nat /\ spec.rows \in Nat /\ r.off \in Nat /\ r.rows \in Nat
  BY <1>1, NamedFacts, RequestFacts
<1>3. CASE Bounded(r, spec)
  <2>1. CopySpec(r, spec) = Clipped(r, spec)
    BY <1>3 DEF CopySpec
  <2>2. spec = BlockSpec(r.image, plane, k)
    BY <1>1 DEF Names
  <2>3. Clipped(r, spec).start = ClipStart(r, spec) /\ Clipped(r, spec).rows = ClipRows(r, spec)
    BY <2>2 DEF Clipped, BlockSpec
  <2>4. From(r, spec) = ClipStart(r, spec) /\ CopySpec(r, spec).rows = ClipRows(r, spec)
    BY <2>1, <2>3 DEF From
  <2> QED BY <1>2, <2>4 DEF Rows, ClipStart, ClipRows, Most, Least
<1>4. CASE ~Bounded(r, spec)
  <2>1. From(r, spec) = spec.start /\ CopySpec(r, spec).rows = spec.rows
    BY <1>4 DEF CopySpec, From
  <2> QED BY <1>2, <2>1 DEF Rows, Most, Least
<1> QED BY <1>3, <1>4

\* A copied row lies within its block, and is the row the image has there.
LEMMA CopiedRow ==
  ASSUME NEW r \in Requests, NEW spec \in SpecsFor(r), NEW row \in Rows(r, spec)
  PROVE  /\ row - From(r, spec) < BlockFor(r, spec).rows
         /\ RowOf(BlockFor(r, spec), row - From(r, spec)) = Expected(r, <<spec.plane, row>>)
<1>1. PICK plane, k : Names(r, spec, plane, k)
  BY SpecNamed
<1> DEFINE b == r.image.blockHeight
<1>2. /\ spec.start \in Nat /\ spec.rows \in Nat /\ spec.decoded \in Nat
      /\ spec.rows <= spec.decoded /\ spec.rows <= b /\ spec.plane = plane
      /\ spec.start = k * b /\ k \in Nat /\ b \in Nat \ {0}
      /\ r.off \in Nat /\ r.rows \in Nat
  BY <1>1, NamedFacts, RequestFacts
<1>3. row \in Int
  BY DEF Rows
<1>4. /\ spec.start <= row /\ row < spec.start + spec.rows
      /\ r.off <= row /\ row < r.off + r.rows
  BY <1>3, RowsAre
<1>5. row \div b = k
  <2>1. row \in Nat /\ k * b <= row /\ row < k * b + b
    BY <1>2, <1>3, <1>4
  <2> HIDE DEF b
  <2> QED BY <1>2, <2>1, QuotientIs
<1>6. spec = BlockSpec(r.image, plane, k)
  BY <1>1 DEF Names
<1>7. Expected(r, <<spec.plane, row>>) =
        [ifd |-> r.image.ifd, index |-> spec.index, row |-> row - spec.start,
         packed |-> r.packed, zero |-> IsSparse(r.image, spec)]
  BY <1>2, <1>5, <1>6 DEF Expected
<1>8. CASE Bounded(r, spec)
  <2>1. CopySpec(r, spec) = Clipped(r, spec)
    BY <1>8 DEF CopySpec
  <2>2. Clipped(r, spec).start = ClipStart(r, spec)
    BY <1>6 DEF Clipped, BlockSpec
  <2>3. From(r, spec) = ClipStart(r, spec)
    BY <2>1, <2>2 DEF From
  <2>4. /\ ClipStart(r, spec) \in Nat /\ ClipRows(r, spec) \in Int
        /\ row - ClipStart(r, spec) < ClipRows(r, spec)
    BY <1>2, <1>3, <1>4 DEF ClipStart, ClipRows, Most, Least
  <2>5. BlockFor(r, spec) =
          [ifd |-> r.image.ifd, index |-> spec.index, first |-> ClipStart(r, spec) - spec.start,
           rows |-> ClipRows(r, spec), packed |-> r.packed, zero |-> IsSparse(r.image, spec)]
    BY <1>8 DEF BlockFor, RowsOnly, Block
  <2>6. (ClipStart(r, spec) - spec.start) + (row - ClipStart(r, spec)) = row - spec.start
    BY <1>2, <1>3, <2>4
  <2> QED BY <1>7, <2>3, <2>4, <2>5, <2>6 DEF RowOf
<1>9. CASE ~Bounded(r, spec)
  <2>1. From(r, spec) = spec.start
    BY <1>9 DEF CopySpec, From
  <2>2. BlockFor(r, spec) =
          [ifd |-> r.image.ifd, index |-> spec.index, first |-> 0,
           rows |-> spec.decoded, packed |-> r.packed, zero |-> IsSparse(r.image, spec)]
    BY <1>9 DEF BlockFor, Whole, Block
  <2>3. row - spec.start < spec.decoded /\ 0 + (row - spec.start) = row - spec.start
    BY <1>2, <1>3, <1>4
  <2> QED BY <1>7, <2>1, <2>2, <2>3 DEF RowOf
<1> QED BY <1>8, <1>9

\* Every cell of the output is in the rows of one of the tasks.
LEMMA CellsCovered ==
  ASSUME NEW r \in Requests, NEW cell \in Cells(r)
  PROVE  \E spec \in SpecsFor(r) : spec.plane = cell[1] /\ cell[2] \in Rows(r, spec)
<1> DEFINE b == r.image.blockHeight
           h == r.image.height
           row == cell[2]
           k == row \div b
           first == r.off \div b
           reach == CeilDiv(r.off + r.rows, b)
           end == Least(reach, PerPlane(r.image))
           spec == BlockSpec(r.image, cell[1], k)
<1>1. /\ b \in Nat \ {0} /\ h \in Nat \ {0} /\ r.off \in Nat /\ r.rows \in Nat \ {0}
      /\ r.off + r.rows <= h /\ PerPlane(r.image) \in Nat
  BY RequestFacts, PerPlaneType
<1>2. cell[1] \in r.planes /\ row \in r.off..(r.off + r.rows - 1) /\ cell = <<cell[1], row>>
  BY DEF Cells
<1> HIDE DEF b, h, row
<1>3. row \in Nat /\ r.off <= row /\ row < r.off + r.rows /\ row < h
  BY <1>1, <1>2
<1>4. k \in Nat /\ k * b <= row /\ row < k * b + b /\ k * b \in Nat
  BY <1>1, <1>3, Quotient
<1>5. first <= k /\ first \in Nat
  BY <1>1, <1>3, QuotientGrows, Quotient
<1>6. k < reach
  <2>1. r.off + r.rows \in Nat /\ k * b < r.off + r.rows
    BY <1>1, <1>3, <1>4
  <2> HIDE DEF k
  <2> QED BY <1>1, <1>4, <2>1, RoundedUpCounts DEF CeilDiv
<1>7. k < PerPlane(r.image)
  <2>1. k * b < h
    BY <1>1, <1>3, <1>4
  <2> HIDE DEF k
  <2>2. k < (h + b - 1) \div b
    BY <1>1, <1>4, <2>1, RoundedUpCounts
  <2> QED BY <2>2 DEF PerPlane, CeilDiv, h, b
<1>8. reach \in Int
  <2>1. (r.off + r.rows) + b - 1 \in Nat
    BY <1>1
  <2> QED BY <1>1, <2>1, Quotient DEF CeilDiv
<1> HIDE DEF k, first, reach
<1>9. k \in first..(end - 1)
  BY <1>1, <1>4, <1>5, <1>6, <1>7, <1>8 DEF Least
<1>10. spec \in SpecsFor(r)
  BY <1>2, <1>9 DEF SpecsFor, first, reach, b
<1>11. Names(r, spec, cell[1], k)
  BY <1>2, <1>4, <1>7 DEF Names
<1> HIDE DEF spec
<1>12. /\ spec.plane = cell[1] /\ spec.start = k * b /\ spec.start \in Nat
       /\ spec.rows = Least(b, h - spec.start)
  BY <1>11, NamedFacts DEF b, h
<1>13. spec.start <= row /\ row < spec.start + spec.rows
  <2> DEFINE at == spec.start
  <2>1. at \in Nat /\ at <= row /\ row < at + b
    BY <1>4, <1>12
  <2> HIDE DEF at
  <2>2. row < at + Least(b, h - at)
    BY <1>1, <1>3, <2>1 DEF Least
  <2> QED BY <1>12, <2>1, <2>2 DEF at
<1>14. row \in Rows(r, spec)
  BY <1>3, <1>10, <1>13, RowsAre
<1> QED BY <1>10, <1>12, <1>14 DEF row

----------------------------------------------------------------------------
(***************************************************************************)
(* The inductive invariant.  A task holds the right block for its stage,   *)
(* has passed the checks that stage comes after, and once done its rows    *)
(* are in the output; the cache holds whole blocks that could be decoded.  *)
(***************************************************************************)
Right(r, spec, out) ==
  \A cell \in Cells(r) :
    cell[1] = spec.plane /\ cell[2] \in Rows(r, spec) => out[cell] = Expected(r, cell)

TaskOK(r, spec, task, out, f) ==
  /\ task.stage \in {"todo", "fetchRows", "fetch", "insert", "copy", "done", "failed"}
  /\ task.stage = "fetchRows" => Bounded(r, spec)
  /\ task.stage = "fetch" =>
       /\ ~Bounded(r, spec) /\ ~IsSparse(r.image, spec)
       /\ DecodedLen(r, spec.decoded) <= Budget
       /\ ~(Eligible(r, spec) /\ r.image.bytes[spec.index] > ByteCountLimit(r.image, spec.rows))
  /\ task.stage = "insert" =>
       ~Bounded(r, spec) /\ task.block = Whole(r, spec) /\ ~Undecodable(r, spec)
  /\ task.stage = "copy" => task.block = BlockFor(r, spec)
  /\ task.stage \in {"fetchRows", "insert", "copy", "done"} => Readable(r, spec)
  /\ task.stage = "done" => Right(r, spec, out)
  /\ task.stage = "failed" => f # 0 \/ ~Readable(r, spec)

\* A call that has tasks: one that runs, or did.
Full(x, f) ==
  /\ x = [status |-> x.status, request |-> x.request, tasks |-> x.tasks, output |-> x.output]
  /\ x.status \in {"running", "ok", "failed"} /\ x.request \in Requests
  /\ x.tasks = [spec \in SpecsFor(x.request) |-> x.tasks[spec]]
  /\ x.output = [cell \in Cells(x.request) |-> x.output[cell]]
  /\ \A spec \in SpecsFor(x.request) : TaskOK(x.request, spec, x.tasks[spec], x.output, f)
  /\ x.status = "ok" => \A spec \in SpecsFor(x.request) : x.tasks[spec].stage = "done"
  /\ x.status = "failed" => \E spec \in SpecsFor(x.request) : x.tasks[spec].stage = "failed"

CallOK(x, f) ==
  \/ x.status = "idle"
  \/ x.status = "refused"
  \/ Full(x, f)

CallsOK(cs, f) == cs = [c \in Callers |-> cs[c]] /\ \A c \in Callers : CallOK(cs[c], f)

Blocks ==
  UNION {{Entry(Key(r, spec), Whole(r, spec), DecodedLen(r, spec.decoded)) :
            spec \in {s \in SpecsFor(r) : ~Undecodable(r, s)}} : r \in Requests}

CacheOK(c) == c \in Caches(Blocks) /\ WithinLimits(c)

ReadsInv == CallsOK(calls, faults) /\ faults \in Nat /\ CacheOK(cache)

----------------------------------------------------------------------------
LEMMA DecodedLenType ==
  ASSUME NEW r \in Requests, NEW n \in Nat
  PROVE  DecodedLen(r, n) \in Nat
<1>1. RowLen(r) \in Nat
  BY RequestFacts DEF RowLen
<1> HIDE DEF RowLen
<1> QED BY <1>1 DEF DecodedLen

LEMMA BlocksSized == Sized(Blocks)
<1> SUFFICES ASSUME NEW r \in Requests, NEW spec \in SpecsFor(r)
             PROVE  Entry(Key(r, spec), Whole(r, spec), DecodedLen(r, spec.decoded)).size \in Nat
  BY DEF Sized, Blocks
<1>1. spec.decoded \in Nat
  BY SpecNamed, NamedFacts
<1> QED BY <1>1, DecodedLenType DEF Entry

\* What a task finds under its key is its block.
LEMMA HitIsWhole ==
  ASSUME CacheOK(cache), NEW r \in Requests, NEW spec \in SpecsFor(r),
         NEW hit \in Hits(cache, Key(r, spec))
  PROVE  hit.value = Whole(r, spec) /\ ~Undecodable(r, spec)
<1>1. hit \in Blocks /\ hit.key = Key(r, spec)
  BY HitsHeld DEF CacheOK
<1>2. PICK q \in Requests : \E other \in SpecsFor(q) :
        /\ hit = Entry(Key(q, other), Whole(q, other), DecodedLen(q, other.decoded))
        /\ ~Undecodable(q, other)
  BY <1>1 DEF Blocks
<1>6. PICK other \in SpecsFor(q) :
        /\ hit = Entry(Key(q, other), Whole(q, other), DecodedLen(q, other.decoded))
        /\ ~Undecodable(q, other)
  BY <1>2
<1>3. Key(q, other) = Key(r, spec) /\ hit.value = Whole(q, other)
  BY <1>1, <1>6 DEF Entry
<1>4. q.image = r.image /\ q.packed = r.packed /\ other = spec
  BY <1>3, KeyTells
<1>5. Whole(q, other) = Whole(r, spec) /\ (Undecodable(q, other) <=> Undecodable(r, spec))
  BY <1>4 DEF Whole, Block, Undecodable
<1> QED BY <1>3, <1>5, <1>6

\* Errors of the source can only excuse more.
LEMMA MoreFaults ==
  ASSUME NEW x, NEW f \in Nat, CallOK(x, f)
  PROVE  CallOK(x, f + 1)
<1>1. CASE Full(x, f)
  <2>1. \A spec \in SpecsFor(x.request) : TaskOK(x.request, spec, x.tasks[spec], x.output, f + 1)
    BY <1>1 DEF Full, TaskOK
  <2>2. Full(x, f + 1)
    BY <1>1, <2>1 DEF Full
  <2> QED BY <2>2 DEF CallOK
<1> QED BY <1>1 DEF CallOK

LEMMA RunningIsFull ==
  ASSUME CallsOK(calls, faults), NEW c \in Callers, Running(c)
  PROVE  Full(calls[c], faults) /\ TasksOf(c) = SpecsFor(calls[c].request)
<1>1. Full(calls[c], faults)
  BY DEF CallsOK, CallOK, Running
<1>2. DOMAIN calls[c].tasks = SpecsFor(calls[c].request)
  BY <1>1 DEF Full
<1> QED BY <1>1, <1>2 DEF TasksOf

(***************************************************************************)
(* A task that goes on to another stage, short of done, keeps the calls as *)
(* they should be if it is as it should be.                                *)
(***************************************************************************)
LEMMA TaskGoesOn ==
  ASSUME CallsOK(calls, faults), faults \in Nat, NEW c \in Callers, Running(c),
         NEW spec \in TasksOf(c), NEW stage, NEW block, NEW f \in {faults, faults + 1},
         TaskOK(calls[c].request, spec, [stage |-> stage, block |-> block],
                calls[c].output, f),
         SetTask(c, spec, stage, block)
  PROVE  CallsOK(calls', f)
<1> DEFINE x == calls[c]
           r == x.request
           task == [stage |-> stage, block |-> block]
           ts == [x.tasks EXCEPT ![spec] = task]
           y == [status |-> "running", request |-> r, tasks |-> ts, output |-> x.output]
<1>1. /\ Full(x, faults) /\ spec \in SpecsFor(r)
      /\ x = [status |-> "running", request |-> r, tasks |-> x.tasks, output |-> x.output]
      /\ x.tasks = [s \in SpecsFor(r) |-> x.tasks[s]]
  BY RunningIsFull DEF Full, Running
<1>2. calls' = [calls EXCEPT ![c] = y]
  <2>1. calls' = [calls EXCEPT ![c] = [calls[c] EXCEPT !.tasks = ts]]
    BY DEF SetTask
  <2>2. [calls[c] EXCEPT !.tasks = ts] = y
    <3> DEFINE new == ts
               old == x.tasks
               out == x.output
    <3>1. calls[c] = [status |-> "running", request |-> r, tasks |-> old, output |-> out]
      BY <1>1
    <3> HIDE DEF new, r, old, out
    <3>2. [calls[c] EXCEPT !.tasks = new]
            = [status |-> "running", request |-> r, tasks |-> new, output |-> out]
      BY <3>1
    <3> QED BY <3>2 DEF new, out
  <2> QED BY <2>1, <2>2
<1>3. \A d \in Callers : CallOK(calls[d], f)
  BY MoreFaults DEF CallsOK
<1>4. \A s \in SpecsFor(r) : TaskOK(r, s, ts[s], x.output, f)
  <2> SUFFICES ASSUME NEW s \in SpecsFor(r) PROVE TaskOK(r, s, ts[s], x.output, f)
    OBVIOUS
  <2>1. CASE s = spec
    <3>1. ts[s] = task
      BY <1>1, <2>1
    <3> QED BY <2>1, <3>1
  <2>2. CASE s # spec
    <3>1. ts[s] = x.tasks[s]
      BY <1>1, <2>2
    <3>2. TaskOK(r, s, x.tasks[s], x.output, faults)
      BY <1>1 DEF Full
    <3>3. f # 0 \/ f = faults
      OBVIOUS
    <3>4. TaskOK(r, s, x.tasks[s], x.output, f)
      BY <3>2, <3>3 DEF TaskOK
    <3> QED BY <3>1, <3>4
  <2> QED BY <2>1, <2>2
<1>5. Full(y, f)
  <2>1. y.tasks = ts /\ y.request = r /\ y.status = "running" /\ y.output = x.output
    OBVIOUS
  <2>2. ts = [s \in SpecsFor(r) |-> ts[s]]
    BY <1>1
  <2>3. x.output = [cell \in Cells(r) |-> x.output[cell]] /\ r \in Requests
    BY <1>1 DEF Full
  <2>4. y = [status |-> y.status, request |-> y.request, tasks |-> y.tasks, output |-> y.output]
    OBVIOUS
  <2> HIDE DEF y, ts, r
  <2> QED BY <1>4, <2>1, <2>2, <2>3, <2>4 DEF Full
<1>6. CallOK(y, f)
  BY <1>5 DEF CallOK
<1> HIDE DEF y
<1>7. calls = [d \in Callers |-> calls[d]]
  BY DEF CallsOK
<1> QED BY <1>2, <1>3, <1>6, <1>7 DEF CallsOK

----------------------------------------------------------------------------
\* One lemma for each action.
LEMMA InitInv == Init => ReadsInv
<1> SUFFICES ASSUME Init PROVE ReadsInv
  OBVIOUS
<1>1. CallsOK(calls, faults)
  BY DEF Init, CallsOK, CallOK, NoCall
<1>2. CacheOK(cache)
  BY BlocksSized, EmptyKeeps DEF Init, CacheOK
<1> QED BY <1>1, <1>2 DEF ReadsInv, Init

LEMMA BeginKeeps ==
  ASSUME ReadsInv, NEW c \in Callers, NEW r \in Requests, Begin(c, r)
  PROVE  ReadsInv'
<1> DEFINE y == IF OutputLen(r) > Budget
                     \/ Cardinality(DOMAIN r.image.bytes) # r.image.planes * PerPlane(r.image)
                THEN [status |-> "refused", request |-> r] ELSE Started(r)
<1>1. calls' = [calls EXCEPT ![c] = y] /\ UNCHANGED <<cache, faults>>
  BY DEF Begin
<1>2. Full(Started(r), faults)
  <2> DEFINE ts == [spec \in SpecsFor(r) |-> Todo]
             out == [cell \in Cells(r) |-> NoRow]
  <2>1. Started(r) = [status |-> "running", request |-> r, tasks |-> ts, output |-> out]
    BY DEF Started
  <2>2. ts = [spec \in SpecsFor(r) |-> ts[spec]] /\ out = [cell \in Cells(r) |-> out[cell]]
    OBVIOUS
  <2>3. \A spec \in SpecsFor(r) : TaskOK(r, spec, ts[spec], out, faults)
    BY DEF TaskOK, Todo
  <2> HIDE DEF ts, out
  <2> QED BY <2>1, <2>2, <2>3 DEF Full
<1>3. CallOK(y, faults)
  <2>1. [status |-> "refused", request |-> r].status = "refused"
    OBVIOUS
  <2> QED BY <1>2, <2>1 DEF CallOK
<1> HIDE DEF y
<1>4. CallsOK(calls', faults)
  BY <1>1, <1>3 DEF CallsOK, ReadsInv
<1> QED BY <1>1, <1>4 DEF ReadsInv

LEMMA StartTaskKeeps ==
  ASSUME ReadsInv, NEW c \in Callers, Running(c), NEW spec \in TasksOf(c), StartTask(c, spec)
  PROVE  ReadsInv'
<1> DEFINE r == calls[c].request
           out == calls[c].output
           key == Key(r, spec)
           over == Eligible(r, spec)
                     /\ r.image.bytes[spec.index] > ByteCountLimit(r.image, spec.rows)
<1>1. /\ CallsOK(calls, faults) /\ faults \in Nat /\ CacheOK(cache)
      /\ r \in Requests /\ spec \in SpecsFor(r)
  BY RunningIsFull DEF ReadsInv, Full
<1>2. UNCHANGED faults
  BY DEF StartTask
<1>3. PICK plane, k : Names(r, spec, plane, k)
  BY <1>1, SpecNamed
<1>4. /\ DecodedLen(r, spec.decoded) \in Nat /\ Budget \in Nat
      /\ ClipRows(r, spec) \in Int /\ DecodedLen(r, ClipRows(r, spec)) \in Int
  <2>1. /\ spec.decoded \in Nat /\ spec.start \in Nat /\ spec.rows \in Nat
        /\ r.off \in Nat /\ r.rows \in Nat /\ RowLen(r) \in Nat
    BY <1>1, <1>3, NamedFacts, RequestFacts DEF RowLen
  <2>2. ClipRows(r, spec) \in Int
    BY <2>1 DEF ClipRows, ClipStart, Most, Least
  <2>3. \A m, n \in Int : m * n \in Int
    OBVIOUS
  <2>4. DecodedLen(r, ClipRows(r, spec)) \in Int
    BY <2>1, <2>2, <2>3 DEF DecodedLen
  <2> QED BY <1>1, <2>1, <2>2, <2>4, DecodedLenType, ReadsAssumption
<1> USE <1>1
<1>5. ASSUME over, SetTask(c, spec, "failed", NoBlock), UNCHANGED cache
      PROVE  ReadsInv'
  <2>1. TaskOK(r, spec, [stage |-> "failed", block |-> NoBlock], out, faults)
    BY <1>5 DEF TaskOK, Readable
  <2>2. CallsOK(calls', faults)
    BY <1>5, <2>1, TaskGoesOn
  <2> QED BY <1>2, <1>5, <2>2 DEF ReadsInv
<1>6. ASSUME ~over, Bounded(r, spec), UNCHANGED cache,
             IF DecodedLen(r, ClipRows(r, spec)) > Budget
             THEN SetTask(c, spec, "failed", NoBlock)
             ELSE IF IsSparse(r.image, spec) THEN SetTask(c, spec, "copy", RowsOnly(r, spec))
             ELSE SetTask(c, spec, "fetchRows", NoBlock)
      PROVE  ReadsInv'
  <2>1. CASE DecodedLen(r, ClipRows(r, spec)) > Budget
    <3>1. TaskOK(r, spec, [stage |-> "failed", block |-> NoBlock], out, faults)
      BY <1>4, <1>6, <2>1 DEF TaskOK, Readable
    <3>2. CallsOK(calls', faults)
      BY <1>6, <2>1, <3>1, TaskGoesOn
    <3> QED BY <1>2, <1>6, <3>2 DEF ReadsInv
  <2>2. ASSUME ~(DecodedLen(r, ClipRows(r, spec)) > Budget) PROVE Readable(r, spec)
    BY <1>4, <1>6, <2>2 DEF Readable
  <2>3. CASE ~(DecodedLen(r, ClipRows(r, spec)) > Budget) /\ IsSparse(r.image, spec)
    <3>1. TaskOK(r, spec, [stage |-> "copy", block |-> RowsOnly(r, spec)], out, faults)
      BY <1>6, <2>2, <2>3 DEF TaskOK, BlockFor
    <3>2. CallsOK(calls', faults)
      BY <1>6, <2>3, <3>1, TaskGoesOn
    <3> QED BY <1>2, <1>6, <3>2 DEF ReadsInv
  <2>4. CASE ~(DecodedLen(r, ClipRows(r, spec)) > Budget) /\ ~IsSparse(r.image, spec)
    <3>1. TaskOK(r, spec, [stage |-> "fetchRows", block |-> NoBlock], out, faults)
      BY <1>6, <2>2, <2>4 DEF TaskOK
    <3>2. CallsOK(calls', faults)
      BY <1>6, <2>4, <3>1, TaskGoesOn
    <3> QED BY <1>2, <1>6, <3>2 DEF ReadsInv
  <2> QED BY <2>1, <2>3, <2>4
<1>7. ASSUME ~over, ~Bounded(r, spec), DecodedLen(r, spec.decoded) > Budget,
             SetTask(c, spec, "failed", NoBlock), UNCHANGED cache
      PROVE  ReadsInv'
  <2>1. TaskOK(r, spec, [stage |-> "failed", block |-> NoBlock], out, faults)
    BY <1>4, <1>7 DEF TaskOK, Readable
  <2>2. CallsOK(calls', faults)
    BY <1>7, <2>1, TaskGoesOn
  <2> QED BY <1>2, <1>7, <2>2 DEF ReadsInv
<1>8. ASSUME ~over, ~Bounded(r, spec), ~(DecodedLen(r, spec.decoded) > Budget),
             NEW hit \in Hits(cache, key), SetTask(c, spec, "copy", hit.value),
             cache' = Promoted(cache, key)
      PROVE  ReadsInv'
  <2>1. hit.value = Whole(r, spec) /\ ~Undecodable(r, spec)
    BY <1>8, HitIsWhole
  <2>2. TaskOK(r, spec, [stage |-> "copy", block |-> hit.value], out, faults)
    BY <1>4, <1>8, <2>1 DEF TaskOK, Readable, BlockFor
  <2>3. CallsOK(calls', faults)
    BY <1>8, <2>2, TaskGoesOn
  <2>4. CacheOK(cache')
    BY <1>8, BlocksSized, PromotedKeeps DEF CacheOK
  <2> QED BY <1>2, <2>3, <2>4 DEF ReadsInv
<1>9. ASSUME ~over, ~Bounded(r, spec), ~(DecodedLen(r, spec.decoded) > Budget), UNCHANGED cache,
             IF IsSparse(r.image, spec) THEN SetTask(c, spec, "insert", Whole(r, spec))
             ELSE SetTask(c, spec, "fetch", NoBlock)
      PROVE  ReadsInv'
  <2>1. CASE IsSparse(r.image, spec)
    <3>1. TaskOK(r, spec, [stage |-> "insert", block |-> Whole(r, spec)], out, faults)
      BY <1>4, <1>9, <2>1 DEF TaskOK, Readable, Undecodable
    <3>2. CallsOK(calls', faults)
      BY <1>9, <2>1, <3>1, TaskGoesOn
    <3> QED BY <1>2, <1>9, <3>2 DEF ReadsInv
  <2>2. CASE ~IsSparse(r.image, spec)
    <3>1. TaskOK(r, spec, [stage |-> "fetch", block |-> NoBlock], out, faults)
      BY <1>4, <1>9, <2>2 DEF TaskOK
    <3>2. CallsOK(calls', faults)
      BY <1>9, <2>2, <3>1, TaskGoesOn
    <3> QED BY <1>2, <1>9, <3>2 DEF ReadsInv
  <2> QED BY <2>1, <2>2
<1> HIDE <1>1
<1> QED BY <1>5, <1>6, <1>7, <1>8, <1>9 DEF StartTask

LEMMA FetchRowsKeeps ==
  ASSUME ReadsInv, NEW c \in Callers, Running(c), NEW spec \in TasksOf(c), FetchRows(c, spec)
  PROVE  ReadsInv'
<1> DEFINE r == calls[c].request
           out == calls[c].output
<1>1. /\ CallsOK(calls, faults) /\ faults \in Nat /\ CacheOK(cache)
      /\ TaskOK(r, spec, calls[c].tasks[spec], out, faults)
  BY RunningIsFull DEF ReadsInv, Full
<1>2. Readable(r, spec) /\ Bounded(r, spec)
  BY <1>1 DEF TaskOK, FetchRows, Stage
<1>3. TaskOK(r, spec, [stage |-> "copy", block |-> RowsOnly(r, spec)], out, faults)
  BY <1>2 DEF TaskOK, BlockFor
<1>4. /\ SetTask(c, spec, "copy", RowsOnly(r, spec)) /\ UNCHANGED <<cache, faults>>
  BY DEF FetchRows
<1>5. CallsOK(calls', faults)
  BY <1>1, <1>3, <1>4, TaskGoesOn
<1> QED BY <1>1, <1>4, <1>5 DEF ReadsInv

LEMMA FetchKeeps ==
  ASSUME ReadsInv, NEW c \in Callers, Running(c), NEW spec \in TasksOf(c), Fetch(c, spec)
  PROVE  ReadsInv'
<1> DEFINE r == calls[c].request
           out == calls[c].output
           refused == \/ r.image.bytes[spec.index] > ByteCountLimit(r.image, spec.decoded)
                      \/ /\ r.image.verbatim
                         /\ r.image.bytes[spec.index] < EncodedLen(r.image, spec.decoded)
<1>1. /\ CallsOK(calls, faults) /\ faults \in Nat /\ CacheOK(cache)
      /\ TaskOK(r, spec, calls[c].tasks[spec], out, faults)
  BY RunningIsFull DEF ReadsInv, Full
<1>2. /\ ~Bounded(r, spec) /\ ~IsSparse(r.image, spec)
      /\ DecodedLen(r, spec.decoded) <= Budget
      /\ ~(Eligible(r, spec) /\ r.image.bytes[spec.index] > ByteCountLimit(r.image, spec.rows))
  BY <1>1 DEF TaskOK, Fetch, Stage
<1>3. UNCHANGED <<cache, faults>>
  BY DEF Fetch
<1>4. CASE refused
  <2>1. TaskOK(r, spec, [stage |-> "failed", block |-> NoBlock], out, faults)
    BY <1>2, <1>4 DEF TaskOK, Readable, Undecodable
  <2>2. SetTask(c, spec, "failed", NoBlock)
    BY <1>4 DEF Fetch
  <2>3. CallsOK(calls', faults)
    BY <1>1, <2>1, <2>2, TaskGoesOn
  <2> QED BY <1>1, <1>3, <2>3 DEF ReadsInv
<1>5. CASE ~refused
  <2>1. TaskOK(r, spec, [stage |-> "insert", block |-> Whole(r, spec)], out, faults)
    BY <1>2, <1>5 DEF TaskOK, Readable, Undecodable
  <2>2. SetTask(c, spec, "insert", Whole(r, spec))
    BY <1>5 DEF Fetch
  <2>3. CallsOK(calls', faults)
    BY <1>1, <2>1, <2>2, TaskGoesOn
  <2> QED BY <1>1, <1>3, <2>3 DEF ReadsInv
<1> QED BY <1>4, <1>5

LEMMA FetchFailsKeeps ==
  ASSUME ReadsInv, NEW c \in Callers, Running(c), NEW spec \in TasksOf(c), FetchFails(c, spec)
  PROVE  ReadsInv'
<1>1. CallsOK(calls, faults) /\ faults \in Nat /\ CacheOK(cache)
  BY DEF ReadsInv
<1>2. /\ SetTask(c, spec, "failed", NoBlock) /\ faults' = faults + 1 /\ UNCHANGED cache
  BY DEF FetchFails
<1>3. TaskOK(calls[c].request, spec, [stage |-> "failed", block |-> NoBlock],
             calls[c].output, faults + 1)
  BY <1>1 DEF TaskOK
<1>4. CallsOK(calls', faults + 1)
  BY <1>1, <1>2, <1>3, TaskGoesOn
<1> QED BY <1>1, <1>2, <1>4 DEF ReadsInv

LEMMA InsertKeeps ==
  ASSUME ReadsInv, NEW c \in Callers, Running(c), NEW spec \in TasksOf(c), Insert(c, spec)
  PROVE  ReadsInv'
<1> DEFINE r == calls[c].request
           out == calls[c].output
           block == calls[c].tasks[spec].block
<1>1. /\ CallsOK(calls, faults) /\ faults \in Nat /\ CacheOK(cache)
      /\ TaskOK(r, spec, calls[c].tasks[spec], out, faults)
      /\ r \in Requests /\ spec \in SpecsFor(r)
  BY RunningIsFull DEF ReadsInv, Full
<1>2. Stage(c, spec) = "insert"
  BY DEF Insert
<1>3. /\ ~Bounded(r, spec) /\ block = Whole(r, spec) /\ Readable(r, spec)
      /\ ~Undecodable(r, spec)
  BY <1>1, <1>2 DEF TaskOK, Stage
<1>4. /\ cache' = Inserted(cache, Key(r, spec), block, DecodedLen(r, block.rows))
      /\ SetTask(c, spec, "copy", block) /\ UNCHANGED faults
  BY DEF Insert
<1>5. TaskOK(r, spec, [stage |-> "copy", block |-> block], out, faults)
  BY <1>3 DEF TaskOK, BlockFor
<1>6. CallsOK(calls', faults)
  BY <1>1, <1>4, <1>5, TaskGoesOn
<1>7. block.rows = spec.decoded
  BY <1>3 DEF Whole, Block
<1>8. DecodedLen(r, block.rows) \in Nat
  BY <1>1, <1>7, SpecNamed, NamedFacts, DecodedLenType
<1>9. Entry(Key(r, spec), block, DecodedLen(r, block.rows)) \in Blocks
  BY <1>1, <1>3, <1>7 DEF Blocks
<1>10. CacheOK(cache')
  BY <1>1, <1>4, <1>8, <1>9, BlocksSized, InsertedKeeps DEF CacheOK
<1> QED BY <1>1, <1>4, <1>6, <1>10 DEF ReadsInv

LEMMA CopyKeeps ==
  ASSUME ReadsInv, NEW c \in Callers, Running(c), NEW spec \in TasksOf(c), Copy(c, spec)
  PROVE  ReadsInv'
<1> DEFINE x == calls[c]
           r == x.request
           out == x.output
           block == x.tasks[spec].block
           rows == Rows(r, spec)
           from == CopySpec(r, spec)
           task == [stage |-> "done", block |-> NoBlock]
           ts == [x.tasks EXCEPT ![spec] = task]
           new == [cell \in DOMAIN out |->
                     IF cell[1] = spec.plane /\ cell[2] \in rows
                     THEN RowOf(block, cell[2] - from.start) ELSE out[cell]]
           y == [status |-> "running", request |-> r, tasks |-> ts, output |-> new]
<1>1. /\ CallsOK(calls, faults) /\ faults \in Nat /\ CacheOK(cache)
      /\ Full(x, faults) /\ r \in Requests /\ spec \in SpecsFor(r)
      /\ TaskOK(r, spec, x.tasks[spec], out, faults)
      /\ x = [status |-> "running", request |-> r, tasks |-> x.tasks, output |-> out]
      /\ x.tasks = [s \in SpecsFor(r) |-> x.tasks[s]]
      /\ out = [cell \in Cells(r) |-> out[cell]]
  BY RunningIsFull DEF ReadsInv, Full, Running
<1>2. block = BlockFor(r, spec) /\ Readable(r, spec)
  BY <1>1 DEF TaskOK, Copy, Stage
<1>3. UNCHANGED <<cache, faults>>
  BY DEF Copy
<1>4. ~(\E row \in rows : row - from.start >= block.rows)
  <2> SUFFICES ASSUME NEW row \in rows PROVE ~(row - from.start >= block.rows)
    OBVIOUS
  <2>1. row - from.start < block.rows
    BY <1>1, <1>2, CopiedRow DEF From
  <2>2. block.rows \in Int /\ row - from.start \in Int
    <3>1. PICK plane, k : Names(r, spec, plane, k)
      BY <1>1, SpecNamed
    <3>2. /\ spec.decoded \in Nat /\ spec.start \in Nat /\ spec.rows \in Nat
          /\ r.off \in Nat /\ r.rows \in Nat
      BY <1>1, <3>1, NamedFacts, RequestFacts
    <3>3. ClipStart(r, spec) \in Int /\ ClipRows(r, spec) \in Int
      BY <3>2 DEF ClipStart, ClipRows, Most, Least
    <3>4. block.rows \in Int
      BY <1>2, <3>2, <3>3 DEF BlockFor, RowsOnly, Whole, Block
    <3>5. spec = BlockSpec(r.image, plane, k)
      BY <3>1 DEF Names
    <3>6. from.start \in Int
      <4>1. CASE Bounded(r, spec)
        <5>1. Clipped(r, spec).start = ClipStart(r, spec)
          BY <3>5 DEF Clipped, BlockSpec
        <5> QED BY <4>1, <5>1, <3>3 DEF CopySpec
      <4>2. CASE ~Bounded(r, spec)
        BY <4>2, <3>2 DEF CopySpec
      <4> QED BY <4>1, <4>2
    <3>7. row \in Int
      BY DEF Rows
    <3> QED BY <3>4, <3>6, <3>7
  <2> QED BY <2>1, <2>2
<1>5. calls' = [calls EXCEPT ![c] = y]
  <2>1. rows = Most(from.start, r.off)..(Least(from.start + from.rows, r.off + r.rows) - 1)
    BY DEF Rows, From
  <2>2. calls' = [calls EXCEPT ![c].tasks[spec] = task,
                               ![c].output = [cell \in DOMAIN @ |->
                                  IF cell[1] = spec.plane /\ cell[2] \in rows
                                  THEN RowOf(block, cell[2] - from.start) ELSE @[cell]]]
    <3> HIDE DEF task
    <3> QED BY <1>4, <2>1 DEF Copy, task
  <2>3. calls' = [calls EXCEPT ![c] = [[calls[c] EXCEPT !.tasks = ts] EXCEPT !.output = new]]
    BY <1>1, <2>2
  <2>4. [[calls[c] EXCEPT !.tasks = ts] EXCEPT !.output = new] = y
    <3> DEFINE old == x.tasks
               was == x.output
               t2 == ts
               o2 == new
    <3>1. calls[c] = [status |-> "running", request |-> r, tasks |-> old, output |-> was]
      BY <1>1
    <3> HIDE DEF t2, o2, r, old, was
    <3>2. [calls[c] EXCEPT !.tasks = t2]
            = [status |-> "running", request |-> r, tasks |-> t2, output |-> was]
      BY <3>1
    <3>3. [[status |-> "running", request |-> r, tasks |-> t2, output |-> was]
             EXCEPT !.output = o2]
            = [status |-> "running", request |-> r, tasks |-> t2, output |-> o2]
      OBVIOUS
    <3>4. [[calls[c] EXCEPT !.tasks = t2] EXCEPT !.output = o2]
            = [status |-> "running", request |-> r, tasks |-> t2, output |-> o2]
      BY <3>2, <3>3
    <3> QED BY <3>4 DEF t2, o2
  <2> QED BY <2>3, <2>4
<1>6. \A cell \in Cells(r) :
        new[cell] = IF cell[1] = spec.plane /\ cell[2] \in rows THEN Expected(r, cell)
                    ELSE out[cell]
  <2> SUFFICES ASSUME NEW cell \in Cells(r), cell[1] = spec.plane, cell[2] \in rows
               PROVE  RowOf(block, cell[2] - from.start) = Expected(r, cell)
    BY <1>1
  <2>1. cell = <<spec.plane, cell[2]>>
    BY DEF Cells
  <2>2. RowOf(block, cell[2] - from.start) = Expected(r, <<spec.plane, cell[2]>>)
    BY <1>1, <1>2, CopiedRow DEF From
  <2> QED BY <2>1, <2>2
<1>7. new = [cell \in Cells(r) |-> new[cell]]
  BY <1>1
<1> HIDE DEF new
<1>8. \A s \in SpecsFor(r) : TaskOK(r, s, ts[s], new, faults)
  <2> SUFFICES ASSUME NEW s \in SpecsFor(r) PROVE TaskOK(r, s, ts[s], new, faults)
    OBVIOUS
  <2>1. CASE s = spec
    <3>1. ts[s] = task
      BY <1>1, <2>1
    <3>2. Right(r, spec, new)
      BY <1>6 DEF Right
    <3> QED BY <1>2, <2>1, <3>1, <3>2 DEF TaskOK
  <2>2. CASE s # spec
    <3>1. ts[s] = x.tasks[s]
      BY <1>1, <2>2
    <3>2. TaskOK(r, s, x.tasks[s], out, faults)
      BY <1>1 DEF Full
    <3>3. Right(r, s, out) => Right(r, s, new)
      BY <1>6 DEF Right
    <3>4. TaskOK(r, s, x.tasks[s], new, faults)
      BY <3>2, <3>3 DEF TaskOK
    <3> QED BY <3>1, <3>4
  <2> QED BY <2>1, <2>2
<1>9. Full(y, faults)
  <2>1. y.tasks = ts /\ y.request = r /\ y.status = "running" /\ y.output = new
    OBVIOUS
  <2>2. ts = [s \in SpecsFor(r) |-> ts[s]]
    BY <1>1
  <2>3. y = [status |-> y.status, request |-> y.request, tasks |-> y.tasks, output |-> y.output]
    OBVIOUS
  <2>4. r \in Requests
    BY <1>1
  <2> HIDE DEF y, ts, r
  <2> QED BY <1>7, <1>8, <2>1, <2>2, <2>3, <2>4 DEF Full
<1>10. CallOK(y, faults)
  BY <1>9 DEF CallOK
<1> HIDE DEF y
<1>11. CallsOK(calls', faults)
  BY <1>1, <1>5, <1>10 DEF CallsOK
<1> QED BY <1>1, <1>3, <1>11 DEF ReadsInv

LEMMA ReturnKeeps ==
  ASSUME ReadsInv, NEW c \in Callers, Running(c), Return(c)
  PROVE  ReadsInv'
<1> DEFINE x == calls[c]
           r == x.request
           Y(status) == [status |-> status, request |-> r, tasks |-> x.tasks, output |-> x.output]
<1>1. /\ CallsOK(calls, faults) /\ faults \in Nat /\ CacheOK(cache)
      /\ Full(x, faults) /\ TasksOf(c) = SpecsFor(r)
      /\ x = [status |-> "running", request |-> r, tasks |-> x.tasks, output |-> x.output]
  BY RunningIsFull DEF ReadsInv, Full, Running
<1>2. UNCHANGED <<cache, faults>>
  BY DEF Return
<1>3. ASSUME NEW status \in {"ok", "failed"}, calls' = [calls EXCEPT ![c].status = status],
             status = "ok" => \A spec \in SpecsFor(r) : x.tasks[spec].stage = "done",
             status = "failed" => \E spec \in SpecsFor(r) : x.tasks[spec].stage = "failed"
      PROVE  CallsOK(calls', faults)
  <2>1. [x EXCEPT !.status = status] = Y(status)
    <3> DEFINE ts == x.tasks
               out == x.output
    <3>1. x = [status |-> "running", request |-> r, tasks |-> ts, output |-> out]
      BY <1>1
    <3> HIDE DEF x, r, ts, out
    <3>2. [x EXCEPT !.status = status]
            = [status |-> status, request |-> r, tasks |-> ts, output |-> out]
      BY <3>1
    <3> QED BY <3>2 DEF ts, out
  <2>2. calls' = [calls EXCEPT ![c] = Y(status)]
    BY <1>3, <2>1
  <2>3. /\ Y(status).status = status /\ Y(status).request = r
        /\ Y(status).tasks = x.tasks /\ Y(status).output = x.output
    OBVIOUS
  <2>4. Full(Y(status), faults)
    BY <1>1, <1>3, <2>3 DEF Full
  <2>5. CallOK(Y(status), faults)
    BY <2>4 DEF CallOK
  <2> HIDE DEF Y
  <2> QED BY <1>1, <2>2, <2>5 DEF CallsOK
<1>4. CASE calls' = [calls EXCEPT ![c].status = "ok"]
           /\ {Stage(c, spec) : spec \in TasksOf(c)} \subseteq {"done"}
  <2>1. \A spec \in SpecsFor(r) : x.tasks[spec].stage = "done"
    BY <1>1, <1>4 DEF Stage
  <2> QED BY <1>1, <1>2, <1>3, <1>4, <2>1 DEF ReadsInv
<1>5. CASE calls' = [calls EXCEPT ![c].status = "failed"]
           /\ "failed" \in {Stage(c, spec) : spec \in TasksOf(c)}
  <2>1. \E spec \in SpecsFor(r) : x.tasks[spec].stage = "failed"
    BY <1>1, <1>5 DEF Stage
  <2> QED BY <1>1, <1>2, <1>3, <1>5, <2>1 DEF ReadsInv
<1> QED BY <1>4, <1>5 DEF Return

LEMMA NextInv == ReadsInv /\ [Next]_vars => ReadsInv'
<1> SUFFICES ASSUME ReadsInv, [Next]_vars PROVE ReadsInv'
  OBVIOUS
<1>1. CASE UNCHANGED vars
  BY <1>1 DEF vars, ReadsInv
<1>2. ASSUME NEW c \in Callers, NEW r \in Requests, Begin(c, r) PROVE ReadsInv'
  BY <1>2, BeginKeeps
<1>3. ASSUME NEW c \in Callers, Running(c), Step(c) PROVE ReadsInv'
  BY <1>3, StartTaskKeeps, FetchRowsKeeps, FetchKeeps, InsertKeeps, CopyKeeps, ReturnKeeps
     DEF Step
<1>4. ASSUME NEW c \in Callers, Running(c), NEW spec \in TasksOf(c), FetchFails(c, spec)
      PROVE  ReadsInv'
  BY <1>4, FetchFailsKeeps
<1> QED BY <1>1, <1>2, <1>3, <1>4 DEF Next

----------------------------------------------------------------------------
\* The inductive invariant of window reads holds in every state.
THEOREM ReadsInvariant == Spec => []ReadsInv
<1>1. Init => ReadsInv
  BY InitInv
<1>2. ReadsInv /\ [Next]_vars => ReadsInv'
  BY NextInv
<1> QED BY <1>1, <1>2, PTL DEF Spec

(***************************************************************************)
(* A call that succeeds returns the rows of the image, whatever other      *)
(* calls put into the cache or took out of it meanwhile.                   *)
(***************************************************************************)
THEOREM SuccessfulReadsAreExact == Spec => []ReadsExact
<1>1. ReadsInv => ReadsExact
  <2> SUFFICES ASSUME ReadsInv, NEW c \in Callers, calls[c].status = "ok",
                      NEW cell \in Cells(calls[c].request)
               PROVE  calls[c].output[cell] = Expected(calls[c].request, cell)
    BY DEF ReadsExact
  <2> DEFINE x == calls[c]
             r == x.request
  <2>1. Full(x, faults)
    BY DEF ReadsInv, CallsOK, CallOK
  <2>2. r \in Requests /\ cell \in Cells(r)
    BY <2>1 DEF Full
  <2>3. PICK spec \in SpecsFor(r) : spec.plane = cell[1] /\ cell[2] \in Rows(r, spec)
    BY <2>2, CellsCovered
  <2>4. Right(r, spec, x.output)
    BY <2>1 DEF Full, TaskOK
  <2> QED BY <2>2, <2>3, <2>4 DEF Right
<1> QED BY <1>1, ReadsInvariant, PTL

\* No task indexes beyond the block it copies from.
THEOREM TasksNeverPanic == Spec => []NoPanic
<1>1. ReadsInv => NoPanic
  <2> SUFFICES ASSUME ReadsInv, NEW c \in Callers, Running(c), NEW spec \in TasksOf(c)
               PROVE  Stage(c, spec) # "panic"
    BY DEF NoPanic
  <2>1. /\ Full(calls[c], faults) /\ spec \in SpecsFor(calls[c].request)
    BY RunningIsFull DEF ReadsInv
  <2> QED BY <2>1 DEF Full, TaskOK, Stage
<1> QED BY <1>1, ReadsInvariant, PTL

\* The cache's byte counter is exact and both its caps hold, at every moment.
THEOREM CacheStaysWithinLimits == Spec => []CacheWithinLimits
<1>1. ReadsInv => CacheWithinLimits
  BY DEF ReadsInv, CacheOK, CacheWithinLimits
<1> QED BY <1>1, ReadsInvariant, PTL

(***************************************************************************)
(* Without source errors, whether a call succeeds is told by the file and  *)
(* the request: the cache can make no difference.                          *)
(***************************************************************************)
THEOREM CacheChangesNoOutcome == Spec => []OutcomeIsDetermined
<1>1. ReadsInv => OutcomeIsDetermined
  <2> SUFFICES ASSUME ReadsInv, NEW c \in Callers, faults = 0,
                      calls[c].status \in {"ok", "failed"}
               PROVE  calls[c].status = "ok" <=>
                        \A spec \in TasksOf(c) : Readable(calls[c].request, spec)
    BY DEF OutcomeIsDetermined
  <2> DEFINE x == calls[c]
             r == x.request
  <2>1. Full(x, faults)
    BY DEF ReadsInv, CallsOK, CallOK
  <2>2. TasksOf(c) = SpecsFor(r)
    BY <2>1 DEF Full, TasksOf
  <2>3. CASE x.status = "ok"
    BY <2>1, <2>2, <2>3 DEF Full, TaskOK
  <2>4. CASE x.status = "failed"
    <3>1. PICK spec \in SpecsFor(r) : x.tasks[spec].stage = "failed"
      BY <2>1, <2>4 DEF Full
    <3>2. ~Readable(r, spec)
      BY <2>1, <3>1 DEF Full, TaskOK
    <3> QED BY <2>2, <2>4, <3>2
  <2> QED BY <2>3, <2>4
<1> QED BY <1>1, ReadsInvariant, PTL

----------------------------------------------------------------------------
(***************************************************************************)
(* Evictions.  The history of uses is the order of the cache's entries.    *)
(***************************************************************************)
OlderInv == Ordered(cache.entries, older)

\* A block's size is positive, and its key tells it.
LEMMA KeyTellsSize ==
  ASSUME NEW r \in Requests, NEW spec \in SpecsFor(r)
  PROVE  /\ DecodedLen(r, spec.decoded) \in Nat \ {0}
         /\ \A e \in Blocks : e.key = Key(r, spec) => e.size = DecodedLen(r, spec.decoded)
<1>1. DecodedLen(r, spec.decoded) \in Nat \ {0}
  <2>1. spec.decoded \in Nat \ {0}
    BY SpecNamed, NamedFacts
  <2>2. RowLen(r) \in Nat \ {0}
    BY RequestFacts DEF RowLen
  <2> DEFINE m == spec.decoded
             n == RowLen(r)
  <2> HIDE DEF m, n
  <2>3. m \in Nat \ {0} /\ n \in Nat \ {0}
    BY <2>1, <2>2 DEF m, n
  <2>4. m * n \in Nat \ {0}
    BY ONLY <2>3, SMTT(30)
  <2> QED BY <2>4 DEF DecodedLen, m, n
<1>2. ASSUME NEW q \in Requests, NEW other \in SpecsFor(q), Key(q, other) = Key(r, spec)
      PROVE  DecodedLen(q, other.decoded) = DecodedLen(r, spec.decoded)
  BY <1>2, KeyTells DEF DecodedLen, RowLen
<1>3. ASSUME NEW e \in Blocks, e.key = Key(r, spec)
      PROVE  e.size = DecodedLen(r, spec.decoded)
  <2>1. PICK q \in Requests : \E other \in SpecsFor(q) :
          e = Entry(Key(q, other), Whole(q, other), DecodedLen(q, other.decoded))
    BY DEF Blocks
  <2>2. PICK other \in SpecsFor(q) :
          e = Entry(Key(q, other), Whole(q, other), DecodedLen(q, other.decoded))
    BY <2>1
  <2>3. Key(q, other) = Key(r, spec) /\ e.size = DecodedLen(q, other.decoded)
    BY <1>3, <2>2 DEF Entry
  <2> QED BY <1>2, <2>3
<1> QED BY <1>1, <1>3

\* A use moves its key to the recent end of the history, as the cache does.
LEMMA TouchOrders ==
  ASSUME CacheOK(cache), OlderInv, NEW key, Touch(key),
         NEW u \in Seq(Blocks), NEW p, InOrder(u, p, cache.entries),
         NEW e \in Blocks, e.key = key, \A i \in 1..Len(u) : u[i].key # key,
         cache'.entries = Append(u, e)
  PROVE  OlderInv'
<1> DEFINE s == cache.entries
           t == cache'.entries
           all == {t[n].key : n \in DOMAIN t}
           others == all \ {key}
           latest == all \cap {key}
<1>1. older' = (older \cap (others \X others)) \cup (others \X latest)
  BY DEF Touch, KeysOf
<1>2. s \in Seq(Blocks) /\ Ordered(s, older)
  BY DEF CacheOK, Caches, OlderInv
<1>3. /\ Len(u) \in Nat /\ DOMAIN t = 1..(Len(u) + 1)
      /\ t[Len(u) + 1] = e /\ \A i \in 1..Len(u) : t[i] = u[i]
  BY AppendProperties
<1> HIDE DEF t
<1>4. e.key \in latest \ others
  BY <1>3
<1>5. ASSUME NEW i \in 1..Len(u) PROVE u[i].key \in others \ latest
  <2>1. i \in DOMAIN t /\ t[i].key = u[i].key
    BY <1>3
  <2> QED BY <2>1
<1>6. t = Append(u, e) /\ InOrder(u, p, s)
  BY DEF t
<1> HIDE DEF s, others, latest
<1>7. Ordered(t, (older \cap (others \X others)) \cup (others \X latest))
  BY <1>2, <1>4, <1>5, <1>6, AppendOrders
<1>8. Ordered(t, older')
  BY <1>1, <1>7
<1> QED BY <1>8 DEF OlderInv, t

LEMMA HitOrders ==
  ASSUME CacheOK(cache), OlderInv, NEW key, Hits(cache, key) # {},
         cache' = Promoted(cache, key), Touch(key)
  PROVE  OlderInv' /\ KeysOf(cache') = KeysOf(cache)
<1> DEFINE s == cache.entries
           n == CHOOSE n \in Lookup(cache, key) : TRUE
           u == RemoveAt(s, n)
<1>1. cache \in Caches(Blocks) /\ s \in Seq(Blocks) /\ Unique(s) /\ Len(s) \in Nat
  BY LimitsInParts DEF CacheOK, Caches
<1>2. Lookup(cache, key) # {}
  BY DEF Hits
<1>3. n \in 1..Len(s) /\ s[n].key = key /\ s[n] \in Blocks
  BY <1>1, <1>2, LookupFinds
<1>4. cache'.entries = Append(u, s[n])
  BY DEF Promoted
<1> HIDE DEF n, s
<1>5. /\ u \in Seq(Blocks) /\ Len(u) = Len(s) - 1
      /\ \A i \in 1..(n - 1) : u[i] = s[i]
      /\ \A i \in n..(Len(s) - 1) : u[i] = s[i + 1]
  BY <1>1, <1>3, RemoveAtIs
<1>6. \A i \in 1..Len(u) : u[i].key # key
  BY <1>1, <1>3, RemovedKey
<1>7. PICK p : InOrder(u, p, s)
  BY <1>1, <1>3, RemovedInOrder
<1> HIDE DEF u
<1>8. OlderInv'
  BY <1>3, <1>4, <1>5, <1>6, <1>7, TouchOrders DEF s
<1> DEFINE t == cache'.entries
<1>9. /\ t \in Seq(Blocks) /\ Len(t) = Len(s) /\ t[Len(s)] = s[n]
      /\ \A i \in 1..(Len(s) - 1) : t[i] = u[i]
  BY <1>1, <1>3, <1>4, <1>5, AppendProperties
<1>10. DOMAIN t = 1..Len(s) /\ DOMAIN s = 1..Len(s)
  BY <1>1, <1>9
<1> HIDE DEF t
<1>11. \A i \in 1..Len(s) : \E j \in 1..Len(s) : t[i] = s[j]
  BY <1>1, <1>3, <1>5, <1>9
<1>12. ASSUME NEW j \in 1..Len(s) PROVE \E i \in 1..Len(s) : t[i] = s[j]
  <2>1. CASE j < n
    BY <1>1, <1>3, <1>5, <1>9, <2>1
  <2>2. CASE j = n
    BY <1>1, <1>3, <1>9, <2>2
  <2>3. CASE j > n
    <3>1. j - 1 \in n..(Len(s) - 1) /\ (j - 1) + 1 = j /\ j - 1 \in 1..(Len(s) - 1)
      BY <1>1, <1>3, <2>3
    <3>2. t[j - 1] = s[j]
      BY <1>5, <1>9, <3>1
    <3> QED BY <1>1, <3>1, <3>2
  <2> QED BY <1>1, <1>3, <2>1, <2>2, <2>3
<1>13. KeysOf(cache') = KeysOf(cache)
  <2>1. KeysOf(cache) = {s[i].key : i \in 1..Len(s)}
    BY <1>10 DEF KeysOf, s
  <2>2. KeysOf(cache') = {t[i].key : i \in 1..Len(s)}
    BY <1>10 DEF KeysOf, t
  <2>3. ASSUME NEW i \in 1..Len(s) PROVE t[i].key \in KeysOf(cache)
    <3>1. PICK j \in 1..Len(s) : t[i] = s[j]
      BY <1>11
    <3> QED BY <2>1, <3>1
  <2>4. ASSUME NEW j \in 1..Len(s) PROVE s[j].key \in KeysOf(cache')
    <3>1. PICK i \in 1..Len(s) : t[i] = s[j]
      BY <1>12
    <3>2. t[i].key \in {t[k].key : k \in 1..Len(s)} /\ t[i].key = s[j].key
      BY <3>1
    <3> QED BY <2>2, <3>2
  <2> QED BY <2>1, <2>2, <2>3, <2>4
<1> QED BY <1>8, <1>13

\* An insertion that refuses the block leaves cache and history alone.
LEMMA RefusedForced ==
  ASSUME CacheOK(cache), OlderInv, NEW key, Touch(key), CacheOK(cache)',
         Lookup(cache, key) = {}, TurnedAway(cache.entries, cache'.entries)
  PROVE  OlderInv' /\ EvictionForced
<1> DEFINE s == cache.entries
           all == KeysOf(cache')
           others == all \ {key}
<1>1. cache'.entries = s /\ s \in Seq(Blocks) /\ DOMAIN s = 1..Len(s)
  BY DEF TurnedAway, CacheOK, Caches
<1>2. KeysOf(cache') = KeysOf(cache)
  BY <1>1 DEF KeysOf
<1>3. \A n \in 1..Len(s) : s[n].key \in others
  BY <1>1, <1>2 DEF KeysOf, Lookup
<1>4. all \cap {key} = {}
  BY <1>1, <1>2 DEF KeysOf, Lookup
<1>5. older' = (older \cap (others \X others)) \cup (others \X (all \cap {key}))
  BY DEF Touch
<1> HIDE DEF others, all
<1>6. older' = older \cap (others \X others)
  BY <1>4, <1>5
<1>7. ASSUME NEW m \in 1..Len(s), NEW n \in 1..Len(s)
      PROVE  <<s[m].key, s[n].key>> \in older' <=> m < n
  <2>1. <<s[m].key, s[n].key>> \in older <=> m < n
    BY DEF OlderInv, Ordered
  <2>2. <<s[m].key, s[n].key>> \in others \X others
    BY <1>3
  <2> QED BY <1>6, <2>1, <2>2
<1>8. OlderInv'
  BY <1>1, <1>7 DEF OlderInv, Ordered
<1> QED BY <1>2, <1>8 DEF EvictionForced

\* One that replaces a block in the cache drops no other.
LEMMA ReplacedForced ==
  ASSUME CacheOK(cache), OlderInv, NEW key, Touch(key),
         NEW e \in Blocks, e.key = key,
         NEW n \in Lookup(cache, key), Replaced(cache.entries, n, e, cache'.entries)
  PROVE  OlderInv' /\ EvictionForced
<1> DEFINE s == cache.entries
           u == RemoveAt(s, n)
           t == cache'.entries
<1>1. /\ cache \in Caches(Blocks) /\ s \in Seq(Blocks) /\ Unique(s) /\ Len(s) \in Nat
      /\ DOMAIN s = 1..Len(s)
  BY LimitsInParts DEF CacheOK, Caches
<1>2. n \in 1..Len(s) /\ s[n].key = key
  BY <1>1 DEF Lookup
<1>3. t = Append(u, e)
  BY DEF Replaced
<1> HIDE DEF s
<1>4. /\ u \in Seq(Blocks) /\ Len(u) = Len(s) - 1
      /\ \A i \in 1..(n - 1) : u[i] = s[i]
      /\ \A i \in n..(Len(s) - 1) : u[i] = s[i + 1]
  BY <1>1, <1>2, RemoveAtIs
<1>5. \A i \in 1..Len(u) : u[i].key # key
  BY <1>1, <1>2, RemovedKey
<1>6. PICK p : InOrder(u, p, s)
  BY <1>1, <1>2, RemovedInOrder
<1> HIDE DEF u
<1>7. OlderInv'
  BY <1>3, <1>4, <1>5, <1>6, TouchOrders DEF s
<1> HIDE DEF t
<1>11. /\ Len(u) \in Nat /\ DOMAIN t = 1..(Len(u) + 1) /\ t[Len(u) + 1] = e
       /\ \A i \in 1..Len(u) : t[i] = u[i]
  BY <1>3, <1>4, AppendedIs
<1>8. /\ DOMAIN t = 1..Len(s) /\ t[Len(s)] = e
      /\ \A i \in 1..(Len(s) - 1) : t[i] = u[i]
  <2>1. Len(u) + 1 = Len(s) /\ Len(u) = Len(s) - 1
    BY <1>1, <1>4
  <2> QED BY <1>11, <2>1
<1>9. ASSUME NEW j \in 1..Len(s) PROVE \E i \in 1..Len(s) : t[i].key = s[j].key
  <2>1. CASE j < n
    BY <1>1, <1>2, <1>4, <1>8, <2>1
  <2>2. CASE j = n
    BY <1>1, <1>2, <1>8, <2>2
  <2>3. CASE j > n
    <3>1. j - 1 \in n..(Len(s) - 1) /\ (j - 1) + 1 = j /\ j - 1 \in 1..(Len(s) - 1)
      BY <1>1, <1>2, <2>3
    <3>2. t[j - 1] = s[j]
      BY <1>4, <1>8, <3>1
    <3> QED BY <1>1, <3>1, <3>2
  <2> QED BY <1>1, <1>2, <2>1, <2>2, <2>3
<1>10. KeysOf(cache) \ KeysOf(cache') = {}
  <2>1. KeysOf(cache) = {s[i].key : i \in 1..Len(s)}
    BY <1>1 DEF KeysOf, s
  <2>2. KeysOf(cache') = {t[i].key : i \in 1..Len(s)}
    BY <1>8 DEF KeysOf, t
  <2>3. ASSUME NEW j \in 1..Len(s) PROVE s[j].key \in KeysOf(cache')
    BY <1>9, <2>2
  <2> QED BY <2>1, <2>3
<1> QED BY <1>7, <1>10 DEF EvictionForced

\* One that evicts drops the oldest blocks, and the last of them for want of room.
LEMMA EvictedForced ==
  ASSUME CacheOK(cache), OlderInv, NEW key, Touch(key),
         NEW e \in Blocks, e.key = key, Lookup(cache, key) = {},
         NEW d \in 0..Len(cache.entries), Evicted(cache.entries, d, e, cache'.entries),
         cache'.bytes = Size(cache'.entries)
  PROVE  OlderInv' /\ EvictionForced
<1> DEFINE s == cache.entries
           u == SubSeq(s, d + 1, Len(s))
           t == cache'.entries
<1>1. /\ s \in Seq(Blocks) /\ Unique(s) /\ Len(s) \in Nat /\ DOMAIN s = 1..Len(s)
      /\ d \in 0..Len(s)
  BY LimitsInParts DEF CacheOK, Caches
<1>2. /\ t = Append(u, e)
      /\ d > 0 => Len(t) = MaxEntries \/ Size(s) - SizeTo(s, d - 1) > MaxBytes - e.size
  BY DEF Evicted
<1>3. \A n \in 1..Len(s) : s[n].key # key
  BY <1>1 DEF Lookup
<1>4. Ordered(s, older) /\ cache'.bytes = Size(t)
  BY DEF OlderInv
<1> HIDE DEF s
<1>5. /\ u \in Seq(Blocks) /\ Len(u) = Len(s) - d /\ Size(u) = Size(s) - SizeTo(s, d)
      /\ \A i \in 1..(Len(s) - d) : u[i] = s[d + i]
  BY <1>1, BlocksSized, DroppedIs
<1>6. PICK p : InOrder(u, p, s)
  BY <1>1, BlocksSized, DroppedInOrder
<1> HIDE DEF u
<1>7. \A i \in 1..Len(u) : u[i].key # key
  BY <1>1, <1>3, <1>5
<1>8. OlderInv'
  <2> HIDE DEF t
  <2> QED BY <1>2, <1>5, <1>6, <1>7, TouchOrders DEF s, t
<1> HIDE DEF t
<1>17. t = Append(u, e) /\ u \in Seq(Blocks) /\ e \in Blocks
  BY <1>2, <1>5
<1>9. /\ DOMAIN t = 1..(Len(u) + 1) /\ t[Len(u) + 1] = e /\ Len(u) \in Nat
      /\ \A i \in 1..Len(u) : t[i] = u[i]
  BY ONLY <1>17, AppendedIs
<1>10. cache'.bytes = Size(u) + e.size
  BY <1>2, <1>4, <1>5, BlocksSized, SizeAppend
<1>11. ASSUME NEW n \in 1..Len(s) PROVE s[n].key \in KeysOf(cache') <=> d < n
  <2>1. CASE d < n
    <3>1. n - d \in 1..Len(u) /\ n - d \in DOMAIN t /\ d + (n - d) = n
      BY <1>1, <1>5, <1>9, <2>1
    <3>2. t[n - d] = s[n]
      BY <1>5, <1>9, <3>1
    <3> QED BY <2>1, <3>1, <3>2 DEF KeysOf, t
  <2>2. CASE ~(d < n)
    <3>1. ASSUME NEW i \in DOMAIN t, t[i].key = s[n].key PROVE FALSE
      <4>1. i \in 1..Len(u)
        BY <1>3, <1>9, <3>1
      <4>2. d + i \in 1..Len(s) /\ t[i] = s[d + i]
        BY <1>1, <1>5, <1>9, <4>1
      <4>3. d + i = n
        BY <1>1, <3>1, <4>2 DEF Unique
      <4> QED BY <1>1, <2>2, <4>1, <4>3
    <3>2. KeysOf(cache') = {t[i].key : i \in DOMAIN t}
      BY DEF KeysOf, t
    <3> QED BY <2>2, <3>1, <3>2
  <2> QED BY <2>1, <2>2
<1>12. KeysOf(cache) = {s[n].key : n \in 1..Len(s)}
  BY <1>1 DEF KeysOf, s
<1>13. ASSUME NEW n \in 1..Len(s), ~(d < n),
              \A g \in KeysOf(cache) \ KeysOf(cache') : g = s[n].key \/ <<g, s[n].key>> \in older
       PROVE  SizeOf(s[n].key) + cache'.bytes > MaxBytes \/ Len(t) = MaxEntries
  <2>1. d \in 1..Len(s) /\ d > 0 /\ d - 1 \in Nat
    BY <1>1, <1>13
  <2>2. s[d].key \in KeysOf(cache) \ KeysOf(cache')
    BY <1>1, <1>11, <1>12, <2>1
  <2>3. s[d].key = s[n].key \/ d < n
    BY <1>4, <1>13, <2>1, <2>2 DEF Ordered
  <2>4. d = n
    BY <1>1, <1>13, <2>1, <2>3 DEF Unique
  <2>5. SizeOf(s[n].key) = s[d].size
    <3>1. n \in Lookup(cache, s[n].key)
      BY <1>1 DEF Lookup, s
    <3>2. \A m \in Lookup(cache, s[n].key) : m = n
      BY <1>1 DEF Lookup, s, Unique
    <3>3. (CHOOSE m \in Lookup(cache, s[n].key) : TRUE) = n
      BY <3>1, <3>2
    <3> QED BY <2>4, <3>3 DEF SizeOf, s
  <2>6. SizeTo(s, d) = SizeTo(s, d - 1) + s[d].size
    BY <1>1, <2>1, BlocksSized, SizeToSum
  <2>7. /\ SizeTo(s, d - 1) \in Nat /\ SizeTo(s, d) \in Nat /\ Size(s) \in Nat
        /\ s[d].size \in Nat /\ e.size \in Nat
    <3>1. d - 1 \in 0..Len(s) /\ d \in 0..Len(s)
      BY <1>1, <2>1
    <3>2. SizeTo(s, d - 1) \in Nat /\ SizeTo(s, d) \in Nat /\ Size(s) \in Nat
      BY <1>1, <3>1, BlocksSized, SizeToSum, SizeIsNat
    <3>3. s[d].size \in Nat /\ e.size \in Nat
      BY <1>1, <2>1, BlocksSized DEF Sized
    <3> QED BY <3>2, <3>3
  <2>8. cache'.bytes = (Size(s) - SizeTo(s, d)) + e.size
    BY <1>5, <1>10
  <2>9. CASE Size(s) - SizeTo(s, d - 1) > MaxBytes - e.size
    <3> DEFINE a == Size(s)
               b == SizeTo(s, d - 1)
               w == s[d].size
               z == e.size
               B == cache'.bytes
    <3>1. a \in Nat /\ b \in Nat /\ w \in Nat /\ z \in Nat /\ MaxBytes \in Nat
      BY <2>7, CacheAssumption
    <3>2. B = (a - (b + w)) + z /\ a - b > MaxBytes - z
      BY <2>6, <2>8, <2>9
    <3> HIDE DEF a, b, w, z, B
    <3>3. w + B > MaxBytes
      BY ONLY <3>1, <3>2, SMTT(30)
    <3> QED BY <2>5, <3>3 DEF w, B
  <2> QED BY <1>2, <2>1, <2>9
<1>14. ASSUME NEW n \in 1..Len(s), ~(d < n), NEW k \in KeysOf(cache) \cap KeysOf(cache')
       PROVE  <<s[n].key, k>> \in older
  <2>1. PICK m \in 1..Len(s) : k = s[m].key
    BY <1>12
  <2>2. d < m
    BY <1>11, <2>1
  <2>3. n < m
    BY <1>1, <1>14, <2>2
  <2> QED BY <1>4, <2>1, <2>3 DEF Ordered
<1>15. \A g \in KeysOf(cache) \ KeysOf(cache') :
         \E n \in 1..Len(s) : g = s[n].key /\ ~(d < n)
  BY <1>11, <1>12
<1>16. EvictionForced
  <2> SUFFICES ASSUME NEW g \in KeysOf(cache) \ KeysOf(cache')
               PROVE  /\ \A k \in KeysOf(cache) \cap KeysOf(cache') : <<g, k>> \in older
                      /\ (\A h \in KeysOf(cache) \ KeysOf(cache') : h = g \/ <<h, g>> \in older) =>
                           SizeOf(g) + cache'.bytes > MaxBytes \/ Len(t) = MaxEntries
    BY DEF EvictionForced, t
  <2>1. PICK n \in 1..Len(s) : g = s[n].key /\ ~(d < n)
    BY <1>15
  <2> QED BY <1>13, <1>14, <2>1
<1> QED BY <1>8, <1>16

LEMMA InsertForced ==
  ASSUME ReadsInv, OlderInv, NEW c \in Callers, Running(c), NEW spec \in TasksOf(c),
         Insert(c, spec)
  PROVE  OlderInv' /\ EvictionForced
<1> DEFINE r == calls[c].request
           block == calls[c].tasks[spec].block
           key == Key(r, spec)
           size == DecodedLen(r, spec.decoded)
           e == Entry(key, block, size)
<1>1. /\ CacheOK(cache) /\ r \in Requests /\ spec \in SpecsFor(r)
      /\ TaskOK(r, spec, calls[c].tasks[spec], calls[c].output, faults)
  BY RunningIsFull DEF ReadsInv, Full
<1>2. block = Whole(r, spec) /\ ~Undecodable(r, spec)
  BY <1>1 DEF TaskOK, Insert, Stage
<1>3. block.rows = spec.decoded
  BY <1>2 DEF Whole, Block
<1>4. cache' = Inserted(cache, key, block, size) /\ Touch(key)
  BY <1>3 DEF Insert
<1>5. CacheOK(cache)'
  <2>1. ReadsInv'
    BY InsertKeeps
  <2> QED BY <2>1 DEF ReadsInv
<1>6. e \in Blocks /\ e.key = key
  BY <1>1, <1>2 DEF Blocks, Entry
<1>7. size \in Nat \ {0} /\ \A b \in Blocks : b.key = key => b.size = size
  BY <1>1, KeyTellsSize
<1>8. /\ cache \in Caches(Blocks) /\ WithinLimits(cache) /\ cache'.bytes = Size(cache'.entries)
  <2>1. CacheOK(cache')
    BY <1>5
  <2> QED BY <1>1, <2>1, LimitsInParts DEF CacheOK
<1> DEFINE new == cache'.entries
<1>9. new = Inserted(cache, key, block, size).entries
  BY <1>4
<1> HIDE DEF r, block, key, size, new
<1>10. \/ Lookup(cache, key) = {} /\ TurnedAway(cache.entries, new)
       \/ \E n \in Lookup(cache, key) : Replaced(cache.entries, n, e, new)
       \/ /\ Lookup(cache, key) = {}
          /\ \E d \in 0..Len(cache.entries) : Evicted(cache.entries, d, e, new)
  BY <1>6, <1>7, <1>8, <1>9, BlocksSized, InsertedEnds
<1> HIDE DEF e
<1>11. CASE Lookup(cache, key) = {} /\ TurnedAway(cache.entries, new)
  BY <1>1, <1>4, <1>5, <1>11, RefusedForced DEF new
<1>12. CASE \E n \in Lookup(cache, key) : Replaced(cache.entries, n, e, new)
  BY <1>1, <1>4, <1>6, <1>12, ReplacedForced DEF new
<1>13. CASE /\ Lookup(cache, key) = {}
            /\ \E d \in 0..Len(cache.entries) : Evicted(cache.entries, d, e, new)
  BY <1>1, <1>4, <1>6, <1>8, <1>13, EvictedForced DEF new
<1> QED BY <1>10, <1>11, <1>12, <1>13

LEMMA StartTaskForced ==
  ASSUME ReadsInv, OlderInv, NEW c \in Callers, Running(c), NEW spec \in TasksOf(c),
         StartTask(c, spec)
  PROVE  OlderInv' /\ EvictionForced
<1> DEFINE key == Key(calls[c].request, spec)
<1>1. \/ UNCHANGED <<cache, older>>
      \/ Hits(cache, key) # {} /\ cache' = Promoted(cache, key) /\ Touch(key)
  BY DEF StartTask
<1>2. CASE UNCHANGED <<cache, older>>
  BY <1>2 DEF OlderInv, EvictionForced
<1>3. CASE Hits(cache, key) # {} /\ cache' = Promoted(cache, key) /\ Touch(key)
  <2>1. OlderInv' /\ KeysOf(cache') = KeysOf(cache)
    BY <1>3, HitOrders DEF ReadsInv
  <2> QED BY <2>1 DEF EvictionForced
<1> QED BY <1>1, <1>2, <1>3

\* One step: only an insertion evicts, and only it and a hit reorder the entries.
LEMMA NextForced ==
  ASSUME ReadsInv, OlderInv, [Next]_vars
  PROVE  OlderInv' /\ EvictionForced
<1>1. CASE UNCHANGED <<cache, older>>
  BY <1>1 DEF OlderInv, EvictionForced
<1>2. ASSUME NEW c \in Callers, Running(c), Step(c) PROVE OlderInv' /\ EvictionForced
  <2>1. \/ UNCHANGED <<cache, older>>
        \/ \E spec \in TasksOf(c) : StartTask(c, spec) \/ Insert(c, spec)
    BY <1>2 DEF Step, FetchRows, Fetch, Copy, Return
  <2> QED BY <1>1, <1>2, <2>1, InsertForced, StartTaskForced
<1>3. ASSUME NEW c \in Callers, NEW r \in Requests, Begin(c, r) PROVE UNCHANGED <<cache, older>>
  BY <1>3 DEF Begin
<1>4. ASSUME NEW c \in Callers, NEW spec \in TasksOf(c), FetchFails(c, spec)
      PROVE  UNCHANGED <<cache, older>>
  BY <1>4 DEF FetchFails
<1>5. UNCHANGED vars => UNCHANGED <<cache, older>>
  BY DEF vars
<1> QED BY <1>1, <1>2, <1>3, <1>4, <1>5 DEF Next

\* The history is the order of the cache in every state.
THEOREM OlderInvariant == Spec => []OlderInv
<1>1. Init => OlderInv
  BY DEF Init, OlderInv, Ordered, EmptyCache
<1>2. ReadsInv /\ OlderInv /\ [Next]_vars => OlderInv'
  BY NextForced
<1> QED BY <1>1, <1>2, ReadsInvariant, PTL DEF Spec

(***************************************************************************)
(* BlockCache evicts in the order of use, and only for want of room: a     *)
(* block leaves before every one that was used after it, and the last that *)
(* leaves would not fit beside what the cache holds now.                   *)
(***************************************************************************)
THEOREM EvictionIsForced == Spec => EvictsOnlyWhatItMust
<1>1. ReadsInv /\ OlderInv /\ [Next]_vars => [EvictionForced]_vars
  BY NextForced
<1> QED BY <1>1, ReadsInvariant, OlderInvariant, PTL DEF Spec, EvictsOnlyWhatItMust
===============================================================================
