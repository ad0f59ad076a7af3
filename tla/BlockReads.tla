------------------------------ MODULE BlockReads ------------------------------
(***************************************************************************)
(* tiff-reader's window reads.  A call finds the strips or tiles that its  *)
(* window touches and runs one task for each, all at once (rayon): look    *)
(* the decoded block up in the shared cache, fetch and decode it without   *)
(* the lock, insert it, and copy the window's rows into the output.  Any   *)
(* number of callers read through one file and its cache.  One strip that  *)
(* holds a whole uncompressed image is read only in part, and then must    *)
(* not be cached.  Columns are left to another module: a row is one value. *)
(***************************************************************************)
EXTENDS LruCache, FiniteSets

CONSTANTS Images,       \* what the IFDs say, see IsImage
          Requests,     \* the windows callers read, see IsRequest
          Callers,
          Ghost,        \* the file has GDAL structural metadata
          Budget,       \* decode_output_bytes
          MaxCalls, MaxFaults     \* bounds of the model: calls of a caller, source errors

\* bytes[i] is the declared byte count of block i and unset the blocks whose offset
\* is zero; a row takes diskRow bytes in the file, and row bytes once unpacked.
IsImage(img) ==
  /\ img.ifd \in Nat /\ img.kind \in {"Strip", "Tile"} /\ img.verbatim \in BOOLEAN
  /\ {img.height, img.blockHeight, img.planes, img.diskRow, img.row} \subseteq Nat \ {0}
  /\ \A i \in DOMAIN img.bytes : i \in Nat /\ img.bytes[i] \in Nat

\* Only strips have packed reads; planes names the sample planes to read.
IsRequest(r) ==
  /\ r.image \in Images /\ r.off \in Nat /\ r.rows \in Nat \ {0}
  /\ r.off + r.rows <= r.image.height
  /\ r.packed => r.image.kind = "Strip" /\ r.image.row # r.image.diskRow
  /\ r.planes \subseteq 0..(r.image.planes - 1)

ASSUME ReadsAssumption ==
  /\ \A img \in Images : IsImage(img)
  /\ \A a, b \in Images : a.ifd = b.ifd => a = b
  /\ \A r \in Requests : IsRequest(r)
  /\ Ghost \in BOOLEAN /\ Budget \in Nat /\ MaxCalls \in Nat /\ MaxFaults \in Nat

VARIABLES calls,     \* per caller: its request, tasks and output
          cache,
          older,     \* history: pairs of cached keys, the first used less recently
          faults, count    \* counted for the model's bounds

vars == <<calls, cache, older, faults, count>>

----------------------------------------------------------------------------
\* Geometry: collect_strip_specs_for_window and collect_tile_specs_for_window.
CeilDiv(a, b) == (a + b - 1) \div b
Least(a, b) == IF a <= b THEN a ELSE b
Most(a, b)  == IF a >= b THEN a ELSE b

PerPlane(img) == CeilDiv(img.height, img.blockHeight)

BlockSpec(img, plane, k) ==
  LET start == k * img.blockHeight
      rows  == Least(img.blockHeight, img.height - start)
  IN [index |-> plane * PerPlane(img) + k, plane |-> plane, start |-> start, rows |-> rows,
      decoded |-> IF img.kind = "Tile" THEN img.blockHeight ELSE rows]

SpecsFor(r) ==
  LET first == r.off \div r.image.blockHeight
      end   == Least(CeilDiv(r.off + r.rows, r.image.blockHeight), PerPlane(r.image))
  IN {BlockSpec(r.image, plane, k) : plane \in r.planes, k \in first..(end - 1)}

RowLen(r) == IF r.packed THEN r.image.diskRow ELSE r.image.row
DecodedLen(r, rows) == rows * RowLen(r)
OutputLen(r) == r.rows * Cardinality(r.planes) * RowLen(r)

\* Bytes of an encoded block, and the most that are read for one.
EncodedLen(img, rows) == rows * img.diskRow
ByteCountLimit(img, rows) ==
  IF img.verbatim THEN EncodedLen(img, rows) ELSE 4 * EncodedLen(img, rows) + 4096

\* A block without a payload reads as zeros.
IsSparse(img, spec) == spec.index \in img.unset \/ img.bytes[spec.index] = 0

\* Mutant: packed and unpacked blocks share their keys.
KeyOfEitherForm(r, spec) ==
  [ifd |-> r.image.ifd, kind |-> r.image.kind, index |-> spec.index, packed |-> FALSE]

Key(r, spec) ==
  [ifd |-> r.image.ifd, kind |-> r.image.kind, index |-> spec.index, packed |-> r.packed]

\* A decoded block: rows from the first one of a block, in one of two forms.
Block(r, spec, first, rows) ==
  [ifd |-> r.image.ifd, index |-> spec.index, first |-> first, rows |-> rows,
   packed |-> r.packed, zero |-> IsSparse(r.image, spec)]

RowOf(block, k) ==
  [ifd |-> block.ifd, index |-> block.index, row |-> block.first + k,
   packed |-> block.packed, zero |-> block.zero]

\* The rows of a strip a window needs, when they alone can be read.
ClipStart(r, spec) == Most(spec.start, r.off)
ClipRows(r, spec)  == Least(spec.start + spec.rows, r.off + r.rows) - ClipStart(r, spec)

Eligible(r, spec) ==
  /\ r.image.kind = "Strip" /\ ~Ghost /\ r.image.verbatim
  /\ spec.start = 0 /\ spec.rows = r.image.height

Bounded(r, spec) ==
  /\ Eligible(r, spec)
  /\ EncodedLen(r.image, ClipStart(r, spec) - spec.start + ClipRows(r, spec))
       <= r.image.bytes[spec.index]

Clipped(r, spec) ==
  [spec EXCEPT !.start = ClipStart(r, spec), !.rows = ClipRows(r, spec),
               !.decoded = ClipRows(r, spec)]
Whole(r, spec) == Block(r, spec, 0, spec.decoded)

RowsOnly(r, spec) == Block(r, spec, ClipStart(r, spec) - spec.start, ClipRows(r, spec))
----------------------------------------------------------------------------
\* Tasks and calls.
NoBlock == [none |-> TRUE]
NoRow   == [none |-> TRUE]
Todo    == [stage |-> "todo", block |-> NoBlock]
NoCall  == [status |-> "idle"]

Cells(r) == r.planes \X (r.off..(r.off + r.rows - 1))

Started(r) ==
  [status |-> "running", request |-> r, tasks |-> [spec \in SpecsFor(r) |-> Todo],
   output |-> [cell \in Cells(r) |-> NoRow]]

Running(c) == calls[c].status = "running"
TasksOf(c) == DOMAIN calls[c].tasks
Stage(c, spec) == calls[c].tasks[spec].stage

\* A task's spec is replaced when its block holds only a part of the strip.
SetTask(c, spec, stage, block) ==
  calls' = [calls EXCEPT ![c].tasks[spec] = [stage |-> stage, block |-> block]]

\* A use of key: all others are older, and what the cache no longer holds is forgotten.
Touch(key) ==
  LET others == KeysOf(cache') \ {key}
  IN older' = (older \cap (others \X others)) \cup (others \X (KeysOf(cache') \cap {key}))

Init ==
  /\ calls = [c \in Callers |-> NoCall]
  /\ cache = EmptyCache /\ older = {}
  /\ faults = 0 /\ count = [c \in Callers |-> 0]

Begin(c, r) ==
  /\ ~Running(c) /\ count[c] < MaxCalls
  /\ count' = [count EXCEPT ![c] = @ + 1]
  /\ calls' = [calls EXCEPT ![c] =
       IF OutputLen(r) > Budget \/ Cardinality(DOMAIN r.image.bytes) # r.image.planes * PerPlane(r.image)
       THEN [status |-> "refused", request |-> r] ELSE Started(r)]
  /\ UNCHANGED <<cache, older, faults>>

(***************************************************************************)
(* A task up to the point where it reads the source, if it does: bounded   *)
(* read, cache lookup, sparse block.                                       *)
(***************************************************************************)
StartTask(c, spec) ==
  LET r == calls[c].request
      img == r.image
      key == Key(r, spec)
  IN /\ Running(c) /\ Stage(c, spec) = "todo"
     /\ IF Eligible(r, spec) /\ img.bytes[spec.index] > ByteCountLimit(img, spec.rows)
        THEN SetTask(c, spec, "failed", NoBlock) /\ UNCHANGED <<cache, older>>
        ELSE IF Bounded(r, spec)
        THEN /\ IF DecodedLen(r, ClipRows(r, spec)) > Budget
                THEN SetTask(c, spec, "failed", NoBlock)
                ELSE IF IsSparse(img, spec) THEN SetTask(c, spec, "copy", RowsOnly(r, spec))
                ELSE SetTask(c, spec, "fetchRows", NoBlock)
             /\ UNCHANGED <<cache, older>>
        ELSE IF DecodedLen(r, spec.decoded) > Budget
        THEN SetTask(c, spec, "failed", NoBlock) /\ UNCHANGED <<cache, older>>
        ELSE IF Hits(cache, key) # {}
        THEN /\ \E hit \in Hits(cache, key) : SetTask(c, spec, "copy", hit.value)
             /\ cache' = Promoted(cache, key)
             /\ Touch(key)
        ELSE /\ IF IsSparse(img, spec) THEN SetTask(c, spec, "insert", Whole(r, spec))
                ELSE SetTask(c, spec, "fetch", NoBlock)
             /\ UNCHANGED <<cache, older>>
     /\ UNCHANGED <<faults, count>>

\* Mutant: the rows of a giant strip are cached as if they were all of it.
FetchRowsCached(c, spec) ==
  /\ Running(c) /\ Stage(c, spec) = "fetchRows"
  /\ SetTask(c, spec, "insert", RowsOnly(calls[c].request, spec))
  /\ UNCHANGED <<cache, older, faults, count>>

\* Read and decode the rows of one giant strip: the result is not cached.
FetchRows(c, spec) ==
  /\ Running(c) /\ Stage(c, spec) = "fetchRows"
  /\ SetTask(c, spec, "copy", RowsOnly(calls[c].request, spec))
  /\ UNCHANGED <<cache, older, faults, count>>

\* Mutant: a short payload is accepted.
FetchUnchecked(c, spec) ==
  /\ Running(c) /\ Stage(c, spec) = "fetch"
  /\ SetTask(c, spec, "insert", Whole(calls[c].request, spec))
  /\ UNCHANGED <<cache, older, faults, count>>

\* Read and decode a whole block; a payload of the wrong length is an error.
Fetch(c, spec) ==
  LET r == calls[c].request
      bytes == r.image.bytes[spec.index]
  IN /\ Running(c) /\ Stage(c, spec) = "fetch"
     /\ IF \/ bytes > ByteCountLimit(r.image, spec.decoded)
           \/ r.image.verbatim /\ bytes < EncodedLen(r.image, spec.decoded)
        THEN SetTask(c, spec, "failed", NoBlock)
        ELSE SetTask(c, spec, "insert", Whole(r, spec))
     /\ UNCHANGED <<cache, older, faults, count>>

FetchFails(c, spec) ==
  /\ Running(c) /\ Stage(c, spec) \in {"fetch", "fetchRows"}
  /\ faults < MaxFaults
  /\ faults' = faults + 1
  /\ SetTask(c, spec, "failed", NoBlock)
  /\ UNCHANGED <<cache, older, count>>

Insert(c, spec) ==
  LET r == calls[c].request
      block == calls[c].tasks[spec].block
      key == Key(r, spec)
  IN /\ Running(c) /\ Stage(c, spec) = "insert"
     /\ cache' = Inserted(cache, key, block, DecodedLen(r, block.rows))
     /\ SetTask(c, spec, "copy", block)
     /\ Touch(key)
     /\ UNCHANGED <<faults, count>>

\* The spec a task copies with: the clipped one when the block holds only rows of it.
CopySpec(r, spec) == IF Bounded(r, spec) THEN Clipped(r, spec) ELSE spec

(***************************************************************************)
(* Copy the window's rows out of the block, under the lock of the output.  *)
(* A row beyond the block's would be an index out of range: a panic.       *)
(***************************************************************************)
Copy(c, spec) ==
  LET r == calls[c].request
      block == calls[c].tasks[spec].block
      from == CopySpec(r, spec)
      rows == Most(from.start, r.off)..(Least(from.start + from.rows, r.off + r.rows) - 1)
  IN /\ Running(c) /\ Stage(c, spec) = "copy"
     /\ IF \E row \in rows : row - from.start >= block.rows
        THEN SetTask(c, spec, "panic", block)
        ELSE calls' = [calls EXCEPT
               ![c].tasks[spec] = [stage |-> "done", block |-> NoBlock],
               ![c].output = [cell \in DOMAIN @ |->
                  IF cell[1] = spec.plane /\ cell[2] \in rows
                  THEN RowOf(block, cell[2] - from.start) ELSE @[cell]]]
     /\ UNCHANGED <<cache, older, faults, count>>

\* Mutant: a call waits for all its tasks to succeed.
ReturnOnSuccess(c) ==
  /\ Running(c)
  /\ \A spec \in TasksOf(c) : Stage(c, spec) = "done"
  /\ calls' = [calls EXCEPT ![c].status = "ok"]
  /\ UNCHANGED <<cache, older, faults, count>>

\* A call returns when no task is under way; after an error no other need start.
Return(c) ==
  LET stages == {Stage(c, spec) : spec \in TasksOf(c)}
  IN /\ Running(c)
     /\ \/ stages \subseteq {"done"}
           /\ calls' = [calls EXCEPT ![c].status = "ok"]
        \/ "failed" \in stages /\ stages \subseteq {"todo", "done", "failed"}
           /\ calls' = [calls EXCEPT ![c].status = "failed"]
     /\ UNCHANGED <<cache, older, faults, count>>

Step(c) ==
  \/ \E spec \in TasksOf(c) :
       \/ StartTask(c, spec) \/ FetchRows(c, spec) \/ Fetch(c, spec)
       \/ Insert(c, spec) \/ Copy(c, spec)
  \/ Return(c)

Next ==
  \E c \in Callers :
    \/ \E r \in Requests : Begin(c, r)
    \/ Running(c) /\ Step(c)
    \/ Running(c) /\ \E spec \in TasksOf(c) : FetchFails(c, spec)

Spec ==
  /\ Init /\ [][Next]_vars
  /\ \A c \in Callers : WF_vars(Running(c) /\ Step(c))
----------------------------------------------------------------------------

(***************************************************************************)
(* A call that succeeds has filled its whole output, each cell with the    *)
(* row of the image that belongs there, in the form it asked for, whatever *)
(* other calls and tasks did to the cache meanwhile.                       *)
(***************************************************************************)
Expected(r, cell) ==
  LET img == r.image
      k == cell[2] \div img.blockHeight
      spec == BlockSpec(img, cell[1], k)
  IN [ifd |-> img.ifd, index |-> spec.index, row |-> cell[2] - k * img.blockHeight,
      packed |-> r.packed, zero |-> IsSparse(img, spec)]

ReadsExact ==
  \A c \in Callers : calls[c].status = "ok" =>
    \A cell \in Cells(calls[c].request) :
      calls[c].output[cell] = Expected(calls[c].request, cell)

\* No task ever indexes beyond the block it was given, cached by whichever call.
NoPanic ==
  \A c \in Callers : Running(c) =>
    \A spec \in TasksOf(c) : Stage(c, spec) # "panic"

(***************************************************************************)
(* Tasks that fetch the same block twice, blocks that replace one another  *)
(* and blocks too large to keep never upset the cache's byte counter, and  *)
(* neither cap is exceeded.                                                *)
(***************************************************************************)
CacheWithinLimits == WithinLimits(cache)

(***************************************************************************)
(* Without source errors, whether a call succeeds depends on the file and  *)
(* the request alone, never on what the cache happens to hold.             *)
(***************************************************************************)
Undecodable(r, spec) ==
  LET bytes == r.image.bytes[spec.index]
  IN /\ ~IsSparse(r.image, spec)
     /\ \/ bytes > ByteCountLimit(r.image, spec.decoded)
        \/ r.image.verbatim /\ bytes < EncodedLen(r.image, spec.decoded)

Readable(r, spec) ==
  /\ ~(Eligible(r, spec) /\ r.image.bytes[spec.index] > ByteCountLimit(r.image, spec.rows))
  /\ IF Bounded(r, spec) THEN DecodedLen(r, ClipRows(r, spec)) <= Budget
     ELSE DecodedLen(r, spec.decoded) <= Budget /\ ~Undecodable(r, spec)

OutcomeIsDetermined ==
  \A c \in Callers : faults = 0 /\ calls[c].status \in {"ok", "failed"} =>
    (calls[c].status = "ok" <=>
       \A spec \in TasksOf(c) : Readable(calls[c].request, spec))

(***************************************************************************)
(* What leaves the cache was used less recently than anything that stays,  *)
(* and leaves only when it has to: the block that left last would not fit  *)
(* beside what the cache holds now.                                        *)
(***************************************************************************)
SizeOf(key) == cache.entries[CHOOSE n \in Lookup(cache, key) : TRUE].size

EvictionForced ==
  LET gone == KeysOf(cache) \ KeysOf(cache')
      kept == KeysOf(cache) \cap KeysOf(cache')
  IN \A key \in gone :
       /\ \A k \in kept : <<key, k>> \in older
       /\ (\A g \in gone : g = key \/ <<g, key>> \in older) =>
            SizeOf(key) + cache'.bytes > MaxBytes \/ Len(cache'.entries) = MaxEntries

EvictsOnlyWhatItMust == [][EvictionForced]_vars

\* Every call that began returns, also when one of its tasks failed.
CallsReturn == \A c \in Callers : Running(c) ~> ~Running(c)
===============================================================================
