------------------------------ MODULE HttpRange ------------------------------
(***************************************************************************)
(* geotiff-reader's remote source: reads of a byte range are assembled     *)
(* from fixed chunks, each fetched by one HTTP range request and kept in   *)
(* an LRU cache.  The lock is released between the lookup, the request and *)
(* the insertion, so readers of one file overlap freely.  Nothing makes    *)
(* the server keep the object: it may be replaced between two requests,    *)
(* and all that ties a response to the file that was opened is the length. *)
(***************************************************************************)
EXTENDS LruCache, FiniteSets

CONSTANTS Lengths,      \* Lengths[v]: the length of version v of the object
          ChunkSize, Readers,
          Ranges,       \* the reads: [off, len]
          Kinds,        \* [blocking, sendsTotal]: the blocking source or the async one, and
                        \* whether the server states the object's length with a range
          MaxReads, MaxReplacements, MaxFaults    \* bounds of the model

ASSUME HttpAssumption ==
  /\ Lengths \in Seq(Nat) /\ Len(Lengths) > 0 /\ ChunkSize \in Nat \ {0}
  /\ Ranges \subseteq [off : Nat, len : Nat]
  /\ Kinds \subseteq [blocking : BOOLEAN, sendsTotal : BOOLEAN]
  /\ MaxReads \in Nat /\ MaxReplacements \in Nat /\ MaxFaults \in Nat

VARIABLES kind,       \* the source, and the server behind it
          object,     \* the version the server holds
          opened,     \* the version at open, 0 before, -1 if open failed
          length,     \* HttpRangeSource::len
          cache, reads,
          count, replacements, faults   \* counted for the model's bounds

vars == <<kind, object, opened, length, cache, reads, count, replacements, faults>>
source == <<kind, object, opened, length, replacements>>

----------------------------------------------------------------------------
\* The n bytes of version v from offset off, as values.
Bytes(v, off, n) == [i \in 1..n |-> [version |-> v, at |-> off + i - 1]]

ChunkStart(k) == k * ChunkSize
\* Mutant: the last chunk is asked for in full.
ChunkEndUnclipped(k) == ChunkStart(k) + ChunkSize - 1

ChunkEnd(k) == (IF ChunkStart(k) + ChunkSize <= length THEN ChunkStart(k) + ChunkSize ELSE length) - 1

(***************************************************************************)
(* The server, for a request of bytes first..last.  It answers with a      *)
(* partial response that says which bytes it holds, perhaps others than    *)
(* asked for, with all of the object, or with an error.  A body may break  *)
(* off early or run on.                                                    *)
(***************************************************************************)
NoTotal == -1
Response(status, first, last, body) ==
  [status |-> status, first |-> first, last |-> last, body |-> body,
   total |-> IF kind.sendsTotal THEN Lengths[object] ELSE NoTotal]

Cut(first, last) ==
  LET end == IF last < Lengths[object] THEN last ELSE Lengths[object] - 1
  IN Response(206, first, end, Bytes(object, first, end - first + 1))

Proper(first, last) ==
  IF first < Lengths[object] THEN Cut(first, last) ELSE Response(416, 0, 0, <<>>)

Faulty(first, last) ==
  {Response(200, 0, 0, Bytes(object, 0, Lengths[object])), Response(500, 0, 0, <<>>)}
  \cup (IF first >= Lengths[object] THEN {}
        ELSE {Cut(first, last - 1), Cut(0, last), Cut(0, last - first),
              [Cut(first, last) EXCEPT !.body = SubSeq(@, 1, Len(@) - 1)],
              [Cut(first, last) EXCEPT !.body = Append(@, [version |-> object, at |-> -1])]})

\* Mutants: which bytes the response holds, and the object's length, are not looked at.
AnyRange(resp, first, last) ==
  resp.total # NoTotal => resp.last < resp.total /\ resp.total = length

AnyTotal(resp, first, last) ==
  resp.first <= resp.last /\ resp.first = first /\ resp.last = last

\* parse_content_range and validate_content_range_header.
RangeValid(resp, first, last) ==
  /\ resp.first <= resp.last /\ resp.first = first /\ resp.last = last
  /\ resp.total # NoTotal => resp.last < resp.total /\ resp.total = length

\* The blocking source reads no more than it asked for; the async one rejects more.
BodyOf(resp, n) ==
  IF kind.blocking /\ Len(resp.body) > n THEN SubSeq(resp.body, 1, n) ELSE resp.body

Accepted(resp, first, last) ==
  /\ resp.status = 206
  /\ RangeValid(resp, first, last)
  /\ Len(BodyOf(resp, last - first + 1)) = last - first + 1
----------------------------------------------------------------------------
Idle == [status |-> "idle"]
Begun(range) ==
  [status |-> "running", off |-> range.off, end |-> range.off + range.len,
   chunk |-> range.off \div ChunkSize, stage |-> "lookup", body |-> <<>>, out |-> <<>>]

Running(r) == reads[r].status = "running"

Init ==
  /\ kind \in Kinds /\ object = 1 /\ opened = 0 /\ length = 0
  /\ cache = EmptyCache
  /\ reads = [r \in Readers |-> Idle]
  /\ count = [r \in Readers |-> 0] /\ replacements = 0 /\ faults = 0

\* probe_total_from_content_range: the response to a request for the first byte.
ProbeTells(probe) ==
  /\ probe.status = 206 /\ probe.first = 0 /\ probe.last = 0
  /\ probe.total # NoTotal

(***************************************************************************)
(* probe_content_length: from a HEAD, or, where that does not tell, from   *)
(* the total of a request for the first byte.                              *)
(***************************************************************************)
Open(headTells) ==
  LET probe == Proper(0, 0)
  IN /\ opened = 0
     /\ \/ headTells /\ opened' = object /\ length' = Lengths[object]
        \/ /\ ~headTells /\ ProbeTells(probe)
           /\ opened' = object /\ length' = probe.total
        \/ /\ ~headTells /\ ~ProbeTells(probe)
           /\ opened' = -1 /\ UNCHANGED length
     /\ UNCHANGED <<kind, object, cache, reads, count, replacements, faults>>

\* Someone stores another version under the URL.
Replace ==
  /\ opened > 0 /\ replacements < MaxReplacements
  /\ object' \in DOMAIN Lengths \ {object}
  /\ replacements' = replacements + 1
  /\ UNCHANGED <<kind, opened, length, cache, reads, count, faults>>

Begin(r, range) ==
  /\ opened > 0 /\ ~Running(r) /\ count[r] < MaxReads
  /\ count' = [count EXCEPT ![r] = @ + 1]
  /\ reads' = [reads EXCEPT ![r] =
       IF range.len = 0 THEN [Begun(range) EXCEPT !.status = "ok"]
       ELSE IF range.off + range.len > length THEN [Begun(range) EXCEPT !.status = "failed"]
       ELSE Begun(range)]
  /\ UNCHANGED <<source, cache, faults>>

\* read_exact_at takes its part of chunk k, and goes on to the next or returns.
Taken(read, chunk) ==
  LET k == read.chunk
      last == (read.end - 1) \div ChunkSize
      from == IF k = read.off \div ChunkSize THEN read.off - ChunkStart(k) ELSE 0
      to   == IF k = last THEN read.end - ChunkStart(k) ELSE Len(chunk)
  IN [read EXCEPT !.out = @ \o SubSeq(chunk, from + 1, to), !.body = <<>>,
                  !.chunk = @ + 1, !.stage = "lookup",
                  !.status = IF k = last THEN "ok" ELSE "running"]

Find(r) ==
  LET k == reads[r].chunk
  IN /\ Running(r) /\ reads[r].stage = "lookup"
     /\ IF Hits(cache, k) # {}
        THEN /\ \E hit \in Hits(cache, k) :
                  reads' = [reads EXCEPT ![r] = Taken(@, hit.value)]
             /\ cache' = Promoted(cache, k)
        ELSE /\ reads' = [reads EXCEPT ![r] =
                  IF ChunkStart(k) >= length THEN [@ EXCEPT !.status = "failed"]
                  ELSE [@ EXCEPT !.stage = "request"]]
             /\ UNCHANGED cache
     /\ UNCHANGED <<source, count, faults>>

\* Mutant: what is not accepted is asked for again.
ReceiveOrRetry(r, resp) ==
  LET first == ChunkStart(reads[r].chunk)
      last  == ChunkEnd(reads[r].chunk)
  IN reads' = [reads EXCEPT ![r] =
       IF Accepted(resp, first, last)
       THEN [@ EXCEPT !.stage = "store", !.body = BodyOf(resp, last - first + 1)] ELSE @]

Receive(r, resp) ==
  LET first == ChunkStart(reads[r].chunk)
      last  == ChunkEnd(reads[r].chunk)
  IN reads' = [reads EXCEPT ![r] =
       IF Accepted(resp, first, last)
       THEN [@ EXCEPT !.stage = "store", !.body = BodyOf(resp, last - first + 1)]
       ELSE [@ EXCEPT !.status = "failed"]]

Requesting(r) == Running(r) /\ reads[r].stage = "request"

Answered(r) ==
  /\ Requesting(r)
  /\ Receive(r, Proper(ChunkStart(reads[r].chunk), ChunkEnd(reads[r].chunk)))
  /\ UNCHANGED <<source, cache, count, faults>>

AnsweredBadly(r) ==
  /\ Requesting(r) /\ faults < MaxFaults
  /\ \E resp \in Faulty(ChunkStart(reads[r].chunk), ChunkEnd(reads[r].chunk)) : Receive(r, resp)
  /\ faults' = faults + 1
  /\ UNCHANGED <<source, cache, count>>

\* No answer, or not all of it, before a timeout.
TimesOut(r) ==
  /\ Requesting(r) /\ faults < MaxFaults
  /\ reads' = [reads EXCEPT ![r].status = "failed"]
  /\ faults' = faults + 1
  /\ UNCHANGED <<source, cache, count>>

Store(r) ==
  /\ Running(r) /\ reads[r].stage = "store"
  /\ cache' = Inserted(cache, reads[r].chunk, reads[r].body, Len(reads[r].body))
  /\ reads' = [reads EXCEPT ![r] = Taken(@, @.body)]
  /\ UNCHANGED <<source, count, faults>>

Next ==
  \/ \E headTells \in BOOLEAN : Open(headTells)
  \/ Replace
  \/ \E r \in Readers :
       \/ \E range \in Ranges : Begin(r, range)
       \/ Find(r) \/ Answered(r) \/ AnsweredBadly(r) \/ TimesOut(r) \/ Store(r)

Spec ==
  /\ Init /\ [][Next]_vars
  /\ \A r \in Readers : WF_vars(Find(r) \/ Answered(r) \/ Store(r))
----------------------------------------------------------------------------

(***************************************************************************)
(* A read that succeeds returns every byte of its range in its place, in   *)
(* whatever order chunks were fetched, shared, evicted and fetched again,  *)
(* and whichever responses broke off, ran on or held other bytes.          *)
(***************************************************************************)
BytesInPlace ==
  \A r \in Readers : reads[r].status = "ok" =>
    /\ Len(reads[r].out) = reads[r].end - reads[r].off
    /\ \A i \in DOMAIN reads[r].out : reads[r].out[i].at = reads[r].off + i - 1

(***************************************************************************)
(* No cached chunk mixes two versions of the object, and where the server  *)
(* states lengths, none comes from a version of another length than the    *)
(* file that was opened: a read may mix versions, but only of one length.  *)
(***************************************************************************)
ChunksAreWhole ==
  \A n \in DOMAIN cache.entries :
    LET chunk == cache.entries[n].value
    IN \E v \in DOMAIN Lengths :
         /\ chunk = Bytes(v, ChunkStart(cache.entries[n].key), Len(chunk))
         /\ Len(chunk) = ChunkEnd(cache.entries[n].key) - ChunkStart(cache.entries[n].key) + 1
         /\ kind.sendsTotal => Lengths[v] = length

\* Every read returns: no reader waits for another one's request.
ReadsReturn == \A r \in Readers : Running(r) ~> ~Running(r)

(***************************************************************************)
(* As long as the object stays and the server answers, a read fails only   *)
(* for a range that does not lie within the object: the requests for its   *)
(* chunks, the last and shorter one among them, ask for what can be had.   *)
(***************************************************************************)
ReadsSucceed ==
  faults = 0 /\ replacements = 0 =>
    \A r \in Readers : reads[r].status = "failed" =>
      reads[r].off < reads[r].end /\ reads[r].end > Lengths[object]
===============================================================================
