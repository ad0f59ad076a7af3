---------------------------- MODULE HttpRangeProofs ----------------------------
(***************************************************************************)
(* The range source, for objects and chunks of any size, any number of     *)
(* readers and replacements, and any faults: a read that succeeds has      *)
(* every byte in its place, cached chunks are whole, and without faults    *)
(* and replacements only reads beyond the object fail.                     *)
(***************************************************************************)
EXTENDS HttpRange, SharedLemmas

Byte == [version : Int, at : Int]

LEMMA BytesType ==
  ASSUME NEW v \in Int, NEW off \in Int, NEW n \in Nat
  PROVE  /\ Bytes(v, off, n) \in Seq(Byte) /\ Len(Bytes(v, off, n)) = n
         /\ \A i \in 1..n : Bytes(v, off, n)[i] = [version |-> v, at |-> off + i - 1]
BY DEF Bytes, Byte

----------------------------------------------------------------------------
(***************************************************************************)
(* The inductive invariant.  ChunkLen is a chunk's length in the opened    *)
(* object, Versions those whose chunks may get past the checks, and Chunks *)
(* what the cache may hold.                                                *)
(***************************************************************************)
ChunkLen(k) == ChunkEnd(k) - ChunkStart(k) + 1
WholeChunk(v, k) == Bytes(v, ChunkStart(k), ChunkLen(k))

Passing  == {v \in DOMAIN Lengths : kind.sendsTotal => Lengths[v] = length}
Chunks ==
  UNION {{Entry(k, WholeChunk(v, k), ChunkLen(k)) : v \in Passing} :
           k \in {n \in Nat : ChunkStart(n) < length}}

Read == [status : {"running", "ok", "failed"}, off : Nat, end : Nat, chunk : Nat,
         stage : {"lookup", "request", "store"}, body : Seq(Byte), out : Seq(Byte)]

InPlace(x) == \A i \in 1..Len(x.out) : x.out[i].at = x.off + i - 1

\* A running read has what lies before its next chunk.
Position(x) == IF x.chunk = x.off \div ChunkSize THEN x.off ELSE ChunkStart(x.chunk)

RunOK(x) ==
  /\ x.off < x.end /\ x.end <= length
  /\ x.off \div ChunkSize <= x.chunk /\ x.chunk <= (x.end - 1) \div ChunkSize
  /\ Len(x.out) = Position(x) - x.off
  /\ x.stage = "store" => \E v \in Passing : x.body = WholeChunk(v, x.chunk)

ReadFits(x) ==
  /\ x \in Read /\ InPlace(x)
  /\ x.status = "running" => RunOK(x)
  /\ x.status = "ok" => Len(x.out) = x.end - x.off

BeyondObject(x) == x.status = "failed" => x.off < x.end /\ x.end > Lengths[object]

ReadOK(x) ==
  /\ ReadFits(x)
  /\ faults = 0 /\ replacements = 0 => BeyondObject(x)

SourceOK ==
  /\ kind \in [blocking : BOOLEAN, sendsTotal : BOOLEAN]
  /\ object \in DOMAIN Lengths /\ opened \in Int /\ length \in Nat
  /\ faults \in Nat /\ replacements \in Nat
  /\ opened > 0 /\ replacements = 0 => length = Lengths[object]

ReadsOK ==
  /\ reads = [r \in Readers |-> reads[r]]
  /\ \A r \in Readers : reads[r] = Idle \/ ReadOK(reads[r])

HttpInv ==
  /\ SourceOK /\ ReadsOK
  /\ cache \in Caches(Chunks) /\ WithinLimits(cache)
  /\ opened <= 0 => cache = EmptyCache /\ reads = [r \in Readers |-> Idle]

----------------------------------------------------------------------------
LEMMA ObjectLength ==
  ASSUME SourceOK
  PROVE  /\ Lengths[object] \in Nat /\ object \in Int
         /\ \A v \in DOMAIN Lengths : Lengths[v] \in Nat /\ v \in Int
BY HttpAssumption DEF SourceOK

LEMMA ChunkFacts ==
  ASSUME SourceOK, NEW k \in Nat, ChunkStart(k) < length
  PROVE  /\ ChunkStart(k) \in Nat /\ ChunkEnd(k) \in Nat /\ ChunkLen(k) \in Nat \ {0}
         /\ ChunkStart(k) = k * ChunkSize
         /\ ChunkEnd(k) = ChunkStart(k) + ChunkLen(k) - 1
         /\ ChunkStart(k) + ChunkLen(k) <= length
         /\ ChunkLen(k) = IF k * ChunkSize + ChunkSize <= length THEN ChunkSize
                          ELSE length - k * ChunkSize
<1> DEFINE at == k * ChunkSize
<1>1. at \in Nat /\ ChunkSize \in Nat \ {0} /\ length \in Nat
  BY HttpAssumption DEF SourceOK
<1>2. ChunkStart(k) = at
  BY DEF ChunkStart
<1>3. /\ ChunkEnd(k) = (IF at + ChunkSize <= length THEN at + ChunkSize ELSE length) - 1
      /\ ChunkLen(k) = ChunkEnd(k) - at + 1
  BY <1>2 DEF ChunkEnd, ChunkLen
<1>4. at < length
  BY <1>2
<1> HIDE DEF at
<1>5. /\ ChunkEnd(k) \in Nat /\ ChunkLen(k) \in Nat \ {0}
      /\ ChunkEnd(k) = at + ChunkLen(k) - 1 /\ at + ChunkLen(k) <= length
      /\ ChunkLen(k) = IF at + ChunkSize <= length THEN ChunkSize ELSE length - at
  BY <1>1, <1>3, <1>4
<1> QED BY <1>1, <1>2, <1>5 DEF at

LEMMA ChunksSized == SourceOK => Sized(Chunks)
<1> SUFFICES ASSUME SourceOK, NEW k \in Nat, ChunkStart(k) < length, NEW v \in Passing
             PROVE  Entry(k, WholeChunk(v, k), ChunkLen(k)).size \in Nat
  BY DEF Sized, Chunks
<1> QED BY ChunkFacts DEF Entry

LEMMA WholeChunkIs ==
  ASSUME SourceOK, NEW k \in Nat, ChunkStart(k) < length, NEW v \in Passing
  PROVE  /\ WholeChunk(v, k) \in Seq(Byte) /\ Len(WholeChunk(v, k)) = ChunkLen(k)
         /\ \A i \in 1..ChunkLen(k) : WholeChunk(v, k)[i].at = ChunkStart(k) + i - 1
<1>1. v \in Int
  BY ObjectLength DEF Passing
<1>2. ChunkStart(k) \in Int /\ ChunkLen(k) \in Nat
  BY ChunkFacts
<1> DEFINE at == ChunkStart(k)
           n == ChunkLen(k)
<1> HIDE DEF at, n
<1>3. Bytes(v, at, n) \in Seq(Byte) /\ Len(Bytes(v, at, n)) = n
  BY <1>1, <1>2, BytesType DEF at, n
<1>4. \A i \in 1..n : Bytes(v, at, n)[i] = [version |-> v, at |-> at + i - 1]
  BY <1>1, <1>2, BytesType DEF at, n
<1>5. ASSUME NEW i \in 1..n PROVE Bytes(v, at, n)[i].at = at + i - 1
  <2>1. Bytes(v, at, n)[i] = [version |-> v, at |-> at + i - 1]
    BY <1>4
  <2> QED BY <2>1
<1>6. WholeChunk(v, k) = Bytes(v, at, n)
  BY DEF WholeChunk, at, n
<1> QED BY <1>3, <1>5, <1>6 DEF at, n

\* The chunk a running read is at begins within the object.
LEMMA RunningChunk ==
  ASSUME SourceOK, NEW x \in Read, RunOK(x)
  PROVE  x.chunk \in Nat /\ ChunkStart(x.chunk) < x.end /\ ChunkStart(x.chunk) < length
<1> DEFINE last == (x.end - 1) \div ChunkSize
<1>1. /\ x.chunk \in Nat /\ x.end \in Nat /\ x.off \in Nat /\ x.off < x.end /\ x.end <= length
      /\ ChunkSize \in Nat \ {0} /\ length \in Nat /\ x.chunk <= last
  BY HttpAssumption DEF SourceOK, Read, RunOK
<1>2. last \in Nat /\ last * ChunkSize <= x.end - 1
  <2>1. x.end - 1 \in Nat
    BY <1>1
  <2> QED BY <1>1, <2>1, Quotient
<1> HIDE DEF last
<1>3. x.chunk * ChunkSize <= last * ChunkSize
  <2>1. x.chunk * ChunkSize \in Nat /\ last * ChunkSize \in Nat
    BY <1>1, <1>2
  <2>2. CASE x.chunk = last
    BY <2>1, <2>2
  <2>3. CASE x.chunk < last
    <3>1. x.chunk * ChunkSize + ChunkSize <= last * ChunkSize
      BY <1>1, <1>2, <2>3, Multiples
    <3> QED BY <1>1, <2>1, <3>1
  <2> QED BY <1>1, <1>2, <2>2, <2>3
<1>4. x.chunk * ChunkSize \in Nat /\ last * ChunkSize \in Nat
  BY <1>1, <1>2
<1>5. x.chunk * ChunkSize < x.end /\ x.chunk * ChunkSize < length
  BY <1>1, <1>2, <1>3, <1>4
<1> QED BY <1>1, <1>5 DEF ChunkStart

----------------------------------------------------------------------------
(***************************************************************************)
(* The part of a chunk, from byte s of the object, that a read of bytes    *)
(* off up to end takes: the arithmetic of read_exact_at.                   *)
(***************************************************************************)
LEMMA LastPart ==
  ASSUME NEW size \in Nat \ {0}, NEW length0 \in Nat, NEW end \in Nat, NEW s \in Nat, NEW from \in Nat,
         NEW whole, end <= length0, end <= s + size, s + from < end,
         whole = IF s + size <= length0 THEN size ELSE length0 - s
  PROVE  end - s \in Nat /\ from < end - s /\ end - s <= whole
OBVIOUS

LEMMA InnerPart ==
  ASSUME NEW size \in Nat \ {0}, NEW length0 \in Nat, NEW end \in Nat, NEW s \in Nat,
         NEW whole, end <= length0, s + size <= end - 1,
         whole = IF s + size <= length0 THEN size ELSE length0 - s
  PROVE  whole = size
OBVIOUS

(***************************************************************************)
(* read_exact_at takes its part of a whole chunk: what it has stays in     *)
(* place, and it ends with the read's last byte.                           *)
(***************************************************************************)
LEMMA TakenFacts ==
  ASSUME SourceOK, NEW x \in Read, RunOK(x), InPlace(x), x.status = "running",
         NEW v \in Passing, NEW chunk, chunk = WholeChunk(v, x.chunk)
  PROVE  ReadFits(Taken(x, chunk)) /\ Taken(x, chunk).status # "failed"
<1> DEFINE k == x.chunk
           s == k * ChunkSize
           first == x.off \div ChunkSize
           last == (x.end - 1) \div ChunkSize
           from == IF k = first THEN x.off - s ELSE 0
           to == IF k = last THEN x.end - s ELSE Len(chunk)
           piece == SubSeq(chunk, from + 1, to)
           out == x.out \o piece
           y == [x EXCEPT !.out = out, !.body = <<>>, !.chunk = k + 1, !.stage = "lookup",
                          !.status = IF k = last THEN "ok" ELSE "running"]
<1>1. Taken(x, chunk) = y
  BY DEF Taken, ChunkStart
<1>2. /\ k \in Nat /\ x.off \in Nat /\ x.end \in Nat /\ length \in Nat
      /\ ChunkSize \in Nat \ {0} /\ x.out \in Seq(Byte) /\ Len(x.out) \in Nat
      /\ x.off < x.end /\ x.end <= length /\ first <= k /\ k <= last
      /\ s \in Nat /\ s < x.end /\ s < length
  <2>1. ChunkStart(x.chunk) < x.end /\ ChunkStart(x.chunk) < length
    BY RunningChunk
  <2>2. /\ k \in Nat /\ x.off \in Nat /\ x.end \in Nat /\ length \in Nat
        /\ ChunkSize \in Nat \ {0} /\ x.out \in Seq(Byte)
    BY HttpAssumption DEF SourceOK, Read
  <2>3. x.off < x.end /\ x.end <= length /\ first <= k /\ k <= last
    BY DEF RunOK
  <2>4. s \in Nat /\ s < x.end /\ s < length
    BY <2>1, <2>2 DEF ChunkStart
  <2> QED BY <2>2, <2>3, <2>4
<1>3. /\ first \in Nat /\ first * ChunkSize <= x.off
      /\ x.off < first * ChunkSize + ChunkSize
  BY <1>2, Quotient
<1>4. /\ last \in Nat /\ last * ChunkSize <= x.end - 1
      /\ x.end - 1 < last * ChunkSize + ChunkSize
  <2>1. x.end - 1 \in Nat
    BY <1>2
  <2> QED BY <1>2, <2>1, Quotient
<1>5. /\ chunk \in Seq(Byte) /\ Len(chunk) = ChunkLen(k)
      /\ \A i \in 1..Len(chunk) : chunk[i].at = s + i - 1
      /\ ChunkLen(k) = IF s + ChunkSize <= length THEN ChunkSize ELSE length - s
  <2>1. ChunkStart(k) < length /\ ChunkStart(k) = s
    BY <1>2 DEF ChunkStart
  <2>2. /\ chunk \in Seq(Byte) /\ Len(chunk) = ChunkLen(k)
        /\ \A i \in 1..ChunkLen(k) : chunk[i].at = ChunkStart(k) + i - 1
    BY <1>2, <2>1, WholeChunkIs
  <2>3. ChunkLen(k) = IF s + ChunkSize <= length THEN ChunkSize ELSE length - s
    BY <1>2, <2>1, ChunkFacts
  <2> HIDE DEF s, k
  <2> QED BY <2>1, <2>2, <2>3
<1>6. Len(x.out) = (IF k = first THEN x.off ELSE s) - x.off
  BY DEF RunOK, Position, ChunkStart
<1>7. (k + 1) * ChunkSize = s + ChunkSize
  BY <1>2
<1> HIDE DEF first, last, s, k
<1>8. k # last => s + ChunkSize <= x.end - 1
  <2> SUFFICES ASSUME k # last PROVE s + ChunkSize <= x.end - 1
    OBVIOUS
  <2>1. k * ChunkSize + ChunkSize <= last * ChunkSize
    BY <1>2, <1>4, Multiples
  <2>2. last * ChunkSize \in Nat /\ s = k * ChunkSize
    BY <1>2, <1>4 DEF s
  <2> QED BY <1>2, <1>4, <2>1, <2>2
<1>9. k = last => x.end <= s + ChunkSize
  BY <1>2, <1>4 DEF s
<1>10. k = first => s <= x.off /\ x.off < s + ChunkSize
  BY <1>2, <1>3 DEF s
<1> DEFINE have == Len(x.out)
           whole == Len(chunk)
           begins == k = first
           ends == k = last
<1>10a. /\ whole = IF s + ChunkSize <= length THEN ChunkSize ELSE length - s
        /\ have = (IF begins THEN x.off ELSE s) - x.off
        /\ from = IF begins THEN x.off - s ELSE 0
        /\ to = IF ends THEN x.end - s ELSE whole
        /\ begins => s <= x.off /\ x.off < s + ChunkSize
        /\ ~ends => s + ChunkSize <= x.end - 1
        /\ ends => x.end <= s + ChunkSize
  BY <1>5, <1>6, <1>8, <1>9, <1>10
<1>10b. /\ x.off \in Nat /\ x.end \in Nat /\ length \in Nat /\ ChunkSize \in Nat \ {0}
        /\ x.off < x.end /\ x.end <= length /\ s \in Nat /\ s < x.end /\ s < length
  BY <1>2
<1> HIDE DEF have, whole, begins, ends, from, to
<1>11. /\ from \in Nat /\ to \in Nat /\ from < to /\ to <= whole
       /\ s + from = x.off + have
       /\ ~ends => to = ChunkSize
       /\ ends => to = x.end - s
  <2>1. /\ from \in Nat /\ s + from = x.off + have /\ from < ChunkSize
        /\ s + from < x.end /\ s + from < length
    <3>1. CASE begins
      BY ONLY <1>10a, <1>10b, <3>1, SMTT(30)
    <3>2. CASE ~begins
      BY ONLY <1>10a, <1>10b, <3>2, SMTT(30)
    <3> QED BY <3>1, <3>2
  <2>2. CASE ends
    <3>1. to = x.end - s /\ x.end <= s + ChunkSize
      BY ONLY <1>10a, <2>2
    <3>2. x.end - s \in Nat /\ from < x.end - s /\ x.end - s <= whole
      BY ONLY <1>10a, <1>10b, <2>1, <3>1, LastPart
    <3> QED BY ONLY <2>1, <2>2, <3>1, <3>2
  <2>3. CASE ~ends
    <3>1. to = whole /\ s + ChunkSize <= x.end - 1
      BY ONLY <1>10a, <2>3
    <3>2. whole = ChunkSize
      BY ONLY <1>10a, <1>10b, <3>1, InnerPart
    <3> QED BY ONLY <1>10b, <2>1, <2>3, <3>1, <3>2
  <2> QED BY <2>2, <2>3
<1>11a. /\ from \in Nat /\ to \in Nat /\ from < to /\ to <= Len(chunk)
        /\ s + from = x.off + Len(x.out)
        /\ k # last => to = ChunkSize
        /\ k = last => to = x.end - s
  BY <1>11 DEF have, whole, ends
<1>12. /\ piece \in Seq(Byte) /\ Len(piece) = to - from
       /\ \A i \in 1..(to - from) : piece[i] = chunk[from + i]
  <2>1. \A i \in (from + 1)..to : chunk[i] \in Byte
    <3> SUFFICES ASSUME NEW i \in (from + 1)..to PROVE chunk[i] \in Byte
      OBVIOUS
    <3>1. i \in 1..Len(chunk)
      BY <1>5, <1>11a
    <3> QED BY <1>5, <3>1, ElementOfSeq
  <2>2. /\ piece \in Seq(Byte)
        /\ Len(piece) = IF from + 1 <= to THEN to - (from + 1) + 1 ELSE 0
        /\ \A i \in 1..(to - (from + 1) + 1) : piece[i] = chunk[(from + 1) + i - 1]
    BY <1>11a, <2>1, SubSeqProperties
  <2>3. Len(piece) = to - from
    BY <1>11a, <2>2
  <2>4. \A i \in 1..(to - from) :
          i \in 1..(to - (from + 1) + 1) /\ (from + 1) + i - 1 = from + i
    BY <1>11a
  <2> HIDE DEF piece
  <2>5. \A i \in 1..(to - from) : piece[i] = chunk[from + i]
    BY <2>2, <2>4
  <2> QED BY <2>2, <2>3, <2>5, SMTT(30)
<1> HIDE DEF piece
<1>13. /\ out \in Seq(Byte) /\ Len(out) = Len(x.out) + Len(piece)
       /\ \A i \in 1..(Len(x.out) + Len(piece)) :
            out[i] = IF i <= Len(x.out) THEN x.out[i] ELSE piece[i - Len(x.out)]
  <2> DEFINE had == x.out
  <2>1. had \in Seq(Byte) /\ piece \in Seq(Byte)
    BY <1>2, <1>12
  <2> HIDE DEF had
  <2>2. /\ had \o piece \in Seq(Byte) /\ Len(had \o piece) = Len(had) + Len(piece)
        /\ \A i \in 1..(Len(had) + Len(piece)) :
             (had \o piece)[i] = IF i <= Len(had) THEN had[i] ELSE piece[i - Len(had)]
    BY ONLY <2>1, ConcatProperties
  <2> QED BY <2>2 DEF had
<1> HIDE DEF out
<1>14. Len(out) = (s + to) - x.off
  <2>1. Len(out) = Len(x.out) + (to - from)
    BY <1>12, <1>13
  <2> DEFINE m == Len(x.out)
             total == Len(out)
  <2>2. m \in Nat /\ total = m + (to - from)
    BY <1>2, <2>1
  <2>3. from \in Nat /\ to \in Nat /\ s + from = x.off + m
    BY <1>11a
  <2>4. s \in Nat /\ x.off \in Nat
    BY <1>2
  <2> HIDE DEF m, total
  <2>5. total = (s + to) - x.off
    BY ONLY <2>2, <2>3, <2>4
  <2> QED BY <2>5 DEF total
<1>15. \A i \in 1..Len(out) : out[i].at = x.off + i - 1
  <2> SUFFICES ASSUME NEW i \in 1..Len(out) PROVE out[i].at = x.off + i - 1
    OBVIOUS
  <2>1. CASE i <= Len(x.out)
    <3>1. out[i] = x.out[i] /\ i \in 1..Len(x.out)
      BY <1>2, <1>13, <2>1
    <3> QED BY <3>1 DEF InPlace
  <2>2. CASE ~(i <= Len(x.out))
    <3> DEFINE j == i - Len(x.out)
    <3>0. Len(out) = Len(x.out) + (to - from) /\ Len(piece) = to - from
      BY <1>12, <1>13
    <3>1. j \in 1..(to - from) /\ out[i] = piece[j]
      <4>1. i \in 1..(Len(x.out) + Len(piece))
        BY <3>0
      <4>2. out[i] = piece[j]
        BY <1>13, <2>2, <4>1
      <4>3. j \in 1..(to - from)
        BY <1>2, <1>11a, <2>2, <3>0
      <4> QED BY <4>2, <4>3
    <3>2. piece[j] = chunk[from + j] /\ from + j \in 1..Len(chunk)
      <4>1. piece[j] = chunk[from + j]
        BY <1>12, <3>1
      <4>2. Len(chunk) \in Nat
        BY <1>5
      <4> HIDE DEF j
      <4>3. from + j \in 1..Len(chunk)
        BY <1>11a, <3>1, <4>2
      <4> QED BY <4>1, <4>3
    <3>3. out[i].at = s + (from + j) - 1
      BY <1>5, <3>1, <3>2
    <3>4. s + (from + j) - 1 = x.off + i - 1
      <4> DEFINE m == Len(x.out)
      <4>1. j = i - m /\ i \in Int /\ m \in Nat
        BY <1>2
      <4>2. s \in Nat /\ x.off \in Nat /\ from \in Nat /\ s + from = x.off + m
        BY <1>2, <1>11a
      <4> HIDE DEF j, m
      <4> QED BY ONLY <4>1, <4>2
    <3> QED BY <3>3, <3>4
  <2> QED BY <2>1, <2>2
<1>16. y \in Read
  <2>1. <<>> \in Seq(Byte) /\ k + 1 \in Nat /\ out \in Seq(Byte)
    BY <1>2, <1>13
  <2>2. (IF k = last THEN "ok" ELSE "running") \in {"running", "ok", "failed"}
    OBVIOUS
  <2> DEFINE status == IF k = last THEN "ok" ELSE "running"
             next == k + 1
  <2> HIDE DEF status, next
  <2>3. [x EXCEPT !.out = out, !.body = <<>>, !.chunk = next, !.stage = "lookup",
                  !.status = status] \in Read
    BY <2>1, <2>2 DEF Read, status, next
  <2> QED BY <2>3 DEF status, next
<1>17. /\ y.status = IF k = last THEN "ok" ELSE "running"
       /\ y.off = x.off /\ y.end = x.end /\ y.chunk = k + 1
       /\ y.stage = "lookup" /\ y.out = out
  BY <1>2 DEF Read
<1> HIDE DEF y
<1>18. InPlace(y)
  BY <1>15, <1>17 DEF InPlace
<1>19. y.status = "ok" => Len(y.out) = y.end - y.off
  <2> SUFFICES ASSUME y.status = "ok" PROVE Len(y.out) = y.end - y.off
    OBVIOUS
  <2>1. to = x.end - s
    BY <1>11a, <1>17
  <2>2. s + to = x.end
    BY <1>2, <2>1
  <2> QED BY <1>14, <1>17, <2>2
<1>20. ASSUME y.status = "running" PROVE RunOK(y)
  <2>1. k # last
    BY <1>17, <1>20
  <2>2. Position(y) = s + ChunkSize
    <3>1. k + 1 # first
      BY <1>2, <1>3
    <3>2. ChunkStart(k + 1) = s + ChunkSize
      BY <1>7 DEF ChunkStart
    <3> QED BY <1>17, <3>1, <3>2 DEF Position, first
  <2>3. Len(y.out) = Position(y) - y.off
    BY <1>11a, <1>14, <1>17, <2>1, <2>2
  <2>4. first <= k + 1 /\ k + 1 <= last
    BY <1>2, <1>3, <1>4, <2>1
  <2> QED BY <1>2, <1>17, <2>3, <2>4 DEF RunOK, first, last
<1> QED BY <1>1, <1>16, <1>17, <1>18, <1>19, <1>20 DEF ReadFits

----------------------------------------------------------------------------
(***************************************************************************)
(* Of all the responses the server can give, those that get past           *)
(* validate_content_range_header and the length check hold the chunk, of   *)
(* an object that passes.                                                  *)
(***************************************************************************)
LEMMA CutIs ==
  ASSUME SourceOK, NEW first \in Nat, NEW last \in Int
  PROVE  /\ Cut(first, last).status = 206 /\ Cut(first, last).first = first
         /\ Cut(first, last).last =
              IF last < Lengths[object] THEN last ELSE Lengths[object] - 1
         /\ Cut(first, last).total = IF kind.sendsTotal THEN Lengths[object] ELSE -1
         /\ Cut(first, last).body =
              Bytes(object, first, Cut(first, last).last - first + 1)
BY DEF Cut, Response, NoTotal

LEMMA CutAccepted ==
  ASSUME SourceOK, NEW first \in Nat, NEW last \in Nat, first <= last,
         Cut(first, last).last = last
  PROVE  /\ Cut(first, last).body = Bytes(object, first, last - first + 1)
         /\ Len(Cut(first, last).body) = last - first + 1
         /\ BodyOf(Cut(first, last), last - first + 1) = Cut(first, last).body
<1>1. Cut(first, last).body = Bytes(object, first, last - first + 1)
  BY CutIs
<1>2. last - first + 1 \in Nat
  OBVIOUS
<1> DEFINE n == last - first + 1
           resp == Cut(first, last)
<1> HIDE DEF n, resp
<1>3. Len(Bytes(object, first, n)) = n
  <2>1. n \in Nat /\ object \in Int /\ first \in Int
    BY <1>2, ObjectLength DEF n
  <2> QED BY <2>1, BytesType
<1>4. n \in Nat /\ Len(resp.body) = n
  <2>1. resp.body = Bytes(object, first, n) /\ n \in Nat
    BY <1>1, <1>2 DEF n, resp
  <2> QED BY <1>3, <2>1
<1>5. ~(Len(resp.body) > n)
  BY <1>4
<1>6. BodyOf(resp, n) = resp.body
  BY <1>5 DEF BodyOf
<1> QED BY <1>1, <1>4, <1>6 DEF n, resp

\* A response whose total, if it states one, is the opened length comes from an object that passes.
LEMMA TotalPasses ==
  ASSUME SourceOK, NEW first \in Nat, NEW last \in Int, NEW resp,
         resp.total = Cut(first, last).total,
         resp.total # NoTotal => resp.total = length
  PROVE  object \in Passing
<1>1. Lengths[object] \in Nat /\ object \in DOMAIN Lengths
  BY ObjectLength DEF SourceOK
<1>2. Cut(first, last).total = IF kind.sendsTotal THEN Lengths[object] ELSE -1
  BY CutIs
<1>3. kind.sendsTotal => Lengths[object] = length
  BY <1>1, <1>2 DEF NoTotal
<1> QED BY <1>1, <1>3 DEF Passing

LEMMA AcceptedIsWhole ==
  ASSUME SourceOK, NEW k \in Nat, ChunkStart(k) < length, NEW resp,
         resp \in {Proper(ChunkStart(k), ChunkEnd(k))} \cup Faulty(ChunkStart(k), ChunkEnd(k)),
         Accepted(resp, ChunkStart(k), ChunkEnd(k))
  PROVE  /\ object \in Passing
         /\ BodyOf(resp, ChunkEnd(k) - ChunkStart(k) + 1) = WholeChunk(object, k)
<1> DEFINE first == ChunkStart(k)
           last == ChunkEnd(k)
           n == last - first + 1
           whole == Cut(first, last)
<1>1. /\ first \in Nat /\ last \in Nat /\ n \in Nat \ {0} /\ first <= last /\ n = ChunkLen(k)
  BY ChunkFacts DEF ChunkLen
<1>2. WholeChunk(object, k) = Bytes(object, first, n)
  BY DEF WholeChunk, ChunkLen
<1>3. /\ resp.status = 206 /\ resp.first = first /\ resp.last = last
      /\ resp.total # NoTotal => resp.total = length
      /\ Len(BodyOf(resp, n)) = n
  BY DEF Accepted, RangeValid
<1>4. resp \in {Proper(first, last)} \cup Faulty(first, last)
  OBVIOUS
<1> HIDE DEF first, last
<1>5. CASE resp = whole
  <2>1. whole.last = last
    BY <1>3, <1>5
  <2>2. object \in Passing
    BY <1>1, <1>3, <1>5, TotalPasses
  <2>3. BodyOf(whole, n) = Bytes(object, first, n)
    BY <1>1, <2>1, CutAccepted
  <2> QED BY <1>2, <1>5, <2>2, <2>3 DEF first, last
<1>6. CASE resp = Cut(0, last) \/ resp = Cut(0, last - first)
  <2>1. Cut(0, last).first = 0 /\ Cut(0, last - first).first = 0
    BY <1>1, CutIs
  <2>2. first = 0
    BY <1>3, <1>6, <2>1
  <2>3. resp = whole
    BY <1>1, <1>6, <2>2
  <2> QED BY <1>5, <2>3
<1>7. CASE resp = Cut(first, last - 1)
  <2>1. Cut(first, last - 1).last =
          IF last - 1 < Lengths[object] THEN last - 1 ELSE Lengths[object] - 1
    BY <1>1, CutIs
  <2>2. Cut(first, last - 1).last # last
    BY <1>1, <2>1, ObjectLength
  <2> QED BY <1>3, <1>7, <2>2
<1>8. CASE resp = [whole EXCEPT !.body = SubSeq(@, 1, Len(@) - 1)]
  <2>1. resp.last = whole.last /\ resp.body = SubSeq(whole.body, 1, Len(whole.body) - 1)
    BY <1>8, SMTT(30) DEF Cut, Response
  <2>2. /\ whole.body = Bytes(object, first, n) /\ Len(whole.body) = n
    BY <1>1, <1>3, <2>1, CutAccepted, SMTT(30)
  <2>3. whole.body \in Seq(Byte)
    <3>1. object \in Int /\ first \in Int /\ n \in Nat
      BY <1>1, ObjectLength
    <3> HIDE DEF n, whole
    <3> QED BY <2>2, <3>1, BytesType
  <2>4. Len(resp.body) = n - 1
    BY <1>1, <2>1, <2>2, <2>3
  <2>5. BodyOf(resp, n) = resp.body
    BY <1>1, <2>4 DEF BodyOf
  <2> QED BY <1>1, <1>3, <2>4, <2>5
<1>9. CASE resp = [whole EXCEPT !.body = Append(@, [version |-> object, at |-> -1])]
  <2> DEFINE junk == [version |-> object, at |-> -1]
  <2>1. /\ resp.last = whole.last /\ resp.body = Append(whole.body, junk)
        /\ resp.total = whole.total
    BY <1>9, SMTT(30) DEF Cut, Response
  <2>2. /\ whole.body = Bytes(object, first, n) /\ Len(whole.body) = n
    BY <1>1, <1>3, <2>1, CutAccepted, SMTT(30)
  <2>3. whole.body \in Seq(Byte) /\ junk \in Byte
    <3>1. object \in Int /\ first \in Int /\ n \in Nat
      BY <1>1, ObjectLength
    <3>2. junk \in Byte
      BY <3>1 DEF Byte
    <3> HIDE DEF n, whole, junk
    <3> QED BY <2>2, <3>1, <3>2, BytesType
  <2> HIDE DEF junk, whole, n
  <2>4. /\ resp.body \in Seq(Byte) /\ Len(resp.body) = n + 1
        /\ \A i \in 1..n : resp.body[i] = whole.body[i]
    BY <1>1, <2>1, <2>2, <2>3 DEF n
  <2>5. SubSeq(resp.body, 1, n) = whole.body
    <3>1. n \in Nat \ {0}
      BY <1>1 DEF n
    <3>2. \A i \in 1..n : resp.body[i] \in Byte
      BY <2>4, <3>1
    <3>3. /\ SubSeq(resp.body, 1, n) \in Seq(Byte) /\ Len(SubSeq(resp.body, 1, n)) = n
          /\ \A i \in 1..n : SubSeq(resp.body, 1, n)[i] = resp.body[i]
      BY <2>4, <3>1
    <3> QED BY <2>2, <2>3, <2>4, <3>1, <3>3, SeqEqual
  <2>6. BodyOf(resp, n) = whole.body
    <3>1. CASE kind.blocking
      <4>1. n \in Nat /\ Len(resp.body) > n
        BY <1>1, <2>4 DEF n
      <4>2. BodyOf(resp, n) = SubSeq(resp.body, 1, n)
        BY <3>1, <4>1 DEF BodyOf
      <4> QED BY <2>5, <4>2
    <3>2. CASE ~kind.blocking
      <4>1. BodyOf(resp, n) = resp.body
        BY <3>2 DEF BodyOf
      <4> QED BY <1>1, <1>3, <2>4, <4>1 DEF n
    <3> QED BY <3>1, <3>2
  <2>7. object \in Passing
    BY <1>1, <1>3, <2>1, TotalPasses DEF whole
  <2> QED BY <1>2, <2>2, <2>6, <2>7 DEF first, last, n
<1>10. resp.status = 206 =>
         \/ resp = whole \/ resp = Cut(0, last) \/ resp = Cut(0, last - first)
         \/ resp = Cut(first, last - 1)
         \/ resp = [whole EXCEPT !.body = SubSeq(@, 1, Len(@) - 1)]
         \/ resp = [whole EXCEPT !.body = Append(@, [version |-> object, at |-> -1])]
  BY <1>4 DEF Proper, Faulty, Response
<1> QED BY <1>3, <1>5, <1>6, <1>7, <1>8, <1>9, <1>10

----------------------------------------------------------------------------
\* What an operation leaves of the other reads, and what it must show of the one it moves.
LEMMA ReadsKept ==
  ASSUME ReadsOK, UNCHANGED <<kind, length>>,
         NEW r \in Readers, NEW y, ReadFits(y), reads' = [reads EXCEPT ![r] = y],
         faults' = 0 /\ replacements' = 0 =>
           faults = 0 /\ replacements = 0 /\ object' = object /\ BeyondObject(y)
  PROVE  ReadsOK'
<1>1. reads' = [q \in Readers |-> reads'[q]]
  BY DEF ReadsOK
<1>2. ASSUME NEW q \in Readers PROVE (reads[q] = Idle \/ ReadOK(reads[q]))'
  <2>1. reads'[q] = Idle \/
          /\ ReadFits(reads'[q])
          /\ faults' = 0 /\ replacements' = 0 => object' = object /\ BeyondObject(reads'[q])
    BY DEF ReadsOK, ReadOK
  <2>2. Passing' = Passing
    BY DEF Passing
  <2>3. ReadFits(reads'[q]) => ReadFits(reads[q])'
    BY <2>2 DEF ReadFits, Read, InPlace, RunOK, Position, WholeChunk, ChunkLen, ChunkStart, ChunkEnd
  <2> QED BY <2>1, <2>3 DEF ReadOK, BeyondObject
<1> QED BY <1>1, <1>2 DEF ReadsOK

LEMMA ChunksKept == UNCHANGED <<kind, length>> => Chunks' = Chunks /\ Caches(Chunks)' = Caches(Chunks)
BY DEF Chunks, Passing, WholeChunk, ChunkLen, ChunkStart, ChunkEnd, Caches

LEMMA InitInv == Init => HttpInv
<1> SUFFICES ASSUME Init PROVE HttpInv
  OBVIOUS
<1>1. SourceOK
  BY HttpAssumption DEF Init, SourceOK
<1>2. reads = [r \in Readers |-> Idle]
  BY DEF Init
<1>3. ReadsOK
  BY <1>2 DEF ReadsOK
<1>4. cache \in Caches(Chunks) /\ WithinLimits(cache)
  BY <1>1, ChunksSized, EmptyKeeps DEF Init
<1> QED BY <1>1, <1>2, <1>3, <1>4 DEF HttpInv, Init

LEMMA OpenKeeps ==
  ASSUME HttpInv, NEW headTells \in BOOLEAN, Open(headTells)
  PROVE  HttpInv'
<1>1. /\ opened = 0 /\ UNCHANGED <<kind, object, cache, reads, count, replacements, faults>>
      /\ \/ opened' = object /\ length' = Lengths[object]
         \/ opened' = -1 /\ length' = length
  <2>1. ProbeTells(Proper(0, 0)) => Proper(0, 0).total = Lengths[object]
    BY DEF ProbeTells, Proper, Cut, Response, NoTotal
  <2> QED BY <2>1 DEF Open
<1>2. cache = EmptyCache /\ reads = [r \in Readers |-> Idle]
  BY <1>1 DEF HttpInv
<1>3. SourceOK /\ SourceOK'
  BY <1>1, ObjectLength DEF HttpInv, SourceOK
<1>4. ReadsOK'
  BY <1>1, <1>2 DEF ReadsOK, Idle
<1>5. (cache \in Caches(Chunks) /\ WithinLimits(cache))'
  <2>1. Sized(Chunks)'
    BY <1>3, ChunksSized, PTL
  <2> QED BY <1>1, <1>2, <2>1, EmptyKeeps
<1> QED BY <1>1, <1>2, <1>3, <1>4, <1>5 DEF HttpInv, Idle, EmptyCache

LEMMA ReplaceKeeps == HttpInv /\ Replace => HttpInv'
<1> SUFFICES ASSUME HttpInv, Replace PROVE HttpInv'
  OBVIOUS
<1>1. /\ opened > 0 /\ object' \in DOMAIN Lengths /\ replacements' = replacements + 1
      /\ UNCHANGED <<kind, opened, length, cache, reads, count, faults>>
  BY DEF Replace
<1>2. SourceOK'
  BY <1>1 DEF HttpInv, SourceOK
<1>3. replacements' # 0
  BY <1>1 DEF HttpInv, SourceOK
<1>4. Chunks' = Chunks /\ Caches(Chunks)' = Caches(Chunks)
  BY <1>1, ChunksKept
<1>5. ReadsOK'
  <2>1. ASSUME NEW q \in Readers PROVE (reads[q] = Idle \/ ReadOK(reads[q]))'
    <3>1. reads[q] = Idle \/ ReadFits(reads[q])
      BY DEF HttpInv, ReadsOK, ReadOK
    <3>2. Passing' = Passing
      BY <1>1 DEF Passing
    <3>3. ReadFits(reads[q]) => ReadFits(reads[q])'
      BY <1>1, <3>2 DEF ReadFits, Read, InPlace, RunOK, Position, WholeChunk, ChunkLen, ChunkStart, ChunkEnd
    <3> QED BY <1>1, <1>3, <3>1, <3>3 DEF ReadOK
  <2> QED BY <1>1, <2>1 DEF HttpInv, ReadsOK
<1>6. (cache \in Caches(Chunks) /\ WithinLimits(cache))'
  BY <1>1, <1>4 DEF HttpInv, WithinLimits
<1> QED BY <1>1, <1>2, <1>5, <1>6 DEF HttpInv, SourceOK

\* Every other operation moves one read, and leaves the source alone.
Moves(r, y) ==
  /\ r \in Readers /\ opened > 0 /\ ReadFits(y)
  /\ reads' = [reads EXCEPT ![r] = y]
  /\ UNCHANGED source
  /\ faults' \in Nat
  /\ faults' = 0 /\ replacements = 0 => faults = 0 /\ BeyondObject(y)

LEMMA MoveKeeps ==
  ASSUME HttpInv, NEW r, NEW y, Moves(r, y),
         cache' \in Caches(Chunks) /\ WithinLimits(cache')
  PROVE  HttpInv'
<1>1. /\ r \in Readers /\ opened > 0 /\ ReadFits(y) /\ reads' = [reads EXCEPT ![r] = y]
      /\ faults' \in Nat
      /\ faults' = 0 /\ replacements = 0 => faults = 0 /\ BeyondObject(y)
      /\ UNCHANGED <<kind, object, opened, length, replacements>>
  BY DEF Moves, source
<1>2. SourceOK'
  BY <1>1 DEF HttpInv, SourceOK
<1>3. ReadsOK'
  <2>1. ReadsOK
    BY DEF HttpInv
  <2> QED BY <1>1, <2>1, ReadsKept
<1>4. (cache \in Caches(Chunks) /\ WithinLimits(cache))'
  BY <1>1, ChunksKept DEF WithinLimits
<1>5. ~(opened' <= 0)
  BY <1>1 DEF HttpInv, SourceOK
<1> QED BY <1>2, <1>3, <1>4, <1>5 DEF HttpInv

LEMMA RunningRead ==
  ASSUME HttpInv, NEW r \in Readers, Running(r)
  PROVE  /\ opened > 0
         /\ reads[r] \in Read /\ InPlace(reads[r]) /\ RunOK(reads[r])
         /\ reads[r].status = "running"
         /\ reads[r].chunk \in Nat /\ ChunkStart(reads[r].chunk) < length
<1>1. reads[r] # Idle /\ reads[r].status = "running"
  BY DEF Running, Idle
<1>2. opened > 0
  <2>1. opened \in Int /\ (opened <= 0 => reads = [q \in Readers |-> Idle])
    BY DEF HttpInv, SourceOK
  <2> QED BY <1>1, <2>1
<1>3. ReadFits(reads[r])
  BY <1>1 DEF HttpInv, ReadsOK, ReadOK
<1>4. reads[r] \in Read /\ InPlace(reads[r]) /\ RunOK(reads[r])
  BY <1>1, <1>3 DEF ReadFits
<1> QED BY <1>1, <1>2, <1>4, RunningChunk DEF HttpInv

LEMMA BeginKeeps ==
  ASSUME HttpInv, NEW r \in Readers, NEW range \in Ranges, Begin(r, range)
  PROVE  HttpInv'
<1> DEFINE b == Begun(range)
           status == IF range.len = 0 THEN "ok"
                     ELSE IF range.off + range.len > length THEN "failed" ELSE "running"
           y == [b EXCEPT !.status = status]
<1>1. /\ range.off \in Nat /\ range.len \in Nat /\ ChunkSize \in Nat \ {0} /\ length \in Nat
  BY HttpAssumption DEF HttpInv, SourceOK
<1>2. /\ opened > 0 /\ UNCHANGED <<source, cache, faults>>
      /\ reads' = [reads EXCEPT ![r] = y]
  BY DEF Begin, Begun
<1>3. y = [status |-> status, off |-> range.off, end |-> range.off + range.len,
           chunk |-> range.off \div ChunkSize, stage |-> "lookup", body |-> <<>>, out |-> <<>>]
  BY DEF Begun
<1>4. status \in {"ok", "failed", "running"}
  OBVIOUS
<1>5. /\ y.status = status /\ y.off = range.off /\ y.end = range.off + range.len
      /\ y.chunk = range.off \div ChunkSize /\ y.stage = "lookup" /\ y.out = <<>>
  BY <1>3
<1>6. y \in Read
  <2>1. range.off \div ChunkSize \in Nat /\ range.off + range.len \in Nat
    BY <1>1, Quotient
  <2>2. <<>> \in Seq(Byte)
    OBVIOUS
  <2> HIDE DEF status
  <2> QED BY <1>1, <1>3, <1>4, <2>1, <2>2 DEF Read
<1> HIDE DEF y
<1>7. InPlace(y)
  BY <1>5 DEF InPlace
<1>8. status = "running" => range.len > 0 /\ range.off + range.len <= length
  BY <1>1
<1>9. status = "ok" => range.len = 0
  OBVIOUS
<1>10. status = "failed" => range.len > 0 /\ range.off + range.len > length
  BY <1>1
<1> HIDE DEF status
<1>11. ASSUME y.status = "running" PROVE RunOK(y)
  <2>1. y.off < y.end /\ y.end <= length
    BY <1>1, <1>5, <1>8, <1>11
  <2>2. y.off \div ChunkSize = y.chunk
    BY <1>5
  <2>3. y.chunk <= (y.end - 1) \div ChunkSize
    <3>1. y.off \in Nat /\ y.end - 1 \in Nat /\ y.off <= y.end - 1
      BY <1>1, <1>5, <2>1
    <3> QED BY <1>1, <2>2, <3>1, QuotientGrows
  <2>4. Len(y.out) = Position(y) - y.off
    BY <1>1, <1>5, <2>2 DEF Position
  <2>5. y.off \div ChunkSize <= y.chunk
    BY <1>1, <1>5, <2>2, Quotient
  <2>6. y.stage # "store"
    BY <1>5
  <2> QED BY <2>1, <2>3, <2>4, <2>5, <2>6 DEF RunOK
<1>12. y.status = "ok" => Len(y.out) = y.end - y.off
  BY <1>1, <1>5, <1>9
<1>13. faults' = 0 /\ replacements = 0 => faults = 0 /\ BeyondObject(y)
  <2>1. replacements = 0 => length = Lengths[object]
    BY <1>2 DEF HttpInv, SourceOK
  <2> QED BY <1>1, <1>2, <1>5, <1>10, <2>1 DEF BeyondObject
<1>14. Moves(r, y)
  <2>1. ReadFits(y)
    BY <1>6, <1>7, <1>11, <1>12 DEF ReadFits
  <2>2. faults' \in Nat /\ UNCHANGED source
    BY <1>2 DEF HttpInv, SourceOK
  <2> QED BY <1>2, <1>13, <2>1, <2>2 DEF Moves
<1>15. cache' \in Caches(Chunks) /\ WithinLimits(cache')
  BY <1>2 DEF HttpInv
<1> QED BY <1>14, <1>15, MoveKeeps

LEMMA FindKeeps ==
  ASSUME HttpInv, NEW r \in Readers, Find(r)
  PROVE  HttpInv'
<1> DEFINE x == reads[r]
           k == x.chunk
<1>1. /\ Running(r) /\ x.stage = "lookup" /\ UNCHANGED <<source, count, faults>>
  BY DEF Find
<1>2. /\ opened > 0 /\ x \in Read /\ InPlace(x) /\ RunOK(x) /\ x.status = "running"
      /\ k \in Nat /\ ChunkStart(k) < length /\ SourceOK /\ Sized(Chunks)
  BY <1>1, RunningRead, ChunksSized DEF HttpInv
<1>3. faults' \in Nat /\ UNCHANGED source
  BY <1>1 DEF HttpInv, SourceOK
<1>4. CASE Hits(cache, k) # {}
  <2>1. PICK hit \in Hits(cache, k) : reads' = [reads EXCEPT ![r] = Taken(@, hit.value)]
    BY <1>4 DEF Find
  <2>2. cache' = Promoted(cache, k)
    BY <1>4 DEF Find
  <2>3. hit \in Chunks /\ hit.key = k
    BY <2>1, HitsHeld DEF HttpInv
  <2>4. \E v \in Passing : hit.value = WholeChunk(v, k)
    BY <2>3 DEF Chunks, Entry
  <2>5. ReadFits(Taken(x, hit.value)) /\ Taken(x, hit.value).status # "failed"
    BY <1>2, <2>4, TakenFacts
  <2>6. Moves(r, Taken(x, hit.value))
    BY <1>1, <1>2, <1>3, <2>1, <2>5 DEF Moves, BeyondObject
  <2>7. cache' \in Caches(Chunks) /\ WithinLimits(cache')
    BY <1>2, <2>2, PromotedKeeps DEF HttpInv
  <2> QED BY <2>6, <2>7, MoveKeeps
<1>5. CASE Hits(cache, k) = {}
  <2> DEFINE y == [x EXCEPT !.stage = "request"]
  <2>1. ~(ChunkStart(k) >= length)
    BY <1>2, ChunkFacts DEF SourceOK
  <2>2. reads' = [reads EXCEPT ![r] = y] /\ cache' = cache
    BY <1>5, <2>1 DEF Find
  <2>3. /\ y \in Read /\ y.stage = "request" /\ y.status = "running" /\ y.off = x.off
        /\ y.end = x.end /\ y.chunk = x.chunk /\ y.out = x.out
    BY <1>2 DEF Read
  <2> HIDE DEF y
  <2>4. ReadFits(y)
    BY <1>2, <2>3 DEF ReadFits, InPlace, RunOK, Position
  <2>5. Moves(r, y)
    BY <1>1, <1>2, <1>3, <2>2, <2>3, <2>4 DEF Moves, BeyondObject
  <2>6. cache' \in Caches(Chunks) /\ WithinLimits(cache')
    BY <2>2 DEF HttpInv
  <2> QED BY <2>5, <2>6, MoveKeeps
<1> QED BY <1>4, <1>5

\* What a request comes to: the chunk, of an object that passes, or a read that fails.
LEMMA ReceiveFits ==
  ASSUME HttpInv, NEW r \in Readers, Requesting(r), NEW resp,
         resp \in {Proper(ChunkStart(reads[r].chunk), ChunkEnd(reads[r].chunk))}
                    \cup Faulty(ChunkStart(reads[r].chunk), ChunkEnd(reads[r].chunk)),
         Receive(r, resp)
  PROVE  \E y : /\ ReadFits(y) /\ reads' = [reads EXCEPT ![r] = y]
                /\ Accepted(resp, ChunkStart(reads[r].chunk), ChunkEnd(reads[r].chunk)) =>
                     y.status # "failed"
<1> DEFINE x == reads[r]
           k == x.chunk
           n == ChunkEnd(k) - ChunkStart(k) + 1
           body == BodyOf(resp, n)
<1>1. /\ x \in Read /\ InPlace(x) /\ RunOK(x) /\ x.status = "running"
      /\ k \in Nat /\ ChunkStart(k) < length /\ SourceOK
  BY RunningRead DEF Requesting, HttpInv
<1>2. CASE Accepted(resp, ChunkStart(k), ChunkEnd(k))
  <2> DEFINE y == [[x EXCEPT !.stage = "store"] EXCEPT !.body = body]
  <2>1. reads' = [reads EXCEPT ![r] = y]
    BY <1>1, <1>2 DEF Receive, Read
  <2>2. object \in Passing /\ body = WholeChunk(object, k)
    BY <1>1, <1>2, AcceptedIsWhole
  <2>3. body \in Seq(Byte)
    BY <1>1, <2>2, WholeChunkIs
  <2> HIDE DEF body
  <2>4. /\ y \in Read /\ y.stage = "store" /\ y.body = body /\ y.status = "running" /\ y.off = x.off
        /\ y.end = x.end /\ y.chunk = x.chunk /\ y.out = x.out
    BY <1>1, <2>3 DEF Read
  <2> HIDE DEF y
  <2>5. RunOK(y)
    BY <1>1, <2>2, <2>4 DEF RunOK, Position
  <2>6. ReadFits(y)
    BY <1>1, <2>4, <2>5 DEF ReadFits, InPlace
  <2> QED BY <2>1, <2>4, <2>6
<1>3. CASE ~Accepted(resp, ChunkStart(k), ChunkEnd(k))
  <2> DEFINE y == [x EXCEPT !.status = "failed"]
  <2>1. reads' = [reads EXCEPT ![r] = y]
    BY <1>3 DEF Receive
  <2>2. y \in Read /\ y.status = "failed" /\ y.off = x.off /\ y.out = x.out
    BY <1>1 DEF Read
  <2> HIDE DEF y
  <2>3. ReadFits(y)
    BY <1>1, <2>2 DEF ReadFits, InPlace
  <2> QED BY <1>3, <2>1, <2>3
<1> QED BY <1>2, <1>3

\* The chunks of an object that is the one opened can be had.
LEMMA ProperAccepted ==
  ASSUME SourceOK, length = Lengths[object], NEW k \in Nat, ChunkStart(k) < length
  PROVE  Accepted(Proper(ChunkStart(k), ChunkEnd(k)), ChunkStart(k), ChunkEnd(k))
<1> DEFINE first == ChunkStart(k)
           last == ChunkEnd(k)
           n == last - first + 1
           resp == Proper(first, last)
<1>1. /\ first \in Nat /\ last \in Nat /\ n \in Nat \ {0} /\ first <= last
      /\ last < length /\ first < length /\ length \in Nat
  BY ChunkFacts DEF SourceOK
<1> HIDE DEF first, last
<1>2. resp = Cut(first, last)
  BY <1>1 DEF Proper
<1>3. Cut(first, last).last = last
  BY <1>1, CutIs
<1>4. /\ resp.status = 206 /\ resp.first = first /\ resp.last = last
      /\ resp.total = IF kind.sendsTotal THEN Lengths[object] ELSE -1
  BY <1>1, <1>2, <1>3, CutIs
<1>5. BodyOf(resp, n) = resp.body /\ Len(resp.body) = n
  BY <1>1, <1>2, <1>3, CutAccepted
<1>6. RangeValid(resp, first, last)
  BY <1>1, <1>4 DEF RangeValid, NoTotal
<1> HIDE DEF resp
<1> QED BY <1>4, <1>5, <1>6 DEF Accepted, first, last, resp

LEMMA AnsweredKeeps ==
  ASSUME HttpInv, NEW r \in Readers, Answered(r)
  PROVE  HttpInv'
<1> DEFINE k == reads[r].chunk
           resp == Proper(ChunkStart(k), ChunkEnd(k))
<1>1. /\ Requesting(r) /\ Receive(r, resp)
      /\ UNCHANGED <<source, cache, count, faults>>
  BY DEF Answered
<1>2. PICK y : /\ ReadFits(y) /\ reads' = [reads EXCEPT ![r] = y]
               /\ Accepted(resp, ChunkStart(k), ChunkEnd(k)) => y.status # "failed"
  BY <1>1, ReceiveFits
<1>3. opened > 0 /\ k \in Nat /\ ChunkStart(k) < length /\ SourceOK
  BY <1>1, RunningRead DEF Requesting, HttpInv
<1>4. replacements = 0 => Accepted(resp, ChunkStart(k), ChunkEnd(k))
  BY <1>3, ProperAccepted DEF SourceOK
<1>5. Moves(r, y)
  BY <1>1, <1>2, <1>3, <1>4 DEF Moves, BeyondObject, SourceOK
<1>6. cache' \in Caches(Chunks) /\ WithinLimits(cache')
  BY <1>1 DEF HttpInv
<1> QED BY <1>5, <1>6, MoveKeeps

LEMMA AnsweredBadlyKeeps ==
  ASSUME HttpInv, NEW r \in Readers, AnsweredBadly(r)
  PROVE  HttpInv'
<1>1. Requesting(r) /\ faults' = faults + 1 /\ UNCHANGED <<source, cache, count>>
  BY DEF AnsweredBadly
<1>2. PICK resp \in Faulty(ChunkStart(reads[r].chunk), ChunkEnd(reads[r].chunk)) :
        Receive(r, resp)
  BY DEF AnsweredBadly
<1>3. PICK y : ReadFits(y) /\ reads' = [reads EXCEPT ![r] = y]
  BY <1>1, <1>2, ReceiveFits
<1>4. opened > 0 /\ faults' \in Nat /\ faults' # 0
  BY <1>1, RunningRead DEF Requesting, HttpInv, SourceOK
<1>5. Moves(r, y)
  BY <1>1, <1>3, <1>4 DEF Moves
<1>6. cache' \in Caches(Chunks) /\ WithinLimits(cache')
  BY <1>1 DEF HttpInv
<1> QED BY <1>5, <1>6, MoveKeeps

LEMMA TimesOutKeeps ==
  ASSUME HttpInv, NEW r \in Readers, TimesOut(r)
  PROVE  HttpInv'
<1> DEFINE x == reads[r]
           y == [x EXCEPT !.status = "failed"]
<1>1. /\ Requesting(r) /\ faults' = faults + 1 /\ UNCHANGED <<source, cache, count>>
      /\ reads' = [reads EXCEPT ![r].status = "failed"]
  BY DEF TimesOut
<1>2. opened > 0 /\ x \in Read /\ InPlace(x) /\ faults' \in Nat /\ faults' # 0
  BY <1>1, RunningRead DEF Requesting, HttpInv, SourceOK
<1>3. reads' = [reads EXCEPT ![r] = y]
  BY <1>1
<1>4. y \in Read /\ y.status = "failed" /\ y.off = x.off /\ y.out = x.out
  BY <1>2 DEF Read
<1> HIDE DEF y
<1>5. ReadFits(y)
  BY <1>2, <1>4 DEF ReadFits, InPlace
<1>6. Moves(r, y)
  BY <1>1, <1>2, <1>3, <1>5 DEF Moves
<1>7. cache' \in Caches(Chunks) /\ WithinLimits(cache')
  BY <1>1 DEF HttpInv
<1> QED BY <1>6, <1>7, MoveKeeps

LEMMA StoreKeeps ==
  ASSUME HttpInv, NEW r \in Readers, Store(r)
  PROVE  HttpInv'
<1> DEFINE x == reads[r]
           k == x.chunk
<1>1. /\ Running(r) /\ x.stage = "store" /\ UNCHANGED <<source, count, faults>>
      /\ cache' = Inserted(cache, k, x.body, Len(x.body))
      /\ reads' = [reads EXCEPT ![r] = Taken(@, @.body)]
  BY DEF Store
<1>2. /\ opened > 0 /\ x \in Read /\ InPlace(x) /\ RunOK(x) /\ x.status = "running"
      /\ k \in Nat /\ ChunkStart(k) < length /\ SourceOK /\ Sized(Chunks)
  BY <1>1, RunningRead, ChunksSized DEF HttpInv
<1>3. PICK v \in Passing : x.body = WholeChunk(v, k)
  BY <1>1, <1>2 DEF RunOK
<1>4. Len(x.body) = ChunkLen(k) /\ Len(x.body) \in Nat
  BY <1>2, <1>3, WholeChunkIs, ChunkFacts
<1>5. reads' = [reads EXCEPT ![r] = Taken(x, x.body)]
  BY <1>1
<1>6. ReadFits(Taken(x, x.body)) /\ Taken(x, x.body).status # "failed"
  BY <1>2, <1>3, TakenFacts
<1>7. faults' \in Nat /\ UNCHANGED source /\ faults' = faults
  BY <1>1 DEF HttpInv, SourceOK
<1>8. Moves(r, Taken(x, x.body))
  BY <1>2, <1>5, <1>6, <1>7 DEF Moves, BeyondObject
<1>9. Entry(k, x.body, Len(x.body)) \in Chunks
  BY <1>2, <1>3, <1>4 DEF Chunks
<1>10. cache' \in Caches(Chunks) /\ WithinLimits(cache')
  BY <1>1, <1>2, <1>4, <1>9, InsertedKeeps DEF HttpInv
<1> QED BY <1>8, <1>10, MoveKeeps

LEMMA NextInv == HttpInv /\ [Next]_vars => HttpInv'
<1> SUFFICES ASSUME HttpInv, [Next]_vars PROVE HttpInv'
  OBVIOUS
<1>1. CASE \E headTells \in BOOLEAN : Open(headTells)
  BY <1>1, OpenKeeps
<1>2. CASE Replace
  BY <1>2, ReplaceKeeps
<1>3. ASSUME NEW r \in Readers,
             \/ \E range \in Ranges : Begin(r, range)
             \/ Find(r) \/ Answered(r) \/ AnsweredBadly(r) \/ TimesOut(r) \/ Store(r)
      PROVE  HttpInv'
  BY <1>3, BeginKeeps, FindKeeps, AnsweredKeeps, AnsweredBadlyKeeps, TimesOutKeeps, StoreKeeps
<1>4. CASE UNCHANGED vars
  <2>1. UNCHANGED <<kind, object, opened, length, cache, reads, replacements, faults>>
    BY <1>4 DEF vars
  <2>2. Caches(Chunks)' = Caches(Chunks) /\ Passing' = Passing
    BY <2>1, ChunksKept DEF Passing
  <2>3. SourceOK' /\ (cache \in Caches(Chunks) /\ WithinLimits(cache))'
    BY <2>1, <2>2 DEF HttpInv, SourceOK, WithinLimits
  <2>4. ASSUME NEW q \in Readers PROVE (reads[q] = Idle \/ ReadOK(reads[q]))'
    <3>1. reads[q] = Idle \/ ReadOK(reads[q])
      BY DEF HttpInv, ReadsOK
    <3> QED BY <2>1, <2>2, <3>1 DEF ReadOK, ReadFits, BeyondObject, Read, InPlace, RunOK,
              Position, WholeChunk, ChunkLen, ChunkStart, ChunkEnd
  <2> QED BY <2>1, <2>3, <2>4 DEF HttpInv, ReadsOK
<1> QED BY <1>1, <1>2, <1>3, <1>4 DEF Next

(***************************************************************************)
(* The invariant holds: running reads have what lies before their next     *)
(* chunk, and the cache holds whole chunks, within its limits.             *)
(***************************************************************************)
THEOREM SourceInvariant == Spec => []HttpInv
<1>1. Init => HttpInv
  BY InitInv
<1>2. HttpInv /\ [Next]_vars => HttpInv'
  BY NextInv
<1> QED BY <1>1, <1>2, PTL DEF Spec

(***************************************************************************)
(* read_exact_at: a read that succeeds returns the bytes of its range,     *)
(* each in its place, whatever else happens.                               *)
(***************************************************************************)
THEOREM SuccessfulReadsHaveTheirBytes == Spec => []BytesInPlace
<1>1. HttpInv => BytesInPlace
  <2> SUFFICES ASSUME HttpInv, NEW r \in Readers, reads[r].status = "ok"
               PROVE  /\ Len(reads[r].out) = reads[r].end - reads[r].off
                      /\ \A i \in DOMAIN reads[r].out : reads[r].out[i].at = reads[r].off + i - 1
    BY DEF BytesInPlace
  <2>1. ReadFits(reads[r])
    BY DEF HttpInv, ReadsOK, ReadOK, Idle
  <2>2. reads[r].out \in Seq(Byte)
    BY <2>1 DEF ReadFits, Read
  <2>3. /\ Len(reads[r].out) = reads[r].end - reads[r].off
        /\ \A i \in 1..Len(reads[r].out) : reads[r].out[i].at = reads[r].off + i - 1
    BY <2>1 DEF ReadFits, InPlace
  <2>4. DOMAIN reads[r].out = 1..Len(reads[r].out)
    BY <2>2
  <2> QED BY <2>3, <2>4
<1> QED BY <1>1, SourceInvariant, PTL

(***************************************************************************)
(* Every cached chunk is a whole one of a single version of the object,    *)
(* and of one as long as the file opened where the server states lengths.  *)
(***************************************************************************)
THEOREM CachedChunksAreWhole == Spec => []ChunksAreWhole
<1>1. HttpInv => ChunksAreWhole
  <2> SUFFICES ASSUME HttpInv, NEW n \in DOMAIN cache.entries
               PROVE  LET chunk == cache.entries[n].value
                      IN \E v \in DOMAIN Lengths :
                        /\ chunk = Bytes(v, ChunkStart(cache.entries[n].key), Len(chunk))
                        /\ Len(chunk) = ChunkEnd(cache.entries[n].key)
                                          - ChunkStart(cache.entries[n].key) + 1
                        /\ kind.sendsTotal => Lengths[v] = length
    BY DEF ChunksAreWhole
  <2>1. cache.entries \in Seq(Chunks)
    BY DEF HttpInv, Caches
  <2>2. cache.entries[n] \in Chunks
    BY <2>1
  <2>3. PICK k \in Nat : /\ ChunkStart(k) < length
                         /\ \E v \in Passing :
                              cache.entries[n] = Entry(k, WholeChunk(v, k), ChunkLen(k))
    BY <2>2 DEF Chunks
  <2>4. PICK v \in Passing : cache.entries[n] = Entry(k, WholeChunk(v, k), ChunkLen(k))
    BY <2>3
  <2>5. cache.entries[n].key = k /\ cache.entries[n].value = WholeChunk(v, k)
    BY <2>4 DEF Entry
  <2>6. Len(WholeChunk(v, k)) = ChunkLen(k)
    BY <2>3, WholeChunkIs DEF HttpInv
  <2>7. v \in DOMAIN Lengths /\ (kind.sendsTotal => Lengths[v] = length)
    BY DEF Passing
  <2> QED BY <2>5, <2>6, <2>7 DEF WholeChunk, ChunkLen
<1> QED BY <1>1, SourceInvariant, PTL

\* The chunk cache keeps both caps, its counter and one entry a key.
THEOREM ChunkCacheStaysWithinLimits == Spec => []WithinLimits(cache)
<1>1. HttpInv => WithinLimits(cache)
  BY DEF HttpInv
<1> QED BY <1>1, SourceInvariant, PTL

(***************************************************************************)
(* While the object stays and the server answers, every request is for     *)
(* bytes it has, and only a read beyond the object fails.                  *)
(***************************************************************************)
THEOREM UndisturbedReadsSucceed == Spec => []ReadsSucceed
<1>1. HttpInv => ReadsSucceed
  BY DEF HttpInv, ReadsOK, ReadOK, BeyondObject, ReadsSucceed, Idle
<1> QED BY <1>1, SourceInvariant, PTL
================================================================================
