------------------------------- MODULE LruCache -------------------------------
(***************************************************************************)
(* The byte-bounded LRU cache of tiff-reader's BlockCache, which the HTTP  *)
(* range sources repeat for their chunks: a cap on the entries, kept by    *)
(* the lru crate, and a cap on the bytes, kept by a counter next to it.    *)
(* Entries are listed from the least to the most recently used.  Each      *)
(* operation below runs under the cache's lock.                            *)
(***************************************************************************)
EXTENDS Integers, Sequences, SequencesExt

CONSTANTS MaxBytes, MaxSlots

ASSUME CacheAssumption == MaxBytes \in Nat /\ MaxSlots \in Nat

Enabled == MaxBytes > 0 /\ MaxSlots > 0
MaxEntries   == IF MaxSlots = 0 THEN 1 ELSE MaxSlots

EmptyCache == [entries |-> <<>>, bytes |-> 0]
Entry(key, value, size) == [key |-> key, value |-> value, size |-> size]

SaturatingSub(a, b) == IF a >= b THEN a - b ELSE 0

\* The bytes of the first n entries, and of all.
SizeTo(entries, n) ==
  LET sum[i \in 0..Len(entries)] == IF i = 0 THEN 0 ELSE sum[i - 1] + entries[i].size
  IN sum[n]

Size(entries) == SizeTo(entries, Len(entries))

KeysOf(cache) == {cache.entries[n].key : n \in DOMAIN cache.entries}
Lookup(cache, key) == {n \in DOMAIN cache.entries : cache.entries[n].key = key}

\* What get returns: the entries under a key, none when caching is disabled.
Hits(cache, key) == IF Enabled THEN {cache.entries[n] : n \in Lookup(cache, key)} ELSE {}

Without(cache, gone) ==
  LET left == RemoveAt(cache.entries, gone)
  IN [entries |-> left,
      bytes   |-> SaturatingSub(cache.bytes, cache.entries[gone].size)]

\* get moves a hit to the recent end.
\* Mutant: a hit is only peeked at.
Peeked(cache, key) == cache

Promoted(cache, key) ==
  IF Hits(cache, key) = {} THEN cache
  ELSE LET n == CHOOSE n \in Lookup(cache, key) : TRUE
       IN [cache EXCEPT !.entries = Append(RemoveAt(@, n), @[n])]

\* Mutant: the entry an insertion replaces keeps its place.
NotPopped(cache, key) == cache

Popped(cache, key) ==
  IF Lookup(cache, key) = {} THEN cache
  ELSE Without(cache, CHOOSE n \in Lookup(cache, key) : TRUE)

\* n calls of pop_lru, and as few of them as leave no more than room bytes.
PoppedLru(cache, n) ==
  [entries |-> SubSeq(cache.entries, n + 1, Len(cache.entries)),
   bytes   |-> SaturatingSub(cache.bytes, SizeTo(cache.entries, n))]

EvictedTo(cache, room) ==
  LET Enough(n) == PoppedLru(cache, n).bytes <= room \/ n = Len(cache.entries)
  IN PoppedLru(cache, CHOOSE n \in 0..Len(cache.entries) :
                        Enough(n) /\ \A m \in 0..(n - 1) : ~Enough(m))

\* The lru crate's push of a key it does not hold: a full cache drops its oldest entry.
Pushed(cache, entry) ==
  LET kept == IF Len(cache.entries) = MaxEntries THEN Tail(cache.entries) ELSE cache.entries
      dropped == IF Len(cache.entries) = MaxEntries THEN cache.entries[1].size ELSE 0
  IN [entries |-> Append(kept, entry),
      bytes   |-> SaturatingSub(cache.bytes + entry.size, dropped)]

Inserted(cache, key, value, size) ==
  LET popped == Popped(cache, key)
  IN IF ~Enabled \/ size > MaxBytes THEN popped
     ELSE Pushed(EvictedTo(popped, MaxBytes - size), Entry(key, value, size))

(***************************************************************************)
(* What an insertion promises, whatever was in the cache: the counter is   *)
(* the size of the entries, both caps hold and no key is held twice.       *)
(***************************************************************************)
WithinLimits(cache) ==
  /\ cache.bytes = Size(cache.entries)
  /\ cache.bytes <= MaxBytes
  /\ Len(cache.entries) <= MaxSlots
  /\ \A m, n \in DOMAIN cache.entries :
       cache.entries[m].key = cache.entries[n].key => m = n
===============================================================================
