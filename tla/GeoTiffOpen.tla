----------------------------- MODULE GeoTiffOpen -----------------------------
(***************************************************************************)
(* Opening a GeoTIFF: tiff-reader parses the chain of IFDs within its      *)
(* budgets, then geotiff-reader picks the base image and looks for its     *)
(* overviews, in the chain and in the tree of its SubIFDs.  A file is any  *)
(* directory graph at all: pointers may dangle, meet and run in circles.   *)
(***************************************************************************)
EXTENDS Integers, FiniteSets, Sequences, SequencesExt

CONSTANTS Files,
          MaxIfds, MaxEntries, MaxTagBytes, MaxMetadataBytes,   \* ParseBudgets
          MaxNodes, MaxDepth        \* of the SubIFD traversal

(***************************************************************************)
(* Of an IFD: the next pointer, the SubIFDs tag (empty or absent), the     *)
(* byte length of each tag value, size and sample layout of the image,     *)
(* what the subfile type says and which georeferencing tags there are.     *)
(* An offset without an IFD lies behind the end or does not parse.         *)
(***************************************************************************)
IsIfd(d) ==
  /\ d.next \in Nat /\ d.subs \in Seq(Nat) /\ d.values \in Seq(Nat)
  /\ {d.width, d.height, d.layout} \subseteq Nat
  /\ d.subfile \in {"none", "full", "reduced"} /\ d.geo \in {"none", "keys", "model"}

ASSUME FilesAssumption ==
  \A f \in Files : /\ f.first \in Nat /\ IsFiniteSet(DOMAIN f.ifds)
                   /\ \A o \in DOMAIN f.ifds : o # 0 /\ IsIfd(f.ifds[o])
ASSUME BudgetsAssumption ==
  /\ {MaxIfds, MaxEntries, MaxTagBytes, MaxMetadataBytes, MaxNodes} \subseteq Nat
  /\ MaxDepth \in Nat \ {0}

VARIABLES file,
          phase,      \* "chain", "metadata", "subifds", "done" or "failed"
          error,      \* why it failed, or "none"
          chain,      \* the offsets of TiffFile::ifds
          offset,     \* the next one
          usage,      \* ParseBudgetUsage::metadata_value_bytes
          base,       \* base_ifd_index, from 1
          overviews,  \* [index, offset]; index 0 for SubIFDs
          seen,       \* seen_offsets of the overviews
          pending,    \* [offset, depth], the stack of SubIFDs to visit
          visited,    \* visited_nodes
          subReads    \* history: the SubIFDs read, in order

vars == <<file, phase, error, chain, offset, usage, base, overviews, seen, pending,
          visited, subReads>>
----------------------------------------------------------------------------
Ifds == file.ifds
Total(values) == SumFunction(values)

\* read_ifd, given the value bytes read before.
ReadRefusal(o, used) ==
  IF o \notin DOMAIN Ifds THEN "unreadable"
  ELSE IF \/ Len(Ifds[o].values) > MaxEntries
          \/ \E n \in Range(Ifds[o].values) : n > MaxTagBytes
          \/ used + Total(Ifds[o].values) > MaxMetadataBytes
       THEN "budget" ELSE "none"

ChainRefusal ==
  IF Len(chain) >= MaxIfds THEN "ifds"
  ELSE IF offset \in Range(chain) THEN "loop" ELSE ReadRefusal(offset, usage)

Reduced(d) == d.subfile = "reduced"

IsOverview(d) ==
  LET b == Ifds[chain[base]]
  IN /\ d.width <= b.width /\ d.height <= b.height
     /\ d.width < b.width \/ d.height < b.height
     /\ d.layout = b.layout
     /\ d.subfile \in {"none", "reduced"}

\* The first IFD of the chain whose IFD is in a set.
FirstOf(S) == CHOOSE i \in S : \A j \in S : i <= j
At(i) == Ifds[chain[i]]
WithGeo(kind) == {i \in DOMAIN chain : At(i).geo = kind}
Georeferenced == WithGeo("keys") \cup WithGeo("model")
Metadata == FirstOf(IF WithGeo("keys") # {} THEN WithGeo("keys") ELSE WithGeo("model"))

BaseIndex ==
  LET full == {i \in (Metadata + 1)..Len(chain) : ~Reduced(At(i))}
  IN IF ~Reduced(At(Metadata)) \/ full = {} THEN Metadata ELSE FirstOf(full)

(***************************************************************************)
(* push_subifd_offsets goes through the pointers from the last to the      *)
(* first, so that the first new one lies on top of the stack.              *)
(***************************************************************************)
\* Mutant: an IFD is visited as often as something points to it.
UnseenAll(subs, known) == DOMAIN subs

Unseen(subs, known) ==
  {i \in DOMAIN subs : /\ subs[i] \notin known
                       /\ \A j \in DOMAIN subs : j > i => subs[j] # subs[i]}

\* The nodes pushed once the last n pointers have been looked at.
PushedTo(subs, depth, known, n) ==
  LET pushed[m \in 0..Len(subs)] ==
        IF m = 0 THEN <<>>
        ELSE IF Len(subs) - m + 1 \in Unseen(subs, known)
             THEN Append(pushed[m - 1], [offset |-> subs[Len(subs) - m + 1], depth |-> depth])
             ELSE pushed[m - 1]
  IN pushed[n]

Pushed(subs, depth, known) == PushedTo(subs, depth, known, Len(subs))

\* Mutant: the last depth allowed is refused.
PushRefusalEarly(subs, depth) ==
  IF subs # <<>> /\ depth >= MaxDepth THEN "depth"
  ELSE IF visited + Len(subs) > MaxNodes THEN "nodes" ELSE "none"

PushRefusal(subs, depth) ==
  IF subs # <<>> /\ depth > MaxDepth THEN "depth"
  ELSE IF visited + Len(subs) > MaxNodes THEN "nodes" ELSE "none"
----------------------------------------------------------------------------
Init ==
  /\ file \in Files
  /\ phase = "chain" /\ error = "none"
  /\ chain = <<>> /\ offset = file.first /\ usage = 0
  /\ base = 0 /\ overviews = <<>>
  /\ seen = {} /\ pending = <<>> /\ visited = 0 /\ subReads = <<>>

Fail(e) ==
  /\ phase' = "failed" /\ error' = e
  /\ UNCHANGED <<file, chain, offset, usage, base, overviews, seen, pending, visited, subReads>>

\* parse_ifd_chain_with_budgets, one IFD at a time.
FollowChain ==
  /\ phase = "chain" /\ offset # 0
  /\ ChainRefusal = "none"
  /\ chain' = Append(chain, offset)
  /\ usage' = usage + Total(Ifds[offset].values)
  /\ offset' = Ifds[offset].next
  /\ UNCHANGED <<file, phase, error, base, overviews, seen, pending, visited, subReads>>

ChainFails ==
  /\ phase = "chain" /\ offset # 0
  /\ ChainRefusal # "none" /\ Fail(ChainRefusal)

\* GeoTiffFile::from_tiff.
NotGeoTiff == phase = "chain" /\ offset = 0 /\ Georeferenced = {} /\ Fail("not a GeoTIFF")

ChooseBase ==
  /\ phase = "chain" /\ offset = 0 /\ Georeferenced # {}
  /\ phase' = "overviews" /\ base' = BaseIndex
  /\ UNCHANGED <<file, error, chain, offset, usage, overviews, seen, pending, visited, subReads>>

\* The overviews of the chain, their offsets from now on seen.
InChain == {i \in DOMAIN chain \ {base, Metadata} : IsOverview(At(i))}

\* Mutant: only the base image counts as seen.
SeenInChainBase == {chain[base]}

SeenInChain == {chain[i] : i \in InChain \cup {base}}

\* The members of a set as a list, by an order given as a set of pairs.
Ordered(S, order) ==
  [k \in 1..Cardinality(S) |->
     CHOOSE x \in S : Cardinality({y \in S : <<y, x>> \in order}) = k - 1]

PushSubIfds(subs, depth, known) ==
  /\ pending' = (IF pending = <<>> THEN <<>> ELSE Front(pending)) \o Pushed(subs, depth, known)
  /\ seen' = known \cup Range(subs)
  /\ visited' = visited + Len(subs)

CollectChain ==
  LET found == Ordered(InChain, {p \in InChain \X InChain : p[1] < p[2]})
  IN /\ phase = "overviews"
     /\ PushRefusal(At(base).subs, 1) = "none"
     /\ overviews' = [k \in DOMAIN found |-> [index |-> found[k], offset |-> chain[found[k]]]]
     /\ PushSubIfds(At(base).subs, 1, SeenInChain)
     /\ phase' = "subifds"
     /\ UNCHANGED <<file, error, chain, offset, usage, base, subReads>>

CollectFails ==
  LET refusal == PushRefusal(At(base).subs, 1)
  IN phase = "overviews" /\ refusal # "none" /\ Fail(refusal)

\* collect_subifd_overviews: each is read with a budget of its own.
VisitRefusal(top) ==
  IF ReadRefusal(top.offset, 0) # "none" THEN ReadRefusal(top.offset, 0)
  ELSE PushRefusal(Ifds[top.offset].subs, top.depth + 1)

VisitSubIfd ==
  LET top == Last(pending)
      d == Ifds[top.offset]
  IN /\ phase = "subifds" /\ pending # <<>>
     /\ VisitRefusal(top) = "none"
     /\ overviews' = IF IsOverview(d) THEN Append(overviews, [index |-> 0, offset |-> top.offset])
                     ELSE overviews
     /\ PushSubIfds(d.subs, top.depth + 1, seen)
     /\ subReads' = Append(subReads, top.offset)
     /\ UNCHANGED <<file, phase, error, chain, offset, usage, base>>

VisitFails ==
  /\ phase = "subifds" /\ pending # <<>>
  /\ VisitRefusal(Last(pending)) # "none" /\ Fail(VisitRefusal(Last(pending)))

\* Overviews in order: wide, high, then by their place in the chain, SubIFDs first.
Before(o, p) ==
  LET d == Ifds[o.offset]
      e == Ifds[p.offset]
  IN \/ d.width > e.width
     \/ d.width = e.width /\ \/ d.height > e.height
                             \/ d.height = e.height /\ o.index < p.index

SortOverviews ==
  LET places == DOMAIN overviews
      earlier == {p \in places \X places :
                    \/ Before(overviews[p[1]], overviews[p[2]])
                    \/ ~Before(overviews[p[2]], overviews[p[1]]) /\ p[1] < p[2]}
      order == Ordered(places, earlier)
  IN /\ phase = "subifds" /\ pending = <<>>
     /\ overviews' = [k \in DOMAIN order |-> overviews[order[k]]]
     /\ phase' = "done"
     /\ UNCHANGED <<file, error, chain, offset, usage, base, seen, pending, visited, subReads>>

Next ==
  \/ FollowChain \/ ChainFails \/ NotGeoTiff \/ ChooseBase
  \/ CollectChain \/ CollectFails \/ VisitSubIfd \/ VisitFails \/ SortOverviews

Spec == Init /\ [][Next]_vars
----------------------------------------------------------------------------
Errors == {"none", "ifds", "loop", "unreadable", "budget", "nodes", "depth", "not a GeoTIFF"}

(***************************************************************************)
(* What is there to be found, said without an order of visits.             *)
(***************************************************************************)
Pointers == {0, file.first} \cup DOMAIN Ifds
              \cup UNION {{Ifds[o].next} \cup Range(Ifds[o].subs) : o \in DOMAIN Ifds}

\* The least set that holds an offset and, of every IFD but those left out, its pointers.
Reachable(o, leftOut, PointersOf(_)) ==
  {p \in Pointers :
     \A S \in SUBSET Pointers :
       o \in S /\ (\A q \in (S \cap DOMAIN Ifds) \ leftOut : PointersOf(q) \subseteq S) => p \in S}

OnChain == Reachable(file.first, {}, LAMBDA o : {Ifds[o].next})

\* The SubIFD tree of the base image; no other overview of the chain is looked at.
InTree ==
  Reachable(chain[base], SeenInChain \ {chain[base]}, LAMBDA o : Range(Ifds[o].subs))
    \ SeenInChain

(***************************************************************************)
(* Once a file is open, its IFDs are all that its chain holds, the base    *)
(* image is not a reduced one if another can be had, and the overviews are *)
(* those of the chain and of the SubIFD tree, each once, however often and *)
(* in whatever order pointers lead to it, large ones first.                *)
(***************************************************************************)
Discovered ==
  phase = "done" =>
    /\ OnChain = Range(chain) \cup {0}
    /\ Reduced(At(base)) => \A i \in Metadata..Len(chain) : Reduced(At(i))
    /\ {overviews[i].offset : i \in DOMAIN overviews} =
         {o \in InTree \cup {chain[i] : i \in DOMAIN chain \ {base, Metadata}} :
            IsOverview(Ifds[o])}
    /\ \A i, j \in DOMAIN overviews : i < j =>
         overviews[i].offset # overviews[j].offset /\ ~Before(overviews[j], overviews[i])

(***************************************************************************)
(* However the pointers run, no IFD is read twice by the chain or twice    *)
(* among the SubIFDs, none of the overviews of the chain is read again,    *)
(* and the work stays within the budgets.                                  *)
(***************************************************************************)
WorkBounded ==
  /\ IsInjective(chain) /\ IsInjective(subReads)
  /\ base # 0 /\ subReads # <<>> => Range(subReads) \cap SeenInChain = {}
  /\ Len(chain) <= MaxIfds /\ Len(subReads) + Len(pending) <= MaxNodes

\* An IFD beyond the budgets by itself.
Oversized(o) ==
  \/ Len(Ifds[o].values) > MaxEntries
  \/ \E n \in Range(Ifds[o].values) : n > MaxTagBytes
  \/ Total(Ifds[o].values) > MaxMetadataBytes

\* A branch of the tree that goes on below the last depth allowed.
Deep(tree) ==
  \E path \in [1..MaxDepth -> tree \cap DOMAIN Ifds] :
    /\ IsInjective(path) /\ path[1] \in Range(At(base).subs)
    /\ \A i \in 2..MaxDepth : path[i] \in Range(Ifds[path[i - 1]].subs)
    /\ Ifds[path[MaxDepth]].subs # <<>>

\* Why opening may end with an error, by what is to be read: the chain, later the tree.
Cause(e) ==
  \A found \in {IF base = 0 THEN OnChain \ {0} ELSE InTree} :
    /\ e = "loop" => 0 \notin OnChain
    /\ e = "ifds" => Cardinality(OnChain \ {0}) > MaxIfds \/ 0 \notin OnChain
    /\ e = "unreadable" => ~(found \subseteq DOMAIN Ifds)
    /\ e = "budget" =>
         \/ \E o \in found \cap DOMAIN Ifds : Oversized(o)
         \/ /\ base = 0
            /\ MaxMetadataBytes < SumFunction([o \in found \cap DOMAIN Ifds |->
                                                 Total(Ifds[o].values)])
    /\ e = "nodes" =>
         MaxNodes < SumFunction([o \in {chain[base]} \cup (found \cap DOMAIN Ifds) |->
                                   Len(Ifds[o].subs)])
    /\ e = "depth" => Deep(found)
    /\ e = "not a GeoTIFF" => \A o \in OnChain \ {0} : Ifds[o].geo = "none"

(***************************************************************************)
(* A file is refused for a reason that lies in the file, not in the order  *)
(* of visits: what the error says is true of it.                           *)
(***************************************************************************)
RefusedForCause == phase = "failed" => error \in Errors \ {"none"} /\ Cause(error)
===============================================================================
