--------------------------- MODULE TiffFileContract ---------------------------
(***************************************************************************)
(* What a TIFF writer promises, without offsets, headers or IFDs: a caller *)
(* adds images and gives each of their blocks a content at most once; when *)
(* the file is closed the images become readable one by one, in the order  *)
(* they were added, each of them only once it is complete, and what is     *)
(* readable never changes.  Whatever goes wrong, a reader sees a prefix of *)
(* the images, and sees every block of theirs as it was given.             *)
(***************************************************************************)
EXTENDS Integers, Sequences

CONSTANTS BlockCounts,        \* how many blocks an image can have
          ContentOf(_, _),    \* what block b of image i can be given
          NoContent           \* a block not given yet

VARIABLES store,      \* per image, the content of each of its blocks
          readable,   \* the images a reader of the file gets
          status      \* "open", "closing", "closed" or "failed"

vars == <<store, readable, status>>

Complete(image) == \A b \in DOMAIN image : image[b] # NoContent

Init == store = <<>> /\ readable = <<>> /\ status = "open"

Add ==
  /\ status = "open"
  /\ \E n \in BlockCounts : store' = Append(store, [b \in 1..n |-> NoContent])
  /\ UNCHANGED <<readable, status>>

Put ==
  /\ status = "open"
  /\ \E i \in DOMAIN store : \E b \in DOMAIN store[i] :
       /\ store[i][b] = NoContent
       /\ \E c \in ContentOf(i, b) : store' = [store EXCEPT ![i][b] = c]
  /\ UNCHANGED <<readable, status>>

Close ==
  /\ status = "open"
  /\ \A i \in DOMAIN store : Complete(store[i])
  /\ status' = "closing"
  /\ UNCHANGED <<store, readable>>

Publish ==
  /\ status = "closing"
  /\ Len(readable) < Len(store)
  /\ readable' = Append(readable, store[Len(readable) + 1])
  /\ UNCHANGED <<store, status>>

Closed ==
  /\ status = "closing"
  /\ readable = store
  /\ status' = "closed"
  /\ UNCHANGED <<store, readable>>

Fail ==
  /\ status \in {"open", "closing"}
  /\ status' = "failed"
  /\ UNCHANGED <<store, readable>>

Next == Add \/ Put \/ Close \/ Publish \/ Closed \/ Fail

Spec == Init /\ [][Next]_vars
=============================================================================
