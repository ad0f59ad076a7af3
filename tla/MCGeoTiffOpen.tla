---------------------------- MODULE MCGeoTiffOpen ----------------------------
(* Every graph of pointers over a few IFDs; offset 5 holds none.            *)
EXTENDS GeoTiffOpen

Ifd == [next |-> 0, subs |-> <<>>, values |-> <<>>, width |-> 4, height |-> 4,
        layout |-> 1, subfile |-> "none", geo |-> "none"]

\* Pointers to at most two of a set.
Lists(S) == {<<>>} \cup {<<o>> : o \in S} \cup {<<o, p>> : o \in S, p \in S}

\* Trees: a base, overviews of two sizes, and a mask; the second may follow the base.
Trees ==
  {[first |-> 1,
    ifds |-> [o \in 1..4 |->
                [Ifd EXCEPT !.next = IF o = 1 THEN next ELSE 0, !.subs = <<s1, s2, s3, s4>>[o],
                            !.geo = IF o = 1 THEN "keys" ELSE "none",
                            !.width = CASE o = 1 -> 4 [] o = 3 -> 1 [] OTHER -> 2,
                            !.subfile = IF o = 2 THEN "reduced" ELSE "none",
                            !.layout = IF o = 4 THEN 2 ELSE 1]]] :
     next \in {0, 2}, s1 \in Lists({2, 3, 4}), s2 \in Lists({1, 3, 4}),
     s3 \in Lists({2, 4}), s4 \in {<<>>, <<3>>, <<5>>, <<3, 5>>}}

Chains ==
  {[first |-> 1,
    ifds |-> [o \in 1..3 |->
                [Ifd EXCEPT !.next = nexts[o], !.geo = geo[o], !.subfile = subfile[o],
                            !.width = 5 - o]]] :
     nexts \in {0, 2, 3} \X {0, 1, 2, 3, 5} \X {0, 1, 5},
     geo \in {<<"keys", "none", "none">>, <<"none", "model", "none">>,
              <<"model", "keys", "none">>, <<"none", "none", "none">>},
     subfile \in [1..3 -> {"none", "full", "reduced"}]}

\* Tag values of every size, in three or four IFDs; the last one may be a SubIFD as well.
Sizes ==
  {[first |-> 1,
    ifds |-> [o \in 1..4 |->
                [Ifd EXCEPT !.next = <<2, 3, last, 0>>[o], !.values = values[o],
                            !.subs = IF o = 2 THEN <<4>> ELSE <<>>,
                            !.geo = IF o = 2 THEN "model" ELSE "none",
                            !.width = 5 - o]]] :
     last \in {0, 4},
     values \in [1..4 -> {<<2>>, <<4, 2>>, <<5>>, <<1, 1, 1>>}]}

\* A base image with more pointers than nodes may be visited.
Wide == [first |-> 1, ifds |-> <<[Ifd EXCEPT !.geo = "keys", !.subs = <<2, 2, 2, 2, 2, 2>>], Ifd>>]

AllFiles == Trees \cup Chains \cup Sizes \cup {Wide}
===============================================================================
