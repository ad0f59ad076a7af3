----------------------------- MODULE MCHttpRange -----------------------------
(* An object of five bytes in chunks of two, its replacement of the same      *)
(* length, and a shorter one.                                                 *)
EXTENDS HttpRange

Versions == <<5, 5, 4>>
Reads    == {[off |-> 0, len |-> 0], [off |-> 0, len |-> 5], [off |-> 1, len |-> 2],
             [off |-> 3, len |-> 2], [off |-> 4, len |-> 2]}
AllKinds == [blocking : BOOLEAN, sendsTotal : BOOLEAN]
===============================================================================
