------------------------------- MODULE MCLoadAvg -------------------------------
(* Instances of LoadAvg for TLC. *)
EXTENDS LoadAvg

CONSTANT local

\* The second computer is linked to the first, which it dials, and to the third.
Chain == {<<1, 2>>, <<2, 3>>}

================================================================================
