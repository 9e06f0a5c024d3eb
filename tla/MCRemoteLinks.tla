---------------------------- MODULE MCRemoteLinks ----------------------------
(* Instances of RemoteLinks for TLC. *)
EXTENDS RemoteLinks

Two   == 1..2
Three == 1..3

\* Only the smaller computer knows of the other.
LargerOnly  == [n \in Node |-> {a \in Node : a > n}]
\* The first computer knows the second, the third knows the first.
Mixed == [n \in Node |-> CASE n = 1 -> {2} [] n = 2 -> {} [] n = 3 -> {1}]

=============================================================================
