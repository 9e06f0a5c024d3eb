------------------------------- MODULE MCCluster -------------------------------
(***************************************************************************)
(* Instances of Cluster for TLC.                                           *)
(***************************************************************************)
EXTENDS Cluster

\* The options with which every computer is told of all smaller ones.
Smaller == [n \in Node |-> {a \in Node : a < n}]

\* With one address in the option, that of the computer before.
Previous == [n \in Node |-> {a \in Node : a = n - 1}]
=============================================================================
