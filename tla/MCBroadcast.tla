----------------------------- MODULE MCBroadcast -----------------------------
(* Instances of Broadcast for TLC. *)
EXTENDS Broadcast

CONSTANTS n1, n2, n3, n4

ThreeNodes == {n1, n2, n3}
FourNodes  == {n1, n2, n3, n4}

OneZone == [n \in Nodes |-> "lan"]
\* n3 is in another data center.
TwoZones == [n \in Nodes |-> IF n = n3 THEN "remote" ELSE "lan"]

\* The larger address keeps the connection: n1 < n2 < n3 < n4.
Triangle == {{<<n2, n1>>, <<n3, n1>>, <<n3, n2>>}}

\* Every way of linking four computers that leaves none out.
AllDials == {<<n2, n1>>, <<n3, n1>>, <<n4, n1>>, <<n3, n2>>, <<n4, n2>>, <<n4, n3>>}
Connected(links) ==
    \A S \in SUBSET FourNodes :
        S \in {{}, FourNodes} \/ \E l \in Both(links) : l[1] \in S /\ l[2] \notin S
AnyConnected == {links \in SUBSET AllDials : Connected(links)}

=============================================================================
