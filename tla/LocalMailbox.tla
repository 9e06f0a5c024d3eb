----------------------------- MODULE LocalMailbox -----------------------------
(* The daemon with its connections, its cache and its replies implements   *)
(* the mailbox: the refinement mapping.                                    *)
EXTENDS LocalServices

\* The messages written to connections of s.
HandedTo(s) == {h \in handed : Dest(h.id) = s}

\* The numbers of the messages of H, in the order of the writes.
InPlaces(H) ==
    [k \in 1..Cardinality(H) |->
        (CHOOSE h \in H : Cardinality({g \in H : g.at <= h.at}) = k).id]

Posted  == [i \in DOMAIN msgs |-> Dest(i)]
Waiting == {e.id : e \in cache}
Got     == [s \in Services |-> InPlaces(HandedTo(s))]

Promise == INSTANCE Mailbox WITH
    Service <- Services, posted <- Posted, waiting <- Waiting, got <- Got

\* Whatever clients do, every step of the daemon is a step of the mailbox, or
\* one that the mailbox does not see. No connection that comes or goes, no
\* option and no reply makes a difference to what a service gets.
ImplementsMailbox == Promise!Spec

=============================================================================
