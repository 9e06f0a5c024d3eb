-------------------------------- MODULE Mailbox --------------------------------
(***************************************************************************)
(* What a daemon promises the senders and the receivers of local messages, *)
(* with connections, names, options, replies and clocks left out: every    *)
(* service has a box. A message is posted once and numbered. It goes to    *)
(* its service at once, and only if no older message waits for it; or it   *)
(* waits; or it is turned away for good. A service that comes collects all *)
(* that waits for it, oldest first. Anything else that waits may expire.   *)
(***************************************************************************)
EXTENDS Naturals, Sequences, FiniteSets

CONSTANT Service

VARIABLES
    posted,     \* the service each message is for
    waiting,    \* numbers of the messages in the boxes
    got         \* the numbers each service got, in order

vars == <<posted, waiting, got>>

Init ==
    /\ posted = <<>>
    /\ waiting = {}
    /\ got = [s \in Service |-> <<>>]

\* The messages in the box of s.
Box(s) == {i \in waiting : posted[i] = s}

\* The numbers of S, the smallest first.
InOrder(S) == [k \in 1..Cardinality(S) |->
                  CHOOSE i \in S : Cardinality({j \in S : j <= i}) = k]

Deliver(s) ==
    /\ posted' = Append(posted, s)
    /\ Box(s) = {}
    /\ got' = [got EXCEPT ![s] = Append(@, Len(posted'))]
    /\ UNCHANGED waiting

Keep(s) ==
    /\ posted' = Append(posted, s)
    /\ waiting' = waiting \cup {Len(posted')}
    /\ UNCHANGED got

TurnAway(s) ==
    /\ posted' = Append(posted, s)
    /\ UNCHANGED <<waiting, got>>

Collect(s) ==
    /\ got' = [got EXCEPT ![s] = @ \o InOrder(Box(s))]
    /\ waiting' \subseteq waiting \ Box(s)
    /\ UNCHANGED posted

Next == \E s \in Service : Deliver(s) \/ Keep(s) \/ TurnAway(s) \/ Collect(s)

Spec == Init /\ [][Next]_vars

=============================================================================
