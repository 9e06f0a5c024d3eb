------------------------------- MODULE Broadcast -------------------------------
(***************************************************************************)
(* Messages that a cluster of communicatord daemons floods over the links  *)
(* between them: to every local service of every computer (service "*" or  *)
(* "?"), or to a named service that the computer it was sent on does not   *)
(* know (server "*" or no server).                                         *)
(*                                                                         *)
(* A copy carries an identifier, a timeout, the number of hops it made and *)
(* the addresses of the computers informed so far. The links lose what is  *)
(* in flight when they close, the two sides notice that in any order,      *)
(* daemons restart, and each computer has its own clock.                   *)
(***************************************************************************)
EXTENDS Integers, Sequences, FiniteSets

CONSTANTS
    Nodes,          \* computers that run a communicatord
    Zone,           \* the data center of each: links within one are private
    Topologies,     \* who has a permanent connection to whom: sets of pairs
    Holders,        \* computers where the named service runs or is expected
    Scopes,         \* what clients send: "public" (*), "private" (?), "service"
    MaxHops,        \* 5 in the code
    Timeout,        \* 10 seconds in the code
    MaxBroadcasts,  \* bound on the messages sent by clients
    MaxFaults,      \* bound on restarts and on links that break by themselves
    MaxTime         \* bound on each clock

Pairs == {l \in Nodes \X Nodes : l[1] # l[2]}

ASSUME ClusterAssumption ==
    /\ Topologies \subseteq SUBSET Pairs
    /\ Holders \subseteq Nodes
    /\ Scopes \subseteq {"public", "private", "service"}
ASSUME LimitsAssumption ==
    /\ MaxHops \in Nat /\ Timeout \in Nat
    /\ MaxBroadcasts \in Nat /\ MaxFaults \in Nat /\ MaxTime \in Nat

VARIABLES
    dials,      \* <<n, p>>: n keeps a remote_connection to p (f_smaller_ips)
    up,         \* <<n, p>>: n has a working connection with p
    accepted,   \* <<n, p>>: n has a connection of type REMOTE with p
    chan,       \* copies on their way over each link, oldest first
    received,   \* f_received_broadcast_messages of each computer
    seq,        \* g_broadcast_sequence of each computer
    clock,      \* time(nullptr) on each computer
    sent,       \* messages sent by clients: [origin, scope]
    got,        \* times each message went to the local services of a computer
    faults

vars == <<dials, up, accepted, chan, received, seq, clock, sent, got, faults>>
linkVars == <<dials, up, accepted>>

Id      == Nodes \X Nat
Copy    == [of: Nat, scope: Scopes, id: Id, hops: Nat, timeout: Nat,
            informed: SUBSET Nodes]
Record  == [id: Id, timeout: Nat]
Request == [origin: Nodes, scope: Scopes]
Numbers == 1..MaxBroadcasts

Init ==
    /\ dials \in Topologies
    /\ up = {} /\ accepted = {}
    /\ chan = [l \in Pairs |-> <<>>]
    /\ received = [n \in Nodes |-> {}]
    /\ seq   = [n \in Nodes |-> 0]
    /\ clock = [n \in Nodes |-> 0]
    /\ sent = <<>>
    /\ got  = [n \in Nodes |-> [b \in Numbers |-> 0]]
    /\ faults = 0

\* The links are established.
Both(links) == links \cup {<<l[2], l[1]>> : l \in links}
InitLinked ==
    /\ dials \in Topologies
    /\ up = Both(dials) /\ accepted = Both(dials)
    /\ chan = [l \in Pairs |-> <<>>]
    /\ received = [n \in Nodes |-> {}]
    /\ seq   = [n \in Nodes |-> 0]
    /\ clock = [n \in Nodes |-> 0]
    /\ sent = <<>>
    /\ got  = [n \in Nodes |-> [b \in Numbers |-> 0]]
    /\ faults = 0

-----------------------------------------------------------------------------
(* broadcast_message(). *)

\* Connections the event loop of n holds with other daemons. A permanent
\* connection is there even when it is not connected.
Connections(n) == {p \in Nodes : <<n, p>> \in dials \cup up}

\* Deviation: a private broadcast goes to every data center.
CandidatesAnywhere(n, scope, hops) ==
    {p \in Nodes :
        \/ scope = "service" /\ <<n, p>> \in accepted
        \/ hops < MaxHops /\ scope # "service" /\ p \in Connections(n)}

\* The connections a copy may go to, before looking at who is informed. The
\* number of hops limits the broadcasts to all services only.
Candidates(n, scope, hops) ==
    {p \in Nodes :
        \/ scope = "service" /\ <<n, p>> \in accepted
        \/ hops < MaxHops /\ scope = "public"  /\ p \in Connections(n)
        \/ hops < MaxHops /\ scope = "private" /\ p \in Connections(n)
             /\ Zone[p] = Zone[n]}

\* The computers n sends m to.
Targets(n, m) == Candidates(n, m.scope, m.hops) \ m.informed

\* Deviation: the hops are counted down.
ForwardedBackwards(n, m) ==
    [m EXCEPT !.hops = @ - 1, !.informed = @ \cup Targets(n, m)]

\* What n sends them. The originator itself is not added to the list.
Forwarded(n, m) ==
    [m EXCEPT !.hops = @ + 1, !.informed = @ \cup Targets(n, m)]

\* A connection that is not established loses what is written to it.
Send(channels, n, m) ==
    [l \in Pairs |->
        IF l[1] = n /\ l[2] \in Targets(n, m) /\ l \in up
        THEN Append(channels[l], Forwarded(n, m))
        ELSE channels[l]]

ToLocalServices(n, m) == [got EXCEPT ![n][m.of] = @ + 1]

\* Deviation: forgotten in the last second copies are still taken.
RememberTooShort(n, m) ==
    [received EXCEPT ![n] =
        {r \in @ : r.timeout > clock[n]} \cup {[id |-> m.id, timeout |-> m.timeout]}]

\* Forget what timed out, then remember m.
Remember(n, m) ==
    [received EXCEPT ![n] =
        {r \in @ : r.timeout >= clock[n]} \cup {[id |-> m.id, timeout |-> m.timeout]}]

\* Deviation: dropped because the sender says that n is informed.
StaleIfInformed(n, m) ==
    m.timeout < clock[n] \/ n \in m.informed

\* check_broadcast_message().
Stale(n, m) ==
    \/ m.timeout < clock[n]
    \/ \E r \in received[n] : r.id = m.id

-----------------------------------------------------------------------------
(* Handlers. *)

\* A client of n sends a message. The identifier is made only when there is a
\* connection to send it to.
Originate(n, scope) ==
    /\ Len(sent) < MaxBroadcasts
    /\ sent' = Append(sent, [origin |-> n, scope |-> scope])
    /\ LET m == [of |-> Len(sent) + 1, scope |-> scope, id |-> <<n, seq[n] + 1>>,
                 hops |-> 0, timeout |-> clock[n] + Timeout, informed |-> {}]
           here == scope = "service" /\ n \in Holders
       IN  /\ got' = IF scope # "service" \/ here THEN ToLocalServices(n, m) ELSE got
           /\ IF here \/ Targets(n, m) = {}
              THEN UNCHANGED <<chan, seq>>
              ELSE /\ chan' = Send(chan, n, m)
                   /\ seq' = [seq EXCEPT ![n] = @ + 1]
    /\ UNCHANGED <<linkVars, received, clock, faults>>

\* n takes the oldest copy p sent it.
Reading(p, n) ==
    /\ <<n, p>> \in up
    /\ chan[<<p, n>>] # <<>>
    /\ UNCHANGED <<linkVars, seq, clock, sent, faults>>

Oldest(p, n) == Head(chan[<<p, n>>])
Rest(p, n)   == [chan EXCEPT ![<<p, n>>] = Tail(@)]

\* dispatch_message() drops what timed out and what n already broadcast.
Discard(p, n) ==
    /\ Reading(p, n)
    /\ Stale(n, Oldest(p, n))
    /\ chan' = Rest(p, n)
    /\ UNCHANGED <<received, got>>

\* forward_message() finds the service, or caches the message for it; it
\* returns before broadcast_message().
Arrive(p, n) ==
    /\ Reading(p, n)
    /\ LET m == Oldest(p, n)
       IN  /\ ~ Stale(n, m)
           /\ m.scope = "service" /\ n \in Holders
           /\ got' = ToLocalServices(n, m)
    /\ chan' = Rest(p, n)
    /\ UNCHANGED received

\* broadcast_message() remembers the copy, hands it to the local services and
\* passes it on.
PassOn(p, n) ==
    /\ Reading(p, n)
    /\ LET m == Oldest(p, n)
       IN  /\ ~ Stale(n, m)
           /\ m.scope # "service"
           /\ received' = Remember(n, m)
           /\ got' = ToLocalServices(n, m)
           /\ chan' = Send(Rest(p, n), n, m)

\* forward_message() does not find the service: broadcast_message() is called
\* if another daemon was accepted, and nothing is remembered otherwise.
Relay(p, n) ==
    /\ Reading(p, n)
    /\ LET m == Oldest(p, n)
       IN  /\ ~ Stale(n, m)
           /\ m.scope = "service" /\ n \notin Holders
           /\ received' = IF Candidates(n, "service", m.hops) = {} THEN received
                          ELSE Remember(n, m)
           /\ chan' = Send(Rest(p, n), n, m)
    /\ UNCHANGED got

-----------------------------------------------------------------------------
(* Links, restarts and clocks. *)

\* n connected to p and was accepted.
Connect(n, p) ==
    /\ <<n, p>> \in dials
    /\ <<n, p>> \notin up /\ <<p, n>> \notin up
    /\ up' = up \cup {<<n, p>>, <<p, n>>}
    /\ accepted' = accepted \cup {<<n, p>>, <<p, n>>}
    /\ chan' = [chan EXCEPT ![<<n, p>>] = <<>>, ![<<p, n>>] = <<>>]
    /\ UNCHANGED <<dials, received, seq, clock, sent, got, faults>>

\* n finds its connection with p closed, by a failure or because p closed it.
\* A permanent connection stays and keeps its type.
HangUp(n, p) ==
    /\ <<n, p>> \in up
    /\ faults' = IF <<p, n>> \in up THEN faults + 1 ELSE faults
    /\ faults' <= MaxFaults
    /\ up' = up \ {<<n, p>>}
    /\ accepted' = accepted \ ({<<n, p>>} \ dials)
    /\ chan' = [chan EXCEPT ![<<p, n>>] = <<>>]
    /\ UNCHANGED <<dials, received, seq, clock, sent, got>>

\* The daemon of n is stopped and started: it forgets everything, and its
\* services come back as new clients.
Restart(n) ==
    /\ faults < MaxFaults
    /\ faults' = faults + 1
    /\ up' = {l \in up : l[1] # n}
    /\ accepted' = {l \in accepted : l[1] # n}
    /\ chan' = [l \in Pairs |-> IF l[2] = n THEN <<>> ELSE chan[l]]
    /\ received' = [received EXCEPT ![n] = {}]
    /\ seq' = [seq EXCEPT ![n] = 0]
    /\ got' = [got EXCEPT ![n] = [b \in Numbers |-> 0]]
    /\ UNCHANGED <<dials, clock, sent>>

Tick(n) ==
    /\ clock[n] < MaxTime
    /\ clock' = [clock EXCEPT ![n] = @ + 1]
    /\ UNCHANGED <<linkVars, chan, received, seq, sent, got, faults>>

Next ==
    \/ \E n \in Nodes :
         \/ \E scope \in Scopes : Originate(n, scope)
         \/ Restart(n)
         \/ Tick(n)
    \/ \E l \in Pairs :
         \/ Discard(l[1], l[2])
         \/ Arrive(l[1], l[2])
         \/ PassOn(l[1], l[2])
         \/ Relay(l[1], l[2])
         \/ Connect(l[1], l[2])
         \/ HangUp(l[1], l[2])

Spec == Init /\ [][Next]_vars

\* The event loop of every daemon serves each connection that has data, and
\* so does the system that runs it.
Read(p, n) == Discard(p, n) \/ Arrive(p, n) \/ PassOn(p, n) \/ Relay(p, n)
LinkedSpec == InitLinked /\ [][Next]_vars
FairSpec == LinkedSpec /\ \A l \in Pairs : WF_vars(Read(l[1], l[2]))

-----------------------------------------------------------------------------
(* Properties. *)

CopyOK(m) ==
    /\ m \in Copy
    /\ m.of \in 1..Len(sent)
    /\ m.scope = sent[m.of].scope

\* Type invariant: every copy belongs to a message a client sent.
TypeOK ==
    /\ dials \subseteq Pairs /\ up \subseteq Pairs /\ accepted \subseteq Pairs
    /\ chan \in [Pairs -> Seq(Copy)]
    /\ \A l \in Pairs : \A i \in 1..Len(chan[l]) : CopyOK(chan[l][i])
    /\ received \in [Nodes -> SUBSET Record]
    /\ seq \in [Nodes -> Nat]
    /\ clock \in [Nodes -> Nat]
    /\ sent \in Seq(Request) /\ Len(sent) <= MaxBroadcasts
    /\ got \in [Nodes -> [Numbers -> Nat]]
    /\ faults \in Nat

\* The local services of a computer get a broadcast once at most since the daemon
\* started last, whatever the number of paths it came by, the links that closed and
\* opened and the other daemons that started again meanwhile. On the computer it was
\* sent on they may get it a second time, when it comes back, and never a third.
OncePerComputer == \A b \in 1..Len(sent), n \in Nodes :
    sent[b].scope # "service" =>
        got[n][b] <= IF n = sent[b].origin THEN 2 ELSE 1

\* A private broadcast never enters another data center, not even by way of a
\* computer that has links with both.
PrivateStaysInside == \A b \in 1..Len(sent), n \in Nodes :
    sent[b].scope = "private" /\ got[n][b] > 0 => Zone[n] = Zone[sent[b].origin]

\* Where every link works, a broadcast reaches every computer, though each one
\* skips those it is told are informed and drops what it saw before.
Reached == \A b \in Numbers :
    (Len(sent) >= b /\ sent[b].scope # "service")
        ~> \A n \in Nodes : got[n][b] >= 1

=============================================================================
