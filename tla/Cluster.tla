-------------------------------- MODULE Cluster --------------------------------
(***************************************************************************)
(* What the daemons of a cluster tell their local services about the       *)
(* cluster, and how the daemons stop.                                      *)
(*                                                                         *)
(* A daemon counts the connections it has with other daemons, compares the *)
(* count with the number of computers it knows, and announces CLUSTER_UP   *)
(* or CLUSTER_DOWN, CLUSTER_COMPLETE or CLUSTER_INCOMPLETE. It does so at  *)
(* a few places only: when it starts, when it accepts a CONNECT and when   *)
(* it reads a DISCONNECT.                                                  *)
(*                                                                         *)
(* A daemon that is told to stop sends DISCONNECT to the others, or        *)
(* SHUTDOWN, which stops them too. It leaves its event loop when all of    *)
(* its connections are gone, which some never are: see StopEnds.           *)
(*                                                                         *)
(* Who connects to whom, refusals and pauses are those of RemoteLinks. A   *)
(* cable is one TCP connection with its two ends, which are closed one     *)
(* after the other, and the messages on their way in each direction.       *)
(* RemoteLinks has the gossip connections step by step; here a GOSSIP may  *)
(* come from any computer that could have such a connection.               *)
(***************************************************************************)
EXTENDS Integers, FiniteSets, Sequences

CONSTANTS
    Node,       \* computers, ordered by address: the larger one connects
    Explicit,   \* the "neighbors" option of each computer
    Off,        \* computers that are not running at first
    MaxFaults,  \* bound on broken cables, restarts, FORGETs, refusals for too many
                \* connections, and gossip connections that are open when it matters
    MaxStops,   \* bound on the daemons told to stop by someone else than a daemon
    MaxCables   \* bound on the cables that two computers have not closed at both ends

ASSUME NodeAssumption == Node \subseteq Nat /\ IsFiniteSet(Node)
ASSUME OptionAssumption == Explicit \in [Node -> SUBSET Node] /\ Off \subseteq Node
ASSUME BoundAssumption == MaxFaults \in Nat /\ MaxStops \in Nat
                           /\ MaxCables \in Nat \ {0}

VARIABLES
    loop,       \* each daemon: "run", "stopping" (f_shutdown) or "ended"
    known,      \* f_all_neighbors, our own address included; also neighbors.txt
    forgotten,  \* addresses that FORGET took out, which f_all_ips still has
    cables,     \* TCP connections between daemons
    status,     \* f_cluster_status, f_cluster_complete, f_total_count_sent; the
                \* first two are the contents of the status file
    locals,     \* the connections of local services: "on", "done" or "none"
    lingering,  \* other connections in the event loop that stop() does not remove
    faults,
    hung,       \* running daemons that saw a hang up, or counted a gossip connection,
                \* which is going to hang up
    stale,      \* running daemons whose neighbors changed since they evaluated their status
    asked,      \* daemons that were told to stop, other than by a daemon
    quitting,   \* whether one of those was to shut the cluster down
    mates,      \* daemons that were linked to one of those and run still
    dropped     \* whether a SHUTDOWN was lost

vars == <<loop, known, forgotten, cables, status, locals, lingering, faults, hung, stale,
          asked, quitting, mates, dropped>>

Word == {"CONNECT", "ACCEPT", "REFUSE", "DISCONNECT", "SHUTDOWN", "QUITTING"}

\* as: what the called end made of the CONNECT. toQ and fromQ: on their way to
\* the called end, and back to the end that connected.
Cable == [from: Node, to: Node, id: Nat, fromUp: BOOLEAN, toUp: BOOLEAN, whole: BOOLEAN,
          as: {"new", "remote", "refused"}, toQ: Seq(Word), fromQ: Seq(Word)]

\* Connections of the event loop of n without a cable, and the computer they are for.
\* idle: a permanent one without a socket when n stopped; stray: a gossip connection
\* that FORGET took out of f_gossip_ips; gossip: one made after stop_gossiping().
Lingerer == [kind: {"idle", "stray", "gossip"}, to: Node]

-----------------------------------------------------------------------------
(* Cables.                                                                 *)

Ends(n, cs) == {c \in cs : (c.from = n /\ c.fromUp) \/ (c.to = n /\ c.toUp)}
Peers(n, cs) == (UNION {{c.from, c.to} : c \in Ends(n, cs)}) \ {n}

SendTo(c, m)   == IF c.whole /\ c.toUp THEN [c EXCEPT !.toQ = Append(@, m)] ELSE c
SendFrom(c, m) == IF c.whole /\ c.fromUp THEN [c EXCEPT !.fromQ = Append(@, m)] ELSE c
CloseTo(c)     == [c EXCEPT !.toUp = FALSE, !.toQ = <<>>]
CloseFrom(c)   == [c EXCEPT !.fromUp = FALSE, !.fromQ = <<>>]
CloseEnd(n, c) == IF c.to = n THEN CloseTo(c) ELSE CloseFrom(c)

\* The computers n is linked to: CONNECT was accepted.
Linked(n) == Peers(n, {c \in cables : c.whole /\ c.fromUp /\ c.toUp /\ c.as = "remote"})

\* A cable that is closed at both ends is forgotten.
InUse(cs) == {c \in cs : c.fromUp \/ c.toUp}
Swap(c, d) == InUse((cables \ {c}) \cup {d})

\* What n reads next on c, if anything.
Inbox(n, c) == IF c.to = n THEN c.toQ ELSE c.fromQ
TakeOne(n, c) == IF c.to = n THEN [c EXCEPT !.toQ = Tail(@)] ELSE [c EXCEPT !.fromQ = Tail(@)]
Reads(n, c, m) == c \in Ends(n, cables) /\ Inbox(n, c) # <<>> /\ Head(Inbox(n, c)) = m

\* n finds that the other end closed, or that the cable is cut.
SeesHangUp(n, c) == /\ c \in Ends(n, cables) /\ Inbox(n, c) = <<>>
                    /\ ~c.whole \/ (IF c.to = n THEN ~c.fromUp ELSE ~c.toUp)

Tells(q) == \E i \in DOMAIN q : q[i] = "SHUTDOWN"

-----------------------------------------------------------------------------
(* Who has a connection for whom.                                          *)

\* f_smaller_ips. An address that was forgotten does not get a permanent connection
\* again when it is learned again: add_remote_communicator() finds it in f_all_ips.
Permanent(n) == {a \in known[n] \ forgotten[n] : a < n}

\* A gossip connection is for a neighbor with a larger address, or for a computer
\* one of whose connections ended: one of the two knew the other.
Acquainted(n, a) == n # a /\ (a \in known[n] \cup forgotten[n] \/ n \in known[a] \cup forgotten[a])

\* Computers that may have a gossip connection open to n.
Calls(n) == {g \in SUBSET {a \in Node : Acquainted(n, a)} : faults + Cardinality(g) <= MaxFaults}

Waiting(a) == [kind |-> "idle", to |-> a]
Stray(a)   == [kind |-> "stray", to |-> a]
Gossip(a)  == [kind |-> "gossip", to |-> a]
Linger(n, x) == [lingering EXCEPT ![n] = @ \cup {x}]

\* connection_removed() of an inbound connection takes it for a lost link and adds a
\* gossip connection, after stop_gossiping() too. (While n runs, Gossips is what comes
\* of it.)
Removed(n, c) == IF c.to = n THEN Linger(n, Gossip(c.from)) ELSE lingering

-----------------------------------------------------------------------------
(* The status of the cluster.                                              *)

\* count_live_connections(): a permanent connection counts while it has a
\* socket, an inbound one from the moment it is accepted, before its CONNECT.
LiveConnections(n, cs) == Cardinality(Ends(n, cs))

StatusOf(count, total) ==
    [status   |-> IF count >= total \div 2 + 1 THEN "UP" ELSE "DOWN",
     complete |-> IF count = total THEN "COMPLETE" ELSE "INCOMPLETE",
     total    |-> total]

AtLeastOne(total) == IF total = 0 THEN 1 ELSE total

Announce(n, count, ns) ==
    /\ status' = [status EXCEPT ![n] = StatusOf(count + 1, AtLeastOne(Cardinality(ns)))]
    /\ stale' = stale \ {n}

\* cluster_status(nullptr) once the connections are cs and the neighbors are ns.
\* What changed is broadcast to the local services and written to the file.
\* An open gossip connection of another computer counts as well.
\* (The reply to a CLUSTER_STATUS is computed in the same way, of the
\* connections at that time, and nothing is stored.)
Evaluate(n, cs, ns) ==
    \E g \in Calls(n) : /\ Announce(n, LiveConnections(n, cs) + Cardinality(g), ns)
                        /\ hung' = IF g = {} THEN hung ELSE hung \cup {n}
                        /\ faults' = faults + Cardinality(g)

Init ==
    /\ loop = [n \in Node |-> IF n \in Off THEN "ended" ELSE "run"]
    /\ known = [n \in Node |-> {n} \cup Explicit[n]]
    /\ forgotten = [n \in Node |-> {}]
    /\ cables = {}
    /\ status = [n \in Node |-> StatusOf(1, AtLeastOne(Cardinality({n} \cup Explicit[n])))]
    /\ locals = [n \in Node |-> IF n \in Off THEN "none" ELSE "on"]
    /\ lingering = [n \in Node |-> {}]
    /\ faults = 0
    /\ hung = {} /\ stale = {} /\ asked = {} /\ quitting = FALSE /\ mates = {} /\ dropped = FALSE

-----------------------------------------------------------------------------
(* A daemon starts and stops.                                              *)

\* init(): neighbors.txt and the option are read, the status is evaluated.
Start(n) ==
    /\ loop[n] = "ended" /\ faults < MaxFaults
    /\ loop' = [loop EXCEPT ![n] = "run"]
    /\ locals' = [locals EXCEPT ![n] = "on"]
    /\ LET ns == known[n] \cup {n} \cup Explicit[n]
       IN /\ known' = [known EXCEPT ![n] = ns]
          /\ Announce(n, LiveConnections(n, cables), ns)
    /\ forgotten' = [forgotten EXCEPT ![n] = {}]
    /\ hung' = hung \ {n}
    /\ faults' = faults + 1
    /\ mates' = mates \ {n}
    /\ UNCHANGED <<cables, lingering, asked, quitting, dropped>>

\* Deviation: a daemon that stops takes the cluster with it.
AlwaysShutdown(quit) == "SHUTDOWN"
\* Deviation: a daemon that shuts the cluster down only stops itself.
NeverShutdown(quit) == "DISCONNECT"

\* stop(): the message every other daemon gets.
PartingWord(quit) == IF quit THEN "SHUTDOWN" ELSE "DISCONNECT"

\* stop() sends the word over connections of type REMOTE and over permanent ones
\* and marks them done; an inbound one of type DOWN is removed.
PartingCables(n, cs, word) ==
    InUse({IF c.from = n THEN IF c.fromUp THEN SendTo(c, word) ELSE c
           ELSE IF c.to # n \/ ~c.toUp THEN c
           ELSE IF c.as = "remote" THEN SendFrom(c, word)
           ELSE CloseTo(c) : c \in cs})

\* Deviation: a local service without DISCONNECTING stays connected.
LeaveLocals(l) == {l}

\* stop() and local services: sent DISCONNECTING, or with output left, they are
\* marked done; any other is removed.
PartLocals(l) == IF l = "on" THEN {"done", "none"} ELSE {l}

\* Permanent connections without a socket: waiting, refused or down.
Idle(n, cs) == {Waiting(a) : a \in {a \in Permanent(n) :
                                       ~\E c \in cs : c.from = n /\ c.to = a /\ c.fromUp}}

\* Inbound connections that are removed at once each leave a gossip connection.
Relapsed(n, cs, g) == {Gossip(a) : a \in g \cup {c.from : c \in
                                       {d \in cs : d.to = n /\ d.toUp /\ d.as # "remote"}}}

\* stop(), of a daemon with the connections cs, for any reason. Permanent connections
\* without a socket are marked done too; whether the library then removes them is not
\* in this repository.
StopWith(n, quit, cs) ==
    /\ loop' = [loop EXCEPT ![n] = "stopping"]
    /\ cables' = PartingCables(n, cs, PartingWord(quit))
    /\ \E l \in PartLocals(locals[n]) : locals' = [locals EXCEPT ![n] = l]
    /\ \E idle \in {{}, Idle(n, cs)}, g \in Calls(n) :
          /\ lingering' = [lingering EXCEPT ![n] = @ \cup idle \cup Relapsed(n, cs, g)]
          /\ faults' = faults + Cardinality(g)
    /\ hung' = hung \ {n} /\ stale' = stale \ {n}
    /\ UNCHANGED <<known, forgotten, status>>

\* SIGINT, or STOP or SHUTDOWN from a local service.
Stop(n, quit) ==
    /\ loop[n] = "run" /\ Cardinality(asked \ {n}) < MaxStops
    /\ StopWith(n, quit, cables)
    /\ asked' = asked \cup {n}
    /\ quitting' = (quitting \/ quit)
    /\ mates' = (IF quit THEN mates \cup {a \in Linked(n) : loop[a] = "run"} ELSE mates) \ {n}
    /\ UNCHANGED dropped

\* A connection marked done has written its last message and is removed.
Drained(n, c) ==
    /\ loop[n] = "stopping" /\ c \in Ends(n, cables)
    /\ cables' = Swap(c, CloseEnd(n, c))
    /\ lingering' = Removed(n, c)
    /\ UNCHANGED <<loop, known, forgotten, status, locals, faults, hung, stale,
                   asked, quitting, mates, dropped>>

LocalsDrained(n) ==
    /\ loop[n] = "stopping" /\ locals[n] = "done"
    /\ locals' = [locals EXCEPT ![n] = "none"]
    /\ UNCHANGED <<loop, known, forgotten, cables, status, lingering, faults, hung, stale,
                   asked, quitting, mates, dropped>>

\* The event loop returns when it has no connection left.
LoopEnds(n) ==
    /\ loop[n] = "stopping"
    /\ locals[n] = "none" /\ Ends(n, cables) = {} /\ lingering[n] = {}
    /\ loop' = [loop EXCEPT ![n] = "ended"]
    /\ UNCHANGED <<known, forgotten, cables, status, locals, lingering, faults, hung, stale,
                   asked, quitting, mates, dropped>>

\* shutting_down(): whatever the message is, reply QUITTING and remove the
\* connection, with what it had not written yet: the parting word may be lost.
ShuttingDown(n, c) ==
    /\ loop[n] = "stopping" /\ c \in Ends(n, cables) /\ Inbox(n, c) # <<>>
    /\ LET parting == {"DISCONNECT", "SHUTDOWN"}
           rest(q) == IF q # <<>> /\ q[Len(q)] \in parting THEN SubSeq(q, 1, Len(q) - 1) ELSE q
       IN \/ /\ cables' = Swap(c, CloseEnd(n, IF c.to = n THEN SendFrom(c, "QUITTING")
                                              ELSE SendTo(c, "QUITTING")))
             /\ UNCHANGED dropped
          \/ /\ cables' = Swap(c, CloseEnd(n, IF c.to = n THEN [c EXCEPT !.fromQ = rest(@)]
                                              ELSE [c EXCEPT !.toQ = rest(@)]))
             /\ dropped' = (dropped \/ (c.to = n /\ Tells(c.fromQ)) \/ (c.from = n /\ Tells(c.toQ)))
    /\ lingering' = Removed(n, c)
    /\ UNCHANGED <<loop, known, forgotten, status, locals, faults, hung, stale,
                   asked, quitting, mates>>

\* msg_shutdown(): the sender gets SHUTDOWN in return.
ReadShutdown(n, c) ==
    /\ loop[n] = "run" /\ Reads(n, c, "SHUTDOWN")
    /\ StopWith(n, TRUE, Swap(c, TakeOne(n, c)))
    /\ mates' = mates \ {n}
    /\ UNCHANGED <<asked, quitting, dropped>>

\* msg_quitting() logs.
ReadQuitting(n, c) ==
    /\ loop[n] = "run" /\ Reads(n, c, "QUITTING")
    /\ cables' = Swap(c, TakeOne(n, c))
    /\ UNCHANGED <<loop, known, forgotten, status, locals, lingering, faults, hung, stale,
                   asked, quitting, mates, dropped>>

-----------------------------------------------------------------------------
(* Connections of running daemons.                                         *)

\* Cables between the same computers are told apart by a number.
Free(n, a) == {i \in 1..MaxCables : ~\E c \in cables : c.from = n /\ c.to = a /\ c.id = i}

\* Deviation: the smaller computer connects too.
DialAnyone(n, a) ==
    /\ loop[n] = "run" /\ loop[a] = "run" /\ a \in known[n] /\ a # n
    /\ ~\E c \in cables : c.from = n /\ c.to = a /\ c.fromUp
    /\ Free(n, a) # {}
    /\ cables' = cables \cup
         {[from |-> n, to |-> a, id |-> CHOOSE i \in Free(n, a) : TRUE, fromUp |-> TRUE, toUp |-> TRUE,
           whole |-> TRUE, as |-> "new", toQ |-> <<"CONNECT">>, fromQ |-> <<>>]}
    /\ UNCHANGED <<loop, known, forgotten, status, locals, lingering, faults, hung, stale,
                   asked, quitting, mates, dropped>>

\* remote_connection::process_connected() sends CONNECT.
Dial(n, a) ==
    /\ loop[n] = "run" /\ loop[a] = "run" /\ a \in Permanent(n)
    /\ ~\E c \in cables : c.from = n /\ c.to = a /\ c.fromUp
    /\ Free(n, a) # {}
    /\ cables' = cables \cup
         {[from |-> n, to |-> a, id |-> CHOOSE i \in Free(n, a) : TRUE, fromUp |-> TRUE, toUp |-> TRUE,
           whole |-> TRUE, as |-> "new", toQ |-> <<"CONNECT">>, fromQ |-> <<>>]}
    /\ UNCHANGED <<loop, known, forgotten, status, locals, lingering, faults, hung, stale,
                   asked, quitting, mates, dropped>>

NameTaken(a, c) == \E o \in Ends(a, cables) \ {c} :
                      o.to = a /\ o.from = c.from /\ o.as = "remote"

\* msg_connect() accepts, learns its neighbors and evaluates the status.
AcceptConnect(a, c) ==
    /\ loop[a] = "run" /\ c.to = a /\ Reads(a, c, "CONNECT")
    /\ ~NameTaken(a, c)
    /\ LET ns == known[a] \cup {c.from} \cup Explicit[c.from]
           cs == Swap(c, SendFrom([TakeOne(a, c) EXCEPT !.as = "remote"], "ACCEPT"))
       IN /\ cables' = cs
          /\ known' = [known EXCEPT ![a] = ns]
          /\ Evaluate(a, cs, ns)
    /\ UNCHANGED <<loop, forgotten, locals, lingering, asked, quitting, mates, dropped>>

\* The name is taken, or there are too many connections: f_max_connections counts
\* those of local services too, so that may be at any time.
RefuseConnect(a, c) ==
    /\ loop[a] = "run" /\ c.to = a /\ Reads(a, c, "CONNECT")
    /\ \/ NameTaken(a, c) /\ UNCHANGED faults
       \/ ~NameTaken(a, c) /\ faults < MaxFaults /\ faults' = faults + 1
    /\ cables' = Swap(c, SendFrom([TakeOne(a, c) EXCEPT !.as = "refused"], "REFUSE"))
    /\ UNCHANGED <<loop, known, forgotten, status, locals, lingering, hung, stale,
                   asked, quitting, mates, dropped>>

\* msg_accept(): a connection more, neighbors more, and no evaluation.
ReadAccept(n, c) ==
    /\ loop[n] = "run" /\ c.from = n /\ Reads(n, c, "ACCEPT")
    /\ known' = [known EXCEPT ![n] = @ \cup Explicit[c.to]]
    /\ cables' = Swap(c, TakeOne(n, c))
    /\ UNCHANGED <<loop, forgotten, status, locals, lingering, faults, hung, stale,
                   asked, quitting, mates, dropped>>

\* msg_refuse(): disconnect() and wait.
ReadRefuse(n, c) ==
    /\ loop[n] = "run" /\ Reads(n, c, "REFUSE")
    /\ cables' = Swap(c, CloseFrom(c))
    /\ UNCHANGED <<loop, known, forgotten, status, locals, lingering, faults, hung, stale,
                   asked, quitting, mates, dropped>>

\* Deviation: the status is evaluated before the connection is removed.
DisconnectLate(n, c) ==
    /\ loop[n] = "run" /\ Reads(n, c, "DISCONNECT")
    /\ c.as = "remote"
    /\ cables' = Swap(c, CloseEnd(n, c))
    /\ Evaluate(n, cables, known[n])
    /\ UNCHANGED <<loop, known, forgotten, locals, lingering, asked, quitting, mates, dropped>>

\* msg_disconnect() on a connection of type REMOTE: it is closed, then the
\* status is evaluated.
ReadDisconnect(n, c) ==
    /\ loop[n] = "run" /\ Reads(n, c, "DISCONNECT")
    /\ c.as = "remote"
    /\ LET cs == Swap(c, CloseEnd(n, c))
       IN cables' = cs /\ Evaluate(n, cs, known[n])
    /\ UNCHANGED <<loop, known, forgotten, locals, lingering, asked, quitting, mates, dropped>>

\* msg_disconnect() on any other connection is an error.
IgnoreDisconnect(n, c) ==
    /\ loop[n] = "run" /\ Reads(n, c, "DISCONNECT")
    /\ c.as # "remote"
    /\ cables' = Swap(c, TakeOne(n, c))
    /\ UNCHANGED <<loop, known, forgotten, status, locals, lingering, faults, hung, stale,
                   asked, quitting, mates, dropped>>

\* process_hup() and process_connection_failed(): HANGUP is broadcast. What
\* cluster_status() makes of it is sent to the connection that is gone. Whether a
\* permanent connection that was marked done goes too is up to the library.
HangUp(n, c) ==
    /\ SeesHangUp(n, c)
    /\ cables' = Swap(c, CloseEnd(n, c))
    /\ hung' = IF loop[n] = "run" THEN hung \cup {n} ELSE hung
    /\ \/ loop[n] # "stopping" /\ UNCHANGED lingering
       \/ loop[n] = "stopping" /\ lingering' = Removed(n, c)
       \/ /\ loop[n] = "stopping" /\ c.from = n
          /\ lingering' = Linger(n, Waiting(c.to))
    /\ UNCHANGED <<loop, known, forgotten, status, locals, faults, stale,
                   asked, quitting, mates, dropped>>

\* The network breaks a cable; what was on its way is lost.
Cut(c) ==
    /\ c.whole /\ faults < MaxFaults
    /\ cables' = Swap(c, [c EXCEPT !.whole = FALSE, !.toQ = <<>>, !.fromQ = <<>>])
    /\ faults' = faults + 1
    /\ dropped' = (dropped \/ Tells(c.toQ) \/ Tells(c.fromQ))
    /\ UNCHANGED <<loop, known, forgotten, status, locals, lingering, hung, stale,
                   asked, quitting, mates>>

-----------------------------------------------------------------------------
(* Neighbors come and go, and nobody evaluates the status of the cluster.  *)

\* msg_gossip() at a, of a GOSSIP from n; one from a computer that is known changes
\* nothing here.
Learn(a, n) == /\ known' = [known EXCEPT ![a] = @ \cup {n}]
               /\ stale' = IF n \in known[a] THEN stale ELSE stale \cup {a}

Gossips(n, a) ==
    /\ loop[n] = "run" \/ Stray(a) \in lingering[n]
    /\ loop[a] = "run" /\ Acquainted(n, a) /\ n \notin known[a]
    /\ Learn(a, n)
    /\ UNCHANGED <<loop, forgotten, cables, status, locals, lingering, faults, hung,
                   asked, quitting, mates, dropped>>

\* A gossip connection of a daemon that stops calls until it reads RECEIVED; then
\* gossip_received() removes it.
LastGossip(n, a) ==
    /\ loop[n] = "stopping" /\ Gossip(a) \in lingering[n] /\ loop[a] = "run"
    /\ Learn(a, n)
    /\ lingering' = [lingering EXCEPT ![n] = @ \ {Gossip(a)}]
    /\ UNCHANGED <<loop, forgotten, cables, status, locals, faults, hung,
                   asked, quitting, mates, dropped>>

\* msg_forget() at n: remove_neighbor() and forget_remote_connection(). The permanent
\* connection is closed; a gossip connection, if there is one, leaves f_gossip_ips only.
Forget(n, a) ==
    /\ loop[n] = "run" /\ faults < MaxFaults
    /\ a \in known[n] \/ Acquainted(n, a)
    /\ known' = [known EXCEPT ![n] = @ \ {a}]
    /\ forgotten' = [forgotten EXCEPT ![n] = @ \cup ({a} \cap known[n])]
    /\ stale' = IF a \in known[n] THEN stale \cup {n} ELSE stale
    /\ \/ /\ ~\E c \in cables : c.from = n /\ c.to = a /\ c.fromUp
          /\ UNCHANGED <<cables, dropped>>
       \/ \E c \in cables : /\ c.from = n /\ c.to = a /\ c.fromUp
                            /\ cables' = Swap(c, CloseFrom(c))
                            /\ dropped' = (dropped \/ Tells(c.fromQ))
    /\ \/ UNCHANGED lingering
       \/ n # a /\ lingering' = Linger(n, Stray(a))
    /\ faults' = faults + 1
    /\ UNCHANGED <<loop, status, locals, hung, asked, quitting, mates>>

Handle(n, c) ==
    \/ ShuttingDown(n, c) \/ ReadShutdown(n, c) \/ ReadQuitting(n, c)
    \/ AcceptConnect(n, c) \/ RefuseConnect(n, c) \/ ReadAccept(n, c) \/ ReadRefuse(n, c)
    \/ ReadDisconnect(n, c) \/ IgnoreDisconnect(n, c) \/ HangUp(n, c)

Next ==
    \/ \E n \in Node : \/ Start(n) \/ LocalsDrained(n) \/ LoopEnds(n)
                       \/ \E quit \in BOOLEAN : Stop(n, quit)
    \/ \E n, a \in Node : Dial(n, a) \/ Gossips(n, a) \/ LastGossip(n, a) \/ Forget(n, a)
    \/ \E c \in cables : Cut(c)
    \/ \E n \in Node : \E c \in Ends(n, cables) : Handle(n, c) \/ Drained(n, c)

Spec == Init /\ [][Next]_vars

\* The event loop of a daemon that stops goes on: what is marked done is written and
\* removed, the timers of gossip connections call computers that listen.
Wind(n) == \/ LocalsDrained(n) \/ LoopEnds(n)
           \/ \E c \in Ends(n, cables) : Drained(n, c)
           \/ \E a \in Node : LastGossip(n, a)

FairSpec == Spec /\ \A n \in Node : WF_vars(Wind(n))

-----------------------------------------------------------------------------
(* Properties.                                                             *)

TypeOK ==
    /\ loop \in [Node -> {"run", "stopping", "ended"}]
    /\ known \in [Node -> SUBSET Node] /\ forgotten \in [Node -> SUBSET Node]
    /\ cables \subseteq Cable /\ \A c \in cables : c.to < c.from
    /\ \A n \in Node : status[n].total \in Nat
    /\ locals \in [Node -> {"on", "done", "none"}]
    /\ lingering \in [Node -> SUBSET Lingerer]
    /\ faults \in 0..MaxFaults
    /\ hung \subseteq Node /\ stale \subseteq Node /\ asked \subseteq Node /\ quitting \in BOOLEAN
    /\ mates \subseteq Node /\ dropped \in BOOLEAN

\* A daemon that only accepts connections, saw no hang up and has answered all
\* its CONNECTs has announced what is so: up when it and the computers it is
\* linked to are more than half of those it knows, complete when they are all.
\* That is, unless FORGET or GOSSIP changed its neighbors since it last evaluated
\* the status, or a gossip connection was open to it at that time.
AcceptorStatus ==
    \A n \in Node :
        /\ loop[n] = "run" /\ n \notin hung /\ n \notin stale
        /\ \A c \in Ends(n, cables) : c.to = n /\ c.as = "remote"
        /\ \A a \in known[n] : n <= a
        => LET here  == 1 + Cardinality(Peers(n, cables))
               total == AtLeastOne(Cardinality(known[n]))
           IN /\ (status[n].status = "UP") <=> (2 * here > total)
              /\ (status[n].complete = "COMPLETE") <=> (here = total)

\* Stopping one daemon (not SHUTDOWN) stops no other one.
StopStaysLocal == ~quitting => \A n \in Node \ Off : loop[n] # "run" => n \in asked

\* stop() ends the event loop, whatever the others do, unless something is left in it
\* that stop() has no hold of: a permanent connection without a socket, a gossip
\* connection that FORGET took out of the table, or one made after stop() to a
\* computer that does not run. Nothing else keeps a daemon stopping for ever.
Waits(n) == \E x \in lingering[n] : x.kind # "gossip" \/ loop[x.to] # "run"
StopEnds == \A n \in Node : []<>(loop[n] # "stopping" \/ Waits(n))

\* SHUTDOWN takes along every daemon linked to the one that got it, by a cable of
\* either direction: once no SHUTDOWN is on its way each of them has begun to stop.
\* Unless the message is lost: its cable breaks, FORGET closes it, or
\* shutting_down() removes the connection before it is written.
ShutdownSpreads ==
    ~dropped /\ (\A c \in cables : ~Tells(c.toQ) /\ ~Tells(c.fromQ))
        => mates = {}

-----------------------------------------------------------------------------
(* What a comment in the code says and the code does not do; a run of its  *)
(* own finds it violated.                                                  *)

\* communicatord.cpp:3818: "We received or lost a connection with a remote computer
\* and need to determine (again) whether we are part of a cluster or not." With all
\* its messages read, no connection half open and its neighbors as they were (but
\* for those that ACCEPT brought), a daemon has announced what its connections
\* amount to.
StatusDetermined ==
    \A n \in Node :
        /\ loop[n] = "run" /\ n \notin stale
        /\ \A c \in Ends(n, cables) : /\ c.whole /\ c.fromUp /\ c.toUp /\ c.as = "remote"
                                      /\ c.toQ = <<>> /\ c.fromQ = <<>>
        => status[n] = StatusOf(LiveConnections(n, cables) + 1, Cardinality(known[n]))

=============================================================================
