------------------------------ MODULE RemoteLinks ------------------------------
(***************************************************************************)
(* How the communicatord daemons of a cluster find each other and keep one *)
(* connection per pair of computers.                                       *)
(*                                                                         *)
(* The daemon with the larger address keeps a permanent connection to the  *)
(* smaller one (a remote_connection) and sends CONNECT over it. The daemon *)
(* with the smaller address only tells the other that it exists: it calls  *)
(* (a gossip_connection), sends GOSSIP, and hangs up once it reads         *)
(* RECEIVED. What a daemon learns is saved in neighbors.txt. Daemons stop  *)
(* and restart, connections break and the two ends notice that in any      *)
(* order, and an administrator may have an address forgotten.              *)
(*                                                                         *)
(* A message sent over a connection is read from the state of the other    *)
(* end: an inbound connection is "new" until its CONNECT or GOSSIP is      *)
(* handled, and then says which answer was sent back over it.              *)
(***************************************************************************)
EXTENDS Integers, FiniteSets

CONSTANTS
    Node,           \* computers, ordered by address
    Explicit,       \* the "neighbors" option of each computer
    Forgettable,    \* addresses an administrator sends FORGET for
    MaxFaults       \* bound on stops, broken links, FORGETs and crowds

ASSUME NodeAssumption == Node \subseteq Nat
ASSUME OptionsAssumption == /\ Explicit \in [Node -> SUBSET Node]
                            /\ Forgettable \subseteq Node
                            /\ MaxFaults \in Nat

VARIABLES
    up,         \* whether each daemon runs
    saved,      \* neighbors.txt of each computer
    tables,     \* what each daemon has in memory, see Table
    inbound,    \* service_connections each daemon got from other computers
    crowded,    \* daemons that reached f_max_connections
    faults

vars == <<up, saved, tables, inbound, crowded, faults>>

Dialing == {"none", "waiting", "asked", "accepted"}
Calls   == {"gossip", "stray"}
Table   == [known: SUBSET Node,             \* f_all_neighbors
            all: SUBSET Node,               \* f_all_ips
            dial: [Node -> Dialing],        \* f_smaller_ips
            gossip: SUBSET Node,            \* f_gossip_ips
            stray: SUBSET Node]             \* gossip_connections out of f_gossip_ips
Answers == {"new", "remote", "refused", "crowded", "told", "heard"}
Inbound == [peer: Node, kind: Calls \cup {"link"}, live: BOOLEAN, as: Answers]

Blank == [known |-> {}, all |-> {}, dial |-> [a \in Node |-> "none"],
          gossip |-> {}, stray |-> {}]

Init ==
    /\ up = [n \in Node |-> FALSE]
    /\ saved = [n \in Node |-> {}]
    /\ tables = [n \in Node |-> Blank]
    /\ inbound = [n \in Node |-> {}]
    /\ crowded = {}
    /\ faults = 0

-----------------------------------------------------------------------------
(* The tables of a daemon.                                                 *)

\* Deviation: our own address is taken for one of another computer.
AddRemotesSelf(n, t, addresses) ==
    [t EXCEPT !.all    = @ \cup addresses,
              !.dial   = [a \in Node |-> IF a \in addresses \ t.all /\ a < n
                                         THEN "waiting" ELSE @[a]],
              !.gossip = @ \cup {a \in addresses \ t.all : a > n}]

\* add_remote_communicator() on each of addresses: a new one gets a permanent
\* connection or a gossip. (That one with a connection that is down is tried at
\* once is a matter of time.)
AddRemotes(n, t, addresses) ==
    LET fresh == addresses \ (t.all \cup {n})
    IN [t EXCEPT
          !.all    = @ \cup fresh,
          !.dial   = [a \in Node |-> IF a \in fresh /\ a < n THEN "waiting" ELSE @[a]],
          !.gossip = @ \cup {a \in fresh : a > n}]

AddNeighbors(n, t, addresses) ==
    LET fresh == addresses \ t.known
    IN AddRemotes(n, [t EXCEPT !.known = @ \cup fresh], fresh)

\* Deviation: neighbors.txt is not read.
ReadNothing(n) == Blank

\* The tables of a daemon that starts, once it read neighbors.txt.
ReadNeighbors(n) == AddNeighbors(n, Blank, saved[n])

\* Deviation: the file is only written when the daemon starts.
SaveLater(n, t) == saved

\* save_neighbors(), which a change of f_all_neighbors triggers.
Save(n, t) ==
    [saved EXCEPT ![n] = IF t.known = tables[n].known THEN @ ELSE t.known]

\* forget_remote_connection(): a gossip only leaves f_gossip_ips, and f_all_ips
\* is left alone.
ForgetRemote(t, a) == [t EXCEPT !.dial[a] = "none", !.gossip = @ \ {a},
                                !.stray = @ \cup (t.gossip \cap {a})]

GossipReceived(t, a) == [t EXCEPT !.gossip = @ \ {a}]
ConnectionLost(t, a) == [t EXCEPT !.gossip = @ \cup {a}]

\* Deviation: the permanent connection is removed when it is lost.
GivenUp(n, a) == [tables EXCEPT ![n].dial[a] = "none"]

\* n tries again to reach a after a pause: of a minute, of five when a said that
\* it stops, of a day when it refused.
Waiting(n, a) == [tables EXCEPT ![n].dial[a] = "waiting"]

-----------------------------------------------------------------------------
(* Connections as the daemon that was called sees them.                    *)

Opened(peer, kind) == [peer |-> peer, kind |-> kind, live |-> TRUE, as |-> "new"]

\* peer closed its end of connections that it opened as kinds.
Closed(conns, peer, kinds) ==
    {IF c.peer = peer /\ c.kind \in kinds THEN [c EXCEPT !.live = FALSE] ELSE c : c \in conns}

Answered(conns, c, as) == (conns \ {c}) \cup {[c EXCEPT !.as = as]}

LiveFrom(m, n, kind) == {c \in inbound[m] : c.peer = n /\ c.kind = kind /\ c.live}

\* A connection keeps the server name that its CONNECT gave.
Named(c) == c.as \in {"remote", "crowded"}
\* Deviation: the name is only compared with that of live connections.
NameTakenNow(a, c) == \E o \in inbound[a] \ {c} : o.peer = c.peer /\ Named(o) /\ o.live
NameTaken(a, c) == \E o \in inbound[a] \ {c} : o.peer = c.peer /\ Named(o)

-----------------------------------------------------------------------------
(* A daemon starts and stops.                                              *)

\* init_neighbors(): the file, our own address, the option.
Start(n) ==
    /\ ~up[n]
    /\ up' = [up EXCEPT ![n] = TRUE]
    /\ LET t == AddNeighbors(n, ReadNeighbors(n), {n} \cup Explicit[n])
       IN /\ tables' = [tables EXCEPT ![n] = t]
          /\ saved' = [saved EXCEPT ![n] = t.known]
    /\ UNCHANGED <<inbound, crowded, faults>>

\* The daemon stops or crashes: its connections close, the others notice later.
Stop(n) ==
    /\ up[n] /\ faults < MaxFaults
    /\ up' = [up EXCEPT ![n] = FALSE]
    /\ tables' = [tables EXCEPT ![n] = Blank]
    /\ inbound' = [m \in Node |-> IF m = n THEN {}
                                  ELSE Closed(inbound[m], n, Calls \cup {"link"})]
    /\ crowded' = crowded \ {n}
    /\ faults' = faults + 1
    /\ UNCHANGED saved

-----------------------------------------------------------------------------
(* The permanent connection of n to the smaller address a.                 *)

\* The timer of the remote_connection reaches a: process_connected() sends
\* CONNECT.
Dial(n, a) ==
    /\ up[n] /\ up[a] /\ tables[n].dial[a] = "waiting"
    /\ tables' = [tables EXCEPT ![n].dial[a] = "asked"]
    /\ inbound' = [inbound EXCEPT ![a] = @ \cup {Opened(n, "link")}]
    /\ UNCHANGED <<up, saved, crowded, faults>>

\* msg_connect() refuses: the name is in use, or a has too many connections.
RefuseConnect(a, c) ==
    /\ up[a] /\ c.kind = "link" /\ c.as = "new"
    /\ \/ /\ NameTaken(a, c)
          /\ inbound' = [inbound EXCEPT ![a] = Answered(@, c, "refused")]
       \/ /\ ~NameTaken(a, c) /\ a \in crowded
          /\ inbound' = [inbound EXCEPT ![a] = Answered(@, c, "crowded")]
    /\ UNCHANGED <<up, saved, tables, crowded, faults>>

\* msg_connect() accepts: learn the neighbors of the caller and its address,
\* stop the gossip to it, reply ACCEPT.
AcceptConnect(a, c) ==
    /\ up[a] /\ c.kind = "link" /\ c.as = "new"
    /\ ~NameTaken(a, c) /\ a \notin crowded
    /\ LET n == c.peer
           t == AddNeighbors(a, AddNeighbors(a, tables[a], Explicit[n]), {n})
       IN /\ tables' = [tables EXCEPT ![a] = GossipReceived(t, n)]
          /\ saved' = Save(a, t)
          /\ inbound' = [inbound EXCEPT ![a] = Answered(@, c, "remote"),
                                        ![n] = Closed(@, a, {"gossip"})]
    /\ UNCHANGED <<up, crowded, faults>>

\* Deviation: the neighbors that come with ACCEPT are not used.
ReadAcceptOnly(n, a) ==
    /\ up[n] /\ tables[n].dial[a] = "asked"
    /\ \E c \in LiveFrom(a, n, "link") : c.as = "remote"
    /\ tables' = [tables EXCEPT ![n].dial[a] = "accepted"]
    /\ UNCHANGED <<up, saved, inbound, crowded, faults>>

\* msg_accept() at n.
ReadAccept(n, a) ==
    /\ up[n] /\ tables[n].dial[a] = "asked"
    /\ \E c \in LiveFrom(a, n, "link") : c.as = "remote"
    /\ LET t == AddNeighbors(n, [tables[n] EXCEPT !.dial[a] = "accepted"], Explicit[a])
       IN /\ tables' = [tables EXCEPT ![n] = t]
          /\ saved' = Save(n, t)
    /\ UNCHANGED <<up, inbound, crowded, faults>>

\* msg_refuse() at n: too_busy(), then disconnect().
ReadRefuse(n, a) ==
    /\ up[n] /\ tables[n].dial[a] = "asked"
    /\ \E c \in LiveFrom(a, n, "link") : c.as \in {"refused", "crowded"}
    /\ tables' = Waiting(n, a)
    /\ inbound' = [inbound EXCEPT ![a] = Closed(@, n, {"link"})]
    /\ UNCHANGED <<up, saved, crowded, faults>>

\* The other end is gone: n sees a hang up, or msg_disconnect() when a stopped
\* in order and had accepted n.
DialLost(n, a) ==
    /\ up[n] /\ tables[n].dial[a] \in {"asked", "accepted"}
    /\ LiveFrom(a, n, "link") = {}
    /\ tables' = Waiting(n, a)
    /\ UNCHANGED <<up, saved, inbound, crowded, faults>>

\* The network breaks the connection and only n has noticed so far.
Cut(n, a) ==
    /\ up[n] /\ faults < MaxFaults
    /\ tables[n].dial[a] \in {"asked", "accepted"} /\ LiveFrom(a, n, "link") # {}
    /\ tables' = Waiting(n, a)
    /\ inbound' = [inbound EXCEPT ![a] = Closed(@, n, {"link"})]
    /\ faults' = faults + 1
    /\ UNCHANGED <<up, saved, crowded>>

-----------------------------------------------------------------------------
(* Gossip of n to m.                                                       *)

GossipCall(n, m, kind) ==
    /\ up[n] /\ up[m]
    /\ m \in IF kind = "gossip" THEN tables[n].gossip ELSE tables[n].stray
    /\ LiveFrom(m, n, kind) = {}
    /\ inbound' = [inbound EXCEPT ![m] = @ \cup {Opened(n, kind)}]
    /\ UNCHANGED <<up, saved, tables, crowded, faults>>

\* msg_gossip() at m: remember the caller, reply RECEIVED, add it once more.
HandleGossip(m, c) ==
    /\ up[m] /\ c.kind \in Calls /\ c.as = "new"
    /\ LET t == AddNeighbors(m, tables[m], {c.peer})
       IN /\ tables' = [tables EXCEPT ![m] = AddRemotes(m, t, {c.peer})]
          /\ saved' = Save(m, t)
    /\ inbound' = [inbound EXCEPT ![m] = Answered(@, c, "told")]
    /\ UNCHANGED <<up, crowded, faults>>

\* gossip_connection::process_message() at n: RECEIVED ends the gossip that is
\* in f_gossip_ips; a connection that no longer is there stays.
ReadReceived(n, m, kind) ==
    /\ up[n]
    /\ \E c \in LiveFrom(m, n, kind) :
          /\ c.as = "told"
          /\ inbound' = [inbound EXCEPT ![m] = Closed(Answered(@, c, "heard"), n, {"gossip"})]
    /\ tables' = [tables EXCEPT ![n] = GossipReceived(@, m)]
    /\ UNCHANGED <<up, saved, crowded, faults>>

-----------------------------------------------------------------------------
\* connection_removed() of an inbound connection, whatever it was used for.
InboundGone(m, c) ==
    /\ up[m] /\ ~c.live
    /\ inbound' = [inbound EXCEPT ![m] = @ \ {c}]
    /\ tables' = [tables EXCEPT ![m] = ConnectionLost(@, c.peer)]
    /\ UNCHANGED <<up, saved, crowded, faults>>

\* The network breaks a connection and only the called end m has noticed so far.
CutInbound(m, c) ==
    /\ up[m] /\ c.live /\ faults < MaxFaults
    /\ inbound' = [inbound EXCEPT ![m] = @ \ {c}]
    /\ tables' = [tables EXCEPT ![m] = ConnectionLost(@, c.peer)]
    /\ faults' = faults + 1
    /\ UNCHANGED <<up, saved, crowded>>

\* msg_forget() for the address x. The permanent connection closes.
Forget(n, x) ==
    /\ up[n] /\ faults < MaxFaults
    /\ LET f == ForgetRemote([tables[n] EXCEPT !.known = @ \ {x}], x)
       IN /\ tables' = [tables EXCEPT ![n] = f]
          /\ saved' = Save(n, f)
          /\ inbound' = [inbound EXCEPT ![x] =
               {IF c.peer = n /\ c.kind = "gossip" THEN [c EXCEPT !.kind = "stray"] ELSE c :
                  c \in Closed(@, n, {"link"})}]
    /\ faults' = faults + 1
    /\ UNCHANGED <<up, crowded>>

\* Local services connect and leave.
Crowd(n) ==
    /\ up[n] /\ n \notin crowded /\ faults < MaxFaults
    /\ crowded' = crowded \cup {n}
    /\ faults' = faults + 1
    /\ UNCHANGED <<up, saved, tables, inbound>>

Thin(n) ==
    /\ n \in crowded
    /\ crowded' = crowded \ {n}
    /\ UNCHANGED <<up, saved, tables, inbound, faults>>

Next ==
    \/ \E n \in Node : Start(n) \/ Stop(n) \/ Crowd(n) \/ Thin(n)
    \/ \E n, a \in Node : \/ Dial(n, a) \/ ReadAccept(n, a) \/ ReadRefuse(n, a)
                          \/ DialLost(n, a) \/ Cut(n, a)
    \/ \E n, m \in Node, kind \in Calls : GossipCall(n, m, kind) \/ ReadReceived(n, m, kind)
    \/ \E m \in Node : \E c \in inbound[m] :
          \/ RefuseConnect(m, c) \/ AcceptConnect(m, c)
          \/ HandleGossip(m, c) \/ InboundGone(m, c) \/ CutInbound(m, c)
    \/ \E n \in Node, x \in Forgettable : Forget(n, x)

Spec == Init /\ [][Next]_vars

\* The event loop serves every connection and timer in turn, a daemon that
\* stopped is started again, and local services do not crowd it forever.
Serve(m, n, kind) ==
    \E c \in inbound[m] : /\ c.peer = n /\ c.kind = kind
                          /\ RefuseConnect(m, c) \/ AcceptConnect(m, c) \/ HandleGossip(m, c)
Clear(m, n, kind, as) ==
    \E c \in inbound[m] : c.peer = n /\ c.kind = kind /\ c.as = as /\ InboundGone(m, c)

FairSpec ==
    /\ Spec
    /\ \A n \in Node : WF_vars(Start(n)) /\ WF_vars(Thin(n))
    /\ \A n, a \in Node :
          /\ WF_vars(Dial(n, a)) /\ WF_vars(DialLost(n, a))
          /\ WF_vars(ReadAccept(n, a)) /\ WF_vars(ReadRefuse(n, a))
          /\ \A kind \in Calls : /\ WF_vars(GossipCall(n, a, kind))
                                /\ WF_vars(ReadReceived(n, a, kind))
          /\ \A kind \in Calls \cup {"link"} :
                /\ WF_vars(Serve(a, n, kind))
                /\ \A as \in Answers : WF_vars(Clear(a, n, kind, as))

-----------------------------------------------------------------------------
(* Properties.                                                             *)

TypeOK ==
    /\ up \in [Node -> BOOLEAN]
    /\ saved \in [Node -> SUBSET Node]
    /\ tables \in [Node -> Table]
    /\ inbound \in [Node -> SUBSET Inbound]
    /\ crowded \subseteq Node
    /\ \A n \in Node : LET t == tables[n] IN n \notin t.all /\ n \notin t.gossip
                                          /\ \A a \in Node : t.dial[a] # "none" => a < n
    /\ faults \in 0..MaxFaults

Remembered == Node \ Forgettable
Linked(n, a) == /\ tables[n].dial[a] = "accepted"
                /\ \E c \in LiveFrom(a, n, "link") : c.as = "remote"

\* A daemon never has two connections of type REMOTE with the same computer,
\* or broadcasts and cluster counts would see that computer twice, even when
\* the computer comes back before the daemon noticed that it left.
OneLinkPerPeer ==
    \A a \in Node : \A c, o \in inbound[a] :
        c.as = "remote" /\ o.as = "remote" /\ c.peer = o.peer => c = o

\* Two computers never lose sight of each other: when a daemon knows a larger
\* address, has no connection from it and stopped calling it, then the other
\* computer has this one in its file and will dial, also after a restart.
NeverLost ==
    \A a, n \in Remembered :
        up[a] /\ a < n /\ n \in tables[a].known =>
            \/ n \in tables[a].gossip
            \/ \E c \in inbound[a] : c.peer = n
            \/ a \in saved[n]

\* The computer that owns a link keeps trying: what it once knew, through any
\* restart, is an address it dials as long as it is up.
OwnerDials ==
    \A n, a \in Remembered :
        up[n] /\ a < n /\ a \in saved[n] => tables[n].dial[a] # "none"

\* What a running daemon knows is what a crash at this very point would leave
\* it with: neighbors.txt is never behind, nor ahead of a FORGET.
FileCurrent == \A n \in Node : up[n] => saved[n] = tables[n].known

\* What the two ends of a link think of it agrees: a daemon that read ACCEPT is
\* in the neighbors.txt of the one that sent it, also if the latter restarted.
AcceptedIsSaved ==
    \A n, a \in Remembered : tables[n].dial[a] = "accepted" => n \in saved[a]

\* A file only loses addresses that an administrator had forgotten.
FilesGrow == [][\A n \in Node : saved[n] \ Forgettable \subseteq saved'[n]]_vars

\* All computers get to know all others, though each is told of some only: its
\* option travels with CONNECT and ACCEPT, its address with GOSSIP and CONNECT.
\* (That takes a network where these reach everyone, see Spreads in
\* RemoteLinksProofs.)
EveryoneKnown == <>(\A n \in Node : tables[n].known = Node)

\* Once a computer knows of another and faults are over, the two get linked,
\* whatever was refused, cut or restarted before, and stay so.
EventuallyLinked ==
    \A a, n \in Node :
        a < n => [](a \in saved[n] \/ n \in saved[a] => <>[]Linked(n, a))

=============================================================================
