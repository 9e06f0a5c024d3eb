----------------------------- MODULE LocalServices -----------------------------
(***************************************************************************)
(* One communicatord and the local services connected to it: registration  *)
(* by name, forwarding of a message to the service it names, the cache     *)
(* that holds messages for a known service that is not running, the        *)
(* replies a sender gets about its message, and the STATUS notifications.  *)
(*                                                                         *)
(* The daemon is one thread, so each handler is one action. What           *)
(* interleaves is the order in which the event loop picks connections, the *)
(* death of clients, the clock, and the links to other servers.            *)
(*                                                                         *)
(* Messages are numbered in the order the daemon dispatches them; the list *)
(* f_message_cache only ever grows at its end, so the order of its entries *)
(* is the order of their numbers and the list is kept here as a set.       *)
(***************************************************************************)
EXTENDS Integers, Sequences, FiniteSets

CONSTANTS
    Conns,              \* sockets local clients may hold
    Services,           \* service names
    LocalServicesList,  \* services with a .service file on this computer
    Servers,            \* names of the other communicatord servers
    NoName,             \* a connection that did not REGISTER
    Watchers,           \* clients whose COMMANDS include STATUS
    Inputs,             \* messages clients may send (without their sender)
    MinTtl, MaxTtl, DefaultTtl,     \* 10, 86400 and 60 seconds in the code
    MaxMessages,        \* bound on the number of messages sent
    MaxTime             \* bound on the clock

\* A message as forward_message() and cache_message() look at it: "me" stands
\* for f_server_name and ".", "any" for the empty name, "*" and "?".
Input == [to: Services, server: {"me", "any"} \cup Servers,
          no: BOOLEAN, reply: BOOLEAN, ttl: Nat, report: BOOLEAN]

ASSUME NamesAssumption ==
    /\ LocalServicesList \subseteq Services
    /\ NoName \notin Services
    /\ "me" \notin Servers /\ "any" \notin Servers
ASSUME InputsAssumption == Inputs \subseteq Input
ASSUME BoundsAssumption ==
    /\ MinTtl \in Nat /\ MaxTtl \in Nat /\ DefaultTtl \in Nat
    /\ MaxMessages \in Nat /\ MaxTime \in Nat

VARIABLES
    conn,       \* "free", "open", or "gone": client dead, HUP not yet processed
    name,       \* the name given by REGISTER (connection type LOCAL iff named)
    watch,      \* the connection understands STATUS
    seen,       \* last STATUS value each connection was sent about each service
    peers,      \* servers with an accepted connection (type REMOTE)
    msgs,       \* messages dispatched so far, with the sender's name
    cache,      \* f_message_cache: set of [id, deadline]
    handed,     \* messages written to a local connection, [id, conn, at]
    relayed,    \* messages passed to broadcast_message() for other servers
    replies,    \* replies written to senders, [id, what]
    now         \* time(nullptr)

vars == <<conn, name, watch, seen, peers, msgs, cache, handed, relayed,
          replies, now>>
connVars == <<conn, name, watch, seen>>
mailVars == <<msgs, cache, handed, relayed, replies>>

\* as: the sender's name when it sent the message (set_sent_from_service()).
Message == [as: Services \cup {NoName}, in: Input]
Entry   == [id: Nat, deadline: Nat]
Handed  == [id: Nat, conn: Conns, at: Nat]
Reply   == [id: Nat, what: {"unavailable", "cached", "failed"}]

Nothing == [s \in Services |-> "none"]

Init ==
    /\ conn  = [c \in Conns |-> "free"]
    /\ name  = [c \in Conns |-> NoName]
    /\ watch = [c \in Conns |-> FALSE]
    /\ seen  = [c \in Conns |-> Nothing]
    /\ peers = {}
    /\ msgs  = <<>>
    /\ cache = {}
    /\ handed  = {}
    /\ relayed = {}
    /\ replies = {}
    /\ now = 0

-----------------------------------------------------------------------------

Dest(i) == msgs[i].in.to

\* Connections the loop of forward_message() stops at. Their order in the
\* event loop's vector is not fixed by this repository, so any of them may
\* come first.
Named(s) == {c \in Conns : conn[c] # "free" /\ name[c] = s}

\* What send_status(c) leaves in every connection that understands STATUS.
SendStatus(s, status) ==
    [w \in Conns |-> IF watch[w] /\ conn[w] # "free"
                     THEN [seen[w] EXCEPT ![s] = status]
                     ELSE seen[w]]

\* The ttl a message gets in the cache.
Ttl(in) == IF in.ttl \in MinTtl..MaxTtl THEN in.ttl ELSE DefaultTtl

\* Deviation: the newest message first.
HandOverNewestFirst(R, c) ==
    {[id |-> i, conn |-> c,
      at |-> Cardinality(handed) + Cardinality({j \in R : j >= i})] : i \in R}

\* Hand the messages of R to connection c, oldest first. "at" is the place of
\* the write among all the writes to local services.
HandOver(R, c) ==
    {[id |-> i, conn |-> c,
      at |-> Cardinality(handed) + Cardinality({j \in R : j <= i})] : i \in R}

-----------------------------------------------------------------------------
(* Connections. *)

ProcessAccept(c) ==
    /\ conn[c] = "free"
    /\ conn'  = [conn EXCEPT ![c] = "open"]
    /\ UNCHANGED <<name, watch, seen, peers, now, mailVars>>

\* process_messages() during a REGISTER for s: messages for s go to c, and
\* what is past its deadline is erased on the way.
Matching(s) == {e.id : e \in {d \in cache : Dest(d.id) = s}}

\* Deviation: what was handed over stays in the list.
KeptThoughHanded(s) == {e \in cache : e.deadline >= now}

\* Deviation: erased in the very second the message is still valid.
KeptStrictly(s) == {e \in cache : Dest(e.id) # s /\ e.deadline > now}

Kept(s)     == {e \in cache : Dest(e.id) # s /\ e.deadline >= now}

\* The client library sends REGISTER once per connection.
MsgRegister(c, s) ==
    /\ conn[c] # "free"
    /\ name[c] = NoName
    /\ name'   = [name EXCEPT ![c] = s]
    /\ seen'   = SendStatus(s, "up")
    /\ handed' = handed \cup HandOver(Matching(s), c)
    /\ cache'  = Kept(s)
    /\ UNCHANGED <<conn, watch, peers, msgs, relayed, replies, now>>

\* The COMMANDS reply to the HELP sent by MsgRegister.
MsgCommands(c) ==
    /\ conn[c] # "free" /\ name[c] # NoName
    /\ c \in Watchers
    /\ watch' = [watch EXCEPT ![c] = TRUE]
    /\ UNCHANGED <<conn, name, seen, peers, now, mailVars>>

\* Deviation: the handler of the event forgets send_status().
StatusAfterSilentLoss(c) == [seen EXCEPT ![c] = Nothing]

\* send_status() of a connection that was just marked DOWN.
StatusAfterLoss(c) ==
    [(IF name[c] = NoName THEN seen ELSE SendStatus(name[c], "down"))
        EXCEPT ![c] = Nothing]

\* The connection leaves the event loop; a named one is reported as down.
Removed(c) ==
    /\ conn'  = [conn  EXCEPT ![c] = "free"]
    /\ name'  = [name  EXCEPT ![c] = NoName]
    /\ watch' = [watch EXCEPT ![c] = FALSE]
    /\ seen'  = StatusAfterLoss(c)
    /\ UNCHANGED <<peers, now, mailVars>>

MsgUnregister(c) ==
    /\ conn[c] # "free" /\ name[c] # NoName
    /\ Removed(c)

\* The client exits or closes its socket; the daemon does not know yet.
ClientGone(c) ==
    /\ conn[c] = "open"
    /\ conn' = [conn EXCEPT ![c] = "gone"]
    /\ UNCHANGED <<name, watch, seen, peers, now, mailVars>>

ProcessHup(c) ==
    /\ conn[c] = "gone"
    /\ Removed(c)

-----------------------------------------------------------------------------
(* forward_message(), after dispatch_message() found that the message is   *)
(* for a service other than communicatord. i is the number it gets.        *)

\* A local connection has that name. The sender itself coming first ends the
\* search: the message goes nowhere.
ForwardToService(i, from, in) ==
    /\ in.server \in {"me", "any"}
    /\ \E c \in Named(in.to) :
         handed' = IF c = from THEN handed ELSE handed \cup HandOver({i}, c)
    /\ UNCHANGED <<cache, relayed, replies>>

\* Deviation: the reply of cache_message() is not looked at.
CacheReportBlind(i, in) == IF in.report THEN {[id |-> i, what |-> "failed"]} ELSE {}

\* What the sender hears from transmission_report() after cache_message().
CacheReport(i, in) ==
    IF in.report THEN {[id |-> i, what |-> IF in.no THEN "failed" ELSE "cached"]}
    ELSE {}

\* Deviation: the last second of a message is not counted.
CacheEntryShort(i, in) == [id |-> i, deadline |-> now + Ttl(in) - 1]

CacheEntry(i, in) == [id |-> i, deadline |-> now + Ttl(in)]

\* Deviation: the list of services is looked at first.
ExpectedThoughRunning(in) ==
    in.server \in {"me", "any"} /\ in.to \in LocalServicesList

\* A service of this computer that is not running right now.
Expected(in) ==
    /\ in.server \in {"me", "any"}
    /\ Named(in.to) = {}
    /\ in.to \in LocalServicesList

\* cache_message() and the replies about it.
CacheMessage(i, in) ==
    /\ Expected(in)
    /\ cache' = IF in.no THEN cache ELSE cache \cup {CacheEntry(i, in)}
    /\ replies' = replies \cup CacheReport(i, in)
         \cup (IF in.no /\ in.reply THEN {[id |-> i, what |-> "unavailable"]} ELSE {})
    /\ UNCHANGED <<handed, relayed>>

\* Deviation: the report is forgotten on this path.
DropReportMissing(i, in) == {}

\* transmission_report(msg, false).
DropReport(i, in) == IF in.report THEN {[id |-> i, what |-> "failed"]} ELSE {}

\* Addressed to this server, and the service is unknown here.
DropMessage(i, in) ==
    /\ in.server = "me"
    /\ Named(in.to) = {}
    /\ in.to \notin LocalServicesList
    /\ replies' = replies \cup DropReport(i, in)
    /\ UNCHANGED <<cache, handed, relayed>>

\* Left to other servers: all of them, or the one that is named.
RelayMessage(i, in) ==
    /\ \/ in.server \in Servers
       \/ in.server = "any" /\ Named(in.to) = {} /\ in.to \notin LocalServicesList
    /\ LET accepting == IF in.server = "any" THEN peers ELSE peers \cap {in.server}
       IN  relayed' = IF accepting = {} THEN relayed ELSE relayed \cup {i}
    /\ UNCHANGED <<cache, handed, replies>>

ForwardMessage(from, in) ==
    /\ Len(msgs) < MaxMessages
    /\ conn[from] # "free"
    /\ msgs' = Append(msgs, [as |-> name[from], in |-> in])
    /\ LET i == Len(msgs) + 1
       IN  \/ ForwardToService(i, from, in)
           \/ CacheMessage(i, in)
           \/ DropMessage(i, in)
           \/ RelayMessage(i, in)
    /\ UNCHANGED <<connVars, peers, now>>

-----------------------------------------------------------------------------
(* The environment: other servers come and go, time passes. *)

PeerChange(p) ==
    /\ peers' = IF p \in peers THEN peers \ {p} ELSE peers \cup {p}
    /\ UNCHANGED <<connVars, now, mailVars>>

Tick ==
    /\ now < MaxTime
    /\ now' = now + 1
    /\ UNCHANGED <<connVars, peers, mailVars>>

Next ==
    \/ \E c \in Conns :
         \/ ProcessAccept(c)
         \/ \E s \in Services : MsgRegister(c, s)
         \/ MsgCommands(c)
         \/ MsgUnregister(c)
         \/ ClientGone(c)
         \/ ProcessHup(c)
         \/ \E in \in Inputs : ForwardMessage(c, in)
    \/ \E p \in Servers : PeerChange(p)
    \/ Tick

Spec == Init /\ [][Next]_vars

-----------------------------------------------------------------------------
(* Properties. *)

ConnTypeOK ==
    /\ conn  \in [Conns -> {"free", "open", "gone"}]
    /\ name  \in [Conns -> Services \cup {NoName}]
    /\ watch \in [Conns -> BOOLEAN]
    /\ seen  \in [Conns -> [Services -> {"none", "up", "down"}]]
    /\ peers \subseteq Servers
    /\ now \in Nat

MailTypeOK ==
    /\ msgs  \in Seq(Message)
    /\ cache \subseteq Entry
    /\ \A e \in cache : e.id \in 1..Len(msgs)
    /\ handed \subseteq Handed
    /\ \A h \in handed : h.id \in 1..Len(msgs)
    /\ relayed \subseteq 1..Len(msgs)
    /\ replies \subseteq Reply
    /\ \A r \in replies : r.id \in 1..Len(msgs)

\* Type invariant: every number in the books is that of a message.
TypeOK == ConnTypeOK /\ MailTypeOK

\* A message waits in the cache only while no connection carries the name of
\* its service: REGISTER drains everything there is for that name, and
\* nothing is cached for a name that is taken, not even a service's message to
\* itself.
CacheOnlyWhenDown == \A e \in cache : Named(Dest(e.id)) = {}

\* No message is written to a local service twice, however often services
\* come and go, and a message that was written is not kept for later.
AtMostOnce ==
    /\ \A g, h \in handed : g.id = h.id => g = h
    /\ \A h \in handed, e \in cache : h.id # e.id

\* A service is handed its messages in the order the daemon took them in, the
\* cached ones before the ones that came after it registered, over all the
\* connections the service had.
Fifo == \A g, h \in handed :
          Dest(g.id) = Dest(h.id) /\ g.id < h.id => g.at < h.at

\* A sender told that its message failed, or that the service is not
\* available, never finds that it was delivered or kept after all; told that
\* it is cached, it was neither dropped nor passed on to other servers.
HonestReplies == \A r \in replies :
    /\ r.what \in {"failed", "unavailable"} =>
         /\ \A h \in handed : h.id # r.id
         /\ \A e \in cache : e.id # r.id
         /\ r.id \notin relayed
    /\ r.what = "cached" =>
         /\ ~ msgs[r.id].in.no
         /\ r.id \notin relayed

\* The cache never loses a message that is still valid: an entry disappears
\* only by being handed to its service or once it is past its deadline.
OnlyExpiredErased ==
    [][\A e \in cache \ cache' : e.deadline < now \/ \E h \in handed' : h.id = e.id]_vars

\* A client last told that a service is up shares the daemon with a connection
\* of that name: no way for a service to leave goes unannounced.
StatusUpSound == \A w \in Conns, s \in Services :
    seen[w][s] = "up" => Named(s) # {}

\* A message for this very server whose sender asked for a report, and does not
\* carry the name it writes to, was handed to a service or was reported on.
LocalOutcomeKnown == \A i \in 1..Len(msgs) :
    LET m == msgs[i]
    IN  m.in.server = "me" /\ m.in.report /\ m.as # m.in.to =>
          \/ \E h \in handed : h.id = i
          \/ \E r \in replies : r.id = i /\ r.what \in {"cached", "failed"}

=============================================================================
