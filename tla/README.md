# Verification of communicatord

communicatord is a message bus. One daemon runs on each computer. Local services
connect to it and exchange messages by service name; the daemons connect to each
other, so that a message may go to a service of another computer, or to all the
services of all computers. This directory holds TLA+ models of the daemon, the
configurations that check them with TLC, and proofs checked by TLAPS.

Paths are relative to the repository's `src/`; `D/` is `communicator/daemon/`.

## Inventory

The daemon is one thread around an event loop (the eventdispatcher library, not
in this repository). Every handler runs to its end before the next one starts, so
one handler is one action. What interleaves: the order in which the loop serves
connections and timers, the clients and the other daemons, the network between
them, the clock, and restarts.

| Part | State | Operations | Hard behaviours |
|---|---|---|---|
| Local connections (`D/communicatord.cpp` msg_register, msg_unregister, msg_commands; `D/service_connection.cpp`, `D/unix_connection.cpp`, listeners) | the connections in the event loop, each with a name, a type (DOWN, LOCAL, REMOTE) and the commands it understands | accept, REGISTER, COMMANDS, UNREGISTER, hang up, STATUS to whoever understands it | clients that die unnoticed, two connections of one name, a restart that takes over a name |
| Forwarding (dispatch_message, forward_message, transmission_report) | none of its own | to a local service, to the cache, to other servers, dropped; replies SERVICE_UNAVAILABLE and TRANSMISSION_REPORT | what the sender is told on each path |
| Message cache (`D/cache.cpp`) | f_message_cache, a list of messages with a deadline | cache_message, process_messages | order and loss around a REGISTER, expiry |
| Broadcasting (broadcast_message, check_broadcast_message) | f_received_broadcast_messages, g_broadcast_sequence; in the messages: identifier, timeout, hops, informed neighbors | flood a message over the links | several paths, links that break, restarts, clocks that differ |
| Links between servers (`D/remote_communicators.cpp`, `remote_connection.cpp`, `gossip_connection.cpp`; msg_connect, msg_accept, msg_refuse, msg_disconnect, msg_gossip, msg_forget) | f_all_neighbors and neighbors.txt, f_all_ips, f_smaller_ips, f_gossip_ips, timers | the larger address connects to the smaller; the smaller one gossips so that it does; CONNECT is accepted or refused; FORGET | two sides that see a link differently, crossed connections, retries, restarts |
| Cluster status (cluster_status, count_live_connections) | f_cluster_status, f_cluster_complete, f_total_count_sent, a status file | CLUSTER_UP / DOWN / COMPLETE / INCOMPLETE | status not evaluated when a link changes |
| Services heard of (refresh_heard_of, `D/base_connection.cpp`) | services and heard-of lists of each connection | merged and sent in CONNECT and ACCEPT | the direction of a merge |
| Shutdown (stop, shutting_down, `D/interrupt.cpp`) | f_shutdown, connections marked done | STOP, SHUTDOWN, signals | the loop ends only when every connection is gone |
| Blocking (block_ip) | hits per address | third bad password in 15 minutes broadcasts BLOCK | counter and date |
| Client library (`communicator/communicator_connection.cpp`) | the connection to the daemon, registered or not | REGISTER on connection, UNREGISTER, request_failure | reconnection |
| Flags (`communicator/flags.cpp`, `tools/raise_flag.cpp`, `D/remote_connection.cpp`) | one file per flag; failures counted per permanent connection | save() of state UP or DOWN, in the process or by a raise-flag; load_flags() | several processes on a file, a tool that is not waited for, a flag shared by several connections |
| Load average (`communicator/loadavg.cpp`, `plugins/communicatord_loadavg/`) | the file of records; who wants LOADAVG; a timer | REGISTER_FOR_LOADAVG and its converse, LOADAVG, load(), add(), save() | registrations against links that break, a read-modify-write that two processes do, a file that is not truncated |
| Clock check (`plugins/communicatord_check_clock/`) | f_process_state, f_clock_status | wait for a stable clock, announce it, answer CLOCK_STATUS | a timer against child processes, a change of the status against a registration |

How they interact: clients and daemons send messages over sockets; handlers call
each other directly; removing a connection calls back connection_removed(), and a
lost link calls send_status() and cluster_status(); the CONNECT handler calls the
neighbors, the gossip, the broadcast and the status code in turn.

What makes each part correct is listed with its module below. `PROJECT.json` lists every component and every hazard with
the line where it bites.

## Modules

| Module | What it is |
|---|---|
| `LocalServices` | one daemon: local connections, forwarding, cache, replies, STATUS |
| `Mailbox` | what the daemon promises: a box per service |
| `LocalMailbox` | the refinement mapping from LocalServices to Mailbox |
| `LocalServicesProofs`, `LocalMailboxProofs` | inductive invariants and theorems of LocalServices; that it implements Mailbox |
| `Broadcast` | several daemons: flooding of messages over links that break |
| `RemoteLinks` | several daemons: who connects to whom, gossip, neighbors.txt, FORGET |
| `Cluster` | several daemons: the status of the cluster, STOP and SHUTDOWN, over connections with two ends |
| `Flags` | the processes of one computer that save and list flags |
| `LoadAvg` | several daemons and local clients: registrations and the file of load averages |
| `Clock` | the clock check of one daemon and the client library of the services it tells |
| `BroadcastProofs`, `RemoteLinksProofs`, `ClusterProofs`, `FlagsProofs`, `LoadAvgProofs`, `ClockProofs` | inductive invariants and theorems of the module each is named for |
| `MCLocalServices`, `MCBroadcast`, `MCRemoteLinks`, `MCCluster`, `MCFlags`, `MCLoadAvg`, `MCClock` | their instances for TLC |

Operators with the comment "Deviation" are not used by any specification. Each is
what a definition next to it would be with a plausible mistake in the code; replacing
the definition by it makes TLC find the property that `PROJECT.json` names violated.

### LocalServices

`conn`, `name` and `watch` are the connections of the event loop: whether a socket
is in use (`"gone"`: the client is dead and the hang up not yet processed), the name
given by REGISTER, and whether COMMANDS listed STATUS. `cache` is f_message_cache: a
set of message numbers with deadlines, because the list only grows at its end and so
is always in the order of the numbers. `msgs`, `handed`, `relayed` and `replies` are
books: what was dispatched, written to a local connection, passed to
broadcast_message() for other servers, and answered to the sender. `seen` is the last
STATUS each connection was sent about each service. `peers` are the servers with an
accepted connection.

| Action | Code |
|---|---|
| ProcessAccept | unix_listener::process_accept, listener::process_accept |
| MsgRegister | msg_register, with send_status() and process_messages() |
| MsgCommands | msg_commands, as far as STATUS is concerned |
| MsgUnregister, ProcessHup | msg_unregister; process_hup and send_status of a connection |
| ForwardMessage = ForwardToService, CacheMessage, DropMessage or RelayMessage | the four ways out of forward_message(), with cache_message() and transmission_report() |
| ClientGone, PeerChange, Tick | the environment |

Abstracted: the text of messages (only the destination, the server, the cache
parameters and transmission_report are kept); the position of a connection in the
event loop's vector, which this repository does not fix, so any connection of the
name may be found first; verify_command(), which refuses messages in debug builds only.
A client REGISTERs once per connection, as the client library does. The server name
"?" behaves as "*" for a local service and is not separate.

Properties: `TypeOK`; `CacheOnlyWhenDown` (nothing waits for a name somebody carries);
`AtMostOnce` and `Fifo` (a service gets each message once, in order, across restarts
of the service and across cache and direct delivery); `OnlyExpiredErased` (no message
leaves the cache before its deadline except to its service); `HonestReplies` and
`LocalOutcomeKnown` (what senders are told); `StatusUpSound` (nobody believes in a
service that is gone); `ImplementsMailbox`.

### Mailbox and LocalMailbox

`Mailbox` is the promise without connections, names, options, replies and clocks. A
message is posted once; it is delivered at once if no older one waits for its service,
or kept, or turned away; a service that comes collects all that waits for it in order;
what waits may only disappear when somebody collects. `LocalMailbox` maps `msgs`,
`handed` and `cache` to it. process_messages() purges expired messages of *all* services
whenever *any* service registers, which is why Collect may drop others.

### Broadcast

Each node is a computer. `dials` says who keeps a permanent connection to whom
(f_smaller_ips; the larger address connects), chosen once from `Topologies`; `up` who
has a working connection, per side, since the two sides notice a loss at different
times; `accepted` which connections have type REMOTE (a permanent one keeps it when
it breaks). `chan` are the copies in flight, in order on each link. `received` and
`seq` are f_received_broadcast_messages and g_broadcast_sequence. `clock` is each
computer's time. `sent` and `got` are books.

| Action | Code |
|---|---|
| Originate | forward_message() and broadcast_message() for a client's message |
| Discard | check_broadcast_message() |
| Arrive | forward_message() finding (or caching for) the named service |
| PassOn | broadcast_message() of a message to all services |
| Relay | broadcast_message() of a message for a service not known here |
| Connect, HangUp, Restart, Tick | the environment |

Three scopes: `"public"` (service `*`), `"private"` (service `?`, links within a data
center only, given by `Zone`) and `"service"` (a named service on any server, sent to
every accepted daemon, without a hop limit). A message for the local services only
(`.`) leaves no computer and is left out. A link counts as a connection once
CONNECT and ACCEPT went through; the short time before is left to RemoteLinks. What is
written to a permanent connection that is not connected is lost: broadcast_message()
sends without the cache flag.

Properties: `TypeOK`; `OncePerComputer` (once at most on every computer, twice at most on the
originator, since that computer started last); `PrivateStaysInside`; `Reached` (every computer,
under fairness). `LinkedSpec` is the behaviour from established links, `FairSpec` the same
with fairness.

### RemoteLinks

A computer is a number, its address; the order of the numbers is the order of the
addresses, which decides who dials. `tables[n]` is what a running daemon has in memory:
`known` (f_all_neighbors), `all` (f_all_ips), `dial` (f_smaller_ips: no connection,
waiting for its timer, CONNECT sent, ACCEPT read),
`gossip` (f_gossip_ips) and `stray` (gossip connections that left f_gossip_ips but not
the event loop). `saved` is neighbors.txt. `inbound[m]` are the service_connections that
other computers opened to m: by whom, with which kind of connection, whether the
other end is still there, and what m answered (`as`). A message on its way back over a
connection is not a variable of its own: the other end reads `as`. `crowded` are the
daemons that reached f_max_connections.

| Action | Code |
|---|---|
| Start | init_neighbors, with read_neighbors |
| Stop | stop() and a crash alike: all connections close, the others notice later |
| Dial | remote_connection::process_connected, which sends CONNECT |
| RefuseConnect, AcceptConnect | msg_connect, with add_neighbors, save_neighbors and gossip_received |
| ReadAccept, ReadRefuse | msg_accept; msg_refuse with too_busy |
| DialLost | a hang up, or msg_disconnect with shutting_down |
| Cut, CutInbound | the network breaks a connection, and the end that called, or the one that was called, notices first |
| GossipCall, HandleGossip, ReadReceived | gossip_connection, msg_gossip |
| InboundGone | service_connection::connection_removed |
| Forget | remove_neighbor with forget_remote_connection, on any daemon (FORGET is broadcast, and may not reach all) |
| Crowd, Thin | local services that connect and leave |

Abstracted: the length of the pauses (an attempt may happen at any time, so that every
pause of the code is covered); the services exchanged in CONNECT and
ACCEPT; several addresses of one computer; wrong passwords and versions. A daemon
that stops in order and one that crashes differ only in the DISCONNECT the others may
read and after which they wait longer: DialLost is both. save_neighbors() is one step: a
crash in the middle of it, which would leave a shorter file, is not modelled.
Inbound connections that agree in every field are one: nothing depends on their number.

Properties: `TypeOK` (among others, no daemon calls itself); `OneLinkPerPeer`;
`NeverLost` (of two computers that know each other, one is still calling); `OwnerDials`;
`FileCurrent`; `AcceptedIsSaved`; `FilesGrow` (an action property); `EventuallyLinked`
and, for one network, `EveryoneKnown` (under fairness).

### Cluster

`loop` is the event loop of each daemon: it runs, it winds down (f_shutdown) or it ended.
A cable is one TCP connection with two ends, each of which its daemon closes by itself,
and the messages on their way in both directions; `as` is what the called daemon made of
the CONNECT. `known` are the neighbors, `status` what was last announced, stored and
written to the status file, `locals` the connections of the local services as one.
`forgotten` are addresses that FORGET took out of the neighbors and that f_all_ips still
has, so that no permanent connection is made to them again. `lingering` are the other
connections that a daemon that stops has in its event loop: permanent ones without a
socket, gossip connections that FORGET took out of f_gossip_ips, and gossip connections
made after stop_gossiping().
`hung`, `stale`, `asked`, `quitting`, `mates` and `dropped` are books for the properties.

| Action | Code |
|---|---|
| Start | init(), up to its cluster_status() |
| Dial, AcceptConnect, RefuseConnect, ReadAccept, ReadRefuse | as in RemoteLinks, with the calls of cluster_status() |
| Stop | stop() after SIGINT, or STOP or SHUTDOWN from a local service |
| ReadShutdown, ReadDisconnect, IgnoreDisconnect, ReadQuitting | msg_shutdown, msg_disconnect, msg_quitting |
| Gossips, LastGossip | msg_gossip with add_neighbors; the same for a gossip connection of a daemon that stops, with gossip_received |
| Forget | msg_forget: remove_neighbor with forget_remote_connection |
| ShuttingDown | shutting_down(), for any message that a stopping daemon reads |
| Drained, LocalsDrained, LoopEnds | connections marked done disappear, with connection_removed(); run() returns |
| HangUp, Cut | process_hup and process_connection_failed; the network |

count_live_connections() counts connections, not computers, and counts an inbound one
from the moment it is accepted; so does `LiveConnections`. The evaluations at a hang up
are made for a reply that goes to the connection that is gone: they store and announce
nothing, so HangUp leaves `status` alone. A stopping daemon may lose what it had not
written on a connection that shutting_down() removes: both outcomes are there.

RemoteLinks has the gossip connections step by step. Here a GOSSIP that adds a neighbor
may come at any time from a computer that may have such a connection (`Acquainted`), and
an evaluation may count an open one (`Calls`), as it counts any inbound socket; that is
bounded by `MaxFaults`, like FORGET and the refusal for too many connections, which depends
on how many local services there are. FORGET and GOSSIP change the neighbors and nobody
evaluates the status then: `stale` has the daemons for which that is so. What becomes of a
permanent connection without a socket that is marked done is up to the library, so `Idle`
ones stay in the event loop or do not; stop() does no more about them. The removal of an
inbound connection is taken for a lost link, also while the daemon stops, and adds a gossip
connection (`Removed`), which ends when its computer replies.

Properties: `TypeOK`; `AcceptorStatus` (a computer that only accepts announces what is
so, as long as it saw no hang up, its neighbors are those of its last evaluation and that
counted no gossip connection); `StopStaysLocal`; `ShutdownSpreads` (once no SHUTDOWN is on
its way, and if none was lost); `StopEnds` (under fairness, unless a connection is left that
stop() has no hold of: `Waits`); and `StatusDetermined`, which the code does not have.

### Flags

`dir` holds the file of each flag, with the two fields that depend on the file it
replaces. `jobs` are the saves at work: save() in a process that may write, or a
raise-flag that a process without the right runs. `waits` says who waits for which job:
a process waits for its raise-flag unless its event loop runs. `conn` is what each
permanent connection remembers of its failures; they share one flag. `scan` is one
load_flags(). `asked`, `since` and `mixed` are books.

| Action | Code |
|---|---|
| Save | flag::save(): unlink(), or raise-flag, or the file |
| RefuseDown, TakeDown | down() of raise-flag, and unlink() |
| ReadOld, WriteNew | save() of state UP: the old file is read, the new one written |
| ConnectionFailed, ConnectionMade | remote_connection::process_connection_failed, process_connected |
| ListDirectory, LoadNext | load_flags(): the glob, then one file after the other |
| Restart | the daemon starts again, with the flags of its earlier run |

The file is read through advgetopt's conf_file, which keeps a file in memory once it was
read; each process here reads a flag once, so that a service that saves one flag twice
is one that goes through raise-flag. The time limits of the failures (20 in more than an
hour) are a second failure.

Properties: `TypeOK`; `NotOverCounted` (for any overlap of saves); `CountExact` and
`LastSaveWins` (as long as saves of one flag do not overlap); `ListSound`;
`ConnFlagCleared`.

### LoadAvg

`wants[n]` are the connections of n with f_wants_loadavg, `timer` the load_timer, `last`
f_last_loadavg; `wire` the messages between linked daemons; `file` the records of each
daemon's file in order; `adding` and `client` what the daemon and a local client have
loaded and not saved yet. `raced`, `shrunk` and `told` are books.

| Action | Code |
|---|---|
| LinkUp, LinkDown | on_new_connection() of both ends; a link breaks |
| ReadRegister, LocalRegister, Unregister | msg_register_for_loadavg, msg_unregister_from_loadavg |
| Listen | msg_listen_loadavg with register_for_loadavg |
| Report | process_load_balancing, on a tick |
| StartAdding, FinishAdding | msg_save_loadavg: load(), then add() and save() |
| ClientLoads, ClientSaves | a client that calls load(), remove_old_entries() and save() |
| LoadChanges, Tick, Restart | the environment |

All computers have one clock, and it shows no date before the year the daemon was built
in, which msg_save_loadavg() refuses.
save() overwrites the file without truncating it, so records of an older, longer list
survive behind the new ones; `Overwritten` does so. Unregister may kill the daemon:
it dereferences a null pointer unless it meets a listener before the first connection that is not a client
or a server, in an order this repository does not fix.

Properties: `TypeOK`; `Registered` (linked daemons report to each other, or will when
they read what is on its way); `FirstIsNewest` and `UpToDate` (what find() returns);
and `UnregisterServed`, which the code does not have. FirstIsNewest and UpToDate leave
out the files on which a client and the daemon raced: nothing in the code prevents that.
They speak of records that are not too old to be kept: once the newest record of a
computer is too old a client may drop it, and one of its older records left behind by a
shorter save() comes first, but that one is too old as well.

### Clock

`process` is f_process_state, `children` the number of child processes the daemon waits
for, `status` f_clock_status. Each client has the communicator_listen URI that decides
its kind of connection; `conn` is its connection object, `up` whether it is connected,
`knows` the commands the daemon has of it, `inbox` and `outbox` what is on its way, and
`heard` the last it was told.

| Action | Code |
|---|---|
| ProcessTimeout, ProcessExited | stable_clock::process_timeout with the start of a child, ntp_wait_exited, timedate_wait_exited |
| Start, Connected, Unregister | process_communicator_options, process_connected, unregister_communicator |
| ClientReads | the client's dispatcher: COMMANDS for HELP, CLOCK_STATUS for READY, the clock messages |
| MsgRegister, MsgCommands, MsgClockStatus, MsgUnregister | the handlers of these names |
| IgnoreUDP | is_tcp_connection(), for a client over UDP |
| Break, Restart, Install | the environment |

set_clock_status() broadcasts to the local services, which are those on the Unix socket
and on the loopback address (`ServedLocally`); only connections whose COMMANDS list the
message get it. A UDP client's REGISTER is dropped.

Properties: `TypeOK` (with it, one child at most); `ClientInformed` (with nothing on its
way a local client knows the status); `EventuallyInformed` (under fairness).

## Runs

| Run | Bounds | What it shows |
|---|---|---|
| local | 2 connections, one of which may watch STATUS, a service with and one without a .service file, a remote server, 5 kinds of messages (every reply option; a ttl out of range, and a default one of 0), 2 messages, clock 0..1 | delivery, expiry, replies and STATUS; the refinement of Mailbox. Two connections are enough for a watcher and a service, a restart that overlaps the old connection, and two instances; two messages for the order between a cached and a direct one; with the default ttl 0 a cached message is past its deadline after one tick |
| broadcast_once | 3 nodes all linked, one in another data center; 2 broadcasts, public or private, 1 fault, clocks 0..1, Timeout 0 | with Timeout 0 an identifier expires after one tick, so expiry, its boundary and clocks that differ all occur; a private broadcast has a node to leak through |
| broadcast_reach | 4 nodes, each of the 38 connected networks, one message of any scope, no fault, 3 hops | a public or private broadcast reaches everybody; the hop limit is met, on a chain of four the message needs all 3 |
| links | 2 computers, the smaller knows the larger; 2 faults, fairness | with two faults both computers restart, one restarts twice, or a link is cut, noticed by either end first, before or after a restart, between any two messages; the link comes up in the end |
| links_forget | 2 computers, FORGET of either; 2 faults | FORGET between any two steps, also twice, or with a restart; at most one link |
| links_spread | 3 computers, the first has the second in its option and the third has the first; no fault | what a computer is told travels with GOSSIP, CONNECT and ACCEPT, and every ACCEPT that was read is in a file (through faults too, by `AcceptedSaved`) |
| cluster | 3 computers in a row, each with the one before in its option, the third not started at first; 1 fault (a start, a cut, a FORGET, a refusal for too many connections, or a gossip connection that is open at an evaluation or a stop), 1 daemon told to stop, 2 cables between a pair | the first computer only accepts, the second accepts and dials, the third dials, late or never; SHUTDOWN passes over cables of both directions; a daemon that stops may have an idle permanent connection, and gossip connections that are new or that it forgot; a GOSSIP or a FORGET comes between any two steps |
| flags | 2 flags and that of the connections; a process with the right to write, one with a running loop and one without; 2 jobs, 3 saves, 2 permanent connections, 1 restart, FlagsLimit 1 | two saves overlap and a third follows; a directory with more flags than the limit |
| loadavg | 3 computers in a chain, the ends report; one local connection each, loads 0 and 1, clock 0..2, records older than the present tick are too old, 2 changes of the load, 1 broken link or restart, 1 request of a local client | the middle one has a link it dials and one it accepts, and a file with two records, so that a client can shorten it |
| clock | a client over Unix and one over UDP; 3 faults; both, one or none of the tools | failures, breaks, restarts and a client that leaves, up to three of them in any order, before and after each message. Clients do not meet each other in the model, so one that is served and one that is not are enough |
| cluster_undetermined | 2 computers, no fault | violated, see below |
| loadavg_unregister | as loadavg | violated, see below |

The flags, jobs and connections are symmetric in flags. Only local checks deadlock: its
clients always can connect or leave. In the other runs the system really stops, when messages, faults and time are used up, or when all
computers are linked and have nothing left to do. Faults are bounded by MaxFaults, but a side always
may notice a closed link. The rules of RemoteLinks about a pair of computers mention no
third one, so two computers show them; `links_spread` is about how knowledge spreads and
has three.

Fairness is weak everywhere, and of what the code's own event loops and timers do:

- Broadcast: reading each link. The instance starts with established links and has no
  faults: the code makes no promise about a broadcast that meets a broken link.
- RemoteLinks: every timer, every connection with something to read and every hang up,
  one by one, which is how the event loop serves them; that a daemon that stopped is
  started again (systemd does); and that local services do not keep a daemon crowded.
- Cluster: of a stopping daemon, that connections marked done are removed when their
  output is written, that the timers of its gossip connections call computers that run,
  and that run() returns when no connection is left (`Wind`). Nothing is assumed of the
  connections that `Waits` names.
- Clock: the timer, the end of a child (ntp-wait and timedate-wait stop after a number of
  tries), the permanent connection, which never stops trying, and reading.

Faults, FORGET and what users do have none.

## Disagreements found

| Run | What |
|---|---|
| cluster_undetermined | the comment in cluster_status() (`D/communicatord.cpp:3819`) says it runs when a connection was received or lost. ACCEPT does not call it (2010), and a hang up evaluates the status for a reply to the connection that is gone (`D/service_connection.cpp:268`, `D/remote_connection.cpp:146`), so CLUSTER_UP or CLUSTER_DOWN is announced late or never |
| loadavg_unregister | UNREGISTER_FROM_LOADAVG looks for another listener through a pointer that is null for listeners and timers (`plugins/communicatord_loadavg/loadavg.cpp:329`), and the daemon dies |

Also met while modelling, without a run of their own; the models do what the code does:

- a message nobody can take is not reported although the sender asked
  (`D/communicatord.cpp:1773`; `communicator/communicator_connection.cpp:650-652` says it is),
  nor is one a service sends to itself (1630);
- the originator of a broadcast is sent its own message (`D/communicatord.cpp:3598`, a
  test with the wrong sign), so its services get it twice;
- a gossip connection that ends is taken for a lost link (`D/service_connection.cpp:287`),
  so the other computer gossips back, and so on for ever (2763 of `D/communicatord.cpp` says
  gossip stops);
- a forgotten address that is learned again is not dialled
  (`D/remote_communicators.cpp:130`), and is still called by its gossip connection (447),
  which stop() does not know and which keeps the event loop from ending;
- a daemon that stops adds gossip connections after it stopped gossiping
  (`D/communicatord.cpp:4359`): each inbound connection that is removed is taken for a lost
  link (`D/service_connection.cpp:287`), so the loop goes on until the other computer replies;
- stop() only marks a permanent connection without a socket as done
  (`D/communicatord.cpp:4417`), and nothing is ever written to it;
- FORGET and GOSSIP change the neighbors and do not evaluate the status of the cluster
  (`D/communicatord.cpp:4111`, 2791), so the total that was announced is an old one;
- SHUTDOWN is lost when shutting_down() removes a connection that has it in its output
  (`D/communicatord.cpp:1943`);
- `process_messages()` hands an entry over before it looks at its deadline, so an
  expired message is still delivered at REGISTER (`D/cache.cpp:225`);
- a service is announced down while a second instance of it runs
  (`D/communicatord.cpp:3229`);
- a named service reached over two paths gets the message twice: only
  broadcast_message() remembers identifiers (`D/communicatord.cpp:1655`);
- after a restart, identifiers of broadcasts repeat (`D/communicatord.cpp:3617`);
- CONNECT and ACCEPT carry the option and not the list of neighbors
  (`D/communicatord.cpp:4589`), so computers that all know one, and that it does not
  know, do not get to know each other;
- a GOSSIP from a computer whose link is down sets the pause of one day, meant for a
  refusal (`D/remote_communicators.cpp:147`);
- all permanent connections share one flag: the first that connects takes it down though
  others still fail (`D/remote_connection.cpp:182`, 258);
- raise-flag refuses --down with the options that save() passes on for a flag with a
  priority, tags or manual-down (`tools/raise_flag.cpp:369`), and the flag stays up;
- load_flags() fails when a flag is taken down while it reads (`communicator/flags.cpp:1447`);
- a load that does not change is never sent to a computer that registers later
  (`plugins/communicatord_loadavg/loadavg.cpp:452`);
- a shorter list of load averages leaves old records in the file
  (`communicator/loadavg.cpp:141`);
- a client on a private address gets no broadcast for local services
  (`D/communicatord.cpp:3463`), and a UDP client of the library is never registered (1995).

## Proofs

Each module with proofs EXTENDS the one it is about. The theorems hold for any sets of
connections, services, computers, flags or clients and any bounds, from the assumptions
that module states of its constants, which TLC evaluates on every run. Every invariant
`IInv` (or its parts) is shown to hold at the start and to be kept by each action, with
a lemma per action or helper; the theorems follow from it.

**LocalServicesProofs**: `TypeCorrect`, `CacheSound` (CacheOnlyWhenDown),
`DeliveredAtMostOnce`, `DeliveredInOrder` (Fifo), `RepliesHonest`, `OutcomeKnown`,
`UpIsSo` (StatusUpSound), `ExpiredErased`.
`Fifo` is not inductive. That the messages handed over at a REGISTER come after all
those the service got before needs `OlderFirst`: what was delivered is older than what
waits for the same service. That in turn holds because nothing is cached for a name
that is taken (`CacheOnlyWhenDown`) and because a cached message never returns
(`AtMostOnce`). `Places` says that the places given out are 1 to the number of
deliveries, and `FreeUnnamed` that an unused socket has no name, so a new connection
does not take over a name. `IInv` is their conjunction. `HandOverPlaces` is the lemma
about numbering a batch of messages; `RegisterStep` and `ForwardStep` are the two
handlers that change the books, `BooksUntouched` covers all others. `ReplyInv` (what was
replied) is inductive next to IInv. `StatusInv` adds `SeenByWatchers` to StatusUpSound:
only a connection that listed STATUS has been told anything, without which a socket that
is used again could believe what its earlier client was told. `ExpiredErased` is an
action property and follows from IInv.

**LocalMailboxProofs**: `MailboxImplemented`, the refinement. The initial states map to
initial states, and each step of the daemon to a step of Mailbox or to a stutter. The
boxes are lists and the books are sets with places, so the argument is one about ranks:
`Ranked` says that listing a finite set by a key gives each element the place of its
rank, `ListGrows` that what REGISTER hands over continues the list, in order.

**BroadcastProofs**: `TypeCorrect`, `DeliveredOnce` (OncePerComputer), `PrivateKept`
(PrivateStaysInside). A computer that had a message as often as it may must drop every
copy still on its way (`Settled`). That it remembers the identifier is not enough: a
restarted computer uses its identifiers again, and the record of an older message under
the same identifier is forgotten first. So `Immune` compares timeouts: the copy expired, or the
identifier is remembered at least as long as the copy lives. It needs that all copies of
a message agree in identifier and timeout (`OneId`).
`BroadcastReaches` is what the prover can say of `Reached`: not that the copies are read in
the end, but that once they are, nobody was left out (`QuietReached`). It is about
`LinkedSpec`, states without a fault so far, and clocks no later than the timeout, so that
nothing expired (`Calm`), on any graph, for broadcasts to all data centers and to one.
By `Connected` the area of a broadcast holds together by its own links. The
invariant `FInv` says that every computer a copy names as informed got the message or has
a copy coming (`Covered`), that so has every neighbor of one that got it (`PassedOn`), and
that what is dropped as seen was seen (`SeenBefore`). The hop limit is the hard part, since the
first copy to come may have taken a detour: each hop informs one more computer, so a
copy that used all its hops names everybody but its origin, provided that there are at most
MaxHops + 1 computers (`Small`): six, with the 5 of the code. A copy that comes back to its
origin goes no further, as the first hop already informed all neighbors. One computer more
and it is false: in a chain of MaxHops + 2 the last one gets nothing.

**RemoteLinksProofs**: all safety properties of RemoteLinks:
`TypeCorrect`, `LinksUnique`, `PeersNeverLost`, `OwnersDial`, `FilesCurrent`,
`AcceptedSaved`, `FilesOnlyGrow`. The invariant has a part for the tables of each
daemon (`TableOK`: an address in f_all_ips that nobody forgets is a neighbor, and a
smaller neighbor has a permanent connection), one for its inbound connections
(`InboundOK`: names are unique, and whoever was answered ACCEPT or RECEIVED is in the
file), and `FileCurrent`, `AcceptedIsSaved`, `NeverLost`. `NeverLost` is not inductive
alone: a gossip ends when RECEIVED is read, and that the sender has the reader in its
file is the promise in `InboundOK`, which a FORGET could break; hence it is stated of
the `Remembered` addresses. The lemmas AddRemotesFacts to LargerFile say what each
helper changes; there is one lemma per action (WaitingStep serves three); `Learning` is
the argument about the file that the actions share.

`LinksSettle` and `EveryoneMeets` are the safety half of `EventuallyLinked` and
`EveryoneKnown`. `Idle` says that no guard of what daemons do by themselves holds;
`Settled`, that two computers of which one knows the other know each other, are linked by
the one with the larger address, and know what is in each other's option. That fairness
leads to such a state is left to TLC; that no such state is a dead end, with a pair that
waits for each other forever, is proved for any network and any number of faults. It takes
a second invariant, `SInv`: a connection that is live at the called end is one that its
caller still holds (`ConnOK`), there is one at a time (`OneLive`), and both ends of an
accepted one saved the option of the other (`Introduced`). In `IdleKnown` a smaller
computer either still calls the larger one, or has a connection from it, or is in its
file: the first is work left to do, the last makes the other dial. `EveryoneMeets` adds
that the options reach everyone (`Spreads`, which the networks of the runs satisfy) and
that nobody sends FORGET.

**ClusterProofs**: all safety properties of Cluster. `TypeCorrect` and `OnlyTheAsked`
(StopStaysLocal): as long as nobody was told to shut the cluster down, the word SHUTDOWN
is on no cable (`CableOf(Said(quitting))`), whichever of DISCONNECT, QUITTING and REFUSE
the stopping daemons say.
`AcceptorRight` (AcceptorStatus, with the exceptions it names) needs that the count of
connections is a count of computers: `NamesUnique`, a daemon has one accepted connection from each name, which
msg_connect() refuses to break; `PeersCounted` turns it into a bijection. `KnownOK`, the
larger address knows whom it dials, or has forgotten it and closed the connection, is why a
daemon with a permanent connection is no mere acceptor, even after the connection was
refused and closed. `View` compares what a
daemon has at its ends of the cables before and after a step of another: if it is the
same, what it announced still holds (`ViewKeeps`); its own steps either evaluate the
status (`EvaluatedRight`) or take it out of the premise.
`ShutdownReaches` (ShutdownSpreads): `MatesTold` says that a daemon linked to the one that
got SHUTDOWN, while it runs, has a SHUTDOWN to read. It is inductive with `Fit`, what the
queues of a cable may hold: a daemon says one parting word on each connection, so the
DISCONNECT that makes the reader close a connection is never ahead of a SHUTDOWN on it; a
connection that was refused carries no SHUTDOWN; and a daemon that runs has said none, not
even before it was started again (`EndedAlone`).
`StopsForGood` is the safety half of `StopEnds`. A daemon that stops has a step of its own
to take unless one of the connections is left that `Waits` names (`StoppingWinds`), one
that ended has nothing left (`EndedBare`), and `Winding`: it does not run again before it
ended, and `Left` never grows and goes down with each step of its own. `Left` weighs what
keeps the event loop of a daemon: an end of a cable counts two, for itself and for the
gossip connection that its removal may add, which counts one, as do other lingering
connections and the local services. `WInv`: stop()
leaves no local service that is not marked done or removed, and cables keep distinct
names (`NumbersUnique`), so that ends can be counted by name though what is on a cable
changes: every helper but Dial leaves the ends there were or fewer (`AllFade`), and a
daemon that stops does not dial, nor does it accept the cable of another.

**FlagsProofs**: `TypeCorrect`, `CountBounded` (NotOverCounted), `CountTrue`
(CountExact), `LastSaved`, `ListTrue`, `ConnFlagDown`. `CountAt` counts the saves that
have not written yet along with the number in the file, since a save that read the file
long ago may still write it; `ExactAt` says of a flag whose saves did not overlap that
one job at most is at work and that the file is what the saves since the last time it
was taken down made of it. Jobs are finitely many, which the counting needs.

**LoadAvgProofs**: all safety properties of LoadAvg: `TypeCorrect`, `LinkedRegistered`
(Registered), `FirstRecordNewest` (FirstIsNewest), `RecordsUpToDate` (UpToDate). A daemon
linked to another either has it among those that want LOADAVG, with the timer running, or
its request is on its way; a link that breaks, or a daemon that dies, takes both with it,
and an UNREGISTER_FROM_LOADAVG of a local client ends its own registration only.
For the files, `Ordered` says what a file nobody raced for looks like: no load on its way
is older than one in the file, and the first record of each computer is at least as new as
any other of it that is not too old. `ToldOK` follows a report from the wire into the file.
The two operations on a file have lemmas of their own. add() overwrites the first record or
appends one (`AddFacts`, `OverwrittenFacts`). remove_old_entries() drops records from the
middle: that the recursive function `Recent` yields the records that remain, in order, is
shown from its last step alone (`RecentFacts`), with `LeastNat`, the least element of a
set of naturals, in the place of an induction.

**ClockProofs**: `TypeCorrect`, `ClientsTold` (ClientInformed). A connected local client
either has yet to be answered (its REGISTER, the READY or its CLOCK_STATUS is on its way),
or the daemon knows its commands and the last message about the clock, on its way
or heard, is the one for the present status. `CommandsFirst` is why a CLOCK_STATUS
is never read before the COMMANDS: the daemon sends HELP before READY, and no message
overtakes another. With the two swapped, which is the mutant of the run, the answer could
be withheld.
`TalkEnds` and `AlwaysAttended` are the safety half of `EventuallyInformed`. `Pending` weighs
what is on its way to and from a client, each message one more than what it may be
answered with (REGISTER 6, READY 3, HELP and CLOCK_STATUS 2, the rest 1). Each read takes from it,
and only a change of the status, a new connection or a client that leaves adds to it. So
the exchange ends, unless it is started again; and when it ended, a local client that
stays was told the status, or its connection is down and would be taken again
(`Attended`). The weight of a queue is the cardinality of a set (`Tickets`), one member
for each unit of each message, and not a recursive sum: what Append and Tail do to it
follows by a union and a bijection, where a sum would take an induction (`WeightAppended`,
`WeightTail`).

Model-checked only: liveness under fairness, which with ENABLED is out of the prover's
reach (`Reached`, `EventuallyLinked`, `EveryoneKnown`, `StopEnds`, `EventuallyInformed`).
The safety half of each is proved: that no state without a further step lacks what is
promised (`BroadcastReaches`, `LinksSettle`, `EveryoneMeets`, `StopsForGood`, `AlwaysAttended`),
and of the last two the measure that their steps lessen (`StopsForGood`, `TalkEnds`).

## Plan

The plan of the first version is done: every component with logic of its own that can be
modelled faithfully has a module, and every safety property that a run checks is proved.
So is the safety half of every liveness property.
What is left: a writer of neighbors.txt that may stop halfway, in RemoteLinks.

## Not modelled

Services heard of: the lists in CONNECT and ACCEPT are stored, merged (in the wrong
direction, `D/base_connection.cpp:344`) and passed on, and nothing decides by them.
Blocking: block_ip() is one function of one map, and nothing in the repository acts on
BLOCK. SERVICE_STATUS, LIST_SERVICES, PUBLIC_IP and LOG_UNKNOWN answer one question each
and change nothing. find_least_busy() only reads. A crash in the middle of writing a
file.

The eventdispatcher, address and snapdev libraries are not in the repository: they are
modelled by how the daemon uses them. Logging, TLS, options, user rights and the
contents of messages are left out, as are the command line tools other than raise-flag, the UDP ping
listener (it only passes a datagram on), the build and the packaging.
