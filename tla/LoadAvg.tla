-------------------------------- MODULE LoadAvg --------------------------------
(***************************************************************************)
(* The load averages that the daemons of a cluster tell each other, and    *)
(* the file in which each daemon keeps them.                               *)
(*                                                                         *)
(* When two daemons are linked each registers with the other. A timer      *)
(* looks at the load of the computer and sends it, when it changed, over   *)
(* the connections that are registered. The daemon that gets it loads the  *)
(* file, replaces the record of the sender and saves the file. Clients     *)
(* load the file too, and save it after they removed old records. load()   *)
(* and save() each hold a lock, what is between them does not.             *)
(***************************************************************************)
EXTENDS Integers, Sequences, FiniteSets

CONSTANTS
    Computer,       \* ordered by address: the larger one dials
    Links,          \* pairs <<a, b>>, a < b, of computers that get linked
    Reporters,      \* computers whose load changes
    Local,          \* connections of local services of each computer
    Levels,         \* loads; two that differ differ by the epsilon at least
    HowOld,         \* the age of the records that a client removes
    MaxTime,        \* bound on the clock
    MaxChanges,     \* bound on the changes of the load of a computer
    MaxBreaks,      \* bound on broken links
    MaxRequests     \* bound on local requests

ASSUME ComputerAssumption == Computer \subseteq Nat /\ Reporters \subseteq Computer
ASSUME LinksAssumption == Links \subseteq {l \in Computer \X Computer : l[1] < l[2]}
ASSUME LevelsAssumption == 0 \in Levels /\ Levels \subseteq Nat
ASSUME LocalAssumption == Local \cap Computer = {}
ASSUME BoundAssumption == {HowOld, MaxTime, MaxChanges, MaxBreaks, MaxRequests} \subseteq Nat

VARIABLES
    time,       \* one clock: those of the computers agree
    load,       \* /proc/loadavg of each computer, and the number of its changes
    last,       \* f_last_loadavg
    timer,      \* whether the load_timer is enabled
    wants,      \* connections with f_wants_loadavg: other computers, local services
    linked,     \* the links that are up
    wire,       \* messages on their way: wire[a][b] from a to b
    file,       \* the records of each file, in order
    adding,     \* the daemon between load() and save(): the items and the new one
    client,     \* a client of the file between load() and save(): the items
    crashed,    \* daemons that died of a message
    faults,     \* the broken links and the local requests so far
    raced,      \* files of which two writers overlapped
    shrunk,     \* files that were saved with fewer records than they had
    told        \* <<n, p>>: p reported its load to n since their link was made

vars == <<time, load, last, timer, wants, linked, wire, file, adding, client,
          crashed, faults, raced, shrunk, told>>

None == [none |-> TRUE]
Record == [from: Computer, avg: Levels, time: 0..MaxTime]
Peers(n) == {p \in Computer : <<n, p>> \in linked \/ <<p, n>> \in linked}

Init ==
    /\ time = 0
    /\ load = [n \in Computer |-> [now |-> 0, changes |-> 0]]
    /\ last = [n \in Computer |-> 0]
    /\ timer = [n \in Computer |-> FALSE]
    /\ wants = [n \in Computer |-> {}]
    /\ linked = {}
    /\ wire = [n \in Computer |-> [p \in Computer |-> <<>>]]
    /\ file = [n \in Computer |-> <<>>]
    /\ adding = [n \in Computer |-> None]
    /\ client = [n \in Computer |-> None]
    /\ crashed = {} /\ faults = [breaks |-> 0, requests |-> 0] /\ raced = {} /\ shrunk = {} /\ told = {}

-----------------------------------------------------------------------------
(* loadavg_file.                                                           *)

Places(items, n) == {i \in DOMAIN items : items[i].from = n}
FirstPlace(items, n) == CHOOSE i \in Places(items, n) : \A j \in Places(items, n) : i <= j
LastPlace(items, n)  == CHOOSE i \in Places(items, n) : \A j \in Places(items, n) : i >= j

\* Deviation: the search goes from the end.
AddToLast(items, item) ==
    IF Places(items, item.from) = {} THEN Append(items, item)
    ELSE [items EXCEPT ![LastPlace(items, item.from)] = item]

\* add(): the first record of the computer is replaced, or one is added.
Add(items, item) ==
    IF Places(items, item.from) = {} THEN Append(items, item)
    ELSE [items EXCEPT ![FirstPlace(items, item.from)] = item]

\* remove_old_entries()
Old(item) == item.time < time - HowOld
Recent(items) ==
    LET kept[i \in 0..Len(items)] ==
          IF i = 0 THEN <<>>
          ELSE IF Old(items[i]) THEN kept[i - 1] ELSE Append(kept[i - 1], items[i])
    IN  kept[Len(items)]

\* save() writes over the file and does not truncate it.
Overwritten(old, items) ==
    IF Len(items) >= Len(old) THEN items
    ELSE items \o SubSeq(old, Len(items) + 1, Len(old))

Save(n, items) ==
    /\ file' = [file EXCEPT ![n] = Overwritten(@, items)]
    /\ shrunk' = IF Len(items) < Len(file[n]) THEN shrunk \cup {n} ELSE shrunk

-----------------------------------------------------------------------------
(* The plugin.                                                             *)

Unused == <<time, load, last, timer, wants, linked, wire, crashed, faults, told>>

\* Deviation: only the end that dials asks.
LinkUpOneWay(l) ==
    /\ l \in Links \ linked /\ {l[1], l[2]} \cap crashed = {}
    /\ linked' = linked \cup {l}
    /\ wire' = [wire EXCEPT ![l[2]][l[1]] = <<[cmd |-> "REGISTER"]>>]
    /\ UNCHANGED <<time, load, last, timer, wants, file, adding, client, crashed, faults,
                   raced, shrunk, told>>

\* A link is made: on_new_connection() of both sides asks for LOADAVG.
LinkUp(l) ==
    /\ l \in Links \ linked /\ {l[1], l[2]} \cap crashed = {}
    /\ linked' = linked \cup {l}
    /\ wire' = [wire EXCEPT ![l[1]][l[2]] = <<[cmd |-> "REGISTER"]>>,
                            ![l[2]][l[1]] = <<[cmd |-> "REGISTER"]>>]
    /\ UNCHANGED <<time, load, last, timer, wants, file, adding, client, crashed, faults,
                   raced, shrunk, told>>

\* The end that accepted forgets the connection. The end that dials keeps its
\* permanent connection, and with it f_wants_loadavg.
Broken(ls, w) == [n \in Computer |-> w[n] \ {p \in Computer : <<n, p>> \in ls}]
Cleared(ls) == [n \in Computer |-> [p \in Computer |->
                   IF <<n, p>> \in ls \/ <<p, n>> \in ls THEN <<>> ELSE wire[n][p]]]

LinkDown(l) ==
    /\ l \in linked /\ faults.breaks < MaxBreaks
    /\ faults' = [faults EXCEPT !.breaks = @ + 1]
    /\ linked' = linked \ {l}
    /\ wants' = Broken({l}, wants)
    /\ wire' = Cleared({l})
    /\ told' = told \ {l, <<l[2], l[1]>>}
    /\ UNCHANGED <<time, load, last, timer, file, adding, client, crashed, raced, shrunk>>

Enable(n) == timer' = [timer EXCEPT ![n] = TRUE]

\* msg_register_for_loadavg() from a connection c.
Register(n, c) ==
    /\ wants' = [wants EXCEPT ![n] = @ \cup {c}]
    /\ Enable(n)
    /\ UNCHANGED <<time, load, last, linked, file, adding, client, crashed, raced, shrunk, told>>

ReadRegister(n, p) ==
    /\ wire[p][n] # <<>> /\ Head(wire[p][n]).cmd = "REGISTER" /\ adding[n] = None
    /\ wire' = [wire EXCEPT ![p][n] = Tail(@)]
    /\ Register(n, p)
    /\ UNCHANGED faults

LocalRegister(n, c) ==
    /\ n \notin crashed /\ c \notin wants[n] /\ adding[n] = None
    /\ faults.requests < MaxRequests
    /\ faults' = [faults EXCEPT !.requests = @ + 1]
    /\ Register(n, c)
    /\ UNCHANGED wire

\* register_for_loadavg(): nothing unless there is a connection with p.
RegisterFor(n, p) ==
    /\ p \in Peers(n)
    /\ wire' = [wire EXCEPT ![n][p] = Append(@, [cmd |-> "REGISTER"])]

\* msg_listen_loadavg() asks for LOADAVG again, once for each way to write the
\* address.
Listen(n, p) ==
    /\ adding[n] = None
    /\ faults.requests < MaxRequests
    /\ faults' = [faults EXCEPT !.requests = @ + 1]
    /\ RegisterFor(n, p)
    /\ UNCHANGED <<time, load, last, timer, wants, linked, file, adding, client, crashed,
                   raced, shrunk, told>>

\* What the end of the process n, or of the connections ls, leaves behind.
Die(n) ==
    LET ls == {l \in linked : n \in {l[1], l[2]}}
    IN /\ crashed' = crashed \cup {n}
       /\ linked' = linked \ ls
       /\ wants' = [Broken(ls, wants) EXCEPT ![n] = {}]
       /\ wire' = Cleared(ls)
       /\ timer' = [timer EXCEPT ![n] = FALSE]
       /\ last' = [last EXCEPT ![n] = 0]
       /\ told' = {t \in told : n \notin {t[1], t[2]}}

\* msg_unregister_from_loadavg(): the search for a connection that still wants
\* LOADAVG dereferences a null pointer at the first connection that is not a
\* base_connection (a listener, a timer). It stops before that only at one that
\* wants LOADAVG; the order of the connections is not known.
Unregister(n, c) ==
    /\ n \notin crashed /\ c \in wants[n] \cap Local /\ adding[n] = None
    /\ \/ /\ wants[n] # {c}
          /\ wants' = [wants EXCEPT ![n] = @ \ {c}]
          /\ UNCHANGED <<last, timer, linked, wire, crashed, told>>
       \/ Die(n)
    /\ UNCHANGED <<time, load, file, adding, client, faults, raced, shrunk>>

Restart(n) ==
    /\ n \in crashed
    /\ crashed' = crashed \ {n}
    /\ UNCHANGED <<time, load, last, timer, wants, linked, wire, file, adding, client,
                   faults, raced, shrunk, told>>

\* Deviation: what is sent while a permanent connection is down is kept for later.
ListenersCached(n) == wants[n] \cap Computer
\* send_message() of a permanent connection that is down fails.
Listeners(n) == wants[n] \cap Peers(n)

\* process_load_balancing(), on a tick of the timer: nothing unless the load changed.
Report(n) ==
    /\ timer[n] /\ last[n] # load[n].now /\ adding[n] = None
    /\ last' = [last EXCEPT ![n] = load[n].now]
    /\ LET report == [cmd |-> "LOADAVG", avg |-> load[n].now, time |-> time]
       IN /\ wire' = [wire EXCEPT ![n] = [p \in Computer |->
                        IF p \in Listeners(n) THEN Append(wire[n][p], report) ELSE wire[n][p]]]
          /\ told' = told \cup {<<p, n>> : p \in Listeners(n)}
    /\ UNCHANGED <<time, load, timer, wants, linked, file, adding, client, crashed, faults,
                   raced, shrunk>>

\* Deviation: an idle computer is taken for one that sends garbage.
InvalidIfIdle(avg) == avg <= 0
Invalid(avg) == avg < 0

\* msg_save_loadavg() loads the file... (A timestamp of before the year the daemon was
\* built in is refused too; no clock of the model shows one.)
StartAdding(n, p) ==
    /\ adding[n] = None /\ wire[p][n] # <<>> /\ Head(wire[p][n]).cmd = "LOADAVG"
    /\ wire' = [wire EXCEPT ![p][n] = Tail(@)]
    /\ LET m == Head(wire[p][n])
       IN IF Invalid(m.avg) THEN UNCHANGED <<adding, raced>>
          ELSE /\ adding' = [adding EXCEPT ![n] =
                    [items |-> file[n], item |-> [from |-> p, avg |-> m.avg, time |-> m.time]]]
               /\ raced' = IF client[n] # None THEN raced \cup {n} ELSE raced
    /\ UNCHANGED <<time, load, last, timer, wants, linked, file, client, crashed, faults,
                   shrunk, told>>

\* ... and saves it with the record of the sender.
FinishAdding(n) ==
    /\ adding[n] # None
    /\ Save(n, Add(adding[n].items, adding[n].item))
    /\ adding' = [adding EXCEPT ![n] = None]
    /\ UNCHANGED <<client, raced>> /\ UNCHANGED Unused

\* A client loads the file to find the least busy computer, and saves it when it
\* removed old records.
ClientLoads(n) ==
    /\ client[n] = None /\ Recent(file[n]) # file[n]
    /\ client' = [client EXCEPT ![n] = [items |-> Recent(file[n])]]
    /\ raced' = IF adding[n] # None THEN raced \cup {n} ELSE raced
    /\ UNCHANGED <<file, adding, shrunk>> /\ UNCHANGED Unused

ClientSaves(n) ==
    /\ client[n] # None
    /\ Save(n, client[n].items)
    /\ client' = [client EXCEPT ![n] = None]
    /\ UNCHANGED <<adding, raced>> /\ UNCHANGED Unused

LoadChanges(n, level) ==
    /\ load[n].changes < MaxChanges /\ level # load[n].now
    /\ load' = [load EXCEPT ![n] = [now |-> level, changes |-> @.changes + 1]]
    /\ UNCHANGED <<time, last, timer, wants, linked, wire, file, adding, client, crashed,
                   faults, raced, shrunk, told>>

Tick ==
    /\ time < MaxTime
    /\ time' = time + 1
    /\ UNCHANGED <<load, last, timer, wants, linked, wire, file, adding, client, crashed,
                   faults, raced, shrunk, told>>

Next ==
    \/ Tick
    \/ \E l \in Links : LinkUp(l) \/ LinkDown(l)
    \/ \E n, p \in Computer : ReadRegister(n, p) \/ Listen(n, p) \/ StartAdding(n, p)
    \/ \E n \in Computer, c \in Local : LocalRegister(n, c) \/ Unregister(n, c)
    \/ \E n \in Computer : \/ Restart(n) \/ Report(n) \/ FinishAdding(n)
                           \/ ClientLoads(n) \/ ClientSaves(n)
    \/ \E n \in Reporters, level \in Levels : LoadChanges(n, level)

Spec == Init /\ [][Next]_vars

-----------------------------------------------------------------------------
(* Properties.                                                             *)

TypeOK ==
    /\ load \in [Computer -> [now: Levels, changes: 0..MaxChanges]]
    /\ last \in [Computer -> Levels]
    /\ timer \in [Computer -> BOOLEAN]
    /\ wants \in [Computer -> SUBSET (Computer \cup Local)]
    /\ linked \subseteq Links
    /\ \A n, p \in Computer : wire[n][p] # <<>> => p \in Peers(n)
    /\ file \in [Computer -> Seq(Record)]
    /\ crashed \subseteq Computer /\ time \in 0..MaxTime
    /\ faults \in [breaks: 0..MaxBreaks, requests: 0..MaxRequests]

\* A daemon asks again whenever a link is made: both ends of a link are registered
\* with each other and look at their load, or the request is on its way, whatever
\* UNREGISTER_FROM_LOADAVG, broken links and restarts do to the registrations.
Registered ==
    \A n, p \in Computer : p \in Peers(n) =>
        \/ p \in wants[n] /\ timer[n]
        \/ \E i \in DOMAIN wire[p][n] : wire[p][n][i].cmd = "REGISTER"

\* What find() returns for a computer is the newest record of it, unless all are too
\* old, though a file that a client shortened has records of it twice.
FirstIsNewest ==
    \A n \in Computer \ raced : \A j \in DOMAIN file[n] :
        ~Old(file[n][j]) =>
            file[n][FirstPlace(file[n], file[n][j].from)].time >= file[n][j].time

\* Once a computer reported its load over a link, the record of it has the load it
\* reported last, if the record is not too old, no message is on its way, and no
\* client saved the file in between.
UpToDate ==
    \A t \in told :
        LET n == t[1]
            p == t[2]
        IN n \notin raced /\ wire[p][n] = <<>> /\ adding[n] = None
           => \/ n \in shrunk /\ \A i \in Places(file[n], p) : Old(file[n][i])
              \/ Places(file[n], p) # {} /\ file[n][FirstPlace(file[n], p)].avg = last[p]

-----------------------------------------------------------------------------
(* What the definition of a message says, and the code does not do; a run  *)
(* of its own finds it violated.                                           *)

\* daemon/message-definitions/UNREGISTER_FROM_LOADAVG.conf:3: "the converse of the
\* REGISTER_FOR_LOADAVG, stop receiving LOADAVG messages". A daemon survives it.
UnregisterServed == crashed = {}

=============================================================================
