--------------------------------- MODULE Clock ---------------------------------
(***************************************************************************)
(* The check of the clock, and the client library through which services   *)
(* hear of it.                                                             *)
(*                                                                         *)
(* Every hour the stable_clock timer starts a child process that waits for *)
(* NTP, and its exit gives the status of the clock. A change of the status *)
(* is broadcast to the local services. A service uses a                    *)
(* communicator_connection, which connects as the communicator_listen URI  *)
(* says, connects again when the connection breaks, and registers each     *)
(* time: REGISTER, HELP and READY, COMMANDS and CLOCK_STATUS.              *)
(***************************************************************************)
EXTENDS Integers, Sequences, FiniteSets

CONSTANTS
    Client,
    Listen,         \* the communicator_listen URI of each client
    Commands,       \* the clock messages each client has in its COMMANDS
    MaxFaults       \* bound on what goes wrong

Clock == {"CLOCK_STABLE", "CLOCK_UNSTABLE"}
URI == [unix: BOOLEAN, scheme: {"cd", "cds", "cdu", "cdb", "other"},
        addresses: Nat, net: {"loopback", "lan", "public"}]

ASSUME ListenAssumption == Listen \in [Client -> URI]
ASSUME CommandsAssumption == Commands \in [Client -> SUBSET Clock]
ASSUME BoundAssumption == MaxFaults \in Nat

VARIABLES
    tools,      \* which of ntp-wait and timedatectl are installed
    process,    \* f_process_state of the stable_clock
    children,   \* number of child processes the daemon waits for
    status,     \* f_clock_status
    conn,       \* f_communicator_connection of each client
    up,         \* the connections that are up, seen by both ends
    knows,      \* the commands the daemon knows each connection understands
    outbox,     \* from each client to the daemon
    inbox,      \* from the daemon to each client
    heard,      \* what each client was last told about the clock
    faults

clockVars  == <<tools, process, children, status>>
clientVars == <<conn, up, knows, outbox, heard>>
vars == <<clockVars, clientVars, inbox, faults>>

Statuses == {"UNKNOWN", "NO_NTP", "STABLE", "INVALID"}
Messages == [command: {"CLOCK_STABLE"}, why: {"verified", "no_ntp"}]
              \cup [command: {"CLOCK_UNSTABLE"}, why: {"checking", "invalid"}]
Nothing == [command |-> "NOTHING"]

Init ==
    /\ tools \in SUBSET {"ntp-wait", "timedatectl"}
    /\ process = "IDLE" /\ children = 0 /\ status = "UNKNOWN"
    /\ conn = [c \in Client |-> "none"]
    /\ up = {}
    /\ knows = [c \in Client |-> {}]
    /\ outbox = [c \in Client |-> <<>>]
    /\ inbox = [c \in Client |-> <<>>]
    /\ heard = [c \in Client |-> Nothing]
    /\ faults = 0

Fault == faults < MaxFaults /\ faults' = faults + 1

-----------------------------------------------------------------------------
(* The kinds of connections.                                               *)

\* The connection process_communicator_options() makes; it throws when the
\* URI leaves it no choice.
Kind(c) ==
    LET u == Listen[c]
    IN  CASE u.unix /\ u.scheme = "cd"                      -> "unix"
          [] u.unix /\ u.scheme # "cd"                      -> "throw"
          [] ~u.unix /\ u.addresses = 0                     -> "throw"
          [] ~u.unix /\ u.addresses > 0 /\ u.scheme = "cd"  ->
               IF u.net = "public" THEN "throw" ELSE "plain"
          [] ~u.unix /\ u.addresses > 0 /\ u.scheme = "cds" -> "secure"
          [] ~u.unix /\ u.addresses > 0 /\ u.scheme = "cdu" ->
               IF u.addresses > 1 \/ u.net = "public" THEN "throw" ELSE "udp"
          [] OTHER -> "throw"

\* The daemon answers on the Unix socket, on the loopback address for local
\* services and on others for remote ones; the latter turn the loopback away.
Answers(c) == \/ Kind(c) \in {"unix", "plain"}
              \/ Kind(c) = "secure" /\ Listen[c].net # "loopback"

\* The connections a broadcast to the local services goes to.
ServedLocally(c) ==
    \/ Kind(c) = "unix"
    \/ Kind(c) = "plain" /\ Listen[c].net = "loopback"

\* Deviation: the daemon says it is ready before it asks for the commands.
ReadyFirst == << [command |-> "READY"], [command |-> "HELP"] >>

\* What the daemon replies to REGISTER.
Greeting == << [command |-> "HELP"], [command |-> "READY"] >>

-----------------------------------------------------------------------------
(* check_clock.                                                            *)

Message(s) ==
    CASE s = "STABLE"  -> [command |-> "CLOCK_STABLE",   why |-> "verified"]
      [] s = "NO_NTP"  -> [command |-> "CLOCK_STABLE",   why |-> "no_ntp"]
      [] s = "INVALID" -> [command |-> "CLOCK_UNSTABLE", why |-> "invalid"]
      [] OTHER         -> [command |-> "CLOCK_UNSTABLE", why |-> "checking"]

\* send_clock_status() over the connections C that understand the message.
Told(C, s) ==
    [c \in Client |->
        IF c \in C \cap up /\ Message(s).command \in knows[c]
        THEN Append(inbox[c], Message(s)) ELSE inbox[c]]

\* Deviation: the status that is told is the one before.
SetStatusLate(s) ==
    /\ status' = s
    /\ inbox' = IF s = status THEN inbox ELSE Told({c \in Client : ServedLocally(c)}, status)

\* set_clock_status().
SetStatus(s) ==
    /\ status' = s
    /\ inbox' = IF s = status THEN inbox ELSE Told({c \in Client : ServedLocally(c)}, s)

-----------------------------------------------------------------------------
(* stable_clock.                                                           *)

\* Deviation: every tick starts a child.
NeverBusy == FALSE

\* A child of an earlier tick is still running.
Busy == process # "IDLE"

\* The state is reset when start() fails.
NotStarted(p) == process' = "IDLE"

\* A child process is started, or start() fails.
StartProcess(p) ==
    /\ \/ process' = p /\ children' = children + 1 /\ UNCHANGED faults
       \/ Fault /\ NotStarted(p) /\ UNCHANGED children
    /\ UNCHANGED <<status, inbox>>

StartNtpWait      == StartProcess("NTP_WAIT")
StartTimedateWait == StartProcess("TIMEDATE_WAIT")

HasNtpWait     == "ntp-wait" \in tools
HasTimedatectl == "timedatectl" \in tools

\* A tick, the first of which comes at once.
ProcessTimeout ==
    /\ ~Busy
    /\ \/ HasNtpWait /\ StartNtpWait
       \/ ~HasNtpWait /\ HasTimedatectl /\ StartTimedateWait
       \/ /\ ~HasNtpWait /\ ~HasTimedatectl
          /\ SetStatus("NO_NTP")
          /\ UNCHANGED <<process, children, faults>>
    /\ UNCHANGED <<tools, clientVars>>

\* ntp_wait_exited() and timedate_wait_exited(): any result but 0 is a failure.
ProcessExited ==
    /\ children > 0
    /\ children' = children - 1
    /\ process' = "IDLE"
    /\ \/ SetStatus("STABLE") /\ UNCHANGED faults
       \/ SetStatus("INVALID") /\ Fault
    /\ UNCHANGED <<tools, clientVars>>

-----------------------------------------------------------------------------
(* communicator_connection, and the service on top of it: it asks for the  *)
(* status of the clock when it gets READY.                                 *)

\* process_communicator_options(), which throws when called twice. Over UDP the
\* registration is sent once, whether or not a daemon is there.
Start(c) ==
    /\ conn[c] = "none" /\ Kind(c) # "throw"
    /\ conn' = [conn EXCEPT ![c] = "made"]
    /\ outbox' = IF Kind(c) = "udp"
                 THEN [outbox EXCEPT ![c] = Append(@, "REGISTER")] ELSE outbox
    /\ UNCHANGED <<clockVars, up, knows, heard, inbox, faults>>

\* Deviation: register_service() is called for the first connection only.
RegisterOnce(c) == IF heard[c] = Nothing THEN <<"REGISTER">> ELSE <<>>

\* The first words over a new connection.
Opening(c) == <<"REGISTER">>

\* process_connected() of a permanent connection.
Connected(c) ==
    /\ conn[c] = "made" /\ Answers(c) /\ c \notin up
    /\ up' = up \cup {c}
    /\ outbox' = [outbox EXCEPT ![c] = Opening(c)]
    /\ UNCHANGED <<clockVars, conn, knows, heard, inbox, faults>>

\* What the client does with a message.
Response(m) ==
    CASE m.command = "HELP"  -> <<"COMMANDS">>
      [] m.command = "READY" -> <<"CLOCK_STATUS">>
      [] OTHER               -> <<>>

ClientReads(c) ==
    /\ inbox[c] # <<>>
    /\ LET m == Head(inbox[c])
       IN  /\ outbox' = [outbox EXCEPT ![c] = @ \o Response(m)]
           /\ heard' = IF m.command \in Clock THEN [heard EXCEPT ![c] = m] ELSE heard
    /\ inbox' = [inbox EXCEPT ![c] = Tail(@)]
    /\ UNCHANGED <<clockVars, conn, up, knows, faults>>

\* Both ends forget the connections of C and what is on its way over them.
Cut(C) ==
    /\ up' = up \ C
    /\ knows'  = [c \in Client |-> IF c \in C THEN {} ELSE knows[c]]
    /\ outbox' = [c \in Client |-> IF c \in C THEN <<>> ELSE outbox[c]]

\* unregister_communicator(): the connection is dropped when the daemon quits,
\* else UNREGISTER is sent, and the daemon hangs up.
Unregister(c, quitting) ==
    /\ conn[c] = "made"
    /\ conn' = [conn EXCEPT ![c] = IF quitting THEN "none" ELSE "leaving"]
    /\ IF quitting
       THEN Cut({c}) /\ inbox' = [inbox EXCEPT ![c] = <<>>]
       ELSE /\ outbox' = [outbox EXCEPT ![c] = IF c \in up \/ Kind(c) = "udp"
                                               THEN Append(@, "UNREGISTER") ELSE @]
            /\ UNCHANGED <<up, knows, inbox>>
    /\ Fault
    /\ UNCHANGED <<clockVars, heard>>

-----------------------------------------------------------------------------
(* The daemon. What it does for a message is its reply, what it knows of    *)
(* the connection and whether it keeps it.                                 *)

Reads(c, m) == outbox[c] # <<>> /\ Head(outbox[c]) = m /\ Kind(c) # "udp"

\* The message is read and the connection kept.
Taken(c) ==
    /\ outbox' = [outbox EXCEPT ![c] = Tail(@)]
    /\ UNCHANGED <<clockVars, conn, up, heard, faults>>

\* "only accepted over a TCP connection".
IgnoreUDP(c) ==
    /\ outbox[c] # <<>> /\ Kind(c) = "udp"
    /\ Taken(c)
    /\ UNCHANGED <<knows, inbox>>

MsgRegister(c) ==
    /\ Reads(c, "REGISTER") /\ Taken(c)
    /\ inbox' = [inbox EXCEPT ![c] = @ \o Greeting]
    /\ UNCHANGED knows

MsgCommands(c) ==
    /\ Reads(c, "COMMANDS") /\ Taken(c)
    /\ knows' = [knows EXCEPT ![c] = Commands[c]]
    /\ UNCHANGED inbox

MsgClockStatus(c) ==
    /\ Reads(c, "CLOCK_STATUS") /\ Taken(c)
    /\ inbox' = Told({c}, status)
    /\ UNCHANGED knows

\* The connection is removed.
MsgUnregister(c) ==
    /\ Reads(c, "UNREGISTER")
    /\ Cut({c}) /\ inbox' = [inbox EXCEPT ![c] = <<>>]
    /\ UNCHANGED <<clockVars, conn, heard, faults>>

DaemonReads(c) == \/ IgnoreUDP(c) \/ MsgRegister(c) \/ MsgCommands(c)
                  \/ MsgClockStatus(c) \/ MsgUnregister(c)

-----------------------------------------------------------------------------
(* What goes wrong.                                                        *)

Break(c) ==
    /\ c \in up
    /\ Fault
    /\ Cut({c}) /\ inbox' = [inbox EXCEPT ![c] = <<>>]
    /\ UNCHANGED <<clockVars, conn, heard>>

\* The daemon dies and is started again; its child is nobody's.
Restart ==
    /\ Fault
    /\ process' = "IDLE" /\ children' = 0 /\ status' = "UNKNOWN"
    /\ Cut(Client) /\ inbox' = [c \in Client |-> <<>>]
    /\ UNCHANGED <<tools, conn, heard>>

\* A package is installed or removed.
Install ==
    /\ Fault
    /\ tools' \in (SUBSET {"ntp-wait", "timedatectl"}) \ {tools}
    /\ UNCHANGED <<process, children, status, clientVars, inbox>>

Next ==
    \/ ProcessTimeout
    \/ ProcessExited
    \/ \E c \in Client :
         \/ Start(c)
         \/ Connected(c)
         \/ ClientReads(c)
         \/ DaemonReads(c)
         \/ \E quitting \in BOOLEAN : Unregister(c, quitting)
         \/ Break(c)
    \/ Restart
    \/ Install

Spec == Init /\ [][Next]_vars

\* The timer ticks every hour, a child gives up after 600 tries, a permanent
\* connection never stops trying, and what is on its way gets read.
Fairness ==
    /\ WF_vars(ProcessTimeout)
    /\ WF_vars(ProcessExited)
    /\ \A c \in Client : WF_vars(Connected(c)) /\ WF_vars(ClientReads(c)) /\ WF_vars(DaemonReads(c))

FairSpec == Spec /\ Fairness

-----------------------------------------------------------------------------
(* Properties.                                                             *)

\* Type invariant; one child at most, which is the one the state names.
TypeOK ==
    /\ tools \subseteq {"ntp-wait", "timedatectl"}
    /\ process \in {"IDLE", "NTP_WAIT", "TIMEDATE_WAIT"}
    /\ children = (IF process = "IDLE" THEN 0 ELSE 1)
    /\ status \in Statuses
    /\ conn \in [Client -> {"none", "made", "leaving"}]
    /\ up \subseteq Client
    /\ knows \in [Client -> SUBSET Clock]
    /\ outbox \in [Client -> Seq({"REGISTER", "COMMANDS", "CLOCK_STATUS", "UNREGISTER"})]
    /\ inbox \in [Client -> Seq(Messages \cup {Greeting[1], Greeting[2]})]
    /\ heard \in [Client -> Messages \cup {Nothing}]
    /\ faults \in 0..MaxFaults

Settled(c) == c \in up /\ inbox[c] = <<>> /\ outbox[c] = <<>>

\* A local client with nothing on its way knows the status of the clock,
\* provided it understands the message for it: a change of the status either
\* reaches a client that sent its COMMANDS, or comes before the answer to its
\* CLOCK_STATUS, and each new connection asks again.
ClientInformed == \A c \in Client :
    Settled(c) /\ ServedLocally(c) /\ Message(status).command \in Commands[c] =>
        heard[c] = Message(status)

\* However children fail to start or exit, connections break and the daemon is
\* restarted, the daemon ends up with a status of the clock, and every local
\* client that stays ends up being told that one.
EventuallyInformed ==
    <>[](/\ status # "UNKNOWN"
         /\ \A c \in Client :
                conn[c] = "made" /\ ServedLocally(c) => heard[c] = Message(status))

=============================================================================
