------------------------------ MODULE ClockProofs ------------------------------
(***************************************************************************)
(* Proofs about Clock, for any number of clients, any URIs and commands,   *)
(* and any number of things that go wrong.                                 *)
(***************************************************************************)
EXTENDS Clock, FunctionTheorems, FiniteSetTheorems, SequenceTheorems, TLAPS

Asked   == {"REGISTER", "COMMANDS", "CLOCK_STATUS", "UNREGISTER"}
Replied == Messages \cup {Greeting[1], Greeting[2]}

Has(q, w)     == \E i \in DOMAIN q : q[i] = w
HasCmd(q, w)  == \E i \in DOMAIN q : q[i].command = w

\* The last message about the clock is m: the last one on its way, or, if there
\* is none, the one heard.
LastIs(q, h, m) ==
    \/ \E i \in DOMAIN q : q[i] = m /\ \A j \in DOMAIN q : j > i => q[j].command \notin Clock
    \/ h = m /\ \A j \in DOMAIN q : q[j].command \notin Clock

\* Over a broken connection nothing is on its way, and its commands are forgotten.
Off(c) == /\ c \notin up => inbox[c] = <<>> /\ knows[c] = {}
          /\ c \notin up /\ Kind(c) # "udp" => outbox[c] = <<>>
          /\ c \in up => Answers(c)

\* The daemon is told the commands before it is asked for the status.
CommandsFirst(c) ==
    /\ knows[c] \in {{}, Commands[c]}
    /\ \A i \in DOMAIN outbox[c] : outbox[c][i] = "CLOCK_STATUS" =>
          \/ knows[c] = Commands[c]
          \/ \E j \in DOMAIN outbox[c] : j < i /\ outbox[c][j] = "COMMANDS"
    /\ \A i \in DOMAIN inbox[c] : inbox[c][i].command = "READY" =>
          \/ knows[c] = Commands[c]
          \/ Has(outbox[c], "COMMANDS")
          \/ \E j \in DOMAIN inbox[c] : j < i /\ inbox[c][j].command = "HELP"

\* The client has yet to get an answer, or was told.
Asking(c) == \/ Has(outbox[c], "REGISTER")
             \/ HasCmd(inbox[c], "READY")
             \/ Has(outbox[c], "CLOCK_STATUS")
KnowsStatus(c) == /\ knows[c] = Commands[c]
                  /\ Message(status).command \in Commands[c] =>
                        LastIs(inbox[c], heard[c], Message(status))

ClientOK(c) == /\ Off(c)
               /\ c \in up => CommandsFirst(c)
               /\ c \in up /\ ServedLocally(c) => Asking(c) \/ KnowsStatus(c)

\* The inductive invariant.
IInv == TypeOK /\ \A c \in Client : ClientOK(c)

-----------------------------------------------------------------------------
(* Messages and queues.                                                    *)

LEMMA Greets ==
    /\ Greeting = <<[command |-> "HELP"], [command |-> "READY"]>>
    /\ Greeting[1] = [command |-> "HELP"] /\ Greeting[2] = [command |-> "READY"]
    /\ Greeting[1].command = "HELP" /\ Greeting[2].command = "READY"
    /\ Greeting[1] \in Replied /\ Greeting[2] \in Replied
BY DEF Greeting, Replied

LEMMA Clocks ==
    /\ \A m \in Messages : m.command \in Clock
    /\ \A s \in Statuses : Message(s) \in Messages /\ Message(s) \in Replied
                              /\ Message(s).command \in Clock
    /\ \A m \in Replied : m.command \in Clock => m \in Messages
    /\ "READY" \notin Clock /\ "HELP" \notin Clock
<1>1. \A m \in Messages : m.command \in Clock
  BY DEF Messages, Clock
<1>2. \A s \in Statuses : Message(s) \in Messages
  BY DEF Statuses, Message, Messages
<1>3. "READY" \notin Clock /\ "HELP" \notin Clock
  BY DEF Clock
<1> QED BY <1>1, <1>2, <1>3, Greets DEF Replied

LEMMA Tails ==
    ASSUME NEW S, NEW q \in Seq(S), q # <<>>
    PROVE  /\ Tail(q) \in Seq(S) /\ Head(q) \in S /\ Head(q) = q[1] /\ 1 \in DOMAIN q
           /\ \A i \in DOMAIN q : i # 1 => i - 1 \in DOMAIN Tail(q) /\ Tail(q)[i - 1] = q[i]
           /\ \A i \in DOMAIN Tail(q) : i + 1 \in DOMAIN q /\ Tail(q)[i] = q[i + 1]
           /\ DOMAIN q \subseteq Nat /\ DOMAIN Tail(q) \subseteq Nat
<1>1. /\ Tail(q) \in Seq(S) /\ Len(Tail(q)) = Len(q) - 1 /\ Len(q) \in Nat /\ Len(q) > 0
      /\ \A i \in 1..(Len(q) - 1) : Tail(q)[i] = q[i + 1]
      /\ Head(q) = q[1]
  OBVIOUS
<1>2. DOMAIN q = 1..Len(q) /\ DOMAIN Tail(q) = 1..(Len(q) - 1)
  BY <1>1
<1>3. 1 \in DOMAIN q /\ q[1] \in S
  BY <1>1, <1>2
<1>4. ASSUME NEW i \in DOMAIN q, i # 1
      PROVE  i - 1 \in DOMAIN Tail(q) /\ Tail(q)[i - 1] = q[i]
  <2>1. i - 1 \in 1..(Len(q) - 1) /\ (i - 1) + 1 = i
    BY <1>1, <1>2, <1>4
  <2> QED BY <1>1, <1>2, <2>1
<1>5. \A i \in DOMAIN Tail(q) : i + 1 \in DOMAIN q /\ Tail(q)[i] = q[i + 1]
  BY <1>1, <1>2
<1> QED BY <1>1, <1>2, <1>3, <1>4, <1>5

LEMMA Appends ==
    ASSUME NEW S, NEW q \in Seq(S), NEW m \in S
    PROVE  /\ Append(q, m) \in Seq(S) /\ q \o <<m>> = Append(q, m)
           /\ \A i \in DOMAIN q : i \in DOMAIN Append(q, m) /\ Append(q, m)[i] = q[i]
                                     /\ i < Len(q) + 1
           /\ Len(q) + 1 \in DOMAIN Append(q, m) /\ Append(q, m)[Len(q) + 1] = m
           /\ \A i \in DOMAIN Append(q, m) : i \in DOMAIN q \/ i = Len(q) + 1
           /\ DOMAIN q \subseteq Nat /\ DOMAIN Append(q, m) \subseteq Nat
<1>1. /\ Append(q, m) \in Seq(S) /\ Len(Append(q, m)) = Len(q) + 1 /\ Len(q) \in Nat
      /\ \A i \in 1..Len(q) : Append(q, m)[i] = q[i]
      /\ Append(q, m)[Len(q) + 1] = m
  OBVIOUS
<1>2. DOMAIN q = 1..Len(q) /\ DOMAIN Append(q, m) = 1..(Len(q) + 1)
  BY <1>1
<1>3. q \o <<m>> = Append(q, m)
  OBVIOUS
<1> QED BY <1>1, <1>2, <1>3

LEMMA HasAppended ==
    ASSUME NEW q \in Seq(Asked), NEW m \in Asked, NEW w
    PROVE  (Has(q, w) => Has(Append(q, m), w)) /\ Has(Append(q, m), m)
BY Appends DEF Has

LEMMA HasTail ==
    ASSUME NEW q \in Seq(Asked), q # <<>>, NEW w
    PROVE  Has(q, w) /\ Head(q) # w => Has(Tail(q), w)
<1> SUFFICES ASSUME NEW i \in DOMAIN q, q[i] = w, Head(q) # w PROVE Has(Tail(q), w)
  BY DEF Has
<1>1. i # 1
  BY Tails
<1>2. i - 1 \in DOMAIN Tail(q) /\ Tail(q)[i - 1] = w
  BY <1>1, Tails
<1> QED BY <1>2 DEF Has

LEMMA CmdAppended ==
    ASSUME NEW q \in Seq(Replied), NEW m \in Replied, NEW w
    PROVE  (HasCmd(q, w) => HasCmd(Append(q, m), w)) /\ HasCmd(Append(q, m), m.command)
BY Appends DEF HasCmd

LEMMA CmdTail ==
    ASSUME NEW q \in Seq(Replied), q # <<>>, NEW w
    PROVE  HasCmd(q, w) /\ Head(q).command # w => HasCmd(Tail(q), w)
<1> SUFFICES ASSUME NEW i \in DOMAIN q, q[i].command = w, Head(q).command # w
             PROVE  HasCmd(Tail(q), w)
  BY DEF HasCmd
<1>1. i # 1
  BY Tails
<1>2. i - 1 \in DOMAIN Tail(q) /\ Tail(q)[i - 1] = q[i]
  BY <1>1, Tails
<1> QED BY <1>2 DEF HasCmd

\* A message about the clock is the last one once it is sent.
LEMMA LastAppended ==
    ASSUME NEW q \in Seq(Replied), NEW m \in Replied, NEW h
    PROVE  /\ LastIs(Append(q, m), h, m)
           /\ \A x : m.command \notin Clock /\ LastIs(q, h, x) => LastIs(Append(q, m), h, x)
<1>1. LastIs(Append(q, m), h, m)
  <2>1. \A j \in DOMAIN Append(q, m) : ~(j > Len(q) + 1)
    BY Appends
  <2> QED BY <2>1, Appends DEF LastIs
<1>2. ASSUME NEW x, m.command \notin Clock, LastIs(q, h, x) PROVE LastIs(Append(q, m), h, x)
  <2>1. \A j \in DOMAIN Append(q, m) : j \in DOMAIN q \/ Append(q, m)[j].command \notin Clock
    BY <1>2, Appends
  <2> QED BY <1>2, <2>1, Appends DEF LastIs
<1> QED BY <1>1, <1>2

\* Nothing changes about the last message when the client reads one.
LEMMA LastRead ==
    ASSUME NEW q \in Seq(Replied), q # <<>>, NEW h, NEW x, x.command \in Clock,
           LastIs(q, h, x)
    PROVE  LastIs(Tail(q), IF Head(q).command \in Clock THEN Head(q) ELSE h, x)
<1>1. CASE \E i \in DOMAIN q : q[i] = x /\ \A j \in DOMAIN q : j > i => q[j].command \notin Clock
  <2>1. PICK i \in DOMAIN q : q[i] = x /\ \A j \in DOMAIN q : j > i => q[j].command \notin Clock
    BY <1>1
  <2>2. CASE i = 1
    <3>1. ASSUME NEW j \in DOMAIN Tail(q) PROVE Tail(q)[j].command \notin Clock
      <4>1. j + 1 \in DOMAIN q /\ Tail(q)[j] = q[j + 1] /\ j + 1 > i
        <5>1. j \in Nat /\ j # 0
          BY Tails
        <5> QED BY <2>2, <5>1, Tails
      <4> QED BY <2>1, <4>1
    <3>2. CASE Head(q).command \in Clock
      BY <2>1, <2>2, <3>1, <3>2, Tails DEF LastIs
    <3>3. Head(q) = x
      BY <2>1, <2>2, Tails
    <3> QED BY <3>2, <3>3
  <2>3. CASE i # 1
    <3>1. i - 1 \in DOMAIN Tail(q) /\ Tail(q)[i - 1] = x
      BY <2>1, <2>3, Tails
    <3>2. ASSUME NEW j \in DOMAIN Tail(q), j > i - 1 PROVE Tail(q)[j].command \notin Clock
      <4>1. j + 1 \in DOMAIN q /\ Tail(q)[j] = q[j + 1] /\ j \in Nat /\ i \in Nat
        BY Tails
      <4>2. j + 1 > i
        BY <3>2, <4>1
      <4> QED BY <2>1, <4>1, <4>2
    <3> QED BY <3>1, <3>2 DEF LastIs
  <2> QED BY <2>2, <2>3
<1>2. CASE h = x /\ \A j \in DOMAIN q : q[j].command \notin Clock
  BY <1>2, Tails DEF LastIs
<1> QED BY <1>1, <1>2 DEF LastIs

-----------------------------------------------------------------------------
(* One client.                                                             *)

\* The types of one client.
LEMMA ClientTypes ==
    ASSUME TypeOK, NEW c \in Client
    PROVE  /\ outbox[c] \in Seq(Asked) /\ inbox[c] \in Seq(Replied)
           /\ knows[c] \in SUBSET Clock /\ status \in Statuses
           /\ Message(status) \in Messages /\ Message(status) \in Replied
           /\ Message(status).command \in Clock
           /\ <<>> \in Seq(Asked) /\ <<>> \in Seq(Replied)
BY Clocks DEF TypeOK, Asked, Replied

\* What a step that leaves c alone keeps.
Untouched(c) ==
    /\ c \in up' <=> c \in up
    /\ knows'[c] = knows[c] /\ outbox'[c] = outbox[c] /\ inbox'[c] = inbox[c]
    /\ heard'[c] = heard[c]

LEMMA ClientKept ==
    ASSUME NEW c \in Client, ClientOK(c), Untouched(c), status' = status
    PROVE  ClientOK(c)'
BY DEF ClientOK, Untouched, Off, CommandsFirst, Asking, KnowsStatus

\* A connection that is gone, with what was on its way.
LEMMA Gone ==
    ASSUME NEW c \in Client, c \notin up', inbox'[c] = <<>>, knows'[c] = {},
           outbox'[c] = <<>> \/ Kind(c) = "udp"
    PROVE  ClientOK(c)'
BY DEF ClientOK, Off

\* The daemon sends c a message m about the clock, which is its status then.
LEMMA ToldOne ==
    ASSUME TypeOK, NEW c \in Client, c \in up, Off(c), CommandsFirst(c), NEW s \in Statuses,
           ServedLocally(c) => Asking(c) \/ knows[c] = Commands[c],
           c \in up', knows'[c] = knows[c], outbox'[c] = outbox[c], heard'[c] = heard[c],
           status' = s, \/ inbox'[c] = Append(inbox[c], Message(s))
                        \/ inbox'[c] = inbox[c] /\ ~(ServedLocally(c) /\ Message(s).command \in knows[c])
    PROVE  ClientOK(c)'
<1>1. CASE inbox'[c] = Append(inbox[c], Message(s))
  <2>0. inbox[c] \in Seq(Replied) /\ Message(s) \in Replied /\ Message(s).command \in Clock
        /\ Message(s).command # "READY"
    BY ClientTypes, Clocks
  <2>1. Off(c)'
    BY DEF Off
  <2>2. CommandsFirst(c)'
    <3>1. ASSUME NEW i \in DOMAIN inbox'[c], inbox'[c][i].command = "READY"
          PROVE  \/ knows'[c] = Commands[c]
                 \/ Has(outbox'[c], "COMMANDS")
                 \/ \E j \in DOMAIN inbox'[c] : j < i /\ inbox'[c][j].command = "HELP"
      <4>1. i \in DOMAIN inbox[c] /\ inbox[c][i].command = "READY"
        BY <1>1, <2>0, <3>1, Appends
      <4>2. \A j \in DOMAIN inbox[c] : j \in DOMAIN inbox'[c] /\ inbox'[c][j] = inbox[c][j]
        BY <1>1, <2>0, Appends
      <4> QED BY <4>1, <4>2 DEF CommandsFirst
    <3> QED BY <3>1 DEF CommandsFirst
  <2>3. Asking(c) => Asking(c)'
    BY <1>1, <2>0, CmdAppended DEF Asking
  <2>4. LastIs(inbox'[c], heard'[c], Message(s))
    BY <1>1, <2>0, LastAppended
  <2> QED BY <2>1, <2>2, <2>3, <2>4 DEF ClientOK, KnowsStatus
<1>2. CASE inbox'[c] = inbox[c] /\ ~(ServedLocally(c) /\ Message(s).command \in knows[c])
  <2>1. Off(c)' /\ CommandsFirst(c)' /\ (Asking(c) => Asking(c)')
    BY <1>2 DEF Off, CommandsFirst, Asking
  <2>2. ASSUME ServedLocally(c), knows[c] = Commands[c] PROVE KnowsStatus(c)'
    BY <1>2, <2>2 DEF KnowsStatus
  <2> QED BY <2>1, <2>2 DEF ClientOK
<1> QED BY <1>1, <1>2

\* A new status, or the same again.
LEMMA SetStatusOK ==
    ASSUME IInv, NEW s \in Statuses, SetStatus(s), UNCHANGED clientVars
    PROVE  /\ \A c \in Client : ClientOK(c)'
           /\ status' \in Statuses /\ inbox' \in [Client -> Seq(Replied)]
<1>1. CASE s = status
  <2>1. status' = status /\ inbox' = inbox
    BY <1>1 DEF SetStatus
  <2>2. \A c \in Client : Untouched(c)
    BY <2>1 DEF Untouched, clientVars
  <2> QED BY <2>1, <2>2, ClientKept DEF IInv, TypeOK, Replied
<1>2. CASE s # status
  <2>1. status' = s /\ inbox' = [c \in Client |->
            IF c \in {d \in Client : ServedLocally(d)} \cap up /\ Message(s).command \in knows[c]
            THEN Append(inbox[c], Message(s)) ELSE inbox[c]]
    BY <1>2 DEF SetStatus, Told
  <2>2. \A c \in Client : inbox[c] \in Seq(Replied) /\ Append(inbox[c], Message(s)) \in Seq(Replied)
    BY ClientTypes, Clocks, Appends DEF IInv
  <2>3. inbox' \in [Client -> Seq(Replied)]
    BY <2>1, <2>2
  <2>4. ASSUME NEW c \in Client, c \in up PROVE ClientOK(c)'
    <3>1. ClientOK(c) /\ TypeOK
      BY DEF IInv
    <3>2. \/ inbox'[c] = Append(inbox[c], Message(s))
          \/ inbox'[c] = inbox[c] /\ ~(ServedLocally(c) /\ Message(s).command \in knows[c])
      BY <2>1, <2>4
    <3>3. ServedLocally(c) => Asking(c) \/ knows[c] = Commands[c]
      BY <2>4, <3>1 DEF ClientOK, KnowsStatus
    <3> QED BY <2>1, <2>4, <3>1, <3>2, <3>3, ToldOne DEF ClientOK, clientVars
  <2>5. ASSUME NEW c \in Client, c \notin up PROVE ClientOK(c)'
    <3>1. inbox'[c] = inbox[c] /\ up' = up /\ outbox' = outbox /\ knows' = knows
      BY <2>1, <2>5 DEF clientVars
    <3> QED BY <2>5, <3>1 DEF IInv, ClientOK, Off
  <2> QED BY <2>1, <2>3, <2>4, <2>5
<1> QED BY <1>1, <1>2

-----------------------------------------------------------------------------
(* The actions.                                                            *)

\* What the connections need, of the type invariant.
ClientTypesOK ==
    /\ conn \in [Client -> {"none", "made", "leaving"}]
    /\ up \subseteq Client
    /\ knows \in [Client -> SUBSET Clock]
    /\ outbox \in [Client -> Seq(Asked)]
    /\ inbox \in [Client -> Seq(Replied)]
    /\ heard \in [Client -> Messages \cup {Nothing}]
CheckTypesOK ==
    /\ tools \subseteq {"ntp-wait", "timedatectl"}
    /\ process \in {"IDLE", "NTP_WAIT", "TIMEDATE_WAIT"}
    /\ children = (IF process = "IDLE" THEN 0 ELSE 1)
    /\ status \in Statuses
    /\ faults \in 0..MaxFaults

LEMMA Parts ==
    /\ TypeOK => ClientTypesOK /\ CheckTypesOK
    /\ ClientTypesOK' /\ CheckTypesOK' => TypeOK'
BY DEF TypeOK, ClientTypesOK, CheckTypesOK, Asked, Replied

LEMMA FaultsCounted == faults \in 0..MaxFaults /\ Fault => faults' \in 0..MaxFaults
BY BoundAssumption DEF Fault

LEMMA ProcessTimeoutOK == IInv /\ ProcessTimeout => IInv'
<1> SUFFICES ASSUME IInv, ProcessTimeout PROVE IInv'
  OBVIOUS
<1>0. ClientTypesOK /\ CheckTypesOK /\ process = "IDLE" /\ tools' = tools /\ UNCHANGED clientVars
      /\ \A c \in Client : ClientOK(c)
  BY Parts DEF IInv, ProcessTimeout, Busy
<1>1. ASSUME NEW p \in {"NTP_WAIT", "TIMEDATE_WAIT"}, StartProcess(p) PROVE IInv'
  <2>1. status' = status /\ inbox' = inbox
    BY <1>1 DEF StartProcess
  <2>2. process' \in {"IDLE", "NTP_WAIT", "TIMEDATE_WAIT"}
        /\ children' = (IF process' = "IDLE" THEN 0 ELSE 1)
    BY <1>0, <1>1 DEF StartProcess, NotStarted, CheckTypesOK
  <2>3. faults' \in 0..MaxFaults
    BY <1>0, <1>1, FaultsCounted DEF StartProcess, CheckTypesOK
  <2>4. ClientTypesOK' /\ CheckTypesOK'
    BY <1>0, <2>1, <2>2, <2>3 DEF ClientTypesOK, CheckTypesOK, clientVars
  <2>5. \A c \in Client : Untouched(c)
    BY <1>0, <2>1 DEF Untouched, clientVars
  <2> QED BY <1>0, <2>1, <2>4, <2>5, ClientKept, Parts DEF IInv
<1>2. CASE SetStatus("NO_NTP") /\ UNCHANGED <<process, children, faults>>
  <2>1. "NO_NTP" \in Statuses
    BY DEF Statuses
  <2>2. status' \in Statuses /\ inbox' \in [Client -> Seq(Replied)]
    BY <1>0, <1>2, <2>1, SetStatusOK
  <2>3. \A c \in Client : ClientOK(c)'
    BY <1>0, <1>2, <2>1, SetStatusOK
  <2>4. ClientTypesOK' /\ CheckTypesOK'
    BY <1>0, <1>2, <2>2 DEF ClientTypesOK, CheckTypesOK, clientVars
  <2> QED BY <2>3, <2>4, Parts DEF IInv
<1> QED BY <1>1, <1>2 DEF ProcessTimeout, StartNtpWait, StartTimedateWait

LEMMA ProcessExitedOK == IInv /\ ProcessExited => IInv'
<1> SUFFICES ASSUME IInv, ProcessExited PROVE IInv'
  OBVIOUS
<1>0. ClientTypesOK /\ CheckTypesOK /\ tools' = tools /\ UNCHANGED clientVars
  BY Parts DEF IInv, ProcessExited
<1>1. PICK s \in {"STABLE", "INVALID"} : SetStatus(s)
  BY DEF ProcessExited
<1>2. s \in Statuses
  BY <1>1 DEF Statuses
<1>3. status' \in Statuses /\ inbox' \in [Client -> Seq(Replied)]
  BY <1>0, <1>1, <1>2, SetStatusOK
<1>4. \A c \in Client : ClientOK(c)'
  BY <1>0, <1>1, <1>2, SetStatusOK
<1>5. process' = "IDLE" /\ children' = 0
  BY <1>0 DEF ProcessExited, CheckTypesOK
<1>6. faults' \in 0..MaxFaults
  BY <1>0, FaultsCounted DEF ProcessExited, CheckTypesOK
<1>7. ClientTypesOK' /\ CheckTypesOK'
  BY <1>0, <1>3, <1>5, <1>6 DEF ClientTypesOK, CheckTypesOK, clientVars
<1> QED BY <1>4, <1>7, Parts DEF IInv

\* Connections that are cut leave nothing behind.
LEMMA Severed ==
    ASSUME IInv, NEW C \in SUBSET Client, Cut(C), heard' = heard, conn' \in [Client -> {"none", "made", "leaving"}],
           inbox' = [c \in Client |-> IF c \in C THEN <<>> ELSE inbox[c]],
           status' = status \/ C = Client
    PROVE  ClientTypesOK' /\ \A c \in Client : ClientOK(c)'
<1>0. ClientTypesOK
  BY Parts DEF IInv
<1>1. <<>> \in Seq(Asked) /\ <<>> \in Seq(Replied)
  OBVIOUS
<1>2. knows' \in [Client -> SUBSET Clock]
  BY <1>0 DEF Cut, ClientTypesOK
<1>3. outbox' \in [Client -> Seq(Asked)]
  BY <1>0, <1>1 DEF Cut, ClientTypesOK
<1>4. inbox' \in [Client -> Seq(Replied)]
  BY <1>0, <1>1 DEF ClientTypesOK
<1>5. ClientTypesOK'
  BY <1>0, <1>2, <1>3, <1>4 DEF Cut, ClientTypesOK
<1>6. ASSUME NEW c \in C PROVE ClientOK(c)'
  <2>1. c \in Client /\ c \notin up' /\ knows'[c] = {} /\ outbox'[c] = <<>> /\ inbox'[c] = <<>>
    BY <1>6 DEF Cut
  <2> QED BY <2>1, Gone
<1>7. ASSUME NEW c \in Client, c \notin C PROVE ClientOK(c)'
  <2>1. Untouched(c) /\ status' = status /\ ClientOK(c)
    BY <1>7 DEF Cut, Untouched, IInv
  <2> QED BY <2>1, ClientKept
<1> QED BY <1>5, <1>6, <1>7

LEMMA BreakOK == ASSUME IInv, NEW c \in Client, Break(c) PROVE IInv'
<1>0. ClientTypesOK /\ CheckTypesOK
  BY Parts DEF IInv
<1>1. inbox' = [d \in Client |-> IF d \in {c} THEN <<>> ELSE inbox[d]]
  BY <1>0 DEF Break, ClientTypesOK
<1>2. ClientTypesOK' /\ \A d \in Client : ClientOK(d)'
  <2>1. /\ Cut({c}) /\ heard' = heard /\ status' = status
        /\ conn' \in [Client -> {"none", "made", "leaving"}] /\ {c} \in SUBSET Client
    BY <1>0 DEF Break, ClientTypesOK, clockVars
  <2> QED BY <1>1, <2>1, Severed
<1>3. faults' \in 0..MaxFaults
  BY <1>0, FaultsCounted DEF Break, CheckTypesOK
<1>4. CheckTypesOK'
  BY <1>0, <1>3 DEF Break, clockVars, CheckTypesOK
<1> QED BY <1>2, <1>4, Parts DEF IInv

LEMMA RestartOK == IInv /\ Restart => IInv'
<1> SUFFICES ASSUME IInv, Restart PROVE IInv'
  OBVIOUS
<1>0. ClientTypesOK /\ CheckTypesOK
  BY Parts DEF IInv
<1>1. inbox' = [d \in Client |-> IF d \in Client THEN <<>> ELSE inbox[d]]
  BY DEF Restart
<1>2. ClientTypesOK' /\ \A d \in Client : ClientOK(d)'
  <2>1. /\ Cut(Client) /\ heard' = heard /\ Client \in SUBSET Client
        /\ conn' \in [Client -> {"none", "made", "leaving"}]
    BY <1>0 DEF Restart, ClientTypesOK
  <2> QED BY <1>1, <2>1, Severed
<1>3. faults' \in 0..MaxFaults
  BY <1>0, FaultsCounted DEF Restart, CheckTypesOK
<1>4. CheckTypesOK'
  BY <1>0, <1>3 DEF Restart, CheckTypesOK, Statuses
<1> QED BY <1>2, <1>4, Parts DEF IInv

LEMMA InstallOK == IInv /\ Install => IInv'
<1> SUFFICES ASSUME IInv, Install PROVE IInv'
  OBVIOUS
<1>0. ClientTypesOK /\ CheckTypesOK /\ \A c \in Client : ClientOK(c)
  BY Parts DEF IInv
<1>1. faults' \in 0..MaxFaults
  BY <1>0, FaultsCounted DEF Install, CheckTypesOK
<1>2. ClientTypesOK' /\ CheckTypesOK'
  BY <1>0, <1>1 DEF Install, ClientTypesOK, CheckTypesOK, clientVars
<1>3. \A c \in Client : Untouched(c) /\ status' = status
  BY DEF Install, Untouched, clientVars
<1> QED BY <1>0, <1>2, <1>3, ClientKept, Parts DEF IInv

\* An action of one client or about it.
LEMMA OneClient ==
    ASSUME IInv, NEW c \in Client, status' = status, ClientTypesOK', CheckTypesOK',
           ClientOK(c)', \A d \in Client : d # c => Untouched(d)
    PROVE  IInv'
BY ClientKept, Parts DEF IInv

LEMMA Unfaulty == CheckTypesOK /\ UNCHANGED clockVars /\ faults' = faults => CheckTypesOK'
BY DEF CheckTypesOK, clockVars

LEMMA StartOK == ASSUME IInv, NEW c \in Client, Start(c) PROVE IInv'
<1>0. ClientTypesOK /\ CheckTypesOK /\ ClientOK(c) /\ status' = status /\ CheckTypesOK'
  BY Parts, Unfaulty DEF IInv, Start, clockVars
<1>1. CASE Kind(c) = "udp"
  <2>1. outbox[c] \in Seq(Asked) /\ Append(outbox[c], "REGISTER") \in Seq(Asked)
    BY <1>0 DEF ClientTypesOK, Asked
  <2>2. outbox' = [outbox EXCEPT ![c] = Append(@, "REGISTER")]
    BY <1>1 DEF Start
  <2>3. outbox' \in [Client -> Seq(Asked)] /\ \A d \in Client : d # c => outbox'[d] = outbox[d]
    BY <1>0, <2>1, <2>2 DEF ClientTypesOK
  <2>4. conn' \in [Client -> {"none", "made", "leaving"}]
    BY <1>0 DEF Start, ClientTypesOK
  <2>5. ClientTypesOK'
    BY <1>0, <2>3, <2>4 DEF Start, ClientTypesOK
  <2>6. c \notin up
    BY <1>0, <1>1 DEF ClientOK, Off, Answers
  <2>7. ClientOK(c)'
    BY <1>0, <1>1, <2>6 DEF Start, ClientOK, Off
  <2>8. \A d \in Client : d # c => Untouched(d)
    BY <2>3 DEF Start, Untouched
  <2> QED BY <1>0, <2>5, <2>7, <2>8, OneClient
<1>2. CASE Kind(c) # "udp"
  <2>1. outbox' = outbox /\ conn' \in [Client -> {"none", "made", "leaving"}]
    BY <1>0, <1>2 DEF Start, ClientTypesOK
  <2>2. ClientTypesOK'
    BY <1>0, <2>1 DEF Start, ClientTypesOK
  <2>3. \A d \in Client : Untouched(d)
    BY <2>1 DEF Start, Untouched
  <2> QED BY <1>0, <2>2, <2>3, ClientKept, OneClient
<1> QED BY <1>1, <1>2

LEMMA ConnectedOK == ASSUME IInv, NEW c \in Client, Connected(c) PROVE IInv'
<1>0. ClientTypesOK /\ CheckTypesOK /\ ClientOK(c) /\ status' = status /\ CheckTypesOK'
  BY Parts, Unfaulty DEF IInv, Connected, clockVars
<1>1. outbox' = [outbox EXCEPT ![c] = <<"REGISTER">>] /\ <<"REGISTER">> \in Seq(Asked)
  BY DEF Connected, Opening, Asked
<1>2. outbox' \in [Client -> Seq(Asked)] /\ outbox'[c] = <<"REGISTER">>
      /\ \A d \in Client : d # c => outbox'[d] = outbox[d]
  BY <1>0, <1>1 DEF ClientTypesOK
<1>3. ClientTypesOK'
  BY <1>0, <1>2 DEF Connected, ClientTypesOK
<1>4. inbox'[c] = <<>> /\ knows'[c] = {} /\ Answers(c) /\ c \in up'
  BY <1>0 DEF Connected, ClientOK, Off
<1>5. \A i \in DOMAIN outbox'[c] : outbox'[c][i] = "REGISTER"
  BY <1>2
<1>6. Off(c)' /\ CommandsFirst(c)'
  BY <1>4, <1>5 DEF Off, CommandsFirst
<1>7. Asking(c)'
  BY <1>2 DEF Asking, Has
<1>8. ClientOK(c)'
  BY <1>6, <1>7 DEF ClientOK
<1>9. \A d \in Client : d # c => Untouched(d)
  BY <1>2 DEF Connected, Untouched
<1> QED BY <1>0, <1>3, <1>8, <1>9, OneClient

\* A word more to the daemon, which is not a question about the clock.
LEMMA SaidMore ==
    ASSUME NEW c \in Client, ClientOK(c), outbox[c] \in Seq(Asked), NEW m \in Asked,
           m # "CLOCK_STATUS", status' = status, c \in up, c \in up',
           outbox'[c] = Append(outbox[c], m), inbox'[c] = inbox[c], knows'[c] = knows[c],
           heard'[c] = heard[c]
    PROVE  ClientOK(c)'
<1>1. Off(c)'
  BY DEF ClientOK, Off
<1>2. \A w : Has(outbox[c], w) => Has(outbox'[c], w)
  BY HasAppended
<1>3. ASSUME NEW i \in DOMAIN outbox'[c], outbox'[c][i] = "CLOCK_STATUS"
      PROVE  \/ knows'[c] = Commands[c]
             \/ \E j \in DOMAIN outbox'[c] : j < i /\ outbox'[c][j] = "COMMANDS"
  <2>1. i \in DOMAIN outbox[c] /\ outbox[c][i] = "CLOCK_STATUS"
    BY <1>3, Appends
  <2>2. \A j \in DOMAIN outbox[c] : j \in DOMAIN outbox'[c] /\ outbox'[c][j] = outbox[c][j]
    BY Appends
  <2> QED BY <2>1, <2>2 DEF ClientOK, CommandsFirst
<1>4. CommandsFirst(c)'
  BY <1>2, <1>3 DEF ClientOK, CommandsFirst
<1>5. (Asking(c) => Asking(c)') /\ (KnowsStatus(c) => KnowsStatus(c)')
  BY <1>2 DEF Asking, KnowsStatus
<1> QED BY <1>1, <1>4, <1>5 DEF ClientOK

LEMMA UnregisterOK ==
    ASSUME IInv, NEW c \in Client, NEW quitting \in BOOLEAN, Unregister(c, quitting)
    PROVE  IInv'
<1>0. ClientTypesOK /\ CheckTypesOK /\ ClientOK(c) /\ heard' = heard /\ status' = status
  BY Parts DEF IInv, Unregister, clockVars
<1>1. faults' \in 0..MaxFaults
  BY <1>0, FaultsCounted DEF Unregister, CheckTypesOK
<1>2. CheckTypesOK'
  BY <1>0, <1>1 DEF Unregister, clockVars, CheckTypesOK
<1>3. conn' \in [Client -> {"none", "made", "leaving"}]
  BY <1>0 DEF Unregister, ClientTypesOK
<1>4. CASE quitting
  <2>1. Cut({c}) /\ {c} \in SUBSET Client
    BY <1>4 DEF Unregister
  <2>2. inbox' = [d \in Client |-> IF d \in {c} THEN <<>> ELSE inbox[d]]
    BY <1>0, <1>4 DEF Unregister, ClientTypesOK
  <2>3. ClientTypesOK' /\ \A d \in Client : ClientOK(d)'
    BY <1>0, <1>3, <2>1, <2>2, Severed
  <2> QED BY <1>2, <2>3, Parts DEF IInv
<1>5. CASE ~quitting
  <2>0. UNCHANGED <<up, knows, inbox>>
    BY <1>5 DEF Unregister
  <2>1. CASE c \in up \/ Kind(c) = "udp"
    <3>1. outbox' = [outbox EXCEPT ![c] = Append(@, "UNREGISTER")]
      BY <1>5, <2>1 DEF Unregister
    <3>2. outbox[c] \in Seq(Asked) /\ Append(outbox[c], "UNREGISTER") \in Seq(Asked)
          /\ "UNREGISTER" \in Asked
      BY <1>0 DEF ClientTypesOK, Asked
    <3>3. outbox' \in [Client -> Seq(Asked)] /\ outbox'[c] = Append(outbox[c], "UNREGISTER")
          /\ \A d \in Client : d # c => outbox'[d] = outbox[d]
      BY <1>0, <3>1, <3>2 DEF ClientTypesOK
    <3>4. ClientTypesOK'
      BY <1>0, <1>3, <2>0, <3>3 DEF ClientTypesOK
    <3>5. CASE c \in up
      <4>1. ClientOK(c)'
        BY <1>0, <2>0, <3>2, <3>3, <3>5, SaidMore
      <4> QED BY <1>0, <1>2, <2>0, <3>3, <3>4, <4>1, OneClient DEF Untouched
    <3>6. CASE c \notin up
      <4>1. ClientOK(c)'
        BY <1>0, <2>0, <2>1, <3>6 DEF ClientOK, Off
      <4> QED BY <1>0, <1>2, <2>0, <3>3, <3>4, <4>1, OneClient DEF Untouched
    <3> QED BY <3>5, <3>6
  <2>2. CASE ~(c \in up \/ Kind(c) = "udp")
    <3>1. outbox' = outbox
      BY <1>0, <1>5, <2>2 DEF Unregister, ClientTypesOK
    <3>2. ClientTypesOK' /\ \A d \in Client : Untouched(d)
      BY <1>0, <1>3, <2>0, <3>1 DEF ClientTypesOK, Untouched
    <3> QED BY <1>0, <1>2, <3>2, ClientKept, OneClient
  <2> QED BY <2>1, <2>2
<1> QED BY <1>4, <1>5

\* What is before another message is so when the first one is read.
LEMMA EarlierTail ==
    ASSUME NEW S, NEW q \in Seq(S), q # <<>>, NEW i \in DOMAIN Tail(q),
           NEW j \in DOMAIN q, j < i + 1, q[j] # Head(q)
    PROVE  \E k \in DOMAIN Tail(q) : k < i /\ Tail(q)[k] = q[j]
<1>1. j # 1 /\ j \in Nat /\ i \in Nat
  BY Tails
<1>2. j - 1 \in DOMAIN Tail(q) /\ Tail(q)[j - 1] = q[j]
  BY <1>1, Tails
<1> QED BY <1>1, <1>2

LEMMA ClientReadsOK == ASSUME IInv, NEW c \in Client, ClientReads(c) PROVE IInv'
<1> DEFINE q == inbox[c]
           m == Head(q)
<1>0. ClientTypesOK /\ CheckTypesOK /\ ClientOK(c) /\ status' = status /\ CheckTypesOK'
      /\ UNCHANGED <<conn, up, knows>> /\ q # <<>> /\ TypeOK
  BY Parts, Unfaulty DEF IInv, ClientReads, clockVars
<1>1. q \in Seq(Replied) /\ outbox[c] \in Seq(Asked) /\ m \in Replied /\ Tail(q) \in Seq(Replied)
  BY <1>0, Tails DEF ClientTypesOK
<1>2. m.command = "HELP" \/ m.command = "READY" \/ m \in Messages
  BY <1>1, Greets DEF Replied
<1>3. inbox' \in [Client -> Seq(Replied)] /\ inbox'[c] = Tail(q)
      /\ \A d \in Client : d # c => inbox'[d] = inbox[d]
  BY <1>0, <1>1 DEF ClientReads, ClientTypesOK
<1>4. /\ heard' \in [Client -> Messages \cup {Nothing}]
      /\ heard'[c] = (IF m.command \in Clock THEN m ELSE heard[c])
      /\ \A d \in Client : d # c => heard'[d] = heard[d]
  BY <1>0, <1>1, Clocks DEF ClientReads, ClientTypesOK
<1>5. ASSUME NEW r \in Seq(Asked), outbox' = [outbox EXCEPT ![c] = r], ClientOK(c)' PROVE IInv'
  <2>1. outbox' \in [Client -> Seq(Asked)] /\ \A d \in Client : d # c => outbox'[d] = outbox[d]
    BY <1>0, <1>5 DEF ClientTypesOK
  <2>2. ClientTypesOK'
    BY <1>0, <1>3, <1>4, <2>1 DEF ClientTypesOK
  <2>3. \A d \in Client : d # c => Untouched(d)
    BY <1>0, <1>3, <1>4, <2>1 DEF Untouched
  <2> QED BY <1>0, <1>5, <2>2, <2>3, OneClient
<1>6. c \in up /\ CommandsFirst(c) /\ Off(c)'
  BY <1>0 DEF ClientOK, Off
<1>7. KnowsStatus(c) => KnowsStatus(c)'
  <2>1. Message(status).command \in Clock
    BY <1>0, ClientTypes
  <2>2. LastIs(q, heard[c], Message(status)) => LastIs(Tail(q), heard'[c], Message(status))
    BY <1>0, <1>1, <1>4, <2>1, LastRead
  <2> QED BY <1>0, <1>3, <2>2 DEF KnowsStatus
\* Which READY may still be on its way.
<1>8. ASSUME m.command # "HELP", NEW i \in DOMAIN Tail(q), Tail(q)[i].command = "READY",
             knows[c] # Commands[c], ~Has(outbox[c], "COMMANDS")
      PROVE  \E k \in DOMAIN Tail(q) : k < i /\ Tail(q)[k].command = "HELP"
  <2>1. i + 1 \in DOMAIN q /\ q[i + 1] = Tail(q)[i]
    BY <1>0, <1>1, Tails
  <2>2. PICK j \in DOMAIN q : j < i + 1 /\ q[j].command = "HELP"
    BY <1>6, <1>8, <2>1 DEF CommandsFirst
  <2>3. q[j] # m
    BY <1>8, <2>2
  <2> QED BY <1>0, <1>1, <2>2, <2>3, EarlierTail
<1>9. CASE m.command = "HELP"
  <2>1. outbox' = [outbox EXCEPT ![c] = outbox[c] \o <<"COMMANDS">>] /\ "COMMANDS" \in Asked
    BY <1>9 DEF ClientReads, Response, Asked
  <2> DEFINE r == Append(outbox[c], "COMMANDS")
  <2>2. r \in Seq(Asked) /\ outbox' = [outbox EXCEPT ![c] = r] /\ outbox'[c] = r
    <3>1. r \in Seq(Asked) /\ outbox[c] \o <<"COMMANDS">> = r
      BY <1>1, <2>1, Appends
    <3>2. outbox' = [outbox EXCEPT ![c] = r]
      BY <2>1, <3>1
    <3>3. outbox'[c] = r
      BY <1>0, <3>2 DEF ClientTypesOK
    <3> QED BY <3>1, <3>2, <3>3
  <2>3. \A w : Has(outbox[c], w) => Has(outbox'[c], w)
    BY <1>1, <2>1, <2>2, HasAppended
  <2>4. Has(outbox'[c], "COMMANDS")
    BY <1>1, <2>1, <2>2, HasAppended
  <2>5. ASSUME NEW i \in DOMAIN r, r[i] = "CLOCK_STATUS"
        PROVE  \/ knows[c] = Commands[c]
               \/ \E j \in DOMAIN r : j < i /\ r[j] = "COMMANDS"
    <3>1. i \in DOMAIN outbox[c] /\ outbox[c][i] = "CLOCK_STATUS"
      BY <1>1, <2>1, <2>5, Appends
    <3>2. \A j \in DOMAIN outbox[c] : j \in DOMAIN r /\ r[j] = outbox[c][j]
      BY <1>1, <2>1, Appends
    <3> QED BY <1>6, <3>1, <3>2 DEF CommandsFirst
  <2>6. CommandsFirst(c)'
    BY <1>0, <1>6, <2>2, <2>4, <2>5 DEF CommandsFirst
  <2>7. HasCmd(q, "READY") => HasCmd(Tail(q), "READY")
    BY <1>0, <1>1, <1>9, CmdTail
  <2>8. Asking(c) => Asking(c)'
    BY <1>3, <2>3, <2>7 DEF Asking
  <2>9. ClientOK(c)'
    BY <1>0, <1>6, <1>7, <2>6, <2>8 DEF ClientOK
  <2> QED BY <1>5, <2>2, <2>9
<1>10. CASE m.command = "READY"
  <2>1. outbox' = [outbox EXCEPT ![c] = outbox[c] \o <<"CLOCK_STATUS">>] /\ "CLOCK_STATUS" \in Asked
    BY <1>10 DEF ClientReads, Response, Asked
  <2> DEFINE r == Append(outbox[c], "CLOCK_STATUS")
  <2>2. r \in Seq(Asked) /\ outbox' = [outbox EXCEPT ![c] = r] /\ outbox'[c] = r
    <3>1. r \in Seq(Asked) /\ outbox[c] \o <<"CLOCK_STATUS">> = r
      BY <1>1, <2>1, Appends
    <3>2. outbox' = [outbox EXCEPT ![c] = r]
      BY <2>1, <3>1
    <3>3. outbox'[c] = r
      BY <1>0, <3>2 DEF ClientTypesOK
    <3> QED BY <3>1, <3>2, <3>3
  <2>3. Has(outbox'[c], "CLOCK_STATUS") /\ (Has(outbox[c], "COMMANDS") => Has(outbox'[c], "COMMANDS"))
    BY <1>1, <2>1, <2>2, HasAppended
  \* It comes first, so that no HELP can be before it.
  <2>4. knows[c] = Commands[c] \/ Has(outbox[c], "COMMANDS")
    <3>1. 1 \in DOMAIN q /\ q[1] = m /\ DOMAIN q \subseteq Nat /\ \A j \in DOMAIN q : ~(j < 1)
      BY <1>0, <1>1, Tails
    <3> QED BY <1>6, <1>10, <3>1 DEF CommandsFirst
  <2>5. ASSUME NEW i \in DOMAIN r, r[i] = "CLOCK_STATUS"
        PROVE  \/ knows[c] = Commands[c]
               \/ \E j \in DOMAIN r : j < i /\ r[j] = "COMMANDS"
    <3>0. \A j \in DOMAIN outbox[c] : j \in DOMAIN r /\ r[j] = outbox[c][j] /\ j < Len(outbox[c]) + 1
      BY <1>1, <2>1, Appends
    <3>1. CASE i \in DOMAIN outbox[c]
      BY <1>6, <2>5, <3>0, <3>1 DEF CommandsFirst
    <3>2. CASE i = Len(outbox[c]) + 1
      BY <2>4, <3>0, <3>2 DEF Has
    <3> QED BY <1>1, <2>1, <3>1, <3>2, Appends
  <2>6. CommandsFirst(c)'
    BY <1>0, <1>3, <1>6, <1>8, <1>10, <2>2, <2>3, <2>5 DEF CommandsFirst
  <2>7. Asking(c)'
    BY <2>3 DEF Asking
  <2>8. ClientOK(c)'
    BY <1>6, <2>6, <2>7 DEF ClientOK
  <2> QED BY <1>5, <2>2, <2>8
<1>11. CASE m \in Messages
  <2>1. m.command # "HELP" /\ m.command # "READY"
    BY <1>11, Clocks
  <2>2. outbox' = [outbox EXCEPT ![c] = outbox[c] \o <<>>]
    BY <2>1 DEF ClientReads, Response
  <2>3. outbox' = [outbox EXCEPT ![c] = outbox[c]] /\ outbox'[c] = outbox[c]
    BY <1>0, <1>1, <2>2 DEF ClientTypesOK
  <2>4. CommandsFirst(c)'
    BY <1>0, <1>3, <1>6, <1>8, <2>1, <2>3 DEF CommandsFirst
  <2>5. HasCmd(q, "READY") => HasCmd(Tail(q), "READY")
    BY <1>0, <1>1, <2>1, CmdTail
  <2>6. Asking(c) => Asking(c)'
    BY <1>3, <2>3, <2>5 DEF Asking
  <2>7. ClientOK(c)'
    BY <1>0, <1>6, <1>7, <2>4, <2>6 DEF ClientOK
  <2> QED BY <1>1, <1>5, <2>3, <2>7
<1> QED BY <1>2, <1>9, <1>10, <1>11

\* The daemon reads a word; which questions were asked after the commands.
LEMMA WordRead ==
    ASSUME NEW c \in Client, outbox[c] \in Seq(Asked), outbox[c] # <<>>, CommandsFirst(c),
           Head(outbox[c]) # "COMMANDS", NEW i \in DOMAIN Tail(outbox[c]),
           Tail(outbox[c])[i] = "CLOCK_STATUS"
    PROVE  \/ knows[c] = Commands[c]
           \/ \E j \in DOMAIN Tail(outbox[c]) : j < i /\ Tail(outbox[c])[j] = "COMMANDS"
<1>1. i + 1 \in DOMAIN outbox[c] /\ outbox[c][i + 1] = "CLOCK_STATUS"
  BY Tails
<1>2. CASE knows[c] # Commands[c]
  <2>1. PICK j \in DOMAIN outbox[c] : j < i + 1 /\ outbox[c][j] = "COMMANDS"
    BY <1>1, <1>2 DEF CommandsFirst
  <2> QED BY <2>1, EarlierTail
<1> QED BY <1>2

\* The replies to REGISTER.
LEMMA Greeted ==
    ASSUME NEW c \in Client, TypeOK, ClientOK(c), c \in up, c \in up',
           outbox[c] # <<>>, Head(outbox[c]) = "REGISTER", outbox'[c] = Tail(outbox[c]),
           inbox'[c] = inbox[c] \o Greeting, knows'[c] = knows[c]
    PROVE  ClientOK(c)' /\ inbox'[c] \in Seq(Replied)
<1> DEFINE q == inbox[c]
           a == Greeting[1]
           b == Greeting[2]
           qa == Append(q, a)
           qb == Append(qa, b)
<1>0. q \in Seq(Replied) /\ outbox[c] \in Seq(Asked) /\ a \in Replied /\ b \in Replied
      /\ a.command = "HELP" /\ b.command = "READY" /\ a.command # "READY"
  BY ClientTypes, Greets
<1>1. qa \in Seq(Replied)
  BY <1>0, Appends
<1>2. qb \in Seq(Replied)
  BY <1>0, <1>1, Appends
<1>3. inbox'[c] = qb
  <2>1. Greeting = <<a, b>>
    BY Greets
  <2>2. <<a, b>> = <<a>> \o <<b>>
    OBVIOUS
  <2>3. q \o (<<a>> \o <<b>>) = (q \o <<a>>) \o <<b>>
    <3>1. <<a>> \in Seq(Replied) /\ <<b>> \in Seq(Replied)
      BY <1>0
    <3> QED BY <1>0, <3>1, ConcatAssociative
  <2>4. q \o <<a>> = qa
    BY <1>0, Appends
  <2>5. qa \o <<b>> = qb
    BY <1>0, <1>1, Appends
  <2>6. inbox'[c] = q \o <<a, b>>
    BY <2>1
  <2> HIDE DEF a, b
  <2> QED BY <2>2, <2>3, <2>4, <2>5, <2>6
<1>4. HasCmd(qb, "READY")
  BY <1>0, <1>1, CmdAppended
<1>5. ASSUME NEW i \in DOMAIN qb, qb[i].command = "READY"
      PROVE  \/ knows'[c] = Commands[c]
             \/ Has(outbox'[c], "COMMANDS")
             \/ \E j \in DOMAIN qb : j < i /\ qb[j].command = "HELP"
  <2>1. \A j \in DOMAIN q : j \in DOMAIN qa /\ qa[j] = q[j]
    BY <1>0, Appends
  <2>2. \A j \in DOMAIN qa : j \in DOMAIN qb /\ qb[j] = qa[j] /\ j < Len(qa) + 1
    BY <1>0, <1>1, Appends
  <2>3. Len(q) + 1 \in DOMAIN qa /\ qa[Len(q) + 1] = a
    BY <1>0, Appends
  <2>4. CASE i = Len(qa) + 1
    BY <1>0, <2>2, <2>3, <2>4
  <2>5. CASE i \in DOMAIN qa
    <3>1. i \in DOMAIN q /\ q[i].command = "READY"
      BY <1>0, <1>5, <2>2, <2>5, Appends
    <3>2. Has(outbox[c], "COMMANDS") => Has(outbox'[c], "COMMANDS")
      <4>1. Head(outbox[c]) # "COMMANDS"
        OBVIOUS
      <4> QED BY <1>0, <4>1, HasTail
    <3>3. \A j \in DOMAIN q : j \in DOMAIN qb /\ qb[j] = q[j]
      BY <2>1, <2>2
    <3> QED BY <3>1, <3>2, <3>3 DEF ClientOK, CommandsFirst
  <2> QED BY <1>0, <1>1, <2>4, <2>5, Appends
<1>6. ASSUME NEW i \in DOMAIN outbox'[c], outbox'[c][i] = "CLOCK_STATUS"
      PROVE  \/ knows'[c] = Commands[c]
             \/ \E j \in DOMAIN outbox'[c] : j < i /\ outbox'[c][j] = "COMMANDS"
  <2>1. Head(outbox[c]) # "COMMANDS"
    OBVIOUS
  <2> QED BY <1>0, <1>6, <2>1, WordRead DEF ClientOK
<1>7. CommandsFirst(c)'
  BY <1>3, <1>5, <1>6 DEF ClientOK, CommandsFirst
<1>8. Off(c)'
  BY DEF ClientOK, Off
<1>9. Asking(c)'
  BY <1>3, <1>4 DEF Asking
<1> QED BY <1>2, <1>3, <1>7, <1>8, <1>9 DEF ClientOK

\* COMMANDS.
LEMMA CommandsRead ==
    ASSUME NEW c \in Client, TypeOK, ClientOK(c), c \in up, c \in up', status' = status,
           outbox[c] # <<>>, Head(outbox[c]) = "COMMANDS", outbox'[c] = Tail(outbox[c]),
           inbox'[c] = inbox[c], knows'[c] = Commands[c], heard'[c] = heard[c]
    PROVE  ClientOK(c)'
<1>0. outbox[c] \in Seq(Asked)
  BY ClientTypes
<1>1. CommandsFirst(c)' /\ Off(c)'
  BY DEF ClientOK, CommandsFirst, Off
<1>2. Has(outbox[c], "REGISTER") => Has(outbox'[c], "REGISTER")
  <2>1. Head(outbox[c]) # "REGISTER"
    OBVIOUS
  <2> QED BY <1>0, <2>1, HasTail
<1>3. Has(outbox[c], "CLOCK_STATUS") => Has(outbox'[c], "CLOCK_STATUS")
  <2>1. Head(outbox[c]) # "CLOCK_STATUS"
    OBVIOUS
  <2> QED BY <1>0, <2>1, HasTail
<1>4. (Asking(c) => Asking(c)') /\ (KnowsStatus(c) => KnowsStatus(c)')
  BY <1>2, <1>3 DEF Asking, KnowsStatus
<1> QED BY <1>1, <1>4 DEF ClientOK

\* CLOCK_STATUS, which comes after the commands.
LEMMA StatusAsked ==
    ASSUME NEW c \in Client, TypeOK, ClientOK(c), c \in up, c \in up', status' = status,
           outbox[c] # <<>>, Head(outbox[c]) = "CLOCK_STATUS", outbox'[c] = Tail(outbox[c]),
           inbox' = Told({c}, status), knows'[c] = knows[c], heard'[c] = heard[c]
    PROVE  ClientOK(c)'
<1>0. outbox[c] \in Seq(Asked) /\ inbox[c] \in Seq(Replied) /\ Message(status) \in Replied
      /\ Message(status).command \in Clock
  BY ClientTypes
<1>1. knows[c] = Commands[c]
  <2>1. 1 \in DOMAIN outbox[c] /\ outbox[c][1] = "CLOCK_STATUS" /\ DOMAIN outbox[c] \subseteq Nat
        /\ \A j \in DOMAIN outbox[c] : ~(j < 1)
    BY <1>0, Tails
  <2> QED BY <2>1 DEF ClientOK, CommandsFirst
<1>2. CommandsFirst(c)' /\ Off(c)'
  BY <1>1 DEF ClientOK, CommandsFirst, Off
<1>3. Message(status).command \in Commands[c] => inbox'[c] = Append(inbox[c], Message(status))
  BY <1>1 DEF Told
<1>4. KnowsStatus(c)'
  BY <1>0, <1>1, <1>3, LastAppended DEF KnowsStatus
<1> QED BY <1>2, <1>4 DEF ClientOK

\* What the daemon does with each message, in one place.
LEMMA DaemonRead ==
    ASSUME NEW c \in Client, DaemonReads(c)
    PROVE  LET m == Head(outbox[c])
           IN  /\ outbox[c] # <<>>
               /\ UNCHANGED <<clockVars, conn, heard, faults>>
               /\ Kind(c) = "udp" => UNCHANGED <<up, knows, inbox>>
               /\ Kind(c) = "udp" \/ m # "UNREGISTER" =>
                     outbox' = [outbox EXCEPT ![c] = Tail(@)] /\ up' = up
               /\ Kind(c) # "udp" =>
                     /\ m = "UNREGISTER" => Cut({c}) /\ inbox' = [inbox EXCEPT ![c] = <<>>]
                     /\ m = "REGISTER" => inbox' = [inbox EXCEPT ![c] = @ \o Greeting] /\ knows' = knows
                     /\ m = "COMMANDS" => inbox' = inbox /\ knows' = [knows EXCEPT ![c] = Commands[c]]
                     /\ m = "CLOCK_STATUS" => inbox' = Told({c}, status) /\ knows' = knows
BY DEF DaemonReads, IgnoreUDP, MsgRegister, MsgCommands, MsgClockStatus, MsgUnregister,
       Reads, Taken

LEMMA DaemonReadsOK == ASSUME IInv, NEW c \in Client, DaemonReads(c) PROVE IInv'
<1> DEFINE m == Head(outbox[c])
<1>0. ClientTypesOK /\ CheckTypesOK /\ ClientOK(c) /\ status' = status /\ CheckTypesOK'
      /\ conn' = conn /\ heard' = heard /\ outbox[c] # <<>> /\ TypeOK
  BY Parts, Unfaulty, DaemonRead DEF IInv, clockVars
<1>1. outbox[c] \in Seq(Asked) /\ inbox[c] \in Seq(Replied) /\ Tail(outbox[c]) \in Seq(Asked)
      /\ m \in Asked /\ Message(status) \in Replied
  BY <1>0, Tails, ClientTypes
<1>2. ASSUME outbox' = [outbox EXCEPT ![c] = Tail(@)]
      PROVE  outbox' \in [Client -> Seq(Asked)] /\ outbox'[c] = Tail(outbox[c])
             /\ \A d \in Client : d # c => outbox'[d] = outbox[d]
  BY <1>0, <1>1, <1>2 DEF ClientTypesOK
<1>3. CASE Kind(c) = "udp"
  <2>1. outbox' = [outbox EXCEPT ![c] = Tail(@)] /\ UNCHANGED <<up, knows, inbox>>
    BY <1>3, DaemonRead
  <2>2. ClientTypesOK'
    BY <1>0, <1>2, <2>1 DEF ClientTypesOK
  <2>3. c \notin up
    BY <1>0, <1>3 DEF ClientOK, Off, Answers
  <2>4. ClientOK(c)'
    BY <1>0, <1>3, <2>1, <2>3 DEF ClientOK, Off
  <2>5. \A d \in Client : d # c => Untouched(d)
    BY <1>0, <1>2, <2>1 DEF Untouched
  <2> QED BY <1>0, <2>2, <2>4, <2>5, OneClient
<1>4. CASE Kind(c) # "udp" /\ m = "UNREGISTER"
  <2>1. Cut({c}) /\ {c} \in SUBSET Client
    BY <1>4, DaemonRead
  <2>2. inbox' = [d \in Client |-> IF d \in {c} THEN <<>> ELSE inbox[d]]
    BY <1>0, <1>4, DaemonRead DEF ClientTypesOK
  <2>3. conn' \in [Client -> {"none", "made", "leaving"}]
    BY <1>0 DEF ClientTypesOK
  <2>4. ClientTypesOK' /\ \A d \in Client : ClientOK(d)'
    BY <1>0, <2>1, <2>2, <2>3, Severed
  <2> QED BY <1>0, <2>4, Parts DEF IInv
<1>5. CASE Kind(c) # "udp" /\ m # "UNREGISTER"
  <2>0. outbox' = [outbox EXCEPT ![c] = Tail(@)] /\ up' = up
    BY <1>5, DaemonRead
  <2>1. c \in up /\ c \in up' /\ outbox'[c] = Tail(outbox[c])
    BY <1>0, <1>2, <1>5, <2>0 DEF ClientOK, Off
  \* What is left is that the client is all right, and that the others are not concerned.
  <2>2. ASSUME ClientOK(c)', inbox' \in [Client -> Seq(Replied)],
               knows' \in [Client -> SUBSET Clock],
               \A d \in Client : d # c => inbox'[d] = inbox[d] /\ knows'[d] = knows[d]
        PROVE  IInv'
    <3>1. ClientTypesOK'
      BY <1>0, <1>2, <2>0, <2>2 DEF ClientTypesOK
    <3>2. \A d \in Client : d # c => Untouched(d)
      BY <1>0, <1>2, <2>0, <2>2 DEF Untouched
    <3> QED BY <1>0, <2>2, <3>1, <3>2, OneClient
  <2>3. CASE m = "REGISTER"
    <3>1. inbox' = [inbox EXCEPT ![c] = @ \o Greeting] /\ knows' = knows
      BY <1>5, <2>3, DaemonRead
    <3>2. inbox'[c] = inbox[c] \o Greeting /\ \A d \in Client : d # c => inbox'[d] = inbox[d]
      BY <1>0, <3>1 DEF ClientTypesOK
    <3>3. ClientOK(c)' /\ inbox'[c] \in Seq(Replied)
      BY <1>0, <2>1, <2>3, <3>1, <3>2, Greeted
    <3>4. inbox' \in [Client -> Seq(Replied)]
      BY <1>0, <3>1, <3>2, <3>3 DEF ClientTypesOK
    <3> QED BY <1>0, <2>2, <3>1, <3>2, <3>3, <3>4 DEF ClientTypesOK
  <2>4. CASE m = "COMMANDS"
    <3>1. inbox' = inbox /\ knows' = [knows EXCEPT ![c] = Commands[c]]
      BY <1>5, <2>4, DaemonRead
    <3>2. knows'[c] = Commands[c] /\ knows' \in [Client -> SUBSET Clock]
          /\ \A d \in Client : d # c => knows'[d] = knows[d]
      BY <1>0, <3>1, CommandsAssumption DEF ClientTypesOK
    <3>3. ClientOK(c)'
      BY <1>0, <2>1, <2>4, <3>1, <3>2, CommandsRead
    <3> QED BY <1>0, <2>2, <3>1, <3>2, <3>3 DEF ClientTypesOK
  <2>5. CASE m = "CLOCK_STATUS"
    <3>1. inbox' = Told({c}, status) /\ knows' = knows
      BY <1>5, <2>5, DaemonRead
    <3>2. ClientOK(c)'
      BY <1>0, <2>1, <2>5, <3>1, StatusAsked
    <3>3. \A d \in Client : d # c => inbox'[d] = inbox[d]
      BY <3>1 DEF Told
    <3>4. \A d \in Client : inbox[d] \in Seq(Replied) /\ Append(inbox[d], Message(status)) \in Seq(Replied)
      BY <1>0, <1>1, Appends DEF ClientTypesOK
    <3>5. inbox' \in [Client -> Seq(Replied)]
      BY <3>1, <3>4 DEF Told
    <3> QED BY <1>0, <2>2, <3>1, <3>2, <3>3, <3>5 DEF ClientTypesOK
  <2> QED BY <1>1, <1>5, <2>3, <2>4, <2>5 DEF Asked
<1> QED BY <1>3, <1>4, <1>5

-----------------------------------------------------------------------------
(* The theorems.                                                           *)

LEMMA Initially == Init => IInv
<1> SUFFICES ASSUME Init PROVE IInv
  OBVIOUS
<1>1. TypeOK
  BY BoundAssumption DEF Init, TypeOK, Statuses
<1>2. \A c \in Client : ClientOK(c)
  BY DEF Init, ClientOK, Off
<1> QED BY <1>1, <1>2 DEF IInv

LEMMA Inductive == IInv /\ [Next]_vars => IInv'
<1> SUFFICES ASSUME IInv, [Next]_vars PROVE IInv'
  OBVIOUS
<1>1. CASE UNCHANGED vars
  <2>1. ClientTypesOK' /\ CheckTypesOK'
    BY <1>1, Parts DEF IInv, vars, clockVars, clientVars, ClientTypesOK, CheckTypesOK
  <2>2. \A c \in Client : Untouched(c) /\ status' = status
    BY <1>1 DEF vars, clockVars, clientVars, Untouched
  <2> QED BY <2>1, <2>2, ClientKept, Parts DEF IInv
<1>2. CASE Next
  BY <1>2, ProcessTimeoutOK, ProcessExitedOK, StartOK, ConnectedOK, ClientReadsOK,
     DaemonReadsOK, UnregisterOK, BreakOK, RestartOK, InstallOK DEF Next
<1> QED BY <1>1, <1>2

LEMMA Invariance == Spec => []IInv
BY Initially, Inductive, PTL DEF Spec

\* stable_clock starts no second child while one runs, and every connection,
\* message and status of the clock is one the code has.
THEOREM TypeCorrect == Spec => []TypeOK
<1>1. IInv => TypeOK
  BY DEF IInv
<1> QED BY <1>1, Invariance, PTL

LEMMA Informed == IInv => ClientInformed
<1> SUFFICES ASSUME IInv, NEW c \in Client, Settled(c), ServedLocally(c),
                    Message(status).command \in Commands[c]
             PROVE  heard[c] = Message(status)
  BY DEF ClientInformed
<1>1. ClientOK(c) /\ c \in up /\ inbox[c] = <<>> /\ outbox[c] = <<>>
  BY DEF IInv, Settled
<1>2. ~Asking(c)
  BY <1>1 DEF Asking, Has, HasCmd
<1>3. LastIs(inbox[c], heard[c], Message(status))
  BY <1>1, <1>2 DEF ClientOK, KnowsStatus
<1> QED BY <1>1, <1>3 DEF LastIs

\* However clients connect, leave, break and register again while the status of
\* the clock changes, a local client with nothing on its way was last told what
\* send_clock_status() sends for the status the daemon has.
THEOREM ClientsTold == Spec => []ClientInformed
BY Informed, Invariance, PTL

-----------------------------------------------------------------------------
(* How the conversation with a client comes to its end. EventuallyInformed is *)
(* about fairness; this is what it rests on.                                  *)

\* A message weighs one more than the messages it may be answered with.
Asks == [w \in Asked |-> IF w = "REGISTER" THEN 6 ELSE IF w = "CLOCK_STATUS" THEN 2 ELSE 1]
Says == [m \in Replied |-> IF m.command = "READY" THEN 3 ELSE IF m.command = "HELP" THEN 2 ELSE 1]

\* The weight of a queue, and of what is on its way to and from a client.
Tickets(q, f) == {p \in (DOMAIN q) \X (1..6) : p[2] <= f[q[p[1]]]}
Weight(q, f) == Cardinality(Tickets(q, f))
Pending(c) == Weight(outbox[c], Asks) + Weight(inbox[c], Says)

\* A local client that stays connects, has something on its way or was told.
Attended(c) == conn[c] = "made" /\ ServedLocally(c) /\ Message(status).command \in Commands[c] =>
    \/ c \notin up /\ Answers(c)
    \/ Pending(c) > 0
    \/ heard[c] = Message(status)

\* Each read lessens what is on its way to and from the client, and only a change of
\* the status, a new connection or a client that leaves adds to it.
Talking(c) ==
    /\ ClientReads(c) \/ DaemonReads(c) => Pending(c)' < Pending(c)
    /\ \/ Pending(c)' <= Pending(c)
       \/ status' # status \/ Start(c) \/ Connected(c)
       \/ \E quitting \in BOOLEAN : Unregister(c, quitting)

LEMMA Weights ==
    ASSUME NEW S, NEW f \in [S -> 1..6], NEW q \in Seq(S)
    PROVE  IsFiniteSet(Tickets(q, f)) /\ Weight(q, f) \in Nat /\ (q # <<>> => Weight(q, f) > 0)
<1>1. Len(q) \in Nat /\ DOMAIN q = 1..Len(q)
  OBVIOUS
<1>2. IsFiniteSet(DOMAIN q) /\ IsFiniteSet(1..6)
  <2>1. \A n \in Nat : IsFiniteSet(1..n)
    BY FS_Interval
  <2> QED BY <1>1, <2>1
<1>3. IsFiniteSet((DOMAIN q) \X (1..6))
  BY <1>2, FS_Product
<1>4. IsFiniteSet(Tickets(q, f))
  BY <1>3, FS_Subset DEF Tickets
<1>5. ASSUME q # <<>> PROVE <<1, 1>> \in Tickets(q, f)
  <2>1. 1 \in DOMAIN q /\ q[1] \in S
    BY <1>5, Tails
  <2>2. f[q[1]] \in 1..6
    BY <2>1
  <2> QED BY <2>1, <2>2 DEF Tickets
<1>6. Weight(q, f) \in Nat /\ (Weight(q, f) = 0 <=> Tickets(q, f) = {})
  BY <1>4, FS_CardinalityType, FS_EmptySet DEF Weight
<1> QED BY <1>4, <1>5, <1>6

LEMMA NoWeight == \A f : Weight(<<>>, f) = 0
BY FS_EmptySet DEF Weight, Tickets

LEMMA OneMessage ==
    ASSUME NEW k, NEW w \in 1..6
    PROVE  IsFiniteSet({k} \X (1..w)) /\ Cardinality({k} \X (1..w)) = w
<1>1. IsFiniteSet({k}) /\ Cardinality({k}) = 1
  BY FS_Singleton
<1>2. IsFiniteSet(1..w) /\ Cardinality(1..w) = w
  <2>1. 1 \in Int /\ w \in Int /\ ~(1 > w) /\ w - 1 + 1 = w
    OBVIOUS
  <2>2. /\ IsFiniteSet(1..w)
        /\ Cardinality(1..w) = IF 1 > w THEN 0 ELSE w - 1 + 1
    BY <2>1, FS_Interval
  <2> QED BY <2>1, <2>2
<1>3. /\ IsFiniteSet({k} \X (1..w))
      /\ Cardinality({k} \X (1..w)) = Cardinality({k}) * Cardinality(1..w)
  BY <1>1, <1>2, FS_Product
<1>4. 1 * w = w
  OBVIOUS
<1> QED BY <1>1, <1>2, <1>3, <1>4

LEMMA WeightAppended ==
    ASSUME NEW S, NEW f \in [S -> 1..6], NEW q \in Seq(S), NEW m \in S
    PROVE  Weight(Append(q, m), f) = Weight(q, f) + f[m]
<1> DEFINE k == Len(q) + 1
           new == {k} \X (1..f[m])
<1>1. /\ Len(q) \in Nat /\ f[m] \in 1..6
      /\ DOMAIN q = 1..Len(q) /\ DOMAIN Append(q, m) = 1..k
      /\ \A i \in 1..Len(q) : Append(q, m)[i] = q[i]
      /\ Append(q, m)[k] = m
  OBVIOUS
<1>2. Tickets(Append(q, m), f) = Tickets(q, f) \cup new
  <2>1. ASSUME NEW i, NEW j PROVE <<i, j>> \in Tickets(Append(q, m), f)
                                    <=> <<i, j>> \in Tickets(q, f) \/ <<i, j>> \in new
    <3>1. <<i, j>> \in Tickets(Append(q, m), f)
            <=> i \in 1..k /\ j \in 1..6 /\ j <= f[Append(q, m)[i]]
      BY <1>1 DEF Tickets
    <3>2. <<i, j>> \in Tickets(q, f) <=> i \in 1..Len(q) /\ j \in 1..6 /\ j <= f[q[i]]
      BY <1>1 DEF Tickets
    <3>3. <<i, j>> \in new <=> i = k /\ j \in 1..6 /\ j <= f[m]
      BY <1>1
    <3>4. i \in 1..k <=> i \in 1..Len(q) \/ i = k
      BY <1>1
    <3> HIDE DEF k, new
    <3> QED BY <1>1, <3>1, <3>2, <3>3, <3>4
  <2>2. /\ Tickets(Append(q, m), f) \subseteq (1..k) \X (1..6)
        /\ Tickets(q, f) \subseteq (1..Len(q)) \X (1..6)
    BY <1>1 DEF Tickets
  <2> HIDE DEF k
  <2> QED BY <2>1, <2>2
<1>3. Tickets(q, f) \cap new = {}
  <2>1. ~(k \in 1..Len(q))
    BY <1>1
  <2> HIDE DEF k
  <2> QED BY <1>1, <2>1 DEF Tickets
<1>4. IsFiniteSet(Tickets(q, f)) /\ Weight(q, f) \in Nat
  BY Weights
<1>5. IsFiniteSet(new) /\ Cardinality(new) = f[m]
  BY <1>1, OneMessage
<1> HIDE DEF new
<1>6. Cardinality(Tickets(q, f) \cup new) = Cardinality(Tickets(q, f)) + Cardinality(new) - 0
  BY <1>3, <1>4, <1>5, FS_Union, FS_EmptySet
<1> QED BY <1>1, <1>2, <1>4, <1>5, <1>6 DEF Weight

LEMMA WeightTail ==
    ASSUME NEW S, NEW f \in [S -> 1..6], NEW q \in Seq(S), q # <<>>
    PROVE  Weight(q, f) = Weight(Tail(q), f) + f[Head(q)]
<1> DEFINE old == {1} \X (1..f[Head(q)])
           rest == {p \in Tickets(q, f) : p[1] # 1}
           shift == [p \in Tickets(Tail(q), f) |-> <<p[1] + 1, p[2]>>]
<1>1. /\ Len(q) \in Nat /\ Len(q) > 0 /\ Head(q) \in S /\ f[Head(q)] \in 1..6
      /\ DOMAIN q = 1..Len(q) /\ DOMAIN Tail(q) = 1..(Len(q) - 1) /\ Tail(q) \in Seq(S)
      /\ \A i \in 1..(Len(q) - 1) : Tail(q)[i] = q[i + 1]
      /\ Head(q) = q[1]
  OBVIOUS
<1>2. \A i, j : /\ <<i, j>> \in Tickets(q, f) <=> i \in 1..Len(q) /\ j \in 1..6 /\ j <= f[q[i]]
                /\ <<i, j>> \in Tickets(Tail(q), f)
                      <=> i \in 1..(Len(q) - 1) /\ j \in 1..6 /\ j <= f[q[i + 1]]
  BY <1>1 DEF Tickets
<1>3. /\ Tickets(q, f) \subseteq (1..Len(q)) \X (1..6)
      /\ Tickets(Tail(q), f) \subseteq (1..(Len(q) - 1)) \X (1..6)
  BY <1>1 DEF Tickets
<1>4. shift \in [Tickets(Tail(q), f) -> rest]
  <2>1. ASSUME NEW i, NEW j, <<i, j>> \in Tickets(Tail(q), f)
        PROVE  <<i + 1, j>> \in Tickets(q, f) /\ i + 1 # 1
    <3>1. i \in 1..(Len(q) - 1) /\ j \in 1..6 /\ j <= f[q[i + 1]]
      BY <1>2, <2>1
    <3>2. i + 1 \in 1..Len(q) /\ i + 1 # 1
      BY <1>1, <3>1
    <3> QED BY <1>2, <3>1, <3>2
  <2> QED BY <1>3, <2>1
<1>5. ASSUME NEW a \in Tickets(Tail(q), f), NEW b \in Tickets(Tail(q), f), shift[a] = shift[b]
      PROVE  a = b
  <2>1. a \in (1..(Len(q) - 1)) \X (1..6) /\ b \in (1..(Len(q) - 1)) \X (1..6)
    BY <1>3
  <2>2. a[1] + 1 = b[1] + 1 /\ a[2] = b[2]
    BY <1>5
  <2>3. a[1] = b[1]
    BY <1>1, <2>1, <2>2
  <2> QED BY <2>1, <2>2, <2>3
<1>6. ASSUME NEW t \in rest PROVE \E a \in Tickets(Tail(q), f) : shift[a] = t
  <2>1. PICK i, j : t = <<i, j>> /\ i \in 1..Len(q) /\ j \in 1..6 /\ j <= f[q[i]] /\ i # 1
    BY <1>2, <1>3
  <2>2. i - 1 \in 1..(Len(q) - 1) /\ (i - 1) + 1 = i
    BY <1>1, <2>1
  <2>3. <<i - 1, j>> \in Tickets(Tail(q), f)
    BY <1>2, <2>1, <2>2
  <2>4. shift[<<i - 1, j>>] = <<(i - 1) + 1, j>>
    BY <2>3
  <2> QED BY <2>1, <2>2, <2>3, <2>4
<1>7. IsFiniteSet(Tickets(Tail(q), f)) /\ Weight(Tail(q), f) \in Nat
  BY <1>1, Weights
<1>8. IsFiniteSet(rest) /\ Cardinality(rest) = Weight(Tail(q), f)
  <2>1. shift \in Bijection(Tickets(Tail(q), f), rest)
    <3> HIDE DEF shift, rest
    <3> QED BY <1>4, <1>5, <1>6, Fun_IsBij
  <2>2. ExistsBijection(Tickets(Tail(q), f), rest)
    BY <2>1, Fun_ExistsBij
  <2> HIDE DEF rest
  <2> QED BY <1>7, <2>2, FS_Bijection DEF Weight
<1>9. IsFiniteSet(old) /\ Cardinality(old) = f[Head(q)]
  BY <1>1, OneMessage
<1>10. Tickets(q, f) = rest \cup old
  <2>1. ASSUME NEW i, NEW j PROVE <<i, j>> \in Tickets(q, f) <=> <<i, j>> \in rest \/ <<i, j>> \in old
    <3>1. <<i, j>> \in old <=> i = 1 /\ j \in 1..6 /\ j <= f[q[1]]
      BY <1>1
    <3>2. 1 \in 1..Len(q)
      BY <1>1
    <3> QED BY <1>2, <3>1, <3>2
  <2>2. old \subseteq (1..Len(q)) \X (1..6)
    BY <1>1
  <2> QED BY <1>3, <2>1, <2>2
<1>11. rest \cap old = {}
  OBVIOUS
<1> HIDE DEF rest, old
<1>12. Cardinality(rest \cup old) = Cardinality(rest) + Cardinality(old) - 0
  BY <1>8, <1>9, <1>11, FS_Union, FS_EmptySet
<1> QED BY <1>1, <1>7, <1>8, <1>9, <1>10, <1>12 DEF Weight

LEMMA MessageWeights ==
    /\ Asks \in [Asked -> 1..6] /\ Says \in [Replied -> 1..6]
    /\ Asks["REGISTER"] = 6 /\ Asks["CLOCK_STATUS"] = 2 /\ Asks["COMMANDS"] = 1
    /\ Says[Greeting[1]] = 2 /\ Says[Greeting[2]] = 3
    /\ \A m \in Messages : Says[m] = 1
<1>1. Asks \in [Asked -> 1..6] /\ Says \in [Replied -> 1..6]
  BY DEF Asks, Says
<1>2. Asks["REGISTER"] = 6 /\ Asks["CLOCK_STATUS"] = 2 /\ Asks["COMMANDS"] = 1
  BY DEF Asks, Asked
<1>3. Says[Greeting[1]] = 2 /\ Says[Greeting[2]] = 3
  BY Greets DEF Says
<1>4. \A m \in Messages : m \in Replied /\ m.command # "READY" /\ m.command # "HELP"
  BY Clocks DEF Replied
<1>5. \A m \in Messages : Says[m] = 1
  BY <1>4 DEF Says
<1> QED BY <1>1, <1>2, <1>3, <1>5

LEMMA PendingParts ==
    ASSUME TypeOK, NEW c \in Client
    PROVE  /\ Weight(outbox[c], Asks) \in Nat /\ Weight(inbox[c], Says) \in Nat
           /\ Pending(c) = Weight(outbox[c], Asks) + Weight(inbox[c], Says)
           /\ Pending(c)' = Weight(outbox'[c], Asks) + Weight(inbox'[c], Says)
BY ClientTypes, MessageWeights, Weights DEF Pending

LEMMA ClientReadsLess == ASSUME TypeOK, NEW c \in Client, ClientReads(c) PROVE Pending(c)' < Pending(c)
<1> DEFINE m == Head(inbox[c])
<1>1. /\ inbox[c] # <<>> /\ inbox'[c] = Tail(inbox[c]) /\ outbox'[c] = outbox[c] \o Response(m)
      /\ outbox[c] \in Seq(Asked) /\ inbox[c] \in Seq(Replied) /\ m \in Replied
  BY ClientTypes, Tails DEF ClientReads, TypeOK
<1>2. Weight(inbox[c], Says) = Weight(inbox'[c], Says) + Says[m]
  BY <1>1, MessageWeights, WeightTail
<1>3. Weight(inbox'[c], Says) \in Nat /\ Weight(outbox'[c], Asks) < Weight(outbox[c], Asks) + Says[m]
  <2>0. Weight(inbox'[c], Says) \in Nat /\ Weight(outbox[c], Asks) \in Nat
    BY <1>1, Tails, Weights, MessageWeights
  <2>1. ASSUME NEW w \in Asked, Response(m) = <<w>>, Asks[w] < Says[m]
        PROVE  Weight(outbox'[c], Asks) < Weight(outbox[c], Asks) + Says[m]
    <3> HIDE DEF m
    <3>0. outbox[c] \o <<w>> = Append(outbox[c], w)
      BY <1>1, Appends
    <3>1. Weight(Append(outbox[c], w), Asks) = Weight(outbox[c], Asks) + Asks[w]
      <4>1. outbox[c] \in Seq(Asked) /\ Asks \in [Asked -> 1..6]
        BY <1>1, MessageWeights
      <4> QED BY <4>1, WeightAppended
    <3>2. Asks[w] \in 1..6 /\ Says[m] \in 1..6
      BY <1>1, MessageWeights
    <3>3. outbox'[c] = Append(outbox[c], w)
      <4>1. outbox'[c] = outbox[c] \o Response(m) /\ Response(m) = <<w>>
        BY <1>1, <2>1
      <4> QED BY <3>0, <4>1
    <3>4. Weight(outbox'[c], Asks) = Weight(outbox[c], Asks) + Asks[w]
      BY <3>1, <3>3
    <3> QED BY <2>0, <2>1, <3>2, <3>4
  <2>2. CASE m = Greeting[1]
    <3>1. Response(m) = <<"COMMANDS">>
      BY <2>2, Greets DEF Response
    <3> QED BY <2>0, <2>1, <2>2, <3>1, MessageWeights DEF Asked
  <2>3. CASE m = Greeting[2]
    <3>1. Response(m) = <<"CLOCK_STATUS">>
      BY <2>3, Greets DEF Response
    <3> QED BY <2>0, <2>1, <2>3, <3>1, MessageWeights DEF Asked
  <2>4. CASE m \in Messages
    <3>1. Response(m) = <<>>
      BY <2>4, Clocks DEF Response, Clock
    <3>2. outbox[c] \o <<>> = outbox[c]
      BY <1>1
    <3>3. outbox'[c] = outbox[c]
      BY <1>1, <3>1, <3>2
    <3> QED BY <2>0, <2>4, <3>3, MessageWeights
  <2> QED BY <1>1, <2>0, <2>2, <2>3, <2>4 DEF Replied
<1>4. Says[m] \in 1..6 /\ Weight(outbox[c], Asks) \in Nat /\ Weight(outbox'[c], Asks) \in Nat
  <2>1. Says[m] \in 1..6 /\ Weight(outbox[c], Asks) \in Nat
    BY <1>1, MessageWeights, Weights
  <2>2. <<>> \in Seq(Asked) /\ <<"COMMANDS">> \in Seq(Asked) /\ <<"CLOCK_STATUS">> \in Seq(Asked)
    BY DEF Asked
  <2>3. outbox[c] \o Response(m) \in Seq(Asked)
    <3>1. Response(m) \in {<<>>, <<"COMMANDS">>, <<"CLOCK_STATUS">>}
      BY DEF Response
    <3>2. Response(m) \in Seq(Asked)
      BY <2>2, <3>1
    <3> QED BY <1>1, <3>2
  <2>4. Weight(outbox'[c], Asks) \in Nat
    BY <1>1, <2>3, MessageWeights, Weights
  <2> QED BY <2>1, <2>4
<1> HIDE DEF m
<1> QED BY <1>2, <1>3, <1>4, PendingParts

LEMMA DaemonReadsLess == ASSUME TypeOK, NEW c \in Client, DaemonReads(c) PROVE Pending(c)' < Pending(c)
<1> DEFINE m == Head(outbox[c])
           out == Weight(Tail(outbox[c]), Asks)
           in == Weight(inbox[c], Says)
<1>1. /\ outbox[c] # <<>> /\ outbox[c] \in Seq(Asked) /\ inbox[c] \in Seq(Replied) /\ m \in Asked
      /\ Tail(outbox[c]) \in Seq(Asked)
  BY ClientTypes, Tails, DaemonRead
<1>2. /\ Weight(outbox[c], Asks) = out + Asks[m] /\ out \in Nat /\ in \in Nat /\ Asks[m] \in 1..6
      /\ Pending(c) = out + Asks[m] + in
  <2>1. Asks \in [Asked -> 1..6] /\ Says \in [Replied -> 1..6]
    BY MessageWeights
  <2>2. Weight(outbox[c], Asks) = out + Asks[m]
    BY <1>1, <2>1, WeightTail
  <2>3. out \in Nat /\ in \in Nat /\ Asks[m] \in 1..6
    BY <1>1, <2>1, Weights
  <2> QED BY <2>2, <2>3, PendingParts
<1>3. CASE Kind(c) = "udp"
  <2>1. outbox'[c] = Tail(outbox[c]) /\ inbox'[c] = inbox[c]
    BY <1>3, DaemonRead DEF TypeOK
  <2>2. Pending(c)' = out + in
    BY <2>1, PendingParts
  <2> HIDE DEF out, in, m
  <2> QED BY <1>2, <2>2
<1>4. CASE Kind(c) # "udp" /\ m = "UNREGISTER"
  <2>0. Cut({c}) /\ inbox' = [inbox EXCEPT ![c] = <<>>]
    BY <1>4, DaemonRead
  <2>1. outbox'[c] = <<>> /\ inbox'[c] = <<>>
    BY <2>0 DEF Cut, TypeOK
  <2>2. Pending(c)' = 0
    BY <2>1, NoWeight, PendingParts
  <2> QED BY <1>2, <2>2
<1>5. CASE Kind(c) # "udp" /\ m # "UNREGISTER"
  <2>1. outbox'[c] = Tail(outbox[c])
    BY <1>5, DaemonRead DEF TypeOK
  <2>2. Pending(c)' = out + Weight(inbox'[c], Says)
    BY <2>1, PendingParts
  <2>3. CASE m = "REGISTER"
    <3>1. inbox'[c] = inbox[c] \o Greeting
      BY <1>5, <2>3, DaemonRead DEF TypeOK
    <3>2. inbox[c] \o Greeting = Append(Append(inbox[c], Greeting[1]), Greeting[2])
      <4>1. /\ <<Greeting[1]>> \in Seq(Replied) /\ <<Greeting[2]>> \in Seq(Replied)
            /\ Greeting = <<Greeting[1]>> \o <<Greeting[2]>>
        BY Greets
      <4>2. inbox[c] \o (<<Greeting[1]>> \o <<Greeting[2]>>)
              = (inbox[c] \o <<Greeting[1]>>) \o <<Greeting[2]>>
        BY <1>1, <4>1, ConcatAssociative
      <4>3. inbox[c] \o Greeting = (inbox[c] \o <<Greeting[1]>>) \o <<Greeting[2]>>
        BY <4>1, <4>2
      <4> QED BY <1>1, <4>3, Appends, Greets
    <3>3. Append(inbox[c], Greeting[1]) \in Seq(Replied)
      BY <1>1, Appends, Greets
    <3>4. Weight(Append(inbox[c], Greeting[1]), Says) = in + Says[Greeting[1]]
      BY <1>1, WeightAppended, MessageWeights, Greets
    <3>5. Weight(inbox'[c], Says) = Weight(Append(inbox[c], Greeting[1]), Says) + Says[Greeting[2]]
      <4>1. Says \in [Replied -> 1..6] /\ Greeting[2] \in Replied
        BY MessageWeights, Greets
      <4>2. inbox'[c] = Append(Append(inbox[c], Greeting[1]), Greeting[2])
        BY <3>1, <3>2
      <4> HIDE DEF m, out, in
      <4> QED BY <3>3, <4>1, <4>2, WeightAppended
    <3> HIDE DEF out, in, m
    <3> QED BY <1>2, <2>2, <2>3, <3>4, <3>5, MessageWeights
  <2>4. CASE m = "COMMANDS"
    <3>1. inbox'[c] = inbox[c]
      BY <1>5, <2>4, DaemonRead
    <3>2. Pending(c)' = out + in
      BY <2>2, <3>1
    <3> HIDE DEF out, in, m
    <3> QED BY <1>2, <3>2
  <2>5. CASE m = "CLOCK_STATUS"
    <3>1. inbox' = Told({c}, status)
      BY <1>5, <2>5, DaemonRead
    <3>2. inbox'[c] = inbox[c] \/ inbox'[c] = Append(inbox[c], Message(status))
      BY <3>1 DEF Told
    <3>3. Message(status) \in Replied /\ Says[Message(status)] = 1
      BY ClientTypes, MessageWeights
    <3>4. Weight(Append(inbox[c], Message(status)), Says) = in + 1
      BY <1>1, <3>3, WeightAppended, MessageWeights
    <3>5. Pending(c)' = out + in \/ Pending(c)' = out + (in + 1)
      BY <2>2, <3>2, <3>4
    <3> HIDE DEF out, in, m
    <3> QED BY <1>2, <2>5, <3>5, MessageWeights
  <2> QED BY <1>1, <1>5, <2>3, <2>4, <2>5 DEF Asked
<1> QED BY <1>3, <1>4, <1>5

\* A step that adds nothing to what is on its way to and from c, or drops it.
Quiet(c) == outbox'[c] \in {outbox[c], <<>>} /\ inbox'[c] \in {inbox[c], <<>>}

LEMMA QuietLess == ASSUME TypeOK, NEW c \in Client, Quiet(c) PROVE Pending(c)' <= Pending(c)
<1>1. /\ outbox'[c] = outbox[c] \/ Weight(outbox'[c], Asks) = 0
      /\ inbox'[c] = inbox[c] \/ Weight(inbox'[c], Says) = 0
  BY NoWeight DEF Quiet
<1>2. Weight(outbox[c], Asks) \in Nat /\ Weight(inbox[c], Says) \in Nat
  BY PendingParts
<1>3. Weight(outbox'[c], Asks) \in Nat /\ Weight(outbox'[c], Asks) <= Weight(outbox[c], Asks)
  BY <1>1, <1>2
<1>4. Weight(inbox'[c], Says) \in Nat /\ Weight(inbox'[c], Says) <= Weight(inbox[c], Says)
  BY <1>1, <1>2
<1> QED BY <1>2, <1>3, <1>4, PendingParts

\* The steps of the other clients, and of the check while its result is the same.
LEMMA OthersQuiet ==
    ASSUME TypeOK, NEW c \in Client, NEW d \in Client, d # c,
           \/ Start(d) \/ Connected(d) \/ ClientReads(d) \/ DaemonReads(d)
           \/ \E quitting \in BOOLEAN : Unregister(d, quitting)
    PROVE  Quiet(c)
<1>1. CASE Start(d)
  BY <1>1 DEF Start, Quiet, TypeOK
<1>2. CASE Connected(d)
  BY <1>2 DEF Connected, Quiet, TypeOK
<1>3. CASE ClientReads(d)
  BY <1>3 DEF ClientReads, Quiet, TypeOK
<1>4. CASE DaemonReads(d)
  <2>0. outbox' = [outbox EXCEPT ![d] = Tail(@)] \/ Cut({d})
    <3>1. Head(outbox[d]) = "UNREGISTER" /\ Kind(d) # "udp" => Cut({d})
      BY <1>4, DaemonRead
    <3>2. Kind(d) = "udp" \/ Head(outbox[d]) # "UNREGISTER" => outbox' = [outbox EXCEPT ![d] = Tail(@)]
      BY <1>4, DaemonRead
    <3> QED BY <3>1, <3>2
  <2>1. outbox'[c] = outbox[c]
    BY <2>0 DEF Cut, TypeOK
  <2>2. CASE Kind(d) = "udp"
    BY <1>4, <2>1, <2>2, DaemonRead DEF Quiet
  <2>3. CASE Kind(d) # "udp" /\ Head(outbox[d]) = "UNREGISTER"
    BY <1>4, <2>1, <2>3, DaemonRead DEF Quiet, TypeOK
  <2>4. CASE Kind(d) # "udp" /\ Head(outbox[d]) = "REGISTER"
    BY <1>4, <2>1, <2>4, DaemonRead DEF Quiet, TypeOK
  <2>5. CASE Kind(d) # "udp" /\ Head(outbox[d]) = "COMMANDS"
    BY <1>4, <2>1, <2>5, DaemonRead DEF Quiet
  <2>6. CASE Kind(d) # "udp" /\ Head(outbox[d]) = "CLOCK_STATUS"
    <3>1. inbox' = Told({d}, status)
      BY <1>4, <2>6, DaemonRead
    <3>2. inbox'[c] = inbox[c]
      BY <3>1 DEF Told
    <3> QED BY <2>1, <3>2 DEF Quiet
  <2>7. Head(outbox[d]) \in Asked
    BY <1>4, ClientTypes, Tails, DaemonRead
  <2> QED BY <2>2, <2>3, <2>4, <2>5, <2>6, <2>7 DEF Asked
<1>5. ASSUME NEW quitting \in BOOLEAN, Unregister(d, quitting) PROVE Quiet(c)
  BY <1>5 DEF Unregister, Cut, Quiet, TypeOK
<1> QED BY <1>1, <1>2, <1>3, <1>4, <1>5

LEMMA SameQuiet ==
    ASSUME TypeOK, NEW c \in Client, status' = status,
           \/ ProcessTimeout \/ ProcessExited \/ Install \/ UNCHANGED vars
    PROVE  Quiet(c)
<1>1. CASE ProcessTimeout
  BY <1>1 DEF ProcessTimeout, StartNtpWait, StartTimedateWait, StartProcess, SetStatus, clientVars, Quiet
<1>2. CASE ProcessExited
  BY <1>2 DEF ProcessExited, SetStatus, clientVars, Quiet
<1>3. CASE Install
  BY <1>3 DEF Install, clientVars, Quiet
<1>4. CASE UNCHANGED vars
  BY <1>4 DEF vars, clientVars, Quiet
<1> QED BY <1>1, <1>2, <1>3, <1>4

LEMMA EachTalks == ASSUME IInv, [Next]_vars, NEW c \in Client PROVE Talking(c)
<1>0. TypeOK /\ TypeOK'
  BY Inductive DEF IInv
<1>1. Pending(c) \in Nat /\ Pending(c)' \in Nat
  <2>1. outbox'[c] \in Seq(Asked) /\ inbox'[c] \in Seq(Replied)
    BY <1>0 DEF TypeOK, Asked, Replied
  <2>2. Weight(outbox'[c], Asks) \in Nat /\ Weight(inbox'[c], Says) \in Nat
    BY <2>1, MessageWeights, Weights
  <2> QED BY <1>0, <2>2, PendingParts
<1>2. ASSUME NEW d \in Client, Break(d) PROVE Quiet(c)
  BY <1>0, <1>2 DEF Break, Cut, Quiet, TypeOK
<1>3. ClientReads(c) \/ DaemonReads(c) => Pending(c)' < Pending(c)
  BY <1>0, ClientReadsLess, DaemonReadsLess
<1>4. ASSUME ~(ClientReads(c) \/ DaemonReads(c)), status' = status, ~Start(c), ~Connected(c),
             ~(\E quitting \in BOOLEAN : Unregister(c, quitting))
      PROVE  Quiet(c)
  <2>1. CASE \E d \in Client : \/ Start(d) \/ Connected(d) \/ ClientReads(d) \/ DaemonReads(d)
                               \/ \E quitting \in BOOLEAN : Unregister(d, quitting)
    BY <1>0, <1>4, <2>1, OthersQuiet
  <2>2. CASE ProcessTimeout \/ ProcessExited \/ Install \/ UNCHANGED vars
    BY <1>0, <1>4, <2>2, SameQuiet
  <2>3. CASE Restart
    BY <2>3 DEF Restart, Cut, Quiet
  <2> QED BY <1>2, <2>1, <2>2, <2>3 DEF Next
<1>5. Quiet(c) => Pending(c)' <= Pending(c)
  BY <1>0, QuietLess
<1>6. Pending(c)' < Pending(c) => Pending(c)' <= Pending(c)
  BY <1>1
<1> QED BY <1>3, <1>4, <1>5, <1>6 DEF Talking

\* A client and the daemon say no more than they have to: each message read on the
\* way to or from a client takes from a number that only a change of the status, a
\* new connection or a client that leaves adds to. EventuallyInformed needs this
\* to be so: register_service(), HELP, READY, COMMANDS and CLOCK_STATUS lead to an end.
THEOREM TalkEnds == Spec => [][\A c \in Client : Talking(c)]_vars
<1>1. IInv /\ [Next]_vars => [\A c \in Client : Talking(c)]_vars
  BY EachTalks
<1> QED BY <1>1, Invariance, PTL DEF Spec

\* At no time is a local client that stays left without the status of the clock and
\* without anything to bring it: it was told, or there is a message on its way
\* to be read, or its connection is down and the daemon would take a new one.
THEOREM AlwaysAttended == Spec => [](\A c \in Client : Attended(c))
<1>1. IInv => \A c \in Client : Attended(c)
  <2> SUFFICES ASSUME IInv, NEW c \in Client, ServedLocally(c), Message(status).command \in Commands[c],
                      c \in up, ~(Pending(c) > 0)
               PROVE  heard[c] = Message(status)
    BY DEF Attended, ServedLocally, Answers
  <2>1. TypeOK /\ outbox[c] \in Seq(Asked) /\ inbox[c] \in Seq(Replied)
    BY ClientTypes DEF IInv
  <2>2. /\ Weight(outbox[c], Asks) \in Nat /\ Weight(inbox[c], Says) \in Nat
        /\ outbox[c] # <<>> => Weight(outbox[c], Asks) > 0
        /\ inbox[c] # <<>> => Weight(inbox[c], Says) > 0
    BY <2>1, MessageWeights, Weights
  <2>3. outbox[c] = <<>> /\ inbox[c] = <<>>
    BY <2>1, <2>2, PendingParts
  <2> QED BY <2>3, Informed DEF ClientInformed, Settled
<1> QED BY <1>1, Invariance, PTL

=============================================================================
