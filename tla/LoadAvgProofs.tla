----------------------------- MODULE LoadAvgProofs -----------------------------
(***************************************************************************)
(* Proofs about LoadAvg, for any number of computers, links, loads, broken *)
(* links, requests and crashes.                                            *)
(***************************************************************************)
EXTENDS LoadAvg, FiniteSetTheorems, WellFoundedInduction, TLAPS

Request == [cmd: {"REGISTER"}]
Report_ == [cmd: {"LOADAVG"}, avg: Levels, time: 0..MaxTime]
Word    == Request \cup Report_

\* What the argument needs of the types.
Types ==
    /\ time \in 0..MaxTime
    /\ load \in [Computer -> [now: Levels, changes: 0..MaxChanges]]
    /\ timer \in [Computer -> BOOLEAN]
    /\ wants \in [Computer -> SUBSET (Computer \cup Local)]
    /\ linked \subseteq Links
    /\ wire \in [Computer -> [Computer -> Seq(Word)]]

\* The inductive invariant.
IInv == Types /\ Registered

\* A request on its way from p to n, and what Registered says of the two.
Asks(q) == \E i \in DOMAIN q : q[i].cmd = "REGISTER"
RegisteredAt(n, p) == \/ p \in wants[n] /\ timer[n]
                      \/ Asks(wire[p][n])

-----------------------------------------------------------------------------
(* Messages on their way.                                                  *)

LEMMA LinkEnds ==
    ASSUME NEW l \in Links
    PROVE  l[1] \in Computer /\ l[2] \in Computer /\ l[1] # l[2] /\ l = <<l[1], l[2]>>
           /\ <<l[2], l[1]>> \notin Links
<1>1. \A k \in Links : k \in Computer \X Computer /\ k[1] < k[2]
  BY LinksAssumption
<1>2. l[1] \in Nat /\ l[2] \in Nat /\ l[1] < l[2] /\ l = <<l[1], l[2]>>
      /\ l[1] \in Computer /\ l[2] \in Computer
  BY <1>1, ComputerAssumption
<1>3. ASSUME <<l[2], l[1]>> \in Links PROVE FALSE
  <2>1. <<l[2], l[1]>>[1] < <<l[2], l[1]>>[2]
    BY <1>1, <1>3
  <2> QED BY <1>2, <2>1
<1> QED BY <1>2, <1>3

LEMMA AskingFirst ==
    ASSUME NEW q, q = <<[cmd |-> "REGISTER"]>>
    PROVE  q \in Seq(Word) /\ Asks(q)
<1>1. [cmd |-> "REGISTER"] \in Word
  BY DEF Word, Request
<1>2. q \in Seq(Word)
  BY <1>1
<1>3. 1 \in DOMAIN q /\ q[1].cmd = "REGISTER"
  OBVIOUS
<1> QED BY <1>2, <1>3 DEF Asks

LEMMA AppendKeeps ==
    ASSUME NEW q \in Seq(Word), NEW m \in Word
    PROVE  Append(q, m) \in Seq(Word) /\ (Asks(q) => Asks(Append(q, m)))
<1>1. Append(q, m) \in Seq(Word) /\ Len(Append(q, m)) = Len(q) + 1
      /\ \A i \in 1..Len(q) : Append(q, m)[i] = q[i]
  OBVIOUS
<1>2. DOMAIN q = 1..Len(q) /\ DOMAIN Append(q, m) = 1..(Len(q) + 1) /\ Len(q) \in Nat
  BY <1>1
<1> QED BY <1>1, <1>2 DEF Asks

LEMMA TailKeeps ==
    ASSUME NEW q \in Seq(Word), q # <<>>
    PROVE  Tail(q) \in Seq(Word) /\ (Asks(q) /\ Head(q).cmd # "REGISTER" => Asks(Tail(q)))
<1>1. Tail(q) \in Seq(Word) /\ Len(Tail(q)) = Len(q) - 1 /\ Len(q) \in Nat /\ Len(q) > 0
      /\ \A i \in 1..(Len(q) - 1) : Tail(q)[i] = q[i + 1]
  OBVIOUS
<1>2. ASSUME NEW i \in DOMAIN q, q[i].cmd = "REGISTER", Head(q).cmd # "REGISTER"
      PROVE  Asks(Tail(q))
  <2>1. i \in 1..Len(q) /\ i # 1
    BY <1>2
  <2>2. i - 1 \in 1..(Len(q) - 1) /\ (i - 1) + 1 = i
    BY <1>1, <2>1
  <2>3. Tail(q)[i - 1].cmd = "REGISTER" /\ i - 1 \in DOMAIN Tail(q)
    BY <1>1, <1>2, <2>2
  <2> QED BY <2>3 DEF Asks
<1> QED BY <1>1, <1>2 DEF Asks

\* What links, wires, registrations and timers a step may leave behind.
LEMMA Kept ==
    ASSUME IInv, linked' \subseteq linked,
           \A n, p \in Computer : p \in Peers(n)' =>
               /\ p \in wants[n] => p \in wants'[n] \/ Asks(wire'[p][n])
               /\ timer[n] => timer'[n]
               /\ Asks(wire[p][n]) => Asks(wire'[p][n]) \/ (p \in wants'[n] /\ timer'[n])
    PROVE  Registered'
<1> SUFFICES ASSUME NEW n \in Computer, NEW p \in Computer, p \in Peers(n)'
             PROVE  RegisteredAt(n, p)'
  BY DEF Registered, RegisteredAt, Asks
<1>1. p \in Peers(n)
  BY DEF Peers
<1>2. RegisteredAt(n, p)
  BY <1>1 DEF IInv, Registered, RegisteredAt, Asks
<1> QED BY <1>2 DEF RegisteredAt

-----------------------------------------------------------------------------
(* The steps.                                                              *)

\* Nothing that matters here changes.
LEMMA Elsewhere ==
    ASSUME IInv, time' \in 0..MaxTime,
           load' \in [Computer -> [now: Levels, changes: 0..MaxChanges]],
           UNCHANGED <<timer, wants, linked, wire>>
    PROVE  IInv'
<1>1. Types'
  BY DEF IInv, Types
<1>2. Registered'
  BY DEF IInv, Registered, Peers
<1> QED BY <1>1, <1>2 DEF IInv

LEMMA LinkUpStep ==
    ASSUME IInv, NEW l \in Links, LinkUp(l)
    PROVE  IInv'
<1>1. /\ linked' = linked \cup {l}
      /\ wire' = [wire EXCEPT ![l[1]][l[2]] = <<[cmd |-> "REGISTER"]>>,
                              ![l[2]][l[1]] = <<[cmd |-> "REGISTER"]>>]
      /\ UNCHANGED <<time, load, timer, wants>>
  BY DEF LinkUp
<1>2. PICK q : q = <<[cmd |-> "REGISTER"]>>
  OBVIOUS
<1>3. q \in Seq(Word) /\ Asks(q)
  BY <1>2, AskingFirst
<1>4. /\ wire' \in [Computer -> [Computer -> Seq(Word)]]
      /\ wire'[l[1]][l[2]] = q /\ wire'[l[2]][l[1]] = q
      /\ \A n, p \in Computer : {n, p} # {l[1], l[2]} => wire'[n][p] = wire[n][p]
  BY <1>1, <1>2, <1>3, LinkEnds DEF IInv, Types
<1>5. Types'
  BY <1>1, <1>4 DEF IInv, Types
<1>6. ASSUME NEW n \in Computer, NEW p \in Computer, p \in Peers(n)'
      PROVE  RegisteredAt(n, p)'
  <2>1. CASE {n, p} = {l[1], l[2]}
    <3>1. n # p
      BY <1>1, <1>6, LinkEnds, SMTT(30) DEF Peers, IInv, Types
    <3>2. wire'[p][n] = q
      BY <1>4, <2>1, <3>1
    <3> QED BY <1>3, <3>2 DEF RegisteredAt
  <2>2. CASE {n, p} # {l[1], l[2]}
    <3>1. <<n, p>> # l /\ <<p, n>> # l
      BY <2>2, LinkEnds
    <3>2. p \in Peers(n)
      BY <1>1, <1>6, <3>1 DEF Peers
    <3>3. RegisteredAt(n, p)
      BY <3>2 DEF IInv, Registered, RegisteredAt, Asks
    <3>4. wire'[p][n] = wire[p][n]
      BY <1>4, <2>2
    <3> QED BY <1>1, <3>3, <3>4 DEF RegisteredAt
  <2> QED BY <2>1, <2>2
<1> QED BY <1>5, <1>6 DEF IInv, Registered, RegisteredAt, Asks

\* Links that are gone, from both ends.
LEMMA GoneLinks ==
    ASSUME IInv, NEW ls \in SUBSET linked
    PROVE  /\ Cleared(ls) \in [Computer -> [Computer -> Seq(Word)]]
           /\ Broken(ls, wants) \in [Computer -> SUBSET (Computer \cup Local)]
           /\ \A n, p \in Computer : <<n, p>> \in linked \ ls \/ <<p, n>> \in linked \ ls =>
                /\ Cleared(ls)[p][n] = wire[p][n]
                /\ p \in wants[n] => p \in Broken(ls, wants)[n]
<1>1. Cleared(ls) \in [Computer -> [Computer -> Seq(Word)]]
  BY DEF IInv, Types, Cleared
<1>2. Broken(ls, wants) \in [Computer -> SUBSET (Computer \cup Local)]
  BY DEF IInv, Types, Broken
<1>3. ASSUME NEW n \in Computer, NEW p \in Computer,
             <<n, p>> \in linked \ ls \/ <<p, n>> \in linked \ ls
      PROVE  /\ Cleared(ls)[p][n] = wire[p][n]
             /\ p \in wants[n] => p \in Broken(ls, wants)[n]
  <2>1. <<n, p>> \notin ls /\ <<p, n>> \notin ls
    <3>1. ~(<<n, p>> \in linked /\ <<p, n>> \in linked)
      BY LinkEnds DEF IInv, Types
    <3> QED BY <1>3, <3>1
  <2> QED BY <2>1 DEF Cleared, Broken
<1> QED BY <1>1, <1>2, <1>3

LEMMA LinkDownStep ==
    ASSUME IInv, NEW l \in Links, LinkDown(l)
    PROVE  IInv'
<1>1. /\ l \in linked /\ linked' = linked \ {l}
      /\ wants' = Broken({l}, wants) /\ wire' = Cleared({l})
      /\ UNCHANGED <<time, load, timer>>
  BY DEF LinkDown
<1>2. Types'
  BY <1>1, GoneLinks DEF IInv, Types
<1>3. ASSUME NEW n \in Computer, NEW p \in Computer, p \in Peers(n)'
      PROVE  wire'[p][n] = wire[p][n] /\ (p \in wants[n] => p \in wants'[n])
  <2>1. <<n, p>> \in linked \ {l} \/ <<p, n>> \in linked \ {l}
    BY <1>1, <1>3 DEF Peers
  <2>2. {l} \in SUBSET linked
    BY <1>1
  <2>3. PICK ls \in SUBSET linked : ls = {l}
    BY <2>2
  <2>4. /\ Cleared(ls)[p][n] = wire[p][n]
        /\ p \in wants[n] => p \in Broken(ls, wants)[n]
    BY <2>1, <2>3, GoneLinks
  <2> QED BY <1>1, <2>3, <2>4
<1> QED BY <1>1, <1>2, <1>3, Kept DEF IInv

\* A registration, whoever it comes from, and the message it came in.
LEMMA RegisterStep ==
    ASSUME IInv, NEW n \in Computer, NEW c \in Computer \cup Local, Register(n, c),
           \/ UNCHANGED wire
           \/ /\ c \in Computer /\ wire[c][n] # <<>>
              /\ wire' = [wire EXCEPT ![c][n] = Tail(@)]
    PROVE  IInv'
<1>1. /\ wants' = [wants EXCEPT ![n] = @ \cup {c}]
      /\ timer' = [timer EXCEPT ![n] = TRUE]
      /\ UNCHANGED <<time, load, linked>>
  BY DEF Register, Enable
<1>2. /\ wire' \in [Computer -> [Computer -> Seq(Word)]]
      /\ \A m, p \in Computer : ~(m = n /\ p = c) => wire'[p][m] = wire[p][m]
  <2>1. wire \in [Computer -> [Computer -> Seq(Word)]]
    BY DEF IInv, Types
  <2>2. ASSUME c \in Computer, wire[c][n] # <<>> PROVE Tail(wire[c][n]) \in Seq(Word)
    BY <2>1, <2>2, TailKeeps
  <2>3. CASE UNCHANGED wire
    BY <2>1, <2>3
  <2>4. CASE /\ c \in Computer /\ wire[c][n] # <<>>
             /\ wire' = [wire EXCEPT ![c][n] = Tail(@)]
    BY <2>1, <2>2, <2>4
  <2> QED BY <2>3, <2>4
<1>3. /\ wants' \in [Computer -> SUBSET (Computer \cup Local)] /\ c \in wants'[n]
      /\ timer' \in [Computer -> BOOLEAN] /\ timer'[n]
      /\ \A m \in Computer : wants[m] \subseteq wants'[m] /\ (timer[m] => timer'[m])
  BY <1>1 DEF IInv, Types
<1>4. Types'
  BY <1>1, <1>2, <1>3 DEF IInv, Types
<1> QED BY <1>1, <1>2, <1>3, <1>4, Kept DEF IInv

LEMMA ListenStep ==
    ASSUME IInv, NEW n \in Computer, NEW p \in Computer, Listen(n, p)
    PROVE  IInv'
<1>1. /\ wire' = [wire EXCEPT ![n][p] = Append(@, [cmd |-> "REGISTER"])]
      /\ UNCHANGED <<time, load, timer, wants, linked>>
  BY DEF Listen, RegisterFor
<1>2. wire \in [Computer -> [Computer -> Seq(Word)]] /\ [cmd |-> "REGISTER"] \in Word
  BY DEF IInv, Types, Word, Request
<1>3. /\ Append(wire[n][p], [cmd |-> "REGISTER"]) \in Seq(Word)
      /\ Asks(wire[n][p]) => Asks(Append(wire[n][p], [cmd |-> "REGISTER"]))
  BY <1>2, AppendKeeps
<1>4. /\ wire' \in [Computer -> [Computer -> Seq(Word)]]
      /\ \A a, b \in Computer : Asks(wire[a][b]) => Asks(wire'[a][b])
  BY <1>1, <1>2, <1>3
<1>5. Types'
  BY <1>1, <1>4 DEF IInv, Types
<1> QED BY <1>1, <1>4, <1>5, Kept DEF IInv

\* A daemon that dies loses its links, and its peers theirs with it.
LEMMA DieStep ==
    ASSUME IInv, NEW n \in Computer, Die(n), UNCHANGED <<time, load>>
    PROVE  IInv'
<1>1. PICK ls : ls = {l \in linked : n \in {l[1], l[2]}}
  OBVIOUS
<1>2. /\ ls \subseteq linked /\ linked' = linked \ ls
      /\ wants' = [Broken(ls, wants) EXCEPT ![n] = {}] /\ wire' = Cleared(ls)
      /\ timer' = [timer EXCEPT ![n] = FALSE]
  BY <1>1 DEF Die
<1>3. Types'
  BY <1>2, GoneLinks DEF IInv, Types
<1>4. \A p \in Computer : p \notin Peers(n)'
  BY <1>1, <1>2 DEF Peers
<1>5. ASSUME NEW m \in Computer, NEW p \in Computer, p \in Peers(m)'
      PROVE  /\ p \in wants[m] => p \in wants'[m]
             /\ timer[m] => timer'[m]
             /\ wire'[p][m] = wire[p][m]
  <2>1. m # n
    BY <1>4, <1>5
  <2>2. wire'[p][m] = wire[p][m] /\ (p \in wants[m] => p \in Broken(ls, wants)[m])
    BY <1>2, <1>5, GoneLinks DEF Peers
  <2> QED BY <1>2, <2>1, <2>2, GoneLinks DEF IInv, Types
<1> QED BY <1>2, <1>3, <1>5, Kept DEF IInv

LEMMA UnregisterStep ==
    ASSUME IInv, NEW n \in Computer, NEW c \in Local, Unregister(n, c)
    PROVE  IInv'
<1>1. CASE Die(n)
  BY <1>1, DieStep DEF Unregister
<1>2. CASE /\ wants' = [wants EXCEPT ![n] = @ \ {c}]
           /\ UNCHANGED <<last, timer, linked, wire, crashed, told>>
  <2>1. UNCHANGED <<time, load>>
    BY DEF Unregister
  <2>2. Types'
    BY <1>2, <2>1 DEF IInv, Types
  <2>3. \A m, p \in Computer : p \in wants[m] => p \in wants'[m]
    BY <1>2, LocalAssumption DEF IInv, Types
  <2> QED BY <1>2, <2>2, <2>3, Kept DEF IInv
<1> QED BY <1>1, <1>2 DEF Unregister

LEMMA ReportStep ==
    ASSUME IInv, NEW n \in Computer, Report(n)
    PROVE  IInv'
<1>1. PICK r : r = [cmd |-> "LOADAVG", avg |-> load[n].now, time |-> time]
  OBVIOUS
<1>2. /\ wire' = [wire EXCEPT ![n] = [p \in Computer |->
                    IF p \in Listeners(n) THEN Append(wire[n][p], r) ELSE wire[n][p]]]
      /\ UNCHANGED <<time, load, timer, wants, linked>>
  BY <1>1 DEF Report
<1>3. wire \in [Computer -> [Computer -> Seq(Word)]] /\ r \in Word
  BY <1>1 DEF IInv, Types, Word, Report_
<1>4. \A p \in Computer : /\ Append(wire[n][p], r) \in Seq(Word)
                          /\ Asks(wire[n][p]) => Asks(Append(wire[n][p], r))
  BY <1>3, AppendKeeps
<1>5. /\ wire' \in [Computer -> [Computer -> Seq(Word)]]
      /\ \A a, b \in Computer : Asks(wire[a][b]) => Asks(wire'[a][b])
  BY <1>2, <1>3, <1>4
<1>6. Types'
  BY <1>2, <1>5 DEF IInv, Types
<1> QED BY <1>2, <1>5, <1>6, Kept DEF IInv

LEMMA StartAddingStep ==
    ASSUME IInv, NEW n \in Computer, NEW p \in Computer, StartAdding(n, p)
    PROVE  IInv'
<1>1. /\ wire[p][n] # <<>> /\ Head(wire[p][n]).cmd = "LOADAVG"
      /\ wire' = [wire EXCEPT ![p][n] = Tail(@)]
      /\ UNCHANGED <<time, load, timer, wants, linked>>
  BY DEF StartAdding
<1>2. wire \in [Computer -> [Computer -> Seq(Word)]]
  BY DEF IInv, Types
<1>3. /\ Tail(wire[p][n]) \in Seq(Word)
      /\ Asks(wire[p][n]) => Asks(Tail(wire[p][n]))
  BY <1>1, <1>2, TailKeeps
<1>4. /\ wire' \in [Computer -> [Computer -> Seq(Word)]]
      /\ \A a, b \in Computer : Asks(wire[a][b]) => Asks(wire'[a][b])
  BY <1>1, <1>2, <1>3
<1>5. Types'
  BY <1>1, <1>4 DEF IInv, Types
<1> QED BY <1>1, <1>4, <1>5, Kept DEF IInv

-----------------------------------------------------------------------------
(* The invariant and the theorem.                                          *)

LEMMA Initially == Init => IInv
<1> SUFFICES ASSUME Init, 0 \in Levels PROVE IInv
  BY LevelsAssumption
<1>1. Types
  BY BoundAssumption DEF Init, Types
<1>2. Registered
  BY DEF Init, Registered, Peers
<1> QED BY <1>1, <1>2 DEF IInv

LEMMA Inductive == IInv /\ [Next]_vars => IInv'
<1> SUFFICES ASSUME IInv, [Next]_vars PROVE IInv'
  OBVIOUS
<1>t. time \in 0..MaxTime /\ load \in [Computer -> [now: Levels, changes: 0..MaxChanges]]
  BY DEF IInv, Types
<1>1. CASE Tick
  <2>1. time + 1 \in 0..MaxTime
    BY <1>1, <1>t, BoundAssumption DEF Tick
  <2> QED BY <1>1, <1>t, <2>1, Elsewhere DEF Tick
<1>2. ASSUME NEW l \in Links, LinkUp(l) \/ LinkDown(l) PROVE IInv'
  BY <1>2, LinkUpStep, LinkDownStep
<1>3. ASSUME NEW n \in Computer, NEW p \in Computer,
             ReadRegister(n, p) \/ Listen(n, p) \/ StartAdding(n, p)
      PROVE  IInv'
  <2>1. CASE ReadRegister(n, p)
    BY <2>1, RegisterStep DEF ReadRegister
  <2> QED BY <1>3, <2>1, ListenStep, StartAddingStep
<1>4. ASSUME NEW n \in Computer, NEW c \in Local, LocalRegister(n, c) \/ Unregister(n, c)
      PROVE  IInv'
  <2>1. CASE LocalRegister(n, c)
    BY <2>1, RegisterStep DEF LocalRegister
  <2> QED BY <1>4, <2>1, UnregisterStep
<1>5. ASSUME NEW n \in Computer, Restart(n) PROVE IInv'
  BY <1>5, <1>t, Elsewhere DEF Restart
<1>6. ASSUME NEW n \in Computer, Report(n) PROVE IInv'
  BY <1>6, ReportStep
<1>7. ASSUME NEW n \in Computer, FinishAdding(n) \/ ClientLoads(n) \/ ClientSaves(n)
      PROVE  IInv'
  BY <1>7, <1>t, Elsewhere DEF FinishAdding, ClientLoads, ClientSaves, Unused
<1>8. ASSUME NEW n \in Reporters, NEW level \in Levels, LoadChanges(n, level) PROVE IInv'
  <2>1. n \in Computer
    BY ComputerAssumption
  <2>2. load[n].changes + 1 \in 0..MaxChanges
    BY <1>8, <1>t, <2>1, BoundAssumption DEF LoadChanges
  <2>3. load' \in [Computer -> [now: Levels, changes: 0..MaxChanges]]
    BY <1>8, <1>t, <2>1, <2>2 DEF LoadChanges
  <2> QED BY <1>8, <1>t, <2>3, Elsewhere DEF LoadChanges
<1>9. CASE UNCHANGED vars
  BY <1>9, <1>t, Elsewhere DEF vars
<1> QED BY <1>1, <1>2, <1>3, <1>4, <1>5, <1>6, <1>7, <1>8, <1>9 DEF Next

\* Two daemons that are linked report their load to each other, or the request
\* for it is on its way: nothing that happens to links, daemons and other
\* listeners, in any order, leaves a link without.
THEOREM LinkedRegistered == Spec => []Registered
<1>1. IInv => Registered
  BY DEF IInv
<1> QED BY <1>1, Initially, Inductive, PTL DEF Spec

-----------------------------------------------------------------------------
(* Records in a file.                                                      *)

\* The first record of a computer, which is the one that find() returns.
IsFirst(s, k) == \A j \in DOMAIN s : s[j].from = s[k].from => k <= j

\* A set of naturals has a least element, and so proofs by induction below look at
\* the least counterexample.
LEMMA LeastNat ==
    ASSUME NEW T \in SUBSET Nat, T # {}
    PROVE  \E m \in T : \A k \in T : m <= k
<1> DEFINE W == {0..k : k \in T}
<1>1. IsWellFoundedOn(StrictSubsetOrdering(Nat), FiniteSubsetsOf(Nat))
  BY FS_StrictSubsetOrderingWellFounded
<1>2. W \subseteq FiniteSubsetsOf(Nat)
  <2>1. ASSUME NEW k \in T PROVE 0..k \in FiniteSubsetsOf(Nat)
    BY FS_Interval DEF FiniteSubsetsOf
  <2> QED BY <2>1
<1>3. W # {}
  OBVIOUS
<1> HIDE DEF W
<1>4. PICK x \in W : \A y \in W : <<y, x>> \notin StrictSubsetOrdering(Nat)
  BY <1>1, <1>2, <1>3, WFMin
<1> USE DEF W
<1>5. PICK m \in T : x = 0..m
  BY <1>4
<1>6. ASSUME NEW k \in T, k < m PROVE FALSE
  <2>1. 0..k \in W /\ 0..k \in SUBSET Nat /\ 0..m \in SUBSET Nat
    OBVIOUS
  <2>2. 0..k \subseteq 0..m /\ m \in 0..m /\ m \notin 0..k
    BY <1>6
  <2>3. <<0..k, 0..m>> \in StrictSubsetOrdering(Nat)
    BY <2>1, <2>2 DEF StrictSubsetOrdering
  <2> QED BY <1>4, <1>5, <2>1, <2>3
<1> QED BY <1>6

\* The first place of a computer that the file has.
LEMMA FirstPlaceIsFirst ==
    ASSUME NEW s \in Seq(Record), NEW n, Places(s, n) # {}
    PROVE  /\ FirstPlace(s, n) \in DOMAIN s /\ s[FirstPlace(s, n)].from = n
           /\ IsFirst(s, FirstPlace(s, n))
<1>1. Places(s, n) \in SUBSET Nat
  BY DEF Places
<1>2. \E i \in Places(s, n) : \A j \in Places(s, n) : i <= j
  BY <1>1, LeastNat
<1>3. /\ FirstPlace(s, n) \in Places(s, n)
      /\ \A j \in Places(s, n) : FirstPlace(s, n) <= j
  BY <1>2 DEF FirstPlace
<1> QED BY <1>3 DEF Places, IsFirst

\* There is only one.
LEMMA OneFirst ==
    ASSUME NEW s \in Seq(Record), NEW i \in DOMAIN s, NEW j \in DOMAIN s,
           IsFirst(s, i), IsFirst(s, j), s[i].from = s[j].from
    PROVE  i = j
<1>1. i <= j /\ j <= i /\ i \in Nat /\ j \in Nat
  BY DEF IsFirst
<1> QED BY <1>1

\* add(): every other record stays where it is, and the new one is the first of its
\* computer.
LEMMA AddFacts ==
    ASSUME NEW s \in Seq(Record), NEW r \in Record
    PROVE  /\ Add(s, r) \in Seq(Record) /\ Len(Add(s, r)) >= Len(s)
           /\ \E i \in DOMAIN Add(s, r) :
                /\ Add(s, r)[i] = r /\ IsFirst(Add(s, r), i)
                /\ \A j \in DOMAIN Add(s, r) \ {i} : j \in DOMAIN s /\ Add(s, r)[j] = s[j]
                /\ \A j \in DOMAIN s : s[j].from # r.from =>
                     j \in DOMAIN Add(s, r) /\ Add(s, r)[j] = s[j]
<1>1. CASE Places(s, r.from) = {}
  <2>1. Add(s, r) = Append(s, r)
    BY <1>1 DEF Add
  <2>2. PICK a : a = Append(s, r)
    OBVIOUS
  <2>3. /\ a \in Seq(Record) /\ Len(a) = Len(s) + 1 /\ Len(s) \in Nat
        /\ a[Len(s) + 1] = r /\ \A j \in 1..Len(s) : a[j] = s[j]
    BY <2>2
  <2>4. DOMAIN a = 1..(Len(s) + 1) /\ DOMAIN s = 1..Len(s)
    BY <2>3
  <2>5. IsFirst(a, Len(s) + 1)
    BY <1>1, <2>3, <2>4 DEF IsFirst, Places
  <2> QED BY <2>1, <2>2, <2>3, <2>4, <2>5
<1>2. CASE Places(s, r.from) # {}
  <2>1. PICK i : i = FirstPlace(s, r.from)
    OBVIOUS
  <2>2. i \in DOMAIN s /\ s[i].from = r.from /\ IsFirst(s, i)
    BY <1>2, <2>1, FirstPlaceIsFirst
  <2>3. PICK a : a = [s EXCEPT ![i] = r]
    OBVIOUS
  <2>4. Add(s, r) = a
    BY <1>2, <2>1, <2>3 DEF Add
  <2>5. /\ a \in Seq(Record) /\ Len(a) = Len(s) /\ DOMAIN a = DOMAIN s /\ Len(s) \in Nat
        /\ a[i] = r /\ \A j \in DOMAIN s \ {i} : a[j] = s[j]
    BY <2>2, <2>3
  <2>6. IsFirst(a, i)
    BY <2>2, <2>5 DEF IsFirst
  <2> QED BY <2>2, <2>4, <2>5, <2>6
<1> QED BY <1>1, <1>2

\* save() writes the items I over those of the file F.
Saved(N, F, I) ==
    /\ N \in Seq(Record)
    /\ Len(I) >= Len(F) => N = I
    /\ \A i \in DOMAIN I : i \in DOMAIN N /\ N[i] = I[i]
    /\ \A i \in DOMAIN N \ DOMAIN I : i \in DOMAIN F /\ N[i] = F[i]

LEMMA OverwrittenFacts ==
    ASSUME NEW F \in Seq(Record), NEW I \in Seq(Record)
    PROVE  Saved(Overwritten(F, I), F, I)
<1>1. CASE Len(I) >= Len(F)
  <2>1. Overwritten(F, I) = I
    BY <1>1 DEF Overwritten
  <2>2. Saved(I, F, I)
    BY DEF Saved
  <2> QED BY <2>1, <2>2
<1>2. CASE Len(I) < Len(F)
  <2>1. Len(I) \in Nat /\ Len(F) \in Nat /\ ~(Len(I) >= Len(F))
    BY <1>2
  <2>2. PICK t : t = SubSeq(F, Len(I) + 1, Len(F))
    OBVIOUS
  <2>3. /\ t \in Seq(Record) /\ Len(t) = Len(F) - Len(I)
        /\ \A i \in 1..(Len(F) - Len(I)) : t[i] = F[i + Len(I)]
    <3>1. Len(I) + 1 \in 1..Len(F) /\ Len(F) \in 1..Len(F)
      BY <1>2, <2>1
    <3>2. t = [i \in 1..(Len(F) - (Len(I) + 1) + 1) |-> F[i + (Len(I) + 1) - 1]]
      BY <2>2
    <3>3. Len(F) - (Len(I) + 1) + 1 = Len(F) - Len(I)
          /\ \A i \in Nat : i + (Len(I) + 1) - 1 = i + Len(I)
      BY <2>1
    <3>4. t \in Seq(Record)
      BY <2>2, <3>1
    <3> QED BY <2>1, <3>2, <3>3, <3>4
  <2>4. Overwritten(F, I) = I \o t
    BY <2>1, <2>2 DEF Overwritten
  <2>5. PICK N : N = I \o t
    OBVIOUS
  <2>6. /\ N \in Seq(Record) /\ Len(N) = Len(F)
        /\ \A i \in 1..Len(I) : N[i] = I[i]
        /\ \A i \in 1..Len(F) : i > Len(I) => N[i] = t[i - Len(I)]
    BY <1>2, <2>1, <2>3, <2>5
  <2>7. \A i \in 1..Len(F) : i > Len(I) => N[i] = F[i]
    <3>1. ASSUME NEW i \in 1..Len(F), i > Len(I) PROVE N[i] = F[i]
      <4>1. i - Len(I) \in 1..(Len(F) - Len(I)) /\ (i - Len(I)) + Len(I) = i
        BY <2>1, <3>1
      <4> QED BY <2>3, <2>6, <3>1, <4>1
    <3> QED BY <3>1
  <2>8. DOMAIN I = 1..Len(I) /\ DOMAIN F = 1..Len(F) /\ DOMAIN N = 1..Len(F)
    BY <2>6
  <2>9. \A i \in DOMAIN I : i \in DOMAIN N /\ N[i] = I[i]
    BY <1>2, <2>1, <2>6, <2>8
  <2>10. \A i \in DOMAIN N \ DOMAIN I : i \in DOMAIN F /\ N[i] = F[i]
    BY <2>1, <2>7, <2>8
  <2>11. Saved(N, F, I)
    BY <1>2, <2>1, <2>6, <2>9, <2>10 DEF Saved
  <2> QED BY <2>4, <2>5, <2>11
<1> QED BY <1>1, <1>2

\* remove_old_entries() as a recursive function, up to a place of the file.
IsRecent(f, s, n) ==
    /\ f = [i \in 0..n |->
             IF i = 0 THEN <<>>
             ELSE IF Old(s[i]) THEN f[i - 1] ELSE Append(f[i - 1], s[i])]

\* There is such a function.
LEMMA RecentExists ==
    ASSUME NEW s, NEW n \in Nat
    PROVE  \E f : IsRecent(f, s, n)
<1> DEFINE T == {m \in Nat : ~ \E f : IsRecent(f, s, m)}
<1>1. SUFFICES ASSUME T # {} PROVE FALSE
  OBVIOUS
<1>2. PICK m \in T : \A k \in T : m <= k
  BY <1>1, LeastNat
<1>3. CASE m = 0
  <2>1. PICK f : f = [i \in 0..0 |-> <<>>]
    OBVIOUS
  <2>2. 0..0 = {0}
    OBVIOUS
  <2>3. IsRecent(f, s, 0)
    BY <2>1, <2>2 DEF IsRecent
  <2> QED BY <1>3, <2>3
<1>4. CASE m # 0
  <2>1. m - 1 \in Nat /\ ~(m <= m - 1)
    BY <1>4
  <2>2. PICK f : IsRecent(f, s, m - 1)
    BY <1>2, <2>1
  <2>3. PICK x : x = IF Old(s[m]) THEN f[m - 1] ELSE Append(f[m - 1], s[m])
    OBVIOUS
  <2>4. PICK g : g = [i \in 0..m |-> IF i = m THEN x ELSE f[i]]
    OBVIOUS
  <2>5. \A i \in 0..m : i # m => i \in 0..(m - 1)
    OBVIOUS
  <2>6. \A i \in 0..m : i # 0 => g[i - 1] = f[i - 1]
    BY <2>4
  <2>7. ASSUME NEW i \in 0..m
        PROVE  g[i] = IF i = 0 THEN <<>>
                      ELSE IF Old(s[i]) THEN g[i - 1] ELSE Append(g[i - 1], s[i])
    <3>1. CASE i = m
      BY <1>4, <2>3, <2>4, <2>6, <3>1
    <3>2. CASE i # m
      <4>1. i \in 0..(m - 1) /\ g[i] = f[i]
        BY <2>4, <2>5, <3>2
      <4>2. f[i] = IF i = 0 THEN <<>>
                   ELSE IF Old(s[i]) THEN f[i - 1] ELSE Append(f[i - 1], s[i])
        BY <2>2, <4>1 DEF IsRecent
      <4> QED BY <2>6, <4>1, <4>2
    <3> QED BY <3>1, <3>2
  <2>8. IsRecent(g, s, m)
    BY <2>4, <2>7 DEF IsRecent
  <2> QED BY <2>8
<1> QED BY <1>3, <1>4

LEMMA RecentFunction ==
    ASSUME NEW s \in Seq(Record)
    PROVE  \E f : IsRecent(f, s, Len(s)) /\ Recent(s) = f[Len(s)]
<1>1. Len(s) \in Nat
  OBVIOUS
<1>2. \E f : IsRecent(f, s, Len(s))
  BY <1>1, RecentExists
<1> QED BY <1>2 DEF Recent, IsRecent

\* What a client keeps of the first n records of a file s.
Remains(k, s, n) ==
    /\ k \in Seq(Record)
    /\ Len(k) < n \/ (Len(k) = n /\ \A j \in 1..n : k[j] = s[j])
    /\ \A i \in DOMAIN k : \E j \in 1..n : k[i] = s[j]
    /\ \A j \in 1..n : IsFirst(s, j) /\ ~Old(s[j]) =>
         \E i \in DOMAIN k : IsFirst(k, i) /\ k[i] = s[j]

LEMMA KeptEmpty ==
    ASSUME NEW s \in Seq(Record) PROVE Remains(<<>>, s, 0)
<1>1. <<>> \in Seq(Record) /\ Len(<<>>) = 0 /\ DOMAIN <<>> = {} /\ 1..0 = {}
  OBVIOUS
<1> QED BY <1>1 DEF Remains

LEMMA KeptDropped ==
    ASSUME NEW s \in Seq(Record), NEW n \in Nat, NEW k, Remains(k, s, n), Old(s[n + 1])
    PROVE  Remains(k, s, n + 1)
<1>1. Len(k) \in Nat /\ Len(k) < n + 1
  BY DEF Remains
<1>2. \A j \in 1..(n + 1) : j # n + 1 => j \in 1..n
  OBVIOUS
<1>3. 1..n \subseteq 1..(n + 1)
  OBVIOUS
<1>4. \A i \in DOMAIN k : \E j \in 1..(n + 1) : k[i] = s[j]
  BY <1>3 DEF Remains
<1>5. ASSUME NEW j \in 1..(n + 1), IsFirst(s, j), ~Old(s[j])
      PROVE  \E i \in DOMAIN k : IsFirst(k, i) /\ k[i] = s[j]
  <2>1. j \in 1..n
    BY <1>2, <1>5
  <2> QED BY <1>5, <2>1 DEF Remains
<1> QED BY <1>1, <1>4, <1>5 DEF Remains

LEMMA KeptAppended ==
    ASSUME NEW s \in Seq(Record), NEW n \in Nat, n + 1 \in DOMAIN s, NEW k, Remains(k, s, n)
    PROVE  Remains(Append(k, s[n + 1]), s, n + 1)
<1>1. k \in Seq(Record) /\ s[n + 1] \in Record /\ Len(k) \in Nat /\ DOMAIN k = 1..Len(k)
  BY DEF Remains
<1>2. PICK a : a = Append(k, s[n + 1])
  OBVIOUS
<1>3. /\ a \in Seq(Record) /\ Len(a) = Len(k) + 1 /\ DOMAIN a = 1..(Len(k) + 1)
      /\ a[Len(k) + 1] = s[n + 1] /\ \A j \in 1..Len(k) : a[j] = k[j]
  BY <1>1, <1>2
<1>4. \A j \in 1..(n + 1) : j = n + 1 \/ j \in 1..n
  OBVIOUS
<1>5. Len(a) < n + 1 \/ (Len(a) = n + 1 /\ \A j \in 1..(n + 1) : a[j] = s[j])
  <2>1. CASE Len(k) < n
    BY <1>1, <1>3, <2>1
  <2>2. CASE Len(k) = n /\ \A j \in 1..n : k[j] = s[j]
    BY <1>3, <1>4, <2>2
  <2> QED BY <2>1, <2>2 DEF Remains
<1>6. \A i \in DOMAIN a : i = Len(k) + 1 \/ i \in DOMAIN k
  BY <1>1, <1>3
<1>7. \A i \in DOMAIN k : \E j \in 1..n : k[i] = s[j]
  BY DEF Remains
<1>8. \A i \in DOMAIN a : \E j \in 1..(n + 1) : a[i] = s[j]
  <2>1. n + 1 \in 1..(n + 1) /\ 1..n \subseteq 1..(n + 1)
    OBVIOUS
  <2> QED BY <1>1, <1>3, <1>6, <1>7, <2>1
<1>9. ASSUME NEW j \in 1..(n + 1), IsFirst(s, j), ~Old(s[j])
      PROVE  \E i \in DOMAIN a : IsFirst(a, i) /\ a[i] = s[j]
  <2>1. CASE j \in 1..n
    <3>1. PICK i \in DOMAIN k : IsFirst(k, i) /\ k[i] = s[j]
      BY <1>9, <2>1 DEF Remains
    <3>2. i \in DOMAIN a /\ a[i] = s[j]
      BY <1>1, <1>3, <3>1
    <3>3. ASSUME NEW m \in DOMAIN a, a[m].from = a[i].from PROVE i <= m
      <4>1. CASE m = Len(k) + 1
        BY <1>1, <3>1, <4>1
      <4>2. CASE m \in DOMAIN k
        BY <1>1, <1>3, <3>1, <3>2, <3>3, <4>2 DEF IsFirst
      <4> QED BY <1>6, <4>1, <4>2
    <3> QED BY <3>2, <3>3 DEF IsFirst
  <2>2. CASE j = n + 1
    <3>1. ASSUME NEW m \in DOMAIN a, a[m].from = a[Len(k) + 1].from PROVE Len(k) + 1 <= m
      <4>1. ASSUME m \in DOMAIN k PROVE FALSE
        <5>1. PICK h \in 1..n : k[m] = s[h]
          BY <1>7, <4>1
        <5>2. h \in DOMAIN s /\ ~(n + 1 <= h)
          BY <1>1
        <5>3. s[h].from = s[n + 1].from
          BY <1>1, <1>3, <3>1, <4>1, <5>1
        <5> QED BY <1>9, <2>2, <5>2, <5>3 DEF IsFirst
      <4> QED BY <1>1, <1>6, <4>1
    <3> QED BY <1>1, <1>3, <2>2, <3>1 DEF IsFirst
  <2> QED BY <1>4, <2>1, <2>2
<1> QED BY <1>2, <1>3, <1>5, <1>8, <1>9 DEF Remains

\* What a client keeps of a file: records of it, fewer unless all are recent; and
\* the first record of a computer stays the first of it unless it is too old.
Purged(I, F) ==
    /\ Len(I) < Len(F)
    /\ \A i \in DOMAIN I : \E j \in DOMAIN F : I[i] = F[j]
    /\ \A j \in DOMAIN F : IsFirst(F, j) /\ ~Old(F[j]) =>
         \E i \in DOMAIN I : IsFirst(I, i) /\ I[i] = F[j]

LEMMA RecentFacts ==
    ASSUME NEW s \in Seq(Record), Recent(s) # s
    PROVE  Recent(s) \in Seq(Record) /\ Purged(Recent(s), s)
<1>1. PICK f : IsRecent(f, s, Len(s)) /\ Recent(s) = f[Len(s)]
  BY RecentFunction
<1>2. Len(s) \in Nat /\ DOMAIN s = 1..Len(s)
  OBVIOUS
<1> DEFINE T == {n \in 0..Len(s) : ~Remains(f[n], s, n)}
<1>3. ASSUME T # {} PROVE FALSE
  <2>1. T \in SUBSET Nat
    OBVIOUS
  <2> HIDE DEF T
  <2>2. PICK n \in T : \A k \in T : n <= k
    BY <1>3, <2>1, LeastNat
  <2> USE DEF T
  <2>a. \A i \in 0..Len(s) :
          f[i] = IF i = 0 THEN <<>>
                 ELSE IF Old(s[i]) THEN f[i - 1] ELSE Append(f[i - 1], s[i])
    <3>1. IsRecent(f, s, Len(s))
      BY <1>1
    <3> HIDE DEF T
    <3> QED BY <3>1 DEF IsRecent
  <2>3. f[0] = <<>>
    BY <1>2, <2>a
  <2>4. n # 0
    BY <2>2, <2>3, KeptEmpty
  <2>5. PICK m \in Nat : n = m + 1 /\ m \in 0..Len(s) /\ m + 1 \in DOMAIN s
    <3>1. n - 1 \in Nat /\ n = (n - 1) + 1 /\ n - 1 \in 0..Len(s) /\ (n - 1) + 1 \in 1..Len(s)
      BY <1>2, <2>2, <2>4
    <3> QED BY <1>2, <3>1
  <2>6. Remains(f[m], s, m)
    BY <2>2, <2>5
  <2>7. f[n] = IF Old(s[n]) THEN f[n - 1] ELSE Append(f[n - 1], s[n])
    BY <1>2, <2>2, <2>4, <2>a
  <2>8. n - 1 = m
    BY <2>5
  <2>9. Remains(f[n], s, n)
    BY <2>5, <2>6, <2>7, <2>8, KeptDropped, KeptAppended
  <2> QED BY <2>2, <2>9
<1>4. Remains(Recent(s), s, Len(s))
  <2>1. Len(s) \in 0..Len(s)
    BY <1>2
  <2> QED BY <1>1, <1>3, <2>1
<1>5. Len(Recent(s)) < Len(s)
  <2>1. CASE Len(Recent(s)) = Len(s) /\ \A j \in 1..Len(s) : Recent(s)[j] = s[j]
    <3>1. Recent(s) \in Seq(Record)
      BY <1>4 DEF Remains
    <3>2. Recent(s) = s
      BY <2>1, <3>1
    <3> QED BY <3>2
  <2> QED BY <1>4, <2>1 DEF Remains
<1> QED BY <1>2, <1>4, <1>5 DEF Remains, Purged

-----------------------------------------------------------------------------
(* The types of everything, and that messages are only on links that are up. *)

Adding == [items: Seq(Record), item: Record]
Client == [items: Seq(Record)]

Stored ==
    /\ last \in [Computer -> Levels]
    /\ file \in [Computer -> Seq(Record)]
    /\ adding \in [Computer -> {None} \cup Adding]
    /\ client \in [Computer -> {None} \cup Client]
    /\ crashed \subseteq Computer
    /\ faults \in [breaks: 0..MaxBreaks, requests: 0..MaxRequests]

OnLinks == \A n, p \in Computer : wire[n][p] # <<>> => p \in Peers(n)

Typed == IInv /\ Stored /\ OnLinks

\* The message at the head of a wire.
LEMMA HeadTyped ==
    ASSUME IInv, NEW n \in Computer, NEW p \in Computer, wire[p][n] # <<>>
    PROVE  /\ Head(wire[p][n]) \in Word
           /\ Head(wire[p][n]).cmd = "LOADAVG" =>
                /\ Head(wire[p][n]) = wire[p][n][1]
                /\ [from |-> p, avg |-> Head(wire[p][n]).avg, time |-> Head(wire[p][n]).time]
                     \in Record
<1>1. wire[p][n] \in Seq(Word)
  BY DEF IInv, Types
<1>2. Head(wire[p][n]) \in Word /\ Head(wire[p][n]) = wire[p][n][1]
  BY <1>1
<1>3. \A m \in Word : m.cmd = "LOADAVG" => m.avg \in Levels /\ m.time \in 0..MaxTime
  BY DEF Word, Request, Report_
<1> QED BY <1>2, <1>3 DEF Record

LEMMA SaveStored ==
    ASSUME Typed, NEW n \in Computer, NEW I \in Seq(Record), Save(n, I)
    PROVE  file' \in [Computer -> Seq(Record)]
<1>1. Overwritten(file[n], I) \in Seq(Record)
  BY OverwrittenFacts DEF Typed, Stored, Saved
<1> QED BY <1>1 DEF Typed, Stored, Save

LEMMA FaultTyped ==
    ASSUME Stored,
           \/ faults.breaks < MaxBreaks /\ faults' = [faults EXCEPT !.breaks = @ + 1]
           \/ faults.requests < MaxRequests /\ faults' = [faults EXCEPT !.requests = @ + 1]
    PROVE  faults' \in [breaks: 0..MaxBreaks, requests: 0..MaxRequests]
<1>1. /\ faults \in [breaks: 0..MaxBreaks, requests: 0..MaxRequests]
      /\ MaxBreaks \in Nat /\ MaxRequests \in Nat
  BY BoundAssumption DEF Stored
<1> QED BY <1>1

LEMMA StoredStep == Typed /\ [Next]_vars => Stored'
<1> SUFFICES ASSUME Typed, [Next]_vars PROVE Stored'
  OBVIOUS
<1>0. Stored /\ IInv
  BY DEF Typed
<1>1. CASE Tick
  BY <1>0, <1>1 DEF Tick, Stored
<1>2. ASSUME NEW l \in Links, LinkUp(l) \/ LinkDown(l) PROVE Stored'
  <2>1. CASE LinkUp(l)
    BY <1>0, <2>1 DEF LinkUp, Stored
  <2>2. CASE LinkDown(l)
    BY <1>0, <2>2, FaultTyped DEF LinkDown, Stored
  <2> QED BY <1>2, <2>1, <2>2
<1>3. ASSUME NEW n \in Computer, NEW p \in Computer, ReadRegister(n, p) \/ Listen(n, p)
      PROVE  Stored'
  <2>1. CASE ReadRegister(n, p)
    BY <1>0, <2>1 DEF ReadRegister, Register, Stored
  <2>2. CASE Listen(n, p)
    BY <1>0, <2>2, FaultTyped DEF Listen, Stored
  <2> QED BY <1>3, <2>1, <2>2
<1>4. ASSUME NEW n \in Computer, NEW p \in Computer, StartAdding(n, p) PROVE Stored'
  <2>1. PICK m : m = Head(wire[p][n])
    OBVIOUS
  <2>2. [from |-> p, avg |-> m.avg, time |-> m.time] \in Record
    BY <1>0, <1>4, <2>1, HeadTyped DEF StartAdding
  <2>3. \/ adding' = adding
        \/ adding' = [adding EXCEPT ![n] =
             [items |-> file[n], item |-> [from |-> p, avg |-> m.avg, time |-> m.time]]]
    BY <1>4, <2>1 DEF StartAdding
  <2>4. file[n] \in Seq(Record)
    BY <1>0 DEF Stored
  <2>5. [items |-> file[n], item |-> [from |-> p, avg |-> m.avg, time |-> m.time]] \in Adding
    BY <2>2, <2>4 DEF Adding
  <2>6. adding' \in [Computer -> {None} \cup Adding]
    BY <1>0, <2>3, <2>5 DEF Stored
  <2> QED BY <1>0, <1>4, <2>6 DEF StartAdding, Stored
<1>5. ASSUME NEW n \in Computer, NEW c \in Local, LocalRegister(n, c) \/ Unregister(n, c)
      PROVE  Stored'
  <2>1. CASE LocalRegister(n, c)
    BY <1>0, <2>1, FaultTyped DEF LocalRegister, Register, Stored
  <2>2. CASE Unregister(n, c)
    <3>1. UNCHANGED <<file, adding, client, faults>>
      BY <2>2 DEF Unregister
    <3>2. CASE Die(n)
      <4>1. last' = [last EXCEPT ![n] = 0] /\ crashed' = crashed \cup {n}
        BY <3>2 DEF Die
      <4>2. last' \in [Computer -> Levels]
        BY <1>0, <4>1, LevelsAssumption DEF Stored
      <4> QED BY <1>0, <3>1, <4>1, <4>2 DEF Stored
    <3>3. CASE UNCHANGED <<last, crashed>>
      BY <1>0, <3>1, <3>3 DEF Stored
    <3> QED BY <2>2, <3>2, <3>3 DEF Unregister
  <2> QED BY <1>5, <2>1, <2>2
<1>6. ASSUME NEW n \in Computer, Restart(n) \/ Report(n) PROVE Stored'
  <2>1. CASE Restart(n)
    BY <1>0, <2>1 DEF Restart, Stored
  <2>2. CASE Report(n)
    BY <1>0, <2>2 DEF Report, Stored, IInv, Types
  <2> QED BY <1>6, <2>1, <2>2
<1>7. ASSUME NEW n \in Computer, FinishAdding(n) PROVE Stored'
  <2>1. adding[n] \in Adding
    BY <1>0, <1>7 DEF FinishAdding, Stored
  <2>2. Add(adding[n].items, adding[n].item) \in Seq(Record)
    BY <2>1, AddFacts DEF Adding
  <2>3. file' \in [Computer -> Seq(Record)]
    BY <1>7, <2>2, SaveStored DEF FinishAdding
  <2> QED BY <1>0, <1>7, <2>3 DEF FinishAdding, Unused, Stored
<1>8. ASSUME NEW n \in Computer, ClientLoads(n) PROVE Stored'
  <2>1. Recent(file[n]) \in Seq(Record)
    BY <1>0, <1>8, RecentFacts DEF ClientLoads, Stored
  <2>2. client' \in [Computer -> {None} \cup Client]
    BY <1>0, <1>8, <2>1 DEF ClientLoads, Stored, Client
  <2> QED BY <1>0, <1>8, <2>2 DEF ClientLoads, Unused, Stored
<1>9. ASSUME NEW n \in Computer, ClientSaves(n) PROVE Stored'
  <2>1. client[n] \in Client
    BY <1>0, <1>9 DEF ClientSaves, Stored
  <2>2. file' \in [Computer -> Seq(Record)]
    BY <1>9, <2>1, SaveStored DEF ClientSaves, Client
  <2> QED BY <1>0, <1>9, <2>2 DEF ClientSaves, Unused, Stored
<1>10. ASSUME NEW n \in Reporters, NEW level \in Levels, LoadChanges(n, level) PROVE Stored'
  BY <1>0, <1>10 DEF LoadChanges, Stored
<1>11. CASE UNCHANGED vars
  BY <1>0, <1>11 DEF vars, Stored
<1> QED BY <1>1, <1>2, <1>3, <1>4, <1>5, <1>6, <1>7, <1>8, <1>9, <1>10, <1>11 DEF Next

\* Of the wires, those of links that go are empty.
LEMMA ClearedOnLinks ==
    ASSUME Typed, NEW ls \in SUBSET linked, linked' = linked \ ls, wire' = Cleared(ls)
    PROVE  OnLinks'
<1> SUFFICES ASSUME NEW n \in Computer, NEW p \in Computer, wire'[n][p] # <<>>
             PROVE  p \in Peers(n)'
  BY DEF OnLinks
<1>1. <<n, p>> \notin ls /\ <<p, n>> \notin ls /\ wire[n][p] # <<>>
  BY DEF Cleared
<1>2. p \in Peers(n)
  BY <1>1 DEF Typed, OnLinks
<1> QED BY <1>1, <1>2 DEF Peers

\* No link goes, and what comes on a wire is for a peer.
LEMMA KeptOnLinks ==
    ASSUME Typed, linked \subseteq linked',
           \A n, p \in Computer : wire'[n][p] # <<>> => wire[n][p] # <<>> \/ p \in Peers(n)'
    PROVE  OnLinks'
<1> SUFFICES ASSUME NEW n \in Computer, NEW p \in Computer, wire'[n][p] # <<>>
             PROVE  p \in Peers(n)'
  BY DEF OnLinks
<1>1. p \in Peers(n) => p \in Peers(n)'
  BY DEF Peers
<1> QED BY <1>1 DEF Typed, OnLinks

LEMMA OnLinksStep == Typed /\ [Next]_vars => OnLinks'
<1> SUFFICES ASSUME Typed, [Next]_vars PROVE OnLinks'
  OBVIOUS
<1>0. wire \in [Computer -> [Computer -> Seq(Word)]] /\ linked \subseteq Links
  BY DEF Typed, IInv, Types
<1>a. ASSUME UNCHANGED <<wire, linked>> PROVE OnLinks'
  BY <1>a, KeptOnLinks
<1>1. ASSUME NEW l \in Links, LinkUp(l) PROVE OnLinks'
  <2>1. /\ linked' = linked \cup {l}
        /\ wire' = [wire EXCEPT ![l[1]][l[2]] = <<[cmd |-> "REGISTER"]>>,
                                ![l[2]][l[1]] = <<[cmd |-> "REGISTER"]>>]
    BY <1>1 DEF LinkUp
  <2>2. \A n, p \in Computer :
          wire'[n][p] = wire[n][p] \/ (n = l[1] /\ p = l[2]) \/ (n = l[2] /\ p = l[1])
    BY <1>0, <2>1, LinkEnds
  <2>3. l[2] \in Peers(l[1])' /\ l[1] \in Peers(l[2])'
    BY <2>1, LinkEnds DEF Peers
  <2> QED BY <2>1, <2>2, <2>3, KeptOnLinks
<1>2. ASSUME NEW l \in Links, LinkDown(l) PROVE OnLinks'
  <2>1. PICK ls \in SUBSET linked : ls = {l}
    BY <1>2 DEF LinkDown
  <2> QED BY <1>2, <2>1, ClearedOnLinks DEF LinkDown
<1>3. ASSUME NEW n \in Computer, Die(n) PROVE OnLinks'
  <2>1. PICK ls : ls = {l \in linked : n \in {l[1], l[2]}}
    OBVIOUS
  <2>2. ls \in SUBSET linked /\ linked' = linked \ ls /\ wire' = Cleared(ls)
    BY <1>3, <2>1 DEF Die
  <2> QED BY <2>2, ClearedOnLinks
<1>4. ASSUME NEW n \in Computer, NEW p \in Computer, ReadRegister(n, p) \/ StartAdding(n, p)
      PROVE  OnLinks'
  <2>1. /\ wire[p][n] # <<>> /\ wire' = [wire EXCEPT ![p][n] = Tail(@)]
        /\ linked' = linked
    BY <1>4 DEF ReadRegister, StartAdding, Register
  <2>2. \A a, b \in Computer : wire'[a][b] = wire[a][b] \/ wire[a][b] # <<>>
    BY <1>0, <2>1
  <2> QED BY <2>1, <2>2, KeptOnLinks
<1>5. ASSUME NEW n \in Computer, NEW p \in Computer, Listen(n, p) PROVE OnLinks'
  <2>1. /\ p \in Peers(n) /\ wire' = [wire EXCEPT ![n][p] = Append(@, [cmd |-> "REGISTER"])]
        /\ linked' = linked
    BY <1>5 DEF Listen, RegisterFor
  <2>2. \A a, b \in Computer : wire'[a][b] = wire[a][b] \/ (a = n /\ b = p)
    BY <1>0, <2>1
  <2>3. p \in Peers(n)'
    BY <2>1 DEF Peers
  <2> QED BY <2>1, <2>2, <2>3, KeptOnLinks
<1>6. ASSUME NEW n \in Computer, Report(n) PROVE OnLinks'
  <2>1. /\ linked' = linked
        /\ \A a, b \in Computer : wire'[a][b] = wire[a][b] \/ (a = n /\ b \in Peers(n))
    BY <1>0, <1>6 DEF Report, Listeners
  <2>2. \A b : b \in Peers(n) => b \in Peers(n)'
    BY <2>1 DEF Peers
  <2> QED BY <2>1, <2>2, KeptOnLinks
<1>7. CASE Tick
  BY <1>7, <1>a DEF Tick
<1>8. ASSUME NEW n \in Computer, NEW c \in Local, LocalRegister(n, c) \/ Unregister(n, c)
      PROVE  OnLinks'
  BY <1>8, <1>a, <1>3 DEF LocalRegister, Register, Unregister
<1>9. ASSUME NEW n \in Computer,
             Restart(n) \/ FinishAdding(n) \/ ClientLoads(n) \/ ClientSaves(n)
      PROVE  OnLinks'
  BY <1>9, <1>a DEF Restart, FinishAdding, ClientLoads, ClientSaves, Unused
<1>10. ASSUME NEW n \in Reporters, NEW level \in Levels, LoadChanges(n, level) PROVE OnLinks'
  BY <1>10, <1>a DEF LoadChanges
<1>11. CASE UNCHANGED vars
  BY <1>11, <1>a DEF vars
<1> QED BY <1>1, <1>2, <1>4, <1>5, <1>6, <1>7, <1>8, <1>9, <1>10, <1>11 DEF Next

LEMMA InitTyped == Init => Typed
<1> SUFFICES ASSUME Init, 0 \in Levels PROVE Typed
  BY LevelsAssumption
<1>1. Stored
  BY BoundAssumption DEF Init, Stored
<1>2. OnLinks
  BY DEF Init, OnLinks
<1> QED BY <1>1, <1>2, Initially DEF Typed

LEMMA TypedInductive == Typed /\ [Next]_vars => Typed'
BY Inductive, StoredStep, OnLinksStep DEF Typed

\* No load, record or message is ever anything else, no message is on a link that is
\* down, and the bounds of the model hold.
THEOREM TypeCorrect == Spec => []TypeOK
<1>1. Typed => TypeOK
  BY DEF Typed, IInv, Types, Stored, OnLinks, TypeOK, Peers
<1> QED BY <1>1, InitTyped, TypedInductive, PTL DEF Spec

-----------------------------------------------------------------------------
(* What the order of the messages, of the records and of the writers of a     *)
(* file have to do with each other.                                           *)

IsLoad(m) == m.cmd = "LOADAVG"

\* What n has of p, in its file or about to be, is not newer than t.
Before(n, p, t) ==
    /\ adding[n] # None /\ adding[n].item.from = p => adding[n].item.time <= t
    /\ n \notin raced => \A j \in DOMAIN file[n] : file[n][j].from = p => file[n][j].time <= t

\* Loads arrive in the order in which they were measured.
Sorted(n) ==
    \A p \in Computer : \A i \in DOMAIN wire[p][n] : IsLoad(wire[p][n][i]) =>
        /\ wire[p][n][i].time <= time
        /\ \A j \in DOMAIN wire[p][n] :
             IsLoad(wire[p][n][j]) /\ i < j => wire[p][n][i].time <= wire[p][n][j].time
        /\ Before(n, p, wire[p][n][i].time)

Older(n) ==
    /\ \A p \in Computer : Before(n, p, time)
    /\ n \notin raced /\ adding[n] # None =>
         \A j \in DOMAIN file[n] :
             file[n][j].from = adding[n].item.from => file[n][j].time <= adding[n].item.time

\* One writer at a time: it has what is in the file, or what it kept of it.
SameFile(n) ==
    /\ adding[n] # None => client[n] = None /\ adding[n].items = file[n]
    /\ client[n] # None => Purged(client[n].items, file[n])

FirstOK(n) ==
    \A j, k \in DOMAIN file[n] :
        IsFirst(file[n], k) /\ file[n][k].from = file[n][j].from /\ ~Old(file[n][j])
            => file[n][k].time >= file[n][j].time

Ordered(n) == Sorted(n) /\ Older(n) /\ (n \notin raced => SameFile(n) /\ FirstOK(n))

\* The file has the load of p, or had it before a client took it out.
InFile(n, p) ==
    \/ n \in shrunk /\ \A j \in DOMAIN file[n] : file[n][j].from = p => Old(file[n][j])
    \/ \E k \in DOMAIN file[n] :
         file[n][k].from = p /\ IsFirst(file[n], k) /\ file[n][k].avg = last[p]

\* Where n will find the load that p reported last: on the wire, with the daemon or in
\* the file.
OnWire(q, avg) ==
    \E i \in DOMAIN q : /\ IsLoad(q[i]) /\ q[i].avg = avg
                        /\ \A j \in DOMAIN q : j > i => ~IsLoad(q[j])

LatestAt(n, p) ==
    \/ OnWire(wire[p][n], last[p])
    \/ /\ \A i \in DOMAIN wire[p][n] : ~IsLoad(wire[p][n][i])
       /\ IF adding[n] # None /\ adding[n].item.from = p
          THEN adding[n].item.avg = last[p] ELSE InFile(n, p)

ToldOK(n, p) ==
    /\ n \in Computer /\ p \in Computer /\ p \in Peers(n) /\ n \in wants[p]
    /\ n \notin raced => LatestAt(n, p)

\* The inductive invariant.
FInv ==
    /\ Typed
    /\ \A n \in Computer : Ordered(n)
    /\ \A t \in told : t = <<t[1], t[2]>> /\ ToldOK(t[1], t[2])

-----------------------------------------------------------------------------
(* The loads that two wires have.                                           *)

\* Those of q are those of r, d places further.
Sub(q, r, d) == \A i \in DOMAIN q : IsLoad(q[i]) => i + d \in DOMAIN r /\ r[i + d] = q[i]

NoNew(q, r) == \E d \in {0, 1} : Sub(q, r, d)
SameLoads(q, r) == \E d \in {0, 1} : Sub(q, r, d) /\ Sub(r, q, -d)

LEMMA SameItself == ASSUME NEW q \in Seq(Word) PROVE SameLoads(q, q) /\ NoNew(q, q)
<1>1. \A i \in DOMAIN q : i + 0 = i /\ i + (-0) = i
  OBVIOUS
<1> QED BY <1>1 DEF SameLoads, NoNew, Sub

LEMMA NoLoads ==
    ASSUME NEW q, q = <<>> \/ q = <<[cmd |-> "REGISTER"]>>, NEW r
    PROVE  NoNew(q, r)
<1>1. \A i \in DOMAIN q : ~IsLoad(q[i])
  BY DEF IsLoad
<1> QED BY <1>1 DEF NoNew, Sub

LEMMA SameAppend ==
    ASSUME NEW q \in Seq(Word)
    PROVE  /\ SameLoads(Append(q, [cmd |-> "REGISTER"]), q)
           /\ NoNew(Append(q, [cmd |-> "REGISTER"]), q)
<1>1. PICK m : m = [cmd |-> "REGISTER"]
  OBVIOUS
<1>2. PICK a : a = Append(q, m)
  OBVIOUS
<1>3. /\ DOMAIN q = 1..Len(q) /\ DOMAIN a = 1..(Len(q) + 1) /\ Len(q) \in Nat
      /\ a[Len(q) + 1] = m /\ \A i \in 1..Len(q) : a[i] = q[i]
  BY <1>2
<1>4. ~IsLoad(m)
  BY <1>1 DEF IsLoad
<1>5. Sub(a, q, 0) /\ Sub(q, a, -0)
  BY <1>3, <1>4 DEF Sub
<1> QED BY <1>1, <1>2, <1>5 DEF SameLoads, NoNew

LEMMA TailLoads ==
    ASSUME NEW q \in Seq(Word), q # <<>>
    PROVE  NoNew(Tail(q), q) /\ Sub(Tail(q), q, 1) /\ (~IsLoad(Head(q)) => SameLoads(Tail(q), q))
<1>1. PICK t : t = Tail(q)
  OBVIOUS
<1>2. /\ DOMAIN q = 1..Len(q) /\ DOMAIN t = 1..(Len(q) - 1) /\ Len(q) \in Nat /\ Len(q) > 0
      /\ \A i \in 1..(Len(q) - 1) : t[i] = q[i + 1]
      /\ Head(q) = q[1]
  BY <1>1
<1>3. Sub(t, q, 1)
  BY <1>2 DEF Sub
<1>4. ASSUME ~IsLoad(Head(q)) PROVE Sub(q, t, -1)
  <2>1. ASSUME NEW i \in DOMAIN q, IsLoad(q[i])
        PROVE  i + (-1) \in DOMAIN t /\ t[i + (-1)] = q[i]
    <3>1. i # 1 /\ i \in 1..Len(q)
      BY <1>2, <1>4, <2>1
    <3>2. i + (-1) \in 1..(Len(q) - 1) /\ (i + (-1)) + 1 = i
      BY <1>2, <3>1
    <3> QED BY <1>2, <3>2
  <2> QED BY <2>1 DEF Sub
<1> QED BY <1>1, <1>3, <1>4 DEF SameLoads, NoNew

\* A step that is not about the files and brings no load.
Calm ==
    /\ UNCHANGED <<file, adding, client, raced, shrunk>> /\ time' >= time
    /\ \A n, p \in Computer : NoNew(wire'[p][n], wire[p][n])
    /\ told' \subseteq told
    /\ \A n, p \in Computer : <<n, p>> \in told' =>
         /\ SameLoads(wire'[p][n], wire[p][n]) /\ last'[p] = last[p]
         /\ p \in Peers(n)' /\ n \in wants'[p]

\* Such steps that change no link and no registration but to add to them.
LEMMA QuietCalm ==
    ASSUME FInv, UNCHANGED <<file, adding, client, raced, shrunk, told, last>>, time' >= time,
           linked \subseteq linked', \A p \in Computer : wants[p] \subseteq wants'[p] \cup Local,
           \A n, p \in Computer : /\ NoNew(wire'[p][n], wire[p][n])
                                  /\ p \in Peers(n) => SameLoads(wire'[p][n], wire[p][n])
    PROVE  Calm
<1>1. ASSUME NEW n \in Computer, NEW p \in Computer, <<n, p>> \in told
      PROVE  p \in Peers(n) /\ n \in wants[p] /\ p \in Peers(n)' /\ n \in wants'[p]
  <2>1. <<n, p>>[1] = n /\ <<n, p>>[2] = p
    OBVIOUS
  <2>2. p \in Peers(n) /\ n \in wants[p]
    BY <1>1, <2>1 DEF FInv, ToldOK
  <2> QED BY <2>2, LocalAssumption DEF Peers
<1> QED BY <1>1 DEF Calm

\* A daemon or a link goes, and with it what is known to be told.
LEMMA GoneCalm ==
    ASSUME FInv, UNCHANGED <<time, file, adding, client, raced, shrunk>>,
           NEW ls \in SUBSET linked, linked' = linked \ ls, wire' = Cleared(ls),
           told' \subseteq told,
           \A n, p \in Computer : <<n, p>> \in told' =>
             /\ <<n, p>> \notin ls /\ <<p, n>> \notin ls
             /\ n \in Broken(ls, wants)[p] => n \in wants'[p]
             /\ last'[p] = last[p]
    PROVE  Calm
<1>0. time \in Nat /\ wire \in [Computer -> [Computer -> Seq(Word)]]
  BY BoundAssumption DEF FInv, Typed, IInv, Types
<1>1. ASSUME NEW n \in Computer, NEW p \in Computer PROVE NoNew(wire'[p][n], wire[p][n])
  <2>1. wire'[p][n] = <<>> \/ wire'[p][n] = wire[p][n]
    BY DEF Cleared
  <2> QED BY <1>0, <2>1, NoLoads, SameItself
<1>2. ASSUME NEW n \in Computer, NEW p \in Computer, <<n, p>> \in told'
      PROVE  /\ SameLoads(wire'[p][n], wire[p][n]) /\ last'[p] = last[p]
             /\ p \in Peers(n)' /\ n \in wants'[p]
  <2>1. <<n, p>>[1] = n /\ <<n, p>>[2] = p
    OBVIOUS
  <2>2. p \in Peers(n) /\ n \in wants[p]
    BY <1>2, <2>1 DEF FInv, ToldOK
  <2>3. wire'[p][n] = wire[p][n]
    BY <1>2 DEF Cleared
  <2>4. p \in Peers(n)'
    BY <1>2, <2>2 DEF Peers
  <2>5. n \in Broken(ls, wants)[p]
    BY <1>2, <2>2 DEF Broken
  <2> QED BY <1>0, <1>2, <2>3, <2>4, <2>5, SameItself
<1> QED BY <1>0, <1>1, <1>2 DEF Calm

LEMMA LinkUpCalm ==
    ASSUME FInv, NEW l \in Links, LinkUp(l)
    PROVE  Calm
<1>1. /\ l \notin linked /\ linked' = linked \cup {l}
      /\ wire' = [wire EXCEPT ![l[1]][l[2]] = <<[cmd |-> "REGISTER"]>>,
                              ![l[2]][l[1]] = <<[cmd |-> "REGISTER"]>>]
      /\ UNCHANGED <<time, last, wants, file, adding, client, raced, shrunk, told>>
  BY DEF LinkUp
<1>0. /\ time \in Nat /\ wire \in [Computer -> [Computer -> Seq(Word)]]
      /\ linked \subseteq Links
  BY BoundAssumption DEF FInv, Typed, IInv, Types
<1>2. PICK q : q = <<[cmd |-> "REGISTER"]>>
  OBVIOUS
<1>3. \A n, p \in Computer :
        wire'[p][n] = wire[p][n]
        \/ (wire'[p][n] = q /\ (<<n, p>> = <<l[1], l[2]>> \/ <<n, p>> = <<l[2], l[1]>>))
  BY <1>0, <1>1, <1>2, LinkEnds
<1>4. ASSUME NEW n \in Computer, NEW p \in Computer
      PROVE  /\ NoNew(wire'[p][n], wire[p][n])
             /\ p \in Peers(n) => SameLoads(wire'[p][n], wire[p][n])
  <2>1. CASE wire'[p][n] = wire[p][n]
    BY <1>0, <2>1, SameItself
  <2>2. CASE wire'[p][n] = q /\ (<<n, p>> = <<l[1], l[2]>> \/ <<n, p>> = <<l[2], l[1]>>)
    <3>1. p \notin Peers(n)
      BY <1>0, <1>1, <2>2, LinkEnds DEF Peers
    <3> QED BY <1>2, <2>2, <3>1, NoLoads
  <2> QED BY <1>3, <2>1, <2>2
<1>5. /\ time' >= time /\ linked \subseteq linked'
      /\ \A p \in Computer : wants[p] \subseteq wants'[p] \cup Local
  BY <1>0, <1>1
<1> QED BY <1>1, <1>4, <1>5, QuietCalm

LEMMA LinkDownCalm ==
    ASSUME FInv, NEW l \in Links, LinkDown(l)
    PROVE  Calm
<1>1. PICK ls : ls = {l}
  OBVIOUS
<1>2. /\ l \in linked /\ ls \in SUBSET linked /\ linked' = linked \ ls /\ wire' = Cleared(ls)
      /\ wants' = Broken(ls, wants) /\ told' = told \ {l, <<l[2], l[1]>>}
      /\ UNCHANGED <<time, last, file, adding, client, raced, shrunk>>
  BY <1>1 DEF LinkDown
<1>3. ASSUME NEW n \in Computer, NEW p \in Computer, <<n, p>> \in told'
      PROVE  <<n, p>> \notin ls /\ <<p, n>> \notin ls
  <2>1. <<n, p>> # l /\ <<n, p>> # <<l[2], l[1]>>
    BY <1>2, <1>3
  <2> QED BY <1>1, <2>1, LinkEnds
<1> QED BY <1>2, <1>3, GoneCalm

LEMMA DieCalm ==
    ASSUME FInv, NEW m \in Computer, Die(m),
           UNCHANGED <<time, file, adding, client, raced, shrunk>>
    PROVE  Calm
<1>1. PICK ls : ls = {l \in linked : m \in {l[1], l[2]}}
  OBVIOUS
<1>2. /\ ls \in SUBSET linked /\ linked' = linked \ ls /\ wire' = Cleared(ls)
      /\ wants' = [Broken(ls, wants) EXCEPT ![m] = {}] /\ last' = [last EXCEPT ![m] = 0]
      /\ told' = {t \in told : m \notin {t[1], t[2]}}
  BY <1>1 DEF Die
<1>3. last \in [Computer -> Levels]
  BY DEF FInv, Typed, Stored
<1>4. ASSUME NEW n \in Computer, NEW p \in Computer, <<n, p>> \in told'
      PROVE  /\ <<n, p>> \notin ls /\ <<p, n>> \notin ls
             /\ n \in Broken(ls, wants)[p] => n \in wants'[p]
             /\ last'[p] = last[p]
  <2>1. n # m /\ p # m
    BY <1>2, <1>4
  <2>2. wants'[p] = Broken(ls, wants)[p]
    BY <1>2, <2>1 DEF Broken
  <2> QED BY <1>1, <1>2, <1>3, <2>1, <2>2
<1>5. told' \subseteq told
  BY <1>2
<1> QED BY <1>2, <1>4, <1>5, GoneCalm

\* Every other step but those that report a load or write a file.
LEMMA CalmSteps ==
    ASSUME FInv
    PROVE  /\ Tick => Calm
           /\ \A n, p \in Computer : ReadRegister(n, p) \/ Listen(n, p) => Calm
           /\ \A n \in Computer, c \in Local : LocalRegister(n, c) \/ Unregister(n, c) => Calm
           /\ \A n \in Computer : Restart(n) => Calm
           /\ \A n \in Reporters, level \in Levels : LoadChanges(n, level) => Calm
           /\ UNCHANGED vars => Calm
<1>0. /\ time \in Nat /\ wire \in [Computer -> [Computer -> Seq(Word)]]
      /\ wants \in [Computer -> SUBSET (Computer \cup Local)]
  BY BoundAssumption DEF FInv, Typed, IInv, Types
<1>a. \A n, p \in Computer : NoNew(wire[p][n], wire[p][n]) /\ SameLoads(wire[p][n], wire[p][n])
  BY <1>0, SameItself
<1>b. ASSUME UNCHANGED <<file, adding, client, raced, shrunk, told, last, linked, wire, wants>>,
             time' >= time
      PROVE  Calm
  BY <1>a, <1>b, QuietCalm
<1>1. ASSUME Tick PROVE Calm
  BY <1>0, <1>1, <1>b DEF Tick
<1>2. ASSUME NEW n \in Computer, NEW p \in Computer, ReadRegister(n, p) PROVE Calm
  <2>1. /\ wire[p][n] # <<>> /\ Head(wire[p][n]).cmd = "REGISTER"
        /\ wire' = [wire EXCEPT ![p][n] = Tail(@)]
        /\ wants' = [wants EXCEPT ![n] = @ \cup {p}]
        /\ UNCHANGED <<time, last, linked, file, adding, client, raced, shrunk, told>>
    BY <1>2 DEF ReadRegister, Register
  <2>2. ~IsLoad(Head(wire[p][n]))
    BY <2>1 DEF IsLoad
  <2>3. NoNew(Tail(wire[p][n]), wire[p][n]) /\ SameLoads(Tail(wire[p][n]), wire[p][n])
    BY <1>0, <2>1, <2>2, TailLoads
  <2>4. \A a, b \in Computer : NoNew(wire'[b][a], wire[b][a]) /\ SameLoads(wire'[b][a], wire[b][a])
    BY <1>0, <1>a, <2>1, <2>3
  <2>5. \A a \in Computer : wants[a] \subseteq wants'[a]
    BY <1>0, <2>1
  <2> QED BY <1>0, <2>1, <2>4, <2>5, QuietCalm
<1>3. ASSUME NEW n \in Computer, NEW p \in Computer, Listen(n, p) PROVE Calm
  <2>1. /\ wire' = [wire EXCEPT ![n][p] = Append(@, [cmd |-> "REGISTER"])]
        /\ UNCHANGED <<time, last, wants, linked, file, adding, client, raced, shrunk, told>>
    BY <1>3 DEF Listen, RegisterFor
  <2>2. /\ NoNew(Append(wire[n][p], [cmd |-> "REGISTER"]), wire[n][p])
        /\ SameLoads(Append(wire[n][p], [cmd |-> "REGISTER"]), wire[n][p])
    BY <1>0, SameAppend
  <2>3. \A a, b \in Computer : NoNew(wire'[b][a], wire[b][a]) /\ SameLoads(wire'[b][a], wire[b][a])
    BY <1>0, <1>a, <2>1, <2>2
  <2> QED BY <1>0, <2>1, <2>3, QuietCalm
<1>4. ASSUME NEW n \in Computer, NEW c \in Local, LocalRegister(n, c) PROVE Calm
  <2>1. /\ wants' = [wants EXCEPT ![n] = @ \cup {c}]
        /\ UNCHANGED <<time, last, linked, wire, file, adding, client, raced, shrunk, told>>
    BY <1>4 DEF LocalRegister, Register
  <2>2. \A a \in Computer : wants[a] \subseteq wants'[a]
    BY <1>0, <2>1
  <2> QED BY <1>0, <1>a, <2>1, <2>2, QuietCalm
<1>5. ASSUME NEW n \in Computer, NEW c \in Local, Unregister(n, c) PROVE Calm
  <2>1. UNCHANGED <<time, file, adding, client, raced, shrunk>>
    BY <1>5 DEF Unregister
  <2>2. CASE Die(n)
    BY <2>1, <2>2, DieCalm
  <2>3. CASE /\ wants' = [wants EXCEPT ![n] = @ \ {c}]
             /\ UNCHANGED <<last, timer, linked, wire, crashed, told>>
    <3>1. \A a \in Computer : wants[a] \subseteq wants'[a] \cup Local
      BY <1>0, <2>3
    <3> QED BY <1>0, <1>a, <2>1, <2>3, <3>1, QuietCalm
  <2> QED BY <1>5, <2>2, <2>3 DEF Unregister
<1>6. ASSUME NEW n \in Computer, Restart(n) PROVE Calm
  BY <1>0, <1>6, <1>b DEF Restart
<1>7. ASSUME NEW n \in Reporters, NEW level \in Levels, LoadChanges(n, level) PROVE Calm
  BY <1>0, <1>7, <1>b DEF LoadChanges
<1>8. ASSUME UNCHANGED vars PROVE Calm
  BY <1>0, <1>8, <1>b DEF vars
<1> QED BY <1>1, <1>2, <1>3, <1>4, <1>5, <1>6, <1>7, <1>8

-----------------------------------------------------------------------------
(* The files, step by step.                                                 *)

LEMMA SortedType ==
    ASSUME Typed, NEW n \in Computer
    PROVE  /\ time \in Nat /\ HowOld \in Nat
           /\ \A p \in Computer : \A i \in DOMAIN wire[p][n] :
                /\ i \in Nat /\ i >= 1
                /\ IsLoad(wire[p][n][i]) => wire[p][n][i].time \in Nat
           /\ \A j \in DOMAIN file[n] : file[n][j] \in Record /\ file[n][j].time \in Nat
           /\ adding[n] # None => adding[n] \in Adding /\ adding[n].item \in Record
                                  /\ adding[n].item.time \in Nat
<1>1. wire \in [Computer -> [Computer -> Seq(Word)]] /\ time \in 0..MaxTime /\ MaxTime \in Nat
  BY BoundAssumption DEF Typed, IInv, Types
<1>2. ASSUME NEW p \in Computer, NEW i \in DOMAIN wire[p][n]
      PROVE  /\ i \in Nat /\ i >= 1
             /\ IsLoad(wire[p][n][i]) => wire[p][n][i].time \in Nat
  <2>1. wire[p][n][i] \in Word /\ i \in Nat /\ i >= 1
    BY <1>1
  <2>2. \A m \in Word : IsLoad(m) => m.time \in Nat
    BY <1>1 DEF Word, Request, Report_, IsLoad
  <2> QED BY <2>1, <2>2
<1>3. \A r \in Record : r.time \in Nat
  BY <1>1 DEF Record
<1>4. file[n] \in Seq(Record) /\ adding[n] \in {None} \cup Adding
  BY DEF Typed, Stored
<1>5. \A j \in DOMAIN file[n] : file[n][j] \in Record
  BY <1>4
<1> QED BY <1>1, <1>2, <1>3, <1>4, <1>5, BoundAssumption DEF Adding

\* Nothing happens to the file of n but that time passes, and no load comes.
LEMMA CalmOrdered ==
    ASSUME Typed, Typed', NEW n \in Computer, Ordered(n),
           file'[n] = file[n], adding'[n] = adding[n], client'[n] = client[n],
           n \notin raced' => n \notin raced, time' >= time,
           \A p \in Computer : NoNew(wire'[p][n], wire[p][n])
    PROVE  Ordered(n)'
<1>0. time \in Nat /\ time' \in Nat /\ HowOld \in Nat /\ MaxTime \in Nat
  BY BoundAssumption DEF Typed, IInv, Types
<1>1. ASSUME NEW r \in Record PROVE Old(r) => Old(r)'
  BY <1>0 DEF Old, Record
<1>2. ASSUME NEW p \in Computer, NEW t, Before(n, p, t) PROVE Before(n, p, t)'
  BY <1>2 DEF Before
<1>3. ASSUME NEW p \in Computer, NEW i \in DOMAIN wire'[p][n], IsLoad(wire'[p][n][i])
      PROVE  /\ wire'[p][n][i].time <= time'
             /\ \A j \in DOMAIN wire'[p][n] : IsLoad(wire'[p][n][j]) /\ i < j =>
                  wire'[p][n][i].time <= wire'[p][n][j].time
             /\ \E t : t = wire'[p][n][i].time /\ Before(n, p, t)'
  <2>1. PICK d \in {0, 1} : Sub(wire'[p][n], wire[p][n], d)
    BY DEF NoNew
  <2>2. i + d \in DOMAIN wire[p][n] /\ wire[p][n][i + d] = wire'[p][n][i]
    BY <1>3, <2>1 DEF Sub
  <2>3. PICK t : t = wire[p][n][i + d].time
    OBVIOUS
  <2>4. t \in Nat /\ t <= time /\ Before(n, p, t)
        /\ \A j \in DOMAIN wire[p][n] : IsLoad(wire[p][n][j]) /\ i + d < j =>
             t <= wire[p][n][j].time
    BY <1>3, <2>2, <2>3, SortedType DEF Ordered, Sorted
  <2>5. t <= time'
    BY <1>0, <2>4
  <2>6. Before(n, p, t)'
    BY <1>2, <2>4
  <2>7. \A j \in DOMAIN wire'[p][n] : j \in Nat /\ i \in Nat
    BY SortedType DEF Typed, IInv, Types
  <2>8. ASSUME NEW j \in DOMAIN wire'[p][n], IsLoad(wire'[p][n][j]), i < j
        PROVE  t <= wire'[p][n][j].time
    <3>1. j + d \in DOMAIN wire[p][n] /\ wire[p][n][j + d] = wire'[p][n][j]
      BY <2>1, <2>8 DEF Sub
    <3>2. i + d < j + d
      BY <2>7, <2>8
    <3> QED BY <2>4, <2>8, <3>1, <3>2
  <2>9. t = wire'[p][n][i].time
    BY <2>2, <2>3
  <2> QED BY <2>5, <2>6, <2>8, <2>9
<1>4. Sorted(n)'
  BY <1>3 DEF Sorted, Before
<1>5. ASSUME NEW p \in Computer PROVE Before(n, p, time)'
  <2>1. /\ adding[n] # None /\ adding[n].item.from = p => adding[n].item.time <= time
        /\ n \notin raced =>
             \A j \in DOMAIN file[n] : file[n][j].from = p => file[n][j].time <= time
    BY DEF Ordered, Older, Before
  <2>2. /\ adding[n] # None => adding[n].item.time \in Nat
        /\ \A j \in DOMAIN file[n] : file[n][j].time \in Nat
    BY SortedType
  <2>3. adding'[n] # None /\ adding'[n].item.from = p => adding'[n].item.time <= time'
    BY <1>0, <2>1, <2>2
  <2>4. n \notin raced' =>
          \A j \in DOMAIN file'[n] : file'[n][j].from = p => file'[n][j].time <= time'
    BY <1>0, <2>1, <2>2
  <2> QED BY <2>3, <2>4 DEF Before
<1>6. Older(n)'
  BY <1>5 DEF Ordered, Older
<1>7. \A j \in DOMAIN file[n] : file[n][j] \in Record
  BY SortedType
<1>8. ASSUME n \notin raced' PROVE SameFile(n)' /\ FirstOK(n)'
  <2>1. n \notin raced /\ SameFile(n) /\ FirstOK(n)
    BY <1>8 DEF Ordered
  <2>2. FirstOK(n)'
    BY <1>1, <1>7, <2>1 DEF FirstOK
  <2>3. ASSUME client[n] # None PROVE Purged(client[n].items, file[n])'
    BY <1>1, <1>7, <2>1, <2>3 DEF SameFile, Purged
  <2>4. SameFile(n)'
    BY <2>1, <2>3 DEF SameFile
  <2> QED BY <2>2, <2>4
<1> QED BY <1>4, <1>6, <1>8 DEF Ordered

\* A new load is the newest.
LEMMA ReportOrdered ==
    ASSUME Typed, Typed', NEW m \in Computer, Report(m), NEW n \in Computer, Ordered(n)
    PROVE  Ordered(n)'
<1>1. PICK r : r = [cmd |-> "LOADAVG", avg |-> load[m].now, time |-> time]
  OBVIOUS
<1>2. /\ wire' = [wire EXCEPT ![m] = [p \in Computer |->
                    IF p \in Listeners(m) THEN Append(wire[m][p], r) ELSE wire[m][p]]]
      /\ UNCHANGED <<time, file, adding, client, raced>>
  BY <1>1 DEF Report
<1>3. wire \in [Computer -> [Computer -> Seq(Word)]] /\ time \in Nat /\ r.time = time
  BY <1>1, BoundAssumption DEF Typed, IInv, Types
<1>4. /\ \A p \in Computer : p # m => wire'[p][n] = wire[p][n]
      /\ wire'[m][n] = wire[m][n] \/ wire'[m][n] = Append(wire[m][n], r)
  BY <1>2, <1>3
<1>5. PICK q : q = wire[m][n]
  OBVIOUS
<1>6. q \in Seq(Word) /\ DOMAIN q = 1..Len(q) /\ Len(q) \in Nat
  BY <1>3, <1>5
<1>7. CASE wire'[m][n] = wire[m][n]
  <2>1. \A p \in Computer : NoNew(wire'[p][n], wire[p][n])
    BY <1>3, <1>4, <1>7, SameItself
  <2> QED BY <1>2, <1>3, <2>1, CalmOrdered
<1>8. CASE wire'[m][n] = Append(q, r)
  <2>1. PICK a : a = wire'[m][n]
    OBVIOUS
  <2>2. /\ DOMAIN a = 1..(Len(q) + 1) /\ a[Len(q) + 1] = r
        /\ \A i \in 1..Len(q) : a[i] = q[i]
    BY <1>6, <1>8, <2>1
  <2>3. Older(n) /\ Sorted(n) /\ Before(n, m, time)
    BY DEF Ordered, Older
  <2>4. ASSUME NEW i \in DOMAIN a, IsLoad(a[i])
        PROVE  /\ a[i].time <= time
               /\ \A j \in DOMAIN a : IsLoad(a[j]) /\ i < j => a[i].time <= a[j].time
               /\ Before(n, m, a[i].time)
    <3>1. CASE i = Len(q) + 1
      <4>1. \A j \in DOMAIN a : ~(i < j)
        BY <1>6, <2>2, <3>1
      <4> QED BY <1>3, <2>2, <2>3, <3>1, <4>1
    <3>2. CASE i \in 1..Len(q)
      <4>1. /\ q[i] = a[i] /\ q[i].time <= time /\ Before(n, m, q[i].time)
            /\ \A j \in DOMAIN q : IsLoad(q[j]) /\ i < j => q[i].time <= q[j].time
        BY <1>5, <1>6, <2>2, <2>3, <2>4, <3>2 DEF Sorted
      <4>2. ASSUME NEW j \in DOMAIN a, IsLoad(a[j]), i < j PROVE a[i].time <= a[j].time
        <5>1. CASE j = Len(q) + 1
          BY <1>3, <2>2, <4>1, <5>1
        <5>2. CASE j \in 1..Len(q)
          BY <1>6, <2>2, <4>1, <4>2, <5>2
        <5> QED BY <1>6, <2>2, <5>1, <5>2
      <4> QED BY <4>1, <4>2
    <3> QED BY <1>6, <2>2, <3>1, <3>2
  <2>5. ASSUME NEW p \in Computer, NEW i \in DOMAIN wire'[p][n], IsLoad(wire'[p][n][i])
        PROVE  /\ wire'[p][n][i].time <= time
               /\ \A j \in DOMAIN wire'[p][n] : IsLoad(wire'[p][n][j]) /\ i < j =>
                    wire'[p][n][i].time <= wire'[p][n][j].time
               /\ Before(n, p, wire'[p][n][i].time)
    <3>1. CASE p = m
      BY <2>1, <2>4, <2>5, <3>1
    <3>2. CASE p # m
      BY <1>4, <2>3, <2>5, <3>2 DEF Sorted
    <3> QED BY <3>1, <3>2
  <2>6. Sorted(n)'
    BY <1>2, <2>5 DEF Sorted, Before
  <2>7. Older(n)'
    BY <1>2, <2>3 DEF Older, Before
  <2>8. n \notin raced => SameFile(n)' /\ FirstOK(n)'
    BY <1>2 DEF Ordered, SameFile, FirstOK, Purged, Old
  <2> QED BY <1>2, <2>6, <2>7, <2>8 DEF Ordered
<1> QED BY <1>4, <1>5, <1>7, <1>8

\* What changes nothing for a computer.
LEMMA SameOrdered ==
    ASSUME Typed, Typed', NEW n \in Computer, Ordered(n), time' = time,
           file'[n] = file[n], adding'[n] = adding[n], client'[n] = client[n],
           n \in raced => n \in raced',
           \A p \in Computer : wire'[p][n] = wire[p][n]
    PROVE  Ordered(n)'
<1>1. wire \in [Computer -> [Computer -> Seq(Word)]] /\ time \in Nat
  BY BoundAssumption DEF Typed, IInv, Types
<1> QED BY <1>1, SameItself, CalmOrdered

LEMMA StartAddingOrdered ==
    ASSUME Typed, Typed', NEW m \in Computer, NEW q \in Computer, StartAdding(m, q),
           NEW n \in Computer, Ordered(n)
    PROVE  Ordered(n)'
<1>1. /\ adding[m] = None /\ wire[q][m] # <<>> /\ IsLoad(Head(wire[q][m]))
      /\ wire' = [wire EXCEPT ![q][m] = Tail(@)]
      /\ UNCHANGED <<time, file, client>>
  BY DEF StartAdding, IsLoad
<1>2. /\ wire \in [Computer -> [Computer -> Seq(Word)]] /\ time \in Nat
      /\ adding \in [Computer -> {None} \cup Adding]
  <2>1. wire \in [Computer -> [Computer -> Seq(Word)]] /\ time \in Nat
    BY BoundAssumption DEF Typed, IInv, Types
  <2>2. adding \in [Computer -> {None} \cup Adding]
    BY DEF Typed, Stored
  <2> QED BY <2>1, <2>2
<1>3. CASE n # m
  <2>1. adding'[n] = adding[n] /\ (n \in raced => n \in raced')
    BY <1>2, <1>3 DEF StartAdding
  <2>2. \A p \in Computer : wire'[p][n] = wire[p][n]
    BY <1>1, <1>2, <1>3
  <2> QED BY <1>1, <2>1, <2>2, SameOrdered
<1>4. CASE n = m
  <2>1. PICK h : h = Head(wire[q][n])
    OBVIOUS
  <2>2. /\ h = wire[q][n][1] /\ 1 \in DOMAIN wire[q][n] /\ IsLoad(h)
        /\ h.avg \in Nat /\ h.time \in Nat
    <3>1. wire[q][n] \in Seq(Word) /\ wire[q][n] # <<>>
      BY <1>1, <1>2, <1>4
    <3>2. h \in Word /\ h = wire[q][n][1] /\ 1 \in DOMAIN wire[q][n]
      BY <2>1, <3>1
    <3>3. \A w \in Word : IsLoad(w) => w.avg \in Levels /\ w.time \in Nat
      BY BoundAssumption DEF Word, Request, Report_, IsLoad
    <3> QED BY <1>1, <1>4, <2>1, <3>2, <3>3, LevelsAssumption
  <2>3. ~Invalid(h.avg)
    BY <2>2 DEF Invalid
  <2>4. PICK a : a = [items |-> file[n], item |-> [from |-> q, avg |-> h.avg, time |-> h.time]]
    OBVIOUS
  <2>5. /\ adding' = [adding EXCEPT ![n] = a]
        /\ raced' = IF client[n] # None THEN raced \cup {n} ELSE raced
    BY <1>4, <2>1, <2>3, <2>4 DEF StartAdding
  <2>6. adding'[n] = a /\ a # None /\ a.items = file[n] /\ a.item.from = q /\ a.item.time = h.time
    <3>1. a.items = file[n] /\ a.item.from = q /\ a.item.time = h.time
      BY <2>4
    <3>2. a # None
      <4>1. "items" \in DOMAIN a /\ "items" \notin DOMAIN None
        BY <2>4 DEF None
      <4> QED BY <4>1
    <3> QED BY <1>2, <2>5, <3>1, <3>2
  <2>7. /\ h.time <= time
        /\ \A j \in DOMAIN wire[q][n] :
             IsLoad(wire[q][n][j]) /\ 1 < j => h.time <= wire[q][n][j].time
        /\ n \notin raced =>
             \A j \in DOMAIN file[n] : file[n][j].from = q => file[n][j].time <= h.time
    BY <2>2 DEF Ordered, Sorted, Before
  <2>8. n \notin raced' => n \notin raced /\ client[n] = None
    BY <2>5
  <2>9. ASSUME NEW p \in Computer, NEW t,
               \A j \in DOMAIN file[n] :
                   n \notin raced /\ file[n][j].from = p => file[n][j].time <= t,
               p = q => h.time <= t
        PROVE  Before(n, p, t)'
    <3>1. n \notin raced' =>
            \A j \in DOMAIN file'[n] : file'[n][j].from = p => file'[n][j].time <= t
      BY <1>1, <2>8, <2>9
    <3> QED BY <2>6, <2>9, <3>1 DEF Before
  <2>10. ASSUME NEW p \in Computer, NEW i \in DOMAIN wire'[p][n], IsLoad(wire'[p][n][i])
         PROVE  /\ wire'[p][n][i].time <= time
                /\ \A j \in DOMAIN wire'[p][n] : IsLoad(wire'[p][n][j]) /\ i < j =>
                     wire'[p][n][i].time <= wire'[p][n][j].time
                /\ \E t : t = wire'[p][n][i].time /\ Before(n, p, t)'
    <3>1. PICK d \in {0, 1} : Sub(wire'[p][n], wire[p][n], d) /\ (p = q => d = 1)
      <4>1. CASE p = q
        <5>1. wire'[p][n] = Tail(wire[p][n]) /\ wire[p][n] \in Seq(Word) /\ wire[p][n] # <<>>
          BY <1>1, <1>2, <1>4, <4>1
        <5> QED BY <5>1, TailLoads
      <4>2. CASE p # q
        <5>1. wire'[p][n] = wire[p][n]
          BY <1>1, <1>2, <1>4, <4>2
        <5>2. \A k \in DOMAIN wire[p][n] : k + 0 = k
          <6>1. wire[p][n] \in Seq(Word)
            BY <1>2
          <6> QED BY <6>1
        <5> QED BY <4>2, <5>1, <5>2 DEF Sub
      <4> QED BY <4>1, <4>2
    <3>2. i + d \in DOMAIN wire[p][n] /\ wire[p][n][i + d] = wire'[p][n][i]
      BY <2>10, <3>1 DEF Sub
    <3>3. PICK t : t = wire[p][n][i + d].time
      OBVIOUS
    <3>4. /\ t <= time /\ Before(n, p, t)
          /\ \A j \in DOMAIN wire[p][n] : IsLoad(wire[p][n][j]) /\ i + d < j =>
               t <= wire[p][n][j].time
      BY <2>10, <3>2, <3>3 DEF Ordered, Sorted
    <3>5. \A j \in DOMAIN wire'[p][n] : j \in Nat /\ j >= 1 /\ i \in Nat /\ i >= 1
      <4>1. wire'[p][n] \in Seq(Word)
        BY DEF Typed, IInv, Types
      <4> QED BY <4>1
    <3>6. ASSUME NEW j \in DOMAIN wire'[p][n], IsLoad(wire'[p][n][j]), i < j
          PROVE  t <= wire'[p][n][j].time
      <4>1. j + d \in DOMAIN wire[p][n] /\ wire[p][n][j + d] = wire'[p][n][j]
        BY <3>1, <3>6 DEF Sub
      <4>2. i + d < j + d
        BY <3>5, <3>6
      <4> QED BY <3>4, <3>6, <4>1, <4>2
    <3>7. p = q => h.time <= t
      <4>1. p = q => i + d \in Nat /\ 1 < i + d
        BY <3>1, <3>5
      <4> QED BY <2>7, <2>10, <3>2, <3>3, <4>1
    <3>8. Before(n, p, t)'
      BY <2>9, <3>4, <3>7 DEF Before
    <3> QED BY <3>2, <3>3, <3>4, <3>6, <3>8
  <2>11. Sorted(n)'
    BY <1>1, <2>10 DEF Sorted, Before
  <2>12. Older(n)'
    <3>1. ASSUME NEW p \in Computer PROVE Before(n, p, time)'
      <4>1. Before(n, p, time)
        BY DEF Ordered, Older
      <4>2. \E t : t = time /\ Before(n, p, t)'
        BY <2>7, <2>9, <4>1 DEF Before
      <4> QED BY <1>1, <4>2 DEF Before
    <3>2. n \notin raced' =>
            \A j \in DOMAIN file[n] : file[n][j].from = q => file[n][j].time <= h.time
      BY <2>7, <2>8
    <3> QED BY <1>1, <2>6, <3>1, <3>2 DEF Older
  <2>13. n \notin raced' => SameFile(n)' /\ FirstOK(n)'
    BY <1>1, <2>6, <2>8 DEF Ordered, SameFile, FirstOK, Old
  <2> QED BY <2>11, <2>12, <2>13 DEF Ordered
<1> QED BY <1>3, <1>4

\* The daemon writes what is in the file, with the new record for the old one.
LEMMA FinishAddingOrdered ==
    ASSUME Typed, Typed', NEW m \in Computer, FinishAdding(m), NEW n \in Computer, Ordered(n)
    PROVE  Ordered(n)'
<1>1. /\ adding[m] # None /\ Save(m, Add(adding[m].items, adding[m].item))
      /\ adding' = [adding EXCEPT ![m] = None]
      /\ UNCHANGED <<time, wire, client, raced>>
  BY DEF FinishAdding, Unused
<1>2. /\ file \in [Computer -> Seq(Record)] /\ adding \in [Computer -> {None} \cup Adding]
      /\ file' = [file EXCEPT ![m] = Overwritten(@, Add(adding[m].items, adding[m].item))]
  BY <1>1 DEF Typed, Stored, Save
<1>3. CASE n # m
  BY <1>1, <1>2, <1>3, SameOrdered
<1>4. CASE n = m
  <2>1. PICK r : r = adding[n].item
    OBVIOUS
  <2>2. r \in Record /\ r.time \in Nat /\ adding'[n] = None /\ adding[n] # None
    BY <1>1, <1>2, <1>4, <2>1, SortedType
  <2>3. PICK F \in Seq(Record) : F = file[n]
    BY <1>2
  <2>4. ASSUME n \notin raced PROVE file'[n] = Add(F, r)
    <3>1. adding[n].items = F
      BY <2>2, <2>3, <2>4 DEF Ordered, SameFile
    <3>2. Add(F, r) \in Seq(Record) /\ Len(Add(F, r)) >= Len(F)
      BY <2>2, AddFacts
    <3>3. Overwritten(F, Add(F, r)) = Add(F, r)
      BY <3>2, OverwrittenFacts DEF Saved
    <3> QED BY <1>2, <1>4, <2>1, <2>3, <3>1, <3>3
  <2>5. PICK N : N = Add(F, r)
    OBVIOUS
  <2>6. PICK i \in DOMAIN N :
          /\ N[i] = r /\ IsFirst(N, i)
          /\ \A j \in DOMAIN N \ {i} : j \in DOMAIN F /\ N[j] = F[j]
          /\ \A j \in DOMAIN F : F[j].from # r.from => j \in DOMAIN N /\ N[j] = F[j]
    BY <2>2, <2>5, AddFacts
  <2>7. N \in Seq(Record)
    BY <2>2, <2>5, AddFacts
  <2>8. ASSUME NEW p \in Computer, NEW t, Before(n, p, t) PROVE Before(n, p, t)'
    <3>1. ASSUME n \notin raced, NEW j \in DOMAIN N, N[j].from = p PROVE N[j].time <= t
      <4>1. CASE j = i
        BY <2>1, <2>2, <2>6, <2>8, <3>1, <4>1 DEF Before
      <4>2. CASE j # i
        BY <2>3, <2>6, <2>8, <3>1, <4>2 DEF Before
      <4> QED BY <4>1, <4>2
    <3>2. n \notin raced' =>
            \A j \in DOMAIN file'[n] : file'[n][j].from = p => file'[n][j].time <= t
      BY <1>1, <2>4, <2>5, <3>1
    <3> QED BY <2>2, <3>2 DEF Before
  <2>9. Sorted(n)'
    <3>1. ASSUME NEW p \in Computer, NEW k \in DOMAIN wire[p][n], IsLoad(wire[p][n][k])
          PROVE  \E t : t = wire[p][n][k].time /\ Before(n, p, t)'
      BY <2>8, <3>1 DEF Ordered, Sorted
    <3>2. \A p \in Computer : \A k \in DOMAIN wire[p][n] : IsLoad(wire[p][n][k]) =>
            /\ wire[p][n][k].time <= time
            /\ \A j \in DOMAIN wire[p][n] :
                 IsLoad(wire[p][n][j]) /\ k < j => wire[p][n][k].time <= wire[p][n][j].time
      BY DEF Ordered, Sorted
    <3> QED BY <1>1, <3>1, <3>2 DEF Sorted, Before
  <2>10. Older(n)'
    <3>1. ASSUME NEW p \in Computer PROVE Before(n, p, time)'
      <4>1. \E t : t = time /\ Before(n, p, t)'
        BY <2>8 DEF Ordered, Older
      <4> QED BY <1>1, <4>1 DEF Before
    <3> QED BY <2>2, <3>1 DEF Older
  <2>11. ASSUME n \notin raced PROVE FirstOK(n)'
    <3>1. ASSUME NEW j \in DOMAIN N, NEW k \in DOMAIN N,
                 IsFirst(N, k), N[k].from = N[j].from, ~Old(N[j])
          PROVE  N[k].time >= N[j].time
      <4>1. CASE N[j].from = r.from
        <5>1. k = i
          BY <2>6, <2>7, <3>1, <4>1, OneFirst
        <5>2. CASE j = i
          BY <2>2, <2>6, <5>1, <5>2
        <5>3. CASE j # i
          <6>1. j \in DOMAIN F /\ N[j] = F[j]
            BY <2>6, <5>3
          <6>2. F[j].time <= r.time
            BY <2>1, <2>2, <2>3, <2>11, <4>1, <6>1 DEF Ordered, Older
          <6>3. F[j].time \in Nat
            BY <2>3, <6>1, SortedType
          <6> QED BY <2>2, <2>6, <5>1, <6>1, <6>2, <6>3
        <5> QED BY <5>2, <5>3
      <4>2. CASE N[j].from # r.from
        <5>1. /\ j \in DOMAIN F /\ N[j] = F[j] /\ k \in DOMAIN F /\ N[k] = F[k]
          BY <2>6, <3>1, <4>2
        <5>2. ASSUME NEW h \in DOMAIN F, F[h].from = F[k].from PROVE k <= h
          <6>1. h \in DOMAIN N /\ N[h] = F[h]
            BY <2>6, <3>1, <4>2, <5>1, <5>2
          <6> QED BY <3>1, <5>1, <5>2, <6>1 DEF IsFirst
        <5>3. IsFirst(F, k)
          BY <5>2 DEF IsFirst
        <5> QED BY <2>3, <2>11, <3>1, <5>1, <5>3 DEF Ordered, FirstOK
      <4> QED BY <4>1, <4>2
    <3> QED BY <1>1, <2>4, <2>5, <2>11, <3>1 DEF FirstOK, Old
  <2>12. n \notin raced => SameFile(n)'
    <3>1. n \notin raced => client'[n] = None
      BY <1>1, <2>2 DEF Ordered, SameFile
    <3> QED BY <2>2, <3>1 DEF SameFile
  <2> QED BY <1>1, <2>9, <2>10, <2>11, <2>12 DEF Ordered
<1> QED BY <1>3, <1>4

LEMMA ClientLoadsOrdered ==
    ASSUME Typed, Typed', NEW m \in Computer, ClientLoads(m), NEW n \in Computer, Ordered(n)
    PROVE  Ordered(n)'
<1>1. /\ Recent(file[m]) # file[m] /\ client[m] = None
      /\ client' = [client EXCEPT ![m] = [items |-> Recent(file[m])]]
      /\ raced' = IF adding[m] # None THEN raced \cup {m} ELSE raced
      /\ UNCHANGED <<time, wire, file, adding>>
  BY DEF ClientLoads, Unused
<1>2. file \in [Computer -> Seq(Record)] /\ client \in [Computer -> {None} \cup Client]
  BY DEF Typed, Stored
<1>3. CASE n # m
  BY <1>1, <1>2, <1>3, SameOrdered
<1>4. CASE n = m
  <2>1. n \notin raced' => n \notin raced /\ adding[n] = None
    BY <1>1, <1>4
  <2>2. Purged(Recent(file[n]), file[n])
    BY <1>1, <1>2, <1>4, RecentFacts
  <2>3. client'[n].items = Recent(file[n])
    BY <1>1, <1>2, <1>4
  <2>4. \E I : I = client'[n].items /\ Purged(I, file[n])'
    BY <1>1, <2>2, <2>3 DEF Purged, Old
  <2>5. Sorted(n)' /\ Older(n)'
    BY <1>1, <2>1 DEF Ordered, Sorted, Older, Before
  <2>6. n \notin raced' => SameFile(n)'
    BY <1>1, <2>1, <2>4 DEF SameFile, Purged, Old
  <2>7. n \notin raced' => FirstOK(n)'
    BY <1>1, <2>1 DEF Ordered, FirstOK, Old
  <2> QED BY <2>5, <2>6, <2>7 DEF Ordered
<1> QED BY <1>3, <1>4

\* What a client saves over the file, the records after those it kept included.
LEMMA SavedPurged ==
    ASSUME NEW F \in Seq(Record), NEW I \in Seq(Record), Purged(I, F)
    PROVE  \E N : /\ N = Overwritten(F, I)
                  /\ \A j \in DOMAIN N : \E h \in DOMAIN F : N[j] = F[h]
                  /\ \A j \in DOMAIN F : IsFirst(F, j) /\ ~Old(F[j]) =>
                       \E k \in DOMAIN N : IsFirst(N, k) /\ N[k] = F[j]
<1>a. PICK N : N = Overwritten(F, I)
  OBVIOUS
<1>1. Saved(N, F, I)
  BY <1>a, OverwrittenFacts, Zenon
<1>2. ASSUME NEW j \in DOMAIN N PROVE \E h \in DOMAIN F : N[j] = F[h]
  BY <1>1 DEF Purged, Saved
<1>3. ASSUME NEW j \in DOMAIN F, IsFirst(F, j), ~Old(F[j])
      PROVE  \E k \in DOMAIN N : IsFirst(N, k) /\ N[k] = F[j]
  <2>1. PICK i \in DOMAIN I : IsFirst(I, i) /\ I[i] = F[j]
    BY <1>3 DEF Purged
  <2>2. \A k \in DOMAIN N : k \in DOMAIN I \/ i <= k
    <3>1. DOMAIN N \subseteq Nat \ {0} /\ DOMAIN I = 1..Len(I) /\ Len(I) \in Nat
      BY <1>1 DEF Saved
    <3> QED BY <3>1
  <2>3. IsFirst(N, i)
    BY <1>1, <2>1, <2>2 DEF IsFirst, Saved
  <2> QED BY <1>1, <2>1, <2>3 DEF Saved
<1> QED BY <1>a, <1>2, <1>3

\* The file that a client saves when nobody else is at it.
LEMMA ClientSavesFile ==
    ASSUME Typed, NEW n \in Computer, ClientSaves(n), Ordered(n), n \notin raced
    PROVE  /\ adding[n] = None /\ n \in shrunk'
           /\ \A j \in DOMAIN file'[n] : \E h \in DOMAIN file[n] : file'[n][j] = file[n][h]
           /\ \A j \in DOMAIN file[n] : IsFirst(file[n], j) /\ ~Old(file[n][j]) =>
                \E k \in DOMAIN file'[n] : IsFirst(file'[n], k) /\ file'[n][k] = file[n][j]
<1>1. /\ client[n] # None /\ file' = [file EXCEPT ![n] = Overwritten(@, client[n].items)]
      /\ shrunk' = IF Len(client[n].items) < Len(file[n]) THEN shrunk \cup {n} ELSE shrunk
  BY DEF ClientSaves, Save
<1>2. file \in [Computer -> Seq(Record)] /\ client[n] \in Client
  BY <1>1 DEF Typed, Stored
<1>3. SameFile(n)
  BY DEF Ordered
<1>4. adding[n] = None /\ Purged(client[n].items, file[n])
  BY <1>1, <1>3 DEF SameFile
<1>5. PICK I \in Seq(Record) : I = client[n].items
  BY <1>2 DEF Client
<1>6. PICK F \in Seq(Record) : F = file[n]
  BY <1>2
<1>7. PICK N : N = Overwritten(F, I)
  OBVIOUS
<1>8. file'[n] = N
  BY <1>1, <1>2, <1>5, <1>6, <1>7
<1>9. Purged(I, F)
  BY <1>4, <1>5, <1>6
<1>10. /\ \A j \in DOMAIN N : \E h \in DOMAIN F : N[j] = F[h]
       /\ \A j \in DOMAIN F : IsFirst(F, j) /\ ~Old(F[j]) =>
            \E k \in DOMAIN N : IsFirst(N, k) /\ N[k] = F[j]
  <2>1. \E M : /\ M = Overwritten(F, I)
               /\ \A j \in DOMAIN M : \E h \in DOMAIN F : M[j] = F[h]
               /\ \A j \in DOMAIN F : IsFirst(F, j) /\ ~Old(F[j]) =>
                    \E k \in DOMAIN M : IsFirst(M, k) /\ M[k] = F[j]
    BY <1>9, SavedPurged, Zenon
  <2> QED BY <1>7, <2>1
<1>11. n \in shrunk'
  BY <1>1, <1>5, <1>6, <1>9 DEF Purged
<1> QED BY <1>4, <1>6, <1>8, <1>10, <1>11

LEMMA ClientSavesOrdered ==
    ASSUME Typed, Typed', NEW m \in Computer, ClientSaves(m), NEW n \in Computer, Ordered(n)
    PROVE  Ordered(n)'
<1>1. /\ client' = [client EXCEPT ![m] = None]
      /\ file' = [file EXCEPT ![m] = Overwritten(@, client[m].items)]
      /\ UNCHANGED <<time, wire, adding, raced>>
  BY DEF ClientSaves, Unused, Save
<1>2. file \in [Computer -> Seq(Record)] /\ client \in [Computer -> {None} \cup Client]
  BY DEF Typed, Stored
<1>3. CASE n # m
  BY <1>1, <1>2, <1>3, SameOrdered
<1>4. CASE n = m
  <2>1. n \notin raced =>
          /\ adding[n] = None
          /\ \A j \in DOMAIN file'[n] : \E h \in DOMAIN file[n] : file'[n][j] = file[n][h]
          /\ \A j \in DOMAIN file[n] : IsFirst(file[n], j) /\ ~Old(file[n][j]) =>
               \E k \in DOMAIN file'[n] : IsFirst(file'[n], k) /\ file'[n][k] = file[n][j]
    BY <1>4, ClientSavesFile
  <2>2. ASSUME NEW p \in Computer, NEW t, Before(n, p, t) PROVE Before(n, p, t)'
    BY <1>1, <2>1, <2>2 DEF Before
  <2>3. Sorted(n)'
    <3>1. ASSUME NEW p \in Computer, NEW k \in DOMAIN wire[p][n], IsLoad(wire[p][n][k])
          PROVE  \E t : t = wire[p][n][k].time /\ Before(n, p, t)'
      BY <2>2, <3>1 DEF Ordered, Sorted
    <3>2. \A p \in Computer : \A k \in DOMAIN wire[p][n] : IsLoad(wire[p][n][k]) =>
            /\ wire[p][n][k].time <= time
            /\ \A j \in DOMAIN wire[p][n] :
                 IsLoad(wire[p][n][j]) /\ k < j => wire[p][n][k].time <= wire[p][n][j].time
      BY DEF Ordered, Sorted
    <3> QED BY <1>1, <3>1, <3>2 DEF Sorted, Before
  <2>4. Older(n)'
    <3>1. ASSUME NEW p \in Computer PROVE Before(n, p, time)'
      <4>1. \E t : t = time /\ Before(n, p, t)'
        BY <2>2 DEF Ordered, Older
      <4> QED BY <1>1, <4>1 DEF Before
    <3> QED BY <1>1, <2>1, <3>1 DEF Older
  <2>5. ASSUME n \notin raced PROVE FirstOK(n)'
    <3>1. ASSUME NEW j \in DOMAIN file'[n], NEW k \in DOMAIN file'[n],
                 IsFirst(file'[n], k), file'[n][k].from = file'[n][j].from, ~Old(file'[n][j])
          PROVE  file'[n][k].time >= file'[n][j].time
      <4>1. PICK F \in Seq(Record) : F = file[n]
        BY <1>2
      <4>2. PICK N \in Seq(Record) : N = file'[n]
        BY DEF Typed, Stored
      <4>3. PICK h \in DOMAIN F : N[j] = F[h]
        BY <2>1, <2>5, <4>1, <4>2
      <4>4. PICK f \in DOMAIN F : F[f].from = F[h].from /\ IsFirst(F, f)
        <5>1. h \in Places(F, F[h].from)
          BY DEF Places
        <5> QED BY <5>1, FirstPlaceIsFirst
      <4>5. F[f].time >= F[h].time
        BY <2>5, <3>1, <4>1, <4>2, <4>3, <4>4 DEF Ordered, FirstOK
      <4>6. ~Old(F[f])
        <5>1. time \in Nat /\ HowOld \in Nat /\ F[f].time \in Nat /\ F[h].time \in Nat
          BY <4>1, SortedType
        <5> QED BY <3>1, <4>2, <4>3, <4>5, <5>1 DEF Old
      <4>7. PICK g \in DOMAIN N : IsFirst(N, g) /\ N[g] = F[f]
        BY <2>1, <2>5, <4>1, <4>2, <4>4, <4>6
      <4>8. N[g].from = N[k].from
        BY <3>1, <4>2, <4>3, <4>4, <4>7
      <4>9. g = k
        BY <3>1, <4>2, <4>7, <4>8, OneFirst
      <4> QED BY <4>2, <4>3, <4>5, <4>7, <4>9
    <3> QED BY <1>1, <3>1 DEF FirstOK, Old
  <2>6. n \notin raced => SameFile(n)'
    <3>1. n \notin raced => adding'[n] = None /\ client'[n] = None
      BY <1>1, <1>2, <1>4, <2>1
    <3> QED BY <3>1 DEF SameFile
  <2> QED BY <1>1, <2>3, <2>4, <2>5, <2>6 DEF Ordered
<1> QED BY <1>3, <1>4

LEMMA OrderedStep ==
    ASSUME FInv, Typed', [Next]_vars, NEW n \in Computer
    PROVE  Ordered(n)'
<1>0. Typed /\ Ordered(n)
  BY DEF FInv
<1>1. ASSUME Calm PROVE Ordered(n)'
  BY <1>0, <1>1, CalmOrdered DEF Calm
<1>2. ASSUME NEW l \in Links, LinkUp(l) \/ LinkDown(l) PROVE Ordered(n)'
  BY <1>1, <1>2, LinkUpCalm, LinkDownCalm
<1>3. ASSUME NEW m \in Computer, NEW p \in Computer, StartAdding(m, p) PROVE Ordered(n)'
  BY <1>0, <1>3, StartAddingOrdered
<1>4. ASSUME NEW m \in Computer, Report(m) PROVE Ordered(n)'
  BY <1>0, <1>4, ReportOrdered
<1>5. ASSUME NEW m \in Computer, FinishAdding(m) PROVE Ordered(n)'
  BY <1>0, <1>5, FinishAddingOrdered
<1>6. ASSUME NEW m \in Computer, ClientLoads(m) PROVE Ordered(n)'
  BY <1>0, <1>6, ClientLoadsOrdered
<1>7. ASSUME NEW m \in Computer, ClientSaves(m) PROVE Ordered(n)'
  BY <1>0, <1>7, ClientSavesOrdered
<1> QED BY <1>1, <1>2, <1>3, <1>4, <1>5, <1>6, <1>7, CalmSteps DEF Next

-----------------------------------------------------------------------------
(* The load that was reported last, step by step.                           *)

LEMMA CalmTold ==
    ASSUME FInv, Typed', Calm, NEW n \in Computer, NEW p \in Computer, <<n, p>> \in told'
    PROVE  ToldOK(n, p)'
<1>1. /\ <<n, p>> \in told /\ ToldOK(n, p)
      /\ SameLoads(wire'[p][n], wire[p][n]) /\ last'[p] = last[p]
      /\ p \in Peers(n)' /\ n \in wants'[p]
      /\ UNCHANGED <<file, adding, raced, shrunk>> /\ time' >= time
  <2>1. <<n, p>> \in told /\ <<n, p>>[1] = n /\ <<n, p>>[2] = p
    BY DEF Calm
  <2> QED BY <2>1 DEF Calm, FInv
<1>2. PICK d \in {0, 1} : Sub(wire'[p][n], wire[p][n], d) /\ Sub(wire[p][n], wire'[p][n], -d)
  BY <1>1 DEF SameLoads
<1>3. /\ time \in Nat /\ time' \in Nat /\ HowOld \in Nat
      /\ wire[p][n] \in Seq(Word) /\ wire'[p][n] \in Seq(Word)
  <2>1. Typed /\ Typed'
    BY DEF FInv
  <2> QED BY <2>1, BoundAssumption DEF Typed, IInv, Types
<1>4. ASSUME NEW r \in Record PROVE Old(r) => Old(r)'
  BY <1>1, <1>3, BoundAssumption DEF Old, Record
<1>5. InFile(n, p) => InFile(n, p)'
  <2>1. \A j \in DOMAIN file[n] : file[n][j] \in Record
    BY SortedType DEF FInv
  <2> QED BY <1>1, <1>4, <2>1 DEF InFile
<1>6. \A i \in DOMAIN wire[p][n] : i \in Int
  BY <1>3
<1>7. \A i \in DOMAIN wire'[p][n] : i \in Int
  BY <1>3
<1>8. ASSUME OnWire(wire[p][n], last[p]) PROVE OnWire(wire[p][n], last[p])'
  <2>1. PICK i \in DOMAIN wire[p][n] :
          /\ IsLoad(wire[p][n][i]) /\ wire[p][n][i].avg = last[p]
          /\ \A j \in DOMAIN wire[p][n] : j > i => ~IsLoad(wire[p][n][j])
    BY <1>8 DEF OnWire
  <2>2. i + (-d) \in DOMAIN wire'[p][n] /\ wire'[p][n][i + (-d)] = wire[p][n][i]
    BY <1>2, <2>1 DEF Sub
  <2>3. ASSUME NEW j \in DOMAIN wire'[p][n], j > i + (-d), IsLoad(wire'[p][n][j]) PROVE FALSE
    <3>1. j + d \in DOMAIN wire[p][n] /\ wire[p][n][j + d] = wire'[p][n][j]
      BY <1>2, <2>3 DEF Sub
    <3>2. j + d > i
      BY <1>6, <1>7, <2>3
    <3> QED BY <2>1, <2>3, <3>1, <3>2
  <2> QED BY <1>1, <2>1, <2>2, <2>3 DEF OnWire
<1>9. ASSUME \A i \in DOMAIN wire[p][n] : ~IsLoad(wire[p][n][i])
      PROVE  \A i \in DOMAIN wire'[p][n] : ~IsLoad(wire'[p][n][i])
  BY <1>2, <1>9 DEF Sub
<1>10. n \notin raced' => LatestAt(n, p)'
  BY <1>1, <1>5, <1>8, <1>9 DEF ToldOK, LatestAt
<1> QED BY <1>1, <1>10 DEF ToldOK

\* Nothing happens to what n knows of p.
LEMMA SameTold ==
    ASSUME FInv, NEW n \in Computer, NEW p \in Computer, <<n, p>> \in told,
           UNCHANGED <<time, linked, wants>>, last'[p] = last[p], wire'[p][n] = wire[p][n],
           n \in raced => n \in raced', n \in shrunk => n \in shrunk',
           n \notin raced' => (adding'[n] = adding[n] /\ file'[n] = file[n])
    PROVE  ToldOK(n, p)'
<1>1. ToldOK(n, p)
  <2>1. <<n, p>>[1] = n /\ <<n, p>>[2] = p
    OBVIOUS
  <2> QED BY <2>1 DEF FInv
<1>2. n \notin raced' => LatestAt(n, p)'
  BY <1>1 DEF ToldOK, LatestAt, InFile, Old
<1> QED BY <1>1, <1>2 DEF ToldOK, Peers

LEMMA ReportTold ==
    ASSUME FInv, NEW m \in Computer, Report(m), NEW n \in Computer, NEW p \in Computer,
           <<n, p>> \in told'
    PROVE  ToldOK(n, p)'
<1>1. PICK r : r = [cmd |-> "LOADAVG", avg |-> load[m].now, time |-> time]
  OBVIOUS
<1>2. /\ wire' = [wire EXCEPT ![m] = [a \in Computer |->
                    IF a \in Listeners(m) THEN Append(wire[m][a], r) ELSE wire[m][a]]]
      /\ told' = told \cup {<<a, m>> : a \in Listeners(m)}
      /\ last' = [last EXCEPT ![m] = load[m].now]
      /\ UNCHANGED <<time, linked, wants, file, adding, client, raced, shrunk>>
  BY <1>1 DEF Report
<1>3. /\ wire \in [Computer -> [Computer -> Seq(Word)]] /\ IsLoad(r) /\ r.avg = load[m].now
      /\ last \in [Computer -> Levels] /\ linked \subseteq Links
  BY <1>1 DEF FInv, Typed, IInv, Types, Stored, IsLoad
<1>4. CASE p # m
  <2>1. <<n, p>> \in told
    BY <1>2, <1>4
  <2>2. last'[p] = last[p] /\ wire'[p][n] = wire[p][n]
    BY <1>2, <1>3, <1>4
  <2> QED BY <1>2, <2>1, <2>2, SameTold
<1>5. CASE p = m
  <2>1. n \in Listeners(m)
    <3>1. CASE <<n, m>> \in told
      <4>1. <<n, m>>[1] = n /\ <<n, m>>[2] = m
        OBVIOUS
      <4>2. m \in Peers(n) /\ n \in wants[m]
        BY <3>1, <4>1 DEF FInv, ToldOK
      <4> QED BY <4>2 DEF Listeners, Peers
    <3>2. CASE <<n, m>> \in {<<a, m>> : a \in Listeners(m)}
      BY <3>2
    <3> QED BY <1>2, <1>5, <3>1, <3>2
  <2>2. p \in Peers(n)' /\ n \in wants'[p]
    BY <1>2, <1>5, <2>1 DEF Listeners, Peers
  <2>3. wire'[p][n] = Append(wire[p][n], r) /\ last'[p] = r.avg
    BY <1>2, <1>3, <1>5, <2>1
  <2>4. PICK q \in Seq(Word) : q = wire[p][n]
    BY <1>3
  <2>5. OnWire(Append(q, r), r.avg)
    <3>1. PICK a : a = Append(q, r)
      OBVIOUS
    <3>2. DOMAIN a = 1..(Len(q) + 1) /\ a[Len(q) + 1] = r /\ Len(q) \in Nat
      BY <3>1
    <3>3. Len(q) + 1 \in DOMAIN a /\ \A j \in DOMAIN a : ~(j > Len(q) + 1)
      BY <3>2
    <3>4. OnWire(a, r.avg)
      BY <1>3, <3>2, <3>3 DEF OnWire
    <3> QED BY <3>1, <3>4
  <2>6. OnWire(wire[p][n], last[p])'
    BY <2>3, <2>4, <2>5
  <2> QED BY <2>2, <2>6 DEF ToldOK, LatestAt
<1> QED BY <1>4, <1>5

\* The daemon takes a load off the wire: the last one, or there is a later one.
LEMMA StartAddingTold ==
    ASSUME FInv, NEW m \in Computer, NEW q \in Computer, StartAdding(m, q),
           NEW n \in Computer, NEW p \in Computer, <<n, p>> \in told'
    PROVE  ToldOK(n, p)'
<1>1. /\ adding[m] = None /\ wire[q][m] # <<>> /\ IsLoad(Head(wire[q][m]))
      /\ wire' = [wire EXCEPT ![q][m] = Tail(@)]
      /\ UNCHANGED <<time, linked, wants, last, file, client, shrunk, told>>
  BY DEF StartAdding, IsLoad
<1>2. wire \in [Computer -> [Computer -> Seq(Word)]]
  BY DEF FInv, Typed, IInv, Types
<1>3. adding \in [Computer -> {None} \cup Adding]
  BY DEF FInv, Typed, Stored
<1>4. ToldOK(n, p)
  <2>1. <<n, p>>[1] = n /\ <<n, p>>[2] = p
    OBVIOUS
  <2> QED BY <1>1, <2>1 DEF FInv
<1>5. CASE n # m
  <2>1. adding'[n] = adding[n] /\ (n \in raced => n \in raced')
    BY <1>3, <1>5 DEF StartAdding
  <2>2. wire'[p][n] = wire[p][n]
    BY <1>1, <1>2, <1>5
  <2> QED BY <1>1, <2>1, <2>2, SameTold
<1>6. CASE n = m
  <2>1. PICK h : h = Head(wire[q][n])
    OBVIOUS
  <2>2. h = wire[q][n][1] /\ 1 \in DOMAIN wire[q][n] /\ IsLoad(h) /\ h.avg \in Nat
    <3>1. wire[q][n] \in Seq(Word) /\ wire[q][n] # <<>>
      BY <1>1, <1>2, <1>6
    <3>2. h \in Word /\ h = wire[q][n][1] /\ 1 \in DOMAIN wire[q][n]
      BY <2>1, <3>1
    <3>3. \A w \in Word : IsLoad(w) => w.avg \in Levels
      BY DEF Word, Request, Report_, IsLoad
    <3> QED BY <1>1, <1>6, <2>1, <3>2, <3>3, LevelsAssumption
  <2>3. PICK r : r = [from |-> q, avg |-> h.avg, time |-> h.time]
    OBVIOUS
  <2>4. PICK a : a = [items |-> file[n], item |-> r]
    OBVIOUS
  <2>5. /\ adding' = [adding EXCEPT ![n] = a]
        /\ raced' = IF client[n] # None THEN raced \cup {n} ELSE raced
    <3>1. ~Invalid(h.avg)
      BY <2>2 DEF Invalid
    <3> QED BY <1>6, <2>1, <2>3, <2>4, <3>1 DEF StartAdding
  <2>6. adding'[n] = a /\ a # None /\ a.item = r /\ r.from = q /\ r.avg = h.avg
    <3>1. a.item = r /\ r.from = q /\ r.avg = h.avg
      BY <2>3, <2>4
    <3>2. "items" \in DOMAIN a /\ "items" \notin DOMAIN None
      BY <2>4 DEF None
    <3> QED BY <1>3, <2>5, <3>1, <3>2
  <2>7. n \notin raced' => n \notin raced
    BY <2>5
  <2>8. ASSUME n \notin raced, p = q PROVE LatestAt(n, p)'
    <3>1. wire[p][n] \in Seq(Word) /\ wire[p][n] # <<>> /\ wire'[p][n] = Tail(wire[p][n])
      BY <1>1, <1>2, <1>6, <2>8
    <3>2. PICK w \in Seq(Word) : w = wire[p][n]
      BY <3>1
    <3>3. PICK t : t = Tail(w)
      OBVIOUS
    <3>4. /\ DOMAIN w = 1..Len(w) /\ DOMAIN t = 1..(Len(w) - 1) /\ Len(w) \in Nat
          /\ \A i \in 1..(Len(w) - 1) : t[i] = w[i + 1]
      BY <3>1, <3>2, <3>3
    <3>5. OnWire(w, last[p])
      BY <1>4, <2>2, <2>8, <3>2 DEF ToldOK, LatestAt
    <3>6. PICK i \in DOMAIN w : /\ IsLoad(w[i]) /\ w[i].avg = last[p]
                                /\ \A j \in DOMAIN w : j > i => ~IsLoad(w[j])
      BY <3>5 DEF OnWire
    <3>7. CASE i = 1
      <4>1. \A j \in DOMAIN t : ~IsLoad(t[j])
        <5>1. ASSUME NEW j \in DOMAIN t PROVE ~IsLoad(t[j])
          <6>1. j + 1 \in DOMAIN w /\ j + 1 > i /\ t[j] = w[j + 1]
            BY <3>4, <3>7, <5>1
          <6> QED BY <3>6, <6>1
        <5> QED BY <5>1
      <4>2. h.avg = last[p]
        BY <2>2, <2>8, <3>2, <3>6, <3>7
      <4> QED BY <1>1, <2>6, <2>8, <3>1, <3>2, <3>3, <4>1, <4>2 DEF LatestAt
    <3>8. CASE i # 1
      <4>1. PICK k : k = i - 1
        OBVIOUS
      <4>2. k \in DOMAIN t /\ t[k] = w[i]
        BY <3>4, <3>8, <4>1
      <4>3. ASSUME NEW j \in DOMAIN t, j > k PROVE ~IsLoad(t[j])
        <5>1. j + 1 \in DOMAIN w /\ j + 1 > i /\ t[j] = w[j + 1]
          BY <3>4, <4>1, <4>3
        <5> QED BY <3>6, <5>1
      <4>4. OnWire(t, last[p])
        BY <3>6, <4>2, <4>3 DEF OnWire
      <4> QED BY <1>1, <3>1, <3>2, <3>3, <4>4 DEF LatestAt
    <3> QED BY <3>7, <3>8
  <2>9. ASSUME n \notin raced, p # q PROVE LatestAt(n, p)'
    <3>1. wire'[p][n] = wire[p][n] /\ LatestAt(n, p) /\ adding[n] = None
      BY <1>1, <1>2, <1>4, <1>6, <2>9 DEF ToldOK
    <3>2. InFile(n, p) => InFile(n, p)'
      BY <1>1 DEF InFile, Old
    <3> QED BY <1>1, <2>6, <2>9, <3>1, <3>2 DEF LatestAt
  <2> QED BY <1>1, <1>4, <2>7, <2>8, <2>9 DEF ToldOK, Peers
<1> QED BY <1>5, <1>6

\* ... and what it took is in the file when it is done.
LEMMA FinishAddingTold ==
    ASSUME FInv, NEW m \in Computer, FinishAdding(m),
           NEW n \in Computer, NEW p \in Computer, <<n, p>> \in told'
    PROVE  ToldOK(n, p)'
<1>1. /\ adding[m] # None /\ Save(m, Add(adding[m].items, adding[m].item))
      /\ adding' = [adding EXCEPT ![m] = None]
      /\ UNCHANGED <<time, linked, wants, last, wire, client, raced, told>>
  BY DEF FinishAdding, Unused
<1>2. /\ file \in [Computer -> Seq(Record)] /\ adding \in [Computer -> {None} \cup Adding]
      /\ file' = [file EXCEPT ![m] = Overwritten(@, Add(adding[m].items, adding[m].item))]
  BY <1>1 DEF FInv, Typed, Stored, Save
<1>3. n \in shrunk => n \in shrunk'
  BY <1>1 DEF Save
<1>4. ToldOK(n, p)
  <2>1. <<n, p>>[1] = n /\ <<n, p>>[2] = p
    OBVIOUS
  <2> QED BY <1>1, <2>1 DEF FInv
<1>5. CASE n # m
  BY <1>1, <1>2, <1>3, <1>5, SameTold
<1>6. CASE n = m
  <2>1. PICK r : r = adding[n].item
    OBVIOUS
  <2>2. adding[n] # None /\ adding'[n] = None /\ r \in Record
    BY <1>1, <1>2, <1>6, <2>1, SortedType DEF FInv
  <2>3. PICK F \in Seq(Record) : F = file[n]
    BY <1>2
  <2>4. ASSUME n \notin raced PROVE LatestAt(n, p)'
    <3>1. adding[n].items = F
      BY <2>2, <2>3, <2>4 DEF FInv, Ordered, SameFile
    <3>2. PICK N : N = Add(F, r)
      OBVIOUS
    <3>3. N \in Seq(Record) /\ Len(N) >= Len(F)
      BY <2>2, <3>2, AddFacts
    <3>4. Saved(Overwritten(F, N), F, N)
      BY <3>3, OverwrittenFacts
    <3>5. file'[n] = N
      BY <1>2, <1>6, <2>1, <2>3, <3>1, <3>2, <3>3, <3>4 DEF Saved
    <3>6. PICK i \in DOMAIN N :
            /\ N[i] = r /\ IsFirst(N, i)
            /\ \A j \in DOMAIN N \ {i} : j \in DOMAIN F /\ N[j] = F[j]
            /\ \A j \in DOMAIN F : F[j].from # r.from => j \in DOMAIN N /\ N[j] = F[j]
      BY <2>2, <3>2, AddFacts
    <3>7. CASE OnWire(wire[p][n], last[p])
      BY <1>1, <3>7 DEF LatestAt
    <3>8. CASE \A k \in DOMAIN wire[p][n] : ~IsLoad(wire[p][n][k])
      <4>1. CASE r.from = p
        <5>1. r.avg = last[p]
          <6>1. ~OnWire(wire[p][n], last[p])
            BY <3>8 DEF OnWire
          <6> QED BY <1>4, <2>1, <2>2, <2>4, <4>1, <6>1 DEF ToldOK, LatestAt
        <5>2. InFile(n, p)'
          BY <1>1, <3>5, <3>6, <4>1, <5>1 DEF InFile
        <5> QED BY <1>1, <2>2, <3>8, <5>2 DEF LatestAt
      <4>2. CASE r.from # p
        <5>1. InFile(n, p)
          <6>1. ~OnWire(wire[p][n], last[p])
            BY <3>8 DEF OnWire
          <6> QED BY <1>4, <2>1, <2>2, <2>4, <4>2, <6>1 DEF ToldOK, LatestAt
        <5>2. CASE n \in shrunk /\ \A j \in DOMAIN F : F[j].from = p => Old(F[j])
          <6>1. \A j \in DOMAIN N : N[j].from = p => Old(N[j])
            BY <3>6, <4>2, <5>2
          <6>2. InFile(n, p)'
            BY <1>1, <1>3, <3>5, <5>2, <6>1 DEF InFile, Old
          <6> QED BY <1>1, <2>2, <3>8, <6>2 DEF LatestAt
        <5>3. ASSUME NEW k \in DOMAIN F, F[k].from = p, IsFirst(F, k), F[k].avg = last[p]
              PROVE  LatestAt(n, p)'
          <6>1. k \in DOMAIN N /\ N[k] = F[k]
            BY <3>6, <4>2, <5>3
          <6>2. ASSUME NEW j \in DOMAIN N, N[j].from = N[k].from PROVE k <= j
            <7>1. j # i
              BY <3>6, <4>2, <5>3, <6>1, <6>2
            <7>2. j \in DOMAIN F /\ N[j] = F[j]
              BY <3>6, <7>1
            <7> QED BY <5>3, <6>1, <6>2, <7>2 DEF IsFirst
          <6>3. IsFirst(N, k)
            BY <6>2 DEF IsFirst
          <6>4. InFile(n, p)'
            BY <1>1, <3>5, <5>3, <6>1, <6>3 DEF InFile
          <6> QED BY <1>1, <2>2, <3>8, <6>4 DEF LatestAt
        <5> QED BY <2>3, <5>1, <5>2, <5>3 DEF InFile
      <4> QED BY <4>1, <4>2
    <3> QED BY <1>4, <2>4, <3>7, <3>8 DEF ToldOK, LatestAt
  <2> QED BY <1>1, <1>4, <2>4 DEF ToldOK, Peers
<1> QED BY <1>5, <1>6

LEMMA ClientLoadsTold ==
    ASSUME FInv, NEW m \in Computer, ClientLoads(m),
           NEW n \in Computer, NEW p \in Computer, <<n, p>> \in told'
    PROVE  ToldOK(n, p)'
<1>1. /\ raced' = IF adding[m] # None THEN raced \cup {m} ELSE raced
      /\ UNCHANGED <<time, linked, wants, last, wire, file, adding, shrunk, told>>
  BY DEF ClientLoads, Unused
<1> QED BY <1>1, SameTold

\* A client takes the record of p out of the file only when it is too old, and then
\* every other that it leaves of p is.
LEMMA ClientSavesTold ==
    ASSUME FInv, NEW m \in Computer, ClientSaves(m),
           NEW n \in Computer, NEW p \in Computer, <<n, p>> \in told'
    PROVE  ToldOK(n, p)'
<1>1. /\ UNCHANGED <<time, linked, wants, last, wire, adding, raced, told>>
      /\ n \in shrunk => n \in shrunk'
      /\ file' = [file EXCEPT ![m] = Overwritten(@, client[m].items)]
  BY DEF ClientSaves, Unused, Save
<1>2. file \in [Computer -> Seq(Record)] /\ Typed /\ Ordered(n)
  BY DEF FInv, Typed, Stored
<1>3. ToldOK(n, p)
  <2>1. <<n, p>>[1] = n /\ <<n, p>>[2] = p
    OBVIOUS
  <2> QED BY <1>1, <2>1 DEF FInv
<1>4. CASE n # m
  BY <1>1, <1>2, <1>4, SameTold
<1>5. CASE n = m
  <2>1. ASSUME n \notin raced, InFile(n, p) PROVE InFile(n, p)'
    <3>1. /\ n \in shrunk'
          /\ \A j \in DOMAIN file'[n] : \E h \in DOMAIN file[n] : file'[n][j] = file[n][h]
          /\ \A j \in DOMAIN file[n] : IsFirst(file[n], j) /\ ~Old(file[n][j]) =>
               \E k \in DOMAIN file'[n] : IsFirst(file'[n], k) /\ file'[n][k] = file[n][j]
      BY <1>2, <1>5, <2>1, ClientSavesFile
    <3>2. ASSUME \A j \in DOMAIN file[n] : file[n][j].from = p => Old(file[n][j])
          PROVE  InFile(n, p)'
      <4>1. \A j \in DOMAIN file'[n] : file'[n][j].from = p => Old(file'[n][j])
        BY <3>1, <3>2
      <4> QED BY <1>1, <3>1, <4>1 DEF InFile, Old
    <3>3. ASSUME NEW k \in DOMAIN file[n], file[n][k].from = p, IsFirst(file[n], k),
                 file[n][k].avg = last[p]
          PROVE  InFile(n, p)'
      <4>1. CASE Old(file[n][k])
        <5>1. ASSUME NEW j \in DOMAIN file[n], file[n][j].from = p, ~Old(file[n][j])
              PROVE  FALSE
          <6>1. file[n][k].time >= file[n][j].time
            BY <1>2, <2>1, <3>3, <5>1 DEF Ordered, FirstOK
          <6>2. /\ time \in Nat /\ HowOld \in Nat
                /\ file[n][k].time \in Nat /\ file[n][j].time \in Nat
            BY <1>2, SortedType
          <6> QED BY <4>1, <5>1, <6>1, <6>2 DEF Old
        <5> QED BY <3>2, <5>1
      <4>2. CASE ~Old(file[n][k])
        <5>1. PICK g \in DOMAIN file'[n] : IsFirst(file'[n], g) /\ file'[n][g] = file[n][k]
          BY <3>1, <3>3, <4>2
        <5> QED BY <1>1, <3>3, <5>1 DEF InFile
      <4> QED BY <4>1, <4>2
    <3> QED BY <2>1, <3>2, <3>3 DEF InFile
  <2>2. n \notin raced => LatestAt(n, p)'
    BY <1>1, <1>3, <2>1 DEF ToldOK, LatestAt
  <2> QED BY <1>1, <1>3, <2>2 DEF ToldOK, Peers
<1> QED BY <1>4, <1>5

LEMMA ToldStep ==
    ASSUME FInv, Typed', [Next]_vars, NEW n \in Computer, NEW p \in Computer, <<n, p>> \in told'
    PROVE  ToldOK(n, p)'
<1>1. ASSUME Calm PROVE ToldOK(n, p)'
  BY <1>1, CalmTold
<1>2. ASSUME NEW l \in Links, LinkUp(l) \/ LinkDown(l) PROVE ToldOK(n, p)'
  BY <1>1, <1>2, LinkUpCalm, LinkDownCalm
<1>3. ASSUME NEW m \in Computer, NEW q \in Computer, StartAdding(m, q) PROVE ToldOK(n, p)'
  BY <1>3, StartAddingTold
<1>4. ASSUME NEW m \in Computer, Report(m) PROVE ToldOK(n, p)'
  BY <1>4, ReportTold
<1>5. ASSUME NEW m \in Computer, FinishAdding(m) PROVE ToldOK(n, p)'
  BY <1>5, FinishAddingTold
<1>6. ASSUME NEW m \in Computer, ClientLoads(m) PROVE ToldOK(n, p)'
  BY <1>6, ClientLoadsTold
<1>7. ASSUME NEW m \in Computer, ClientSaves(m) PROVE ToldOK(n, p)'
  BY <1>7, ClientSavesTold
<1> QED BY <1>1, <1>2, <1>3, <1>4, <1>5, <1>6, <1>7, CalmSteps DEF Next

\* Who is told is a computer that wants it.
LEMMA ToldPairs ==
    ASSUME FInv, [Next]_vars, NEW t \in told'
    PROVE  t = <<t[1], t[2]>> /\ t[1] \in Computer /\ t[2] \in Computer
<1>1. t \in told => t = <<t[1], t[2]>> /\ t[1] \in Computer /\ t[2] \in Computer
  BY DEF FInv, ToldOK
<1>2. ASSUME NEW m \in Computer, Report(m) PROVE t \in told \/ t \in Computer \X Computer
  <2>1. told' = told \cup {<<p, m>> : p \in Listeners(m)}
    BY <1>2 DEF Report
  <2>2. Listeners(m) \subseteq Computer
    BY DEF Listeners, Peers
  <2> QED BY <2>1, <2>2
<1>3. ASSUME NEW m \in Computer, NEW q \in Computer, StartAdding(m, q) PROVE t \in told
  BY <1>3 DEF StartAdding
<1>4. ASSUME NEW m \in Computer, FinishAdding(m) \/ ClientLoads(m) \/ ClientSaves(m)
      PROVE  t \in told
  BY <1>4 DEF FinishAdding, ClientLoads, ClientSaves, Unused
<1>5. Calm => t \in told
  BY DEF Calm
<1>6. t \in told \/ t \in Computer \X Computer
  BY <1>2, <1>3, <1>4, <1>5, CalmSteps, LinkUpCalm, LinkDownCalm DEF Next
<1> QED BY <1>1, <1>6

-----------------------------------------------------------------------------
(* The invariant and its theorems.                                          *)

LEMMA InitFiles == Init => FInv
<1> SUFFICES ASSUME Init PROVE FInv
  OBVIOUS
<1>1. Typed
  BY InitTyped
<1>2. ASSUME NEW n \in Computer PROVE Ordered(n)
  <2>1. adding[n] = None /\ client[n] = None /\ file[n] = <<>>
        /\ \A p \in Computer : wire[p][n] = <<>>
    BY DEF Init
  <2>2. DOMAIN <<>> = {}
    OBVIOUS
  <2> QED BY <2>1, <2>2 DEF Ordered, Sorted, Older, Before, SameFile, FirstOK
<1>3. told = {}
  BY DEF Init
<1> QED BY <1>1, <1>2, <1>3 DEF FInv

LEMMA FilesInductive == FInv /\ [Next]_vars => FInv'
<1> SUFFICES ASSUME FInv, [Next]_vars PROVE FInv'
  OBVIOUS
<1>1. Typed'
  BY TypedInductive DEF FInv
<1>2. \A n \in Computer : Ordered(n)'
  BY <1>1, OrderedStep
<1>3. ASSUME NEW t \in told' PROVE t = <<t[1], t[2]>> /\ ToldOK(t[1], t[2])'
  <2>1. t = <<t[1], t[2]>> /\ t[1] \in Computer /\ t[2] \in Computer
    BY ToldPairs
  <2>2. <<t[1], t[2]>> \in told'
    BY <2>1
  <2> QED BY <1>1, <2>1, <2>2, ToldStep
<1> QED BY <1>1, <1>2, <1>3 DEF FInv

\* What find() returns for a computer is the newest record of it, unless all of them
\* are too old, in every file of which no two writers overlapped: whatever the order
\* in which the load averages arrive and clients take old records out, though save()
\* leaves what was at the end of the file.
THEOREM FirstRecordNewest == Spec => []FirstIsNewest
<1>1. FInv => FirstIsNewest
  <2> SUFFICES ASSUME FInv, NEW n \in Computer \ raced, NEW j \in DOMAIN file[n],
                      ~Old(file[n][j])
               PROVE  file[n][FirstPlace(file[n], file[n][j].from)].time >= file[n][j].time
    BY DEF FirstIsNewest
  <2>1. file[n] \in Seq(Record) /\ FirstOK(n)
    BY DEF FInv, Typed, Stored, Ordered
  <2>2. j \in Places(file[n], file[n][j].from)
    BY DEF Places
  <2>3. PICK k : k = FirstPlace(file[n], file[n][j].from)
    OBVIOUS
  <2>4. k \in DOMAIN file[n] /\ file[n][k].from = file[n][j].from /\ IsFirst(file[n], k)
    BY <2>1, <2>2, <2>3, FirstPlaceIsFirst
  <2> QED BY <2>1, <2>3, <2>4 DEF FirstOK
<1> QED BY <1>1, InitFiles, FilesInductive, PTL DEF Spec

\* Once a computer reported its load to a daemon, the file of the daemon has the load
\* that it reported last, unless that is on its way, a client took it out when it was too
\* old, or two writers of the file overlapped: whatever links break, daemons die and are
\* started again, and registrations come and go.
THEOREM RecordsUpToDate == Spec => []UpToDate
<1>1. FInv => UpToDate
  <2> SUFFICES ASSUME FInv, NEW n, NEW p, <<n, p>> \in told,
                      n \notin raced, wire[p][n] = <<>>, adding[n] = None
               PROVE  \/ n \in shrunk /\ \A i \in Places(file[n], p) : Old(file[n][i])
                      \/ /\ Places(file[n], p) # {}
                         /\ file[n][FirstPlace(file[n], p)].avg = last[p]
    BY DEF UpToDate, FInv
  <2>1. <<n, p>>[1] = n /\ <<n, p>>[2] = p
    OBVIOUS
  <2>2. ToldOK(n, p)
    BY <2>1 DEF FInv
  <2>3. ~OnWire(wire[p][n], last[p])
    <3>1. DOMAIN <<>> = {}
      OBVIOUS
    <3> QED BY <3>1 DEF OnWire
  <2>4. InFile(n, p)
    BY <2>2, <2>3 DEF ToldOK, LatestAt
  <2>5. CASE n \in shrunk /\ \A j \in DOMAIN file[n] : file[n][j].from = p => Old(file[n][j])
    BY <2>5 DEF Places
  <2>6. ASSUME NEW k \in DOMAIN file[n], file[n][k].from = p, IsFirst(file[n], k),
               file[n][k].avg = last[p]
        PROVE  Places(file[n], p) # {} /\ file[n][FirstPlace(file[n], p)].avg = last[p]
    <3>1. file[n] \in Seq(Record)
      BY <2>2 DEF FInv, Typed, Stored, ToldOK
    <3>2. Places(file[n], p) # {}
      BY <2>6 DEF Places
    <3>3. PICK f : f = FirstPlace(file[n], p)
      OBVIOUS
    <3>4. f \in DOMAIN file[n] /\ file[n][f].from = p /\ IsFirst(file[n], f)
      BY <3>1, <3>2, <3>3, FirstPlaceIsFirst
    <3>5. f = k
      BY <2>6, <3>1, <3>4, OneFirst
    <3> QED BY <2>6, <3>2, <3>3, <3>5
  <2> QED BY <2>4, <2>5, <2>6 DEF InFile
<1> QED BY <1>1, InitFiles, FilesInductive, PTL DEF Spec

=============================================================================
