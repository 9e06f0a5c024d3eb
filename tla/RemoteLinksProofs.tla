--------------------------- MODULE RemoteLinksProofs ---------------------------
(***************************************************************************)
(* Proofs about RemoteLinks, for any cluster and any number of faults.     *)
(*                                                                         *)
(* The inductive invariant has a part about the tables of each daemon, one *)
(* about the inbound connections of each daemon and the file next to them, *)
(* and three that relate two computers. A second one, on top of it, says   *)
(* which permanent connections the two ends hold on to and what each told  *)
(* the other: the states without work left follow from the two.            *)
(***************************************************************************)
EXTENDS RemoteLinks, TLAPS

\* An address in f_all_ips that nobody asks to forget is a neighbor, and a
\* smaller neighbor has a permanent connection.
TableOK(n, t) ==
    /\ t \in Table
    /\ n \notin t.all /\ n \notin t.gossip /\ n \notin t.stray
    /\ \A a \in Node : t.dial[a] # "none" => a < n
    /\ t.all \cap Remembered \subseteq t.known
    /\ \A a \in t.known \cap Remembered : a < n => t.dial[a] # "none"

UniqueNames(conns) ==
    \A c, o \in conns : Named(c) /\ Named(o) /\ c.peer = o.peer => c = o

\* The connection carried an answer that promises to remember the caller.
Promised(c) == c.as \in {"remote", "told"}

InboundOK(m, conns, file) ==
    /\ conns \subseteq Inbound
    /\ \A c \in conns : c.peer # m
    /\ UniqueNames(conns)
    /\ m \in Remembered =>
         \A c \in conns : c.peer \in Remembered /\ Promised(c) => c.peer \in file

IInv ==
    /\ TypeOK
    /\ \A n \in Node : TableOK(n, tables[n])
    /\ \A m \in Node : InboundOK(m, inbound[m], saved[m])
    /\ FileCurrent
    /\ AcceptedIsSaved
    /\ NeverLost

-----------------------------------------------------------------------------
(* The helpers.                                                            *)

\* What add_remote_communicator() changes in the tables.
LEMMA AddRemotesFacts ==
    ASSUME NEW n \in Node, NEW t \in Table, NEW S \in SUBSET Node
    PROVE  LET r == AddRemotes(n, t, S) IN
           /\ r \in Table
           /\ r.known = t.known /\ r.stray = t.stray
           /\ r.all = t.all \cup (S \ {n})
           /\ r.gossip = t.gossip \cup {a \in S \ (t.all \cup {n}) : a > n}
           /\ \A a \in Node : r.dial[a] = IF a \in S \ (t.all \cup {n}) /\ a < n
                                          THEN "waiting" ELSE t.dial[a]
<1> DEFINE fresh == S \ (t.all \cup {n})
           dial == [a \in Node |-> IF a \in fresh /\ a < n THEN "waiting" ELSE t.dial[a]]
           r == AddRemotes(n, t, S)
<1>1. /\ t.all \in SUBSET Node /\ t.known \in SUBSET Node /\ t.gossip \in SUBSET Node
      /\ t.stray \in SUBSET Node
      /\ t.dial \in [Node -> Dialing]
  BY DEF Table
<1>2. dial \in [Node -> Dialing]
  BY <1>1 DEF Dialing
<1>3. r = [t EXCEPT !.all = t.all \cup fresh, !.dial = dial,
                    !.gossip = t.gossip \cup {a \in fresh : a > n}]
  BY DEF AddRemotes
<1> HIDE DEF dial
<1>4. /\ r \in Table /\ r.known = t.known /\ r.stray = t.stray
      /\ r.all = t.all \cup fresh /\ r.dial = dial
      /\ r.gossip = t.gossip \cup {a \in fresh : a > n}
  BY <1>1, <1>2, <1>3 DEF Table
<1> QED BY <1>4 DEF dial

\* What add_neighbors() changes in the tables of a daemon.
LEMMA AddNeighborsFacts ==
    ASSUME NEW n \in Node, NEW t, TableOK(n, t), NEW S \in SUBSET Node
    PROVE  LET r == AddNeighbors(n, t, S) IN
           /\ TableOK(n, r)
           /\ r.known = t.known \cup S
           /\ t.gossip \subseteq r.gossip
           /\ \A a \in S \cap Remembered : a > n /\ a \notin t.known => a \in r.gossip
           /\ \A a \in Node : r.dial[a] = "accepted" => t.dial[a] = "accepted"
<1> DEFINE fresh == S \ t.known
           u == [t EXCEPT !.known = t.known \cup fresh]
           r == AddNeighbors(n, t, S)
<1>1. t \in Table BY DEF TableOK
<1>2. /\ u \in Table /\ u.known = t.known \cup S /\ u.all = t.all /\ u.dial = t.dial
      /\ u.gossip = t.gossip /\ u.stray = t.stray
  BY <1>1 DEF Table
<1>3. r = AddRemotes(n, u, fresh)
  BY DEF AddNeighbors
<1> HIDE DEF u, r
<1>4. /\ r \in Table
      /\ r.known = u.known /\ r.stray = u.stray
      /\ r.all = u.all \cup (fresh \ {n})
      /\ r.gossip = u.gossip \cup {a \in fresh \ (u.all \cup {n}) : a > n}
      /\ \A a \in Node : r.dial[a] = IF a \in fresh \ (u.all \cup {n}) /\ a < n
                                     THEN "waiting" ELSE u.dial[a]
  BY <1>2, <1>3, AddRemotesFacts
<1>5. TableOK(n, r)
  <2>1. n \notin r.all /\ n \notin r.gossip /\ n \notin r.stray
    BY <1>2, <1>4 DEF TableOK
  <2>2. \A a \in Node : r.dial[a] # "none" => a < n
    BY <1>2, <1>4 DEF TableOK
  <2>3. r.all \cap Remembered \subseteq r.known
    BY <1>2, <1>4 DEF TableOK
  <2>4. \A a \in r.known \cap Remembered : a < n => r.dial[a] # "none"
    <3> SUFFICES ASSUME NEW a \in Remembered, a \in r.known, a < n
                 PROVE  r.dial[a] # "none"
      OBVIOUS
    <3>1. a \in Node /\ a # n
      BY NodeAssumption DEF Remembered
    <3>2. CASE a \in t.known
      BY <1>2, <1>4, <3>1, <3>2 DEF TableOK
    <3>3. CASE a \notin t.known
      <4>1. a \in fresh
        BY <1>2, <1>4, <3>3
      <4>2. a \notin u.all
        BY <1>2, <3>3 DEF TableOK
      <4> QED BY <1>4, <3>1, <4>1, <4>2
    <3> QED BY <3>2, <3>3
  <2> QED BY <1>4, <2>1, <2>2, <2>3, <2>4 DEF TableOK
<1>6. \A a \in S \cap Remembered : a > n /\ a \notin t.known => a \in r.gossip
  BY <1>2, <1>4, NodeAssumption DEF TableOK, Remembered
<1>7. \A a \in Node : r.dial[a] = "accepted" => t.dial[a] = "accepted"
  BY <1>2, <1>4
<1> QED BY <1>2, <1>4, <1>5, <1>6, <1>7 DEF r

\* Closing connections keeps everything about them but whether they are live.
LEMMA ClosedFacts ==
    ASSUME NEW m, NEW conns, NEW file, InboundOK(m, conns, file), NEW p, NEW K
    PROVE  LET r == Closed(conns, p, K) IN
           /\ InboundOK(m, r, file)
           /\ \A c \in conns : \E d \in r : d.peer = c.peer
<1> DEFINE f(c) == IF c.peer = p /\ c.kind \in K THEN [c EXCEPT !.live = FALSE] ELSE c
           r == Closed(conns, p, K)
<1>1. \A c \in Inbound : /\ f(c) \in Inbound /\ f(c).peer = c.peer
                         /\ f(c).kind = c.kind /\ f(c).as = c.as
  BY DEF Inbound
<1>2. r = {f(c) : c \in conns}
  BY DEF Closed
<1> HIDE DEF f, r
<1>3. \A c \in conns : f(c) \in r
  BY <1>2
<1>4. \A d \in r : \E c \in conns : d = f(c)
  BY <1>2
<1>5. conns \subseteq Inbound
  BY DEF InboundOK
<1>6. r \subseteq Inbound /\ \A c \in r : c.peer # m
  BY <1>1, <1>4, <1>5 DEF InboundOK
<1>7. UniqueNames(r)
  BY <1>1, <1>4, <1>5 DEF InboundOK, UniqueNames, Named
<1>8. m \in Remembered =>
         \A c \in r : c.peer \in Remembered /\ Promised(c) => c.peer \in file
  BY <1>1, <1>4, <1>5 DEF InboundOK, Promised
<1>9. \A c \in conns : \E d \in r : d.peer = c.peer
  BY <1>1, <1>3, <1>5
<1> QED BY <1>6, <1>7, <1>8, <1>9 DEF InboundOK, r

\* Nobody left.
KeepsPeers(conns, others) == \A o \in conns : \E d \in others : d.peer = o.peer

\* What an answer takes: a name is new, a promise is in the file.
MayAnswer(conns, c, as, file) ==
    /\ c \in conns /\ as \in Answers
    /\ as \in {"remote", "crowded"} =>
          \A o \in conns \ {c} : ~(o.peer = c.peer /\ Named(o))
    /\ as \in {"remote", "told"} => c.peer \in file

\* Answering a connection.
LEMMA AnsweredFacts ==
    ASSUME NEW m, NEW conns, NEW file, InboundOK(m, conns, file), NEW c, NEW as,
           MayAnswer(conns, c, as, file)
    PROVE  LET r == Answered(conns, c, as) IN
           /\ InboundOK(m, r, file)
           /\ KeepsPeers(conns, r)
<1> DEFINE e == [c EXCEPT !.as = as]
           r == Answered(conns, c, as)
<1>1. c \in Inbound /\ conns \subseteq Inbound /\ c \in conns /\ as \in Answers
  BY DEF InboundOK, MayAnswer
<1>2. e \in Inbound /\ e.peer = c.peer /\ e.as = as /\ e.kind = c.kind
  BY <1>1 DEF Inbound
<1>3. r = (conns \ {c}) \cup {e}
  BY DEF Answered
<1> HIDE DEF e, r
<1>4. r \subseteq Inbound /\ \A o \in r : o.peer # m
  BY <1>1, <1>2, <1>3 DEF InboundOK
<1>5. UniqueNames(r)
  BY <1>2, <1>3 DEF InboundOK, MayAnswer, UniqueNames, Named
<1>6. m \in Remembered =>
         \A o \in r : o.peer \in Remembered /\ Promised(o) => o.peer \in file
  BY <1>2, <1>3 DEF InboundOK, MayAnswer, Promised
<1>7. KeepsPeers(conns, r)
  BY <1>2, <1>3 DEF KeepsPeers
<1> QED BY <1>4, <1>5, <1>6, <1>7 DEF InboundOK, r

\* A larger file keeps what was promised.
LEMMA LargerFile ==
    ASSUME NEW m, NEW conns, NEW file, InboundOK(m, conns, file), NEW other,
           file \cap Remembered \subseteq other
    PROVE  InboundOK(m, conns, other)
BY DEF InboundOK

-----------------------------------------------------------------------------
(* Steps.                                                                  *)

\* A daemon that changed its tables wrote its file if it had to, and nothing
\* that it has to remember left either.
LEMMA Learning ==
    ASSUME IInv, NEW n \in Node, up[n], NEW t, TableOK(n, t),
           tables[n].known \cap Remembered \subseteq t.known,
           tables' = [tables EXCEPT ![n] = t], saved' = Save(n, t), up' = up
    PROVE  /\ saved' \in [Node -> SUBSET Node]
           /\ saved'[n] = t.known
           /\ \A m \in Node : saved[m] \cap Remembered \subseteq saved'[m]
           /\ tables' \in [Node -> Table]
           /\ \A m \in Node : TableOK(m, tables'[m])
           /\ FileCurrent'
<1>1. /\ t \in Table /\ t.known \subseteq Node
      /\ saved \in [Node -> SUBSET Node] /\ tables \in [Node -> Table]
      /\ saved[n] = tables[n].known
  BY DEF IInv, TypeOK, TableOK, FileCurrent, Table
<1>2. saved' \in [Node -> SUBSET Node] /\ saved'[n] = t.known
  BY <1>1 DEF Save
<1>3. \A m \in Node : m # n => saved'[m] = saved[m] /\ tables'[m] = tables[m]
  BY <1>1 DEF Save
<1>4. tables' \in [Node -> Table] /\ tables'[n] = t
  BY <1>1
<1>5. \A m \in Node : TableOK(m, tables'[m])
  BY <1>3, <1>4 DEF IInv
<1>6. \A m \in Node : saved[m] \cap Remembered \subseteq saved'[m]
  BY <1>1, <1>2, <1>3
<1>7. FileCurrent'
  BY <1>2, <1>3, <1>4 DEF FileCurrent, IInv
<1> QED BY <1>2, <1>4, <1>5, <1>6, <1>7

\* A step that keeps who calls and who is called, and calls who is new.
LEMMA StillSeen ==
    ASSUME NeverLost, up' = up, NEW n \in Node,
           \A m \in Node : saved[m] \cap Remembered \subseteq saved'[m],
           \A m \in Node : \A c \in inbound[m] : \E d \in inbound'[m] : d.peer = c.peer,
           \A m \in Node \ {n} : tables'[m] = tables[m],
           tables[n].gossip \subseteq tables'[n].gossip,
           \A b \in tables'[n].known \cap Remembered :
               n < b => b \in tables[n].known \/ b \in tables'[n].gossip
    PROVE  NeverLost'
<1> SUFFICES ASSUME NEW m \in Remembered, NEW b \in Remembered,
                    up'[m], m < b, b \in tables'[m].known
             PROVE  \/ b \in tables'[m].gossip
                    \/ \E c \in inbound'[m] : c.peer = b
                    \/ m \in saved'[b]
  BY DEF NeverLost
<1>1. m \in Node /\ b \in Node /\ up[m]
  BY DEF Remembered
<1>2. CASE b \in tables[m].known
  <2>1. \/ b \in tables[m].gossip
        \/ \E c \in inbound[m] : c.peer = b
        \/ m \in saved[b]
    BY <1>1, <1>2 DEF NeverLost
  <2>2. tables[m].gossip \subseteq tables'[m].gossip
    BY <1>1
  <2>3. CASE \E c \in inbound[m] : c.peer = b
    BY <1>1, <2>3
  <2> QED BY <1>1, <2>1, <2>2, <2>3
<1>3. CASE b \notin tables[m].known
  <2>1. m = n
    BY <1>1, <1>3
  <2> QED BY <1>3, <2>1
<1> QED BY <1>2, <1>3

\* A link that waits again leaves everything else in the tables.
LEMMA WaitingFacts ==
    ASSUME IInv, NEW n \in Node, NEW a \in Node, tables[n].dial[a] # "none",
           tables' = Waiting(n, a), up' = up
    PROVE  /\ tables' \in [Node -> Table]
           /\ \A m \in Node :
                 /\ TableOK(m, tables'[m])
                 /\ tables'[m].known = tables[m].known
                 /\ tables'[m].gossip = tables[m].gossip
                 /\ \A b \in Node : tables'[m].dial[b] = "accepted"
                                      => tables[m].dial[b] = "accepted"
<1> DEFINE t == [tables[n] EXCEPT !.dial[a] = "waiting"]
<1>1. /\ tables \in [Node -> Table] /\ tables[n] \in Table
      /\ TableOK(n, tables[n])
  BY DEF IInv, TypeOK
<1>2. /\ tables[n].dial \in [Node -> Dialing]
  BY <1>1 DEF Table
<1>3. /\ t \in Table /\ t.known = tables[n].known /\ t.all = tables[n].all
      /\ t.gossip = tables[n].gossip /\ t.stray = tables[n].stray
      /\ \A b \in Node : t.dial[b] = IF b = a THEN "waiting" ELSE tables[n].dial[b]
  BY <1>1, <1>2 DEF Table, Dialing
<1>4. tables' = [tables EXCEPT ![n] = t]
  BY <1>1, <1>2 DEF Waiting, Table
<1> HIDE DEF t
<1>5. TableOK(n, t)
  <2>1. \A b \in Node : t.dial[b] # "none" <=> tables[n].dial[b] # "none"
    BY <1>3
  <2> QED BY <1>1, <1>3, <2>1 DEF TableOK, Remembered
<1>6. tables'[n] = t /\ \A m \in Node \ {n} : tables'[m] = tables[m]
  BY <1>1, <1>4
<1>7. tables' \in [Node -> Table]
  BY <1>1, <1>3, <1>4
<1> QED BY <1>3, <1>5, <1>6, <1>7 DEF IInv

\* Steps after which some daemon waits to dial again.
LEMMA WaitingStep ==
    ASSUME IInv, NEW n \in Node, NEW a \in Node, tables[n].dial[a] # "none",
           tables' = Waiting(n, a),
           UNCHANGED <<up, saved, crowded>>,
           faults' \in 0..MaxFaults,
           inbound' = inbound \/ inbound' = [inbound EXCEPT ![a] = Closed(@, n, {"link"})]
    PROVE  IInv'
<1>1. /\ tables' \in [Node -> Table]
      /\ \A m \in Node : /\ TableOK(m, tables'[m])
                         /\ tables'[m].known = tables[m].known
                         /\ tables'[m].gossip = tables[m].gossip
                         /\ \A b \in Node : tables'[m].dial[b] = "accepted"
                                              => tables[m].dial[b] = "accepted"
  BY WaitingFacts
<1>2. /\ inbound \in [Node -> SUBSET Inbound]
      /\ \A m \in Node : InboundOK(m, inbound[m], saved[m])
  BY DEF IInv, TypeOK
<1>3. /\ inbound' \in [Node -> SUBSET Inbound]
      /\ \A m \in Node : /\ InboundOK(m, inbound'[m], saved[m])
                         /\ \A c \in inbound[m] : \E d \in inbound'[m] : d.peer = c.peer
  <2>1. CASE inbound' = inbound
    BY <1>2, <2>1
  <2>2. CASE inbound' = [inbound EXCEPT ![a] = Closed(@, n, {"link"})]
    <3>1. /\ InboundOK(a, Closed(inbound[a], n, {"link"}), saved[a])
          /\ \A c \in inbound[a] : \E d \in Closed(inbound[a], n, {"link"}) : d.peer = c.peer
      BY <1>2, ClosedFacts
    <3>2. Closed(inbound[a], n, {"link"}) \subseteq Inbound
      BY <3>1 DEF InboundOK
    <3> HIDE DEF Closed
    <3> QED BY <1>2, <2>2, <3>1, <3>2
  <2> QED BY <2>1, <2>2
<1>4. TypeOK'
  BY <1>1, <1>3 DEF IInv, TypeOK, TableOK
<1>5. FileCurrent'
  BY <1>1 DEF IInv, FileCurrent
<1>6. AcceptedIsSaved'
  BY <1>1 DEF IInv, AcceptedIsSaved, Remembered
<1>7. NeverLost'
  BY <1>1, <1>3 DEF IInv, NeverLost, Remembered
<1> QED BY <1>1, <1>3, <1>4, <1>5, <1>6, <1>7 DEF IInv

LEMMA StartStep ==
    ASSUME IInv, NEW n \in Node, Start(n)
    PROVE  IInv'
<1> DEFINE known == saved[n] \cup {n} \cup Explicit[n]
           r == ReadNeighbors(n)
           t == AddNeighbors(n, r, {n} \cup Explicit[n])
<1>1. /\ saved \in [Node -> SUBSET Node] /\ tables \in [Node -> Table]
      /\ up \in [Node -> BOOLEAN] /\ inbound \in [Node -> SUBSET Inbound]
  BY DEF IInv, TypeOK
<1>2. known \in SUBSET Node
  BY <1>1, OptionsAssumption
<1>3. Blank \in Table /\ Blank.known = {} /\ Blank.all = {} /\ Blank.gossip = {}
      /\ Blank.stray = {} /\ \A a \in Node : Blank.dial[a] = "none"
  BY DEF Blank, Table, Dialing
<1>4. TableOK(n, Blank)
  BY <1>3 DEF TableOK
<1> HIDE DEF known
<1>5. /\ TableOK(n, t) /\ t.known = known
      /\ \A a \in known \cap Remembered : a > n => a \in t.gossip
      /\ \A a \in Node : t.dial[a] # "accepted"
  <2>1. /\ TableOK(n, r) /\ r.known = Blank.known \cup saved[n]
        /\ \A a \in saved[n] \cap Remembered : a > n /\ a \notin Blank.known => a \in r.gossip
        /\ \A a \in Node : r.dial[a] = "accepted" => Blank.dial[a] = "accepted"
    BY <1>1, <1>4, AddNeighborsFacts DEF ReadNeighbors
  <2> HIDE DEF r
  <2>2. {n} \cup Explicit[n] \in SUBSET Node
    BY OptionsAssumption
  <2>3. /\ TableOK(n, t) /\ t.known = r.known \cup ({n} \cup Explicit[n])
        /\ r.gossip \subseteq t.gossip
        /\ \A a \in ({n} \cup Explicit[n]) \cap Remembered :
              a > n /\ a \notin r.known => a \in t.gossip
        /\ \A a \in Node : t.dial[a] = "accepted" => r.dial[a] = "accepted"
    BY <2>1, <2>2, AddNeighborsFacts
  <2> HIDE DEF t
  <2> QED BY <1>3, <2>1, <2>3 DEF known
<1>6. /\ tables' = [tables EXCEPT ![n] = t] /\ saved' = [saved EXCEPT ![n] = t.known]
      /\ up' = [up EXCEPT ![n] = TRUE] /\ UNCHANGED <<inbound, crowded, faults>>
  BY DEF Start, known
<1> HIDE DEF t
<1>7. /\ saved' \in [Node -> SUBSET Node]
      /\ saved'[n] = t.known /\ tables'[n] = t
      /\ \A m \in Node \ {n} : /\ saved'[m] = saved[m] /\ tables'[m] = tables[m]
                               /\ up'[m] = up[m]
      /\ \A m \in Node : saved[m] \subseteq saved'[m]
      /\ tables' \in [Node -> Table] /\ up' \in [Node -> BOOLEAN]
  BY <1>1, <1>2, <1>5, <1>6 DEF TableOK, known
<1>8. \A m \in Node : TableOK(m, tables'[m])
  BY <1>5, <1>7 DEF IInv
<1>9. TypeOK'
  BY <1>1, <1>6, <1>7, <1>8 DEF IInv, TypeOK, TableOK
<1>10. \A m \in Node : InboundOK(m, inbound'[m], saved'[m])
  BY <1>6, <1>7, LargerFile DEF IInv
<1>11. FileCurrent'
  BY <1>7 DEF IInv, FileCurrent
<1>12. AcceptedIsSaved'
  BY <1>5, <1>7 DEF IInv, AcceptedIsSaved, Remembered
<1>13. NeverLost'
  BY <1>5, <1>6, <1>7 DEF IInv, NeverLost, Remembered
<1> QED BY <1>8, <1>9, <1>10, <1>11, <1>12, <1>13 DEF IInv

LEMMA StopStep ==
    ASSUME IInv, NEW n \in Node, Stop(n)
    PROVE  IInv'
<1> DEFINE K == Calls \cup {"link"}
<1>1. /\ saved \in [Node -> SUBSET Node] /\ tables \in [Node -> Table]
      /\ up \in [Node -> BOOLEAN] /\ inbound \in [Node -> SUBSET Inbound]
  BY DEF IInv, TypeOK
<1>2. /\ Blank \in Table /\ Blank.known = {} /\ Blank.all = {} /\ Blank.gossip = {}
      /\ Blank.stray = {} /\ \A a \in Node : Blank.dial[a] = "none"
  BY DEF Blank, Table, Dialing
<1>3. TableOK(n, Blank)
  BY <1>2 DEF TableOK
<1>4. /\ tables' = [tables EXCEPT ![n] = Blank] /\ up' = [up EXCEPT ![n] = FALSE]
      /\ inbound' = [m \in Node |-> IF m = n THEN {} ELSE Closed(inbound[m], n, K)]
      /\ crowded' \subseteq crowded
      /\ faults < MaxFaults /\ faults' = faults + 1 /\ saved' = saved
  BY DEF Stop
<1>5. /\ tables' \in [Node -> Table] /\ up' \in [Node -> BOOLEAN] /\ ~up'[n]
      /\ tables'[n] = Blank
      /\ \A m \in Node \ {n} : tables'[m] = tables[m] /\ up'[m] = up[m]
  BY <1>1, <1>2, <1>4
<1>6. \A m \in Node : TableOK(m, tables'[m])
  BY <1>3, <1>5 DEF IInv
<1>7. \A m \in Node : InboundOK(m, inbound'[m], saved'[m])
  <2> TAKE m \in Node
  <2>1. CASE m = n
    BY <1>4, <2>1 DEF InboundOK, UniqueNames
  <2>2. CASE m # n
    <3>1. InboundOK(m, Closed(inbound[m], n, K), saved[m])
      BY ClosedFacts DEF IInv
    <3> QED BY <1>4, <2>2, <3>1
  <2> QED BY <2>1, <2>2
<1>8. \A m \in Node \ {n} : \A c \in inbound[m] : \E d \in inbound'[m] : d.peer = c.peer
  <2> TAKE m \in Node \ {n}
  <2>1. \A c \in inbound[m] : \E d \in Closed(inbound[m], n, K) : d.peer = c.peer
    BY ClosedFacts DEF IInv
  <2> QED BY <1>4, <2>1
<1>9. inbound' \in [Node -> SUBSET Inbound]
  <2>1. \A m \in Node : inbound'[m] \in SUBSET Inbound
    BY <1>7 DEF InboundOK
  <2> QED BY <1>4, <2>1
<1>10. faults' \in 0..MaxFaults
  BY <1>4, OptionsAssumption DEF IInv, TypeOK
<1>11. TypeOK'
  BY <1>1, <1>4, <1>5, <1>6, <1>9, <1>10 DEF IInv, TypeOK, TableOK
<1>12. FileCurrent'
  BY <1>4, <1>5 DEF IInv, FileCurrent
<1>13. AcceptedIsSaved'
  BY <1>2, <1>4, <1>5 DEF IInv, AcceptedIsSaved, Remembered
<1>14. NeverLost'
  <2> SUFFICES ASSUME NEW a \in Remembered, NEW x \in Remembered,
                      up'[a], a < x, x \in tables'[a].known
               PROVE  \/ x \in tables'[a].gossip
                      \/ \E c \in inbound'[a] : c.peer = x
                      \/ a \in saved'[x]
    BY DEF NeverLost
  <2>1. a \in Node \ {n}
    BY <1>5 DEF Remembered
  <2>2. up[a] /\ tables'[a] = tables[a]
    BY <1>5, <2>1
  <2>3. \/ x \in tables[a].gossip
        \/ \E c \in inbound[a] : c.peer = x
        \/ a \in saved[x]
    BY <2>2 DEF IInv, NeverLost
  <2>4. saved' = saved
    BY <1>4
  <2>5. CASE \E c \in inbound[a] : c.peer = x
    BY <1>8, <2>1, <2>5
  <2> QED BY <2>2, <2>3, <2>4, <2>5
<1> QED BY <1>6, <1>7, <1>11, <1>12, <1>13, <1>14 DEF IInv

\* A connection that opens.
LEMMA OpenedFacts ==
    ASSUME NEW m, NEW conns, NEW file, InboundOK(m, conns, file),
           NEW n \in Node, n # m, NEW kind \in Calls \cup {"link"}
    PROVE  InboundOK(m, conns \cup {Opened(n, kind)}, file)
<1> DEFINE c == Opened(n, kind)
<1>1. c \in Inbound /\ c.peer = n /\ c.as = "new" /\ c.kind = kind
  BY DEF Opened, Inbound, Answers, Calls
<1> HIDE DEF c
<1>2. ~Named(c) /\ ~Promised(c)
  BY <1>1 DEF Named, Promised
<1>3. \A o \in conns \cup {c} : Named(o) \/ Promised(o) => o \in conns
  BY <1>2
<1>4. InboundOK(m, conns \cup {c}, file)
  BY <1>1, <1>3 DEF InboundOK, UniqueNames
<1> QED BY <1>4 DEF c

LEMMA DialStep ==
    ASSUME IInv, NEW n \in Node, NEW a \in Node, Dial(n, a)
    PROVE  IInv'
<1> DEFINE t == [tables[n] EXCEPT !.dial[a] = "asked"]
<1>1. /\ saved \in [Node -> SUBSET Node] /\ tables \in [Node -> Table]
      /\ inbound \in [Node -> SUBSET Inbound] /\ tables[n] \in Table
      /\ TableOK(n, tables[n])
  BY DEF IInv, TypeOK
<1>2. tables[n].dial \in [Node -> Dialing]
  BY <1>1 DEF Table
<1>3. /\ t \in Table /\ t.known = tables[n].known /\ t.all = tables[n].all
      /\ t.gossip = tables[n].gossip /\ t.stray = tables[n].stray
      /\ \A b \in Node : t.dial[b] = IF b = a THEN "asked" ELSE tables[n].dial[b]
  BY <1>1, <1>2 DEF Table, Dialing
<1>4. /\ tables' = [tables EXCEPT ![n] = t] /\ tables[n].dial[a] = "waiting"
      /\ inbound' = [inbound EXCEPT ![a] = inbound[a] \cup {Opened(n, "link")}]
      /\ UNCHANGED <<up, saved, crowded, faults>>
  BY <1>1, <1>2 DEF Dial, Table
<1> HIDE DEF t
<1>5. n # a
  BY <1>1, <1>4, NodeAssumption DEF TableOK
<1>6. TableOK(n, t)
  <2>1. \A b \in Node : t.dial[b] # "none" <=> tables[n].dial[b] # "none"
    BY <1>3, <1>4
  <2> QED BY <1>1, <1>3, <2>1 DEF TableOK, Remembered
<1>7. /\ tables' \in [Node -> Table] /\ tables'[n] = t
      /\ \A m \in Node \ {n} : tables'[m] = tables[m]
  BY <1>1, <1>3, <1>4
<1>8. \A m \in Node : TableOK(m, tables'[m])
  BY <1>6, <1>7 DEF IInv
<1>9. InboundOK(a, inbound[a] \cup {Opened(n, "link")}, saved[a])
  BY <1>5, OpenedFacts DEF IInv
<1>10. \A m \in Node : InboundOK(m, inbound'[m], saved'[m])
  BY <1>1, <1>4, <1>9 DEF IInv
<1>11. inbound' \in [Node -> SUBSET Inbound]
  BY <1>1, <1>4, <1>9 DEF InboundOK
<1>12. TypeOK'
  BY <1>1, <1>4, <1>7, <1>8, <1>11 DEF IInv, TypeOK, TableOK
<1>13. FileCurrent'
  BY <1>3, <1>4, <1>7 DEF IInv, FileCurrent
<1>14. AcceptedIsSaved'
  BY <1>3, <1>4, <1>7 DEF IInv, AcceptedIsSaved, Remembered
<1>15. \A m \in Node : inbound[m] \subseteq inbound'[m]
  BY <1>1, <1>4
<1>16. NeverLost'
  BY <1>3, <1>4, <1>7, <1>15 DEF IInv, NeverLost, Remembered
<1> QED BY <1>8, <1>10, <1>12, <1>13, <1>14, <1>16 DEF IInv

LEMMA GossipCallStep ==
    ASSUME IInv, NEW n \in Node, NEW m \in Node, NEW kind \in Calls, GossipCall(n, m, kind)
    PROVE  IInv'
<1>1. /\ inbound \in [Node -> SUBSET Inbound] /\ TableOK(n, tables[n])
  BY DEF IInv, TypeOK
<1>2. /\ inbound' = [inbound EXCEPT ![m] = inbound[m] \cup {Opened(n, kind)}]
      /\ UNCHANGED <<up, saved, tables, crowded, faults>>
  BY DEF GossipCall
<1>3. n # m
  BY <1>1 DEF GossipCall, TableOK
<1>4. InboundOK(m, inbound[m] \cup {Opened(n, kind)}, saved[m])
  BY <1>3, OpenedFacts DEF IInv
<1>5. \A p \in Node : InboundOK(p, inbound'[p], saved'[p])
  BY <1>1, <1>2, <1>4 DEF IInv
<1>6. inbound' \in [Node -> SUBSET Inbound]
  BY <1>1, <1>2, <1>4 DEF InboundOK
<1>7. TypeOK'
  BY <1>2, <1>6 DEF IInv, TypeOK
<1>8. \A p \in Node : inbound[p] \subseteq inbound'[p]
  BY <1>1, <1>2
<1>9. NeverLost'
  BY <1>2, <1>8 DEF IInv, NeverLost, Remembered
<1> QED BY <1>2, <1>5, <1>7, <1>9 DEF IInv, FileCurrent, AcceptedIsSaved

\* A daemon answers a connection and changes nothing else.
LEMMA RefuseConnectStep ==
    ASSUME IInv, NEW a \in Node, NEW c \in inbound[a], RefuseConnect(a, c)
    PROVE  IInv'
<1>1. /\ inbound \in [Node -> SUBSET Inbound] /\ InboundOK(a, inbound[a], saved[a])
  BY DEF IInv, TypeOK
<1>2. PICK as \in {"refused", "crowded"} :
         /\ inbound' = [inbound EXCEPT ![a] = Answered(inbound[a], c, as)]
         /\ as = "crowded" => ~NameTaken(a, c)
         /\ UNCHANGED <<up, saved, tables, crowded, faults>>
  BY DEF RefuseConnect
<1>3. /\ InboundOK(a, Answered(inbound[a], c, as), saved[a])
      /\ KeepsPeers(inbound[a], Answered(inbound[a], c, as))
  <2>1. MayAnswer(inbound[a], c, as, saved[a])
    BY <1>2 DEF MayAnswer, Answers, NameTaken
  <2> QED BY <1>1, <2>1, AnsweredFacts
<1>4. /\ \A m \in Node : InboundOK(m, inbound'[m], saved'[m])
      /\ \A m \in Node : \A o \in inbound[m] : \E d \in inbound'[m] : d.peer = o.peer
  BY <1>1, <1>2, <1>3 DEF IInv, KeepsPeers
<1>5. inbound' \in [Node -> SUBSET Inbound]
  BY <1>1, <1>2, <1>3 DEF InboundOK
<1>6. TypeOK'
  BY <1>2, <1>5 DEF IInv, TypeOK
<1>7. NeverLost'
  <2>1. NeverLost
    BY DEF IInv
  <2>2. up' = up /\ saved' = saved /\ tables' = tables
    BY <1>2
  <2> QED BY <1>4, <2>1, <2>2, StillSeen
<1> QED BY <1>2, <1>4, <1>6, <1>7 DEF IInv, FileCurrent, AcceptedIsSaved

LEMMA ReadAcceptStep ==
    ASSUME IInv, NEW n \in Node, NEW a \in Node, ReadAccept(n, a)
    PROVE  IInv'
<1> DEFINE u == [tables[n] EXCEPT !.dial[a] = "accepted"]
           t == AddNeighbors(n, u, Explicit[a])
<1>1. /\ saved \in [Node -> SUBSET Node] /\ tables \in [Node -> Table]
      /\ tables[n] \in Table /\ TableOK(n, tables[n]) /\ inbound \in [Node -> SUBSET Inbound]
  BY DEF IInv, TypeOK
<1>2. /\ up[n] /\ tables[n].dial[a] = "asked"
      /\ \E c \in inbound[a] : c.peer = n /\ c.as = "remote"
      /\ tables' = [tables EXCEPT ![n] = t] /\ saved' = Save(n, t)
      /\ UNCHANGED <<up, inbound, crowded, faults>>
  BY DEF ReadAccept, LiveFrom
<1>3. /\ u \in Table /\ u.known = tables[n].known /\ u.all = tables[n].all
      /\ u.gossip = tables[n].gossip /\ u.stray = tables[n].stray
      /\ \A b \in Node : u.dial[b] = IF b = a THEN "accepted" ELSE tables[n].dial[b]
  BY <1>1 DEF Table, Dialing
<1> HIDE DEF u
<1>4. TableOK(n, u)
  <2>1. \A b \in Node : u.dial[b] # "none" <=> tables[n].dial[b] # "none"
    BY <1>2, <1>3
  <2> QED BY <1>1, <1>3, <2>1 DEF TableOK, Remembered
<1>5. /\ TableOK(n, t) /\ t.known = u.known \cup Explicit[a] /\ u.gossip \subseteq t.gossip
      /\ \A b \in Explicit[a] \cap Remembered : b > n /\ b \notin u.known => b \in t.gossip
      /\ \A b \in Node : t.dial[b] = "accepted" => u.dial[b] = "accepted"
  BY <1>4, OptionsAssumption, AddNeighborsFacts
<1> HIDE DEF t
<1>6. /\ saved' \in [Node -> SUBSET Node] /\ saved'[n] = t.known
      /\ \A m \in Node : saved[m] \cap Remembered \subseteq saved'[m]
      /\ tables' \in [Node -> Table] /\ \A m \in Node : TableOK(m, tables'[m])
      /\ FileCurrent'
  <2>1. up' = up /\ tables[n].known \cap Remembered \subseteq t.known
    BY <1>2, <1>3, <1>5
  <2>2. tables' = [tables EXCEPT ![n] = t] /\ saved' = Save(n, t) /\ up[n] /\ TableOK(n, t)
    BY <1>2, <1>5
  <2> QED BY <2>1, <2>2, Learning
<1>7. tables'[n] = t /\ \A m \in Node \ {n} : tables'[m] = tables[m]
  BY <1>1, <1>2
<1>8. TypeOK'
  BY <1>2, <1>6 DEF IInv, TypeOK, TableOK
<1>9. \A m \in Node : InboundOK(m, inbound'[m], saved'[m])
  BY <1>2, <1>6, LargerFile DEF IInv
<1>10. AcceptedIsSaved'
  <2> SUFFICES ASSUME NEW m \in Remembered, NEW b \in Remembered,
                      tables'[m].dial[b] = "accepted"
               PROVE  m \in saved'[b]
    BY DEF AcceptedIsSaved
  <2>1. m \in Node /\ b \in Node
    BY DEF Remembered
  <2>2. CASE m = n /\ b = a
    BY <1>2, <1>6, <2>1, <2>2 DEF IInv, InboundOK, Promised
  <2>3. CASE ~(m = n /\ b = a)
    <3>1. tables[m].dial[b] = "accepted"
      BY <1>3, <1>5, <1>7, <2>1, <2>3
    <3>2. m \in saved[b]
      BY <3>1 DEF IInv, AcceptedIsSaved
    <3> QED BY <1>6, <2>1, <3>2
  <2> QED BY <2>2, <2>3
<1>11. \A b \in tables'[n].known \cap Remembered :
          n < b => b \in tables[n].known \/ b \in tables'[n].gossip
  BY <1>3, <1>5, <1>7, NodeAssumption DEF Remembered
<1>12. tables[n].gossip \subseteq tables'[n].gossip
  BY <1>3, <1>5, <1>7
<1>13. NeverLost'
  <2>1. NeverLost
    BY DEF IInv
  <2> QED BY <1>2, <1>6, <1>7, <1>11, <1>12, <2>1, StillSeen
<1> QED BY <1>6, <1>8, <1>9, <1>10, <1>13 DEF IInv

LEMMA AcceptConnectStep ==
    ASSUME IInv, NEW a \in Node, NEW c \in inbound[a], AcceptConnect(a, c)
    PROVE  IInv'
<1> DEFINE n == c.peer
           s == AddNeighbors(a, tables[a], Explicit[n])
           t == AddNeighbors(a, s, {n})
           u == GossipReceived(t, n)
           mine == Answered(inbound[a], c, "remote")
           theirs == Closed(inbound[n], a, {"gossip"})
<1>1. /\ saved \in [Node -> SUBSET Node] /\ tables \in [Node -> Table]
      /\ TableOK(a, tables[a]) /\ inbound \in [Node -> SUBSET Inbound]
      /\ InboundOK(a, inbound[a], saved[a])
  BY DEF IInv, TypeOK
<1>2. n \in Node /\ n # a
  BY <1>1 DEF InboundOK, Inbound
<1>3. /\ up[a] /\ ~NameTaken(a, c)
      /\ tables' = [tables EXCEPT ![a] = u] /\ saved' = Save(a, t)
      /\ inbound' = [inbound EXCEPT ![a] = mine, ![n] = theirs]
      /\ UNCHANGED <<up, crowded, faults>>
  BY <1>1, <1>2 DEF AcceptConnect
<1> HIDE DEF n
<1>4. /\ TableOK(a, s) /\ s.known = tables[a].known \cup Explicit[n]
      /\ tables[a].gossip \subseteq s.gossip
      /\ \A b \in Explicit[n] \cap Remembered : b > a /\ b \notin tables[a].known => b \in s.gossip
      /\ \A b \in Node : s.dial[b] = "accepted" => tables[a].dial[b] = "accepted"
  BY <1>1, <1>2, OptionsAssumption, AddNeighborsFacts
<1> HIDE DEF s
<1>5. /\ TableOK(a, t) /\ t.known = s.known \cup {n} /\ s.gossip \subseteq t.gossip
      /\ \A b \in Node : t.dial[b] = "accepted" => s.dial[b] = "accepted"
  BY <1>2, <1>4, AddNeighborsFacts
<1> HIDE DEF t
<1>6. /\ u \in Table /\ u.known = t.known /\ u.all = t.all /\ u.dial = t.dial
      /\ u.gossip = t.gossip \ {n} /\ u.stray = t.stray
  BY <1>5 DEF GossipReceived, TableOK, Table
<1> HIDE DEF u
<1>7. TableOK(a, u)
  BY <1>5, <1>6 DEF TableOK
<1>8. /\ saved' \in [Node -> SUBSET Node] /\ saved'[a] = u.known
      /\ \A m \in Node : saved[m] \cap Remembered \subseteq saved'[m]
      /\ tables' \in [Node -> Table] /\ \A m \in Node : TableOK(m, tables'[m])
      /\ FileCurrent'
  <2>1. up' = up /\ tables[a].known \cap Remembered \subseteq u.known
    BY <1>3, <1>4, <1>5, <1>6
  <2>2. Save(a, t) = Save(a, u)
    BY <1>6 DEF Save
  <2>3. tables' = [tables EXCEPT ![a] = u] /\ saved' = Save(a, u) /\ up[a] /\ TableOK(a, u)
    BY <1>3, <1>7, <2>2
  <2> QED BY <2>1, <2>3, Learning
<1>9. tables'[a] = u /\ \A m \in Node \ {a} : tables'[m] = tables[m]
  BY <1>1, <1>3
<1>10. /\ InboundOK(a, mine, saved'[a])
       /\ KeepsPeers(inbound[a], mine)
  <2>1. InboundOK(a, inbound[a], saved'[a])
    BY <1>1, <1>8, LargerFile
  <2>2. MayAnswer(inbound[a], c, "remote", saved'[a])
    BY <1>3, <1>5, <1>6, <1>8 DEF MayAnswer, Answers, NameTaken, n
  <2> QED BY <2>1, <2>2, AnsweredFacts
<1>11. /\ InboundOK(n, theirs, saved'[n])
       /\ KeepsPeers(inbound[n], theirs)
  <2>1. InboundOK(n, inbound[n], saved'[n])
    BY <1>2, <1>8, LargerFile DEF IInv
  <2> QED BY <2>1, ClosedFacts DEF KeepsPeers
<1> HIDE DEF mine, theirs
<1>12. /\ inbound'[a] = mine /\ inbound'[n] = theirs
       /\ \A m \in Node \ {a, n} : inbound'[m] = inbound[m]
  BY <1>1, <1>2, <1>3
<1>13. \A m \in Node : InboundOK(m, inbound'[m], saved'[m])
  <2> TAKE m \in Node
  <2>1. CASE m \in {a, n}
    BY <1>10, <1>11, <1>12, <2>1
  <2>2. CASE m \notin {a, n}
    BY <1>8, <1>12, <2>2, LargerFile DEF IInv
  <2> QED BY <2>1, <2>2
<1>14. \A m \in Node : \A o \in inbound[m] : \E d \in inbound'[m] : d.peer = o.peer
  BY <1>10, <1>11, <1>12 DEF KeepsPeers
<1>15. inbound' \in [Node -> SUBSET Inbound]
  BY <1>1, <1>3, <1>10, <1>11 DEF InboundOK
<1>16. TypeOK'
  BY <1>3, <1>8, <1>15 DEF IInv, TypeOK, TableOK
<1>17. AcceptedIsSaved'
  <2> SUFFICES ASSUME NEW m \in Remembered, NEW b \in Remembered,
                      tables'[m].dial[b] = "accepted"
               PROVE  m \in saved'[b]
    BY DEF AcceptedIsSaved
  <2>1. m \in Node /\ b \in Node
    BY DEF Remembered
  <2>2. tables[m].dial[b] = "accepted"
    BY <1>4, <1>5, <1>6, <1>9, <2>1
  <2>3. m \in saved[b]
    BY <2>2 DEF IInv, AcceptedIsSaved
  <2> QED BY <1>8, <2>1, <2>3
<1>18. NeverLost'
  <2> SUFFICES ASSUME NEW m \in Remembered, NEW b \in Remembered,
                      up'[m], m < b, b \in tables'[m].known
               PROVE  \/ b \in tables'[m].gossip
                      \/ \E d \in inbound'[m] : d.peer = b
                      \/ m \in saved'[b]
    BY DEF NeverLost
  <2>1. m \in Node /\ b \in Node /\ up[m]
    BY <1>3 DEF Remembered
  <2>2. CASE m = a /\ b = n
    BY <1>10, <1>12, <1>14, <2>2 DEF n
  <2>3. CASE b \in tables[m].known /\ ~(m = a /\ b = n)
    <3>1. \/ b \in tables[m].gossip
          \/ \E d \in inbound[m] : d.peer = b
          \/ m \in saved[b]
      BY <2>1, <2>3 DEF IInv, NeverLost
    <3>2. b \in tables[m].gossip => b \in tables'[m].gossip
      BY <1>4, <1>5, <1>6, <1>9, <2>1, <2>3
    <3>3. (\E d \in inbound[m] : d.peer = b) => \E d \in inbound'[m] : d.peer = b
      BY <1>14, <2>1
    <3> QED BY <1>8, <2>1, <3>1, <3>2, <3>3
  <2>4. CASE b \notin tables[m].known /\ ~(m = a /\ b = n)
    <3>1. m = a /\ b # n /\ b \in Explicit[n]
      BY <1>4, <1>5, <1>6, <1>9, <2>1, <2>4
    <3>2. b > a
      BY <2>1, <3>1, NodeAssumption
    <3> QED BY <1>4, <1>5, <1>6, <1>9, <2>4, <3>1, <3>2
  <2> QED BY <2>2, <2>3, <2>4
<1> QED BY <1>8, <1>13, <1>16, <1>17, <1>18 DEF IInv

LEMMA HandleGossipStep ==
    ASSUME IInv, NEW m \in Node, NEW c \in inbound[m], HandleGossip(m, c)
    PROVE  IInv'
<1> DEFINE n == c.peer
           t == AddNeighbors(m, tables[m], {n})
           u == AddRemotes(m, t, {n})
           mine == Answered(inbound[m], c, "told")
<1>1. /\ saved \in [Node -> SUBSET Node] /\ tables \in [Node -> Table]
      /\ TableOK(m, tables[m]) /\ inbound \in [Node -> SUBSET Inbound]
      /\ InboundOK(m, inbound[m], saved[m])
  BY DEF IInv, TypeOK
<1>2. n \in Node /\ n # m
  BY <1>1 DEF InboundOK, Inbound
<1>3. /\ up[m]
      /\ tables' = [tables EXCEPT ![m] = u] /\ saved' = Save(m, t)
      /\ inbound' = [inbound EXCEPT ![m] = mine]
      /\ UNCHANGED <<up, crowded, faults>>
  BY DEF HandleGossip
<1> HIDE DEF n
<1>4. /\ TableOK(m, t) /\ t.known = tables[m].known \cup {n}
      /\ tables[m].gossip \subseteq t.gossip
      /\ \A b \in {n} \cap Remembered : b > m /\ b \notin tables[m].known => b \in t.gossip
      /\ \A b \in Node : t.dial[b] = "accepted" => tables[m].dial[b] = "accepted"
  BY <1>1, <1>2, AddNeighborsFacts
<1> HIDE DEF t
<1>5. /\ u \in Table /\ u.known = t.known /\ u.stray = t.stray
      /\ u.all = t.all \cup ({n} \ {m})
      /\ u.gossip = t.gossip \cup {b \in {n} \ (t.all \cup {m}) : b > m}
      /\ \A b \in Node : u.dial[b] = IF b \in {n} \ (t.all \cup {m}) /\ b < m
                                     THEN "waiting" ELSE t.dial[b]
  <2>1. t \in Table
    BY <1>4 DEF TableOK
  <2> QED BY <1>2, <2>1, AddRemotesFacts
<1> HIDE DEF u
<1>6. TableOK(m, u)
  <2>1. m \notin u.all /\ m \notin u.gossip /\ m \notin u.stray
    BY <1>4, <1>5 DEF TableOK
  <2>2. \A b \in Node : u.dial[b] # "none" => b < m
    BY <1>4, <1>5 DEF TableOK
  <2>3. u.all \cap Remembered \subseteq u.known
    BY <1>4, <1>5 DEF TableOK
  <2>4. \A b \in u.known \cap Remembered : b < m => u.dial[b] # "none"
    <3>1. \A b \in u.known \cap Remembered : b \in Node /\ b \in t.known
      BY <1>5 DEF Remembered
    <3> QED BY <1>4, <1>5, <3>1 DEF TableOK
  <2> QED BY <1>5, <2>1, <2>2, <2>3, <2>4 DEF TableOK
<1>7. /\ saved' \in [Node -> SUBSET Node] /\ saved'[m] = u.known
      /\ \A p \in Node : saved[p] \cap Remembered \subseteq saved'[p]
      /\ tables' \in [Node -> Table] /\ \A p \in Node : TableOK(p, tables'[p])
      /\ FileCurrent'
  <2>1. up' = up /\ tables[m].known \cap Remembered \subseteq u.known
    BY <1>3, <1>4, <1>5
  <2>2. Save(m, t) = Save(m, u)
    BY <1>5 DEF Save
  <2>3. tables' = [tables EXCEPT ![m] = u] /\ saved' = Save(m, u) /\ up[m] /\ TableOK(m, u)
    BY <1>3, <1>6, <2>2
  <2> QED BY <2>1, <2>3, Learning
<1>8. tables'[m] = u /\ \A p \in Node \ {m} : tables'[p] = tables[p]
  BY <1>1, <1>3
<1>9. InboundOK(m, mine, saved'[m]) /\ KeepsPeers(inbound[m], mine)
  <2>1. InboundOK(m, inbound[m], saved'[m])
    BY <1>1, <1>7, LargerFile
  <2>2. MayAnswer(inbound[m], c, "told", saved'[m])
    BY <1>4, <1>5, <1>7 DEF MayAnswer, Answers, n
  <2> QED BY <2>1, <2>2, AnsweredFacts
<1> HIDE DEF mine
<1>10. inbound'[m] = mine /\ \A p \in Node \ {m} : inbound'[p] = inbound[p]
  BY <1>1, <1>3
<1>11. \A p \in Node : InboundOK(p, inbound'[p], saved'[p])
  <2> TAKE p \in Node
  <2>1. CASE p = m
    BY <1>9, <1>10, <2>1
  <2>2. CASE p # m
    BY <1>7, <1>10, <2>2, LargerFile DEF IInv
  <2> QED BY <2>1, <2>2
<1>12. \A p \in Node : \A o \in inbound[p] : \E d \in inbound'[p] : d.peer = o.peer
  BY <1>9, <1>10 DEF KeepsPeers
<1>13. inbound' \in [Node -> SUBSET Inbound]
  BY <1>1, <1>3, <1>9 DEF InboundOK
<1>14. TypeOK'
  BY <1>3, <1>7, <1>13 DEF IInv, TypeOK, TableOK
<1>15. AcceptedIsSaved'
  <2> SUFFICES ASSUME NEW p \in Remembered, NEW b \in Remembered,
                      tables'[p].dial[b] = "accepted"
               PROVE  p \in saved'[b]
    BY DEF AcceptedIsSaved
  <2>1. p \in Node /\ b \in Node
    BY DEF Remembered
  <2>2. tables[p].dial[b] = "accepted"
    BY <1>4, <1>5, <1>8, <2>1
  <2>3. p \in saved[b]
    BY <2>2 DEF IInv, AcceptedIsSaved
  <2> QED BY <1>7, <2>1, <2>3
<1>16. \A b \in tables'[m].known \cap Remembered :
          m < b => b \in tables[m].known \/ b \in tables'[m].gossip
  BY <1>4, <1>5, <1>8, NodeAssumption DEF Remembered
<1>17. tables[m].gossip \subseteq tables'[m].gossip
  BY <1>4, <1>5, <1>8
<1>18. NeverLost'
  <2>1. NeverLost
    BY DEF IInv
  <2>2. up' = up
    BY <1>3
  <2> QED BY <1>7, <1>8, <1>12, <1>16, <1>17, <2>1, <2>2, StillSeen
<1> QED BY <1>7, <1>11, <1>14, <1>15, <1>18 DEF IInv

\* A step that only changes which larger addresses a daemon calls.
LEMMA GossipFacts ==
    ASSUME IInv, NEW n \in Node, NEW G \in SUBSET Node, n \notin G,
           tables' = [tables EXCEPT ![n] = [tables[n] EXCEPT !.gossip = G]],
           UNCHANGED <<up, saved>>
    PROVE  /\ tables' \in [Node -> Table]
           /\ \A m \in Node : /\ TableOK(m, tables'[m])
                              /\ tables'[m].known = tables[m].known
                              /\ m # n => tables'[m] = tables[m]
           /\ tables'[n].gossip = G
           /\ FileCurrent' /\ AcceptedIsSaved'
<1> DEFINE t == [tables[n] EXCEPT !.gossip = G]
<1>1. tables \in [Node -> Table] /\ tables[n] \in Table /\ TableOK(n, tables[n])
  BY DEF IInv, TypeOK
<1>2. /\ t \in Table /\ t.known = tables[n].known /\ t.all = tables[n].all
      /\ t.gossip = G /\ t.stray = tables[n].stray /\ t.dial = tables[n].dial
  BY <1>1 DEF Table
<1> HIDE DEF t
<1>3. TableOK(n, t)
  BY <1>1, <1>2 DEF TableOK
<1>4. tables' = [tables EXCEPT ![n] = t]
  BY DEF t
<1>5. tables'[n] = t /\ \A m \in Node \ {n} : tables'[m] = tables[m]
  BY <1>1, <1>4
<1>6. tables' \in [Node -> Table]
  BY <1>1, <1>2, <1>4
<1>7. \A m \in Node : TableOK(m, tables'[m])
  BY <1>3, <1>5 DEF IInv
<1>8. FileCurrent'
  BY <1>2, <1>5 DEF IInv, FileCurrent
<1>9. AcceptedIsSaved'
  BY <1>2, <1>5 DEF IInv, AcceptedIsSaved, Remembered
<1> QED BY <1>2, <1>5, <1>6, <1>7, <1>8, <1>9

LEMMA ReadReceivedStep ==
    ASSUME IInv, NEW n \in Node, NEW m \in Node, NEW kind \in Calls,
           ReadReceived(n, m, kind)
    PROVE  IInv'
<1>0. PICK c \in LiveFrom(m, n, kind) :
         /\ c.as = "told"
         /\ inbound' = [inbound EXCEPT ![m] = Closed(Answered(@, c, "heard"), n, {"gossip"})]
  BY DEF ReadReceived
<1> DEFINE heard == Answered(inbound[m], c, "heard")
           theirs == Closed(heard, n, {"gossip"})
<1>1. /\ tables \in [Node -> Table] /\ TableOK(n, tables[n])
      /\ inbound \in [Node -> SUBSET Inbound]
      /\ InboundOK(m, inbound[m], saved[m])
  BY DEF IInv, TypeOK
<1>2. c \in inbound[m] /\ c.peer = n /\ c.as = "told"
  BY <1>0 DEF LiveFrom
<1>3. /\ tables' = [tables EXCEPT ![n] = [tables[n] EXCEPT !.gossip = tables[n].gossip \ {m}]]
      /\ inbound' = [inbound EXCEPT ![m] = theirs]
      /\ UNCHANGED <<up, saved, crowded, faults>>
  BY <1>0, <1>1 DEF ReadReceived, GossipReceived
<1>4. tables[n].gossip \in SUBSET Node /\ n \notin tables[n].gossip
  BY <1>1 DEF TableOK, Table
<1>5. /\ tables' \in [Node -> Table]
      /\ \A p \in Node : /\ TableOK(p, tables'[p]) /\ tables'[p].known = tables[p].known
                         /\ p # n => tables'[p] = tables[p]
      /\ tables'[n].gossip = tables[n].gossip \ {m}
      /\ FileCurrent' /\ AcceptedIsSaved'
  <2> DEFINE G == tables[n].gossip \ {m}
  <2>1. G \in SUBSET Node /\ n \notin G
    BY <1>4
  <2>2. tables' = [tables EXCEPT ![n] = [tables[n] EXCEPT !.gossip = G]]
        /\ UNCHANGED <<up, saved>>
    BY <1>3
  <2> HIDE DEF G
  <2>3. /\ tables' \in [Node -> Table]
        /\ \A p \in Node : /\ TableOK(p, tables'[p]) /\ tables'[p].known = tables[p].known
                           /\ p # n => tables'[p] = tables[p]
        /\ tables'[n].gossip = G
        /\ FileCurrent' /\ AcceptedIsSaved'
    BY <2>1, <2>2, GossipFacts
  <2> QED BY <2>3 DEF G
<1>6. InboundOK(m, theirs, saved[m]) /\ KeepsPeers(inbound[m], theirs)
  <2>1. MayAnswer(inbound[m], c, "heard", saved[m])
    BY <1>2 DEF MayAnswer, Answers
  <2>2. InboundOK(m, heard, saved[m]) /\ KeepsPeers(inbound[m], heard)
    BY <1>1, <2>1, AnsweredFacts
  <2> HIDE DEF heard
  <2>3. InboundOK(m, theirs, saved[m]) /\ KeepsPeers(heard, theirs)
    BY <2>2, ClosedFacts DEF KeepsPeers
  <2> QED BY <2>2, <2>3 DEF KeepsPeers
<1> HIDE DEF theirs
<1>7. /\ \A p \in Node : InboundOK(p, inbound'[p], saved'[p])
      /\ \A p \in Node : \A o \in inbound[p] : \E d \in inbound'[p] : d.peer = o.peer
  BY <1>1, <1>3, <1>6 DEF IInv, KeepsPeers
<1>8. inbound' \in [Node -> SUBSET Inbound]
  BY <1>1, <1>3, <1>6 DEF InboundOK
<1>9. TypeOK'
  BY <1>3, <1>5, <1>8 DEF IInv, TypeOK, TableOK
<1>10. n \in Remembered /\ m \in Remembered => n \in saved[m]
  BY <1>1, <1>2 DEF InboundOK, Promised
<1>11. NeverLost'
  <2> SUFFICES ASSUME NEW a \in Remembered, NEW b \in Remembered,
                      up'[a], a < b, b \in tables'[a].known
               PROVE  \/ b \in tables'[a].gossip
                      \/ \E d \in inbound'[a] : d.peer = b
                      \/ a \in saved'[b]
    BY DEF NeverLost
  <2>1. a \in Node /\ b \in Node /\ up[a] /\ b \in tables[a].known /\ saved' = saved
    BY <1>3, <1>5 DEF Remembered
  <2>2. \/ b \in tables[a].gossip
        \/ \E d \in inbound[a] : d.peer = b
        \/ a \in saved[b]
    BY <2>1 DEF IInv, NeverLost
  <2>3. CASE b \in tables[a].gossip
    BY <1>5, <1>10, <2>1, <2>3
  <2>4. CASE \E d \in inbound[a] : d.peer = b
    BY <1>7, <2>1, <2>4
  <2> QED BY <2>1, <2>2, <2>3, <2>4
<1> QED BY <1>5, <1>7, <1>9, <1>11 DEF IInv

LEMMA InboundGoneStep ==
    ASSUME IInv, NEW m \in Node, NEW c \in inbound[m], InboundGone(m, c) \/ CutInbound(m, c)
    PROVE  IInv'
<1> DEFINE n == c.peer
           G == tables[m].gossip \cup {n}
<1>1. /\ tables \in [Node -> Table] /\ TableOK(m, tables[m])
      /\ inbound \in [Node -> SUBSET Inbound]
      /\ InboundOK(m, inbound[m], saved[m])
  BY DEF IInv, TypeOK
<1>2. n \in Node /\ n # m
  BY <1>1 DEF InboundOK, Inbound
<1>3. G \in SUBSET Node /\ m \notin G
  BY <1>1, <1>2 DEF TableOK, Table
<1>4. /\ tables' = [tables EXCEPT ![m] = [tables[m] EXCEPT !.gossip = G]]
      /\ inbound' = [inbound EXCEPT ![m] = inbound[m] \ {c}]
      /\ UNCHANGED <<up, saved, crowded>>
      /\ faults' \in 0..MaxFaults
  BY <1>1, OptionsAssumption DEF InboundGone, CutInbound, ConnectionLost, IInv, TypeOK
<1> HIDE DEF G
<1>5. UNCHANGED <<up, saved>>
  BY <1>4
<1>6. /\ tables' \in [Node -> Table]
      /\ \A p \in Node : /\ TableOK(p, tables'[p]) /\ tables'[p].known = tables[p].known
                         /\ p # m => tables'[p] = tables[p]
      /\ tables'[m].gossip = G
      /\ FileCurrent' /\ AcceptedIsSaved'
  BY <1>3, <1>4, <1>5, GossipFacts
<1>7. \A p \in Node : inbound'[p] \subseteq inbound[p]
  BY <1>1, <1>4
<1>8. \A p \in Node : InboundOK(p, inbound'[p], saved'[p])
  BY <1>4, <1>7 DEF IInv, InboundOK, UniqueNames
<1>9. inbound' \in [Node -> SUBSET Inbound]
  BY <1>1, <1>4
<1>10. TypeOK'
  BY <1>4, <1>6, <1>9 DEF IInv, TypeOK, TableOK
<1>11. NeverLost'
  <2> SUFFICES ASSUME NEW a \in Remembered, NEW b \in Remembered,
                      up'[a], a < b, b \in tables'[a].known
               PROVE  \/ b \in tables'[a].gossip
                      \/ \E d \in inbound'[a] : d.peer = b
                      \/ a \in saved'[b]
    BY DEF NeverLost
  <2>1. a \in Node /\ b \in Node /\ up[a] /\ b \in tables[a].known /\ saved' = saved
    BY <1>4, <1>6 DEF Remembered
  <2>2. \/ b \in tables[a].gossip
        \/ \E d \in inbound[a] : d.peer = b
        \/ a \in saved[b]
    BY <2>1 DEF IInv, NeverLost
  <2>3. CASE b \in tables[a].gossip
    BY <1>6, <2>1, <2>3 DEF G
  <2>4. CASE \E d \in inbound[a] : d.peer = b
    <3>1. PICK d \in inbound[a] : d.peer = b
      BY <2>4
    <3>2. CASE a = m /\ d = c
      BY <1>6, <3>1, <3>2 DEF G
    <3>3. CASE ~(a = m /\ d = c)
      BY <1>1, <1>4, <2>1, <3>1, <3>3
    <3> QED BY <3>2, <3>3
  <2> QED BY <2>1, <2>2, <2>3, <2>4
<1> QED BY <1>6, <1>8, <1>10, <1>11 DEF IInv

\* The gossip of n becomes a stray one, its permanent connection is closed.
LEMMA ForgottenFacts ==
    ASSUME NEW m, NEW conns, NEW file, InboundOK(m, conns, file), NEW n
    PROVE  LET r == {IF c.peer = n /\ c.kind = "gossip" THEN [c EXCEPT !.kind = "stray"] ELSE c :
                       c \in Closed(conns, n, {"link"})} IN
           InboundOK(m, r, file) /\ KeepsPeers(conns, r)
<1> DEFINE f(c) == IF c.peer = n /\ c.kind = "gossip" THEN [c EXCEPT !.kind = "stray"] ELSE c
           closed == Closed(conns, n, {"link"})
           r == {f(c) : c \in closed}
<1>1. InboundOK(m, closed, file) /\ \A c \in conns : \E d \in closed : d.peer = c.peer
  BY ClosedFacts
<1> HIDE DEF closed
<1>2. \A c \in Inbound : f(c) \in Inbound /\ f(c).peer = c.peer /\ f(c).as = c.as
  BY DEF Inbound, Calls
<1> HIDE DEF f
<1>3. closed \subseteq Inbound
  BY <1>1 DEF InboundOK
<1>4. r \subseteq Inbound /\ \A c \in r : c.peer # m
  BY <1>1, <1>2, <1>3 DEF InboundOK
<1>5. UniqueNames(r)
  BY <1>1, <1>2, <1>3 DEF InboundOK, UniqueNames, Named
<1>6. m \in Remembered =>
         \A c \in r : c.peer \in Remembered /\ Promised(c) => c.peer \in file
  BY <1>1, <1>2, <1>3 DEF InboundOK, Promised
<1>7. KeepsPeers(conns, r)
  BY <1>1, <1>2, <1>3 DEF KeepsPeers
<1>8. InboundOK(m, r, file) /\ KeepsPeers(conns, r)
  BY <1>4, <1>5, <1>6, <1>7 DEF InboundOK
<1> QED BY <1>8 DEF r, f, closed

LEMMA ForgetStep ==
    ASSUME IInv, NEW n \in Node, NEW x \in Forgettable, Forget(n, x)
    PROVE  IInv'
<1> DEFINE t == tables[n]
           u == [t EXCEPT !.known = t.known \ {x}]
           f == ForgetRemote(u, x)
           theirs == {IF c.peer = n /\ c.kind = "gossip" THEN [c EXCEPT !.kind = "stray"] ELSE c :
                        c \in Closed(inbound[x], n, {"link"})}
<1>1. /\ saved \in [Node -> SUBSET Node] /\ tables \in [Node -> Table]
      /\ t \in Table /\ TableOK(n, t) /\ inbound \in [Node -> SUBSET Inbound]
      /\ x \in Node /\ x \notin Remembered
  BY OptionsAssumption DEF IInv, TypeOK, Remembered
<1>2. /\ up[n] /\ tables' = [tables EXCEPT ![n] = f] /\ saved' = Save(n, f)
      /\ inbound' = [inbound EXCEPT ![x] = theirs]
      /\ UNCHANGED <<up, crowded>>
      /\ faults < MaxFaults /\ faults' = faults + 1
  BY <1>1 DEF Forget
<1>3. t.dial \in [Node -> Dialing]
  BY <1>1 DEF Table
<1> HIDE DEF t
<1>4. /\ f \in Table /\ f.known = t.known \ {x} /\ f.all = t.all
      /\ f.gossip = t.gossip \ {x} /\ f.stray = t.stray \cup (t.gossip \cap {x})
      /\ \A b \in Node : f.dial[b] = IF b = x THEN "none" ELSE t.dial[b]
  <2>1. /\ u \in Table /\ u.known = t.known \ {x} /\ u.all = t.all /\ u.dial = t.dial
        /\ u.gossip = t.gossip /\ u.stray = t.stray
    BY <1>1 DEF Table
  <2> HIDE DEF u
  <2> QED BY <1>1, <1>3, <2>1 DEF Table, Dialing, ForgetRemote
<1> HIDE DEF f
<1>5. TableOK(n, f)
  <2>1. n \notin f.all /\ n \notin f.gossip /\ n \notin f.stray
    BY <1>1, <1>4 DEF TableOK
  <2>2. \A b \in Node : f.dial[b] # "none" => b < n
    BY <1>1, <1>4 DEF TableOK
  <2>3. f.all \cap Remembered \subseteq f.known
    BY <1>1, <1>4 DEF TableOK
  <2>4. \A b \in f.known \cap Remembered : b < n => f.dial[b] # "none"
    <3>1. \A b \in f.known \cap Remembered : b \in Node /\ b \in t.known /\ b # x
      BY <1>1, <1>4 DEF Remembered
    <3> QED BY <1>1, <1>4, <3>1 DEF TableOK
  <2> QED BY <1>4, <2>1, <2>2, <2>3, <2>4 DEF TableOK
<1>6. /\ saved' \in [Node -> SUBSET Node] /\ saved'[n] = f.known
      /\ \A m \in Node : saved[m] \cap Remembered \subseteq saved'[m]
      /\ tables' \in [Node -> Table] /\ \A m \in Node : TableOK(m, tables'[m])
      /\ FileCurrent'
  <2>1. up' = up /\ tables[n].known \cap Remembered \subseteq f.known
    BY <1>1, <1>2, <1>4 DEF t
  <2>2. tables' = [tables EXCEPT ![n] = f] /\ saved' = Save(n, f) /\ up[n] /\ TableOK(n, f)
    BY <1>2, <1>5
  <2> QED BY <2>1, <2>2, Learning
<1>7. tables'[n] = f /\ \A m \in Node \ {n} : tables'[m] = tables[m]
  BY <1>1, <1>2
<1>8. InboundOK(x, theirs, saved'[x]) /\ KeepsPeers(inbound[x], theirs)
  <2>1. InboundOK(x, inbound[x], saved'[x])
    BY <1>1, <1>6, LargerFile DEF IInv
  <2> QED BY <2>1, ForgottenFacts
<1> HIDE DEF theirs
<1>9. inbound'[x] = theirs /\ \A m \in Node \ {x} : inbound'[m] = inbound[m]
  BY <1>1, <1>2
<1>10. \A m \in Node : InboundOK(m, inbound'[m], saved'[m])
  <2> TAKE m \in Node
  <2>1. CASE m = x
    BY <1>8, <1>9, <2>1
  <2>2. CASE m # x
    BY <1>6, <1>9, <2>2, LargerFile DEF IInv
  <2> QED BY <2>1, <2>2
<1>11. \A m \in Node : \A c \in inbound[m] : \E d \in inbound'[m] : d.peer = c.peer
  BY <1>8, <1>9 DEF KeepsPeers
<1>12. inbound' \in [Node -> SUBSET Inbound]
  BY <1>1, <1>2, <1>8 DEF InboundOK
<1>13. faults' \in 0..MaxFaults
  BY <1>2, OptionsAssumption DEF IInv, TypeOK
<1>14. TypeOK'
  BY <1>2, <1>6, <1>12, <1>13 DEF IInv, TypeOK, TableOK
<1>15. AcceptedIsSaved'
  <2> SUFFICES ASSUME NEW m \in Remembered, NEW b \in Remembered,
                      tables'[m].dial[b] = "accepted"
               PROVE  m \in saved'[b]
    BY DEF AcceptedIsSaved
  <2>1. m \in Node /\ b \in Node
    BY DEF Remembered
  <2>2. tables[m].dial[b] = "accepted"
    BY <1>1, <1>4, <1>7, <2>1 DEF t
  <2>3. m \in saved[b]
    BY <2>2 DEF IInv, AcceptedIsSaved
  <2> QED BY <1>6, <2>1, <2>3
<1>16. NeverLost'
  <2> SUFFICES ASSUME NEW a \in Remembered, NEW b \in Remembered,
                      up'[a], a < b, b \in tables'[a].known
               PROVE  \/ b \in tables'[a].gossip
                      \/ \E d \in inbound'[a] : d.peer = b
                      \/ a \in saved'[b]
    BY DEF NeverLost
  <2>1. a \in Node /\ b \in Node /\ up[a] /\ b # x
    BY <1>1, <1>2 DEF Remembered
  <2>2. b \in tables[a].known /\ (b \in tables[a].gossip => b \in tables'[a].gossip)
    BY <1>4, <1>7, <2>1 DEF t
  <2>3. \/ b \in tables[a].gossip
        \/ \E d \in inbound[a] : d.peer = b
        \/ a \in saved[b]
    BY <2>1, <2>2 DEF IInv, NeverLost
  <2>4. CASE \E d \in inbound[a] : d.peer = b
    BY <1>11, <2>1, <2>4
  <2>5. CASE a \in saved[b]
    BY <1>6, <2>1, <2>5
  <2> QED BY <2>2, <2>3, <2>4, <2>5
<1> QED BY <1>6, <1>10, <1>14, <1>15, <1>16 DEF IInv

\* Local services and stuttering.
LEMMA OtherStep ==
    ASSUME IInv, UNCHANGED <<up, saved, tables, inbound>>,
           crowded' \subseteq Node, faults' \in 0..MaxFaults
    PROVE  IInv'
BY DEF IInv, TypeOK, FileCurrent, AcceptedIsSaved, NeverLost

-----------------------------------------------------------------------------
(* Theorems.                                                               *)

LEMMA InitIInv == Init => IInv
<1> SUFFICES ASSUME Init PROVE IInv
  OBVIOUS
<1>1. /\ Blank \in Table /\ Blank.known = {} /\ Blank.all = {} /\ Blank.gossip = {}
      /\ Blank.stray = {} /\ \A a \in Node : Blank.dial[a] = "none"
  BY DEF Blank, Table, Dialing
<1>2. \A n \in Node : tables[n] = Blank /\ TableOK(n, tables[n])
  BY <1>1 DEF Init, TableOK
<1>3. tables \in [Node -> Table]
  BY <1>1 DEF Init
<1>4. TypeOK
  BY <1>2, <1>3, OptionsAssumption DEF Init, TypeOK, TableOK
<1>5. \A m \in Node : InboundOK(m, inbound[m], saved[m])
  BY DEF Init, InboundOK, UniqueNames
<1>6. FileCurrent /\ AcceptedIsSaved /\ NeverLost
  BY <1>1, <1>2 DEF Init, FileCurrent, AcceptedIsSaved, NeverLost, Remembered
<1> QED BY <1>2, <1>4, <1>5, <1>6 DEF IInv

LEMMA NextIInv == IInv /\ [Next]_vars => IInv'
<1> SUFFICES ASSUME IInv, [Next]_vars PROVE IInv'
  OBVIOUS
<1> USE DEF IInv
<1>1. ASSUME NEW n \in Node, Start(n) PROVE IInv'
  BY <1>1, StartStep
<1>2. ASSUME NEW n \in Node, Stop(n) PROVE IInv'
  BY <1>2, StopStep
<1>3. ASSUME NEW n \in Node, Crowd(n) \/ Thin(n) PROVE IInv'
  BY <1>3, OtherStep, OptionsAssumption DEF Crowd, Thin, TypeOK
<1>4. ASSUME NEW n \in Node, NEW a \in Node, Dial(n, a) PROVE IInv'
  BY <1>4, DialStep
<1>5. ASSUME NEW n \in Node, NEW a \in Node, ReadAccept(n, a) PROVE IInv'
  BY <1>5, ReadAcceptStep
<1>6. ASSUME NEW n \in Node, NEW a \in Node, ReadRefuse(n, a) PROVE IInv'
  <2>1. tables[n].dial[a] # "none" /\ tables' = Waiting(n, a)
    BY <1>6 DEF ReadRefuse
  <2>2. UNCHANGED <<up, saved, crowded>> /\ faults' \in 0..MaxFaults
    BY <1>6 DEF ReadRefuse, TypeOK
  <2>3. inbound' = [inbound EXCEPT ![a] = Closed(@, n, {"link"})]
    BY <1>6 DEF ReadRefuse
  <2> QED BY <2>1, <2>2, <2>3, WaitingStep
<1>7. ASSUME NEW n \in Node, NEW a \in Node, DialLost(n, a) PROVE IInv'
  <2>1. tables[n].dial[a] # "none" /\ tables' = Waiting(n, a)
    BY <1>7 DEF DialLost
  <2>2. UNCHANGED <<up, saved, crowded>> /\ faults' \in 0..MaxFaults /\ inbound' = inbound
    BY <1>7 DEF DialLost, TypeOK
  <2> QED BY <2>1, <2>2, WaitingStep
<1>8. ASSUME NEW n \in Node, NEW a \in Node, Cut(n, a) PROVE IInv'
  <2>1. tables[n].dial[a] # "none" /\ tables' = Waiting(n, a)
    BY <1>8 DEF Cut
  <2>2. UNCHANGED <<up, saved, crowded>> /\ faults' \in 0..MaxFaults
    BY <1>8, OptionsAssumption DEF Cut, TypeOK
  <2>3. inbound' = [inbound EXCEPT ![a] = Closed(@, n, {"link"})]
    BY <1>8 DEF Cut
  <2> QED BY <2>1, <2>2, <2>3, WaitingStep
<1>9. ASSUME NEW n \in Node, NEW a \in Node, NEW kind \in Calls, ReadReceived(n, a, kind)
      PROVE  IInv'
  BY <1>9, ReadReceivedStep
<1>10. ASSUME NEW n \in Node, NEW m \in Node, NEW kind \in Calls, GossipCall(n, m, kind)
       PROVE  IInv'
  BY <1>10, GossipCallStep
<1>11. ASSUME NEW m \in Node, NEW c \in inbound[m], RefuseConnect(m, c) PROVE IInv'
  BY <1>11, RefuseConnectStep
<1>12. ASSUME NEW m \in Node, NEW c \in inbound[m], AcceptConnect(m, c) PROVE IInv'
  BY <1>12, AcceptConnectStep
<1>13. ASSUME NEW m \in Node, NEW c \in inbound[m], HandleGossip(m, c) PROVE IInv'
  BY <1>13, HandleGossipStep
<1>14. ASSUME NEW m \in Node, NEW c \in inbound[m],
              InboundGone(m, c) \/ CutInbound(m, c)
       PROVE  IInv'
  BY <1>14, InboundGoneStep
<1>15. ASSUME NEW n \in Node, NEW x \in Forgettable, Forget(n, x) PROVE IInv'
  BY <1>15, ForgetStep
<1>16. CASE UNCHANGED vars
  BY <1>16, OtherStep DEF vars, TypeOK
<1> QED
  BY <1>1, <1>2, <1>3, <1>4, <1>5, <1>6, <1>7, <1>8, <1>9, <1>10, <1>11, <1>12,
     <1>13, <1>14, <1>15, <1>16 DEF Next

\* The invariant, in every reachable state.
THEOREM Invariant == Spec => []IInv
BY InitIInv, NextIInv, PTL DEF Spec

\* Every variable keeps its type, and no daemon ever takes its own address for
\* one to call or dials a larger one.
THEOREM TypeCorrect == Spec => []TypeOK
<1>1. IInv => TypeOK
  BY DEF IInv
<1> QED BY <1>1, Invariant, PTL

\* msg_connect() never accepts a second connection of the same computer,
\* because a connection keeps its server name until it is removed.
THEOREM LinksUnique == Spec => []OneLinkPerPeer
<1>1. IInv => OneLinkPerPeer
  BY DEF IInv, OneLinkPerPeer, InboundOK, UniqueNames, Named
<1> QED BY <1>1, Invariant, PTL

\* The gossip to a larger address only ends when the other computer saved ours.
THEOREM PeersNeverLost == Spec => []NeverLost
<1>1. IInv => NeverLost
  BY DEF IInv
<1> QED BY <1>1, Invariant, PTL

\* The owner of a link dials the smaller addresses of its file.
THEOREM OwnersDial == Spec => []OwnerDials
<1>1. IInv => OwnerDials
  BY DEF IInv, OwnerDials, FileCurrent, TableOK, Remembered
<1> QED BY <1>1, Invariant, PTL

\* neighbors.txt is what is in memory, whenever the daemon may crash.
THEOREM FilesCurrent == Spec => []FileCurrent
<1>1. IInv => FileCurrent
  BY DEF IInv
<1> QED BY <1>1, Invariant, PTL

\* ACCEPT is only read by a computer that the sender has in its file.
THEOREM AcceptedSaved == Spec => []AcceptedIsSaved
<1>1. IInv => AcceptedIsSaved
  BY DEF IInv
<1> QED BY <1>1, Invariant, PTL

\* A file that is written from what is in memory keeps what memory kept.
LEMMA SaveKeeps ==
    ASSUME IInv, NEW n \in Node, up[n], NEW t,
           tables[n].known \cap Remembered \subseteq t.known, saved' = Save(n, t)
    PROVE  \A m \in Node : saved[m] \ Forgettable \subseteq saved'[m]
<1>1. saved \in [Node -> SUBSET Node] /\ saved[n] = tables[n].known
  BY DEF IInv, TypeOK, FileCurrent
<1>2. saved[n] \ Forgettable \subseteq Remembered
  BY <1>1 DEF Remembered
<1>3. saved'[n] = IF t.known = tables[n].known THEN saved[n] ELSE t.known
  BY <1>1 DEF Save
<1>4. \A m \in Node \ {n} : saved'[m] = saved[m]
  BY <1>1 DEF Save
<1> QED BY <1>1, <1>2, <1>3, <1>4

LEMMA FilesKept ==
    IInv /\ [Next]_vars => \A n \in Node : saved[n] \ Forgettable \subseteq saved'[n]
<1> DEFINE Kept == \A n \in Node : saved[n] \ Forgettable \subseteq saved'[n]
<1> SUFFICES ASSUME IInv, [Next]_vars PROVE Kept
  OBVIOUS
<1>1. /\ tables \in [Node -> Table] /\ saved \in [Node -> SUBSET Node]
      /\ inbound \in [Node -> SUBSET Inbound]
      /\ \A n \in Node : TableOK(n, tables[n])
  BY DEF IInv, TypeOK
<1>2. CASE saved' = saved
  BY <1>2
<1>3. ASSUME NEW n \in Node, Start(n) PROVE Kept
  <2> DEFINE r == ReadNeighbors(n)
             t == AddNeighbors(n, r, {n} \cup Explicit[n])
  <2>1. TableOK(n, Blank)
    BY DEF TableOK, Blank, Table, Dialing
  <2>2. TableOK(n, r) /\ r.known = Blank.known \cup saved[n]
    BY <1>1, <2>1, AddNeighborsFacts DEF ReadNeighbors
  <2>3. saved' = [saved EXCEPT ![n] = t.known]
    BY <1>3 DEF Start
  <2> HIDE DEF r
  <2>4. {n} \cup Explicit[n] \in SUBSET Node
    BY OptionsAssumption
  <2>5. t.known = r.known \cup ({n} \cup Explicit[n])
    BY <2>2, <2>4, AddNeighborsFacts
  <2> HIDE DEF t
  <2> QED BY <1>1, <2>2, <2>3, <2>5
<1>4. ASSUME NEW n \in Node, NEW a \in Node, ReadAccept(n, a) PROVE Kept
  <2> DEFINE u == [tables[n] EXCEPT !.dial[a] = "accepted"]
             t == AddNeighbors(n, u, Explicit[a])
  <2>1. tables[n].dial[a] = "asked" /\ up[n] /\ saved' = Save(n, t)
    BY <1>4 DEF ReadAccept
  <2>2. tables[n] \in Table /\ TableOK(n, tables[n])
    BY <1>1
  <2>3. /\ u \in Table /\ u.known = tables[n].known /\ u.all = tables[n].all
        /\ u.gossip = tables[n].gossip /\ u.stray = tables[n].stray
        /\ \A b \in Node : u.dial[b] = IF b = a THEN "accepted" ELSE tables[n].dial[b]
    BY <2>2 DEF Table, Dialing
  <2> HIDE DEF u
  <2>4. \A b \in Node : u.dial[b] # "none" <=> tables[n].dial[b] # "none"
    BY <2>1, <2>3
  <2>5. TableOK(n, u)
    BY <2>2, <2>3, <2>4 DEF TableOK, Remembered
  <2>6. t.known = u.known \cup Explicit[a]
    BY <2>5, OptionsAssumption, AddNeighborsFacts
  <2> HIDE DEF t
  <2>7. tables[n].known \cap Remembered \subseteq t.known
    BY <2>3, <2>6
  <2> QED BY <2>1, <2>7, SaveKeeps
<1>5. ASSUME NEW a \in Node, NEW c \in inbound[a], AcceptConnect(a, c) PROVE Kept
  <2> DEFINE s == AddNeighbors(a, tables[a], Explicit[c.peer])
             t == AddNeighbors(a, s, {c.peer})
  <2>1. up[a] /\ saved' = Save(a, t)
    BY <1>5 DEF AcceptConnect
  <2>2. c.peer \in Node /\ TableOK(a, tables[a])
    BY <1>1 DEF Inbound
  <2>3. TableOK(a, s) /\ s.known = tables[a].known \cup Explicit[c.peer]
    BY <2>2, OptionsAssumption, AddNeighborsFacts
  <2> HIDE DEF s
  <2>4. t.known = s.known \cup {c.peer}
    BY <2>2, <2>3, AddNeighborsFacts
  <2> HIDE DEF t
  <2>5. tables[a].known \cap Remembered \subseteq t.known
    BY <2>3, <2>4
  <2> QED BY <2>1, <2>5, SaveKeeps
<1>6. ASSUME NEW m \in Node, NEW c \in inbound[m], HandleGossip(m, c) PROVE Kept
  <2> DEFINE t == AddNeighbors(m, tables[m], {c.peer})
  <2>1. up[m] /\ saved' = Save(m, t)
    BY <1>6 DEF HandleGossip
  <2>2. c.peer \in Node /\ TableOK(m, tables[m])
    BY <1>1 DEF Inbound
  <2>3. t.known = tables[m].known \cup {c.peer}
    BY <2>2, AddNeighborsFacts
  <2> HIDE DEF t
  <2>4. tables[m].known \cap Remembered \subseteq t.known
    BY <2>3
  <2> QED BY <2>1, <2>4, SaveKeeps
<1>7. ASSUME NEW n \in Node, NEW x \in Forgettable, Forget(n, x) PROVE Kept
  <2> DEFINE u == [tables[n] EXCEPT !.known = tables[n].known \ {x}]
             f == ForgetRemote(u, x)
  <2>1. up[n] /\ saved' = Save(n, f)
    BY <1>1, <1>7 DEF Forget
  <2>2. tables[n] \in Table
    BY <1>1
  <2>3. f.known = tables[n].known \ {x}
    <3>1. u \in Table /\ u.known = tables[n].known \ {x}
      BY <2>2 DEF Table
    <3> HIDE DEF u
    <3> QED BY <3>1 DEF Table, ForgetRemote
  <2> HIDE DEF f
  <2>4. tables[n].known \cap Remembered \subseteq f.known
    BY <2>3 DEF Remembered
  <2> QED BY <2>1, <2>4, SaveKeeps
<1>8. CASE Next /\ saved' # saved
  <2>1. \/ \E n \in Node : Start(n)
        \/ \E n, a \in Node : ReadAccept(n, a)
        \/ \E m \in Node : \E c \in inbound[m] : AcceptConnect(m, c) \/ HandleGossip(m, c)
        \/ \E n \in Node, x \in Forgettable : Forget(n, x)
    BY <1>8 DEF Next, Stop, Crowd, Thin, Dial, ReadRefuse, DialLost, Cut, ReadReceived,
                GossipCall, RefuseConnect, InboundGone, CutInbound
  <2> QED BY <1>3, <1>4, <1>5, <1>6, <1>7, <2>1
<1> QED BY <1>2, <1>8 DEF vars

\* A step that takes an address out of a neighbors.txt is one that was asked
\* to, whatever else happens in between.
THEOREM FilesOnlyGrow == Spec => FilesGrow
<1>1. IInv /\ [Next]_vars => [\A n \in Node : saved[n] \ Forgettable \subseteq saved'[n]]_vars
  BY FilesKept
<1> QED BY <1>1, Invariant, PTL DEF Spec, FilesGrow

-----------------------------------------------------------------------------
(* What a cluster looks like once nothing is left to do. This is the       *)
(* safety half of EveryoneKnown and EventuallyLinked: fairness takes the   *)
(* cluster to such a state, and no such state leaves two computers that    *)
(* know of each other without a link.                                      *)

\* No guard holds of what the event loop of a daemon does by itself: of Start,
\* Dial, DialLost, ReadAccept and ReadRefuse, of GossipCall and ReadReceived,
\* of InboundGone, and of the answers to a new connection.
Idle ==
    /\ \A n \in Node : up[n]
    /\ \A n, a \in Node :
          /\ tables[n].dial[a] # "waiting"
          /\ tables[n].dial[a] # "none" => LiveFrom(a, n, "link") # {}
          /\ tables[n].dial[a] = "asked" =>
                \A c \in LiveFrom(a, n, "link") : c.as \notin {"remote", "refused", "crowded"}
          /\ a \in tables[n].gossip => LiveFrom(a, n, "gossip") # {}
          /\ \A kind \in Calls : \A c \in LiveFrom(a, n, kind) : c.as # "told"
    /\ \A m \in Node : \A c \in inbound[m] : c.live /\ c.as # "new"

\* Computers that know of each other, which is a matter of both, have a link
\* and told each other the option they were started with.
Settled ==
    \A n \in Remembered :
        /\ ({n} \cup Explicit[n]) \cap Remembered \subseteq tables[n].known
        /\ \A m \in Remembered \ {n} :
              m \in tables[n].known =>
                 /\ n \in tables[m].known
                 /\ Explicit[m] \cap Remembered \subseteq tables[n].known
                 /\ m < n => Linked(n, m)

\* A gossip that FORGET let go is to a forgettable address, and a permanent
\* connection is to a neighbor.
MoreOK(t) ==
    /\ t.stray \subseteq Forgettable
    /\ \A a \in Node : t.dial[a] # "none" => a \in t.all /\ a \in t.known

LiveLink(c) == c.kind = "link" /\ c.live
OneLive(conns) ==
    \A c, o \in conns : LiveLink(c) /\ LiveLink(o) /\ c.peer = o.peer => c = o

\* A connection c to m has an answer of its kind, and the caller, whose
\* connection is in state dial, did not let it go.
ConnOK(m, c, dial, file) ==
    /\ c.kind = "stray" => m \in Forgettable
    /\ c.kind = "gossip" /\ c.as = "heard" => ~c.live
    /\ c.kind = "link" => c.as \in {"new", "remote", "refused", "crowded"}
    /\ c.kind # "link" => c.as \in {"new", "told", "heard"}
    /\ LiveLink(c) => dial \in {"asked", "accepted"} /\ (dial = "accepted" => c.as = "remote")
    /\ c.as = "remote" => Explicit[c.peer] \cap Remembered \subseteq file

ConnsOK(m) ==
    /\ OneLive(inbound[m])
    /\ \A c \in inbound[m] : ConnOK(m, c, tables[c.peer].dial[m], saved[m])

\* n and a told each other their options.
Introduced(n, a) ==
    /\ Explicit[a] \cap Remembered \subseteq saved[n]
    /\ Explicit[n] \cap Remembered \subseteq saved[a]

SInv ==
    /\ \A n \in Node : MoreOK(tables[n])
    /\ \A n \in Node : ~up[n] => tables[n] = Blank
    /\ \A n \in Node : up[n] => ({n} \cup Explicit[n]) \cap Remembered \subseteq saved[n]
    /\ \A m \in Node : ConnsOK(m)
    /\ \A n, a \in Node : tables[n].dial[a] = "accepted" => Introduced(n, a)

\* No permanent connection changes, but for new ones that wait.
DialsKept(t, r) ==
    /\ \A a \in Node : t.dial[a] # "none" => r.dial[a] = t.dial[a]
    /\ \A a \in Node : r.dial[a] \in {"asked", "accepted"} => r.dial[a] = t.dial[a]

\* The connections after are those before, some of them closed.
Outlives(before, after) ==
    \A d \in after :
        \/ d \in before
        \/ ~d.live /\ \E c \in before : c.peer = d.peer /\ c.kind = d.kind /\ c.as = d.as

\* p keeps a permanent connection to m that it opened.
CallKept(p, m) ==
    tables[p].dial[m] \in {"asked", "accepted"} => tables'[p].dial[m] = tables[p].dial[m]

\* Files lose nothing that is to be remembered.
FilesOK == \A n \in Node : saved[n] \cap Remembered \subseteq saved'[n]

\* add_remote_communicator() on neighbors leaves the connections there are.
LEMMA AddRemotesMore ==
    ASSUME NEW n \in Node, NEW t \in Table, MoreOK(t), NEW S \in SUBSET Node,
           S \subseteq t.known
    PROVE  LET r == AddRemotes(n, t, S) IN
           r \in Table /\ r.known = t.known /\ MoreOK(r) /\ DialsKept(t, r)
<1> DEFINE r == AddRemotes(n, t, S)
<1>1. /\ r \in Table
      /\ r.known = t.known /\ r.stray = t.stray
      /\ r.all = t.all \cup (S \ {n})
      /\ \A a \in Node : r.dial[a] = IF a \in S \ (t.all \cup {n}) /\ a < n
                                     THEN "waiting" ELSE t.dial[a]
  BY AddRemotesFacts
<1> HIDE DEF r
<1>2. MoreOK(r)
  BY <1>1 DEF MoreOK
<1>3. DialsKept(t, r)
  BY <1>1 DEF MoreOK, DialsKept
<1> QED BY <1>1, <1>2, <1>3 DEF r

LEMMA AddNeighborsMore ==
    ASSUME NEW n \in Node, NEW t \in Table, MoreOK(t), NEW S \in SUBSET Node
    PROVE  LET r == AddNeighbors(n, t, S) IN
           r \in Table /\ r.known = t.known \cup S /\ MoreOK(r) /\ DialsKept(t, r)
<1> DEFINE fresh == S \ t.known
           u == [t EXCEPT !.known = t.known \cup fresh]
           r == AddNeighbors(n, t, S)
<1>1. /\ u \in Table /\ u.known = t.known \cup S /\ u.all = t.all /\ u.dial = t.dial
      /\ u.stray = t.stray
  BY DEF Table
<1>2. r = AddRemotes(n, u, fresh)
  BY DEF AddNeighbors
<1> HIDE DEF u, r
<1>3. MoreOK(u)
  BY <1>1 DEF MoreOK
<1>4. fresh \in SUBSET Node /\ fresh \subseteq u.known
  BY <1>1
<1>5. r \in Table /\ r.known = u.known /\ MoreOK(r) /\ DialsKept(u, r)
  BY <1>1, <1>2, <1>3, <1>4, AddRemotesMore
<1>6. DialsKept(t, r)
  BY <1>1, <1>5 DEF DialsKept
<1> QED BY <1>1, <1>5, <1>6 DEF r

\* Closing connections.
LEMMA ClosedMore ==
    ASSUME NEW conns, conns \subseteq Inbound, NEW p, NEW K
    PROVE  LET r == Closed(conns, p, K) IN
           /\ Outlives(conns, r)
           /\ \A d \in r : d.live => ~(d.peer = p /\ d.kind \in K)
<1> DEFINE f(c) == IF c.peer = p /\ c.kind \in K THEN [c EXCEPT !.live = FALSE] ELSE c
           r == Closed(conns, p, K)
<1>1. \A c \in Inbound : /\ f(c).peer = c.peer /\ f(c).kind = c.kind /\ f(c).as = c.as
                         /\ f(c) = c \/ ~f(c).live
                         /\ f(c).live => ~(c.peer = p /\ c.kind \in K)
  BY DEF Inbound
<1>2. r = {f(c) : c \in conns}
  BY DEF Closed
<1> HIDE DEF f, r
<1>3. \A d \in r : \E c \in conns : d = f(c)
  BY <1>2
<1>4. Outlives(conns, r)
  BY <1>1, <1>3 DEF Outlives
<1>5. \A d \in r : d.live => ~(d.peer = p /\ d.kind \in K)
  BY <1>1, <1>3
<1> QED BY <1>4, <1>5 DEF r

\* A connection that stays or closes stays in order while its caller keeps it.
LEMMA KeptConn ==
    ASSUME NEW m, NEW c, NEW dial, NEW file, ConnOK(m, c, dial, file),
           NEW d, d.peer = c.peer, d.kind = c.kind, d.as = c.as,
           NEW dial2, NEW file2, file \cap Remembered \subseteq file2,
           d.live => c.live,
           LiveLink(d) => dial2 = dial
    PROVE  ConnOK(m, d, dial2, file2)
BY DEF ConnOK, LiveLink

\* The connections to a daemon that stay or close, when a caller that has a live
\* one kept it.
LEMMA KeptConns ==
    ASSUME NEW m \in Node, ConnsOK(m), FilesOK, inbound'[m] \subseteq Inbound,
           Outlives(inbound[m], inbound'[m]),
           \A p \in Node : \/ CallKept(p, m)
                           \/ \A d \in inbound'[m] : LiveLink(d) => d.peer # p
    PROVE  ConnsOK(m)'
<1>1. OneLive(inbound'[m])
  BY DEF ConnsOK, OneLive, Outlives, LiveLink
<1>2. ASSUME NEW d \in inbound'[m]
      PROVE  ConnOK(m, d, tables'[d.peer].dial[m], saved'[m])
  <2>1. PICK c \in inbound[m] : /\ d.peer = c.peer /\ d.kind = c.kind /\ d.as = c.as
                                /\ d.live => c.live
    BY DEF Outlives
  <2>2. ConnOK(m, c, tables[d.peer].dial[m], saved[m])
    BY <2>1 DEF ConnsOK
  <2>3. saved[m] \cap Remembered \subseteq saved'[m]
    BY DEF FilesOK
  <2>4. ASSUME LiveLink(d)
        PROVE  tables'[d.peer].dial[m] = tables[d.peer].dial[m]
    <3>1. d.peer \in Node
      BY DEF Inbound
    <3>2. CallKept(d.peer, m)
      BY <2>4, <3>1
    <3>3. tables[d.peer].dial[m] \in {"asked", "accepted"}
      BY <2>1, <2>2, <2>4 DEF ConnOK, LiveLink
    <3> QED BY <3>2, <3>3 DEF CallKept
  <2> QED BY <2>1, <2>2, <2>3, <2>4, KeptConn
<1> QED BY <1>1, <1>2 DEF ConnsOK

\* What is left to show of a step.
LEMMA SStep ==
    ASSUME SInv, FilesOK,
           \A p \in Node : MoreOK(tables'[p]),
           \A p \in Node : ~up'[p] => tables'[p] = Blank,
           \A p \in Node : up'[p] => up[p] \/ ({p} \cup Explicit[p]) \cap Remembered \subseteq saved'[p],
           \A m \in Node : ConnsOK(m)',
           \A p, a \in Node : tables'[p].dial[a] = "accepted"
                                => tables[p].dial[a] = "accepted" \/ Introduced(p, a)'
    PROVE  SInv'
<1>1. ASSUME NEW p \in Node, up'[p]
      PROVE  ({p} \cup Explicit[p]) \cap Remembered \subseteq saved'[p]
  <2>1. saved[p] \cap Remembered \subseteq saved'[p]
    BY DEF FilesOK
  <2>2. up[p] => ({p} \cup Explicit[p]) \cap Remembered \subseteq saved[p]
    BY DEF SInv
  <2> QED BY <1>1, <2>1, <2>2
<1>2. ASSUME NEW p \in Node, NEW a \in Node, tables'[p].dial[a] = "accepted"
      PROVE  Introduced(p, a)'
  <2>1. CASE tables[p].dial[a] = "accepted"
    <3>1. /\ Explicit[a] \cap Remembered \subseteq saved[p]
          /\ Explicit[p] \cap Remembered \subseteq saved[a]
      BY <2>1 DEF SInv, Introduced
    <3>2. /\ saved[p] \cap Remembered \subseteq saved'[p]
          /\ saved[a] \cap Remembered \subseteq saved'[a]
      BY DEF FilesOK
    <3> QED BY <3>1, <3>2 DEF Introduced
  <2> QED BY <1>2, <2>1
<1> QED BY <1>1, <1>2 DEF SInv

\* One daemon changes its tables and keeps its permanent connections.
LEMMA DialsAll ==
    ASSUME IInv, NEW n \in Node, NEW t, DialsKept(tables[n], t),
           tables' = [tables EXCEPT ![n] = t]
    PROVE  /\ \A p \in Node : DialsKept(tables[p], tables'[p])
           /\ \A p, m \in Node : CallKept(p, m)
<1>1. tables \in [Node -> Table]
  BY DEF IInv, TypeOK
<1>2. tables'[n] = t /\ \A p \in Node \ {n} : tables'[p] = tables[p]
  BY <1>1
<1>3. \A p \in Node : DialsKept(tables[p], tables[p])
  BY DEF DialsKept
<1>4. \A p \in Node : DialsKept(tables[p], tables'[p])
  BY <1>2, <1>3
<1> QED BY <1>4 DEF DialsKept, CallKept

LEMMA TableStep ==
    ASSUME IInv, SInv, FilesOK, NEW n \in Node, up[n], up' = up,
           NEW t, MoreOK(t), DialsKept(tables[n], t), tables' = [tables EXCEPT ![n] = t],
           \A m \in Node : ConnsOK(m)'
    PROVE  SInv'
<1>1. tables \in [Node -> Table]
  BY DEF IInv, TypeOK
<1>2. tables'[n] = t /\ \A p \in Node \ {n} : tables'[p] = tables[p]
  BY <1>1
<1>3. \A p \in Node : MoreOK(tables'[p])
  BY <1>2 DEF SInv
<1>4. \A p \in Node : ~up'[p] => tables'[p] = Blank
  BY <1>2 DEF SInv
<1>5. \A p, a \in Node : tables'[p].dial[a] = "accepted" => tables[p].dial[a] = "accepted"
  BY DialsAll DEF DialsKept
<1> QED BY <1>3, <1>4, <1>5, SStep

\* Nothing changes but who is answered and who is connected.
LEMMA CallsStep ==
    ASSUME SInv, FilesOK, UNCHANGED <<up, tables>>, \A m \in Node : ConnsOK(m)'
    PROVE  SInv'
<1>1. \A p \in Node : MoreOK(tables'[p]) /\ (~up'[p] => tables'[p] = Blank)
  BY DEF SInv
<1> QED BY <1>1, SStep

\* A connection is answered: with CONNECT accepted, the caller told its option.
LEMMA AnsweredConns ==
    ASSUME NEW m \in Node, ConnsOK(m), FilesOK, inbound[m] \subseteq Inbound,
           NEW c \in inbound[m], NEW as,
           inbound'[m] = Answered(inbound[m], c, as),
           \A p \in Node : CallKept(p, m),
           c.as = "new",
           as \in IF c.kind = "link" THEN {"remote", "refused", "crowded"} ELSE {"told"},
           as = "remote" => Explicit[c.peer] \cap Remembered \subseteq saved'[m]
    PROVE  ConnsOK(m)'
<1> DEFINE e == [c EXCEPT !.as = as]
<1>1. /\ e.peer = c.peer /\ e.kind = c.kind /\ e.live = c.live /\ e.as = as
      /\ c.peer \in Node /\ c.kind \in Calls \cup {"link"}
  BY DEF Inbound
<1>2. inbound'[m] = (inbound[m] \ {c}) \cup {e}
  BY DEF Answered
<1> HIDE DEF e
<1>3. OneLive(inbound'[m])
  BY <1>1, <1>2 DEF ConnsOK, OneLive, LiveLink
<1>4. saved[m] \cap Remembered \subseteq saved'[m]
  BY DEF FilesOK
<1>5. ASSUME NEW d \in inbound[m], LiveLink(d)
      PROVE  tables'[d.peer].dial[m] = tables[d.peer].dial[m]
  <2>1. d.peer \in Node
    BY DEF Inbound
  <2>2. CallKept(d.peer, m)
    BY <2>1
  <2>3. tables[d.peer].dial[m] \in {"asked", "accepted"}
    BY <1>5 DEF ConnsOK, ConnOK
  <2> QED BY <2>2, <2>3 DEF CallKept
<1>6. ASSUME NEW d \in inbound[m]
      PROVE  ConnOK(m, d, tables'[d.peer].dial[m], saved'[m])
  <2>1. ConnOK(m, d, tables[d.peer].dial[m], saved[m])
    BY DEF ConnsOK
  <2> QED BY <1>4, <1>5, <2>1, KeptConn
<1>7. ConnOK(m, c, tables'[c.peer].dial[m], saved'[m])
  BY <1>6
<1>8. ConnOK(m, e, tables'[e.peer].dial[m], saved'[m])
  BY <1>1, <1>7 DEF ConnOK, LiveLink, Calls
<1> QED BY <1>2, <1>3, <1>6, <1>8 DEF ConnsOK

\* A connection opens, and none was there that it could be taken for.
LEMMA OpenedConns ==
    ASSUME NEW m \in Node, ConnsOK(m), FilesOK, inbound[m] \subseteq Inbound,
           NEW n \in Node, NEW kind \in Calls \cup {"link"},
           inbound'[m] = inbound[m] \cup {Opened(n, kind)},
           \A p \in Node : CallKept(p, m),
           kind = "stray" => m \in Forgettable,
           kind = "link" => /\ tables[n].dial[m] \notin {"asked", "accepted"}
                            /\ tables'[n].dial[m] = "asked"
    PROVE  ConnsOK(m)'
<1> DEFINE e == Opened(n, kind)
<1>1. e.peer = n /\ e.kind = kind /\ e.live /\ e.as = "new"
  BY DEF Opened
<1>2. inbound'[m] = inbound[m] \cup {e}
  OBVIOUS
<1> HIDE DEF e
<1>3. saved[m] \cap Remembered \subseteq saved'[m]
  BY DEF FilesOK
<1>4. ASSUME NEW d \in inbound[m], LiveLink(d)
      PROVE  tables[d.peer].dial[m] \in {"asked", "accepted"}
  BY <1>4 DEF ConnsOK, ConnOK
<1>5. OneLive(inbound'[m])
  <2>1. ASSUME NEW d \in inbound[m], LiveLink(d), LiveLink(e) PROVE d.peer # n
    BY <1>1, <1>4, <2>1 DEF LiveLink
  <2> QED BY <1>1, <1>2, <2>1 DEF ConnsOK, OneLive
<1>6. ASSUME NEW d \in inbound[m]
      PROVE  ConnOK(m, d, tables'[d.peer].dial[m], saved'[m])
  <2>1. ConnOK(m, d, tables[d.peer].dial[m], saved[m])
    BY DEF ConnsOK
  <2>2. LiveLink(d) => tables'[d.peer].dial[m] = tables[d.peer].dial[m]
    <3>1. d.peer \in Node
      BY DEF Inbound
    <3> QED BY <1>4, <3>1 DEF CallKept
  <2> QED BY <1>3, <2>1, <2>2, KeptConn
<1>7. ConnOK(m, e, tables'[e.peer].dial[m], saved'[m])
  BY <1>1 DEF ConnOK, LiveLink, Calls
<1> QED BY <1>2, <1>5, <1>6, <1>7 DEF ConnsOK

\* The connections to a daemon that a step leaves alone.
LEMMA OtherConns ==
    ASSUME IInv, SInv, FilesOK, NEW m \in Node, inbound'[m] = inbound[m],
           \A p \in Node : CallKept(p, m)
    PROVE  ConnsOK(m)'
<1>1. inbound'[m] \subseteq Inbound /\ Outlives(inbound[m], inbound'[m])
  BY DEF IInv, TypeOK, Outlives
<1> QED BY <1>1, KeptConns DEF SInv

-----------------------------------------------------------------------------
(* Steps keep SInv.                                                        *)

LEMMA StartMore ==
    ASSUME IInv, SInv, FilesOK, NEW n \in Node, Start(n)
    PROVE  SInv'
<1> DEFINE r == ReadNeighbors(n)
           t == AddNeighbors(n, r, {n} \cup Explicit[n])
<1>1. /\ tables \in [Node -> Table] /\ saved \in [Node -> SUBSET Node]
      /\ up \in [Node -> BOOLEAN]
  BY DEF IInv, TypeOK
<1>2. /\ tables[n] = Blank /\ up' = [up EXCEPT ![n] = TRUE]
      /\ tables' = [tables EXCEPT ![n] = t] /\ saved' = [saved EXCEPT ![n] = t.known]
      /\ inbound' = inbound
  BY DEF SInv, Start
<1>3. Blank \in Table /\ MoreOK(Blank)
  BY <1>1, <1>2 DEF SInv
<1>4. r \in Table /\ MoreOK(r) /\ DialsKept(Blank, r)
  BY <1>1, <1>3, AddNeighborsMore DEF ReadNeighbors
<1> HIDE DEF r
<1>5. {n} \cup Explicit[n] \in SUBSET Node
  BY OptionsAssumption
<1>6. /\ t \in Table /\ t.known = r.known \cup ({n} \cup Explicit[n])
      /\ MoreOK(t) /\ DialsKept(r, t)
  BY <1>4, <1>5, AddNeighborsMore
<1> HIDE DEF t
<1>7. DialsKept(tables[n], t)
  BY <1>2, <1>4, <1>6 DEF DialsKept
<1>8. /\ \A p \in Node : DialsKept(tables[p], tables'[p])
      /\ \A p, m \in Node : CallKept(p, m)
  BY <1>2, <1>7, DialsAll
<1>9. \A m \in Node : ConnsOK(m)'
  BY <1>2, <1>8, OtherConns
<1>10. /\ tables'[n] = t /\ up'[n] /\ saved'[n] = t.known
       /\ \A p \in Node \ {n} : tables'[p] = tables[p] /\ up'[p] = up[p]
  BY <1>1, <1>2
<1>11. \A p \in Node : MoreOK(tables'[p]) /\ (~up'[p] => tables'[p] = Blank)
  BY <1>6, <1>10 DEF SInv
<1>12. \A p \in Node :
          up'[p] => up[p] \/ ({p} \cup Explicit[p]) \cap Remembered \subseteq saved'[p]
  BY <1>6, <1>10
<1>13. \A p, a \in Node : tables'[p].dial[a] = "accepted" => tables[p].dial[a] = "accepted"
  BY <1>8 DEF DialsKept
<1> QED BY <1>9, <1>11, <1>12, <1>13, SStep

LEMMA StopMore ==
    ASSUME IInv, IInv', SInv, FilesOK, NEW n \in Node, Stop(n)
    PROVE  SInv'
<1> DEFINE K == Calls \cup {"link"}
<1>1. /\ tables \in [Node -> Table] /\ up \in [Node -> BOOLEAN]
      /\ \A m \in Node : inbound[m] \subseteq Inbound /\ inbound'[m] \subseteq Inbound
  BY DEF IInv, TypeOK
<1>2. /\ tables' = [tables EXCEPT ![n] = Blank] /\ up' = [up EXCEPT ![n] = FALSE]
      /\ inbound' = [m \in Node |-> IF m = n THEN {} ELSE Closed(inbound[m], n, K)]
  BY DEF Stop
<1>3. /\ tables'[n] = Blank /\ ~up'[n]
      /\ \A p \in Node \ {n} : tables'[p] = tables[p] /\ up'[p] = up[p]
  BY <1>1, <1>2
<1>4. MoreOK(Blank) /\ \A a \in Node : Blank.dial[a] = "none"
  BY DEF Blank, MoreOK
<1>5. \A p \in Node : MoreOK(tables'[p]) /\ (~up'[p] => tables'[p] = Blank)
  BY <1>3, <1>4 DEF SInv
<1>6. ASSUME NEW m \in Node PROVE ConnsOK(m)'
  <2>1. /\ Outlives(inbound[m], inbound'[m])
        /\ \A d \in inbound'[m] : d.live => d.peer # n
    <3>1. CASE m = n
      BY <1>2, <3>1 DEF Outlives
    <3>2. CASE m # n
      <4>1. /\ Outlives(inbound[m], Closed(inbound[m], n, K))
            /\ \A d \in Closed(inbound[m], n, K) : d.live => ~(d.peer = n /\ d.kind \in K)
        BY <1>1, ClosedMore
      <4>2. inbound'[m] = Closed(inbound[m], n, K)
        BY <1>2, <3>2
      <4>3. \A d \in inbound'[m] : d.kind \in K
        BY <1>1 DEF Inbound
      <4> QED BY <4>1, <4>2, <4>3
    <3> QED BY <3>1, <3>2
  <2>2. \A p \in Node \ {n} : CallKept(p, m)
    BY <1>3 DEF CallKept
  <2>3. ConnsOK(m)
    BY DEF SInv
  <2> QED BY <1>1, <2>1, <2>2, <2>3, KeptConns DEF LiveLink
<1>7. \A p \in Node : up'[p] => up[p]
  BY <1>3
<1>8. \A p, a \in Node : tables'[p].dial[a] = "accepted" => tables[p].dial[a] = "accepted"
  BY <1>3, <1>4
<1> QED BY <1>5, <1>6, <1>7, <1>8, SStep

\* Steps that only change who is up to nothing new: local services, stuttering.
LEMMA OtherMore ==
    ASSUME IInv, SInv, FilesOK, UNCHANGED <<up, saved, tables, inbound>>
    PROVE  SInv'
<1>1. \A p, m \in Node : CallKept(p, m)
  BY DEF CallKept
<1>2. \A m \in Node : ConnsOK(m)'
  BY <1>1, OtherConns
<1> QED BY <1>2, CallsStep

LEMMA DialMore ==
    ASSUME IInv, SInv, FilesOK, NEW n \in Node, NEW a \in Node, Dial(n, a)
    PROVE  SInv'
<1> DEFINE t == [tables[n] EXCEPT !.dial[a] = "asked"]
<1>1. /\ tables \in [Node -> Table] /\ tables[n] \in Table
      /\ \A m \in Node : inbound[m] \subseteq Inbound
      /\ inbound \in [Node -> SUBSET Inbound]
  BY DEF IInv, TypeOK
<1>2. tables[n].dial \in [Node -> Dialing]
  BY <1>1 DEF Table
<1>3. /\ t \in Table /\ t.known = tables[n].known /\ t.all = tables[n].all
      /\ t.stray = tables[n].stray
      /\ \A b \in Node : t.dial[b] = IF b = a THEN "asked" ELSE tables[n].dial[b]
  BY <1>1, <1>2 DEF Table, Dialing
<1>4. /\ tables' = [tables EXCEPT ![n] = t] /\ tables[n].dial[a] = "waiting"
      /\ inbound' = [inbound EXCEPT ![a] = inbound[a] \cup {Opened(n, "link")}]
      /\ UNCHANGED <<up, saved>> /\ up[n]
  BY <1>1, <1>2 DEF Dial, Table
<1> HIDE DEF t
<1>5. tables'[n] = t /\ \A p \in Node \ {n} : tables'[p] = tables[p]
  BY <1>1, <1>4
<1>6. MoreOK(t)
  BY <1>3, <1>4 DEF SInv, MoreOK
<1>7. \A p, m \in Node : CallKept(p, m)
  BY <1>3, <1>4, <1>5 DEF CallKept
<1>8. ConnsOK(a)'
  <2>1. inbound'[a] = inbound[a] \cup {Opened(n, "link")}
    BY <1>1, <1>4
  <2>2. tables[n].dial[a] \notin {"asked", "accepted"} /\ tables'[n].dial[a] = "asked"
    BY <1>3, <1>4, <1>5
  <2>3. ConnsOK(a)
    BY DEF SInv
  <2>4. "link" \in Calls \cup {"link"} /\ "link" # "stray"
    OBVIOUS
  <2> QED BY <1>1, <1>7, <2>1, <2>2, <2>3, <2>4, OpenedConns
<1>9. \A m \in Node \ {a} : ConnsOK(m)'
  BY <1>1, <1>4, <1>7, OtherConns
<1>10. \A p \in Node : MoreOK(tables'[p]) /\ (~up'[p] => tables'[p] = Blank)
  BY <1>4, <1>5, <1>6 DEF SInv
<1>11. \A p, b \in Node : tables'[p].dial[b] = "accepted" => tables[p].dial[b] = "accepted"
  BY <1>3, <1>5
<1> QED BY <1>4, <1>8, <1>9, <1>10, <1>11, SStep

\* A permanent connection that closed, or was, waits.
LEMMA WaitingMore ==
    ASSUME IInv, IInv', SInv, FilesOK, NEW n \in Node, NEW a \in Node, up[n],
           tables[n].dial[a] # "none", tables' = Waiting(n, a), up' = up,
           Outlives(inbound[a], inbound'[a]),
           \A d \in inbound'[a] : LiveLink(d) => d.peer # n,
           \A m \in Node \ {a} : inbound'[m] = inbound[m]
    PROVE  SInv'
<1> DEFINE t == [tables[n] EXCEPT !.dial[a] = "waiting"]
<1>1. /\ tables \in [Node -> Table] /\ tables[n] \in Table
      /\ \A m \in Node : inbound'[m] \subseteq Inbound
  BY DEF IInv, TypeOK
<1>2. tables[n].dial \in [Node -> Dialing]
  BY <1>1 DEF Table
<1>3. /\ t \in Table /\ t.known = tables[n].known /\ t.all = tables[n].all
      /\ t.stray = tables[n].stray
      /\ \A b \in Node : t.dial[b] = IF b = a THEN "waiting" ELSE tables[n].dial[b]
  BY <1>1, <1>2 DEF Table, Dialing
<1>4. tables' = [tables EXCEPT ![n] = t]
  BY <1>1, <1>2 DEF Waiting, Table
<1> HIDE DEF t
<1>5. tables'[n] = t /\ \A p \in Node \ {n} : tables'[p] = tables[p]
  BY <1>1, <1>4
<1>6. MoreOK(t)
  BY <1>3 DEF SInv, MoreOK
<1>7. \A p, m \in Node : CallKept(p, m) \/ (p = n /\ m = a)
  BY <1>3, <1>5 DEF CallKept
<1>8. ConnsOK(a)'
  BY <1>1, <1>7, KeptConns DEF SInv
<1>9. \A m \in Node \ {a} : ConnsOK(m)'
  BY <1>7, OtherConns
<1>10. \A p \in Node : MoreOK(tables'[p]) /\ (~up'[p] => tables'[p] = Blank)
  BY <1>5, <1>6 DEF SInv
<1>11. \A p, b \in Node : tables'[p].dial[b] = "accepted" => tables[p].dial[b] = "accepted"
  BY <1>3, <1>5
<1> QED BY <1>8, <1>9, <1>10, <1>11, SStep

\* A permanent connection is refused, broken, or was found to be.
LEMMA LostMore ==
    ASSUME IInv, IInv', SInv, FilesOK, NEW n \in Node, NEW a \in Node,
           ReadRefuse(n, a) \/ DialLost(n, a) \/ Cut(n, a)
    PROVE  SInv'
<1>1. inbound \in [Node -> SUBSET Inbound] /\ inbound[a] \subseteq Inbound
  BY DEF IInv, TypeOK
<1>2. /\ up[n] /\ tables[n].dial[a] # "none" /\ tables' = Waiting(n, a) /\ up' = up
      /\ \/ inbound' = inbound /\ LiveFrom(a, n, "link") = {}
         \/ inbound' = [inbound EXCEPT ![a] = Closed(inbound[a], n, {"link"})]
  BY DEF ReadRefuse, DialLost, Cut
<1>3. /\ Outlives(inbound[a], Closed(inbound[a], n, {"link"}))
      /\ \A d \in Closed(inbound[a], n, {"link"}) : d.live => ~(d.peer = n /\ d.kind \in {"link"})
  BY <1>1, ClosedMore
<1>4. /\ Outlives(inbound[a], inbound'[a])
      /\ \A d \in inbound'[a] : LiveLink(d) => d.peer # n
  <2>1. CASE inbound' = inbound /\ LiveFrom(a, n, "link") = {}
    BY <2>1 DEF Outlives, LiveFrom, LiveLink
  <2>2. CASE inbound' = [inbound EXCEPT ![a] = Closed(inbound[a], n, {"link"})]
    <3>1. inbound'[a] = Closed(inbound[a], n, {"link"})
      BY <1>1, <2>2
    <3> QED BY <1>3, <3>1 DEF LiveLink
  <2> QED BY <1>2, <2>1, <2>2
<1>5. \A m \in Node \ {a} : inbound'[m] = inbound[m]
  BY <1>1, <1>2
<1> QED BY <1>2, <1>4, <1>5, WaitingMore

LEMMA RefuseConnectMore ==
    ASSUME IInv, SInv, FilesOK, NEW a \in Node, NEW c \in inbound[a], RefuseConnect(a, c)
    PROVE  SInv'
<1>1. /\ inbound \in [Node -> SUBSET Inbound] /\ inbound[a] \subseteq Inbound
  BY DEF IInv, TypeOK
<1>2. PICK as \in {"refused", "crowded"} :
         inbound' = [inbound EXCEPT ![a] = Answered(inbound[a], c, as)]
  BY DEF RefuseConnect
<1>3. c.kind = "link" /\ c.as = "new" /\ UNCHANGED <<up, tables>>
  BY DEF RefuseConnect
<1>4. \A p, m \in Node : CallKept(p, m)
  BY <1>3 DEF CallKept
<1>5. ConnsOK(a)'
  <2>1. inbound'[a] = Answered(inbound[a], c, as)
    BY <1>1, <1>2
  <2>2. ConnsOK(a)
    BY DEF SInv
  <2>3. as \in IF c.kind = "link" THEN {"remote", "refused", "crowded"} ELSE {"told"}
    BY <1>3
  <2> QED BY <1>1, <1>3, <1>4, <2>1, <2>2, <2>3, AnsweredConns
<1>6. \A m \in Node \ {a} : ConnsOK(m)'
  BY <1>1, <1>2, <1>4, OtherConns
<1> QED BY <1>3, <1>5, <1>6, CallsStep

LEMMA AcceptConnectMore ==
    ASSUME IInv, IInv', SInv, FilesOK, NEW a \in Node, NEW c \in inbound[a], AcceptConnect(a, c)
    PROVE  SInv'
<1> DEFINE n == c.peer
           s == AddNeighbors(a, tables[a], Explicit[n])
           t == AddNeighbors(a, s, {n})
           u == GossipReceived(t, n)
           mine == Answered(inbound[a], c, "remote")
           theirs == Closed(inbound[n], a, {"gossip"})
<1>1. /\ tables \in [Node -> Table] /\ tables[a] \in Table
      /\ inbound \in [Node -> SUBSET Inbound]
      /\ \A m \in Node : inbound[m] \subseteq Inbound /\ inbound'[m] \subseteq Inbound
      /\ MoreOK(tables[a])
  BY DEF IInv, TypeOK, SInv
<1>2. n \in Node /\ n # a
  BY <1>1 DEF IInv, InboundOK, Inbound
<1>3. /\ up[a] /\ c.kind = "link" /\ c.as = "new" /\ up' = up
      /\ tables' = [tables EXCEPT ![a] = u]
      /\ inbound' = [inbound EXCEPT ![a] = mine, ![n] = theirs]
  BY <1>1, <1>2 DEF AcceptConnect
<1>4. s \in Table /\ s.known = tables[a].known \cup Explicit[n] /\ MoreOK(s) /\ DialsKept(tables[a], s)
  BY <1>1, <1>2, OptionsAssumption, AddNeighborsMore
<1> HIDE DEF s
<1>5. t \in Table /\ t.known = s.known \cup {n} /\ MoreOK(t) /\ DialsKept(s, t)
  BY <1>2, <1>4, AddNeighborsMore
<1> HIDE DEF t
<1>6. /\ u.known = t.known /\ u.all = t.all /\ u.dial = t.dial /\ u.stray = t.stray
  BY <1>5 DEF GossipReceived, Table
<1> HIDE DEF u
<1>7. MoreOK(u) /\ DialsKept(tables[a], u)
  BY <1>4, <1>5, <1>6 DEF MoreOK, DialsKept
<1>8. \A p, m \in Node : CallKept(p, m)
  BY <1>3, <1>7, DialsAll
<1> HIDE DEF mine, theirs
<1>9. /\ inbound'[a] = mine /\ inbound'[n] = theirs
      /\ \A m \in Node \ {a, n} : inbound'[m] = inbound[m]
  BY <1>1, <1>2, <1>3
<1>10. ConnsOK(a)'
  <2>1. inbound'[a] = Answered(inbound[a], c, "remote")
    BY <1>9 DEF mine
  <2>2. Explicit[c.peer] \cap Remembered \subseteq saved'[a]
    <3>1. tables'[a] = u
      BY <1>1, <1>3
    <3>2. saved'[a] = u.known
      BY <1>3, <3>1 DEF IInv, FileCurrent
    <3> QED BY <1>4, <1>5, <1>6, <3>2
  <2>3. ConnsOK(a)
    BY DEF SInv
  <2>4. "remote" \in IF c.kind = "link" THEN {"remote", "refused", "crowded"} ELSE {"told"}
    BY <1>3
  <2> HIDE DEF n
  <2> QED BY <1>1, <1>3, <1>8, <2>1, <2>2, <2>3, <2>4, AnsweredConns
<1>11. ConnsOK(n)'
  <2>1. Outlives(inbound[n], inbound'[n])
    <3>1. Outlives(inbound[n], Closed(inbound[n], a, {"gossip"}))
      BY <1>1, <1>2, ClosedMore
    <3> QED BY <1>9, <3>1 DEF theirs
  <2>2. ConnsOK(n)
    BY <1>2 DEF SInv
  <2> HIDE DEF n
  <2> QED BY <1>1, <1>2, <1>8, <2>1, <2>2, KeptConns
<1>12. \A m \in Node \ {a, n} : ConnsOK(m)'
  BY <1>8, <1>9, OtherConns
<1>13. \A m \in Node : ConnsOK(m)'
  BY <1>10, <1>11, <1>12
<1> QED BY <1>3, <1>7, <1>13, TableStep

LEMMA ReadAcceptMore ==
    ASSUME IInv, IInv', SInv, FilesOK, NEW n \in Node, NEW a \in Node, ReadAccept(n, a)
    PROVE  SInv'
<1> DEFINE u == [tables[n] EXCEPT !.dial[a] = "accepted"]
           t == AddNeighbors(n, u, Explicit[a])
<1>1. /\ tables \in [Node -> Table] /\ tables[n] \in Table /\ MoreOK(tables[n])
      /\ \A m \in Node : inbound[m] \subseteq Inbound
  BY DEF IInv, TypeOK, SInv
<1>2. PICK c \in LiveFrom(a, n, "link") : c.as = "remote"
  BY DEF ReadAccept
<1>3. c \in inbound[a] /\ c.peer = n /\ LiveLink(c)
  BY DEF LiveFrom, LiveLink
<1>4. /\ up[n] /\ tables[n].dial[a] = "asked" /\ up' = up
      /\ tables' = [tables EXCEPT ![n] = t] /\ inbound' = inbound
  BY DEF ReadAccept
<1>5. /\ u \in Table /\ u.known = tables[n].known /\ u.all = tables[n].all
      /\ u.stray = tables[n].stray
      /\ \A b \in Node : u.dial[b] = IF b = a THEN "accepted" ELSE tables[n].dial[b]
  BY <1>1 DEF Table, Dialing
<1> HIDE DEF u
<1>6. MoreOK(u)
  BY <1>1, <1>4, <1>5 DEF MoreOK
<1>7. t \in Table /\ t.known = u.known \cup Explicit[a] /\ MoreOK(t) /\ DialsKept(u, t)
  BY <1>5, <1>6, OptionsAssumption, AddNeighborsMore
<1> HIDE DEF t
<1>8. tables'[n] = t /\ \A p \in Node \ {n} : tables'[p] = tables[p]
  BY <1>1, <1>4
<1>9. /\ t.dial[a] = "accepted"
      /\ \A b \in Node \ {a} : /\ tables[n].dial[b] # "none" => t.dial[b] = tables[n].dial[b]
                               /\ t.dial[b] = "accepted" => tables[n].dial[b] = "accepted"
  BY <1>5, <1>7 DEF DialsKept
<1>10. \A p, m \in Node : CallKept(p, m) \/ (p = n /\ m = a)
  BY <1>8, <1>9 DEF CallKept
<1>11. ASSUME NEW m \in Node \ {a} PROVE ConnsOK(m)'
  BY <1>4, <1>10, OtherConns
<1>12. ConnsOK(a)'
  <2>1. saved[a] \cap Remembered \subseteq saved'[a]
    BY DEF FilesOK
  <2>2. ASSUME NEW d \in inbound[a]
        PROVE  ConnOK(a, d, tables'[d.peer].dial[a], saved'[a])
    <3>1. ConnOK(a, d, tables[d.peer].dial[a], saved[a]) /\ d.peer \in Node
      BY <1>1 DEF SInv, ConnsOK, Inbound
    <3>2. CASE d.peer # n \/ ~LiveLink(d)
      <4>1. LiveLink(d) => tables'[d.peer].dial[a] = tables[d.peer].dial[a]
        BY <1>8, <3>1, <3>2
      <4> QED BY <2>1, <3>1, <4>1, KeptConn
    <3>3. CASE d.peer = n /\ LiveLink(d)
      <4>1. d = c
        BY <1>3, <3>3 DEF SInv, ConnsOK, OneLive
      <4> QED BY <1>2, <1>8, <1>9, <2>1, <3>1, <3>3, <4>1 DEF ConnOK
    <3> QED BY <3>2, <3>3
  <2>3. OneLive(inbound'[a])
    BY <1>4 DEF SInv, ConnsOK
  <2> QED BY <1>4, <2>2, <2>3 DEF ConnsOK
<1>13. \A p \in Node : MoreOK(tables'[p]) /\ (~up'[p] => tables'[p] = Blank)
  BY <1>4, <1>7, <1>8 DEF SInv
<1>14. Introduced(n, a)'
  <2>1. saved'[n] = t.known
    BY <1>4, <1>8 DEF IInv, FileCurrent
  <2>2. Explicit[n] \cap Remembered \subseteq saved[a]
    BY <1>2, <1>3 DEF SInv, ConnsOK, ConnOK
  <2>3. saved[a] \cap Remembered \subseteq saved'[a]
    BY DEF FilesOK
  <2> QED BY <1>7, <2>1, <2>2, <2>3 DEF Introduced
<1>15. \A p, b \in Node : tables'[p].dial[b] = "accepted"
                            => tables[p].dial[b] = "accepted" \/ Introduced(p, b)'
  <2> SUFFICES ASSUME NEW p \in Node, NEW b \in Node, tables'[p].dial[b] = "accepted",
                      ~(p = n /\ b = a)
               PROVE  tables[p].dial[b] = "accepted"
    BY <1>14
  <2> QED BY <1>8, <1>9
<1>16. \A m \in Node : ConnsOK(m)'
  BY <1>11, <1>12
<1> QED BY <1>4, <1>13, <1>15, <1>16, SStep

LEMMA GossipCallMore ==
    ASSUME IInv, SInv, FilesOK, NEW n \in Node, NEW m \in Node, NEW kind \in Calls,
           GossipCall(n, m, kind)
    PROVE  SInv'
<1>1. /\ inbound \in [Node -> SUBSET Inbound] /\ inbound[m] \subseteq Inbound
  BY DEF IInv, TypeOK
<1>2. /\ inbound' = [inbound EXCEPT ![m] = inbound[m] \cup {Opened(n, kind)}]
      /\ UNCHANGED <<up, tables>>
      /\ kind = "stray" => m \in tables[n].stray
  BY DEF GossipCall, Calls
<1>3. \A p, o \in Node : CallKept(p, o)
  BY <1>2 DEF CallKept
<1>4. ConnsOK(m)'
  <2>1. inbound'[m] = inbound[m] \cup {Opened(n, kind)}
    BY <1>1, <1>2
  <2>2. kind = "stray" => m \in Forgettable
    BY <1>2 DEF SInv, MoreOK
  <2>3. ConnsOK(m)
    BY DEF SInv
  <2>4. kind \in Calls \cup {"link"} /\ kind # "link"
    BY DEF Calls
  <2> QED BY <1>1, <1>3, <2>1, <2>2, <2>3, <2>4, OpenedConns
<1>5. \A o \in Node \ {m} : ConnsOK(o)'
  BY <1>1, <1>2, <1>3, OtherConns
<1> QED BY <1>2, <1>4, <1>5, CallsStep

LEMMA HandleGossipMore ==
    ASSUME IInv, SInv, FilesOK, NEW m \in Node, NEW c \in inbound[m], HandleGossip(m, c)
    PROVE  SInv'
<1> DEFINE n == c.peer
           t == AddNeighbors(m, tables[m], {n})
           u == AddRemotes(m, t, {n})
<1>1. /\ tables[m] \in Table /\ MoreOK(tables[m])
      /\ inbound \in [Node -> SUBSET Inbound] /\ inbound[m] \subseteq Inbound
  BY DEF IInv, TypeOK, SInv
<1>2. n \in Node
  BY <1>1 DEF Inbound
<1>3. /\ up[m] /\ c.kind \in Calls /\ c.as = "new" /\ up' = up
      /\ tables' = [tables EXCEPT ![m] = u]
      /\ inbound' = [inbound EXCEPT ![m] = Answered(inbound[m], c, "told")]
  BY DEF HandleGossip
<1>4. t \in Table /\ t.known = tables[m].known \cup {n} /\ MoreOK(t) /\ DialsKept(tables[m], t)
  BY <1>1, <1>2, AddNeighborsMore
<1> HIDE DEF t
<1>5. MoreOK(u) /\ DialsKept(t, u)
  BY <1>2, <1>4, AddRemotesMore
<1> HIDE DEF u
<1>6. DialsKept(tables[m], u)
  BY <1>4, <1>5 DEF DialsKept
<1>7. \A p, o \in Node : CallKept(p, o)
  BY <1>3, <1>6, DialsAll
<1>8. ConnsOK(m)'
  <2>1. inbound'[m] = Answered(inbound[m], c, "told")
    BY <1>1, <1>3
  <2>2. ConnsOK(m)
    BY DEF SInv
  <2>3. "told" \in IF c.kind = "link" THEN {"remote", "refused", "crowded"} ELSE {"told"}
    BY <1>3 DEF Calls
  <2>4. "told" # "remote"
    OBVIOUS
  <2> QED BY <1>1, <1>3, <1>7, <2>1, <2>2, <2>3, <2>4, AnsweredConns
<1>9. \A o \in Node \ {m} : ConnsOK(o)'
  BY <1>1, <1>3, <1>7, OtherConns
<1>10. \A o \in Node : ConnsOK(o)'
  BY <1>8, <1>9
<1> QED BY <1>3, <1>5, <1>6, <1>10, TableStep

\* Tables that only differ in whom the daemon calls.
LEMMA GossipMore ==
    ASSUME NEW t \in Table, MoreOK(t), NEW G
    PROVE  LET r == [t EXCEPT !.gossip = G] IN MoreOK(r) /\ DialsKept(t, r)
<1> DEFINE r == [t EXCEPT !.gossip = G]
<1>1. r.known = t.known /\ r.all = t.all /\ r.dial = t.dial /\ r.stray = t.stray
  BY DEF Table
<1> HIDE DEF r
<1>2. MoreOK(r) /\ DialsKept(t, r)
  BY <1>1 DEF MoreOK, DialsKept
<1> QED BY <1>2 DEF r

LEMMA ReadReceivedMore ==
    ASSUME IInv, IInv', SInv, FilesOK, NEW n \in Node, NEW m \in Node, NEW kind \in Calls,
           ReadReceived(n, m, kind)
    PROVE  SInv'
<1>1. PICK c \in LiveFrom(m, n, kind) :
         /\ c.as = "told"
         /\ inbound' = [inbound EXCEPT ![m] = Closed(Answered(inbound[m], c, "heard"), n, {"gossip"})]
  BY DEF ReadReceived
<1> DEFINE e == [c EXCEPT !.as = "heard"]
           heard == Answered(inbound[m], c, "heard")
           t == [tables[n] EXCEPT !.gossip = tables[n].gossip \ {m}]
<1>2. /\ tables \in [Node -> Table] /\ tables[n] \in Table /\ MoreOK(tables[n])
      /\ inbound \in [Node -> SUBSET Inbound]
      /\ \A o \in Node : inbound[o] \subseteq Inbound /\ inbound'[o] \subseteq Inbound
  BY DEF IInv, TypeOK, SInv
<1>3. c \in inbound[m] /\ c.peer = n /\ c.kind = kind /\ c.as = "told" /\ c \in Inbound
  BY <1>1, <1>2 DEF LiveFrom
<1>4. tables' = [tables EXCEPT ![n] = t] /\ up' = up /\ up[n]
  BY <1>2 DEF ReadReceived, GossipReceived
<1>5. MoreOK(t) /\ DialsKept(tables[n], t)
  BY <1>2, GossipMore
<1> HIDE DEF t
<1>6. \A p, o \in Node : CallKept(p, o)
  BY <1>4, <1>5, DialsAll
<1>7. /\ e \in Inbound /\ e.peer = n /\ e.kind = kind /\ e.as = "heard"
  BY <1>3 DEF Inbound, Answers
<1>8. heard = (inbound[m] \ {c}) \cup {e}
  BY DEF Answered
<1> HIDE DEF e, heard
<1>9. inbound'[m] = Closed(heard, n, {"gossip"})
  BY <1>1, <1>2 DEF heard
<1>10. /\ Outlives(heard, inbound'[m])
       /\ \A d \in inbound'[m] : d.live => ~(d.peer = n /\ d.kind \in {"gossip"})
  <2>1. heard \subseteq Inbound
    BY <1>2, <1>7, <1>8
  <2>2. /\ Outlives(heard, Closed(heard, n, {"gossip"}))
        /\ \A d \in Closed(heard, n, {"gossip"}) : d.live => ~(d.peer = n /\ d.kind \in {"gossip"})
    BY <2>1, ClosedMore
  <2> QED BY <1>9, <2>2
<1>11. ConnsOK(m)'
  <2>1. kind # "link"
    BY DEF Calls
  <2>2. \A d \in inbound'[m] : LiveLink(d) => d \in inbound[m]
    BY <1>7, <1>8, <1>10, <2>1 DEF Outlives, LiveLink
  <2>3. OneLive(inbound'[m])
    BY <2>2 DEF SInv, ConnsOK, OneLive
  <2>4. ASSUME NEW d \in inbound'[m]
        PROVE  ConnOK(m, d, tables'[d.peer].dial[m], saved'[m])
    <3>1. PICK o \in heard : /\ d.peer = o.peer /\ d.kind = o.kind /\ d.as = o.as
                             /\ d.live => o.live
      BY <1>10 DEF Outlives
    <3>2. CASE o \in inbound[m]
      <4>1. ConnOK(m, o, tables[d.peer].dial[m], saved[m])
        BY <3>1, <3>2 DEF SInv, ConnsOK
      <4>2. saved[m] \cap Remembered \subseteq saved'[m]
        BY DEF FilesOK
      <4>3. d.peer \in Node
        BY <1>2 DEF Inbound
      <4>4. LiveLink(d) => tables'[d.peer].dial[m] = tables[d.peer].dial[m]
        BY <1>6, <3>1, <4>1, <4>3 DEF CallKept, ConnOK, LiveLink
      <4> QED BY <3>1, <4>1, <4>2, <4>4, KeptConn
    <3>3. CASE o = e
      <4>1. d.peer = n /\ d.kind = kind /\ d.as = "heard"
        BY <1>7, <3>1, <3>3
      <4>2. kind = "stray" => m \in Forgettable
        BY <1>3 DEF SInv, ConnsOK, ConnOK
      <4>3. kind = "gossip" => ~d.live
        BY <1>10, <4>1
      <4> QED BY <2>1, <4>1, <4>2, <4>3 DEF ConnOK, LiveLink
    <3> QED BY <1>8, <3>1, <3>2, <3>3
  <2> QED BY <2>3, <2>4 DEF ConnsOK
<1>12. \A o \in Node \ {m} : ConnsOK(o)'
  BY <1>1, <1>2, <1>6, OtherConns
<1>13. \A o \in Node : ConnsOK(o)'
  BY <1>11, <1>12
<1> QED BY <1>4, <1>5, <1>13, TableStep

LEMMA InboundGoneMore ==
    ASSUME IInv, IInv', SInv, FilesOK, NEW m \in Node, NEW c \in inbound[m],
           InboundGone(m, c) \/ CutInbound(m, c)
    PROVE  SInv'
<1> DEFINE t == [tables[m] EXCEPT !.gossip = tables[m].gossip \cup {c.peer}]
<1>1. /\ tables \in [Node -> Table] /\ tables[m] \in Table /\ MoreOK(tables[m])
      /\ inbound \in [Node -> SUBSET Inbound] /\ inbound'[m] \subseteq Inbound
  BY DEF IInv, TypeOK, SInv
<1>2. /\ tables' = [tables EXCEPT ![m] = t] /\ up' = up /\ up[m]
      /\ inbound' = [inbound EXCEPT ![m] = inbound[m] \ {c}]
  BY <1>1 DEF InboundGone, CutInbound, ConnectionLost
<1>3. MoreOK(t) /\ DialsKept(tables[m], t)
  BY <1>1, GossipMore
<1> HIDE DEF t
<1>4. \A p, o \in Node : CallKept(p, o)
  BY <1>2, <1>3, DialsAll
<1>5. ConnsOK(m)'
  <2>1. Outlives(inbound[m], inbound'[m])
    BY <1>1, <1>2 DEF Outlives
  <2>2. ConnsOK(m)
    BY DEF SInv
  <2> QED BY <1>1, <1>4, <2>1, <2>2, KeptConns
<1>6. \A o \in Node \ {m} : ConnsOK(o)'
  BY <1>1, <1>2, <1>4, OtherConns
<1>7. \A o \in Node : ConnsOK(o)'
  BY <1>5, <1>6
<1> QED BY <1>2, <1>3, <1>7, TableStep

LEMMA ForgetMore ==
    ASSUME IInv, IInv', SInv, FilesOK, NEW n \in Node, NEW x \in Forgettable, Forget(n, x)
    PROVE  SInv'
<1> DEFINE t == tables[n]
           u == [t EXCEPT !.known = t.known \ {x}]
           f == ForgetRemote(u, x)
           closed == Closed(inbound[x], n, {"link"})
           g(c) == IF c.peer = n /\ c.kind = "gossip" THEN [c EXCEPT !.kind = "stray"] ELSE c
<1>1. /\ tables \in [Node -> Table] /\ t \in Table /\ MoreOK(t)
      /\ inbound \in [Node -> SUBSET Inbound] /\ x \in Node
      /\ \A m \in Node : inbound[m] \subseteq Inbound /\ inbound'[m] \subseteq Inbound
  BY OptionsAssumption DEF IInv, TypeOK, SInv
<1>2. /\ up[n] /\ up' = up /\ tables' = [tables EXCEPT ![n] = f]
      /\ inbound' = [inbound EXCEPT ![x] = {g(c) : c \in closed}]
  BY <1>1 DEF Forget
<1>3. t.dial \in [Node -> Dialing]
  BY <1>1 DEF Table
<1> HIDE DEF t
<1>4. /\ f.known = t.known \ {x} /\ f.all = t.all
      /\ f.stray = t.stray \cup (t.gossip \cap {x})
      /\ \A b \in Node : f.dial[b] = IF b = x THEN "none" ELSE t.dial[b]
  <2>1. /\ u \in Table /\ u.known = t.known \ {x} /\ u.all = t.all /\ u.dial = t.dial
        /\ u.gossip = t.gossip /\ u.stray = t.stray
    BY <1>1 DEF Table
  <2> HIDE DEF u
  <2> QED BY <1>1, <1>3, <2>1 DEF Table, Dialing, ForgetRemote
<1> HIDE DEF f
<1>5. MoreOK(f)
  BY <1>1, <1>4 DEF MoreOK
<1>6. tables'[n] = f /\ \A p \in Node \ {n} : tables'[p] = tables[p]
  BY <1>1, <1>2
<1>7. \A p, m \in Node : CallKept(p, m) \/ (p = n /\ m = x)
  BY <1>4, <1>6 DEF CallKept, t
<1>8. /\ Outlives(inbound[x], closed) /\ closed \subseteq Inbound
      /\ \A d \in closed : d.live => ~(d.peer = n /\ d.kind \in {"link"})
  <2>1. closed \subseteq Inbound
    <3>1. InboundOK(x, inbound[x], saved[x])
      BY <1>1 DEF IInv
    <3>2. InboundOK(x, closed, saved[x])
      BY <3>1, ClosedFacts
    <3> QED BY <3>2 DEF InboundOK
  <2> QED BY <1>1, <2>1, ClosedMore
<1> HIDE DEF closed
<1>9. \A c \in Inbound :
         /\ g(c).peer = c.peer /\ g(c).as = c.as /\ g(c).live = c.live
         /\ g(c) = c \/ (c.kind = "gossip" /\ g(c).kind = "stray")
  BY DEF Inbound, Calls
<1> HIDE DEF g
<1>10. inbound'[x] = {g(c) : c \in closed}
  BY <1>1, <1>2
<1>11. ConnsOK(x)'
  <2>1. \A d \in inbound'[x] : LiveLink(d) => d \in inbound[x] /\ d.peer # n
    BY <1>8, <1>9, <1>10 DEF Outlives, LiveLink
  <2>2. OneLive(inbound'[x])
    BY <1>1, <2>1 DEF SInv, ConnsOK, OneLive
  <2>3. ASSUME NEW d \in inbound'[x]
        PROVE  ConnOK(x, d, tables'[d.peer].dial[x], saved'[x])
    <3>1. PICK c \in closed : d = g(c)
      BY <1>10
    <3>2. PICK o \in inbound[x] : /\ c.peer = o.peer /\ c.kind = o.kind /\ c.as = o.as
                                  /\ c.live => o.live
      BY <1>8 DEF Outlives
    <3>3. ConnOK(x, o, tables[o.peer].dial[x], saved[x])
      BY <1>1 DEF SInv, ConnsOK
    <3>4. saved[x] \cap Remembered \subseteq saved'[x]
      BY <1>1 DEF FilesOK
    <3>5. d.peer = o.peer /\ d.as = o.as /\ (d.live => o.live) /\ d.peer \in Node
      BY <1>1, <1>8, <1>9, <3>1, <3>2 DEF Inbound
    <3>6. CASE d.kind = o.kind
      <4>1. LiveLink(d) => tables'[d.peer].dial[x] = tables[d.peer].dial[x]
        BY <1>6, <2>1, <3>5
      <4> QED BY <3>3, <3>4, <3>5, <3>6, <4>1, KeptConn
    <3>7. CASE d.kind = "stray" /\ o.kind = "gossip"
      BY <3>3, <3>4, <3>5, <3>7 DEF ConnOK, LiveLink
    <3> QED BY <1>8, <1>9, <3>1, <3>2, <3>6, <3>7
  <2> QED BY <2>2, <2>3 DEF ConnsOK
<1>12. \A m \in Node \ {x} : ConnsOK(m)'
  BY <1>1, <1>2, <1>7, OtherConns
<1>13. \A m \in Node : ConnsOK(m)'
  BY <1>11, <1>12
<1>14. \A p \in Node : MoreOK(tables'[p]) /\ (~up'[p] => tables'[p] = Blank)
  BY <1>2, <1>5, <1>6 DEF SInv
<1>15. \A p, b \in Node : tables'[p].dial[b] = "accepted" => tables[p].dial[b] = "accepted"
  BY <1>4, <1>6 DEF t
<1> QED BY <1>2, <1>13, <1>14, <1>15, SStep

-----------------------------------------------------------------------------
(* The theorems.                                                           *)

LEMMA InitSInv == Init => SInv
<1> SUFFICES ASSUME Init PROVE SInv
  OBVIOUS
<1>1. \A n \in Node : tables[n] = Blank /\ ~up[n] /\ inbound[n] = {}
  BY DEF Init
<1>2. MoreOK(Blank) /\ \A a \in Node : Blank.dial[a] = "none"
  BY DEF Blank, MoreOK
<1>3. \A m \in Node : ConnsOK(m)
  BY <1>1 DEF ConnsOK, OneLive
<1> QED BY <1>1, <1>2, <1>3 DEF SInv

LEMMA NextSInv == IInv /\ SInv /\ [Next]_vars => SInv'
<1> SUFFICES ASSUME IInv, SInv, [Next]_vars PROVE SInv'
  OBVIOUS
<1>1. IInv'
  BY NextIInv
<1>2. FilesOK
  <2>1. \A n \in Node : saved[n] \ Forgettable \subseteq saved'[n]
    BY FilesKept
  <2>2. Remembered = Node \ Forgettable
    BY DEF Remembered
  <2> QED BY <2>1, <2>2 DEF FilesOK
<1>3. ASSUME NEW n \in Node, Start(n) \/ Stop(n) PROVE SInv'
  BY <1>1, <1>2, <1>3, StartMore, StopMore
<1>4. ASSUME NEW n \in Node, Crowd(n) \/ Thin(n) PROVE SInv'
  BY <1>2, <1>4, OtherMore DEF Crowd, Thin
<1>5. ASSUME NEW n \in Node, NEW a \in Node, Dial(n, a) PROVE SInv'
  BY <1>2, <1>5, DialMore
<1>6. ASSUME NEW n \in Node, NEW a \in Node, ReadAccept(n, a) PROVE SInv'
  BY <1>1, <1>2, <1>6, ReadAcceptMore
<1>7. ASSUME NEW n \in Node, NEW a \in Node, ReadRefuse(n, a) \/ DialLost(n, a) \/ Cut(n, a)
      PROVE  SInv'
  BY <1>1, <1>2, <1>7, LostMore
<1>8. ASSUME NEW n \in Node, NEW m \in Node, NEW kind \in Calls,
             GossipCall(n, m, kind) \/ ReadReceived(n, m, kind)
      PROVE  SInv'
  BY <1>1, <1>2, <1>8, GossipCallMore, ReadReceivedMore
<1>9. ASSUME NEW m \in Node, NEW c \in inbound[m], RefuseConnect(m, c) \/ AcceptConnect(m, c)
      PROVE  SInv'
  BY <1>1, <1>2, <1>9, RefuseConnectMore, AcceptConnectMore
<1>10. ASSUME NEW m \in Node, NEW c \in inbound[m],
              HandleGossip(m, c) \/ InboundGone(m, c) \/ CutInbound(m, c)
       PROVE  SInv'
  BY <1>1, <1>2, <1>10, HandleGossipMore, InboundGoneMore
<1>11. ASSUME NEW n \in Node, NEW x \in Forgettable, Forget(n, x) PROVE SInv'
  BY <1>1, <1>2, <1>11, ForgetMore
<1>12. CASE UNCHANGED vars
  BY <1>2, <1>12, OtherMore DEF vars
<1> QED
  BY <1>3, <1>4, <1>5, <1>6, <1>7, <1>8, <1>9, <1>10, <1>11, <1>12 DEF Next

LEMMA BothInv == Spec => [](IInv /\ SInv)
<1>1. Init => SInv
  BY InitSInv
<1>2. IInv /\ SInv /\ [Next]_vars => SInv'
  BY NextSInv
<1> QED BY <1>1, <1>2, Invariant, PTL DEF Spec

\* The caller of a permanent connection in an idle cluster was accepted, over a
\* connection that is still there at the other end.
LEMMA IdleLinked ==
    ASSUME IInv, SInv, Idle, NEW n \in Node, NEW a \in Node, tables[n].dial[a] # "none"
    PROVE  Linked(n, a)
<1>1. PICK c \in LiveFrom(a, n, "link") : TRUE
  BY DEF Idle
<1>2. /\ c \in inbound[a] /\ c.peer = n /\ c.kind = "link" /\ c.live /\ c.as # "new"
      /\ tables[n].dial[a] # "waiting"
  BY DEF LiveFrom, Idle
<1>3. ConnOK(a, c, tables[n].dial[a], saved[a])
  BY <1>2 DEF SInv, ConnsOK
<1>4. c.as \in {"remote", "refused", "crowded"}
  BY <1>2, <1>3 DEF ConnOK
<1>5. tables[n].dial[a] = "accepted"
  BY <1>2, <1>3, <1>4 DEF ConnOK, LiveLink, Idle
<1>6. c.as = "remote"
  BY <1>2, <1>3, <1>5 DEF ConnOK, LiveLink
<1> QED BY <1>5, <1>6 DEF Linked

\* Of two computers that have to remember each other, it is enough that one does.
LEMMA IdleKnown ==
    ASSUME IInv, SInv, Idle, NEW n \in Remembered, NEW m \in Remembered, n # m,
           m \in tables[n].known
    PROVE  IF m < n THEN Linked(n, m) ELSE Linked(m, n)
<1>1. n \in Node /\ m \in Node /\ (m < n \/ n < m)
  BY NodeAssumption DEF Remembered
<1>2. \A p \in Node : saved[p] = tables[p].known
  BY DEF IInv, FileCurrent, Idle
<1>3. CASE m < n
  <2>1. tables[n].dial[m] # "none"
    BY <1>1, <1>3 DEF IInv, TableOK
  <2> QED BY <1>1, <1>3, <2>1, IdleLinked
<1>4. CASE n < m
  <2>1. tables[m].dial[n] # "none"
    <3>1. \/ m \in tables[n].gossip
          \/ \E c \in inbound[n] : c.peer = m
          \/ n \in saved[m]
      BY <1>1, <1>4 DEF IInv, NeverLost, Idle
    <3>2. CASE m \in tables[n].gossip
      <4>1. PICK c \in LiveFrom(m, n, "gossip") : TRUE
        BY <1>1, <3>2 DEF Idle
      <4>2. /\ c \in inbound[m] /\ c.peer = n /\ c.kind = "gossip" /\ c.live /\ c.as # "new"
            /\ c.as # "told"
        BY <1>1 DEF LiveFrom, Idle, Calls
      <4>3. ConnOK(m, c, tables[n].dial[m], saved[m])
        BY <1>1, <4>2 DEF SInv, ConnsOK
      <4> QED BY <4>2, <4>3 DEF ConnOK
    <3>3. ASSUME NEW c \in inbound[n], c.peer = m
          PROVE  tables[m].dial[n] # "none"
      <4>1. ConnOK(n, c, tables[m].dial[n], saved[n]) /\ c.live /\ c.as # "new" /\ c \in Inbound
        BY <1>1, <3>3 DEF SInv, ConnsOK, Idle, IInv, TypeOK
      <4>2. c.kind # "stray"
        BY <4>1 DEF ConnOK, Remembered
      <4>3. c.kind \in Calls => c.as # "told"
        BY <1>1, <3>3, <4>1 DEF Idle, LiveFrom
      <4>4. c.kind = "link"
        BY <4>1, <4>2, <4>3 DEF ConnOK, Inbound, Calls
      <4> QED BY <4>1, <4>4 DEF ConnOK, LiveLink
    <3>4. CASE n \in saved[m]
      BY <1>1, <1>2, <1>4, <3>4 DEF IInv, TableOK
    <3> QED BY <3>1, <3>2, <3>3, <3>4
  <2>2. Linked(m, n)
    BY <1>1, <2>1, IdleLinked
  <2>3. ~(m < n)
    BY <1>1, <1>4, NodeAssumption
  <2> QED BY <2>2, <2>3
<1> QED BY <1>1, <1>3, <1>4

LEMMA IdleSettled ==
    ASSUME IInv, SInv, Idle
    PROVE  Settled
<1>1. \A p \in Node : saved[p] = tables[p].known
  BY DEF IInv, FileCurrent, Idle
<1>2. \A p, a \in Node : Linked(p, a) => a \in tables[p].known /\ Introduced(p, a)
  BY DEF Linked, SInv, MoreOK
<1>3. \A p, a \in Remembered : Linked(p, a) => p \in saved[a]
  BY DEF Linked, IInv, AcceptedIsSaved
<1>4. ASSUME NEW n \in Remembered
      PROVE  ({n} \cup Explicit[n]) \cap Remembered \subseteq tables[n].known
  BY <1>1 DEF SInv, Idle, Remembered
<1>5. ASSUME NEW n \in Remembered, NEW m \in Remembered \ {n}, m \in tables[n].known
      PROVE  /\ n \in tables[m].known
             /\ Explicit[m] \cap Remembered \subseteq tables[n].known
             /\ m < n => Linked(n, m)
  <2>1. n \in Node /\ m \in Node
    BY DEF Remembered
  <2>2. IF m < n THEN Linked(n, m) ELSE Linked(m, n)
    BY <1>5, IdleKnown
  <2>3. CASE Linked(n, m) /\ m < n
    BY <1>1, <1>2, <1>3, <2>1, <2>3 DEF Introduced
  <2>4. CASE Linked(m, n) /\ ~(m < n)
    BY <1>1, <1>2, <1>3, <2>1, <2>4 DEF Introduced
  <2> QED BY <2>2, <2>3, <2>4
<1> QED BY <1>4, <1>5 DEF Settled

\* When no daemon has anything left to do, any two computers that nobody asks to
\* forget and of which one knows the other know each other, are linked by the
\* one with the larger address, and know all that is in each other's option,
\* whatever was refused, cut, crowded or restarted before.
THEOREM LinksSettle == Spec => [](Idle => Settled)
<1>1. IInv /\ SInv => (Idle => Settled)
  BY IdleSettled
<1> QED BY <1>1, BothInv, PTL

\* The options reach everyone: a computer that knows itself and its option, and,
\* like all others, those that know it and the options of those it knows, knows
\* all computers.
Spreads ==
    \A K \in [Node -> SUBSET Node] :
        (\A n \in Node : /\ {n} \cup Explicit[n] \subseteq K[n]
                         /\ \A m \in K[n] : n \in K[m] /\ Explicit[m] \subseteq K[n])
          => \A n \in Node : K[n] = Node

\* In such a network, and with no FORGET, everyone knows everyone and is linked
\* to everyone when nothing is left to do: what EveryoneKnown and
\* EventuallyLinked promise, from the fairness that leads to an idle cluster.
THEOREM EveryoneMeets ==
    ASSUME Forgettable = {}, Spreads
    PROVE  Spec => [](Idle => \A n \in Node : /\ tables[n].known = Node
                                              /\ \A a \in Node : a < n => Linked(n, a))
<1>1. Remembered = Node
  BY DEF Remembered
<1>2. ASSUME IInv, Settled
      PROVE  \A n \in Node : /\ tables[n].known = Node
                             /\ \A a \in Node : a < n => Linked(n, a)
  <2> DEFINE K == [n \in Node |-> tables[n].known]
  <2>1. \A n \in Node : tables[n].known \subseteq Node /\ Explicit[n] \subseteq Node
    BY <1>2, OptionsAssumption DEF IInv, TypeOK, Table
  <2>2. K \in [Node -> SUBSET Node]
    BY <2>1
  <2>3. ASSUME NEW n \in Node
        PROVE  {n} \cup Explicit[n] \subseteq K[n]
    BY <1>1, <1>2, <2>1 DEF Settled
  <2>4. ASSUME NEW n \in Node, NEW m \in K[n]
        PROVE  n \in K[m] /\ Explicit[m] \subseteq K[n]
    <3>1. m \in Node /\ m \in tables[n].known
      BY <2>1
    <3>2. n \in tables[m].known /\ Explicit[m] \subseteq tables[n].known
      BY <1>1, <1>2, <2>1, <2>3, <3>1 DEF Settled
    <3> QED BY <3>1, <3>2
  <2> HIDE DEF K
  <2>5. \A n \in Node : K[n] = Node
    BY <2>2, <2>3, <2>4 DEF Spreads
  <2>6. \A n \in Node : tables[n].known = Node
    BY <2>5 DEF K
  <2>7. ASSUME NEW n \in Node, NEW a \in Node, a < n PROVE Linked(n, a)
    <3>1. a # n
      BY <2>7, NodeAssumption
    <3> QED BY <1>1, <1>2, <2>6, <2>7, <3>1 DEF Settled
  <2> QED BY <2>6, <2>7
<1>3. IInv /\ SInv /\ Idle => IInv /\ Settled
  BY IdleSettled
<1>4. IInv /\ SInv => (Idle => \A n \in Node : /\ tables[n].known = Node
                                               /\ \A a \in Node : a < n => Linked(n, a))
  BY <1>2, <1>3
<1> QED BY <1>4, BothInv, PTL

=============================================================================
