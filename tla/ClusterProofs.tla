----------------------------- MODULE ClusterProofs -----------------------------
(***************************************************************************)
(* Proofs about Cluster, for any number of computers, options, cables,     *)
(* faults and stops.                                                       *)
(***************************************************************************)
EXTENDS Cluster, FunctionTheorems, FiniteSetTheorems, SequenceTheorems, TLAPS

\* Cables that carry words of W.
CableOf(W) == {c \in [from: Node, to: Node, id: Nat, fromUp: BOOLEAN, toUp: BOOLEAN,
                      whole: BOOLEAN, as: {"new", "remote", "refused"},
                      toQ: Seq(W), fromQ: Seq(W)] : c.to < c.from}

\* What is said while nobody was told to shut the cluster down.
Said(quit) == IF quit THEN Word ELSE Word \ {"SHUTDOWN"}

StatusRec == [status: {"UP", "DOWN"}, complete: {"COMPLETE", "INCOMPLETE"}, total: Nat]

\* Everything TypeOK says of what is not a cable.
Types ==
    /\ loop \in [Node -> {"run", "stopping", "ended"}]
    /\ known \in [Node -> SUBSET Node] /\ forgotten \in [Node -> SUBSET Node]
    /\ status \in [Node -> StatusRec]
    /\ locals \in [Node -> {"on", "done", "none"}]
    /\ lingering \in [Node -> SUBSET Lingerer]
    /\ faults \in 0..MaxFaults
    /\ hung \subseteq Node /\ stale \subseteq Node /\ asked \subseteq Node /\ quitting \in BOOLEAN
    /\ mates \subseteq Node /\ dropped \in BOOLEAN

\* The inductive invariant: as long as nobody was told to shut the cluster down no
\* daemon, in whatever state, has said SHUTDOWN to another.
IInv == Types /\ cables \subseteq CableOf(Said(quitting)) /\ StopStaysLocal

-----------------------------------------------------------------------------
(* Cables.                                                                 *)

LEMMA SaidWords ==
    ASSUME NEW quit \in BOOLEAN
    PROVE  /\ Said(quit) \subseteq Word
           /\ {"CONNECT", "ACCEPT", "REFUSE", "DISCONNECT", "QUITTING"} \subseteq Said(quit)
           /\ ~quit => "SHUTDOWN" \notin Said(quit)
           /\ quit => "SHUTDOWN" \in Said(quit)
BY DEF Said, Word

LEMMA MoreWords ==
    ASSUME NEW V, NEW W, V \subseteq W
    PROVE  CableOf(V) \subseteq CableOf(W)
<1> SUFFICES ASSUME NEW c \in CableOf(V) PROVE c \in CableOf(W)
  OBVIOUS
<1>1. c.toQ \in Seq(V) /\ c.fromQ \in Seq(V)
  BY DEF CableOf
<1>2. c.toQ \in Seq(W) /\ c.fromQ \in Seq(W)
  BY <1>1
<1> QED BY <1>2 DEF CableOf

\* A cable with one field changed.
LEMMA OneField ==
    ASSUME NEW W, NEW c \in CableOf(W), NEW d,
           \/ \E q \in Seq(W) : d = [c EXCEPT !.toQ = q]
           \/ \E q \in Seq(W) : d = [c EXCEPT !.fromQ = q]
           \/ d = [c EXCEPT !.toUp = FALSE]
           \/ d = [c EXCEPT !.fromUp = FALSE]
           \/ d = [c EXCEPT !.whole = FALSE]
           \/ \E as \in {"new", "remote", "refused"} : d = [c EXCEPT !.as = as]
    PROVE  d \in CableOf(W)
<1>1. ASSUME NEW q \in Seq(W), d = [c EXCEPT !.toQ = q] \/ d = [c EXCEPT !.fromQ = q]
      PROVE  d \in CableOf(W)
  BY <1>1 DEF CableOf
<1>2. ASSUME \/ d = [c EXCEPT !.toUp = FALSE]
             \/ d = [c EXCEPT !.fromUp = FALSE]
             \/ d = [c EXCEPT !.whole = FALSE]
      PROVE  d \in CableOf(W)
  BY <1>2 DEF CableOf
<1>3. ASSUME NEW as \in {"new", "remote", "refused"}, d = [c EXCEPT !.as = as]
      PROVE  d \in CableOf(W)
  BY <1>3 DEF CableOf
<1> QED BY <1>1, <1>2, <1>3

LEMMA Renamed ==
    ASSUME NEW W, NEW c \in CableOf(W), NEW as \in {"new", "remote", "refused"}
    PROVE  [c EXCEPT !.as = as] \in CableOf(W)
BY OneField

LEMMA Sent ==
    ASSUME NEW W, NEW c \in CableOf(W), NEW m \in W
    PROVE  SendTo(c, m) \in CableOf(W) /\ SendFrom(c, m) \in CableOf(W)
<1>1. c.toQ \in Seq(W) /\ c.fromQ \in Seq(W)
  BY DEF CableOf
<1>2. Append(c.toQ, m) \in Seq(W) /\ Append(c.fromQ, m) \in Seq(W)
  BY <1>1
<1>3. PICK d, e : d = [c EXCEPT !.toQ = Append(c.toQ, m)] /\ e = [c EXCEPT !.fromQ = Append(c.fromQ, m)]
  OBVIOUS
<1>4. d \in CableOf(W)
  BY <1>2, <1>3, OneField
<1>5. e \in CableOf(W)
  BY <1>2, <1>3, OneField
<1> QED BY <1>3, <1>4, <1>5 DEF SendTo, SendFrom

LEMMA Closed ==
    ASSUME NEW W, NEW c \in CableOf(W), NEW n
    PROVE  CloseTo(c) \in CableOf(W) /\ CloseFrom(c) \in CableOf(W) /\ CloseEnd(n, c) \in CableOf(W)
<1>0. <<>> \in Seq(W)
  OBVIOUS
<1>1. CloseTo(c) \in CableOf(W)
  <2>1. PICK d : d = [c EXCEPT !.toUp = FALSE]
    OBVIOUS
  <2>2. d \in CableOf(W)
    BY <2>1, OneField
  <2>3. PICK e : e = [d EXCEPT !.toQ = <<>>]
    OBVIOUS
  <2>4. e \in CableOf(W)
    BY <1>0, <2>2, <2>3, OneField
  <2>5. CloseTo(c) = e
    BY <2>1, <2>3 DEF CloseTo
  <2> QED BY <2>4, <2>5
<1>2. CloseFrom(c) \in CableOf(W)
  <2>1. PICK d : d = [c EXCEPT !.fromUp = FALSE]
    OBVIOUS
  <2>2. d \in CableOf(W)
    BY <2>1, OneField
  <2>3. PICK e : e = [d EXCEPT !.fromQ = <<>>]
    OBVIOUS
  <2>4. e \in CableOf(W)
    BY <1>0, <2>2, <2>3, OneField
  <2>5. CloseFrom(c) = e
    BY <2>1, <2>3 DEF CloseFrom
  <2> QED BY <2>4, <2>5
<1> QED BY <1>1, <1>2 DEF CloseEnd

LEMMA Broken ==
    ASSUME NEW W, NEW c \in CableOf(W)
    PROVE  [c EXCEPT !.whole = FALSE, !.toQ = <<>>, !.fromQ = <<>>] \in CableOf(W)
<1>0. <<>> \in Seq(W)
  OBVIOUS
<1>1. PICK d : d = [c EXCEPT !.whole = FALSE]
  OBVIOUS
<1>2. d \in CableOf(W)
  BY <1>1, OneField
<1>3. PICK e : e = [d EXCEPT !.toQ = <<>>]
  OBVIOUS
<1>4. e \in CableOf(W)
  BY <1>0, <1>2, <1>3, OneField
<1>5. PICK f : f = [e EXCEPT !.fromQ = <<>>]
  OBVIOUS
<1>6. f \in CableOf(W)
  BY <1>0, <1>4, <1>5, OneField
<1> QED BY <1>1, <1>3, <1>5, <1>6

LEMMA Taken ==
    ASSUME NEW W, NEW c \in CableOf(W), NEW n, Inbox(n, c) # <<>>
    PROVE  TakeOne(n, c) \in CableOf(W) /\ Head(Inbox(n, c)) \in W
<1>1. c.toQ \in Seq(W) /\ c.fromQ \in Seq(W)
  BY DEF CableOf
<1>2. Inbox(n, c) \in Seq(W)
  BY <1>1 DEF Inbox
<1>3. Head(Inbox(n, c)) \in W /\ Tail(Inbox(n, c)) \in Seq(W)
  BY <1>2
<1>4. CASE c.to = n
  BY <1>3, <1>4 DEF Inbox, TakeOne, CableOf
<1>5. CASE c.to # n
  BY <1>3, <1>5 DEF Inbox, TakeOne, CableOf
<1> QED BY <1>3, <1>4, <1>5

LEMMA Swapped ==
    ASSUME NEW W, cables \subseteq CableOf(W), NEW c, NEW d \in CableOf(W)
    PROVE  Swap(c, d) \subseteq CableOf(W)
BY DEF Swap, InUse

LEMMA PartingWords ==
    ASSUME NEW W, NEW cs \in SUBSET CableOf(W), NEW n, NEW word \in W
    PROVE  PartingCables(n, cs, word) \subseteq CableOf(W)
<1>1. ASSUME NEW c \in cs
      PROVE  (IF c.from = n THEN IF c.fromUp THEN SendTo(c, word) ELSE c
              ELSE IF c.to # n \/ ~c.toUp THEN c
              ELSE IF c.as = "remote" THEN SendFrom(c, word)
              ELSE CloseTo(c)) \in CableOf(W)
  <2>1. c \in CableOf(W)
    OBVIOUS
  <2>2. SendTo(c, word) \in CableOf(W) /\ SendFrom(c, word) \in CableOf(W)
    BY <2>1, Sent
  <2>3. CloseTo(c) \in CableOf(W)
    BY <2>1, Closed
  <2> QED BY <2>1, <2>2, <2>3
<1> QED BY <1>1 DEF PartingCables, InUse

LEMMA Counted ==
    ASSUME NEW ns \in SUBSET Node
    PROVE  IsFiniteSet(ns) /\ Cardinality(ns) \in Nat /\ AtLeastOne(Cardinality(ns)) \in Nat
BY NodeAssumption, FS_Subset, FS_CardinalityType DEF AtLeastOne

LEMMA AnnounceTypes ==
    ASSUME Types, NEW n \in Node, NEW count, NEW ns \in SUBSET Node, Announce(n, count, ns)
    PROVE  status' \in [Node -> StatusRec] /\ stale' \subseteq Node
<1>1. StatusOf(count + 1, AtLeastOne(Cardinality(ns))) \in StatusRec
  BY Counted DEF StatusOf, StatusRec
<1> QED BY <1>1 DEF Announce, Types

\* Gossip connections that are open are within the bound on faults.
LEMMA Called ==
    ASSUME faults \in 0..MaxFaults, NEW n \in Node, NEW g \in Calls(n)
    PROVE  /\ g \subseteq Node /\ IsFiniteSet(g) /\ Cardinality(g) \in Nat
           /\ faults + Cardinality(g) \in 0..MaxFaults
<1>1. g \subseteq Node /\ faults + Cardinality(g) <= MaxFaults
  BY DEF Calls
<1>2. IsFiniteSet(g) /\ Cardinality(g) \in Nat
  BY <1>1, Counted
<1> QED BY <1>1, <1>2, BoundAssumption

LEMMA Evaluated ==
    ASSUME Types, NEW n \in Node, NEW cs, NEW ns \in SUBSET Node, Evaluate(n, cs, ns)
    PROVE  /\ status' \in [Node -> StatusRec] /\ stale' \subseteq Node
           /\ hung' \subseteq Node /\ faults' \in 0..MaxFaults
<1>1. PICK g \in Calls(n) : /\ Announce(n, LiveConnections(n, cs) + Cardinality(g), ns)
                            /\ hung' = (IF g = {} THEN hung ELSE hung \cup {n})
                            /\ faults' = faults + Cardinality(g)
  BY DEF Evaluate
<1>2. faults' \in 0..MaxFaults
  BY <1>1, Called DEF Types
<1>3. hung' \subseteq Node
  BY <1>1 DEF Types
<1> QED BY <1>1, <1>2, <1>3, AnnounceTypes

\* One more connection that lingers.
LEMMA Lingers ==
    ASSUME Types, NEW n \in Node, NEW x \in Lingerer
    PROVE  Linger(n, x) \in [Node -> SUBSET Lingerer]
BY DEF Types, Linger

LEMMA RemovedLingers ==
    ASSUME Types, NEW n \in Node, NEW c, c.from \in Node
    PROVE  Removed(n, c) \in [Node -> SUBSET Lingerer]
<1>1. Gossip(c.from) \in Lingerer
  BY DEF Gossip, Lingerer
<1> QED BY <1>1, Lingers DEF Removed, Types

-----------------------------------------------------------------------------
(* The steps.                                                              *)

\* Where nobody is told to stop, only the cables and what counts them matter.
LEMMA CablesStep ==
    ASSUME IInv, cables' \subseteq CableOf(Said(quitting)),
           UNCHANGED <<loop, asked, quitting>>,
           known' \in [Node -> SUBSET Node], status' \in [Node -> StatusRec],
           forgotten' \in [Node -> SUBSET Node], lingering' \in [Node -> SUBSET Lingerer],
           locals' \in [Node -> {"on", "done", "none"}], faults' \in 0..MaxFaults,
           hung' \subseteq Node, stale' \subseteq Node, mates' \subseteq Node, dropped' \in BOOLEAN
    PROVE  IInv'
BY DEF IInv, Types, StopStaysLocal

LEMMA StartStep ==
    ASSUME IInv, NEW n \in Node, Start(n)
    PROVE  IInv'
<1>1. known[n] \in SUBSET Node /\ faults' \in 0..MaxFaults
  <2>1. faults \in 0..MaxFaults /\ MaxFaults \in Nat /\ faults < MaxFaults /\ faults' = faults + 1
    BY BoundAssumption DEF IInv, Types, Start
  <2> QED BY <2>1 DEF IInv, Types
<1>2. PICK ns : /\ ns = known[n] \cup {n} \cup Explicit[n] /\ known' = [known EXCEPT ![n] = ns]
               /\ Announce(n, LiveConnections(n, cables), ns)
  BY DEF Start
<1>8. ns \in SUBSET Node
  BY <1>1, <1>2, OptionAssumption
<1>5. status' \in [Node -> StatusRec] /\ stale' \subseteq Node
  BY <1>2, <1>8, AnnounceTypes DEF IInv
<1>6. known' \in [Node -> SUBSET Node] /\ forgotten' \in [Node -> SUBSET Node]
  BY <1>2, <1>8 DEF IInv, Types, Start
<1>3. Types'
  BY <1>1, <1>5, <1>6 DEF IInv, Types, Start
<1>4. StopStaysLocal'
  BY DEF IInv, Types, StopStaysLocal, Start
<1>7. UNCHANGED <<cables, quitting>>
  BY DEF Start
<1> QED BY <1>3, <1>4, <1>7 DEF IInv

\* The connections that stop() leaves in the event loop.
LEMMA LeftLingering ==
    ASSUME Types, NEW n \in Node, NEW quit, NEW W, NEW cs, cs \subseteq CableOf(W), StopWith(n, quit, cs)
    PROVE  /\ lingering' \in [Node -> SUBSET Lingerer]
           /\ faults' \in 0..MaxFaults
<1>1. PICK idle \in {{}, Idle(n, cs)}, g \in Calls(n) :
             /\ lingering' = [lingering EXCEPT ![n] = @ \cup idle \cup Relapsed(n, cs, g)]
             /\ faults' = faults + Cardinality(g)
  BY DEF StopWith
<1>2. faults' \in 0..MaxFaults /\ g \subseteq Node
  BY <1>1, Called DEF Types
<1>3. idle \subseteq Lingerer
  <2>1. Permanent(n) \subseteq Node
    BY DEF Permanent, Types
  <2>2. \A a \in Node : Waiting(a) \in Lingerer
    BY DEF Waiting, Lingerer
  <2> QED BY <2>1, <2>2 DEF Idle
<1>4. Relapsed(n, cs, g) \subseteq Lingerer
  <2>1. \A c \in cs : c.from \in Node
    BY DEF CableOf
  <2>2. \A a \in Node : Gossip(a) \in Lingerer
    BY DEF Gossip, Lingerer
  <2> QED BY <1>2, <2>1, <2>2 DEF Relapsed
<1> QED BY <1>1, <1>2, <1>3, <1>4 DEF Types

\* stop(), for a reason that is known.
LEMMA StopWithStep ==
    ASSUME IInv, NEW n \in Node, NEW quit \in BOOLEAN, NEW cs, StopWith(n, quit, cs),
           cs \subseteq CableOf(Said(quitting)),
           quitting' \in BOOLEAN, quitting \/ quit => quitting',
           asked' \subseteq Node, asked \subseteq asked', n \in asked' \/ quitting',
           mates' \subseteq Node, dropped' \in BOOLEAN
    PROVE  IInv'
<1>t. quitting \in BOOLEAN
  BY DEF IInv, Types
<1>1. cs \subseteq CableOf(Said(quitting'))
  <2>1. Said(quitting) \subseteq Said(quitting')
    BY <1>t DEF Said
  <2> QED BY <2>1, MoreWords
<1>2. PartingWord(quit) \in Said(quitting')
  BY SaidWords DEF PartingWord
<1>3. cables' \subseteq CableOf(Said(quitting'))
  BY <1>1, <1>2, PartingWords DEF StopWith
<1>4. loop' = [loop EXCEPT ![n] = "stopping"] /\ UNCHANGED <<known, forgotten, status>>
      /\ hung' = hung \ {n} /\ stale' = stale \ {n}
  BY DEF StopWith
<1>8. lingering' \in [Node -> SUBSET Lingerer] /\ faults' \in 0..MaxFaults
  BY LeftLingering DEF IInv
<1>5. locals' \in [Node -> {"on", "done", "none"}]
  <2>1. PICK l \in PartLocals(locals[n]) : locals' = [locals EXCEPT ![n] = l]
    BY DEF StopWith
  <2>2. l \in {"on", "done", "none"}
    BY DEF PartLocals, IInv, Types
  <2> QED BY <2>1, <2>2 DEF IInv, Types
<1>6. Types'
  BY <1>4, <1>5, <1>8 DEF IInv, Types
<1>7. StopStaysLocal'
  BY <1>4, <1>t DEF IInv, Types, StopStaysLocal
<1> QED BY <1>3, <1>6, <1>7 DEF IInv

LEMMA StopStep ==
    ASSUME IInv, NEW n \in Node, NEW quit \in BOOLEAN, Stop(n, quit)
    PROVE  IInv'
<1>1. /\ StopWith(n, quit, cables) /\ asked' = asked \cup {n} /\ quitting' = (quitting \/ quit)
      /\ mates' = (IF quit THEN mates \cup {a \in Linked(n) : loop[a] = "run"} ELSE mates) \ {n}
      /\ dropped' = dropped /\ dropped \in BOOLEAN /\ cables \subseteq CableOf(Said(quitting))
      /\ asked \subseteq Node /\ mates \subseteq Node /\ quitting \in BOOLEAN
  BY DEF Stop, IInv, Types
<1>2. Linked(n) \subseteq Node
  <2>1. \A c \in cables : c.from \in Node /\ c.to \in Node
    BY <1>1 DEF CableOf
  <2> QED BY <2>1 DEF Linked, Peers, Ends
<1> QED BY <1>1, <1>2, StopWithStep

LEMMA ReadShutdownStep ==
    ASSUME IInv, NEW n \in Node, NEW c \in cables, ReadShutdown(n, c)
    PROVE  IInv'
<1>1. /\ Inbox(n, c) # <<>> /\ Head(Inbox(n, c)) = "SHUTDOWN"
      /\ StopWith(n, TRUE, Swap(c, TakeOne(n, c)))
      /\ mates' = mates \ {n} /\ UNCHANGED <<asked, quitting, dropped>>
  BY DEF ReadShutdown, Reads
<1>2. /\ cables \subseteq CableOf(Said(quitting)) /\ c \in CableOf(Said(quitting))
      /\ quitting \in BOOLEAN /\ asked \subseteq Node /\ mates \subseteq Node /\ dropped \in BOOLEAN
  BY DEF IInv, Types
<1>3. TakeOne(n, c) \in CableOf(Said(quitting)) /\ "SHUTDOWN" \in Said(quitting)
  BY <1>1, <1>2, Taken
<1>4. quitting
  BY <1>2, <1>3, SaidWords
<1>5. Swap(c, TakeOne(n, c)) \subseteq CableOf(Said(quitting))
  BY <1>2, <1>3, Swapped
<1> QED BY <1>1, <1>2, <1>4, <1>5, StopWithStep

\* A parting word that was not written is lost with its connection.
LEMMA Unwritten ==
    ASSUME NEW W, NEW q \in Seq(W)
    PROVE  q # <<>> => SubSeq(q, 1, Len(q) - 1) \in Seq(W)
BY SubSeqProperties

LEMMA ShuttingDownStep ==
    ASSUME IInv, NEW n \in Node, NEW c \in cables, ShuttingDown(n, c)
    PROVE  IInv'
<1> DEFINE rest(q) == IF q # <<>> /\ q[Len(q)] \in {"DISCONNECT", "SHUTDOWN"}
                      THEN SubSeq(q, 1, Len(q) - 1) ELSE q
           W == Said(quitting)
<1>1. /\ cables \subseteq CableOf(W) /\ c \in CableOf(W) /\ "QUITTING" \in W
  BY SaidWords DEF IInv, Types
<1>2. rest(c.toQ) \in Seq(W) /\ rest(c.fromQ) \in Seq(W)
  <2>1. c.toQ \in Seq(W) /\ c.fromQ \in Seq(W)
    BY <1>1 DEF CableOf
  <2> QED BY <2>1, Unwritten
<1> HIDE DEF rest, W
<1>3. [c EXCEPT !.fromQ = rest(@)] \in CableOf(W) /\ [c EXCEPT !.toQ = rest(@)] \in CableOf(W)
  BY <1>1, <1>2 DEF CableOf
<1>4. SendFrom(c, "QUITTING") \in CableOf(W) /\ SendTo(c, "QUITTING") \in CableOf(W)
  BY <1>1, Sent
<1>5. PICK d \in CableOf(W) : cables' = Swap(c, CloseEnd(n, d))
  <2>1. CASE cables' = Swap(c, CloseEnd(n, IF c.to = n THEN SendFrom(c, "QUITTING")
                                           ELSE SendTo(c, "QUITTING")))
    BY <1>4, <2>1
  <2>2. CASE cables' = Swap(c, CloseEnd(n, IF c.to = n THEN [c EXCEPT !.fromQ = rest(@)]
                                           ELSE [c EXCEPT !.toQ = rest(@)]))
    BY <1>3, <2>2
  <2> QED BY <2>1, <2>2 DEF ShuttingDown, rest
<1>6. CloseEnd(n, d) \in CableOf(W)
  BY Closed
<1>7. cables' \subseteq CableOf(W)
  BY <1>1, <1>5, <1>6, Swapped
<1>8. /\ UNCHANGED <<loop, known, forgotten, status, locals, faults, hung, stale, asked, quitting, mates>>
      /\ dropped' \in BOOLEAN /\ lingering' = Removed(n, c)
  BY DEF ShuttingDown, IInv, Types
<1>9. lingering' \in [Node -> SUBSET Lingerer]
  BY <1>1, <1>8, RemovedLingers DEF IInv, CableOf
<1> QED BY <1>7, <1>8, <1>9, CablesStep DEF IInv, Types, W

\* Handlers that change one cable and what follows from it.
LEMMA HandlerStep ==
    ASSUME IInv, NEW n \in Node, NEW c \in cables,
           \/ ReadQuitting(n, c) \/ AcceptConnect(n, c) \/ RefuseConnect(n, c)
           \/ ReadAccept(n, c) \/ ReadRefuse(n, c) \/ ReadDisconnect(n, c)
           \/ IgnoreDisconnect(n, c) \/ HangUp(n, c) \/ Drained(n, c)
    PROVE  IInv'
<1>w. PICK W : W = Said(quitting)
  OBVIOUS
<1>1. /\ cables \subseteq CableOf(W) /\ c \in CableOf(W) /\ Types
      /\ {"ACCEPT", "REFUSE"} \subseteq W
      /\ c.from \in Node /\ c.to \in Node
  BY <1>w, SaidWords DEF IInv, Types, CableOf
<1>2. CASE \/ ReadQuitting(n, c) \/ IgnoreDisconnect(n, c)
  <2>1. TakeOne(n, c) \in CableOf(W)
    BY <1>1, <1>2, Taken DEF ReadQuitting, IgnoreDisconnect, Reads
  <2>2. Swap(c, TakeOne(n, c)) \subseteq CableOf(W)
    BY <1>1, <2>1, Swapped
  <2> QED BY <1>1, <1>2, <1>w, <2>2, CablesStep DEF ReadQuitting, IgnoreDisconnect, Types
<1>3. CASE ReadAccept(n, c)
  <2>1. TakeOne(n, c) \in CableOf(W)
    BY <1>1, <1>3, Taken DEF ReadAccept, Reads
  <2>2. Swap(c, TakeOne(n, c)) \subseteq CableOf(W)
    BY <1>1, <2>1, Swapped
  <2>3. known' \in [Node -> SUBSET Node]
    BY <1>1, <1>3, OptionAssumption DEF ReadAccept, Types
  <2> QED BY <1>1, <1>3, <1>w, <2>2, <2>3, CablesStep DEF ReadAccept, Types
<1>4. CASE AcceptConnect(n, c)
  <2>1. PICK ns, d : /\ ns = known[n] \cup {c.from} \cup Explicit[c.from]
                     /\ d = SendFrom([TakeOne(n, c) EXCEPT !.as = "remote"], "ACCEPT")
    OBVIOUS
  <2>2. TakeOne(n, c) \in CableOf(W)
    BY <1>1, <1>4, Taken DEF AcceptConnect, Reads
  <2>3. [TakeOne(n, c) EXCEPT !.as = "remote"] \in CableOf(W)
    BY <2>2, Renamed
  <2>4. d \in CableOf(W)
    BY <1>1, <2>1, <2>3, Sent
  <2>5. Swap(c, d) \subseteq CableOf(W)
    BY <1>1, <2>4, Swapped
  <2>6. ns \in SUBSET Node
    BY <1>1, <2>1, OptionAssumption DEF Types
  <2>7. /\ cables' = Swap(c, d) /\ known' = [known EXCEPT ![n] = ns]
        /\ Evaluate(n, Swap(c, d), ns)
        /\ UNCHANGED <<loop, forgotten, locals, lingering, asked, quitting, mates, dropped>>
    BY <1>4, <2>1 DEF AcceptConnect
  <2>8. /\ status' \in [Node -> StatusRec] /\ stale' \subseteq Node
        /\ hung' \subseteq Node /\ faults' \in 0..MaxFaults
    BY <1>1, <2>6, <2>7, Evaluated
  <2>9. known' \in [Node -> SUBSET Node]
    BY <1>1, <2>6, <2>7 DEF Types
  <2> QED BY <1>1, <1>w, <2>5, <2>7, <2>8, <2>9, CablesStep DEF Types
<1>5. CASE RefuseConnect(n, c)
  <2>1. PICK d : d = SendFrom([TakeOne(n, c) EXCEPT !.as = "refused"], "REFUSE")
    OBVIOUS
  <2>2. TakeOne(n, c) \in CableOf(W)
    BY <1>1, <1>5, Taken DEF RefuseConnect, Reads
  <2>3. [TakeOne(n, c) EXCEPT !.as = "refused"] \in CableOf(W)
    BY <2>2, Renamed
  <2>4. d \in CableOf(W)
    BY <1>1, <2>1, <2>3, Sent
  <2>5. Swap(c, d) \subseteq CableOf(W)
    BY <1>1, <2>4, Swapped
  <2>6. faults' \in 0..MaxFaults
    <3>1. faults' = faults \/ (faults < MaxFaults /\ faults' = faults + 1)
      BY <1>5 DEF RefuseConnect
    <3> QED BY <1>1, <3>1, BoundAssumption DEF Types
  <2> QED BY <1>1, <1>5, <1>w, <2>1, <2>5, <2>6, CablesStep DEF RefuseConnect, Types
<1>6. CASE ReadRefuse(n, c)
  <2>1. CloseFrom(c) \in CableOf(W)
    BY <1>1, Closed
  <2>2. Swap(c, CloseFrom(c)) \subseteq CableOf(W)
    BY <1>1, <2>1, Swapped
  <2> QED BY <1>1, <1>6, <1>w, <2>2, CablesStep DEF ReadRefuse, Types
<1>7. CASE ReadDisconnect(n, c) \/ HangUp(n, c) \/ Drained(n, c)
  <2>1. CloseEnd(n, c) \in CableOf(W)
    BY <1>1, Closed
  <2>2. PICK cs : cs = Swap(c, CloseEnd(n, c))
    OBVIOUS
  <2>3. cs \subseteq CableOf(W)
    BY <1>1, <2>1, <2>2, Swapped
  <2>4. CASE ReadDisconnect(n, c)
    <3>1. cables' = cs /\ Evaluate(n, cs, known[n]) /\ known[n] \in SUBSET Node
      BY <1>1, <2>2, <2>4 DEF ReadDisconnect, Types
    <3>2. /\ status' \in [Node -> StatusRec] /\ stale' \subseteq Node
          /\ hung' \subseteq Node /\ faults' \in 0..MaxFaults
      BY <1>1, <3>1, Evaluated
    <3> QED BY <1>1, <1>w, <2>3, <2>4, <3>1, <3>2, CablesStep DEF ReadDisconnect, Types
  <2>5. CASE HangUp(n, c)
    <3>1. Waiting(c.to) \in Lingerer
      BY <1>1 DEF Waiting, Lingerer
    <3>2. lingering' \in {lingering, Removed(n, c), Linger(n, Waiting(c.to))}
      BY <2>5 DEF HangUp
    <3>3. lingering' \in [Node -> SUBSET Lingerer]
      BY <1>1, <3>1, <3>2, Lingers, RemovedLingers DEF Types
    <3>4. hung' \subseteq Node
      BY <1>1, <2>5 DEF HangUp, Types
    <3> QED BY <1>1, <1>w, <2>2, <2>3, <2>5, <3>3, <3>4, CablesStep DEF HangUp, Types
  <2>6. CASE Drained(n, c)
    <3>1. lingering' \in [Node -> SUBSET Lingerer]
      BY <1>1, <2>6, RemovedLingers DEF Drained
    <3> QED BY <1>1, <1>w, <2>2, <2>3, <2>6, <3>1, CablesStep DEF Drained, Types
  <2> QED BY <1>7, <2>4, <2>5, <2>6
<1> QED BY <1>2, <1>3, <1>4, <1>5, <1>6, <1>7

LEMMA DialStep ==
    ASSUME IInv, NEW n \in Node, NEW a \in Node, Dial(n, a)
    PROVE  IInv'
<1>w. PICK W : W = Said(quitting)
  OBVIOUS
<1>1. "CONNECT" \in W /\ Types /\ cables \subseteq CableOf(W)
  BY <1>w, SaidWords DEF IInv, Types
<1>2. PICK i : i \in Free(n, a) /\ i = CHOOSE k \in Free(n, a) : TRUE
  BY DEF Dial
<1>3. i \in Nat
  BY <1>2, BoundAssumption DEF Free
<1>4. PICK c : c = [from |-> n, to |-> a, id |-> i, fromUp |-> TRUE, toUp |-> TRUE,
                    whole |-> TRUE, as |-> "new", toQ |-> <<"CONNECT">>, fromQ |-> <<>>]
  OBVIOUS
<1>5. c \in CableOf(W)
  BY <1>1, <1>3, <1>4 DEF CableOf, Dial, Permanent
<1>6. cables' = cables \cup {c}
  BY <1>2, <1>4 DEF Dial
<1> QED BY <1>1, <1>5, <1>6, <1>w, CablesStep DEF Dial, Types

LEMMA CutStep ==
    ASSUME IInv, NEW c \in cables, Cut(c)
    PROVE  IInv'
<1>w. PICK W : W = Said(quitting)
  OBVIOUS
<1>1. Types /\ cables \subseteq CableOf(W) /\ c \in CableOf(W)
  BY <1>w DEF IInv
<1>2. PICK d : d = [c EXCEPT !.whole = FALSE, !.toQ = <<>>, !.fromQ = <<>>]
  OBVIOUS
<1>3. d \in CableOf(W)
  BY <1>1, <1>2, Broken, Zenon
<1>4. Swap(c, d) \subseteq CableOf(W)
  BY <1>1, <1>3, Swapped
<1>5. faults' \in 0..MaxFaults
  <2>1. faults \in 0..MaxFaults /\ MaxFaults \in Nat /\ faults < MaxFaults /\ faults' = faults + 1
    BY <1>1, BoundAssumption DEF Types, Cut
  <2> QED BY <2>1
<1>6. dropped' \in BOOLEAN
  BY DEF Cut
<1> QED BY <1>1, <1>2, <1>4, <1>5, <1>6, <1>w, CablesStep DEF Cut, Types

LEMMA LocalsDrainedStep ==
    ASSUME IInv, NEW n \in Node, LocalsDrained(n)
    PROVE  IInv'
BY CablesStep DEF LocalsDrained, IInv, Types

LEMMA LoopEndsStep ==
    ASSUME IInv, NEW n \in Node, LoopEnds(n)
    PROVE  IInv'
<1>1. /\ loop[n] = "stopping" /\ loop' = [loop EXCEPT ![n] = "ended"]
      /\ UNCHANGED <<known, forgotten, cables, status, locals, lingering, faults, hung, stale,
                     asked, quitting, mates, dropped>>
  BY DEF LoopEnds
<1>2. Types'
  BY <1>1 DEF IInv, Types
<1>3. StopStaysLocal'
  BY <1>1 DEF IInv, Types, StopStaysLocal
<1> QED BY <1>1, <1>2, <1>3 DEF IInv

\* Neighbors that come.
LEMMA LearnStep ==
    ASSUME IInv, NEW n \in Node, NEW a \in Node, Gossips(n, a) \/ LastGossip(n, a)
    PROVE  IInv'
<1>1. Learn(a, n) /\ UNCHANGED <<loop, forgotten, cables, status, locals, faults, hung,
                                 asked, quitting, mates, dropped>>
  BY DEF Gossips, LastGossip
<1>2. known' \in [Node -> SUBSET Node] /\ stale' \subseteq Node
  BY <1>1 DEF Learn, IInv, Types
<1>3. lingering' \in [Node -> SUBSET Lingerer]
  BY DEF Gossips, LastGossip, IInv, Types
<1> QED BY <1>1, <1>2, <1>3, CablesStep DEF IInv, Types

\* Neighbors that go.
LEMMA ForgetStep ==
    ASSUME IInv, NEW n \in Node, NEW a \in Node, Forget(n, a)
    PROVE  IInv'
<1>1. cables' \subseteq CableOf(Said(quitting)) /\ dropped' \in BOOLEAN
  <2>1. CASE UNCHANGED <<cables, dropped>>
    BY <2>1 DEF IInv, Types
  <2>2. ASSUME NEW c \in cables, cables' = Swap(c, CloseFrom(c)), dropped' = (dropped \/ Tells(c.fromQ))
        PROVE  cables' \subseteq CableOf(Said(quitting)) /\ dropped' \in BOOLEAN
    <3>1. CloseFrom(c) \in CableOf(Said(quitting))
      BY Closed DEF IInv
    <3> QED BY <2>2, <3>1, Swapped DEF IInv, Types
  <2> QED BY <2>1, <2>2 DEF Forget
<1>2. known' \in [Node -> SUBSET Node] /\ forgotten' \in [Node -> SUBSET Node] /\ stale' \subseteq Node
  BY DEF Forget, IInv, Types
<1>3. lingering' \in [Node -> SUBSET Lingerer]
  <2>1. Stray(a) \in Lingerer
    BY DEF Stray, Lingerer
  <2>2. lingering' = lingering \/ lingering' = Linger(n, Stray(a))
    BY DEF Forget
  <2> QED BY <2>1, <2>2, Lingers DEF IInv, Types
<1>4. faults' \in 0..MaxFaults
  <2>1. faults \in 0..MaxFaults /\ MaxFaults \in Nat /\ faults < MaxFaults /\ faults' = faults + 1
    BY BoundAssumption DEF IInv, Types, Forget
  <2> QED BY <2>1
<1>5. UNCHANGED <<loop, status, locals, hung, asked, quitting, mates>>
  BY DEF Forget
<1> QED BY <1>1, <1>2, <1>3, <1>4, <1>5, CablesStep DEF IInv, Types

-----------------------------------------------------------------------------
(* The invariant and the theorems.                                         *)

LEMMA Initially == Init => IInv
<1> SUFFICES ASSUME Init PROVE IInv
  OBVIOUS
<1>1. \A n \in Node : {n} \cup Explicit[n] \in SUBSET Node
  BY OptionAssumption
<1>2. \A n \in Node : StatusOf(1, AtLeastOne(Cardinality({n} \cup Explicit[n]))) \in StatusRec
  BY <1>1, Counted DEF StatusOf, StatusRec
<1>3. Types
  <2>1. /\ known \in [Node -> SUBSET Node] /\ forgotten \in [Node -> SUBSET Node]
        /\ lingering \in [Node -> SUBSET Lingerer]
    BY <1>1 DEF Init
  <2>2. status \in [Node -> StatusRec]
    BY <1>2 DEF Init
  <2>3. /\ loop \in [Node -> {"run", "stopping", "ended"}]
        /\ locals \in [Node -> {"on", "done", "none"}]
    BY DEF Init
  <2>4. faults \in 0..MaxFaults
    BY BoundAssumption DEF Init
  <2> QED BY <2>1, <2>2, <2>3, <2>4 DEF Init, Types
<1>4. StopStaysLocal
  BY DEF Init, StopStaysLocal
<1> QED BY <1>3, <1>4 DEF IInv, Init

LEMMA Inductive == IInv /\ [Next]_vars => IInv'
<1> SUFFICES ASSUME IInv, [Next]_vars PROVE IInv'
  OBVIOUS
<1>1. ASSUME NEW n \in Node, Start(n) \/ LocalsDrained(n) \/ LoopEnds(n) PROVE IInv'
  BY <1>1, StartStep, LocalsDrainedStep, LoopEndsStep
<1>2. ASSUME NEW n \in Node, NEW quit \in BOOLEAN, Stop(n, quit) PROVE IInv'
  BY <1>2, StopStep
<1>3. ASSUME NEW n \in Node, NEW a \in Node,
             Dial(n, a) \/ Gossips(n, a) \/ LastGossip(n, a) \/ Forget(n, a)
      PROVE  IInv'
  BY <1>3, DialStep, LearnStep, ForgetStep
<1>4. ASSUME NEW c \in cables, Cut(c) PROVE IInv'
  BY <1>4, CutStep
<1>5. ASSUME NEW n \in Node, NEW c \in Ends(n, cables), Handle(n, c) \/ Drained(n, c)
      PROVE  IInv'
  <2>1. c \in cables
    BY DEF Ends
  <2> QED BY <1>5, <2>1, ShuttingDownStep, ReadShutdownStep, HandlerStep DEF Handle
<1>6. CASE UNCHANGED vars
  BY <1>6, CablesStep DEF vars, IInv, Types
<1> QED BY <1>1, <1>2, <1>3, <1>4, <1>5, <1>6 DEF Next

LEMMA Invariance == Spec => []IInv
BY Initially, Inductive, PTL DEF Spec

\* The types; a cable always has its larger computer at the end that connected.
THEOREM TypeCorrect == Spec => []TypeOK
<1>1. ASSUME IInv PROVE TypeOK
  <2>1. CableOf(Said(quitting)) \subseteq CableOf(Word)
    BY <1>1, SaidWords, MoreWords DEF IInv, Types
  <2>2. cables \subseteq Cable /\ \A c \in cables : c.to < c.from
    BY <1>1, <2>1 DEF IInv, CableOf, Cable
  <2>3. \A n \in Node : status[n].total \in Nat
    BY <1>1 DEF IInv, Types, StatusRec
  <2> QED BY <1>1, <2>2, <2>3 DEF IInv, Types, TypeOK
<1> QED BY <1>1, Invariance, PTL

\* Unless somebody asks for SHUTDOWN, no daemon stops that was not told to by its
\* user or a local service: stopping others, hang ups and restarts stop nobody.
THEOREM OnlyTheAsked == Spec => []StopStaysLocal
<1>1. IInv => StopStaysLocal
  BY DEF IInv
<1> QED BY <1>1, Invariance, PTL

-----------------------------------------------------------------------------
(* The fields of a cable that is changed.                                   *)

ACable == CableOf(Word)

\* Only messages are different.
Alike(d, c) == /\ d.from = c.from /\ d.to = c.to /\ d.id = c.id /\ d.as = c.as
               /\ d.fromUp = c.fromUp /\ d.toUp = c.toUp

LEMMA AllCables == ASSUME IInv PROVE cables \subseteq ACable
<1>1. CableOf(Said(quitting)) \subseteq CableOf(Word)
  BY SaidWords, MoreWords DEF IInv, Types
<1> QED BY <1>1 DEF IInv, ACable

LEMMA CableFields ==
    ASSUME NEW c \in ACable
    PROVE  /\ c.from \in Node /\ c.to \in Node /\ c.from # c.to /\ c.to < c.from
           /\ c.from \in Nat /\ c.to \in Nat
           /\ c.fromUp \in BOOLEAN /\ c.toUp \in BOOLEAN
           /\ c.toQ \in Seq(Word) /\ c.fromQ \in Seq(Word)
<1>1. c.from \in Node /\ c.to \in Node /\ c.to < c.from
  BY DEF ACable, CableOf
<1>2. c.from \in Nat /\ c.to \in Nat
  BY <1>1, NodeAssumption
<1> QED BY <1>1, <1>2 DEF ACable, CableOf

LEMMA TakenFields ==
    ASSUME NEW c \in ACable, NEW n
    PROVE  /\ Alike(TakeOne(n, c), c)
           /\ TakeOne(n, c).toQ = IF c.to = n THEN Tail(c.toQ) ELSE c.toQ
           /\ TakeOne(n, c).fromQ = IF c.to = n THEN c.fromQ ELSE Tail(c.fromQ)
BY DEF ACable, CableOf, TakeOne, Alike

LEMMA SentFields ==
    ASSUME NEW c \in ACable, NEW m
    PROVE  /\ Alike(SendTo(c, m), c) /\ SendTo(c, m).fromQ = c.fromQ
           /\ SendTo(c, m).toQ = IF c.whole /\ c.toUp THEN Append(c.toQ, m) ELSE c.toQ
           /\ Alike(SendFrom(c, m), c) /\ SendFrom(c, m).toQ = c.toQ
           /\ SendFrom(c, m).fromQ = IF c.whole /\ c.fromUp THEN Append(c.fromQ, m) ELSE c.fromQ
BY DEF ACable, CableOf, SendTo, SendFrom, Alike

LEMMA ClosedFields ==
    ASSUME NEW c \in ACable
    PROVE  /\ CloseTo(c).from = c.from /\ CloseTo(c).to = c.to /\ CloseTo(c).id = c.id /\ CloseTo(c).as = c.as
           /\ CloseTo(c).fromUp = c.fromUp /\ CloseTo(c).toUp = FALSE
           /\ CloseTo(c).fromQ = c.fromQ /\ CloseTo(c).toQ = <<>>
           /\ CloseFrom(c).from = c.from /\ CloseFrom(c).to = c.to /\ CloseFrom(c).id = c.id /\ CloseFrom(c).as = c.as
           /\ CloseFrom(c).toUp = c.toUp /\ CloseFrom(c).fromUp = FALSE
           /\ CloseFrom(c).toQ = c.toQ /\ CloseFrom(c).fromQ = <<>>
<1>1. /\ CloseTo(c).from = c.from /\ CloseTo(c).to = c.to /\ CloseTo(c).id = c.id /\ CloseTo(c).as = c.as
      /\ CloseTo(c).fromUp = c.fromUp /\ CloseTo(c).toUp = FALSE
      /\ CloseTo(c).fromQ = c.fromQ /\ CloseTo(c).toQ = <<>>
  <2>1. PICK d : d = [c EXCEPT !.toUp = FALSE]
    OBVIOUS
  <2>2. d \in ACable /\ d.from = c.from /\ d.to = c.to /\ d.id = c.id /\ d.as = c.as /\ d.fromUp = c.fromUp
        /\ d.toUp = FALSE /\ d.fromQ = c.fromQ
    BY <2>1 DEF ACable, CableOf
  <2>3. CloseTo(c) = [d EXCEPT !.toQ = <<>>]
    BY <2>1 DEF CloseTo
  <2> QED BY <2>2, <2>3 DEF ACable, CableOf
<1>2. /\ CloseFrom(c).from = c.from /\ CloseFrom(c).to = c.to /\ CloseFrom(c).id = c.id /\ CloseFrom(c).as = c.as
      /\ CloseFrom(c).toUp = c.toUp /\ CloseFrom(c).fromUp = FALSE
      /\ CloseFrom(c).toQ = c.toQ /\ CloseFrom(c).fromQ = <<>>
  <2>1. PICK d : d = [c EXCEPT !.fromUp = FALSE]
    OBVIOUS
  <2>2. d \in ACable /\ d.from = c.from /\ d.to = c.to /\ d.id = c.id /\ d.as = c.as /\ d.toUp = c.toUp
        /\ d.fromUp = FALSE /\ d.toQ = c.toQ
    BY <2>1 DEF ACable, CableOf
  <2>3. CloseFrom(c) = [d EXCEPT !.fromQ = <<>>]
    BY <2>1 DEF CloseFrom
  <2> QED BY <2>2, <2>3 DEF ACable, CableOf
<1> QED BY <1>1, <1>2

LEMMA CutFields ==
    ASSUME NEW c \in ACable
    PROVE  \E d : /\ d = [c EXCEPT !.whole = FALSE, !.toQ = <<>>, !.fromQ = <<>>]
                  /\ Alike(d, c) /\ d.toQ = <<>> /\ d.fromQ = <<>>
<1>1. PICK d : d = [c EXCEPT !.whole = FALSE]
  OBVIOUS
<1>2. d \in ACable /\ Alike(d, c)
  BY <1>1 DEF ACable, CableOf, Alike
<1>3. PICK e : e = [d EXCEPT !.toQ = <<>>]
  OBVIOUS
<1>4. e \in ACable /\ Alike(e, c) /\ e.toQ = <<>>
  <2>1. <<>> \in Seq(Word)
    OBVIOUS
  <2> QED BY <1>2, <1>3, <2>1 DEF ACable, CableOf, Alike
<1>5. PICK f : f = [e EXCEPT !.fromQ = <<>>]
  OBVIOUS
<1>6. Alike(f, c) /\ f.toQ = <<>> /\ f.fromQ = <<>>
  BY <1>4, <1>5 DEF ACable, CableOf, Alike
<1> QED BY <1>1, <1>3, <1>5, <1>6

-----------------------------------------------------------------------------
(* What is in a queue.                                                      *)

Has(q, m) == \E i \in DOMAIN q : q[i] = m

LEMMA HasNothing == \A m : ~Has(<<>>, m)
BY DEF Has

LEMMA HasAppended ==
    ASSUME NEW q \in Seq(Word), NEW w \in Word, NEW m
    PROVE  Has(Append(q, w), m) <=> Has(q, m) \/ w = m
<1>1. ASSUME Has(q, m) PROVE Has(Append(q, w), m)
  <2>1. PICK i \in 1..Len(q) : q[i] = m
    BY <1>1 DEF Has
  <2>2. i \in 1..Len(Append(q, w)) /\ Append(q, w)[i] = m
    BY <2>1
  <2> QED BY <2>2 DEF Has
<1>2. ASSUME w = m PROVE Has(Append(q, w), m)
  <2>1. Len(q) + 1 \in 1..Len(Append(q, w)) /\ Append(q, w)[Len(q) + 1] = m
    BY <1>2
  <2> QED BY <2>1 DEF Has
<1>3. ASSUME Has(Append(q, w), m) PROVE Has(q, m) \/ w = m
  <2>1. PICK i \in 1..(Len(q) + 1) : Append(q, w)[i] = m
    BY <1>3 DEF Has
  <2>2. CASE i = Len(q) + 1
    BY <2>1, <2>2
  <2>3. CASE i \in 1..Len(q)
    <3>1. q[i] = m
      BY <2>1, <2>3
    <3> QED BY <2>3, <3>1 DEF Has
  <2> QED BY <2>2, <2>3
<1> QED BY <1>1, <1>2, <1>3

LEMMA HasTail ==
    ASSUME NEW q \in Seq(Word), q # <<>>, NEW m
    PROVE  Has(q, m) <=> Has(Tail(q), m) \/ Head(q) = m
<1>1. ASSUME Has(Tail(q), m) PROVE Has(q, m)
  <2>1. PICK i \in 1..(Len(q) - 1) : Tail(q)[i] = m
    BY <1>1 DEF Has
  <2>2. i + 1 \in 1..Len(q) /\ q[i + 1] = m
    BY <2>1
  <2> QED BY <2>2 DEF Has
<1>2. ASSUME Head(q) = m PROVE Has(q, m)
  <2>1. 1 \in 1..Len(q) /\ q[1] = m
    BY <1>2
  <2> QED BY <2>1 DEF Has
<1>3. ASSUME Has(q, m) PROVE Has(Tail(q), m) \/ Head(q) = m
  <2>1. PICK i \in 1..Len(q) : q[i] = m
    BY <1>3 DEF Has
  <2>2. CASE i = 1
    BY <2>1, <2>2
  <2>3. CASE i # 1
    <3>1. i - 1 \in 1..Len(Tail(q)) /\ Tail(q)[i - 1] = m
      BY <2>1, <2>3
    <3>2. DOMAIN Tail(q) = 1..Len(Tail(q))
      BY HeadTailProperties
    <3> QED BY <3>1, <3>2 DEF Has
  <2> QED BY <2>2, <2>3
<1> QED BY <1>1, <1>2, <1>3

LEMMA Fronts ==
    ASSUME NEW q \in Seq(Word), q # <<>>, NEW f, f = SubSeq(q, 1, Len(q) - 1)
    PROVE  f \in Seq(Word) /\ Len(f) = Len(q) - 1 /\ Len(q) \in Nat
           /\ \A i \in 1..Len(f) : f[i] = q[i]
<1>1. Len(q) \in Nat /\ Len(q) > 0
  OBVIOUS
<1>2. PICK k : k = Len(q) - 1
  OBVIOUS
<1>3. k \in Nat /\ k <= Len(q)
  BY <1>1, <1>2
<1>4. \A i \in 1..k : q[i] \in Word
  BY <1>1, <1>3
<1>5. f \in Seq(Word) /\ Len(f) = k /\ \A i \in 1..k : f[i] = q[i]
  BY <1>1, <1>2, <1>3, <1>4, SubSeqProperties
<1> QED BY <1>1, <1>2, <1>5

LEMMA HasFront ==
    ASSUME NEW q \in Seq(Word), q # <<>>, NEW m, Has(SubSeq(q, 1, Len(q) - 1), m)
    PROVE  Has(q, m)
<1>1. PICK f : f = SubSeq(q, 1, Len(q) - 1)
  OBVIOUS
<1>2. f \in Seq(Word) /\ Len(f) = Len(q) - 1 /\ Len(q) \in Nat /\ \A i \in 1..Len(f) : f[i] = q[i]
  BY <1>1, Fronts
<1>3. PICK i \in 1..Len(f) : f[i] = m
  <2>1. Has(f, m) /\ DOMAIN f = 1..Len(f)
    BY <1>1, <1>2
  <2> QED BY <2>1 DEF Has
<1>4. i \in 1..Len(q) /\ q[i] = m
  BY <1>2, <1>3
<1> QED BY <1>4 DEF Has

\* A CONNECT is the first message of a connection that has no type yet.
ConnectFirst(q, as) == \A i \in DOMAIN q : q[i] = "CONNECT" => i = 1 /\ as = "new"

LEMMA FirstTail ==
    ASSUME NEW q \in Seq(Word), q # <<>>, NEW as, ConnectFirst(q, as)
    PROVE  \A any : ConnectFirst(Tail(q), any)
<1> SUFFICES ASSUME NEW i \in 1..(Len(q) - 1), Tail(q)[i] = "CONNECT" PROVE FALSE
  BY DEF ConnectFirst
<1>1. PICK j : j = i + 1
  OBVIOUS
<1>2. j \in DOMAIN q /\ q[j] = "CONNECT" /\ j # 1
  BY <1>1
<1> QED BY <1>2 DEF ConnectFirst

LEMMA FirstAppended ==
    ASSUME NEW q \in Seq(Word), NEW as, ConnectFirst(q, as), NEW w \in Word, w # "CONNECT"
    PROVE  ConnectFirst(Append(q, w), as)
<1>1. DOMAIN Append(q, w) = 1..(Len(q) + 1)
  BY AppendProperties
<1>2. ASSUME NEW i \in 1..(Len(q) + 1), Append(q, w)[i] = "CONNECT" PROVE i = 1 /\ as = "new"
  <2>1. i # Len(q) + 1
    BY <1>2
  <2>2. i \in 1..Len(q)
    BY <2>1
  <2>3. q[i] = "CONNECT" /\ i \in DOMAIN q
    BY <1>2, <2>2
  <2> QED BY <2>3 DEF ConnectFirst
<1> QED BY <1>1, <1>2 DEF ConnectFirst

LEMMA FirstFront ==
    ASSUME NEW q \in Seq(Word), q # <<>>, NEW as, ConnectFirst(q, as)
    PROVE  ConnectFirst(SubSeq(q, 1, Len(q) - 1), as)
<1>1. PICK f : f = SubSeq(q, 1, Len(q) - 1)
  OBVIOUS
<1>2. f \in Seq(Word) /\ Len(f) = Len(q) - 1 /\ Len(q) \in Nat /\ \A i \in 1..Len(f) : f[i] = q[i]
  BY <1>1, Fronts
<1>3. DOMAIN f = 1..Len(f) /\ DOMAIN q = 1..Len(q) /\ \A i \in 1..Len(f) : i \in 1..Len(q)
  BY <1>2
<1>4. ConnectFirst(f, as)
  BY <1>2, <1>3 DEF ConnectFirst
<1> QED BY <1>1, <1>4

-----------------------------------------------------------------------------
(* What a daemon that only accepts connections has announced.               *)

\* A daemon knows who it connects to.
KnownOK == \A c \in cables : c.fromUp => c.to \in known[c.from]

\* It accepts one connection at a time from each computer, and has one to each.
Accepted(c, d) == /\ c.to = d.to /\ c.from = d.from
                  /\ \/ c.toUp /\ d.toUp /\ c.as = "remote" /\ d.as = "remote"
                     \/ c.fromUp /\ d.fromUp
NamesUnique(cs) == \A c, d \in cs : Accepted(c, d) => c = d

\* The parts of AcceptorStatus.
Acceptor(n, cs) == /\ \A c \in Ends(n, cs) : c.to = n /\ c.as = "remote"
                   /\ \A a \in known[n] : n <= a
Announced(n, cs) ==
    LET here  == 1 + Cardinality(Peers(n, cs))
        total == AtLeastOne(Cardinality(known[n]))
    IN /\ (status[n].status = "UP") <=> (2 * here > total)
       /\ (status[n].complete = "COMPLETE") <=> (here = total)
AcceptorAt(n) == loop[n] = "run" /\ n \notin hung /\ n \notin stale /\ Acceptor(n, cables) => Announced(n, cables)

\* The inductive invariant.
NInv == IInv /\ KnownOK /\ NamesUnique(cables) /\ \A n \in Node : AcceptorAt(n)

\* What n sees of its end of a cable when another one, or its messages, are changed.
Seen(n, c, d) == /\ d.from = c.from /\ d.to = c.to
                 /\ c.to = n => d.as = c.as
View(n, cs, ds) == /\ \A c \in Ends(n, cs) : \E d \in Ends(n, ds) : Seen(n, c, d)
                   /\ \A d \in Ends(n, ds) : \E c \in Ends(n, cs) : Seen(n, c, d)

LEMMA SwapView ==
    ASSUME NEW n \in Node, NEW c \in cables, NEW d, Seen(n, c, d),
           c.from = n => d.fromUp = c.fromUp, c.to = n => d.toUp = c.toUp
    PROVE  View(n, cables, Swap(c, d))
<1>1. ASSUME NEW e \in Ends(n, cables) PROVE \E f \in Ends(n, Swap(c, d)) : Seen(n, e, f)
  <2>1. CASE e = c
    <3>1. d \in Ends(n, Swap(c, d))
      BY <2>1 DEF Ends, Swap, InUse, Seen
    <3> QED BY <2>1, <3>1
  <2>2. CASE e # c
    <3>1. e \in Ends(n, Swap(c, d))
      BY <2>2 DEF Ends, Swap, InUse
    <3> QED BY <3>1 DEF Seen
  <2> QED BY <2>1, <2>2
<1>2. ASSUME NEW f \in Ends(n, Swap(c, d)) PROVE \E e \in Ends(n, cables) : Seen(n, e, f)
  <2>1. CASE f = d
    <3>1. c \in Ends(n, cables)
      BY <2>1 DEF Ends, Seen
    <3> QED BY <2>1, <3>1
  <2>2. CASE f # d
    <3>1. f \in Ends(n, cables)
      BY <2>2 DEF Ends, Swap, InUse
    <3> QED BY <3>1 DEF Seen
  <2> QED BY <2>1, <2>2
<1> QED BY <1>1, <1>2 DEF View

LEMMA SameView == ASSUME NEW n, NEW cs PROVE View(n, cs, cs)
BY DEF View, Seen

\* What it announced stays true as long as it sees the same.
LEMMA ViewKeeps ==
    ASSUME NEW n \in Node, AcceptorAt(n), View(n, cables, cables'),
           loop'[n] = "run" => loop[n] = "run", n \notin hung' => n \notin hung,
           n \notin stale' => n \notin stale, known'[n] = known[n], status'[n] = status[n]
    PROVE  AcceptorAt(n)'
<1>1. Acceptor(n, cables)' => Acceptor(n, cables)
  <2>1. ASSUME Acceptor(n, cables)', NEW c \in Ends(n, cables) PROVE c.to = n /\ c.as = "remote"
    <3>1. PICK d \in Ends(n, cables') : Seen(n, c, d)
      BY DEF View
    <3>2. d.to = n /\ d.as = "remote"
      BY <2>1, <3>1 DEF Acceptor
    <3> QED BY <3>1, <3>2 DEF Seen
  <2> QED BY <2>1 DEF Acceptor
<1>2. Peers(n, cables') = Peers(n, cables)
  <2>1. \A c \in Ends(n, cables) : \E d \in Ends(n, cables') : d.from = c.from /\ d.to = c.to
    BY DEF View, Seen
  <2>2. \A d \in Ends(n, cables') : \E c \in Ends(n, cables) : d.from = c.from /\ d.to = c.to
    BY DEF View, Seen
  <2> QED BY <2>1, <2>2 DEF Peers
<1> QED BY <1>1, <1>2 DEF AcceptorAt, Announced

\* Every connection of such a daemon is with another computer, and the count of them
\* is right.
LEMMA PeersCounted ==
    ASSUME NEW n \in Node, NEW cs \in SUBSET ACable, NamesUnique(cs),
           \A c \in Ends(n, cs) : c.to = n /\ c.as = "remote"
    PROVE  /\ IsFiniteSet(Ends(n, cs)) /\ Cardinality(Ends(n, cs)) \in Nat
           /\ Cardinality(Peers(n, cs)) = Cardinality(Ends(n, cs))
<1> DEFINE E == Ends(n, cs)
           P == Peers(n, cs)
           f == [c \in E |-> c.from]
<1>1. \A c \in E : /\ c \in cs /\ c \in ACable /\ c.to = n /\ c.as = "remote" /\ c.toUp
                   /\ c.from \in Node /\ c.from # n
  BY CableFields DEF Ends
<1>2. P = {c.from : c \in E}
  <2>a. PICK U : U = {{c.from, c.to} : c \in E}
    OBVIOUS
  <2>b. P = (UNION U) \ {n}
    BY <2>a, Zenon DEF Peers
  <2> HIDE DEF E, P
  <2>1. \A x : x \in P <=> x # n /\ \E c \in E : x \in {c.from, c.to}
    <3>1. \A x : x \in UNION U <=> \E c \in E : x \in {c.from, c.to}
      BY <2>a
    <3>2. \A x : x \in P <=> x # n /\ x \in UNION U
      BY <2>b, Zenon
    <3> QED BY <3>1, <3>2
  <2>2. ASSUME NEW x \in P PROVE \E c \in E : x = c.from
    BY <1>1, <2>1
  <2>3. ASSUME NEW c \in E PROVE c.from \in P
    BY <1>1, <2>1
  <2> QED BY <2>2, <2>3
<1>3. IsFiniteSet(P) /\ Cardinality(P) \in Nat
  <2>1. P \subseteq Node
    BY <1>1, <1>2
  <2> QED BY <2>1, NodeAssumption, FS_Subset, FS_CardinalityType
<1>4. f \in Bijection(E, P)
  <2>1. f \in [E -> P]
    BY <1>2
  <2>2. \A c, d \in E : f[c] = f[d] => c = d
    BY <1>1 DEF NamesUnique, Accepted
  <2>3. \A p \in P : \E c \in E : f[c] = p
    BY <1>2
  <2> HIDE DEF f, E, P
  <2> QED BY <2>1, <2>2, <2>3 DEF Bijection, Injection, Surjection, IsInjective
<1> HIDE DEF f, E, P
<1>5. IsFiniteSet(E) /\ Cardinality(E) = Cardinality(P)
  <2>1. ExistsBijection(E, P)
    BY <1>4 DEF ExistsBijection
  <2> QED BY <1>3, <2>1, FS_Bijection, Fun_ExistsBijSymmetric
<1> QED BY <1>3, <1>5 DEF E, P

LEMMA Majority ==
    ASSUME NEW count \in Nat, NEW total \in Nat
    PROVE  /\ (StatusOf(count, total).status = "UP") <=> (2 * count > total)
           /\ (StatusOf(count, total).complete = "COMPLETE") <=> (count = total)
<1>1. PICK h : h = total \div 2
  OBVIOUS
<1>2. h \in Nat /\ (total = 2 * h \/ total = 2 * h + 1)
  BY <1>1
<1>3. count >= h + 1 <=> 2 * count > total
  BY <1>2
<1> QED BY <1>1, <1>3 DEF StatusOf

\* An evaluation is right, unless a gossip connection is counted.
LEMMA EvaluatedRight ==
    ASSUME IInv', NamesUnique(cables)', NEW n \in Node,
           NEW counted \in {LiveConnections(n, cables'), LiveConnections(n, cables') + 0},
           n \in hung' \/ status'[n] = StatusOf(counted + 1, AtLeastOne(Cardinality(known'[n])))
    PROVE  AcceptorAt(n)'
<1> SUFFICES ASSUME Acceptor(n, cables)', n \notin hung' PROVE Announced(n, cables)'
  BY DEF AcceptorAt
<1>1. cables' \subseteq ACable
  <2>1. CableOf(Said(quitting')) \subseteq CableOf(Word)
    BY SaidWords, MoreWords DEF IInv, Types
  <2> QED BY <2>1 DEF IInv, ACable
<1>2. PICK cs \in SUBSET ACable : cs = cables'
  BY <1>1
<1>3. /\ Cardinality(Ends(n, cs)) \in Nat
      /\ Cardinality(Peers(n, cs)) = Cardinality(Ends(n, cs))
  <2>1. NamesUnique(cs) /\ \A c \in Ends(n, cs) : c.to = n /\ c.as = "remote"
    BY <1>2 DEF NamesUnique, Acceptor
  <2> QED BY <2>1, PeersCounted
<1>4. PICK total : total = AtLeastOne(Cardinality(known'[n]))
  OBVIOUS
<1>5. total \in Nat
  <2>1. known'[n] \in SUBSET Node
    BY DEF IInv, Types
  <2> QED BY <1>4, <2>1, Counted
<1>6. PICK count : count = counted + 1
  OBVIOUS
<1>7. count \in Nat /\ count = 1 + Cardinality(Peers(n, cs))
  <2>1. counted = Cardinality(Ends(n, cs))
    BY <1>2, <1>3 DEF LiveConnections
  <2> QED BY <1>3, <1>6, <2>1
<1>8. status'[n] = StatusOf(count, total)
  BY <1>4, <1>6
<1>9. /\ (StatusOf(count, total).status = "UP") <=> (2 * count > total)
      /\ (StatusOf(count, total).complete = "COMPLETE") <=> (count = total)
  BY <1>5, <1>7, Majority
<1> QED BY <1>2, <1>4, <1>7, <1>8, <1>9 DEF Announced

\* A cable whose ends are closed or as they were, its messages aside.
Shut(d, c) == /\ d.from = c.from /\ d.to = c.to /\ d.id = c.id /\ d.as = c.as
              /\ d.fromUp => c.fromUp
              /\ d.toUp => c.toUp

\* What m has of the cable is still there.
Kept(m, d, c) == /\ c.from = m => d.fromUp = c.fromUp
                 /\ c.to = m => d.toUp = c.toUp

LEMMA ClosedEnd ==
    ASSUME NEW n \in Node, NEW c \in Ends(n, cables), c \in ACable, NEW d \in ACable, Alike(d, c)
    PROVE  /\ Shut(CloseEnd(n, d), c)
           /\ \A m \in Node \ {n} : Kept(m, CloseEnd(n, d), c)
<1>1. d.from # d.to /\ (d.to = n \/ d.from = n)
  BY CableFields DEF Ends, Alike
<1>2. CASE d.to = n
  <2>1. CloseEnd(n, d) = CloseTo(d)
    BY <1>2 DEF CloseEnd
  <2> QED BY <1>1, <1>2, <2>1, ClosedFields DEF Alike, Shut, Kept
<1>3. CASE d.to # n
  <2>1. CloseEnd(n, d) = CloseFrom(d)
    BY <1>3 DEF CloseEnd
  <2> QED BY <1>1, <1>3, <2>1, ClosedFields DEF Alike, Shut, Kept
<1> QED BY <1>2, <1>3

\* Connections that go, and messages, leave what is known and the names.
LEMMA KnownSwap ==
    ASSUME KnownOK, cables \subseteq ACable, NEW c \in cables,
           NEW d, d.from = c.from, d.to = c.to, d.fromUp => c.fromUp, cables' = Swap(c, d),
           \A n \in Node : known[n] \subseteq known'[n]
    PROVE  KnownOK'
<1>2. ASSUME NEW e \in cables', e.fromUp PROVE e.to \in known'[e.from]
  <2>1. PICK f \in cables : f.from = e.from /\ f.to = e.to /\ f.fromUp
    BY <1>2 DEF Swap, InUse
  <2>2. f.from \in Node /\ f.to \in known[f.from]
    BY <2>1, CableFields DEF KnownOK
  <2> QED BY <2>1, <2>2
<1> QED BY <1>2 DEF KnownOK

LEMMA NamesSwap ==
    ASSUME NamesUnique(cables), NEW c \in cables, NEW d, d.from = c.from, d.to = c.to,
           d.fromUp => c.fromUp,
           d.toUp /\ d.as = "remote" => c.toUp /\ c.as = "remote"
    PROVE  NamesUnique(Swap(c, d))
<1> SUFFICES ASSUME NEW e \in Swap(c, d), NEW f \in Swap(c, d), Accepted(e, f)
             PROVE  e = f
  BY DEF NamesUnique
<1>1. (e = d \/ e \in cables \ {c}) /\ (f = d \/ f \in cables \ {c})
  BY DEF Swap, InUse
<1>2. CASE e = d /\ f \in cables \ {c}
  BY <1>2 DEF NamesUnique, Accepted
<1>3. CASE f = d /\ e \in cables \ {c}
  BY <1>3 DEF NamesUnique, Accepted
<1>4. CASE e \in cables /\ f \in cables
  BY <1>4 DEF NamesUnique
<1> QED BY <1>1, <1>2, <1>3, <1>4

\* A step that closes an end or takes messages, and whom it leaves with what it has
\* announced.
LEMMA ShutStep ==
    ASSUME NInv, IInv', NEW c \in cables, NEW d, Shut(d, c), cables' = Swap(c, d),
           \A n \in Node : known[n] \subseteq known'[n]
    PROVE  /\ KnownOK' /\ NamesUnique(cables)'
           /\ \A n \in Node :
                Kept(n, d, c) /\ known'[n] = known[n] /\ status'[n] = status[n]
                  /\ (loop'[n] = "run" => loop[n] = "run") /\ (n \notin hung' => n \notin hung)
                  /\ (n \notin stale' => n \notin stale)
                => AcceptorAt(n)'
<1>1. KnownOK'
  BY AllCables, KnownSwap DEF NInv, Shut
<1>2. NamesUnique(Swap(c, d))
  BY NamesSwap DEF NInv, Shut
<1>3. NamesUnique(cables)'
  BY <1>2 DEF NamesUnique
<1>4. ASSUME NEW n \in Node, Kept(n, d, c), known'[n] = known[n], status'[n] = status[n],
             loop'[n] = "run" => loop[n] = "run", n \notin hung' => n \notin hung,
             n \notin stale' => n \notin stale
      PROVE  AcceptorAt(n)'
  <2>1. Seen(n, c, d)
    BY DEF Shut, Seen
  <2>2. View(n, cables, Swap(c, d))
    BY <1>4, <2>1, SwapView DEF Kept
  <2>3. AcceptorAt(n)
    BY DEF NInv
  <2> QED BY <1>4, <2>2, <2>3, ViewKeeps
<1> QED BY <1>1, <1>3, <1>4

\* No more of the words that matter; what the other end of n will read of SHUTDOWN.
Fewer(d, c) == \A m \in {"REFUSE", "SHUTDOWN", "DISCONNECT"} :
                   (Has(d.toQ, m) => Has(c.toQ, m)) /\ (Has(d.fromQ, m) => Has(c.fromQ, m))
StillShutdown(n, d, c) ==
    /\ c.to = n /\ Has(c.fromQ, "SHUTDOWN") => Has(d.fromQ, "SHUTDOWN")
    /\ c.to # n /\ Has(c.toQ, "SHUTDOWN") => Has(d.toQ, "SHUTDOWN")

LEMMA DrainedAt ==
    ASSUME NInv, IInv', NEW n \in Node, NEW c \in Ends(n, cables), NEW d \in ACable, Alike(d, c),
           cables' = Swap(c, CloseEnd(n, d)), UNCHANGED <<loop, known, status, stale>>,
           (loop[n] # "run" /\ hung' = hung) \/ hung' = hung \cup {n}
    PROVE  NInv'
<1>1. c \in cables /\ c \in ACable
  BY AllCables DEF Ends, NInv
<1>2. PICK e : e = CloseEnd(n, d)
  OBVIOUS
<1>3. Shut(e, c) /\ \A m \in Node \ {n} : Kept(m, e, c)
  BY <1>1, <1>2, ClosedEnd
<1>4. /\ KnownOK' /\ NamesUnique(cables)'
      /\ \A m \in Node : Kept(m, e, c) /\ (m \notin hung' => m \notin hung) => AcceptorAt(m)'
  BY <1>1, <1>2, <1>3, ShutStep
<1>5. AcceptorAt(n)'
  BY DEF AcceptorAt
<1> QED BY <1>3, <1>4, <1>5 DEF NInv

LEMMA ReadAt ==
    ASSUME NInv, IInv', NEW c \in cables, NEW d, Alike(d, c),
           cables' = Swap(c, d), UNCHANGED <<loop, known, status, hung, stale>>
    PROVE  NInv'
<1>1. Shut(d, c) /\ \A n \in Node : Kept(n, d, c)
  BY DEF Alike, Shut, Kept
<1>2. KnownOK' /\ NamesUnique(cables)' /\ \A n \in Node : AcceptorAt(n)'
  BY <1>1, ShutStep
<1> QED BY <1>2 DEF NInv

\* What shutting_down() removes. It says nothing else to the other end, and if it takes
\* a SHUTDOWN back that is dropped.
LEMMA ShuttingDownEnd ==
    ASSUME NEW n \in Node, NEW c \in ACable, ShuttingDown(n, c)
    PROVE  \E d \in ACable : /\ Alike(d, c) /\ cables' = Swap(c, CloseEnd(n, d))
                             /\ Fewer(d, c)
                             /\ ConnectFirst(c.toQ, c.as) => ConnectFirst(d.toQ, c.as)
                             /\ ~dropped' => ~dropped /\ StillShutdown(n, d, c)
<1> DEFINE parting == {"DISCONNECT", "SHUTDOWN"}
           rest(q) == IF q # <<>> /\ q[Len(q)] \in parting THEN SubSeq(q, 1, Len(q) - 1) ELSE q
<1>1. /\ rest(c.toQ) \in Seq(Word) /\ rest(c.fromQ) \in Seq(Word)
      /\ c.toQ \in Seq(Word) /\ c.fromQ \in Seq(Word)
  BY CableFields, Unwritten
<1>2. \A m : (Has(rest(c.toQ), m) => Has(c.toQ, m)) /\ (Has(rest(c.fromQ), m) => Has(c.fromQ, m))
  BY <1>1, HasFront
<1>3. ConnectFirst(c.toQ, c.as) => ConnectFirst(rest(c.toQ), c.as)
  BY <1>1, FirstFront
<1> HIDE DEF rest
<1>4. CASE /\ cables' = Swap(c, CloseEnd(n, IF c.to = n THEN SendFrom(c, "QUITTING")
                                            ELSE SendTo(c, "QUITTING")))
           /\ UNCHANGED dropped
  <2>1. "QUITTING" \in Word
    BY DEF Word
  <2>2. PICK d : d = IF c.to = n THEN SendFrom(c, "QUITTING") ELSE SendTo(c, "QUITTING")
    OBVIOUS
  <2>3. d \in ACable /\ Alike(d, c)
    BY <2>1, <2>2, Sent, SentFields DEF ACable
  <2>4. /\ d.toQ = c.toQ \/ d.toQ = Append(c.toQ, "QUITTING")
        /\ d.fromQ = c.fromQ \/ d.fromQ = Append(c.fromQ, "QUITTING")
    BY <2>2, SentFields
  <2>5. \A m : /\ Has(d.toQ, m) => Has(c.toQ, m) \/ m = "QUITTING"
               /\ Has(d.fromQ, m) => Has(c.fromQ, m) \/ m = "QUITTING"
               /\ Has(c.toQ, m) => Has(d.toQ, m)
               /\ Has(c.fromQ, m) => Has(d.fromQ, m)
    <3>1. \A q \in Seq(Word) : \A m : Has(Append(q, "QUITTING"), m) <=> Has(q, m) \/ m = "QUITTING"
      BY <2>1, HasAppended
    <3>2. \A m : /\ Has(d.toQ, m) => Has(c.toQ, m) \/ m = "QUITTING"
                 /\ Has(c.toQ, m) => Has(d.toQ, m)
      BY <1>1, <2>4, <3>1
    <3>3. \A m : /\ Has(d.fromQ, m) => Has(c.fromQ, m) \/ m = "QUITTING"
                 /\ Has(c.fromQ, m) => Has(d.fromQ, m)
      BY <1>1, <2>4, <3>1
    <3> QED BY <3>2, <3>3
  <2>6. ConnectFirst(c.toQ, c.as) => ConnectFirst(d.toQ, c.as)
    BY <1>1, <2>1, <2>4, FirstAppended
  <2>7. Fewer(d, c) /\ StillShutdown(n, d, c)
    BY <2>5 DEF Fewer, StillShutdown
  <2> QED BY <1>4, <2>2, <2>3, <2>6, <2>7
<1>5. CASE /\ cables' = Swap(c, CloseEnd(n, IF c.to = n THEN [c EXCEPT !.fromQ = rest(@)]
                                            ELSE [c EXCEPT !.toQ = rest(@)]))
           /\ dropped' = (dropped \/ (c.to = n /\ Tells(c.fromQ)) \/ (c.from = n /\ Tells(c.toQ)))
  <2>1. PICK d : d = IF c.to = n THEN [c EXCEPT !.fromQ = rest(@)] ELSE [c EXCEPT !.toQ = rest(@)]
    OBVIOUS
  <2>2. d \in ACable /\ Alike(d, c)
    BY <1>1, <2>1 DEF ACable, CableOf, Alike
  <2>3. /\ d.toQ = IF c.to = n THEN c.toQ ELSE rest(c.toQ)
        /\ d.fromQ = IF c.to = n THEN rest(c.fromQ) ELSE c.fromQ
    BY <2>1 DEF ACable, CableOf
  <2>4. Fewer(d, c)
    BY <1>2, <2>3 DEF Fewer
  <2>5. ConnectFirst(c.toQ, c.as) => ConnectFirst(d.toQ, c.as)
    BY <1>3, <2>3
  <2>6. c.to = n \/ c.from = n
    BY DEF ShuttingDown, Ends
  <2>7. ~dropped' => ~dropped /\ (c.to = n => ~Has(c.fromQ, "SHUTDOWN"))
                     /\ (c.to # n => ~Has(c.toQ, "SHUTDOWN"))
    BY <1>5, <2>6 DEF Has, Tells
  <2>8. ~dropped' => ~dropped /\ StillShutdown(n, d, c)
    BY <2>7 DEF StillShutdown
  <2> QED BY <1>5, <2>1, <2>2, <2>4, <2>5, <2>8
<1> QED BY <1>4, <1>5 DEF ShuttingDown, rest

LEMMA QuietAt ==
    ASSUME NInv, IInv', NEW n \in Node, NEW c \in Ends(n, cables),
           \/ Drained(n, c) \/ HangUp(n, c) \/ ShuttingDown(n, c)
           \/ ReadQuitting(n, c) \/ IgnoreDisconnect(n, c)
    PROVE  NInv'
<1>1. c \in cables /\ c \in ACable /\ Alike(c, c)
  BY AllCables DEF Ends, NInv, Alike
<1>2. CASE Drained(n, c)
  BY <1>1, <1>2, DrainedAt DEF Drained
<1>3. CASE HangUp(n, c)
  BY <1>1, <1>3, DrainedAt DEF HangUp
<1>4. CASE ShuttingDown(n, c)
  <2>1. PICK d \in ACable : Alike(d, c) /\ cables' = Swap(c, CloseEnd(n, d))
    BY <1>1, <1>4, ShuttingDownEnd
  <2>2. loop[n] # "run" /\ UNCHANGED <<loop, known, status, hung, stale>>
    BY <1>4 DEF ShuttingDown
  <2> QED BY <2>1, <2>2, DrainedAt
<1>5. CASE ReadQuitting(n, c) \/ IgnoreDisconnect(n, c)
  BY <1>1, <1>5, TakenFields, ReadAt DEF ReadQuitting, IgnoreDisconnect
<1> QED BY <1>2, <1>3, <1>4, <1>5

LEMMA CutAt ==
    ASSUME NInv, IInv', NEW c \in cables, Cut(c)
    PROVE  NInv'
<1>1. c \in ACable
  BY AllCables DEF NInv
<1>2. PICK d : /\ d = [c EXCEPT !.whole = FALSE, !.toQ = <<>>, !.fromQ = <<>>]
               /\ Alike(d, c)
  BY <1>1, CutFields
<1>3. cables' = Swap(c, d) /\ UNCHANGED <<loop, known, status, hung, stale>>
  BY <1>2 DEF Cut
<1> QED BY <1>2, <1>3, ReadAt

\* Steps that leave the cables alone.
LEMMA SameAt ==
    ASSUME NInv, cables' = cables
    PROVE  /\ (\A n \in Node : known[n] \subseteq known'[n]) => KnownOK'
           /\ NamesUnique(cables)'
           /\ \A n \in Node : known'[n] = known[n] /\ status'[n] = status[n]
                                /\ (loop'[n] = "run" => loop[n] = "run")
                                /\ (n \notin hung' => n \notin hung) /\ (n \notin stale' => n \notin stale)
                              => AcceptorAt(n)'
<1>1. NamesUnique(cables)'
  BY DEF NInv, NamesUnique
<1>2. ASSUME \A n \in Node : known[n] \subseteq known'[n] PROVE KnownOK'
  BY <1>2, AllCables, CableFields DEF NInv, KnownOK
<1>3. ASSUME NEW n \in Node, known'[n] = known[n], status'[n] = status[n],
             loop'[n] = "run" => loop[n] = "run",
             n \notin hung' => n \notin hung, n \notin stale' => n \notin stale
      PROVE  AcceptorAt(n)'
  <2>1. View(n, cables, cables') /\ AcceptorAt(n)
    BY SameView DEF NInv
  <2> QED BY <1>3, <2>1, ViewKeeps
<1> QED BY <1>1, <1>2, <1>3

LEMMA EvaluatedAt ==
    ASSUME IInv, IInv', NamesUnique(cables)', NEW n \in Node,
           Evaluate(n, cables', known'[n])
    PROVE  /\ AcceptorAt(n)'
           /\ \A m \in Node \ {n} : status'[m] = status[m] /\ (m \notin hung' => m \notin hung)
                              /\ (m \notin stale' => m \notin stale)
<1>1. PICK g : /\ Announce(n, LiveConnections(n, cables') + Cardinality(g), known'[n])
               /\ hung' = (IF g = {} THEN hung ELSE hung \cup {n})
  BY DEF Evaluate
<1>2. /\ status'[n] = StatusOf(LiveConnections(n, cables') + Cardinality(g) + 1,
                              AtLeastOne(Cardinality(known'[n])))
      /\ \A m \in Node \ {n} : status'[m] = status[m] /\ (m \notin stale' => m \notin stale)
  BY <1>1 DEF Announce, IInv, Types
<1>3. AcceptorAt(n)'
  <2>1. CASE g = {}
    <3>1. Cardinality(g) = 0
      BY <2>1, FS_EmptySet
    <3> QED BY <1>2, <3>1, EvaluatedRight
  <2>2. CASE g # {}
    <3>1. n \in hung'
      BY <1>1, <2>2
    <3> QED BY <3>1 DEF AcceptorAt
  <2> QED BY <2>1, <2>2
<1> QED BY <1>1, <1>2, <1>3

LEMMA StartAt ==
    ASSUME NInv, IInv', NEW n \in Node, Start(n)
    PROVE  NInv'
<1>1. PICK ns : /\ ns = known[n] \cup {n} \cup Explicit[n] /\ known' = [known EXCEPT ![n] = ns]
               /\ Announce(n, LiveConnections(n, cables), ns)
  BY DEF Start
<1>2. /\ cables' = cables /\ hung' = hung \ {n} /\ stale' = stale \ {n}
      /\ status'[n] = StatusOf(LiveConnections(n, cables') + 1, AtLeastOne(Cardinality(known'[n])))
      /\ \A m \in Node : known[m] \subseteq known'[m]
      /\ \A m \in Node \ {n} : loop'[m] = loop[m] /\ status'[m] = status[m] /\ known'[m] = known[m]
  BY <1>1 DEF Start, Announce, NInv, IInv, Types
<1>3. KnownOK' /\ NamesUnique(cables)' /\ \A m \in Node \ {n} : AcceptorAt(m)'
  BY <1>2, SameAt
<1>4. AcceptorAt(n)'
  BY <1>2, <1>3, EvaluatedRight
<1> QED BY <1>3, <1>4 DEF NInv

LEMMA StoppingAt ==
    ASSUME NInv, IInv', NEW n \in Node, LocalsDrained(n) \/ LoopEnds(n)
    PROVE  NInv'
<1>1. /\ UNCHANGED <<cables, known, hung, status, stale>>
      /\ \A m \in Node : loop'[m] = "run" => loop[m] = "run"
  BY DEF LocalsDrained, LoopEnds, NInv, IInv, Types
<1> QED BY <1>1, SameAt DEF NInv

\* Neighbors that come make the status stale.
LEMMA LearnAt ==
    ASSUME NInv, IInv', NEW n \in Node, NEW a \in Node, Gossips(n, a) \/ LastGossip(n, a)
    PROVE  NInv'
<1>1. UNCHANGED <<loop, cables, status, hung>> /\ Learn(a, n)
  BY DEF Gossips, LastGossip
<1>2. /\ \A m \in Node : known[m] \subseteq known'[m]
      /\ \A m \in Node \ {a} : known'[m] = known[m]
      /\ stale \subseteq stale'
      /\ a \in stale' \/ known'[a] = known[a]
  BY <1>1 DEF Learn, NInv, IInv, Types
<1>3. \A m \in Node : AcceptorAt(m)'
  <2>1. \A m \in Node : known'[m] = known[m] => AcceptorAt(m)'
    BY <1>1, <1>2, SameAt
  <2>2. a \in stale' => AcceptorAt(a)'
    BY DEF AcceptorAt
  <2> QED BY <1>2, <2>1, <2>2
<1> QED BY <1>1, <1>2, <1>3, SameAt DEF NInv

\* So does a neighbor that is forgotten, and its connection is closed.
LEMMA ForgetAt ==
    ASSUME NInv, IInv', NEW n \in Node, NEW a \in Node, Forget(n, a)
    PROVE  NInv'
<1>1. /\ UNCHANGED <<loop, status, hung>> /\ stale \subseteq stale'
      /\ a \in known[n] => n \in stale'
      /\ known'[n] = known[n] \ {a}
      /\ \A m \in Node \ {n} : known'[m] = known[m]
  BY DEF Forget, NInv, IInv, Types
<1>2. CASE cables' = cables /\ ~\E c \in cables : c.from = n /\ c.to = a /\ c.fromUp
  <2>1. KnownOK'
    BY <1>1, <1>2, AllCables, CableFields DEF NInv, KnownOK
  <2>2. NamesUnique(cables)' /\ \A m \in Node : known'[m] = known[m] => AcceptorAt(m)'
    BY <1>1, <1>2, SameAt
  <2>3. AcceptorAt(n)'
    BY <1>1, <2>2 DEF AcceptorAt
  <2> QED BY <1>1, <2>1, <2>2, <2>3 DEF NInv
<1>3. ASSUME NEW c \in cables, c.from = n, c.to = a, c.fromUp, cables' = Swap(c, CloseFrom(c))
      PROVE  NInv'
  <2>1. PICK d : d = CloseFrom(c)
    OBVIOUS
  <2>2. /\ d.from = c.from /\ d.to = c.to /\ d.as = c.as
        /\ d.toUp = c.toUp /\ d.fromUp = FALSE /\ cables' = Swap(c, d)
    BY <1>3, <2>1, AllCables, ClosedFields DEF NInv
  <2>3. NamesUnique(cables)'
    <3>1. NamesUnique(Swap(c, d))
      BY <2>2, NamesSwap DEF NInv
    <3> QED BY <2>2, <3>1 DEF NamesUnique
  <2>4. ASSUME NEW e \in cables', e.fromUp PROVE e.to \in known'[e.from]
    <3>1. e \in cables /\ e # c
      BY <2>2, <2>4 DEF Swap, InUse
    <3>2. ~(e.from = n /\ e.to = a)
      BY <1>3, <2>4, <3>1 DEF NInv, NamesUnique, Accepted
    <3>3. e.from \in Node /\ e.to \in known[e.from]
      BY <2>4, <3>1, AllCables, CableFields DEF NInv, KnownOK
    <3> QED BY <1>1, <3>2, <3>3
  <2>5. ASSUME NEW m \in Node \ {n} PROVE AcceptorAt(m)'
    <3>1. View(m, cables, Swap(c, d)) /\ AcceptorAt(m)
      BY <1>3, <2>2, SwapView DEF Seen, NInv
    <3> QED BY <1>1, <2>2, <3>1, ViewKeeps
  <2>6. AcceptorAt(n)'
    BY <1>1, <1>3 DEF AcceptorAt, NInv, KnownOK
  <2> QED BY <2>3, <2>4, <2>5, <2>6 DEF NInv, KnownOK
<1> QED BY <1>2, <1>3 DEF Forget

\* What stop() makes of one connection.
Part(n, c, word) == IF c.from = n THEN IF c.fromUp THEN SendTo(c, word) ELSE c
                    ELSE IF c.to # n \/ ~c.toUp THEN c
                    ELSE IF c.as = "remote" THEN SendFrom(c, word)
                    ELSE CloseTo(c)

LEMMA Parts ==
    ASSUME NEW n, NEW cs, NEW word
    PROVE  \A d : d \in PartingCables(n, cs, word)
                    <=> (d.fromUp \/ d.toUp) /\ \E c \in cs : d = Part(n, c, word)
BY DEF PartingCables, InUse, Part

LEMMA PartFields ==
    ASSUME NEW n \in Node, NEW c \in ACable, NEW word
    PROVE  /\ Shut(Part(n, c, word), c)
           /\ \A m \in Node \ {n} : Kept(m, Part(n, c, word), c)
<1>1. Alike(SendTo(c, word), c) /\ Alike(SendFrom(c, word), c)
  BY SentFields
<1>2. Shut(CloseTo(c), c) /\ (c.to = n => \A m \in Node \ {n} : Kept(m, CloseTo(c), c))
  BY ClosedFields DEF Shut, Kept
<1>3. \A d : Alike(d, c) => Shut(d, c) /\ \A m \in Node : Kept(m, d, c)
  BY DEF Alike, Shut, Kept
<1>4. Alike(c, c)
  BY DEF Alike
<1> QED BY <1>1, <1>2, <1>3, <1>4 DEF Part

LEMMA PartedView ==
    ASSUME NEW n \in Node, NEW cs \in SUBSET ACable, NEW word, NEW m \in Node \ {n}
    PROVE  View(m, cs, PartingCables(n, cs, word))
<1> DEFINE ds == PartingCables(n, cs, word)
<1>1. \A d : d \in ds <=> (d.fromUp \/ d.toUp) /\ \E c \in cs : d = Part(n, c, word)
  BY Parts
<1> HIDE DEF ds
<1>2. ASSUME NEW c \in Ends(m, cs) PROVE \E d \in Ends(m, ds) : Seen(m, c, d)
  <2>1. PICK d : d = Part(n, c, word)
    OBVIOUS
  <2>2. c \in cs /\ c \in ACable /\ ((c.from = m /\ c.fromUp) \/ (c.to = m /\ c.toUp))
    BY DEF Ends
  <2>3. Shut(d, c) /\ Kept(m, d, c)
    BY <2>1, <2>2, PartFields
  <2>4. d \in Ends(m, ds)
    BY <1>1, <2>1, <2>2, <2>3 DEF Ends, Shut, Kept
  <2> QED BY <2>3, <2>4 DEF Shut, Seen
<1>3. ASSUME NEW d \in Ends(m, ds) PROVE \E c \in Ends(m, cs) : Seen(m, c, d)
  <2>1. d \in ds /\ ((d.from = m /\ d.fromUp) \/ (d.to = m /\ d.toUp))
    BY DEF Ends
  <2>2. PICK c \in cs : d = Part(n, c, word)
    BY <1>1, <2>1
  <2>3. Shut(d, c)
    BY <2>2, PartFields
  <2>4. c \in Ends(m, cs)
    BY <2>1, <2>3 DEF Ends, Shut
  <2> QED BY <2>3, <2>4 DEF Shut, Seen
<1> QED BY <1>2, <1>3 DEF View, ds

LEMMA PartedNames ==
    ASSUME NEW n \in Node, NEW cs \in SUBSET ACable, NEW word, NamesUnique(cs)
    PROVE  NamesUnique(PartingCables(n, cs, word))
<1> SUFFICES ASSUME NEW d \in PartingCables(n, cs, word), NEW e \in PartingCables(n, cs, word),
                    Accepted(d, e)
             PROVE  d = e
  BY DEF NamesUnique
<1>1. PICK c \in cs : d = Part(n, c, word)
  BY Parts
<1>2. PICK f \in cs : e = Part(n, f, word)
  BY Parts
<1>3. Shut(d, c) /\ Shut(e, f)
  BY <1>1, <1>2, PartFields
<1>4. Accepted(c, f)
  BY <1>3 DEF Accepted, Shut
<1> QED BY <1>1, <1>2, <1>4 DEF NamesUnique

LEMMA ViewTwice ==
    ASSUME NEW n, NEW cs, NEW ds, NEW es, View(n, cs, ds), View(n, ds, es)
    PROVE  View(n, cs, es)
<1>1. ASSUME NEW c \in Ends(n, cs) PROVE \E e \in Ends(n, es) : Seen(n, c, e)
  <2>1. PICK d \in Ends(n, ds) : Seen(n, c, d)
    BY DEF View
  <2>2. PICK e \in Ends(n, es) : Seen(n, d, e)
    BY DEF View
  <2> QED BY <2>1, <2>2 DEF Seen
<1>2. ASSUME NEW e \in Ends(n, es) PROVE \E c \in Ends(n, cs) : Seen(n, c, e)
  <2>1. PICK d \in Ends(n, ds) : Seen(n, d, e)
    BY DEF View
  <2>2. PICK c \in Ends(n, cs) : Seen(n, c, d)
    BY DEF View
  <2> QED BY <2>1, <2>2 DEF Seen
<1> QED BY <1>1, <1>2 DEF View

\* stop(), with the connections cs.
LEMMA StopWithAt ==
    ASSUME NInv, IInv', NEW n \in Node, NEW quit \in BOOLEAN, NEW cs \in SUBSET ACable,
           StopWith(n, quit, cs), NamesUnique(cs),
           \A c \in cs : c.fromUp => c.to \in known[c.from],
           \A m \in Node \ {n} : View(m, cables, cs)
    PROVE  NInv'
<1>1. /\ cables' = PartingCables(n, cs, PartingWord(quit))
      /\ UNCHANGED <<known, status>> /\ hung' = hung \ {n} /\ stale' = stale \ {n}
      /\ loop'[n] = "stopping" /\ \A m \in Node \ {n} : loop'[m] = loop[m]
  BY DEF StopWith, NInv, IInv, Types
<1>2. KnownOK'
  <2>1. ASSUME NEW d \in cables', d.fromUp PROVE d.to \in known'[d.from]
    <3>1. PICK c \in cs : d = Part(n, c, PartingWord(quit))
      BY <1>1, Parts
    <3>2. Shut(d, c)
      BY <3>1, PartFields
    <3> QED BY <1>1, <2>1, <3>2 DEF Shut
  <2> QED BY <1>1, <2>1 DEF KnownOK, NInv
<1>3. NamesUnique(cables)'
  <2>1. NamesUnique(PartingCables(n, cs, PartingWord(quit)))
    BY PartedNames
  <2> QED BY <1>1, <2>1 DEF NamesUnique
<1>4. ASSUME NEW m \in Node \ {n} PROVE AcceptorAt(m)'
  <2>1. View(m, cs, PartingCables(n, cs, PartingWord(quit)))
    BY PartedView
  <2>2. View(m, cables, cables')
    BY <1>1, <2>1, ViewTwice
  <2>3. AcceptorAt(m)
    BY DEF NInv
  <2> QED BY <1>1, <2>2, <2>3, ViewKeeps
<1>5. AcceptorAt(n)'
  BY <1>1 DEF AcceptorAt
<1> QED BY <1>2, <1>3, <1>4, <1>5 DEF NInv

LEMMA StopAt ==
    ASSUME NInv, IInv', NEW n \in Node, NEW quit \in BOOLEAN, Stop(n, quit)
    PROVE  NInv'
<1>1. cables \in SUBSET ACable /\ \A m \in Node \ {n} : View(m, cables, cables)
  BY AllCables, SameView DEF NInv
<1> QED BY <1>1, StopWithAt DEF Stop, NInv, KnownOK

LEMMA ReadShutdownAt ==
    ASSUME NInv, IInv', NEW n \in Node, NEW c \in cables, ReadShutdown(n, c)
    PROVE  NInv'
<1>1. cables \subseteq ACable /\ c \in ACable /\ Inbox(n, c) # <<>>
  BY AllCables DEF NInv, ReadShutdown, Reads
<1>2. PICK d : d = TakeOne(n, c)
  OBVIOUS
<1>3. d \in ACable /\ Alike(d, c)
  BY <1>1, <1>2, Taken, TakenFields DEF ACable
<1>4. PICK cs : cs = Swap(c, d)
  OBVIOUS
<1>5. cs \in SUBSET ACable
  BY <1>1, <1>3, <1>4, Swapped DEF ACable
<1>6. NamesUnique(cs)
  BY <1>3, <1>4, NamesSwap DEF NInv, Alike
<1>7. ASSUME NEW e \in cs, e.fromUp PROVE e.to \in known[e.from]
  <2>1. PICK f \in cables : f.from = e.from /\ f.to = e.to /\ f.fromUp
    BY <1>3, <1>4, <1>7 DEF Swap, InUse, Alike
  <2> QED BY <2>1 DEF NInv, KnownOK
<1>8. \A m \in Node : View(m, cables, cs)
  BY <1>3, <1>4, SwapView DEF Alike, Seen
<1>9. StopWith(n, TRUE, cs)
  BY <1>2, <1>4 DEF ReadShutdown
<1> QED BY <1>5, <1>6, <1>7, <1>8, <1>9, StopWithAt

LEMMA DialAt ==
    ASSUME NInv, IInv', NEW n \in Node, NEW a \in Node, Dial(n, a)
    PROVE  NInv'
<1>0. PICK i : i = CHOOSE k \in Free(n, a) : TRUE
  OBVIOUS
<1>c. PICK c : c = [from |-> n, to |-> a, id |-> i, fromUp |-> TRUE, toUp |-> TRUE,
                    whole |-> TRUE, as |-> "new", toQ |-> <<"CONNECT">>, fromQ |-> <<>>]
  OBVIOUS
<1>1. /\ cables' = cables \cup {c}
      /\ c.from = n /\ c.to = a /\ c.fromUp /\ c.toUp /\ c.as = "new"
  <2>1. cables' = cables \cup {c}
    BY <1>0, <1>c DEF Dial
  <2> QED BY <1>c, <2>1
<1>2. /\ a \in known[n] /\ a < n /\ n \in Nat /\ a \in Nat
      /\ UNCHANGED <<loop, known, status, hung, stale>>
      /\ ~\E o \in cables : o.from = n /\ o.to = a /\ o.fromUp
  BY NodeAssumption DEF Dial, Permanent
<1>3. KnownOK'
  BY <1>1, <1>2 DEF NInv, KnownOK
<1>4. NamesUnique(cables)'
  BY <1>1, <1>2 DEF NInv, NamesUnique, Accepted
<1>5. AcceptorAt(n)'
  <2>1. ~ n <= a
    BY <1>2
  <2> QED BY <1>2, <2>1 DEF AcceptorAt, Acceptor
<1>6. AcceptorAt(a)'
  <2>1. c \in Ends(a, cables')
    BY <1>1 DEF Ends
  <2> QED BY <1>1, <2>1 DEF AcceptorAt, Acceptor
<1>7. ASSUME NEW m \in Node \ {n, a} PROVE AcceptorAt(m)'
  <2>1. Ends(m, cables') = Ends(m, cables)
    BY <1>1 DEF Ends
  <2>2. View(m, cables, cables') /\ AcceptorAt(m)
    BY <2>1 DEF View, Seen, NInv
  <2> QED BY <1>2, <2>2, ViewKeeps
<1> QED BY <1>3, <1>4, <1>5, <1>6, <1>7 DEF NInv

\* The answer to a CONNECT changes the type of the connection.
Answer(a, c, as, m) == SendFrom([TakeOne(a, c) EXCEPT !.as = as], m)
Answered(d, c, as, m) ==
    /\ d.from = c.from /\ d.to = c.to /\ d.id = c.id /\ d.as = as
    /\ d.fromUp = c.fromUp /\ d.toUp = c.toUp
    /\ d.toQ = Tail(c.toQ)
    /\ d.fromQ = IF c.whole /\ c.fromUp THEN Append(c.fromQ, m) ELSE c.fromQ

LEMMA AnsweredFields ==
    ASSUME NEW c \in ACable, NEW a, c.to = a, Inbox(a, c) # <<>>,
           NEW as \in {"remote", "refused"}, NEW m \in Word
    PROVE  Answered(Answer(a, c, as, m), c, as, m)
<1>1. PICK e : e = TakeOne(a, c)
  OBVIOUS
<1>2. /\ e \in ACable /\ Alike(e, c) /\ e.toQ = Tail(c.toQ) /\ e.fromQ = c.fromQ
      /\ e.whole = c.whole
  <2>1. e.whole = c.whole
    BY <1>1 DEF TakeOne, ACable, CableOf
  <2> QED BY <1>1, <2>1, Taken, TakenFields DEF ACable
<1>3. PICK f : f = [e EXCEPT !.as = as]
  OBVIOUS
<1>4. /\ f \in ACable /\ f.from = e.from /\ f.to = e.to /\ f.id = e.id /\ f.as = as
      /\ f.fromUp = e.fromUp /\ f.toUp = e.toUp /\ f.whole = e.whole
      /\ f.toQ = e.toQ /\ f.fromQ = e.fromQ
  BY <1>2, <1>3 DEF ACable, CableOf
<1>5. PICK d : d = SendFrom(f, m)
  OBVIOUS
<1>6. Alike(d, f) /\ d.toQ = f.toQ
      /\ d.fromQ = IF f.whole /\ f.fromUp THEN Append(f.fromQ, m) ELSE f.fromQ
  BY <1>4, <1>5, SentFields
<1>7. d = Answer(a, c, as, m)
  BY <1>1, <1>3, <1>5 DEF Answer
<1>8. d.fromQ = IF c.whole /\ c.fromUp THEN Append(c.fromQ, m) ELSE c.fromQ
  BY <1>2, <1>4, <1>6 DEF Alike
<1>9. Answered(d, c, as, m)
  BY <1>2, <1>4, <1>6, <1>8 DEF Alike, Answered
<1> QED BY <1>7, <1>9

LEMMA AcceptConnectAt ==
    ASSUME NInv, IInv', NEW a \in Node, NEW c \in Ends(a, cables), AcceptConnect(a, c)
    PROVE  NInv'
<1>1. /\ c \in cables /\ c \in ACable /\ cables \subseteq ACable /\ c.to = a
      /\ Inbox(a, c) # <<>> /\ "ACCEPT" \in Word
  BY AllCables DEF NInv, AcceptConnect, Reads, Ends, Word
<1>d. PICK d : d = Answer(a, c, "remote", "ACCEPT")
  OBVIOUS
<1>2. d.from = c.from /\ d.to = c.to /\ d.as = "remote" /\ d.fromUp = c.fromUp /\ d.toUp = c.toUp
  <2>1. Answered(d, c, "remote", "ACCEPT")
    BY <1>1, <1>d, AnsweredFields
  <2> QED BY <2>1 DEF Answered
<1>3. PICK ns : ns = known[a] \cup {c.from} \cup Explicit[c.from]
  OBVIOUS
<1>4. /\ cables' = Swap(c, d) /\ known' = [known EXCEPT ![a] = ns]
      /\ Evaluate(a, Swap(c, d), ns)
      /\ UNCHANGED loop /\ ~NameTaken(a, c)
  BY <1>d, <1>3 DEF AcceptConnect, Answer
<1>5. known'[a] = ns /\ known[a] \subseteq ns /\ \A m \in Node \ {a} : known'[m] = known[m]
  BY <1>3, <1>4 DEF NInv, IInv, Types
<1>6. KnownOK'
  BY <1>1, <1>2, <1>4, <1>5, KnownSwap DEF NInv
<1>7. NamesUnique(cables)'
  <2>1. ASSUME NEW f \in cables \ {c}, Accepted(d, f) \/ Accepted(f, d) PROVE FALSE
    <3>1. CASE c.fromUp /\ f.fromUp
      BY <1>1, <1>2, <2>1, <3>1 DEF Accepted, NInv, NamesUnique
    <3>2. CASE ~(c.fromUp /\ f.fromUp)
      <4>1. f \in Ends(a, cables) \ {c} /\ f.to = a /\ f.from = c.from /\ f.as = "remote"
        BY <1>1, <1>2, <2>1, <3>2 DEF Accepted, Ends
      <4> QED BY <1>4, <4>1 DEF NameTaken
    <3> QED BY <3>1, <3>2
  <2>2. ASSUME NEW e \in cables', NEW f \in cables', Accepted(e, f) PROVE e = f
    <3>1. (e = d \/ e \in cables \ {c}) /\ (f = d \/ f \in cables \ {c})
      BY <1>4 DEF Swap, InUse
    <3> QED BY <2>1, <2>2, <3>1 DEF NInv, NamesUnique
  <2> QED BY <2>2 DEF NamesUnique
<1>8. /\ AcceptorAt(a)'
      /\ \A m \in Node \ {a} : status'[m] = status[m] /\ (m \notin hung' => m \notin hung)
                              /\ (m \notin stale' => m \notin stale)
  BY <1>4, <1>5, <1>6, <1>7, EvaluatedAt DEF NInv
<1>9. ASSUME NEW m \in Node \ {a} PROVE AcceptorAt(m)'
  <2>1. View(m, cables, Swap(c, d)) /\ AcceptorAt(m)
    BY <1>1, <1>2, SwapView DEF Seen, NInv
  <2> QED BY <1>4, <1>5, <1>8, <2>1, ViewKeeps
<1> QED BY <1>6, <1>7, <1>8, <1>9 DEF NInv

LEMMA RefuseConnectAt ==
    ASSUME NInv, IInv', NEW a \in Node, NEW c \in Ends(a, cables), RefuseConnect(a, c)
    PROVE  NInv'
<1>1. /\ c \in cables /\ c \in ACable /\ cables \subseteq ACable /\ c.to = a
      /\ Inbox(a, c) # <<>> /\ "REFUSE" \in Word
  BY AllCables DEF NInv, RefuseConnect, Reads, Ends, Word
<1>d. PICK d : d = Answer(a, c, "refused", "REFUSE")
  OBVIOUS
<1>2. d.from = c.from /\ d.to = c.to /\ d.as = "refused" /\ d.fromUp = c.fromUp /\ d.toUp = c.toUp
  <2>1. Answered(d, c, "refused", "REFUSE")
    BY <1>1, <1>d, AnsweredFields
  <2> QED BY <2>1 DEF Answered
<1>3. cables' = Swap(c, d) /\ UNCHANGED <<loop, known, status, hung, stale>>
  BY <1>d DEF RefuseConnect, Answer
<1>4. KnownOK'
  BY <1>1, <1>2, <1>3, KnownSwap DEF NInv
<1>5. NamesUnique(Swap(c, d))
  <2>1. ~(d.toUp /\ d.as = "remote") /\ NamesUnique(cables)
    BY <1>2 DEF NInv
  <2> QED BY <1>1, <1>2, <2>1, NamesSwap
<1>6. NamesUnique(cables)'
  BY <1>3, <1>5 DEF NamesUnique
<1>7. AcceptorAt(a)'
  <2>1. c.toUp
    BY <1>1, CableFields DEF Ends
  <2>2. d \in Ends(a, cables')
    BY <1>1, <1>2, <1>3, <2>1 DEF Swap, InUse, Ends
  <2> QED BY <1>2, <2>2 DEF AcceptorAt, Acceptor
<1>8. ASSUME NEW m \in Node \ {a} PROVE AcceptorAt(m)'
  <2>1. View(m, cables, Swap(c, d)) /\ AcceptorAt(m)
    BY <1>1, <1>2, SwapView DEF Seen, NInv
  <2> QED BY <1>3, <2>1, ViewKeeps
<1> QED BY <1>4, <1>6, <1>7, <1>8 DEF NInv

LEMMA ReadAcceptAt ==
    ASSUME NInv, IInv', NEW n \in Node, NEW c \in Ends(n, cables), ReadAccept(n, c)
    PROVE  NInv'
<1>1. c \in cables /\ c \in ACable
  BY AllCables DEF NInv, Ends
<1>2. PICK d : d = TakeOne(n, c)
  OBVIOUS
<1>3. Alike(d, c) /\ cables' = Swap(c, d) /\ UNCHANGED <<loop, status, hung, stale>>
      /\ c.to # n
  BY <1>1, <1>2, TakenFields, CableFields DEF ReadAccept
<1>4. Shut(d, c) /\ \A m \in Node : Kept(m, d, c)
  BY <1>3 DEF Alike, Shut, Kept
<1>5. known'[n] = known[n] \cup Explicit[c.to] /\ \A m \in Node \ {n} : known'[m] = known[m]
  BY DEF ReadAccept, NInv, IInv, Types
<1>6. \A m \in Node : known[m] \subseteq known'[m]
  BY <1>5
<1>7. /\ KnownOK' /\ NamesUnique(cables)'
      /\ \A m \in Node : known'[m] = known[m] => AcceptorAt(m)'
  BY <1>1, <1>3, <1>4, <1>6, ShutStep
<1>8. AcceptorAt(n)'
  <2>1. d \in Ends(n, cables') /\ d.to # n
    BY <1>3 DEF Ends, Swap, InUse, Alike
  <2> QED BY <2>1 DEF AcceptorAt, Acceptor
<1> QED BY <1>5, <1>7, <1>8 DEF NInv

LEMMA ReadRefuseAt ==
    ASSUME NInv, IInv', NEW n \in Node, NEW c \in Ends(n, cables), ReadRefuse(n, c)
    PROVE  NInv'
<1>1. c \in cables /\ c \in ACable
  BY AllCables DEF NInv, Ends
<1>2. PICK d : d = CloseFrom(c)
  OBVIOUS
<1>3. Shut(d, c) /\ d.toUp = c.toUp /\ d.fromUp = FALSE
  BY <1>1, <1>2, ClosedFields DEF Shut
<1>4. cables' = Swap(c, d) /\ UNCHANGED <<loop, known, status, hung, stale>>
  BY <1>2 DEF ReadRefuse
<1>5. /\ KnownOK' /\ NamesUnique(cables)'
      /\ \A m \in Node : Kept(m, d, c) => AcceptorAt(m)'
  BY <1>1, <1>3, <1>4, ShutStep
<1>6. ASSUME NEW m \in Node, ~Kept(m, d, c) PROVE AcceptorAt(m)'
  <2>1. c.from = m /\ c.fromUp
    BY <1>1, <1>3, <1>6, CableFields DEF Kept
  <2>2. c.to \in known'[m]
    BY <1>1, <1>4, <2>1 DEF NInv, KnownOK
  <2>3. ~ m <= c.to
    BY <1>1, <2>1, CableFields
  <2> QED BY <2>2, <2>3 DEF AcceptorAt, Acceptor
<1> QED BY <1>5, <1>6 DEF NInv

LEMMA ReadDisconnectAt ==
    ASSUME NInv, IInv', NEW n \in Node, NEW c \in Ends(n, cables), ReadDisconnect(n, c)
    PROVE  NInv'
<1>1. c \in cables /\ c \in ACable /\ Alike(c, c)
  BY AllCables DEF NInv, Ends, Alike
<1>2. PICK d : d = CloseEnd(n, c)
  OBVIOUS
<1>3. Shut(d, c) /\ \A m \in Node \ {n} : Kept(m, d, c)
  BY <1>1, <1>2, ClosedEnd
<1>4. /\ cables' = Swap(c, d) /\ UNCHANGED <<loop, known>>
      /\ Evaluate(n, cables', known'[n])
  BY <1>2 DEF ReadDisconnect
<1>5. /\ KnownOK' /\ NamesUnique(cables)'
      /\ \A m \in Node :
            Kept(m, d, c) /\ status'[m] = status[m]
              /\ (m \notin hung' => m \notin hung) /\ (m \notin stale' => m \notin stale)
            => AcceptorAt(m)'
  BY <1>1, <1>3, <1>4, ShutStep
<1>6. /\ AcceptorAt(n)'
      /\ \A m \in Node \ {n} : status'[m] = status[m] /\ (m \notin hung' => m \notin hung)
                              /\ (m \notin stale' => m \notin stale)
  BY <1>4, <1>5, EvaluatedAt DEF NInv
<1> QED BY <1>3, <1>5, <1>6 DEF NInv

LEMMA AcceptorInductive == IInv' /\ NInv /\ [Next]_vars => NInv'
<1> SUFFICES ASSUME IInv', NInv, [Next]_vars PROVE NInv'
  OBVIOUS
<1>1. ASSUME NEW n \in Node, Start(n) \/ LocalsDrained(n) \/ LoopEnds(n) PROVE NInv'
  BY <1>1, StartAt, StoppingAt
<1>2. ASSUME NEW n \in Node, NEW quit \in BOOLEAN, Stop(n, quit) PROVE NInv'
  BY <1>2, StopAt
<1>3. ASSUME NEW n \in Node, NEW a \in Node,
             Dial(n, a) \/ Gossips(n, a) \/ LastGossip(n, a) \/ Forget(n, a)
      PROVE  NInv'
  BY <1>3, DialAt, LearnAt, ForgetAt
<1>4. ASSUME NEW c \in cables, Cut(c) PROVE NInv'
  BY <1>4, CutAt
<1>5. ASSUME NEW n \in Node, NEW c \in Ends(n, cables), Handle(n, c) \/ Drained(n, c)
      PROVE  NInv'
  <2>1. c \in cables
    BY DEF Ends
  <2> QED BY <1>5, <2>1, QuietAt, ReadShutdownAt, AcceptConnectAt, RefuseConnectAt,
             ReadAcceptAt, ReadRefuseAt, ReadDisconnectAt DEF Handle
<1>6. CASE UNCHANGED vars
  <2>1. \A n \in Node : AcceptorAt(n)'
    BY <1>6, SameAt DEF vars
  <2> QED BY <1>6, <2>1, SameAt DEF vars, NInv
<1> QED BY <1>1, <1>2, <1>3, <1>4, <1>5, <1>6 DEF Next

LEMMA AcceptorInitially == Init => NInv
<1> SUFFICES ASSUME Init PROVE NInv
  OBVIOUS
<1>1. IInv
  BY Initially
<1>2. KnownOK /\ NamesUnique(cables)
  BY DEF Init, KnownOK, NamesUnique
<1>3. ASSUME NEW n \in Node PROVE AcceptorAt(n)
  <2>1. PICK total : total = AtLeastOne(Cardinality(known[n]))
    OBVIOUS
  <2>2. known[n] \in SUBSET Node
    BY <1>1 DEF IInv, Types
  <2>3. total \in Nat
    BY <2>1, <2>2, Counted
  <2>4. status[n] = StatusOf(1, total)
    BY <2>1 DEF Init
  <2>5. Peers(n, cables) = {}
    BY DEF Init, Peers, Ends
  <2>6. 1 + Cardinality(Peers(n, cables)) = 1
    BY <2>5, FS_EmptySet
  <2>7. /\ (status[n].status = "UP") <=> (2 * 1 > total)
        /\ (status[n].complete = "COMPLETE") <=> (1 = total)
    BY <2>3, <2>4, Majority
  <2> QED BY <2>1, <2>6, <2>7 DEF AcceptorAt, Announced
<1> QED BY <1>1, <1>2, <1>3 DEF NInv

\* The status file and the local services of a daemon that only accepts connections,
\* saw no hang up and has answered its CONNECTs say what is so: count_live_connections()
\* counts each computer once and cluster_status() was called since it last changed. FORGET
\* and GOSSIP, which change the neighbors without it, and a gossip connection that was
\* counted are the exceptions that AcceptorStatus names.
THEOREM AcceptorRight == Spec => []AcceptorStatus
<1>1. NInv => AcceptorStatus
  BY DEF NInv, AcceptorAt, Acceptor, Announced, AcceptorStatus
<1>2. IInv /\ NInv /\ [Next]_vars => IInv' /\ NInv'
  BY Inductive, AcceptorInductive
<1>3. Init => IInv /\ NInv
  BY Initially, AcceptorInitially
<1> QED BY <1>1, <1>2, <1>3, PTL DEF Spec

-----------------------------------------------------------------------------
(* Where a SHUTDOWN is until it is read.                                    *)

\* A daemon says its parting word once on each connection, and only as it stops; an end
\* that did not accept a CONNECT says no SHUTDOWN.
Parting(q) == Has(q, "DISCONNECT") \/ Has(q, "SHUTDOWN")
OneWord(q) == ~(Has(q, "DISCONNECT") /\ Has(q, "SHUTDOWN"))
Fit(c, l) ==
    /\ ~Has(c.toQ, "REFUSE") /\ ConnectFirst(c.toQ, c.as)
    /\ Has(c.fromQ, "SHUTDOWN") => c.as = "remote"
    /\ Has(c.fromQ, "REFUSE") => c.as = "refused"
    /\ OneWord(c.toQ) /\ OneWord(c.fromQ)
    /\ Parting(c.fromQ) => ~(c.toUp /\ l[c.to] = "run")
    /\ Parting(c.toQ) => ~(c.fromUp /\ l[c.from] = "run")

\* A daemon that ended has no connection.
EndedAlone == \A n \in Node : loop[n] = "ended" => Ends(n, cables) = {}

\* A daemon that was linked to the one that got SHUTDOWN, and runs still, is to read it.
Told(n, cs) == \E c \in Ends(n, cs) : Has(Inbox(n, c), "SHUTDOWN")
MatesTold == /\ \A n \in mates : loop[n] = "run"
             /\ ~dropped => \A n \in mates : Told(n, cables)

\* The inductive invariant.
SInv == IInv /\ (\A c \in cables : Fit(c, loop)) /\ EndedAlone /\ MatesTold

LEMMA TellsHas == \A q : Tells(q) <=> Has(q, "SHUTDOWN")
BY DEF Tells, Has

LEMMA FitFewer ==
    ASSUME NEW l, NEW m, NEW c, Fit(c, l), NEW d, d.from = c.from, d.to = c.to, d.as = c.as,
           d.fromUp => c.fromUp, d.toUp => c.toUp, Fewer(d, c), ConnectFirst(d.toQ, d.as),
           m[c.from] = "run" => l[c.from] = "run", m[c.to] = "run" => l[c.to] = "run"
    PROVE  Fit(d, m)
BY DEF Fit, Fewer, Parting, OneWord

\* A step that changes one cable leaves a SHUTDOWN that a running daemon is to read.
LEMMA SwapTold ==
    ASSUME NEW n \in Node, NEW c \in cables, NEW d, d.from = c.from, d.to = c.to,
           Told(n, cables),
           c \in Ends(n, cables) /\ Has(Inbox(n, c), "SHUTDOWN")
             => Kept(n, d, c) /\ Has(Inbox(n, d), "SHUTDOWN")
    PROVE  Told(n, Swap(c, d))
<1>1. PICK e \in Ends(n, cables) : Has(Inbox(n, e), "SHUTDOWN")
  BY DEF Told
<1>2. CASE e = c
  <2>1. d \in Ends(n, Swap(c, d)) /\ Has(Inbox(n, d), "SHUTDOWN")
    BY <1>1, <1>2 DEF Ends, Swap, InUse, Kept
  <2> QED BY <2>1 DEF Told
<1>3. CASE e # c
  <2>1. e \in Ends(n, Swap(c, d))
    BY <1>1, <1>3 DEF Ends, Swap, InUse
  <2> QED BY <1>1, <2>1 DEF Told
<1> QED BY <1>2, <1>3

LEMMA SwapAt ==
    ASSUME SInv, IInv', NEW c \in cables, NEW d, d.from = c.from, d.to = c.to,
           d.fromUp => c.fromUp, d.toUp => c.toUp, Fit(d, loop),
           cables' = Swap(c, d), loop' = loop, mates' = mates,
           ~dropped' => ~dropped,
           ~dropped' => \A n \in Node : c \in Ends(n, cables) /\ loop[n] = "run"
                                          /\ Has(Inbox(n, c), "SHUTDOWN")
                                        => Kept(n, d, c) /\ Has(Inbox(n, d), "SHUTDOWN")
    PROVE  SInv'
<1>1. \A e \in Swap(c, d) : e = d \/ e \in cables
  BY DEF Swap, InUse
<1>2. \A e \in cables' : Fit(e, loop)
  BY <1>1 DEF SInv
<1>3. EndedAlone'
  <2>1. \A n \in Node : Ends(n, cables) = {} => Ends(n, Swap(c, d)) = {}
    BY <1>1 DEF Ends
  <2> QED BY <2>1 DEF SInv, EndedAlone
<1>4. MatesTold'
  <2>1. ASSUME ~dropped', NEW n \in mates PROVE Told(n, Swap(c, d))
    <3>1. n \in Node /\ loop[n] = "run" /\ Told(n, cables)
      BY <2>1 DEF SInv, MatesTold, IInv, Types
    <3> QED BY <2>1, <3>1, SwapTold
  <2> QED BY <2>1 DEF SInv, MatesTold, Told
<1> QED BY <1>2, <1>3, <1>4 DEF SInv

LEMMA ReadTold ==
    ASSUME SInv, IInv', NEW n \in Node, NEW c \in Ends(n, cables), NEW w, Reads(n, c, w),
           w # "SHUTDOWN", cables' = Swap(c, TakeOne(n, c)), UNCHANGED <<loop, mates, dropped>>
    PROVE  SInv'
<1>1. /\ c \in cables /\ c \in ACable /\ Fit(c, loop)
      /\ Inbox(n, c) # <<>> /\ Head(Inbox(n, c)) = w
  BY AllCables DEF SInv, Ends, Reads
<1>2. PICK d : d = TakeOne(n, c)
  OBVIOUS
<1>3. /\ Alike(d, c)
      /\ d.toQ = IF c.to = n THEN Tail(c.toQ) ELSE c.toQ
      /\ d.fromQ = IF c.to = n THEN c.fromQ ELSE Tail(c.fromQ)
  BY <1>1, <1>2, TakenFields
<1>4. c.toQ \in Seq(Word) /\ c.fromQ \in Seq(Word)
  BY <1>1, CableFields
<1>5. Fewer(d, c) /\ ConnectFirst(d.toQ, c.as)
  <2>1. CASE c.to = n
    <3>1. c.toQ # <<>>
      BY <1>1, <2>1 DEF Inbox
    <3>2. \A m : Has(Tail(c.toQ), m) => Has(c.toQ, m)
      BY <1>4, <3>1, HasTail
    <3>3. ConnectFirst(Tail(c.toQ), c.as)
      BY <1>1, <1>4, <3>1, FirstTail DEF Fit
    <3> QED BY <1>3, <2>1, <3>2, <3>3 DEF Fewer
  <2>2. CASE c.to # n
    <3>1. c.fromQ # <<>>
      BY <1>1, <2>2 DEF Inbox
    <3>2. \A m : Has(Tail(c.fromQ), m) => Has(c.fromQ, m)
      BY <1>4, <3>1, HasTail
    <3> QED BY <1>1, <1>3, <2>2, <3>2 DEF Fewer, Fit
  <2> QED BY <2>1, <2>2
<1>6. Fit(d, loop)
  BY <1>1, <1>3, <1>5, FitFewer DEF Alike
<1>7. ASSUME NEW m \in Node, c \in Ends(m, cables), Has(Inbox(m, c), "SHUTDOWN")
      PROVE  Kept(m, d, c) /\ Has(Inbox(m, d), "SHUTDOWN")
  <2>1. Kept(m, d, c)
    BY <1>3 DEF Alike, Kept
  <2>2. CASE m = n
    <3>1. Inbox(n, c) \in Seq(Word) /\ Inbox(n, d) = Tail(Inbox(n, c))
      BY <1>3, <1>4 DEF Inbox, Alike
    <3> QED BY <1>1, <1>7, <2>1, <2>2, <3>1, HasTail
  <2>3. CASE m # n
    <3>1. Inbox(m, d) = Inbox(m, c)
      BY <1>1, <1>3, <1>7, <2>3, CableFields DEF Inbox, Ends, Alike
    <3> QED BY <1>7, <2>1, <3>1
  <2> QED BY <2>2, <2>3
<1> QED BY <1>1, <1>2, <1>3, <1>6, <1>7, SwapAt DEF Alike

\* An end is closed by a daemon that stops, or has no SHUTDOWN to read there.
LEMMA EndClosed ==
    ASSUME SInv, IInv', NEW n \in Node, NEW c \in Ends(n, cables), NEW d \in ACable, Alike(d, c),
           cables' = Swap(c, CloseEnd(n, d)), UNCHANGED <<loop, mates>>,
           Fewer(d, c), ConnectFirst(d.toQ, c.as),
           ~dropped' => ~dropped /\ StillShutdown(n, d, c),
           ~dropped' /\ loop[n] = "run" => ~Has(Inbox(n, c), "SHUTDOWN")
    PROVE  SInv'
<1>1. c \in cables /\ c \in ACable /\ Fit(c, loop)
  BY AllCables DEF SInv, Ends
<1>2. PICK e : e = CloseEnd(n, d)
  OBVIOUS
<1>3. Shut(e, c) /\ \A m \in Node \ {n} : Kept(m, e, c)
  BY <1>1, <1>2, ClosedEnd
<1>4. /\ e.toQ = IF c.to = n THEN <<>> ELSE d.toQ
      /\ e.fromQ = IF c.to = n THEN d.fromQ ELSE <<>>
  BY <1>2, ClosedFields DEF CloseEnd, Alike
<1>5. Fewer(e, c)
  BY <1>4, HasNothing DEF Fewer
<1>6. ConnectFirst(e.toQ, c.as)
  BY <1>4 DEF ConnectFirst
<1>7. Fit(e, loop)
  BY <1>1, <1>3, <1>5, <1>6, FitFewer DEF Shut
<1>8. ASSUME ~dropped', NEW m \in Node, c \in Ends(m, cables), loop[m] = "run",
             Has(Inbox(m, c), "SHUTDOWN")
      PROVE  Kept(m, e, c) /\ Has(Inbox(m, e), "SHUTDOWN")
  <2>1. m # n
    BY <1>8
  <2>2. CASE c.to = n
    <3>1. Has(c.fromQ, "SHUTDOWN") /\ Inbox(m, e) = d.fromQ
      BY <1>3, <1>4, <1>8, <2>1, <2>2 DEF Inbox, Shut
    <3> QED BY <1>3, <1>8, <2>1, <2>2, <3>1 DEF StillShutdown
  <2>3. CASE c.to # n
    <3>1. c.to = m
      BY <1>1, <1>8, <2>1, <2>3 DEF Ends
    <3>2. Has(c.toQ, "SHUTDOWN") /\ Inbox(m, e) = d.toQ
      BY <1>3, <1>4, <1>8, <2>3, <3>1 DEF Inbox, Shut
    <3> QED BY <1>3, <1>8, <2>1, <2>3, <3>2 DEF StillShutdown
  <2> QED BY <2>2, <2>3
<1> QED BY <1>1, <1>2, <1>3, <1>7, <1>8, SwapAt DEF Shut

\* The first message is one of the queue.
LEMMA HeadRead ==
    ASSUME NEW c \in ACable, NEW n, NEW w, Inbox(n, c) # <<>>, Head(Inbox(n, c)) = w
    PROVE  IF c.to = n THEN Has(c.toQ, w) /\ c.toQ # <<>> /\ c.toQ[1] = w /\ 1 \in DOMAIN c.toQ
           ELSE Has(c.fromQ, w)
<1>1. c.toQ \in Seq(Word) /\ c.fromQ \in Seq(Word)
  BY CableFields
<1>2. CASE c.to = n
  <2>1. c.toQ # <<>> /\ Head(c.toQ) = w
    BY <1>2 DEF Inbox
  <2>2. Has(c.toQ, w)
    BY <1>1, <2>1, HasTail
  <2> QED BY <1>1, <1>2, <2>1, <2>2
<1>3. CASE c.to # n
  <2>1. c.fromQ # <<>> /\ Head(c.fromQ) = w
    BY <1>3 DEF Inbox
  <2> QED BY <1>1, <1>3, <2>1, HasTail
<1> QED BY <1>2, <1>3

LEMMA ClosingSaid ==
    ASSUME SInv, IInv', NEW n \in Node, NEW c \in Ends(n, cables),
           \/ Drained(n, c) \/ HangUp(n, c) \/ ShuttingDown(n, c)
           \/ ReadDisconnect(n, c) \/ ReadRefuse(n, c)
    PROVE  SInv'
<1>1. /\ c \in cables /\ c \in ACable /\ Fit(c, loop) /\ Alike(c, c) /\ Fewer(c, c)
      /\ ConnectFirst(c.toQ, c.as) /\ StillShutdown(n, c, c)
  BY AllCables DEF SInv, Ends, Alike, Fewer, Fit, StillShutdown
<1>2. CASE Drained(n, c)
  BY <1>1, <1>2, EndClosed DEF Drained
<1>3. CASE HangUp(n, c)
  <2>1. ~Has(Inbox(n, c), "SHUTDOWN")
    BY <1>3, HasNothing DEF HangUp, SeesHangUp
  <2> QED BY <1>1, <1>3, <2>1, EndClosed DEF HangUp
<1>4. CASE ShuttingDown(n, c)
  <2>1. PICK d \in ACable : /\ Alike(d, c) /\ cables' = Swap(c, CloseEnd(n, d))
                            /\ Fewer(d, c)
                            /\ ConnectFirst(c.toQ, c.as) => ConnectFirst(d.toQ, c.as)
                            /\ ~dropped' => ~dropped /\ StillShutdown(n, d, c)
    BY <1>1, <1>4, ShuttingDownEnd
  <2>2. loop[n] # "run" /\ UNCHANGED <<loop, mates>>
    BY <1>4 DEF ShuttingDown
  <2> QED BY <1>1, <2>1, <2>2, EndClosed
<1>5. CASE ReadDisconnect(n, c)
  <2>1. ~Has(Inbox(n, c), "SHUTDOWN")
    <3>1. Has(Inbox(n, c), "DISCONNECT")
      BY <1>1, <1>5, HeadRead DEF ReadDisconnect, Reads, Inbox
    <3> QED BY <1>1, <3>1 DEF Fit, OneWord, Inbox
  <2> QED BY <1>1, <1>5, <2>1, EndClosed DEF ReadDisconnect
<1>6. CASE ReadRefuse(n, c)
  <2>1. c.to # n /\ Has(c.fromQ, "REFUSE")
    BY <1>1, <1>6, HeadRead DEF ReadRefuse, Reads, Fit
  <2>2. ~Has(Inbox(n, c), "SHUTDOWN")
    BY <1>1, <2>1 DEF Inbox, Fit
  <2>3. CloseFrom(c) = CloseEnd(n, c)
    BY <2>1 DEF CloseEnd
  <2> QED BY <1>1, <1>6, <2>2, <2>3, EndClosed DEF ReadRefuse
<1> QED BY <1>2, <1>3, <1>4, <1>5, <1>6

LEMMA ReadingSaid ==
    ASSUME SInv, IInv', NEW n \in Node, NEW c \in Ends(n, cables),
           ReadQuitting(n, c) \/ IgnoreDisconnect(n, c) \/ ReadAccept(n, c)
    PROVE  SInv'
BY ReadTold DEF ReadQuitting, IgnoreDisconnect, ReadAccept

\* The answer to a CONNECT.
LEMMA AnswerSaid ==
    ASSUME SInv, IInv', NEW a \in Node, NEW c \in Ends(a, cables),
           AcceptConnect(a, c) \/ RefuseConnect(a, c)
    PROVE  SInv'
<1>1. /\ c \in cables /\ c \in ACable /\ Fit(c, loop) /\ c.to = a
      /\ Inbox(a, c) # <<>> /\ Head(Inbox(a, c)) = "CONNECT" /\ UNCHANGED <<loop, mates, dropped>>
  BY AllCables DEF SInv, Ends, AcceptConnect, RefuseConnect, Reads
<1>2. PICK as \in {"remote", "refused"}, w \in {"ACCEPT", "REFUSE"} :
        (w = "REFUSE" => as = "refused") /\ cables' = Swap(c, Answer(a, c, as, w))
  BY DEF AcceptConnect, RefuseConnect, Answer
<1>3. PICK d : d = Answer(a, c, as, w)
  OBVIOUS
<1>4. Answered(d, c, as, w) /\ w \in Word
  BY <1>1, <1>3, AnsweredFields DEF Word
<1>5. c.toQ \in Seq(Word) /\ c.fromQ \in Seq(Word)
  BY <1>1, CableFields
<1>6. c.toQ # <<>> /\ Head(c.toQ) = "CONNECT" /\ c.as = "new"
  BY <1>1, HeadRead DEF Inbox, Fit, ConnectFirst
<1>7. \A m : Has(d.toQ, m) => Has(c.toQ, m)
  BY <1>4, <1>5, <1>6, HasTail DEF Answered
<1>8. \A m : Has(c.toQ, m) /\ m # "CONNECT" => Has(d.toQ, m)
  BY <1>4, <1>5, <1>6, HasTail DEF Answered
<1>9. \A m : (Has(d.fromQ, m) => Has(c.fromQ, m) \/ m = w) /\ (Has(c.fromQ, m) => Has(d.fromQ, m))
  <2>1. \A m : Has(Append(c.fromQ, w), m) <=> Has(c.fromQ, m) \/ m = w
    BY <1>4, <1>5, HasAppended
  <2>2. d.fromQ = c.fromQ \/ d.fromQ = Append(c.fromQ, w)
    BY <1>4 DEF Answered
  <2> QED BY <2>1, <2>2
<1>10. ConnectFirst(d.toQ, d.as)
  BY <1>1, <1>4, <1>5, <1>6, FirstTail DEF Fit, Answered
<1>11. Fit(d, loop)
  <2>1. ~Has(c.fromQ, "SHUTDOWN") /\ ~Has(c.fromQ, "REFUSE")
    BY <1>1, <1>6 DEF Fit
  <2>2. ~Has(d.fromQ, "SHUTDOWN") /\ (Has(d.fromQ, "REFUSE") => w = "REFUSE")
    BY <1>2, <1>9, <2>1
  <2>3. Has(d.fromQ, "DISCONNECT") => Has(c.fromQ, "DISCONNECT")
    BY <1>2, <1>9
  <2> QED BY <1>1, <1>2, <1>4, <1>7, <1>10, <2>2, <2>3 DEF Fit, Answered, Parting, OneWord
<1>12. ASSUME NEW m \in Node, Has(Inbox(m, c), "SHUTDOWN")
       PROVE  Kept(m, d, c) /\ Has(Inbox(m, d), "SHUTDOWN")
  BY <1>4, <1>8, <1>9, <1>12 DEF Answered, Kept, Inbox
<1> QED BY <1>1, <1>2, <1>3, <1>4, <1>11, <1>12, SwapAt DEF Answered

LEMMA CutSaid ==
    ASSUME SInv, IInv', NEW c \in cables, Cut(c)
    PROVE  SInv'
<1>1. c \in ACable /\ Fit(c, loop)
  BY AllCables DEF SInv
<1>2. PICK d : /\ d = [c EXCEPT !.whole = FALSE, !.toQ = <<>>, !.fromQ = <<>>]
               /\ Alike(d, c) /\ d.toQ = <<>> /\ d.fromQ = <<>>
  BY <1>1, CutFields
<1>3. cables' = Swap(c, d) /\ UNCHANGED <<loop, mates>>
  BY <1>2 DEF Cut
<1>4. ~dropped' => ~dropped /\ ~Has(c.toQ, "SHUTDOWN") /\ ~Has(c.fromQ, "SHUTDOWN")
  BY TellsHas DEF Cut
<1>5. Fewer(d, c) /\ ConnectFirst(d.toQ, d.as)
  BY <1>2, HasNothing DEF Fewer, ConnectFirst
<1>6. Fit(d, loop)
  BY <1>1, <1>2, <1>5, FitFewer DEF Alike
<1>7. ~dropped' => \A n \in Node : ~Has(Inbox(n, c), "SHUTDOWN")
  BY <1>4 DEF Inbox
<1> QED BY <1>2, <1>3, <1>4, <1>6, <1>7, SwapAt DEF Alike

LEMMA DialSaid ==
    ASSUME SInv, IInv', NEW n \in Node, NEW a \in Node, Dial(n, a)
    PROVE  SInv'
<1>0. PICK i : i = CHOOSE k \in Free(n, a) : TRUE
  OBVIOUS
<1>c. PICK c : c = [from |-> n, to |-> a, id |-> i, fromUp |-> TRUE, toUp |-> TRUE,
                    whole |-> TRUE, as |-> "new", toQ |-> <<"CONNECT">>, fromQ |-> <<>>]
  OBVIOUS
<1>1. /\ cables' = cables \cup {c} /\ loop[n] = "run" /\ loop[a] = "run"
      /\ UNCHANGED <<loop, mates, dropped>>
  BY <1>0, <1>c DEF Dial
<1>2. Fit(c, loop)
  <2>1. \A m : Has(c.toQ, m) <=> m = "CONNECT"
    BY <1>c DEF Has
  <2>2. \A m : ~Has(c.fromQ, m)
    BY <1>c, HasNothing
  <2>3. ConnectFirst(c.toQ, c.as)
    BY <1>c DEF ConnectFirst
  <2> QED BY <2>1, <2>2, <2>3 DEF Fit, Parting, OneWord
<1>3. \A e \in cables' : Fit(e, loop')
  BY <1>1, <1>2 DEF SInv
<1>4. EndedAlone'
  BY <1>1, <1>c DEF SInv, EndedAlone, Ends
<1>5. MatesTold'
  <2>1. \A m \in Node : Ends(m, cables) \subseteq Ends(m, cables')
    BY <1>1 DEF Ends
  <2>2. \A m \in Node : Told(m, cables) => Told(m, cables')
    BY <2>1 DEF Told
  <2>3. mates \subseteq Node
    BY DEF SInv, IInv, Types
  <2> QED BY <1>1, <2>2, <2>3 DEF SInv, MatesTold, Told
<1> QED BY <1>3, <1>4, <1>5 DEF SInv

\* The loop of a daemon starts or ends while it has no connection.
LEMMA LoopSaid ==
    ASSUME SInv, IInv', NEW n \in Node, Start(n) \/ LocalsDrained(n) \/ LoopEnds(n)
    PROVE  SInv'
<1>1. /\ cables' = cables /\ dropped' = dropped
      /\ \A m \in Node \ {n} : loop'[m] = loop[m]
      /\ \/ mates' = mates \ {n}
         \/ mates' = mates /\ loop[n] # "run"
      /\ loop'[n] = loop[n] \/ Ends(n, cables) = {}
      /\ mates \subseteq Node
  BY DEF Start, LocalsDrained, LoopEnds, SInv, EndedAlone, IInv, Types
<1>2. ASSUME NEW c \in cables PROVE Fit(c, loop')
  <2>1. c.from \in Node /\ c.to \in Node /\ Fit(c, loop)
    BY AllCables, CableFields DEF SInv
  <2>2. c.fromUp /\ loop'[c.from] = "run" => loop[c.from] = "run"
    BY <1>1, <2>1 DEF Ends
  <2>3. c.toUp /\ loop'[c.to] = "run" => loop[c.to] = "run"
    BY <1>1, <2>1 DEF Ends
  <2> QED BY <2>1, <2>2, <2>3 DEF Fit
<1>3. EndedAlone'
  <2>1. \A m \in Node : loop'[m] = "ended" => Ends(m, cables) = {}
    BY <1>1 DEF SInv, EndedAlone
  <2> QED BY <1>1, <2>1 DEF EndedAlone
<1>4. MatesTold'
  <2>1. /\ \A m \in mates' : m \in mates /\ m # n
        /\ \A m \in mates' : loop'[m] = "run"
    BY <1>1 DEF SInv, MatesTold
  <2>2. ~dropped' => \A m \in mates' : Told(m, cables)
    BY <1>1, <2>1 DEF SInv, MatesTold
  <2> QED BY <1>1, <2>1, <2>2 DEF MatesTold, Told
<1> QED BY <1>1, <1>2, <1>3, <1>4 DEF SInv

\* Neighbors come without a word between daemons.
LEMMA LearnSaid ==
    ASSUME SInv, IInv', NEW n \in Node, NEW a \in Node, Gossips(n, a) \/ LastGossip(n, a)
    PROVE  SInv'
<1>1. UNCHANGED <<loop, cables, mates, dropped>>
  BY DEF Gossips, LastGossip
<1> QED BY <1>1 DEF SInv, EndedAlone, MatesTold, Told

\* A connection that is forgotten may take a SHUTDOWN with it, which is dropped then.
LEMMA ForgetSaid ==
    ASSUME SInv, IInv', NEW n \in Node, NEW a \in Node, Forget(n, a)
    PROVE  SInv'
<1>1. UNCHANGED <<loop, mates>>
  BY DEF Forget
<1>2. CASE UNCHANGED <<cables, dropped>>
  BY <1>1, <1>2 DEF SInv, EndedAlone, MatesTold, Told
<1>3. ASSUME NEW c \in cables, c.from = n, c.fromUp, cables' = Swap(c, CloseFrom(c)),
             dropped' = (dropped \/ Tells(c.fromQ))
      PROVE  SInv'
  <2>1. /\ c \in ACable /\ c \in Ends(n, cables) /\ c.to # n /\ Fit(c, loop) /\ Alike(c, c) /\ Fewer(c, c)
        /\ ConnectFirst(c.toQ, c.as) /\ StillShutdown(n, c, c)
    BY <1>3, AllCables, CableFields DEF SInv, Ends, Alike, Fewer, Fit, StillShutdown
  <2>2. CloseFrom(c) = CloseEnd(n, c)
    BY <2>1 DEF CloseEnd
  <2>3. ~dropped' => ~dropped /\ ~Has(Inbox(n, c), "SHUTDOWN")
    BY <1>3, <2>1, TellsHas DEF Inbox
  <2> QED BY <1>1, <1>3, <2>1, <2>2, <2>3, EndClosed
<1> QED BY <1>2, <1>3 DEF Forget

\* stop() on one connection of a running daemon.
LEMMA PartSaid ==
    ASSUME Types, NEW n \in Node, loop[n] = "run", loop' = [loop EXCEPT ![n] = "stopping"],
           NEW c \in ACable, Fit(c, loop), NEW word \in {"DISCONNECT", "SHUTDOWN"}
    PROVE  /\ Fit(Part(n, c, word), loop')
           /\ \A m \in Node \ {n} : (c.from = m \/ c.to = m) /\ Has(Inbox(m, c), "SHUTDOWN")
                                      => Has(Inbox(m, Part(n, c, word)), "SHUTDOWN")
<1>1. /\ c.toQ \in Seq(Word) /\ c.fromQ \in Seq(Word) /\ c.from \in Node /\ c.to \in Node
      /\ c.from # c.to /\ word \in Word /\ word # "CONNECT"
  BY CableFields DEF Word
<1>2. loop'[n] = "stopping" /\ \A m \in Node : loop'[m] = "run" => loop[m] = "run"
  BY DEF Types
<1>a. \A q \in Seq(Word) : \A m : Has(Append(q, word), m) <=> Has(q, m) \/ m = word
  BY <1>1, HasAppended
<1>3. CASE c.from = n /\ c.fromUp
  <2>1. PICK d : d = SendTo(c, word)
    OBVIOUS
  <2>2. Part(n, c, word) = d
    BY <1>3, <2>1 DEF Part
  <2>3. /\ Alike(d, c) /\ d.fromQ = c.fromQ
        /\ d.toQ = c.toQ \/ d.toQ = Append(c.toQ, word)
    BY <2>1, SentFields
  <2>4. ~Parting(c.toQ)
    BY <1>3 DEF Fit
  <2>5. \A m : (Has(d.toQ, m) => Has(c.toQ, m) \/ m = word) /\ (Has(c.toQ, m) => Has(d.toQ, m))
    BY <1>1, <1>a, <2>3
  <2>6. ConnectFirst(d.toQ, c.as)
    BY <1>1, <2>3, FirstAppended DEF Fit
  <2>7. ~Has(d.toQ, "REFUSE") /\ OneWord(d.toQ)
    BY <2>4, <2>5 DEF Fit, OneWord, Parting
  <2>8. Fit(d, loop')
    BY <1>1, <1>2, <1>3, <2>3, <2>6, <2>7 DEF Fit, Alike
  <2>9. \A m \in Node : Has(Inbox(m, c), "SHUTDOWN") => Has(Inbox(m, d), "SHUTDOWN")
    BY <2>3, <2>5 DEF Inbox, Alike
  <2> QED BY <2>2, <2>8, <2>9
<1>4. CASE c.to = n /\ c.toUp /\ c.as = "remote"
  <2>1. PICK d : d = SendFrom(c, word)
    OBVIOUS
  <2>2. Part(n, c, word) = d
    BY <1>1, <1>4, <2>1 DEF Part
  <2>3. /\ Alike(d, c) /\ d.toQ = c.toQ
        /\ d.fromQ = c.fromQ \/ d.fromQ = Append(c.fromQ, word)
    BY <2>1, SentFields
  <2>4. ~Parting(c.fromQ)
    BY <1>4 DEF Fit
  <2>5. \A m : /\ Has(d.fromQ, m) => Has(c.fromQ, m) \/ m = word
               /\ Has(c.fromQ, m) => Has(d.fromQ, m)
    BY <1>1, <1>a, <2>3
  <2>6. (Has(d.fromQ, "REFUSE") => c.as = "refused") /\ OneWord(d.fromQ)
    BY <2>4, <2>5 DEF Fit, OneWord, Parting
  <2>7. Fit(d, loop')
    BY <1>1, <1>2, <1>4, <2>3, <2>6 DEF Fit, Alike
  <2>8. \A m \in Node : Has(Inbox(m, c), "SHUTDOWN") => Has(Inbox(m, d), "SHUTDOWN")
    BY <2>3, <2>5 DEF Inbox, Alike
  <2> QED BY <2>2, <2>7, <2>8
<1>5. CASE c.to = n /\ c.toUp /\ c.as # "remote"
  <2>1. PICK d : d = CloseTo(c)
    OBVIOUS
  <2>2. Part(n, c, word) = d
    BY <1>1, <1>5, <2>1 DEF Part
  <2>3. /\ Shut(d, c) /\ d.toQ = <<>> /\ d.fromQ = c.fromQ
    BY <2>1, ClosedFields DEF Shut
  <2>4. Fewer(d, c) /\ ConnectFirst(d.toQ, d.as)
    BY <2>3, HasNothing DEF Fewer, ConnectFirst
  <2>5. Fit(d, loop')
    <3>1. /\ d.from = c.from /\ d.to = c.to /\ d.as = c.as
          /\ d.fromUp => c.fromUp
          /\ d.toUp => c.toUp
      BY <2>3 DEF Shut
    <3>2. /\ loop'[c.from] = "run" => loop[c.from] = "run"
          /\ loop'[c.to] = "run" => loop[c.to] = "run"
      BY <1>1, <1>2
    <3>3. Fit(c, loop)
      OBVIOUS
    <3> QED BY <2>4, <3>1, <3>2, <3>3, FitFewer, Zenon
  <2>6. \A m \in Node \ {n} : Inbox(m, d) = Inbox(m, c)
    BY <1>5, <2>3 DEF Inbox, Shut
  <2> QED BY <2>2, <2>5, <2>6
<1>6. CASE Part(n, c, word) = c
  <2>1. Fit(c, loop')
    BY <1>1, <1>2 DEF Fit
  <2> QED BY <1>6, <2>1
<1> QED BY <1>3, <1>4, <1>5, <1>6 DEF Part

\* stop(), with the connections cs.
LEMMA StopWithSaid ==
    ASSUME SInv, NEW n \in Node, NEW quit \in BOOLEAN, NEW cs \in SUBSET ACable,
           loop[n] = "run", StopWith(n, quit, cs), \A c \in cs : Fit(c, loop),
           \A m \in Node : loop[m] = "ended" => Ends(m, cs) = {}
    PROVE  /\ \A c \in cables' : Fit(c, loop')
           /\ EndedAlone'
           /\ \A m \in Node \ {n} : Told(m, cs) => Told(m, cables')
<1> DEFINE word == PartingWord(quit)
<1>1. /\ cables' = PartingCables(n, cs, word) /\ loop' = [loop EXCEPT ![n] = "stopping"]
      /\ word \in {"DISCONNECT", "SHUTDOWN"}
      /\ loop'[n] = "stopping" /\ \A m \in Node \ {n} : loop'[m] = loop[m]
  BY DEF StopWith, PartingWord, SInv, IInv, Types
<1> HIDE DEF word
<1>2. \A d : d \in cables' <=> (d.fromUp \/ d.toUp) /\ \E c \in cs : d = Part(n, c, word)
  BY <1>1, Parts
<1>3. \A c \in cs :
        /\ Fit(Part(n, c, word), loop')
        /\ \A m \in Node \ {n} : (c.from = m \/ c.to = m) /\ Has(Inbox(m, c), "SHUTDOWN")
                                   => Has(Inbox(m, Part(n, c, word)), "SHUTDOWN")
  BY <1>1, PartSaid DEF SInv, IInv
<1>4. \A c \in cs : /\ Shut(Part(n, c, word), c)
                    /\ \A m \in Node \ {n} : Kept(m, Part(n, c, word), c)
  BY PartFields
<1>5. EndedAlone'
  <2>1. ASSUME NEW m \in Node, loop'[m] = "ended", NEW d \in Ends(m, cables') PROVE FALSE
    <3>1. PICK c \in cs : d = Part(n, c, word)
      BY <1>2 DEF Ends
    <3>2. c \in Ends(m, cs)
      BY <1>4, <3>1 DEF Ends, Shut
    <3> QED BY <1>1, <2>1, <3>2
  <2> QED BY <2>1 DEF EndedAlone
<1>6. ASSUME NEW m \in Node \ {n}, Told(m, cs) PROVE Told(m, cables')
  <2>1. PICK c \in Ends(m, cs) : Has(Inbox(m, c), "SHUTDOWN")
    BY <1>6 DEF Told
  <2>2. PICK d : d = Part(n, c, word)
    OBVIOUS
  <2>3. c \in cs /\ ((c.from = m /\ c.fromUp) \/ (c.to = m /\ c.toUp))
    BY DEF Ends
  <2>4. Shut(d, c) /\ Kept(m, d, c) /\ Has(Inbox(m, d), "SHUTDOWN")
    BY <1>3, <1>4, <2>1, <2>2, <2>3
  <2>5. d \in Ends(m, cables')
    BY <1>2, <2>2, <2>3, <2>4 DEF Ends, Shut, Kept
  <2> QED BY <2>4, <2>5 DEF Told
<1> QED BY <1>2, <1>3, <1>5, <1>6

LEMMA ReadShutdownSaid ==
    ASSUME SInv, IInv', NEW n \in Node, NEW c \in Ends(n, cables), ReadShutdown(n, c)
    PROVE  SInv'
<1>1. /\ cables \subseteq ACable /\ c \in cables /\ c \in ACable /\ Fit(c, loop)
      /\ Inbox(n, c) # <<>> /\ loop[n] = "run" /\ mates' = mates \ {n} /\ UNCHANGED dropped
  BY AllCables DEF SInv, Ends, ReadShutdown, Reads
<1>2. PICK d : d = TakeOne(n, c)
  OBVIOUS
<1>3. /\ d \in ACable /\ Alike(d, c)
      /\ d.toQ = IF c.to = n THEN Tail(c.toQ) ELSE c.toQ
      /\ d.fromQ = IF c.to = n THEN c.fromQ ELSE Tail(c.fromQ)
  BY <1>1, <1>2, Taken, TakenFields DEF ACable
<1>4. PICK cs : cs = Swap(c, d)
  OBVIOUS
<1>5. cs \in SUBSET ACable /\ \A e \in cs : e = d \/ e \in cables
  <2>1. cs \subseteq ACable
    BY <1>1, <1>3, <1>4, Swapped DEF ACable
  <2>2. \A e \in cs : e = d \/ e \in cables
    BY <1>4 DEF Swap, InUse
  <2> QED BY <2>1, <2>2
<1>6. Fit(d, loop)
  <2>1. c.toQ \in Seq(Word) /\ c.fromQ \in Seq(Word)
    BY <1>1, CableFields
  <2>2. Fewer(d, c) /\ ConnectFirst(d.toQ, c.as)
    BY <1>1, <1>3, <2>1, HasTail, FirstTail DEF Fewer, Fit, Inbox
  <2> QED BY <1>1, <1>3, <2>2, FitFewer DEF Alike
<1>7. \A e \in cs : Fit(e, loop)
  BY <1>5, <1>6 DEF SInv
<1>8. \A m \in Node : loop[m] = "ended" => Ends(m, cs) = {}
  <2>1. \A m \in Node : Ends(m, cables) = {} => Ends(m, cs) = {}
    BY <1>1, <1>3, <1>5 DEF Ends, Alike
  <2> QED BY <2>1 DEF SInv, EndedAlone
<1>9. StopWith(n, TRUE, cs)
  BY <1>2, <1>4 DEF ReadShutdown
<1>10. /\ \A e \in cables' : Fit(e, loop')
       /\ EndedAlone'
       /\ \A m \in Node \ {n} : Told(m, cs) => Told(m, cables')
  BY <1>1, <1>5, <1>7, <1>8, <1>9, StopWithSaid
<1>11. \A m \in Node \ {n} : Told(m, cables) => Told(m, Swap(c, d))
  <2>1. ASSUME NEW m \in Node \ {n}, c \in Ends(m, cables), Has(Inbox(m, c), "SHUTDOWN")
        PROVE  Kept(m, d, c) /\ Has(Inbox(m, d), "SHUTDOWN")
    <3>1. Inbox(m, d) = Inbox(m, c)
      BY <1>1, <1>3, <2>1, CableFields DEF Inbox, Ends, Alike
    <3> QED BY <1>3, <2>1, <3>1 DEF Alike, Kept
  <2> QED BY <1>1, <1>3, <2>1, SwapTold DEF Alike
<1>12. loop'[n] # "run" /\ \A m \in Node \ {n} : loop'[m] = loop[m]
  BY <1>9 DEF StopWith, SInv, IInv, Types
<1>13. MatesTold'
  <2>1. \A m \in mates' : m \in mates /\ m \in Node \ {n} /\ loop'[m] = "run"
    BY <1>1, <1>12 DEF SInv, MatesTold, IInv, Types
  <2>2. ~dropped' => \A m \in mates' : Told(m, cables')
    BY <1>1, <1>4, <1>10, <1>11, <2>1 DEF SInv, MatesTold
  <2> QED BY <2>1, <2>2 DEF MatesTold, Told
<1> QED BY <1>10, <1>13 DEF SInv

LEMMA StopSaid ==
    ASSUME SInv, IInv', NEW n \in Node, NEW quit \in BOOLEAN, Stop(n, quit)
    PROVE  SInv'
<1>1. /\ cables \in SUBSET ACable /\ StopWith(n, quit, cables) /\ loop[n] = "run"
      /\ mates' = (IF quit THEN mates \cup {a \in Linked(n) : loop[a] = "run"} ELSE mates) \ {n}
      /\ dropped' = dropped /\ mates \subseteq Node /\ mates' \subseteq Node
  BY AllCables DEF Stop, SInv, IInv, Types
<1>2. /\ \A c \in cables' : Fit(c, loop')
      /\ EndedAlone'
      /\ \A m \in Node \ {n} : Told(m, cables) => Told(m, cables')
  BY <1>1, StopWithSaid DEF SInv, EndedAlone
<1>3. /\ loop'[n] # "run" /\ \A m \in Node \ {n} : loop'[m] = loop[m]
      /\ cables' = PartingCables(n, cables, PartingWord(quit))
  BY <1>1 DEF StopWith, SInv, IInv, Types
<1>4. ASSUME quit, NEW m \in Linked(n) PROVE m # n /\ Told(m, cables')
  <2>1. PICK c \in cables : /\ c.whole /\ c.fromUp /\ c.toUp /\ c.as = "remote"
                            /\ m # n
                            /\ (c.from = n /\ c.to = m) \/ (c.to = n /\ c.from = m)
    <3> DEFINE cs == {c \in cables : c.whole /\ c.fromUp /\ c.toUp /\ c.as = "remote"}
    <3>1. m \in Peers(n, cs)
      BY DEF Linked
    <3>2. m # n /\ \E c \in Ends(n, cs) : m = c.from \/ m = c.to
      BY <3>1 DEF Peers
    <3> QED BY <3>2 DEF Ends
  <2>2. c \in ACable /\ c.toQ \in Seq(Word) /\ c.fromQ \in Seq(Word) /\ "SHUTDOWN" \in Word
    BY <1>1, CableFields DEF Word
  <2>3. PICK d : d = Part(n, c, "SHUTDOWN")
    OBVIOUS
  <2>4. Alike(d, c) /\ Has(Inbox(m, d), "SHUTDOWN")
    <3>1. CASE c.from = n /\ c.to = m
      <4>1. d = SendTo(c, "SHUTDOWN")
        BY <2>1, <2>3, <3>1 DEF Part
      <4>2. Alike(d, c) /\ d.toQ = Append(c.toQ, "SHUTDOWN")
        BY <2>1, <2>2, <4>1, SentFields
      <4>3. Has(d.toQ, "SHUTDOWN")
        BY <2>2, <4>2, HasAppended
      <4> QED BY <3>1, <4>2, <4>3 DEF Inbox, Alike
    <3>2. CASE c.to = n /\ c.from = m
      <4>1. d = SendFrom(c, "SHUTDOWN")
        BY <2>1, <2>3, <3>2 DEF Part
      <4>2. Alike(d, c) /\ d.fromQ = Append(c.fromQ, "SHUTDOWN")
        BY <2>1, <2>2, <4>1, SentFields
      <4>3. Has(d.fromQ, "SHUTDOWN")
        BY <2>2, <4>2, HasAppended
      <4> QED BY <2>1, <3>2, <4>2, <4>3 DEF Inbox, Alike
    <3> QED BY <2>1, <3>1, <3>2
  <2>5. d \in cables'
    <3>1. d.fromUp \/ d.toUp
      BY <2>1, <2>4 DEF Alike
    <3> QED BY <1>3, <1>4, <2>3, <3>1, Parts DEF PartingWord
  <2> QED BY <2>1, <2>4, <2>5 DEF Told, Ends, Alike
<1>5. MatesTold'
  <2>1. \A m \in mates' : /\ m \in Node \ {n}
                          /\ m \in mates \/ (quit /\ m \in Linked(n))
                          /\ loop[m] = "run"
    BY <1>1 DEF SInv, MatesTold
  <2>2. \A m \in mates' : loop'[m] = "run"
    BY <1>3, <2>1
  <2>3. ~dropped' => \A m \in mates' : Told(m, cables')
    BY <1>1, <1>2, <1>4, <2>1 DEF SInv, MatesTold
  <2> QED BY <2>2, <2>3 DEF MatesTold, Told
<1> QED BY <1>2, <1>5 DEF SInv

LEMMA SaidInductive == IInv' /\ SInv /\ [Next]_vars => SInv'
<1> SUFFICES ASSUME IInv', SInv, [Next]_vars PROVE SInv'
  OBVIOUS
<1>1. ASSUME NEW n \in Node, Start(n) \/ LocalsDrained(n) \/ LoopEnds(n) PROVE SInv'
  BY <1>1, LoopSaid
<1>2. ASSUME NEW n \in Node, NEW quit \in BOOLEAN, Stop(n, quit) PROVE SInv'
  BY <1>2, StopSaid
<1>3. ASSUME NEW n \in Node, NEW a \in Node,
             Dial(n, a) \/ Gossips(n, a) \/ LastGossip(n, a) \/ Forget(n, a)
      PROVE  SInv'
  BY <1>3, DialSaid, LearnSaid, ForgetSaid
<1>4. ASSUME NEW c \in cables, Cut(c) PROVE SInv'
  BY <1>4, CutSaid
<1>5. ASSUME NEW n \in Node, NEW c \in Ends(n, cables), Handle(n, c) \/ Drained(n, c)
      PROVE  SInv'
  BY <1>5, ClosingSaid, ReadingSaid, AnswerSaid, ReadShutdownSaid DEF Handle
<1>6. CASE UNCHANGED vars
  BY <1>6 DEF vars, SInv, EndedAlone, MatesTold, Told
<1> QED BY <1>1, <1>2, <1>3, <1>4, <1>5, <1>6 DEF Next

\* A SHUTDOWN takes along every daemon linked to the one that got it, in whatever order
\* the daemons stop, hang up, refuse and are told to stop meanwhile, unless the message
\* itself is lost: stop() sends it over each connection and no handler passes it over.
THEOREM ShutdownReaches == Spec => []ShutdownSpreads
<1>1. SInv => ShutdownSpreads
  <2> SUFFICES ASSUME SInv, ~dropped, \A c \in cables : ~Tells(c.toQ) /\ ~Tells(c.fromQ),
                      NEW n \in mates
               PROVE  FALSE
    BY DEF ShutdownSpreads
  <2>1. Told(n, cables)
    BY DEF SInv, MatesTold
  <2>2. ~Told(n, cables)
    BY TellsHas DEF Told, Ends, Inbox
  <2> QED BY <2>1, <2>2
<1>2. IInv /\ SInv /\ [Next]_vars => IInv' /\ SInv'
  BY Inductive, SaidInductive
<1>3. Init => IInv /\ SInv
  BY Initially DEF Init, SInv, EndedAlone, MatesTold, Ends
<1> QED BY <1>1, <1>2, <1>3, PTL DEF Spec

-----------------------------------------------------------------------------
(* How a daemon that stops gets to its end. StopEnds is about fairness; this  *)
(* is what it rests on.                                                       *)

\* A cable keeps its name until both ends are closed.
Name(c) == <<<<c.from, c.to>>, c.id>>
EndNames(n, cs) == {Name(c) : c \in Ends(n, cs)}
NumbersUnique(cs) == \A c, d \in cs : Name(c) = Name(d) => c = d

\* What a daemon has to get rid of before its event loop returns. An end that is closed
\* may leave a gossip connection in its place, so it counts twice.
Left(n) == 2 * Cardinality(EndNames(n, cables)) + Cardinality(lingering[n])
             + (IF locals[n] = "none" THEN 0 ELSE 1)

\* Something goes when its output is written, a gossip connection has a computer to
\* call, or the loop returns.
CanWind(n) == \/ locals[n] = "done"
              \/ Ends(n, cables) # {}
              \/ \E a \in Node : Gossip(a) \in lingering[n] /\ loop[a] = "run"
              \/ locals[n] = "none" /\ Ends(n, cables) = {} /\ lingering[n] = {}
StoppingWinds == \A n \in Node : loop[n] = "stopping" => CanWind(n) \/ Waits(n)

\* A step leaves a stopping daemon with as much or less, and one of its own with less.
Winding(n) == loop[n] = "stopping" =>
    \/ loop'[n] = "ended"
    \/ loop'[n] = "stopping" /\ Left(n)' <= Left(n) /\ (Wind(n) => Left(n)' < Left(n))

\* An ended daemon has nothing in its event loop.
EndedBare == \A n \in Node : loop[n] = "ended" =>
                 locals[n] = "none" /\ Ends(n, cables) = {} /\ lingering[n] = {}

\* The inductive invariant.
WInv == /\ IInv /\ NumbersUnique(cables)
        /\ \A c \in cables : c.id \in 1..MaxCables
        /\ EndedBare
        /\ \A n \in Node : loop[n] = "stopping" => locals[n] # "on"

\* No step but Dial makes more of a cable.
Fades(d, c) == /\ d.from = c.from /\ d.to = c.to /\ d.id = c.id
               /\ d.fromUp => c.fromUp
               /\ d.toUp => c.toUp
AllFade(ds, cs) == \A d \in ds : \E c \in cs : Fades(d, c)

LEMMA ShutFades == \A d, c : Alike(d, c) \/ Shut(d, c) => Fades(d, c)
BY DEF Alike, Shut, Fades

LEMMA FadesLeave ==
    ASSUME NEW n, NEW cs, NEW ds, AllFade(ds, cs)
    PROVE  EndNames(n, ds) \subseteq EndNames(n, cs)
<1> SUFFICES ASSUME NEW d \in Ends(n, ds) PROVE Name(d) \in EndNames(n, cs)
  BY DEF EndNames
<1>1. PICK c \in cs : Fades(d, c)
  BY DEF AllFade, Ends
<1>2. c \in Ends(n, cs) /\ Name(c) = Name(d)
  BY <1>1 DEF Ends, Fades, Name
<1> QED BY <1>2 DEF EndNames

LEMMA SwapFades ==
    ASSUME NEW c \in cables, NEW d, Fades(d, c), NumbersUnique(cables)
    PROVE  AllFade(Swap(c, d), cables) /\ NumbersUnique(Swap(c, d))
<1>1. \A e \in Swap(c, d) : e = d \/ e \in cables \ {c}
  BY DEF Swap, InUse
<1>2. AllFade(Swap(c, d), cables)
  BY <1>1 DEF AllFade, Fades
<1>3. Name(d) = Name(c)
  BY DEF Fades, Name
<1>4. NumbersUnique(Swap(c, d))
  BY <1>1, <1>3 DEF NumbersUnique
<1> QED BY <1>2, <1>4

LEMMA PartingFades ==
    ASSUME NEW n \in Node, NEW cs \in SUBSET ACable, NEW word, NumbersUnique(cs)
    PROVE  AllFade(PartingCables(n, cs, word), cs) /\ NumbersUnique(PartingCables(n, cs, word))
<1>1. \A d \in PartingCables(n, cs, word) : \E c \in cs : d = Part(n, c, word) /\ Fades(d, c)
  BY Parts, PartFields, ShutFades
<1>2. AllFade(PartingCables(n, cs, word), cs)
  BY <1>1 DEF AllFade
<1>3. NumbersUnique(PartingCables(n, cs, word))
  BY <1>1 DEF NumbersUnique, Fades, Name
<1> QED BY <1>2, <1>3

\* An end of n goes for a connection that lingers at most.
Trades(n) == \E name \in EndNames(n, cables), x \in Lingerer :
                 /\ EndNames(n, cables') \subseteq EndNames(n, cables) \ {name}
                 /\ lingering'[n] \subseteq lingering[n] \cup {x}

\* What a step leaves to a daemon that was stopping.
Lessens(n) == loop[n] = "stopping" =>
    \/ loop'[n] = "ended"
    \/ /\ loop'[n] = "stopping" /\ locals'[n] \in {locals[n], "none"}
       /\ EndNames(n, cables') \subseteq EndNames(n, cables)
       /\ lingering'[n] \subseteq lingering[n] \/ Trades(n)

\* A step in which cables at most fade.
LEMMA FadingStep ==
    ASSUME WInv, IInv', AllFade(cables', cables), NumbersUnique(cables'),
           \A n \in Node : loop'[n] = "stopping" => locals'[n] # "on",
           \A n \in Node : loop'[n] = "ended" =>
               \/ loop[n] = "ended" /\ locals'[n] = locals[n] /\ lingering'[n] = lingering[n]
               \/ locals'[n] = "none" /\ Ends(n, cables) = {} /\ lingering'[n] = {},
           \A n \in Node : loop[n] = "stopping" =>
               \/ loop'[n] = "ended"
               \/ /\ loop'[n] = "stopping" /\ locals'[n] \in {locals[n], "none"}
                  /\ lingering'[n] \subseteq lingering[n] \/ Trades(n)
    PROVE  WInv' /\ \A n \in Node : Lessens(n)
<1>1. \A n : EndNames(n, cables') \subseteq EndNames(n, cables)
  BY FadesLeave
<1>2. \A n : Ends(n, cables) = {} => Ends(n, cables') = {}
  <2>1. ASSUME NEW n, NEW d \in Ends(n, cables') PROVE Ends(n, cables) # {}
    <3>1. PICK c \in cables : Fades(d, c)
      BY DEF Ends, AllFade
    <3>2. c \in Ends(n, cables)
      BY <3>1 DEF Ends, Fades
    <3> QED BY <3>2
  <2> QED BY <2>1
<1>3. \A d \in cables' : d.id \in 1..MaxCables
  BY DEF AllFade, Fades, WInv
<1>4. EndedBare'
  BY <1>2 DEF WInv, EndedBare
<1>5. NumbersUnique(cables)'
  BY DEF NumbersUnique
<1>6. WInv'
  BY <1>3, <1>4, <1>5 DEF WInv
<1> QED BY <1>1, <1>6 DEF Lessens

\* One cable fades, nobody stops or ends.
LEMMA OneFades ==
    ASSUME WInv, IInv', NEW c \in cables, NEW d, Fades(d, c), cables' = Swap(c, d),
           UNCHANGED <<loop, locals>>,
           \A n \in Node : \/ lingering'[n] = lingering[n]
                           \/ loop[n] = "run"
                           \/ loop[n] = "stopping" /\ Trades(n)
    PROVE  WInv' /\ \A n \in Node : Lessens(n)
<1>1. AllFade(cables', cables) /\ NumbersUnique(cables')
  BY SwapFades DEF WInv
<1>2. \A n \in Node : loop[n] \in {"run", "stopping", "ended"}
  BY DEF WInv, IInv, Types
<1> QED BY <1>1, <1>2, FadingStep DEF WInv

\* An end that is closed takes its name with it.
LEMMA NameGone ==
    ASSUME WInv, NEW n \in Node, NEW c \in Ends(n, cables), NEW d \in ACable, Alike(d, c),
           cables' = Swap(c, CloseEnd(n, d))
    PROVE  /\ Name(c) \in EndNames(n, cables)
           /\ EndNames(n, cables') \subseteq EndNames(n, cables) \ {Name(c)}
<1>1. c \in cables /\ c \in ACable
  BY AllCables DEF Ends, WInv
<1>2. CloseEnd(n, d) \notin Ends(n, cables')
  <2>1. d.from # d.to /\ (d.from = n \/ d.to = n)
    BY <1>1, CableFields DEF Ends, Alike
  <2> QED BY <1>1, <2>1, ClosedFields DEF CloseEnd, Ends
<1>3. ASSUME NEW e \in Ends(n, cables') PROVE Name(e) \in EndNames(n, cables) \ {Name(c)}
  <2>1. e \in cables /\ e # c
    BY <1>2, <1>3 DEF Ends, Swap, InUse
  <2>2. e \in Ends(n, cables)
    BY <2>1, <1>3 DEF Ends
  <2> QED BY <1>1, <2>1, <2>2 DEF EndNames, WInv, NumbersUnique
<1> QED BY <1>3 DEF EndNames

\* A daemon that stops closes an end.
LEMMA EndTraded ==
    ASSUME WInv, IInv', NEW n \in Node, NEW c \in Ends(n, cables), NEW d \in ACable, Alike(d, c),
           cables' = Swap(c, CloseEnd(n, d)), UNCHANGED <<loop, locals>>,
           \/ lingering' = lingering
           \/ loop[n] = "stopping" /\ lingering' \in {Removed(n, c), Linger(n, Waiting(c.to))}
    PROVE  WInv' /\ \A m \in Node : Lessens(m)
<1>1. c \in cables /\ c \in ACable /\ Fades(CloseEnd(n, d), c)
  BY AllCables, ClosedEnd, ShutFades DEF Ends, WInv
<1>2. Gossip(c.from) \in Lingerer /\ Waiting(c.to) \in Lingerer
  BY <1>1, CableFields DEF Gossip, Waiting, Lingerer
<1>3. \A m \in Node : lingering'[m] = lingering[m] \/ (m = n /\ loop[n] = "stopping" /\ Trades(n))
  <2>1. CASE lingering' = lingering
    BY <2>1
  <2>2. ASSUME NEW x \in Lingerer, loop[n] = "stopping", lingering' = Linger(n, x)
        PROVE  \A m \in Node : lingering'[m] = lingering[m] \/ (m = n /\ Trades(n))
    <3>1. /\ lingering'[n] = lingering[n] \cup {x}
          /\ \A m \in Node \ {n} : lingering'[m] = lingering[m]
      BY <2>2 DEF Linger, WInv, IInv, Types
    <3>2. Trades(n)
      BY <3>1, NameGone DEF Trades
    <3> QED BY <3>1, <3>2
  <2> QED BY <1>2, <2>1, <2>2 DEF Removed
<1> QED BY <1>1, <1>3, OneFades

LEMMA HandlerWinds ==
    ASSUME WInv, IInv', NEW n \in Node, NEW c \in Ends(n, cables),
           \/ Drained(n, c) \/ ShuttingDown(n, c) \/ ReadQuitting(n, c)
           \/ AcceptConnect(n, c) \/ RefuseConnect(n, c) \/ ReadAccept(n, c) \/ ReadRefuse(n, c)
           \/ ReadDisconnect(n, c) \/ IgnoreDisconnect(n, c) \/ HangUp(n, c)
    PROVE  WInv' /\ \A m \in Node : Lessens(m)
<1>1. c \in cables /\ c \in ACable /\ Alike(c, c)
  BY AllCables DEF Ends, WInv, Alike
<1>2. CASE Drained(n, c) \/ HangUp(n, c) \/ ReadDisconnect(n, c)
  <2>1. /\ cables' = Swap(c, CloseEnd(n, c)) /\ UNCHANGED <<loop, locals>>
        /\ \/ lingering' = lingering
           \/ loop[n] = "stopping" /\ lingering' \in {Removed(n, c), Linger(n, Waiting(c.to))}
    BY <1>2 DEF Drained, HangUp, ReadDisconnect
  <2> QED BY <1>1, <2>1, EndTraded
<1>3. CASE ShuttingDown(n, c)
  <2>1. PICK d \in ACable : Alike(d, c) /\ cables' = Swap(c, CloseEnd(n, d))
    BY <1>1, <1>3, ShuttingDownEnd
  <2>2. UNCHANGED <<loop, locals>> /\ loop[n] = "stopping" /\ lingering' = Removed(n, c)
    BY <1>3 DEF ShuttingDown
  <2> QED BY <1>1, <2>1, <2>2, EndTraded
<1>4. CASE ReadQuitting(n, c) \/ ReadAccept(n, c) \/ IgnoreDisconnect(n, c)
  <2>1. Fades(TakeOne(n, c), c)
    BY <1>1, TakenFields, ShutFades
  <2>2. cables' = Swap(c, TakeOne(n, c)) /\ UNCHANGED <<loop, locals, lingering>>
    BY <1>4 DEF ReadQuitting, ReadAccept, IgnoreDisconnect
  <2> QED BY <1>1, <2>1, <2>2, OneFades
<1>5. CASE ReadRefuse(n, c)
  <2>1. Fades(CloseFrom(c), c)
    BY <1>1, ClosedFields DEF Fades
  <2>2. cables' = Swap(c, CloseFrom(c)) /\ UNCHANGED <<loop, locals, lingering>>
    BY <1>5 DEF ReadRefuse
  <2> QED BY <1>1, <2>1, <2>2, OneFades
<1>6. CASE AcceptConnect(n, c) \/ RefuseConnect(n, c)
  <2>1. c.to = n /\ Inbox(n, c) # <<>> /\ {"ACCEPT", "REFUSE"} \subseteq Word
    BY <1>6 DEF AcceptConnect, RefuseConnect, Reads, Word
  <2>2. ASSUME NEW as \in {"remote", "refused"}, NEW m \in {"ACCEPT", "REFUSE"}
        PROVE  Fades(Answer(n, c, as, m), c)
    <3>1. Answered(Answer(n, c, as, m), c, as, m)
      BY <1>1, <2>1, AnsweredFields
    <3> QED BY <3>1 DEF Answered, Fades
  <2>3. \E as \in {"remote", "refused"}, m \in {"ACCEPT", "REFUSE"} :
            cables' = Swap(c, Answer(n, c, as, m))
    BY <1>6 DEF AcceptConnect, RefuseConnect, Answer
  <2>4. UNCHANGED <<loop, locals, lingering>>
    BY <1>6 DEF AcceptConnect, RefuseConnect
  <2> QED BY <1>1, <2>2, <2>3, <2>4, OneFades
<1> QED BY <1>2, <1>3, <1>4, <1>5, <1>6

LEMMA CutWinds ==
    ASSUME WInv, IInv', NEW c \in cables, Cut(c)
    PROVE  WInv' /\ \A m \in Node : Lessens(m)
<1>1. c \in ACable
  BY AllCables DEF WInv
<1>2. PICK d : /\ d = [c EXCEPT !.whole = FALSE, !.toQ = <<>>, !.fromQ = <<>>]
               /\ Alike(d, c)
  BY <1>1, CutFields
<1>3. cables' = Swap(c, d) /\ UNCHANGED <<loop, locals, lingering>>
  BY <1>2 DEF Cut
<1> QED BY <1>2, <1>3, ShutFades, OneFades

\* Steps that leave the event loops alone, but for connections that linger.
LEMMA NeighborsWind ==
    ASSUME WInv, IInv', NEW n \in Node, NEW a \in Node,
           Gossips(n, a) \/ LastGossip(n, a) \/ Forget(n, a)
    PROVE  WInv' /\ \A m \in Node : Lessens(m)
<1>1. \A m \in Node : loop[m] \in {"run", "stopping", "ended"}
  BY DEF WInv, IInv, Types
<1>2. AllFade(cables, cables)
  BY DEF AllFade, Fades
<1>3. CASE Gossips(n, a) \/ LastGossip(n, a)
  <2>1. /\ cables' = cables /\ UNCHANGED <<loop, locals>>
        /\ \A m \in Node : \/ lingering'[m] = lingering[m]
                           \/ loop[m] = "stopping" /\ lingering'[m] \subseteq lingering[m]
    BY <1>3 DEF Gossips, LastGossip, WInv, IInv, Types
  <2> QED BY <1>1, <1>2, <2>1, FadingStep DEF WInv
<1>4. CASE Forget(n, a)
  <2>1. /\ UNCHANGED <<loop, locals>>
        /\ \A m \in Node : lingering'[m] = lingering[m] \/ loop[m] = "run"
    BY <1>4 DEF Forget, Linger, WInv, IInv, Types
  <2>2. CASE cables' = cables
    BY <1>1, <1>2, <2>1, <2>2, FadingStep DEF WInv
  <2>3. ASSUME NEW c \in cables, cables' = Swap(c, CloseFrom(c)) PROVE WInv' /\ \A m \in Node : Lessens(m)
    <3>1. Fades(CloseFrom(c), c)
      BY AllCables, ClosedFields DEF Fades, WInv
    <3> QED BY <2>1, <2>3, <3>1, OneFades
  <2> QED BY <1>4, <2>2, <2>3 DEF Forget
<1> QED BY <1>3, <1>4

\* stop() of another daemon, or of this one, which had not stopped.
LEMMA StopWithWinds ==
    ASSUME WInv, IInv', NEW n \in Node, NEW quit \in BOOLEAN, NEW cs \in SUBSET ACable,
           loop[n] = "run", StopWith(n, quit, cs), AllFade(cs, cables), NumbersUnique(cs)
    PROVE  WInv' /\ \A m \in Node : Lessens(m)
<1>1. cables' = PartingCables(n, cs, PartingWord(quit))
  BY DEF StopWith
<1>2. AllFade(cables', cs) /\ NumbersUnique(cables')
  BY <1>1, PartingFades
<1>3. AllFade(cables', cables)
  BY <1>2 DEF AllFade, Fades
<1>4. /\ loop'[n] = "stopping" /\ locals'[n] # "on"
      /\ \A m \in Node \ {n} : /\ loop'[m] = loop[m] /\ locals'[m] = locals[m]
                              /\ lingering'[m] = lingering[m]
  <2>1. PICK l \in PartLocals(locals[n]) : locals' = [locals EXCEPT ![n] = l]
    BY DEF StopWith
  <2>2. l # "on"
    BY <2>1 DEF PartLocals
  <2> QED BY <2>1, <2>2 DEF StopWith, WInv, IInv, Types
<1> QED BY <1>2, <1>3, <1>4, FadingStep DEF WInv

LEMMA StopWinds ==
    ASSUME WInv, IInv', NEW n \in Node, NEW quit \in BOOLEAN, Stop(n, quit)
    PROVE  WInv' /\ \A m \in Node : Lessens(m)
<1>1. cables \in SUBSET ACable /\ AllFade(cables, cables) /\ NumbersUnique(cables)
  BY AllCables DEF WInv, AllFade, Fades
<1> QED BY <1>1, StopWithWinds DEF Stop

LEMMA ReadShutdownWinds ==
    ASSUME WInv, IInv', NEW n \in Node, NEW c \in cables, ReadShutdown(n, c)
    PROVE  WInv' /\ \A m \in Node : Lessens(m)
<1>1. cables \subseteq ACable /\ c \in ACable /\ Inbox(n, c) # <<>>
  BY AllCables DEF WInv, ReadShutdown, Reads
<1>2. PICK d : d = TakeOne(n, c)
  OBVIOUS
<1>3. d \in ACable /\ Fades(d, c)
  BY <1>1, <1>2, Taken, TakenFields, ShutFades DEF ACable
<1>4. PICK cs : cs = Swap(c, d)
  OBVIOUS
<1>5. cs \in SUBSET ACable
  BY <1>1, <1>3, <1>4, Swapped DEF ACable
<1>6. AllFade(cs, cables) /\ NumbersUnique(cs)
  BY <1>3, <1>4, SwapFades DEF WInv
<1>7. loop[n] = "run" /\ StopWith(n, TRUE, cs)
  BY <1>2, <1>4 DEF ReadShutdown
<1> QED BY <1>5, <1>6, <1>7, StopWithWinds

LEMMA LoopWinds ==
    ASSUME WInv, IInv', NEW n \in Node, Start(n) \/ LocalsDrained(n) \/ LoopEnds(n)
    PROVE  WInv' /\ \A m \in Node : Lessens(m)
<1>1. /\ cables' = cables
      /\ AllFade(cables', cables) /\ NumbersUnique(cables')
  BY DEF WInv, AllFade, Fades, Start, LocalsDrained, LoopEnds
<1>2. /\ \A m \in Node \ {n} : loop'[m] = loop[m] /\ locals'[m] = locals[m]
      /\ lingering' = lingering
      /\ \/ loop[n] = "ended" /\ loop'[n] = "run"
         \/ loop[n] = "stopping" /\ loop'[n] = "stopping" /\ locals'[n] = "none"
         \/ /\ loop[n] = "stopping" /\ loop'[n] = "ended"
            /\ locals'[n] = "none" /\ Ends(n, cables) = {} /\ lingering[n] = {}
  BY DEF Start, LocalsDrained, LoopEnds, WInv, IInv, Types
<1> QED BY <1>1, <1>2, FadingStep DEF WInv

\* A new cable has a number that is free, and two ends that run.
LEMMA DialWinds ==
    ASSUME WInv, IInv', NEW n \in Node, NEW a \in Node, Dial(n, a)
    PROVE  WInv' /\ \A m \in Node : Lessens(m)
<1>1. PICK i : i \in Free(n, a) /\ i = CHOOSE k \in Free(n, a) : TRUE
  BY DEF Dial
<1>2. PICK c : c = [from |-> n, to |-> a, id |-> i, fromUp |-> TRUE, toUp |-> TRUE,
                    whole |-> TRUE, as |-> "new", toQ |-> <<"CONNECT">>, fromQ |-> <<>>]
  OBVIOUS
<1>3. /\ cables' = cables \cup {c} /\ UNCHANGED <<loop, locals, lingering>>
      /\ loop[n] = "run" /\ loop[a] = "run" /\ c.from = n /\ c.to = a /\ c.id = i
  BY <1>1, <1>2 DEF Dial
<1>4. i \in 1..MaxCables /\ \A d \in cables : Name(d) # Name(c)
  BY <1>1, <1>3 DEF Free, Name
<1>5. NumbersUnique(cables)' /\ \A d \in cables' : d.id \in 1..MaxCables
  BY <1>3, <1>4 DEF NumbersUnique, WInv
<1>6. \A m \in Node : loop[m] # "run" => Ends(m, cables') = Ends(m, cables)
  BY <1>3 DEF Ends
<1>7. EndedBare' /\ \A m \in Node : loop'[m] = "stopping" => locals'[m] # "on"
  BY <1>3, <1>6 DEF WInv, EndedBare
<1>8. \A m \in Node : Lessens(m)
  BY <1>3, <1>6 DEF Lessens, EndNames
<1> QED BY <1>5, <1>7, <1>8 DEF WInv

LEMMA WindInductive == IInv' /\ WInv /\ [Next]_vars => WInv' /\ \A n \in Node : Lessens(n)
<1> SUFFICES ASSUME IInv', WInv, [Next]_vars PROVE WInv' /\ \A m \in Node : Lessens(m)
  OBVIOUS
<1>1. ASSUME NEW n \in Node, Start(n) \/ LocalsDrained(n) \/ LoopEnds(n)
      PROVE  WInv' /\ \A m \in Node : Lessens(m)
  BY <1>1, LoopWinds
<1>2. ASSUME NEW n \in Node, NEW quit \in BOOLEAN, Stop(n, quit)
      PROVE  WInv' /\ \A m \in Node : Lessens(m)
  BY <1>2, StopWinds
<1>3. ASSUME NEW n \in Node, NEW a \in Node,
             Dial(n, a) \/ Gossips(n, a) \/ LastGossip(n, a) \/ Forget(n, a)
      PROVE  WInv' /\ \A m \in Node : Lessens(m)
  BY <1>3, DialWinds, NeighborsWind
<1>4. ASSUME NEW c \in cables, Cut(c) PROVE WInv' /\ \A m \in Node : Lessens(m)
  BY <1>4, CutWinds
<1>5. ASSUME NEW n \in Node, NEW c \in Ends(n, cables), Handle(n, c) \/ Drained(n, c)
      PROVE  WInv' /\ \A m \in Node : Lessens(m)
  <2>1. c \in cables
    BY DEF Ends
  <2> QED BY <1>5, <2>1, HandlerWinds, ReadShutdownWinds DEF Handle
<1>6. CASE UNCHANGED vars
  BY <1>6 DEF vars, WInv, NumbersUnique, EndedBare, Lessens, EndNames
<1> QED BY <1>1, <1>2, <1>3, <1>4, <1>5, <1>6 DEF Next

LEMMA FewLingerers == IsFiniteSet(Lingerer)
<1> DEFINE K == {"idle", "stray", "gossip"}
           f == [p \in K \X Node |-> [kind |-> p[1], to |-> p[2]]]
<1>1. IsFiniteSet(K \X Node)
  <2>1. IsFiniteSet({"idle"}) /\ IsFiniteSet({"stray"}) /\ IsFiniteSet({"gossip"})
    BY FS_Singleton
  <2>2. IsFiniteSet({"idle"} \cup {"stray"})
    BY <2>1, FS_Union
  <2>3. IsFiniteSet(K)
    <3>1. IsFiniteSet(({"idle"} \cup {"stray"}) \cup {"gossip"})
      BY <2>1, <2>2, FS_Union
    <3>2. K = ({"idle"} \cup {"stray"}) \cup {"gossip"}
      OBVIOUS
    <3> QED BY <3>1, <3>2
  <2> QED BY <2>3, NodeAssumption, FS_Product
<1>2. f \in Surjection(K \X Node, Lingerer)
  <2>1. f \in [K \X Node -> Lingerer]
    BY DEF Lingerer
  <2>2. ASSUME NEW x \in Lingerer PROVE \E p \in K \X Node : f[p] = x
    <3>1. <<x.kind, x.to>> \in K \X Node /\ f[<<x.kind, x.to>>] = x
      BY DEF Lingerer
    <3> QED BY <3>1
  <2> HIDE DEF f, K
  <2> QED BY <2>1, <2>2 DEF Surjection
<1> QED BY <1>1, <1>2, FS_Surjection

LEMMA FewNames ==
    ASSUME WInv, NEW n \in Node
    PROVE  /\ IsFiniteSet(EndNames(n, cables)) /\ Cardinality(EndNames(n, cables)) \in Nat
           /\ IsFiniteSet(lingering[n]) /\ Cardinality(lingering[n]) \in Nat
           /\ Left(n) \in Nat
<1>1. IsFiniteSet(Node \X Node)
  BY NodeAssumption, FS_Product
<1>2. IsFiniteSet(1..MaxCables)
  BY BoundAssumption, FS_Interval
<1>3. IsFiniteSet((Node \X Node) \X (1..MaxCables))
  BY <1>1, <1>2, FS_Product
<1>4. EndNames(n, cables) \subseteq (Node \X Node) \X (1..MaxCables)
  <2>1. \A c \in cables : c.from \in Node /\ c.to \in Node /\ c.id \in 1..MaxCables
    BY AllCables, CableFields DEF WInv
  <2> QED BY <2>1 DEF EndNames, Ends, Name
<1>5. IsFiniteSet(EndNames(n, cables)) /\ Cardinality(EndNames(n, cables)) \in Nat
  BY <1>3, <1>4, FS_Subset, FS_CardinalityType
<1>6. IsFiniteSet(lingering[n]) /\ Cardinality(lingering[n]) \in Nat
  <2>1. lingering[n] \subseteq Lingerer
    BY DEF WInv, IInv, Types
  <2> QED BY <2>1, FewLingerers, FS_Subset, FS_CardinalityType
<1> QED BY <1>5, <1>6 DEF Left

\* Counting what is left after a step.
LEMMA FewerLeft ==
    ASSUME NEW S, IsFiniteSet(S), NEW T \in SUBSET S
    PROVE  /\ Cardinality(S) \in Nat /\ Cardinality(T) \in Nat /\ Cardinality(T) <= Cardinality(S)
           /\ \A x \in S : T \subseteq S \ {x} => Cardinality(T) <= Cardinality(S) - 1
<1>1. IsFiniteSet(T) /\ Cardinality(S) \in Nat /\ Cardinality(T) \in Nat /\ Cardinality(T) <= Cardinality(S)
  BY FS_Subset, FS_CardinalityType
<1>2. ASSUME NEW x \in S, T \subseteq S \ {x} PROVE Cardinality(T) <= Cardinality(S) - 1
  <2>1. IsFiniteSet(S \ {x}) /\ Cardinality(S \ {x}) = Cardinality(S) - 1
    BY FS_RemoveElement
  <2> QED BY <1>2, <2>1, FS_Subset
<1> QED BY <1>1, <1>2

\* An end that goes for a connection that lingers leaves less.
LEMMA TradesLess ==
    ASSUME WInv, NEW n \in Node, Trades(n), locals'[n] \in {locals[n], "none"}
    PROVE  Left(n)' < Left(n) /\ Left(n)' <= Left(n)
<1>1. PICK name \in EndNames(n, cables), x \in Lingerer :
             /\ EndNames(n, cables') \subseteq EndNames(n, cables) \ {name}
             /\ lingering'[n] \subseteq lingering[n] \cup {x}
  BY DEF Trades
<1>2. PICK E, F, L, M : /\ E = EndNames(n, cables) /\ F = EndNames(n, cables')
                        /\ L = lingering[n] /\ M = lingering'[n]
  OBVIOUS
<1>3. IsFiniteSet(E) /\ IsFiniteSet(L)
  BY <1>2, FewNames
<1>4. Cardinality(E) \in Nat /\ Cardinality(F) \in Nat /\ Cardinality(F) <= Cardinality(E) - 1
  BY <1>1, <1>2, <1>3, FewerLeft
<1>5. Cardinality(L) \in Nat /\ Cardinality(M) \in Nat /\ Cardinality(M) <= Cardinality(L) + 1
  <2>0. Cardinality(L) \in Nat
    BY <1>3, FS_CardinalityType
  <2>1. IsFiniteSet(L \cup {x}) /\ Cardinality(L \cup {x}) <= Cardinality(L) + 1
    <3>1. /\ IsFiniteSet(L \cup {x})
          /\ Cardinality(L \cup {x}) = IF x \in L THEN Cardinality(L) ELSE Cardinality(L) + 1
      BY <1>3, FS_AddElement
    <3> QED BY <2>0, <3>1
  <2>2. Cardinality(M) \in Nat /\ Cardinality(L \cup {x}) \in Nat /\ Cardinality(M) <= Cardinality(L \cup {x})
    BY <1>1, <1>2, <2>1, FewerLeft
  <2> QED BY <2>0, <2>1, <2>2
<1>6. /\ Left(n) = 2 * Cardinality(E) + Cardinality(L) + (IF locals[n] = "none" THEN 0 ELSE 1)
      /\ Left(n)' = 2 * Cardinality(F) + Cardinality(M) + (IF locals'[n] = "none" THEN 0 ELSE 1)
  BY <1>2 DEF Left, EndNames, Ends
<1> QED BY <1>4, <1>5, <1>6

LEMMA NoMoreLeft ==
    ASSUME WInv, NEW n \in Node, Lessens(n), loop[n] = "stopping", loop'[n] # "ended"
    PROVE  loop'[n] = "stopping" /\ Left(n)' <= Left(n)
<1>1. /\ loop'[n] = "stopping" /\ locals'[n] \in {locals[n], "none"}
      /\ EndNames(n, cables') \subseteq EndNames(n, cables)
      /\ lingering'[n] \subseteq lingering[n] \/ Trades(n)
  BY DEF Lessens
<1>2. CASE Trades(n)
  BY <1>1, <1>2, TradesLess
<1>3. CASE lingering'[n] \subseteq lingering[n]
  <2>1. /\ Cardinality(EndNames(n, cables')) <= Cardinality(EndNames(n, cables))
        /\ Cardinality(EndNames(n, cables')) \in Nat /\ Cardinality(EndNames(n, cables)) \in Nat
    BY <1>1, FewNames, FewerLeft
  <2>2. /\ Cardinality(lingering'[n]) <= Cardinality(lingering[n])
        /\ Cardinality(lingering'[n]) \in Nat /\ Cardinality(lingering[n]) \in Nat
    BY <1>3, FewNames, FewerLeft
  <2>3. EndNames(n, cables)' = EndNames(n, cables')
    BY DEF EndNames, Ends
  <2> QED BY <1>1, <2>1, <2>2, <2>3 DEF Left
<1> QED BY <1>1, <1>2, <1>3

LEMMA WindLess ==
    ASSUME WInv, NEW n \in Node, Wind(n)
    PROVE  loop'[n] = "ended" \/ Left(n)' < Left(n)
<1>1. CASE LocalsDrained(n)
  <2>1. UNCHANGED <<cables, lingering>> /\ locals[n] = "done" /\ locals'[n] = "none"
    BY <1>1 DEF LocalsDrained, WInv, IInv, Types
  <2>2. EndNames(n, cables)' = EndNames(n, cables)
    BY <2>1 DEF EndNames, Ends
  <2> QED BY <2>1, <2>2, FewNames DEF Left
<1>2. CASE LoopEnds(n)
  BY <1>2 DEF LoopEnds, WInv, IInv, Types
<1>3. ASSUME NEW c \in Ends(n, cables), Drained(n, c) PROVE Left(n)' < Left(n)
  <2>1. /\ c \in ACable /\ Alike(c, c) /\ locals' = locals
        /\ cables' = Swap(c, CloseEnd(n, c)) /\ lingering' = Removed(n, c)
    BY <1>3, AllCables DEF Drained, Ends, Alike, WInv
  <2>2. Name(c) \in EndNames(n, cables) /\ EndNames(n, cables') \subseteq EndNames(n, cables) \ {Name(c)}
    BY <2>1, NameGone
  <2>3. \E x \in Lingerer : lingering'[n] \subseteq lingering[n] \cup {x}
    <3>1. Gossip(c.from) \in Lingerer
      BY <2>1, CableFields DEF Gossip, Lingerer
    <3> QED BY <2>1, <3>1 DEF Removed, Linger, WInv, IInv, Types
  <2> QED BY <2>1, <2>2, <2>3, TradesLess DEF Trades
<1>4. ASSUME NEW a \in Node, LastGossip(n, a) PROVE Left(n)' < Left(n)
  <2>1. /\ UNCHANGED <<cables, locals>> /\ Gossip(a) \in lingering[n]
        /\ lingering'[n] = lingering[n] \ {Gossip(a)}
    BY <1>4 DEF LastGossip, WInv, IInv, Types
  <2>2. EndNames(n, cables)' = EndNames(n, cables)
    BY <2>1 DEF EndNames, Ends
  <2>3. /\ Cardinality(lingering[n]) \in Nat /\ Cardinality(lingering'[n]) \in Nat
        /\ Cardinality(lingering'[n]) <= Cardinality(lingering[n]) - 1
    BY <2>1, FewNames, FewerLeft
  <2> QED BY <2>1, <2>2, <2>3, FewNames DEF Left
<1> QED BY <1>1, <1>2, <1>3, <1>4 DEF Wind

LEMMA WindInvariance == Spec => [](IInv /\ WInv)
<1>1. Init => IInv /\ WInv
  <2> SUFFICES ASSUME Init PROVE IInv /\ WInv
    OBVIOUS
  <2>1. NumbersUnique(cables) /\ \A n \in Node : Ends(n, cables) = {}
    BY DEF Init, NumbersUnique, Ends
  <2> QED BY <2>1, Initially DEF Init, WInv, EndedBare
<1>2. IInv /\ WInv /\ [Next]_vars => (IInv /\ WInv)'
  BY Inductive, WindInductive
<1> QED BY <1>1, <1>2, PTL DEF Spec

\* What StopEnds rests on. A daemon that stops has a step of its own to take, as long as
\* nothing is left that Waits names; it never runs again before it ended, and one that
\* ended has nothing left in its event loop. And whatever the daemons do, what is left
\* never grows: each step of its own rids it of a connection, of its local services, or
\* is the end, although an inbound connection that goes may leave a gossip connection.
THEOREM StopsForGood ==
    Spec => [](StoppingWinds /\ EndedBare) /\ [][\A n \in Node : Winding(n)]_vars
<1>1. IInv /\ WInv => StoppingWinds /\ EndedBare
  <2> SUFFICES ASSUME IInv, WInv, NEW n \in Node, loop[n] = "stopping", ~Waits(n) PROVE CanWind(n)
    BY DEF StoppingWinds, WInv
  <2>1. CASE lingering[n] = {}
    BY <2>1 DEF CanWind, WInv, IInv, Types
  <2>2. ASSUME NEW x \in lingering[n] PROVE CanWind(n)
    <3>1. x \in Lingerer /\ x.kind = "gossip" /\ loop[x.to] = "run"
      BY DEF Waits, IInv, Types
    <3>2. x.to \in Node /\ x = Gossip(x.to)
      BY <3>1 DEF Lingerer, Gossip
    <3> QED BY <3>1, <3>2 DEF CanWind
  <2> QED BY <2>1, <2>2
<1>2. ASSUME IInv /\ WInv, (IInv /\ WInv)', [Next]_vars PROVE [\A n \in Node : Winding(n)]_vars
  <2>1. \A n \in Node : Lessens(n)
    BY <1>2, WindInductive
  <2>2. ASSUME NEW n \in Node PROVE Winding(n)
    BY <1>2, <2>1, WindLess, NoMoreLeft DEF Winding
  <2> QED BY <2>2
<1> QED BY <1>1, <1>2, WindInvariance, PTL DEF Spec

=============================================================================
