---------------------------- MODULE BroadcastProofs ----------------------------
(***************************************************************************)
(* Proofs about Broadcast, for any number of computers, links, messages,   *)
(* restarts and broken links, and any clocks.                              *)
(***************************************************************************)
EXTENDS Broadcast, FiniteSetTheorems, TLAPS

Elems(s) == {s[i] : i \in 1..Len(s)}

\* The copies on their way over l.
On(l) == Elems(chan[l])

\* How often the local services of n may get b.
Limit(n, b) == IF n = sent[b].origin THEN 2 ELSE 1

\* Copies of one message carry one identifier and one timeout.
OneId == \A k, l \in Pairs : \A m \in On(k), o \in On(l) :
    m.of = o.of => m.id = o.id /\ m.timeout = o.timeout

\* Nobody got a message that was not sent.
Unsent == \A n \in Nodes, b \in Numbers : b > Len(sent) => got[n][b] = 0

\* n drops the copy m now and forever. That it remembers the identifier is not
\* enough: a restarted computer uses its identifiers again, and the record of the
\* older message is forgotten first.
Immune(n, m) ==
    \/ m.timeout < clock[n]
    \/ \E r \in received[n] : r.id = m.id /\ r.timeout >= m.timeout

\* A computer that got a message as often as it may drops every copy of it.
Settled == \A n \in Nodes, l \in Pairs : \A m \in On(l) :
    m.scope # "service" /\ got[n][m.of] >= Limit(n, m.of) => Immune(n, m)

\* A copy of a private message is on its way to the data center it comes from.
PrivateLinks == \A l \in Pairs : \A m \in On(l) :
    m.scope = "private" => Zone[l[2]] = Zone[sent[m.of].origin]

\* The inductive invariant.
IInv == /\ TypeOK /\ OneId /\ Unsent /\ Settled /\ PrivateLinks
        /\ OncePerComputer /\ PrivateStaysInside

-----------------------------------------------------------------------------
(* Channels.                                                               *)

LEMMA TailElems ==
    ASSUME NEW S, NEW s \in Seq(S), s # <<>>
    PROVE  /\ Tail(s) \in Seq(S) /\ Head(s) \in Elems(s)
           /\ Elems(Tail(s)) \subseteq Elems(s)
<1>1. Len(s) \in Nat /\ Len(s) > 0
  OBVIOUS
<1>2. Tail(s) \in Seq(S) /\ Len(Tail(s)) = Len(s) - 1 /\ Head(s) = s[1]
  OBVIOUS
<1>3. \A i \in 1..(Len(s) - 1) : Tail(s)[i] = s[i + 1] /\ i + 1 \in 1..Len(s)
  BY <1>1
<1> QED BY <1>1, <1>2, <1>3 DEF Elems

LEMMA AppendElems ==
    ASSUME NEW S, NEW s \in Seq(S), NEW m \in S
    PROVE  Append(s, m) \in Seq(S) /\ \A o \in Elems(Append(s, m)) : o \in Elems(s) \/ o = m
<1>1. /\ Append(s, m) \in Seq(S) /\ Len(Append(s, m)) = Len(s) + 1 /\ Len(s) \in Nat
      /\ \A i \in 1..(Len(s) + 1) : Append(s, m)[i] = IF i <= Len(s) THEN s[i] ELSE m
  OBVIOUS
<1>2. \A i \in 1..(Len(s) + 1) : i <= Len(s) => i \in 1..Len(s)
  BY <1>1
<1> QED BY <1>1, <1>2 DEF Elems

\* What send adds to the channels.
LEMMA SendElems ==
    ASSUME NEW channels \in [Pairs -> Seq(Copy)], NEW n \in Nodes, NEW m \in Copy
    PROVE  /\ Forwarded(n, m) \in Copy
           /\ Forwarded(n, m).of = m.of /\ Forwarded(n, m).id = m.id
           /\ Forwarded(n, m).timeout = m.timeout /\ Forwarded(n, m).scope = m.scope
           /\ Send(channels, n, m) \in [Pairs -> Seq(Copy)]
           /\ \A l \in Pairs : \A o \in Elems(Send(channels, n, m)[l]) :
                \/ o \in Elems(channels[l])
                \/ o = Forwarded(n, m) /\ l[1] = n /\ l[2] \in Targets(n, m)
<1> DEFINE f == Forwarded(n, m)
<1>1. Targets(n, m) \subseteq Nodes
  BY DEF Targets, Candidates
<1>2. /\ f \in Copy /\ f.of = m.of /\ f.id = m.id
      /\ f.timeout = m.timeout /\ f.scope = m.scope
  <2> DEFINE more == m.informed \cup Targets(n, m)
  <2>1. more \subseteq Nodes /\ m.hops + 1 \in Nat
    BY <1>1 DEF Copy
  <2>2. f = [m EXCEPT !.hops = m.hops + 1, !.informed = more]
    BY DEF Forwarded
  <2> HIDE DEF f, more
  <2> QED BY <2>1, <2>2 DEF Copy
<1> HIDE DEF f
<1>3. ASSUME NEW l \in Pairs
      PROVE  /\ Append(channels[l], f) \in Seq(Copy)
             /\ \A o \in Elems(Append(channels[l], f)) : o \in Elems(channels[l]) \/ o = f
  BY <1>2, AppendElems
<1>4. Send(channels, n, m) =
        [l \in Pairs |-> IF l[1] = n /\ l[2] \in Targets(n, m) /\ l \in up
                         THEN Append(channels[l], f) ELSE channels[l]]
  BY DEF Send, f
<1> QED BY <1>2, <1>3, <1>4 DEF f

\* Taking the oldest copy.
LEMMA TakeOldest ==
    ASSUME TypeOK, NEW l \in Pairs, chan[l] # <<>>
    PROVE  LET m == Oldest(l[1], l[2])  rest == Rest(l[1], l[2])
           IN  /\ m \in On(l) /\ CopyOK(m)
               /\ rest \in [Pairs -> Seq(Copy)]
               /\ \A k \in Pairs : Elems(rest[k]) \subseteq On(k)
<1>1. <<l[1], l[2]>> = l
  BY DEF Pairs
<1>2. chan \in [Pairs -> Seq(Copy)]
  BY DEF TypeOK
<1>3. /\ Tail(chan[l]) \in Seq(Copy) /\ Head(chan[l]) \in On(l)
      /\ Elems(Tail(chan[l])) \subseteq On(l)
  BY <1>2, TailElems DEF On
<1>4. Rest(l[1], l[2]) = [chan EXCEPT ![l] = Tail(@)] /\ Oldest(l[1], l[2]) = Head(chan[l])
  BY <1>1 DEF Rest, Oldest
<1>5. CopyOK(Head(chan[l]))
  BY <1>3 DEF TypeOK, On, Elems
<1> QED BY <1>2, <1>3, <1>4, <1>5 DEF On

-----------------------------------------------------------------------------
(* Steps that send nothing new: copies are passed on, dropped or lost.     *)

\* What a step may do to a computer: its daemon starts again, its services get
\* no broadcast, or they get the broadcast a copy w carries.
StillImmune(n) == \A o \in Copy : Immune(n, o) => Immune(n, o)'
Restarted(n)   == \A b \in Numbers : got'[n][b] = 0
NothingNew(n)  ==
    /\ StillImmune(n)
    /\ \A b \in Numbers :
         b > Len(sent) \/ sent[b].scope # "service" => got'[n][b] = got[n][b]
TookNew(n, w)  ==
    /\ StillImmune(n) /\ ~Immune(n, w) /\ Immune(n, w)'
    /\ w.scope # "service"
    /\ got'[n] = [got[n] EXCEPT ![w.of] = @ + 1]

SameMessage(o, m) == /\ o.of = m.of /\ o.id = m.id
                     /\ o.timeout = m.timeout /\ o.scope = m.scope

LEMMA Flow ==
    ASSUME IInv, TypeOK', PrivateLinks', sent' = sent,
           \A l \in Pairs : \A o \in On(l)' : \E k \in Pairs : \E m \in On(k) : SameMessage(o, m),
           \A n \in Nodes :
             \/ Restarted(n)
             \/ NothingNew(n)
             \/ \E l \in Pairs : \E w \in On(l) : l[2] = n /\ TookNew(n, w)
    PROVE  IInv'
<1>0. /\ sent \in Seq(Request) /\ Len(sent) \in Nat /\ Len(sent) <= MaxBroadcasts
      /\ MaxBroadcasts \in Nat
      /\ got \in [Nodes -> [Numbers -> Nat]] /\ got' \in [Nodes -> [Numbers -> Nat]]
  BY LimitsAssumption DEF IInv, TypeOK
<1>1. \A l \in Pairs : \A m \in On(l) :
        /\ m \in Copy /\ m.of \in 1..Len(sent) /\ m.of \in Numbers
        /\ m.scope = sent[m.of].scope
  <2>1. \A l \in Pairs : \A m \in On(l) : CopyOK(m)
    BY DEF IInv, TypeOK, On, Elems
  <2> QED BY <1>0, <2>1 DEF CopyOK, Numbers
<1>2. OneId'
  <2> SUFFICES ASSUME NEW k \in Pairs, NEW l \in Pairs, NEW m \in On(k)', NEW o \in On(l)',
                      m.of = o.of
               PROVE  m.id = o.id /\ m.timeout = o.timeout
    BY DEF OneId
  <2>1. PICK k1 \in Pairs : \E m1 \in On(k1) : SameMessage(m, m1)
    OBVIOUS
  <2>2. PICK m1 \in On(k1) : SameMessage(m, m1)
    BY <2>1
  <2>3. PICK l1 \in Pairs : \E o1 \in On(l1) : SameMessage(o, o1)
    OBVIOUS
  <2>4. PICK o1 \in On(l1) : SameMessage(o, o1)
    BY <2>3
  <2>5. m1.of = o1.of
    BY <2>2, <2>4 DEF SameMessage
  <2>6. m1.id = o1.id /\ m1.timeout = o1.timeout
    BY <2>5 DEF IInv, OneId
  <2> QED BY <2>2, <2>4, <2>6 DEF SameMessage
\* What each computer got, and the limit.
<1>3. ASSUME NEW n \in Nodes, NEW b \in Numbers
      PROVE  \/ got'[n][b] = 0
             \/ /\ got'[n][b] = got[n][b]
                /\ StillImmune(n)
             \/ b <= Len(sent) /\ sent[b].scope = "service"
             \/ \E l \in Pairs : \E w \in On(l) :
                  l[2] = n /\ TookNew(n, w) /\ w.of = b /\ got'[n][b] = got[n][b] + 1
  <2>1. CASE Restarted(n)
    BY <2>1 DEF Restarted
  <2>2. CASE NothingNew(n)
    BY <1>0, <2>2 DEF NothingNew, Numbers
  <2>3. CASE \E l \in Pairs : \E w \in On(l) : l[2] = n /\ TookNew(n, w)
    <3>1. PICK l \in Pairs : \E w \in On(l) : l[2] = n /\ TookNew(n, w)
      BY <2>3
    <3>2. PICK w \in On(l) : l[2] = n /\ TookNew(n, w)
      BY <3>1
    <3>3. StillImmune(n) /\ got'[n] = [got[n] EXCEPT ![w.of] = @ + 1]
      BY <3>2 DEF TookNew
    <3>4. got[n] \in [Numbers -> Nat]
      BY <1>0
    <3>5. CASE w.of = b
      BY <3>2, <3>3, <3>4, <3>5
    <3>6. CASE w.of # b
      BY <3>3, <3>4, <3>6
    <3> QED BY <3>5, <3>6
  <2> QED BY <2>1, <2>2, <2>3
<1>4. Unsent'
  <2> SUFFICES ASSUME NEW n \in Nodes, NEW b \in Numbers, b > Len(sent) PROVE got'[n][b] = 0
    BY DEF Unsent
  <2>1. got[n][b] = 0
    BY DEF IInv, Unsent
  <2>2. \A l \in Pairs : \A w \in On(l) : w.of # b
    BY <1>0, <1>1 DEF Numbers
  <2>3. ~(b <= Len(sent))
    BY <1>0 DEF Numbers
  <2> QED BY <1>3, <2>1, <2>2, <2>3
<1>5. Settled'
  <2> SUFFICES ASSUME NEW n \in Nodes, NEW l \in Pairs, NEW o \in On(l)',
                      o.scope # "service", got'[n][o.of] >= Limit(n, o.of)
               PROVE  Immune(n, o)'
    BY DEF Settled, Limit
  <2>1. PICK k \in Pairs : \E m \in On(k) : SameMessage(o, m)
    OBVIOUS
  <2>2. PICK m \in On(k) : SameMessage(o, m)
    BY <2>1
  <2>3. m.of = o.of /\ m.id = o.id /\ m.timeout = o.timeout /\ m.scope = o.scope
    BY <2>2 DEF SameMessage
  <2>4. /\ m \in Copy /\ o.of \in Numbers /\ o.of <= Len(sent)
        /\ sent[o.of].scope # "service"
    BY <1>0, <1>1, <2>3
  <2>5. Limit(n, o.of) \in {1, 2} /\ got'[n][o.of] \in Nat
    BY <1>0, <2>4 DEF Limit
  <2>6. \A x : Immune(n, x)' /\ x.id = o.id /\ x.timeout = o.timeout => Immune(n, o)'
    BY DEF Immune
  <2>7. CASE got'[n][o.of] = 0
    BY <2>5, <2>7
  <2>8. CASE got'[n][o.of] = got[n][o.of] /\ StillImmune(n)
    <3>1. Immune(n, m)
      BY <2>3, <2>8 DEF IInv, Settled
    <3> QED BY <2>3, <2>4, <2>6, <2>8, <3>1 DEF StillImmune
  <2>9. CASE \E j \in Pairs : \E w \in On(j) : TookNew(n, w) /\ w.of = o.of
    <3>1. PICK j \in Pairs : \E w \in On(j) : TookNew(n, w) /\ w.of = o.of
      BY <2>9
    <3>2. PICK w \in On(j) : TookNew(n, w) /\ w.of = o.of
      BY <3>1
    <3>3. w.id = o.id /\ w.timeout = o.timeout
      BY <2>3, <3>2 DEF IInv, OneId
    <3> QED BY <2>6, <3>2, <3>3 DEF TookNew
  <2> QED BY <1>3, <2>4, <2>7, <2>8, <2>9
<1>6. OncePerComputer'
  <2> SUFFICES ASSUME NEW b \in 1..Len(sent), NEW n \in Nodes, sent[b].scope # "service"
               PROVE  got'[n][b] <= Limit(n, b)
    BY DEF OncePerComputer, Limit
  <2>1. b \in Numbers /\ b <= Len(sent)
    BY <1>0 DEF Numbers
  <2>2. Limit(n, b) \in {1, 2} /\ got[n][b] \in Nat
    BY <1>0, <2>1 DEF Limit
  <2>3. got[n][b] <= Limit(n, b)
    BY DEF IInv, OncePerComputer, Limit
  <2>4. CASE \E l \in Pairs : \E w \in On(l) :
               TookNew(n, w) /\ w.of = b /\ got'[n][b] = got[n][b] + 1
    <3>1. PICK l \in Pairs : \E w \in On(l) :
               TookNew(n, w) /\ w.of = b /\ got'[n][b] = got[n][b] + 1
      BY <2>4
    <3>2. PICK w \in On(l) : TookNew(n, w) /\ w.of = b /\ got'[n][b] = got[n][b] + 1
      BY <3>1
    <3>3. ~(got[n][b] >= Limit(n, b))
      BY <3>2 DEF IInv, Settled, TookNew
    <3> QED BY <2>2, <3>2, <3>3
  <2> QED BY <1>3, <2>1, <2>2, <2>3, <2>4
<1>7. PrivateStaysInside'
  <2> SUFFICES ASSUME NEW b \in 1..Len(sent), NEW n \in Nodes,
                      sent[b].scope = "private", got'[n][b] > 0
               PROVE  Zone[n] = Zone[sent[b].origin]
    BY DEF PrivateStaysInside
  <2>1. b \in Numbers
    BY <1>0 DEF Numbers
  <2>4. got'[n][b] # 0
    OBVIOUS
  <2>2. CASE got'[n][b] = got[n][b]
    BY <2>2 DEF IInv, PrivateStaysInside
  <2>3. CASE \E l \in Pairs : \E w \in On(l) : l[2] = n /\ w.of = b
    BY <1>1, <2>3 DEF IInv, PrivateLinks
  <2>5. ~(b <= Len(sent) /\ sent[b].scope = "service")
    OBVIOUS
  <2> QED BY <1>3, <2>1, <2>2, <2>3, <2>4, <2>5
<1> QED BY <1>2, <1>4, <1>5, <1>6, <1>7 DEF IInv

LEMMA CopiesTyped ==
    ASSUME TypeOK, sent' = sent, \A l \in Pairs : \A o \in On(l)' : CopyOK(o)
    PROVE  \A l \in Pairs : \A i \in 1..Len(chan'[l]) : CopyOK(chan[l][i])'
BY DEF On, Elems, CopyOK

LEMMA OnTyped == TypeOK => \A l \in Pairs : \A m \in On(l) : CopyOK(m)
BY DEF TypeOK, On, Elems

\* Channels only lose copies.
LEMMA LessInFlight ==
    ASSUME IInv, TypeOK', sent' = sent,
           \A l \in Pairs : On(l)' \subseteq On(l),
           \A n \in Nodes : Restarted(n) \/ NothingNew(n)
    PROVE  IInv'
<1>1. PrivateLinks'
  BY DEF IInv, PrivateLinks
<1>2. \A l \in Pairs : \A o \in On(l)' : o \in On(l) /\ SameMessage(o, o)
  BY DEF SameMessage
<1> QED BY <1>1, <1>2, Flow

\* Nothing changes what a computer drops but its records and its clock.
LEMMA ImmuneKept ==
    ASSUME NEW n \in Nodes, received'[n] = received[n], clock'[n] = clock[n]
    PROVE  StillImmune(n)
BY DEF StillImmune, Immune

LEMMA NothingChanged ==
    ASSUME IInv, UNCHANGED <<chan, sent, received, clock, got>>, TypeOK'
    PROVE  IInv'
<1>1. \A l \in Pairs : On(l)' \subseteq On(l)
  BY DEF On
<1>2. \A n \in Nodes : NothingNew(n)
  BY ImmuneKept DEF NothingNew
<1> QED BY <1>1, <1>2, LessInFlight

\* To remember a copy is to drop it from now on, and what is forgotten for it
\* timed out.
LEMMA Remembered ==
    ASSUME TypeOK, NEW n \in Nodes, NEW m \in Copy,
           received' = Remember(n, m), clock' = clock
    PROVE  /\ received' \in [Nodes -> SUBSET Record]
           /\ \A k \in Nodes : StillImmune(k)
           /\ Immune(n, m)'
<1>1. /\ received \in [Nodes -> SUBSET Record] /\ clock \in [Nodes -> Nat]
      /\ [id |-> m.id, timeout |-> m.timeout] \in Record /\ m.timeout \in Nat
  BY DEF TypeOK, Copy, Record
<1> DEFINE new == [id |-> m.id, timeout |-> m.timeout]
           kept == {r \in received[n] : r.timeout >= clock[n]}
<1>2. received' = [received EXCEPT ![n] = kept \cup {new}]
  BY DEF Remember
<1>3. new.id = m.id /\ new.timeout = m.timeout /\ new \in Record
  BY <1>1
<1> HIDE DEF new
<1>4. received'[n] = kept \cup {new} /\ \A k \in Nodes : k # n => received'[k] = received[k]
  BY <1>1, <1>2
<1>5. received' \in [Nodes -> SUBSET Record]
  BY <1>1, <1>2, <1>3
<1>6. Immune(n, m)'
  BY <1>1, <1>3, <1>4 DEF Immune
<1>7. StillImmune(n)
  <2> SUFFICES ASSUME NEW o \in Copy, Immune(n, o) PROVE Immune(n, o)'
    BY DEF StillImmune
  <2>1. o.timeout \in Nat /\ clock[n] \in Nat
    BY <1>1 DEF Copy
  <2>2. CASE o.timeout < clock[n]
    BY <2>2 DEF Immune
  <2>3. CASE ~(o.timeout < clock[n])
    <3>1. PICK r \in received[n] : r.id = o.id /\ r.timeout >= o.timeout
      BY <2>3 DEF Immune
    <3>2. r.timeout \in Nat
      BY <1>1 DEF Record
    <3>3. r.timeout >= clock[n]
      BY <2>1, <2>3, <3>1, <3>2
    <3> QED BY <1>4, <3>1, <3>3 DEF Immune
  <2> QED BY <2>2, <2>3
<1>8. \A k \in Nodes : k # n => StillImmune(k)
  BY <1>4, ImmuneKept
<1> QED BY <1>5, <1>6, <1>7, <1>8

\* One more message for the local services.
LEMMA GotTyped ==
    ASSUME TypeOK, NEW n \in Nodes, NEW m, m.of \in Numbers, got' = ToLocalServices(n, m)
    PROVE  /\ got' \in [Nodes -> [Numbers -> Nat]]
           /\ got'[n] = [got[n] EXCEPT ![m.of] = @ + 1]
           /\ \A k \in Nodes : k # n => got'[k] = got[k]
<1>1. got \in [Nodes -> [Numbers -> Nat]]
  BY DEF TypeOK
<1>2. got' = [got EXCEPT ![n] = [got[n] EXCEPT ![m.of] = @ + 1]]
  BY DEF ToLocalServices
<1>3. [got[n] EXCEPT ![m.of] = @ + 1] \in [Numbers -> Nat]
  BY <1>1
<1> QED BY <1>1, <1>2, <1>3

-----------------------------------------------------------------------------
(* A daemon reads a copy.                                                  *)

LEMMA ReadingOne ==
    ASSUME TypeOK, NEW l \in Pairs, Reading(l[1], l[2])
    PROVE  LET m == Oldest(l[1], l[2])  rest == Rest(l[1], l[2])
           IN  /\ l[1] \in Nodes /\ l[2] \in Nodes
               /\ UNCHANGED <<linkVars, seq, clock, sent, faults>>
               /\ m \in On(l) /\ CopyOK(m) /\ m \in Copy
               /\ m.of \in Numbers
               /\ rest \in [Pairs -> Seq(Copy)]
               /\ \A k \in Pairs : Elems(rest[k]) \subseteq On(k)
<1>1. <<l[1], l[2]>> = l /\ l[1] \in Nodes /\ l[2] \in Nodes
  BY DEF Pairs
<1>2. chan[l] # <<>> /\ UNCHANGED <<linkVars, seq, clock, sent, faults>>
  BY <1>1 DEF Reading
<1>3. Len(sent) \in Nat /\ Len(sent) <= MaxBroadcasts /\ MaxBroadcasts \in Nat
  BY LimitsAssumption DEF TypeOK
<1> QED BY <1>1, <1>2, <1>3, TakeOldest DEF CopyOK, Numbers

LEMMA DiscardStep ==
    ASSUME IInv, NEW l \in Pairs, Discard(l[1], l[2])
    PROVE  IInv'
<1>1. Reading(l[1], l[2]) /\ chan' = Rest(l[1], l[2]) /\ UNCHANGED <<received, got>>
  BY DEF Discard
<1>2. /\ UNCHANGED <<linkVars, seq, clock, sent, faults>>
      /\ chan' \in [Pairs -> Seq(Copy)]
      /\ \A k \in Pairs : On(k)' \subseteq On(k)
  BY <1>1, ReadingOne DEF On, IInv
<1>3. TypeOK'
  <2>1. \A k \in Pairs : \A i \in 1..Len(chan'[k]) : CopyOK(chan[k][i])'
    BY <1>2, OnTyped, CopiesTyped DEF IInv
  <2> QED BY <1>1, <1>2, <2>1 DEF IInv, TypeOK, linkVars
<1>4. \A n \in Nodes : NothingNew(n)
  BY <1>1, <1>2, ImmuneKept DEF NothingNew
<1> QED BY <1>2, <1>3, <1>4, LessInFlight

LEMMA ArriveStep ==
    ASSUME IInv, NEW l \in Pairs, Arrive(l[1], l[2])
    PROVE  IInv'
<1> DEFINE n == l[2]
           m == Oldest(l[1], l[2])
<1>1. /\ Reading(l[1], l[2]) /\ m.scope = "service"
      /\ chan' = Rest(l[1], l[2]) /\ got' = ToLocalServices(n, m) /\ UNCHANGED received
  BY DEF Arrive
<1>2. /\ UNCHANGED <<linkVars, seq, clock, sent, faults>>
      /\ n \in Nodes /\ m.of \in Numbers /\ CopyOK(m)
      /\ chan' \in [Pairs -> Seq(Copy)]
      /\ \A k \in Pairs : On(k)' \subseteq On(k)
  BY <1>1, ReadingOne DEF On, IInv
<1> HIDE DEF n, m
<1>3. /\ got' \in [Nodes -> [Numbers -> Nat]]
      /\ got'[n] = [got[n] EXCEPT ![m.of] = @ + 1]
      /\ \A k \in Nodes : k # n => got'[k] = got[k]
  BY <1>1, <1>2, GotTyped DEF IInv
<1>4. TypeOK'
  <2>1. \A k \in Pairs : \A i \in 1..Len(chan'[k]) : CopyOK(chan[k][i])'
    BY <1>2, OnTyped, CopiesTyped DEF IInv
  <2> QED BY <1>1, <1>2, <1>3, <2>1 DEF IInv, TypeOK, linkVars
<1>5. m.of \in 1..Len(sent) /\ sent[m.of].scope = "service" /\ Len(sent) \in Nat
  BY <1>1, <1>2 DEF CopyOK, IInv, TypeOK
<1>6. ASSUME NEW k \in Nodes PROVE NothingNew(k)
  <2>1. StillImmune(k)
    BY <1>1, <1>2, ImmuneKept
  <2>2. ASSUME NEW b \in Numbers, b > Len(sent) \/ sent[b].scope # "service"
        PROVE  got'[k][b] = got[k][b]
    <3>1. b # m.of
      BY <1>5, <2>2
    <3>2. got[k] \in [Numbers -> Nat]
      BY DEF IInv, TypeOK
    <3> QED BY <1>3, <3>1, <3>2
  <2> QED BY <2>1, <2>2 DEF NothingNew
<1> QED BY <1>2, <1>4, <1>6, LessInFlight

\* What a computer passes on are copies of what it took, and private ones stay
\* in its data center.
LEMMA SendsOn ==
    ASSUME IInv, NEW l \in Pairs, Reading(l[1], l[2]),
           chan' = Send(Rest(l[1], l[2]), l[2], Oldest(l[1], l[2]))
    PROVE  /\ chan' \in [Pairs -> Seq(Copy)]
           /\ \A k \in Pairs : \A i \in 1..Len(chan'[k]) : CopyOK(chan[k][i])'
           /\ \A k \in Pairs : \A o \in On(k)' :
                \E j \in Pairs : \E m \in On(j) : SameMessage(o, m)
           /\ PrivateLinks'
<1> DEFINE n == l[2]
           m == Oldest(l[1], l[2])
           rest == Rest(l[1], l[2])
           f == Forwarded(n, m)
<1>1. /\ n \in Nodes /\ m \in On(l) /\ CopyOK(m) /\ m \in Copy /\ sent' = sent
      /\ rest \in [Pairs -> Seq(Copy)]
      /\ \A k \in Pairs : Elems(rest[k]) \subseteq On(k)
  BY ReadingOne DEF IInv
<1>2. chan' = Send(rest, n, m)
  OBVIOUS
<1> HIDE DEF n, m, rest
<1>3. /\ f \in Copy /\ SameMessage(f, m)
      /\ chan' \in [Pairs -> Seq(Copy)]
      /\ \A k \in Pairs : \A o \in On(k)' :
           o \in On(k) \/ (o = f /\ k[1] = n /\ k[2] \in Targets(n, m))
  <2>1. SameMessage(f, m) /\ f \in Copy
    BY <1>1, SendElems DEF SameMessage
  <2>2. /\ Send(rest, n, m) \in [Pairs -> Seq(Copy)]
        /\ \A k \in Pairs : \A o \in Elems(Send(rest, n, m)[k]) :
             o \in Elems(rest[k]) \/ (o = f /\ k[1] = n /\ k[2] \in Targets(n, m))
    BY <1>1, SendElems
  <2>3. \A k \in Pairs : On(k)' = Elems(Send(rest, n, m)[k])
    BY <1>2 DEF On, Elems
  <2> QED BY <1>1, <1>2, <2>1, <2>2, <2>3
<1> HIDE DEF f
<1>4. CopyOK(f)
  BY <1>1, <1>3 DEF CopyOK, SameMessage
<1>5. \A k \in Pairs : \A i \in 1..Len(chan'[k]) : CopyOK(chan[k][i])'
  BY <1>1, <1>3, <1>4, OnTyped, CopiesTyped DEF IInv
<1>6. \A k \in Pairs : \A o \in On(k)' : \E j \in Pairs : \E x \in On(j) : SameMessage(o, x)
  BY <1>1, <1>3 DEF SameMessage
<1>7. PrivateLinks'
  <2> SUFFICES ASSUME NEW k \in Pairs, NEW o \in On(k)', o.scope = "private"
               PROVE  Zone[k[2]] = Zone[sent[o.of].origin]
    BY <1>1 DEF PrivateLinks
  <2>1. CASE o \in On(k)
    BY <2>1 DEF IInv, PrivateLinks
  <2>2. CASE o = f /\ k[2] \in Targets(n, m)
    <3>1. m.scope = "private" /\ m.of = o.of
      BY <1>3, <2>2 DEF SameMessage
    <3>2. Zone[k[2]] = Zone[n]
      BY <2>2, <3>1 DEF Targets, Candidates
    <3>3. Zone[n] = Zone[sent[m.of].origin]
      BY <1>1, <3>1 DEF IInv, PrivateLinks, n
    <3> QED BY <3>1, <3>2, <3>3
  <2> QED BY <1>3, <2>1, <2>2
<1> QED BY <1>3, <1>5, <1>6, <1>7

LEMMA PassOnStep ==
    ASSUME IInv, NEW l \in Pairs, PassOn(l[1], l[2])
    PROVE  IInv'
<1> DEFINE n == l[2]
<1>0. PICK m : m = Oldest(l[1], l[2])
  OBVIOUS
<1>1. /\ Reading(l[1], l[2]) /\ ~Stale(n, m) /\ m.scope # "service"
      /\ received' = Remember(n, m) /\ got' = ToLocalServices(n, m)
      /\ chan' = Send(Rest(l[1], l[2]), n, m)
  BY <1>0 DEF PassOn
<1>2. /\ UNCHANGED <<linkVars, seq, clock, sent, faults>>
      /\ n \in Nodes /\ m \in On(l) /\ m.of \in Numbers /\ m \in Copy
  BY <1>0, <1>1, ReadingOne DEF IInv
<1>3. /\ chan' \in [Pairs -> Seq(Copy)]
      /\ \A k \in Pairs : \A i \in 1..Len(chan'[k]) : CopyOK(chan[k][i])'
      /\ \A k \in Pairs : \A o \in On(k)' :
           \E j \in Pairs : \E x \in On(j) : SameMessage(o, x)
      /\ PrivateLinks'
  BY <1>0, <1>1, SendsOn
<1>n. n = l[2]
  OBVIOUS
<1> HIDE DEF n
<1>4. /\ received' \in [Nodes -> SUBSET Record]
      /\ \A k \in Nodes : StillImmune(k)
      /\ Immune(n, m)'
  BY <1>1, <1>2, Remembered DEF IInv
<1>5. /\ got' \in [Nodes -> [Numbers -> Nat]]
      /\ got'[n] = [got[n] EXCEPT ![m.of] = @ + 1]
      /\ \A k \in Nodes : k # n => got'[k] = got[k]
  BY <1>1, <1>2, GotTyped DEF IInv
<1>6. TypeOK'
  BY <1>2, <1>3, <1>4, <1>5 DEF IInv, TypeOK, linkVars
<1>7. TookNew(n, m)
  <2>1. ~Immune(n, m)
    BY <1>1 DEF Stale, Immune
  <2> QED BY <1>1, <1>2, <1>4, <1>5, <2>1 DEF TookNew
<1>8. \A k \in Nodes : NothingNew(k) \/ \E j \in Pairs : \E w \in On(j) : j[2] = k /\ TookNew(k, w)
  <2> TAKE k \in Nodes
  <2>1. CASE k = n
    BY <1>2, <1>7, <1>n, <2>1
  <2>2. CASE k # n
    BY <1>4, <1>5, <2>2 DEF NothingNew
  <2> QED BY <2>1, <2>2
<1> QED BY <1>2, <1>3, <1>6, <1>8, Flow

LEMMA RelayStep ==
    ASSUME IInv, NEW l \in Pairs, Relay(l[1], l[2])
    PROVE  IInv'
<1> DEFINE n == l[2]
           m == Oldest(l[1], l[2])
<1>1. /\ Reading(l[1], l[2]) /\ (received' = received \/ received' = Remember(n, m))
      /\ got' = got /\ chan' = Send(Rest(l[1], l[2]), n, m)
  BY DEF Relay
<1>2. /\ UNCHANGED <<linkVars, seq, clock, sent, faults>> /\ n \in Nodes /\ m \in Copy
  BY <1>1, ReadingOne DEF IInv
<1>3. /\ chan' \in [Pairs -> Seq(Copy)]
      /\ \A k \in Pairs : \A i \in 1..Len(chan'[k]) : CopyOK(chan[k][i])'
      /\ \A k \in Pairs : \A o \in On(k)' :
           \E j \in Pairs : \E x \in On(j) : SameMessage(o, x)
      /\ PrivateLinks'
  BY <1>1, SendsOn
<1> HIDE DEF n, m
<1>4. received' \in [Nodes -> SUBSET Record] /\ \A k \in Nodes : StillImmune(k)
  <2>1. CASE received' = received
    BY <1>2, <2>1, ImmuneKept DEF IInv, TypeOK
  <2>2. CASE received' = Remember(n, m)
    BY <1>2, <2>2, Remembered DEF IInv
  <2> QED BY <1>1, <2>1, <2>2
<1>5. TypeOK'
  BY <1>1, <1>2, <1>3, <1>4 DEF IInv, TypeOK, linkVars
<1>6. \A k \in Nodes : NothingNew(k)
  BY <1>1, <1>4 DEF NothingNew
<1> QED BY <1>2, <1>3, <1>5, <1>6, Flow

-----------------------------------------------------------------------------
(* Links, restarts and clocks.                                             *)

\* Channels that close are empty.
LEMMA Emptied ==
    ASSUME TypeOK, sent' = sent, NEW Z \in SUBSET Pairs,
           chan' = [k \in Pairs |-> IF k \in Z THEN <<>> ELSE chan[k]]
    PROVE  /\ chan' \in [Pairs -> Seq(Copy)]
           /\ \A k \in Pairs : On(k)' \subseteq On(k)
           /\ \A k \in Pairs : \A i \in 1..Len(chan'[k]) : CopyOK(chan[k][i])'
<1>1. chan' \in [Pairs -> Seq(Copy)]
  BY DEF TypeOK
<1>2. Elems(<<>>) = {}
  BY DEF Elems
<1>3. \A k \in Pairs : On(k)' = Elems(chan'[k])
  BY DEF On, Elems
<1>4. \A k \in Pairs : On(k)' \subseteq On(k)
  <2> TAKE k \in Pairs
  <2>1. CASE k \in Z
    BY <1>2, <1>3, <2>1
  <2>2. CASE k \notin Z
    BY <1>3, <2>2 DEF On
  <2> QED BY <2>1, <2>2
<1>5. \A k \in Pairs : \A i \in 1..Len(chan'[k]) : CopyOK(chan[k][i])'
  BY <1>4, OnTyped, CopiesTyped
<1> QED BY <1>1, <1>4, <1>5

LEMMA ConnectStep ==
    ASSUME IInv, NEW l \in Pairs, Connect(l[1], l[2])
    PROVE  IInv'
<1> DEFINE back == <<l[2], l[1]>>
<1>1. <<l[1], l[2]>> = l /\ back \in Pairs
  BY DEF Pairs
<1>2. /\ up' = up \cup {l, back} /\ accepted' = accepted \cup {l, back}
      /\ chan' = [chan EXCEPT ![l] = <<>>, ![back] = <<>>]
      /\ UNCHANGED <<dials, received, seq, clock, sent, got, faults>>
  BY <1>1 DEF Connect
<1> HIDE DEF back
<1>3. chan' = [k \in Pairs |-> IF k \in {l, back} THEN <<>> ELSE chan[k]]
  BY <1>1, <1>2 DEF IInv, TypeOK
<1>4. /\ chan' \in [Pairs -> Seq(Copy)]
      /\ \A k \in Pairs : On(k)' \subseteq On(k)
      /\ \A k \in Pairs : \A i \in 1..Len(chan'[k]) : CopyOK(chan[k][i])'
  BY <1>1, <1>2, <1>3, Emptied DEF IInv
<1>5. TypeOK'
  BY <1>1, <1>2, <1>4 DEF IInv, TypeOK
<1>6. \A n \in Nodes : NothingNew(n)
  BY <1>2, ImmuneKept DEF NothingNew
<1> QED BY <1>2, <1>4, <1>5, <1>6, LessInFlight

LEMMA HangUpStep ==
    ASSUME IInv, NEW l \in Pairs, HangUp(l[1], l[2])
    PROVE  IInv'
<1> DEFINE back == <<l[2], l[1]>>
<1>1. <<l[1], l[2]>> = l /\ back \in Pairs
  BY DEF Pairs
<1>2. /\ up' \subseteq up /\ accepted' \subseteq accepted
      /\ faults' \in {faults, faults + 1}
      /\ chan' = [chan EXCEPT ![back] = <<>>]
      /\ UNCHANGED <<dials, received, seq, clock, sent, got>>
  BY <1>1 DEF HangUp
<1> HIDE DEF back
<1>3. chan' = [k \in Pairs |-> IF k \in {back} THEN <<>> ELSE chan[k]]
  BY <1>1, <1>2 DEF IInv, TypeOK
<1>4. /\ chan' \in [Pairs -> Seq(Copy)]
      /\ \A k \in Pairs : On(k)' \subseteq On(k)
      /\ \A k \in Pairs : \A i \in 1..Len(chan'[k]) : CopyOK(chan[k][i])'
  BY <1>1, <1>2, <1>3, Emptied DEF IInv
<1>5. TypeOK'
  BY <1>2, <1>4 DEF IInv, TypeOK
<1>6. \A n \in Nodes : NothingNew(n)
  BY <1>2, ImmuneKept DEF NothingNew
<1> QED BY <1>2, <1>4, <1>5, <1>6, LessInFlight

LEMMA RestartStep ==
    ASSUME IInv, NEW n \in Nodes, Restart(n)
    PROVE  IInv'
<1>1. /\ up' \subseteq up /\ accepted' \subseteq accepted /\ faults' = faults + 1
      /\ chan' = [l \in Pairs |-> IF l[2] = n THEN <<>> ELSE chan[l]]
      /\ received' = [received EXCEPT ![n] = {}] /\ seq' = [seq EXCEPT ![n] = 0]
      /\ got' = [got EXCEPT ![n] = [b \in Numbers |-> 0]]
      /\ UNCHANGED <<dials, clock, sent>>
  BY DEF Restart
<1> DEFINE Z == {l \in Pairs : l[2] = n}
<1>2. chan' = [k \in Pairs |-> IF k \in Z THEN <<>> ELSE chan[k]]
  BY <1>1
<1> HIDE DEF Z
<1>3. /\ chan' \in [Pairs -> Seq(Copy)]
      /\ \A k \in Pairs : On(k)' \subseteq On(k)
      /\ \A k \in Pairs : \A i \in 1..Len(chan'[k]) : CopyOK(chan[k][i])'
  <2>1. Z \in SUBSET Pairs
    BY DEF Z
  <2> QED BY <1>1, <1>2, <2>1, Emptied DEF IInv
<1>4. [b \in Numbers |-> 0] \in [Numbers -> Nat]
  OBVIOUS
<1>5. TypeOK'
  BY <1>1, <1>3, <1>4 DEF IInv, TypeOK
<1>6. \A k \in Nodes : Restarted(k) \/ NothingNew(k)
  <2> TAKE k \in Nodes
  <2>1. got \in [Nodes -> [Numbers -> Nat]] /\ received \in [Nodes -> SUBSET Record]
    BY DEF IInv, TypeOK
  <2>2. CASE k = n
    BY <1>1, <2>1, <2>2 DEF Restarted
  <2>3. CASE k # n
    <3>1. got'[k] = got[k] /\ received'[k] = received[k] /\ clock'[k] = clock[k]
      BY <1>1, <2>1, <2>3
    <3> QED BY <3>1, ImmuneKept DEF NothingNew
  <2> QED BY <2>2, <2>3
<1> QED BY <1>1, <1>3, <1>5, <1>6, LessInFlight

LEMMA TickStep ==
    ASSUME IInv, NEW n \in Nodes, Tick(n)
    PROVE  IInv'
<1>1. /\ clock' = [clock EXCEPT ![n] = @ + 1]
      /\ UNCHANGED <<linkVars, chan, received, seq, sent, got, faults>>
  BY DEF Tick
<1>2. clock \in [Nodes -> Nat]
  BY DEF IInv, TypeOK
<1>3. TypeOK'
  <2>1. \A k \in Pairs : \A i \in 1..Len(chan'[k]) : CopyOK(chan[k][i])'
    BY <1>1 DEF IInv, TypeOK, CopyOK
  <2> QED BY <1>1, <2>1 DEF IInv, TypeOK, linkVars
<1>4. \A l \in Pairs : On(l)' \subseteq On(l)
  BY <1>1 DEF On
<1>5. ASSUME NEW k \in Nodes PROVE NothingNew(k)
  <2>1. clock[k] \in Nat /\ clock'[k] \in Nat /\ clock'[k] >= clock[k]
    BY <1>1, <1>2
  <2>2. StillImmune(k)
    <3> SUFFICES ASSUME NEW o \in Copy, Immune(k, o) PROVE Immune(k, o)'
      BY DEF StillImmune
    <3>1. o.timeout \in Nat /\ received' = received
      BY <1>1 DEF Copy
    <3>2. o.timeout < clock[k] => o.timeout < clock'[k]
      BY <2>1, <3>1
    <3> QED BY <3>1, <3>2 DEF Immune
  <2> QED BY <1>1, <2>2 DEF NothingNew
<1> QED BY <1>1, <1>3, <1>4, <1>5, LessInFlight

-----------------------------------------------------------------------------
(* A client sends a message.                                               *)

LEMMA OriginateStep ==
    ASSUME IInv, NEW n \in Nodes, NEW scope \in Scopes, Originate(n, scope)
    PROVE  IInv'
<1>N. PICK N : N = Len(sent) + 1
  OBVIOUS
<1>0. PICK m : m = [of |-> N, scope |-> scope, id |-> <<n, seq[n] + 1>>,
                    hops |-> 0, timeout |-> clock[n] + Timeout, informed |-> {}]
  OBVIOUS
<1>1. /\ Len(sent) < MaxBroadcasts
      /\ sent' = Append(sent, [origin |-> n, scope |-> scope])
      /\ got' = got \/ got' = ToLocalServices(n, m)
      /\ \/ UNCHANGED <<chan, seq>>
         \/ chan' = Send(chan, n, m) /\ seq' = [seq EXCEPT ![n] = @ + 1]
      /\ UNCHANGED <<linkVars, received, clock, faults>>
  BY <1>0, <1>N DEF Originate
<1>t. TypeOK
  BY DEF IInv
<1>2. /\ N \in Nat /\ N \in Numbers /\ N <= MaxBroadcasts /\ Len(sent) \in Nat /\ Len(sent)' = N
      /\ sent' \in Seq(Request)
      /\ sent'[N] = [origin |-> n, scope |-> scope]
      /\ \A b \in 1..Len(sent) : sent'[b] = sent[b]
  <2>1. sent \in Seq(Request) /\ [origin |-> n, scope |-> scope] \in Request
    BY <1>t DEF TypeOK, Request
  <2>2. Len(sent) \in Nat /\ MaxBroadcasts \in Nat
    BY <2>1, LimitsAssumption
  <2> QED BY <1>1, <1>N, <2>1, <2>2 DEF Numbers
<1>3. /\ m \in Copy /\ m.of = N /\ m.scope = scope
  BY <1>0, <1>2, <1>t, LimitsAssumption DEF TypeOK, Copy, Id
<1>n. \A b : b \in 1..N => b \in 1..Len(sent) \/ b = N
  BY <1>2, <1>N
<1>o. /\ ~(N \in 1..Len(sent)) /\ N > Len(sent) /\ N \in 1..N /\ 1..Len(sent) \subseteq 1..N
      /\ 1..Len(sent) \subseteq Numbers
  <2>1. N \in Nat /\ Len(sent) \in Nat /\ MaxBroadcasts \in Nat /\ N <= MaxBroadcasts
    BY <1>2, LimitsAssumption
  <2> QED BY <1>N, <2>1 DEF Numbers
<1> DEFINE f == Forwarded(n, m)
\* The new copies are all alike.
<1>4. /\ f \in Copy /\ SameMessage(f, m)
      /\ chan' \in [Pairs -> Seq(Copy)]
      /\ \A k \in Pairs : \A o \in On(k)' :
           o \in On(k) \/ (o = f /\ k[2] \in Targets(n, m))
  <2>1. chan \in [Pairs -> Seq(Copy)]
    BY <1>t DEF TypeOK
  <2>2. SameMessage(f, m) /\ f \in Copy
    BY <1>3, <2>1, SendElems DEF SameMessage
  <2>3. CASE chan' = chan
    BY <2>1, <2>2, <2>3 DEF On
  <2>4. CASE chan' = Send(chan, n, m)
    <3>1. /\ Send(chan, n, m) \in [Pairs -> Seq(Copy)]
          /\ \A k \in Pairs : \A o \in Elems(Send(chan, n, m)[k]) :
               o \in Elems(chan[k]) \/ (o = f /\ k[1] = n /\ k[2] \in Targets(n, m))
      BY <1>3, <2>1, SendElems
    <3>2. \A k \in Pairs : On(k)' = Elems(Send(chan, n, m)[k])
      BY <2>4 DEF On, Elems
    <3> QED BY <2>2, <2>4, <3>1, <3>2 DEF On
  <2> QED BY <1>1, <2>3, <2>4
<1> HIDE DEF f
<1>5. f.of = N /\ f.scope = scope
  BY <1>3, <1>4 DEF SameMessage
<1>6. \A k \in Pairs : \A o \in On(k) : CopyOK(o) /\ o.of \in 1..Len(sent) /\ o \in Copy
                                        /\ o.of # N /\ o.scope = sent[o.of].scope
  BY <1>o, <1>t, OnTyped DEF CopyOK
\* What the services got: the new message once, where it was sent.
<1>7. /\ got' \in [Nodes -> [Numbers -> Nat]]
      /\ \A k \in Nodes, b \in Numbers : b # N => got'[k][b] = got[k][b]
      /\ \A k \in Nodes : got'[k][N] \in {0, 1} /\ (k # n => got'[k][N] = 0)
  <2>1. got \in [Nodes -> [Numbers -> Nat]] /\ \A k \in Nodes : got[k][N] = 0
    BY <1>2, <1>o DEF IInv, TypeOK, Unsent
  <2>2. CASE got' = got
    BY <2>1, <2>2
  <2>3. CASE got' = ToLocalServices(n, m)
    <3>1. /\ got' \in [Nodes -> [Numbers -> Nat]]
          /\ got'[n] = [got[n] EXCEPT ![N] = @ + 1]
          /\ \A k \in Nodes : k # n => got'[k] = got[k]
      <4>1. /\ got' \in [Nodes -> [Numbers -> Nat]]
            /\ got'[n] = [got[n] EXCEPT ![m.of] = @ + 1]
            /\ \A k \in Nodes : k # n => got'[k] = got[k]
        BY <1>2, <1>3, <1>t, <2>3, GotTyped
      <4> QED BY <1>3, <4>1
    <3>2. got[n] \in [Numbers -> Nat] /\ got[n][N] = 0
      BY <2>1
    <3>3. got'[n][N] = 1 /\ \A b \in Numbers : b # N => got'[n][b] = got[n][b]
      BY <1>2, <3>1, <3>2
    <3> QED BY <2>1, <3>1, <3>3
  <2> QED BY <1>1, <2>2, <2>3
<1>8. TypeOK'
  <2>1. ASSUME NEW k \in Pairs, NEW o \in On(k)' PROVE CopyOK(o)'
    <3>1. CASE o \in On(k)
      BY <1>2, <1>6, <1>o, <3>1 DEF CopyOK
    <3>2. CASE o = f
      BY <1>2, <1>4, <1>5, <1>o, <3>2 DEF CopyOK
    <3> QED BY <1>4, <2>1, <3>1, <3>2
  <2>2. \A k \in Pairs : \A i \in 1..Len(chan'[k]) : CopyOK(chan[k][i])'
    BY <2>1 DEF On, Elems, CopyOK
  <2>3. seq' \in [Nodes -> Nat]
    <3>1. seq \in [Nodes -> Nat]
      BY <1>t DEF TypeOK
    <3>2. seq' = seq \/ seq' = [seq EXCEPT ![n] = @ + 1]
      BY <1>1
    <3> QED BY <3>1, <3>2
  <2> QED BY <1>1, <1>2, <1>4, <1>7, <1>t, <2>2, <2>3 DEF TypeOK, linkVars
<1>9. OneId'
  <2> SUFFICES ASSUME NEW k \in Pairs, NEW l \in Pairs, NEW a \in On(k)', NEW o \in On(l)',
                      a.of = o.of
               PROVE  a.id = o.id /\ a.timeout = o.timeout
    BY DEF OneId
  <2>1. CASE a \in On(k) /\ o \in On(l)
    BY <2>1 DEF IInv, OneId
  <2>2. CASE a = f /\ o = f
    BY <2>2
  <2>3. (a \in On(k) /\ o = f => FALSE) /\ (a = f /\ o \in On(l) => FALSE)
    BY <1>5, <1>6
  <2> QED BY <1>4, <2>1, <2>2, <2>3
<1>10. Unsent'
  <2> SUFFICES ASSUME NEW k \in Nodes, NEW b \in Numbers, b > N PROVE got'[k][b] = 0
    BY <1>2 DEF Unsent
  <2>1. b > Len(sent) /\ b # N
    BY <1>2, <1>N DEF Numbers
  <2> QED BY <1>7, <2>1 DEF IInv, Unsent
<1>11. \A k \in Nodes, b \in 1..Len(sent) : Limit(k, b)' = Limit(k, b)
  BY <1>2 DEF Limit
<1>12. \A k \in Nodes : ~(got'[k][N] >= Limit(k, N)') /\ got'[k][N] <= Limit(k, N)'
  <2> TAKE k \in Nodes
  <2>1. Limit(k, N)' = IF k = n THEN 2 ELSE 1
    BY <1>2 DEF Limit
  <2> QED BY <1>7, <2>1
<1>13. Settled'
  <2> SUFFICES ASSUME NEW k \in Nodes, NEW l \in Pairs, NEW o \in On(l)',
                      o.scope # "service", got'[k][o.of] >= Limit(k, o.of)'
               PROVE  Immune(k, o)'
    BY DEF Settled
  <2>1. o # f
    BY <1>5, <1>12
  <2>2. o \in On(l) /\ o.of \in Numbers /\ o.of # N /\ o.of \in 1..Len(sent) /\ o \in Copy
    BY <1>4, <1>6, <1>o, <2>1
  <2>3. Immune(k, o)
    BY <1>7, <1>11, <2>2 DEF IInv, Settled
  <2>4. StillImmune(k)
    BY <1>1, ImmuneKept
  <2> QED BY <2>2, <2>3, <2>4 DEF StillImmune
<1>14. OncePerComputer'
  <2> SUFFICES ASSUME NEW b \in 1..N, NEW k \in Nodes, sent'[b].scope # "service"
               PROVE  got'[k][b] <= Limit(k, b)'
    BY <1>2 DEF OncePerComputer, Limit
  <2>1. CASE b \in 1..Len(sent)
    <3>1. b # N /\ b \in Numbers /\ sent[b].scope # "service"
      BY <1>2, <1>o, <2>1
    <3> QED BY <1>7, <1>11, <2>1, <3>1 DEF IInv, OncePerComputer, Limit
  <2>2. CASE b = N
    BY <1>12, <2>2
  <2> QED BY <1>n, <2>1, <2>2
<1>15. PrivateLinks'
  <2> SUFFICES ASSUME NEW k \in Pairs, NEW o \in On(k)', o.scope = "private"
               PROVE  Zone[k[2]] = Zone[sent'[o.of].origin]
    BY DEF PrivateLinks
  <2>1. CASE o \in On(k)
    BY <1>2, <1>6, <2>1 DEF IInv, PrivateLinks
  <2>2. CASE o = f /\ k[2] \in Targets(n, m)
    <3>1. Zone[k[2]] = Zone[n]
      BY <1>3, <1>5, <2>2 DEF Targets, Candidates
    <3> QED BY <1>2, <1>5, <2>2, <3>1
  <2> QED BY <1>4, <2>1, <2>2
<1>16. PrivateStaysInside'
  <2> SUFFICES ASSUME NEW b \in 1..N, NEW k \in Nodes, sent'[b].scope = "private", got'[k][b] > 0
               PROVE  Zone[k] = Zone[sent'[b].origin]
    BY <1>2 DEF PrivateStaysInside
  <2>1. CASE b \in 1..Len(sent)
    <3>1. b # N /\ b \in Numbers /\ sent'[b] = sent[b]
      BY <1>2, <1>o, <2>1
    <3> QED BY <1>7, <2>1, <3>1 DEF IInv, PrivateStaysInside
  <2>2. CASE b = N
    <3>1. k = n
      BY <1>7, <2>2
    <3> QED BY <1>2, <2>2, <3>1
  <2> QED BY <1>n, <2>1, <2>2
<1> QED BY <1>8, <1>9, <1>10, <1>13, <1>14, <1>15, <1>16 DEF IInv

-----------------------------------------------------------------------------
(* The theorems.                                                           *)

LEMMA Initially == Init => IInv
<1> SUFFICES ASSUME Init PROVE IInv
  OBVIOUS
<1>1. \A l \in Pairs : On(l) = {} /\ Len(chan[l]) = 0
  BY DEF Init, On, Elems
<1>2. TypeOK
  BY <1>1, ClusterAssumption, LimitsAssumption DEF Init, TypeOK
<1>3. OneId /\ Settled /\ PrivateLinks
  BY <1>1 DEF OneId, Settled, PrivateLinks
<1>4. Unsent /\ OncePerComputer /\ PrivateStaysInside
  BY DEF Init, Unsent, OncePerComputer, PrivateStaysInside
<1> QED BY <1>2, <1>3, <1>4 DEF IInv

LEMMA Inductive == IInv /\ [Next]_vars => IInv'
<1> SUFFICES ASSUME IInv, [Next]_vars PROVE IInv'
  OBVIOUS
<1>1. CASE UNCHANGED vars
  <2>1. TypeOK'
    BY <1>1 DEF IInv, TypeOK, CopyOK, vars
  <2> QED BY <1>1, <2>1, NothingChanged DEF vars
<1>2. ASSUME NEW n \in Nodes, NEW scope \in Scopes, Originate(n, scope) PROVE IInv'
  BY <1>2, OriginateStep
<1>3. ASSUME NEW n \in Nodes, Restart(n) \/ Tick(n) PROVE IInv'
  BY <1>3, RestartStep, TickStep
<1>4. ASSUME NEW l \in Pairs, Discard(l[1], l[2]) \/ Arrive(l[1], l[2]) PROVE IInv'
  BY <1>4, DiscardStep, ArriveStep
<1>5. ASSUME NEW l \in Pairs, PassOn(l[1], l[2]) \/ Relay(l[1], l[2]) PROVE IInv'
  BY <1>5, PassOnStep, RelayStep
<1>6. ASSUME NEW l \in Pairs, Connect(l[1], l[2]) \/ HangUp(l[1], l[2]) PROVE IInv'
  BY <1>6, ConnectStep, HangUpStep
<1> QED BY <1>1, <1>2, <1>3, <1>4, <1>5, <1>6 DEF Next

LEMMA Invariance == Spec => []IInv
BY Initially, Inductive, PTL DEF Spec

\* Every copy in flight is one of a message a client sent.
THEOREM TypeCorrect == Spec => []TypeOK
<1>1. IInv => TypeOK
  BY DEF IInv
<1> QED BY Invariance, <1>1, PTL

\* Since it started last, no computer but the one a broadcast was sent on hands it to
\* its services more than once, and that one not more than twice: on any graph of links,
\* with any number of restarts and whatever the clocks of the computers say.
THEOREM DeliveredOnce == Spec => []OncePerComputer
<1>1. IInv => OncePerComputer
  BY DEF IInv
<1> QED BY Invariance, <1>1, PTL

\* A private broadcast reaches no other data center.
THEOREM PrivateKept == Spec => []PrivateStaysInside
<1>1. IInv => PrivateStaysInside
  BY DEF IInv
<1> QED BY Invariance, <1>1, PTL

-----------------------------------------------------------------------------
(* Broadcasts reach everybody.                                             *)

\* Nothing failed since the links were established, and no time passed that a
\* message could not outlive.
Calm == faults = 0 /\ \A n \in Nodes : clock[n] <= Timeout

Quiet == \A l \in Pairs : chan[l] = <<>>

\* The computers b is meant for.
Area(b) == IF sent[b].scope = "public" THEN Nodes
           ELSE {n \in Nodes : Zone[n] = Zone[sent[b].origin]}

\* S does not fall apart without the links to other computers.
Connected(S) == \A T \in SUBSET S :
    T = {} \/ T = S \/ \E l \in Both(dials) : l[1] \in T /\ l[2] \in S /\ l[2] \notin T

\* Once nothing is on its way, every broadcast reached all the computers it is
\* meant for.
QuietReached == Calm /\ Quiet =>
    \A b \in 1..Len(sent) : sent[b].scope # "service" /\ Connected(Area(b)) =>
        \A n \in Area(b) : got[n][b] >= 1

\* The hop limit fits the number of computers: 5 hops do for 6 of them.
Small == /\ MaxHops > 0 /\ IsFiniteSet(Nodes) /\ Cardinality(Nodes) <= MaxHops + 1

Origin(b) == sent[b].origin
Near(n, scope) == {p \in Nodes : <<n, p>> \in up /\ (scope = "private" => Zone[p] = Zone[n])}

\* n got b, or a copy is on its way to it.
Coming(b, n) == \E l \in Pairs : l[2] = n /\ \E o \in On(l) : o.of = b
Covered(b, n) == got[n][b] >= 1 \/ Coming(b, n)

Used(id) == id[2] <= seq[id[1]]

\* Every computer a copy says is informed is, or will be. The neighbors of the
\* origin are informed first, so a copy that comes back to it goes no further, and
\* each other hop informs one computer more.
FloodFine(m, t) ==
    /\ Near(Origin(m.of), m.scope) \subseteq m.informed
    /\ t = Origin(m.of) \/ m.hops <= Cardinality(m.informed \ {Origin(m.of)})
    /\ \A p \in m.informed : Covered(m.of, p)
CopyFine(m, t) == /\ m.timeout >= Timeout /\ Used(m.id)
                  /\ m.scope # "service" => FloodFine(m, t)

\* Who got a message passed it on.
PassedOn(b, n) == got[n][b] >= 1 => \A p \in Near(n, sent[b].scope) : Covered(b, p)
MessageFine(b) == got[Origin(b)][b] >= 1 /\ \A n \in Nodes : PassedOn(b, n)

\* What n remembers it got.
SeenBefore(n, r) == \A l \in Pairs : \A m \in On(l) :
    m.scope # "service" /\ m.id = r.id => got[n][m.of] >= 1

\* The inductive invariant, on top of IInv.
FInv == /\ up = Both(dials)
        /\ \A l \in Pairs : \A m \in On(l) : CopyFine(m, l[2])
        /\ \A k, l \in Pairs : \A m \in On(k), o \in On(l) : m.id = o.id => m.of = o.of
        /\ \A n \in Nodes : \A r \in received[n] : Used(r.id) /\ SeenBefore(n, r)
        /\ \A b \in 1..Len(sent) : sent[b].scope # "service" => MessageFine(b)

\* A copy that made as many hops as it may has informed everybody.
LEMMA HopsEnough ==
    ASSUME Small, NEW S \in SUBSET Nodes, NEW o \in Nodes, Cardinality(S \ {o}) >= MaxHops
    PROVE  \A p \in Nodes : p = o \/ p \in S
<1> SUFFICES ASSUME NEW p \in Nodes, p # o, p \notin S PROVE FALSE
  OBVIOUS
<1> DEFINE A == S \ {o}
           B == Nodes \ {o}
<1>1. /\ IsFiniteSet(Nodes) /\ Cardinality(Nodes) \in Nat /\ MaxHops \in Nat
      /\ Cardinality(Nodes) <= MaxHops + 1
  BY FS_CardinalityType, LimitsAssumption DEF Small
<1>2. IsFiniteSet(B) /\ Cardinality(B) = Cardinality(Nodes) - 1
  BY <1>1, FS_RemoveElement
<1>3. A \in SUBSET B /\ p \notin A /\ A \cup {p} \in SUBSET B
  OBVIOUS
<1>4. IsFiniteSet(A) /\ Cardinality(A) >= MaxHops
  BY <1>2, <1>3, FS_Subset
<1> HIDE DEF A, B
<1>5. Cardinality(A) \in Nat /\ Cardinality(A \cup {p}) = Cardinality(A) + 1
  BY <1>3, <1>4, FS_CardinalityType, FS_AddElement
<1>6. Cardinality(A \cup {p}) <= Cardinality(B)
  BY <1>2, <1>3, FS_Subset
<1> QED BY <1>1, <1>2, <1>4, <1>5, <1>6

\* One computer more is informed.
LEMMA OneMore ==
    ASSUME Small, NEW S \in SUBSET Nodes, NEW T \in SUBSET Nodes, S \subseteq T,
           NEW o, NEW t \in T, t \notin S, t # o
    PROVE  Cardinality(S \ {o}) + 1 <= Cardinality(T \ {o})
<1> DEFINE A == S \ {o}
           B == T \ {o}
<1>1. IsFiniteSet(A) /\ IsFiniteSet(B)
  BY FS_Subset DEF Small
<1>2. t \notin A /\ A \cup {t} \in SUBSET B
  OBVIOUS
<1> HIDE DEF A, B
<1>3. Cardinality(A) \in Nat /\ Cardinality(A \cup {t}) = Cardinality(A) + 1
  BY <1>1, <1>2, FS_CardinalityType, FS_AddElement
<1>4. Cardinality(A \cup {t}) <= Cardinality(B)
  BY <1>1, <1>2, FS_Subset
<1> QED BY <1>3, <1>4 DEF A, B

LEMMA TailKeeps ==
    ASSUME NEW S, NEW s \in Seq(S), s # <<>>
    PROVE  \A o \in Elems(s) : o \in Elems(Tail(s)) \/ o = Head(s)
<1>1. Len(s) \in Nat /\ Len(s) > 0 /\ Len(Tail(s)) = Len(s) - 1 /\ Head(s) = s[1]
  OBVIOUS
<1>2. \A i \in 1..(Len(s) - 1) : Tail(s)[i] = s[i + 1]
  BY <1>1
<1>3. \A i \in 1..Len(s) : i = 1 \/ (i - 1 \in 1..(Len(s) - 1) /\ (i - 1) + 1 = i)
  BY <1>1
<1>4. ASSUME NEW i \in 1..Len(s) PROVE s[i] \in Elems(Tail(s)) \/ s[i] = Head(s)
  <2>1. CASE i = 1
    BY <1>1, <2>1
  <2>2. CASE i # 1
    <3>1. i - 1 \in 1..Len(Tail(s)) /\ Tail(s)[i - 1] = s[i]
      BY <1>1, <1>2, <1>3, <2>2
    <3> QED BY <3>1 DEF Elems
  <2> QED BY <2>1, <2>2
<1> QED BY <1>4 DEF Elems

LEMMA AppendKeeps ==
    ASSUME NEW S, NEW s \in Seq(S), NEW m \in S
    PROVE  Elems(s) \subseteq Elems(Append(s, m)) /\ m \in Elems(Append(s, m))
<1>1. /\ Len(Append(s, m)) = Len(s) + 1 /\ Len(s) \in Nat
      /\ \A i \in 1..(Len(s) + 1) : Append(s, m)[i] = IF i <= Len(s) THEN s[i] ELSE m
  OBVIOUS
<1>2. /\ \A i \in 1..Len(s) : i \in 1..(Len(s) + 1) /\ i <= Len(s)
      /\ Len(s) + 1 \in 1..(Len(s) + 1) /\ ~(Len(s) + 1 <= Len(s))
  BY <1>1
<1> QED BY <1>1, <1>2 DEF Elems

\* What is sent arrives in the channels that work, after what they hold.
Sent(before, after, n, m) == \A k \in Pairs :
    /\ \A o \in Elems(after[k]) :
         \/ o \in Elems(before[k])
         \/ o = Forwarded(n, m) /\ k[1] = n /\ k[2] \in Targets(n, m)
    /\ Elems(before[k]) \subseteq Elems(after[k])
    /\ k[1] = n /\ k[2] \in Targets(n, m) /\ k \in up => Forwarded(n, m) \in Elems(after[k])

LEMMA SendReaches ==
    ASSUME NEW channels \in [Pairs -> Seq(Copy)], NEW n \in Nodes, NEW m \in Copy
    PROVE  Sent(channels, Send(channels, n, m), n, m)
<1> SUFFICES ASSUME NEW k \in Pairs
             PROVE  /\ \A o \in Elems(Send(channels, n, m)[k]) :
                         \/ o \in Elems(channels[k])
                         \/ o = Forwarded(n, m) /\ k[1] = n /\ k[2] \in Targets(n, m)
                    /\ Elems(channels[k]) \subseteq Elems(Send(channels, n, m)[k])
                    /\ k[1] = n /\ k[2] \in Targets(n, m) /\ k \in up =>
                         Forwarded(n, m) \in Elems(Send(channels, n, m)[k])
  BY DEF Sent
<1>0. \A o \in Elems(Send(channels, n, m)[k]) :
        \/ o \in Elems(channels[k])
        \/ o = Forwarded(n, m) /\ k[1] = n /\ k[2] \in Targets(n, m)
  BY SendElems
<1>1. Forwarded(n, m) \in Copy
  BY SendElems
<1>2. PICK f : f = Forwarded(n, m)
  OBVIOUS
<1>3. Send(channels, n, m)[k] = IF k[1] = n /\ k[2] \in Targets(n, m) /\ k \in up
                                THEN Append(channels[k], f) ELSE channels[k]
  BY <1>2 DEF Send
<1>4. Elems(channels[k]) \subseteq Elems(Append(channels[k], f))
      /\ f \in Elems(Append(channels[k], f))
  BY <1>1, <1>2, AppendKeeps
<1> QED BY <1>0, <1>2, <1>3, <1>4

\* Only the oldest copy leaves a channel.
LEMMA RestKeeps ==
    ASSUME TypeOK, NEW l \in Pairs, chan[l] # <<>>
    PROVE  \A k \in Pairs : \A o \in On(k) :
             o \in Elems(Rest(l[1], l[2])[k]) \/ (k = l /\ o = Oldest(l[1], l[2]))
<1>1. <<l[1], l[2]>> = l /\ chan \in [Pairs -> Seq(Copy)]
  BY DEF Pairs, TypeOK
<1>2. Rest(l[1], l[2]) = [chan EXCEPT ![l] = Tail(@)] /\ Oldest(l[1], l[2]) = Head(chan[l])
  BY <1>1 DEF Rest, Oldest
<1>3. \A o \in Elems(chan[l]) : o \in Elems(Tail(chan[l])) \/ o = Head(chan[l])
  BY <1>1, TailKeeps
<1> QED BY <1>1, <1>2, <1>3 DEF On

\* A daemon takes the copy m, drops it, keeps it or passes it on as f.
LEMMA Handled ==
    ASSUME Small, IInv, FInv, NEW l \in Pairs, NEW m \in On(l), NEW n \in Nodes, n = l[2], NEW f,
           SameMessage(f, m), f.hops = m.hops + 1, f.informed = m.informed \cup Targets(n, m),
           UNCHANGED <<dials, up, seq, sent>>,
           \A k \in Pairs : \A o \in On(k) : o \in On(k)' \/ (k = l /\ o = m),
           \A k \in Pairs : \A o \in On(k)' :
             o \in On(k) \/ (o = f /\ k[1] = n /\ k[2] \in Targets(n, m)),
           \A k \in Nodes : \A b \in 1..Len(sent) :
             got'[k][b] = got[k][b] \/ (k = n /\ b = m.of /\ got'[k][b] >= 1),
           m.scope # "service" => got'[n][m.of] >= 1,
           \/ /\ \A k \in Pairs : On(k)' \subseteq On(k)
              /\ m.scope # "service" => got[n][m.of] >= 1
           \/ \A k \in Pairs : k[1] = n /\ k[2] \in Targets(n, m) /\ k \in up => f \in On(k)',
           \A k \in Nodes : \A r \in received'[k] : r \in received[k] \/ (k = n /\ r.id = m.id)
    PROVE  FInv'
<1>0. PICK o : o = Origin(m.of)
  OBVIOUS
<1>1. \A k \in Pairs : \A c \in On(k) :
        /\ c \in Copy /\ c.of \in 1..Len(sent) /\ c.scope = sent[c.of].scope
        /\ c.hops \in Nat /\ c.informed \in SUBSET Nodes
  BY OnTyped DEF IInv, CopyOK, Copy
<1>2. /\ \A x, s : Near(x, s)' = Near(x, s)
      /\ \A b : Origin(b)' = Origin(b)
      /\ \A id : Used(id)' <=> Used(id)
  BY DEF Near, Origin, Used
<1>3. /\ f.of = m.of /\ f.id = m.id /\ f.timeout = m.timeout /\ f.scope = m.scope
      /\ Targets(n, m) \in SUBSET Nodes /\ \A t \in Targets(n, m) : t \notin m.informed
      /\ MaxHops \in Nat /\ sent \in Seq(Request)
  BY LimitsAssumption DEF SameMessage, Targets, Candidates, IInv, TypeOK
<1>4. ASSUME NEW b \in 1..Len(sent), sent[b].scope # "service", NEW p, Covered(b, p), p \in Nodes
      PROVE  Covered(b, p)'
  <2>1. CASE got[p][b] >= 1
    BY <1>4, <2>1 DEF Covered
  <2>2. CASE Coming(b, p)
    <3>1. PICK k \in Pairs : k[2] = p /\ \E c \in On(k) : c.of = b
      BY <2>2 DEF Coming
    <3>2. PICK c \in On(k) : c.of = b
      BY <3>1
    <3>3. CASE c \in On(k)'
      BY <3>1, <3>2, <3>3 DEF Covered, Coming
    <3>4. CASE k = l /\ c = m
      <4>1. m.of = b /\ p = n /\ m.scope # "service"
        BY <1>1, <1>4, <3>1, <3>2, <3>4
      <4> QED BY <4>1 DEF Covered
    <3> QED BY <3>3, <3>4
  <2> QED BY <1>4, <2>1, <2>2 DEF Covered
\* The computers a broadcast is sent to are the neighbors not yet informed.
<1>5. ASSUME m.scope # "service"
      PROVE  /\ m.of \in 1..Len(sent) /\ sent[m.of].scope # "service" /\ o \in Nodes
             /\ Near(o, m.scope) \subseteq m.informed
             /\ n = o \/ m.hops <= Cardinality(m.informed \ {o})
             /\ \A p \in m.informed : p \in Nodes /\ Covered(m.of, p)'
             /\ got[o][m.of] >= 1 /\ Covered(m.of, o)'
             /\ Targets(n, m) \subseteq Near(n, m.scope)
             /\ m.hops < MaxHops => \A p \in Near(n, m.scope) : p \in Targets(n, m) \/ p \in m.informed
  <2>1. m.of \in 1..Len(sent) /\ sent[m.of].scope # "service"
    BY <1>1, <1>5
  <2>2. o \in Nodes
    <3>1. sent[m.of] \in Request
      BY <1>3, <2>1
    <3> QED BY <1>0, <3>1 DEF Origin, Request
  <2>3. FloodFine(m, n)
    BY <1>5 DEF FInv, CopyFine
  <2>4. \A p \in m.informed : p \in Nodes /\ Covered(m.of, p)
    BY <1>1, <2>3 DEF FloodFine
  <2>5. got[o][m.of] >= 1 /\ Covered(m.of, o)
    BY <1>0, <2>1 DEF FInv, MessageFine, Covered
  <2>6. m.scope \in {"public", "private"}
    BY <1>1, <1>5, ClusterAssumption DEF Copy
  <2>7. dials \subseteq up
    BY DEF FInv, Both
  <2>8. Targets(n, m) \subseteq Near(n, m.scope)
    BY <1>5, <2>6, <2>7 DEF Targets, Candidates, Connections, Near
  <2>9. m.hops < MaxHops => \A p \in Near(n, m.scope) : p \in Targets(n, m) \/ p \in m.informed
    BY <2>6 DEF Targets, Candidates, Connections, Near
  <2> QED BY <1>0, <1>4, <2>1, <2>2, <2>3, <2>4, <2>5, <2>8, <2>9 DEF FloodFine
<1>6. ASSUME m.scope # "service", NEW t \in Targets(n, m),
             \A k \in Pairs : k[1] = n /\ k[2] \in Targets(n, m) /\ k \in up => f \in On(k)'
      PROVE  Covered(m.of, t)'
  <2>1. <<n, t>> \in up /\ up \subseteq Pairs
    BY <1>5, <1>6 DEF Near, IInv, TypeOK
  <2>2. f \in On(<<n, t>>)'
    BY <1>6, <2>1
  <2> QED BY <1>3, <2>1, <2>2 DEF Covered, Coming
\* The copies.
<1>7. ASSUME NEW k \in Pairs, NEW c \in On(k)' PROVE CopyFine(c, k[2])'
  <2>1. CASE c \in On(k)
    <3>1. CopyFine(c, k[2]) /\ c.of \in 1..Len(sent) /\ c.scope = sent[c.of].scope
      BY <1>1, <2>1 DEF FInv
    <3>2. \A p \in c.informed : p \in Nodes
      BY <1>1, <2>1
    <3> QED BY <1>2, <1>4, <3>1, <3>2 DEF CopyFine, FloodFine
  <2>2. CASE c = f /\ c \notin On(k)
    <3>1. k[1] = n /\ k[2] \in Targets(n, m)
      BY <1>7, <2>2
    <3>2. m.timeout >= Timeout /\ Used(m.id)
      BY DEF FInv, CopyFine
    <3>3. ASSUME m.scope # "service" PROVE FloodFine(f, k[2])'
      <4>1. n # o
        BY <1>3, <1>5, <3>1, <3>3
      <4>2. k[2] = o \/ f.hops <= Cardinality(f.informed \ {o})
        <5>1. SUFFICES ASSUME k[2] # o PROVE f.hops <= Cardinality(f.informed \ {o})
          OBVIOUS
        <5>2. /\ m.informed \in SUBSET Nodes /\ f.informed \in SUBSET Nodes
              /\ m.informed \subseteq f.informed
              /\ k[2] \in f.informed /\ k[2] \notin m.informed
          BY <1>1, <1>3, <3>1
        <5>3. Cardinality(m.informed \ {o}) + 1 <= Cardinality(f.informed \ {o})
          BY <5>1, <5>2, OneMore
        <5>4. m.hops <= Cardinality(m.informed \ {o})
          BY <1>5, <3>3, <4>1
        <5>5. /\ Cardinality(m.informed \ {o}) \in Nat /\ Cardinality(f.informed \ {o}) \in Nat
              /\ m.hops \in Nat
          <6>1. IsFiniteSet(m.informed \ {o}) /\ IsFiniteSet(f.informed \ {o})
            BY <5>2, FS_Subset DEF Small
          <6> QED BY <1>1, <6>1, FS_CardinalityType
        <5> QED BY <5>3, <5>4, <5>5
      <4>3. \A p \in f.informed : Covered(m.of, p)'
        BY <1>5, <1>6, <1>7, <2>2, <3>3
      <4>4. Near(o, m.scope) \subseteq f.informed
        BY <1>5, <3>3
      <4> QED BY <1>0, <1>2, <1>3, <4>2, <4>3, <4>4 DEF FloodFine
    <3> QED BY <1>2, <1>3, <2>2, <3>2, <3>3 DEF CopyFine
  <2> QED BY <1>7, <2>1, <2>2
\* Each is like one that was there.
<1>8. \A k \in Pairs : \A c \in On(k)' : \E j \in Pairs : \E d \in On(j) :
        c.id = d.id /\ c.of = d.of /\ c.scope = d.scope
  BY <1>3
<1>9. \A k, j \in Pairs : \A c \in On(k)', d \in On(j)' : c.id = d.id => c.of = d.of
  BY <1>8 DEF FInv
<1>10. ASSUME NEW k \in Nodes, NEW r \in received'[k] PROVE Used(r.id)' /\ SeenBefore(k, r)'
  <2>1. Used(r.id)
    <3>1. CASE r \in received[k]
      BY <3>1 DEF FInv
    <3>2. CASE r.id = m.id
      BY <3>2 DEF FInv, CopyFine
    <3> QED BY <1>10, <3>1, <3>2
  <2>2. ASSUME NEW j \in Pairs, NEW c \in On(j)', c.scope # "service", c.id = r.id
        PROVE  got'[k][c.of] >= 1
    <3>1. PICK i \in Pairs : \E d \in On(i) : c.id = d.id /\ c.of = d.of /\ c.scope = d.scope
      BY <1>8, <2>2
    <3>2. PICK d \in On(i) : c.id = d.id /\ c.of = d.of /\ c.scope = d.scope
      BY <3>1
    <3>3. CASE r \in received[k]
      <4>1. got[k][d.of] >= 1 /\ d.of \in 1..Len(sent)
        <5>1. SeenBefore(k, r)
          BY <3>3 DEF FInv
        <5> QED BY <1>1, <2>2, <3>2, <5>1 DEF SeenBefore
      <4> QED BY <3>2, <4>1
    <3>4. CASE k = n /\ r.id = m.id
      <4>1. d.of = m.of
        <5>1. d.id = m.id
          BY <2>2, <3>2, <3>4
        <5> QED BY <5>1 DEF FInv
      <4>2. d.scope = m.scope
        BY <1>1, <4>1
      <4> QED BY <2>2, <3>2, <3>4, <4>1, <4>2
    <3> QED BY <1>10, <3>3, <3>4
  <2> QED BY <1>2, <2>1, <2>2 DEF SeenBefore
\* The messages.
<1>11. ASSUME NEW b \in 1..Len(sent), sent[b].scope # "service" PROVE MessageFine(b)'
  <2>1. MessageFine(b) /\ Origin(b) \in Nodes
    <3>1. sent[b] \in Request
      BY <1>3
    <3> QED BY <1>11, <3>1 DEF FInv, Origin, Request
  <2>2. got'[Origin(b)][b] >= 1
    BY <2>1 DEF MessageFine
  <2>3. ASSUME NEW x \in Nodes, got'[x][b] >= 1, NEW p \in Near(x, sent[b].scope)
        PROVE  Covered(b, p)'
    <3>0. p \in Nodes
      BY DEF Near
    <3>1. CASE got[x][b] >= 1
      <4>1. Covered(b, p)
        BY <2>1, <2>3, <3>1 DEF MessageFine, PassedOn
      <4> QED BY <1>4, <1>11, <3>0, <4>1
    <3>2. CASE ~(got[x][b] >= 1)
      <4>1. x = n /\ b = m.of /\ ~(got[n][m.of] >= 1)
        BY <2>3, <3>2
      <4>2. m.scope = sent[b].scope /\ m.scope # "service" /\ p \in Near(n, m.scope)
        BY <1>1, <1>11, <2>3, <4>1
      <4>3. \A k \in Pairs : k[1] = n /\ k[2] \in Targets(n, m) /\ k \in up => f \in On(k)'
        BY <4>1, <4>2
      <4>4. CASE p \in m.informed \/ p \in Targets(n, m) \/ p = o
        BY <1>5, <1>6, <4>1, <4>2, <4>3, <4>4
      <4>5. CASE ~(m.hops < MaxHops)
        <5>1. CASE n = o
          BY <1>5, <4>2, <4>4, <5>1
        <5>2. CASE n # o
          <6>1. m.hops <= Cardinality(m.informed \ {o}) /\ m.hops \in Nat /\ o \in Nodes
                /\ m.informed \in SUBSET Nodes
            BY <1>1, <1>5, <4>2, <5>2
          <6>2. Cardinality(m.informed \ {o}) \in Nat
            <7>1. IsFiniteSet(m.informed \ {o})
              BY <6>1, FS_Subset DEF Small
            <7> QED BY <7>1, FS_CardinalityType
          <6>3. Cardinality(m.informed \ {o}) >= MaxHops
            BY <1>3, <4>5, <6>1, <6>2
          <6>4. p = o \/ p \in m.informed
            BY <3>0, <6>1, <6>3, HopsEnough
          <6> QED BY <4>4, <6>4
        <5> QED BY <5>1, <5>2
      <4>6. CASE m.hops < MaxHops
        BY <1>5, <4>2, <4>4, <4>6
      <4> QED BY <4>5, <4>6
    <3> QED BY <3>1, <3>2
  <2> QED BY <1>2, <2>2, <2>3 DEF MessageFine, PassedOn
<1> QED BY <1>7, <1>9, <1>10, <1>11 DEF FInv, Both

LEMMA ForwardedFields ==
    ASSUME NEW n \in Nodes, NEW m \in Copy
    PROVE  /\ Forwarded(n, m).hops = m.hops + 1
           /\ Forwarded(n, m).informed = m.informed \cup Targets(n, m)
           /\ SameMessage(Forwarded(n, m), m)
<1>1. SameMessage(Forwarded(n, m), m)
  <2>1. PICK channels : channels \in [Pairs -> Seq(Copy)]
    <3>1. [k \in Pairs |-> <<>>] \in [Pairs -> Seq(Copy)]
      OBVIOUS
    <3> QED BY <3>1
  <2> QED BY <2>1, SendElems DEF SameMessage
<1> DEFINE more == m.informed \cup Targets(n, m)
<1>2. Forwarded(n, m) = [m EXCEPT !.hops = m.hops + 1, !.informed = more]
  BY DEF Forwarded
<1> HIDE DEF more
<1>3. [m EXCEPT !.hops = m.hops + 1, !.informed = more].hops = m.hops + 1
  BY DEF Copy
<1>4. [m EXCEPT !.hops = m.hops + 1, !.informed = more].informed = more
  BY DEF Copy
<1> QED BY <1>1, <1>2, <1>3, <1>4 DEF more

\* The copies on their way after one was taken and passed on.
LEMMA Passing ==
    ASSUME IInv, NEW l \in Pairs, Reading(l[1], l[2]), NEW m, m = Oldest(l[1], l[2]),
           NEW n, n = l[2], NEW f, f = Forwarded(n, m), chan' = Send(Rest(l[1], l[2]), n, m)
    PROVE  /\ \A k \in Pairs : \A o \in On(k) : o \in On(k)' \/ (k = l /\ o = m)
           /\ \A k \in Pairs : \A o \in On(k)' :
                o \in On(k) \/ (o = f /\ k[1] = n /\ k[2] \in Targets(n, m))
           /\ \A k \in Pairs : k[1] = n /\ k[2] \in Targets(n, m) /\ k \in up => f \in On(k)'
<1>1. PICK rest : rest = Rest(l[1], l[2])
  OBVIOUS
<1>2. /\ n \in Nodes /\ m \in Copy /\ rest \in [Pairs -> Seq(Copy)]
      /\ \A k \in Pairs : Elems(rest[k]) \subseteq On(k)
  BY <1>1, ReadingOne DEF IInv
<1>3. \A k \in Pairs : \A o \in On(k) : o \in Elems(rest[k]) \/ (k = l /\ o = m)
  <2>1. <<l[1], l[2]>> = l
    BY DEF Pairs
  <2>2. chan[l] # <<>>
    BY <2>1 DEF Reading
  <2> QED BY <1>1, <2>2, RestKeeps DEF IInv
<1>4. Sent(rest, Send(rest, n, m), n, m)
  BY <1>2, SendReaches
<1>5. Sent(rest, chan', n, m) /\ \A k \in Pairs : On(k)' = Elems(chan'[k])
  BY <1>1, <1>4 DEF On, Elems
<1> QED BY <1>2, <1>3, <1>5 DEF Sent

LEMMA Dropping ==
    ASSUME IInv, NEW l \in Pairs, Reading(l[1], l[2]), NEW m, m = Oldest(l[1], l[2]),
           chan' = Rest(l[1], l[2])
    PROVE  /\ \A k \in Pairs : \A o \in On(k) : o \in On(k)' \/ (k = l /\ o = m)
           /\ \A k \in Pairs : On(k)' \subseteq On(k)
<1>1. \A k \in Pairs : Elems(Rest(l[1], l[2])[k]) \subseteq On(k)
  BY ReadingOne DEF IInv
<1>2. chan[l] # <<>>
  <2>1. <<l[1], l[2]>> = l
    BY DEF Pairs
  <2> QED BY <2>1 DEF Reading
<1>3. \A k \in Pairs : \A o \in On(k) :
        o \in Elems(Rest(l[1], l[2])[k]) \/ (k = l /\ o = m)
  BY <1>2, RestKeeps DEF IInv
<1>4. \A k \in Pairs : On(k)' = Elems(Rest(l[1], l[2])[k])
  BY DEF On, Elems
<1> QED BY <1>1, <1>3, <1>4

\* What any handler of a copy starts from.
LEMMA Taking ==
    ASSUME IInv, NEW l \in Pairs, Reading(l[1], l[2]), NEW m, m = Oldest(l[1], l[2])
    PROVE  /\ m \in On(l) /\ m \in Copy /\ m.of \in 1..Len(sent) /\ m.of \in Numbers
           /\ l[2] \in Nodes /\ m.scope = sent[m.of].scope /\ 1..Len(sent) \subseteq Numbers
           /\ UNCHANGED <<dials, up, seq, sent, faults, clock>>
<1>1. Len(sent) \in Nat /\ MaxBroadcasts \in Nat /\ Len(sent) <= MaxBroadcasts
  BY LimitsAssumption DEF IInv, TypeOK
<1> QED BY <1>1, ReadingOne DEF IInv, CopyOK, linkVars, Numbers

\* Nothing times out while the network is calm, so what is dropped was seen.
LEMMA DiscardFlow ==
    ASSUME Small, IInv, Calm, FInv, NEW l \in Pairs, Discard(l[1], l[2])
    PROVE  FInv'
<1>1. PICK m : m = Oldest(l[1], l[2])
  OBVIOUS
<1>2. PICK n : n = l[2]
  OBVIOUS
<1>3. /\ Reading(l[1], l[2]) /\ Stale(n, m) /\ chan' = Rest(l[1], l[2])
      /\ UNCHANGED <<received, got>>
  BY <1>1, <1>2 DEF Discard
<1>4. /\ m \in On(l) /\ m \in Copy /\ n \in Nodes /\ UNCHANGED <<dials, up, seq, sent>>
  BY <1>1, <1>2, <1>3, Taking
<1>5. m.scope # "service" => got[n][m.of] >= 1
  <2>1. m.timeout >= Timeout /\ clock[n] <= Timeout
    BY <1>2, <1>4 DEF FInv, CopyFine, Calm
  <2>2. m.timeout \in Nat /\ clock[n] \in Nat /\ Timeout \in Nat
    BY <1>4, LimitsAssumption DEF Copy, IInv, TypeOK
  <2>3. PICK r \in received[n] : r.id = m.id
    BY <1>3, <2>1, <2>2 DEF Stale
  <2>4. SeenBefore(n, r)
    BY <1>4 DEF FInv
  <2> QED BY <1>4, <2>3, <2>4 DEF SeenBefore
<1>6. PICK f : f = Forwarded(n, m)
  OBVIOUS
<1>7. SameMessage(f, m) /\ f.hops = m.hops + 1 /\ f.informed = m.informed \cup Targets(n, m)
  BY <1>4, <1>6, ForwardedFields
<1>8. /\ \A k \in Pairs : \A o \in On(k) : o \in On(k)' \/ (k = l /\ o = m)
      /\ \A k \in Pairs : On(k)' \subseteq On(k)
  BY <1>1, <1>3, Dropping
<1>9. /\ \A k \in Nodes : \A b \in 1..Len(sent) : got'[k][b] = got[k][b]
      /\ \A k \in Nodes : \A r \in received'[k] : r \in received[k]
      /\ got'[n][m.of] = got[n][m.of]
  BY <1>3
<1> QED BY <1>2, <1>4, <1>5, <1>7, <1>8, <1>9, Handled

LEMMA GotMore ==
    ASSUME TypeOK, NEW n \in Nodes, NEW m, m.of \in Numbers, got' = ToLocalServices(n, m),
           1..Len(sent) \subseteq Numbers
    PROVE  /\ \A k \in Nodes : \A b \in 1..Len(sent) :
                got'[k][b] = got[k][b] \/ (k = n /\ b = m.of /\ got'[k][b] >= 1)
           /\ got'[n][m.of] >= 1
<1>1. /\ got'[n] = [got[n] EXCEPT ![m.of] = @ + 1]
      /\ \A k \in Nodes : k # n => got'[k] = got[k]
  BY GotTyped
<1>2. got[n] \in [Numbers -> Nat] /\ got[n][m.of] \in Nat
  BY DEF TypeOK
<1>3. got'[n][m.of] = got[n][m.of] + 1 /\ \A b \in Numbers : b # m.of => got'[n][b] = got[n][b]
  BY <1>1, <1>2
<1>4. got'[n][m.of] >= 1
  BY <1>2, <1>3
<1> QED BY <1>1, <1>3, <1>4

LEMMA ArriveFlow ==
    ASSUME Small, IInv, FInv, NEW l \in Pairs, Arrive(l[1], l[2])
    PROVE  FInv'
<1>1. PICK m : m = Oldest(l[1], l[2])
  OBVIOUS
<1>2. PICK n : n = l[2]
  OBVIOUS
<1>3. /\ Reading(l[1], l[2]) /\ m.scope = "service" /\ chan' = Rest(l[1], l[2])
      /\ got' = ToLocalServices(n, m) /\ UNCHANGED received
  BY <1>1, <1>2 DEF Arrive
<1>4. /\ m \in On(l) /\ m \in Copy /\ n \in Nodes /\ UNCHANGED <<dials, up, seq, sent>>
      /\ m.of \in Numbers /\ 1..Len(sent) \subseteq Numbers
  BY <1>1, <1>2, <1>3, Taking
<1>5. PICK f : f = Forwarded(n, m)
  OBVIOUS
<1>6. SameMessage(f, m) /\ f.hops = m.hops + 1 /\ f.informed = m.informed \cup Targets(n, m)
  BY <1>4, <1>5, ForwardedFields
<1>7. /\ \A k \in Pairs : \A o \in On(k) : o \in On(k)' \/ (k = l /\ o = m)
      /\ \A k \in Pairs : On(k)' \subseteq On(k)
  BY <1>1, <1>3, Dropping
<1>8. \A k \in Nodes : \A b \in 1..Len(sent) :
        got'[k][b] = got[k][b] \/ (k = n /\ b = m.of /\ got'[k][b] >= 1)
  BY <1>3, <1>4, GotMore DEF IInv
<1>9. \A k \in Nodes : \A r \in received'[k] : r \in received[k]
  BY <1>3
<1> QED BY <1>2, <1>3, <1>4, <1>6, <1>7, <1>8, <1>9, Handled

LEMMA RememberAdds ==
    ASSUME TypeOK, NEW n \in Nodes, NEW m \in Copy, received' = Remember(n, m)
    PROVE  \A k \in Nodes : \A r \in received'[k] : r \in received[k] \/ (k = n /\ r.id = m.id)
<1> DEFINE new == [id |-> m.id, timeout |-> m.timeout]
           kept == {r \in received[n] : r.timeout >= clock[n]}
<1>1. received' = [received EXCEPT ![n] = kept \cup {new}] /\ new.id = m.id
  BY DEF Remember
<1>2. received \in [Nodes -> SUBSET Record] /\ kept \subseteq received[n]
  BY DEF TypeOK
<1> HIDE DEF new, kept
<1> QED BY <1>1, <1>2

LEMMA PassOnFlow ==
    ASSUME Small, IInv, FInv, NEW l \in Pairs, PassOn(l[1], l[2])
    PROVE  FInv'
<1>1. PICK m : m = Oldest(l[1], l[2])
  OBVIOUS
<1>2. PICK n : n = l[2]
  OBVIOUS
<1>3. /\ Reading(l[1], l[2]) /\ chan' = Send(Rest(l[1], l[2]), n, m)
      /\ got' = ToLocalServices(n, m) /\ received' = Remember(n, m)
  BY <1>1, <1>2 DEF PassOn
<1>4. /\ m \in On(l) /\ m \in Copy /\ n \in Nodes /\ UNCHANGED <<dials, up, seq, sent>>
      /\ m.of \in Numbers /\ 1..Len(sent) \subseteq Numbers
  BY <1>1, <1>2, <1>3, Taking
<1>5. PICK f : f = Forwarded(n, m)
  OBVIOUS
<1>6. SameMessage(f, m) /\ f.hops = m.hops + 1 /\ f.informed = m.informed \cup Targets(n, m)
  BY <1>4, <1>5, ForwardedFields
<1>7. /\ \A k \in Pairs : \A o \in On(k) : o \in On(k)' \/ (k = l /\ o = m)
      /\ \A k \in Pairs : \A o \in On(k)' :
           o \in On(k) \/ (o = f /\ k[1] = n /\ k[2] \in Targets(n, m))
      /\ \A k \in Pairs : k[1] = n /\ k[2] \in Targets(n, m) /\ k \in up => f \in On(k)'
  BY <1>1, <1>2, <1>3, <1>5, Passing
<1>8. /\ \A k \in Nodes : \A b \in 1..Len(sent) :
           got'[k][b] = got[k][b] \/ (k = n /\ b = m.of /\ got'[k][b] >= 1)
      /\ got'[n][m.of] >= 1
  BY <1>3, <1>4, GotMore DEF IInv
<1>9. \A k \in Nodes : \A r \in received'[k] : r \in received[k] \/ (k = n /\ r.id = m.id)
  BY <1>3, <1>4, RememberAdds DEF IInv
<1> QED BY <1>2, <1>4, <1>6, <1>7, <1>8, <1>9, Handled

LEMMA RelayFlow ==
    ASSUME Small, IInv, FInv, NEW l \in Pairs, Relay(l[1], l[2])
    PROVE  FInv'
<1>1. PICK m : m = Oldest(l[1], l[2])
  OBVIOUS
<1>2. PICK n : n = l[2]
  OBVIOUS
<1>3. /\ Reading(l[1], l[2]) /\ chan' = Send(Rest(l[1], l[2]), n, m) /\ m.scope = "service"
      /\ got' = got /\ (received' = received \/ received' = Remember(n, m))
  BY <1>1, <1>2 DEF Relay
<1>4. m \in On(l) /\ m \in Copy /\ n \in Nodes /\ UNCHANGED <<dials, up, seq, sent>>
  BY <1>1, <1>2, <1>3, Taking
<1>5. PICK f : f = Forwarded(n, m)
  OBVIOUS
<1>6. SameMessage(f, m) /\ f.hops = m.hops + 1 /\ f.informed = m.informed \cup Targets(n, m)
  BY <1>4, <1>5, ForwardedFields
<1>7. /\ \A k \in Pairs : \A o \in On(k) : o \in On(k)' \/ (k = l /\ o = m)
      /\ \A k \in Pairs : \A o \in On(k)' :
           o \in On(k) \/ (o = f /\ k[1] = n /\ k[2] \in Targets(n, m))
      /\ \A k \in Pairs : k[1] = n /\ k[2] \in Targets(n, m) /\ k \in up => f \in On(k)'
  BY <1>1, <1>2, <1>3, <1>5, Passing
<1>8. \A k \in Nodes : \A b \in 1..Len(sent) : got'[k][b] = got[k][b]
  BY <1>3
<1>9. \A k \in Nodes : \A r \in received'[k] : r \in received[k] \/ (k = n /\ r.id = m.id)
  BY <1>3, <1>4, RememberAdds DEF IInv
<1> QED BY <1>2, <1>3, <1>4, <1>6, <1>7, <1>8, <1>9, Handled

\* The new message: its origin has it, and a copy is on its way to each neighbor.
LEMMA OriginateFlow ==
    ASSUME Small, IInv, FInv, NEW n \in Nodes, NEW scope \in Scopes, Originate(n, scope)
    PROVE  FInv'
<1>N. PICK N : N = Len(sent) + 1
  OBVIOUS
<1>0. PICK m : m = [of |-> N, scope |-> scope, id |-> <<n, seq[n] + 1>>,
                    hops |-> 0, timeout |-> clock[n] + Timeout, informed |-> {}]
  OBVIOUS
<1>f. PICK f : f = Forwarded(n, m)
  OBVIOUS
<1>1. /\ Len(sent) < MaxBroadcasts
      /\ sent' = Append(sent, [origin |-> n, scope |-> scope])
      /\ got' = got \/ got' = ToLocalServices(n, m)
      /\ scope # "service" => got' = ToLocalServices(n, m)
      /\ \/ UNCHANGED <<chan, seq>> /\ (scope # "service" => Targets(n, m) = {})
         \/ chan' = Send(chan, n, m) /\ seq' = [seq EXCEPT ![n] = @ + 1]
      /\ UNCHANGED <<dials, up, received>>
  BY <1>0, <1>N DEF Originate, linkVars
<1>2. /\ sent \in Seq(Request) /\ Len(sent) \in Nat /\ MaxBroadcasts \in Nat /\ MaxHops \in Nat
      /\ seq \in [Nodes -> Nat] /\ clock \in [Nodes -> Nat] /\ Timeout \in Nat
      /\ got \in [Nodes -> [Numbers -> Nat]] /\ chan \in [Pairs -> Seq(Copy)]
      /\ up \subseteq Pairs /\ dials \subseteq up
  <2>1. dials \subseteq up
    BY DEF FInv, Both
  <2> QED BY <2>1, LimitsAssumption DEF IInv, TypeOK
<1>3. /\ N \in Nat /\ Len(sent') = N /\ sent'[N] = [origin |-> n, scope |-> scope]
      /\ \A b \in 1..Len(sent) : sent'[b] = sent[b] /\ sent[b] \in Request
      /\ N \in 1..N /\ N \in Numbers /\ 1..Len(sent) \subseteq Numbers
      /\ \A b \in 1..N : b \in 1..Len(sent) \/ b = N
      /\ N \notin 1..Len(sent) /\ N > Len(sent)
  <2>1. [origin |-> n, scope |-> scope] \in Request
    BY DEF Request
  <2> QED BY <1>1, <1>2, <1>N, <2>1 DEF Numbers
<1>4. /\ m \in Copy /\ m.of = N /\ m.scope = scope /\ m.id = <<n, seq[n] + 1>>
      /\ m.hops = 0 /\ m.timeout = clock[n] + Timeout /\ m.informed = {}
  BY <1>0, <1>2, <1>3 DEF Copy, Id
<1>5. /\ f.hops = 1 /\ f.informed = Targets(n, m) /\ f.of = N /\ f.scope = scope
      /\ f.id = <<n, seq[n] + 1>> /\ f.timeout >= Timeout
  <2>1. f.hops = m.hops + 1 /\ f.informed = m.informed \cup Targets(n, m) /\ SameMessage(f, m)
    BY <1>4, <1>f, ForwardedFields
  <2>2. m.timeout >= Timeout
    BY <1>2, <1>4
  <2> QED BY <1>4, <2>1, <2>2 DEF SameMessage
<1>6. \A k \in Pairs : \A o \in On(k) :
        /\ o \in Copy /\ o.of \in 1..Len(sent) /\ o.of # N /\ o.scope = sent[o.of].scope
        /\ o.informed \in SUBSET Nodes
  BY <1>3, OnTyped DEF IInv, CopyOK, Copy
<1>7. /\ \A x, s : Near(x, s)' = Near(x, s)
      /\ \A b \in 1..Len(sent) : Origin(b)' = Origin(b)
      /\ Origin(N)' = n
  BY <1>1, <1>3 DEF Near, Origin
\* The channels.
<1>8. /\ \A k \in Pairs : On(k) \subseteq On(k)'
      /\ \A k \in Pairs : \A o \in On(k)' :
           o \in On(k) \/ (o = f /\ k[2] \in Targets(n, m) /\ seq' = [seq EXCEPT ![n] = @ + 1])
      /\ scope # "service" =>
           \A k \in Pairs : k[1] = n /\ k[2] \in Targets(n, m) /\ k \in up => f \in On(k)'
  <2>1. CASE UNCHANGED <<chan, seq>> /\ (scope # "service" => Targets(n, m) = {})
    BY <2>1 DEF On
  <2>2. CASE chan' = Send(chan, n, m) /\ seq' = [seq EXCEPT ![n] = @ + 1]
    <3>1. Sent(chan, chan', n, m)
      BY <1>2, <1>4, <2>2, SendReaches
    <3>2. \A k \in Pairs : On(k) = Elems(chan[k]) /\ On(k)' = Elems(chan'[k])
      BY DEF On, Elems
    <3> QED BY <1>f, <2>2, <3>1, <3>2 DEF Sent
  <2> QED BY <1>1, <2>1, <2>2
<1>9. /\ \A k \in Nodes, b \in Numbers : b # N => got'[k][b] = got[k][b]
      /\ \A k \in Nodes : k # n => ~(got'[k][N] >= 1)
      /\ scope # "service" => got'[n][N] >= 1
  <2>1. \A k \in Nodes : got[k][N] = 0
    BY <1>3 DEF IInv, Unsent
  <2>2. CASE got' = ToLocalServices(n, m)
    <3>1. /\ got'[n] = [got[n] EXCEPT ![N] = @ + 1]
          /\ \A k \in Nodes : k # n => got'[k] = got[k]
      <4>1. /\ got'[n] = [got[n] EXCEPT ![m.of] = @ + 1]
            /\ \A k \in Nodes : k # n => got'[k] = got[k]
        BY <1>3, <1>4, <2>2, GotTyped DEF IInv
      <4> QED BY <1>4, <4>1
    <3>2. got[n] \in [Numbers -> Nat] /\ got[n][N] = 0
      BY <1>2, <2>1
    <3>n. N \in Numbers
      BY <1>3
    <3>3. got'[n][N] = 1 /\ \A b \in Numbers : b # N => got'[n][b] = got[n][b]
      BY <3>n, <3>1, <3>2
    <3>4. got'[n][N] >= 1
      BY <3>3
    <3>5. \A k \in Nodes : k # n => got'[k][N] = 0
      BY <2>1, <3>1
    <3>6. \A k \in Nodes, b \in Numbers : b # N => got'[k][b] = got[k][b]
      <4> TAKE k \in Nodes, b \in Numbers
      <4> QED BY <3>1, <3>3
    <3>7. \A k \in Nodes : k # n => ~(got'[k][N] >= 1)
      BY <3>5
    <3> QED BY <3>4, <3>6, <3>7
  <2>3. CASE got' = got
    BY <1>1, <2>1, <2>2, <2>3
  <2> QED BY <1>1, <2>2, <2>3
\* Identifiers that were in use are not the new one.
<1>10. ASSUME NEW id \in Id, Used(id) PROVE Used(id)' /\ id # f.id
  <2>1. id[1] \in Nodes /\ id[2] \in Nat
    BY DEF Id
  <2>2. seq'[id[1]] >= seq[id[1]] /\ seq[id[1]] \in Nat /\ seq'[id[1]] \in Nat
    <3>1. seq' = seq \/ seq' = [seq EXCEPT ![n] = @ + 1]
      BY <1>1
    <3>2. seq[id[1]] \in Nat /\ seq[n] \in Nat
      BY <1>2, <2>1
    <3>3. seq'[id[1]] = seq[id[1]] \/ seq'[id[1]] = seq[id[1]] + 1
      BY <1>2, <2>1, <3>1
    <3> QED BY <3>2, <3>3
  <2>3. id[2] <= seq[id[1]]
    BY <1>10 DEF Used
  <2>4. id[2] <= seq'[id[1]]
    BY <2>1, <2>2, <2>3
  <2>5. id # <<n, seq[n] + 1>>
    <3>1. SUFFICES ASSUME id = <<n, seq[n] + 1>> PROVE FALSE
      OBVIOUS
    <3>2. id[1] = n /\ id[2] = seq[n] + 1
      BY <3>1
    <3> QED BY <1>2, <2>3, <3>2
  <2> QED BY <1>5, <2>4, <2>5 DEF Used
<1>11. ASSUME NEW b \in 1..Len(sent), NEW p \in Nodes, Covered(b, p) PROVE Covered(b, p)'
  <2>1. got'[p][b] = got[p][b]
    BY <1>3, <1>9
  <2>2. Coming(b, p) => Coming(b, p)'
    BY <1>8 DEF Coming
  <2> QED BY <1>11, <2>1, <2>2 DEF Covered
<1>12. ASSUME scope # "service"
       PROVE  Targets(n, m) = Near(n, scope) /\ \A p \in Targets(n, m) : Covered(N, p)'
  <2>1. scope \in {"public", "private"}
    BY <1>12, ClusterAssumption
  <2>2. Targets(n, m) = Near(n, scope)
    BY <1>2, <1>4, <2>1 DEF Targets, Candidates, Connections, Near, Small
  <2>3. ASSUME NEW p \in Targets(n, m) PROVE Covered(N, p)'
    <3>1. <<n, p>> \in up /\ <<n, p>> \in Pairs
      BY <1>2, <2>2 DEF Near
    <3>2. f \in On(<<n, p>>)'
      BY <1>8, <1>12, <3>1
    <3> QED BY <1>5, <3>1, <3>2 DEF Covered, Coming
  <2> QED BY <2>2, <2>3
<1>13. ASSUME NEW k \in Pairs, NEW c \in On(k)' PROVE CopyFine(c, k[2])'
  <2>1. CASE c \in On(k)
    <3>1. CopyFine(c, k[2])
      BY <2>1 DEF FInv
    <3>2. c.id \in Id /\ c.of \in 1..Len(sent) /\ \A p \in c.informed : p \in Nodes
      BY <1>6, <2>1 DEF Copy
    <3>3. Used(c.id)'
      BY <1>10, <3>1, <3>2 DEF CopyFine
    <3>4. c.scope # "service" => FloodFine(c, k[2])'
      BY <1>7, <1>11, <3>1, <3>2 DEF CopyFine, FloodFine
    <3> QED BY <3>1, <3>3, <3>4 DEF CopyFine
  <2>2. CASE c = f /\ k[2] \in Targets(n, m) /\ seq' = [seq EXCEPT ![n] = @ + 1]
    <3>1. Used(f.id)'
      <4>1. seq'[n] = seq[n] + 1 /\ seq[n] + 1 \in Nat
        BY <1>2, <2>2
      <4> QED BY <1>5, <4>1 DEF Used
    <3>2. ASSUME scope # "service" PROVE FloodFine(f, k[2])'
      <4>1. Near(n, scope) \subseteq f.informed /\ \A p \in f.informed : Covered(N, p)'
        BY <1>5, <1>12, <3>2
      <4>2. f.hops <= Cardinality(f.informed \ {n}) \/ k[2] = n
        <5>1. SUFFICES ASSUME k[2] # n PROVE f.hops <= Cardinality(f.informed \ {n})
          OBVIOUS
        <5>2. f.informed \in SUBSET Nodes /\ k[2] \in f.informed
          BY <1>5, <2>2 DEF Targets, Candidates
        <5>3. Cardinality({} \ {n}) + 1 <= Cardinality(f.informed \ {n})
          BY <5>1, <5>2, OneMore
        <5>4. {} \ {n} = {} /\ Cardinality({}) = 0
          BY FS_EmptySet
        <5> QED BY <1>5, <5>3, <5>4
      <4> QED BY <1>5, <1>7, <4>1, <4>2 DEF FloodFine
    <3> QED BY <1>5, <2>2, <3>1, <3>2 DEF CopyFine
  <2> QED BY <1>8, <1>13, <2>1, <2>2
<1>14. ASSUME NEW k \in Pairs, NEW j \in Pairs, NEW c \in On(k)', NEW d \in On(j)', c.id = d.id
       PROVE  c.of = d.of
  <2>1. CASE c \in On(k) /\ d \in On(j)
    BY <1>14, <2>1 DEF FInv
  <2>2. \A i \in Pairs : \A o \in On(i) : o.id # f.id
    <3> TAKE i \in Pairs
    <3> TAKE o \in On(i)
    <3>1. o.id \in Id /\ Used(o.id)
      BY <1>6 DEF FInv, CopyFine, Copy
    <3> QED BY <1>10, <3>1
  <2>3. (c \in On(k) \/ c = f) /\ (d \in On(j) \/ d = f)
    BY <1>8
  <2> QED BY <1>14, <2>1, <2>2, <2>3
<1>15. ASSUME NEW k \in Nodes, NEW r \in received'[k] PROVE Used(r.id)' /\ SeenBefore(k, r)'
  <2>1. r \in received[k] /\ r.id \in Id
    <3>1. received' = received
      BY <1>1
    <3>2. received \in [Nodes -> SUBSET Record]
      BY DEF IInv, TypeOK
    <3> QED BY <1>15, <3>1, <3>2 DEF Record
  <2>2. Used(r.id) /\ SeenBefore(k, r)
    BY <2>1 DEF FInv
  <2>3. Used(r.id)' /\ r.id # f.id
    BY <1>10, <2>1, <2>2
  <2>4. ASSUME NEW j \in Pairs, NEW c \in On(j)', c.scope # "service", c.id = r.id
        PROVE  got'[k][c.of] >= 1
    <3>1. c \in On(j)
      BY <1>8, <2>3, <2>4
    <3>2. got[k][c.of] >= 1
      BY <2>2, <2>4, <3>1 DEF SeenBefore
    <3> QED BY <1>3, <1>6, <1>9, <3>1, <3>2
  <2> QED BY <2>3, <2>4 DEF SeenBefore
<1>16. ASSUME NEW b \in 1..N, sent'[b].scope # "service" PROVE MessageFine(b)'
  <2>1. CASE b \in 1..Len(sent)
    <3>1. sent'[b] = sent[b] /\ b \in Numbers /\ b # N /\ Origin(b) \in Nodes
      BY <1>3, <2>1 DEF Origin, Request
    <3>2. MessageFine(b)
      BY <1>16, <2>1, <3>1 DEF FInv
    <3>3. got'[Origin(b)][b] >= 1
      BY <1>9, <3>1, <3>2 DEF MessageFine
    <3>4. ASSUME NEW x \in Nodes, got'[x][b] >= 1, NEW p \in Near(x, sent[b].scope)
          PROVE  Covered(b, p)'
      <4>1. got[x][b] >= 1 /\ p \in Nodes
        BY <1>9, <3>1, <3>4 DEF Near
      <4>2. Covered(b, p)
        BY <3>2, <3>4, <4>1 DEF MessageFine, PassedOn
      <4> QED BY <1>11, <2>1, <4>1, <4>2
    <3> QED BY <1>7, <2>1, <3>1, <3>3, <3>4 DEF MessageFine, PassedOn
  <2>2. CASE b = N
    <3>1. scope # "service" /\ sent'[N].scope = scope
      BY <1>3, <1>16, <2>2
    <3>2. \A x \in Nodes : got'[x][N] >= 1 => x = n
      BY <1>9
    <3>3. \A p \in Near(n, scope) : Covered(N, p)'
      BY <1>12, <3>1
    <3> QED BY <1>7, <1>9, <2>2, <3>1, <3>2, <3>3 DEF MessageFine, PassedOn
  <2> QED BY <1>3, <1>16, <2>1, <2>2
<1> QED BY <1>1, <1>3, <1>13, <1>14, <1>15, <1>16 DEF FInv, Both

LEMMA SameFlow ==
    ASSUME FInv, UNCHANGED <<dials, up, chan, received, seq, sent, got>>
    PROVE  FInv'
<1>1. /\ \A k \in Pairs : On(k)' = On(k)
      /\ \A x, s : Near(x, s)' = Near(x, s)
      /\ \A b : Origin(b)' = Origin(b)
      /\ \A id : Used(id)' <=> Used(id)
  BY DEF On, Near, Origin, Used
<1>2. \A b, p : Covered(b, p)' <=> Covered(b, p)
  BY <1>1 DEF Covered, Coming
<1>3. \A m, t : CopyFine(m, t)' <=> CopyFine(m, t)
  BY <1>1, <1>2 DEF CopyFine, FloodFine
<1>4. \A n, r : SeenBefore(n, r)' <=> SeenBefore(n, r)
  BY <1>1 DEF SeenBefore
<1>5. \A b : MessageFine(b)' <=> MessageFine(b)
  BY <1>1, <1>2 DEF MessageFine, PassedOn
<1> QED BY <1>1, <1>3, <1>4, <1>5 DEF FInv, Both

\* What is calm now was calm before.
LEMMA CalmBefore ==
    ASSUME IInv, [Next]_vars, Calm'
    PROVE  Calm
<1>1. /\ faults \in Nat /\ clock \in [Nodes -> Nat] /\ Timeout \in Nat
  BY LimitsAssumption DEF IInv, TypeOK
<1>2. faults' = faults \/ faults' = faults + 1
  BY DEF Next, vars, linkVars, Originate, Restart, Tick, Discard, Arrive, PassOn, Relay, Reading,
         Connect, HangUp
<1>3. clock' = clock \/ \E n \in Nodes : clock' = [clock EXCEPT ![n] = @ + 1]
  BY DEF Next, vars, linkVars, Originate, Restart, Tick, Discard, Arrive, PassOn, Relay, Reading,
         Connect, HangUp
<1>4. faults = 0
  BY <1>1, <1>2 DEF Calm
<1>5. ASSUME NEW n \in Nodes PROVE clock[n] <= Timeout
  <2>1. clock[n] \in Nat /\ clock'[n] \in Nat /\ clock[n] <= clock'[n]
    <3>1. CASE clock' = clock
      BY <1>1, <3>1
    <3>2. CASE \E k \in Nodes : clock' = [clock EXCEPT ![k] = @ + 1]
      BY <1>1, <3>2
    <3> QED BY <1>3, <3>1, <3>2
  <2>2. clock'[n] <= Timeout
    BY DEF Calm
  <2> QED BY <1>1, <2>1, <2>2
<1> QED BY <1>4, <1>5 DEF Calm

LEMMA FlowInductive ==
    ASSUME Small, IInv, Calm => FInv, [Next]_vars, Calm'
    PROVE  FInv'
<1>1. Calm /\ FInv
  BY CalmBefore
<1>2. CASE UNCHANGED vars
  BY <1>1, <1>2, SameFlow DEF vars
<1>3. ASSUME NEW n \in Nodes, NEW scope \in Scopes, Originate(n, scope) PROVE FInv'
  BY <1>1, <1>3, OriginateFlow
<1>4. ASSUME NEW n \in Nodes, Restart(n) PROVE FALSE
  BY <1>1, <1>4 DEF Calm, Restart
<1>5. ASSUME NEW n \in Nodes, Tick(n) PROVE FInv'
  BY <1>1, <1>5, SameFlow DEF Tick, linkVars
<1>6. ASSUME NEW l \in Pairs, Discard(l[1], l[2]) \/ Arrive(l[1], l[2]) PROVE FInv'
  BY <1>1, <1>6, DiscardFlow, ArriveFlow
<1>7. ASSUME NEW l \in Pairs, PassOn(l[1], l[2]) \/ Relay(l[1], l[2]) PROVE FInv'
  BY <1>1, <1>7, PassOnFlow, RelayFlow
\* Every link is established, and none breaks.
<1>8. ASSUME NEW l \in Pairs, Connect(l[1], l[2]) PROVE FALSE
  BY <1>1, <1>8 DEF FInv, Both, Connect
<1>9. ASSUME NEW l \in Pairs, HangUp(l[1], l[2]) PROVE FALSE
  <2>1. <<l[1], l[2]>> \in up
    BY <1>9 DEF HangUp
  <2>2. <<l[2], l[1]>> \in up
    <3>1. CASE <<l[1], l[2]>> \in dials
      BY <1>1, <3>1 DEF FInv, Both
    <3>2. CASE \E k \in dials : <<l[1], l[2]>> = <<k[2], k[1]>>
      <4>1. PICK k \in dials : <<l[1], l[2]>> = <<k[2], k[1]>>
        BY <3>2
      <4>2. k = <<l[2], l[1]>>
        BY <4>1 DEF IInv, TypeOK, Pairs
      <4> QED BY <1>1, <4>2 DEF FInv, Both
    <3> QED BY <1>1, <2>1, <3>1, <3>2 DEF FInv, Both
  <2>3. faults' = 0 + 1
    BY <1>1, <1>9, <2>2 DEF HangUp, Calm
  <2> QED BY <2>3 DEF Calm
<1> QED BY <1>2, <1>3, <1>4, <1>5, <1>6, <1>7, <1>8, <1>9 DEF Next

LEMMA LinkedInitially == InitLinked => IInv /\ FInv
<1> SUFFICES ASSUME InitLinked PROVE IInv /\ FInv
  OBVIOUS
<1>1. \A l \in Pairs : On(l) = {} /\ Len(chan[l]) = 0
  BY DEF InitLinked, On, Elems
<1>2. dials \subseteq Pairs /\ Both(dials) \subseteq Pairs
  <2>1. dials \subseteq Pairs
    BY ClusterAssumption DEF InitLinked
  <2> QED BY <2>1 DEF Both, Pairs
<1>3. TypeOK
  BY <1>1, <1>2, LimitsAssumption DEF InitLinked, TypeOK
<1>4. OneId /\ Settled /\ PrivateLinks
  BY <1>1 DEF OneId, Settled, PrivateLinks
<1>5. Unsent /\ OncePerComputer /\ PrivateStaysInside
  BY DEF InitLinked, Unsent, OncePerComputer, PrivateStaysInside
<1>6. FInv
  <2>1. \A n \in Nodes : received[n] = {}
    BY DEF InitLinked
  <2>2. 1..Len(sent) = {}
    BY DEF InitLinked
  <2> QED BY <1>1, <2>1, <2>2 DEF InitLinked, FInv
<1> QED BY <1>3, <1>4, <1>5, <1>6 DEF IInv

\* Nothing is on its way: the computers that got b have no neighbor that did not.
LEMMA QuietEnd ==
    ASSUME IInv, FInv, Quiet, NEW b \in 1..Len(sent), sent[b].scope # "service",
           Connected(Area(b)), NEW n \in Area(b)
    PROVE  got[n][b] >= 1
<1> DEFINE T == {x \in Area(b) : got[x][b] >= 1}
<1>1. MessageFine(b)
  BY DEF FInv
<1>2. \A x, p : ~Coming(b, p)
  <2>1. \A l \in Pairs : On(l) = {}
    BY DEF Quiet, On, Elems
  <2> QED BY <2>1 DEF Coming
<1>3. /\ sent[b] \in Request /\ sent[b].scope \in {"public", "private"}
      /\ Origin(b) \in Nodes /\ Origin(b) \in Area(b)
  <2>1. sent[b] \in Request
    BY DEF IInv, TypeOK
  <2> QED BY <2>1, ClusterAssumption DEF Request, Origin, Area
<1>4. T # {} /\ T \in SUBSET Area(b)
  BY <1>1, <1>3 DEF MessageFine
<1>5. \A l \in Both(dials) : l[1] \in T /\ l[2] \in Area(b) => l[2] \in T
  <2> SUFFICES ASSUME NEW l \in Both(dials), l[1] \in T, l[2] \in Area(b) PROVE l[2] \in T
    OBVIOUS
  <2>1. l \in up /\ l = <<l[1], l[2]>> /\ l[1] \in Nodes /\ l[2] \in Nodes
    BY DEF FInv, IInv, TypeOK, Pairs
  <2>2. l[2] \in Near(l[1], sent[b].scope)
    BY <1>3, <2>1 DEF Near, Area
  <2>3. Covered(b, l[2])
    BY <1>1, <2>1, <2>2 DEF MessageFine, PassedOn
  <2> QED BY <1>2, <2>3 DEF Covered
<1> HIDE DEF T
<1>6. T = Area(b)
  BY <1>4, <1>5 DEF Connected
<1> QED BY <1>6 DEF T

LEMMA FlowInvariance ==
    ASSUME Small
    PROVE  LinkedSpec => [](IInv /\ (Calm => FInv))
<1>1. InitLinked => IInv /\ (Calm => FInv)
  BY LinkedInitially
<1>2. IInv /\ (Calm => FInv) /\ [Next]_vars => (IInv /\ (Calm => FInv))'
  BY Inductive, FlowInductive
<1> QED BY <1>1, <1>2, PTL DEF LinkedSpec

\* Over links that work, a broadcast is not lost, though each computer skips those
\* it is told are informed, drops what it saw before and stops after MaxHops: once
\* nothing is on its way, every computer it is meant for has it. It holds on any
\* graph of links between at most MaxHops + 1 computers, for any number of messages.
THEOREM BroadcastReaches ==
    ASSUME Small
    PROVE  LinkedSpec => []QuietReached
<1>1. IInv /\ (Calm => FInv) => QuietReached
  BY QuietEnd DEF QuietReached
<1> QED BY FlowInvariance, <1>1, PTL

=============================================================================
