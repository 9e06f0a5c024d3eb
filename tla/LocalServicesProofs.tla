-------------------------- MODULE LocalServicesProofs --------------------------
(***************************************************************************)
(* Proofs about LocalServices, for any number of connections, services,    *)
(* messages and seconds.                                                   *)
(***************************************************************************)
EXTENDS LocalServices, FiniteSetTheorems, TLAPS

\* A socket that is not in use carries no name.
FreeUnnamed == \A c \in Conns : conn[c] = "free" => name[c] = NoName

\* Handed messages are older than the cached ones of the same service.
OlderFirst == \A h \in handed, e \in cache : Dest(h.id) = Dest(e.id) => h.id < e.id

\* Every place given out is at most the number of messages handed over.
Places == /\ IsFiniteSet(handed)
          /\ \A h \in handed : h.at \in 1..Cardinality(handed)

\* The books, apart from the connections.
MailInv == MailTypeOK /\ AtMostOnce /\ OlderFirst /\ Places /\ Fifo

\* The inductive invariant. Fifo alone is not inductive: that a message handed
\* over now comes after all earlier ones of its service rests on OlderFirst, and
\* OlderFirst on the cache holding nothing for a name that is taken.
IInv == ConnTypeOK /\ FreeUnnamed /\ CacheOnlyWhenDown /\ MailInv

-----------------------------------------------------------------------------
(* Lemmas. *)

\* The messages of R, none of which was handed over before, get distinct
\* places above all those in use, in their order.
LEMMA HandOverPlaces ==
    ASSUME Places, handed \subseteq Handed,
           NEW R, R \subseteq Nat, IsFiniteSet(R), NEW c \in Conns,
           \A h \in handed : h.id \notin R
    PROVE  LET new == HandOver(R, c)
               all == handed \cup new
           IN  /\ new \subseteq Handed
               /\ \A h \in new : h.id \in R /\ h.at > Cardinality(handed)
               /\ \A g, h \in new : g.id = h.id => g = h
               /\ \A g, h \in new : g.id < h.id => g.at < h.at
               /\ IsFiniteSet(all)
               /\ \A h \in all : h.at \in 1..Cardinality(all)
<1> DEFINE new == HandOver(R, c)
           all == handed \cup new
           upto(i) == {j \in R : j <= i}
           rec(i) == [id |-> i, conn |-> c, at |-> Cardinality(handed) + Cardinality(upto(i))]
<1>0. new = {rec(i) : i \in R}
  BY DEF HandOver
<1>1. Cardinality(handed) \in Nat
  BY FS_CardinalityType DEF Places
<1>2. \A i \in R : IsFiniteSet(upto(i)) /\ Cardinality(upto(i)) \in 1..Cardinality(R)
  <2> TAKE i \in R
  <2>1. IsFiniteSet(upto(i)) /\ Cardinality(upto(i)) <= Cardinality(R)
    BY FS_Subset, upto(i) \subseteq R
  <2>2. Cardinality(upto(i)) \in Nat /\ Cardinality(R) \in Nat
    BY <2>1, FS_CardinalityType
  <2>3. upto(i) # {}
    <3>1. i \in upto(i)
      OBVIOUS
    <3> QED BY <3>1
  <2>4. Cardinality(upto(i)) # 0
    BY <2>1, <2>3, FS_EmptySet
  <2> HIDE DEF upto
  <2> QED BY <2>1, <2>2, <2>4
<1>3. \A i, j \in R : i < j => Cardinality(upto(i)) < Cardinality(upto(j))
  <2> TAKE i, j \in R
  <2> HAVE i < j
  <2>1. upto(i) \subseteq upto(j)
    <3> SUFFICES ASSUME NEW k \in R, k <= i PROVE k <= j
      OBVIOUS
    <3>1. i \in Nat /\ j \in Nat /\ k \in Nat
      OBVIOUS
    <3> QED BY <3>1
  <2>2. j \in upto(j) /\ j \notin upto(i)
    OBVIOUS
  <2> HIDE DEF upto
  <2>3. Cardinality(upto(i)) <= Cardinality(upto(j)) /\ Cardinality(upto(i)) # Cardinality(upto(j))
    BY <1>2, <2>1, <2>2, FS_Subset
  <2> QED BY <1>2, <2>3
<1>4. new \subseteq Handed /\ \A h \in new : h.id \in R /\ h.at > Cardinality(handed)
  <2> SUFFICES ASSUME NEW i \in R
               PROVE  rec(i) \in Handed /\ rec(i).id \in R /\ rec(i).at > Cardinality(handed)
    BY <1>0
  <2> HIDE DEF upto
  <2> QED BY <1>1, <1>2 DEF Handed
<1>5. \A g, h \in new : g.id = h.id => g = h
  <2> SUFFICES ASSUME NEW i \in R, NEW j \in R, rec(i).id = rec(j).id
               PROVE  rec(i) = rec(j)
    <3> HIDE DEF new, rec
    <3> QED BY <1>0
  <2>1. i = j
    OBVIOUS
  <2> QED BY <2>1
<1>6. \A g, h \in new : g.id < h.id => g.at < h.at
  <2> SUFFICES ASSUME NEW i \in R, NEW j \in R, rec(i).id < rec(j).id
               PROVE  rec(i).at < rec(j).at
    <3> HIDE DEF new, rec
    <3> QED BY <1>0
  <2> HIDE DEF upto
  <2> QED BY <1>1, <1>2, <1>3
<1>7. IsFiniteSet(new) /\ Cardinality(new) = Cardinality(R)
  <2> DEFINE f == [i \in R |-> rec(i)]
  <2>1. f \in Bijection(R, new)
    <3>0. \A i \in R : rec(i).id = i
      OBVIOUS
    <3> HIDE DEF new, rec
    <3>1. f \in [R -> new]
      BY <1>0
    <3>2. \A i, j \in R : f[i] = f[j] => i = j
      <4> SUFFICES ASSUME NEW i \in R, NEW j \in R, f[i] = f[j] PROVE i = j
        OBVIOUS
      <4>1. f[i] = rec(i) /\ f[j] = rec(j)
        OBVIOUS
      <4> QED BY <3>0, <4>1
    <3>3. \A h \in new : \E i \in R : f[i] = h
      BY <1>0
    <3> HIDE DEF f
    <3>4. f \in Injection(R, new)
      BY <3>1, <3>2 DEF Injection, IsInjective
    <3>5. f \in Surjection(R, new)
      BY <3>1, <3>3 DEF Surjection
    <3> QED BY <3>4, <3>5 DEF Bijection
  <2> HIDE DEF f, new
  <2> QED BY <2>1, FS_Bijection DEF ExistsBijection
<1>8. handed \cap new = {}
  BY <1>4
<1>9. IsFiniteSet(all) /\ Cardinality(all) = Cardinality(handed) + Cardinality(R)
  <2> HIDE DEF new
  <2>1. Cardinality(handed \cap new) = 0
    BY <1>8, FS_EmptySet
  <2>2. Cardinality(R) \in Nat
    BY FS_CardinalityType
  <2>3. /\ IsFiniteSet(handed \cup new)
        /\ Cardinality(handed \cup new)
             = Cardinality(handed) + Cardinality(new) - Cardinality(handed \cap new)
    BY <1>7, FS_Union DEF Places
  <2> QED BY <1>1, <1>7, <2>1, <2>2, <2>3
<1>10. \A h \in all : h.at \in 1..Cardinality(all)
  <2>1. Cardinality(R) \in Nat
    BY FS_CardinalityType
  <2>2. ASSUME NEW h \in handed PROVE h.at \in 1..Cardinality(all)
    BY <1>1, <1>9, <2>1, <2>2 DEF Places
  <2>3. ASSUME NEW i \in R PROVE rec(i).at \in 1..Cardinality(all)
    <3> HIDE DEF upto, all
    <3> QED BY <1>1, <1>2, <1>9, <2>1
  <2> HIDE DEF rec
  <2> QED BY <1>0, <2>2, <2>3
<1> HIDE DEF new, all
<1> QED BY <1>4, <1>5, <1>6, <1>9, <1>10 DEF new, all


\* A message is the (Len(msgs) + 1)st; the earlier ones stay what they are.
LEMMA NewMessage ==
    ASSUME ConnTypeOK, MailTypeOK, NEW from \in Conns, NEW in \in Inputs,
           msgs' = Append(msgs, [as |-> name[from], in |-> in])
    PROVE  /\ Len(msgs) \in Nat
           /\ Len(msgs)' = Len(msgs) + 1
           /\ msgs' \in Seq(Message)
           /\ \A i \in 1..Len(msgs) : msgs'[i] = msgs[i]
           /\ msgs'[Len(msgs) + 1].in = in
           /\ in \in Input
<1>1. in \in Input
  BY InputsAssumption
<1>2. [as |-> name[from], in |-> in] \in Message
  BY <1>1 DEF ConnTypeOK, Message
<1>3. msgs \in Seq(Message)
  BY DEF MailTypeOK
<1> QED BY <1>1, <1>2, <1>3

\* Every message names a service.
LEMMA DestType == MailTypeOK => \A i \in 1..Len(msgs) : Dest(i) \in Services
<1> SUFFICES ASSUME MailTypeOK, NEW i \in 1..Len(msgs) PROVE Dest(i) \in Services
  OBVIOUS
<1>1. msgs[i] \in Message
  <2> QED BY DEF MailTypeOK
<1>2. msgs[i].in \in Input
  BY <1>1 DEF Message
<1> QED BY <1>2 DEF Input, Dest

-----------------------------------------------------------------------------
(* The connections. *)

LEMMA SendStatusType ==
    ASSUME ConnTypeOK, NEW s \in Services, NEW v \in {"up", "down"}
    PROVE  SendStatus(s, v) \in [Conns -> [Services -> {"none", "up", "down"}]]
BY DEF ConnTypeOK, SendStatus

\* Losing a connection keeps the types and frees a name.
LEMMA RemovedStep ==
    ASSUME ConnTypeOK, FreeUnnamed, NEW c \in Conns, Removed(c)
    PROVE  /\ ConnTypeOK' /\ FreeUnnamed'
           /\ \A s \in Services : Named(s)' \subseteq Named(s)
<1>1. StatusAfterLoss(c) \in [Conns -> [Services -> {"none", "up", "down"}]]
  <2>1. CASE name[c] = NoName
    BY <2>1 DEF StatusAfterLoss, ConnTypeOK, Nothing
  <2>2. CASE name[c] # NoName
    <3>1. name[c] \in Services
      BY <2>2 DEF ConnTypeOK
    <3>2. SendStatus(name[c], "down") \in [Conns -> [Services -> {"none", "up", "down"}]]
      BY <3>1, SendStatusType
    <3> QED BY <2>2, <3>2 DEF StatusAfterLoss, Nothing
  <2> QED BY <2>1, <2>2
<1>2. ConnTypeOK'
  BY <1>1 DEF Removed, ConnTypeOK
<1>3. FreeUnnamed'
  BY DEF Removed, ConnTypeOK, FreeUnnamed
<1>4. \A s \in Services : Named(s)' \subseteq Named(s)
  BY NamesAssumption DEF Removed, ConnTypeOK, Named
<1> QED BY <1>2, <1>3, <1>4

\* A step that leaves the books alone and names nobody keeps the invariant.
LEMMA BooksUntouched ==
    ASSUME IInv, UNCHANGED mailVars, ConnTypeOK', FreeUnnamed',
           \A s \in Services : Named(s)' \subseteq Named(s)
    PROVE  IInv'
<1>1. MailInv'
  BY DEF IInv, MailInv, MailTypeOK, AtMostOnce, OlderFirst, Places, Fifo, Dest, mailVars
<1>2. ASSUME NEW e \in cache PROVE Dest(e.id) \in Services
  BY <1>2, DestType DEF IInv, MailInv, MailTypeOK
<1>3. CacheOnlyWhenDown'
  <2> SUFFICES ASSUME NEW e \in cache PROVE Named(Dest(e.id))' = {}
    BY DEF CacheOnlyWhenDown, mailVars
  <2>1. Dest(e.id)' = Dest(e.id)
    BY DEF Dest, mailVars
  <2>2. Named(Dest(e.id)) = {}
    BY DEF IInv, CacheOnlyWhenDown
  <2>3. \A s \in Services : s = Dest(e.id) => Named(s)' = {}
    BY <2>2
  <2> QED BY <1>2, <2>1, <2>3 DEF Named
<1> QED BY <1>1, <1>3 DEF IInv

-----------------------------------------------------------------------------
(* The handlers that change the books. *)

\* REGISTER drains the cache of the service's messages, in order.
LEMMA RegisterStep ==
    ASSUME IInv, NEW c \in Conns, NEW s \in Services, MsgRegister(c, s)
    PROVE  IInv'
<1> DEFINE R == Matching(s)
<1>0. /\ conn[c] # "free" /\ name[c] = NoName
      /\ name'   = [name EXCEPT ![c] = s]
      /\ seen'   = SendStatus(s, "up")
      /\ handed' = handed \cup HandOver(R, c)
      /\ cache'  = Kept(s)
      /\ UNCHANGED <<conn, watch, peers, msgs, relayed, replies, now>>
  BY DEF MsgRegister
<1>t. ConnTypeOK /\ MailTypeOK
  BY DEF IInv, MailInv
<1>n. Len(msgs) \in Nat
  BY <1>t DEF MailTypeOK
<1>1. R \subseteq 1..Len(msgs) /\ \A i \in R : Dest(i) = s /\ \E e \in cache : e.id = i
  BY <1>t DEF Matching, MailTypeOK
<1>2. R \subseteq Nat /\ IsFiniteSet(R)
  <2>1. IsFiniteSet(1..Len(msgs))
    BY <1>n, FS_Interval
  <2> QED BY <1>1, <1>n, <2>1, FS_Subset
<1>3. \A h \in handed : h.id \notin R
  BY <1>1 DEF IInv, MailInv, AtMostOnce
<1> DEFINE new == HandOver(R, c)
<1>4. /\ new \subseteq Handed
      /\ \A h \in new : h.id \in R /\ h.at > Cardinality(handed)
      /\ \A g, h \in new : g.id = h.id => g = h
      /\ \A g, h \in new : g.id < h.id => g.at < h.at
      /\ IsFiniteSet(handed \cup new)
      /\ \A h \in handed \cup new : h.at \in 1..Cardinality(handed \cup new)
  BY <1>2, <1>3, <1>t, HandOverPlaces DEF IInv, MailInv, MailTypeOK
<1>5. cache' \subseteq cache /\ \A e \in cache' : Dest(e.id) # s
  BY <1>0 DEF Kept
<1>d. \A i : Dest(i)' = Dest(i)
  BY <1>0 DEF Dest
<1> HIDE DEF new, R
<1>6. ConnTypeOK' /\ FreeUnnamed'
  <2>1. seen' \in [Conns -> [Services -> {"none", "up", "down"}]]
    BY <1>0, <1>t, SendStatusType
  <2> QED BY <1>0, <1>t, <2>1 DEF ConnTypeOK, FreeUnnamed, IInv
<1>7. CacheOnlyWhenDown'
  <2> SUFFICES ASSUME NEW e \in cache' PROVE Named(Dest(e.id))' = {}
    BY DEF CacheOnlyWhenDown
  <2>1. Named(Dest(e.id)) = {} /\ Dest(e.id) # s
    BY <1>5 DEF IInv, CacheOnlyWhenDown
  <2> QED BY <1>0, <1>d, <1>t, <2>1 DEF Named, ConnTypeOK
<1>8. MailTypeOK'
  <2>1. \A h \in new : h.id \in 1..Len(msgs)
    BY <1>1, <1>4
  <2> QED BY <1>0, <1>t, <1>4, <1>5, <2>1 DEF MailTypeOK, new, R
<1>9. AtMostOnce'
  <2>1. ASSUME NEW g \in handed', NEW h \in handed', g.id = h.id PROVE g = h
    BY <1>0, <1>3, <1>4, <2>1 DEF IInv, MailInv, AtMostOnce, new, R
  <2>2. ASSUME NEW h \in handed', NEW e \in cache' PROVE h.id # e.id
    BY <1>0, <1>1, <1>4, <1>5, <2>2 DEF IInv, MailInv, AtMostOnce, new, R
  <2> QED BY <2>1, <2>2 DEF AtMostOnce
<1>10. OlderFirst'
  BY <1>0, <1>1, <1>4, <1>5, <1>d DEF IInv, MailInv, OlderFirst, new, R
<1>11. Places'
  BY <1>0, <1>4 DEF Places, new, R
<1>12. Fifo'
  <2> SUFFICES ASSUME NEW g \in handed', NEW h \in handed', Dest(g.id) = Dest(h.id), g.id < h.id
               PROVE  g.at < h.at
    BY <1>d DEF Fifo
  <2>0. handed' = handed \cup new
    BY <1>0 DEF new, R
  <2>1. CASE g \in handed /\ h \in handed
    BY <2>1 DEF IInv, MailInv, Fifo
  <2>2. CASE g \in handed /\ h \in new
    <3>1. g.at <= Cardinality(handed) /\ g.at \in Nat /\ h.at > Cardinality(handed)
      BY <1>4, <2>2 DEF IInv, MailInv, Places
    <3>2. h.at \in Nat /\ Cardinality(handed) \in Nat
      BY <1>4, <2>2, FS_CardinalityType DEF Handed, IInv, MailInv, Places
    <3> QED BY <3>1, <3>2
  <2>3. CASE g \in new /\ h \in handed
    <3>1. PICK e \in cache : e.id = g.id
      BY <1>1, <1>4, <2>3
    <3>2. Dest(h.id) = Dest(e.id)
      BY <3>1
    <3>4. h.id < e.id
      BY <2>3, <3>2 DEF IInv, MailInv, OlderFirst
    <3>3. h.id \in Nat /\ g.id \in Nat
      BY <1>t, <1>4, <2>3 DEF MailTypeOK, Handed
    <3> QED BY <3>1, <3>3, <3>4
  <2>4. CASE g \in new /\ h \in new
    BY <1>4, <2>4
  <2> QED BY <2>0, <2>1, <2>2, <2>3, <2>4
<1> QED BY <1>6, <1>7, <1>8, <1>9, <1>10, <1>11, <1>12 DEF IInv, MailInv

\* A message that comes in gets the next number; it is handed to a service,
\* cached, dropped or relayed.
LEMMA ForwardStep ==
    ASSUME IInv, NEW from \in Conns, NEW in \in Inputs, ForwardMessage(from, in)
    PROVE  IInv'
<1>0. PICK i :
      /\ i = Len(msgs) + 1
      /\ msgs' = Append(msgs, [as |-> name[from], in |-> in])
      /\ UNCHANGED <<connVars, peers, now>>
      /\ \/ ForwardToService(i, from, in) \/ CacheMessage(i, in)
         \/ DropMessage(i, in) \/ RelayMessage(i, in)
  BY DEF ForwardMessage
<1>t. ConnTypeOK /\ MailTypeOK
  BY DEF IInv, MailInv
<1>1. /\ Len(msgs) \in Nat /\ Len(msgs)' = i
      /\ msgs' \in Seq(Message)
      /\ \A j \in 1..Len(msgs) : Dest(j)' = Dest(j)
      /\ Dest(i)' = in.to
      /\ in \in Input
  <2>1. /\ Len(msgs) \in Nat /\ Len(msgs)' = i /\ msgs' \in Seq(Message)
        /\ \A j \in 1..Len(msgs) : msgs'[j] = msgs[j]
        /\ msgs'[i].in = in /\ in \in Input
    BY <1>0, <1>t, NewMessage
  <2> QED BY <2>1 DEF Dest
<1>2. i \in Nat /\ i \in 1..i /\ 1..Len(msgs) \subseteq 1..i
      /\ (\A j \in 1..Len(msgs) : j < i)
  BY <1>0, <1>1
<1>3. /\ \A h \in handed : h.id \in 1..Len(msgs) /\ h.id < i /\ Dest(h.id)' = Dest(h.id)
      /\ \A e \in cache : e.id \in 1..Len(msgs) /\ e.id < i /\ Dest(e.id)' = Dest(e.id)
  BY <1>1, <1>2, <1>t DEF MailTypeOK
<1>4. ConnTypeOK' /\ FreeUnnamed' /\ \A s : Named(s)' = Named(s)
  BY <1>0, <1>t DEF connVars, ConnTypeOK, FreeUnnamed, IInv, Named
<1>to. in.to \in Services
  BY <1>1 DEF Input
\* What stays true of the old books under the new numbering.
<1>5. ASSUME handed' = handed PROVE Places' /\ Fifo'
             /\ \A g, h \in handed' : g.id = h.id => g = h
  BY <1>3, <1>5 DEF IInv, MailInv, Places, Fifo, AtMostOnce
<1>6. ASSUME cache' = cache PROVE CacheOnlyWhenDown'
  BY <1>3, <1>4, <1>6 DEF IInv, CacheOnlyWhenDown
<1>7. ASSUME handed' = handed, cache' = cache PROVE AtMostOnce' /\ OlderFirst'
  BY <1>3, <1>7 DEF IInv, MailInv, AtMostOnce, OlderFirst
<1>8. CASE ForwardToService(i, from, in)
  <2>1. PICK c \in Named(in.to) :
          handed' = IF c = from THEN handed ELSE handed \cup HandOver({i}, c)
    BY <1>8 DEF ForwardToService
  <2>2. cache' = cache /\ UNCHANGED <<relayed, replies>>
    BY <1>8 DEF ForwardToService
  <2>3. CASE c = from
    <3>1. MailTypeOK'
      BY <1>1, <1>2, <1>t, <2>1, <2>2, <2>3 DEF MailTypeOK
    <3> QED BY <1>4, <1>5, <1>6, <1>7, <2>1, <2>2, <2>3, <3>1 DEF IInv, MailInv
  <2>4. CASE c # from
    <3> DEFINE new == HandOver({i}, c)
    <3>1. {i} \subseteq Nat /\ IsFiniteSet({i}) /\ \A h \in handed : h.id \notin {i}
      <4>1. IsFiniteSet({i})
        BY FS_Singleton
      <4>2. \A h \in handed : h.id # i
        <5> TAKE h \in handed
        <5>1. h.id < i /\ h.id \in Nat /\ i \in Nat
          BY <1>1, <1>2, <1>3
        <5> QED BY <5>1
      <4> QED BY <1>2, <4>1, <4>2
    <3>2. c \in Conns
      BY <2>1 DEF Named
    <3>3. /\ new \subseteq Handed
          /\ \A h \in new : h.id \in {i} /\ h.at > Cardinality(handed)
          /\ \A g, h \in new : g.id = h.id => g = h
          /\ \A g, h \in new : g.id < h.id => g.at < h.at
          /\ IsFiniteSet(handed \cup new)
          /\ \A h \in handed \cup new : h.at \in 1..Cardinality(handed \cup new)
      BY <3>1, <3>2, <1>t, HandOverPlaces DEF IInv, MailInv, MailTypeOK
    <3> HIDE DEF new
    <3>4. handed' = handed \cup new /\ \A h \in new : h.id = i
      BY <2>1, <2>4, <3>3 DEF new
    <3>5. MailTypeOK'
      BY <1>1, <1>2, <1>t, <2>2, <3>3, <3>4 DEF MailTypeOK
    <3>6. AtMostOnce'
      <4>1. ASSUME NEW g \in handed', NEW h \in handed', g.id = h.id PROVE g = h
        BY <1>2, <1>3, <3>3, <3>4, <4>1 DEF IInv, MailInv, AtMostOnce
      <4>2. ASSUME NEW h \in handed', NEW e \in cache' PROVE h.id # e.id
        BY <1>2, <1>3, <2>2, <3>4, <4>2 DEF IInv, MailInv, AtMostOnce
      <4> QED BY <4>1, <4>2 DEF AtMostOnce
    <3>7. OlderFirst'
      <4> SUFFICES ASSUME NEW h \in handed', NEW e \in cache', Dest(h.id)' = Dest(e.id)'
                   PROVE  h.id < e.id
        BY DEF OlderFirst
      <4>1. CASE h \in handed
        BY <1>3, <2>2, <4>1 DEF IInv, MailInv, OlderFirst
      <4>2. CASE h \in new
        \* nothing is cached for a name that is taken
        <5>1. Dest(e.id) = in.to
          BY <1>1, <1>3, <2>2, <3>4, <4>2 DEF Dest
        <5>2. Named(Dest(e.id)) = {}
          BY <2>2 DEF IInv, CacheOnlyWhenDown
        <5> QED BY <2>1, <5>1, <5>2
      <4> QED BY <3>4, <4>1, <4>2
    <3>8. Places'
      BY <3>3, <3>4 DEF Places
    <3>9. Fifo'
      <4> SUFFICES ASSUME NEW g \in handed', NEW h \in handed',
                          Dest(g.id)' = Dest(h.id)', g.id < h.id
                   PROVE  g.at < h.at
        BY DEF Fifo
      <4>1. CASE g \in handed /\ h \in handed
        BY <1>3, <4>1 DEF IInv, MailInv, Fifo
      <4>2. CASE g \in handed /\ h \in new
        <5>1. g.at \in 1..Cardinality(handed) /\ Cardinality(handed) \in Nat
          BY <4>2, FS_CardinalityType DEF IInv, MailInv, Places
        <5>2. h.at \in Nat /\ h.at > Cardinality(handed)
          BY <3>3, <4>2 DEF Handed
        <5> QED BY <5>1, <5>2
      <4>3. CASE g \in new
        <5>1. g.id = i /\ h.id \in 1..i
          BY <1>1, <3>4, <3>5, <4>3 DEF MailTypeOK
        <5> QED BY <1>2, <5>1
      <4> QED BY <3>4, <4>1, <4>2, <4>3
    <3> QED BY <1>4, <1>6, <2>2, <3>5, <3>6, <3>7, <3>8, <3>9 DEF IInv, MailInv
  <2> QED BY <2>3, <2>4
<1>9. CASE CacheMessage(i, in)
  <2>1. /\ Named(in.to) = {}
        /\ cache' = IF in.no THEN cache ELSE cache \cup {CacheEntry(i, in)}
        /\ replies' = replies \cup CacheReport(i, in)
             \cup (IF in.no /\ in.reply THEN {[id |-> i, what |-> "unavailable"]} ELSE {})
        /\ UNCHANGED <<handed, relayed>>
    BY <1>9 DEF CacheMessage, Expected
  <2>2. CacheEntry(i, in) \in Entry /\ CacheEntry(i, in).id = i
    BY <1>1, <1>2, <1>t, BoundsAssumption DEF CacheEntry, Entry, Ttl, Input, ConnTypeOK
  <2>3. \A e \in cache' : e \in cache \/ e = CacheEntry(i, in)
    BY <2>1
  <2>4. replies' \subseteq Reply /\ \A r \in replies' : r.id \in 1..i
    BY <1>2, <1>t, <2>1 DEF CacheReport, Reply, MailTypeOK
  <2>5. MailTypeOK'
    BY <1>1, <1>2, <1>3, <1>t, <2>1, <2>2, <2>3, <2>4 DEF MailTypeOK
  <2>6. CacheOnlyWhenDown'
    <3> SUFFICES ASSUME NEW e \in cache' PROVE Named(Dest(e.id))' = {}
      BY DEF CacheOnlyWhenDown
    <3>1. CASE e \in cache
      BY <1>3, <1>4, <3>1 DEF IInv, CacheOnlyWhenDown
    <3>2. CASE e = CacheEntry(i, in)
      BY <1>1, <1>4, <2>1, <2>2, <3>2
    <3> QED BY <2>3, <3>1, <3>2
  <2>7. AtMostOnce'
    <3>1. \A h \in handed, e \in cache' : h.id # e.id
      BY <1>2, <1>3, <2>2, <2>3 DEF IInv, MailInv, AtMostOnce
    <3> QED BY <1>5, <2>1, <3>1 DEF AtMostOnce
  <2>8. OlderFirst'
    BY <1>3, <2>1, <2>2, <2>3 DEF IInv, MailInv, OlderFirst
  <2> QED BY <1>4, <1>5, <2>1, <2>5, <2>6, <2>7, <2>8 DEF IInv, MailInv
<1>10. CASE DropMessage(i, in)
  <2>1. /\ UNCHANGED <<cache, handed, relayed>>
        /\ replies' = replies \cup DropReport(i, in)
    BY <1>10 DEF DropMessage
  <2>2. MailTypeOK'
    BY <1>1, <1>2, <1>t, <2>1 DEF MailTypeOK, DropReport, Reply
  <2> QED BY <1>4, <1>5, <1>6, <1>7, <2>1, <2>2 DEF IInv, MailInv
<1>11. CASE RelayMessage(i, in)
  <2>1. /\ UNCHANGED <<cache, handed, replies>>
        /\ relayed' = relayed \/ relayed' = relayed \cup {i}
    BY <1>11 DEF RelayMessage
  <2>2. MailTypeOK'
    BY <1>1, <1>2, <1>t, <2>1 DEF MailTypeOK
  <2> QED BY <1>4, <1>5, <1>6, <1>7, <2>1, <2>2 DEF IInv, MailInv
<1> QED BY <1>0, <1>8, <1>9, <1>10, <1>11

-----------------------------------------------------------------------------
(* The theorems. *)

LEMMA Initially == Init => IInv
<1> SUFFICES ASSUME Init PROVE IInv
  OBVIOUS
<1>1. ConnTypeOK /\ FreeUnnamed /\ CacheOnlyWhenDown
  BY DEF Init, ConnTypeOK, FreeUnnamed, CacheOnlyWhenDown, Nothing
<1>2. MailInv
  BY FS_EmptySet DEF Init, MailInv, MailTypeOK, AtMostOnce, OlderFirst, Places, Fifo
<1> QED BY <1>1, <1>2 DEF IInv

LEMMA Inductive == IInv /\ [Next]_vars => IInv'
<1> SUFFICES ASSUME IInv, [Next]_vars PROVE IInv'
  OBVIOUS
<1>t. ConnTypeOK /\ FreeUnnamed
  BY DEF IInv
<1>1. ASSUME NEW c \in Conns, ProcessAccept(c) PROVE IInv'
  <2>1. ConnTypeOK' /\ FreeUnnamed'
    BY <1>1, <1>t DEF ProcessAccept, ConnTypeOK, FreeUnnamed
  <2>2. \A s \in Services : Named(s)' \subseteq Named(s)
    BY <1>1, <1>t, NamesAssumption DEF ProcessAccept, ConnTypeOK, FreeUnnamed, Named
  <2> QED BY <1>1, <2>1, <2>2, BooksUntouched DEF ProcessAccept
<1>2. ASSUME NEW c \in Conns, NEW s \in Services, MsgRegister(c, s) PROVE IInv'
  BY <1>2, RegisterStep
<1>3. ASSUME NEW c \in Conns, MsgCommands(c) PROVE IInv'
  <2>1. ConnTypeOK' /\ FreeUnnamed' /\ \A s \in Services : Named(s)' \subseteq Named(s)
    BY <1>3, <1>t DEF MsgCommands, ConnTypeOK, FreeUnnamed, Named
  <2> QED BY <1>3, <2>1, BooksUntouched DEF MsgCommands
<1>4. ASSUME NEW c \in Conns, MsgUnregister(c) \/ ProcessHup(c) PROVE IInv'
  <2>1. Removed(c)
    BY <1>4 DEF MsgUnregister, ProcessHup
  <2> QED BY <1>t, <2>1, RemovedStep, BooksUntouched DEF Removed
<1>5. ASSUME NEW c \in Conns, ClientGone(c) PROVE IInv'
  <2>1. ConnTypeOK' /\ FreeUnnamed' /\ \A s \in Services : Named(s)' \subseteq Named(s)
    BY <1>5, <1>t DEF ClientGone, ConnTypeOK, FreeUnnamed, Named
  <2> QED BY <1>5, <2>1, BooksUntouched DEF ClientGone
<1>6. ASSUME NEW c \in Conns, NEW in \in Inputs, ForwardMessage(c, in) PROVE IInv'
  BY <1>6, ForwardStep
<1>7. ASSUME NEW p \in Servers, PeerChange(p) PROVE IInv'
  <2>1. ConnTypeOK' /\ FreeUnnamed' /\ \A s \in Services : Named(s)' \subseteq Named(s)
    BY <1>7, <1>t DEF PeerChange, ConnTypeOK, FreeUnnamed, Named, connVars
  <2> QED BY <1>7, <2>1, BooksUntouched DEF PeerChange
<1>8. CASE Tick
  <2>1. ConnTypeOK' /\ FreeUnnamed' /\ \A s \in Services : Named(s)' \subseteq Named(s)
    BY <1>8, <1>t DEF Tick, ConnTypeOK, FreeUnnamed, Named, connVars
  <2> QED BY <1>8, <2>1, BooksUntouched DEF Tick
<1>9. CASE UNCHANGED vars
  <2>1. ConnTypeOK' /\ FreeUnnamed' /\ \A s \in Services : Named(s)' \subseteq Named(s)
    BY <1>9, <1>t DEF vars, ConnTypeOK, FreeUnnamed, Named
  <2> QED BY <1>9, <2>1, BooksUntouched DEF vars, mailVars
<1> QED BY <1>1, <1>2, <1>3, <1>4, <1>5, <1>6, <1>7, <1>8, <1>9 DEF Next

LEMMA Invariance == Spec => []IInv
BY Initially, Inductive, PTL DEF Spec

\* The books and the tables of connections keep their types.
THEOREM TypeCorrect == Spec => []TypeOK
<1>1. IInv => TypeOK
  BY DEF IInv, MailInv, TypeOK
<1> QED BY Invariance, <1>1, PTL

\* Nothing waits in the cache for a name that a connection carries.
THEOREM CacheSound == Spec => []CacheOnlyWhenDown
<1>1. IInv => CacheOnlyWhenDown
  BY DEF IInv
<1> QED BY Invariance, <1>1, PTL

\* No message is written to a local service twice.
THEOREM DeliveredAtMostOnce == Spec => []AtMostOnce
<1>1. IInv => AtMostOnce
  BY DEF IInv, MailInv
<1> QED BY Invariance, <1>1, PTL

\* A service gets its messages in the order they came in, whatever the number
\* of its connections and restarts, from the cache or not.
THEOREM DeliveredInOrder == Spec => []Fifo
<1>1. IInv => Fifo
  BY DEF IInv, MailInv
<1> QED BY Invariance, <1>1, PTL

-----------------------------------------------------------------------------
(* What senders are told.                                                  *)

\* A message that was dispatched is where its reply says. Both invariants are
\* inductive next to the types.
ReplyInv == HonestReplies /\ LocalOutcomeKnown

\* A step that takes in no message, replies nothing and relays nothing may only
\* hand over messages that waited, or erase some.
LEMMA RepliesKept ==
    ASSUME IInv, ReplyInv, UNCHANGED <<msgs, relayed, replies>>, handed \subseteq handed',
           cache' \subseteq cache,
           \A h \in handed' \ handed : \E e \in cache : e.id = h.id
    PROVE  ReplyInv'
<1>1. HonestReplies'
  <2> SUFFICES ASSUME NEW r \in replies
      PROVE  /\ r.what \in {"failed", "unavailable"} =>
                  /\ \A h \in handed' : h.id # r.id
                  /\ \A e \in cache' : e.id # r.id
                  /\ r.id \notin relayed
             /\ r.what = "cached" => ~ msgs[r.id].in.no /\ r.id \notin relayed
    BY DEF HonestReplies
  <2>1. ASSUME r.what \in {"failed", "unavailable"}, NEW h \in handed' PROVE h.id # r.id
    <3>1. CASE h \in handed
      BY <2>1, <3>1 DEF ReplyInv, HonestReplies
    <3>2. CASE h \notin handed
      BY <2>1, <3>2 DEF ReplyInv, HonestReplies
    <3> QED BY <3>1, <3>2
  <2> QED BY <2>1 DEF ReplyInv, HonestReplies
<1>2. LocalOutcomeKnown'
  BY DEF ReplyInv, LocalOutcomeKnown
<1> QED BY <1>1, <1>2 DEF ReplyInv

\* The numbers that are handed over.
LEMMA HandOverIds ==
    ASSUME NEW R, NEW c
    PROVE  /\ \A h \in HandOver(R, c) : h.id \in R
           /\ \A i \in R : \E h \in HandOver(R, c) : h.id = i
<1> DEFINE place(i) == Cardinality(handed) + Cardinality({j \in R : j <= i})
           rec(i) == [id |-> i, conn |-> c, at |-> place(i)]
<1>1. HandOver(R, c) = {rec(i) : i \in R}
  BY DEF HandOver
<1> HIDE DEF place
<1>2. \A i \in R : rec(i).id = i
  OBVIOUS
<1> HIDE DEF rec
<1> QED BY <1>1, <1>2

LEMMA RepliesRegister ==
    ASSUME IInv, ReplyInv, NEW c \in Conns, NEW s \in Services, MsgRegister(c, s)
    PROVE  ReplyInv'
<1>1. \A h \in HandOver(Matching(s), c) : h.id \in Matching(s)
  BY HandOverIds
<1>2. \A i \in Matching(s) : \E e \in cache : e.id = i
  BY DEF Matching
<1>3. handed' = handed \cup HandOver(Matching(s), c) /\ cache' = Kept(s)
      /\ UNCHANGED <<msgs, relayed, replies>>
  BY DEF MsgRegister
<1>4. cache' \subseteq cache
  BY <1>3 DEF Kept
<1> QED BY <1>1, <1>2, <1>3, <1>4, RepliesKept

\* The new message has a number that no book has, and each way out of
\* forward_message() leaves the reply that fits.
LEMMA RepliesForward ==
    ASSUME IInv, ReplyInv, NEW from \in Conns, NEW in \in Inputs, ForwardMessage(from, in)
    PROVE  ReplyInv'
<1>0. PICK i :
      /\ i = Len(msgs) + 1
      /\ msgs' = Append(msgs, [as |-> name[from], in |-> in])
      /\ \/ ForwardToService(i, from, in) \/ CacheMessage(i, in)
         \/ DropMessage(i, in) \/ RelayMessage(i, in)
  BY DEF ForwardMessage
<1>t. ConnTypeOK /\ MailTypeOK
  BY DEF IInv, MailInv
<1>1. /\ Len(msgs) \in Nat /\ Len(msgs)' = i
      /\ \A j \in 1..Len(msgs) : msgs'[j] = msgs[j]
      /\ msgs'[i].in = in /\ in \in Input
  BY <1>0, <1>t, NewMessage
<1>2. msgs'[i].as = name[from]
  BY <1>0, <1>t DEF MailTypeOK
<1>3. /\ i \in Nat /\ i \notin 1..Len(msgs)
      /\ \A j \in 1..i : j \in 1..Len(msgs) \/ j = i
  BY <1>0, <1>1
<1>4. /\ \A h \in handed : h.id # i
      /\ \A e \in cache : e.id # i
      /\ \A r \in replies : r.id # i /\ r.id \in 1..Len(msgs)
      /\ i \notin relayed
  BY <1>3, <1>t DEF MailTypeOK
\* An older message keeps its outcome, if nothing is taken from the books.
<1>5. ASSUME handed \subseteq handed', replies \subseteq replies',
             in.server = "me" /\ in.report /\ name[from] # in.to =>
                 \/ \E h \in handed' : h.id = i
                 \/ \E r \in replies' : r.id = i /\ r.what \in {"cached", "failed"}
      PROVE  LocalOutcomeKnown'
  <2> SUFFICES ASSUME NEW j \in 1..Len(msgs)',
                      msgs'[j].in.server = "me", msgs'[j].in.report,
                      msgs'[j].as # msgs'[j].in.to
               PROVE  \/ \E h \in handed' : h.id = j
                      \/ \E r \in replies' : r.id = j /\ r.what \in {"cached", "failed"}
    BY DEF LocalOutcomeKnown
  <2>1. CASE j \in 1..Len(msgs)
    <3>1. \/ \E h \in handed : h.id = j
          \/ \E r \in replies : r.id = j /\ r.what \in {"cached", "failed"}
      BY <1>1, <2>1 DEF ReplyInv, LocalOutcomeKnown
    <3> QED BY <1>5, <3>1
  <2>2. CASE j = i
    BY <1>1, <1>2, <1>5, <2>2
  <2> QED BY <1>1, <1>3, <2>1, <2>2
\* An older reply stays honest, if what is new in the books has the number i.
<1>6. ASSUME \A h \in handed' : h \in handed \/ h.id = i,
             \A e \in cache' : e \in cache \/ e.id = i,
             relayed' \subseteq relayed \cup {i},
             \A r \in replies' : r \in replies \/
                 /\ r.id = i /\ i \notin relayed'
                 /\ r.what = "cached" => ~in.no
                 /\ r.what \in {"failed", "unavailable"} =>
                        handed' = handed /\ cache' = cache
      PROVE  HonestReplies'
  <2> SUFFICES ASSUME NEW r \in replies'
      PROVE  /\ r.what \in {"failed", "unavailable"} =>
                  /\ \A h \in handed' : h.id # r.id
                  /\ \A e \in cache' : e.id # r.id
                  /\ r.id \notin relayed'
             /\ r.what = "cached" => ~ msgs'[r.id].in.no /\ r.id \notin relayed'
    BY DEF HonestReplies
  <2>1. CASE r \in replies
    <3>1. r.id # i /\ msgs'[r.id] = msgs[r.id]
      BY <1>1, <1>4, <2>1
    <3> QED BY <1>6, <2>1, <3>1 DEF ReplyInv, HonestReplies
  <2>2. CASE r \notin replies
    BY <1>1, <1>4, <1>6, <2>2
  <2> QED BY <2>1, <2>2
<1>7. CASE ForwardToService(i, from, in)
  <2>1. PICK c \in Named(in.to) :
          handed' = IF c = from THEN handed ELSE handed \cup HandOver({i}, c)
    BY <1>7 DEF ForwardToService
  <2>2. /\ \A h \in HandOver({i}, c) : h.id = i
        /\ \E h \in HandOver({i}, c) : h.id = i
    BY HandOverIds
  <2>3. UNCHANGED <<cache, relayed, replies>>
    BY <1>7 DEF ForwardToService
  <2>4. c = from => name[from] = in.to
    BY <2>1 DEF Named
  <2> QED BY <1>5, <1>6, <2>1, <2>2, <2>3, <2>4 DEF ReplyInv
<1>8. CASE CacheMessage(i, in)
  <2>1. /\ cache' = IF in.no THEN cache ELSE cache \cup {CacheEntry(i, in)}
        /\ replies' = replies \cup CacheReport(i, in)
             \cup (IF in.no /\ in.reply THEN {[id |-> i, what |-> "unavailable"]} ELSE {})
        /\ UNCHANGED <<handed, relayed>>
    BY <1>8 DEF CacheMessage
  <2>2. CacheEntry(i, in).id = i
    BY DEF CacheEntry
  <2>3. in.no \in BOOLEAN /\ in.report \in BOOLEAN /\ in.reply \in BOOLEAN
    BY <1>1 DEF Input
  <2>4. in.report => \E r \in replies' : r.id = i /\ r.what \in {"cached", "failed"}
    <3> DEFINE r == [id |-> i, what |-> IF in.no THEN "failed" ELSE "cached"]
    <3>1. in.report => r \in replies'
      BY <2>1 DEF CacheReport
    <3>2. r.id = i /\ r.what \in {"cached", "failed"}
      OBVIOUS
    <3> HIDE DEF r
    <3> QED BY <3>1, <3>2
  <2>5. \A r \in replies' : r \in replies \/
           /\ r.id = i
           /\ r.what = "cached" => ~in.no
           /\ r.what \in {"failed", "unavailable"} => in.no
    BY <2>1, <2>3 DEF CacheReport
  <2>6. \A e \in cache' : e \in cache \/ e.id = i
    BY <2>1, <2>2
  <2> QED BY <1>4, <1>5, <1>6, <2>1, <2>4, <2>5, <2>6 DEF ReplyInv
<1>9. CASE DropMessage(i, in)
  <2>1. /\ UNCHANGED <<cache, handed, relayed>>
        /\ replies' = replies \cup DropReport(i, in)
    BY <1>9 DEF DropMessage
  <2>2. \A r \in DropReport(i, in) : r.id = i /\ r.what = "failed"
    BY DEF DropReport
  <2>3. in.report => \E r \in DropReport(i, in) : r.id = i /\ r.what = "failed"
    BY DEF DropReport
  <2> QED BY <1>4, <1>5, <1>6, <2>1, <2>2, <2>3 DEF ReplyInv
<1>10. CASE RelayMessage(i, in)
  <2>1. /\ UNCHANGED <<cache, handed, replies>>
        /\ relayed' = relayed \/ relayed' = relayed \cup {i}
        /\ in.server # "me"
    BY <1>10, NamesAssumption DEF RelayMessage
  <2> QED BY <1>5, <1>6, <2>1 DEF ReplyInv
<1> QED BY <1>0, <1>7, <1>8, <1>9, <1>10

LEMMA RepliesInductive == IInv /\ ReplyInv /\ [Next]_vars => ReplyInv'
<1> SUFFICES ASSUME IInv, ReplyInv, [Next]_vars PROVE ReplyInv'
  OBVIOUS
<1>1. ASSUME UNCHANGED mailVars PROVE ReplyInv'
  BY <1>1, RepliesKept DEF mailVars
<1>2. ASSUME NEW c \in Conns, ProcessAccept(c) \/ MsgCommands(c) \/ ClientGone(c) PROVE ReplyInv'
  BY <1>1, <1>2 DEF ProcessAccept, MsgCommands, ClientGone
<1>3. ASSUME NEW c \in Conns, NEW s \in Services, MsgRegister(c, s) PROVE ReplyInv'
  BY <1>3, RepliesRegister
<1>4. ASSUME NEW c \in Conns, MsgUnregister(c) \/ ProcessHup(c) PROVE ReplyInv'
  BY <1>1, <1>4 DEF MsgUnregister, ProcessHup, Removed
<1>5. ASSUME NEW c \in Conns, NEW in \in Inputs, ForwardMessage(c, in) PROVE ReplyInv'
  BY <1>5, RepliesForward
<1>6. ASSUME NEW p \in Servers, PeerChange(p) PROVE ReplyInv'
  BY <1>1, <1>6 DEF PeerChange
<1>7. CASE Tick
  BY <1>1, <1>7 DEF Tick
<1>8. CASE UNCHANGED vars
  BY <1>1, <1>8 DEF vars, mailVars
<1> QED BY <1>2, <1>3, <1>4, <1>5, <1>6, <1>7, <1>8 DEF Next

LEMMA ReplyInvariance == Spec => []ReplyInv
<1>1. Init => ReplyInv
  BY DEF Init, ReplyInv, HonestReplies, LocalOutcomeKnown
<1> QED BY Invariance, RepliesInductive, <1>1, PTL DEF Spec

\* A sender told that its message failed never finds it delivered after all.
THEOREM RepliesHonest == Spec => []HonestReplies
<1>1. ReplyInv => HonestReplies
  BY DEF ReplyInv
<1> QED BY ReplyInvariance, <1>1, PTL

\* A message for this server whose sender asked for a report was handed to its
\* service or reported on.
THEOREM OutcomeKnown == Spec => []LocalOutcomeKnown
<1>1. ReplyInv => LocalOutcomeKnown
  BY DEF ReplyInv
<1> QED BY ReplyInvariance, <1>1, PTL

-----------------------------------------------------------------------------
(* What clients believe of services.                                       *)

\* Only a connection in use that understands STATUS remembers one. Without
\* this, a client that begins to listen could start with an old "up".
SeenByWatchers ==
    \A w \in Conns : conn[w] = "free" \/ ~watch[w] => seen[w] = Nothing

StatusInv == SeenByWatchers /\ StatusUpSound

\* A connection goes, and with it nothing that is still believed.
LEMMA StatusRemoved ==
    ASSUME ConnTypeOK, StatusInv, NEW c \in Conns, Removed(c)
    PROVE  StatusInv'
<1>0. /\ conn' = [conn EXCEPT ![c] = "free"]
      /\ name' = [name EXCEPT ![c] = NoName]
      /\ watch' = [watch EXCEPT ![c] = FALSE]
      /\ seen' = StatusAfterLoss(c)
  BY DEF Removed
\* A watcher that remembers s as up did so before, and s is not the name lost.
<1>1. /\ seen'[c] = Nothing
      /\ \A w \in Conns \ {c} :
           /\ seen[w] = Nothing /\ (conn[w] = "free" \/ ~watch[w]) => seen'[w] = Nothing
           /\ \A s \in Services : seen'[w][s] = "up" => seen[w][s] = "up" /\ s # name[c]
  <2>1. CASE name[c] = NoName
    <3>1. seen' = [seen EXCEPT ![c] = Nothing]
      BY <1>0, <2>1 DEF StatusAfterLoss
    <3> QED BY <2>1, <3>1, NamesAssumption DEF ConnTypeOK
  <2>2. CASE name[c] # NoName
    <3> DEFINE told == SendStatus(name[c], "down")
    <3>1. told \in [Conns -> [Services -> {"none", "up", "down"}]] /\ name[c] \in Services
      BY <2>2, SendStatusType DEF ConnTypeOK
    <3>2. \A w \in Conns :
            told[w] = IF watch[w] /\ conn[w] # "free"
                      THEN [seen[w] EXCEPT ![name[c]] = "down"] ELSE seen[w]
      BY DEF SendStatus
    <3> HIDE DEF told
    <3>3. seen' = [told EXCEPT ![c] = Nothing]
      BY <1>0, <2>2 DEF StatusAfterLoss, told
    <3>4. seen'[c] = Nothing /\ \A w \in Conns \ {c} : seen'[w] = told[w]
      BY <3>1, <3>3
    <3>5. ASSUME NEW w \in Conns \ {c}, NEW s \in Services, told[w][s] = "up"
          PROVE  seen[w][s] = "up" /\ s # name[c]
      <4>1. CASE watch[w] /\ conn[w] # "free"
        BY <3>1, <3>2, <3>5, <4>1 DEF ConnTypeOK
      <4>2. CASE ~(watch[w] /\ conn[w] # "free")
        <5>1. seen[w] = Nothing /\ told[w] = Nothing
          BY <3>2, <4>2 DEF StatusInv, SeenByWatchers
        <5> QED BY <3>5, <5>1 DEF Nothing
      <4> QED BY <4>1, <4>2
    <3>6. ASSUME NEW w \in Conns \ {c}, seen[w] = Nothing, conn[w] = "free" \/ ~watch[w]
          PROVE  told[w] = Nothing
      BY <3>2, <3>6
    <3> QED BY <3>4, <3>5, <3>6
  <2> QED BY <2>1, <2>2
<1>2. SeenByWatchers'
  <2> SUFFICES ASSUME NEW w \in Conns, conn'[w] = "free" \/ ~watch'[w] PROVE seen'[w] = Nothing
    BY DEF SeenByWatchers
  <2>1. CASE w = c
    BY <1>1, <2>1
  <2>2. CASE w # c
    <3>1. conn[w] = "free" \/ ~watch[w]
      BY <1>0, <2>2 DEF ConnTypeOK
    <3> QED BY <1>1, <2>2, <3>1 DEF StatusInv, SeenByWatchers
  <2> QED BY <2>1, <2>2
<1>3. StatusUpSound'
  <2> SUFFICES ASSUME NEW w \in Conns, NEW s \in Services, seen'[w][s] = "up"
               PROVE  Named(s)' # {}
    BY DEF StatusUpSound
  <2>1. w # c
    BY <1>1 DEF Nothing
  <2>2. seen[w][s] = "up" /\ s # name[c]
    BY <1>1, <2>1
  <2>3. PICK d \in Conns : conn[d] # "free" /\ name[d] = s
    BY <2>2 DEF StatusInv, StatusUpSound, Named
  <2>4. d # c
    BY <2>2, <2>3
  <2>5. conn'[d] # "free" /\ name'[d] = s
    BY <1>0, <2>3, <2>4 DEF ConnTypeOK
  <2> QED BY <2>5 DEF Named
<1> QED BY <1>2, <1>3 DEF StatusInv

\* REGISTER tells the watchers of a name that a connection now has.
LEMMA StatusRegister ==
    ASSUME ConnTypeOK, StatusInv, NEW c \in Conns, NEW s \in Services, MsgRegister(c, s)
    PROVE  StatusInv'
<1>0. /\ conn[c] # "free" /\ name[c] = NoName
      /\ name' = [name EXCEPT ![c] = s]
      /\ seen' = SendStatus(s, "up")
      /\ UNCHANGED <<conn, watch>>
  BY DEF MsgRegister
<1>1. \A w \in Conns :
        seen'[w] = IF watch[w] /\ conn[w] # "free"
                   THEN [seen[w] EXCEPT ![s] = "up"] ELSE seen[w]
  BY <1>0 DEF SendStatus
<1>2. SeenByWatchers'
  BY <1>0, <1>1 DEF StatusInv, SeenByWatchers
<1>3. StatusUpSound'
  <2> SUFFICES ASSUME NEW w \in Conns, NEW t \in Services, seen'[w][t] = "up"
               PROVE  Named(t)' # {}
    BY DEF StatusUpSound
  <2>1. CASE t = s
    <3>1. conn'[c] # "free" /\ name'[c] = s
      BY <1>0 DEF ConnTypeOK
    <3> QED BY <2>1, <3>1 DEF Named
  <2>2. CASE t # s
    <3>1. seen[w][t] = "up"
      BY <1>1, <2>2 DEF ConnTypeOK
    <3>2. PICK d \in Conns : conn[d] # "free" /\ name[d] = t
      BY <3>1 DEF StatusInv, StatusUpSound, Named
    <3>3. d # c
      BY <1>0, <3>2, NamesAssumption
    <3>4. conn'[d] # "free" /\ name'[d] = t
      BY <1>0, <3>2, <3>3 DEF ConnTypeOK
    <3> QED BY <3>4 DEF Named
  <2> QED BY <2>1, <2>2
<1> QED BY <1>2, <1>3 DEF StatusInv

\* A step that sends no STATUS and takes no name.
LEMMA StatusKept ==
    ASSUME ConnTypeOK, StatusInv, UNCHANGED <<name, seen>>,
           \A c \in Conns : conn[c] # "free" => conn'[c] # "free",
           \A c \in Conns : conn'[c] = "free" \/ ~watch'[c] =>
                conn[c] = "free" \/ ~watch[c]
    PROVE  StatusInv'
<1>1. SeenByWatchers'
  BY DEF StatusInv, SeenByWatchers
<1>2. StatusUpSound'
  BY DEF StatusInv, StatusUpSound, Named
<1> QED BY <1>1, <1>2 DEF StatusInv

LEMMA StatusInductive == IInv /\ StatusInv /\ [Next]_vars => StatusInv'
<1> SUFFICES ASSUME IInv, StatusInv, [Next]_vars PROVE StatusInv'
  OBVIOUS
<1>t. ConnTypeOK /\ FreeUnnamed
  BY DEF IInv
<1>1. ASSUME UNCHANGED connVars PROVE StatusInv'
  BY <1>1, <1>t, StatusKept DEF connVars
\* A connection that was not in use understands nothing: it was freed so.
<1>2. ASSUME NEW c \in Conns, ProcessAccept(c) PROVE StatusInv'
  <2>0. conn[c] = "free" /\ conn' = [conn EXCEPT ![c] = "open"] /\ UNCHANGED <<name, watch, seen>>
    BY <1>2 DEF ProcessAccept
  <2>1. \A d \in Conns : conn[d] # "free" => conn'[d] # "free"
    BY <1>t, <2>0 DEF ConnTypeOK
  <2>2. \A d \in Conns : conn'[d] = "free" \/ ~watch'[d] => conn[d] = "free" \/ ~watch[d]
    BY <1>t, <2>0 DEF ConnTypeOK
  <2> QED BY <1>t, <2>0, <2>1, <2>2, StatusKept
<1>3. ASSUME NEW c \in Conns, NEW s \in Services, MsgRegister(c, s) PROVE StatusInv'
  BY <1>3, <1>t, StatusRegister
<1>4. ASSUME NEW c \in Conns, MsgCommands(c) PROVE StatusInv'
  <2>0. watch' = [watch EXCEPT ![c] = TRUE] /\ UNCHANGED <<conn, name, seen>>
    BY <1>4 DEF MsgCommands
  <2>1. \A d \in Conns : conn'[d] = "free" \/ ~watch'[d] => conn[d] = "free" \/ ~watch[d]
    BY <1>t, <2>0 DEF ConnTypeOK
  <2> QED BY <1>t, <2>0, <2>1, StatusKept
<1>5. ASSUME NEW c \in Conns, MsgUnregister(c) \/ ProcessHup(c) PROVE StatusInv'
  BY <1>5, <1>t, StatusRemoved DEF MsgUnregister, ProcessHup
<1>6. ASSUME NEW c \in Conns, ClientGone(c) PROVE StatusInv'
  <2>0. conn[c] = "open" /\ conn' = [conn EXCEPT ![c] = "gone"] /\ UNCHANGED <<name, watch, seen>>
    BY <1>6 DEF ClientGone
  <2>1. \A d \in Conns : conn[d] # "free" => conn'[d] # "free"
    BY <1>t, <2>0 DEF ConnTypeOK
  <2>2. \A d \in Conns : conn'[d] = "free" \/ ~watch'[d] => conn[d] = "free" \/ ~watch[d]
    BY <1>t, <2>0 DEF ConnTypeOK
  <2> QED BY <1>t, <2>0, <2>1, <2>2, StatusKept
<1>7. ASSUME NEW c \in Conns, NEW in \in Inputs, ForwardMessage(c, in) PROVE StatusInv'
  BY <1>1, <1>7 DEF ForwardMessage
<1>8. ASSUME NEW p \in Servers, PeerChange(p) PROVE StatusInv'
  BY <1>1, <1>8 DEF PeerChange
<1>9. CASE Tick
  BY <1>1, <1>9 DEF Tick
<1>10. CASE UNCHANGED vars
  BY <1>1, <1>10 DEF vars, connVars
<1> QED BY <1>2, <1>3, <1>4, <1>5, <1>6, <1>7, <1>8, <1>9, <1>10 DEF Next

\* A client last told that a service is up shares the daemon with a connection
\* of that name, whichever way its connections end.
THEOREM UpIsSo == Spec => []StatusUpSound
<1>1. Init => StatusInv
  BY DEF Init, StatusInv, SeenByWatchers, StatusUpSound, Nothing
<1>2. StatusInv => StatusUpSound
  BY DEF StatusInv
<1> QED BY Invariance, StatusInductive, <1>1, <1>2, PTL DEF Spec

-----------------------------------------------------------------------------
(* What leaves the cache.                                                  *)

\* An entry leaves the cache to its service or past its deadline.
THEOREM ExpiredErased == Spec => OnlyExpiredErased
<1> DEFINE A == \A e \in cache \ cache' : e.deadline < now \/ \E h \in handed' : h.id = e.id
<1>1. ASSUME IInv, Next PROVE A
  <2>0. ASSUME cache \subseteq cache' PROVE A
    BY <2>0
  <2>1. ASSUME NEW c \in Conns, NEW s \in Services, MsgRegister(c, s) PROVE A
    <3> SUFFICES ASSUME NEW e \in cache, e \notin cache'
                 PROVE  e.deadline < now \/ \E h \in handed' : h.id = e.id
      OBVIOUS
    <3>1. cache' = Kept(s) /\ handed' = handed \cup HandOver(Matching(s), c)
      BY <2>1 DEF MsgRegister
    <3>2. e.deadline \in Nat /\ now \in Nat
      <4>1. ConnTypeOK /\ MailTypeOK
        BY <1>1 DEF IInv, MailInv
      <4>2. e \in Entry /\ now \in Nat
        BY <4>1 DEF ConnTypeOK, MailTypeOK
      <4> QED BY <4>2 DEF Entry
    <3>3. CASE Dest(e.id) = s
      <4>1. e.id \in Matching(s)
        BY <3>3 DEF Matching
      <4> QED BY <3>1, <4>1, HandOverIds
    <3>4. CASE Dest(e.id) # s
      BY <3>1, <3>2, <3>4 DEF Kept
    <3> QED BY <3>3, <3>4
  <2>2. ASSUME NEW c \in Conns, NEW in \in Inputs, ForwardMessage(c, in) PROVE A
    <3>1. cache \subseteq cache'
      BY <2>2 DEF ForwardMessage, ForwardToService, CacheMessage, DropMessage, RelayMessage
    <3> QED BY <2>0, <3>1
  <2>3. ASSUME UNCHANGED mailVars PROVE A
    BY <2>3 DEF mailVars
  <2> HIDE DEF A
  <2>4. ASSUME NEW c \in Conns,
               \/ ProcessAccept(c) \/ MsgCommands(c) \/ MsgUnregister(c)
               \/ ClientGone(c) \/ ProcessHup(c)
        PROVE  A
    BY <2>3, <2>4 DEF ProcessAccept, MsgCommands, MsgUnregister, ClientGone, ProcessHup, Removed
  <2>5. ASSUME NEW p \in Servers, PeerChange(p) PROVE A
    BY <2>3, <2>5 DEF PeerChange
  <2>6. CASE Tick
    BY <2>3, <2>6 DEF Tick
  <2> QED BY <1>1, <2>1, <2>2, <2>4, <2>5, <2>6 DEF Next
<1>2. IInv /\ [Next]_vars => [A]_vars
  BY <1>1
<1> QED BY Invariance, <1>2, PTL DEF Spec, OnlyExpiredErased

=============================================================================
