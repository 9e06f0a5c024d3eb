--------------------------- MODULE LocalMailboxProofs ---------------------------
(***************************************************************************)
(* Every behavior of LocalServices is one of Mailbox, for any number of    *)
(* connections, services, messages and seconds.                            *)
(***************************************************************************)
EXTENDS LocalMailbox, LocalServicesProofs, SequenceTheorems

-----------------------------------------------------------------------------
(* Listing a finite set in the order of a key.                             *)

\* The number of elements of S up to x.
Rank(S, key, x) == Cardinality({y \in S : key[y] <= key[x]})

\* Each element has a rank of its own, and every rank from 1 to the size of S
\* is that of an element.
Ranked(S, key) ==
    /\ Cardinality(S) \in Nat
    /\ \A x \in S : Rank(S, key, x) \in 1..Cardinality(S)
    /\ \A x, y \in S : Rank(S, key, x) = Rank(S, key, y) => x = y
    /\ \A k \in 1..Cardinality(S) : \E x \in S : Rank(S, key, x) = k

\* A key that tells the elements of a finite set apart ranks them.
LEMMA Ranks ==
    ASSUME NEW S, IsFiniteSet(S), NEW key,
           \A x \in S : key[x] \in Nat,
           \A x, y \in S : key[x] = key[y] => x = y
    PROVE  Ranked(S, key)
<1> DEFINE upto(x) == {y \in S : key[y] <= key[x]}
<1>0. Cardinality(S) \in Nat
  BY FS_CardinalityType
<1>1. \A x \in S : /\ IsFiniteSet(upto(x)) /\ Cardinality(upto(x)) \in 1..Cardinality(S)
  <2> TAKE x \in S
  <2>1. IsFiniteSet(upto(x)) /\ Cardinality(upto(x)) <= Cardinality(S)
    BY FS_Subset, upto(x) \subseteq S
  <2>2. Cardinality(upto(x)) \in Nat
    BY <2>1, FS_CardinalityType
  <2>3. x \in upto(x)
    OBVIOUS
  <2>4. Cardinality(upto(x)) # 0
    BY <2>1, <2>3, FS_EmptySet
  <2> HIDE DEF upto
  <2> QED BY <1>0, <2>1, <2>2, <2>4
<1>2. \A x, y \in S : key[x] < key[y] => Cardinality(upto(x)) < Cardinality(upto(y))
  <2> TAKE x, y \in S
  <2> HAVE key[x] < key[y]
  <2>1. upto(x) \subseteq upto(y)
    <3> SUFFICES ASSUME NEW z \in S, key[z] <= key[x] PROVE key[z] <= key[y]
      OBVIOUS
    <3>1. key[x] \in Nat /\ key[y] \in Nat /\ key[z] \in Nat
      OBVIOUS
    <3> QED BY <3>1
  <2>2. y \in upto(y) /\ y \notin upto(x)
    OBVIOUS
  <2>3. IsFiniteSet(upto(y))
    BY <1>1
  <2> HIDE DEF upto
  <2>4. Cardinality(upto(x)) <= Cardinality(upto(y)) /\ Cardinality(upto(x)) # Cardinality(upto(y))
    BY <2>1, <2>2, <2>3, FS_Subset
  <2> QED BY <1>0, <1>1, <2>4
<1>3. \A x \in S : Rank(S, key, x) = Cardinality(upto(x))
  BY DEF Rank
<1> HIDE DEF upto
<1>4. \A x, y \in S : Rank(S, key, x) = Rank(S, key, y) => x = y
  <2> SUFFICES ASSUME NEW x \in S, NEW y \in S, x # y
               PROVE  Cardinality(upto(x)) # Cardinality(upto(y))
    BY <1>3
  <2>1. key[x] \in Nat /\ key[y] \in Nat /\ key[x] # key[y]
    OBVIOUS
  <2>2. key[x] < key[y] \/ key[y] < key[x]
    BY <2>1
  <2> QED BY <1>0, <1>1, <1>2, <2>2
<1>5. \A k \in 1..Cardinality(S) : \E x \in S : Rank(S, key, x) = k
  <2> DEFINE r == [x \in S |-> Rank(S, key, x)]
             N == 1..Cardinality(S)
  <2>1. r \in Injection(S, N)
    <3>1. r \in [S -> N]
      BY <1>1, <1>3
    <3>2. \A x, y \in S : r[x] = r[y] => x = y
      BY <1>4
    <3> HIDE DEF r
    <3> QED BY <3>1, <3>2 DEF Injection, IsInjective
  <2>2. IsFiniteSet(N) /\ Cardinality(N) = Cardinality(S)
    BY <1>0, FS_Interval
  <2> HIDE DEF r, N
  <2>3. r \in Surjection(S, N)
    BY <2>1, <2>2, FS_Injection
  <2>4. \A k \in N : \E x \in S : r[x] = k
    BY <2>3 DEF Surjection
  <2> QED BY <2>4 DEF r, N
<1> QED BY <1>0, <1>1, <1>3, <1>4, <1>5 DEF Ranked

\* The image of a finite set under a function that tells its elements apart.
LEMMA ImageSize ==
    ASSUME NEW T, IsFiniteSet(T), NEW f, \A x, y \in T : f[x] = f[y] => x = y
    PROVE  /\ IsFiniteSet({f[x] : x \in T})
           /\ Cardinality({f[x] : x \in T}) = Cardinality(T)
<1> DEFINE I == {f[x] : x \in T}
           g == [x \in T |-> f[x]]
<1>1. g \in Bijection(T, I)
  <2>1. g \in [T -> I]
    OBVIOUS
  <2>2. \A x, y \in T : g[x] = g[y] => x = y
    OBVIOUS
  <2>3. \A z \in I : \E x \in T : g[x] = z
    OBVIOUS
  <2> HIDE DEF g, I
  <2>4. g \in Injection(T, I)
    BY <2>1, <2>2 DEF Injection, IsInjective
  <2>5. g \in Surjection(T, I)
    BY <2>1, <2>3 DEF Surjection
  <2> QED BY <2>4, <2>5 DEF Bijection
<1> HIDE DEF g, I
<1>2. ExistsBijection(T, I)
  BY <1>1 DEF ExistsBijection
<1>3. IsFiniteSet(I) /\ Cardinality(I) = Cardinality(T)
  BY <1>2, FS_Bijection
<1> QED BY <1>3 DEF I

-----------------------------------------------------------------------------
(* The two lists of the refinement.                                        *)

AtRank(H, h) == Cardinality({g \in H : g.at <= h.at})
NumRank(R, i) == Cardinality({j \in R : j <= i})

\* Messages that were written at different places.
Apart(H) == /\ IsFiniteSet(H)
            /\ \A h \in H : h.id \in Nat /\ h.at \in Nat
            /\ \A g, h \in H : g.at = h.at => g = h

LEMMA InPlacesList ==
    ASSUME NEW H, Apart(H)
    PROVE  /\ InPlaces(H) \in Seq(Nat)
           /\ Len(InPlaces(H)) = Cardinality(H)
           /\ Cardinality(H) \in Nat
           /\ \A h \in H : /\ AtRank(H, h) \in 1..Cardinality(H)
                           /\ InPlaces(H)[AtRank(H, h)] = h.id
           /\ \A k \in 1..Cardinality(H) : \E h \in H : AtRank(H, h) = k
<1> DEFINE key == [h \in H |-> h.at]
           P(k, h) == Cardinality({g \in H : g.at <= h.at}) = k
           pick(k) == CHOOSE h \in H : P(k, h)
<1>1. \A h \in H : Rank(H, key, h) = AtRank(H, h)
  <2> TAKE h \in H
  <2>1. {g \in H : key[g] <= key[h]} = {g \in H : g.at <= h.at}
    OBVIOUS
  <2> QED BY <2>1 DEF Rank, AtRank
<1>2. /\ \A h \in H : key[h] \in Nat
      /\ \A g, h \in H : key[g] = key[h] => g = h
  BY DEF Apart
<1>3. IsFiniteSet(H)
  BY DEF Apart
<1> HIDE DEF key
<1>4. /\ Cardinality(H) \in Nat
      /\ \A h \in H : AtRank(H, h) \in 1..Cardinality(H)
      /\ \A g, h \in H : AtRank(H, g) = AtRank(H, h) => g = h
      /\ \A k \in 1..Cardinality(H) : \E h \in H : AtRank(H, h) = k
  <2>1. Ranked(H, key)
    BY <1>2, <1>3, Ranks
  <2> QED BY <1>1, <2>1 DEF Ranked
<1>5. \A k, h : P(k, h) <=> AtRank(H, h) = k
  BY DEF AtRank
<1>6. InPlaces(H) = [k \in 1..Cardinality(H) |-> pick(k).id]
  BY DEF InPlaces
<1> HIDE DEF P
<1>7. \A k \in 1..Cardinality(H) : pick(k) \in H /\ AtRank(H, pick(k)) = k
  <2> TAKE k \in 1..Cardinality(H)
  <2>1. \E h \in H : P(k, h)
    BY <1>4, <1>5
  <2>2. pick(k) \in H /\ P(k, pick(k))
    BY <2>1
  <2> QED BY <1>5, <2>2
<1> HIDE DEF pick
<1>8. \A h \in H : pick(AtRank(H, h)) = h
  BY <1>4, <1>7
<1>9. \A k \in 1..Cardinality(H) : pick(k).id \in Nat
  BY <1>7 DEF Apart
<1> QED BY <1>4, <1>6, <1>8, <1>9

\* The mailbox counts as the daemon does.
LEMMA SameSize == \A S : Promise!Cardinality(S) = Cardinality(S)
BY DEF Promise!Cardinality, Cardinality, Promise!IsFiniteSet, IsFiniteSet

LEMMA InOrderList ==
    ASSUME NEW R, IsFiniteSet(R), R \subseteq Nat
    PROVE  /\ Promise!InOrder(R) \in Seq(Nat)
           /\ Len(Promise!InOrder(R)) = Cardinality(R)
           /\ Cardinality(R) \in Nat
           /\ \A i \in R : /\ NumRank(R, i) \in 1..Cardinality(R)
                           /\ Promise!InOrder(R)[NumRank(R, i)] = i
           /\ \A i, j \in R : NumRank(R, i) = NumRank(R, j) => i = j
           /\ \A k \in 1..Cardinality(R) : \E i \in R : NumRank(R, i) = k
<1> DEFINE key == [i \in R |-> i]
           P(k, i) == Cardinality({j \in R : j <= i}) = k
           pick(k) == CHOOSE i \in R : P(k, i)
<1>1. \A i \in R : Rank(R, key, i) = NumRank(R, i)
  <2> TAKE i \in R
  <2>1. {j \in R : key[j] <= key[i]} = {j \in R : j <= i}
    OBVIOUS
  <2> QED BY <2>1 DEF Rank, NumRank
<1>2. \A i \in R : key[i] \in Nat
  OBVIOUS
<1>k. \A i, j \in R : key[i] = key[j] => i = j
  OBVIOUS
<1> HIDE DEF key
<1>3. /\ Cardinality(R) \in Nat
      /\ \A i \in R : Rank(R, key, i) \in 1..Cardinality(R)
      /\ \A i, j \in R : Rank(R, key, i) = Rank(R, key, j) => i = j
      /\ \A k \in 1..Cardinality(R) : \E i \in R : Rank(R, key, i) = k
  <2>1. Ranked(R, key)
    BY <1>2, <1>k, Ranks
  <2> QED BY <2>1 DEF Ranked
<1>4. /\ Cardinality(R) \in Nat
      /\ \A i \in R : NumRank(R, i) \in 1..Cardinality(R)
      /\ \A i, j \in R : NumRank(R, i) = NumRank(R, j) => i = j
      /\ \A k \in 1..Cardinality(R) : \E i \in R : NumRank(R, i) = k
  <2> QED BY <1>1, <1>3
<1>5. \A k, i : P(k, i) <=> NumRank(R, i) = k
  BY DEF NumRank
<1>6. Promise!InOrder(R) = [k \in 1..Cardinality(R) |-> pick(k)]
  BY DEF Promise!InOrder, Promise!Cardinality, Cardinality
<1> HIDE DEF P
<1>7. \A k \in 1..Cardinality(R) : pick(k) \in R /\ NumRank(R, pick(k)) = k
  <2> TAKE k \in 1..Cardinality(R)
  <2>1. \E i \in R : P(k, i)
    BY <1>4, <1>5
  <2>2. pick(k) \in R /\ P(k, pick(k))
    BY <2>1
  <2> QED BY <1>5, <2>2
<1> HIDE DEF pick
<1>8. \A i \in R : pick(NumRank(R, i)) = i
  BY <1>4, <1>7
<1> QED BY <1>4, <1>6, <1>7, <1>8

\* Two lists one after the other.
LEMMA Concatenation ==
    ASSUME NEW a \in Seq(Nat), NEW b \in Seq(Nat), NEW n, NEW m, Len(a) = n, Len(b) = m
    PROVE  /\ a \o b \in Seq(Nat) /\ Len(a \o b) = n + m
           /\ \A k \in 1..(n + m) : (a \o b)[k] = IF k <= n THEN a[k] ELSE b[k - n]
BY ConcatProperties

\* What REGISTER writes comes behind what was written before, in the order of
\* the numbers.
LEMMA ListGrows ==
    ASSUME NEW H, Apart(H), NEW R, IsFiniteSet(R), R \subseteq Nat, NEW c \in Conns,
           Cardinality(handed) \in Nat,
           \A h \in H : h.at <= Cardinality(handed)
    PROVE  InPlaces(H \cup HandOver(R, c)) = InPlaces(H) \o Promise!InOrder(R)
<1> DEFINE base == Cardinality(handed)
           rec(i) == [id |-> i, conn |-> c, at |-> base + NumRank(R, i)]
           new == HandOver(R, c)
           all == H \cup new
           n == Cardinality(H)
           m == Cardinality(R)
           f == [i \in R |-> rec(i)]
<1>0. new = {rec(i) : i \in R}
  BY DEF HandOver, NumRank
<1>1. /\ n \in Nat /\ m \in Nat
      /\ \A i \in R : NumRank(R, i) \in 1..m
      /\ \A i, j \in R : NumRank(R, i) = NumRank(R, j) => i = j
      /\ \A k \in 1..m : \E i \in R : NumRank(R, i) = k /\ Promise!InOrder(R)[k] = i
      /\ \A k \in 1..n : \E h \in H : AtRank(H, h) = k /\ InPlaces(H)[k] = h.id
  <2>1. /\ m \in Nat
        /\ \A i \in R : NumRank(R, i) \in 1..m /\ Promise!InOrder(R)[NumRank(R, i)] = i
        /\ \A i, j \in R : NumRank(R, i) = NumRank(R, j) => i = j
        /\ \A k \in 1..m : \E i \in R : NumRank(R, i) = k
    BY InOrderList
  <2>2. /\ n \in Nat
        /\ \A h \in H : InPlaces(H)[AtRank(H, h)] = h.id
        /\ \A k \in 1..n : \E h \in H : AtRank(H, h) = k
    BY InPlacesList
  <2> HIDE DEF n, m
  <2> QED BY <2>1, <2>2
<1>2. \A i \in R : rec(i).id = i /\ rec(i).at = base + NumRank(R, i)
  OBVIOUS
\* The places of the new ones: above all others, in the order of the numbers.
<1>3. \A i \in R : rec(i).at \in Nat /\ rec(i).at > base
  <2> HIDE DEF rec, m
  <2> QED BY <1>1, <1>2
<1>4. \A i, j \in R : i <= j => NumRank(R, i) <= NumRank(R, j)
  <2> TAKE i, j \in R
  <2> HAVE i <= j
  <2> DEFINE U == {k \in R : k <= i}
             V == {k \in R : k <= j}
  <2>1. U \subseteq V
    <3> SUFFICES ASSUME NEW k \in R, k <= i PROVE k <= j
      OBVIOUS
    <3>1. i \in Nat /\ j \in Nat /\ k \in Nat
      OBVIOUS
    <3> QED BY <3>1
  <2>2. IsFiniteSet(V)
    BY FS_Subset, V \subseteq R
  <2>3. NumRank(R, i) = Cardinality(U) /\ NumRank(R, j) = Cardinality(V)
    BY DEF NumRank
  <2> HIDE DEF U, V
  <2> QED BY <2>1, <2>2, <2>3, FS_Subset
<1>5. \A i, j \in R : rec(i).at <= rec(j).at <=> i <= j
  <2> SUFFICES ASSUME NEW i \in R, NEW j \in R PROVE rec(i).at <= rec(j).at <=> i <= j
    OBVIOUS
  <2>1. NumRank(R, i) \in Nat /\ NumRank(R, j) \in Nat /\ base \in Nat
    BY <1>1
  <2>2. rec(i).at <= rec(j).at <=> NumRank(R, i) <= NumRank(R, j)
    <3> HIDE DEF rec
    <3> QED BY <1>2, <2>1
  <2>3. i \in Nat /\ j \in Nat
    OBVIOUS
  <2>4. CASE i <= j
    BY <1>4, <2>2, <2>4
  <2>5. CASE ~(i <= j)
    <3>1. j <= i /\ i # j
      BY <2>3, <2>5
    <3>2. NumRank(R, j) <= NumRank(R, i) /\ NumRank(R, j) # NumRank(R, i)
      BY <1>1, <1>4, <3>1
    <3>3. ~(NumRank(R, i) <= NumRank(R, j))
      BY <2>1, <3>2
    <3> QED BY <2>2, <2>5, <3>3
  <2> QED BY <2>4, <2>5
<1>6. \A i, j \in R : rec(i) = rec(j) => i = j
  BY <1>2
<1>7. H \cap new = {}
  <2> SUFFICES ASSUME NEW i \in R, rec(i) \in H PROVE FALSE
    <3> HIDE DEF rec
    <3> QED BY <1>0
  <2>1. rec(i).at <= base /\ rec(i).at > base /\ rec(i).at \in Nat
    BY <1>3
  <2> QED BY <2>1
\* A part of the new ones is as large as the part of R.
<1>8. ASSUME NEW T \in SUBSET R
      PROVE  /\ IsFiniteSet(H \cup {rec(i) : i \in T})
             /\ Cardinality(H \cup {rec(i) : i \in T}) = n + Cardinality(T)
  <2> DEFINE I == {rec(i) : i \in T}
  <2>1. IsFiniteSet(T) /\ Cardinality(T) \in Nat
    BY FS_Subset, FS_CardinalityType
  <2>2. I = {f[i] : i \in T}
    OBVIOUS
  <2>3. \A i, j \in T : f[i] = f[j] => i = j
    BY <1>6
  <2> HIDE DEF f
  <2>4. IsFiniteSet(I) /\ Cardinality(I) = Cardinality(T)
    <3>1. /\ IsFiniteSet({f[i] : i \in T})
          /\ Cardinality({f[i] : i \in T}) = Cardinality(T)
      BY <2>1, <2>3, ImageSize, Zenon
    <3> QED BY <2>2, <3>1
  <2>5. I \subseteq new
    BY <1>0
  <2> HIDE DEF I, new
  <2>6. H \cap I = {}
    BY <1>7, <2>5
  <2>7. /\ IsFiniteSet(H \cup I)
        /\ Cardinality(H \cup I) = Cardinality(H) + Cardinality(I) - Cardinality(H \cap I)
    BY <2>4, FS_Union DEF Apart
  <2>8. Cardinality(H \cap I) = 0
    BY <2>6, FS_EmptySet
  <2> QED BY <1>1, <2>1, <2>4, <2>7, <2>8 DEF I
<1>9. IsFiniteSet(all) /\ Cardinality(all) = n + m
  BY <1>0, <1>8
<1> HIDE DEF rec, f, new
<1>10. Apart(all)
  <2>1. \A h \in all : h.id \in Nat /\ h.at \in Nat
    BY <1>0, <1>2, <1>3 DEF Apart
  <2>2. ASSUME NEW g \in all, NEW h \in all, g.at = h.at PROVE g = h
    <3>1. CASE g \in H /\ h \in H
      BY <2>2, <3>1 DEF Apart
    <3>2. CASE g \in new /\ h \in new
      <4>1. PICK i \in R : g = rec(i)
        BY <1>0, <3>2
      <4>2. PICK j \in R : h = rec(j)
        BY <1>0, <3>2
      <4>3. base + NumRank(R, i) = base + NumRank(R, j)
        BY <1>2, <2>2, <4>1, <4>2
      <4>4. NumRank(R, i) = NumRank(R, j)
        BY <1>1, <4>3
      <4> QED BY <1>1, <4>1, <4>2, <4>4
    <3>3. \A x \in H, y \in new : x.at # y.at
      <4> SUFFICES ASSUME NEW x \in H, NEW i \in R PROVE x.at # rec(i).at
        BY <1>0
      <4>1. x.at \in Nat /\ x.at <= base /\ rec(i).at > base /\ rec(i).at \in Nat
        BY <1>3 DEF Apart
      <4> QED BY <4>1
    <3> QED BY <2>2, <3>1, <3>2, <3>3
  <2> QED BY <1>9, <2>1, <2>2 DEF Apart
\* An old one keeps its rank, a new one has its own behind them.
<1>11. ASSUME NEW h \in H PROVE AtRank(all, h) = AtRank(H, h)
  <2>1. ASSUME NEW i \in R PROVE ~(rec(i).at <= h.at)
    <3>1. h.at \in Nat /\ h.at <= base /\ rec(i).at > base /\ rec(i).at \in Nat
      BY <1>3 DEF Apart
    <3> QED BY <3>1
  <2>2. {g \in all : g.at <= h.at} = {g \in H : g.at <= h.at}
    BY <1>0, <2>1
  <2> QED BY <2>2 DEF AtRank
<1>12. ASSUME NEW i \in R PROVE AtRank(all, rec(i)) = n + NumRank(R, i)
  <2> DEFINE T == {j \in R : j <= i}
  <2>1. \A h \in H : h.at <= rec(i).at
    <3> TAKE h \in H
    <3>1. h.at \in Nat /\ h.at <= base /\ rec(i).at > base /\ rec(i).at \in Nat
      BY <1>3 DEF Apart
    <3> QED BY <3>1
  <2>2. {g \in all : g.at <= rec(i).at} = H \cup {rec(j) : j \in T}
    BY <1>0, <1>5, <2>1
  <2>3. T \in SUBSET R /\ NumRank(R, i) = Cardinality(T)
    BY DEF NumRank
  <2> HIDE DEF T
  <2>4. Cardinality(H \cup {rec(j) : j \in T}) = n + Cardinality(T)
    BY <1>8, <2>3
  <2> QED BY <2>2, <2>3, <2>4 DEF AtRank
<1> DEFINE old == InPlaces(H)
           add == Promise!InOrder(R)
           res == InPlaces(all)
<1>13. /\ old \in Seq(Nat) /\ Len(old) = n
       /\ add \in Seq(Nat) /\ Len(add) = m
       /\ res \in Seq(Nat) /\ Len(res) = n + m
       /\ \A h \in all : res[AtRank(all, h)] = h.id
  BY <1>9, <1>10, InPlacesList, InOrderList
<1>14. /\ old \o add \in Seq(Nat) /\ Len(old \o add) = n + m
       /\ \A k \in 1..(n + m) : (old \o add)[k] = IF k <= n THEN old[k] ELSE add[k - n]
  <2> HIDE DEF old, add, res, n, m
  <2> QED BY <1>13, Concatenation, SMTT(30)
<1>15. ASSUME NEW k \in 1..(n + m) PROVE res[k] = (old \o add)[k]
  <2> HIDE DEF n, m
  <2>1. CASE k <= n
    <3>1. k \in 1..n
      BY <1>1, <2>1
    <3>2. PICK h \in H : AtRank(H, h) = k /\ old[k] = h.id
      BY <1>1, <3>1
    <3> HIDE DEF old, add, res
    <3>3. res[k] = h.id
      BY <1>11, <1>13, <3>2
    <3> QED BY <1>14, <2>1, <3>2, <3>3
  <2>2. CASE ~(k <= n)
    <3>1. k - n \in 1..m
      BY <1>1, <2>2
    <3>2. PICK i \in R : NumRank(R, i) = k - n /\ add[k - n] = i
      BY <1>1, <3>1
    <3> HIDE DEF old, add, res
    <3>3. n + NumRank(R, i) = k
      BY <1>1, <3>2
    <3>4. rec(i) \in all /\ rec(i).id = i
      BY <1>0, <1>2
    <3>5. res[k] = i
      BY <1>12, <1>13, <3>3, <3>4
    <3> QED BY <1>14, <2>2, <3>2, <3>5
  <2> QED BY <2>1, <2>2
<1> HIDE DEF old, add, res, all
<1>16. res = old \o add
  BY <1>13, <1>14, <1>15, SeqEqual
<1> QED BY <1>16 DEF old, add, res, all, new

-----------------------------------------------------------------------------
(* The steps.                                                              *)

LEMMA PostedList ==
    ASSUME MailTypeOK
    PROVE  /\ Posted \in Seq(Services) /\ Len(Posted) = Len(msgs) /\ Len(msgs) \in Nat
           /\ \A i \in 1..Len(msgs) : Posted[i] = Dest(i)
<1>1. DOMAIN msgs = 1..Len(msgs) /\ Len(msgs) \in Nat
  BY DEF MailTypeOK
<1>2. \A i \in 1..Len(msgs) : Dest(i) \in Services
  BY DestType
<1> QED BY <1>1, <1>2 DEF Posted

\* The box of s holds what a REGISTER of s is given.
LEMMA BoxMatches ==
    ASSUME IInv, NEW s \in Services
    PROVE  Promise!Box(s) = Matching(s)
<1>1. \A e \in cache : e.id \in 1..Len(msgs) /\ Posted[e.id] = Dest(e.id)
  BY PostedList DEF IInv, MailInv, MailTypeOK
<1> QED BY <1>1 DEF Promise!Box, Waiting, Matching

\* The writes to one service have places of their own.
LEMMA HandedApart ==
    ASSUME IInv, NEW s \in Services
    PROVE  /\ Apart(HandedTo(s))
           /\ Cardinality(handed) \in Nat
           /\ \A h \in HandedTo(s) : h.at <= Cardinality(handed)
<1>1. IsFiniteSet(handed) /\ handed \subseteq Handed /\ Cardinality(handed) \in Nat
  BY FS_CardinalityType DEF IInv, MailInv, Places, MailTypeOK
<1>2. HandedTo(s) \subseteq handed /\ \A h \in HandedTo(s) : Dest(h.id) = s
  BY DEF HandedTo
<1>3. IsFiniteSet(HandedTo(s))
  BY <1>1, <1>2, FS_Subset
<1>4. \A h \in HandedTo(s) : h.id \in Nat /\ h.at \in Nat /\ h.at <= Cardinality(handed)
  BY <1>1, <1>2 DEF Handed, IInv, MailInv, Places
<1>5. ASSUME NEW g \in HandedTo(s), NEW h \in HandedTo(s), g.at = h.at PROVE g = h
  <2>1. Dest(g.id) = Dest(h.id) /\ g \in handed /\ h \in handed
    BY <1>2
  <2>2. ~(g.id < h.id) /\ ~(h.id < g.id)
    BY <1>4, <1>5, <2>1 DEF IInv, MailInv, Fifo
  <2>3. g.id = h.id
    BY <1>4, <2>2
  <2> QED BY <2>1, <2>3 DEF IInv, MailInv, AtMostOnce
<1> QED BY <1>1, <1>3, <1>4, <1>5 DEF Apart

LEMMA GotKept ==
    ASSUME handed' = handed, \A h \in handed : Dest(h.id)' = Dest(h.id)
    PROVE  Got' = Got
<1>1. \A s : HandedTo(s)' = HandedTo(s)
  BY DEF HandedTo
<1>2. \A s : InPlaces(HandedTo(s))' = InPlaces(HandedTo(s)')
  BY DEF InPlaces
<1> QED BY <1>1, <1>2 DEF Got

\* Messages written for s, in the order of their numbers, join what s got.
LEMMA GotGrows ==
    ASSUME IInv, NEW s \in Services, NEW R, IsFiniteSet(R), R \subseteq Nat, NEW c \in Conns,
           handed' = handed \cup HandOver(R, c),
           \A i \in R : Dest(i)' = s,
           \A h \in handed : Dest(h.id)' = Dest(h.id)
    PROVE  Got' = [Got EXCEPT ![s] = @ \o Promise!InOrder(R)]
<1> DEFINE new == HandOver(R, c)
<1>1. \A h \in new : Dest(h.id)' = s
  BY HandOverIds
<1> HIDE DEF new
<1>2. HandedTo(s)' = HandedTo(s) \cup new
  BY <1>1 DEF HandedTo, new
<1>3. \A t \in Services : t # s => HandedTo(t)' = HandedTo(t)
  BY <1>1 DEF HandedTo, new
<1>4. InPlaces(HandedTo(s) \cup new) = InPlaces(HandedTo(s)) \o Promise!InOrder(R)
  BY HandedApart, ListGrows DEF new
<1>5. \A t : InPlaces(HandedTo(t))' = InPlaces(HandedTo(t)')
  BY DEF InPlaces
<1>6. InPlaces(HandedTo(s))' = InPlaces(HandedTo(s)) \o Promise!InOrder(R)
  BY <1>2, <1>4, <1>5
<1>7. \A t \in Services : t # s => InPlaces(HandedTo(t))' = InPlaces(HandedTo(t))
  BY <1>3, <1>5
<1> QED BY <1>6, <1>7 DEF Got

\* One message is its own order.
LEMMA Single == ASSUME NEW i \in Nat PROVE Promise!InOrder({i}) = <<i>>
<1>1. IsFiniteSet({i}) /\ Cardinality({i}) = 1
  BY FS_Singleton
<1>2. /\ Promise!InOrder({i}) \in Seq(Nat) /\ Len(Promise!InOrder({i})) = 1
      /\ NumRank({i}, i) \in 1..1
      /\ Promise!InOrder({i})[NumRank({i}, i)] = i
  BY <1>1, InOrderList
<1>3. NumRank({i}, i) = 1
  BY <1>2
<1> QED BY <1>2, <1>3

\* A REGISTER empties the box of the service.
LEMMA RegisterCollects ==
    ASSUME IInv, NEW c \in Conns, NEW s \in Services, MsgRegister(c, s)
    PROVE  Promise!Collect(s)
<1> DEFINE R == Matching(s)
<1>1. handed' = handed \cup HandOver(R, c) /\ cache' = Kept(s) /\ msgs' = msgs
  BY DEF MsgRegister
<1>2. \A i : Dest(i)' = Dest(i)
  BY <1>1 DEF Dest
<1>3. R \subseteq 1..Len(msgs) /\ \A i \in R : Dest(i) = s
  BY DEF Matching, IInv, MailInv, MailTypeOK
<1>4. R \subseteq Nat /\ IsFiniteSet(R)
  <2>1. Len(msgs) \in Nat
    BY DEF IInv, MailInv, MailTypeOK
  <2>2. IsFiniteSet(1..Len(msgs))
    BY <2>1, FS_Interval
  <2> QED BY <1>3, <2>1, <2>2, FS_Subset
<1> HIDE DEF R
<1>5. Got' = [Got EXCEPT ![s] = @ \o Promise!InOrder(R)]
  BY <1>1, <1>2, <1>3, <1>4, GotGrows
<1>6. R = Promise!Box(s)
  BY BoxMatches DEF R
<1>7. Waiting' \subseteq Waiting \ Promise!Box(s)
  <2>1. \A e \in cache' : e \in cache /\ Dest(e.id) # s
    BY <1>1 DEF Kept
  <2> QED BY <1>3, <1>6, <2>1 DEF Waiting
<1>8. Posted' = Posted
  BY <1>1, <1>2 DEF Posted
<1> QED BY <1>5, <1>6, <1>7, <1>8 DEF Promise!Collect

\* A message that comes in is posted, and delivered, kept or turned away.
LEMMA ForwardPosts ==
    ASSUME IInv, NEW from \in Conns, NEW in \in Inputs, ForwardMessage(from, in)
    PROVE  in.to \in Services
           /\ (Promise!Deliver(in.to) \/ Promise!Keep(in.to) \/ Promise!TurnAway(in.to))
<1>0. PICK i :
      /\ i = Len(msgs) + 1
      /\ msgs' = Append(msgs, [as |-> name[from], in |-> in])
      /\ \/ ForwardToService(i, from, in) \/ CacheMessage(i, in)
         \/ DropMessage(i, in) \/ RelayMessage(i, in)
  BY DEF ForwardMessage
<1>t. ConnTypeOK /\ MailTypeOK
  BY DEF IInv, MailInv
<1>1. /\ Len(msgs) \in Nat /\ Len(msgs)' = i /\ msgs' \in Seq(Message)
      /\ \A j \in 1..Len(msgs) : msgs'[j] = msgs[j]
      /\ msgs'[i].in = in /\ in \in Input
  BY <1>0, <1>t, NewMessage
<1>2. /\ i \in Nat /\ \A j \in 1..Len(msgs) : Dest(j)' = Dest(j)
      /\ Dest(i)' = in.to /\ in.to \in Services
  BY <1>0, <1>1 DEF Dest, Input
<1>3. \A h \in handed : Dest(h.id)' = Dest(h.id)
  BY <1>2, <1>t DEF MailTypeOK
<1>4. Posted' = Append(Posted, in.to) /\ Len(Posted') = i
  <2>1. DOMAIN msgs' = 1..(Len(msgs) + 1) /\ Len(msgs)' = i
    BY <1>0, <1>1
  <2>2. Posted' = [j \in 1..(Len(msgs) + 1) |-> Dest(j)']
    BY <2>1 DEF Posted
  <2>3. \A j \in 1..(Len(msgs) + 1) :
          Dest(j)' = IF j <= Len(msgs) THEN Posted[j] ELSE in.to
    BY <1>0, <1>1, <1>2, <1>t, PostedList
  <2>4. Posted \in Seq(Services) /\ Len(Posted) = Len(msgs)
    BY <1>t, PostedList
  <2> QED BY <1>0, <1>1, <1>2, <2>2, <2>3, <2>4
<1>5. ASSUME UNCHANGED handed PROVE Got' = Got
  BY <1>3, <1>5, GotKept
<1>6. CASE UNCHANGED <<handed, cache>>
  BY <1>2, <1>4, <1>5, <1>6 DEF Promise!TurnAway, Waiting
<1>7. CASE ForwardToService(i, from, in)
  <2>1. PICK c \in Named(in.to) :
          handed' = IF c = from THEN handed ELSE handed \cup HandOver({i}, c)
    BY <1>7 DEF ForwardToService
  <2>2. cache' = cache /\ c \in Conns
    BY <1>7 DEF ForwardToService, Named
  <2>3. CASE c = from
    BY <1>6, <2>1, <2>2, <2>3
  <2>4. CASE c # from
    <3>1. IsFiniteSet({i}) /\ {i} \subseteq Nat
      BY <1>2, FS_Singleton
    <3>2. Got' = [Got EXCEPT ![in.to] = @ \o Promise!InOrder({i})]
      BY <1>2, <1>3, <2>1, <2>2, <2>4, <3>1, GotGrows
    <3>3. Got[in.to] \in Seq(Nat)
      BY <1>2, HandedApart, InPlacesList DEF Got
    <3>4. Got[in.to] \o <<i>> = Append(Got[in.to], i)
      BY <1>2, <3>3
    <3>5. Got' = [Got EXCEPT ![in.to] = Append(@, Len(Posted'))]
      BY <1>2, <1>4, <3>2, <3>4, Single
    <3>6. Promise!Box(in.to) = {}
      \* nothing is cached for a name that is taken
      <4>1. Matching(in.to) = {}
        BY DEF Matching, IInv, CacheOnlyWhenDown
      <4> QED BY <1>2, <4>1, BoxMatches
    <3> QED BY <1>2, <1>4, <2>2, <3>5, <3>6 DEF Promise!Deliver, Waiting
  <2> QED BY <2>3, <2>4
<1>8. CASE CacheMessage(i, in)
  <2>1. cache' = (IF in.no THEN cache ELSE cache \cup {CacheEntry(i, in)}) /\ handed' = handed
    BY <1>8 DEF CacheMessage
  <2>2. CASE in.no
    BY <1>6, <2>1, <2>2
  <2>3. CASE ~in.no
    <3>1. Waiting' = Waiting \cup {Len(Posted')}
      <4>1. CacheEntry(i, in).id = i
        BY DEF CacheEntry
      <4>2. cache' = cache \cup {CacheEntry(i, in)}
        BY <2>1, <2>3
      <4> QED BY <1>4, <4>1, <4>2 DEF Waiting
    <3> QED BY <1>2, <1>4, <1>5, <2>1, <3>1 DEF Promise!Keep
  <2> QED BY <2>2, <2>3
<1>9. CASE DropMessage(i, in) \/ RelayMessage(i, in)
  BY <1>6, <1>9 DEF DropMessage, RelayMessage
<1> QED BY <1>0, <1>2, <1>7, <1>8, <1>9

LEMMA StartsEmpty == Init => Promise!Init
<1> SUFFICES ASSUME Init PROVE Promise!Init
  OBVIOUS
<1>1. Posted = <<>> /\ Waiting = {}
  BY DEF Init, Posted, Waiting
<1>2. \A s : HandedTo(s) = {}
  BY DEF Init, HandedTo
<1>3. InPlaces({}) = <<>>
  BY FS_EmptySet DEF InPlaces
<1> QED BY <1>1, <1>2, <1>3 DEF Promise!Init, Got

LEMMA StepsMap == IInv /\ [Next]_vars => [Promise!Next]_Promise!vars
<1> SUFFICES ASSUME IInv, [Next]_vars PROVE [Promise!Next]_Promise!vars
  OBVIOUS
<1>1. ASSUME UNCHANGED mailVars PROVE UNCHANGED Promise!vars
  <2>1. \A i : Dest(i)' = Dest(i)
    BY <1>1 DEF mailVars, Dest
  <2>2. Got' = Got
    BY <1>1, <2>1, GotKept DEF mailVars
  <2> QED BY <1>1, <2>1, <2>2 DEF Promise!vars, mailVars, Posted, Waiting
<1>2. ASSUME NEW c \in Conns, NEW s \in Services, MsgRegister(c, s) PROVE Promise!Next
  BY <1>2, RegisterCollects DEF Promise!Next
<1>3. ASSUME NEW c \in Conns, NEW in \in Inputs, ForwardMessage(c, in) PROVE Promise!Next
  BY <1>3, ForwardPosts DEF Promise!Next
<1>4. ASSUME NEW c \in Conns,
             ProcessAccept(c) \/ MsgCommands(c) \/ MsgUnregister(c) \/ ClientGone(c) \/ ProcessHup(c)
      PROVE  UNCHANGED mailVars
  BY <1>4 DEF ProcessAccept, MsgCommands, MsgUnregister, ClientGone, ProcessHup, Removed
<1>5. ASSUME (\E p \in Servers : PeerChange(p)) \/ Tick \/ UNCHANGED vars PROVE UNCHANGED mailVars
  BY <1>5 DEF PeerChange, Tick, vars, mailVars
<1> QED BY <1>1, <1>2, <1>3, <1>4, <1>5 DEF Next

\* The daemon keeps the promise of the mailbox.
THEOREM MailboxImplemented == Spec => ImplementsMailbox
BY Invariance, StartsEmpty, StepsMap, PTL DEF Spec, ImplementsMailbox, Promise!Spec

=============================================================================
