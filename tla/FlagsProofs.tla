------------------------------ MODULE FlagsProofs ------------------------------
(***************************************************************************)
(* Proofs about Flags, for any number of flags, processes, saves, permanent *)
(* connections and restarts.                                               *)
(***************************************************************************)
EXTENDS Flags, FiniteSetTheorems, TLAPS

AtWorkRec == [flag: Flag, up: BOOLEAN, extras: BOOLEAN, save: 1..MaxSaves,
              step: {"start", "write"}, seen: File \cup {None}]
AskedRec  == [ups: Nat, up: BOOLEAN, refused: BOOLEAN]
ScanRec   == [step: {"none", "load", "done", "failed"}, names: SUBSET Flags,
              got: SUBSET Flags, many: BOOLEAN, ever: SUBSET Flags, always: SUBSET Flags]

\* The types that the proofs need beyond those of TypeOK.
Types ==
    /\ TypeOK
    /\ jobs \in [Job -> AtWorkRec \cup {None}]
    /\ waits = [p \in Service |-> waits[p]]
    /\ asked \in [Flags -> AskedRec]
    /\ since \in [Flags -> SUBSET (1..saves)]
    /\ scan \in ScanRec
    /\ \A j \in AtWork : jobs[j].step = "write" => jobs[j].up

\* The jobs at work on f, and those that will write its file.
OnFlag(f)  == {j \in AtWork : jobs[j].flag = f}
Pending(f) == {j \in OnFlag(f) : jobs[j].up}

CountIn(file) == IF file = None THEN 0 ELSE file.count

\* What the file counts, or what a job is about to write over it, leaves room for
\* all the jobs that have not written yet. NotOverCounted alone says nothing of
\* a job that read the file long ago.
CountAt(f) ==
    /\ CountIn(dir[f]) + Cardinality(Pending(f)) <= asked[f].ups
    /\ \A j \in OnFlag(f) : jobs[j].step = "write" =>
         CountIn(jobs[j].seen) + Cardinality(Pending(f)) <= asked[f].ups

\* A flag whose saves did not overlap: one job at most, which has the file as it
\* is, is younger than all that wrote it, and does what was asked last.
ExactAt(f) ==
    /\ \A i, j \in OnFlag(f) : i = j
    /\ dir[f] = None <=> since[f] = {}
    /\ dir[f] # None => /\ dir[f].count = Cardinality(since[f])
                        /\ dir[f].date \in since[f]
                        /\ \A s \in since[f] : dir[f].date <= s
    /\ \A j \in OnFlag(f) : /\ jobs[j].step = "write" => jobs[j].seen = dir[f]
                            /\ \A s \in since[f] : s < jobs[j].save
                            /\ asked[f].up = jobs[j].up /\ ~asked[f].refused
    /\ f \in Flag /\ OnFlag(f) = {} /\ ~asked[f].refused => (dir[f] # None <=> asked[f].up)

\* load_flags() has yet to read what it did not return of the flags up all along.
ScanOK ==
    /\ scan.step = "load" => /\ scan.names \cup scan.got \subseteq scan.ever
                             /\ scan.always \subseteq scan.names \cup scan.got
    /\ ListSound

\* The inductive invariant.
IInv == /\ Types
        /\ \A f \in Flags : CountAt(f)
        /\ \A f \in Flags \ mixed : ExactAt(f)
        /\ ScanOK
        /\ ConnFlagCleared

-----------------------------------------------------------------------------
(* Lemmas.                                                                 *)

LEMMA NotNone == None \notin File /\ None \notin AtWorkRec
<1>1. ASSUME NEW x \in File PROVE x # None
  BY <1>1 DEF File, None
<1>2. ASSUME NEW x \in AtWorkRec PROVE x # None
  BY <1>2 DEF AtWorkRec, None
<1> QED BY <1>1, <1>2

LEMMA JobsFinite == \A f : IsFiniteSet(OnFlag(f)) /\ IsFiniteSet(Pending(f))
                              /\ Cardinality(Pending(f)) \in Nat
<1> TAKE f
<1>1. OnFlag(f) \subseteq Job /\ Pending(f) \subseteq Job
  BY DEF OnFlag, Pending, AtWork
<1> QED BY <1>1, JobAssumption, FS_Subset, FS_CardinalityType

\* What a step that leaves f alone keeps.
Untouched(f) ==
    /\ dir'[f] = dir[f] /\ since'[f] = since[f] /\ asked'[f] = asked[f]
    /\ OnFlag(f)' = OnFlag(f)
    /\ \A j \in OnFlag(f) : jobs'[j] = jobs[j]

LEMMA FlagKept ==
    ASSUME NEW f \in Flags, Untouched(f)
    PROVE  (CountAt(f) => CountAt(f)') /\ (ExactAt(f) => ExactAt(f)')
<1>1. Pending(f)' = Pending(f)
  BY DEF Untouched, Pending
<1>2. CountAt(f) => CountAt(f)'
  BY <1>1 DEF Untouched, CountAt
<1>3. ExactAt(f) => ExactAt(f)'
  BY DEF Untouched, ExactAt
<1> QED BY <1>2, <1>3

\* One job changes: it starts, goes on or ends.
LEMMA OneJob ==
    ASSUME Types, NEW j \in Job, NEW x \in AtWorkRec \cup {None}, jobs' = [jobs EXCEPT ![j] = x]
    PROVE  /\ jobs' \in [Job -> AtWorkRec \cup {None}]
           /\ AtWork' = IF x = None THEN AtWork \ {j} ELSE AtWork \cup {j}
           /\ \A k \in AtWork : k # j => jobs'[k] = jobs[k]
           /\ jobs'[j] = x
           /\ \A f : OnFlag(f)' = (OnFlag(f) \ {j})
                          \cup (IF x # None /\ x.flag = f THEN {j} ELSE {})
<1>1. jobs \in [Job -> AtWorkRec \cup {None}]
  BY DEF Types
<1>2. /\ jobs' \in [Job -> AtWorkRec \cup {None}] /\ jobs'[j] = x
      /\ \A k \in Job : k # j => jobs'[k] = jobs[k]
  BY <1>1
<1>3. AtWork' = IF x = None THEN AtWork \ {j} ELSE AtWork \cup {j}
  BY <1>2 DEF AtWork
<1>4. \A k \in AtWork : k # j => jobs'[k] = jobs[k]
  BY <1>2 DEF AtWork
<1>5. \A f : OnFlag(f)' = (OnFlag(f) \ {j}) \cup (IF x # None /\ x.flag = f THEN {j} ELSE {})
  BY <1>2, <1>3, <1>4 DEF OnFlag
<1> QED BY <1>2, <1>3, <1>4, <1>5

\* A save in between adds to the flags that were up, or takes one of those up
\* all along away.
LEMMA ScanKept ==
    ASSUME scan \in ScanRec, ScanOK, NEW f \in Flags,
           \/ scan' = scan
           \/ scan' = [scan EXCEPT !.ever = @ \cup {f}]
           \/ scan' = [scan EXCEPT !.always = @ \ {f}]
    PROVE  scan' \in ScanRec /\ ScanOK'
<1>1. scan' \in ScanRec
  BY DEF ScanRec
<1>2. /\ scan'.step = scan.step /\ scan'.names = scan.names /\ scan'.got = scan.got
      /\ scan'.many = scan.many /\ scan.ever \subseteq scan'.ever
      /\ scan'.always \subseteq scan.always
  BY DEF ScanRec
<1>3. ScanOK'
  BY <1>2 DEF ScanOK, ListSound
<1> QED BY <1>1, <1>3

\* A job is at work on the flag of a service.
LEMMA JobFlags ==
    ASSUME Types, NEW j \in AtWork
    PROVE  jobs[j] \in AtWorkRec /\ jobs[j].flag \in Flag /\ jobs[j].flag # ConnFlag
           /\ jobs[j].flag \in Flags
<1>1. jobs[j] \in AtWorkRec
  BY DEF Types, AtWork
<1>2. jobs[j].flag \in Flag
  BY <1>1 DEF AtWorkRec
<1> QED BY <1>1, <1>2, FlagAssumption DEF Flags

LEMMA SaveStep ==
    ASSUME IInv, NEW p \in Service, NEW f \in Flag, NEW up \in BOOLEAN, NEW extras \in BOOLEAN,
           Save(p, f, up, extras)
    PROVE  IInv'
<1>t. Types /\ f \in Flags /\ saves \in Nat /\ saves \in 0..MaxSaves /\ MaxSaves \in Nat
  BY LimitAssumption DEF IInv, Types, TypeOK, Flags
<1>1. /\ saves < MaxSaves /\ saves' = saves + 1
      /\ asked' = [asked EXCEPT ![f] = [ups |-> asked[f].ups + (IF up THEN 1 ELSE 0),
                                         up |-> up, refused |-> FALSE]]
      /\ mixed' = IF Busy(f) THEN mixed \cup {f} ELSE mixed
      /\ UNCHANGED <<dir, conn, scan, restarts, since>>
  BY DEF Save
<1>2. /\ asked' \in [Flags -> AskedRec]
      /\ asked'[f].ups = asked[f].ups + (IF up THEN 1 ELSE 0)
      /\ asked[f].ups \in Nat
      /\ asked'[f].up = up /\ asked'[f].refused = FALSE
      /\ \A g \in Flags : g # f => asked'[g] = asked[g]
  <2>1. asked \in [Flags -> AskedRec] /\ asked[f].ups \in Nat
    BY <1>t DEF Types, AskedRec
  <2>2. [ups |-> asked[f].ups + (IF up THEN 1 ELSE 0), up |-> up, refused |-> FALSE] \in AskedRec
    BY <2>1 DEF AskedRec
  <2> QED BY <1>1, <1>t, <2>1, <2>2
<1>3. /\ saves' \in 0..MaxSaves /\ since' \in [Flags -> SUBSET (1..saves')]
      /\ (\A j \in AtWork : jobs[j].save \in 1..saves')
      /\ (\A s \in 1..saves : s < saves' /\ s \in 1..saves')
  <2>1. saves' \in 0..MaxSaves /\ 1..saves \subseteq 1..saves' /\ \A s \in 1..saves : s < saves'
    BY <1>1, <1>t
  <2> QED BY <1>1, <1>t, <2>1 DEF Types, TypeOK
<1>4. mixed' \subseteq Flag /\ mixed \subseteq mixed' /\ (f \notin mixed' => OnFlag(f) = {} /\ f \notin mixed)
  BY <1>1, <1>t DEF Types, TypeOK, Busy, OnFlag
<1>5. ScanOK' /\ ConnFlagCleared'
  BY <1>1 DEF IInv, ScanOK, ListSound, ConnFlagCleared, Up
\* Nothing to do: no file, and no job.
<1>6. CASE NothingToDo(p, f, up) /\ UNCHANGED <<jobs, waits>>
  <2>1. Types'
    BY <1>1, <1>2, <1>3, <1>4, <1>6, <1>t DEF Types, TypeOK, AtWork
  <2>2. \A g : OnFlag(g)' = OnFlag(g)
    BY <1>6 DEF OnFlag, AtWork
  <2>3. \A g \in Flags : g # f => Untouched(g)
    BY <1>1, <1>2, <1>6, <2>2 DEF Untouched
  <2>4. ~up /\ dir[f] = None
    BY <1>6 DEF NothingToDo
  <2>5. CountAt(f)'
    <3>1. Pending(f)' = Pending(f)
      BY <1>6, <2>2 DEF Pending
    <3> QED BY <1>1, <1>2, <1>6, <1>t, <2>2, <2>4, <3>1 DEF IInv, CountAt
  <2>6. f \notin mixed' => ExactAt(f)'
    BY <1>1, <1>2, <1>4, <1>t, <2>2, <2>4 DEF IInv, ExactAt
  <2> QED BY <1>4, <1>5, <1>t, <2>1, <2>3, <2>5, <2>6, FlagKept DEF IInv
<1>7. CASE \E j \in Job :
             /\ jobs[j] = None
             /\ jobs' = [jobs EXCEPT ![j] =
                  [flag |-> f, up |-> up, extras |-> extras /\ p \notin Writers,
                   save |-> saves', step |-> "start", seen |-> None]]
             /\ waits' = IF p \in Looping THEN waits ELSE [waits EXCEPT ![p] = j]
  <2>1. PICK j \in Job :
             /\ jobs[j] = None
             /\ jobs' = [jobs EXCEPT ![j] =
                  [flag |-> f, up |-> up, extras |-> extras /\ p \notin Writers,
                   save |-> saves', step |-> "start", seen |-> None]]
             /\ waits' = IF p \in Looping THEN waits ELSE [waits EXCEPT ![p] = j]
    BY <1>7
  <2>x. PICK x : x = [flag |-> f, up |-> up, extras |-> extras /\ p \notin Writers,
                   save |-> saves + 1, step |-> "start", seen |-> None]
    OBVIOUS
  <2>2. /\ x \in AtWorkRec /\ x # None /\ x.flag = f /\ x.up = up /\ x.step = "start"
        /\ x.save = saves' /\ x.seen = None
    <3>1. saves + 1 \in 1..MaxSaves
      BY <1>1, <1>t
    <3>2. x \in AtWorkRec
      BY <2>x, <3>1 DEF AtWorkRec
    <3> QED BY <1>1, <2>x, <3>2, NotNone
  <2>3. /\ jobs' \in [Job -> AtWorkRec \cup {None}] /\ jobs'[j] = x
        /\ AtWork' = AtWork \cup {j} /\ j \notin AtWork
        /\ \A k \in AtWork : jobs'[k] = jobs[k]
        /\ \A g : OnFlag(g)' = (OnFlag(g) \ {j}) \cup (IF g = f THEN {j} ELSE {})
    <3>1. jobs' = [jobs EXCEPT ![j] = x]
      BY <1>1, <2>1, <2>x
    <3>2. j \notin AtWork
      BY <2>1 DEF AtWork
    <3>3. /\ jobs' \in [Job -> AtWorkRec \cup {None}] /\ jobs'[j] = x
          /\ AtWork' = IF x = None THEN AtWork \ {j} ELSE AtWork \cup {j}
          /\ \A k \in AtWork : k # j => jobs'[k] = jobs[k]
          /\ \A g : OnFlag(g)' = (OnFlag(g) \ {j})
                         \cup (IF x # None /\ x.flag = g THEN {j} ELSE {})
      BY <1>t, <2>2, <3>1, OneJob
    <3> QED BY <2>2, <3>2, <3>3
  <2>4. \A g : j \notin OnFlag(g)
    BY <2>3 DEF OnFlag
  <2>5. Types'
    <3>1. \A q \in Service : waits'[q] # None => waits'[q] \in AtWork'
      BY <1>t, <2>1, <2>3 DEF Types, TypeOK
    <3>2. waits' = [q \in Service |-> waits'[q]]
      BY <1>t, <2>1 DEF Types
    <3>3. \A k \in AtWork' : /\ jobs'[k].flag \in Flag /\ jobs'[k].save \in 1..saves'
                             /\ jobs'[k].seen \in File \cup {None}
                             /\ (jobs'[k].step = "write" => jobs'[k].up)
      BY <1>1, <1>3, <1>t, <2>2, <2>3 DEF Types, TypeOK
    <3>4. TypeOK'
      BY <1>1, <1>3, <1>4, <1>t, <3>1, <3>3 DEF Types, TypeOK
    <3> QED BY <1>1, <1>2, <1>3, <1>t, <2>3, <3>2, <3>3, <3>4 DEF Types
  <2>6. \A g \in Flags : g # f => Untouched(g)
    BY <1>1, <1>2, <2>3, <2>4 DEF Untouched, OnFlag
  <2>7. CountAt(f)'
    <3>1. Pending(f)' = IF up THEN Pending(f) \cup {j} ELSE Pending(f)
      BY <2>2, <2>3, <2>4 DEF Pending, OnFlag
    <3>2. j \notin Pending(f)
      BY <2>4 DEF Pending
    <3>3. Cardinality(Pending(f)') = Cardinality(Pending(f)) + (IF up THEN 1 ELSE 0)
      <4>1. IsFiniteSet(Pending(f)) /\ Cardinality(Pending(f)) \in Nat
        BY JobsFinite
      <4>2. Cardinality(Pending(f) \cup {j}) = Cardinality(Pending(f)) + 1
        BY <3>2, <4>1, FS_AddElement
      <4> QED BY <3>1, <4>1, <4>2
    <3>4. CountIn(dir[f]) \in Nat
      BY <1>t DEF Types, TypeOK, CountIn, File
    <3>5. CountIn(dir'[f]) + Cardinality(Pending(f)') <= asked'[f].ups
      BY <1>1, <1>2, <1>t, <3>3, <3>4, JobsFinite DEF IInv, CountAt
    <3>6. ASSUME NEW k \in OnFlag(f)', jobs'[k].step = "write"
          PROVE  CountIn(jobs'[k].seen) + Cardinality(Pending(f)') <= asked'[f].ups
      <4>1. k \in OnFlag(f) /\ jobs'[k] = jobs[k] /\ k \in AtWork
        BY <2>2, <2>3, <3>6 DEF OnFlag
      <4>2. CountIn(jobs[k].seen) \in Nat
        BY <1>t, <4>1 DEF Types, TypeOK, CountIn, File
      <4>3. CountIn(jobs[k].seen) + Cardinality(Pending(f)) <= asked[f].ups
        BY <1>t, <3>6, <4>1 DEF IInv, CountAt
      <4> QED BY <1>2, <3>3, <4>1, <4>2, <4>3, JobsFinite
    <3> QED BY <3>5, <3>6 DEF CountAt
  <2>8. ASSUME f \notin mixed' PROVE ExactAt(f)'
    <3>1. OnFlag(f)' = {j} /\ ExactAt(f)
      BY <1>4, <1>t, <2>3, <2>8 DEF IInv
    <3>2. \A s \in since'[f] : s < x.save
      BY <1>1, <1>3, <1>t, <2>2 DEF Types
    <3> QED BY <1>1, <1>2, <2>2, <2>3, <3>1, <3>2 DEF ExactAt
  <2> QED BY <1>4, <1>5, <2>5, <2>6, <2>7, <2>8, FlagKept DEF IInv
<1> QED BY <1>6, <1>7 DEF Save

-----------------------------------------------------------------------------
(* Jobs.                                                                   *)

\* A job that is over leaves nothing behind, and nobody waits for it.
LEMMA JobEnds ==
    ASSUME Types, NEW j \in AtWork, Done(j)
    PROVE  /\ jobs' = [jobs EXCEPT ![j] = None]
           /\ waits' = [p \in Service |-> waits'[p]]
           /\ \A p \in Service : waits'[p] # None => waits'[p] \in AtWork'
           /\ jobs' \in [Job -> AtWorkRec \cup {None}]
           /\ AtWork' = AtWork \ {j}
           /\ \A k \in AtWork' : k \in AtWork /\ jobs'[k] = jobs[k]
           /\ \A f : OnFlag(f)' = OnFlag(f) \ {j}
<1>1. jobs' = [jobs EXCEPT ![j] = None] /\ j \in Job
  BY DEF Done, AtWork
<1>2. /\ jobs' \in [Job -> AtWorkRec \cup {None}]
      /\ AtWork' = AtWork \ {j}
      /\ \A k \in AtWork : k # j => jobs'[k] = jobs[k]
      /\ \A f : OnFlag(f)' = OnFlag(f) \ {j}
  <2> PICK x : x = None
    OBVIOUS
  <2>1. /\ jobs' \in [Job -> AtWorkRec \cup {None}]
        /\ AtWork' = IF x = None THEN AtWork \ {j} ELSE AtWork \cup {j}
        /\ \A k \in AtWork : k # j => jobs'[k] = jobs[k]
        /\ \A f : OnFlag(f)' = (OnFlag(f) \ {j})
                       \cup (IF x # None /\ x.flag = f THEN {j} ELSE {})
    BY <1>1, OneJob
  <2> QED BY <2>1
<1>3. waits' = [p \in Service |-> IF waits[p] = j THEN None ELSE waits[p]]
  BY DEF Done
<1>4. \A p \in Service : waits'[p] # None => waits'[p] \in AtWork'
  BY <1>2, <1>3 DEF Types, TypeOK
<1> QED BY <1>1, <1>2, <1>3, <1>4

\* A job that wrote no longer takes part in the counts.
LEMMA PendingLess ==
    ASSUME NEW f, NEW j \in Pending(f), Pending(f)' = Pending(f) \ {j}
    PROVE  Cardinality(Pending(f)') = Cardinality(Pending(f)) - 1
BY JobsFinite, FS_RemoveElement

\* A job that takes its flag down, or may not.
LEMMA RefuseDownStep ==
    ASSUME IInv, NEW j \in Job, RefuseDown(j)
    PROVE  IInv'
<1> DEFINE f == jobs[j].flag
<1>t. Types
  BY DEF IInv
<1>1. /\ j \in AtWork /\ ~jobs[j].up /\ Done(j)
      /\ asked' = [asked EXCEPT ![f].refused = TRUE]
      /\ UNCHANGED <<dir, conn, scan, saves, restarts, since, mixed>>
  BY DEF RefuseDown
<1>2. f \in Flag /\ f \in Flags
  BY <1>1, <1>t, JobFlags
<1>3. PICK g : g = f
  OBVIOUS
<1> HIDE DEF f
<1>4. /\ waits' = [p \in Service |-> waits'[p]]
      /\ \A p \in Service : waits'[p] # None => waits'[p] \in AtWork'
      /\ jobs' \in [Job -> AtWorkRec \cup {None}]
      /\ AtWork' = AtWork \ {j}
      /\ \A k \in AtWork' : k \in AtWork /\ jobs'[k] = jobs[k]
      /\ \A h : OnFlag(h)' = OnFlag(h) \ {j}
  BY <1>1, <1>t, JobEnds
<1>5. /\ asked' \in [Flags -> AskedRec]
      /\ asked'[g].ups = asked[g].ups /\ asked'[g].refused
      /\ \A h \in Flags : h # g => asked'[h] = asked[h]
  BY <1>1, <1>2, <1>3, <1>t DEF Types, AskedRec
<1>6. Types'
  <2>1. TypeOK'
    BY <1>1, <1>4, <1>t DEF Types, TypeOK
  <2> QED BY <1>1, <1>4, <1>5, <1>t, <2>1 DEF Types
<1>7. ScanOK' /\ ConnFlagCleared'
  BY <1>1 DEF IInv, ScanOK, ListSound, ConnFlagCleared, Up
<1>8. j \in OnFlag(g) /\ \A h : h # g => j \notin OnFlag(h)
  BY <1>1, <1>3 DEF OnFlag, f
<1>9. \A h \in Flags : h # g => Untouched(h)
  BY <1>1, <1>4, <1>5, <1>8 DEF Untouched, OnFlag
<1>10. CountAt(g)'
  <2>1. Pending(g)' = Pending(g)
    BY <1>1, <1>4, <1>8 DEF Pending, OnFlag
  <2>2. \A k \in OnFlag(g)' : k \in OnFlag(g) /\ jobs'[k] = jobs[k]
    BY <1>4 DEF OnFlag
  <2> QED BY <1>1, <1>2, <1>3, <1>5, <2>1, <2>2 DEF IInv, CountAt
<1>11. ASSUME g \notin mixed PROVE ExactAt(g)'
  <2>1. ExactAt(g)
    BY <1>2, <1>3, <1>11 DEF IInv
  <2>2. OnFlag(g)' = {}
    BY <1>4, <1>8, <2>1 DEF ExactAt
  <2> QED BY <1>1, <1>5, <2>1, <2>2 DEF ExactAt
<1> QED BY <1>1, <1>6, <1>7, <1>9, <1>10, <1>11, FlagKept DEF IInv

LEMMA TakeDownStep ==
    ASSUME IInv, NEW j \in Job, TakeDown(j)
    PROVE  IInv'
<1>t. Types
  BY DEF IInv
<1>0. PICK g : g = jobs[j].flag
  OBVIOUS
<1>1. /\ j \in AtWork /\ ~jobs[j].up /\ Done(j)
      /\ dir' = [dir EXCEPT ![g] = None]
      /\ since' = [since EXCEPT ![g] = {}]
      /\ scan' = [scan EXCEPT !.always = @ \ {g}]
      /\ UNCHANGED <<conn, saves, restarts, asked, mixed>>
  BY <1>0 DEF TakeDown, RemoveFile
<1>2. g \in Flag /\ g \in Flags /\ g # ConnFlag
  BY <1>0, <1>1, <1>t, JobFlags
<1>4. /\ waits' = [p \in Service |-> waits'[p]]
      /\ \A p \in Service : waits'[p] # None => waits'[p] \in AtWork'
      /\ jobs' \in [Job -> AtWorkRec \cup {None}]
      /\ AtWork' = AtWork \ {j}
      /\ \A k \in AtWork' : k \in AtWork /\ jobs'[k] = jobs[k]
      /\ \A h : OnFlag(h)' = OnFlag(h) \ {j}
  BY <1>1, <1>t, JobEnds
<1>5. /\ dir' \in [Flags -> File \cup {None}] /\ dir'[g] = None
      /\ since' \in [Flags -> SUBSET (1..saves)] /\ since'[g] = {}
      /\ \A h \in Flags : h # g => dir'[h] = dir[h] /\ since'[h] = since[h]
  BY <1>1, <1>2, <1>t DEF Types, TypeOK
<1>6. scan' \in ScanRec /\ ScanOK'
  BY <1>1, <1>2, <1>t, ScanKept DEF IInv, Types
<1>7. Types'
  <2>1. TypeOK'
    BY <1>1, <1>4, <1>5, <1>6, <1>t DEF Types, TypeOK, ScanRec
  <2> QED BY <1>1, <1>4, <1>5, <1>6, <1>t, <2>1 DEF Types
<1>8. ConnFlagCleared'
  BY <1>1, <1>2, <1>5 DEF IInv, ConnFlagCleared, Up, Flags
<1>9. j \in OnFlag(g) /\ \A h : h # g => j \notin OnFlag(h)
  BY <1>0, <1>1 DEF OnFlag
<1>10. \A h \in Flags : h # g => Untouched(h)
  BY <1>1, <1>4, <1>5, <1>9 DEF Untouched, OnFlag
<1>11. CountAt(g)'
  <2>1. Pending(g)' = Pending(g)
    BY <1>1, <1>4, <1>9 DEF Pending, OnFlag
  <2>2. \A k \in OnFlag(g)' : k \in OnFlag(g) /\ jobs'[k] = jobs[k]
    BY <1>4 DEF OnFlag
  <2>3. CountIn(dir'[g]) = 0 /\ CountIn(dir[g]) \in Nat
    BY <1>2, <1>5, <1>t DEF CountIn, Types, TypeOK, File
  <2>4. asked[g].ups \in Nat /\ Cardinality(Pending(g)) <= asked[g].ups
    BY <1>2, <1>t, <2>3, JobsFinite DEF IInv, CountAt, Types, AskedRec
  <2> QED BY <1>1, <1>2, <2>1, <2>2, <2>3, <2>4, JobsFinite DEF IInv, CountAt
<1>12. ASSUME g \notin mixed PROVE ExactAt(g)'
  <2>1. ExactAt(g)
    BY <1>2, <1>12 DEF IInv
  <2>2. OnFlag(g)' = {}
    BY <1>4, <1>9, <2>1 DEF ExactAt
  <2> QED BY <1>1, <1>5, <1>9, <2>1, <2>2 DEF ExactAt
<1> QED BY <1>1, <1>6, <1>7, <1>8, <1>10, <1>11, <1>12, FlagKept DEF IInv

\* A job reads the file, which leaves as much room as the file itself did.
LEMMA ReadOldStep ==
    ASSUME IInv, NEW j \in Job, ReadOld(j)
    PROVE  IInv'
<1>t. Types
  BY DEF IInv
<1>0. PICK g : g = jobs[j].flag
  OBVIOUS
<1>1. /\ j \in AtWork /\ jobs[j].up /\ jobs[j].step = "start"
      /\ jobs' = [jobs EXCEPT ![j] = [jobs[j] EXCEPT !.step = "write", !.seen = dir[g]]]
      /\ UNCHANGED <<dir, waits, conn, scan, saves, restarts, asked, since, mixed>>
  BY <1>0, <1>t DEF ReadOld, Types
<1>2. g \in Flag /\ g \in Flags /\ g # ConnFlag /\ jobs[j] \in AtWorkRec
  BY <1>0, <1>1, <1>t, JobFlags
<1>x. PICK x : x = [jobs[j] EXCEPT !.step = "write", !.seen = dir[g]]
  OBVIOUS
<1>3. /\ x \in AtWorkRec /\ x # None /\ x.flag = g /\ x.up = jobs[j].up
      /\ x.save = jobs[j].save /\ x.step = "write" /\ x.seen = dir[g]
  <2>1. dir[g] \in File \cup {None}
    BY <1>2, <1>t DEF Types, TypeOK
  <2>2. x \in AtWorkRec
    BY <1>2, <1>x, <2>1 DEF AtWorkRec
  <2>3. x.flag = g /\ x.up = jobs[j].up /\ x.save = jobs[j].save
        /\ x.step = "write" /\ x.seen = dir[g]
    BY <1>0, <1>2, <1>x DEF AtWorkRec
  <2> QED BY <2>2, <2>3, NotNone
<1>4. /\ jobs' \in [Job -> AtWorkRec \cup {None}] /\ jobs'[j] = x
      /\ AtWork' = AtWork
      /\ \A k \in AtWork : k # j => jobs'[k] = jobs[k]
      /\ \A h : OnFlag(h)' = OnFlag(h)
  <2>1. /\ jobs' \in [Job -> AtWorkRec \cup {None}] /\ jobs'[j] = x
        /\ AtWork' = AtWork \cup {j}
        /\ \A k \in AtWork : k # j => jobs'[k] = jobs[k]
        /\ \A h : OnFlag(h)' = (OnFlag(h) \ {j}) \cup (IF x.flag = h THEN {j} ELSE {})
    <3>1. jobs' = [jobs EXCEPT ![j] = x] /\ x \in AtWorkRec \cup {None}
      BY <1>1, <1>x, <1>3
    <3>2. /\ jobs' \in [Job -> AtWorkRec \cup {None}] /\ jobs'[j] = x
          /\ AtWork' = IF x = None THEN AtWork \ {j} ELSE AtWork \cup {j}
          /\ \A k \in AtWork : k # j => jobs'[k] = jobs[k]
          /\ \A h : OnFlag(h)' = (OnFlag(h) \ {j})
                         \cup (IF x # None /\ x.flag = h THEN {j} ELSE {})
      BY <1>t, <3>1, OneJob
    <3> QED BY <1>3, <3>2
  <2>2. j \in OnFlag(g) /\ \A h : h # g => j \notin OnFlag(h)
    BY <1>0, <1>1 DEF OnFlag
  <2> QED BY <1>1, <1>3, <2>1, <2>2
<1>5. Types'
  <2>1. TypeOK'
    BY <1>1, <1>2, <1>3, <1>4, <1>t DEF Types, TypeOK
  <2> QED BY <1>1, <1>3, <1>4, <1>t, <2>1 DEF Types
<1>6. ScanOK' /\ ConnFlagCleared'
  BY <1>1 DEF IInv, ScanOK, ListSound, ConnFlagCleared, Up
<1>7. j \in OnFlag(g) /\ \A h : h # g => j \notin OnFlag(h)
  BY <1>0, <1>1 DEF OnFlag
<1>8. \A h \in Flags : h # g => Untouched(h)
  BY <1>1, <1>4, <1>7 DEF Untouched, OnFlag
<1>9. CountAt(g)'
  <2>1. Pending(g)' = Pending(g)
    <3>1. \A k \in OnFlag(g) : jobs'[k].up = jobs[k].up
      BY <1>3, <1>4 DEF OnFlag
    <3> QED BY <1>4, <3>1 DEF Pending
  <2>2. \A k \in OnFlag(g)' : k \in OnFlag(g) /\ (jobs'[k] = jobs[k] \/ jobs'[k] = x)
    BY <1>4 DEF OnFlag
  <2>3. CountAt(g)
    BY <1>2 DEF IInv
  <2> QED BY <1>1, <1>3, <2>1, <2>2, <2>3 DEF CountAt
<1>10. ASSUME g \notin mixed PROVE ExactAt(g)'
  <2>1. ExactAt(g)
    BY <1>2, <1>10 DEF IInv
  <2>2. \A k \in OnFlag(g) : k = j
    BY <1>7, <2>1 DEF ExactAt
  <2> QED BY <1>1, <1>3, <1>4, <1>7, <2>1, <2>2 DEF ExactAt
<1> QED BY <1>1, <1>5, <1>6, <1>8, <1>9, <1>10, FlagKept DEF IInv

\* What the new file is made of.
LEMMA UpdatedFile ==
    ASSUME NEW file \in File \cup {None}, NEW save \in 1..MaxSaves
    PROVE  /\ Updated(file, save) \in File /\ Updated(file, save) # None
           /\ CountIn(file) \in Nat
           /\ CountIn(Updated(file, save)) = CountIn(file) + 1
           /\ Updated(file, save).count = CountIn(file) + 1
           /\ file = None => Updated(file, save).date = save
           /\ file # None => Updated(file, save).date = file.date
<1>1. CASE file = None
  <2>1. Updated(file, save) = [date |-> save, count |-> 1]
    BY <1>1 DEF Updated
  <2>2. Updated(file, save) \in File
    BY <2>1 DEF File
  <2> QED BY <1>1, <2>1, <2>2, NotNone DEF CountIn
<1>2. CASE file # None
  <2>1. file \in File /\ Updated(file, save) = [file EXCEPT !.count = file.count + 1]
    BY <1>2 DEF Updated
  <2>2. Updated(file, save) \in File /\ Updated(file, save).count = file.count + 1
        /\ Updated(file, save).date = file.date /\ file.count \in Nat
    BY <2>1 DEF File
  <2> QED BY <1>2, <2>2, NotNone DEF CountIn
<1> QED BY <1>1, <1>2

\* A job that writes uses up the room that was left for it; where saves did not
\* overlap, the file has counted all of those before it.
LEMMA WriteNewStep ==
    ASSUME IInv, NEW j \in Job, WriteNew(j)
    PROVE  IInv'
<1>t. Types
  BY DEF IInv
<1>0. PICK g, s, w : g = jobs[j].flag /\ s = jobs[j].save /\ w = Updated(jobs[j].seen, jobs[j].save)
  OBVIOUS
<1>1. /\ j \in AtWork /\ jobs[j].step = "write" /\ Done(j)
      /\ dir' = [dir EXCEPT ![g] = w]
      /\ since' = [since EXCEPT ![g] = since[g] \cup {s}]
      /\ scan' = [scan EXCEPT !.ever = @ \cup {g}]
      /\ UNCHANGED <<conn, saves, restarts, asked, mixed>>
  BY <1>0, <1>t DEF WriteNew, PutFile, Types
<1>2. /\ g \in Flag /\ g \in Flags /\ g # ConnFlag /\ jobs[j] \in AtWorkRec
      /\ jobs[j].up /\ s \in 1..saves /\ s \in 1..MaxSaves /\ jobs[j].seen \in File \cup {None}
  <2>1. g \in Flag /\ g \in Flags /\ g # ConnFlag /\ jobs[j] \in AtWorkRec
    BY <1>0, <1>1, <1>t, JobFlags
  <2> QED BY <1>0, <1>1, <1>t, <2>1 DEF Types, TypeOK, AtWorkRec
<1>3. /\ w \in File /\ w # None /\ CountIn(jobs[j].seen) \in Nat
      /\ CountIn(w) = CountIn(jobs[j].seen) + 1 /\ w.count = CountIn(jobs[j].seen) + 1
      /\ (jobs[j].seen = None => w.date = s)
      /\ (jobs[j].seen # None => w.date = jobs[j].seen.date)
  BY <1>0, <1>2, UpdatedFile
<1>4. /\ waits' = [p \in Service |-> waits'[p]]
      /\ \A p \in Service : waits'[p] # None => waits'[p] \in AtWork'
      /\ jobs' \in [Job -> AtWorkRec \cup {None}]
      /\ AtWork' = AtWork \ {j}
      /\ \A k \in AtWork' : k \in AtWork /\ jobs'[k] = jobs[k]
      /\ \A h : OnFlag(h)' = OnFlag(h) \ {j}
  BY <1>1, <1>t, JobEnds
<1>5. /\ dir' \in [Flags -> File \cup {None}] /\ dir'[g] = w
      /\ since' \in [Flags -> SUBSET (1..saves)] /\ since'[g] = since[g] \cup {s}
      /\ \A h \in Flags : h # g => dir'[h] = dir[h] /\ since'[h] = since[h]
  BY <1>1, <1>2, <1>3, <1>t DEF Types, TypeOK
<1>6. scan' \in ScanRec /\ ScanOK'
  BY <1>1, <1>2, <1>t, ScanKept DEF IInv, Types
<1>7. Types'
  <2>1. TypeOK'
    BY <1>1, <1>4, <1>5, <1>6, <1>t DEF Types, TypeOK, ScanRec
  <2> QED BY <1>1, <1>4, <1>5, <1>6, <1>t, <2>1 DEF Types
<1>8. ConnFlagCleared'
  BY <1>1, <1>2, <1>5 DEF IInv, ConnFlagCleared, Up, Flags
<1>9. j \in OnFlag(g) /\ j \in Pending(g) /\ \A h : h # g => j \notin OnFlag(h)
  BY <1>0, <1>1, <1>2 DEF OnFlag, Pending
<1>10. \A h \in Flags : h # g => Untouched(h)
  BY <1>1, <1>4, <1>5, <1>9 DEF Untouched, OnFlag
<1>11. CountAt(g)'
  <2>1. Pending(g)' = Pending(g) \ {j}
    BY <1>4, <1>9 DEF Pending, OnFlag
  <2>2. \A k \in OnFlag(g)' : k \in OnFlag(g) /\ k \in AtWork /\ jobs'[k] = jobs[k]
    BY <1>4 DEF OnFlag
  <2>3. Cardinality(Pending(g)') = Cardinality(Pending(g)) - 1 /\ Cardinality(Pending(g)) \in Nat
    BY <1>9, <2>1, PendingLess, JobsFinite
  <2>4. CountAt(g) /\ asked[g].ups \in Nat /\ asked'[g] = asked[g]
    BY <1>1, <1>2, <1>t DEF IInv, Types, AskedRec
  <2>5. CountIn(dir'[g]) + Cardinality(Pending(g)') <= asked'[g].ups
    BY <1>1, <1>3, <1>5, <1>9, <2>3, <2>4 DEF CountAt
  <2>6. ASSUME NEW k \in OnFlag(g)', jobs'[k].step = "write"
        PROVE  CountIn(jobs'[k].seen) + Cardinality(Pending(g)') <= asked'[g].ups
    <3>1. CountIn(jobs[k].seen) \in Nat
      BY <1>t, <2>2, <2>6 DEF Types, TypeOK, CountIn, File
    <3> QED BY <2>2, <2>3, <2>4, <2>6, <3>1 DEF CountAt
  <2> QED BY <2>5, <2>6 DEF CountAt
<1>12. ASSUME g \notin mixed PROVE ExactAt(g)'
  <2>1. ExactAt(g)
    BY <1>2, <1>12 DEF IInv
  <2>2. OnFlag(g)' = {}
    BY <1>4, <1>9, <2>1 DEF ExactAt
  <2>3. /\ jobs[j].seen = dir[g] /\ (\A r \in since[g] : r < s)
        /\ asked[g].up /\ ~asked[g].refused
    BY <1>0, <1>1, <1>2, <1>9, <2>1 DEF ExactAt
  <2>4. since[g] \subseteq 1..saves /\ saves \in Nat /\ s \notin since[g]
    BY <1>2, <1>t, <2>3 DEF Types, TypeOK
  <2>5. IsFiniteSet(since[g]) /\ Cardinality(since[g]) \in Nat
    BY <2>4, FS_Interval, FS_Subset, FS_CardinalityType
  <2>6. Cardinality(since[g] \cup {s}) = Cardinality(since[g]) + 1
    BY <2>4, <2>5, FS_AddElement
  <2>7. CountIn(dir[g]) = Cardinality(since[g])
    BY <2>1, FS_EmptySet DEF ExactAt, CountIn
  <2>8. dir'[g].count = Cardinality(since'[g])
    BY <1>3, <1>5, <2>3, <2>6, <2>7
  <2>9. dir'[g].date \in since'[g] /\ \A r \in since'[g] : dir'[g].date <= r
    <3>1. CASE dir[g] = None
      <4>1. since'[g] = {s} /\ dir'[g].date = s
        BY <1>3, <1>5, <2>1, <2>3, <3>1 DEF ExactAt
      <4> QED BY <1>2, <4>1
    <3>2. CASE dir[g] # None
      <4>1. /\ dir'[g].date = dir[g].date /\ dir[g].date \in since[g]
            /\ \A r \in since[g] : dir[g].date <= r
        BY <1>3, <1>5, <2>1, <2>3, <3>2 DEF ExactAt
      <4>2. dir[g].date <= s
        BY <1>2, <2>3, <2>4, <4>1
      <4> QED BY <1>5, <4>1, <4>2
    <3> QED BY <3>1, <3>2
  <2> QED BY <1>1, <1>3, <1>5, <2>2, <2>3, <2>8, <2>9 DEF ExactAt
<1> QED BY <1>1, <1>6, <1>7, <1>8, <1>10, <1>11, <1>12, FlagKept DEF IInv

-----------------------------------------------------------------------------
(* The permanent connections, restarts and load_flags().                   *)

\* No job is at work on the flag of the connections.
LEMMA ConnFlagAlone ==
    ASSUME Types
    PROVE  /\ ConnFlag \in Flags /\ OnFlag(ConnFlag) = {} /\ Pending(ConnFlag) = {}
           /\ ConnFlag \notin mixed
<1>1. \A j \in AtWork : jobs[j].flag # ConnFlag
  BY JobFlags
<1> QED BY <1>1, FlagAssumption DEF Flags, OnFlag, Pending, Types, TypeOK

LEMMA ConnectionFailedStep ==
    ASSUME IInv, NEW c \in Conn, ConnectionFailed(c), UNCHANGED <<jobs, waits, restarts, mixed>>
    PROVE  IInv'
<1>t. Types
  BY DEF IInv
<1>1. /\ AtWork' = AtWork /\ \A f : OnFlag(f)' = OnFlag(f)
  BY DEF AtWork, OnFlag
\* One more failure.
<1>2. CASE /\ conn[c] \in {"fresh", "ok"}
           /\ conn' = [conn EXCEPT ![c] = "failing"]
           /\ UNCHANGED <<dir, scan, saves, since, asked>>
  <2>1. conn' \in [Conn -> {"fresh", "ok", "failing", "flagged"}] /\ conn'[c] = "failing"
    BY <1>2, <1>t DEF Types, TypeOK
  <2>2. Types'
    BY <1>1, <1>2, <1>t, <2>1 DEF Types, TypeOK
  <2>3. \A f \in Flags : Untouched(f)
    BY <1>1, <1>2 DEF Untouched
  <2>4. ScanOK' /\ ConnFlagCleared'
    BY <1>2, <2>1 DEF IInv, ScanOK, ListSound, ConnFlagCleared
  <2> QED BY <2>2, <2>3, <2>4, FlagKept DEF IInv
\* The failure that raises the flag.
<1>3. CASE /\ conn[c] = "failing" /\ saves < MaxSaves
           /\ conn' = [conn EXCEPT ![c] = "flagged"]
           /\ saves' = saves + 1
           /\ PutFile(ConnFlag, Updated(dir[ConnFlag], saves'), saves')
           /\ asked' = [asked EXCEPT ![ConnFlag] =
                                   [ups |-> @.ups + 1, up |-> TRUE, refused |-> FALSE]]
  <2>0. PICK s, w : s = saves + 1 /\ w = Updated(dir[ConnFlag], saves + 1)
    OBVIOUS
  <2>1. /\ dir' = [dir EXCEPT ![ConnFlag] = w]
        /\ since' = [since EXCEPT ![ConnFlag] = since[ConnFlag] \cup {s}]
        /\ scan' = [scan EXCEPT !.ever = @ \cup {ConnFlag}]
        /\ ConnFlag \in Flags /\ saves' = s
        /\ dir[ConnFlag] \in File \cup {None}
    BY <1>3, <1>t, <2>0, ConnFlagAlone DEF PutFile, Types, TypeOK
  <2>2. /\ s \in 1..MaxSaves /\ s \in 0..MaxSaves /\ 1..saves \subseteq 1..s /\ s \in 1..s
        /\ (\A r \in 1..saves : r < s)
    <3>1. saves \in Nat /\ saves \in 0..MaxSaves /\ MaxSaves \in Nat
      BY <1>t, LimitAssumption DEF Types, TypeOK
    <3> QED BY <1>3, <2>0, <3>1
  <2>3. /\ w \in File /\ w # None /\ CountIn(dir[ConnFlag]) \in Nat
        /\ CountIn(w) = CountIn(dir[ConnFlag]) + 1 /\ w.count = CountIn(dir[ConnFlag]) + 1
        /\ (dir[ConnFlag] = None => w.date = s)
        /\ (dir[ConnFlag] # None => w.date = dir[ConnFlag].date)
    BY <2>0, <2>1, <2>2, UpdatedFile
  <2>4. /\ dir' \in [Flags -> File \cup {None}] /\ dir'[ConnFlag] = w
        /\ since' \in [Flags -> SUBSET (1..saves')]
        /\ since'[ConnFlag] = since[ConnFlag] \cup {s}
        /\ \A h \in Flags : h # ConnFlag => dir'[h] = dir[h] /\ since'[h] = since[h]
    BY <1>t, <2>1, <2>2, <2>3 DEF Types, TypeOK
  <2>5. /\ asked' \in [Flags -> AskedRec]
        /\ asked'[ConnFlag].ups = asked[ConnFlag].ups + 1 /\ asked[ConnFlag].ups \in Nat
        /\ \A h \in Flags : h # ConnFlag => asked'[h] = asked[h]
    <3>1. asked[ConnFlag] \in AskedRec /\ asked \in [Flags -> AskedRec]
      BY <1>t, <2>1 DEF Types
    <3>2. asked[ConnFlag].ups \in Nat
      BY <3>1 DEF AskedRec
    <3>3. [ups |-> asked[ConnFlag].ups + 1, up |-> TRUE, refused |-> FALSE] \in AskedRec
      BY <3>2 DEF AskedRec
    <3> QED BY <1>3, <2>1, <3>1, <3>2, <3>3
  <2>6. scan' \in ScanRec /\ ScanOK'
    BY <1>t, <2>1, ScanKept DEF IInv, Types
  <2>7. conn' \in [Conn -> {"fresh", "ok", "failing", "flagged"}] /\ conn'[c] = "flagged"
    BY <1>3, <1>t DEF Types, TypeOK
  <2>8. Types'
    <3>1. TypeOK'
      BY <1>1, <1>t, <2>1, <2>2, <2>4, <2>6, <2>7 DEF Types, TypeOK, ScanRec
    <3> QED BY <1>1, <1>t, <2>4, <2>5, <2>6, <3>1 DEF Types
  <2>9. ConnFlagCleared'
    BY <2>7 DEF ConnFlagCleared
  <2>10. \A h \in Flags : h # ConnFlag => Untouched(h)
    BY <1>1, <2>4, <2>5 DEF Untouched
  <2>11. CountAt(ConnFlag)'
    <3>1. Pending(ConnFlag) = {} /\ Pending(ConnFlag)' = {} /\ OnFlag(ConnFlag)' = {}
      BY <1>1, <1>t, ConnFlagAlone DEF Pending
    <3>2. CountIn(dir[ConnFlag]) <= asked[ConnFlag].ups
      <4>1. CountIn(dir[ConnFlag]) + Cardinality(Pending(ConnFlag)) <= asked[ConnFlag].ups
        BY <2>1 DEF IInv, CountAt
      <4>2. Cardinality(Pending(ConnFlag)) = 0
        BY <3>1, FS_EmptySet
      <4> QED BY <2>3, <2>5, <4>1, <4>2
    <3> QED BY <2>3, <2>4, <2>5, <3>1, <3>2, FS_EmptySet DEF CountAt
  <2>12. ExactAt(ConnFlag)'
    <3>1. ExactAt(ConnFlag) /\ OnFlag(ConnFlag)' = {} /\ ConnFlag \notin Flag
      BY <1>1, <1>t, ConnFlagAlone, FlagAssumption DEF IInv
    <3>2. since[ConnFlag] \subseteq 1..saves /\ saves \in Nat /\ s \notin since[ConnFlag]
      BY <1>t, <2>1, <2>2 DEF Types, TypeOK
    <3>3. IsFiniteSet(since[ConnFlag]) /\ Cardinality(since[ConnFlag]) \in Nat
      <4>1. IsFiniteSet(1..saves)
        BY <3>2, FS_Interval
      <4>2. IsFiniteSet(since[ConnFlag])
        BY <3>2, <4>1, FS_Subset
      <4> QED BY <4>2, FS_CardinalityType
    <3>4. Cardinality(since[ConnFlag] \cup {s}) = Cardinality(since[ConnFlag]) + 1
      BY <3>2, <3>3, FS_AddElement
    <3>5. CountIn(dir[ConnFlag]) = Cardinality(since[ConnFlag])
      BY <3>1, FS_EmptySet DEF ExactAt, CountIn
    <3>6. dir'[ConnFlag].count = Cardinality(since'[ConnFlag])
      BY <2>3, <2>4, <3>4, <3>5
    <3>7. dir'[ConnFlag].date \in since'[ConnFlag]
          /\ \A r \in since'[ConnFlag] : dir'[ConnFlag].date <= r
      <4>1. CASE dir[ConnFlag] = None
        <5>1. since'[ConnFlag] = {s} /\ dir'[ConnFlag].date = s
          BY <2>3, <2>4, <3>1, <4>1 DEF ExactAt
        <5> QED BY <2>2, <5>1
      <4>2. CASE dir[ConnFlag] # None
        <5>1. /\ dir'[ConnFlag].date = dir[ConnFlag].date
              /\ dir[ConnFlag].date \in since[ConnFlag]
              /\ \A r \in since[ConnFlag] : dir[ConnFlag].date <= r
          BY <2>3, <2>4, <3>1, <4>2 DEF ExactAt
        <5>2. dir[ConnFlag].date <= s
          BY <2>2, <3>2, <5>1
        <5> QED BY <2>4, <5>1, <5>2
      <4> QED BY <4>1, <4>2
    <3> QED BY <2>3, <2>4, <3>1, <3>6, <3>7 DEF ExactAt
  <2> QED BY <2>6, <2>8, <2>9, <2>10, <2>11, <2>12, FlagKept DEF IInv
<1> QED BY <1>2, <1>3 DEF ConnectionFailed

LEMMA ConnectionMadeStep ==
    ASSUME IInv, NEW c \in Conn, ConnectionMade(c), UNCHANGED <<jobs, waits, restarts, mixed>>
    PROVE  IInv'
<1>t. Types
  BY DEF IInv
<1>1. /\ AtWork' = AtWork /\ (\A f : OnFlag(f)' = OnFlag(f))
      /\ conn' = [conn EXCEPT ![c] = "ok"] /\ saves' = saves
      /\ conn' \in [Conn -> {"fresh", "ok", "failing", "flagged"}]
  BY <1>t DEF AtWork, OnFlag, ConnectionMade, Types, TypeOK
<1>2. CASE OwesDown(c) /\ RemoveFile(ConnFlag) /\ asked' = [asked EXCEPT ![ConnFlag].up = FALSE]
  <2>1. /\ ConnFlag \in Flags
        /\ dir' \in [Flags -> File \cup {None}] /\ dir'[ConnFlag] = None
        /\ since' \in [Flags -> SUBSET (1..saves)] /\ since'[ConnFlag] = {}
        /\ \A h \in Flags : h # ConnFlag => dir'[h] = dir[h] /\ since'[h] = since[h]
    BY <1>2, <1>t, ConnFlagAlone DEF RemoveFile, Types, TypeOK
  <2>2. /\ asked' \in [Flags -> AskedRec] /\ asked'[ConnFlag].ups = asked[ConnFlag].ups
        /\ asked[ConnFlag].ups \in Nat
        /\ \A h \in Flags : h # ConnFlag => asked'[h] = asked[h]
    <3>1. asked \in [Flags -> AskedRec] /\ asked[ConnFlag] \in AskedRec
      BY <1>t, <2>1 DEF Types
    <3> QED BY <1>2, <2>1, <3>1 DEF AskedRec
  <2>3. scan' = [scan EXCEPT !.always = @ \ {ConnFlag}]
    BY <1>2 DEF RemoveFile
  <2>4. scan' \in ScanRec /\ ScanOK'
    BY <1>t, <2>1, <2>3, ScanKept DEF IInv, Types
  <2>5. Types'
    <3>1. TypeOK'
      BY <1>1, <1>t, <2>1, <2>4 DEF Types, TypeOK, ScanRec
    <3> QED BY <1>1, <1>t, <2>1, <2>2, <2>4, <3>1 DEF Types
  <2>6. ConnFlagCleared'
    BY <2>1 DEF ConnFlagCleared, Up
  <2>7. \A h \in Flags : h # ConnFlag => Untouched(h)
    BY <1>1, <2>1, <2>2 DEF Untouched
  <2>8. CountAt(ConnFlag)'
    <3>1. Pending(ConnFlag)' = {} /\ OnFlag(ConnFlag)' = {}
      BY <1>1, <1>t, ConnFlagAlone DEF Pending
    <3>2. CountIn(dir'[ConnFlag]) = 0
      BY <2>1 DEF CountIn
    <3> QED BY <2>2, <3>1, <3>2, FS_EmptySet DEF CountAt
  <2>9. ExactAt(ConnFlag)'
    BY <1>1, <1>t, <2>1, ConnFlagAlone, FlagAssumption DEF ExactAt
  <2> QED BY <2>4, <2>5, <2>6, <2>7, <2>8, <2>9, FlagKept DEF IInv
<1>3. CASE ~OwesDown(c) /\ UNCHANGED <<dir, since, scan, asked>>
  <2>1. conn' = conn
    BY <1>1, <1>3, <1>t DEF OwesDown, Types, TypeOK
  <2>2. Types'
    BY <1>1, <1>3, <1>t, <2>1 DEF Types, TypeOK
  <2>3. \A f \in Flags : Untouched(f)
    BY <1>1, <1>3 DEF Untouched
  <2>4. ScanOK' /\ ConnFlagCleared'
    BY <1>3, <2>1 DEF IInv, ScanOK, ListSound, ConnFlagCleared, Up
  <2> QED BY <2>2, <2>3, <2>4, FlagKept DEF IInv
<1> QED BY <1>2, <1>3 DEF ConnectionMade

LEMMA RestartStep ==
    ASSUME IInv, Restart
    PROVE  IInv'
<1>t. Types
  BY DEF IInv
<1>1. /\ restarts' \in 0..MaxRestarts
      /\ conn' = [c \in Conn |-> "fresh"]
      /\ UNCHANGED <<dir, jobs, waits, scan, saves, asked, since, mixed>>
  <2>1. restarts \in 0..MaxRestarts /\ MaxRestarts \in Nat
    BY <1>t, LimitAssumption DEF Types, TypeOK
  <2> QED BY <2>1 DEF Restart
<1>2. AtWork' = AtWork /\ \A f : OnFlag(f)' = OnFlag(f)
  BY <1>1 DEF AtWork, OnFlag
<1>3. Types'
  BY <1>1, <1>2, <1>t DEF Types, TypeOK
<1>4. \A f \in Flags : Untouched(f)
  BY <1>1, <1>2 DEF Untouched
<1>5. ScanOK'
  BY <1>1 DEF IInv, ScanOK, ListSound
<1>6. ConnFlagCleared'
  <2>1. CASE Conn = {}
    BY <1>1, <2>1 DEF IInv, ConnFlagCleared, Up
  <2>2. CASE Conn # {}
    BY <1>1, <2>2 DEF ConnFlagCleared
  <2> QED BY <2>1, <2>2
<1> QED BY <1>1, <1>3, <1>4, <1>5, <1>6, FlagKept DEF IInv

\* load_flags() changes nothing but what it has read.
LEMMA ScanStep ==
    ASSUME IInv, scan' \in ScanRec, ScanOK',
           UNCHANGED <<dir, jobs, waits, conn, saves, restarts, asked, since, mixed>>
    PROVE  IInv'
<1>t. Types
  BY DEF IInv
<1>1. AtWork' = AtWork /\ \A f : OnFlag(f)' = OnFlag(f)
  BY DEF AtWork, OnFlag
<1>2. Types'
  BY <1>1, <1>t DEF Types, TypeOK, ScanRec
<1>3. \A f \in Flags : Untouched(f)
  BY <1>1 DEF Untouched
<1>4. ConnFlagCleared'
  BY DEF IInv, ConnFlagCleared, Up
<1> QED BY <1>2, <1>3, <1>4, FlagKept DEF IInv

LEMMA ListDirectoryStep ==
    ASSUME ListDirectory
    PROVE  scan' \in ScanRec /\ ScanOK'
<1>1. Up \subseteq Flags
  BY DEF Up
<1>2. scan' \in ScanRec
  BY <1>1 DEF ListDirectory, ScanRec
<1>3. ScanOK'
  BY DEF ListDirectory, ScanOK, ListSound
<1> QED BY <1>2, <1>3

LEMMA LoadNextStep ==
    ASSUME scan \in ScanRec, ScanOK, LoadNext
    PROVE  scan' \in ScanRec /\ ScanOK'
<1>0. /\ scan.step = "load" /\ scan.names \cup scan.got \subseteq scan.ever
      /\ scan.always \subseteq scan.names \cup scan.got
  <2>1. scan.step = "load"
    BY Zenon DEF LoadNext
  <2> QED BY <2>1 DEF ScanOK
<1>1. CASE scan.names = {} /\ scan' = [scan EXCEPT !.step = "done"]
  <2>1. /\ scan' \in ScanRec /\ scan'.step = "done" /\ scan'.got = scan.got
        /\ scan'.ever = scan.ever /\ scan'.always = scan.always
    BY <1>1 DEF ScanRec
  <2> QED BY <1>0, <1>1, <2>1 DEF ScanOK, ListSound
<1>2. CASE \E f \in scan.names : scan' = OverLimit(scan)
  <2>1. /\ scan' \in ScanRec /\ scan'.step = "done" /\ scan'.got = scan.got
        /\ scan'.ever = scan.ever /\ scan'.many
    BY <1>2 DEF ScanRec, OverLimit
  <2> QED BY <1>0, <2>1 DEF ScanOK, ListSound
<1>3. CASE \E f \in scan.names : scan' = Missing(scan, f)
  <2>1. scan' \in ScanRec /\ scan'.step = "failed"
    BY <1>3 DEF ScanRec, Missing
  <2> QED BY <2>1 DEF ScanOK, ListSound
<1>4. CASE \E f \in scan.names : scan' = [scan EXCEPT !.names = @ \ {f}, !.got = @ \cup {f}]
  <2>1. PICK f \in scan.names : scan' = [scan EXCEPT !.names = @ \ {f}, !.got = @ \cup {f}]
    BY <1>4, Zenon
  <2>2. f \in Flags
    BY DEF ScanRec
  <2>3. /\ scan' \in ScanRec /\ scan'.step = "load" /\ scan'.names = scan.names \ {f}
        /\ scan'.got = scan.got \cup {f} /\ scan'.ever = scan.ever
        /\ scan'.always = scan.always
    BY <1>0, <2>1, <2>2 DEF ScanRec
  <2> QED BY <1>0, <2>1, <2>3 DEF ScanOK, ListSound
<1> QED BY <1>1, <1>2, <1>3, <1>4, Zenon DEF LoadNext

-----------------------------------------------------------------------------
(* The invariant and the theorems.                                         *)

LEMMA Initially == Init => IInv
<1> SUFFICES ASSUME Init PROVE IInv
  OBVIOUS
<1>1. AtWork = {} /\ \A f : OnFlag(f) = {} /\ Pending(f) = {}
  BY DEF Init, AtWork, OnFlag, Pending
<1>2. Up = {}
  BY DEF Init, Up
<1>3. scan \in ScanRec /\ ScanOK
  BY DEF Init, ScanRec, ScanOK, ListSound
<1>4. Types
  <2>1. asked \in [Flags -> AskedRec]
    BY DEF Init, AskedRec
  <2>2. TypeOK
    BY <1>1, <1>3, LimitAssumption DEF Init, TypeOK, ScanRec
  <2> QED BY <1>1, <1>3, <2>1, <2>2 DEF Init, Types
<1>5. ASSUME NEW f \in Flags PROVE CountAt(f) /\ ExactAt(f)
  <2>1. dir[f] = None /\ since[f] = {} /\ asked[f].ups = 0 /\ asked[f].up = FALSE
    BY DEF Init
  <2>2. CountAt(f)
    BY <1>1, <2>1, FS_EmptySet DEF CountAt, CountIn
  <2>3. ExactAt(f)
    BY <1>1, <2>1 DEF ExactAt
  <2> QED BY <2>2, <2>3
<1> QED BY <1>2, <1>3, <1>4, <1>5 DEF IInv, ConnFlagCleared

LEMMA Inductive == IInv /\ [Next]_vars => IInv'
<1> SUFFICES ASSUME IInv, [Next]_vars PROVE IInv'
  OBVIOUS
<1>1. ASSUME NEW p \in Service, NEW f \in Flag, NEW up \in BOOLEAN, NEW extras \in BOOLEAN,
             Save(p, f, up, extras)
      PROVE  IInv'
  BY <1>1, SaveStep
<1>2. ASSUME NEW j \in Job, RefuseDown(j) \/ TakeDown(j) \/ ReadOld(j) \/ WriteNew(j)
      PROVE  IInv'
  BY <1>2, RefuseDownStep, TakeDownStep, ReadOldStep, WriteNewStep
<1>3. ASSUME NEW c \in Conn, ConnectionFailed(c) \/ ConnectionMade(c),
             UNCHANGED <<jobs, waits, restarts, mixed>>
      PROVE  IInv'
  BY <1>3, ConnectionFailedStep, ConnectionMadeStep
<1>4. CASE Restart
  BY <1>4, RestartStep
<1>5. CASE /\ ListDirectory \/ LoadNext
           /\ UNCHANGED <<dir, jobs, waits, conn, saves, restarts, asked, since, mixed>>
  <2>1. scan' \in ScanRec /\ ScanOK'
    BY <1>5, ListDirectoryStep, LoadNextStep DEF IInv, Types
  <2> QED BY <1>5, <2>1, ScanStep
<1>6. CASE UNCHANGED vars
  <2>1. scan \in ScanRec /\ ScanOK /\ scan' = scan
    BY <1>6 DEF IInv, Types, vars
  <2>2. scan' \in ScanRec /\ ScanOK'
    BY <2>1 DEF ScanOK, ListSound
  <2> QED BY <1>6, <2>2, ScanStep DEF vars
<1> QED BY <1>1, <1>2, <1>3, <1>4, <1>5, <1>6 DEF Next

LEMMA Invariance == Spec => []IInv
BY Initially, Inductive, PTL DEF Spec

\* The state keeps its types; a service only ever waits for a job at work.
THEOREM TypeCorrect == Spec => []TypeOK
<1>1. IInv => TypeOK
  BY DEF IInv, Types
<1> QED BY <1>1, Invariance, PTL

\* However many processes save a flag at once, and whatever each of them read
\* before the others wrote, its counter never exceeds the number of times it was
\* raised.
THEOREM CountBounded == Spec => []NotOverCounted
<1>1. ASSUME IInv PROVE NotOverCounted
  <2> SUFFICES ASSUME NEW f \in Up PROVE dir[f].count <= asked[f].ups
    BY DEF NotOverCounted
  <2>1. f \in Flags /\ dir[f] \in File /\ asked[f] \in AskedRec
    BY <1>1 DEF Up, IInv, Types, TypeOK
  <2>2. dir[f].count + Cardinality(Pending(f)) <= asked[f].ups
    BY <1>1, <2>1 DEF IInv, CountAt, CountIn, Up
  <2>3. dir[f].count \in Nat /\ asked[f].ups \in Nat
    BY <2>1 DEF File, AskedRec
  <2> QED BY <2>2, <2>3, JobsFinite
<1> QED BY <1>1, Invariance, PTL

\* The counter of a flag whose saves never overlapped is the number of times it
\* was raised since it was last down, and its date that of the first.
THEOREM CountTrue == Spec => []CountExact
<1>1. IInv => CountExact
  BY DEF IInv, ExactAt, CountExact, Up
<1> QED BY <1>1, Invariance, PTL

\* Once nobody is at work on such a flag, it is what the last save asked for.
THEOREM LastSaved == Spec => []LastSaveWins
<1>1. ASSUME IInv PROVE LastSaveWins
  <2> SUFFICES ASSUME NEW f \in Flag \ mixed, ~Busy(f), ~asked[f].refused
               PROVE  f \in Up <=> asked[f].up
    BY DEF LastSaveWins
  <2>1. f \in Flags /\ OnFlag(f) = {}
    BY DEF Flags, Busy, OnFlag
  <2> QED BY <1>1, <2>1 DEF IInv, ExactAt, Up
<1> QED BY <1>1, Invariance, PTL

\* load_flags() invents no flag and misses none that was up from start to end
\* without saying that there are too many.
THEOREM ListTrue == Spec => []ListSound
<1>1. IInv => ListSound
  BY DEF IInv, ScanOK
<1> QED BY <1>1, Invariance, PTL

\* No permanent connection that works leaves their flag up, whatever the order
\* in which they failed, recovered and were started again.
THEOREM ConnFlagDown == Spec => []ConnFlagCleared
<1>1. IInv => ConnFlagCleared
  BY DEF IInv
<1> QED BY <1>1, Invariance, PTL

=============================================================================
