--------------------------------- MODULE Flags ---------------------------------
(***************************************************************************)
(* Flags: one file per problem an administrator has to look at.            *)
(*                                                                         *)
(* flag::save() writes or deletes the file. A process that may not write   *)
(* in the directory runs the raise-flag tool to do it, and waits for it    *)
(* only when its event loop does not run. Nothing locks the files: save()  *)
(* reads the old file and writes the new one, load_flags() lists the       *)
(* directory and then reads file after file.                               *)
(*                                                                         *)
(* All permanent connections of the daemon share one flag.                 *)
(*                                                                         *)
(* Reading, writing and deleting one file are single steps of the system.  *)
(* Each process reads the file for itself: a process that saves one flag   *)
(* several times is a process that does so through raise-flag.             *)
(***************************************************************************)
EXTENDS Integers, FiniteSets

CONSTANTS
    Flag,           \* names (unit, section and name) used by services
    ConnFlag,       \* communicatord, remote-connection, connection-failed
    Service,        \* processes that save flags
    Writers,        \* those that run as root or as communicator
    Looping,        \* those that save while their event loop runs
    Conn,           \* permanent connections of the daemon
    Job,            \* processes that can be at work at the same time
    FlagsLimit,     \* FLAGS_LIMIT
    MaxSaves,       \* bound on calls of save()
    MaxRestarts     \* bound on restarts of the daemon

ASSUME FlagAssumption == ConnFlag \notin Flag /\ IsFiniteSet(Flag)
ASSUME WritersAssumption == Writers \subseteq Service /\ Looping \subseteq Service \ Writers
ASSUME JobAssumption == IsFiniteSet(Job)
ASSUME LimitAssumption == FlagsLimit \in Nat /\ MaxSaves \in Nat /\ MaxRestarts \in Nat

VARIABLES
    dir,        \* the file of each flag, None when the flag is down
    jobs,       \* saves at work, in the process itself or in a raise-flag
    waits,      \* the job each service waits for, or None
    conn,       \* f_failures and f_flagged of each permanent connection
    scan,       \* a load_flags()
    saves, restarts,
    asked,      \* for each flag, its saves of state UP, the last state saved and
                \* whether raise-flag refused that
    since,      \* the saves that wrote each file since it was last deleted
    mixed       \* flags of which two saves overlapped

vars == <<dir, jobs, waits, conn, scan, saves, restarts, asked, since, mixed>>

None == [none |-> TRUE]
Flags == Flag \cup {ConnFlag}

\* The fields of a file that depend on the file it replaces: "date" is the number
\* of the save that created it.
File == [date: 1..MaxSaves, count: Nat]

Up == {f \in Flags : dir[f] # None}
AtWork == {j \in Job : jobs[j] # None}
Busy(f) == \E j \in AtWork : jobs[j].flag = f

Init ==
    /\ dir = [f \in Flags |-> None]
    /\ jobs = [j \in Job |-> None]
    /\ waits = [p \in Service |-> None]
    /\ conn = [c \in Conn |-> "fresh"]
    /\ scan = [step |-> "none", names |-> {}, got |-> {}, many |-> FALSE,
               ever |-> {}, always |-> {}]
    /\ saves = 0 /\ restarts = 0
    /\ asked = [f \in Flags |-> [ups |-> 0, up |-> FALSE, refused |-> FALSE]]
    /\ since = [f \in Flags |-> {}]
    /\ mixed = {}

-----------------------------------------------------------------------------
(* Files.                                                                  *)

\* Deviation: the first count is that of a flag raised again.
UpdatedFromOne(file, save) ==
    IF file = None THEN [date |-> save, count |-> 2]
    ELSE [file EXCEPT !.count = @ + 1]

\* Deviation: the counter is written as it was read.
UpdatedAsRead(file, save) == IF file = None THEN [date |-> save, count |-> 1] ELSE file

\* A flag raised again keeps its "date" and has its "count" incremented.
Updated(file, save) ==
    IF file = None THEN [date |-> save, count |-> 1]
    ELSE [file EXCEPT !.count = @ + 1]

\* The file of f is written, or deleted (what is not there is deleted too).
PutFile(f, file, save) ==
    /\ dir' = [dir EXCEPT ![f] = file]
    /\ since' = [since EXCEPT ![f] = @ \cup {save}]
    /\ scan' = [scan EXCEPT !.ever = @ \cup {f}]
RemoveFile(f) ==
    /\ dir' = [dir EXCEPT ![f] = None]
    /\ since' = [since EXCEPT ![f] = {}]
    /\ scan' = [scan EXCEPT !.always = @ \ {f}]

-----------------------------------------------------------------------------
(* flag::save() and raise-flag.                                            *)

\* Deviation: a file that cannot be deleted passes for one that is not there.
NothingToDoEver(p, f, up) == ~up

\* Without the right to write in the directory, unlink() succeeds only when there
\* is nothing to delete.
NothingToDo(p, f, up) == ~up /\ p \notin Writers /\ dir[f] = None

\* extras: set_priority(), set_manual_down() or add_tag() was called. They become
\* options of the raise-flag that is run.
Save(p, f, up, extras) ==
    /\ waits[p] = None /\ saves < MaxSaves
    /\ saves' = saves + 1
    /\ asked' = [asked EXCEPT ![f] = [ups |-> @.ups + (IF up THEN 1 ELSE 0),
                                            up |-> up, refused |-> FALSE]]
    /\ mixed' = IF Busy(f) THEN mixed \cup {f} ELSE mixed
    /\ IF NothingToDo(p, f, up)
       THEN UNCHANGED <<jobs, waits>>
       ELSE \E j \in Job :
              /\ jobs[j] = None
              /\ jobs' = [jobs EXCEPT ![j] =
                   [flag |-> f, up |-> up, extras |-> extras /\ p \notin Writers,
                    save |-> saves', step |-> "start", seen |-> None]]
              /\ waits' = IF p \in Looping THEN waits ELSE [waits EXCEPT ![p] = j]
    /\ UNCHANGED <<dir, conn, scan, restarts, since>>

\* Deviation: nobody notices that raise-flag ended.
DoneUnnoticed(j) == jobs' = [jobs EXCEPT ![j] = None] /\ UNCHANGED waits
\* The job j is over, and so is the wait for it.
Done(j) == /\ jobs' = [jobs EXCEPT ![j] = None]
           /\ waits' = [p \in Service |-> IF waits[p] = j THEN None ELSE waits[p]]

\* down() of raise-flag: --priority, --manual and --tags are errors.
RefuseDown(j) ==
    /\ j \in AtWork /\ ~jobs[j].up /\ jobs[j].extras
    /\ asked' = [asked EXCEPT ![jobs[j].flag].refused = TRUE]
    /\ Done(j)
    /\ UNCHANGED <<dir, conn, scan, saves, restarts, since, mixed>>

TakeDown(j) ==
    /\ j \in AtWork /\ ~jobs[j].up /\ ~jobs[j].extras
    /\ RemoveFile(jobs[j].flag)
    /\ Done(j)
    /\ UNCHANGED <<conn, saves, restarts, asked, mixed>>

ReadOld(j) ==
    /\ j \in AtWork /\ jobs[j].up /\ jobs[j].step = "start"
    /\ jobs' = [jobs EXCEPT ![j].step = "write", ![j].seen = dir[jobs[j].flag]]
    /\ UNCHANGED <<dir, waits, conn, scan, saves, restarts, asked, since, mixed>>

WriteNew(j) ==
    /\ j \in AtWork /\ jobs[j].step = "write"
    /\ PutFile(jobs[j].flag, Updated(jobs[j].seen, jobs[j].save), jobs[j].save)
    /\ Done(j)
    /\ UNCHANGED <<conn, saves, restarts, asked, mixed>>

-----------------------------------------------------------------------------
(* The flag of the permanent connections.                                  *)

\* process_connection_failed(): 20 failures in more than an hour raise the flag.
\* (The daemon owns that flag and writes its file in one callback.)
ConnectionFailed(c) ==
    \/ /\ conn[c] \in {"fresh", "ok"}
       /\ conn' = [conn EXCEPT ![c] = "failing"]
       /\ UNCHANGED <<dir, scan, saves, since, asked>>
    \/ /\ conn[c] = "failing" /\ saves < MaxSaves
       /\ conn' = [conn EXCEPT ![c] = "flagged"]
       /\ saves' = saves + 1
       /\ PutFile(ConnFlag, Updated(dir[ConnFlag], saves'), saves')
       /\ asked' = [asked EXCEPT ![ConnFlag] =
                                   [ups |-> @.ups + 1, up |-> TRUE, refused |-> FALSE]]

\* Deviation: only the connection that raised the flag takes it down.
OwesDownIfFlagged(c) == conn[c] = "flagged"

\* f_failures is -1 at first, so that the flag of an earlier run is taken down.
OwesDown(c) == conn[c] # "ok"

\* process_connected()
ConnectionMade(c) ==
    /\ conn' = [conn EXCEPT ![c] = "ok"]
    /\ IF OwesDown(c)
       THEN /\ RemoveFile(ConnFlag)
            /\ asked' = [asked EXCEPT ![ConnFlag].up = FALSE]
       ELSE UNCHANGED <<dir, since, scan, asked>>
    /\ UNCHANGED saves

Restart ==
    /\ restarts < MaxRestarts
    /\ restarts' = restarts + 1
    /\ conn' = [c \in Conn |-> "fresh"]
    /\ UNCHANGED <<dir, jobs, waits, scan, saves, asked, since, mixed>>

-----------------------------------------------------------------------------
(* flag::load_flags(), for --list, --count and --raised.                   *)

ListDirectory ==
    /\ scan.step = "none"
    /\ scan' = [step |-> "load", names |-> Up, got |-> {}, many |-> FALSE,
                ever |-> Up, always |-> Up]

\* Deviation: the list ends at the limit without a word.
OverLimitQuietly(s) == [s EXCEPT !.step = "done"]
\* The flag "too-many-flags" takes the place of the rest.
OverLimit(s) == [s EXCEPT !.step = "done", !.many = TRUE]

\* A file that went away has no fields: the constructor throws, the list is lost.
Missing(s, f) == [s EXCEPT !.step = "failed", !.got = {}]

LoadNext ==
    /\ scan.step = "load"
    /\ \/ scan.names = {} /\ scan' = [scan EXCEPT !.step = "done"]
       \/ \E f \in scan.names :
            scan' = IF Cardinality(scan.got) >= FlagsLimit THEN OverLimit(scan)
                    ELSE IF dir[f] = None THEN Missing(scan, f)
                    ELSE [scan EXCEPT !.names = @ \ {f}, !.got = @ \cup {f}]

Next ==
    \/ \E p \in Service, f \in Flag, up, extras \in BOOLEAN : Save(p, f, up, extras)
    \/ \E j \in Job : RefuseDown(j) \/ TakeDown(j) \/ ReadOld(j) \/ WriteNew(j)
    \/ \E c \in Conn : /\ ConnectionFailed(c) \/ ConnectionMade(c)
                       /\ UNCHANGED <<jobs, waits, restarts, mixed>>
    \/ Restart
    \/ /\ ListDirectory \/ LoadNext
       /\ UNCHANGED <<dir, jobs, waits, conn, saves, restarts, asked, since, mixed>>

Spec == Init /\ [][Next]_vars

-----------------------------------------------------------------------------
(* Properties.                                                             *)

TypeOK ==
    /\ dir \in [Flags -> File \cup {None}]
    /\ \A j \in AtWork : /\ jobs[j].flag \in Flag /\ jobs[j].save \in 1..saves
                         /\ jobs[j].seen \in File \cup {None}
    /\ \A p \in Service : waits[p] # None => waits[p] \in AtWork
    /\ conn \in [Conn -> {"fresh", "ok", "failing", "flagged"}]
    /\ scan.names \subseteq Flags /\ scan.got \subseteq Flags
    /\ saves \in 0..MaxSaves /\ restarts \in 0..MaxRestarts
    /\ mixed \subseteq Flag

\* However saves overlap, the counter of a flag never exceeds the number of times
\* it was raised.
NotOverCounted == \A f \in Up : dir[f].count <= asked[f].ups

\* As long as the saves of a flag did not overlap, its counter is the number of
\* times it was raised since it was last down, and its date is that of the first.
CountExact ==
    \A f \in Up \ mixed : /\ dir[f].count = Cardinality(since[f])
                          /\ dir[f].date \in since[f] /\ \A s \in since[f] : dir[f].date <= s

\* Saves of a flag that did not overlap do what they say: when they are over the
\* flag is up if the last one raised it, down if the last one took it down, unless
\* raise-flag refused to take it down.
LastSaveWins ==
    \A f \in Flag \ mixed :
        ~Busy(f) /\ ~asked[f].refused => (f \in Up <=> asked[f].up)

\* load_flags() returns flags that were up, and all those that were up from start
\* to end, or else says that there are too many. --raised exits with 0 only when
\* no flag was up all along.
ListSound ==
    scan.step = "done" =>
        /\ scan.got \subseteq scan.ever
        /\ scan.many \/ scan.always \subseteq scan.got

\* The flag of the connections goes away when they all work, also if an earlier run
\* of the daemon raised it.
ConnFlagCleared == (\A c \in Conn : conn[c] = "ok") => ConnFlag \notin Up

=============================================================================
