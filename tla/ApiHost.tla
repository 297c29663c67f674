------------------------------- MODULE ApiHost -------------------------------
(***************************************************************************)
(* The session table and the background worker pool of an api host           *)
(* (pos-api session.rs, workers.rs, lib.rs; ProjectRegistry of pos-sched).   *)
(*                                                                           *)
(* Opening a project writes its session row and then registers it with the   *)
(* pool; closing removes the row and then the registration.  Each half has   *)
(* its own lock, so calls on several connections interleave between them.    *)
(* A queue is its depth here, and the pool takes jobs of the projects it is  *)
(* registered with; JobQueue has the queue itself.                           *)
(***************************************************************************)
EXTENDS Integers, FiniteSets

CONSTANTS
    Projects,      \* projects on disk
    Connections,       \* connections that call the host
    OpenMax,       \* OPEN_PROJECT_COUNT_MAX
    RegistryMax,   \* PROJECT_REGISTRY_COUNT_MAX
    MaxJobs,       \* bound: jobs queued at once in a project
    MaxFaults,     \* bound: failed schema writes and unreadable queues
    MaxStarts,     \* bound: pools started
    NoProject

ASSUME HostAssumption ==
    /\ OpenMax \in Nat \ {0} /\ RegistryMax \in Nat \ {0}
    /\ MaxJobs \in Nat /\ MaxFaults \in Nat /\ MaxStarts \in Nat
    /\ NoProject \notin Projects

VARIABLES
    tracked,    \* OpenProjects.rows
    served,     \* ProjectRegistry of the pool
    pool,       \* "none", "running", "stopping" or "stopped"
    depth,      \* queued jobs of each project
    calling,    \* the call each connection is in
    starts,
    faults,
    muddled     \* history: projects that an open and a close, or a failed
                \* registration, or a new pool left to chance

hostVars == <<tracked, served, pool, depth, calling, starts, faults, muddled>>

NoCalling == [op |-> "idle", project |-> NoProject, left |-> {}, queued |-> 0, unread |-> FALSE]

HostInit ==
    /\ tracked = {}
    /\ served = {}
    /\ pool = "none"
    /\ depth = [p \in Projects |-> 0]
    /\ calling = [c \in Connections |-> NoCalling]
    /\ starts = 0
    /\ faults = 0
    /\ muddled = {}

CallRests(c) == calling' = [calling EXCEPT ![c] = NoCalling]
HasPool == pool # "none"

(* Another connection is half way through the opposite call on p.            *)
Overlaps(c, p, opposite) ==
    \E d \in Connections \ {c} : calling[d].op = opposite /\ calling[d].project = p

-----------------------------------------------------------------------------
(* start_background_workers takes the runtime exclusively: no call is under   *)
(* way.  The new pool has an empty registry.                                 *)
StartPool(comesUp) ==
    /\ starts < MaxStarts
    /\ \A c \in Connections : calling[c].op = "idle"
    /\ pool \in {"none", "stopped"}
    /\ starts' = starts + 1
    /\ pool' = IF comesUp THEN "running" ELSE "none"
    /\ served' = {}
    /\ muddled' = muddled \cup tracked
    /\ UNCHANGED <<tracked, depth, calling, faults>>

(* shutdown: the pool stops claiming, and is gone when its jobs are.         *)
StopPool ==
    /\ pool = "running"
    /\ pool' = "stopping"
    /\ UNCHANGED <<tracked, served, depth, calling, starts, faults, muddled>>

PoolStops ==
    /\ pool = "stopping"
    /\ pool' = "stopped"
    /\ UNCHANGED <<tracked, served, depth, calling, starts, faults, muddled>>

-----------------------------------------------------------------------------
TableFull(p) == Cardinality(tracked) >= OpenMax /\ p \notin tracked

(* OpenProjects::open.  Without a pool that is all.                          *)
OpenRow(c, p) ==
    /\ calling[c].op = "idle"
    /\ ~TableFull(p)
    /\ tracked' = tracked \cup {p}
    /\ calling' = [calling EXCEPT ![c] =
                     IF HasPool THEN [NoCalling EXCEPT !.op = "register", !.project = p]
                     ELSE NoCalling]
    /\ muddled' = IF Overlaps(c, p, "unregister") THEN muddled \cup {p} ELSE muddled
    /\ UNCHANGED <<served, pool, depth, starts, faults>>

RegistryFull(p) == Cardinality(served) >= RegistryMax /\ p \notin served

Register(c) ==
    LET p == calling[c].project IN
    /\ calling[c].op = "register"
    /\ ~RegistryFull(p)
    /\ served' = served \cup {p}
    /\ CallRests(c)
    /\ UNCHANGED <<tracked, pool, depth, starts, faults, muddled>>

(* The registry is full, or the lease table cannot be created: the open       *)
(* fails, and the row stays.                                                 *)
RegisterFails(c) ==
    LET p == calling[c].project
        full == RegistryFull(p)
    IN /\ calling[c].op = "register"
       /\ full \/ faults < MaxFaults
       /\ faults' = IF full THEN faults ELSE faults + 1
       /\ muddled' = muddled \cup {p}
       /\ CallRests(c)
       /\ UNCHANGED <<tracked, served, pool, depth, starts>>

(* OpenProjects::close; a project that is not tracked is refused.            *)
CloseRow(c, p) ==
    /\ calling[c].op = "idle"
    /\ p \in tracked
    /\ tracked' = tracked \ {p}
    /\ calling' = [calling EXCEPT ![c] =
                     IF HasPool THEN [NoCalling EXCEPT !.op = "unregister", !.project = p]
                     ELSE NoCalling]
    /\ muddled' = IF Overlaps(c, p, "register") THEN muddled \cup {p} ELSE muddled \ {p}
    /\ UNCHANGED <<served, pool, depth, starts, faults>>

(* Slip of Unregister: the registration stays.                               *)
UnregisterNothing(c) ==
    /\ calling[c].op = "unregister"
    /\ CallRests(c)
    /\ UNCHANGED <<tracked, served, pool, depth, starts, faults, muddled>>

Unregister(c) ==
    /\ calling[c].op = "unregister"
    /\ served' = served \ {calling[c].project}
    /\ CallRests(c)
    /\ UNCHANGED <<tracked, pool, depth, starts, faults, muddled>>

-----------------------------------------------------------------------------
(* ingest_submit and ingest_reprocess open the log themselves: a project      *)
(* need not be in the session for work to be queued in it.                   *)
QueueWork(p) ==
    /\ depth[p] < MaxJobs
    /\ depth' = [depth EXCEPT ![p] = @ + 1]
    /\ UNCHANGED <<tracked, served, pool, calling, starts, faults, muddled>>

PoolWorks(p) ==
    /\ pool \in {"running", "stopping"}
    /\ p \in served
    /\ depth[p] > 0
    /\ depth' = [depth EXCEPT ![p] = @ - 1]
    /\ UNCHANGED <<tracked, served, pool, calling, starts, faults, muddled>>

(* drain: rounds of queue_totals over a snapshot of the registry, until one   *)
(* finds nothing queued or the time is up.                                   *)
DrainStart(c) ==
    /\ calling[c].op = "idle"
    /\ HasPool
    /\ calling' = [calling EXCEPT ![c] = [NoCalling EXCEPT !.op = "drain", !.left = served]]
    /\ UNCHANGED <<tracked, served, pool, depth, starts, faults, muddled>>

DrainRead(c, p, readable) ==
    /\ calling[c].op = "drain"
    /\ p \in calling[c].left
    /\ ~readable => faults < MaxFaults
    /\ faults' = IF readable THEN faults ELSE faults + 1
    /\ calling' = [calling EXCEPT ![c].left = @ \ {p},
                                  ![c].queued = IF readable THEN @ + depth[p] ELSE @,
                                  ![c].unread = @ \/ ~readable]
    /\ UNCHANGED <<tracked, served, pool, depth, starts, muddled>>

DrainRound(c, timeUp) ==
    /\ calling[c].op = "drain"
    /\ calling[c].left = {}
    /\ calling' = [calling EXCEPT ![c] =
                     IF calling[c].queued = 0 \/ timeUp THEN [@ EXCEPT !.op = "drained"]
                     ELSE [NoCalling EXCEPT !.op = "drain", !.left = served]]
    /\ UNCHANGED <<tracked, served, pool, depth, starts, faults, muddled>>

DrainReturns(c) ==
    /\ calling[c].op = "drained"
    /\ CallRests(c)
    /\ UNCHANGED <<tracked, served, pool, depth, starts, faults, muddled>>

HostNext ==
    \/ \E up \in BOOLEAN : StartPool(up)
    \/ StopPool \/ PoolStops
    \/ \E p \in Projects : QueueWork(p) \/ PoolWorks(p)
    \/ \E c \in Connections :
          \/ \E p \in Projects : OpenRow(c, p) \/ CloseRow(c, p)
          \/ Register(c) \/ RegisterFails(c) \/ Unregister(c)
          \/ DrainStart(c) \/ DrainReturns(c)
          \/ \E p \in Projects, readable \in BOOLEAN : DrainRead(c, p, readable)
          \/ \E timeUp \in BOOLEAN : DrainRound(c, timeUp)

HostSpec == HostInit /\ [][HostNext]_hostVars

-----------------------------------------------------------------------------
Quiet(p) == \A c \in Connections : calling[c].project # p

(* The table keeps its limit, and a project no call is working on is served   *)
(* exactly when it is tracked, unless an open and a close of it overlapped,   *)
(* its registration failed, or the pool was started after it.                *)
SessionAgrees ==
    /\ Cardinality(tracked) <= OpenMax
    /\ HasPool => \A p \in Projects \ muddled : Quiet(p) => (p \in tracked <=> p \in served)

(* What open_project promises: "Registration failing fails the open".  A      *)
(* project whose registration just failed, and that nothing else serves, is    *)
(* not left in the table that project.list shows.                             *)
FailedOpenUntracked ==
    [][\A c \in Connections :
          LET p == calling[c].project IN
          calling[c].op = "register" /\ calling'[c].op = "idle" /\ p \notin served'
              => p \notin tracked']_hostVars
=============================================================================
