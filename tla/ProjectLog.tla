----------------------------- MODULE ProjectLog -----------------------------
(***************************************************************************)
(* The event log of a project and the projections derived from it: pos-log  *)
(* over pos-store's single SQLite file, shared by the processes that have   *)
(* the project open (one UI plus one CLI).                                  *)
(*                                                                          *)
(* db is the committed content of project.db; tx is the working copy of the *)
(* one IMMEDIATE transaction that may be in flight, owned by one process.   *)
(* A process runs one build of the product, whose projection registry has a  *)
(* schema digest; the digest stands for the registry.  The projection       *)
(* tables are kept as the sequence of applications that produced them, each *)
(* an event together with the registry that applied it: every projection is *)
(* a function of that sequence, so two tables agree whenever these do.      *)
(***************************************************************************)
EXTENDS Integers, Sequences, FiniteSets

CONSTANTS
    LogProcs,     \* processes that may open the project
    Registries,   \* projection registries, by schema digest
    Devices,      \* devices events are attributed to
    EventBodies,  \* event bodies
    Cadence,      \* snapshot_cadence_events
    KeepCount,    \* SNAPSHOT_KEEP_COUNT
    MaxLog,       \* bound: events in the log
    MaxDamage,    \* bound: snapshots damaged out of band
    NoDigest,     \* log_state holds no schema digest yet
    Undecodable,  \* a snapshot body that no longer decodes
    NoTx, NoProc

Events == [device: Devices, lamport: Nat, body: EventBodies]
Applications == [by: Registries, event: Events]
Snapshots == [seq: Nat, digest: Registries, body: Seq(Applications) \cup {Undecodable}]
Files == [events: Seq(Events), devices: [Devices -> Nat], tables: Seq(Applications),
          applied: Nat, digest: Registries \cup {NoDigest}, snapshots: SUBSET Snapshots]

ASSUME LogAssumption ==
    /\ Cadence \in Nat \ {0}
    /\ KeepCount \in Nat \ {0}
    /\ MaxLog \in Nat
    /\ MaxDamage \in Nat
    /\ NoDigest \notin Registries
    /\ Undecodable \notin Seq(Applications)
    /\ NoTx \notin Files
    /\ NoProc \notin LogProcs

VARIABLES
    db,       \* the committed file
    tx,       \* the working copy of the transaction in flight
    owner,    \* the process that holds the write lock
    kind,     \* what the transaction does
    mode,     \* mode[p]: "closed", "opening", "open" or "failStopped"
    runsBuild,\* runsBuild[p]: the registry of the build the process runs
    damage    \* snapshots damaged out of band so far

logVars == <<db, tx, owner, kind, mode, runsBuild, damage>>

HeadSeq(file) == Len(file.events)

(* What replaying the first n events through registry r derives.             *)
ReplayOf(r, events, n) == [i \in 1..n |-> [by |-> r, event |-> events[i]]]

-----------------------------------------------------------------------------
(* Steps of a transaction on its working copy.                              *)

(* write_snapshot: upsert under the seq, then keep the newest KeepCount.     *)
Newest(snaps) ==
    {s \in snaps : Cardinality({t \in snaps : t.seq > s.seq}) < KeepCount}

WithSnapshot(file, r, seq) ==
    LET new == [seq |-> seq, digest |-> r, body |-> file.tables]
        others == {s \in file.snapshots : s.seq # seq}
    IN [file EXCEPT !.snapshots = Newest(others \cup {new})]

SnapshotIfDue(file, r) ==
    IF file.applied % Cadence = 0 THEN WithSnapshot(file, r, file.applied) ELSE file

(* apply_event: every projection of the registry, then applied_seq.          *)
WithApplied(file, r, event, seq) ==
    [file EXCEPT !.tables = Append(@, [by |-> r, event |-> event]), !.applied = seq]

(* next_device_lamport and insert_event.                                     *)
WithEvent(file, d, b) ==
    LET lamport == file.devices[d] + 1
    IN [file EXCEPT !.devices[d] = lamport,
                    !.events = Append(@, [device |-> d, lamport |-> lamport, body |-> b])]

Cleared(file) == [file EXCEPT !.tables = <<>>, !.applied = 0]

(* restore_latest_snapshot: the newest one of this registry, and nothing     *)
(* older when that one does not decode.                                      *)
Usable(file, r) == {s \in file.snapshots : s.digest = r /\ s.seq <= HeadSeq(file)}

(* Slip of Restored: the log is cut back to the snapshot as well.            *)
RestoredTruncates(file, r) ==
    LET cleared == Cleared(file)
        best == CHOOSE s \in Usable(file, r) : \A t \in Usable(file, r) : t.seq <= s.seq
    IN IF Usable(file, r) = {} \/ best.body = Undecodable
       THEN cleared
       ELSE [cleared EXCEPT !.tables = best.body, !.applied = best.seq,
                            !.events = SubSeq(@, 1, best.seq)]

Restored(file, r) ==
    LET cleared == Cleared(file)
        best == CHOOSE s \in Usable(file, r) : \A t \in Usable(file, r) : t.seq <= s.seq
    IN IF Usable(file, r) = {} \/ best.body = Undecodable
       THEN cleared
       ELSE [cleared EXCEPT !.tables = best.body, !.applied = best.seq]

-----------------------------------------------------------------------------
LogInit ==
    /\ db = [events |-> <<>>, devices |-> [d \in Devices |-> 0], tables |-> <<>>,
             applied |-> 0, digest |-> NoDigest, snapshots |-> {}]
    /\ tx = NoTx
    /\ owner = NoProc
    /\ kind = "none"
    /\ mode = [p \in LogProcs |-> "closed"]
    /\ runsBuild \in [LogProcs -> Registries]
    /\ damage = 0

(* BEGIN IMMEDIATE: one transaction at a time, on a copy of the file.        *)
Begin(p, file, k) ==
    /\ owner = NoProc
    /\ owner' = p
    /\ tx' = file
    /\ kind' = k

EndTransaction ==
    /\ owner' = NoProc
    /\ tx' = NoTx
    /\ kind' = "none"

(* A build is installed only while its process is down.                      *)
Install(p, r) ==
    /\ mode[p] = "closed"
    /\ runsBuild[p] # r
    /\ runsBuild' = [runsBuild EXCEPT ![p] = r]
    /\ UNCHANGED <<db, tx, owner, kind, mode, damage>>

(* Slip of OpenBegin: only a file without a digest is rebuilt.               *)
OpenBeginTrustsDigest(p) ==
    /\ mode[p] = "closed"
    /\ mode' = [mode EXCEPT ![p] = "opening"]
    /\ IF db.digest = NoDigest
       THEN Begin(p, [Cleared(db) EXCEPT !.snapshots = {}], "rebuild")
       ELSE Begin(p, db, "tail")
    /\ UNCHANGED <<db, runsBuild, damage>>

(* open_projections: rebuild under a changed registry, otherwise the tail    *)
(* (none when applied_seq is the head).  A file that is ahead of its own log *)
(* is refused.                                                               *)
OpenBegin(p) ==
    /\ mode[p] = "closed"
    /\ mode' = [mode EXCEPT ![p] = "opening"]
    /\ \/ /\ db.digest # runsBuild[p]
          /\ Begin(p, [Cleared(db) EXCEPT !.snapshots = {s \in @ : s.digest = runsBuild[p]}], "rebuild")
       \/ /\ db.digest = runsBuild[p]
          /\ db.applied <= HeadSeq(db)
          /\ Begin(p, db, "tail")
    /\ UNCHANGED <<db, runsBuild, damage>>

(* rebuild_projections and restore_from_snapshot_and_tail on an open log.    *)
RebuildBegin(p) ==
    /\ mode[p] = "open"
    /\ Begin(p, [Cleared(db) EXCEPT !.snapshots = {s \in @ : s.digest = runsBuild[p]}], "rebuild")
    /\ UNCHANGED <<db, mode, runsBuild, damage>>

RestoreBegin(p) ==
    /\ mode[p] = "open"
    /\ Begin(p, Restored(db, runsBuild[p]), "restore")
    /\ UNCHANGED <<db, mode, runsBuild, damage>>

(* replay_range, one event: only the paths with a policy rewrite snapshots.  *)
ReplayOne(p) ==
    LET r == runsBuild[p]
        seq == tx.applied + 1
        applied == WithApplied(tx, r, tx.events[seq], seq)
    IN /\ owner = p
       /\ kind \in {"rebuild", "tail", "restore"}
       /\ tx.applied < HeadSeq(tx)
       /\ tx' = IF kind = "restore" THEN applied ELSE SnapshotIfDue(applied, r)
       /\ UNCHANGED <<db, owner, kind, mode, runsBuild, damage>>

(* The replay is done: the digest is written and the transaction commits.    *)
ReplayCommit(p) ==
    /\ owner = p
    /\ kind \in {"rebuild", "tail", "restore"}
    /\ tx.applied = HeadSeq(tx)
    /\ db' = [tx EXCEPT !.digest = runsBuild[p]]
    /\ mode' = [mode EXCEPT ![p] = "open"]
    /\ EndTransaction
    /\ UNCHANGED <<runsBuild, damage>>

(* append_batch_inner: the transaction, one event after the other.  The      *)
(* code asserts head = applied_seq here; a stale expected_head aborts.       *)
AppendBegin(p) ==
    /\ mode[p] = "open"
    /\ HeadSeq(db) = db.applied
    /\ Begin(p, db, "append")
    /\ UNCHANGED <<db, mode, runsBuild, damage>>

AppendOne(p, d, b) ==
    /\ owner = p
    /\ kind = "append"
    /\ HeadSeq(tx) < MaxLog
    /\ LET inserted == WithEvent(tx, d, b)
           seq == HeadSeq(inserted)
       IN tx' = SnapshotIfDue(WithApplied(inserted, runsBuild[p], inserted.events[seq], seq), runsBuild[p])
    /\ UNCHANGED <<db, owner, kind, mode, runsBuild, damage>>

AppendCommit(p) ==
    /\ owner = p
    /\ kind = "append"
    /\ HeadSeq(tx) > HeadSeq(db)
    /\ db' = tx
    /\ EndTransaction
    /\ UNCHANGED <<mode, runsBuild, damage>>

(* An error inside the transaction (a fault point, a projection that refuses *)
(* the event, HeadChanged) rolls the working copy back.                      *)
Rollback(p) ==
    /\ owner = p
    /\ mode' = [mode EXCEPT ![p] = IF @ = "opening" THEN "closed" ELSE @]
    /\ EndTransaction
    /\ UNCHANGED <<db, runsBuild, damage>>

(* An I/O-class failure at commit: the caller cannot know whether the file   *)
(* has the transaction, and the handle refuses every later call.             *)
CommitLost(p) ==
    /\ owner = p
    /\ IF kind = "append" THEN HeadSeq(tx) > HeadSeq(db) ELSE tx.applied = HeadSeq(tx)
    /\ db' \in {db, IF kind = "append" THEN tx ELSE [tx EXCEPT !.digest = runsBuild[p]]}
    /\ mode' = [mode EXCEPT ![p] = IF @ = "opening" THEN "closed" ELSE "failStopped"]
    /\ EndTransaction
    /\ UNCHANGED <<runsBuild, damage>>

(* The process exits or is killed, with or without the write lock.           *)
Exit(p) ==
    /\ mode[p] # "closed"
    /\ mode' = [mode EXCEPT ![p] = "closed"]
    /\ IF owner = p THEN EndTransaction ELSE UNCHANGED <<tx, owner, kind>>
    /\ UNCHANGED <<db, runsBuild, damage>>

(* A stored snapshot rots.                                                   *)
DamageSnapshot(s) ==
    /\ s \in db.snapshots
    /\ s.body # Undecodable
    /\ owner = NoProc
    /\ damage < MaxDamage
    /\ damage' = damage + 1
    /\ db' = [db EXCEPT !.snapshots = (@ \ {s}) \cup {[s EXCEPT !.body = Undecodable]}]
    /\ UNCHANGED <<tx, owner, kind, mode, runsBuild>>

ProcNext(p) ==
    \/ RebuildBegin(p)
    \/ RestoreBegin(p)
    \/ ReplayOne(p)
    \/ ReplayCommit(p)
    \/ AppendBegin(p)
    \/ \E d \in Devices, b \in EventBodies : AppendOne(p, d, b)
    \/ AppendCommit(p)
    \/ Rollback(p)
    \/ CommitLost(p)
    \/ Exit(p)

LogNext ==
    \/ \E p \in LogProcs : OpenBegin(p) \/ ProcNext(p)
    \/ \E p \in LogProcs, r \in Registries : Install(p, r)
    \/ \E s \in db.snapshots : DamageSnapshot(s)

(* Processes that have the project open at the same time run the same build. *)
SameBuild(p) == \A q \in LogProcs : mode[q] # "closed" => runsBuild[q] = runsBuild[p]

UniformNext ==
    \/ \E p \in LogProcs : (SameBuild(p) /\ OpenBegin(p)) \/ ProcNext(p)
    \/ \E p \in LogProcs, r \in Registries : Install(p, r)
    \/ \E s \in db.snapshots : DamageSnapshot(s)

LogSpec == LogInit /\ [][LogNext]_logVars
UniformSpec == LogInit /\ [][UniformNext]_logVars

-----------------------------------------------------------------------------
(* Types of the file, of the transaction and of the processes.               *)
LogTypeOK ==
    /\ db \in Files
    /\ tx \in Files \cup {NoTx}
    /\ owner \in LogProcs \cup {NoProc}
    /\ kind \in {"none", "rebuild", "tail", "restore", "append"}
    /\ owner = NoProc <=> tx = NoTx
    /\ owner = NoProc <=> kind = "none"
    /\ mode \in [LogProcs -> {"closed", "opening", "open", "failStopped"}]
    /\ runsBuild \in [LogProcs -> Registries]
    /\ damage \in Nat

(* The projections are the replay of the log under the registry whose digest *)
(* the file records, whatever mix of appends, rebuilds, restores, crashes    *)
(* and failed commits produced them, and applied_seq is at its head.         *)
TablesAreReplay ==
    /\ db.applied = HeadSeq(db)
    /\ db.digest # NoDigest => db.tables = ReplayOf(db.digest, db.events, HeadSeq(db))

(* A snapshot that decodes is the replay of its prefix of the log, so that   *)
(* restore plus tail equals a full replay.                                   *)
SnapshotsAreReplay ==
    \A s \in db.snapshots : s.body # Undecodable =>
        /\ s.seq <= HeadSeq(db)
        /\ s.body = ReplayOf(s.digest, db.events, s.seq)

(* Per device, lamports are 1, 2, 3, ... in seq order.                       *)
LamportsContiguous ==
    \A i \in 1..HeadSeq(db) :
        LET e == db.events[i]
        IN e.lamport = Cardinality({k \in 1..i : db.events[k].device = e.device})

(* Old events are eternal: the log only ever grows at its end.               *)
EventsEternal ==
    [][/\ HeadSeq(db) <= Len(db'.events)
       /\ \A i \in 1..HeadSeq(db) : db'.events[i] = db.events[i]]_logVars

(* The file is sound: typed, its tables and its snapshots the replay of its    *)
(* log, its lamports contiguous.                                             *)
LogSound == LogTypeOK /\ TablesAreReplay /\ SnapshotsAreReplay /\ LamportsContiguous
=============================================================================
