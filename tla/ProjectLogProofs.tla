--------------------------- MODULE ProjectLogProofs ---------------------------
(***************************************************************************)
(* Proofs about ProjectLog, for every set of processes, registries, devices  *)
(* and event bodies and for every snapshot cadence and retention.            *)
(***************************************************************************)
EXTENDS ProjectLog, FiniteSetTheorems, WellFoundedInduction, TLAPS

-----------------------------------------------------------------------------
(* The steps of a transaction, field by field.                              *)

(* Replaying a prefix of the log yields applications.                        *)
LEMMA ReplayType ==
    ASSUME NEW r \in Registries, NEW e \in Seq(Events), NEW n \in Nat, n <= Len(e)
    PROVE  /\ ReplayOf(r, e, n) \in Seq(Applications)
           /\ Len(ReplayOf(r, e, n)) = n
           /\ n = 0 => ReplayOf(r, e, n) = <<>>
<1> DEFINE R == ReplayOf(r, e, n)
<1>1. \A i \in 1..n : [by |-> r, event |-> e[i]] \in Applications
  BY DEF Applications
<1>2. R \in [1..n -> Applications]
  BY <1>1 DEF ReplayOf
<1>3. R \in Seq(Applications) /\ Len(R) = n
  BY <1>2
<1>4. n = 0 => R = <<>>
  BY <1>3
<1> QED
  BY <1>3, <1>4

(* The replay of a longer prefix is one application more.                    *)
LEMMA ReplayExtends ==
    ASSUME NEW r \in Registries, NEW e \in Seq(Events), NEW n \in Nat, n + 1 <= Len(e)
    PROVE  Append(ReplayOf(r, e, n), [by |-> r, event |-> e[n + 1]]) = ReplayOf(r, e, n + 1)
<1> DEFINE R == ReplayOf(r, e, n)
           S == ReplayOf(r, e, n + 1)
           x == [by |-> r, event |-> e[n + 1]]
<1>1. R \in Seq(Applications) /\ Len(R) = n /\ S \in Seq(Applications) /\ Len(S) = n + 1
  BY ReplayType
<1>2. x \in Applications
  BY DEF Applications
<1>3. \A i \in 1..n : R[i] = S[i]
  BY DEF ReplayOf
<1>4. S[n + 1] = x
  BY DEF ReplayOf
<1> HIDE DEF R, S, x
<1>5. Append(R, x) \in Seq(Applications) /\ Len(Append(R, x)) = n + 1
  BY <1>1, <1>2
<1>6. \A i \in 1..(n + 1) : Append(R, x)[i] = S[i]
  BY <1>1, <1>2, <1>3, <1>4
<1>7. Append(R, x) = S
  BY <1>1, <1>5, <1>6
<1> QED
  BY <1>7 DEF R, S, x

(* A replay depends only on the events it replays.                           *)
LEMMA ReplaySame ==
    ASSUME NEW r, NEW e, NEW f, NEW n \in Nat, \A i \in 1..n : e[i] = f[i]
    PROVE  ReplayOf(r, e, n) = ReplayOf(r, f, n)
BY DEF ReplayOf

(* A nonempty set of natural numbers has a least element.                    *)
LEMMA LeastNatural ==
    ASSUME NEW T \in SUBSET Nat, T # {}
    PROVE  \E m \in T : \A y \in T : m <= y
<1> DEFINE Less == {ss \in Nat \X Nat : ss[1] < ss[2]}
<1>1. IsWellFoundedOn(Less, Nat)
  BY NatLessThanWellFounded, Zenon DEF OpToRel
<1> HIDE DEF Less
<1>0. T \subseteq Nat
  OBVIOUS
<1>2. PICK m \in T : \A y \in T : ~(<<y, m>> \in Less)
  BY <1>0, <1>1, WFMin
<1>4. \A y \in T : ~(y < m)
  BY <1>0, <1>2 DEF Less
<1>5. m \in Nat /\ \A y \in T : y \in Nat
  BY <1>0, <1>2
<1>3. \A y \in T : m <= y
  BY <1>4, <1>5
<1> QED
  BY <1>3

(* The newest snapshot of a registry exists when it has one.                 *)
LEMMA NewestUsable ==
    ASSUME NEW file \in Files, NEW r, Usable(file, r) # {}
    PROVE  \E s \in Usable(file, r) : \A t \in Usable(file, r) : t.seq <= s.seq
<1> DEFINE U == Usable(file, r)
           h == HeadSeq(file)
           T == {h - s.seq : s \in U}
<1>1. h \in Nat
  BY DEF Files, HeadSeq
<1>2. \A s \in U : s.seq \in Nat /\ s.seq <= h
  BY DEF Usable, Files, Snapshots
<1>3. T \subseteq Nat /\ T # {}
  BY <1>1, <1>2
<1> HIDE DEF T, h, U
<1>4. PICK m \in T : \A y \in T : m <= y
  BY <1>3, LeastNatural
<1>5. PICK s \in U : m = h - s.seq
  BY <1>4 DEF T
<1>6. \A t \in U : h - t.seq \in T
  BY DEF T
<1>7. \A t \in U : t.seq <= s.seq
  BY <1>1, <1>2, <1>4, <1>5, <1>6
<1> QED
  BY <1>7 DEF U

(* Clearing the projections leaves the log, its devices and the snapshots.   *)
LEMMA ClearedFile ==
    ASSUME NEW file \in Files
    PROVE  /\ Cleared(file) \in Files
           /\ Cleared(file).events = file.events
           /\ Cleared(file).devices = file.devices
           /\ Cleared(file).tables = <<>>
           /\ Cleared(file).applied = 0
           /\ Cleared(file).digest = file.digest
           /\ Cleared(file).snapshots = file.snapshots
<1>1. <<>> \in Seq(Applications)
  OBVIOUS
<1> QED
  BY <1>1 DEF Cleared, Files

(* Dropping snapshots changes nothing else.                                  *)
LEMMA KeepFile ==
    ASSUME NEW file \in Files, NEW S \in SUBSET Snapshots
    PROVE  LET f == [file EXCEPT !.snapshots = S]
           IN /\ f \in Files
              /\ f.events = file.events
              /\ f.devices = file.devices
              /\ f.tables = file.tables
              /\ f.applied = file.applied
              /\ f.digest = file.digest
              /\ f.snapshots = S
BY DEF Files

(* Recording the digest changes nothing else.                                *)
LEMMA DigestFile ==
    ASSUME NEW file \in Files, NEW r \in Registries
    PROVE  LET f == [file EXCEPT !.digest = r]
           IN /\ f \in Files
              /\ f.events = file.events
              /\ f.devices = file.devices
              /\ f.tables = file.tables
              /\ f.applied = file.applied
              /\ f.digest = r
              /\ f.snapshots = file.snapshots
BY DEF Files

(* Applying an event leaves the log, its devices and the snapshots.          *)
LEMMA AppliedFile ==
    ASSUME NEW file \in Files, NEW r \in Registries, NEW e \in Events, NEW seq \in Nat
    PROVE  LET f == WithApplied(file, r, e, seq)
           IN /\ f \in Files
              /\ f.events = file.events
              /\ f.devices = file.devices
              /\ f.tables = Append(file.tables, [by |-> r, event |-> e])
              /\ f.applied = seq
              /\ f.digest = file.digest
              /\ f.snapshots = file.snapshots
<1> DEFINE x == [by |-> r, event |-> e]
<1>1. x \in Applications
  BY DEF Applications
<1>2. WithApplied(file, r, e, seq) = [file EXCEPT !.tables = Append(@, x), !.applied = seq]
  BY DEF WithApplied
<1> HIDE DEF x
<1>3. Append(file.tables, x) \in Seq(Applications)
  BY <1>1 DEF Files
<1>4. LET f == WithApplied(file, r, e, seq)
      IN /\ f \in Files
         /\ f.events = file.events
         /\ f.devices = file.devices
         /\ f.tables = Append(file.tables, x)
         /\ f.applied = seq
         /\ f.digest = file.digest
         /\ f.snapshots = file.snapshots
  BY <1>2, <1>3 DEF Files
<1> QED
  BY <1>4 DEF x

(* The event a device appends next.                                          *)
NextEvent(file, d, b) == [device |-> d, lamport |-> file.devices[d] + 1, body |-> b]

(* Inserting an event appends it under the device's next lamport.            *)
LEMMA InsertedFile ==
    ASSUME NEW file \in Files, NEW d \in Devices, NEW b \in EventBodies
    PROVE  LET f == WithEvent(file, d, b)
               e == NextEvent(file, d, b)
           IN /\ f \in Files
              /\ e \in Events
              /\ f.events = Append(file.events, e)
              /\ f.devices = [file.devices EXCEPT ![d] = file.devices[d] + 1]
              /\ f.tables = file.tables
              /\ f.applied = file.applied
              /\ f.digest = file.digest
              /\ f.snapshots = file.snapshots
<1> DEFINE l == file.devices[d] + 1
           e == [device |-> d, lamport |-> l, body |-> b]
<1>1. l \in Nat
  BY DEF Files
<1>2. e \in Events
  BY <1>1 DEF Events
<1>3. [file.devices EXCEPT ![d] = l] \in [Devices -> Nat]
  BY <1>1 DEF Files
<1>4. WithEvent(file, d, b) = [file EXCEPT !.devices[d] = l, !.events = Append(@, e)]
  BY DEF WithEvent
<1> HIDE DEF e, l
<1>5. Append(file.events, e) \in Seq(Events)
  BY <1>2 DEF Files
<1>6. LET f == WithEvent(file, d, b)
      IN /\ f \in Files
         /\ e \in Events
         /\ f.events = Append(file.events, e)
         /\ f.devices = [file.devices EXCEPT ![d] = l]
         /\ f.tables = file.tables
         /\ f.applied = file.applied
         /\ f.digest = file.digest
         /\ f.snapshots = file.snapshots
  BY <1>2, <1>3, <1>4, <1>5 DEF Files
<1> QED
  BY <1>6 DEF e, l, NextEvent

(* The snapshot of a file's tables.                                          *)
SnapshotOf(file, r) == [seq |-> file.applied, digest |-> r, body |-> file.tables]

(* A snapshot that is written is the tables under their sequence number; the *)
(* ones retained were there before.                                          *)
LEMMA SnapshotFile ==
    ASSUME NEW file \in Files, NEW r \in Registries
    PROVE  LET f == SnapshotIfDue(file, r)
           IN /\ f \in Files
              /\ f.events = file.events
              /\ f.devices = file.devices
              /\ f.tables = file.tables
              /\ f.applied = file.applied
              /\ f.digest = file.digest
              /\ \A s \in f.snapshots : \/ s \in file.snapshots
                                        \/ s = SnapshotOf(file, r)
<1> DEFINE new == [seq |-> file.applied, digest |-> r, body |-> file.tables]
           others == {s \in file.snapshots : s.seq # file.applied}
           S == Newest(others \cup {new})
<1>1. new \in Snapshots
  BY DEF Files, Snapshots
<1>2. S \subseteq others \cup {new}
  BY DEF Newest
<1>3. others \subseteq file.snapshots /\ file.snapshots \subseteq Snapshots
  BY DEF Files
<1>4. SnapshotIfDue(file, r) = file \/ SnapshotIfDue(file, r) = [file EXCEPT !.snapshots = S]
  BY DEF SnapshotIfDue, WithSnapshot
<1> HIDE DEF new, others, S
<1>5. S \in SUBSET Snapshots /\ \A s \in S : s \in file.snapshots \/ s = new
  BY <1>1, <1>2, <1>3
<1>6. LET f == SnapshotIfDue(file, r)
      IN /\ f \in Files
         /\ f.events = file.events
         /\ f.devices = file.devices
         /\ f.tables = file.tables
         /\ f.applied = file.applied
         /\ f.digest = file.digest
         /\ \A s \in f.snapshots : s \in file.snapshots \/ s = new
  <2>1. CASE SnapshotIfDue(file, r) = file
    BY <2>1
  <2>2. CASE SnapshotIfDue(file, r) = [file EXCEPT !.snapshots = S]
    BY <2>2, <1>5 DEF Files
  <2> QED
    BY <1>4, <2>1, <2>2
<1> QED
  BY <1>6 DEF new, SnapshotOf

(* A restored file is cleared, or holds the body of one of its snapshots of  *)
(* this registry.                                                            *)
LEMMA RestoredFile ==
    ASSUME NEW file \in Files, NEW r \in Registries
    PROVE  LET f == Restored(file, r)
           IN /\ f \in Files
              /\ f.events = file.events
              /\ f.devices = file.devices
              /\ f.digest = file.digest
              /\ f.snapshots = file.snapshots
              /\ \/ f.tables = <<>> /\ f.applied = 0
                 \/ \E s \in file.snapshots : /\ s.digest = r
                                              /\ s.seq <= HeadSeq(file)
                                              /\ s.body # Undecodable
                                              /\ f.tables = s.body
                                              /\ f.applied = s.seq
<1> DEFINE cleared == Cleared(file)
           best == CHOOSE s \in Usable(file, r) : \A t \in Usable(file, r) : t.seq <= s.seq
<1>1. CASE Usable(file, r) = {} \/ best.body = Undecodable
  <2>1. Restored(file, r) = Cleared(file)
    BY <1>1 DEF Restored
  <2> QED
    BY <2>1, ClearedFile
<1>2. CASE ~(Usable(file, r) = {} \/ best.body = Undecodable)
  <2>1. Restored(file, r) = [cleared EXCEPT !.tables = best.body, !.applied = best.seq]
    BY <1>2 DEF Restored
  <2>2. best \in Usable(file, r)
    <3>1. Usable(file, r) # {}
      BY <1>2
    <3>2. \E s \in Usable(file, r) : \A t \in Usable(file, r) : t.seq <= s.seq
      BY <3>1, NewestUsable
    <3> QED
      BY <3>2
  <2>3. best.body # Undecodable
    BY <1>2
  <2> HIDE DEF best
  <2>4. /\ best \in file.snapshots
        /\ best.digest = r
        /\ best.seq <= HeadSeq(file)
    BY <2>2 DEF Usable
  <2>5. best.seq \in Nat /\ best.body \in Seq(Applications)
    BY <2>3, <2>4 DEF Files, Snapshots
  <2>6. /\ cleared \in Files
        /\ cleared.events = file.events
        /\ cleared.devices = file.devices
        /\ cleared.digest = file.digest
        /\ cleared.snapshots = file.snapshots
    BY ClearedFile
  <2> HIDE DEF cleared
  <2>7. LET f == Restored(file, r)
        IN /\ f \in Files
           /\ f.events = file.events
           /\ f.devices = file.devices
           /\ f.digest = file.digest
           /\ f.snapshots = file.snapshots
           /\ f.tables = best.body
           /\ f.applied = best.seq
    BY <2>1, <2>5, <2>6 DEF Files
  <2> QED
    BY <2>3, <2>4, <2>7
<1> QED
  BY <1>1, <1>2

(* One event replayed: the log is left alone, applied_seq moves by one, the  *)
(* tables gain the event, and a snapshot that is new is the new tables.      *)
LEMMA ReplayedFile ==
    ASSUME NEW file \in Files, NEW r \in Registries, NEW file2,
           file.applied < HeadSeq(file),
           LET seq == file.applied + 1
               applied == WithApplied(file, r, file.events[seq], seq)
           IN file2 = applied \/ file2 = SnapshotIfDue(applied, r)
    PROVE  /\ file2 \in Files
           /\ file2.events = file.events
           /\ file2.devices = file.devices
           /\ file2.tables = Append(file.tables, [by |-> r, event |-> file.events[file.applied + 1]])
           /\ file2.applied = file.applied + 1
           /\ file2.digest = file.digest
           /\ \A s \in file2.snapshots :
                 \/ s \in file.snapshots
                 \/ s = SnapshotOf(file2, r)
<1> DEFINE seq == file.applied + 1
           e == file.events[seq]
           x == [by |-> r, event |-> e]
           g == WithApplied(file, r, e, seq)
<1>1. seq \in Nat /\ e \in Events
  BY DEF Files, HeadSeq
<1>2. file2 = g \/ file2 = SnapshotIfDue(g, r)
  OBVIOUS
<1>3. /\ g \in Files
      /\ g.events = file.events
      /\ g.devices = file.devices
      /\ g.tables = Append(file.tables, [by |-> r, event |-> e])
      /\ g.applied = seq
      /\ g.digest = file.digest
      /\ g.snapshots = file.snapshots
  <2> HIDE DEF seq, e
  <2> QED
    BY <1>1, AppliedFile
<1>4. g.tables = Append(file.tables, x) /\ g.applied = file.applied + 1
  BY <1>3
<1> HIDE DEF g, x, e, seq
<1>5. CASE file2 = g
  BY <1>3, <1>4, <1>5 DEF x, e, seq
<1>6. CASE file2 = SnapshotIfDue(g, r)
  <2>1. /\ file2 \in Files
        /\ file2.events = g.events
        /\ file2.devices = g.devices
        /\ file2.tables = g.tables
        /\ file2.applied = g.applied
        /\ file2.digest = g.digest
        /\ \A s \in file2.snapshots :
              \/ s \in g.snapshots
              \/ s = SnapshotOf(g, r)
    BY <1>3, <1>6, SnapshotFile
  <2>2. \A s \in file2.snapshots :
              \/ s \in file.snapshots
              \/ s = SnapshotOf(file2, r)
    BY <1>3, <2>1 DEF SnapshotOf
  <2> QED
    BY <1>3, <1>4, <2>1, <2>2 DEF x, e, seq
<1> QED
  BY <1>2, <1>5, <1>6

(* The working copy after one event of the batch.                            *)
AppendedTo(file, r, d, b) ==
    LET inserted == WithEvent(file, d, b)
        seq == HeadSeq(inserted)
    IN SnapshotIfDue(WithApplied(inserted, r, inserted.events[seq], seq), r)

(* One event appended: the log grows by it, under its device's next lamport, *)
(* it is applied at once, and a snapshot that is new is the new tables.      *)
IsAppended(file2, file, r, d, e) ==
    /\ file2 \in Files
    /\ e \in Events
    /\ e.device = d
    /\ e.lamport = file.devices[d] + 1
    /\ file2.events = Append(file.events, e)
    /\ file2.tables = Append(file.tables, [by |-> r, event |-> e])
    /\ file2.applied = HeadSeq(file) + 1
    /\ file2.digest = file.digest
    /\ \A c \in Devices : file2.devices[c] = file.devices[c] + (IF c = d THEN 1 ELSE 0)
    /\ \A s \in file2.snapshots : s \in file.snapshots \/ s = SnapshotOf(file2, r)

(* That is what one event of the batch does to the working copy.             *)
LEMMA AppendedFile ==
    ASSUME NEW file \in Files, NEW r \in Registries, NEW d \in Devices, NEW b \in EventBodies
    PROVE  IsAppended(AppendedTo(file, r, d, b), file, r, d, NextEvent(file, d, b))
<1> DEFINE f == WithEvent(file, d, b)
           seq == HeadSeq(f)
           g == WithApplied(f, r, f.events[seq], seq)
           file2 == AppendedTo(file, r, d, b)
           e == NextEvent(file, d, b)
<1>1. /\ f \in Files
      /\ e \in Events
      /\ f.events = Append(file.events, e)
      /\ f.devices = [file.devices EXCEPT ![d] = file.devices[d] + 1]
      /\ f.tables = file.tables
      /\ f.applied = file.applied
      /\ f.digest = file.digest
      /\ f.snapshots = file.snapshots
  BY InsertedFile
<1>2. file2 = SnapshotIfDue(g, r)
  BY DEF AppendedTo
<1> HIDE DEF e, f, file2
<1>3. seq \in Nat /\ seq = HeadSeq(file) + 1 /\ f.events[seq] = e
  BY <1>1 DEF Files, HeadSeq
<1>4. /\ g \in Files
      /\ g.events = f.events
      /\ g.devices = f.devices
      /\ g.tables = Append(f.tables, [by |-> r, event |-> e])
      /\ g.applied = seq
      /\ g.digest = f.digest
      /\ g.snapshots = f.snapshots
  <2>1. g = WithApplied(f, r, e, seq)
    BY <1>3
  <2>2. f \in Files /\ e \in Events /\ seq \in Nat
    BY <1>1, <1>3
  <2> HIDE DEF g, seq
  <2>3. LET h == WithApplied(f, r, e, seq)
        IN /\ h \in Files
           /\ h.events = f.events
           /\ h.devices = f.devices
           /\ h.tables = Append(f.tables, [by |-> r, event |-> e])
           /\ h.applied = seq
           /\ h.digest = f.digest
           /\ h.snapshots = f.snapshots
    BY <2>2, AppliedFile
  <2> QED
    BY <2>1, <2>3
<1> HIDE DEF g, seq
<1>5. /\ file2 \in Files
      /\ file2.events = g.events
      /\ file2.devices = g.devices
      /\ file2.tables = g.tables
      /\ file2.applied = g.applied
      /\ file2.digest = g.digest
      /\ \A s \in file2.snapshots :
            \/ s \in g.snapshots
            \/ s = SnapshotOf(g, r)
  BY <1>2, <1>4, SnapshotFile
<1>6. \A s \in file2.snapshots :
            \/ s \in file.snapshots
            \/ s = SnapshotOf(file2, r)
  BY <1>1, <1>4, <1>5 DEF SnapshotOf
<1>7. /\ file2 \in Files
      /\ e \in Events
      /\ file2.events = Append(file.events, e)
      /\ file2.tables = Append(file.tables, [by |-> r, event |-> e])
      /\ file2.applied = HeadSeq(file) + 1
      /\ file2.digest = file.digest
  BY <1>1, <1>3, <1>4, <1>5
<1>8. \A c \in Devices : file2.devices[c] = file.devices[c] + (IF c = d THEN 1 ELSE 0)
  BY <1>1, <1>4, <1>5 DEF Files
<1>9. e.device = d /\ e.lamport = file.devices[d] + 1
  BY DEF e, NextEvent
<1>10. IsAppended(file2, file, r, d, e)
  BY <1>6, <1>7, <1>8, <1>9 DEF IsAppended
<1> QED
  BY <1>10 DEF e, file2

-----------------------------------------------------------------------------
(* Old events are eternal, whatever builds the processes run.                *)

(* The log of f starts with the log of g.                                    *)
Extends(f, g) ==
    /\ HeadSeq(g) <= HeadSeq(f)
    /\ \A i \in 1..HeadSeq(g) : f.events[i] = g.events[i]

(* The transaction in flight works on a log that starts with the committed   *)
(* one.                                                                      *)
LogBase == LogTypeOK /\ (owner # NoProc => Extends(tx, db))

(* A new project has the base invariant.                                     *)
LEMMA InitBase == LogInit => LogBase
<1> SUFFICES ASSUME LogInit PROVE LogBase
  OBVIOUS
<1>1. db \in Files
  <2>1. <<>> \in Seq(Events) /\ <<>> \in Seq(Applications)
    OBVIOUS
  <2>2. [d \in Devices |-> 0] \in [Devices -> Nat]
    OBVIOUS
  <2> QED
    BY <2>1, <2>2 DEF LogInit, Files
<1> QED
  BY <1>1 DEF LogInit, LogBase, LogTypeOK

(* What a step does to the two logs: a transaction ends, or begins on a log  *)
(* that is the committed one, or works on its copy, and the committed log    *)
(* becomes the transaction's or keeps its events.                            *)
LEMMA BaseStep == LogBase /\ [LogNext]_logVars => LogBase' /\ Extends(db', db)
<1> SUFFICES ASSUME LogBase, [LogNext]_logVars PROVE LogBase' /\ Extends(db', db)
  OBVIOUS
<1> USE LogAssumption
<1> USE DEF HeadSeq
<1>a. Extends(db, db) /\ HeadSeq(db) \in Nat
  BY DEF LogBase, LogTypeOK, Files, Extends
<1>b. ASSUME NEW f \in Files, f.events = db.events PROVE Extends(f, db)
  BY <1>a, <1>b DEF Extends
<1>c. ASSUME NEW p \in LogProcs, NEW f \in Files, NEW k \in {"rebuild", "tail", "restore", "append"},
             f.events = db.events, Begin(p, f, k), UNCHANGED <<db, runsBuild, damage>>,
             mode' \in [LogProcs -> {"closed", "opening", "open", "failStopped"}]
      PROVE  LogBase' /\ Extends(db', db)
  <2>1. Extends(f, db)
    BY <1>b, <1>c
  <2>2. Extends(tx', db') /\ Extends(db', db)
    BY <1>a, <1>c, <2>1 DEF Begin, Extends
  <2>3. LogTypeOK'
    BY <1>c DEF LogBase, LogTypeOK, Begin
  <2> QED
    BY <2>2, <2>3 DEF LogBase
<1>d. ASSUME EndTransaction, db' \in Files, Extends(db', db), UNCHANGED runsBuild, damage' \in Nat,
             mode' \in [LogProcs -> {"closed", "opening", "open", "failStopped"}]
      PROVE  LogBase' /\ Extends(db', db)
  BY <1>d DEF LogBase, LogTypeOK, EndTransaction
<1>e. ASSUME NEW p \in LogProcs, owner = p, tx' \in Files, Extends(tx', tx),
             UNCHANGED <<db, owner, kind, mode, runsBuild, damage>>
      PROVE  LogBase' /\ Extends(db', db)
  <2>1. tx \in Files /\ Extends(tx, db) /\ HeadSeq(tx) \in Nat /\ HeadSeq(tx') \in Nat
    BY <1>e DEF LogBase, LogTypeOK, Files
  <2>2. Extends(tx', db)
    BY <1>a, <1>e, <2>1 DEF Extends
  <2>3. Extends(tx', db') /\ Extends(db', db)
    BY <1>a, <1>e, <2>2 DEF Extends
  <2>4. LogTypeOK'
    BY <1>e, <2>1 DEF LogBase, LogTypeOK
  <2> QED
    BY <2>3, <2>4 DEF LogBase
<1>f. ASSUME NEW p \in LogProcs
      PROVE  LET S == {s \in db.snapshots : s.digest = runsBuild[p]}
                 f == [Cleared(db) EXCEPT !.snapshots = {s \in @ : s.digest = runsBuild[p]}]
             IN f \in Files /\ f.events = db.events
  <2> DEFINE c == Cleared(db)
             S == {s \in db.snapshots : s.digest = runsBuild[p]}
  <2>1. c \in Files /\ c.events = db.events /\ c.snapshots = db.snapshots
    BY ClearedFile DEF LogBase, LogTypeOK
  <2>2. S \in SUBSET Snapshots
    BY DEF LogBase, LogTypeOK, Files
  <2>3. [c EXCEPT !.snapshots = {s \in @ : s.digest = runsBuild[p]}] = [c EXCEPT !.snapshots = S]
    BY <2>1
  <2> HIDE DEF c, S
  <2>4. LET f == [c EXCEPT !.snapshots = S] IN f \in Files /\ f.events = c.events
    BY <2>1, <2>2 DEF Files
  <2>5. LET f == [c EXCEPT !.snapshots = {s \in @ : s.digest = runsBuild[p]}]
        IN f \in Files /\ f.events = db.events
    BY <2>1, <2>3, <2>4
  <2> QED
    BY <2>5 DEF c
<1>g. ASSUME NEW p \in LogProcs, owner = p, NEW r \in Registries
      PROVE  /\ tx \in Files /\ Extends(tx, db)
             /\ [tx EXCEPT !.digest = r] \in Files
             /\ Extends([tx EXCEPT !.digest = r], db)
  <2>1. tx \in Files /\ Extends(tx, db)
    BY <1>g DEF LogBase, LogTypeOK
  <2>2. [tx EXCEPT !.digest = r] \in Files /\ [tx EXCEPT !.digest = r].events = tx.events
    BY <2>1 DEF Files
  <2> QED
    BY <2>1, <2>2 DEF Extends
<1>h. db \in Files /\ runsBuild \in [LogProcs -> Registries]
  BY DEF LogBase, LogTypeOK
<1>1. ASSUME NEW p \in LogProcs, OpenBegin(p) PROVE LogBase' /\ Extends(db', db)
  <2>1. mode' \in [LogProcs -> {"closed", "opening", "open", "failStopped"}]
    BY <1>1 DEF OpenBegin, LogBase, LogTypeOK
  <2>2. UNCHANGED <<db, runsBuild, damage>>
    BY <1>1 DEF OpenBegin
  <2>3. CASE Begin(p, [Cleared(db) EXCEPT !.snapshots = {s \in @ : s.digest = runsBuild[p]}], "rebuild")
    BY <1>c, <1>f, <2>1, <2>2, <2>3
  <2>4. CASE Begin(p, db, "tail")
    BY <1>c, <1>h, <2>1, <2>2, <2>4
  <2> QED
    BY <1>1, <2>3, <2>4 DEF OpenBegin
<1>2. ASSUME NEW p \in LogProcs, RebuildBegin(p) PROVE LogBase' /\ Extends(db', db)
  <2>1. mode' \in [LogProcs -> {"closed", "opening", "open", "failStopped"}]
    BY <1>2 DEF RebuildBegin, LogBase, LogTypeOK
  <2>2. UNCHANGED <<db, runsBuild, damage>>
    BY <1>2 DEF RebuildBegin
  <2>3. Begin(p, [Cleared(db) EXCEPT !.snapshots = {s \in @ : s.digest = runsBuild[p]}], "rebuild")
    BY <1>2 DEF RebuildBegin
  <2> QED
    BY <1>c, <1>f, <2>1, <2>2, <2>3
<1>3. ASSUME NEW p \in LogProcs, RestoreBegin(p) PROVE LogBase' /\ Extends(db', db)
  <2>1. mode' \in [LogProcs -> {"closed", "opening", "open", "failStopped"}]
    BY <1>3 DEF RestoreBegin, LogBase, LogTypeOK
  <2>2. UNCHANGED <<db, runsBuild, damage>> /\ Begin(p, Restored(db, runsBuild[p]), "restore")
    BY <1>3 DEF RestoreBegin
  <2>3. Restored(db, runsBuild[p]) \in Files /\ Restored(db, runsBuild[p]).events = db.events
    BY <1>h, RestoredFile
  <2> QED
    BY <1>c, <2>1, <2>2, <2>3
<1>4. ASSUME NEW p \in LogProcs, ReplayOne(p) PROVE LogBase' /\ Extends(db', db)
  <2>1. tx \in Files /\ runsBuild[p] \in Registries /\ tx.applied < HeadSeq(tx) /\ owner = p
    BY <1>4, <1>h DEF ReplayOne, LogBase, LogTypeOK
  <2>2. LET seq == tx.applied + 1
            applied == WithApplied(tx, runsBuild[p], tx.events[seq], seq)
        IN tx' = applied \/ tx' = SnapshotIfDue(applied, runsBuild[p])
    BY <1>4 DEF ReplayOne
  <2>3. tx' \in Files /\ tx'.events = tx.events
    BY <2>1, <2>2, ReplayedFile
  <2>4. Extends(tx', tx)
    BY <2>1, <2>3 DEF Extends, Files
  <2> QED
    BY <1>e, <1>4, <2>1, <2>3, <2>4 DEF ReplayOne
<1>5. ASSUME NEW p \in LogProcs, ReplayCommit(p) PROVE LogBase' /\ Extends(db', db)
  <2>1. mode' \in [LogProcs -> {"closed", "opening", "open", "failStopped"}]
    BY <1>5 DEF ReplayCommit, LogBase, LogTypeOK
  <2>2. db' \in Files /\ Extends(db', db)
    BY <1>5, <1>g, <1>h DEF ReplayCommit
  <2> QED
    BY <1>5, <1>d, <2>1, <2>2 DEF ReplayCommit, LogBase, LogTypeOK
<1>6. ASSUME NEW p \in LogProcs, AppendBegin(p) PROVE LogBase' /\ Extends(db', db)
  <2>1. mode' \in [LogProcs -> {"closed", "opening", "open", "failStopped"}]
    BY <1>6 DEF AppendBegin, LogBase, LogTypeOK
  <2> QED
    BY <1>6, <1>c, <1>h, <2>1 DEF AppendBegin
<1>7. ASSUME NEW p \in LogProcs, NEW d \in Devices, NEW b \in EventBodies, AppendOne(p, d, b)
      PROVE LogBase' /\ Extends(db', db)
  <2>1. tx \in Files /\ runsBuild[p] \in Registries /\ owner = p
    BY <1>7, <1>h DEF AppendOne, LogBase, LogTypeOK
  <2>2. tx' = AppendedTo(tx, runsBuild[p], d, b)
    BY <1>7 DEF AppendOne, AppendedTo
  <2>e. PICK e : e = NextEvent(tx, d, b)
    OBVIOUS
  <2>3. tx' \in Files /\ e \in Events /\ tx'.events = Append(tx.events, e)
    <3>1. IsAppended(tx', tx, runsBuild[p], d, e)
      BY <2>1, <2>2, <2>e, AppendedFile
    <3> QED
      BY <3>1 DEF IsAppended
  <2>4. Extends(tx', tx)
    BY <2>1, <2>3 DEF Extends, Files
  <2> QED
    BY <1>e, <1>7, <2>1, <2>3, <2>4 DEF AppendOne
<1>8. ASSUME NEW p \in LogProcs, AppendCommit(p) PROVE LogBase' /\ Extends(db', db)
  <2>1. mode' \in [LogProcs -> {"closed", "opening", "open", "failStopped"}]
    BY <1>8 DEF AppendCommit, LogBase, LogTypeOK
  <2>2. db' \in Files /\ Extends(db', db)
    BY <1>8, <1>g, <1>h DEF AppendCommit
  <2> QED
    BY <1>8, <1>d, <2>1, <2>2 DEF AppendCommit, LogBase, LogTypeOK
<1>9. ASSUME NEW p \in LogProcs, Rollback(p) PROVE LogBase' /\ Extends(db', db)
  <2>1. mode' \in [LogProcs -> {"closed", "opening", "open", "failStopped"}]
    BY <1>9 DEF Rollback, LogBase, LogTypeOK
  <2>2. db' \in Files /\ Extends(db', db)
    BY <1>9, <1>a, <1>h DEF Rollback
  <2> QED
    BY <1>9, <1>d, <2>1, <2>2 DEF Rollback, LogBase, LogTypeOK
<1>10. ASSUME NEW p \in LogProcs, CommitLost(p) PROVE LogBase' /\ Extends(db', db)
  <2>1. mode' \in [LogProcs -> {"closed", "opening", "open", "failStopped"}]
    BY <1>10 DEF CommitLost, LogBase, LogTypeOK
  <2>2. db' \in Files /\ Extends(db', db)
    <3>1. db' = db \/ db' = tx \/ db' = [tx EXCEPT !.digest = runsBuild[p]]
      BY <1>10 DEF CommitLost
    <3>2. owner = p /\ runsBuild[p] \in Registries
      BY <1>10, <1>h DEF CommitLost
    <3> QED
      BY <1>a, <1>g, <1>h, <3>1, <3>2
  <2> QED
    BY <1>10, <1>d, <2>1, <2>2 DEF CommitLost, LogBase, LogTypeOK
<1>11. ASSUME NEW p \in LogProcs, Exit(p) PROVE LogBase' /\ Extends(db', db)
  <2>1. mode' \in [LogProcs -> {"closed", "opening", "open", "failStopped"}]
    BY <1>11 DEF Exit, LogBase, LogTypeOK
  <2>2. db' \in Files /\ Extends(db', db)
    BY <1>11, <1>a, <1>h DEF Exit
  <2>3. CASE owner = p
    BY <1>11, <1>d, <2>1, <2>2, <2>3 DEF Exit, LogBase, LogTypeOK
  <2>4. CASE owner # p
    BY <1>11, <2>1, <2>2, <2>4 DEF Exit, LogBase, LogTypeOK, Extends
  <2> QED
    BY <2>3, <2>4
<1>12. ASSUME NEW p \in LogProcs, NEW r \in Registries, Install(p, r) PROVE LogBase' /\ Extends(db', db)
  BY <1>12, <1>a DEF Install, LogBase, LogTypeOK, Extends
<1>13. ASSUME NEW s \in db.snapshots, DamageSnapshot(s) PROVE LogBase' /\ Extends(db', db)
  <2>1. s \in Snapshots
    BY <1>h DEF Files
  <2>2. [s EXCEPT !.body = Undecodable] \in Snapshots
    BY <2>1 DEF Snapshots
  <2> DEFINE S == (db.snapshots \ {s}) \cup {[s EXCEPT !.body = Undecodable]}
  <2>3. S \in SUBSET Snapshots
    BY <1>h, <2>2 DEF Files
  <2>4. db' = [db EXCEPT !.snapshots = S]
    BY <1>13 DEF DamageSnapshot
  <2> HIDE DEF S
  <2>5. db' \in Files /\ db'.events = db.events
    BY <1>h, <2>3, <2>4 DEF Files
  <2>6. Extends(db', db)
    BY <1>b, <2>5
  <2> QED
    BY <1>13, <2>5, <2>6 DEF DamageSnapshot, LogBase, LogTypeOK
<1>14. CASE UNCHANGED logVars
  BY <1>14, <1>a DEF logVars, LogBase, LogTypeOK, Extends
<1>15. ASSUME NEW p \in LogProcs, ProcNext(p) PROVE LogBase' /\ Extends(db', db)
  BY <1>15, <1>2, <1>3, <1>4, <1>5, <1>6, <1>7, <1>8, <1>9, <1>10, <1>11 DEF ProcNext
<1> QED
  BY <1>1, <1>12, <1>13, <1>14, <1>15 DEF LogNext

(* Types of the log in every reachable state.                                *)
THEOREM LogTyped == LogSpec => []LogTypeOK
<1>1. LogInit => LogBase
  BY InitBase
<1>2. LogBase /\ [LogNext]_logVars => LogBase'
  BY BaseStep
<1>3. LogBase => LogTypeOK
  BY DEF LogBase
<1> QED
  BY <1>1, <1>2, <1>3, PTL DEF LogSpec

(* Old events are eternal: no append, rebuild, restore, crash or failed      *)
(* commit removes or rewrites a committed event, with any mix of builds.     *)
THEOREM LogOnlyGrows == LogSpec => EventsEternal
<1>1. LogInit => LogBase
  BY InitBase
<1>2. LogBase /\ [LogNext]_logVars => LogBase'
  BY BaseStep
<1>3. LogBase /\ [LogNext]_logVars
        => [/\ HeadSeq(db) <= Len(db'.events)
            /\ \A i \in 1..HeadSeq(db) : db'.events[i] = db.events[i]]_logVars
  BY BaseStep DEF Extends, HeadSeq
<1> QED
  BY <1>1, <1>2, <1>3, PTL DEF LogSpec, EventsEternal

-----------------------------------------------------------------------------
(* What makes a file sound, and the steps that keep it so.                   *)

(* How many of the first n events are the device's.                          *)
CountOf(events, n, d) == Cardinality({k \in 1..n : events[k].device = d})

(* The lamport of every event is its rank among its device's events, and a   *)
(* device's counter is the number of its events.                             *)
SoundLog(f) ==
    /\ \A d \in Devices : f.devices[d] = CountOf(f.events, HeadSeq(f), d)
    /\ \A i \in 1..HeadSeq(f) : f.events[i].lamport = CountOf(f.events, i, f.events[i].device)

(* A snapshot that decodes is the replay of its prefix.                      *)
SoundSnapshots(f) ==
    \A s \in f.snapshots : s.body # Undecodable =>
        /\ s.seq <= HeadSeq(f)
        /\ s.body = ReplayOf(s.digest, f.events, s.seq)

(* The tables are the replay of the log up to applied_seq.                   *)
Replayed(f, r) ==
    /\ f.applied <= HeadSeq(f)
    /\ f.tables = ReplayOf(r, f.events, f.applied)

(* A set of positions of the log is finite.                                  *)
LEMMA PositionsFinite ==
    ASSUME NEW n \in Nat, NEW S \in SUBSET (1..n)
    PROVE  IsFiniteSet(S) /\ Cardinality(S) \in Nat
<1>1. IsFiniteSet(1..n)
  BY FS_Interval
<1>2. IsFiniteSet(S)
  BY <1>1, FS_Subset
<1> QED
  BY <1>2, FS_CardinalityType

(* Counting one event more.                                                  *)
LEMMA CountNext ==
    ASSUME NEW e, NEW n \in Nat, NEW d
    PROVE  /\ CountOf(e, n, d) \in Nat
           /\ e[n + 1].device = d => CountOf(e, n + 1, d) = CountOf(e, n, d) + 1
           /\ e[n + 1].device # d => CountOf(e, n + 1, d) = CountOf(e, n, d)
<1> DEFINE S == {k \in 1..n : e[k].device = d}
           T == {k \in 1..(n + 1) : e[k].device = d}
<1>1. IsFiniteSet(S) /\ Cardinality(S) \in Nat /\ n + 1 \notin S
  <2>1. S \in SUBSET (1..n) /\ n + 1 \notin S
    OBVIOUS
  <2> HIDE DEF S
  <2> QED
    BY <2>1, PositionsFinite
<1>2. CASE e[n + 1].device = d
  <2>1. T = S \cup {n + 1}
    BY <1>2
  <2>2. Cardinality(S \cup {n + 1}) = Cardinality(S) + 1
    BY <1>1, FS_AddElement
  <2> QED
    BY <1>1, <1>2, <2>1, <2>2 DEF CountOf
<1>3. CASE e[n + 1].device # d
  <2>1. T = S
    BY <1>3
  <2> QED
    BY <1>1, <1>3, <2>1 DEF CountOf
<1> QED
  BY <1>2, <1>3

(* A count depends only on the events it counts.                             *)
LEMMA CountSame ==
    ASSUME NEW e, NEW f, NEW n \in Nat, \A i \in 1..n : e[i] = f[i], NEW d
    PROVE  CountOf(e, n, d) = CountOf(f, n, d)
<1>1. {k \in 1..n : e[k].device = d} = {k \in 1..n : f[k].device = d}
  OBVIOUS
<1> QED
  BY <1>1 DEF CountOf

(* An empty log is sound.                                                    *)
LEMMA EmptySound ==
    ASSUME NEW f, f.events = <<>>, f.devices = [d \in Devices |-> 0]
    PROVE  SoundLog(f)
<1>1. HeadSeq(f) = 0
  BY DEF HeadSeq
<1>2. \A d : CountOf(f.events, 0, d) = 0
  <2>1. \A d : {k \in 1..0 : f.events[k].device = d} = {}
    OBVIOUS
  <2>2. Cardinality({}) = 0
    BY FS_EmptySet
  <2> QED
    BY <2>1, <2>2 DEF CountOf
<1> QED
  BY <1>1, <1>2 DEF SoundLog

(* Soundness of the log is about its events and devices only.                *)
LEMMA SameLogSound ==
    ASSUME NEW f, NEW g, g.events = f.events, g.devices = f.devices, SoundLog(f)
    PROVE  SoundLog(g)
BY DEF SoundLog, HeadSeq

(* Soundness of the snapshots is kept when some are dropped.                 *)
LEMMA SameSnapshotsSound ==
    ASSUME NEW f, NEW g, g.events = f.events, g.snapshots \subseteq f.snapshots, SoundSnapshots(f)
    PROVE  SoundSnapshots(g)
BY DEF SoundSnapshots, HeadSeq

(* An event appended under the next lamport keeps the log sound.             *)
LEMMA AppendKeepsLog ==
    ASSUME NEW f \in Files, NEW f2, NEW r, NEW d \in Devices, NEW e,
           IsAppended(f2, f, r, d, e), SoundLog(f)
    PROVE  SoundLog(f2)
<1> DEFINE n == HeadSeq(f)
<1>1. n \in Nat /\ f.events \in Seq(Events) /\ f.devices \in [Devices -> Nat] /\ n = Len(f.events)
  BY DEF Files, HeadSeq
<1>2. /\ f2.events = Append(f.events, e) /\ e \in Events
      /\ e.device = d /\ e.lamport = f.devices[d] + 1
      /\ \A c \in Devices : f2.devices[c] = f.devices[c] + (IF c = d THEN 1 ELSE 0)
  BY DEF IsAppended
<1>3. HeadSeq(f2) = n + 1 /\ f2.events[n + 1] = e /\ \A i \in 1..n : f2.events[i] = f.events[i]
  BY <1>1, <1>2 DEF HeadSeq
<1> HIDE DEF n
<1>4. \A c, i : i \in 0..n => CountOf(f2.events, i, c) = CountOf(f.events, i, c)
  <2>1. SUFFICES ASSUME NEW c, NEW i \in 0..n PROVE CountOf(f2.events, i, c) = CountOf(f.events, i, c)
    OBVIOUS
  <2>2. i \in Nat /\ \A k \in 1..i : f2.events[k] = f.events[k]
    BY <1>1, <1>3
  <2> QED
    BY <2>2, CountSame
<1>5. \A c : CountOf(f2.events, n + 1, c) = CountOf(f.events, n, c) + (IF d = c THEN 1 ELSE 0)
  <2>1. SUFFICES ASSUME NEW c
                 PROVE CountOf(f2.events, n + 1, c) = CountOf(f.events, n, c) + (IF d = c THEN 1 ELSE 0)
    OBVIOUS
  <2>2. /\ CountOf(f2.events, n, c) \in Nat
        /\ f2.events[n + 1].device = c => CountOf(f2.events, n + 1, c) = CountOf(f2.events, n, c) + 1
        /\ f2.events[n + 1].device # c => CountOf(f2.events, n + 1, c) = CountOf(f2.events, n, c)
    BY <1>1, CountNext
  <2>3. CountOf(f2.events, n, c) = CountOf(f.events, n, c)
    BY <1>1, <1>4
  <2> QED
    BY <1>2, <1>3, <2>2, <2>3
<1>6. \A c \in Devices : f.devices[c] = CountOf(f.events, n, c)
  BY DEF SoundLog, n
<1>7. \A c \in Devices : f2.devices[c] = CountOf(f2.events, n + 1, c)
  BY <1>2, <1>5, <1>6
<1>8. \A i \in 1..n : f2.events[i].lamport = CountOf(f2.events, i, f2.events[i].device)
  <2>1. \A i \in 1..n : f.events[i].lamport = CountOf(f.events, i, f.events[i].device)
    BY DEF SoundLog, n
  <2> QED
    BY <1>1, <1>3, <1>4, <2>1
<1>9. f2.events[n + 1].lamport = CountOf(f2.events, n + 1, f2.events[n + 1].device)
  BY <1>2, <1>3, <1>5, <1>6
<1>10. \A i \in 1..(n + 1) : i \in 1..n \/ i = n + 1
  BY <1>1
<1> QED
  BY <1>3, <1>7, <1>8, <1>9, <1>10 DEF SoundLog

(* Applying the next event of the log extends the replay.                    *)
LEMMA ReplayGrows ==
    ASSUME NEW f \in Files, NEW f2 \in Files, NEW r \in Registries,
           Replayed(f, r), f.applied + 1 <= HeadSeq(f2), HeadSeq(f) <= HeadSeq(f2),
           \A i \in 1..HeadSeq(f) : f2.events[i] = f.events[i],
           f2.applied = f.applied + 1,
           f2.tables = Append(f.tables, [by |-> r, event |-> f2.events[f.applied + 1]])
    PROVE  Replayed(f2, r)
<1> DEFINE n == f.applied
<1>1. n \in Nat /\ n <= HeadSeq(f) /\ HeadSeq(f) \in Nat /\ f2.events \in Seq(Events)
  BY DEF Files, Replayed, HeadSeq
<1>2. f.tables = ReplayOf(r, f.events, n)
  BY DEF Replayed
<1>3. ReplayOf(r, f.events, n) = ReplayOf(r, f2.events, n)
  <2> HIDE DEF n
  <2>1. \A i \in 1..n : i \in 1..HeadSeq(f)
    BY <1>1
  <2>2. \A i \in 1..n : f.events[i] = f2.events[i]
    BY <2>1
  <2> QED
    BY <1>1, <2>2, ReplaySame
<1>4. n + 1 <= Len(f2.events)
  BY DEF HeadSeq
<1>5. Append(ReplayOf(r, f2.events, n), [by |-> r, event |-> f2.events[n + 1]])
        = ReplayOf(r, f2.events, n + 1)
  <2> HIDE DEF n
  <2> QED
    BY <1>1, <1>4, ReplayExtends
<1>6. f2.tables = ReplayOf(r, f2.events, f2.applied)
  BY <1>2, <1>3, <1>5
<1> QED
  BY <1>6 DEF Replayed

(* The snapshots stay sound when the log grows at its end and the one that   *)
(* is new is the replay of the tables.                                       *)
LEMMA SnapshotsGrow ==
    ASSUME NEW f \in Files, NEW f2 \in Files, NEW r \in Registries,
           SoundSnapshots(f), Replayed(f2, r), HeadSeq(f) <= HeadSeq(f2),
           \A i \in 1..HeadSeq(f) : f2.events[i] = f.events[i],
           \A s \in f2.snapshots : s \in f.snapshots \/ s = SnapshotOf(f2, r)
    PROVE  SoundSnapshots(f2)
<1>1. SUFFICES ASSUME NEW s \in f2.snapshots, s.body # Undecodable
               PROVE  s.seq <= HeadSeq(f2) /\ s.body = ReplayOf(s.digest, f2.events, s.seq)
  BY DEF SoundSnapshots
<1>2. s.seq \in Nat /\ HeadSeq(f) \in Nat /\ HeadSeq(f2) \in Nat
  BY DEF Files, Snapshots, HeadSeq
<1>3. CASE s \in f.snapshots
  <2>1. s.seq <= HeadSeq(f) /\ s.body = ReplayOf(s.digest, f.events, s.seq)
    BY <1>1, <1>3 DEF SoundSnapshots
  <2>2. \A i \in 1..s.seq : f.events[i] = f2.events[i]
    BY <1>2, <2>1
  <2>3. ReplayOf(s.digest, f.events, s.seq) = ReplayOf(s.digest, f2.events, s.seq)
    BY <1>2, <2>2, ReplaySame
  <2> QED
    BY <1>2, <2>1, <2>3
<1>4. CASE s = SnapshotOf(f2, r)
  <2>1. s.seq = f2.applied /\ s.digest = r /\ s.body = f2.tables
    BY <1>4 DEF SnapshotOf
  <2> QED
    BY <2>1 DEF Replayed
<1> QED
  BY <1>3, <1>4

-----------------------------------------------------------------------------
(* The file is sound while the processes that share it run one build.        *)

(* The committed file.                                                       *)
Committed(f) ==
    /\ SoundLog(f)
    /\ SoundSnapshots(f)
    /\ f.applied = HeadSeq(f)
    /\ f.digest # NoDigest => f.tables = ReplayOf(f.digest, f.events, HeadSeq(f))

(* The working copy of a transaction of kind k under registry r.             *)
InFlight(f, r, k) ==
    /\ SoundLog(f)
    /\ SoundSnapshots(f)
    /\ Replayed(f, r)
    /\ k = "append" => f.applied = HeadSeq(f) /\ f.digest = r

(* Processes that are up run one build, and one that has the projections     *)
(* open runs the build whose digest the file records.                        *)
BuildsAgree ==
    /\ \A p, q \in LogProcs : mode[p] # "closed" /\ mode[q] # "closed" => runsBuild[p] = runsBuild[q]
    /\ \A p \in LogProcs : mode[p] \in {"open", "failStopped"} => db.digest = runsBuild[p]

(* The inductive invariant of the project log.                               *)
LogInv ==
    /\ LogBase
    /\ Committed(db)
    /\ owner # NoProc => mode[owner] # "closed" /\ InFlight(tx, runsBuild[owner], kind)
    /\ BuildsAgree

(* The invariant is what the runs check.                                     *)
LEMMA LogInvImplies == LogInv => LogSound
<1> SUFFICES ASSUME LogInv PROVE LogSound
  OBVIOUS
<1>1. LogTypeOK
  BY DEF LogInv, LogBase
<1>2. TablesAreReplay
  BY DEF LogInv, Committed, TablesAreReplay
<1>3. SnapshotsAreReplay
  BY DEF LogInv, Committed, SoundSnapshots, SnapshotsAreReplay
<1>4. LamportsContiguous
  BY DEF LogInv, Committed, SoundLog, LamportsContiguous, CountOf
<1> QED
  BY <1>1, <1>2, <1>3, <1>4 DEF LogSound

(* A new project has the invariant.                                          *)
LEMMA InitLog == LogInit => LogInv
<1> SUFFICES ASSUME LogInit PROVE LogInv
  OBVIOUS
<1>1. LogBase
  BY InitBase
<1>2. db.events = <<>> /\ db.devices = [d \in Devices |-> 0] /\ db.snapshots = {}
      /\ db.applied = 0 /\ db.digest = NoDigest
  BY DEF LogInit
<1>3. SoundLog(db)
  BY <1>2, EmptySound
<1>4. Committed(db)
  BY <1>2, <1>3 DEF Committed, SoundSnapshots, HeadSeq
<1> QED
  BY <1>1, <1>4 DEF LogInit, LogInv, BuildsAgree

(* A transaction that begins on a sound copy of the file.                    *)
LEMMA BeginKeeps ==
    ASSUME LogInv, LogBase', NEW p \in LogProcs, NEW f, NEW k \in {"rebuild", "tail", "restore", "append"},
           Begin(p, f, k), InFlight(f, runsBuild[p], k),
           UNCHANGED <<db, runsBuild>>, mode'[p] # "closed", BuildsAgree'
    PROVE  LogInv'
<1>1. Committed(db')
  BY DEF LogInv
<1>2. owner' = p /\ tx' = f /\ kind' = k /\ runsBuild' = runsBuild
  BY DEF Begin
<1>3. InFlight(tx', runsBuild'[owner'], kind')
  BY <1>2
<1> QED
  BY <1>1, <1>2, <1>3 DEF LogInv

(* A transaction that ends.                                                  *)
LEMMA EndKeeps ==
    ASSUME LogInv, LogBase', EndTransaction, Committed(db'), BuildsAgree'
    PROVE  LogInv'
BY DEF LogInv, EndTransaction

(* What the transaction holds may be committed.                              *)
LEMMA InFlightCommits ==
    ASSUME LogInv, NEW p \in LogProcs, owner = p
    PROVE  /\ kind = "append" => Committed(tx)
           /\ tx.applied = HeadSeq(tx) => Committed([tx EXCEPT !.digest = runsBuild[p]])
<1> USE LogAssumption
<1>1. tx \in Files /\ runsBuild[p] \in Registries /\ InFlight(tx, runsBuild[p], kind)
  BY DEF LogInv, LogBase, LogTypeOK
<1>2. kind = "append" => Committed(tx)
  BY <1>1 DEF InFlight, Committed, Replayed
<1>3. ASSUME tx.applied = HeadSeq(tx) PROVE Committed([tx EXCEPT !.digest = runsBuild[p]])
  <2> DEFINE g == [tx EXCEPT !.digest = runsBuild[p]]
  <2>1. /\ g.events = tx.events /\ g.devices = tx.devices /\ g.tables = tx.tables
        /\ g.applied = tx.applied /\ g.digest = runsBuild[p] /\ g.snapshots = tx.snapshots
    BY <1>1, DigestFile
  <2> HIDE DEF g
  <2>2. SoundLog(g) /\ SoundSnapshots(g)
    BY <1>1, <2>1, SameLogSound, SameSnapshotsSound DEF InFlight
  <2>3. g.applied = HeadSeq(g) /\ g.tables = ReplayOf(g.digest, g.events, HeadSeq(g))
    BY <1>1, <1>3, <2>1 DEF InFlight, Replayed, HeadSeq
  <2>4. Committed(g)
    BY <2>2, <2>3 DEF Committed
  <2> QED
    BY <2>4 DEF g
<1> QED
  BY <1>2, <1>3

(* Rebuilding starts from no tables and the snapshots of this build.         *)
LEMMA RebuildInFlight ==
    ASSUME LogInv, NEW p \in LogProcs
    PROVE  InFlight([Cleared(db) EXCEPT !.snapshots = {s \in @ : s.digest = runsBuild[p]}],
                    runsBuild[p], "rebuild")
<1> DEFINE c == Cleared(db)
           S == {s \in db.snapshots : s.digest = runsBuild[p]}
           g == [c EXCEPT !.snapshots = S]
<1>1. db \in Files /\ runsBuild[p] \in Registries
  BY DEF LogInv, LogBase, LogTypeOK
<1>2. /\ c \in Files /\ c.events = db.events /\ c.devices = db.devices /\ c.tables = <<>>
      /\ c.applied = 0 /\ c.snapshots = db.snapshots
  BY <1>1, ClearedFile
<1>3. [c EXCEPT !.snapshots = {s \in @ : s.digest = runsBuild[p]}] = g
  BY <1>2
<1>4. S \in SUBSET Snapshots /\ S \subseteq db.snapshots
  BY <1>1 DEF Files
<1> HIDE DEF c, S
<1>5. /\ g.events = db.events /\ g.devices = db.devices /\ g.tables = <<>>
      /\ g.applied = 0 /\ g.snapshots \subseteq db.snapshots
  BY <1>2, <1>4, KeepFile
<1> HIDE DEF g
<1>6. SoundLog(g) /\ SoundSnapshots(g)
  BY <1>5, SameLogSound, SameSnapshotsSound DEF LogInv, Committed
<1>7. Replayed(g, runsBuild[p])
  <2>1. db.events \in Seq(Events) /\ Len(db.events) \in Nat /\ 0 <= Len(db.events)
    BY <1>1 DEF Files
  <2>2. ReplayOf(runsBuild[p], db.events, 0) = <<>>
    BY <1>1, <2>1, ReplayType
  <2> QED
    BY <1>5, <2>1, <2>2 DEF Replayed, HeadSeq
<1>8. InFlight(g, runsBuild[p], "rebuild")
  BY <1>6, <1>7 DEF InFlight
<1> QED
  BY <1>3, <1>8 DEF c

(* Restoring starts from nothing or from a snapshot of this build.           *)
LEMMA RestoreInFlight ==
    ASSUME LogInv, NEW p \in LogProcs
    PROVE  InFlight(Restored(db, runsBuild[p]), runsBuild[p], "restore")
<1> DEFINE g == Restored(db, runsBuild[p])
<1>1. db \in Files /\ runsBuild[p] \in Registries
  BY DEF LogInv, LogBase, LogTypeOK
<1>2. /\ g.events = db.events
      /\ g.devices = db.devices
      /\ g.snapshots = db.snapshots
      /\ \/ g.tables = <<>> /\ g.applied = 0
         \/ \E s \in db.snapshots : /\ s.digest = runsBuild[p]
                                    /\ s.seq <= HeadSeq(db)
                                    /\ s.body # Undecodable
                                    /\ g.tables = s.body
                                    /\ g.applied = s.seq
  BY <1>1, RestoredFile
<1> HIDE DEF g
<1>3. SoundLog(g) /\ SoundSnapshots(g)
  BY <1>2, SameLogSound, SameSnapshotsSound DEF LogInv, Committed
<1>4. CASE g.tables = <<>> /\ g.applied = 0
  <2>1. db.events \in Seq(Events) /\ Len(db.events) \in Nat /\ 0 <= Len(db.events)
    BY <1>1 DEF Files
  <2>2. ReplayOf(runsBuild[p], db.events, 0) = <<>>
    BY <1>1, <2>1, ReplayType
  <2> QED
    BY <1>2, <1>3, <1>4, <2>1, <2>2 DEF Replayed, HeadSeq, InFlight, g
<1>5. CASE \E s \in db.snapshots : /\ s.digest = runsBuild[p]
                                   /\ s.seq <= HeadSeq(db)
                                   /\ s.body # Undecodable
                                   /\ g.tables = s.body
                                   /\ g.applied = s.seq
  <2>1. PICK s \in db.snapshots : /\ s.digest = runsBuild[p]
                                  /\ s.seq <= HeadSeq(db)
                                  /\ s.body # Undecodable
                                  /\ g.tables = s.body
                                  /\ g.applied = s.seq
    BY <1>5
  <2>2. s.body = ReplayOf(s.digest, db.events, s.seq)
    BY <2>1 DEF LogInv, Committed, SoundSnapshots
  <2>3. Replayed(g, runsBuild[p])
    BY <1>2, <2>1, <2>2 DEF Replayed, HeadSeq
  <2> QED
    BY <1>3, <2>3 DEF InFlight, g
<1> QED
  BY <1>2, <1>4, <1>5

(* Replaying the next event keeps the working copy sound.                    *)
LEMMA ReplayInFlight ==
    ASSUME LogInv, NEW p \in LogProcs, ReplayOne(p)
    PROVE  InFlight(tx', runsBuild[p], kind)
<1>1. tx \in Files /\ runsBuild[p] \in Registries /\ InFlight(tx, runsBuild[p], kind)
      /\ kind # "append" /\ tx.applied < HeadSeq(tx)
  BY LogAssumption DEF LogInv, LogBase, LogTypeOK, ReplayOne
<1>2. LET seq == tx.applied + 1
          applied == WithApplied(tx, runsBuild[p], tx.events[seq], seq)
      IN tx' = applied \/ tx' = SnapshotIfDue(applied, runsBuild[p])
  BY DEF ReplayOne
<1>3. /\ tx' \in Files
      /\ tx'.events = tx.events
      /\ tx'.devices = tx.devices
      /\ tx'.tables = Append(tx.tables, [by |-> runsBuild[p], event |-> tx.events[tx.applied + 1]])
      /\ tx'.applied = tx.applied + 1
      /\ \A s \in tx'.snapshots : s \in tx.snapshots \/ s = SnapshotOf(tx', runsBuild[p])
  BY <1>1, <1>2, ReplayedFile
<1>4. tx.applied \in Nat /\ HeadSeq(tx) \in Nat /\ HeadSeq(tx') = HeadSeq(tx)
  BY <1>1, <1>3 DEF Files, HeadSeq
<1>5. Replayed(tx', runsBuild[p])
  <2>1. /\ Replayed(tx, runsBuild[p])
        /\ tx.applied + 1 <= HeadSeq(tx')
        /\ HeadSeq(tx) <= HeadSeq(tx')
        /\ \A i \in 1..HeadSeq(tx) : tx'.events[i] = tx.events[i]
        /\ tx'.tables = Append(tx.tables, [by |-> runsBuild[p], event |-> tx'.events[tx.applied + 1]])
    BY <1>1, <1>3, <1>4 DEF InFlight
  <2> QED
    BY <1>1, <1>3, <2>1, ReplayGrows
<1>6. SoundLog(tx')
  BY <1>1, <1>3, SameLogSound DEF InFlight
<1>7. SoundSnapshots(tx')
  <2>1. /\ SoundSnapshots(tx)
        /\ HeadSeq(tx) <= HeadSeq(tx')
        /\ \A i \in 1..HeadSeq(tx) : tx'.events[i] = tx.events[i]
    BY <1>1, <1>3, <1>4 DEF InFlight
  <2> QED
    BY <1>1, <1>3, <1>5, <2>1, SnapshotsGrow
<1> QED
  BY <1>1, <1>5, <1>6, <1>7 DEF InFlight

(* Appending an event keeps the working copy sound.                          *)
LEMMA AppendInFlight ==
    ASSUME LogInv, NEW p \in LogProcs, NEW d \in Devices, NEW b \in EventBodies, AppendOne(p, d, b)
    PROVE  InFlight(tx', runsBuild[p], kind)
<1>1. tx \in Files /\ runsBuild[p] \in Registries /\ InFlight(tx, runsBuild[p], kind) /\ kind = "append"
  BY LogAssumption DEF LogInv, LogBase, LogTypeOK, AppendOne
<1>2. PICK e : e = NextEvent(tx, d, b)
  OBVIOUS
<1>3. tx' = AppendedTo(tx, runsBuild[p], d, b)
  BY DEF AppendOne, AppendedTo
<1>4. IsAppended(tx', tx, runsBuild[p], d, e)
  BY <1>1, <1>2, <1>3, AppendedFile
<1>5. /\ tx' \in Files /\ e \in Events
      /\ tx'.events = Append(tx.events, e)
      /\ tx'.tables = Append(tx.tables, [by |-> runsBuild[p], event |-> e])
      /\ tx'.applied = HeadSeq(tx) + 1
      /\ tx'.digest = tx.digest
      /\ \A s \in tx'.snapshots : s \in tx.snapshots \/ s = SnapshotOf(tx', runsBuild[p])
  BY <1>4 DEF IsAppended
<1>6. SoundLog(tx')
  BY <1>1, <1>4, AppendKeepsLog DEF InFlight
<1>7. tx.applied = HeadSeq(tx) /\ Replayed(tx, runsBuild[p]) /\ SoundSnapshots(tx) /\ tx.digest = runsBuild[p]
  BY <1>1 DEF InFlight
<1>8. /\ HeadSeq(tx) \in Nat /\ HeadSeq(tx') = HeadSeq(tx) + 1
      /\ \A i \in 1..HeadSeq(tx) : tx'.events[i] = tx.events[i]
      /\ tx'.events[HeadSeq(tx) + 1] = e
  BY <1>1, <1>5 DEF Files, HeadSeq
<1>9. Replayed(tx', runsBuild[p])
  <2>1. /\ tx.applied + 1 <= HeadSeq(tx')
        /\ HeadSeq(tx) <= HeadSeq(tx')
        /\ tx'.applied = tx.applied + 1
        /\ tx'.tables = Append(tx.tables, [by |-> runsBuild[p], event |-> tx'.events[tx.applied + 1]])
    BY <1>5, <1>7, <1>8
  <2> QED
    BY <1>1, <1>5, <1>7, <1>8, <2>1, ReplayGrows
<1>10. SoundSnapshots(tx')
  <2>1. HeadSeq(tx) <= HeadSeq(tx')
    BY <1>8
  <2> QED
    BY <1>1, <1>5, <1>7, <1>8, <1>9, <2>1, SnapshotsGrow
<1>11. tx'.applied = HeadSeq(tx') /\ tx'.digest = runsBuild[p]
  BY <1>5, <1>7, <1>8
<1> QED
  BY <1>6, <1>9, <1>10, <1>11 DEF InFlight

(* Every step keeps the invariant while one build is up.                     *)
LEMMA LogStep == LogInv /\ [UniformNext]_logVars => LogInv'
<1> SUFFICES ASSUME LogInv, [UniformNext]_logVars PROVE LogInv'
  OBVIOUS
<1> USE LogAssumption
<1>a. [LogNext]_logVars
  BY DEF UniformNext, LogNext
<1>b. LogBase'
  BY <1>a, BaseStep DEF LogInv
<1>c. /\ db \in Files /\ runsBuild \in [LogProcs -> Registries]
      /\ mode \in [LogProcs -> {"closed", "opening", "open", "failStopped"}]
      /\ LogBase /\ BuildsAgree /\ Committed(db)
  BY DEF LogInv, LogBase, LogTypeOK
<1>d. ASSUME NEW p \in LogProcs, owner = p PROVE mode[p] # "closed" /\ InFlight(tx, runsBuild[p], kind)
  BY <1>d DEF LogInv
<1>e. ASSUME NEW p \in LogProcs, db.digest = runsBuild[p], NEW k \in {"tail", "append"}
      PROVE  InFlight(db, runsBuild[p], k)
  <2>1. db.digest # NoDigest /\ db.applied = HeadSeq(db) /\ HeadSeq(db) \in Nat
    BY <1>c, <1>e DEF Committed, Files, HeadSeq
  <2> QED
    BY <1>c, <1>e, <2>1 DEF InFlight, Committed, Replayed
<1>1. ASSUME NEW p \in LogProcs, SameBuild(p), OpenBegin(p) PROVE LogInv'
  <2>1. /\ mode[p] = "closed" /\ mode' = [mode EXCEPT ![p] = "opening"]
        /\ UNCHANGED <<db, runsBuild>>
    BY <1>1 DEF OpenBegin
  <2>2. BuildsAgree' /\ mode'[p] # "closed"
    BY <1>1, <1>c, <2>1 DEF BuildsAgree, SameBuild
  <2>3. CASE Begin(p, [Cleared(db) EXCEPT !.snapshots = {s \in @ : s.digest = runsBuild[p]}], "rebuild")
    <3>1. InFlight([Cleared(db) EXCEPT !.snapshots = {s \in @ : s.digest = runsBuild[p]}],
                   runsBuild[p], "rebuild")
      BY RebuildInFlight
    <3> QED
      BY <1>b, <2>1, <2>2, <2>3, <3>1, BeginKeeps
  <2>4. CASE db.digest = runsBuild[p] /\ Begin(p, db, "tail")
    <3>1. InFlight(db, runsBuild[p], "tail")
      BY <1>e, <2>4
    <3> QED
      BY <1>b, <2>1, <2>2, <2>4, <3>1, BeginKeeps
  <2> QED
    BY <1>1, <2>3, <2>4 DEF OpenBegin
<1>2. ASSUME NEW p \in LogProcs, RebuildBegin(p) PROVE LogInv'
  <2>1. mode[p] = "open" /\ UNCHANGED <<db, mode, runsBuild>>
    BY <1>2 DEF RebuildBegin
  <2>2. BuildsAgree' /\ mode'[p] # "closed"
    BY <1>c, <2>1 DEF BuildsAgree
  <2>3. Begin(p, [Cleared(db) EXCEPT !.snapshots = {s \in @ : s.digest = runsBuild[p]}], "rebuild")
    BY <1>2 DEF RebuildBegin
  <2>4. InFlight([Cleared(db) EXCEPT !.snapshots = {s \in @ : s.digest = runsBuild[p]}],
                 runsBuild[p], "rebuild")
    BY RebuildInFlight
  <2> QED
    BY <1>b, <2>1, <2>2, <2>3, <2>4, BeginKeeps
<1>3. ASSUME NEW p \in LogProcs, RestoreBegin(p) PROVE LogInv'
  <2>1. mode[p] = "open" /\ UNCHANGED <<db, mode, runsBuild>> /\ Begin(p, Restored(db, runsBuild[p]), "restore")
    BY <1>3 DEF RestoreBegin
  <2>2. BuildsAgree' /\ mode'[p] # "closed"
    BY <1>c, <2>1 DEF BuildsAgree
  <2>3. InFlight(Restored(db, runsBuild[p]), runsBuild[p], "restore")
    BY RestoreInFlight
  <2> QED
    BY <1>b, <2>1, <2>2, <2>3, BeginKeeps
<1>4. ASSUME NEW p \in LogProcs, AppendBegin(p) PROVE LogInv'
  <2>1. mode[p] = "open" /\ UNCHANGED <<db, mode, runsBuild>> /\ Begin(p, db, "append")
    BY <1>4 DEF AppendBegin
  <2>2. BuildsAgree' /\ mode'[p] # "closed" /\ db.digest = runsBuild[p]
    BY <1>c, <2>1 DEF BuildsAgree
  <2>3. InFlight(db, runsBuild[p], "append")
    BY <1>e, <2>2
  <2> QED
    BY <1>b, <2>1, <2>2, <2>3, BeginKeeps
<1>5. ASSUME NEW p \in LogProcs, owner = p, InFlight(tx', runsBuild[p], kind),
             UNCHANGED <<db, owner, kind, mode, runsBuild>>
      PROVE  LogInv'
  BY <1>5, <1>b, <1>c, <1>d DEF LogInv, BuildsAgree
<1>6. ASSUME NEW p \in LogProcs, ReplayOne(p) PROVE LogInv'
  BY <1>5, <1>6, ReplayInFlight DEF ReplayOne
<1>7. ASSUME NEW p \in LogProcs, NEW d \in Devices, NEW b \in EventBodies, AppendOne(p, d, b)
      PROVE LogInv'
  <2>1. InFlight(tx', runsBuild[p], kind)
    BY <1>7, AppendInFlight
  <2> QED
    BY <1>5, <1>7, <2>1 DEF AppendOne
<1>8. ASSUME NEW p \in LogProcs, ReplayCommit(p) PROVE LogInv'
  <2>1. /\ owner = p /\ tx.applied = HeadSeq(tx) /\ EndTransaction
        /\ db' = [tx EXCEPT !.digest = runsBuild[p]]
        /\ mode' = [mode EXCEPT ![p] = "open"] /\ runsBuild' = runsBuild
    BY <1>8 DEF ReplayCommit
  <2>2. Committed(db')
    BY <2>1, InFlightCommits
  <2>3. db'.digest = runsBuild[p]
    BY <1>c, <2>1, DigestFile DEF LogBase, LogTypeOK
  <2>4. mode[p] # "closed"
    BY <1>d, <2>1
  <2>5. BuildsAgree'
    BY <1>c, <2>1, <2>3, <2>4 DEF BuildsAgree
  <2> QED
    BY <1>b, <2>1, <2>2, <2>5, EndKeeps
<1>9. ASSUME NEW p \in LogProcs, AppendCommit(p) PROVE LogInv'
  <2>1. owner = p /\ kind = "append" /\ EndTransaction /\ db' = tx /\ UNCHANGED <<mode, runsBuild>>
    BY <1>9 DEF AppendCommit
  <2>2. Committed(db')
    BY <2>1, InFlightCommits
  <2>3. db'.digest = runsBuild[p] /\ mode[p] # "closed"
    BY <1>d, <2>1 DEF InFlight
  <2>4. BuildsAgree'
    BY <1>c, <2>1, <2>3 DEF BuildsAgree
  <2> QED
    BY <1>b, <2>1, <2>2, <2>4, EndKeeps
<1>10. ASSUME NEW p \in LogProcs, Rollback(p) PROVE LogInv'
  <2>1. /\ EndTransaction /\ UNCHANGED <<db, runsBuild>>
        /\ mode' = [mode EXCEPT ![p] = IF @ = "opening" THEN "closed" ELSE @]
    BY <1>10 DEF Rollback
  <2>2. BuildsAgree' /\ Committed(db')
    BY <1>c, <2>1 DEF BuildsAgree
  <2> QED
    BY <1>b, <2>1, <2>2, EndKeeps
<1>11. ASSUME NEW p \in LogProcs, CommitLost(p) PROVE LogInv'
  <2>1. /\ owner = p /\ EndTransaction /\ runsBuild' = runsBuild
        /\ mode' = [mode EXCEPT ![p] = IF @ = "opening" THEN "closed" ELSE "failStopped"]
    BY <1>11 DEF CommitLost
  <2>2. mode[p] # "closed"
    BY <1>d, <2>1
  <2>3. \/ db' = db
        \/ kind = "append" /\ db' = tx
        \/ tx.applied = HeadSeq(tx) /\ db' = [tx EXCEPT !.digest = runsBuild[p]]
    BY <1>11 DEF CommitLost
  <2>4. CASE db' = db
    <3>1. BuildsAgree' /\ Committed(db')
      BY <1>c, <2>1, <2>2, <2>4 DEF BuildsAgree
    <3> QED
      BY <1>b, <2>1, <3>1, EndKeeps
  <2>5. CASE db' # db
    <3>1. Committed(db')
      BY <2>1, <2>3, <2>5, InFlightCommits
    <3>2. db'.digest = runsBuild[p]
      <4>1. CASE kind = "append" /\ db' = tx
        BY <1>d, <2>1, <4>1 DEF InFlight
      <4>2. CASE db' = [tx EXCEPT !.digest = runsBuild[p]]
        BY <1>c, <2>1, <4>2, DigestFile DEF LogBase, LogTypeOK
      <4> QED
        BY <2>3, <2>5, <4>1, <4>2
    <3>3. BuildsAgree'
      BY <1>c, <2>1, <2>2, <3>2 DEF BuildsAgree
    <3> QED
      BY <1>b, <2>1, <3>1, <3>3, EndKeeps
  <2> QED
    BY <2>4, <2>5
<1>12. ASSUME NEW p \in LogProcs, Exit(p) PROVE LogInv'
  <2>1. mode' = [mode EXCEPT ![p] = "closed"] /\ UNCHANGED <<db, runsBuild>>
    BY <1>12 DEF Exit
  <2>2. BuildsAgree' /\ Committed(db')
    BY <1>c, <2>1 DEF BuildsAgree
  <2>3. CASE owner = p
    BY <1>12, <1>b, <2>2, <2>3, EndKeeps DEF Exit
  <2>4. CASE owner # p
    <3>1. UNCHANGED <<tx, owner, kind>>
      BY <1>12, <2>4 DEF Exit
    <3>2. owner \in LogProcs \cup {NoProc}
      BY <1>c DEF LogBase, LogTypeOK
    <3>3. owner' # NoProc => mode'[owner'] # "closed" /\ InFlight(tx', runsBuild'[owner'], kind')
      BY <1>c, <2>1, <2>4, <3>1, <3>2 DEF LogInv
    <3> QED
      BY <1>b, <2>2, <3>3 DEF LogInv
  <2> QED
    BY <2>3, <2>4
<1>13. ASSUME NEW p \in LogProcs, NEW r \in Registries, Install(p, r) PROVE LogInv'
  <2>1. /\ mode[p] = "closed" /\ runsBuild' = [runsBuild EXCEPT ![p] = r]
        /\ UNCHANGED <<db, tx, owner, kind, mode>>
    BY <1>13 DEF Install
  <2>2. BuildsAgree' /\ Committed(db')
    BY <1>c, <2>1 DEF BuildsAgree
  <2>3. owner \in LogProcs \cup {NoProc}
    BY <1>c DEF LogBase, LogTypeOK
  <2>4. owner' # NoProc => mode'[owner'] # "closed" /\ InFlight(tx', runsBuild'[owner'], kind')
    BY <1>c, <2>1, <2>3 DEF LogInv
  <2> QED
    BY <1>b, <2>2, <2>4 DEF LogInv
<1>14. ASSUME NEW s \in db.snapshots, DamageSnapshot(s) PROVE LogInv'
  <2> DEFINE x == [s EXCEPT !.body = Undecodable]
             S == (db.snapshots \ {s}) \cup {x}
  <2>1. db' = [db EXCEPT !.snapshots = S] /\ owner = NoProc /\ UNCHANGED <<owner, mode, runsBuild>>
    BY <1>14 DEF DamageSnapshot
  <2>2. s \in Snapshots
    BY <1>c DEF Files
  <2>3. x \in Snapshots /\ x.body = Undecodable
    BY <2>2 DEF Snapshots
  <2> HIDE DEF x
  <2>4. S \in SUBSET Snapshots /\ \A t \in S : t \in db.snapshots \/ t.body = Undecodable
    BY <1>c, <2>3 DEF Files
  <2> HIDE DEF S
  <2>5. /\ db'.events = db.events /\ db'.devices = db.devices /\ db'.tables = db.tables
        /\ db'.applied = db.applied /\ db'.digest = db.digest /\ db'.snapshots = S
    BY <1>c, <2>1, <2>4, KeepFile
  <2>6. SoundLog(db')
    BY <1>c, <2>5, SameLogSound DEF Committed
  <2>7. SoundSnapshots(db')
    BY <1>c, <2>4, <2>5 DEF Committed, SoundSnapshots, HeadSeq
  <2>8. Committed(db')
    BY <1>c, <2>5, <2>6, <2>7 DEF Committed, HeadSeq
  <2>9. BuildsAgree'
    BY <1>c, <2>1, <2>5 DEF BuildsAgree
  <2> QED
    BY <1>b, <2>1, <2>8, <2>9 DEF LogInv
<1>15. CASE UNCHANGED logVars
  BY <1>15, <1>b DEF logVars, LogInv, BuildsAgree
<1>16. ASSUME NEW p \in LogProcs, ProcNext(p) PROVE LogInv'
  BY <1>16, <1>2, <1>3, <1>4, <1>6, <1>7, <1>8, <1>9, <1>10, <1>11, <1>12 DEF ProcNext
<1> QED
  BY <1>1, <1>13, <1>14, <1>15, <1>16 DEF UniformNext

(* The file is sound at every commit, whatever appends, rebuilds, restores,  *)
(* damaged snapshots, crashes and lost commits came before, as long as the   *)
(* processes that have it open at the same time run the same build.          *)
THEOREM FileStaysSound == UniformSpec => []LogSound
<1>1. LogInit => LogInv
  BY InitLog
<1>2. LogInv /\ [UniformNext]_logVars => LogInv'
  BY LogStep
<1>3. LogInv => LogSound
  BY LogInvImplies
<1> QED
  BY <1>1, <1>2, <1>3, PTL DEF UniformSpec
=============================================================================
