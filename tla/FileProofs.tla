----------------------------- MODULE FileProofs -----------------------------
(***************************************************************************)
(* Proofs about BlobStore, for every set of processes, writers, contents and *)
(* fan-out directories, and any number of kills and power failures; about    *)
(* ModelPull, for every artifact, every finite set of processes, and any     *)
(* number of pulls and of answers that go wrong; about Gateway, for all      *)
(* callers, routings, policies, requests and bodies with one data line to an *)
(* event; and about TextStages, for all documents and limits.                *)
(***************************************************************************)
EXTENDS BlobStore, ModelPull, Gateway, TextStages, FiniteSetTheorems, SequenceTheorems, TLAPS

(* Bytes are on the disk before the name is: a writer past its sync_all has   *)
(* flushed its temp file, and nobody else writes to it.                      *)
SyncedBeforeNamed == \A w \in Writers : wpc[w] \in {"synced", "placed"} => w \in flushed

(* A writer that found or gave its content a name returns while the name     *)
(* stands: only a power failure takes names away, and it takes the writers.  *)
ReturnsSeen == \A w \in Writers : wpc[w] \in {"renamed", "returned"} => data[w] \in seen

(* A published name is on the disk, in a directory that never leaves it.     *)
PublishedOnDisk ==
    /\ OldDirs \subseteq diskDirs
    /\ \A c \in published : Fanout[c] \in OldDirs => c \in onDisk

StoreInv ==
    /\ StoreTypeOK /\ NeverTorn /\ ReferencedPresent
    /\ SyncedBeforeNamed /\ ReturnsSeen /\ PublishedOnDisk
    /\ losses \in Nat

(* An empty store is sound.                                                  *)
LEMMA InitStore == StoreInit => StoreInv
BY StoreAssumption DEF StoreInit, StoreInv, StoreTypeOK, NeverTorn, ReferencedPresent,
   SyncedBeforeNamed, ReturnsSeen, PublishedOnDisk

(* Every step of a writer, of another process, of the file system and of the *)
(* power keeps the store sound.                                              *)
LEMMA StoreStep == StoreInv /\ [StoreNext]_storeVars => StoreInv'
<1> SUFFICES ASSUME StoreInv, [StoreNext]_storeVars PROVE StoreInv'
  OBVIOUS
<1> USE StoreAssumption DEF StoreInv, NeverTorn, ReferencedPresent, SyncedBeforeNamed, ReturnsSeen,
    PublishedOnDisk, nameVars, procVars
<1>1. ASSUME NEW p \in StoreProcs, Open(p) PROVE StoreInv'
  BY <1>1 DEF Open, Swept, StoreTypeOK
<1>2. ASSUME NEW p \in StoreProcs, Kill(p) PROVE StoreInv'
  BY <1>2 DEF Kill, StoreTypeOK
<1>3. ASSUME NEW w \in Writers, NEW c \in Contents, Create(w, c) PROVE StoreInv'
  <2>1. StoreTypeOK'
    BY <1>3 DEF Create, Goto, StoreTypeOK
  <2> QED
    BY <1>3, <2>1 DEF Create, Goto, StoreTypeOK
<1>4. ASSUME NEW w \in Writers, SyncTemp(w) PROVE StoreInv'
  BY <1>4 DEF SyncTemp, Goto, StoreTypeOK
<1>5. ASSUME NEW w \in Writers, Dedup(w) PROVE StoreInv'
  BY <1>5 DEF Dedup, Goto, StoreTypeOK
<1>6. ASSUME NEW w \in Writers, MakeDir(w) PROVE StoreInv'
  <2>1. Fanout[data[w]] \in Dirs
    BY <1>6 DEF MakeDir, StoreTypeOK, Dirs
  <2> QED
    BY <1>6, <2>1 DEF MakeDir, Goto, StoreTypeOK
<1>7. ASSUME NEW w \in Writers, Rename(w) PROVE StoreInv'
  <2>1. w \in flushed /\ data[w] \in Contents
    BY <1>7 DEF Rename, StoreTypeOK
  <2>2. torn' = {}
    BY <1>7, <2>1 DEF Rename
  <2> QED
    BY <1>7, <2>1, <2>2 DEF Rename, Goto, StoreTypeOK
<1>8. ASSUME NEW w \in Writers, RenameFails(w) PROVE StoreInv'
  BY <1>8 DEF RenameFails, Goto, StoreTypeOK
<1>9. ASSUME NEW w \in Writers, SyncDir(w) PROVE StoreInv'
  <2>1. data[w] \in seen /\ data[w] \in Contents /\ data[w] \in onDisk'
    BY <1>9 DEF SyncDir, StoreTypeOK
  <2> QED
    BY <1>9, <2>1 DEF SyncDir, Goto, StoreTypeOK
<1>10. ASSUME NEW w \in Writers, Refer(w) PROVE StoreInv'
  <2>1. data[w] \in seen /\ data[w] \in Contents
    BY <1>10 DEF Refer, StoreTypeOK
  <2> QED
    BY <1>10, <2>1 DEF Refer, Goto, StoreTypeOK
<1>11. ASSUME NEW w \in Writers, Drop(w) PROVE StoreInv'
  BY <1>11 DEF Drop, Goto, StoreTypeOK
<1>12. CASE Writeback
  BY <1>12 DEF Writeback, StoreTypeOK
<1>13. CASE PowerLoss
  BY <1>13 DEF PowerLoss, StoreTypeOK
<1>14. CASE UNCHANGED storeVars
  BY <1>14 DEF storeVars, StoreTypeOK
<1> QED
  BY <1>1, <1>2, <1>3, <1>4, <1>5, <1>6, <1>7, <1>8, <1>9, <1>10, <1>11, <1>12, <1>13, <1>14
     DEF StoreNext, WriterNext

(* However writers of the same content race, processes are killed, others    *)
(* sweep the temp files and the power fails: a published blob is whole, what *)
(* the log refers to resolves, and what was synced into a directory that was *)
(* on the disk stays.                                                        *)
THEOREM StoreIsSound == StoreSpec => []StoreSound
<1>1. StoreInv => StoreSound
  BY DEF StoreInv, StoreSound, PublishedDurable, PublishedOnDisk, StoreTypeOK
<1> QED
  BY <1>1, InitStore, StoreStep, PTL DEF StoreSpec

-----------------------------------------------------------------------------
(* ModelPull: the inductive invariant.                                       *)

PullRows ==
    [pc: {"rest", "read", "open", "ask", "stream", "rename"}, source: {"https", "file"},
     fd: {0} \cup Inodes, append: BOOLEAN, pos: Nat, hash: Seq(Nat), body: Seq(Nat),
     resumed: Nat, hops: Nat, restarts: Nat, honest: BOOLEAN,
     outcome: {"none", "already_present", "partial_too_long", "io", "source", "overrun",
               "size", "checksum", "ok"}]

(* The bytes of the partial file, and whether they begin the artifact.       *)
Partial(tp, dk) == IF tp = 0 THEN <<>> ELSE dk[tp]
Begins(c) == Len(c) <= Size /\ \A i \in 1..Len(c) : c[i] = Artifact[i]

(* What a pull holds agrees with the partial file c, which tp names.         *)
OpenTrue(source, hash, c) ==
    /\ source = "https" => hash = c /\ Len(c) <= Size
    /\ source = "file" => hash = <<>>
FileTrue(source, hash, append, pos, c) ==
    /\ source = "https" => hash = c
    /\ append \/ pos = Len(c)
    /\ source = "file" => pos = Len(c)
PullTrue(k, tp, c) ==
    /\ k.pc = "read" => k.source = "https"
    /\ k.pc = "open" => OpenTrue(k.source, k.hash, c)
    /\ k.pc \in {"ask", "stream", "rename"} => tp # 0 /\ k.fd = tp
    /\ k.pc \in {"ask", "stream"} => FileTrue(k.source, k.hash, k.append, k.pos, c)
    /\ k.pc = "ask" => k.resumed = Len(c) /\ Len(c) < Size /\ (k.source = "file" => Len(c) = 0)
    /\ k.pc = "rename" => c = Artifact

(* What is still to come completes the artifact.                             *)
Completes(body, c) ==
    Len(c) + Len(body) = Size /\ \A i \in 1..Len(body) : body[i] = Artifact[Len(c) + i]
Clean(k, c) == Begins(c) /\ (k.pc = "stream" => Completes(k.body, c))

(* While no two pulls overlapped: one pull at most is under way, and none     *)
(* once the artifact has its name; it owns the partial file; and after a      *)
(* failure that was nobody's fault the partial file is a clean one.          *)
PullInv ==
    apart =>
        /\ disk \in [Inodes -> Seq(Nat)]
        /\ temp \in {0} \cup Inodes /\ final \in {0} \cup Inodes
        /\ pull \in [Pulls -> PullRows]
        /\ strikes \in {0, 1}
        /\ final # 0 => disk[final] = Artifact
        /\ \A p, q \in Pulls : p # q => pull[p].pc = "rest" \/ pull[q].pc = "rest"
        /\ \A p \in Pulls :
              /\ pull[p].pc = "rest" => pull[p].fd = 0
              /\ pull[p].pc # "rest" => final = 0
              /\ PullTrue(pull[p], temp, Partial(temp, disk))
              /\ strikes = 1 => Clean(pull[p], Partial(temp, disk))
        /\ strikes = 1 => Begins(Partial(temp, disk))

-----------------------------------------------------------------------------
(* ModelPull: files and bytes.                                               *)

(* There are two inodes at least, and 0 is none.                             *)
LEMMA SomeInode == 1 \in Inodes /\ 2 \in Inodes /\ 0 \notin Inodes
<1>1. Cardinality(Pulls) \in Nat
  BY PullAssumption, FS_CardinalityType
<1> QED
  BY <1>1 DEF Inodes

(* The artifact is not empty.                                                *)
LEMMA ArtifactBytes == Artifact \in Seq(Nat) /\ Size \in Nat /\ Size > 0
<1>1. Artifact \in Seq(Nat) /\ Artifact # <<>>
  BY PullAssumption
<1>2. Len(Artifact) \in Nat /\ Len(Artifact) # 0
  BY <1>1, EmptySeq
<1> QED
  BY <1>1, <1>2 DEF Size

(* The pull at rest.                                                         *)
LEMMA RestingRow == Resting \in PullRows /\ Resting.pc = "rest" /\ Resting.fd = 0 /\ Resting.hash = <<>>
<1>1. <<>> \in Seq(Nat)
  BY EmptySeq
<1> QED
  BY <1>1 DEF Resting, PullRows

(* A pull at rest, or about to read the partial file, claims nothing of it.   *)
LEMMA RestTrue ==
    ASSUME NEW k, NEW tp, NEW c, k.pc = "rest" \/ (k.pc = "read" /\ k.source = "https")
    PROVE  PullTrue(k, tp, c) /\ (Begins(c) => Clean(k, c))
  BY DEF PullTrue, Clean

(* The partial file is a sequence of bytes.                                  *)
LEMMA PartialBytes ==
    ASSUME NEW dk \in [Inodes -> Seq(Nat)], NEW tp \in {0} \cup Inodes
    PROVE  /\ Partial(tp, dk) \in Seq(Nat) /\ Len(Partial(tp, dk)) \in Nat
           /\ tp = 0 => Partial(tp, dk) = <<>>
<1>1. Partial(tp, dk) \in Seq(Nat)
  BY EmptySeq DEF Partial
<1>2. tp = 0 => Partial(tp, dk) = <<>>
  BY DEF Partial
<1> HIDE DEF Partial
<1> QED
  BY <1>1, <1>2

(* Nothing written yet is a beginning.                                       *)
LEMMA EmptyBegins == Begins(<<>>)
<1>1. Len(<<>>) = 0
  BY EmptySeq
<1> QED
  BY <1>1, ArtifactBytes DEF Begins

(* A handle that is at the end of its file appends to it.                    *)
LEMMA WrittenAtEnd ==
    ASSUME NEW c \in Seq(Nat), NEW k, NEW byte \in Nat, k.append \/ k.pos = Len(c)
    PROVE  Written(c, k, byte) = Append(c, byte)
<1>1. CASE k.append
  BY <1>1 DEF Written
<1>2. CASE ~k.append
  <2> DEFINE n == Len(c)
             w == [i \in 1..(n + 1) |-> IF i = n + 1 THEN byte ELSE IF i <= n THEN c[i] ELSE Wrong]
  <2>1. n \in Nat /\ k.pos = n
    BY <1>2
  <2>2. Max({n, n + 1}) = n + 1
    <3> HIDE DEF n
    <3>1. n + 1 \in {n, n + 1} /\ \A y \in {n, n + 1} : n + 1 >= y
      BY <2>1
    <3>2. \A x \in {n, n + 1} : (\A y \in {n, n + 1} : x >= y) => x = n + 1
      BY <2>1
    <3> QED
      BY <3>1, <3>2 DEF Max
  <2>3. Written(c, k, byte) = w
    BY <1>2, <2>1, <2>2 DEF Written
  <2>4. w = Append(c, byte)
    <3>1. w \in Seq(Nat) /\ Len(w) = n + 1 /\ \A i \in 1..(n + 1) : w[i] = IF i = n + 1 THEN byte ELSE c[i]
      BY <2>1
    <3>2. /\ Append(c, byte) \in Seq(Nat) /\ Len(Append(c, byte)) = n + 1
          /\ \A i \in 1..n : Append(c, byte)[i] = c[i]
          /\ Append(c, byte)[n + 1] = byte
      BY AppendProperties
    <3> DEFINE a == Append(c, byte)
    <3> HIDE DEF w, a, n
    <3>3. \A i \in 1..(n + 1) : w[i] = a[i]
      BY <2>1, <3>1, <3>2 DEF a
    <3> QED
      BY <2>1, <3>1, <3>2, <3>3, SeqEqual DEF a
  <2> QED
    BY <2>3, <2>4
<1> QED
  BY <1>1, <1>2

(* One byte of the rest goes to the file.                                    *)
LEMMA ByteMoves ==
    ASSUME NEW c \in Seq(Nat), NEW body \in Seq(Nat), body # <<>>
    PROVE  /\ Head(body) \in Nat /\ Tail(body) \in Seq(Nat)
           /\ Append(c, Head(body)) \in Seq(Nat) /\ Len(Append(c, Head(body))) = Len(c) + 1
           /\ Begins(c) /\ Completes(body, c) =>
                 /\ Begins(Append(c, Head(body)))
                 /\ Completes(Tail(body), Append(c, Head(body)))
<1> DEFINE b == Head(body)
           t == Tail(body)
           a == Append(c, b)
           n == Len(c)
           m == Len(body)
<1>1. /\ b \in Nat /\ t \in Seq(Nat) /\ Len(t) = m - 1 /\ b = body[1]
      /\ \A i \in 1..(m - 1) : t[i] = body[i + 1]
  BY HeadTailProperties
<1>2. /\ n \in Nat /\ m \in Nat /\ m > 0
  BY EmptySeq
<1>3. /\ a \in Seq(Nat) /\ Len(a) = n + 1 /\ \A i \in 1..n : a[i] = c[i]
  BY <1>1, AppendProperties
<1>4. a[n + 1] = b
  BY <1>1, AppendProperties
<1>5. ASSUME Begins(c), Completes(body, c) PROVE Begins(a) /\ Completes(t, a)
  <2>0. Size \in Nat
    BY ArtifactBytes
  <2>1. /\ n + m = Size /\ (\A i \in 1..m : body[i] = Artifact[n + i])
        /\ \A i \in 1..n : c[i] = Artifact[i]
    BY <1>5 DEF Begins, Completes
  <2> HIDE DEF a, b, t, n, m
  <2>2. b = Artifact[n + 1]
    BY <1>1, <1>2, <2>1
  <2>3. Begins(a)
    <3>1. ASSUME NEW i \in 1..(n + 1) PROVE a[i] = Artifact[i]
      <4>1. CASE i = n + 1
        BY <1>4, <2>2, <4>1
      <4>2. CASE i # n + 1
        <5>1. i \in 1..n
          BY <1>2, <4>2
        <5> QED
          BY <1>3, <2>1, <5>1
      <4> QED
        BY <4>1, <4>2
    <3>2. n + 1 <= Size
      BY <1>2, <2>0, <2>1
    <3> QED
      BY <1>3, <3>1, <3>2 DEF Begins
  <2>4. Completes(t, a)
    <3>1. ASSUME NEW i \in 1..(m - 1) PROVE t[i] = Artifact[(n + 1) + i]
      <4>1. i + 1 \in 1..m /\ n + (i + 1) = (n + 1) + i
        BY <1>2
      <4>2. body[i + 1] = Artifact[n + (i + 1)]
        BY <2>1, <4>1
      <4> QED
        BY <1>1, <4>1, <4>2
    <3>2. (n + 1) + (m - 1) = Size
      BY <1>2, <2>1
    <3> QED
      BY <1>1, <1>3, <3>1, <3>2 DEF Completes
  <2> QED
    BY <2>3, <2>4
<1> QED
  BY <1>1, <1>3, <1>5

(* With nothing left to come, what begins the artifact is the artifact.      *)
LEMMA NothingLeft ==
    ASSUME NEW c \in Seq(Nat), Begins(c), Completes(<<>>, c)
    PROVE  c = Artifact
<1>1. Len(c) = Len(Artifact) /\ \A i \in 1..Len(c) : c[i] = Artifact[i]
  <2>1. Len(<<>>) = 0 /\ Len(c) \in Nat
    BY EmptySeq
  <2> QED
    BY <2>1 DEF Begins, Completes, Size
<1> QED
  BY <1>1, ArtifactBytes, SeqEqual

(* What an honest source sends completes a clean partial file.               *)
LEMMA RestCompletes ==
    ASSUME NEW c \in Seq(Nat), Len(c) < Size
    PROVE  LET rest == SubSeq(Artifact, Len(c) + 1, Size) IN
           rest \in Seq(Nat) /\ rest # <<>> /\ Completes(rest, c)
<1> DEFINE n == Len(c)
           rest == SubSeq(Artifact, n + 1, Size)
<1>1. n \in Nat /\ Size \in Nat /\ n < Size
  BY ArtifactBytes
<1>2. \A i \in (n + 1)..Size : Artifact[i] \in Nat
  BY <1>1, ArtifactBytes DEF Size
<1> HIDE DEF n
<1>3. /\ rest \in Seq(Nat)
      /\ Len(rest) = IF n + 1 <= Size THEN Size - (n + 1) + 1 ELSE 0
      /\ \A i \in 1..(Size - (n + 1) + 1) : rest[i] = Artifact[n + 1 + i - 1]
  BY <1>1, <1>2, SubSeqProperties
<1> HIDE DEF rest
<1>4. Len(rest) = Size - n /\ \A i \in 1..(Size - n) : rest[i] = Artifact[n + i]
  BY <1>1, <1>3
<1>5. rest # <<>>
  BY <1>1, <1>4, EmptySeq
<1>6. Completes(rest, c)
  BY <1>1, <1>4 DEF Completes, n
<1> QED
  BY <1>3, <1>5, <1>6 DEF rest, n

-----------------------------------------------------------------------------
(* ModelPull: the steps.                                                     *)

(* The pull p moves to n: every other one is at rest.                        *)
LEMMA PullMoves ==
    ASSUME PullInv, apart, NEW p \in Pulls, NEW n \in PullRows, Goes(p, n),
           \A q \in Pulls : q # p => pull[q].pc = "rest",
           disk' \in [Inodes -> Seq(Nat)], temp' \in {0} \cup Inodes, final' \in {0} \cup Inodes,
           strikes' \in {0, 1}, final' # 0 => disk'[final'] = Artifact,
           n.pc = "rest" => n.fd = 0, n.pc # "rest" => final' = 0,
           PullTrue(n, temp', Partial(temp', disk')),
           strikes' = 1 => Clean(n, Partial(temp', disk'))
    PROVE  PullInv'
<1>1. pull \in [Pulls -> PullRows] /\ \A q \in Pulls : pull[q].pc = "rest" => pull[q].fd = 0
  BY DEF PullInv
<1>2. pull' \in [Pulls -> PullRows] /\ pull'[p] = n /\ \A q \in Pulls : q # p => pull'[q] = pull[q]
  BY <1>1 DEF Goes
<1> DEFINE c == Partial(temp', disk')
<1>3. strikes' = 1 => Begins(c)
  BY DEF Clean
<1> HIDE DEF c
<1>4. ASSUME NEW q \in Pulls
      PROVE  /\ pull'[q].pc = "rest" => pull'[q].fd = 0
             /\ pull'[q].pc # "rest" => final' = 0
             /\ PullTrue(pull'[q], temp', c)
             /\ strikes' = 1 => Clean(pull'[q], c)
  <2>1. CASE q = p
    BY <1>2, <2>1 DEF c
  <2>2. CASE q # p
    <3>1. pull'[q] = pull[q] /\ pull[q].pc = "rest" /\ pull[q].fd = 0
      BY <1>1, <1>2, <2>2
    <3>2. PullTrue(pull[q], temp', c) /\ (Begins(c) => Clean(pull[q], c))
      BY <3>1, RestTrue
    <3> QED
      BY <1>3, <3>1, <3>2
  <2> QED
    BY <2>1, <2>2
<1>5. \A q, z \in Pulls : q # z => pull'[q].pc = "rest" \/ pull'[z].pc = "rest"
  BY <1>2
<1> QED
  BY <1>2, <1>3, <1>4, <1>5 DEF PullInv, c

(* A pull that ends keeps what was published; the partial stays or goes.     *)
LEMMA PullEnds ==
    ASSUME PullInv, apart, NEW p \in Pulls, pull[p].pc # "rest",
           NEW n \in PullRows, Goes(p, n), n.pc = "rest", n.fd = 0,
           disk' = disk, temp' \in {temp, 0}, final' = final,
           strikes' \in {0, 1}, strikes' = 1 => temp' = 0 \/ strikes = 1
    PROVE  PullInv'
<1>1. /\ disk \in [Inodes -> Seq(Nat)] /\ temp \in {0} \cup Inodes /\ final \in {0} \cup Inodes
      /\ final = 0 /\ \A q \in Pulls : q # p => pull[q].pc = "rest"
      /\ strikes = 1 => Begins(Partial(temp, disk))
  BY DEF PullInv
<1>2. strikes' = 1 => Begins(Partial(temp', disk'))
  <2>1. Partial(0, disk) = <<>>
    BY DEF Partial
  <2> QED
    BY <1>1, <2>1, EmptyBegins
<1>3. /\ PullTrue(n, temp', Partial(temp', disk'))
      /\ strikes' = 1 => Clean(n, Partial(temp', disk'))
  BY <1>2, RestTrue
<1> QED
  BY <1>1, <1>3, PullMoves

(* The row a pull leaves when it ends.                                       *)
Ended(k, outcome) == [k EXCEPT !.pc = "rest", !.fd = 0, !.outcome = outcome]

(* It is a row at rest that holds no handle.                                 *)
LEMMA EndedRow ==
    ASSUME NEW k \in PullRows,
           NEW outcome \in {"none", "already_present", "partial_too_long", "io", "source", "overrun",
                            "size", "checksum", "ok"}
    PROVE  /\ Ended(k, outcome) \in PullRows /\ Ended(k, outcome).pc = "rest"
           /\ Ended(k, outcome).fd = 0
<1>1. 0 \in {0} \cup Inodes
  OBVIOUS
<1> QED
  BY <1>1 DEF PullRows, Ended

(* The row of a pull that reads the partial file again: after a redirect, and *)
(* after a source that ignored the range.                                    *)
AgainHops(k) == [k EXCEPT !.pc = "read", !.hops = @ + 1, !.fd = 0]
AgainRestarts(k) == [k EXCEPT !.pc = "read", !.restarts = @ + 1, !.fd = 0]

(* Such a row waits to read and keeps its source.                            *)
LEMMA AgainRow ==
    ASSUME NEW k \in PullRows
    PROVE  /\ AgainHops(k) \in PullRows /\ AgainHops(k).pc = "read" /\ AgainHops(k).source = k.source
           /\ AgainRestarts(k) \in PullRows /\ AgainRestarts(k).pc = "read"
           /\ AgainRestarts(k).source = k.source
<1> DEFINE h == k.hops
           r == k.restarts
           h1 == h + 1
           r1 == r + 1
<1>0. h \in Nat /\ r \in Nat
  BY DEF PullRows
<1> HIDE DEF h, r
<1>1. h1 \in Nat /\ r1 \in Nat /\ 0 \in {0} \cup Inodes
  BY <1>0
<1>2. /\ AgainHops(k) = [k EXCEPT !.pc = "read", !.hops = h1, !.fd = 0]
      /\ AgainRestarts(k) = [k EXCEPT !.pc = "read", !.restarts = r1, !.fd = 0]
  BY DEF AgainHops, AgainRestarts, h, r
<1> HIDE DEF h1, r1
<1>3. /\ [k EXCEPT !.pc = "read", !.hops = h1, !.fd = 0] \in PullRows
      /\ [k EXCEPT !.pc = "read", !.hops = h1, !.fd = 0].pc = "read"
      /\ [k EXCEPT !.pc = "read", !.hops = h1, !.fd = 0].source = k.source
  BY <1>1 DEF PullRows
<1>4. /\ [k EXCEPT !.pc = "read", !.restarts = r1, !.fd = 0] \in PullRows
      /\ [k EXCEPT !.pc = "read", !.restarts = r1, !.fd = 0].pc = "read"
      /\ [k EXCEPT !.pc = "read", !.restarts = r1, !.fd = 0].source = k.source
  BY <1>1 DEF PullRows
<1> QED
  BY <1>2, <1>3, <1>4

(* The row of a pull that has written a byte.                                *)
Moved(k) == [k EXCEPT !.body = Tail(@), !.pos = @ + 1,
                      !.hash = IF k.source = "file" THEN @ ELSE Append(@, Head(k.body))]

(* It is a row, with the position one further and the byte hashed.            *)
LEMMA MovedRow ==
    ASSUME NEW k \in PullRows, k.body # <<>>
    PROVE  /\ Moved(k) \in PullRows /\ Moved(k).pc = k.pc /\ Moved(k).source = k.source
           /\ Moved(k).fd = k.fd /\ Moved(k).append = k.append /\ Moved(k).pos = k.pos + 1
           /\ Moved(k).body = Tail(k.body)
           /\ Moved(k).hash = IF k.source = "file" THEN k.hash ELSE Append(k.hash, Head(k.body))
<1> DEFINE b == k.body
           h == k.hash
           s == k.pos
           b1 == Tail(b)
           s1 == s + 1
           h1 == IF k.source = "file" THEN h ELSE Append(h, Head(b))
<1>0. b \in Seq(Nat) /\ h \in Seq(Nat) /\ s \in Nat /\ b # <<>>
  BY DEF PullRows
<1> HIDE DEF b, h, s
<1>1. b1 \in Seq(Nat) /\ Append(h, Head(b)) \in Seq(Nat)
  BY <1>0, ByteMoves
<1>2. s1 \in Nat /\ h1 \in Seq(Nat)
  BY <1>0, <1>1
<1>3. Moved(k) = [k EXCEPT !.body = b1, !.pos = s1, !.hash = h1]
  BY DEF Moved, b, h, s
<1> DEFINE n == [k EXCEPT !.body = b1, !.pos = s1, !.hash = h1]
<1> HIDE DEF b1, s1, h1
<1>4. /\ n \in PullRows /\ n.pc = k.pc /\ n.source = k.source /\ n.fd = k.fd /\ n.append = k.append
      /\ n.pos = s1 /\ n.body = b1 /\ n.hash = h1
  BY <1>1, <1>2 DEF PullRows
<1> HIDE DEF n
<1>5. /\ Moved(k) \in PullRows /\ Moved(k).pc = k.pc /\ Moved(k).source = k.source
      /\ Moved(k).fd = k.fd /\ Moved(k).append = k.append
      /\ Moved(k).pos = s1 /\ Moved(k).body = b1 /\ Moved(k).hash = h1
  BY <1>3, <1>4 DEF n
<1> QED
  BY <1>5 DEF b, h, s, b1, s1, h1

(* What a step of a pull under way may rely on.                              *)
LEMMA UnderWay ==
    ASSUME PullInv, apart, NEW p \in Pulls, pull[p].pc # "rest"
    PROVE  /\ pull[p] \in PullRows /\ final = 0
           /\ \A q \in Pulls : q # p => pull[q].pc = "rest"
           /\ disk \in [Inodes -> Seq(Nat)] /\ temp \in {0} \cup Inodes /\ strikes \in {0, 1}
           /\ Partial(temp, disk) \in Seq(Nat) /\ Len(Partial(temp, disk)) \in Nat
           /\ PullTrue(pull[p], temp, Partial(temp, disk))
           /\ strikes = 1 => Clean(pull[p], Partial(temp, disk))
<1>1. /\ pull[p] \in PullRows /\ final = 0
      /\ \A q \in Pulls : q # p => pull[q].pc = "rest"
      /\ disk \in [Inodes -> Seq(Nat)] /\ temp \in {0} \cup Inodes /\ strikes \in {0, 1}
      /\ PullTrue(pull[p], temp, Partial(temp, disk))
      /\ strikes = 1 => Clean(pull[p], Partial(temp, disk))
  BY DEF PullInv
<1> QED
  BY <1>1, PartialBytes

(* A pull ends with any outcome; a strike it adds leaves no partial file.    *)
LEMMA EndsStep ==
    ASSUME PullInv, apart, NEW p \in Pulls, pull[p].pc # "rest",
           NEW outcome \in {"none", "already_present", "partial_too_long", "io", "source", "overrun",
                            "size", "checksum", "ok"},
           Ends(p, outcome), disk' = disk, temp' \in {temp, 0}, final' = final,
           strikes' \in {0, 1}, strikes' = 1 => temp' = 0 \/ strikes = 1
    PROVE  PullInv'
<1> DEFINE n == Ended(pull[p], outcome)
<1>0. pull[p] \in PullRows
  BY UnderWay
<1>1. n \in PullRows /\ n.pc = "rest" /\ n.fd = 0
  BY <1>0, EndedRow
<1>2. Goes(p, n)
  BY DEF Ends, Ended
<1> HIDE DEF n
<1> QED
  BY <1>1, <1>2, PullEnds

(* A pull begins.                                                            *)
LEMMA StartStep ==
    ASSUME PullInv, apart', NEW p \in Pulls, StartPull(p)
    PROVE  PullInv'
<1>0. apart /\ \A q \in Pulls : q # p => pull[q].pc = "rest"
  BY DEF StartPull
<1>1. /\ disk \in [Inodes -> Seq(Nat)] /\ temp \in {0} \cup Inodes /\ final \in {0} \cup Inodes
      /\ strikes \in {0, 1}
      /\ final # 0 => disk[final] = Artifact
      /\ strikes = 1 => Begins(Partial(temp, disk))
  BY <1>0 DEF PullInv
<1>2. disk' = disk /\ temp' = temp /\ final' = final /\ strikes' = strikes
  BY DEF StartPull
<1> DEFINE c == Partial(temp, disk)
<1>3. PICK source \in Sources :
        Goes(p, IF final # 0 THEN [Resting EXCEPT !.outcome = "already_present"]
                ELSE [Resting EXCEPT !.source = source, !.pc = IF source = "file" THEN "open" ELSE "read"])
  BY DEF StartPull
<1>4. source \in {"https", "file"}
  BY PullAssumption
<1> DEFINE n == IF final # 0 THEN [Resting EXCEPT !.outcome = "already_present"]
                ELSE [Resting EXCEPT !.source = source, !.pc = IF source = "file" THEN "open" ELSE "read"]
<1>5. /\ n \in PullRows
      /\ final # 0 => n.pc = "rest" /\ n.fd = 0
      /\ final = 0 => n.pc = (IF source = "file" THEN "open" ELSE "read") /\ n.source = source
                       /\ n.hash = <<>> /\ n.fd = 0
  <2>1. CASE final # 0
    <3>1. /\ [Resting EXCEPT !.outcome = "already_present"] \in PullRows
          /\ [Resting EXCEPT !.outcome = "already_present"].pc = "rest"
          /\ [Resting EXCEPT !.outcome = "already_present"].fd = 0
      BY RestingRow DEF PullRows
    <3> QED
      BY <2>1, <3>1
  <2>2. CASE final = 0
    <3> DEFINE pc == IF source = "file" THEN "open" ELSE "read"
               o == [Resting EXCEPT !.source = source, !.pc = pc]
    <3>1. pc \in {"open", "read"}
      OBVIOUS
    <3> HIDE DEF pc
    <3>2. o \in PullRows /\ o.pc = pc /\ o.source = source /\ o.hash = <<>> /\ o.fd = 0
      BY <1>4, <3>1, RestingRow DEF PullRows
    <3> QED
      BY <2>2, <3>2 DEF pc
  <2> QED
    BY <2>1, <2>2
<1>6. Goes(p, n)
  BY <1>3
<1> HIDE DEF n
<1>7. PullTrue(n, temp, c) /\ (Begins(c) => Clean(n, c))
  <2> HIDE DEF c
  <2> QED
    BY <1>4, <1>5 DEF PullTrue, OpenTrue, Clean
<1> QED
  BY <1>0, <1>1, <1>2, <1>5, <1>6, <1>7, PullMoves

(* read_partial.                                                             *)
LEMMA ReadStep ==
    ASSUME PullInv, apart, NEW p \in Pulls, ReadPartial(p)
    PROVE  PullInv'
<1> DEFINE k == pull[p]
           c == Partial(temp, disk)
           n == [k EXCEPT !.pc = "open", !.hash = c]
<1>0. k.pc = "read" /\ disk' = disk /\ final' = final /\ strikes' = strikes
  BY DEF ReadPartial
<1>1. /\ k \in PullRows /\ final = 0 /\ \A q \in Pulls : q # p => pull[q].pc = "rest"
      /\ disk \in [Inodes -> Seq(Nat)] /\ temp \in {0} \cup Inodes /\ strikes \in {0, 1}
      /\ c \in Seq(Nat) /\ Len(c) \in Nat
      /\ PullTrue(k, temp, c)
      /\ strikes = 1 => Clean(k, c)
  BY <1>0, UnderWay
<1>2. CASE Len(c) > Size
  <2>1. Ends(p, "partial_too_long") /\ temp' = 0
    BY <1>2 DEF ReadPartial, Partial
  <2> QED
    BY <1>0, <1>1, <2>1, EndsStep
<1>3. CASE ~(Len(c) > Size)
  <2>1. Goes(p, n) /\ temp' = temp
    BY <1>3 DEF ReadPartial, Partial
  <2>a. c = Partial(temp', disk')
    BY <1>0, <2>1
  <2> HIDE DEF k, c
  <2>2. n \in PullRows /\ n.pc = "open" /\ n.hash = c /\ n.source = k.source
    BY <1>1 DEF PullRows
  <2> HIDE DEF n
  <2>3. Len(c) <= Size /\ k.source = "https"
    BY <1>0, <1>1, <1>3, ArtifactBytes DEF PullTrue
  <2>4. PullTrue(n, temp', c) /\ (strikes' = 1 => Clean(n, c))
    BY <1>0, <1>1, <2>2, <2>3 DEF PullTrue, OpenTrue, Clean
  <2> QED
    BY <1>0, <1>1, <2>1, <2>2, <2>4, <2>a, PullMoves
<1> QED
  BY <1>2, <1>3

(* The partial is opened to append, or a file is created.                    *)
LEMMA OpenStep ==
    ASSUME PullInv, apart, NEW p \in Pulls, OpenTemp(p)
    PROVE  PullInv'
<1> DEFINE k == pull[p]
           c == Partial(temp, disk)
           resuming == k.source # "file" /\ Len(k.hash) \in 1..(Size - 1)
           inode == IF temp = 0 THEN FreeInode ELSE temp
           n == [k EXCEPT !.pc = "ask", !.fd = temp, !.append = TRUE, !.resumed = Len(k.hash)]
           m == [k EXCEPT !.pc = "ask", !.fd = inode, !.append = FALSE, !.pos = 0,
                          !.hash = <<>>, !.resumed = 0]
<1>0. k.pc = "open" /\ final' = final /\ strikes' = strikes
  BY DEF OpenTemp
<1>1. /\ k \in PullRows /\ final = 0 /\ \A q \in Pulls : q # p => pull[q].pc = "rest"
      /\ disk \in [Inodes -> Seq(Nat)] /\ temp \in {0} \cup Inodes /\ strikes \in {0, 1}
      /\ c \in Seq(Nat) /\ Len(c) \in Nat
      /\ PullTrue(k, temp, c)
      /\ strikes = 1 => Clean(k, c)
  BY <1>0, UnderWay
<1>a. k.source \in {"https", "file"} /\ OpenTrue(k.source, k.hash, c)
  BY <1>0, <1>1 DEF PullRows, PullTrue
<1>b. temp = 0 => c = <<>>
  BY <1>1, PartialBytes
<1>2. CASE resuming
  <2>1. k.source = "https" /\ k.hash = c /\ Len(c) \in 1..(Size - 1) /\ temp # 0
    <3>1. k.source = "https" /\ k.hash = c /\ Len(c) \in 1..(Size - 1)
      BY <1>2, <1>a DEF OpenTrue
    <3>2. Len(<<>>) = 0
      BY EmptySeq
    <3> QED
      BY <1>b, <3>1, <3>2, ArtifactBytes
  <2>2. Goes(p, n) /\ temp' = temp /\ disk' = disk
    BY <1>2, <2>1 DEF OpenTemp
  <2>3. c = Partial(temp', disk')
    BY <2>2
  <2> HIDE DEF k, c
  <2>4. /\ n \in PullRows /\ n.pc = "ask" /\ n.fd = temp /\ n.append = TRUE
        /\ n.resumed = Len(c) /\ n.hash = c /\ n.source = "https"
    BY <1>1, <2>1 DEF PullRows
  <2> HIDE DEF n
  <2>5. Len(c) < Size
    BY <2>1, ArtifactBytes
  <2>6. PullTrue(n, temp', c) /\ (strikes' = 1 => Clean(n, c))
    BY <1>0, <1>1, <2>1, <2>2, <2>4, <2>5 DEF PullTrue, FileTrue, Clean
  <2> QED
    BY <1>0, <1>1, <2>2, <2>3, <2>4, <2>6, PullMoves
<1>3. CASE ~resuming
  <2>1. Goes(p, m) /\ temp' = inode /\ disk' = [disk EXCEPT ![inode] = <<>>]
    BY <1>3 DEF OpenTemp
  <2>2. inode \in Inodes
    <3>1. CASE temp # 0
      BY <1>1, <3>1
    <3>2. CASE temp = 0
      <4>1. {pull[q].fd : q \in Pulls} \subseteq {0, k.fd}
        <5>1. \A q \in Pulls : q # p => pull[q].fd = 0
          BY <1>1 DEF PullInv
        <5> QED
          BY <5>1
      <4>2. \E i \in {1, 2} : i \notin {temp, final} \cup {pull[q].fd : q \in Pulls}
        <5> DEFINE fds == {pull[q].fd : q \in Pulls}
                   f == k.fd
        <5>1. fds \subseteq {0, f}
          BY <4>1
        <5> HIDE DEF fds, f
        <5>2. CASE f = 1
          <6>1. 2 \notin fds
            BY <5>1, <5>2
          <6> QED
            BY <1>1, <3>2, <6>1 DEF fds
        <5>3. CASE f # 1
          <6>1. 1 \notin fds
            BY <5>1, <5>3
          <6> QED
            BY <1>1, <3>2, <6>1 DEF fds
        <5> QED
          BY <5>2, <5>3
      <4>3. FreeInode \in Inodes
        BY <4>2, SomeInode DEF FreeInode
      <4> QED
        BY <3>2, <4>3
    <3> QED
      BY <3>1, <3>2
  <2> HIDE DEF inode
  <2>3. disk' \in [Inodes -> Seq(Nat)] /\ disk'[inode] = <<>> /\ inode # 0
    <3>1. <<>> \in Seq(Nat)
      BY EmptySeq
    <3> QED
      BY <1>1, <2>1, <2>2, <3>1, SomeInode
  <2>4. Partial(temp', disk') = <<>>
    BY <2>1, <2>3 DEF Partial
  <2> HIDE DEF k, c
  <2>5. /\ m \in PullRows /\ m.pc = "ask" /\ m.fd = inode /\ m.append = FALSE /\ m.pos = 0
        /\ m.resumed = 0 /\ m.hash = <<>> /\ m.source = k.source
    <3>1. <<>> \in Seq(Nat) /\ inode \in {0} \cup Inodes
      BY <2>2, EmptySeq
    <3> QED
      BY <1>1, <3>1 DEF PullRows
  <2> HIDE DEF m
  <2>6. Len(<<>>) = 0 /\ 0 < Size
    BY EmptySeq, ArtifactBytes
  <2>7. PullTrue(m, temp', <<>>) /\ Clean(m, <<>>)
    BY <2>1, <2>3, <2>5, <2>6, EmptyBegins DEF PullTrue, FileTrue, Clean
  <2> QED
    BY <1>0, <1>1, <2>1, <2>2, <2>3, <2>4, <2>5, <2>7, PullMoves
<1> QED
  BY <1>2, <1>3

(* The head of the answer.                                                   *)
LEMMA AnswerStep ==
    ASSUME PullInv, apart, NEW p \in Pulls, AnswerHonestly(p) \/ AnswerBadly(p) \/ RangeIgnored(p)
    PROVE  PullInv'
<1> DEFINE k == pull[p]
           c == Partial(temp, disk)
           rest == SubSeq(Artifact, Len(c) + 1, Size)
<1>0. k.pc = "ask" /\ disk' = disk /\ final' = final
  BY DEF AnswerHonestly, AnswerBadly, RangeIgnored
<1>1. /\ k \in PullRows /\ final = 0 /\ \A q \in Pulls : q # p => pull[q].pc = "rest"
      /\ disk \in [Inodes -> Seq(Nat)] /\ temp \in {0} \cup Inodes /\ strikes \in {0, 1}
      /\ c \in Seq(Nat) /\ Len(c) \in Nat
      /\ PullTrue(k, temp, c)
      /\ strikes = 1 => Clean(k, c)
  BY <1>0, UnderWay
<1>2. /\ temp # 0 /\ k.fd = temp /\ FileTrue(k.source, k.hash, k.append, k.pos, c)
      /\ k.resumed = Len(c) /\ Len(c) < Size /\ (k.source = "file" => Len(c) = 0)
  BY <1>0, <1>1 DEF PullTrue
<1>3. rest \in Seq(Nat) /\ rest # <<>> /\ Completes(rest, c)
  BY <1>1, <1>2, RestCompletes
<1>4. RestOf(p) = rest
  BY <1>2 DEF RestOf
<1> HIDE DEF rest
<1>5. ASSUME NEW body \in Seq(Nat), NEW n \in PullRows, n.pc = "stream", n.body = body,
             n.fd = k.fd, n.source = k.source, n.hash = k.hash, n.append = k.append, n.pos = k.pos,
             Goes(p, n), temp' = temp, strikes' \in {0, 1},
             strikes' = 1 => strikes = 1 /\ Completes(body, c)
      PROVE  PullInv'
  <2>1. c = Partial(temp', disk')
    BY <1>0, <1>5
  <2> HIDE DEF k, c
  <2>2. PullTrue(n, temp', c) /\ (strikes' = 1 => Clean(n, c))
    BY <1>1, <1>2, <1>5 DEF PullTrue, Clean
  <2> QED
    BY <1>0, <1>1, <1>5, <2>1, <2>2, PullMoves
<1>6. ASSUME NEW n \in PullRows, n.pc = "read", n.source = "https", Goes(p, n), temp' \in {temp, 0},
             strikes' \in {0, strikes}
      PROVE  PullInv'
  <2> DEFINE d == Partial(temp', disk')
  <2>1. strikes' = 1 => Begins(d)
    <3>1. strikes = 1 => Begins(c)
      BY <1>1 DEF Clean
    <3>2. d = c \/ d = <<>>
      BY <1>0, <1>6 DEF Partial
    <3> QED
      BY <1>1, <1>6, <3>1, <3>2, EmptyBegins
  <2> HIDE DEF d
  <2>2. PullTrue(n, temp', d) /\ (strikes' = 1 => Clean(n, d))
    BY <1>6, <2>1, RestTrue
  <2> QED
    BY <1>0, <1>1, <1>6, <2>2, PullMoves DEF d
<1>7. CASE AnswerHonestly(p)
  <2> DEFINE n == [k EXCEPT !.pc = "stream", !.body = rest]
  <2>1. Goes(p, n) /\ temp' = temp /\ strikes' = strikes
    BY <1>4, <1>7 DEF AnswerHonestly
  <2>2. /\ n \in PullRows /\ n.pc = "stream" /\ n.body = rest /\ n.fd = k.fd /\ n.source = k.source
        /\ n.hash = k.hash /\ n.append = k.append /\ n.pos = k.pos
    <3> HIDE DEF k
    <3> QED
      BY <1>1, <1>3 DEF PullRows
  <2> HIDE DEF n
  <2> QED
    BY <1>1, <1>3, <1>5, <2>1, <2>2
<1>8. CASE AnswerBadly(p)
  <2> DEFINE j == [k EXCEPT !.honest = FALSE]
  <2>0. strikes' = 0 /\ temp' = temp
    BY <1>8 DEF AnswerBadly
  <2>1. /\ j \in PullRows /\ j.pc = k.pc /\ j.fd = k.fd /\ j.source = k.source
        /\ j.hash = k.hash /\ j.append = k.append /\ j.pos = k.pos /\ j.hops = k.hops
    <3> HIDE DEF k
    <3> QED
      BY <1>1 DEF PullRows
  <2>2. \/ \E body \in Doctored(rest) : Goes(p, [j EXCEPT !.pc = "stream", !.body = body])
        \/ Ends(p, "source")
        \/ j.source = "https" /\ Goes(p, AgainHops(j))
    BY <1>4, <1>8 DEF AnswerBadly, AgainHops
  <2> HIDE DEF j
  <2>3. CASE Ends(p, "source")
    BY <1>0, <1>1, <2>0, <2>3, EndsStep
  <2>4. ASSUME NEW body \in Doctored(rest), Goes(p, [j EXCEPT !.pc = "stream", !.body = body])
        PROVE  PullInv'
    <3>1. body \in Seq(Nat)
      <4>0. Wrong \in Nat /\ Len(rest) \in Nat /\ 1 \in 1..Len(rest)
        BY <1>3, EmptySeq DEF Wrong
      <4>1. [rest EXCEPT ![1] = Wrong] \in Seq(Nat)
        BY <1>3, <4>0, ExceptSeq
      <4>2. Append(rest, Wrong) \in Seq(Nat)
        BY <1>3, <4>0, AppendProperties
      <4>3. Front(rest) \in Seq(Nat)
        <5>1. \A i \in 1..(Len(rest) - 1) : rest[i] \in Nat
          BY <1>3
        <5> QED
          BY <4>0, <5>1, SubSeqProperties DEF Front
      <4> QED
        BY <4>1, <4>2, <4>3 DEF Doctored
    <3> DEFINE n == [j EXCEPT !.pc = "stream", !.body = body]
    <3>2. /\ n \in PullRows /\ n.pc = "stream" /\ n.body = body /\ n.fd = k.fd /\ n.source = k.source
          /\ n.hash = k.hash /\ n.append = k.append /\ n.pos = k.pos
      <4> HIDE DEF k
      <4> QED
        BY <2>1, <3>1 DEF PullRows
    <3>3. Goes(p, n)
      BY <2>4
    <3> HIDE DEF n
    <3> QED
      BY <1>5, <2>0, <3>1, <3>2, <3>3
  <2>5. CASE j.source = "https" /\ Goes(p, AgainHops(j))
    <3> DEFINE n == AgainHops(j)
    <3>1. n \in PullRows /\ n.pc = "read" /\ n.source = "https"
      BY <2>1, <2>5, AgainRow
    <3>2. Goes(p, n)
      BY <2>5
    <3> HIDE DEF n
    <3> QED
      BY <1>6, <2>0, <3>1, <3>2
  <2> QED
    BY <2>2, <2>3, <2>4, <2>5
<1>9. CASE RangeIgnored(p)
  <2> DEFINE j == [k EXCEPT !.honest = FALSE]
  <2>0. strikes' = strikes /\ k.resumed > 0
    BY <1>9 DEF RangeIgnored
  <2>1. j \in PullRows /\ j.source = k.source /\ j.restarts = k.restarts /\ k.source \in {"https", "file"}
    <3> HIDE DEF k
    <3> QED
      BY <1>1 DEF PullRows
  <2>2. \/ Ends(p, "source") /\ temp' = temp
        \/ Goes(p, AgainRestarts(j)) /\ temp' = 0
    BY <1>2, <1>9 DEF RangeIgnored, AgainRestarts
  <2>3. k.source = "https"
    BY <1>1, <1>2, <2>0, <2>1
  <2> HIDE DEF j
  <2>4. CASE Ends(p, "source") /\ temp' = temp
    BY <1>0, <1>1, <2>0, <2>4, EndsStep
  <2>5. CASE Goes(p, AgainRestarts(j)) /\ temp' = 0
    <3> DEFINE n == AgainRestarts(j)
    <3>1. n \in PullRows /\ n.pc = "read" /\ n.source = "https"
      BY <2>1, <2>3, AgainRow
    <3>2. Goes(p, n)
      BY <2>5
    <3> HIDE DEF n
    <3> QED
      BY <1>6, <2>0, <2>5, <3>1, <3>2
  <2> QED
    BY <2>2, <2>4, <2>5
<1> QED
  BY <1>7, <1>8, <1>9

(* A byte of the body reaches the file, or one too many ends the pull.       *)
LEMMA BytesStep ==
    ASSUME PullInv, apart, NEW p \in Pulls, OnBytes(p)
    PROVE  PullInv'
<1> DEFINE k == pull[p]
           c == Partial(temp, disk)
           hashed == IF k.source = "file" THEN k.pos ELSE Len(k.hash)
<1>0. k.pc = "stream" /\ k.body # <<>> /\ final' = final /\ strikes' = strikes
  BY DEF OnBytes
<1>1. /\ k \in PullRows /\ final = 0 /\ \A q \in Pulls : q # p => pull[q].pc = "rest"
      /\ disk \in [Inodes -> Seq(Nat)] /\ temp \in {0} \cup Inodes /\ strikes \in {0, 1}
      /\ c \in Seq(Nat) /\ Len(c) \in Nat
      /\ PullTrue(k, temp, c)
      /\ strikes = 1 => Clean(k, c)
  BY <1>0, UnderWay
<1>2. CASE hashed + 1 > Size
  <2>1. Ends(p, "overrun") /\ temp' = 0 /\ disk' = disk
    BY <1>2 DEF OnBytes
  <2> QED
    BY <1>0, <1>1, <2>1, EndsStep
<1>3. CASE ~(hashed + 1 > Size)
  <2> DEFINE b == k.body
             d == Append(c, Head(b))
             n == Moved(k)
  <2>1. /\ disk' = [disk EXCEPT ![k.fd] = Written(@, k, Head(k.body))]
        /\ Goes(p, n) /\ temp' = temp
    BY <1>3 DEF OnBytes, Moved
  <2>2. /\ n \in PullRows /\ n.pc = "stream" /\ n.source = k.source /\ n.fd = k.fd
        /\ n.append = k.append /\ n.pos = k.pos + 1 /\ n.body = Tail(b)
        /\ n.hash = IF k.source = "file" THEN k.hash ELSE Append(k.hash, Head(b))
    BY <1>0, <1>1, MovedRow
  <2>3. /\ temp # 0 /\ k.fd = temp
        /\ FileTrue(k.source, k.hash, k.append, k.pos, c)
        /\ b \in Seq(Nat) /\ b # <<>> /\ k.source \in {"https", "file"} /\ k.pos \in Nat
    BY <1>0, <1>1 DEF PullTrue, PullRows
  <2> HIDE DEF n, b
  <2>4. /\ Head(b) \in Nat /\ Tail(b) \in Seq(Nat) /\ d \in Seq(Nat) /\ Len(d) = Len(c) + 1
        /\ Begins(c) /\ Completes(b, c) => Begins(d) /\ Completes(Tail(b), d)
    BY <1>1, <2>3, ByteMoves
  <2>5. Written(c, k, Head(b)) = d
    BY <1>1, <2>3, <2>4, WrittenAtEnd DEF FileTrue
  <2>6. disk[temp] = c
    BY <2>3 DEF Partial
  <2>7. disk' = [disk EXCEPT ![temp] = d]
    BY <2>1, <2>3, <2>5, <2>6 DEF b
  <2> HIDE DEF d
  <2>8. disk' \in [Inodes -> Seq(Nat)] /\ Partial(temp', disk') = d
    BY <1>1, <2>1, <2>3, <2>4, <2>7 DEF Partial
  <2>9. FileTrue(n.source, n.hash, n.append, n.pos, d)
    <3>1. k.source = "https" => k.hash = c
      BY <2>3 DEF FileTrue
    <3>2. n.source = "https" => n.hash = d
      BY <2>2, <3>1 DEF d
    <3>3. /\ n.append \/ n.pos = Len(d)
          /\ n.source = "file" => n.pos = Len(d)
      BY <2>2, <2>3, <2>4 DEF FileTrue
    <3> QED
      BY <3>2, <3>3 DEF FileTrue
  <2>10. PullTrue(n, temp', d)
    BY <2>1, <2>2, <2>3, <2>9 DEF PullTrue
  <2>11. strikes' = 1 => Clean(n, d)
    <3>1. strikes = 1 => Begins(c) /\ Completes(b, c)
      BY <1>0, <1>1 DEF Clean, b
    <3> QED
      BY <1>0, <2>2, <2>4, <3>1 DEF Clean
  <2> QED
    BY <1>0, <1>1, <2>1, <2>2, <2>8, <2>10, <2>11, PullMoves
<1> QED
  BY <1>2, <1>3

(* The stream is complete.  Against a clean partial file an honest source    *)
(* has sent the artifact, so that a second failure in a row is none.         *)
LEMMA DoneStep ==
    ASSUME PullInv, apart, NEW p \in Pulls, StreamDone(p)
    PROVE  PullInv'
<1> DEFINE k == pull[p]
           c == Partial(temp, disk)
           v == Verify(IF k.source # "file" THEN k.hash ELSE IF temp = 0 THEN <<>> ELSE disk[temp])
<1>0. /\ k.pc = "stream" /\ k.body = <<>> /\ disk' = disk /\ final' = final
      /\ IF v = "ok" THEN Goes(p, [k EXCEPT !.pc = "rename"]) ELSE Ends(p, v)
      /\ temp' = IF v # "ok" /\ DiscardsPartial(v) THEN 0 ELSE temp
      /\ strikes' = IF v = "ok" THEN 0 ELSE IF k.honest THEN strikes + 1 ELSE strikes
  BY DEF StreamDone
<1>1. /\ k \in PullRows /\ final = 0 /\ \A q \in Pulls : q # p => pull[q].pc = "rest"
      /\ disk \in [Inodes -> Seq(Nat)] /\ temp \in {0} \cup Inodes /\ strikes \in {0, 1}
      /\ c \in Seq(Nat) /\ Len(c) \in Nat
      /\ PullTrue(k, temp, c)
      /\ strikes = 1 => Clean(k, c)
  BY <1>0, UnderWay
<1>2. temp # 0 /\ k.fd = temp /\ FileTrue(k.source, k.hash, k.append, k.pos, c) /\ k.source \in {"https", "file"}
  BY <1>0, <1>1 DEF PullTrue, PullRows
<1>3. v = Verify(c)
  <2>1. c = disk[temp]
    BY <1>2 DEF Partial
  <2> HIDE DEF c
  <2>2. (IF k.source # "file" THEN k.hash ELSE IF temp = 0 THEN <<>> ELSE disk[temp]) = c
    BY <1>2, <2>1 DEF FileTrue
  <2> QED
    BY <2>2
<1> HIDE DEF v, c
<1>4. v \in {"size", "checksum", "ok"} /\ (v = "ok" => c = Artifact) /\ (c = Artifact => v = "ok")
  <2>1. Len(Artifact) = Size
    BY DEF Size
  <2> QED
    BY <1>3, <2>1 DEF Verify
<1>5. CASE v = "ok"
  <2> DEFINE n == [k EXCEPT !.pc = "rename"]
  <2>1. Goes(p, n) /\ temp' = temp /\ strikes' = 0
    BY <1>0, <1>5
  <2>2. n \in PullRows /\ n.pc = "rename" /\ n.fd = temp
    <3> HIDE DEF k
    <3> QED
      BY <1>1, <1>2 DEF PullRows
  <2> HIDE DEF n
  <2>3. PullTrue(n, temp', c)
    BY <1>2, <1>4, <1>5, <2>1, <2>2 DEF PullTrue
  <2>4. c = Partial(temp', disk')
    BY <1>0, <2>1 DEF c
  <2> QED
    BY <1>0, <1>1, <2>1, <2>2, <2>3, <2>4, PullMoves
<1>6. CASE v # "ok"
  <2>1. Ends(p, v) /\ temp' = 0
    BY <1>0, <1>4, <1>6 DEF DiscardsPartial
  <2>2. strikes = 0
    <3>1. SUFFICES ASSUME strikes = 1 PROVE FALSE
      BY <1>1
    <3>2. Begins(c) /\ Completes(<<>>, c)
      BY <1>0, <1>1, <3>1 DEF Clean
    <3>3. c = Artifact
      BY <1>1, <3>2, NothingLeft
    <3> QED
      BY <1>4, <1>6, <3>3
  <2>3. strikes' \in {0, 1}
    BY <1>0, <1>6, <2>2
  <2> QED
    BY <1>0, <1>4, <2>1, <2>3, EndsStep
<1> QED
  BY <1>5, <1>6

(* The rename gives the artifact its name, and the pull is over.             *)
LEMMA RenameStep ==
    ASSUME PullInv, apart, NEW p \in Pulls, RenameTemp(p)
    PROVE  PullInv'
<1> DEFINE k == pull[p]
           n == Ended(k, "ok")
           c == Partial(temp, disk)
<1>0. k.pc = "rename" /\ disk' = disk /\ strikes' = strikes
  BY DEF RenameTemp
<1>1. /\ k \in PullRows /\ final = 0 /\ \A q \in Pulls : q # p => pull[q].pc = "rest"
      /\ disk \in [Inodes -> Seq(Nat)] /\ temp \in {0} \cup Inodes /\ strikes \in {0, 1}
      /\ c \in Seq(Nat) /\ Len(c) \in Nat
      /\ PullTrue(k, temp, c)
      /\ strikes = 1 => Clean(k, c)
  BY <1>0, UnderWay
<1>2. temp # 0 /\ c = Artifact
  BY <1>0, <1>1 DEF PullTrue
<1>3. Goes(p, n) /\ final' = temp /\ temp' = 0
  BY <1>2 DEF RenameTemp, Ends, Ended
<1>4. n \in PullRows /\ n.pc = "rest" /\ n.fd = 0
  BY <1>1, EndedRow
<1>5. disk'[final'] = Artifact
  BY <1>0, <1>2, <1>3 DEF Partial
<1>6. Partial(temp', disk') = <<>>
  BY <1>3 DEF Partial
<1> HIDE DEF n
<1>7. PullTrue(n, temp', <<>>) /\ Clean(n, <<>>)
  BY <1>4, RestTrue, EmptyBegins
<1> QED
  BY <1>0, <1>1, <1>3, <1>4, <1>5, <1>6, <1>7, PullMoves

(* The connection drops, or the process dies: the partial stays.             *)
LEMMA CutStep ==
    ASSUME PullInv, apart, NEW p \in Pulls, SourceDrops(p) \/ PullKilled(p)
    PROVE  PullInv'
<1>0. /\ pull[p].pc # "rest" /\ disk' = disk /\ temp' = temp /\ final' = final
      /\ strikes' = strikes
  BY DEF SourceDrops, PullKilled
<1>1. strikes \in {0, 1}
  BY <1>0, UnderWay
<1>2. CASE SourceDrops(p)
  <2>1. Ends(p, "source")
    BY <1>2 DEF SourceDrops
  <2> QED
    BY <1>0, <1>1, <2>1, EndsStep
<1>3. CASE PullKilled(p)
  <2>1. Goes(p, Resting)
    BY <1>3 DEF PullKilled
  <2> QED
    BY <1>0, <1>1, <2>1, RestingRow, PullEnds
<1> QED
  BY <1>2, <1>3

-----------------------------------------------------------------------------
(* ModelPull: the theorem.                                                   *)

(* Nothing is on disk, and nobody pulls.                                     *)
LEMMA PullBegins == PullInit => PullInv
<1> SUFFICES ASSUME PullInit PROVE PullInv
  OBVIOUS
<1>1. <<>> \in Seq(Nat)
  BY EmptySeq
<1>2. /\ disk \in [Inodes -> Seq(Nat)] /\ temp = 0 /\ final = 0 /\ strikes = 0
      /\ pull = [p \in Pulls |-> Resting]
  BY <1>1 DEF PullInit
<1>3. \A p \in Pulls : pull[p] = Resting
  BY <1>2
<1>4. pull \in [Pulls -> PullRows]
  BY <1>2, RestingRow
<1>5. ASSUME NEW p \in Pulls
      PROVE  /\ pull[p].pc = "rest" /\ pull[p].fd = 0
             /\ PullTrue(pull[p], temp, Partial(temp, disk))
  <2>1. pull[p].pc = "rest" /\ pull[p].fd = 0
    BY <1>3, RestingRow
  <2> QED
    BY <2>1, RestTrue
<1> QED
  BY <1>2, <1>4, <1>5 DEF PullInv

(* A step of any pull keeps the invariant; once pulls have overlapped, it     *)
(* says nothing more.                                                        *)
LEMMA PullStep == PullInv /\ [PullNext]_pullVars => PullInv'
<1> SUFFICES ASSUME PullInv, [PullNext]_pullVars PROVE PullInv'
  OBVIOUS
<1>1. CASE UNCHANGED pullVars
  BY <1>1, ZenonT(40) DEF PullInv, pullVars, PullTrue, Clean, Partial, Begins, Completes, OpenTrue, FileTrue, Goes
<1>2. CASE ~apart'
  BY <1>2 DEF PullInv
<1>3. ASSUME apart', NEW p \in Pulls, StartPull(p) PROVE PullInv'
  BY <1>3, StartStep
<1>4. ASSUME apart', NEW p \in Pulls,
             \/ ReadPartial(p) \/ OpenTemp(p) \/ AnswerHonestly(p) \/ AnswerBadly(p) \/ RangeIgnored(p)
             \/ OnBytes(p) \/ SourceDrops(p) \/ StreamDone(p) \/ RenameTemp(p) \/ PullKilled(p)
      PROVE  PullInv'
  <2>1. apart
    BY <1>4 DEF ReadPartial, OpenTemp, AnswerHonestly, AnswerBadly, RangeIgnored, OnBytes, SourceDrops,
                StreamDone, RenameTemp, PullKilled
  <2> QED
    BY <1>4, <2>1, ReadStep, OpenStep, AnswerStep, BytesStep, DoneStep, RenameStep, CutStep
<1> QED
  BY <1>1, <1>2, <1>3, <1>4 DEF PullNext

(* Pulls that do not overlap publish the artifact and nothing else, and      *)
(* against an honest source at most one in a row fails its verification:     *)
(* models.rs, whatever the artifact, the number of processes and pulls, and  *)
(* the way answers go wrong.                                                 *)
THEOREM PullIsSound == PullSpec => []PullSound
<1>1. PullInv => PullSound
  BY DEF PullInv, PullSound, PublishedIsArtifact, WrongBytesNotResumed
<1> QED
  BY <1>1, PullBegins, PullStep, PTL DEF PullSpec

-----------------------------------------------------------------------------
(* Gateway: the inductive invariant.                                         *)

Weathers == {"auth_rejected", "rate_limited", "unsupported_field", "malformed_output", "transport_failure", "timeout"}
Told == Weathers \cup {"ok", "refusal", "policy_violation", "budget_exhausted", "not_yet_supported", "credential_revoked",
                       "credential_unavailable", "invalid_request", "transport_unavailable"}

Decoders == [named: BOOLEAN, data: Seq(STRING)]
Answers == [usageIn: BOOLEAN, usageOut: BOOLEAN, refused: BOOLEAN, failed: BOOLEAN, broken: BOOLEAN,
            block: BOOLEAN, closed: BOOLEAN, out: Seq({"text", "tool"})]
Usages == [in: Nat, out: Nat, measured: BOOLEAN]
Calls == [pc: {"idle", "auth", "send", "stream", "record", "done", "lost"},
          route: Tiers \cup {"transcribe", "embed"}, request: Requests \cup {NoChoice}, auth: BOOLEAN,
          sent: Localities \cup {"nowhere"}, status: Nat, body: Seq(STRING), got: Nat, dec: Decoders,
          stream: Answers, ended: BOOLEAN, outcome: Told \cup {"none", "unrouted", "ledger_failure"}, usage: Usages]
LedgerRows == [caller: Callers, nth: Nat, outcome: Told, usage: Usages,
               cost: {"customer_billed", "measured", "estimated"}]

(* The last blank line of those read, or the start of the body.              *)
LastBlank(body, got, n) ==
    /\ n = 0 \/ body[n] = ""
    /\ \A i \in (n + 1)..got : body[i] # ""

(* The decoder holds the data line of the event it is in, if it came.        *)
DecoderTrue(dec, body, got, n) ==
    /\ LastBlank(body, got, n)
    /\ IF dec.data = <<>> THEN \A i \in (n + 1)..got : ~IsData(body[i])
       ELSE \E d \in (n + 1)..got : IsData(body[d]) /\ dec.data = <<body[d]>>

(* The stream is what its first n lines make of it.                          *)
AnswerTrue(st, family, body, n) ==
    /\ Conveys(st.out, Sent(family, body, n))
    /\ family = "anthropic" => (st.block <=> BlockOpen(body, n))
    /\ (\E i \in 1..n : body[i] = "filtered") => st.refused
    /\ (\E i \in 1..n : body[i] = "garbage") => st.broken
    /\ st.usageOut => \E i \in 1..n : body[i] = "usage"

BodyTrue(k, family) ==
    /\ Framed(k.body)
    /\ k.got <= Len(k.body)
    /\ \E n \in 0..k.got : DecoderTrue(k.dec, k.body, k.got, n) /\ AnswerTrue(k.stream, family, k.body, n)
    /\ k.outcome = "ok" => /\ ~k.stream.refused /\ ~k.stream.broken
                           /\ k.stream.closed \/ k.ended
                           /\ k.usage.measured => k.stream.usageOut

(* What a call knows at each of its places, under the routing r and the      *)
(* policy p.                                                                 *)
CallTrue(k, r, p) ==
    /\ k.pc = "idle" => k.sent = "nowhere" /\ k.body = <<>> /\ k.outcome = "none"
    /\ k.pc \in {"auth", "send"} => /\ k.sent = "nowhere" /\ k.outcome = "none" /\ k.body = <<>> /\ k.got = 0
                                    /\ k.dec = FreshDecoder /\ k.stream = FreshAnswer
    /\ k.pc = "stream" => k.sent # "nowhere" /\ k.outcome = "none" /\ ~k.stream.closed /\ k.route \in Tiers
    /\ k.pc \in {"auth", "send", "stream"} => Authorize(p, r[k.route]) /\ k.route \in DOMAIN r
    /\ k.pc \in {"auth", "send", "stream"} /\ k.route \in Tiers => k.request \in Requests
    /\ k.pc = "record" => k.outcome \in Told
    /\ k.pc = "record" /\ k.sent # "nowhere" => k.outcome # "unsupported_field"
    /\ k.sent # "nowhere" => Authorize(p, r[k.route]) /\ k.sent = r[k.route].locality
    /\ k.outcome = "ok" => k.sent # "nowhere"
    /\ k.body # <<>> => k.route \in Tiers /\ BodyTrue(k, r[k.route].family)

(* The rows a caller has, the one of its last call among them or not.        *)
Recorded(k) == k.pc = "done" /\ k.outcome \notin {"unrouted", "ledger_failure"}
RowsFor(rows, c, n) == {i \in 1..Len(rows) : rows[i].caller = c /\ rows[i].nth = n}
RowsTrue(rows, c, n, k) ==
    /\ \A i \in 1..Len(rows) : rows[i].caller = c => rows[i].nth <= n
    /\ IF Recorded(k)
       THEN \E i \in 1..Len(rows) : RowsFor(rows, c, n) = {i} /\ rows[i].outcome = k.outcome /\ rows[i].usage = k.usage
       ELSE RowsFor(rows, c, n) = {}

GatewayTyped ==
    /\ routing \in Routings
    /\ call \in [Callers -> Calls] /\ made \in [Callers -> Nat] /\ ledger \in Seq(LedgerRows)
    /\ usageSeen \in {"reported", "ignored", "rejected"}
    /\ profile.usage \in BOOLEAN /\ (profile.usage => usageSeen = "reported")

GatewayInv ==
    /\ GatewayTyped
    /\ \A c \in Callers : CallTrue(call[c], routing, policy)
    /\ \A c \in Callers : RowsTrue(ledger, c, made[c], call[c])

-----------------------------------------------------------------------------
(* Gateway: what the sink was given.                                         *)

(* What was sent so far is finite and of the lines so far.                   *)
LEMMA SentFinite ==
    ASSUME NEW family, NEW body, NEW n \in Nat
    PROVE  IsFiniteSet(Sent(family, body, n)) /\ Sent(family, body, n) \subseteq (1..n) \X {"text", "tool"}
<1>1. IsFiniteSet(1..n)
  BY FS_Interval
<1>2. IsFiniteSet({"text"}) /\ IsFiniteSet({"text"} \cup {"tool"})
  BY FS_Singleton, FS_AddElement
<1>3. {"text"} \cup {"tool"} = {"text", "tool"}
  OBVIOUS
<1>4. IsFiniteSet((1..n) \X {"text", "tool"})
  BY <1>1, <1>2, <1>3, FS_Product
<1>5. Sent(family, body, n) \subseteq (1..n) \X {"text", "tool"}
  BY DEF Sent
<1> QED
  BY <1>4, <1>5, FS_Subset

(* One more event, after all the others, is conveyed by one more delivery.   *)
LEMMA ConveysMore ==
    ASSUME NEW out \in Seq({"text", "tool"}), NEW n \in Nat, NEW sent \in SUBSET ((1..n) \X {"text", "tool"}),
           IsFiniteSet(sent), Conveys(out, sent),
           NEW i \in 1..n, NEW e \in {"text", "tool"},
           \A y \in sent : y[1] < i \/ (y[1] = i /\ y[2] = "text" /\ e = "tool")
    PROVE  Conveys(Append(out, e), sent \cup {<<i, e>>})
<1> DEFINE x == <<i, e>>
<1> DEFINE more == sent \cup {x}
<1>1. x \notin sent
  BY DEF x
<1>2. Cardinality(more) = Cardinality(sent) + 1 /\ IsFiniteSet(more)
  BY <1>1, FS_AddElement
<1>3. Cardinality(sent) \in Nat
  BY FS_CardinalityType
<1>4. Len(Append(out, e)) = Len(out) + 1 /\ Append(out, e)[Len(out) + 1] = e
      /\ \A j \in 1..Len(out) : Append(out, e)[j] = out[j]
  OBVIOUS
<1>5. UpTo(more, x) = more
  <2>1. ASSUME NEW y \in more PROVE y[1] < x[1] \/ (y[1] = x[1] /\ (y[2] = "text" \/ y = x))
    BY <2>1 DEF more, x
  <2> QED
    BY <2>1 DEF UpTo
<1>6. ASSUME NEW y \in sent PROVE UpTo(more, y) = UpTo(sent, y)
  <2>1. y[1] < i \/ (y[1] = i /\ y[2] = "text" /\ e = "tool")
    OBVIOUS
  <2>2. y \in (1..n) \X {"text", "tool"} /\ y[1] \in Int /\ i \in Int
    OBVIOUS
  <2>3. ~(x[1] < y[1] \/ (x[1] = y[1] /\ (x[2] = "text" \/ x = y)))
    BY <1>1, <2>1, <2>2 DEF x
  <2> QED
    BY <2>3 DEF UpTo, more
<1>7. ASSUME NEW y \in sent PROVE Cardinality(UpTo(sent, y)) \in 1..Len(out)
  <2>1. UpTo(sent, y) \subseteq sent /\ y \in UpTo(sent, y)
    BY DEF UpTo
  <2>2. IsFiniteSet(UpTo(sent, y)) /\ Cardinality(UpTo(sent, y)) <= Cardinality(sent)
    BY <2>1, FS_Subset
  <2>3. Cardinality(UpTo(sent, y)) \in Nat /\ Cardinality(UpTo(sent, y)) # 0
    BY <2>1, <2>2, FS_CardinalityType, FS_EmptySet
  <2> QED
    BY <1>3, <2>2, <2>3 DEF Conveys
<1>8. ASSUME NEW y \in more PROVE Append(out, e)[Cardinality(UpTo(more, y))] = y[2]
  <2>1. CASE y = x
    <3>1. Cardinality(UpTo(more, y)) = Len(out) + 1
      BY <1>2, <1>5, <2>1 DEF Conveys
    <3> QED
      BY <1>4, <2>1, <3>1 DEF x
  <2>2. CASE y \in sent
    <3>1. out[Cardinality(UpTo(sent, y))] = y[2]
      BY <2>2 DEF Conveys
    <3> QED
      BY <1>4, <1>6, <1>7, <2>2, <3>1
  <2> QED
    BY <2>1, <2>2 DEF more
<1>9. Len(Append(out, e)) = Cardinality(more)
  BY <1>2, <1>4 DEF Conveys
<1> QED
  BY <1>8, <1>9 DEF Conveys

(* Nothing was sent before the first line.                                   *)
LEMMA NothingSent == ASSUME NEW family, NEW body PROVE AnswerTrue(FreshAnswer, family, body, 0)
<1>1. Sent(family, body, 0) = {}
  BY DEF Sent
<1>2. Cardinality({}) = 0
  BY FS_EmptySet
<1>3. Len(<<>>) = 0
  OBVIOUS
<1>4. Conveys(<<>>, {})
  BY <1>2, <1>3 DEF Conveys
<1>5. 1..0 = {}
  OBVIOUS
<1> QED
  BY <1>1, <1>4, <1>5 DEF AnswerTrue, FreshAnswer, BlockOpen

(* What a line carries was sent with it.                                     *)
LEMMA SentCarries ==
    ASSUME NEW family, NEW body, NEW d \in Nat, d > 0, NEW e \in {"text", "tool"}
    PROVE  <<d, e>> \in Sent(family, body, d) <=> Carries(family, body, d, e)
<1>1. <<d, e>> \in (1..d) \X {"text", "tool"} /\ <<d, e>>[1] = d /\ <<d, e>>[2] = e
  OBVIOUS
<1> QED
  BY <1>1 DEF Sent

(* The rest was sent with the lines before.                                  *)
LEMMA SentBefore ==
    ASSUME NEW family, NEW body, NEW d \in Nat, d > 0, NEW b \in Nat, b = d - 1
    PROVE  \A x : x \in Sent(family, body, b) <=> x \in Sent(family, body, d) /\ x[1] # d
<1>2. 1..b = {i \in 1..d : i # d}
  OBVIOUS
<1>3. ASSUME NEW x PROVE x \in (1..b) \X {"text", "tool"} <=> x \in (1..d) \X {"text", "tool"} /\ x[1] # d
  BY <1>2
<1> QED
  BY <1>3 DEF Sent

(* The line of one event that carries nothing, or one delivery, or two.      *)
LEMMA ConveysLine ==
    ASSUME NEW family, NEW body, NEW d \in Nat, d > 0, NEW out \in Seq({"text", "tool"}),
           NEW b \in Nat, b = d - 1, Conveys(out, Sent(family, body, b))
    PROVE  /\ (\A e \in {"text", "tool"} : ~Carries(family, body, d, e)) => Conveys(out, Sent(family, body, d))
           /\ \A e \in {"text", "tool"} :
                 (\A f \in {"text", "tool"} : Carries(family, body, d, f) <=> f = e)
                     => Conveys(Append(out, e), Sent(family, body, d))
           /\ (\A e \in {"text", "tool"} : Carries(family, body, d, e))
                 => Conveys(Append(Append(out, "text"), "tool"), Sent(family, body, d))
<1> DEFINE old == Sent(family, body, b)
<1> DEFINE new == Sent(family, body, d)
<1>1. b \in Nat /\ d \in 1..d
  OBVIOUS
<1>2. IsFiniteSet(old) /\ old \subseteq (1..b) \X {"text", "tool"}
  BY <1>1, SentFinite
<1>3. new \subseteq (1..d) \X {"text", "tool"}
  BY SentFinite
<1>4. \A e \in {"text", "tool"} : <<d, e>> \in new <=> Carries(family, body, d, e)
  BY SentCarries
<1>5. \A x : x \in old <=> x \in new /\ x[1] # d
  BY SentBefore
<1>6. old \in SUBSET ((1..d) \X {"text", "tool"}) /\ \A y \in old : y[1] < d
  BY <1>2, <1>3, <1>5
<1>7. ASSUME NEW x \in new, x[1] = d PROVE x = <<d, x[2]>> /\ x[2] \in {"text", "tool"}
  BY <1>3, <1>7
<1> HIDE DEF old, new
<1>8. ASSUME \A e \in {"text", "tool"} : ~Carries(family, body, d, e) PROVE Conveys(out, new)
  <2>1. new = old
    BY <1>4, <1>5, <1>7, <1>8
  <2> QED
    BY <2>1 DEF old
<1>9. ASSUME NEW e \in {"text", "tool"}, \A f \in {"text", "tool"} : Carries(family, body, d, f) <=> f = e
      PROVE  Conveys(Append(out, e), new)
  <2>1. new = old \cup {<<d, e>>}
    BY <1>4, <1>5, <1>7, <1>9
  <2>2. Conveys(out, old)
    BY DEF old
  <2>3. Conveys(Append(out, e), old \cup {<<d, e>>})
    BY <1>1, <1>2, <1>6, <2>2, ConveysMore
  <2> QED
    BY <2>1, <2>3
<1>10. ASSUME \A e \in {"text", "tool"} : Carries(family, body, d, e)
       PROVE  Conveys(Append(Append(out, "text"), "tool"), new)
  <2> DEFINE half == old \cup {<<d, "text">>}
  <2>1. new = half \cup {<<d, "tool">>}
    BY <1>4, <1>5, <1>7, <1>10
  <2>2. Conveys(out, old)
    BY DEF old
  <2>3. Conveys(Append(out, "text"), half)
    BY <1>1, <1>2, <1>6, <2>2, ConveysMore
  <2>4. IsFiniteSet(half)
    BY <1>2, FS_AddElement
  <2>5. half \in SUBSET ((1..d) \X {"text", "tool"}) /\ \A y \in half : y[1] < d \/ (y[1] = d /\ y[2] = "text" /\ "tool" = "tool")
    BY <1>1, <1>6
  <2>6. Append(out, "text") \in Seq({"text", "tool"})
    OBVIOUS
  <2> HIDE DEF half
  <2>7. Conveys(Append(Append(out, "text"), "tool"), half \cup {<<d, "tool">>})
    BY <1>1, <2>3, <2>4, <2>5, <2>6, ConveysMore
  <2> QED
    BY <2>1, <2>7
<1> QED
  BY <1>8, <1>9, <1>10 DEF new

(* Lines without data change nothing.                                        *)
LEMMA LinesSkipped ==
    ASSUME NEW st, NEW family, NEW body, NEW n \in Nat, NEW m \in Nat, n <= m,
           \A i \in (n + 1)..m : ~IsData(body[i]), AnswerTrue(st, family, body, n)
    PROVE  AnswerTrue(st, family, body, m)
<1>1. ASSUME NEW i \in 1..m, i \notin 1..n
      PROVE  body[i] \in {"", "event:", ":"}
  <2>1. i \in (n + 1)..m
    BY <1>1
  <2>2. ~IsData(body[i])
    BY <2>1
  <2> QED
    BY <2>2 DEF IsData
<1>2. ASSUME NEW i \in 1..m, i \notin 1..n, NEW e \in {"text", "tool"}
      PROVE  ~Carries(family, body, i, e)
  BY <1>1, <1>2 DEF Carries
<1>3. \A i \in 1..n : i \in 1..m
  OBVIOUS
<1>4. Sent(family, body, m) = Sent(family, body, n)
  <2>1. ASSUME NEW x \in (1..m) \X {"text", "tool"}, Carries(family, body, x[1], x[2])
        PROVE  x \in (1..n) \X {"text", "tool"}
    BY <1>2, <2>1
  <2>2. ASSUME NEW x \in (1..n) \X {"text", "tool"}
        PROVE  x \in (1..m) \X {"text", "tool"}
    BY <1>3
  <2> QED
    BY <2>1, <2>2 DEF Sent
<1>5. BlockOpen(body, m) <=> BlockOpen(body, n)
  <2>1. ASSUME BlockOpen(body, n) PROVE BlockOpen(body, m)
    <3>1. PICK i \in 1..n : body[i] = "block start" /\ \A j \in (i + 1)..n : body[j] # "block stop"
      BY <2>1 DEF BlockOpen
    <3>2. ASSUME NEW j \in (i + 1)..m PROVE body[j] # "block stop"
      <4>1. j \in (i + 1)..n \/ (j \in 1..m /\ j \notin 1..n)
        OBVIOUS
      <4> QED
        BY <1>1, <3>1, <4>1
    <3> QED
      BY <1>3, <3>1, <3>2 DEF BlockOpen
  <2>2. ASSUME BlockOpen(body, m) PROVE BlockOpen(body, n)
    <3>1. PICK i \in 1..m : body[i] = "block start" /\ \A j \in (i + 1)..m : body[j] # "block stop"
      BY <2>2 DEF BlockOpen
    <3>2. i \in 1..n
      BY <1>1, <3>1
    <3>3. ASSUME NEW j \in (i + 1)..n PROVE body[j] # "block stop"
      <4>1. j \in (i + 1)..m
        OBVIOUS
      <4> QED
        BY <3>1, <4>1
    <3> QED
      BY <3>1, <3>2, <3>3 DEF BlockOpen
  <2> QED
    BY <2>1, <2>2
<1>6. \A w \in {"filtered", "garbage", "usage"} : (\E i \in 1..m : body[i] = w) <=> (\E i \in 1..n : body[i] = w)
  BY <1>1, <1>3
<1> QED
  BY <1>4, <1>5, <1>6 DEF AnswerTrue

(* A tool block is open from its start to its stop.                          *)
LEMMA BlockNext ==
    ASSUME NEW body, NEW d \in Nat, d > 0, NEW b \in Nat, b = d - 1
    PROVE  BlockOpen(body, d) <=> body[d] = "block start" \/ (body[d] # "block stop" /\ BlockOpen(body, b))
<1>1. ASSUME body[d] = "block start" PROVE BlockOpen(body, d)
  <2>1. d \in 1..d /\ (d + 1)..d = {}
    OBVIOUS
  <2> QED
    BY <1>1, <2>1 DEF BlockOpen
<1>2. ASSUME body[d] # "block stop", BlockOpen(body, b) PROVE BlockOpen(body, d)
  <2>1. PICK i \in 1..b : body[i] = "block start" /\ \A j \in (i + 1)..b : body[j] # "block stop"
    BY <1>2 DEF BlockOpen
  <2>2. i \in 1..d /\ \A j \in (i + 1)..d : j = d \/ j \in (i + 1)..b
    OBVIOUS
  <2> QED
    BY <1>2, <2>1, <2>2 DEF BlockOpen
<1>3. ASSUME BlockOpen(body, d), body[d] # "block start" PROVE body[d] # "block stop" /\ BlockOpen(body, b)
  <2>1. PICK i \in 1..d : body[i] = "block start" /\ \A j \in (i + 1)..d : body[j] # "block stop"
    BY <1>3 DEF BlockOpen
  <2>2. i \in 1..b
    <3>1. i # d
      BY <1>3, <2>1
    <3> QED
      BY <3>1
  <2>3. d \in (i + 1)..d /\ \A j \in (i + 1)..b : j \in (i + 1)..d
    BY <2>2
  <2> QED
    BY <2>1, <2>2, <2>3 DEF BlockOpen
<1> QED
  BY <1>1, <1>2, <1>3

(* The sink is given an event.                                               *)
LEMMA Delivered ==
    ASSUME NEW st \in Answers, NEW e \in {"text", "tool"}, NEW closes \in BOOLEAN, NEW s, s = Deliver(st, e, closes)
    PROVE  /\ s \in Answers /\ s.out = Append(st.out, e) /\ s.closed = (st.closed \/ closes)
           /\ s.refused = st.refused /\ s.broken = st.broken /\ s.usageOut = st.usageOut /\ s.block = st.block
<1> DEFINE o == Append(st.out, e)
<1> DEFINE z == st.closed \/ closes
<1>1. o \in Seq({"text", "tool"}) /\ z \in BOOLEAN
  BY DEF Answers
<1>2. s = [[st EXCEPT !.out = o] EXCEPT !.closed = z]
  BY DEF Deliver, Answers
<1> HIDE DEF o, z
<1>3. /\ s \in Answers /\ s.out = o /\ s.closed = z
      /\ s.refused = st.refused /\ s.broken = st.broken /\ s.usageOut = st.usageOut /\ s.block = st.block
  BY <1>1, <1>2 DEF Answers
<1> QED
  BY <1>3 DEF o, z

(* MessagesStream::consume.                                                  *)
MessagesDo(st, payload, s) ==
    /\ s \in Answers
    /\ payload = "filtered" \/ st.refused => s.refused
    /\ payload = "garbage" \/ st.broken => s.broken
    /\ s.usageOut => payload = "usage" \/ st.usageOut
    /\ s.block <=> (payload = "block start" \/ (payload # "block stop" /\ st.block))
    /\ payload = "text" => s.out = Append(st.out, "text")
    /\ payload = "block stop" /\ st.block => s.out = Append(st.out, "tool")
    /\ payload # "text" /\ ~(payload = "block stop" /\ st.block) => s.out = st.out

(* Every payload does what the adapter says.                                 *)
LEMMA MessagesConsumed ==
    ASSUME NEW st \in Answers, NEW payload, NEW closes \in BOOLEAN, NEW s, s = ConsumeMessages(st, payload, closes)
    PROVE  MessagesDo(st, payload, s)
<1>1. CASE payload = "text"
  <2>1. s = Deliver(st, "text", closes)
    BY <1>1 DEF ConsumeMessages
  <2> QED
    BY <1>1, <2>1, Delivered DEF MessagesDo
<1>2. CASE payload = "block stop" /\ st.block
  <2>1. s = Deliver([st EXCEPT !.block = FALSE], "tool", closes)
    BY <1>2 DEF ConsumeMessages
  <2> DEFINE q == [st EXCEPT !.block = FALSE]
  <2>2. q \in Answers /\ ~q.block /\ q.out = st.out /\ q.refused = st.refused /\ q.broken = st.broken /\ q.usageOut = st.usageOut
    BY DEF Answers
  <2> HIDE DEF q
  <2>3. s = Deliver(q, "tool", closes)
    BY <2>1 DEF q
  <2>4. /\ s \in Answers /\ s.out = Append(q.out, "tool")
        /\ s.refused = q.refused /\ s.broken = q.broken /\ s.usageOut = q.usageOut /\ s.block = q.block
    BY <2>2, <2>3, Delivered, SMTT(40)
  <2> QED
    BY <1>2, <2>2, <2>4 DEF MessagesDo
<1>3. CASE payload # "text" /\ ~(payload = "block stop" /\ st.block)
  BY <1>3 DEF ConsumeMessages, Answers, MessagesDo
<1> QED
  BY <1>1, <1>2, <1>3

(* WireStream::consume_data and GeminiStream::consume_data.                  *)
LEMMA OthersConsumed ==
    ASSUME NEW st \in Answers, NEW payload, NEW closes \in BOOLEAN,
           NEW s, s = ConsumeWire(st, payload, closes) \/ s = ConsumeGenerate(st, payload, closes)
    PROVE  /\ s \in Answers
           /\ payload = "filtered" \/ st.refused => s.refused
           /\ payload = "garbage" \/ st.broken => s.broken
           /\ s.usageOut => payload = "usage" \/ st.usageOut
           /\ \A e \in {"text", "tool"} : payload = e => s.out = Append(st.out, e)
           /\ payload = "text+tool" => s.out = Append(Append(st.out, "text"), "tool")
           /\ payload \notin {"text", "tool", "text+tool"} => s.out = st.out
<1>1. ASSUME NEW e \in {"text", "tool"}, payload = e PROVE s = Deliver(st, e, closes)
  BY <1>1 DEF ConsumeWire, ConsumeGenerate
<1>2. CASE payload \in {"text", "tool"}
  BY <1>1, <1>2, Delivered
<1>3. CASE payload = "text+tool"
  <2> DEFINE q == Deliver(st, "text", closes)
  <2>1. s = Deliver(q, "tool", closes)
    BY <1>3 DEF ConsumeWire, ConsumeGenerate
  <2>2. q \in Answers /\ q.out = Append(st.out, "text") /\ q.refused = st.refused /\ q.broken = st.broken /\ q.usageOut = st.usageOut
    BY Delivered
  <2> HIDE DEF q
  <2> QED
    BY <1>3, <2>1, <2>2, Delivered, SMTT(40)
<1>4. CASE payload \notin {"text", "tool", "text+tool"}
  BY <1>4 DEF ConsumeWire, ConsumeGenerate, Answers
<1> QED
  BY <1>2, <1>3, <1>4

(* A data line that is consumed is conveyed.                                 *)
LEMMA LineConsumed ==
    ASSUME NEW st \in Answers, NEW family, NEW body, NEW d \in Nat, d > 0, NEW b \in Nat, b = d - 1,
           AnswerTrue(st, family, body, b), NEW closes \in BOOLEAN, NEW s, s = ConsumeData(family, st, body[d], closes)
    PROVE  s \in Answers /\ AnswerTrue(s, family, body, d)
<1> DEFINE payload == body[d]
<1>1. st.out \in Seq({"text", "tool"}) /\ Conveys(st.out, Sent(family, body, b))
  BY DEF Answers, AnswerTrue
<1>2. \A w : (\E i \in 1..d : body[i] = w) <=> payload = w \/ \E i \in 1..b : body[i] = w
  OBVIOUS
<1>3. BlockOpen(body, d) <=> payload = "block start" \/ (payload # "block stop" /\ BlockOpen(body, b))
  BY BlockNext
<1>4. CASE family = "anthropic"
  <2>1. s = ConsumeMessages(st, payload, closes)
    BY <1>4 DEF ConsumeData
  <2> HIDE DEF payload
  <2>9. MessagesDo(st, payload, s)
    BY <2>1, MessagesConsumed
  <2>2. /\ s \in Answers
        /\ payload = "filtered" \/ st.refused => s.refused
        /\ payload = "garbage" \/ st.broken => s.broken
        /\ s.usageOut => payload = "usage" \/ st.usageOut
        /\ s.block <=> (payload = "block start" \/ (payload # "block stop" /\ st.block))
        /\ payload = "text" => s.out = Append(st.out, "text")
        /\ payload = "block stop" /\ st.block => s.out = Append(st.out, "tool")
        /\ payload # "text" /\ ~(payload = "block stop" /\ st.block) => s.out = st.out
    BY <2>9 DEF MessagesDo
  <2>3. st.block <=> BlockOpen(body, b)
    BY <1>4 DEF AnswerTrue
  <2>4. \A e \in {"text", "tool"} :
            Carries(family, body, d, e) <=> \/ e = "text" /\ payload = "text"
                                            \/ e = "tool" /\ payload = "block stop" /\ st.block
    BY <1>4, <2>3 DEF Carries, payload
  <2>5. Conveys(s.out, Sent(family, body, d))
    <3>1. CASE payload = "text"
      <4>1. \A f \in {"text", "tool"} : Carries(family, body, d, f) <=> f = "text"
        BY <2>4, <3>1
      <4>2. Conveys(Append(st.out, "text"), Sent(family, body, d))
        BY <1>1, <4>1, ConveysLine
      <4> QED
        BY <2>2, <3>1, <4>2
    <3>2. CASE payload = "block stop" /\ st.block
      <4>1. \A f \in {"text", "tool"} : Carries(family, body, d, f) <=> f = "tool"
        BY <2>4, <3>2
      <4>2. Conveys(Append(st.out, "tool"), Sent(family, body, d))
        BY <1>1, <4>1, ConveysLine
      <4> QED
        BY <2>2, <3>2, <4>2
    <3>3. CASE payload # "text" /\ ~(payload = "block stop" /\ st.block)
      <4>1. \A e \in {"text", "tool"} : ~Carries(family, body, d, e)
        BY <2>4, <3>3
      <4>2. Conveys(st.out, Sent(family, body, d))
        BY <1>1, <4>1, ConveysLine
      <4> QED
        BY <2>2, <3>3, <4>2
    <3> QED
      BY <3>1, <3>2, <3>3
  <2>6. s.block <=> BlockOpen(body, d)
    BY <1>3, <2>2, <2>3
  <2> QED
    BY <1>2, <2>2, <2>5, <2>6 DEF AnswerTrue
<1>5. CASE family # "anthropic"
  <2>1. s = ConsumeWire(st, payload, closes) \/ s = ConsumeGenerate(st, payload, closes)
    BY <1>5 DEF ConsumeData
  <2> HIDE DEF payload
  <2>2. /\ s \in Answers
        /\ payload = "filtered" \/ st.refused => s.refused
        /\ payload = "garbage" \/ st.broken => s.broken
        /\ s.usageOut => payload = "usage" \/ st.usageOut
        /\ \A e \in {"text", "tool"} : payload = e => s.out = Append(st.out, e)
        /\ payload = "text+tool" => s.out = Append(Append(st.out, "text"), "tool")
        /\ payload \notin {"text", "tool", "text+tool"} => s.out = st.out
    BY <2>1, OthersConsumed
  <2>3. \A e \in {"text", "tool"} : Carries(family, body, d, e) <=> payload = e \/ payload = "text+tool"
    BY <1>5 DEF Carries, payload
  <2>4. Conveys(s.out, Sent(family, body, d))
    <3>1. ASSUME NEW e \in {"text", "tool"}, payload = e PROVE Conveys(s.out, Sent(family, body, d))
      <4>1. \A f \in {"text", "tool"} : Carries(family, body, d, f) <=> f = e
        BY <2>3, <3>1
      <4>2. Conveys(Append(st.out, e), Sent(family, body, d))
        BY <1>1, <4>1, ConveysLine
      <4> QED
        BY <2>2, <3>1, <4>2
    <3>2. CASE payload = "text+tool"
      <4>1. \A e \in {"text", "tool"} : Carries(family, body, d, e)
        BY <2>3, <3>2
      <4>2. Conveys(Append(Append(st.out, "text"), "tool"), Sent(family, body, d))
        BY <1>1, <4>1, ConveysLine
      <4> QED
        BY <2>2, <3>2, <4>2
    <3>3. CASE payload \notin {"text", "tool", "text+tool"}
      <4>1. \A e \in {"text", "tool"} : ~Carries(family, body, d, e)
        BY <2>3, <3>3
      <4>2. Conveys(st.out, Sent(family, body, d))
        BY <1>1, <4>1, ConveysLine
      <4> QED
        BY <2>2, <3>3, <4>2
    <3> QED
      BY <3>1, <3>2, <3>3
  <2> QED
    BY <1>2, <1>5, <2>2, <2>4 DEF AnswerTrue
<1> QED
  BY <1>4, <1>5

(* A synthetic payload that cannot be parsed breaks the stream, no more.     *)
LEMMA GarbageConsumed ==
    ASSUME NEW st \in Answers, NEW family, NEW body, NEW n \in Nat, AnswerTrue(st, family, body, n),
           NEW closes \in BOOLEAN, NEW s, s = ConsumeData(family, st, "garbage", closes)
    PROVE  s \in Answers /\ AnswerTrue(s, family, body, n)
<1>1. s = [st EXCEPT !.broken = TRUE]
  BY DEF ConsumeData, ConsumeMessages, ConsumeGenerate, ConsumeWire
<1>2. s \in Answers /\ s.out = st.out /\ s.block = st.block /\ s.refused = st.refused /\ s.broken /\ s.usageOut = st.usageOut
  BY <1>1 DEF Answers
<1> QED
  BY <1>2 DEF AnswerTrue

(* The lines that are whole end at the last blank one.                       *)
LEMMA WholeIs ==
    ASSUME NEW body \in Seq(STRING), NEW g \in Nat, NEW n \in 0..g, LastBlank(body, g, n)
    PROVE  WholeLines(body, g) = n
<1> DEFINE blanks == {i \in 1..g : body[i] = ""}
<1>1. \A i : i \in blanks <=> i \in 1..g /\ body[i] = ""
  OBVIOUS
<1>2. WholeLines(body, g) = IF blanks = {} THEN 0 ELSE Max(blanks)
  BY DEF WholeLines
<1> HIDE DEF blanks
<1>3. ASSUME NEW i \in blanks PROVE i \in Int /\ i <= n /\ i \in 1..g
  <2>1. i \in 1..g
    BY <1>1
  <2>2. i \notin (n + 1)..g
    BY <1>1 DEF LastBlank
  <2> QED
    BY <2>1, <2>2
<1>4. CASE n = 0
  <2>1. blanks = {}
    <3> SUFFICES ASSUME NEW i \in blanks PROVE FALSE
      OBVIOUS
    <3>1. i <= 0 /\ i \in 1..g
      BY <1>3, <1>4
    <3> QED
      BY <3>1
  <2> QED
    BY <1>2, <1>4, <2>1
<1>5. CASE n # 0
  <2>1. n \in blanks
    <3>1. n \in 1..g
      BY <1>5
    <3> QED
      BY <1>1, <1>5, <3>1 DEF LastBlank
  <2>2. n \in Int
    OBVIOUS
  <2>3. ASSUME NEW x \in blanks, \A y \in blanks : x >= y PROVE x = n
    <3>1. x >= n /\ x <= n /\ x \in Int
      BY <1>3, <2>1, <2>3
    <3> QED
      BY <2>2, <3>1
  <2>4. \A y \in blanks : n >= y
    <3> TAKE y \in blanks
    <3>1. y \in Int /\ y <= n
      BY <1>3
    <3> QED
      BY <2>2, <3>1
  <2>5. Max(blanks) = n
    BY <2>1, <2>3, <2>4 DEF Max
  <2> QED
    BY <1>2, <2>1, <2>5
<1> QED
  BY <1>4, <1>5

(* One line of the body: the decoder and the stream follow it.               *)
LEMMA LineTrue ==
    ASSUME NEW body, Framed(body), NEW got \in Nat, NEW g \in Nat, g = got + 1, g <= Len(body), NEW n \in 0..got, NEW family,
           NEW dec \in Decoders, NEW st \in Answers, DecoderTrue(dec, body, got, n), AnswerTrue(st, family, body, n),
           NEW closes \in BOOLEAN, NEW fed, fed = LineComplete(dec, body[g]),
           NEW s, s = IF fed.event = <<>> THEN st ELSE ConsumeData(family, st, Head(fed.event), closes)
    PROVE  /\ fed.dec \in Decoders /\ s \in Answers
           /\ \E m \in 0..g : DecoderTrue(fed.dec, body, g, m) /\ AnswerTrue(s, family, body, m)
<1>1. body \in Seq(STRING) /\ Len(body) \in Nat /\ g \in 1..Len(body) /\ body[g] \in STRING
  <2>1. body \in Seq(STRING)
    BY DEF Framed
  <2> QED
    BY <2>1
<1>2. dec.data \in Seq(STRING) /\ dec.named \in BOOLEAN
  BY DEF Decoders
<1>3. n = 0 \/ body[n] = ""
  BY DEF DecoderTrue, LastBlank
<1>4. \A i \in (n + 1)..got : body[i] # ""
  BY DEF DecoderTrue, LastBlank
<1>5. \A i \in (n + 1)..g : i = g \/ i \in (n + 1)..got
  OBVIOUS
<1>6. n \in Nat /\ n <= g /\ n \in 0..g
  OBVIOUS
<1>7. FreshDecoder \in Decoders /\ FreshDecoder.data = <<>>
  BY DEF FreshDecoder, Decoders
<1>8. CASE body[g] = ""
  <2>1. fed = [dec |-> FreshDecoder,
               event |-> IF dec.data # <<>> THEN dec.data ELSE IF dec.named THEN <<"garbage">> ELSE <<>>]
    BY <1>8 DEF LineComplete
  <2>2. fed.dec = FreshDecoder
    BY <2>1
  <2>3. DecoderTrue(fed.dec, body, g, g)
    <3>1. (g + 1)..g = {}
      OBVIOUS
    <3> QED
      BY <1>7, <1>8, <2>2, <3>1 DEF DecoderTrue, LastBlank
  <2>4. s \in Answers /\ AnswerTrue(s, family, body, g)
    <3>1. CASE dec.data = <<>>
      <4>1. \A i \in (n + 1)..g : ~IsData(body[i])
        BY <1>5, <1>8, <3>1 DEF DecoderTrue, LastBlank, IsData
      <4>2. AnswerTrue(st, family, body, g)
        BY <1>6, <4>1, LinesSkipped
      <4>3. CASE ~dec.named
        <5>1. s = st
          BY <2>1, <3>1, <4>3
        <5> QED
          BY <4>2, <5>1
      <4>4. CASE dec.named
        <5>1. fed.event = <<"garbage">>
          BY <2>1, <3>1, <4>4
        <5>2. Head(fed.event) = "garbage" /\ fed.event # <<>>
          BY <5>1
        <5>3. s = ConsumeData(family, st, "garbage", closes)
          BY <5>2
        <5> QED
          BY <4>2, <5>3, GarbageConsumed
      <4> QED
        BY <4>3, <4>4
    <3>2. CASE dec.data # <<>>
      <4>1. PICK d \in (n + 1)..got : IsData(body[d]) /\ dec.data = <<body[d]>>
        BY <3>2 DEF DecoderTrue, LastBlank
      <4>2. fed.event = <<body[d]>>
        BY <2>1, <3>2, <4>1
      <4>3. Head(fed.event) = body[d] /\ fed.event # <<>>
        BY <4>2
      <4>4. s = ConsumeData(family, st, body[d], closes)
        BY <4>3
      <4>5. ASSUME NEW i \in (n + 1)..g, i # d PROVE ~IsData(body[i])
        <5> SUFFICES ASSUME IsData(body[i]) PROVE FALSE
          OBVIOUS
        <5>1. i # g
          BY <1>8 DEF IsData
        <5>2. i \in (n + 1)..got
          BY <1>5, <5>1
        <5>3. i \in 1..Len(body) /\ d \in 1..Len(body)
          BY <1>1, <5>2
        <5>4. CASE i < d
          <6>1. PICK j \in i..d : body[j] = ""
            BY <4>1, <5>3, <5>4 DEF Framed
          <6>2. j \in (n + 1)..got
            BY <5>2
          <6> QED
            BY <1>4, <6>1, <6>2
        <5>5. CASE d < i
          <6>1. PICK j \in d..i : body[j] = ""
            BY <4>1, <5>3, <5>5 DEF Framed
          <6>2. j \in (n + 1)..got
            BY <5>2
          <6> QED
            BY <1>4, <6>1, <6>2
        <5> QED
          BY <4>5, <5>4, <5>5
      <4> DEFINE b == d - 1
      <4>6. b \in Nat /\ d \in Nat /\ d > 0 /\ b = d - 1 /\ n <= b /\ d <= g
        OBVIOUS
      <4>7. (\A i \in (n + 1)..b : i \in (n + 1)..g /\ i # d) /\ \A i \in (d + 1)..g : i \in (n + 1)..g /\ i # d
        OBVIOUS
      <4> HIDE DEF b
      <4>8. AnswerTrue(st, family, body, b)
        BY <1>6, <4>5, <4>6, <4>7, LinesSkipped
      <4>9. s \in Answers /\ AnswerTrue(s, family, body, d)
        BY <4>4, <4>6, <4>8, LineConsumed
      <4> QED
        BY <4>5, <4>6, <4>7, <4>9, LinesSkipped
    <3> QED
      BY <3>1, <3>2
  <2>5. g \in 0..g
    OBVIOUS
  <2> QED
    BY <1>7, <2>2, <2>3, <2>4, <2>5
<1>9. CASE body[g] \in {"event:", ":"}
  <2>1. fed.event = <<>> /\ fed.dec \in Decoders /\ fed.dec.data = dec.data
    BY <1>9 DEF LineComplete, Decoders
  <2>2. s = st
    BY <2>1
  <2>3. body[g] # "" /\ ~IsData(body[g])
    BY <1>9 DEF IsData
  <2>4. DecoderTrue(fed.dec, body, g, n)
    <3>1. \A i \in (n + 1)..g : body[i] # ""
      BY <1>4, <1>5, <2>3
    <3>2. CASE dec.data = <<>>
      <4>1. \A i \in (n + 1)..g : ~IsData(body[i])
        BY <1>5, <2>3, <3>2 DEF DecoderTrue, LastBlank
      <4> QED
        BY <1>3, <2>1, <3>1, <3>2, <4>1 DEF DecoderTrue, LastBlank
    <3>3. CASE dec.data # <<>>
      <4>1. PICK d \in (n + 1)..got : IsData(body[d]) /\ dec.data = <<body[d]>>
        BY <3>3 DEF DecoderTrue, LastBlank
      <4>2. d \in (n + 1)..g
        OBVIOUS
      <4> QED
        BY <1>3, <2>1, <3>1, <3>3, <4>1, <4>2 DEF DecoderTrue, LastBlank
    <3> QED
      BY <3>2, <3>3
  <2> QED
    BY <1>6, <2>1, <2>2, <2>4
<1>10. CASE IsData(body[g])
  <2>1. body[g] # "" /\ body[g] \notin {"event:", ":"}
    BY <1>10 DEF IsData
  <2>2. fed = [dec |-> [dec EXCEPT !.data = Append(@, body[g])], event |-> <<>>]
    BY <2>1 DEF LineComplete
  <2>3. dec.data = <<>>
    <3> SUFFICES ASSUME dec.data # <<>> PROVE FALSE
      OBVIOUS
    <3>1. PICK d \in (n + 1)..got : IsData(body[d]) /\ dec.data = <<body[d]>>
      BY DEF DecoderTrue, LastBlank
    <3>2. d \in 1..Len(body) /\ d < g
      BY <1>1
    <3>3. PICK j \in d..g : body[j] = ""
      BY <1>1, <1>10, <3>1, <3>2 DEF Framed
    <3>4. j = g \/ j \in (n + 1)..got
      OBVIOUS
    <3> QED
      BY <1>4, <2>1, <3>3, <3>4
  <2>4. Append(dec.data, body[g]) = <<body[g]>>
    BY <2>3
  <2>5. fed.event = <<>> /\ fed.dec \in Decoders /\ fed.dec.data = <<body[g]>>
    <3>1. <<body[g]>> \in Seq(STRING)
      BY <1>1
    <3>2. fed.dec = [dec EXCEPT !.data = <<body[g]>>]
      BY <2>2, <2>4
    <3> QED
      BY <2>2, <3>1, <3>2 DEF Decoders
  <2>6. s = st
    BY <2>5
  <2>7. DecoderTrue(fed.dec, body, g, n)
    <3>1. \A i \in (n + 1)..g : body[i] # ""
      BY <1>4, <1>5, <2>1
    <3>2. g \in (n + 1)..g /\ <<body[g]>> # <<>>
      OBVIOUS
    <3> QED
      BY <1>3, <1>10, <2>5, <3>1, <3>2 DEF DecoderTrue, LastBlank
  <2> QED
    BY <1>6, <2>5, <2>6, <2>7
<1> QED
  BY <1>8, <1>9, <1>10 DEF IsData

-----------------------------------------------------------------------------
(* Gateway: what a call is told.                                             *)

(* A refusal of the plan, a status, an error of the transport, a stream.     *)
LEMMA StatusWeather ==
    ASSUME NEW status, NEW body
    PROVE  /\ WeatherFromStatus(status, body) \in Weathers
           /\ body # "names a field" => WeatherFromStatus(status, body) # "unsupported_field"
  BY ZenonT(60) DEF WeatherFromStatus, Weathers

LEMMA TransportWeather == ASSUME NEW error PROVE WeatherFromTransport(error) \in {"timeout", "transport_failure"}
  BY DEF WeatherFromTransport

LEMMA PlanTold ==
    ASSUME NEW family, NEW request
    PROVE  PlanRequest(family, request) \in {"planned", "invalid_request", "unsupported_field"}
  BY DEF PlanRequest, PlanMessages, PlanGenerateContent, PlanChatCompletions

LEMMA StreamTold ==
    ASSUME NEW family, NEW st \in Answers
    PROVE  /\ StreamOutcome(family, st) \in {"ok", "refusal", "malformed_output", "transport_failure"}
           /\ StreamOutcome(family, st) = "ok" => ~st.refused /\ ~st.broken
<1>1. MessagesOutcome(st) \in {"ok", "refusal", "malformed_output", "transport_failure"}
      /\ (MessagesOutcome(st) = "ok" => ~st.refused /\ ~st.broken)
  BY DEF MessagesOutcome, Answers
<1>2. GenerateOutcome(st) \in {"ok", "refusal", "malformed_output"} /\ (GenerateOutcome(st) = "ok" => ~st.refused /\ ~st.broken)
  BY DEF GenerateOutcome, Answers
<1>3. WireOutcome(st) \in {"ok", "refusal", "malformed_output"} /\ (WireOutcome(st) = "ok" => ~st.refused /\ ~st.broken)
  BY DEF WireOutcome, Answers
<1> QED
  BY <1>1, <1>2, <1>3 DEF StreamOutcome

(* A usage that is called measured was reported.                             *)
LEMMA UsageTold ==
    ASSUME NEW st \in Answers, NEW request \in Requests
    PROVE  UsageOf(st, request) \in Usages /\ (UsageOf(st, request).measured => st.usageOut)
<1>1. request.messages \in Nat
  BY RequestsTyped
<1>2. \A n \in Nat : EstimateTokens(n) \in Nat
  BY DEF EstimateTokens
<1>3. TextsOut(st) \in Nat
  <2> DEFINE texts == {i \in DOMAIN st.out : st.out[i] = "text"}
  <2>1. Len(st.out) \in Nat /\ DOMAIN st.out = 1..Len(st.out)
    BY DEF Answers
  <2>2. IsFiniteSet(1..Len(st.out))
    <3>1. \A n \in Nat : IsFiniteSet(1..n)
      BY FS_Interval
    <3> QED
      BY <2>1, <3>1
  <2>3. texts \subseteq 1..Len(st.out)
    BY <2>1
  <2>4. IsFiniteSet(texts)
    BY <2>2, <2>3, FS_Subset
  <2>5. Cardinality(texts) \in Nat
    BY <2>4, FS_CardinalityType
  <2> QED
    BY <2>5 DEF TextsOut
<1>4. CASE st.usageIn /\ st.usageOut
  <2>1. UsageOf(st, request) = [in |-> 9, out |-> 9, measured |-> TRUE]
    BY <1>4 DEF UsageOf
  <2> QED
    BY <1>4, <2>1 DEF Usages
<1>5. CASE ~(st.usageIn /\ st.usageOut)
  <2>1. UsageOf(st, request) = [in |-> EstimateTokens(request.messages), out |-> EstimateTokens(TextsOut(st)), measured |-> FALSE]
    BY <1>5 DEF UsageOf
  <2> QED
    BY <1>1, <1>2, <1>3, <2>1 DEF Usages
<1> QED
  BY <1>4, <1>5

-----------------------------------------------------------------------------
(* Gateway: the steps.                                                       *)

(* A call moves on and is not recorded yet.                                  *)
LEMMA CallMoves ==
    ASSUME GatewayInv, NEW c \in Callers, NEW k \in Calls, CallStep(c, k), CallTrue(k, routing, policy),
           ~Recorded(call[c]), ~Recorded(k), UNCHANGED <<routing, policy, made, ledger, usageSeen, profile>>
    PROVE  GatewayInv'
<1>1. call \in [Callers -> Calls] /\ GatewayTyped
  BY DEF GatewayInv, GatewayTyped
<1>2. call' = [call EXCEPT ![c] = k]
  BY DEF CallStep
<1>3. call' \in [Callers -> Calls] /\ call'[c] = k /\ \A b \in Callers : b # c => call'[b] = call[b]
  BY <1>1, <1>2
<1>4. GatewayTyped'
  BY <1>1, <1>3 DEF GatewayTyped
<1>5. ASSUME NEW b \in Callers PROVE CallTrue(call'[b], routing', policy')
  <2>1. CallTrue(call[b], routing, policy)
    BY DEF GatewayInv
  <2>2. routing' = routing /\ policy' = policy
    OBVIOUS
  <2> QED
    BY <1>3, <2>1, <2>2
<1>6. ASSUME NEW b \in Callers PROVE RowsTrue(ledger', b, made'[b], call'[b])
  <2>1. RowsTrue(ledger, b, made[b], call[b])
    BY DEF GatewayInv
  <2>2. ledger' = ledger /\ made' = made
    OBVIOUS
  <2>3. CASE b = c
    BY <1>3, <2>1, <2>2, <2>3 DEF RowsTrue
  <2>4. CASE b # c
    BY <1>3, <2>1, <2>2, <2>4
  <2> QED
    BY <2>3, <2>4
<1> QED
  BY <1>4, <1>5, <1>6 DEF GatewayInv

(* A call under way ends with what it is told.                               *)
LEMMA Settles ==
    ASSUME NEW r, NEW p, NEW j \in Calls, CallTrue(j, r, p), j.pc \in {"auth", "send", "stream"},
           NEW o \in Told, o # "ok", NEW w, w = j.sent \/ (w = r[j.route].locality /\ w \in Localities /\ j.pc = "send"),
           w # "nowhere" => o # "unsupported_field",
           NEW k, k = [j EXCEPT !.pc = "record", !.outcome = o, !.sent = w]
    PROVE  k \in Calls /\ CallTrue(k, r, p) /\ ~Recorded(k)
<1>1. w \in Localities \cup {"nowhere"}
  BY DEF Calls
<1>2. k \in Calls
  BY <1>1 DEF Calls
<1>3. /\ k.pc = "record" /\ k.outcome = o /\ k.sent = w /\ k.route = j.route /\ k.body = j.body /\ k.got = j.got
      /\ k.dec = j.dec /\ k.stream = j.stream
  BY DEF Calls
<1>4. k.sent # "nowhere" => Authorize(p, r[k.route]) /\ k.sent = r[k.route].locality
  BY <1>3 DEF CallTrue
<1>5. k.body # <<>> => k.route \in Tiers /\ BodyTrue(k, r[k.route].family)
  BY <1>3 DEF CallTrue, BodyTrue
<1> QED
  BY <1>2, <1>3, <1>4, <1>5 DEF CallTrue, Recorded

(* The stream of a call whose transport is open or has just returned.        *)
Streams(k, r, p) ==
    /\ k.sent # "nowhere" /\ k.outcome = "none" /\ k.route \in Tiers /\ k.route \in DOMAIN r
    /\ Authorize(p, r[k.route]) /\ k.sent = r[k.route].locality /\ k.request \in Requests
    /\ k.body # <<>> => BodyTrue(k, r[k.route].family)

(* What complete makes of it.                                                *)
LEMMA CompletedTrue ==
    ASSUME NEW c \in Callers, NEW j \in Calls, j.route = call[c].route, Streams(j, routing, policy),
           j.stream.closed \/ j.ended \/ j.stream.broken, NEW k, k = Completed(c, j)
    PROVE  k \in Calls /\ CallTrue(k, routing, policy) /\ ~Recorded(k)
<1> DEFINE o == IF j.status >= 300 THEN WeatherFromStatus(j.status, "") ELSE StreamOutcome(ChoiceOf(c).family, j.stream)
<1> DEFINE u == IF o = "ok" THEN UsageOf(j.stream, j.request) ELSE j.usage
<1>1. k = [j EXCEPT !.pc = "record", !.outcome = o, !.usage = u]
  BY DEF Completed, Calls
<1>2. j.stream \in Answers /\ j.request \in Requests /\ j.usage \in Usages
  BY DEF Calls, Streams
<1>3. WeatherFromStatus(j.status, "") \in Weathers /\ WeatherFromStatus(j.status, "") # "unsupported_field"
  BY StatusWeather
<1>4. StreamOutcome(ChoiceOf(c).family, j.stream) \in {"ok", "refusal", "malformed_output", "transport_failure"}
      /\ (StreamOutcome(ChoiceOf(c).family, j.stream) = "ok" => ~j.stream.refused /\ ~j.stream.broken)
  BY <1>2, StreamTold
<1>5. o \in Told /\ o # "unsupported_field" /\ (o = "ok" => ~j.stream.refused /\ ~j.stream.broken)
  <2> DEFINE a == WeatherFromStatus(j.status, "")
  <2> DEFINE b == StreamOutcome(ChoiceOf(c).family, j.stream)
  <2>1. o = a \/ o = b
    OBVIOUS
  <2>2. a \in Weathers /\ a # "unsupported_field"
    BY <1>3
  <2>3. b \in {"ok", "refusal", "malformed_output", "transport_failure"} /\ (b = "ok" => ~j.stream.refused /\ ~j.stream.broken)
    BY <1>4
  <2> HIDE DEF a, b, o
  <2> QED
    BY <2>1, <2>2, <2>3 DEF Told, Weathers
<1>6. u \in Usages /\ (o = "ok" => (u.measured => j.stream.usageOut))
  BY <1>2, UsageTold
<1> HIDE DEF o, u
<1>7. k \in Calls
  BY <1>1, <1>5, <1>6 DEF Calls
<1>8. /\ k.pc = "record" /\ k.outcome = o /\ k.usage = u /\ k.sent = j.sent /\ k.route = j.route /\ k.body = j.body
      /\ k.got = j.got /\ k.dec = j.dec /\ k.stream = j.stream /\ k.ended = j.ended
  BY <1>1 DEF Calls
<1>9. k.body # <<>> => k.route \in Tiers /\ BodyTrue(k, routing[k.route].family)
  BY <1>5, <1>6, <1>8 DEF Streams, BodyTrue
<1> QED
  BY <1>5, <1>7, <1>8, <1>9 DEF CallTrue, Recorded, Streams

(* A call as it begins.                                                      *)
LEMMA FreshCall ==
    ASSUME NEW t \in Tiers \cup {"transcribe", "embed"}, NEW request \in Requests \cup {NoChoice},
           NEW pc \in {"auth", "record", "done"}, NEW o \in Told \cup {"none", "unrouted"}, NEW k, k = CallAt(t, request, pc, o)
    PROVE  /\ k \in Calls /\ k.pc = pc /\ k.outcome = o /\ k.route = t /\ k.request = request
           /\ k.sent = "nowhere" /\ k.body = <<>> /\ k.got = 0 /\ k.dec = FreshDecoder /\ k.stream = FreshAnswer
<1>1. FreshDecoder \in Decoders
  BY DEF FreshDecoder, Decoders
<1>2. FreshAnswer \in Answers
  BY DEF FreshAnswer, Answers
<1>3. [in |-> 0, out |-> 0, measured |-> FALSE] \in Usages
  BY DEF Usages
<1>4. NoCall \in Calls
  BY <1>1, <1>2, <1>3 DEF NoCall, Calls, Tiers
<1>5. k = [NoCall EXCEPT !.route = t, !.request = request, !.pc = pc, !.outcome = o]
  BY DEF CallAt
<1>6. k \in Calls
  BY <1>4, <1>5, ZenonT(40) DEF Calls
<1> QED
  BY <1>5, <1>6 DEF NoCall

(* A call begins: its number is new, so it has no row.                       *)
LEMMA CallStarts ==
    ASSUME GatewayInv, NEW c \in Callers, NEW k \in Calls, Starts(c, k), CallTrue(k, routing, policy), ~Recorded(k)
    PROVE  GatewayInv'
<1>1. call \in [Callers -> Calls] /\ made \in [Callers -> Nat] /\ ledger \in Seq(LedgerRows) /\ GatewayTyped
  BY DEF GatewayInv, GatewayTyped
<1>2. /\ call' = [call EXCEPT ![c] = k] /\ made' = [made EXCEPT ![c] = made[c] + 1]
      /\ UNCHANGED <<routing, policy, secret, ledger, usageSeen, profile>>
  BY DEF Starts, CallStep
<1>3. call' \in [Callers -> Calls] /\ call'[c] = k /\ \A b \in Callers : b # c => call'[b] = call[b]
  BY <1>1, <1>2
<1>4. made' \in [Callers -> Nat] /\ made'[c] = made[c] + 1 /\ \A b \in Callers : b # c => made'[b] = made[b]
  BY <1>1, <1>2
<1>5. GatewayTyped'
  BY <1>1, <1>2, <1>3, <1>4 DEF GatewayTyped
<1>6. ASSUME NEW b \in Callers PROVE CallTrue(call'[b], routing', policy')
  <2>1. CallTrue(call[b], routing, policy)
    BY DEF GatewayInv
  <2>2. routing' = routing /\ policy' = policy
    BY <1>2
  <2> QED
    BY <1>3, <2>1, <2>2
<1>7. ASSUME NEW b \in Callers PROVE RowsTrue(ledger', b, made'[b], call'[b])
  <2>1. RowsTrue(ledger, b, made[b], call[b])
    BY DEF GatewayInv
  <2>2. ledger' = ledger
    BY <1>2
  <2>3. CASE b = c
    <3> DEFINE n == made[c]
    <3>1. n \in Nat /\ made'[b] = n + 1 /\ call'[b] = k
      BY <1>1, <1>3, <1>4, <2>3
    <3>2. ASSUME NEW i \in 1..Len(ledger), ledger[i].caller = c PROVE ledger[i].nth <= n /\ ledger[i].nth \in Nat
      <4>1. ledger[i] \in LedgerRows
        BY <1>1
      <4> QED
        BY <2>1, <2>3, <3>2, <4>1 DEF RowsTrue, LedgerRows
    <3> HIDE DEF n
    <3>3. ASSUME NEW i \in 1..Len(ledger), ledger[i].caller = c PROVE ledger[i].nth <= n + 1 /\ ledger[i].nth # n + 1
      <4>1. ledger[i].nth <= n /\ ledger[i].nth \in Nat
        BY <3>2, <3>3
      <4> QED
        BY <3>1, <4>1
    <3>4. RowsFor(ledger, c, n + 1) = {}
      BY <3>3 DEF RowsFor
    <3> QED
      BY <2>2, <2>3, <3>1, <3>3, <3>4 DEF RowsTrue
  <2>4. CASE b # c
    BY <1>3, <1>4, <2>1, <2>2, <2>4
  <2> QED
    BY <2>3, <2>4
<1> QED
  BY <1>5, <1>6, <1>7 DEF GatewayInv

(* Gateway::complete.                                                        *)
LEMMA CompleteStep ==
    ASSUME GatewayInv, NEW c \in Callers, NEW tier \in Tiers, NEW request \in Requests, Complete(c, tier, request)
    PROVE  GatewayInv'
<1> DEFINE k == IF ~Authorize(policy, routing[tier]) THEN CallAt(tier, request, "record", "policy_violation")
                ELSE IF request.cap > OutputCap THEN CallAt(tier, request, "record", "budget_exhausted")
                ELSE CallAt(tier, request, "auth", "none")
<1>1. Starts(c, k)
  BY DEF Complete
<1>2. tier \in DOMAIN routing
  BY RoutingValid DEF GatewayInv, GatewayTyped
<1>3. \/ k = CallAt(tier, request, "record", "policy_violation")
      \/ k = CallAt(tier, request, "record", "budget_exhausted")
      \/ k = CallAt(tier, request, "auth", "none") /\ Authorize(policy, routing[tier])
  OBVIOUS
<1> HIDE DEF k
<1>4. k \in Calls /\ k.route = tier /\ k.request = request /\ k.sent = "nowhere" /\ k.body = <<>> /\ k.got = 0
      /\ k.dec = FreshDecoder /\ k.stream = FreshAnswer
  BY <1>3, FreshCall DEF Told
<1>5. \/ k.pc = "record" /\ k.outcome \in {"policy_violation", "budget_exhausted"}
      \/ k.pc = "auth" /\ k.outcome = "none" /\ Authorize(policy, routing[tier])
  BY <1>3, FreshCall DEF Told
<1>6. CallTrue(k, routing, policy) /\ ~Recorded(k)
  BY <1>2, <1>4, <1>5 DEF CallTrue, Recorded, Told
<1> QED
  BY <1>1, <1>4, <1>6, CallStarts

(* Gateway::transcribe and Gateway::embed.                                   *)
LEMMA EngineStep ==
    ASSUME GatewayInv, NEW c \in Callers, NEW t \in {"transcribe", "embed"}, Starts(c, EngineStart(t))
    PROVE  GatewayInv'
<1> DEFINE k == EngineStart(t)
<1>1. \/ k = CallAt(t, NoChoice, "done", "unrouted")
      \/ k = CallAt(t, NoChoice, "record", "policy_violation")
      \/ k = CallAt(t, NoChoice, "record", "not_yet_supported")
      \/ k = CallAt(t, NoChoice, "auth", "none") /\ t \in DOMAIN routing /\ Authorize(policy, routing[t])
  BY DEF EngineStart
<1>2. Starts(c, k)
  OBVIOUS
<1> HIDE DEF k
<1>6. t \in Tiers \cup {"transcribe", "embed"} /\ NoChoice \in Requests \cup {NoChoice}
  OBVIOUS
<1>7. {"unrouted", "policy_violation", "not_yet_supported", "none"} \subseteq Told \cup {"none", "unrouted"}
  BY DEF Told
<1>3. k \in Calls /\ k.route = t /\ k.sent = "nowhere" /\ k.body = <<>> /\ k.got = 0
      /\ k.dec = FreshDecoder /\ k.stream = FreshAnswer
  BY <1>1, <1>6, <1>7, FreshCall
<1>4. \/ k.pc = "done" /\ k.outcome = "unrouted"
      \/ k.pc = "record" /\ k.outcome \in {"policy_violation", "not_yet_supported"}
      \/ k.pc = "auth" /\ k.outcome = "none" /\ t \in DOMAIN routing /\ Authorize(policy, routing[t])
  BY <1>1, <1>6, <1>7, FreshCall
<1>5. CallTrue(k, routing, policy) /\ ~Recorded(k)
  BY <1>3, <1>4 DEF CallTrue, Recorded, Told, Tiers
<1> QED
  BY <1>2, <1>3, <1>5, CallStarts

(* resolve_auth.                                                             *)
LEMMA ResolveAuthStep == ASSUME GatewayInv, NEW c \in Callers, ResolveAuth(c) PROVE GatewayInv'
<1> DEFINE j == call[c]
<1> DEFINE choice == ChoiceOf(c)
<1> DEFINE result == IF NeedsSecret(choice) THEN SecretResult(choice.secret) ELSE "none"
<1> DEFINE think == call[c].route \in Tiers
<1> DEFINE k == CASE result = "revoked" -> CallSettled(c, "credential_revoked")
                  [] result = "unknown" -> CallSettled(c, "credential_unavailable")
                  [] result \in {"value", "none"} /\ think /\ choice.family \notin Providers -> CallSettled(c, "invalid_request")
                  [] result \in {"value", "none"} /\ (think => choice.family \in Providers)
                         /\ (~TransportReady(choice) \/ (think /\ Selected(choice) = "in_process")) ->
                         CallSettled(c, "transport_unavailable")
                  [] OTHER -> [call[c] EXCEPT !.pc = "send", !.auth = result = "value"]
<1>1. CallStep(c, k) /\ j.pc = "auth" /\ UNCHANGED <<routing, policy, made, ledger, usageSeen, profile>>
  BY DEF ResolveAuth
<1>2. j \in Calls /\ CallTrue(j, routing, policy)
  BY DEF GatewayInv, GatewayTyped
<1>3. \/ \E o \in {"credential_revoked", "credential_unavailable", "invalid_request", "transport_unavailable"} : k = CallSettled(c, o)
      \/ k = [j EXCEPT !.pc = "send", !.auth = result = "value"]
  OBVIOUS
<1> HIDE DEF k
<1>4. ~Recorded(j)
  BY <1>1 DEF Recorded
<1>5. k \in Calls /\ CallTrue(k, routing, policy) /\ ~Recorded(k)
  <2>1. ASSUME NEW o \in {"credential_revoked", "credential_unavailable", "invalid_request", "transport_unavailable"}, k = CallSettled(c, o)
        PROVE  k \in Calls /\ CallTrue(k, routing, policy) /\ ~Recorded(k)
    <3>1. k = [j EXCEPT !.pc = "record", !.outcome = o, !.sent = j.sent]
      BY <1>2, <2>1 DEF CallSettled, Calls
    <3>2. o \in Told /\ o # "ok" /\ o # "unsupported_field"
      BY DEF Told
    <3> HIDE DEF j
    <3> QED
      BY <1>1, <1>2, <3>1, <3>2, Settles
  <2>2. ASSUME k = [j EXCEPT !.pc = "send", !.auth = result = "value"]
        PROVE  k \in Calls /\ CallTrue(k, routing, policy) /\ ~Recorded(k)
    <3> DEFINE a == (result = "value")
    <3>1. a \in BOOLEAN /\ k = [j EXCEPT !.pc = "send", !.auth = a]
      BY <2>2
    <3> HIDE DEF a, j
    <3>2. /\ k \in Calls /\ k.pc = "send" /\ k.outcome = j.outcome /\ k.sent = j.sent /\ k.route = j.route /\ k.body = j.body
          /\ k.got = j.got /\ k.dec = j.dec /\ k.stream = j.stream /\ k.request = j.request
      BY <1>2, <3>1 DEF Calls
    <3> QED
      BY <1>1, <1>2, <3>2 DEF CallTrue, Recorded
  <2> QED
    BY <1>3, <2>1, <2>2
<1> QED
  BY <1>1, <1>4, <1>5, CallMoves

(* An engine of the transcribe or embed route.                               *)
LEMMA EngineCallStep == ASSUME GatewayInv, NEW c \in Callers, EngineCall(c) PROVE GatewayInv'
<1> DEFINE j == call[c]
<1>1. PICK o \in {"ok", "timeout", "invalid_request"} :
          CallStep(c, [CallSettled(c, o) EXCEPT !.sent = Selected(ChoiceOf(c)), !.ended = o = "ok"])
  BY DEF EngineCall
<1> DEFINE w == routing[j.route].locality
<1> DEFINE e == (o = "ok")
<1> DEFINE k == [j EXCEPT !.pc = "record", !.outcome = o, !.sent = w, !.ended = e]
<1>2. j \in Calls /\ CallTrue(j, routing, policy) /\ routing \in Routings
  BY DEF GatewayInv, GatewayTyped
<1>3. j.pc = "send" /\ j.route \in {"transcribe", "embed"} /\ UNCHANGED <<routing, policy, made, ledger, usageSeen, profile>>
  BY DEF EngineCall
<1>4. CallStep(c, k)
  <2>1. [CallSettled(c, o) EXCEPT !.sent = Selected(ChoiceOf(c)), !.ended = o = "ok"] = k
    BY <1>2 DEF CallSettled, Selected, ChoiceOf, Calls
  <2> QED
    BY <1>1, <2>1
<1>5. w \in Localities /\ w # "nowhere" /\ e \in BOOLEAN /\ Authorize(policy, routing[j.route])
  <2>1. j.route \in DOMAIN routing /\ Authorize(policy, routing[j.route])
    BY <1>2, <1>3 DEF CallTrue
  <2>2. EndpointValid(routing[j.route])
    BY <1>2, <2>1, RoutingValid
  <2> QED
    BY <2>1, <2>2 DEF EndpointValid, Localities
<1>6. k = [j EXCEPT !.pc = "record", !.outcome = o, !.sent = w, !.ended = e] /\ w = routing[j.route].locality
  OBVIOUS
<1>7. ~Recorded(j)
  BY <1>3 DEF Recorded
<1> HIDE DEF j, w, e, k
<1>8. /\ k \in Calls /\ k.pc = "record" /\ k.outcome = o /\ k.sent = w /\ k.route = j.route /\ k.body = j.body
  <2>1. o \in Told
    BY DEF Told, Weathers
  <2> QED
    BY <1>2, <1>5, <1>6, <2>1 DEF Calls
<1>9. CallTrue(k, routing, policy) /\ ~Recorded(k)
  BY <1>2, <1>3, <1>5, <1>6, <1>8 DEF CallTrue, Recorded, Told, Weathers
<1>10. ~Recorded(call[c])
  BY <1>7 DEF j
<1> QED
  BY <1>3, <1>4, <1>8, <1>9, <1>10, CallMoves

(* The plan, the connection and the head of the response.                    *)
LEMMA SendStep == ASSUME GatewayInv, NEW c \in Callers, SendRequest(c) PROVE GatewayInv'
<1> DEFINE j == call[c]
<1> DEFINE choice == ChoiceOf(c)
<1> DEFINE planned == PlanRequest(choice.family, j.request)
<1>1. j \in Calls /\ CallTrue(j, routing, policy) /\ routing \in Routings /\ profile.usage \in BOOLEAN /\ (profile.usage => usageSeen = "reported")
  BY DEF GatewayInv, GatewayTyped
<1>2. j.pc = "send" /\ j.route \in Tiers /\ UNCHANGED <<routing, policy, made, ledger, usageSeen, profile>>
  BY DEF SendRequest
<1>3. choice = routing[j.route] /\ Selected(choice) = choice.locality
  BY DEF ChoiceOf, Selected
<1>4. choice.locality \in Localities /\ choice.locality # "nowhere"
  <2>1. j.route \in DOMAIN routing
    BY <1>1, <1>2, RoutingValid
  <2>2. EndpointValid(routing[j.route])
    BY <1>1, <2>1, RoutingValid
  <2> QED
    BY <1>3, <2>2 DEF EndpointValid, Localities
<1>5. ~Recorded(j)
  BY <1>2 DEF Recorded
<1>6. ASSUME NEW o \in Told, o # "ok", NEW w, w = j.sent \/ w = choice.locality, w = j.sent \/ o # "unsupported_field",
             CallStep(c, [CallSettled(c, o) EXCEPT !.sent = w])
      PROVE  GatewayInv'
  <2> DEFINE k == [j EXCEPT !.pc = "record", !.outcome = o, !.sent = w]
  <2>1. [CallSettled(c, o) EXCEPT !.sent = w] = k
    BY <1>1 DEF CallSettled, Calls
  <2>2. k = [j EXCEPT !.pc = "record", !.outcome = o, !.sent = w]
    OBVIOUS
  <2>3. j.sent = "nowhere"
    BY <1>1, <1>2 DEF CallTrue
  <2> HIDE DEF k, j, choice
  <2>4. w = j.sent \/ (w = routing[j.route].locality /\ w \in Localities /\ j.pc = "send")
    BY <1>2, <1>3, <1>4, <1>6
  <2>5. w # "nowhere" => o # "unsupported_field"
    BY <1>6, <2>3
  <2>6. k \in Calls /\ CallTrue(k, routing, policy) /\ ~Recorded(k)
    BY <1>1, <1>2, <1>6, <2>2, <2>4, <2>5, Settles
  <2>7. CallStep(c, k) /\ ~Recorded(call[c])
    BY <1>5, <1>6, <2>1 DEF j
  <2> QED
    BY <1>2, <2>6, <2>7, CallMoves
<1>7. \A o : CallSettled(c, o) = [CallSettled(c, o) EXCEPT !.sent = j.sent]
  BY <1>1 DEF CallSettled, Calls
<1>8. ASSUME planned # "planned", CallStep(c, CallSettled(c, planned)) PROVE GatewayInv'
  <2>1. planned \in {"invalid_request", "unsupported_field"}
    BY <1>8, PlanTold
  <2>2. planned \in Told /\ planned # "ok"
    BY <2>1 DEF Told, Weathers
  <2> HIDE DEF planned, j, choice
  <2> QED
    BY <1>6, <1>7, <1>8, <2>2
<1>9. ASSUME CallStep(c, CallSettled(c, WeatherFromTransport("host refused"))) PROVE GatewayInv'
  <2> DEFINE o == WeatherFromTransport("host refused")
  <2>1. o \in {"timeout", "transport_failure"}
    BY TransportWeather
  <2>2. o \in Told /\ o # "ok"
    BY <2>1 DEF Told, Weathers
  <2>3. CallStep(c, CallSettled(c, o))
    BY <1>9
  <2> HIDE DEF o, planned, j, choice
  <2> QED
    BY <1>6, <1>7, <2>2, <2>3
<1>10. ASSUME NEW error \in SendErrors(choice),
              CallStep(c, [CallSettled(c, WeatherFromTransport(error)) EXCEPT !.sent = Selected(choice)])
       PROVE  GatewayInv'
  <2> DEFINE o == WeatherFromTransport(error)
  <2>1. o \in {"timeout", "transport_failure"}
    BY TransportWeather
  <2>2. o \in Told /\ o # "ok" /\ o # "unsupported_field"
    BY <2>1 DEF Told, Weathers
  <2>3. CallStep(c, [CallSettled(c, o) EXCEPT !.sent = choice.locality])
    BY <1>3, <1>10
  <2> HIDE DEF o, planned, j, choice
  <2> QED
    BY <1>6, <2>2, <2>3
<1>11. ~(choice.family = "compatible" /\ usageSeen = "rejected" /\ IncludesUsage(choice.family))
  BY <1>1 DEF IncludesUsage
<1>12. ASSUME NEW status \in Statuses, NEW body \in Bodies[choice.family],
              CallStep(c, [call[c] EXCEPT !.pc = "stream", !.sent = Selected(choice), !.status = status,
                                          !.body = IF status < 300 THEN body ELSE <<>>])
       PROVE  GatewayInv'
  <2> DEFINE sent == IF status < 300 THEN body ELSE <<>>
  <2> DEFINE w == choice.locality
  <2> DEFINE k == [j EXCEPT !.pc = "stream", !.sent = w, !.status = status, !.body = sent]
  <2>1. CallStep(c, k)
    BY <1>3, <1>12
  <2>2. Framed(body) /\ body \in Seq(STRING)
    BY <1>1, <1>2, <1>3, <1>12, BodiesFramed DEF Framed
  <2>3. status \in Nat
    BY RequestsTyped
  <2>4. sent \in Seq(STRING) /\ (sent # <<>> => Framed(sent))
    <3>1. sent = body \/ sent = <<>>
      OBVIOUS
    <3>2. <<>> \in Seq(STRING)
      OBVIOUS
    <3> HIDE DEF sent
    <3> QED
      BY <2>2, <3>1, <3>2
  <2>5. k = [j EXCEPT !.pc = "stream", !.sent = w, !.status = status, !.body = sent] /\ w = choice.locality
    OBVIOUS
  <2>6. ~Recorded(call[c])
    BY <1>5
  <2> HIDE DEF k, j, sent, w, choice, planned
  <2>7. /\ k \in Calls /\ k.pc = "stream" /\ k.outcome = j.outcome /\ k.sent = w /\ k.route = j.route /\ k.body = sent
        /\ k.got = j.got /\ k.dec = j.dec /\ k.stream = j.stream /\ k.request = j.request
    BY <1>1, <1>4, <2>3, <2>4, <2>5 DEF Calls
  <2>8. /\ j.outcome = "none" /\ j.got = 0 /\ j.dec = FreshDecoder /\ j.stream = FreshAnswer
        /\ Authorize(policy, routing[j.route]) /\ j.route \in DOMAIN routing /\ j.request \in Requests
    BY <1>1, <1>2 DEF CallTrue
  <2>9. ASSUME k.body # <<>> PROVE BodyTrue(k, routing[k.route].family)
    <3>1. Framed(k.body) /\ k.got = 0 /\ k.got <= Len(k.body)
      <4>1. Len(sent) \in Nat
        BY <2>4
      <4> QED
        BY <2>4, <2>7, <2>8, <2>9, <4>1
    <3>2. AnswerTrue(k.stream, routing[k.route].family, k.body, 0)
      BY <2>7, <2>8, NothingSent
    <3>3. DecoderTrue(k.dec, k.body, k.got, 0)
      <4>1. FreshDecoder.data = <<>> /\ (0 + 1)..0 = {}
        BY DEF FreshDecoder
      <4>2. DecoderTrue(FreshDecoder, k.body, 0, 0)
        BY <4>1 DEF DecoderTrue, LastBlank
      <4> QED
        BY <2>7, <2>8, <4>2
    <3>4. 0 \in 0..k.got /\ k.outcome # "ok"
      BY <2>7, <2>8
    <3> QED
      BY <3>1, <3>2, <3>3, <3>4 DEF BodyTrue
  <2>10. ~FreshAnswer.closed
    BY DEF FreshAnswer
  <2>11. CallTrue(k, routing, policy) /\ ~Recorded(k)
    BY <1>2, <1>3, <1>4, <2>5, <2>7, <2>8, <2>9, <2>10 DEF CallTrue, Recorded
  <2> QED
    BY <1>2, <2>1, <2>6, <2>7, <2>11, CallMoves
<1> QED
  BY <1>8, <1>9, <1>10, <1>11, <1>12 DEF SendRequest

(* on_chunk.                                                                 *)
TakesLine(c) ==
    \E closes \in BOOLEAN :
        LET k == call[c]
            fed == LineComplete(k.dec, k.body[k.got + 1])
            st == IF fed.event = <<>> THEN k.stream
                  ELSE ConsumeData(ChoiceOf(c).family, k.stream, Head(fed.event), closes)
            next == [k EXCEPT !.got = @ + 1, !.dec = fed.dec, !.stream = st]
        IN CallStep(c, IF st.closed THEN Completed(c, next) ELSE next)

LEMMA LineStep ==
    ASSUME GatewayInv, NEW c \in Callers, call[c].pc = "stream", call[c].got < Len(call[c].body),
           UNCHANGED <<routing, policy, made, ledger, usageSeen, profile>>, TakesLine(c)
    PROVE  GatewayInv'
<1> DEFINE j == call[c]
<1> DEFINE g == j.got + 1
<1> DEFINE fed == LineComplete(j.dec, j.body[g])
<1> DEFINE family == routing[j.route].family
<1>1. j \in Calls /\ CallTrue(j, routing, policy)
  BY DEF GatewayInv, GatewayTyped
<1>2. j.pc = "stream" /\ j.got < Len(j.body) /\ UNCHANGED <<routing, policy, made, ledger, usageSeen, profile>>
  OBVIOUS
<1> DEFINE StreamOf(closes) == IF fed.event = <<>> THEN j.stream ELSE ConsumeData(family, j.stream, Head(fed.event), closes)
<1> DEFINE NextOf(closes) == [j EXCEPT !.got = g, !.dec = fed.dec, !.stream = StreamOf(closes)]
<1>3. PICK closes \in BOOLEAN :
          CallStep(c, IF StreamOf(closes).closed THEN Completed(c, NextOf(closes)) ELSE NextOf(closes))
  <2>1. \E closes \in BOOLEAN :
            LET st == IF fed.event = <<>> THEN j.stream ELSE ConsumeData(ChoiceOf(c).family, j.stream, Head(fed.event), closes)
                next == [j EXCEPT !.got = j.got + 1, !.dec = fed.dec, !.stream = st]
            IN CallStep(c, IF st.closed THEN Completed(c, next) ELSE next)
    BY <1>1, ZenonT(40) DEF TakesLine, Calls
  <2> QED
    BY <2>1, ZenonT(40) DEF ChoiceOf
<1> DEFINE s == StreamOf(closes)
<1> DEFINE k == NextOf(closes)
<1>4. j.got \in Nat /\ j.body \in Seq(STRING) /\ j.dec \in Decoders /\ j.stream \in Answers /\ g \in Nat /\ g = j.got + 1
  BY <1>1 DEF Calls
<1>5. j.body # <<>> /\ g <= Len(j.body)
  <2>1. Len(j.body) \in Nat
    BY <1>4
  <2>2. Len(j.body) # 0
    BY <1>2, <1>4, <2>1
  <2> QED
    BY <1>2, <1>4, <2>1, <2>2
<1>6. BodyTrue(j, family) /\ j.outcome = "none" /\ ~j.stream.closed
  BY <1>1, <1>2, <1>5 DEF CallTrue
<1>7. PICK n \in 0..j.got : DecoderTrue(j.dec, j.body, j.got, n) /\ AnswerTrue(j.stream, family, j.body, n)
  BY <1>6 DEF BodyTrue
<1>8. Framed(j.body)
  BY <1>6 DEF BodyTrue
<1>9. fed = LineComplete(j.dec, j.body[g]) /\ s = IF fed.event = <<>> THEN j.stream ELSE ConsumeData(family, j.stream, Head(fed.event), closes)
  OBVIOUS
<1>10. k = [j EXCEPT !.got = g, !.dec = fed.dec, !.stream = s]
  BY ZenonT(40)
<1>11. CallStep(c, IF s.closed THEN Completed(c, k) ELSE k)
  BY <1>3, ZenonT(40)
<1>12. family = routing[j.route].family
  OBVIOUS
<1>13. ~Recorded(j)
  BY <1>2 DEF Recorded
<1> HIDE DEF s, k, fed, g, family
<1>14. /\ fed.dec \in Decoders /\ s \in Answers
       /\ \E m \in 0..g : DecoderTrue(fed.dec, j.body, g, m) /\ AnswerTrue(s, family, j.body, m)
  <2> HIDE DEF j
  <2> QED
    BY <1>4, <1>5, <1>7, <1>8, <1>9, LineTrue
<1>15. /\ k \in Calls /\ k.pc = "stream" /\ k.outcome = j.outcome /\ k.sent = j.sent /\ k.route = j.route /\ k.body = j.body
       /\ k.got = g /\ k.dec = fed.dec /\ k.stream = s /\ k.request = j.request
  <2> HIDE DEF j
  <2> QED
    BY <1>1, <1>2, <1>4, <1>10, <1>14 DEF Calls
<1>16. BodyTrue(k, family)
  BY <1>5, <1>6, <1>8, <1>14, <1>15 DEF BodyTrue
<1>17. CASE s.closed
  <2>1. CallStep(c, Completed(c, k))
    BY <1>11, <1>17
  <2>2. Streams(k, routing, policy)
    BY <1>1, <1>2, <1>12, <1>15, <1>16 DEF Streams, CallTrue
  <2>3. Completed(c, k) \in Calls /\ CallTrue(Completed(c, k), routing, policy) /\ ~Recorded(Completed(c, k))
    BY <1>15, <1>17, <2>2, CompletedTrue
  <2> QED
    BY <1>2, <1>13, <2>1, <2>3, CallMoves
<1>18. CASE ~s.closed
  <2>1. CallStep(c, k)
    BY <1>11, <1>18
  <2>2. CallTrue(k, routing, policy) /\ ~Recorded(k)
    BY <1>1, <1>2, <1>12, <1>15, <1>16, <1>18 DEF CallTrue, Recorded
  <2> QED
    BY <1>2, <1>13, <1>15, <2>1, <2>2, CallMoves
<1> QED
  BY <1>17, <1>18

(* An event over the size cap.                                               *)
LEMMA OversizeStep ==
    ASSUME GatewayInv, NEW c \in Callers, call[c].pc = "stream", call[c].got < Len(call[c].body),
           UNCHANGED <<routing, policy, made, ledger, usageSeen, profile>>,
           CallStep(c, Completed(c, [call[c] EXCEPT !.stream.broken = TRUE]))
    PROVE  GatewayInv'
<1> DEFINE j == call[c]
<1> DEFINE s == [j.stream EXCEPT !.broken = TRUE]
<1> DEFINE k == [j EXCEPT !.stream = s]
<1>1. j \in Calls /\ CallTrue(j, routing, policy)
  BY DEF GatewayInv, GatewayTyped
<1>2. k = [j EXCEPT !.stream.broken = TRUE]
  BY ZenonT(40)
<1>3. CallStep(c, Completed(c, k))
  BY <1>2
<1>4. j.stream \in Answers /\ j.got \in Nat /\ j.body \in Seq(STRING)
  BY <1>1 DEF Calls
<1>5. /\ s \in Answers /\ s.out = j.stream.out /\ s.block = j.stream.block /\ s.refused = j.stream.refused /\ s.broken
      /\ s.usageOut = j.stream.usageOut
  BY <1>4 DEF Answers
<1>6. k = [j EXCEPT !.stream = s]
  OBVIOUS
<1>7. ~Recorded(j)
  BY DEF Recorded
<1> HIDE DEF s, k
<1>8. /\ k \in Calls /\ k.pc = "stream" /\ k.outcome = j.outcome /\ k.sent = j.sent /\ k.route = j.route /\ k.body = j.body
      /\ k.got = j.got /\ k.dec = j.dec /\ k.stream = s /\ k.request = j.request
  <2> HIDE DEF j
  <2> QED
    BY <1>1, <1>5, <1>6 DEF Calls, j
<1>9. j.body # <<>>
  BY <1>4
<1>10. \A family, body, n : AnswerTrue(j.stream, family, body, n) => AnswerTrue(s, family, body, n)
  BY <1>5 DEF AnswerTrue
<1>11. BodyTrue(k, routing[j.route].family)
  BY <1>1, <1>8, <1>9, <1>10 DEF BodyTrue, CallTrue
<1>12. Streams(k, routing, policy)
  BY <1>1, <1>8, <1>11 DEF Streams, CallTrue
<1>13. Completed(c, k) \in Calls /\ CallTrue(Completed(c, k), routing, policy) /\ ~Recorded(Completed(c, k))
  BY <1>5, <1>8, <1>12, CompletedTrue
<1> QED
  BY <1>3, <1>7, <1>13, CallMoves

LEMMA OnChunkStep == ASSUME GatewayInv, NEW c \in Callers, OnChunk(c) PROVE GatewayInv'
<1>1. call[c].pc = "stream" /\ call[c].got < Len(call[c].body) /\ UNCHANGED <<routing, policy, made, ledger, usageSeen, profile>>
  BY ZenonT(40) DEF OnChunk
<1>2. TakesLine(c) \/ CallStep(c, Completed(c, [call[c] EXCEPT !.stream.broken = TRUE]))
  BY ZenonT(40) DEF OnChunk, TakesLine
<1> QED
  BY <1>1, <1>2, LineStep, OversizeStep

(* stream_body.                                                              *)
LEMMA BodyEndsStep == ASSUME GatewayInv, NEW c \in Callers, BodyEnds(c) PROVE GatewayInv'
<1> DEFINE j == call[c]
<1>1. j \in Calls /\ CallTrue(j, routing, policy)
  BY DEF GatewayInv, GatewayTyped
<1>2. j.pc = "stream" /\ UNCHANGED <<routing, policy, made, ledger, usageSeen, profile>>
  BY DEF BodyEnds
<1>3. ~Recorded(j)
  BY <1>2 DEF Recorded
<1>4. ASSUME CallStep(c, Completed(c, [j EXCEPT !.ended = TRUE])) PROVE GatewayInv'
  <2> DEFINE k == [j EXCEPT !.ended = TRUE]
  <2>1. /\ k \in Calls /\ k.pc = "stream" /\ k.outcome = j.outcome /\ k.sent = j.sent /\ k.route = j.route /\ k.body = j.body
        /\ k.got = j.got /\ k.dec = j.dec /\ k.stream = j.stream /\ k.request = j.request /\ k.ended
    BY <1>1, <1>2 DEF Calls
  <2>2. CallStep(c, Completed(c, k))
    BY <1>4
  <2> HIDE DEF k
  <2>3. Streams(k, routing, policy)
    BY <1>1, <1>2, <2>1 DEF Streams, CallTrue, BodyTrue
  <2>4. Completed(c, k) \in Calls /\ CallTrue(Completed(c, k), routing, policy) /\ ~Recorded(Completed(c, k))
    BY <2>1, <2>3, CompletedTrue
  <2> QED
    BY <1>2, <1>3, <2>2, <2>4, CallMoves
<1>5. ASSUME NEW error \in BodyErrors, CallStep(c, CallSettled(c, WeatherFromTransport(error))) PROVE GatewayInv'
  <2> DEFINE o == WeatherFromTransport(error)
  <2> DEFINE k == CallSettled(c, o)
  <2>1. o \in {"timeout", "transport_failure"}
    BY TransportWeather
  <2>2. o \in Told /\ o # "ok" /\ o # "unsupported_field"
    BY <2>1 DEF Told, Weathers
  <2>3. CallStep(c, k)
    BY <1>5
  <2>4. k = [j EXCEPT !.pc = "record", !.outcome = o, !.sent = j.sent]
    BY <1>1 DEF CallSettled, Calls
  <2> HIDE DEF o, k
  <2>5. k \in Calls /\ CallTrue(k, routing, policy) /\ ~Recorded(k)
    <3> HIDE DEF j
    <3> QED
      BY <1>1, <1>2, <2>2, <2>4, Settles
  <2> QED
    BY <1>2, <1>3, <2>3, <2>5, CallMoves
<1> QED
  BY <1>4, <1>5 DEF BodyEnds

(* The row of a call that returned, or the failure of its ledger.            *)
LEMMA RecordedStep == ASSUME GatewayInv, NEW c \in Callers, CallRecorded(c) PROVE GatewayInv'
<1> DEFINE j == call[c]
<1>1. j \in Calls /\ CallTrue(j, routing, policy) /\ RowsTrue(ledger, c, made[c], j)
  BY DEF GatewayInv, GatewayTyped
<1>2. j.pc = "record" /\ UNCHANGED <<routing, policy, made, usageSeen, profile>>
  BY DEF CallRecorded
<1>3. ~Recorded(j) /\ j.outcome \in Told
  BY <1>1, <1>2 DEF Recorded, CallTrue
<1>4. ASSUME CallStep(c, [j EXCEPT !.pc = "done", !.outcome = "ledger_failure"]), UNCHANGED ledger PROVE GatewayInv'
  <2> DEFINE k == [j EXCEPT !.pc = "done", !.outcome = "ledger_failure"]
  <2>1. /\ k \in Calls /\ k.pc = "done" /\ k.outcome = "ledger_failure" /\ k.sent = j.sent /\ k.route = j.route /\ k.body = j.body
        /\ k.got = j.got /\ k.dec = j.dec /\ k.stream = j.stream
    BY <1>1 DEF Calls
  <2>2. CallStep(c, k)
    BY <1>4
  <2> HIDE DEF k
  <2>3. CallTrue(k, routing, policy) /\ ~Recorded(k)
    BY <1>1, <2>1 DEF CallTrue, Recorded, BodyTrue
  <2> QED
    BY <1>2, <1>3, <1>4, <2>1, <2>2, <2>3, CallMoves
<1>5. ASSUME CallStep(c, [j EXCEPT !.pc = "done"]), ledger' = Append(ledger, LedgerRow(c)) PROVE GatewayInv'
  <2> DEFINE k == [j EXCEPT !.pc = "done"]
  <2> DEFINE row == LedgerRow(c)
  <2>1. /\ k \in Calls /\ k.pc = "done" /\ k.outcome = j.outcome /\ k.sent = j.sent /\ k.route = j.route /\ k.body = j.body
        /\ k.got = j.got /\ k.dec = j.dec /\ k.stream = j.stream /\ k.ended = j.ended /\ k.usage = j.usage
    BY <1>1 DEF Calls
  <2>2. call' = [call EXCEPT ![c] = k]
    BY <1>5 DEF CallStep
  <2>3. call \in [Callers -> Calls] /\ made \in [Callers -> Nat] /\ ledger \in Seq(LedgerRows) /\ GatewayTyped
    BY DEF GatewayInv, GatewayTyped
  <2>4. row \in LedgerRows /\ row.caller = c /\ row.nth = made[c] /\ row.outcome = j.outcome /\ row.usage = j.usage
    <3>1. CostKind(ChoiceOf(c), j.usage.measured) \in {"customer_billed", "measured", "estimated"}
      BY DEF CostKind
    <3>2. j.usage \in Usages /\ made[c] \in Nat
      BY <1>1, <2>3 DEF Calls
    <3> QED
      BY <1>3, <3>1, <3>2 DEF LedgerRow, LedgerRows
  <2>5. ledger' = Append(ledger, row)
    BY <1>5
  <2> HIDE DEF k, row
  <2>6. call' \in [Callers -> Calls] /\ call'[c] = k /\ \A b \in Callers : b # c => call'[b] = call[b]
    BY <2>1, <2>2, <2>3
  <2>7. /\ ledger' \in Seq(LedgerRows) /\ Len(ledger') = Len(ledger) + 1 /\ ledger'[Len(ledger) + 1] = row
        /\ \A i \in 1..Len(ledger) : ledger'[i] = ledger[i]
    BY <2>3, <2>4, <2>5
  <2>8. GatewayTyped'
    BY <1>2, <2>3, <2>6, <2>7 DEF GatewayTyped
  <2>9. CallTrue(k, routing, policy)
    BY <1>1, <2>1 DEF CallTrue, BodyTrue
  <2>10. ASSUME NEW b \in Callers PROVE CallTrue(call'[b], routing', policy')
    <3>1. CallTrue(call[b], routing, policy)
      BY DEF GatewayInv
    <3>2. routing' = routing /\ policy' = policy
      BY <1>2
    <3> QED
      BY <2>6, <2>9, <3>1, <3>2
  <2> DEFINE l == Len(ledger)
  <2>11. l \in Nat /\ Len(ledger') = l + 1 /\ ledger'[l + 1] = row /\ \A i \in 1..l : ledger'[i] = ledger[i]
    BY <2>3, <2>7
  <2>12. \A i \in 1..(l + 1) : i = l + 1 \/ i \in 1..l
    BY <2>11
  <2>13. l + 1 \in 1..(l + 1) /\ \A i \in 1..l : i \in 1..(l + 1) /\ i # l + 1
    BY <2>11
  <2>14. ASSUME NEW b \in Callers PROVE RowsTrue(ledger', b, made'[b], call'[b])
    <3>1. RowsTrue(ledger, b, made[b], call[b]) /\ made'[b] = made[b] /\ made[b] \in Nat
      BY <1>2, <2>3 DEF GatewayInv
    <3> HIDE DEF l
    <3>2. l = Len(ledger)
      BY DEF l
    <3>3. \A i \in 1..Len(ledger') : ledger'[i].caller = b => ledger'[i].nth <= made[b]
      <4>1. \A i \in 1..l : ledger[i].caller = b => ledger[i].nth <= made[b]
        BY <3>1, <3>2 DEF RowsTrue
      <4>2. row.caller = b => row.nth <= made[b]
        BY <2>4, <3>1
      <4> QED
        BY <2>11, <2>12, <4>1, <4>2
    <3>4. CASE b = c
      <4>1. RowsFor(ledger, b, made[b]) = {}
        BY <1>3, <3>1, <3>4 DEF RowsTrue
      <4>2. RowsFor(ledger', b, made[b]) = {l + 1}
        <5>1. ASSUME NEW i \in 1..l PROVE ~(ledger'[i].caller = b /\ ledger'[i].nth = made[b])
          BY <2>11, <3>2, <4>1 DEF RowsFor
        <5>2. ledger'[l + 1].caller = b /\ ledger'[l + 1].nth = made[b]
          BY <2>4, <2>11, <3>4
        <5> QED
          BY <2>11, <2>12, <2>13, <5>1, <5>2 DEF RowsFor
      <4>3. ledger'[l + 1].outcome = k.outcome /\ ledger'[l + 1].usage = k.usage /\ call'[b] = k
        BY <2>1, <2>4, <2>6, <2>11, <3>4
      <4>4. Recorded(k)
        BY <1>3, <2>1 DEF Recorded, Told, Weathers
      <4>5. l + 1 \in 1..Len(ledger')
        BY <2>11, <2>13
      <4> QED
        BY <3>1, <3>3, <4>2, <4>3, <4>4, <4>5 DEF RowsTrue
    <3>5. CASE b # c
      <4>1. RowsFor(ledger', b, made[b]) = RowsFor(ledger, b, made[b])
        <5>1. row.caller # b
          BY <2>4, <3>5
        <5> QED
          BY <2>11, <2>12, <2>13, <3>2, <5>1 DEF RowsFor
      <4>2. call'[b] = call[b]
        BY <2>6, <3>5
      <4>3. CASE Recorded(call[b])
        <5>1. PICK i \in 1..l : RowsFor(ledger, b, made[b]) = {i} /\ ledger[i].outcome = call[b].outcome /\ ledger[i].usage = call[b].usage
          BY <3>1, <3>2, <4>3 DEF RowsTrue
        <5>2. i \in 1..Len(ledger') /\ ledger'[i] = ledger[i]
          BY <2>11, <2>13
        <5> QED
          BY <3>1, <3>3, <4>1, <4>2, <4>3, <5>1, <5>2 DEF RowsTrue
      <4>4. CASE ~Recorded(call[b])
        BY <3>1, <3>3, <4>1, <4>2, <4>4 DEF RowsTrue
      <4> QED
        BY <4>3, <4>4
    <3> QED
      BY <3>4, <3>5
  <2> QED
    BY <2>8, <2>10, <2>14 DEF GatewayInv
<1> QED
  BY <1>4, <1>5 DEF CallRecorded

(* A kill loses the calls under way, and they have no row.                   *)
LEMMA KilledStep == ASSUME GatewayInv, ProcessKilled PROVE GatewayInv'
<1>1. call \in [Callers -> Calls] /\ GatewayTyped
  BY DEF GatewayInv, GatewayTyped
<1>2. /\ call' = [c \in Callers |-> IF call[c].pc \in {"idle", "done"} THEN call[c] ELSE [call[c] EXCEPT !.pc = "lost"]]
      /\ UNCHANGED <<routing, policy, made, ledger, usageSeen, profile>>
  BY DEF ProcessKilled
<1>3. ASSUME NEW c \in Callers
      PROVE  call'[c] \in Calls /\ CallTrue(call'[c], routing, policy) /\ RowsTrue(ledger, c, made[c], call'[c])
  <2> DEFINE j == call[c]
  <2> DEFINE k == [j EXCEPT !.pc = "lost"]
  <2>1. j \in Calls /\ CallTrue(j, routing, policy) /\ RowsTrue(ledger, c, made[c], j)
    BY <1>1 DEF GatewayInv
  <2>2. CASE j.pc \in {"idle", "done"}
    <3>1. call'[c] = j
      BY <1>2, <2>2
    <3> QED
      BY <2>1, <3>1
  <2>3. CASE j.pc \notin {"idle", "done"}
    <3>1. call'[c] = k
      BY <1>2, <2>3
    <3>2. /\ k \in Calls /\ k.pc = "lost" /\ k.outcome = j.outcome /\ k.sent = j.sent /\ k.route = j.route /\ k.body = j.body
          /\ k.got = j.got /\ k.dec = j.dec /\ k.stream = j.stream /\ k.ended = j.ended /\ k.usage = j.usage
      BY <2>1 DEF Calls
    <3> HIDE DEF k, j
    <3>3. CallTrue(k, routing, policy)
      BY <2>1, <3>2 DEF CallTrue, BodyTrue
    <3>4. ~Recorded(j) /\ ~Recorded(k)
      BY <2>3, <3>2 DEF Recorded
    <3>5. RowsTrue(ledger, c, made[c], k)
      BY <2>1, <3>4 DEF RowsTrue
    <3> QED
      BY <3>1, <3>2, <3>3, <3>5
  <2> QED
    BY <2>2, <2>3
<1>4. call' \in [Callers -> Calls]
  BY <1>2, <1>3
<1>5. GatewayTyped'
  BY <1>1, <1>2, <1>4 DEF GatewayTyped
<1> QED
  BY <1>2, <1>3, <1>5 DEF GatewayInv

(* What touches neither calls nor rows.                                      *)
LEMMA AsideStep ==
    ASSUME GatewayInv, UNCHANGED <<routing, policy, call, made, ledger, usageSeen>>, profile'.usage \in BOOLEAN, profile'.usage => usageSeen' = "reported"
    PROVE  GatewayInv'
<1>1. GatewayTyped'
  BY DEF GatewayInv, GatewayTyped
<1> QED
  BY <1>1 DEF GatewayInv

(* Nobody has called yet.                                                    *)
LEMMA GatewayBegins == GatewayInit => GatewayInv
<1> SUFFICES ASSUME GatewayInit PROVE GatewayInv
  OBVIOUS
<1>1. FreshDecoder \in Decoders
  BY DEF FreshDecoder, Decoders
<1>2. FreshAnswer \in Answers
  BY DEF FreshAnswer, Answers
<1>3. [in |-> 0, out |-> 0, measured |-> FALSE] \in Usages
  BY DEF Usages
<1>4. NoCall \in Calls
  BY <1>1, <1>2, <1>3 DEF NoCall, Calls, Tiers
<1>5. GatewayTyped
  <2>1. call \in [Callers -> Calls] /\ made \in [Callers -> Nat]
    BY <1>4 DEF GatewayInit
  <2>2. ledger \in Seq(LedgerRows)
    BY DEF GatewayInit
  <2>3. /\ routing \in Routings /\ usageSeen \in {"reported", "ignored", "rejected"}
        /\ profile = Conservative \/ (profile = OfOllama /\ usageSeen = "reported")
    BY DEF GatewayInit
  <2>4. Conservative.usage = FALSE /\ OfOllama.usage = TRUE
    BY DEF Conservative, OfOllama
  <2>5. profile.usage \in BOOLEAN /\ (profile.usage => usageSeen = "reported")
    BY <2>3, <2>4
  <2> QED
    BY <2>1, <2>2, <2>3, <2>5 DEF GatewayTyped
<1>6. CallTrue(NoCall, routing, policy) /\ ~Recorded(NoCall)
  BY DEF CallTrue, Recorded, NoCall
<1>7. Len(<<>>) = 0 /\ 1..0 = {}
  OBVIOUS
<1>8. ASSUME NEW c \in Callers PROVE call[c] = NoCall /\ RowsTrue(ledger, c, made[c], call[c])
  <2>1. call[c] = NoCall /\ ledger = <<>>
    BY DEF GatewayInit
  <2>2. RowsFor(<<>>, c, made[c]) = {}
    BY <1>7 DEF RowsFor
  <2> QED
    BY <1>6, <1>7, <2>1, <2>2 DEF RowsTrue
<1> QED
  BY <1>5, <1>6, <1>8 DEF GatewayInv

(* Every step keeps the invariant.                                           *)
LEMMA GatewayStep == GatewayInv /\ [GatewayNext]_gatewayVars => GatewayInv'
<1> SUFFICES ASSUME GatewayInv, [GatewayNext]_gatewayVars PROVE GatewayInv'
  OBVIOUS
<1>1. profile.usage \in BOOLEAN /\ (profile.usage => usageSeen = "reported")
  BY DEF GatewayInv, GatewayTyped
<1>2. CASE UNCHANGED gatewayVars
  BY <1>1, <1>2, AsideStep DEF gatewayVars
<1>3. ASSUME NEW s \in SecretRefs, InsertSecret(s) \/ RevokeSecret(s) PROVE GatewayInv'
  BY <1>1, <1>3, AsideStep DEF InsertSecret, RevokeSecret
<1>4. CASE Qualify
  <2>1. PICK server \in {"ollama", "unknown"}, models \in {"weather", "model missing", "model listed"},
             first \in Passes(TRUE), second \in Passes(FALSE) : profile' = Qualified(server, models, first, second)
    BY <1>4 DEF Qualify
  <2>2. first = "measured" => usageSeen = "reported" \/ usageSeen \notin {"rejected", "ignored"}
    BY DEF Passes
  <2>3. usageSeen \in {"reported", "ignored", "rejected"}
    BY DEF GatewayInv, GatewayTyped
  <2>4. profile'.usage \in BOOLEAN /\ (profile'.usage => usageSeen = "reported")
    BY <1>1, <2>1, <2>2, <2>3 DEF Qualified
  <2> QED
    BY <1>4, <2>3, <2>4, AsideStep DEF Qualify
<1>5. ASSUME NEW c \in Callers, Transcribe(c) \/ EmbedBatch(c) PROVE GatewayInv'
  BY <1>5, EngineStep DEF Transcribe, EmbedBatch
<1>6. ASSUME NEW c \in Callers, RecordOutcome(c) \/ RecordTranscribe(c) \/ RecordEmbed(c) PROVE GatewayInv'
  BY <1>6, RecordedStep DEF RecordOutcome, RecordTranscribe, RecordEmbed
<1> QED
  BY <1>2, <1>3, <1>4, <1>5, <1>6, CompleteStep, ResolveAuthStep, SendStep, EngineCallStep, OnChunkStep, BodyEndsStep,
     KilledStep DEF GatewayNext

(* What the invariant says of the rows is what dispatch.rs promises.         *)
LEMMA InvAccounts == GatewayInv => DispatchAccounted
<1> SUFFICES ASSUME GatewayInv, NEW c \in Callers
             PROVE  /\ IF call[c].pc = "done" /\ call[c].outcome \notin {"unrouted", "ledger_failure"}
                       THEN \E i \in DOMAIN ledger : RowsOf(c) = {i} /\ ledger[i].outcome = call[c].outcome
                                                                    /\ ledger[i].usage = call[c].usage
                       ELSE RowsOf(c) = {}
                    /\ call[c].sent # "nowhere" => /\ Authorize(policy, ChoiceOf(c))
                                                   /\ (call[c].sent = "remote") = Preflight(call[c].route).leaves
                    /\ call[c].outcome = "ok" => call[c].sent # "nowhere"
  BY DEF DispatchAccounted
<1>1. CallTrue(call[c], routing, policy) /\ RowsTrue(ledger, c, made[c], call[c]) /\ ledger \in Seq(LedgerRows)
  BY DEF GatewayInv, GatewayTyped
<1>2. DOMAIN ledger = 1..Len(ledger)
  BY <1>1
<1>3. RowsOf(c) = RowsFor(ledger, c, made[c])
  BY <1>2 DEF RowsOf, RowsFor
<1>4. IF Recorded(call[c])
      THEN \E i \in DOMAIN ledger : RowsOf(c) = {i} /\ ledger[i].outcome = call[c].outcome /\ ledger[i].usage = call[c].usage
      ELSE RowsOf(c) = {}
  BY <1>1, <1>2, <1>3 DEF RowsTrue
<1>5. Preflight(call[c].route).leaves = (routing[call[c].route].locality = "remote")
  BY DEF Preflight
<1>6. call[c].sent # "nowhere" => /\ Authorize(policy, ChoiceOf(c))
                                  /\ (call[c].sent = "remote") = Preflight(call[c].route).leaves
  BY <1>1, <1>5 DEF CallTrue, ChoiceOf
<1>7. call[c].outcome = "ok" => call[c].sent # "nowhere"
  BY <1>1 DEF CallTrue
<1> QED
  BY <1>4, <1>6, <1>7 DEF Recorded

(* What it says of the body is that the answer is the provider's.            *)
LEMMA InvFaithful == GatewayInv => AnswerFaithful
<1> SUFFICES ASSUME GatewayInv, NEW c \in Callers,
                    call[c].pc \in {"stream", "record", "done"}, call[c].route \in Tiers, call[c].body # <<>>
             PROVE  LET k == call[c]
                        n == WholeLines(k.body, k.got)
                        lines == {k.body[i] : i \in 1..n}
                    IN /\ Conveys(k.stream.out, Sent(ChoiceOf(c).family, k.body, n))
                       /\ k.stream.closed => k.pc # "stream"
                       /\ k.outcome = "ok" => /\ "filtered" \notin lines /\ "garbage" \notin lines
                                              /\ k.stream.closed \/ k.ended
                                              /\ k.usage.measured => "usage" \in lines
  BY DEF AnswerFaithful
<1> DEFINE k == call[c]
<1> DEFINE family == ChoiceOf(c).family
<1>1. k \in Calls /\ CallTrue(k, routing, policy)
  BY DEF GatewayInv, GatewayTyped
<1>2. BodyTrue(k, family)
  BY <1>1 DEF CallTrue, ChoiceOf
<1>3. k.body \in Seq(STRING) /\ k.got \in Nat
  BY <1>1 DEF Calls
<1>4. k.stream.closed => k.pc # "stream"
  BY <1>1 DEF CallTrue
<1> HIDE DEF k, family
<1>5. PICK n \in 0..k.got : DecoderTrue(k.dec, k.body, k.got, n) /\ AnswerTrue(k.stream, family, k.body, n)
  BY <1>2 DEF BodyTrue
<1>6. WholeLines(k.body, k.got) = n
  <2>1. LastBlank(k.body, k.got, n)
    BY <1>5 DEF DecoderTrue
  <2> QED
    BY <1>3, <1>5, <2>1, WholeIs
<1> DEFINE lines == {k.body[i] : i \in 1..n}
<1>7. Conveys(k.stream.out, Sent(family, k.body, n))
  BY <1>5 DEF AnswerTrue
<1>8. /\ "filtered" \in lines => k.stream.refused
      /\ "garbage" \in lines => k.stream.broken
      /\ k.stream.usageOut => "usage" \in lines
  BY <1>5 DEF AnswerTrue
<1>9. k.outcome = "ok" => /\ "filtered" \notin lines /\ "garbage" \notin lines
                          /\ k.stream.closed \/ k.ended
                          /\ k.usage.measured => "usage" \in lines
  BY <1>2, <1>8 DEF BodyTrue
<1> QED
  BY <1>4, <1>6, <1>7, <1>9 DEF k, family

(* A qualified profile never claims a field that is rejected.                *)
LEMMA InvServes == GatewayInv => QualifiedEndpointServes
  BY DEF GatewayInv, QualifiedEndpointServes, CallTrue

(* dispatch.rs: for any callers, routings, policies, providers, requests,    *)
(* answers and ledger, with any kills: a call that returned left one row     *)
(* that says what its caller was told; nothing went where the policy or the  *)
(* preflight did not say; the sink was given what the provider sent; and a   *)
(* qualified endpoint never refuses the field it was asked about.            *)
THEOREM GatewayIsSound == GatewaySpec => []GatewaySound
<1>1. GatewayInv => GatewaySound
  BY InvAccounts, InvFaithful, InvServes DEF GatewaySound
<1> QED
  BY <1>1, GatewayBegins, GatewayStep, PTL DEF GatewaySpec

-----------------------------------------------------------------------------
(* TextStages: what holds at every step.                                     *)

(* The records of the index: spans and bounds.                               *)
SegmentRecords == Nat \X Nat \X {"time", "line", "message"} \X (0..6) \X Nat \X Nat
ScanStates ==
    [at : Nat, start : Nat, lineStart : Nat, lineLast : Nat, record : Nat, line : Nat, afterNewline : BOOLEAN,
     quoted : BOOLEAN, atStart : BOOLEAN, prefix : Seq(TextBytes), content : BOOLEAN, committed : Nat]
TextTyped ==
    /\ doc \in Documents
    /\ tpc \in {"start", "scan", "cues", "chunk", "done"}
    /\ scan \in ScanStates
    /\ text \in Seq(TextBytes)
    /\ index \in Seq(SegmentRecords)
    /\ read \in Nat

(* The segments do not overlap, name lines, moments or messages in order and *)
(* of one kind, and hold every byte up to a position that is not blank, each *)
(* on a line it names.                                                       *)
InOrder(idx) ==
    /\ \A i \in 1..Len(idx) : idx[i][1] <= idx[i][2] /\ idx[i][5] <= idx[i][6]
    /\ \A i, j \in 1..Len(idx) : i < j => /\ idx[i][2] <= idx[j][1] /\ idx[i][6] <= idx[j][5]
                                          /\ idx[i][3] = idx[j][3]
Holds(idx, txt, upto) ==
    \A t \in 1..upto : txt[t] \notin Blank => \E i \in 1..Len(idx) : idx[i][1] < t /\ t <= idx[i][2]
OnLines(idx, txt) ==
    \A i \in 1..Len(idx) : idx[i][3] = "line" =>
        \A t \in (idx[i][1] + 1)..idx[i][2] : txt[t] \notin Blank => LineIn(txt, t) \in idx[i][5]..idx[i][6]
Before(idx, upto, mark, tag) ==
    \A i \in 1..Len(idx) : idx[i][2] <= upto /\ idx[i][6] <= mark /\ idx[i][3] = tag
IndexTrue(idx, txt, upto) == InOrder(idx) /\ Holds(idx, txt, upto) /\ OnLines(idx, txt)

(* The text is what was kept of the bytes so far.                            *)
KeptSoFar(txt, at) ==
    /\ Len(txt) = Place(Kept, at)
    /\ \A i \in Kept : i <= at => txt[Place(Kept, i)] = doc.bytes[i]

(* The scanner's counters are those of the text, and the open record has     *)
(* content exactly when a byte of it is not blank, on one of its lines.      *)
ByMessage == doc.shape \in {"thread", "message"}
ScanKind == IF ByMessage THEN "message" ELSE "line"
ScanMark(st) == IF ByMessage THEN st.record ELSE st.lineStart
OpenRecord(st, txt) ==
    /\ st.start <= Len(txt)
    /\ st.line = LineIn(txt, Len(txt) + 1)
    /\ st.lineStart <= st.line
    /\ st.content => st.lineStart <= st.lineLast /\ st.lineLast <= st.line
    /\ \A t \in (st.start + 1)..Len(txt) : txt[t] \notin Blank =>
           st.content /\ LineIn(txt, t) \in st.lineStart..st.lineLast
ScanTrue(st, txt, idx) ==
    /\ st.at <= Len(doc.bytes)
    /\ KeptSoFar(txt, st.at)
    /\ st.atStart <=> (\A i \in 1..st.at : doc.bytes[i] = "r")
    /\ OpenRecord(st, txt)
    /\ IndexTrue(idx, txt, st.start)
    /\ Before(idx, st.start, ScanMark(st), ScanKind)

Cued ==
    /\ doc.media = "captions"
    /\ scan.at <= Len(doc.blocks)
    /\ IndexTrue(index, text, Len(text))
    /\ Before(index, Len(text), scan.committed, "time")

(* The window is the last segments read, and the facts are of the others.    *)
Windows ==
    [start : Nat, end : Nat, locator : {"none", "time", "line", "message"} \X Nat \X Nat, depth : 0..6, count : Nat]
WindowTrue(w, n) ==
    /\ w \in Windows
    /\ w.count \in 0..n
    /\ w.count > 0 => LET first == n - w.count + 1
                      IN /\ w.start = index[first][1] /\ w.end = index[n][2]
                         /\ w.locator = <<index[first][3], index[first][5], index[n][6]>>
    /\ w.count = 0 => w = EmptyWindow
FactRecords ==
    [id : {doc.shape} \X Nat \X Seq(TextBytes), start : Nat, end : Nat,
     locator : {"time", "line", "message"} \X Nat \X Nat, content : Seq(TextBytes)]
FactsInOrder(f) ==
    \A i, j \in 1..Len(f) : i < j =>
        /\ f[i].end <= f[j].start
        /\ f[i].locator = f[j].locator \/ f[i].locator[3] <= f[j].locator[2]
FactsBefore(f, n) ==
    \A i \in 1..Len(f), s \in 1..Len(index) : s > n => f[i].end <= index[s][1] /\ f[i].locator[3] <= index[s][5]
FactHolds(fact, t) ==
    /\ fact.start < t /\ t <= fact.end
    /\ fact.locator[1] = "line" => LineIn(text, t) \in fact.locator[2]..fact.locator[3]
FactsHold(f, n) ==
    \A s \in 1..n : \A t \in (index[s][1] + 1)..index[s][2] : text[t] \notin Blank => \E i \in 1..Len(f) : FactHolds(f[i], t)
FactWhole(fact) == fact.start < fact.end /\ fact.id = <<doc.shape, fact.start, fact.content>>
FactsTrue(f, n) ==
    /\ f \in Seq(FactRecords)
    /\ \A i \in 1..Len(f) : FactWhole(f[i])
    /\ FactsInOrder(f) /\ FactsBefore(f, n) /\ FactsHold(f, n)
Chunked ==
    /\ doc.media \notin {"captions", "audio", "video", "opaque"} => text = RawText
    /\ IndexTrue(index, text, Len(text))
    /\ \A i \in 1..Len(index) : index[i][2] <= Len(text)
    /\ read <= Len(index)
    /\ WindowTrue(window, read)
    /\ FactsTrue(facts, read - window.count)
    /\ tpc = "done" => read = Len(index) /\ window.count = 0

TextInv ==
    tpc # "failed" =>
        /\ TextTyped
        /\ tpc = "start" => scan = FreshScan /\ text = <<>>
        /\ tpc = "scan" => doc.media # "captions" /\ ScanTrue(scan, text, index)
        /\ tpc = "cues" => Cued
        /\ tpc \in {"start", "scan", "cues"} => read = 0 /\ window = EmptyWindow /\ facts = <<>>
        /\ tpc = "start" => index = <<>>
        /\ tpc \in {"chunk", "done"} => Chunked

-----------------------------------------------------------------------------
(* TextStages: positions, cuts and bounds.                                   *)

LEMMA MinTwo ==
    ASSUME NEW a \in Int, NEW b \in Int
    PROVE  Min({a, b}) \in {a, b} /\ Min({a, b}) <= a /\ Min({a, b}) <= b
<1>1. \E x \in {a, b} : \A y \in {a, b} : x =< y
  BY SMT
<1>2. QED
  BY <1>1, SMT DEF Min

LEMMA MaxTwo ==
    ASSUME NEW a \in Int, NEW b \in Int
    PROVE  /\ Max({a, b}) \in {a, b} /\ Max({a, b}) >= a /\ Max({a, b}) >= b
           /\ a >= b => Max({a, b}) = a
<1>1. \E x \in {a, b} : \A y \in {a, b} : x >= y
  BY SMT
<1>2. Max({a, b}) \in {a, b} /\ Max({a, b}) >= a /\ Max({a, b}) >= b
  BY <1>1, SMT DEF Max
<1>3. QED
  BY <1>2, SMT

(* The places of kept positions are in the order of the positions.           *)
LEMMA PlaceOrder ==
    ASSUME NEW size \in Nat, NEW keep \in SUBSET (1..size)
    PROVE  /\ IsFiniteSet(keep) /\ Cardinality(keep) \in Nat
           /\ \A k \in Int : Place(keep, k) \in 0..Cardinality(keep)
           /\ \A k \in keep : Place(keep, k) \in 1..Cardinality(keep)
           /\ \A k \in keep, j \in Int : j < k => Place(keep, j) < Place(keep, k)
<1>1. IsFiniteSet(1..size)
  BY FS_Interval
<1>2. IsFiniteSet(keep) /\ Cardinality(keep) \in Nat
  BY <1>1, FS_Subset, FS_CardinalityType
<1>3. ASSUME NEW k \in Int PROVE Place(keep, k) \in 0..Cardinality(keep) /\ IsFiniteSet({j \in keep : j <= k})
  <2> DEFINE low == {j \in keep : j <= k}
  <2>1. low \in SUBSET keep
    OBVIOUS
  <2> HIDE DEF low
  <2>2. IsFiniteSet(low) /\ Cardinality(low) <= Cardinality(keep)
    BY <1>2, <2>1, FS_Subset
  <2>3. Cardinality(low) \in Nat
    BY <2>2, FS_CardinalityType
  <2>4. Place(keep, k) = Cardinality(low)
    BY DEF Place, low
  <2>5. Cardinality(low) \in 0..Cardinality(keep)
    BY <1>2, <2>2, <2>3
  <2>6. QED
    BY <2>2, <2>4, <2>5 DEF low
<1>4. ASSUME NEW k \in keep, NEW j \in Int, j < k PROVE Place(keep, j) < Place(keep, k)
  <2> DEFINE low == {i \in keep : i <= j}
             high == {i \in keep : i <= k}
  <2>1. k \in Int /\ \A i \in keep : i \in Int
    OBVIOUS
  <2>2. low \in SUBSET high /\ k \in high /\ k \notin low
    <3>1. \A i \in keep : i <= j => i <= k
      BY <1>4, <2>1
    <3>2. k <= k /\ ~(k <= j)
      BY <1>4, <2>1
    <3>3. QED
      BY <3>1, <3>2, Zenon
  <2>3. IsFiniteSet(high)
    BY <1>3, <2>1
  <2> HIDE DEF low, high
  <2>4. Cardinality(low) <= Cardinality(high) /\ Cardinality(low) # Cardinality(high) /\ IsFiniteSet(low)
    BY <2>2, <2>3, FS_Subset
  <2>5. Cardinality(low) \in Nat /\ Cardinality(high) \in Nat
    BY <2>3, <2>4, FS_CardinalityType
  <2>6. Cardinality(low) < Cardinality(high)
    BY <2>4, <2>5
  <2>7. QED
    BY <2>6 DEF Place, low, high
<1>5. ASSUME NEW k \in keep PROVE Place(keep, k) \in 1..Cardinality(keep)
  <2>1. k \in Int /\ k - 1 \in Int /\ k - 1 < k
    OBVIOUS
  <2>2. Place(keep, k - 1) < Place(keep, k)
    BY <1>4, <2>1
  <2>3. Place(keep, k - 1) \in 0..Cardinality(keep) /\ Place(keep, k) \in 0..Cardinality(keep)
    BY <1>3, <2>1
  <2>4. QED
    BY <1>2, <2>2, <2>3
<1>6. QED
  BY <1>2, <1>3, <1>4, <1>5

(* Every place has its position, and Picked puts what is kept there.         *)
Fills(p, s, keep) == \A n \in 1..Cardinality(keep) : \E k \in keep : Place(keep, k) = n /\ p[n] = s[k]
Puts(p, s, keep) == \A k \in keep : Place(keep, k) \in 1..Cardinality(keep) /\ p[Place(keep, k)] = s[k]
LEMMA PickedTrue ==
    ASSUME NEW size \in Nat, NEW keep \in SUBSET (1..size), NEW s
    PROVE  /\ Len(Picked(s, keep)) = Cardinality(keep)
           /\ \A X : (\A k \in keep : s[k] \in X) => Picked(s, keep) \in Seq(X)
           /\ Fills(Picked(s, keep), s, keep)
           /\ Puts(Picked(s, keep), s, keep)
<1> DEFINE size2 == Cardinality(keep)
           place == [k \in keep |-> Place(keep, k)]
<1>1. IsFiniteSet(keep) /\ size2 \in Nat /\ \A k \in keep : Place(keep, k) \in 1..size2
  BY PlaceOrder
<1>2. \A j, k \in keep : Place(keep, j) = Place(keep, k) => j = k
  <2> SUFFICES ASSUME NEW j \in keep, NEW k \in keep, Place(keep, j) = Place(keep, k), j # k PROVE FALSE
    OBVIOUS
  <2>1. j \in Int /\ k \in Int
    OBVIOUS
  <2>2. j < k \/ k < j
    BY <2>1
  <2>3. Place(keep, j) \in Int
    BY <1>1
  <2>4. Place(keep, j) < Place(keep, k) \/ Place(keep, k) < Place(keep, j)
    BY <2>1, <2>2, PlaceOrder
  <2>5. QED
    BY <2>3, <2>4
<1> HIDE DEF size2
<1>3. place \in [keep -> 1..size2] /\ \A j, k \in keep : place[j] = place[k] => j = k
  BY <1>1, <1>2
<1>4. place \in Injection(keep, 1..size2)
  BY <1>3 DEF Injection, IsInjective
<1>5. IsFiniteSet(1..size2) /\ Cardinality(1..size2) = size2
  BY <1>1, FS_Interval
<1>6. place \in Surjection(keep, 1..size2)
  BY <1>4, <1>5, FS_Injection DEF size2
<1>7. \A n \in 1..size2 : \E k \in keep : place[k] = n
  BY <1>6 DEF Surjection
<1>8. \A n \in 1..size2 : \E k \in keep : Place(keep, k) = n
  BY <1>7
<1>9. Picked(s, keep) = [n \in 1..size2 |-> s[CHOOSE k \in keep : Place(keep, k) = n]]
  BY DEF Picked, size2
<1>10. ASSUME NEW n \in 1..size2
       PROVE  \E k \in keep : Place(keep, k) = n /\ Picked(s, keep)[n] = s[k]
  <2> DEFINE c == CHOOSE k \in keep : Place(keep, k) = n
  <2>1. c \in keep /\ Place(keep, c) = n
    BY <1>8
  <2>2. Picked(s, keep)[n] = s[c]
    BY <1>9
  <2>3. QED
    BY <2>1, <2>2
<1>11. ASSUME NEW k \in keep
       PROVE  Place(keep, k) \in 1..size2 /\ Picked(s, keep)[Place(keep, k)] = s[k]
  <2>1. Place(keep, k) \in 1..size2
    BY <1>1
  <2>2. PICK j \in keep : Place(keep, j) = Place(keep, k) /\ Picked(s, keep)[Place(keep, k)] = s[j]
    BY <1>10, <2>1
  <2>3. j = k
    BY <1>2, <2>2
  <2>4. QED
    BY <2>1, <2>2, <2>3
<1>12. ASSUME NEW X, \A k \in keep : s[k] \in X PROVE Picked(s, keep) \in Seq(X)
  <2>1. \A n \in 1..size2 : Picked(s, keep)[n] \in X
    BY <1>10, <1>12
  <2>2. Picked(s, keep) \in [1..size2 -> X]
    BY <1>9, <2>1
  <2>3. QED
    BY <1>1, <2>2
<1>13. Len(Picked(s, keep)) = size2
  <2>1. DOMAIN Picked(s, keep) = 1..size2
    BY <1>9
  <2>2. Picked(s, keep) \in Seq({s[k] : k \in keep})
    BY <1>12
  <2>3. QED
    BY <1>1, <2>1, <2>2
<1>14. QED
  BY <1>10, <1>11, <1>12, <1>13 DEF size2, Fills, Puts

LEMMA PlaceNext ==
    ASSUME NEW size \in Nat, NEW keep \in SUBSET (1..size), NEW k \in Int, NEW j \in Int, j = k + 1
    PROVE  Place(keep, j) = IF j \in keep THEN Place(keep, k) + 1 ELSE Place(keep, k)
<1> DEFINE low == {i \in keep : i <= k}
           high == {i \in keep : i <= j}
<1>1. \A i \in keep : i \in Int
  OBVIOUS
<1>2. \A i \in keep : i <= j <=> (i <= k \/ i = j)
  BY <1>1
<1>3. ~(j <= k)
  OBVIOUS
<1>4. j \notin low
  BY <1>3
<1>5. low \in SUBSET keep /\ IsFiniteSet(keep)
  BY PlaceOrder
<1>6. IsFiniteSet(low)
  BY <1>5, FS_Subset
<1>7. CASE j \in keep
  <2>1. high = low \cup {j}
    BY <1>2, <1>7, Zenon
  <2> HIDE DEF low, high
  <2>2. Cardinality(high) = Cardinality(low) + 1
    BY <1>4, <1>6, <2>1, FS_AddElement
  <2>3. QED
    BY <1>7, <2>2 DEF Place, low, high
<1>8. CASE j \notin keep
  <2>1. high = low
    BY <1>2, <1>8, Zenon
  <2>2. QED
    BY <1>8, <2>1 DEF Place
<1>9. QED
  BY <1>7, <1>8

-----------------------------------------------------------------------------
(* TextStages: lines and the index as the text grows.                        *)

NewlinesBefore(bytes, t) == {i \in 1..(t - 1) : bytes[i] = "n"}

LEMMA LineNat ==
    ASSUME NEW bytes, NEW t \in Nat
    PROVE  LineIn(bytes, t) \in Nat \ {0} /\ IsFiniteSet(NewlinesBefore(bytes, t))
<1> DEFINE lines == NewlinesBefore(bytes, t)
<1>1. lines \in SUBSET (1..(t - 1)) /\ IsFiniteSet(1..(t - 1))
  BY FS_Interval DEF NewlinesBefore
<1> HIDE DEF lines
<1>2. IsFiniteSet(lines) /\ Cardinality(lines) \in Nat
  BY <1>1, FS_Subset, FS_CardinalityType
<1>3. LineIn(bytes, t) = 1 + Cardinality(lines)
  BY DEF LineIn, NewlinesBefore, lines
<1>4. QED
  BY <1>2, <1>3 DEF lines

LEMMA LineNext ==
    ASSUME NEW bytes, NEW t \in Nat \ {0}, NEW u \in Nat, u = t + 1
    PROVE  LineIn(bytes, u) = IF bytes[t] = "n" THEN LineIn(bytes, t) + 1 ELSE LineIn(bytes, t)
<1> DEFINE before == NewlinesBefore(bytes, t)
           now == NewlinesBefore(bytes, u)
<1>1. IsFiniteSet(before) /\ IsFiniteSet(now) /\ Cardinality(before) \in Nat
  BY LineNat, FS_CardinalityType
<1>2. 1..(u - 1) = (1..(t - 1)) \cup {t} /\ t \notin 1..(t - 1)
  BY SMT
<1>3. LineIn(bytes, t) = 1 + Cardinality(before) /\ LineIn(bytes, u) = 1 + Cardinality(now)
  BY DEF LineIn, NewlinesBefore
<1>4. CASE bytes[t] = "n"
  <2>1. now = before \cup {t} /\ t \notin before
    BY <1>2, <1>4, Zenon DEF NewlinesBefore
  <2> HIDE DEF before, now
  <2>2. Cardinality(now) = Cardinality(before) + 1
    BY <1>1, <2>1, FS_AddElement
  <2>3. QED
    BY <1>1, <1>3, <1>4, <2>2
<1>5. CASE bytes[t] # "n"
  <2>1. now = before
    BY <1>2, <1>5, Zenon DEF NewlinesBefore
  <2>2. QED
    BY <1>3, <1>5, <2>1
<1>6. QED
  BY <1>4, <1>5

Prolongs(b, a) == Len(a) <= Len(b) /\ \A i \in 1..Len(a) : b[i] = a[i]
Grows(a, b) == a \in Seq(TextBytes) /\ b \in Seq(TextBytes) /\ Prolongs(b, a)

LEMMA LineSame ==
    ASSUME NEW a, NEW b, Grows(a, b), NEW t \in Nat, t <= Len(a) + 1
    PROVE  LineIn(b, t) = LineIn(a, t)
<1>1. Len(a) \in Nat /\ \A i \in 1..Len(a) : b[i] = a[i]
  BY DEF Grows, Prolongs
<1>2. \A i \in 1..(t - 1) : i \in 1..Len(a)
  BY <1>1, SMT
<1>3. {i \in 1..(t - 1) : b[i] = "n"} = {i \in 1..(t - 1) : a[i] = "n"}
  BY <1>1, <1>2, Zenon
<1>4. QED
  BY <1>3 DEF LineIn

LEMMA IndexGrows ==
    ASSUME NEW a, NEW b, Grows(a, b), NEW idx \in Seq(SegmentRecords), NEW upto \in Nat, upto <= Len(a),
           IndexTrue(idx, a, upto), \A i \in 1..Len(idx) : idx[i][2] <= upto
    PROVE  IndexTrue(idx, b, upto)
<1>1. Len(a) \in Nat /\ \A i \in 1..Len(a) : b[i] = a[i]
  BY DEF Grows, Prolongs
<1>2. Holds(idx, b, upto)
  <2>1. \A t \in 1..upto : b[t] = a[t]
    BY <1>1
  <2>2. QED
    BY <2>1 DEF Holds, IndexTrue
<1>3. OnLines(idx, b)
  <2> SUFFICES ASSUME NEW i \in 1..Len(idx), idx[i][3] = "line",
                      NEW t \in (idx[i][1] + 1)..idx[i][2], b[t] \notin Blank
               PROVE  LineIn(b, t) \in idx[i][5]..idx[i][6]
    BY DEF OnLines
  <2>1. idx[i] \in SegmentRecords
    OBVIOUS
  <2>2. idx[i][1] \in Nat /\ idx[i][2] \in Nat
    BY <2>1 DEF SegmentRecords
  <2>3. idx[i][2] <= upto
    OBVIOUS
  <2>4. t \in 1..Len(a) /\ t \in Nat
    BY <1>1, <2>2, <2>3
  <2>5. a[t] \notin Blank
    BY <1>1, <2>4
  <2>6. LineIn(a, t) \in idx[i][5]..idx[i][6]
    BY <2>5 DEF OnLines, IndexTrue
  <2>7. LineIn(b, t) = LineIn(a, t)
    BY <1>1, <2>4, LineSame
  <2>8. QED
    BY <2>6, <2>7
<1>4. QED
  BY <1>2, <1>3 DEF IndexTrue

LEMMA IndexSkips ==
    ASSUME NEW txt, NEW idx, NEW upto \in Nat, NEW end \in Nat, IndexTrue(idx, txt, upto),
           \A t \in (upto + 1)..end : txt[t] \in Blank
    PROVE  IndexTrue(idx, txt, end)
<1>1. \A t \in 1..end : t \in 1..upto \/ t \in (upto + 1)..end
  OBVIOUS
<1>2. Holds(idx, txt, end)
  BY <1>1 DEF Holds, IndexTrue
<1>3. QED
  BY <1>2 DEF IndexTrue

(* A segment behind the others: what it must be to keep the index true.      *)
Follows(r, txt, upto, end, mark, tag) ==
    /\ upto <= r[1] /\ r[1] <= r[2] /\ r[2] <= end
    /\ mark <= r[5] /\ r[5] <= r[6] /\ r[3] = tag
    /\ \A t \in (upto + 1)..end : txt[t] \notin Blank => r[1] < t /\ t <= r[2]
    /\ tag = "line" => \A t \in (r[1] + 1)..r[2] : txt[t] \notin Blank => LineIn(txt, t) \in r[5]..r[6]

LEMMA IndexAppends ==
    ASSUME NEW txt, NEW idx \in Seq(SegmentRecords), NEW upto \in Nat, NEW end \in Nat, NEW mark \in Nat, NEW tag,
           IndexTrue(idx, txt, upto), Before(idx, upto, mark, tag),
           NEW r \in SegmentRecords, Follows(r, txt, upto, end, mark, tag)
    PROVE  /\ Append(idx, r) \in Seq(SegmentRecords)
           /\ IndexTrue(Append(idx, r), txt, end)
           /\ Before(Append(idx, r), end, r[6], tag)
<1> DEFINE more == Append(idx, r)
           n == Len(idx)
<1>1. n \in Nat /\ more \in Seq(SegmentRecords) /\ Len(more) = n + 1 /\ more[n + 1] = r
  OBVIOUS
<1>2. \A i \in 1..n : more[i] = idx[i]
  OBVIOUS
<1> HIDE DEF more, n
<1>3. ASSUME NEW i \in 1..n
      PROVE  /\ idx[i][1] \in Nat /\ idx[i][2] \in Nat /\ idx[i][5] \in Nat /\ idx[i][6] \in Nat
             /\ idx[i][2] <= upto /\ idx[i][6] <= mark /\ idx[i][3] = tag
  <2>1. idx[i] \in SegmentRecords
    BY DEF n
  <2>2. idx[i][2] <= upto /\ idx[i][6] <= mark /\ idx[i][3] = tag
    BY DEF Before, n
  <2>3. QED
    BY <2>1, <2>2 DEF SegmentRecords
<1>4. r[1] \in Nat /\ r[2] \in Nat /\ r[5] \in Nat /\ r[6] \in Nat
  BY DEF SegmentRecords
<1>5. /\ upto <= r[1] /\ r[1] <= r[2] /\ r[2] <= end
      /\ mark <= r[5] /\ r[5] <= r[6] /\ r[3] = tag
  BY DEF Follows
<1>6. \A i \in 1..(n + 1) : i \in 1..n \/ i = n + 1
  BY <1>1
<1>7. InOrder(more)
  <2>1. ASSUME NEW i \in 1..(n + 1) PROVE more[i][1] <= more[i][2] /\ more[i][5] <= more[i][6]
    <3>1. CASE i \in 1..n
      <4>1. idx[i][1] <= idx[i][2] /\ idx[i][5] <= idx[i][6]
        BY <3>1 DEF IndexTrue, InOrder, n
      <4>2. QED
        BY <1>2, <3>1, <4>1
    <3>2. CASE i = n + 1
      BY <1>1, <1>5, <3>2
    <3>3. QED
      BY <1>6, <3>1, <3>2
  <2>2. ASSUME NEW i \in 1..(n + 1), NEW j \in 1..(n + 1), i < j
        PROVE  more[i][2] <= more[j][1] /\ more[i][6] <= more[j][5] /\ more[i][3] = more[j][3]
    <3>1. i \in 1..n
      BY <1>1, <2>2
    <3>2. CASE j \in 1..n
      <4>1. idx[i][2] <= idx[j][1] /\ idx[i][6] <= idx[j][5] /\ idx[i][3] = idx[j][3]
        BY <2>2, <3>1, <3>2 DEF IndexTrue, InOrder, n
      <4>2. QED
        BY <1>2, <3>1, <3>2, <4>1
    <3>3. CASE j = n + 1
      <4>1. more[i] = idx[i] /\ more[j] = r
        BY <1>1, <1>2, <3>1, <3>3
      <4>2. idx[i][2] <= r[1]
        BY <1>3, <1>4, <1>5, <3>1
      <4>3. idx[i][6] <= r[5]
        BY <1>3, <1>4, <1>5, <3>1, SMTT(40)
      <4>4. QED
        BY <1>3, <1>5, <3>1, <4>1, <4>2, <4>3
    <3>4. QED
      BY <1>6, <3>2, <3>3
  <2>3. QED
    BY <1>1, <2>1, <2>2 DEF InOrder
<1>8. Holds(more, txt, end)
  <2> SUFFICES ASSUME NEW t \in 1..end, txt[t] \notin Blank
               PROVE  \E i \in 1..Len(more) : more[i][1] < t /\ t <= more[i][2]
    BY DEF Holds
  <2>1. CASE t \in 1..upto
    <3>1. PICK i \in 1..n : idx[i][1] < t /\ t <= idx[i][2]
      BY <2>1 DEF Holds, IndexTrue, n
    <3>2. i \in 1..Len(more) /\ more[i] = idx[i]
      BY <1>1, <1>2
    <3>3. QED
      BY <3>1, <3>2
  <2>2. CASE t \in (upto + 1)..end
    <3>1. r[1] < t /\ t <= r[2]
      BY <2>2 DEF Follows
    <3>2. n + 1 \in 1..Len(more)
      BY <1>1
    <3>3. QED
      BY <1>1, <3>1, <3>2
  <2>3. QED
    BY <2>1, <2>2
<1>9. OnLines(more, txt)
  <2> SUFFICES ASSUME NEW i \in 1..(n + 1), more[i][3] = "line",
                      NEW t \in (more[i][1] + 1)..more[i][2], txt[t] \notin Blank
               PROVE  LineIn(txt, t) \in more[i][5]..more[i][6]
    BY <1>1 DEF OnLines
  <2>1. CASE i \in 1..n
    <3>1. more[i] = idx[i]
      BY <1>2, <2>1
    <3>2. LineIn(txt, t) \in idx[i][5]..idx[i][6]
      BY <2>1, <3>1 DEF OnLines, IndexTrue, n
    <3>3. QED
      BY <3>1, <3>2
  <2>2. CASE i = n + 1
    <3>1. more[i] = r
      BY <1>1, <2>2
    <3>2. LineIn(txt, t) \in r[5]..r[6]
      BY <1>5, <3>1 DEF Follows
    <3>3. QED
      BY <3>1, <3>2
  <2>3. QED
    BY <1>6, <2>1, <2>2
<1>10. Before(more, end, r[6], tag)
  <2> SUFFICES ASSUME NEW i \in 1..(n + 1)
               PROVE  more[i][2] <= end /\ more[i][6] <= r[6] /\ more[i][3] = tag
    BY <1>1 DEF Before
  <2>1. CASE i \in 1..n
    <3>1. more[i] = idx[i]
      BY <1>2, <2>1
    <3>2. idx[i][2] <= end
      BY <1>3, <1>4, <1>5, <2>1
    <3>3. idx[i][6] <= r[6]
      BY <1>3, <1>4, <1>5, <2>1
    <3>4. QED
      BY <1>3, <2>1, <3>1, <3>2, <3>3
  <2>2. CASE i = n + 1
    <3>1. more[i] = r /\ r[6] <= r[6]
      BY <1>1, <1>4, <2>2
    <3>2. QED
      BY <1>5, <3>1
  <2>3. QED
    BY <1>6, <2>1, <2>2
<1>11. QED
  BY <1>1, <1>7, <1>8, <1>9, <1>10 DEF IndexTrue, more

-----------------------------------------------------------------------------
(* TextStages: the scanner.                                                  *)

LEMMA DepthBound == ASSUME NEW prefix PROVE Depth(prefix) \in 0..6
<1> DEFINE hashes == Cardinality({i \in DOMAIN prefix : \A j \in 1..i : prefix[j] = "h"})
<1>1. Depth(prefix) = IF doc.media = "markdown" /\ hashes \in 1..6 /\ Len(prefix) > hashes THEN hashes ELSE 0
  BY DEF Depth
<1> HIDE DEF hashes
<1>2. hashes \in 1..6 => hashes \in 0..6
  OBVIOUS
<1>3. QED
  BY <1>1, <1>2

(* What closing a record leaves: the segment of a record with content, and   *)
(* an empty record after it.                                                 *)
RecordClosed(st, end) ==
    [st EXCEPT !.start = end, !.lineStart = st.line, !.prefix = <<>>, !.content = FALSE,
               !.record = IF st.content THEN @ + 1 ELSE @]
RecordOf(st, end) ==
    IF ByMessage THEN <<st.start, end, "message", Depth(st.prefix), st.record, st.record>>
    ELSE <<st.start, end, "line", Depth(st.prefix), st.lineStart, Max({st.lineLast, st.lineStart})>>

LEMMA ClosedIs ==
    ASSUME NEW st, NEW end
    PROVE  /\ CloseRecord(st, end).scan = RecordClosed(st, end)
           /\ CloseRecord(st, end).segment = IF st.content THEN <<RecordOf(st, end)>> ELSE <<>>
<1>1. Encode([start |-> st.start, end |-> end, locator |-> LocatorOf(st), depth |-> Depth(st.prefix)]) = RecordOf(st, end)
  BY DEF Encode, LocatorOf, RecordOf, ByMessage
<1>2. QED
  BY <1>1 DEF CloseRecord, RecordClosed

LEMMA CloseTrue ==
    ASSUME NEW st \in ScanStates, NEW txt \in Seq(TextBytes), NEW idx \in Seq(SegmentRecords),
           OpenRecord(st, txt), IndexTrue(idx, txt, st.start), Before(idx, st.start, ScanMark(st), ScanKind)
    PROVE  LET closed == CloseRecord(st, Len(txt))
               more == idx \o closed.segment
           IN /\ closed.scan \in ScanStates /\ closed.scan.at = st.at /\ closed.scan.atStart = st.atStart
              /\ closed.scan.start = Len(txt)
              /\ OpenRecord(closed.scan, txt)
              /\ more \in Seq(SegmentRecords)
              /\ IndexTrue(more, txt, Len(txt))
              /\ Before(more, Len(txt), ScanMark(closed.scan), ScanKind)
<1> DEFINE end == Len(txt)
           s2 == RecordClosed(st, end)
           r == RecordOf(st, end)
           more == idx \o CloseRecord(st, end).segment
<1>1. end \in Nat
  OBVIOUS
<1> HIDE DEF end
<1>2. /\ st.at \in Nat /\ st.start \in Nat /\ st.lineStart \in Nat /\ st.lineLast \in Nat /\ st.record \in Nat
      /\ st.line \in Nat /\ st.content \in BOOLEAN /\ st.atStart \in BOOLEAN
  BY DEF ScanStates
<1>3. s2 \in ScanStates
  <2>1. (IF st.content THEN st.record + 1 ELSE st.record) \in Nat /\ <<>> \in Seq(TextBytes)
    BY <1>2
  <2>2. \A q \in Nat, p \in Seq(TextBytes) :
            [st EXCEPT !.start = end, !.lineStart = st.line, !.prefix = p, !.content = FALSE, !.record = q] \in ScanStates
    BY <1>1, <1>2 DEF ScanStates
  <2>3. QED
    BY <2>1, <2>2 DEF RecordClosed
<1>4. /\ s2.at = st.at /\ s2.atStart = st.atStart /\ s2.start = end /\ s2.line = st.line /\ s2.lineStart = st.line
      /\ s2.content = FALSE /\ s2.record = IF st.content THEN st.record + 1 ELSE st.record
  BY DEF ScanStates, RecordClosed
<1> HIDE DEF s2
<1>5. /\ st.start <= end /\ st.line = LineIn(txt, end + 1) /\ st.lineStart <= st.line
      /\ st.content => st.lineStart <= st.lineLast /\ st.lineLast <= st.line
      /\ \A t \in (st.start + 1)..end : txt[t] \notin Blank => st.content /\ LineIn(txt, t) \in st.lineStart..st.lineLast
  BY DEF OpenRecord, end
<1>6. OpenRecord(s2, txt)
  <2>1. \A t \in (s2.start + 1)..end : FALSE
    BY <1>1, <1>4
  <2>2. s2.start <= end /\ s2.line = LineIn(txt, end + 1) /\ s2.lineStart <= s2.line /\ ~s2.content
    BY <1>1, <1>2, <1>4, <1>5
  <2>3. QED
    BY <2>1, <2>2 DEF OpenRecord, end
<1>7. more \in Seq(SegmentRecords) /\ IndexTrue(more, txt, end) /\ Before(more, end, ScanMark(s2), ScanKind)
  <2>1. CASE st.content
    <3>1. Max({st.lineLast, st.lineStart}) = st.lineLast
      <4>1. st.lineStart \in Int /\ st.lineLast \in Int /\ st.lineLast >= st.lineStart
        BY <1>2, <1>5, <2>1
      <4>2. QED
        BY <4>1, MaxTwo, Zenon
    <3>2. Depth(st.prefix) \in 0..6
      BY DepthBound
    <3>3. r = IF ByMessage THEN <<st.start, end, "message", Depth(st.prefix), st.record, st.record>>
              ELSE <<st.start, end, "line", Depth(st.prefix), st.lineStart, st.lineLast>>
      BY <3>1 DEF RecordOf
    <3> HIDE DEF r
    <3>4. r \in SegmentRecords
      BY <1>1, <1>2, <3>2, <3>3 DEF SegmentRecords
    <3>5. /\ r[1] = st.start /\ r[2] = end /\ r[3] = ScanKind /\ r[5] = ScanMark(st)
          /\ r[6] = IF ByMessage THEN st.record ELSE st.lineLast
      BY <3>3 DEF ScanKind, ScanMark
    <3>6. ScanMark(st) \in Nat /\ ScanMark(s2) \in Nat
      BY <1>2, <1>4 DEF ScanMark
    <3>7. r[5] <= r[6] /\ r[6] <= ScanMark(s2)
      BY <1>2, <1>4, <1>5, <2>1, <3>5 DEF ScanMark
    <3>8. Follows(r, txt, st.start, end, ScanMark(st), ScanKind)
      <4>1. st.start <= r[1] /\ r[1] <= r[2] /\ r[2] <= end /\ ScanMark(st) <= r[5]
        BY <1>1, <1>2, <1>5, <3>5, <3>6
      <4>2. \A t \in (st.start + 1)..end : r[1] < t /\ t <= r[2]
        BY <1>1, <1>2, <3>5
      <4>3. ScanKind = "line" => \A t \in (r[1] + 1)..r[2] : txt[t] \notin Blank => LineIn(txt, t) \in r[5]..r[6]
        <5>1. ScanKind = "line" => ~ByMessage
          BY DEF ScanKind
        <5>2. ~ByMessage => r[5] = st.lineStart /\ r[6] = st.lineLast
          BY <3>5 DEF ScanMark
        <5>3. QED
          BY <1>5, <3>5, <5>1, <5>2
      <4>4. QED
        BY <3>5, <3>7, <4>1, <4>2, <4>3 DEF Follows
    <3>9. more = Append(idx, r)
      <4>1. CloseRecord(st, end).segment = <<r>>
        BY <2>1, ClosedIs DEF r
      <4>2. QED
        BY <3>4, <4>1
    <3>10. more \in Seq(SegmentRecords) /\ IndexTrue(more, txt, end) /\ Before(more, end, r[6], ScanKind)
      BY <1>1, <1>2, <3>4, <3>6, <3>8, <3>9, IndexAppends
    <3>11. r[6] \in Nat
      BY <3>4 DEF SegmentRecords
    <3>12. Before(more, end, ScanMark(s2), ScanKind)
      <4> HIDE DEF more
      <4> SUFFICES ASSUME NEW i \in 1..Len(more)
                   PROVE  more[i][2] <= end /\ more[i][6] <= ScanMark(s2) /\ more[i][3] = ScanKind
        BY DEF Before
      <4>1. more[i] \in SegmentRecords
        BY <3>10
      <4>2. more[i][6] \in Nat
        BY <4>1 DEF SegmentRecords
      <4>3. more[i][2] <= end /\ more[i][6] <= r[6] /\ more[i][3] = ScanKind
        BY <3>10 DEF Before
      <4>4. more[i][6] <= ScanMark(s2)
        BY <3>6, <3>7, <3>11, <4>2, <4>3
      <4>5. QED
        BY <4>3, <4>4
    <3>13. QED
      BY <3>10, <3>12
  <2>2. CASE ~st.content
    <3>1. more = idx
      <4>1. CloseRecord(st, end).segment = <<>>
        BY <2>2, ClosedIs
      <4>2. QED
        BY <4>1
    <3>2. \A t \in (st.start + 1)..end : txt[t] \in Blank
      BY <1>5, <2>2
    <3>3. IndexTrue(idx, txt, end)
      BY <1>1, <1>2, <3>2, IndexSkips
    <3>4. ScanMark(st) \in Nat /\ ScanMark(s2) \in Nat /\ ScanMark(st) <= ScanMark(s2)
      BY <1>2, <1>4, <1>5, <2>2 DEF ScanMark
    <3>5. Before(idx, end, ScanMark(s2), ScanKind)
      <4> SUFFICES ASSUME NEW i \in 1..Len(idx)
                   PROVE  idx[i][2] <= end /\ idx[i][6] <= ScanMark(s2) /\ idx[i][3] = ScanKind
        BY DEF Before
      <4>1. idx[i] \in SegmentRecords
        OBVIOUS
      <4>2. idx[i][6] \in Nat /\ idx[i][2] \in Nat
        BY <4>1 DEF SegmentRecords
      <4>3. idx[i][2] <= st.start /\ idx[i][6] <= ScanMark(st) /\ idx[i][3] = ScanKind
        BY DEF Before
      <4>4. idx[i][6] <= ScanMark(s2)
        BY <3>4, <4>2, <4>3
      <4>5. idx[i][2] <= end
        BY <1>1, <1>2, <1>5, <4>2, <4>3
      <4>6. QED
        BY <4>3, <4>4, <4>5
    <3>6. QED
      BY <3>1, <3>3, <3>5
  <2>3. QED
    BY <2>1, <2>2
<1>8. QED
  BY <1>3, <1>4, <1>6, <1>7, ClosedIs DEF end, s2

LEMMA KeptType == ASSUME doc.bytes \in Seq(TextBytes) PROVE Kept \in SUBSET (1..Len(doc.bytes)) /\ Len(doc.bytes) \in Nat
<1>1. DOMAIN doc.bytes = 1..Len(doc.bytes) /\ Len(doc.bytes) \in Nat
  OBVIOUS
<1>2. QED
  BY <1>1, Zenon DEF Kept

LEMMA KeptDrops ==
    ASSUME doc.bytes \in Seq(TextBytes), NEW txt, NEW at \in Nat, NEW next \in Nat, next = at + 1,
           KeptSoFar(txt, at), next \notin Kept
    PROVE  KeptSoFar(txt, next)
<1>1. Kept \in SUBSET (1..Len(doc.bytes)) /\ Len(doc.bytes) \in Nat
  BY KeptType
<1>2. Place(Kept, next) = Place(Kept, at)
  <2>1. at \in Int /\ next \in Int
    OBVIOUS
  <2>2. QED
    BY <1>1, <2>1, PlaceNext, Zenon
<1>3. \A i \in Kept : i \in Nat /\ i # next
  BY <1>1
<1>4. \A i \in Kept : i <= next => i <= at
  BY <1>3
<1>5. QED
  BY <1>2, <1>4 DEF KeptSoFar

LEMMA KeptAdds ==
    ASSUME doc.bytes \in Seq(TextBytes), NEW txt \in Seq(TextBytes), NEW at \in Nat, NEW next \in Nat, next = at + 1,
           KeptSoFar(txt, at), next \in Kept
    PROVE  KeptSoFar(Append(txt, doc.bytes[next]), next)
<1> DEFINE c == doc.bytes[next]
           out == Append(txt, c)
<1>1. Kept \in SUBSET (1..Len(doc.bytes)) /\ Len(doc.bytes) \in Nat
  BY KeptType
<1>2. next \in 1..Len(doc.bytes)
  BY <1>1
<1>3. c \in TextBytes
  BY <1>2
<1>4. Place(Kept, next) = Place(Kept, at) + 1
  <2>1. at \in Int /\ next \in Int
    OBVIOUS
  <2>2. QED
    BY <1>1, <2>1, PlaceNext, Zenon
<1>5. Len(txt) = Place(Kept, at) /\ \A i \in Kept : i <= at => txt[Place(Kept, i)] = doc.bytes[i]
  BY DEF KeptSoFar
<1> HIDE DEF c
<1>6. Len(txt) \in Nat /\ Len(out) = Len(txt) + 1 /\ out[Len(txt) + 1] = c
  BY <1>3
<1>7. \A n \in 1..Len(txt) : out[n] = txt[n]
  BY <1>3
<1> HIDE DEF out
<1>8. Len(out) = Place(Kept, next)
  BY <1>4, <1>5, <1>6
<1>9. ASSUME NEW i \in Kept, i <= next PROVE out[Place(Kept, i)] = doc.bytes[i]
  <2>1. i \in Nat
    BY <1>1
  <2>2. CASE i = next
    BY <1>4, <1>5, <1>6, <2>2 DEF c
  <2>3. CASE i # next
    <3>1. i <= at /\ i < next /\ i \in Int
      BY <1>9, <2>1, <2>3
    <3>2. Place(Kept, i) < Place(Kept, next)
      BY <1>1, <3>1, PlaceOrder, Zenon
    <3>3. Place(Kept, i) \in 1..Cardinality(Kept)
      BY <1>1, PlaceOrder
    <3>4. Place(Kept, i) \in 1..Len(txt)
      BY <1>4, <1>5, <1>6, <3>2, <3>3
    <3>5. QED
      BY <1>5, <1>7, <3>1, <3>4
  <2>4. QED
    BY <2>2, <2>3
<1>10. QED
  BY <1>8, <1>9 DEF KeptSoFar, out, c

LEMMA MarkIs ==
    ASSUME NEW at \in Nat, NEW next \in Nat, next = at + 1, NEW first,
           first <=> (\A i \in 1..at : doc.bytes[i] = "r")
    PROVE  IsMark(next) <=> doc.bytes[next] = "b" /\ first
<1>1. 1..(next - 1) = 1..at
  OBVIOUS
<1>2. QED
  BY <1>1, Zenon DEF IsMark

LEMMA AppendIs ==
    ASSUME NEW S, NEW seq \in Seq(S), NEW c \in S
    PROVE  /\ Append(seq, c) \in Seq(S) /\ Len(seq) \in Nat /\ Len(Append(seq, c)) = Len(seq) + 1
           /\ Append(seq, c)[Len(seq) + 1] = c
           /\ Prolongs(Append(seq, c), seq)
  BY DEF Prolongs

LEMMA AppendGrows ==
    ASSUME NEW txt \in Seq(TextBytes), NEW c \in TextBytes
    PROVE  /\ Grows(txt, Append(txt, c)) /\ Append(txt, c) \in Seq(TextBytes)
           /\ Len(Append(txt, c)) = Len(txt) + 1 /\ Append(txt, c)[Len(txt) + 1] = c
  BY AppendIs, Zenon DEF Grows

(* A byte more: what it does to the open record and the index.               *)
Takes(st, c, s2) ==
    /\ s2.start = st.start /\ s2.record = st.record
    /\ s2.line = IF c = "n" THEN st.line + 1 ELSE st.line
    /\ IF c \in Blank THEN s2.lineStart = st.lineStart /\ s2.lineLast = st.lineLast /\ s2.content = st.content
       ELSE s2.lineStart = (IF st.content THEN st.lineStart ELSE st.line) /\ s2.lineLast = st.line /\ s2.content = TRUE

LEMMA ByteTaken ==
    ASSUME NEW st \in ScanStates, NEW s2 \in ScanStates, NEW txt \in Seq(TextBytes), NEW idx \in Seq(SegmentRecords),
           NEW c \in TextBytes, Takes(st, c, s2),
           OpenRecord(st, txt), IndexTrue(idx, txt, st.start), Before(idx, st.start, ScanMark(st), ScanKind)
    PROVE  /\ OpenRecord(s2, Append(txt, c))
           /\ IndexTrue(idx, Append(txt, c), s2.start)
           /\ Before(idx, s2.start, ScanMark(s2), ScanKind)
<1> DEFINE out == Append(txt, c)
           n == Len(txt)
<1>1. Grows(txt, out) /\ out \in Seq(TextBytes) /\ n \in Nat /\ Len(out) = n + 1 /\ out[n + 1] = c
  BY AppendGrows
<1>2. \A i \in 1..n : out[i] = txt[i]
  BY <1>1 DEF Grows, Prolongs
<1> HIDE DEF out
<1>3. /\ st.start \in Nat /\ st.lineStart \in Nat /\ st.lineLast \in Nat /\ st.record \in Nat
      /\ st.line \in Nat /\ st.content \in BOOLEAN
  BY DEF ScanStates
<1>4. /\ s2.start \in Nat /\ s2.lineStart \in Nat /\ s2.lineLast \in Nat /\ s2.record \in Nat
      /\ s2.line \in Nat /\ s2.content \in BOOLEAN
  BY DEF ScanStates
<1>5. /\ st.start <= n /\ st.line = LineIn(txt, n + 1) /\ st.lineStart <= st.line
      /\ st.content => st.lineStart <= st.lineLast /\ st.lineLast <= st.line
  BY DEF OpenRecord
<1>6. \A t \in (st.start + 1)..n : txt[t] \notin Blank => st.content /\ LineIn(txt, t) \in st.lineStart..st.lineLast
  BY DEF OpenRecord
<1> HIDE DEF n
<1>7. LineIn(out, n + 1) = st.line
  BY <1>1, <1>5, LineSame DEF n
<1>8. LineIn(out, n + 2) = s2.line
  <2>1. n + 1 \in Nat \ {0} /\ n + 2 \in Nat /\ n + 2 = (n + 1) + 1
    BY <1>1
  <2>2. LineIn(out, n + 2) = IF out[n + 1] = "n" THEN LineIn(out, n + 1) + 1 ELSE LineIn(out, n + 1)
    BY <2>1, LineNext
  <2>3. QED
    BY <1>1, <1>7, <2>2 DEF Takes
<1>9. s2.start = st.start /\ s2.record = st.record /\ st.line <= s2.line
  BY <1>3 DEF Takes
<1>10. /\ st.lineStart <= s2.lineStart /\ s2.lineStart <= s2.line
       /\ s2.content => s2.lineStart <= s2.lineLast /\ s2.lineLast <= s2.line
       /\ st.content => s2.content /\ s2.lineStart = st.lineStart /\ st.lineLast <= s2.lineLast
  <2>1. CASE c \in Blank
    <3>1. s2.lineStart = st.lineStart /\ s2.lineLast = st.lineLast /\ s2.content = st.content
      BY <2>1 DEF Takes
    <3>2. QED
      BY <1>3, <1>4, <1>5, <1>9, <3>1
  <2>2. CASE c \notin Blank
    <3>1. s2.lineStart = (IF st.content THEN st.lineStart ELSE st.line) /\ s2.lineLast = st.line /\ s2.content = TRUE
      BY <2>2 DEF Takes
    <3>2. QED
      BY <1>3, <1>4, <1>5, <1>9, <3>1
  <2>3. QED
    BY <2>1, <2>2
<1>11. OpenRecord(s2, out)
  <2>1. s2.start <= n + 1
    BY <1>1, <1>3, <1>5, <1>9
  <2>2. ASSUME NEW t \in (s2.start + 1)..(n + 1), out[t] \notin Blank
        PROVE  s2.content /\ LineIn(out, t) \in s2.lineStart..s2.lineLast
    <3>1. CASE t = n + 1
      <4>1. c \notin Blank
        BY <1>1, <2>2, <3>1
      <4>2. s2.lineStart = (IF st.content THEN st.lineStart ELSE st.line) /\ s2.lineLast = st.line /\ s2.content = TRUE
        BY <4>1 DEF Takes
      <4>3. st.line \in s2.lineStart..s2.lineLast
        BY <1>3, <1>4, <1>5, <4>2
      <4>4. QED
        BY <1>7, <3>1, <4>2, <4>3
    <3>2. CASE t # n + 1
      <4>1. t \in (st.start + 1)..n /\ t \in 1..n /\ t \in Nat /\ t <= n + 1
        BY <1>1, <1>3, <1>9, <3>2
      <4>2. txt[t] \notin Blank
        BY <1>2, <2>2, <4>1
      <4>3. st.content /\ LineIn(txt, t) \in st.lineStart..st.lineLast
        BY <1>6, <4>1, <4>2
      <4>4. LineIn(out, t) = LineIn(txt, t)
        BY <1>1, <4>1, LineSame DEF n
      <4>5. \A l \in st.lineStart..st.lineLast : l \in s2.lineStart..s2.lineLast
        BY <1>3, <1>4, <1>10, <4>3
      <4>6. QED
        BY <1>10, <4>3, <4>4, <4>5
    <3>3. QED
      BY <3>1, <3>2
  <2>3. LineIn(out, (n + 1) + 1) = s2.line
    BY <1>1, <1>8
  <2>4. QED
    BY <1>1, <1>10, <2>1, <2>2, <2>3 DEF OpenRecord
<1>12. IndexTrue(idx, out, s2.start)
  <2>1. \A i \in 1..Len(idx) : idx[i][2] <= st.start
    BY DEF Before
  <2>2. QED
    BY <1>1, <1>3, <1>5, <1>9, <2>1, IndexGrows DEF n
<1>13. Before(idx, s2.start, ScanMark(s2), ScanKind)
  <2>1. ScanMark(st) \in Nat /\ ScanMark(s2) \in Nat /\ ScanMark(st) <= ScanMark(s2)
    BY <1>3, <1>4, <1>9, <1>10 DEF ScanMark
  <2> SUFFICES ASSUME NEW i \in 1..Len(idx)
               PROVE  idx[i][2] <= s2.start /\ idx[i][6] <= ScanMark(s2) /\ idx[i][3] = ScanKind
    BY DEF Before
  <2>2. idx[i] \in SegmentRecords
    OBVIOUS
  <2>3. idx[i][6] \in Nat
    BY <2>2 DEF SegmentRecords
  <2>4. idx[i][2] <= st.start /\ idx[i][6] <= ScanMark(st) /\ idx[i][3] = ScanKind
    BY DEF Before
  <2>5. idx[i][6] <= ScanMark(s2)
    BY <2>1, <2>3, <2>4
  <2>6. QED
    BY <1>9, <2>4, <2>5
<1>14. QED
  BY <1>11, <1>12, <1>13 DEF out

LEMMA ScanByte ==
    ASSUME doc.bytes \in Seq(TextBytes), NEW st \in ScanStates, NEW s2 \in ScanStates, NEW txt \in Seq(TextBytes),
           NEW idx \in Seq(SegmentRecords), ScanTrue(st, txt, idx),
           NEW next \in Nat, next = st.at + 1, next \in Kept, NEW c, c = doc.bytes[next],
           Takes(st, c, s2), s2.at = next, s2.atStart = FALSE
    PROVE  ScanTrue(s2, Append(txt, c), idx) /\ Append(txt, c) \in Seq(TextBytes)
<1>1. next \in 1..Len(doc.bytes) /\ Len(doc.bytes) \in Nat
  BY KeptType
<1>2. c \in TextBytes
  BY <1>1
<1>3. st.at \in Nat
  BY DEF ScanStates
<1>4. KeptSoFar(Append(txt, c), next)
  <2>1. KeptSoFar(txt, st.at)
    BY DEF ScanTrue
  <2>2. QED
    BY <1>3, <2>1, KeptAdds
<1>5. /\ OpenRecord(s2, Append(txt, c)) /\ IndexTrue(idx, Append(txt, c), s2.start)
      /\ Before(idx, s2.start, ScanMark(s2), ScanKind)
  BY <1>2, ByteTaken DEF ScanTrue
<1>6. Append(txt, c) \in Seq(TextBytes)
  BY <1>2, AppendGrows
<1>7. ~(\A i \in 1..next : doc.bytes[i] = "r")
  <2>1. doc.bytes[next] # "r" /\ next \in 1..next
    BY <1>1 DEF Kept
  <2>2. QED
    BY <2>1
<1>8. s2.at <= Len(doc.bytes)
  BY <1>1
<1>9. QED
  BY <1>4, <1>5, <1>6, <1>7, <1>8 DEF ScanTrue

LEMMA ScanClose ==
    ASSUME NEW st \in ScanStates, NEW txt \in Seq(TextBytes), NEW idx \in Seq(SegmentRecords), ScanTrue(st, txt, idx)
    PROVE  LET closed == CloseRecord(st, Len(txt))
           IN /\ closed.scan \in ScanStates /\ closed.scan.at = st.at /\ closed.scan.start = Len(txt)
              /\ idx \o closed.segment \in Seq(SegmentRecords)
              /\ ScanTrue(closed.scan, txt, idx \o closed.segment)
<1> DEFINE closed == CloseRecord(st, Len(txt))
           more == idx \o closed.segment
<1>1. /\ closed.scan \in ScanStates /\ closed.scan.at = st.at /\ closed.scan.atStart = st.atStart
      /\ closed.scan.start = Len(txt)
      /\ OpenRecord(closed.scan, txt)
      /\ more \in Seq(SegmentRecords)
      /\ IndexTrue(more, txt, Len(txt))
      /\ Before(more, Len(txt), ScanMark(closed.scan), ScanKind)
  BY CloseTrue DEF ScanTrue
<1> HIDE DEF closed, more
<1>2. ScanTrue(closed.scan, txt, more)
  BY <1>1 DEF ScanTrue
<1>3. QED
  BY <1>1, <1>2 DEF closed, more

LEMMA ScanDrop ==
    ASSUME doc.bytes \in Seq(TextBytes), NEW st \in ScanStates, NEW txt \in Seq(TextBytes), NEW idx \in Seq(SegmentRecords),
           ScanTrue(st, txt, idx), NEW next \in Nat, next = st.at + 1, next <= Len(doc.bytes), next \notin Kept,
           NEW first \in BOOLEAN, first <=> (st.atStart /\ doc.bytes[next] = "r")
    PROVE  /\ [st EXCEPT !.at = next, !.atStart = first] \in ScanStates
           /\ ScanTrue([st EXCEPT !.at = next, !.atStart = first], txt, idx)
<1> DEFINE s2 == [st EXCEPT !.at = next, !.atStart = first]
<1>1. s2 \in ScanStates
  BY DEF ScanStates
<1>2. /\ s2.at = next /\ s2.atStart = first /\ s2.start = st.start /\ s2.line = st.line /\ s2.content = st.content
      /\ s2.lineStart = st.lineStart /\ s2.lineLast = st.lineLast /\ s2.record = st.record
  BY DEF ScanStates
<1> HIDE DEF s2
<1>3. st.at \in Nat /\ Len(doc.bytes) \in Nat
  BY DEF ScanStates
<1>4. KeptSoFar(txt, next)
  <2>1. KeptSoFar(txt, st.at)
    BY DEF ScanTrue
  <2>2. QED
    BY <1>3, <2>1, KeptDrops
<1>5. first <=> (\A i \in 1..next : doc.bytes[i] = "r")
  <2>1. st.atStart <=> (\A i \in 1..st.at : doc.bytes[i] = "r")
    BY DEF ScanTrue
  <2>2. 1..next = (1..st.at) \cup {next}
    BY <1>3
  <2>3. QED
    BY <2>1, <2>2, Zenon
<1>6. OpenRecord(s2, txt) /\ IndexTrue(idx, txt, s2.start) /\ Before(idx, s2.start, ScanMark(s2), ScanKind)
  <2>1. OpenRecord(st, txt) /\ IndexTrue(idx, txt, st.start) /\ Before(idx, st.start, ScanMark(st), ScanKind)
    BY DEF ScanTrue
  <2>2. ScanMark(s2) = ScanMark(st)
    BY <1>2 DEF ScanMark
  <2>3. OpenRecord(s2, txt)
    BY <1>2, <2>1 DEF OpenRecord
  <2>4. QED
    BY <1>2, <2>1, <2>2, <2>3
<1>7. s2.at <= Len(doc.bytes) /\ KeptSoFar(txt, s2.at) /\ (s2.atStart <=> (\A i \in 1..s2.at : doc.bytes[i] = "r"))
  BY <1>2, <1>4, <1>5
<1>8. ScanTrue(s2, txt, idx)
  BY <1>6, <1>7 DEF ScanTrue
<1>9. QED
  BY <1>1, <1>8 DEF s2

(* What a kept byte does to the scanner.                                     *)
LEMMA NoticedTakes ==
    ASSUME NEW st \in ScanStates, NEW c \in TextBytes, NEW s2,
           \/ c = "n" /\ s2 = [Noticed(st, c) EXCEPT !.line = @ + 1, !.afterNewline = TRUE]
           \/ c # "n" /\ s2 = [Noticed(st, c) EXCEPT !.afterNewline = FALSE]
    PROVE  s2 \in ScanStates /\ Takes(st, c, s2) /\ s2.at = st.at + 1 /\ s2.atStart = FALSE
<1> DEFINE q == IF c = "q" /\ doc.media = "csv" THEN ~st.quoted ELSE st.quoted
           base == [st EXCEPT !.at = st.at + 1, !.atStart = FALSE, !.quoted = q]
           ls == IF st.content THEN st.lineStart ELSE st.line
           p == IF Len(st.prefix) < 8 THEN Append(st.prefix, c) ELSE st.prefix
           word == [base EXCEPT !.lineStart = ls, !.content = TRUE, !.lineLast = st.line, !.prefix = p]
           noted == IF c \in Blank THEN base ELSE word
<1>1. /\ st.at \in Nat /\ st.start \in Nat /\ st.lineStart \in Nat /\ st.lineLast \in Nat /\ st.record \in Nat
      /\ st.line \in Nat /\ st.content \in BOOLEAN /\ st.quoted \in BOOLEAN /\ st.prefix \in Seq(TextBytes)
  BY DEF ScanStates
<1>2. q \in BOOLEAN /\ ls \in Nat
  BY <1>1
<1>3. p \in Seq(TextBytes)
  BY <1>1, AppendGrows
<1>4. /\ base.lineStart = st.lineStart /\ base.prefix = st.prefix
      /\ base.lineLast = st.lineLast /\ base.content = st.content
  BY DEF ScanStates
<1>5. Noticed(st, c) = noted
  BY <1>4 DEF Noticed, ScanStates
<1> HIDE DEF q, ls, p
<1>6. base \in ScanStates
  <2>1. \A a \in Nat, b \in BOOLEAN : [st EXCEPT !.at = a, !.atStart = FALSE, !.quoted = b] \in ScanStates
    BY DEF ScanStates
  <2>2. st.at + 1 \in Nat
    BY <1>1
  <2>3. QED
    BY <1>2, <2>1, <2>2
<1>7. base.at = st.at + 1 /\ base.atStart = FALSE /\ base.start = st.start /\ base.record = st.record /\ base.line = st.line
  BY DEF ScanStates
<1> HIDE DEF base
<1>8. word \in ScanStates
  BY <1>1, <1>2, <1>3, <1>6 DEF ScanStates
<1>9. /\ word.at = base.at /\ word.atStart = base.atStart /\ word.start = base.start /\ word.record = base.record
      /\ word.line = base.line /\ word.lineStart = ls /\ word.lineLast = st.line /\ word.content = TRUE
  BY <1>6 DEF ScanStates
<1> HIDE DEF word
<1>10. /\ noted \in ScanStates /\ noted.at = st.at + 1 /\ noted.atStart = FALSE /\ noted.start = st.start
       /\ noted.record = st.record /\ noted.line = st.line
       /\ IF c \in Blank THEN noted.lineStart = st.lineStart /\ noted.lineLast = st.lineLast /\ noted.content = st.content
          ELSE noted.lineStart = ls /\ noted.lineLast = st.line /\ noted.content = TRUE
  BY <1>4, <1>6, <1>7, <1>8, <1>9
<1> HIDE DEF noted
<1>11. CASE c = "n"
  <2>1. s2 = [noted EXCEPT !.line = noted.line + 1, !.afterNewline = TRUE]
    BY <1>5, <1>11
  <2>2. s2 \in ScanStates
    <3>1. \A a \in Nat : [noted EXCEPT !.line = a, !.afterNewline = TRUE] \in ScanStates
      BY <1>10 DEF ScanStates
    <3>2. noted.line + 1 \in Nat
      BY <1>1, <1>10
    <3>3. QED
      BY <2>1, <3>1, <3>2
  <2>3. /\ s2.at = noted.at /\ s2.atStart = noted.atStart /\ s2.start = noted.start /\ s2.record = noted.record
        /\ s2.line = noted.line + 1 /\ s2.lineStart = noted.lineStart /\ s2.lineLast = noted.lineLast
        /\ s2.content = noted.content
    BY <1>10, <2>1 DEF ScanStates
  <2>4. QED
    BY <1>10, <1>11, <2>2, <2>3 DEF Takes, ls
<1>12. CASE c # "n"
  <2>1. s2 = [noted EXCEPT !.afterNewline = FALSE]
    BY <1>5, <1>12
  <2>2. s2 \in ScanStates
    BY <1>10, <2>1 DEF ScanStates
  <2>3. /\ s2.at = noted.at /\ s2.atStart = noted.atStart /\ s2.start = noted.start /\ s2.record = noted.record
        /\ s2.line = noted.line /\ s2.lineStart = noted.lineStart /\ s2.lineLast = noted.lineLast
        /\ s2.content = noted.content
    BY <1>10, <2>1 DEF ScanStates
  <2>4. QED
    BY <1>10, <1>12, <2>2, <2>3 DEF Takes, ls
<1>13. QED
  BY <1>11, <1>12

-----------------------------------------------------------------------------
(* TextStages: the steps of NORMALIZE.                                       *)

LEMMA DocBytes == ASSUME TextTyped PROVE doc.media # "captions" => doc.bytes \in Seq(TextBytes)
  BY DocumentsTyped DEF TextTyped

LEMMA DocBlocks ==
    ASSUME TextTyped
    PROVE  doc.media = "captions" => doc.blocks \in Seq([start : Nat, end : Nat, text : Seq(TextBytes)])
  BY DocumentsTyped DEF TextTyped

(* A step of the scanner, seen from its result.                              *)
LEMMA ScanMoves ==
    ASSUME TextInv, tpc = "scan", tpc' = "scan", doc' = doc, UNCHANGED <<read, window, facts>>,
           scan' \in ScanStates, text' \in Seq(TextBytes), index' \in Seq(SegmentRecords), ScanTrue(scan', text', index')
    PROVE  TextInv'
<1>1. /\ TextTyped /\ read = 0 /\ window = EmptyWindow /\ facts = <<>>
      /\ doc.media # "captions"
  BY DEF TextInv
<1>2. TextTyped'
  BY <1>1 DEF TextTyped
<1>3. Kept' = Kept /\ ByMessage' = ByMessage
  BY DEF Kept, IsMark, ByMessage
<1>4. ScanKind' = ScanKind /\ ScanMark(scan)' = ScanMark(scan')
  BY <1>3 DEF ScanKind, ScanMark
<1>5. KeptSoFar(text, scan.at)' = KeptSoFar(text', scan'.at)
  BY <1>3 DEF KeptSoFar
<1>6. ScanTrue(scan, text, index)'
  BY <1>4, <1>5 DEF ScanTrue
<1>7. (read = 0 /\ window = EmptyWindow /\ facts = <<>> /\ doc.media # "captions")'
  BY <1>1 DEF EmptyWindow
<1>8. QED
  BY <1>2, <1>6, <1>7 DEF TextInv

LEMMA AbsorbStep == ASSUME TextInv, Absorb PROVE TextInv'
<1> DEFINE next == scan.at + 1
           byte == doc.bytes[next]
           st == Noticed(scan, byte)
           out == Append(text, byte)
           ends == IF doc.media = "csv" THEN ~st.quoted ELSE scan.afterNewline
           lined == [st EXCEPT !.line = @ + 1, !.afterNewline = TRUE]
           closed == IF ends THEN CloseRecord(lined, Len(out)) ELSE [segment |-> <<>>, scan |-> lined]
<1>1. tpc = "scan" /\ scan.at < Len(doc.bytes) /\ doc' = doc /\ UNCHANGED <<read, window, facts>>
  BY Zenon DEF Absorb
<1>2. TextTyped /\ doc.media # "captions" /\ ScanTrue(scan, text, index)
  BY <1>1 DEF TextInv
<1>3. doc.bytes \in Seq(TextBytes)
  BY <1>2, DocBytes
<1>4. scan \in ScanStates /\ text \in Seq(TextBytes) /\ index \in Seq(SegmentRecords)
  BY <1>2 DEF TextTyped
<1>5. scan.at \in Nat /\ scan.atStart \in BOOLEAN
  BY <1>4 DEF ScanStates
<1>6. next \in Nat /\ next \in 1..Len(doc.bytes) /\ next <= Len(doc.bytes) /\ next = scan.at + 1
  BY <1>1, <1>3, <1>5
<1>7. byte \in TextBytes
  BY <1>3, <1>6
<1>8. next \in Kept <=> byte # "r" /\ ~(byte = "b" /\ scan.atStart)
  <2>1. scan.atStart <=> (\A i \in 1..scan.at : doc.bytes[i] = "r")
    BY <1>2 DEF ScanTrue
  <2>2. IsMark(next) <=> byte = "b" /\ scan.atStart
    BY <1>5, <1>6, <2>1, MarkIs, SMTT(60)
  <2>3. next \in DOMAIN doc.bytes
    BY <1>3, <1>6
  <2>4. QED
    BY <2>2, <2>3 DEF Kept
<1>9. \/ /\ byte = "r" \/ (byte = "b" /\ scan.atStart)
         /\ scan' = [scan EXCEPT !.at = @ + 1, !.atStart = @ /\ byte = "r"]
         /\ UNCHANGED <<tpc, text, index>>
      \/ /\ byte = "n"
         /\ text' = out
         /\ index' = index \o closed.segment
         /\ scan' = closed.scan
         /\ tpc' = IF (closed.segment # <<>> /\ WriterFull) \/ RecordTooLong(closed.scan, Len(out)) THEN "failed" ELSE "scan"
      \/ /\ byte \notin {"r", "n"} /\ ~(byte = "b" /\ scan.atStart)
         /\ text' = out
         /\ scan' = [st EXCEPT !.afterNewline = FALSE]
         /\ UNCHANGED <<tpc, index>>
  BY Zenon DEF Absorb
<1> HIDE DEF next, byte
<1>10. CASE /\ byte = "r" \/ (byte = "b" /\ scan.atStart)
            /\ scan' = [scan EXCEPT !.at = @ + 1, !.atStart = @ /\ byte = "r"]
            /\ UNCHANGED <<tpc, text, index>>
  <2> DEFINE first == scan.atStart /\ byte = "r"
  <2>1. next \notin Kept
    BY <1>8, <1>10
  <2>2. first \in BOOLEAN /\ (first <=> (scan.atStart /\ doc.bytes[next] = "r"))
    BY DEF byte
  <2>3. scan' = [scan EXCEPT !.at = next, !.atStart = first]
    BY <1>10 DEF next
  <2> HIDE DEF first
  <2>4. scan' \in ScanStates /\ ScanTrue(scan', text, index)
    BY <1>2, <1>3, <1>4, <1>6, <2>1, <2>2, <2>3, ScanDrop
  <2>5. QED
    BY <1>1, <1>4, <1>10, <2>4, ScanMoves
<1>11. CASE /\ byte = "n"
            /\ text' = out
            /\ index' = index \o closed.segment
            /\ scan' = closed.scan
            /\ tpc' = IF (closed.segment # <<>> /\ WriterFull) \/ RecordTooLong(closed.scan, Len(out)) THEN "failed" ELSE "scan"
  <2>1. next \in Kept
    BY <1>8, <1>11
  <2>2. lined \in ScanStates /\ Takes(scan, byte, lined) /\ lined.at = scan.at + 1 /\ lined.atStart = FALSE
    BY <1>4, <1>7, <1>11, NoticedTakes
  <2> HIDE DEF lined
  <2>3. ScanTrue(lined, out, index) /\ out \in Seq(TextBytes)
    BY <1>2, <1>3, <1>4, <1>6, <2>1, <2>2, ScanByte DEF byte
  <2> HIDE DEF out, ends
  <2>4. closed.scan \in ScanStates /\ index \o closed.segment \in Seq(SegmentRecords)
        /\ ScanTrue(closed.scan, out, index \o closed.segment)
    <3>1. CASE ends
      BY <1>4, <2>2, <2>3, <3>1, ScanClose
    <3>2. CASE ~ends
      <4>1. closed.scan = lined /\ closed.segment = <<>>
        BY <3>2
      <4>2. index \o <<>> = index
        BY <1>4
      <4>3. QED
        BY <1>4, <2>2, <2>3, <4>1, <4>2
    <3>3. QED
      BY <3>1, <3>2
  <2> HIDE DEF closed
  <2>5. CASE tpc' = "scan"
    BY <1>1, <1>11, <2>3, <2>4, <2>5, ScanMoves
  <2>6. CASE tpc' = "failed"
    BY <2>6 DEF TextInv
  <2>7. QED
    BY <1>11, <2>5, <2>6
<1>12. CASE /\ byte \notin {"r", "n"} /\ ~(byte = "b" /\ scan.atStart)
            /\ text' = out
            /\ scan' = [st EXCEPT !.afterNewline = FALSE]
            /\ UNCHANGED <<tpc, index>>
  <2>1. next \in Kept
    BY <1>8, <1>12
  <2>2. scan' \in ScanStates /\ Takes(scan, byte, scan') /\ scan'.at = scan.at + 1 /\ scan'.atStart = FALSE
    BY <1>4, <1>7, <1>12, NoticedTakes
  <2>3. ScanTrue(scan', out, index) /\ out \in Seq(TextBytes)
    BY <1>2, <1>3, <1>4, <1>6, <2>1, <2>2, ScanByte DEF byte
  <2>4. QED
    BY <1>1, <1>4, <1>12, <2>2, <2>3, ScanMoves
<1>13. QED
  BY <1>9, <1>10, <1>11, <1>12, SMTT(60)

LEMMA RawIs ==
    ASSUME doc.bytes \in Seq(TextBytes), NEW txt \in Seq(TextBytes), KeptSoFar(txt, Len(doc.bytes))
    PROVE  txt = RawText
<1> DEFINE size == Len(doc.bytes)
           n == Cardinality(Kept)
<1>1. Kept \in SUBSET (1..size) /\ size \in Nat
  BY KeptType
<1>2. \A k \in Kept : k \in Int /\ k <= size
  BY <1>1
<1>3. {j \in Kept : j <= size} = Kept
  BY <1>2, Zenon
<1>4. Len(txt) = n
  BY <1>3 DEF KeptSoFar, Place
<1>5. \A k \in Kept : txt[Place(Kept, k)] = doc.bytes[k]
  BY <1>2 DEF KeptSoFar
<1>6. \A k \in Kept : doc.bytes[k] \in TextBytes
  BY <1>1
<1>7. /\ Len(RawText) = n /\ RawText \in Seq(TextBytes)
      /\ \A m \in 1..n : \E k \in Kept : Place(Kept, k) = m /\ RawText[m] = doc.bytes[k]
  <2>1. Len(RawText) = n
    BY <1>1, PickedTrue, Zenon DEF RawText
  <2>2. RawText \in Seq(TextBytes)
    BY <1>1, <1>6, PickedTrue, Zenon DEF RawText
  <2>3. \A m \in 1..n : \E k \in Kept : Place(Kept, k) = m /\ RawText[m] = doc.bytes[k]
    <3>1. Fills(RawText, doc.bytes, Kept)
      BY <1>1, PickedTrue, Zenon DEF RawText
    <3>2. QED
      BY <3>1 DEF Fills
  <2>4. QED
    BY <2>1, <2>2, <2>3
<1>8. \A m \in 1..n : txt[m] = RawText[m]
  BY <1>5, <1>7
<1>9. QED
  BY <1>4, <1>7, <1>8

(* NORMALIZE is done: CHUNK starts with nothing read.                        *)
LEMMA ChunkStarts ==
    ASSUME TextInv, tpc \in {"start", "scan", "cues"}, tpc' = "chunk", doc' = doc, UNCHANGED <<text, read, window, facts>>,
           scan' \in ScanStates, index' \in Seq(SegmentRecords), IndexTrue(index', text, Len(text)),
           \A i \in 1..Len(index') : index'[i][2] <= Len(text),
           doc.media \notin {"captions", "audio", "video", "opaque"} => text = RawText
    PROVE  TextInv'
<1>1. TextTyped /\ read = 0 /\ window = EmptyWindow /\ facts = <<>>
  BY DEF TextInv
<1>2. TextTyped'
  BY <1>1 DEF TextTyped
<1>3. RawText' = RawText
  BY DEF RawText, Kept, IsMark
<1>4. IndexTrue(index, text, Len(text))'
  <2>1. text' = text
    OBVIOUS
  <2>2. QED
    BY <2>1
<1>5. WindowTrue(window, read)'
  BY <1>1 DEF WindowTrue, Windows, EmptyWindow
<1>6. FactsTrue(facts, read - window.count)'
  <2>1. facts' = <<>> /\ (read - window.count)' = 0
    BY <1>1 DEF EmptyWindow
  <2>2. FactsTrue(<<>>, 0)'
    BY DEF FactsTrue, FactsInOrder, FactsBefore, FactsHold
  <2>3. QED
    BY <2>1, <2>2
<1>7. (read <= Len(index) /\ (\A i \in 1..Len(index) : index[i][2] <= Len(text)))'
  BY <1>1
<1>8. Chunked'
  BY <1>3, <1>4, <1>5, <1>6, <1>7 DEF Chunked
<1>9. QED
  BY <1>2, <1>8 DEF TextInv

LEMMA ScanDoneStep == ASSUME TextInv, ScanDone PROVE TextInv'
<1> DEFINE closed == CloseRecord(scan, Len(text))
<1>1. /\ tpc = "scan" /\ scan.at = Len(doc.bytes) /\ tpc' \in {"chunk", "failed"} /\ doc' = doc /\ UNCHANGED <<text, read, window, facts>>
      /\ index' = index \o closed.segment /\ scan' = closed.scan
  BY DEF ScanDone
<1>2. TextTyped /\ doc.media # "captions" /\ ScanTrue(scan, text, index)
  BY <1>1 DEF TextInv
<1>3. scan \in ScanStates /\ text \in Seq(TextBytes) /\ index \in Seq(SegmentRecords)
  BY <1>2 DEF TextTyped
<1>4. /\ scan' \in ScanStates /\ scan'.start = Len(text)
      /\ index' \in Seq(SegmentRecords) /\ ScanTrue(scan', text, index')
  BY <1>1, <1>2, <1>3, ScanClose
<1>5. text = RawText
  <2>1. KeptSoFar(text, scan.at)
    BY <1>2 DEF ScanTrue
  <2>2. QED
    BY <1>1, <1>2, <1>3, <2>1, DocBytes, RawIs
<1>6. IndexTrue(index', text, Len(text)) /\ \A i \in 1..Len(index') : index'[i][2] <= Len(text)
  BY <1>4 DEF ScanTrue, Before
<1>7. CASE tpc' = "failed"
  BY <1>7 DEF TextInv
<1>8. CASE tpc' = "chunk"
  BY <1>1, <1>4, <1>5, <1>6, <1>8, ChunkStarts
<1>9. QED
  BY <1>1, <1>7, <1>8

LEMMA NothingIndexed == ASSUME NEW txt, NEW upto, NEW mark, NEW tag
                        PROVE  InOrder(<<>>) /\ OnLines(<<>>, txt) /\ Before(<<>>, upto, mark, tag) /\ Holds(<<>>, txt, 0)
  BY DEF InOrder, OnLines, Before, Holds

LEMMA NormalizeStep == ASSUME TextInv, NormalizeRun PROVE TextInv'
<1>1. /\ tpc = "start" /\ UNCHANGED <<doc, scan, text, index, read, window, facts>>
      /\ tpc' = CASE doc.media \in {"audio", "video", "opaque"} -> "chunk"
                  [] doc.media = "captions" -> "cues"
                  [] OTHER -> "scan"
  BY DEF NormalizeRun
<1>2. /\ TextTyped /\ scan = FreshScan /\ text = <<>> /\ index = <<>> /\ read = 0 /\ window = EmptyWindow /\ facts = <<>>
  BY <1>1 DEF TextInv
<1>3. /\ Len(text) = 0 /\ scan \in ScanStates /\ text \in Seq(TextBytes) /\ index \in Seq(SegmentRecords)
      /\ index' = index /\ scan' = scan /\ text' = text
  BY <1>1, <1>2 DEF TextTyped
<1>4. IndexTrue(index, text, 0)
  BY <1>2, NothingIndexed DEF IndexTrue
<1>5. CASE doc.media \in {"audio", "video", "opaque"}
  <2>1. tpc' = "chunk"
    BY <1>1, <1>5
  <2>2. \A i \in 1..Len(index) : index[i][2] <= Len(text)
    BY <1>2
  <2>3. QED
    BY <1>1, <1>3, <1>4, <1>5, <2>1, <2>2, ChunkStarts
<1>6. TextTyped' /\ (read = 0 /\ window = EmptyWindow /\ facts = <<>>)'
  <2>1. tpc' \in {"chunk", "cues", "scan"}
    BY <1>1
  <2>2. QED
    BY <1>1, <1>2, <2>1 DEF TextTyped, EmptyWindow
<1>7. CASE doc.media = "captions"
  <2>1. tpc' = "cues"
    BY <1>1, <1>7
  <2>2. Cued'
    <3>1. doc.blocks \in Seq([start : Nat, end : Nat, text : Seq(TextBytes)])
      BY <1>2, <1>7, DocBlocks
    <3>2. Len(doc.blocks) \in Nat /\ scan.at = 0
      BY <1>2, <3>1 DEF FreshScan
    <3>3. Before(index, Len(text), scan.committed, "time")
      BY <1>2, NothingIndexed
    <3>4. scan.at <= Len(doc.blocks)
      BY <3>2
    <3>5. Cued
      BY <1>3, <1>4, <1>7, <3>3, <3>4 DEF Cued
    <3>6. QED
      BY <1>1, <3>5 DEF Cued
  <2>3. QED
    BY <1>6, <2>1, <2>2 DEF TextInv
<1>8. CASE doc.media \notin {"audio", "video", "opaque", "captions"}
  <2>1. tpc' = "scan"
    BY <1>1, <1>8
  <2>2. doc.bytes \in Seq(TextBytes)
    BY <1>2, <1>8, DocBytes
  <2>3. ScanTrue(scan, text, index)
    <3>1. /\ scan.at = 0 /\ scan.start = 0 /\ scan.line = 1 /\ scan.lineStart = 1 /\ scan.atStart = TRUE
          /\ scan.content = FALSE /\ Len(doc.bytes) \in Nat
      BY <1>2, <2>2 DEF FreshScan
    <3>2. KeptSoFar(text, 0)
      <4>1. Kept \in SUBSET (1..Len(doc.bytes))
        BY <2>2, KeptType
      <4>2. \A i \in Kept : ~(i <= 0)
        BY <3>1, <4>1
      <4>3. {j \in Kept : j <= 0} = {}
        BY <4>2, Zenon
      <4>4. Place(Kept, 0) = 0
        BY <4>3, FS_EmptySet DEF Place
      <4>5. QED
        BY <1>3, <4>2, <4>4 DEF KeptSoFar
    <3>3. LineIn(text, 1) = 1
      <4>1. {i \in 1..(1 - 1) : text[i] = "n"} = {}
        OBVIOUS
      <4>2. QED
        BY <4>1, FS_EmptySet DEF LineIn
    <3>4. OpenRecord(scan, text)
      BY <1>3, <3>1, <3>3 DEF OpenRecord
    <3>5. Before(index, scan.start, ScanMark(scan), ScanKind)
      BY <1>2, NothingIndexed
    <3>6. \A i \in 1..scan.at : doc.bytes[i] = "r"
      BY <3>1
    <3>7. QED
      BY <1>4, <3>1, <3>2, <3>4, <3>5, <3>6 DEF ScanTrue
  <2>4. ScanTrue(scan, text, index)' /\ (doc.media # "captions")'
    BY <1>1, <1>8, <2>3 DEF ScanTrue, KeptSoFar, Kept, IsMark, ScanMark, ScanKind, ByMessage
  <2>5. QED
    BY <1>6, <2>1, <2>4 DEF TextInv
<1>9. QED
  BY <1>5, <1>7, <1>8

LEMMA CuesDoneStep == ASSUME TextInv, CuesDone PROVE TextInv'
<1>1. /\ tpc = "cues" /\ tpc' = "chunk" /\ doc' = doc /\ UNCHANGED <<text, read, window, facts>>
      /\ scan' = scan /\ index' = index
  BY DEF CuesDone
<1>2. TextTyped /\ Cued
  BY <1>1 DEF TextInv
<1>3. /\ scan' \in ScanStates /\ index' \in Seq(SegmentRecords) /\ doc.media = "captions"
      /\ IndexTrue(index', text, Len(text))
  BY <1>1, <1>2 DEF TextTyped, Cued
<1>4. \A i \in 1..Len(index') : index'[i][2] <= Len(text)
  BY <1>1, <1>2 DEF Cued, Before
<1>5. QED
  BY <1>1, <1>3, <1>4, ChunkStarts

LEMMA ConcatIs ==
    ASSUME NEW S, NEW a \in Seq(S), NEW b \in Seq(S)
    PROVE  /\ a \o b \in Seq(S) /\ Len(a) \in Nat /\ Len(b) \in Nat /\ Len(a \o b) = Len(a) + Len(b)
           /\ Prolongs(a \o b, a)
<1>1. a \o b \in Seq(S) /\ Len(a) \in Nat /\ Len(b) \in Nat /\ Len(a \o b) = Len(a) + Len(b)
  OBVIOUS
<1>2. \A i \in 1..Len(a) : (a \o b)[i] = a[i]
  OBVIOUS
<1>3. QED
  BY <1>1, <1>2 DEF Prolongs

LEMMA ItemOf == ASSUME NEW S, NEW s \in Seq(S), NEW i \in 1..Len(s) PROVE s[i] \in S
  OBVIOUS

LEMMA LenNat == ASSUME NEW S, NEW s \in Seq(S) PROVE Len(s) \in Nat
  OBVIOUS

LEMMA NextBlockStep == ASSUME TextInv, NextBlock PROVE TextInv'
<1> DEFINE block == doc.blocks[scan.at + 1]
           cue == Ordered(block)
           taken == IsCue(block) /\ block.end > scan.committed
           end == Len(text) + Len(block.text)
           more == Append(block.text, "n")
           out == text \o more
           r == <<Len(text), end, "time", 0, cue.start, cue.end>>
<1>1. tpc = "cues" /\ scan.at < Len(doc.blocks) /\ doc' = doc /\ UNCHANGED <<read, window, facts>>
  BY DEF NextBlock
<1>2. TextTyped /\ Cued /\ read = 0 /\ window = EmptyWindow /\ facts = <<>>
  BY <1>1 DEF TextInv
<1>3. /\ scan \in ScanStates /\ text \in Seq(TextBytes) /\ index \in Seq(SegmentRecords)
      /\ doc.media = "captions" /\ doc.blocks \in Seq([start : Nat, end : Nat, text : Seq(TextBytes)])
  BY <1>2, DocBlocks DEF TextTyped, Cued
<1>4. scan.at \in Nat /\ scan.committed \in Nat /\ scan.record \in Nat
  BY <1>3 DEF ScanStates
<1>5. scan.at + 1 \in 1..Len(doc.blocks) /\ scan.at + 1 <= Len(doc.blocks) /\ scan.at + 1 \in Nat
  <2>1. Len(doc.blocks) \in Nat
    BY <1>3, LenNat, Zenon
  <2>2. scan.at < Len(doc.blocks)
    BY <1>1
  <2>3. QED
    BY <1>4, <2>1, <2>2
<1>6. block \in [start : Nat, end : Nat, text : Seq(TextBytes)]
  BY <1>3, <1>5, ItemOf, ZenonT(60)
<1>7. \/ /\ ~taken
         /\ scan' = [scan EXCEPT !.at = @ + 1]
         /\ UNCHANGED <<tpc, text, index>>
      \/ tpc' = "failed"
      \/ /\ taken
         /\ text' = out
         /\ index' = Append(index, r)
         /\ scan' = [scan EXCEPT !.at = @ + 1, !.record = @ + 1, !.committed = cue.end]
         /\ UNCHANGED tpc
  BY DEF NextBlock, Encode
<1> HIDE DEF block
<1>8. block.start \in Nat /\ block.end \in Nat /\ block.text \in Seq(TextBytes)
  BY <1>6
<1>9. ASSUME tpc' = "cues", scan' \in ScanStates, text' \in Seq(TextBytes), index' \in Seq(SegmentRecords),
             scan'.at <= Len(doc.blocks), IndexTrue(index', text', Len(text')),
             Before(index', Len(text'), scan'.committed, "time")
      PROVE  TextInv'
  <2>1. TextTyped'
    BY <1>1, <1>2, <1>9 DEF TextTyped
  <2>2. Cued'
    BY <1>1, <1>3, <1>9 DEF Cued
  <2>3. (read = 0 /\ window = EmptyWindow /\ facts = <<>>)'
    BY <1>1, <1>2 DEF EmptyWindow
  <2>4. QED
    BY <1>9, <2>1, <2>2, <2>3 DEF TextInv
<1>10. CASE ~taken /\ scan' = [scan EXCEPT !.at = @ + 1] /\ UNCHANGED <<tpc, text, index>>
  <2>1. scan' \in ScanStates /\ scan'.at = scan.at + 1 /\ scan'.committed = scan.committed
    <3>1. \A a \in Nat : [scan EXCEPT !.at = a] \in ScanStates
      BY <1>3 DEF ScanStates
    <3>2. scan'.at = scan.at + 1 /\ scan'.committed = scan.committed
      BY <1>3, <1>10 DEF ScanStates
    <3>3. QED
      BY <1>5, <1>10, <3>1, <3>2
  <2>2. IndexTrue(index, text, Len(text)) /\ Before(index, Len(text), scan.committed, "time")
    BY <1>2 DEF Cued
  <2>3. QED
    BY <1>1, <1>3, <1>5, <1>9, <1>10, <2>1, <2>2
<1>11. CASE tpc' = "failed"
  BY <1>11 DEF TextInv
<1>12. CASE /\ taken
            /\ text' = out
            /\ index' = Append(index, r)
            /\ scan' = [scan EXCEPT !.at = @ + 1, !.record = @ + 1, !.committed = cue.end]
            /\ UNCHANGED tpc
  <2>1. /\ cue.end = block.end /\ cue.start = Max({block.start, scan.committed})
    BY <1>6 DEF Ordered
  <2>2. /\ cue.start \in Nat /\ cue.end \in Nat /\ cue.start <= cue.end /\ scan.committed <= cue.start
    <3>1. block.start \in Int /\ scan.committed \in Int
      BY <1>4, <1>8
    <3>2. cue.start \in {block.start, scan.committed} /\ cue.start >= block.start /\ cue.start >= scan.committed
      <4>1. /\ Max({block.start, scan.committed}) \in {block.start, scan.committed}
            /\ Max({block.start, scan.committed}) >= block.start /\ Max({block.start, scan.committed}) >= scan.committed
        BY <3>1, MaxTwo, Zenon
      <4>2. QED
        BY <2>1, <4>1
    <3>3. block.end >= block.start /\ block.end > scan.committed
      BY <1>12 DEF IsCue
    <3>4. QED
      BY <1>4, <1>8, <2>1, <3>2, <3>3
  <2> HIDE DEF cue
  <2>3. /\ scan' \in ScanStates /\ scan'.at = scan.at + 1 /\ scan'.committed = cue.end
    <3>1. \A a, b, c \in Nat : [scan EXCEPT !.at = a, !.record = b, !.committed = c] \in ScanStates
      BY <1>3 DEF ScanStates
    <3>2. scan'.at = scan.at + 1 /\ scan'.committed = cue.end
      BY <1>3, <1>12 DEF ScanStates
    <3>3. scan.record + 1 \in Nat
      BY <1>4
    <3>4. QED
      BY <1>5, <1>12, <2>2, <3>1, <3>2, <3>3
  <2>4. /\ more \in Seq(TextBytes) /\ Len(more) = Len(block.text) + 1 /\ more[Len(block.text) + 1] = "n"
        /\ Len(block.text) \in Nat /\ Len(text) \in Nat
    <3>1. "n" \in TextBytes /\ Len(block.text) \in Nat /\ Len(text) \in Nat
      <4>1. "n" \in TextBytes
        BY DEF TextBytes
      <4>2. Len(block.text) \in Nat /\ Len(text) \in Nat
        BY <1>3, <1>8, LenNat, Zenon
      <4>3. QED
        BY <4>1, <4>2, Zenon
    <3>2. more \in Seq(TextBytes) /\ Len(more) = Len(block.text) + 1 /\ more[Len(block.text) + 1] = "n"
      BY <1>8, <3>1, AppendGrows, Zenon
    <3>3. QED
      BY <3>1, <3>2, Zenon
  <2> HIDE DEF more
  <2>5. out \in Seq(TextBytes) /\ Grows(text, out) /\ Len(out) = Len(text) + Len(more)
    BY <1>3, <2>4, ConcatIs, Zenon DEF Grows
  <2>6. out[end + 1] = "n"
    <3>1. end + 1 = Len(text) + (Len(block.text) + 1)
      BY <2>4
    <3>2. out[Len(text) + (Len(block.text) + 1)] = more[Len(block.text) + 1]
      BY <1>3, <2>4
    <3>3. QED
      BY <2>4, <3>1, <3>2
  <2>7. Len(out) = end + 1 /\ end \in Nat /\ Len(text) <= end /\ Len(out) \in Nat
    BY <2>4, <2>5
  <2> HIDE DEF out, end
  <2>8. r \in SegmentRecords /\ r[1] = Len(text) /\ r[2] = end /\ r[3] = "time" /\ r[5] = cue.start /\ r[6] = cue.end
    BY <2>2, <2>4, <2>7 DEF SegmentRecords
  <2> HIDE DEF r
  <2>9. IndexTrue(index, out, Len(text)) /\ Before(index, Len(text), scan.committed, "time")
    <3>1. IndexTrue(index, text, Len(text)) /\ Before(index, Len(text), scan.committed, "time")
      BY <1>2 DEF Cued
    <3>2. \A i \in 1..Len(index) : index[i][2] <= Len(text)
      BY <3>1 DEF Before
    <3>3. Len(text) <= Len(text)
      BY <2>4
    <3>4. QED
      BY <1>3, <2>4, <2>5, <3>1, <3>2, <3>3, IndexGrows
  <2>10. Follows(r, out, Len(text), Len(out), scan.committed, "time")
    <3>1. Len(text) <= r[1] /\ r[1] <= r[2] /\ r[2] <= Len(out) /\ scan.committed <= r[5] /\ r[5] <= r[6]
      BY <2>2, <2>4, <2>7, <2>8
    <3>2. ASSUME NEW t \in (Len(text) + 1)..Len(out), out[t] \notin Blank PROVE r[1] < t /\ t <= r[2]
      <4>1. t # end + 1
        BY <2>6, <3>2 DEF Blank
      <4>2. QED
        BY <2>4, <2>7, <2>8, <4>1
    <3>3. QED
      BY <2>8, <3>1, <3>2 DEF Follows
  <2>11. /\ Append(index, r) \in Seq(SegmentRecords) /\ IndexTrue(Append(index, r), out, Len(out))
         /\ Before(Append(index, r), Len(out), r[6], "time")
    BY <1>3, <1>4, <2>4, <2>7, <2>8, <2>9, <2>10, IndexAppends
  <2>12. QED
    BY <1>1, <1>5, <1>9, <1>12, <2>3, <2>5, <2>8, <2>11
<1>13. QED
  BY <1>7, <1>10, <1>11, <1>12

-----------------------------------------------------------------------------
(* TextStages: the pieces of a window.                                       *)

LEMMA DividedBy ==
    ASSUME NEW a \in Int, NEW d \in Nat, d > 0
    PROVE  a \div d \in Int /\ (a \div d) * d <= a /\ a < (a \div d) * d + d
  OBVIOUS

LEMMA Multiplied ==
    ASSUME NEW a \in Int, NEW b \in Int, NEW d \in Nat, a <= b
    PROVE  a * d <= b * d
  OBVIOUS

(* The cuts of a length reach every offset below it.                         *)
LEMMA CutsReach ==
    ASSUME NEW len \in Nat, NEW x \in Nat, x < len, NEW d \in Nat, d > 0
    PROVE  \E q \in Nat : q + 1 \in 1..((len + d - 1) \div d) /\ q * d <= x /\ x < q * d + d
<1> DEFINE q == x \div d
           m == (len + d - 1) \div d
<1>1. q \in Int /\ q * d <= x /\ x < q * d + d
  BY DividedBy
<1>2. m \in Int /\ len + d - 1 < m * d + d
  BY DividedBy
<1> HIDE DEF q, m
<1>3. q * d \in Int /\ m * d \in Int /\ (q + 1) * d = q * d + d
  BY <1>1, <1>2
<1>4. x < m * d
  BY <1>2, <1>3
<1>5. q >= 0
  <2> SUFFICES ASSUME q < 0 PROVE FALSE
    BY <1>1
  <2>1. q + 1 \in Int /\ q + 1 <= 0
    BY <1>1
  <2>2. (q + 1) * d <= 0 * d
    BY <2>1, Multiplied
  <2>3. 0 * d = 0
    OBVIOUS
  <2>4. QED
    BY <1>1, <1>3, <2>2, <2>3
<1>6. q < m
  <2> SUFFICES ASSUME m <= q PROVE FALSE
    BY <1>1, <1>2
  <2>1. m * d <= q * d
    BY <1>1, <1>2, Multiplied
  <2>2. QED
    BY <1>1, <1>3, <1>4, <2>1
<1>7. q \in Nat /\ q + 1 \in 1..m
  BY <1>1, <1>2, <1>5, <1>6
<1>8. QED
  BY <1>1, <1>7 DEF m

LEMMA ContentTrue ==
    ASSUME NEW bytes \in Seq(TextBytes)
    PROVE  /\ ContentOf(bytes) \in Seq(TextBytes)
           /\ (\E i \in 1..Len(bytes) : bytes[i] \notin Blank) => ContentOf(bytes) # <<>>
           /\ Len(bytes) = 0 => ContentOf(bytes) = <<>>
<1> DEFINE word == {i \in DOMAIN bytes : bytes[i] \notin Blank}
           between == {i \in DOMAIN bytes \ word : i - 1 \in word /\ \E j \in word : j > i}
           shown == [i \in DOMAIN bytes |-> IF i \in word THEN bytes[i] ELSE "s"]
           keep == word \cup between
<1>1. Len(bytes) \in Nat /\ DOMAIN bytes = 1..Len(bytes) /\ \A i \in 1..Len(bytes) : bytes[i] \in TextBytes
  OBVIOUS
<1>2. ContentOf(bytes) = Picked(shown, keep)
  BY DEF ContentOf
<1>3. keep \in SUBSET (1..Len(bytes)) /\ \A k \in keep : shown[k] \in TextBytes
  <2>1. \A i \in DOMAIN bytes : shown[i] \in TextBytes
    BY <1>1 DEF TextBytes
  <2>2. keep \in SUBSET (DOMAIN bytes)
    BY Zenon
  <2>3. QED
    BY <1>1, <2>1, <2>2, Zenon
<1>4. \A i \in 1..Len(bytes) : bytes[i] \notin Blank => i \in keep
  BY <1>1, Zenon
<1> HIDE DEF word, between, shown, keep
<1>5. ContentOf(bytes) \in Seq(TextBytes) /\ Len(ContentOf(bytes)) = Cardinality(keep)
  BY <1>1, <1>2, <1>3, PickedTrue
<1>6. IsFiniteSet(keep)
  BY <1>1, <1>3, PlaceOrder
<1>7. ASSUME NEW i \in 1..Len(bytes), bytes[i] \notin Blank PROVE ContentOf(bytes) # <<>>
  <2>1. keep # {}
    BY <1>4, <1>7
  <2>2. Cardinality(keep) # 0
    BY <1>6, <2>1, FS_EmptySet
  <2>3. QED
    BY <1>5, <2>2
<1>8. ASSUME Len(bytes) = 0 PROVE ContentOf(bytes) = <<>>
  <2>1. 1..Len(bytes) = {}
    BY <1>8
  <2>2. keep = {}
    BY <1>3, <2>1
  <2>3. Cardinality(keep) = 0
    BY <2>2, FS_EmptySet
  <2>4. QED
    BY <1>5, <2>3
<1>9. QED
  BY <1>5, <1>7, <1>8

(* One piece: the bytes from s, up to BytesMax of them.                      *)
LEMMA PieceTrue ==
    ASSUME text \in Seq(TextBytes), NEW w, w.start \in Nat, w.end \in Nat, w.end <= Len(text),
           NEW k, NEW s \in Nat, s = w.start + (k - 1) * BytesMax,
           NEW p, p = Piece(w, k)
    PROVE  /\ p.start = s /\ p.end \in {s + BytesMax, w.end} /\ p.end <= s + BytesMax /\ p.end <= w.end
           /\ p.locator = w.locator /\ p.id = <<doc.shape, s, p.content>> /\ p.content \in Seq(TextBytes)
           /\ p = [id |-> p.id, start |-> p.start, end |-> p.end, locator |-> p.locator, content |-> p.content]
           /\ p.content # <<>> => s < p.end
           /\ \A t \in (s + 1)..p.end : text[t] \notin Blank => p.content # <<>>
<1> DEFINE e == Min({s + BytesMax, w.end})
           bytes == SubSeq(text, s + 1, e)
           content == ContentOf(bytes)
<1>1. BytesMax \in Nat /\ BytesMax > 0
  BY TextBounds
<1>2. p = [id |-> <<doc.shape, s, content>>, start |-> s, end |-> e, locator |-> w.locator, content |-> content]
  BY DEF Piece, ChunkId
<1>3. e \in {s + BytesMax, w.end} /\ e <= s + BytesMax /\ e <= w.end
  <2>1. s + BytesMax \in Int /\ w.end \in Int
    BY <1>1
  <2>2. QED
    BY <2>1, MinTwo, Zenon
<1> HIDE DEF e
<1>4. Len(text) \in Nat /\ e \in Nat /\ e <= Len(text)
  BY <1>1, <1>3
<1>5. /\ bytes \in Seq(TextBytes) /\ Len(bytes) = (IF s + 1 <= e THEN e - s ELSE 0)
      /\ \A i \in 1..(e - s) : bytes[i] = text[s + i]
  <2>1. s + 1 \in 1..(Len(text) + 1) \/ e < s + 1
    BY <1>4
  <2>2. CASE s + 1 <= e
    <3>1. s + 1 \in 1..Len(text) /\ e \in 1..Len(text)
      BY <1>4, <2>2
    <3>2. bytes \in Seq(TextBytes) /\ Len(bytes) = e - s
      BY <1>4, <2>2, <3>1
    <3>3. \A i \in 1..(e - s) : bytes[i] = text[s + i]
      BY <1>4, <2>2, <3>1, SMTT(40)
    <3>4. QED
      BY <2>2, <3>2, <3>3
  <2>3. CASE ~(s + 1 <= e)
    <3>1. bytes = <<>>
      BY <1>4, <2>3
    <3>2. \A i \in 1..(e - s) : FALSE
      BY <1>4, <2>3
    <3>3. <<>> \in Seq(TextBytes) /\ Len(<<>>) = 0
      OBVIOUS
    <3>4. bytes \in Seq(TextBytes) /\ Len(bytes) = 0
      BY <3>1, <3>3, Zenon
    <3> HIDE DEF bytes
    <3>5. QED
      BY <2>3, <3>2, <3>4, Zenon
  <2>4. QED
    BY <2>2, <2>3
<1> HIDE DEF bytes
<1>6. /\ content \in Seq(TextBytes)
      /\ (\E i \in 1..Len(bytes) : bytes[i] \notin Blank) => content # <<>>
      /\ Len(bytes) = 0 => content = <<>>
  BY <1>5, ContentTrue
<1> HIDE DEF content
<1>7. content # <<>> => s < e
  BY <1>4, <1>5, <1>6
<1>8. ASSUME NEW t \in (s + 1)..e, text[t] \notin Blank PROVE content # <<>>
  <2>1. t - s \in 1..(e - s) /\ s + (t - s) = t /\ s + 1 <= e
    BY <1>4
  <2>2. bytes[t - s] = text[t] /\ Len(bytes) = e - s
    BY <1>5, <2>1
  <2>3. QED
    BY <1>6, <1>8, <2>1, <2>2
<1>9. p.start = s /\ p.end = e /\ p.locator = w.locator /\ p.content = content /\ p.id = <<doc.shape, s, content>>
  BY <1>2
<1>10. QED
  BY <1>2, <1>3, <1>6, <1>7, <1>8, <1>9

(* The pieces of a window: whole facts in order, inside the window and under *)
(* its locator, that leave out only blanks.                                  *)
PiecesWithin(p, w) ==
    \A i \in 1..Len(p) : w.start <= p[i].start /\ p[i].end <= w.end /\ p[i].locator = w.locator
PiecesInOrder(p) == \A i, j \in 1..Len(p) : i < j => p[i].end <= p[j].start
PiecesHold(p, w) ==
    \A t \in (w.start + 1)..w.end : text[t] \notin Blank => \E i \in 1..Len(p) : p[i].start < t /\ t <= p[i].end
Cuts(p, w) ==
    /\ p \in Seq(FactRecords) /\ \A i \in 1..Len(p) : FactWhole(p[i])
    /\ PiecesWithin(p, w) /\ PiecesInOrder(p) /\ PiecesHold(p, w)
Locators == {"time", "line", "message"} \X Nat \X Nat

LEMMA PiecesTrue ==
    ASSUME text \in Seq(TextBytes), NEW w, w.count # 0, w.start \in Nat, w.end \in Nat, w.start <= w.end,
           w.end <= Len(text), w.locator \in Locators
    PROVE  Cuts(Pieces(w), w)
<1> DEFINE count == (WindowLen(w) + BytesMax - 1) \div BytesMax
           s == [k \in 1..count |-> Piece(w, k)]
           keep == {k \in 1..count : Piece(w, k).content # <<>>}
           p == Pieces(w)
           from(k) == w.start + (k - 1) * BytesMax
<1>1. BytesMax \in Nat /\ BytesMax > 0
  BY TextBounds
<1>2. p = Picked(s, keep)
  BY DEF Pieces
<1>3. WindowLen(w) \in Nat /\ WindowLen(w) = w.end - w.start
  BY DEF WindowLen
<1>4. count \in Int
  <2>1. WindowLen(w) + BytesMax - 1 \in Int
    BY <1>1, <1>3
  <2>2. QED
    BY <1>1, <2>1, DividedBy
<1>5. ASSUME NEW k \in 1..count PROVE s[k] = Piece(w, k) /\ (k \in keep <=> s[k].content # <<>>) /\ k \in Int /\ k >= 1
  BY <1>4
<1>6. ASSUME NEW k \in Nat, k >= 1 PROVE from(k) \in Nat /\ w.start <= from(k)
  <2>1. k - 1 \in Int /\ 0 <= k - 1
    BY <1>6
  <2>2. 0 * BytesMax <= (k - 1) * BytesMax
    BY <1>1, <2>1, Multiplied
  <2>3. (k - 1) * BytesMax \in Int /\ 0 * BytesMax = 0
    BY <1>1, <2>1
  <2>4. QED
    BY <2>2, <2>3
<1>7. ASSUME NEW j \in Nat, NEW k \in Nat, j >= 1, j < k PROVE from(j) + BytesMax <= from(k)
  <2>1. j \in Int /\ k - 1 \in Int /\ j <= k - 1
    BY <1>7
  <2>2. j * BytesMax <= (k - 1) * BytesMax
    BY <1>1, <2>1, Multiplied
  <2>3. j * BytesMax = (j - 1) * BytesMax + BytesMax
    BY <1>1
  <2>4. (j - 1) * BytesMax \in Int /\ (k - 1) * BytesMax \in Int
    BY <1>1, <2>1
  <2>5. QED
    BY <1>1, <2>2, <2>3, <2>4
<1> HIDE DEF count, from
<1>8. keep \subseteq 1..count
  OBVIOUS
<1> HIDE DEF s, keep
<1>9. \E size \in Nat : keep \in SUBSET (1..size)
  <2>1. CASE count \in Nat
    BY <1>8, <2>1
  <2>2. CASE count \notin Nat
    <3>1. 1..count = 1..0
      BY <1>4, <2>2
    <3>2. QED
      BY <1>8, <3>1
  <2>3. QED
    BY <2>1, <2>2
<1>10. PICK size \in Nat : keep \in SUBSET (1..size)
  BY <1>9
<1>11. ASSUME NEW k \in keep
       PROVE  /\ k \in Nat /\ k >= 1 /\ s[k].start = from(k) /\ from(k) \in Nat
              /\ s[k].end <= from(k) + BytesMax /\ s[k].end <= w.end /\ s[k].end \in Nat
              /\ s[k].locator = w.locator /\ FactWhole(s[k]) /\ s[k] \in FactRecords
  <2>1. k \in 1..count /\ k \in Nat /\ k >= 1
    BY <1>4, <1>8
  <2>2. s[k] = Piece(w, k) /\ s[k].content # <<>>
    BY <1>5, <2>1
  <2>3. from(k) \in Nat
    BY <1>6, <2>1
  <2>4. from(k) = w.start + (k - 1) * BytesMax
    BY DEF from
  <2>5. /\ s[k].start = from(k) /\ s[k].end \in {from(k) + BytesMax, w.end} /\ s[k].end <= from(k) + BytesMax
        /\ s[k].end <= w.end
        /\ s[k].locator = w.locator /\ s[k].id = <<doc.shape, from(k), s[k].content>> /\ s[k].content \in Seq(TextBytes)
        /\ s[k] = [id |-> s[k].id, start |-> s[k].start, end |-> s[k].end, locator |-> s[k].locator, content |-> s[k].content]
        /\ from(k) < s[k].end
    BY <2>2, <2>3, <2>4, PieceTrue
  <2>6. s[k].end \in Nat
    BY <1>1, <2>3, <2>5
  <2>7. s[k] \in FactRecords
    <3>1. s[k].id \in {doc.shape} \X Nat \X Seq(TextBytes)
      BY <2>3, <2>5
    <3>2. s[k].locator \in {"time", "line", "message"} \X Nat \X Nat
      BY <2>5 DEF Locators
    <3>3. s[k].start \in Nat
      BY <2>3, <2>5
    <3>4. \A a \in {doc.shape} \X Nat \X Seq(TextBytes), b \in Nat, c \in Nat,
             d \in {"time", "line", "message"} \X Nat \X Nat, e \in Seq(TextBytes) :
                [id |-> a, start |-> b, end |-> c, locator |-> d, content |-> e] \in FactRecords
      BY Zenon DEF FactRecords
    <3>5. QED
      BY <2>5, <2>6, <3>1, <3>2, <3>3, <3>4
  <2>8. FactWhole(s[k])
    BY <2>5 DEF FactWhole
  <2>9. QED
    BY <2>1, <2>3, <2>5, <2>6, <2>7, <2>8
<1>12. /\ Len(p) = Cardinality(keep) /\ p \in Seq(FactRecords) /\ Fills(p, s, keep) /\ Puts(p, s, keep)
  <2>1. \A k \in keep : s[k] \in FactRecords
    BY <1>11
  <2>2. QED
    BY <1>2, <1>10, <2>1, PickedTrue, Zenon
<1> HIDE DEF p
<1>13. Len(p) \in Nat
  BY <1>12, LenNat, Zenon
<1>14. ASSUME NEW i \in 1..Len(p) PROVE \E k \in keep : Place(keep, k) = i /\ p[i] = s[k]
  BY <1>12 DEF Fills
<1>15. \A i \in 1..Len(p) : FactWhole(p[i])
  BY <1>11, <1>14
<1>16. PiecesWithin(p, w)
  <2> SUFFICES ASSUME NEW i \in 1..Len(p)
               PROVE  w.start <= p[i].start /\ p[i].end <= w.end /\ p[i].locator = w.locator
    BY DEF PiecesWithin
  <2>1. PICK k \in keep : p[i] = s[k]
    BY <1>14
  <2>2. k \in Nat /\ k >= 1 /\ s[k].start = from(k) /\ s[k].end <= w.end /\ s[k].locator = w.locator
    BY <1>11
  <2>3. w.start <= from(k)
    BY <1>6, <2>2
  <2>4. QED
    BY <2>1, <2>2, <2>3
<1>17. PiecesInOrder(p)
  <2> SUFFICES ASSUME NEW i \in 1..Len(p), NEW j \in 1..Len(p), i < j PROVE p[i].end <= p[j].start
    BY DEF PiecesInOrder
  <2>1. PICK k \in keep : Place(keep, k) = i /\ p[i] = s[k]
    BY <1>14
  <2>2. PICK m \in keep : Place(keep, m) = j /\ p[j] = s[m]
    BY <1>14
  <2>3. k \in Nat /\ k >= 1 /\ m \in Nat /\ m >= 1
    BY <1>11
  <2>4. k < m
    <3> SUFFICES ASSUME ~(k < m) PROVE FALSE
      OBVIOUS
    <3>1. CASE k = m
      BY <2>1, <2>2, <3>1
    <3>2. CASE k # m
      <4>1. m < k /\ m \in Int
        BY <2>3, <3>2
      <4>2. Place(keep, m) < Place(keep, k)
        BY <1>10, <4>1, PlaceOrder, Zenon
      <4>3. QED
        BY <2>1, <2>2, <4>2
    <3>3. QED
      BY <3>1, <3>2
  <2>5. from(k) + BytesMax <= from(m)
    BY <1>7, <2>3, <2>4
  <2>6. s[k].end <= from(k) + BytesMax /\ s[k].end \in Nat /\ from(k) \in Nat /\ from(m) \in Nat /\ s[m].start = from(m)
    BY <1>11
  <2>7. s[k].end <= s[m].start
    BY <1>1, <2>5, <2>6
  <2>8. QED
    BY <2>1, <2>2, <2>7
<1>18. PiecesHold(p, w)
  <2> SUFFICES ASSUME NEW t \in (w.start + 1)..w.end, text[t] \notin Blank
               PROVE  \E i \in 1..Len(p) : p[i].start < t /\ t <= p[i].end
    BY DEF PiecesHold
  <2>1. t - w.start - 1 \in Nat /\ t - w.start - 1 < WindowLen(w) /\ t \in Nat
    BY <1>3
  <2>2. PICK q \in Nat : /\ q + 1 \in 1..count
                         /\ q * BytesMax <= t - w.start - 1 /\ t - w.start - 1 < q * BytesMax + BytesMax
    BY <1>1, <1>3, <2>1, CutsReach DEF count
  <2> DEFINE k == q + 1
  <2>3. k \in Nat /\ k >= 1 /\ k - 1 = q /\ k \in 1..count
    BY <2>2
  <2> HIDE DEF k
  <2>4. q * BytesMax \in Nat
    BY <1>1
  <2>5. from(k) \in Nat /\ from(k) = w.start + (k - 1) * BytesMax
    BY <1>6, <2>3 DEF from
  <2>6. from(k) = w.start + q * BytesMax
    BY <2>3, <2>5
  <2>7. from(k) < t /\ t <= from(k) + BytesMax
    BY <1>1, <2>1, <2>2, <2>4, <2>6
  <2>8. s[k] = Piece(w, k) /\ (k \in keep <=> s[k].content # <<>>)
    BY <1>5, <2>3
  <2>9. /\ s[k].start = from(k) /\ s[k].end \in {from(k) + BytesMax, w.end}
        /\ \A u \in (from(k) + 1)..s[k].end : text[u] \notin Blank => s[k].content # <<>>
    BY <2>5, <2>8, PieceTrue
  <2>10. t <= s[k].end /\ t \in (from(k) + 1)..s[k].end
    BY <1>1, <2>1, <2>5, <2>7, <2>9
  <2>11. k \in keep
    BY <2>8, <2>9, <2>10
  <2>12. Place(keep, k) \in 1..Len(p) /\ p[Place(keep, k)] = s[k]
    BY <1>12, <2>11 DEF Puts
  <2>13. QED
    BY <2>7, <2>9, <2>10, <2>12
<1>19. QED
  BY <1>12, <1>15, <1>16, <1>17, <1>18 DEF Cuts, p

-----------------------------------------------------------------------------
(* TextStages: windows and facts.                                            *)

LEMMA SegmentNat ==
    ASSUME index \in Seq(SegmentRecords), NEW s \in 1..Len(index)
    PROVE  /\ index[s][1] \in Nat /\ index[s][2] \in Nat /\ index[s][3] \in {"time", "line", "message"}
           /\ index[s][5] \in Nat /\ index[s][6] \in Nat
<1>1. index[s] \in SegmentRecords
  BY ItemOf, Zenon
<1>2. QED
  BY <1>1 DEF SegmentRecords

(* Order of naturals, in the forms the bounds need it.                       *)
LEMMA NoMore == ASSUME NEW a \in Nat, NEW b \in Nat, NEW c \in Nat, a <= b, b <= c PROVE a <= c
  OBVIOUS

(* The bytes of a span, and what lies within two bounds.                     *)
Span(a, b) == (a + 1)..b
Bounds(a, b) == a..b
Within(a, b, c, d) == {a, b, c, d} \subseteq Nat /\ c <= a /\ b <= d

LEMMA WiderSpan ==
    ASSUME NEW a, NEW b, NEW c, NEW d, Within(a, b, c, d)
    PROVE  \A t : t \in Span(a, b) => t \in Span(c, d)
  BY DEF Span, Within

LEMMA WiderRange ==
    ASSUME NEW a, NEW b, NEW c, NEW d, Within(a, b, c, d)
    PROVE  \A t : t \in Bounds(a, b) => t \in Bounds(c, d)
  BY DEF Bounds, Within

(* A segment between two others is within their spans and bounds.            *)
LEMMA SegmentBetween ==
    ASSUME index \in Seq(SegmentRecords), InOrder(index),
           NEW a \in 1..Len(index), NEW s \in 1..Len(index), NEW b \in 1..Len(index), a <= s, s <= b
    PROVE  /\ index[a][1] <= index[s][1] /\ index[s][2] <= index[b][2]
           /\ index[a][5] <= index[s][5] /\ index[s][6] <= index[b][6] /\ index[a][3] = index[s][3]
<1>1. /\ index[a][1] \in Nat /\ index[a][2] \in Nat /\ index[a][5] \in Nat /\ index[a][6] \in Nat
      /\ index[s][1] \in Nat /\ index[s][2] \in Nat /\ index[s][5] \in Nat /\ index[s][6] \in Nat
      /\ index[b][1] \in Nat /\ index[b][2] \in Nat /\ index[b][5] \in Nat /\ index[b][6] \in Nat
  BY SegmentNat
<1>2. /\ index[a][1] <= index[a][2] /\ index[a][5] <= index[a][6]
      /\ index[b][1] <= index[b][2] /\ index[b][5] <= index[b][6]
  BY DEF InOrder
<1>3. index[a][1] <= index[s][1] /\ index[a][5] <= index[s][5] /\ index[a][3] = index[s][3]
  <2>1. CASE a = s
    BY <1>1, <2>1
  <2>2. CASE a < s
    <3>1. index[a][2] <= index[s][1] /\ index[a][6] <= index[s][5] /\ index[a][3] = index[s][3]
      BY <2>2 DEF InOrder
    <3>2. QED
      BY <1>1, <1>2, <3>1, NoMore, Zenon
  <2>3. a = s \/ a < s
    OBVIOUS
  <2>4. QED
    BY <2>1, <2>2, <2>3
<1>4. index[s][2] <= index[b][2] /\ index[s][6] <= index[b][6]
  <2>1. CASE s = b
    BY <1>1, <2>1
  <2>2. CASE s < b
    <3>1. index[s][2] <= index[b][1] /\ index[s][6] <= index[b][5]
      BY <2>2 DEF InOrder
    <3>2. QED
      BY <1>1, <1>2, <3>1, NoMore, Zenon
  <2>3. s = b \/ s < b
    OBVIOUS
  <2>4. QED
    BY <2>1, <2>2, <2>3
<1>5. QED
  BY <1>3, <1>4

LEMMA FactNat ==
    ASSUME NEW f \in Seq(FactRecords), NEW i \in 1..Len(f)
    PROVE  f[i].start \in Nat /\ f[i].end \in Nat /\ f[i].locator[2] \in Nat /\ f[i].locator[3] \in Nat
<1>1. f[i] \in FactRecords
  BY ItemOf, Zenon
<1>2. f[i].start \in Nat /\ f[i].end \in Nat /\ f[i].locator \in {"time", "line", "message"} \X Nat \X Nat
  BY <1>1 DEF FactRecords
<1>3. QED
  BY <1>2

LEMMA JoinedIs ==
    ASSUME NEW S, NEW f \in Seq(S), NEW p \in Seq(S)
    PROVE  /\ f \o p \in Seq(S) /\ Len(f) \in Nat /\ Len(p) \in Nat /\ Len(f \o p) = Len(f) + Len(p)
           /\ \A i \in 1..Len(f) : (f \o p)[i] = f[i]
           /\ \A i \in 1..Len(p) : (f \o p)[Len(f) + i] = p[i]
  OBVIOUS

(* The facts of a window join those before it.                               *)
LEMMA FactsJoin ==
    ASSUME index \in Seq(SegmentRecords), InOrder(index), OnLines(index, text),
           NEW n \in 1..Len(index), NEW m \in Nat, m < n, NEW f, FactsTrue(f, m),
           NEW w, w.start = index[m + 1][1], w.end = index[n][2],
           w.locator = <<index[m + 1][3], index[m + 1][5], index[n][6]>>,
           NEW p, Cuts(p, w)
    PROVE  FactsTrue(f \o p, n)
<1> DEFINE a == m + 1
           g == f \o p
           lf == Len(f)
           lp == Len(p)
<1>1. Len(index) \in Nat /\ a \in 1..Len(index) /\ a <= n /\ n \in Nat
  BY LenNat
<1>2. f \in Seq(FactRecords) /\ p \in Seq(FactRecords)
  BY DEF FactsTrue, Cuts
<1>3. /\ g \in Seq(FactRecords) /\ lf \in Nat /\ lp \in Nat /\ Len(g) = lf + lp
      /\ \A i \in 1..lf : g[i] = f[i]
      /\ \A i \in 1..lp : g[lf + i] = p[i]
  BY <1>2, JoinedIs
<1>4. \A i \in 1..Len(g) : i \in 1..lf \/ \E j \in 1..lp : i = lf + j /\ g[i] = p[j]
  <2> SUFFICES ASSUME NEW i \in 1..Len(g), i \notin 1..lf PROVE \E j \in 1..lp : i = lf + j /\ g[i] = p[j]
    OBVIOUS
  <2>1. i - lf \in 1..lp /\ i = lf + (i - lf)
    BY <1>3
  <2>2. g[lf + (i - lf)] = p[i - lf]
    BY <1>3, <2>1
  <2>3. QED
    BY <2>1, <2>2
<1> HIDE DEF g, lf, lp, a
<1>5. /\ index[a][1] \in Nat /\ index[a][5] \in Nat /\ index[n][2] \in Nat /\ index[n][6] \in Nat
      /\ w.start = index[a][1] /\ w.end = index[n][2]
      /\ w.locator[1] = index[a][3] /\ w.locator[2] = index[a][5] /\ w.locator[3] = index[n][6]
  BY <1>1, SegmentNat DEF a
<1>6. ASSUME NEW i \in 1..lf PROVE f[i].start \in Nat /\ f[i].end \in Nat /\ f[i].locator[2] \in Nat /\ f[i].locator[3] \in Nat
  BY <1>2, FactNat DEF lf
<1>7. ASSUME NEW i \in 1..lp
      PROVE  /\ p[i].start \in Nat /\ p[i].end \in Nat
             /\ w.start <= p[i].start /\ p[i].end <= w.end /\ p[i].locator = w.locator
  BY <1>2, FactNat DEF lp, Cuts, PiecesWithin
<1>8. \A i \in 1..Len(g) : FactWhole(g[i])
  <2>1. (\A i \in 1..lf : FactWhole(f[i])) /\ (\A i \in 1..lp : FactWhole(p[i]))
    BY DEF FactsTrue, Cuts, lf, lp
  <2>2. QED
    BY <1>3, <1>4, <2>1
<1>9. FactsInOrder(g)
  <2> SUFFICES ASSUME NEW i \in 1..Len(g), NEW j \in 1..Len(g), i < j
               PROVE  /\ g[i].end <= g[j].start
                      /\ g[i].locator = g[j].locator \/ g[i].locator[3] <= g[j].locator[2]
    BY DEF FactsInOrder
  <2>1. CASE i \in 1..lf /\ j \in 1..lf
    <3>1. f[i].end <= f[j].start /\ (f[i].locator = f[j].locator \/ f[i].locator[3] <= f[j].locator[2])
      BY <2>1 DEF FactsTrue, FactsInOrder, lf
    <3>2. QED
      BY <1>3, <2>1, <3>1
  <2>2. CASE i \in 1..lf /\ \E k \in 1..lp : j = lf + k /\ g[j] = p[k]
    <3>1. PICK k \in 1..lp : g[j] = p[k]
      BY <2>2
    <3>2. f[i].end <= index[a][1] /\ f[i].locator[3] <= index[a][5]
      <4>1. a > m
        BY DEF a
      <4>2. QED
        BY <1>1, <2>2, <4>1 DEF FactsTrue, FactsBefore, lf
    <3>3. f[i].end <= p[k].start
      <4>1. /\ f[i].end \in Nat /\ p[k].start \in Nat /\ w.start = index[a][1]
            /\ index[a][1] \in Nat /\ w.start <= p[k].start
        BY <1>5, <1>6, <1>7, <2>2, Zenon
      <4>2. QED
        BY <3>2, <4>1, NoMore, Zenon
    <3>4. f[i].locator[3] <= p[k].locator[2]
      BY <1>5, <1>7, <3>2
    <3>5. QED
      BY <1>3, <2>2, <3>1, <3>3, <3>4
  <2>3. CASE (\E k \in 1..lp : i = lf + k /\ g[i] = p[k]) /\ \E k \in 1..lp : j = lf + k /\ g[j] = p[k]
    <3>1. PICK k \in 1..lp : i = lf + k /\ g[i] = p[k]
      BY <2>3
    <3>2. PICK l \in 1..lp : j = lf + l /\ g[j] = p[l]
      BY <2>3
    <3>3. k < l
      BY <1>3, <3>1, <3>2
    <3>4. p[k].end <= p[l].start
      BY <3>3 DEF Cuts, PiecesInOrder, lp
    <3>5. p[k].locator = p[l].locator
      BY <1>7
    <3>6. QED
      BY <3>1, <3>2, <3>4, <3>5
  <2>4. ~(j \in 1..lf /\ \E k \in 1..lp : i = lf + k)
    BY <1>3
  <2>5. QED
    BY <1>4, <2>1, <2>2, <2>3, <2>4
<1>10. FactsBefore(g, n)
  <2> SUFFICES ASSUME NEW i \in 1..Len(g), NEW s \in 1..Len(index), s > n
               PROVE  g[i].end <= index[s][1] /\ g[i].locator[3] <= index[s][5]
    BY DEF FactsBefore
  <2>1. CASE i \in 1..lf
    <3>1. s > m
      BY <1>1
    <3>2. f[i].end <= index[s][1] /\ f[i].locator[3] <= index[s][5]
      BY <2>1, <3>1 DEF FactsTrue, FactsBefore, lf
    <3>3. QED
      BY <1>3, <2>1, <3>2
  <2>2. CASE \E k \in 1..lp : i = lf + k /\ g[i] = p[k]
    <3>1. PICK k \in 1..lp : g[i] = p[k]
      BY <2>2
    <3>2. index[n][2] <= index[s][1] /\ index[n][6] <= index[s][5] /\ index[s][1] \in Nat
      BY SegmentNat DEF InOrder
    <3>3. p[k].end <= index[s][1]
      <4>1. p[k].end \in Nat /\ p[k].end <= w.end /\ w.end = index[n][2] /\ index[n][2] \in Nat
        BY <1>5, <1>7, Zenon
      <4>2. QED
        BY <3>2, <4>1, NoMore, Zenon
    <3>4. p[k].locator[3] <= index[s][5]
      BY <1>5, <1>7, <3>2
    <3>5. QED
      BY <3>1, <3>3, <3>4
  <2>3. QED
    BY <1>4, <2>1, <2>2
<1>11. FactsHold(g, n)
  <2> SUFFICES ASSUME NEW s \in 1..n, NEW t \in (index[s][1] + 1)..index[s][2], text[t] \notin Blank
               PROVE  \E i \in 1..Len(g) : FactHolds(g[i], t)
    BY DEF FactsHold
  <2>0. s \in 1..Len(index) /\ s \in Nat /\ s <= n
    BY <1>1
  <2>1. CASE s \in 1..m
    <3>1. PICK i \in 1..lf : FactHolds(f[i], t)
      BY <2>1 DEF FactsTrue, FactsHold, lf
    <3>2. i \in 1..Len(g) /\ g[i] = f[i]
      BY <1>3
    <3>3. QED
      BY <3>1, <3>2
  <2>2. CASE s \notin 1..m
    <3>1. a <= s
      BY <2>0, <2>2 DEF a
    <3>2. /\ index[a][1] <= index[s][1] /\ index[s][2] <= index[n][2]
          /\ index[a][5] <= index[s][5] /\ index[s][6] <= index[n][6] /\ index[a][3] = index[s][3]
      BY <1>1, <2>0, <3>1, SegmentBetween
    <3>3. index[s][1] \in Nat /\ index[s][2] \in Nat /\ index[s][5] \in Nat /\ index[s][6] \in Nat
      BY <2>0, SegmentNat
    <3>4. t \in (w.start + 1)..w.end
      <4>1. Within(index[s][1], index[s][2], w.start, w.end)
        BY <1>5, <3>2, <3>3, Zenon DEF Within
      <4>2. t \in Span(index[s][1], index[s][2])
        BY DEF Span
      <4>3. t \in Span(w.start, w.end)
        BY <4>1, <4>2, WiderSpan, SMT
      <4>4. QED
        BY <4>3 DEF Span
    <3>5. PICK k \in 1..lp : p[k].start < t /\ t <= p[k].end
      BY <3>4 DEF Cuts, PiecesHold, lp
    <3>6. ASSUME w.locator[1] = "line" PROVE LineIn(text, t) \in w.locator[2]..w.locator[3]
      <4>1. index[s][3] = "line"
        BY <1>5, <3>2, <3>6
      <4>2. LineIn(text, t) \in Bounds(index[s][5], index[s][6])
        BY <2>0, <4>1 DEF OnLines, Bounds
      <4>0. Within(index[s][5], index[s][6], index[a][5], index[n][6])
        BY <1>5, <3>2, <3>3, Zenon DEF Within
      <4>3. LineIn(text, t) \in Bounds(index[a][5], index[n][6])
        BY <4>0, <4>2, WiderRange, SMT
      <4>4. LineIn(text, t) \in Bounds(w.locator[2], w.locator[3])
        BY <1>5, <4>3, Zenon
      <4>5. QED
        BY <4>4 DEF Bounds
    <3>7. p[k].locator = w.locator
      BY <1>7
    <3>8. FactHolds(p[k], t)
      BY <3>5, <3>6, <3>7 DEF FactHolds
    <3>9. lf + k \in 1..Len(g) /\ g[lf + k] = p[k]
      <4>1. \A l \in 1..lp : lf + l \in 1..(lf + lp)
        BY <1>3, SMTT(40)
      <4>2. QED
        BY <1>3, <4>1, Zenon
    <3>10. QED
      BY <3>8, <3>9
  <2>3. QED
    BY <2>1, <2>2
<1>12. QED
  BY <1>3, <1>8, <1>9, <1>10, <1>11 DEF FactsTrue, g

-----------------------------------------------------------------------------
(* TextStages: the chunker's steps.                                          *)

(* What the chunker has before it: a text and its index.                     *)
Normalized ==
    /\ text \in Seq(TextBytes) /\ index \in Seq(SegmentRecords)
    /\ InOrder(index) /\ OnLines(index, text)
    /\ \A i \in 1..Len(index) : index[i][2] <= Len(text)

LEMMA EmptyTrue == ASSUME NEW n \in Nat PROVE WindowTrue(EmptyWindow, n) /\ EmptyWindow.count = 0
  BY DEF WindowTrue, Windows, EmptyWindow

(* A window that is not empty is a span of the text.                         *)
LEMMA WindowIs ==
    ASSUME Normalized, NEW n \in 1..Len(index), NEW w, WindowTrue(w, n), w.count # 0,
           NEW m, m = n - w.count
    PROVE  /\ m \in Nat /\ m < n
           /\ w.start = index[m + 1][1] /\ w.end = index[n][2]
           /\ w.locator = <<index[m + 1][3], index[m + 1][5], index[n][6]>>
           /\ w.start \in Nat /\ w.end \in Nat /\ w.start <= w.end /\ w.end <= Len(text) /\ w.locator \in Locators
<1>1. w.count \in 0..n /\ w.count > 0 /\ Len(index) \in Nat /\ index \in Seq(SegmentRecords) /\ InOrder(index)
  BY LenNat DEF WindowTrue, Normalized
<1>2. m \in Nat /\ m < n /\ m + 1 = n - w.count + 1 /\ m + 1 \in 1..Len(index) /\ m + 1 <= n
  BY <1>1
<1>3. /\ w.start = index[m + 1][1] /\ w.end = index[n][2]
      /\ w.locator = <<index[m + 1][3], index[m + 1][5], index[n][6]>>
  BY <1>1, <1>2, Zenon DEF WindowTrue
<1>4. /\ index[m + 1][1] \in Nat /\ index[m + 1][3] \in {"time", "line", "message"} /\ index[m + 1][5] \in Nat
      /\ index[n][1] \in Nat /\ index[n][2] \in Nat /\ index[n][6] \in Nat
  BY <1>1, <1>2, SegmentNat
<1>5. w.locator \in Locators
  BY <1>3, <1>4, SMTT(40) DEF Locators
<1>6. index[m + 1][1] <= index[n][1] /\ index[n][1] <= index[n][2] /\ index[n][2] <= Len(text)
  <2>1. index[m + 1][1] <= index[n][1]
    <3>1. n <= n
      OBVIOUS
    <3>2. QED
      BY <1>1, <1>2, <3>1, SegmentBetween
  <2>2. QED
    BY <2>1 DEF Normalized, InOrder
<1>7. index[m + 1][1] <= index[n][2]
  BY <1>4, <1>6, NoMore, Zenon
<1>8. QED
  BY <1>2, <1>3, <1>4, <1>5, <1>6, <1>7, Zenon

(* Closing a window gives its segments to the facts.                         *)
LEMMA CloseKeeps ==
    ASSUME Normalized, NEW n \in 0..Len(index), NEW w, WindowTrue(w, n), NEW f, FactsTrue(f, n - w.count)
    PROVE  Pieces(w) \in Seq(FactRecords) /\ FactsTrue(f \o Pieces(w), n)
<1>1. CASE w.count = 0
  <2>1. Pieces(w) = <<>> /\ n - w.count = n
    BY <1>1, LenNat DEF Pieces, Normalized
  <2>2. f \in Seq(FactRecords)
    BY DEF FactsTrue
  <2>3. f \o <<>> = f
    BY <2>2
  <2>4. FactsTrue(f, n)
    BY <2>1, Zenon
  <2>5. Pieces(w) \in Seq(FactRecords)
    BY <2>1
  <2>6. QED
    BY <2>1, <2>3, <2>4, <2>5, Zenon
<1>2. CASE w.count # 0
  <2> DEFINE m == n - w.count
  <2>1. n \in 1..Len(index)
    BY <1>2, LenNat DEF WindowTrue, Normalized
  <2>2. /\ m \in Nat /\ m < n
        /\ w.start = index[m + 1][1] /\ w.end = index[n][2]
        /\ w.locator = <<index[m + 1][3], index[m + 1][5], index[n][6]>>
        /\ w.start \in Nat /\ w.end \in Nat /\ w.start <= w.end /\ w.end <= Len(text) /\ w.locator \in Locators
    BY <1>2, <2>1, WindowIs
  <2>3. FactsTrue(f, m)
    OBVIOUS
  <2> HIDE DEF m
  <2>4. Cuts(Pieces(w), w)
    <3>1. text \in Seq(TextBytes)
      BY DEF Normalized
    <3>2. QED
      BY <1>2, <2>2, <3>1, PiecesTrue
  <2>5. index \in Seq(SegmentRecords) /\ InOrder(index) /\ OnLines(index, text)
    BY DEF Normalized
  <2>6. FactsTrue(f \o Pieces(w), n)
    BY <2>1, <2>2, <2>3, <2>4, <2>5, FactsJoin
  <2>7. QED
    BY <2>4, <2>6 DEF Cuts
<1>3. QED
  BY <1>1, <1>2

(* A pushed segment is the window's last.                                    *)
LEMMA PushKeeps ==
    ASSUME Normalized, NEW n \in Nat, n < Len(index), NEW w, WindowTrue(w, n),
           NEW g, g = Pushed(w, Decode(index[n + 1]))
    PROVE  WindowTrue(g, n + 1) /\ g.count = w.count + 1
<1> DEFINE r == index[n + 1]
           loc == <<r[3], r[5], r[6]>>
<1>1. n + 1 \in 1..Len(index) /\ index \in Seq(SegmentRecords) /\ Len(index) \in Nat
  BY LenNat DEF Normalized
<1>2. r \in SegmentRecords
  BY <1>1, ItemOf, Zenon
<1>3. /\ r[1] \in Nat /\ r[2] \in Nat /\ r[3] \in {"time", "line", "message"} /\ r[4] \in 0..6
      /\ r[5] \in Nat /\ r[6] \in Nat
  BY <1>2 DEF SegmentRecords
<1>4. loc \in Locators
  BY <1>3 DEF Locators
<1>5. w \in Windows /\ w.count \in 0..n
  BY DEF WindowTrue
<1>6. CASE w.count = 0
  <2>1. g = [start |-> r[1], end |-> r[2], locator |-> loc, depth |-> r[4], count |-> 1]
    BY <1>6 DEF Pushed, Decode
  <2>2. g \in Windows
    BY <1>3, <2>1 DEF Windows
  <2>3. g.count = 1 /\ g.start = r[1] /\ g.end = r[2] /\ g.locator = loc /\ (n + 1) - g.count + 1 = n + 1 /\ g.count \in 0..(n + 1)
    BY <2>1
  <2>4. QED
    BY <1>6, <2>2, <2>3 DEF WindowTrue
<1>7. CASE w.count # 0
  <2> DEFINE m == n - w.count
  <2>1. n \in 1..Len(index)
    BY <1>1, <1>5, <1>7
  <2>2. /\ m \in Nat /\ m < n
        /\ w.start = index[m + 1][1]
        /\ w.locator = <<index[m + 1][3], index[m + 1][5], index[n][6]>>
    BY <1>7, <2>1, WindowIs
  <2> HIDE DEF m
  <2>3. index[m + 1][3] = r[3]
    <3>1. m + 1 \in 1..Len(index) /\ m + 1 < n + 1
      BY <1>1, <2>2
    <3>2. QED
      BY <1>1, <3>1 DEF Normalized, InOrder
  <2>4. w.locator[1] = r[3] /\ w.locator[2] = index[m + 1][5]
    BY <2>2, <2>3
  <2>5. g = [w EXCEPT !.end = r[2], !.locator = Extended(w.locator, loc), !.count = w.count + 1]
    BY <1>7 DEF Pushed, Decode
  <2>6. Extended(w.locator, loc) = <<index[m + 1][3], index[m + 1][5], r[6]>>
    BY <2>3, <2>4 DEF Extended
  <2>7. index[m + 1][5] \in Nat
    <3>1. m + 1 \in 1..Len(index)
      BY <1>1, <2>2
    <3>2. QED
      BY <1>1, <3>1, SegmentNat, Zenon
  <2>8. /\ g.count = w.count + 1 /\ g.start = w.start /\ g.end = r[2] /\ g.depth = w.depth
        /\ g.locator = <<index[m + 1][3], index[m + 1][5], r[6]>>
        /\ g = [start |-> g.start, end |-> g.end, locator |-> g.locator, depth |-> g.depth, count |-> g.count]
    BY <1>5, <2>5, <2>6 DEF Windows
  <2>9. g.locator \in {"none", "time", "line", "message"} \X Nat \X Nat
    BY <1>3, <2>3, <2>7, <2>8
  <2>10. g.start \in Nat /\ g.end \in Nat /\ g.depth \in 0..6 /\ g.count \in Nat
    BY <1>3, <1>5, <2>8, SMTT(40) DEF Windows
  <2>11. g \in Windows
    BY <2>8, <2>9, <2>10 DEF Windows
  <2>12. (n + 1) - g.count + 1 = m + 1 /\ g.count \in 0..(n + 1) /\ g.count # 0
    BY <1>5, <2>8, SMTT(40) DEF m
  <2>13. QED
    BY <2>2, <2>8, <2>11, <2>12, Zenon DEF WindowTrue
<1>8. QED
  BY <1>6, <1>7

LEMMA EmitAll ==
    ASSUME facts \in Seq(FactRecords), NEW p \in Seq(FactRecords), NEW next, Emit(p, next), tpc' # "failed"
    PROVE  facts' = facts \o p /\ tpc' = next
<1> DEFINE m == Min({Len(p), ChunkCountMax - Len(facts)})
<1>1. Len(p) \in Nat /\ Len(facts) \in Nat /\ ChunkCountMax \in Nat
  BY LenNat, TextBounds
<1>2. ~(Len(facts) + Len(p) > ChunkCountMax) /\ tpc' = next /\ facts' = facts \o SubSeq(p, 1, m)
  BY DEF Emit
<1>3. m \in {Len(p), ChunkCountMax - Len(facts)} /\ m <= Len(p) /\ m <= ChunkCountMax - Len(facts)
  <2>1. Len(p) \in Int /\ ChunkCountMax - Len(facts) \in Int
    BY <1>1
  <2>2. QED
    BY <2>1, MinTwo, Zenon
<1> HIDE DEF m
<1>4. m = Len(p)
  BY <1>1, <1>2, <1>3
<1>5. SubSeq(p, 1, Len(p)) = p
  OBVIOUS
<1>6. QED
  BY <1>2, <1>4, <1>5

(* A step of the chunker, seen from its result.                              *)
LEMMA ChunkMoves ==
    ASSUME TextInv, tpc = "chunk", tpc' \in {"chunk", "done"}, UNCHANGED <<doc, scan, text, index>>,
           read' \in Nat, read' <= Len(index), WindowTrue(window', read'), FactsTrue(facts', read' - window'.count),
           tpc' = "done" => read' = Len(index) /\ window'.count = 0
    PROVE  TextInv'
<1>1. TextTyped /\ Chunked
  BY DEF TextInv
<1>2. TextTyped'
  BY <1>1 DEF TextTyped
<1>3. RawText' = RawText
  BY DEF RawText, Kept, IsMark
<1>4. IndexTrue(index, text, Len(text))' = IndexTrue(index, text, Len(text))
  BY DEF IndexTrue, InOrder, Holds, OnLines, LineIn
<1>5. WindowTrue(window, read)' = WindowTrue(window', read')
  BY DEF WindowTrue
<1>6. FactsTrue(facts, read - window.count)' = FactsTrue(facts', read' - window'.count)
  <2>1. FactRecords' = FactRecords
    BY DEF FactRecords
  <2>2. \A f : (\A i \in 1..Len(f) : FactWhole(f[i]))' = (\A i \in 1..Len(f) : FactWhole(f[i]))
    BY DEF FactWhole
  <2>3. QED
    BY <2>1, <2>2 DEF FactsTrue, FactsInOrder, FactsBefore, FactsHold, FactHolds, LineIn
<1>7. Chunked'
  BY <1>1, <1>3, <1>4, <1>5, <1>6 DEF Chunked
<1>8. QED
  BY <1>2, <1>7 DEF TextInv

LEMMA ChunkHas ==
    ASSUME TextInv, tpc = "chunk"
    PROVE  /\ Normalized /\ read \in Nat /\ Len(index) \in Nat /\ read <= Len(index)
           /\ WindowTrue(window, read) /\ window.count \in 0..read
           /\ FactsTrue(facts, read - window.count) /\ facts \in Seq(FactRecords)
<1>1. TextTyped /\ Chunked
  BY DEF TextInv
<1>2. Normalized /\ read \in Nat /\ read <= Len(index) /\ WindowTrue(window, read) /\ FactsTrue(facts, read - window.count)
  BY <1>1 DEF TextTyped, Chunked, Normalized, IndexTrue
<1>3. QED
  BY <1>2, LenNat DEF Normalized, WindowTrue, FactsTrue

LEMMA Joined3 ==
    ASSUME NEW S, NEW f \in Seq(S), NEW p \in Seq(S), NEW q \in Seq(S)
    PROVE  p \o q \in Seq(S) /\ f \o (p \o q) = (f \o p) \o q /\ f \o <<>> = f /\ f \o p \in Seq(S)
  OBVIOUS

LEMMA ChunkDoneStep == ASSUME TextInv, ChunkDone PROVE TextInv'
<1>1. /\ tpc = "chunk" /\ read = Len(index) /\ Emit(Pieces(window), "done") /\ window' = EmptyWindow
      /\ UNCHANGED <<doc, scan, text, index>> /\ read' = read
  BY DEF ChunkDone
<1>2. CASE tpc' = "failed"
  BY <1>2 DEF TextInv
<1>3. CASE tpc' # "failed"
  <2>1. /\ Normalized /\ read \in Nat /\ Len(index) \in Nat /\ read <= Len(index)
        /\ WindowTrue(window, read) /\ FactsTrue(facts, read - window.count) /\ facts \in Seq(FactRecords)
    BY <1>1, ChunkHas
  <2>2. read \in 0..Len(index)
    BY <2>1
  <2>3. Pieces(window) \in Seq(FactRecords) /\ FactsTrue(facts \o Pieces(window), read)
    BY <2>1, <2>2, CloseKeeps, Zenon
  <2>4. facts' = facts \o Pieces(window) /\ tpc' = "done"
    BY <1>1, <1>3, <2>1, <2>3, EmitAll
  <2>5. WindowTrue(EmptyWindow, read) /\ EmptyWindow.count = 0
    BY <2>1, EmptyTrue
  <2>6. read' - window'.count = read
    BY <1>1, <2>1, <2>5
  <2>7. FactsTrue(facts', read' - window'.count)
    BY <2>3, <2>4, <2>6, Zenon
  <2>8. /\ read' \in Nat /\ read' <= Len(index) /\ WindowTrue(window', read') /\ read' = Len(index) /\ window'.count = 0
    BY <1>1, <2>1, <2>5, Zenon
  <2>9. QED
    BY <1>1, <2>4, <2>7, <2>8, ChunkMoves
<1>4. QED
  BY <1>2, <1>3

LEMMA ChunkSegmentStep == ASSUME TextInv, ChunkSegment PROVE TextInv'
<1> DEFINE segment == Decode(index[read + 1])
           closes == WouldClose(window, segment)
           before == IF closes THEN Pieces(window) ELSE <<>>
           kept == IF closes THEN EmptyWindow ELSE window
           grown == Pushed(kept, segment)
           full == BoundaryRule(doc.shape) = "per segment" \/ WindowLen(grown) >= BytesMax
           after == IF full THEN Pieces(grown) ELSE <<>>
           left == IF full THEN EmptyWindow ELSE grown
<1>0. tpc = "chunk" /\ read < Len(index)
  BY DEF ChunkSegment
<1>1. /\ Emit(before \o after, "chunk") /\ window' = left
      /\ read' = read + 1 /\ UNCHANGED <<doc, scan, text, index>>
  BY DEF ChunkSegment
<1>2. CASE tpc' = "failed"
  BY <1>2 DEF TextInv
<1>3. CASE tpc' # "failed"
  <2>1. /\ Normalized /\ read \in Nat /\ Len(index) \in Nat /\ read <= Len(index)
        /\ WindowTrue(window, read) /\ window.count \in 0..read
        /\ FactsTrue(facts, read - window.count) /\ facts \in Seq(FactRecords)
    BY <1>0, ChunkHas
  <2>2. read \in 0..Len(index) /\ read + 1 \in 0..Len(index) /\ read + 1 \in Nat
    BY <1>0, <2>1
  <2>3. WindowTrue(EmptyWindow, read) /\ WindowTrue(EmptyWindow, read + 1) /\ EmptyWindow.count = 0
    BY <2>1, <2>2, EmptyTrue
  <2>4. /\ before \in Seq(FactRecords) /\ WindowTrue(kept, read) /\ kept.count \in 0..read
        /\ FactsTrue(facts \o before, read - kept.count)
    <3>1. CASE closes
      <4>1. Pieces(window) \in Seq(FactRecords) /\ FactsTrue(facts \o Pieces(window), read)
        BY <2>1, <2>2, CloseKeeps, Zenon
      <4>2. read - EmptyWindow.count = read /\ EmptyWindow.count \in 0..read
        BY <2>1, <2>3
      <4>3. QED
        BY <2>3, <3>1, <4>1, <4>2, Zenon
    <3>2. CASE ~closes
      <4>1. facts \o <<>> = facts /\ <<>> \in Seq(FactRecords)
        BY <2>1
      <4>2. before = <<>> /\ kept = window
        BY <3>2
      <4>3. QED
        BY <2>1, <4>1, <4>2, Zenon
    <3>3. QED
      BY <3>1, <3>2
  <2> HIDE DEF before, kept, closes
  <2>5. WindowTrue(grown, read + 1) /\ grown.count = kept.count + 1
    BY <1>0, <2>1, <2>4, PushKeeps
  <2> HIDE DEF grown
  <2>6. (read + 1) - grown.count = read - kept.count
    BY <2>1, <2>4, <2>5, SMTT(40)
  <2>7. FactsTrue(facts \o before, (read + 1) - grown.count)
    BY <2>4, <2>6, Zenon
  <2>8. facts \o before \in Seq(FactRecords)
    BY <2>4 DEF FactsTrue
  <2>9. /\ after \in Seq(FactRecords) /\ WindowTrue(left, read + 1)
        /\ FactsTrue((facts \o before) \o after, (read + 1) - left.count)
    <3>1. CASE full
      <4>1. Pieces(grown) \in Seq(FactRecords) /\ FactsTrue((facts \o before) \o Pieces(grown), read + 1)
        BY <2>1, <2>2, <2>5, <2>7, CloseKeeps, Zenon
      <4>2. (read + 1) - EmptyWindow.count = read + 1
        BY <2>1, <2>3
      <4>3. QED
        BY <2>3, <3>1, <4>1, <4>2, Zenon
    <3>2. CASE ~full
      <4>1. (facts \o before) \o <<>> = facts \o before /\ <<>> \in Seq(FactRecords)
        BY <2>8
      <4>2. after = <<>> /\ left = grown
        BY <3>2
      <4>3. QED
        BY <2>5, <2>7, <4>1, <4>2, Zenon
    <3>3. QED
      BY <3>1, <3>2
  <2> HIDE DEF after, left, full
  <2>10. before \o after \in Seq(FactRecords) /\ facts \o (before \o after) = (facts \o before) \o after
    BY <2>1, <2>4, <2>9, Joined3, SMTT(60)
  <2>11. facts' = (facts \o before) \o after /\ tpc' = "chunk"
    <3>1. facts' = facts \o (before \o after) /\ tpc' = "chunk"
      BY <1>1, <1>3, <2>1, <2>10, EmitAll
    <3>2. QED
      BY <2>10, <3>1, Zenon
  <2>12. /\ read' \in Nat /\ read' <= Len(index) /\ WindowTrue(window', read')
         /\ FactsTrue(facts', read' - window'.count)
    <3>1. read' \in Nat /\ read' <= Len(index)
      BY <1>0, <1>1, <2>1
    <3>2. QED
      BY <1>1, <2>9, <2>11, <3>1, Zenon
  <2>13. QED
    BY <1>0, <1>1, <2>11, <2>12, ChunkMoves
<1>4. QED
  BY <1>2, <1>3

LEMMA WindowEndsStep == ASSUME TextInv, WindowEnds PROVE TextInv'
  BY DEF WindowEnds, TextInv

LEMMA TextStays == ASSUME TextInv, UNCHANGED textVars PROVE TextInv'
<1>1. UNCHANGED <<doc, tpc, scan, text, index, read, window, facts>>
  BY DEF textVars
<1>2. /\ TextTyped' = TextTyped /\ RawText' = RawText
      /\ Kept' = Kept /\ ByMessage' = ByMessage
  BY <1>1 DEF TextTyped, RawText, Kept, IsMark, ByMessage
<1>3. ScanTrue(scan, text, index)' = ScanTrue(scan, text, index)
  <2>1. ScanKind' = ScanKind /\ ScanMark(scan)' = ScanMark(scan)
    BY <1>1, <1>2 DEF ScanKind, ScanMark
  <2>2. KeptSoFar(text, scan.at)' = KeptSoFar(text, scan.at)
    BY <1>1, <1>2 DEF KeptSoFar
  <2>3. QED
    BY <1>1, <2>1, <2>2 DEF ScanTrue, OpenRecord, IndexTrue, Before, InOrder, Holds, OnLines, LineIn
<1>4. Cued' = Cued
  BY <1>1 DEF Cued, IndexTrue, Before, InOrder, Holds, OnLines, LineIn
<1>5. IndexTrue(index, text, Len(text))' = IndexTrue(index, text, Len(text))
  BY <1>1 DEF IndexTrue, InOrder, Holds, OnLines, LineIn
<1>6. FactsTrue(facts, read - window.count)' = FactsTrue(facts, read - window.count)
  <2>1. FactRecords' = FactRecords
    BY <1>1 DEF FactRecords
  <2>2. (\A i \in 1..Len(facts) : FactWhole(facts[i]))' = (\A i \in 1..Len(facts) : FactWhole(facts[i]))
    BY <1>1 DEF FactWhole
  <2>3. /\ FactsInOrder(facts)' = FactsInOrder(facts)
        /\ FactsBefore(facts, read - window.count)' = FactsBefore(facts, read - window.count)
    BY <1>1 DEF FactsInOrder, FactsBefore
  <2>4. FactsHold(facts, read - window.count)' = FactsHold(facts, read - window.count)
    BY <1>1 DEF FactsHold, FactHolds, LineIn
  <2>5. (facts \in Seq(FactRecords))' = (facts \in Seq(FactRecords))
    BY <1>1, <2>1
  <2>6. QED
    BY <2>2, <2>3, <2>4, <2>5 DEF FactsTrue
<1>7. WindowTrue(window, read)' = WindowTrue(window, read)
  BY <1>1 DEF WindowTrue
<1>8. Chunked' = Chunked
  BY <1>1, <1>2, <1>5, <1>6, <1>7 DEF Chunked
<1>9. QED
  BY <1>1, <1>2, <1>3, <1>4, <1>8 DEF TextInv

LEMMA TextStarts == ASSUME TextInit PROVE TextInv
<1>1. /\ doc \in Documents /\ tpc = "start" /\ scan = FreshScan /\ text = <<>> /\ index = <<>>
      /\ read = 0 /\ window = EmptyWindow /\ facts = <<>>
  BY DEF TextInit
<1>2. FreshScan \in ScanStates
  BY DEF FreshScan, ScanStates
<1>3. TextTyped
  BY <1>1, <1>2 DEF TextTyped
<1>4. QED
  BY <1>1, <1>3 DEF TextInv

LEMMA TextInvStep == ASSUME TextInv, [TextNext]_textVars PROVE TextInv'
<1>1. CASE NormalizeRun
  BY <1>1, NormalizeStep
<1>2. CASE Absorb
  BY <1>2, AbsorbStep
<1>3. CASE WindowEnds
  BY <1>3, WindowEndsStep
<1>4. CASE ScanDone
  BY <1>4, ScanDoneStep
<1>5. CASE NextBlock
  BY <1>5, NextBlockStep
<1>5a. CASE BlockRefused
  BY <1>5a DEF BlockRefused, TextInv
<1>6. CASE CuesDone
  BY <1>6, CuesDoneStep
<1>7. CASE ChunkSegment
  BY <1>7, ChunkSegmentStep
<1>8. CASE ChunkDone
  BY <1>8, ChunkDoneStep
<1>9. CASE UNCHANGED textVars
  BY <1>9, TextStays
<1>10. QED
  BY <1>1, <1>2, <1>3, <1>4, <1>5, <1>5a, <1>6, <1>7, <1>8, <1>9 DEF TextNext

(* When every segment is read and none is waiting, the facts are the        *)
(* citations of the whole text.                                              *)
LEMMA TextInvCites == ASSUME TextInv PROVE CitationsSound
<1> SUFFICES ASSUME tpc = "done" PROVE CitationsSound!2
  BY DEF CitationsSound
<1>1. TextTyped /\ Chunked
  BY DEF TextInv
<1>2. /\ text \in Seq(TextBytes) /\ index \in Seq(SegmentRecords) /\ read = Len(index) /\ window.count = 0
      /\ IndexTrue(index, text, Len(text)) /\ FactsTrue(facts, read - window.count)
      /\ doc.media \notin {"captions", "audio", "video", "opaque"} => text = RawText
  BY <1>1 DEF TextTyped, Chunked
<1>3. Len(index) \in Nat /\ read - window.count = Len(index)
  BY <1>2, LenNat
<1>4. FactsTrue(facts, Len(index))
  BY <1>2, <1>3, Zenon
<1>5. /\ facts \in Seq(FactRecords) /\ \A i \in 1..Len(facts) : FactWhole(facts[i])
      /\ FactsInOrder(facts) /\ FactsHold(facts, Len(index))
  BY <1>4 DEF FactsTrue
<1>6. DOMAIN text = 1..Len(text) /\ DOMAIN facts = 1..Len(facts)
  BY <1>2, <1>5
<1>7. doc.media \in {"plaintext", "markdown", "csv", "structured"} => text = RawText
  BY <1>2
<1>8. ASSUME NEW t \in DOMAIN text, text[t] \notin Blank
      PROVE  \E i \in DOMAIN facts :
                 /\ facts[i].start < t /\ t <= facts[i].end
                 /\ facts[i].locator[1] = "line" => LineIn(text, t) \in facts[i].locator[2]..facts[i].locator[3]
  <2>1. t \in 1..Len(text) /\ Len(text) \in Nat
    BY <1>2, <1>6, LenNat
  <2>2. PICK s \in 1..Len(index) : index[s][1] < t /\ t <= index[s][2]
    BY <1>2, <1>8, <2>1 DEF IndexTrue, Holds
  <2>3. index[s][1] \in Nat /\ index[s][2] \in Nat
    BY <1>2, SegmentNat
  <2>4. t \in (index[s][1] + 1)..index[s][2]
    BY <2>1, <2>2, <2>3
  <2>5. PICK i \in 1..Len(facts) : FactHolds(facts[i], t)
    BY <1>5, <1>8, <2>4 DEF FactsHold
  <2>6. QED
    BY <1>6, <2>5 DEF FactHolds
<1>9. ASSUME NEW i \in DOMAIN facts, NEW j \in DOMAIN facts, i < j
      PROVE  /\ facts[i].end <= facts[j].start
             /\ facts[i].id # facts[j].id
             /\ facts[i].locator[1] = "time" =>
                    facts[i].locator = facts[j].locator \/ facts[i].locator[3] <= facts[j].locator[2]
  <2>1. /\ facts[i].end <= facts[j].start
        /\ facts[i].locator = facts[j].locator \/ facts[i].locator[3] <= facts[j].locator[2]
    BY <1>5, <1>6, <1>9 DEF FactsInOrder
  <2>2. FactWhole(facts[i]) /\ FactWhole(facts[j])
    BY <1>5, <1>6
  <2>3. facts[i].start \in Nat /\ facts[i].end \in Nat /\ facts[j].start \in Nat
    BY <1>5, <1>6, FactNat
  <2>4. facts[i].start # facts[j].start
    BY <2>1, <2>2, <2>3 DEF FactWhole
  <2>5. facts[i].id # facts[j].id
    <3>1. facts[i].id[2] = facts[i].start /\ facts[j].id[2] = facts[j].start
      BY <2>2 DEF FactWhole
    <3>2. QED
      BY <2>4, <3>1, Zenon
  <2>6. QED
    BY <2>1, <2>5
<1>10. QED
  BY <1>7, <1>8, <1>9

(* What a citation relies on holds of any documents and any limits: when     *)
(* chunk_evidence is done, the text is the content without its mark and      *)
(* carriage returns, every word is in a chunk on a line it names, chunks are *)
(* in order and differ in their ids, and the moments of a recording do too.  *)
THEOREM CitationsAreSound == TextSpec => []CitationsSound
<1>1. TextInit => TextInv
  BY TextStarts
<1>2. TextInv /\ [TextNext]_textVars => TextInv'
  BY TextInvStep
<1>3. TextInv => CitationsSound
  BY TextInvCites
<1>4. QED
  BY <1>1, <1>2, <1>3, PTL DEF TextSpec

=============================================================================
