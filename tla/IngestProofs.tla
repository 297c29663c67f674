----------------------------- MODULE IngestProofs -----------------------------
(***************************************************************************)
(* Proofs about six parts of ingest: Embed, for every set of items, chunks   *)
(* and workers and every batching bound; BoundedStream, for every content,   *)
(* buffer and read size; Intake, for every tree; Ingest, for every set of    *)
(* items, workers, connectors and requesters and every chunk plan that       *)
(* list_chunks returns whole; Transcript, for every recording, window,       *)
(* overlap, batch and page size; and Audio, for every track, engine rate,    *)
(* kernel and cut into packets.                                              *)
(***************************************************************************)
EXTENDS Ingest, Embed, BoundedStream, Intake, Transcript, Audio, FiniteSetTheorems, WellFoundedInduction, SequenceTheorems, TLAPS

-----------------------------------------------------------------------------
(* Sets of numbers.                                                          *)

(* Every set of naturals that is not empty has a least member.               *)
LEMMA LeastNat ==
    ASSUME NEW T \in SUBSET Nat, T # {}
    PROVE  \E n \in T : \A m \in T : n <= m
<1> DEFINE R == {ss \in Nat \X Nat : ss[1] < ss[2]}
<1>1. IsWellFoundedOn(R, Nat)
  BY NatLessThanWellFounded DEF OpToRel
<1>2. PICK n \in T : \A m \in T : ~ (<<m, n>> \in R)
  <2> HIDE DEF R
  <2> QED
    BY <1>1, WFMin
<1>3. \A m \in T : ~(m < n)
  BY <1>2
<1> QED
  BY <1>3

(* Induction, with the property as a set.                                    *)
LEMMA SetInduction ==
    ASSUME NEW S, 0 \in S, \A n \in Nat : n \in S => n + 1 \in S
    PROVE  Nat \subseteq S
<1> SUFFICES ASSUME Nat \ S # {} PROVE FALSE
  OBVIOUS
<1> DEFINE T == Nat \ S
<1>1. PICK n \in T : \A m \in T : n <= m
  <2>1. T \in SUBSET Nat /\ T # {}
    OBVIOUS
  <2> HIDE DEF T
  <2> QED
    BY <2>1, LeastNat
<1>2. n \in Nat /\ n # 0 /\ n \notin S
  OBVIOUS
<1>3. n - 1 \in Nat
  BY <1>2
<1>4. n - 1 \notin T
  BY <1>1, <1>2, <1>3
<1>5. (n - 1) + 1 \in S
  BY <1>3, <1>4
<1> QED
  BY <1>2, <1>5

-----------------------------------------------------------------------------
(* Embed: the inductive invariant.                                           *)

EmbedContents == UNION {{c.content : c \in Range(ChunksOf[i])} : i \in DOMAIN ChunksOf}
VectorRows == [blob: Seq(EmbedContents), row: Nat]
FailureReasons == {"none", "embed_model_missing", "ok", "budget_exhausted", "malformed_output"}
EmbedAttempts ==
    [pc: {"rest", "plan", "push", "flush", "write", "commit", "done", "failed"},
     item: EmbedItems \cup {0}, todo: SUBSET Nat, pending: Seq(EmbedChunkIds),
     vectors: Seq(EmbedContents), why: FailureReasons]

(* Every listed chunk of the item has a row, is still to be visited, or is in the   *)
(* batch.                                                                    *)
Covered(k, vrs) ==
    \A n \in Listed(k.item) :
        \/ vrs[<<k.item, n>>] # NoVector
        \/ n \in k.todo
        \/ \E m \in DOMAIN k.pending : k.pending[m] = <<k.item, n>>

(* What an attempt carries is true of the rows and the blobs.                *)
AttemptTrue(k, vrs, blobs) ==
    /\ k.pc # "rest" => k.item \in EmbedItems /\ k.todo \subseteq Listed(k.item)
    /\ k.pc \in {"push", "flush", "write", "commit"} => Covered(k, vrs)
    /\ k.pc = "flush" => k.pending # <<>>
    /\ k.pc \in {"write", "commit"} => k.vectors = Contents(k.pending)
    /\ k.pc = "commit" => k.vectors \in blobs
    /\ k.pc = "done" => \A n \in Listed(k.item) : vrs[<<k.item, n>>] # NoVector

RowsSound(vrs, blobs) ==
    \A id \in EmbedChunkIds : vrs[id] # NoVector =>
        vrs[id].blob \in blobs /\ vrs[id].blob[vrs[id].row] = ChunkOf(id).content

EmbedInv ==
    /\ vecRows \in [EmbedChunkIds -> VectorRows \cup {NoVector}]
    /\ RowsSound(vecRows, vecBlobs)
    /\ emb \in [EmbedWorkers -> EmbedAttempts]
    /\ \A w \in EmbedWorkers : AttemptTrue(emb[w], vecRows, vecBlobs)

-----------------------------------------------------------------------------
(* Embed: chunks, batches and answers.                                       *)

(* The listed chunks of an item are numbered, and are chunks of it.          *)
LEMMA ChunkNumbers ==
    ASSUME NEW i \in EmbedItems
    PROVE  /\ Listed(i) \subseteq Nat
           /\ \A n \in Listed(i) : <<i, n>> \in EmbedChunkIds
<1>1. ChunksOf[i] \in Seq(Range(ChunksOf[i]))
  BY EmbedAssumption DEF EmbedItems
<1>2. DOMAIN ChunksOf[i] = 1..Len(ChunksOf[i]) /\ Len(ChunksOf[i]) \in Nat
  BY <1>1
<1>3. \A n \in DOMAIN ChunksOf[i] : <<i, n>> \in {i} \X DOMAIN ChunksOf[i]
  OBVIOUS
<1> QED
  BY <1>2, <1>3 DEF EmbedChunkIds, Listed

(* The content of a chunk is one of the contents.                            *)
LEMMA ContentType ==
    ASSUME NEW id \in EmbedChunkIds
    PROVE  ChunkOf(id).content \in EmbedContents
<1>1. PICK i \in EmbedItems : id \in {i} \X DOMAIN ChunksOf[i]
  BY DEF EmbedChunkIds
<1>2. id[1] = i /\ id[2] \in DOMAIN ChunksOf[i]
  BY <1>1
<1>3. ChunkOf(id) \in Range(ChunksOf[i])
  BY <1>2 DEF ChunkOf, Range
<1> QED
  BY <1>1, <1>3 DEF EmbedContents, EmbedItems

(* The vectors of a batch are the contents of its chunks, in order.          *)
LEMMA ContentsType ==
    ASSUME NEW ids \in Seq(EmbedChunkIds)
    PROVE  /\ Contents(ids) \in Seq(EmbedContents)
           /\ DOMAIN Contents(ids) = DOMAIN ids
           /\ \A k \in DOMAIN ids : Contents(ids)[k] = ChunkOf(ids[k]).content
<1>1. DOMAIN ids = 1..Len(ids) /\ Len(ids) \in Nat /\ \A k \in DOMAIN ids : ids[k] \in EmbedChunkIds
  OBVIOUS
<1>2. \A k \in 1..Len(ids) : ChunkOf(ids[k]).content \in EmbedContents
  BY <1>1, ContentType
<1>3. Contents(ids) = [k \in 1..Len(ids) |-> ChunkOf(ids[k]).content]
  BY <1>1 DEF Contents
<1>4. Contents(ids) \in [1..Len(ids) -> EmbedContents]
  BY <1>2, <1>3
<1> QED
  BY <1>1, <1>3, <1>4

(* Whatever order an endpoint answers in, a list that parse_embeddings       *)
(* accepts is put back in the order of the batch.                            *)
LEMMA ParsedInOrder ==
    ASSUME NEW ids \in Seq(EmbedChunkIds), ids # <<>>, NEW vrs \in CloudAnswers(ids),
           ParseEmbeddings(vrs, Len(ids)).weather = "ok"
    PROVE  ParseEmbeddings(vrs, Len(ids)).vectors = Contents(ids)
<1> DEFINE n == Len(ids)
           C == Contents(ids)
           Entry(j, x) == [index |-> x, vector |-> C[j]]
           ordered == [j \in DOMAIN ids |-> Entry(j, j)]
           R == [index: Int, vector: EmbedContents]
<1>1. n \in Nat /\ n >= 1 /\ DOMAIN ids = 1..n
  OBVIOUS
<1>2. \A j \in 1..n : C[j] \in EmbedContents
  <2> HIDE DEF C
  <2>1. C \in Seq(EmbedContents) /\ DOMAIN C = 1..n
    BY <1>1, ContentsType DEF C
  <2> QED
    BY <2>1
<1>3. vrs \in {ordered, Reverse(ordered), Front(ordered), [ordered EXCEPT ![1].index = n],
                [ordered EXCEPT ![1].index = n + 1]}
  BY DEF CloudAnswers
<1> HIDE DEF n, C
<1>4. ordered \in Seq(R) /\ Len(ordered) = n /\ DOMAIN ordered = 1..n /\ \A j \in 1..n : ordered[j] \in R
  <2>1. \A j \in 1..n : Entry(j, j) \in R
    BY <1>1, <1>2
  <2>2. ordered \in [1..n -> R]
    BY <1>1, <2>1
  <2> HIDE DEF R, ordered
  <2> QED
    BY <1>1, <2>2
<1>5. \A j \in 1..n : ordered[j].index = j /\ ordered[j].vector = C[j]
  BY <1>1
<1> HIDE DEF ordered
<1>6. Len(vrs) = n /\ {vrs[j].index : j \in DOMAIN vrs} = 1..n
  BY DEF ParseEmbeddings, n
<1>7. DOMAIN vrs = 1..n /\ \A j \in 1..n : vrs[j].vector = C[vrs[j].index]
  <2>1. CASE vrs = ordered
    BY <1>1, <1>4, <1>5, <2>1
  <2>2. CASE vrs = Reverse(ordered)
    <3>1. vrs = [j \in 1..n |-> ordered[(n - j) + 1]]
      BY <1>4, <2>2 DEF Reverse
    <3>2. \A j \in 1..n : (n - j) + 1 \in 1..n
      BY <1>1
    <3> QED
      BY <1>5, <3>1, <3>2
  <2>3. CASE vrs = Front(ordered)
    <3>1. Len(vrs) = n - 1
      BY <1>1, <1>4, <2>3 DEF Front
    <3> QED
      BY <1>1, <1>6, <3>1
  <2>4. ASSUME NEW x \in {n, n + 1}, vrs = [ordered EXCEPT ![1].index = x]
        PROVE  DOMAIN vrs = 1..n /\ \A j \in 1..n : vrs[j].vector = C[vrs[j].index]
    <3> DEFINE first == [ordered[1] EXCEPT !.index = x]
    <3>1. vrs = [ordered EXCEPT ![1] = first]
      BY <2>4
    <3>2. ordered[1] \in R /\ DOMAIN ordered = 1..n
      BY <1>1, <1>4
    <3>3. first.index = x /\ first.vector = ordered[1].vector
      BY <3>2
    <3> HIDE DEF first
    <3>4. /\ DOMAIN vrs = 1..n /\ vrs[1] = first
          /\ \A j \in 2..n : vrs[j] = ordered[j]
      BY <1>1, <3>1, <3>2
    <3>5. vrs[1].index = x /\ vrs[1].vector = C[1] /\ \A j \in 2..n : vrs[j].index = j /\ vrs[j].vector = C[j]
      BY <1>1, <1>5, <3>3, <3>4
    <3>6. x \in 1..n
      BY SMTT(40), <1>1, <1>6, <3>4, <3>5
    <3>7. PICK m \in 1..n : vrs[m].index = 1
      BY SMTT(40), <1>1, <1>6, <3>4
    <3>8. n = 1
      BY <1>1, <3>5, <3>6, <3>7
    <3> QED
      BY <3>4, <3>5, <3>6, <3>8
  <2> QED
    BY <1>3, <2>1, <2>2, <2>3, <2>4
<1> DEFINE place(k) == CHOOSE j \in DOMAIN vrs : vrs[j].index = k
<1>8. \A k \in 1..n : place(k) \in 1..n /\ vrs[place(k)].index = k
  BY <1>6, <1>7
<1>9. ParseEmbeddings(vrs, n).vectors = [k \in 1..n |-> vrs[place(k)].vector]
  BY <1>6 DEF ParseEmbeddings
<1> HIDE DEF place
<1>10. \A k \in 1..n : vrs[place(k)].vector = C[k]
  BY <1>7, <1>8
<1>11. C = [k \in 1..n |-> C[k]]
  BY <1>1, ContentsType DEF C, Contents
<1>12. [k \in 1..n |-> vrs[place(k)].vector] = [k \in 1..n |-> C[k]]
  BY <1>10
<1> QED
  BY <1>9, <1>11, <1>12 DEF n, C

-----------------------------------------------------------------------------
(* Embed: one lemma for the shape of a step, then one per kind of step.      *)

(* Rows and blobs that only grow leave what an attempt carries true.         *)
LEMMA AttemptStays ==
    ASSUME NEW k \in EmbedAttempts, NEW vrs, NEW blobs, AttemptTrue(k, vrs, blobs),
           NEW rows2, NEW blobs2, blobs \subseteq blobs2,
           \A id \in EmbedChunkIds : vrs[id] # NoVector => rows2[id] # NoVector
    PROVE  AttemptTrue(k, rows2, blobs2)
<1>1. k.item \in EmbedItems => \A n \in Listed(k.item) : <<k.item, n>> \in EmbedChunkIds
  BY ChunkNumbers
<1>2. k.item \in EmbedItems /\ Covered(k, vrs) => Covered(k, rows2)
  BY <1>1 DEF Covered
<1> QED
  BY <1>1, <1>2 DEF AttemptTrue

(* A worker that takes a step, with rows and blobs that only grow.           *)
LEMMA WorkerSteps ==
    ASSUME EmbedInv, NEW w \in EmbedWorkers, NEW k \in EmbedAttempts, EmbStep(w, k),
           vecRows' \in [EmbedChunkIds -> VectorRows \cup {NoVector}], RowsSound(vecRows', vecBlobs'),
           vecBlobs \subseteq vecBlobs',
           \A id \in EmbedChunkIds : vecRows[id] # NoVector => vecRows'[id] # NoVector,
           AttemptTrue(k, vecRows', vecBlobs')
    PROVE  EmbedInv'
<1>1. emb' \in [EmbedWorkers -> EmbedAttempts] /\ emb'[w] = k /\ \A v \in EmbedWorkers : v # w => emb'[v] = emb[v]
  BY DEF EmbStep, EmbedInv
<1>2. \A v \in EmbedWorkers : AttemptTrue(emb[v], vecRows', vecBlobs')
  BY AttemptStays DEF EmbedInv
<1>3. \A v \in EmbedWorkers : AttemptTrue(emb'[v], vecRows', vecBlobs')
  BY <1>1, <1>2
<1> QED
  BY <1>1, <1>3 DEF EmbedInv

(* A worker that takes a step of its own.                                    *)
LEMMA WorkerAlone ==
    ASSUME EmbedInv, NEW w \in EmbedWorkers, NEW k \in EmbedAttempts, EmbStep(w, k),
           UNCHANGED <<vecRows, vecBlobs>>, AttemptTrue(k, vecRows, vecBlobs)
    PROVE  EmbedInv'
<1>1. /\ vecRows' \in [EmbedChunkIds -> VectorRows \cup {NoVector}] /\ RowsSound(vecRows', vecBlobs')
      /\ vecBlobs \subseteq vecBlobs' /\ AttemptTrue(k, vecRows', vecBlobs')
      /\ \A id \in EmbedChunkIds : vecRows[id] # NoVector => vecRows'[id] # NoVector
  BY DEF EmbedInv
<1> QED
  BY <1>1, WorkerSteps

(* An attempt that has not begun.                                            *)
LEMMA RestingTrue ==
    /\ Resting \in EmbedAttempts /\ Resting.pc = "rest" /\ Resting.todo = {} /\ Resting.pending = <<>>
    /\ \A vrs, blobs : AttemptTrue(Resting, vrs, blobs)
<1>1. <<>> \in Seq(EmbedChunkIds) /\ <<>> \in Seq(EmbedContents)
  OBVIOUS
<1>2. Resting \in EmbedAttempts
  BY <1>1 DEF Resting, EmbedAttempts, FailureReasons
<1>3. Resting.pc = "rest" /\ Resting.todo = {} /\ Resting.pending = <<>>
  BY DEF Resting
<1> QED
  BY <1>2, <1>3 DEF AttemptTrue

(* The chunk the batcher is at is a chunk of the item.                       *)
LEMMA AtChunkType ==
    ASSUME EmbedInv, NEW w \in EmbedWorkers, emb[w].pc # "rest", emb[w].todo # {}
    PROVE  /\ AtChunk(w) \in EmbedChunkIds
           /\ AtChunk(w) = <<emb[w].item, Min(emb[w].todo)>>
           /\ Min(emb[w].todo) \in emb[w].todo
<1>1. emb[w].item \in EmbedItems /\ emb[w].todo \subseteq Listed(emb[w].item)
  BY DEF EmbedInv, AttemptTrue
<1>2. emb[w].todo \subseteq Nat
  BY <1>1, ChunkNumbers
<1>3. Min(emb[w].todo) \in emb[w].todo
  <2> DEFINE T == emb[w].todo
  <2>1. T \in SUBSET Nat /\ T # {}
    BY <1>2
  <2> HIDE DEF T
  <2>2. \E m \in T : \A y \in T : m <= y
    BY <2>1, LeastNat
  <2> QED
    BY <2>2 DEF Min, T
<1> QED
  BY <1>1, <1>3, ChunkNumbers DEF AtChunk

(* The steps that write neither rows nor blobs.                              *)
LEMMA QuietEmbedSteps ==
    ASSUME EmbedInv, NEW w \in EmbedWorkers,
           \/ \E i \in EmbedItems : EmbedRun(w, i)
           \/ EmbedPlan(w) \/ EmbedPush(w) \/ EmbedFlush(w)
           \/ EmbedFinish(w) \/ EmbedSettled(w) \/ EmbedLost(w)
    PROVE  EmbedInv'
<1> DEFINE k == emb[w]
<1>0. k \in EmbedAttempts /\ AttemptTrue(k, vecRows, vecBlobs)
  BY DEF EmbedInv
<1>1. ASSUME NEW i \in EmbedItems, EmbedRun(w, i)
      PROVE  EmbedInv'
  <2> DEFINE p == [Resting EXCEPT !.item = i, !.pc = "plan"]
             f == [p EXCEPT !.pc = "failed", !.why = "embed_model_missing"]
  <2>1. p \in EmbedAttempts /\ p.item = i /\ p.pc = "plan" /\ p.todo = {}
    BY RestingTrue DEF EmbedAttempts
  <2>2. EmbStep(w, p) \/ EmbStep(w, f)
    BY <1>1 DEF EmbedRun
  <2>3. UNCHANGED <<vecRows, vecBlobs>>
    BY <1>1 DEF EmbedRun
  <2> HIDE DEF p
  <2>4. f \in EmbedAttempts /\ f.item = i /\ f.pc = "failed" /\ f.todo = {}
    BY <2>1 DEF EmbedAttempts, FailureReasons
  <2> HIDE DEF f
  <2>5. AttemptTrue(p, vecRows, vecBlobs) /\ AttemptTrue(f, vecRows, vecBlobs)
    BY <2>1, <2>4 DEF AttemptTrue
  <2> QED
    BY <2>1, <2>2, <2>3, <2>4, <2>5, WorkerAlone
<1>2. CASE EmbedPlan(w)
  <2> DEFINE todo == {n \in Listed(k.item) : vecRows[<<k.item, n>>] = NoVector}
             p == [k EXCEPT !.pc = "push", !.todo = todo]
  <2>1. k.pc = "plan" /\ EmbStep(w, p) /\ UNCHANGED <<vecRows, vecBlobs>>
    BY <1>2 DEF EmbedPlan, EmbAt
  <2>2. k.item \in EmbedItems
    BY <1>0, <2>1 DEF AttemptTrue
  <2>3. todo \subseteq Listed(k.item) /\ todo \subseteq Nat
    BY <2>2, ChunkNumbers
  <2>4. \A n \in Listed(k.item) : vecRows[<<k.item, n>>] # NoVector \/ n \in todo
    OBVIOUS
  <2> HIDE DEF todo
  <2>5. p \in EmbedAttempts /\ p.pc = "push" /\ p.item = k.item /\ p.todo = todo /\ p.pending = k.pending
    BY <1>0, <2>3 DEF EmbedAttempts
  <2> HIDE DEF p
  <2>6. AttemptTrue(p, vecRows, vecBlobs)
    BY <2>2, <2>3, <2>4, <2>5 DEF AttemptTrue, Covered
  <2> QED
    BY <2>1, <2>5, <2>6, WorkerAlone
<1>3. CASE EmbedPush(w)
  <2> DEFINE id == AtChunk(w)
             m == Min(k.todo)
             f == [k EXCEPT !.pc = "flush"]
             p == [k EXCEPT !.pending = Append(k.pending, id), !.todo = RestOfChunks(w)]
  <2>1. /\ k.pc = "push" /\ k.todo # {} /\ UNCHANGED <<vecRows, vecBlobs>>
        /\ (EmbStep(w, f) /\ k.pending # <<>>) \/ EmbStep(w, p)
    BY <1>3 DEF EmbedPush, EmbAt
  <2>2. id \in EmbedChunkIds /\ id = <<k.item, m>> /\ m \in k.todo
    BY <2>1, AtChunkType
  <2>3. /\ f \in EmbedAttempts /\ f.pc = "flush" /\ f.item = k.item /\ f.todo = k.todo /\ f.pending = k.pending
    BY <1>0 DEF EmbedAttempts
  <2>4. k.pending # <<>> => AttemptTrue(f, vecRows, vecBlobs)
    <3> HIDE DEF f
    <3> QED
      BY <1>0, <2>1, <2>3 DEF AttemptTrue, Covered
  <2> DEFINE next == Append(k.pending, id)
             rest == RestOfChunks(w)
  <2>5. k.pending \in Seq(EmbedChunkIds) /\ k.todo \in SUBSET Nat
    BY <1>0 DEF EmbedAttempts
  <2> HIDE DEF id
  <2>6. /\ next \in Seq(EmbedChunkIds)
        /\ \A j \in DOMAIN k.pending : j \in DOMAIN next /\ next[j] = k.pending[j]
        /\ Len(next) \in DOMAIN next /\ next[Len(next)] = id
    BY SMTT(40), <2>2, <2>5
  <2>7. rest = k.todo \ {m}
    BY DEF RestOfChunks
  <2> HIDE DEF next, rest
  <2>8. p \in EmbedAttempts /\ p.pc = k.pc /\ p.item = k.item /\ p.todo = rest /\ p.pending = next
    <3>1. p = [k EXCEPT !.pending = next, !.todo = rest] /\ rest \in SUBSET Nat
      BY <2>5, <2>7 DEF next, rest
    <3> HIDE DEF p
    <3> QED
      BY <1>0, <2>6, <3>1 DEF EmbedAttempts
  <2> HIDE DEF p
  <2>9. Covered(p, vecRows)
    <3>1. Covered(k, vecRows)
      BY <1>0, <2>1 DEF AttemptTrue
    <3> SUFFICES ASSUME NEW n \in Listed(k.item), vecRows[<<k.item, n>>] = NoVector, n \notin rest
                 PROVE  \E j \in DOMAIN next : next[j] = <<k.item, n>>
      BY <2>8 DEF Covered
    <3>2. n = m \/ \E j \in DOMAIN k.pending : k.pending[j] = <<k.item, n>>
      BY <2>7, <3>1 DEF Covered
    <3> QED
      BY <2>2, <2>6, <3>2
  <2>10. AttemptTrue(p, vecRows, vecBlobs)
    BY <1>0, <2>1, <2>7, <2>8, <2>9 DEF AttemptTrue
  <2> QED
    BY <2>1, <2>3, <2>4, <2>8, <2>10, WorkerAlone
<1>4. CASE EmbedFlush(w)
  <2> DEFINE C == Contents(k.pending)
             p == [k EXCEPT !.pc = "write", !.vectors = C]
  <2>1. /\ k.pc \in {"push", "flush"} /\ k.pending # <<>> /\ UNCHANGED <<vecRows, vecBlobs>>
    BY <1>0, <1>4 DEF EmbedFlush, EmbAt, AttemptTrue
  <2>2. k.pending \in Seq(EmbedChunkIds)
    BY SMTT(40), <1>0 DEF EmbedAttempts
  <2>3. EmbStep(w, p) \/ \E why \in FailureReasons : EmbStep(w, [k EXCEPT !.pc = "failed", !.why = why])
    <3>1. CASE route = "local" /\ OnnxEmbed(k.pending).weather = "ok"
                 /\ EmbStep(w, [k EXCEPT !.pc = "write", !.vectors = OnnxEmbed(k.pending).vectors])
      <4>1. OnnxEmbed(k.pending).vectors = C
        BY <3>1 DEF OnnxEmbed
      <4> QED
        BY <3>1, <4>1
    <3>2. CASE EmbStep(w, Failed(w, OnnxEmbed(k.pending).weather))
      <4>1. OnnxEmbed(k.pending).weather \in FailureReasons
        BY DEF OnnxEmbed, FailureReasons
      <4> QED
        BY <3>2, <4>1 DEF Failed
    <3>3. ASSUME NEW vrs \in CloudAnswers(k.pending)
          PROVE  LET answer == ParseEmbeddings(vrs, Len(k.pending))
                 IN /\ answer.weather \in FailureReasons
                    /\ answer.weather = "ok" => answer.vectors = C
      <4>1. ParseEmbeddings(vrs, Len(k.pending)).weather \in FailureReasons
        BY DEF ParseEmbeddings, FailureReasons
      <4> QED
        BY <2>1, <2>2, <3>3, <4>1, ParsedInOrder
    <3>4. ASSUME NEW vrs \in CloudAnswers(k.pending),
                 IF ParseEmbeddings(vrs, Len(k.pending)).weather = "ok"
                 THEN EmbStep(w, [k EXCEPT !.pc = "write", !.vectors = ParseEmbeddings(vrs, Len(k.pending)).vectors])
                 ELSE EmbStep(w, Failed(w, ParseEmbeddings(vrs, Len(k.pending)).weather))
          PROVE  EmbStep(w, p) \/ \E why \in FailureReasons : EmbStep(w, [k EXCEPT !.pc = "failed", !.why = why])
      BY <3>3, <3>4 DEF Failed
    <3> QED
      BY <1>4, <3>1, <3>2, <3>4 DEF EmbedFlush
  <2>4. C \in Seq(EmbedContents)
    BY <2>2, ContentsType
  <2> HIDE DEF C
  <2>5. p \in EmbedAttempts /\ p.pc = "write" /\ p.item = k.item /\ p.todo = k.todo /\ p.pending = k.pending /\ p.vectors = C
    BY <1>0, <2>4 DEF EmbedAttempts
  <2> HIDE DEF p
  <2>6. AttemptTrue(p, vecRows, vecBlobs)
    BY <1>0, <2>1, <2>5 DEF AttemptTrue, Covered, C
  <2>7. ASSUME NEW why \in FailureReasons, EmbStep(w, [k EXCEPT !.pc = "failed", !.why = why])
        PROVE  EmbedInv'
    <3> DEFINE f == [k EXCEPT !.pc = "failed", !.why = why]
    <3>1. f \in EmbedAttempts /\ f.pc = "failed" /\ f.item = k.item /\ f.todo = k.todo
      BY <1>0 DEF EmbedAttempts
    <3>2. EmbStep(w, f)
      BY <2>7
    <3> HIDE DEF f
    <3>3. AttemptTrue(f, vecRows, vecBlobs)
      BY <1>0, <2>1, <3>1 DEF AttemptTrue
    <3> QED
      BY <2>1, <3>1, <3>2, <3>3, WorkerAlone
  <2> QED
    BY ZenonT(40), <2>1, <2>3, <2>5, <2>6, <2>7, WorkerAlone
<1>5. CASE EmbedFinish(w)
  <2> DEFINE p == [k EXCEPT !.pc = "done"]
  <2>1. k.pc = "push" /\ k.todo = {} /\ k.pending = <<>> /\ EmbStep(w, p) /\ UNCHANGED <<vecRows, vecBlobs>>
    BY <1>5 DEF EmbedFinish, EmbAt
  <2>2. p \in EmbedAttempts /\ p.pc = "done" /\ p.item = k.item /\ p.todo = k.todo
    BY <1>0 DEF EmbedAttempts
  <2>3. \A n \in Listed(k.item) : vecRows[<<k.item, n>>] # NoVector
    BY <1>0, <2>1 DEF AttemptTrue, Covered
  <2> HIDE DEF p
  <2>4. AttemptTrue(p, vecRows, vecBlobs)
    BY <1>0, <2>1, <2>2, <2>3 DEF AttemptTrue
  <2> QED
    BY <2>1, <2>2, <2>4, WorkerAlone
<1>6. CASE EmbedSettled(w) \/ EmbedLost(w)
  <2>1. EmbStep(w, Resting) /\ UNCHANGED <<vecRows, vecBlobs>>
    BY <1>6 DEF EmbedSettled, EmbedLost
  <2> QED
    BY <2>1, RestingTrue, WorkerAlone
<1> QED
  BY <1>1, <1>2, <1>3, <1>4, <1>5, <1>6

(* commit_reused: the chunk shares the row of a chunk of the same content.   *)
LEMMA ReuseStep ==
    ASSUME EmbedInv, NEW w \in EmbedWorkers, EmbedReuse(w)
    PROVE  EmbedInv'
<1> DEFINE k == emb[w]
           id == AtChunk(w)
           m == Min(k.todo)
           rest == RestOfChunks(w)
           p == [k EXCEPT !.todo = rest]
<1>0. k \in EmbedAttempts /\ AttemptTrue(k, vecRows, vecBlobs)
  BY DEF EmbedInv
<1>1. k.pc = "push" /\ k.todo # {} /\ EmbStep(w, p) /\ vecBlobs' = vecBlobs
  BY DEF EmbedReuse, EmbAt
<1>2. id \in EmbedChunkIds /\ id = <<k.item, m>> /\ m \in k.todo
  BY <1>1, AtChunkType
<1>3. PICK r \in SameContent(id) : vecRows' = [vecRows EXCEPT ![id] = vecRows[r]]
  BY DEF EmbedReuse
<1>4. r \in EmbedChunkIds /\ vecRows[r] # NoVector /\ ChunkOf(r).content = ChunkOf(id).content
  BY DEF SameContent
<1>5. rest = k.todo \ {m} /\ k.todo \in SUBSET Nat
  BY <1>0 DEF RestOfChunks, EmbedAttempts
<1> HIDE DEF id, rest
<1>6. /\ vecRows' \in [EmbedChunkIds -> VectorRows \cup {NoVector}]
      /\ vecRows'[id] = vecRows[r]
      /\ \A x \in EmbedChunkIds : x # id => vecRows'[x] = vecRows[x]
  BY <1>2, <1>3, <1>4 DEF EmbedInv
<1>7. RowsSound(vecRows', vecBlobs')
  <2>1. RowsSound(vecRows, vecBlobs)
    BY DEF EmbedInv
  <2>2. vecRows[r].blob \in vecBlobs /\ vecRows[r].blob[vecRows[r].row] = ChunkOf(id).content
    BY <1>4, <2>1 DEF RowsSound
  <2> QED
    BY <1>1, <1>6, <2>1, <2>2 DEF RowsSound
<1>8. \A x \in EmbedChunkIds : vecRows[x] # NoVector => vecRows'[x] # NoVector
  BY <1>4, <1>6
<1>9. p \in EmbedAttempts /\ p.pc = "push" /\ p.item = k.item /\ p.todo = rest /\ p.pending = k.pending
  <2>1. rest \in SUBSET Nat
    BY <1>5
  <2> QED
    BY <1>0, <1>1, <2>1 DEF EmbedAttempts
<1> HIDE DEF p
<1>10. Covered(p, vecRows')
  <2>1. Covered(k, vecRows) /\ k.item \in EmbedItems
    BY <1>0, <1>1 DEF AttemptTrue
  <2>2. \A n \in Listed(k.item) : <<k.item, n>> \in EmbedChunkIds
    BY <2>1, ChunkNumbers
  <2>3. \A n \in Listed(k.item) : n \in k.todo => n \in rest \/ vecRows'[<<k.item, n>>] # NoVector
    BY <1>2, <1>4, <1>5, <1>6
  <2> QED
    BY <1>8, <1>9, <2>1, <2>2, <2>3 DEF Covered
<1>11. AttemptTrue(p, vecRows', vecBlobs')
  BY <1>0, <1>1, <1>5, <1>9, <1>10 DEF AttemptTrue
<1> QED
  BY <1>1, <1>6, <1>7, <1>8, <1>9, <1>11, WorkerSteps

(* write_vectors: the blob is there before any row names it.                 *)
LEMMA WriteStep ==
    ASSUME EmbedInv, NEW w \in EmbedWorkers, WriteVectors(w)
    PROVE  EmbedInv'
<1> DEFINE k == emb[w]
           p == [k EXCEPT !.pc = "commit"]
<1>0. k \in EmbedAttempts /\ AttemptTrue(k, vecRows, vecBlobs)
  BY DEF EmbedInv
<1>1. k.pc = "write" /\ EmbStep(w, p) /\ vecBlobs' = vecBlobs \cup {k.vectors} /\ vecRows' = vecRows
  BY DEF WriteVectors, EmbAt
<1>2. /\ p \in EmbedAttempts /\ p.pc = "commit" /\ p.item = k.item /\ p.todo = k.todo /\ p.pending = k.pending
      /\ p.vectors = k.vectors
  BY <1>0 DEF EmbedAttempts
<1> HIDE DEF p
<1>3. AttemptTrue(p, vecRows', vecBlobs')
  BY <1>0, <1>1, <1>2 DEF AttemptTrue, Covered
<1>4. RowsSound(vecRows', vecBlobs') /\ vecRows' \in [EmbedChunkIds -> VectorRows \cup {NoVector}]
  BY <1>1 DEF EmbedInv, RowsSound
<1>5. vecBlobs \subseteq vecBlobs' /\ \A x \in EmbedChunkIds : vecRows[x] # NoVector => vecRows'[x] # NoVector
  BY <1>1
<1> QED
  BY <1>1, <1>2, <1>3, <1>4, <1>5, WorkerSteps

(* emit_embeddings: every chunk of the batch gets the row of its own vector. *)
LEMMA CommitStep ==
    ASSUME EmbedInv, NEW w \in EmbedWorkers, CommitVectors(w)
    PROVE  EmbedInv'
<1> DEFINE k == emb[w]
           C == k.vectors
           p == [k EXCEPT !.pc = "push", !.pending = <<>>, !.vectors = <<>>]
           place(id) == CHOOSE n \in DOMAIN k.pending : k.pending[n] = id
<1>0. k \in EmbedAttempts /\ AttemptTrue(k, vecRows, vecBlobs)
  BY DEF EmbedInv
<1>1. k.pc = "commit" /\ EmbStep(w, p) /\ vecBlobs' = vecBlobs
  BY DEF CommitVectors, EmbAt
<1>2. vecRows' = [id \in EmbedChunkIds |-> IF id \in Range(k.pending) THEN VectorRow(C, place(id)) ELSE vecRows[id]]
  BY DEF CommitVectors
<1>3. /\ k.pending \in Seq(EmbedChunkIds) /\ C \in Seq(EmbedContents) /\ C = Contents(k.pending) /\ C \in vecBlobs
      /\ Covered(k, vecRows) /\ k.item \in EmbedItems
  BY <1>0, <1>1 DEF EmbedAttempts, AttemptTrue
<1>4. \A id \in Range(k.pending) : place(id) \in DOMAIN k.pending /\ k.pending[place(id)] = id
  BY DEF Range
<1> HIDE DEF place
<1>5. ASSUME NEW id \in EmbedChunkIds, id \in Range(k.pending)
      PROVE  /\ vecRows'[id] = VectorRow(C, place(id))
             /\ VectorRow(C, place(id)) \in VectorRows /\ VectorRow(C, place(id)) # NoVector
             /\ VectorRow(C, place(id)).blob = C
             /\ C[VectorRow(C, place(id)).row] = ChunkOf(id).content
  <2>1. place(id) \in DOMAIN k.pending /\ k.pending[place(id)] = id
    BY <1>4, <1>5
  <2>2. place(id) \in Nat
    BY <1>3, <2>1
  <2>3. C[place(id)] = ChunkOf(id).content
    BY <1>3, <2>1, ContentsType
  <2>4. VectorRow(C, place(id)).blob = C /\ VectorRow(C, place(id)).row = place(id)
    BY DEF VectorRow
  <2>5. VectorRow(C, place(id)) \in VectorRows
    BY <1>3, <2>2 DEF VectorRow, VectorRows
  <2>6. NoVector \notin VectorRows
    BY EmbedAssumption DEF VectorRows, EmbedContents
  <2>7. vecRows'[id] = VectorRow(C, place(id))
    BY <1>2, <1>5
  <2> QED
    BY <2>3, <2>4, <2>5, <2>6, <2>7
<1>6. ASSUME NEW id \in EmbedChunkIds, id \notin Range(k.pending)
      PROVE  vecRows'[id] = vecRows[id]
  BY <1>2, <1>6
<1>7. vecRows' \in [EmbedChunkIds -> VectorRows \cup {NoVector}]
  <2>1. \A id \in EmbedChunkIds : vecRows'[id] \in VectorRows \cup {NoVector}
    BY <1>5, <1>6 DEF EmbedInv
  <2>2. vecRows' = [id \in EmbedChunkIds |-> vecRows'[id]]
    BY <1>2
  <2> QED
    BY <2>1, <2>2
<1>8. RowsSound(vecRows', vecBlobs')
  <2> SUFFICES ASSUME NEW id \in EmbedChunkIds, vecRows'[id] # NoVector
               PROVE  vecRows'[id].blob \in vecBlobs /\ vecRows'[id].blob[vecRows'[id].row] = ChunkOf(id).content
    BY <1>1 DEF RowsSound
  <2>1. CASE id \in Range(k.pending)
    BY <1>3, <1>5, <2>1
  <2>2. CASE id \notin Range(k.pending)
    BY <1>6, <2>2 DEF EmbedInv, RowsSound
  <2> QED
    BY <2>1, <2>2
<1>9. \A id \in EmbedChunkIds : vecRows[id] # NoVector => vecRows'[id] # NoVector
  BY <1>5, <1>6
<1>10. p \in EmbedAttempts /\ p.pc = "push" /\ p.item = k.item /\ p.todo = k.todo /\ p.pending = <<>>
  <2>1. <<>> \in Seq(EmbedChunkIds) /\ <<>> \in Seq(EmbedContents)
    OBVIOUS
  <2> QED
    BY <1>0, <2>1 DEF EmbedAttempts
<1> HIDE DEF p
<1>11. Covered(p, vecRows')
  <2>1. \A n \in Listed(k.item) : <<k.item, n>> \in EmbedChunkIds
    BY <1>3, ChunkNumbers
  <2> SUFFICES ASSUME NEW n \in Listed(k.item)
               PROVE  vecRows'[<<k.item, n>>] # NoVector \/ n \in k.todo
    BY <1>10 DEF Covered
  <2>2. CASE \E m \in DOMAIN k.pending : k.pending[m] = <<k.item, n>>
    <3>1. <<k.item, n>> \in Range(k.pending)
      BY <2>2 DEF Range
    <3> QED
      BY <1>5, <2>1, <3>1
  <2>3. CASE vecRows[<<k.item, n>>] # NoVector
    BY <1>9, <2>1, <2>3
  <2> QED
    BY <1>3, <2>2, <2>3 DEF Covered
<1>12. AttemptTrue(p, vecRows', vecBlobs')
  BY <1>0, <1>1, <1>10, <1>11 DEF AttemptTrue
<1> QED
  BY <1>1, <1>7, <1>8, <1>9, <1>10, <1>12, WorkerSteps

(* Whatever order an endpoint answers in, however chunks are batched and     *)
(* shared, and wherever attempts die between the model call, the blob and    *)
(* the commit: a row names a vector of its own chunk's content in a blob     *)
(* that is stored, and a finished attempt left no listed chunk without one.  *)
THEOREM VectorsAreSound == EmbedSpec => []VectorsSound
<1>1. EmbedInit => EmbedInv
  <2> SUFFICES ASSUME EmbedInit PROVE EmbedInv
    OBVIOUS
  <2>1. vecRows \in [EmbedChunkIds -> VectorRows \cup {NoVector}] /\ \A id \in EmbedChunkIds : vecRows[id] = NoVector
    BY DEF EmbedInit
  <2>2. emb \in [EmbedWorkers -> EmbedAttempts] /\ \A w \in EmbedWorkers : emb[w] = Resting
    BY RestingTrue DEF EmbedInit
  <2> QED
    BY <2>1, <2>2, RestingTrue DEF EmbedInv, RowsSound
<1>2. EmbedInv /\ [EmbedNext]_embedVars => EmbedInv'
  <2> SUFFICES ASSUME EmbedInv, [EmbedNext]_embedVars PROVE EmbedInv'
    OBVIOUS
  <2>1. CASE \E w \in EmbedWorkers :
                \/ \E i \in EmbedItems : EmbedRun(w, i)
                \/ EmbedPlan(w) \/ EmbedPush(w) \/ EmbedFlush(w)
                \/ EmbedFinish(w) \/ EmbedSettled(w) \/ EmbedLost(w)
    BY <2>1, QuietEmbedSteps
  <2>2. CASE \E w \in EmbedWorkers : EmbedReuse(w) \/ WriteVectors(w) \/ CommitVectors(w)
    BY <2>2, ReuseStep, WriteStep, CommitStep
  <2>3. CASE ArtifactPulled \/ UNCHANGED embedVars
    <3>1. UNCHANGED <<vecRows, vecBlobs, emb>>
      BY <2>3 DEF ArtifactPulled, embedVars
    <3> QED
      BY <3>1 DEF EmbedInv
  <2> QED
    BY <2>1, <2>2, <2>3 DEF EmbedNext
<1>3. EmbedInv => VectorsSound
  BY DEF EmbedInv, RowsSound, AttemptTrue, VectorsSound, EmbAt
<1> QED
  BY <1>1, <1>2, <1>3, PTL DEF EmbedSpec

-----------------------------------------------------------------------------
(* Sums, as counts of units.                                                 *)

(* The units of a over D, as many as the sum of a.                           *)
Units(a, D) == UNION {{s} \X (1..a[s]) : s \in D}
Total(a, D) == Cardinality(Units(a, D))

(* There are finitely many.                                                  *)
LEMMA FiniteUnits ==
    ASSUME NEW D, IsFiniteSet(D), NEW a, \A s \in D : a[s] \in Nat
    PROVE  IsFiniteSet(Units(a, D))
<1> DEFINE f == [s \in D |-> {s} \X (1..a[s])]
           T == {{s} \X (1..a[s]) : s \in D}
<1>1. f \in Surjection(D, T)
  <2>1. f \in [D -> T] /\ \A t \in T : \E s \in D : f[s] = t
    OBVIOUS
  <2> QED
    BY <2>1 DEF Surjection
<1>2. IsFiniteSet(T)
  <2> HIDE DEF f, T
  <2> QED
    BY <1>1, FS_Surjection
<1>3. \A t \in T : IsFiniteSet(t)
  <2>1. ASSUME NEW s \in D PROVE IsFiniteSet({s} \X (1..a[s]))
    <3>1. IsFiniteSet({s})
      BY FS_Singleton
    <3>2. IsFiniteSet(1..a[s])
      BY FS_Interval
    <3> QED
      BY <3>1, <3>2, FS_Product
  <2> QED
    BY <2>1
<1>4. IsFiniteSet(UNION T)
  <2> HIDE DEF T
  <2> QED
    BY <1>2, <1>3, FS_UNION
<1> QED
  BY <1>4 DEF Units

(* The units of one index apart.                                             *)
LEMMA UnitsApart ==
    ASSUME NEW D, IsFiniteSet(D), NEW a, \A s \in D : a[s] \in Nat, NEW s \in D
    PROVE  Cardinality(Units(a, D)) = Cardinality(Units(a, D \ {s})) + a[s]
<1> DEFINE R == Units(a, D \ {s})
           U == {s} \X (1..a[s])
<1>1. IsFiniteSet(R)
  <2>1. IsFiniteSet(D \ {s})
    BY FS_RemoveElement
  <2> QED
    BY <2>1, FiniteUnits
<1>2. IsFiniteSet(U) /\ Cardinality(U) = a[s]
  <2> DEFINE n == a[s]
  <2>0. n \in Nat
    OBVIOUS
  <2> HIDE DEF n
  <2>1. IsFiniteSet({s}) /\ Cardinality({s}) = 1
    BY FS_Singleton
  <2>2. IsFiniteSet(1..n) /\ Cardinality(1..n) = IF 1 > n THEN 0 ELSE n - 1 + 1
    BY <2>0, FS_Interval
  <2>3. Cardinality(1..n) = n
    BY <2>0, <2>2
  <2>4. IsFiniteSet({s} \X (1..n)) /\ Cardinality({s} \X (1..n)) = Cardinality({s}) * Cardinality(1..n)
    BY <2>1, <2>2, FS_Product
  <2>5. Cardinality({s} \X (1..n)) = n
    BY <2>0, <2>1, <2>3, <2>4
  <2> QED
    BY <2>4, <2>5 DEF n
<1>3. Units(a, D) = R \cup U
  BY DEF Units
<1>4. R \cap U = {}
  BY DEF Units
<1> HIDE DEF R, U
<1>5. Cardinality(R \cup U) = Cardinality(R) + Cardinality(U) - Cardinality(R \cap U)
  BY <1>1, <1>2, FS_Union
<1>6. Cardinality(R) \in Nat /\ Cardinality(U) \in Nat
  BY <1>1, <1>2, FS_CardinalityType
<1>7. Cardinality({}) = 0
  BY FS_EmptySet
<1> DEFINE r == Cardinality(R)
           u == Cardinality(U)
<1>8. r \in Nat /\ u \in Nat /\ Cardinality(R \cup U) = r + u - 0
  BY <1>4, <1>5, <1>6, <1>7
<1>9. u = a[s]
  BY <1>2
<1> HIDE DEF r, u
<1>10. Cardinality(R \cup U) = r + u
  BY <1>8
<1> QED
  BY <1>3, <1>9, <1>10 DEF r, R

(* A change of one term changes the sum by the difference.                   *)
LEMMA SumChanges ==
    ASSUME NEW D, IsFiniteSet(D), NEW a, NEW b, \A s \in D : a[s] \in Nat /\ b[s] \in Nat,
           NEW s \in D, \A t \in D : t # s => b[t] = a[t]
    PROVE  Total(a, D) \in Nat /\ Total(b, D) = (Total(a, D) + b[s]) - a[s]
<1> DEFINE x == Cardinality(Units(a, D))
           y == Cardinality(Units(b, D))
           z == Cardinality(Units(a, D \ {s}))
<1>1. Units(b, D \ {s}) = Units(a, D \ {s})
  BY DEF Units
<1>2. x = z + a[s]
  BY UnitsApart
<1>3. y = z + b[s]
  <2>1. y = Cardinality(Units(b, D \ {s})) + b[s]
    BY UnitsApart
  <2> QED
    BY <1>1, <2>1
<1>4. z \in Nat
  <2>1. IsFiniteSet(D \ {s})
    BY FS_RemoveElement
  <2>2. IsFiniteSet(Units(a, D \ {s}))
    BY <2>1, FiniteUnits
  <2> QED
    BY <2>2, FS_CardinalityType
<1> HIDE DEF x, y, z
<1>5. a[s] \in Nat /\ b[s] \in Nat
  OBVIOUS
<1>6. x \in Nat /\ y = (x + b[s]) - a[s]
  BY <1>2, <1>3, <1>4, <1>5
<1> QED
  BY <1>6 DEF x, y, Total

(* Nothing has no units.                                                     *)
LEMMA NoUnits ==
    ASSUME NEW D, NEW a, \A s \in D : a[s] = 0
    PROVE  Total(a, D) = 0
<1>1. Units(a, D) = {}
  <2>1. 1..0 = {}
    OBVIOUS
  <2> QED
    BY <2>1 DEF Units
<1> QED
  BY <1>1, FS_EmptySet DEF Total

-----------------------------------------------------------------------------
(* BoundedStream: the inductive invariant.                                   *)

StreamStates == [buffer: Seq(Nat), start: Nat, read: Nat, cap: Nat, accounted: Nat,
                 atEnd: BOOLEAN, open: BOOLEAN]

(* What was consumed, then what is visible in the buffer, are the first      *)
(* bytes of the content, one by one.                                         *)
ExactBytes(buffer, start, read, atEnd, consumed) ==
    /\ start <= Len(buffer)
    /\ Len(buffer) <= BufferMax
    /\ read <= ContentLen
    /\ Len(consumed) + (Len(buffer) - start) = read
    /\ \A i \in 1..Len(consumed) : consumed[i] = i
    /\ \A i \in 1..(Len(buffer) - start) : buffer[start + i] = Len(consumed) + i
    /\ atEnd => read = ContentLen

(* The bytes of the content that follow the first r of them.                 *)
BytesAfter(r, count) == [i \in 1..count |-> r + i]
FirstBytes(r) == [i \in 1..r |-> i]

Exact(t, consumed) == ExactBytes(t.buffer, t.start, t.read, t.atEnd, consumed)

StreamInv ==
    /\ stream \in [Streams -> StreamStates]
    /\ asked \in [Streams -> Nat \cup {NoWant}]
    /\ seen \in [Streams -> Seq(Nat)]
    /\ \A s \in Streams : stream[s].open => Exact(stream[s], seen[s])
    /\ \A s \in Streams : asked[s] # NoWant => stream[s].open

-----------------------------------------------------------------------------
(* BoundedStream: the steps of one stream.                                   *)

(* The smaller and the larger of two numbers.                                *)
LEMMA OfTwo ==
    ASSUME NEW a \in Int, NEW b \in Int
    PROVE  /\ Min({a, b}) \in {a, b} /\ Min({a, b}) <= a /\ Min({a, b}) <= b
           /\ Max({a, b}) \in {a, b} /\ Max({a, b}) >= a /\ Max({a, b}) >= b
           /\ a \in Nat /\ b \in Nat => Min({a, b}) \in Nat /\ Max({a, b}) \in Nat
<1>1. \E x \in {a, b} : \A y \in {a, b} : x <= y
  OBVIOUS
<1>2. \E x \in {a, b} : \A y \in {a, b} : x >= y
  OBVIOUS
<1>3. Min({a, b}) \in {a, b} /\ \A y \in {a, b} : Min({a, b}) <= y
  BY <1>1, Zenon DEF Min
<1>4. Max({a, b}) \in {a, b} /\ \A y \in {a, b} : Max({a, b}) >= y
  BY <1>2, Zenon DEF Max
<1>5. a \in Nat /\ b \in Nat => Min({a, b}) \in Nat /\ Max({a, b}) \in Nat
  <2> DEFINE x == Min({a, b})
             y == Max({a, b})
  <2> HIDE DEF x, y
  <2> QED
    BY <1>3, <1>4 DEF x, y
<1> QED
  BY <1>3, <1>4, <1>5

(* What is visible of a buffer: its bytes from the start on.                 *)
LEMMA SuffixBytes ==
    ASSUME NEW b \in Seq(Nat), NEW a \in Nat, a <= Len(b)
    PROVE  /\ SubSeq(b, a + 1, Len(b)) \in Seq(Nat)
           /\ Len(SubSeq(b, a + 1, Len(b))) = Len(b) - a
           /\ \A i \in 1..(Len(b) - a) : SubSeq(b, a + 1, Len(b))[i] = b[a + i]
<1> DEFINE m == Len(b)
           v == SubSeq(b, a + 1, m)
<1>1. m \in Nat /\ a + 1 \in 1..(m + 1) /\ m \in (a + 1 - 1)..m
  OBVIOUS
<1>2. \A i \in (a + 1)..m : b[i] \in Nat
  BY <1>1
<1>3. /\ v \in Seq(Nat)
      /\ Len(v) = IF a + 1 <= m THEN m - (a + 1) + 1 ELSE 0
      /\ \A i \in 1..(m - (a + 1) + 1) : v[i] = b[a + 1 + i - 1]
  <2> HIDE DEF m
  <2> QED
    BY <1>1, <1>2, SubSeqProperties
<1> HIDE DEF m, v
<1>4. Len(v) = m - a
  BY <1>1, <1>3
<1>5. \A i \in 1..(m - a) : v[i] = b[a + i]
  BY <1>1, <1>3
<1> QED
  BY <1>3, <1>4, <1>5 DEF m, v

(* compact moves the visible bytes to the front and loses none of them.      *)
LEMMA CompactBytes ==
    ASSUME NEW b \in Seq(Nat), NEW a \in Nat, NEW r \in Nat, NEW e \in BOOLEAN, NEW c \in Seq(Nat),
           ExactBytes(b, a, r, e, c)
    PROVE  /\ SubSeq(b, a + 1, Len(b)) \in Seq(Nat)
           /\ ExactBytes(SubSeq(b, a + 1, Len(b)), 0, r, e, c)
<1> DEFINE v == SubSeq(b, a + 1, Len(b))
<1>1. a <= Len(b) /\ Len(b) \in Nat /\ Len(c) \in Nat /\ BufferMax \in Nat
  BY StreamAssumption DEF ExactBytes
<1>2. v \in Seq(Nat) /\ Len(v) = Len(b) - a
  BY <1>1, SuffixBytes
<1>3. \A i \in 1..Len(v) : v[i] = b[a + i]
  BY <1>1, <1>2, SuffixBytes
<1> HIDE DEF v
<1>4. \A i \in 1..(Len(v) - 0) : v[0 + i] = Len(c) + i
  BY <1>1, <1>2, <1>3 DEF ExactBytes
<1>5. 0 <= Len(v) /\ Len(v) <= BufferMax /\ Len(c) + (Len(v) - 0) = r
  BY <1>1, <1>2 DEF ExactBytes
<1>6. ExactBytes(v, 0, r, e, c)
  BY <1>4, <1>5 DEF ExactBytes
<1> QED
  BY <1>2, <1>6 DEF v

(* A read appends the bytes that follow those read before.                   *)
LEMMA FilledBytes ==
    ASSUME NEW b \in Seq(Nat), NEW r \in Nat, NEW e \in BOOLEAN, NEW c \in Seq(Nat),
           ExactBytes(b, 0, r, e, c),
           NEW count \in Nat, Len(b) + count <= BufferMax, r + count <= ContentLen,
           NEW end \in BOOLEAN, end => r + count = ContentLen
    PROVE  /\ b \o BytesAfter(r, count) \in Seq(Nat)
           /\ ExactBytes(b \o BytesAfter(r, count), 0, r + count, end, c)
<1> DEFINE more == BytesAfter(r, count)
           j == b \o more
           m == Len(b)
           n == Len(c)
<1>1. m \in Nat /\ n \in Nat /\ n + m = r /\ m + count <= BufferMax
  BY DEF ExactBytes
<1>2. more \in [1..count -> Nat] /\ \A i \in 1..count : more[i] = r + i
  BY DEF BytesAfter
<1> HIDE DEF more
<1>3. more \in Seq(Nat) /\ Len(more) = count
  BY <1>2
<1>4. j \in Seq(Nat) /\ Len(j) = m + count
  BY <1>3, ConcatProperties
<1>5. \A i \in 1..(m + count) : j[i] = IF i <= m THEN b[i] ELSE more[i - m]
  BY <1>3, ConcatProperties
<1>6. \A i \in 1..(m - 0) : b[0 + i] = n + i
  BY DEF ExactBytes
<1>7. \A i \in 1..n : c[i] = i
  BY DEF ExactBytes
<1> HIDE DEF j, m, n
<1>8. ASSUME NEW i \in 1..(m + count)
      PROVE  j[i] = n + i
  <2>1. CASE i <= m
    <3>1. i \in 1..(m - 0) /\ 0 + i = i
      BY <1>1, <2>1
    <3> QED
      BY <1>5, <1>6, <2>1, <3>1
  <2>2. CASE i > m
    <3>1. i - m \in 1..count /\ r + (i - m) = n + i
      BY <1>1, <2>2
    <3>2. j[i] = more[i - m]
      BY <1>1, <1>5, <2>2
    <3> QED
      BY <1>2, <3>1, <3>2
  <2> QED
    BY <1>1, <2>1, <2>2
<1>9. \A i \in 1..((m + count) - 0) : j[0 + i] = n + i
  BY <1>1, <1>8
<1>10. 0 <= m + count /\ n + ((m + count) - 0) = r + count
  BY <1>1
<1>11. ExactBytes(j, 0, r + count, end, c)
  BY <1>1, <1>4, <1>7, <1>9, <1>10, Zenon DEF ExactBytes, n
<1> QED
  BY <1>4, <1>11 DEF j, more

(* The caller takes some of the visible bytes.                               *)
LEMMA ConsumedBytes ==
    ASSUME NEW b \in Seq(Nat), NEW a \in Nat, NEW r \in Nat, NEW e \in BOOLEAN, NEW c \in Seq(Nat),
           ExactBytes(b, a, r, e, c), NEW count \in Nat, count <= Len(b) - a
    PROVE  LET taken == SubSeq(SubSeq(b, a + 1, Len(b)), 1, count)
           IN /\ c \o taken \in Seq(Nat)
              /\ ExactBytes(b, a + count, r, e, c \o taken)
              /\ a + count = Len(b) => ExactBytes(<<>>, 0, r, e, c \o taken)
<1> DEFINE v == SubSeq(b, a + 1, Len(b))
           taken == SubSeq(v, 1, count)
           d == c \o taken
           m == Len(b)
           n == Len(c)
<1>1. /\ a <= m /\ m \in Nat /\ n \in Nat /\ BufferMax \in Nat /\ ContentLen \in Nat
      /\ count <= m - a
  BY StreamAssumption DEF ExactBytes
<1>2. v \in Seq(Nat) /\ Len(v) = m - a
  BY <1>1, SuffixBytes
<1>3. \A i \in 1..(m - a) : v[i] = b[a + i]
  BY <1>1, SuffixBytes
<1> HIDE DEF v
<1>a. /\ taken \in Seq(Nat)
      /\ Len(taken) = IF 1 <= count THEN count - 1 + 1 ELSE 0
      /\ \A i \in 1..(count - 1 + 1) : taken[i] = v[1 + i - 1]
  <2>1. \A i \in 1..count : v[i] \in Nat
    BY SMTT(40), <1>1, <1>2
  <2> QED
    BY <2>1, SubSeqProperties
<1> HIDE DEF taken
<1>4. taken \in Seq(Nat) /\ Len(taken) = count
  BY <1>a
<1>5. \A i \in 1..count : taken[i] = v[i]
  BY <1>a
<1>6. d \in Seq(Nat) /\ Len(d) = n + count
  BY <1>4, ConcatProperties
<1>7. \A i \in 1..(n + count) : d[i] = IF i <= n THEN c[i] ELSE taken[i - n]
  BY <1>4, ConcatProperties
<1>8. /\ m <= BufferMax /\ r <= ContentLen /\ n + (m - a) = r
      /\ \A i \in 1..n : c[i] = i
      /\ \A i \in 1..(m - a) : b[a + i] = n + i
      /\ e => r = ContentLen
  BY DEF ExactBytes
<1>9. Len(<<>>) = 0
  OBVIOUS
<1> HIDE DEF d, m, n
<1>10. ASSUME NEW i \in 1..(n + count)
       PROVE  d[i] = i
  <2>1. CASE i <= n
    BY <1>1, <1>7, <1>8, <2>1
  <2>2. CASE i > n
    <3>1. i - n \in 1..count /\ i - n \in 1..(m - a) /\ n + (i - n) = i
      BY <1>1, <2>2
    <3>2. d[i] = taken[i - n]
      BY <1>1, <1>7, <2>2
    <3>3. taken[i - n] = b[a + (i - n)]
      BY <1>3, <1>5, <3>1
    <3>4. b[a + (i - n)] = n + (i - n)
      BY <1>8, <3>1
    <3> QED
      BY <3>1, <3>2, <3>3, <3>4
  <2> QED
    BY <1>1, <2>1, <2>2
<1>11. ASSUME NEW i \in 1..(m - (a + count))
       PROVE  b[(a + count) + i] = (n + count) + i
  <2>1. count + i \in 1..(m - a) /\ (a + count) + i = a + (count + i)
    BY <1>1
  <2>2. b[a + (count + i)] = n + (count + i)
    BY <1>8, <2>1
  <2>3. n + (count + i) = (n + count) + i
    BY <1>1
  <2> QED
    BY <2>1, <2>2, <2>3
<1>12. a + count <= m /\ (n + count) + (m - (a + count)) = r
  BY <1>1, <1>8
<1>13. ExactBytes(b, a + count, r, e, d)
  BY <1>6, <1>8, <1>10, <1>11, <1>12, Zenon DEF ExactBytes, m
<1>14. ASSUME a + count = m
       PROVE  ExactBytes(<<>>, 0, r, e, d)
  <2>1. (n + count) + (0 - 0) = r /\ 0 <= BufferMax /\ 0 <= 0 /\ 1..(0 - 0) = {}
    BY <1>1, <1>8, <1>14
  <2>2. \A i \in 1..(0 - 0) : (<<>>)[0 + i] = (n + count) + i
    BY <2>1
  <2> QED
    BY <1>6, <1>8, <1>9, <1>10, <2>1, <2>2, Zenon DEF ExactBytes
<1> QED
  BY <1>6, <1>13, <1>14 DEF d, taken, v, m

(* The invariant when one stream changes.                                    *)
LEMMA OneStream ==
    ASSUME StreamInv, NEW s \in Streams, NEW u \in StreamStates, NEW w \in Nat \cup {NoWant},
           NEW c \in Seq(Nat),
           stream' = [stream EXCEPT ![s] = u], asked' = [asked EXCEPT ![s] = w],
           seen' = [seen EXCEPT ![s] = c],
           u.open => Exact(u, c), w # NoWant => u.open
    PROVE  StreamInv'
<1>1. /\ stream' \in [Streams -> StreamStates]
      /\ asked' \in [Streams -> Nat \cup {NoWant}]
      /\ seen' \in [Streams -> Seq(Nat)]
  BY DEF StreamInv
<1>2. ASSUME NEW x \in Streams
      PROVE  /\ stream'[x].open => Exact(stream'[x], seen'[x])
             /\ asked'[x] # NoWant => stream'[x].open
  <2>1. CASE x = s
    <3>1. stream'[x] = u /\ asked'[x] = w /\ seen'[x] = c
      BY <2>1 DEF StreamInv
    <3> QED
      BY <3>1
  <2>2. CASE x # s
    <3>1. stream'[x] = stream[x] /\ asked'[x] = asked[x] /\ seen'[x] = seen[x]
      BY <2>2 DEF StreamInv
    <3> QED
      BY <3>1 DEF StreamInv
  <2> QED
    BY <2>1, <2>2
<1> QED
  BY <1>1, <1>2 DEF StreamInv, Exact, ExactBytes

(* One turn of fill's loop.                                                  *)
LEMMA FillExact ==
    ASSUME StreamInv, NEW s \in Streams, FillRead(s)
    PROVE  StreamInv'
<1> DEFINE o == stream[s]
           v == SubSeq(o.buffer, o.start + 1, Len(o.buffer))
           t == [o EXCEPT !.buffer = v, !.start = 0]
           room == ReadLen(t)
<1>1. /\ o \in StreamStates /\ asked[s] \in Nat \cup {NoWant} /\ asked[s] # NoWant
      /\ seen[s] \in Seq(Nat) /\ o.open /\ Exact(o, seen[s])
  BY DEF StreamInv, FillRead
<1>2. /\ o.buffer \in Seq(Nat) /\ o.start \in Nat /\ o.read \in Nat /\ o.cap \in Nat
      /\ o.atEnd \in BOOLEAN
  BY <1>1 DEF StreamStates
<1>3. v \in Seq(Nat) /\ ExactBytes(v, 0, o.read, o.atEnd, seen[s])
  BY <1>1, <1>2, CompactBytes DEF Exact
<1>4. PICK count \in 0..Min({room, ContentLen - t.read}) :
        /\ count = 0 => t.read = ContentLen
        /\ stream' = [stream EXCEPT ![s] =
               [t EXCEPT !.buffer = t.buffer \o [i \in 1..count |-> t.read + i],
                         !.read = t.read + count,
                         !.cap = Grown(t.cap, Len(t.buffer) + room), !.atEnd = count = 0]]
  BY <1>1, <1>2 DEF FillRead, Compact, StreamVisible, StreamStates
<1>5. UNCHANGED <<asked, seen>>
  BY DEF FillRead
<1> HIDE DEF v
<1>6. /\ t \in StreamStates /\ t.buffer = v /\ t.start = 0 /\ t.read = o.read
      /\ t.atEnd = o.atEnd /\ t.cap = o.cap /\ t.open = o.open
  BY <1>1, <1>3 DEF StreamStates
<1> HIDE DEF t, o
<1>7. Len(v) \in Nat /\ Len(v) <= BufferMax /\ o.read <= ContentLen
  BY <1>3 DEF ExactBytes
<1>8. BufferMax \in Nat /\ ReadMax \in Nat /\ ContentLen \in Nat
  BY StreamAssumption
<1>9. room \in Nat /\ room <= BufferMax - Len(v)
  <2> DEFINE space == BufferMax - Len(v)
  <2>1. ReadMax \in Int /\ space \in Int /\ space \in Nat
    BY <1>7, <1>8
  <2>2. room = Min({ReadMax, space})
    BY <1>6 DEF ReadLen
  <2> HIDE DEF space, room
  <2>3. Min({ReadMax, space}) \in Nat /\ Min({ReadMax, space}) <= space
    BY <1>8, <2>1, OfTwo, Zenon
  <2> QED
    BY <2>2, <2>3 DEF space
<1> HIDE DEF room
<1>10. count \in Nat /\ count <= room /\ count <= ContentLen - o.read
  <2> DEFINE left == ContentLen - o.read
             most == Min({room, left})
  <2>1. left \in Nat /\ left \in Int /\ room \in Int
    BY <1>2, <1>7, <1>8, <1>9
  <2>2. count \in 0..most
    BY <1>4, <1>6
  <2> HIDE DEF left
  <2>3. most \in Nat /\ most <= room /\ most <= left
    BY <1>9, <2>1, OfTwo, Zenon
  <2> HIDE DEF most
  <2> QED
    BY <1>9, <2>1, <2>2, <2>3 DEF left
<1> DEFINE j == v \o BytesAfter(o.read, count)
           k == Grown(o.cap, Len(v) + room)
<1>11. j \in Seq(Nat) /\ ExactBytes(j, 0, o.read + count, count = 0, seen[s])
  <2> DEFINE end == count = 0
  <2>1. /\ Len(v) + count <= BufferMax /\ o.read + count <= ContentLen
        /\ end \in BOOLEAN /\ (end => o.read + count = ContentLen)
    BY SMTT(40), <1>2, <1>4, <1>6, <1>7, <1>8, <1>9, <1>10
  <2> HIDE DEF end
  <2>2. j \in Seq(Nat) /\ ExactBytes(j, 0, o.read + count, end, seen[s])
    BY <1>1, <1>2, <1>3, <1>10, <2>1, FilledBytes
  <2> QED
    BY <2>2 DEF end
<1>12. k \in Nat
  <2> DEFINE x == Len(v) + room
             y == 2 * o.cap
  <2>1. x \in Nat /\ y \in Nat /\ x \in Int /\ y \in Int
    BY <1>2, <1>7, <1>9
  <2>2. k = IF x <= o.cap THEN o.cap ELSE Max({x, y})
    BY DEF Grown
  <2> HIDE DEF x, y
  <2>3. Max({x, y}) \in Nat
    BY <2>1, OfTwo, Zenon
  <2> QED
    BY <1>2, <2>2, <2>3
<1> DEFINE u == [t EXCEPT !.buffer = j, !.read = o.read + count, !.cap = k, !.atEnd = count = 0]
<1>13. stream' = [stream EXCEPT ![s] = u]
  BY <1>4, <1>6 DEF BytesAfter
<1> HIDE DEF j, k
<1>14. /\ u \in StreamStates /\ u.buffer = j /\ u.start = 0 /\ u.read = o.read + count
       /\ u.atEnd = (count = 0) /\ u.open
  <2>1. o.read + count \in Nat /\ (count = 0) \in BOOLEAN /\ t.open
    BY <1>1, <1>2, <1>6, <1>10 DEF o
  <2> QED
    BY <1>6, <1>11, <1>12, <2>1 DEF StreamStates
<1> HIDE DEF u
<1>15. Exact(u, seen[s])
  BY <1>11, <1>14 DEF Exact
<1>16. asked' = [asked EXCEPT ![s] = asked[s]] /\ seen' = [seen EXCEPT ![s] = seen[s]]
  BY <1>5 DEF StreamInv
<1> QED
  BY <1>1, <1>13, <1>14, <1>15, <1>16, OneStream

(* The caller has its window and takes some of it.                           *)
LEMMA ConsumeExact ==
    ASSUME StreamInv, NEW s \in Streams, NEW count \in 0..BufferMax, Consume(s, count)
    PROVE  StreamInv'
<1> DEFINE o == stream[s]
           v == SubSeq(o.buffer, o.start + 1, Len(o.buffer))
           d == seen[s] \o SubSeq(v, 1, count)
           next == IF o.start + count = Len(o.buffer) THEN [o EXCEPT !.buffer = <<>>, !.start = 0]
                   ELSE [o EXCEPT !.start = o.start + count]
           u == [next EXCEPT !.accounted = o.cap]
<1>1. /\ o \in StreamStates /\ asked[s] \in Nat \cup {NoWant} /\ asked[s] # NoWant
      /\ seen[s] \in Seq(Nat) /\ o.open /\ Exact(o, seen[s])
  BY DEF StreamInv, Consume
<1>2. /\ o.buffer \in Seq(Nat) /\ o.start \in Nat /\ o.read \in Nat /\ o.cap \in Nat
      /\ o.atEnd \in BOOLEAN /\ Len(o.buffer) \in Nat /\ count \in Nat
  BY SMTT(40), <1>1, StreamAssumption DEF StreamStates
<1>3. /\ count <= Min({asked[s], Len(o.buffer) - o.start})
      /\ seen' = [seen EXCEPT ![s] = d]
      /\ stream' = [stream EXCEPT ![s] = u]
      /\ asked' = [asked EXCEPT ![s] = NoWant]
  BY <1>1, <1>2 DEF Consume, Available, StreamVisible, StreamInv
<1>4. count <= Len(o.buffer) - o.start
  <2> DEFINE have == Len(o.buffer) - o.start
             most == Min({asked[s], have})
  <2>1. asked[s] \in Int /\ have \in Int
    BY <1>1, <1>2
  <2>2. count <= most
    BY <1>3
  <2> HIDE DEF have
  <2>3. most <= have /\ most \in {asked[s], have}
    BY <2>1, OfTwo, Zenon
  <2> HIDE DEF most
  <2>4. count <= have
    BY <1>2, <2>1, <2>2, <2>3
  <2> QED
    BY <2>4 DEF have
<1>5. /\ d \in Seq(Nat)
      /\ ExactBytes(o.buffer, o.start + count, o.read, o.atEnd, d)
      /\ o.start + count = Len(o.buffer) => ExactBytes(<<>>, 0, o.read, o.atEnd, d)
  BY ZenonT(40), <1>1, <1>2, <1>4, ConsumedBytes DEF Exact
<1> HIDE DEF o, d
<1>6. u \in StreamStates /\ u.open /\ Exact(u, d)
  <2>1. CASE o.start + count = Len(o.buffer)
    <3> DEFINE w == [o EXCEPT !.buffer = <<>>, !.start = 0]
    <3>1. <<>> \in Seq(Nat)
      OBVIOUS
    <3>2. /\ w \in StreamStates /\ w.buffer = <<>> /\ w.start = 0 /\ w.read = o.read
          /\ w.atEnd = o.atEnd /\ w.open
      BY <1>1, <3>1 DEF StreamStates
    <3>3. u = [w EXCEPT !.accounted = o.cap]
      BY <2>1
    <3> HIDE DEF w
    <3>4. /\ u \in StreamStates /\ u.buffer = <<>> /\ u.start = 0 /\ u.read = o.read
          /\ u.atEnd = o.atEnd /\ u.open
      BY <1>2, <3>2, <3>3 DEF StreamStates
    <3> QED
      BY <1>5, <2>1, <3>4 DEF Exact
  <2>2. CASE o.start + count # Len(o.buffer)
    <3> DEFINE w == [o EXCEPT !.start = o.start + count]
    <3>1. o.start + count \in Nat
      BY <1>2
    <3>2. /\ w \in StreamStates /\ w.buffer = o.buffer /\ w.start = o.start + count
          /\ w.read = o.read /\ w.atEnd = o.atEnd /\ w.open
      BY <1>1, <3>1 DEF StreamStates
    <3>3. u = [w EXCEPT !.accounted = o.cap]
      BY <2>2
    <3> HIDE DEF w
    <3>4. /\ u \in StreamStates /\ u.buffer = o.buffer /\ u.start = o.start + count
          /\ u.read = o.read /\ u.atEnd = o.atEnd /\ u.open
      BY <1>2, <3>2, <3>3 DEF StreamStates
    <3> QED
      BY <1>5, <3>4 DEF Exact
  <2> QED
    BY <2>1, <2>2
<1> HIDE DEF u
<1> QED
  BY <1>3, <1>5, <1>6, OneStream

(* Two sequences of bytes that are the content in order.                     *)
LEMMA InOrder ==
    ASSUME NEW b \in Seq(Nat), NEW a \in Nat, NEW r \in Nat, NEW e \in BOOLEAN, NEW c \in Seq(Nat),
           ExactBytes(b, a, r, e, c)
    PROVE  c \o SubSeq(b, a + 1, Len(b)) = FirstBytes(r)
<1> DEFINE m == Len(b)
           v == SubSeq(b, a + 1, Len(b))
           d == c \o v
<1>1. a <= m /\ m \in Nat /\ 0 <= m - a
  BY DEF ExactBytes
<1>2. SubSeq(v, 1, m - a) = v
  <2>1. v \in Seq(Nat) /\ Len(v) = m - a
    BY <1>1
  <2> HIDE DEF v
  <2> QED
    BY <1>1, <2>1
<1>3. d \in Seq(Nat) /\ ExactBytes(b, a + (m - a), r, e, d)
  <2>1. m - a \in Nat /\ m - a <= m - a
    BY <1>1
  <2>2. /\ c \o SubSeq(v, 1, m - a) \in Seq(Nat)
        /\ ExactBytes(b, a + (m - a), r, e, c \o SubSeq(v, 1, m - a))
    BY <2>1, ConsumedBytes, Zenon
  <2> HIDE DEF v, m
  <2> QED
    BY <1>2, <2>2
<1> HIDE DEF d
<1>4. Len(d) = r /\ \A i \in 1..r : d[i] = i
  <2>1. Len(d) + (m - (a + (m - a))) = r /\ Len(d) \in Nat
    BY <1>3 DEF ExactBytes
  <2>2. m - (a + (m - a)) = 0
    BY <1>1
  <2>3. Len(d) = r
    BY <2>1, <2>2
  <2> QED
    BY <1>3, <2>3 DEF ExactBytes
<1>5. d = FirstBytes(r)
  BY <1>3, <1>4 DEF FirstBytes
<1> QED
  BY <1>5 DEF d, v

(* account moves the meter by what the stream's share changes.               *)
LEMMA MeterMoves ==
    ASSUME StreamInv, MeterIsSum, NEW s \in Streams, NEW u \in StreamStates,
           stream' = [stream EXCEPT ![s] = u],
           meter'.resident = meter.resident + u.accounted - stream[s].accounted
    PROVE  MeterIsSum'
<1> DEFINE a == [x \in Streams |-> stream[x].accounted]
           b == [x \in Streams |-> stream'[x].accounted]
<1>1. /\ \A x \in Streams : a[x] \in Nat /\ b[x] \in Nat
      /\ \A x \in Streams : x # s => b[x] = a[x]
      /\ a[s] = stream[s].accounted /\ b[s] = u.accounted
  BY DEF StreamInv, StreamStates
<1>2. /\ meter.resident = Total(a, Streams)
      /\ MeterIsSum' = (meter'.resident = Total(b, Streams))
  BY ZenonT(40) DEF MeterIsSum, Units, Total
<1> HIDE DEF a, b
<1>3. Total(a, Streams) \in Nat /\ Total(b, Streams) = (Total(a, Streams) + b[s]) - a[s]
  <2>1. /\ IsFiniteSet(Streams) /\ \A t \in Streams : a[t] \in Nat /\ b[t] \in Nat
        /\ \A t \in Streams : t # s => b[t] = a[t]
    BY <1>1, StreamAssumption
  <2> QED
    BY <2>1, SumChanges
<1> DEFINE x == Total(a, Streams)
           y == Total(b, Streams)
<1>4. /\ x \in Nat /\ y = (x + b[s]) - a[s] /\ b[s] \in Nat /\ a[s] \in Nat
      /\ meter'.resident = x + b[s] - a[s]
  BY <1>1, <1>2, <1>3
<1> HIDE DEF x, y
<1>5. meter'.resident = y
  BY <1>4
<1> QED
  BY <1>2, <1>5 DEF y

(* A step that leaves every share alone leaves the meter alone.              *)
LEMMA MeterStays ==
    ASSUME MeterIsSum, meter' = meter, \A x \in Streams : stream'[x].accounted = stream[x].accounted
    PROVE  MeterIsSum'
  BY DEF MeterIsSum

(* Every step keeps the meter exact.                                         *)
LEMMA MeterStep ==
    ASSUME StreamInv, MeterIsSum, [StreamNext]_streamVars
    PROVE  MeterIsSum'
<1>1. CASE UNCHANGED streamVars
  BY <1>1, MeterStays DEF streamVars
<1>2. ASSUME NEW s \in Streams, NEW want \in Wants, AskWindow(s, want) PROVE MeterIsSum'
  BY <1>2, MeterStays DEF AskWindow
<1>3. ASSUME NEW s \in Streams, FillRead(s) PROVE MeterIsSum'
  <2> DEFINE o == stream[s]
             t == Compact(o)
  <2>1. o \in StreamStates
    BY DEF StreamInv
  <2>2. PICK count :
          stream' = [stream EXCEPT ![s] =
             [t EXCEPT !.buffer = @ \o [i \in 1..count |-> t.read + i], !.read = @ + count,
                       !.cap = Grown(@, Len(t.buffer) + ReadLen(t)), !.atEnd = count = 0]]
    BY <1>3, ZenonT(40) DEF FillRead
  <2> DEFINE bytes == t.buffer \o [i \in 1..count |-> t.read + i]
             read == t.read + count
             cap == Grown(t.cap, Len(t.buffer) + ReadLen(t))
             atEnd == count = 0
             u == [t EXCEPT !.buffer = bytes, !.read = read, !.cap = cap, !.atEnd = atEnd]
  <2>3. stream' = [stream EXCEPT ![s] = u] /\ meter' = meter
    BY <1>3, <2>2 DEF FillRead
  <2> HIDE DEF bytes, read, cap, atEnd
  <2>4. u.accounted = o.accounted
    <3> HIDE DEF o
    <3> QED
      BY <2>1 DEF Compact, StreamStates
  <2> HIDE DEF u
  <2>5. \A x \in Streams : stream'[x].accounted = stream[x].accounted
    BY <2>3, <2>4 DEF StreamInv
  <2> QED
    BY <2>3, <2>5, MeterStays
<1>4. ASSUME NEW s \in Streams, NEW count \in 0..BufferMax, Consume(s, count) PROVE MeterIsSum'
  <2> DEFINE u == stream'[s]
  <2>1. StreamInv'
    BY <1>4, ConsumeExact
  <2>2. stream[s] \in StreamStates /\ u \in StreamStates /\ stream \in [Streams -> StreamStates]
    BY <2>1 DEF StreamInv
  <2>3. PICK n : stream' = [stream EXCEPT ![s] = [n EXCEPT !.accounted = stream[s].cap]]
    BY <1>4 DEF Consume
  <2>4. u = [n EXCEPT !.accounted = stream[s].cap]
    BY <2>2, <2>3
  <2>5. stream' = [stream EXCEPT ![s] = u]
    BY <2>3, <2>4
  <2>6. meter'.resident = meter.resident + stream[s].cap - stream[s].accounted
    BY <1>4 DEF Consume, Account
  <2>7. u.accounted = stream[s].cap
    BY <2>2, <2>4 DEF StreamStates
  <2> HIDE DEF u
  <2> QED
    BY <2>2, <2>5, <2>6, <2>7, MeterMoves
<1>5. ASSUME NEW s \in Streams, Release(s) PROVE MeterIsSum'
  <2> DEFINE u == [FreshStream EXCEPT !.open = FALSE]
  <2>1. <<>> \in Seq(Nat)
    OBVIOUS
  <2>2. FreshStream \in StreamStates /\ FreshStream.accounted = 0
    BY <2>1 DEF FreshStream, StreamStates
  <2>3. u \in StreamStates /\ u.accounted = 0
    BY <2>2 DEF StreamStates
  <2>4. stream' = [stream EXCEPT ![s] = u] /\ meter'.resident = meter.resident + 0 - stream[s].accounted
    BY <1>5 DEF Release, Account
  <2> HIDE DEF u
  <2> QED
    BY <2>3, <2>4, MeterMoves
<1> QED
  BY <1>1, <1>2, <1>3, <1>4, <1>5 DEF StreamNext

-----------------------------------------------------------------------------
(* Whatever the reader returns and however little a caller takes, the bytes   *)
(* consumed and the bytes held are together what was read, in order and       *)
(* without a gap, the buffer stays within its budget, and the end is believed *)
(* only when the whole content was read: window, fill, compact and consume    *)
(* of BoundedStream, for every content, budget and read size.  And the        *)
(* process-wide meter is the sum of what the live streams hold.               *)
THEOREM StreamsAreSound == StreamSpec => []StreamSound
<1>1. StreamInit => StreamInv /\ MeterIsSum
  <2> SUFFICES ASSUME StreamInit
               PROVE  StreamInv /\ MeterIsSum
    OBVIOUS
  <2>1. <<>> \in Seq(Nat) /\ Len(<<>>) = 0
    OBVIOUS
  <2>2. FreshStream \in StreamStates
    BY <2>1 DEF FreshStream, StreamStates
  <2>3. ExactBytes(<<>>, 0, 0, FALSE, <<>>)
    BY <2>1, StreamAssumption DEF ExactBytes
  <2>4. Exact(FreshStream, <<>>)
    BY <2>3 DEF Exact, FreshStream
  <2>5. StreamInv
    BY <2>1, <2>2, <2>4 DEF StreamInit, StreamInv
  <2>6. MeterIsSum
    <3> DEFINE a == [x \in Streams |-> stream[x].accounted]
    <3>1. \A x \in Streams : a[x] = 0
      BY DEF StreamInit, FreshStream
    <3>2. MeterIsSum = (meter.resident = Total(a, Streams)) /\ meter.resident = 0
      BY ZenonT(40) DEF StreamInit, MeterIsSum, Units, Total
    <3> HIDE DEF a
    <3> QED
      BY <3>1, <3>2, NoUnits
  <2> QED
    BY <2>5, <2>6
<1>2. StreamInv /\ [StreamNext]_streamVars => StreamInv'
  <2> SUFFICES ASSUME StreamInv, [StreamNext]_streamVars
               PROVE  StreamInv'
    OBVIOUS
  <2>1. ASSUME NEW s \in Streams, NEW want \in Wants, AskWindow(s, want)
        PROVE  StreamInv'
    <3>1. /\ stream[s] \in StreamStates /\ want \in Nat \cup {NoWant} /\ seen[s] \in Seq(Nat)
          /\ stream[s].open /\ Exact(stream[s], seen[s])
      BY <2>1, StreamAssumption DEF AskWindow, StreamInv
    <3>2. /\ stream' = [stream EXCEPT ![s] = stream[s]] /\ asked' = [asked EXCEPT ![s] = want]
          /\ seen' = [seen EXCEPT ![s] = seen[s]]
      BY <2>1 DEF AskWindow, StreamInv
    <3> QED
      BY <3>1, <3>2, OneStream
  <2>2. ASSUME NEW s \in Streams, Release(s)
        PROVE  StreamInv'
    <3> DEFINE u == [FreshStream EXCEPT !.open = FALSE]
    <3>1. <<>> \in Seq(Nat)
      OBVIOUS
    <3>2. FreshStream \in StreamStates
      BY <3>1 DEF FreshStream, StreamStates
    <3>3. u \in StreamStates /\ ~u.open
      BY <3>2 DEF StreamStates
    <3>4. stream' = [stream EXCEPT ![s] = u] /\ asked' = [asked EXCEPT ![s] = NoWant]
      BY <2>2 DEF Release
    <3>5. seen' = [seen EXCEPT ![s] = seen[s]] /\ seen[s] \in Seq(Nat)
      BY <2>2 DEF Release, StreamInv
    <3> HIDE DEF u
    <3> QED
      BY <3>3, <3>4, <3>5, OneStream
  <2>3. CASE UNCHANGED streamVars
    BY <2>3 DEF streamVars, StreamInv, Exact, ExactBytes
  <2> QED
    BY <2>1, <2>2, <2>3, FillExact, ConsumeExact DEF StreamNext
<1>3. StreamInv => StreamExact
  <2> SUFFICES ASSUME StreamInv, NEW s \in Streams, stream[s].open
               PROVE  /\ seen[s] \o StreamVisible(stream[s]) = [i \in 1..stream[s].read |-> i]
                      /\ Len(stream[s].buffer) <= BufferMax
                      /\ stream[s].atEnd => stream[s].read = ContentLen
    BY DEF StreamExact
  <2>1. /\ stream[s].buffer \in Seq(Nat) /\ stream[s].start \in Nat /\ stream[s].read \in Nat
        /\ stream[s].atEnd \in BOOLEAN /\ seen[s] \in Seq(Nat) /\ Exact(stream[s], seen[s])
    BY DEF StreamInv, StreamStates
  <2>2. seen[s] \o StreamVisible(stream[s]) = FirstBytes(stream[s].read)
    <3> DEFINE b == stream[s].buffer
               n == stream[s].start
               r == stream[s].read
               e == stream[s].atEnd
               c == seen[s]
    <3>1. /\ b \in Seq(Nat) /\ n \in Nat /\ r \in Nat /\ e \in BOOLEAN /\ c \in Seq(Nat)
          /\ ExactBytes(b, n, r, e, c)
      BY <2>1 DEF Exact
    <3> HIDE DEF b, n, r, e, c
    <3>2. c \o SubSeq(b, n + 1, Len(b)) = FirstBytes(r)
      BY ZenonT(40), <3>1, InOrder
    <3> QED
      BY <3>2 DEF b, n, r, c, StreamVisible
  <2> QED
    BY <2>1, <2>2 DEF Exact, ExactBytes, FirstBytes
<1>4. StreamInv /\ MeterIsSum /\ [StreamNext]_streamVars => MeterIsSum'
  BY MeterStep
<1>5. StreamExact /\ MeterIsSum => StreamSound
  BY DEF StreamSound
<1> QED
  BY <1>1, <1>2, <1>3, <1>4, <1>5, PTL DEF StreamSpec

-----------------------------------------------------------------------------
(* Intake: names in order.                                                   *)

(* A set of n numbers can be listed in order.                                *)
InOrderOf(n, S, s) == s \in [1..n -> S] /\ \A i, j \in 1..n : i < j => s[i] < s[j]
Listable == {n \in Nat : \A S \in SUBSET Nat : IsFiniteSet(S) /\ Cardinality(S) = n => \E s : InOrderOf(n, S, s)}

LEMMA SetsAreListable == Nat \subseteq Listable
<1>1. 0 \in Listable
  <2>1. ASSUME NEW S \in SUBSET Nat, IsFiniteSet(S), Cardinality(S) = 0 PROVE \E s : InOrderOf(0, S, s)
    <3> DEFINE e == [i \in 1..0 |-> i]
    <3>1. 1..0 = {}
      OBVIOUS
    <3>2. e \in [1..0 -> S]
      BY <3>1
    <3>3. InOrderOf(0, S, e)
      BY <3>1, <3>2 DEF InOrderOf
    <3> QED
      BY <3>3
  <2> QED
    BY <2>1 DEF Listable
<1>2. ASSUME NEW n \in Nat, n \in Listable PROVE n + 1 \in Listable
  <2>1. ASSUME NEW S \in SUBSET Nat, IsFiniteSet(S), Cardinality(S) = n + 1
        PROVE  \E s : InOrderOf(n + 1, S, s)
    <3>1. S # {}
      BY <2>1, FS_EmptySet
    <3>2. PICK m \in S : \A x \in S : m <= x
      BY <3>1, LeastNat
    <3> DEFINE U == S \ {m}
    <3>3. U \in SUBSET Nat /\ IsFiniteSet(U) /\ Cardinality(U) = n
      <4>1. IsFiniteSet(U) /\ Cardinality(U) = Cardinality(S) - 1
        BY <2>1, FS_RemoveElement
      <4> QED
        BY <2>1, <4>1
    <3>4. PICK u : InOrderOf(n, U, u)
      BY <1>2, <3>3 DEF Listable
    <3>5. \A i \in 1..n : u[i] \in S /\ u[i] \in Nat /\ m < u[i]
      <4>1. \A i \in 1..n : u[i] \in U
        BY <3>4 DEF InOrderOf
      <4>2. \A x \in U : x \in S /\ x \in Nat /\ m < x
        BY <3>2
      <4> QED
        BY <4>1, <4>2
    <3> DEFINE s == [i \in 1..(n + 1) |-> IF i = 1 THEN m ELSE u[i - 1]]
    <3>6. \A i \in 1..(n + 1) : i = 1 \/ i - 1 \in 1..n
      OBVIOUS
    <3>7. s \in [1..(n + 1) -> S]
      BY <3>5, <3>6
    <3>8. ASSUME NEW i \in 1..(n + 1), NEW j \in 1..(n + 1), i < j PROVE s[i] < s[j]
      <4>1. j # 1 /\ j - 1 \in 1..n
        BY <3>8
      <4>2. CASE i = 1
        BY <3>5, <4>1, <4>2
      <4>3. CASE i # 1
        <5>1. i - 1 \in 1..n /\ i - 1 < j - 1
          BY <3>8, <4>3
        <5>2. u[i - 1] < u[j - 1]
          BY <3>4, <4>1, <5>1 DEF InOrderOf
        <5> QED
          BY <4>1, <4>3, <5>2
      <4> QED
        BY <4>2, <4>3
    <3> HIDE DEF s
    <3>9. InOrderOf(n + 1, S, s)
      BY <3>7, <3>8 DEF InOrderOf
    <3> QED
      BY <3>9
  <2> QED
    BY <2>1 DEF Listable
<1> QED
  BY <1>1, <1>2, SetInduction

(* Sorted lists a set of names, each of them.                                *)
LEMMA SortedLists ==
    ASSUME NEW S \in SUBSET Nat, IsFiniteSet(S)
    PROVE  /\ Sorted(S) \in Seq(S)
           /\ \A x \in S : \E i \in 1..Len(Sorted(S)) : Sorted(S)[i] = x
<1> DEFINE n == Cardinality(S)
           q == Sorted(S)
<1>1. n \in Nat
  BY FS_CardinalityType
<1>2. \E s : InOrderOf(n, S, s)
  BY <1>1, SetsAreListable DEF Listable
<1>3. InOrderOf(n, S, q)
  <2>1. \E s \in [1..n -> S] : \A i, j \in DOMAIN s : i < j => s[i] < s[j]
    BY <1>2 DEF InOrderOf
  <2>2. q \in [1..n -> S] /\ \A i, j \in DOMAIN q : i < j => q[i] < q[j]
    BY <2>1 DEF Sorted
  <2> QED
    BY <2>2 DEF InOrderOf
<1> HIDE DEF q
<1>4. q \in [1..n -> S] /\ \A i, j \in 1..n : i < j => q[i] < q[j]
  BY <1>3 DEF InOrderOf
<1>5. q \in Injection(1..n, S)
  <2>1. ASSUME NEW i \in 1..n, NEW j \in 1..n, i # j PROVE q[i] # q[j]
    <3>1. q[i] \in Nat /\ q[j] \in Nat
      BY <1>4
    <3>2. i < j \/ j < i
      BY <2>1
    <3> QED
      BY <1>4, <3>1, <3>2
  <2> QED
    BY <1>4, <2>1 DEF Injection, IsInjective
<1>6. IsFiniteSet(1..n) /\ Cardinality(1..n) = n
  <2>1. IsFiniteSet(1..n) /\ Cardinality(1..n) = IF 1 > n THEN 0 ELSE n - 1 + 1
    BY <1>1, FS_Interval
  <2> HIDE DEF n
  <2> QED
    BY <1>1, <2>1
<1>7. q \in Surjection(1..n, S)
  BY <1>5, <1>6, FS_Injection
<1>8. q \in Seq(S) /\ Len(q) = n
  BY <1>1, <1>4
<1>9. \A x \in S : \E i \in 1..n : q[i] = x
  BY <1>7 DEF Surjection
<1> QED
  BY <1>8, <1>9 DEF q

-----------------------------------------------------------------------------
(* Intake: the inductive invariant.                                          *)

(* The files of the plan, and the directories that are still to be read.     *)
Planned(files) == {files[i] : i \in 1..Len(files)}
Waiting(st) == {st[i].dir : i \in 1..Len(st)}

(* The directories of S were read: their files are planned, and what is in   *)
(* them was read or waits.                                                   *)
Walked(S, st, files) ==
    /\ Root \in S \cup Waiting(st)
    /\ \A d \in S : /\ Entries(d, "file") \subseteq Planned(files)
                    /\ Entries(d, "dir") \subseteq S \cup Waiting(st)

Frames == [dir: DOMAIN tree, depth: Nat]
Names == Nat \cup {Root}

(* The files that were submitted are accounted for.                          *)
Accounted(f, held, gone) == FileContent[f] \in held \/ TooLarge(f) \/ f \in gone
Outcomes == {"added", "duplicate", "refused"}
Reports == [added: Nat, duplicate: Nat, refused: Nat, items: Seq([file: Names, outcome: Outcomes])]
Counted(r) == (r.added + r.duplicate) + r.refused

IntakeInv ==
    /\ tree \in Trees
    /\ ipc \in {"request", "walk", "submit", "done", "error"}
    /\ stack \in Seq(Frames)
    /\ plan.files \in Seq(Names)
    /\ at \in Nat /\ at <= Len(plan.files)
    /\ report \in Reports /\ Counted(report) = at
    /\ \A i \in 1..at : Accounted(plan.files[i], stored, vanished)
    /\ ipc = "request" => plan = EmptyPlan /\ at = 0
    /\ ipc = "walk" =>
          /\ at = 0 /\ Len(plan.files) <= FileCountMax
          /\ plan.truncated \/ \E S \in SUBSET DOMAIN tree : Walked(S, stack, plan.files)
    /\ ipc \in {"submit", "done"} => plan.truncated \/ RegularFiles \subseteq Planned(plan.files)
    /\ ipc = "done" => at = Len(plan.files)

-----------------------------------------------------------------------------
(* Intake: the stack and the plan.                                           *)

(* The directory on top of the stack is read, and those below it wait.       *)
LEMMA WaitingPop ==
    ASSUME NEW F, NEW st \in Seq(F), st # <<>>
    PROVE  /\ Front(st) \in Seq(F) /\ Last(st) \in F
           /\ Waiting(st) = Waiting(Front(st)) \cup {Last(st).dir}
<1> DEFINE n == Len(st)
           f == Front(st)
<1>1. n \in Nat /\ n # 0 /\ \A i \in 1..n : st[i] \in F
  BY EmptySeq, ElementOfSeq
<1> HIDE DEF n
<1>2. f \in Seq(F) /\ Len(f) = n - 1 /\ \A i \in 1..(n - 1) : f[i] = st[i]
  <2>1. \A i \in 1..(n - 1) : st[i] \in F
    BY <1>1
  <2>2. f = SubSeq(st, 1, n - 1)
    BY DEF Front, n
  <2>3. n - 1 \in Int /\ 1 \in Int
    BY <1>1
  <2>4. /\ SubSeq(st, 1, n - 1) \in Seq(F)
        /\ Len(SubSeq(st, 1, n - 1)) = IF 1 <= n - 1 THEN (n - 1) - 1 + 1 ELSE 0
        /\ \A i \in 1..((n - 1) - 1 + 1) : SubSeq(st, 1, n - 1)[i] = st[1 + i - 1]
    BY <2>1, <2>3, SubSeqProperties
  <2> HIDE DEF f
  <2>5. f \in Seq(F) /\ Len(f) = IF 1 <= n - 1 THEN (n - 1) - 1 + 1 ELSE 0
    BY <2>2, <2>4
  <2>6. \A i \in 1..((n - 1) - 1 + 1) : f[i] = st[1 + i - 1]
    BY <2>2, <2>4
  <2> QED
    BY <1>1, <2>5, <2>6
<1> HIDE DEF f
<1>3. Last(st) = st[n] /\ Last(st) \in F
  BY <1>1 DEF Last, n
<1>4. Waiting(st) = Waiting(f) \cup {st[n].dir}
  <2>1. Waiting(st) = {st[i].dir : i \in 1..n} /\ Waiting(f) = {st[i].dir : i \in 1..(n - 1)}
    BY <1>2 DEF Waiting, n
  <2>2. 1..n = 1..(n - 1) \cup {n}
    BY <1>1
  <2> QED
    BY <2>1, <2>2
<1> QED
  BY <1>2, <1>3, <1>4 DEF f

(* What waits, or is planned, keeps doing so when more is added behind it.   *)
LEMMA WaitingMore ==
    ASSUME NEW F, NEW a \in Seq(F), NEW b \in Seq(F)
    PROVE  /\ a \o b \in Seq(F)
           /\ Waiting(a) \subseteq Waiting(a \o b) /\ Waiting(b) \subseteq Waiting(a \o b)
           /\ Planned(a) \subseteq Planned(a \o b) /\ Planned(b) \subseteq Planned(a \o b)
<1> DEFINE n == Len(a)
           m == Len(b)
           c == a \o b
<1>1. n \in Nat /\ m \in Nat
  OBVIOUS
<1>2. c \in Seq(F) /\ Len(c) = n + m /\ \A i \in 1..(n + m) : c[i] = IF i <= n THEN a[i] ELSE b[i - n]
  BY ConcatProperties
<1> HIDE DEF c, n, m
<1>3. \A i \in 1..n : i \in 1..(n + m) /\ c[i] = a[i]
  BY <1>1, <1>2
<1>4. ASSUME NEW i \in 1..m PROVE n + i \in 1..(n + m) /\ c[n + i] = b[i]
  <2>1. n + i \in 1..(n + m) /\ ~(n + i <= n) /\ (n + i) - n = i
    BY <1>1
  <2> QED
    BY <1>2, <2>1
<1>5. Waiting(a) \subseteq Waiting(c) /\ Planned(a) \subseteq Planned(c)
  BY <1>2, <1>3 DEF Waiting, Planned, n
<1>6. Waiting(b) \subseteq Waiting(c) /\ Planned(b) \subseteq Planned(c)
  BY <1>2, <1>4 DEF Waiting, Planned, m
<1> QED
  BY <1>2, <1>5, <1>6 DEF c

(* The directories of a directory are pushed, every one of them.             *)
Pushed(ds, n) == Reverse([i \in DOMAIN ds |-> [dir |-> ds[i], depth |-> n]])

LEMMA AllPushed ==
    ASSUME NEW D, NEW ds \in Seq(D), NEW n \in Nat
    PROVE  /\ Pushed(ds, n) \in Seq([dir: D, depth: Nat])
           /\ \A i \in 1..Len(ds) : ds[i] \in Waiting(Pushed(ds, n))
<1> DEFINE m == Len(ds)
           G == [dir: D, depth: Nat]
           g == [i \in 1..m |-> [dir |-> ds[i], depth |-> n]]
           r == [i \in 1..m |-> g[(m - i) + 1]]
<1>1. m \in Nat /\ DOMAIN ds = 1..m /\ \A i \in 1..m : ds[i] \in D
  BY ElementOfSeq
<1> HIDE DEF m
<1>2. \A i \in 1..m : g[i] \in G /\ g[i].dir = ds[i]
  BY <1>1
<1>3. g \in [1..m -> G]
  BY <1>1
<1>4. Len(g) = m
  BY <1>1, <1>3
<1>5. Pushed(ds, n) = r
  BY <1>1, <1>4 DEF Pushed, Reverse
<1> HIDE DEF g, G
<1>6. \A i \in 1..m : (m - i) + 1 \in 1..m /\ (m - ((m - i) + 1)) + 1 = i
  BY <1>1
<1>7. r \in [1..m -> G]
  BY <1>2, <1>6
<1>8. r \in Seq(G) /\ Len(r) = m
  BY <1>1, <1>7
<1>9. ASSUME NEW i \in 1..m PROVE ds[i] \in Waiting(r)
  <2>1. (m - i) + 1 \in 1..m /\ r[(m - i) + 1] = g[i]
    BY <1>6
  <2> HIDE DEF r
  <2> QED
    BY <1>2, <1>8, <2>1 DEF Waiting
<1> HIDE DEF r
<1> QED
  BY <1>5, <1>8, <1>9 DEF m, G

-----------------------------------------------------------------------------
(* Intake: the steps.                                                        *)

(* A row of the report counts one file.                                      *)
LEMMA OneMoreRow ==
    ASSUME report \in Reports, NEW f \in Names, NEW outcome \in Outcomes
    PROVE  Reported(f, outcome) \in Reports /\ Counted(Reported(f, outcome)) = Counted(report) + 1
<1> DEFINE s == report.items
           s1 == IF Len(s) < RowCountMax THEN Append(s, Row(f, outcome)) ELSE s
           a == report.added
           b == report.duplicate
           c == report.refused
<1>1. s1 \in Seq([file: Names, outcome: Outcomes])
  <2>1. s \in Seq([file: Names, outcome: Outcomes])
    BY DEF Reports
  <2>2. Row(f, outcome) \in [file: Names, outcome: Outcomes]
    BY DEF Row
  <2> HIDE DEF s
  <2> QED
    BY <2>1, <2>2, AppendProperties
<1>2. a \in Nat /\ b \in Nat /\ c \in Nat /\ Counted(report) = (a + b) + c
  BY DEF Reports, Counted
<1>3. Reported(f, outcome) = [report EXCEPT ![outcome] = @ + 1, !.items = s1]
  BY DEF Reported
<1> HIDE DEF s1, a, b, c
<1> DEFINE a1 == a + 1
           b1 == b + 1
           c1 == c + 1
<1>4. CASE outcome = "added"
  <2> DEFINE r == [report EXCEPT !.added = a1, !.items = s1]
  <2>1. Reported(f, outcome) = r
    BY <1>3, <1>4 DEF a
  <2>2. a1 \in Nat /\ (a1 + b) + c = ((a + b) + c) + 1
    BY <1>2
  <2> HIDE DEF a1
  <2>3. r \in Reports /\ r.added = a1 /\ r.duplicate = b /\ r.refused = c
    BY <1>1, <2>2 DEF Reports, b, c
  <2> QED
    BY <1>2, <2>1, <2>2, <2>3 DEF Counted
<1>5. CASE outcome = "duplicate"
  <2> DEFINE r == [report EXCEPT !.duplicate = b1, !.items = s1]
  <2>1. Reported(f, outcome) = r
    BY <1>3, <1>5 DEF b
  <2>2. b1 \in Nat /\ (a + b1) + c = ((a + b) + c) + 1
    BY <1>2
  <2> HIDE DEF b1
  <2>3. r \in Reports /\ r.added = a /\ r.duplicate = b1 /\ r.refused = c
    BY <1>1, <2>2 DEF Reports, a, c
  <2> QED
    BY <1>2, <2>1, <2>2, <2>3 DEF Counted
<1>6. CASE outcome = "refused"
  <2> DEFINE r == [report EXCEPT !.refused = c1, !.items = s1]
  <2>1. Reported(f, outcome) = r
    BY <1>3, <1>6 DEF c
  <2>2. c1 \in Nat /\ (a + b) + c1 = ((a + b) + c) + 1
    BY <1>2
  <2> HIDE DEF c1
  <2>3. r \in Reports /\ r.added = a /\ r.duplicate = b /\ r.refused = c1
    BY <1>1, <2>2 DEF Reports, a, b
  <2> QED
    BY <1>2, <2>1, <2>2, <2>3 DEF Counted
<1> QED
  BY <1>4, <1>5, <1>6 DEF Outcomes

(* A directory of the tree: its entries are names, and can be listed.        *)
LEMMA DirectoryEntries ==
    ASSUME tree \in Trees, NEW d \in DOMAIN tree, NEW kind
    PROVE  /\ Entries(d, kind) \in SUBSET Nat /\ IsFiniteSet(Entries(d, kind))
           /\ Entries(d, "dir") = Subdirectories(tree, d) /\ Entries(d, "dir") \subseteq DOMAIN tree
<1>1. IsTree(tree)
  BY IntakeAssumption
<1>2. DOMAIN tree[d] \subseteq Nat /\ IsFiniteSet(DOMAIN tree[d]) /\ Subdirectories(tree, d) \subseteq DOMAIN tree
  BY <1>1 DEF IsTree
<1>3. Entries(d, kind) \in SUBSET DOMAIN tree[d]
  BY DEF Entries
<1>4. IsFiniteSet(Entries(d, kind))
  BY <1>2, <1>3, FS_Subset
<1>5. Entries(d, "dir") = Subdirectories(tree, d)
  BY DEF Entries, Subdirectories
<1> QED
  BY <1>2, <1>3, <1>4, <1>5

(* What the plan takes of a directory's files: all, while there is room.      *)
LEMMA Taken ==
    ASSUME NEW files \in Seq(Nat), NEW room \in Nat
    PROVE  /\ SubSeq(files, 1, Min({room, Len(files)})) \in Seq(Nat)
           /\ Len(files) <= room => SubSeq(files, 1, Min({room, Len(files)})) = files
<1> DEFINE n == Len(files)
           m == Min({room, n})
<1>1. n \in Nat
  OBVIOUS
<1>2. m \in Nat /\ m <= n /\ (n <= room => m = n)
  <2> HIDE DEF n
  <2>1. \E x \in {room, n} : \A y \in {room, n} : x <= y
    BY <1>1
  <2>2. m \in {room, n} /\ \A y \in {room, n} : m <= y
    BY <2>1 DEF Min
  <2> HIDE DEF m
  <2> QED
    BY <1>1, <2>2
<1>3. \A i \in 1..m : files[i] \in Nat
  <2> HIDE DEF m
  <2> QED
    BY <1>1, <1>2, ElementOfSeq
<1>4. SubSeq(files, 1, m) \in Seq(Nat)
  <2> HIDE DEF m
  <2>1. 1 \in Int /\ m \in Int
    BY <1>2
  <2> QED
    BY <1>3, <2>1, SubSeqProperties
<1>5. SubSeq(files, 1, n) = files
  BY SubSeqFull
<1> QED
  BY <1>2, <1>4, <1>5

(* A turn of the walk: the directory on top joins those that were read.      *)
LEMMA WalkStep ==
    ASSUME IntakeInv, WalkDirectory
    PROVE  IntakeInv'
<1> DEFINE top == Last(stack)
           d == top.dir
           files == Sorted(Entries(d, "file"))
           dirs == Sorted(Entries(d, "dir"))
           room == FileCountMax - Len(plan.files)
           taken == SubSeq(files, 1, Min({room, Len(files)}))
           over == top.depth + 1 > DepthMax
           old == plan.files
           new == old \o taken
           n == top.depth + 1
           st == IF over THEN Front(stack) ELSE Front(stack) \o Pushed(dirs, n)
<1>0. /\ tree \in Trees /\ stack \in Seq(Frames) /\ stack # <<>> /\ old \in Seq(Names) /\ at = 0
      /\ Len(old) \in Nat /\ Len(old) <= FileCountMax /\ FileCountMax \in Nat
      /\ plan.truncated \/ \E S \in SUBSET DOMAIN tree : Walked(S, stack, old)
      /\ report \in Reports /\ Counted(report) = at
  BY IntakeAssumption DEF IntakeInv, WalkDirectory
<1>1. /\ tree' = tree /\ at' = at /\ report' = report /\ stored' = stored /\ vanished' = vanished
      /\ plan'.files = new /\ stack' = st
      /\ plan'.truncated = (plan.truncated \/ Len(files) > room \/ (over /\ dirs # <<>>))
      /\ ipc' = IF Len(files) > room THEN "submit" ELSE "walk"
  BY DEF WalkDirectory, Pushed
<1>2. /\ Front(stack) \in Seq(Frames) /\ top \in Frames /\ Waiting(stack) = Waiting(Front(stack)) \cup {d}
  BY <1>0, WaitingPop
<1>3. d \in DOMAIN tree /\ n \in Nat
  BY <1>2 DEF Frames
<1> HIDE DEF top, n, d, over
<1>4. /\ Entries(d, "file") \in SUBSET Nat /\ IsFiniteSet(Entries(d, "file"))
      /\ Entries(d, "dir") \in SUBSET Nat /\ IsFiniteSet(Entries(d, "dir")) /\ Entries(d, "dir") \subseteq DOMAIN tree
  BY <1>0, <1>3, DirectoryEntries
<1>5. /\ files \in Seq(Entries(d, "file")) /\ dirs \in Seq(Entries(d, "dir"))
      /\ \A x \in Entries(d, "file") : \E i \in 1..Len(files) : files[i] = x
      /\ \A x \in Entries(d, "dir") : \E i \in 1..Len(dirs) : dirs[i] = x
  BY <1>4, SortedLists
<1> HIDE DEF files, dirs
<1>6. files \in Seq(Nat) /\ dirs \in Seq(DOMAIN tree) /\ Len(files) \in Nat
  <2>1. files \in Seq(Nat)
    BY <1>4, <1>5, SeqMonotonic
  <2>2. dirs \in Seq(DOMAIN tree)
    BY <1>4, <1>5, SeqMonotonic
  <2> QED
    BY <2>1, <2>2
<1>7. room \in Nat
  BY <1>0
<1>8. taken \in Seq(Nat) /\ (Len(files) <= room => taken = files)
  <2> HIDE DEF room
  <2> QED
    BY <1>6, <1>7, Taken
<1>9. taken \in Seq(Names)
  <2>1. Nat \subseteq Names
    BY DEF Names
  <2> HIDE DEF taken
  <2> QED
    BY <1>8, <2>1, SeqMonotonic
<1> HIDE DEF taken
<1>10. new \in Seq(Names) /\ Planned(old) \subseteq Planned(new) /\ Planned(taken) \subseteq Planned(new)
  <2> HIDE DEF old
  <2> QED
    BY <1>0, <1>9, WaitingMore
<1>11. Len(new) = Len(old) + Len(taken)
  <2> HIDE DEF old
  <2> QED
    BY <1>0, <1>9, ConcatProperties
<1>12. /\ Pushed(dirs, n) \in Seq(Frames) /\ \A i \in 1..Len(dirs) : dirs[i] \in Waiting(Pushed(dirs, n))
  BY <1>3, <1>6, AllPushed DEF Frames
<1>13. /\ st \in Seq(Frames) /\ Waiting(Front(stack)) \subseteq Waiting(st)
       /\ ~over => Waiting(Pushed(dirs, n)) \subseteq Waiting(st)
  BY <1>2, <1>12, WaitingMore
<1>14. Len(new) \in Nat /\ Frames' = Frames /\ RegularFiles' = RegularFiles
  BY <1>1, <1>10 DEF Frames, RegularFiles, Entries
<1> HIDE DEF st, new
<1>15. ASSUME Len(files) <= room, ~plan'.truncated
       PROVE  \E S \in SUBSET DOMAIN tree : Walked(S, st, new)
  <2>1. PICK S \in SUBSET DOMAIN tree : Walked(S, stack, old)
    BY <1>0, <1>1, <1>15
  <2> DEFINE T == S \cup {d}
  <2>2. T \in SUBSET DOMAIN tree
    BY <1>3
  <2>3. S \cup Waiting(stack) \subseteq T \cup Waiting(st)
    BY <1>2, <1>13
  <2>4. Entries(d, "file") \subseteq Planned(new)
    <3>1. taken = files
      BY <1>8, <1>15
    <3>2. Entries(d, "file") \subseteq Planned(files)
      BY <1>5 DEF Planned
    <3> QED
      BY <1>10, <3>1, <3>2
  <2>5. Entries(d, "dir") \subseteq Waiting(st)
    <3>1. CASE over
      <4>1. dirs = <<>>
        BY <1>1, <1>15, <3>1
      <4>2. Len(dirs) = 0
        BY <4>1, EmptySeq
      <4> QED
        BY <1>5, <4>2
    <3>2. CASE ~over
      BY <1>5, <1>12, <1>13, <3>2
    <3> QED
      BY <3>1, <3>2
  <2>6. /\ Root \in S \cup Waiting(stack)
        /\ \A e \in S : Entries(e, "file") \subseteq Planned(old) /\ Entries(e, "dir") \subseteq S \cup Waiting(stack)
    BY <2>1 DEF Walked
  <2>7. Walked(T, st, new)
    BY <1>10, <2>3, <2>4, <2>5, <2>6 DEF Walked
  <2> QED
    BY <2>2, <2>7
<1>16. /\ tree' \in Trees /\ stack' \in Seq(Frames') /\ plan'.files \in Seq(Names)
       /\ at' \in Nat /\ at' <= Len(plan'.files) /\ report' \in Reports /\ Counted(report') = at' /\ at' = 0
  BY <1>0, <1>1, <1>10, <1>13, <1>14
<1>a. 1..at' = {} /\ Names' = Names /\ Reports' = Reports /\ Counted(report)' = Counted(report')
  BY <1>16 DEF Names, Reports, Counted
<1>17. CASE Len(files) > room
  <2>1. ipc' = "submit" /\ plan'.truncated
    BY <1>1, <1>17
  <2> HIDE DEF room, old
  <2> QED
    BY <1>16, <1>a, <2>1 DEF IntakeInv
<1>18. CASE ~(Len(files) > room)
  <2>1. Len(files) <= room
    BY <1>6, <1>7, <1>18
  <2>2. Len(plan'.files) <= FileCountMax
    <3>1. Len(taken) = Len(files)
      BY <1>8, <2>1
    <3> QED
      BY <1>0, <1>1, <1>6, <1>11, <2>1, <3>1
  <2>3. plan'.truncated \/ \E S \in SUBSET DOMAIN tree' : Walked(S, stack, plan.files)'
    <3>1. \A S : Walked(S, st, new) => Walked(S, stack, plan.files)'
      BY <1>1 DEF Walked, Entries
    <3> QED
      BY <1>1, <1>15, <2>1, <3>1
  <2>4. ipc' = "walk"
    BY <1>1, <1>18
  <2> HIDE DEF room, old
  <2> QED
    BY <1>16, <1>a, <2>2, <2>3, <2>4 DEF IntakeInv
<1> QED
  BY <1>17, <1>18

(* The steps that change neither the plan nor the report.                    *)
LEMMA QuietIntakeSteps ==
    ASSUME IntakeInv, RefuseRequest \/ WalkDone \/ WalkFails \/ SubmitDone
    PROVE  IntakeInv'
<1>1. UNCHANGED <<tree, stack, plan, at, stored, report, vanished>>
  BY DEF RefuseRequest, WalkDone, WalkFails, SubmitDone
<1>2. /\ Frames' = Frames /\ RegularFiles' = RegularFiles /\ Names' = Names /\ Reports' = Reports
      /\ Counted(report)' = Counted(report) 
  BY <1>1 DEF Frames, RegularFiles, Entries, Names, Reports, Counted
<1>3. CASE RefuseRequest \/ WalkFails
  <2>1. ipc' = "error"
    BY <1>3 DEF RefuseRequest, WalkFails
  <2> QED
    BY <1>1, <1>2, <2>1 DEF IntakeInv
<1>4. CASE SubmitDone
  <2>1. ipc = "submit" /\ ipc' = "done" /\ at = Len(plan.files)
    BY <1>4 DEF SubmitDone
  <2> QED
    BY <1>1, <1>2, <2>1 DEF IntakeInv, Planned
<1>5. CASE WalkDone
  <2>1. ipc = "walk" /\ ipc' = "submit" /\ stack = <<>>
    BY <1>5 DEF WalkDone
  <2>2. plan.truncated \/ RegularFiles \subseteq Planned(plan.files)
    <3>1. SUFFICES ASSUME ~plan.truncated PROVE RegularFiles \subseteq Planned(plan.files)
      OBVIOUS
    <3>2. PICK S \in SUBSET DOMAIN tree : Walked(S, stack, plan.files)
      BY <2>1, <3>1 DEF IntakeInv
    <3>3. Waiting(stack) = {}
      <4>1. Len(<<>>) = 0
        BY EmptySeq
      <4> QED
        BY <2>1, <4>1 DEF Waiting
    <3>4. /\ Root \in S
          /\ \A d \in S : Entries(d, "file") \subseteq Planned(plan.files) /\ Subdirectories(tree, d) \subseteq S
      BY <3>2, <3>3 DEF Walked, Entries, Subdirectories
    <3>5. S = DOMAIN tree
      <4>1. IsTree(tree)
        BY IntakeAssumption DEF IntakeInv
      <4> QED
        BY <3>4, <4>1 DEF IsTree
    <3> QED
      BY <3>4, <3>5 DEF RegularFiles
  <2> QED
    BY <1>1, <1>2, <2>1, <2>2 DEF IntakeInv, Planned
<1> QED
  BY <1>3, <1>4, <1>5

(* The command makes a plan of a file, or begins to walk a directory.        *)
LEMMA PlanStep ==
    ASSUME IntakeInv, PlanIntake
    PROVE  IntakeInv'
<1>0. /\ tree \in Trees /\ stack \in Seq(Frames) /\ plan = EmptyPlan /\ at = 0 /\ report \in Reports
      /\ Counted(report) = 0 /\ IsTree(tree) /\ FileCountMax \in Nat
  BY IntakeAssumption DEF IntakeInv, PlanIntake
<1>1. UNCHANGED <<tree, at, stored, report, vanished>>
  BY DEF PlanIntake
<1>2. /\ Frames' = Frames /\ RegularFiles' = RegularFiles /\ Names' = Names /\ Reports' = Reports
      /\ Counted(report)' = Counted(report) /\ 1..at' = {}
  BY <1>0, <1>1 DEF Frames, RegularFiles, Entries, Names, Reports, Counted
<1>3. EmptyPlan.files = <<>> /\ Len(<<>>) = 0 /\ <<>> \in Seq(Names)
  BY EmptySeq DEF EmptyPlan
<1>4. CASE Root \notin DOMAIN tree
  <2>1. ipc' = "submit" /\ plan' = [EmptyPlan EXCEPT !.files = <<Root>>] /\ stack' = stack
    BY <1>0, <1>4 DEF PlanIntake
  <2>2. plan'.files = <<Root>>
    BY <2>1 DEF EmptyPlan
  <2>3. <<Root>> \in Seq(Names) /\ Len(<<Root>>) = 1
    BY DEF Names
  <2>4. RegularFiles = {}
    BY <1>0, <1>4 DEF IsTree, RegularFiles
  <2> QED
    BY <1>0, <1>1, <1>2, <2>1, <2>2, <2>3, <2>4 DEF IntakeInv
<1>5. CASE Root \in DOMAIN tree
  <2> DEFINE fr == [dir |-> Root, depth |-> 0]
  <2>1. ipc' = "walk" /\ plan' = plan /\ stack' = <<fr>>
    BY <1>5 DEF PlanIntake
  <2>2. fr \in Frames /\ fr.dir = Root
    BY <1>5 DEF Frames
  <2> HIDE DEF fr
  <2>3. <<fr>> \in Seq(Frames) /\ Len(<<fr>>) = 1 /\ <<fr>>[1] = fr
    BY <2>2
  <2>4. Root \in Waiting(<<fr>>)
    <3>1. Waiting(<<fr>>) = {<<fr>>[i].dir : i \in 1..1}
      BY <2>3 DEF Waiting
    <3>2. 1 \in 1..1
      OBVIOUS
    <3> QED
      BY <2>2, <2>3, <3>1, <3>2
  <2>5. Walked({}, stack, plan.files)'
    BY <2>1, <2>4 DEF Walked
  <2>6. {} \in SUBSET DOMAIN tree'
    OBVIOUS
  <2>7. plan'.files = <<>>
    BY <1>0, <1>3, <2>1
  <2>8. 0 <= FileCountMax
    BY <1>0
  <2>9. \E S \in SUBSET DOMAIN tree' : Walked(S, stack, plan.files)'
    BY <2>5, <2>6
  <2> QED
    BY <1>0, <1>1, <1>2, <1>3, <2>1, <2>3, <2>7, <2>8, <2>9 DEF IntakeInv
<1> QED
  BY <1>4, <1>5

(* A file of the plan is submitted: whatever becomes of it has a row.        *)
LEMMA SubmitStep ==
    ASSUME IntakeInv, SubmitNext
    PROVE  IntakeInv'
<1> DEFINE f == plan.files[at + 1]
<1>0. /\ plan.files \in Seq(Names) /\ at \in Nat /\ Len(plan.files) \in Nat /\ at < Len(plan.files)
      /\ report \in Reports /\ Counted(report) = at /\ ipc = "submit"
  BY DEF IntakeInv, SubmitNext
<1>1. UNCHANGED <<tree, ipc, stack, plan>> /\ at' = at + 1
  BY DEF SubmitNext
<1>2. PICK gone \in BOOLEAN :
        /\ vanished' = IF gone THEN vanished \cup {f} ELSE vanished
        /\ stored' = IF SubmitOne(f, gone) = "added" THEN stored \cup {FileContent[f]} ELSE stored
        /\ report' = Reported(f, SubmitOne(f, gone))
  BY DEF SubmitNext
<1>3. at + 1 \in 1..Len(plan.files)
  BY <1>0
<1>4. f \in Names
  BY <1>0, <1>3, ElementOfSeq
<1>5. SubmitOne(f, gone) \in Outcomes
  BY DEF SubmitOne, Outcomes
<1>6. report' \in Reports /\ Counted(report') = at + 1
  BY <1>0, <1>2, <1>4, <1>5, OneMoreRow
<1>7. \A g : Accounted(g, stored, vanished) => Accounted(g, stored', vanished')
  BY <1>2 DEF Accounted
<1>8. Accounted(f, stored', vanished')
  <2>1. CASE gone
    BY <1>2, <2>1 DEF Accounted
  <2>2. CASE ~gone /\ TooLarge(f)
    BY <2>2 DEF Accounted
  <2>3. CASE ~gone /\ ~TooLarge(f)
    <3>1. FileContent[f] \in stored'
      BY <1>2, <2>3 DEF SubmitOne
    <3> QED
      BY <3>1 DEF Accounted
  <2> QED
    BY <2>1, <2>2, <2>3
<1>9. \A i \in 1..at' : Accounted(plan'.files[i], stored', vanished')
  <2>1. ASSUME NEW i \in 1..(at + 1) PROVE Accounted(plan.files[i], stored', vanished')
    <3>1. i \in 1..at \/ i = at + 1
      BY <1>0
    <3>2. CASE i = at + 1
      BY <1>8, <3>2
    <3>3. CASE i \in 1..at
      <4>1. Accounted(plan.files[i], stored, vanished)
        BY <3>3 DEF IntakeInv
      <4> QED
        BY <1>7, <4>1
    <3> QED
      BY <3>1, <3>2, <3>3
  <2> QED
    BY <1>1, <2>1
<1>10. at' \in Nat /\ at' <= Len(plan'.files)
  BY <1>0, <1>1
<1>11. /\ Frames' = Frames /\ RegularFiles' = RegularFiles /\ Names' = Names /\ Reports' = Reports
       /\ Counted(report)' = Counted(report')
  BY <1>1 DEF Frames, RegularFiles, Entries, Names, Reports, Counted
<1> QED
  BY <1>0, <1>1, <1>6, <1>9, <1>10, <1>11 DEF IntakeInv, Planned

-----------------------------------------------------------------------------
(* Intake: the theorem.                                                      *)

(* Nothing is planned, nothing is reported.                                  *)
LEMMA IntakeBegins == IntakeInit => IntakeInv
<1> SUFFICES ASSUME IntakeInit PROVE IntakeInv
  OBVIOUS
<1>1. <<>> \in Seq(Frames) /\ <<>> \in Seq(Names) /\ Len(<<>>) = 0
      /\ <<>> \in Seq([file: Names, outcome: Outcomes])
  BY EmptySeq
<1>2. EmptyPlan.files = <<>>
  BY DEF EmptyPlan
<1>3. report \in Reports /\ Counted(report) = 0
  BY <1>1 DEF IntakeInit, Reports, Counted
<1>4. \A i \in 1..0 : Accounted(plan.files[i], stored, vanished)
  OBVIOUS
<1> QED
  BY <1>1, <1>2, <1>3, <1>4 DEF IntakeInit, IntakeInv

(* Every step of the command keeps the invariant.                            *)
LEMMA IntakeStep == IntakeInv /\ [IntakeNext]_intakeVars => IntakeInv'
<1> SUFFICES ASSUME IntakeInv, [IntakeNext]_intakeVars PROVE IntakeInv'
  OBVIOUS
<1>1. CASE UNCHANGED intakeVars
  <2>1. UNCHANGED <<tree, ipc, stack, plan, at, stored, report, vanished>>
    BY <1>1 DEF intakeVars
  <2>2. /\ Frames' = Frames /\ RegularFiles' = RegularFiles /\ Names' = Names /\ Reports' = Reports
        /\ Counted(report)' = Counted(report)
        /\ \A S : Walked(S, stack, plan.files)' = Walked(S, stack, plan.files)
    BY <2>1 DEF Frames, RegularFiles, Entries, Names, Reports, Counted, Walked, Waiting, Planned
  <2> QED
    BY <2>1, <2>2 DEF IntakeInv, Planned
<1>2. CASE IntakeNext
  BY <1>2, PlanStep, WalkStep, SubmitStep, QuietIntakeSteps DEF IntakeNext
<1> QED
  BY <1>1, <1>2

(* ingest.submit leaves nothing out silently: when it answers, every regular *)
(* file under the root is in the plan or the report says that the walk was   *)
(* cut short, the counts add up to the plan, and every file of the plan has  *)
(* its bytes in the project, was too large or was gone; for every tree.      *)
THEOREM IntakeLeavesNothingOut == IntakeSpec => []NothingLeftOut
<1>1. IntakeInv => NothingLeftOut
  <2> SUFFICES ASSUME IntakeInv, ipc = "done" PROVE NothingLeftOut
    BY DEF NothingLeftOut
  <2>1. /\ plan.files \in Seq(Names) /\ at = Len(plan.files) /\ Counted(report) = at
        /\ \A i \in 1..at : Accounted(plan.files[i], stored, vanished)
        /\ plan.truncated \/ RegularFiles \subseteq Planned(plan.files)
    BY DEF IntakeInv
  <2>2. Range(plan.files) = Planned(plan.files)
    BY <2>1 DEF Range, Planned
  <2>3. \A f \in Planned(plan.files) : Accounted(f, stored, vanished)
    BY <2>1 DEF Planned
  <2> QED
    BY <2>1, <2>2, <2>3 DEF NothingLeftOut, Accounted, Counted
<1> QED
  BY <1>1, IntakeBegins, IntakeStep, PTL DEF IntakeSpec

-----------------------------------------------------------------------------
(* The stages of the pipeline.                                               *)

(* A job of the queue, as far as the pipeline sees it.                     *)
JobRows == [state: {"absent", "queued", "leased", "done", "dead"}, attempt: Nat]

(* An attempt is of a job that exists; what it will enqueue is the job of the *)
(* next stage, unless that exists.                                           *)
AttemptKnown(a, jb, sr) ==
    a # Idle =>
        /\ jb[a.job].state # "absent" /\ sr[a.job[1]][a.job[2]] # NoRow
        /\ a.fresh \subseteq NextJob(a.job[1], a.job[2], a.job[3])
        /\ a.pc = "commit" => \A k \in NextJob(a.job[1], a.job[2], a.job[3]) :
                                  k \in a.fresh \/ jb[k].state # "absent"

(* A rewind has items that are there and have a pass left.                 *)
RewindKnown(q, rs) ==
    q # Idle => \A t \in q.todo : rs[t[1]] # NoRow /\ t[2] < MaxPass

(* Types, and what exists: a job has its item's row, an attempt its job.   *)
KnownInv ==
    /\ IngestTypeOK
    /\ jobs \in [JobIds -> JobRows]
    /\ att \in [StageWorkers -> Attempts \cup {Idle}]
    /\ conn \in [Connectors -> Items \cup {Idle}]
    /\ rep \in [Requesters -> Rewinds \cup {Idle}]
    /\ calm \in BOOLEAN
    /\ \A j \in JobIds : jobs[j].state # "absent" => rows[j[1]] # NoRow
    /\ \A w \in StageWorkers : AttemptKnown(att[w], jobs, stageRows)
    /\ \A r \in Requesters : RewindKnown(rep[r], rows)

-----------------------------------------------------------------------------
(* No job of a later pass exists.                                            *)
NoneAhead(e, r, jb) ==
    \A s \in JobStages, p \in Passes : p > r.pass => jb[<<e, s, p>>].state = "absent"

(* Every attempt is of the item's pass.                                    *)
AllAtPass(e, r, ats) ==
    \A w \in StageWorkers : ats[w] # Idle /\ ats[w].job[1] = e => ats[w].job[3] = r.pass

(* The work that moves the item on: the job after its status exists, or some  *)
(* job of the pass is not done, and no attempt has finished it.              *)
MovedOn(e, r, jb) == \A j \in NextJob(e, r.status, r.pass) : jb[j].state # "absent"
DueOf(s, e, r, jb, ats) ==
    /\ jb[<<e, s, r.pass>>].state \notin {"absent", "done"}
    /\ \A w \in StageWorkers : ats[w] # Idle /\ ats[w].job = <<e, s, r.pass>> => ats[w].pc # "done"
WorkTrue(e, r, jb, ats) ==
    r.status = "failed" \/ MovedOn(e, r, jb) \/ \E s \in JobStages : DueOf(s, e, r, jb, ats)

(* The chunks of the current shape are all there.                            *)
ShapeTrue(e, r, cr) ==
    /\ r.chunkPass # NoRow => r.chunkPass <= r.pass
    /\ r.chunkPass = r.pass =>
          /\ r.chunkCount = Len(ChunkPlan[r.pass + 1])
          /\ \A t \in Listing(r.pass) : cr[<<e, t[2]>>] = r.pass

(* An item is embedded after it was chunked in the same pass, or in a pass    *)
(* that does not chunk.                                                      *)
StagesInOrder(e, r, jb) ==
    r.chunkPass # r.pass /\ jb[<<e, "embed", r.pass>>].state # "absent" =>
        \A s \in {"normalize", "transcribe", "chunk"} : jb[<<e, s, r.pass>>].state = "absent"

(* What list_chunks returns once all rows of the pass are there.             *)
FirstOf(p) == {t \in Listing(p) : Cardinality({u \in Listing(p) : u[1] < t[1]}) < ListMax}

(* An embedded item has a vector for every chunk that is listed.             *)
EmbeddedAll(e, r, vs) ==
    r.status = "embed" /\ r.chunkPass = r.pass => \A t \in FirstOf(r.pass) : <<e, t[2]>> \in vs

(* What an attempt still has to do is on its list.                           *)
StageTrue(a, r, cr, vs) ==
    a.pc \in {"work", "commit"} =>
        /\ a.pc = "commit" => a.todo = {}
        /\ a.job[2] = "chunk" =>
              \A t \in Listing(r.pass) : cr[<<a.job[1], t[2]>>] = r.pass \/ t \in a.todo
        /\ a.job[2] = "embed" /\ r.chunkPass = r.pass =>
              \A t \in FirstOf(r.pass) : <<a.job[1], t[2]>> \in vs \/ t \in a.todo

(* All that is known of an item while nobody overlaps anybody.             *)
ItemTrue(e, r, jb, ats, cr, vs) ==
    /\ NoneAhead(e, r, jb)
    /\ AllAtPass(e, r, ats)
    /\ WorkTrue(e, r, jb, ats)
    /\ ShapeTrue(e, r, cr)
    /\ StagesInOrder(e, r, jb)
    /\ EmbeddedAll(e, r, vs)
    /\ \A w \in StageWorkers : ats[w] # Idle /\ ats[w].job[1] = e => StageTrue(ats[w], r, cr, vs)

(* The inductive invariant.                                                *)
IngestInv ==
    /\ KnownInv
    /\ calm => \A e \in Items : rows[e] # NoRow => ItemTrue(e, rows[e], jobs, att, chunkRows, vectors)
-----------------------------------------------------------------------------
(* Ingest: the stages.                                                       *)

(* The stages, in the order of the pipeline.                               *)
LEMMA StageNames ==
    /\ IngestStages = {"raw", "normalize", "transcribe", "chunk", "embed", "extract", "index"}
    /\ JobStages = {"normalize", "transcribe", "chunk", "embed", "extract", "index"}
<1>1. IngestStages = {"raw", "normalize", "transcribe", "chunk", "embed", "extract", "index"}
  BY DEF IngestStages, StageOrder, Range
<1> QED
  BY <1>1 DEF JobStages

(* Their places in it.                                                     *)
LEMMA Ranks ==
    /\ Rank("raw") = 1 /\ Rank("normalize") = 2 /\ Rank("transcribe") = 3 /\ Rank("chunk") = 4
    /\ Rank("embed") = 5 /\ Rank("extract") = 6 /\ Rank("index") = 7
<1> DEFINE R(s, n) == (n \in DOMAIN StageOrder /\ StageOrder[n] = s /\ \A i \in DOMAIN StageOrder : StageOrder[i] = s => i = n)
<1>1. /\ R("raw", 1) /\ R("normalize", 2) /\ R("transcribe", 3) /\ R("chunk", 4)
      /\ R("embed", 5) /\ R("extract", 6) /\ R("index", 7)
  BY DEF StageOrder
<1>2. ASSUME NEW s, NEW n, R(s, n) PROVE Rank(s) = n
  BY <1>2 DEF Rank
<1> HIDE DEF R
<1> QED
  BY <1>1, <1>2

(* Only the completion of CHUNK asks for EMBED, and the stages up to CHUNK    *)
(* are asked for by earlier ones.                                            *)
LEMMA NextIs ==
    ASSUME NEW s \in IngestStages, NEW media
    PROVE  /\ NextFor(s, media) = "embed" => s = "chunk"
           /\ NextFor(s, media) \in {"normalize", "transcribe", "chunk"} =>
                 s \in {"raw", "normalize", "transcribe"}
<1> DEFINE later == {t \in IngestStages : Rank(t) > Rank(s) /\ AppliesTo(t, media)}
           next == NextFor(s, media)
<1>1. \A t \in IngestStages : Rank(t) \in 1..7
  BY StageNames, Ranks
<1>2. later # {} => \E t \in later : \A u \in later : Rank(t) <= Rank(u)
  <2> SUFFICES ASSUME later # {} PROVE \E t \in later : \A u \in later : Rank(t) <= Rank(u)
    OBVIOUS
  <2> DEFINE ats(n) == \E t \in later : Rank(t) = n
  <2>1. ats(1) \/ ats(2) \/ ats(3) \/ ats(4) \/ ats(5) \/ ats(6) \/ ats(7)
    BY <1>1
  <2> QED
    BY <1>1, <2>1
<1>3. next = "none" \/ (next \in later /\ \A u \in later : Rank(next) <= Rank(u))
  BY <1>2 DEF NextFor
<1>4. Rank(s) < 4 => "chunk" \in later
  BY StageNames, Ranks DEF AppliesTo
<1>5. next = "embed" => Rank(s) = 4
  <2> SUFFICES ASSUME next = "embed" PROVE Rank(s) = 4
    OBVIOUS
  <2>1. Rank("embed") > Rank(s) /\ ~(Rank(s) < 4)
    BY <1>3, <1>4, Ranks
  <2> QED
    BY <1>1, <2>1, Ranks
<1>6. next \in {"normalize", "transcribe", "chunk"} => Rank(s) < 4
  BY <1>1, <1>3, Ranks
<1> QED
  BY <1>5, <1>6, StageNames, Ranks

(* The job after a stage is that of the next one in the same pass.         *)
LEMMA NextJobIs ==
    ASSUME NEW e, NEW s, NEW p, NEW k \in NextJob(e, s, p)
    PROVE  k = <<e, NextFor(s, Media[e]), p>> /\ NextFor(s, Media[e]) \in JobStages
BY IngestAssumption DEF NextJob, HasHandler

(* What the completion of a stage leaves in the row.                         *)
LEMMA FinishedRow ==
    ASSUME NEW row \in EvidenceRows, NEW s \in JobStages, NEW p \in Passes, NEW count \in Nat
    PROVE  LET r == Finished(row, s, p, count) IN
           /\ r \in EvidenceRows /\ r.status = s /\ r.pass = p
           /\ r.chunkPass = IF s = "chunk" THEN p ELSE row.chunkPass
           /\ r.chunkCount = IF s = "chunk" THEN count ELSE row.chunkCount
<1> DEFINE o == Output(row, s, p, count)
<1>1. /\ o \in EvidenceRows
      /\ o.chunkPass = IF s = "chunk" THEN p ELSE row.chunkPass
      /\ o.chunkCount = IF s = "chunk" THEN count ELSE row.chunkCount
  <2>1. CASE s \in {"normalize", "transcribe"}
    BY <2>1 DEF Output, EvidenceRows
  <2>2. CASE s = "chunk"
    BY <2>2 DEF Output, EvidenceRows
  <2>3. CASE s \notin {"normalize", "transcribe", "chunk"}
    BY <2>3 DEF Output
  <2> QED
    BY <2>1, <2>2, <2>3
<1> HIDE DEF o
<1>2. s \in Statuses
  BY DEF Statuses, JobStages
<1> QED
  BY <1>1, <1>2 DEF Finished, EvidenceRows, o

-----------------------------------------------------------------------------
(* Ingest: what a step leaves true of an item.                               *)

(* The jobs of an item are as they were, or settled; its attempts are of its  *)
(* pass, and finished only if they were.                                     *)
JobsFor(e, jb, jb2, ats) ==
    \A s \in JobStages, p \in Passes :
        /\ (jb2[<<e, s, p>>].state = "absent") <=> (jb[<<e, s, p>>].state = "absent")
        /\ jb2[<<e, s, p>>].state = "done" =>
              \/ jb[<<e, s, p>>].state = "done"
              \/ \E w \in StageWorkers : ats[w] # Idle /\ ats[w].job = <<e, s, p>> /\ ats[w].pc = "done"
AttemptsFor(e, r, ats, at2, cr2, vs2) ==
    \A w \in StageWorkers : at2[w] # Idle /\ at2[w].job[1] = e =>
        /\ at2[w].job[3] = r.pass /\ StageTrue(at2[w], r, cr2, vs2)
        /\ at2[w].pc = "done" => ats[w] # Idle /\ ats[w].job = at2[w].job /\ ats[w].pc = "done"
ChunksFor(e, r, cr, cr2) ==
    \A t \in Listing(r.pass) : cr[<<e, t[2]>>] = r.pass => cr2[<<e, t[2]>>] = r.pass

(* Rows written at the item's pass and more vectors leave what an attempt     *)
(* knows true.                                                               *)
LEMMA StageStays ==
    ASSUME NEW a, NEW r, NEW cr, NEW cr2, NEW vs, NEW vs2,
           ChunksFor(a.job[1], r, cr, cr2), vs \subseteq vs2, StageTrue(a, r, cr, vs)
    PROVE  StageTrue(a, r, cr2, vs2)
BY DEF StageTrue, ChunksFor

(* A step that neither enqueues for the item nor moves it, but may write at   *)
(* its pass, move an attempt on or fail the item.                            *)
LEMMA ItemStays ==
    ASSUME NEW e, NEW r, NEW r2, NEW jb, NEW jb2, NEW ats, NEW at2, NEW cr, NEW cr2, NEW vs, NEW vs2,
           r.pass \in Passes,
           ItemTrue(e, r, jb, ats, cr, vs),
           r2.pass = r.pass, r2.chunkPass = r.chunkPass, r2.chunkCount = r.chunkCount,
           r2.status = r.status \/ r2.status = "failed",
           JobsFor(e, jb, jb2, ats), AttemptsFor(e, r, ats, at2, cr2, vs2), ChunksFor(e, r, cr, cr2),
           vs \subseteq vs2
    PROVE  ItemTrue(e, r2, jb2, at2, cr2, vs2)
<1>1. NoneAhead(e, r2, jb2)
  BY DEF ItemTrue, NoneAhead, JobsFor
<1>2. AllAtPass(e, r2, at2)
  BY DEF AllAtPass, AttemptsFor
<1>3. WorkTrue(e, r2, jb2, at2)
  <2>0. CASE r2.status = "failed"
    BY <2>0 DEF WorkTrue
  <2>1. CASE r2.status = r.status /\ MovedOn(e, r, jb)
    <3>1. ASSUME NEW k \in NextJob(e, r.status, r.pass) PROVE jb2[k].state # "absent"
      <4>1. k = <<e, k[2], r.pass>> /\ k[2] \in JobStages
        BY <3>1, NextJobIs
      <4>2. jb[k].state # "absent"
        BY <2>1, <3>1 DEF MovedOn
      <4> QED
        BY <4>1, <4>2 DEF JobsFor
    <3> QED
      BY <2>1, <3>1 DEF WorkTrue, MovedOn
  <2>2. ASSUME NEW s \in JobStages, DueOf(s, e, r, jb, ats) PROVE DueOf(s, e, r2, jb2, at2)
    <3>1. jb2[<<e, s, r.pass>>].state \notin {"absent", "done"}
      BY <2>2 DEF DueOf, JobsFor
    <3>2. ASSUME NEW w \in StageWorkers, at2[w] # Idle, at2[w].job = <<e, s, r.pass>> PROVE at2[w].pc # "done"
      <4>1. at2[w].job[1] = e
        BY <3>2
      <4> QED
        BY <2>2, <3>2, <4>1 DEF DueOf, AttemptsFor
    <3> QED
      BY <3>1, <3>2 DEF DueOf
  <2> QED
    BY <2>0, <2>1, <2>2 DEF ItemTrue, WorkTrue
<1>4. ShapeTrue(e, r2, cr2)
  BY DEF ItemTrue, ShapeTrue, ChunksFor
<1>5. StagesInOrder(e, r2, jb2)
  BY StageNames DEF ItemTrue, StagesInOrder, JobsFor
<1>6. EmbeddedAll(e, r2, vs2)
  BY DEF ItemTrue, EmbeddedAll
<1>7. ASSUME NEW w \in StageWorkers, at2[w] # Idle, at2[w].job[1] = e PROVE StageTrue(at2[w], r2, cr2, vs2)
  BY <1>7 DEF StageTrue, AttemptsFor
<1> QED
  BY <1>1, <1>2, <1>3, <1>4, <1>5, <1>6, <1>7 DEF ItemTrue

PassesGrow == calm => \A e \in Items : rows[e] # NoRow => rows[e].pass <= rows'[e].pass

(* The attempt v may become what it is after a step.                         *)
MayBecome(v) ==
    att'[v] # Idle =>
        /\ AttemptKnown(att'[v], jobs', stageRows')
        /\ calm => /\ att'[v].job[3] = rows[att'[v].job[1]].pass
                   /\ StageTrue(att'[v], rows[att'[v].job[1]], chunkRows', vectors')
        /\ att'[v].pc = "done" => att[v] # Idle /\ att[v].job = att'[v].job /\ att[v].pc = "done"

(* A job leaves "absent" by an enqueue alone, and is done only by an attempt  *)
(* that finished it.                                                         *)
JobsSettle ==
    \A j \in JobIds :
        /\ (jobs'[j].state = "absent") <=> (jobs[j].state = "absent")
        /\ jobs'[j].state = "done" =>
              \/ jobs[j].state = "done"
              \/ \E w \in StageWorkers : att[w] # Idle /\ att[w].job = j /\ att[w].pc = "done"

(* A row stays, but for a failure.                                           *)
RowsStay ==
    \A e \in Items :
        /\ rows'[e] = NoRow <=> rows[e] = NoRow
        /\ rows[e] # NoRow => /\ rows'[e].pass = rows[e].pass /\ rows'[e].chunkPass = rows[e].chunkPass
                              /\ rows'[e].chunkCount = rows[e].chunkCount
                              /\ rows'[e].status = rows[e].status \/ rows'[e].status = "failed"

(* A chunk row is written at the pass of its item.                           *)
ChunksAtPass ==
    calm => \A e \in Items : rows[e] # NoRow => ChunksFor(e, rows[e], chunkRows, chunkRows')

StageRowsStay == \A e \in Items, s \in JobStages : stageRows[e][s] # NoRow => stageRows'[e][s] # NoRow

(* An attempt that a step leaves alone stays known.                          *)
LEMMA KnownStays ==
    ASSUME NEW a \in Attempts, AttemptKnown(a, jobs, stageRows), StageRowsStay,
           \A j \in JobIds : jobs[j].state # "absent" => jobs'[j].state # "absent"
    PROVE  AttemptKnown(a, jobs', stageRows')
<1> SUFFICES ASSUME a # Idle PROVE AttemptKnown(a, jobs', stageRows')
  BY DEF AttemptKnown
<1>1. a.job \in JobIds /\ a.job[1] \in Items /\ a.job[2] \in JobStages /\ a.job[3] \in Passes
  BY DEF Attempts, JobIds
<1>2. ASSUME NEW k \in NextJob(a.job[1], a.job[2], a.job[3]) PROVE k \in JobIds
  BY <1>1, <1>2, NextJobIs DEF JobIds
<1> QED
  BY <1>1, <1>2 DEF AttemptKnown, StageRowsStay

(* Rows stay, jobs that exist stay, and each has the row of its item.        *)
LEMMA KnownMoves ==
    ASSUME KnownInv, IngestTypeOK', jobs' \in [JobIds -> JobRows], UNCHANGED calm,
           att' \in [StageWorkers -> Attempts \cup {Idle}], conn' \in [Connectors -> Items \cup {Idle}],
           rep' \in [Requesters -> Rewinds \cup {Idle}],
           StageRowsStay, \A e \in Items : rows[e] # NoRow => rows'[e] # NoRow,
           \A j \in JobIds : jobs[j].state # "absent" => jobs'[j].state # "absent",
           \A j \in JobIds : jobs'[j].state # "absent" => rows'[j[1]] # NoRow,
           \A v \in StageWorkers : att'[v] = att[v] \/ AttemptKnown(att'[v], jobs', stageRows'),
           \A q \in Requesters : rep'[q] = rep[q] \/ RewindKnown(rep'[q], rows')
    PROVE  KnownInv'
<1>1. ASSUME NEW v \in StageWorkers PROVE AttemptKnown(att'[v], jobs', stageRows')
  <2>1. CASE att'[v] = Idle
    BY <2>1 DEF AttemptKnown
  <2>2. CASE att'[v] # Idle /\ att'[v] = att[v]
    BY <2>2, KnownStays DEF KnownInv
  <2> QED
    BY <2>1, <2>2
<1>2. ASSUME NEW q \in Requesters PROVE RewindKnown(rep'[q], rows')
  <2>1. CASE rep'[q] = rep[q]
    <3>1. RewindKnown(rep[q], rows) /\ (rep[q] # Idle => rep[q] \in Rewinds)
      BY DEF KnownInv
    <3>2. rep[q] # Idle => \A t \in rep[q].todo : t[1] \in Items
      BY <3>1 DEF Rewinds
    <3> QED
      BY <2>1, <3>1, <3>2 DEF RewindKnown
  <2> QED
    BY <2>1
<1>3. calm' \in BOOLEAN
  BY DEF KnownInv
<1> QED
  BY <1>1, <1>2, <1>3 DEF KnownInv

(* A step of the attempts: nothing is enqueued and no item moves on.         *)
LEMMA AttemptsMove ==
    ASSUME IngestInv, IngestTypeOK', jobs' \in [JobIds -> JobRows], UNCHANGED <<conn, rep, calm>>,
           att' \in [StageWorkers -> Attempts \cup {Idle}],
           \A v \in StageWorkers : att'[v] = att[v] \/ MayBecome(v),
           JobsSettle, RowsStay, ChunksAtPass, StageRowsStay, vectors \subseteq vectors'
    PROVE  IngestInv' /\ PassesGrow
<1>1. KnownInv /\ \A v \in StageWorkers : att[v] # Idle => att[v] \in Attempts
  BY DEF IngestInv, KnownInv
<1>2. KnownInv'
  <2>1. /\ \A j \in JobIds : jobs[j].state # "absent" => jobs'[j].state # "absent"
        /\ \A j \in JobIds : jobs'[j].state # "absent" => rows'[j[1]] # NoRow
    BY <1>1 DEF KnownInv, JobsSettle, RowsStay, JobIds
  <2>2. conn' \in [Connectors -> Items \cup {Idle}] /\ rep' \in [Requesters -> Rewinds \cup {Idle}]
    BY <1>1 DEF KnownInv
  <2>3. \A v \in StageWorkers : att'[v] = att[v] \/ AttemptKnown(att'[v], jobs', stageRows')
    BY DEF MayBecome, AttemptKnown
  <2>4. \A e \in Items : rows[e] # NoRow => rows'[e] # NoRow
    BY DEF RowsStay
  <2> QED
    BY <1>1, <2>1, <2>2, <2>3, <2>4, KnownMoves
<1>3. ASSUME calm, NEW e \in Items, rows'[e] # NoRow
      PROVE  ItemTrue(e, rows'[e], jobs', att', chunkRows', vectors')
  <2> DEFINE r == rows[e]
             r2 == rows'[e]
  <2>1. r # NoRow /\ ItemTrue(e, r, jobs, att, chunkRows, vectors)
    BY <1>3 DEF RowsStay, IngestInv
  <2>2. /\ r.pass \in Passes /\ r2.pass = r.pass /\ r2.chunkPass = r.chunkPass /\ r2.chunkCount = r.chunkCount
        /\ r2.status = r.status \/ r2.status = "failed"
    BY <1>1, <2>1 DEF RowsStay, KnownInv, IngestTypeOK, EvidenceRows, Unset
  <2>3. JobsFor(e, jobs, jobs', att)
    BY DEF JobsSettle, JobIds, JobsFor
  <2>4. ChunksFor(e, r, chunkRows, chunkRows')
    BY <1>3, <2>1 DEF ChunksAtPass
  <2>5. ASSUME NEW w \in StageWorkers, att'[w] # Idle, att'[w].job[1] = e
        PROVE  /\ att'[w].job[3] = r.pass /\ StageTrue(att'[w], r, chunkRows', vectors')
               /\ att'[w].pc = "done" => att[w] # Idle /\ att[w].job = att'[w].job /\ att[w].pc = "done"
    <3>1. CASE att'[w] = att[w]
      <4>1. att[w].job[3] = r.pass /\ StageTrue(att[w], r, chunkRows, vectors)
        BY <2>1, <2>5, <3>1 DEF ItemTrue, AllAtPass
      <4>2. StageTrue(att[w], r, chunkRows', vectors')
        <5>1. att[w].job[1] = e
          BY <2>5, <3>1
        <5> HIDE DEF r
        <5> QED
          BY <2>4, <4>1, <5>1, StageStays
      <4> QED
        BY <2>5, <3>1, <4>1, <4>2
    <3>2. CASE MayBecome(w)
      BY <1>3, <2>5, <3>2 DEF MayBecome
    <3> QED
      BY <3>1, <3>2
  <2> HIDE DEF r, r2
  <2>6. AttemptsFor(e, r, att, att', chunkRows', vectors')
    BY <2>5 DEF AttemptsFor
  <2>7. ItemTrue(e, r2, jobs', att', chunkRows', vectors')
    BY <2>1, <2>2, <2>3, <2>4, <2>6, ItemStays
  <2> QED
    BY <2>7 DEF r2
<1>4. PassesGrow
  <2>1. ASSUME NEW e \in Items, rows[e] # NoRow PROVE rows[e].pass \in Nat /\ rows'[e].pass = rows[e].pass
    BY <1>1, <2>1 DEF KnownInv, IngestTypeOK, EvidenceRows, Unset, Passes, RowsStay
  <2> QED
    BY <2>1 DEF PassesGrow
<1> QED
  BY <1>2, <1>3, <1>4 DEF IngestInv

-----------------------------------------------------------------------------
(* Ingest: the chunks of a pass.                                             *)

(* A plan's list is of chunks that have a row to be in.                    *)
LEMMA ListingType ==
    ASSUME NEW p \in Passes
    PROVE  Listing(p) \subseteq Nat \X ChunkContents
<1>1. ChunkPlan[p + 1] \in Seq(ChunkContents)
  BY IngestAssumption
<1> QED
  BY <1>1 DEF Listing

(* It has one entry for each chunk of the plan.                            *)
LEMMA ListingCount ==
    ASSUME NEW p \in Passes
    PROVE  IsFiniteSet(Listing(p)) /\ Cardinality(Listing(p)) = Len(ChunkPlan[p + 1])
<1> DEFINE n == Len(ChunkPlan[p + 1])
           f == [i \in 1..n |-> <<i, ChunkPlan[p + 1][i]>>]
<1>1. n \in Nat
  BY IngestAssumption
<1>2. f \in Bijection(1..n, Listing(p))
  <2>1. f \in [1..n -> Listing(p)]
    BY DEF Listing
  <2>2. \A i, k \in 1..n : f[i] = f[k] => i = k
    OBVIOUS
  <2>3. \A t \in Listing(p) : \E i \in 1..n : f[i] = t
    BY DEF Listing
  <2> HIDE DEF f, n
  <2> QED
    BY <2>1, <2>2, <2>3 DEF Bijection, Injection, Surjection, IsInjective
<1>3. IsFiniteSet(1..n) /\ Cardinality(1..n) = n
  <2> HIDE DEF n
  <2>1. IsFiniteSet(1..n) /\ Cardinality(1..n) = IF 1 > n THEN 0 ELSE n - 1 + 1
    BY <1>1, FS_Interval
  <2> QED
    BY <1>1, <2>1
<1> HIDE DEF n, f
<1>4. ExistsBijection(1..n, Listing(p))
  BY <1>2 DEF ExistsBijection
<1>5. IsFiniteSet(Listing(p)) /\ Cardinality(Listing(p)) = Cardinality(1..n)
  BY <1>3, <1>4, FS_Bijection
<1> QED
  BY <1>3, <1>5 DEF n

(* When all rows of the pass are there, the list is the first of them.       *)
LEMMA VisibleFirst ==
    ASSUME NEW e, rows[e].pass \in Passes, rows[e].chunkPass = rows[e].pass,
           ShapeTrue(e, rows[e], chunkRows)
    PROVE  Visible(e) = FirstOf(rows[e].pass)
<1> DEFINE p == rows[e].pass
           L == Listing(p)
           ofPass == {t \in L : chunkRows[<<e, t[2]>>] = p}
<1>1. ofPass = L
  BY DEF ShapeTrue
<1>2. p # NoRow
  BY IngestAssumption
<1>3. Visible(e) = {t \in ofPass : Cardinality({u \in ofPass : u[1] < t[1]}) < ListMax}
  BY <1>2 DEF Visible
<1> HIDE DEF L, ofPass
<1> QED
  BY <1>1, <1>3 DEF FirstOf, L

(* What list_chunks returns is of such chunks too.                         *)
LEMMA VisibleType ==
    ASSUME NEW e \in Items, rows \in [Items -> EvidenceRows \cup Unset], rows[e] # NoRow
    PROVE  Visible(e) \subseteq Nat \X ChunkContents
<1>1. rows[e].chunkPass = NoRow \/ rows[e].chunkPass \in Passes
  BY DEF EvidenceRows, Unset
<1>2. CASE rows[e].chunkPass = NoRow
  BY <1>2 DEF Visible
<1>3. CASE rows[e].chunkPass \in Passes
  <2>1. Visible(e) \subseteq Listing(rows[e].chunkPass)
    BY <1>3 DEF Visible
  <2> QED
    BY <1>3, <2>1, ListingType
<1> QED
  BY <1>1, <1>2, <1>3

-----------------------------------------------------------------------------
(* Ingest: the steps of attempts and jobs.                                   *)

(* A failed job is a job row.                                              *)
LEMMA FailedJob ==
    ASSUME NEW n \in Nat, NEW permanent \in BOOLEAN
    PROVE  QueueFailed(n, permanent) \in JobRows /\ QueueFailed(n, permanent).state \in {"dead", "queued"}
BY DEF QueueFailed, JobRows

(* A step that leaves the evidence alone.                                    *)
LEMMA EvidenceStays ==
    ASSUME IngestInv, UNCHANGED evidence
    PROVE  IngestTypeOK' /\ RowsStay /\ ChunksAtPass /\ StageRowsStay /\ vectors \subseteq vectors'
<1>1. UNCHANGED <<rows, stageRows, chunkRows, vectors, health>>
  BY DEF evidence
<1>2. IngestTypeOK'
  BY <1>1 DEF IngestInv, KnownInv, IngestTypeOK
<1> QED
  BY <1>1, <1>2 DEF RowsStay, ChunksAtPass, StageRowsStay, ChunksFor

(* One job that exists fails, is queued again or is leased.                  *)
LEMMA OneJobMoves ==
    ASSUME IngestInv, NEW j \in JobIds, NEW y \in JobRows, jobs[j].state # "absent",
           y.state \notin {"absent", "done"}, jobs' = [jobs EXCEPT ![j] = y]
    PROVE  jobs' \in [JobIds -> JobRows] /\ JobsSettle
<1>1. jobs \in [JobIds -> JobRows]
  BY DEF IngestInv, KnownInv
<1>2. jobs' \in [JobIds -> JobRows] /\ jobs'[j] = y /\ \A k \in JobIds : k # j => jobs'[k] = jobs[k]
  BY <1>1
<1> QED
  BY <1>2 DEF JobsSettle

(* What an attempt of the worker knows.                                      *)
LEMMA AttemptFacts ==
    ASSUME IngestInv, NEW w \in StageWorkers, att[w] # Idle
    PROVE  /\ att[w] \in Attempts /\ AttemptKnown(att[w], jobs, stageRows)
           /\ att[w].job \in JobIds /\ att[w].job[1] \in Items /\ att[w].job[2] \in JobStages
           /\ att[w].job[3] \in Passes /\ att[w].attempt \in Nat
           /\ rows[att[w].job[1]] # NoRow /\ rows[att[w].job[1]] \in EvidenceRows
           /\ calm => /\ ItemTrue(att[w].job[1], rows[att[w].job[1]], jobs, att, chunkRows, vectors)
                      /\ att[w].job[3] = rows[att[w].job[1]].pass
                      /\ StageTrue(att[w], rows[att[w].job[1]], chunkRows, vectors)
<1>1. att[w] \in Attempts /\ AttemptKnown(att[w], jobs, stageRows)
  BY DEF IngestInv, KnownInv
<1>2. /\ att[w].job \in JobIds /\ att[w].job[1] \in Items /\ att[w].job[2] \in JobStages
      /\ att[w].job[3] \in Passes /\ att[w].attempt \in Nat
  BY <1>1 DEF Attempts, JobIds
<1>3. rows[att[w].job[1]] # NoRow
  BY <1>1, <1>2 DEF AttemptKnown, IngestInv, KnownInv
<1>4. rows[att[w].job[1]] \in EvidenceRows
  BY <1>2, <1>3 DEF IngestInv, KnownInv, IngestTypeOK, Unset
<1>5. calm => ItemTrue(att[w].job[1], rows[att[w].job[1]], jobs, att, chunkRows, vectors)
  BY <1>2, <1>3 DEF IngestInv
<1>6. calm => /\ att[w].job[3] = rows[att[w].job[1]].pass
              /\ StageTrue(att[w], rows[att[w].job[1]], chunkRows, vectors)
  BY <1>5 DEF ItemTrue, AllAtPass
<1> QED
  BY <1>1, <1>2, <1>3, <1>4, <1>5, <1>6

(* Steps that leave the evidence alone: no project, a kill, a lost lease.  *)
LEMMA QuietIngestSteps ==
    ASSUME IngestInv,
           \/ \E w \in StageWorkers, j \in JobIds : Refuse(w, j) \/ ProjectNotOpen(w, j)
           \/ \E w \in StageWorkers : Killed(w)
           \/ \E j \in JobIds : LeaseExpires(j) \/ LeaseLost(j)
    PROVE  IngestInv' /\ PassesGrow
<1>0. /\ jobs \in [JobIds -> JobRows] /\ att \in [StageWorkers -> Attempts \cup {Idle}]
      /\ \A j \in JobIds : jobs[j].attempt \in Nat
  BY DEF IngestInv, KnownInv, JobRows
<1>1. ASSUME NEW w \in StageWorkers, NEW j \in JobIds, Refuse(w, j) \/ ProjectNotOpen(w, j)
      PROVE  IngestInv' /\ PassesGrow
  <2>1. /\ jobs[j].state = "queued" /\ UNCHANGED <<evidence, att, conn, rep, calm>>
        /\ \E permanent \in BOOLEAN : jobs' = [jobs EXCEPT ![j] = QueueFailed(jobs[j].attempt + 1, permanent)]
    BY <1>1 DEF Refuse, ProjectNotOpen, Claimable
  <2>2. PICK permanent \in BOOLEAN : jobs' = [jobs EXCEPT ![j] = QueueFailed(jobs[j].attempt + 1, permanent)]
    BY <2>1
  <2>3. jobs' \in [JobIds -> JobRows] /\ JobsSettle
    <3> DEFINE y == QueueFailed(jobs[j].attempt + 1, permanent)
    <3>1. y \in JobRows /\ y.state \in {"dead", "queued"}
      BY <1>0, FailedJob
    <3> HIDE DEF y
    <3>2. jobs' = [jobs EXCEPT ![j] = y]
      BY <2>2 DEF y
    <3> QED
      BY <2>1, <3>1, <3>2, OneJobMoves
  <2> QED
    BY <1>0, <2>1, <2>3, EvidenceStays, AttemptsMove
<1>2. ASSUME NEW w \in StageWorkers, Killed(w) PROVE IngestInv' /\ PassesGrow
  <2>1. UNCHANGED <<evidence, jobs, conn, rep, calm>> /\ att' = [att EXCEPT ![w] = Idle]
    BY <1>2 DEF Killed
  <2>2. /\ att' \in [StageWorkers -> Attempts \cup {Idle}]
        /\ \A v \in StageWorkers : att'[v] = att[v] \/ MayBecome(v)
    BY <1>0, <2>1 DEF MayBecome
  <2>3. jobs' \in [JobIds -> JobRows] /\ JobsSettle
    BY <1>0, <2>1 DEF JobsSettle
  <2> QED
    BY <2>1, <2>2, <2>3, EvidenceStays, AttemptsMove
<1>3. ASSUME NEW j \in JobIds, LeaseExpires(j) \/ LeaseLost(j) PROVE IngestInv' /\ PassesGrow
  <2>1. /\ jobs[j].state = "leased" /\ UNCHANGED <<evidence, att, conn, rep, calm>>
        /\ jobs' = [jobs EXCEPT ![j] = QueueFailed(jobs[j].attempt, FALSE)]
    BY <1>3 DEF LeaseExpires, LeaseLost, Expire
  <2>2. jobs' \in [JobIds -> JobRows] /\ JobsSettle
    <3> DEFINE y == QueueFailed(jobs[j].attempt, FALSE)
    <3>1. y \in JobRows /\ y.state \in {"dead", "queued"}
      BY <1>0, FailedJob
    <3> HIDE DEF y
    <3>2. jobs' = [jobs EXCEPT ![j] = y]
      BY <2>1 DEF y
    <3> QED
      BY <2>1, <3>1, <3>2, OneJobMoves
  <2> QED
    BY <1>0, <2>1, <2>2, EvidenceStays, AttemptsMove
<1> QED
  BY <1>1, <1>2, <1>3

(* One worker moves on.                                                      *)
LEMMA OneAttemptMoves ==
    ASSUME IngestInv, NEW w \in StageWorkers, NEW x \in Attempts \cup {Idle}, att' = [att EXCEPT ![w] = x],
           MayBecome(w)
    PROVE  /\ att' \in [StageWorkers -> Attempts \cup {Idle}]
           /\ \A v \in StageWorkers : att'[v] = att[v] \/ MayBecome(v)
<1>1. att \in [StageWorkers -> Attempts \cup {Idle}]
  BY DEF IngestInv, KnownInv
<1>2. att' \in [StageWorkers -> Attempts \cup {Idle}] /\ \A v \in StageWorkers : v # w => att'[v] = att[v]
  BY <1>1
<1> QED
  BY <1>2

(* A worker leases a job and starts its attempt.                           *)
LEMMA IngestStart ==
    ASSUME IngestInv, NEW w \in StageWorkers, NEW j \in JobIds, Start(w, j)
    PROVE  IngestInv' /\ PassesGrow
<1> DEFINE n == jobs[j].attempt + 1
           e == j[1]
           s == j[2]
           y == [state |-> "leased", attempt |-> n]
           z == [pass |-> j[3], state |-> "running", attempt |-> n]
           x == [job |-> j, attempt |-> n, pc |-> "begin", todo |-> {}, text |-> rows[e].text, fresh |-> {}]
<1>1. /\ jobs \in [JobIds -> JobRows] /\ jobs[j].attempt \in Nat /\ IngestTypeOK
      /\ stageRows \in [Items -> [JobStages -> StageRowSet \cup Unset]] /\ att \in [StageWorkers -> Attempts \cup {Idle}]
  BY DEF IngestInv, KnownInv, JobRows, IngestTypeOK
<1>2. n \in Nat /\ e \in Items /\ s \in JobStages /\ j[3] \in Passes
  BY <1>1 DEF JobIds
<1>3. /\ jobs[j].state = "queued" /\ ~Refused(j) /\ jobs' = [jobs EXCEPT ![j] = y]
      /\ stageRows' = [stageRows EXCEPT ![e][s] = z] /\ att' = [att EXCEPT ![w] = x]
      /\ UNCHANGED <<rows, chunkRows, vectors, health, conn, rep, calm>>
  BY DEF Start, Claimable, StageStarted
<1>4. rows[e] # NoRow /\ rows[e] \in EvidenceRows /\ rows[e].text \in BOOLEAN /\ rows[e].pass = j[3]
  <2>1. rows[e] # NoRow
    BY <1>3 DEF IngestInv, KnownInv
  <2>2. rows[e] \in EvidenceRows
    BY <1>2, <2>1 DEF IngestInv, KnownInv, IngestTypeOK, Unset
  <2> QED
    BY <1>3, <2>1, <2>2 DEF Refused, EvidenceRows
<1>5. x \in Attempts /\ y \in JobRows /\ z \in StageRowSet
  BY <1>2, <1>4 DEF Attempts, JobRows, StageRowSet, AttemptPcs
<1>6. x.job = j /\ x.pc = "begin" /\ x.fresh = {} /\ y.state = "leased"
  OBVIOUS
<1> HIDE DEF x, y, z, n
<1>7. jobs' \in [JobIds -> JobRows] /\ JobsSettle
  BY <1>3, <1>5, <1>6, OneJobMoves
<1>8. /\ stageRows' \in [Items -> [JobStages -> StageRowSet \cup Unset]] /\ stageRows'[e][s] = z
      /\ \A f \in Items, t \in JobStages : ~(f = e /\ t = s) => stageRows'[f][t] = stageRows[f][t]
  BY <1>1, <1>2, <1>3, <1>5
<1>9. z # NoRow
  BY <1>5, IngestAssumption
<1>10. StageRowsStay
  BY <1>8, <1>9 DEF StageRowsStay
<1>11. IngestTypeOK'
  BY <1>1, <1>3, <1>8 DEF IngestTypeOK
<1>12. RowsStay /\ ChunksAtPass /\ vectors \subseteq vectors'
  BY <1>3 DEF RowsStay, ChunksAtPass, ChunksFor
<1>13. att'[w] = x /\ jobs'[j] = y
  BY <1>1, <1>3
<1>14. MayBecome(w)
  <2>1. AttemptKnown(x, jobs', stageRows')
    BY <1>6, <1>8, <1>9, <1>13 DEF AttemptKnown
  <2>2. StageTrue(x, rows[e], chunkRows', vectors')
    BY <1>6 DEF StageTrue
  <2> QED
    BY <1>4, <1>6, <1>13, <2>1, <2>2 DEF MayBecome
<1>15. /\ att' \in [StageWorkers -> Attempts \cup {Idle}]
       /\ \A v \in StageWorkers : att'[v] = att[v] \/ MayBecome(v)
  BY <1>3, <1>5, <1>14, OneAttemptMoves
<1> QED
  BY <1>3, <1>7, <1>10, <1>11, <1>12, <1>15, AttemptsMove

(* The attempt opens its stage.                                            *)
LEMMA IngestBegin ==
    ASSUME IngestInv, NEW w \in StageWorkers, HandlerBegin(w)
    PROVE  IngestInv' /\ PassesGrow
<1> DEFINE a == att[w]
           e == a.job[1]
           todo == Work(w)
           x == [a EXCEPT !.pc = "work", !.todo = todo]
<1>1. /\ a # Idle /\ att' = [att EXCEPT ![w] = x] /\ UNCHANGED <<evidence, jobs, conn, rep, calm>>
  BY DEF HandlerBegin, AtPc
<1>2. /\ a \in Attempts /\ AttemptKnown(a, jobs, stageRows) /\ e \in Items /\ a.job[3] \in Passes
      /\ rows[e] # NoRow /\ rows[e] \in EvidenceRows
      /\ calm => /\ ItemTrue(e, rows[e], jobs, att, chunkRows, vectors) /\ a.job[3] = rows[e].pass
  BY <1>1, AttemptFacts
<1>3. todo \subseteq Nat \X ChunkContents
  <2>1. Listing(a.job[3]) \subseteq Nat \X ChunkContents
    BY <1>2, ListingType
  <2>2. Visible(e) \subseteq Nat \X ChunkContents
    BY <1>2, VisibleType DEF IngestInv, KnownInv, IngestTypeOK
  <2> QED
    BY <2>1, <2>2 DEF Work, Stage
<1>4. /\ a.job[2] = "chunk" => todo = Listing(a.job[3])
      /\ a.job[2] = "embed" => todo = {t \in Visible(e) : <<e, t[2]>> \notin vectors}
  BY DEF Work, Stage
<1> HIDE DEF todo
<1>5. x \in Attempts /\ x.job = a.job /\ x.pc = "work" /\ x.todo = todo /\ x.fresh = a.fresh
  BY <1>2, <1>3 DEF Attempts, AttemptPcs
<1>6. UNCHANGED <<rows, stageRows, chunkRows, vectors>>
  BY <1>1 DEF evidence
<1> HIDE DEF x
<1>7. ASSUME calm PROVE StageTrue(x, rows[e], chunkRows', vectors')
  <2>1. ShapeTrue(e, rows[e], chunkRows) /\ rows[e].pass \in Passes /\ a.job[3] = rows[e].pass
    BY <1>2, <1>7 DEF ItemTrue, EvidenceRows
  <2>2. rows[e].chunkPass = rows[e].pass => Visible(e) = FirstOf(rows[e].pass)
    BY <2>1, VisibleFirst
  <2>3. a.job[2] = "chunk" => \A t \in Listing(rows[e].pass) : t \in x.todo
    BY <1>4, <1>5, <2>1
  <2>4. a.job[2] = "embed" /\ rows[e].chunkPass = rows[e].pass =>
          \A t \in FirstOf(rows[e].pass) : <<e, t[2]>> \in vectors \/ t \in x.todo
    BY <1>4, <1>5, <2>2
  <2> QED
    BY <1>5, <1>6, <2>3, <2>4 DEF StageTrue
<1>8. att'[w] = x
  BY <1>1 DEF IngestInv, KnownInv
<1>9. MayBecome(w)
  <2>1. AttemptKnown(x, jobs', stageRows')
    BY <1>1, <1>2, <1>5, <1>6 DEF AttemptKnown
  <2> QED
    BY <1>2, <1>5, <1>7, <1>8, <2>1 DEF MayBecome
<1>10. /\ att' \in [StageWorkers -> Attempts \cup {Idle}]
       /\ \A v \in StageWorkers : att'[v] = att[v] \/ MayBecome(v)
  BY <1>1, <1>5, <1>9, OneAttemptMoves
<1>11. jobs' \in [JobIds -> JobRows] /\ JobsSettle
  BY <1>1 DEF IngestInv, KnownInv, JobsSettle
<1> QED
  BY <1>1, <1>10, <1>11, EvidenceStays, AttemptsMove

(* The handler does one batch of the attempt's list.                       *)
LEMMA IngestBatch ==
    ASSUME IngestInv, NEW w \in StageWorkers, HandlerBatch(w)
    PROVE  IngestInv' /\ PassesGrow
<1> DEFINE a == att[w]
           e == a.job[1]
           p == a.job[3]
<1>1. PICK t \in a.todo :
          /\ IF a.job[2] = "chunk"
             THEN chunkRows' = [chunkRows EXCEPT ![<<e, t[2]>>] = p] /\ UNCHANGED vectors
             ELSE vectors' = vectors \cup {<<e, t[2]>>} /\ UNCHANGED chunkRows
          /\ att' = [att EXCEPT ![w].todo = @ \ {t}]
  BY DEF HandlerBatch, Stage
<1>2. /\ a # Idle /\ a.pc = "work" /\ UNCHANGED <<rows, stageRows, health, jobs, conn, rep, calm>>
  BY DEF HandlerBatch, AtPc
<1>3. /\ a \in Attempts /\ AttemptKnown(a, jobs, stageRows) /\ e \in Items /\ p \in Passes
      /\ rows[e] # NoRow /\ rows[e] \in EvidenceRows /\ a.job[2] \in JobStages
      /\ calm => p = rows[e].pass /\ StageTrue(a, rows[e], chunkRows, vectors)
  BY <1>2, AttemptFacts
<1> DEFINE todo == a.todo \ {t}
           x == [a EXCEPT !.todo = todo]
           c == <<e, t[2]>>
<1>4. todo \subseteq Nat \X ChunkContents /\ c \in ChunkIds
  BY <1>1, <1>3 DEF Attempts, ChunkIds
<1>5. att \in [StageWorkers -> Attempts \cup {Idle}] /\ IngestTypeOK
  BY DEF IngestInv, KnownInv
<1>6. att' = [att EXCEPT ![w] = x]
  BY <1>1, <1>5
<1>7. x \in Attempts /\ x.job = a.job /\ x.pc = "work" /\ x.todo = todo /\ x.fresh = a.fresh
  BY <1>2, <1>3, <1>4 DEF Attempts
<1> HIDE DEF x
<1>8. att'[w] = x
  BY <1>5, <1>6
<1>9. /\ chunkRows' \in [ChunkIds -> ChunkRowSet \cup Unset]
      /\ a.job[2] = "chunk" => chunkRows'[c] = p /\ vectors' = vectors
      /\ \A k \in ChunkIds : chunkRows'[k] = chunkRows[k] \/ (chunkRows'[k] = p /\ k = c)
  <2>1. CASE a.job[2] = "chunk"
    BY <1>1, <1>3, <1>4, <1>5, <2>1 DEF IngestTypeOK, ChunkRowSet
  <2>2. CASE a.job[2] # "chunk"
    BY <1>1, <1>5, <2>2 DEF IngestTypeOK
  <2> QED
    BY <2>1, <2>2
<1>10. /\ vectors \subseteq vectors' /\ vectors' \subseteq ChunkIds
       /\ a.job[2] # "chunk" => c \in vectors' /\ chunkRows' = chunkRows
  BY <1>1, <1>4, <1>5 DEF IngestTypeOK
<1>11. IngestTypeOK'
  BY <1>2, <1>5, <1>9, <1>10 DEF IngestTypeOK
<1>12. ChunksAtPass
  <2>1. ASSUME calm, NEW f \in Items, rows[f] # NoRow, NEW u \in Listing(rows[f].pass),
               chunkRows[<<f, u[2]>>] = rows[f].pass
        PROVE  chunkRows'[<<f, u[2]>>] = rows[f].pass
    <3>1. rows[f].pass \in Passes
      BY <1>5, <2>1 DEF IngestTypeOK, Unset, EvidenceRows
    <3>2. <<f, u[2]>> \in ChunkIds
      BY <2>1, <3>1, ListingType DEF ChunkIds
    <3>3. CASE <<f, u[2]>> = c
      BY <1>3, <1>9, <2>1, <3>2, <3>3
    <3> QED
      BY <1>9, <2>1, <3>2, <3>3
  <2> QED
    BY <2>1 DEF ChunksAtPass, ChunksFor
<1>13. ASSUME calm PROVE StageTrue(x, rows[e], chunkRows', vectors')
  <2>0. p = rows[e].pass /\ rows[e].pass \in Passes /\ StageTrue(a, rows[e], chunkRows, vectors)
    BY <1>3, <1>13
  <2>1. ASSUME a.job[2] = "chunk", NEW u \in Listing(rows[e].pass)
        PROVE  chunkRows'[<<e, u[2]>>] = rows[e].pass \/ u \in x.todo
    <3>1. chunkRows[<<e, u[2]>>] = rows[e].pass \/ u \in a.todo
      BY <1>2, <2>0, <2>1 DEF StageTrue
    <3>2. chunkRows[<<e, u[2]>>] = rows[e].pass => chunkRows'[<<e, u[2]>>] = rows[e].pass
      BY <1>3, <1>12, <1>13, <2>1 DEF ChunksAtPass, ChunksFor
    <3>3. u = t => chunkRows'[<<e, u[2]>>] = rows[e].pass
      BY <1>9, <2>0, <2>1
    <3> QED
      BY <1>7, <3>1, <3>2, <3>3
  <2>2. ASSUME a.job[2] = "embed", rows[e].chunkPass = rows[e].pass, NEW u \in FirstOf(rows[e].pass)
        PROVE  <<e, u[2]>> \in vectors' \/ u \in x.todo
    <3>1. <<e, u[2]>> \in vectors \/ u \in a.todo
      BY <1>2, <2>0, <2>2 DEF StageTrue
    <3>2. u = t => <<e, u[2]>> \in vectors'
      BY <1>10, <2>2
    <3> QED
      BY <1>7, <1>10, <3>1, <3>2
  <2> QED
    BY <1>7, <2>1, <2>2 DEF StageTrue
<1>14. MayBecome(w)
  <2>1. AttemptKnown(x, jobs', stageRows')
    BY <1>2, <1>3, <1>7 DEF AttemptKnown
  <2> QED
    BY <1>3, <1>7, <1>8, <1>13, <2>1 DEF MayBecome
<1>15. /\ att' \in [StageWorkers -> Attempts \cup {Idle}]
       /\ \A v \in StageWorkers : att'[v] = att[v] \/ MayBecome(v)
  BY <1>6, <1>7, <1>14, OneAttemptMoves
<1>16. jobs' \in [JobIds -> JobRows] /\ JobsSettle /\ RowsStay /\ StageRowsStay
  BY <1>2 DEF IngestInv, KnownInv, JobsSettle, RowsStay, StageRowsStay
<1> QED
  BY <1>2, <1>10, <1>11, <1>12, <1>15, <1>16, AttemptsMove

(* A failure of the attempt, as commit_failed writes it.                     *)
LEMMA IngestFails ==
    ASSUME IngestInv, NEW w \in StageWorkers, NEW permanent \in BOOLEAN, att[w] # Idle,
           CommitFailed(w, permanent)
    PROVE  IngestInv' /\ PassesGrow
<1> DEFINE a == att[w]
           e == a.job[1]
           s == a.job[2]
           dead == DeadAt(a.attempt, permanent)
           pc == IF permanent THEN "refused" ELSE "failed"
           state == IF dead THEN "dead" ELSE "retrying"
           x == [a EXCEPT !.pc = pc]
           r2 == [rows[e] EXCEPT !.status = "failed"]
           h == health[s]
           h2 == [h EXCEPT !.failed = @ + 1, !.dead = IF dead THEN @ + 1 ELSE @]
<1>1. /\ a \in Attempts /\ AttemptKnown(a, jobs, stageRows) /\ e \in Items /\ s \in JobStages
      /\ a.job[3] \in Passes /\ rows[e] # NoRow /\ rows[e] \in EvidenceRows /\ a.attempt \in Nat
      /\ calm => a.job[3] = rows[e].pass
  BY AttemptFacts
<1>2. /\ IngestTypeOK /\ att \in [StageWorkers -> Attempts \cup {Idle}]
      /\ rows \in [Items -> EvidenceRows \cup Unset]
      /\ stageRows \in [Items -> [JobStages -> StageRowSet \cup Unset]]
      /\ health \in [IngestStages -> HealthRows] /\ \A q \in IngestStages : health[q].dead <= health[q].failed
  BY SMTT(40) DEF IngestInv, KnownInv, IngestTypeOK
<1>3. /\ UNCHANGED <<chunkRows, vectors, jobs, conn, rep, calm>>
      /\ rows' = IF dead THEN [rows EXCEPT ![e] = r2] ELSE rows
      /\ att' = [att EXCEPT ![w] = x]
      /\ health' = [health EXCEPT ![s] = h2]
  BY ZenonT(40) DEF CommitFailed, CountFailed
<1>4. /\ stageRows' \in [Items -> [JobStages -> StageRowSet \cup Unset]]
      /\ StageRowsStay
  <2> DEFINE z == stageRows[e][s]
             z1 == [z EXCEPT !.pass = a.job[3], !.state = state]
             z2 == [z1 EXCEPT !.attempt = a.attempt]
  <2>1. z \in StageRowSet
    BY <1>1, <1>2 DEF AttemptKnown, Unset
  <2>2. z1 \in StageRowSet
    BY <1>1, <2>1 DEF StageRowSet
  <2> HIDE DEF z1
  <2>3. z2 \in StageRowSet
    BY <1>1, <2>2 DEF StageRowSet
  <2> DEFINE sr == [stageRows EXCEPT ![e][s] = z1]
  <2>4. sr[e][s] = z1 /\ sr \in [Items -> [JobStages -> StageRowSet \cup Unset]]
    BY <1>1, <1>2, <2>2
  <2>5. sr = StageSettled(e, s, a.job[3], state)
    BY <1>1, <1>2, ZenonT(40) DEF StageSettled, z1
  <2>6. stageRows' = [sr EXCEPT ![e][s].attempt = a.attempt]
    BY <2>5, ZenonT(40) DEF CommitFailed
  <2> HIDE DEF sr
  <2>7. stageRows' = [sr EXCEPT ![e][s] = z2]
    BY <1>1, <2>4, <2>6
  <2> HIDE DEF z2
  <2>8. stageRows' \in [Items -> [JobStages -> StageRowSet \cup Unset]] /\ stageRows'[e][s] = z2
        /\ \A f \in Items, q \in JobStages : ~(f = e /\ q = s) => stageRows'[f][q] = stageRows[f][q]
    <3>1. \A f \in Items, q \in JobStages : ~(f = e /\ q = s) => sr[f][q] = stageRows[f][q]
      BY <1>1, <1>2 DEF sr
    <3>2. \A f \in Items, q \in JobStages : ~(f = e /\ q = s) => stageRows'[f][q] = sr[f][q]
      BY <1>1, <2>4, <2>7
    <3> QED
      BY <1>1, <2>3, <2>4, <2>7, <3>1, <3>2
  <2>9. z2 # NoRow
    BY <2>3, IngestAssumption
  <2> QED
    BY <2>8, <2>9 DEF StageRowsStay
<1>5. /\ health' \in [IngestStages -> HealthRows] /\ \A q \in IngestStages : health'[q].dead <= health'[q].failed
  <2>1. s \in IngestStages
    BY <1>1 DEF JobStages
  <2>2. h \in HealthRows /\ h.dead <= h.failed
    BY <1>2, <2>1
  <2>3. h2 \in HealthRows /\ h2.dead <= h2.failed
    <3>1. h.failed + 1 \in Nat /\ h.dead \in Nat /\ h.failed \in Nat
      BY <2>2 DEF HealthRows
    <3> DEFINE d == IF dead THEN h.dead + 1 ELSE h.dead
               f == h.failed + 1
    <3>2. d \in Nat /\ f \in Nat /\ d <= f
      BY <2>2, <3>1
    <3>3. h2 = [h EXCEPT !.failed = f, !.dead = d]
      BY <2>2 DEF HealthRows
    <3> HIDE DEF d, f, h2
    <3>4. h2 \in HealthRows /\ h2.dead = d /\ h2.failed = f
      BY <2>2, <3>2, <3>3 DEF HealthRows
    <3> QED
      BY <3>2, <3>4
  <2> HIDE DEF h2
  <2> QED
    BY <1>2, <1>3, <2>1, <2>3
<1>6. r2 \in EvidenceRows /\ r2.pass = rows[e].pass /\ r2.chunkPass = rows[e].chunkPass
      /\ r2.chunkCount = rows[e].chunkCount /\ r2.status = "failed"
  BY <1>1 DEF EvidenceRows, Statuses
<1>7. x \in Attempts /\ x.job = a.job /\ x.pc = pc /\ x.fresh = a.fresh
  BY <1>1 DEF Attempts, AttemptPcs
<1>8. att'[w] = x
  BY <1>2, <1>3
<1> HIDE DEF x, r2, h2, pc
<1>9. rows' \in [Items -> EvidenceRows \cup Unset] /\ RowsStay
  <2>1. r2 # NoRow
    BY <1>6, IngestAssumption
  <2>2. CASE dead
    <3>1. rows' \in [Items -> EvidenceRows \cup Unset] /\ rows'[e] = r2
          /\ \A f \in Items : f # e => rows'[f] = rows[f]
      BY <1>1, <1>2, <1>3, <1>6, <2>2
    <3> QED
      BY <1>1, <1>6, <2>1, <3>1 DEF RowsStay
  <2>3. CASE ~dead
    BY <1>2, <1>3, <2>3 DEF RowsStay
  <2> QED
    BY <2>2, <2>3
<1>10. IngestTypeOK'
  BY <1>2, <1>3, <1>4, <1>5, <1>9 DEF IngestTypeOK
<1>11. pc \in {"refused", "failed"}
  BY DEF pc
<1>12. MayBecome(w)
  <2>1. AttemptKnown(x, jobs', stageRows')
    BY <1>1, <1>3, <1>4, <1>7, <1>11 DEF AttemptKnown, StageRowsStay
  <2>2. StageTrue(x, rows[e], chunkRows', vectors')
    BY <1>7, <1>11 DEF StageTrue
  <2> QED
    BY <1>1, <1>7, <1>8, <1>11, <2>1, <2>2 DEF MayBecome
<1>13. /\ att' \in [StageWorkers -> Attempts \cup {Idle}]
       /\ \A v \in StageWorkers : att'[v] = att[v] \/ MayBecome(v)
  BY <1>3, <1>7, <1>12, OneAttemptMoves
<1>14. jobs' \in [JobIds -> JobRows] /\ JobsSettle /\ ChunksAtPass /\ vectors \subseteq vectors'
  BY <1>3 DEF IngestInv, KnownInv, JobsSettle, ChunksAtPass, ChunksFor
<1> QED
  BY <1>3, <1>4, <1>9, <1>10, <1>13, <1>14, AttemptsMove

(* The end of an attempt: the read before the completion, a completion that   *)
(* finds its next job enqueued meanwhile, and the queue's settlement.        *)
LEMMA IngestFinishRead ==
    ASSUME IngestInv, NEW w \in StageWorkers, FinishRead(w)
    PROVE  IngestInv' /\ PassesGrow
<1> DEFINE a == att[w]
           e == a.job[1]
           next == NextJob(a.job[1], a.job[2], a.job[3])
           fresh == {k \in next : Absent(k)}
           x == [a EXCEPT !.pc = "commit", !.fresh = fresh]
<1>1. /\ a # Idle /\ a.pc = "work" /\ a.todo = {} /\ att' = [att EXCEPT ![w] = x]
      /\ UNCHANGED <<evidence, jobs, conn, rep, calm>>
  BY DEF FinishRead, AtPc
<1>2. /\ a \in Attempts /\ AttemptKnown(a, jobs, stageRows) /\ e \in Items /\ a.job[2] \in JobStages
      /\ a.job[3] \in Passes
      /\ calm => a.job[3] = rows[e].pass /\ StageTrue(a, rows[e], chunkRows, vectors)
  BY <1>1, AttemptFacts
<1>3. next \subseteq JobIds
  BY <1>2, NextJobIs DEF JobIds
<1> HIDE DEF next
<1>4. fresh \subseteq JobIds /\ fresh \subseteq next /\ \A k \in next : k \in fresh \/ jobs[k].state # "absent"
  BY <1>3 DEF Absent
<1> HIDE DEF fresh
<1>5. x \in Attempts /\ x.job = a.job /\ x.pc = "commit" /\ x.todo = a.todo /\ x.fresh = fresh
  BY <1>2, <1>4 DEF Attempts, AttemptPcs
<1>6. UNCHANGED <<rows, stageRows, chunkRows, vectors>>
  BY <1>1 DEF evidence
<1> HIDE DEF x
<1>7. att'[w] = x
  BY <1>1 DEF IngestInv, KnownInv
<1>8. MayBecome(w)
  <2>1. AttemptKnown(x, jobs', stageRows')
    BY <1>1, <1>2, <1>4, <1>5, <1>6 DEF AttemptKnown, next
  <2>2. calm => StageTrue(x, rows[e], chunkRows', vectors')
    BY <1>1, <1>2, <1>5, <1>6 DEF StageTrue
  <2> QED
    BY <1>2, <1>5, <1>7, <2>1, <2>2 DEF MayBecome
<1>9. /\ att' \in [StageWorkers -> Attempts \cup {Idle}]
      /\ \A v \in StageWorkers : att'[v] = att[v] \/ MayBecome(v)
  BY <1>1, <1>5, <1>8, OneAttemptMoves
<1>10. jobs' \in [JobIds -> JobRows] /\ JobsSettle
  BY <1>1 DEF IngestInv, KnownInv, JobsSettle
<1> QED
  BY <1>1, <1>9, <1>10, EvidenceStays, AttemptsMove

(* The commit of the completion fails.                                     *)
LEMMA IngestCommitFails ==
    ASSUME IngestInv, NEW w \in StageWorkers, att[w] # Idle, att' = [att EXCEPT ![w].pc = "failed"],
           UNCHANGED <<rows, stageRows, health, jobs, chunkRows, vectors, conn, rep, calm>>
    PROVE  IngestInv' /\ PassesGrow
<1> DEFINE a == att[w]
           e == a.job[1]
           x == [a EXCEPT !.pc = "failed"]
<1>1. att' = [att EXCEPT ![w] = x]
  OBVIOUS
<1>2. /\ a \in Attempts /\ AttemptKnown(a, jobs, stageRows)
      /\ calm => a.job[3] = rows[e].pass
  BY AttemptFacts
<1>3. x \in Attempts /\ x.job = a.job /\ x.pc = "failed" /\ x.fresh = a.fresh
  BY <1>2 DEF Attempts, AttemptPcs
<1> HIDE DEF x
<1>4. att'[w] = x
  BY <1>1 DEF IngestInv, KnownInv
<1>5. MayBecome(w)
  BY <1>2, <1>3, <1>4 DEF MayBecome, AttemptKnown, StageTrue
<1>6. /\ att' \in [StageWorkers -> Attempts \cup {Idle}]
      /\ \A v \in StageWorkers : att'[v] = att[v] \/ MayBecome(v)
  BY <1>1, <1>3, <1>5, OneAttemptMoves
<1>7. jobs' \in [JobIds -> JobRows] /\ JobsSettle
  BY DEF IngestInv, KnownInv, JobsSettle
<1> QED
  BY <1>6, <1>7, EvidenceStays, AttemptsMove DEF evidence

(* The queue settles the job of a finished attempt.                        *)
LEMMA IngestSettle ==
    ASSUME IngestInv, NEW w \in StageWorkers, Settle(w)
    PROVE  IngestInv' /\ PassesGrow
<1> DEFINE a == att[w]
           j == a.job
           n == a.attempt
           y == IF a.pc = "done" THEN [state |-> "done", attempt |-> n] ELSE QueueFailed(n, a.pc = "refused")
<1>1. /\ a # Idle /\ att' = [att EXCEPT ![w] = Idle]
      /\ jobs' = IF jobs[j] = [state |-> "leased", attempt |-> n] THEN [jobs EXCEPT ![j] = y] ELSE jobs
      /\ UNCHANGED <<evidence, conn, rep, calm>>
  BY DEF Settle, AtPc
<1>2. j \in JobIds /\ n \in Nat /\ jobs \in [JobIds -> JobRows] /\ jobs[j].state # "absent"
  BY <1>1, AttemptFacts DEF IngestInv, KnownInv, AttemptKnown
<1>3. y \in JobRows /\ y.state # "absent" /\ (y.state = "done" => a.pc = "done")
  <2>1. CASE a.pc = "done"
    BY <1>2, <2>1 DEF JobRows
  <2>2. CASE a.pc # "done"
    BY <1>2, <2>2, FailedJob
  <2> QED
    BY <2>1, <2>2
<1> HIDE DEF y
<1>4. jobs' \in [JobIds -> JobRows] /\ JobsSettle
  <2>1. CASE jobs' = [jobs EXCEPT ![j] = y]
    <3>1. jobs' \in [JobIds -> JobRows] /\ jobs'[j] = y /\ \A k \in JobIds : k # j => jobs'[k] = jobs[k]
      BY <1>2, <1>3, <2>1
    <3> QED
      BY <1>1, <1>2, <1>3, <3>1 DEF JobsSettle
  <2>2. CASE jobs' = jobs
    BY <1>2, <2>2 DEF JobsSettle
  <2> QED
    BY <1>1, <2>1, <2>2
<1>5. MayBecome(w)
  BY <1>1 DEF MayBecome, IngestInv, KnownInv
<1>6. /\ att' \in [StageWorkers -> Attempts \cup {Idle}]
      /\ \A v \in StageWorkers : att'[v] = att[v] \/ MayBecome(v)
  BY <1>1, <1>5, OneAttemptMoves
<1> QED
  BY <1>1, <1>4, <1>6, EvidenceStays, AttemptsMove

-----------------------------------------------------------------------------
(* Ingest: the steps that move an item on.                                   *)

(* A row that exists is that of an item.                                     *)
LEMMA RowType ==
    ASSUME IngestInv, NEW e \in Items, rows[e] # NoRow
    PROVE  rows[e] \in EvidenceRows /\ rows[e].pass \in Passes
BY DEF IngestInv, KnownInv, IngestTypeOK, Unset, EvidenceRows

(* Another item is as it was.                                                *)
LEMMA OtherItem ==
    ASSUME IngestInv, calm, NEW e \in Items, rows[e] # NoRow, rows'[e] = rows[e],
           \A s \in JobStages, p \in Passes : jobs'[<<e, s, p>>] = jobs[<<e, s, p>>],
           \A w \in StageWorkers : att'[w] = att[w] \/ (att'[w] # Idle /\ att'[w].job[1] # e),
           UNCHANGED <<chunkRows, vectors>>
    PROVE  ItemTrue(e, rows'[e], jobs', att', chunkRows', vectors')
<1> DEFINE r == rows[e]
<1>1. ItemTrue(e, r, jobs, att, chunkRows, vectors) /\ r.pass \in Passes
  BY RowType DEF IngestInv
<1>2. JobsFor(e, jobs, jobs', att)
  BY DEF JobsFor
<1>3. AttemptsFor(e, r, att, att', chunkRows', vectors')
  BY <1>1 DEF AttemptsFor, ItemTrue, AllAtPass
<1>4. ChunksFor(e, r, chunkRows, chunkRows')
  BY DEF ChunksFor
<1> HIDE DEF r
<1>5. ItemTrue(e, r, jobs', att', chunkRows', vectors')
  BY <1>1, <1>2, <1>3, <1>4, ItemStays
<1> QED
  BY <1>5 DEF r

(* The completion of a stage, with the job of the next one.                  *)
LEMMA ItemFinishes ==
    ASSUME NEW e \in Items, NEW r \in EvidenceRows, NEW s \in JobStages, NEW jb, NEW jb2, NEW ats, NEW at2,
           NEW cr, NEW vs, NEW w \in StageWorkers, NEW r2,
           ItemTrue(e, r, jb, ats, cr, vs),
           ats[w] # Idle, ats[w].job = <<e, s, r.pass>>, ats[w].pc = "commit",
           \A v \in StageWorkers : ats[v] # Idle => ats[v].job \in JobIds /\ jb[ats[v].job].state # "absent",
           r2.status = s, r2.pass = r.pass,
           r2.chunkPass = (IF s = "chunk" THEN r.pass ELSE r.chunkPass),
           r2.chunkCount = (IF s = "chunk" THEN Len(ChunkPlan[r.pass + 1]) ELSE r.chunkCount),
           \A k \in JobIds : jb[k].state # "absent" => jb2[k].state # "absent",
           \A k \in JobIds : jb[k].state = "absent" /\ jb2[k].state # "absent" => k \in NextJob(e, s, r.pass),
           \A k \in NextJob(e, s, r.pass) : jb2[k].state # "absent",
           at2[w].pc = "done",
           \A v \in StageWorkers : at2[v] # Idle => ats[v] # Idle /\ at2[v].job = ats[v].job,
           \A v \in StageWorkers : at2[v] = ats[v] \/ v = w
    PROVE  ItemTrue(e, r2, jb2, at2, cr, vs)
<1>0. r.pass \in Passes /\ r.pass \in Nat /\ ats[w].job[1] = e /\ ats[w].job[2] = s
  BY DEF EvidenceRows, Passes
<1>1. NoneAhead(e, r2, jb2)
  <2>1. ASSUME NEW q \in JobStages, NEW p \in Passes, p > r.pass, jb2[<<e, q, p>>].state # "absent" PROVE FALSE
    <3>1. jb[<<e, q, p>>].state = "absent"
      BY <2>1 DEF ItemTrue, NoneAhead
    <3>2. <<e, q, p>> \in NextJob(e, s, r.pass)
      BY <2>1, <3>1 DEF JobIds
    <3>3. p = r.pass
      BY <3>2, NextJobIs
    <3> QED
      BY <1>0, <2>1, <3>3
  <2> QED
    BY <2>1 DEF NoneAhead
<1>2. AllAtPass(e, r2, at2)
  BY DEF ItemTrue, AllAtPass
<1>3. WorkTrue(e, r2, jb2, at2)
  BY DEF WorkTrue, MovedOn
<1>4. StageTrue(ats[w], r, cr, vs) /\ ats[w].todo = {}
  BY <1>0 DEF ItemTrue, StageTrue
<1>5. ShapeTrue(e, r2, cr)
  <2>1. CASE s = "chunk"
    <3>1. \A t \in Listing(r.pass) : cr[<<e, t[2]>>] = r.pass
      BY <1>0, <1>4, <2>1 DEF StageTrue
    <3> QED
      BY <1>0, <2>1, <3>1 DEF ShapeTrue
  <2>2. CASE s # "chunk"
    BY <2>2 DEF ItemTrue, ShapeTrue
  <2> QED
    BY <2>1, <2>2
<1>6. jb[<<e, s, r.pass>>].state # "absent"
  OBVIOUS
<1>7. s # "chunk" => NextFor(s, Media[e]) # "embed"
  BY NextIs DEF JobStages
<1>8. NextFor(s, Media[e]) \in {"normalize", "transcribe", "chunk"} => s \in {"normalize", "transcribe"}
  BY NextIs DEF JobStages
<1>9. StagesInOrder(e, r2, jb2)
  <2>1. ASSUME r2.chunkPass # r2.pass, jb2[<<e, "embed", r.pass>>].state # "absent",
               NEW q \in {"normalize", "transcribe", "chunk"}, jb2[<<e, q, r.pass>>].state # "absent"
        PROVE  FALSE
    <3>1. s # "chunk" /\ r.chunkPass # r.pass
      BY <2>1
    <3>2. <<e, "embed", r.pass>> \in JobIds /\ <<e, q, r.pass>> \in JobIds
      BY <1>0, <2>1, StageNames DEF JobIds
    <3>3. jb[<<e, "embed", r.pass>>].state # "absent"
      <4>1. CASE <<e, "embed", r.pass>> \in NextJob(e, s, r.pass)
        <5>1. NextFor(s, Media[e]) = "embed"
          BY <4>1, NextJobIs
        <5> QED
          BY <1>7, <3>1, <5>1
      <4> QED
        BY <2>1, <3>2, <4>1
    <3>4. \A z \in {"normalize", "transcribe", "chunk"} : jb[<<e, z, r.pass>>].state = "absent"
      BY <3>1, <3>3 DEF ItemTrue, StagesInOrder
    <3>5. <<e, q, r.pass>> \in NextJob(e, s, r.pass)
      BY <2>1, <3>2, <3>4
    <3>6. NextFor(s, Media[e]) = q
      BY <3>5, NextJobIs
    <3>7. s \in {"normalize", "transcribe"}
      BY <1>8, <2>1, <3>6
    <3> QED
      BY <1>6, <3>4, <3>7
  <2> QED
    BY <2>1 DEF StagesInOrder
<1>10. EmbeddedAll(e, r2, vs)
  <2>1. ASSUME s = "embed", r2.chunkPass = r2.pass, NEW t \in FirstOf(r.pass) PROVE <<e, t[2]>> \in vs
    BY <1>0, <1>4, <2>1 DEF StageTrue
  <2> QED
    BY <2>1 DEF EmbeddedAll
<1>11. ASSUME NEW v \in StageWorkers, at2[v] # Idle, at2[v].job[1] = e PROVE StageTrue(at2[v], r2, cr, vs)
  <2>1. CASE v = w
    BY <2>1 DEF StageTrue
  <2>2. CASE v # w
    <3>1. at2[v] = ats[v] /\ StageTrue(ats[v], r, cr, vs) /\ ats[v].job[3] = r.pass
      BY <1>11, <2>2 DEF ItemTrue, AllAtPass
    <3>2. CASE r2.chunkPass = r.chunkPass
      BY <3>1, <3>2 DEF StageTrue
    <3>3. CASE r2.chunkPass # r.chunkPass
      <4>1. s = "chunk" /\ r.chunkPass # r.pass
        BY <3>3
      <4>2. jb[<<e, "embed", r.pass>>].state = "absent"
        BY <1>6, <4>1 DEF ItemTrue, StagesInOrder
      <4>3. ats[v].job[2] = "embed" => FALSE
        <5>1. jb[ats[v].job].state # "absent"
          BY <1>11, <3>1
        <5>2. CASE ats[v].job[2] = "embed" /\ ats[v].job = <<e, "embed", r.pass>>
          BY <4>2, <5>1, <5>2
        <5>3. ats[v].job = <<ats[v].job[1], ats[v].job[2], ats[v].job[3]>>
          BY <1>11, <3>1 DEF JobIds
        <5> QED
          BY <1>11, <3>1, <5>2, <5>3
      <4> QED
        BY <3>1, <4>3 DEF StageTrue
    <3> QED
      BY <3>2, <3>3
  <2> QED
    BY <2>1, <2>2
<1> QED
  BY <1>1, <1>2, <1>3, <1>5, <1>9, <1>10, <1>11 DEF ItemTrue

(* The commit of the completion, with the job of the next stage.           *)
LEMMA IngestCommit ==
    ASSUME IngestInv, NEW w \in StageWorkers, FinishAppend(w)
    PROVE  IngestInv' /\ PassesGrow
<1> DEFINE a == att[w]
           e == a.job[1]
           s == a.job[2]
           p == a.job[3]
           r == rows[e]
           r2 == Finished(r, s, p, Len(ChunkPlan[p + 1]))
           x == [a EXCEPT !.pc = "done"]
           z == stageRows[e][s]
           z2 == [z EXCEPT !.pass = p, !.state = "done"]
           h2 == [health[s] EXCEPT !.ok = @ + 1]
<1>1. a # Idle /\ a.pc = "commit" /\ UNCHANGED <<chunkRows, vectors, conn, rep, calm>>
  BY DEF FinishAppend, AtPc
<1>2. CASE att' = [att EXCEPT ![w].pc = "failed"] /\ UNCHANGED <<rows, stageRows, health, jobs>>
  BY <1>1, <1>2, IngestCommitFails
<1>3. ASSUME \A k \in a.fresh : Absent(k),
             rows' = [rows EXCEPT ![e] = Finished(@, s, p, Len(ChunkPlan[p + 1]))],
             stageRows' = StageSettled(e, s, p, "done"), health' = CountOk(s),
             jobs' = [j \in JobIds |-> IF j \in a.fresh THEN Enqueued(j)[j] ELSE jobs[j]],
             att' = [att EXCEPT ![w].pc = "done"]
      PROVE  IngestInv' /\ PassesGrow
  <2>1. /\ a \in Attempts /\ AttemptKnown(a, jobs, stageRows) /\ a.job \in JobIds /\ e \in Items
        /\ s \in JobStages /\ p \in Passes /\ r # NoRow /\ r \in EvidenceRows
        /\ calm => ItemTrue(e, r, jobs, att, chunkRows, vectors) /\ p = r.pass
    BY <1>1, AttemptFacts
  <2>2. /\ KnownInv /\ IngestTypeOK /\ att \in [StageWorkers -> Attempts \cup {Idle}]
        /\ jobs \in [JobIds -> JobRows] /\ rows \in [Items -> EvidenceRows \cup Unset]
        /\ stageRows \in [Items -> [JobStages -> StageRowSet \cup Unset]]
        /\ health \in [IngestStages -> HealthRows] /\ \A q \in IngestStages : health[q].dead <= health[q].failed
    BY DEF IngestInv, KnownInv, IngestTypeOK
  <2>3. r2 \in EvidenceRows /\ r2.status = s /\ r2.pass = p /\ r2 # NoRow
        /\ r2.chunkPass = (IF s = "chunk" THEN p ELSE r.chunkPass)
        /\ r2.chunkCount = (IF s = "chunk" THEN Len(ChunkPlan[p + 1]) ELSE r.chunkCount)
    <3>1. Len(ChunkPlan[p + 1]) \in Nat
      BY <2>1, IngestAssumption
    <3> DEFINE count == Len(ChunkPlan[p + 1])
    <3> HIDE DEF count
    <3>2. count \in Nat
      BY <3>1 DEF count
    <3>3. LET q == Finished(r, s, p, count) IN
           /\ q \in EvidenceRows /\ q.status = s /\ q.pass = p
           /\ q.chunkPass = IF s = "chunk" THEN p ELSE r.chunkPass
           /\ q.chunkCount = IF s = "chunk" THEN count ELSE r.chunkCount
      BY <2>1, <3>2, FinishedRow, SMTT(40)
    <3> QED
      BY <3>3, IngestAssumption DEF count
  <2>4. x \in Attempts /\ x.job = a.job /\ x.pc = "done" /\ x.fresh = a.fresh
    BY <2>1 DEF Attempts, AttemptPcs
  <2>5. a.fresh \subseteq JobIds
    BY <2>1 DEF Attempts
  <2> HIDE DEF r2, x
  <2>6. /\ rows' \in [Items -> EvidenceRows \cup Unset] /\ rows'[e] = r2
        /\ \A f \in Items : f # e => rows'[f] = rows[f]
    BY <1>3, <2>1, <2>2, <2>3 DEF r2
  <2>7. /\ att' \in [StageWorkers -> Attempts \cup {Idle}] /\ att'[w] = x
        /\ \A v \in StageWorkers : v # w => att'[v] = att[v]
    <3>1. att' = [att EXCEPT ![w] = x]
      BY <1>3 DEF x
    <3> QED
      BY <2>2, <2>4, <3>1
  <2>8. /\ jobs' \in [JobIds -> JobRows]
        /\ \A k \in a.fresh : jobs'[k].state = "queued"
        /\ \A k \in JobIds : k \notin a.fresh => jobs'[k] = jobs[k]
    <3>1. \A k \in JobIds : Enqueued(k)[k] = [state |-> "queued", attempt |-> 0]
      BY <2>2 DEF Enqueued
    <3>2. [state |-> "queued", attempt |-> 0] \in JobRows
      BY DEF JobRows
    <3> QED
      BY <1>3, <2>2, <2>5, <3>1, <3>2
  <2>9. stageRows' \in [Items -> [JobStages -> StageRowSet \cup Unset]] /\ StageRowsStay
    <3>1. z \in StageRowSet
      BY <1>1, <2>1, <2>2 DEF AttemptKnown, Unset
    <3>2. z2 \in StageRowSet
      BY <2>1, <3>1, ZenonT(40) DEF StageRowSet
    <3>3. stageRows' = [stageRows EXCEPT ![e][s] = z2]
      BY <1>3, <2>1, <2>2, ZenonT(40) DEF StageSettled
    <3> HIDE DEF z2
    <3>4. stageRows' \in [Items -> [JobStages -> StageRowSet \cup Unset]] /\ stageRows'[e][s] = z2
          /\ \A f \in Items, q \in JobStages : ~(f = e /\ q = s) => stageRows'[f][q] = stageRows[f][q]
      BY <2>1, <2>2, <3>2, <3>3
    <3>5. z2 # NoRow
      BY <3>2, IngestAssumption
    <3> QED
      BY <3>4, <3>5 DEF StageRowsStay
  <2>10. health' \in [IngestStages -> HealthRows] /\ \A q \in IngestStages : health'[q].dead <= health'[q].failed
    <3>1. s \in IngestStages
      BY <2>1 DEF JobStages
    <3>2. h2 \in HealthRows /\ h2.dead = health[s].dead /\ h2.failed = health[s].failed
      BY <2>2, <3>1, SMTT(40) DEF HealthRows
    <3>3. health' = [health EXCEPT ![s] = h2]
      BY <1>3 DEF CountOk
    <3> HIDE DEF h2
    <3> QED
      BY <2>2, <3>1, <3>2, <3>3
  <2>11. IngestTypeOK'
    BY <1>1, <2>2, <2>6, <2>9, <2>10 DEF IngestTypeOK
  <2>12. /\ \A k \in JobIds : jobs[k].state # "absent" => jobs'[k].state # "absent"
         /\ \A k \in JobIds : jobs[k].state = "absent" /\ jobs'[k].state # "absent" => k \in a.fresh
    BY <2>8
  <2>13. a.fresh \subseteq NextJob(e, s, p) /\ \A k \in NextJob(e, s, p) : jobs'[k].state # "absent"
    <3>1. NextJob(e, s, p) \subseteq JobIds
      BY <2>1, NextJobIs DEF JobIds
    <3> QED
      BY <1>1, <2>1, <2>8, <2>12, <3>1 DEF AttemptKnown
  <2>14. AttemptKnown(x, jobs', stageRows')
    BY <1>1, <2>1, <2>4, <2>9, <2>12 DEF AttemptKnown, StageRowsStay
  <2>15. KnownInv'
    <3>1. ASSUME NEW k \in JobIds, jobs'[k].state # "absent" PROVE rows'[k[1]] # NoRow
      <4>1. k[1] \in Items
        BY DEF JobIds
      <4>2. CASE k[1] = e
        BY <2>3, <2>6, <4>2
      <4>3. CASE k[1] # e
        <5>1. k \notin a.fresh
          <6>1. \A y \in a.fresh : y[1] = e
            BY <2>13, NextJobIs
          <6> QED
            BY <4>3, <6>1
        <5> QED
          BY <2>2, <2>6, <2>8, <3>1, <4>1, <4>3, <5>1 DEF KnownInv
      <4> QED
        BY <4>2, <4>3
    <3>2. conn' \in [Connectors -> Items \cup {Idle}] /\ rep' \in [Requesters -> Rewinds \cup {Idle}]
      BY <1>1, <2>2 DEF KnownInv
    <3>3. \A f \in Items : rows[f] # NoRow => rows'[f] # NoRow
      BY <2>3, <2>6
    <3>4. \A v \in StageWorkers : att'[v] = att[v] \/ AttemptKnown(att'[v], jobs', stageRows')
      BY <2>7, <2>14
    <3> QED
      BY <1>1, <2>2, <2>7, <2>8, <2>9, <2>11, <2>12, <3>1, <3>2, <3>3, <3>4, KnownMoves
  <2>16. ASSUME calm, NEW f \in Items, rows'[f] # NoRow
         PROVE  ItemTrue(f, rows'[f], jobs', att', chunkRows', vectors')
    <3>1. CASE f = e
      <4>1. ItemTrue(e, r, jobs, att, chunkRows, vectors) /\ p = r.pass
        BY <2>1, <2>16
      <4>2. a.job = <<e, s, r.pass>>
        BY <2>1, <4>1 DEF JobIds
      <4>3. \A v \in StageWorkers : att[v] # Idle => att[v].job \in JobIds /\ jobs[att[v].job].state # "absent"
        BY AttemptFacts DEF AttemptKnown
      <4>4. /\ att'[w].pc = "done" /\ \A v \in StageWorkers : att'[v] = att[v] \/ v = w
            /\ \A v \in StageWorkers : att'[v] # Idle => att[v] # Idle /\ att'[v].job = att[v].job
        BY <1>1, <2>4, <2>7
      <4>5. \A k \in JobIds : jobs[k].state = "absent" /\ jobs'[k].state # "absent" => k \in NextJob(e, s, p)
        BY <2>12, <2>13
      <4> HIDE DEF r
      <4>6. ItemTrue(e, r2, jobs', att', chunkRows, vectors)
        BY <1>1, <2>1, <2>3, <2>12, <2>13, <4>1, <4>2, <4>3, <4>4, <4>5, ItemFinishes
      <4> QED
        BY <1>1, <2>6, <3>1, <4>6
    <3>2. CASE f # e
      <4>1. \A q \in JobStages, n \in Passes : jobs'[<<f, q, n>>] = jobs[<<f, q, n>>]
        <5>1. \A y \in a.fresh : y[1] = e
          BY <2>13, NextJobIs
        <5>2. ASSUME NEW q \in JobStages, NEW n \in Passes PROVE <<f, q, n>> \in JobIds /\ <<f, q, n>> \notin a.fresh
          BY <3>2, <5>1 DEF JobIds
        <5> QED
          BY <2>8, <5>2
      <4>2. \A v \in StageWorkers : att'[v] = att[v] \/ (att'[v] # Idle /\ att'[v].job[1] # f)
        <5>1. x # Idle
          BY <2>4, IngestAssumption
        <5> QED
          BY <2>4, <2>7, <3>2, <5>1
      <4> QED
        BY <1>1, <2>6, <2>16, <3>2, <4>1, <4>2, OtherItem
    <3> QED
      BY <3>1, <3>2
  <2>17. PassesGrow
    <3>1. \A f \in Items : rows[f] # NoRow => rows[f].pass \in Nat
      BY RowType DEF Passes
    <3> QED
      BY <2>1, <2>3, <2>6, <3>1 DEF PassesGrow
  <2> QED
    BY <1>1, <2>15, <2>16, <2>17 DEF IngestInv
<1> QED
  BY <1>2, <1>3 DEF FinishAppend

(* A submission: the row of the item and its first job.                      *)
LEMMA IngestSubmit ==
    ASSUME IngestInv, NEW c \in Connectors, SubmitAppend(c)
    PROVE  IngestInv' /\ PassesGrow
<1> DEFINE e == conn[c]
           first == NextJob(e, "raw", 0)
           h2 == [health["raw"] EXCEPT !.ok = @ + 1]
<1>1. e # Idle /\ conn' = [conn EXCEPT ![c] = Idle] /\ UNCHANGED <<stageRows, chunkRows, vectors, att, rep, calm>>
  BY DEF SubmitAppend
<1>2. /\ KnownInv /\ IngestTypeOK /\ att \in [StageWorkers -> Attempts \cup {Idle}]
      /\ jobs \in [JobIds -> JobRows] /\ rows \in [Items -> EvidenceRows \cup Unset]
      /\ conn \in [Connectors -> Items \cup {Idle}] /\ rep \in [Requesters -> Rewinds \cup {Idle}]
      /\ health \in [IngestStages -> HealthRows] /\ \A q \in IngestStages : health[q].dead <= health[q].failed
  BY DEF IngestInv, KnownInv, IngestTypeOK
<1>3. e \in Items /\ conn' \in [Connectors -> Items \cup {Idle}]
  BY <1>1, <1>2
<1>4. CASE UNCHANGED <<rows, health, jobs>>
  <2>1. IngestTypeOK' /\ StageRowsStay
    BY <1>1, <1>2, <1>4 DEF IngestTypeOK, StageRowsStay
  <2>2. KnownInv'
    BY <1>1, <1>2, <1>3, <1>4, <2>1, KnownMoves DEF KnownInv
  <2>3. PassesGrow
    BY <1>4, RowType DEF PassesGrow, Passes
  <2> QED
    BY <1>1, <1>4, <2>2, <2>3 DEF IngestInv
<1>5. ASSUME rows[e] = NoRow, rows' = [rows EXCEPT ![e] = Added], health' = CountOk("raw"),
             jobs' = [j \in JobIds |-> IF j \in first THEN Enqueued(j)[j] ELSE jobs[j]]
      PROVE  IngestInv' /\ PassesGrow
  <2>1. /\ Added \in EvidenceRows /\ Added.status = "raw" /\ Added.pass = 0
        /\ Added.chunkPass = NoRow
    BY StageNames, IngestAssumption DEF Added, EvidenceRows, Statuses, Unset, Passes
  <2>2. Added # NoRow /\ 0 \in Passes
    BY <2>1, IngestAssumption DEF Passes
  <2>3. /\ rows' \in [Items -> EvidenceRows \cup Unset] /\ rows'[e] = Added
        /\ \A f \in Items : f # e => rows'[f] = rows[f]
    BY <1>2, <1>3, <1>5, <2>1
  <2>4. first \subseteq JobIds /\ \A k \in first : k[1] = e /\ k[3] = 0 /\ k[2] = NextFor("raw", Media[e])
    BY <1>3, <2>2, NextJobIs DEF JobIds
  <2> HIDE DEF first
  <2>5. /\ jobs' \in [JobIds -> JobRows]
        /\ \A k \in first : jobs'[k].state = "queued"
        /\ \A k \in JobIds : k \notin first => jobs'[k] = jobs[k]
    <3>1. \A k \in JobIds : Enqueued(k)[k] = [state |-> "queued", attempt |-> 0]
      BY <1>2 DEF Enqueued
    <3>2. [state |-> "queued", attempt |-> 0] \in JobRows
      BY DEF JobRows
    <3> QED
      BY <1>2, <1>5, <2>4, <3>1, <3>2
  <2>6. /\ \A k \in JobIds : k[1] = e => jobs[k].state = "absent"
        /\ \A v \in StageWorkers : att[v] # Idle => att[v].job[1] # e
    <3>1. \A k \in JobIds : k[1] = e => jobs[k].state = "absent"
      BY <1>2, <1>5 DEF KnownInv
    <3> QED
      BY <1>5, <3>1, AttemptFacts
  <2>7. health' \in [IngestStages -> HealthRows] /\ \A q \in IngestStages : health'[q].dead <= health'[q].failed
    <3>1. "raw" \in IngestStages
      BY StageNames
    <3>2. h2 \in HealthRows /\ h2.dead = health["raw"].dead /\ h2.failed = health["raw"].failed
      BY <1>2, <3>1 DEF HealthRows
    <3>3. health' = [health EXCEPT !["raw"] = h2]
      BY <1>5 DEF CountOk
    <3> HIDE DEF h2
    <3> QED
      BY <1>2, <3>1, <3>2, <3>3
  <2>8. IngestTypeOK' /\ StageRowsStay
    BY <1>1, <1>2, <2>3, <2>7 DEF IngestTypeOK, StageRowsStay
  <2>9. KnownInv'
    <3>1. \A k \in JobIds : jobs[k].state # "absent" => jobs'[k].state # "absent"
      BY <2>5
    <3>2. ASSUME NEW k \in JobIds, jobs'[k].state # "absent" PROVE rows'[k[1]] # NoRow
      <4>1. k[1] \in Items
        BY DEF JobIds
      <4>2. CASE k[1] = e
        BY <2>2, <2>3, <4>2
      <4>3. CASE k[1] # e
        BY <1>2, <2>3, <2>4, <2>5, <3>2, <4>1, <4>3 DEF KnownInv
      <4> QED
        BY <4>2, <4>3
    <3>3. \A f \in Items : rows[f] # NoRow => rows'[f] # NoRow
      BY <2>2, <2>3
    <3> QED
      BY <1>1, <1>2, <1>3, <2>5, <2>8, <3>1, <3>2, <3>3, KnownMoves
  <2>10. ASSUME calm, NEW f \in Items, rows'[f] # NoRow
         PROVE  ItemTrue(f, rows'[f], jobs', att', chunkRows', vectors')
    <3>1. CASE f = e
      <4> DEFINE r == Added
      <4>0. r.status = "raw" /\ r.pass = 0 /\ r.chunkPass = NoRow
        BY <2>1
      <4> HIDE DEF r
      <4>1. ASSUME NEW s \in JobStages, NEW p \in Passes, jobs'[<<e, s, p>>].state # "absent"
            PROVE  p = 0 /\ s = NextFor("raw", Media[e])
        <5>1. <<e, s, p>> \in JobIds
          BY <1>3, <4>1 DEF JobIds
        <5>2. <<e, s, p>> \in first
          BY <2>5, <2>6, <4>1, <5>1
        <5> QED
          BY <2>4, <5>2
      <4>2. NoneAhead(e, r, jobs')
        BY <4>0, <4>1 DEF NoneAhead, Passes
      <4>3. AllAtPass(e, r, att')
        BY <1>1, <2>6 DEF AllAtPass
      <4>4. WorkTrue(e, r, jobs', att')
        BY <2>5, <4>0 DEF WorkTrue, MovedOn, first
      <4>5. r.chunkPass # r.pass
        BY <2>2, <4>0, IngestAssumption
      <4>6. ShapeTrue(e, r, chunkRows') /\ EmbeddedAll(e, r, vectors')
        BY <4>0, <4>5 DEF ShapeTrue, EmbeddedAll
      <4>7. NextFor("raw", Media[e]) # "embed"
        BY NextIs, StageNames
      <4>8. StagesInOrder(e, r, jobs')
        BY <2>2, <4>0, <4>1, <4>7, StageNames DEF StagesInOrder
      <4>9. ItemTrue(e, r, jobs', att', chunkRows', vectors')
        BY <1>1, <2>6, <4>2, <4>3, <4>4, <4>6, <4>8 DEF ItemTrue
      <4> QED
        BY <2>3, <3>1, <4>9 DEF r
    <3>2. CASE f # e
      <4>1. ASSUME NEW q \in JobStages, NEW n \in Passes PROVE jobs'[<<f, q, n>>] = jobs[<<f, q, n>>]
        <5>1. <<f, q, n>> \in JobIds /\ <<f, q, n>> \notin first
          BY <2>4, <3>2 DEF JobIds
        <5> QED
          BY <2>5, <5>1
      <4> QED
        BY <1>1, <2>3, <2>10, <3>2, <4>1, OtherItem
    <3> QED
      BY <3>1, <3>2
  <2>11. PassesGrow
    <3>1. \A f \in Items : rows[f] # NoRow => rows[f].pass \in Nat
      BY RowType DEF Passes
    <3> QED
      BY <1>5, <2>3, <3>1 DEF PassesGrow
  <2> QED
    BY <1>1, <2>9, <2>10, <2>11 DEF IngestInv
<1> QED
  BY <1>4, <1>5 DEF SubmitAppend

(* A rewind of one item: the next pass, and the job that redoes the work.    *)
LEMMA IngestRewind ==
    ASSUME IngestInv, NEW q \in Requesters, ReprocessOne(q)
    PROVE  IngestInv' /\ PassesGrow
<1> DEFINE from == rep[q].from
<1>1. PICK t \in rep[q].todo :
          /\ calm => rows[t[1]].pass = t[2] /\ ~InFlight(t[1])
          /\ rows' = [rows EXCEPT ![t[1]].pass = t[2] + 1]
          /\ jobs' = IF Absent(<<t[1], from, t[2] + 1>>) THEN Enqueued(<<t[1], from, t[2] + 1>>) ELSE jobs
          /\ rep' = [rep EXCEPT ![q] = IF rep[q].todo = {t} THEN Idle ELSE [rep[q] EXCEPT !.todo = @ \ {t}]]
  BY DEF ReprocessOne
<1>2. rep[q] # Idle /\ UNCHANGED <<stageRows, chunkRows, vectors, health, att, conn, calm>>
  BY DEF ReprocessOne
<1>3. /\ KnownInv /\ IngestTypeOK /\ att \in [StageWorkers -> Attempts \cup {Idle}]
      /\ jobs \in [JobIds -> JobRows] /\ rows \in [Items -> EvidenceRows \cup Unset]
      /\ conn \in [Connectors -> Items \cup {Idle}] /\ rep \in [Requesters -> Rewinds \cup {Idle}]
      /\ rep[q] \in Rewinds /\ RewindKnown(rep[q], rows)
  BY <1>2 DEF IngestInv, KnownInv, IngestTypeOK
<1> DEFINE e == t[1]
           n == t[2] + 1
           job == <<e, from, n>>
           r == rows[e]
           r2 == [r EXCEPT !.pass = n]
           y == IF rep[q].todo = {t} THEN Idle ELSE [rep[q] EXCEPT !.todo = @ \ {t}]
<1>4. /\ e \in Items /\ t[2] \in Passes /\ from \in JobStages /\ n \in Passes /\ n \in Nat /\ n > t[2] /\ n - 1 = t[2]
      /\ r # NoRow /\ r \in EvidenceRows
  <2>1. t \in Items \X Passes /\ from \in JobStages /\ rows[t[1]] # NoRow /\ t[2] < MaxPass
    BY <1>1, <1>2, <1>3 DEF Rewinds, RewindKnown
  <2>2. n \in Passes /\ n \in Nat /\ n > t[2] /\ n - 1 = t[2]
    BY <2>1, IngestAssumption DEF Passes
  <2> QED
    BY <1>3, <2>1, <2>2 DEF Unset
<1> HIDE DEF n
<1>5. /\ r2 \in EvidenceRows /\ r2.pass = n /\ r2.status = r.status /\ r2.chunkPass = r.chunkPass
      /\ r2 # NoRow
  <2>1. r2 \in EvidenceRows /\ r2.pass = n /\ r2.status = r.status /\ r2.chunkPass = r.chunkPass
    BY <1>4 DEF EvidenceRows
  <2> QED
    BY <2>1, IngestAssumption
<1>6. y \in Rewinds \cup {Idle} /\ (y # Idle => y.todo \subseteq rep[q].todo)
  <2> DEFINE d == rep[q].todo \ {t}
  <2>1. d \subseteq Items \X Passes /\ d \subseteq rep[q].todo
    BY <1>3 DEF Rewinds
  <2>2. y = IF rep[q].todo = {t} THEN Idle ELSE [rep[q] EXCEPT !.todo = d]
    OBVIOUS
  <2> HIDE DEF d, y
  <2> QED
    BY <1>3, <2>1, <2>2 DEF Rewinds
<1> HIDE DEF r2, y
<1>7. /\ rows' \in [Items -> EvidenceRows \cup Unset] /\ rows'[e] = r2
      /\ \A f \in Items : f # e => rows'[f] = rows[f]
  <2>1. rows' = [rows EXCEPT ![e] = r2]
    BY <1>1 DEF r2, n
  <2> QED
    BY <1>3, <1>4, <1>5, <2>1
<1>8. job \in JobIds
  BY <1>4 DEF JobIds
<1>9. /\ jobs' \in [JobIds -> JobRows] /\ jobs'[job].state # "absent"
      /\ jobs[job].state = "absent" => jobs'[job].state = "queued"
      /\ \A k \in JobIds : k # job => jobs'[k] = jobs[k]
  <2>1. Enqueued(job) = [jobs EXCEPT ![job] = [state |-> "queued", attempt |-> 0]]
    BY DEF Enqueued
  <2>2. [state |-> "queued", attempt |-> 0] \in JobRows
    BY DEF JobRows
  <2>3. jobs' = IF jobs[job].state = "absent" THEN Enqueued(job) ELSE jobs
    BY <1>1 DEF Absent, n
  <2> HIDE DEF job
  <2> QED
    BY <1>3, <1>8, <2>1, <2>2, <2>3
<1>10. KnownInv'
  <2>1. IngestTypeOK' /\ StageRowsStay
    BY <1>2, <1>3, <1>7 DEF IngestTypeOK, StageRowsStay
  <2>2. /\ rep' \in [Requesters -> Rewinds \cup {Idle}] /\ rep'[q] = y
        /\ \A v \in Requesters : v # q => rep'[v] = rep[v]
    <3>1. rep' = [rep EXCEPT ![q] = y]
      BY <1>1 DEF y
    <3> QED
      BY <1>3, <1>6, <3>1
  <2>3. \A f \in Items : rows[f] # NoRow => rows'[f] # NoRow
    BY <1>5, <1>7
  <2>4. RewindKnown(y, rows')
    <3>1. \A u \in rep[q].todo : u[1] \in Items
      BY <1>3 DEF Rewinds
    <3> QED
      BY <1>2, <1>3, <1>6, <2>3, <3>1 DEF RewindKnown
  <2>5. \A k \in JobIds : jobs[k].state # "absent" => jobs'[k].state # "absent"
    BY <1>9
  <2>6. ASSUME NEW k \in JobIds, jobs'[k].state # "absent" PROVE rows'[k[1]] # NoRow
    <3>1. k[1] \in Items
      BY DEF JobIds
    <3>2. CASE k = job
      BY <1>5, <1>7, <3>2
    <3>3. CASE k # job
      BY <1>3, <1>9, <2>3, <2>6, <3>1, <3>3 DEF KnownInv
    <3> QED
      BY <3>2, <3>3
  <2>7. \A v \in Requesters : rep'[v] = rep[v] \/ RewindKnown(rep'[v], rows')
    BY <2>2, <2>4
  <2> QED
    BY <1>2, <1>3, <1>9, <2>1, <2>2, <2>3, <2>5, <2>6, <2>7, KnownMoves
<1>11. ASSUME calm, NEW f \in Items, rows'[f] # NoRow
       PROVE  ItemTrue(f, rows'[f], jobs', att', chunkRows', vectors')
  <2>1. CASE f = e
    <3>1. r.pass = t[2] /\ ItemTrue(e, r, jobs, att, chunkRows, vectors) /\ r.pass \in Nat /\ n > r.pass
          /\ \A v \in StageWorkers : att[v] # Idle => att[v].job[1] # e
      BY <1>1, <1>4, <1>11 DEF IngestInv, InFlight, EvidenceRows, Passes
    <3>2. ASSUME NEW s \in JobStages, NEW p \in Passes, p >= n PROVE jobs[<<e, s, p>>].state = "absent"
      <4>1. p > r.pass
        BY <1>4, <3>1, <3>2 DEF Passes
      <4> QED
        BY <3>1, <4>1 DEF ItemTrue, NoneAhead
    <3>3. ASSUME NEW s \in JobStages, NEW p \in Passes, p >= n, jobs'[<<e, s, p>>].state # "absent"
          PROVE  s = from /\ p = n
      <4>1. <<e, s, p>> \in JobIds
        BY <1>4 DEF JobIds
      <4>2. <<e, s, p>> = job
        BY <1>9, <3>2, <3>3, <4>1
      <4> QED
        BY <4>2
    <3>4. NoneAhead(e, r2, jobs')
      <4>1. ASSUME NEW s \in JobStages, NEW p \in Passes, p > n PROVE jobs'[<<e, s, p>>].state = "absent"
        <5>1. p >= n /\ p # n
          BY <1>4, <4>1 DEF Passes
        <5> QED
          BY <3>3, <5>1
      <4> QED
        BY <1>5, <4>1 DEF NoneAhead
    <3>5. AllAtPass(e, r2, att')
      BY <1>2, <3>1 DEF AllAtPass
    <3>6. WorkTrue(e, r2, jobs', att')
      <4>1. jobs'[<<e, from, n>>].state = "queued"
        BY <1>4, <1>9, <3>2
      <4>2. DueOf(from, e, r2, jobs', att')
        BY <1>2, <1>5, <3>1, <4>1 DEF DueOf
      <4> QED
        BY <1>4, <4>2 DEF WorkTrue
    <3>7. r2.chunkPass # r2.pass /\ (r2.chunkPass # NoRow => r2.chunkPass <= r2.pass)
      <4>1. r.chunkPass = NoRow \/ r.chunkPass \in Passes
        BY <1>4 DEF EvidenceRows, Unset
      <4>2. r.chunkPass # NoRow => r.chunkPass <= r.pass
        BY <3>1 DEF ItemTrue, ShapeTrue
      <4>3. NoRow # n
        BY <1>4, IngestAssumption
      <4> QED
        BY <1>4, <1>5, <3>1, <4>1, <4>2, <4>3 DEF Passes
    <3>8. ShapeTrue(e, r2, chunkRows') /\ EmbeddedAll(e, r2, vectors')
      BY <3>7 DEF ShapeTrue, EmbeddedAll
    <3>9. StagesInOrder(e, r2, jobs')
      <4>1. ASSUME jobs'[<<e, "embed", n>>].state # "absent", NEW s \in {"normalize", "transcribe", "chunk"},
                   jobs'[<<e, s, n>>].state # "absent"
            PROVE  FALSE
        <5>1. "embed" \in JobStages /\ s \in JobStages /\ n >= n
          BY <1>4, StageNames
        <5>2. s = from /\ from = "embed"
          BY <1>4, <3>3, <4>1, <5>1
        <5> QED
          BY <4>1, <5>2
      <4> QED
        BY <1>5, <4>1 DEF StagesInOrder
    <3>10. ItemTrue(e, r2, jobs', att', chunkRows', vectors')
      BY <1>2, <3>1, <3>4, <3>5, <3>6, <3>8, <3>9 DEF ItemTrue
    <3> QED
      BY <1>7, <2>1, <3>10
  <2>2. CASE f # e
    <3>1. ASSUME NEW s \in JobStages, NEW p \in Passes PROVE jobs'[<<f, s, p>>] = jobs[<<f, s, p>>]
      <4>1. <<f, s, p>> \in JobIds /\ <<f, s, p>> # job
        BY <2>2 DEF JobIds
      <4> QED
        BY <1>9, <4>1
    <3> QED
      BY <1>2, <1>7, <1>11, <2>2, <3>1, OtherItem
  <2> QED
    BY <2>1, <2>2
<1>12. PassesGrow
  <2>1. ASSUME NEW f \in Items, rows[f] # NoRow PROVE rows[f].pass \in Nat
    BY <2>1, RowType DEF Passes
  <2>2. calm => r.pass <= n
    BY <1>1, <1>4, <2>1
  <2> QED
    BY <1>5, <1>7, <2>1, <2>2 DEF PassesGrow
<1> QED
  BY <1>2, <1>10, <1>11, <1>12 DEF IngestInv

(* A read: of a connector, or of a requester, whose targets are rows.        *)
LEMMA IngestReads ==
    ASSUME IngestInv,
           \/ \E c \in Connectors, e \in Items : SubmitRead(c, e)
           \/ \E q \in Requesters, from \in RewindTo : ReprocessRead(q, from)
           \/ UNCHANGED ingestVars
    PROVE  IngestInv' /\ PassesGrow
<1>1. UNCHANGED <<evidence, jobs, att, calm>>
  BY DEF SubmitRead, ReprocessRead, ingestVars, evidence
<1>2. UNCHANGED <<rows, stageRows, chunkRows, vectors, health>>
  BY <1>1 DEF evidence
<1>3. /\ KnownInv /\ IngestTypeOK' /\ StageRowsStay
      /\ conn \in [Connectors -> Items \cup {Idle}] /\ rep \in [Requesters -> Rewinds \cup {Idle}]
  BY <1>1, EvidenceStays DEF IngestInv, KnownInv
<1>4. conn' \in [Connectors -> Items \cup {Idle}]
  BY <1>3 DEF SubmitRead, ReprocessRead, ingestVars
<1>5. /\ rep' \in [Requesters -> Rewinds \cup {Idle}]
      /\ \A q \in Requesters : rep'[q] = rep[q] \/ RewindKnown(rep'[q], rows')
  <2>1. ASSUME NEW q \in Requesters, NEW from \in RewindTo, ReprocessRead(q, from)
        PROVE  /\ rep' \in [Requesters -> Rewinds \cup {Idle}]
               /\ \A v \in Requesters : rep'[v] = rep[v] \/ RewindKnown(rep'[v], rows')
    <3> DEFINE targets == {e \in Items : rows[e] # NoRow /\ Reached(rows[e].status, from) /\ rows[e].pass < MaxPass}
               todo == {<<e, rows[e].pass>> : e \in targets}
               y == [from |-> from, todo |-> todo]
    <3>1. rep' = [rep EXCEPT ![q] = y] /\ from # "raw"
      BY <2>1 DEF ReprocessRead
    <3>2. \A u \in todo : u \in Items \X Passes /\ rows[u[1]] # NoRow /\ u[2] < MaxPass
      BY RowType
    <3>3. y \in Rewinds /\ y.todo = todo
      BY <2>1, <3>1, <3>2, IngestAssumption DEF Rewinds, JobStages
    <3> HIDE DEF y, todo
    <3>4. RewindKnown(y, rows')
      BY <1>2, <3>2, <3>3 DEF RewindKnown
    <3> QED
      BY <1>3, <3>1, <3>3, <3>4
  <2>2. CASE rep' = rep
    BY <1>3, <2>2
  <2> QED
    BY <2>1, <2>2 DEF SubmitRead, ingestVars
<1>6. KnownInv'
  <2>1. jobs' \in [JobIds -> JobRows] /\ att' \in [StageWorkers -> Attempts \cup {Idle}]
        /\ \A v \in StageWorkers : att'[v] = att[v]
    BY <1>1, <1>3 DEF KnownInv
  <2>2. \A j \in JobIds : jobs'[j].state # "absent" => rows'[j[1]] # NoRow
    BY <1>1, <1>2, <1>3 DEF KnownInv
  <2> QED
    BY <1>1, <1>2, <1>3, <1>4, <1>5, <2>1, <2>2, KnownMoves
<1>7. PassesGrow
  BY <1>2, RowType DEF PassesGrow, Passes
<1> QED
  BY <1>1, <1>2, <1>6, <1>7 DEF IngestInv

(* Nothing is submitted at first.                                            *)
LEMMA IngestBegins == IngestInit => IngestInv
<1> SUFFICES ASSUME IngestInit PROVE IngestInv
  OBVIOUS
<1>1. IngestTypeOK
  BY DEF IngestInit, IngestTypeOK, Unset, HealthRows
<1>2. jobs \in [JobIds -> JobRows] /\ \A j \in JobIds : jobs[j].state = "absent"
  BY DEF IngestInit, JobRows
<1>3. /\ att \in [StageWorkers -> Attempts \cup {Idle}] /\ rep \in [Requesters -> Rewinds \cup {Idle}]
      /\ conn \in [Connectors -> Items \cup {Idle}] /\ calm \in BOOLEAN
      /\ \A w \in StageWorkers : AttemptKnown(att[w], jobs, stageRows)
      /\ \A q \in Requesters : RewindKnown(rep[q], rows)
      /\ \A e \in Items : rows[e] = NoRow
  BY DEF IngestInit, AttemptKnown, RewindKnown
<1> QED
  BY <1>1, <1>2, <1>3 DEF IngestInv, KnownInv

(* Every step keeps the invariant, and in calm no item falls back.           *)
LEMMA IngestStep == IngestInv /\ [IngestNext]_ingestVars => IngestInv' /\ PassesGrow
<1> SUFFICES ASSUME IngestInv, [IngestNext]_ingestVars PROVE IngestInv' /\ PassesGrow
  OBVIOUS
<1>1. CASE \E c \in Connectors : (\E e \in Items : SubmitRead(c, e)) \/ SubmitAppend(c)
  BY <1>1, IngestReads, IngestSubmit
<1>2. ASSUME NEW w \in StageWorkers, WorkerStep(w) PROVE IngestInv' /\ PassesGrow
  <2>1. ASSUME InputMissing(w) PROVE IngestInv' /\ PassesGrow
    BY <2>1, IngestFails DEF InputMissing, AtPc
  <2> QED
    BY <1>2, <2>1, QuietIngestSteps, IngestStart, IngestBegin, IngestBatch, IngestFinishRead, IngestCommit,
       IngestSettle DEF WorkerStep
<1>3. ASSUME NEW w \in StageWorkers, NEW permanent \in BOOLEAN, StageFails(w, permanent)
      PROVE  IngestInv' /\ PassesGrow
  BY <1>3, IngestFails DEF StageFails, AtPc
<1>4. CASE \E w \in StageWorkers : (\E j \in JobIds : ProjectNotOpen(w, j)) \/ Killed(w)
  BY <1>4, QuietIngestSteps
<1>5. CASE \E j \in JobIds : LeaseExpires(j) \/ LeaseLost(j)
  BY <1>5, QuietIngestSteps
<1>6. CASE \E q \in Requesters : (\E from \in RewindTo : ReprocessRead(q, from)) \/ ReprocessOne(q)
  BY <1>6, IngestReads, IngestRewind
<1>7. CASE UNCHANGED ingestVars
  BY <1>7, IngestReads
<1> QED
  BY <1>1, <1>2, <1>3, <1>4, <1>5, <1>6, <1>7 DEF IngestNext

(* While nobody overlaps anybody, an item always has the work that moves it   *)
(* on, and one that says it is embedded has the rows of all its chunks and a *)
(* vector for each that is listed, however many more it has; the evidence    *)
(* tables are typed in any case.                                             *)
THEOREM PipelineIsSound == IngestSpec => []IngestSound
<1>1. IngestInv => IngestSound
  <2> SUFFICES ASSUME IngestInv PROVE IngestSound
    OBVIOUS
  <2>1. IngestTypeOK
    BY DEF IngestInv, KnownInv
  <2>2. WorkEnqueued
    <3>1. ASSUME calm, NEW e \in Items, rows[e] # NoRow, rows[e].status # "failed"
          PROVE  \/ \A j \in NextJob(e, rows[e].status, rows[e].pass) : ~Absent(j)
                 \/ \E s \in JobStages : jobs[<<e, s, rows[e].pass>>].state \notin {"absent", "done"}
      <4>1. WorkTrue(e, rows[e], jobs, att)
        BY <3>1 DEF IngestInv, ItemTrue
      <4> QED
        BY <3>1, <4>1 DEF WorkTrue, MovedOn, DueOf, Absent
    <3> QED
      BY <3>1 DEF WorkEnqueued
  <2>3. EmbeddedIsComplete
    <3>1. ASSUME calm, NEW e \in Items, rows[e] # NoRow, rows[e].status = "embed", rows[e].chunkPass = rows[e].pass
          PROVE  /\ rows[e].chunkCount = Cardinality(Listing(rows[e].pass))
                 /\ \A t \in Listing(rows[e].pass) : chunkRows[<<e, t[2]>>] = rows[e].pass
                 /\ \A t \in Visible(e) : <<e, t[2]>> \in vectors
      <4>1. rows[e].pass \in Passes /\ ShapeTrue(e, rows[e], chunkRows) /\ EmbeddedAll(e, rows[e], vectors)
        BY <3>1, RowType DEF IngestInv, ItemTrue
      <4>2. Visible(e) = FirstOf(rows[e].pass)
        BY <3>1, <4>1, VisibleFirst
      <4>3. Cardinality(Listing(rows[e].pass)) = Len(ChunkPlan[rows[e].pass + 1])
        BY <4>1, ListingCount
      <4> QED
        BY <3>1, <4>1, <4>2, <4>3 DEF ShapeTrue, EmbeddedAll
    <3> QED
      BY <3>1 DEF EmbeddedIsComplete
  <2> QED
    BY <2>1, <2>2, <2>3 DEF IngestSound
<1>2. IngestInv /\ [IngestNext]_ingestVars => IngestInv'
  BY IngestStep
<1>3. IngestInit => IngestInv
  BY IngestBegins
<1> QED
  BY <1>1, <1>2, <1>3, PTL DEF IngestSpec

(* While nobody overlaps anybody, a job of an older pass never moves an item  *)
(* back.                                                                     *)
THEOREM PassesNeverFall == IngestSpec => CalmPassGrows
<1>1. IngestInv /\ [IngestNext]_ingestVars =>
        [calm => \A e \in Items : rows[e] # NoRow => rows[e].pass <= rows'[e].pass]_ingestVars
  BY IngestStep DEF PassesGrow
<1>2. IngestInv /\ [IngestNext]_ingestVars => IngestInv'
  BY IngestStep
<1>3. IngestInit => IngestInv
  BY IngestBegins
<1> QED
  BY <1>1, <1>2, <1>3, PTL DEF IngestSpec, CalmPassGrows

-----------------------------------------------------------------------------
(* Quotients.                                                                *)

(* Division by a positive divisor.                                           *)
LEMMA Divided ==
    ASSUME NEW a \in Int, NEW d \in Nat, d > 0
    PROVE  /\ a \div d \in Int
           /\ (a \div d) * d <= a
           /\ a < (a \div d) * d + d
  OBVIOUS

(* A product grows with its factor.                                          *)
LEMMA Scaled ==
    ASSUME NEW a \in Int, NEW b \in Int, NEW d \in Nat, a <= b
    PROVE  a * d <= b * d
  OBVIOUS

(* The quotient is the one number between whose multiples the dividend is.   *)
LEMMA QuotientIs ==
    ASSUME NEW a \in Int, NEW q \in Int, NEW d \in Nat, d > 0, q * d <= a, a < q * d + d
    PROVE  a \div d = q
  BY Divided

(* Whole divisors come out of a quotient.                                    *)
LEMMA QuotientShift ==
    ASSUME NEW a \in Int, NEW b \in Int, NEW d \in Nat, d > 0
    PROVE  (b * d + a) \div d = b + a \div d
<1> DEFINE q == a \div d
<1>1. q \in Int /\ q * d <= a /\ a < q * d + d
  BY Divided
<1> HIDE DEF q
<1>2. (b + q) * d = b * d + q * d
  BY <1>1
<1>3. b * d \in Int /\ q * d \in Int
  BY <1>1
<1>4. (b + q) * d <= b * d + a /\ b * d + a < (b + q) * d + d
  BY <1>1, <1>2, <1>3
<1>5. (b * d + a) \div d = b + q
  BY <1>1, <1>3, <1>4, QuotientIs
<1> QED
  BY <1>5 DEF q

-----------------------------------------------------------------------------
(* Transcript: samples and milliseconds.                                     *)

(* ms_for_samples rounds down.                                               *)
LEMMA MsRounds ==
    ASSUME NEW n \in Nat
    PROVE  MsFor(n) \in Nat /\ SamplesFor(MsFor(n)) <= n /\ n < SamplesFor(MsFor(n)) + SamplesPerMs
<1> DEFINE d == SamplesPerMs
           q == n \div d
<1>1. d \in Nat /\ d > 0
  BY TranscriptAssumption
<1> HIDE DEF d
<1>2. q \in Int /\ q * d <= n /\ n < q * d + d
  BY <1>1, Divided
<1>3. q \in Nat
  BY <1>1
<1> QED
  BY <1>2, <1>3 DEF MsFor, SamplesFor, d

(* Whole milliseconds come out of a count of samples.                        *)
LEMMA MsOfSum ==
    ASSUME NEW m \in Int, NEW n \in Int
    PROVE  MsFor(SamplesFor(m) + n) = m + MsFor(n)
<1>1. SamplesPerMs \in Nat /\ SamplesPerMs > 0
  BY TranscriptAssumption
<1>2. (m * SamplesPerMs + n) \div SamplesPerMs = m + n \div SamplesPerMs
  BY <1>1, QuotientShift
<1> QED
  BY <1>2 DEF MsFor, SamplesFor

(* samples_for_ms is a count, is additive, and grows.                        *)
LEMMA SamplesNat ==
    ASSUME NEW m \in Nat
    PROVE  SamplesFor(m) \in Nat
  BY TranscriptAssumption DEF SamplesFor

(* Of a sum.                                                                 *)
LEMMA SamplesAdd ==
    ASSUME NEW m \in Nat, NEW n \in Nat
    PROVE  SamplesFor(m + n) = SamplesFor(m) + SamplesFor(n)
  BY TranscriptAssumption DEF SamplesFor

(* Of more milliseconds.                                                     *)
LEMMA SamplesGrow ==
    ASSUME NEW m \in Nat, NEW n \in Nat, m <= n
    PROVE  SamplesFor(m) <= SamplesFor(n)
<1>1. SamplesPerMs \in Nat
  BY TranscriptAssumption
<1> QED
  BY <1>1, Scaled DEF SamplesFor

(* ms_for_samples grows.                                                     *)
LEMMA MsGrows ==
    ASSUME NEW m \in Nat, NEW n \in Nat, m <= n
    PROVE  MsFor(m) <= MsFor(n)
<1> DEFINE a == MsFor(m)
           b == MsFor(n)
<1>1. /\ a \in Nat /\ SamplesFor(a) <= m
      /\ b \in Nat /\ n < SamplesFor(b) + SamplesPerMs
  BY MsRounds
<1> HIDE DEF a, b
<1>2. SamplesFor(1) = SamplesPerMs /\ SamplesPerMs \in Nat
  BY TranscriptAssumption DEF SamplesFor
<1>3. SamplesFor(b + 1) = SamplesFor(b) + SamplesFor(1) /\ SamplesFor(b) \in Nat /\ SamplesFor(a) \in Nat
  BY <1>1, SamplesAdd, SamplesNat
<1>4. CASE b + 1 <= a
  <2>1. SamplesFor(b + 1) <= SamplesFor(a)
    BY <1>1, <1>4, SamplesGrow
  <2> QED
    BY <1>1, <1>2, <1>3, <2>1
<1>5. CASE a <= b
  BY <1>5 DEF a, b
<1> QED
  BY <1>1, <1>4, <1>5

(* The whole milliseconds of a recording.                                    *)
Ms(r) == MsFor(r.len)

(* The sample f is behind the label s by no more than k parts of a           *)
(* millisecond.                                                              *)
Late(f, s, k) == f <= SamplesFor(s) + k * (SamplesPerMs - 1)

(* A window is dropped: one part more.                                       *)
LEMMA LaterByOne ==
    ASSUME NEW f \in Nat, NEW s \in Nat, NEW k \in Nat, NEW n \in Nat, Late(f, s, k)
    PROVE  Late(f + n, s + MsFor(n), k + 1)
<1> DEFINE p == SamplesPerMs - 1
           m == MsFor(n)
           x == k * p
           u == SamplesFor(s)
           v == SamplesFor(m)
<1>1. p \in Nat /\ SamplesPerMs = p + 1
  BY TranscriptAssumption
<1>2. m \in Nat /\ v <= n /\ n < v + SamplesPerMs
  BY MsRounds
<1> HIDE DEF p, m
<1>3. u \in Nat /\ v \in Nat /\ SamplesFor(s + m) = u + v
  BY <1>2, SamplesAdd, SamplesNat
<1>4. x \in Nat /\ (k + 1) * p = x + p
  BY <1>1
<1>5. f <= u + x
  BY DEF Late, p
<1> HIDE DEF x, u, v
<1>6. f + n <= (u + v) + (x + p)
  BY <1>1, <1>2, <1>3, <1>4, <1>5
<1> QED
  BY <1>3, <1>4, <1>6 DEF Late, p, m

(* As many samples are read as the label counts, or fewer.                   *)
LEMMA NoLater ==
    ASSUME NEW f \in Nat, NEW s \in Nat, NEW k \in Nat, NEW n \in Nat, NEW m \in Nat, n <= SamplesFor(m),
           Late(f, s, k)
    PROVE  Late(f + n, s + m, k)
<1> DEFINE x == k * (SamplesPerMs - 1)
           u == SamplesFor(s)
           v == SamplesFor(m)
<1>1. x \in Int
  BY TranscriptAssumption
<1>2. u \in Nat /\ v \in Nat /\ SamplesFor(s + m) = u + v
  BY SamplesAdd, SamplesNat
<1>3. f <= u + x /\ n <= v
  BY DEF Late
<1> HIDE DEF x, u, v
<1>4. f + n <= (u + v) + x
  BY <1>1, <1>2, <1>3
<1> QED
  BY <1>2, <1>4 DEF Late, x

-----------------------------------------------------------------------------
(* Transcript: the answers of the engine.                                    *)

(* The largest of three numbers.                                             *)
LEMMA OfThree ==
    ASSUME NEW a \in Int, NEW b \in Int, NEW c \in Int
    PROVE  /\ Max({a, b, c}) \in {a, b, c}
           /\ Max({a, b, c}) >= a /\ Max({a, b, c}) >= b /\ Max({a, b, c}) >= c
<1>1. \E x \in {a, b, c} : \A y \in {a, b, c} : x >= y
  OBVIOUS
<1> QED
  BY <1>1, Zenon DEF Max

(* A list of numbers that is not empty has a greatest member.                *)
HasGreatest(n) == \A g \in [1..n -> Nat] : \E i \in 1..n : \A j \in 1..n : g[j] <= g[i]

(* So it has, for every length but zero.                                   *)
LEMMA GreatestOfList ==
    ASSUME NEW m \in Nat \ {0}
    PROVE  HasGreatest(m)
<1> DEFINE S == {n \in Nat : HasGreatest(n + 1)}
<1>1. HasGreatest(0 + 1)
  BY DEF HasGreatest
<1>2. ASSUME NEW n \in Nat, HasGreatest(n + 1) PROVE HasGreatest((n + 1) + 1)
  <2> DEFINE p == n + 1
  <2>1. p \in Nat \ {0} /\ HasGreatest(p)
    BY <1>2
  <2> HIDE DEF p
  <2>2. ASSUME NEW g \in [1..(p + 1) -> Nat]
        PROVE  \E i \in 1..(p + 1) : \A j \in 1..(p + 1) : g[j] <= g[i]
    <3> DEFINE h == [i \in 1..p |-> g[i]]
    <3>0. \A j \in 1..p : j \in 1..(p + 1) /\ g[j] \in Nat
      BY <2>1
    <3>1. h \in [1..p -> Nat] /\ \A j \in 1..p : h[j] = g[j]
      BY <3>0
    <3> HIDE DEF h
    <3>2. PICK i \in 1..p : \A j \in 1..p : h[j] <= h[i]
      BY <2>1, <3>1 DEF HasGreatest
    <3>3. \A j \in 1..p : g[j] <= g[i]
      BY <3>1, <3>2
    <3>4. \A j \in 1..(p + 1) : j \in 1..p \/ j = p + 1
      BY <2>1
    <3>5. /\ i \in 1..(p + 1) /\ p + 1 \in 1..(p + 1)
          /\ g[i] \in Nat /\ g[p + 1] \in Nat
      BY <2>1
    <3>6. CASE g[p + 1] <= g[i]
      BY <3>3, <3>4, <3>5, <3>6
    <3>7. CASE g[i] <= g[p + 1]
      <4>1. ASSUME NEW j \in 1..p PROVE g[j] <= g[p + 1]
        BY <3>0, <3>3, <3>5, <3>7
      <4>2. \A j \in 1..(p + 1) : g[j] <= g[p + 1]
        BY <3>4, <3>5, <4>1
      <4> QED
        BY <3>5, <4>2
    <3> QED
      BY <3>5, <3>6, <3>7
  <2>3. HasGreatest(p + 1)
    BY <2>2 DEF HasGreatest
  <2> QED
    BY <2>3 DEF p
<1>3. 0 \in S /\ \A n \in Nat : n \in S => n + 1 \in S
  BY <1>1, <1>2
<1>4. Nat \subseteq S
  <2> HIDE DEF S
  <2> QED
    BY <1>3, SetInduction
<1>5. m - 1 \in Nat /\ (m - 1) + 1 = m
  OBVIOUS
<1>6. HasGreatest((m - 1) + 1)
  BY <1>4, <1>5
<1> QED
  BY <1>5, <1>6

(* Sequences of intervals: in order, and the times they cover.               *)
InTime(sq) == \A i, j \in 1..Len(sq) : i < j => sq[i].end <= sq[j].start
Covers(s, t) == s.start <= t /\ t < s.end
CoveredAt(sq, t) == \E i \in 1..Len(sq) : Covers(sq[i], t)
WordsOf(r) == 1..Len(r.words)

(* What the engine answers for the window from a to b: intervals in order    *)
(* inside it, complete up to the end of each of them; a word that is left    *)
(* out comes after all of them, and the window's end cuts it off.            *)
Answer(q, r, a, b) ==
    /\ q \in Seq(Segments) /\ InTime(q)
    /\ \A i \in 1..Len(q) : a <= q[i].start /\ q[i].start <= q[i].end /\ q[i].end <= b
    /\ \A k \in WordsOf(r), t \in Nat : a <= t /\ Covers(r.words[k], t) =>
          /\ \A i \in 1..Len(q) : t < q[i].end => \E j \in 1..i : Covers(q[j], t)
          /\ t < b => \/ CoveredAt(q, t)
                      \/ r.words[k].end > b /\ \A i \in 1..Len(q) : q[i].end <= r.words[k].start

(* What a recording is.                                                      *)
LEMMA RecordingType ==
    ASSUME NEW r \in Recordings
    PROVE  /\ r.len \in Nat /\ Ms(r) \in Nat /\ Len(r.words) \in Nat /\ DOMAIN r.words = WordsOf(r)
           /\ \A k \in WordsOf(r) : /\ r.words[k] \in Segments /\ r.words[k].start \in Nat /\ r.words[k].end \in Nat
                                    /\ r.words[k].start < r.words[k].end /\ r.words[k].end <= Ms(r)
           /\ \A i, j \in WordsOf(r) : i < j => r.words[i].end <= r.words[j].start
<1>1. /\ r.len \in Nat /\ r.words \in Seq(Segments)
      /\ \A i \in 1..Len(r.words) : r.words[i].start < r.words[i].end /\ r.words[i].end <= Ms(r)
      /\ \A i, j \in 1..Len(r.words) : i < j => r.words[i].end <= r.words[j].start
  BY TranscriptAssumption DEF Ms, MsFor
<1>2. Len(r.words) \in Nat /\ DOMAIN r.words = 1..Len(r.words) /\ \A k \in 1..Len(r.words) : r.words[k] \in Segments
  BY <1>1
<1>3. Ms(r) \in Nat
  BY <1>1, MsRounds DEF Ms
<1> QED
  BY <1>1, <1>2, <1>3 DEF WordsOf, Segments

(* A clipped word.                                                          *)
LEMMA ClippedWord ==
    ASSUME NEW a \in Nat, NEW b \in Nat, NEW w \in Segments, w.start < w.end, w.end > a, w.start < b, a <= b
    PROVE  LET s == [start |-> Max({a, w.start}), end |-> Min({b, w.end})] IN
           /\ s \in Segments /\ a <= s.start /\ s.start <= s.end /\ s.end <= b
           /\ w.start <= s.start /\ s.end <= w.end
           /\ \A t \in Nat : a <= t /\ t < b /\ Covers(w, t) => Covers(s, t)
<1> DEFINE c == w.start
           d == w.end
           x == Max({a, c})
           y == Min({b, d})
           s == [start |-> x, end |-> y]
<1>1. c \in Nat /\ d \in Nat /\ c < d /\ d > a /\ c < b
  BY DEF Segments
<1> HIDE DEF c, d
<1>a. a \in Int /\ b \in Int /\ c \in Int /\ d \in Int
  BY <1>1
<1>2. x \in Nat /\ x \in {a, c} /\ x >= a /\ x >= c
  BY <1>1, <1>a, OfTwo, Zenon
<1>3. y \in Nat /\ y \in {b, d} /\ y <= b /\ y <= d
  BY <1>1, <1>a, OfTwo, Zenon
<1> HIDE DEF x, y
<1>4. x <= y
  BY <1>1, <1>2, <1>3
<1>5. \A t \in Nat : a <= t /\ t < b /\ c <= t /\ t < d => x <= t /\ t < y
  BY <1>1, <1>2, <1>3
<1>6. s \in Segments /\ s.start = x /\ s.end = y
  BY <1>2, <1>3 DEF Segments
<1> HIDE DEF s
<1>7. /\ s \in Segments /\ a <= s.start /\ s.start <= s.end /\ s.end <= b
      /\ w.start <= s.start /\ s.end <= w.end
      /\ \A t \in Nat : a <= t /\ t < b /\ Covers(w, t) => Covers(s, t)
  BY <1>2, <1>3, <1>4, <1>5, <1>6 DEF Covers, c, d
<1> QED
  BY <1>7 DEF s, x, y, c, d

(* An endpoint without timestamps.                                           *)
LEMMA UntimedAnswer ==
    ASSUME rec \in Recordings, NEW a \in Nat, NEW b \in Nat, a <= b, NEW q \in Untimed(a, b, a, b - a)
    PROVE  Answer(q, rec, a, b)
<1> DEFINE W == rec.words
<1>1. /\ DOMAIN W = WordsOf(rec)
      /\ \A k \in WordsOf(rec) : W[k].start \in Nat /\ W[k].end \in Nat
  BY RecordingType
<1>2. CASE \E i \in DOMAIN W : W[i].start < b /\ W[i].end > a
  <2> DEFINE s == [start |-> a, end |-> b]
  <2>1. q = <<s>>
    BY <1>2 DEF Untimed
  <2>2. s \in Segments /\ s.start = a /\ s.end = b
    BY DEF Segments
  <2> HIDE DEF s
  <2>3. q \in Seq(Segments) /\ Len(q) = 1 /\ q[1] = s
    BY <2>1, <2>2
  <2>4. \A i \in 1..Len(q) : i = 1 /\ q[i].start = a /\ q[i].end = b
    BY <2>2, <2>3
  <2>5. InTime(q)
    BY <2>4 DEF InTime
  <2>6. ASSUME NEW t \in Nat, a <= t, t < b PROVE Covers(q[1], t) /\ CoveredAt(q, t)
    BY <2>2, <2>3, <2>6 DEF Covers, CoveredAt
  <2>7. ASSUME NEW t \in Nat, a <= t, NEW i \in 1..Len(q), t < q[i].end
        PROVE  \E j \in 1..i : Covers(q[j], t)
    BY <2>4, <2>6, <2>7
  <2> QED
    BY <2>3, <2>4, <2>5, <2>6, <2>7 DEF Answer
<1>3. CASE ~ \E i \in DOMAIN W : W[i].start < b /\ W[i].end > a
  <2>1. q = <<>>
    BY <1>3 DEF Untimed
  <2>2. q \in Seq(Segments) /\ 1..Len(q) = {}
    BY <2>1
  <2>3. ASSUME NEW k \in WordsOf(rec), NEW t \in Nat, a <= t, Covers(W[k], t) PROVE ~(t < b)
    BY <1>1, <1>3, <2>3 DEF Covers
  <2> QED
    BY <2>2, <2>3 DEF Answer, InTime
<1> QED
  BY <1>2, <1>3

(* An engine with timestamps.                                                *)
LEMMA HeardAnswer ==
    ASSUME rec \in Recordings, NEW a \in Nat, NEW b \in Nat, a <= b, NEW q \in Heard(a, b)
    PROVE  Answer(q, rec, a, b)
<1> DEFINE W == rec.words
           P == WordsOf(rec)
           N == Len(W)
           clip(w) == [start |-> Max({a, w.start}), end |-> Min({b, w.end})]
<1>1. /\ N \in Nat /\ DOMAIN W = P /\ P = 1..N
      /\ \A k \in P : /\ W[k] \in Segments /\ W[k].start \in Nat /\ W[k].end \in Nat
                      /\ W[k].start < W[k].end
      /\ \A i, j \in P : i < j => W[i].end <= W[j].start
  BY RecordingType DEF WordsOf
<1>2. PICK lo \in 0..N, hi \in 0..N :
        /\ q = [k \in 1..(hi - lo) |-> clip(W[lo + k])]
        /\ \A k \in P : k <= lo <=> W[k].end <= a
        /\ \/ \A k \in P : k <= hi <=> W[k].start < b
           \/ \A k \in P : k <= hi <=> W[k].end <= b
  BY <1>1, Zenon DEF Heard
<1> DEFINE m == hi - lo
<1>3. ASSUME NEW k \in P, k <= lo PROVE k <= hi
  BY <1>1, <1>2, <1>3, SMTT(60)
<1>4. lo \in Nat /\ hi \in Nat /\ m \in Nat /\ m = hi - lo
  <2>1. lo \in P \/ lo = 0
    BY <1>1
  <2>2. lo <= hi
    BY <1>1, <1>3, <2>1
  <2> QED
    BY <1>1, <2>2
<1> HIDE DEF m
<1>5. ASSUME NEW k \in 1..m
      PROVE  /\ lo + k \in P
             /\ W[lo + k].end > a /\ W[lo + k].start < b
  <2>1. lo + k \in P /\ ~(lo + k <= lo) /\ lo + k <= hi
    BY <1>1, <1>4
  <2>2. W[lo + k].end > a
    BY <1>1, <1>2, <2>1, SMTT(60)
  <2>3. W[lo + k].start < b
    BY <1>1, <1>2, <2>1, SMTT(60)
  <2> QED
    BY <2>1, <2>2, <2>3
<1>6. ASSUME NEW k \in 1..m
      PROVE  /\ q[k] = clip(W[lo + k]) /\ q[k] \in Segments
             /\ a <= q[k].start /\ q[k].start <= q[k].end /\ q[k].end <= b
             /\ W[lo + k].start <= q[k].start /\ q[k].end <= W[lo + k].end
             /\ \A t \in Nat : a <= t /\ t < b /\ Covers(W[lo + k], t) => Covers(q[k], t)
  <2>1. q[k] = clip(W[lo + k])
    BY <1>2 DEF m
  <2> DEFINE w == W[lo + k]
  <2>2. w \in Segments /\ w.start < w.end /\ w.end > a /\ w.start < b
    BY <1>1, <1>5
  <2> HIDE DEF w
  <2>3. LET s == clip(w) IN
          /\ s \in Segments /\ a <= s.start /\ s.start <= s.end /\ s.end <= b
          /\ w.start <= s.start /\ s.end <= w.end
          /\ \A t \in Nat : a <= t /\ t < b /\ Covers(w, t) => Covers(s, t)
    BY <2>2, ClippedWord
  <2> HIDE DEF clip
  <2> QED
    BY <2>1, <2>3 DEF w
<1> HIDE DEF clip
<1>7. q \in Seq(Segments) /\ Len(q) = m
  <2>1. q = [k \in 1..m |-> clip(W[lo + k])]
    BY <1>2 DEF m
  <2>2. \A k \in 1..m : clip(W[lo + k]) \in Segments
    BY <1>6
  <2> QED
    BY <1>4, <2>1, <2>2, SMTT(60)
<1>8. InTime(q)
  <2> SUFFICES ASSUME NEW i \in 1..m, NEW j \in 1..m, i < j PROVE q[i].end <= q[j].start
    BY <1>7 DEF InTime
  <2>a. lo + i \in P /\ lo + j \in P
    BY <1>5, Zenon
  <2>b. lo + i < lo + j
    BY <1>4
  <2>1. lo + i \in P /\ lo + j \in P /\ lo + i < lo + j
    BY <2>a, <2>b
  <2>2. W[lo + i].end <= W[lo + j].start /\ W[lo + i].end \in Nat /\ W[lo + j].start \in Nat
    BY <1>1, <2>1
  <2>3. q[i].end <= W[lo + i].end /\ W[lo + j].start <= q[j].start /\ q[i].end \in Nat /\ q[j].start \in Nat
    BY <1>6 DEF Segments
  <2>4. \A x, y, z, u \in Nat : x <= y /\ y <= z /\ z <= u => x <= u
    OBVIOUS
  <2> QED
    BY <2>2, <2>3, <2>4, Zenon
<1>9. ASSUME NEW k \in P, NEW t \in Nat, a <= t, Covers(W[k], t)
      PROVE  /\ \A i \in 1..m : t < q[i].end => \E j \in 1..i : Covers(q[j], t)
             /\ t < b => \/ CoveredAt(q, t)
                         \/ W[k].end > b /\ \A i \in 1..m : q[i].end <= W[k].start
  <2>1. W[k].start <= t /\ t < W[k].end /\ W[k].start \in Nat /\ W[k].end \in Nat
    BY <1>1, <1>9 DEF Covers
  <2>2. ~(k <= lo)
    BY <1>2, <1>9, <2>1, SMTT(60)
  <2> DEFINE n == k - lo
  <2>3. n \in Nat \ {0} /\ lo + n = k /\ (k <= hi => n \in 1..m)
    BY <1>1, <1>4, <2>2
  <2> HIDE DEF n
  <2>4. ASSUME t < b, k <= hi PROVE Covers(q[n], t) /\ n \in 1..m
    BY <1>6, <1>9, <2>3, <2>4
  <2>5. ASSUME NEW i \in 1..m, t < q[i].end PROVE \E j \in 1..i : Covers(q[j], t)
    <3>1. lo + i \in P /\ W[lo + i].end \in Nat /\ q[i].end <= W[lo + i].end /\ q[i].end <= b /\ q[i].end \in Nat
      BY <1>1, <1>5, <1>6 DEF Segments
    <3>a. \A x, y, z, u \in Nat : x <= y /\ y < z /\ z <= u => x < u /\ y < u
      OBVIOUS
    <3>2. t < b /\ W[k].start < W[lo + i].end
      BY <2>1, <2>5, <3>1, <3>a, Zenon
    <3>3. ~(lo + i < k)
      BY <1>1, <2>1, <3>1, <3>2, SMTT(60)
    <3>4. n \in 1..i /\ k <= hi
      BY <1>1, <1>4, <2>3, <3>3 DEF m
    <3> QED
      BY <2>4, <3>2, <3>4
  <2>6. ASSUME t < b, ~(k <= hi) PROVE W[k].end > b /\ \A i \in 1..m : q[i].end <= W[k].start
    <3>1. W[k].start < b
      BY <2>1, <2>6
    <3>2. W[k].end > b
      BY <1>2, <2>1, <2>6, <3>1
    <3>3. ASSUME NEW i \in 1..m PROVE q[i].end <= W[k].start
      <4>1. lo + i \in P /\ lo + i < k
        BY <1>1, <1>4, <1>5, <2>6 DEF m
      <4>2. W[lo + i].end <= W[k].start /\ W[lo + i].end \in Nat
        BY <1>1, <4>1
      <4>3. q[i].end <= W[lo + i].end /\ q[i].end \in Nat
        BY <1>6 DEF Segments
      <4> QED
        BY <2>1, <4>2, <4>3, SMTT(60)
    <3> QED
      BY <3>2, <3>3
  <2>7. t < b => \/ CoveredAt(q, t)
                 \/ W[k].end > b /\ \A i \in 1..m : q[i].end <= W[k].start
    BY <1>7, <2>4, <2>6 DEF CoveredAt
  <2> QED
    BY <2>5, <2>7
<1> QED
  BY <1>6, <1>7, <1>8, <1>9 DEF Answer

(* Intervals in order from s on.                                             *)
Ordered(q, s) ==
    /\ q \in Seq(Segments) /\ InTime(q)
    /\ \A i \in 1..Len(q) : s <= q[i].start /\ q[i].start <= q[i].end

(* Intervals have times.                                                     *)
LEMMA TimesOf ==
    ASSUME NEW q \in Seq(Segments)
    PROVE  Len(q) \in Nat /\ \A i \in 1..Len(q) : q[i] \in Segments /\ q[i].start \in Nat /\ q[i].end \in Nat
<1>1. Len(q) \in Nat /\ \A i \in 1..Len(q) : q[i] \in Segments
  OBVIOUS
<1> QED
  BY <1>1 DEF Segments

(* A last interval that ends later is still the last.                        *)
LEMMA StretchedOrder ==
    ASSUME NEW w, NEW a \in Nat, NEW b \in Nat, NEW e \in Nat, Ordered(w, a)
    PROVE  LET z == Stretched(w, b, e) IN
           /\ Ordered(z, a)
           /\ z = w \/ (z # <<>> /\ Last(z).end = b + e /\ e > 0)
<1> DEFINE z == Stretched(w, b, e)
           n == Len(w)
<1>1. w \in Seq(Segments) /\ InTime(w) /\ \A i \in 1..n : a <= w[i].start /\ w[i].start <= w[i].end
  BY DEF Ordered
<1>2. n \in Nat /\ \A i \in 1..n : w[i] \in Segments /\ w[i].start \in Nat /\ w[i].end \in Nat
  BY <1>1, TimesOf
<1>3. CASE w # <<>> /\ Last(w).end = b
  <2> DEFINE y == [w[n] EXCEPT !.end = @ + e]
             v == [w EXCEPT ![n] = y]
  <2>1. z = v
    BY <1>3 DEF Stretched
  <2>2. n \in 1..n /\ Last(w) = w[n]
    BY <1>1, <1>3 DEF Last
  <2>3. w[n] \in Segments /\ w[n].end = b
    BY <1>2, <1>3, <2>2
  <2>4. y \in Segments /\ y.start = w[n].start /\ y.end = b + e
    BY <2>3 DEF Segments
  <2> HIDE DEF y
  <2>5. v \in Seq(Segments) /\ Len(v) = n /\ v[n] = y /\ \A i \in 1..n : i # n => v[i] = w[i]
    BY <1>1, <2>2, <2>4
  <2> HIDE DEF v
  <2>6. ASSUME NEW i \in 1..n, NEW j \in 1..n, i < j PROVE v[i].end <= v[j].start
    <3>1. i # n /\ w[i].end <= w[j].start /\ v[i] = w[i]
      BY <1>1, <1>2, <2>5, <2>6 DEF InTime
    <3>2. v[j].start = w[j].start
      BY <2>4, <2>5
    <3> QED
      BY <3>1, <3>2
  <2>7. ASSUME NEW i \in 1..n PROVE a <= v[i].start /\ v[i].start <= v[i].end
    <3>1. CASE i = n
      BY <1>1, <1>2, <2>3, <2>4, <2>5, <3>1
    <3>2. CASE i # n
      BY <1>1, <2>5, <3>2
    <3> QED
      BY <3>1, <3>2
  <2>8. Ordered(v, a)
    BY <2>5, <2>6, <2>7 DEF Ordered, InTime
  <2>9. CASE e = 0
    <3>1. y = w[n]
      BY <2>3, <2>9 DEF y, Segments
    <3>2. v = w
      BY <1>1, <2>2, <3>1 DEF v
    <3> QED
      BY <2>1, <2>8, <3>2
  <2>10. CASE e > 0
    <3>1. v # <<>> /\ Last(v) = y
      BY <2>2, <2>5 DEF Last
    <3> QED
      BY <2>1, <2>4, <2>8, <2>10, <3>1
  <2> QED
    BY <2>9, <2>10
<1>4. CASE ~(w # <<>> /\ Last(w).end = b)
  BY <1>4 DEF Stretched
<1> QED
  BY <1>3, <1>4

(* Labels move the times.                                                    *)
LEMMA LabelledOrder ==
    ASSUME NEW w, NEW a \in Nat, NEW s \in Nat, Ordered(w, a)
    PROVE  Ordered(Labelled(w, s - a), s) /\ (s = a => Labelled(w, s - a) = w)
<1> DEFINE n == Len(w)
           d == s - a
           z == Labelled(w, d)
<1>1. w \in Seq(Segments) /\ InTime(w) /\ \A i \in 1..n : a <= w[i].start /\ w[i].start <= w[i].end
  BY DEF Ordered
<1>2. /\ n \in Nat /\ \A i \in 1..n : w[i] \in Segments /\ w[i].start \in Nat /\ w[i].end \in Nat
  BY <1>1, TimesOf
<1>3. z = [k \in 1..n |-> [start |-> w[k].start + d, end |-> w[k].end + d]]
  BY <1>1 DEF Labelled
<1>4. ASSUME NEW i \in 1..n
      PROVE  /\ w[i].start + d \in Nat /\ w[i].end + d \in Nat
             /\ s <= w[i].start + d /\ w[i].start + d <= w[i].end + d
  BY <1>1, <1>2
<1> HIDE DEF z
<1>5. \A i \in 1..n : z[i] = [start |-> w[i].start + d, end |-> w[i].end + d] /\ z[i] \in Segments
  BY <1>3, <1>4 DEF Segments
<1>6. z \in Seq(Segments) /\ Len(z) = n
  <2>1. z = [k \in 1..n |-> z[k]]
    BY <1>3
  <2> QED
    BY <1>2, <1>5, <2>1
<1>0. d \in Int
  OBVIOUS
<1> HIDE DEF d
<1>7. ASSUME NEW i \in 1..n PROVE z[i].start = w[i].start + d /\ z[i].end = w[i].end + d
  <2> DEFINE x == w[i].start + d
             y == w[i].end + d
  <2>1. z[i] = [start |-> x, end |-> y]
    BY <1>5
  <2> HIDE DEF x, y
  <2>2. z[i].start = x /\ z[i].end = y
    BY <2>1
  <2> QED
    BY <2>2 DEF x, y
<1>8. InTime(z)
  <2> SUFFICES ASSUME NEW i \in 1..n, NEW j \in 1..n, i < j PROVE z[i].end <= z[j].start
    BY <1>6 DEF InTime
  <2>1. w[i].end <= w[j].start /\ w[i].end \in Nat /\ w[j].start \in Nat
    BY <1>1, <1>2 DEF InTime
  <2> QED
    BY <1>0, <1>7, <2>1
<1>9. \A i \in 1..n : s <= z[i].start /\ z[i].start <= z[i].end
  BY <1>4, <1>7
<1>10. Ordered(z, s)
  BY <1>6, <1>8, <1>9 DEF Ordered
<1>11. ASSUME s = a PROVE z = w
  <2>1. ASSUME NEW i \in 1..n PROVE z[i] = w[i]
    <3>1. w[i].start + d = w[i].start /\ w[i].end + d = w[i].end
      BY <1>2, <1>11 DEF d
    <3>2. z[i] = [start |-> w[i].start, end |-> w[i].end]
      BY <1>5, <3>1
    <3> QED
      BY <1>2, <3>2 DEF Segments
  <2> QED
    BY <1>1, <1>6, <2>1
<1> QED
  BY <1>10, <1>11 DEF z, d

(* Every answer is in order from the window's label on.  If that is true of  *)
(* the first sample and no segment ends past the window, the answer is what  *)
(* was said.                                                                 *)
LEMMA EngineAnswers ==
    ASSUME rec \in Recordings, NEW r \in AttemptStates, ~OutOfBounds(r.len), NEW q \in Answers(r)
    PROVE  LET ms == MsFor(r.len) IN
           /\ ms \in Nat \ {0} /\ Ordered(q, r.start)
           /\ r.from = SamplesFor(r.start) /\ (q = <<>> \/ Last(q).end - r.start <= ms) =>
                 Answer(q, rec, r.start, r.start + ms)
<1> DEFINE s == r.start
           f == r.from
           l == r.len
           ms == MsFor(l)
           a == MsFor(f + SamplesPerMs - 1)
           b == MsFor(f + l)
<1>1. s \in Nat /\ f \in Nat /\ l \in Nat
  BY DEF AttemptStates
<1>2. ms \in Nat \ {0} /\ SamplesFor(ms) <= l
  <2>1. ~(ms < WindowMin) /\ WindowMin \in Nat \ {0}
    BY TranscriptAssumption DEF OutOfBounds
  <2>2. ms \in Nat /\ SamplesFor(ms) <= l
    BY <1>1, MsRounds
  <2> HIDE DEF ms
  <2> QED
    BY <2>1, <2>2
<1>3. SamplesPerMs \in Nat \ {0} /\ SamplesFor(1) = SamplesPerMs
  BY TranscriptAssumption DEF SamplesFor
<1> DEFINE f1 == f + SamplesPerMs - 1
           f2 == f + l
<1>4. f1 \in Nat /\ f2 \in Nat /\ f1 <= f2
  <2>1. SamplesFor(1) <= SamplesFor(ms) /\ SamplesFor(1) \in Nat /\ SamplesFor(ms) \in Nat
    <3> HIDE DEF ms
    <3> QED
      BY <1>2, SamplesGrow, SamplesNat
  <2> HIDE DEF f, l, ms
  <2> QED
    BY <1>1, <1>2, <1>3, <2>1
<1>5. a \in Nat /\ b \in Nat /\ a <= b
  <2> HIDE DEF f1, f2
  <2>1. MsFor(f1) \in Nat /\ MsFor(f2) \in Nat /\ MsFor(f1) <= MsFor(f2)
    BY <1>4, MsRounds, MsGrows
  <2> QED
    BY <2>1 DEF f1, f2
<1>6. ASSUME f = SamplesFor(s) PROVE a = s /\ b = s + ms
  <2>1. SamplesPerMs - 1 \in Nat /\ SamplesFor(s) \in Nat
    BY <1>1, <1>3, SamplesNat
  <2>2. MsFor(SamplesFor(s) + (SamplesPerMs - 1)) = s + MsFor(SamplesPerMs - 1)
    BY <1>1, <2>1, MsOfSum
  <2>3. MsFor(SamplesPerMs - 1) = 0
    <3>1. SamplesPerMs \in Nat /\ SamplesPerMs > 0 /\ SamplesPerMs - 1 \in Int
      BY <1>3
    <3>2. (SamplesPerMs - 1) \div SamplesPerMs = 0
      BY <3>1, QuotientIs
    <3> QED
      BY <3>2 DEF MsFor
  <2>4. f + SamplesPerMs - 1 = SamplesFor(s) + (SamplesPerMs - 1)
    BY <1>1, <1>3, <1>6
  <2>5. a = s
    BY <1>1, <2>2, <2>3, <2>4
  <2>6. MsFor(SamplesFor(s) + l) = s + ms
    BY <1>1, MsOfSum
  <2> QED
    BY <1>6, <2>5, <2>6
<1>7. \/ q \in Untimed(a, b, s, ms)
      \/ \E w \in Heard(a, b), e \in 0..MaxOverrun : q = Labelled(Stretched(w, b, e), s - a)
  BY DEF Answers
<1> HIDE DEF a, b, s, f, ms, f1, f2
<1>8. CASE q \in Untimed(a, b, s, ms)
  <2>1. Ordered(q, s)
    <3>1. q = <<>> \/ q = <<[start |-> s, end |-> s + ms]>>
      BY <1>8 DEF Untimed
    <3>2. CASE q = <<>>
      <4>1. q \in Seq(Segments) /\ 1..Len(q) = {}
        BY <3>2
      <4> QED
        BY <4>1 DEF Ordered, InTime
    <3>3. CASE q = <<[start |-> s, end |-> s + ms]>>
      <4> DEFINE y == [start |-> s, end |-> s + ms]
      <4>1. y \in Segments /\ y.start = s /\ y.end = s + ms /\ s <= s + ms
        BY <1>1, <1>2 DEF Segments, s
      <4> HIDE DEF y
      <4>2. q \in Seq(Segments) /\ Len(q) = 1 /\ q[1] = y
        BY <3>3, <4>1 DEF y
      <4>3. s <= s
        BY <1>1 DEF s
      <4> QED
        BY <4>1, <4>2, <4>3 DEF Ordered, InTime
    <3> QED
      BY <3>1, <3>2, <3>3
  <2>2. ASSUME f = SamplesFor(s) PROVE Answer(q, rec, s, s + ms)
    <3>1. a = s /\ b = s + ms /\ b - a = ms
      BY <1>1, <1>2, <1>6, <2>2 DEF s
    <3> QED
      BY <1>5, <1>8, <3>1, UntimedAnswer
  <2> QED
    BY <1>2, <2>1, <2>2 DEF s, f, ms, l
<1>9. ASSUME NEW w \in Heard(a, b), NEW e \in 0..MaxOverrun, q = Labelled(Stretched(w, b, e), s - a)
      PROVE  /\ Ordered(q, s)
             /\ f = SamplesFor(s) /\ (q = <<>> \/ Last(q).end - s <= ms) => Answer(q, rec, s, s + ms)
  <2> DEFINE z == Stretched(w, b, e)
  <2>1. Answer(w, rec, a, b)
    BY <1>5, HeardAnswer
  <2>2. Ordered(w, a)
    BY <2>1 DEF Answer, Ordered
  <2>3. e \in Nat
    BY TranscriptAssumption
  <2>4. Ordered(z, a) /\ (z = w \/ (z # <<>> /\ Last(z).end = b + e /\ e > 0))
    BY <1>5, <2>2, <2>3, StretchedOrder
  <2> HIDE DEF z
  <2>5. s \in Nat
    BY <1>1 DEF s
  <2>6. Ordered(q, s) /\ (s = a => q = z)
    BY <1>5, <1>9, <2>4, <2>5, LabelledOrder DEF z
  <2>7. ASSUME f = SamplesFor(s), q = <<>> \/ Last(q).end - s <= ms PROVE Answer(q, rec, s, s + ms)
    <3>1. a = s /\ b = s + ms /\ q = z
      BY <1>6, <2>6, <2>7
    <3>2. ~(z # <<>> /\ Last(z).end = b + e /\ e > 0)
      <4> SUFFICES ASSUME z # <<>>, Last(z).end = b + e, e > 0 PROVE FALSE
        OBVIOUS
      <4>1. (s + ms + e) - s <= ms
        BY <2>7, <3>1
      <4> QED
        BY <1>2, <2>3, <2>5, <4>1
    <3> QED
      BY <2>1, <2>4, <3>1, <3>2
  <2> QED
    BY <2>6, <2>7
<1>10. CASE \E w \in Heard(a, b), e \in 0..MaxOverrun : q = Labelled(Stretched(w, b, e), s - a)
  BY <1>2, <1>9, <1>10 DEF s, f, ms, l
<1> QED
  BY <1>7, <1>8, <1>10

-----------------------------------------------------------------------------
(* Transcript: what an attempt carries.                                      *)

(* The times of the words that last at most the overlap, and those of them   *)
(* before c that neither of two lists covers.                                *)
ShortAt(r, t) ==
    \E k \in WordsOf(r) : r.words[k].end - r.words[k].start <= Overlap /\ Covers(r.words[k], t)
NoneMissing(r, sq, out, c) ==
    \A t \in Nat : ShortAt(r, t) /\ t < c => CoveredAt(sq, t) \/ CoveredAt(out, t)

(* The window is inside the recording and its label not too late, and what   *)
(* the attempt will commit is in order past all it committed.                *)
Placed(x, r) ==
    /\ x.from + x.len <= r.len /\ Late(x.from, x.start, x.skips)
    /\ x.pc = "commit" =>
          /\ InTime(x.out)
          /\ \A i \in 1..Len(x.out) : x.committed <= x.out[i].start /\ x.out[i].start <= x.out[i].end

(* The label is that of the first sample, and all that was said in a window  *)
(* is behind its end.                                                        *)
OnTime(x, r) ==
    /\ x.resume <= x.committed
    /\ x.pc \in {"fill", "call", "commit"} => x.from = SamplesFor(x.start)
    /\ x.pc = "fill" => x.committed <= x.start \/ x.committed = x.resume
    /\ x.pc = "call" => x.committed <= x.start
    /\ x.pc \in {"call", "commit"} => (x.ended => x.from + x.len = r.len)
    /\ x.pc = "commit" =>
          /\ x.advance <= MsFor(x.len) /\ x.committed <= x.start + x.advance
          /\ \A i \in 1..Len(x.out) : x.out[i].end <= x.start + x.advance

(* The words up to where the attempt is are committed, or about to be: all   *)
(* that were heard before any segment that is still to be committed.         *)
WordsKept(x, r, sq) ==
    /\ NoneMissing(r, sq, <<>>, x.committed)
    /\ x.pc \in {"fill", "call"} => NoneMissing(r, sq, <<>>, x.start)
    /\ x.pc = "call" => x.ended \/ 2 * Overlap <= MsFor(x.len)
    /\ x.pc = "commit" =>
          /\ NoneMissing(r, sq, x.out, IF x.ended THEN Ms(r) ELSE x.start + x.advance)
          /\ \A i \in 1..Len(x.out), t \in Nat : ShortAt(r, t) /\ t < x.out[i].end =>
                CoveredAt(sq, t) \/ \E j \in 1..i : Covers(x.out[j], t)
    /\ x.pc = "write" => NoneMissing(r, sq, <<>>, Ms(r))

(* The attempt that runs alone knows what is committed.                      *)
Alone(x, r, sq, cl) ==
    /\ x.next = Len(sq)
    /\ \A i \in 1..Len(sq) : sq[i].end <= x.committed
    /\ Len(x.text) <= Len(sq)
    /\ ~cl => OnTime(x, r) /\ WordsKept(x, r, sq)

(* The rows, complete up to the end of each, and the published text.         *)
RowsTrue(r, sq, bl, cl) ==
    /\ InTime(sq)
    /\ ~cl => \A i \in 1..Len(sq) : NoneMissing(r, sq, <<>>, sq[i].end)
    /\ bl # NoEdit => /\ Len(bl) = Len(sq)
                      /\ ~cl => NoneMissing(r, sq, <<>>, Ms(r))

(* The inductive invariant.                                                  *)
TranscriptInv ==
    /\ rec \in Recordings /\ segs \in Seq(SegmentRows) /\ names \in SpeakerRows
    /\ run \in [Transcribers -> AttemptStates \cup {NoAttempt}]
    /\ solo \in BOOLEAN /\ flawed \in BOOLEAN
    /\ \A a \in Transcribers : run[a] # NoAttempt => Placed(run[a], rec) /\ run[a].next <= Len(segs)
    /\ solo =>
          /\ RowsTrue(rec, segs, blob, flawed)
          /\ \A a \in Transcribers : run[a] # NoAttempt => Alone(run[a], rec, segs, flawed) /\ blob = NoEdit
          /\ \A a, b \in Transcribers : run[a] # NoAttempt /\ run[b] # NoAttempt => a = b

(* read_transcript_progress: the count of the rows and their latest end.     *)
LEMMA ResumesAtTheEnd ==
    ASSUME NEW sq \in Seq(SegmentRows)
    PROVE  LET p == ResumePoint(sq) IN
           /\ p.next = Len(sq) /\ p.next \in Nat /\ p.end \in Nat
           /\ \A i \in 1..Len(sq) : sq[i].end <= p.end
           /\ p.end = 0 \/ \E i \in 1..Len(sq) : p.end = sq[i].end
<1> DEFINE n == Len(sq)
           p == ResumePoint(sq)
           E == {sq[i].end : i \in DOMAIN sq}
<1>0. n \in Nat /\ DOMAIN sq = 1..n /\ \A i \in 1..n : sq[i] \in SegmentRows
  OBVIOUS
<1>1. n \in Nat /\ DOMAIN sq = 1..n /\ \A i \in 1..n : sq[i].end \in Nat
  BY <1>0 DEF SegmentRows
<1>2. CASE sq = <<>>
  <2>1. p.next = 0 /\ p.end = 0 /\ n = 0
    BY <1>2 DEF ResumePoint
  <2> QED
    BY <2>1
<1>3. CASE sq # <<>>
  <2> DEFINE e == Max(E)
  <2>1. n \in Nat \ {0}
    BY <1>1, <1>3
  <2>2. PICK i \in 1..n : \A j \in 1..n : sq[j].end <= sq[i].end
    <3> DEFINE f == [k \in 1..n |-> sq[k].end]
    <3>1. f \in [1..n -> Nat]
      BY <1>1
    <3>2. \E i \in 1..n : \A j \in 1..n : f[j] <= f[i]
      <4> HIDE DEF f, n
      <4> QED
        BY <2>1, <3>1, GreatestOfList DEF HasGreatest
    <3> QED
      BY <3>2
  <2>3. \E x \in E : \A y \in E : x >= y
    BY <1>1, <2>2
  <2>4. e \in E /\ \A y \in E : e >= y
    BY <2>3, Zenon DEF Max
  <2>5. p.next = n /\ p.end = e
    BY <1>3 DEF ResumePoint
  <2> HIDE DEF e, p, n
  <2>6. e \in Nat /\ (\A j \in 1..n : sq[j].end <= e) /\ \E j \in 1..n : e = sq[j].end
    BY <1>1, <2>4
  <2>7. /\ p.next = n /\ p.next \in Nat /\ p.end \in Nat
        /\ \A j \in 1..n : sq[j].end <= p.end
        /\ p.end = 0 \/ \E j \in 1..n : p.end = sq[j].end
    BY <1>1, <2>5, <2>6
  <2> QED
    BY <2>7 DEF p, n
<1> QED
  BY <1>2, <1>3

(* A step that moves one attempt and leaves the rows alone.                  *)
LEMMA OneAttemptSteps ==
    ASSUME TranscriptInv, NEW a \in Transcribers, NEW x \in AttemptStates \cup {NoAttempt},
           run' = [run EXCEPT ![a] = x], UNCHANGED <<rec, segs, names, blob, solo>>,
           flawed' \in BOOLEAN, flawed => flawed',
           x # NoAttempt =>
              /\ Placed(x, rec) /\ x.next <= Len(segs)
              /\ solo => /\ Alone(x, rec, segs, flawed') /\ blob = NoEdit
                         /\ \A b \in Transcribers : run[b] # NoAttempt => b = a,
           x = NoAttempt => run[a] # NoAttempt
    PROVE  TranscriptInv'
<1>1. /\ run' \in [Transcribers -> AttemptStates \cup {NoAttempt}] /\ run'[a] = x
      /\ \A b \in Transcribers : b # a => run'[b] = run[b]
  BY DEF TranscriptInv
<1>2. \A b \in Transcribers : run'[b] # NoAttempt => Placed(run'[b], rec) /\ run'[b].next <= Len(segs)
  <2> SUFFICES ASSUME NEW b \in Transcribers, run'[b] # NoAttempt
               PROVE  Placed(run'[b], rec) /\ run'[b].next <= Len(segs)
    OBVIOUS
  <2>1. CASE b = a
    BY <1>1, <2>1
  <2>2. CASE b # a
    BY <1>1, <2>2, Zenon DEF TranscriptInv
  <2> QED
    BY <2>1, <2>2
<1>3. ASSUME solo
      PROVE  /\ RowsTrue(rec, segs, blob, flawed')
             /\ \A b \in Transcribers : run'[b] # NoAttempt => Alone(run'[b], rec, segs, flawed') /\ blob = NoEdit
             /\ \A b, c \in Transcribers : run'[b] # NoAttempt /\ run'[c] # NoAttempt => b = c
  <2>1. RowsTrue(rec, segs, blob, flawed)
    BY <1>3 DEF TranscriptInv
  <2>2. RowsTrue(rec, segs, blob, flawed')
    BY <2>1 DEF RowsTrue
  <2>3. \A b \in Transcribers : run[b] # NoAttempt => b = a
    BY <1>3 DEF TranscriptInv
  <2>4. \A b \in Transcribers : run'[b] # NoAttempt => b = a
    BY <1>1, <2>3, Zenon
  <2>5. ASSUME NEW b \in Transcribers, run'[b] # NoAttempt PROVE Alone(run'[b], rec, segs, flawed') /\ blob = NoEdit
    <3>1. b = a /\ run'[b] = x
      BY <1>1, <2>4, <2>5
    <3> QED
      BY <1>3, <2>5, <3>1
  <2> QED
    BY <2>2, <2>4, <2>5
<1>4. /\ rec' \in Recordings /\ segs' \in Seq(SegmentRows) /\ names' \in SpeakerRows
      /\ solo' \in BOOLEAN /\ flawed' \in BOOLEAN
      /\ rec' = rec /\ segs' = segs /\ blob' = blob /\ solo' = solo
  BY DEF TranscriptInv
<1>5. \A b \in Transcribers : run'[b] # NoAttempt => Placed(run'[b], rec') /\ run'[b].next <= Len(segs')
  BY <1>2, <1>4
<1>6. solo' =>
        /\ RowsTrue(rec', segs', blob', flawed')
        /\ \A b \in Transcribers : run'[b] # NoAttempt => Alone(run'[b], rec', segs', flawed') /\ blob' = NoEdit
        /\ \A b, c \in Transcribers : run'[b] # NoAttempt /\ run'[c] # NoAttempt => b = c
  BY <1>3, <1>4
<1> QED
  BY <1>1, <1>4, <1>5, <1>6 DEF TranscriptInv

(* What is known of an attempt.                                              *)
LEMMA AttemptIs ==
    ASSUME TranscriptInv, NEW a \in Transcribers, run[a] # NoAttempt
    PROVE  /\ run[a] \in AttemptStates /\ Placed(run[a], rec) /\ run[a].next <= Len(segs)
           /\ rec \in Recordings /\ segs \in Seq(SegmentRows)
           /\ solo => /\ Alone(run[a], rec, segs, flawed) /\ blob = NoEdit /\ RowsTrue(rec, segs, blob, flawed)
                      /\ \A b \in Transcribers : run[b] # NoAttempt => b = a
<1>1. run[a] \in AttemptStates
  BY DEF TranscriptInv
<1>2. Placed(run[a], rec) /\ run[a].next <= Len(segs)
  BY DEF TranscriptInv
<1>3. solo => /\ Alone(run[a], rec, segs, flawed) /\ blob = NoEdit /\ RowsTrue(rec, segs, blob, flawed)
              /\ \A b \in Transcribers : run[b] # NoAttempt => b = a
  BY Zenon DEF TranscriptInv
<1> QED
  BY <1>1, <1>2, <1>3 DEF TranscriptInv

(* An attempt that goes on.                                                  *)
LEMMA RunningSteps ==
    ASSUME TranscriptInv, NEW a \in Transcribers, run[a] # NoAttempt, NEW x \in AttemptStates,
           run' = [run EXCEPT ![a] = x], UNCHANGED <<rec, segs, names, blob, solo>>,
           NEW c \in BOOLEAN, flawed' = c, flawed => c,
           Placed(x, rec), x.next <= Len(segs), solo => Alone(x, rec, segs, c)
    PROVE  TranscriptInv'
<1>1. x # NoAttempt /\ x \in AttemptStates \cup {NoAttempt}
  BY TranscriptAssumption
<1>2. solo => blob = NoEdit /\ \A b \in Transcribers : run[b] # NoAttempt => b = a
  BY AttemptIs
<1> QED
  BY <1>1, <1>2, OneAttemptSteps, Zenon

(* Fewer times, fewer that could be missing.                                 *)
LEMMA MissingBefore ==
    ASSUME NEW r, NEW sq, NEW out, NEW c \in Nat, NEW d \in Nat, d <= c, NoneMissing(r, sq, out, c)
    PROVE  NoneMissing(r, sq, out, d)
BY DEF NoneMissing

(* An empty list covers nothing.                                             *)
LEMMA NothingCovered == \A t : ~CoveredAt(<<>>, t)
BY DEF CoveredAt

(* A new attempt starts at the committed end.                                *)
LEMMA BeginStep ==
    ASSUME TranscriptInv, NEW a \in Transcribers, BeginAttempt(a)
    PROVE  TranscriptInv'
<1> DEFINE p == ResumePoint(segs)
           x == [pc |-> "fill", start |-> 0, len |-> 0, ended |-> FALSE,
                 from |-> 0, skips |-> 0, next |-> p.next, resume |-> p.end, committed |-> p.end,
                 out |-> <<>>, advance |-> 0, text |-> <<>>]
<1>1. /\ run[a] = NoAttempt /\ blob = NoEdit /\ (solo => \A b \in Transcribers : run[b] = NoAttempt)
      /\ run' = [run EXCEPT ![a] = x] /\ UNCHANGED <<rec, segs, names, blob, solo, flawed>>
  BY DEF BeginAttempt, Local
<1>2. rec \in Recordings /\ rec.len \in Nat /\ segs \in Seq(SegmentRows) /\ flawed \in BOOLEAN
      /\ (solo => RowsTrue(rec, segs, blob, flawed))
  BY RecordingType DEF TranscriptInv
<1>3. /\ p.next = Len(segs) /\ p.next \in Nat /\ p.end \in Nat
      /\ \A i \in 1..Len(segs) : segs[i].end <= p.end
      /\ p.end = 0 \/ \E i \in 1..Len(segs) : p.end = segs[i].end
  BY <1>2, ResumesAtTheEnd
<1> HIDE DEF p
<1>4. /\ x \in AttemptStates /\ x.pc = "fill" /\ x.start = 0 /\ x.next = p.next /\ x.resume = p.end
      /\ x.from = 0 /\ x.len = 0 /\ x.skips = 0
      /\ x.committed = p.end /\ x.text = <<>>
  BY <1>3 DEF AttemptStates
<1> HIDE DEF x
<1>a. SamplesFor(0) = 0 /\ Late(0, 0, 0)
  BY TranscriptAssumption DEF SamplesFor, Late
<1>5. Placed(x, rec) /\ x.next <= Len(segs)
  BY <1>2, <1>3, <1>4, <1>a DEF Placed
<1>6. ASSUME solo PROVE Alone(x, rec, segs, flawed)
  <2>1. ASSUME ~flawed PROVE NoneMissing(rec, segs, <<>>, x.committed)
    <3>1. CASE p.end = 0
      BY <1>4, <3>1 DEF NoneMissing
    <3>2. CASE \E i \in 1..Len(segs) : p.end = segs[i].end
      BY <1>2, <1>4, <1>6, <2>1, <3>2 DEF RowsTrue
    <3> QED
      BY <1>3, <3>1, <3>2
  <2>2. NoneMissing(rec, segs, <<>>, x.start)
    BY <1>4 DEF NoneMissing
  <2>3. ~flawed => OnTime(x, rec) /\ WordsKept(x, rec, segs)
    BY <1>3, <1>4, <1>a, <2>1, <2>2 DEF WordsKept, OnTime
  <2>4. Len(x.text) <= Len(segs)
    BY <1>2, <1>4
  <2> QED
    BY <1>3, <1>4, <2>3, <2>4 DEF Alone
<1>7. x # NoAttempt
  BY <1>4, TranscriptAssumption
<1> QED
  BY <1>1, <1>2, <1>4, <1>5, <1>6, <1>7, OneAttemptSteps, Zenon

(* A window is filled.                                                       *)
DroppedTo(r, f, s, k, e, q) ==
    [r EXCEPT !.from = f, !.start = s, !.skips = k, !.len = 0, !.ended = e, !.pc = q]
CutAt(r, f, s, l, e, q) == [r EXCEPT !.from = f, !.start = s, !.len = l, !.ended = e, !.pc = q]

FilledFrom(x, r, f, s, k, l, e, q) ==
    /\ x.from = f /\ x.start = s /\ x.skips = k /\ x.len = l /\ x.ended = e /\ x.pc = q
    /\ x.next = r.next /\ x.resume = r.resume /\ x.committed = r.committed /\ x.text = r.text

(* What an attempt carries after a window that was dropped.                *)
LEMMA DroppedAttempt ==
    ASSUME NEW r \in AttemptStates, NEW f \in Nat, NEW s \in Nat, NEW k \in Nat, NEW e \in BOOLEAN,
           NEW q \in {"fill", "call", "write"}
    PROVE  /\ DroppedTo(r, f, s, k, e, q) \in AttemptStates
           /\ FilledFrom(DroppedTo(r, f, s, k, e, q), r, f, s, k, 0, e, q)
BY DEF AttemptStates, DroppedTo, FilledFrom

(* And with one that was cut.                                              *)
LEMMA CutAttempt ==
    ASSUME NEW r \in AttemptStates, NEW f \in Nat, NEW s \in Nat, NEW l \in Nat, NEW e \in BOOLEAN,
           NEW q \in {"fill", "call", "write"}
    PROVE  /\ CutAt(r, f, s, l, e, q) \in AttemptStates
           /\ FilledFrom(CutAt(r, f, s, l, e, q), r, f, s, r.skips, l, e, q)
BY DEF AttemptStates, CutAt, FilledFrom

(* What is decoded: no more than is left, all of it if it is less than a     *)
(* window, and something if a window is left.                                *)
LEMMA DecodedIs ==
    ASSUME NEW held \in Nat, NEW left \in Nat, held <= left, NEW n \in Decoded(held, left)
    PROVE  LET full == SamplesFor(WindowMs) IN
           /\ n \in Nat /\ n <= left /\ full \in Nat \ {0}
           /\ left < full => n = left
           /\ ~(left < full) => n >= full
<1> DEFINE full == SamplesFor(WindowMs)
           most == full + PacketSamples - 1
<1>1. full \in Nat \ {0} /\ PacketSamples \in Nat \ {0}
  <2>1. WindowMs \in Nat \ {0} /\ PacketSamples \in Nat \ {0} /\ SamplesPerMs \in Nat \ {0}
    BY TranscriptAssumption
  <2>2. SamplesFor(1) = SamplesPerMs
    BY <2>1 DEF SamplesFor
  <2>3. SamplesFor(1) <= SamplesFor(WindowMs) /\ SamplesFor(WindowMs) \in Nat
    BY <2>1, SamplesGrow, SamplesNat
  <2> QED
    BY <2>1, <2>2, <2>3
<1>2. n \in (IF left < full THEN {left} ELSE IF held >= full THEN {held} ELSE full .. Min({left, most}))
  BY DEF Decoded
<1> HIDE DEF full
<1>3. left \in Int /\ most \in Int
  BY <1>1
<1>4. Min({left, most}) \in {left, most} /\ Min({left, most}) <= left
  <2> HIDE DEF most
  <2> QED
    BY <1>3, OfTwo, Zenon
<1>5. Min({left, most}) \in Int
  BY <1>3, <1>4
<1> HIDE DEF most
<1>6. left < full => n = left
  BY <1>2
<1>7. ~(left < full) => n \in Nat /\ n <= left /\ n >= full
  BY <1>1, <1>2, <1>4, <1>5
<1> QED
  BY <1>1, <1>6, <1>7 DEF full

(* A window that is dropped, cut at the resume point, or taken whole.      *)
LEMMA FillStep ==
    ASSUME TranscriptInv, NEW a \in Transcribers, Fill(a)
    PROVE  TranscriptInv'
<1> DEFINE r == run[a]
           left == rec.len - r.from
           full == SamplesFor(WindowMs)
           ended == left < full
           ahead == r.resume - r.start
           cut == Max({0, ahead})
           dropped(n) == flawed \/ (~ended /\ SamplesFor(MsFor(n)) < n)
           short(n) == flawed \/ (~ended /\ MsFor(n) - cut < 2 * Overlap)
<1>1. /\ r # NoAttempt /\ r.pc = "fill"
      /\ UNCHANGED <<rec, segs, names, blob, solo>>
  BY DEF Fill, At
<1>2. /\ r \in AttemptStates /\ Placed(r, rec) /\ r.next <= Len(segs)
      /\ rec \in Recordings /\ segs \in Seq(SegmentRows) /\ flawed \in BOOLEAN
      /\ solo => Alone(r, rec, segs, flawed)
  BY <1>1, AttemptIs DEF TranscriptInv
<1>3. /\ r.start \in Nat /\ r.resume \in Nat /\ r.committed \in Nat /\ rec.len \in Nat
      /\ r.from \in Nat /\ r.len \in Nat /\ r.skips \in Nat
      /\ r.from + r.len <= rec.len /\ Late(r.from, r.start, r.skips)
  BY <1>2, RecordingType DEF AttemptStates, Placed
<1>a. \E n \in Decoded(r.len, left) :
      \/ /\ r.start + MsFor(n) <= r.resume
         /\ run' = [run EXCEPT ![a] = DroppedTo(r, r.from + n, r.start + MsFor(n), r.skips + 1, ended, AfterWindow(ended))]
         /\ flawed' = dropped(n)
      \/ /\ r.start + MsFor(n) > r.resume
         /\ run' = [run EXCEPT ![a] = CutAt(r, r.from + SamplesFor(cut), r.start + cut, n - SamplesFor(cut),
                                            ended, IF n = 0 THEN "write" ELSE "call")]
         /\ flawed' = short(n)
  BY Zenon DEF Fill, Local, DroppedTo, CutAt
<1> HIDE DEF r
<1>4. left \in Nat /\ r.len <= left /\ ahead \in Int /\ Overlap \in Nat
  BY <1>3, TranscriptAssumption
<1>5. cut \in {0, ahead} /\ cut >= 0 /\ cut >= ahead
  <2>1. 0 \in Int
    OBVIOUS
  <2> HIDE DEF ahead
  <2> QED
    BY <1>4, <2>1, OfTwo, Zenon
<1> HIDE DEF cut
<1>6. ASSUME solo, ~flawed
      PROVE  /\ NoneMissing(rec, segs, <<>>, r.committed) /\ NoneMissing(rec, segs, <<>>, r.start)
             /\ r.from = SamplesFor(r.start) /\ r.resume <= r.committed
             /\ r.committed <= r.start \/ r.committed = r.resume
  BY <1>1, <1>2, <1>6 DEF Alone, WordsKept, OnTime
<1>7. ASSUME NEW n \in Decoded(r.len, left)
      PROVE  /\ n \in Nat /\ n <= left /\ (ended => n = left) /\ (n = 0 => ended) /\ ended \in BOOLEAN
             /\ MsFor(n) \in Nat /\ SamplesFor(MsFor(n)) \in Nat /\ SamplesFor(MsFor(n)) <= n
             /\ r.from + n <= rec.len /\ (ended => r.from + n = rec.len)
  <2>1. /\ n \in Nat /\ n <= left /\ full \in Nat \ {0}
        /\ left < full => n = left
        /\ ~(left < full) => n >= full
    <3> HIDE DEF left
    <3> QED
      BY <1>3, <1>4, DecodedIs
  <2>2. /\ MsFor(n) \in Nat /\ SamplesFor(MsFor(n)) \in Nat /\ SamplesFor(MsFor(n)) <= n
    BY <2>1, MsRounds, SamplesNat
  <2> HIDE DEF full
  <2>3. r.from + n <= rec.len /\ (ended => r.from + n = rec.len)
    BY <1>3, <2>1
  <2>4. n = 0 => ended
    <3> HIDE DEF left
    <3> QED
      BY <2>1
  <2> QED
    BY <2>1, <2>2, <2>3, <2>4
<1> HIDE DEF left, full, ended
<1>8. ASSUME NEW n \in Decoded(r.len, left), r.from = SamplesFor(r.start)
      PROVE  Ms(rec) \in Nat /\ (ended => r.start + MsFor(n) = Ms(rec))
  <2>1. MsFor(SamplesFor(r.start) + n) = r.start + MsFor(n)
    BY <1>3, <1>7, MsOfSum
  <2>2. Ms(rec) \in Nat
    BY <1>2, RecordingType
  <2> QED
    BY <1>7, <1>8, <2>1, <2>2 DEF Ms
<1>12. ASSUME NEW n \in Decoded(r.len, left), r.start + MsFor(n) <= r.resume,
              run' = [run EXCEPT ![a] = DroppedTo(r, r.from + n, r.start + MsFor(n), r.skips + 1, ended, AfterWindow(ended))],
              flawed' = dropped(n)
       PROVE  TranscriptInv'
  <2> DEFINE m == MsFor(n)
             s == r.start + m
             f == r.from + n
             k == r.skips + 1
             q == AfterWindow(ended)
             x == DroppedTo(r, f, s, k, ended, q)
             c == dropped(n)
  <2>0. m \in Nat
    BY <1>7
  <2>a. Late(f, s, k)
    BY <1>3, <1>7, LaterByOne
  <2> HIDE DEF m
  <2>1. s \in Nat /\ f \in Nat /\ k \in Nat /\ q \in {"fill", "write"} /\ (q = "write" <=> ended) /\ s <= r.resume /\ f <= rec.len
    BY <1>3, <1>7, <1>12, <2>0 DEF AfterWindow, m
  <2>3. run' = [run EXCEPT ![a] = x] /\ flawed' = c
    BY <1>12 DEF m
  <2>4. c \in BOOLEAN /\ (flawed => c) /\ (~c => ~flawed /\ (ended \/ SamplesFor(m) = n))
    <3>1. ~(SamplesFor(m) < n) => SamplesFor(m) = n
      BY <1>7 DEF m
    <3> QED
      BY <1>2, <1>7, <3>1 DEF m
  <2> HIDE DEF c, f, k, q
  <2>2. /\ x \in AttemptStates /\ x.from = f /\ x.start = s /\ x.skips = k /\ x.len = 0 /\ x.ended = ended /\ x.pc = q
        /\ x.next = r.next /\ x.resume = r.resume /\ x.committed = r.committed /\ x.text = r.text
    <3> HIDE DEF s
    <3>1. r \in AttemptStates /\ f \in Nat /\ s \in Nat /\ k \in Nat /\ ended \in BOOLEAN /\ q \in {"fill", "call", "write"}
      BY <1>2, <1>7, <2>1
    <3>2. x \in AttemptStates /\ FilledFrom(x, r, f, s, k, 0, ended, q)
      BY <3>1, DroppedAttempt, Zenon
    <3> HIDE DEF x
    <3> QED
      BY <3>2, Zenon DEF FilledFrom
  <2> HIDE DEF x
  <2>5. Placed(x, rec)
    <3>1. x.from + x.len <= rec.len
      BY <2>1, <2>2
    <3> QED
      BY <2>1, <2>2, <2>a, <3>1 DEF Placed
  <2>6. ASSUME solo, ~c PROVE OnTime(x, rec) /\ WordsKept(x, rec, segs)
    <3>0. ~flawed /\ (q = "fill" => SamplesFor(m) = n)
      BY <2>1, <2>4, <2>6
    <3>1. /\ NoneMissing(rec, segs, <<>>, r.committed) /\ r.from = SamplesFor(r.start) /\ r.resume <= r.committed
          /\ r.committed <= r.start \/ r.committed = r.resume
      BY <1>6, <2>6, <3>0
    <3>2. s <= r.committed /\ (r.committed <= s \/ r.committed = r.resume)
      BY <1>3, <2>0, <2>1, <3>1
    <3>3. q = "fill" => f = SamplesFor(s)
      <4>1. SamplesFor(r.start + m) = SamplesFor(r.start) + SamplesFor(m)
        BY <1>3, <2>0, SamplesAdd
      <4> QED
        BY <3>0, <3>1, <4>1 DEF f
    <3>4. q = "write" => s = Ms(rec)
      BY <1>8, <2>1, <3>1 DEF m
    <3> HIDE DEF s
    <3>5. NoneMissing(rec, segs, <<>>, s)
      BY <1>3, <2>1, <3>1, <3>2, MissingBefore
    <3>6. OnTime(x, rec)
      BY <2>1, <2>2, <3>1, <3>2, <3>3 DEF OnTime
    <3>7. WordsKept(x, rec, segs)
      BY <2>1, <2>2, <3>1, <3>4, <3>5 DEF WordsKept
    <3> QED
      BY <3>6, <3>7
  <2>7. solo => Alone(x, rec, segs, c)
    BY <1>2, <2>2, <2>6 DEF Alone
  <2>8. x.next <= Len(segs)
    BY <1>2, <2>2
  <2> QED
    BY <1>1, <1>2, <2>2, <2>3, <2>4, <2>5, <2>7, <2>8, RunningSteps DEF r
<1>13. ASSUME NEW n \in Decoded(r.len, left), r.start + MsFor(n) > r.resume,
              run' = [run EXCEPT ![a] = CutAt(r, r.from + SamplesFor(cut), r.start + cut, n - SamplesFor(cut),
                                              ended, IF n = 0 THEN "write" ELSE "call")],
              flawed' = short(n)
       PROVE  TranscriptInv'
  <2> DEFINE m == MsFor(n)
             w == SamplesFor(cut)
             s == r.start + cut
             f == r.from + w
             l == n - w
             q == IF n = 0 THEN "write" ELSE "call"
             x == CutAt(r, f, s, l, ended, q)
             c == short(n)
  <2>0. m \in Nat /\ n \in Nat
    BY <1>7
  <2>1. cut \in Nat /\ cut <= m
    BY <1>3, <1>4, <1>5, <1>13, <2>0
  <2>2. w \in Nat /\ w <= n
    <3>1. SamplesFor(cut) <= SamplesFor(MsFor(n)) /\ SamplesFor(cut) \in Nat
      BY <2>0, <2>1, SamplesGrow, SamplesNat
    <3>2. SamplesFor(MsFor(n)) <= n /\ SamplesFor(MsFor(n)) \in Nat
      BY <1>7
    <3> QED
      BY <2>0, <3>1, <3>2
  <2>a. Late(f, s, r.skips)
    <3>1. w <= SamplesFor(cut)
      BY <2>2
    <3> HIDE DEF w
    <3> QED
      BY <1>3, <2>1, <2>2, <3>1, NoLater
  <2>b. MsFor(l) = m - cut /\ MsFor(l) \in Nat
    <3>1. l \in Nat /\ SamplesFor(cut) + l = n
      <4> HIDE DEF m
      <4> QED
        BY <2>0, <2>2
    <3> HIDE DEF l
    <3>2. MsFor(SamplesFor(cut) + l) = cut + MsFor(l) /\ MsFor(l) \in Nat
      BY <2>1, <3>1, MsOfSum, MsRounds
    <3>3. m = cut + MsFor(l)
      BY <3>1, <3>2
    <3> HIDE DEF m
    <3> QED
      BY <2>1, <3>2, <3>3
  <2>3. run' = [run EXCEPT ![a] = x] /\ flawed' = c
    BY <1>13
  <2>4. /\ q \in {"call", "write"} /\ c \in BOOLEAN /\ (flawed => c)
        /\ ~c => ~flawed /\ (ended \/ ~(m - cut < 2 * Overlap))
    BY <1>2, <1>7
  <2>5. ~(m - cut < 2 * Overlap) => 2 * Overlap <= MsFor(l)
    <3> HIDE DEF m, l
    <3> QED
      BY <1>4, <2>0, <2>1, <2>b
  <2> HIDE DEF m, c, w
  <2>c. /\ s \in Nat /\ f \in Nat /\ l \in Nat /\ f + l = r.from + n /\ s >= r.resume
        /\ s = r.start \/ s = r.resume
    BY <1>3, <1>4, <1>5, <2>0, <2>1, <2>2
  <2> HIDE DEF s, f, l
  <2>6. /\ x \in AttemptStates /\ x.from = f /\ x.start = s /\ x.skips = r.skips /\ x.len = l /\ x.ended = ended /\ x.pc = q
        /\ x.next = r.next /\ x.resume = r.resume /\ x.committed = r.committed /\ x.text = r.text
    <3>1. r \in AttemptStates /\ f \in Nat /\ s \in Nat /\ r.skips \in Nat /\ l \in Nat /\ ended \in BOOLEAN /\ q \in {"fill", "call", "write"}
      BY <1>2, <1>3, <1>7, <2>c
    <3> HIDE DEF q
    <3>2. x \in AttemptStates /\ FilledFrom(x, r, f, s, r.skips, l, ended, q)
      BY <3>1, CutAttempt, ZenonT(40)
    <3> HIDE DEF x
    <3> QED
      BY <3>2, Zenon DEF FilledFrom
  <2> HIDE DEF x
  <2>7. Placed(x, rec)
    BY <1>7, <2>4, <2>6, <2>a, <2>c DEF Placed
  <2>8. ASSUME solo, ~c PROVE OnTime(x, rec) /\ WordsKept(x, rec, segs)
    <3>1. /\ NoneMissing(rec, segs, <<>>, r.committed) /\ NoneMissing(rec, segs, <<>>, r.start)
          /\ r.from = SamplesFor(r.start) /\ r.resume <= r.committed
          /\ r.committed <= r.start \/ r.committed = r.resume
      BY <1>6, <2>4, <2>8
    <3>2. r.committed <= s
      BY <1>3, <1>5, <2>1, <2>c, <3>1 DEF s
    <3>3. f = SamplesFor(s)
      <4>1. SamplesFor(r.start + cut) = SamplesFor(r.start) + SamplesFor(cut)
        BY <1>3, <2>1, SamplesAdd
      <4> QED
        BY <3>1, <4>1 DEF f, s, w
    <3>4. q = "write" => s = Ms(rec)
      <4> SUFFICES ASSUME n = 0 PROVE s = Ms(rec)
        BY <2>4
      <4>1. ended /\ r.start + m = Ms(rec)
        BY <1>7, <1>8, <3>1 DEF m
      <4>2. MsFor(0) = 0
        <5>1. SamplesPerMs \in Nat \ {0}
          BY TranscriptAssumption
        <5> QED
          BY <5>1 DEF MsFor
      <4>3. m = 0 /\ cut = 0
        BY <2>1, <4>2 DEF m
      <4> QED
        BY <1>3, <4>1, <4>3 DEF s
    <3>5. NoneMissing(rec, segs, <<>>, s)
      <4>1. s = r.start \/ s <= r.committed
        BY <1>3, <2>c, <3>1
      <4> QED
        BY <1>3, <2>c, <3>1, <4>1, MissingBefore
    <3>6. ended => f + l = rec.len
      BY <1>7, <2>c
    <3>7. OnTime(x, rec)
      BY <2>4, <2>6, <3>1, <3>2, <3>3, <3>6 DEF OnTime
    <3>8. WordsKept(x, rec, segs)
      BY <2>4, <2>5, <2>6, <2>8, <3>1, <3>4, <3>5 DEF WordsKept
    <3> QED
      BY <3>7, <3>8
  <2>9. solo => Alone(x, rec, segs, c)
    BY <1>2, <2>6, <2>8 DEF Alone
  <2>10. x.next <= Len(segs)
    BY <1>2, <2>6
  <2> QED
    BY <1>1, <1>2, <2>3, <2>4, <2>6, <2>7, <2>9, <2>10, RunningSteps DEF r
<1> QED
  BY <1>a, <1>12, <1>13

(* How far a window moves the read position: past all that was said, not     *)
(* past its end, and not past a word that the end cuts off if that lasts at  *)
(* most the overlap.                                                         *)
LEMMA AdvancesInside ==
    ASSUME NEW l \in Nat \ {0}, NEW sp \in Nat, sp <= l
    PROVE  /\ Advance(l, sp) \in Nat /\ 1 <= Advance(l, sp) /\ sp <= Advance(l, sp) /\ Advance(l, sp) <= l
           /\ 2 * Overlap <= l => \A from \in Nat, to \in Nat :
                 l < to /\ to - from <= Overlap /\ 0 < Overlap /\ sp <= from => Advance(l, sp) <= from
<1> DEFINE h == l \div 2
           o == l - Overlap
<1>1. h \in Nat /\ 2 * h <= l /\ l <= 2 * h + 1 /\ Overlap \in Nat
  BY TranscriptAssumption
<1> HIDE DEF h
<1>2. o \in Int /\ o <= l /\ 1 \in Int /\ h \in Int /\ sp \in Int
  BY <1>1
<1>3. CASE sp >= h
  <2> DEFINE v == Max({1, sp})
  <2>1. v \in {1, sp} /\ v >= 1 /\ v >= sp
    BY <1>2, OfTwo, Zenon
  <2>2. Advance(l, sp) = v
    BY <1>3 DEF Advance, h
  <2> HIDE DEF v
  <2>3. v \in Nat /\ 1 <= v /\ sp <= v /\ v <= l
    BY <2>1
  <2>4. ASSUME 2 * Overlap <= l, NEW from \in Nat, NEW to \in Nat,
               l < to, to - from <= Overlap, 0 < Overlap, sp <= from
        PROVE  v <= from
    BY <1>1, <2>1, <2>4
  <2> QED
    BY <2>2, <2>3, <2>4
<1>4. CASE ~(sp >= h)
  <2> DEFINE v == Max({1, o, h})
  <2>1. v \in {1, o, h} /\ v >= 1 /\ v >= o /\ v >= h
    <3> HIDE DEF o
    <3> QED
      BY <1>2, OfThree, Zenon
  <2>2. Advance(l, sp) = v
    BY <1>4 DEF Advance, h
  <2> HIDE DEF v
  <2>3. v \in Nat /\ 1 <= v /\ sp <= v /\ v <= l
    BY <1>1, <1>2, <1>4, <2>1
  <2>4. ASSUME 2 * Overlap <= l, NEW from \in Nat, NEW to \in Nat,
               l < to, to - from <= Overlap, 0 < Overlap, sp <= from
        PROVE  v <= from
    BY <1>1, <2>1, <2>4
  <2> QED
    BY <2>2, <2>3, <2>4
<1> QED
  BY <1>3, <1>4

(* The advance is a number of milliseconds, whatever was said.               *)
LEMMA AdvanceType ==
    ASSUME NEW l \in Nat, NEW sp \in Nat
    PROVE  Advance(l, sp) \in Nat
<1> DEFINE h == l \div 2
           o == l - Overlap
<1>1. h \in Int /\ o \in Int /\ 1 \in Int /\ sp \in Int
  BY TranscriptAssumption
<1> HIDE DEF h, o
<1>2. Max({1, sp}) \in {1, sp} /\ Max({1, o, h}) \in {1, o, h} /\ Max({1, o, h}) >= 1
  BY <1>1, OfTwo, OfThree, Zenon
<1>3. Max({1, sp}) \in Nat /\ Max({1, o, h}) \in Nat
  BY <1>1, <1>2
<1>4. Advance(l, sp) = Max({1, sp}) \/ Advance(l, sp) = Max({1, o, h})
  BY Zenon DEF Advance, h, o
<1> QED
  BY <1>3, <1>4

(* What is dropped of an answer that starts at or after the committed end.   *)
LEMMA AllFresh ==
    ASSUME NEW q \in Seq(Segments), NEW c \in Nat, \A i \in 1..Len(q) : c <= q[i].start
    PROVE  Fresh(q, c) = q
<1> DEFINE R == {i \in 1..Len(q) : q[i].start < c}
<1>1. \A i \in 1..Len(q) : q[i].start \in Nat
  <2>1. \A i \in 1..Len(q) : q[i] \in Segments
    OBVIOUS
  <2> QED
    BY <2>1 DEF Segments
<1>2. R = {}
  BY <1>1
<1>3. Cardinality(R) = 0
  BY <1>2, FS_EmptySet
<1>4. Fresh(q, c) = SubSeq(q, 0 + 1, Len(q))
  BY <1>3 DEF Fresh
<1>5. SubSeq(q, 1, Len(q)) = q
  BY SubSeqFull
<1> QED
  BY <1>4, <1>5

(* The first m of a list, and the rest.                                      *)
LEMMA SplitList ==
    ASSUME NEW q \in Seq(Segments), NEW m \in Nat, m <= Len(q)
    PROVE  /\ SubSeq(q, 1, m) \in Seq(Segments) /\ Len(SubSeq(q, 1, m)) = m
           /\ \A i \in 1..m : SubSeq(q, 1, m)[i] = q[i]
           /\ SubSeq(q, m + 1, Len(q)) \in Seq(Segments) /\ Len(SubSeq(q, m + 1, Len(q))) = Len(q) - m
           /\ \A i \in 1..(Len(q) - m) : SubSeq(q, m + 1, Len(q))[i] = q[m + i]
<1> DEFINE n == Len(q)
           u == SubSeq(q, 1, m)
           v == SubSeq(q, m + 1, n)
<1>1. n \in Nat /\ \A i \in 1..n : q[i] \in Segments
  OBVIOUS
<1> HIDE DEF n
<1>2. /\ u \in Seq(Segments)
      /\ Len(u) = IF 1 <= m THEN m - 1 + 1 ELSE 0
      /\ \A i \in 1..(m - 1 + 1) : u[i] = q[1 + i - 1]
  <2>1. \A i \in 1..m : q[i] \in Segments
    BY <1>1 DEF n
  <2> QED
    BY <2>1, SubSeqProperties
<1>3. /\ v \in Seq(Segments)
      /\ Len(v) = IF m + 1 <= n THEN n - (m + 1) + 1 ELSE 0
      /\ \A i \in 1..(n - (m + 1) + 1) : v[i] = q[m + 1 + i - 1]
  <2>1. \A i \in (m + 1)..n : q[i] \in Segments
    BY <1>1
  <2>2. m + 1 \in Int /\ n \in Int
    BY <1>1
  <2> QED
    BY <2>1, <2>2, SubSeqProperties
<1>4. m <= n
  BY DEF n
<1> HIDE DEF u, v
<1>5. Len(u) = m /\ Len(v) = n - m
  BY <1>1, <1>2, <1>3, <1>4
<1>6. \A i \in 1..m : u[i] = q[i]
  BY <1>2
<1>7. \A i \in 1..(n - m) : v[i] = q[m + i]
  BY <1>1, <1>3, <1>4
<1> QED
  BY <1>2, <1>3, <1>5, <1>6, <1>7 DEF n, u, v

(* What is left of an answer: it is in order and past the committed end,     *)
(* wherever the answer begins.                                               *)
LEMMA FreshKept ==
    ASSUME NEW q, NEW s \in Nat, NEW c \in Nat, Ordered(q, s)
    PROVE  Ordered(Fresh(q, c), c)
<1> DEFINE n == Len(q)
           R == {i \in 1..n : q[i].start < c}
           T == (1..n) \ R
<1>1. q \in Seq(Segments) /\ InTime(q) /\ \A i \in 1..n : q[i].start <= q[i].end
  BY DEF Ordered
<1>2. n \in Nat /\ \A i \in 1..n : q[i] \in Segments /\ q[i].start \in Nat /\ q[i].end \in Nat
  BY <1>1, TimesOf
<1> HIDE DEF n
<1>3. ASSUME NEW i \in 1..n, NEW j \in 1..n, i <= j, c <= q[i].start PROVE c <= q[j].start
  <2>1. CASE i = j
    BY <1>3, <2>1
  <2>2. CASE i < j
    <3>1. q[i].start <= q[i].end /\ q[i].end <= q[j].start
      BY <1>1, <2>2 DEF InTime, n
    <3> QED
      BY <1>2, <1>3, <3>1
  <2> QED
    BY <1>3, <2>1, <2>2
<1>4. \E m \in 0..n : R = 1..m /\ \A i \in (m + 1)..n : c <= q[i].start
  <2>1. CASE T = {}
    <3>1. R = 1..n
      BY <2>1
    <3> QED
      BY <1>2, <3>1
  <2>2. CASE T # {}
    <3>1. T \in SUBSET Nat
      BY <1>2
    <3>2. PICK k \in T : \A i \in T : k <= i
      BY <2>2, <3>1, LeastNat
    <3>3. k \in 1..n /\ c <= q[k].start
      BY <1>2
    <3> DEFINE m == k - 1
    <3>4. m \in 0..n /\ k = m + 1
      BY <1>2, <3>3
    <3>5. ASSUME NEW i \in (m + 1)..n PROVE i \in 1..n /\ c <= q[i].start
      <4>1. i \in 1..n /\ k <= i
        BY <1>2, <3>3, <3>4
      <4> QED
        BY <1>3, <3>3, <4>1
    <3>6. ASSUME NEW i \in 1..m PROVE i \in R
      <4>1. i \in 1..n /\ ~(k <= i)
        BY <1>2, <3>3, <3>4
      <4> QED
        BY <3>2, <4>1
    <3>7. ASSUME NEW i \in R PROVE i \in 1..m
      <4>1. i \in 1..n /\ q[i].start < c
        OBVIOUS
      <4>2. ~(c <= q[i].start)
        BY <1>2, <4>1
      <4>3. ~(i \in (m + 1)..n)
        BY <3>5, <4>2
      <4> QED
        BY <1>2, <3>4, <4>1, <4>3
    <3>8. R = 1..m
      BY <3>6, <3>7
    <3> QED
      BY <3>4, <3>5, <3>8
  <2> QED
    BY <2>1, <2>2
<1>5. PICK m \in 0..n : R = 1..m /\ \A i \in (m + 1)..n : c <= q[i].start
  BY <1>4
<1>6. m \in Nat /\ m <= n
  BY <1>2
<1>7. Cardinality(R) = m
  <2>1. Cardinality(1..m) = m
    BY <1>6, FS_Interval
  <2> QED
    BY <1>5, <2>1
<1> DEFINE z == SubSeq(q, m + 1, n)
<1>8. Fresh(q, c) = z
  BY <1>7 DEF Fresh, n
<1>9. z \in Seq(Segments) /\ Len(z) = n - m /\ \A i \in 1..(n - m) : z[i] = q[m + i]
  BY <1>1, <1>6, SplitList DEF n
<1> HIDE DEF z
<1>10. ASSUME NEW i \in 1..(n - m) PROVE m + i \in 1..n /\ m + i \in (m + 1)..n
  BY <1>2, <1>6
<1>11. \A i \in 1..(n - m) : c <= z[i].start /\ z[i].start <= z[i].end
  BY <1>1, <1>5, <1>9, <1>10
<1>12. InTime(z)
  <2> SUFFICES ASSUME NEW i \in 1..(n - m), NEW j \in 1..(n - m), i < j PROVE z[i].end <= z[j].start
    BY <1>9 DEF InTime
  <2>1. m + i \in 1..n /\ m + j \in 1..n /\ m + i < m + j
    BY <1>6, <1>10
  <2>2. q[m + i].end <= q[m + j].start
    BY <1>1, <2>1 DEF InTime, n
  <2> QED
    BY <1>9, <2>2
<1> QED
  BY <1>8, <1>9, <1>11, <1>12 DEF Ordered

(* An attempt is refused for good.                                           *)
LEMMA RefusedStep ==
    ASSUME TranscriptInv, NEW a \in Transcribers, run[a] # NoAttempt,
           Local(a, [run[a] EXCEPT !.pc = "refused"]), UNCHANGED <<rec, segs, names, blob, solo, flawed>>
    PROVE  TranscriptInv'
<1> DEFINE r == run[a]
           x == [r EXCEPT !.pc = "refused"]
<1>1. run' = [run EXCEPT ![a] = x]
  BY DEF Local
<1>2. /\ r \in AttemptStates /\ Placed(r, rec) /\ r.next <= Len(segs) /\ flawed \in BOOLEAN
      /\ solo => Alone(r, rec, segs, flawed)
  BY AttemptIs DEF TranscriptInv
<1> HIDE DEF r
<1>3. /\ x \in AttemptStates /\ x.pc = "refused" /\ x.start = r.start /\ x.resume = r.resume
      /\ x.committed = r.committed /\ x.next = r.next /\ x.text = r.text
      /\ x.from = r.from /\ x.len = r.len /\ x.skips = r.skips
  BY <1>2 DEF AttemptStates
<1> HIDE DEF x
<1>4. Placed(x, rec) /\ x.next <= Len(segs)
  BY <1>2, <1>3 DEF Placed
<1>5. solo => Alone(x, rec, segs, flawed)
  BY <1>2, <1>3 DEF Alone, WordsKept, OnTime
<1> QED
  BY <1>1, <1>2, <1>3, <1>4, <1>5, RunningSteps DEF r

(* The end of what an answer says is the end of all it says.                 *)
LEMMA LastIsLatest ==
    ASSUME NEW q \in Seq(Segments), InTime(q), q # <<>>, \A i \in 1..Len(q) : q[i].start <= q[i].end
    PROVE  /\ Len(q) \in 1..Len(q) /\ Last(q) = q[Len(q)] /\ q[Len(q)].end \in Nat
           /\ \A i \in 1..Len(q) : q[i].end <= q[Len(q)].end
<1> DEFINE n == Len(q)
<1>1. n \in Nat /\ n \in 1..n
  OBVIOUS
<1>2. \A i \in 1..n : q[i] \in Segments
  OBVIOUS
<1>3. \A i \in 1..n : q[i].start \in Nat /\ q[i].end \in Nat
  BY <1>2 DEF Segments
<1>4. ASSUME NEW i \in 1..n PROVE q[i].end <= q[n].end
  <2>1. CASE i = n
    BY <1>3, <2>1
  <2>2. CASE i < n
    <3>1. q[i].end <= q[n].start /\ q[n].start <= q[n].end
      BY <1>1, <2>2 DEF InTime
    <3> QED
      BY <1>1, <1>3, <3>1
  <2> QED
    BY <1>1, <2>1, <2>2
<1>5. Last(q) = q[n]
  BY DEF Last
<1> QED
  BY <1>1, <1>3, <1>4, <1>5

(* What an answer leaves to commit.                                          *)
LEMMA AnswerKept ==
    ASSUME NEW r \in Recordings, NEW sq, NEW q, NEW a \in Nat, NEW l \in Nat \ {0}, NEW sp \in Nat, sp <= l,
           NEW e \in BOOLEAN, Answer(q, r, a, a + l), NoneMissing(r, sq, <<>>, a),
           a + l <= Ms(r), e => a + l = Ms(r), e \/ 2 * Overlap <= l,
           sp = 0 \/ \E i \in 1..Len(q) : a + sp = q[i].end
    PROVE  /\ NoneMissing(r, sq, q, IF e THEN Ms(r) ELSE a + Advance(l, sp))
           /\ \A i \in 1..Len(q), t \in Nat : ShortAt(r, t) /\ t < q[i].end =>
                 CoveredAt(sq, t) \/ \E j \in 1..i : Covers(q[j], t)
<1> DEFINE b == a + l
           v == Advance(l, sp)
           W == r.words
<1>0. /\ b \in Nat /\ Ms(r) \in Nat /\ Overlap \in Nat
      /\ \A k \in WordsOf(r) : W[k].start \in Nat /\ W[k].end \in Nat /\ W[k].start < W[k].end /\ W[k].end <= Ms(r)
  BY RecordingType, TranscriptAssumption
<1>1. /\ v \in Nat /\ v <= l
      /\ 2 * Overlap <= l => \A from \in Nat, to \in Nat :
                 l < to /\ to - from <= Overlap /\ 0 < Overlap /\ sp <= from => v <= from
  BY AdvancesInside
<1> HIDE DEF v
<1>2. ASSUME NEW t \in Nat, t < a, ShortAt(r, t) PROVE CoveredAt(sq, t)
  BY <1>2, NothingCovered DEF NoneMissing
<1>3. ASSUME NEW t \in Nat, ShortAt(r, t), a <= t, t < (IF e THEN Ms(r) ELSE a + v)
      PROVE  CoveredAt(q, t)
  <2>1. PICK k \in WordsOf(r) : W[k].end - W[k].start <= Overlap /\ Covers(W[k], t)
    BY <1>3 DEF ShortAt
  <2> DEFINE f == W[k].start
             g == W[k].end
  <2>2. f \in Nat /\ g \in Nat /\ f < g /\ g <= Ms(r) /\ g - f <= Overlap /\ f <= t /\ t < g
    BY <1>0, <2>1 DEF Covers
  <2>3. t < b
    BY <1>0, <1>1, <1>3
  <2>4. CoveredAt(q, t) \/ (g > b /\ \A i \in 1..Len(q) : q[i].end <= f)
    BY <1>3, <2>1, <2>3 DEF Answer
  <2>5. ASSUME g > b, \A i \in 1..Len(q) : q[i].end <= f PROVE FALSE
    <3> HIDE DEF f, g
    <3>1. ~e /\ 2 * Overlap <= l
      BY <1>0, <2>2, <2>5
    <3>2. f - a \in Nat /\ g - a \in Nat /\ l < g - a /\ (g - a) - (f - a) <= Overlap /\ 0 < Overlap
      BY <1>0, <2>2, <2>5, <3>1
    <3>3. sp <= f - a
      <4>1. CASE sp = 0
        BY <3>2, <4>1
      <4>2. CASE \E i \in 1..Len(q) : a + sp = q[i].end
        <5>1. a + sp <= f
          BY <2>5, <4>2
        <5> QED
          BY <2>2, <5>1
      <4> QED
        BY <4>1, <4>2
    <3>4. v <= f - a
      BY <1>1, <3>1, <3>2, <3>3
    <3> QED
      BY <1>1, <1>3, <2>2, <3>1, <3>4
  <2> QED
    BY <2>4, <2>5
<1>4. NoneMissing(r, sq, q, IF e THEN Ms(r) ELSE a + v)
  <2> SUFFICES ASSUME NEW t \in Nat, ShortAt(r, t), t < (IF e THEN Ms(r) ELSE a + v)
               PROVE  CoveredAt(sq, t) \/ CoveredAt(q, t)
    BY DEF NoneMissing
  <2>1. CASE t < a
    BY <1>2, <2>1
  <2>2. CASE a <= t
    BY <1>3, <2>2
  <2> QED
    BY <2>1, <2>2
<1>5. ASSUME NEW i \in 1..Len(q), NEW t \in Nat, ShortAt(r, t), t < q[i].end
      PROVE  CoveredAt(sq, t) \/ \E j \in 1..i : Covers(q[j], t)
  <2>1. CASE t < a
    BY <1>2, <1>5, <2>1
  <2>2. CASE a <= t
    <3>1. PICK k \in WordsOf(r) : Covers(W[k], t)
      BY <1>5 DEF ShortAt
    <3> QED
      BY <1>5, <2>2, <3>1 DEF Answer
  <2> QED
    BY <2>1, <2>2
<1> QED
  BY <1>4, <1>5 DEF v

(* The engine's answer is taken in.                                          *)
Called(r, q, v) == [r EXCEPT !.pc = "commit", !.out = q, !.advance = v]

(* What an attempt carries with an answer.                                 *)
LEMMA CalledAttempt ==
    ASSUME NEW r \in AttemptStates, NEW q \in Seq(Segments), NEW v \in Nat
    PROVE  /\ Called(r, q, v) \in AttemptStates
           /\ LET x == Called(r, q, v) IN
              /\ x.pc = "commit" /\ x.out = q /\ x.advance = v /\ x.start = r.start /\ x.len = r.len
              /\ x.from = r.from /\ x.skips = r.skips /\ x.ended = r.ended /\ x.next = r.next /\ x.resume = r.resume
              /\ x.committed = r.committed /\ x.text = r.text
BY DEF AttemptStates, Called

(* The engine answers, or the window is out of bounds.                     *)
LEMMA CallStep ==
    ASSUME TranscriptInv, NEW a \in Transcribers, CallEngine(a)
    PROVE  TranscriptInv'
<1> DEFINE r == run[a]
           ms == MsFor(r.len)
           said(q) == IF q = <<>> THEN 0 ELSE Last(q).end - r.start
<1>1. /\ r # NoAttempt /\ r.pc = "call"
      /\ UNCHANGED <<rec, segs, names, blob, solo>>
  BY DEF CallEngine, At
<1>2. /\ r \in AttemptStates /\ Placed(r, rec) /\ r.next <= Len(segs)
      /\ rec \in Recordings /\ segs \in Seq(SegmentRows) /\ flawed \in BOOLEAN
      /\ solo => Alone(r, rec, segs, flawed)
  BY <1>1, AttemptIs DEF TranscriptInv
<1>3. CASE Local(a, [r EXCEPT !.pc = "refused"]) /\ UNCHANGED flawed
  BY <1>1, <1>3, RefusedStep
<1>4. ASSUME ~OutOfBounds(r.len), NEW q \in Answers(r),
             Local(a, Called(r, Fresh(q, r.committed), Advance(ms, said(q)))),
             flawed' = (flawed \/ said(q) > ms)
      PROVE  TranscriptInv'
  <2> DEFINE sp == said(q)
             v == Advance(ms, sp)
             g == Fresh(q, r.committed)
             x == Called(r, g, v)
             c == flawed \/ sp > ms
  <2>1. /\ ms \in Nat \ {0} /\ Ordered(q, r.start)
        /\ r.from = SamplesFor(r.start) /\ (q = <<>> \/ Last(q).end - r.start <= ms) =>
              Answer(q, rec, r.start, r.start + ms)
    BY <1>2, <1>4, EngineAnswers
  <2> HIDE DEF r
  <2>2. /\ r.start \in Nat /\ r.len \in Nat /\ r.committed \in Nat /\ r.ended \in BOOLEAN /\ r.from \in Nat
    BY <1>2 DEF AttemptStates
  <2>3. /\ q \in Seq(Segments) /\ InTime(q)
        /\ \A i \in 1..Len(q) : /\ r.start <= q[i].start /\ q[i].start <= q[i].end
                                /\ q[i].start \in Nat /\ q[i].end \in Nat
    BY <2>1, TimesOf DEF Ordered
  <2> HIDE DEF ms
  <2>5. /\ sp \in Nat /\ (sp = 0 \/ \E i \in 1..Len(q) : r.start + sp = q[i].end)
        /\ \A i \in 1..Len(q) : q[i].end <= r.start + sp
    <3>1. CASE q = <<>>
      <4>1. sp = 0 /\ 1..Len(q) = {}
        BY <3>1
      <4> QED
        BY <4>1
    <3>2. CASE q # <<>>
      <4> DEFINE z == q[Len(q)].end
      <4>1. /\ Len(q) \in 1..Len(q) /\ sp = z - r.start /\ z \in Nat
            /\ \A i \in 1..Len(q) : q[i].end <= z
        BY <2>3, <3>2, LastIsLatest
      <4>2. r.start <= z
        <5>1. r.start <= q[Len(q)].start /\ q[Len(q)].start <= z /\ q[Len(q)].start \in Nat
          BY <2>3, <4>1
        <5> HIDE DEF z
        <5> QED
          BY <2>2, <4>1, <5>1
      <4> HIDE DEF z
      <4>3. sp \in Nat /\ r.start + sp = z
        <5> HIDE DEF sp
        <5> QED
          BY <2>2, <4>1, <4>2
      <4> HIDE DEF sp
      <4>4. \E i \in 1..Len(q) : r.start + sp = q[i].end
        BY <4>1, <4>3 DEF z
      <4> QED
        BY <4>1, <4>3, <4>4
    <3> QED
      BY <3>1, <3>2
  <2>6. Ordered(g, r.committed)
    BY <2>1, <2>2, FreshKept
  <2>7. run' = [run EXCEPT ![a] = x] /\ flawed' = c
    BY <1>4 DEF Local
  <2>a. (q = <<>> \/ Last(q).end - r.start <= ms) <=> ~(sp > ms)
    <3>1. CASE q = <<>>
      <4>1. sp = 0
        BY <3>1
      <4> HIDE DEF sp
      <4> QED
        BY <2>1, <3>1, <4>1
    <3>2. CASE q # <<>>
      <4>1. sp = Last(q).end - r.start
        BY <3>2
      <4> HIDE DEF sp
      <4> QED
        BY <2>1, <2>5, <3>2, <4>1
    <3> QED
      BY <3>1, <3>2
  <2> HIDE DEF sp
  <2>8. v \in Nat
    BY <2>1, <2>5, AdvanceType
  <2>b. c \in BOOLEAN /\ (flawed => c) /\ (~c => ~flawed /\ ~(sp > ms))
    BY <1>2
  <2> HIDE DEF c
  <2>9. ASSUME solo, ~c
        PROVE  /\ g = q /\ v <= ms /\ sp <= v
               /\ r.from = SamplesFor(r.start) /\ r.resume <= r.committed /\ r.committed <= r.start
               /\ r.ended => r.from + r.len = rec.len
               /\ NoneMissing(rec, segs, q, IF r.ended THEN Ms(rec) ELSE r.start + v)
               /\ \A i \in 1..Len(q), t \in Nat : ShortAt(rec, t) /\ t < q[i].end =>
                     CoveredAt(segs, t) \/ \E j \in 1..i : Covers(q[j], t)
               /\ NoneMissing(rec, segs, <<>>, r.committed)
    <3>1. /\ r.from = SamplesFor(r.start) /\ r.resume <= r.committed /\ r.committed <= r.start
          /\ r.ended => r.from + r.len = rec.len
          /\ NoneMissing(rec, segs, <<>>, r.start) /\ NoneMissing(rec, segs, <<>>, r.committed)
          /\ r.ended \/ 2 * Overlap <= ms
      BY <1>1, <1>2, <2>9, <2>b DEF Alone, WordsKept, OnTime, ms
    <3>2. g = q
      <4>1. \A i \in 1..Len(q) : r.committed <= q[i].start
        BY <2>2, <2>3, <3>1
      <4> QED
        BY <2>2, <2>3, <4>1, AllFresh
    <3>3. sp <= ms
      BY <2>1, <2>5, <2>9, <2>b
    <3>4. v <= ms /\ sp <= v
      BY <2>1, <2>5, <3>3, AdvancesInside
    <3>5. Answer(q, rec, r.start, r.start + ms)
      BY <2>1, <2>9, <2>a, <2>b, <3>1
    <3>6. r.start + ms <= Ms(rec) /\ (r.ended => r.start + ms = Ms(rec))
      <4>1. MsFor(SamplesFor(r.start) + r.len) = r.start + ms
        BY <2>2, MsOfSum DEF ms
      <4>2. r.from + r.len <= rec.len /\ rec.len \in Nat /\ r.from + r.len \in Nat
        BY <1>2, <2>2, RecordingType DEF Placed
      <4>3. MsFor(r.from + r.len) <= MsFor(rec.len)
        BY <4>2, MsGrows
      <4> QED
        BY <3>1, <4>1, <4>3 DEF Ms
    <3>7. /\ NoneMissing(rec, segs, q, IF r.ended THEN Ms(rec) ELSE r.start + v)
          /\ \A i \in 1..Len(q), t \in Nat : ShortAt(rec, t) /\ t < q[i].end =>
                CoveredAt(segs, t) \/ \E j \in 1..i : Covers(q[j], t)
      BY <1>2, <2>1, <2>2, <2>5, <3>1, <3>3, <3>5, <3>6, AnswerKept
    <3> QED
      BY <3>1, <3>2, <3>4, <3>7
  <2> HIDE DEF v, g
  <2>c. g \in Seq(Segments)
    BY <2>6 DEF Ordered
  <2>10. /\ x \in AttemptStates /\ x.pc = "commit" /\ x.out = g /\ x.advance = v /\ x.start = r.start
         /\ x.from = r.from /\ x.skips = r.skips
         /\ x.len = r.len /\ x.ended = r.ended /\ x.next = r.next /\ x.resume = r.resume
         /\ x.committed = r.committed /\ x.text = r.text
    BY <1>2, <2>8, <2>c, CalledAttempt, SMTT(60)
  <2> HIDE DEF x
  <2>11. Placed(x, rec)
    <3>1. r.from + r.len <= rec.len /\ Late(r.from, r.start, r.skips)
      BY <1>2 DEF Placed
    <3>2. InTime(g) /\ \A i \in 1..Len(g) : r.committed <= g[i].start /\ g[i].start <= g[i].end
      BY <2>6 DEF Ordered
    <3> QED
      BY <2>10, <3>1, <3>2 DEF Placed
  <2>12. ASSUME solo, ~c PROVE OnTime(x, rec) /\ WordsKept(x, rec, segs)
    <3>1. r.committed <= r.start + v
      BY <2>2, <2>8, <2>9, <2>12
    <3>2. \A i \in 1..Len(q) : q[i].end <= r.start + v
      BY <2>2, <2>3, <2>5, <2>8, <2>9, <2>12, SMTT(60)
    <3>3. OnTime(x, rec)
      BY <2>9, <2>10, <2>12, <3>1, <3>2 DEF OnTime, ms
    <3>4. WordsKept(x, rec, segs)
      BY <2>9, <2>10, <2>12 DEF WordsKept
    <3> QED
      BY <3>3, <3>4
  <2>13. solo => Alone(x, rec, segs, c)
    BY <1>2, <2>10, <2>12 DEF Alone
  <2>14. x.next <= Len(segs)
    BY <1>2, <2>10
  <2> QED
    BY <1>1, <1>2, <2>7, <2>b, <2>10, <2>11, <2>13, <2>14, RunningSteps DEF r
<1>5. \/ Local(a, [r EXCEPT !.pc = "refused"]) /\ UNCHANGED flawed
      \/ /\ ~OutOfBounds(r.len)
         /\ \E q \in Answers(r) : /\ Local(a, Called(r, Fresh(q, r.committed), Advance(ms, said(q))))
                                  /\ flawed' = (flawed \/ said(q) > ms)
  BY Zenon DEF CallEngine, Called
<1> QED
  BY <1>3, <1>4, <1>5

(* The row of a segment.                                                     *)
RowFor(s) == [start |-> s.start, end |-> s.end, asr |-> <<s.start, s.end>>, edited |-> NoEdit, speaker |-> 0]

(* It has the segment's times.                                             *)
LEMMA RowForType ==
    ASSUME NEW s \in Segments
    PROVE  RowFor(s) \in SegmentRows /\ RowFor(s).start = s.start /\ RowFor(s).end = s.end
<1>1. s.start \in Nat /\ s.end \in Nat
  BY DEF Segments
<1> QED
  BY <1>1 DEF RowFor, SegmentRows

(* A batch is upserted from where the attempt is; at the end of the rows it  *)
(* is appended.                                                              *)
LEMMA UpsertedRows ==
    ASSUME NEW sq \in Seq(SegmentRows), NEW n \in Nat, n <= Len(sq), NEW q \in Seq(Segments)
    PROVE  LET z == Upserted(sq, n, q) IN
           /\ z \in Seq(SegmentRows) /\ Len(sq) <= Len(z) /\ n + Len(q) <= Len(z)
           /\ n = Len(sq) => /\ Len(z) = n + Len(q)
                             /\ \A i \in 1..n : z[i] = sq[i]
                             /\ \A i \in 1..Len(q) : z[n + i].start = q[i].start /\ z[n + i].end = q[i].end
<1> DEFINE m == Len(q)
           k == Len(sq)
           N == Max({k, n + m})
           z == Upserted(sq, n, q)
<1>1. /\ m \in Nat /\ k \in Nat /\ \A i \in 1..m : q[i] \in Segments
      /\ \A i \in 1..k : sq[i] \in SegmentRows
  OBVIOUS
<1>2. k \in Int /\ n + m \in Int
  BY <1>1
<1>3. N \in {k, n + m} /\ N >= k /\ N >= n + m
  BY <1>2, OfTwo, Zenon
<1>4. z = [i \in 1..N |-> IF i \in (n + 1)..(n + m) THEN RowFor(q[i - n]) ELSE sq[i]]
  BY Zenon DEF Upserted, RowFor
<1> HIDE DEF N, z, m, k
<1>5. N \in Nat
  BY <1>1, <1>3
<1>6. ASSUME NEW i \in 1..N PROVE (IF i \in (n + 1)..(n + m) THEN RowFor(q[i - n]) ELSE sq[i]) \in SegmentRows
  <2>1. CASE i \in (n + 1)..(n + m)
    <3>1. i - n \in 1..m
      BY <1>1, <2>1
    <3>2. RowFor(q[i - n]) \in SegmentRows
      BY <1>1, <3>1, RowForType
    <3> QED
      BY <2>1, <3>2
  <2>2. CASE ~(i \in (n + 1)..(n + m))
    <3>1. i \in 1..k
      BY <1>1, <1>3, <2>2 DEF k
    <3> QED
      BY <1>1, <2>2, <3>1
  <2> QED
    BY <2>1, <2>2
<1>7. z \in Seq(SegmentRows) /\ Len(z) = N
  BY <1>4, <1>5, <1>6
<1>8. ASSUME n = k
      PROVE  /\ N = n + m
             /\ \A i \in 1..n : z[i] = sq[i]
             /\ \A i \in 1..m : z[n + i].start = q[i].start /\ z[n + i].end = q[i].end
  <2>1. N = n + m
    BY <1>1, <1>3, <1>8
  <2>2. \A i \in 1..n : z[i] = sq[i]
    <3>1. \A i \in 1..n : i \in 1..N /\ ~(i \in (n + 1)..(n + m))
      BY <1>1, <2>1
    <3> QED
      BY <1>4, <3>1
  <2>3. ASSUME NEW i \in 1..m PROVE z[n + i].start = q[i].start /\ z[n + i].end = q[i].end
    <3>1. n + i \in 1..N /\ n + i \in (n + 1)..(n + m) /\ (n + i) - n = i
      BY <1>1, <2>1
    <3>2. z[n + i] = RowFor(q[i])
      BY <1>4, <3>1
    <3> QED
      BY <1>1, <3>2, RowForType
  <2> QED
    BY <2>1, <2>2, <2>3
<1> QED
  BY <1>3, <1>7, <1>8 DEF m, k, z

(* What an attempt carries after a batch.                                    *)
Emitted(r, out, next, c) == [r EXCEPT !.out = out, !.next = next, !.committed = c]

EmittedFrom(x, r, q, n, c) ==
    /\ x.out = q /\ x.next = n /\ x.committed = c /\ x.pc = r.pc /\ x.advance = r.advance
    /\ x.start = r.start /\ x.len = r.len /\ x.ended = r.ended /\ x.from = r.from /\ x.skips = r.skips
    /\ x.resume = r.resume /\ x.text = r.text

(* The fields it changes, and those it keeps.                              *)
LEMMA EmittedAttempt ==
    ASSUME NEW r \in AttemptStates, NEW q \in Seq(Segments), NEW n \in Nat, NEW c \in Nat
    PROVE  Emitted(r, q, n, c) \in AttemptStates /\ EmittedFrom(Emitted(r, q, n, c), r, q, n, c)
BY DEF AttemptStates, Emitted, EmittedFrom

(* The batch, the rest of the list, and the rows with the batch appended.    *)
Appended(sq, q, m, z) ==
    /\ Len(z) = Len(sq) + m /\ (\A i \in 1..Len(sq) : z[i] = sq[i])
    /\ \A i \in 1..m : z[Len(sq) + i].start = q[i].start /\ z[Len(sq) + i].end = q[i].end
RestOfList(q, m, u) ==
    /\ u \in Seq(Segments) /\ Len(u) = Len(q) - m
    /\ \A i \in 1..(Len(q) - m) : u[i] = q[m + i]

(* What was covered stays covered.                                           *)
LEMMA StillCovered ==
    ASSUME NEW sq \in Seq(SegmentRows), NEW q \in Seq(Segments), NEW m \in Nat, m <= Len(q), NEW z, NEW u,
           Appended(sq, q, m, z), RestOfList(q, m, u), NEW t
    PROVE  /\ CoveredAt(sq, t) => CoveredAt(z, t)
           /\ \A j \in 1..Len(q) : Covers(q[j], t) =>
                 \/ CoveredAt(z, t)
                 \/ j - m \in 1..Len(u) /\ Covers(u[j - m], t)
<1> DEFINE n == Len(sq)
<1>1. n \in Nat /\ Len(q) \in Nat /\ Len(z) = n + m /\ Len(u) = Len(q) - m
  BY DEF Appended, RestOfList
<1>2. ASSUME CoveredAt(sq, t) PROVE CoveredAt(z, t)
  <2>1. PICK i \in 1..n : Covers(sq[i], t)
    BY <1>2 DEF CoveredAt
  <2>2. i \in 1..Len(z) /\ z[i] = sq[i]
    BY <1>1 DEF Appended
  <2> QED
    BY <2>1, <2>2 DEF CoveredAt
<1>3. ASSUME NEW j \in 1..Len(q), Covers(q[j], t)
      PROVE  CoveredAt(z, t) \/ (j - m \in 1..Len(u) /\ Covers(u[j - m], t))
  <2>1. CASE j <= m
    <3>1. n + j \in 1..Len(z) /\ z[n + j].start = q[j].start /\ z[n + j].end = q[j].end
      BY <1>1, <2>1 DEF Appended
    <3>2. Covers(z[n + j], t)
      BY <1>3, <3>1 DEF Covers
    <3> QED
      BY <3>1, <3>2 DEF CoveredAt
  <2>2. CASE ~(j <= m)
    <3>1. j - m \in 1..Len(u) /\ m + (j - m) = j
      BY <1>1, <2>2
    <3>2. u[j - m] = q[j]
      BY <1>1, <3>1 DEF RestOfList
    <3> QED
      BY <1>3, <3>1, <3>2
  <2> QED
    BY <2>1, <2>2
<1> QED
  BY <1>2, <1>3

(* A batch: the rows stay in order and complete up to their ends, and the    *)
(* attempt still knows what is committed.                                    *)
LEMMA BatchTrue ==
    ASSUME NEW rc \in Recordings, NEW sq \in Seq(SegmentRows), NEW r \in AttemptStates, NEW cl \in BOOLEAN,
           r.pc = "commit", Placed(r, rc), Alone(r, rc, sq, cl), InTime(sq),
           NEW m \in 1..Len(r.out), NEW z, NEW x \in AttemptStates,
           Appended(sq, r.out, m, z), RestOfList(r.out, m, x.out),
           x.pc = "commit", x.next = r.next + m, x.committed = r.out[m].end, x.start = r.start,
           x.advance = r.advance, x.ended = r.ended, x.text = r.text, ~cl => OnTime(x, rc)
    PROVE  /\ InTime(z) /\ Alone(x, rc, z, cl)
           /\ ~cl => \A i \in 1..Len(z) : NoneMissing(rc, z, <<>>, z[i].end)
<1> DEFINE n == Len(sq)
           q == r.out
           c == r.committed
           d == q[m].end
<1>1. n \in Nat /\ q \in Seq(Segments) /\ Len(q) \in Nat /\ m \in Nat /\ m <= Len(q) /\ c \in Nat
  BY SMTT(60) DEF AttemptStates
<1>2. \A i \in 1..Len(q) : q[i].start \in Nat /\ q[i].end \in Nat /\ c <= q[i].start /\ q[i].start <= q[i].end
  <2>1. \A i \in 1..Len(q) : q[i] \in Segments
    BY <1>1
  <2> QED
    BY <2>1 DEF Segments, Placed
<1>3. \A i \in 1..n : sq[i].start \in Nat /\ sq[i].end \in Nat /\ sq[i].end <= c
  <2>1. \A i \in 1..n : sq[i] \in SegmentRows
    OBVIOUS
  <2>2. \A i \in 1..n : sq[i].end <= c
    BY DEF Alone
  <2> QED
    BY <2>1, <2>2 DEF SegmentRows
<1>4. d \in Nat /\ c <= d /\ \A i \in 1..m : q[i].end <= d
  <2>1. d \in Nat /\ c <= q[m].start /\ q[m].start <= d /\ q[m].start \in Nat
    BY <1>2
  <2>2. ASSUME NEW i \in 1..m PROVE q[i].end <= d
    <3>1. CASE i = m
      BY <2>1, <3>1
    <3>2. CASE i < m
      <4>1. q[i].end <= q[m].start /\ q[i].end \in Nat
        BY <1>1, <1>2, <3>2 DEF Placed, InTime
      <4> HIDE DEF d
      <4> QED
        BY <2>1, <4>1
    <3> QED
      BY <1>1, <3>1, <3>2
  <2> HIDE DEF d
  <2> QED
    BY <1>1, <2>1, <2>2
<1> HIDE DEF d
<1>5. ASSUME NEW i \in 1..Len(z)
      PROVE  \/ i \in 1..n /\ z[i] = sq[i]
             \/ i - n \in 1..m /\ z[i].start = q[i - n].start /\ z[i].end = q[i - n].end
  <2>1. i \in 1..n \/ (i - n \in 1..m /\ n + (i - n) = i)
    BY <1>1 DEF Appended
  <2>2. CASE i \in 1..n
    BY <2>2 DEF Appended
  <2>3. CASE i - n \in 1..m /\ n + (i - n) = i
    <3> DEFINE j == i - n
    <3>1. j \in 1..m /\ n + j = i
      BY <2>3
    <3> HIDE DEF j
    <3>2. z[n + j].start = q[j].start /\ z[n + j].end = q[j].end
      BY <3>1 DEF Appended
    <3> QED
      BY <3>1, <3>2 DEF j
  <2> QED
    BY <2>1, <2>2, <2>3
<1>6. \A i \in 1..Len(z) : z[i].end <= d /\ z[i].end \in Nat
  <2> SUFFICES ASSUME NEW i \in 1..Len(z) PROVE z[i].end <= d /\ z[i].end \in Nat
    OBVIOUS
  <2>1. CASE i \in 1..n /\ z[i] = sq[i]
    <3>1. z[i].end \in Nat /\ z[i].end <= c
      BY <1>3, <2>1
    <3> QED
      BY <1>1, <1>4, <3>1
  <2>2. CASE i - n \in 1..m /\ z[i].end = q[i - n].end
    BY <1>1, <1>2, <1>4, <2>2, SMTT(60)
  <2> QED
    BY <1>5, <2>1, <2>2
<1>7. InTime(z)
  <2> SUFFICES ASSUME NEW i \in 1..Len(z), NEW j \in 1..Len(z), i < j PROVE z[i].end <= z[j].start
    BY DEF InTime
  <2>1. CASE j \in 1..n /\ z[j] = sq[j]
    <3>1. i \in 1..n /\ z[i] = sq[i]
      BY <1>1, <1>5, <2>1
    <3> QED
      BY <2>1, <3>1 DEF InTime
  <2>2. CASE j - n \in 1..m /\ z[j].start = q[j - n].start
    <3>1. CASE i \in 1..n /\ z[i] = sq[i]
      <4>1. z[i].end \in Nat /\ z[i].end <= c
        BY <1>3, <3>1
      <4>2. z[j].start \in Nat /\ c <= z[j].start
        BY <1>1, <1>2, <2>2
      <4> QED
        BY <1>1, <4>1, <4>2
    <3>2. CASE i - n \in 1..m /\ z[i].end = q[i - n].end
      <4>1. i - n \in 1..Len(q) /\ j - n \in 1..Len(q) /\ i - n < j - n
        BY <1>1, <2>2, <3>2, SMTT(60)
      <4>2. q[i - n].end <= q[j - n].start
        BY <4>1 DEF Placed, InTime
      <4> QED
        BY <2>2, <3>2, <4>2
    <3> QED
      BY <1>5, <3>1, <3>2
  <2> QED
    BY <1>5, <2>1, <2>2
<1>8. ASSUME ~cl PROVE WordsKept(x, rc, z)
  <2>1. /\ NoneMissing(rc, sq, q, IF r.ended THEN Ms(rc) ELSE r.start + r.advance)
        /\ \A i \in 1..Len(q), t \in Nat : ShortAt(rc, t) /\ t < q[i].end =>
              CoveredAt(sq, t) \/ \E j \in 1..i : Covers(q[j], t)
    BY <1>8 DEF Alone, WordsKept
  <2> DEFINE u == x.out
  <2>2. Len(u) = Len(q) - m /\ \A i \in 1..Len(u) : u[i] = q[m + i]
    BY DEF RestOfList
  <2>3. ASSUME NEW t \in Nat PROVE /\ CoveredAt(sq, t) => CoveredAt(z, t)
                                   /\ \A j \in 1..Len(q) : Covers(q[j], t) =>
                                         \/ CoveredAt(z, t)
                                         \/ j - m \in 1..Len(u) /\ Covers(u[j - m], t)
    BY <1>1, StillCovered
  <2> HIDE DEF u, q
  <2>4. NoneMissing(rc, z, u, IF r.ended THEN Ms(rc) ELSE r.start + r.advance)
    <3> SUFFICES ASSUME NEW t \in Nat, ShortAt(rc, t), t < (IF r.ended THEN Ms(rc) ELSE r.start + r.advance)
                 PROVE  CoveredAt(z, t) \/ CoveredAt(u, t)
      BY DEF NoneMissing
    <3>1. CASE CoveredAt(sq, t)
      BY <2>3, <3>1
    <3>2. CASE CoveredAt(q, t)
      <4>1. PICK j \in 1..Len(q) : Covers(q[j], t)
        BY <3>2 DEF CoveredAt
      <4>2. CoveredAt(z, t) \/ (j - m \in 1..Len(u) /\ Covers(u[j - m], t))
        BY <2>3, <4>1
      <4> QED
        BY <4>2 DEF CoveredAt
    <3> QED
      BY <2>1, <3>1, <3>2 DEF NoneMissing
  <2>5. ASSUME NEW i \in 1..Len(q), NEW t \in Nat, ShortAt(rc, t), t < q[i].end
        PROVE  CoveredAt(z, t) \/ \E j \in 1..(i - m) : j \in 1..Len(u) /\ Covers(u[j], t)
    <3>1. CASE CoveredAt(sq, t)
      BY <2>3, <3>1
    <3>2. CASE \E j \in 1..i : Covers(q[j], t)
      <4>1. PICK j \in 1..i : Covers(q[j], t)
        BY <3>2
      <4>2. j \in 1..Len(q)
        BY <1>1, <4>1
      <4>3. CoveredAt(z, t) \/ (j - m \in 1..Len(u) /\ Covers(u[j - m], t))
        BY <2>3, <4>1, <4>2
      <4>4. j - m \in 1..Len(u) => j - m \in 1..(i - m)
        BY <1>1, <4>1
      <4> QED
        BY <4>3, <4>4
    <3> QED
      BY <2>1, <2>5, <3>1, <3>2
  <2>6. NoneMissing(rc, z, <<>>, d)
    <3> SUFFICES ASSUME NEW t \in Nat, ShortAt(rc, t), t < d PROVE CoveredAt(z, t)
      BY DEF NoneMissing
    <3>1. m \in 1..Len(q) /\ t < q[m].end
      BY <1>1 DEF d, q
    <3>2. CoveredAt(z, t) \/ \E j \in 1..(m - m) : j \in 1..Len(u) /\ Covers(u[j], t)
      BY <2>5, <3>1, Zenon
    <3>3. \A j \in 1..(m - m) : FALSE
      BY <1>1
    <3> QED
      BY <3>2, <3>3, Zenon
  <2>7. ASSUME NEW i \in 1..Len(u), NEW t \in Nat, ShortAt(rc, t), t < u[i].end
        PROVE  CoveredAt(z, t) \/ \E j \in 1..i : Covers(u[j], t)
    <3>1. m + i \in 1..Len(q) /\ u[i] = q[m + i] /\ (m + i) - m = i
      <4>1. u[i] = q[m + i] /\ Len(u) = Len(q) - m
        BY <2>2, Zenon
      <4>2. \A k, w \in Nat : \A j \in 1..(k - w) : w + j \in 1..k /\ (w + j) - w = j
        OBVIOUS
      <4>3. Len(q) \in Nat /\ m \in Nat /\ i \in 1..(Len(q) - m)
        BY <1>1, <4>1, Zenon
      <4> QED
        BY <4>1, <4>2, <4>3, Zenon
    <3>a. t < q[m + i].end
      BY <2>7, <3>1, Zenon
    <3>2. CoveredAt(z, t) \/ \E j \in 1..((m + i) - m) : j \in 1..Len(u) /\ Covers(u[j], t)
      BY <2>5, <2>7, <3>1, <3>a, Zenon
    <3> QED
      BY <3>1, <3>2
  <2>8. x.committed = d
    BY DEF d, q
  <2> QED
    BY <2>4, <2>6, <2>7, <2>8 DEF WordsKept, u
<1>9. ASSUME ~cl, NEW i \in 1..Len(z) PROVE NoneMissing(rc, z, <<>>, z[i].end)
  <2>1. NoneMissing(rc, z, <<>>, d)
    BY <1>8, <1>9 DEF WordsKept, d
  <2> QED
    BY <1>4, <1>6, <1>9, <2>1, MissingBefore
<1>10. Alone(x, rc, z, cl)
  <2>1. x.next = Len(z) /\ Len(x.text) <= Len(z)
    <3>1. r.next = n /\ Len(r.text) <= n /\ Len(r.text) \in Nat
      BY DEF Alone, AttemptStates
    <3> QED
      BY <1>1, <3>1 DEF Appended
  <2>2. \A i \in 1..Len(z) : z[i].end <= x.committed
    BY <1>6 DEF d
  <2> QED
    BY <1>8, <2>1, <2>2 DEF Alone
<1> QED
  BY <1>7, <1>9, <1>10

(* A step that moves one attempt and writes rows.                            *)
LEMMA CommittingSteps ==
    ASSUME TranscriptInv, NEW a \in Transcribers, run[a] # NoAttempt, NEW x \in AttemptStates,
           run' = [run EXCEPT ![a] = x], UNCHANGED <<rec, names, blob, solo, flawed>>,
           NEW z \in Seq(SegmentRows), segs' = z, Len(segs) <= Len(z),
           Placed(x, rec), x.next <= Len(z),
           solo => /\ InTime(z) /\ Alone(x, rec, z, flawed)
                   /\ ~flawed => \A i \in 1..Len(z) : NoneMissing(rec, z, <<>>, z[i].end)
    PROVE  TranscriptInv'
<1>1. /\ run' \in [Transcribers -> AttemptStates \cup {NoAttempt}] /\ run'[a] = x
      /\ \A b \in Transcribers : b # a => run'[b] = run[b]
  BY DEF TranscriptInv
<1>2. ASSUME NEW b \in Transcribers, run'[b] # NoAttempt
      PROVE  Placed(run'[b], rec) /\ run'[b].next <= Len(z)
  <2>1. CASE b = a
    BY <1>1, <2>1
  <2>2. CASE b # a
    <3>1. run'[b] = run[b] /\ run[b] # NoAttempt
      BY <1>1, <1>2, <2>2
    <3>2. run[b] \in AttemptStates /\ Placed(run[b], rec) /\ run[b].next <= Len(segs) /\ segs \in Seq(SegmentRows)
      BY <3>1, AttemptIs
    <3>3. run[b].next \in Nat
      BY <3>2, SMTT(60) DEF AttemptStates
    <3>4. Len(segs) \in Nat /\ Len(z) \in Nat
      BY <3>2
    <3> QED
      BY <3>1, <3>2, <3>3, <3>4
  <2> QED
    BY <2>1, <2>2
<1>3. ASSUME solo
      PROVE  /\ RowsTrue(rec, z, blob, flawed)
             /\ \A b \in Transcribers : run'[b] # NoAttempt => Alone(run'[b], rec, z, flawed) /\ blob = NoEdit
             /\ \A b, c \in Transcribers : run'[b] # NoAttempt /\ run'[c] # NoAttempt => b = c
  <2>1. blob = NoEdit /\ \A b \in Transcribers : run[b] # NoAttempt => b = a
    BY <1>3, AttemptIs
  <2>2. RowsTrue(rec, z, blob, flawed)
    BY <1>3, <2>1 DEF RowsTrue
  <2>3. \A b \in Transcribers : run'[b] # NoAttempt => b = a
    BY <1>1, <2>1, Zenon
  <2>4. \A b \in Transcribers : run'[b] # NoAttempt => Alone(run'[b], rec, z, flawed) /\ blob = NoEdit
    BY <1>1, <1>3, <2>1, <2>3, Zenon
  <2>5. \A b, c \in Transcribers : run'[b] # NoAttempt /\ run'[c] # NoAttempt => b = c
    BY <2>3, Zenon
  <2> QED
    BY <2>2, <2>4, <2>5, Zenon
<1>4. \A b \in Transcribers : run'[b] # NoAttempt => Placed(run'[b], rec) /\ run'[b].next <= Len(z)
  BY <1>2
<1>5. /\ rec' \in Recordings /\ segs' \in Seq(SegmentRows) /\ names' \in SpeakerRows
      /\ solo' \in BOOLEAN /\ flawed' \in BOOLEAN
      /\ rec' = rec /\ segs' = z /\ blob' = blob /\ solo' = solo /\ flawed' = flawed
  BY DEF TranscriptInv
<1>6. \A b \in Transcribers : run'[b] # NoAttempt => Placed(run'[b], rec') /\ run'[b].next <= Len(segs')
  BY <1>4, <1>5
<1>7. solo' =>
        /\ RowsTrue(rec', segs', blob', flawed')
        /\ \A b \in Transcribers : run'[b] # NoAttempt => Alone(run'[b], rec', segs', flawed') /\ blob' = NoEdit
        /\ \A b, c \in Transcribers : run'[b] # NoAttempt /\ run'[c] # NoAttempt => b = c
  BY <1>3, <1>5
<1> QED
  BY <1>1, <1>5, <1>6, <1>7 DEF TranscriptInv

(* The end of a batch is where the attempt has committed to.                 *)
LEMMA BatchEnds ==
    ASSUME NEW rc \in Recordings, NEW r \in AttemptStates, r.pc = "commit", Placed(r, rc),
           NEW m \in 1..Len(r.out), NEW x \in AttemptStates, RestOfList(r.out, m, x.out),
           x.pc = "commit", x.start = r.start, x.len = r.len, x.ended = r.ended, x.advance = r.advance,
           x.resume = r.resume, x.committed = r.out[m].end, x.from = r.from, x.skips = r.skips
    PROVE  Placed(x, rc) /\ (OnTime(r, rc) => OnTime(x, rc))
<1> DEFINE q == r.out
           u == x.out
           c == r.committed
           d == q[m].end
<1>1. q \in Seq(Segments) /\ Len(q) \in Nat /\ c \in Nat /\ r.resume \in Nat /\ r.start \in Nat /\ r.advance \in Nat
  BY DEF AttemptStates
<1>2. \A i \in 1..Len(q) : q[i] \in Segments
  BY <1>1
<1>3. \A i \in 1..Len(q) : q[i].start \in Nat /\ q[i].end \in Nat /\ c <= q[i].start /\ q[i].start <= q[i].end
  BY <1>2 DEF Segments, Placed
<1>4. d \in Nat /\ c <= d
  BY <1>1, <1>3, SMTT(40)
<1>5. InTime(q)
  BY DEF Placed
<1>6. /\ Len(u) = Len(q) - m
      /\ \A i \in 1..(Len(q) - m) : u[i] = q[m + i] /\ m + i \in 1..Len(q)
  BY <1>1 DEF RestOfList
<1>7. InTime(u)
  <2> SUFFICES ASSUME NEW i \in 1..Len(u), NEW j \in 1..Len(u), i < j PROVE u[i].end <= u[j].start
    BY DEF InTime
  <2>1. m + i \in 1..Len(q) /\ m + j \in 1..Len(q) /\ m + i < m + j /\ u[i] = q[m + i] /\ u[j] = q[m + j]
    BY <1>6
  <2> QED
    BY <1>5, <2>1 DEF InTime
<1>8. ASSUME NEW i \in 1..Len(u)
      PROVE  d <= u[i].start /\ u[i].start <= u[i].end
  <2>0. i \in 1..(Len(q) - m)
    BY <1>6
  <2>1. m + i \in 1..Len(q) /\ m < m + i /\ u[i] = q[m + i]
    <3>1. m + i \in 1..Len(q) /\ u[i] = q[m + i]
      BY <1>6, <2>0
    <3> HIDE DEF q, u
    <3>2. m < m + i
      BY <2>0
    <3> QED
      BY <3>1, <3>2
  <2>2. q[m].end <= q[m + i].start
    BY <1>5, <2>1 DEF InTime
  <2> QED
    BY <1>3, <2>1, <2>2
<1>9. r.from + r.len <= rc.len /\ Late(r.from, r.start, r.skips)
  BY DEF Placed
<1>10. Placed(x, rc)
  BY <1>7, <1>8, <1>9 DEF Placed
<1>11. ASSUME OnTime(r, rc) PROVE OnTime(x, rc)
  <2>1. /\ r.resume <= c /\ r.from = SamplesFor(r.start) /\ (r.ended => r.from + r.len = rc.len)
        /\ r.advance <= MsFor(r.len) /\ \A i \in 1..Len(q) : q[i].end <= r.start + r.advance
    BY <1>11 DEF OnTime
  <2>2. d <= r.start + r.advance
    BY <2>1
  <2>3. r.resume <= d
    BY <1>1, <1>4, <2>1
  <2>4. ASSUME NEW i \in 1..Len(u) PROVE u[i].end <= r.start + r.advance
    BY <1>6, <2>1
  <2> QED
    BY <2>1, <2>2, <2>3, <2>4 DEF OnTime
<1> QED
  BY <1>10, <1>11

(* emit_transcript: a batch is committed, or is one too many.                *)
LEMMA EmitStep ==
    ASSUME TranscriptInv, NEW a \in Transcribers, CommitBatch(a)
    PROVE  TranscriptInv'
<1> DEFINE r == run[a]
           q == r.out
           k == Len(q)
           m == Min({BatchMax, k})
           batch == SubSeq(q, 1, m)
           u == SubSeq(q, Len(batch) + 1, k)
           z == Upserted(segs, r.next, batch)
           x == Emitted(r, u, r.next + Len(batch), Max({r.committed, Last(batch).end}))
<1>1. /\ r # NoAttempt /\ r.pc = "commit" /\ q # <<>>
      /\ UNCHANGED <<rec, names, blob, solo, flawed>>
  BY DEF CommitBatch, At
<1>2. \/ Local(a, [r EXCEPT !.pc = "refused"]) /\ UNCHANGED segs
      \/ run' = [run EXCEPT ![a] = x] /\ segs' = z
  BY Zenon DEF CommitBatch, Local, Emitted
<1>3. /\ r \in AttemptStates /\ Placed(r, rec) /\ r.next <= Len(segs)
      /\ rec \in Recordings /\ segs \in Seq(SegmentRows) /\ flawed \in BOOLEAN
      /\ solo => Alone(r, rec, segs, flawed) /\ RowsTrue(rec, segs, blob, flawed)
  BY <1>1, AttemptIs DEF TranscriptInv
<1>4. CASE Local(a, [r EXCEPT !.pc = "refused"]) /\ UNCHANGED segs
  BY <1>1, <1>4, RefusedStep
<1>5. CASE run' = [run EXCEPT ![a] = x] /\ segs' = z
  <2> HIDE DEF r
  <2>1. q \in Seq(Segments) /\ k \in Nat \ {0} /\ BatchMax \in Nat \ {0} /\ r.next \in Nat /\ r.committed \in Nat
    BY <1>1, <1>3, TranscriptAssumption DEF AttemptStates
  <2>2. m \in 1..k
    <3>1. k \in Int /\ BatchMax \in Int
      BY <2>1
    <3>2. m \in {BatchMax, k} /\ m <= BatchMax /\ m <= k
      <4> HIDE DEF k
      <4> QED
        BY <3>1, OfTwo, Zenon
    <3> HIDE DEF m
    <3> QED
      BY <2>1, <3>2
  <2> HIDE DEF m
  <2>3. m \in Nat /\ m <= Len(q)
    BY <2>1, <2>2
  <2>4. /\ batch \in Seq(Segments) /\ Len(batch) = m /\ (\A i \in 1..m : batch[i] = q[i])
        /\ SubSeq(q, m + 1, Len(q)) \in Seq(Segments) /\ Len(SubSeq(q, m + 1, Len(q))) = Len(q) - m
        /\ \A i \in 1..(Len(q) - m) : SubSeq(q, m + 1, Len(q))[i] = q[m + i]
    <3> HIDE DEF q
    <3> QED
      BY <2>1, <2>3, SplitList
  <2> HIDE DEF batch
  <2>5. u \in Seq(Segments) /\ RestOfList(q, m, u)
    BY <2>4 DEF RestOfList
  <2>6. Last(batch) = q[m]
    BY <2>2, <2>4 DEF Last
  <2>7. q[m] \in Segments /\ r.committed <= q[m].start /\ q[m].start <= q[m].end
    BY <1>1, <1>3, <2>1, <2>2 DEF Placed
  <2>8. q[m].start \in Nat /\ q[m].end \in Nat
    BY <2>7 DEF Segments
  <2>9. Max({r.committed, Last(batch).end}) = q[m].end
    <3> DEFINE c == r.committed
               d == q[m].end
    <3>1. c \in Int /\ d \in Int /\ c <= d
      BY <2>1, <2>7, <2>8
    <3> HIDE DEF c, d
    <3>2. Max({c, d}) \in {c, d} /\ Max({c, d}) >= d
      BY <3>1, OfTwo, Zenon
    <3>3. Max({c, d}) = d
      BY <3>1, <3>2
    <3> QED
      BY <2>6, <3>3 DEF c, d
  <2>10. x = Emitted(r, u, r.next + m, q[m].end)
    BY <2>4, <2>9
  <2> HIDE DEF u
  <2>11. r.next + m \in Nat
    BY <2>1, <2>3
  <2>12. /\ x \in AttemptStates /\ x.out = u /\ x.next = r.next + m /\ x.committed = q[m].end /\ x.pc = r.pc
         /\ x.advance = r.advance /\ x.start = r.start /\ x.len = r.len /\ x.ended = r.ended
         /\ x.resume = r.resume /\ x.text = r.text /\ x.from = r.from /\ x.skips = r.skips
    <3> DEFINE n == r.next + m
               d == q[m].end
               y == Emitted(r, u, n, d)
    <3>0. r \in AttemptStates /\ u \in Seq(Segments)
      BY <1>3, <2>5
    <3>1. n \in Nat /\ d \in Nat
      BY <2>8, <2>11
    <3> HIDE DEF n, d
    <3>2. y \in AttemptStates /\ EmittedFrom(y, r, u, n, d)
      BY <3>0, <3>1, EmittedAttempt, Zenon
    <3>3. x = y
      BY <2>10 DEF n, d
    <3> HIDE DEF x, y
    <3> QED
      BY <3>2, <3>3 DEF n, d, EmittedFrom
  <2> HIDE DEF x
  <2>13. /\ z \in Seq(SegmentRows) /\ Len(segs) <= Len(z) /\ r.next + m <= Len(z)
         /\ r.next = Len(segs) => /\ Len(z) = r.next + m
                                  /\ \A i \in 1..r.next : z[i] = segs[i]
                                  /\ \A i \in 1..m : z[r.next + i].start = batch[i].start /\ z[r.next + i].end = batch[i].end
    BY <1>3, <2>1, <2>4, UpsertedRows, ZenonT(40)
  <2> HIDE DEF z
  <2>14. Placed(x, rec) /\ (OnTime(r, rec) => OnTime(x, rec))
    BY <1>1, <1>3, <2>2, <2>5, <2>12, BatchEnds
  <2>15. ASSUME solo
         PROVE  /\ InTime(z) /\ Alone(x, rec, z, flawed)
                /\ ~flawed => \A i \in 1..Len(z) : NoneMissing(rec, z, <<>>, z[i].end)
    <3>1. Alone(r, rec, segs, flawed) /\ InTime(segs)
      BY <1>3, <2>15 DEF RowsTrue
    <3>2. r.next = Len(segs)
      BY <3>1 DEF Alone
    <3>3. Appended(segs, q, m, z)
      BY <2>4, <2>13, <3>2 DEF Appended
    <3>4. ~flawed => OnTime(x, rec)
      BY <2>14, <3>1 DEF Alone
    <3> QED
      BY <1>1, <1>3, <2>2, <2>5, <2>12, <3>1, <3>3, <3>4, BatchTrue, Zenon
  <2>16. x.next <= Len(z)
    BY <2>12, <2>13
  <2>17. run' = [run EXCEPT ![a] = x] /\ segs' = z
    BY <1>5
  <2>18. run[a] # NoAttempt
    BY <1>1 DEF r
  <2> QED
    BY <1>1, <2>12, <2>13, <2>14, <2>15, <2>16, <2>17, <2>18, CommittingSteps
<1> QED
  BY <1>2, <1>4, <1>5

(* The window is drained.                                                    *)
Drained(r, f, s, l, q) == [r EXCEPT !.from = f, !.start = s, !.len = l, !.pc = q]

DrainedFrom(x, r, f, s, l, q) ==
    /\ x.from = f /\ x.start = s /\ x.len = l /\ x.pc = q /\ x.skips = r.skips
    /\ x.next = r.next /\ x.resume = r.resume /\ x.committed = r.committed /\ x.text = r.text

(* What an attempt carries after it.                                       *)
LEMMA DrainedAttempt ==
    ASSUME NEW r \in AttemptStates, NEW f \in Nat, NEW s \in Nat, NEW l \in Nat, NEW q \in {"fill", "write"}
    PROVE  Drained(r, f, s, l, q) \in AttemptStates /\ DrainedFrom(Drained(r, f, s, l, q), r, f, s, l, q)
BY DEF AttemptStates, Drained, DrainedFrom

(* The read position moves past the audio whose segments are committed.      *)
LEMMA DrainStep ==
    ASSUME TranscriptInv, NEW a \in Transcribers, Drain(a)
    PROVE  TranscriptInv'
<1> DEFINE r == run[a]
           w == SamplesFor(r.advance)
           n == Min({w, r.len})
           f == r.from + n
           s == r.start + r.advance
           l == r.len - n
           pc == AfterWindow(r.ended)
           x == Drained(r, f, s, l, pc)
<1>1. /\ r # NoAttempt /\ r.pc = "commit" /\ r.out = <<>>
      /\ UNCHANGED <<rec, segs, names, blob, solo, flawed>>
  BY DEF Drain, At
<1>2. run' = [run EXCEPT ![a] = x]
  BY Zenon DEF Drain, Local, Drained
<1>3. /\ r \in AttemptStates /\ Placed(r, rec) /\ r.next <= Len(segs)
      /\ rec \in Recordings /\ segs \in Seq(SegmentRows) /\ flawed \in BOOLEAN
      /\ solo => Alone(r, rec, segs, flawed)
  BY <1>1, AttemptIs DEF TranscriptInv
<1> HIDE DEF r
<1>4. /\ r.start \in Nat /\ r.advance \in Nat /\ r.len \in Nat /\ r.ended \in BOOLEAN /\ r.committed \in Nat
      /\ r.from \in Nat /\ r.skips \in Nat
  BY <1>3 DEF AttemptStates
<1>5. n \in Nat /\ n <= w /\ n <= r.len /\ w \in Nat /\ (w <= r.len => n = w)
  <2> DEFINE v == r.len
  <2>1. v \in Int /\ w \in Int /\ v \in Nat /\ w \in Nat
    BY <1>4, SamplesNat
  <2> HIDE DEF v, w
  <2>2. Min({w, v}) \in {w, v} /\ Min({w, v}) <= w /\ Min({w, v}) <= v
    BY <2>1, OfTwo, Zenon
  <2>3. Min({w, v}) \in Nat /\ (w <= v => Min({w, v}) = w)
    BY <2>1, <2>2
  <2> QED
    BY <2>1, <2>2, <2>3 DEF v
<1>6. Late(f, s, r.skips) /\ r.from + r.len <= rec.len
  <2>1. Late(r.from, r.start, r.skips) /\ r.from + r.len <= rec.len
    BY <1>3 DEF Placed
  <2>2. n <= SamplesFor(r.advance)
    BY <1>5
  <2> HIDE DEF n
  <2> QED
    BY <1>4, <1>5, <2>1, <2>2, NoLater
<1>7. pc \in {"fill", "write"} /\ (pc = "write" <=> r.ended)
  BY <1>4 DEF AfterWindow
<1> HIDE DEF pc, n, w
<1>8. f \in Nat /\ s \in Nat /\ l \in Nat /\ f + l = r.from + r.len
  BY <1>4, <1>5
<1>9. ASSUME solo, ~flawed
      PROVE  /\ NoneMissing(rec, segs, <<>>, r.committed)
             /\ NoneMissing(rec, segs, <<>>, IF r.ended THEN Ms(rec) ELSE s)
             /\ r.from = SamplesFor(r.start) /\ r.advance <= MsFor(r.len) /\ r.committed <= s /\ r.resume <= r.committed
  BY <1>1, <1>3, <1>9 DEF Alone, WordsKept, OnTime
<1>10. ASSUME solo, ~flawed PROVE f = SamplesFor(s)
  <2>1. r.advance <= MsFor(r.len) /\ MsFor(r.len) \in Nat /\ SamplesFor(MsFor(r.len)) <= r.len
    BY <1>4, <1>9, <1>10, MsRounds
  <2>2. SamplesFor(r.advance) <= SamplesFor(MsFor(r.len)) /\ SamplesFor(MsFor(r.len)) \in Nat
    BY <1>4, <2>1, SamplesGrow, SamplesNat
  <2>3. n = w
    BY <1>4, <1>5, <2>1, <2>2 DEF w
  <2>4. SamplesFor(r.start + r.advance) = SamplesFor(r.start) + SamplesFor(r.advance)
    BY <1>4, SamplesAdd
  <2> QED
    BY <1>9, <1>10, <2>3, <2>4 DEF w
<1> HIDE DEF s, f, l
<1>11. /\ x \in AttemptStates /\ x.from = f /\ x.start = s /\ x.len = l /\ x.pc = pc /\ x.skips = r.skips
       /\ x.next = r.next /\ x.resume = r.resume /\ x.committed = r.committed /\ x.text = r.text
  <2>1. r \in AttemptStates /\ f \in Nat /\ s \in Nat /\ l \in Nat /\ pc \in {"fill", "write"}
    BY <1>3, <1>7, <1>8
  <2>2. x \in AttemptStates /\ DrainedFrom(x, r, f, s, l, pc)
    BY <2>1, DrainedAttempt, Zenon
  <2> HIDE DEF x
  <2> QED
    BY <2>2, Zenon DEF DrainedFrom
<1> HIDE DEF x
<1>12. Placed(x, rec) /\ x.next <= Len(segs)
  BY <1>3, <1>6, <1>7, <1>8, <1>11 DEF Placed
<1>13. ASSUME solo PROVE Alone(x, rec, segs, flawed)
  <2>1. ASSUME ~flawed PROVE OnTime(x, rec) /\ WordsKept(x, rec, segs)
    <3>1. pc = "fill" => NoneMissing(rec, segs, <<>>, s)
      BY <1>4, <1>7, <1>9, <1>13, <2>1
    <3>2. pc = "write" => NoneMissing(rec, segs, <<>>, Ms(rec))
      BY <1>4, <1>7, <1>9, <1>13, <2>1
    <3>3. WordsKept(x, rec, segs)
      BY <1>7, <1>9, <1>11, <1>13, <2>1, <3>1, <3>2 DEF WordsKept
    <3>4. OnTime(x, rec)
      BY <1>7, <1>9, <1>10, <1>11, <1>13, <2>1 DEF OnTime
    <3> QED
      BY <3>3, <3>4
  <2> QED
    BY <1>3, <1>11, <1>13, <2>1 DEF Alone
<1> QED
  BY <1>1, <1>2, <1>3, <1>11, <1>12, <1>13, RunningSteps DEF r

(* The texts of a blob.                                                      *)
Texts == (Nat \X Nat) \cup {"corrected"}

(* A row is rendered as the engine's text or as the correction.              *)
LEMMA RenderedType ==
    ASSUME NEW row \in SegmentRows
    PROVE  Rendered(row) \in Texts
<1>1. row.asr \in Nat \X Nat /\ row.edited \in {NoEdit, "corrected"}
  BY DEF SegmentRows
<1> QED
  BY <1>1 DEF Rendered, Texts

(* What an attempt carries after a page.                                     *)
Paged(r, t) == [r EXCEPT !.text = t]

(* The field it changes, and those it keeps.                               *)
LEMMA PagedAttempt ==
    ASSUME NEW r \in AttemptStates, NEW t \in Seq(Texts)
    PROVE  /\ Paged(r, t) \in AttemptStates
           /\ LET x == Paged(r, t) IN
              /\ x.text = t /\ x.pc = r.pc /\ x.start = r.start /\ x.len = r.len /\ x.ended = r.ended
              /\ x.from = r.from /\ x.skips = r.skips
              /\ x.next = r.next /\ x.resume = r.resume /\ x.committed = r.committed
BY DEF AttemptStates, Paged, Texts

(* write_transcript: a page never reads past the rows.                       *)
LEMMA PageStep ==
    ASSUME TranscriptInv, NEW a \in Transcribers, WritePage(a)
    PROVE  TranscriptInv'
<1> DEFINE r == run[a]
           w == Len(r.text)
           n == Len(segs)
           upTo == Min({n, w + PageRows})
           page == SubSeq(segs, w + 1, upTo)
           more == [i \in DOMAIN page |-> Rendered(page[i])]
           x == Paged(r, r.text \o more)
<1>1. /\ r # NoAttempt /\ r.pc = "write" /\ page # <<>>
      /\ UNCHANGED <<rec, segs, names, blob, solo, flawed>>
  BY DEF WritePage, At
<1>2. run' = [run EXCEPT ![a] = x]
  BY Zenon DEF WritePage, Local, Paged
<1>3. /\ r \in AttemptStates /\ Placed(r, rec) /\ r.next <= Len(segs)
      /\ rec \in Recordings /\ segs \in Seq(SegmentRows) /\ flawed \in BOOLEAN
      /\ solo => Alone(r, rec, segs, flawed)
  BY <1>1, AttemptIs DEF TranscriptInv
<1> HIDE DEF r
<1>4. r.text \in Seq(Texts)
  BY <1>3 DEF AttemptStates, Texts
<1>5. w \in Nat /\ n \in Nat /\ w + PageRows \in Nat /\ \A i \in 1..n : segs[i] \in SegmentRows
  BY <1>3, <1>4, TranscriptAssumption
<1>6. upTo \in Nat /\ upTo <= n
  <2> DEFINE v == w + PageRows
  <2>1. v \in Int /\ n \in Int /\ v \in Nat /\ n \in Nat
    BY <1>5
  <2> HIDE DEF v, n
  <2>2. Min({n, v}) \in Nat /\ Min({n, v}) <= n
    BY <2>1, OfTwo, Zenon
  <2> QED
    BY <2>2 DEF v
<1> HIDE DEF upTo, w, n
<1>7. /\ page \in Seq(SegmentRows)
      /\ Len(page) = IF w + 1 <= upTo THEN upTo - (w + 1) + 1 ELSE 0
  <2>1. w + 1 \in Int /\ upTo \in Int /\ \A i \in (w + 1)..upTo : segs[i] \in SegmentRows
    BY <1>5, <1>6
  <2> QED
    BY <2>1, SubSeqProperties
<1> HIDE DEF page
<1>8. Len(page) = upTo - w /\ w <= upTo
  BY <1>1, <1>5, <1>6, <1>7
<1>9. more \in Seq(Texts) /\ Len(more) = Len(page)
  <2>1. DOMAIN page = 1..Len(page) /\ Len(page) \in Nat /\ \A i \in 1..Len(page) : page[i] \in SegmentRows
    BY <1>7
  <2>2. \A i \in 1..Len(page) : Rendered(page[i]) \in Texts
    BY <2>1, RenderedType
  <2> QED
    BY <2>1, <2>2
<1> HIDE DEF more
<1>10. r.text \o more \in Seq(Texts) /\ Len(r.text \o more) = w + Len(page)
  BY <1>4, <1>9 DEF w
<1>11. Len(r.text \o more) <= n
  BY <1>5, <1>6, <1>8, <1>10
<1>12. /\ x \in AttemptStates /\ x.text = r.text \o more /\ x.pc = r.pc /\ x.start = r.start
       /\ x.next = r.next /\ x.resume = r.resume /\ x.committed = r.committed
       /\ x.from = r.from /\ x.skips = r.skips /\ x.len = r.len
  BY <1>3, <1>10, PagedAttempt
<1> HIDE DEF x
<1>13. Placed(x, rec) /\ x.next <= Len(segs)
  BY <1>1, <1>3, <1>12 DEF Placed
<1>14. ASSUME solo PROVE Alone(x, rec, segs, flawed)
  <2>1. ASSUME ~flawed PROVE OnTime(x, rec) /\ WordsKept(x, rec, segs)
    BY <1>1, <1>3, <1>12, <1>14, <2>1 DEF Alone, WordsKept, OnTime
  <2>2. Len(x.text) <= Len(segs)
    BY <1>11, <1>12 DEF n
  <2> QED
    BY <1>3, <1>12, <1>14, <2>1, <2>2 DEF Alone
<1> QED
  BY <1>1, <1>2, <1>3, <1>12, <1>13, <1>14, RunningSteps DEF r

(* An attempt that is lost takes nothing with it.                            *)
LEMMA LostStep ==
    ASSUME TranscriptInv, NEW a \in Transcribers, AttemptLost(a)
    PROVE  TranscriptInv'
<1>1. /\ run[a] # NoAttempt /\ run' = [run EXCEPT ![a] = NoAttempt]
      /\ UNCHANGED <<rec, segs, names, blob, solo>> /\ flawed' = flawed
  BY DEF AttemptLost, Local
<1>2. flawed' \in BOOLEAN /\ (flawed => flawed')
  BY <1>1 DEF TranscriptInv
<1> QED
  BY <1>1, <1>2, OneAttemptSteps

(* The pages ran out: a text for each row, and no short word is missing.     *)
LEMMA PublishStep ==
    ASSUME TranscriptInv, NEW a \in Transcribers, Publish(a)
    PROVE  TranscriptInv'
<1> DEFINE r == run[a]
           t == r.text
<1>1. /\ r # NoAttempt /\ r.pc = "write" /\ Len(t) >= Len(segs) /\ blob' = t
      /\ run' = [run EXCEPT ![a] = NoAttempt] /\ UNCHANGED <<rec, segs, names, solo, flawed>>
  BY DEF Publish, At, Local
<1>2. /\ r \in AttemptStates /\ segs \in Seq(SegmentRows) /\ rec \in Recordings
      /\ solo => /\ Alone(r, rec, segs, flawed) /\ RowsTrue(rec, segs, blob, flawed)
                 /\ \A b \in Transcribers : run[b] # NoAttempt => b = a
  BY <1>1, AttemptIs
<1>3. /\ run' \in [Transcribers -> AttemptStates \cup {NoAttempt}] /\ run'[a] = NoAttempt
      /\ \A b \in Transcribers : b # a => run'[b] = run[b]
  BY <1>1 DEF TranscriptInv
<1>4. \A b \in Transcribers : run'[b] # NoAttempt => Placed(run'[b], rec) /\ run'[b].next <= Len(segs)
  BY <1>3, Zenon DEF TranscriptInv
<1> HIDE DEF r
<1>5. ASSUME solo
      PROVE  RowsTrue(rec, segs, t, flawed) /\ \A b \in Transcribers : run'[b] = NoAttempt
  <2>1. Len(t) <= Len(segs) /\ (~flawed => NoneMissing(rec, segs, <<>>, Ms(rec)))
    BY <1>1, <1>2, <1>5 DEF Alone, WordsKept
  <2>2. Len(t) \in Nat /\ Len(segs) \in Nat
    BY <1>2 DEF AttemptStates
  <2>3. Len(t) = Len(segs)
    BY <1>1, <2>1, <2>2
  <2>4. InTime(segs) /\ (~flawed => \A i \in 1..Len(segs) : NoneMissing(rec, segs, <<>>, segs[i].end))
    BY <1>2, <1>5 DEF RowsTrue
  <2>5. RowsTrue(rec, segs, t, flawed)
    BY <2>1, <2>3, <2>4 DEF RowsTrue
  <2>6. \A b \in Transcribers : run'[b] = NoAttempt
    <3> SUFFICES ASSUME NEW b \in Transcribers PROVE run'[b] = NoAttempt
      OBVIOUS
    <3>1. b = a \/ run[b] = NoAttempt
      BY <1>2, <1>5
    <3> QED
      BY <1>3, <3>1
  <2> QED
    BY <2>5, <2>6
<1>6. /\ rec' \in Recordings /\ segs' \in Seq(SegmentRows) /\ names' \in SpeakerRows
      /\ solo' \in BOOLEAN /\ flawed' \in BOOLEAN
      /\ rec' = rec /\ segs' = segs /\ blob' = t /\ solo' = solo /\ flawed' = flawed
  BY <1>1 DEF TranscriptInv
<1>7. \A b \in Transcribers : run'[b] # NoAttempt => Placed(run'[b], rec') /\ run'[b].next <= Len(segs')
  BY <1>4, <1>6
<1>8. solo' => RowsTrue(rec', segs', blob', flawed') /\ \A b \in Transcribers : run'[b] = NoAttempt
  BY <1>5, <1>6
<1> QED
  BY <1>3, <1>6, <1>7, <1>8, Zenon DEF TranscriptInv

(* The times of the rows, which no edit touches.                             *)
SameTimes(sq, z) ==
    /\ Len(z) = Len(sq)
    /\ \A i \in 1..Len(sq) : z[i].start = sq[i].start /\ z[i].end = sq[i].end

(* What depends on the times alone.                                          *)
LEMMA TimesDecide ==
    ASSUME NEW sq, NEW z, SameTimes(sq, z)
    PROVE  /\ InTime(sq) => InTime(z)
           /\ \A r, out, c : NoneMissing(r, sq, out, c) => NoneMissing(r, z, out, c)
           /\ \A r, bl, cl : RowsTrue(r, sq, bl, cl) => RowsTrue(r, z, bl, cl)
           /\ \A x, r, cl : Alone(x, r, sq, cl) => Alone(x, r, z, cl)
<1>1. InTime(sq) => InTime(z)
  BY DEF InTime, SameTimes
<1>2. \A t : CoveredAt(sq, t) => CoveredAt(z, t)
  BY DEF CoveredAt, Covers, SameTimes
<1>3. \A r, out, c : NoneMissing(r, sq, out, c) => NoneMissing(r, z, out, c)
  BY <1>2, Zenon DEF NoneMissing
<1>4. ASSUME NEW r, NEW bl, NEW cl, RowsTrue(r, sq, bl, cl) PROVE RowsTrue(r, z, bl, cl)
  <2>1. ~cl => \A i \in 1..Len(z) : NoneMissing(r, z, <<>>, z[i].end)
    BY <1>3, <1>4 DEF RowsTrue, SameTimes
  <2>2. bl # NoEdit => Len(bl) = Len(z) /\ (~cl => NoneMissing(r, z, <<>>, Ms(r)))
    BY <1>3, <1>4 DEF RowsTrue, SameTimes
  <2>3. InTime(z)
    BY <1>1, <1>4 DEF RowsTrue
  <2> QED
    BY <2>1, <2>2, <2>3 DEF RowsTrue
<1>5. ASSUME NEW x, NEW r, WordsKept(x, r, sq) PROVE WordsKept(x, r, z)
  <2>1. /\ NoneMissing(r, z, <<>>, x.committed)
        /\ x.pc \in {"fill", "call"} => NoneMissing(r, z, <<>>, x.start)
        /\ x.pc = "call" => x.ended \/ 2 * Overlap <= MsFor(x.len)
        /\ x.pc = "commit" => NoneMissing(r, z, x.out, IF x.ended THEN Ms(r) ELSE x.start + x.advance)
        /\ x.pc = "write" => NoneMissing(r, z, <<>>, Ms(r))
    BY <1>3, <1>5, Zenon DEF WordsKept
  <2>2. ASSUME x.pc = "commit", NEW i \in 1..Len(x.out), NEW t \in Nat, ShortAt(r, t), t < x.out[i].end
        PROVE  CoveredAt(z, t) \/ \E j \in 1..i : Covers(x.out[j], t)
    BY <1>2, <1>5, <2>2, Zenon DEF WordsKept
  <2> QED
    BY <2>1, <2>2, Zenon DEF WordsKept
<1>6. ASSUME NEW x, NEW r, NEW cl, Alone(x, r, sq, cl) PROVE Alone(x, r, z, cl)
  <2>1. ~cl => OnTime(x, r) /\ WordsKept(x, r, z)
    BY <1>5, <1>6 DEF Alone
  <2>2. x.next = Len(z) /\ Len(x.text) <= Len(z) /\ \A i \in 1..Len(z) : z[i].end <= x.committed
    BY <1>6 DEF Alone, SameTimes
  <2> QED
    BY <2>1, <2>2 DEF Alone
<1> QED
  BY <1>1, <1>3, <1>4, <1>6, Zenon

(* A step that edits a row, or none, while the attempts stand still.         *)
LEMMA EditedSteps ==
    ASSUME TranscriptInv, NEW z \in Seq(SegmentRows), segs' = z, SameTimes(segs, z), names' \in SpeakerRows,
           UNCHANGED <<rec, run, blob, solo, flawed>>
    PROVE  TranscriptInv'
<1>1. /\ \A r, bl, cl : RowsTrue(r, segs, bl, cl) => RowsTrue(r, z, bl, cl)
      /\ \A x, r, cl : Alone(x, r, segs, cl) => Alone(x, r, z, cl)
      /\ Len(z) = Len(segs)
  BY TimesDecide DEF SameTimes
<1>2. /\ rec' \in Recordings /\ segs' \in Seq(SegmentRows) /\ names' \in SpeakerRows
      /\ solo' \in BOOLEAN /\ flawed' \in BOOLEAN
      /\ rec' = rec /\ segs' = z /\ blob' = blob /\ solo' = solo /\ flawed' = flawed /\ run' = run
      /\ run' \in [Transcribers -> AttemptStates \cup {NoAttempt}]
  BY DEF TranscriptInv
<1>3. \A b \in Transcribers : run[b] # NoAttempt => Placed(run[b], rec) /\ run[b].next <= Len(z)
  BY <1>1 DEF TranscriptInv
<1>4. solo =>
        /\ RowsTrue(rec, z, blob, flawed)
        /\ \A b \in Transcribers : run[b] # NoAttempt => Alone(run[b], rec, z, flawed) /\ blob = NoEdit
        /\ \A b, c \in Transcribers : run[b] # NoAttempt /\ run[c] # NoAttempt => b = c
  BY <1>1, Zenon DEF TranscriptInv
<1> HIDE DEF TranscriptInv
<1> QED
  BY <1>2, <1>3, <1>4 DEF TranscriptInv

(* One column of a row that is there is updated.                             *)
LEMMA RowIsEdited ==
    ASSUME segs \in Seq(SegmentRows), NEW i, NEW row,
           i \in 1..Len(segs) => row \in SegmentRows /\ row.start = segs[i].start /\ row.end = segs[i].end
    PROVE  EditedRow(i, row) \in Seq(SegmentRows) /\ SameTimes(segs, EditedRow(i, row))
<1>1. DOMAIN segs = 1..Len(segs) /\ \A j \in 1..Len(segs) : segs[j] \in SegmentRows
  OBVIOUS
<1>2. CASE i \in DOMAIN segs
  <2> DEFINE z == [segs EXCEPT ![i] = row]
  <2>1. EditedRow(i, row) = z /\ i \in 1..Len(segs)
    BY <1>1, <1>2 DEF EditedRow
  <2>2. z \in Seq(SegmentRows) /\ Len(z) = Len(segs)
    BY <2>1
  <2>3. \A j \in 1..Len(segs) : z[j] = IF j = i THEN row ELSE segs[j]
    BY <1>1
  <2> HIDE DEF z
  <2>4. SameTimes(segs, z)
    BY <2>1, <2>2, <2>3 DEF SameTimes
  <2> QED
    BY <2>1, <2>2, <2>4
<1>3. CASE i \notin DOMAIN segs
  BY <1>3 DEF EditedRow, SameTimes
<1> QED
  BY <1>2, <1>3

(* transcript.correct and transcript.speaker-assign leave the times alone.   *)
LEMMA EditStep ==
    ASSUME TranscriptInv, NEW i, TextCorrected(i) \/ \E s \in Speakers : SpeakerSet(i, s)
    PROVE  TranscriptInv'
<1>1. segs \in Seq(SegmentRows) /\ names \in SpeakerRows
  BY DEF TranscriptInv
<1>2. CASE TextCorrected(i)
  <2> DEFINE row == [segs[i] EXCEPT !.edited = "corrected"]
  <2>1. segs' = EditedRow(i, row) /\ UNCHANGED <<rec, names, run, blob, solo, flawed>>
    BY <1>2 DEF TextCorrected
  <2>2. ASSUME i \in 1..Len(segs)
        PROVE  row \in SegmentRows /\ row.start = segs[i].start /\ row.end = segs[i].end
    <3>1. segs[i] \in SegmentRows
      BY <1>1, <2>2
    <3> QED
      BY <3>1 DEF SegmentRows
  <2> HIDE DEF row
  <2>3. EditedRow(i, row) \in Seq(SegmentRows) /\ SameTimes(segs, EditedRow(i, row))
    BY <1>1, <2>2, RowIsEdited
  <2>4. names' \in SpeakerRows
    BY <1>1, <2>1
  <2> QED
    BY <2>1, <2>3, <2>4, EditedSteps
<1>3. ASSUME NEW s \in Speakers, SpeakerSet(i, s) PROVE TranscriptInv'
  <2> DEFINE row == [segs[i] EXCEPT !.speaker = s]
  <2>1. segs' = EditedRow(i, row) /\ UNCHANGED <<rec, names, run, blob, solo, flawed>>
    BY <1>3 DEF SpeakerSet
  <2>2. ASSUME i \in 1..Len(segs)
        PROVE  row \in SegmentRows /\ row.start = segs[i].start /\ row.end = segs[i].end
    <3>1. segs[i] \in SegmentRows
      BY <1>1, <2>2
    <3> QED
      BY <3>1 DEF SegmentRows
  <2> HIDE DEF row
  <2>3. EditedRow(i, row) \in Seq(SegmentRows) /\ SameTimes(segs, EditedRow(i, row))
    BY <1>1, <2>2, RowIsEdited
  <2>4. names' \in SpeakerRows
    BY <1>1, <2>1
  <2> QED
    BY <2>1, <2>3, <2>4, EditedSteps
<1> QED
  BY <1>2, <1>3

(* transcript.speaker-name and steps that change nothing.                    *)
LEMMA RowsStayStep ==
    ASSUME TranscriptInv, (\E s \in Speakers : SpeakerNamed(s)) \/ UNCHANGED transcriptVars
    PROVE  TranscriptInv'
<1>1. segs' = segs /\ UNCHANGED <<rec, run, blob, solo, flawed>>
  BY DEF SpeakerNamed, transcriptVars
<1>2. segs \in Seq(SegmentRows) /\ names \in SpeakerRows
  BY DEF TranscriptInv
<1>3. names' \in SpeakerRows
  BY <1>2 DEF SpeakerNamed, transcriptVars, SpeakerRows
<1>4. SameTimes(segs, segs)
  BY DEF SameTimes
<1> QED
  BY <1>1, <1>2, <1>3, <1>4, EditedSteps

(* Every step of TRANSCRIBE and of its editors keeps the invariant.          *)
LEMMA TranscriptStep ==
    ASSUME TranscriptInv, [TranscriptNext]_transcriptVars
    PROVE  TranscriptInv'
<1>1. ASSUME NEW a \in Transcribers,
             \/ BeginAttempt(a) \/ Fill(a) \/ CallEngine(a) \/ CommitBatch(a) \/ Drain(a)
             \/ WritePage(a) \/ Publish(a) \/ AttemptLost(a)
      PROVE  TranscriptInv'
  BY <1>1, BeginStep, FillStep, CallStep, EmitStep, DrainStep, PageStep, PublishStep, LostStep
<1>2. ASSUME NEW i \in {1}, TextCorrected(i) \/ \E s \in Speakers : SpeakerSet(i, s) PROVE TranscriptInv'
  BY <1>2, EditStep
<1> QED
  BY <1>1, <1>2, RowsStayStep DEF TranscriptNext

(* The invariant gives the property.                                         *)
LEMMA TranscriptHolds ==
    ASSUME TranscriptInv
    PROVE  TranscriptSound
<1>1. /\ segs \in Seq(SegmentRows) /\ names \in SpeakerRows /\ rec \in Recordings
      /\ solo => RowsTrue(rec, segs, blob, flawed)
  BY DEF TranscriptInv
<1>2. DOMAIN segs = 1..Len(segs) /\ \A i \in 1..Len(segs) : segs[i] \in SegmentRows
  BY <1>1
<1>3. /\ DOMAIN rec.words = WordsOf(rec)
      /\ \A k \in WordsOf(rec) : /\ rec.words[k].start \in Nat /\ rec.words[k].end \in Nat
                                 /\ rec.words[k].end <= Ms(rec)
      /\ Ms(rec) \in Nat
  BY <1>1, RecordingType
<1>4. ASSUME solo, blob # NoEdit, ~flawed, NEW k \in DOMAIN rec.words, Short(k), NEW t \in Spoken(k)
      PROVE  \E i \in DOMAIN segs : segs[i].start <= t /\ t < segs[i].end
  <2>1. t \in Nat /\ rec.words[k].start <= t /\ t < rec.words[k].end
    BY <1>3, <1>4 DEF Spoken
  <2>2. ShortAt(rec, t)
    BY <1>3, <1>4, <2>1 DEF ShortAt, Short, Covers
  <2>3. t < Ms(rec)
    BY <1>3, <2>1
  <2>4. CoveredAt(segs, t) \/ CoveredAt(<<>>, t)
    BY <1>1, <1>4, <2>1, <2>2, <2>3 DEF RowsTrue, NoneMissing
  <2> QED
    BY <1>2, <2>4, NothingCovered DEF CoveredAt, Covers
<1>5. solo => \A i, j \in DOMAIN segs : i < j => segs[i].end <= segs[j].start
  BY <1>1, <1>2 DEF RowsTrue, InTime
<1>a. \A a \in Transcribers : run[a] # NoAttempt => Late(run[a].from, run[a].start, run[a].skips)
  BY DEF TranscriptInv, Placed
<1>6. solo /\ blob # NoEdit => Len(blob) = Len(segs)
  BY <1>1 DEF RowsTrue
<1> QED
  BY <1>1, <1>2, <1>4, <1>5, <1>6, <1>a, Zenon DEF TranscriptSound, Late

(* TRANSCRIBE, for every recording, sample rate, packet, window, overlap,    *)
(* batch and page size, whatever ends the engine gives and however many      *)
(* attempts die: the rows keep their columns, and a window's label is behind *)
(* its first sample by less than a millisecond for each window the resume    *)
(* dropped; while one attempt runs at a time the committed segments are in   *)
(* order and do not overlap, and a published transcript has a text for each  *)
(* row and misses no word that lasts at most the overlap, unless a window    *)
(* before the last one was shorter than two overlaps, a resume dropped part  *)
(* of a millisecond or an answer ended past its window.                      *)
THEOREM TranscriptIsSound == TranscriptSpec => []TranscriptSound
<1>1. TranscriptInit => TranscriptInv
  <2> SUFFICES ASSUME TranscriptInit PROVE TranscriptInv
    OBVIOUS
  <2>1. /\ rec \in Recordings /\ segs = <<>> /\ names = {} /\ blob = NoEdit
        /\ run = [a \in Transcribers |-> NoAttempt] /\ solo \in BOOLEAN /\ flawed = FALSE
    BY DEF TranscriptInit
  <2>2. segs \in Seq(SegmentRows) /\ names \in SpeakerRows
    BY <2>1 DEF SpeakerRows
  <2>3. RowsTrue(rec, segs, blob, flawed)
    BY <2>1 DEF RowsTrue, InTime
  <2>4. run \in [Transcribers -> AttemptStates \cup {NoAttempt}] /\ \A a \in Transcribers : run[a] = NoAttempt
    BY <2>1
  <2> QED
    BY <2>1, <2>2, <2>3, <2>4 DEF TranscriptInv
<1>2. TranscriptInv /\ [TranscriptNext]_transcriptVars => TranscriptInv'
  BY TranscriptStep
<1>3. TranscriptInv => TranscriptSound
  BY TranscriptHolds
<1> QED
  BY <1>1, <1>2, <1>3, PTL DEF TranscriptSpec

-----------------------------------------------------------------------------
(* Audio: arithmetic of positions.                                           *)

(* A quotient is below a number when the dividend is below its multiple.     *)
LEMMA QuotientBelow ==
    ASSUME NEW a \in Int, NEW m \in Int, NEW d \in Nat, d > 0
    PROVE  /\ a < m * d => a \div d < m
           /\ a >= m * d => a \div d >= m
           /\ a \div d < m => a < m * d
<1> DEFINE q == a \div d
<1>1. q \in Int /\ q * d <= a /\ a < q * d + d
  BY Divided
<1> HIDE DEF q
<1>2. ASSUME a < m * d PROVE q < m
  <2> SUFFICES ASSUME m <= q PROVE FALSE
    BY <1>1
  <2>1. m * d <= q * d
    BY <1>1, Scaled
  <2> QED
    BY <1>1, <1>2, <2>1
<1>3. ASSUME q < m PROVE a < m * d
  <2>1. (q + 1) * d <= m * d
    BY <1>1, <1>3, Scaled
  <2>2. (q + 1) * d = q * d + d
    BY <1>1
  <2> QED
    BY <1>1, <2>1, <2>2
<1>4. a >= m * d => q >= m
  BY <1>1, <1>3
<1> QED
  BY <1>2, <1>3, <1>4 DEF q

-----------------------------------------------------------------------------
(* Audio: the inductive invariant.                                           *)

Samples == [center: Nat, taps: SUBSET Nat]

(* A history that ends where the decoder is.                                 *)
Follows(held, upto) ==
    /\ held \in Seq(Nat)
    /\ Len(held) <= upto
    /\ \A i \in 1..Len(held) : held[i] = upto - Len(held) + i - 1

(* A centre that n additions led to.                                         *)
Near(center, n) == center \in (n * (Num - Slack))..(n * (Num + Slack))

(* The next centre is near the grid and a step after the last one, and what  *)
(* was dropped is out of its reach.                                          *)
StepsOn(sq, center) ==
    /\ Near(center, Len(sq))
    /\ IF sq = <<>> THEN center = 0 ELSE center <= sq[Len(sq)].center + Num + Slack
OnGrid(held, upto, next, sq) ==
    /\ StepsOn(sq, next + (upto - Len(held)) * Den)
    /\ upto = Len(held) \/ next >= HalfTaps * Den

(* A sample on its place, whose kernel saw what it reaches.                  *)
OnPlace(sample, k, upto) ==
    /\ sample \in Samples
    /\ Near(sample.center, k - 1)
    /\ sample.taps = Reach(sample.center) \cap (0..(upto - 1))
    /\ sample.center < upto * Den

(* A kernel that nothing still to be decoded can reach.                      *)
Settled(sample, upto) == sample.center \div Den + HalfTaps < upto

(* No sample is missing at the end.                                          *)
Complete(sq, upto) ==
    IF sq = <<>> THEN upto = 0 ELSE upto * Den <= sq[Len(sq)].center + Num + Slack

AudioType ==
    /\ track \in Tracks
    /\ fed \in Nat /\ position \in Nat
    /\ history \in Seq(Nat)
    /\ output \in Seq(Samples)
    /\ apc \in {"decode", "emit", "drain"} => track.rate > 0

OutputPlaced ==
    /\ \A k \in 1..Len(output) : OnPlace(output[k], k, fed)
    /\ ~Passthrough /\ apc \notin {"drain", "ended"} => \A k \in 1..Len(output) : Settled(output[k], fed)

HistoryExact ==
    /\ Passthrough => history = <<>> /\ fed = Len(output) /\ apc \notin {"emit", "drain"}
    /\ ~Passthrough /\ apc # "ended" => Follows(history, fed) /\ OnGrid(history, fed, position, output)
    /\ apc # "emit" => Len(history) <= 2 * HalfTaps + 1

EndReached == apc = "ended" => Complete(output, fed)

AudioInv == AudioType /\ OutputPlaced /\ HistoryExact /\ EndReached

(* The constants, one by one.                                                *)
LEMMA AudioConstants ==
    /\ EngineRate \in Nat /\ EngineRate > 0
    /\ HalfTaps \in Nat
    /\ RateMin \in Nat /\ RateMin > 0 /\ RateMax \in Nat
    /\ Grains \in Nat /\ Rounding \in Nat /\ Rounding < Grains
    /\ \A t \in Tracks : t.rate \in Nat
    /\ \A n \in PacketFrames : n \in Nat
  BY AudioAssumption

(* A rounding is smaller than a source sample and than a step.               *)
LEMMA Sizes ==
    ASSUME track \in Tracks
    PROVE  /\ Den \in Nat /\ Den > 0 /\ Rounding < Den
           /\ Num \in Nat /\ (track.rate > 0 => Rounding < Num)
           /\ Slack \in Nat /\ Slack <= Rounding /\ Rounding \in Nat
           /\ Passthrough => Num = Den /\ Slack = 0
           /\ ~Passthrough => Slack = Rounding
<1> DEFINE e == EngineRate
<1> DEFINE t == track.rate
<1> DEFINE g == Grains
<1>1. e \in Nat /\ e > 0 /\ t \in Nat /\ g \in Nat /\ Rounding \in Nat /\ Rounding < g
  BY AudioConstants
<1>2. Den = e * g /\ Num = t * g
  BY DEF Den, Num
<1>3. (t = e => Slack = 0) /\ (t # e => Slack = Rounding)
  BY DEF Slack, Passthrough
<1>4. Passthrough <=> t = e
  BY DEF Passthrough
<1> HIDE DEF e, t, g
<1>5. 1 * g = g /\ e * g \in Nat /\ t * g \in Nat
  BY <1>1
<1>6. 1 * g <= e * g
  BY <1>1, Scaled
<1>7. t > 0 => 1 * g <= t * g
  BY <1>1, Scaled
<1> QED
  BY <1>1, <1>2, <1>3, <1>4, <1>5, <1>6, <1>7 DEF t

(* One more addition.                                                        *)
LEMMA NearNext ==
    ASSUME track \in Tracks, NEW c \in Int, NEW n \in Nat, Near(c, n), NEW e \in (-Slack)..Slack
    PROVE  Near(c + Num + e, n + 1)
<1> DEFINE lo == Num - Slack
<1> DEFINE hi == Num + Slack
<1>1. Num \in Int /\ Slack \in Nat /\ lo \in Int /\ hi \in Int
  BY Sizes
<1>2. e \in Int /\ lo <= Num + e /\ Num + e <= hi
  BY <1>1
<1>3. Near(c + Num + e, n + 1) <=> c + Num + e \in ((n + 1) * lo)..((n + 1) * hi)
  BY DEF Near
<1>4. c \in (n * lo)..(n * hi)
  BY DEF Near
<1> HIDE DEF lo, hi
<1>5. (n + 1) * lo = n * lo + lo /\ (n + 1) * hi = n * hi + hi /\ n * lo \in Int /\ n * hi \in Int
  BY <1>1
<1> QED
  BY <1>1, <1>2, <1>3, <1>4, <1>5

(* The invariant is what the property says.                                  *)
LEMMA AudioInvImplies == AudioInv => ResampleSound
<1> SUFFICES ASSUME AudioInv PROVE ResampleSound
  OBVIOUS
<1>1. output \in Seq(Samples) /\ fed \in Nat /\ DOMAIN output = 1..Len(output)
  BY DEF AudioInv, AudioType
<1>2. \A k \in 1..Len(output) : OnPlace(output[k], k, fed)
  BY DEF AudioInv, OutputPlaced
<1>3. \A k \in DOMAIN output :
        /\ output[k].taps = Reach(output[k].center) \cap (0..(fed - 1))
        /\ output[k].center \in ((k - 1) * (Num - Slack))..((k - 1) * (Num + Slack))
  BY <1>1, <1>2 DEF OnPlace, Near
<1>4. apc = "ended" => IF output = <<>> THEN fed = 0
                       ELSE Last(output).center < fed * Den /\ fed * Den <= Last(output).center + Num + Slack
  <2>1. CASE output = <<>>
    BY <2>1 DEF AudioInv, EndReached, Complete
  <2>2. CASE output # <<>>
    <3>1. Last(output) = output[Len(output)] /\ Len(output) \in 1..Len(output)
      BY <1>1, <2>2 DEF Last
    <3>2. Last(output).center < fed * Den
      BY <1>2, <3>1 DEF OnPlace
    <3> QED
      BY <2>2, <3>1, <3>2 DEF AudioInv, EndReached, Complete
  <2> QED
    BY <2>1, <2>2
<1>5. apc \in {"decode", "ended"} => Len(history) <= 2 * HalfTaps + 1
  BY DEF AudioInv, HistoryExact
<1> QED
  BY <1>3, <1>4, <1>5 DEF ResampleSound

(* sample_at, inside a history whose lost part is out of the kernel's reach. *)
LEMMA SampleAtExact ==
    ASSUME track \in Tracks, ~Passthrough, NEW held, NEW upto \in Nat, Follows(held, upto),
           NEW c \in Nat, c < Len(held) * Den, upto = Len(held) \/ c >= HalfTaps * Den
    PROVE  /\ SampleAt(held, c) \in Samples
           /\ SampleAt(held, c).center = (upto - Len(held)) * Den + c
           /\ SampleAt(held, c).taps = Reach(SampleAt(held, c).center) \cap (0..(upto - 1))
           /\ SampleAt(held, c).center < upto * Den
           /\ c < Len(held) * Den - HalfTaps * Den => Settled(SampleAt(held, c), upto)
<1> DEFINE d == Den
<1> DEFINE n == Len(held)
<1> DEFINE b == c \div d
<1> DEFINE base == upto - n
<1>1. d \in Nat /\ d > 0 /\ HalfTaps \in Nat
  BY AudioConstants, Sizes
<1>2. n \in Nat /\ n <= upto /\ base \in Nat
  BY DEF Follows
<1>3. \A i \in 1..n : held[i] = base + i - 1
  BY <1>2 DEF Follows
<1>4. b \in Int /\ b * d <= c /\ c < b * d + d
  BY <1>1, Divided
<1>5. 0 <= b /\ b < n
  <2>1. c >= 0 * d
    BY <1>1
  <2> HIDE DEF d
  <2> QED
    BY <1>1, <1>2, <2>1, QuotientBelow DEF d
<1>6. base = 0 \/ b >= HalfTaps
  <2> QED
    BY <1>1, <1>2, QuotientBelow
<1>7. (base * d + c) \div d = base + b
  BY <1>1, <1>2, QuotientShift
<1> DEFINE I == {j \in (b - HalfTaps + 1)..(b + HalfTaps) : j >= 0 /\ j < n}
<1>8. SampleAt(held, c) = [center |-> held[1] * d + c, taps |-> {held[i + 1] : i \in I}]
  BY DEF SampleAt
<1>9. held[1] = base
  <2>1. 1 \in 1..n
    BY <1>2, <1>4, <1>5
  <2> QED
    BY <1>2, <1>3, <2>1
<1> HIDE DEF d, n, b, base
<1>10. {held[i + 1] : i \in I} = ((base + b) - HalfTaps + 1)..((base + b) + HalfTaps) \cap (0..(upto - 1))
  <2>1. \A i \in I : i \in Nat /\ held[i + 1] = base + i
    BY <1>1, <1>2, <1>3, <1>4
  <2>2. upto = base + n
    BY <1>2 DEF base
  <2>3. ASSUME NEW x \in ((base + b) - HalfTaps + 1)..((base + b) + HalfTaps) \cap (0..(upto - 1))
        PROVE  x \in {held[i + 1] : i \in I}
    <3>1. x \in Int /\ x >= base
      BY <1>1, <1>2, <1>4, <1>6, <2>3
    <3>2. x - base \in I
      BY <1>1, <1>2, <1>4, <2>2, <2>3, <3>1
    <3>3. held[(x - base) + 1] = x
      BY <1>2, <2>1, <3>1, <3>2
    <3> QED
      BY <3>2, <3>3
  <2>4. ASSUME NEW x \in {held[i + 1] : i \in I}
        PROVE  x \in ((base + b) - HalfTaps + 1)..((base + b) + HalfTaps) \cap (0..(upto - 1))
    <3>1. PICK i \in I : x = held[i + 1]
      BY <2>4
    <3>2. x = base + i /\ i \in Nat
      BY <2>1, <3>1
    <3> QED
      BY <1>1, <1>2, <1>4, <2>2, <3>1, <3>2
  <2> QED
    BY <2>3, <2>4
<1>11. SampleAt(held, c).center = base * d + c
  BY <1>8, <1>9
<1>12. SampleAt(held, c).taps = {held[i + 1] : i \in I}
  BY <1>8
<1>13. Reach(base * d + c) = ((base + b) - HalfTaps + 1)..((base + b) + HalfTaps)
  BY <1>7 DEF Reach, d
<1>14. base * d \in Nat /\ base * d + c \in Nat
  BY <1>1, <1>2
<1>15. SampleAt(held, c) \in Samples
  <2>1. {held[i + 1] : i \in I} \in SUBSET Nat
    BY <1>10
  <2> HIDE DEF I
  <2> QED
    BY <1>8, <1>9, <1>14, <2>1 DEF Samples
<1>16. base * d + c < upto * d
  <2>1. upto * d = base * d + n * d
    BY <1>1, <1>2 DEF base
  <2>2. c < n * d
    BY DEF n, d
  <2>3. n * d \in Int
    BY <1>1, <1>2
  <2> QED
    BY <1>14, <2>1, <2>2, <2>3
<1>17. ASSUME c < n * d - HalfTaps * d PROVE (base * d + c) \div d + HalfTaps < upto
  <2>1. c < (n - HalfTaps) * d
    BY <1>1, <1>2, <1>17
  <2>2. b < n - HalfTaps
    BY <1>1, <1>2, <2>1, QuotientBelow DEF b
  <2> QED
    BY <1>1, <1>2, <1>4, <1>7, <2>2 DEF base
<1>18. c < n * d - HalfTaps * d => Settled(SampleAt(held, c), upto)
  BY <1>11, <1>17 DEF Settled, d
<1>19. SampleAt(held, c).taps = Reach(SampleAt(held, c).center) \cap (0..(upto - 1))
  BY <1>10, <1>11, <1>12, <1>13
<1> QED
  BY <1>11, <1>15, <1>16, <1>18, <1>19 DEF d, n, base

(* A settled sample stays exact however much more is decoded.                *)
LEMMA ExactLater ==
    ASSUME track \in Tracks, ~Passthrough, NEW f \in Nat, NEW g \in Nat, f <= g,
           NEW k \in Nat, NEW sample, OnPlace(sample, k, f), Settled(sample, f)
    PROVE  OnPlace(sample, k, g) /\ Settled(sample, g)
<1> DEFINE d == Den
<1> DEFINE b == sample.center \div d
<1>1. d \in Nat /\ d > 0 /\ HalfTaps \in Nat
  BY AudioConstants, Sizes
<1>2. sample.center \in Nat
  BY DEF OnPlace, Samples
<1>3. b \in Int /\ b + HalfTaps < f
  BY <1>1, <1>2, Divided DEF Settled
<1>4. sample.taps = ((b - HalfTaps + 1)..(b + HalfTaps)) \cap (0..(f - 1))
  BY DEF OnPlace, Reach
<1>5. Reach(sample.center) = (b - HalfTaps + 1)..(b + HalfTaps)
  BY DEF Reach
<1> HIDE DEF d, b
<1>6. sample.taps = ((b - HalfTaps + 1)..(b + HalfTaps)) \cap (0..(g - 1))
  BY <1>1, <1>3, <1>4
<1>7. f * d <= g * d /\ f * d \in Int /\ g * d \in Int
  BY <1>1, Scaled
<1>8. sample.center < g * d
  BY <1>2, <1>7 DEF OnPlace, d
<1>9. b + HalfTaps < g
  BY <1>1, <1>3
<1> QED
  BY <1>5, <1>6, <1>8, <1>9 DEF OnPlace, Settled, b, d

(* The history that is dropped: none of it is in reach of the next centre,   *)
(* and what stays is no longer than the kernel.                              *)
LEMMA DropExact ==
    ASSUME track \in Tracks, NEW len \in Nat, NEW next \in Nat, NEW drop, drop = Min({Kept(next), len})
    PROVE  /\ drop \in 0..len
           /\ drop = 0 \/ next - drop * Den >= HalfTaps * Den
           /\ next - drop * Den >= 0
           /\ next + Rounding >= len * Den - HalfTaps * Den => len - drop <= 2 * HalfTaps + 1
<1> DEFINE d == Den
<1> DEFINE h == HalfTaps * d
<1> DEFINE m == Max({0, next - h})
<1> DEFINE q == m \div d
<1>0. d \in Nat /\ d > 0 /\ HalfTaps \in Nat /\ Rounding \in Nat /\ Rounding < d
  BY AudioConstants, Sizes
<1> HIDE DEF d
<1>1. d \in Nat /\ d > 0 /\ HalfTaps \in Nat /\ h \in Nat
  BY <1>0
<1>2. m \in Nat /\ (m = 0 \/ m = next - h) /\ m >= next - h
  <2>1. 0 \in Int /\ next - h \in Int
    BY <1>1
  <2> DEFINE z == next - h
  <2> HIDE DEF z
  <2>2. m \in {0, z} /\ m >= 0 /\ m >= z
    BY <2>1, OfTwo, Zenon DEF z
  <2> HIDE DEF m, h
  <2> QED
    BY <2>1, <2>2 DEF z
<1>3. q \in Int /\ q * d <= m /\ m < q * d + d
  <2> HIDE DEF m
  <2> QED
    BY <1>1, <1>2, Divided
<1>4. q >= 0
  <2>1. m >= 0 * d
    <3> HIDE DEF m
    <3> QED
      BY <1>1, <1>2
  <2> HIDE DEF m
  <2> QED
    BY <1>1, <1>2, <2>1, QuotientBelow
<1>5. drop = Min({q, len})
  BY DEF Kept, d
<1> HIDE DEF m, q
<1>6. drop = IF q <= len THEN q ELSE len
  <2>1. q \in Int /\ len \in Int
    BY <1>3
  <2>2. Min({q, len}) \in {q, len} /\ Min({q, len}) <= q /\ Min({q, len}) <= len
    BY <2>1, OfTwo, Zenon
  <2> QED
    BY <1>5, <2>1, <2>2
<1>7. drop \in 0..len /\ drop <= q
  BY <1>3, <1>4, <1>6
<1>8. drop * d <= q * d /\ drop * d \in Int /\ q * d \in Int
  BY <1>1, <1>3, <1>7, Scaled
<1>9. drop = 0 \/ next - drop * d >= h
  <2> SUFFICES ASSUME drop # 0 PROVE next - drop * d >= h
    OBVIOUS
  <2>1. q >= 1
    BY <1>3, <1>7
  <2>2. 1 * d <= q * d
    BY <1>1, <1>3, <2>1, Scaled
  <2>3. m > 0
    BY <1>1, <1>2, <1>3, <1>8, <2>2
  <2> HIDE DEF h
  <2> QED
    BY <1>1, <1>2, <1>3, <1>8, <2>3
<1>10. next - drop * d >= 0
  <2> HIDE DEF h
  <2> QED
    BY <1>1, <1>8, <1>9
<1>11. ASSUME next + Rounding >= len * d - h PROVE len - drop <= 2 * HalfTaps + 1
  <2>1. CASE drop = len
    BY <1>1, <2>1
  <2>2. CASE drop # len
    <3>1. drop = q
      BY <1>6, <2>2
    <3>2. len * d - h - h < q * d + d + d
      <4>1. len * d \in Int
        BY <1>1
      <4> HIDE DEF h
      <4> QED
        BY <1>0, <1>1, <1>2, <1>3, <1>8, <1>11, <4>1
    <3>3. (len - 2 * HalfTaps - 2) * d < q * d
      <4>1. (len - 2 * HalfTaps - 2) * d = len * d - h - h - d - d
        BY <1>1
      <4>2. len * d \in Int
        BY <1>1
      <4> HIDE DEF h
      <4> QED
        BY <1>1, <1>8, <3>2, <4>1, <4>2
    <3>4. ~(q <= len - 2 * HalfTaps - 2)
      <4> SUFFICES ASSUME q <= len - 2 * HalfTaps - 2 PROVE FALSE
        OBVIOUS
      <4>1. len - 2 * HalfTaps - 2 \in Int
        BY <1>1
      <4>2. q * d <= (len - 2 * HalfTaps - 2) * d
        BY <1>1, <1>3, <4>1, Scaled
      <4>3. (len - 2 * HalfTaps - 2) * d \in Int
        BY <1>1, <4>1
      <4> QED
        BY <1>8, <3>3, <4>2, <4>3
    <3> QED
      BY <1>1, <1>3, <3>1, <3>4
  <2> QED
    BY <2>1, <2>2
<1> QED
  BY <1>7, <1>9, <1>10, <1>11 DEF d, h

-----------------------------------------------------------------------------
(* Audio: the steps.                                                         *)

(* The invariant holds before the container is opened.                       *)
LEMMA AudioInitInv == AudioInit => AudioInv
<1> SUFFICES ASSUME AudioInit PROVE AudioInv
  OBVIOUS
<1>1. Den \in Nat /\ Num \in Nat /\ HalfTaps \in Nat /\ Slack \in Nat
  BY AudioConstants, Sizes DEF AudioInit
<1>2. AudioType
  BY DEF AudioInit, AudioType
<1>3. OutputPlaced
  BY DEF AudioInit, OutputPlaced
<1>4. HistoryExact
  <2>1. Len(<<>>) = 0 /\ 0 <= 2 * HalfTaps + 1
    BY <1>1
  <2>2. Follows(<<>>, 0)
    BY DEF Follows
  <2>3. OnGrid(<<>>, 0, 0, <<>>)
    <3>1. Near(0, 0)
      BY <1>1 DEF Near
    <3> QED
      BY <1>1, <2>1, <3>1 DEF OnGrid, StepsOn
  <2> QED
    BY <2>1, <2>2, <2>3 DEF AudioInit, HistoryExact
<1>5. EndReached
  BY DEF AudioInit, EndReached
<1> QED
  BY <1>2, <1>3, <1>4, <1>5 DEF AudioInv

(* The invariant after a step, from facts in which only the variables are    *)
(* primed.                                                                   *)
LEMMA AudioNextInv ==
    ASSUME AudioInv, UNCHANGED track, apc' \in {"decode", "emit", "drain"} => track.rate > 0,
           fed' \in Nat, position' \in Nat, history' \in Seq(Nat), output' \in Seq(Samples),
           \A k \in 1..Len(output') : OnPlace(output'[k], k, fed'),
           ~Passthrough /\ apc' \notin {"drain", "ended"} => \A k \in 1..Len(output') : Settled(output'[k], fed'),
           Passthrough => history' = <<>> /\ fed' = Len(output') /\ apc' \notin {"emit", "drain"},
           ~Passthrough /\ apc' # "ended" => Follows(history', fed') /\ OnGrid(history', fed', position', output'),
           apc' # "emit" => Len(history') <= 2 * HalfTaps + 1,
           apc' = "ended" => Complete(output', fed')
    PROVE  AudioInv'
<1> USE DEF Num, Den, Passthrough, Slack, Reach, Near
<1>1. AudioType'
  BY DEF AudioInv, AudioType
<1>2. OutputPlaced'
  BY DEF OutputPlaced, OnPlace, Settled
<1>3. HistoryExact'
  BY DEF HistoryExact, Follows, OnGrid, StepsOn
<1>4. EndReached'
  BY DEF EndReached, Complete
<1> QED
  BY <1>1, <1>2, <1>3, <1>4 DEF AudioInv

(* A step that touches nothing but the phase, into one that asks no more.    *)
LEMMA PhaseStep ==
    ASSUME AudioInv, apc \notin {"emit", "drain", "ended"}, apc' \notin {"emit", "ended"},
           apc' \in {"decode", "drain"} => track.rate > 0, apc' = "drain" => ~Passthrough,
           UNCHANGED <<track, fed, history, position, output>>
    PROVE  AudioInv'
  BY AudioNextInv DEF AudioInv, AudioType, OutputPlaced, HistoryExact

(* Opening a container takes nothing but the phase.                          *)
LEMMA OpenStep == ASSUME AudioInv, Open PROVE AudioInv'
<1>1. apc = "open" /\ UNCHANGED <<track, fed, history, position, output>>
  BY DEF Open
<1>2. apc' \in {"audio_io_failure", "audio_unsupported", Opened}
  BY DEF Open, ProbeError
<1>3. track.rate \in Nat /\ track.channels \in Nat /\ RateMin \in Nat /\ RateMin > 0 /\ RateMax \in Nat /\ ChannelMax \in Nat
  BY AudioAssumption DEF AudioInv, AudioType
<1>4. Opened \notin {"ended", "emit", "drain"} /\ (Opened = "decode" => track.rate > 0)
  BY <1>3 DEF Opened
<1> QED
  BY <1>1, <1>2, <1>4, PhaseStep

(* A failure of the stream leaves what was resampled as it is.               *)
LEMMA StreamFailsStep == ASSUME AudioInv, StreamFails PROVE AudioInv'
<1>1. apc = "decode" /\ UNCHANGED <<track, fed, history, position, output>>
  BY DEF StreamFails
<1>2. apc' \notin {"ended", "decode", "emit", "drain"}
  BY DEF StreamFails, StreamError
<1> QED
  BY <1>1, <1>2, PhaseStep

(* At the engine's own rate a packet goes through as it is.                  *)
LEMMA PassthroughExact ==
    ASSUME track \in Tracks, Passthrough, NEW f \in Nat, NEW g \in Nat, f < g
    PROVE  OnPlace([center |-> f * Den, taps |-> {f}], f + 1, g)
<1> DEFINE d == Den
<1>1. d \in Nat /\ d > 0 /\ Num = d /\ Slack = 0
  BY Sizes
<1> HIDE DEF d
<1>2. (f * d) \div d = f
  <2>1. f * d \in Int /\ f * d < f * d + d
    BY <1>1
  <2> QED
    BY <1>1, <2>1, QuotientIs
<1>3. f * d \in Nat /\ f * d < g * d
  <2>1. (f + 1) * d <= g * d
    BY <1>1, Scaled
  <2>2. (f + 1) * d = f * d + d /\ f * d \in Nat /\ g * d \in Nat
    BY <1>1
  <2> QED
    BY <1>1, <2>1, <2>2
<1>4. Reach(f * d) = {f}
  BY <1>2 DEF Reach, d
<1>5. {f} = {f} \cap (0..(g - 1))
  OBVIOUS
<1>6. Near(f * d, (f + 1) - 1)
  <2>1. (f + 1) - 1 = f /\ d - 0 = d /\ d + 0 = d
    BY <1>1
  <2> QED
    BY <1>1, <1>3, <2>1 DEF Near
<1> QED
  BY <1>3, <1>4, <1>5, <1>6 DEF OnPlace, Samples, d

(* A packet at the engine's own rate.                                        *)
LEMMA PassedStep ==
    ASSUME AudioInv, NEW frames \in PacketFrames, DecodePacket(frames), Passthrough
    PROVE  AudioInv'
<1> DEFINE mono == [i \in 1..frames |-> fed + i - 1]
<1> DEFINE new == [i \in 1..frames |-> [center |-> mono[i] * Den, taps |-> {mono[i]}]]
<1>1. frames \in Nat /\ HalfTaps \in Nat
  BY AudioConstants
<1>2. /\ track \in Tracks /\ fed \in Nat /\ position \in Nat
      /\ history = <<>> /\ output \in Seq(Samples) /\ track.rate > 0 /\ fed = Len(output)
  BY DEF AudioInv, AudioType, HistoryExact, DecodePacket
<1>3. apc = "decode" /\ apc' = "decode" /\ track' = track /\ fed' = fed + frames
  BY DEF DecodePacket
<1>4. output' = output \o new /\ history' = history /\ position' = position
  <2>1. DOMAIN mono = 1..frames
    OBVIOUS
  <2> QED
    BY <2>1 DEF DecodePacket
<1>5. fed' \in Nat /\ fed <= fed'
  BY <1>1, <1>2, <1>3
<1>6. \A k \in 1..Len(output) : OnPlace(output[k], k, fed)
  BY DEF AudioInv, OutputPlaced
<1>7. \A i \in 1..frames : OnPlace(new[i], fed + i, fed')
  <2> TAKE i \in 1..frames
  <2>1. mono[i] = fed + i - 1 /\ mono[i] \in Nat /\ mono[i] < fed' /\ mono[i] + 1 = fed + i
    BY <1>1, <1>2, <1>3
  <2>2. new[i] = [center |-> mono[i] * Den, taps |-> {mono[i]}]
    OBVIOUS
  <2> HIDE DEF mono, new
  <2> QED
    BY <1>2, <1>5, <2>1, <2>2, PassthroughExact
<1>8. new \in Seq(Samples) /\ Len(new) = frames
  <2>1. \A i \in 1..frames : new[i] \in Samples
    BY <1>7 DEF OnPlace
  <2>2. new \in [1..frames -> Samples]
    BY <2>1
  <2> HIDE DEF new
  <2> QED
    BY <1>1, <2>2
<1> HIDE DEF new, mono
<1>9. output' \in Seq(Samples) /\ Len(output') = fed + frames
  BY <1>2, <1>4, <1>8, ConcatProperties
<1>10. \A k \in 1..Len(output') : OnPlace(output'[k], k, fed')
  <2> TAKE k \in 1..Len(output')
  <2>1. CASE k <= fed
    <3>1. k \in 1..Len(output)
      BY <1>1, <1>2, <1>9, <2>1
    <3>2. output'[k] = output[k]
      BY <1>2, <1>4, <1>8, <3>1
    <3>3. Num = Den /\ Slack = 0 /\ Den \in Nat /\ k - 1 \in Nat /\ k - 1 < fed /\ k - 1 < fed' /\ (k - 1) + 1 = k
      BY <1>2, <1>5, <2>1, <3>1, Sizes
    <3>4. output[k] \in Samples /\ output[k].center = (k - 1) * Den
      <4>1. output[k] \in Samples /\ Near(output[k].center, k - 1)
        BY <1>6, <3>1 DEF OnPlace
      <4>2. Den - 0 = Den /\ Den + 0 = Den /\ (k - 1) * Den \in Int
        BY <3>3
      <4> QED
        BY <3>3, <4>1, <4>2 DEF Near
    <3>5. OnPlace([center |-> (k - 1) * Den, taps |-> {k - 1}], k, fed)
      BY <1>2, <3>3, PassthroughExact
    <3>6. OnPlace([center |-> (k - 1) * Den, taps |-> {k - 1}], k, fed')
      BY <1>2, <1>5, <3>3, PassthroughExact
    <3>7. output[k] = [center |-> (k - 1) * Den, taps |-> {k - 1}]
      <4>1. output[k].taps = Reach((k - 1) * Den) \cap (0..(fed - 1))
        BY <1>6, <3>1, <3>4 DEF OnPlace
      <4>2. {k - 1} = Reach((k - 1) * Den) \cap (0..(fed - 1))
        BY <3>5 DEF OnPlace
      <4> QED
        BY <3>4, <4>1, <4>2 DEF Samples
    <3> QED
      BY <3>2, <3>6, <3>7
  <2>2. CASE k > fed
    <3>1. k - fed \in 1..frames /\ fed + (k - fed) = k
      BY <1>1, <1>2, <1>9, <2>2
    <3>2. output'[k] = new[k - fed]
      BY <1>2, <1>4, <1>8, <1>9, <2>2
    <3> QED
      BY <1>7, <3>1, <3>2
  <2> QED
    BY <1>2, <1>9, <2>1, <2>2
<1>11. Len(history') <= 2 * HalfTaps + 1 /\ history' \in Seq(Nat) /\ position' \in Nat /\ fed' = Len(output')
  BY <1>1, <1>2, <1>3, <1>4, <1>9
<1> QED
  BY <1>2, <1>3, <1>4, <1>5, <1>9, <1>10, <1>11, AudioNextInv

(* A packet that joins the history.                                          *)
LEMMA PushedStep ==
    ASSUME AudioInv, NEW frames \in PacketFrames, DecodePacket(frames), ~Passthrough
    PROVE  AudioInv'
<1> DEFINE mono == [i \in 1..frames |-> fed + i - 1]
<1> DEFINE held == history \o mono
<1>1. frames \in Nat /\ HalfTaps \in Nat
  BY AudioConstants
<1>2. /\ track \in Tracks /\ fed \in Nat /\ position \in Nat
      /\ history \in Seq(Nat) /\ output \in Seq(Samples) /\ track.rate > 0
  BY DEF AudioInv, AudioType, DecodePacket
<1>3. /\ apc = "decode" /\ apc' = "emit" /\ track' = track /\ fed' = fed + frames
      /\ history' = held /\ output' = output /\ position' = position
  BY DEF DecodePacket
<1>4. mono \in Seq(Nat) /\ Len(mono) = frames /\ \A i \in 1..frames : mono[i] = fed + i - 1
  BY <1>1, <1>2
<1>5. fed' \in Nat /\ fed <= fed'
  BY <1>1, <1>2, <1>3
<1>6. Follows(history, fed) /\ OnGrid(history, fed, position, output)
  BY <1>3 DEF AudioInv, HistoryExact
<1> HIDE DEF mono
<1>7. held \in Seq(Nat) /\ Len(held) = Len(history) + frames
  BY <1>2, <1>4, ConcatProperties
<1>8. Follows(held, fed')
  <2>1. Len(history) \in Nat /\ Len(history) <= fed /\ \A i \in 1..Len(history) : history[i] = fed - Len(history) + i - 1
    BY <1>2, <1>6 DEF Follows
  <2>2. \A i \in 1..Len(held) : held[i] = fed' - Len(held) + i - 1
    <3> TAKE i \in 1..Len(held)
    <3>1. CASE i <= Len(history)
      <4>1. held[i] = history[i]
        BY <1>2, <1>4, <1>7, <2>1, <3>1
      <4> QED
        BY <1>1, <1>2, <1>3, <1>7, <2>1, <3>1, <4>1
    <3>2. CASE i > Len(history)
      <4>1. held[i] = mono[i - Len(history)]
        BY <1>2, <1>4, <1>7, <2>1, <3>2
      <4>2. i - Len(history) \in 1..frames
        BY <1>1, <1>7, <2>1, <3>2
      <4> QED
        BY <1>1, <1>2, <1>3, <1>4, <1>7, <2>1, <4>1, <4>2
    <3> QED
      BY <1>7, <2>1, <3>1, <3>2
  <2> QED
    BY <1>1, <1>2, <1>3, <1>7, <2>1, <2>2 DEF Follows
<1>9. OnGrid(held, fed', position, output)
  <2>1. fed' - Len(held) = fed - Len(history)
    BY <1>1, <1>2, <1>3, <1>7
  <2>2. fed' = Len(held) <=> fed = Len(history)
    BY <1>1, <1>2, <1>3, <1>7
  <2> QED
    BY <1>6, <2>1, <2>2 DEF OnGrid
<1>10. \A k \in 1..Len(output) : OnPlace(output[k], k, fed') /\ Settled(output[k], fed')
  <2> TAKE k \in 1..Len(output)
  <2>1. OnPlace(output[k], k, fed) /\ Settled(output[k], fed) /\ k \in Nat
    BY <1>2, <1>3 DEF AudioInv, OutputPlaced
  <2> QED
    BY <1>2, <1>5, <2>1, ExactLater
<1> HIDE DEF held
<1> QED
  BY <1>2, <1>3, <1>5, <1>7, <1>8, <1>9, <1>10, AudioNextInv

(* The end of the stream.                                                    *)
LEMMA StreamEndsStep == ASSUME AudioInv, StreamEnds PROVE AudioInv'
<1>1. /\ track \in Tracks /\ fed \in Nat /\ output \in Seq(Samples) /\ track.rate > 0
      /\ history \in Seq(Nat) /\ position \in Nat
  BY DEF AudioInv, AudioType, StreamEnds
<1>2. /\ apc = "decode" /\ apc' = IF Passthrough THEN "ended" ELSE "drain"
      /\ UNCHANGED <<track, fed, history, position, output>>
  BY DEF StreamEnds
<1>3. CASE ~Passthrough
  BY <1>1, <1>2, <1>3, PhaseStep
<1>4. CASE Passthrough
  <2>1. fed = Len(output) /\ history = <<>> /\ \A k \in 1..Len(output) : OnPlace(output[k], k, fed)
    BY <1>4 DEF AudioInv, HistoryExact, OutputPlaced
  <2>2. Num = Den /\ Slack = 0 /\ Den \in Nat
    BY <1>1, <1>4, Sizes
  <2>3. Complete(output, fed)
    <3>1. CASE output = <<>>
      BY <2>1, <3>1 DEF Complete
    <3>2. CASE output # <<>>
      <4>1. fed \in 1..Len(output) /\ fed - 1 \in Nat
        BY <1>1, <2>1, <3>2
      <4>2. Near(output[fed].center, fed - 1) /\ output[fed].center \in Nat
        BY <2>1, <4>1 DEF OnPlace, Samples
      <4>3. output[fed].center >= (fed - 1) * Den
        <5>1. Den - 0 = Den /\ Den + 0 = Den /\ (fed - 1) * Den \in Int
          BY <2>2, <4>1
        <5> QED
          BY <2>2, <4>2, <5>1 DEF Near
      <4>4. (fed - 1) * Den + Den = fed * Den /\ (fed - 1) * Den \in Int
        BY <1>1, <2>2
      <4>5. fed * Den <= output[fed].center + Num + Slack
        BY <2>2, <4>2, <4>3, <4>4
      <4> QED
        BY <2>1, <3>2, <4>5 DEF Complete
    <3> QED
      BY <3>1, <3>2
  <2>4. Len(history) <= 2 * HalfTaps + 1
    BY <1>2 DEF AudioInv, HistoryExact
  <2> QED
    BY <1>1, <1>2, <1>4, <2>1, <2>3, <2>4, AudioNextInv
<1> QED
  BY <1>3, <1>4

(* One sample of emit: it is on its place, and the next centre is a step on. *)
LEMMA EmitSampleStep == ASSUME AudioInv, EmitSample PROVE AudioInv'
<1> DEFINE d == Den
<1> DEFINE l == Len(history)
<1> DEFINE base == fed - l
<1> DEFINE h == HalfTaps * d
<1> DEFINE c == position
<1> DEFINE new == SampleAt(history, c)
<1>1. /\ track \in Tracks /\ fed \in Nat /\ c \in Nat /\ track.rate > 0
      /\ history \in Seq(Nat) /\ output \in Seq(Samples) /\ ~Passthrough /\ apc \in {"emit", "drain"}
  BY DEF AudioInv, AudioType, HistoryExact, EmitSample
<1>2. d \in Nat /\ d > 0 /\ HalfTaps \in Nat /\ h \in Nat /\ Num \in Nat /\ Rounding \in Nat /\ Rounding < Num /\ Slack = Rounding
  <2>1. Den \in Nat /\ Den > 0 /\ HalfTaps \in Nat /\ Num \in Nat /\ Rounding \in Nat /\ Rounding < Num /\ Slack = Rounding
    BY <1>1, Sizes, AudioConstants
  <2> HIDE DEF d
  <2>2. d \in Nat /\ d > 0
    BY <2>1 DEF d
  <2> QED
    BY <2>1, <2>2
<1>3. Follows(history, fed) /\ OnGrid(history, fed, c, output)
  BY <1>1 DEF AudioInv, HistoryExact
<1>4. l \in Nat /\ l <= fed /\ base \in Nat
  BY <1>1, <1>3 DEF Follows
<1>5. c < l * d /\ (apc = "emit" => c < l * d - h)
  <2>1. c + (IF apc = "drain" THEN 0 ELSE h) < l * d
    BY DEF EmitSample, SampleDue, Lookahead
  <2>2. l * d \in Int
    BY <1>2, <1>4
  <2> HIDE DEF l, d, h
  <2> QED
    BY <1>1, <1>2, <2>1, <2>2
<1>6. PICK e \in (-Rounding)..Rounding : c' = c + Num + e
  BY DEF EmitSample
<1>7. /\ output' = Append(output, new) /\ UNCHANGED <<track, apc, fed, history>>
  BY DEF EmitSample
<1>8. /\ new \in Samples
      /\ new.center = base * d + c
      /\ new.taps = Reach(new.center) \cap (0..(fed - 1))
      /\ new.center < fed * d
      /\ c < l * d - h => Settled(new, fed)
  BY <1>1, <1>3, <1>5, SampleAtExact DEF OnGrid
<1>9. StepsOn(output, c + base * d) /\ (fed = l \/ c >= h)
  BY <1>3 DEF OnGrid
<1> HIDE DEF d, l, base, h, new
<1>10. base * d \in Nat /\ c + base * d = new.center /\ new.center \in Nat
  <2> DEFINE x == base * d
  <2>1. x \in Nat
    BY <1>2, <1>4
  <2>2. new.center = x + c /\ c \in Nat
    BY <1>1, <1>8
  <2> HIDE DEF x, c
  <2>3. x \in Nat /\ c + x = new.center /\ new.center \in Nat
    BY <2>1, <2>2
  <2> QED
    BY <2>3 DEF x
<1>11. Len(output) \in Nat /\ output' \in Seq(Samples) /\ Len(output') = Len(output) + 1 /\ output'[Len(output) + 1] = new
  BY <1>1, <1>7, <1>8
<1>12. \A k \in 1..Len(output) : output'[k] = output[k]
  BY <1>1, <1>7, <1>8
<1>13. Near(new.center, Len(output))
  BY <1>9, <1>10 DEF StepsOn
<1>14. OnPlace(new, Len(output) + 1, fed)
  <2>1. (Len(output) + 1) - 1 = Len(output)
    BY <1>11
  <2> QED
    BY <1>8, <1>13, <2>1 DEF OnPlace, d
<1>15. \A k \in 1..Len(output') : OnPlace(output'[k], k, fed)
  <2> TAKE k \in 1..Len(output')
  <2>1. CASE k = Len(output) + 1
    BY <1>11, <1>14, <2>1
  <2>2. CASE k # Len(output) + 1
    <3>1. k \in 1..Len(output)
      BY <1>11, <2>2
    <3> QED
      BY <1>12, <3>1 DEF AudioInv, OutputPlaced
  <2> QED
    BY <2>1, <2>2
<1>16. apc = "emit" => \A k \in 1..Len(output') : Settled(output'[k], fed)
  <2> SUFFICES ASSUME apc = "emit", NEW k \in 1..Len(output') PROVE Settled(output'[k], fed)
    OBVIOUS
  <2>1. CASE k = Len(output) + 1
    BY <1>5, <1>8, <1>11, <2>1
  <2>2. CASE k # Len(output) + 1
    <3>1. k \in 1..Len(output)
      BY <1>11, <2>2
    <3> QED
      BY <1>1, <1>12, <3>1 DEF AudioInv, OutputPlaced
  <2> QED
    BY <2>1, <2>2
<1>17. e \in Int /\ c' \in Nat /\ c' >= c /\ e <= Slack /\ e \in (-Slack)..Slack
  BY <1>1, <1>2, <1>6 DEF c
<1>18. c' + base * d = new.center + Num + e
  BY <1>1, <1>2, <1>6, <1>10, <1>17 DEF c
<1>19. StepsOn(output', c' + base * d)
  <2>1. Near(new.center + Num + e, Len(output) + 1)
    BY <1>1, <1>10, <1>11, <1>13, <1>17, NearNext
  <2>2. new.center + Num + e <= new.center + Num + Slack
    BY <1>2, <1>10, <1>17
  <2>3. output' # <<>>
    BY <1>11
  <2> QED
    BY <1>11, <1>18, <2>1, <2>2, <2>3 DEF StepsOn
<1>20. OnGrid(history, fed, c', output')
  <2>1. fed = l \/ c' >= h
    BY <1>1, <1>2, <1>9, <1>17 DEF c
  <2> QED
    BY <1>19, <2>1 DEF OnGrid, base, l, d, h
<1>21. apc # "emit" => Len(history) <= 2 * HalfTaps + 1
  BY DEF AudioInv, HistoryExact
<1> QED
  BY <1>1, <1>3, <1>7, <1>11, <1>15, <1>16, <1>17, <1>20, <1>21, AudioNextInv DEF c

(* The end of emit: what is dropped is out of reach of every later kernel.   *)
LEMMA EmitEndsStep == ASSUME AudioInv, EmitEnds PROVE AudioInv'
<1> DEFINE d == Den
<1> DEFINE l == Len(history)
<1> DEFINE base == fed - l
<1> DEFINE h == HalfTaps * d
<1> DEFINE c == position
<1> DEFINE drop == Min({Kept(c), l})
<1>1. /\ track \in Tracks /\ fed \in Nat /\ c \in Nat /\ track.rate > 0
      /\ history \in Seq(Nat) /\ output \in Seq(Samples) /\ ~Passthrough /\ apc \in {"emit", "drain"}
  BY DEF AudioInv, AudioType, HistoryExact, EmitEnds
<1>2. d \in Nat /\ d > 0 /\ HalfTaps \in Nat /\ h \in Nat /\ Num \in Nat /\ Rounding \in Nat /\ Slack \in Nat
  <2>1. Den \in Nat /\ Den > 0 /\ HalfTaps \in Nat /\ Num \in Nat /\ Rounding \in Nat /\ Slack \in Nat
    BY <1>1, Sizes, AudioConstants
  <2> HIDE DEF d
  <2>2. d \in Nat /\ d > 0
    BY <2>1 DEF d
  <2> QED
    BY <2>1, <2>2
<1>3. Follows(history, fed) /\ OnGrid(history, fed, c, output)
  BY <1>1 DEF AudioInv, HistoryExact
<1>4. l \in Nat /\ l <= fed /\ base \in Nat /\ fed = base + l
  BY <1>1, <1>3 DEF Follows
<1>5. l * d \in Nat /\ (apc = "drain" => c >= l * d) /\ (apc = "emit" => c + Rounding >= l * d - h)
  <2>1. c + (IF apc = "drain" THEN 0 ELSE h) + (IF apc = "drain" THEN 0 ELSE Rounding) >= l * d
    BY DEF EmitEnds, MayStop, Lookahead
  <2>2. l * d \in Nat
    BY <1>2, <1>4
  <2> HIDE DEF l, d, h
  <2> QED
    BY <1>1, <1>2, <2>1, <2>2
<1>6. /\ c' = c - drop * d
      /\ history' = IF apc = "drain" THEN <<>> ELSE SubSeq(history, drop + 1, l)
      /\ apc' = IF apc = "drain" THEN "ended" ELSE "decode"
      /\ UNCHANGED <<track, fed, output>>
  BY DEF EmitEnds
<1>7. /\ drop \in 0..l
      /\ drop = 0 \/ c - drop * d >= h
      /\ c - drop * d >= 0
      /\ c + Rounding >= l * d - h => l - drop <= 2 * HalfTaps + 1
  BY <1>1, <1>4, DropExact
<1>8. StepsOn(output, c + base * d) /\ (fed = l \/ c >= h)
  BY <1>3 DEF OnGrid
<1>9. \A k \in 1..Len(output) : OnPlace(output[k], k, fed)
  BY DEF AudioInv, OutputPlaced
<1>a. history \in Seq(Nat) /\ \A i \in 1..l : history[i] = base + i - 1
  BY <1>3 DEF Follows
<1> HIDE DEF drop, d, l, base, h, c
<1>10. drop \in Nat /\ drop * d \in Nat /\ base * d \in Nat /\ c' \in Nat
  BY <1>1, <1>2, <1>4, <1>6, <1>7
<1>11. CASE apc = "drain"
  <2>1. fed * d <= c + base * d
    <3>1. fed * d = base * d + l * d
      BY <1>2, <1>4
    <3> QED
      BY <1>1, <1>5, <1>10, <1>11, <3>1
  <2>2. Complete(output, fed)
    <3>1. CASE output = <<>>
      <4>1. c + base * d = 0
        BY <1>8, <3>1 DEF StepsOn
      <4>2. fed * d <= 0 /\ fed * d \in Int
        BY <1>1, <1>2, <2>1, <4>1
      <4>3. fed = 0
        <5> SUFFICES ASSUME fed >= 1 PROVE FALSE
          BY <1>1
        <5>1. 1 * d <= fed * d /\ 1 * d = d
          BY <1>1, <1>2, Scaled
        <5> QED
          BY <1>2, <4>2, <5>1
      <4> QED
        BY <3>1, <4>3 DEF Complete
    <3>2. CASE output # <<>>
      <4>1. c + base * d <= output[Len(output)].center + Num + Slack
        BY <1>8, <3>2 DEF StepsOn
      <4>2. output[Len(output)].center \in Nat
        <5>1. Len(output) \in 1..Len(output)
          BY <1>1, <3>2
        <5> QED
          BY <1>9, <5>1 DEF OnPlace, Samples
      <4>3. fed * d <= output[Len(output)].center + Num + Slack
        <5>1. fed * d \in Int
          BY <1>1, <1>2
        <5> QED
          BY <1>1, <1>2, <1>10, <2>1, <4>1, <4>2, <5>1, SMTT(40)
      <4> QED
        BY <3>2, <4>3 DEF Complete, d
    <3> QED
      BY <3>1, <3>2
  <2>3. history' = <<>> /\ history' \in Seq(Nat) /\ Len(history') <= 2 * HalfTaps + 1 /\ apc' = "ended"
    BY <1>2, <1>6, <1>11
  <2> QED
    BY <1>1, <1>6, <1>9, <1>10, <2>2, <2>3, AudioNextInv DEF c
<1>12. CASE apc = "emit"
  <2>1. history' = SubSeq(history, drop + 1, l) /\ apc' = "decode"
    BY <1>6, <1>12
  <2>2. /\ history' \in Seq(Nat)
        /\ Len(history') = l - drop
        /\ \A i \in 1..(l - drop) : history'[i] = history[drop + i]
    <3>1. \A i \in (drop + 1)..l : history[i] \in Nat
      BY <1>7, <1>a DEF l
    <3>2. drop + 1 \in Int /\ l \in Int
      BY <1>4, <1>7
    <3>3. SubSeq(history, drop + 1, l) = [i \in 1..(l - (drop + 1) + 1) |-> history[(drop + 1) + i - 1]]
      BY <1>4, <1>7, <1>a DEF l
    <3>4. l - (drop + 1) + 1 = l - drop /\ l - drop \in Nat
      BY <1>4, <1>7
    <3>5. \A i \in 1..(l - drop) : (drop + 1) + i - 1 = drop + i /\ drop + i \in (drop + 1)..l
      BY <1>4, <1>7
    <3>6. history' = [i \in 1..(l - drop) |-> history[drop + i]]
      BY <2>1, <3>3, <3>4, <3>5
    <3>7. \A i \in 1..(l - drop) : history[drop + i] \in Nat
      BY <3>1, <3>5
    <3> QED
      BY <3>4, <3>6, <3>7
  <2>3. Follows(history', fed)
    <3>1. \A i \in 1..(l - drop) : history'[i] = fed - (l - drop) + i - 1
      <4> TAKE i \in 1..(l - drop)
      <4>1. drop + i \in 1..l
        BY <1>4, <1>7
      <4>2. history'[i] = base + (drop + i) - 1
        BY <1>a, <2>2, <4>1
      <4> QED
        BY <1>4, <1>7, <4>2
    <3> QED
      BY <1>1, <1>4, <1>7, <2>2, <3>1 DEF Follows
  <2>4. c' + (fed - Len(history')) * d = c + base * d
    <3>1. fed - Len(history') = base + drop
      BY <1>1, <1>4, <1>7, <2>2
    <3>2. (base + drop) * d = base * d + drop * d
      BY <1>2, <1>4, <1>10
    <3>3. (fed - Len(history')) * d = base * d + drop * d
      BY <3>1, <3>2
    <3>4. c' = c - drop * d /\ c \in Nat
      BY <1>1, <1>6
    <3> QED
      BY <1>10, <3>3, <3>4
  <2>5. fed = Len(history') \/ c' >= h
    <3> SUFFICES ASSUME fed # Len(history') PROVE c' >= h
      OBVIOUS
    <3>1. CASE drop # 0
      BY <1>6, <1>7, <3>1
    <3>2. CASE drop = 0
      <4>1. fed # l
        BY <1>4, <2>2, <3>2
      <4>2. c' = c
        BY <1>1, <1>2, <1>6, <3>2
      <4> QED
        BY <1>8, <4>1, <4>2
    <3> QED
      BY <3>1, <3>2
  <2>6. OnGrid(history', fed, c', output)
    BY <1>8, <2>4, <2>5 DEF OnGrid, d, h
  <2>7. Len(history') <= 2 * HalfTaps + 1
    BY <1>5, <1>7, <1>12, <2>2
  <2>8. \A k \in 1..Len(output) : Settled(output[k], fed)
    BY <1>1, <1>12 DEF AudioInv, OutputPlaced
  <2> QED
    BY <1>1, <1>6, <1>9, <1>10, <2>1, <2>2, <2>3, <2>6, <2>7, <2>8, AudioNextInv DEF c
<1> QED
  BY <1>1, <1>11, <1>12

(* Whatever the packets a recording is cut into and the roundings of the     *)
(* positions, the resampled output misses no source sample, is off the grid  *)
(* by its roundings alone and ends where the recording does.                 *)
THEOREM ResampleIsSound == AudioSpec => []ResampleSound
<1>1. AudioInit => AudioInv
  BY AudioInitInv
<1>2. AudioInv /\ [AudioNext]_audioVars => AudioInv'
  <2> SUFFICES ASSUME AudioInv, [AudioNext]_audioVars PROVE AudioInv'
    OBVIOUS
  <2>1. CASE Open
    BY <2>1, OpenStep
  <2>2. CASE \E frames \in PacketFrames : DecodePacket(frames)
    BY <2>2, PassedStep, PushedStep
  <2>3. CASE EmitSample
    BY <2>3, EmitSampleStep
  <2>4. CASE EmitEnds
    BY <2>4, EmitEndsStep
  <2>5. CASE StreamEnds
    BY <2>5, StreamEndsStep
  <2>6. CASE StreamFails
    BY <2>6, StreamFailsStep
  <2>7. CASE UNCHANGED audioVars
    BY <2>7, AudioNextInv DEF AudioInv, AudioType, OutputPlaced, HistoryExact, EndReached, audioVars
  <2> QED
    BY <2>1, <2>2, <2>3, <2>4, <2>5, <2>6, <2>7 DEF AudioNext
<1> QED
  BY <1>1, <1>2, AudioInvImplies, PTL DEF AudioSpec
=============================================================================
