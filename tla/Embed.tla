------------------------------- MODULE Embed -------------------------------
(***************************************************************************)
(* EMBED of pos-ingest: workers turn the chunks of items into vectors.  A    *)
(* chunk whose content has a vector already shares it; the others are        *)
(* gathered into batches under the planner's budget, handed to the engine    *)
(* behind the gateway, written as one blob and committed as one event before *)
(* the next batch is gathered.  A vector is the content it was computed      *)
(* from, and one model and enrichment version are modelled: both are part of *)
(* every key.                                                                *)
(***************************************************************************)
EXTENDS Integers, Sequences, FiniteSets, SequencesExt, FiniteSetsExt

CONSTANTS
    EmbedWorkers,   \* workers that may run EMBED
    ChunksOf,       \* ChunksOf[i]: the chunks of item i, [content, chars, tokens]
    EmbedRoutes,    \* the routes a build is composed with: "local", "cloud"
    SequenceMax,    \* EMBED_SEQUENCE_TOKENS_MAX
    PaddedMax,      \* EMBED_BATCH_PADDED_TOKENS_MAX
    BatchCountMax,  \* the smaller of the two EMBED_BATCH_COUNT_MAX
    EmbedCountMax,  \* EMBED_CHUNK_COUNT_MAX
    MaxEmbedFaults, \* bound: killed attempts and engine failures
    NoVector

(* The chunks of an item are a sequence, and the absence of a row is no row. *)
ASSUME EmbedAssumption ==
    /\ \A i \in DOMAIN ChunksOf : ChunksOf[i] \in Seq(Range(ChunksOf[i]))
    /\ EmbedCountMax \in Nat
    /\ NoVector \notin [blob: Seq(UNION {{c.content : c \in Range(ChunksOf[i])} : i \in DOMAIN ChunksOf}), row: Nat]

VARIABLES
    route,      \* EmbedRoute
    artifact,   \* whether the local model's files are on disk
    loaded,     \* EmbedStage::loaded
    vecRows,    \* vecRows[<<i, n>>]: proj_chunk_embedding of chunk n of item i
    vecBlobs,   \* the vector blobs of the store
    emb,        \* emb[w]: the attempt of a worker
    embFaults

embedVars == <<route, artifact, loaded, vecRows, vecBlobs, emb, embFaults>>

EmbedItems == DOMAIN ChunksOf
EmbedChunkIds == UNION {{i} \X DOMAIN ChunksOf[i] : i \in EmbedItems}
ChunkOf(id) == ChunksOf[id[1]][id[2]]

(* list_chunks: the first EMBED_CHUNK_COUNT_MAX chunks, in reading order.  EMBED *)
(* sees no more of an item, in this attempt or in a later one.               *)
Listed(i) == {n \in DOMAIN ChunksOf[i] : n <= EmbedCountMax}

Resting == [pc |-> "rest", item |-> 0, todo |-> {}, pending |-> <<>>, vectors |-> <<>>, why |-> "none"]

EmbedInit ==
    /\ route \in EmbedRoutes
    /\ artifact \in BOOLEAN
    /\ loaded = FALSE
    /\ vecRows = [id \in EmbedChunkIds |-> NoVector]
    /\ vecBlobs = {}
    /\ emb = [w \in EmbedWorkers |-> Resting]
    /\ embFaults = 0

-----------------------------------------------------------------------------
(* EmbedBatchPlan::check on token counts: a single input always fits, since  *)
(* it is cut at the sequence bound.                                          *)
Clamped(tokens) == Max({1, Min({tokens, SequenceMax})})
BatchFits(counts) ==
    /\ Len(counts) \in 1..BatchCountMax
    /\ Len(counts) = 1 \/ Len(counts) * Max({Clamped(counts[k]) : k \in DOMAIN counts}) <= PaddedMax

(* Batcher::estimate_tokens: three characters to a token.                    *)
TokenEstimate(chars) == Max({1, (chars + 2) \div 3})
Estimates(ids) == [k \in DOMAIN ids |-> Clamped(TokenEstimate(ChunkOf(ids[k]).chars))]
Tokens(ids) == [k \in DOMAIN ids |-> Clamped(ChunkOf(ids[k]).tokens)]
Contents(ids) == [k \in DOMAIN ids |-> ChunkOf(ids[k]).content]

(* OnnxEmbedder::embed: the exact counts are checked against the same plan,  *)
(* and a vector is pooled from each row of the batch.                        *)
OnnxEmbed(ids) ==
    IF BatchFits(Tokens(ids)) THEN [weather |-> "ok", vectors |-> Contents(ids)]
    ELSE [weather |-> "budget_exhausted", vectors |-> <<>>]

(* What an endpoint can answer: one row per input in any order, or a list in *)
(* which an index is missing, repeated or out of range.                      *)
CloudAnswers(ids) ==
    LET row(k, index) == [index |-> index, vector |-> Contents(ids)[k]]
        ordered == [k \in DOMAIN ids |-> row(k, k)]
    IN {ordered, Reverse(ordered), Front(ordered), [ordered EXCEPT ![1].index = Len(ids)],
        [ordered EXCEPT ![1].index = Len(ids) + 1]}

(* Slip of ParseEmbeddings: the rows are taken in the order they arrived.    *)
ParseEmbeddingsInOrder(rows, count) ==
    IF Len(rows) = count THEN [weather |-> "ok", vectors |-> [k \in 1..count |-> rows[k].vector]]
    ELSE [weather |-> "malformed_output", vectors |-> <<>>]

(* parse_embeddings: every index once and in range, placed by index.         *)
ParseEmbeddings(rows, count) ==
    IF Len(rows) = count /\ {rows[k].index : k \in DOMAIN rows} = 1..count
    THEN [weather |-> "ok",
          vectors |-> [k \in 1..count |-> rows[CHOOSE j \in DOMAIN rows : rows[j].index = k].vector]]
    ELSE [weather |-> "malformed_output", vectors |-> <<>>]

(* weather_failure: what ends the job and what is tried again.               *)
EmbedPermanent(weather) ==
    weather \in {"policy_violation", "invalid_request", "refusal", "unsupported_field",
                 "credential_revoked", "not_yet_supported"}

-----------------------------------------------------------------------------
EmbStep(w, next) == emb' = [emb EXCEPT ![w] = next]
EmbAt(w, pc) == emb[w].pc = pc
Failed(w, why) == [emb[w] EXCEPT !.pc = "failed", !.why = why]

(* EmbedStage::run picks the engine; a local one is loaded once, and its     *)
(* absence is a failure that a pull repairs.                                 *)
EmbedRun(w, i) ==
    LET k == [Resting EXCEPT !.item = i, !.pc = "plan"]
    IN /\ EmbAt(w, "rest")
       /\ \E n \in DOMAIN ChunksOf[i] : vecRows[<<i, n>>] = NoVector
       /\ \/ /\ route = "cloud" \/ loaded \/ artifact
             /\ loaded' = (loaded \/ route = "local")
             /\ EmbStep(w, k)
          \/ /\ route = "local" /\ ~loaded /\ ~artifact
             /\ EmbStep(w, [k EXCEPT !.pc = "failed", !.why = "embed_model_missing"])
             /\ UNCHANGED loaded
       /\ UNCHANGED <<route, artifact, vecRows, vecBlobs, embFaults>>

(* embed_item and already_embedded: the listed chunks that have no vector yet. *)
(* Only listed ones ever get one, so that the limit of the second list, the   *)
(* same, leaves out none.                                                    *)
EmbedPlan(w) ==
    LET i == emb[w].item
    IN /\ EmbAt(w, "plan")
       /\ EmbStep(w, [emb[w] EXCEPT !.pc = "push",
                                    !.todo = {n \in Listed(i) : vecRows[<<i, n>>] = NoVector}])
       /\ UNCHANGED <<route, artifact, loaded, vecRows, vecBlobs, embFaults>>

(* Chunks are visited in their order: the one the batcher is at.             *)
AtChunk(w) == <<emb[w].item, Min(emb[w].todo)>>
RestOfChunks(w) == emb[w].todo \ {Min(emb[w].todo)}

(* find_embedding_by_content.                                                *)
SameContent(id) == {r \in EmbedChunkIds : vecRows[r] # NoVector /\ ChunkOf(r).content = ChunkOf(id).content}

(* Batcher::push of a known content: commit_reused writes the chunk's row on   *)
(* its own, under the vector that is there.  Rows only ever appear, so that   *)
(* the lookup and the commit are one step.                                   *)
EmbedReuse(w) ==
    LET k == emb[w]
        id == AtChunk(w)
    IN /\ EmbAt(w, "push")
       /\ k.todo # {}
       /\ \E r \in SameContent(id) : vecRows' = [vecRows EXCEPT ![id] = vecRows[r]]
       /\ EmbStep(w, [k EXCEPT !.todo = RestOfChunks(w)])
       /\ UNCHANGED <<route, artifact, loaded, vecBlobs, embFaults>>

(* Batcher::push of a new one: a chunk that does not fit flushes the batch     *)
(* first.                                                                    *)
EmbedPush(w) ==
    LET k == emb[w]
        id == AtChunk(w)
        next == Append(k.pending, id)
    IN /\ EmbAt(w, "push")
       /\ k.todo # {}
       /\ SameContent(id) = {}
       /\ IF k.pending # <<>> /\ ~BatchFits(Estimates(next))
          THEN EmbStep(w, [k EXCEPT !.pc = "flush"])
          ELSE EmbStep(w, [k EXCEPT !.pending = next, !.todo = RestOfChunks(w)])
       /\ UNCHANGED <<route, artifact, loaded, vecRows, vecBlobs, embFaults>>

(* Batcher::flush up to the blob: the model call.                            *)
EmbedFlush(w) ==
    LET k == emb[w]
        settle(answer) == IF answer.weather = "ok"
                          THEN EmbStep(w, [k EXCEPT !.pc = "write", !.vectors = answer.vectors])
                          ELSE EmbStep(w, Failed(w, answer.weather))
    IN /\ EmbAt(w, "flush") \/ (EmbAt(w, "push") /\ k.todo = {} /\ k.pending # <<>>)
       /\ \/ route = "local" /\ settle(OnnxEmbed(k.pending))
          \/ /\ route = "cloud"
             /\ \E rows \in CloudAnswers(k.pending) : settle(ParseEmbeddings(rows, Len(k.pending)))
       /\ UNCHANGED <<route, artifact, loaded, vecRows, vecBlobs, embFaults>>

(* write_vectors: the blob is addressed by its content.                      *)
WriteVectors(w) ==
    /\ EmbAt(w, "write")
    /\ vecBlobs' = vecBlobs \cup {emb[w].vectors}
    /\ EmbStep(w, [emb[w] EXCEPT !.pc = "commit"])
    /\ UNCHANGED <<route, artifact, loaded, vecRows, embFaults>>

(* A row of proj_chunk_embedding: the blob, and the vector's place in it.     *)
VectorRow(blob, n) == [blob |-> blob, row |-> n]

(* emit_embeddings and embedding_row: one upsert per chunk of the batch.     *)
CommitVectors(w) ==
    LET k == emb[w]
        rowOf(id) == VectorRow(k.vectors, CHOOSE n \in DOMAIN k.pending : k.pending[n] = id)
    IN /\ EmbAt(w, "commit")
       /\ vecRows' = [id \in EmbedChunkIds |-> IF id \in Range(k.pending) THEN rowOf(id) ELSE vecRows[id]]
       /\ EmbStep(w, [k EXCEPT !.pc = "push", !.pending = <<>>, !.vectors = <<>>])
       /\ UNCHANGED <<route, artifact, loaded, vecBlobs, embFaults>>

(* Batcher::finish: nothing is left to push or to flush.                     *)
EmbedFinish(w) ==
    /\ EmbAt(w, "push")
    /\ emb[w].todo = {}
    /\ emb[w].pending = <<>>
    /\ EmbStep(w, [emb[w] EXCEPT !.pc = "done"])
    /\ UNCHANGED <<route, artifact, loaded, vecRows, vecBlobs, embFaults>>

(* The worker leaves a finished or failed attempt to the queue, which runs   *)
(* it again unless the failure was permanent.                                *)
EmbedSettled(w) ==
    /\ EmbAt(w, "done") \/ (EmbAt(w, "failed") /\ ~EmbedPermanent(emb[w].why))
    /\ EmbStep(w, Resting)
    /\ UNCHANGED <<route, artifact, loaded, vecRows, vecBlobs, embFaults>>

(* The process dies, the engine times out or the store refuses.              *)
EmbedLost(w) ==
    /\ emb[w].pc \in {"plan", "push", "flush", "write", "commit"}
    /\ embFaults < MaxEmbedFaults
    /\ embFaults' = embFaults + 1
    /\ EmbStep(w, Resting)
    /\ UNCHANGED <<route, artifact, loaded, vecRows, vecBlobs>>

(* models.pull puts the artifact in place.                                   *)
ArtifactPulled ==
    /\ ~artifact
    /\ artifact' = TRUE
    /\ UNCHANGED <<route, loaded, vecRows, vecBlobs, emb, embFaults>>

EmbedNext ==
    \/ \E w \in EmbedWorkers :
           \/ \E i \in EmbedItems : EmbedRun(w, i)
           \/ EmbedPlan(w) \/ EmbedReuse(w) \/ EmbedPush(w) \/ EmbedFlush(w) \/ WriteVectors(w) \/ CommitVectors(w)
           \/ EmbedFinish(w) \/ EmbedSettled(w) \/ EmbedLost(w)
    \/ ArtifactPulled

EmbedSpec == EmbedInit /\ [][EmbedNext]_embedVars

-----------------------------------------------------------------------------
(* E3, and what a search relies on: whatever order an endpoint answers in    *)
(* and wherever attempts die, a row names a vector that is in a stored blob  *)
(* and was computed from the content of the row's own chunk, shared or not;  *)
(* and an attempt that finished left no listed chunk of its item without one. *)
VectorsSound ==
    /\ \A id \in EmbedChunkIds : vecRows[id] # NoVector =>
           /\ vecRows[id].blob \in vecBlobs
           /\ vecRows[id].blob[vecRows[id].row] = ChunkOf(id).content
    /\ \A w \in EmbedWorkers : EmbAt(w, "done") =>
           \A n \in Listed(emb[w].item) : vecRows[<<emb[w].item, n>>] # NoVector

=============================================================================
