----------------------------- MODULE MC_Ingest ------------------------------
(***************************************************************************)
(* Small instances, for TLC, of the pipeline and of the parts around it that *)
(* share no state with one another.  A behaviour is one scene, as in         *)
(* MC_Services.                                                              *)
(***************************************************************************)
EXTENDS Ingest, Embed, Intake, BoundedStream, Audio

CONSTANT IngestScenes   \* the parts to check

VARIABLE scene

-----------------------------------------------------------------------------
MCMedia == [e \in Items |-> "plain_text"]
(* The chunker finds more than is listed; that of the second pass keeps c2 and *)
(* c3 and finds no more.                                                     *)
MCChunkPlan == <<<<"c1", "c2", "c3">>, <<"c2", "c3">>>>

(* Embed: contents that occur twice in an item and in both, and chunks that  *)
(* are longer in tokens than the estimate from their characters; the last     *)
(* chunk of the first item is past the list.                                 *)
Chunk(content, chars, tokens) == [content |-> content, chars |-> chars, tokens |-> tokens]
MCChunksOf == <<<<Chunk("a", 3, 1), Chunk("b", 6, 2), Chunk("a", 3, 1), Chunk("d", 3, 1)>>,
                <<Chunk("b", 6, 2), Chunk("c", 3, 3)>>>>

(* Intake: a tree deeper than is walked, one at the limit of the files that  *)
(* are taken, one past it, and a path that is no directory.                  *)
File(f) == f :> "file"
Dir(d) == d :> "dir"
MCTrees ==
    {0 :> (File(1) @@ File(2) @@ 3 :> "hidden" @@ Dir(10) @@ Dir(11))
        @@ 10 :> (File(4) @@ 5 :> "symlink" @@ Dir(12)) @@ 11 :> File(6) @@ 12 :> File(7),
     0 :> (File(1) @@ File(2) @@ Dir(10)) @@ 10 :> (File(4) @@ File(6)),
     0 :> (File(1) @@ File(2) @@ Dir(10)) @@ 10 :> (File(4) @@ File(6) @@ File(7)),
     [d \in {} |-> {}]}
MCFileBytes == 0 :> 1 @@ 1 :> 1 @@ 2 :> 3 @@ 4 :> 1 @@ 6 :> 3 @@ 7 :> 9
MCFileMagic == 0 :> "prose" @@ 1 :> "prose" @@ 2 :> "webvtt" @@ 4 :> "heading" @@ 6 :> "wave" @@ 7 :> "binary"
MCFileContent == 0 :> 5 @@ 1 :> 1 @@ 2 :> 2 @@ 4 :> 1 @@ 6 :> 3 @@ 7 :> 4

(* Audio: no track, rates out of bounds, too many channels, no codec, and    *)
(* rates that are a multiple of the engine's, equal to it and neither.       *)
Track(rate, channels, codec) == [rate |-> rate, channels |-> channels, codec |-> codec]
MCTracks ==
    {Track(0, 0, FALSE), Track(1, 1, TRUE), Track(99, 1, TRUE), Track(4, 9, TRUE), Track(4, 2, FALSE)}
    \cup {Track(rate, 2, TRUE) : rate \in {3, 4, 5, 12, 25}}

-----------------------------------------------------------------------------
OneOf(set) == CHOOSE x \in set : TRUE
OtherScenesFixed ==
    /\ scene = "pipeline" \/ calm = TRUE
    /\ scene = "embed" \/ (route = OneOf(EmbedRoutes) /\ artifact = TRUE)
    /\ scene = "intake" \/ tree = OneOf(Trees)
    /\ scene = "audio" \/ track = OneOf(Tracks)

Init ==
    /\ scene \in IngestScenes
    /\ OtherScenesFixed
    /\ IngestInit /\ EmbedInit /\ IntakeInit /\ StreamInit /\ AudioInit

Files == <<intakeVars, streamVars, audioVars>>

Next ==
    /\ UNCHANGED scene
    /\ \/ scene = "pipeline" /\ IngestNext /\ UNCHANGED <<embedVars, Files>>
       \/ scene = "embed" /\ EmbedNext /\ UNCHANGED <<ingestVars, Files>>
       \/ scene = "intake" /\ IntakeNext /\ UNCHANGED <<ingestVars, embedVars, streamVars, audioVars>>
       \/ scene = "stream" /\ StreamNext /\ UNCHANGED <<ingestVars, embedVars, intakeVars, audioVars>>
       \/ scene = "audio" /\ AudioNext /\ UNCHANGED <<ingestVars, embedVars, intakeVars, streamVars>>

(* The fairness is that of the pipeline, none of whose fair actions is       *)
(* enabled before the first item is submitted.                               *)
Spec == Init /\ [][Next]_<<scene, ingestVars, embedVars, Files>> /\ IngestFairness
=============================================================================
