---------------------------- MODULE MC_Services -----------------------------
(***************************************************************************)
(* Small instances, for TLC, of the parts of the system that share no state  *)
(* with one another.  A behaviour is one scene: the part it is about runs    *)
(* and the others stay as they start, so that one run checks every part and  *)
(* its states are the sum, not the product, of the parts' states.            *)
(***************************************************************************)
EXTENDS ProjectLog, CronSearch, BlobStore, Gateway, ModelPull, ToolAuth, EchoRun, ApiHost, WebServer,
        Transcript, TextStages

CONSTANTS
    Scenes,       \* the parts to check
    ui, cli, k1, c1,                       \* BlobStore
    r1, r2, readTool, writeTool, sendTool, \* ToolAuth
    h1                                     \* EchoRun

VARIABLE scene

-----------------------------------------------------------------------------
(* BlobStore: a writer in the UI and one in the CLI.                         *)
MCProcOf == [w \in Writers |-> IF w = k1 THEN cli ELSE ui]
MCFanout == [c \in Contents |-> IF c = c1 THEN "aa" ELSE "bb"]
MCAnyContent == [w \in Writers |-> Contents]

(* CronSearch: a zone without transition, gaps of part of an hour and of an  *)
(* hour, and hours repeated in whole and in more than whole.  The steps are  *)
(* those of every day, of a day of hours, of an hour of minutes and of what  *)
(* is repeated.                                                              *)
Zone(which, length) == [kind |-> which, shift |-> length]
MCZones == {Zone("fixed", 1), Zone("gap", Minutes - 1), Zone("gap", Minutes), Zone("fold", Minutes), Zone("fold", Minutes + 1)}
MCStepMax == Days + Hours + Minutes + Minutes + 1

(* Gateway: a routing to the cloud, pinned for the frontier tier, one that   *)
(* sends the user's own key to another family, and one whose local route has *)
(* a provider that was built for a host far away.                            *)
MCAdapterUrl ==
    [f \in {"anthropic", "compatible", "google", "openai"} |->
        IF f = "compatible" THEN [scheme |-> "http", host |-> "loopback"] ELSE [scheme |-> "https", host |-> "far"]]
RemoteChoice(family, base, pinned, class) ==
    [family |-> family, locality |-> "remote", base |-> base, pinned |-> pinned,
     host |-> "far", scheme |-> "https", class |-> class, secret |-> "s1"]
LocalChoice(family) ==
    [family |-> family, locality |-> "device_local", base |-> "b2", pinned |-> FALSE,
     host |-> "loopback", scheme |-> "http", class |-> "device_session", secret |-> "none"]
MCRoutings ==
    {"frontier" :> RemoteChoice("anthropic", "b1", TRUE, "managed") @@ "fast" :> LocalChoice("compatible")
         @@ "embed" :> RemoteChoice("google", "b3", FALSE, "byok"),
     "frontier" :> RemoteChoice("google", "b3", FALSE, "byok") @@ "fast" :> LocalChoice("openai")
         @@ "transcribe" :> LocalChoice("compatible"),
     "frontier" :> LocalChoice("openai") @@ "fast" :> LocalChoice("google")}
MCRequests == {[messages |-> 1, effort |-> FALSE, tools |-> "none", cap |-> 1],
               [messages |-> 1, effort |-> TRUE, tools |-> "none", cap |-> 2]}
MCBodies ==
    [f \in {"anthropic", "compatible", "google", "openai"} |->
        IF f = "anthropic"
        THEN {<<"start", "", "text", "", "block start", "", "block stop", "", "usage", "">>,
              <<"event:", "", "error", "">>}
        ELSE {<<"text+tool", "", "usage", "">>, <<"text", "", "filtered", "", "garbage">>}]

(* ModelPull.                                                                *)
MCArtifact == <<1, 2>>

(* ToolAuth: the second build gates writeTool in a new version and has lost  *)
(* sendTool.                                                                 *)
Tool(version, scope, toolMode, effect, max) ==
    [version |-> version, scope |-> scope, mode |-> toolMode, effect |-> effect, max |-> max]
MCBuilds ==
    {readTool :> Tool(1, "read", "allow", "read_only", 2) @@ writeTool :> Tool(1, "write", "allow", "idempotent", 1)
         @@ sendTool :> Tool(1, "egress", "allow", "non_idempotent", 1),
     readTool :> Tool(1, "read", "allow", "read_only", 2) @@ writeTool :> Tool(2, "write", "gate", "idempotent", 2)
         @@ sendTool :> NoTool}
MCAllowlists ==
    {[t \in AuthTools |-> "allow"], readTool :> "gate" @@ writeTool :> "allow" @@ sendTool :> "absent"}
MCCallPlan ==
    r1 :> <<[tool |-> writeTool, call |-> 2, size |-> 1], [tool |-> sendTool, call |-> 3, size |-> 1]>>
    @@ r2 :> <<[tool |-> writeTool, call |-> 1, size |-> 2]>>
MCReceipts ==
    {[run |-> r1, call |-> 2, tool |-> writeTool, expires |-> 0],
     [run |-> r1, call |-> 3, tool |-> sendTool, expires |-> 1],
     [run |-> r2, call |-> 1, tool |-> writeTool, expires |-> 1]}

(* Transcript: words across a window's end, a tail that is too short for the *)
(* engine, one that is empty, a word that begins in the first half of a      *)
(* window cut short by a resume, and more segments than are admitted.        *)
Word(from, to) == [start |-> from, end |-> to]
MCRecordings ==
    {[len |-> 23, words |-> <<Word(7, 8), Word(10, 11)>>],
     [len |-> 20, words |-> <<Word(7, 9)>>],
     [len |-> 16, words |-> <<Word(0, 2), Word(7, 8)>>],
     [len |-> 19, words |-> <<Word(0, 4), Word(5, 9)>>],
     [len |-> 10, words |-> <<Word(0, 1), Word(1, 2), Word(2, 3)>>],
     [len |-> 10, words |-> <<Word(0, 1), Word(1, 2), Word(2, 3), Word(3, 4)>>]}

(* Two attempts run at once on the recordings up to this length only; on the *)
(* longer ones one attempt runs at a time.                                   *)
MCTogetherMax == 16

(* TextStages: every text of a few characters, one with a byte order mark    *)
(* and two-byte characters, and every list of a few caption blocks.          *)
Block(from, to, bytes) == [start |-> from, end |-> to, text |-> bytes]
MCDocuments ==
    {[media |-> m[1], shape |-> m[2], bytes |-> b] :
        m \in {<<"plaintext", "document">>, <<"markdown", "document">>, <<"csv", "table">>,
               <<"structured", "thread">>, <<"structured", "message">>},
        b \in SeqOf({"x", "n", "q", "h"}, 5)
              \cup {<<"x", "u", "v", "u", "v">>,
                    <<"r", "b", "x", "r", "n", "n", "n", "u", "v", "u", "v", "u", "v", "s", "b">>}}
    \cup {[media |-> "captions", shape |-> "transcript", blocks |-> b] :
        b \in SeqOf({Block(0, 2, <<"x", "s", "x", "x">>), Block(1, 3, <<"x">>), Block(3, 3, <<"u", "v">>),
                     Block(3, 4, <<"x">>), Block(2, 1, <<"x">>), Block(4, 5, <<>>)}, 3)}
    \cup {[media |-> "opaque", shape |-> "document", bytes |-> <<>>],
          [media |-> "csv", shape |-> "table", bytes |-> <<"x", "n", "x", "n", "x", "n", "x">>]}

-----------------------------------------------------------------------------
(* What the part's start leaves open, it leaves open in its own scene only.  *)
OneOf(set) == CHOOSE x \in set : TRUE
OtherScenesFixed ==
    /\ scene = "log" \/ runsBuild = OneOf([LogProcs -> Registries])
    /\ scene = "search" \/ (expr = OneOf(Exprs) /\ zone = OneOf(Zones) /\ start = 0)
    /\ scene = "gateway" \/ (routing = OneOf(Routings) /\ policy = OneOf(Policies) /\ usageSeen = "reported" /\ profile = Conservative)
    /\ scene = "tools" \/ build = OneOf(Builds)
    /\ scene = "transcript" \/ (rec = OneOf(Recordings) /\ solo = TRUE)
    /\ scene = "text" \/ doc = OneOf(Documents)

Init ==
    /\ scene \in Scenes
    /\ OtherScenesFixed
    /\ LogInit /\ StoreInit /\ GatewayInit /\ PullInit /\ AuthInit
    /\ EchoInit /\ HostInit /\ ServerInit /\ TranscriptInit /\ TextInit /\ SearchInit
    /\ solo \/ rec.len <= MCTogetherMax

OnDisk == <<logVars, storeVars>>
Models == <<gatewayVars, pullVars>>
Agents == <<authVars, echoVars>>
Shells == <<hostVars, serverVars>>
Texts == <<transcriptVars, textVars>>

(* EchoRun: two processes run the Run, or one does and clients follow it.    *)
EchoSceneNext ==
    \/ scene = "echo" /\ \E h \in Hosts : EchoHostNext(h)
    \/ scene = "follow" /\ (EchoHostNext(h1) \/ \E c \in Clients : ClientNext(c))

Next ==
    /\ UNCHANGED scene
    /\ \/ scene = "log" /\ UniformNext /\ UNCHANGED <<searchVars, storeVars, Models, Agents, Shells, Texts>>
       \/ scene = "search" /\ SearchNext /\ UNCHANGED <<OnDisk, Models, Agents, Shells, Texts>>
       \/ scene = "store" /\ StoreNext /\ UNCHANGED <<logVars, searchVars, Models, Agents, Shells, Texts>>
       \/ scene = "gateway" /\ GatewayNext /\ UNCHANGED <<OnDisk, searchVars, pullVars, Agents, Shells, Texts>>
       \/ scene = "pull" /\ PullNext /\ UNCHANGED <<OnDisk, searchVars, gatewayVars, Agents, Shells, Texts>>
       \/ scene = "tools" /\ AuthNext /\ UNCHANGED <<OnDisk, searchVars, Models, echoVars, Shells, Texts>>
       \/ scene \in {"echo", "follow"} /\ EchoSceneNext
              /\ UNCHANGED <<OnDisk, searchVars, Models, authVars, Shells, Texts>>
       \/ scene = "host" /\ HostNext /\ UNCHANGED <<OnDisk, searchVars, Models, Agents, serverVars, Texts>>
       \/ scene = "server" /\ ServerNext /\ UNCHANGED <<OnDisk, searchVars, Models, Agents, hostVars, Texts>>
       \/ scene = "transcript" /\ TranscriptNext
              /\ UNCHANGED <<OnDisk, searchVars, Models, Agents, Shells, textVars>>
       \/ scene = "text" /\ TextNext /\ UNCHANGED <<OnDisk, searchVars, Models, Agents, Shells, transcriptVars>>

Spec == Init /\ [][Next]_<<scene, OnDisk, searchVars, Models, Agents, Shells, Texts>>
=============================================================================
