------------------------------- MODULE Gateway -------------------------------
(***************************************************************************)
(* pos-gateway: the dispatch chokepoint of every model call.  A call passes  *)
(* the project's policy, resolves its credential, takes the transport of its *)
(* endpoint's locality, streams the provider's answer into the caller's sink *)
(* and writes one ledger row.  Callers run in parallel and share the secret  *)
(* store and the ledger.  A response body is a sequence of SSE lines, and a  *)
(* data line carries one payload of the provider.                            *)
(***************************************************************************)
EXTENDS Integers, Sequences, FiniteSets, SequencesExt, FiniteSetsExt, TLC

CONSTANTS
    Callers,       \* threads that call the gateway
    Routings,      \* bound: the routings; routing[r] is the ModelChoice of a route, if it has one
    Policies,      \* the model policies a project can be opened with
    AllowedBases,  \* the base URLs a custom_endpoints policy lists
    Providers,    \* families with a registered provider
    AdapterUrl,    \* AdapterUrl[family]: scheme and host of the base_url its provider was built with
    Engines,       \* of "transcribe", "embed": the engines composed in
    HasRemote,     \* whether a remote transport is composed in
    Requests,      \* bound: the completion requests
    Bodies,        \* Bodies[family]: the response bodies the provider can send
    Statuses,      \* bound: the HTTP statuses it can answer
    OutputCap,     \* OUTPUT_TOKENS_REQUEST_MAX
    LedgerMax,     \* MEMORY_LEDGER_RECORDS_MAX, or the log's refusal
    MaxCalls,      \* bound: calls of a caller
    NoChoice

VARIABLES
    routing,   \* GatewayConfig::routing
    policy,    \* GatewayConfig::policy
    secret,    \* secret[s]: the store's row of a secret
    call,      \* call[c]: the call a caller has in flight or had last
    made,      \* made[c]: calls the caller made
    ledger,    \* the rows of the cost ledger
    usageSeen, \* whether the compatible server reports, ignores or rejects stream usage
    profile    \* EndpointProfile of the compatible adapter

gatewayVars == <<routing, policy, secret, call, made, ledger, usageSeen, profile>>

Tiers == {"frontier", "fast"}
Localities == {"in_process", "device_local", "remote"}

(* CredentialClass: a device session has no secret.                          *)
NeedsSecret(choice) == choice.class \in {"managed", "byok"}
SecretRefs == {choice.secret : choice \in {c \in UNION {Range(r) : r \in Routings} : NeedsSecret(c)}}

FreshDecoder == [named |-> FALSE, data |-> <<>>]
FreshAnswer == [usageIn |-> FALSE, usageOut |-> FALSE, refused |-> FALSE, failed |-> FALSE, broken |-> FALSE,
                block |-> FALSE, closed |-> FALSE, out |-> <<>>]
NoCall == [pc |-> "idle", route |-> "fast", request |-> NoChoice, auth |-> FALSE, sent |-> "nowhere", status |-> 0,
         body |-> <<>>, got |-> 0, dec |-> FreshDecoder, stream |-> FreshAnswer, ended |-> FALSE,
         outcome |-> "none", usage |-> [in |-> 0, out |-> 0, measured |-> FALSE]]

(* EndpointProfile::conservative, and the profile execute_echo_worker gives  *)
(* its adapter: that of a server which reports usage.                        *)
Conservative == [server |-> "unknown", usage |-> FALSE]
OfOllama == [server |-> "ollama", usage |-> TRUE]

GatewayInit ==
    /\ routing \in Routings
    /\ policy \in Policies
    /\ secret = [s \in SecretRefs |-> [known |-> FALSE, revoked |-> FALSE, used |-> FALSE]]
    /\ call = [c \in Callers |-> NoCall]
    /\ made = [c \in Callers |-> 0]
    /\ ledger = <<>>
    /\ usageSeen \in {"reported", "ignored", "rejected"}
    /\ profile = Conservative \/ (profile = OfOllama /\ usageSeen = "reported")

-----------------------------------------------------------------------------
(* ModelPolicy::authorize.                                                   *)
Authorize(p, choice) ==
    \/ choice.locality \in {"in_process", "device_local"}
    \/ p = "cloud_allowed" /\ choice.pinned
    \/ p = "custom_endpoints" /\ (choice.pinned \/ choice.base \in AllowedBases)

(* EndpointConfig::new: what a route of a configuration can be.              *)
EndpointValid(choice) ==
    /\ choice.locality \in Localities
    /\ choice.locality = "device_local" => choice.host = "loopback"
    /\ choice.locality # "in_process" => choice.scheme \in {"http", "https"}

ASSUME RoutingValid == \A r \in Routings : Tiers \subseteq DOMAIN r /\ \A t \in DOMAIN r : EndpointValid(r[t])

(* The lines of a body: an event is its lines up to a blank one, and has one *)
(* data line at most, since a provider puts a payload on one line.           *)
IsData(line) == line \notin {"", "event:", ":"}
Framed(body) ==
    /\ body \in Seq(STRING)
    /\ \A i, j \in 1..Len(body) : i < j /\ IsData(body[i]) /\ IsData(body[j]) => \E m \in i..j : body[m] = ""

ASSUME BodiesFramed == \A r \in Routings : \A t \in Tiers : \A body \in Bodies[r[t].family] : Framed(body)
ASSUME RequestsTyped ==
    /\ \A request \in Requests : request.messages \in Nat
    /\ Statuses \subseteq Nat

(* What a row says of who pays.                                              *)
CostKind(choice, measured) ==
    IF choice.class # "managed" THEN "customer_billed" ELSE IF measured THEN "measured" ELSE "estimated"

(* MemorySecretStore::resolve: revocation is looked up before the value.     *)
SecretResult(s) == IF secret[s].revoked THEN "revoked" ELSE IF secret[s].known THEN "value" ELSE "unknown"

(* TransportSelection::for_locality and Transports::resolve.                 *)
Selected(choice) == choice.locality
TransportReady(choice) == Selected(choice) # "remote" \/ HasRemote

(* The URL checks of the two transports: loopback HTTP takes http to a host  *)
(* that resolves to a loopback address, TLS takes https.  The URL is that of *)
(* the provider's own base_url, which nothing compares with the endpoint the *)
(* policy was asked about.                                                   *)
LoopbackReaches(url) == url.scheme = "http" /\ url.host = "loopback"
TlsReaches(url) == url.scheme = "https"
Reaches(choice) ==
    LET url == AdapterUrl[choice.family]
    IN IF Selected(choice) = "remote" THEN TlsReaches(url) ELSE LoopbackReaches(url)

(* How a call to a host that can be reached fails, before its head and after. *)
TlsSendErrors == {"timeout", "host refused", "connect", "io", "protocol"}
LoopbackSendErrors == {"timeout", "connect", "io", "protocol"}
SendErrors(choice) == IF Selected(choice) = "remote" THEN TlsSendErrors ELSE LoopbackSendErrors
BodyErrors == {"timeout", "io", "protocol"}

(* Weather.                                                                  *)
WeatherFromStatus(status, body) ==
    CASE status \in {401, 403} -> "auth_rejected"
      [] status = 429 -> "rate_limited"
      [] status \in {400, 404, 422} -> IF body = "names a field" THEN "unsupported_field" ELSE "malformed_output"
      [] status >= 500 -> "transport_failure"
      [] OTHER -> "malformed_output"
WeatherFromTransport(error) == IF error = "timeout" THEN "timeout" ELSE "transport_failure"

-----------------------------------------------------------------------------
(* The adapters: what keeps a request from being planned.                    *)
IncludesUsage(family) == family \in {"openai", "openrouter"} \/ (family = "compatible" /\ profile.usage)
TakesEffort(family) == family = "openai" \/ (family = "compatible" /\ profile.server = "ollama")
PlanChatCompletions(family, request) ==
    CASE request.messages = 0 -> "invalid_request"
      [] request.effort /\ ~TakesEffort(family) -> "unsupported_field"
      [] request.tools = "malformed" -> "invalid_request"
      [] OTHER -> "planned"
PlanMessages(request) ==
    CASE request.effort -> "unsupported_field"
      [] request.messages = 0 \/ request.tools = "malformed" -> "invalid_request"
      [] OTHER -> "planned"
PlanGenerateContent(request) ==
    CASE request.effort -> "unsupported_field"
      [] request.messages = 0 \/ request.tools = "malformed" -> "invalid_request"
      [] OTHER -> "planned"
PlanRequest(family, request) ==
    CASE family = "anthropic" -> PlanMessages(request)
      [] family = "google" -> PlanGenerateContent(request)
      [] OTHER -> PlanChatCompletions(family, request)

(* The sink takes an event and may close, which the stream remembers.        *)
Deliver(st, event, closes) == [st EXCEPT !.out = Append(@, event), !.closed = @ \/ closes]

(* WireStream::consume_data.  A delta with text and tool calls is two        *)
(* events, and the second goes out even when the first closed the sink.      *)
ConsumeWire(st, payload, closes) ==
    CASE payload = "done" -> st
      [] payload = "garbage" -> [st EXCEPT !.broken = TRUE]
      [] payload = "usage" -> [st EXCEPT !.usageIn = TRUE, !.usageOut = TRUE]
      [] payload = "filtered" -> [st EXCEPT !.refused = TRUE]
      [] payload \in {"text", "tool"} -> Deliver(st, payload, closes)
      [] payload = "text+tool" -> Deliver(Deliver(st, "text", closes), "tool", closes)
      [] OTHER -> st

(* MessagesStream::consume: usage comes in two halves, and a tool call is    *)
(* gathered between the start and the stop of its block.                     *)
ConsumeMessages(st, payload, closes) ==
    CASE payload = "garbage" -> [st EXCEPT !.broken = TRUE]
      [] payload = "start" -> [st EXCEPT !.usageIn = TRUE]
      [] payload = "usage" -> [st EXCEPT !.usageOut = TRUE]
      [] payload = "filtered" -> [st EXCEPT !.refused = TRUE]
      [] payload = "error" -> [st EXCEPT !.failed = TRUE]
      [] payload = "text" -> Deliver(st, "text", closes)
      [] payload = "block start" -> [st EXCEPT !.block = TRUE]
      [] payload = "block stop" /\ st.block -> Deliver([st EXCEPT !.block = FALSE], "tool", closes)
      [] OTHER -> st

(* GeminiStream::consume_data.                                               *)
ConsumeGenerate(st, payload, closes) ==
    CASE payload = "garbage" -> [st EXCEPT !.broken = TRUE]
      [] payload = "usage" -> [st EXCEPT !.usageIn = TRUE, !.usageOut = TRUE]
      [] payload = "filtered" -> [st EXCEPT !.refused = TRUE]
      [] payload \in {"text", "tool"} -> Deliver(st, payload, closes)
      [] payload = "text+tool" -> Deliver(Deliver(st, "text", closes), "tool", closes)
      [] OTHER -> st

ConsumeData(family, st, payload, closes) ==
    CASE family = "anthropic" -> ConsumeMessages(st, payload, closes)
      [] family = "google" -> ConsumeGenerate(st, payload, closes)
      [] OTHER -> ConsumeWire(st, payload, closes)

(* SseDecoder::line_complete: a blank line completes the event.  An event    *)
(* with a name and no data line has an empty payload, which no adapter can   *)
(* parse.                                                                    *)
LineComplete(dec, line) ==
    CASE line = "" -> [dec |-> FreshDecoder,
                       event |-> IF dec.data # <<>> THEN dec.data
                                 ELSE IF dec.named THEN <<"garbage">> ELSE <<>>]
      [] line = "event:" -> [dec |-> [dec EXCEPT !.named = TRUE], event |-> <<>>]
      [] line = ":" -> [dec |-> dec, event |-> <<>>]
      [] OTHER -> [dec |-> [dec EXCEPT !.data = Append(@, line)], event |-> <<>>]

(* complete_over_wire, and complete of the other two adapters, once the      *)
(* transport returned without an error or was aborted.                       *)
EstimateTokens(chars) == (chars + 3) \div 4
TextsOut(st) == Cardinality({i \in DOMAIN st.out : st.out[i] = "text"})
UsageOf(st, request) ==
    IF st.usageIn /\ st.usageOut THEN [in |-> 9, out |-> 9, measured |-> TRUE]
    ELSE [in |-> EstimateTokens(request.messages), out |-> EstimateTokens(TextsOut(st)), measured |-> FALSE]
WireOutcome(st) == IF st.refused THEN "refusal" ELSE IF st.broken THEN "malformed_output" ELSE "ok"
GenerateOutcome(st) == IF st.refused THEN "refusal" ELSE IF st.broken THEN "malformed_output" ELSE "ok"
MessagesOutcome(st) ==
    CASE st.refused -> "refusal"
      [] ~st.refused /\ st.failed -> "transport_failure"
      [] ~st.refused /\ ~st.failed /\ st.broken -> "malformed_output"
      [] OTHER -> "ok"
StreamOutcome(family, st) ==
    CASE family = "anthropic" -> MessagesOutcome(st)
      [] family = "google" -> GenerateOutcome(st)
      [] OTHER -> WireOutcome(st)

-----------------------------------------------------------------------------
(* The dispatch.  A step of a call writes call[c] and leaves the rest.       *)
ChoiceOf(c) == routing[call[c].route]
CallStep(c, next) == call' = [call EXCEPT ![c] = next]
CallSettled(c, outcome) == [call[c] EXCEPT !.pc = "record", !.outcome = outcome]

(* A call begins, at the first step that has an effect or at its refusal.    *)
CallAt(r, request, pc, outcome) ==
    [NoCall EXCEPT !.route = r, !.request = request, !.pc = pc, !.outcome = outcome]
Starts(c, k) ==
    /\ call[c].pc \in {"idle", "done"}
    /\ made[c] < MaxCalls
    /\ made' = [made EXCEPT ![c] = @ + 1]
    /\ CallStep(c, k)
    /\ UNCHANGED <<routing, policy, secret, ledger, usageSeen, profile>>

(* Gateway::complete: the policy, then the output cap.                       *)
Complete(c, tier, request) ==
    Starts(c, IF ~Authorize(policy, routing[tier]) THEN CallAt(tier, request, "record", "policy_violation")
              ELSE IF request.cap > OutputCap THEN CallAt(tier, request, "record", "budget_exhausted")
              ELSE CallAt(tier, request, "auth", "none"))

(* A route that is not configured returns before a ledger row exists; the    *)
(* policy comes before the engine.                                           *)
EngineStart(r) ==
    IF r \notin DOMAIN routing THEN CallAt(r, NoChoice, "done", "unrouted")
    ELSE IF ~Authorize(policy, routing[r]) THEN CallAt(r, NoChoice, "record", "policy_violation")
    ELSE IF r \notin Engines THEN CallAt(r, NoChoice, "record", "not_yet_supported")
    ELSE CallAt(r, NoChoice, "auth", "none")
Transcribe(c) == Starts(c, EngineStart("transcribe"))
EmbedBatch(c) == Starts(c, EngineStart("embed"))

(* resolve_auth, the provider and the transport.                             *)
ResolveAuth(c) ==
    LET choice == ChoiceOf(c)
        result == IF NeedsSecret(choice) THEN SecretResult(choice.secret) ELSE "none"
        think == call[c].route \in Tiers
    IN /\ call[c].pc = "auth"
       /\ secret' = IF result = "value" THEN [secret EXCEPT ![choice.secret].used = TRUE] ELSE secret
       /\ CallStep(c, CASE result = "revoked" -> CallSettled(c, "credential_revoked")
                    [] result = "unknown" -> CallSettled(c, "credential_unavailable")
                    [] result \in {"value", "none"} /\ think /\ choice.family \notin Providers ->
                           CallSettled(c, "invalid_request")
                    [] result \in {"value", "none"} /\ (think => choice.family \in Providers)
                           /\ (~TransportReady(choice) \/ (think /\ Selected(choice) = "in_process")) ->
                           CallSettled(c, "transport_unavailable")
                    [] OTHER -> [call[c] EXCEPT !.pc = "send", !.auth = result = "value"])
       /\ UNCHANGED <<routing, policy, made, ledger, usageSeen, profile>>

(* The plan, the connection and the head of the response.  A server that     *)
(* does not know stream_options says so when the plan carries it.            *)
SendRequest(c) ==
    LET choice == ChoiceOf(c)
        planned == PlanRequest(choice.family, call[c].request)
        family == choice.family
    IN /\ call[c].pc = "send"
       /\ call[c].route \in Tiers
       /\ \/ /\ planned # "planned"
             /\ CallStep(c, CallSettled(c, planned))
          \/ /\ planned = "planned"
             /\ ~Reaches(choice)
             /\ CallStep(c, CallSettled(c, WeatherFromTransport("host refused")))
          \/ /\ planned = "planned"
             /\ Reaches(choice)
             /\ \E error \in SendErrors(choice) :
                    CallStep(c, [CallSettled(c, WeatherFromTransport(error)) EXCEPT !.sent = Selected(choice)])
          \/ /\ planned = "planned"
             /\ Reaches(choice)
             /\ IF family = "compatible" /\ usageSeen = "rejected" /\ IncludesUsage(family)
                THEN CallStep(c, [CallSettled(c, WeatherFromStatus(400, "names a field")) EXCEPT !.sent = Selected(choice)])
                ELSE \E status \in Statuses : \E body \in Bodies[family] :
                         CallStep(c, [call[c] EXCEPT !.pc = "stream", !.sent = Selected(choice), !.status = status,
                                                 !.body = IF status < 300 THEN body ELSE <<>>])
       /\ UNCHANGED <<routing, policy, secret, made, ledger, usageSeen, profile>>

(* An engine of the transcribe or embed route answers.                       *)
EngineCall(c) ==
    /\ call[c].pc = "send"
    /\ call[c].route \in {"transcribe", "embed"}
    /\ \E outcome \in {"ok", "timeout", "invalid_request"} :
           CallStep(c, [CallSettled(c, outcome) EXCEPT !.sent = Selected(ChoiceOf(c)), !.ended = outcome = "ok"])
    /\ UNCHANGED <<routing, policy, secret, made, ledger, usageSeen, profile>>

(* What complete makes of the stream when the transport returned.            *)
Completed(c, k) ==
    LET outcome == IF k.status >= 300 THEN WeatherFromStatus(k.status, "") ELSE StreamOutcome(ChoiceOf(c).family, k.stream)
    IN [k EXCEPT !.pc = "record", !.outcome = outcome,
                 !.usage = IF outcome = "ok" THEN UsageOf(k.stream, k.request) ELSE @]

(* on_chunk, one line at a time: a completed event is consumed, and a sink   *)
(* that closed aborts the transfer.  An event over the size cap aborts it    *)
(* too, and what the same chunk had completed is not consumed.               *)
OnChunk(c) ==
    /\ call[c].pc = "stream"
    /\ call[c].status < 300
    /\ call[c].got < Len(call[c].body)
    /\ LET k == call[c]
           fed == LineComplete(k.dec, k.body[k.got + 1])
       IN \/ \E closes \in BOOLEAN :
                 LET st == IF fed.event = <<>> THEN k.stream
                           ELSE ConsumeData(ChoiceOf(c).family, k.stream, Head(fed.event), closes)
                     next == [k EXCEPT !.got = @ + 1, !.dec = fed.dec, !.stream = st]
                 IN CallStep(c, IF st.closed THEN Completed(c, next) ELSE next)
          \/ CallStep(c, Completed(c, [k EXCEPT !.stream.broken = TRUE]))
    /\ UNCHANGED <<routing, policy, secret, made, ledger, usageSeen, profile>>

(* stream_body: the framing says the body is over, or the connection ends    *)
(* or times out inside it.                                                   *)
BodyEnds(c) ==
    /\ call[c].pc = "stream"
    /\ \/ /\ call[c].got = Len(call[c].body)
          /\ CallStep(c, Completed(c, [call[c] EXCEPT !.ended = TRUE]))
       \/ \E error \in BodyErrors : CallStep(c, CallSettled(c, WeatherFromTransport(error)))
    /\ UNCHANGED <<routing, policy, secret, made, ledger, usageSeen, profile>>

(* The row of a call, and whether the ledger takes it.                       *)
LedgerRow(c) ==
    [caller |-> c, nth |-> made[c], outcome |-> call[c].outcome, usage |-> call[c].usage,
     cost |-> CostKind(ChoiceOf(c), call[c].usage.measured)]
LedgerTakes == Len(ledger) < LedgerMax

(* One row on every path, and a row that cannot be written outranks the      *)
(* call's own outcome.                                                       *)
CallRecorded(c) ==
    /\ call[c].pc = "record"
    /\ \/ /\ LedgerTakes
          /\ ledger' = Append(ledger, LedgerRow(c))
          /\ CallStep(c, [call[c] EXCEPT !.pc = "done"])
       \/ /\ ~LedgerTakes
          /\ CallStep(c, [call[c] EXCEPT !.pc = "done", !.outcome = "ledger_failure"])
          /\ UNCHANGED ledger
    /\ UNCHANGED <<routing, policy, secret, made, usageSeen, profile>>

(* Slip of RecordOutcome: a failed call returns without its row.             *)
RecordOutcomeOnOk(c) ==
    /\ call[c].route \in Tiers
    /\ \/ call[c].outcome = "ok" /\ CallRecorded(c)
       \/ /\ call[c].pc = "record" /\ call[c].outcome # "ok"
          /\ CallStep(c, [call[c] EXCEPT !.pc = "done"])
          /\ UNCHANGED <<routing, policy, secret, made, ledger, usageSeen, profile>>

RecordOutcome(c) == call[c].route \in Tiers /\ CallRecorded(c)
RecordTranscribe(c) == call[c].route = "transcribe" /\ CallRecorded(c)
RecordEmbed(c) == call[c].route = "embed" /\ CallRecorded(c)

(* MemorySecretStore::insert: a new value does not lift a revocation.        *)
InsertSecret(s) ==
    /\ ~secret[s].known
    /\ secret' = [secret EXCEPT ![s].known = TRUE]
    /\ UNCHANGED <<routing, policy, call, made, ledger, usageSeen, profile>>

(* SecretStore::revoke.                                                      *)
RevokeSecret(s) ==
    /\ secret[s].known
    /\ ~secret[s].revoked
    /\ secret' = [secret EXCEPT ![s].revoked = TRUE]
    /\ UNCHANGED <<routing, policy, call, made, ledger, usageSeen, profile>>

(* The process is killed: what its calls had not recorded is never recorded. *)
ProcessKilled ==
    /\ \E c \in Callers : call[c].pc \notin {"idle", "done", "lost"}
    /\ call' = [c \in Callers |-> IF call[c].pc \in {"idle", "done"} THEN call[c]
                                  ELSE [call[c] EXCEPT !.pc = "lost"]]
    /\ UNCHANGED <<routing, policy, secret, made, ledger, usageSeen, profile>>

(* What a completion tells qualify_openai_compatible, with stream usage      *)
(* asked for or not.                                                         *)
Passes(asked) ==
    {"weather", "estimated"} \cup
    (CASE asked /\ usageSeen = "rejected" -> {"unsupported_field"}
       [] asked /\ usageSeen = "ignored" -> {}
       [] OTHER -> {"measured"})

(* list_models, a completion with stream usage, retried without it when the  *)
(* server names the field; usage that did not come back measured is not      *)
(* claimed either.  Any other weather, and a catalog without the model, end  *)
(* the qualification and the adapter keeps its profile.  Gateway::new takes  *)
(* the adapter with the profile, so that it is settled before any call.      *)
Qualified(server, models, first, second) ==
    LET asked == first # "unsupported_field"
        usage == IF asked THEN first ELSE second
    IN IF models = "model listed" /\ usage \in {"measured", "estimated"}
       THEN [server |-> server, usage |-> asked /\ usage = "measured"]
       ELSE profile

Qualify ==
    /\ \A c \in Callers : made[c] = 0
    /\ \E server \in {"ollama", "unknown"}, models \in {"weather", "model missing", "model listed"} :
       \E first \in Passes(TRUE), second \in Passes(FALSE) : profile' = Qualified(server, models, first, second)
    /\ UNCHANGED <<routing, policy, secret, call, made, ledger, usageSeen>>

GatewayNext ==
    \/ \E c \in Callers :
           \/ \E tier \in Tiers : \E request \in Requests : Complete(c, tier, request)
           \/ Transcribe(c) \/ EmbedBatch(c)
           \/ ResolveAuth(c) \/ SendRequest(c) \/ EngineCall(c)
           \/ OnChunk(c) \/ BodyEnds(c)
           \/ RecordOutcome(c) \/ RecordTranscribe(c) \/ RecordEmbed(c)
    \/ \E s \in SecretRefs : InsertSecret(s) \/ RevokeSecret(s)
    \/ ProcessKilled
    \/ Qualify

GatewaySpec == GatewayInit /\ [][GatewayNext]_gatewayVars

-----------------------------------------------------------------------------
(* preflight: what a shell is told before a call.                            *)
Preflight(r) ==
    [leaves |-> routing[r].locality = "remote",
     revoked |-> NeedsSecret(routing[r]) /\ SecretResult(routing[r].secret) = "revoked"]

(* Invariants 1, 2 and 4 of dispatch.rs.  A call that returned left exactly  *)
(* one row, which says what the caller was told, or the caller was told that *)
(* the ledger failed; a call that has not returned left none; and whatever   *)
(* was sent went over the transport of a locality that the policy and        *)
(* preflight had named.                                                      *)
RowsOf(c) == {i \in DOMAIN ledger : ledger[i].caller = c /\ ledger[i].nth = made[c]}

DispatchAccounted ==
    \A c \in Callers :
        /\ IF call[c].pc = "done" /\ call[c].outcome \notin {"unrouted", "ledger_failure"}
           THEN \E i \in DOMAIN ledger : RowsOf(c) = {i} /\ ledger[i].outcome = call[c].outcome
                                                        /\ ledger[i].usage = call[c].usage
           ELSE RowsOf(c) = {}
        /\ call[c].sent # "nowhere" => /\ Authorize(policy, ChoiceOf(c))
                                       /\ (call[c].sent = "remote") = Preflight(call[c].route).leaves
        /\ call[c].outcome = "ok" => call[c].sent # "nowhere"

(* What the sink was given is what the provider sent, in order: the texts     *)
(* and tool calls of the events that were complete, up to the event at which *)
(* the sink closed and nothing after it.  An answer is "ok" only when        *)
(* nothing refused or broken was read, and a usage that is called measured   *)
(* was reported by the provider.                                             *)
WholeLines(body, got) == LET blanks == {i \in 1..got : body[i] = ""} IN IF blanks = {} THEN 0 ELSE Max(blanks)
BlockOpen(body, n) ==
    \E i \in 1..n : body[i] = "block start" /\ \A j \in (i + 1)..n : body[j] # "block stop"
Carries(family, body, i, event) ==
    IF family = "anthropic" THEN \/ event = "text" /\ body[i] = "text"
                                 \/ event = "tool" /\ body[i] = "block stop" /\ BlockOpen(body, i - 1)
    ELSE body[i] \in {event, "text+tool"}
Sent(family, body, n) == {x \in (1..n) \X {"text", "tool"} : Carries(family, body, x[1], x[2])}
UpTo(sent, x) == {y \in sent : y[1] < x[1] \/ (y[1] = x[1] /\ (y[2] = "text" \/ y = x))}
Conveys(out, sent) ==
    /\ Len(out) = Cardinality(sent)
    /\ \A x \in sent : out[Cardinality(UpTo(sent, x))] = x[2]

AnswerFaithful ==
    \A c \in Callers :
        LET k == call[c]
            n == WholeLines(k.body, k.got)
            lines == {k.body[i] : i \in 1..n}
        IN k.pc \in {"stream", "record", "done"} /\ k.route \in Tiers /\ k.body # <<>> =>
               /\ Conveys(k.stream.out, Sent(ChoiceOf(c).family, k.body, n))
               /\ k.stream.closed => k.pc # "stream"
               /\ k.outcome = "ok" => /\ "filtered" \notin lines /\ "garbage" \notin lines
                                      /\ k.stream.closed \/ k.ended
                                      /\ k.usage.measured => "usage" \in lines

(* A profile that qualification settled never makes the endpoint refuse a    *)
(* call for the field it was asked about.                                    *)
QualifiedEndpointServes ==
    \A c \in Callers :
        call[c].pc \in {"stream", "record"} /\ call[c].sent # "nowhere" /\ call[c].status = 0
            /\ ChoiceOf(c).family = "compatible" => call[c].outcome # "unsupported_field"

(* A call is accounted for, its answer is the provider's, and a qualified       *)
(* endpoint serves it.                                                       *)
GatewaySound == DispatchAccounted /\ AnswerFaithful /\ QualifiedEndpointServes
=============================================================================
