------------------------------ MODULE Dialects ------------------------------
(***************************************************************************)
(* A conversation over the Anthropic dialect, turn after turn: the client  *)
(* keeps the history and posts all of it with every request, the gateway   *)
(* turns it into the messages and the body the upstream takes              *)
(* (cline_gateway/translate_anthropic.py, build_upstream_body of           *)
(* upstream.py), and the reply goes into the history in the client's form. *)
(*                                                                         *)
(* A content block is [type, id, value]: type "text", "image", "tool_use", *)
(* "tool_result" or "other" (thinking, documents: what the translator does *)
(* not know).  Texts joined into one string stay a sequence of texts.      *)
(***************************************************************************)
EXTENDS Naturals, Sequences, FiniteSets, SequencesExt

CONSTANTS
    UserContents,    \* what the user may add to a turn: sequences of blocks
    Texts,           \* texts of the assistant and of tool results, "" included
    MaxCalls,        \* bound: tool calls of one reply
    MaxTurns,        \* bound: messages of a history
    Settings,        \* the controls a client may set
    NoControls,      \* none of them
    DefaultLimit     \* models.default_max_tokens

\* What a request may set.
SamplingKeys == {"temperature", "top_p", "top_k", "stop", "seed"}
LimitKeys == {"max_tokens", "max_completion_tokens"}
Controls == {"reasoning_effort", "reasoningEffort", "effort", "thinking",
             "enable_thinking", "reasoning"} \cup LimitKeys \cup SamplingKeys

ASSUME DialectsAssumption ==
    /\ \A said \in UserContents :
          said \in Seq([type : {"text", "image", "other"}, id : {0}, value : STRING])
    /\ Texts \subseteq STRING
    /\ MaxCalls \in Nat /\ MaxTurns \in Nat
    /\ Settings \subseteq [Controls -> STRING]
    /\ NoControls \in [Controls -> STRING]
    /\ DefaultLimit \in STRING \ {"absent"}

VARIABLES
    history,         \* the client's `messages`, in Anthropic form
    lived,           \* the conversation as it happened, as items
    pending,         \* tool calls of the last reply, not answered yet
    calls,           \* tool calls so far: the source of fresh ids
    body             \* the body of the request under way

vars == <<history, lived, pending, calls, body>>

Block(type, id, value) == [type |-> type, id |-> id, value |-> value]
Text(t) == Block("text", 0, t)

\* The blocks of these types, in order, but for those whose value is `dropped`.
Kept(blocks, types, dropped) ==
    LET kept[k \in 0..Len(blocks)] ==
            IF k = 0 THEN <<>>
            ELSE IF blocks[k].type \in types /\ blocks[k].value \notin dropped
            THEN Append(kept[k - 1], blocks[k])
            ELSE kept[k - 1]
    IN  kept[Len(blocks)]

OfType(blocks, types) == Kept(blocks, types, {})
-----------------------------------------------------------------------------
(* messages_to_openai.                                                     *)

Message(role, id, content, toolCalls) ==
    [role |-> role, id |-> id, content |-> content, calls |-> toolCalls]

Ids(blocks) == [i \in DOMAIN blocks |-> blocks[i].id]

\* Empty texts are left out of the content, which may be None.
AssistantEntry(blocks) ==
    Message("assistant", 0,
            Kept(blocks, {"text"}, {""}),
            Ids(OfType(blocks, {"tool_use"})))

\* One `tool` message for each result.
ToolEntries(blocks) ==
    LET results == OfType(blocks, {"tool_result"})
    IN  [i \in DOMAIN results |->
           Message("tool", results[i].id, <<Text(results[i].value)>>, <<>>)]

UserEntries(blocks) ==
    LET parts == OfType(blocks, {"text", "image"})
    IN  IF parts = <<>> THEN <<>> ELSE <<Message("user", 0, parts, <<>>)>>

\* Mutant: what the user says comes before the results.
TranslatedInOrder(msg) ==
    IF msg.role = "assistant"
    THEN <<AssistantEntry(msg.content)>>
    ELSE UserEntries(msg.content) \o ToolEntries(msg.content)

Translated(msg) ==
    IF msg.role = "assistant"
    THEN <<AssistantEntry(msg.content)>>
    ELSE ToolEntries(msg.content) \o UserEntries(msg.content)

MessagesToOpenai(messages) ==
    FlattenSeq([i \in DOMAIN messages |-> Translated(messages[i])])
-----------------------------------------------------------------------------
(* The controls.  A setting that is absent has the value "absent"; a       *)
(* payload is a function of the names below.                               *)

EffortKeys == <<"reasoning_effort", "reasoningEffort", "effort">>
Absent(payload, key) == payload[key] = "absent"

\* request_to_openai: what of the controls an Anthropic request carries on.
\* Its `thinking` is not among them.
RequestToOpenai(req) ==
    [key \in DOMAIN req |->
       CASE key = "max_tokens" ->
              IF Absent(req, key) THEN DefaultLimit ELSE req[key]
         [] key \in {"temperature", "top_p", "top_k", "stop", "reasoning_effort"} ->
              req[key]
         [] OTHER -> "absent"]

Alias(effort) ==
    CASE effort \in {"none", "off", "disabled", "false"} -> "none"
      [] effort \in {"minimal", "medium"} -> "medium"
      [] effort \in {"xhigh", "extra", "max"} -> "xhigh"
      [] effort \in {"low", "high"} -> effort
      [] OTHER -> "unknown"

\* _normalise_effort, with the floor of the kimi family, and what the caller
\* makes of a word it does not know.
NormaliseEffort(effort, variant, kimi) ==
    IF effort = "low" /\ kimi THEN "medium"
    ELSE IF Alias(effort) # "unknown" THEN Alias(effort)
    ELSE IF variant = "reasoning" THEN "medium" ELSE "low"

\* Mutant: `if payload.get("enable_thinking")`.
ClientEffortTruthy(payload) ==
    LET named == {n \in DOMAIN EffortKeys : ~Absent(payload, EffortKeys[n])}
    IN  CASE named # {} -> payload[EffortKeys[Min(named)]]
          [] named = {} /\ payload["thinking"] = "disabled" -> "none"
          [] named = {} /\ payload["thinking"] = "enabled" -> "medium"
          [] OTHER -> IF payload["enable_thinking"] = "true" THEN "medium" ELSE "absent"

\* The effort keys in their order, then the `thinking` object, then the flag.
ClientEffort(payload) ==
    LET named == {n \in DOMAIN EffortKeys : ~Absent(payload, EffortKeys[n])}
    IN  CASE named # {} -> payload[EffortKeys[Min(named)]]
          [] named = {} /\ payload["thinking"] = "disabled" -> "none"
          [] named = {} /\ payload["thinking"] = "enabled" -> "medium"
          [] named = {} /\ Absent(payload, "thinking")
                        /\ payload["enable_thinking"] = "false" -> "none"
          [] named = {} /\ Absent(payload, "thinking")
                        /\ payload["enable_thinking"] = "true" -> "medium"
          [] OTHER -> "absent"

\* The reasoning of a body: "disabled" is {"enabled": false}, whether the client
\* sent it or the gateway makes it; any other object is passed on as it is
\* ("enabled", "effort"); what is left is a reasoning_effort.
Reasoning(payload, variant, kimi) ==
    LET effort == ClientEffort(payload)
        mapped == NormaliseEffort(effort, variant, kimi)
    IN  IF payload["reasoning"] \in {"enabled", "disabled"} THEN payload["reasoning"]
        ELSE IF effort # "absent" THEN IF mapped = "none" THEN "disabled" ELSE mapped
        ELSE IF payload["reasoning"] = "effort" THEN "effort"
        ELSE IF variant = "reasoning" THEN "disabled" ELSE "low"

\* Mutant: `payload.get("max_tokens") or ...`, which takes 0 for absent.
LimitTruthy(payload) ==
    IF payload["max_tokens"] \notin {"absent", "0"} THEN payload["max_tokens"]
    ELSE IF payload["max_completion_tokens"] \notin {"absent", "0"}
         THEN payload["max_completion_tokens"] ELSE DefaultLimit

\* The token limit, and the key it goes under.
Limit(payload) ==
    IF ~Absent(payload, "max_tokens") THEN payload["max_tokens"]
    ELSE IF ~Absent(payload, "max_completion_tokens")
         THEN payload["max_completion_tokens"] ELSE DefaultLimit

LimitKey(variant) ==
    CASE variant = "reasoning" -> "absent"
      [] variant = "openai-nextgen" -> "max_completion_tokens"
      [] OTHER -> "max_tokens"

BuildUpstreamBody(messages, payload, variant, kimi) ==
    [messages |-> messages, variant |-> variant,
     reasoning |-> Reasoning(payload, variant, kimi),
     limits |-> [key \in LimitKeys |->
                   IF key = LimitKey(variant) THEN Limit(payload) ELSE "absent"],
     sampling |-> [key \in SamplingKeys |-> payload[key]]]
-----------------------------------------------------------------------------
(* The conversation.                                                       *)

Item(kind, id, value) == [type |-> kind, id |-> id, value |-> value]

\* A request under way: what the client asked for, in its dialect, and the body
\* that is sent for it.
Request(dialect, asked, upstream) ==
    [dialect |-> dialect, asked |-> asked, upstream |-> upstream]

NoBody == [dialect |-> "none"]

Init ==
    /\ history = <<>>
    /\ lived = <<>>
    /\ pending = <<>>
    /\ calls = 0
    /\ body = NoBody

ClientsTurn == history # <<>> => Last(history).role = "assistant"

\* The user speaks, and the results of the pending calls go into the same
\* message, in any order and anywhere among what the user says.
UserTurn ==
    /\ ClientsTurn
    /\ Len(history) < MaxTurns
    /\ body = NoBody
    /\ \E said \in UserContents, order \in SetToSeqs(ToSet(pending)), text \in Texts :
         LET results == [i \in DOMAIN order |-> Block("tool_result", order[i], text)]
             heard   == OfType(said, {"text", "image"})
         IN  \E k \in 0..Len(said) :
               /\ results \o said # <<>>
               /\ history' = Append(history,
                    [role |-> "user",
                     content |-> SubSeq(said, 1, k) \o results
                                   \o SubSeq(said, k + 1, Len(said))])
               /\ lived' = lived
                    \o [i \in DOMAIN order |-> Item("result", order[i], text)]
                    \o [i \in DOMAIN heard |-> Item("said", 0, heard[i].value)]
    /\ pending' = <<>>
    /\ UNCHANGED <<calls, body>>

\* What a probe may try, and whether the model is of the kimi family.
Shapes == {"default", "anthropic", "openai-nextgen", "reasoning"} \X {FALSE}
          \cup {<<"reasoning", TRUE>>}

\* POST /v1/messages, with the model's variant or one the probe tries.
\* Bound: only the first request of a conversation sets controls.
Messages ==
    /\ ~ClientsTurn
    /\ body = NoBody
    /\ \E req \in IF Len(history) = 1 THEN Settings ELSE {NoControls}, shape \in Shapes :
         body' = Request("anthropic", req,
                         BuildUpstreamBody(MessagesToOpenai(history),
                                           RequestToOpenai(req), shape[1], shape[2]))
    /\ UNCHANGED <<history, lived, pending, calls>>

\* POST /v1/chat/completions: the payload is the client's own, and so are the
\* messages; here only its controls matter.
ChatCompletions ==
    /\ history = <<>>
    /\ body = NoBody
    /\ \E req \in Settings, shape \in Shapes :
         body' = Request("openai", req, BuildUpstreamBody(<<>>, req, shape[1], shape[2]))
    /\ UNCHANGED <<history, lived, pending, calls>>

\* Mutant: a call keeps no id of its own.
ResponseToAnthropicRenumbered(text, ids) ==
    (IF text # "" THEN <<Text(text)>> ELSE <<>>)
    \o [i \in DOMAIN ids |-> Block("tool_use", i, "")]

\* response_to_anthropic, and what the stream translator makes of the same
\* reply; a reply of nothing is an empty text.
ResponseToAnthropic(text, ids) ==
    LET blocks == (IF text # "" THEN <<Text(text)>> ELSE <<>>)
                  \o [i \in DOMAIN ids |-> Block("tool_use", ids[i], "")]
    IN  IF blocks = <<>> THEN <<Text("")>> ELSE blocks

\* The upstream answers, with the calls of its choice.
Reply ==
    /\ body # NoBody
    /\ body' = NoBody
    /\ IF body.dialect = "openai" \/ Len(history) = MaxTurns
       THEN UNCHANGED <<history, lived, pending, calls>>
       ELSE \E text \in Texts, n \in 0..MaxCalls :
         LET ids == [i \in 1..n |-> calls + i]
         IN  /\ history' = Append(history, [role |-> "assistant",
                                           content |-> ResponseToAnthropic(text, ids)])
             /\ lived' = lived
                  \o (IF text # "" THEN <<Item("answered", 0, text)>> ELSE <<>>)
                  \o [i \in 1..n |-> Item("call", ids[i], "")]
             /\ pending' = ids
             /\ calls' = calls + n

Next == UserTurn \/ Messages \/ ChatCompletions \/ Reply

Spec == Init /\ [][Next]_vars
-----------------------------------------------------------------------------
(* Properties.                                                             *)

\* The upstream refuses a history where a tool call is not answered at once:
\* in every body the calls of a message are followed by their results, each
\* once, before anyone says anything else.
ResultsFollowCalls ==
    body # NoBody
    => LET messages == body.upstream.messages
       IN  \A i \in DOMAIN messages :
             LET answers == (i + 1)..(i + Len(messages[i].calls))
             IN  /\ answers \subseteq DOMAIN messages
                 /\ \A j \in answers : messages[j].role = "tool"
                 /\ {messages[j].id : j \in answers} = ToSet(messages[i].calls)

\* What a message of the body says, as items.
ItemsOf(msg) ==
    CASE msg.role = "tool" -> <<Item("result", msg.id, Head(msg.content).value)>>
      [] msg.role = "user" ->
           [i \in DOMAIN msg.content |-> Item("said", 0, msg.content[i].value)]
      [] OTHER ->
           [i \in DOMAIN msg.content |-> Item("answered", 0, msg.content[i].value)]
           \o [i \in DOMAIN msg.calls |-> Item("call", msg.calls[i], "")]

Told(messages) == FlattenSeq([i \in DOMAIN messages |-> ItemsOf(messages[i])])

\* However often the conversation crosses the two dialects, the upstream is
\* told what happened: everything said, in its order, and every call and every
\* result, under the ids it gave them itself.
ConversationIntact ==
    body # NoBody /\ body.dialect = "anthropic"
    => LET told == Told(body.upstream.messages)
       IN  /\ OfType(told, {"said", "answered"}) = OfType(lived, {"said", "answered"})
           /\ OfType(told, {"call", "result"}) = OfType(lived, {"call", "result"})

\* The spellings of "no thinking".
SaysOff(req, key) ==
    \/ key \in ToSet(EffortKeys) /\ req[key] \in {"none", "off", "disabled", "false"}
    \/ key \in {"thinking", "reasoning"} /\ req[key] = "disabled"
    \/ key = "enable_thinking" /\ req[key] = "false"

ThinkingKeys == ToSet(EffortKeys) \cup {"thinking", "enable_thinking", "reasoning"}

\* What a dialect has of these: of an Anthropic request the translator reads
\* metadata.reasoning_effort and max_tokens, and drops its `thinking`.
Understood(dialect) ==
    IF dialect = "anthropic" THEN {"reasoning_effort", "max_tokens"}
    ELSE ThinkingKeys \cup LimitKeys

\* Which of some controls a request sets in a dialect that has them.
Chosen(dialect, req, keys) == {k \in keys \cap Understood(dialect) : ~Absent(req, k)}

\* A client all of whose thinking controls say off, the `reasoning` object among
\* them, gets thinking disabled; one that sets none gets the default of the shape.
\* Of an Anthropic request, `thinking` is none of them, "disabled" or not.
ThinkingHonoured(dialect, req, sent) ==
    LET thinking == Chosen(dialect, req, ThinkingKeys)
    IN  /\ thinking # {} /\ (\A k \in thinking : SaysOff(req, k))
           => sent.reasoning = "disabled"
        /\ thinking = {}
           => sent.reasoning = IF sent.variant = "reasoning" THEN "disabled" ELSE "low"

\* The limit goes under the one key of the shape (the reasoning shape has none),
\* and is one the client set, 0 too, if it set any, under whichever key.
LimitHonoured(dialect, req, sent) ==
    LET limits == Chosen(dialect, req, LimitKeys)
        under  == {k \in LimitKeys : ~Absent(sent.limits, k)}
    IN  /\ under = CASE sent.variant = "reasoning"      -> {}
                     [] sent.variant = "openai-nextgen" -> {"max_completion_tokens"}
                     [] OTHER                           -> {"max_tokens"}
        /\ limits # {} => \A k \in under : \E l \in limits : sent.limits[k] = req[l]

\* Every sampling control arrives (an Anthropic request has no seed).
SamplingHonoured(dialect, req, sent) ==
    \A k \in SamplingKeys :
       dialect = "openai" \/ k # "seed" => sent.sampling[k] = req[k]

\* upstream.py:95 "Reasoning control a client asked for, whatever spelling it
\* used" and upstream.py:206 "dropping them made temperature/top_p/stop silently
\* no-ops": in every shape a probe may try, and from either dialect, the body asks
\* for what the client set, as far as the dialect has it.
SettingsReachUpstream ==
    body # NoBody
    => /\ ThinkingHonoured(body.dialect, body.asked, body.upstream)
       /\ LimitHonoured(body.dialect, body.asked, body.upstream)
       /\ SamplingHonoured(body.dialect, body.asked, body.upstream)
=============================================================================
