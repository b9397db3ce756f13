----------------------------- MODULE StreamRelay -----------------------------
(***************************************************************************)
(* One streamed exchange, frame by frame: ChatService.stream_from()        *)
(* (cline_gateway/service.py) and the AnthropicStreamTranslator it feeds   *)
(* (cline_gateway/translate_anthropic.py), against aggregate_openai_stream *)
(* and response_to_anthropic(), which answer the same request when it does *)
(* not ask for a stream.                                                   *)
(*                                                                         *)
(* Bytes arrive in any pieces: a frame may be cut anywhere, and may never  *)
(* be completed.  Text is not represented: a delta carries the position of *)
(* the upstream frame it came from.  Token counts are left out, and so are *)
(* frames that are not JSON objects.                                       *)
(***************************************************************************)
EXTENDS Naturals, Sequences, FiniteSets, SequencesExt

CONSTANTS
    Dialects,        \* what the client speaks: "openai", "anthropic"
    Frames,          \* the SSE frames the upstream may send
    ToolIndexes,     \* the indexes of its tool calls
    MaxFrames        \* bound: frames of one stream

TextSources == {"none", "content", "refusal"}
FinishReasons == {"none", "stop", "length", "tool_calls", "content_filter"}

\* One frame: an error, the terminator, or a chunk with one choice.
FrameSet == [type : {"chunk", "error", "done"},
             text : TextSources,
             calls : Seq([tool : ToolIndexes, args : BOOLEAN]),
             finish : FinishReasons]

ASSUME RelayAssumption ==
    /\ Dialects \subseteq {"openai", "anthropic"}
    /\ ToolIndexes \subseteq Nat /\ IsFiniteSet(ToolIndexes)
    /\ Frames \subseteq FrameSet
    /\ \A f \in Frames :
          f.type # "chunk" => f.text = "none" /\ f.calls = <<>> /\ f.finish = "none"
    /\ MaxFrames \in Nat

VARIABLES
    dialect,
    frames,          \* the frames completed so far, in order
    pending,         \* the frame under way: <<>> or <<[frame, whole]>>
    translator,      \* the AnthropicStreamTranslator, and what is to be yielded
    sent,            \* the events the client has received
    streamOk,        \* stream_ok
    errorEmitted,    \* error_emitted
    phase,           \* reading, ending (the last yields), closing, ended
    ending,          \* how the stream ended
    recorded         \* the status written to the store

vars == <<dialect, frames, pending, translator, sent, streamOk, errorEmitted,
          phase, ending, recorded>>

\* Blocks are numbered from 0; NoBlock is beyond the last.
NoBlock == MaxFrames + Cardinality(ToolIndexes)
Indexes == 0..NoBlock

EventTypes == {"message_start", "block_start", "block_delta", "block_stop",
               "message_delta", "message_stop", "error", "bytes", "boundary", "done"}
Kinds == {"none", "text", "tool", "end_turn", "max_tokens", "tool_use", "refusal"}
EventSet == [type : EventTypes, block : Indexes, kind : Kinds, n : 0..MaxFrames]

\* What an Anthropic client receives, and what it may rely on.
Message == INSTANCE MessageEvents WITH
    sent <- IF dialect = "anthropic" THEN sent ELSE <<>>

Event(type, block, kind, n) == Message!Event(type, block, kind, n)
Bare(type) == Message!Bare(type)

TranslatorSet == [textOpen : BOOLEAN, next : Indexes,
                  tools : [ToolIndexes -> Indexes], finish : FinishReasons,
                  out : Seq(EventSet)]

RelayTypeOK ==
    /\ dialect \in Dialects
    /\ frames \in Seq(Frames)
    /\ \/ pending = <<>>
       \/ pending \in {<<p>> : p \in [frame : Frames, whole : BOOLEAN]}
    /\ translator \in TranslatorSet
    /\ sent \in Seq(EventSet)
    /\ streamOk \in BOOLEAN /\ errorEmitted \in BOOLEAN
    /\ phase \in {"reading", "ending", "closing", "ended"}
    /\ ending \in {"none", "eof", "interrupted", "disconnected"}
    /\ recorded \in {"none", "ok", "failed"}
-----------------------------------------------------------------------------
(* The translator.  Its operators take it and return it, events in `out`.  *)

Emit(t, e) == [t EXCEPT !.out = Append(@, e)]

NewTranslator ==
    [textOpen |-> FALSE, next |-> 0, tools |-> [i \in ToolIndexes |-> NoBlock],
     finish |-> "none", out |-> <<>>]

OpenTextBlock(t) ==
    IF t.textOpen THEN t
    ELSE Emit([t EXCEPT !.textOpen = TRUE, !.next = @ + 1],
              Event("block_start", t.next, "text", 0))

\* The open text block is always the last one.
CloseTextBlock(t) ==
    IF t.textOpen
    THEN Emit([t EXCEPT !.textOpen = FALSE], Event("block_stop", t.next - 1, "none", 0))
    ELSE t

\* `content` or `refusal`: both become text.
FeedText(t, n) ==
    LET opened == OpenTextBlock(t)
    IN  Emit(opened, Event("block_delta", opened.next - 1, "text", n))

\* Mutant: the text block stays open when a tool block starts.
OpenToolBlockOnly(t, i) ==
    IF t.tools[i] # NoBlock THEN t
    ELSE Emit([t EXCEPT !.tools[i] = t.next, !.next = @ + 1],
              Event("block_start", t.next, "tool", 0))

\* A tool index seen for the first time; tool blocks stay open to the end.
OpenToolBlock(t, i) ==
    IF t.tools[i] # NoBlock THEN t
    ELSE LET closed == CloseTextBlock(t)
         IN  Emit([closed EXCEPT !.tools[i] = t.next, !.next = @ + 1],
                  Event("block_start", t.next, "tool", 0))

FeedCall(t, n, call) ==
    LET opened == OpenToolBlock(t, call.tool)
    IN  IF call.args
        THEN Emit(opened, Event("block_delta", opened.tools[call.tool], "tool", n))
        ELSE opened

\* The tool calls of a frame, in order.
FeedCalls(t, n, calls) ==
    LET fed[k \in 0..Len(calls)] ==
            IF k = 0 THEN t ELSE FeedCall(fed[k - 1], n, calls[k])
    IN  fed[Len(calls)]

\* feed(): an error or a terminator has no choices, and leaves no trace.
Feed(t, n, f) ==
    LET texted == IF f.text = "none" THEN t ELSE FeedText(t, n)
        called == FeedCalls(texted, n, f.calls)
    IN  IF f.finish = "none" THEN called ELSE [called EXCEPT !.finish = f.finish]

\* _map_stop_reason, with the default of finish().
StopReason(finish) ==
    CASE finish = "length" -> "max_tokens"
      [] finish = "tool_calls" -> "tool_use"
      [] finish = "content_filter" -> "refusal"
      [] OTHER -> "end_turn"

\* The tool blocks, stopped in the order of their numbers.
StopTools(t) ==
    LET toolBlocks == {t.tools[i] : i \in ToolIndexes} \ {NoBlock}
        stopped[b \in 0..t.next] ==
            IF b = 0 THEN t
            ELSE IF b - 1 \in toolBlocks
            THEN Emit(stopped[b - 1], Event("block_stop", b - 1, "none", 0))
            ELSE stopped[b - 1]
    IN  stopped[t.next]

\* finish(): stop every open block, in order, and end the message.
FinishMessage(t) ==
    Emit(Emit(StopTools(CloseTextBlock(t)),
              Event("message_delta", 0, StopReason(t.finish), 0)),
         Bare("message_stop"))
-----------------------------------------------------------------------------
(* stream_from().                                                          *)

Anthropic == dialect = "anthropic"

Init ==
    /\ dialect \in Dialects
    /\ frames = <<>>
    /\ pending = <<>>
    /\ translator = IF Anthropic THEN Emit(NewTranslator, Bare("message_start"))
                                 ELSE NewTranslator
    /\ sent = <<>>
    /\ streamOk = TRUE
    /\ errorEmitted = FALSE
    /\ phase = "reading"
    /\ ending = "none"
    /\ recorded = "none"

\* The generator asks for bytes once the client has taken what it yielded.
Reading == phase = "reading" /\ translator.out = <<>>

\* Bytes of the next frame, all of them (whole) or not, without the blank line
\* that completes it.  An OpenAI client gets the bytes as they are.
Arrives(f, whole) ==
    /\ Reading
    /\ pending = <<>>
    /\ Len(frames) < MaxFrames
    /\ pending' = <<[frame |-> f, whole |-> whole]>>
    /\ translator' = IF Anthropic THEN translator
                     ELSE Emit(translator, Event("bytes", 0, "none", Len(frames) + 1))
    /\ UNCHANGED <<dialect, frames, sent, streamOk, errorEmitted, phase, ending, recorded>>

\* What the loop over the frames yields for one of them.
RelayFrame(f, n) ==
    CASE f.type = "error" -> Emit(translator, Bare("error"))
      [] f.type = "chunk" /\ ~errorEmitted -> Feed(translator, n, f)
      [] OTHER -> translator

\* Mutant: passed-through frames are not looked at.
SniffNothing(f) == streamOk /\ ~(Anthropic /\ f.type = "error")

Sniff(f) == streamOk /\ f.type # "error"

\* The blank line.
Completes ==
    /\ Reading
    /\ pending # <<>>
    /\ LET f == pending[1].frame
           n == Len(frames) + 1
       IN  /\ frames' = Append(frames, f)
           /\ streamOk' = Sniff(f)
           /\ errorEmitted' = (errorEmitted \/ (Anthropic /\ f.type = "error"))
           /\ translator' = IF Anthropic THEN RelayFrame(f, n)
                            ELSE Emit(translator, Bare("boundary"))
    /\ pending' = <<>>
    /\ UNCHANGED <<dialect, sent, phase, ending, recorded>>

\* httpx.HTTPError: the stream died after bytes were sent.
Interrupted ==
    /\ Reading
    /\ streamOk' = FALSE
    /\ translator' = IF Anthropic THEN Emit(translator, Bare("error"))
                     ELSE Emit(Emit(translator, Bare("error")), Bare("done"))
    /\ phase' = "ending"
    /\ ending' = "interrupted"
    /\ UNCHANGED <<dialect, frames, pending, sent, errorEmitted, recorded>>

\* The last frame, when it came without its blank line but can be parsed.
UnendedFrame == IF pending # <<>> /\ pending[1].whole THEN <<pending[1].frame>> ELSE <<>>

\* Mutant: the tail is not fed.
TailDropped(t) == t

FeedTail(t) ==
    IF UnendedFrame = <<>> THEN t ELSE Feed(t, Len(frames) + 1, UnendedFrame[1])

\* The body ended: an Anthropic message that did not fail is fed the tail and
\* finished; otherwise the tail is only searched for an error.
Ends ==
    /\ Reading
    /\ IF Anthropic /\ ~errorEmitted
       THEN /\ translator' = FinishMessage(FeedTail(translator))
            /\ UNCHANGED streamOk
       ELSE /\ streamOk' = (streamOk /\ \A i \in DOMAIN UnendedFrame : UnendedFrame[i].type # "error")
            /\ UNCHANGED translator
    /\ phase' = "ending"
    /\ ending' = "eof"
    /\ UNCHANGED <<dialect, frames, pending, sent, errorEmitted, recorded>>

\* The client takes the next event.
Yield ==
    /\ translator.out # <<>>
    /\ sent' = Append(sent, Head(translator.out))
    /\ translator' = [translator EXCEPT !.out = Tail(@)]
    /\ UNCHANGED <<dialect, frames, pending, streamOk, errorEmitted, phase, ending, recorded>>

\* The client goes away: the generator is closed where it stands.
Disconnects ==
    /\ phase \in {"reading", "ending"}
    /\ phase' = "closing"
    /\ ending' = IF ending = "interrupted" THEN ending ELSE "disconnected"
    /\ translator' = [translator EXCEPT !.out = <<>>]
    /\ UNCHANGED <<dialect, frames, pending, sent, streamOk, errorEmitted, recorded>>

\* The generator returns.
Returns ==
    /\ phase = "ending"
    /\ translator.out = <<>>
    /\ phase' = "closing"
    /\ UNCHANGED <<dialect, frames, pending, translator, sent, streamOk, errorEmitted,
                   ending, recorded>>

\* _finish_stream: shielded; the pool and the store are told the same.
Finishes ==
    /\ phase = "closing"
    /\ recorded' = IF streamOk THEN "ok" ELSE "failed"
    /\ phase' = "ended"
    /\ UNCHANGED <<dialect, frames, pending, translator, sent, streamOk, errorEmitted, ending>>

Next ==
    \/ \E f \in Frames, whole \in BOOLEAN : Arrives(f, whole)
    \/ Completes
    \/ Interrupted
    \/ Ends
    \/ Yield
    \/ Disconnects
    \/ Returns
    \/ Finishes

Spec == Init /\ [][Next]_vars
-----------------------------------------------------------------------------
(* The same body, answered without a stream.                               *)

\* What iter_sse_events() finds in the whole body.
AllFrames == frames \o UnendedFrame

Failed == \E i \in DOMAIN AllFrames : AllFrames[i].type = "error"

\* The frames, by position, whose text comes from one of these sources.
TextFrom(fs, sources) ==
    FlattenSeq([n \in DOMAIN fs |-> IF fs[n].text \in sources THEN <<n>> ELSE <<>>])

\* The position n, for each call that gives tool i arguments.
Given(calls, i, n) ==
    FlattenSeq([k \in DOMAIN calls |->
                  IF calls[k].tool = i /\ calls[k].args THEN <<n>> ELSE <<>>])

\* The positions of the arguments given to tool i, in order.
ArgumentsOf(fs, i) == FlattenSeq([n \in DOMAIN fs |-> Given(fs[n].calls, i, n)])

Called(fs) == {i \in ToolIndexes :
                  \E n \in DOMAIN fs : \E k \in DOMAIN fs[n].calls : fs[n].calls[k].tool = i}

\* The last reason given.
LastReason(fs) ==
    LET given == {n \in DOMAIN fs : fs[n].finish # "none"}
    IN  IF given = {} THEN "none" ELSE fs[Max(given)].finish

Contents == TextFrom(AllFrames, {"content"})
Refusals == TextFrom(AllFrames, {"refusal"})

\* A refusal without a reason counts as a filtered answer.
FinishReason ==
    CASE LastReason(AllFrames) # "none" -> LastReason(AllFrames)
      [] LastReason(AllFrames) = "none" /\ Refusals # <<>> -> "content_filter"
      [] OTHER -> "stop"

\* aggregate_openai_stream() and response_to_anthropic(): of several refusals the
\* last is kept, and it shows only where there is no other text.
Answer ==
    [text |-> IF Contents # <<>> \/ Refusals = <<>> THEN Contents ELSE <<Last(Refusals)>>,
     tools |-> [i \in Called(AllFrames) |-> ArgumentsOf(AllFrames, i)],
     stops |-> {StopReason(FinishReason)}]

-----------------------------------------------------------------------------
(* Properties.                                                             *)

\* The positions of the deltas among the events s for the blocks in bs.
DeltasOf(s, kind, bs) ==
    FlattenSeq([k \in DOMAIN s |->
                  IF s[k].type = "block_delta" /\ s[k].kind = kind /\ s[k].block \in bs
                  THEN <<s[k].n>> ELSE <<>>])

Stops(s) == {s[k].kind : k \in {j \in DOMAIN s : s[j].type = "message_delta"}}

\* The message as an Anthropic client puts it together.
Received ==
    [text |-> DeltasOf(sent, "text", Indexes),
     tools |-> [i \in {j \in ToolIndexes : translator.tools[j] # NoBlock} |->
                   DeltasOf(sent, "tool", {translator.tools[i]})],
     stops |-> Stops(sent)]

\* A refusal that comes in one piece, alone, and with a reason: of others the two
\* answers differ.
PlainRefusal ==
    Refusals # <<>> =>
        Len(Refusals) = 1 /\ Contents = <<>> /\ LastReason(AllFrames) # "none"

\* service.py:693 and service.py:941 answer one upstream body in two ways: a
\* client that asked for a stream puts together the very text, tool arguments
\* and stop reason it would have got without one, wherever the body was cut.
SameAsUnstreamed ==
    (phase = "ended" /\ Anthropic /\ ending = "eof" /\ ~Failed /\ PlainRefusal)
    => Received = Answer

\* service.py:718 "clean completion drives account state and the recorded status":
\* the exchange counts as a success only if the stream was not interrupted and no
\* complete frame was an error; for an OpenAI client an incomplete one counts
\* too.  It counts as a failure only for one of these reasons.
RecordedTruthfully ==
    LET error == \E i \in DOMAIN frames : frames[i].type = "error"
    IN  /\ recorded = "ok" => /\ ~error /\ ending # "interrupted"
                              /\ ending = "eof" /\ ~Anthropic => ~Failed
        /\ recorded = "failed" => Failed \/ ending = "interrupted"

\* The two together: every part has its type, and the record is true.
RelayInv == RelayTypeOK /\ RecordedTruthfully

\* The events of translate_anthropic.py:289 form a legal Anthropic message, also
\* when the client leaves between any two of them.
MessageSpec == Message!Spec
=============================================================================
