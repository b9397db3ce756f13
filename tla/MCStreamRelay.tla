--------------------------- MODULE MCStreamRelay ---------------------------
EXTENDS StreamRelay

Chunk(text, calls, finish) ==
    [type |-> "chunk", text |-> text, calls |-> calls, finish |-> finish]

Opens(i) == [tool |-> i, args |-> FALSE]
Fills(i) == [tool |-> i, args |-> TRUE]

\* Text, a refusal, a tool that is announced and filled later, text with a tool,
\* two tools at once, the end, an error, the terminator.
MCFrames == {
    Chunk("content", <<>>, "none"),
    Chunk("refusal", <<>>, "none"),
    Chunk("none", <<Opens(0)>>, "none"),
    Chunk("none", <<Fills(0)>>, "none"),
    Chunk("content", <<Fills(1)>>, "none"),
    Chunk("none", <<Fills(1), Fills(0)>>, "tool_calls"),
    Chunk("none", <<>>, "length"),
    [type |-> "error", text |-> "none", calls |-> <<>>, finish |-> "none"],
    [type |-> "done", text |-> "none", calls |-> <<>>, finish |-> "none"]}
=============================================================================
