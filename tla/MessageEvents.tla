---------------------------- MODULE MessageEvents ----------------------------
(***************************************************************************)
(* What a client of POST /v1/messages may rely on: the order of the events *)
(* of one streamed Anthropic message.                                      *)
(*                                                                         *)
(* `sent` is what the client has received.  A message starts once; a       *)
(* content block is started under the next free index, filled only while   *)
(* it is open, by deltas of its own kind, and stopped once; the message    *)
(* ends when every block is stopped.  After an error there are only        *)
(* errors.                                                                 *)
(***************************************************************************)
EXTENDS Naturals, Sequences, FiniteSets

VARIABLES
    sent

\* An event: its type, the block it belongs to and the block's kind, and the
\* position of the upstream frame whose content it carries.
Event(type, block, kind, n) ==
    [type |-> type, block |-> block, kind |-> kind, n |-> n]

Bare(type) == Event(type, 0, "none", 0)

Has(s, type) == \E i \in DOMAIN s : s[i].type = type

Blocks(s) == {s[i].block : i \in {j \in DOMAIN s : s[j].type = "block_start"}}

Stopped(s, b) == \E i \in DOMAIN s : s[i].type = "block_stop" /\ s[i].block = b

IsOpen(s, b, kind) ==
    /\ \E i \in DOMAIN s :
          s[i].type = "block_start" /\ s[i].block = b /\ s[i].kind = kind
    /\ ~Stopped(s, b)

-----------------------------------------------------------------------------
\* The events that may come next.

StartsBlock(s, e) ==
    /\ e.type = "block_start"
    /\ e.block = Cardinality(Blocks(s))
    /\ e.kind = "text" => ~\E b \in Blocks(s) : IsOpen(s, b, "text")

FillsBlock(s, e) ==
    /\ e.type = "block_delta"
    /\ IsOpen(s, e.block, e.kind)

StopsBlock(s, e) ==
    /\ e.type = "block_stop"
    /\ e.block \in Blocks(s)
    /\ ~Stopped(s, e.block)

ClosesMessage(s, e) ==
    /\ e.type = "message_delta"
    /\ \A b \in Blocks(s) : Stopped(s, b)

Continues(s, e) ==
    /\ s # <<>>
    /\ ~Has(s, "error") /\ ~Has(s, "message_delta")
    /\ StartsBlock(s, e) \/ FillsBlock(s, e) \/ StopsBlock(s, e) \/ ClosesMessage(s, e)

Legal(s, e) ==
    \/ s = <<>> /\ e.type = "message_start"
    \/ Continues(s, e)
    \/ /\ s # <<>>
       /\ s[Len(s)].type = "message_delta"
       /\ e.type = "message_stop"
    \/ /\ s # <<>>
       /\ ~Has(s, "message_delta")
       /\ e.type = "error"

-----------------------------------------------------------------------------
Init == sent = <<>>

Next ==
    LET e == sent'[Len(sent')]
    IN  /\ sent' # <<>>
        /\ Legal(sent, e)
        /\ sent' = Append(sent, e)

Spec == Init /\ [][Next]_sent
=============================================================================
