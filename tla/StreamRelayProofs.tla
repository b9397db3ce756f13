-------------------------- MODULE StreamRelayProofs --------------------------
(***************************************************************************)
(* Theorems about the stream relay, for every set of frames and tools and  *)
(* streams of any length.                                                  *)
(***************************************************************************)
EXTENDS StreamRelay, FiniteSetTheorems, WellFoundedInduction, TLAPS

-----------------------------------------------------------------------------
(* The inductive invariant.                                                *)

\* What was made for the client: received, then still to be taken.
Made(p, t) == p \o t.out

\* Every event may follow those before it.
LegalSoFar(s) == \A i \in DOMAIN s : Message!Legal(SubSeq(s, 1, i - 1), s[i])

OpenedTools(t) == {i \in ToolIndexes : t.tools[i] # NoBlock}
ToolBlocks(t) == {t.tools[i] : i \in ToolIndexes} \ {NoBlock}

Started(s, b, kind) ==
    \E i \in DOMAIN s :
        s[i].type = "block_start" /\ s[i].block = b /\ s[i].kind = kind

\* The translator knows the blocks of the message s: how many there are, and
\* which of them are open, the text block and those of the tools.
Describes(t, s) ==
    /\ s # <<>>
    /\ ~Message!Has(s, "message_delta") /\ ~Message!Has(s, "error")
    /\ Message!Blocks(s) = 0..(t.next - 1)
    /\ \A b \in Indexes :
          Message!Stopped(s, b) <=> /\ b \in 0..(t.next - 1)
                                    /\ ~(t.textOpen /\ b = t.next - 1)
                                    /\ b \notin ToolBlocks(t)
    /\ t.textOpen => t.next > 0 /\ Started(s, t.next - 1, "text")
    /\ \A i \in OpenedTools(t) : t.tools[i] < t.next /\ Started(s, t.tools[i], "tool")
    /\ \A b \in ToolBlocks(t) : ~Started(s, b, "text")

\* A block for each frame at most, and one for each tool.
BlocksBounded(t, n) == t.next <= n + Cardinality(OpenedTools(t))

MessageInv ==
    Anthropic =>
        /\ phase \in {"reading", "ending"} => LegalSoFar(Made(sent, translator))
        /\ phase \in {"closing", "ended"} => translator.out = <<>>
        /\ phase = "reading" =>
              /\ Made(sent, translator) # <<>>
              /\ ~Message!Has(Made(sent, translator), "message_delta")
              /\ ~errorEmitted => Describes(translator, Made(sent, translator))

BoundsInv ==
    /\ Len(frames) <= MaxFrames
    /\ pending # <<>> => Len(frames) < MaxFrames
    /\ Anthropic /\ phase = "reading" => BlocksBounded(translator, Len(frames))

HasError(s) == \E i \in DOMAIN s : s[i].type = "error"

ErrorSeen == HasError(frames)

RecordInv ==
    /\ phase = "reading" => (streamOk <=> ~ErrorSeen) /\ ending = "none"
    /\ streamOk => /\ ~ErrorSeen /\ ending # "interrupted"
                   /\ ending = "eof" /\ ~Anthropic => ~Failed
    /\ ~streamOk => Failed \/ ending = "interrupted"
    /\ recorded # "none" => recorded = IF streamOk THEN "ok" ELSE "failed"
    /\ phase # "ended" => recorded = "none"

Inductive == RelayTypeOK /\ MessageInv /\ BoundsInv /\ RecordInv

-----------------------------------------------------------------------------
(* Numbers, records and sequences.                                         *)

LEMMA BlockNumbers ==
  /\ Cardinality(ToolIndexes) \in Nat
  /\ NoBlock \in Nat /\ NoBlock = MaxFrames + Cardinality(ToolIndexes)
  /\ MaxFrames \in Nat
  /\ 0 \in Indexes
  BY RelayAssumption, FS_CardinalityType DEF NoBlock, Indexes

LEMMA EventTyped ==
  ASSUME NEW type \in EventTypes, NEW block \in Indexes, NEW kind \in Kinds,
         NEW n \in 0..MaxFrames
  PROVE  /\ Event(type, block, kind, n) \in EventSet
         /\ Event(type, block, kind, n).type = type
         /\ Event(type, block, kind, n).block = block
         /\ Event(type, block, kind, n).kind = kind
  BY DEF Event, Message!Event, EventSet

LEMMA BareTyped ==
  ASSUME NEW type \in EventTypes
  PROVE  /\ Bare(type) \in EventSet
         /\ Bare(type).type = type
<1>1. 0 \in Indexes /\ 0 \in 0..MaxFrames /\ "none" \in Kinds
  BY BlockNumbers DEF Kinds
<1>2. QED
  BY <1>1 DEF Bare, Message!Bare, Message!Event, EventSet

LEMMA TranslatorParts ==
  ASSUME NEW t \in TranslatorSet
  PROVE  /\ t.textOpen \in BOOLEAN
         /\ t.next \in Indexes /\ t.next \in Nat /\ t.next <= NoBlock
         /\ t.tools \in [ToolIndexes -> Indexes]
         /\ t.finish \in FinishReasons
         /\ t.out \in Seq(EventSet)
  BY BlockNumbers DEF TranslatorSet, Indexes

LEMMA EmitTyped ==
  ASSUME NEW t \in TranslatorSet, NEW e \in EventSet
  PROVE  /\ Emit(t, e) \in TranslatorSet
         /\ Emit(t, e).textOpen = t.textOpen
         /\ Emit(t, e).next = t.next
         /\ Emit(t, e).tools = t.tools
         /\ Emit(t, e).finish = t.finish
         /\ Emit(t, e).out = Append(t.out, e)
<1>1. Append(t.out, e) \in Seq(EventSet)
  BY TranslatorParts
<1>2. QED
  BY <1>1 DEF Emit, TranslatorSet

\* What is emitted comes last.
LEMMA EmittedLast ==
  ASSUME NEW p \in Seq(EventSet), NEW t \in TranslatorSet, NEW e \in EventSet
  PROVE  /\ Made(p, t) \in Seq(EventSet)
         /\ Made(p, Emit(t, e)) = Append(Made(p, t), e)
<1>1. t.out \in Seq(EventSet) /\ Emit(t, e).out = Append(t.out, e)
  BY TranslatorParts, EmitTyped
<1>2. ASSUME NEW q \in Seq(EventSet)
      PROVE  p \o Append(q, e) = Append(p \o q, e)
  OBVIOUS
<1>3. QED
  BY <1>1, <1>2 DEF Made

\* What one more event changes of a message.
LEMMA OneMore ==
  ASSUME NEW s \in Seq(EventSet), NEW e \in EventSet
  PROVE  /\ Append(s, e) \in Seq(EventSet)
         /\ Append(s, e) # <<>>
         /\ \A type : Message!Has(Append(s, e), type)
                         <=> Message!Has(s, type) \/ e.type = type
         /\ Message!Blocks(Append(s, e)) =
               Message!Blocks(s) \cup (IF e.type = "block_start" THEN {e.block} ELSE {})
         /\ \A b : Message!Stopped(Append(s, e), b)
                      <=> \/ Message!Stopped(s, b)
                          \/ e.type = "block_stop" /\ e.block = b
         /\ \A b, kind : Started(Append(s, e), b, kind)
                      <=> \/ Started(s, b, kind)
                          \/ e.type = "block_start" /\ e.block = b /\ e.kind = kind
<1> DEFINE a == Append(s, e)
<1>1. /\ a \in Seq(EventSet) /\ a # <<>>
      /\ Len(s) \in Nat
      /\ DOMAIN s = 1..Len(s)
      /\ DOMAIN a = DOMAIN s \cup {Len(s) + 1}
      /\ \A i \in DOMAIN s : a[i] = s[i]
      /\ a[Len(s) + 1] = e
  OBVIOUS
<1> HIDE DEF a
<1>2. \A type : Message!Has(a, type) <=> Message!Has(s, type) \/ e.type = type
  BY <1>1 DEF Message!Has
<1>3. \A b : Message!Stopped(a, b) <=> \/ Message!Stopped(s, b)
                                       \/ e.type = "block_stop" /\ e.block = b
  BY <1>1 DEF Message!Stopped
<1>4. \A b, kind : Started(a, b, kind)
                      <=> \/ Started(s, b, kind)
                          \/ e.type = "block_start" /\ e.block = b /\ e.kind = kind
  BY <1>1 DEF Started
<1>5. ASSUME NEW q
      PROVE  \A b : b \in Message!Blocks(q)
                       <=> \E i \in DOMAIN q : q[i].type = "block_start" /\ q[i].block = b
  BY DEF Message!Blocks
<1>6. \A b : b \in Message!Blocks(a)
                <=> b \in Message!Blocks(s) \/ (e.type = "block_start" /\ e.block = b)
  BY <1>1, <1>5
<1>7. Message!Blocks(a) =
         Message!Blocks(s) \cup (IF e.type = "block_start" THEN {e.block} ELSE {})
  BY <1>6
<1>8. QED
  BY <1>1, <1>2, <1>3, <1>4, <1>7 DEF a

LEMMA LegalExtends ==
  ASSUME NEW s \in Seq(EventSet), NEW e \in EventSet,
         LegalSoFar(s), Message!Legal(s, e)
  PROVE  LegalSoFar(Append(s, e))
<1> DEFINE a == Append(s, e)
<1>1. /\ Len(s) \in Nat /\ DOMAIN s = 1..Len(s)
      /\ DOMAIN a = DOMAIN s \cup {Len(s) + 1}
      /\ \A i \in DOMAIN s : a[i] = s[i]
      /\ a[Len(s) + 1] = e
  OBVIOUS
<1>2. \A i \in DOMAIN s : SubSeq(a, 1, i - 1) = SubSeq(s, 1, i - 1)
  <2> SUFFICES ASSUME NEW i \in 1..Len(s)
               PROVE  SubSeq(a, 1, i - 1) = SubSeq(s, 1, i - 1)
    BY <1>1
  <2>1. \A j \in 1..(i - 1) : a[j] = s[j]
    BY <1>1
  <2>2. /\ SubSeq(a, 1, i - 1) = [j \in 1..(i - 1) |-> a[j]]
        /\ SubSeq(s, 1, i - 1) = [j \in 1..(i - 1) |-> s[j]]
    BY <1>1
  <2>3. QED
    BY <2>1, <2>2
<1>3. SubSeq(a, 1, (Len(s) + 1) - 1) = s
  BY <1>1
<1> HIDE DEF a
<1>4. \A i \in DOMAIN a : Message!Legal(SubSeq(a, 1, i - 1), a[i])
  BY <1>1, <1>2, <1>3 DEF LegalSoFar
<1>5. QED
  BY <1>4 DEF LegalSoFar, a

-----------------------------------------------------------------------------
(* One event at a time: it may come next, and the translator that emits it *)
(* describes the longer message.                                           *)

LEMMA BlockCount ==
  ASSUME NEW s, NEW t \in TranslatorSet, Describes(t, s)
  PROVE  Message!Cardinality(Message!Blocks(s)) = t.next
<1>1. t.next \in Nat /\ Message!Blocks(s) = 0..(t.next - 1)
  BY TranslatorParts DEF Describes
<1>2. Cardinality(0..(t.next - 1)) = t.next
  BY <1>1, FS_Interval
<1>3. QED
  BY <1>1, <1>2 DEF Cardinality, Message!Cardinality

LEMMA TextBlockOpens ==
  ASSUME NEW t \in TranslatorSet, NEW u \in TranslatorSet, NEW s \in Seq(EventSet),
         NEW e \in EventSet, Describes(t, s), ~t.textOpen,
         u.textOpen, u.next = t.next + 1, u.tools = t.tools,
         e.type = "block_start", e.block = t.next, e.kind = "text"
  PROVE  Message!Legal(s, e) /\ Describes(u, Append(s, e))
<1> DEFINE a == Append(s, e)
<1>1. /\ t.next \in Nat /\ u.next \in Nat
      /\ ToolBlocks(u) = ToolBlocks(t) /\ OpenedTools(u) = OpenedTools(t)
      /\ \A b \in ToolBlocks(t) : \E i \in OpenedTools(t) : b = t.tools[i]
  BY TranslatorParts DEF ToolBlocks, OpenedTools
<1>2. \A b \in Message!Blocks(s) : ~Message!IsOpen(s, b, "text")
  <2>1. ASSUME NEW b \in 0..(t.next - 1)
        PROVE  ~(Started(s, b, "text") /\ ~Message!Stopped(s, b))
    <3>1. b \in Indexes
      BY <1>1, TranslatorParts, BlockNumbers DEF Indexes
    <3>2. QED
      BY <3>1 DEF Describes
  <2>2. QED
    BY <2>1 DEF Describes, Started, Message!IsOpen
<1>3. Message!StartsBlock(s, e)
  BY <1>2, BlockCount DEF Message!StartsBlock
<1>4. Message!Legal(s, e)
  BY <1>3 DEF Message!Legal, Message!Continues, Describes
<1>5. /\ a # <<>> /\ ~Message!Has(a, "message_delta") /\ ~Message!Has(a, "error")
  BY OneMore DEF Describes
<1>6. Message!Blocks(a) = 0..(u.next - 1)
  <2>1. Message!Blocks(a) = (0..(t.next - 1)) \cup {t.next}
    BY OneMore DEF Describes
  <2>2. QED
    BY <1>1, <2>1
<1>7. \A b \in Indexes :
         Message!Stopped(a, b) <=> /\ b \in 0..(u.next - 1)
                                   /\ ~(u.textOpen /\ b = u.next - 1)
                                   /\ b \notin ToolBlocks(u)
  <2>1. \A b \in Indexes : Message!Stopped(a, b) <=> Message!Stopped(s, b)
    BY OneMore
  <2>2. \A b \in Indexes : b \in 0..(u.next - 1) /\ b # u.next - 1 <=> b \in 0..(t.next - 1)
    BY <1>1, BlockNumbers DEF Indexes
  <2>3. QED
    BY <2>1, <2>2, <1>1 DEF Describes
<1>8. u.next > 0 /\ Started(a, u.next - 1, "text")
  <2>1. u.next - 1 = t.next /\ u.next > 0
    BY <1>1
  <2>2. QED
    BY <2>1, OneMore
<1>9. \A i \in OpenedTools(u) : u.tools[i] < u.next /\ Started(a, u.tools[i], "tool")
  <2>1. \A i \in OpenedTools(t) : t.tools[i] \in Nat
    BY TranslatorParts DEF OpenedTools, Indexes
  <2>2. QED
    BY <2>1, <1>1, OneMore DEF Describes
<1>10. \A b \in ToolBlocks(u) : ~Started(a, b, "text")
  <2>1. \A b \in ToolBlocks(t) : b # t.next
    BY <1>1 DEF Describes
  <2>2. QED
    BY <2>1, <1>1, OneMore DEF Describes
<1>11. QED
  BY <1>4, <1>5, <1>6, <1>7, <1>8, <1>9, <1>10 DEF Describes

LEMMA TextBlockCloses ==
  ASSUME NEW t \in TranslatorSet, NEW u \in TranslatorSet, NEW s \in Seq(EventSet),
         NEW e \in EventSet, Describes(t, s), t.textOpen,
         ~u.textOpen, u.next = t.next, u.tools = t.tools,
         e.type = "block_stop", e.block = t.next - 1
  PROVE  Message!Legal(s, e) /\ Describes(u, Append(s, e))
<1> DEFINE a == Append(s, e)
<1>1. /\ t.next \in Nat /\ t.next - 1 \in 0..(t.next - 1)
      /\ t.next - 1 \in Indexes
      /\ ToolBlocks(u) = ToolBlocks(t) /\ OpenedTools(u) = OpenedTools(t)
  BY TranslatorParts, BlockNumbers DEF ToolBlocks, OpenedTools, Describes, Indexes
<1>2. Message!StopsBlock(s, e)
  BY <1>1 DEF Describes, Message!StopsBlock
<1>3. Message!Legal(s, e)
  BY <1>2 DEF Message!Legal, Message!Continues, Describes
<1>4. /\ a # <<>> /\ ~Message!Has(a, "message_delta") /\ ~Message!Has(a, "error")
  BY OneMore DEF Describes
<1>5. Message!Blocks(a) = 0..(u.next - 1)
  <2>1. Message!Blocks(a) = Message!Blocks(s) \cup {}
    BY OneMore
  <2>2. QED
    BY <2>1 DEF Describes
<1>6. \A b \in Indexes :
         Message!Stopped(a, b) <=> /\ b \in 0..(u.next - 1)
                                   /\ ~(u.textOpen /\ b = u.next - 1)
                                   /\ b \notin ToolBlocks(u)
  <2>1. \A b \in Indexes : Message!Stopped(a, b) <=> Message!Stopped(s, b) \/ b = t.next - 1
    BY OneMore
  <2>2. t.next - 1 \notin ToolBlocks(t)
    BY DEF Describes
  <2>3. QED
    BY <2>1, <2>2, <1>1 DEF Describes
<1>7. \A i \in OpenedTools(u) : u.tools[i] < u.next /\ Started(a, u.tools[i], "tool")
  BY <1>1, OneMore DEF Describes
<1>8. \A b \in ToolBlocks(u) : ~Started(a, b, "text")
  BY <1>1, OneMore DEF Describes
<1>9. QED
  BY <1>3, <1>4, <1>5, <1>6, <1>7, <1>8 DEF Describes

LEMMA BlockFills ==
  ASSUME NEW t \in TranslatorSet, NEW s \in Seq(EventSet), NEW e \in EventSet,
         Describes(t, s), e.type = "block_delta",
         \/ t.textOpen /\ e.block = t.next - 1 /\ e.kind = "text"
         \/ \E i \in OpenedTools(t) : e.block = t.tools[i] /\ e.kind = "tool"
  PROVE  Message!Legal(s, e) /\ Describes(t, Append(s, e))
<1> DEFINE a == Append(s, e)
<1>1. Started(s, e.block, e.kind) /\ ~Message!Stopped(s, e.block)
  <2>1. e.block \in Indexes
    BY DEF EventSet
  <2>2. CASE t.textOpen /\ e.block = t.next - 1 /\ e.kind = "text"
    BY <2>1, <2>2 DEF Describes
  <2>3. ASSUME NEW i \in OpenedTools(t), e.block = t.tools[i], e.kind = "tool"
        PROVE  Started(s, e.block, e.kind) /\ ~Message!Stopped(s, e.block)
    <3>1. t.tools[i] \in ToolBlocks(t)
      BY DEF OpenedTools, ToolBlocks
    <3>2. QED
      BY <2>1, <2>3, <3>1 DEF Describes
  <2>4. QED
    BY <2>2, <2>3
<1>2. Message!FillsBlock(s, e)
  BY <1>1 DEF Message!FillsBlock, Message!IsOpen, Started
<1>3. Message!Legal(s, e)
  BY <1>2 DEF Message!Legal, Message!Continues, Describes
<1>4. /\ a # <<>> /\ ~Message!Has(a, "message_delta") /\ ~Message!Has(a, "error")
      /\ \A b : Message!Stopped(a, b) <=> Message!Stopped(s, b)
      /\ \A b, kind : Started(a, b, kind) <=> Started(s, b, kind)
  BY OneMore DEF Describes
<1>5. Message!Blocks(a) = Message!Blocks(s)
  <2>1. Message!Blocks(a) = Message!Blocks(s) \cup {}
    BY OneMore
  <2>2. QED
    BY <2>1
<1> HIDE DEF a
<1>6. Describes(t, a)
  BY <1>4, <1>5 DEF Describes
<1>7. QED
  BY <1>3, <1>6 DEF a

LEMMA ToolBlockOpens ==
  ASSUME NEW t \in TranslatorSet, NEW u \in TranslatorSet, NEW s \in Seq(EventSet),
         NEW e \in EventSet, NEW i \in ToolIndexes, Describes(t, s), ~t.textOpen,
         t.tools[i] = NoBlock, t.next # NoBlock,
         ~u.textOpen, u.next = t.next + 1, u.tools = [t.tools EXCEPT ![i] = t.next],
         e.type = "block_start", e.block = t.next, e.kind = "tool"
  PROVE  Message!Legal(s, e) /\ Describes(u, Append(s, e))
<1> DEFINE a == Append(s, e)
<1>1. t.next \in Nat /\ u.next \in Nat /\ t.tools \in [ToolIndexes -> Indexes]
  BY TranslatorParts
<1>2. /\ u.tools[i] = t.next
      /\ \A j \in ToolIndexes \ {i} : u.tools[j] = t.tools[j]
  BY <1>1
<1>3. OpenedTools(u) = OpenedTools(t) \cup {i}
  BY <1>2 DEF OpenedTools
<1>4. ToolBlocks(u) = ToolBlocks(t) \cup {t.next}
  <2>1. \A b : b \in ToolBlocks(t) <=> b # NoBlock /\ \E j \in ToolIndexes : b = t.tools[j]
    BY DEF ToolBlocks
  <2>2. \A b : b \in ToolBlocks(u) <=> b # NoBlock /\ \E j \in ToolIndexes : b = u.tools[j]
    BY DEF ToolBlocks
  <2>3. QED
    BY <1>2, <2>1, <2>2
<1>5. Message!StartsBlock(s, e)
  BY BlockCount DEF Message!StartsBlock
<1>6. Message!Legal(s, e)
  BY <1>5 DEF Message!Legal, Message!Continues, Describes
<1>7. /\ a # <<>> /\ ~Message!Has(a, "message_delta") /\ ~Message!Has(a, "error")
  BY OneMore DEF Describes
<1>8. Message!Blocks(a) = 0..(u.next - 1)
  <2>1. Message!Blocks(a) = (0..(t.next - 1)) \cup {t.next}
    BY OneMore DEF Describes
  <2>2. QED
    BY <1>1, <2>1
<1>9. \A b \in Indexes :
         Message!Stopped(a, b) <=> /\ b \in 0..(u.next - 1)
                                   /\ ~(u.textOpen /\ b = u.next - 1)
                                   /\ b \notin ToolBlocks(u)
  <2>1. \A b \in Indexes : Message!Stopped(a, b) <=> Message!Stopped(s, b)
    BY OneMore
  <2>2. \A b \in Indexes : b \in 0..(u.next - 1) /\ b # t.next <=> b \in 0..(t.next - 1)
    BY <1>1, BlockNumbers DEF Indexes
  <2>3. QED
    BY <2>1, <2>2, <1>4 DEF Describes
<1>10. \A j \in OpenedTools(u) : u.tools[j] < u.next /\ Started(a, u.tools[j], "tool")
  <2>1. u.tools[i] < u.next /\ Started(a, u.tools[i], "tool")
    BY <1>1, <1>2, OneMore
  <2>2. ASSUME NEW j \in OpenedTools(t), j # i
        PROVE  u.tools[j] < u.next /\ Started(a, u.tools[j], "tool")
    <3>1. u.tools[j] = t.tools[j] /\ t.tools[j] \in Nat
      BY <1>1, <1>2, <2>2 DEF OpenedTools, Indexes
    <3>2. t.tools[j] < t.next /\ Started(s, t.tools[j], "tool")
      BY DEF Describes
    <3>3. QED
      BY <1>1, <3>1, <3>2, OneMore
  <2>3. QED
    BY <1>3, <2>1, <2>2
<1>11. \A b \in ToolBlocks(u) : ~Started(a, b, "text")
  <2>1. ~Started(s, t.next, "text")
    <3>1. t.next \notin Message!Blocks(s)
      BY <1>1 DEF Describes
    <3>2. QED
      BY <3>1 DEF Started, Message!Blocks
  <2>2. QED
    BY <2>1, <1>4, OneMore DEF Describes
<1>12. QED
  BY <1>6, <1>7, <1>8, <1>9, <1>10, <1>11 DEF Describes

-----------------------------------------------------------------------------
(* The translator's operators keep the message legal and described.        *)

Sound(p, t, n) ==
    /\ t \in TranslatorSet
    /\ LegalSoFar(Made(p, t))
    /\ Describes(t, Made(p, t))
    /\ BlocksBounded(t, n)

LEMMA EmitKeepsSound ==
  ASSUME NEW p \in Seq(EventSet), NEW t \in TranslatorSet, NEW u \in TranslatorSet,
         NEW e \in EventSet, NEW n,
         u.out = t.out, LegalSoFar(Made(p, t)), Message!Legal(Made(p, t), e),
         Describes(u, Append(Made(p, t), e)), BlocksBounded(u, n)
  PROVE  Sound(p, Emit(u, e), n)
<1> DEFINE v == Emit(u, e)
<1>1. /\ v \in TranslatorSet
      /\ v.textOpen = u.textOpen /\ v.next = u.next /\ v.tools = u.tools
  BY EmitTyped
<1>2. Made(p, t) \in Seq(EventSet) /\ Made(p, v) = Append(Made(p, t), e)
  <2>1. Made(p, u) = Made(p, t)
    BY DEF Made
  <2>2. Made(p, u) \in Seq(EventSet) /\ Made(p, v) = Append(Made(p, u), e)
    BY EmittedLast
  <2>3. QED
    BY <2>1, <2>2
<1> HIDE DEF v
<1>3. LegalSoFar(Made(p, v))
  BY <1>2, LegalExtends
<1>4. ToolBlocks(v) = ToolBlocks(u) /\ OpenedTools(v) = OpenedTools(u)
  BY <1>1 DEF ToolBlocks, OpenedTools
<1>5. Describes(v, Made(p, v))
  BY <1>1, <1>2, <1>4 DEF Describes
<1>6. BlocksBounded(v, n)
  BY <1>1, <1>4 DEF BlocksBounded
<1>7. QED
  BY <1>1, <1>3, <1>5, <1>6 DEF Sound, v

\* There is a number left for a text block, and for a tool seen first.
LEMMA OpenedToolsCount ==
  ASSUME NEW t \in TranslatorSet
  PROVE  /\ IsFiniteSet(OpenedTools(t))
         /\ Cardinality(OpenedTools(t)) \in Nat
         /\ Cardinality(OpenedTools(t)) <= Cardinality(ToolIndexes)
         /\ \A i \in ToolIndexes : t.tools[i] = NoBlock =>
               Cardinality(OpenedTools(t)) < Cardinality(ToolIndexes)
<1>1. OpenedTools(t) \subseteq ToolIndexes /\ IsFiniteSet(ToolIndexes)
  BY RelayAssumption DEF OpenedTools
<1>2. /\ IsFiniteSet(OpenedTools(t))
      /\ Cardinality(OpenedTools(t)) <= Cardinality(ToolIndexes)
      /\ Cardinality(OpenedTools(t)) = Cardinality(ToolIndexes) => OpenedTools(t) = ToolIndexes
  BY <1>1, FS_Subset
<1>3. Cardinality(OpenedTools(t)) \in Nat /\ Cardinality(ToolIndexes) \in Nat
  BY <1>1, <1>2, FS_CardinalityType
<1>4. ASSUME NEW i \in ToolIndexes, t.tools[i] = NoBlock
      PROVE  OpenedTools(t) # ToolIndexes
  BY <1>4 DEF OpenedTools
<1>5. QED
  BY <1>2, <1>3, <1>4

LEMMA OpenTextBlockSound ==
  ASSUME NEW p \in Seq(EventSet), NEW t, NEW n \in 1..MaxFrames, Sound(p, t, n - 1)
  PROVE  Sound(p, OpenTextBlock(t), n) /\ OpenTextBlock(t).textOpen
<1>1. /\ t \in TranslatorSet /\ LegalSoFar(Made(p, t))
      /\ Describes(t, Made(p, t)) /\ BlocksBounded(t, n - 1)
  BY DEF Sound
<1>2. n \in Nat /\ n <= MaxFrames
  BY BlockNumbers
<1>3. CASE t.textOpen
  <2>1. BlocksBounded(t, n)
    BY <1>1, <1>2, OpenedToolsCount, TranslatorParts DEF BlocksBounded
  <2>2. OpenTextBlock(t) = t
    BY <1>3 DEF OpenTextBlock
  <2>3. QED
    BY <1>1, <1>3, <2>1, <2>2 DEF Sound
<1>4. CASE ~t.textOpen
  <2> DEFINE u == [t EXCEPT !.textOpen = TRUE, !.next = @ + 1]
             e == Event("block_start", t.next, "text", 0)
  <2>1. t.next + 1 <= n + Cardinality(OpenedTools(t))
    BY <1>1, <1>2, OpenedToolsCount, TranslatorParts DEF BlocksBounded
  <2>2. t.next \in Indexes /\ t.next + 1 \in Indexes
    BY <1>1, <1>2, <2>1, OpenedToolsCount, TranslatorParts, BlockNumbers DEF Indexes
  <2>3. /\ u \in TranslatorSet
        /\ u.textOpen /\ u.next = t.next + 1 /\ u.tools = t.tools /\ u.out = t.out
    BY <1>1, <2>2 DEF TranslatorSet
  <2>4. /\ e \in EventSet
        /\ e.type = "block_start" /\ e.block = t.next /\ e.kind = "text"
    <3>1. 0 \in 0..MaxFrames
      BY BlockNumbers
    <3>2. QED
      BY <2>2, <3>1, EventTyped DEF EventTypes, Kinds
  <2>5. OpenTextBlock(t) = Emit(u, e)
    BY <1>4 DEF OpenTextBlock
  <2> HIDE DEF u, e
  <2>6. Made(p, t) \in Seq(EventSet)
    BY <1>1, <2>4, EmittedLast
  <2>7. Message!Legal(Made(p, t), e) /\ Describes(u, Append(Made(p, t), e))
    BY <1>1, <1>4, <2>3, <2>4, <2>6, TextBlockOpens
  <2>8. BlocksBounded(u, n)
    BY <2>1, <2>3 DEF BlocksBounded, OpenedTools
  <2>9. Sound(p, Emit(u, e), n)
    BY <1>1, <2>3, <2>4, <2>7, <2>8, EmitKeepsSound
  <2>10. Emit(u, e).textOpen
    BY <2>3, <2>4, EmitTyped
  <2>11. QED
    BY <2>5, <2>9, <2>10
<1>5. QED
  BY <1>3, <1>4

LEMMA FeedTextSound ==
  ASSUME NEW p \in Seq(EventSet), NEW t, NEW n \in 1..MaxFrames, Sound(p, t, n - 1)
  PROVE  Sound(p, FeedText(t, n), n)
<1> DEFINE u == OpenTextBlock(t)
           e == Event("block_delta", u.next - 1, "text", n)
<1>1. Sound(p, u, n) /\ u.textOpen
  BY OpenTextBlockSound
<1>2. FeedText(t, n) = Emit(u, e)
  BY DEF FeedText
<1> HIDE DEF u
<1>3. /\ u \in TranslatorSet /\ LegalSoFar(Made(p, u))
      /\ Describes(u, Made(p, u)) /\ BlocksBounded(u, n)
  BY <1>1 DEF Sound
<1>4. u.next - 1 \in Indexes /\ n \in 0..MaxFrames
  BY <1>1, <1>3, TranslatorParts, BlockNumbers DEF Describes, Indexes
<1>5. /\ e \in EventSet
      /\ e.type = "block_delta" /\ e.block = u.next - 1 /\ e.kind = "text"
  BY <1>4, EventTyped DEF EventTypes, Kinds
<1> HIDE DEF e
<1>6. Made(p, u) \in Seq(EventSet)
  BY <1>3, <1>5, EmittedLast
<1>7. Message!Legal(Made(p, u), e) /\ Describes(u, Append(Made(p, u), e))
  BY <1>1, <1>3, <1>5, <1>6, BlockFills
<1>8. QED
  BY <1>2, <1>3, <1>5, <1>7, EmitKeepsSound

LEMMA CloseTextBlockSound ==
  ASSUME NEW p \in Seq(EventSet), NEW t, NEW n, Sound(p, t, n)
  PROVE  /\ Sound(p, CloseTextBlock(t), n)
         /\ ~CloseTextBlock(t).textOpen
         /\ CloseTextBlock(t).next = t.next
         /\ CloseTextBlock(t).tools = t.tools
         /\ CloseTextBlock(t).finish = t.finish
<1>1. /\ t \in TranslatorSet /\ LegalSoFar(Made(p, t))
      /\ Describes(t, Made(p, t)) /\ BlocksBounded(t, n)
  BY DEF Sound
<1>2. CASE ~t.textOpen
  BY <1>2 DEF CloseTextBlock
<1>3. CASE t.textOpen
  <2> DEFINE u == [t EXCEPT !.textOpen = FALSE]
             e == Event("block_stop", t.next - 1, "none", 0)
  <2>1. u \in TranslatorSet /\ ~u.textOpen /\ u.next = t.next /\ u.tools = t.tools
        /\ u.finish = t.finish /\ u.out = t.out
    BY <1>1 DEF TranslatorSet
  <2>2. t.next - 1 \in Indexes /\ 0 \in 0..MaxFrames
    BY <1>1, <1>3, TranslatorParts, BlockNumbers DEF Describes, Indexes
  <2>3. e \in EventSet /\ e.type = "block_stop" /\ e.block = t.next - 1
    BY <2>2, EventTyped DEF EventTypes, Kinds
  <2>4. CloseTextBlock(t) = Emit(u, e)
    BY <1>3 DEF CloseTextBlock
  <2> HIDE DEF u, e
  <2>5. Made(p, t) \in Seq(EventSet)
    BY <1>1, <2>3, EmittedLast
  <2>6. Message!Legal(Made(p, t), e) /\ Describes(u, Append(Made(p, t), e))
    BY <1>1, <1>3, <2>1, <2>3, <2>5, TextBlockCloses
  <2>7. BlocksBounded(u, n)
    BY <1>1, <2>1 DEF BlocksBounded, OpenedTools
  <2>8. Sound(p, Emit(u, e), n)
    BY <1>1, <2>1, <2>3, <2>6, <2>7, EmitKeepsSound
  <2>9. /\ Emit(u, e).textOpen = u.textOpen /\ Emit(u, e).next = u.next
        /\ Emit(u, e).tools = u.tools /\ Emit(u, e).finish = u.finish
    BY <2>1, <2>3, EmitTyped
  <2>10. QED
    BY <2>1, <2>4, <2>8, <2>9
<1>4. QED
  BY <1>2, <1>3

LEMMA OpenToolBlockSound ==
  ASSUME NEW p \in Seq(EventSet), NEW t, NEW n \in 0..MaxFrames, NEW i \in ToolIndexes,
         Sound(p, t, n)
  PROVE  Sound(p, OpenToolBlock(t, i), n) /\ i \in OpenedTools(OpenToolBlock(t, i))
<1>1. CASE t.tools[i] # NoBlock
  BY <1>1 DEF OpenToolBlock, OpenedTools
<1>2. CASE t.tools[i] = NoBlock
  <2> DEFINE c == CloseTextBlock(t)
             u == [c EXCEPT !.tools[i] = t.next, !.next = @ + 1]
             e == Event("block_start", t.next, "tool", 0)
  <2>1. OpenToolBlock(t, i) = Emit(u, e)
    BY <1>2 DEF OpenToolBlock
  <2>2. /\ Sound(p, c, n) /\ ~c.textOpen
        /\ c.next = t.next /\ c.tools = t.tools
    BY CloseTextBlockSound
  <2> HIDE DEF c
  <2>3. /\ c \in TranslatorSet /\ LegalSoFar(Made(p, c))
        /\ Describes(c, Made(p, c)) /\ BlocksBounded(c, n)
    BY <2>2 DEF Sound
  <2>4. n \in Nat /\ n <= MaxFrames
    BY BlockNumbers
  <2>5. c.next \in Indexes /\ c.next + 1 \in Indexes /\ c.next # NoBlock
    <3>1. Cardinality(OpenedTools(c)) < Cardinality(ToolIndexes)
      BY <1>2, <2>2, <2>3, OpenedToolsCount
    <3>2. QED
      BY <2>3, <2>4, <3>1, OpenedToolsCount, TranslatorParts, BlockNumbers
      DEF BlocksBounded, Indexes
  <2>6. /\ u \in TranslatorSet
        /\ ~u.textOpen /\ u.next = c.next + 1
        /\ u.tools = [c.tools EXCEPT ![i] = c.next] /\ u.out = c.out
    BY <2>2, <2>3, <2>5 DEF TranslatorSet
  <2>7. /\ e \in EventSet
        /\ e.type = "block_start" /\ e.block = c.next /\ e.kind = "tool"
    <3>1. 0 \in 0..MaxFrames
      BY BlockNumbers
    <3>2. QED
      BY <2>2, <2>5, <3>1, EventTyped DEF EventTypes, Kinds
  <2> HIDE DEF u, e
  <2>8. Made(p, c) \in Seq(EventSet)
    BY <2>3, <2>7, EmittedLast
  <2>9. Message!Legal(Made(p, c), e) /\ Describes(u, Append(Made(p, c), e))
    BY <1>2, <2>2, <2>3, <2>5, <2>6, <2>7, <2>8, ToolBlockOpens
  <2>10. OpenedTools(u) = OpenedTools(c) \cup {i} /\ i \notin OpenedTools(c)
    <3>1. c.tools \in [ToolIndexes -> Indexes]
      BY <2>3, TranslatorParts
    <3>2. u.tools[i] = c.next /\ \A j \in ToolIndexes \ {i} : u.tools[j] = c.tools[j]
      BY <2>6, <3>1
    <3>3. QED
      BY <1>2, <2>2, <2>5, <3>2 DEF OpenedTools
  <2>11. BlocksBounded(u, n)
    <3>1. Cardinality(OpenedTools(u)) = Cardinality(OpenedTools(c)) + 1
      BY <2>3, <2>10, OpenedToolsCount, FS_AddElement
    <3>2. QED
      BY <2>3, <2>4, <2>6, <3>1, OpenedToolsCount, TranslatorParts DEF BlocksBounded
  <2>12. Sound(p, Emit(u, e), n)
    BY <2>3, <2>6, <2>7, <2>9, <2>11, EmitKeepsSound
  <2>13. i \in OpenedTools(Emit(u, e))
    <3>1. Emit(u, e).tools = u.tools
      BY <2>6, <2>7, EmitTyped
    <3>2. QED
      BY <2>10, <3>1 DEF OpenedTools
  <2>14. QED
    BY <2>1, <2>12, <2>13
<1>3. QED
  BY <1>1, <1>2

CallSet == [tool : ToolIndexes, args : BOOLEAN]

LEMMA FeedCallSound ==
  ASSUME NEW p \in Seq(EventSet), NEW t, NEW n \in 0..MaxFrames, NEW call \in CallSet,
         Sound(p, t, n)
  PROVE  Sound(p, FeedCall(t, n, call), n)
<1> DEFINE u == OpenToolBlock(t, call.tool)
           e == Event("block_delta", u.tools[call.tool], "tool", n)
<1>1. call.tool \in ToolIndexes
  BY DEF CallSet
<1>2. Sound(p, u, n) /\ call.tool \in OpenedTools(u)
  BY <1>1, OpenToolBlockSound
<1>3. FeedCall(t, n, call) = IF call.args THEN Emit(u, e) ELSE u
  BY DEF FeedCall
<1> HIDE DEF u
<1>4. /\ u \in TranslatorSet /\ LegalSoFar(Made(p, u))
      /\ Describes(u, Made(p, u)) /\ BlocksBounded(u, n)
  BY <1>2 DEF Sound
<1>5. u.tools[call.tool] \in Indexes
  BY <1>1, <1>4, TranslatorParts
<1>6. /\ e \in EventSet
      /\ e.type = "block_delta" /\ e.block = u.tools[call.tool] /\ e.kind = "tool"
  BY <1>5, EventTyped DEF EventTypes, Kinds
<1> HIDE DEF e
<1>7. Made(p, u) \in Seq(EventSet)
  BY <1>4, <1>6, EmittedLast
<1>8. Message!Legal(Made(p, u), e) /\ Describes(u, Append(Made(p, u), e))
  BY <1>2, <1>4, <1>6, <1>7, BlockFills
<1>9. Sound(p, Emit(u, e), n)
  BY <1>4, <1>6, <1>8, EmitKeepsSound
<1>10. QED
  BY <1>2, <1>3, <1>9

LEMMA LeastNatural ==
  ASSUME NEW T \in SUBSET Nat, T # {}
  PROVE  \E n \in T : \A m \in T : n <= m
<1>1. PICK n \in T : \A m \in T : ~ (<<m, n>> \in OpToRel(<, Nat))
  BY WFMin, NatLessThanWellFounded
<1>2. \A m \in T : ~ (m < n)
  BY <1>1 DEF OpToRel
<1>3. QED
  BY <1>2

\* The translator after each of the calls.
FedBy(fed, t, n, calls) ==
    /\ FeedCalls(t, n, calls) = fed[Len(calls)]
    /\ fed[0] = t
    /\ \A k \in 1..Len(calls) : fed[k] = FeedCall(fed[k - 1], n, calls[k])

\* The calls of a frame are fed one after the other.
LEMMA FeedCallsUnfolds ==
  ASSUME NEW t, NEW n, NEW calls \in Seq(CallSet)
  PROVE  \E fed : FedBy(fed, t, n, calls)
<1> DEFINE Unfolds(g, m) ==
             g = [k \in 0..m |-> IF k = 0 THEN t ELSE FeedCall(g[k - 1], n, calls[k])]
<1>1. \E g : Unfolds(g, 0)
  <2>1. Unfolds([k \in 0..0 |-> t], 0)
    OBVIOUS
  <2>2. QED
    BY <2>1
<1>2. ASSUME NEW m \in Nat, NEW g, Unfolds(g, m)
      PROVE  \E h : Unfolds(h, m + 1)
  <2> DEFINE h == [k \in 0..(m + 1) |->
                      IF k <= m THEN g[k] ELSE FeedCall(g[m], n, calls[m + 1])]
  <2>1. \A k \in 0..m : g[k] = IF k = 0 THEN t ELSE FeedCall(g[k - 1], n, calls[k])
    BY <1>2
  <2>2. \A k \in 0..m : h[k] = g[k]
    OBVIOUS
  <2>3. h[m + 1] = FeedCall(h[m], n, calls[m + 1])
    BY <2>2
  <2>4. \A k \in 1..m : k - 1 \in 0..m
    OBVIOUS
  <2>5. \A k \in 0..(m + 1) :
           h[k] = IF k = 0 THEN t ELSE FeedCall(h[k - 1], n, calls[k])
    BY <2>1, <2>2, <2>3, <2>4
  <2>6. h = [k \in 0..(m + 1) |-> h[k]]
    OBVIOUS
  <2> HIDE DEF h
  <2>7. Unfolds(h, m + 1)
    BY <2>5, <2>6
  <2>8. QED
    BY <2>7
<1> HIDE DEF Unfolds
<1>3. \A m \in Nat : \E g : Unfolds(g, m)
  <2> DEFINE Bad == {m \in Nat : ~\E g : Unfolds(g, m)}
  <2>1. SUFFICES ASSUME Bad # {} PROVE FALSE
    OBVIOUS
  <2>2. PICK m \in Bad : \A j \in Bad : m <= j
    BY <2>1, LeastNatural
  <2>3. m # 0
    BY <1>1, <2>2
  <2>4. m - 1 \in Nat /\ m - 1 \notin Bad /\ (m - 1) + 1 = m
    BY <2>2, <2>3
  <2>5. PICK g : Unfolds(g, m - 1)
    BY <2>4
  <2>6. QED
    BY <1>2, <2>2, <2>4, <2>5
<1> DEFINE fed == CHOOSE g : Unfolds(g, Len(calls))
<1>4. Unfolds(fed, Len(calls))
  BY <1>3
<1>5. FeedCalls(t, n, calls) = fed[Len(calls)]
  BY DEF FeedCalls, Unfolds
<1> HIDE DEF fed
<1>6. Len(calls) \in Nat
  OBVIOUS
<1>7. /\ fed[0] = t
      /\ \A k \in 1..Len(calls) : fed[k] = FeedCall(fed[k - 1], n, calls[k])
  <2>1. \A k \in 0..Len(calls) :
           fed[k] = IF k = 0 THEN t ELSE FeedCall(fed[k - 1], n, calls[k])
    BY <1>4 DEF Unfolds
  <2>2. QED
    BY <1>6, <2>1
<1>8. FedBy(fed, t, n, calls)
  BY <1>5, <1>7 DEF FedBy
<1>9. QED
  BY <1>8

LEMMA FeedCallsSound ==
  ASSUME NEW p \in Seq(EventSet), NEW t, NEW n \in 0..MaxFrames,
         NEW calls \in Seq(CallSet), Sound(p, t, n)
  PROVE  Sound(p, FeedCalls(t, n, calls), n)
<1>0. PICK fed : FedBy(fed, t, n, calls)
  BY FeedCallsUnfolds
<1>1. /\ FeedCalls(t, n, calls) = fed[Len(calls)]
      /\ fed[0] = t
      /\ \A k \in 1..Len(calls) : fed[k] = FeedCall(fed[k - 1], n, calls[k])
  BY <1>0 DEF FedBy
<1>2. Len(calls) \in Nat /\ \A k \in 1..Len(calls) : calls[k] \in CallSet
  OBVIOUS
<1>3. \A k \in 0..Len(calls) : Sound(p, fed[k], n)
  <2> DEFINE Bad == {k \in 0..Len(calls) : ~Sound(p, fed[k], n)}
  <2>1. SUFFICES ASSUME Bad # {} PROVE FALSE
    OBVIOUS
  <2>2. Bad \in SUBSET Nat
    BY <1>2
  <2>3. PICK k \in Bad : \A j \in Bad : k <= j
    BY <2>1, <2>2, LeastNatural
  <2>4. k # 0
    BY <1>1, <2>3
  <2>5. k \in 1..Len(calls) /\ k - 1 \in 0..Len(calls) /\ ~(k <= k - 1)
    BY <1>2, <2>3, <2>4
  <2>6. Sound(p, fed[k - 1], n)
    BY <2>3, <2>5
  <2>7. Sound(p, fed[k], n)
    BY <1>1, <1>2, <2>5, <2>6, FeedCallSound
  <2>8. QED
    BY <2>3, <2>7
<1>4. QED
  BY <1>1, <1>2, <1>3

LEMMA FeedSound ==
  ASSUME NEW p \in Seq(EventSet), NEW t, NEW n \in 1..MaxFrames, NEW f \in Frames,
         Sound(p, t, n - 1)
  PROVE  Sound(p, Feed(t, n, f), n)
<1> DEFINE texted == IF f.text = "none" THEN t ELSE FeedText(t, n)
           called == FeedCalls(texted, n, f.calls)
<1>1. /\ n \in 0..MaxFrames /\ n \in Nat
      /\ f.calls \in Seq(CallSet) /\ f.finish \in FinishReasons
  <2>1. f \in FrameSet
    BY RelayAssumption
  <2>2. f.calls \in Seq([tool : ToolIndexes, args : BOOLEAN]) /\ f.finish \in FinishReasons
    BY <2>1 DEF FrameSet
  <2>3. QED
    BY <2>2, BlockNumbers DEF CallSet
<1>2. Sound(p, t, n)
  BY <1>1, OpenedToolsCount, TranslatorParts DEF Sound, BlocksBounded
<1>3. Sound(p, texted, n)
  BY <1>2, FeedTextSound
<1>4. Feed(t, n, f) = IF f.finish = "none" THEN called ELSE [called EXCEPT !.finish = f.finish]
  BY DEF Feed
<1> HIDE DEF texted
<1>5. Sound(p, called, n)
  BY <1>1, <1>3, FeedCallsSound
<1> HIDE DEF called
<1> DEFINE u == [called EXCEPT !.finish = f.finish]
<1>6. Sound(p, u, n)
  <2>1. called \in TranslatorSet /\ LegalSoFar(Made(p, called))
        /\ Describes(called, Made(p, called)) /\ BlocksBounded(called, n)
    BY <1>5 DEF Sound
  <2>2. /\ u \in TranslatorSet
        /\ u.textOpen = called.textOpen /\ u.next = called.next
        /\ u.tools = called.tools /\ u.out = called.out
    BY <1>1, <2>1 DEF TranslatorSet
  <2> HIDE DEF u
  <2>3. /\ Made(p, u) = Made(p, called)
        /\ ToolBlocks(u) = ToolBlocks(called) /\ OpenedTools(u) = OpenedTools(called)
    BY <2>2 DEF Made, ToolBlocks, OpenedTools
  <2>4. Describes(u, Made(p, u)) /\ BlocksBounded(u, n)
    BY <2>1, <2>2, <2>3 DEF Describes, BlocksBounded
  <2>5. QED
    BY <2>1, <2>2, <2>3, <2>4 DEF Sound
<1>7. QED
  BY <1>4, <1>5, <1>6

-----------------------------------------------------------------------------
(* finish(): every block is stopped before the message is.                 *)

\* The translator u has stopped the tool blocks of t below number b.
StoppedBelow(p, t, u, b) ==
    /\ u \in TranslatorSet /\ u.finish = t.finish
    /\ LegalSoFar(Made(p, u))
    /\ Made(p, u) # <<>>
    /\ ~Message!Has(Made(p, u), "message_delta") /\ ~Message!Has(Made(p, u), "error")
    /\ Message!Blocks(Made(p, u)) = 0..(t.next - 1)
    /\ \A c \in Indexes :
          Message!Stopped(Made(p, u), c) <=> /\ c \in 0..(t.next - 1)
                                             /\ c \in ToolBlocks(t) => c < b

LEMMA StopToolsUnfolds ==
  ASSUME NEW t, t.next \in Nat
  PROVE  \E stopped :
            /\ StopTools(t) = stopped[t.next]
            /\ stopped[0] = t
            /\ \A b \in 1..t.next :
                  stopped[b] = IF b - 1 \in ToolBlocks(t)
                               THEN Emit(stopped[b - 1], Event("block_stop", b - 1, "none", 0))
                               ELSE stopped[b - 1]
<1> DEFINE After(u, b) == IF b - 1 \in ToolBlocks(t)
                          THEN Emit(u, Event("block_stop", b - 1, "none", 0))
                          ELSE u
           Unfolds(g, m) == g = [b \in 0..m |-> IF b = 0 THEN t ELSE After(g[b - 1], b)]
<1>a. \A g : Unfolds(g, t.next)
              <=> g = [b \in 0..t.next |->
                         IF b = 0 THEN t
                         ELSE IF b - 1 \in {t.tools[i] : i \in ToolIndexes} \ {NoBlock}
                         THEN Emit(g[b - 1], Event("block_stop", b - 1, "none", 0))
                         ELSE g[b - 1]]
  BY DEF ToolBlocks
<1>b. StopTools(t) = (CHOOSE g : Unfolds(g, t.next))[t.next]
  BY DEF StopTools, ToolBlocks
<1>c. \A u, b : After(u, b) = IF b - 1 \in ToolBlocks(t)
                              THEN Emit(u, Event("block_stop", b - 1, "none", 0))
                              ELSE u
  OBVIOUS
<1> HIDE DEF After
<1>1. \E g : Unfolds(g, 0)
  <2>1. Unfolds([b \in 0..0 |-> t], 0)
    OBVIOUS
  <2>2. QED
    BY <2>1
<1>2. ASSUME NEW m \in Nat, NEW g, Unfolds(g, m)
      PROVE  \E h : Unfolds(h, m + 1)
  <2> DEFINE h == [b \in 0..(m + 1) |-> IF b <= m THEN g[b] ELSE After(g[m], m + 1)]
  <2>1. \A b \in 0..m : g[b] = IF b = 0 THEN t ELSE After(g[b - 1], b)
    BY <1>2
  <2>2. \A b \in 0..m : h[b] = g[b]
    OBVIOUS
  <2>3. h[m + 1] = After(h[m], m + 1)
    BY <2>2
  <2>4. \A b \in 1..m : b - 1 \in 0..m
    OBVIOUS
  <2>5. \A b \in 0..(m + 1) : h[b] = IF b = 0 THEN t ELSE After(h[b - 1], b)
    BY <2>1, <2>2, <2>3, <2>4
  <2>6. h = [b \in 0..(m + 1) |-> h[b]]
    OBVIOUS
  <2> HIDE DEF h
  <2>7. Unfolds(h, m + 1)
    BY <2>5, <2>6
  <2>8. QED
    BY <2>7
<1> HIDE DEF Unfolds
<1>3. \A m \in Nat : \E g : Unfolds(g, m)
  <2> DEFINE Bad == {m \in Nat : ~\E g : Unfolds(g, m)}
  <2>1. SUFFICES ASSUME Bad # {} PROVE FALSE
    OBVIOUS
  <2>2. PICK m \in Bad : \A j \in Bad : m <= j
    BY <2>1, LeastNatural
  <2>3. m # 0
    BY <1>1, <2>2
  <2>4. m - 1 \in Nat /\ m - 1 \notin Bad /\ (m - 1) + 1 = m
    BY <2>2, <2>3
  <2>5. PICK g : Unfolds(g, m - 1)
    BY <2>4
  <2>6. QED
    BY <1>2, <2>2, <2>4, <2>5
<1> DEFINE stopped == CHOOSE g : Unfolds(g, t.next)
<1>4. Unfolds(stopped, t.next)
  BY <1>3
<1>5. StopTools(t) = stopped[t.next]
  BY <1>b
<1> HIDE DEF stopped
<1>6. stopped[0] = t /\ \A b \in 1..t.next : stopped[b] = After(stopped[b - 1], b)
  <2>1. \A b \in 0..t.next : stopped[b] = IF b = 0 THEN t ELSE After(stopped[b - 1], b)
    BY <1>4 DEF Unfolds
  <2>2. QED
    BY <2>1
<1>7. QED
  BY <1>c, <1>5, <1>6

LEMMA StopToolsStops ==
  ASSUME NEW p \in Seq(EventSet), NEW t, NEW n, Sound(p, t, n), ~t.textOpen
  PROVE  StoppedBelow(p, t, StopTools(t), t.next)
<1>1. /\ t \in TranslatorSet /\ LegalSoFar(Made(p, t)) /\ Describes(t, Made(p, t))
      /\ t.next \in Nat /\ t.next \in Indexes
  BY TranslatorParts DEF Sound
<1>2. PICK stopped :
         /\ StopTools(t) = stopped[t.next]
         /\ stopped[0] = t
         /\ \A b \in 1..t.next :
               stopped[b] = IF b - 1 \in ToolBlocks(t)
                            THEN Emit(stopped[b - 1], Event("block_stop", b - 1, "none", 0))
                            ELSE stopped[b - 1]
  BY <1>1, StopToolsUnfolds
<1>3. StoppedBelow(p, t, t, 0)
  <2>1. \A c \in Indexes : c \in Nat /\ ~(c < 0)
    BY BlockNumbers DEF Indexes
  <2>2. QED
    BY <1>1, <2>1 DEF StoppedBelow, Describes
<1>4. ASSUME NEW b \in 1..t.next, NEW u, StoppedBelow(p, t, u, b - 1)
      PROVE  StoppedBelow(p, t, IF b - 1 \in ToolBlocks(t)
                                THEN Emit(u, Event("block_stop", b - 1, "none", 0))
                                ELSE u, b)
  <2>1. /\ b \in Nat /\ b - 1 \in Indexes /\ b - 1 \in 0..(t.next - 1)
        /\ \A c \in Indexes : c \in Nat
    BY <1>1, BlockNumbers DEF Indexes
  <2>2. CASE b - 1 \notin ToolBlocks(t)
    <3>1. \A c \in Indexes : (c \in ToolBlocks(t) => c < b) <=> (c \in ToolBlocks(t) => c < b - 1)
      BY <2>1, <2>2
    <3>2. QED
      BY <1>4, <2>2, <3>1 DEF StoppedBelow
  <2>3. CASE b - 1 \in ToolBlocks(t)
    <3> DEFINE e == Event("block_stop", b - 1, "none", 0)
               s == Made(p, u)
               v == Emit(u, e)
    <3>1. e \in EventSet /\ e.type = "block_stop" /\ e.block = b - 1
      <4>1. 0 \in 0..MaxFrames
        BY BlockNumbers
      <4>2. QED
        BY <2>1, <4>1, EventTyped DEF EventTypes, Kinds
    <3> HIDE DEF e
    <3>2. u \in TranslatorSet /\ v \in TranslatorSet /\ v.finish = t.finish
      BY <1>4, <3>1, EmitTyped DEF StoppedBelow
    <3>3. s \in Seq(EventSet) /\ Made(p, v) = Append(s, e)
      BY <3>1, <3>2, EmittedLast
    <3> HIDE DEF v, s
    <3>4. /\ LegalSoFar(s) /\ s # <<>>
          /\ ~Message!Has(s, "message_delta") /\ ~Message!Has(s, "error")
          /\ Message!Blocks(s) = 0..(t.next - 1)
          /\ \A c \in Indexes :
                Message!Stopped(s, c) <=> /\ c \in 0..(t.next - 1)
                                          /\ c \in ToolBlocks(t) => c < b - 1
      BY <1>4 DEF StoppedBelow, s
    <3>5. ~Message!Stopped(s, b - 1)
      BY <2>1, <2>3, <3>4
    <3>6. Message!Legal(s, e)
      BY <2>1, <3>1, <3>4, <3>5 DEF Message!Legal, Message!Continues, Message!StopsBlock
    <3>7. LegalSoFar(Made(p, v))
      BY <3>1, <3>3, <3>4, <3>6, LegalExtends
    <3>8. /\ Made(p, v) # <<>>
          /\ ~Message!Has(Made(p, v), "message_delta") /\ ~Message!Has(Made(p, v), "error")
      BY <3>1, <3>3, <3>4, OneMore
    <3>9. Message!Blocks(Made(p, v)) = 0..(t.next - 1)
      <4>1. Message!Blocks(Made(p, v)) = Message!Blocks(s) \cup {}
        BY <3>1, <3>3, OneMore
      <4>2. QED
        BY <3>4, <4>1
    <3>10. \A c \in Indexes :
              Message!Stopped(Made(p, v), c) <=> /\ c \in 0..(t.next - 1)
                                                 /\ c \in ToolBlocks(t) => c < b
      <4>1. \A c \in Indexes :
               Message!Stopped(Made(p, v), c) <=> Message!Stopped(s, c) \/ c = b - 1
        BY <3>1, <3>3, OneMore
      <4>2. QED
        BY <2>1, <2>3, <3>4, <4>1
    <3>11. StoppedBelow(p, t, v, b)
      BY <3>2, <3>7, <3>8, <3>9, <3>10 DEF StoppedBelow
    <3>12. QED
      BY <2>3, <3>11 DEF v, e
  <2>4. QED
    BY <2>2, <2>3
<1>5. \A b \in 0..t.next : StoppedBelow(p, t, stopped[b], b)
  <2> DEFINE Bad == {b \in 0..t.next : ~StoppedBelow(p, t, stopped[b], b)}
  <2>1. SUFFICES ASSUME Bad # {} PROVE FALSE
    OBVIOUS
  <2>2. Bad \in SUBSET Nat
    BY <1>1
  <2>3. PICK b \in Bad : \A j \in Bad : b <= j
    BY <2>1, <2>2, LeastNatural
  <2>4. b # 0
    BY <1>2, <1>3, <2>3
  <2>5. b \in 1..t.next /\ b - 1 \in 0..t.next /\ ~(b <= b - 1)
    BY <1>1, <2>3, <2>4
  <2>6. StoppedBelow(p, t, stopped[b - 1], b - 1)
    BY <2>3, <2>5
  <2>7. StoppedBelow(p, t, stopped[b], b)
    BY <1>2, <1>4, <2>5, <2>6
  <2>8. QED
    BY <2>3, <2>7
<1>6. t.next \in 0..t.next
  BY <1>1
<1>7. QED
  BY <1>2, <1>5, <1>6

LEMMA FinishMessageLegal ==
  ASSUME NEW p \in Seq(EventSet), NEW t, NEW n, Sound(p, t, n)
  PROVE  /\ FinishMessage(t) \in TranslatorSet
         /\ LegalSoFar(Made(p, FinishMessage(t)))
<1> DEFINE c == CloseTextBlock(t)
           u == StopTools(c)
           d == Event("message_delta", 0, StopReason(t.finish), 0)
           v == Emit(u, d)
           e == Bare("message_stop")
<1>1. FinishMessage(t) = Emit(v, e)
  BY DEF FinishMessage
<1>2. Sound(p, c, n) /\ ~c.textOpen
  BY CloseTextBlockSound
<1> HIDE DEF c
<1>3. StoppedBelow(p, c, u, c.next) /\ c \in TranslatorSet
  BY <1>2, StopToolsStops DEF Sound
<1>4. d \in EventSet /\ d.type = "message_delta" /\ e \in EventSet /\ e.type = "message_stop"
  <2>1. 0 \in Indexes /\ 0 \in 0..MaxFrames
    BY BlockNumbers
  <2>2. StopReason(t.finish) \in Kinds
    BY DEF StopReason, Kinds
  <2>3. QED
    BY <2>1, <2>2, EventTyped, BareTyped DEF EventTypes
<1> HIDE DEF u, d, e
<1>5. u \in TranslatorSet /\ v \in TranslatorSet /\ Emit(v, e) \in TranslatorSet
  BY <1>3, <1>4, EmitTyped DEF StoppedBelow
<1> DEFINE s == Made(p, u)
<1>6. /\ s \in Seq(EventSet) /\ Made(p, v) = Append(s, d)
      /\ Made(p, v) \in Seq(EventSet) /\ Made(p, Emit(v, e)) = Append(Made(p, v), e)
  BY <1>4, <1>5, EmittedLast
<1>7. \A b \in Message!Blocks(s) : Message!Stopped(s, b)
  <2>1. \A b \in 0..(c.next - 1) : b \in Indexes /\ b < c.next
    BY <1>3, TranslatorParts, BlockNumbers DEF Indexes
  <2>2. QED
    BY <1>3, <2>1 DEF StoppedBelow
<1>8. Message!Legal(s, d) /\ LegalSoFar(s)
  BY <1>3, <1>4, <1>7
  DEF StoppedBelow, Message!Legal, Message!Continues, Message!ClosesMessage
<1> HIDE DEF v, s
<1>9. LegalSoFar(Append(s, d))
  BY <1>4, <1>6, <1>8, LegalExtends
<1>10. Message!Legal(Append(s, d), e)
  <2>1. Append(s, d) # <<>> /\ Append(s, d)[Len(Append(s, d))] = d
    BY <1>4, <1>6
  <2>2. QED
    BY <1>4, <2>1 DEF Message!Legal
<1>11. LegalSoFar(Append(Made(p, v), e))
  BY <1>4, <1>6, <1>9, <1>10, LegalExtends
<1>12. QED
  BY <1>1, <1>5, <1>6, <1>11

-----------------------------------------------------------------------------
(* The steps of stream_from().                                             *)

LEMMA ErrorsAppend ==
  ASSUME NEW q \in Seq(Frames), NEW f \in Frames
  PROVE  HasError(Append(q, f)) <=> HasError(q) \/ f.type = "error"
<1> DEFINE a == Append(q, f)
<1>1. /\ DOMAIN a = DOMAIN q \cup {Len(q) + 1}
      /\ \A i \in DOMAIN q : a[i] = q[i]
      /\ a[Len(q) + 1] = f
  OBVIOUS
<1> HIDE DEF a
<1>2. HasError(a) <=> HasError(q) \/ f.type = "error"
  BY <1>1 DEF HasError
<1>3. QED
  BY <1>2 DEF a

PendingSet == {<<>>} \cup {<<p>> : p \in [frame : Frames, whole : BOOLEAN]}

\* The unended frame, of what is pending.
Unended(p) == IF p # <<>> /\ p[1].whole THEN <<p[1].frame>> ELSE <<>>

LEMMA PendingTyped ==
  ASSUME NEW p \in PendingSet
  PROVE  /\ p # <<>> => p[1].frame \in Frames /\ p[1].whole \in BOOLEAN
         /\ Unended(p) \in Seq(Frames)
         /\ Unended(p) # <<>> => p # <<>> /\ Unended(p)[1] \in Frames
<1>1. p # <<>> => p[1].frame \in Frames /\ p[1].whole \in BOOLEAN
  BY DEF PendingSet
<1>2. QED
  BY <1>1 DEF Unended

\* A body has failed when one of its complete frames, or the unended one, is an
\* error.
LEMMA FailedWhen ==
  ASSUME NEW fs \in Seq(Frames), NEW p \in PendingSet
  PROVE  HasError(fs \o Unended(p)) <=> HasError(fs) \/ HasError(Unended(p))
<1> DEFINE q == Unended(p)
           a == fs \o q
<1>1. q \in Seq(Frames)
  BY PendingTyped
<1> HIDE DEF q
<1>2. /\ \A i \in DOMAIN fs : i \in DOMAIN a /\ a[i] = fs[i]
      /\ \A i \in DOMAIN q : i + Len(fs) \in DOMAIN a /\ a[i + Len(fs)] = q[i]
      /\ \A i \in DOMAIN a : \/ i \in DOMAIN fs /\ a[i] = fs[i]
                             \/ i - Len(fs) \in DOMAIN q /\ a[i] = q[i - Len(fs)]
  BY <1>1
<1> HIDE DEF a
<1>3. HasError(a) <=> HasError(fs) \/ HasError(q)
  BY <1>2 DEF HasError
<1>4. QED
  BY <1>3 DEF a, q

\* Taking an event does not change what was made.
LEMMA Taken ==
  ASSUME NEW p \in Seq(EventSet), NEW q \in Seq(EventSet), q # <<>>
  PROVE  /\ Head(q) \in EventSet /\ Tail(q) \in Seq(EventSet)
         /\ Append(p, Head(q)) \in Seq(EventSet)
         /\ Append(p, Head(q)) \o Tail(q) = p \o q
         /\ (p \o q)[Len(p) + 1] = Head(q)
         /\ Len(p) + 1 \in DOMAIN (p \o q)
         /\ SubSeq(p \o q, 1, Len(p)) = p
  OBVIOUS

\* After the first event an error may always be told, until the message ends.
LEMMA ErrorTold ==
  ASSUME NEW p \in Seq(EventSet), NEW t \in TranslatorSet,
         LegalSoFar(Made(p, t)), Made(p, t) # <<>>,
         ~Message!Has(Made(p, t), "message_delta")
  PROVE  LET u == Emit(t, Bare("error"))
         IN  /\ u \in TranslatorSet
             /\ LegalSoFar(Made(p, u)) /\ Made(p, u) # <<>>
             /\ ~Message!Has(Made(p, u), "message_delta")
<1> DEFINE e == Bare("error")
           u == Emit(t, e)
           s == Made(p, t)
<1>1. e \in EventSet /\ e.type = "error"
  BY BareTyped DEF EventTypes
<1> HIDE DEF e
<1>2. u \in TranslatorSet /\ s \in Seq(EventSet) /\ Made(p, u) = Append(s, e)
  BY <1>1, EmitTyped, EmittedLast
<1> HIDE DEF u
<1>3. Message!Legal(s, e)
  BY <1>1 DEF Message!Legal
<1> HIDE DEF s
<1>4. LegalSoFar(s) /\ ~Message!Has(s, "message_delta")
  BY DEF s
<1>5. /\ LegalSoFar(Made(p, u)) /\ Made(p, u) # <<>>
      /\ ~Message!Has(Made(p, u), "message_delta")
  BY <1>1, <1>2, <1>3, <1>4, LegalExtends, OneMore
<1>6. QED
  BY <1>2, <1>5 DEF u, e

LEMMA InductiveInit == Init => Inductive
<1> SUFFICES ASSUME Init PROVE Inductive
  OBVIOUS
<1> DEFINE e == Bare("message_start")
<1>1. e \in EventSet /\ e.type = "message_start"
  BY BareTyped DEF EventTypes
<1>2. NewTranslator \in TranslatorSet
  <2>1. NoBlock \in Indexes /\ 0 \in Indexes
    BY BlockNumbers DEF Indexes
  <2>2. QED
    BY <2>1 DEF NewTranslator, TranslatorSet, FinishReasons
<1>3. /\ NewTranslator.textOpen = FALSE /\ NewTranslator.next = 0
      /\ NewTranslator.out = <<>>
      /\ ToolBlocks(NewTranslator) = {} /\ OpenedTools(NewTranslator) = {}
  BY DEF NewTranslator, ToolBlocks, OpenedTools
<1> HIDE DEF e
<1>4. RelayTypeOK
  <2>1. translator \in TranslatorSet
    BY <1>1, <1>2, EmitTyped DEF Init, e
  <2>2. <<>> \in Seq(Frames) /\ <<>> \in Seq(EventSet)
    OBVIOUS
  <2>3. QED
    BY <2>1, <2>2 DEF Init, RelayTypeOK
<1>5. ~ErrorSeen
  BY DEF Init, ErrorSeen, HasError
<1>6. RecordInv
  BY <1>5 DEF Init, RecordInv
<1>7. ASSUME Anthropic
      PROVE  /\ LegalSoFar(Made(sent, translator))
             /\ Describes(translator, Made(sent, translator))
             /\ BlocksBounded(translator, 0)
  <2> DEFINE n == NewTranslator
             s == Append(<<>>, e)
  <2>1. sent = <<>> /\ translator = Emit(n, e)
    BY <1>7 DEF Init, e
  <2>2. /\ translator.textOpen = FALSE /\ translator.next = 0
        /\ translator.tools = n.tools /\ translator.out = s
    BY <1>1, <1>2, <1>3, <2>1, EmitTyped
  <2>3. Made(sent, translator) = s
    BY <1>1, <2>1, <2>2 DEF Made
  <2>4. /\ Message!Blocks(<<>>) = {}
        /\ \A b : ~Message!Stopped(<<>>, b)
        /\ \A type : ~Message!Has(<<>>, type)
    BY DEF Message!Blocks, Message!Stopped, Message!Has
  <2>5. <<>> \in Seq(EventSet) /\ LegalSoFar(<<>>) /\ Message!Legal(<<>>, e)
    BY <1>1 DEF LegalSoFar, Message!Legal
  <2>6. LegalSoFar(s)
    BY <1>1, <2>5, LegalExtends
  <2>7. /\ s # <<>>
        /\ ~Message!Has(s, "message_delta") /\ ~Message!Has(s, "error")
        /\ \A b : ~Message!Stopped(s, b)
    BY <1>1, <2>4, <2>5, OneMore
  <2>8. Message!Blocks(s) = {}
    <3>1. Message!Blocks(s) = Message!Blocks(<<>>) \cup {}
      BY <1>1, <2>5, OneMore
    <3>2. QED
      BY <2>4, <3>1
  <2>9. ToolBlocks(translator) = {} /\ OpenedTools(translator) = {}
    BY <1>3, <2>2 DEF ToolBlocks, OpenedTools
  <2>10. 0..(0 - 1) = {}
    OBVIOUS
  <2> HIDE DEF s, n
  <2>11. Describes(translator, s)
    BY <2>2, <2>7, <2>8, <2>9, <2>10 DEF Describes
  <2>12. BlocksBounded(translator, 0)
    BY <2>2, <2>9, FS_EmptySet DEF BlocksBounded
  <2>13. QED
    BY <2>3, <2>6, <2>11, <2>12
<1>8. MessageInv
  BY <1>7 DEF Init, MessageInv, Describes
<1>9. BoundsInv
  BY <1>7, BlockNumbers DEF Init, BoundsInv
<1>10. QED
  BY <1>4, <1>6, <1>8, <1>9 DEF Inductive

\* What the loop yields for one frame, and what it knows afterwards.
LEMMA RelayFrameKeeps ==
  ASSUME Inductive, Anthropic, phase = "reading", NEW f \in Frames,
         Len(frames) < MaxFrames
  PROVE  LET u == RelayFrame(f, Len(frames) + 1)
         IN  /\ u \in TranslatorSet
             /\ LegalSoFar(Made(sent, u)) /\ Made(sent, u) # <<>>
             /\ ~Message!Has(Made(sent, u), "message_delta")
             /\ BlocksBounded(u, Len(frames) + 1)
             /\ ~(errorEmitted \/ f.type = "error") => Describes(u, Made(sent, u))
<1> DEFINE n == Len(frames) + 1
           u == RelayFrame(f, n)
<1>1. /\ translator \in TranslatorSet /\ sent \in Seq(EventSet)
      /\ frames \in Seq(Frames) /\ errorEmitted \in BOOLEAN
  BY DEF Inductive, RelayTypeOK
<1>2. /\ LegalSoFar(Made(sent, translator)) /\ Made(sent, translator) # <<>>
      /\ ~Message!Has(Made(sent, translator), "message_delta")
      /\ ~errorEmitted => Describes(translator, Made(sent, translator))
      /\ BlocksBounded(translator, n - 1)
  BY <1>1 DEF Inductive, MessageInv, BoundsInv
<1>3. n \in 1..MaxFrames /\ n \in Nat
  BY <1>1, BlockNumbers
<1>4. f.type \in {"chunk", "error", "done"}
  <2>1. f \in FrameSet
    BY RelayAssumption
  <2>2. QED
    BY <2>1 DEF FrameSet
<1> HIDE DEF n
<1>5. BlocksBounded(translator, n)
  BY <1>1, <1>2, <1>3, OpenedToolsCount, TranslatorParts DEF BlocksBounded
<1>6. CASE f.type = "error"
  <2>1. u = Emit(translator, Bare("error"))
    BY <1>6 DEF RelayFrame
  <2>2. /\ u \in TranslatorSet
        /\ LegalSoFar(Made(sent, u)) /\ Made(sent, u) # <<>>
        /\ ~Message!Has(Made(sent, u), "message_delta")
    BY <1>1, <1>2, <2>1, ErrorTold
  <2>3. u.next = translator.next /\ u.tools = translator.tools
    <3>1. Bare("error") \in EventSet
      BY BareTyped DEF EventTypes
    <3>2. QED
      BY <1>1, <2>1, <3>1, EmitTyped
  <2>4. BlocksBounded(u, n)
    BY <1>5, <2>3 DEF BlocksBounded, OpenedTools
  <2>5. QED
    BY <1>6, <2>2, <2>4 DEF n
<1>7. CASE f.type # "error" /\ (f.type = "done" \/ errorEmitted)
  <2>1. u = translator
    BY <1>4, <1>7 DEF RelayFrame
  <2>2. QED
    BY <1>1, <1>2, <1>5, <2>1 DEF n
<1>8. CASE f.type # "error" /\ f.type # "done" /\ ~errorEmitted
  <2>1. u = Feed(translator, n, f)
    BY <1>4, <1>8 DEF RelayFrame
  <2>2. Sound(sent, translator, n - 1)
    BY <1>1, <1>2, <1>8 DEF Sound
  <2>3. Sound(sent, u, n)
    BY <1>1, <1>3, <2>1, <2>2, FeedSound
  <2>4. QED
    BY <2>3 DEF n, Sound, Describes
<1>9. QED
  BY <1>6, <1>7, <1>8

\* The end of the body: what was not fed yet is fed, and the message finished.
LEMMA EndKeeps ==
  ASSUME Inductive, Anthropic, phase = "reading", ~errorEmitted
  PROVE  /\ FinishMessage(FeedTail(translator)) \in TranslatorSet
         /\ LegalSoFar(Made(sent, FinishMessage(FeedTail(translator))))
<1>1. sent \in Seq(EventSet) /\ frames \in Seq(Frames)
  BY DEF Inductive, RelayTypeOK
<1>2. Sound(sent, translator, Len(frames))
  BY DEF Inductive, RelayTypeOK, MessageInv, BoundsInv, Sound
<1>3. CASE UnendedFrame = <<>>
  BY <1>1, <1>2, <1>3, FinishMessageLegal DEF FeedTail
<1>4. CASE UnendedFrame # <<>>
  <2>1. UnendedFrame[1] \in Frames /\ Len(frames) < MaxFrames
    <3>1. pending \in PendingSet /\ UnendedFrame = Unended(pending)
      BY DEF Inductive, RelayTypeOK, PendingSet, Unended, UnendedFrame
    <3>2. QED
      BY <1>4, <3>1, PendingTyped DEF Inductive, BoundsInv
  <2> DEFINE n == Len(frames) + 1
  <2>2. n \in 1..MaxFrames /\ n - 1 = Len(frames)
    BY <1>1, <2>1, BlockNumbers
  <2>3. FeedTail(translator) = Feed(translator, n, UnendedFrame[1])
    BY <1>4 DEF FeedTail
  <2> HIDE DEF n
  <2>4. Sound(sent, FeedTail(translator), n)
    BY <1>1, <1>2, <2>1, <2>2, <2>3, FeedSound
  <2>5. QED
    BY <1>1, <2>4, FinishMessageLegal
<1>5. QED
  BY <1>3, <1>4

\* The frames, and what is pending, decide whether the body failed.
LEMMA FailedParts ==
  /\ UnendedFrame = Unended(pending)
  /\ Failed <=> HasError(frames \o Unended(pending))
  BY DEF Failed, AllFrames, UnendedFrame, Unended, HasError

LEMMA FailedPartsNext ==
  /\ UnendedFrame' = Unended(pending')
  /\ Failed' <=> HasError(frames' \o Unended(pending'))
  BY DEF Failed, AllFrames, UnendedFrame, Unended, HasError

LEMMA InductiveStep == Inductive /\ [Next]_vars => Inductive'
<1> SUFFICES ASSUME Inductive, [Next]_vars PROVE Inductive'
  OBVIOUS
<1>a. RelayTypeOK /\ MessageInv /\ BoundsInv /\ RecordInv
  BY DEF Inductive
<1>b. /\ sent \in Seq(EventSet) /\ frames \in Seq(Frames) /\ Len(frames) \in Nat
      /\ translator \in TranslatorSet /\ MaxFrames \in Nat /\ pending \in PendingSet
  BY <1>a, BlockNumbers DEF RelayTypeOK, PendingSet
\* Steps that take no frame, and steps that take one.
<1>c. ASSUME UNCHANGED <<frames, pending>>
      PROVE  (ErrorSeen' <=> ErrorSeen) /\ (Failed' <=> Failed)
  BY <1>c DEF ErrorSeen, HasError, Failed, AllFrames, UnendedFrame
<1>d. ASSUME frames' \in Seq(Frames), pending' \in PendingSet
      PROVE  ErrorSeen' => Failed'
  BY <1>d, FailedPartsNext, FailedWhen DEF ErrorSeen, HasError
<1>1. ASSUME NEW f \in Frames, NEW whole \in BOOLEAN, Arrives(f, whole)
      PROVE  Inductive'
  <2> DEFINE e == Event("bytes", 0, "none", Len(frames) + 1)
  <2>1. e \in EventSet
    <3>1. 0 \in Indexes /\ Len(frames) + 1 \in 0..MaxFrames
      BY <1>1, <1>b, BlockNumbers DEF Arrives
    <3>2. QED
      BY <3>1, EventTyped DEF EventTypes, Kinds
  <2>2. translator' = IF Anthropic THEN translator ELSE Emit(translator, e)
    BY <1>1 DEF Arrives
  <2> HIDE DEF e
  <2>3. translator' \in TranslatorSet
    BY <1>b, <2>1, <2>2, EmitTyped
  <2>4. RelayTypeOK'
    BY <1>1, <1>a, <2>3 DEF RelayTypeOK, Arrives
  <2>5. MessageInv'
    BY <1>1, <1>a, <2>2 DEF MessageInv, Arrives, Anthropic, Made, Reading
  <2>6. BoundsInv'
    BY <1>1, <1>a, <2>2 DEF BoundsInv, Arrives, Anthropic, Reading
  <2>7. RecordInv'
    <3>1. ErrorSeen' <=> ErrorSeen
      BY <1>1 DEF Arrives, ErrorSeen, HasError
    <3>2. ErrorSeen' => Failed'
      BY <1>d, <2>4 DEF RelayTypeOK, PendingSet
    <3>3. QED
      BY <1>1, <1>a, <3>1, <3>2 DEF RecordInv, Arrives, Reading
  <2>8. QED
    BY <2>4, <2>5, <2>6, <2>7 DEF Inductive
<1>2. CASE Completes
  <2> DEFINE f == pending[1].frame
             n == Len(frames) + 1
             e == Bare("boundary")
  <2>1. f \in Frames /\ Len(frames) < MaxFrames /\ n \in 1..MaxFrames
    BY <1>2, <1>a, <1>b, PendingTyped DEF Completes, BoundsInv
  <2>2. /\ phase = "reading" /\ pending' = <<>> /\ frames' = Append(frames, f)
        /\ streamOk' = Sniff(f)
        /\ errorEmitted' = (errorEmitted \/ (Anthropic /\ f.type = "error"))
        /\ translator' = IF Anthropic THEN RelayFrame(f, n) ELSE Emit(translator, e)
        /\ UNCHANGED <<dialect, sent, phase, ending, recorded>>
    BY <1>2 DEF Completes, Reading
  <2>3. e \in EventSet
    BY BareTyped DEF EventTypes
  <2> HIDE DEF f, e
  <2>4. Anthropic =>
           /\ translator' \in TranslatorSet
           /\ LegalSoFar(Made(sent, translator')) /\ Made(sent, translator') # <<>>
           /\ ~Message!Has(Made(sent, translator'), "message_delta")
           /\ BlocksBounded(translator', n)
           /\ ~(errorEmitted \/ f.type = "error") => Describes(translator', Made(sent, translator'))
    BY <2>1, <2>2, RelayFrameKeeps
  <2>5. translator' \in TranslatorSet
    BY <1>b, <2>2, <2>3, <2>4, EmitTyped
  <2>6. frames' \in Seq(Frames) /\ Len(frames') = n
    BY <1>b, <2>1, <2>2
  <2>7. RelayTypeOK'
    <3>1. streamOk' \in BOOLEAN /\ errorEmitted' \in BOOLEAN
      BY <1>a, <2>2 DEF Sniff, RelayTypeOK
    <3>2. QED
      BY <1>a, <2>2, <2>5, <2>6, <3>1 DEF RelayTypeOK
  <2> HIDE DEF n
  <2>8. MessageInv'
    <3>1. Made(sent, translator)' = Made(sent, translator')
      BY <2>2 DEF Made
    <3>2. Describes(translator, Made(sent, translator))'
             <=> Describes(translator', Made(sent, translator'))
      BY <3>1 DEF Describes, ToolBlocks, OpenedTools, Started
    <3>3. LegalSoFar(Made(sent, translator))' <=> LegalSoFar(Made(sent, translator'))
      BY <3>1 DEF LegalSoFar
    <3>4. QED
      BY <2>2, <2>4, <3>1, <3>2, <3>3 DEF MessageInv, Anthropic
  <2>9. BoundsInv'
    BY <2>1, <2>2, <2>4, <2>6 DEF BoundsInv, Anthropic
  <2>10. RecordInv'
    <3>1. ErrorSeen' <=> ErrorSeen \/ f.type = "error"
      BY <1>b, <2>1, <2>2, ErrorsAppend DEF ErrorSeen, HasError
    <3>2. ErrorSeen' => Failed'
      BY <1>d, <2>2, <2>6 DEF PendingSet
    <3>3. streamOk' <=> streamOk /\ f.type # "error"
      BY <2>2 DEF Sniff
    <3>4. QED
      BY <1>a, <2>2, <3>1, <3>2, <3>3 DEF RecordInv
  <2>11. QED
    BY <2>7, <2>8, <2>9, <2>10 DEF Inductive
<1>3. CASE Interrupted
  <2> DEFINE e == Bare("error")
             d == Bare("done")
  <2>1. /\ phase = "reading" /\ phase' = "ending" /\ ending' = "interrupted"
        /\ streamOk' = FALSE
        /\ translator' = IF Anthropic THEN Emit(translator, e) ELSE Emit(Emit(translator, e), d)
        /\ UNCHANGED <<dialect, frames, pending, sent, errorEmitted, recorded>>
    BY <1>3 DEF Interrupted, Reading
  <2>2. e \in EventSet /\ d \in EventSet
    BY BareTyped DEF EventTypes
  <2>3. Anthropic => LegalSoFar(Made(sent, Emit(translator, e)))
    BY <1>a, <1>b, <2>1, ErrorTold DEF MessageInv
  <2> HIDE DEF e, d
  <2>4. translator' \in TranslatorSet
    BY <1>b, <2>1, <2>2, EmitTyped
  <2>5. RelayTypeOK'
    BY <1>a, <2>1, <2>4 DEF RelayTypeOK
  <2>6. MessageInv'
    BY <2>1, <2>3 DEF MessageInv, Anthropic, LegalSoFar, Made
  <2>7. BoundsInv'
    BY <1>a, <2>1 DEF BoundsInv
  <2>8. RecordInv'
    BY <1>a, <2>1 DEF RecordInv
  <2>9. QED
    BY <2>5, <2>6, <2>7, <2>8 DEF Inductive
<1>4. CASE Ends
  <2>1. /\ phase = "reading" /\ phase' = "ending" /\ ending' = "eof"
        /\ UNCHANGED <<dialect, frames, pending, sent, errorEmitted, recorded>>
    BY <1>4 DEF Ends, Reading
  <2>2. CASE Anthropic /\ ~errorEmitted
    <3> DEFINE u == FinishMessage(FeedTail(translator))
    <3>1. translator' = u /\ streamOk' = streamOk
      BY <1>4, <2>2 DEF Ends
    <3>2. u \in TranslatorSet /\ LegalSoFar(Made(sent, u))
      BY <2>1, <2>2, EndKeeps
    <3> HIDE DEF u
    <3>3. RelayTypeOK'
      BY <1>a, <2>1, <3>1, <3>2 DEF RelayTypeOK
    <3>4. MessageInv'
      BY <2>1, <3>1, <3>2 DEF MessageInv, LegalSoFar, Made
    <3>5. BoundsInv'
      BY <1>a, <2>1 DEF BoundsInv
    <3>6. RecordInv'
      BY <1>a, <1>c, <2>1, <2>2, <3>1 DEF RecordInv, Anthropic
    <3>7. QED
      BY <3>3, <3>4, <3>5, <3>6 DEF Inductive
  <2>3. CASE ~(Anthropic /\ ~errorEmitted)
    <3>1. /\ translator' = translator
          /\ streamOk' = (streamOk /\ ~HasError(UnendedFrame))
      BY <1>4, <2>3 DEF Ends, HasError
    <3>2. RelayTypeOK'
      BY <1>a, <2>1, <3>1 DEF RelayTypeOK
    <3>3. MessageInv'
      BY <1>a, <2>1, <3>1 DEF MessageInv, Anthropic, LegalSoFar, Made
    <3>4. BoundsInv'
      BY <1>a, <2>1 DEF BoundsInv
    <3>5. Failed <=> ErrorSeen \/ HasError(UnendedFrame)
      BY <1>b, FailedWhen, FailedParts DEF ErrorSeen
    <3>6. RecordInv'
      BY <1>a, <1>c, <2>1, <3>1, <3>5 DEF RecordInv
    <3>7. QED
      BY <3>2, <3>3, <3>4, <3>6 DEF Inductive
  <2>4. QED
    BY <2>2, <2>3
<1>5. CASE Yield
  <2>1. /\ translator.out # <<>>
        /\ sent' = Append(sent, Head(translator.out))
        /\ translator' = [translator EXCEPT !.out = Tail(@)]
        /\ UNCHANGED <<dialect, frames, pending, streamOk, errorEmitted, phase, ending, recorded>>
    BY <1>5 DEF Yield
  <2>2. translator.out \in Seq(EventSet)
    BY <1>b, TranslatorParts
  <2>3. /\ sent' \in Seq(EventSet) /\ Tail(translator.out) \in Seq(EventSet)
        /\ sent' \o Tail(translator.out) = sent \o translator.out
    BY <1>b, <2>1, <2>2, Taken
  <2>4. /\ translator' \in TranslatorSet
        /\ translator'.textOpen = translator.textOpen /\ translator'.next = translator.next
        /\ translator'.tools = translator.tools
        /\ translator'.out = Tail(translator.out)
    BY <1>b, <2>1, <2>3 DEF TranslatorSet
  <2>5. Made(sent, translator)' = Made(sent, translator)
    BY <2>3, <2>4 DEF Made
  <2>6. /\ ToolBlocks(translator)' = ToolBlocks(translator)
        /\ OpenedTools(translator)' = OpenedTools(translator)
    BY <2>4 DEF ToolBlocks, OpenedTools
  <2>7. RelayTypeOK'
    BY <1>a, <2>1, <2>3, <2>4 DEF RelayTypeOK
  <2>8. MessageInv'
    <3>1. LegalSoFar(Made(sent, translator))' <=> LegalSoFar(Made(sent, translator))
      BY <2>5 DEF LegalSoFar
    <3>2. Describes(translator, Made(sent, translator))'
             <=> Describes(translator, Made(sent, translator))
      BY <2>4, <2>5, <2>6 DEF Describes, Started
    <3>3. phase \in {"closing", "ended"} /\ Anthropic => FALSE
      BY <1>a, <2>1 DEF MessageInv
    <3>4. QED
      BY <1>a, <2>1, <2>5, <3>1, <3>2, <3>3 DEF MessageInv, Anthropic
  <2>9. BoundsInv'
    BY <1>a, <2>1, <2>4, <2>6 DEF BoundsInv, BlocksBounded, Anthropic
  <2>10. RecordInv'
    BY <1>a, <1>c, <2>1 DEF RecordInv, Anthropic
  <2>11. QED
    BY <2>7, <2>8, <2>9, <2>10 DEF Inductive
<1>6. CASE Disconnects
  <2>1. /\ phase \in {"reading", "ending"} /\ phase' = "closing"
        /\ ending' = IF ending = "interrupted" THEN ending ELSE "disconnected"
        /\ translator' = [translator EXCEPT !.out = <<>>]
        /\ UNCHANGED <<dialect, frames, pending, sent, streamOk, errorEmitted, recorded>>
    BY <1>6 DEF Disconnects
  <2>2. translator' \in TranslatorSet /\ translator'.out = <<>>
    <3>1. <<>> \in Seq(EventSet)
      OBVIOUS
    <3>2. QED
      BY <1>b, <2>1, <3>1 DEF TranslatorSet
  <2>3. RelayTypeOK'
    BY <1>a, <2>1, <2>2 DEF RelayTypeOK
  <2>4. MessageInv' /\ BoundsInv'
    BY <1>a, <2>1, <2>2 DEF MessageInv, BoundsInv
  <2>5. RecordInv'
    BY <1>a, <1>c, <2>1 DEF RecordInv
  <2>6. QED
    BY <2>3, <2>4, <2>5 DEF Inductive
<1>7. CASE Returns
  <2>1. /\ phase = "ending" /\ phase' = "closing" /\ translator.out = <<>>
        /\ UNCHANGED <<dialect, frames, pending, translator, sent, streamOk, errorEmitted,
                       ending, recorded>>
    BY <1>7 DEF Returns
  <2>2. RelayTypeOK'
    BY <1>a, <2>1 DEF RelayTypeOK
  <2>3. MessageInv' /\ BoundsInv'
    BY <1>a, <2>1 DEF MessageInv, BoundsInv
  <2>4. RecordInv'
    BY <1>a, <1>c, <2>1 DEF RecordInv, Anthropic
  <2>5. QED
    BY <2>2, <2>3, <2>4 DEF Inductive
<1>8. CASE Finishes
  <2>1. /\ phase = "closing" /\ phase' = "ended"
        /\ recorded' = IF streamOk THEN "ok" ELSE "failed"
        /\ UNCHANGED <<dialect, frames, pending, translator, sent, streamOk, errorEmitted, ending>>
    BY <1>8 DEF Finishes
  <2>2. RelayTypeOK'
    BY <1>a, <2>1 DEF RelayTypeOK
  <2>3. MessageInv' /\ BoundsInv'
    BY <1>a, <2>1 DEF MessageInv, BoundsInv, Anthropic
  <2>4. RecordInv'
    BY <1>a, <1>c, <2>1 DEF RecordInv, Anthropic
  <2>5. QED
    BY <2>2, <2>3, <2>4 DEF Inductive
<1>9. CASE UNCHANGED vars
  <2>1. RelayTypeOK'
    BY <1>a, <1>9 DEF vars, RelayTypeOK
  <2>2. MessageInv'
    <3>1. Made(sent, translator)' = Made(sent, translator)
      BY <1>9 DEF vars, Made
    <3>2. LegalSoFar(Made(sent, translator))' <=> LegalSoFar(Made(sent, translator))
      BY <3>1 DEF LegalSoFar
    <3>3. Describes(translator, Made(sent, translator))'
             <=> Describes(translator, Made(sent, translator))
      BY <1>9, <3>1 DEF vars, Describes, ToolBlocks, OpenedTools, Started
    <3>4. QED
      BY <1>a, <1>9, <3>1, <3>2, <3>3 DEF vars, MessageInv, Anthropic
  <2>3. BoundsInv'
    BY <1>a, <1>9 DEF vars, BoundsInv, Anthropic, BlocksBounded, OpenedTools
  <2>4. RecordInv'
    BY <1>a, <1>c, <1>9 DEF vars, RecordInv, Anthropic
  <2>5. QED
    BY <2>1, <2>2, <2>3, <2>4 DEF Inductive
<1>10. QED
  BY <1>1, <1>2, <1>3, <1>4, <1>5, <1>6, <1>7, <1>8, <1>9 DEF Next

\* What the client received and what the store recorded follow from one
\* invariant of service.py:693, the streamed half of the exchange.
THEOREM RelayInvariant == Spec => []Inductive
<1>1. Init => Inductive
  BY InductiveInit
<1>2. Inductive /\ [Next]_vars => Inductive'
  BY InductiveStep
<1>3. QED
  BY <1>1, <1>2, PTL DEF Spec

\* service.py:718: the store and the pool are told of a success only when the
\* stream ended undisturbed and carried no error, and of a failure only for one
\* of these reasons - for streams of any length, cut anywhere.
THEOREM RecordsTruthfully == Spec => []RelayInv
<1>1. Inductive => RelayInv
  BY DEF Inductive, RecordInv, RelayInv, RecordedTruthfully, RelayTypeOK, ErrorSeen, HasError
<1>2. QED
  BY <1>1, RelayInvariant, PTL

\* translate_anthropic.py:289: whatever frames arrive and wherever the client
\* leaves, the events it got are a prefix of a legal Anthropic message: blocks
\* are numbered from 0, filled while open and stopped once, a text block is closed
\* before a tool block opens, and the message ends when every block has.
THEOREM LegalMessage == Spec => MessageSpec
<1> DEFINE received == IF dialect = "anthropic" THEN sent ELSE <<>>
<1>1. Init => Message!Init
  BY DEF Init, Message!Init
<1>2. Inductive /\ [Next]_vars => [Message!Next]_received
  <2> SUFFICES ASSUME Inductive, [Next]_vars, received' # received
               PROVE  Message!Next
    OBVIOUS
  <2>1. Yield /\ Anthropic
    <3>1. sent' = sent /\ dialect' = dialect => received' = received
      OBVIOUS
    <3>2. ~Anthropic /\ dialect' = dialect => received' = received
      BY DEF Anthropic
    <3> HIDE DEF received
    <3>3. Yield \/ (sent' = sent /\ dialect' = dialect)
      BY DEF Next, vars, Arrives, Completes, Interrupted, Ends, Disconnects, Returns, Finishes
    <3>4. Yield => dialect' = dialect
      BY DEF Yield
    <3>5. QED
      BY <3>1, <3>2, <3>3, <3>4
  <2>2. /\ sent \in Seq(EventSet) /\ translator.out \in Seq(EventSet)
        /\ translator.out # <<>> /\ sent' = Append(sent, Head(translator.out))
        /\ LegalSoFar(Made(sent, translator)) /\ dialect' = dialect
    BY <2>1, TranslatorParts DEF Inductive, RelayTypeOK, MessageInv, Yield
  <2> DEFINE e == Head(translator.out)
             n == Len(sent) + 1
  <2>3. n \in DOMAIN Made(sent, translator) /\ n - 1 = Len(sent)
        /\ SubSeq(Made(sent, translator), 1, n - 1) = sent
        /\ Made(sent, translator)[n] = e
    BY <2>2, Taken DEF Made
  <2>4. Message!Legal(sent, e)
    BY <2>2, <2>3 DEF LegalSoFar
  <2>5. /\ received = sent /\ received' = sent'
    BY <2>1, <2>2 DEF Anthropic
  <2>6. sent' # <<>> /\ sent'[Len(sent')] = e
    BY <2>2, Taken
  <2> HIDE DEF e
  <2>7. QED
    BY <2>2, <2>4, <2>5, <2>6 DEF Message!Next, e
<1>3. QED
  BY <1>1, <1>2, RelayInvariant, PTL DEF Spec, MessageSpec, Message!Spec

-----------------------------------------------------------------------------
(* Sequences of sequences.                                                 *)

\* Induction over the set of numbers up to n for which a fact holds.
LEMMA UpTo ==
  ASSUME NEW n \in Nat, NEW T, 0 \in T,
         \A k \in 1..n : k - 1 \in T => k \in T
  PROVE  \A k \in 0..n : k \in T
<1> DEFINE Bad == {k \in 0..n : k \notin T}
<1>1. SUFFICES ASSUME Bad # {} PROVE FALSE
  OBVIOUS
<1>2. PICK k \in Bad : \A j \in Bad : k <= j
  <2>1. Bad \in SUBSET Nat
    OBVIOUS
  <2>2. QED
    BY <1>1, <2>1, LeastNatural
<1>3. k \in 1..n /\ k - 1 \in 0..n /\ ~(k <= k - 1)
  BY <1>2
<1>4. QED
  BY <1>2, <1>3

\* The elements of s up to the k-th, and one more.
LEMMA PrefixStep ==
  ASSUME NEW S, NEW s \in Seq(S), NEW k \in 1..Len(s)
  PROVE  /\ SubSeq(s, 1, k - 1) \in Seq(S)
         /\ s[k] \in S
         /\ SubSeq(s, 1, k) = Append(SubSeq(s, 1, k - 1), s[k])
  OBVIOUS

LEMMA PrefixEnds ==
  ASSUME NEW S, NEW s \in Seq(S)
  PROVE  SubSeq(s, 1, 0) = <<>> /\ SubSeq(s, 1, Len(s)) = s /\ Len(s) \in Nat
  OBVIOUS

LEMMA FlattenUnfolds ==
  ASSUME NEW S, NEW seqs \in Seq(Seq(S)), seqs # <<>>
  PROVE  \E flat : /\ FlattenSeq(seqs) = flat[Len(seqs)]
                   /\ flat[1] = seqs[1]
                   /\ \A k \in 2..Len(seqs) : flat[k] = flat[k - 1] \o seqs[k]
<1> DEFINE Unfolds(g, m) ==
             g = [k \in 1..m |-> IF k = 1 THEN seqs[k] ELSE g[k - 1] \o seqs[k]]
           Entries(g, m) == /\ g = [k \in 1..m |-> g[k]]
                            /\ g[1] = seqs[1]
                            /\ \A k \in 2..m : g[k] = g[k - 1] \o seqs[k]
<1>1. ASSUME NEW m \in Nat, m >= 1, NEW g
      PROVE  Unfolds(g, m) <=> Entries(g, m)
  <2>1. ASSUME Unfolds(g, m) PROVE Entries(g, m)
    <3>1. \A k \in 1..m : g[k] = IF k = 1 THEN seqs[k] ELSE g[k - 1] \o seqs[k]
      BY <2>1
    <3>2. g = [k \in 1..m |-> g[k]]
      BY <2>1
    <3>3. 1 \in 1..m /\ \A k \in 2..m : k \in 1..m /\ k # 1
      BY <1>1
    <3>4. QED
      BY <3>1, <3>2, <3>3
  <2>2. ASSUME Entries(g, m) PROVE Unfolds(g, m)
    <3> DEFINE r == [k \in 1..m |-> IF k = 1 THEN seqs[k] ELSE g[k - 1] \o seqs[k]]
    <3>1. ASSUME NEW k \in 1..m PROVE g[k] = r[k]
      <4>1. k = 1 \/ k \in 2..m
        OBVIOUS
      <4>2. QED
        BY <2>2, <4>1
    <3>2. g = r
      BY <2>2, <3>1
    <3>3. QED
      BY <3>2
  <2>3. QED
    BY <2>1, <2>2
<1>2. \E g : Entries(g, 1)
  <2>1. Entries([k \in 1..1 |-> seqs[1]], 1)
    OBVIOUS
  <2>2. QED
    BY <2>1
<1>3. ASSUME NEW m \in Nat, m >= 1, NEW g, Entries(g, m)
      PROVE  \E h : Entries(h, m + 1)
  <2> DEFINE x == g[m] \o seqs[m + 1]
             h == [k \in 1..(m + 1) |-> IF k <= m THEN g[k] ELSE x]
  <2> HIDE DEF x
  <2>1. \A k \in 1..m : h[k] = g[k]
    OBVIOUS
  <2>2. h[m + 1] = x /\ h[m] = g[m]
    BY <1>3
  <2>3. h = [k \in 1..(m + 1) |-> h[k]]
    OBVIOUS
  <2> HIDE DEF h
  <2>4. \A k \in 2..(m + 1) : h[k] = h[k - 1] \o seqs[k]
    <3>1. ASSUME NEW k \in 2..m PROVE h[k] = h[k - 1] \o seqs[k]
      <4>1. k \in 1..m /\ k - 1 \in 1..m
        OBVIOUS
      <4>2. QED
        BY <1>3, <2>1, <4>1
    <3>2. h[m + 1] = h[m] \o seqs[m + 1] /\ (m + 1) - 1 = m
      BY <2>2 DEF x
    <3>3. \A k \in 2..(m + 1) : k \in 2..m \/ k = m + 1
      OBVIOUS
    <3>4. QED
      BY <3>1, <3>2, <3>3
  <2>5. h[1] = seqs[1]
    BY <1>3, <2>1
  <2>6. Entries(h, m + 1)
    BY <2>3, <2>4, <2>5
  <2>7. QED
    BY <2>6
<1> HIDE DEF Entries, Unfolds
<1>4. Len(seqs) \in Nat /\ Len(seqs) >= 1
  OBVIOUS
<1>5. \E g : Entries(g, Len(seqs))
  <2> DEFINE T == {m \in Nat : m = 0 \/ \E g : Entries(g, m)}
  <2>1. 0 \in T
    OBVIOUS
  <2>2. ASSUME NEW k \in 1..Len(seqs), k - 1 \in T PROVE k \in T
    <3>1. k - 1 \in Nat /\ (k - 1) + 1 = k /\ k \in Nat /\ (k = 1 \/ k - 1 >= 1)
      OBVIOUS
    <3>2. CASE k = 1
      BY <1>2, <3>2
    <3>3. CASE k - 1 >= 1
      <4>1. PICK g : Entries(g, k - 1)
        BY <2>2, <3>3
      <4>2. QED
        BY <1>3, <3>1, <3>3, <4>1
    <3>4. QED
      BY <3>1, <3>2, <3>3
  <2> HIDE DEF T
  <2>3. \A k \in 0..Len(seqs) : k \in T
    BY <1>4, <2>1, <2>2, UpTo
  <2>4. QED
    BY <1>4, <2>3 DEF T
<1> DEFINE flat == CHOOSE g : Unfolds(g, Len(seqs))
<1>6. Unfolds(flat, Len(seqs))
  BY <1>1, <1>4, <1>5
<1>7. FlattenSeq(seqs) = flat[Len(seqs)]
  BY <1>4 DEF FlattenSeq, Unfolds
<1> HIDE DEF flat
<1>8. Entries(flat, Len(seqs))
  BY <1>1, <1>4, <1>6
<1>9. QED
  BY <1>7, <1>8 DEF Entries

LEMMA AppendParts ==
  ASSUME NEW S, NEW s \in Seq(S), NEW x \in S
  PROVE  /\ Len(s) \in Nat
         /\ Append(s, x) \in Seq(S) /\ Append(s, x) # <<>>
         /\ Len(Append(s, x)) = Len(s) + 1 /\ Append(s, x)[Len(s) + 1] = x
         /\ \A k \in 1..Len(s) : Append(s, x)[k] = s[k]
  OBVIOUS

LEMMA FlattenNothing == FlattenSeq(<<>>) = <<>>
  BY DEF FlattenSeq

\* One more sequence comes after the others.
LEMMA FlattenAppend ==
  ASSUME NEW S, NEW seqs \in Seq(Seq(S)), NEW x \in Seq(S)
  PROVE  FlattenSeq(Append(seqs, x)) = FlattenSeq(seqs) \o x
<1> DEFINE n == Len(seqs)
           u == Append(seqs, x)
<1>1. /\ n \in Nat /\ u \in Seq(Seq(S)) /\ u # <<>> /\ Len(u) = n + 1 /\ u[n + 1] = x
      /\ \A k \in 1..n : u[k] = seqs[k]
  BY AppendParts
<1>2. PICK g : /\ FlattenSeq(u) = g[Len(u)]
               /\ g[1] = u[1]
               /\ \A k \in 2..Len(u) : g[k] = g[k - 1] \o u[k]
  BY <1>1, FlattenUnfolds
<1>3. CASE n = 0
  <2>1. seqs = <<>> /\ FlattenSeq(seqs) = <<>>
    BY <1>3, FlattenNothing
  <2>2. g[Len(u)] = x
    BY <1>1, <1>2, <1>3
  <2>3. <<>> \o x = x
    OBVIOUS
  <2>4. QED
    BY <1>2, <2>1, <2>2, <2>3
<1>4. CASE n # 0
  <2>1. seqs # <<>>
    BY <1>4
  <2>2. PICK f : /\ FlattenSeq(seqs) = f[n]
                 /\ f[1] = seqs[1]
                 /\ \A k \in 2..n : f[k] = f[k - 1] \o seqs[k]
    BY <2>1, FlattenUnfolds
  <2> HIDE DEF n, u
  <2>3. \A k \in 2..(n + 1) : g[k] = g[k - 1] \o u[k]
    BY <1>1, <1>2
  <2> DEFINE T == {k \in 0..n : k = 0 \/ f[k] = g[k]}
  <2>4. 0 \in T
    BY <1>1
  <2>5. ASSUME NEW k \in 1..n, k - 1 \in T PROVE k \in T
    <3>1. k \in 0..n /\ (k = 1 \/ k \in 2..n) /\ u[k] = seqs[k]
      BY <1>1
    <3>2. CASE k = 1
      BY <1>2, <2>2, <3>1, <3>2
    <3>3. CASE k \in 2..n
      <4>1. k \in 2..(n + 1) /\ k - 1 # 0
        BY <1>1, <3>3
      <4>2. f[k - 1] = g[k - 1]
        BY <2>5, <4>1
      <4>3. QED
        BY <2>2, <2>3, <3>1, <3>3, <4>1, <4>2
    <3>4. QED
      BY <3>1, <3>2, <3>3
  <2> HIDE DEF T
  <2>6. \A k \in 0..n : k \in T
    BY <1>1, <2>4, <2>5, UpTo
  <2>7. f[n] = g[n]
    BY <1>1, <1>4, <2>6 DEF T
  <2>8. n + 1 \in 2..(n + 1) /\ (n + 1) - 1 = n
    BY <1>1, <1>4
  <2>9. g[n + 1] = f[n] \o x
    BY <1>1, <2>3, <2>7, <2>8
  <2>10. QED
    BY <1>1, <1>2, <2>2, <2>9 DEF u
<1>5. QED
  BY <1>3, <1>4

LEMMA FlattenTyped ==
  ASSUME NEW S, NEW seqs \in Seq(Seq(S))
  PROVE  FlattenSeq(seqs) \in Seq(S)
<1> DEFINE Q == Seq(S)
<1>1. /\ Len(seqs) \in Nat /\ <<>> \in Q
      /\ \A k \in 1..Len(seqs) : seqs[k] \in Q
      /\ \A p, q \in Q : p \o q \in Q
  OBVIOUS
<1>2. CASE seqs = <<>>
  BY <1>1, <1>2, FlattenNothing
<1>3. CASE seqs # <<>>
  <2>1. PICK flat : /\ FlattenSeq(seqs) = flat[Len(seqs)]
                    /\ flat[1] = seqs[1]
                    /\ \A k \in 2..Len(seqs) : flat[k] = flat[k - 1] \o seqs[k]
    BY <1>3, FlattenUnfolds
  <2>2. Len(seqs) >= 1
    BY <1>3
  <2> HIDE DEF Q
  <2> DEFINE T == {k \in 0..Len(seqs) : k = 0 \/ flat[k] \in Q}
  <2>3. 0 \in T
    BY <1>1
  <2>4. ASSUME NEW k \in 1..Len(seqs), k - 1 \in T PROVE k \in T
    <3>1. k \in 0..Len(seqs) /\ (k = 1 \/ k \in 2..Len(seqs)) /\ seqs[k] \in Q
      BY <1>1
    <3>2. CASE k = 1
      BY <2>1, <3>1, <3>2
    <3>3. CASE k \in 2..Len(seqs)
      <4>1. flat[k - 1] \in Q
        BY <2>4, <3>3
      <4>2. flat[k] \in Q
        BY <1>1, <2>1, <3>1, <3>3, <4>1
      <4>3. QED
        BY <3>1, <4>2
    <3>4. QED
      BY <3>1, <3>2, <3>3
  <2> HIDE DEF T
  <2>5. \A k \in 0..Len(seqs) : k \in T
    BY <1>1, <2>3, <2>4, UpTo
  <2>6. flat[Len(seqs)] \in Q
    BY <1>1, <2>2, <2>5 DEF T
  <2>7. QED
    BY <2>1, <2>6 DEF Q
<1>4. QED
  BY <1>2, <1>3

\* A function of the positions of a sequence is one.
LEMMA MapTyped ==
  ASSUME NEW S, NEW R, NEW s \in Seq(S), NEW f \in [DOMAIN s -> R]
  PROVE  /\ f \in Seq(R) /\ Len(f) = Len(s) /\ DOMAIN f = 1..Len(s)
         /\ DOMAIN s = 1..Len(s) /\ Len(s) \in Nat
  OBVIOUS

\* A sequence is flattened entry by entry: the last comes last.
LEMMA FlattenExtends ==
  ASSUME NEW R, NEW m \in Nat, NEW g \in [1..m -> Seq(R)],
         NEW h \in [1..(m + 1) -> Seq(R)], \A k \in 1..m : h[k] = g[k]
  PROVE  /\ FlattenSeq(g) \in Seq(R)
         /\ FlattenSeq(h) = FlattenSeq(g) \o h[m + 1]
<1> DEFINE Q == Seq(R)
           x == h[m + 1]
           a == Append(g, x)
<1>1. x \in Q
  OBVIOUS
<1>2. /\ g \in Seq(Q) /\ a \in Seq(Q)
      /\ Len(a) = m + 1 /\ a[m + 1] = x
      /\ \A k \in 1..m : a[k] = g[k]
  <2> HIDE DEF Q, x
  <2>1. g \in Seq(Q) /\ Len(g) = m
    BY DEF Q
  <2>2. QED
    BY <1>1, <2>1, AppendParts
<1>3. h = a
  <2> HIDE DEF a, Q
  <2>1. a = [k \in 1..(m + 1) |-> a[k]]
    BY <1>2
  <2>2. h = [k \in 1..(m + 1) |-> h[k]]
    BY DEF Q
  <2>3. ASSUME NEW k \in 1..(m + 1) PROVE h[k] = a[k]
    <3>1. k \in 1..m \/ k = m + 1
      OBVIOUS
    <3>2. QED
      BY <1>2, <3>1
  <2>4. QED
    BY <2>1, <2>2, <2>3
<1> HIDE DEF x, a, Q
<1>4. FlattenSeq(a) = FlattenSeq(g) \o x /\ FlattenSeq(g) \in Q
  BY <1>1, <1>2, FlattenAppend, FlattenTyped DEF a, Q
<1>5. QED
  BY <1>3, <1>4 DEF x, Q

-----------------------------------------------------------------------------
(* What frames and events say, one more at a time.                         *)

\* What one frame adds to the text, and one call to the arguments of a tool.
Spoken(f, n, sources) == IF f.text \in sources THEN <<n>> ELSE <<>>
Passed(call, i, n) == IF call.tool = i /\ call.args THEN <<n>> ELSE <<>>

\* What one event adds to the deltas for the blocks in bs.
Carried(e, kind, bs) ==
    IF e.type = "block_delta" /\ e.kind = kind /\ e.block \in bs THEN <<e.n>> ELSE <<>>

LEMMA Short ==
  ASSUME NEW n \in Nat
  PROVE  <<n>> \in Seq(Nat) /\ <<>> \in Seq(Nat)
  OBVIOUS

LEMMA Longer ==
  ASSUME NEW S, NEW s \in Seq(S), NEW x \in S
  PROVE  /\ Len(s) \in Nat /\ Len(s) + 1 \in Nat
         /\ DOMAIN s = 1..Len(s)
         /\ DOMAIN Append(s, x) = 1..(Len(s) + 1)
         /\ Append(s, x)[Len(s) + 1] = x
         /\ \A k \in 1..Len(s) : Append(s, x)[k] = s[k]
  OBVIOUS

LEMMA TextTyped ==
  ASSUME NEW S, NEW fs \in Seq(S), NEW sources
  PROVE  TextFrom(fs, sources) \in Seq(Nat)
<1> DEFINE g == [n \in DOMAIN fs |-> Spoken(fs[n], n, sources)]
           Q == Seq(Nat)
<1>1. \A n \in DOMAIN fs : n \in Nat
  OBVIOUS
<1>2. \A a : \A n \in Nat : Spoken(a, n, sources) \in Q
  <2>1. ASSUME NEW a, NEW n \in Nat PROVE Spoken(a, n, sources) \in Seq(Nat)
    BY Short DEF Spoken
  <2>2. QED
    BY <2>1
<1> HIDE DEF Q
<1>3. g \in [DOMAIN fs -> Q]
  BY <1>1, <1>2
<1>4. g \in Seq(Q)
  BY <1>3, MapTyped
<1>5. TextFrom(fs, sources) = FlattenSeq(g)
  BY DEF TextFrom, Spoken
<1>6. QED
  BY <1>4, <1>5, FlattenTyped DEF Q

LEMMA TextAppend ==
  ASSUME NEW S, NEW fs \in Seq(S), NEW f \in S, NEW sources
  PROVE  /\ TextFrom(fs, sources) \in Seq(Nat)
         /\ TextFrom(Append(fs, f), sources)
               = TextFrom(fs, sources) \o Spoken(f, Len(fs) + 1, sources)
<1> DEFINE m == Len(fs)
           u == Append(fs, f)
           Q == Seq(Nat)
           g == [n \in 1..m |-> Spoken(fs[n], n, sources)]
           h == [n \in 1..(m + 1) |-> Spoken(u[n], n, sources)]
<1>1. /\ m \in Nat /\ DOMAIN fs = 1..m /\ DOMAIN u = 1..(m + 1) /\ u[m + 1] = f
      /\ \A k \in 1..m : u[k] = fs[k]
  BY Longer
<1> HIDE DEF m, u
<1>2. \A a : \A n \in Nat : Spoken(a, n, sources) \in Q
  <2>1. ASSUME NEW a, NEW n \in Nat PROVE Spoken(a, n, sources) \in Seq(Nat)
    <3>1. <<n>> \in Seq(Nat) /\ <<>> \in Seq(Nat)
      OBVIOUS
    <3>2. QED
      BY <3>1 DEF Spoken
  <2>2. QED
    BY <2>1
<1>3. TextFrom(fs, sources) = FlattenSeq(g) /\ TextFrom(u, sources) = FlattenSeq(h)
  BY <1>1 DEF TextFrom, Spoken
<1> HIDE DEF Q
<1>4. g \in [1..m -> Q] /\ h \in [1..(m + 1) -> Q]
  BY <1>1, <1>2
<1>5. \A k \in 1..m : h[k] = g[k]
  BY <1>1
<1>6. h[m + 1] = Spoken(f, m + 1, sources)
  BY <1>1
<1> HIDE DEF g, h
<1>7. FlattenSeq(g) \in Q /\ FlattenSeq(h) = FlattenSeq(g) \o h[m + 1]
  <2>1. m \in Nat /\ g \in [1..m -> Seq(Nat)] /\ h \in [1..(m + 1) -> Seq(Nat)]
    BY <1>1, <1>4 DEF Q
  <2>2. QED
    BY <2>1, <1>5, FlattenExtends DEF Q
<1>8. QED
  BY <1>3, <1>6, <1>7 DEF m, u, Q

LEMMA GivenTyped ==
  ASSUME NEW S, NEW calls \in Seq(S), NEW i, NEW n \in Nat
  PROVE  Given(calls, i, n) \in Seq(Nat)
<1> DEFINE g == [k \in DOMAIN calls |-> Passed(calls[k], i, n)]
           Q == Seq(Nat)
<1>1. \A a : Passed(a, i, n) \in Q
  <2>1. <<n>> \in Seq(Nat) /\ <<>> \in Seq(Nat)
    OBVIOUS
  <2>2. QED
    BY <2>1 DEF Passed
<1> HIDE DEF Q
<1>2. g \in [DOMAIN calls -> Q]
  BY <1>1
<1>3. g \in Seq(Q)
  BY <1>2, MapTyped
<1>4. Given(calls, i, n) = FlattenSeq(g)
  BY DEF Given, Passed
<1>5. QED
  BY <1>3, <1>4, FlattenTyped DEF Q

LEMMA GivenAppend ==
  ASSUME NEW S, NEW calls \in Seq(S), NEW call \in S, NEW i, NEW n \in Nat
  PROVE  /\ Given(calls, i, n) \in Seq(Nat)
         /\ Given(Append(calls, call), i, n) = Given(calls, i, n) \o Passed(call, i, n)
<1> DEFINE m == Len(calls)
           u == Append(calls, call)
           Q == Seq(Nat)
           g == [k \in 1..m |-> Passed(calls[k], i, n)]
           h == [k \in 1..(m + 1) |-> Passed(u[k], i, n)]
<1>1. /\ m \in Nat /\ DOMAIN calls = 1..m /\ DOMAIN u = 1..(m + 1) /\ u[m + 1] = call
      /\ \A k \in 1..m : u[k] = calls[k]
  BY Longer
<1> HIDE DEF m, u
<1>2. \A a : Passed(a, i, n) \in Q
  <2>1. <<n>> \in Seq(Nat) /\ <<>> \in Seq(Nat)
    OBVIOUS
  <2>2. QED
    BY <2>1 DEF Passed
<1>3. Given(calls, i, n) = FlattenSeq(g) /\ Given(u, i, n) = FlattenSeq(h)
  BY <1>1 DEF Given, Passed
<1> HIDE DEF Q
<1>4. g \in [1..m -> Q] /\ h \in [1..(m + 1) -> Q]
  BY <1>1, <1>2
<1>5. \A k \in 1..m : h[k] = g[k]
  BY <1>1
<1>6. h[m + 1] = Passed(call, i, n)
  BY <1>1
<1> HIDE DEF g, h
<1>7. FlattenSeq(g) \in Q /\ FlattenSeq(h) = FlattenSeq(g) \o h[m + 1]
  <2>1. m \in Nat /\ g \in [1..m -> Seq(Nat)] /\ h \in [1..(m + 1) -> Seq(Nat)]
    BY <1>1, <1>4 DEF Q
  <2>2. QED
    BY <2>1, <1>5, FlattenExtends DEF Q
<1>8. QED
  BY <1>3, <1>6, <1>7 DEF m, u, Q

LEMMA ArgumentsAppend ==
  ASSUME NEW fs \in Seq(Frames), NEW f \in Frames, NEW i
  PROVE  /\ ArgumentsOf(fs, i) \in Seq(Nat)
         /\ ArgumentsOf(Append(fs, f), i)
               = ArgumentsOf(fs, i) \o Given(f.calls, i, Len(fs) + 1)
<1> DEFINE m == Len(fs)
           u == Append(fs, f)
           Q == Seq(Nat)
           g == [n \in 1..m |-> Given(fs[n].calls, i, n)]
           h == [n \in 1..(m + 1) |-> Given(u[n].calls, i, n)]
<1>1. /\ m \in Nat /\ DOMAIN fs = 1..m /\ DOMAIN u = 1..(m + 1) /\ u[m + 1] = f
      /\ \A k \in 1..m : u[k] = fs[k] /\ fs[k] \in Frames
  BY Longer
<1> HIDE DEF m, u
<1>2. \A a \in Frames : \A n \in Nat : Given(a.calls, i, n) \in Q
  <2>1. ASSUME NEW a \in Frames, NEW n \in Nat PROVE Given(a.calls, i, n) \in Seq(Nat)
    <3>1. a \in FrameSet
      BY RelayAssumption
    <3>2. a.calls \in Seq([tool : ToolIndexes, args : BOOLEAN])
      BY <3>1 DEF FrameSet
    <3>3. Given(a.calls, i, n) \in Seq(Nat)
      BY <3>2, GivenTyped
    <3>4. QED
      BY <3>3
  <2>2. QED
    BY <2>1
<1>3. ArgumentsOf(fs, i) = FlattenSeq(g) /\ ArgumentsOf(u, i) = FlattenSeq(h)
  BY <1>1 DEF ArgumentsOf
<1> HIDE DEF Q
<1>4. g \in [1..m -> Q] /\ h \in [1..(m + 1) -> Q]
  BY <1>1, <1>2
<1>5. \A k \in 1..m : h[k] = g[k]
  BY <1>1
<1>6. h[m + 1] = Given(f.calls, i, m + 1)
  BY <1>1
<1> HIDE DEF g, h
<1>7. FlattenSeq(g) \in Q /\ FlattenSeq(h) = FlattenSeq(g) \o h[m + 1]
  <2>1. m \in Nat /\ g \in [1..m -> Seq(Nat)] /\ h \in [1..(m + 1) -> Seq(Nat)]
    BY <1>1, <1>4 DEF Q
  <2>2. QED
    BY <2>1, <1>5, FlattenExtends DEF Q
<1>8. QED
  BY <1>3, <1>6, <1>7 DEF m, u, Q

LEMMA DeltasAppend ==
  ASSUME NEW s \in Seq(EventSet), NEW e \in EventSet, NEW kind, NEW bs
  PROVE  /\ DeltasOf(s, kind, bs) \in Seq(Nat)
         /\ DeltasOf(Append(s, e), kind, bs) = DeltasOf(s, kind, bs) \o Carried(e, kind, bs)
<1> DEFINE m == Len(s)
           u == Append(s, e)
           Q == Seq(Nat)
           g == [k \in 1..m |-> Carried(s[k], kind, bs)]
           h == [k \in 1..(m + 1) |-> Carried(u[k], kind, bs)]
<1>1. /\ m \in Nat /\ DOMAIN s = 1..m /\ DOMAIN u = 1..(m + 1) /\ u[m + 1] = e
      /\ \A k \in 1..m : u[k] = s[k] /\ s[k] \in EventSet
  BY Longer
<1> HIDE DEF m, u
<1>2. \A a \in EventSet : Carried(a, kind, bs) \in Q
  <2>1. ASSUME NEW a \in EventSet PROVE Carried(a, kind, bs) \in Seq(Nat)
    <3>1. a.n \in Nat
      BY BlockNumbers DEF EventSet
    <3>2. <<a.n>> \in Seq(Nat) /\ <<>> \in Seq(Nat)
      BY <3>1
    <3>3. QED
      BY <3>2 DEF Carried
  <2>2. QED
    BY <2>1
<1>3. DeltasOf(s, kind, bs) = FlattenSeq(g) /\ DeltasOf(u, kind, bs) = FlattenSeq(h)
  BY <1>1 DEF DeltasOf, Carried
<1> HIDE DEF Q
<1>4. g \in [1..m -> Q] /\ h \in [1..(m + 1) -> Q]
  BY <1>1, <1>2
<1>5. \A k \in 1..m : h[k] = g[k]
  BY <1>1
<1>6. h[m + 1] = Carried(e, kind, bs)
  BY <1>1
<1> HIDE DEF g, h
<1>7. FlattenSeq(g) \in Q /\ FlattenSeq(h) = FlattenSeq(g) \o h[m + 1]
  <2>1. m \in Nat /\ g \in [1..m -> Seq(Nat)] /\ h \in [1..(m + 1) -> Seq(Nat)]
    BY <1>1, <1>4 DEF Q
  <2>2. QED
    BY <2>1, <1>5, FlattenExtends DEF Q
<1>8. QED
  BY <1>3, <1>6, <1>7 DEF m, u, Q

LEMMA NothingSaid ==
  /\ \A sources : TextFrom(<<>>, sources) = <<>>
  /\ \A i, n : Given(<<>>, i, n) = <<>>
  /\ \A i : ArgumentsOf(<<>>, i) = <<>>
  /\ \A kind, bs : DeltasOf(<<>>, kind, bs) = <<>>
  /\ Called(<<>>) = {}
  /\ LastReason(<<>>) = "none"
<1>1. DOMAIN <<>> = {}
  OBVIOUS
<1>2. ASSUME NEW g, g = [k \in {} |-> g[k]] PROVE FlattenSeq(g) = <<>>
  <2>1. g = <<>>
    BY <1>2
  <2>2. QED
    BY <2>1, FlattenNothing
<1>3. \A sources : TextFrom(<<>>, sources) = <<>>
  BY <1>1, <1>2 DEF TextFrom
<1>4. \A i, n : Given(<<>>, i, n) = <<>>
  BY <1>1, <1>2 DEF Given
<1>5. \A i : ArgumentsOf(<<>>, i) = <<>>
  BY <1>1, <1>2 DEF ArgumentsOf
<1>6. \A kind, bs : DeltasOf(<<>>, kind, bs) = <<>>
  BY <1>1, <1>2 DEF DeltasOf
<1>7. Called(<<>>) = {} /\ LastReason(<<>>) = "none"
  BY <1>1 DEF Called, LastReason
<1>8. QED
  BY <1>3, <1>4, <1>5, <1>6, <1>7

\* What one more frame calls.
LEMMA CalledAppend ==
  ASSUME NEW fs \in Seq(Frames), NEW f \in Frames
  PROVE  Called(Append(fs, f)) =
            Called(fs) \cup {i \in ToolIndexes : \E k \in DOMAIN f.calls : f.calls[k].tool = i}
<1> DEFINE u == Append(fs, f)
<1>1. /\ DOMAIN fs = 1..Len(fs) /\ DOMAIN u = 1..(Len(fs) + 1) /\ u[Len(fs) + 1] = f
      /\ \A k \in 1..Len(fs) : u[k] = fs[k]
      /\ Len(fs) \in Nat
  BY Longer
<1> HIDE DEF u
<1>2. \A n \in DOMAIN u : n \in DOMAIN fs \/ n = Len(fs) + 1
  BY <1>1
<1>3. Len(fs) + 1 \in DOMAIN u /\ \A n \in DOMAIN fs : n \in DOMAIN u /\ u[n] = fs[n]
  BY <1>1
<1>4. QED
  BY <1>1, <1>2, <1>3 DEF Called, u

LEMMA Greatest ==
  ASSUME NEW m \in Nat, NEW T \in SUBSET (1..m), T # {}
  PROVE  Max(T) \in T /\ \A k \in T : k <= Max(T)
<1> DEFINE D == {m - k : k \in T}
<1>1. D \in SUBSET Nat /\ D # {}
  OBVIOUS
<1>2. PICK d \in D : \A c \in D : d <= c
  BY <1>1, LeastNatural
<1>3. PICK g \in T : d = m - g
  BY <1>2
<1>4. \A k \in T : g >= k
  <2>1. ASSUME NEW k \in T PROVE g >= k
    <3>1. d <= m - k
      BY <1>2
    <3>2. k \in 1..m /\ g \in 1..m
      OBVIOUS
    <3>3. QED
      BY <1>3, <3>1, <3>2
  <2>2. QED
    BY <2>1
<1>5. Max(T) \in T /\ \A k \in T : Max(T) >= k
  BY <1>4 DEF Max
<1>6. QED
  <2>1. \A k \in T : k \in 1..m
    OBVIOUS
  <2>2. QED
    BY <1>5, <2>1

LEMMA ReasonAppend ==
  ASSUME NEW fs \in Seq(Frames), NEW f \in Frames
  PROVE  LastReason(Append(fs, f)) = IF f.finish = "none" THEN LastReason(fs) ELSE f.finish
<1> DEFINE m == Len(fs)
           u == Append(fs, f)
           T == {n \in DOMAIN fs : fs[n].finish # "none"}
           U == {n \in DOMAIN u : u[n].finish # "none"}
<1>1. /\ m \in Nat /\ DOMAIN fs = 1..m /\ DOMAIN u = 1..(m + 1) /\ u[m + 1] = f
      /\ \A k \in 1..m : u[k] = fs[k]
  BY Longer
<1>2. LastReason(fs) = IF T = {} THEN "none" ELSE fs[Max(T)].finish
  BY DEF LastReason
<1>3. LastReason(u) = IF U = {} THEN "none" ELSE u[Max(U)].finish
  BY DEF LastReason
<1> HIDE DEF m, u
<1>4. T \in SUBSET (1..m) /\ U \in SUBSET (1..(m + 1)) /\ m + 1 \in Nat
  BY <1>1
<1>5. CASE f.finish = "none"
  <2>1. T = U
    <3>1. ASSUME NEW n \in U PROVE n \in T
      <4>1. n \in 1..m \/ n = m + 1
        BY <1>1
      <4>2. QED
        BY <1>1, <1>5, <4>1
    <3>2. ASSUME NEW n \in T PROVE n \in U
      BY <1>1
    <3>3. QED
      BY <3>1, <3>2
  <2> HIDE DEF T, U
  <2>2. T # {} => u[Max(T)] = fs[Max(T)]
    <3>1. T # {} => Max(T) \in 1..m
      BY <1>1, <1>4, Greatest
    <3>2. QED
      BY <1>1, <3>1
  <2>3. QED
    BY <1>2, <1>3, <1>5, <2>1, <2>2 DEF u
<1>6. CASE f.finish # "none"
  <2>1. m + 1 \in U
    BY <1>1, <1>6
  <2> HIDE DEF T, U
  <2>2. Max(U) \in 1..(m + 1) /\ m + 1 <= Max(U)
    BY <1>4, <2>1, Greatest
  <2>3. Max(U) = m + 1
    BY <1>1, <2>2
  <2>4. QED
    BY <1>1, <1>3, <1>6, <2>1, <2>3 DEF u
<1>7. QED
  BY <1>5, <1>6

-----------------------------------------------------------------------------
(* The content of the message.                                             *)

\* The message s carries this text, and these arguments for each tool that the
\* translator has opened; no two tools share a block, and blocks not yet started
\* carry no arguments.
Tells(t, s, texts, args) ==
    /\ DeltasOf(s, "text", Indexes) = texts
    /\ \A i \in OpenedTools(t) : /\ DeltasOf(s, "tool", {t.tools[i]}) = args[i]
                                 /\ t.tools[i] < t.next
    /\ \A i \in ToolIndexes \ OpenedTools(t) : args[i] = <<>>
    /\ \A i, j \in OpenedTools(t) : t.tools[i] = t.tools[j] => i = j
    /\ \A b \in Indexes : b >= t.next => DeltasOf(s, "tool", {b}) = <<>>

Spoke(fs) == TextFrom(fs, {"content", "refusal"})
Arguments(fs) == [i \in ToolIndexes |-> ArgumentsOf(fs, i)]

\* The message s, and the translator t that makes it, follow the frames fs.
Follows(t, s, fs) ==
    /\ Tells(t, s, Spoke(fs), Arguments(fs))
    /\ OpenedTools(t) = Called(fs)
    /\ t.finish = LastReason(fs)

\* The message of the frames fs has been finished.
Complete(t, s, fs) == Follows(t, s, fs) /\ Stops(s) = {StopReason(LastReason(fs))}

ContentInv ==
    Anthropic =>
        /\ errorEmitted => ErrorSeen
        /\ phase = "reading" /\ ~errorEmitted
              => Follows(translator, Made(sent, translator), frames)
        /\ phase # "reading" /\ ending = "eof" /\ ~errorEmitted
              => Complete(translator, Made(sent, translator), AllFrames)

LEMMA Joined ==
  ASSUME NEW S, NEW s \in Seq(S)
  PROVE  s \o <<>> = s
  OBVIOUS

\* Events that carry nothing change nothing of the content.
LEMMA TellsMore ==
  ASSUME NEW t \in TranslatorSet, NEW u \in TranslatorSet, NEW s \in Seq(EventSet),
         NEW e \in EventSet, NEW texts, NEW args, Tells(t, s, texts, args),
         u.tools = t.tools, u.next >= t.next, e.type # "block_delta"
  PROVE  Tells(u, Append(s, e), texts, args) /\ OpenedTools(u) = OpenedTools(t)
<1>1. \A kind, bs : DeltasOf(Append(s, e), kind, bs) = DeltasOf(s, kind, bs)
  <2>1. ASSUME NEW kind, NEW bs
        PROVE  DeltasOf(Append(s, e), kind, bs) = DeltasOf(s, kind, bs)
    <3>1. /\ DeltasOf(s, kind, bs) \in Seq(Nat)
          /\ DeltasOf(Append(s, e), kind, bs) = DeltasOf(s, kind, bs) \o Carried(e, kind, bs)
      BY DeltasAppend
    <3>2. Carried(e, kind, bs) = <<>>
      BY DEF Carried
    <3>3. QED
      BY <3>1, <3>2, Joined
  <2>2. QED
    BY <2>1
<1>2. OpenedTools(u) = OpenedTools(t)
  BY DEF OpenedTools
<1>3. \A i \in OpenedTools(t) : t.tools[i] < t.next => t.tools[i] < u.next
  <2>1. /\ t.next \in Nat /\ u.next \in Nat
        /\ \A i \in OpenedTools(t) : t.tools[i] \in Nat
    BY TranslatorParts DEF OpenedTools, Indexes
  <2>2. QED
    BY <2>1
<1>4. \A b \in Indexes : b >= u.next => b >= t.next
  <2>1. t.next \in Nat /\ u.next \in Nat /\ \A b \in Indexes : b \in Nat
    BY TranslatorParts, BlockNumbers DEF Indexes
  <2>2. QED
    BY <2>1
<1>5. /\ DeltasOf(Append(s, e), "text", Indexes) = texts
      /\ \A i \in ToolIndexes \ OpenedTools(u) : args[i] = <<>>
      /\ \A i, j \in OpenedTools(u) : u.tools[i] = u.tools[j] => i = j
  BY <1>1, <1>2 DEF Tells
<1>6. \A i \in OpenedTools(u) : /\ DeltasOf(Append(s, e), "tool", {u.tools[i]}) = args[i]
                               /\ u.tools[i] < u.next
  <2>1. ASSUME NEW i \in OpenedTools(t)
        PROVE  DeltasOf(Append(s, e), "tool", {t.tools[i]}) = args[i] /\ t.tools[i] < u.next
    <3>1. DeltasOf(s, "tool", {t.tools[i]}) = args[i] /\ t.tools[i] < t.next
      BY DEF Tells
    <3>2. QED
      BY <1>1, <1>3, <3>1
  <2>2. QED
    BY <1>2, <2>1
<1>7. \A b \in Indexes : b >= u.next => DeltasOf(Append(s, e), "tool", {b}) = <<>>
  BY <1>1, <1>4 DEF Tells
<1>8. QED
  BY <1>2, <1>5, <1>6, <1>7 DEF Tells

\* A text delta adds its frame to the text.
LEMMA TellsText ==
  ASSUME NEW t \in TranslatorSet, NEW s \in Seq(EventSet), NEW e \in EventSet,
         NEW texts, NEW args, Tells(t, s, texts, args),
         e.type = "block_delta", e.kind = "text"
  PROVE  Tells(t, Append(s, e), texts \o <<e.n>>, args)
<1>1. \A bs : DeltasOf(Append(s, e), "tool", bs) = DeltasOf(s, "tool", bs)
  <2>1. ASSUME NEW bs
        PROVE  DeltasOf(Append(s, e), "tool", bs) = DeltasOf(s, "tool", bs)
    <3>1. /\ DeltasOf(s, "tool", bs) \in Seq(Nat)
          /\ DeltasOf(Append(s, e), "tool", bs) = DeltasOf(s, "tool", bs) \o Carried(e, "tool", bs)
      BY DeltasAppend
    <3>2. Carried(e, "tool", bs) = <<>>
      BY DEF Carried
    <3>3. QED
      BY <3>1, <3>2, Joined
  <2>2. QED
    BY <2>1
<1>2. DeltasOf(Append(s, e), "text", Indexes) = DeltasOf(s, "text", Indexes) \o <<e.n>>
  <2>1. Carried(e, "text", Indexes) = <<e.n>>
    BY DEF Carried, EventSet
  <2>2. DeltasOf(Append(s, e), "text", Indexes)
           = DeltasOf(s, "text", Indexes) \o Carried(e, "text", Indexes)
    BY DeltasAppend
  <2>3. QED
    BY <2>1, <2>2
<1>3. QED
  BY <1>1, <1>2 DEF Tells

\* A delta of a tool's block adds its frame to the arguments of the tool.
LEMMA TellsTool ==
  ASSUME NEW t \in TranslatorSet, NEW s \in Seq(EventSet), NEW e \in EventSet,
         NEW texts, NEW args \in [ToolIndexes -> Seq(Nat)], Tells(t, s, texts, args),
         NEW i \in OpenedTools(t),
         e.type = "block_delta", e.kind = "tool", e.block = t.tools[i]
  PROVE  Tells(t, Append(s, e), texts, [args EXCEPT ![i] = @ \o <<e.n>>])
<1> DEFINE a == Append(s, e)
           more == [args EXCEPT ![i] = @ \o <<e.n>>]
<1>1. /\ \A kind, bs : DeltasOf(s, kind, bs) \in Seq(Nat)
      /\ \A kind, bs : DeltasOf(a, kind, bs) = DeltasOf(s, kind, bs) \o Carried(e, kind, bs)
  BY DeltasAppend
<1>2. \A kind, bs : Carried(e, kind, bs) = <<>> => DeltasOf(a, kind, bs) = DeltasOf(s, kind, bs)
  BY <1>1, Joined
<1>3. i \in ToolIndexes /\ OpenedTools(t) \subseteq ToolIndexes
  BY DEF OpenedTools
<1>4. more[i] = args[i] \o <<e.n>> /\ \A j \in ToolIndexes : j # i => more[j] = args[j]
  BY <1>3
<1> HIDE DEF a, more
<1>5. DeltasOf(a, "text", Indexes) = texts
  <2>1. Carried(e, "text", Indexes) = <<>>
    BY DEF Carried
  <2>2. QED
    BY <1>2, <2>1 DEF Tells
<1>6. ASSUME NEW j \in OpenedTools(t)
      PROVE  DeltasOf(a, "tool", {t.tools[j]}) = more[j] /\ t.tools[j] < t.next
  <2>1. DeltasOf(s, "tool", {t.tools[j]}) = args[j] /\ t.tools[j] < t.next
    BY DEF Tells
  <2>2. CASE j = i
    <3>1. Carried(e, "tool", {t.tools[j]}) = <<e.n>>
      BY <2>2 DEF Carried
    <3>2. QED
      BY <1>1, <1>4, <2>1, <2>2, <3>1
  <2>3. CASE j # i
    <3>1. t.tools[j] # t.tools[i]
      BY <2>3 DEF Tells
    <3>2. Carried(e, "tool", {t.tools[j]}) = <<>>
      BY <3>1 DEF Carried
    <3>3. QED
      BY <1>2, <1>3, <1>4, <2>1, <2>3, <3>2
  <2>4. QED
    BY <2>2, <2>3
<1>7. \A j \in ToolIndexes \ OpenedTools(t) : more[j] = <<>>
  BY <1>4 DEF Tells
<1>8. ASSUME NEW b \in Indexes, b >= t.next
      PROVE  DeltasOf(a, "tool", {b}) = <<>>
  <2>1. DeltasOf(s, "tool", {b}) = <<>> /\ t.tools[i] < t.next
    BY <1>8 DEF Tells
  <2>2. t.tools[i] # b
    <3>1. t.next \in Nat /\ b \in Nat /\ t.tools[i] \in Nat
      BY <1>3, TranslatorParts, BlockNumbers DEF Indexes
    <3>2. QED
      BY <1>8, <2>1, <3>1
  <2>3. Carried(e, "tool", {b}) = <<>>
    BY <2>2 DEF Carried
  <2>4. QED
    BY <1>2, <2>1, <2>3
<1>9. QED
  BY <1>5, <1>6, <1>7, <1>8 DEF Tells, a, more

\* A tool seen first gets the next block, which carries nothing yet.
LEMMA TellsOpened ==
  ASSUME NEW t \in TranslatorSet, NEW u \in TranslatorSet, NEW s \in Seq(EventSet),
         NEW e \in EventSet, NEW texts, NEW args, Tells(t, s, texts, args),
         NEW i \in ToolIndexes, t.tools[i] = NoBlock, t.next # NoBlock,
         u.tools = [t.tools EXCEPT ![i] = t.next], u.next = t.next + 1,
         e.type # "block_delta"
  PROVE  /\ Tells(u, Append(s, e), texts, args)
         /\ OpenedTools(u) = OpenedTools(t) \cup {i}
<1> DEFINE a == Append(s, e)
<1>1. \A kind, bs : DeltasOf(a, kind, bs) = DeltasOf(s, kind, bs)
  <2>1. ASSUME NEW kind, NEW bs
        PROVE  DeltasOf(a, kind, bs) = DeltasOf(s, kind, bs)
    <3>1. /\ DeltasOf(s, kind, bs) \in Seq(Nat)
          /\ DeltasOf(a, kind, bs) = DeltasOf(s, kind, bs) \o Carried(e, kind, bs)
      BY DeltasAppend
    <3>2. Carried(e, kind, bs) = <<>>
      BY DEF Carried
    <3>3. QED
      BY <3>1, <3>2, Joined
  <2>2. QED
    BY <2>1
<1> HIDE DEF a
<1>2. /\ t.next \in Nat /\ t.next \in Indexes /\ t.tools \in [ToolIndexes -> Indexes]
      /\ \A b \in Indexes : b \in Nat
  BY TranslatorParts, BlockNumbers DEF Indexes
<1>3. u.tools[i] = t.next /\ \A j \in ToolIndexes : j # i => u.tools[j] = t.tools[j]
  BY <1>2
<1>4. OpenedTools(u) = OpenedTools(t) \cup {i} /\ i \notin OpenedTools(t)
  BY <1>3 DEF OpenedTools
<1>5. ASSUME NEW j \in OpenedTools(t)
      PROVE  /\ j \in ToolIndexes /\ j # i /\ u.tools[j] = t.tools[j]
             /\ t.tools[j] < t.next /\ t.tools[j] \in Nat /\ t.tools[j] # t.next
             /\ DeltasOf(s, "tool", {t.tools[j]}) = args[j]
  <2>1. j \in ToolIndexes /\ j # i
    BY <1>4 DEF OpenedTools
  <2>2. t.tools[j] < t.next /\ DeltasOf(s, "tool", {t.tools[j]}) = args[j]
    BY DEF Tells
  <2>3. QED
    BY <1>2, <1>3, <2>1, <2>2
<1>6. args[i] = <<>> /\ DeltasOf(s, "tool", {t.next}) = <<>>
  BY <1>2, <1>4 DEF Tells
<1>7. \A j \in OpenedTools(u) : DeltasOf(a, "tool", {u.tools[j]}) = args[j] /\ u.tools[j] < u.next
  <2>1. ASSUME NEW j \in OpenedTools(t)
        PROVE  DeltasOf(a, "tool", {u.tools[j]}) = args[j] /\ u.tools[j] < u.next
    <3>1. u.tools[j] = t.tools[j] /\ t.tools[j] < t.next /\ t.tools[j] \in Nat
          /\ DeltasOf(s, "tool", {t.tools[j]}) = args[j]
      BY <1>5
    <3>2. u.tools[j] < u.next
      BY <1>2, <3>1
    <3>3. DeltasOf(a, "tool", {u.tools[j]}) = args[j]
      BY <1>1, <3>1
    <3>4. QED
      BY <3>2, <3>3
  <2>2. DeltasOf(a, "tool", {u.tools[i]}) = args[i] /\ u.tools[i] < u.next
    <3>1. u.tools[i] < u.next
      BY <1>2, <1>3
    <3>2. DeltasOf(a, "tool", {u.tools[i]}) = args[i]
      <4>1. u.tools[i] = t.next
        BY <1>3
      <4>2. DeltasOf(a, "tool", {t.next}) = args[i]
        BY <1>1, <1>6
      <4>3. QED
        BY <4>1, <4>2
    <3>3. QED
      BY <3>1, <3>2
  <2>3. QED
    BY <1>4, <2>1, <2>2
<1>8. \A j, k \in OpenedTools(u) : u.tools[j] = u.tools[k] => j = k
  <2>1. ASSUME NEW j \in OpenedTools(t), NEW k \in OpenedTools(t), u.tools[j] = u.tools[k]
        PROVE  j = k
    <3>1. t.tools[j] = t.tools[k]
      BY <1>5, <2>1
    <3>2. QED
      BY <3>1 DEF Tells
  <2>2. \A j \in OpenedTools(t) : u.tools[j] # u.tools[i]
    BY <1>3, <1>5
  <2>3. QED
    BY <1>4, <2>1, <2>2
<1>9. \A b \in Indexes : b >= u.next => DeltasOf(a, "tool", {b}) = <<>>
  <2>1. \A b \in Indexes : b >= u.next => b >= t.next
    BY <1>2
  <2>2. QED
    BY <1>1, <2>1 DEF Tells
<1>10. DeltasOf(a, "text", Indexes) = texts
       /\ \A j \in ToolIndexes \ OpenedTools(u) : args[j] = <<>>
  BY <1>1, <1>4 DEF Tells
<1>11. QED
  BY <1>4, <1>7, <1>8, <1>9, <1>10 DEF Tells, a

-----------------------------------------------------------------------------
(* The translator's operators, and the content of the message.             *)

\* A sound message that says this, with these tools opened and this reason noted.
Says(p, t, n, texts, args, opened, finish) ==
    /\ Sound(p, t, n)
    /\ Tells(t, Made(p, t), texts, args)
    /\ OpenedTools(t) = opened
    /\ t.finish = finish

LEMMA SaysTyped ==
  ASSUME NEW p \in Seq(EventSet), NEW t, NEW n, Sound(p, t, n)
  PROVE  t \in TranslatorSet /\ t.out \in Seq(EventSet) /\ Made(p, t) \in Seq(EventSet)
<1>1. t \in TranslatorSet /\ t.out \in Seq(EventSet)
  BY TranslatorParts DEF Sound
<1>2. QED
  BY <1>1 DEF Made

LEMMA MadeMore ==
  ASSUME NEW p \in Seq(EventSet), NEW t, NEW u, NEW e \in EventSet,
         t.out \in Seq(EventSet), u.out = Append(t.out, e)
  PROVE  Made(p, u) = Append(Made(p, t), e)
<1>1. ASSUME NEW q \in Seq(EventSet)
      PROVE  p \o Append(q, e) = Append(p \o q, e)
  OBVIOUS
<1>2. QED
  BY <1>1 DEF Made

\* What is told depends on the blocks of the tools only.
LEMMA TellsAlike ==
  ASSUME NEW t, NEW u, NEW s, NEW texts, NEW args, Tells(t, s, texts, args),
         u.tools = t.tools, u.next = t.next
  PROVE  Tells(u, s, texts, args) /\ OpenedTools(u) = OpenedTools(t)
<1>1. OpenedTools(u) = OpenedTools(t)
  BY DEF OpenedTools
<1>2. QED
  BY <1>1 DEF Tells

LEMMA OpenTextBlockSays ==
  ASSUME NEW p \in Seq(EventSet), NEW t, NEW n \in 1..MaxFrames,
         NEW texts, NEW args, NEW opened, NEW finish,
         Says(p, t, n - 1, texts, args, opened, finish)
  PROVE  /\ Says(p, OpenTextBlock(t), n, texts, args, opened, finish)
         /\ OpenTextBlock(t).textOpen
<1> DEFINE u == OpenTextBlock(t)
           e == Event("block_start", t.next, "text", 0)
<1>1. /\ Sound(p, t, n - 1) /\ Tells(t, Made(p, t), texts, args)
      /\ OpenedTools(t) = opened /\ t.finish = finish
  BY DEF Says
<1>2. Sound(p, u, n) /\ u.textOpen
  BY <1>1, OpenTextBlockSound
<1>3. /\ t \in TranslatorSet /\ t.out \in Seq(EventSet) /\ Made(p, t) \in Seq(EventSet)
      /\ u \in TranslatorSet
  BY <1>1, <1>2, SaysTyped
<1>4. CASE t.textOpen
  <2>1. u = t
    BY <1>4 DEF OpenTextBlock
  <2>2. QED
    BY <1>1, <1>2, <2>1 DEF Says
<1>5. CASE ~t.textOpen
  <2>1. /\ u.tools = t.tools /\ u.next = t.next + 1 /\ u.finish = t.finish
        /\ u.out = Append(t.out, e)
    BY <1>3, <1>5 DEF OpenTextBlock, Emit, TranslatorSet
  <2>2. e \in EventSet /\ e.type = "block_start"
    <3>1. t.next \in Indexes /\ 0 \in 0..MaxFrames
      BY <1>3, TranslatorParts, BlockNumbers
    <3>2. QED
      BY <3>1, EventTyped DEF EventTypes, Kinds
  <2> HIDE DEF u, e
  <2>3. Made(p, u) = Append(Made(p, t), e)
    BY <1>3, <2>1, <2>2, MadeMore
  <2>4. u.next >= t.next /\ e.type # "block_delta"
    <3>1. t.next \in Nat
      BY <1>3, TranslatorParts
    <3>2. QED
      BY <2>1, <2>2, <3>1
  <2>5. Tells(u, Append(Made(p, t), e), texts, args) /\ OpenedTools(u) = OpenedTools(t)
    BY <1>1, <1>3, <2>1, <2>2, <2>4, TellsMore
  <2>6. QED
    BY <1>1, <1>2, <2>1, <2>3, <2>5 DEF Says, u
<1>6. QED
  BY <1>4, <1>5

LEMMA FeedTextSays ==
  ASSUME NEW p \in Seq(EventSet), NEW t, NEW n \in 1..MaxFrames,
         NEW texts, NEW args, NEW opened, NEW finish,
         Says(p, t, n - 1, texts, args, opened, finish)
  PROVE  Says(p, FeedText(t, n), n, texts \o <<n>>, args, opened, finish)
<1> DEFINE u == OpenTextBlock(t)
           e == Event("block_delta", u.next - 1, "text", n)
           v == FeedText(t, n)
<1>1. Says(p, u, n, texts, args, opened, finish) /\ u.textOpen
  BY OpenTextBlockSays
<1>2. v = Emit(u, e)
  BY DEF FeedText
<1>3. Sound(p, v, n)
  BY FeedTextSound DEF Says
<1> HIDE DEF u, v
<1>4. /\ Sound(p, u, n) /\ Tells(u, Made(p, u), texts, args)
      /\ OpenedTools(u) = opened /\ u.finish = finish
  BY <1>1 DEF Says
<1>5. u \in TranslatorSet /\ u.out \in Seq(EventSet) /\ Made(p, u) \in Seq(EventSet)
  BY <1>4, SaysTyped
<1>6. e \in EventSet /\ e.type = "block_delta" /\ e.kind = "text" /\ e.n = n
  <2>1. u.next - 1 \in Indexes /\ n \in 0..MaxFrames
    <3>1. Describes(u, Made(p, u))
      BY <1>4 DEF Sound
    <3>2. QED
      BY <1>1, <1>5, <3>1, TranslatorParts, BlockNumbers DEF Describes, Indexes
  <2>2. e \in EventSet /\ e.type = "block_delta" /\ e.kind = "text"
    BY <2>1, EventTyped DEF EventTypes, Kinds
  <2>3. e.n = n
    BY DEF Event, Message!Event
  <2>4. QED
    BY <2>2, <2>3
<1> HIDE DEF e
<1>7. /\ v.tools = u.tools /\ v.next = u.next /\ v.finish = u.finish
      /\ v.out = Append(u.out, e)
  BY <1>2, <1>5, <1>6, EmitTyped
<1>8. Made(p, v) = Append(Made(p, u), e)
  BY <1>5, <1>6, <1>7, MadeMore
<1>9. Tells(u, Append(Made(p, u), e), texts \o <<n>>, args)
  BY <1>4, <1>5, <1>6, TellsText
<1>10. Tells(v, Made(p, v), texts \o <<n>>, args) /\ OpenedTools(v) = OpenedTools(u)
  BY <1>7, <1>8, <1>9, TellsAlike
<1>11. QED
  BY <1>3, <1>4, <1>7, <1>10 DEF Says, v

LEMMA CloseTextBlockSays ==
  ASSUME NEW p \in Seq(EventSet), NEW t, NEW n,
         NEW texts, NEW args, NEW opened, NEW finish,
         Says(p, t, n, texts, args, opened, finish)
  PROVE  Says(p, CloseTextBlock(t), n, texts, args, opened, finish)
<1> DEFINE u == CloseTextBlock(t)
           e == Event("block_stop", t.next - 1, "none", 0)
<1>1. /\ Sound(p, t, n) /\ Tells(t, Made(p, t), texts, args)
      /\ OpenedTools(t) = opened /\ t.finish = finish
  BY DEF Says
<1>2. /\ Sound(p, u, n) /\ u.next = t.next /\ u.tools = t.tools /\ u.finish = t.finish
  BY <1>1, CloseTextBlockSound
<1>3. /\ t \in TranslatorSet /\ t.out \in Seq(EventSet) /\ Made(p, t) \in Seq(EventSet)
      /\ u \in TranslatorSet
  BY <1>1, <1>2, SaysTyped
<1>4. CASE ~t.textOpen
  <2>1. u = t
    BY <1>4 DEF CloseTextBlock
  <2>2. QED
    BY <1>1, <1>2, <2>1 DEF Says
<1>5. CASE t.textOpen
  <2>1. u.out = Append(t.out, e)
    BY <1>3, <1>5 DEF CloseTextBlock, Emit, TranslatorSet
  <2>2. e \in EventSet /\ e.type = "block_stop"
    <3>1. Describes(t, Made(p, t))
      BY <1>1 DEF Sound
    <3>2. t.next - 1 \in Indexes /\ 0 \in 0..MaxFrames
      BY <1>3, <1>5, <3>1, TranslatorParts, BlockNumbers DEF Describes, Indexes
    <3>3. QED
      BY <3>2, EventTyped DEF EventTypes, Kinds
  <2> HIDE DEF u, e
  <2>3. Made(p, u) = Append(Made(p, t), e)
    BY <1>3, <2>1, <2>2, MadeMore
  <2>4. u.next >= t.next /\ e.type # "block_delta"
    <3>1. t.next \in Nat
      BY <1>3, TranslatorParts
    <3>2. QED
      BY <1>2, <2>2, <3>1
  <2>5. Tells(u, Append(Made(p, t), e), texts, args) /\ OpenedTools(u) = OpenedTools(t)
    BY <1>1, <1>2, <1>3, <2>2, <2>4, TellsMore
  <2>6. QED
    BY <1>1, <1>2, <2>3, <2>5 DEF Says, u
<1>6. QED
  BY <1>4, <1>5

LEMMA OpenToolBlockSays ==
  ASSUME NEW p \in Seq(EventSet), NEW t, NEW n \in 0..MaxFrames, NEW i \in ToolIndexes,
         NEW texts, NEW args, NEW opened, NEW finish,
         Says(p, t, n, texts, args, opened, finish)
  PROVE  Says(p, OpenToolBlock(t, i), n, texts, args, opened \cup {i}, finish)
<1> DEFINE c == CloseTextBlock(t)
           e == Event("block_start", t.next, "tool", 0)
           u == OpenToolBlock(t, i)
<1>1. /\ Sound(p, t, n) /\ Tells(t, Made(p, t), texts, args)
      /\ OpenedTools(t) = opened /\ t.finish = finish
  BY DEF Says
<1>2. Sound(p, u, n)
  BY <1>1, OpenToolBlockSound
<1>3. CASE t.tools[i] # NoBlock
  <2>1. u = t
    BY <1>3 DEF OpenToolBlock
  <2>2. opened = opened \cup {i}
    BY <1>1, <1>3 DEF OpenedTools
  <2>3. QED
    BY <2>1, <2>2
<1>4. CASE t.tools[i] = NoBlock
  <2>1. Says(p, c, n, texts, args, opened, finish)
    BY CloseTextBlockSays
  <2>2. /\ Sound(p, c, n) /\ Tells(c, Made(p, c), texts, args)
        /\ OpenedTools(c) = opened /\ c.finish = finish
        /\ c.next = t.next /\ c.tools = t.tools
    BY <1>1, <2>1, CloseTextBlockSound DEF Says
  <2>3. u = Emit([c EXCEPT !.tools[i] = t.next, !.next = @ + 1], e)
    BY <1>4 DEF OpenToolBlock
  <2> HIDE DEF c
  <2>4. /\ c \in TranslatorSet /\ c.out \in Seq(EventSet) /\ Made(p, c) \in Seq(EventSet)
        /\ u \in TranslatorSet
    BY <1>2, <2>2, SaysTyped
  <2>5. /\ u.tools = [c.tools EXCEPT ![i] = c.next] /\ u.next = c.next + 1
        /\ u.finish = c.finish /\ u.out = Append(c.out, e)
    BY <2>2, <2>3, <2>4 DEF Emit, TranslatorSet
  <2>6. c.next \in Indexes /\ c.next # NoBlock
    <3>1. c.next \in Indexes /\ c.next + 1 \in Indexes
      BY <2>4, <2>5, TranslatorParts
    <3>2. QED
      BY <3>1, BlockNumbers DEF Indexes
  <2>7. e \in EventSet /\ e.type = "block_start"
    <3>1. 0 \in 0..MaxFrames
      BY BlockNumbers
    <3>2. QED
      BY <2>2, <2>6, <3>1, EventTyped DEF EventTypes, Kinds
  <2> HIDE DEF u, e
  <2>8. Made(p, u) = Append(Made(p, c), e)
    BY <2>4, <2>5, <2>7, MadeMore
  <2>9. e.type # "block_delta" /\ c.tools[i] = NoBlock
    BY <1>4, <2>2, <2>7
  <2>10. /\ Tells(u, Append(Made(p, c), e), texts, args)
         /\ OpenedTools(u) = OpenedTools(c) \cup {i}
    BY <2>2, <2>4, <2>5, <2>6, <2>7, <2>9, TellsOpened
  <2>11. QED
    BY <1>2, <2>2, <2>5, <2>8, <2>10 DEF Says, u
<1>5. QED
  BY <1>3, <1>4

\* The arguments, with those of one more call, and of several.
WithCall(args, call, n) == [i \in ToolIndexes |-> args[i] \o Passed(call, i, n)]
WithCalls(args, calls, n) == [i \in ToolIndexes |-> args[i] \o Given(calls, i, n)]

CalledBy(calls) == {i \in ToolIndexes : \E k \in DOMAIN calls : calls[k].tool = i}

LEMMA FeedCallSays ==
  ASSUME NEW p \in Seq(EventSet), NEW t, NEW n \in 0..MaxFrames, NEW call \in CallSet,
         NEW texts, NEW args \in [ToolIndexes -> Seq(Nat)], NEW opened, NEW finish,
         Says(p, t, n, texts, args, opened, finish)
  PROVE  Says(p, FeedCall(t, n, call), n, texts, WithCall(args, call, n),
              opened \cup {call.tool}, finish)
<1> DEFINE i == call.tool
           u == OpenToolBlock(t, i)
           e == Event("block_delta", u.tools[i], "tool", n)
           v == FeedCall(t, n, call)
<1>1. i \in ToolIndexes
  BY DEF CallSet
<1>2. Says(p, u, n, texts, args, opened \cup {i}, finish)
  BY <1>1, OpenToolBlockSays
<1>3. v = IF call.args THEN Emit(u, e) ELSE u
  BY DEF FeedCall
<1>4. Sound(p, v, n)
  BY FeedCallSound DEF Says
<1> HIDE DEF u, v, i
<1>5. /\ Sound(p, u, n) /\ Tells(u, Made(p, u), texts, args)
      /\ OpenedTools(u) = opened \cup {i} /\ u.finish = finish
  BY <1>2 DEF Says
<1>6. u \in TranslatorSet /\ u.out \in Seq(EventSet) /\ Made(p, u) \in Seq(EventSet)
  BY <1>5, SaysTyped
<1>7. CASE ~call.args
  <2>1. WithCall(args, call, n) = args
    <3>1. \A j \in ToolIndexes : args[j] \o Passed(call, j, n) = args[j]
      BY <1>7, Joined DEF Passed
    <3>2. QED
      BY <3>1 DEF WithCall
  <2>2. QED
    BY <1>2, <1>3, <1>7, <2>1 DEF v, i
<1>8. CASE call.args
  <2>1. e \in EventSet /\ e.type = "block_delta" /\ e.kind = "tool" /\ e.block = u.tools[i]
    <3>1. u.tools[i] \in Indexes
      BY <1>1, <1>6, TranslatorParts
    <3>2. QED
      BY <3>1, EventTyped DEF EventTypes, Kinds
  <2>2. e.n = n
    BY DEF Event, Message!Event
  <2> HIDE DEF e
  <2>3. /\ v.tools = u.tools /\ v.next = u.next /\ v.finish = u.finish
        /\ v.out = Append(u.out, e)
    BY <1>3, <1>6, <1>8, <2>1, EmitTyped
  <2>4. Made(p, v) = Append(Made(p, u), e)
    BY <1>6, <2>1, <2>3, MadeMore
  <2>5. WithCall(args, call, n) = [args EXCEPT ![i] = @ \o <<e.n>>]
    <3>1. \A j \in ToolIndexes : j # i => args[j] \o Passed(call, j, n) = args[j]
      BY Joined DEF Passed, i
    <3>2. args[i] \o Passed(call, i, n) = args[i] \o <<e.n>>
      BY <1>8, <2>2 DEF Passed, i
    <3>3. QED
      BY <3>1, <3>2 DEF WithCall
  <2>6. i \in OpenedTools(u)
    BY <1>5
  <2>7. Tells(u, Append(Made(p, u), e), texts, WithCall(args, call, n))
    <3>1. Tells(u, Append(Made(p, u), e), texts, [args EXCEPT ![i] = @ \o <<e.n>>])
      BY <1>5, <1>6, <2>1, <2>6, TellsTool
    <3>2. QED
      BY <2>5, <3>1
  <2>8. /\ Tells(v, Made(p, v), texts, WithCall(args, call, n))
        /\ OpenedTools(v) = OpenedTools(u)
    BY <2>3, <2>4, <2>7, TellsAlike
  <2>9. QED
    BY <1>4, <1>5, <2>3, <2>8 DEF Says, v, i
<1>9. QED
  BY <1>7, <1>8 DEF CallSet

\* One more call: its arguments come after those of the calls before it.
LEMMA OneMoreCall ==
  ASSUME NEW calls \in Seq(CallSet), NEW call \in CallSet, NEW n \in Nat,
         NEW args \in [ToolIndexes -> Seq(Nat)]
  PROVE  /\ WithCalls(args, calls, n) \in [ToolIndexes -> Seq(Nat)]
         /\ WithCall(WithCalls(args, calls, n), call, n)
               = WithCalls(args, Append(calls, call), n)
         /\ CalledBy(Append(calls, call)) = CalledBy(calls) \cup {call.tool}
<1> DEFINE Q == Seq(Nat)
           w == WithCalls(args, calls, n)
<1>1. ASSUME NEW i \in ToolIndexes
      PROVE  /\ Given(calls, i, n) \in Seq(Nat)
             /\ Given(Append(calls, call), i, n) = Given(calls, i, n) \o Passed(call, i, n)
  BY GivenAppend
<1>2. \A i : Passed(call, i, n) \in Q
  <2>1. <<n>> \in Seq(Nat) /\ <<>> \in Seq(Nat)
    OBVIOUS
  <2>2. QED
    BY <2>1 DEF Passed
<1>3. /\ \A a, b \in Q : a \o b \in Q
      /\ \A a, b, c \in Q : (a \o b) \o c = a \o (b \o c)
  OBVIOUS
<1> HIDE DEF Q
<1>4. \A i \in ToolIndexes : args[i] \in Q /\ Given(calls, i, n) \in Q
  BY <1>1 DEF Q
<1>5. w \in [ToolIndexes -> Q] /\ \A i \in ToolIndexes : w[i] = args[i] \o Given(calls, i, n)
  BY <1>3, <1>4 DEF WithCalls
<1> HIDE DEF w
<1>6. WithCall(w, call, n) = WithCalls(args, Append(calls, call), n)
  <2>1. ASSUME NEW i \in ToolIndexes
        PROVE  w[i] \o Passed(call, i, n) = args[i] \o Given(Append(calls, call), i, n)
    <3>1. w[i] = args[i] \o Given(calls, i, n)
      BY <1>5
    <3>2. (args[i] \o Given(calls, i, n)) \o Passed(call, i, n)
             = args[i] \o (Given(calls, i, n) \o Passed(call, i, n))
      <4>1. args[i] \in Q /\ Given(calls, i, n) \in Q /\ Passed(call, i, n) \in Q
        BY <1>2, <1>4
      <4>2. \A a, b, c \in Q : (a \o b) \o c = a \o (b \o c)
        BY <1>3
      <4>3. QED
        BY <4>1, <4>2, Zenon
    <3>3. QED
      BY <1>1, <3>1, <3>2
  <2>2. QED
    BY <2>1 DEF WithCall, WithCalls
<1>7. CalledBy(Append(calls, call)) = CalledBy(calls) \cup {call.tool}
  <2> DEFINE u == Append(calls, call)
  <2>1. /\ DOMAIN calls = 1..Len(calls) /\ DOMAIN u = 1..(Len(calls) + 1)
        /\ u[Len(calls) + 1] = call /\ Len(calls) \in Nat
        /\ \A k \in 1..Len(calls) : u[k] = calls[k]
    BY Longer
  <2> HIDE DEF u
  <2>2. /\ \A k \in DOMAIN u : k \in DOMAIN calls \/ k = Len(calls) + 1
        /\ Len(calls) + 1 \in DOMAIN u
        /\ \A k \in DOMAIN calls : k \in DOMAIN u /\ u[k] = calls[k]
    BY <2>1
  <2>3. call.tool \in ToolIndexes
    BY DEF CallSet
  <2>4. QED
    BY <2>1, <2>2, <2>3 DEF CalledBy, u
<1>8. QED
  BY <1>5, <1>6, <1>7 DEF Q, w

LEMMA FeedCallsSays ==
  ASSUME NEW p \in Seq(EventSet), NEW t, NEW n \in 0..MaxFrames, NEW calls \in Seq(CallSet),
         NEW texts, NEW args \in [ToolIndexes -> Seq(Nat)], NEW opened, NEW finish,
         Says(p, t, n, texts, args, opened, finish)
  PROVE  Says(p, FeedCalls(t, n, calls), n, texts, WithCalls(args, calls, n),
              opened \cup CalledBy(calls), finish)
<1>0. PICK fed : FedBy(fed, t, n, calls)
  BY FeedCallsUnfolds
<1>1. /\ FeedCalls(t, n, calls) = fed[Len(calls)]
      /\ fed[0] = t
      /\ \A k \in 1..Len(calls) : fed[k] = FeedCall(fed[k - 1], n, calls[k])
  BY <1>0 DEF FedBy
<1> DEFINE pre(k) == SubSeq(calls, 1, k)
<1>2. pre(0) = <<>> /\ pre(Len(calls)) = calls /\ Len(calls) \in Nat
  BY PrefixEnds
<1>3. ASSUME NEW k \in 1..Len(calls)
      PROVE  /\ pre(k - 1) \in Seq(CallSet) /\ calls[k] \in CallSet
             /\ pre(k) = Append(pre(k - 1), calls[k])
  BY PrefixStep
<1>4. n \in Nat
  BY BlockNumbers
<1> HIDE DEF pre
<1> DEFINE Fed(k) == Says(p, fed[k], n, texts, WithCalls(args, pre(k), n),
                          opened \cup CalledBy(pre(k)), finish)
           T == {k \in 0..Len(calls) : Fed(k)}
<1>5. Fed(0)
  <2>1. WithCalls(args, <<>>, n) = args
    <3>1. \A i \in ToolIndexes : args[i] \o Given(<<>>, i, n) = args[i]
      BY NothingSaid, Joined
    <3>2. QED
      BY <3>1 DEF WithCalls
  <2>2. opened \cup CalledBy(<<>>) = opened
    <3>1. CalledBy(<<>>) = {}
      BY DEF CalledBy
    <3>2. QED
      BY <3>1
  <2>3. QED
    BY <1>1, <1>2, <2>1, <2>2
<1>6. ASSUME NEW k \in 1..Len(calls), Fed(k - 1)
      PROVE  Fed(k)
  <2> DEFINE a == WithCalls(args, pre(k - 1), n)
             o == opened \cup CalledBy(pre(k - 1))
  <2>1. /\ pre(k - 1) \in Seq(CallSet) /\ calls[k] \in CallSet
        /\ pre(k) = Append(pre(k - 1), calls[k])
    BY <1>3
  <2>2. /\ a \in [ToolIndexes -> Seq(Nat)]
        /\ WithCall(a, calls[k], n) = WithCalls(args, pre(k), n)
        /\ CalledBy(pre(k)) = CalledBy(pre(k - 1)) \cup {calls[k].tool}
    BY <1>4, <2>1, OneMoreCall
  <2>3. Says(p, fed[k - 1], n, texts, a, o, finish)
    BY <1>6
  <2>4. o \cup {calls[k].tool} = opened \cup CalledBy(pre(k))
    BY <2>2
  <2> HIDE DEF a, o
  <2>5. Says(p, FeedCall(fed[k - 1], n, calls[k]), n, texts, WithCall(a, calls[k], n),
             o \cup {calls[k].tool}, finish)
    BY <2>1, <2>2, <2>3, FeedCallSays
  <2>6. fed[k] = FeedCall(fed[k - 1], n, calls[k])
    BY <1>1
  <2>7. QED
    BY <2>2, <2>4, <2>5, <2>6
<1> HIDE DEF Fed
<1>7. 0 \in T /\ \A k \in 1..Len(calls) : k - 1 \in T => k \in T
  BY <1>2, <1>5, <1>6
<1> HIDE DEF T
<1>8. \A k \in 0..Len(calls) : k \in T
  BY <1>2, <1>7, UpTo
<1>9. Fed(Len(calls))
  BY <1>2, <1>8 DEF T
<1>10. QED
  BY <1>1, <1>2, <1>9 DEF Fed

LEMMA FrameParts ==
  ASSUME NEW f \in Frames
  PROVE  /\ f.calls \in Seq(CallSet) /\ f.finish \in FinishReasons
         /\ f.text \in TextSources /\ f.type \in {"chunk", "error", "done"}
         /\ f.type # "chunk" => f.text = "none" /\ f.calls = <<>> /\ f.finish = "none"
<1>1. f \in FrameSet
  BY RelayAssumption
<1>2. f.calls \in Seq([tool : ToolIndexes, args : BOOLEAN]) /\ f.finish \in FinishReasons
      /\ f.text \in TextSources /\ f.type \in {"chunk", "error", "done"}
  BY <1>1 DEF FrameSet
<1>3. QED
  BY <1>2, RelayAssumption DEF CallSet

\* One frame more: the arguments of the longer stream.
LEMMA ArgumentsGrow ==
  ASSUME NEW fs \in Seq(Frames), NEW f \in Frames
  PROVE  /\ Arguments(fs) \in [ToolIndexes -> Seq(Nat)]
         /\ Arguments(Append(fs, f)) = WithCalls(Arguments(fs), f.calls, Len(fs) + 1)
<1>1. ASSUME NEW i \in ToolIndexes
      PROVE  /\ ArgumentsOf(fs, i) \in Seq(Nat)
             /\ ArgumentsOf(Append(fs, f), i)
                   = ArgumentsOf(fs, i) \o Given(f.calls, i, Len(fs) + 1)
  BY ArgumentsAppend
<1>2. \A i \in ToolIndexes : Arguments(fs)[i] = ArgumentsOf(fs, i)
  BY DEF Arguments
<1>3. Arguments(fs) \in [ToolIndexes -> Seq(Nat)]
  BY <1>1 DEF Arguments
<1>4. QED
  BY <1>1, <1>2, <1>3 DEF Arguments, WithCalls

\* feed() keeps the message true to the frames.
LEMMA FeedFollows ==
  ASSUME NEW p \in Seq(EventSet), NEW t, NEW fs \in Seq(Frames), NEW f \in Frames,
         Len(fs) < MaxFrames,
         Sound(p, t, Len(fs)), Follows(t, Made(p, t), fs)
  PROVE  LET u == Feed(t, Len(fs) + 1, f)
         IN  /\ Sound(p, u, Len(fs) + 1)
             /\ Follows(u, Made(p, u), Append(fs, f))
<1> DEFINE n == Len(fs) + 1
           texted == IF f.text = "none" THEN t ELSE FeedText(t, n)
           called == FeedCalls(texted, n, f.calls)
           u == Feed(t, n, f)
           a == Arguments(fs)
           b == WithCalls(a, f.calls, n)
           x == TextFrom(fs, {"content", "refusal"})
           y == x \o Spoken(f, n, {"content", "refusal"})
           opened == Called(fs)
           finish == LastReason(fs)
           more == opened \cup CalledBy(f.calls)
<1>1. n \in 1..MaxFrames /\ n \in 0..MaxFrames /\ n \in Nat /\ n - 1 = Len(fs)
  BY BlockNumbers
<1>2. /\ f.calls \in Seq(CallSet) /\ f.finish \in FinishReasons /\ f.text \in TextSources
  BY FrameParts
<1>3. Says(p, t, n - 1, x, a, opened, finish)
  BY <1>1 DEF Says, Follows, Spoke
<1>4. x \in Seq(Nat) /\ y = TextFrom(Append(fs, f), {"content", "refusal"})
  BY TextAppend
<1>5. a \in [ToolIndexes -> Seq(Nat)] /\ b = Arguments(Append(fs, f))
  BY ArgumentsGrow
<1>6. more = Called(Append(fs, f))
  BY CalledAppend DEF CalledBy
<1> HIDE DEF n, x, a, opened, finish
<1>7. Says(p, texted, n, y, a, opened, finish)
  <2>1. CASE f.text = "none"
    <3>1. y = x
      <4>1. Spoken(f, n, {"content", "refusal"}) = <<>>
        BY <2>1 DEF Spoken
      <4>2. QED
        BY <1>4, <4>1, Joined
    <3>2. Sound(p, t, n)
      BY <1>1, <1>3, OpenedToolsCount, TranslatorParts DEF Says, Sound, BlocksBounded
    <3>3. QED
      BY <1>3, <2>1, <3>1, <3>2 DEF Says
  <2>2. CASE f.text # "none"
    <3>1. y = x \o <<n>>
      BY <1>2, <2>2 DEF Spoken, TextSources
    <3>2. Says(p, FeedText(t, n), n, x \o <<n>>, a, opened, finish)
      BY <1>1, <1>3, FeedTextSays
    <3>3. QED
      BY <2>2, <3>1, <3>2
  <2>3. QED
    BY <2>1, <2>2
<1>8. u = IF f.finish = "none" THEN called ELSE [called EXCEPT !.finish = f.finish]
  BY DEF Feed
<1> HIDE DEF y, u, texted
<1>9. Says(p, called, n, y, b, more, finish)
  BY <1>1, <1>2, <1>5, <1>7, FeedCallsSays
<1>10. Sound(p, u, n)
  BY <1>1, <1>3, FeedSound DEF Says, u
<1> HIDE DEF called, b, more
<1>11. LastReason(Append(fs, f)) = IF f.finish = "none" THEN finish ELSE f.finish
  BY ReasonAppend DEF finish
<1>12. /\ u.tools = called.tools /\ u.next = called.next /\ u.out = called.out
       /\ u.finish = LastReason(Append(fs, f))
  <2>1. called \in TranslatorSet /\ called.finish = finish
    BY <1>9 DEF Says, Sound
  <2>2. QED
    BY <1>8, <1>11, <2>1 DEF TranslatorSet
<1>13. Made(p, u) = Made(p, called)
  BY <1>12 DEF Made
<1>14. Tells(u, Made(p, u), y, b) /\ OpenedTools(u) = more
  <2>1. Tells(called, Made(p, called), y, b) /\ OpenedTools(called) = more
    BY <1>9 DEF Says
  <2>2. QED
    BY <1>12, <1>13, <2>1, TellsAlike
<1>15. Follows(u, Made(p, u), Append(fs, f))
  BY <1>4, <1>5, <1>6, <1>12, <1>14 DEF Follows, Spoke
<1>16. QED
  BY <1>10, <1>15 DEF n, u

-----------------------------------------------------------------------------
(* finish(), and the content of the message.                               *)

LEMMA StopsAppend ==
  ASSUME NEW s \in Seq(EventSet), NEW e \in EventSet
  PROVE  /\ Stops(Append(s, e)) =
               Stops(s) \cup (IF e.type = "message_delta" THEN {e.kind} ELSE {})
         /\ ~Message!Has(s, "message_delta") => Stops(s) = {}
<1> DEFINE u == Append(s, e)
<1>1. /\ DOMAIN s = 1..Len(s) /\ DOMAIN u = 1..(Len(s) + 1) /\ u[Len(s) + 1] = e
      /\ \A k \in 1..Len(s) : u[k] = s[k]
      /\ Len(s) \in Nat
  BY Longer
<1> HIDE DEF u
<1>2. /\ \A k \in DOMAIN u : k \in DOMAIN s \/ k = Len(s) + 1
      /\ Len(s) + 1 \in DOMAIN u /\ u[Len(s) + 1] = e
      /\ \A k \in DOMAIN s : k \in DOMAIN u /\ u[k] = s[k]
  BY <1>1
<1>3. \A q : \A x : x \in Stops(q) <=> \E k \in DOMAIN q : q[k].type = "message_delta" /\ q[k].kind = x
  BY DEF Stops
<1>4. \A x : x \in Stops(u) <=> x \in Stops(s) \/ (e.type = "message_delta" /\ e.kind = x)
  BY <1>2, <1>3
<1>5. ~Message!Has(s, "message_delta") => Stops(s) = {}
  BY DEF Stops, Message!Has
<1>6. QED
  BY <1>4, <1>5 DEF u

LEMMA StopToolsSays ==
  ASSUME NEW p \in Seq(EventSet), NEW t, NEW n,
         NEW texts, NEW args, NEW opened, NEW finish,
         Says(p, t, n, texts, args, opened, finish), ~t.textOpen
  PROVE  LET u == StopTools(t)
         IN  /\ u \in TranslatorSet
             /\ u.tools = t.tools /\ u.next = t.next /\ u.finish = finish
             /\ Tells(u, Made(p, u), texts, args)
             /\ Stops(Made(p, u)) = {}
<1> DEFINE u == StopTools(t)
<1>1. /\ Sound(p, t, n) /\ Tells(t, Made(p, t), texts, args) /\ t.finish = finish
  BY DEF Says
<1>2. t \in TranslatorSet /\ t.next \in Nat /\ t.next <= NoBlock
  BY <1>1, SaysTyped, TranslatorParts
<1>3. PICK stopped :
         /\ u = stopped[t.next]
         /\ stopped[0] = t
         /\ \A b \in 1..t.next :
               stopped[b] = IF b - 1 \in ToolBlocks(t)
                            THEN Emit(stopped[b - 1], Event("block_stop", b - 1, "none", 0))
                            ELSE stopped[b - 1]
  BY <1>2, StopToolsUnfolds
<1> DEFINE Kept(v) == /\ v \in TranslatorSet
                      /\ v.tools = t.tools /\ v.next = t.next /\ v.finish = t.finish
                      /\ Tells(v, Made(p, v), texts, args)
           T == {b \in 0..t.next : Kept(stopped[b])}
<1>4. Kept(stopped[0])
  BY <1>1, <1>2, <1>3
<1>5. ASSUME NEW b \in 1..t.next, Kept(stopped[b - 1])
      PROVE  Kept(stopped[b])
  <2> DEFINE v == stopped[b - 1]
             e == Event("block_stop", b - 1, "none", 0)
             w == stopped[b]
  <2>1. w = IF b - 1 \in ToolBlocks(t) THEN Emit(v, e) ELSE v
    BY <1>3
  <2>2. e \in EventSet /\ e.type = "block_stop"
    <3>1. b - 1 \in Indexes /\ 0 \in 0..MaxFrames
      BY <1>2, BlockNumbers DEF Indexes
    <3>2. QED
      BY <3>1, EventTyped DEF EventTypes, Kinds
  <2>3. /\ v \in TranslatorSet
        /\ v.tools = t.tools /\ v.next = t.next /\ v.finish = t.finish
        /\ Tells(v, Made(p, v), texts, args)
    BY <1>5
  <2> HIDE DEF v, e, w
  <2>4. CASE w = v
    BY <2>3, <2>4 DEF w
  <2>5. CASE w = Emit(v, e)
    <3>1. /\ w \in TranslatorSet /\ w.tools = v.tools /\ w.next = v.next
          /\ w.finish = v.finish
      BY <2>2, <2>3, <2>5, EmitTyped
    <3>2. Made(p, v) \in Seq(EventSet) /\ Made(p, w) = Append(Made(p, v), e)
      BY <2>2, <2>3, <2>5, EmittedLast
    <3>3. w.next >= v.next /\ e.type # "block_delta"
      BY <1>2, <2>2, <2>3, <3>1
    <3>4. Tells(w, Append(Made(p, v), e), texts, args)
      BY <2>2, <2>3, <3>1, <3>2, <3>3, TellsMore
    <3>5. QED
      BY <2>3, <3>1, <3>2, <3>4 DEF w
  <2>6. QED
    BY <2>1, <2>4, <2>5
<1> HIDE DEF Kept
<1>6. 0 \in T /\ \A b \in 1..t.next : b - 1 \in T => b \in T
  BY <1>2, <1>4, <1>5
<1> HIDE DEF T
<1>7. \A b \in 0..t.next : b \in T
  BY <1>2, <1>6, UpTo
<1>8. Kept(u)
  BY <1>2, <1>3, <1>7 DEF T
<1> HIDE DEF u
<1>9. Made(p, u) \in Seq(EventSet)
  <2>1. u.out \in Seq(EventSet)
    BY <1>8, TranslatorParts DEF Kept
  <2>2. QED
    BY <2>1 DEF Made
<1>10. Stops(Made(p, u)) = {}
  <2>1. ~Message!Has(Made(p, u), "message_delta")
    BY <1>1, StopToolsStops DEF StoppedBelow, u
  <2>2. Bare("message_stop") \in EventSet
    BY BareTyped DEF EventTypes
  <2>3. QED
    BY <1>9, <2>1, <2>2, StopsAppend
<1>11. QED
  BY <1>1, <1>8, <1>10 DEF Kept, u

\* finish() ends the message with the reason of the frames, and adds nothing else.
LEMMA FinishCompletes ==
  ASSUME NEW p \in Seq(EventSet), NEW t, NEW n, NEW fs,
         Sound(p, t, n), Follows(t, Made(p, t), fs)
  PROVE  LET u == FinishMessage(t) IN Complete(u, Made(p, u), fs)
<1> DEFINE texts == Spoke(fs)
           args == Arguments(fs)
           opened == Called(fs)
           finish == LastReason(fs)
           c == CloseTextBlock(t)
           u == StopTools(c)
           d == Event("message_delta", 0, StopReason(t.finish), 0)
           v == Emit(u, d)
           e == Bare("message_stop")
           w == FinishMessage(t)
<1>1. w = Emit(v, e)
  BY DEF FinishMessage
<1>2. Says(p, t, n, texts, args, opened, finish) /\ t.finish = finish
  BY DEF Says, Follows
<1>3. Says(p, c, n, texts, args, opened, finish) /\ ~c.textOpen
  BY <1>2, CloseTextBlockSays, CloseTextBlockSound
<1> HIDE DEF c, texts, args, opened, finish
<1>4. /\ u \in TranslatorSet
      /\ u.tools = c.tools /\ u.next = c.next /\ u.finish = finish
      /\ Tells(u, Made(p, u), texts, args)
      /\ Stops(Made(p, u)) = {}
  BY <1>3, StopToolsSays
<1>5. OpenedTools(u) = opened
  BY <1>3, <1>4 DEF Says, OpenedTools
<1>6. /\ d \in EventSet /\ d.type = "message_delta" /\ d.kind = StopReason(finish)
      /\ e \in EventSet /\ e.type = "message_stop"
  <2>1. 0 \in Indexes /\ 0 \in 0..MaxFrames
    BY BlockNumbers
  <2>2. StopReason(t.finish) \in Kinds
    BY DEF StopReason, Kinds
  <2>3. QED
    BY <1>2, <2>1, <2>2, EventTyped, BareTyped DEF EventTypes
<1> HIDE DEF u, d, e, v, w
<1>7. /\ v \in TranslatorSet /\ v.tools = u.tools /\ v.next = u.next /\ v.finish = u.finish
      /\ w \in TranslatorSet /\ w.tools = v.tools /\ w.next = v.next /\ w.finish = v.finish
  BY <1>1, <1>4, <1>6, EmitTyped DEF v
<1>8. /\ Made(p, u) \in Seq(EventSet) /\ Made(p, v) = Append(Made(p, u), d)
      /\ Made(p, v) \in Seq(EventSet) /\ Made(p, w) = Append(Made(p, v), e)
  BY <1>1, <1>4, <1>6, <1>7, EmittedLast DEF v
<1>9. /\ v.next >= u.next /\ w.next >= v.next
      /\ d.type # "block_delta" /\ e.type # "block_delta"
  <2>1. u.next \in Nat
    BY <1>4, TranslatorParts
  <2>2. QED
    BY <1>6, <1>7, <2>1
<1>10. Tells(v, Made(p, v), texts, args) /\ OpenedTools(v) = OpenedTools(u)
  BY <1>4, <1>6, <1>7, <1>8, <1>9, TellsMore
<1>11. Tells(w, Made(p, w), texts, args) /\ OpenedTools(w) = OpenedTools(v)
  BY <1>6, <1>7, <1>8, <1>9, <1>10, TellsMore
<1>12. Stops(Made(p, w)) = {StopReason(finish)}
  <2>1. Stops(Made(p, v)) = {} \cup {StopReason(finish)}
    BY <1>4, <1>6, <1>8, StopsAppend
  <2>2. Stops(Made(p, w)) = Stops(Made(p, v)) \cup {}
    BY <1>6, <1>8, StopsAppend
  <2>3. QED
    BY <2>1, <2>2
<1>13. Follows(w, Made(p, w), fs)
  BY <1>4, <1>5, <1>7, <1>10, <1>11 DEF Follows, texts, args, opened, finish
<1>14. QED
  BY <1>12, <1>13 DEF Complete, w, finish

-----------------------------------------------------------------------------
(* The steps of stream_from(), and the content of the message.             *)

\* A frame that is not a chunk leaves no trace.
LEMMA SilentFrame ==
  ASSUME NEW t, NEW n, NEW f \in Frames, f.type # "chunk"
  PROVE  Feed(t, n, f) = t
<1>1. f.text = "none" /\ f.calls = <<>> /\ f.finish = "none"
  BY FrameParts
<1>2. <<>> \in Seq(CallSet) /\ Len(<<>>) = 0
  OBVIOUS
<1>3. PICK fed : FedBy(fed, t, n, <<>>)
  BY <1>2, FeedCallsUnfolds
<1>4. FeedCalls(t, n, <<>>) = t
  BY <1>2, <1>3 DEF FedBy
<1>5. QED
  BY <1>1, <1>4 DEF Feed

LEMMA ContentInit == Init => ContentInv
<1> SUFFICES ASSUME Init, Anthropic
             PROVE  Follows(translator, Made(sent, translator), frames)
  BY DEF Init, ContentInv
<1> DEFINE m == NewTranslator
           e == Bare("message_start")
<1>1. sent = <<>> /\ frames = <<>> /\ translator = Emit(m, e)
  BY DEF Init
<1>2. translator \in TranslatorSet
  BY InductiveInit DEF Inductive, RelayTypeOK
<1>3. e \in EventSet /\ e.type = "message_start"
  BY BareTyped DEF EventTypes
<1>4. /\ m \in TranslatorSet
      /\ m.tools = [i \in ToolIndexes |-> NoBlock] /\ m.next = 0
      /\ m.finish = "none" /\ m.out = <<>>
  <2>1. NoBlock \in Indexes /\ 0 \in Indexes
    BY BlockNumbers DEF Indexes
  <2>2. QED
    BY <2>1 DEF NewTranslator, TranslatorSet, FinishReasons
<1> HIDE DEF m, e
<1>5. /\ translator.tools = m.tools /\ translator.next = m.next
      /\ translator.finish = m.finish /\ translator.out = Append(<<>>, e)
  BY <1>1, <1>3, <1>4, EmitTyped
<1>6. OpenedTools(m) = {}
  BY <1>4 DEF OpenedTools
<1>7. Tells(m, <<>>, Spoke(<<>>), Arguments(<<>>))
  <2>1. \A kind, bs : DeltasOf(<<>>, kind, bs) = <<>>
    BY NothingSaid
  <2>2. Spoke(<<>>) = <<>> /\ \A i \in ToolIndexes : Arguments(<<>>)[i] = <<>>
    BY NothingSaid DEF Spoke, Arguments
  <2>3. QED
    BY <1>6, <2>1, <2>2 DEF Tells
<1>8. <<>> \in Seq(EventSet)
  OBVIOUS
<1>9. translator.next >= m.next /\ e.type # "block_delta"
  BY <1>3, <1>4, <1>5
<1>10. /\ Tells(translator, Append(<<>>, e), Spoke(<<>>), Arguments(<<>>))
       /\ OpenedTools(translator) = OpenedTools(m)
  BY <1>2, <1>3, <1>4, <1>5, <1>7, <1>8, <1>9, TellsMore
<1>11. Made(sent, translator) = Append(<<>>, e)
  BY <1>1, <1>3, <1>5 DEF Made
<1>12. Called(<<>>) = {} /\ LastReason(<<>>) = "none"
  BY NothingSaid
<1>13. QED
  BY <1>1, <1>4, <1>5, <1>6, <1>10, <1>11, <1>12 DEF Follows

\* A frame is relayed: an error frame stops the relaying, others are followed.
LEMMA RelayFrameFollows ==
  ASSUME Inductive, ContentInv, Anthropic, phase = "reading", ~errorEmitted,
         NEW f \in Frames, f.type # "error", Len(frames) < MaxFrames
  PROVE  LET u == RelayFrame(f, Len(frames) + 1)
         IN  Follows(u, Made(sent, u), Append(frames, f))
<1>1. sent \in Seq(EventSet) /\ frames \in Seq(Frames)
  BY DEF Inductive, RelayTypeOK
<1>2. Sound(sent, translator, Len(frames))
  BY DEF Inductive, RelayTypeOK, MessageInv, BoundsInv, Sound
<1>3. Follows(translator, Made(sent, translator), frames)
  BY DEF ContentInv
<1> DEFINE n == Len(frames) + 1
           u == Feed(translator, n, f)
<1>4. Follows(u, Made(sent, u), Append(frames, f))
  BY <1>1, <1>2, <1>3, FeedFollows
<1>5. f.type \in {"chunk", "error", "done"}
  BY FrameParts
<1>6. CASE f.type = "chunk"
  <2>1. RelayFrame(f, n) = u
    BY <1>6 DEF RelayFrame
  <2>2. QED
    BY <1>4, <2>1
<1>7. CASE f.type = "done"
  <2>1. RelayFrame(f, n) = translator
    BY <1>7 DEF RelayFrame
  <2>2. u = translator
    BY <1>7, SilentFrame
  <2>3. QED
    BY <1>4, <2>1, <2>2
<1>8. QED
  BY <1>5, <1>6, <1>7

LEMMA EndCompletes ==
  ASSUME Inductive, ContentInv, Anthropic, phase = "reading", ~errorEmitted
  PROVE  LET u == FinishMessage(FeedTail(translator))
         IN  Complete(u, Made(sent, u), AllFrames)
<1>1. sent \in Seq(EventSet) /\ frames \in Seq(Frames)
  BY DEF Inductive, RelayTypeOK
<1>2. Sound(sent, translator, Len(frames))
  BY DEF Inductive, RelayTypeOK, MessageInv, BoundsInv, Sound
<1>3. Follows(translator, Made(sent, translator), frames)
  BY DEF ContentInv
<1>4. CASE UnendedFrame = <<>>
  <2>1. FeedTail(translator) = translator
    BY <1>4 DEF FeedTail
  <2>2. AllFrames = frames
    BY <1>1, <1>4, Joined DEF AllFrames
  <2>3. QED
    BY <1>1, <1>2, <1>3, <2>1, <2>2, FinishCompletes
<1>5. CASE UnendedFrame # <<>>
  <2> DEFINE f == UnendedFrame[1]
             u == FeedTail(translator)
             n == Len(frames) + 1
  <2>1. f \in Frames /\ Len(frames) < MaxFrames /\ UnendedFrame = <<f>>
    <3>1. pending \in PendingSet /\ UnendedFrame = Unended(pending)
      BY DEF Inductive, RelayTypeOK, PendingSet, Unended, UnendedFrame
    <3>2. f \in Frames /\ Len(frames) < MaxFrames
      BY <1>5, <3>1, PendingTyped DEF Inductive, BoundsInv
    <3>3. UnendedFrame = <<f>>
      BY <1>5 DEF UnendedFrame
    <3>4. QED
      BY <3>2, <3>3
  <2>2. u = Feed(translator, n, f)
    BY <1>5 DEF FeedTail
  <2> HIDE DEF f, u
  <2>3. AllFrames = Append(frames, f)
    BY <1>1, <2>1 DEF AllFrames
  <2>4. Sound(sent, u, n) /\ Follows(u, Made(sent, u), Append(frames, f))
    BY <1>1, <1>2, <1>3, <2>1, <2>2, FeedFollows
  <2>5. Complete(FinishMessage(u), Made(sent, FinishMessage(u)), Append(frames, f))
    BY <1>1, <2>4, FinishCompletes
  <2>6. QED
    BY <2>3, <2>5 DEF u
<1>6. QED
  BY <1>4, <1>5

LEMMA ContentStep == Inductive /\ Inductive' /\ ContentInv /\ [Next]_vars => ContentInv'
<1> SUFFICES ASSUME Inductive, Inductive', ContentInv, [Next]_vars, Anthropic'
             PROVE  ContentInv'
  BY DEF ContentInv
<1>a. Anthropic
  BY DEF Anthropic, Next, vars, Arrives, Completes, Interrupted, Ends, Yield, Disconnects,
         Returns, Finishes
<1>b. /\ sent \in Seq(EventSet) /\ frames \in Seq(Frames) /\ Len(frames) \in Nat
      /\ translator \in TranslatorSet /\ pending \in PendingSet
  BY DEF Inductive, RelayTypeOK, PendingSet
<1>c. /\ errorEmitted => ErrorSeen
      /\ phase = "reading" /\ ~errorEmitted
            => Follows(translator, Made(sent, translator), frames)
      /\ phase # "reading" /\ ending = "eof" /\ ~errorEmitted
            => Complete(translator, Made(sent, translator), AllFrames)
  BY <1>a DEF ContentInv
<1>d. phase = "reading" => ending = "none"
  BY DEF Inductive, RecordInv
<1>e. ASSUME errorEmitted' => ErrorSeen',
             phase' = "reading" /\ ~errorEmitted'
               => Follows(translator', Made(sent', translator'), frames'),
             phase' # "reading" /\ ending' = "eof" /\ ~errorEmitted'
               => Complete(translator', Made(sent', translator'), AllFrames')
      PROVE  ContentInv'
  BY <1>e DEF ContentInv
<1>1. ASSUME NEW f \in Frames, NEW whole \in BOOLEAN, Arrives(f, whole)
      PROVE  ContentInv'
  <2>1. /\ phase = "reading" /\ phase' = "reading" /\ translator' = translator
        /\ sent' = sent /\ frames' = frames /\ errorEmitted' = errorEmitted
    BY <1>1, <1>a DEF Arrives, Reading
  <2>2. errorEmitted' => ErrorSeen'
    BY <1>c, <2>1 DEF ErrorSeen, HasError
  <2>3. QED
    BY <1>c, <1>e, <2>1, <2>2
<1>2. CASE Completes
  <2> DEFINE f == pending[1].frame
             n == Len(frames) + 1
  <2>1. f \in Frames /\ Len(frames) < MaxFrames
    BY <1>2, <1>b, PendingTyped DEF Completes, Inductive, BoundsInv
  <2>2. /\ phase = "reading" /\ phase' = "reading" /\ frames' = Append(frames, f)
        /\ errorEmitted' = (errorEmitted \/ f.type = "error")
        /\ translator' = RelayFrame(f, n) /\ sent' = sent
    BY <1>2, <1>a DEF Completes, Reading
  <2> HIDE DEF f, n
  <2>3. ErrorSeen' <=> ErrorSeen \/ f.type = "error"
    BY <1>b, <2>1, <2>2, ErrorsAppend DEF ErrorSeen, HasError
  <2>4. ~errorEmitted' => Follows(translator', Made(sent', translator'), frames')
    <3>1. SUFFICES ASSUME ~errorEmitted, f.type # "error"
                   PROVE  Follows(translator', Made(sent', translator'), frames')
      BY <2>2
    <3>2. Follows(RelayFrame(f, n), Made(sent, RelayFrame(f, n)), Append(frames, f))
      BY <1>a, <2>1, <2>2, <3>1, RelayFrameFollows DEF n
    <3>3. QED
      BY <2>2, <3>2
  <2>5. errorEmitted' => ErrorSeen'
    BY <1>c, <2>2, <2>3
  <2>6. QED
    BY <1>e, <2>2, <2>4, <2>5
<1>3. CASE Interrupted
  <2>1. /\ phase' = "ending" /\ ending' = "interrupted"
        /\ frames' = frames /\ errorEmitted' = errorEmitted
    BY <1>3 DEF Interrupted
  <2>2. errorEmitted' => ErrorSeen'
    BY <1>c, <2>1 DEF ErrorSeen, HasError
  <2>3. QED
    BY <1>e, <2>1, <2>2
<1>4. CASE Ends
  <2>1. /\ phase = "reading" /\ phase' = "ending" /\ ending' = "eof"
        /\ frames' = frames /\ pending' = pending /\ errorEmitted' = errorEmitted
        /\ sent' = sent
    BY <1>4 DEF Ends, Reading
  <2>2. errorEmitted' => ErrorSeen'
    BY <1>c, <2>1 DEF ErrorSeen, HasError
  <2>3. AllFrames' = AllFrames
    BY <2>1 DEF AllFrames, UnendedFrame
  <2>4. ~errorEmitted' => Complete(translator', Made(sent', translator'), AllFrames')
    <3>1. SUFFICES ASSUME ~errorEmitted
                   PROVE  Complete(translator', Made(sent', translator'), AllFrames')
      BY <2>1
    <3>2. translator' = FinishMessage(FeedTail(translator))
      BY <1>4, <1>a, <3>1 DEF Ends
    <3>3. Complete(translator', Made(sent, translator'), AllFrames)
      BY <1>a, <2>1, <3>1, <3>2, EndCompletes
    <3>4. QED
      BY <2>1, <2>3, <3>3
  <2>5. QED
    BY <1>e, <2>1, <2>2, <2>4
<1>5. CASE Yield
  <2>1. /\ translator.out # <<>> /\ sent' = Append(sent, Head(translator.out))
        /\ translator' = [translator EXCEPT !.out = Tail(@)]
        /\ frames' = frames /\ pending' = pending /\ errorEmitted' = errorEmitted
        /\ phase' = phase /\ ending' = ending
    BY <1>5 DEF Yield
  <2>2. /\ translator'.tools = translator.tools /\ translator'.next = translator.next
        /\ translator'.finish = translator.finish
        /\ translator'.out = Tail(translator.out)
    BY <1>b, <2>1 DEF TranslatorSet
  <2>3. Made(sent', translator') = Made(sent, translator)
    <3>1. translator.out \in Seq(EventSet)
      BY <1>b, TranslatorParts
    <3>2. sent' \o Tail(translator.out) = sent \o translator.out
      BY <1>b, <2>1, <3>1, Taken
    <3>3. QED
      BY <2>2, <3>2 DEF Made
  <2>4. ASSUME NEW s, NEW fs, Follows(translator, s, fs)
        PROVE  Follows(translator', s, fs)
    <3>1. Tells(translator, s, Spoke(fs), Arguments(fs))
      BY <2>4 DEF Follows
    <3>2. /\ Tells(translator', s, Spoke(fs), Arguments(fs))
          /\ OpenedTools(translator') = OpenedTools(translator)
      BY <2>2, <3>1, TellsAlike
    <3>3. QED
      BY <2>2, <2>4, <3>2 DEF Follows
  <2>5. errorEmitted' => ErrorSeen'
    BY <1>c, <2>1 DEF ErrorSeen, HasError
  <2>6. AllFrames' = AllFrames
    BY <2>1 DEF AllFrames, UnendedFrame
  <2>7. phase' = "reading" /\ ~errorEmitted'
           => Follows(translator', Made(sent', translator'), frames')
    BY <1>c, <2>1, <2>3, <2>4
  <2>8. phase' # "reading" /\ ending' = "eof" /\ ~errorEmitted'
           => Complete(translator', Made(sent', translator'), AllFrames')
    BY <1>c, <2>1, <2>3, <2>4, <2>6 DEF Complete
  <2>9. QED
    BY <1>e, <2>5, <2>7, <2>8
<1>6. CASE Disconnects
  <2>1. /\ phase' = "closing" /\ ending' # "eof"
        /\ frames' = frames /\ errorEmitted' = errorEmitted
    BY <1>6 DEF Disconnects
  <2>2. errorEmitted' => ErrorSeen'
    BY <1>c, <2>1 DEF ErrorSeen, HasError
  <2>3. QED
    BY <1>e, <2>1, <2>2
<1>7. CASE Returns \/ Finishes \/ UNCHANGED vars
  <2>1. /\ frames' = frames /\ pending' = pending /\ errorEmitted' = errorEmitted
        /\ translator' = translator /\ sent' = sent /\ ending' = ending
        /\ phase' = phase \/ (phase # "reading" /\ phase' # "reading")
    BY <1>7 DEF Returns, Finishes, vars
  <2>2. errorEmitted' => ErrorSeen'
    BY <1>c, <2>1 DEF ErrorSeen, HasError
  <2>3. AllFrames' = AllFrames
    BY <2>1 DEF AllFrames, UnendedFrame
  <2>4. QED
    BY <1>c, <1>e, <2>1, <2>2, <2>3
<1>8. QED
  BY <1>1, <1>2, <1>3, <1>4, <1>5, <1>6, <1>7 DEF Next

-----------------------------------------------------------------------------
(* The message and the answer.                                             *)

\* Where no text comes from one source, the text is that of the others.
LEMMA TextOfNone ==
  ASSUME NEW S, NEW fs \in Seq(S), NEW sources, TextFrom(fs, sources) = <<>>
  PROVE  \A n \in DOMAIN fs : fs[n].text \notin sources
<1> DEFINE pre(k) == SubSeq(fs, 1, k)
           Q == Seq(Nat)
           X(k) == TextFrom(pre(k), sources)
<1>1. pre(0) = <<>> /\ pre(Len(fs)) = fs /\ Len(fs) \in Nat
  BY PrefixEnds
<1>2. ASSUME NEW k \in 1..Len(fs)
      PROVE  /\ pre(k - 1) \in Seq(S) /\ fs[k] \in S /\ pre(k) = Append(pre(k - 1), fs[k])
             /\ Len(pre(k - 1)) = k - 1
  <2>1. /\ pre(k - 1) \in Seq(S) /\ fs[k] \in S /\ pre(k) = Append(pre(k - 1), fs[k])
    BY PrefixStep
  <2>2. Len(pre(k - 1)) = k - 1
    OBVIOUS
  <2>3. QED
    BY <2>1, <2>2
<1> HIDE DEF pre
<1>3. ASSUME NEW k \in 1..Len(fs)
      PROVE  /\ X(k - 1) \in Q
             /\ X(k) = X(k - 1) \o (IF fs[k].text \in sources THEN <<k>> ELSE <<>>)
  <2>1. /\ pre(k - 1) \in Seq(S) /\ fs[k] \in S /\ pre(k) = Append(pre(k - 1), fs[k])
        /\ Len(pre(k - 1)) + 1 = k
    BY <1>2
  <2>2. /\ X(k - 1) \in Q
        /\ X(k) = X(k - 1) \o Spoken(fs[k], Len(pre(k - 1)) + 1, sources)
    BY <2>1, TextAppend
  <2>3. QED
    BY <2>1, <2>2 DEF Spoken
<1>4. ASSUME NEW q \in Q, NEW k \in Nat
      PROVE  q \o <<k>> # <<>> /\ (q \o <<>> = <<>> => q = <<>>)
  OBVIOUS
<1> HIDE DEF X, Q
<1> DEFINE T == {j \in 0..Len(fs) : X(Len(fs) - j) = <<>>}
<1>5. 0 \in T
  BY <1>1 DEF X
<1>6. ASSUME NEW k \in 1..Len(fs), X(k) = <<>>
      PROVE  X(k - 1) = <<>> /\ fs[k].text \notin sources
  <2>1. X(k - 1) \in Q /\ k \in Nat
    <3>1. k \in Nat
      OBVIOUS
    <3>2. X(k - 1) \in Q
      BY <1>3, Zenon
    <3>3. QED
      BY <3>1, <3>2
  <2>2. CASE fs[k].text \in sources
    <3>1. X(k) = X(k - 1) \o <<k>>
      BY <1>3, <2>2, Zenon
    <3>2. QED
      BY <1>4, <1>6, <2>1, <3>1
  <2>3. CASE fs[k].text \notin sources
    <3>1. X(k) = X(k - 1) \o <<>>
      BY <1>3, <2>3, Zenon
    <3>2. X(k - 1) = <<>>
      BY <1>4, <1>6, <2>1, <3>1
    <3>3. QED
      BY <2>3, <3>2
  <2>4. QED
    BY <2>2, <2>3
<1>7. ASSUME NEW j \in 1..Len(fs), j - 1 \in T PROVE j \in T
  <2> DEFINE k == Len(fs) - (j - 1)
  <2>1. k \in 1..Len(fs) /\ k - 1 = Len(fs) - j /\ j \in 0..Len(fs)
    BY <1>1
  <2>2. X(k) = <<>>
    BY <1>7
  <2> HIDE DEF k
  <2>3. X(k - 1) = <<>>
    BY <1>6, <2>1, <2>2
  <2>4. QED
    BY <2>1, <2>3
<1> HIDE DEF T
<1>8. \A j \in 0..Len(fs) : j \in T
  BY <1>1, <1>5, <1>7, UpTo
<1>9. ASSUME NEW n \in 1..Len(fs) PROVE fs[n].text \notin sources
  <2>1. Len(fs) - n \in 0..Len(fs) /\ Len(fs) - (Len(fs) - n) = n
    BY <1>1
  <2>2. X(n) = <<>>
    BY <1>8, <2>1 DEF T
  <2>3. QED
    BY <1>6, <2>2
<1>10. DOMAIN fs = 1..Len(fs)
  OBVIOUS
<1>11. QED
  BY <1>9, <1>10

LEMMA TextOfBoth ==
  ASSUME NEW S, NEW fs \in Seq(S)
  PROVE  /\ TextFrom(fs, {"refusal"}) = <<>>
               => TextFrom(fs, {"content", "refusal"}) = TextFrom(fs, {"content"})
         /\ TextFrom(fs, {"content"}) = <<>>
               => TextFrom(fs, {"content", "refusal"}) = TextFrom(fs, {"refusal"})
<1>1. ASSUME TextFrom(fs, {"refusal"}) = <<>>
      PROVE  TextFrom(fs, {"content", "refusal"}) = TextFrom(fs, {"content"})
  <2>1. \A n \in DOMAIN fs : fs[n].text \notin {"refusal"}
    BY <1>1, TextOfNone
  <2>2. \A n \in DOMAIN fs : fs[n].text \in {"content", "refusal"} <=> fs[n].text \in {"content"}
    BY <2>1
  <2>3. QED
    BY <2>2 DEF TextFrom
<1>2. ASSUME TextFrom(fs, {"content"}) = <<>>
      PROVE  TextFrom(fs, {"content", "refusal"}) = TextFrom(fs, {"refusal"})
  <2>1. \A n \in DOMAIN fs : fs[n].text \notin {"content"}
    BY <1>2, TextOfNone
  <2>2. \A n \in DOMAIN fs : fs[n].text \in {"content", "refusal"} <=> fs[n].text \in {"refusal"}
    BY <2>1
  <2>3. QED
    BY <2>2 DEF TextFrom
<1>3. QED
  BY <1>1, <1>2

LEMMA AllFramesTyped ==
  ASSUME Inductive
  PROVE  AllFrames \in Seq(Frames) /\ (ErrorSeen => Failed)
<1>1. frames \in Seq(Frames) /\ pending \in PendingSet
  BY DEF Inductive, RelayTypeOK, PendingSet
<1>2. Unended(pending) \in Seq(Frames)
  BY <1>1, PendingTyped
<1>3. AllFrames = frames \o Unended(pending)
  BY FailedParts DEF AllFrames
<1>4. frames \o Unended(pending) \in Seq(Frames)
  BY <1>1, <1>2
<1>5. ErrorSeen => Failed
  BY <1>1, FailedWhen, FailedParts DEF ErrorSeen
<1>6. QED
  BY <1>3, <1>4, <1>5

\* A message that has followed all the frames is the answer made from them.
LEMMA ContentImplies == Inductive /\ ContentInv => SameAsUnstreamed
<1> SUFFICES ASSUME Inductive, ContentInv, phase = "ended", Anthropic, ending = "eof",
                    ~Failed, PlainRefusal
             PROVE  Received = Answer
  BY DEF SameAsUnstreamed
<1> DEFINE fs == AllFrames
           reason == LastReason(fs)
           both == TextFrom(fs, {"content", "refusal"})
<1>1. fs \in Seq(Frames) /\ ~errorEmitted
  BY AllFramesTyped DEF ContentInv
<1>2. translator.out = <<>> /\ sent \in Seq(EventSet) /\ translator \in TranslatorSet
  BY DEF Inductive, MessageInv, RelayTypeOK
<1>3. Made(sent, translator) = sent
  BY <1>2, Joined DEF Made
<1>4. Complete(translator, sent, fs)
  BY <1>1, <1>3 DEF ContentInv
<1> HIDE DEF fs, both, reason
<1>5. /\ Tells(translator, sent, both, Arguments(fs))
      /\ OpenedTools(translator) = Called(fs)
      /\ Stops(sent) = {StopReason(reason)}
  BY <1>4 DEF Complete, Follows, Spoke, both, reason
<1>6. /\ Contents = TextFrom(fs, {"content"}) /\ Refusals = TextFrom(fs, {"refusal"})
      /\ Contents \in Seq(Nat) /\ Refusals \in Seq(Nat)
  <2>1. Contents = TextFrom(fs, {"content"}) /\ Refusals = TextFrom(fs, {"refusal"})
    BY DEF Contents, Refusals, fs
  <2>2. QED
    BY <1>1, <2>1, TextTyped
<1>7. Received.text = Answer.text
  <2>1. Received.text = both
    BY <1>5 DEF Received, Tells
  <2>2. Answer.text = IF Contents # <<>> \/ Refusals = <<>> THEN Contents ELSE <<Last(Refusals)>>
    BY DEF Answer
  <2>3. CASE Refusals = <<>>
    <3>1. both = Contents
      BY <1>1, <1>6, <2>3, TextOfBoth DEF both
    <3>2. QED
      BY <2>1, <2>2, <2>3, <3>1
  <2>4. CASE Refusals # <<>>
    <3>1. Len(Refusals) = 1 /\ Contents = <<>>
      BY <2>4 DEF PlainRefusal
    <3>2. both = Refusals
      BY <1>1, <1>6, <3>1, TextOfBoth DEF both
    <3>3. Refusals = <<Last(Refusals)>>
      BY <1>6, <3>1 DEF Last
    <3>4. QED
      BY <2>1, <2>2, <2>4, <3>1, <3>2, <3>3
  <2>5. QED
    BY <2>3, <2>4
<1>8. Received.tools = Answer.tools
  <2>1. {j \in ToolIndexes : translator.tools[j] # NoBlock} = Called(fs)
    BY <1>5 DEF OpenedTools
  <2>2. Received.tools = [i \in Called(fs) |-> DeltasOf(sent, "tool", {translator.tools[i]})]
    BY <2>1 DEF Received
  <2>3. Answer.tools = [i \in Called(fs) |-> ArgumentsOf(fs, i)]
    BY DEF Answer, fs
  <2>4. ASSUME NEW i \in Called(fs)
        PROVE  DeltasOf(sent, "tool", {translator.tools[i]}) = ArgumentsOf(fs, i)
    <3>1. DeltasOf(sent, "tool", {translator.tools[i]}) = Arguments(fs)[i]
      BY <1>5 DEF Tells
    <3>2. i \in ToolIndexes
      BY DEF Called
    <3>3. QED
      BY <3>1, <3>2 DEF Arguments
  <2>5. QED
    BY <2>2, <2>3, <2>4
<1>9. Received.stops = Answer.stops
  <2>1. Received.stops = {StopReason(reason)} /\ Answer.stops = {StopReason(FinishReason)}
    BY <1>5 DEF Received, Answer
  <2>2. CASE reason # "none"
    <3>1. FinishReason = reason
      BY <2>2 DEF FinishReason, reason, fs
    <3>2. QED
      BY <2>1, <3>1
  <2>3. CASE reason = "none"
    <3>1. Refusals = <<>>
      BY <2>3 DEF PlainRefusal, reason, fs
    <3>2. FinishReason = "stop"
      BY <2>3, <3>1 DEF FinishReason, reason, fs
    <3>3. StopReason("stop") = "end_turn" /\ StopReason(reason) = "end_turn"
      BY <2>3 DEF StopReason
    <3>4. QED
      BY <2>1, <3>2, <3>3
  <2>4. QED
    BY <2>2, <2>3
<1>10. /\ Received = [text |-> Received.text, tools |-> Received.tools, stops |-> Received.stops]
       /\ Answer = [text |-> Answer.text, tools |-> Answer.tools, stops |-> Answer.stops]
  BY DEF Received, Answer
<1>11. QED
  BY <1>7, <1>8, <1>9, <1>10

\* service.py:693 and service.py:941: whatever the frames, and wherever the body
\* is cut, a client that asked for a stream puts together the text, the tool
\* arguments and the stop reason that the same body gives when it is answered
\* without one - the two implementations agree, but for refusals that are not
\* plain.
THEOREM StreamEqualsAnswer == Spec => []SameAsUnstreamed
<1>1. Init => ContentInv
  BY ContentInit
<1>2. Inductive /\ Inductive' /\ ContentInv /\ [Next]_vars => ContentInv'
  BY ContentStep
<1>3. Inductive /\ ContentInv => SameAsUnstreamed
  BY ContentImplies
<1>4. QED
  BY <1>1, <1>2, <1>3, RelayInvariant, PTL DEF Spec
=============================================================================
