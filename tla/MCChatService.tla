--------------------------- MODULE MCChatService ---------------------------
EXTENDS ChatService, Availability, TLC

CONSTANTS a1, a2, a3, r1, r2, r3

\* Every object has an id of its own, but for a3: a new object for the id of a1.
MCIdOf == [a \in Accounts |-> CASE a = a2 -> "id2" [] OTHER -> "id1"]
MCIds == {"id1", "id2"}

\* Sound where Streaming is empty or all of Requests.
RequestSymmetry == Permutations(Requests)
=============================================================================
