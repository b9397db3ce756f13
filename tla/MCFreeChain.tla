---------------------------- MODULE MCFreeChain ----------------------------
EXTENDS FreeChain

CONSTANTS a1, a2, r1, r2

MCIdOf == [a \in Accounts |-> a]

MCChain == <<"first", "usage", "second">>

MCAsked == [r \in Requests |-> IF r = r1 THEN {"first"} ELSE {"second"}]
=============================================================================
