------------------------------ MODULE MCFront ------------------------------
(* Two handlers, one limited and one unlimited key, and a feed that is      *)
(* sound, then malformed in each of three ways, then sound with a model     *)
(* under two headings.                                                      *)
EXTENDS Front, TLC

CONSTANTS k1, k2, c1, c2, missing, bad

MCKeys == {k1, k2}
MCRpm == (k1 :> 2) @@ (k2 :> 0)
MCGroups == <<"recommended", "free">>
MCFeed == << ("recommended" :> <<"a">>) @@ ("free" :> <<"b">>),
             ("recommended" :> <<"a", bad>>) @@ ("free" :> <<"c">>),
             ("recommended" :> missing) @@ ("free" :> <<"c">>),
             ("recommended" :> <<>>) @@ ("free" :> <<>>),
             ("recommended" :> <<"b", "a">>) @@ ("free" :> <<"b">>) >>
=============================================================================
