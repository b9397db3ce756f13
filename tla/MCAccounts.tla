---------------------------- MODULE MCAccounts -----------------------------
(* a1 and a2 share an e-mail address, a3 has one of its own.                *)
EXTENDS Accounts, TLC

CONSTANTS a1, a2, a3, l1, l2, import, saver, shared, second, third, own, ownAlt

MCIds == {a1, a2, a3}
MCNames == {shared, second, third, own, ownAlt}
MCBaseName == (a1 :> shared) @@ (a2 :> shared) @@ (a3 :> own)
MCAltName == (a1 :> second) @@ (a2 :> third) @@ (a3 :> ownAlt)
MCWriters == Logins \cup {import, saver}
=============================================================================
