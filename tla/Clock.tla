------------------------------- MODULE Clock -------------------------------
(* time.monotonic(), in ticks: the clock the limiter and the catalogue read. *)
EXTENDS Naturals

CONSTANT Second   \* ticks in a second
VARIABLE clock

ASSUME SecondAssumption == Second \in Nat \ {0}
=============================================================================
