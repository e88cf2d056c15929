------------------------- MODULE MCObserverCoverage -------------------------
(* Bounded instances of ObserverCoverage.                                   *)
EXTENDS ObserverCoverage

=============================================================================
