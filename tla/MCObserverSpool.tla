-------------------------- MODULE MCObserverSpool --------------------------
(* Instances of the observer's spool; the .cfg files give the bounds.        *)
EXTENDS ObserverSpool
=============================================================================
