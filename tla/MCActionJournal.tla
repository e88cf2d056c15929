-------------------------- MODULE MCActionJournal --------------------------
(***************************************************************************)
(* Two intents, two digests, frames of one or two bytes.  Room for eleven   *)
(* records and 18 bytes: the first plan's complete life and its reservation *)
(* need eight, so a second intent is admitted in some histories and refused *)
(* in others, by either limit.                                              *)
(***************************************************************************)
EXTENDS ActionJournal, TLC

\* Intents and digests are only compared, and no property is a liveness property.
Symmetry == Permutations(Intents) \cup Permutations(Digests)
=============================================================================
