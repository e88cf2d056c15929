-------------------------- MODULE MCDurableJournal --------------------------
(***************************************************************************)
(* Two processes contend for the journal, with a file to spare for the      *)
(* checkpoint of each.  A page holds one heavy payload or two light ones.   *)
(***************************************************************************)
EXTENDS DurableJournal, TLC

CONSTANTS light, heavy

Weights == light :> 1 @@ heavy :> 2

\* Processes and files are only compared.
Symmetry == Permutations(Procs) \cup Permutations(Inodes)
=============================================================================
