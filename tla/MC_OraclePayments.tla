------------------------- MODULE MC_OraclePayments -------------------------
(* OraclePayments with attempts, batches and reservations scaled down.        *)
EXTENDS OraclePayments, TLC

(* Nothing tells two callbacks or two rows apart but what happens to them     *)
Symmetry == Permutations(Workers) \cup Permutations(Ids)
=============================================================================
