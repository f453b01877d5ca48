--------------------------- MODULE MC_CreditVault ---------------------------
(* CreditVault on a small instance.  The scale keeps every division of the      *)
(* program able to round and every share of a split able to be non-zero: one    *)
(* unit of Bps is a quarter, a year is two ticks, and every APR and fee is a    *)
(* few quarters.                                                                *)
EXTENDS CreditVault

MCTrancheApr == [t \in Tranches |-> IF t = Junior THEN 2 ELSE 1]
MCMaxCredit == <<2, 4, 4, 4>>
MCLeverage == [l \in {2, 3} |-> l - 1]
=============================================================================
