------------------------ MODULE MC_RevenueValidation ------------------------
(* RevenueValidation on a small instance: a merchant without a PDA wallet, its  *)
(* owner and one customer, rings of two.                                        *)
EXTENDS RevenueValidation

CONSTANTS owner, customer, noKey

MCKeys == {owner, customer}
MCListedKeys == {customer}
=============================================================================
