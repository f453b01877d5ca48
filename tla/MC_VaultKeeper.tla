--------------------------- MODULE MC_VaultKeeper ---------------------------
(* VaultKeeper with amounts, rates and days scaled down.                      *)
EXTENDS VaultKeeper
=============================================================================
