--------------------------- MODULE MC_AgentCredit ---------------------------
(* AgentCredit with one agent, and one LP or none.  A unit of Bps is a quarter: *)
(* a wallet of level 1 or 2 is liquidated below a NAV of three quarters, warned *)
(* below four, healthy from five on; levels 3 and 4 have each bound a quarter   *)
(* lower.                                                                       *)
EXTENDS AgentCredit

MCTrancheApr == [t \in Tranches |-> 1]
MCMaxCredit == <<3, 3, 4, 4>>
MCLeverage == [l \in {2, 3} |-> l - 1]
MCNavTrigger == <<3, 3, 2, 2>>
=============================================================================
