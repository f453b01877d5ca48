---------------------------- MODULE LendingPool ----------------------------
(* What a share-priced lending pool promises its holders, without tranches,     *)
(* interest, insurance or clocks: holders exchange cash for shares at a price   *)
(* that no exchange moves against those who stay, the pool lends only idle      *)
(* cash, and the value of the pool falls only when a loan is written off.       *)
(* CreditVault implements it (CreditVault!Pool).  A step is stated as a         *)
(* relation between the old and the new state.                                  *)
EXTENDS Arithmetic

CONSTANT NHolders

VARIABLES assets,   \* what the pool owns: idle cash and loans at principal
          lent,     \* the part of it that is out on loan
          shares    \* the shares of each holder

poolVars == <<assets, lent, shares>>
Holders == 1 .. NHolders
Outstanding == Total(shares, NHolders)
Idle == SatSub(assets, lent)

PoolInit ==
    /\ assets = 0
    /\ lent = 0
    /\ shares = [h \in Holders |-> 0]

(* h pays cash for new shares, at most what the cash is worth; an empty pool    *)
(* mints one share per unit                                                     *)
Subscribe(h) ==
    LET cash == assets' - assets
        minted == shares'[h] - shares[h]
    IN  /\ cash > 0
        /\ minted > 0
        /\ IF assets = 0 \/ Outstanding = 0
           THEN minted = cash
           ELSE minted * assets <= cash * Outstanding
        /\ shares' = [shares EXCEPT ![h] = @ + minted]
        /\ lent' = lent

(* h gives shares of its own back for idle cash, at most what they are worth *)
Redeem(h) ==
    LET cash == assets - assets'
        burned == shares[h] - shares'[h]
    IN  /\ burned \in 1 .. shares[h]
        /\ cash \in 0 .. Idle
        /\ cash * Outstanding <= burned * assets
        /\ shares' = [shares EXCEPT ![h] = @ - burned]
        /\ lent' = lent

(* idle cash goes out on loan *)
Lend ==
    /\ lent' > lent
    /\ lent' - lent <= Idle
    /\ UNCHANGED <<assets, shares>>

(* principal comes back, with a gain *)
Collect ==
    /\ lent' \in 0 .. lent
    /\ assets' >= assets
    /\ UNCHANGED shares

(* a loan is given up: the only step in which the pool loses value *)
Default ==
    /\ lent' \in 0 .. lent
    /\ assets' \in 0 .. assets
    /\ UNCHANGED shares

PoolNext ==
    \/ \E h \in Holders : Subscribe(h) \/ Redeem(h)
    \/ Lend
    \/ Collect
    \/ Default

PoolSpec == PoolInit /\ [][PoolNext]_poolVars
=============================================================================
