------------------------- MODULE MCWalletCredentials -------------------------
(***************************************************************************)
(* Two key pairs, the wallet this host may create, a second one it must    *)
(* not create, and one that somebody else creates.                         *)
(***************************************************************************)
EXTENDS WalletCredentials

CONSTANTS c1, c2, w1, w2, o1

MCCredentials == {c1, c2}
MCWallets == {w1, w2, o1}
MCOthers == {o1}
MCTwoWallets == {w1, o1}
MCCalling == Callers
Bounded == o1 \in wallets => ~disabled /\ op \in {"idle", "use"}
===============================================================================
