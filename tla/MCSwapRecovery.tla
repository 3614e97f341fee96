---------------------------- MODULE MCSwapRecovery ----------------------------
(* One or two recoveries of a swap, and a transfer, all on its source chain, *)
(* or one recovery alone.                                                    *)
EXTENDS SwapRecovery

CONSTANTS r1, r2, t1

MCOne == {r1}
MCTwo == {r1, r2}
MCTransfer == {t1}
MCNone == {}
MCSame(k) == "origin"
MCOrigin == "origin"
\* The second recovery is looked at for a swap that was paid for, where the
\* wallet is deployed and not disabled, and no transfer competes.
Bounded == \/ swap.status[r2] = "none"
           \/ /\ code # {} /\ ~disabled /\ swap.fundingConfirmed
              /\ journal[Transfer(t1)] = "absent"
===============================================================================
