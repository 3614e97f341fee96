---------------------------- MODULE MCSwapFunding ----------------------------
(***************************************************************************)
(* A swap and an ordinary transfer that compete for one source chain.      *)
(***************************************************************************)
EXTENDS SwapFunding

CONSTANTS a, t

MCSwap == {a}
MCTransfer == {t}
MCNoTransfer == {}
MCChain(k) == "origin"
===============================================================================
