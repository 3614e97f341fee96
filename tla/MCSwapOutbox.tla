----------------------------- MODULE MCSwapOutbox -----------------------------
(***************************************************************************)
(* Two swaps of one wallet, of which a tick advances one.  Both are saved  *)
(* again and again, and become due again and again, so that one waits in   *)
(* line while the other is advanced.  Two versions of each are told apart, *)
(* and one projection of a may arrive late.                                *)
(***************************************************************************)
EXTENDS SwapOutbox
CONSTANTS a, b
MCSwaps == {a, b}
MCLate == [s \in MCSwaps |-> IF s = a THEN 1 ELSE 0]
MCMax == [s \in MCSwaps |-> 2]
===============================================================================
