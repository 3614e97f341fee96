----------------------------- MODULE MCWorkspace -----------------------------
(* One transfer; two requests of browsers under way at once.               *)
EXTENDS Workspace

CONSTANTS t1, c1, c2

MCIds == {t1}
MCSigningIds == {}
MCSlots == {c1, c2}
\* The credential is accepted and the wallet enabled, and a quote runs out
\* before its transfer is on its way or not at all.
Bounded == /\ key = "live" /\ ~disabled
           /\ stale[t1] => wire[t1] = 0 /\ accepted[t1] = 0
===============================================================================
