----------------------------- MODULE TrailsChecks -----------------------------
(***************************************************************************)
(* The two places where an answer of Trails is checked before the wallet   *)
(* acts on it: a quote before it is stored, and a recovery before it is    *)
(* signed and submitted.  They share no state; a behaviour is a use of the *)
(* one or of the other.                                                    *)
(***************************************************************************)
EXTENDS QuoteChecks, RecoveryChecks

VARIABLE checking       \* what Trails answers about

vars == <<checking, quoteVars, recoveryVars>>

\* No recovery is at work.
RecoveryIdle ==
  /\ stage = "refused" /\ reviewed = Nothing /\ allowed = Nothing /\ moved = Nothing
  /\ envelope = <<>> /\ payload = <<>> /\ built = <<>> /\ next = 1

Init == /\ QuoteInit
        /\ \/ checking = "quote" /\ RecoveryIdle
           \/ checking = "recovery" /\ RecoveryInit

CheckQuote    == checking = "quote" /\ QuoteNext /\ UNCHANGED <<checking, recoveryVars>>
CheckRecovery == checking = "recovery" /\ RecoveryNext /\ UNCHANGED <<checking, quoteVars>>

Next == CheckQuote \/ CheckRecovery

\* Checking a recovery is computation; it waits for Trails once, for an answer
\* that comes or fails.
Spec == Init /\ [][Next]_vars /\ WF_vars(CheckRecovery)
===============================================================================
