------------------------------ MODULE SubmitOnce ------------------------------
(***************************************************************************)
(* What a wallet's operation journal promises its caller, without saying   *)
(* how.  An operation is first armed: the decision to let WaaS act on it   *)
(* is recorded.  Only an armed operation is taken by WaaS, and it is taken *)
(* at most once.  The caller is told one verdict: "executed" or "signed"   *)
(* only of an operation that was taken; and an operation that was closed   *)
(* as failed without having been taken is never taken afterwards.          *)
(***************************************************************************)
EXTENDS Naturals

CONSTANT Ids            \* the operation identifiers

VARIABLES armed,        \* operations WaaS may act on
          taken,        \* taken[i]: how often WaaS acted on operation i
          verdict       \* what the caller has been told of operation i

vars == <<armed, taken, verdict>>

Verdicts == {"executed", "failed", "signed"}

Init == /\ armed = {}
        /\ taken = [i \in Ids |-> 0]
        /\ verdict = [i \in Ids |-> "open"]

Arm(i) == /\ i \notin armed
          /\ verdict[i] = "open"
          /\ armed' = armed \cup {i}
          /\ UNCHANGED <<taken, verdict>>

Take(i) == /\ i \in armed
           /\ taken[i] = 0
           /\ verdict[i] = "open"
           /\ taken' = [taken EXCEPT ![i] = 1]
           /\ UNCHANGED <<armed, verdict>>

\* Closing an operation nobody acted on takes the permission back.
Close(i) == /\ taken[i] = 0
            /\ verdict[i] = "open"
            /\ verdict' = [verdict EXCEPT ![i] = "failed"]
            /\ armed' = armed \ {i}
            /\ UNCHANGED taken

Report(i) == /\ taken[i] = 1
             /\ verdict[i] = "open"
             /\ \E v \in Verdicts : verdict' = [verdict EXCEPT ![i] = v]
             /\ UNCHANGED <<armed, taken>>

Next == \E i \in Ids : Arm(i) \/ Take(i) \/ Close(i) \/ Report(i)

Spec == Init /\ [][Next]_vars
===============================================================================
