----------------------------- MODULE SwapContract -----------------------------
(***************************************************************************)
(* What the owner of a wallet is promised of each thing a swap does for    *)
(* them, its deposit and its recoveries, without saying how it is kept.    *)
(* Nothing is paid that was not agreed to, and it is paid once.  Each ends *)
(* once, and what it ended as stays: "closed" if nothing was paid,         *)
(* "delivered" only if it was, or "refunded".  After that nothing is paid  *)
(* any more.                                                               *)
(***************************************************************************)
CONSTANT Ids            \* the swaps, or the recoveries of a swap

VARIABLES agreed,       \* what the owner has confirmed, until it is closed
          paid,         \* what was paid
          outcome       \* what the owner is told of each

vars == <<agreed, paid, outcome>>

Init == /\ agreed = {} /\ paid = {}
        /\ outcome = [i \in Ids |-> "open"]

Agree(i) == /\ i \notin agreed /\ outcome[i] = "open"
            /\ agreed' = agreed \cup {i}
            /\ UNCHANGED <<paid, outcome>>

Pay(i) == /\ i \in agreed \ paid /\ outcome[i] = "open"
          /\ paid' = paid \cup {i}
          /\ UNCHANGED <<agreed, outcome>>

\* Closing takes the agreement back; an offer nobody agreed to is closed too.
Close(i) == /\ outcome[i] = "open" /\ i \notin paid
            /\ outcome' = [outcome EXCEPT ![i] = "closed"]
            /\ agreed' = agreed \ {i}
            /\ UNCHANGED paid

Deliver(i) == /\ outcome[i] = "open" /\ i \in paid
              /\ outcome' = [outcome EXCEPT ![i] = "delivered"]
              /\ UNCHANGED <<agreed, paid>>

Refund(i) == /\ outcome[i] = "open" /\ i \in agreed
             /\ outcome' = [outcome EXCEPT ![i] = "refunded"]
             /\ UNCHANGED <<agreed, paid>>

Next == \E i \in Ids : Agree(i) \/ Pay(i) \/ Close(i) \/ Deliver(i) \/ Refund(i)

Spec == Init /\ [][Next]_vars
===============================================================================
