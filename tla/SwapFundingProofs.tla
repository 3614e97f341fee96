--------------------------- MODULE SwapFundingProofs ---------------------------
(***************************************************************************)
(* Theorems about the funding of swaps, for every set of swaps, transfers  *)
(* and chains.                                                             *)
(*                                                                         *)
(* The invariants relate three things that move apart: the record, the     *)
(* copy a job works on, and the journal.  RecordOK says what a record may  *)
(* say, given the journal and the debit; WorkInv, that the copy may be     *)
(* saved at every step, and what a step knows that it does not check       *)
(* again; DebitInv, how far the journal may lag behind the debit.          *)
(*                                                                         *)
(* Under the same invariant every step is one of SubmitOnce or a stutter:  *)
(* what is assumed of the journal here is what OperationJournal provides;  *)
(* and one of SwapContract: what the owner is told of a swap is kept.      *)
(***************************************************************************)
EXTENDS SwapFunding, TLAPS

\* A job that runs is about a debit, and beyond its Execute about a swap.
TypeInv == /\ TypeOK
           /\ (at = "idle") <=> (current = None)
           /\ at \notin {"idle", "executing"} => current \in Swaps

\* The journal lags behind the debit, and never leads.
DebitOK(k) ==
  /\ journal[k] \in {"absent", "preparing"} => debit[k] = "none"
  /\ journal[k] = "quoted" => debit[k] \in {"quoted", "failed"}
  /\ journal[k] = "failed" => debit[k] \in {"none", "failed"}
  /\ journal[k] \in {"submitting", "unknown"} => debit[k] # "none"
  /\ journal[k] = "pending" =>
       debit[k] \in {"pending", "success", "reverted", "failed"}
  /\ journal[k] = "executed" => debit[k] \in {"success", "reverted"}

DebitInv == \A k \in Debits : DebitOK(k)

\* What a record r of swap s may say.
RecordOK(s, r) ==
  /\ ~r.confirmed => /\ r.phase \in {"none", "quoted", "expired"}
                     /\ r.action = "none" /\ r.funding = "absent"
                     /\ ~r.fundingConfirmed /\ journal[s] = "absent"
  /\ r.phase \in {"none", "quoted"} => ~r.confirmed
  /\ r.fundingConfirmed => /\ r.funding = "executed" /\ journal[s] = "executed"
                           /\ debit[s] = "success" /\ r.action \notin Unfunded
  /\ r.action \in Unfunded => r.phase \in {"preparing", "activating", "funding"}
  /\ r.action = "observe" => /\ r.phase \in {"settling", "attention"}
                             /\ journal[s] \in {"executed", "failed"}
  /\ r.phase \in {"failed", "expired"} =>
       /\ r.action = "none"
       /\ journal[s] \notin Uncertain \cup {"executed"}
  /\ r.phase \in {"succeeded", "refunded"} =>
       /\ r.action = "none"
       /\ journal[s] \in {"executed", "failed"}
  /\ r.phase = "succeeded" => r.fundingConfirmed
  /\ journal[s] = "absent" => r.funding = "absent"

RecordInv == \A s \in Swaps : RecordOK(s, swap[s])

\* The record the running job took, and its copy.
CopyInv ==
  current \in Swaps =>
    /\ RecordOK(current, work)
    /\ swap[current].confirmed /\ work.confirmed
    /\ work.fundingConfirmed = swap[current].fundingConfirmed
    /\ swap[current].action # "none" /\ work.action # "none"
    /\ (swap[current].action \in Unfunded) <=> (work.action \in Unfunded)
    /\ (at \in {"observe", "repair", "observed"}) <=> (work.action = "observe")

\* What a step of a job relies on without looking at it again.
StepInv ==
  /\ at \in {"prepare-funding", "activate", "activating", "fund", "check",
             "submit", "result"} => work.funding = journal[current]
  /\ at \in {"prepare-funding", "preparing", "quoting", "activate",
             "activating"} => /\ journal[current] \notin Uncertain \cup {"executed"}
                              /\ work.funding \notin Uncertain \cup {"executed"}
  /\ at = "quoting" => journal[current] = "preparing"
  /\ at \in {"check", "submit"} => journal[current] = "quoted"
  /\ at = "executing" => journal[current] = "submitting"
  /\ at = "submit" => Available(current) /\ trails[current] # "QUOTED"
  /\ at \in {"activating", "repair"} => ~disabled
  /\ at \in {"repair", "observed"} /\ seen \in {"SUCCEEDED", "REFUNDED"} =>
       trails[current] = seen

\* What a record says of the outcome.
OutcomeInv == \A s \in Swaps :
  /\ swap[s].phase = "succeeded" => trails[s] = "SUCCEEDED"
  /\ swap[s].phase = "refunded" => trails[s] = "REFUNDED"

StateInv == DebitInv /\ RecordInv /\ CopyInv /\ StepInv /\ OutcomeInv
JobInv   == TypeInv /\ StateInv

IInv == JobInv /\ OneDebitPerChain

-------------------------------------------------------------------------------
(* Types                                                                   *)

\* The changes the steps make to a record give a record.
LEMMA RecordTyped ==
  ASSUME NEW r \in Records, NEW p \in Phases, NEW a \in Actions, NEW f \in Statuses
  PROVE  /\ [r EXCEPT !.phase = p] \in Records
         /\ [r EXCEPT !.phase = p, !.action = a] \in Records
         /\ [r EXCEPT !.funding = f] \in Records
         /\ [r EXCEPT !.funding = f, !.action = a] \in Records
         /\ [r EXCEPT !.fundingConfirmed = TRUE, !.phase = p, !.action = a] \in Records
         /\ [r EXCEPT !.confirmed = TRUE, !.phase = p, !.action = a] \in Records
         /\ Ruled(r) \in Records
<1>1. [r EXCEPT !.phase = p] \in Records
  BY DEF Records
<1>2. [r EXCEPT !.phase = p, !.action = a] \in Records
  BY DEF Records
<1>3. [r EXCEPT !.funding = f] \in Records
  BY DEF Records
<1>4. [r EXCEPT !.funding = f, !.action = a] \in Records
  BY DEF Records
<1>5. [r EXCEPT !.fundingConfirmed = TRUE, !.phase = p, !.action = a] \in Records
  BY DEF Records
<1>6. [r EXCEPT !.confirmed = TRUE, !.phase = p, !.action = a] \in Records
  BY DEF Records
<1>7. [r EXCEPT !.phase = "failed", !.action = "none"] \in Records
  BY DEF Records, Phases, Actions
<1>8. Ruled(r) \in Records
  BY <1>7 DEF Ruled
<1> QED
  BY <1>1, <1>2, <1>3, <1>4, <1>5, <1>6, <1>8

\* The record of a swap as advance takes it.
LEMMA RereadTyped ==
  ASSUME TypeOK, NEW s \in Swaps
  PROVE  Reread(s) \in Records
<1>1. /\ swap[s] \in Records /\ swap[s].funding \in Statuses
      /\ swap[s].action \in Actions /\ journal[s] \in Statuses
      /\ "fund" \in Actions
  BY DEF TypeOK, Debits, Records, Actions, Unfunded
<1> QED
  BY <1>1, RecordTyped, "none" \in Phases DEF Reread, Phases

\* What observe makes of a record is a record.
LEMMA SettledTyped ==
  ASSUME NEW r \in Records
  PROVE  Settled(r) \in Records
<1>1. /\ {"succeeded", "refunded", "attention", "settling"} \subseteq Phases
      /\ "none" \in Actions /\ "absent" \in Statuses
  BY DEF Phases, Actions, Statuses
<1> QED
  BY <1>1, RecordTyped DEF Settled

\* Saving a record and resting keeps the types.
LEMMA RestTyped ==
  ASSUME TypeInv, NEW r \in Records, SaveAndRest(r),
         journal' \in [Debits -> Statuses],
         debit' \in [Debits -> {"none", "quoted", "flying", "pending", "success",
                                "reverted", "failed"}],
         flight' \in [Swaps -> {"none", "ExecuteIntent", "RetryIntent"}],
         cooling' \in [Swaps -> BOOLEAN],
         UNCHANGED <<disabled, trails, left, quoteLeft>>
  PROVE  TypeInv'
<1>1. swap' \in [Swaps -> Records]
  BY DEF TypeInv, TypeOK, SaveAndRest, Save
<1>2. NoRecord \in Records /\ "none" \in Intents
  BY DEF NoRecord, Records, Phases, Actions, Statuses, Intents
<1> QED
  BY <1>1, <1>2 DEF TypeInv, TypeOK, SaveAndRest, Rest, Steps

\* The initial state has its types.
LEMMA InitTypeInv == Init => TypeInv
<1> SUFFICES ASSUME Init PROVE TypeInv
  OBVIOUS
<1>1. NoRecord \in Records /\ "none" \in Intents /\ "idle" \in Steps
  BY DEF NoRecord, Records, Phases, Actions, Statuses, Intents, Steps
<1>2. "ample" \in Left /\ "absent" \in Statuses
  BY DEF Left, Statuses
<1> QED
  <2>1. TypeOK
    BY <1>1, <1>2 DEF Init, TypeOK
  <2>2. at = "idle" /\ current = None
    BY DEF Init
  <2> QED
    BY <2>1, <2>2 DEF TypeInv

\* Every step keeps the types.
LEMMA NextTypeInv == TypeInv /\ [Next]_vars => TypeInv'
<1> SUFFICES ASSUME TypeInv, [Next]_vars PROVE TypeInv'
  OBVIOUS
<1> USE NamesAssumption
    DEF TypeInv, TypeOK, Debits, Free, Goto, Save, Rest, SaveAndRest, durable,
        volatile, world
<1>p. /\ {"quoted", "preparing", "activating", "funding", "settling",
          "attention", "failed", "expired"} \subseteq Phases
      /\ Unfunded \cup {"none", "observe"} \subseteq Actions
      /\ {"prepare-funding", "activate", "fund", "none", "observe"} \subseteq Actions
      /\ {"absent", "preparing", "quoted", "submitting", "pending", "executed",
          "failed", "unknown"} \subseteq Statuses
  BY DEF Phases, Actions, Unfunded, Statuses
<1>i. /\ {"none", "QUOTED", "WAITING", "DEPOSITED", "MISSED", "SUCCEEDED",
          "REFUNDED", "FAILED", "ABORTED"} \subseteq Intents
      /\ {"ample", "short", "none"} = Left
  BY DEF Intents, Left
<1>s. Steps = {"idle", "prepare-funding", "preparing", "quoting", "activate",
               "activating", "fund", "check", "submit", "executing", "result",
               "observe", "repair", "observed"}
  BY DEF Steps
<1>n. NoRecord \in Records
  BY DEF NoRecord, Records, Phases, Actions, Statuses
<1>r. /\ NoRecord \in Records /\ work \in Records
      /\ \A p \in Phases, a \in Actions :
           /\ [work EXCEPT !.phase = p] \in Records
           /\ [work EXCEPT !.phase = p, !.action = a] \in Records
           /\ [work EXCEPT !.fundingConfirmed = TRUE, !.phase = p, !.action = a]
                \in Records
      /\ \A f \in Statuses : [work EXCEPT !.funding = f] \in Records
      /\ Ruled(work) \in Records
  BY <1>p, <1>n, RecordTyped
<1> USE <1>s
<1>1. CASE Fail
  <2>1. PICK r \in Records : SaveAndRest(r)
    BY <1>1, <1>p, <1>r DEF Fail
  <2>2. UNCHANGED <<journal, disabled, world>>
    BY <1>1 DEF Fail
  <2> QED
    BY <2>1, <2>2, RestTyped
<1>2. CASE PrepareFunding
  BY <1>2, <1>p, <1>i, <1>n DEF PrepareFunding
<1>3. CASE PrepareRecord
  BY <1>3, <1>p, <1>i, <1>n DEF PrepareRecord
<1>4. CASE PrepareAnswered
  <2>1. CASE Goto("preparing")
    <3>1. /\ journal' = [journal EXCEPT ![current] = "quoted"]
          /\ debit' = [debit EXCEPT ![current] = "quoted"]
          /\ UNCHANGED <<swap, current, work, seen>>
      BY <1>4, <2>1 DEF PrepareAnswered
    <3>2. UNCHANGED <<disabled, trails, flight, left, quoteLeft, cooling>>
      BY <1>4 DEF PrepareAnswered
    <3>3. at = "quoting"
      BY <1>4 DEF PrepareAnswered
    <3> QED
      BY <1>p, <2>1, <3>1, <3>2, <3>3
  <2>2. CASE ~Goto("preparing")
    <3>1. PICK r \in {work, Ruled(work)} : SaveAndRest(r)
      BY <1>4, <2>2 DEF PrepareAnswered
    <3>2. journal' = [journal EXCEPT ![current] = "failed"] /\ UNCHANGED debit
      BY <1>4, <2>2 DEF PrepareAnswered
    <3>3. UNCHANGED <<disabled, trails, flight, left, quoteLeft, cooling>>
      BY <1>4 DEF PrepareAnswered
    <3>4. r \in Records
      BY <1>r, <3>1
    <3>5. journal' \in [Debits -> Statuses]
      BY <1>p, <3>2
    <3> QED
      BY <3>1, <3>2, <3>3, <3>4, <3>5, RestTyped
  <2> QED
    BY <2>1, <2>2
<1>5. CASE Prepared
  <2> DEFINE r == [work EXCEPT !.funding = journal[current]]
  <2>1. r \in Records
    BY <1>5, <1>p, <1>r DEF Prepared
  <2>2. /\ [r EXCEPT !.phase = "activating", !.action = "activate"] \in Records
        /\ Ruled(r) \in Records
    BY <2>1, <1>p, RecordTyped
  <2>3. PICK q \in Records : SaveAndRest(q)
    BY <1>5, <2>2 DEF Prepared
  <2>4. UNCHANGED <<journal, disabled, world>>
    BY <1>5 DEF Prepared
  <2> QED
    BY <2>3, <2>4, RestTyped
<1>6. CASE NotSponsored
  <2>1. PICK r \in Records : SaveAndRest(r)
    BY <1>6, <1>p, <1>r DEF NotSponsored
  <2>2. UNCHANGED <<journal, disabled, world>>
    BY <1>6 DEF NotSponsored
  <2> QED
    BY <2>1, <2>2, RestTyped
<1>7. CASE ActivateQuoted
  BY <1>7, <1>p, <1>i, <1>n DEF ActivateQuoted, Sponsored
<1>8. CASE ExecuteIntent
  BY <1>8, <1>p, <1>i, <1>n DEF ExecuteIntent
<1>9. CASE ActivateRead
  <2>1. PICK r \in Records : SaveAndRest(r)
    BY <1>9, <1>p, <1>r DEF ActivateRead
  <2>2. UNCHANGED <<journal, disabled, world>>
    BY <1>9 DEF ActivateRead
  <2> QED
    BY <2>1, <2>2, RestTyped
<1>10. CASE FundRead
  <2>1. PICK status \in {WaasStatus(current), journal[current]} :
          /\ journal' = [journal EXCEPT ![current] = status]
          /\ work' = [work EXCEPT !.funding = status]
          /\ Goto(IF status = "quoted" THEN "check" ELSE "result")
    BY <1>10 DEF FundRead
  <2>2. status \in Statuses
    BY <1>10, <1>p, <2>1 DEF WaasStatus, FundRead
  <2>3. work' \in Records /\ journal' \in [Debits -> Statuses]
    BY <1>r, <2>1, <2>2
  <2>4. at = "fund" /\ UNCHANGED <<swap, disabled, current, seen, world>>
    BY <1>10 DEF FundRead
  <2> QED
    BY <2>1, <2>3, <2>4
<1>11. CASE FundRefused
  <2>1. PICK r \in Records : SaveAndRest(r)
    BY <1>11, <1>p, <1>r DEF FundRefused
  <2>2. UNCHANGED <<journal, disabled, world>>
    BY <1>11 DEF FundRefused
  <2> QED
    BY <2>1, <2>2, RestTyped
<1>12. CASE FundAccepted
  BY <1>12, <1>p, <1>i, <1>n DEF FundAccepted, Sponsored, AcceptsFunding
<1>13. CASE SubmitExpired
  <2>1. PICK r \in Records : SaveAndRest(r)
    BY <1>13, <1>p, <1>r DEF SubmitExpired
  <2>2. UNCHANGED <<journal, disabled, world>>
    BY <1>13 DEF SubmitExpired
  <2> QED
    BY <2>1, <2>2, RestTyped
<1>14. CASE SubmitFunding
  BY <1>14, <1>p, <1>i, <1>n DEF SubmitFunding, Submit
<1>15. CASE Executed
  <2>1. PICK status \in {WaasStatus(current), "unknown"} :
          /\ journal' = [journal EXCEPT ![current] = status]
          /\ IF current \in Swaps
             THEN /\ work' = [work EXCEPT !.funding = status]
                  /\ Goto("result")
                  /\ UNCHANGED <<current, seen>>
             ELSE Rest
    BY <1>15 DEF Executed
  <2>2. status \in Statuses
    BY <2>1, <1>p DEF WaasStatus
  <2>3. UNCHANGED <<swap, disabled, world>>
    BY <1>15 DEF Executed
  <2>4. journal' \in [Debits -> Statuses]
    BY <2>1, <2>2
  <2>5. CASE current \in Swaps
    <3>1. work' \in Records /\ at' = "result" /\ UNCHANGED <<current, seen>>
      BY <1>r, <2>1, <2>2, <2>5
    <3> QED
      BY <1>15, <2>3, <2>4, <2>5, <3>1 DEF Executed
  <2>6. CASE current \notin Swaps
    <3>1. Rest
      BY <2>1, <2>6
    <3> QED
      BY <1>n, <1>i, <2>3, <2>4, <3>1
  <2> QED
    BY <2>5, <2>6
<1>16. CASE FundConfirmed
  <2>1. PICK r \in Records : SaveAndRest(r)
    BY <1>16, <1>p, <1>r DEF FundConfirmed
  <2>2. UNCHANGED <<journal, disabled, world>>
    BY <1>16 DEF FundConfirmed
  <2> QED
    BY <2>1, <2>2, RestTyped
<1>17. CASE FundReverted
  <2>1. PICK r \in Records : SaveAndRest(r)
    BY <1>17, <1>p, <1>r DEF FundReverted
  <2>2. UNCHANGED <<journal, disabled, world>>
    BY <1>17 DEF FundReverted
  <2> QED
    BY <2>1, <2>2, RestTyped
<1>18. CASE FundPending
  <2>1. PICK r \in Records : SaveAndRest(r)
    BY <1>18, <1>p, <1>r DEF FundPending
  <2>2. UNCHANGED <<journal, disabled, world>>
    BY <1>18 DEF FundPending
  <2> QED
    BY <2>1, <2>2, RestTyped
<1>19. CASE ObserveRead
  BY <1>19, <1>p, <1>i, <1>n DEF ObserveRead, Repairable
<1>20. CASE Repair
  <2>1. /\ cooling' \in [Swaps -> BOOLEAN] /\ swap' \in [Swaps -> Records]
        /\ flight' \in [Swaps -> {"none", "ExecuteIntent", "RetryIntent"}]
    BY <1>20 DEF Repair
  <2>2. at = "repair" /\ UNCHANGED <<journal, disabled, debit, trails, left, quoteLeft>>
    BY <1>20 DEF Repair
  <2>3. CASE Goto("observed")
    <3>1. UNCHANGED <<current, work, seen>>
      BY <1>20, <2>3 DEF Repair
    <3> QED
      BY <2>1, <2>2, <2>3, <3>1
  <2>4. CASE Rest
    BY <1>n, <1>i, <2>1, <2>2, <2>4
  <2> QED
    BY <1>20, <2>3, <2>4 DEF Repair
<1>21. CASE Observed
  <2>1. PICK r \in Records : SaveAndRest(r)
    BY <1>21, <1>p, <1>r, SettledTyped DEF Observed
  <2>2. UNCHANGED <<journal, disabled, world>>
    BY <1>21 DEF Observed
  <2> QED
    BY <2>1, <2>2, RestTyped
<1>22. CASE ObservedUnclear
  <2>1. PICK r \in Records : SaveAndRest(r)
    BY <1>22, <1>p, <1>r DEF ObservedUnclear
  <2>2. UNCHANGED <<journal, disabled, world>>
    BY <1>22 DEF ObservedUnclear
  <2> QED
    BY <2>1, <2>2, RestTyped
<1>23. CASE Crash
  BY <1>23, <1>p, <1>i, <1>n DEF Crash
<1>24. ASSUME NEW s \in Swaps, Quote(s) PROVE TypeInv'
  <2>1. [NoRecord EXCEPT !.phase = "quoted"] \in Records
    BY <1>r, <1>p, RecordTyped
  <2>2. swap' \in [Swaps -> Records]
    BY <1>24, <2>1 DEF Quote
  <2>3. trails' \in [Swaps -> Intents]
    BY <1>24, <1>i DEF Quote
  <2>4. UNCHANGED <<journal, disabled, volatile, debit, flight, left, quoteLeft,
                    cooling>>
    BY <1>24 DEF Quote
  <2> QED
    BY <2>2, <2>3, <2>4
<1>25. ASSUME NEW s \in Swaps, Confirm(s) PROVE TypeInv'
  <2>1. swap[s] \in Records
    OBVIOUS
  <2>2. [swap[s] EXCEPT !.confirmed = TRUE, !.phase = "preparing",
                       !.action = "prepare-funding"] \in Records
    BY <2>1, <1>p, RecordTyped
  <2>3. swap' \in [Swaps -> Records]
    BY <1>25, <2>2 DEF Confirm
  <2> QED
    BY <1>25, <2>3 DEF Confirm
<1>26. ASSUME NEW s \in Swaps, GetSwap(s) PROVE TypeInv'
  <2>1. [swap[s] EXCEPT !.phase = "expired"] \in Records
    BY <1>p, RecordTyped
  <2>2. swap' \in [Swaps -> Records]
    BY <1>26, <2>1 DEF GetSwap
  <2>3. UNCHANGED <<journal, disabled, volatile, world>>
    BY <1>26 DEF GetSwap
  <2> QED
    BY <2>2, <2>3
<1>27. ASSUME NEW s \in Swaps, Expire(s) PROVE TypeInv'
  <2>1. Reread(s) \in Records
    BY RereadTyped
  <2>2. [Reread(s) EXCEPT !.phase = "expired", !.action = "none"] \in Records
    BY <2>1, <1>p, RecordTyped
  <2>3. swap' \in [Swaps -> Records]
    BY <1>27, <2>2 DEF Expire
  <2> QED
    BY <1>27, <2>3 DEF Expire
<1>28. ASSUME NEW s \in Swaps, Advance(s) PROVE TypeInv'
  <2>1. Reread(s) \in Records /\ Reread(s).action \in Steps \ {"idle", "executing"}
    <3>1. Reread(s) \in Records
      BY RereadTyped
    <3>2. /\ swap[s] \in Records
          /\ swap[s].action \in {"prepare-funding", "activate", "fund", "observe"}
      BY <1>28 DEF Advance, Records, Actions, Unfunded
    <3>3. Reread(s).action \in {swap[s].action, "fund"}
      BY <3>2 DEF Reread
    <3> QED
      BY <3>1, <3>2, <3>3
  <2> QED
    BY <1>28, <2>1 DEF Advance
<1>29. ASSUME NEW s \in Swaps, TrailsHandles(s) PROVE TypeInv'
  BY <1>29, <1>p, <1>i, <1>n DEF TrailsHandles
<1>30. ASSUME NEW s \in Swaps, TrailsLoses(s) PROVE TypeInv'
  BY <1>30, <1>p, <1>i, <1>n DEF TrailsLoses
<1>31. ASSUME NEW s \in Swaps, TrailsMoves(s) PROVE TypeInv'
  <2>1. trails' \in [Swaps -> Intents]
    BY <1>31, <1>i DEF TrailsMoves
  <2> QED
    BY <1>31, <2>1 DEF TrailsMoves
<1>32. ASSUME NEW s \in Swaps, TrailsSettles(s) PROVE TypeInv'
  BY <1>32, <1>p, <1>i, <1>n DEF TrailsSettles
<1>33. ASSUME NEW s \in Swaps, Tick(s) PROVE TypeInv'
  <2>1. left' \in [Swaps -> Left]
    BY <1>33, <1>i DEF Tick, Shorter
  <2>2. cooling' \in [Swaps -> BOOLEAN]
    BY <1>33 DEF Tick
  <2>3. UNCHANGED <<durable, volatile, debit, trails, flight, quoteLeft>>
    BY <1>33 DEF Tick
  <2> QED
    BY <2>1, <2>2, <2>3
<1>34. ASSUME NEW t \in Transfers, Prepare(t) PROVE TypeInv'
  BY <1>34, <1>p, <1>i, <1>n DEF Prepare
<1>35. ASSUME NEW t \in Transfers, Execute(t) PROVE TypeInv'
  BY <1>35, <1>p, <1>i, <1>n DEF Execute, Submit
<1>36. ASSUME NEW k \in Debits, PollDebit(k) PROVE TypeInv'
  BY <1>36, <1>p, <1>i, <1>n DEF PollDebit, WaasStatus
<1>37. ASSUME NEW k \in Debits, WaasHandles(k) PROVE TypeInv'
  BY <1>37, <1>p, <1>i, <1>n DEF WaasHandles
<1>38. ASSUME NEW k \in Debits, QuoteTick(k) PROVE TypeInv'
  BY <1>38, <1>p, <1>i, <1>n DEF QuoteTick, Shorter
<1>39. ASSUME NEW b \in BOOLEAN, SetDisabled(b) PROVE TypeInv'
  BY <1>39, <1>p, <1>i, <1>n DEF SetDisabled
<1>40. CASE UNCHANGED vars
  BY <1>40 DEF vars
<1> QED
  BY <1>1, <1>2, <1>3, <1>4, <1>5, <1>6, <1>7, <1>8, <1>9, <1>10, <1>11,
     <1>12, <1>13, <1>14, <1>15, <1>16, <1>17, <1>18, <1>19, <1>20, <1>21,
     <1>22, <1>23, <1>24, <1>25, <1>26, <1>27, <1>28, <1>29, <1>30, <1>31,
     <1>32, <1>33, <1>34, <1>35, <1>36, <1>37, <1>38, <1>39, <1>40
     DEF Next, Job, SwapCall, World, TransferCall

-------------------------------------------------------------------------------
(* Records, copies and steps                                               *)

\* A job may end by saving a record that agrees with the journal.
LEMMA RestState ==
  ASSUME JobInv, NEW r \in Records, SaveAndRest(r), current \in Swaps,
         RecordOK(current, r), r.phase \notin {"succeeded", "refunded"},
         UNCHANGED <<journal, disabled, world>>
  PROVE  StateInv'
<1>1. /\ swap \in [Swaps -> Records] /\ current' \notin Swaps /\ at' = "idle"
      /\ swap' = [swap EXCEPT ![current] = r]
  BY NamesAssumption
     DEF JobInv, TypeInv, TypeOK, SaveAndRest, Save, Rest, Debits
<1>2. DebitInv'
  BY DEF JobInv, StateInv, DebitInv, DebitOK, world
<1>3. RecordInv'
  <2>1. ASSUME NEW s \in Swaps PROVE RecordOK(s, swap'[s])
    BY <1>1 DEF JobInv, StateInv, RecordInv
  <2> QED
    BY <2>1 DEF RecordInv, RecordOK, world
<1>4. CopyInv' /\ StepInv'
  BY <1>1 DEF CopyInv, StepInv
<1>5. OutcomeInv'
  BY <1>1 DEF JobInv, StateInv, OutcomeInv, world
<1> QED
  BY <1>2, <1>3, <1>4, <1>5 DEF StateInv

\* Every step keeps what the records, the copy and the steps rely on.
LEMMA NextStateInv == JobInv /\ [Next]_vars => StateInv'
<1> SUFFICES ASSUME JobInv, [Next]_vars PROVE StateInv'
  OBVIOUS
<1> USE NamesAssumption
    DEF Uncertain, Unfunded, Debits, Free, Goto, Save, Rest, SaveAndRest, durable,
        volatile, world, JobInv, StateInv, TypeInv, DebitInv, DebitOK, RecordInv,
        RecordOK, CopyInv, StepInv, OutcomeInv
<1>t. /\ swap \in [Swaps -> Records] /\ journal \in [Debits -> Statuses]
      /\ work \in Records /\ trails \in [Swaps -> Intents]
      /\ debit \in [Debits -> {"none", "quoted", "flying", "pending", "success",
                              "reverted", "failed"}]
      /\ \A s \in Swaps : swap[s] \in Records
  BY DEF TypeOK
<1> USE <1>t DEF Records
<1>1. CASE Fail
  BY <1>1 DEF Fail
<1>2. CASE PrepareFunding
  BY <1>2 DEF PrepareFunding
<1>3. CASE PrepareRecord
  BY <1>3 DEF PrepareRecord
<1>4. CASE PrepareAnswered
  <2>1. CASE Goto("preparing")
    <3>1. /\ journal' = [journal EXCEPT ![current] = "quoted"]
          /\ debit' = [debit EXCEPT ![current] = "quoted"]
          /\ UNCHANGED <<swap, current, work, seen>>
      BY <1>4, <2>1 DEF PrepareAnswered
    <3>2. UNCHANGED <<disabled, trails, flight, left, quoteLeft, cooling>>
      BY <1>4 DEF PrepareAnswered
    <3>3. at = "quoting"
      BY <1>4 DEF PrepareAnswered
    <3> QED
      BY <2>1, <3>1, <3>2, <3>3
  <2>2. CASE ~Goto("preparing")
    <3>0. PICK r : (r = work \/ r = Ruled(work)) /\ SaveAndRest(r)
      BY <1>4, <2>2 DEF PrepareAnswered
    <3>1. (r = work \/ r = [work EXCEPT !.phase = "failed", !.action = "none"])
          /\ SaveAndRest(r)
      BY <3>0 DEF Ruled
    <3>2. /\ journal' = [journal EXCEPT ![current] = "failed"]
          /\ UNCHANGED <<debit, trails>>
      BY <1>4, <2>2 DEF PrepareAnswered
    <3>3. /\ r.confirmed = work.confirmed /\ r.funding = work.funding
          /\ r.fundingConfirmed = work.fundingConfirmed
          /\ \/ r.phase = work.phase /\ r.action = work.action
             \/ r.phase = "failed" /\ r.action = "none"
      <4>1. CASE r = work
        BY <4>1
      <4>2. CASE r = [work EXCEPT !.phase = "failed", !.action = "none"]
        BY <4>2
      <4> QED
        BY <3>1, <4>1, <4>2
    <3>4. at = "quoting" /\ swap' = [swap EXCEPT ![current] = r] /\ at' = "idle"
          /\ current' = None
      BY <1>4, <3>1 DEF PrepareAnswered
    <3>5. DebitInv' /\ OutcomeInv'
      BY <3>2, <3>3, <3>4
    <3>6. RecordInv'
      BY <3>2, <3>3, <3>4
    <3>7. CopyInv' /\ StepInv'
      BY <3>4
    <3> QED
      BY <3>5, <3>6, <3>7
  <2> QED
    BY <2>1, <2>2
<1>5. CASE Prepared
  <2> DEFINE r == [work EXCEPT !.funding = journal[current]]
            q == [r EXCEPT !.phase = "activating", !.action = "activate"]
  <2>1. at = "preparing" /\ current \in Swaps
    BY <1>5 DEF Prepared
  <2>2. r \in Records /\ q \in Records
    BY <2>1 DEF Phases, Actions
  <2>3. Ruled(r) \in Records
    BY <2>2 DEF Ruled, Phases, Actions
  <2>4. RecordOK(current, q) /\ RecordOK(current, Ruled(r))
    BY <1>5, <2>1 DEF Prepared, Ruled
  <2>5. UNCHANGED <<journal, disabled, world>>
    BY <1>5 DEF Prepared
  <2>6. SaveAndRest(q) \/ SaveAndRest(Ruled(r))
    BY <1>5 DEF Prepared
  <2>7. /\ q.phase \notin {"succeeded", "refunded"}
        /\ Ruled(r).phase \notin {"succeeded", "refunded"}
    BY <2>4, <2>1 DEF Ruled
  <2> HIDE DEF q, r, SaveAndRest
  <2> QED
    BY <2>1, <2>2, <2>3, <2>4, <2>5, <2>6, <2>7, RestState
<1>6. CASE NotSponsored
  BY <1>6 DEF NotSponsored, Sponsored, Ruled
<1>7. CASE ActivateQuoted
  BY <1>7 DEF ActivateQuoted, Sponsored
<1>8. CASE ExecuteIntent
  BY <1>8 DEF ExecuteIntent
<1>9. CASE ActivateRead
  <2> DEFINE f == [work EXCEPT !.phase = "funding", !.action = "fund"]
            g == [work EXCEPT !.phase = "failed", !.action = "none"]
  <2>1. at = "activate" /\ current \in Swaps /\ work.funding = "quoted"
    BY <1>9 DEF ActivateRead, Sponsored
  <2>2. f \in Records /\ g \in Records
    BY DEF Phases, Actions
  <2>3. RecordOK(current, f) /\ RecordOK(current, g) /\ RecordOK(current, work)
    BY <2>1
  <2>4. /\ f.phase \notin {"succeeded", "refunded"}
        /\ g.phase \notin {"succeeded", "refunded"}
        /\ work.phase \notin {"succeeded", "refunded"}
    BY <2>1
  <2>5. SaveAndRest(f) \/ SaveAndRest(g) \/ SaveAndRest(work)
    BY <1>9 DEF ActivateRead
  <2>6. UNCHANGED <<journal, disabled, world>>
    BY <1>9 DEF ActivateRead
  <2> HIDE DEF f, g, SaveAndRest, RecordOK
  <2> QED
    BY <2>1, <2>2, <2>3, <2>4, <2>5, <2>6, RestState
<1>10. CASE FundRead
  BY <1>10 DEF FundRead, WaasStatus
<1>11. CASE FundRefused
  <2> DEFINE g == [work EXCEPT !.phase = "failed", !.action = "none"]
  <2>1. at = "check" /\ current \in Swaps
    BY <1>11 DEF FundRefused
  <2>2. g \in Records
    BY DEF Phases, Actions
  <2>3. RecordOK(current, g) /\ RecordOK(current, work)
    BY <2>1
  <2>4. /\ g.phase \notin {"succeeded", "refunded"}
        /\ work.phase \notin {"succeeded", "refunded"}
    BY <2>1
  <2>5. SaveAndRest(g) \/ SaveAndRest(work)
    BY <1>11 DEF FundRefused
  <2>6. UNCHANGED <<journal, disabled, world>>
    BY <1>11 DEF FundRefused
  <2> HIDE DEF g, SaveAndRest, RecordOK
  <2> QED
    BY <2>1, <2>2, <2>3, <2>4, <2>5, <2>6, RestState
<1>12. CASE FundAccepted
  BY <1>12 DEF FundAccepted, Sponsored, AcceptsFunding, Available, Reserved
<1>13. CASE SubmitExpired
  BY <1>13 DEF SubmitExpired, Ruled
<1>14. CASE SubmitFunding
  BY <1>14 DEF SubmitFunding, Submit
<1>15. CASE Executed
  BY <1>15 DEF Executed, WaasStatus
<1>16. CASE FundConfirmed
  <2> DEFINE r == [work EXCEPT !.fundingConfirmed = TRUE, !.phase = "settling",
                              !.action = "observe"]
  <2>1. /\ at = "result" /\ current \in Swaps
        /\ work.funding = "executed" /\ debit[current] = "success"
    BY <1>16 DEF FundConfirmed
  <2>2. r \in Records
    BY DEF Phases, Actions
  <2>3. RecordOK(current, r) /\ r.phase \notin {"succeeded", "refunded"}
    BY <2>1
  <2>4. SaveAndRest(r) /\ UNCHANGED <<journal, disabled, world>>
    BY <1>16 DEF FundConfirmed
  <2> QED
    BY <2>1, <2>2, <2>3, <2>4, RestState
<1>17. CASE FundReverted
  BY <1>17 DEF FundReverted
<1>18. CASE FundPending
  BY <1>18 DEF FundPending
<1>19. CASE ObserveRead
  BY <1>19 DEF ObserveRead, Repairable
<1>20. CASE Repair
  BY <1>20 DEF Repair
<1>21. CASE Observed
  BY <1>21 DEF Observed, Settled
<1>22. CASE ObservedUnclear
  BY <1>22 DEF ObservedUnclear
<1>23. CASE Crash
  BY <1>23 DEF Crash
<1>24. ASSUME NEW s \in Swaps, Quote(s) PROVE StateInv'
  <2>1. /\ swap' = [swap EXCEPT ![s] = [NoRecord EXCEPT !.phase = "quoted"]]
        /\ swap[s].phase = "none" /\ journal[s] = "absent"
        /\ trails' = [trails EXCEPT ![s] = "QUOTED"]
        /\ current = None /\ at = "idle"
        /\ UNCHANGED <<journal, debit, disabled, volatile>>
    BY <1>24 DEF Quote
  <2>2. RecordInv'
    BY <2>1 DEF NoRecord
  <2>3. DebitInv' /\ CopyInv' /\ StepInv'
    BY <2>1
  <2>4. OutcomeInv'
    BY <2>1 DEF NoRecord
  <2> QED
    BY <2>2, <2>3, <2>4
<1>25. ASSUME NEW s \in Swaps, Confirm(s) PROVE StateInv'
  BY <1>25 DEF Confirm
<1>26. ASSUME NEW s \in Swaps, GetSwap(s) PROVE StateInv'
  BY <1>26 DEF GetSwap
<1>27. ASSUME NEW s \in Swaps, Expire(s) PROVE StateInv'
  BY <1>27 DEF Expire, Reread
<1>28. ASSUME NEW s \in Swaps, Advance(s) PROVE StateInv'
  <2> DEFINE r == Reread(s)
  <2>1. /\ swap[s].action # "none" /\ swap[s] \in Records
        /\ work' = r /\ at' = r.action /\ current' = s /\ at = "idle"
        /\ UNCHANGED <<swap, journal, disabled, seen, world>>
    BY <1>28 DEF Advance
  <2>2. swap[s].action \in Unfunded \cup {"observe"} /\ swap[s].confirmed
    BY <2>1 DEF Actions
  <2>3. CASE swap[s].action = "observe"
    <3>1. r = swap[s]
      BY <2>3 DEF Reread
    <3> QED
      BY <2>1, <2>2, <2>3, <3>1
  <2>4. CASE swap[s].action \in Unfunded
    <3>1. /\ r.funding = journal[s]
          /\ r.action = IF journal[s] \in Uncertain \cup {"executed"}
                        THEN "fund" ELSE swap[s].action
          /\ r.phase = swap[s].phase /\ r.confirmed = swap[s].confirmed
          /\ r.fundingConfirmed = swap[s].fundingConfirmed
      BY <2>1, <2>4 DEF Reread
    <3> HIDE DEF r
    <3>2. RecordOK(s, r)
      BY <2>1, <2>4, <3>1
    <3>3. CopyInv'
      BY <2>1, <2>2, <2>4, <3>1, <3>2
    <3>4. StepInv'
      BY <2>1, <2>4, <3>1
    <3> QED
      BY <2>1, <3>3, <3>4
  <2> QED
    BY <2>2, <2>3, <2>4
<1>29. ASSUME NEW s \in Swaps, TrailsHandles(s) PROVE StateInv'
  BY <1>29 DEF TrailsHandles, Available, Reserved
<1>30. ASSUME NEW s \in Swaps, TrailsLoses(s) PROVE StateInv'
  BY <1>30 DEF TrailsLoses, Available, Reserved
<1>31. ASSUME NEW s \in Swaps, TrailsMoves(s) PROVE StateInv'
  BY <1>31 DEF TrailsMoves, Available, Reserved
<1>32. ASSUME NEW s \in Swaps, TrailsSettles(s) PROVE StateInv'
  BY <1>32 DEF TrailsSettles, Available, Reserved
<1>33. ASSUME NEW s \in Swaps, Tick(s) PROVE StateInv'
  BY <1>33 DEF Tick, Shorter, Available, Reserved
<1>34. ASSUME NEW t \in Transfers, Prepare(t) PROVE StateInv'
  BY <1>34 DEF Prepare
<1>35. ASSUME NEW t \in Transfers, Execute(t) PROVE StateInv'
  BY <1>35 DEF Execute, Submit
<1>36. ASSUME NEW k \in Debits, PollDebit(k) PROVE StateInv'
  BY <1>36 DEF PollDebit, WaasStatus
<1>37. ASSUME NEW k \in Debits, WaasHandles(k) PROVE StateInv'
  BY <1>37 DEF WaasHandles, Available, Reserved
<1>38. ASSUME NEW k \in Debits, QuoteTick(k) PROVE StateInv'
  BY <1>38 DEF QuoteTick, Shorter, Available, Reserved
<1>39. ASSUME NEW b \in BOOLEAN, SetDisabled(b) PROVE StateInv'
  BY <1>39 DEF SetDisabled
<1>40. CASE UNCHANGED vars
  BY <1>40 DEF vars, Available, Reserved
<1> QED
  BY <1>1, <1>2, <1>3, <1>4, <1>5, <1>6, <1>7, <1>8, <1>9, <1>10, <1>11,
     <1>12, <1>13, <1>14, <1>15, <1>16, <1>17, <1>18, <1>19, <1>20, <1>21,
     <1>22, <1>23, <1>24, <1>25, <1>26, <1>27, <1>28, <1>29, <1>30, <1>31,
     <1>32, <1>33, <1>34, <1>35, <1>36, <1>37, <1>38, <1>39, <1>40
     DEF Next, Job, SwapCall, World, TransferCall

-------------------------------------------------------------------------------
(* One debit per chain                                                     *)

\* What Holds comes to in a state of the invariant.
Held(k) == \/ journal[k] \in Uncertain
           \/ k \in Swaps /\ swap[k].confirmed /\ swap[k].action # "none"
              /\ ~swap[k].fundingConfirmed

\* A debit holds its chain when the journal is uncertain about it, or when it is
\* confirmed, not yet seen on the chain, and its record is still worked on.
LEMMA HoldsIsHeld == ASSUME JobInv, NEW k \in Debits PROVE Holds(k) <=> Held(k)
<1>1. debit[k] \in {"flying", "pending"} => journal[k] \in Uncertain
  BY DEF JobInv, TypeInv, TypeOK, StateInv, DebitInv, DebitOK, Statuses, Uncertain
<1>2. ASSUME k \in Swaps
      PROVE  Reserved(k) => Held(k)
  BY <1>2 DEF JobInv, StateInv, RecordInv, RecordOK, Reserved, Held, Uncertain
<1>3. ASSUME k \in Swaps, swap[k].confirmed, swap[k].action # "none",
             ~swap[k].fundingConfirmed
      PROVE  Reserved(k)
  BY <1>3 DEF JobInv, StateInv, RecordInv, RecordOK, Reserved
<1> QED
  BY <1>1, <1>2, <1>3 DEF Holds, Held

\* The same of the next state.
LEMMA HoldsIsHeldNext == ASSUME JobInv', NEW k \in Debits PROVE Holds(k)' <=> Held(k)'
<1>1. debit'[k] \in {"flying", "pending"} => journal'[k] \in Uncertain
  BY DEF JobInv, TypeInv, TypeOK, StateInv, DebitInv, DebitOK, Statuses, Uncertain
<1>2. ASSUME k \in Swaps
      PROVE  Reserved(k)' => Held(k)'
  BY <1>2 DEF JobInv, StateInv, RecordInv, RecordOK, Reserved, Held, Uncertain
<1>3. ASSUME k \in Swaps, swap'[k].confirmed, swap'[k].action # "none",
             ~swap'[k].fundingConfirmed
      PROVE  Reserved(k)'
  BY <1>3 DEF JobInv, StateInv, RecordInv, RecordOK, Reserved
<1> QED
  BY <1>1, <1>2, <1>3 DEF Holds, Held

\* available() is right: no other debit holds the chain.
LEMMA AvailableAlone ==
  ASSUME JobInv, NEW k \in Debits, Available(k), NEW l \in Debits \ {k},
         Chain(l) = Chain(k)
  PROVE  ~Holds(l)
<1>1. debit[l] \in {"flying", "pending"} => journal[l] \in Uncertain
  BY DEF JobInv, TypeInv, TypeOK, StateInv, DebitInv, DebitOK, Statuses, Uncertain
<1> QED
  BY <1>1 DEF Available, Holds

\* The three steps that take hold of a chain look at it first, or hold it by the
\* look an earlier step took; no other step does.
LEMMA OnlyOneTakesHold ==
  ASSUME JobInv, [Next]_vars
  PROVE  \/ \A k \in Debits : Held(k)' => Held(k)
         \/ \E new \in Debits :
              Available(new) /\ \A k \in Debits \ {new} : Held(k)' => Held(k)
<1> USE DEF JobInv, TypeInv, StateInv
<1>t. /\ swap \in [Swaps -> Records] /\ journal \in [Debits -> Statuses]
      /\ work \in Records /\ Swaps \subseteq Debits /\ Transfers \subseteq Debits
      /\ \A s \in Swaps : swap[s] \in Records
  BY DEF TypeOK, Debits
<1>1. CASE \/ ObserveRead
           \/ Crash
           \/ (\E s \in Swaps : TrailsHandles(s))
           \/ (\E s \in Swaps : TrailsLoses(s))
           \/ (\E s \in Swaps : TrailsMoves(s))
           \/ (\E s \in Swaps : TrailsSettles(s))
           \/ (\E s \in Swaps : Tick(s))
           \/ (\E k \in Debits : WaasHandles(k))
           \/ (\E k \in Debits : QuoteTick(k))
           \/ (\E b \in BOOLEAN : SetDisabled(b))
           \/ UNCHANGED vars
  <2>1. UNCHANGED <<swap, journal>>
    BY <1>1 DEF ObserveRead, Crash, TrailsHandles, TrailsLoses, TrailsMoves,
                TrailsSettles, Tick, WaasHandles, QuoteTick, SetDisabled,
                durable, vars
  <2> QED
    BY <2>1 DEF Held
<1>2. CASE \E s \in Swaps : Confirm(s)
  <2>1. PICK s \in Swaps : Confirm(s)
    BY <1>2
  <2>2. /\ Available(s) /\ UNCHANGED journal
        /\ \A l \in Swaps \ {s} : swap'[l] = swap[l]
    BY <1>t, <2>1 DEF Confirm, Save
  <2>3. \A k \in Debits \ {s} : Held(k)' => Held(k)
    BY <1>t, <2>2 DEF Held
  <2> QED
    BY <1>t, <2>2, <2>3
<1>3. CASE \E t \in Transfers : Execute(t)
  <2>1. PICK t \in Transfers : Execute(t)
    BY <1>3
  <2>2. /\ Available(t) /\ UNCHANGED swap
        /\ \A l \in Debits \ {t} : journal'[l] = journal[l]
    BY <1>t, <2>1 DEF Execute, Submit
  <2>3. \A k \in Debits \ {t} : Held(k)' => Held(k)
    BY <1>t, <2>2 DEF Held
  <2> QED
    BY <1>t, <2>2, <2>3
<1>4. CASE SubmitFunding
  <2>1. /\ current \in Debits /\ Available(current) /\ UNCHANGED swap
        /\ \A l \in Debits \ {current} : journal'[l] = journal[l]
    BY <1>t, <1>4 DEF SubmitFunding, Submit, StepInv
  <2>2. \A k \in Debits \ {current} : Held(k)' => Held(k)
    BY <1>t, <2>1 DEF Held
  <2> QED
    BY <2>1, <2>2
<1> USE <1>t DEF Debits, Held, Uncertain, Unfunded, Records, Goto, Save, Rest,
              SaveAndRest, RecordInv, RecordOK, CopyInv, StepInv
<1>5. ASSUME Fail PROVE \A l \in Debits : Held(l)' => Held(l)
  BY <1>5 DEF Fail
<1>6. ASSUME PrepareFunding PROVE \A l \in Debits : Held(l)' => Held(l)
  BY <1>6 DEF PrepareFunding
<1>7. ASSUME PrepareRecord PROVE \A l \in Debits : Held(l)' => Held(l)
  BY <1>7 DEF PrepareRecord
<1>8. ASSUME PrepareAnswered PROVE \A l \in Debits : Held(l)' => Held(l)
  BY <1>8 DEF PrepareAnswered, Ruled
<1>9. ASSUME Prepared PROVE \A l \in Debits : Held(l)' => Held(l)
  BY <1>9 DEF Prepared, Sponsored, Ruled
<1>10. ASSUME NotSponsored PROVE \A l \in Debits : Held(l)' => Held(l)
  BY <1>10 DEF NotSponsored, Sponsored, Ruled
<1>11. ASSUME ActivateQuoted PROVE \A l \in Debits : Held(l)' => Held(l)
  BY <1>11 DEF ActivateQuoted, Sponsored
<1>12. ASSUME ExecuteIntent PROVE \A l \in Debits : Held(l)' => Held(l)
  BY <1>12 DEF ExecuteIntent
<1>13. ASSUME ActivateRead PROVE \A l \in Debits : Held(l)' => Held(l)
  BY <1>13 DEF ActivateRead, Sponsored, AcceptsFunding
<1>14. ASSUME FundRead PROVE \A l \in Debits : Held(l)' => Held(l)
  BY <1>14 DEF FundRead, WaasStatus
<1>15. ASSUME FundRefused PROVE \A l \in Debits : Held(l)' => Held(l)
  BY <1>15 DEF FundRefused, Sponsored
<1>16. ASSUME FundAccepted PROVE \A l \in Debits : Held(l)' => Held(l)
  BY <1>16 DEF FundAccepted, Sponsored, AcceptsFunding
<1>17. ASSUME SubmitExpired PROVE \A l \in Debits : Held(l)' => Held(l)
  BY <1>17 DEF SubmitExpired, Ruled
<1>18. ASSUME Executed PROVE \A l \in Debits : Held(l)' => Held(l)
  BY <1>18 DEF Executed, WaasStatus
<1>19. ASSUME FundConfirmed PROVE \A l \in Debits : Held(l)' => Held(l)
  BY <1>19 DEF FundConfirmed
<1>20. ASSUME FundReverted PROVE \A l \in Debits : Held(l)' => Held(l)
  BY <1>20 DEF FundReverted
<1>21. ASSUME FundPending PROVE \A l \in Debits : Held(l)' => Held(l)
  BY <1>21 DEF FundPending
<1>22. ASSUME Repair PROVE \A l \in Debits : Held(l)' => Held(l)
  BY <1>22 DEF Repair
<1>23. ASSUME Observed PROVE \A l \in Debits : Held(l)' => Held(l)
  BY <1>23 DEF Observed, Settled
<1>24. ASSUME ObservedUnclear PROVE \A l \in Debits : Held(l)' => Held(l)
  BY <1>24 DEF ObservedUnclear
<1>25. ASSUME NEW s \in Swaps, Quote(s)
      PROVE  \A l \in Debits : Held(l)' => Held(l)
  <2>1. /\ swap' = [swap EXCEPT ![s] = [NoRecord EXCEPT !.phase = "quoted"]]
        /\ UNCHANGED journal
    BY <1>25 DEF Quote
  <2>2. ~swap'[s].confirmed /\ \A k \in Swaps \ {s} : swap'[k] = swap[k]
    BY <2>1 DEF NoRecord
  <2> QED
    BY <2>1, <2>2
<1>26. ASSUME NEW s \in Swaps, GetSwap(s)
      PROVE  \A l \in Debits : Held(l)' => Held(l)
  BY <1>26 DEF GetSwap
<1>27. ASSUME NEW s \in Swaps, Expire(s)
      PROVE  \A l \in Debits : Held(l)' => Held(l)
  BY <1>27 DEF Expire, Reread
<1>28. ASSUME NEW s \in Swaps, Advance(s)
      PROVE  \A l \in Debits : Held(l)' => Held(l)
  BY <1>28 DEF Advance, durable
<1>29. ASSUME NEW t \in Transfers, Prepare(t)
      PROVE  \A l \in Debits : Held(l)' => Held(l)
  BY <1>29 DEF Prepare
<1>30. ASSUME NEW k \in Debits, PollDebit(k)
      PROVE  \A l \in Debits : Held(l)' => Held(l)
  BY <1>30 DEF PollDebit, WaasStatus
<1> HIDE DEF Held, SaveAndRest, RecordInv, CopyInv, StepInv
<1> QED
  BY <1>1, <1>2, <1>3, <1>4, <1>5, <1>6, <1>7, <1>8, <1>9, <1>10, <1>11,
     <1>12, <1>13, <1>14, <1>15, <1>16, <1>17, <1>18, <1>19, <1>20, <1>21,
     <1>22, <1>23, <1>24, <1>25, <1>26, <1>27, <1>28, <1>29, <1>30
     DEF Next, Job, SwapCall, World, TransferCall

\* A chain that one debit holds is held by no other.
LEMMA NextOneDebit == JobInv /\ JobInv' /\ OneDebitPerChain /\ [Next]_vars
                        => OneDebitPerChain'
<1> SUFFICES ASSUME JobInv, JobInv', OneDebitPerChain, [Next]_vars,
                    NEW k \in Debits, NEW l \in Debits,
                    Chain(k) = Chain(l), Holds(k)', Holds(l)'
             PROVE  k = l
  BY DEF OneDebitPerChain
<1>1. \A m \in Debits : /\ Holds(m) <=> Held(m)
                        /\ Holds(m)' <=> Held(m)'
  BY HoldsIsHeld, HoldsIsHeldNext
<1>2. CASE \A m \in Debits : Held(m)' => Held(m)
  BY <1>1, <1>2 DEF OneDebitPerChain
<1>3. CASE \E new \in Debits :
             Available(new) /\ \A m \in Debits \ {new} : Held(m)' => Held(m)
  <2>1. PICK new \in Debits :
          Available(new) /\ \A m \in Debits \ {new} : Held(m)' => Held(m)
    BY <1>3
  <2>2. \A m \in Debits \ {new} : Chain(m) = Chain(new) => ~Holds(m)
    BY <2>1, AvailableAlone
  <2>3. CASE k = new
    BY <1>1, <2>1, <2>2, <2>3
  <2>4. CASE l = new
    BY <1>1, <2>1, <2>2, <2>4
  <2>5. CASE k # new /\ l # new
    BY <1>1, <2>1, <2>5 DEF OneDebitPerChain
  <2> QED
    BY <2>3, <2>4, <2>5
<1> QED
  BY <1>2, <1>3, OnlyOneTakesHold

-------------------------------------------------------------------------------
(* The theorems                                                            *)

\* The initial state satisfies the invariant.
LEMMA InitIInv == Init => IInv
<1> SUFFICES ASSUME Init PROVE IInv
  OBVIOUS
<1> USE DEF Init, NoRecord
<1>1. TypeInv
  BY InitTypeInv
<1>2. DebitInv /\ OutcomeInv
  BY DEF DebitInv, DebitOK, OutcomeInv
<1>3. RecordInv
  <2>1. ASSUME NEW s \in Swaps PROVE RecordOK(s, swap[s])
    <3>1. journal[s] = "absent" /\ swap[s] = NoRecord
      BY DEF Debits
    <3> QED
      BY <3>1 DEF RecordOK, Unfunded, Uncertain
  <2> QED
    BY <2>1 DEF RecordInv
<1>4. CopyInv /\ StepInv
  BY NamesAssumption DEF CopyInv, StepInv, Debits
<1>5. OneDebitPerChain
  BY DEF OneDebitPerChain, Holds, Reserved, Uncertain
<1> QED
  BY <1>1, <1>2, <1>3, <1>4, <1>5 DEF IInv, JobInv, StateInv

\* Every step keeps it.
LEMMA NextIInv == IInv /\ [Next]_vars => IInv'
<1> SUFFICES ASSUME IInv, [Next]_vars PROVE IInv'
  OBVIOUS
<1>1. JobInv'
  BY NextTypeInv, NextStateInv DEF IInv, JobInv
<1>2. OneDebitPerChain'
  BY <1>1, NextOneDebit DEF IInv
<1> QED
  BY <1>1, <1>2 DEF IInv

\* The strengthened invariant holds in every state.
THEOREM IInvCorrect == Spec => []IInv
  BY InitIInv, NextIInv, PTL DEF Spec

\* Every variable keeps its type.
THEOREM TypeCorrect == Spec => []TypeOK
<1>1. IInv => TypeOK
  BY DEF IInv, JobInv, TypeInv
<1> QED
  BY <1>1, IInvCorrect, PTL

\* Of all debits of one source chain, at most one is confirmed and to come,
\* recorded as uncertain, or on its way.
THEOREM OneDebitPerChainCorrect == Spec => []OneDebitPerChain
<1>1. IInv => OneDebitPerChain
  BY DEF IInv
<1> QED
  BY <1>1, IInvCorrect, PTL

\* A swap that is reported as failed or expired has spent nothing.
THEOREM ClosedUnpaidCorrect == Spec => []ClosedUnpaid
<1>1. IInv => ClosedUnpaid
  BY DEF IInv, JobInv, TypeInv, TypeOK, StateInv, DebitInv, DebitOK, RecordInv,
         RecordOK, ClosedUnpaid, Uncertain, Statuses, Debits
<1> QED
  BY <1>1, IInvCorrect, PTL

\* Deposits and outcomes are in the record only when they are in the world.
THEOREM EvidenceIsTrueCorrect == Spec => []EvidenceIsTrue
<1>1. IInv => EvidenceIsTrue
  BY DEF IInv, JobInv, StateInv, RecordInv, RecordOK, OutcomeInv, EvidenceIsTrue
<1> QED
  BY <1>1, IInvCorrect, PTL

\* What a step may send to WaaS and to Trails.
LEMMA StepAuthorized ==
  IInv /\ [Next]_vars =>
    [/\ \A s \in Swaps : Leaves(s) => swap[s].confirmed /\ trails[s] # "QUOTED"
     /\ disabled => /\ \A k \in Debits : ~Leaves(k)
                    /\ \A s \in Swaps : ~Asks(s)]_vars
<1> SUFFICES ASSUME IInv, Next
             PROVE  /\ \A s \in Swaps : Leaves(s) =>
                         swap[s].confirmed /\ trails[s] # "QUOTED"
                    /\ disabled => /\ \A k \in Debits : ~Leaves(k)
                                   /\ \A s \in Swaps : ~Asks(s)
  OBVIOUS
<1>t. /\ journal \in [Debits -> Statuses] /\ Swaps \cap Transfers = {}
      /\ flight \in [Swaps -> {"none", "ExecuteIntent", "RetryIntent"}]
      /\ at = "submit" => current \in Swaps
  BY NamesAssumption DEF IInv, JobInv, TypeInv, TypeOK
<1>1. ASSUME NEW k \in Debits, Leaves(k)
      PROVE  /\ ~disabled
             /\ \/ at = "submit" /\ k = current
                \/ k \in Transfers
  <2>1. CASE SubmitFunding
    BY <1>t, <1>1, <2>1 DEF SubmitFunding, Submit, Leaves
  <2>2. ASSUME NEW t \in Transfers, Execute(t)
        PROVE  ~disabled /\ k = t
    BY <1>t, <1>1, <2>2 DEF Execute, Submit, Leaves
  <2>3. ASSUME ~SubmitFunding, \A t \in Transfers : ~Execute(t) PROVE FALSE
    <3>1. CASE journal' = journal
      BY <1>1, <3>1 DEF Leaves
    <3>2. CASE PrepareRecord \/ PrepareAnswered
      BY <1>t, <1>1, <3>2 DEF PrepareRecord, PrepareAnswered, Leaves
    <3>3. CASE FundRead
      BY <1>t, <1>1, <3>3 DEF FundRead, WaasStatus, Leaves
    <3>4. CASE Executed
      BY <1>t, <1>1, <3>4 DEF Executed, WaasStatus, Leaves
    <3>5. CASE \E t \in Transfers : Prepare(t)
      BY <1>t, <1>1, <3>5 DEF Prepare, Leaves
    <3>6. CASE \E l \in Debits : PollDebit(l)
      BY <1>t, <1>1, <3>6 DEF PollDebit, WaasStatus, Leaves
    <3> QED
      BY <2>3, <3>1, <3>2, <3>3, <3>4, <3>5, <3>6
         DEF Next, Job, SwapCall, World, TransferCall, durable, Fail,
             PrepareFunding, Prepared, NotSponsored, ActivateQuoted,
             ExecuteIntent, ActivateRead, FundRefused, FundAccepted,
             SubmitExpired, FundConfirmed, FundReverted, FundPending,
             ObserveRead, Repair, Observed, ObservedUnclear, Crash, Quote,
             Confirm, GetSwap, Expire, Advance, TrailsHandles, TrailsLoses,
             TrailsMoves, TrailsSettles, Tick, WaasHandles, QuoteTick,
             SetDisabled
  <2> QED
    BY <2>1, <2>2, <2>3
<1>2. ASSUME NEW s \in Swaps, Asks(s) PROVE ~disabled
  <2>1. CASE ExecuteIntent \/ Repair
    BY <2>1 DEF ExecuteIntent, Repair, IInv, JobInv, StateInv, StepInv
  <2>2. CASE \E q \in Swaps : TrailsHandles(q) \/ TrailsLoses(q)
    BY <1>t, <1>2, <2>2 DEF TrailsHandles, TrailsLoses, Asks
  <2>3. CASE flight' = flight
    BY <1>2, <2>3 DEF Asks
  <2> QED
    BY <2>1, <2>2, <2>3
       DEF Next, Job, SwapCall, World, TransferCall, world, Fail,
           PrepareFunding, PrepareRecord, PrepareAnswered, Prepared,
           NotSponsored, ActivateQuoted, ActivateRead, FundRead, FundRefused,
           FundAccepted, SubmitExpired, SubmitFunding, Executed, FundConfirmed,
           FundReverted, FundPending, ObserveRead, Observed, ObservedUnclear,
           Crash, Quote, Confirm, GetSwap, Expire, Advance, TrailsMoves,
           TrailsSettles, Tick, Prepare, Execute, PollDebit, WaasHandles,
           QuoteTick, SetDisabled
<1>3. ASSUME NEW s \in Swaps, Leaves(s)
      PROVE  swap[s].confirmed /\ trails[s] # "QUOTED"
  <2>1. at = "submit" /\ s = current
    BY <1>t, <1>1, <1>3 DEF Debits
  <2> QED
    BY <2>1 DEF IInv, JobInv, StateInv, CopyInv, StepInv
<1> QED
  BY <1>1, <1>2, <1>3

\* A deposit leaves only for a swap its owner confirmed and whose intent is
\* activated, and nothing leaves a disabled wallet.
THEOREM NothingUnauthorizedCorrect == Spec => NothingUnauthorized
<1>1. Spec => [][/\ \A s \in Swaps : Leaves(s) => swap[s].confirmed /\ trails[s] # "QUOTED"
                 /\ disabled => /\ \A k \in Debits : ~Leaves(k)
                                /\ \A s \in Swaps : ~Asks(s)]_vars
  BY IInvCorrect, StepAuthorized, PTL DEF Spec
<1> QED
  BY <1>1 DEF NothingUnauthorized

-------------------------------------------------------------------------------
(* The debits implement the abstract promise                               *)

\* The initial states correspond.
LEMMA PromiseInit == Init => Promise!Init
<1> SUFFICES ASSUME Init PROVE Promise!Init
  OBVIOUS
<1>1. {k \in Debits : journal[k] \in Uncertain \cup {"executed"}} = {}
  BY DEF Init, Uncertain
<1>2. [k \in Debits |-> IF debit[k] \in {"success", "reverted"} THEN 1 ELSE 0]
        = [k \in Debits |-> 0]
  BY DEF Init
<1>3. [k \in Debits |-> IF journal[k] \in {"executed", "failed"} THEN journal[k]
                        ELSE "open"] = [k \in Debits |-> "open"]
  BY DEF Init
<1> QED
  BY <1>1, <1>2, <1>3 DEF Promise!Init

\* The abstract values of the three variables.
Mined == {"success", "reverted"}
Final == {"executed", "failed"}
Armed == {k \in Debits : journal[k] \in Uncertain \cup {"executed"}}
Taken == [k \in Debits |-> IF debit[k] \in {"success", "reverted"} THEN 1 ELSE 0]
Told  == [k \in Debits |-> IF journal[k] \in {"executed", "failed"}
                           THEN journal[k] ELSE "open"]

\* A step that moves one debit, in the journal or in the world, arms, takes,
\* closes or reports it, or is invisible: provided that what is final stays,
\* what may be out is not forgotten, and the chain mines what is uncertain.
LEMMA MoveKeepsPromise ==
  ASSUME NEW k \in Debits, NEW s, NEW d, TypeOK, DebitOK(k), DebitOK(k)',
         journal' = [journal EXCEPT ![k] = s],
         debit' = [debit EXCEPT ![k] = d],
         s \in Statuses,
         journal[k] \in Final => s = journal[k],
         journal[k] \in Uncertain => s \in Uncertain \cup Final,
         \/ debit[k] \in Mined <=> d \in Mined
         \/ s = journal[k] /\ s \in Uncertain /\ debit[k] \notin Mined /\ d \in Mined
  PROVE  Promise!Next \/ UNCHANGED <<Armed, Taken, Told>>
<1> USE DEF Mined, Final
<1>1. /\ journal[k] \in Statuses /\ journal'[k] = s /\ debit'[k] = d
      /\ \A l \in Debits \ {k} : journal'[l] = journal[l] /\ debit'[l] = debit[l]
  BY DEF TypeOK
<1>2. /\ s = "failed" => d \in {"none", "failed"}
      /\ s = "executed" => d \in {"success", "reverted"}
      /\ journal[k] \in {"absent", "preparing", "quoted"} => debit[k] \notin Mined
  BY <1>1 DEF DebitOK
<1>3. CASE s = journal[k] /\ debit[k] \notin Mined /\ d \in Mined
  <2>1. Armed' = Armed /\ Told' = Told
    BY <1>1, <1>3 DEF Armed, Told
  <2>2. Taken' = [Taken EXCEPT ![k] = 1] /\ Taken[k] = 0
    BY <1>1, <1>3 DEF Taken
  <2>3. k \in Armed /\ Told[k] = "open"
    BY <1>3 DEF Armed, Told, Uncertain
  <2>4. Promise!Take(k)
    BY <2>1, <2>2, <2>3 DEF Promise!Take, Armed, Taken, Told
  <2> QED
    BY <2>4 DEF Promise!Next
<1>4. CASE debit[k] \in Mined <=> d \in Mined
  <2>1. Taken' = Taken
    BY <1>1, <1>4 DEF Taken
  <2>2. CASE \/ s = journal[k]
             \/ s \in Uncertain /\ journal[k] \in Uncertain
             \/ {s, journal[k]} \subseteq {"absent", "preparing", "quoted"}
    <3>1. Armed' = Armed
      BY <1>1, <2>2 DEF Armed, Uncertain
    <3>2. Told' = Told
      BY <1>1, <2>2 DEF Told, Uncertain
    <3> QED
      BY <2>1, <3>1, <3>2
  <2>3. CASE s \in Uncertain /\ journal[k] \in {"absent", "preparing", "quoted"}
    <3>1. k \notin Armed /\ Armed' = Armed \cup {k}
      BY <1>1, <2>3 DEF Armed, Uncertain
    <3>2. Told' = Told /\ Told[k] = "open"
      BY <1>1, <2>3 DEF Told, Uncertain
    <3>3. Promise!Arm(k)
      BY <2>1, <3>1, <3>2 DEF Promise!Arm, Armed, Taken, Told
    <3> QED
      BY <3>3 DEF Promise!Next
  <2>4. CASE s = "failed" /\ journal[k] \notin Final
    <3>1. Taken[k] = 0
      BY <1>2, <1>4, <2>4 DEF Taken
    <3>2. Armed' = Armed \ {k}
      BY <1>1, <2>4 DEF Armed, Uncertain
    <3>3. Told[k] = "open" /\ Told' = [Told EXCEPT ![k] = "failed"]
      BY <1>1, <2>4 DEF Told
    <3>4. Promise!Close(k)
      BY <2>1, <3>1, <3>2, <3>3 DEF Promise!Close, Armed, Taken, Told
    <3> QED
      BY <3>4 DEF Promise!Next
  <2>5. CASE s = "executed" /\ journal[k] \in Uncertain
    <3>1. Taken[k] = 1
      BY <1>2, <1>4, <2>5 DEF Taken
    <3>2. Armed' = Armed
      BY <1>1, <2>5 DEF Armed, Uncertain
    <3>3. Told[k] = "open" /\ Told' = [Told EXCEPT ![k] = "executed"]
      BY <1>1, <2>5 DEF Told, Uncertain
    <3>4. Promise!Report(k)
      BY <2>1, <3>1, <3>2, <3>3
      DEF Promise!Report, Promise!Verdicts, Armed, Taken, Told
    <3> QED
      BY <3>4 DEF Promise!Next
  <2>6. s = "executed" => journal[k] \notin {"absent", "preparing", "quoted"}
    BY <1>2, <1>4
  <2> QED
    BY <1>1, <2>2, <2>3, <2>4, <2>5, <2>6 DEF Statuses, Uncertain
<1> QED
  BY <1>3, <1>4

\* What the journal takes from WaaS about a debit is uncertain or final.
LEMMA WaasAnswer ==
  ASSUME NEW k
  PROVE  WaasStatus(k) \in Statuses /\ WaasStatus(k) \in Uncertain \cup Final
BY DEF WaasStatus, Statuses, Uncertain, Final

\* Every step is a step of the promise, or a stutter.
LEMMA PromiseStep ==
  IInv /\ IInv' /\ [Next]_vars => [Promise!Next]_(Promise!vars)
<1> SUFFICES ASSUME IInv, IInv', [Next]_vars
             PROVE  Promise!Next \/ UNCHANGED <<Armed, Taken, Told>>
  BY DEF Promise!vars, Armed, Taken, Told
<1>t. /\ TypeOK /\ Debits = Swaps \cup Transfers
      /\ journal \in [Debits -> Statuses]
      /\ debit = [k \in Debits |-> debit[k]]
      /\ journal = [k \in Debits |-> journal[k]]
      /\ at \notin {"idle", "executing"} => current \in Debits
      /\ at = "executing" => current \in Debits
      /\ at = "quoting" => journal[current] = "preparing"
      /\ at \in {"check", "submit"} => journal[current] = "quoted"
      /\ at = "executing" => journal[current] = "submitting"
  BY DEF IInv, JobInv, StateInv, StepInv, TypeInv, TypeOK, Debits
<1>d. \A k \in Debits : DebitOK(k) /\ DebitOK(k)'
  BY DEF IInv, JobInv, StateInv, DebitInv
<1>m. \A k \in Debits :
        /\ journal[k] \in {"absent", "preparing"} => debit[k] = "none"
        /\ journal[k] = "quoted" => debit[k] \in {"quoted", "failed"}
        /\ journal[k] = "executed" => debit[k] \in Mined
        /\ journal[k] = "failed" => debit[k] \in {"none", "failed"}
  BY <1>d DEF DebitOK, Mined
<1>s. /\ {"preparing", "quoted", "failed", "submitting", "unknown"} \subseteq Statuses
      /\ {"submitting", "unknown"} \subseteq Uncertain
      /\ \A u \in Uncertain : u \notin Final /\ u \notin {"absent", "preparing", "quoted"}
  BY DEF Statuses, Uncertain, Final
<1>0. UNCHANGED <<journal, debit>> => UNCHANGED <<Armed, Taken, Told>>
  BY DEF Armed, Taken, Told
<1> DEFINE Goal == Promise!Next \/ UNCHANGED <<Armed, Taken, Told>>
\* A step of the journal alone, and one with the debit.
<1>j. ASSUME NEW k \in Debits, NEW s \in Statuses, UNCHANGED debit,
             journal' = [journal EXCEPT ![k] = s],
             journal[k] \in Final => s = journal[k],
             journal[k] \in Uncertain => s \in Uncertain \cup Final
      PROVE  Goal
  <2>1. debit' = [debit EXCEPT ![k] = debit[k]]
    BY <1>t, <1>j
  <2> QED
    BY <2>1, <1>t, <1>d, <1>j, MoveKeepsPromise
<1>1. ASSUME PrepareRecord PROVE Goal
  BY <1>t, <1>s, <1>j, <1>1 DEF PrepareRecord, world, Uncertain, Final
<1>2. ASSUME PrepareAnswered PROVE Goal
  <2>1. CASE /\ journal' = [journal EXCEPT ![current] = "quoted"]
             /\ debit' = [debit EXCEPT ![current] = "quoted"]
    <3>1. current \in Debits /\ journal[current] = "preparing" /\ debit[current] = "none"
      BY <1>t, <1>m, <1>2 DEF PrepareAnswered
    <3> QED
      BY <2>1, <3>1, <1>t, <1>s, <1>d, MoveKeepsPromise DEF Mined, Final, Uncertain
  <2>2. CASE journal' = [journal EXCEPT ![current] = "failed"] /\ UNCHANGED debit
    BY <1>t, <1>s, <1>j, <1>2, <2>2 DEF PrepareAnswered, Final, Uncertain
  <2> QED
    BY <1>2, <2>1, <2>2 DEF PrepareAnswered
<1>3. ASSUME FundRead PROVE Goal
  <2>1. current \in Debits /\ UNCHANGED debit
    BY <1>t, <1>3 DEF FundRead, world
  <2>2. CASE ~disabled /\ journal[current] \in Uncertain
    <3>1. journal' = [journal EXCEPT ![current] = WaasStatus(current)]
      BY <1>3, <2>2 DEF FundRead
    <3> QED
      BY <1>j, <1>s, <2>1, <2>2, <3>1, WaasAnswer
  <2>3. CASE ~(~disabled /\ journal[current] \in Uncertain)
    <3>1. journal' = [journal EXCEPT ![current] = journal[current]]
      BY <1>3, <2>3 DEF FundRead
    <3>2. journal' = journal
      BY <1>t, <3>1
    <3> QED
      BY <1>0, <2>1, <3>2
  <2> QED
    BY <2>2, <2>3
<1>4. ASSUME NEW k \in Debits, Submit(k), journal[k] = "quoted" PROVE Goal
  BY <1>t, <1>s, <1>d, <1>m, <1>4, MoveKeepsPromise DEF Submit, Mined, Final
<1>5. ASSUME Executed PROVE Goal
  <2>1. PICK s \in {WaasStatus(current), "unknown"} :
          journal' = [journal EXCEPT ![current] = s]
    BY <1>5 DEF Executed
  <2>2. s \in Statuses /\ s \in Uncertain \cup Final
    BY <1>s, WaasAnswer
  <2>3. current \in Debits /\ journal[current] = "submitting" /\ UNCHANGED debit
    BY <1>t, <1>5 DEF Executed, world
  <2> QED
    BY <1>j, <1>s, <2>1, <2>2, <2>3
<1>6. ASSUME NEW t \in Transfers, Prepare(t) PROVE Goal
  <2>1. PICK s \in {"preparing", "quoted", "failed"} :
          /\ journal' = [journal EXCEPT ![t] = s]
          /\ debit' = [debit EXCEPT ![t] = IF s = "quoted" THEN "quoted" ELSE @]
    BY <1>6 DEF Prepare
  <2>2. t \in Debits /\ journal[t] = "absent" /\ debit[t] = "none"
    BY <1>t, <1>m, <1>6 DEF Prepare
  <2> DEFINE d == IF s = "quoted" THEN "quoted" ELSE debit[t]
  <2>3. debit' = [debit EXCEPT ![t] = d] /\ d \notin Mined /\ debit[t] \notin Mined
    BY <2>1, <2>2 DEF Mined
  <2>4. s \in Statuses
    BY <1>s, <2>1
  <2> HIDE DEF d
  <2> QED
    BY <2>1, <2>2, <2>3, <2>4, <1>t, <1>d, MoveKeepsPromise DEF Final, Uncertain
<1>7. ASSUME NEW k \in Debits, PollDebit(k) PROVE Goal
  BY <1>j, <1>s, <1>7, WaasAnswer DEF PollDebit, world
<1>8. ASSUME NEW k \in Debits, WaasHandles(k) PROVE Goal
  <2>1. PICK d : debit' = [debit EXCEPT ![k] = d]
                 /\ \/ debit[k] = "flying" /\ d \in {"quoted", "pending"}
                    \/ debit[k] = "pending" /\ d \in {"success", "reverted", "failed"}
                    \/ debit[k] = "quoted" /\ d = "failed"
    BY <1>8 DEF WaasHandles
  <2>2. journal' = [journal EXCEPT ![k] = journal[k]] /\ journal[k] \in Statuses
    BY <1>t, <1>8 DEF WaasHandles, durable
  <2>3. debit[k] \in {"flying", "pending"} => journal[k] \in Uncertain
    BY <1>t, <1>m DEF Statuses, Uncertain, Mined
  <2> QED
    BY <2>1, <2>2, <2>3, <1>t, <1>d, MoveKeepsPromise DEF Mined
<1>9. ASSUME UNCHANGED <<journal, debit>> PROVE Goal
  BY <1>0, <1>9
<1> HIDE DEF Goal
<1>10. ASSUME \/ Fail \/ PrepareFunding \/ Prepared \/ NotSponsored
              \/ ActivateQuoted \/ ExecuteIntent \/ ActivateRead
       PROVE  UNCHANGED <<journal, debit>>
  BY <1>10 DEF Fail, PrepareFunding, Prepared, NotSponsored, ActivateQuoted,
     ExecuteIntent, ActivateRead, world
<1>11. ASSUME \/ FundRefused \/ FundAccepted \/ SubmitExpired \/ FundConfirmed
              \/ FundReverted \/ FundPending
       PROVE  UNCHANGED <<journal, debit>>
  BY <1>11 DEF FundRefused, FundAccepted, SubmitExpired, FundConfirmed,
     FundReverted, FundPending, world
<1>12. ASSUME ObserveRead \/ Repair \/ Observed \/ ObservedUnclear \/ Crash
       PROVE  UNCHANGED <<journal, debit>>
  BY <1>12 DEF ObserveRead, Repair, Observed, ObservedUnclear, Crash, durable, world
<1>13. ASSUME NEW s \in Swaps, SwapCall(s) \/ World(s)
       PROVE  UNCHANGED <<journal, debit>>
  BY <1>13 DEF SwapCall, World, Quote, Confirm, GetSwap, Expire, Advance,
     TrailsHandles, TrailsLoses, TrailsMoves, TrailsSettles, Tick, durable, world
<1>14. ASSUME NEW k \in Debits, QuoteTick(k) PROVE UNCHANGED <<journal, debit>>
  BY <1>14 DEF QuoteTick, durable
<1>15. ASSUME NEW b \in BOOLEAN, SetDisabled(b) PROVE UNCHANGED <<journal, debit>>
  BY <1>15 DEF SetDisabled, world
<1>16. ASSUME UNCHANGED vars PROVE UNCHANGED <<journal, debit>>
  BY <1>16 DEF vars, durable, world
<1>17. ASSUME SubmitFunding PROVE Goal
  BY <1>t, <1>4, <1>17 DEF SubmitFunding
<1>18. ASSUME NEW t \in Transfers, TransferCall(t) PROVE Goal
  BY <1>t, <1>4, <1>6, <1>18 DEF TransferCall, Execute
<1>19. Goal
  <2>1. CASE Job
    BY <1>1, <1>2, <1>3, <1>5, <1>9, <1>10, <1>11, <1>12, <1>17, <2>1 DEF Job
  <2>2. CASE Next /\ ~Job
    BY <1>7, <1>8, <1>9, <1>12, <1>13, <1>14, <1>15, <1>18, <2>2 DEF Next
  <2> QED
    BY <1>9, <1>16, <2>1, <2>2
<1> QED
  BY <1>19 DEF Goal

\* The debits of swaps and transfers keep the promise of SubmitOnce: nothing
\* is mined that was not recorded first, nothing twice, and nothing that was
\* reported as failed.
THEOREM DebitsKeepPromise == Spec => PromiseKept
<1> QED
  BY PromiseInit, PromiseStep, IInvCorrect, PTL DEF Spec, PromiseKept, Promise!Spec

-------------------------------------------------------------------------------
(* The swaps implement the contract with their owner                       *)

Ended == {"failed", "expired", "succeeded", "refunded"}

\* The abstract values of the three variables.
Agreed  == {s \in Swaps : swap[s].confirmed /\ swap[s].phase \notin {"failed", "expired"}}
Paid    == {s \in Swaps : debit[s] = "success"}
Outcome == [s \in Swaps |->
              CASE swap[s].phase \in {"failed", "expired"} -> "closed"
                [] swap[s].phase = "succeeded" -> "delivered"
                [] swap[s].phase = "refunded" -> "refunded"
                [] OTHER -> "open"]

\* The initial states correspond.
LEMMA ContractInit == Init => Contract!Init
<1> SUFFICES ASSUME Init PROVE Contract!Init
  OBVIOUS
<1>1. \A s \in Swaps : /\ swap[s].phase = "none" /\ ~swap[s].confirmed
                       /\ debit[s] = "none"
  BY DEF Init, NoRecord, Debits
<1>2. Agreed = {} /\ Paid = {}
  BY <1>1 DEF Agreed, Paid
<1>3. Outcome = [s \in Swaps |-> "open"]
  BY <1>1 DEF Outcome
<1> QED
  BY <1>2, <1>3 DEF Contract!Init, Agreed, Paid, Outcome

\* What is open and what is not.
LEMMA OutcomeOf ==
  ASSUME NEW s \in Swaps
  PROVE  /\ swap[s].phase \notin Ended => Outcome[s] = "open"
         /\ swap[s].phase \in {"failed", "expired"} => Outcome[s] = "closed"
         /\ swap[s].phase = "succeeded" => Outcome[s] = "delivered"
         /\ swap[s].phase = "refunded" => Outcome[s] = "refunded"
BY DEF Outcome, Ended

\* A step that replaces one record agrees to the swap, ends it or does not show,
\* provided that the swap has not ended and what was agreed to is not forgotten.
LEMMA SaveKeepsContract ==
  ASSUME IInv, IInv', NEW s \in Swaps, NEW r \in Records,
         swap' = [swap EXCEPT ![s] = r],
         \A l \in Swaps : debit'[l] = "success" <=> debit[l] = "success",
         swap[s].phase \notin Ended,
         swap[s].confirmed => r.confirmed,
         r.confirmed /\ ~swap[s].confirmed => r.phase \notin Ended
  PROVE  Contract!Next \/ UNCHANGED <<Agreed, Paid, Outcome>>
<1>1. /\ swap \in [Swaps -> Records] /\ swap'[s] = r
      /\ \A l \in Swaps \ {s} : swap'[l] = swap[l]
      /\ swap[s].confirmed \in BOOLEAN /\ r.confirmed \in BOOLEAN
  BY DEF IInv, JobInv, TypeInv, TypeOK, Records
<1>2. Paid' = Paid
  BY DEF Paid
<1>3. Outcome[s] = "open"
  BY OutcomeOf
<1>4. CASE r.confirmed /\ ~swap[s].confirmed
  <2>1. s \notin Agreed /\ Agreed' = Agreed \cup {s}
    BY <1>1, <1>4 DEF Agreed, Ended
  <2>2. Outcome' = Outcome
    BY <1>1, <1>4 DEF Outcome, Ended
  <2>3. Contract!Agree(s)
    BY <1>2, <1>3, <2>1, <2>2 DEF Contract!Agree, Agreed, Paid, Outcome
  <2> QED
    BY <2>3 DEF Contract!Next
<1>5. CASE r.confirmed <=> swap[s].confirmed
  <2>1. CASE r.phase \notin Ended
    <3>1. Outcome' = Outcome /\ Agreed' = Agreed
      BY <1>1, <1>5, <2>1 DEF Outcome, Agreed, Ended
    <3> QED
      BY <1>2, <3>1
  <2> DEFINE o == Outcome'[s]
  <2>2. Outcome' = [Outcome EXCEPT ![s] = o]
    BY <1>1 DEF Outcome
  <2>3. /\ DebitOK(s)' /\ RecordOK(s, r)'
        /\ journal'[s] \in Statuses
        /\ debit'[s] \in {"none", "quoted", "flying", "pending", "success",
                          "reverted", "failed"}
    BY <1>1 DEF IInv, JobInv, StateInv, TypeInv, TypeOK, DebitInv, RecordInv,
                RecordOK, Debits
  <2>4. CASE r.phase \in {"failed", "expired"}
    <3>1. o = "closed" /\ Agreed' = Agreed \ {s}
      BY <1>1, <1>5, <2>4 DEF Outcome, Agreed
    <3>2. s \notin Paid
      BY <1>2, <2>3, <2>4 DEF DebitOK, RecordOK, Uncertain, Statuses, Paid
    <3> HIDE DEF o
    <3>3. Contract!Close(s)
      BY <1>2, <1>3, <2>2, <3>1, <3>2 DEF Contract!Close, Agreed, Paid, Outcome
    <3> QED
      BY <3>3 DEF Contract!Next
  <2>5. CASE r.phase = "succeeded"
    <3>1. o = "delivered" /\ Agreed' = Agreed
      BY <1>1, <1>5, <2>5 DEF Outcome, Agreed, Ended
    <3>2. s \in Paid
      BY <1>2, <2>3, <2>5 DEF RecordOK, Paid
    <3> HIDE DEF o
    <3>3. Contract!Deliver(s)
      BY <1>2, <1>3, <2>2, <3>1, <3>2 DEF Contract!Deliver, Agreed, Paid, Outcome
    <3> QED
      BY <3>3 DEF Contract!Next
  <2>6. CASE r.phase = "refunded"
    <3>1. o = "refunded" /\ Agreed' = Agreed
      BY <1>1, <1>5, <2>6 DEF Outcome, Agreed, Ended
    <3>2. s \in Agreed
      BY <1>5, <2>3, <2>6 DEF RecordOK, Agreed, Ended
    <3> HIDE DEF o
    <3>3. Contract!Refund(s)
      BY <1>2, <1>3, <2>2, <3>1, <3>2 DEF Contract!Refund, Agreed, Paid, Outcome
    <3> QED
      BY <3>3 DEF Contract!Next
  <2> QED
    BY <2>1, <2>4, <2>5, <2>6 DEF Ended
<1> QED
  BY <1>1, <1>4, <1>5

\* A deposit that is mined was agreed to, is the first one, and the swap is open.
LEMMA MinedKeepsContract ==
  ASSUME IInv, NEW k \in Debits, debit[k] = "pending",
         debit' = [debit EXCEPT ![k] = "success"], UNCHANGED swap
  PROVE  Contract!Next \/ UNCHANGED <<Agreed, Paid, Outcome>>
<1>1. Agreed' = Agreed /\ Outcome' = Outcome
  BY DEF Agreed, Outcome
<1>2. debit'[k] = "success" /\ \A l \in Debits \ {k} : debit'[l] = debit[l]
  BY DEF IInv, JobInv, TypeInv, TypeOK
<1>3. CASE k \notin Swaps
  BY <1>1, <1>2, <1>3 DEF Paid, Debits
<1>4. CASE k \in Swaps
  <2>1. journal[k] \in Uncertain /\ RecordOK(k, swap[k])
    BY <1>4 DEF IInv, JobInv, StateInv, TypeInv, TypeOK, DebitInv, DebitOK,
                RecordInv, Statuses, Uncertain
  <2>2. swap[k].confirmed /\ swap[k].phase \notin Ended
    BY <2>1 DEF RecordOK, Ended, Uncertain
  <2>3. k \in Agreed \ Paid /\ Paid' = Paid \cup {k} /\ Outcome[k] = "open"
    BY <1>2, <1>4, <2>2, OutcomeOf DEF Agreed, Paid, Debits
  <2>4. Contract!Pay(k)
    BY <1>1, <2>3 DEF Contract!Pay, Agreed, Paid, Outcome
  <2> QED
    BY <1>4, <2>4 DEF Contract!Next
<1> QED
  BY <1>3, <1>4

\* No change that a job makes to its copy forgets the confirmation.
LEMMA CopyConfirmed ==
  ASSUME NEW r \in Records, r.confirmed,
         NEW p \in Phases, NEW a \in Actions, NEW f \in Statuses
  PROVE  /\ [r EXCEPT !.phase = p].confirmed
         /\ [r EXCEPT !.phase = p, !.action = a].confirmed
         /\ [r EXCEPT !.funding = f].confirmed
         /\ [r EXCEPT !.fundingConfirmed = TRUE, !.phase = p, !.action = a].confirmed
BY DEF Records

\* A record that may be saved by the running job.
Savable(r) == r \in Records /\ r.confirmed

\* What the steps of a job make of its copy may be saved.
LEMMA WorkSavable ==
  ASSUME IInv, current \in Swaps
  PROVE  /\ Savable(work) /\ Savable(Ruled(work)) /\ Savable(Settled(work))
         /\ \A p \in Phases : Savable([work EXCEPT !.phase = p])
         /\ \A p \in Phases, a \in Actions :
              /\ Savable([work EXCEPT !.phase = p, !.action = a])
              /\ Savable([work EXCEPT !.fundingConfirmed = TRUE, !.phase = p,
                                      !.action = a])
         /\ \A f \in Statuses :
              /\ Savable(Ruled([work EXCEPT !.funding = f]))
              /\ Savable([[work EXCEPT !.funding = f] EXCEPT !.phase = "activating",
                                                             !.action = "activate"])
<1>1. Savable(work)
  BY DEF IInv, JobInv, TypeInv, TypeOK, StateInv, CopyInv, Savable
<1>p. /\ {"failed", "succeeded", "refunded", "attention", "settling",
          "activating"} \subseteq Phases
      /\ {"none", "activate"} \subseteq Actions /\ "absent" \in Statuses
  BY DEF Phases, Actions, Unfunded, Statuses
<1>2. ASSUME NEW r, Savable(r), NEW p \in Phases, NEW a \in Actions
      PROVE  /\ Savable([r EXCEPT !.phase = p])
             /\ Savable([r EXCEPT !.phase = p, !.action = a])
             /\ Savable([r EXCEPT !.fundingConfirmed = TRUE, !.phase = p, !.action = a])
  BY <1>2, <1>p, RecordTyped, CopyConfirmed DEF Savable
<1>3. ASSUME NEW r, Savable(r) PROVE Savable(Ruled(r))
  BY <1>2, <1>3, <1>p DEF Ruled
<1>4. ASSUME NEW r, Savable(r) PROVE Savable(Settled(r))
  BY <1>2, <1>4, <1>p DEF Settled
<1>5. ASSUME NEW f \in Statuses PROVE Savable([work EXCEPT !.funding = f])
  BY <1>1, <1>5, <1>p, RecordTyped, CopyConfirmed DEF Savable
<1> QED
  BY <1>1, <1>2, <1>3, <1>4, <1>5, <1>p

\* What a step of the running job does to the records: it saves the one it is
\* about, or leaves them.
JobSaves == \/ UNCHANGED swap
            \/ current \in Swaps /\ \E r : Savable(r) /\ swap' = [swap EXCEPT ![current] = r]

LEMMA JobOnlySaves == ASSUME IInv, Job PROVE JobSaves
<1>t. /\ at \notin {"idle", "executing"} => current \in Swaps
      /\ journal \in [Debits -> Statuses] /\ Swaps \subseteq Debits
  BY DEF IInv, JobInv, TypeInv, TypeOK, Debits
<1>p. /\ {"settling", "attention", "funding", "activating", "failed"} \subseteq Phases
      /\ {"none", "observe", "activate", "fund"} \subseteq Actions
  BY DEF Phases, Actions, Unfunded
<1>w. ASSUME at \notin {"idle", "executing"} PROVE
       /\ Savable(work) /\ Savable(Ruled(work)) /\ Savable(Settled(work))
       /\ \A p \in Phases : Savable([work EXCEPT !.phase = p])
       /\ \A p \in Phases, a \in Actions :
            /\ Savable([work EXCEPT !.phase = p, !.action = a])
            /\ Savable([work EXCEPT !.fundingConfirmed = TRUE, !.phase = p, !.action = a])
       /\ \A f \in Statuses :
            /\ Savable(Ruled([work EXCEPT !.funding = f]))
            /\ Savable([[work EXCEPT !.funding = f] EXCEPT !.phase = "activating",
                                                           !.action = "activate"])
  BY <1>t, <1>w, WorkSavable
<1>s. ASSUME NEW r, Savable(r), current \in Swaps, Save(current, r)
      PROVE  JobSaves
  BY <1>s DEF Save, JobSaves
<1>r. ASSUME NEW r, Savable(r), current \in Swaps, SaveAndRest(r)
      PROVE  JobSaves
  BY <1>r, <1>s DEF SaveAndRest
<1>1. ASSUME Fail \/ NotSponsored \/ ExecuteIntent \/ SubmitExpired \/ FundRefused
      PROVE  JobSaves
  BY <1>t, <1>p, <1>w, <1>r, <1>1
     DEF Fail, NotSponsored, ExecuteIntent, SubmitExpired, FundRefused
<1>2. ASSUME PrepareFunding \/ ActivateQuoted \/ FundAccepted \/ Repair
      PROVE  JobSaves
  BY <1>t, <1>w, <1>s, <1>2 DEF PrepareFunding, ActivateQuoted, FundAccepted, Repair
<1>3. ASSUME PrepareAnswered PROVE JobSaves
  BY <1>t, <1>w, <1>r, <1>3 DEF PrepareAnswered, JobSaves
<1>4. ASSUME Prepared PROVE JobSaves
  BY <1>t, <1>w, <1>r, <1>4 DEF Prepared
<1>5. ASSUME ActivateRead PROVE JobSaves
  BY <1>t, <1>p, <1>w, <1>r, <1>5 DEF ActivateRead
<1>6. ASSUME FundConfirmed \/ FundReverted \/ FundPending PROVE JobSaves
  BY <1>t, <1>p, <1>w, <1>r, <1>6 DEF FundConfirmed, FundReverted, FundPending
<1>7. ASSUME Observed \/ ObservedUnclear PROVE JobSaves
  BY <1>t, <1>p, <1>w, <1>r, <1>7 DEF Observed, ObservedUnclear
<1>8. ASSUME PrepareRecord \/ FundRead \/ SubmitFunding \/ Executed \/ ObserveRead
      PROVE  JobSaves
  BY <1>8 DEF PrepareRecord, FundRead, SubmitFunding, Executed, ObserveRead, durable,
              JobSaves
<1> QED
  BY <1>1, <1>2, <1>3, <1>4, <1>5, <1>6, <1>7, <1>8 DEF Job

\* No step of the wallet makes or unmakes a deposit; only the chain does.
LEMMA OnlyMining ==
  ASSUME IInv, [Next]_vars, \A k \in Debits : ~WaasHandles(k)
  PROVE  \A s \in Swaps : debit'[s] = "success" <=> debit[s] = "success"
<1>t. /\ debit \in [Debits -> {"none", "quoted", "flying", "pending", "success",
                              "reverted", "failed"}]
      /\ Swaps \subseteq Debits /\ Transfers \subseteq Debits
      /\ at \notin {"idle", "executing"} => current \in Debits
      /\ at = "quoting" => journal[current] = "preparing"
      /\ at = "submit" => journal[current] = "quoted"
  BY DEF IInv, JobInv, TypeInv, TypeOK, StateInv, StepInv, Debits
<1>m. \A k \in Debits : /\ journal[k] \in {"absent", "preparing"} => debit[k] = "none"
                        /\ journal[k] = "quoted" => debit[k] \in {"quoted", "failed"}
  BY DEF IInv, JobInv, StateInv, DebitInv, DebitOK
<1> DEFINE Same == \A s \in Swaps : debit'[s] = "success" <=> debit[s] = "success"
<1>0. ASSUME UNCHANGED debit PROVE Same
  BY <1>0
<1>1. ASSUME NEW k \in Debits, NEW d, debit' = [debit EXCEPT ![k] = d],
             d # "success", debit[k] # "success"
      PROVE  Same
  BY <1>t, <1>1
<1>2. ASSUME PrepareAnswered PROVE Same
  <2>1. CASE debit' = [debit EXCEPT ![current] = "quoted"]
    BY <1>t, <1>m, <1>1, <1>2, <2>1 DEF PrepareAnswered
  <2>2. CASE UNCHANGED debit
    BY <1>0, <2>2
  <2> QED
    BY <1>2, <2>1, <2>2 DEF PrepareAnswered
<1>3. ASSUME NEW k \in Debits, Submit(k), journal[k] = "quoted" PROVE Same
  BY <1>t, <1>m, <1>1, <1>3 DEF Submit
<1>4. ASSUME SubmitFunding PROVE Same
  BY <1>t, <1>3, <1>4 DEF SubmitFunding
<1>5. ASSUME NEW t \in Transfers, TransferCall(t) PROVE Same
  <2>1. CASE Execute(t)
    BY <1>t, <1>3, <2>1 DEF Execute
  <2>2. CASE Prepare(t)
    <3>1. PICK d : debit' = [debit EXCEPT ![t] = d] /\ d \in {"quoted", debit[t]}
      BY <2>2 DEF Prepare
    <3>2. t \in Debits /\ debit[t] = "none"
      BY <1>t, <1>m, <2>2 DEF Prepare
    <3> QED
      BY <1>1, <3>1, <3>2
  <2> QED
    BY <1>5, <2>1, <2>2 DEF TransferCall
<1> HIDE DEF Same
<1>6. ASSUME \/ Fail \/ PrepareFunding \/ Prepared \/ NotSponsored
             \/ ActivateQuoted \/ ExecuteIntent \/ ActivateRead \/ FundRead
      PROVE  UNCHANGED debit
  BY <1>6 DEF Fail, PrepareFunding, Prepared, NotSponsored, ActivateQuoted,
     ExecuteIntent, ActivateRead, FundRead, world
<1>7. ASSUME \/ FundRefused \/ FundAccepted \/ SubmitExpired \/ FundConfirmed
             \/ FundReverted \/ FundPending \/ PrepareRecord \/ Executed
      PROVE  UNCHANGED debit
  BY <1>7 DEF FundRefused, FundAccepted, SubmitExpired, FundConfirmed,
     FundReverted, FundPending, PrepareRecord, Executed, world
<1>8. ASSUME ObserveRead \/ Repair \/ Observed \/ ObservedUnclear \/ Crash
      PROVE  UNCHANGED debit
  BY <1>8 DEF ObserveRead, Repair, Observed, ObservedUnclear, Crash, world
<1>9. ASSUME NEW s \in Swaps, SwapCall(s) \/ World(s)
      PROVE  UNCHANGED debit
  BY <1>9 DEF SwapCall, World, Quote, Confirm, GetSwap, Expire, Advance,
     TrailsHandles, TrailsLoses, TrailsMoves, TrailsSettles, Tick, world
<1>10. ASSUME NEW k \in Debits, PollDebit(k) \/ QuoteTick(k) PROVE UNCHANGED debit
  BY <1>10 DEF PollDebit, QuoteTick, world
<1>11. ASSUME NEW b \in BOOLEAN, SetDisabled(b) PROVE UNCHANGED debit
  BY <1>11 DEF SetDisabled, world
<1>12. ASSUME UNCHANGED vars PROVE UNCHANGED debit
  BY <1>12 DEF vars, world
<1>13. Same
  <2>1. CASE Job
    BY <1>0, <1>2, <1>4, <1>6, <1>7, <1>8, <2>1 DEF Job
  <2>2. CASE Next /\ ~Job
    BY <1>0, <1>5, <1>8, <1>9, <1>10, <1>11, <2>2 DEF Next
  <2> QED
    BY <1>0, <1>12, <2>1, <2>2
<1> QED
  BY <1>13 DEF Same

\* Every step is a step of the contract, or a stutter.
LEMMA ContractStep ==
  IInv /\ IInv' /\ [Next]_vars => [Contract!Next]_(Contract!vars)
<1> SUFFICES ASSUME IInv, IInv', [Next]_vars
             PROVE  Contract!Next \/ UNCHANGED <<Agreed, Paid, Outcome>>
  BY DEF Contract!vars, Agreed, Paid, Outcome
<1> DEFINE Goal == Contract!Next \/ UNCHANGED <<Agreed, Paid, Outcome>>
           Same == \A l \in Swaps : debit'[l] = "success" <=> debit[l] = "success"
<1>t. /\ swap \in [Swaps -> Records] /\ NoRecord \in Records
      /\ \A s \in Swaps : swap[s] \in Records
  BY DEF IInv, JobInv, TypeInv, TypeOK, NoRecord, Records, Phases, Actions, Statuses
<1>q. \A s \in Swaps : swap[s].action # "none" => /\ swap[s].phase \notin Ended
                                                  /\ swap[s].confirmed
  BY DEF IInv, JobInv, StateInv, RecordInv, RecordOK, Ended
<1>0. ASSUME UNCHANGED swap, Same PROVE Goal
  BY <1>0 DEF Agreed, Paid, Outcome
<1>1. ASSUME NEW k \in Debits, WaasHandles(k) PROVE Goal
  <2>1. PICK d : /\ debit' = [debit EXCEPT ![k] = d]
                 /\ d = "success" => debit[k] = "pending"
                 /\ debit[k] # "success"
    BY <1>1 DEF WaasHandles
  <2>2. UNCHANGED swap
    BY <1>1 DEF WaasHandles, durable
  <2>3. CASE d = "success"
    BY <2>1, <2>2, <2>3, MinedKeepsContract
  <2>4. CASE d # "success"
    <3>1. Same
      BY <2>1, <2>4 DEF IInv, JobInv, TypeInv, TypeOK, Debits
    <3> QED
      BY <1>0, <2>2, <3>1
  <2> QED
    BY <2>3, <2>4
<1>2. ASSUME Same, Job PROVE Goal
  <2>1. CASE UNCHANGED swap
    BY <1>0, <1>2, <2>1
  <2>2. CASE ~UNCHANGED swap
    <3>1. PICK r : /\ current \in Swaps /\ Savable(r)
                   /\ swap' = [swap EXCEPT ![current] = r]
      BY <1>2, <2>2, JobOnlySaves DEF JobSaves
    <3>2. swap[current].action # "none"
      BY <3>1 DEF IInv, JobInv, StateInv, CopyInv
    <3> QED
      BY <1>2, <1>q, <3>1, <3>2, SaveKeepsContract DEF Savable
  <2> QED
    BY <2>1, <2>2
<1>3. ASSUME Same, NEW s \in Swaps, SwapCall(s) PROVE Goal
  <2>1. CASE Quote(s)
    <3> DEFINE r == [NoRecord EXCEPT !.phase = "quoted"]
    <3>1. r \in Records /\ r.phase = "quoted" /\ ~r.confirmed
      BY DEF NoRecord, Records, Phases, Actions, Statuses
    <3>2. swap' = [swap EXCEPT ![s] = r] /\ swap[s].phase = "none"
      BY <2>1 DEF Quote, Save
    <3>3. ~swap[s].confirmed
      BY <3>2 DEF IInv, JobInv, StateInv, RecordInv, RecordOK
    <3> HIDE DEF r
    <3> QED
      BY <1>3, <3>1, <3>2, <3>3, SaveKeepsContract DEF Ended
  <2>2. CASE Confirm(s)
    <3> DEFINE r == [swap[s] EXCEPT !.confirmed = TRUE, !.phase = "preparing",
                                    !.action = "prepare-funding"]
    <3>1. r \in Records /\ r.phase = "preparing" /\ r.confirmed
      BY <1>t DEF Records, Phases, Actions, Unfunded
    <3>2. swap' = [swap EXCEPT ![s] = r] /\ swap[s].phase = "quoted"
      BY <2>2 DEF Confirm, Save
    <3> HIDE DEF r
    <3> QED
      BY <1>3, <3>1, <3>2, SaveKeepsContract DEF Ended
  <2>3. CASE GetSwap(s)
    <3> DEFINE r == [swap[s] EXCEPT !.phase = "expired"]
    <3>1. r \in Records /\ r.confirmed = swap[s].confirmed
      BY <1>t DEF Records, Phases
    <3>2. swap' = [swap EXCEPT ![s] = r] /\ swap[s].phase = "quoted"
      BY <2>3 DEF GetSwap, Save
    <3> HIDE DEF r
    <3> QED
      BY <1>3, <3>1, <3>2, SaveKeepsContract DEF Ended
  <2>4. CASE Expire(s)
    <3> DEFINE r == [Reread(s) EXCEPT !.phase = "expired", !.action = "none"]
    <3>0. Reread(s) \in Records /\ "expired" \in Phases /\ "none" \in Actions
      BY RereadTyped DEF IInv, JobInv, TypeInv, Phases, Actions
    <3>1. r \in Records /\ r.confirmed = Reread(s).confirmed
      BY <3>0 DEF Records
    <3>2. swap' = [swap EXCEPT ![s] = r] /\ swap[s].action # "none"
      BY <2>4 DEF Expire, Save
    <3>3. r.confirmed = swap[s].confirmed
      BY <1>t, <3>1 DEF Reread, Records
    <3> HIDE DEF r
    <3> QED
      BY <1>3, <1>q, <3>1, <3>2, <3>3, SaveKeepsContract
  <2>5. CASE Advance(s)
    BY <1>0, <1>3, <2>5 DEF Advance, durable
  <2> QED
    BY <1>3, <2>1, <2>2, <2>3, <2>4, <2>5 DEF SwapCall
<1>4. ASSUME Same, Next, ~Job, \A s \in Swaps : ~SwapCall(s),
             \A k \in Debits : ~WaasHandles(k)
      PROVE  UNCHANGED swap
  BY <1>4 DEF Next, Crash, World, TransferCall, Prepare, Execute, PollDebit, QuoteTick,
     SetDisabled, TrailsHandles, TrailsLoses, TrailsMoves, TrailsSettles, Tick, durable
<1>5. ASSUME UNCHANGED vars PROVE UNCHANGED swap /\ Same
  BY <1>5 DEF vars, durable, world
<1>6. (\A k \in Debits : ~WaasHandles(k)) => Same
  BY OnlyMining
<1> HIDE DEF Goal, Same
<1>7. Goal
  BY <1>0, <1>1, <1>2, <1>3, <1>4, <1>5, <1>6
<1> QED
  BY <1>7 DEF Goal

\* The swaps keep the contract with their owner (SwapContract): paid once and
\* only if agreed to, ended once and truly, and nothing afterwards.
THEOREM SwapsKeepContract == Spec => ContractKept
<1> QED
  BY ContractInit, ContractStep, IInvCorrect, PTL DEF Spec, ContractKept, Contract!Spec
===============================================================================
