----------------------------- MODULE SwapFunding -----------------------------
(***************************************************************************)
(* How WalletSwaps pays for a swap (trails/swaps.ts): quoteSwap,           *)
(* confirmSwap, getSwap, the steps of advance up to settlement, and the    *)
(* ordinary transfers that compete with swaps for the same source chain.   *)
(*                                                                         *)
(* Everything runs in the workflow executor, so one job is active at a     *)
(* time; advance is split where it awaits something whose effect or whose  *)
(* answer can change meanwhile.  It works on a copy of the record, which   *)
(* is durable only as far as it was saved.  The wallet's operation journal *)
(* is seen through the statuses it reports; how it earns them is the       *)
(* subject of OperationJournal.                                            *)
(*                                                                         *)
(* Abstractions.  The operation that funds swap s is named s.  A record is *)
(* due whenever it has an action (nextAt only orders the steps).  Remote   *)
(* reads of one decision (balance, intent, receipt) happen together.  The  *)
(* polls of available() are steps of their own, PollDebit.  Recovery of a  *)
(* swap is not in this module.                                             *)
(***************************************************************************)
EXTENDS Naturals, FiniteSets

CONSTANTS Swaps, Transfers, None,
          Chain(_)      \* the source chain of a debit

Debits == Swaps \cup Transfers

ASSUME NamesAssumption == Swaps \cap Transfers = {} /\ None \notin Debits

VARIABLES
  swap,                 \* durable: the record of each swap
  journal,              \* durable: the wallet's status of each debit
  disabled,             \* durable: the wallet is disabled
  at,                   \* volatile: where the running job stands
  current,              \* volatile: the debit the job is about
  work,                 \* volatile: the job's copy of the record
  seen,                 \* volatile: the intent status that observe read
  debit,                \* WaaS and the chain: what became of each debit
  trails,               \* Trails: the state of each intent
  flight,               \* requests to Trails sent and not yet handled
  left,                 \* time left on each swap's quote
  quoteLeft,            \* time left on the WaaS quote of each debit
  cooling               \* less than 120 seconds since the last repair

durable  == <<swap, journal, disabled>>
volatile == <<at, current, work, seen>>
world    == <<debit, trails, flight, left, quoteLeft, cooling>>
vars     == <<durable, volatile, world>>

-------------------------------------------------------------------------------
(* Types                                                                   *)

Statuses  == {"absent", "preparing", "quoted", "submitting", "pending",
              "executed", "failed", "unknown"}
Uncertain == {"submitting", "pending", "unknown"}
Phases    == {"none", "quoted", "preparing", "activating", "funding",
              "settling", "attention", "succeeded", "refunded", "failed",
              "expired"}
\* Mutant: an activating swap is not looked at.
UnfundedSome == {"prepare-funding", "fund"}
Unfunded  == {"prepare-funding", "activate", "fund"}
Actions   == Unfunded \cup {"none", "observe"}
Records   == [phase : Phases, action : Actions, confirmed : BOOLEAN,
              funding : Statuses, fundingConfirmed : BOOLEAN]

\* WAITING, DEPOSITED and MISSED are the EXECUTING of an intent whose deposit
\* leg is pending, observed or failed; ABORTED follows a failed deposit leg.
Intents   == {"none", "QUOTED", "WAITING", "DEPOSITED", "MISSED", "SUCCEEDED",
              "REFUNDED", "FAILED", "ABORTED"}
TerminalUpstream == {"SUCCEEDED", "REFUNDED", "FAILED", "ABORTED"}

Steps == {"idle", "prepare-funding", "preparing", "quoting", "activate",
          "activating", "fund", "check", "submit", "executing", "result",
          "observe", "repair", "observed"}

\* More than 30 seconds, less, nothing.
Left == {"ample", "short", "none"}

NoRecord == [phase |-> "none", action |-> "none", confirmed |-> FALSE,
             funding |-> "absent", fundingConfirmed |-> FALSE]

TypeOK ==
  /\ swap \in [Swaps -> Records]
  /\ journal \in [Debits -> Statuses]
  /\ disabled \in BOOLEAN
  /\ at \in Steps
  /\ current \in Debits \cup {None}
  /\ work \in Records
  /\ seen \in Intents
  /\ debit \in [Debits -> {"none", "quoted", "flying", "pending", "success",
                           "reverted", "failed"}]
  /\ trails \in [Swaps -> Intents]
  /\ flight \in [Swaps -> {"none", "ExecuteIntent", "RetryIntent"}]
  /\ left \in [Swaps -> Left]
  /\ quoteLeft \in [Debits -> Left]
  /\ cooling \in [Swaps -> BOOLEAN]

Init ==
  /\ swap = [s \in Swaps |-> NoRecord]
  /\ journal = [k \in Debits |-> "absent"]
  /\ disabled = FALSE
  /\ at = "idle" /\ current = None /\ work = NoRecord /\ seen = "none"
  /\ debit = [k \in Debits |-> "none"]
  /\ trails = [s \in Swaps |-> "none"]
  /\ flight = [s \in Swaps |-> "none"]
  /\ left = [s \in Swaps |-> "ample"]
  /\ quoteLeft = [k \in Debits |-> "ample"]
  /\ cooling = [s \in Swaps |-> FALSE]

-------------------------------------------------------------------------------
(* Helpers                                                                 *)

Free == at = "idle"

\* Mutant: such a transaction is recorded as "quoted" again.
WaasStatusAgain(k) == CASE debit[k] \in {"success", "reverted"} -> "executed"
                        [] debit[k] \in {"pending", "failed", "quoted"} -> debit[k]
                        [] OTHER -> "unknown"

\* What WaaS answers about a debit; a transaction it still calls "quoted"
\* after an Execute is recorded as "unknown".
WaasStatus(k) == CASE debit[k] \in {"success", "reverted"} -> "executed"
                   [] debit[k] = "pending" -> "pending"
                   [] debit[k] = "failed" -> "failed"
                   [] OTHER -> "unknown"

\* reservedChain(): a debit that may be out, or is confirmed and to come.
Reserved(s) ==
  /\ swap[s].action # "none"
  /\ \/ swap[s].funding \in Uncertain
     \/ /\ swap[s].confirmed /\ ~swap[s].fundingConfirmed
        /\ swap[s].phase \notin {"failed", "expired"}

\* Mutant: only swaps are looked at.
AvailableBesideSwaps(k) ==
  \A s \in Swaps \ {k} : Chain(s) = Chain(k) => ~Reserved(s)

\* available(): no other debit of this chain is reserved or uncertain.
Available(k) ==
  /\ \A s \in Swaps \ {k} : Chain(s) = Chain(k) => ~Reserved(s)
  /\ \A l \in Debits \ {k} : Chain(l) = Chain(k) => journal[l] \notin Uncertain

\* The receipt is visible and its deposit leg still takes a deposit.
AcceptsFunding(s) == trails[s] = "WAITING"

\* sponsored(): the prepared transaction is quoted for 30 seconds more.
Sponsored(k, status) == status = "quoted" /\ quoteLeft[k] = "ample"

Goto(s) == at' = s

\* The job ends; what its copy of the record holds is saved.
Save(s, r) == swap' = [swap EXCEPT ![s] = r]
Rest == /\ at' = "idle" /\ current' = None
        /\ work' = NoRecord /\ seen' = "none"
SaveAndRest(r) == Save(current, r) /\ Rest

\* The catch of advance.  An error that rules the funding out fails the
\* swap, unless a debit may be out.
Ruled(r) == IF ~r.fundingConfirmed /\ r.funding \notin Uncertain
            THEN [r EXCEPT !.phase = "failed", !.action = "none"]
            ELSE r

-------------------------------------------------------------------------------
(* quoteSwap, confirmSwap, getSwap                                         *)

Quote(s) == /\ Free /\ ~disabled
            /\ swap[s].phase = "none"
            /\ Save(s, [NoRecord EXCEPT !.phase = "quoted"])
            /\ trails' = [trails EXCEPT ![s] = "QUOTED"]
            /\ UNCHANGED <<journal, disabled, volatile, debit, flight, left,
                           quoteLeft, cooling>>

Confirm(s) == /\ Free /\ ~disabled
              /\ swap[s].phase = "quoted" /\ left[s] = "ample"
              /\ Available(s)
              /\ Save(s, [swap[s] EXCEPT !.confirmed = TRUE,
                                         !.phase = "preparing",
                                         !.action = "prepare-funding"])
              /\ UNCHANGED <<journal, disabled, volatile, world>>

\* getSwap closes a quote nobody confirmed.
GetSwap(s) == /\ Free
              /\ swap[s].phase = "quoted" /\ left[s] # "ample"
              /\ Save(s, [swap[s] EXCEPT !.phase = "expired"])
              /\ UNCHANGED <<journal, disabled, volatile, world>>

-------------------------------------------------------------------------------
(* advance, up to its switch                                               *)

\* Mutant: the record's own copy of the child is believed.
RereadNothing(s) == swap[s]

\* The child journal may be newer than the record after a crash.
Reread(s) ==
  LET child == IF journal[s] = "absent" THEN swap[s].funding ELSE journal[s]
  IN  IF swap[s].action \notin Unfunded THEN swap[s]
      ELSE [swap[s] EXCEPT !.funding = child,
                           !.action = IF child \in Uncertain \cup {"executed"}
                                      THEN "fund" ELSE @]

\* tick or reconcileSwap takes the record; an unfunded swap whose quote has
\* less than 30 seconds left is closed.
Expire(s) == /\ Free /\ swap[s].action # "none"
             /\ LET r == Reread(s)
                IN  /\ r.action \in Unfunded
                    /\ r.funding \notin Uncertain \cup {"executed"}
                    /\ left[s] # "ample"
                    /\ Save(s, [r EXCEPT !.phase = "expired", !.action = "none"])
             /\ UNCHANGED <<journal, disabled, volatile, world>>

Advance(s) == /\ Free /\ swap[s].action # "none"
              /\ LET r == Reread(s)
                 IN  /\ \/ r.action \notin Unfunded
                        \/ r.funding \in Uncertain \cup {"executed"}
                        \/ left[s] = "ample"
                     /\ work' = r
                     /\ Goto(r.action)
              /\ current' = s
              /\ UNCHANGED <<durable, seen, world>>

\* Any error that may pass: the wallet is disabled, another debit is
\* pending, the balance is too low, a remote read failed.
Fail == /\ \/ at \in {"prepare-funding", "activate", "fund", "check",
                      "submit", "result", "observe"}
           \/ at = "preparing" /\ journal[current] = "absent"
        /\ SaveAndRest(work)
        /\ UNCHANGED <<journal, disabled, world>>

-------------------------------------------------------------------------------
(* prepare-funding                                                         *)

PrepareFunding == /\ at = "prepare-funding"
                  /\ ~disabled /\ Available(current)
                  /\ Save(current, work)
                  /\ Goto("preparing")
                  /\ UNCHANGED <<journal, disabled, current, work, seen, world>>

\* prepareTransfer records the operation and asks WaaS for a quote.
PrepareRecord == /\ at = "preparing" /\ journal[current] = "absent"
                 /\ ~disabled
                 /\ journal' = [journal EXCEPT ![current] = "preparing"]
                 /\ Goto("quoting")
                 /\ UNCHANGED <<swap, disabled, current, work, seen, world>>

PrepareAnswered ==
  /\ at = "quoting"
  /\ \/ /\ journal' = [journal EXCEPT ![current] = "quoted"]
        /\ debit' = [debit EXCEPT ![current] = "quoted"]
        /\ Goto("preparing")
        /\ UNCHANGED <<swap, current, work, seen>>
     \/ /\ journal' = [journal EXCEPT ![current] = "failed"]
        /\ \/ SaveAndRest(Ruled(work))          \* not sponsored
           \/ SaveAndRest(work)                 \* any other error
        /\ UNCHANGED debit
  /\ UNCHANGED <<disabled, trails, flight, left, quoteLeft, cooling>>

\* prepareTransfer returns the operation, new or as an earlier attempt left
\* it: only a sponsored quote goes on.
Prepared ==
  /\ at = "preparing" /\ journal[current] # "absent"
  /\ LET r == [work EXCEPT !.funding = journal[current]]
     IN  IF Sponsored(current, r.funding)
         THEN SaveAndRest([r EXCEPT !.phase = "activating", !.action = "activate"])
         ELSE SaveAndRest(Ruled(r))
  /\ UNCHANGED <<journal, disabled, world>>

-------------------------------------------------------------------------------
(* activate                                                                *)

NotSponsored == /\ at \in {"activate", "check"}
                /\ ~disabled /\ ~Sponsored(current, work.funding)
                /\ SaveAndRest(Ruled(work))
                /\ UNCHANGED <<journal, disabled, world>>

ActivateQuoted == /\ at = "activate"
                  /\ ~disabled /\ Sponsored(current, work.funding)
                  /\ trails[current] = "QUOTED"
                  /\ Save(current, work)
                  /\ Goto("activating")
                  /\ UNCHANGED <<journal, disabled, current, work, seen, world>>

\* executeIntent; whether it took effect is read in a later step.
ExecuteIntent == /\ at = "activating"
                 /\ flight' = [flight EXCEPT ![current] = "ExecuteIntent"]
                 /\ SaveAndRest(work)
                 /\ UNCHANGED <<journal, disabled, debit, trails, left,
                                quoteLeft, cooling>>

\* The intent is active; a receipt that is not visible yet changes nothing.
ActivateRead ==
  /\ at = "activate"
  /\ ~disabled /\ Sponsored(current, work.funding)
  /\ trails[current] # "QUOTED"
  /\ \/ /\ AcceptsFunding(current)
        /\ SaveAndRest([work EXCEPT !.phase = "funding", !.action = "fund"])
     \/ /\ trails[current] \in TerminalUpstream
        /\ SaveAndRest([work EXCEPT !.phase = "failed", !.action = "none"])
     \/ /\ trails[current] \notin TerminalUpstream
        /\ SaveAndRest(work)
  /\ UNCHANGED <<journal, disabled, world>>

-------------------------------------------------------------------------------
(* fund                                                                    *)

\* getOperation polls an uncertain debit; a disabled wallet only reads.
FundRead ==
  /\ at = "fund" /\ journal[current] # "absent"
  /\ LET status == IF ~disabled /\ journal[current] \in Uncertain
                   THEN WaasStatus(current) ELSE journal[current]
     IN  /\ journal' = [journal EXCEPT ![current] = status]
         /\ work' = [work EXCEPT !.funding = status]
         /\ Goto(IF status = "quoted" THEN "check" ELSE "result")
  /\ UNCHANGED <<swap, disabled, current, seen, world>>

\* The deposit leg does not take a deposit: it is over, or not visible yet.
FundRefused ==
  /\ at = "check"
  /\ ~disabled /\ Sponsored(current, work.funding) /\ Available(current)
  /\ \/ /\ trails[current] \in TerminalUpstream
        /\ SaveAndRest([work EXCEPT !.phase = "failed", !.action = "none"])
     \/ SaveAndRest(work)
  /\ UNCHANGED <<journal, disabled, world>>

FundAccepted ==
  /\ at = "check"
  /\ ~disabled /\ Sponsored(current, work.funding) /\ Available(current)
  /\ AcceptsFunding(current)
  /\ Save(current, work)
  /\ Goto("submit")
  /\ UNCHANGED <<journal, disabled, current, work, seen, world>>

\* executeTransfer: its own check of the WaaS quote comes first.
SubmitExpired == /\ at = "submit"
                 /\ quoteLeft[current] = "none"
                 /\ SaveAndRest(Ruled(work))
                 /\ UNCHANGED <<journal, disabled, world>>

\* The debit is recorded as submitting and leaves.
Submit(k) == /\ journal' = [journal EXCEPT ![k] = "submitting"]
             /\ debit' = [debit EXCEPT ![k] = "flying"]
             /\ Goto("executing")

SubmitFunding == /\ at = "submit" /\ quoteLeft[current] # "none"
                 /\ ~disabled
                 /\ Submit(current)
                 /\ UNCHANGED <<swap, disabled, current, work, seen, trails,
                                flight, left, quoteLeft, cooling>>

\* The answer of Execute, or its timeout.
Executed ==
  /\ at = "executing"
  /\ \E status \in {WaasStatus(current), "unknown"} :
       /\ journal' = [journal EXCEPT ![current] = status]
       /\ IF current \in Swaps
          THEN /\ work' = [work EXCEPT !.funding = status]
               /\ Goto("result")
               /\ UNCHANGED <<current, seen>>
          ELSE Rest
  /\ UNCHANGED <<swap, disabled, world>>

\* Mutant: a status "executed" is proof enough.
FundConfirmedUnread ==
  /\ at = "result" /\ work.funding = "executed"
  /\ SaveAndRest([work EXCEPT !.fundingConfirmed = TRUE, !.phase = "settling",
                              !.action = "observe"])
  /\ UNCHANGED <<journal, disabled, world>>

\* The chain shows the deposit.
FundConfirmed ==
  /\ at = "result" /\ work.funding = "executed" /\ debit[current] = "success"
  /\ SaveAndRest([work EXCEPT !.fundingConfirmed = TRUE, !.phase = "settling",
                              !.action = "observe"])
  /\ UNCHANGED <<journal, disabled, world>>

FundReverted ==
  /\ at = "result"
  /\ \/ work.funding = "executed" /\ debit[current] = "reverted"
     \/ work.funding = "failed"
  /\ SaveAndRest([work EXCEPT !.phase = "attention", !.action = "observe"])
  /\ UNCHANGED <<journal, disabled, world>>

\* Mutant: an uncertain deposit is left to observe.
FundUnsure ==
  /\ at = "result" /\ work.funding \in Uncertain \cup {"executed"}
  /\ SaveAndRest([work EXCEPT !.phase = "attention", !.action = "observe"])
  /\ UNCHANGED <<journal, disabled, world>>

\* Not mined yet as far as this chain reader knows, or still uncertain.
FundPending ==
  /\ at = "result"
  /\ \/ work.funding = "executed" /\ SaveAndRest(work)
     \/ /\ work.funding \in Uncertain
        /\ SaveAndRest([work EXCEPT !.phase = "funding"])
  /\ UNCHANGED <<journal, disabled, world>>

-------------------------------------------------------------------------------
(* observe and repairDeposit                                               *)

\* Mutant: an intent Trails has aborted is taken for lost.
RepairableEarly == /\ work.fundingConfirmed /\ ~disabled /\ ~cooling[current]
                   /\ trails[current] = "MISSED"
                   /\ debit[current] = "success"

\* The deposit of the intent is made and its credit failed.  The transactions that
\* depend on it are taken as failed with it or on hold, and any refund as failed.
Repairable == /\ work.fundingConfirmed /\ ~disabled /\ ~cooling[current]
              /\ trails[current] \in {"MISSED", "ABORTED"}
              /\ debit[current] = "success"

ObserveRead == /\ at = "observe"
               /\ seen' = trails[current]
               /\ Goto(IF Repairable THEN "repair" ELSE "observed")
               /\ UNCHANGED <<durable, current, work, world>>

\* The attempt is saved, then retryIntent names the same deposit again.
Repair == /\ at = "repair"
          /\ cooling' = [cooling EXCEPT ![current] = TRUE]
          /\ flight' = [flight EXCEPT ![current] = "RetryIntent"]
          /\ Save(current, work)
          /\ \/ Goto("observed") /\ UNCHANGED <<current, work, seen>>
             \/ Rest                            \* its answer was an error
          /\ UNCHANGED <<journal, disabled, debit, trails, left, quoteLeft>>

\* Mutant: a record under attention is left alone.
SettledAtOnce(r) ==
  CASE r.phase = "attention" -> r
    [] seen = "SUCCEEDED" /\ r.fundingConfirmed ->
         [r EXCEPT !.phase = "succeeded", !.action = "none"]
    [] seen = "REFUNDED" -> [r EXCEPT !.phase = "refunded", !.action = "none"]
    [] seen \in TerminalUpstream -> [r EXCEPT !.phase = "attention"]
    [] OTHER -> r

\* What the status that was read makes of the record.
Settled(r) ==
  CASE seen = "SUCCEEDED" /\ r.fundingConfirmed ->
         [r EXCEPT !.phase = "succeeded", !.action = "none"]
    [] seen = "REFUNDED" -> [r EXCEPT !.phase = "refunded", !.action = "none"]
    [] seen \in {"SUCCEEDED", "FAILED", "ABORTED"} ->
         [r EXCEPT !.phase = "attention"]
    [] seen \notin TerminalUpstream /\ r.fundingConfirmed ->
         [r EXCEPT !.phase = "settling"]
    [] OTHER -> r

Observed == /\ at = "observed"
            /\ SaveAndRest(Settled(work))
            /\ UNCHANGED <<journal, disabled, world>>

\* The receipt lacks what success or a refund must show: then the record
\* waits for attention; or it is not visible and nothing changes.
ObservedUnclear ==
  /\ at = "observed"
  /\ \/ /\ seen \in {"SUCCEEDED", "REFUNDED"}
        /\ SaveAndRest([work EXCEPT !.phase = "attention"])
     \/ SaveAndRest(work)
  /\ UNCHANGED <<journal, disabled, world>>

-------------------------------------------------------------------------------
(* Ordinary transfers, lifecycle, polls, the process                       *)

Prepare(t) == /\ Free /\ ~disabled
              /\ journal[t] = "absent" /\ Available(t)
              /\ \E status \in {"preparing", "quoted", "failed"} :
                   /\ journal' = [journal EXCEPT ![t] = status]
                   /\ debit' = [debit EXCEPT ![t] = IF status = "quoted"
                                                    THEN "quoted" ELSE @]
              /\ UNCHANGED <<swap, disabled, volatile, trails, flight, left,
                             quoteLeft, cooling>>

Execute(t) == /\ Free /\ ~disabled
              /\ journal[t] = "quoted" /\ quoteLeft[t] # "none"
              /\ Available(t)
              /\ Submit(t)
              /\ current' = t
              /\ UNCHANGED <<swap, disabled, work, seen, trails, flight, left,
                             quoteLeft, cooling>>

\* available() asks for the state of an uncertain debit.
PollDebit(k) == /\ Free /\ ~disabled
                /\ journal[k] \in Uncertain
                /\ journal' = [journal EXCEPT ![k] = WaasStatus(k)]
                /\ UNCHANGED <<swap, disabled, volatile, world>>

\* Mutant: a lifecycle change does not wait for the running job.
SetDisabledAtOnce(b) == /\ disabled' = b
                        /\ UNCHANGED <<swap, journal, volatile, world>>

\* walletCommand: lifecycle changes share the executor.
SetDisabled(b) == /\ Free
                  /\ disabled' = b
                  /\ UNCHANGED <<swap, journal, volatile, world>>

Crash == /\ ~Free
         /\ Rest
         /\ UNCHANGED <<durable, world>>

-------------------------------------------------------------------------------
(* WaaS, the chain, Trails and the clock                                   *)

WaasHandles(k) ==
  /\ \/ /\ debit[k] = "flying"
        /\ \E d \in {"quoted", "pending"} : debit' = [debit EXCEPT ![k] = d]
     \/ /\ debit[k] = "pending"
        /\ \E d \in {"success", "reverted", "failed"} :
             debit' = [debit EXCEPT ![k] = d]
     \/ /\ debit[k] = "quoted" /\ quoteLeft[k] = "none"
        /\ debit' = [debit EXCEPT ![k] = "failed"]
  /\ UNCHANGED <<durable, volatile, trails, flight, left, quoteLeft, cooling>>

TrailsHandles(s) ==
  /\ flight[s] # "none"
  /\ flight' = [flight EXCEPT ![s] = "none"]
  /\ trails' = [trails EXCEPT ![s] =
       CASE flight[s] = "ExecuteIntent" /\ @ = "QUOTED" -> "WAITING"
         [] flight[s] = "RetryIntent" /\ @ \in {"MISSED", "ABORTED"} -> "DEPOSITED"
         [] OTHER -> @]
  /\ UNCHANGED <<durable, volatile, debit, left, quoteLeft, cooling>>

TrailsLoses(s) == /\ flight[s] # "none"
                  /\ flight' = [flight EXCEPT ![s] = "none"]
                  /\ UNCHANGED <<durable, volatile, debit, trails, left,
                                 quoteLeft, cooling>>

\* Trails sees a deposit, the wallet's or somebody else's, or stops waiting
\* for one, however late it comes.
TrailsMoves(s) ==
  /\ \/ trails[s] = "QUOTED" /\ trails' = [trails EXCEPT ![s] = "FAILED"]
     \/ trails[s] = "WAITING" /\ trails' = [trails EXCEPT ![s] = "DEPOSITED"]
     \/ trails[s] = "WAITING" /\ trails' = [trails EXCEPT ![s] = "MISSED"]
     \/ trails[s] = "MISSED" /\ trails' = [trails EXCEPT ![s] = "ABORTED"]
  /\ UNCHANGED <<durable, volatile, debit, flight, left, quoteLeft, cooling>>

TrailsSettles(s) ==
  /\ trails[s] = "DEPOSITED"
  /\ \E i \in {"SUCCEEDED", "REFUNDED", "FAILED"} :
       trails' = [trails EXCEPT ![s] = i]
  /\ UNCHANGED <<durable, volatile, debit, flight, left, quoteLeft, cooling>>

Shorter(l) == IF l = "ample" THEN "short" ELSE "none"

Tick(s) ==
  /\ \/ /\ trails[s] # "none" /\ left[s] # "none"
        /\ left' = [left EXCEPT ![s] = Shorter(@)]
        /\ UNCHANGED <<quoteLeft, cooling>>
     \/ cooling[s] /\ cooling' = [cooling EXCEPT ![s] = FALSE]
        /\ UNCHANGED <<left, quoteLeft>>
  /\ UNCHANGED <<durable, volatile, debit, trails, flight>>

QuoteTick(k) == /\ debit[k] = "quoted" /\ quoteLeft[k] # "none"
                /\ quoteLeft' = [quoteLeft EXCEPT ![k] = Shorter(@)]
                /\ UNCHANGED <<durable, volatile, debit, trails, flight, left,
                               cooling>>

-------------------------------------------------------------------------------
Job == \/ Fail \/ PrepareFunding \/ PrepareRecord \/ PrepareAnswered
       \/ Prepared \/ NotSponsored \/ ActivateQuoted \/ ExecuteIntent
       \/ ActivateRead \/ FundRead \/ FundRefused \/ FundAccepted
       \/ SubmitExpired \/ SubmitFunding \/ Executed \/ FundConfirmed
       \/ FundReverted \/ FundPending \/ ObserveRead \/ Repair \/ Observed
       \/ ObservedUnclear

SwapCall(s) == Quote(s) \/ Confirm(s) \/ GetSwap(s) \/ Expire(s) \/ Advance(s)

TransferCall(t) == Prepare(t) \/ Execute(t)

World(s) == \/ TrailsHandles(s) \/ TrailsLoses(s) \/ TrailsMoves(s)
            \/ TrailsSettles(s) \/ Tick(s)

Next == \/ Job \/ Crash
        \/ \E s \in Swaps : SwapCall(s) \/ World(s)
        \/ \E t \in Transfers : TransferCall(t)
        \/ \E k \in Debits : PollDebit(k) \/ WaasHandles(k) \/ QuoteTick(k)
        \/ \E b \in BOOLEAN : SetDisabled(b)

Spec == Init /\ [][Next]_vars

\* Alarms and the runner keep calling tick, a handler does not stand still,
\* requests that are repeated forever are answered at last, and time passes.
Of(s, A) == current = s /\ A

Fairness ==
  /\ WF_vars(Job)
  /\ \A s \in Swaps :
       /\ SF_vars(Expire(s) \/ Advance(s))
       /\ SF_vars(Of(s, FundRead)) /\ SF_vars(Of(s, FundConfirmed))
       /\ SF_vars(Of(s, ObserveRead)) /\ SF_vars(Of(s, Observed))
       /\ SF_vars(Of(s, Repair)) /\ SF_vars(TrailsHandles(s))
       /\ WF_vars(Tick(s))

LiveSpec == Spec /\ Fairness

-------------------------------------------------------------------------------
(* Properties                                                              *)

\* A swap that is reported as failed or expired has spent nothing and never
\* will, whatever the process lost in a restart (advance, fund).
ClosedUnpaid ==
  \A s \in Swaps : swap[s].phase \in {"failed", "expired"} =>
    /\ journal[s] \notin Uncertain \cup {"executed"}
    /\ debit[s] \notin {"flying", "pending", "success"}

\* Of all debits of one source chain, at most one is confirmed and to come,
\* recorded as uncertain, or really on its way (reservedChain, available).
Holds(k) == \/ journal[k] \in Uncertain
            \/ debit[k] \in {"flying", "pending"}
            \/ k \in Swaps /\ Reserved(k)
OneDebitPerChain ==
  \A k, l \in Debits : Chain(k) = Chain(l) /\ Holds(k) /\ Holds(l) => k = l

\* The record says the deposit is confirmed only when the chain has it, and
\* says success only when Trails delivered for it (fund, observe).
EvidenceIsTrue ==
  \A s \in Swaps :
    /\ swap[s].fundingConfirmed => debit[s] = "success"
    /\ swap[s].phase = "succeeded" =>
         debit[s] = "success" /\ trails[s] = "SUCCEEDED"
    /\ swap[s].phase = "refunded" => trails[s] = "REFUNDED"

\* A deposit leaves only for a swap its owner confirmed and whose intent Trails
\* has activated; from a disabled wallet nothing leaves, to WaaS or to Trails,
\* even when a job is halfway (enabled, walletCommand).
Leaves(k) == journal[k] # "submitting" /\ journal'[k] = "submitting"
Asks(s)   == flight[s] # flight'[s] /\ flight'[s] # "none"
NothingUnauthorized ==
  [][/\ \A s \in Swaps : Leaves(s) => swap[s].confirmed /\ trails[s] # "QUOTED"
     /\ disabled => /\ \A k \in Debits : ~Leaves(k)
                    /\ \A s \in Swaps : ~Asks(s)]_vars

\* The documented margin: a deposit leaves only while the quote it pays for
\* has 30 seconds left.
DepositInTime ==
  [][\A s \in Swaps : Leaves(s) => left[s] = "ample"]_vars

\* The debits of swaps and transfers keep the promise the operation journal
\* makes (SubmitOnce): nothing is mined that was not recorded as submitting,
\* nothing twice, and nothing after it was reported as failed, to the swap or to
\* the caller, whatever answer came late (executePrepared, getOperation).
Promise == INSTANCE SubmitOnce WITH
  Ids     <- Debits,
  armed   <- {k \in Debits : journal[k] \in Uncertain \cup {"executed"}},
  taken   <- [k \in Debits |-> IF debit[k] \in {"success", "reverted"} THEN 1 ELSE 0],
  verdict <- [k \in Debits |-> IF journal[k] \in {"executed", "failed"}
                             THEN journal[k] ELSE "open"]

PromiseKept == Promise!Spec

\* And the swaps keep a promise to their owner (SwapContract): what is paid was
\* agreed to and is paid once, and a swap that is reported as failed, expired,
\* succeeded or refunded stays so and takes nothing more, whatever a restart lost
\* and whatever answer comes late (advance, fund, observe, getSwap).
Contract == INSTANCE SwapContract WITH
  Ids     <- Swaps,
  agreed  <- {s \in Swaps : swap[s].confirmed /\ swap[s].phase \notin {"failed", "expired"}},
  paid    <- {s \in Swaps : debit[s] = "success"},
  outcome <- [s \in Swaps |->
                CASE swap[s].phase \in {"failed", "expired"} -> "closed"
                  [] swap[s].phase = "succeeded" -> "delivered"
                  [] swap[s].phase = "refunded" -> "refunded"
                  [] OTHER -> "open"]

ContractKept == Contract!Spec

\* A confirmed swap never stays without sending anything: the deposit is
\* submitted or the swap is closed, even when the wallet stays disabled.
NeverStuck ==
  \A s \in Swaps : swap[s].confirmed ~>
    \/ swap[s].action = "none"
    \/ journal[s] \in Uncertain \cup {"executed", "failed"}

\* A deposit that is mined is confirmed at last, unless the wallet is disabled
\* and so may not ask for it (fund).
DepositIsNoticed ==
  \A s \in Swaps : debit[s] = "success" ~> swap[s].fundingConfirmed \/ disabled

\* What Trails made of a confirmed deposit reaches the record (observe).
OutcomeIsSeen ==
  \A s \in Swaps :
    swap[s].fundingConfirmed /\ trails[s] \in {"SUCCEEDED", "REFUNDED"} ~>
      swap[s].phase \in {"succeeded", "refunded"}

\* A deposit that came after Trails had stopped waiting is named to it again
\* until it is taken (repairDeposit).
MissedIsRepaired ==
  \A s \in Swaps :
    swap[s].fundingConfirmed /\ trails[s] \in {"MISSED", "ABORTED"} ~>
      trails[s] = "DEPOSITED" \/ disabled

\* The source chain of a debit that is known to have failed, for an intent that
\* Trails has aborted, is free again (reservedChain).
GuardReleased ==
  \A s \in Swaps :
    swap[s].funding = "failed" /\ trails[s] = "ABORTED" ~>
      ~Reserved(s) \/ disabled
===============================================================================
