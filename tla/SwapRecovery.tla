----------------------------- MODULE SwapRecovery -----------------------------
(***************************************************************************)
(* How WalletSwaps takes funds back from the intent wallets of a swap      *)
(* (trails/swaps.ts): prepareRecovery, confirmRecovery, the recovery steps *)
(* of advance, and what they share with the funding of the swap and with   *)
(* ordinary transfers: the reserved chain and the operation journal.       *)
(*                                                                         *)
(* One swap, which begins in any of the states in which the funding of a   *)
(* swap (module SwapFunding) leaves it.  One job is active at a time; it   *)
(* works on a copy of the record and is split where it awaits something.   *)
(*                                                                         *)
(* Abstractions.  The copies of its child operations that a record holds   *)
(* are re-read from the journal before they are used, so they are not kept *)
(* apart from it, except the one of the funding.  "The review holds" says  *)
(* that it is not five minutes old and that every balance is the reviewed  *)
(* one; once it does not hold it never holds again, because the first      *)
(* check that notices ends the recovery.  What the payloads contain is the *)
(* subject of RecoveryChecks.                                              *)
(***************************************************************************)
EXTENDS Naturals, FiniteSets

CONSTANTS Recoveries, Transfers, None,
          Origin,       \* the source chain of the swap
          Chain(_)      \* the chain of a recovery or of a transfer

ASSUME NamesAssumption == Recoveries \cap Transfers = {}
                          /\ None \notin Recoveries \cup Transfers

\* The operations that may take something from the wallet.
Funding       == <<"funding", None>>
Deployment(r) == <<"deployment", r>>
Recovery(r)   == <<"recovery", r>>
Transfer(t)   == <<"transfer", t>>

Debits == {Funding} \cup {Deployment(r) : r \in Recoveries}
            \cup {Recovery(r) : r \in Recoveries}
            \cup {Transfer(t) : t \in Transfers}

ChainOf(k) == IF k = Funding THEN Origin ELSE Chain(k[2])

VARIABLES
  swap,                 \* durable: the record of the swap
  journal,              \* durable: the wallet's status of each debit
  signing,              \* durable: the status of each signing operation
  disabled,             \* durable: the wallet is disabled
  at,                   \* volatile: where the running job stands
  current,              \* volatile: the debit the job is about
  work,                 \* volatile: the job's copy of the record
  debit,                \* WaaS and the chains: what became of each debit
  open,                 \* debits whose WaaS quote has time left
  intent,               \* Trails: the state of the swap's intent
  holds,                \* the review of the recovery still holds
  code                  \* chains on which the owner's code is visible

durable  == <<swap, journal, signing, disabled>>
volatile == <<at, current, work>>
world    == <<debit, open, intent, holds, code>>
vars     == <<durable, volatile, world>>

-------------------------------------------------------------------------------
(* Types                                                                   *)

Statuses  == {"absent", "preparing", "quoted", "submitting", "pending",
              "executed", "failed", "unknown"}
Uncertain == {"submitting", "pending", "unknown"}
Phases    == {"quoted", "funding", "settling", "attention", "recovering",
              "succeeded", "refunded", "failed", "expired"}
Recovering == {"deploy-owner", "sign-recovery", "build-recovery",
               "submit-recovery", "observe-recovery"}
Actions   == {"none", "fund", "observe"} \cup Recovering
Stages    == {"none", "quoted", "confirmed", "deploying", "signing",
              "submitting", "pending", "recovered", "partial", "failed"}
Records   == [phase : Phases, action : Actions, confirmed : BOOLEAN,
              funding : Statuses, fundingConfirmed : BOOLEAN,
              active : Recoveries \cup {None},
              status : [Recoveries -> Stages], deploys : SUBSET Recoveries]

\* "stalled" is EXECUTING without progress for five minutes, a quarter of an
\* hour after the confirmation.
Intents  == {"progressing", "stalled", "SUCCEEDED", "REFUNDED", "FAILED"}
TerminalUpstream == {"SUCCEEDED", "REFUNDED", "FAILED"}

Steps == {"idle", "fund", "observe", "deploying", "deployed", "signing",
          "signed", "preparing", "quoting", "sending", "executing"} \cup Recovering

TypeOK ==
  /\ swap \in Records
  /\ journal \in [Debits -> Statuses]
  /\ signing \in [Recoveries -> {"absent", "unknown", "signed"}]
  /\ disabled \in BOOLEAN
  /\ at \in Steps
  /\ current \in Debits \cup {None}
  /\ work \in Records
  /\ debit \in [Debits -> {"none", "quoted", "flying", "pending", "success",
                           "reverted", "failed"}]
  /\ open \subseteq Debits
  /\ intent \in Intents
  /\ holds \in [Recoveries -> BOOLEAN]
  /\ code \subseteq {Chain(r) : r \in Recoveries}

\* Where its funding leaves a swap.
Start(phase, action, confirmed, funding, paid) ==
  [phase |-> phase, action |-> action, confirmed |-> confirmed,
   funding |-> funding, fundingConfirmed |-> paid, active |-> None,
   status |-> [r \in Recoveries |-> "none"], deploys |-> {}]

Funded == {Start("quoted", "none", FALSE, "absent", FALSE),
           Start("failed", "none", TRUE, "quoted", FALSE),
           Start("funding", "fund", TRUE, "quoted", FALSE),
           Start("settling", "observe", TRUE, "executed", TRUE)}

Init ==
  /\ swap \in Funded /\ work = swap
  /\ journal = [k \in Debits |-> IF k = Funding THEN swap.funding ELSE "absent"]
  /\ signing = [r \in Recoveries |-> "absent"]
  /\ disabled = FALSE
  /\ at = "idle" /\ current = None
  /\ debit = [k \in Debits |-> IF k # Funding \/ swap.funding = "absent" THEN "none"
                               ELSE IF swap.fundingConfirmed THEN "success"
                               ELSE "quoted"]
  /\ open = Debits
  /\ intent \in IF swap.action = "none" THEN {"FAILED"} ELSE {"progressing"}
  /\ holds = [r \in Recoveries |-> TRUE]
  /\ code \in {{}, {Chain(r) : r \in Recoveries}}

-------------------------------------------------------------------------------
(* Helpers                                                                 *)

Free == at = "idle"

\* What WaaS answers about a debit; a transaction it still calls "quoted"
\* after an Execute is recorded as "unknown".
WaasStatus(k) == CASE debit[k] \in {"success", "reverted"} -> "executed"
                   [] debit[k] = "pending" -> "pending"
                   [] debit[k] = "failed" -> "failed"
                   [] OTHER -> "unknown"

\* What refresh() leaves in the journal.
Polled(k) == IF journal[k] \in Uncertain /\ ~disabled THEN WaasStatus(k)
             ELSE journal[k]

\* Mutant: a recovery does not reserve its chain.
ReservedFunding(chain) ==
  /\ chain = Origin
  /\ \/ swap.funding \in Uncertain
     \/ /\ swap.confirmed /\ ~swap.fundingConfirmed /\ swap.action # "none"
        /\ swap.phase \notin {"failed", "expired"}

\* reservedChain(): that of the active recovery comes before the source.
Reserved(chain) ==
  /\ swap.action # "none"
  /\ IF swap.active # None THEN chain = Chain(swap.active)
     ELSE /\ chain = Origin
          /\ \/ swap.funding \in Uncertain
             \/ /\ swap.confirmed /\ ~swap.fundingConfirmed
                /\ swap.phase \notin {"failed", "expired"}

\* available(): no debit of this chain is uncertain, those excepted.
Clear(chain, except) ==
  \A k \in Debits \ except : ChainOf(k) = chain => journal[k] \notin Uncertain

Goto(s) == at' = s
Save(r) == swap' = r
Rest(r) == /\ at' = "idle" /\ current' = None
           /\ work' = r
SaveAndRest(r) == Save(r) /\ Rest(r)

\* The job goes on with r, saved or not.
Continue(r, s) == work' = r /\ Goto(s) /\ UNCHANGED current

WithStatus(r, id, stage) == [r EXCEPT !.status[id] = stage]

\* The catch of advance.  An error that rules the recovery out ends it,
\* unless something it sent may be out.
Ended(r, status) ==
  IF /\ r.active # None
     /\ status[Recovery(r.active)] \notin Uncertain
     /\ status[Deployment(r.active)] \notin Uncertain
  THEN [WithStatus(r, r.active, "failed")
          EXCEPT !.active = None, !.phase = "attention", !.action = "observe"]
  ELSE r

\* sponsored(): the prepared transaction is quoted for 30 seconds more.
Sponsored(k) == journal[k] = "quoted" /\ k \in open

\* Mutant: the funding is not read again.
AllowedOnStatus == intent \in TerminalUpstream \cup {"stalled"}

\* recoveryAllowed(): the funding, read anew, is not uncertain, and the route
\* has ended or makes no progress.
Allowed == /\ journal[Funding] \notin Uncertain
           /\ intent \in TerminalUpstream \cup {"stalled"}

\* The record learns what the journal says of the funding.
Refunding(r) == IF journal[Funding] = "absent" THEN r
                ELSE [r EXCEPT !.funding = journal[Funding]]

-------------------------------------------------------------------------------
(* prepareRecovery and confirmRecovery                                     *)

\* A review is recorded; whether the owner's wallet has to be deployed first
\* is part of what is reviewed.
PrepareRecovery(r) ==
  /\ Free /\ ~disabled
  /\ swap.status[r] = "none" /\ swap.active = None
  /\ Allowed /\ Clear(Chain(r), {Funding})
  /\ LET reviewed == WithStatus(Refunding(swap), r, "quoted")
     IN  SaveAndRest([reviewed EXCEPT !.deploys =
           IF Chain(r) \in code THEN @ ELSE @ \cup {r}])
  /\ UNCHANGED <<journal, signing, disabled, world>>

Confirmed(r) ==
  [WithStatus(Refunding(swap), r, "confirmed")
     EXCEPT !.active = r, !.phase = "recovering",
            !.action = IF r \in swap.deploys THEN "deploy-owner" ELSE "sign-recovery"]

\* Mutant: another recovery may be active.
ConfirmRecoveryBeside(r) ==
  /\ Free /\ ~disabled
  /\ swap.status[r] = "quoted"
  /\ Allowed /\ holds[r]
  /\ Clear(Chain(r), {Funding})
  /\ SaveAndRest(Confirmed(r))
  /\ UNCHANGED <<journal, signing, disabled, world>>

\* Mutant: the other debits of the chain are not looked at.
ConfirmRecoveryUnchecked(r) ==
  /\ Free /\ ~disabled
  /\ swap.status[r] = "quoted" /\ swap.active = None
  /\ Allowed /\ holds[r]
  /\ SaveAndRest(Confirmed(r))
  /\ UNCHANGED <<journal, signing, disabled, world>>

ConfirmRecovery(r) ==
  /\ Free /\ ~disabled
  /\ swap.status[r] = "quoted" /\ swap.active = None
  /\ Allowed /\ holds[r]
  /\ Clear(Chain(r), {Funding})
  /\ SaveAndRest(Confirmed(r))
  /\ UNCHANGED <<journal, signing, disabled, world>>

-------------------------------------------------------------------------------
(* advance, up to its switch                                               *)

\* A child operation may be further than the record after a restart.
Reread(r) ==
  CASE r.action = "fund" -> Refunding(r)
    [] r.active # None /\ journal[Recovery(r.active)] \in Uncertain \cup {"executed"} ->
         [r EXCEPT !.action = "observe-recovery"]
    [] OTHER -> r

\* A swap that was not paid for is closed when its quote has run out.
Expire == /\ Free /\ swap.action = "fund"
          /\ journal[Funding] \notin Uncertain \cup {"executed"}
          /\ SaveAndRest([Refunding(swap) EXCEPT !.phase = "expired", !.action = "none"])
          /\ UNCHANGED <<journal, signing, disabled, world>>

\* tick or reconcileSwap takes the record; an uncertain deployment is polled.
Advance ==
  /\ Free /\ swap.action # "none"
  /\ work' = Reread(swap)
  /\ at' = work'.action
  /\ current' = CASE work'.action = "fund" -> Funding
                  [] work'.action = "deploy-owner" -> Deployment(swap.active)
                  [] work'.action = "observe" -> None
                  [] OTHER -> Recovery(swap.active)
  /\ journal' = IF swap.active = None THEN journal
                ELSE [journal EXCEPT ![Deployment(swap.active)] =
                                         Polled(Deployment(swap.active))]
  /\ UNCHANGED <<swap, signing, disabled, world>>

\* Any error that may pass: the wallet is disabled, the route progresses
\* again, another debit is pending, a remote read failed.
Fail == /\ at \in {"fund", "observe", "deploying", "deployed", "signing",
                   "signed", "preparing", "sending"} \cup Recovering
        /\ SaveAndRest(work)
        /\ UNCHANGED <<journal, signing, disabled, world>>

\* Mutant: a review that does not hold is looked at again later.
ChangedForNow == /\ at \in {"sign-recovery", "build-recovery"}
                 /\ ~disabled /\ ~holds[work.active]
                 /\ SaveAndRest(work)
                 /\ UNCHANGED <<journal, signing, disabled, world>>

\* A check that rules the recovery out: the review does not hold any more.
Changed == /\ \/ at \in {"sign-recovery", "build-recovery"}
              \/ /\ at = "deploy-owner" /\ Chain(work.active) \notin code
                 /\ journal[current] \notin Uncertain \cup {"executed"}
              \/ at = "submit-recovery" /\ Sponsored(current)
           /\ ~disabled /\ ~holds[work.active]
           /\ Allowed \/ at = "build-recovery"
           /\ SaveAndRest(Ended(work, journal))
           /\ UNCHANGED <<journal, signing, disabled, world>>

-------------------------------------------------------------------------------
(* The transactions of a recovery: prepareInternal and executePrepared     *)

\* prepareDeployment or prepareRecoveryTransaction records the operation.
PrepareRecord == /\ at = "deploying" \/ at = "preparing"
                 /\ journal[current] = "absent"
                 /\ journal' = [journal EXCEPT ![current] = "preparing"]
                 /\ Goto("quoting")
                 /\ UNCHANGED <<swap, signing, disabled, current, work, world>>

PrepareAnswered ==
  /\ at = "quoting"
  /\ \/ /\ journal' = [journal EXCEPT ![current] = "quoted"]
        /\ debit' = [debit EXCEPT ![current] = "quoted"]
        /\ Goto(IF work.action = "deploy-owner" THEN "deploying" ELSE "preparing")
        /\ UNCHANGED <<swap, current, work>>
     \/ /\ journal' = [journal EXCEPT ![current] = "failed"]
        /\ \/ SaveAndRest(Ended(work, journal))          \* not sponsored
           \/ SaveAndRest(work)                 \* any other error
        /\ UNCHANGED debit
  /\ UNCHANGED <<signing, disabled, open, intent, holds, code>>

\* Not quoted, or not for 30 seconds more.
NotSponsored == /\ \/ at \in {"preparing", "submit-recovery"}
                   \/ at = "deploying" /\ journal[current] = "quoted"
                /\ journal[current] # "absent"
                /\ at = "submit-recovery" => journal[current] = "quoted" /\ ~disabled
                /\ ~Sponsored(current)
                /\ SaveAndRest(Ended(work, journal))
                /\ UNCHANGED <<journal, signing, disabled, world>>

\* The debit is recorded as submitting and leaves.
Submit(k) == /\ journal' = [journal EXCEPT ![k] = "submitting"]
             /\ debit' = [debit EXCEPT ![k] = "flying"]
             /\ current' = k
             /\ Goto("executing")

Send == /\ at = "sending"
        /\ IF current \notin open
           THEN /\ SaveAndRest(Ended(work, journal))
                /\ UNCHANGED <<journal, debit>>
           ELSE /\ Submit(current)
                /\ UNCHANGED <<swap, work>>
        /\ UNCHANGED <<signing, disabled, open, intent, holds, code>>

-------------------------------------------------------------------------------
(* deploy-owner                                                            *)

DeployedAlready == /\ at = "deploy-owner" /\ Chain(work.active) \in code
                   /\ SaveAndRest([work EXCEPT !.action = "sign-recovery"])
                   /\ UNCHANGED <<journal, signing, disabled, world>>

\* A deployment that may be out is neither checked nor prepared again.
DeployOwner ==
  /\ at = "deploy-owner" /\ Chain(work.active) \notin code
  /\ ~disabled
  /\ \/ journal[current] \in Uncertain \cup {"executed"}
     \/ Allowed /\ holds[work.active]
  /\ Save(WithStatus(work, work.active, "deploying"))
  /\ Continue(swap', "deploying")
  /\ UNCHANGED <<journal, signing, disabled, world>>

DeployQuoted == /\ at = "deploying" /\ Sponsored(current)
                /\ Goto("sending")
                /\ UNCHANGED <<durable, current, work, world>>

\* The deployment was prepared by an earlier attempt: it is polled.
DeployAgain ==
  /\ at = "deploying" /\ journal[current] \notin {"absent", "quoted"}
  /\ Polled(current) # "failed"
  /\ journal' = [journal EXCEPT ![current] = Polled(current)]
  /\ SaveAndRest(work)                 \* the next attempt looks for the code
  /\ UNCHANGED <<signing, disabled, world>>

\* WaaS has given the deployment up, or it reverted on the chain.
DeployFailed ==
  /\ at \in {"deploying", "deployed"}
  /\ LET status == IF at = "deployed" THEN journal[current] ELSE Polled(current)
     IN  /\ \/ status = "failed"
            \/ status = "executed" /\ debit[current] = "reverted"
         /\ journal' = [journal EXCEPT ![current] = status]
  /\ SaveAndRest(Ended(work, journal'))
  /\ UNCHANGED <<signing, disabled, world>>

\* executeOperation has answered.
Deployed == /\ at = "deployed" /\ journal[current] # "failed"
            /\ SaveAndRest(work)
            /\ UNCHANGED <<journal, signing, disabled, world>>

-------------------------------------------------------------------------------
(* sign-recovery and build-recovery                                        *)

SignRecovery ==
  /\ at = "sign-recovery" /\ ~disabled
  /\ Allowed /\ holds[work.active]
  /\ IF Chain(work.active) \notin code
     THEN SaveAndRest(Ended(work, journal))
     ELSE /\ Save(WithStatus(work, work.active, "signing"))
          /\ Continue(swap', "signing")
  /\ UNCHANGED <<journal, signing, disabled, world>>

\* signTypedData records its operation before it asks for the signature.
SignRecord == /\ at = "signing" /\ signing[work.active] = "absent"
              /\ signing' = [signing EXCEPT ![work.active] = "unknown"]
              /\ Goto("signed")
              /\ UNCHANGED <<swap, journal, disabled, current, work, world>>

\* A signature that does not verify, or is not that of a deployed wallet,
\* ends the recovery; one that got lost does so at the next attempt.
SignAnswered ==
  /\ \/ /\ at = "signed"
        /\ \/ /\ signing' = [signing EXCEPT ![work.active] = "signed"]
              /\ Goto("signing")
              /\ UNCHANGED <<swap, current, work>>
           \/ SaveAndRest(Ended(work, journal)) /\ UNCHANGED signing
     \/ /\ at = "signing" /\ signing[work.active] = "signed"
        /\ \/ SaveAndRest([work EXCEPT !.action = "build-recovery"])
           \/ SaveAndRest(Ended(work, journal))
        /\ UNCHANGED signing
     \/ /\ at = "signing" /\ signing[work.active] = "unknown"
        /\ SaveAndRest(Ended(work, journal)) /\ UNCHANGED signing
  /\ UNCHANGED <<journal, disabled, world>>

\* Trails builds the transaction; one that is not what was signed ends the
\* recovery.
BuildRecovery ==
  /\ at = "build-recovery" /\ ~disabled
  /\ holds[work.active]
  /\ \/ Save(work) /\ Continue(work, "preparing")
     \/ SaveAndRest(Ended(work, journal))
  /\ UNCHANGED <<journal, signing, disabled, world>>

Built == /\ at = "preparing" /\ Sponsored(current)
         /\ SaveAndRest([work EXCEPT !.action = "submit-recovery"])
         /\ UNCHANGED <<journal, signing, disabled, world>>

-------------------------------------------------------------------------------
(* submit-recovery and observe-recovery                                    *)

SubmitRecovery ==
  /\ at = "submit-recovery" /\ ~disabled /\ Sponsored(current)
  /\ Allowed /\ holds[work.active]
  /\ Clear(Chain(work.active),
           {Funding, Deployment(work.active), Recovery(work.active)})
  /\ Save(WithStatus(work, work.active, "submitting"))
  /\ Continue(swap', "sending")
  /\ UNCHANGED <<journal, signing, disabled, world>>

Pending(r) == [WithStatus(r, r.active, "pending") EXCEPT !.action = "observe-recovery"]

\* The transaction is not quoted any more: what became of it is observed.
SubmittedAlready ==
  /\ at = "submit-recovery" /\ ~disabled
  /\ journal[current] \notin {"absent", "quoted"}
  /\ SaveAndRest(Pending(work))
  /\ UNCHANGED <<journal, signing, disabled, world>>

\* getOperation reports; from a disabled wallet nothing is asked.
ObserveRecoveryPoll ==
  /\ at = "observe-recovery"
  /\ journal[current] \in Uncertain
  /\ journal' = [journal EXCEPT ![current] = Polled(current)]
  /\ \/ journal'[current] \in Uncertain /\ SaveAndRest(work)
     \/ journal'[current] \notin Uncertain /\ UNCHANGED <<swap, volatile>>
  /\ UNCHANGED <<signing, disabled, world>>

EndWith(r, stage, phase, action) ==
  [WithStatus(r, r.active, stage)
     EXCEPT !.active = None, !.phase = phase, !.action = action]

\* Mutant: a transaction WaaS has executed is a recovery made.
ObserveRecoveryUnread ==
  /\ at = "observe-recovery"
  /\ \/ /\ journal[current] \in {"failed", "preparing", "absent"}
        /\ SaveAndRest(EndWith(work, "failed", "attention", "observe"))
     \/ /\ journal[current] = "executed"
        /\ SaveAndRest(EndWith(work, "recovered", "refunded", "none"))
  /\ UNCHANGED <<journal, signing, disabled, world>>

\* Everything reviewed reached the owner, or some of it; or the receipt is not
\* visible yet.
ObserveRecovery ==
  /\ at = "observe-recovery"
  /\ \/ /\ journal[current] = "failed"
        /\ SaveAndRest(EndWith(work, "failed", "attention", "observe"))
     \/ /\ journal[current] = "executed" /\ debit[current] = "reverted"
        /\ SaveAndRest(Ended(work, journal))
     \/ /\ journal[current] = "executed" /\ debit[current] = "success"
        /\ \/ SaveAndRest(EndWith(work, "recovered", "refunded", "none"))
           \/ SaveAndRest(EndWith(work, "partial", "attention", "observe"))
  /\ UNCHANGED <<journal, signing, disabled, world>>

-------------------------------------------------------------------------------
(* fund and observe, as far as a recovery can meet them (SwapFunding)      *)

Fund == /\ at = "fund" /\ ~disabled
        /\ journal[Funding] = "quoted"
        /\ intent = "progressing" /\ Clear(Origin, {Funding})
        /\ Submit(Funding)
        /\ UNCHANGED <<swap, work, signing, disabled, open, intent, holds, code>>

FundRefused == /\ at = "fund" /\ ~disabled
               /\ journal[Funding] = "quoted" /\ intent \in TerminalUpstream
               /\ SaveAndRest([work EXCEPT !.phase = "failed", !.action = "none"])
               /\ UNCHANGED <<journal, signing, disabled, world>>

\* What the journal says of a funding that was sent.
FundRead ==
  /\ at = "fund" /\ journal[Funding] \notin {"absent", "quoted"}
  /\ journal' = [journal EXCEPT ![Funding] = Polled(Funding)]
  /\ LET r == [work EXCEPT !.funding = journal'[Funding]]
     IN  CASE r.funding = "executed" /\ debit[Funding] = "success" ->
                SaveAndRest([r EXCEPT !.fundingConfirmed = TRUE, !.phase = "settling",
                                      !.action = "observe"])
           [] \/ r.funding = "failed"
              \/ r.funding = "executed" /\ debit[Funding] = "reverted" ->
                SaveAndRest([r EXCEPT !.phase = "attention", !.action = "observe"])
           [] OTHER -> SaveAndRest(r)
  /\ UNCHANGED <<signing, disabled, world>>

Observe ==
  /\ at = "observe"
  /\ SaveAndRest(
       CASE intent = "SUCCEEDED" /\ work.fundingConfirmed ->
              [work EXCEPT !.phase = "succeeded", !.action = "none"]
         [] intent = "REFUNDED" ->
              [work EXCEPT !.phase = "refunded", !.action = "none"]
         [] intent \in {"SUCCEEDED", "FAILED"} -> [work EXCEPT !.phase = "attention"]
         [] intent \notin TerminalUpstream /\ work.fundingConfirmed ->
              [work EXCEPT !.phase = "settling"]
         [] OTHER -> work)
  /\ UNCHANGED <<journal, signing, disabled, world>>

\* The answer of Execute, or its timeout.
Executed ==
  /\ at = "executing"
  /\ \E status \in {WaasStatus(current), "unknown"} :
       /\ journal' = [journal EXCEPT ![current] = status]
       /\ CASE current = Funding -> SaveAndRest([work EXCEPT !.funding = status])
            [] work.active # None /\ current = Deployment(work.active) ->
                 Continue(work, "deployed") /\ UNCHANGED swap
            [] work.active # None /\ current = Recovery(work.active) ->
                 SaveAndRest(Pending(work))
            [] OTHER -> Rest(swap) /\ UNCHANGED swap
  /\ UNCHANGED <<signing, disabled, world>>

-------------------------------------------------------------------------------
(* Ordinary transfers, lifecycle, polls, the process                       *)

\* executeTransfer of a prepared transfer.
Execute(t) == /\ Free /\ ~disabled
              /\ journal[Transfer(t)] = "absent"
              /\ ~Reserved(Chain(t)) /\ Clear(Chain(t), {Transfer(t)})
              /\ Submit(Transfer(t))
              /\ UNCHANGED <<swap, work, signing, disabled, open, intent, holds, code>>

\* available() asks for the state of an uncertain debit.
PollDebit(k) == /\ Free /\ ~disabled
                /\ journal[k] \in Uncertain
                /\ journal' = [journal EXCEPT ![k] = WaasStatus(k)]
                /\ UNCHANGED <<swap, signing, disabled, volatile, world>>

SetDisabled(b) == /\ Free
                  /\ disabled' = b
                  /\ UNCHANGED <<swap, journal, signing, volatile, world>>

Crash == /\ ~Free
         /\ Rest(swap)
         /\ UNCHANGED <<durable, world>>

-------------------------------------------------------------------------------
(* WaaS, the chains, Trails and the clock                                  *)

WaasHandles(k) ==
  /\ \/ /\ debit[k] = "flying"
        /\ \E d \in {"quoted", "pending"} : debit' = [debit EXCEPT ![k] = d]
     \/ /\ debit[k] = "pending"
        /\ \E d \in {"success", "reverted", "failed"} :
             debit' = [debit EXCEPT ![k] = d]
     \/ /\ debit[k] = "quoted" /\ k \notin open
        /\ debit' = [debit EXCEPT ![k] = "failed"]
  /\ UNCHANGED <<durable, volatile, open, intent, holds, code>>

QuoteEnds(k) == /\ debit[k] = "quoted" /\ k \in open
                /\ open' = open \ {k}
                /\ UNCHANGED <<durable, volatile, debit, intent, holds, code>>

\* The route stalls, moves again, or ends.
TrailsMoves == /\ \/ intent = "progressing" /\ intent' = "stalled"
                  \/ intent = "stalled" /\ intent' = "progressing"
                  \/ /\ intent \in {"progressing", "stalled"}
                     /\ intent' \in TerminalUpstream
               /\ UNCHANGED <<durable, volatile, debit, open, holds, code>>

\* Five minutes pass, or something comes to or leaves the intent wallet.
ReviewEnds(r) == /\ swap.status[r] # "none" /\ holds[r]
                 /\ holds' = [holds EXCEPT ![r] = FALSE]
                 /\ UNCHANGED <<durable, volatile, debit, open, intent, code>>

CodeAppears(r) == /\ Chain(r) \notin code
                  /\ debit[Deployment(r)] = "success"
                  /\ code' = code \cup {Chain(r)}
                  /\ UNCHANGED <<durable, volatile, debit, open, intent, holds>>

-------------------------------------------------------------------------------
Job == \/ Fail \/ Changed \/ PrepareRecord \/ PrepareAnswered \/ NotSponsored
       \/ Send \/ DeployedAlready \/ DeployOwner \/ DeployQuoted \/ DeployAgain
       \/ DeployFailed \/ Deployed \/ SignRecovery \/ SignRecord \/ SignAnswered
       \/ BuildRecovery \/ Built \/ SubmitRecovery \/ SubmittedAlready
       \/ ObserveRecoveryPoll \/ ObserveRecovery \/ Fund \/ FundRefused
       \/ FundRead \/ Observe \/ Executed

Next == \/ Job \/ Crash \/ Expire \/ Advance \/ TrailsMoves
        \/ \E r \in Recoveries : \/ PrepareRecovery(r) \/ ConfirmRecovery(r)
                                 \/ ReviewEnds(r) \/ CodeAppears(r)
        \/ \E t \in Transfers : Execute(t)
        \/ \E k \in Debits : PollDebit(k) \/ WaasHandles(k) \/ QuoteEnds(k)
        \/ \E b \in BOOLEAN : SetDisabled(b)

Spec == Init /\ [][Next]_vars

\* What settles where a recovery stands once it can be read.
Settles == \/ Changed \/ NotSponsored \/ DeployedAlready \/ SubmittedAlready
           \/ ObserveRecoveryPoll \/ ObserveRecovery \/ Observe

\* Alarms and the runner keep calling tick, a handler does not stand still,
\* what is read again and again is read at last, WaaS settles what it has
\* taken, and time passes.
Fairness ==
  /\ WF_vars(Job) /\ SF_vars(Advance \/ Expire)
  /\ SF_vars(Settles) /\ SF_vars(DeployOwner) /\ SF_vars(DeployFailed)
  /\ \A k \in Debits : WF_vars(WaasHandles(k)) /\ WF_vars(QuoteEnds(k))
  /\ \A r \in Recoveries : WF_vars(ReviewEnds(r)) /\ WF_vars(CodeAppears(r))

LiveSpec == Spec /\ Fairness

-------------------------------------------------------------------------------
(* Properties                                                              *)

\* k is recorded as uncertain or is really on its way.
Out(k) == journal[k] \in Uncertain \/ debit[k] \in {"flying", "pending"}

\* Of all debits of a chain at most one is out: a recovery leaves neither
\* beside the funding of its swap nor beside a transfer nor beside another
\* recovery; only its own deployment goes before it (available, recoveryAllowed,
\* reservedChain).
Partners(k, l) == \E r \in Recoveries : {k, l} = {Deployment(r), Recovery(r)}
OneRecoveryPerChain ==
  \A k, l \in Debits :
    ChainOf(k) = ChainOf(l) /\ Out(k) /\ Out(l) => k = l \/ Partners(k, l)

\* Neither before the funding of a swap is settled nor after it does one of its
\* recoveries go out, on whatever chain (recoveryAllowed).
NeverRacesFunding ==
  Out(Funding) => \A r \in Recoveries : /\ journal[Deployment(r)] # "submitting"
                                        /\ ~Out(Recovery(r))

\* While a transaction of a recovery may be out, the chain it pays out on stays
\* reserved for it, through restarts and failed steps (reservedChain, advance).
OutIsReserved ==
  \A r \in Recoveries : Out(Recovery(r)) => Reserved(Chain(r)) /\ swap.active = r

\* What the record says became of a recovery is what the chain has: funds came
\* back only with its transaction, and one given up takes nothing any more
\* (advance, observeRecovery).
RecoveryOutcomeTrue ==
  \A r \in Recoveries :
    /\ swap.status[r] \in {"recovered", "partial"} => debit[Recovery(r)] = "success"
    /\ swap.status[r] = "failed" =>
         debit[Recovery(r)] \notin {"flying", "pending", "success"}

\* A transaction of a recovery leaves only when its owner has confirmed it, every
\* other recovery is over or not begun, and the wallet is enabled, whatever
\* happened since the checks (enabled, confirmRecovery, deployOwner,
\* submitRecovery).
Leaves(k) == debit[k] # "flying" /\ debit'[k] = "flying"
RecoveryAuthorized ==
  [][\A r \in Recoveries : Leaves(Recovery(r)) \/ Leaves(Deployment(r)) =>
       /\ swap.active = r /\ ~disabled
       /\ \A q \in Recoveries \ {r} : swap.status[q] \in
            {"none", "quoted", "recovered", "partial", "failed"}]_vars

\* The deployments and transactions of recoveries, and the transfers beside
\* them, keep the promise of SubmitOnce: what a recovery was told has failed is
\* never mined afterwards, so that giving it up is final (executePrepared,
\* refresh).  The funding may begin in any state, and keeps it in SwapFunding.
Promise == INSTANCE SubmitOnce WITH
  Ids     <- Debits \ {Funding},
  armed   <- {k \in Debits \ {Funding} : journal[k] \in Uncertain \cup {"executed"}},
  taken   <- [k \in Debits \ {Funding} |-> IF debit[k] \in {"success", "reverted"} THEN 1 ELSE 0],
  verdict <- [k \in Debits \ {Funding} |-> IF journal[k] \in {"executed", "failed"}
                             THEN journal[k] ELSE "open"]

PromiseKept == Promise!Spec

\* And each recovery keeps the promise to the owner that the deposit of a swap
\* keeps (SwapContract): it brings funds back only if it was confirmed, and once;
\* one that is reported as made or as given up stays so and takes nothing more
\* (confirmRecovery, advance, observeRecovery).
Contract == INSTANCE SwapContract WITH
  Ids     <- Recoveries,
  agreed  <- {r \in Recoveries : swap.status[r] \notin {"none", "quoted", "failed"}},
  paid    <- {r \in Recoveries : debit[Recovery(r)] = "success"},
  outcome <- [r \in Recoveries |->
                CASE swap.status[r] = "failed" -> "closed"
                  [] swap.status[r] \in {"recovered", "partial"} -> "delivered"
                  [] OTHER -> "open"]

ContractKept == Contract!Spec

\* A recovery is not active for ever: it is made or given up, unless the wallet
\* is disabled or the route goes on (advance).
RecoveryEnds ==
  \A r \in Recoveries : swap.active = r ~>
    swap.active # r \/ disabled \/ intent = "progressing"
===============================================================================
