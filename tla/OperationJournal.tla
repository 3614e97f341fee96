--------------------------- MODULE OperationJournal ---------------------------
(***************************************************************************)
(* The durable operation journal of one ServerWallet                       *)
(* (packages/server-wallet-sdk/src/client.ts) and the WaaS requests its    *)
(* handlers send.                                                          *)
(*                                                                         *)
(* Every public method of ServerWallet runs inside one executor, so at     *)
(* most one handler is active; it is split here where it awaits a durable  *)
(* write or a remote answer, because the process may be stopped there.     *)
(* Requests outlive the handler: one that timed out after 20 seconds, or   *)
(* whose process stopped, can still reach WaaS.                            *)
(*                                                                         *)
(* Abstractions.  The authentication that ensure() performs is one step    *)
(* with a success and a failure outcome (its detail is the subject of the  *)
(* module WalletCredentials).  An identifier is used with one kind and one *)
(* input: existing() refuses every other use without changing anything.    *)
(***************************************************************************)
EXTENDS Naturals, FiniteSets

CONSTANTS Ids,          \* operation identifiers in use
          SigningIds    \* those of signMessage / signTypedData operations

ASSUME SigningIdsAssumption == SigningIds \subseteq Ids

VARIABLES
  disabled,             \* durable: State.disabled
  index,                \* durable: operationIndex
  journal,              \* durable: status of operation:<id>, or "absent"
  step,                 \* volatile: where the handler working on <id> stands
  retried,              \* volatile: activeCall has reauthenticated already
  reply,                \* the answer on its way to the waiting handler
  stale,                \* the quote's expiresAt has passed
  key,                  \* WaaS: is the credential in use accepted?
  txn,                  \* WaaS: state of the transaction quoted for <id>
  wire,                 \* Execute / Sign requests sent and not yet handled
  accepted              \* observation: requests of <id> WaaS acted on

durable  == <<disabled, index, journal>>
volatile == <<step, retried, reply>>
waas     == <<stale, key, txn, wire, accepted>>
vars     == <<durable, volatile, waas>>

-------------------------------------------------------------------------------
(* Types                                                                   *)

Statuses == {"absent", "preparing", "quoted", "submitting", "pending",
             "executed", "failed", "unknown", "signed"}
Steps    == {"idle", "index", "create", "prepare", "send", "await", "poll"}
TxnStates == {"none", "quoted", "pending", "executed", "failed"}
Answers  == {"none", "refused", "signed"} \cup TxnStates

\* Mutant: an interrupted submission is not worth polling.
RefreshableOnceAnswered == {"pending", "unknown"}

Refreshable == {"submitting", "pending", "unknown"}
Terminal    == {"executed", "failed", "signed"}

TypeOK ==
  /\ disabled \in BOOLEAN
  /\ index \subseteq Ids
  /\ journal \in [Ids -> Statuses]
  /\ step \in [Ids -> Steps]
  /\ retried \in [Ids -> BOOLEAN]
  /\ reply \in [Ids -> Answers]
  /\ stale \in [Ids -> BOOLEAN]
  /\ key \in {"live", "refused"}
  /\ txn \in [Ids -> TxnStates]
  /\ wire \in [Ids -> Nat]
  /\ accepted \in [Ids -> Nat]

Init ==
  /\ disabled = FALSE
  /\ index = {}
  /\ journal = [i \in Ids |-> "absent"]
  /\ step = [i \in Ids |-> "idle"]
  /\ retried = [i \in Ids |-> FALSE]
  /\ reply = [i \in Ids |-> "none"]
  /\ stale = [i \in Ids |-> FALSE]
  /\ key = "live"
  /\ txn = [i \in Ids |-> "none"]
  /\ wire = [i \in Ids |-> 0]
  /\ accepted = [i \in Ids |-> 0]

-------------------------------------------------------------------------------
(* Helpers                                                                 *)

\* The executor is free: no handler is between its first and its last await.
Free == \A i \in Ids : step[i] = "idle"

Goto(i, s) == step' = [step EXCEPT ![i] = s]
Record(i, s) == journal' = [journal EXCEPT ![i] = s]

\* The handler ends: it returns to its caller or throws.
Finish(i) == /\ Goto(i, "idle")
             /\ reply' = [reply EXCEPT ![i] = "none"]
             /\ retried' = [retried EXCEPT ![i] = FALSE]

\* ensure() keeps the credential it has, or authenticates a new one.
Ensured == key' \in {key, "live"}

\* How a remote status is recorded: a transaction that still says "quoted"
\* after an Execute is "unknown", never again "quoted".
Mapped(s) == IF s = "quoted" THEN "unknown" ELSE s

-------------------------------------------------------------------------------
(* prepareTransfer, prepareDeployment, prepareRecoveryTransaction, and the *)
(* two signing methods up to the request                                   *)

\* Mutant: the record is written before its index entry.
BeginRecordFirst(i) ==
  /\ Free
  /\ ~disabled
  /\ journal[i] = "absent"
  /\ Ensured
  /\ Goto(i, "create")
  /\ UNCHANGED <<durable, retried, reply, stale, txn, wire, accepted>>

\* existing() found nothing and ensure() succeeded; writeOperation starts.
Begin(i) ==
  /\ Free
  /\ ~disabled
  /\ journal[i] = "absent"
  /\ Ensured
  /\ Goto(i, "index")
  /\ UNCHANGED <<durable, retried, reply, stale, txn, wire, accepted>>

\* writeOperation: the index entry is durable before the record is.
WriteIndex(i) ==
  /\ step[i] = "index"
  /\ index' = index \cup {i}
  /\ Goto(i, "create")
  /\ UNCHANGED <<disabled, journal, retried, reply, waas>>

WriteRecord(i) ==
  /\ step[i] = "create"
  /\ i \notin SigningIds
  /\ Record(i, "preparing")
  /\ Goto(i, "prepare")
  /\ UNCHANGED <<disabled, index, retried, reply, waas>>

\* A signing method records "unknown" before it asks for the signature.
WriteSigning(i) ==
  /\ step[i] = "create"
  /\ i \in SigningIds
  /\ Record(i, "unknown")
  /\ Goto(i, "send")
  /\ UNCHANGED <<disabled, index, retried, reply, waas>>

\* PrepareEthereumTransaction answered with a sponsored quote.
PrepareQuoted(i) ==
  /\ step[i] = "prepare"
  /\ txn' = [txn EXCEPT ![i] = "quoted"]
  /\ key' \in {key, "live"}
  /\ Record(i, "quoted")
  /\ Finish(i)
  /\ UNCHANGED <<disabled, index, stale, wire, accepted>>

\* It failed, was not sponsored, or its answer was lost: WaaS may or may
\* not hold a quote, but the journal does not know its txnId.
PrepareFailed(i) ==
  /\ step[i] = "prepare"
  /\ \E t \in {"none", "quoted"} : txn' = [txn EXCEPT ![i] = t]
  /\ key' \in {key, "live"}
  /\ Record(i, "failed")
  /\ Finish(i)
  /\ UNCHANGED <<disabled, index, stale, wire, accepted>>

-------------------------------------------------------------------------------
(* executePrepared                                                         *)

\* Mutant: an operation of unknown outcome is submitted again.
ExecuteAgain(i) ==
  /\ Free
  /\ journal[i] \in {"quoted", "unknown"} /\ i \notin SigningIds
  /\ ~stale[i]
  /\ ~disabled
  /\ Ensured
  /\ Record(i, "submitting")
  /\ Goto(i, "send")
  /\ UNCHANGED <<disabled, index, retried, reply, stale, txn, wire, accepted>>

\* A quoted, sponsored, unexpired operation: the status "submitting" is
\* durable before the request is made.
Execute(i) ==
  /\ Free
  /\ journal[i] = "quoted"
  /\ ~stale[i]
  /\ ~disabled
  /\ Ensured
  /\ Record(i, "submitting")
  /\ Goto(i, "send")
  /\ UNCHANGED <<disabled, index, retried, reply, stale, txn, wire, accepted>>

\* call(): the nonce is saved and the request leaves.
Send(i) ==
  /\ step[i] = "send"
  /\ wire' = [wire EXCEPT ![i] = @ + 1]
  /\ Goto(i, "await")
  /\ UNCHANGED <<durable, retried, reply, stale, key, txn, accepted>>

\* The answer of Execute arrived and is recorded.
Receive(i) ==
  /\ step[i] = "await"
  /\ i \notin SigningIds
  /\ reply[i] \notin {"none", "refused"}
  /\ Record(i, Mapped(reply[i]))
  /\ Finish(i)
  /\ UNCHANGED <<disabled, index, waas>>

\* The signature arrived, verified, and is recorded.
ReceiveSignature(i) ==
  /\ step[i] = "await"
  /\ i \in SigningIds
  /\ reply[i] = "signed"
  /\ Record(i, "signed")
  /\ Finish(i)
  /\ UNCHANGED <<disabled, index, waas>>

\* activeCall: a verified authentication failure precedes execution.  The
\* credential is dropped, a new one authenticated, the call made once more.
Reauthenticate(i) ==
  /\ step[i] = "await"
  /\ reply[i] = "refused"
  /\ ~retried[i]
  /\ key' = "live"
  /\ retried' = [retried EXCEPT ![i] = TRUE]
  /\ reply' = [reply EXCEPT ![i] = "none"]
  /\ Goto(i, "send")
  /\ UNCHANGED <<durable, stale, txn, wire, accepted>>

\* Mutant: a lost answer counts as a failure.
GiveUpFailed(i) ==
  /\ step[i] = "await"
  /\ i \notin SigningIds
  /\ Record(i, "failed")
  /\ Finish(i)
  /\ UNCHANGED <<disabled, index, waas>>

\* Timeout, transport error, failed attestation, failed reauthentication, a
\* second refusal: the outcome of the submission is unknown.
GiveUp(i) ==
  /\ step[i] = "await"
  /\ i \notin SigningIds
  /\ Record(i, "unknown")
  /\ Finish(i)
  /\ UNCHANGED <<disabled, index, waas>>

\* The same in a signing method, whose record says "unknown" already; so
\* ends a signature that does not verify.
GiveUpSigning(i) ==
  /\ step[i] = "await"
  /\ i \in SigningIds
  /\ Finish(i)
  /\ UNCHANGED <<durable, waas>>

-------------------------------------------------------------------------------
(* refresh, called by getOperation and by a repeated executePrepared       *)

Poll(i) ==
  /\ Free
  /\ i \notin SigningIds
  /\ journal[i] \in Refreshable
  /\ ~disabled
  /\ Ensured
  /\ Goto(i, "poll")
  /\ UNCHANGED <<durable, retried, reply, stale, txn, wire, accepted>>

\* TransactionStatus answers with what it read when it was handled.
PollRead(i) ==
  /\ step[i] = "poll"
  /\ reply[i] = "none"
  /\ txn[i] # "none"
  /\ reply' = [reply EXCEPT ![i] = txn[i]]
  /\ UNCHANGED <<durable, step, retried, waas>>

PollAnswered(i) ==
  /\ step[i] = "poll"
  /\ reply[i] # "none"
  /\ Record(i, Mapped(reply[i]))
  /\ Finish(i)
  /\ UNCHANGED <<disabled, index, waas>>

\* The poll failed; the record stays as it was.
PollFailed(i) ==
  /\ step[i] = "poll"
  /\ Finish(i)
  /\ UNCHANGED <<durable, waas>>

-------------------------------------------------------------------------------
(* The wallet's other methods and the process                              *)

\* Disabling revokes the credential when WaaS can be reached; enabling
\* authenticates a new one.
SetDisabled(b) ==
  /\ Free
  /\ disabled' = b
  /\ key' \in {key, IF b THEN "refused" ELSE "live"}
  /\ UNCHANGED <<index, journal, volatile, stale, txn, wire, accepted>>

\* The process stops at any await: what was not written is gone.
Crash ==
  /\ ~Free
  /\ step' = [i \in Ids |-> "idle"]
  /\ retried' = [i \in Ids |-> FALSE]
  /\ reply' = [i \in Ids |-> "none"]
  /\ UNCHANGED <<durable, waas>>

-------------------------------------------------------------------------------
(* WaaS, known only from how client.ts uses it.  It is not assumed to      *)
(* refuse a second Execute of a transaction; only a failed one stays so.   *)

Answer(i, a) ==
  reply' = IF step[i] = "await" THEN [reply EXCEPT ![i] = a] ELSE reply

WaasAccept(i) ==
  /\ wire[i] > 0
  /\ key = "live"
  /\ txn[i] # "failed"
  /\ wire' = [wire EXCEPT ![i] = @ - 1]
  /\ accepted' = [accepted EXCEPT ![i] = @ + 1]
  /\ IF i \in SigningIds
     THEN Answer(i, "signed") /\ UNCHANGED txn
     ELSE \E t \in TxnStates \ {"none"} :
            /\ txn' = [txn EXCEPT ![i] = IF @ = "quoted" THEN t ELSE @]
            /\ Answer(i, txn'[i])
  /\ UNCHANGED <<durable, step, retried, stale, key>>

WaasRefuse(i) ==
  /\ wire[i] > 0
  /\ key = "refused"
  /\ wire' = [wire EXCEPT ![i] = @ - 1]
  /\ Answer(i, "refused")
  /\ UNCHANGED <<durable, step, retried, stale, key, txn, accepted>>

\* A request is lost, or answered with an error that says nothing.
WaasLose(i) ==
  /\ wire[i] > 0
  /\ wire' = [wire EXCEPT ![i] = @ - 1]
  /\ UNCHANGED <<durable, volatile, stale, key, txn, accepted>>

WaasProgress(i) ==
  /\ accepted[i] > 0
  /\ \/ txn[i] = "quoted" /\ txn' = [txn EXCEPT ![i] = "pending"]
     \/ txn[i] = "pending" /\ txn' = [txn EXCEPT ![i] = "executed"]
     \/ txn[i] = "pending" /\ txn' = [txn EXCEPT ![i] = "failed"]
  /\ UNCHANGED <<durable, volatile, stale, key, wire, accepted>>

\* A quote nobody executed in time is closed by WaaS.
WaasExpire(i) ==
  /\ txn[i] = "quoted"
  /\ accepted[i] = 0
  /\ stale[i]
  /\ txn' = [txn EXCEPT ![i] = "failed"]
  /\ UNCHANGED <<durable, volatile, stale, key, wire, accepted>>

QuoteExpires(i) ==
  /\ txn[i] = "quoted"
  /\ ~stale[i]
  /\ stale' = [stale EXCEPT ![i] = TRUE]
  /\ UNCHANGED <<durable, volatile, key, txn, wire, accepted>>

\* WaaS stops accepting the credential: expired, or revoked elsewhere.
KeyRefused ==
  /\ key = "live"
  /\ key' = "refused"
  /\ UNCHANGED <<durable, volatile, stale, txn, wire, accepted>>

-------------------------------------------------------------------------------
Handler(i) ==
  \/ WriteIndex(i) \/ WriteRecord(i) \/ WriteSigning(i)
  \/ PrepareQuoted(i) \/ PrepareFailed(i) \/ Send(i) \/ Reauthenticate(i)
  \/ Receive(i) \/ ReceiveSignature(i) \/ GiveUp(i) \/ GiveUpSigning(i)
  \/ PollRead(i) \/ PollAnswered(i) \/ PollFailed(i)

Call(i) == Begin(i) \/ Execute(i) \/ Poll(i)

Waas(i) == \/ WaasAccept(i) \/ WaasRefuse(i) \/ WaasLose(i)
           \/ WaasProgress(i) \/ WaasExpire(i) \/ QuoteExpires(i)

Next == \/ \E i \in Ids : Call(i) \/ Handler(i) \/ Waas(i)
        \/ \E b \in BOOLEAN : SetDisabled(b)
        \/ Crash
        \/ KeyRefused

Spec == Init /\ [][Next]_vars

\* Every await of a handler ends: requests time out.  The caller keeps
\* polling an operation it was told nothing final about, some poll is
\* answered, and WaaS finishes what it accepted.
Fairness ==
  \A i \in Ids : /\ WF_vars(Handler(i))
                 /\ SF_vars(Poll(i))
                 /\ SF_vars(PollRead(i))
                 /\ SF_vars(PollAnswered(i))
                 /\ WF_vars(WaasProgress(i))

LiveSpec == Spec /\ Fairness

-------------------------------------------------------------------------------
(* Properties                                                              *)

\* The executor keeps the handlers apart (SerialExecutor, storage.ts:15).
OneHandler == \A i, j \in Ids : step[i] # "idle" /\ step[j] # "idle" => i = j

\* However often a caller repeats execute, whatever is lost and wherever
\* the process stops, WaaS acts on an operation at most once
\* (executePrepared and activeCall, the two signing methods).
AtMostOnce == \A i \in Ids : wire[i] + accepted[i] <= 1

\* A request is only ever on its way for an operation whose durable record
\* already says that it may be: a process that restarts and finds
\* "absent", "preparing" or "quoted" may submit without fear.
RecordedBeforeSent ==
  \A i \in Ids : journal[i] \in {"absent", "preparing", "quoted"}
                => wire[i] = 0 /\ accepted[i] = 0

\* What the journal reports as final is what happened at WaaS: "executed"
\* and "signed" were acted on, "failed" failed there or never was sent.
VerdictsAgree ==
  \A i \in Ids :
    /\ journal[i] = "executed" => txn[i] = "executed" /\ accepted[i] = 1
    /\ journal[i] = "signed" => accepted[i] = 1
    /\ journal[i] = "failed" =>
         txn[i] = "failed" \/ (wire[i] = 0 /\ accepted[i] = 0)

\* writeOperation writes two records: at no point of it, and after no
\* crash in it, is there an operation that listOperations cannot list.
Listed == \A i \in Ids : journal[i] # "absent" => i \in index

\* Once disabling is durable no request of an operation leaves the host,
\* not even from a handler that was already running.
DisabledSendsNothing ==
  [][\A i \in Ids : wire'[i] > wire[i] => ~disabled]_vars

\* A final status is never overwritten by a later poll or execute.
FinalStaysFinal ==
  [][\A i \in Ids : journal[i] \in Terminal => journal'[i] = journal[i]]_vars

\* The journal implements its abstract promise.
Submission == INSTANCE SubmitOnce WITH
  armed   <- {i \in Ids : \/ journal[i] \in Refreshable \cup {"executed", "signed"}
                         \/ accepted[i] > 0},
  taken   <- accepted,
  verdict <- [i \in Ids |-> IF journal[i] \in Terminal THEN journal[i] ELSE "open"]

PromiseKept == Submission!Spec

\* A transaction WaaS accepted is eventually reported with its outcome,
\* although answers are lost and processes stop, unless the wallet stays
\* disabled (a disabled wallet cannot even poll).
OutcomeLearned ==
  []<>(~disabled) =>
    \A i \in Ids \ SigningIds : accepted[i] > 0 ~> journal[i] \in Terminal
===============================================================================
