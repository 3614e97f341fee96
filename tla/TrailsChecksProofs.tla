-------------------------- MODULE TrailsChecksProofs --------------------------
(***************************************************************************)
(* Theorems about quotes, for every set of swaps and intents, whatever is  *)
(* asked and whatever outputs are quoted, and about the two places where   *)
(* an answer of Trails is checked, together.                               *)
(*                                                                         *)
(* What a stored record promises was checked once, when the answer was     *)
(* accepted, against a request that is gone by then.  RecordInv says of    *)
(* every record that it was made from a valid request and an acceptable    *)
(* answer to it; AskingInv, that the request the answers are compared with *)
(* was valid.  Both are inductive, and the properties follow from them by  *)
(* the arithmetic of the tolerance.                                        *)
(*                                                                         *)
(* A behaviour of the two checks is one of the quotes, and of the recovery *)
(* if it is about one: what is proved of each holds of both.               *)
(***************************************************************************)
EXTENDS TrailsChecks, RecoveryChecksProofs

\* The requests that valid inputs lead to.
Requests == {Request(in) : in \in {i \in Inputs : Valid(i)}}

AskingInv == asking # None => asking \in SwapIds /\ request \in Requests

RecordInv == \A s \in SwapIds : book[s] # None =>
               \E req \in Requests : \E a \in QuoteAnswers(req) :
                 Acceptable(a, req) /\ book[s] = Record(req, a)

QuoteIInv == /\ DOMAIN book = SwapIds
             /\ AskingInv
             /\ RecordInv
             /\ OneSwapPerIntent

-------------------------------------------------------------------------------
(* The arithmetic of the tolerance                                         *)

\* What a tolerance of some basis points leaves, compared without a division.
LEMMA FloorIsClosest ==
  ASSUME NEW out \in Nat, NEW min \in Nat, NEW bps \in Nat
  PROVE  /\ Floor(out, bps) \in Int
         /\ (min >= Floor(out, bps)) <=> Within(out, min, bps)
<1> DEFINE share == out * bps
           left == out * (10000 - bps)
           floor == left \div 10000
<1>1. share \in Int /\ left \in Int
  OBVIOUS
<1>2. left = out * 10000 - share
  OBVIOUS
<1>3. Floor(out, bps) = floor
  BY DEF Floor
<1> HIDE DEF share, left
<1>4. /\ floor \in Int
      /\ floor * 10000 <= left
      /\ left < floor * 10000 + 10000
  BY <1>1
<1> HIDE DEF floor
<1>5. (out - min) * 10000 = out * 10000 - min * 10000
  OBVIOUS
<1>6. (min >= floor) <=> (left < min * 10000 + 10000)
  BY <1>1, <1>4
<1>7. (min >= floor) <=> ((out - min) * 10000 < share + 10000)
  BY <1>1, <1>2, <1>5, <1>6
<1> QED BY <1>3, <1>4, <1>7 DEF share, Within

-------------------------------------------------------------------------------
(* Requests and answers                                                    *)

\* The native asset goes by one name in requests, and no asset for itself.
LEMMA RequestIsSound ==
  ASSUME NEW req \in Requests
  PROVE  /\ req.amount \in Nat /\ req.amount > 0 /\ req.bps \in Nat
         /\ req.from.token \notin {"native", "alias"}
         /\ req.from # req.to
<1>1. PICK in \in Inputs : Valid(in) /\ req = Request(in)
  BY DEF Requests
<1>2. req.amount = in.amount /\ req.bps = in.bps
  BY <1>1 DEF Request
<1>3. req.amount \in Nat /\ req.amount > 0 /\ req.bps \in Nat
  BY <1>1, <1>2, InputsAssumption DEF Valid
<1>4. req.from = [chain |-> in.from.chain, token |-> Address(in.from.asset)]
      /\ req.to = [chain |-> in.to.chain, token |-> Address(in.to.asset)]
  BY <1>1 DEF Request
<1>5. req.from.token \notin {"native", "alias"}
  BY <1>4 DEF Address
<1>6. Distinct(in)
  BY <1>1 DEF Valid
<1>7. req.from # req.to
  <2>1. SUFFICES ASSUME req.from = req.to PROVE FALSE
    OBVIOUS
  <2>2. req.from.chain = req.to.chain /\ req.from.token = req.to.token
    BY <2>1
  <2>3. in.from.chain = in.to.chain /\ Address(in.from.asset) = Address(in.to.asset)
    BY <1>4, <2>2
  <2> QED BY <1>6, <2>3 DEF Distinct
<1> QED BY <1>3, <1>5, <1>7

\* Whatever Trails changes in an answer, it quotes natural numbers, and an
\* address that is not the intent's is the wallet's own.
LEMMA AnswerIsSound ==
  ASSUME NEW req, NEW a \in QuoteAnswers(req)
  PROVE  /\ a.out \in Nat /\ a.min \in Nat
         /\ a.address \in {a.intent, Wallet}
<1> DEFINE Sound(x) == /\ x.out \in Nat /\ x.min \in Nat
                       /\ x.address \in {x.intent, Wallet}
<1>1. \A h \in HonestAnswers(req) : Sound(h)
  BY OutputsAssumption DEF HonestAnswers, Honest
<1>2. ASSUME NEW h \in HonestAnswers(req), NEW c \in Changes(h)
      PROVE  Sound(c)
  <2>1. Sound(h)
    BY <1>1
  <2>2. PICK i \in Intents, out \in Outputs, min \in Outputs :
          h = Honest(req, i, out, min)
    BY DEF HonestAnswers
  <2>3. {"out", "min", "intent", "address"} \subseteq DOMAIN h
    BY <2>2 DEF Honest
  <2>4. c # Redirected(h) =>
          /\ c.out = h.out /\ c.min = h.min /\ c.intent = h.intent
          /\ c.address = h.address
    BY <1>2, <2>3 DEF Changes
  <2>5. c = Redirected(h) =>
          /\ c.out = h.out /\ c.min = h.min /\ c.intent = h.intent
          /\ c.address = Wallet
    BY <2>3 DEF Redirected
  <2>6. h.address = h.intent
    BY <2>2 DEF Honest
  <2> QED BY <2>1, <2>4, <2>5, <2>6
<1> QED BY <1>1, <1>2 DEF QuoteAnswers

-------------------------------------------------------------------------------
(* The invariant                                                           *)

LEMMA QuoteInitIInv == QuoteInit => QuoteIInv
BY DEF QuoteInit, QuoteIInv, AskingInv, RecordInv, OneSwapPerIntent

LEMMA QuoteSwapKeeps ==
  ASSUME QuoteIInv, NEW s \in SwapIds, NEW in \in Inputs, QuoteSwap(s, in)
  PROVE  QuoteIInv'
<1>1. asking' = s /\ request' \in Requests /\ book' = book
  BY DEF QuoteSwap, Requests
<1> QED BY <1>1 DEF QuoteIInv, AskingInv, RecordInv, OneSwapPerIntent

LEMMA AcceptQuoteKeeps ==
  ASSUME QuoteIInv, NEW a \in QuoteAnswers(request), AcceptQuote(a)
  PROVE  QuoteIInv'
<1>1. asking \in SwapIds /\ request \in Requests
  BY DEF QuoteIInv, AskingInv, AcceptQuote
<1>2. DOMAIN book = SwapIds
  BY DEF QuoteIInv
<1>3. asking' = None /\ book' = [book EXCEPT ![asking] = Record(request, a)]
  BY DEF AcceptQuote, Stop
<1>4. book'[asking] = Record(request, a)
      /\ \A s \in SwapIds \ {asking} : book'[s] = book[s]
  BY <1>1, <1>2, <1>3
<1>5. Acceptable(a, request) /\ ~Tracked(asking, a.intent)
  BY DEF AcceptQuote, Untracked
<1>6. RecordInv'
  <2> SUFFICES ASSUME NEW s \in SwapIds, book'[s] # None
               PROVE  \E req \in Requests : \E b \in QuoteAnswers(req) :
                        Acceptable(b, req) /\ book'[s] = Record(req, b)
    BY DEF RecordInv
  <2>1. CASE s = asking
    BY <1>1, <1>4, <1>5, <2>1
  <2>2. CASE s # asking
    BY <1>4, <2>2 DEF QuoteIInv, RecordInv
  <2> QED BY <2>1, <2>2
<1>7. OneSwapPerIntent'
  <2>1. Record(request, a).answer = a
    BY DEF Record
  <2>2. \A t \in SwapIds \ {asking} : book[t] # None => book[t].answer.intent # a.intent
    BY <1>5 DEF Tracked
  <2> QED BY <1>4, <2>1, <2>2 DEF QuoteIInv, OneSwapPerIntent
<1> QED BY <1>2, <1>3, <1>6, <1>7 DEF QuoteIInv, AskingInv

LEMMA QuoteNextIInv == QuoteIInv /\ [QuoteNext]_quoteVars => QuoteIInv'
<1> SUFFICES ASSUME QuoteIInv, [QuoteNext]_quoteVars PROVE QuoteIInv'
  OBVIOUS
<1>1. ASSUME NEW s \in SwapIds, NEW in \in Inputs, QuoteSwap(s, in)
      PROVE  QuoteIInv'
  BY <1>1, QuoteSwapKeeps
<1>2. ASSUME NEW a \in QuoteAnswers(request), AcceptQuote(a)
      PROVE  QuoteIInv'
  BY <1>2, AcceptQuoteKeeps
<1>3. ASSUME asking' = None, book' = book
      PROVE  QuoteIInv'
  BY <1>3 DEF QuoteIInv, AskingInv, RecordInv, OneSwapPerIntent
<1>4. ASSUME NEW a \in QuoteAnswers(request), RefuseQuote(a)
      PROVE  QuoteIInv'
  BY <1>3, <1>4 DEF RefuseQuote, Stop
<1>5. CASE Abandon
  BY <1>3, <1>5 DEF Abandon, Stop
<1>6. CASE UNCHANGED quoteVars
  BY <1>6 DEF quoteVars, QuoteIInv, AskingInv, RecordInv, OneSwapPerIntent
<1> QED BY <1>1, <1>2, <1>4, <1>5, <1>6 DEF QuoteNext

LEMMA QuoteInvariance == QuoteSpec => []QuoteIInv
BY QuoteInitIInv, QuoteNextIInv, PTL DEF QuoteSpec

-------------------------------------------------------------------------------
(* Theorems                                                                *)

\* Two swaps never follow one intent (findIntent in quoteSwap).
THEOREM OneSwapPerIntentCorrect == QuoteSpec => []OneSwapPerIntent
<1>1. QuoteIInv => OneSwapPerIntent
  BY DEF QuoteIInv
<1> QED BY <1>1, QuoteInvariance, PTL

\* What is lost to slippage is the share the user allowed, whatever the amounts
\* (the comparison of minimums in validateSwapQuote).
THEOREM LossCorrect == QuoteSpec => []LossIsBounded
<1>1. QuoteIInv => LossIsBounded
  <2> SUFFICES ASSUME QuoteIInv, NEW s \in SwapIds, book[s] # None
               PROVE  LET r == book[s]
                      IN  /\ Within(View(r).output, View(r).minimum, r.request.bps)
                          /\ View(r).minimum > 0
                          /\ r.request.from # r.request.to
    BY DEF LossIsBounded
  <2>1. PICK req \in Requests : \E a \in QuoteAnswers(req) :
               Acceptable(a, req) /\ book[s] = Record(req, a)
    BY DEF QuoteIInv, RecordInv
  <2>2. PICK a \in QuoteAnswers(req) : Acceptable(a, req) /\ book[s] = Record(req, a)
    BY <2>1
  <2>3. /\ View(book[s]).output = a.out /\ View(book[s]).minimum = a.min
        /\ book[s].request = req
    BY <2>2 DEF View, Record
  <2>4. a.out \in Nat /\ a.min \in Nat
    BY AnswerIsSound
  <2>5. req.bps \in Nat /\ req.from # req.to
    BY RequestIsSound
  <2>6. a.min > 0 /\ a.min >= Floor(a.out, req.bps)
    BY <2>2, <2>4 DEF Acceptable, Rates
  <2>7. /\ Floor(a.out, req.bps) \in Int
        /\ (a.min >= Floor(a.out, req.bps)) <=> Within(a.out, a.min, req.bps)
    BY <2>4, <2>5, FloorIsClosest
  <2> QED BY <2>3, <2>5, <2>6, <2>7
<1> QED BY <1>1, QuoteInvariance, PTL

\* The transfer that is prepared from a record pays what was asked to the
\* intent (prepareTransfer, validateSwapQuote).
THEOREM FundedCorrect == QuoteSpec => []FundedAsAsked
<1>1. QuoteIInv => FundedAsAsked
  <2> SUFFICES ASSUME QuoteIInv, NEW s \in SwapIds, book[s] # None
               PROVE  LET r == book[s]
                          tx == Prepared(r.funding)
                      IN  /\ tx.call = r.answer.call
                          /\ tx.chain = r.request.from.chain
                          /\ r.answer.address = r.answer.intent
                          /\ tx.call = Payment(r.request.from.token,
                                               r.answer.intent, View(r).input)
                          /\ View(r).input = r.request.amount
    BY DEF FundedAsAsked
  <2>1. PICK req \in Requests : \E a \in QuoteAnswers(req) :
               Acceptable(a, req) /\ book[s] = Record(req, a)
    BY DEF QuoteIInv, RecordInv
  <2>2. PICK a \in QuoteAnswers(req) : Acceptable(a, req) /\ book[s] = Record(req, a)
    BY <2>1
  <2> DEFINE r == book[s]
  <2>3. a.address = a.intent
    BY <2>2, AnswerIsSound DEF Acceptable, IntentAddress
  <2>4. /\ a.deposit = [chain |-> req.from.chain, token |-> req.from.token,
                        to |-> a.address, amount |-> req.amount]
        /\ a.call = Payment(req.from.token, a.deposit.to, a.deposit.amount)
    BY <2>2 DEF Acceptable, Funds
  <2>5. /\ a.deposit.chain = req.from.chain /\ a.deposit.to = a.address
        /\ a.deposit.amount = req.amount
    BY <2>4
  <2>6. /\ r.request = req /\ r.answer = a
        /\ r.funding = [chain |-> req.from.chain, to |-> a.address,
                        asset |-> IF req.from.token = "zero" THEN "native"
                                                              ELSE req.from.token,
                        amount |-> req.amount]
    BY <2>2, <2>5 DEF Record
  <2>7. Address(r.funding.asset) = req.from.token
    BY <2>6, RequestIsSound DEF Address
  <2>8. Prepared(r.funding) = [chain |-> req.from.chain,
                               call |-> Payment(req.from.token, a.address, req.amount)]
    BY <2>6, <2>7 DEF Prepared
  <2>9. View(r).input = req.amount
    BY <2>6 DEF View
  <2>10. a.call = Payment(req.from.token, a.address, req.amount)
    BY <2>4, <2>5
  <2> QED BY <2>3, <2>6, <2>8, <2>9, <2>10
<1> QED BY <1>1, QuoteInvariance, PTL

\* An honest answer within the tolerance is not refused (validateSwapQuote).
THEOREM HonestCorrect == QuoteSpec => []HonestIsAccepted
<1>1. QuoteIInv => HonestIsAccepted
  <2> SUFFICES ASSUME QuoteIInv, asking # None, NEW a \in HonestAnswers(request),
                      0 < a.min, a.min <= a.out,
                      Within(a.out, a.min, request.bps),
                      Wallet \notin Intents, "zero" \notin Intents
               PROVE  Acceptable(a, request)
    BY IntentsAssumption DEF HonestIsAccepted
  <2>1. request \in Requests
    BY DEF QuoteIInv, AskingInv
  <2>2. /\ request.amount \in Nat /\ request.amount > 0
        /\ request.bps \in Nat
    BY <2>1, RequestIsSound
  <2>3. PICK i \in Intents, out \in Outputs, min \in Outputs :
          a = Honest(request, i, out, min)
    BY DEF HonestAnswers
  <2>4. out \in Nat /\ min \in Nat /\ a.out = out /\ a.min = min
    BY <2>3, OutputsAssumption DEF Honest
  <2>5. min >= Floor(out, request.bps)
    BY <2>2, <2>4, FloorIsClosest
  <2>6. Rates(a, request)
    BY <2>2, <2>3, <2>4, <2>5 DEF Rates, Honest
  <2>7. Usable(a)
    BY <2>3 DEF Usable, Honest
  <2>8. IntentAddress(a) /\ a.echo = request
    BY <2>3 DEF IntentAddress, Honest
  <2>9. Funds(a, request)
    BY <2>3 DEF Funds, Honest
  <2> QED BY <2>6, <2>7, <2>8, <2>9 DEF Acceptable
<1> QED BY <1>1, QuoteInvariance, PTL

-------------------------------------------------------------------------------
(* The two checks together                                                 *)

\* Whatever the system checks, its quotes are checked as QuoteChecks says.
THEOREM QuotesCompose == Spec => QuoteSpec
<1>1. Init => QuoteInit
  BY DEF Init
<1>2. [Next]_vars => [QuoteNext]_quoteVars
  BY DEF Next, CheckQuote, CheckRecovery, vars
<1> QED BY <1>1, <1>2, PTL DEF Spec, QuoteSpec

\* A behaviour that is about a recovery is one of RecoveryChecks.
THEOREM RecoveriesCompose == Spec => (checking = "recovery" => RecoverySpec)
<1>1. Init /\ checking = "recovery" => RecoveryInit
  BY DEF Init
<1>2. [Next]_vars => [RecoveryNext]_recoveryVars
  BY DEF Next, CheckQuote, CheckRecovery, vars
<1> QED BY <1>1, <1>2, PTL DEF Spec, RecoverySpec

\* The invariant of the recovery checks holds while none is at work, too.
LEMMA ChecksInvariance == Spec => []RecoveryIInv
<1>1. RecoveryIdle => RecoveryIInv
  <2> SUFFICES ASSUME RecoveryIdle PROVE RecoveryIInv
    OBVIOUS
  <2>1. reviewed \in [Assets -> Nat] /\ allowed = reviewed /\ moved = Nothing /\ next = 1
        /\ payload = envelope
    BY DEF RecoveryIdle, Nothing
  <2>2. <<>> \in Seq(Call) /\ Len(<<>>) = 0
    OBVIOUS
  <2>3. RecoveryTypeOK
    BY <2>1, <2>2 DEF RecoveryIdle, RecoveryTypeOK
  <2>4. AccountIsRight /\ AccountIsTotal
    BY <2>1, <2>3, FreshAccount DEF RecoveryTypeOK
  <2>5. SignedInv /\ PayloadInv
    BY <2>1 DEF RecoveryIdle, SignedInv, PayloadInv
  <2> QED BY <2>3, <2>4, <2>5 DEF RecoveryIInv
<1>2. Init => RecoveryIInv
  BY <1>1, InitIInv DEF Init
<1>3. [Next]_vars => [RecoveryNext]_recoveryVars
  BY DEF Next, CheckQuote, CheckRecovery, vars
<1>4. RecoveryIInv /\ [Next]_vars => RecoveryIInv'
  BY <1>3, NextIInv
<1> QED BY <1>2, <1>4, PTL DEF Spec

\* No stored record shares its intent with another (findIntent in quoteSwap).
THEOREM ChecksOneSwapPerIntent == Spec => []OneSwapPerIntent
BY QuotesCompose, OneSwapPerIntentCorrect, PTL

\* No stored record gives up more than the user's tolerance (validateSwapQuote).
THEOREM ChecksLoss == Spec => []LossIsBounded
BY QuotesCompose, LossCorrect, PTL

\* The prepared transfer pays what was asked to the intent (prepareTransfer).
THEOREM ChecksFunded == Spec => []FundedAsAsked
BY QuotesCompose, FundedCorrect, PTL

\* An honest answer is stored (validateSwapQuote).
THEOREM ChecksHonest == Spec => []HonestIsAccepted
BY QuotesCompose, HonestCorrect, PTL

\* What is submitted to an intent wallet takes no more than was reviewed
\* (validateRecoveryTransaction).
THEOREM ChecksWithinReview == Spec => []NeverMoreThanReviewed
BY WithinReview, ChecksInvariance, PTL

\* A sweep is signed as refunds of exactly what it names (recoveryAuthorization).
THEOREM ChecksSweepIsRefunded == Spec => []SweepIsRefunded
BY SignedRefunds, ChecksInvariance, PTL

\* The validator's account is right at every call (validateRecoveryPayload).
THEOREM ChecksAccount == Spec => []AccountIsRight
<1>1. RecoveryIInv => AccountIsRight
  BY DEF RecoveryIInv
<1> QED BY <1>1, ChecksInvariance, PTL
===============================================================================
