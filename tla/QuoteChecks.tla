------------------------------ MODULE QuoteChecks ------------------------------
(***************************************************************************)
(* From what a user asks to the transaction that pays for it: the request  *)
(* built from a swap, the checks of the quote Trails answers with, the     *)
(* record that is stored and reviewed, and the transfer prepared from it   *)
(* (trails/quote.ts, quoteSwap in trails/swaps.ts, prepareTransfer in      *)
(* client.ts, trails/view.ts).                                             *)
(*                                                                         *)
(* Abstractions.  An answer is what an honest Trails answers with at most  *)
(* one field changed.  Digests are what they digest.  The fields of an     *)
(* intent that nothing but a comparison with the request looks at (owner,  *)
(* chains, tokens, contracts, the echoed request) are one field, echo;     *)
(* those that must be absent are one field, extras.  The native asset has  *)
(* two names, "native" and "alias", and one address.                       *)
(***************************************************************************)
EXTENDS Integers, FiniteSets

CONSTANTS SwapIds, Intents,
          Inputs,       \* what users ask for
          Policy,       \* the assets of the host, as <<chain, address>>
          Wallet,        \* the wallet
          Outputs,      \* quoted outputs, in base units
          None

ASSUME IntentsAssumption == Wallet \notin Intents /\ "zero" \notin Intents
ASSUME OutputsAssumption == Outputs \subseteq Nat
ASSUME InputsAssumption == \A in \in Inputs : in.amount \in Nat /\ in.bps \in Nat

VARIABLES
  asking,               \* the swap whose request is with Trails, or none
  request,              \* its request
  book                  \* the stored records

quoteVars == <<asking, request, book>>

-------------------------------------------------------------------------------
(* Requests                                                                *)

\* tokenAddress
Address(asset) == IF asset \in {"native", "alias"} THEN "zero" ELSE asset

Distinct(in) == \/ in.from.chain # in.to.chain
                \/ Address(in.from.asset) # Address(in.to.asset)

Supported(side) == <<side.chain, Address(side.asset)>> \in Policy

Valid(in) == in.amount > 0 /\ Distinct(in) /\ Supported(in.from) /\ Supported(in.to)

Request(in) == [owner |-> Wallet,
                from |-> [chain |-> in.from.chain, token |-> Address(in.from.asset)],
                to   |-> [chain |-> in.to.chain, token |-> Address(in.to.asset)],
                amount |-> in.amount, bps |-> in.bps]

-------------------------------------------------------------------------------
(* Answers                                                                 *)

\* A transfer as the chain sees it: the native asset leaves as the value of a
\* call of the recipient, a token by a call of its contract.
Payment(token, to, amount) ==
  IF token = "zero" THEN [to |-> to, value |-> amount, pays |-> <<>>]
                    ELSE [to |-> token, value |-> 0, pays |-> <<to, amount>>]

\* Mutant: the division is made first.
FloorEarly(output, bps) == (output \div 10000) * (10000 - bps)

\* Mutant: the division rounds up.
FloorUp(output, bps) == (output * (10000 - bps) + 9999) \div 10000

\* The least output a tolerance leaves: what the division drops is the user's.
Floor(output, bps) == (output * (10000 - bps)) \div 10000

Honest(req, i, out, min) ==
  [intent |-> i, status |-> "QUOTED", left |-> 31, address |-> i, echo |-> req,
   extras |-> FALSE,
   deposit |-> [chain |-> req.from.chain, token |-> req.from.token,
                to |-> i, amount |-> req.amount],
   call |-> Payment(req.from.token, i, req.amount),
   precondition |-> [holder |-> i, min |-> req.amount],
   out |-> out, min |-> min,
   taken |-> req.amount, takenMin |-> req.amount, slip |-> req.bps]

HonestAnswers(req) ==
  {Honest(req, i, out, min) : i \in Intents, out \in Outputs, min \in Outputs}

Stranger == "stranger"

\* Everything is sent to the owner again, as if its wallet were the intent's.
Redirected(a) ==
  [a EXCEPT !.address = Wallet, !.deposit.to = Wallet, !.precondition.holder = Wallet,
            !.call = Payment(a.deposit.token, Wallet, a.deposit.amount)]

\* What else Trails may answer, one change at a time.
Changes(a) ==
  {[a EXCEPT !.status = "FAILED"], [a EXCEPT !.left = 30], [a EXCEPT !.extras = TRUE],
   [a EXCEPT !.echo = [@ EXCEPT !.owner = Stranger]], [a EXCEPT !.echo.bps = 10000],
   [a EXCEPT !.deposit.to = Stranger], [a EXCEPT !.deposit.amount = @ + 1],
   [a EXCEPT !.deposit.chain = 0], [a EXCEPT !.deposit.token = Stranger],
   [a EXCEPT !.call.to = Stranger], [a EXCEPT !.call.value = @ + 1],
   [a EXCEPT !.call.pays = <<Stranger, a.deposit.amount>>],
   [a EXCEPT !.precondition.min = @ + 1], [a EXCEPT !.taken = @ + 1],
   [a EXCEPT !.takenMin = @ + 1], [a EXCEPT !.slip = @ + 1], Redirected(a)}

QuoteAnswers(req) == HonestAnswers(req) \cup UNION {Changes(a) : a \in HonestAnswers(req)}

-------------------------------------------------------------------------------
(* validateSwapQuote                                                       *)

Usable(a) == a.status = "QUOTED" /\ a.left > 30 /\ ~a.extras

IntentAddress(a) == a.address # "zero" /\ a.address # Wallet

\* Mutant: the calldata of the deposit is not looked at.
FundsUnencoded(a, req) ==
  /\ a.deposit = [chain |-> req.from.chain, token |-> req.from.token,
                  to |-> a.address, amount |-> req.amount]
  /\ a.precondition = [holder |-> a.deposit.to, min |-> a.deposit.amount]

\* The deposit pays what was asked to the intent, and nothing else.
Funds(a, req) ==
  /\ a.deposit = [chain |-> req.from.chain, token |-> req.from.token,
                  to |-> a.address, amount |-> req.amount]
  /\ a.precondition = [holder |-> a.deposit.to, min |-> a.deposit.amount]
  /\ a.call = Payment(req.from.token, a.deposit.to, a.deposit.amount)

Rates(a, req) ==
  /\ 0 < a.min /\ a.min <= a.out
  /\ a.min >= Floor(a.out, req.bps)
  /\ 0 < a.taken /\ a.taken <= req.amount
  /\ a.takenMin <= a.taken /\ a.slip <= req.bps

Acceptable(a, req) ==
  Usable(a) /\ IntentAddress(a) /\ a.echo = req /\ Funds(a, req) /\ Rates(a, req)

-------------------------------------------------------------------------------
(* quoteSwap                                                               *)

\* The record keeps the request, the intent and the transfer that funds it.
Record(req, a) ==
  [request |-> req, answer |-> a,
   funding |-> [chain |-> a.deposit.chain, to |-> a.deposit.to,
                asset |-> IF req.from.token = "zero" THEN "native" ELSE req.from.token,
                amount |-> a.deposit.amount]]

\* Mutant: an intent may be tracked twice.
FreshIntent(s, i) == book[s] = None

\* No other swap tracks the intent.
Tracked(s, i) == \E t \in SwapIds \ {s} : book[t] # None /\ book[t].answer.intent = i
Untracked(s, i) == ~Tracked(s, i)

\* prepareTransfer encodes the funding transfer of a stored swap anew.
Prepared(funding) == [chain |-> funding.chain,
                      call |-> Payment(Address(funding.asset), funding.to, funding.amount)]

QuoteInit ==
  /\ asking = None /\ request = None
  /\ book = [s \in SwapIds |-> None]

\* A swap that is stored is answered from the store, or conflicts with it.
QuoteSwap(s, in) ==
  /\ asking = None /\ Valid(in) /\ book[s] = None
  /\ asking' = s /\ request' = Request(in)
  /\ UNCHANGED book

Stop == asking' = None /\ request' = None

AcceptQuote(a) ==
  /\ asking # None /\ Acceptable(a, request) /\ Untracked(asking, a.intent)
  /\ book' = [book EXCEPT ![asking] = Record(request, a)]
  /\ Stop

RefuseQuote(a) ==
  /\ asking # None
  /\ ~Acceptable(a, request) \/ ~Untracked(asking, a.intent)
  /\ Stop
  /\ UNCHANGED book

\* The request failed, or the process stopped: nothing was stored.
Abandon == asking # None /\ Stop /\ UNCHANGED book

QuoteNext ==
  \/ \E s \in SwapIds, in \in Inputs : QuoteSwap(s, in)
  \/ asking # None /\ \E a \in QuoteAnswers(request) : AcceptQuote(a) \/ RefuseQuote(a)
  \/ Abandon

QuoteSpec == QuoteInit /\ [][QuoteNext]_quoteVars

-------------------------------------------------------------------------------
(* Properties                                                              *)

\* swapView: what the user reviews.
View(r) == [input |-> r.funding.amount, output |-> r.answer.out, minimum |-> r.answer.min]

\* The transaction that leaves the wallet is the one Trails waits for, and pays
\* the reviewed amount of the asset that was asked, from its chain, to an
\* address that is the intent's and not the wallet's own.
FundedAsAsked ==
  \A s \in SwapIds : book[s] # None =>
    LET r == book[s]
        tx == Prepared(r.funding)
    IN  /\ tx.call = r.answer.call
        /\ tx.chain = r.request.from.chain
        /\ r.answer.address = r.answer.intent
        /\ tx.call = Payment(r.request.from.token, r.answer.intent, View(r).input)
        /\ View(r).input = r.request.amount

\* From an output to a least output is the share a tolerance allows, rounded up to
\* one base unit.
Within(out, min, bps) == (out - min) * 10000 < out * bps + 10000

\* What a reviewed swap may lose to slippage is the share the user allowed,
\* rounded up to one base unit; it never gives nothing, and never swaps an
\* asset for itself under its other name.
LossIsBounded ==
  \A s \in SwapIds : book[s] # None =>
    LET r == book[s]
    IN  /\ Within(View(r).output, View(r).minimum, r.request.bps)
        /\ View(r).minimum > 0
        /\ r.request.from # r.request.to

\* Two swaps of a wallet never follow one intent, so that no deposit is counted
\* for both.
OneSwapPerIntent ==
  \A s, t \in SwapIds : s # t /\ book[s] # None /\ book[t] # None =>
                          book[s].answer.intent # book[t].answer.intent

\* Nothing but its rate is held against an honest answer, and a rate within the
\* tolerance is not.
HonestIsAccepted ==
  asking # None =>
    \A a \in HonestAnswers(request) :
      /\ 0 < a.min /\ a.min <= a.out
      /\ Within(a.out, a.min, request.bps)
      => Acceptable(a, request)
================================================================================
