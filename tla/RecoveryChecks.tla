---------------------------- MODULE RecoveryChecks ----------------------------
(***************************************************************************)
(* What may be taken from an intent wallet in the owner's name: the checks *)
(* between the envelope Trails proposes and the transaction the wallet     *)
(* submits (trails/recovery.ts, recovery-authorization.ts,                 *)
(* recovery-transaction.ts, authorization.ts).                             *)
(*                                                                         *)
(* An envelope is a sequence of calls the intent wallet would make.  The   *)
(* validator walks through it and takes what each call moves off what is   *)
(* left of the reviewed balances.  A single sweep through Trails' utility  *)
(* contract sweeps that contract and not the wallet; it is replaced by     *)
(* direct transfers, which are validated again.  What Trails builds from   *)
(* the signed authorization is compared with it at last.                   *)
(*                                                                         *)
(* Abstractions.  Encodings and hashes are what they encode: two payloads  *)
(* have one hash when they are equal.  A call of kind "other" stands for   *)
(* everything refused at sight (delegate calls, gas limits, approvals,     *)
(* other contracts, encodings that are not canonical).  Calling the alias  *)
(* of the native asset as if it were a token moves nothing.                *)
(***************************************************************************)
EXTENDS Integers, Sequences, FiniteSets

CONSTANTS Assets, Native, Owner, Elsewhere,
          Amounts,      \* amounts in base units that are looked at
          MaxCalls,     \* bound of this model; the code's is 64
          Envelopes     \* the sequences of calls Trails may propose

ASSUME AssetsAssumption == Native \in Assets /\ Owner # Elsewhere
ASSUME AmountsAssumption == Amounts \subseteq Nat /\ 0 \in Amounts
ASSUME MaxCallsAssumption == MaxCalls \in Nat

VARIABLES
  stage,                \* which check is at work
  reviewed,             \* the reviewed balances of the intent wallet
  envelope,             \* the calls as Trails proposed them
  payload,              \* the calls the running validation is about
  next,                 \* the call it looks at
  allowed,              \* what is left of the reviewed balances
  moved,                \* observation: what the calls so far move to the owner
  built                 \* the transaction Trails built, or the one refused

recoveryVars == <<stage, reviewed, envelope, payload, next, allowed, moved, built>>

-------------------------------------------------------------------------------
(* Calls                                                                   *)

Kinds == {"pay", "transfer", "sweep", "other"}
Call == {call \in [kind : Kinds, to : {Owner, Elsewhere}, asset : Assets,
                   amount : Nat, tokens : Seq(Assets), native : BOOLEAN] :
           call.kind = "pay" => call.asset = Native}

ASSUME EnvelopesAssumption == \A calls \in Envelopes : calls \in Seq(Call)

Pay(to, amount) == [kind |-> "pay", to |-> to, asset |-> Native,
                    amount |-> amount, tokens |-> <<>>, native |-> FALSE]
Send(asset, to, amount) == [kind |-> "transfer", to |-> to, asset |-> asset,
                            amount |-> amount, tokens |-> <<>>, native |-> FALSE]
Sweep(to, tokens, native) == [kind |-> "sweep", to |-> to, asset |-> Native,
                              amount |-> 0, tokens |-> tokens, native |-> native]
Other == [kind |-> "other", to |-> Elsewhere, asset |-> Native,
          amount |-> 0, tokens |-> <<>>, native |-> FALSE]

\* What the call takes out of the intent wallet.
Takes(call, asset) ==
  IF /\ call.asset = asset
     /\ \/ call.kind = "pay"
        \/ call.kind = "transfer" /\ asset # Native
  THEN call.amount ELSE 0

\* What a sweep names, each asset once or the envelope is refused.
Swept(call) == IF call.native THEN Append(call.tokens, Native) ELSE call.tokens
SetOf(seq) == {seq[j] : j \in DOMAIN seq}

RecoveryTypeOK ==
  /\ stage \in {"envelope", "authorization", "authorized", "permitted", "refused"}
  /\ reviewed \in [Assets -> Nat]
  /\ envelope \in Seq(Call)
  /\ payload \in Seq(Call)
  /\ next \in 1 .. Len(payload) + 1
  /\ allowed \in [Assets -> Nat]
  /\ moved \in [Assets -> Nat]
  /\ built \in Seq(Call)

Nothing == [a \in Assets |-> 0]

RecoveryInit ==
  /\ stage = "envelope"
  /\ reviewed \in [Assets -> Amounts]
  /\ envelope \in Envelopes /\ payload = envelope
  /\ next = 1 /\ allowed = reviewed /\ moved = Nothing
  /\ built = <<>>

-------------------------------------------------------------------------------
(* validateRecoveryPayload                                                 *)

Validating == stage \in {"envelope", "authorization"}

Accepts(call) ==
  \/ /\ call.kind = "pay" /\ call.to = Owner
     /\ 0 < call.amount /\ call.amount <= allowed[Native]
  \/ /\ call.kind = "transfer" /\ call.to = Owner
     /\ 0 < call.amount /\ call.amount <= allowed[call.asset]
  \/ /\ call.kind = "sweep" /\ call.to = Owner
     /\ Swept(call) # <<>>
     /\ \A asset \in SetOf(Swept(call)) : allowed[asset] > 0
     /\ Cardinality(SetOf(Swept(call))) = Len(Swept(call))

\* What is left after an accepted call.
Charge(call) ==
  IF call.kind = "sweep"
  THEN [a \in Assets |-> IF a \in SetOf(Swept(call)) THEN 0 ELSE allowed[a]]
  ELSE [allowed EXCEPT ![call.asset] = @ - call.amount]

CheckCall ==
  /\ Validating /\ next <= Len(payload)
  /\ Len(payload) <= MaxCalls
  /\ Accepts(payload[next])
  /\ next' = next + 1
  /\ allowed' = Charge(payload[next])
  /\ moved' = [a \in Assets |-> moved[a] + Takes(payload[next], a)]
  /\ UNCHANGED <<stage, reviewed, envelope, payload, built>>

Refuse == /\ stage' = "refused"
          /\ UNCHANGED <<reviewed, envelope, payload, next, allowed, moved, built>>

\* Mutant: the greatest number of calls is one too many.
RefuseAtLimit == /\ Validating
                 /\ \/ Len(payload) = 0 \/ Len(payload) >= MaxCalls
                    \/ next <= Len(payload) /\ ~Accepts(payload[next])
                 /\ Refuse

RefuseCall == /\ Validating
              /\ \/ Len(payload) = 0 \/ Len(payload) > MaxCalls
                 \/ next <= Len(payload) /\ ~Accepts(payload[next])
              /\ Refuse

-------------------------------------------------------------------------------
(* recoveryAuthorization                                                   *)

Checked == Validating /\ Len(payload) > 0 /\ next = Len(payload) + 1

Utility(calls) == \E j \in DOMAIN calls : calls[j].kind = "sweep"

\* The envelope makes direct refunds only, or they have replaced its sweep.
Authorize == /\ Checked
             /\ ~Utility(payload)
             /\ stage' = "authorized"
             /\ UNCHANGED <<reviewed, envelope, payload, next, allowed, moved, built>>

Refund(asset) == IF asset = Native THEN Pay(Owner, reviewed[asset])
                 ELSE Send(asset, Owner, reviewed[asset])

\* Mutant: the native asset a sweep names is left out.
RefundsTokens(call) == [j \in DOMAIN call.tokens |-> Refund(call.tokens[j])]

\* The direct transfers that take the place of a sweep.
Refunds(call) == [j \in DOMAIN Swept(call) |-> Refund(Swept(call)[j])]

\* A sweep alone is replaced, and what replaces it is validated.
Derive == /\ Checked /\ stage = "envelope"
          /\ Utility(payload) /\ Len(payload) = 1
          /\ stage' = "authorization"
          /\ payload' = Refunds(payload[1])
          /\ next' = 1 /\ allowed' = reviewed /\ moved' = Nothing
          /\ UNCHANGED <<reviewed, envelope, built>>

RefuseMixed == /\ Checked /\ stage = "envelope"
               /\ Utility(payload) /\ Len(payload) > 1
               /\ Refuse

-------------------------------------------------------------------------------
(* validateRecoveryTransaction, permitRecovery                             *)

\* Mutant: only the number of calls is compared.
SameAuthorizationLength(calls) == Len(calls) = Len(payload)

\* The payload that is executed has the hash that was signed.
SameAuthorization(calls) == calls = payload

\* Trails answers with the execution of some calls, through the intent wallet
\* or through a batch that deploys it first; only the signed one is permitted.
Permit(calls) == /\ stage = "authorized" /\ SameAuthorization(calls)
                 /\ stage' = "permitted"
                 /\ built' = calls
                 /\ UNCHANGED <<reviewed, envelope, payload, next, allowed, moved>>

RefuseBuilt(calls) == /\ stage = "authorized" /\ ~SameAuthorization(calls)
                      /\ stage' = "refused"
                      /\ built' = calls
                      /\ UNCHANGED <<reviewed, envelope, payload, next, allowed, moved>>

\* What Trails may build: what was signed, the envelope, or another payload.
Answers == {payload, envelope} \cup {e \in Envelopes : Len(e) = Len(payload)}

RecoveryNext == \/ CheckCall \/ RefuseCall \/ Authorize \/ Derive \/ RefuseMixed
        \/ \E calls \in Answers : Permit(calls) \/ RefuseBuilt(calls)

RecoverySpec == RecoveryInit /\ [][RecoveryNext]_recoveryVars

-------------------------------------------------------------------------------
(* Properties                                                              *)

\* What the first calls of a sequence take of an asset together.
Totals(calls, asset) ==
  LET sum[n \in 0 .. Len(calls)] ==
        IF n = 0 THEN 0 ELSE sum[n - 1] + Takes(calls[n], asset)
  IN  sum

Total(calls, asset) == Totals(calls, asset)[Len(calls)]

\* The transaction that may be submitted takes of no asset more than was
\* reviewed, however the calls split it, and nothing for anybody but the owner.
NeverMoreThanReviewed ==
  stage = "permitted" =>
    /\ \A asset \in Assets : Total(built, asset) <= reviewed[asset]
    /\ \A j \in DOMAIN built : \A asset \in Assets :
         Takes(built[j], asset) > 0 => built[j].to = Owner

\* The running account is right: what the calls so far take, and that together
\* with what is left for the others, is no more than what was reviewed, and what
\* they take goes to the owner.
AccountIsRight ==
  /\ \A asset \in Assets : /\ moved[asset] <= reviewed[asset]
                           /\ moved[asset] + allowed[asset] <= reviewed[asset]
  /\ \A j \in 1 .. next - 1 : \A asset \in Assets :
       Takes(payload[j], asset) > 0 => payload[j].to = Owner

\* Nothing that goes through the utility contract is signed, and the refunds
\* that replace a sweep take exactly the reviewed balance of all it names.
SweepIsRefunded ==
  stage \in {"authorized", "permitted"} =>
    /\ ~Utility(payload)
    /\ Utility(envelope) => \A asset \in SetOf(Swept(envelope[1])) :
         Total(payload, asset) = reviewed[asset]

\* An envelope of direct refunds to the owner that asks for no more of any asset
\* than was reviewed.
DirectWithinReview ==
  /\ Len(envelope) \in 1 .. MaxCalls
  /\ \A j \in DOMAIN envelope : /\ envelope[j].kind \in {"pay", "transfer"}
                                /\ envelope[j].to = Owner
                                /\ envelope[j].amount > 0
                                /\ envelope[j].kind = "transfer" => envelope[j].asset # Native
  /\ \A asset \in Assets : Total(envelope, asset) <= reviewed[asset]

\* Such an envelope is not refused: the order and the number of its calls do not
\* matter.
RefundsAreAccepted == DirectWithinReview => <>(stage \in {"authorized", "permitted"})
===============================================================================
