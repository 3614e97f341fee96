------------------------- MODULE RecoveryChecksProofs -------------------------
(***************************************************************************)
(* Theorems about the recovery checks, for every set of assets, every      *)
(* reviewed balance, every bound on the calls and every envelope Trails    *)
(* may propose.                                                            *)
(*                                                                         *)
(* The validator looks at one call at a time and never adds up.  That what *)
(* it lets through stays within the review is an invariant of the running  *)
(* account: moved + allowed <= reviewed, asset by asset.  It is inductive  *)
(* with the types; SignedInv carries it from the last call to the          *)
(* transaction that is permitted.                                          *)
(***************************************************************************)
EXTENDS RecoveryChecks, SequenceTheorems, FiniteSetTheorems, TLAPS

\* What is signed was looked at to the end and goes past the utility contract,
\* and what is permitted is what was signed.
SignedInv == /\ stage \in {"authorized", "permitted"} =>
                  next = Len(payload) + 1 /\ ~Utility(payload)
             /\ stage = "permitted" => built = payload

\* A direct refund, to whomever.
Plain(call) == /\ call.kind \in {"pay", "transfer"}
               /\ call.kind = "transfer" => call.asset # Native

\* The running account is what the calls so far take together; and as long as
\* they are direct refunds, what is left is exactly the rest of the review.
AccountIsTotal ==
  /\ \A asset \in Assets : moved[asset] = Totals(payload, asset)[next - 1]
  /\ (\A j \in 1 .. next - 1 : Plain(payload[j])) =>
       \A asset \in Assets : moved[asset] + allowed[asset] = reviewed[asset]

\* A sweep of assets that have a reviewed balance, each named once.
Replaceable(call) ==
  /\ call.kind = "sweep" /\ Swept(call) # <<>>
  /\ Cardinality(SetOf(Swept(call))) = Len(Swept(call))
  /\ \A asset \in SetOf(Swept(call)) : reviewed[asset] > 0

Replaced == /\ Len(envelope) = 1 /\ Replaceable(envelope[1])
            /\ payload = Refunds(envelope[1])

\* The running validation is about the envelope, or about the refunds that
\* replace its only call, an accepted sweep.
PayloadInv ==
  /\ stage = "envelope" => payload = envelope
  /\ stage = "authorization" => Replaced
  /\ payload = envelope \/ Replaced
  /\ \A j \in 1 .. next - 1 : payload[j].kind = "sweep" => Replaceable(payload[j])

RecoveryIInv == RecoveryTypeOK /\ AccountIsRight /\ AccountIsTotal /\ SignedInv /\ PayloadInv

-------------------------------------------------------------------------------
(* Lemmas about calls                                                      *)

\* A refund of an asset is a call the validator can look at.
LEMMA RefundIsCall ==
  ASSUME NEW asset \in Assets, reviewed \in [Assets -> Nat]
  PROVE  Refund(asset) \in Call
<1>1. Native \in Assets
  BY AssetsAssumption
<1>2. <<>> \in Seq(Assets)
  OBVIOUS
<1>3. reviewed[asset] \in Nat
  OBVIOUS
<1>4. CASE asset = Native
  BY <1>1, <1>2, <1>3, <1>4 DEF Refund, Pay, Call, Kinds
<1>5. CASE asset # Native
  BY <1>1, <1>2, <1>3, <1>5 DEF Refund, Send, Call, Kinds
<1> QED BY <1>4, <1>5

\* What a sweep names is a sequence of assets.
LEMMA SweptIsSeq ==
  ASSUME NEW call \in Call
  PROVE  Swept(call) \in Seq(Assets)
BY AssetsAssumption DEF Swept, Call

\* The calls that replace a sweep are calls.
LEMMA RefundsAreCalls ==
  ASSUME NEW call \in Call, reviewed \in [Assets -> Nat]
  PROVE  Refunds(call) \in Seq(Call)
<1>1. Swept(call) \in Seq(Assets)
  BY SweptIsSeq
<1>2. DOMAIN Swept(call) = 1 .. Len(Swept(call)) /\ Len(Swept(call)) \in Nat
  BY <1>1
<1>3. \A j \in DOMAIN Swept(call) : Refund(Swept(call)[j]) \in Call
  BY <1>1, <1>2, RefundIsCall
<1>4. Refunds(call) \in [1 .. Len(Swept(call)) -> Call]
  BY <1>2, <1>3 DEF Refunds
<1> QED BY <1>2, <1>4

\* A call takes a natural number.
LEMMA TakesIsNat ==
  ASSUME NEW call \in Call, NEW asset \in Assets
  PROVE  Takes(call, asset) \in Nat
BY DEF Takes, Call

\* After an accepted call the allowance is still a balance per asset, and it
\* has fallen by what the call takes, at least.
LEMMA ChargeCoversTakes ==
  ASSUME RecoveryTypeOK, NEW call \in Call, Accepts(call)
  PROVE  /\ Charge(call) \in [Assets -> Nat]
         /\ \A asset \in Assets :
              Charge(call)[asset] + Takes(call, asset) <= allowed[asset]
<1>1. allowed \in [Assets -> Nat] /\ call.amount \in Nat /\ call.asset \in Assets
  BY DEF RecoveryTypeOK, Call
<1>2. CASE call.kind = "sweep"
  BY <1>1, <1>2 DEF Charge, Takes
<1>3. CASE call.kind # "sweep"
  <2>1. call.amount <= allowed[call.asset]
    BY <1>1, <1>3 DEF Accepts, Call
  <2>2. Charge(call) = [allowed EXCEPT ![call.asset] = @ - call.amount]
    BY <1>3 DEF Charge
  <2>3. Charge(call)[call.asset] = allowed[call.asset] - call.amount
    BY <1>1, <2>2
  <2>4. \A asset \in Assets : asset # call.asset => Charge(call)[asset] = allowed[asset]
    BY <1>1, <2>2
  <2>5. \A asset \in Assets : asset # call.asset => Takes(call, asset) = 0
    BY DEF Takes
  <2>6. Takes(call, call.asset) \in {0, call.amount}
    BY DEF Takes
  <2>7. allowed[call.asset] - call.amount \in Nat
    BY <1>1, <2>1
  <2>8. Charge(call) \in [Assets -> Nat]
    BY <1>1, <2>2, <2>7
  <2>9. ASSUME NEW asset \in Assets
        PROVE  Charge(call)[asset] + Takes(call, asset) <= allowed[asset]
    BY <1>1, <2>3, <2>4, <2>5, <2>6
  <2> QED BY <2>8, <2>9
<1> QED BY <1>2, <1>3

-------------------------------------------------------------------------------
(* Induction, and the sums of a sequence of calls                           *)

\* A set of naturals that holds 0 and with every number its successor holds all.
LEMMA SetInduction ==
  ASSUME NEW S \in SUBSET Nat, 0 \in S, \A n \in S : n + 1 \in S
  PROVE  S = Nat
<1> DEFINE T == Nat \ S
           R == OpToRel(<, Nat)
<1>0. SUFFICES ASSUME T # {} PROVE FALSE
  OBVIOUS
<1>1. \A x, y \in Nat : y < x => <<y, x>> \in R
  BY DEF OpToRel
<1>2. T \subseteq Nat /\ IsWellFoundedOn(R, Nat)
  BY NatLessThanWellFounded
<1> HIDE DEF R
<1>2a. \E x \in T : \A y \in T : ~ (<<y, x>> \in R)
  <2> HIDE DEF T
  <2> QED BY <1>0, <1>2, WFMin
<1>3. PICK x \in T : \A y \in T : ~ (<<y, x>> \in R)
  BY <1>2a
<1>4. x \in Nat /\ x # 0 /\ x \notin S
  OBVIOUS
<1>5. x - 1 \in Nat /\ x - 1 < x /\ (x - 1) + 1 = x
  BY <1>4
<1>6. x - 1 \notin T
  BY <1>1, <1>3, <1>4, <1>5
<1>7. x - 1 \in S
  BY <1>5, <1>6
<1> QED BY <1>4, <1>5, <1>7

\* f adds up what the first m calls take.
AddsUp(f, m, calls, asset) ==
  f = [n \in 0 .. m |-> IF n = 0 THEN 0 ELSE f[n - 1] + Takes(calls[n], asset)]

LEMMA SumsExist ==
  ASSUME NEW calls, NEW asset, NEW m \in Nat
  PROVE  \E f : AddsUp(f, m, calls, asset)
<1> DEFINE S == {n \in Nat : \E f : AddsUp(f, n, calls, asset)}
<1>1. 0 \in S
  <2> DEFINE f == [n \in 0 .. 0 |-> 0]
  <2>1. AddsUp(f, 0, calls, asset)
    BY DEF AddsUp
  <2> QED BY <2>1
<1>2. ASSUME NEW n \in S PROVE n + 1 \in S
  <2>1. PICK f : AddsUp(f, n, calls, asset)
    OBVIOUS
  <2> DEFINE g == [k \in 0 .. n + 1 |->
                     IF k = n + 1 THEN f[n] + Takes(calls[k], asset) ELSE f[k]]
  <2>2. n \in Nat
    OBVIOUS
  <2>3. \A k \in 0 .. n : f[k] = IF k = 0 THEN 0 ELSE f[k - 1] + Takes(calls[k], asset)
    BY <2>1 DEF AddsUp
  <2>4. ASSUME NEW k \in 0 .. n + 1
        PROVE  g[k] = IF k = 0 THEN 0 ELSE g[k - 1] + Takes(calls[k], asset)
    <3>1. CASE k = n + 1
      <4>1. k # 0 /\ k - 1 = n /\ n \in 0 .. n + 1 /\ n # n + 1
        BY <2>2, <3>1
      <4> QED BY <3>1, <4>1
    <3>2. CASE k # n + 1 /\ k # 0
      <4>1. k \in 0 .. n /\ k - 1 \in 0 .. n + 1 /\ k - 1 # n + 1
        BY <2>2, <3>2
      <4> QED BY <2>3, <3>2, <4>1
    <3>3. CASE k = 0
      BY <2>2, <2>3, <3>3
    <3> QED BY <3>1, <3>2, <3>3
  <2>5. g = [k \in 0 .. n + 1 |-> IF k = 0 THEN 0 ELSE g[k - 1] + Takes(calls[k], asset)]
    <3>1. \A k \in 0 .. n + 1 : 
        g[k] = [j \in 0 .. n + 1 |-> IF j = 0 THEN 0 ELSE g[j - 1] + Takes(calls[j], asset)][k]
      <4> HIDE DEF g
      <4> QED BY <2>4
    <3> QED BY <3>1
  <2>6. AddsUp(g, n + 1, calls, asset)
    BY <2>5, Zenon DEF AddsUp
  <2> QED BY <2>2, <2>6
<1> HIDE DEF S
<1>3. S \in SUBSET Nat
  BY DEF S
<1>4. S = Nat
  BY <1>1, <1>2, <1>3, SetInduction
<1> QED BY <1>4 DEF S

\* The sum is what its recursive definition says.
LEMMA TotalsAddUp ==
  ASSUME NEW calls \in Seq(Call), NEW asset
  PROVE  AddsUp(Totals(calls, asset), Len(calls), calls, asset)
<1> DEFINE Sums(f) == AddsUp(f, Len(calls), calls, asset)
<1>1. Len(calls) \in Nat
  OBVIOUS
<1>2. \E f : Sums(f)
  BY <1>1, SumsExist
<1>3. Totals(calls, asset) = CHOOSE f : Sums(f)
  BY Zenon DEF Totals, AddsUp
<1> HIDE DEF Sums
<1>4. Sums(Totals(calls, asset))
  BY <1>2, <1>3, Zenon
<1> QED BY <1>4 DEF Sums

LEMMA TotalsStep ==
  ASSUME NEW calls \in Seq(Call), NEW asset \in Assets
  PROVE  /\ Totals(calls, asset)[0] = 0
         /\ \A n \in 1 .. Len(calls) :
              Totals(calls, asset)[n] = Totals(calls, asset)[n - 1] + Takes(calls[n], asset)
<1> DEFINE t == Totals(calls, asset)
           m == Len(calls)
<1>1. m \in Nat
  OBVIOUS
<1>2. t = [n \in 0 .. m |-> IF n = 0 THEN 0 ELSE t[n - 1] + Takes(calls[n], asset)]
  BY TotalsAddUp DEF AddsUp
<1> HIDE DEF t, m
<1>3. \A n \in 0 .. m : t[n] = IF n = 0 THEN 0 ELSE t[n - 1] + Takes(calls[n], asset)
  BY <1>2
<1>4. t[0] = 0 /\ \A n \in 1 .. m : t[n] = t[n - 1] + Takes(calls[n], asset)
  BY <1>1, <1>3
<1> QED BY <1>4 DEF t, m

\* The sums are natural numbers that do not fall, and every call is within them.
LEMMA TotalsGrow ==
  ASSUME NEW calls \in Seq(Call), NEW asset \in Assets
  PROVE  \A n \in 0 .. Len(calls) :
           /\ Totals(calls, asset)[n] \in Nat
           /\ \A k \in 0 .. n : Totals(calls, asset)[k] <= Totals(calls, asset)[n]
<1> DEFINE t == Totals(calls, asset)
           m == Len(calls)
           S == {n \in Nat : n <= m => \A k \in 0 .. n : t[k] \in Nat /\ t[k] <= t[n]}
<1>1. m \in Nat /\ \A n \in 1 .. m : Takes(calls[n], asset) \in Nat
  BY TakesIsNat
<1>2. t[0] = 0 /\ \A n \in 1 .. m : t[n] = t[n - 1] + Takes(calls[n], asset)
  BY TotalsStep
<1> HIDE DEF t, m
<1>3. 0 \in S
  BY <1>2
<1>4. ASSUME NEW n \in S PROVE n + 1 \in S
  <2> SUFFICES ASSUME n + 1 <= m
               PROVE  \A k \in 0 .. n + 1 : t[k] \in Nat /\ t[k] <= t[n + 1]
    OBVIOUS
  <2>1. n \in Nat /\ n + 1 \in 1 .. m /\ (n + 1) - 1 = n
    BY <1>1
  <2>2. t[n + 1] = t[n] + Takes(calls[n + 1], asset) /\ Takes(calls[n + 1], asset) \in Nat
    BY <1>1, <1>2, <2>1
  <2>3. \A k \in 0 .. n : t[k] \in Nat /\ t[k] <= t[n]
    BY <1>1, <2>1
  <2> QED BY <2>1, <2>2, <2>3
<1>5. S = Nat
  <2>1. S \in SUBSET Nat
    OBVIOUS
  <2> HIDE DEF S
  <2> QED BY <1>3, <1>4, <2>1, SetInduction
<1>6. \A n \in 0 .. m : t[n] \in Nat /\ \A k \in 0 .. n : t[k] <= t[n]
  BY <1>1, <1>5
<1> QED BY <1>6 DEF t, m

\* A sequence with as many elements as places has each of them once.
LEMMA EachOnce ==
  ASSUME NEW seq \in Seq(Assets), Cardinality(SetOf(seq)) = Len(seq)
  PROVE  \A i, j \in DOMAIN seq : seq[i] = seq[j] => i = j
<1> DEFINE D == 1 .. Len(seq)
<1>1. Len(seq) \in Nat /\ DOMAIN seq = D /\ seq \in [D -> Assets]
  OBVIOUS
<1>2. IsFiniteSet(D) /\ Cardinality(D) = Len(seq)
  <2>0. 1 \in Int /\ Len(seq) \in Int
    BY <1>1
  <2>1. /\ IsFiniteSet(1 .. Len(seq))
        /\ Cardinality(1 .. Len(seq)) = IF 1 > Len(seq) THEN 0 ELSE Len(seq) - 1 + 1
    BY <2>0, FS_Interval, Zenon
  <2>2. (IF 1 > Len(seq) THEN 0 ELSE Len(seq) - 1 + 1) = Len(seq)
    BY <1>1
  <2> QED BY <2>1, <2>2
<1>3. seq \in Surjection(D, SetOf(seq))
  BY <1>1 DEF Surjection, SetOf
<1>4. seq \in Injection(D, SetOf(seq))
  BY <1>2, <1>3, FS_SurjSameCardinalityImpliesInj
<1> QED BY <1>1, <1>4 DEF Injection, IsInjective

\* What a refund takes.
LEMMA RefundTakes ==
  ASSUME NEW named \in Assets, NEW asset \in Assets
  PROVE  Takes(Refund(named), asset) = IF named = asset THEN reviewed[asset] ELSE 0
BY DEF Takes, Refund, Pay, Send

\* The refunds of a sweep that names each asset once take the reviewed balance of
\* every asset it names, and nothing of the others.
LEMMA RefundsTotal ==
  ASSUME reviewed \in [Assets -> Nat], NEW call \in Call, NEW asset \in Assets,
         Cardinality(SetOf(Swept(call))) = Len(Swept(call))
  PROVE  \A n \in 0 .. Len(Refunds(call)) :
           Totals(Refunds(call), asset)[n] =
             IF \E j \in 1 .. n : Swept(call)[j] = asset THEN reviewed[asset] ELSE 0
<1> DEFINE names == Swept(call)
           refunds == Refunds(call)
           t == Totals(refunds, asset)
           m == Len(refunds)
           Found(n) == \E j \in 1 .. n : names[j] = asset
           S == {n \in Nat : n <= m => t[n] = IF Found(n) THEN reviewed[asset] ELSE 0}
<1>1. /\ names \in Seq(Assets) /\ refunds \in Seq(Call) /\ m = Len(names) /\ m \in Nat
      /\ DOMAIN names = 1 .. m
      /\ \A j \in 1 .. m : refunds[j] = Refund(names[j])
  <2>1. names \in Seq(Assets) /\ DOMAIN names = 1 .. Len(names) /\ Len(names) \in Nat
    BY SweptIsSeq
  <2>2. refunds \in Seq(Call)
    BY RefundsAreCalls
  <2>3. refunds = [j \in DOMAIN names |-> Refund(names[j])]
    BY DEF Refunds
  <2>4. DOMAIN refunds = DOMAIN names
    BY <2>3
  <2>5. DOMAIN refunds = 1 .. m /\ m \in Nat
    BY <2>2
  <2>6. m = Len(names)
    BY <2>1, <2>4, <2>5
  <2> QED BY <2>1, <2>2, <2>3, <2>6
<1>2. \A i, j \in 1 .. m : names[i] = names[j] => i = j
  BY <1>1, EachOnce
<1>3. t[0] = 0 /\ \A n \in 1 .. m : t[n] = t[n - 1] + Takes(refunds[n], asset)
  BY <1>1, TotalsStep
<1>4. \A n \in 1 .. m : names[n] \in Assets
  BY <1>1
<1>5. \A n \in 1 .. m : Takes(refunds[n], asset) =
                          IF names[n] = asset THEN reviewed[asset] ELSE 0
  BY <1>1, <1>4, RefundTakes
<1>6. reviewed[asset] \in Nat
  OBVIOUS
<1> HIDE DEF names, refunds, t, m
<1>7. 0 \in S
  BY <1>3
<1>8. ASSUME NEW n \in S PROVE n + 1 \in S
  <2> SUFFICES ASSUME n + 1 <= m
               PROVE  t[n + 1] = IF Found(n + 1) THEN reviewed[asset] ELSE 0
    OBVIOUS
  <2>1. n \in Nat /\ n <= m /\ n + 1 \in 1 .. m /\ (n + 1) - 1 = n
    BY <1>1
  <2>2. t[n] = IF Found(n) THEN reviewed[asset] ELSE 0
    BY <2>1
  <2>3. t[n + 1] = t[n] + (IF names[n + 1] = asset THEN reviewed[asset] ELSE 0)
    BY <1>3, <1>5, <2>1
  <2>4. CASE names[n + 1] = asset
    <3>1. Found(n + 1) /\ ~Found(n)
      BY <1>1, <1>2, <2>1, <2>4
    <3> QED BY <1>6, <2>2, <2>3, <2>4, <3>1
  <2>5. CASE names[n + 1] # asset
    <3>1. Found(n + 1) <=> Found(n)
      BY <2>1, <2>5
    <3> QED BY <1>6, <2>2, <2>3, <2>5, <3>1
  <2> QED BY <2>4, <2>5
<1>9. S = Nat
  <2>1. S \in SUBSET Nat
    OBVIOUS
  <2> HIDE DEF S
  <2> QED BY <1>7, <1>8, <2>1, SetInduction
<1>10. ASSUME NEW n \in 0 .. m
       PROVE  t[n] = IF Found(n) THEN reviewed[asset] ELSE 0
  <2>1. n \in S /\ n <= m
    BY <1>1, <1>9
  <2> HIDE DEF Found
  <2> QED BY <2>1
<1> QED BY <1>10 DEF t, m, names, refunds

-------------------------------------------------------------------------------
(* The invariant                                                           *)

\* What a direct refund takes is what it is charged.
LEMMA ChargeIsTakes ==
  ASSUME RecoveryTypeOK, NEW call \in Call, Accepts(call), Plain(call)
  PROVE  \A asset \in Assets : Charge(call)[asset] + Takes(call, asset) = allowed[asset]
<1>1. allowed \in [Assets -> Nat] /\ call.amount \in Nat /\ call.asset \in Assets
  BY DEF RecoveryTypeOK, Call
<1>2. Charge(call) = [allowed EXCEPT ![call.asset] = @ - call.amount]
  BY DEF Plain, Charge
<1>3. ASSUME NEW asset \in Assets
      PROVE  Charge(call)[asset] + Takes(call, asset) = allowed[asset]
  <2>1. CASE asset = call.asset
    <3>1. Takes(call, asset) = call.amount
      BY <2>1 DEF Takes, Plain
    <3>2. Charge(call)[asset] = allowed[asset] - call.amount
      BY <1>1, <1>2, <2>1
    <3> QED BY <1>1, <3>1, <3>2
  <2>2. CASE asset # call.asset
    <3>1. Takes(call, asset) = 0
      BY <2>2 DEF Takes
    <3>2. Charge(call)[asset] = allowed[asset]
      BY <1>1, <1>2, <2>2
    <3> QED BY <1>1, <3>1, <3>2
  <2> QED BY <2>1, <2>2
<1> QED BY <1>3

\* Nothing has been looked at, and nothing was taken.
LEMMA FreshAccount ==
  ASSUME reviewed \in [Assets -> Nat], payload \in Seq(Call), next = 1,
         allowed = reviewed, moved = Nothing
  PROVE  AccountIsRight /\ AccountIsTotal
<1>1. \A asset \in Assets : Totals(payload, asset)[0] = 0
  BY TotalsStep
<1>2. next - 1 = 0 /\ 1 .. next - 1 = {}
  OBVIOUS
<1>3. \A asset \in Assets : moved[asset] = 0 /\ reviewed[asset] \in Nat
  BY DEF Nothing
<1> QED BY <1>1, <1>2, <1>3 DEF AccountIsRight, AccountIsTotal

LEMMA InitIInv == RecoveryInit => RecoveryIInv
<1> SUFFICES ASSUME RecoveryInit PROVE RecoveryIInv
  OBVIOUS
<1>1. reviewed \in [Assets -> Nat] /\ allowed \in [Assets -> Nat]
  BY AmountsAssumption DEF RecoveryInit
<1>2. envelope \in Seq(Call) /\ payload \in Seq(Call)
  BY EnvelopesAssumption DEF RecoveryInit
<1>3. RecoveryTypeOK
  BY <1>1, <1>2 DEF RecoveryInit, RecoveryTypeOK, Nothing
<1>4. AccountIsRight /\ AccountIsTotal
  BY <1>1, <1>2, FreshAccount DEF RecoveryInit
<1>5. SignedInv /\ PayloadInv
  BY DEF RecoveryInit, SignedInv, PayloadInv
<1> QED BY <1>3, <1>4, <1>5 DEF RecoveryIInv

\* A step that leaves the account and the payload alone.
Settled == UNCHANGED <<reviewed, envelope, payload, next, allowed, moved>>

LEMMA SettledKeeps ==
  ASSUME RecoveryIInv, Settled
  PROVE  AccountIsRight' /\ AccountIsTotal' /\ Replaced' = Replaced
         /\ (payload = envelope \/ Replaced)'
         /\ (\A j \in 1 .. next - 1 : payload[j].kind = "sweep" => Replaceable(payload[j]))'
<1>1. AccountIsRight'
  BY DEF RecoveryIInv, Settled, AccountIsRight
<1>2. AccountIsTotal'
  BY Zenon DEF RecoveryIInv, Settled, AccountIsTotal
<1>3. Replaced' = Replaced
  BY DEF Settled, Replaced, Replaceable, Refunds, Refund
<1>4. (payload = envelope \/ Replaced)'
  BY <1>3 DEF RecoveryIInv, PayloadInv, Settled
<1>5. (\A j \in 1 .. next - 1 : payload[j].kind = "sweep" => Replaceable(payload[j]))'
  BY DEF RecoveryIInv, PayloadInv, Settled, Replaceable
<1> QED BY <1>1, <1>2, <1>3, <1>4, <1>5

\* Refusing changes the stage and at most what Trails built.
LEMMA RefuseKeeps ==
  ASSUME RecoveryIInv, stage' = "refused", built' \in Seq(Call), Settled
  PROVE  RecoveryIInv'
<1>1. RecoveryTypeOK'
  BY DEF RecoveryIInv, RecoveryTypeOK, Settled
<1>2. SignedInv'
  BY DEF SignedInv
<1>3. PayloadInv'
  BY SettledKeeps, Zenon DEF PayloadInv
<1> QED BY <1>1, <1>2, <1>3, SettledKeeps, Zenon DEF RecoveryIInv

LEMMA CheckCallKeeps == RecoveryIInv /\ CheckCall => RecoveryIInv'
<1> SUFFICES ASSUME RecoveryIInv, CheckCall PROVE RecoveryIInv'
  OBVIOUS
<1> DEFINE call == payload[next]
<1>1. RecoveryTypeOK /\ AccountIsRight
  BY DEF RecoveryIInv
<1>2. next \in 1 .. Len(payload) /\ Len(payload) \in Nat /\ call \in Call
  BY <1>1 DEF CheckCall, RecoveryTypeOK
<1>3. /\ Charge(call) \in [Assets -> Nat]
      /\ \A asset \in Assets :
           Charge(call)[asset] + Takes(call, asset) <= allowed[asset]
  BY <1>1, <1>2, ChargeCoversTakes DEF CheckCall
<1>4. \A asset \in Assets : Takes(call, asset) \in Nat
  BY <1>2, TakesIsNat
<1> HIDE DEF call
<1>5. /\ next' = next + 1 /\ allowed' = Charge(call)
      /\ moved' = [a \in Assets |-> moved[a] + Takes(call, a)]
      /\ UNCHANGED <<stage, reviewed, envelope, payload, built>>
  BY DEF CheckCall, call
<1>6. RecoveryTypeOK'
  BY <1>1, <1>2, <1>3, <1>4, <1>5 DEF RecoveryTypeOK
<1>7. ASSUME NEW asset \in Assets
      PROVE  /\ moved'[asset] <= reviewed[asset]
             /\ moved'[asset] + allowed'[asset] <= reviewed[asset]
  <2>1. moved'[asset] = moved[asset] + Takes(call, asset)
    BY <1>5
  <2>2. allowed'[asset] + Takes(call, asset) <= allowed[asset]
    BY <1>3, <1>5
  <2>3. moved[asset] + allowed[asset] <= reviewed[asset]
    BY <1>1 DEF AccountIsRight
  <2>4. /\ moved[asset] \in Nat /\ allowed[asset] \in Nat /\ reviewed[asset] \in Nat
        /\ allowed'[asset] \in Nat
    BY <1>1, <1>3, <1>5 DEF RecoveryTypeOK
  <2> QED BY <1>4, <2>1, <2>2, <2>3, <2>4
<1>8. ASSUME NEW j \in 1 .. next' - 1, NEW asset \in Assets,
             Takes(payload[j], asset) > 0
      PROVE  payload[j].to = Owner
  <2>1. CASE j = next
    <3>1. Accepts(call) /\ call = payload[j]
      BY <2>1 DEF CheckCall, call
    <3>2. call.kind \in {"pay", "transfer"}
      BY <3>1, <1>8 DEF Takes
    <3> QED BY <3>1, <3>2 DEF Accepts
  <2>2. CASE j # next
    <3>1. j \in 1 .. next - 1
      BY <1>2, <1>5, <2>2
    <3> QED BY <1>1, <1>8, <3>1 DEF AccountIsRight
  <2> QED BY <2>1, <2>2
<1>9. AccountIsRight'
  BY <1>5, <1>7, <1>8 DEF AccountIsRight
<1>10. SignedInv'
  BY <1>5 DEF CheckCall, Validating, SignedInv
<1>11. AccountIsTotal'
  <2>1. ASSUME NEW asset \in Assets
        PROVE  moved'[asset] = Totals(payload, asset)[next' - 1]
    <3>1. moved[asset] = Totals(payload, asset)[next - 1]
      BY DEF RecoveryIInv, AccountIsTotal
    <3>2. Totals(payload, asset)[next] =
            Totals(payload, asset)[next - 1] + Takes(payload[next], asset)
      BY <1>1, <1>2, TotalsStep DEF RecoveryTypeOK
    <3>3. moved'[asset] = moved[asset] + Takes(payload[next], asset) /\ next' - 1 = next
      BY <1>2, <1>5 DEF call
    <3> QED BY <3>1, <3>2, <3>3
  <2>2. ASSUME \A j \in 1 .. next' - 1 : Plain(payload[j]), NEW asset \in Assets
        PROVE  moved'[asset] + allowed'[asset] = reviewed[asset]
    <3>1. /\ next \in 1 .. next' - 1
          /\ \A j \in 1 .. next - 1 : j \in 1 .. next' - 1
      BY <1>2, <1>5
    <3>2. Plain(payload[next]) /\ \A j \in 1 .. next - 1 : Plain(payload[j])
      BY <2>2, <3>1
    <3>3. moved[asset] + allowed[asset] = reviewed[asset]
      BY <3>2 DEF RecoveryIInv, AccountIsTotal
    <3>4. Charge(call)[asset] + Takes(call, asset) = allowed[asset]
      BY <1>1, <1>2, <3>2, ChargeIsTakes DEF call, CheckCall
    <3>5. moved'[asset] = moved[asset] + Takes(call, asset)
      BY <1>5
    <3>6. /\ moved[asset] \in Nat /\ allowed[asset] \in Nat /\ reviewed[asset] \in Nat
          /\ allowed'[asset] = Charge(call)[asset] /\ Charge(call)[asset] \in Nat
      BY <1>1, <1>3, <1>5 DEF RecoveryTypeOK
    <3> QED BY <1>4, <3>3, <3>4, <3>5, <3>6
  <2>3. payload' = payload /\ reviewed' = reviewed
    BY <1>5
  <2> QED BY <2>1, <2>2, <2>3, Zenon DEF AccountIsTotal
<1>12. PayloadInv'
  <2>1. /\ Replaced' = Replaced
        /\ \A c : Replaceable(c)' = Replaceable(c)
        /\ UNCHANGED <<stage, payload, envelope, reviewed>>
    BY <1>5 DEF Replaced, Replaceable, Refunds, Refund
  <2>2. ASSUME NEW j \in 1 .. next' - 1, payload[j].kind = "sweep"
        PROVE  Replaceable(payload[j])
    <3>1. CASE j = next
      <4>1. Accepts(call) /\ call = payload[j]
        BY <3>1 DEF CheckCall, call
      <4>2. \A asset \in SetOf(Swept(call)) : asset \in Assets /\ allowed[asset] > 0
        BY <1>2, <2>2, <4>1, SweptIsSeq DEF Accepts, SetOf
      <4>3. \A asset \in SetOf(Swept(call)) : reviewed[asset] > 0
        BY <1>1, <4>2 DEF RecoveryTypeOK, AccountIsRight
      <4> QED BY <2>2, <4>1, <4>3 DEF Accepts, Replaceable
    <3>2. CASE j # next
      <4>1. j \in 1 .. next - 1
        BY <1>2, <1>5, <3>2
      <4> QED BY <2>2, <4>1 DEF RecoveryIInv, PayloadInv
    <3> QED BY <3>1, <3>2
  <2>3. /\ stage = "envelope" => payload = envelope
        /\ stage = "authorization" => Replaced
        /\ payload = envelope \/ Replaced
    BY DEF RecoveryIInv, PayloadInv
  <2> QED BY <2>1, <2>2, <2>3, Zenon DEF PayloadInv
<1> QED BY <1>6, <1>9, <1>10, <1>11, <1>12 DEF RecoveryIInv

LEMMA DeriveKeeps == RecoveryIInv /\ Derive => RecoveryIInv'
<1> SUFFICES ASSUME RecoveryIInv, Derive PROVE RecoveryIInv'
  OBVIOUS
<1>1. RecoveryTypeOK
  BY DEF RecoveryIInv
<1>2. payload[1] \in Call
  <2>1. payload \in Seq(Call) /\ Len(payload) = 1
    BY <1>1 DEF Derive, RecoveryTypeOK
  <2>2. 1 \in 1 .. Len(payload)
    BY <2>1
  <2> QED BY <2>1, <2>2, ElementOfSeq
<1>3. payload' \in Seq(Call)
  BY <1>1, <1>2, RefundsAreCalls DEF Derive, RecoveryTypeOK
<1>4. /\ stage' = "authorization" /\ next' = 1
      /\ allowed' = reviewed /\ moved' = Nothing
      /\ UNCHANGED <<reviewed, envelope, built>>
  BY DEF Derive
<1>5. RecoveryTypeOK'
  BY <1>1, <1>3, <1>4 DEF RecoveryTypeOK, Nothing
<1>6. AccountIsRight' /\ AccountIsTotal'
  <2>1. \A asset \in Assets : Totals(payload', asset)[0] = 0
    BY <1>3, TotalsStep
  <2>2. next' - 1 = 0 /\ 1 .. next' - 1 = {}
    BY <1>4
  <2>3. \A asset \in Assets : moved'[asset] = 0 /\ reviewed[asset] \in Nat
    BY <1>1, <1>4 DEF Nothing, RecoveryTypeOK
  <2> QED BY <1>4, <2>1, <2>2, <2>3 DEF AccountIsRight, AccountIsTotal
<1>7. SignedInv'
  BY <1>4 DEF SignedInv
<1>8. Replaced'
  <2>1. payload = envelope /\ Len(payload) = 1 /\ next = 2 /\ Utility(payload)
    BY DEF Derive, Checked, RecoveryIInv, PayloadInv
  <2>2. payload[1].kind = "sweep"
    <3>1. DOMAIN payload = {1}
      BY <1>1, <2>1 DEF RecoveryTypeOK
    <3> QED BY <2>1, <3>1 DEF Utility
  <2>3. 1 \in 1 .. next - 1
    BY <2>1
  <2>4. Replaceable(payload[1])
    BY <2>2, <2>3 DEF RecoveryIInv, PayloadInv
  <2>5. payload' = Refunds(envelope[1])
    BY <2>1 DEF Derive
  <2>6. Refunds(envelope[1])' = Refunds(envelope[1])
    BY <1>4 DEF Refunds, Refund
  <2> QED BY <1>4, <2>1, <2>4, <2>5, <2>6 DEF Replaced, Replaceable
<1>9. PayloadInv'
  BY <1>4, <1>8 DEF PayloadInv
<1> QED BY <1>5, <1>6, <1>7, <1>9 DEF RecoveryIInv

\* Signing looks at nothing new; what it signs goes past the utility contract.
LEMMA AuthorizeKeeps == RecoveryIInv /\ Authorize => RecoveryIInv'
<1> SUFFICES ASSUME RecoveryIInv, Authorize PROVE RecoveryIInv'
  OBVIOUS
<1>1. Settled /\ stage' = "authorized" /\ built' = built
  BY DEF Authorize, Settled
<1>2. RecoveryTypeOK'
  BY <1>1 DEF RecoveryIInv, RecoveryTypeOK, Settled
<1>3. SignedInv'
  BY <1>1 DEF Authorize, Checked, SignedInv, Settled, Utility
<1>4. PayloadInv'
  BY <1>1, SettledKeeps, Zenon DEF PayloadInv
<1> QED BY <1>1, <1>2, <1>3, <1>4, SettledKeeps, Zenon DEF RecoveryIInv

LEMMA PermitKeeps ==
  ASSUME RecoveryIInv, NEW calls \in Seq(Call), Permit(calls)
  PROVE  RecoveryIInv'
<1>1. Settled /\ stage' = "permitted" /\ built' = calls /\ calls = payload
  BY DEF Permit, SameAuthorization, Settled
<1>2. RecoveryTypeOK'
  BY <1>1 DEF RecoveryIInv, RecoveryTypeOK, Settled
<1>3. SignedInv'
  BY <1>1 DEF Permit, RecoveryIInv, SignedInv, Settled, Utility
<1>4. PayloadInv'
  BY <1>1, SettledKeeps, Zenon DEF PayloadInv
<1> QED BY <1>1, <1>2, <1>3, <1>4, SettledKeeps, Zenon DEF RecoveryIInv

LEMMA NextIInv == RecoveryIInv /\ [RecoveryNext]_recoveryVars => RecoveryIInv'
<1> SUFFICES ASSUME RecoveryIInv, [RecoveryNext]_recoveryVars PROVE RecoveryIInv'
  OBVIOUS
<1>1. CASE CheckCall
  BY <1>1, CheckCallKeeps
<1>2. CASE RefuseCall \/ RefuseMixed
  <2>1. Refuse
    BY <1>2 DEF RefuseCall, RefuseMixed
  <2> QED BY <2>1, RefuseKeeps DEF Refuse, Settled, RecoveryIInv, RecoveryTypeOK
<1>3. CASE Authorize
  BY <1>3, AuthorizeKeeps
<1>4. CASE Derive
  BY <1>4, DeriveKeeps
<1>5. ASSUME NEW calls \in Answers, Permit(calls) \/ RefuseBuilt(calls)
      PROVE  RecoveryIInv'
  <2>1. calls \in Seq(Call)
    BY <1>5, EnvelopesAssumption DEF Answers, RecoveryIInv, RecoveryTypeOK
  <2>2. CASE Permit(calls)
    BY <2>1, <2>2, PermitKeeps
  <2>3. CASE RefuseBuilt(calls)
    BY <2>1, <2>3, RefuseKeeps DEF RefuseBuilt, Settled
  <2> QED BY <1>5, <2>2, <2>3
<1>6. CASE UNCHANGED recoveryVars
  <2>1. Settled /\ stage' = stage /\ built' = built
    BY <1>6 DEF recoveryVars, Settled
  <2>2. RecoveryTypeOK' /\ SignedInv'
    BY <2>1 DEF RecoveryIInv, RecoveryTypeOK, SignedInv, Settled, Utility
  <2>3. PayloadInv'
    BY <2>1, SettledKeeps, Zenon DEF RecoveryIInv, PayloadInv, Settled
  <2> QED BY <2>1, <2>2, <2>3, SettledKeeps, Zenon DEF RecoveryIInv
<1> QED BY <1>1, <1>2, <1>3, <1>4, <1>5, <1>6 DEF RecoveryNext

-------------------------------------------------------------------------------
(* Theorems                                                                *)

LEMMA RecoveryInvariance == RecoverySpec => []RecoveryIInv
BY InitIInv, NextIInv, PTL DEF RecoverySpec

\* The state keeps its types; in particular no allowance becomes negative
\* (allowance -= amount, recovery.ts).
THEOREM RecoveryTypeCorrect == RecoverySpec => []RecoveryTypeOK
<1>1. RecoveryIInv => RecoveryTypeOK
  BY DEF RecoveryIInv
<1> QED BY <1>1, RecoveryInvariance, PTL

\* However the calls of an envelope split and order what they take, they take no
\* more than was reviewed, and only the owner receives it (the loop of
\* validateRecoveryPayload).
THEOREM AccountCorrect == RecoverySpec => []AccountIsRight
<1>1. RecoveryIInv => AccountIsRight
  BY DEF RecoveryIInv
<1> QED BY <1>1, RecoveryInvariance, PTL

\* The transaction the wallet may submit is the payload it signed, every call of
\* it was validated, none goes through the utility contract, and whatever any of
\* them takes goes to the owner.
PermittedIsValidated ==
  stage = "permitted" =>
    /\ built = payload /\ next = Len(built) + 1
    /\ ~Utility(built)
    /\ \A asset \in Assets : moved[asset] <= reviewed[asset]
    /\ \A j \in DOMAIN built : \A asset \in Assets :
         Takes(built[j], asset) > 0 => built[j].to = Owner

\* What validateRecoveryTransaction lets through is what validateRecoveryPayload
\* looked at to the end.
THEOREM PermittedCorrect == RecoverySpec => []PermittedIsValidated
<1>1. RecoveryIInv => PermittedIsValidated
  <2> SUFFICES ASSUME RecoveryIInv, stage = "permitted"
               PROVE  /\ built = payload /\ next = Len(built) + 1
                      /\ ~Utility(built)
                      /\ \A asset \in Assets : moved[asset] <= reviewed[asset]
                      /\ \A j \in DOMAIN built : \A asset \in Assets :
                           Takes(built[j], asset) > 0 => built[j].to = Owner
    BY DEF PermittedIsValidated
  <2>1. built = payload /\ next = Len(payload) + 1 /\ ~Utility(payload)
    BY DEF RecoveryIInv, SignedInv
  <2>2. payload \in Seq(Call)
    BY DEF RecoveryIInv, RecoveryTypeOK
  <2>3. DOMAIN built = 1 .. next - 1
    BY <2>1, <2>2
  <2> QED BY <2>1, <2>3 DEF RecoveryIInv, AccountIsRight
<1> QED BY <1>1, RecoveryInvariance, PTL

\* The account at the end of a validation is the total of the payload.
LEMMA AccountAtEnd ==
  ASSUME RecoveryIInv, next = Len(payload) + 1, NEW asset \in Assets
  PROVE  moved[asset] = Total(payload, asset)
<1>1. next - 1 = Len(payload)
  BY DEF RecoveryIInv, RecoveryTypeOK
<1> QED BY <1>1 DEF RecoveryIInv, AccountIsTotal, Total

LEMMA WithinReview == RecoveryIInv => NeverMoreThanReviewed
<1> SUFFICES ASSUME RecoveryIInv, stage = "permitted"
             PROVE  /\ \A asset \in Assets : Total(built, asset) <= reviewed[asset]
                    /\ \A j \in DOMAIN built : \A asset \in Assets :
                         Takes(built[j], asset) > 0 => built[j].to = Owner
  BY DEF NeverMoreThanReviewed
<1>1. built = payload /\ next = Len(payload) + 1 /\ payload \in Seq(Call)
  BY DEF RecoveryIInv, SignedInv, RecoveryTypeOK
<1>2. \A asset \in Assets : Total(built, asset) <= reviewed[asset]
  BY <1>1, AccountAtEnd DEF RecoveryIInv, AccountIsRight
<1>3. DOMAIN built = 1 .. next - 1
  BY <1>1
<1> QED BY <1>1, <1>2, <1>3 DEF RecoveryIInv, AccountIsRight

\* The transaction that may be submitted takes of no asset more, all its calls
\* together, than was reviewed, although the validator only ever compares one
\* call with a balance it keeps (validateRecoveryPayload, validateRecoveryTransaction).
THEOREM NeverMoreThanReviewedCorrect == RecoverySpec => []NeverMoreThanReviewed
BY WithinReview, RecoveryInvariance, PTL

\* The calls that replace an accepted sweep take the reviewed balance of each
\* asset it names.
LEMMA ReplacedTotal ==
  ASSUME RecoveryIInv, Replaced, NEW asset \in Assets
  PROVE  /\ asset \in SetOf(Swept(envelope[1])) => Total(payload, asset) = reviewed[asset]
         /\ Total(payload, asset) <= reviewed[asset]
<1> DEFINE names == Swept(envelope[1])
<1>1. envelope[1] \in Call
  <2>1. envelope \in Seq(Call) /\ Len(envelope) = 1 /\ 1 \in 1 .. 1
    BY DEF RecoveryIInv, RecoveryTypeOK, Replaced
  <2> QED BY <2>1, ElementOfSeq
<1>2. reviewed \in [Assets -> Nat] /\ reviewed[asset] \in Nat
  BY DEF RecoveryIInv, RecoveryTypeOK
<1>3. /\ payload = Refunds(envelope[1]) /\ payload \in Seq(Call)
      /\ Cardinality(SetOf(names)) = Len(names)
  BY DEF Replaced, Replaceable, RecoveryIInv, RecoveryTypeOK
<1>4. Len(payload) = Len(names) /\ Len(payload) \in Nat /\ DOMAIN names = 1 .. Len(payload)
  <2>1. names \in Seq(Assets) /\ DOMAIN names = 1 .. Len(names) /\ Len(names) \in Nat
    BY <1>1, SweptIsSeq
  <2>2. DOMAIN payload = DOMAIN names
    BY <1>3 DEF Refunds
  <2>3. DOMAIN payload = 1 .. Len(payload) /\ Len(payload) \in Nat
    BY <1>3
  <2> QED BY <2>1, <2>2, <2>3
<1>5. Total(payload, asset) =
        IF \E j \in 1 .. Len(payload) : names[j] = asset THEN reviewed[asset] ELSE 0
  BY <1>1, <1>2, <1>3, <1>4, RefundsTotal DEF Total
<1>6. asset \in SetOf(names) => \E j \in 1 .. Len(payload) : names[j] = asset
  BY <1>4 DEF SetOf
<1> HIDE DEF names
<1>7. /\ asset \in SetOf(names) => Total(payload, asset) = reviewed[asset]
      /\ Total(payload, asset) <= reviewed[asset]
  BY <1>2, <1>5, <1>6
<1> QED BY <1>7 DEF names

LEMMA SignedRefunds == RecoveryIInv => SweepIsRefunded
<1> SUFFICES ASSUME RecoveryIInv, stage \in {"authorized", "permitted"}
             PROVE  /\ ~Utility(payload)
                    /\ Utility(envelope) => \A asset \in SetOf(Swept(envelope[1])) :
                         Total(payload, asset) = reviewed[asset]
  BY DEF SweepIsRefunded
<1>1. ~Utility(payload)
  BY DEF RecoveryIInv, SignedInv
<1>2. ASSUME Utility(envelope), NEW asset \in SetOf(Swept(envelope[1]))
      PROVE  Total(payload, asset) = reviewed[asset]
  <2>1. Replaced
    BY <1>1, <1>2 DEF RecoveryIInv, PayloadInv
  <2>2. envelope[1] \in Call
    <3>1. envelope \in Seq(Call) /\ Len(envelope) = 1 /\ 1 \in 1 .. 1
      BY <2>1 DEF RecoveryIInv, RecoveryTypeOK, Replaced
    <3> QED BY <3>1, ElementOfSeq
  <2>3. asset \in Assets
    BY <1>2, <2>2, SweptIsSeq DEF SetOf
  <2> QED BY <1>2, <2>1, <2>3, ReplacedTotal
<1> QED BY <1>1, <1>2

\* What is signed in place of a sweep takes exactly the reviewed balance of every
\* asset the sweep names, and never goes through the utility contract
\* (recoveryAuthorization).
THEOREM SweepIsRefundedCorrect == RecoverySpec => []SweepIsRefunded
BY SignedRefunds, RecoveryInvariance, PTL

-------------------------------------------------------------------------------
(* What the validator does not refuse                                      *)

\* A payload of direct refunds to the owner that is within the review passes,
\* call after call.
LEMMA RefundAccepted ==
  ASSUME RecoveryIInv, next \in 1 .. Len(payload),
         \A j \in DOMAIN payload : /\ Plain(payload[j]) /\ payload[j].to = Owner
                                   /\ payload[j].amount > 0,
         \A asset \in Assets : Total(payload, asset) <= reviewed[asset]
  PROVE  Accepts(payload[next])
<1> DEFINE call == payload[next]
           asset == call.asset
           t == Totals(payload, asset)
<1>1. RecoveryTypeOK /\ payload \in Seq(Call) /\ DOMAIN payload = 1 .. Len(payload)
  BY DEF RecoveryIInv, RecoveryTypeOK
<1>2. Len(payload) \in Nat /\ next \in Nat /\ next - 1 \in 0 .. Len(payload)
  BY <1>1
<1>3. call \in Call /\ asset \in Assets /\ call.amount \in Nat
  BY <1>1, <1>2 DEF Call
<1>4. Plain(call) /\ call.to = Owner /\ call.amount > 0
  BY <1>1
<1>5. Takes(call, asset) = call.amount
  BY <1>4 DEF Takes, Plain
<1>6. t[next] = t[next - 1] + call.amount
  BY <1>1, <1>3, <1>5, TotalsStep
<1>7. t[next] <= reviewed[asset]
  <2>1. t[next] <= t[Len(payload)] /\ t[Len(payload)] <= reviewed[asset]
        /\ t[next] \in Nat /\ t[Len(payload)] \in Nat
    BY <1>1, <1>2, <1>3, TotalsGrow DEF Total
  <2>2. reviewed[asset] \in Nat
    BY <1>1, <1>3 DEF RecoveryTypeOK
  <2> HIDE DEF t, asset
  <2> QED BY <2>1, <2>2
<1>8. moved[asset] = t[next - 1] /\ moved[asset] + allowed[asset] = reviewed[asset]
  <2>1. \A j \in 1 .. next - 1 : Plain(payload[j])
    BY <1>1, <1>2
  <2> QED BY <1>3, <2>1 DEF RecoveryIInv, AccountIsTotal
<1>9. moved[asset] \in Nat /\ allowed[asset] \in Nat /\ reviewed[asset] \in Nat
  BY <1>1, <1>3 DEF RecoveryTypeOK
<1>10. call.amount <= allowed[asset]
  <2> HIDE DEF t, asset, call
  <2> QED BY <1>3, <1>6, <1>7, <1>8, <1>9
<1>11. call.kind = "pay" => asset = Native
  BY <1>3 DEF Call
<1> QED BY <1>4, <1>10, <1>11 DEF Plain, Accepts

\* An envelope of direct refunds within the review is never refused by the
\* validator, in whatever order and however often it names an asset.
DirectNeverRefused ==
  [][DirectWithinReview => ~RefuseCall /\ ~RefuseMixed]_recoveryVars

\* The safety half of RefundsAreAccepted: what the loop of validateRecoveryPayload
\* keeps of the reviewed balances suffices for every call that follows.
THEOREM DirectNeverRefusedCorrect == RecoverySpec => DirectNeverRefused
<1>1. RecoveryIInv /\ DirectWithinReview => ~RefuseCall /\ ~RefuseMixed
  <2> SUFFICES ASSUME RecoveryIInv, DirectWithinReview
               PROVE  ~RefuseCall /\ ~RefuseMixed
    OBVIOUS
  <2>1. envelope \in Seq(Call) /\ Len(envelope) \in 1 .. MaxCalls
        /\ DOMAIN envelope = 1 .. Len(envelope)
    BY DEF RecoveryIInv, RecoveryTypeOK, DirectWithinReview
  <2>2. \A j \in DOMAIN envelope : /\ Plain(envelope[j]) /\ envelope[j].to = Owner
                                   /\ envelope[j].amount > 0
    BY DEF DirectWithinReview, Plain
  <2>3. ~Replaced
    <3>1. 1 \in DOMAIN envelope
      BY <2>1, MaxCallsAssumption
    <3>2. envelope[1].kind # "sweep"
      BY <2>2, <3>1 DEF Plain
    <3> QED BY <3>2 DEF Replaced, Replaceable
  <2>4. payload = envelope
    BY <2>3 DEF RecoveryIInv, PayloadInv
  <2>5. next \in 1 .. Len(payload) => Accepts(payload[next])
    BY <2>2, <2>4, RefundAccepted DEF DirectWithinReview
  <2>6. next \in 1 .. Len(payload) + 1
    BY DEF RecoveryIInv, RecoveryTypeOK
  <2>7. ~RefuseCall
    BY <2>1, <2>4, <2>5, <2>6, MaxCallsAssumption DEF RefuseCall
  <2>8. ~RefuseMixed
    BY <2>2, <2>4 DEF RefuseMixed, Utility, Plain
  <2> QED BY <2>7, <2>8
<1> QED BY <1>1, RecoveryInvariance, PTL DEF RecoverySpec, DirectNeverRefused

\* The refunds that replace a sweep pass the second validation, unless they are
\* more calls than a payload may have.
SweepNeverRefusedTwice ==
  [][stage = "authorization" /\ RefuseCall => Len(payload) > MaxCalls]_recoveryVars

\* What recoveryAuthorization builds out of an accepted sweep is acceptable to the
\* validator it hands it to.
THEOREM SweepNeverRefusedTwiceCorrect == RecoverySpec => SweepNeverRefusedTwice
<1>1. RecoveryIInv => (stage = "authorization" /\ RefuseCall => Len(payload) > MaxCalls)
  <2> SUFFICES ASSUME RecoveryIInv, stage = "authorization", RefuseCall
               PROVE  Len(payload) > MaxCalls
    OBVIOUS
  <2> DEFINE names == Swept(envelope[1])
  <2>1. Replaced /\ RecoveryTypeOK /\ payload \in Seq(Call)
    BY DEF RecoveryIInv, PayloadInv, RecoveryTypeOK
  <2>2. envelope[1] \in Call
    <3>1. envelope \in Seq(Call) /\ Len(envelope) = 1 /\ 1 \in 1 .. 1
      BY <2>1 DEF RecoveryTypeOK, Replaced
    <3> QED BY <3>1, ElementOfSeq
  <2>3. names \in Seq(Assets) /\ names # <<>> /\ DOMAIN payload = DOMAIN names
    BY <2>1, <2>2, SweptIsSeq DEF Replaced, Replaceable, Refunds
  <2>4. \A j \in DOMAIN payload : /\ payload[j] = Refund(names[j])
                                  /\ names[j] \in Assets /\ reviewed[names[j]] > 0
    BY <2>1, <2>3 DEF Replaced, Replaceable, Refunds, SetOf
  <2>5. \A j \in DOMAIN payload : /\ Plain(payload[j]) /\ payload[j].to = Owner
                                  /\ payload[j].amount > 0
    BY <2>4 DEF Refund, Pay, Send, Plain
  <2>6. \A asset \in Assets : Total(payload, asset) <= reviewed[asset]
    BY <2>1, ReplacedTotal
  <2>7. next \in 1 .. Len(payload) => Accepts(payload[next])
    BY <2>5, <2>6, RefundAccepted
  <2>8. Len(payload) # 0
    <3>1. payload # <<>>
      BY <2>3
    <3> QED BY <2>1, <3>1, EmptySeq
  <2>9. next \in 1 .. Len(payload) + 1
    BY <2>1 DEF RecoveryTypeOK
  <2> QED BY <2>7, <2>8, <2>9 DEF RefuseCall
<1> QED BY <1>1, RecoveryInvariance, PTL DEF RecoverySpec, SweepNeverRefusedTwice
===============================================================================
