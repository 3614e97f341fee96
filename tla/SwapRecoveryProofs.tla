--------------------------- MODULE SwapRecoveryProofs ---------------------------
(***************************************************************************)
(* Theorems about the recovery of a swap, for every set of recoveries and  *)
(* transfers on any chains.                                                *)
(*                                                                         *)
(* As in SwapFundingProofs, a record, its copy in a job and the journal    *)
(* move apart.  RecordOK says what a record may claim, given the journal   *)
(* and the debits: that the active recovery is the only one of which       *)
(* something may be out, and what the others came to.  AloneInv says what  *)
(* the active recovery may rely on: nothing else is out on its chain.      *)
(* JobInv says where a job can stand, and StepInv what it relies on there  *)
(* without looking again.                                                  *)
(*                                                                         *)
(* Under the same invariant every step is one of SubmitOnce or a stutter,  *)
(* and one of SwapContract or a stutter.                                   *)
(***************************************************************************)
EXTENDS SwapRecovery, TLAPS

\* The journal lags behind the debit, and never leads.
DebitOK(status, d) ==
  /\ status \in {"absent", "preparing"} => d = "none"
  /\ status = "quoted" => d \in {"quoted", "failed"}
  /\ status = "failed" => d \in {"none", "failed"}
  /\ status = "executed" => d \in {"success", "reverted"}

DebitInv == \A k \in Debits : DebitOK(journal[k], debit[k])

\* Stages of a recovery that was confirmed and did not end.
Underway == {"confirmed", "deploying", "signing", "submitting", "pending"}

\* What a record may say of recovery q.
StatusOK(r, q, jrn, dbt) ==
  /\ r.active = q <=> r.status[q] \in Underway
  /\ r.status[q] \in {"none", "quoted"} =>
       jrn[Deployment(q)] = "absent" /\ jrn[Recovery(q)] = "absent"
  /\ r.status[q] \in {"recovered", "partial"} => dbt[Recovery(q)] = "success"
  /\ r.status[q] = "failed" => dbt[Recovery(q)] \notin {"flying", "pending", "success"}
  /\ jrn[Recovery(q)] \in Uncertain => r.active = q
  /\ jrn[Deployment(q)] = "submitting" =>
       r.active = q /\ r.action \in {"deploy-owner", "sign-recovery"}
  /\ r.active = q /\ jrn[Recovery(q)] # "absent" =>
       r.action \in {"build-recovery", "submit-recovery", "observe-recovery"}

RecordOK(r, jrn, dbt) ==
  /\ r.active = None <=> r.action \notin Recovering
  /\ \A q \in Recoveries : StatusOK(r, q, jrn, dbt)

\* The record the running job took, and its copy.
CopyInv ==
  /\ work.active = swap.active /\ work.status = swap.status
  /\ \/ work.action = swap.action
     \/ work.action = "observe-recovery" /\ swap.action \in Recovering
  /\ at = "idle" => work = swap /\ current = None

\* Where a job about the active recovery stands, for each debit it can be about.
DeploySteps == {"deploy-owner", "deploying", "deployed"}
JobInv ==
  /\ at = "fund" => work.action = "fund" /\ current = Funding
  /\ at = "observe" => work.action = "observe" /\ current = None
  /\ at \in DeploySteps =>
       work.action = "deploy-owner" /\ current = Deployment(work.active)
  /\ at \in {"sign-recovery", "signing", "signed"} =>
       work.action = "sign-recovery" /\ current = Recovery(work.active)
  /\ at \in {"build-recovery", "preparing"} =>
       work.action = "build-recovery" /\ current = Recovery(work.active)
  /\ at \in {"submit-recovery", "observe-recovery"} =>
       work.action = at /\ current = Recovery(work.active)
  /\ at = "quoting" =>
       \/ work.action = "deploy-owner" /\ current = Deployment(work.active)
       \/ work.action = "build-recovery" /\ current = Recovery(work.active)
  /\ at = "sending" =>
       \/ work.action = "deploy-owner" /\ current = Deployment(work.active)
       \/ work.action = "submit-recovery" /\ current = Recovery(work.active)
  /\ at = "executing" =>
       \/ work.action = "fund" /\ current = Funding
       \/ work.action = "deploy-owner" /\ current = Deployment(work.active)
       \/ work.action = "submit-recovery" /\ current = Recovery(work.active)
       \/ current \in {Transfer(t) : t \in Transfers}

\* What a step relies on without looking at it again.
Resting == {"idle", "executing"}
StepInv ==
  /\ at \in {"deploying", "signing", "signed", "preparing", "quoting", "sending"}
       => ~disabled
  /\ at = "quoting" => journal[current] = "preparing"
  /\ at = "executing" => journal[current] = "submitting"
  /\ at \notin Resting /\ ~disabled /\ work.active # None =>
       journal[Deployment(work.active)] # "submitting"
  /\ \/ at \notin Resting \cup {"observe-recovery"} /\ work.active # None
     \/ at = "executing" /\ current = Deployment(work.active)
     => journal[Recovery(work.active)] \notin Uncertain \cup {"executed"}

\* Beside the active recovery nothing of its chain is out, nor is the funding.
Own(r) == {Deployment(r), Recovery(r)}
AloneInv ==
  swap.active # None =>
    \A k \in Debits \ Own(swap.active) :
      k = Funding \/ ChainOf(k) = Chain(swap.active) => journal[k] \notin Uncertain

\* OneRecoveryPerChain, told by the journal alone.
OneOutInv ==
  \A k, l \in Debits :
    ChainOf(k) = ChainOf(l) /\ journal[k] \in Uncertain /\ journal[l] \in Uncertain
      => k = l \/ Partners(k, l)

IInv == /\ TypeOK
        /\ DebitInv
        /\ RecordOK(swap, journal, debit)
        /\ RecordOK(work, journal, debit)
        /\ CopyInv /\ JobInv /\ StepInv /\ AloneInv /\ OneOutInv

-------------------------------------------------------------------------------
(* Names                                                                   *)

\* A debit has one name, and belongs to one chain.
LEMMA Names ==
  /\ Funding \in Debits /\ ChainOf(Funding) = Origin
  /\ \A r \in Recoveries :
       /\ Deployment(r) \in Debits /\ Recovery(r) \in Debits
       /\ ChainOf(Deployment(r)) = Chain(r) /\ ChainOf(Recovery(r)) = Chain(r)
       /\ Deployment(r) # Funding /\ Recovery(r) # Funding
       /\ \A q \in Recoveries : /\ Deployment(r) # Recovery(q)
                                /\ Deployment(r) = Deployment(q) => r = q
                                /\ Recovery(r) = Recovery(q) => r = q
  /\ \A t \in Transfers :
       /\ Transfer(t) \in Debits /\ ChainOf(Transfer(t)) = Chain(t)
       /\ Transfer(t) # Funding
       /\ \A r \in Recoveries : Transfer(t) # Deployment(r) /\ Transfer(t) # Recovery(r)
BY DEF Debits, ChainOf, Funding, Deployment, Recovery, Transfer

-------------------------------------------------------------------------------
(* Records                                                                 *)

\* What becomes of a record when its stage, or where it stands, changes.
LEMMA StagedTyped ==
  ASSUME NEW r \in Records, NEW q \in Recoveries, NEW s \in Stages
  PROVE  LET w == WithStatus(r, q, s)
         IN  /\ w \in Records /\ w.active = r.active /\ w.action = r.action
             /\ w.status[q] = s
             /\ \A p \in Recoveries \ {q} : w.status[p] = r.status[p]
BY DEF WithStatus, Records

LEMMA MovedTyped ==
  ASSUME NEW r \in Records, NEW x \in Recoveries \cup {None}, NEW p \in Phases,
         NEW a \in Actions
  PROVE  /\ LET m == [r EXCEPT !.active = x, !.phase = p, !.action = a]
            IN  m \in Records /\ m.active = x /\ m.action = a /\ m.status = r.status
         /\ LET m == [r EXCEPT !.action = a]
            IN  m \in Records /\ m.active = r.active /\ m.action = a /\ m.status = r.status
         /\ LET m == [r EXCEPT !.phase = p]
            IN  /\ m \in Records /\ m.active = r.active /\ m.action = r.action
                /\ m.status = r.status
         /\ LET m == [r EXCEPT !.phase = p, !.action = a]
            IN  m \in Records /\ m.active = r.active /\ m.action = a /\ m.status = r.status
         /\ LET m == [r EXCEPT !.fundingConfirmed = TRUE, !.phase = p, !.action = a]
            IN  m \in Records /\ m.active = r.active /\ m.action = a /\ m.status = r.status
BY DEF Records

LEMMA FundingTyped ==
  ASSUME NEW r \in Records, NEW f \in Statuses
  PROVE  LET m == [r EXCEPT !.funding = f]
         IN  /\ m \in Records /\ m.active = r.active /\ m.action = r.action
             /\ m.status = r.status
BY DEF Records

LEMMA RefundingTyped ==
  ASSUME TypeOK, NEW r \in Records
  PROVE  /\ Refunding(r) \in Records /\ Refunding(r).active = r.active
         /\ Refunding(r).action = r.action /\ Refunding(r).status = r.status
<1>1. journal[Funding] \in Statuses
  BY Names DEF TypeOK
<1> QED BY <1>1, FundingTyped DEF Refunding

-------------------------------------------------------------------------------
(* What a record may say                                                   *)

\* What is said of a recovery stays so when the journal and the debits go on
\* without beginning anything of it.
Later(jrn, dbt, jrn2, dbt2) ==
  \A q \in Recoveries :
    /\ jrn2[Recovery(q)] \in Uncertain => jrn[Recovery(q)] \in Uncertain
    /\ jrn[Recovery(q)] = "absent" => jrn2[Recovery(q)] = "absent"
    /\ jrn2[Deployment(q)] = "submitting" => jrn[Deployment(q)] = "submitting"
    /\ jrn[Deployment(q)] = "absent" => jrn2[Deployment(q)] = "absent"
    /\ dbt[Recovery(q)] = "success" => dbt2[Recovery(q)] = "success"
    /\ dbt2[Recovery(q)] \in {"flying", "pending", "success"} =>
         dbt[Recovery(q)] \in {"flying", "pending", "success"}

LEMMA LaterOK ==
  ASSUME NEW r, NEW j, NEW d, NEW j2, NEW d2, RecordOK(r, j, d), Later(j, d, j2, d2)
  PROVE  RecordOK(r, j2, d2)
BY DEF RecordOK, StatusOK, Later

\* Only three fields of a record matter.
LEMMA SameOK ==
  ASSUME NEW r, NEW m, NEW j, NEW d, RecordOK(r, j, d),
         m.active = r.active, m.status = r.status, m.action = r.action
  PROVE  RecordOK(m, j, d)
BY DEF RecordOK, StatusOK

\* Without an active recovery, what the funding does changes nothing.
LEMMA InactiveOK ==
  ASSUME NEW r, NEW m, NEW j, NEW d, RecordOK(r, j, d), r.active = None,
         m.active = None, m.status = r.status, m.action \notin Recovering
  PROVE  RecordOK(m, j, d)
BY NamesAssumption DEF RecordOK, StatusOK

\* The active recovery goes on to another stage, or to another step.
LEMMA StagedOK ==
  ASSUME NEW r \in Records, NEW j, NEW d, RecordOK(r, j, d), r.active # None,
         NEW s \in Underway
  PROVE  /\ WithStatus(r, r.active, s) \in Records
         /\ RecordOK(WithStatus(r, r.active, s), j, d)
         /\ WithStatus(r, r.active, s).active = r.active
         /\ WithStatus(r, r.active, s).action = r.action
<1>1. r.active \in Recoveries
  BY DEF Records
<1>2. s \in Stages
  BY DEF Underway, Stages
<1> DEFINE w == WithStatus(r, r.active, s)
<1>3. /\ w \in Records /\ w.active = r.active /\ w.action = r.action
      /\ w.status[r.active] = s
      /\ \A p \in Recoveries \ {r.active} : w.status[p] = r.status[p]
  BY <1>1, <1>2, StagedTyped
<1> HIDE DEF w
<1>4. RecordOK(w, j, d)
  <2>1. w.active = None <=> w.action \notin Recovering
    BY <1>3 DEF RecordOK
  <2>2. ASSUME NEW q \in Recoveries PROVE StatusOK(w, q, j, d)
    <3>1. StatusOK(r, q, j, d)
      BY DEF RecordOK
    <3>2. CASE q = r.active
      BY <1>1, <1>3, <3>1, <3>2 DEF StatusOK, Underway
    <3>3. CASE q # r.active
      BY <1>1, <1>3, <3>1, <3>3 DEF StatusOK
    <3> QED BY <3>2, <3>3
  <2> QED BY <2>1, <2>2 DEF RecordOK
<1> QED BY <1>3, <1>4 DEF w

LEMMA SteppedOK ==
  ASSUME NEW r, NEW m, NEW j, NEW d, RecordOK(r, j, d), r.active # None,
         m.active = r.active, m.status = r.status, m.action \in Recovering,
         j[Deployment(r.active)] = "submitting" =>
           m.action \in {"deploy-owner", "sign-recovery"},
         j[Recovery(r.active)] # "absent" =>
           m.action \in {"build-recovery", "submit-recovery", "observe-recovery"}
  PROVE  RecordOK(m, j, d)
BY DEF RecordOK, StatusOK

\* The active recovery ends, with nothing of it out and its outcome true.
LEMMA EndWithOK ==
  ASSUME NEW r \in Records, NEW j, NEW d, RecordOK(r, j, d), r.active # None,
         NEW stage \in {"recovered", "partial", "failed"}, NEW p \in Phases,
         NEW a \in {"none", "observe"},
         j[Recovery(r.active)] \notin Uncertain,
         j[Deployment(r.active)] # "submitting",
         IF stage = "failed" THEN d[Recovery(r.active)] \notin {"flying", "pending", "success"}
                             ELSE d[Recovery(r.active)] = "success"
  PROVE  LET e == EndWith(r, stage, p, a)
         IN  e \in Records /\ e.active = None /\ RecordOK(e, j, d)
<1> DEFINE w == WithStatus(r, r.active, stage)
           e == EndWith(r, stage, p, a)
<1>1. r.active \in Recoveries /\ stage \in Stages /\ a \in Actions /\ a \notin Recovering
  BY DEF Records, Stages, Actions, Recovering
<1>2. /\ w \in Records
      /\ w.status[r.active] = stage
      /\ \A q \in Recoveries \ {r.active} : w.status[q] = r.status[q]
  BY <1>1, StagedTyped
<1>3. e = [w EXCEPT !.active = None, !.phase = p, !.action = a]
  BY DEF EndWith
<1> HIDE DEF w, e
<1>4. e \in Records /\ e.active = None /\ e.action = a /\ e.status = w.status
  <2>1. e.active = None /\ e.action = a /\ e.status = w.status
    BY <1>2, <1>3 DEF Records
  <2>2. e \in Records
    BY <1>1, <1>2, <1>3 DEF Records
  <2> QED BY <2>1, <2>2
<1>5. ASSUME NEW q \in Recoveries PROVE StatusOK(e, q, j, d)
  <2>1. StatusOK(r, q, j, d) /\ q # None
    BY NamesAssumption DEF RecordOK
  <2>2. CASE q = r.active
    BY <1>1, <1>2, <1>4, <2>1, <2>2 DEF StatusOK, Underway
  <2>3. CASE q # r.active
    BY <1>1, <1>2, <1>4, <2>1, <2>3 DEF StatusOK
  <2> QED BY <2>2, <2>3
<1>6. RecordOK(e, j, d)
  BY <1>1, <1>4, <1>5 DEF RecordOK
<1> QED BY <1>4, <1>6 DEF e

\* An error that rules the recovery out ends it, unless something of it was out
\* when the error was met.
LEMMA EndedOK ==
  ASSUME NEW r \in Records, NEW j0, NEW j, NEW d, RecordOK(r, j, d),
         r.active # None =>
           /\ \A k \in Own(r.active) : j[k] \in Uncertain => j0[k] \in Uncertain
           /\ DebitOK(j[Recovery(r.active)], d[Recovery(r.active)])
           /\ j[Recovery(r.active)] \in Statuses
           /\ j[Recovery(r.active)] = "executed" => d[Recovery(r.active)] # "success"
  PROVE  /\ Ended(r, j0) \in Records /\ RecordOK(Ended(r, j0), j, d)
         /\ Ended(r, j0).active \in {r.active, None}
<1>1. CASE /\ r.active # None
           /\ j0[Recovery(r.active)] \notin Uncertain
           /\ j0[Deployment(r.active)] \notin Uncertain
  <2>1. /\ j[Recovery(r.active)] \notin Uncertain
        /\ j[Deployment(r.active)] # "submitting"
    BY <1>1 DEF Own, Uncertain
  <2>2. d[Recovery(r.active)] \notin {"flying", "pending", "success"}
    BY <1>1, <2>1 DEF DebitOK, Statuses, Uncertain
  <2>3. Ended(r, j0) = EndWith(r, "failed", "attention", "observe")
    BY <1>1 DEF Ended, EndWith
  <2> QED BY <1>1, <2>1, <2>2, <2>3, EndWithOK DEF Phases
<1>2. CASE ~(/\ r.active # None
             /\ j0[Recovery(r.active)] \notin Uncertain
             /\ j0[Deployment(r.active)] \notin Uncertain)
  BY <1>2 DEF Ended
<1> QED BY <1>1, <1>2

-------------------------------------------------------------------------------
(* Steps in which nothing goes out                                         *)

Others == <<signing, disabled, open, intent, holds, code>>

\* Nothing becomes uncertain and nothing of a recovery begins.
Quieter == \A k \in Debits : journal'[k] \in Uncertain => journal[k] \in Uncertain
Soft == /\ journal' \in [Debits -> Statuses]
        /\ debit' \in [Debits -> {"none", "quoted", "flying", "pending", "success",
                                   "reverted", "failed"}]
        /\ DebitInv' /\ Quieter /\ Later(journal, debit, journal', debit')

LEMMA SoftStill ==
  ASSUME IInv, UNCHANGED <<journal, debit>>
  PROVE  Soft
<1>1. DebitInv'
  BY DEF IInv, DebitInv
<1>2. Quieter /\ Later(journal, debit, journal', debit')
  BY DEF Quieter, Later
<1> QED BY <1>1, <1>2 DEF Soft, IInv, TypeOK

LEMMA SoftJournal ==
  ASSUME IInv, NEW k \in Debits, NEW s \in Statuses,
         journal' = [journal EXCEPT ![k] = s], UNCHANGED debit,
         DebitOK(s, debit[k]),
         s \in Uncertain => journal[k] \in Uncertain,
         s = "submitting" => journal[k] = "submitting",
         journal[k] = "absent" => s = "absent"
  PROVE  Soft
<1>1. journal \in [Debits -> Statuses]
  BY DEF IInv, TypeOK
<1>2. DebitInv'
  <2> SUFFICES ASSUME NEW l \in Debits PROVE DebitOK(journal'[l], debit[l])
    BY DEF DebitInv
  <2> QED BY <1>1 DEF IInv, DebitInv
<1>3. Quieter
  BY <1>1 DEF Quieter
<1>4. Later(journal, debit, journal', debit')
  BY <1>1, Names DEF Later
<1> QED BY <1>1, <1>2, <1>3, <1>4 DEF Soft, IInv, TypeOK

\* What a poll makes of the journal.
LEMMA WaasOK ==
  ASSUME IInv, NEW k \in Debits, journal[k] \in Uncertain
  PROVE  WaasStatus(k) \in Statuses \ {"submitting"} /\ DebitOK(WaasStatus(k), debit[k])
BY DEF WaasStatus, Statuses, DebitOK

LEMMA PolledOK ==
  ASSUME IInv, NEW k \in Debits
  PROVE  /\ Polled(k) \in Statuses /\ DebitOK(Polled(k), debit[k])
         /\ Polled(k) \in Uncertain => journal[k] \in Uncertain
         /\ Polled(k) = "submitting" => journal[k] = "submitting" /\ disabled
         /\ journal[k] = "absent" => Polled(k) = "absent"
         /\ journal[k] \notin Uncertain => Polled(k) = journal[k]
<1>1. journal[k] \in Statuses /\ DebitOK(journal[k], debit[k]) /\ disabled \in BOOLEAN
  BY DEF IInv, TypeOK, DebitInv
<1>2. CASE journal[k] \in Uncertain /\ ~disabled
  BY <1>2, WaasOK DEF Polled, Uncertain
<1>3. CASE ~(journal[k] \in Uncertain /\ ~disabled)
  BY <1>1, <1>3 DEF Polled, Uncertain
<1> QED BY <1>2, <1>3

LEMMA KeptIInv ==
  ASSUME IInv, Soft, UNCHANGED Others,
         swap' \in Records, work' \in Records, swap'.active \in {swap.active, None},
         RecordOK(swap', journal', debit'), RecordOK(work', journal', debit'),
         CopyInv', JobInv', StepInv', at' \in Steps, current' \in Debits \cup {None}
  PROVE  IInv'
<1>1. TypeOK'
  BY DEF IInv, TypeOK, Soft, Others
<1>2. AloneInv'
  BY DEF IInv, AloneInv, Soft, Quieter
<1>3. OneOutInv'
  BY DEF IInv, OneOutInv, Soft, Quieter
<1> QED BY <1>1, <1>2, <1>3 DEF IInv, Soft

LEMMA RestIInv ==
  ASSUME IInv, Soft, UNCHANGED Others,
         swap' \in Records, swap'.active \in {swap.active, None},
         RecordOK(swap', journal', debit'), Rest(swap')
  PROVE  IInv'
<1>1. work' = swap' /\ at' = "idle" /\ current' = None
  BY DEF Rest
<1>2. CopyInv' /\ JobInv' /\ StepInv'
  BY <1>1 DEF CopyInv, JobInv, StepInv, Resting, DeploySteps
<1> QED BY <1>1, <1>2, KeptIInv DEF Steps

\* The job rests on a record that says of its recovery what its copy said.
LEMMA RestKept ==
  ASSUME IInv, Soft, UNCHANGED Others, NEW r \in Records, SaveAndRest(r),
         r.active = work.active, r.status = work.status, r.action = work.action
  PROVE  IInv'
<1>1. RecordOK(r, journal', debit')
  BY LaterOK, SameOK DEF IInv, Soft
<1> QED BY <1>1, RestIInv DEF IInv, CopyInv, SaveAndRest, Save, Rest

\* It rests on one that works without a recovery.
LEMMA RestInactive ==
  ASSUME IInv, Soft, UNCHANGED Others, NEW r \in Records, SaveAndRest(r),
         work.active = None, r.active = None, r.status = work.status,
         r.action \notin Recovering
  PROVE  IInv'
<1>1. RecordOK(r, journal', debit')
  BY LaterOK, InactiveOK DEF IInv, Soft
<1> QED BY <1>1, RestIInv DEF SaveAndRest, Save, Rest

\* It rests after an error.
LEMMA RestEnded ==
  ASSUME IInv, Soft, UNCHANGED Others, NEW j0, SaveAndRest(Ended(work, j0)),
         \A k \in Debits : journal'[k] \in Uncertain => j0[k] \in Uncertain,
         work.active # None => \/ journal'[Recovery(work.active)] # "executed"
                               \/ debit'[Recovery(work.active)] # "success"
  PROVE  IInv'
<1>1. work \in Records /\ RecordOK(work, journal', debit')
  BY LaterOK DEF IInv, TypeOK, Soft
<1>2. work.active # None => work.active \in Recoveries
  BY <1>1 DEF Records
<1>3. work.active # None =>
        /\ \A k \in Own(work.active) : journal'[k] \in Uncertain => j0[k] \in Uncertain
        /\ DebitOK(journal'[Recovery(work.active)], debit'[Recovery(work.active)])
        /\ journal'[Recovery(work.active)] \in Statuses
  BY <1>2, Names DEF Own, Soft, DebitInv
<1>4. /\ Ended(work, j0) \in Records /\ RecordOK(Ended(work, j0), journal', debit')
      /\ Ended(work, j0).active \in {work.active, None}
  BY <1>1, <1>3, EndedOK
<1> QED BY <1>4, RestIInv DEF SaveAndRest, Save, Rest, IInv, CopyInv

\* A job with a step of a recovery to do works on the active one.
LEMMA ActiveJob ==
  ASSUME IInv, work.action \in Recovering
  PROVE  /\ work.active \in Recoveries /\ work.active # None /\ work.active = swap.active
         /\ Deployment(work.active) \in Debits /\ Recovery(work.active) \in Debits
<1>1. work.active # None /\ work.active \in Recoveries \cup {None}
  BY DEF IInv, RecordOK, TypeOK, Records
<1> QED BY <1>1, Names DEF IInv, CopyInv

-------------------------------------------------------------------------------
(* prepareRecovery and confirmRecovery                                     *)

LEMMA PrepareRecoveryStep ==
  ASSUME IInv, NEW r \in Recoveries, PrepareRecovery(r)
  PROVE  IInv'
<1> DEFINE f == Refunding(swap)
           reviewed == WithStatus(f, r, "quoted")
           after == [reviewed EXCEPT !.deploys =
                       IF Chain(r) \in code THEN @ ELSE @ \cup {r}]
<1>1. Soft /\ UNCHANGED Others
  BY SoftStill DEF PrepareRecovery, world, Others
<1>2. /\ f \in Records /\ f.active = None
      /\ f.action = swap.action /\ f.status = swap.status
      /\ swap.status[r] = "none" /\ swap.active = None /\ "quoted" \in Stages
  BY RefundingTyped DEF IInv, TypeOK, PrepareRecovery, Stages
<1> HIDE DEF f
<1>3. /\ reviewed \in Records /\ reviewed.active = None
      /\ reviewed.action = swap.action /\ reviewed.status[r] = "quoted"
      /\ \A q \in Recoveries \ {r} : reviewed.status[q] = swap.status[q]
  BY <1>2, StagedTyped
<1> HIDE DEF reviewed
<1>4. /\ after \in Records /\ after.active = None
      /\ after.action = reviewed.action /\ after.status = reviewed.status
  BY <1>3 DEF Records
<1> HIDE DEF after
<1>5. RecordOK(after, journal, debit)
  <2>1. after.active = None <=> after.action \notin Recovering
    BY <1>2, <1>3, <1>4 DEF IInv, RecordOK
  <2>2. ASSUME NEW q \in Recoveries PROVE StatusOK(after, q, journal, debit)
    <3>1. StatusOK(swap, q, journal, debit) /\ q # None
      BY NamesAssumption DEF IInv, RecordOK
    <3>2. CASE q = r
      BY <1>2, <1>3, <1>4, <3>1, <3>2 DEF StatusOK, Underway
    <3>3. CASE q # r
      BY <1>2, <1>3, <1>4, <3>1, <3>3 DEF StatusOK
    <3> QED BY <3>2, <3>3
  <2> QED BY <2>1, <2>2 DEF RecordOK
<1>6. SaveAndRest(after)
  BY DEF PrepareRecovery, f, reviewed, after
<1>7. swap' = after /\ Rest(swap') /\ journal' = journal /\ debit' = debit
  BY <1>6 DEF SaveAndRest, Save, Rest, PrepareRecovery, world
<1> QED BY <1>1, <1>3, <1>4, <1>5, <1>7, RestIInv

LEMMA ConfirmRecoveryStep ==
  ASSUME IInv, NEW r \in Recoveries, ConfirmRecovery(r)
  PROVE  IInv'
<1> DEFINE f == Refunding(swap)
           staged == WithStatus(f, r, "confirmed")
           a == IF r \in swap.deploys THEN "deploy-owner" ELSE "sign-recovery"
           c == Confirmed(r)
<1>1. /\ f \in Records /\ f.status = swap.status
      /\ swap.status[r] = "quoted" /\ swap.active = None /\ "confirmed" \in Stages
  BY RefundingTyped DEF IInv, TypeOK, ConfirmRecovery, Stages
<1> HIDE DEF f
<1>2. /\ staged \in Records /\ staged.status[r] = "confirmed"
      /\ \A q \in Recoveries \ {r} : staged.status[q] = swap.status[q]
  BY <1>1, StagedTyped
<1>3. c = [staged EXCEPT !.active = r, !.phase = "recovering", !.action = a]
  BY DEF Confirmed, f
<1>4. a \in Actions /\ a \in {"deploy-owner", "sign-recovery"} /\ a \in Recovering
  BY DEF Actions, Recovering
<1> HIDE DEF staged, a, c
<1>5. c.active = r /\ c.action = a /\ c.status = staged.status
  BY <1>2, <1>3 DEF Records
<1>6. c \in Records
  BY <1>2, <1>3, <1>4 DEF Records, Phases
<1>7. RecordOK(c, journal, debit)
  <2>1. c.active = None <=> c.action \notin Recovering
    BY <1>4, <1>5, NamesAssumption
  <2>2. ASSUME NEW q \in Recoveries PROVE StatusOK(c, q, journal, debit)
    <3>1. StatusOK(swap, q, journal, debit) /\ q # None
      BY NamesAssumption DEF IInv, RecordOK
    <3>2. CASE q = r
      BY <1>1, <1>2, <1>5, <3>1, <3>2 DEF StatusOK, Underway, Uncertain
    <3>3. CASE q # r
      BY <1>1, <1>2, <1>5, <3>1, <3>3 DEF StatusOK
    <3> QED BY <3>2, <3>3
  <2> QED BY <2>1, <2>2 DEF RecordOK
<1>8. /\ swap' = c /\ work' = c /\ at' = "idle" /\ current' = None
      /\ journal' = journal /\ debit' = debit /\ UNCHANGED Others
  BY DEF ConfirmRecovery, SaveAndRest, Save, Rest, c, world, Others
<1>9. TypeOK'
  BY <1>6, <1>8 DEF IInv, TypeOK, Others, Steps
<1>10. DebitInv' /\ OneOutInv'
  BY <1>8 DEF IInv, DebitInv, OneOutInv
<1>11. AloneInv'
  <2> SUFFICES ASSUME NEW k \in Debits \ Own(r), k = Funding \/ ChainOf(k) = Chain(r)
               PROVE  journal[k] \notin Uncertain
    BY <1>5, <1>8 DEF AloneInv
  <2> QED BY DEF ConfirmRecovery, Allowed, Clear
<1>12. CopyInv' /\ JobInv' /\ StepInv'
  BY <1>8 DEF CopyInv, JobInv, StepInv, Resting, DeploySteps
<1> QED BY <1>7, <1>8, <1>9, <1>10, <1>11, <1>12 DEF IInv

-------------------------------------------------------------------------------
(* Steps that end with the job at rest                                     *)

LEMMA ExpireStep ==
  ASSUME IInv, Expire
  PROVE  IInv'
<1>1. Soft /\ UNCHANGED Others
  BY SoftStill DEF Expire, world, Others
<1>2. work = swap /\ work.action = "fund"
  BY DEF IInv, CopyInv, Expire, Free
<1>3. work.active = None
  BY <1>2 DEF IInv, RecordOK, Recovering
<1> DEFINE f == Refunding(swap)
           r == [f EXCEPT !.phase = "expired", !.action = "none"]
<1>4. f \in Records /\ f.active = None /\ f.status = work.status
  BY <1>2, <1>3, RefundingTyped DEF IInv, TypeOK
<1> HIDE DEF f
<1>5. r \in Records /\ r.active = None /\ r.status = work.status /\ r.action = "none"
  BY <1>4 DEF Records, Phases, Actions
<1>6. SaveAndRest(r)
  BY DEF Expire, f
<1> HIDE DEF r
<1> QED BY <1>1, <1>3, <1>5, <1>6, RestInactive DEF Recovering

LEMMA FailStep ==
  ASSUME IInv, Fail
  PROVE  IInv'
<1>1. Soft /\ UNCHANGED Others
  BY SoftStill DEF Fail, world, Others
<1> QED BY <1>1, RestKept DEF Fail, IInv, TypeOK

\* In these steps the transaction of the recovery is not on the chain.
Early == {"sign-recovery", "build-recovery", "deploy-owner", "submit-recovery",
          "deploying", "signing", "signed", "preparing", "quoting", "sending"}
LEMMA NothingOut ==
  ASSUME IInv, at \in Early
  PROVE  /\ work.action \in Recovering
         /\ journal[Recovery(work.active)] \notin Uncertain \cup {"executed"}
<1>1. work.action \in Recovering
  BY DEF IInv, JobInv, Early, Recovering, DeploySteps
<1> QED BY <1>1, ActiveJob DEF IInv, StepInv, Early, Resting

LEMMA EarlyEnds ==
  ASSUME IInv, at \in Early, SaveAndRest(Ended(work, journal)),
         UNCHANGED <<journal, signing, disabled, world>>
  PROVE  IInv'
<1>1. Soft /\ UNCHANGED Others
  BY SoftStill DEF world, Others
<1>2. journal' = journal
  OBVIOUS
<1> QED BY <1>1, <1>2, NothingOut, RestEnded

LEMMA ChangedStep ==
  ASSUME IInv, Changed
  PROVE  IInv'
BY EarlyEnds DEF Changed, Early

LEMMA NotSponsoredStep ==
  ASSUME IInv, NotSponsored
  PROVE  IInv'
BY EarlyEnds DEF NotSponsored, Early

\* A job that takes the next step of its recovery, and rests.
LEMMA RestAt ==
  ASSUME IInv, NEW a \in Recovering, work.action \in Recovering,
         SaveAndRest([work EXCEPT !.action = a]),
         UNCHANGED <<journal, signing, disabled, world>>,
         journal[Deployment(work.active)] = "submitting" =>
           a \in {"deploy-owner", "sign-recovery"},
         journal[Recovery(work.active)] # "absent" =>
           a \in {"build-recovery", "submit-recovery", "observe-recovery"}
  PROVE  IInv'
<1>1. Soft /\ UNCHANGED Others
  BY SoftStill DEF world, Others
<1> DEFINE m == [work EXCEPT !.action = a]
<1>2. work \in Records /\ a \in Actions
  BY DEF IInv, TypeOK, Actions
<1>3. /\ m \in Records /\ m.active = work.active /\ m.action = a
      /\ m.status = work.status
  BY <1>2 DEF Records
<1>4. work.active # None /\ work.active = swap.active
  BY ActiveJob
<1> HIDE DEF m
<1>5. RecordOK(m, journal, debit)
  BY <1>3, <1>4, SteppedOK DEF IInv
<1>6. swap' = m /\ Rest(swap') /\ journal' = journal /\ debit' = debit
  BY DEF SaveAndRest, Save, Rest, m, world
<1> QED BY <1>1, <1>3, <1>4, <1>5, <1>6, RestIInv

LEMMA DeployedAlreadyStep ==
  ASSUME IInv, DeployedAlready
  PROVE  IInv'
<1>1. work.action = "deploy-owner"
  BY DEF IInv, JobInv, DeployedAlready, DeploySteps
<1>2. work.action \in Recovering
  BY <1>1 DEF Recovering
<1>3. journal[Recovery(work.active)] = "absent"
  BY <1>1, <1>2, ActiveJob DEF IInv, RecordOK, StatusOK
<1> QED BY <1>2, <1>3, RestAt DEF DeployedAlready, Recovering

\* The stage in which a deployment is not being sent.
LEMMA NotSending ==
  ASSUME IInv, work.action \in {"build-recovery", "submit-recovery", "observe-recovery"}
  PROVE  journal[Deployment(work.active)] # "submitting"
<1>1. work.active \in Recoveries
  BY ActiveJob DEF Recovering
<1> QED BY <1>1 DEF IInv, RecordOK, StatusOK

LEMMA BuiltStep ==
  ASSUME IInv, Built
  PROVE  IInv'
<1>1. work.action = "build-recovery"
  BY DEF IInv, JobInv, Built
<1> QED BY <1>1, NotSending, RestAt DEF Built, Recovering

LEMMA DeployedStep ==
  ASSUME IInv, Deployed
  PROVE  IInv'
<1>1. Soft /\ UNCHANGED Others
  BY SoftStill DEF Deployed, world, Others
<1> QED BY <1>1, RestKept DEF Deployed, IInv, TypeOK

\* Where a job about the deployment stands.
LEMMA DeployJob ==
  ASSUME IInv, at \in DeploySteps
  PROVE  /\ work.action = "deploy-owner" /\ work.action \in Recovering
         /\ current = Deployment(work.active) /\ current \in Debits
         /\ journal[Recovery(work.active)] = "absent"
<1>1. /\ work.action = "deploy-owner" /\ work.action \in Recovering
      /\ current = Deployment(work.active)
  BY DEF IInv, JobInv, Recovering
<1>2. journal[Recovery(work.active)] = "absent"
  BY <1>1, ActiveJob DEF IInv, RecordOK, StatusOK
<1> QED BY <1>1, <1>2, ActiveJob

LEMMA DeployAgainStep ==
  ASSUME IInv, DeployAgain
  PROVE  IInv'
<1>1. current \in Debits
  BY DeployJob DEF DeployAgain, DeploySteps
<1>2. UNCHANGED debit /\ UNCHANGED Others
  BY DEF DeployAgain, world, Others
<1>3. Soft
  BY <1>1, <1>2, PolledOK, SoftJournal DEF DeployAgain
<1> QED BY <1>2, <1>3, RestKept DEF DeployAgain, IInv, TypeOK

LEMMA DeployFailedStep ==
  ASSUME IInv, DeployFailed
  PROVE  IInv'
<1> DEFINE status == IF at = "deployed" THEN journal[current] ELSE Polled(current)
<1>1. /\ current = Deployment(work.active) /\ current \in Debits
      /\ work.active \in Recoveries
      /\ journal[Recovery(work.active)] = "absent"
  BY DeployJob, ActiveJob DEF DeployFailed, DeploySteps
<1>2. /\ UNCHANGED debit /\ UNCHANGED Others
      /\ journal' = [journal EXCEPT ![current] = status]
      /\ SaveAndRest(Ended(work, journal'))
  BY DEF DeployFailed, world, Others
<1>3. journal[current] \in Statuses /\ DebitOK(journal[current], debit[current])
  BY <1>1 DEF IInv, TypeOK, DebitInv
<1>4. /\ status \in Statuses /\ DebitOK(status, debit[current])
      /\ status \in Uncertain => journal[current] \in Uncertain
      /\ status = "submitting" => journal[current] = "submitting"
      /\ journal[current] = "absent" => status = "absent"
  BY <1>1, <1>3, PolledOK
<1> HIDE DEF status
<1>5. Soft
  BY <1>1, <1>2, <1>4, SoftJournal
<1>6. journal'[Recovery(work.active)] = "absent"
  BY <1>1, <1>5 DEF Soft, Later
<1> QED BY <1>2, <1>5, <1>6, RestEnded

-------------------------------------------------------------------------------
(* Steps after which the job goes on                                       *)

\* The job goes on with its copy as it is.
LEMMA GoOn ==
  ASSUME IInv, Soft, UNCHANGED Others, UNCHANGED <<swap, work, current>>,
         at # "idle", at' \in Steps, at' # "idle", JobInv', StepInv'
  PROVE  IInv'
<1>1. RecordOK(swap', journal', debit') /\ RecordOK(work', journal', debit')
  BY LaterOK DEF IInv, Soft
<1>2. CopyInv'
  BY DEF IInv, CopyInv
<1> QED BY <1>1, <1>2, KeptIInv DEF IInv, TypeOK

\* It goes on with a new stage of its recovery, which it saved.
LEMMA GoOnStaged ==
  ASSUME IInv, work.action \in Recovering, NEW stage \in Underway,
         Save(WithStatus(work, work.active, stage)), work' = swap',
         UNCHANGED <<current, journal, signing, disabled, world>>,
         at' \in Steps, at' # "idle", JobInv', StepInv'
  PROVE  IInv'
<1>1. Soft /\ UNCHANGED Others /\ UNCHANGED <<journal, debit>>
  BY SoftStill DEF world, Others
<1> DEFINE w == WithStatus(work, work.active, stage)
<1>2. work \in Records /\ work.active # None /\ work.active = swap.active
  BY ActiveJob DEF IInv, TypeOK
<1>3. w \in Records /\ RecordOK(w, journal, debit) /\ w.active = work.active
  BY <1>2, StagedOK DEF IInv
<1>4. swap' = w /\ work' = w
  BY DEF Save
<1> HIDE DEF w
<1>5. CopyInv'
  BY <1>4 DEF CopyInv
<1> QED BY <1>1, <1>2, <1>3, <1>4, <1>5, KeptIInv DEF IInv, TypeOK

\* What a new stage leaves of the copy.
LEMMA StagedCopy ==
  ASSUME IInv, work.action \in Recovering, NEW stage \in Underway,
         work' = WithStatus(work, work.active, stage)
  PROVE  work'.active = work.active /\ work'.action = work.action
<1>1. work \in Records /\ work.active # None
  BY ActiveJob DEF IInv, TypeOK
<1> QED BY <1>1, StagedOK DEF IInv

LEMMA DeployOwnerStep ==
  ASSUME IInv, DeployOwner
  PROVE  IInv'
<1>1. /\ work.action = "deploy-owner" /\ work.action \in Recovering
      /\ current = Deployment(work.active)
      /\ journal[Recovery(work.active)] = "absent"
      /\ work.active # None /\ at # "idle"
  BY DeployJob, ActiveJob DEF DeployOwner, DeploySteps
<1>2. /\ work' = WithStatus(work, work.active, "deploying") /\ swap' = work'
      /\ at' = "deploying" /\ current' = current /\ journal' = journal
      /\ ~disabled /\ disabled' = disabled
  BY DEF DeployOwner, Save, Continue, Goto
<1>3. work'.active = work.active /\ work'.action = work.action
  BY <1>1, <1>2, StagedCopy DEF Underway
<1>4. JobInv'
  BY <1>1, <1>2, <1>3 DEF JobInv, DeploySteps
<1>5. StepInv'
  BY <1>1, <1>2, <1>3 DEF IInv, StepInv, Resting, Uncertain, DeployOwner
<1> QED BY <1>1, <1>2, <1>4, <1>5, GoOnStaged DEF DeployOwner, Save, Underway, Steps

LEMMA DeployQuotedStep ==
  ASSUME IInv, DeployQuoted
  PROVE  IInv'
<1>1. Soft /\ UNCHANGED Others
  BY SoftStill DEF DeployQuoted, durable, world, Others
<1>2. work.action = "deploy-owner" /\ current = Deployment(work.active)
  BY DeployJob DEF DeployQuoted, DeploySteps
<1>3. at' = "sending" /\ UNCHANGED <<swap, work, current, journal, disabled>>
  BY DEF DeployQuoted, Goto, durable
<1>4. JobInv'
  BY <1>2, <1>3 DEF JobInv, DeploySteps
<1>5. StepInv'
  BY <1>3 DEF IInv, StepInv, Resting, DeployQuoted
<1> QED BY <1>1, <1>3, <1>4, <1>5, GoOn DEF DeployQuoted, Steps

LEMMA PrepareRecordStep ==
  ASSUME IInv, PrepareRecord
  PROVE  IInv'
<1>0. /\ at \in {"deploying", "preparing"} /\ journal[current] = "absent"
      /\ journal' = [journal EXCEPT ![current] = "preparing"] /\ at' = "quoting"
      /\ UNCHANGED <<swap, work, current, disabled, debit>> /\ UNCHANGED Others
  BY DEF PrepareRecord, Goto, world, Others
<1>1. /\ \/ work.action = "deploy-owner" /\ current = Deployment(work.active)
         \/ work.action = "build-recovery" /\ current = Recovery(work.active)
      /\ work.action \in Recovering
  BY <1>0 DEF IInv, JobInv, DeploySteps, Recovering
<1>2. current \in Debits
  BY <1>1, ActiveJob
<1>3. journal \in [Debits -> Statuses] /\ DebitOK("absent", debit[current])
  BY <1>0, <1>2 DEF IInv, TypeOK, DebitInv
<1>4. TypeOK' /\ DebitInv'
  <2>1. TypeOK'
    BY <1>0, <1>2, <1>3 DEF IInv, TypeOK, Others, Statuses, Steps
  <2> SUFFICES ASSUME NEW l \in Debits PROVE DebitOK(journal'[l], debit'[l])
    BY <2>1 DEF DebitInv
  <2> QED BY <1>0, <1>3 DEF IInv, DebitInv, DebitOK
<1>5. \A k \in Debits : \/ journal'[k] = journal[k]
                        \/ k = current /\ journal'[k] = "preparing"
  BY <1>0, <1>3
<1>6. Quieter /\ OneOutInv' /\ AloneInv'
  <2>1. Quieter
    BY <1>5 DEF Quieter, Uncertain
  <2> QED BY <1>0, <2>1 DEF Quieter, IInv, OneOutInv, AloneInv
<1>7. ASSUME NEW r, RecordOK(r, journal, debit), r.active = work.active,
             r.action = work.action
      PROVE  RecordOK(r, journal', debit')
  <2>1. ASSUME NEW q \in Recoveries PROVE StatusOK(r, q, journal', debit')
    <3>1. StatusOK(r, q, journal, debit)
      BY <1>7 DEF RecordOK
    <3>2. /\ Deployment(q) \in Debits /\ Recovery(q) \in Debits
          /\ q # work.active => current # Deployment(q) /\ current # Recovery(q)
          /\ work.action = "deploy-owner" => current # Recovery(q)
      BY <1>1, Names, ActiveJob
    <3>3. CASE q = work.active
      BY <1>0, <1>1, <1>5, <1>7, <3>1, <3>2, <3>3 DEF StatusOK, Underway, Uncertain
    <3>4. CASE q # work.active
      <4>1. journal'[Deployment(q)] = journal[Deployment(q)]
            /\ journal'[Recovery(q)] = journal[Recovery(q)]
        BY <1>5, <3>2, <3>4
      <4> QED BY <1>0, <3>1, <4>1 DEF StatusOK
    <3> QED BY <3>3, <3>4
  <2> QED BY <1>7, <2>1 DEF RecordOK
<1>8. RecordOK(swap', journal', debit') /\ RecordOK(work', journal', debit')
  <2>1. swap.active = work.active /\ swap.action = work.action
    BY <1>1 DEF IInv, CopyInv
  <2> QED BY <1>0, <1>7, <2>1 DEF IInv
<1>9. CopyInv' /\ JobInv'
  BY <1>0, <1>1 DEF IInv, CopyInv, JobInv, DeploySteps
<1>10. StepInv'
  <2>1. journal'[current] = "preparing"
    BY <1>0, <1>2, <1>3
  <2>2. /\ work.active # None => journal'[Deployment(work.active)] # "submitting"
        /\ journal'[Recovery(work.active)] \notin Uncertain \cup {"executed"}
    <3>1. at \in Early
      BY <1>0 DEF Early
    <3>2. journal[Recovery(work.active)] \notin Uncertain \cup {"executed"}
      BY <3>1, NothingOut
    <3>3. journal[Deployment(work.active)] # "submitting"
      BY <1>0, <1>1, ActiveJob DEF IInv, StepInv, Resting
    <3> QED BY <1>1, <1>5, <3>2, <3>3, ActiveJob DEF Uncertain
  <2> QED BY <1>0, <2>1, <2>2 DEF IInv, StepInv, Resting
<1> QED BY <1>0, <1>4, <1>6, <1>8, <1>9, <1>10 DEF IInv

LEMMA PrepareAnsweredStep ==
  ASSUME IInv, PrepareAnswered
  PROVE  IInv'
<1>1. /\ journal[current] = "preparing" /\ work.action \in Recovering
      /\ \/ work.action = "deploy-owner" /\ current = Deployment(work.active)
         \/ work.action = "build-recovery" /\ current = Recovery(work.active)
      /\ journal[Recovery(work.active)] \notin Uncertain \cup {"executed"}
      /\ UNCHANGED Others
  BY NothingOut DEF IInv, JobInv, StepInv, Recovering, PrepareAnswered, Others, Early
<1>2. /\ current \in Debits /\ journal \in [Debits -> Statuses]
      /\ debit[current] = "none" /\ debit[current] # "success"
      /\ work.active \in Recoveries
      /\ Recovery(work.active) \in Debits /\ Deployment(work.active) \in Debits
  BY <1>1, ActiveJob DEF IInv, TypeOK, DebitInv, DebitOK
<1>3. CASE /\ journal' = [journal EXCEPT ![current] = "quoted"]
           /\ debit' = [debit EXCEPT ![current] = "quoted"]
           /\ Goto(IF work.action = "deploy-owner" THEN "deploying" ELSE "preparing")
           /\ UNCHANGED <<swap, current, work>>
  <2>1. \A k \in Debits :
          \/ journal'[k] = journal[k] /\ debit'[k] = debit[k]
          \/ k = current /\ journal'[k] = "quoted" /\ debit'[k] = "quoted"
    BY <1>2, <1>3 DEF IInv, TypeOK
  <2>2. journal' \in [Debits -> Statuses] /\ debit' \in [Debits -> {"none", "quoted",
          "flying", "pending", "success", "reverted", "failed"}]
    BY <1>2, <1>3 DEF IInv, TypeOK, Statuses
  <2>3. DebitInv'
    BY <2>1 DEF IInv, DebitInv, DebitOK
  <2>4. Quieter
    BY <2>1 DEF Quieter, Uncertain
  <2>5. Later(journal, debit, journal', debit')
    BY <1>1, <1>2, <2>1, Names DEF Later, Uncertain
  <2>6. Soft
    BY <2>2, <2>3, <2>4, <2>5 DEF Soft
  <2>7. at' \in {"deploying", "preparing"} /\ disabled' = disabled /\ at = "quoting"
    BY <1>3 DEF Goto, PrepareAnswered
  <2>8. JobInv'
    BY <1>1, <1>3, <2>7 DEF JobInv, DeploySteps, Goto
  <2>9. /\ journal'[Deployment(work.active)] # "submitting" \/ disabled
        /\ journal'[Recovery(work.active)] \notin Uncertain \cup {"executed"}
    BY <1>1, <1>2, <2>1, <2>7, ActiveJob DEF Uncertain, IInv, StepInv, Resting
  <2>10. StepInv'
    BY <1>3, <2>7, <2>9 DEF IInv, StepInv, Resting
  <2> QED BY <1>1, <1>3, <2>6, <2>7, <2>8, <2>10, GoOn DEF Steps
<1>4. CASE /\ journal' = [journal EXCEPT ![current] = "failed"]
           /\ SaveAndRest(Ended(work, journal)) \/ SaveAndRest(work)
           /\ UNCHANGED debit
  <2>1. Soft
    BY <1>1, <1>2, <1>4, SoftJournal DEF Statuses, DebitOK, Uncertain
  <2>2. CASE SaveAndRest(work)
    BY <1>1, <2>1, <2>2, RestKept DEF IInv, TypeOK
  <2>3. CASE SaveAndRest(Ended(work, journal))
    <3>1. journal'[Recovery(work.active)] # "executed"
      BY <1>1, <1>2, <1>4
    <3>2. \A k \in Debits : journal'[k] \in Uncertain => journal[k] \in Uncertain
      BY <2>1 DEF Soft, Quieter
    <3> QED BY <1>1, <2>1, <2>3, <3>1, <3>2, RestEnded
  <2> QED BY <1>4, <2>2, <2>3
<1> QED BY <1>3, <1>4 DEF PrepareAnswered

-------------------------------------------------------------------------------
(* sign-recovery and build-recovery                                        *)

\* The recovery that is signed or built has been sent nowhere.
LEMMA LaterJob ==
  ASSUME IInv, at \in {"sign-recovery", "signing", "signed", "build-recovery", "preparing"}
  PROVE  /\ at \in Early /\ at # "idle"
         /\ work.action \in Recovering /\ current = Recovery(work.active)
         /\ work.active # None
         /\ journal[Recovery(work.active)] \notin Uncertain \cup {"executed"}
         /\ ~disabled => journal[Deployment(work.active)] # "submitting"
<1>1. at \in Early /\ at # "idle"
  BY DEF Early
<1>2. work.action \in Recovering /\ current = Recovery(work.active)
  BY DEF IInv, JobInv, Recovering
<1>3. work.active # None
  BY <1>2, ActiveJob
<1> QED BY <1>1, <1>2, <1>3, NothingOut DEF IInv, StepInv, Resting

LEMMA SignRecoveryStep ==
  ASSUME IInv, SignRecovery
  PROVE  IInv'
<1>1. CASE Chain(work.active) \notin code
  BY <1>1, EarlyEnds DEF SignRecovery, Early
<1>2. CASE Chain(work.active) \in code
  <2>1. /\ work' = WithStatus(work, work.active, "signing") /\ swap' = work'
        /\ at' = "signing" /\ current' = current /\ journal' = journal
        /\ ~disabled /\ disabled' = disabled /\ at = "sign-recovery"
    BY <1>2 DEF SignRecovery, Save, Continue, Goto
  <2>2. work.action = "sign-recovery"
    BY <2>1 DEF IInv, JobInv
  <2>3. work'.active = work.active /\ work'.action = work.action
    BY <2>1, LaterJob, StagedCopy DEF Underway
  <2>4. JobInv'
    BY <2>1, <2>2, <2>3, LaterJob DEF JobInv, DeploySteps
  <2>5. StepInv'
    BY <2>1, <2>3, LaterJob DEF StepInv, Resting
  <2> QED BY <1>2, <2>1, <2>4, <2>5, LaterJob, GoOnStaged
          DEF SignRecovery, Save, Underway, Steps
<1> QED BY <1>1, <1>2

\* Asking for the signature, and its answer, change nothing else.
LEMMA SigningGoesOn ==
  ASSUME IInv, at \in {"signing", "signed"}, at' \in {"signing", "signed"},
         NEW s \in {"unknown", "signed"},
         signing' = [signing EXCEPT ![work.active] = s],
         UNCHANGED <<swap, journal, disabled, current, work, world>>
  PROVE  IInv'
<1>1. TypeOK'
  BY DEF IInv, TypeOK, world, Steps
<1>2. JobInv'
  BY DEF IInv, JobInv, DeploySteps
<1>3. StepInv'
  BY LaterJob DEF IInv, StepInv, Resting
<1>4. CopyInv' /\ AloneInv' /\ OneOutInv'
  BY DEF IInv, CopyInv, AloneInv, OneOutInv
<1>5. DebitInv' /\ RecordOK(swap, journal, debit)' /\ RecordOK(work, journal, debit)'
  BY DEF IInv, DebitInv, RecordOK, StatusOK, world
<1> QED BY <1>1, <1>2, <1>3, <1>4, <1>5 DEF IInv

LEMMA SignRecordStep ==
  ASSUME IInv, SignRecord
  PROVE  IInv'
BY SigningGoesOn DEF SignRecord, Goto

LEMMA SignAnsweredStep ==
  ASSUME IInv, SignAnswered
  PROVE  IInv'
<1>1. CASE /\ at = "signed" /\ Goto("signing")
           /\ signing' = [signing EXCEPT ![work.active] = "signed"]
           /\ UNCHANGED <<swap, current, work>>
  BY <1>1, SigningGoesOn DEF SignAnswered, Goto
<1>2. CASE /\ at \in {"signing", "signed"}
           /\ SaveAndRest(Ended(work, journal)) /\ UNCHANGED signing
  BY <1>2, EarlyEnds DEF SignAnswered, Early
<1>3. CASE /\ at = "signing" /\ UNCHANGED signing
           /\ SaveAndRest([work EXCEPT !.action = "build-recovery"])
  <2>1. ~disabled /\ "build-recovery" \in Recovering
    BY <1>3 DEF IInv, StepInv, Recovering
  <2> QED BY <1>3, <2>1, LaterJob, RestAt DEF SignAnswered
<1> QED BY <1>1, <1>2, <1>3 DEF SignAnswered

LEMMA BuildRecoveryStep ==
  ASSUME IInv, BuildRecovery
  PROVE  IInv'
<1>1. CASE SaveAndRest(Ended(work, journal))
  BY <1>1, EarlyEnds DEF BuildRecovery, Early
<1>2. CASE Save(work) /\ Continue(work, "preparing")
  <2>1. Soft /\ UNCHANGED Others
    BY SoftStill DEF BuildRecovery, world, Others
  <2>2. /\ swap' = work /\ work' = work /\ at' = "preparing" /\ current' = current
        /\ at = "build-recovery" /\ UNCHANGED <<journal, debit, disabled>> /\ ~disabled
    BY <1>2 DEF BuildRecovery, Save, Continue, Goto, world
  <2>3. work.action = "build-recovery"
    BY <2>2 DEF IInv, JobInv
  <2>4. JobInv' /\ StepInv' /\ CopyInv'
    BY <2>2, <2>3, LaterJob DEF JobInv, StepInv, CopyInv, Resting, DeploySteps
  <2> QED BY <2>1, <2>2, <2>4, KeptIInv DEF IInv, TypeOK, Steps, CopyInv
<1> QED BY <1>1, <1>2 DEF BuildRecovery

-------------------------------------------------------------------------------
(* submit-recovery and observe-recovery                                    *)

LEMMA SubmitRecoveryStep ==
  ASSUME IInv, SubmitRecovery
  PROVE  IInv'
<1>1. /\ work' = WithStatus(work, work.active, "submitting") /\ swap' = work'
      /\ at' = "sending" /\ current' = current /\ journal' = journal
      /\ ~disabled /\ disabled' = disabled /\ at = "submit-recovery"
  BY DEF SubmitRecovery, Save, Continue, Goto
<1>2. /\ work.action = "submit-recovery" /\ current = Recovery(work.active)
      /\ work.action \in Recovering
  BY <1>1 DEF IInv, JobInv, Recovering
<1>3. work'.active = work.active /\ work'.action = work.action /\ work.active # None
  BY <1>1, <1>2, ActiveJob, StagedCopy DEF Underway
<1>4. JobInv'
  BY <1>1, <1>2, <1>3 DEF JobInv, DeploySteps
<1>5. /\ journal[Deployment(work.active)] # "submitting"
      /\ journal[Recovery(work.active)] \notin Uncertain \cup {"executed"}
  BY <1>1, <1>3 DEF IInv, StepInv, Resting
<1>6. StepInv'
  BY <1>1, <1>3, <1>5 DEF StepInv, Resting
<1> QED BY <1>1, <1>2, <1>4, <1>6, GoOnStaged DEF SubmitRecovery, Save, Underway, Steps

\* The transaction of the active recovery is pending: it is observed.
LEMMA PendingRests ==
  ASSUME IInv, Soft, UNCHANGED Others, work.action = "submit-recovery",
         SaveAndRest(Pending(work))
  PROVE  IInv'
<1> DEFINE w == WithStatus(work, work.active, "pending")
           m == [w EXCEPT !.action = "observe-recovery"]
<1>1. work \in Records /\ work.action \in Recovering
  BY DEF IInv, TypeOK, Recovering
<1>2. RecordOK(work, journal', debit') /\ work.active # None /\ work.active = swap.active
  BY <1>1, LaterOK, ActiveJob DEF IInv, Soft
<1>3. /\ w \in Records /\ RecordOK(w, journal', debit') /\ w.active = work.active
      /\ w.action = work.action
  BY <1>1, <1>2, StagedOK DEF Underway
<1>4. SaveAndRest(m)
  BY DEF Pending, w
<1> HIDE DEF w
<1>5. "observe-recovery" \in Actions /\ "observe-recovery" \in Recovering
  BY DEF Actions, Recovering
<1>6. m \in Records /\ m.active = w.active /\ m.status = w.status
      /\ m.action = "observe-recovery"
  BY <1>3, <1>5 DEF Records
<1> HIDE DEF m
<1>7. journal'[Deployment(w.active)] # "submitting"
  BY <1>1, <1>3, ActiveJob DEF RecordOK, StatusOK
<1>8. RecordOK(m, journal', debit')
  BY <1>2, <1>3, <1>5, <1>6, <1>7, SteppedOK
<1>9. swap' = m /\ Rest(swap')
  BY <1>4 DEF SaveAndRest, Save, Rest
<1> QED BY <1>2, <1>3, <1>6, <1>8, <1>9, RestIInv

LEMMA SubmittedAlreadyStep ==
  ASSUME IInv, SubmittedAlready
  PROVE  IInv'
<1>1. Soft /\ UNCHANGED Others
  BY SoftStill DEF SubmittedAlready, world, Others
<1> QED BY <1>1, PendingRests DEF SubmittedAlready, IInv, JobInv

LEMMA ObserveJob ==
  ASSUME IInv, at = "observe-recovery"
  PROVE  /\ work.action = "observe-recovery" /\ work.action \in Recovering
         /\ current = Recovery(work.active) /\ current \in Debits
         /\ work.active # None /\ work.active \in Recoveries
         /\ journal[Deployment(work.active)] # "submitting"
<1>1. /\ work.action = "observe-recovery" /\ work.action \in Recovering
      /\ current = Recovery(work.active)
  BY DEF IInv, JobInv, Recovering
<1> QED BY <1>1, ActiveJob, NotSending

LEMMA ObserveRecoveryPollStep ==
  ASSUME IInv, ObserveRecoveryPoll
  PROVE  IInv'
<1>1. /\ journal' = [journal EXCEPT ![current] = Polled(current)]
      /\ UNCHANGED debit /\ UNCHANGED Others /\ disabled' = disabled
  BY DEF ObserveRecoveryPoll, world, Others
<1>2. Soft
  BY <1>1, ObserveJob, PolledOK, SoftJournal DEF ObserveRecoveryPoll
<1>3. CASE SaveAndRest(work)
  BY <1>1, <1>2, <1>3, RestKept DEF IInv, TypeOK
<1>4. CASE UNCHANGED <<swap, volatile>>
  <2>1. UNCHANGED <<swap, at, current, work>> /\ at = "observe-recovery"
    BY <1>4 DEF volatile, ObserveRecoveryPoll
  <2>2. JobInv'
    BY <2>1, ObserveJob DEF JobInv, DeploySteps
  <2>3. journal'[Deployment(work.active)] # "submitting"
    BY <1>2, <2>1, ObserveJob DEF Soft, Later
  <2>4. StepInv'
    BY <2>1, <2>3 DEF StepInv, Resting
  <2> QED BY <1>1, <1>2, <2>1, <2>2, <2>4, GoOn DEF Steps, Recovering
<1> QED BY <1>3, <1>4 DEF ObserveRecoveryPoll

LEMMA EndsWith ==
  ASSUME IInv, at = "observe-recovery", NEW stage \in {"recovered", "partial", "failed"},
         NEW p \in Phases, NEW a \in {"none", "observe"},
         SaveAndRest(EndWith(work, stage, p, a)),
         UNCHANGED <<journal, signing, disabled, world>>,
         journal[current] \notin Uncertain,
         IF stage = "failed" THEN debit[current] \notin {"flying", "pending", "success"}
                             ELSE debit[current] = "success"
  PROVE  IInv'
<1>1. Soft /\ UNCHANGED Others
  BY SoftStill DEF world, Others
<1> DEFINE e == EndWith(work, stage, p, a)
<1>2. work \in Records /\ RecordOK(work, journal, debit)
  BY DEF IInv, TypeOK
<1>3. e \in Records /\ e.active = None /\ RecordOK(e, journal, debit)
  BY <1>2, ObserveJob, EndWithOK
<1>4. swap' = e /\ Rest(swap') /\ journal' = journal /\ debit' = debit
  BY DEF SaveAndRest, Save, Rest, world
<1> HIDE DEF e
<1> QED BY <1>1, <1>3, <1>4, RestIInv

LEMMA ObserveRecoveryStep ==
  ASSUME IInv, ObserveRecovery
  PROVE  IInv'
<1>1. DebitOK(journal[current], debit[current])
  BY ObserveJob DEF ObserveRecovery, IInv, DebitInv
<1>2. CASE /\ journal[current] = "failed"
           /\ SaveAndRest(EndWith(work, "failed", "attention", "observe"))
  BY <1>1, <1>2, EndsWith DEF ObserveRecovery, DebitOK, Phases, Uncertain
<1>3. CASE /\ journal[current] = "executed" /\ debit[current] = "reverted"
           /\ SaveAndRest(Ended(work, journal))
  <2>1. Soft /\ UNCHANGED Others /\ UNCHANGED <<journal, debit>>
    BY SoftStill DEF ObserveRecovery, world, Others
  <2>2. debit'[Recovery(work.active)] # "success"
    BY <1>3, <2>1, ObserveJob DEF ObserveRecovery
  <2> QED BY <1>3, <2>1, <2>2, RestEnded
<1>4. CASE /\ journal[current] = "executed" /\ debit[current] = "success"
           /\ SaveAndRest(EndWith(work, "recovered", "refunded", "none"))
  BY <1>4, EndsWith DEF ObserveRecovery, Phases, Uncertain
<1>5. CASE /\ journal[current] = "executed" /\ debit[current] = "success"
           /\ SaveAndRest(EndWith(work, "partial", "attention", "observe"))
  BY <1>5, EndsWith DEF ObserveRecovery, Phases, Uncertain
<1> QED BY <1>2, <1>3, <1>4, <1>5 DEF ObserveRecovery

-------------------------------------------------------------------------------
(* fund and observe                                                        *)

\* The job about the funding has no recovery to work on.
LEMMA FundJob ==
  ASSUME IInv, at \in {"fund", "observe"}
  PROVE  work.active = None /\ work.action \notin Recovering
BY DEF IInv, JobInv, RecordOK, Recovering

LEMMA FundRefusedStep ==
  ASSUME IInv, FundRefused
  PROVE  IInv'
<1>1. Soft /\ UNCHANGED Others
  BY SoftStill DEF FundRefused, world, Others
<1> DEFINE r == [work EXCEPT !.phase = "failed", !.action = "none"]
<1>2. r \in Records /\ r.active = work.active /\ r.status = work.status /\ r.action = "none"
  BY DEF IInv, TypeOK, Records, Phases, Actions
<1>3. SaveAndRest(r)
  BY DEF FundRefused
<1> HIDE DEF r
<1> QED BY <1>1, <1>2, <1>3, FundJob, RestInactive DEF FundRefused, Recovering

LEMMA FundReadStep ==
  ASSUME IInv, FundRead
  PROVE  IInv'
<1> DEFINE s == Polled(Funding)
           r == [work EXCEPT !.funding = journal'[Funding]]
<1>1. /\ journal' = [journal EXCEPT ![Funding] = s]
      /\ UNCHANGED debit /\ UNCHANGED Others
  BY DEF FundRead, world, Others
<1>2. Soft
  BY <1>1, Names, PolledOK, SoftJournal
<1>3. journal'[Funding] \in Statuses /\ work \in Records
  BY <1>2, Names DEF Soft, IInv, TypeOK
<1>4. /\ r \in Records /\ r.active = None /\ r.status = work.status
      /\ r.action = work.action
  BY <1>3, FundJob, FundingTyped DEF FundRead
<1> DEFINE settled == [r EXCEPT !.fundingConfirmed = TRUE, !.phase = "settling",
                                !.action = "observe"]
           refused == [r EXCEPT !.phase = "attention", !.action = "observe"]
<1>5. SaveAndRest(settled) \/ SaveAndRest(refused) \/ SaveAndRest(r)
  BY DEF FundRead
<1> HIDE DEF r
<1>6. /\ settled \in Records /\ settled.active = None /\ settled.action = "observe"
      /\ settled.status = work.status
  BY <1>4 DEF Records, Phases, Actions
<1>7. /\ refused \in Records /\ refused.active = None /\ refused.action = "observe"
      /\ refused.status = work.status
  BY <1>4 DEF Records, Phases, Actions
<1> HIDE DEF settled, refused
<1>8. work.active = None /\ work.action \notin Recovering /\ "observe" \notin Recovering
  BY FundJob DEF FundRead, Recovering
<1> QED BY <1>1, <1>2, <1>4, <1>5, <1>6, <1>7, <1>8, RestInactive

LEMMA ObserveStep ==
  ASSUME IInv, Observe
  PROVE  IInv'
<1>1. Soft /\ UNCHANGED Others
  BY SoftStill DEF Observe, world, Others
<1>2. work.active = None /\ work.action = "observe" /\ work \in Records
  BY FundJob DEF Observe, IInv, JobInv, TypeOK
<1>3. ASSUME NEW p \in Phases, NEW a \in {"none", "observe"},
             SaveAndRest([work EXCEPT !.phase = p, !.action = a])
      PROVE  IInv'
  <2> DEFINE r == [work EXCEPT !.phase = p, !.action = a]
  <2>1. /\ r \in Records /\ r.active = None /\ r.status = work.status /\ r.action = a
        /\ a \notin Recovering
    BY <1>2 DEF Records, Actions, Recovering
  <2>2. SaveAndRest(r)
    BY <1>3
  <2> HIDE DEF r
  <2> QED BY <1>1, <1>2, <2>1, <2>2, RestInactive
<1>4. ASSUME NEW p \in Phases, SaveAndRest([work EXCEPT !.phase = p])
      PROVE  IInv'
  <2> DEFINE r == [work EXCEPT !.phase = p]
  <2>1. /\ r \in Records /\ r.active = work.active /\ r.status = work.status
        /\ r.action = work.action
    BY <1>2 DEF Records
  <2>2. SaveAndRest(r)
    BY <1>4
  <2> HIDE DEF r
  <2> QED BY <1>1, <2>1, <2>2, RestKept
<1>5. SaveAndRest(work) => IInv'
  BY <1>1, <1>2, RestKept
<1> DEFINE r1 == [work EXCEPT !.phase = "succeeded", !.action = "none"]
           r2 == [work EXCEPT !.phase = "refunded", !.action = "none"]
           r3 == [work EXCEPT !.phase = "attention"]
           r4 == [work EXCEPT !.phase = "settling"]
<1>6. \/ SaveAndRest(r1) \/ SaveAndRest(r2) \/ SaveAndRest(r3) \/ SaveAndRest(r4)
      \/ SaveAndRest(work)
  BY DEF Observe
<1>7. {"succeeded", "refunded", "attention", "settling"} \subseteq Phases
  BY DEF Phases
<1> QED BY <1>3, <1>4, <1>5, <1>6, <1>7

-------------------------------------------------------------------------------
(* A debit leaves                                                          *)

\* Whatever leaves, the rest of the wallet stays as it is, and no other debit
\* of its chain may be out.
LEMMA SubmitIInv ==
  ASSUME IInv, NEW k \in Debits, Submit(k),
         UNCHANGED <<swap, work>>, UNCHANGED Others,
         RecordOK(swap, journal', debit'), RecordOK(work, journal', debit'),
         JobInv',
         k = Deployment(work.active) =>
           journal[Recovery(work.active)] \notin Uncertain \cup {"executed"},
         \A l \in Debits : ChainOf(l) = ChainOf(k) /\ journal[l] \in Uncertain
                           => l = k \/ Partners(l, k),
         swap.active # None => k \in Own(swap.active) \/
                               (k # Funding /\ ChainOf(k) # Chain(swap.active))
  PROVE  IInv'
<1>1. /\ journal' = [journal EXCEPT ![k] = "submitting"]
      /\ debit' = [debit EXCEPT ![k] = "flying"]
      /\ current' = k /\ at' = "executing"
  BY DEF Submit, Goto
<1>2. journal \in [Debits -> Statuses] /\ journal'[k] = "submitting"
  BY <1>1 DEF IInv, TypeOK
<1>3. \A l \in Debits : l # k => journal'[l] = journal[l] /\ debit'[l] = debit[l]
  BY <1>1, <1>2 DEF IInv, TypeOK
<1>4. TypeOK'
  BY <1>1 DEF IInv, TypeOK, Others, Statuses, Steps
<1>5. DebitInv'
  BY <1>2, <1>3 DEF IInv, DebitInv, DebitOK
<1>6. CopyInv'
  BY <1>1 DEF IInv, CopyInv
<1>7. StepInv'
  <2>1. k = Deployment(work.active) =>
          journal'[Recovery(work.active)] \notin Uncertain \cup {"executed"}
    <3> SUFFICES ASSUME k = Deployment(work.active)
                 PROVE  journal'[Recovery(work.active)] = journal[Recovery(work.active)]
      OBVIOUS
    <3>1. k # Recovery(work.active)
      BY DEF Deployment, Recovery
    <3> QED BY <1>1, <1>2, <3>1
  <2> QED BY <1>1, <1>2, <2>1 DEF StepInv, Resting
<1>8. AloneInv'
  <2> SUFFICES ASSUME swap.active # None, NEW l \in Debits \ Own(swap.active),
                      l = Funding \/ ChainOf(l) = Chain(swap.active)
               PROVE  journal'[l] \notin Uncertain
    BY DEF AloneInv
  <2> QED BY <1>3 DEF IInv, AloneInv
<1>9. OneOutInv'
  <2> SUFFICES ASSUME NEW l \in Debits, NEW m \in Debits, ChainOf(l) = ChainOf(m),
                      journal'[l] \in Uncertain, journal'[m] \in Uncertain
               PROVE  l = m \/ Partners(l, m)
    BY DEF OneOutInv
  <2>1. CASE l = k
    <3>1. \A x, y \in Debits : Partners(x, y) => Partners(y, x)
      BY DEF Partners
    <3> QED BY <1>3, <2>1, <3>1
  <2>2. CASE m = k
    BY <1>3, <2>2
  <2>3. CASE l # k /\ m # k
    BY <1>3, <2>3 DEF IInv, OneOutInv
  <2> QED BY <2>1, <2>2, <2>3
<1> QED BY <1>4, <1>5, <1>6, <1>7, <1>8, <1>9 DEF IInv

\* What leaves is no part of a recovery.
LEMMA SubmitOther ==
  ASSUME IInv, NEW k \in Debits, Submit(k),
         \A q \in Recoveries : k # Deployment(q) /\ k # Recovery(q)
  PROVE  RecordOK(swap, journal', debit') /\ RecordOK(work, journal', debit')
<1>1. Later(journal, debit, journal', debit')
  BY Names DEF Submit, Later, IInv, TypeOK
<1> QED BY <1>1, LaterOK DEF IInv

LEMMA FundStep ==
  ASSUME IInv, Fund
  PROVE  IInv'
<1>1. /\ Submit(Funding) /\ UNCHANGED <<swap, work>> /\ UNCHANGED Others
      /\ current' = Funding /\ at' = "executing" /\ at = "fund"
  BY DEF Fund, Others, Submit, Goto
<1>2. work.action = "fund" /\ work.active = None /\ swap.active = None
  BY <1>1, FundJob DEF IInv, JobInv, CopyInv
<1>3. RecordOK(swap, journal', debit') /\ RecordOK(work, journal', debit')
  BY <1>1, Names, SubmitOther
<1>4. JobInv'
  BY <1>1, <1>2 DEF JobInv, DeploySteps
<1>5. Funding # Deployment(work.active)
  BY DEF Funding, Deployment
<1>6. \A l \in Debits : ChainOf(l) = Origin /\ journal[l] \in Uncertain => l = Funding
  BY DEF Fund, Clear
<1> QED BY <1>1, <1>2, <1>3, <1>4, <1>5, <1>6, Names, SubmitIInv

LEMMA ExecuteStep ==
  ASSUME IInv, NEW t \in Transfers, Execute(t)
  PROVE  IInv'
<1>1. /\ Submit(Transfer(t)) /\ UNCHANGED <<swap, work>> /\ UNCHANGED Others
      /\ current' = Transfer(t) /\ at' = "executing"
  BY DEF Execute, Others, Submit, Goto
<1>2. RecordOK(swap, journal', debit') /\ RecordOK(work, journal', debit')
  BY <1>1, Names, SubmitOther
<1>3. JobInv'
  BY <1>1 DEF JobInv, DeploySteps
<1>4. Transfer(t) # Deployment(work.active)
  BY DEF Transfer, Deployment
<1>5. \A l \in Debits : ChainOf(l) = Chain(t) /\ journal[l] \in Uncertain => l = Transfer(t)
  BY DEF Execute, Clear
<1>6. swap.active # None => Chain(t) # Chain(swap.active)
  <2> SUFFICES ASSUME swap.active # None PROVE Chain(t) # Chain(swap.active)
    OBVIOUS
  <2>1. swap.action # "none"
    BY DEF IInv, RecordOK, Recovering
  <2> QED BY <2>1 DEF Execute, Reserved
<1> QED BY <1>1, <1>2, <1>3, <1>4, <1>5, <1>6, Names, SubmitIInv

LEMMA SendStep ==
  ASSUME IInv, Send
  PROVE  IInv'
<1>1. /\ at = "sending" /\ work.action \in Recovering
      /\ \/ work.action = "deploy-owner" /\ current = Deployment(work.active)
         \/ work.action = "submit-recovery" /\ current = Recovery(work.active)
      /\ journal[Recovery(work.active)] \notin Uncertain \cup {"executed"}
  BY NothingOut DEF Send, IInv, JobInv, Recovering, Early
<1>2. /\ work.active \in Recoveries /\ work.active # None /\ swap.active = work.active
      /\ current \in Debits /\ current \in Own(work.active)
      /\ ChainOf(current) = Chain(work.active) /\ swap.action = work.action
  BY <1>1, ActiveJob, Names DEF Own, IInv, CopyInv
<1>3. CASE current \notin open
  BY <1>1, <1>3, EarlyEnds DEF Send, Early, world
<1>4. CASE current \in open
  <2>1. /\ Submit(current) /\ UNCHANGED <<swap, work>> /\ UNCHANGED Others
        /\ current' = current /\ at' = "executing"
    BY <1>4 DEF Send, Submit, Goto, Others
  <2>2. JobInv'
    BY <1>1, <2>1 DEF JobInv, DeploySteps
  <2>3. ASSUME NEW r, RecordOK(r, journal, debit), r.active = work.active,
               r.action = work.action
        PROVE  RecordOK(r, journal', debit')
    <3>1. ASSUME NEW q \in Recoveries PROVE StatusOK(r, q, journal', debit')
      <4>1. StatusOK(r, q, journal, debit)
        BY <2>3 DEF RecordOK
      <4>2. /\ Deployment(q) \in Debits /\ Recovery(q) \in Debits
            /\ Deployment(q) # Recovery(q)
            /\ q # work.active => current # Deployment(q) /\ current # Recovery(q)
        BY <1>1, <1>2, Names
      <4>3. \A l \in Debits :
              /\ l # current => journal'[l] = journal[l] /\ debit'[l] = debit[l]
              /\ l = current => journal'[l] = "submitting" /\ debit'[l] = "flying"
        BY <1>2, <2>1 DEF Submit, IInv, TypeOK
      <4>4. CASE q # work.active
        <5>1. /\ journal'[Deployment(q)] = journal[Deployment(q)]
              /\ journal'[Recovery(q)] = journal[Recovery(q)]
              /\ debit'[Recovery(q)] = debit[Recovery(q)]
          BY <4>2, <4>3, <4>4
        <5> QED BY <4>1, <5>1 DEF StatusOK
      <4>5. CASE q = work.active
        <5>1. /\ r.status[q] \in Underway /\ r.active = q
              /\ r.status[q] \notin {"none", "quoted", "recovered", "partial", "failed"}
          BY <2>3, <4>1, <4>5 DEF StatusOK, Underway
        <5>2. CASE current = Deployment(q)
          <6>1. work.action = "deploy-owner"
            BY <1>1, <4>2, <4>5, <5>2
          <6>2. journal'[Recovery(q)] = journal[Recovery(q)]
            BY <4>2, <4>3, <5>2
          <6> QED BY <2>3, <4>1, <5>1, <6>1, <6>2 DEF StatusOK
        <5>3. CASE current = Recovery(q)
          <6>1. work.action = "submit-recovery"
            BY <1>1, <4>2, <4>5, <5>3
          <6>2. journal'[Deployment(q)] = journal[Deployment(q)]
            BY <4>2, <4>3, <5>3
          <6> QED BY <2>3, <4>1, <5>1, <6>1, <6>2 DEF StatusOK
        <5> QED BY <1>1, <4>5, <5>2, <5>3
      <4> QED BY <4>4, <4>5
    <3> QED BY <2>3, <3>1 DEF RecordOK
  <2>4. RecordOK(swap, journal', debit') /\ RecordOK(work, journal', debit')
    BY <1>2, <2>3 DEF IInv
  <2>5. \A l \in Debits : ChainOf(l) = ChainOf(current) /\ journal[l] \in Uncertain
                           => l = current \/ Partners(l, current)
    <3> SUFFICES ASSUME NEW l \in Debits, ChainOf(l) = ChainOf(current),
                        journal[l] \in Uncertain
                 PROVE  l = current \/ Partners(l, current)
      OBVIOUS
    <3>1. l \in Own(work.active)
      BY <1>2 DEF IInv, AloneInv
    <3> QED BY <1>1, <1>2, <3>1 DEF Own, Partners
  <2> QED BY <1>1, <1>2, <2>1, <2>2, <2>4, <2>5, SubmitIInv
<1> QED BY <1>3, <1>4

\* Its answer, or the timeout.
LEMMA ExecutedStep ==
  ASSUME IInv, Executed
  PROVE  IInv'
<1>1. /\ at = "executing" /\ journal[current] = "submitting" /\ UNCHANGED Others
      /\ UNCHANGED debit /\ disabled' = disabled
  BY DEF Executed, IInv, StepInv, world, Others
<1>2. /\ \/ work.action = "fund" /\ current = Funding
         \/ work.action = "deploy-owner" /\ current = Deployment(work.active)
         \/ work.action = "submit-recovery" /\ current = Recovery(work.active)
         \/ current \in {Transfer(t) : t \in Transfers}
      /\ current \in Debits
  <2>1. \/ work.action = "fund" /\ current = Funding
        \/ work.action = "deploy-owner" /\ current = Deployment(work.active)
        \/ work.action = "submit-recovery" /\ current = Recovery(work.active)
        \/ current \in {Transfer(t) : t \in Transfers}
    BY <1>1 DEF IInv, JobInv
  <2> QED BY <2>1, Names, ActiveJob DEF Recovering
<1>3. PICK status \in {WaasStatus(current), "unknown"} :
        /\ journal' = [journal EXCEPT ![current] = status]
        /\ CASE current = Funding -> SaveAndRest([work EXCEPT !.funding = status])
             [] work.active # None /\ current = Deployment(work.active) ->
                  Continue(work, "deployed") /\ UNCHANGED swap
             [] work.active # None /\ current = Recovery(work.active) ->
                  SaveAndRest(Pending(work))
             [] OTHER -> Rest(swap) /\ UNCHANGED swap
  BY DEF Executed
<1>4. status \in Statuses \ {"submitting"} /\ DebitOK(status, debit[current])
  BY <1>1, <1>2, WaasOK DEF Statuses, Uncertain, DebitOK
<1>5. Soft
  BY <1>1, <1>2, <1>3, <1>4, SoftJournal DEF Uncertain
<1>6. CASE current = Funding
  <2> DEFINE r == [work EXCEPT !.funding = status]
  <2>1. /\ r \in Records /\ r.active = work.active /\ r.action = work.action
        /\ r.status = work.status
    BY <1>4, FundingTyped DEF IInv, TypeOK
  <2>2. SaveAndRest(r)
    <3>1. Funding # Deployment(work.active) /\ Funding # Recovery(work.active)
      BY DEF Funding, Deployment, Recovery
    <3> QED BY <1>3, <1>6, <3>1
  <2> HIDE DEF r
  <2> QED BY <1>1, <1>5, <2>1, <2>2, RestKept
<1>7. CASE work.action = "deploy-owner" /\ current = Deployment(work.active)
  <2>1. work.active \in Recoveries /\ work.active # None /\ Recovery(work.active) \in Debits
    BY <1>7, ActiveJob DEF Recovering
  <2>2. current # Funding /\ current # Recovery(work.active)
    BY <1>7, <2>1, Names
  <2>3. /\ work' = work /\ swap' = swap /\ at' = "deployed" /\ current' = current
    BY <1>3, <1>7, <2>1, <2>2 DEF Continue, Goto
  <2>4. JobInv'
    BY <1>7, <2>3 DEF JobInv, DeploySteps
  <2>5. journal'[Recovery(work.active)] \notin Uncertain \cup {"executed"}
    BY <1>1, <1>3, <1>7, <2>1, <2>2 DEF IInv, StepInv, TypeOK
  <2>6. journal'[Deployment(work.active)] # "submitting"
    BY <1>2, <1>3, <1>4, <1>7 DEF IInv, TypeOK
  <2>7. StepInv'
    BY <2>3, <2>5, <2>6 DEF StepInv, Resting
  <2> QED BY <1>1, <1>5, <2>3, <2>4, <2>7, GoOn DEF Steps
<1>8. CASE work.action = "submit-recovery" /\ current = Recovery(work.active)
  <2>1. work.active \in Recoveries /\ work.active # None
    BY <1>8, ActiveJob DEF Recovering
  <2>2. current # Funding /\ current # Deployment(work.active)
    BY <1>8, <2>1, Names
  <2> QED BY <1>1, <1>3, <1>5, <1>8, <2>1, <2>2, PendingRests
<1>9. CASE current \in {Transfer(t) : t \in Transfers}
  <2>1. /\ current # Funding /\ current # Deployment(work.active)
        /\ current # Recovery(work.active)
    BY <1>9 DEF Funding, Deployment, Recovery, Transfer
  <2>2. Rest(swap) /\ UNCHANGED swap
    BY <1>3, <2>1
  <2>3. RecordOK(swap', journal', debit')
    BY <1>5, <2>2, LaterOK DEF IInv, Soft
  <2> QED BY <1>1, <1>5, <2>2, <2>3, RestIInv DEF IInv, TypeOK
<1> QED BY <1>2, <1>6, <1>7, <1>8, <1>9

-------------------------------------------------------------------------------
(* A job begins; polls, lifecycle, the process                             *)

\* A record that is re-read stays on its recovery and its step is one that the
\* journal allows.
LEMMA RereadOK ==
  ASSUME IInv
  PROVE  LET r == Reread(swap)
         IN  /\ r \in Records /\ RecordOK(r, journal, debit)
             /\ r.active = swap.active /\ r.status = swap.status
             /\ \/ r.action = swap.action
                \/ r.action = "observe-recovery" /\ swap.action \in Recovering
             /\ r.action # "observe-recovery" /\ r.active # None =>
                  journal[Recovery(r.active)] \notin Uncertain \cup {"executed"}
<1>1. swap \in Records /\ RecordOK(swap, journal, debit)
  BY DEF IInv, TypeOK
<1>2. CASE swap.action = "fund"
  <2>1. Reread(swap) = Refunding(swap) /\ swap.active = None
    BY <1>1, <1>2 DEF Reread, RecordOK, Recovering
  <2> QED BY <1>1, <2>1, RefundingTyped, SameOK DEF IInv
<1>3. CASE /\ swap.action # "fund" /\ swap.active # None
           /\ journal[Recovery(swap.active)] \in Uncertain \cup {"executed"}
  <2> DEFINE m == [swap EXCEPT !.action = "observe-recovery"]
  <2>1. Reread(swap) = m
    BY <1>3 DEF Reread
  <2>2. /\ "observe-recovery" \in Actions /\ "observe-recovery" \in Recovering
        /\ swap.action \in Recovering
    BY <1>1, <1>3 DEF Actions, Recovering, RecordOK
  <2>3. /\ m \in Records /\ m.active = swap.active /\ m.status = swap.status
        /\ m.action = "observe-recovery"
    BY <1>1, <2>2 DEF Records
  <2> HIDE DEF m
  <2>4. journal[Deployment(swap.active)] # "submitting"
    <3>1. swap.active \in Recoveries
      BY <1>1, <1>3 DEF Records
    <3> QED BY <1>1, <1>3, <3>1 DEF RecordOK, StatusOK, Uncertain
  <2>5. RecordOK(m, journal, debit)
    BY <1>1, <1>3, <2>2, <2>3, <2>4, SteppedOK
  <2> QED BY <2>1, <2>2, <2>3, <2>5
<1>4. CASE /\ swap.action # "fund"
           /\ ~(/\ swap.active # None
                /\ journal[Recovery(swap.active)] \in Uncertain \cup {"executed"})
  <2>1. Reread(swap) = swap
    BY <1>4 DEF Reread
  <2> QED BY <1>1, <1>4, <2>1
<1> QED BY <1>2, <1>3, <1>4

LEMMA AdvanceStep ==
  ASSUME IInv, Advance
  PROVE  IInv'
<1> DEFINE r == Reread(swap)
<1>1. /\ r \in Records /\ RecordOK(r, journal, debit)
      /\ r.active = swap.active /\ r.status = swap.status
      /\ \/ r.action = swap.action
         \/ r.action = "observe-recovery" /\ swap.action \in Recovering
      /\ r.action # "observe-recovery" /\ r.active # None =>
           journal[Recovery(r.active)] \notin Uncertain \cup {"executed"}
  BY RereadOK
<1>2. /\ work' = r /\ at' = r.action /\ swap' = swap /\ swap.action # "none"
      /\ UNCHANGED Others /\ UNCHANGED debit /\ disabled' = disabled
      /\ current' = CASE r.action = "fund" -> Funding
                      [] r.action = "deploy-owner" -> Deployment(swap.active)
                      [] r.action = "observe" -> None
                      [] OTHER -> Recovery(swap.active)
      /\ journal' = IF swap.active = None THEN journal
                    ELSE [journal EXCEPT ![Deployment(swap.active)] =
                                             Polled(Deployment(swap.active))]
  BY DEF Advance, Others, world
<1> HIDE DEF r
<1>3. swap.active \in Recoveries \cup {None} /\ journal \in [Debits -> Statuses]
  BY DEF IInv, TypeOK, Records
<1>4. swap.active # None => Deployment(swap.active) \in Debits /\ Recovery(swap.active) \in Debits
  BY <1>3, Names
<1>5. Soft
  <2>1. CASE swap.active = None
    BY <1>2, <2>1, SoftStill
  <2>2. CASE swap.active # None
    BY <1>2, <1>4, <2>2, PolledOK, SoftJournal
  <2> QED BY <2>1, <2>2
<1>6. RecordOK(swap', journal', debit') /\ RecordOK(work', journal', debit')
  BY <1>1, <1>2, <1>5, LaterOK DEF IInv, Soft
<1>7. r.action \in (Recovering \cup {"fund", "observe"})
  BY <1>1, <1>2 DEF Records, Actions, Recovering
<1>8. r.action \in Recovering <=> swap.active # None
  BY <1>1 DEF RecordOK
<1>9. at' \in Steps /\ at' # "idle" /\ current' \in Debits \cup {None}
  BY <1>2, <1>4, <1>7, <1>8, Names DEF Steps, Recovering
<1>10. CopyInv'
  BY <1>1, <1>2, <1>9 DEF CopyInv
<1>11. JobInv'
  BY <1>1, <1>2, <1>7, <1>8 DEF JobInv, DeploySteps, Recovering
<1>12. StepInv'
  <2>1. at' \in Recovering \cup {"fund", "observe"}
    BY <1>2, <1>7
  <2>2. swap.active # None /\ ~disabled => journal'[Deployment(swap.active)] # "submitting"
    <3> SUFFICES ASSUME swap.active # None, ~disabled
                 PROVE  journal'[Deployment(swap.active)] # "submitting"
      OBVIOUS
    <3>1. journal'[Deployment(swap.active)] = Polled(Deployment(swap.active))
      BY <1>2, <1>3, <1>4
    <3> QED BY <1>4, <3>1, PolledOK
  <2>3. r.action # "observe-recovery" /\ r.active # None =>
          journal'[Recovery(r.active)] \notin Uncertain \cup {"executed"}
    <3> SUFFICES ASSUME r.action # "observe-recovery", r.active # None
                 PROVE  journal'[Recovery(r.active)] = journal[Recovery(r.active)]
      BY <1>1
    <3>1. Recovery(r.active) # Deployment(swap.active)
      BY DEF Recovery, Deployment
    <3> QED BY <1>1, <1>2, <1>3, <1>4, <3>1
  <2> QED BY <1>1, <1>2, <2>1, <2>2, <2>3 DEF StepInv, Resting, Recovering
<1> QED BY <1>1, <1>2, <1>3, <1>5, <1>6, <1>9, <1>10, <1>11, <1>12, KeptIInv
        DEF IInv, TypeOK

LEMMA CrashStep ==
  ASSUME IInv, Crash
  PROVE  IInv'
<1>1. Soft /\ UNCHANGED Others /\ UNCHANGED <<swap, journal, debit>>
  BY SoftStill DEF Crash, durable, world, Others
<1>2. Rest(swap')
  BY <1>1 DEF Crash
<1> QED BY <1>1, <1>2, RestIInv DEF IInv, TypeOK

\* Where no job is under way a poll changes the journal alone.
LEMMA PollDebitStep ==
  ASSUME IInv, NEW k \in Debits, PollDebit(k)
  PROVE  IInv'
<1>1. /\ UNCHANGED <<swap, at, current, work, debit>> /\ UNCHANGED Others /\ at = "idle"
      /\ journal[k] \in Uncertain
      /\ journal' = [journal EXCEPT ![k] = WaasStatus(k)]
  BY DEF PollDebit, volatile, world, Others, Free
<1>2. Soft
  BY <1>1, WaasOK, SoftJournal DEF Uncertain
<1>3. swap' = work' /\ Rest(swap') /\ RecordOK(swap', journal', debit')
  BY <1>1, <1>2, LaterOK DEF IInv, CopyInv, Rest, Soft
<1> QED BY <1>1, <1>2, <1>3, RestIInv DEF IInv, TypeOK

LEMMA SetDisabledStep ==
  ASSUME IInv, NEW b \in BOOLEAN, SetDisabled(b)
  PROVE  IInv'
<1>1. /\ at = "idle" /\ UNCHANGED <<swap, journal, signing, at, current, work>>
      /\ UNCHANGED world /\ UNCHANGED debit /\ disabled' = b
  BY DEF SetDisabled, Free, volatile, world
<1>2. TypeOK'
  BY <1>1 DEF IInv, TypeOK, world
<1>3. CopyInv' /\ JobInv' /\ StepInv' /\ AloneInv' /\ OneOutInv'
  BY <1>1 DEF IInv, CopyInv, JobInv, StepInv, AloneInv, OneOutInv, DeploySteps, Resting
<1>4. DebitInv' /\ RecordOK(swap, journal, debit)' /\ RecordOK(work, journal, debit)'
  BY <1>1 DEF IInv, DebitInv, RecordOK, StatusOK
<1> QED BY <1>2, <1>3, <1>4 DEF IInv

-------------------------------------------------------------------------------
(* WaaS, the chains, Trails and the clock                                  *)

\* The world moves, the wallet stands still.
LEMMA WorldMoves ==
  ASSUME IInv, UNCHANGED <<durable, volatile>>, TypeOK', DebitInv',
         Later(journal, debit, journal', debit')
  PROVE  IInv'
<1>1. UNCHANGED <<swap, journal, signing, disabled, at, current, work>>
  BY DEF durable, volatile
<1>2. CopyInv' /\ JobInv' /\ StepInv' /\ AloneInv' /\ OneOutInv'
  BY <1>1 DEF IInv, CopyInv, JobInv, StepInv, AloneInv, OneOutInv
<1>3. RecordOK(swap', journal', debit') /\ RecordOK(work', journal', debit')
  BY <1>1, LaterOK DEF IInv
<1> QED BY <1>2, <1>3 DEF IInv

LEMMA WaasHandlesStep ==
  ASSUME IInv, NEW k \in Debits, WaasHandles(k)
  PROVE  IInv'
<1>1. UNCHANGED <<swap, journal, signing, disabled, at, current, work, open, intent,
                  holds, code>> /\ UNCHANGED <<durable, volatile>>
  BY DEF WaasHandles, durable, volatile
<1>2. PICK d \in {"quoted", "pending", "success", "reverted", "failed"} :
        /\ debit' = [debit EXCEPT ![k] = d]
        /\ \/ debit[k] = "flying" /\ d \in {"quoted", "pending"}
           \/ debit[k] = "pending" /\ d \in {"success", "reverted", "failed"}
           \/ debit[k] = "quoted" /\ d = "failed"
  BY DEF WaasHandles
<1>3. TypeOK'
  BY <1>1, <1>2 DEF IInv, TypeOK
<1>4. \A l \in Debits : l # k => debit'[l] = debit[l]
  BY <1>2 DEF IInv, TypeOK
<1>5. debit'[k] = d
  BY <1>2 DEF IInv, TypeOK
<1>6. DebitInv'
  <2> SUFFICES ASSUME NEW l \in Debits PROVE DebitOK(journal[l], debit'[l])
    BY <1>1 DEF DebitInv
  <2>1. DebitOK(journal[l], debit[l])
    BY DEF IInv, DebitInv
  <2> QED BY <1>2, <1>4, <1>5, <2>1 DEF DebitOK
<1>7. Later(journal, debit, journal', debit')
  BY <1>1, <1>2, <1>4, <1>5, Names DEF Later
<1> QED BY <1>1, <1>3, <1>6, <1>7, WorldMoves

LEMMA OutsideStep ==
  ASSUME IInv, \/ TrailsMoves
               \/ \E k \in Debits : QuoteEnds(k)
               \/ \E r \in Recoveries : ReviewEnds(r) \/ CodeAppears(r)
  PROVE  IInv'
<1>1. UNCHANGED <<durable, volatile>> /\ UNCHANGED debit
  BY DEF TrailsMoves, QuoteEnds, ReviewEnds, CodeAppears
<1>2. UNCHANGED <<swap, journal, signing, disabled, at, current, work>>
  BY <1>1 DEF durable, volatile
<1>3. TypeOK'
  BY <1>1, <1>2 DEF IInv, TypeOK, TrailsMoves, QuoteEnds, ReviewEnds, CodeAppears,
                    Intents, TerminalUpstream
<1>4. DebitInv' /\ Later(journal, debit, journal', debit')
  BY <1>1, <1>2, SoftStill DEF Soft
<1> QED BY <1>1, <1>3, <1>4, WorldMoves

-------------------------------------------------------------------------------
(* The invariant                                                           *)

LEMMA InitIInv == Init => IInv
<1> SUFFICES ASSUME Init PROVE IInv
  OBVIOUS
<1>1. PICK p \in {"quoted", "failed", "funding", "settling"}, a \in {"none", "fund", "observe"},
           c \in BOOLEAN, f \in {"absent", "quoted", "executed"}, paid \in BOOLEAN :
        /\ swap = Start(p, a, c, f, paid)
        /\ paid <=> f = "executed"
  BY DEF Init, Funded
<1>2. /\ swap \in Records /\ swap.active = None /\ swap.action \notin Recovering
      /\ swap.funding = f /\ swap.fundingConfirmed = paid
      /\ \A q \in Recoveries : swap.status[q] = "none"
  <2>1. p \in Phases /\ a \in Actions /\ f \in Statuses /\ "none" \in Stages
    BY DEF Phases, Actions, Statuses, Stages
  <2> QED BY <1>1, <2>1 DEF Start, Records, Recovering
<1>3. \A k \in Debits :
        \/ /\ k = Funding /\ journal[k] = f
           /\ debit[k] = IF f = "absent" THEN "none" ELSE IF paid THEN "success" ELSE "quoted"
        \/ k # Funding /\ journal[k] = "absent" /\ debit[k] = "none"
  BY <1>2 DEF Init
<1>4. TypeOK
  <2>1. journal \in [Debits -> Statuses]
    BY <1>2 DEF Init, Statuses
  <2> QED BY <1>2, <2>1 DEF Init, TypeOK, Steps, Intents
<1>5. DebitInv
  BY <1>1, <1>3 DEF DebitInv, DebitOK
<1>6. RecordOK(swap, journal, debit)
  <2> SUFFICES ASSUME NEW q \in Recoveries PROVE StatusOK(swap, q, journal, debit)
    BY <1>2 DEF RecordOK
  <2>1. journal[Deployment(q)] = "absent" /\ journal[Recovery(q)] = "absent" /\ q # None
    BY <1>3, Names, NamesAssumption
  <2> QED BY <1>2, <2>1 DEF StatusOK, Underway, Uncertain
<1>7. work = swap /\ at = "idle" /\ current = None
  BY DEF Init
<1>8. CopyInv /\ JobInv /\ StepInv
  BY <1>7 DEF CopyInv, JobInv, StepInv, Resting, DeploySteps
<1>9. AloneInv
  BY <1>2 DEF AloneInv
<1>10. OneOutInv
  BY <1>3 DEF OneOutInv, Uncertain
<1> QED BY <1>4, <1>5, <1>6, <1>7, <1>8, <1>9, <1>10 DEF IInv

LEMMA StutterIInv ==
  ASSUME IInv, UNCHANGED vars
  PROVE  IInv'
<1>1. UNCHANGED <<durable, volatile>> /\ UNCHANGED <<swap, journal, signing, disabled, at,
        current, work, debit, open, intent, holds, code>>
  BY DEF vars, durable, volatile, world
<1>2. TypeOK'
  BY <1>1 DEF IInv, TypeOK
<1>3. DebitInv' /\ Later(journal, debit, journal', debit')
  BY <1>1, SoftStill DEF Soft
<1> QED BY <1>1, <1>2, <1>3, WorldMoves

LEMMA JobIInv ==
  ASSUME IInv, Job
  PROVE  IInv'
<1>1. CASE \/ Fail \/ Changed \/ PrepareRecord \/ PrepareAnswered \/ NotSponsored \/ Send
  BY <1>1, FailStep, ChangedStep, PrepareRecordStep, PrepareAnsweredStep,
     NotSponsoredStep, SendStep
<1>2. CASE \/ DeployedAlready \/ DeployOwner \/ DeployQuoted \/ DeployAgain
           \/ DeployFailed \/ Deployed
  BY <1>2, DeployedAlreadyStep, DeployOwnerStep, DeployQuotedStep, DeployAgainStep,
     DeployFailedStep, DeployedStep
<1>3. CASE \/ SignRecovery \/ SignRecord \/ SignAnswered \/ BuildRecovery \/ Built
  BY <1>3, SignRecoveryStep, SignRecordStep, SignAnsweredStep, BuildRecoveryStep, BuiltStep
<1>4. CASE \/ SubmitRecovery \/ SubmittedAlready \/ ObserveRecoveryPoll \/ ObserveRecovery
  BY <1>4, SubmitRecoveryStep, SubmittedAlreadyStep, ObserveRecoveryPollStep,
     ObserveRecoveryStep
<1>5. CASE \/ Fund \/ FundRefused \/ FundRead \/ Observe \/ Executed
  BY <1>5, FundStep, FundRefusedStep, FundReadStep, ObserveStep, ExecutedStep
<1> QED BY <1>1, <1>2, <1>3, <1>4, <1>5 DEF Job

LEMMA NextIInv == IInv /\ [Next]_vars => IInv'
<1> SUFFICES ASSUME IInv, [Next]_vars PROVE IInv'
  OBVIOUS
<1>1. CASE Job
  BY <1>1, JobIInv
<1>2. CASE Crash \/ Expire \/ Advance
  BY <1>2, CrashStep, ExpireStep, AdvanceStep
<1>3. ASSUME NEW r \in Recoveries, PrepareRecovery(r) \/ ConfirmRecovery(r)
      PROVE  IInv'
  BY <1>3, PrepareRecoveryStep, ConfirmRecoveryStep
<1>4. ASSUME NEW t \in Transfers, Execute(t)
      PROVE  IInv'
  BY <1>4, ExecuteStep
<1>5. ASSUME NEW k \in Debits, PollDebit(k) \/ WaasHandles(k)
      PROVE  IInv'
  BY <1>5, PollDebitStep, WaasHandlesStep
<1>6. ASSUME NEW b \in BOOLEAN, SetDisabled(b)
      PROVE  IInv'
  BY <1>6, SetDisabledStep
<1>7. CASE \/ TrailsMoves
           \/ \E k \in Debits : QuoteEnds(k)
           \/ \E r \in Recoveries : ReviewEnds(r) \/ CodeAppears(r)
  BY <1>7, OutsideStep
<1>8. CASE UNCHANGED vars
  BY <1>8, StutterIInv
<1> QED BY <1>1, <1>2, <1>3, <1>4, <1>5, <1>6, <1>7, <1>8 DEF Next

\* The journal, the record and the copy a job works on agree as described above.
THEOREM RecoveryInvariant == Spec => []IInv
BY InitIInv, NextIInv, PTL DEF Spec

-------------------------------------------------------------------------------
(* What it says of the wallet                                              *)

\* What is out, the journal knows to be uncertain.
LEMMA OutIsUncertain ==
  ASSUME IInv, NEW k \in Debits
  PROVE  Out(k) <=> journal[k] \in Uncertain
<1>1. DebitOK(journal[k], debit[k]) /\ journal[k] \in Statuses
  BY DEF IInv, DebitInv, TypeOK
<1> QED BY <1>1 DEF Out, DebitOK, Statuses, Uncertain

\* Every variable holds what the code can put there (trails/swaps.ts,
\* server-wallet.ts).
THEOREM RecoveryTypeCorrect == Spec => []TypeOK
BY RecoveryInvariant, PTL DEF IInv

\* Of all debits of a chain at most one is out, except a recovery and its own
\* deployment (available, recoveryAllowed, reservedChain).
THEOREM OneRecoveryPerChainCorrect == Spec => []OneRecoveryPerChain
<1>1. IInv => OneRecoveryPerChain
  BY OutIsUncertain DEF IInv, OneOutInv, OneRecoveryPerChain
<1> QED BY <1>1, RecoveryInvariant, PTL

\* No transaction of a recovery is out beside the funding of its swap
\* (recoveryAllowed).
THEOREM NeverRacesFundingCorrect == Spec => []NeverRacesFunding
<1>1. ASSUME IInv PROVE NeverRacesFunding
  <2> SUFFICES ASSUME Out(Funding), NEW r \in Recoveries
               PROVE  journal[Deployment(r)] # "submitting" /\ ~Out(Recovery(r))
    BY DEF NeverRacesFunding
  <2>1. /\ Funding \in Debits /\ Recovery(r) \in Debits
        /\ Funding # Deployment(r) /\ Funding # Recovery(r)
    BY Names
  <2>2. journal[Funding] \in Uncertain
    BY <1>1, <2>1, OutIsUncertain
  <2>3. swap.active # r
    BY <1>1, <2>1, <2>2, NamesAssumption DEF IInv, AloneInv, Own
  <2> QED BY <1>1, <2>1, <2>3, OutIsUncertain DEF IInv, RecordOK, StatusOK
<1> QED BY <1>1, RecoveryInvariant, PTL

\* The chain of a recovery that may be out stays reserved for it
\* (reservedChain, advance).
THEOREM OutIsReservedCorrect == Spec => []OutIsReserved
<1>1. ASSUME IInv PROVE OutIsReserved
  <2> SUFFICES ASSUME NEW r \in Recoveries, Out(Recovery(r))
               PROVE  Reserved(Chain(r)) /\ swap.active = r
    BY DEF OutIsReserved
  <2>1. swap.active = r /\ r # None
    BY <1>1, Names, OutIsUncertain, NamesAssumption DEF IInv, RecordOK, StatusOK
  <2>2. swap.action # "none"
    BY <1>1, <2>1 DEF IInv, RecordOK, Recovering
  <2> QED BY <2>1, <2>2 DEF Reserved
<1> QED BY <1>1, RecoveryInvariant, PTL

\* What the record says became of a recovery is what the chain has (advance,
\* observeRecovery).
THEOREM RecoveryOutcomeTrueCorrect == Spec => []RecoveryOutcomeTrue
<1>1. IInv => RecoveryOutcomeTrue
  BY DEF IInv, RecordOK, StatusOK, RecoveryOutcomeTrue
<1> QED BY <1>1, RecoveryInvariant, PTL

-------------------------------------------------------------------------------
(* What may leave                                                          *)

\* A debit that begins to fly was submitted in this step.
LEMMA OnlySubmitLeaves ==
  ASSUME IInv, [Next]_vars, NEW k \in Debits, Leaves(k)
  PROVE  \/ Send /\ k = current
         \/ Fund /\ k = Funding
         \/ \E t \in Transfers : k = Transfer(t)
<1>1. debit' # debit
  BY DEF Leaves
<1>2. debit \in [Debits -> {"none", "quoted", "flying", "pending", "success",
                            "reverted", "failed"}]
  BY DEF IInv, TypeOK
<1>3. ~PrepareAnswered
  <2>1. PrepareAnswered => debit' = debit \/ debit' = [debit EXCEPT ![current] = "quoted"]
    BY DEF PrepareAnswered
  <2> QED BY <1>2, <2>1 DEF Leaves
<1>4. \A l \in Debits : ~WaasHandles(l)
  BY <1>2 DEF WaasHandles, Leaves
<1>5. \/ Send \/ Fund \/ \E t \in Transfers : Execute(t)
  <2>1. ~Fail /\ ~Changed /\ ~PrepareRecord /\ ~NotSponsored
    BY <1>1 DEF Fail, Changed, PrepareRecord, NotSponsored, world
  <2>2. /\ ~DeployedAlready /\ ~DeployOwner /\ ~DeployQuoted /\ ~DeployAgain
        /\ ~DeployFailed /\ ~Deployed
    BY <1>1 DEF DeployedAlready, DeployOwner, DeployQuoted, DeployAgain, DeployFailed,
                Deployed, world
  <2>3. ~SignRecovery /\ ~SignRecord /\ ~SignAnswered /\ ~BuildRecovery /\ ~Built
    BY <1>1 DEF SignRecovery, SignRecord, SignAnswered, BuildRecovery, Built, world
  <2>4. /\ ~SubmitRecovery /\ ~SubmittedAlready /\ ~ObserveRecoveryPoll
        /\ ~ObserveRecovery
    BY <1>1 DEF SubmitRecovery, SubmittedAlready, ObserveRecoveryPoll, ObserveRecovery, world
  <2>5. ~FundRefused /\ ~FundRead /\ ~Observe /\ ~Executed
    BY <1>1 DEF FundRefused, FundRead, Observe, Executed, world
  <2>6. ~Crash /\ ~Expire /\ ~Advance /\ ~TrailsMoves
    BY <1>1 DEF Crash, Expire, Advance, TrailsMoves, world
  <2>7. \A r \in Recoveries : /\ ~PrepareRecovery(r) /\ ~ConfirmRecovery(r)
                              /\ ~ReviewEnds(r) /\ ~CodeAppears(r)
    BY <1>1 DEF PrepareRecovery, ConfirmRecovery, ReviewEnds, CodeAppears, world
  <2>8. /\ \A l \in Debits : ~PollDebit(l) /\ ~QuoteEnds(l)
        /\ \A b \in BOOLEAN : ~SetDisabled(b)
        /\ vars' # vars
    BY <1>1 DEF PollDebit, QuoteEnds, SetDisabled, vars, world
  <2>9. Job \/ \E t \in Transfers : Execute(t)
    BY <1>4, <2>6, <2>7, <2>8 DEF Next
  <2> QED BY <1>3, <2>1, <2>2, <2>3, <2>4, <2>5, <2>9 DEF Job
<1>6. ASSUME NEW l, debit' = [debit EXCEPT ![l] = "flying"] PROVE k = l
  BY <1>2, <1>6 DEF Leaves
<1> QED BY <1>1, <1>5, <1>6 DEF Send, Fund, Execute, Submit

\* A transaction of a recovery leaves only while its owner's confirmation stands,
\* alone and from an enabled wallet (enabled, confirmRecovery, deployOwner,
\* submitRecovery).
THEOREM RecoveryAuthorizedCorrect == Spec => RecoveryAuthorized
<1> DEFINE Sanctioned ==
      \A r \in Recoveries : Leaves(Recovery(r)) \/ Leaves(Deployment(r)) =>
        /\ swap.active = r /\ ~disabled
        /\ \A q \in Recoveries \ {r} : swap.status[q] \in
             {"none", "quoted", "recovered", "partial", "failed"}
<1>1. ASSUME IInv, [Next]_vars PROVE Sanctioned
  <2> SUFFICES ASSUME NEW r \in Recoveries, Leaves(Recovery(r)) \/ Leaves(Deployment(r))
               PROVE  /\ swap.active = r /\ ~disabled
                      /\ \A q \in Recoveries \ {r} : swap.status[q] \in
                           {"none", "quoted", "recovered", "partial", "failed"}
    OBVIOUS
  <2>1. PICK k \in {Recovery(r), Deployment(r)} : Leaves(k)
    OBVIOUS
  <2>2. k \in Debits /\ k # Funding /\ \A t \in Transfers : k # Transfer(t)
    BY <2>1, Names
  <2>3. Send /\ k = current
    BY <1>1, <2>1, <2>2, OnlySubmitLeaves
  <2>4. /\ at = "sending" /\ ~disabled /\ work.action \in Recovering
        /\ \/ current = Deployment(work.active)
           \/ current = Recovery(work.active)
    BY <1>1, <2>3 DEF Send, IInv, JobInv, StepInv, Recovering
  <2>5. work.active = r /\ swap.active = r
    BY <1>1, <2>1, <2>3, <2>4, ActiveJob, Names
  <2>6. ASSUME NEW q \in Recoveries \ {r}
        PROVE  swap.status[q] \in {"none", "quoted", "recovered", "partial", "failed"}
    <3>1. swap.status[q] \in Stages /\ swap.status[q] \notin Underway
      BY <1>1, <2>5 DEF IInv, TypeOK, Records, RecordOK, StatusOK
    <3> QED BY <3>1 DEF Stages, Underway
  <2> QED BY <2>4, <2>5, <2>6
<1>2. RecoveryAuthorized <=> [][Sanctioned]_vars
  BY DEF RecoveryAuthorized
<1> QED BY <1>1, <1>2, RecoveryInvariant, PTL DEF Spec

-------------------------------------------------------------------------------
(* The debits implement the abstract promise                               *)

\* The initial states correspond: only the funding has been sent by then.
LEMMA PromiseInit == Init => Promise!Init
<1> SUFFICES ASSUME Init PROVE Promise!Init
  OBVIOUS
<1>j. /\ journal = [k \in Debits |-> IF k = Funding THEN swap.funding ELSE "absent"]
      /\ debit = [k \in Debits |-> IF k # Funding \/ swap.funding = "absent" THEN "none"
                                   ELSE IF swap.fundingConfirmed THEN "success"
                                   ELSE "quoted"]
  BY DEF Init
<1>0. \A k \in Debits \ {Funding} : journal[k] = "absent" /\ debit[k] = "none"
  BY <1>j
<1>1. {k \in Debits \ {Funding} : journal[k] \in Uncertain \cup {"executed"}} = {}
  BY <1>0 DEF Uncertain
<1>2. [k \in Debits \ {Funding} |->
         IF debit[k] \in {"success", "reverted"} THEN 1 ELSE 0]
        = [k \in Debits \ {Funding} |-> 0]
  BY <1>0
<1>3. [k \in Debits \ {Funding} |->
         IF journal[k] \in {"executed", "failed"} THEN journal[k] ELSE "open"]
        = [k \in Debits \ {Funding} |-> "open"]
  BY <1>0
<1> QED
  BY <1>1, <1>2, <1>3 DEF Promise!Init

\* The abstract values of the three variables.
Mined == {"success", "reverted"}
Final == {"executed", "failed"}
Unsent == {"absent", "preparing", "quoted"}
Armed == {k \in Debits \ {Funding} : journal[k] \in Uncertain \cup {"executed"}}
Taken == [k \in Debits \ {Funding} |->
            IF debit[k] \in {"success", "reverted"} THEN 1 ELSE 0]
Told  == [k \in Debits \ {Funding} |->
            IF journal[k] \in {"executed", "failed"} THEN journal[k] ELSE "open"]

\* A step that moves one debit, in the journal or in the world, arms, takes,
\* closes or reports it, or is invisible: provided that what is final stays,
\* what may be out is not forgotten, and the chain mines what is uncertain.
LEMMA MoveKeepsPromise ==
  ASSUME NEW k \in Debits, NEW s \in Statuses, NEW d, TypeOK,
         DebitOK(journal[k], debit[k]), DebitOK(s, d),
         journal' = [journal EXCEPT ![k] = s],
         debit' = [debit EXCEPT ![k] = d],
         journal[k] \in Final => s = journal[k],
         journal[k] \in Uncertain => s \in Uncertain \cup Final,
         \/ debit[k] \in Mined <=> d \in Mined
         \/ s = journal[k] /\ s \in Uncertain /\ debit[k] \notin Mined /\ d \in Mined
  PROVE  Promise!Next \/ UNCHANGED <<Armed, Taken, Told>>
<1> USE DEF Mined, Final, Unsent
<1>1. /\ journal[k] \in Statuses /\ journal'[k] = s /\ debit'[k] = d
      /\ \A l \in Debits \ {k} : journal'[l] = journal[l] /\ debit'[l] = debit[l]
  BY DEF TypeOK
<1>2. /\ s = "failed" => d \in {"none", "failed"}
      /\ s = "executed" => d \in {"success", "reverted"}
      /\ journal[k] \in Unsent => debit[k] \notin Mined
  BY DEF DebitOK
<1>f. CASE k = Funding
  <2>1. Armed' = Armed /\ Taken' = Taken /\ Told' = Told
    BY <1>1, <1>f DEF Armed, Taken, Told
  <2> QED
    BY <2>1
<1>3. CASE k # Funding /\ s = journal[k] /\ debit[k] \notin Mined /\ d \in Mined
  <2>1. Armed' = Armed /\ Told' = Told
    BY <1>1, <1>3 DEF Armed, Told
  <2>2. Taken' = [Taken EXCEPT ![k] = 1] /\ Taken[k] = 0
    BY <1>1, <1>3 DEF Taken
  <2>3. k \in Armed /\ Told[k] = "open"
    BY <1>3 DEF Armed, Told, Uncertain
  <2>4. Promise!Take(k)
    BY <1>3, <2>1, <2>2, <2>3 DEF Promise!Take, Armed, Taken, Told
  <2> QED
    BY <1>3, <2>4 DEF Promise!Next
<1>4. CASE k # Funding /\ (debit[k] \in Mined <=> d \in Mined)
  <2>1. Taken' = Taken
    BY <1>1, <1>4 DEF Taken
  <2>2. CASE \/ s = journal[k]
             \/ s \in Uncertain /\ journal[k] \in Uncertain
             \/ {s, journal[k]} \subseteq Unsent
    <3>1. Armed' = Armed
      BY <1>1, <1>4, <2>2 DEF Armed, Uncertain
    <3>2. Told' = Told
      BY <1>1, <1>4, <2>2 DEF Told, Uncertain
    <3> QED
      BY <2>1, <3>1, <3>2
  <2>3. CASE s \in Uncertain /\ journal[k] \in Unsent
    <3>1. k \notin Armed /\ Armed' = Armed \cup {k}
      BY <1>1, <1>4, <2>3 DEF Armed, Uncertain
    <3>2. Told' = Told /\ Told[k] = "open"
      BY <1>1, <1>4, <2>3 DEF Told, Uncertain
    <3>3. Promise!Arm(k)
      BY <1>4, <2>1, <3>1, <3>2 DEF Promise!Arm, Armed, Taken, Told
    <3> QED
      BY <1>4, <3>3 DEF Promise!Next
  <2>4. CASE s = "failed" /\ journal[k] \notin Final
    <3>1. Taken[k] = 0
      BY <1>2, <1>4, <2>4 DEF Taken
    <3>2. Armed' = Armed \ {k}
      BY <1>1, <1>4, <2>4 DEF Armed, Uncertain
    <3>3. Told[k] = "open" /\ Told' = [Told EXCEPT ![k] = "failed"]
      BY <1>1, <1>4, <2>4 DEF Told
    <3>4. Promise!Close(k)
      BY <1>4, <2>1, <3>1, <3>2, <3>3 DEF Promise!Close, Armed, Taken, Told
    <3> QED
      BY <1>4, <3>4 DEF Promise!Next
  <2>5. CASE s = "executed" /\ journal[k] \in Uncertain
    <3>1. Taken[k] = 1
      BY <1>2, <1>4, <2>5 DEF Taken
    <3>2. Armed' = Armed
      BY <1>1, <1>4, <2>5 DEF Armed, Uncertain
    <3>3. Told[k] = "open" /\ Told' = [Told EXCEPT ![k] = "executed"]
      BY <1>1, <1>4, <2>5 DEF Told, Uncertain
    <3>4. Promise!Report(k)
      BY <1>4, <2>1, <3>1, <3>2, <3>3
      DEF Promise!Report, Promise!Verdicts, Armed, Taken, Told
    <3> QED
      BY <1>4, <3>4 DEF Promise!Next
  <2>6. s = "executed" => journal[k] \notin Unsent
    BY <1>2, <1>4
  <2> QED
    BY <1>1, <2>2, <2>3, <2>4, <2>5, <2>6 DEF Statuses, Uncertain
<1> QED
  BY <1>f, <1>3, <1>4

\* What the journal takes from WaaS about a debit is uncertain or final.
LEMMA WaasAnswer ==
  ASSUME NEW k
  PROVE  WaasStatus(k) \in Statuses /\ WaasStatus(k) \in Uncertain \cup Final
BY DEF WaasStatus, Statuses, Uncertain, Final

\* A debit that is sent is a prepared one (deployOwner, submitRecovery).
SendInv == at = "sending" => current \in Debits /\ journal[current] = "quoted"

LEMMA SendInvStep ==
  ASSUME IInv, IInv', SendInv, [Next]_vars
  PROVE  SendInv'
<1> SUFFICES ASSUME at' = "sending"
             PROVE  current' \in Debits /\ journal'[current'] = "quoted"
  BY DEF SendInv
<1>1. ASSUME DeployQuoted \/ SubmitRecovery
      PROVE  current' \in Debits /\ journal'[current'] = "quoted"
  <2>1. at \in {"deploying", "submit-recovery"} /\ Sponsored(current)
        /\ UNCHANGED <<journal, current>>
    BY <1>1 DEF DeployQuoted, SubmitRecovery, Continue, durable
  <2>2. work.action \in Recovering
        /\ current \in {Deployment(work.active), Recovery(work.active)}
    BY <2>1 DEF IInv, JobInv, DeploySteps, Recovering
  <2>3. current \in Debits
    BY <2>2, ActiveJob
  <2> QED
    BY <2>1, <2>3 DEF Sponsored
<1>2. CASE UNCHANGED <<at, current, journal>>
  BY <1>2 DEF SendInv
<1>3. at' # "idle"
  OBVIOUS
<1>4. ~Advance
  <2>1. work'.action \in Actions
    BY DEF IInv, TypeOK, Records
  <2>2. "sending" \notin Actions
    BY DEF Actions, Recovering
  <2> QED
    BY <2>1, <2>2 DEF Advance
<1>5. /\ ~Fail /\ ~Changed /\ ~PrepareRecord /\ ~PrepareAnswered /\ ~NotSponsored
      /\ ~Crash /\ ~Expire
  BY <1>3 DEF Fail, Changed, PrepareRecord, PrepareAnswered, NotSponsored, Crash,
     Expire, SaveAndRest, Rest, Goto
<1>6. /\ ~Send /\ ~DeployedAlready /\ ~DeployOwner /\ ~DeployAgain
      /\ ~DeployFailed /\ ~Deployed
  BY <1>3 DEF Send, Submit, DeployedAlready, DeployOwner, DeployAgain, DeployFailed,
     Deployed, SaveAndRest, Rest, Goto, Continue
<1>7. ~SignRecovery /\ ~SignRecord /\ ~SignAnswered /\ ~BuildRecovery /\ ~Built
  BY <1>3 DEF SignRecovery, SignRecord, SignAnswered, BuildRecovery, Built,
     SaveAndRest, Rest, Goto, Continue
<1>8. /\ ~SubmittedAlready /\ ~ObserveRecovery /\ ~Fund /\ ~FundRefused
      /\ ~FundRead /\ ~Observe
  BY <1>3 DEF SubmittedAlready, ObserveRecovery, Fund, FundRefused, FundRead, Observe,
     Submit, SaveAndRest, Rest, Goto
<1>9. ~Executed /\ ~ObserveRecoveryPoll
  BY <1>3 DEF Executed, ObserveRecoveryPoll, SaveAndRest, Rest, Continue, Goto, volatile
<1>10. /\ \A r \in Recoveries : ~PrepareRecovery(r) /\ ~ConfirmRecovery(r)
       /\ \A t \in Transfers : ~Execute(t)
  BY <1>3 DEF PrepareRecovery, ConfirmRecovery, Execute, Submit, SaveAndRest, Rest, Goto
<1>11. /\ \A k \in Debits : ~PollDebit(k)
       /\ \A b \in BOOLEAN : SetDisabled(b) => UNCHANGED <<at, current, journal>>
  BY DEF PollDebit, SetDisabled, Free, volatile
<1>12. /\ TrailsMoves => UNCHANGED <<at, current, journal>>
       /\ \A r \in Recoveries :
            ReviewEnds(r) \/ CodeAppears(r) => UNCHANGED <<at, current, journal>>
       /\ \A k \in Debits :
            WaasHandles(k) \/ QuoteEnds(k) => UNCHANGED <<at, current, journal>>
       /\ UNCHANGED vars => UNCHANGED <<at, current, journal>>
  BY DEF TrailsMoves, ReviewEnds, CodeAppears, WaasHandles, QuoteEnds, vars, durable,
     volatile
<1>13. ~Job \/ DeployQuoted \/ SubmitRecovery
  BY <1>5, <1>6, <1>7, <1>8, <1>9 DEF Job
<1> QED
  BY <1>1, <1>2, <1>4, <1>5, <1>10, <1>11, <1>12, <1>13 DEF Next

\* Every step is a step of the promise, or a stutter.
LEMMA PromiseStep ==
  ASSUME IInv, IInv', SendInv, [Next]_vars
  PROVE  [Promise!Next]_(Promise!vars)
<1> SUFFICES Promise!Next \/ UNCHANGED <<Armed, Taken, Told>>
  BY DEF Promise!vars, Armed, Taken, Told
<1>t. /\ TypeOK
      /\ journal \in [Debits -> Statuses]
      /\ debit = [k \in Debits |-> debit[k]]
      /\ journal = [k \in Debits |-> journal[k]]
      /\ at = "quoting" => journal[current] = "preparing"
      /\ at = "executing" => journal[current] = "submitting"
  BY DEF IInv, StepInv, TypeOK
<1>d. \A k \in Debits : DebitOK(journal[k], debit[k]) /\ DebitOK(journal[k], debit[k])'
  BY DEF IInv, DebitInv
<1>s. /\ {"preparing", "quoted", "failed", "submitting", "unknown"} \subseteq Statuses
      /\ {"submitting", "unknown"} \subseteq Uncertain
      /\ \A u \in Uncertain : u \notin Final /\ u \notin Unsent
      /\ \A u \in Unsent : u \notin Final
  BY DEF Statuses, Uncertain, Final, Unsent
<1>a. at \in {"deploying", "deployed", "preparing", "quoting", "sending",
              "observe-recovery", "executing"} => current \in Debits
  <2>1. at \in {"deploying", "deployed", "preparing", "quoting", "sending",
                "observe-recovery"}
          => /\ work.action \in Recovering
             /\ current \in {Deployment(work.active), Recovery(work.active)}
    BY DEF IInv, JobInv, DeploySteps, Recovering
  <2>2. at = "executing" =>
          \/ current = Funding
          \/ /\ work.action \in Recovering
             /\ current \in {Deployment(work.active), Recovery(work.active)}
          \/ current \in {Transfer(t) : t \in Transfers}
    BY DEF IInv, JobInv, Recovering
  <2> QED
    BY <2>1, <2>2, ActiveJob, Names
<1> DEFINE Goal == Promise!Next \/ UNCHANGED <<Armed, Taken, Told>>
<1>0. ASSUME UNCHANGED <<journal, debit>> PROVE Goal
  BY <1>0 DEF Armed, Taken, Told
\* A step of the journal alone, one that polls, and one that sends.
<1>j. ASSUME NEW k \in Debits, NEW s \in Statuses, UNCHANGED debit,
             journal' = [journal EXCEPT ![k] = s],
             journal[k] \in Final => s = journal[k],
             journal[k] \in Uncertain => s \in Uncertain \cup Final
      PROVE  Goal
  <2>1. debit' = [debit EXCEPT ![k] = debit[k]] /\ DebitOK(s, debit[k])
    BY <1>t, <1>d, <1>j
  <2> QED
    BY <2>1, <1>t, <1>d, <1>j, MoveKeepsPromise
<1>p. ASSUME NEW k \in Debits, UNCHANGED debit,
             journal' = [journal EXCEPT ![k] = Polled(k)]
      PROVE  Goal
  <2>1. CASE journal[k] \in Uncertain /\ ~disabled
    BY <1>j, <1>p, <1>s, <2>1, WaasAnswer DEF Polled
  <2>2. CASE ~(journal[k] \in Uncertain /\ ~disabled)
    <3>1. journal' = journal
      BY <1>t, <1>p, <2>2 DEF Polled
    <3> QED
      BY <1>0, <1>p, <3>1
  <2> QED
    BY <2>1, <2>2
<1>u. ASSUME NEW k \in Debits, Submit(k), journal[k] \in Unsent PROVE Goal
  <2>1. debit[k] \notin Mined /\ DebitOK("submitting", "flying")
    BY <1>d, <1>u DEF DebitOK, Unsent, Mined
  <2> QED
    BY <1>t, <1>s, <1>d, <1>u, <2>1, MoveKeepsPromise DEF Submit, Mined
<1> HIDE DEF Goal
<1>1. ASSUME PrepareRecord PROVE Goal
  <2>1. /\ current \in Debits /\ journal[current] = "absent" /\ UNCHANGED debit
        /\ journal' = [journal EXCEPT ![current] = "preparing"]
    BY <1>a, <1>1 DEF PrepareRecord, world
  <2> QED
    BY <1>j, <1>s, <2>1 DEF Unsent
<1>2. ASSUME PrepareAnswered PROVE Goal
  <2>1. current \in Debits /\ journal[current] = "preparing" /\ debit[current] = "none"
    BY <1>a, <1>t, <1>d, <1>2 DEF PrepareAnswered, DebitOK
  <2>2. CASE /\ journal' = [journal EXCEPT ![current] = "quoted"]
             /\ debit' = [debit EXCEPT ![current] = "quoted"]
    <3>1. DebitOK("quoted", "quoted")
      BY DEF DebitOK
    <3> QED
      BY <2>1, <2>2, <3>1, <1>t, <1>s, <1>d, MoveKeepsPromise DEF Mined, Unsent, Goal
  <2>3. CASE journal' = [journal EXCEPT ![current] = "failed"] /\ UNCHANGED debit
    BY <1>s, <1>j, <2>1, <2>3 DEF Unsent
  <2> QED
    BY <1>2, <2>2, <2>3 DEF PrepareAnswered
<1>3. ASSUME Send PROVE Goal
  <2>1. CASE UNCHANGED <<journal, debit>>
    BY <1>0, <2>1
  <2>2. CASE Submit(current)
    BY <1>3, <1>u, <2>2 DEF Send, SendInv, Unsent
  <2> QED
    BY <1>3, <2>1, <2>2 DEF Send
<1>4. ASSUME DeployAgain \/ DeployFailed PROVE Goal
  <2>1. current \in Debits /\ UNCHANGED debit
    BY <1>a, <1>4 DEF DeployAgain, DeployFailed, world
  <2>2. \/ journal' = [journal EXCEPT ![current] = Polled(current)]
        \/ journal' = [journal EXCEPT ![current] = journal[current]]
    BY <1>4 DEF DeployAgain, DeployFailed
  <2> QED
    BY <1>0, <1>t, <1>p, <2>1, <2>2
<1>5. ASSUME ObserveRecoveryPoll PROVE Goal
  BY <1>a, <1>p, <1>5 DEF ObserveRecoveryPoll, world
<1>6. ASSUME Fund PROVE Goal
  BY <1>u, <1>6, Names DEF Fund, Unsent
<1>7. ASSUME FundRead PROVE Goal
  BY <1>p, <1>7, Names DEF FundRead, world
<1>8. ASSUME Executed PROVE Goal
  <2>1. PICK s \in {WaasStatus(current), "unknown"} :
          journal' = [journal EXCEPT ![current] = s]
    BY <1>8 DEF Executed
  <2>2. s \in Statuses /\ s \in Uncertain \cup Final
    BY <1>s, WaasAnswer
  <2>3. current \in Debits /\ journal[current] = "submitting" /\ UNCHANGED debit
    BY <1>a, <1>t, <1>8 DEF Executed, world
  <2> QED
    BY <1>j, <1>s, <2>1, <2>2, <2>3
<1>9. ASSUME Advance PROVE Goal
  <2>1. CASE swap.active = None
    BY <1>0, <1>9, <2>1 DEF Advance, world
  <2>2. CASE swap.active # None
    <3>1. Deployment(swap.active) \in Debits
      BY <2>2, Names DEF IInv, TypeOK, Records
    <3> QED
      BY <1>p, <1>9, <2>2, <3>1 DEF Advance, world
  <2> QED
    BY <2>1, <2>2
<1>10. ASSUME NEW t \in Transfers, Execute(t) PROVE Goal
  BY <1>u, <1>10, Names DEF Execute, Unsent
<1>11. ASSUME NEW k \in Debits, PollDebit(k) PROVE Goal
  BY <1>j, <1>s, <1>11, WaasAnswer DEF PollDebit, world
<1>12. ASSUME NEW k \in Debits, WaasHandles(k) PROVE Goal
  <2>1. PICK d : debit' = [debit EXCEPT ![k] = d]
                 /\ \/ debit[k] = "flying" /\ d \in {"quoted", "pending"}
                    \/ debit[k] = "pending" /\ d \in {"success", "reverted", "failed"}
                    \/ debit[k] = "quoted" /\ d = "failed"
    BY <1>12 DEF WaasHandles
  <2>2. journal' = [journal EXCEPT ![k] = journal[k]] /\ journal[k] \in Statuses
        /\ journal' = journal /\ debit'[k] = d
    BY <1>t, <1>12, <2>1 DEF WaasHandles, durable, TypeOK
  <2>3. DebitOK(journal[k], d)
    BY <1>d, <2>2
  <2>4. debit[k] \in {"flying", "pending"} => journal[k] \in Uncertain
    BY <2>2, <1>d DEF Statuses, Uncertain, DebitOK
  <2> QED
    BY <2>1, <2>2, <2>3, <2>4, <1>t, <1>d, MoveKeepsPromise DEF Mined, Goal
<1>13. ASSUME Fail \/ Changed \/ NotSponsored \/ DeployedAlready \/ DeployOwner
       PROVE  UNCHANGED <<journal, debit>>
  BY <1>13 DEF Fail, Changed, NotSponsored, DeployedAlready, DeployOwner, world
<1>14. ASSUME \/ DeployQuoted \/ Deployed \/ SignRecovery \/ SignRecord \/ SignAnswered
              \/ BuildRecovery \/ Built
       PROVE  UNCHANGED <<journal, debit>>
  BY <1>14 DEF DeployQuoted, Deployed, SignRecovery, SignRecord, SignAnswered,
     BuildRecovery, Built, durable, world
<1>15. ASSUME \/ SubmitRecovery \/ SubmittedAlready \/ ObserveRecovery \/ FundRefused
              \/ Observe
       PROVE  UNCHANGED <<journal, debit>>
  BY <1>15 DEF SubmitRecovery, SubmittedAlready, ObserveRecovery, FundRefused, Observe,
     world
<1>16. ASSUME Crash \/ Expire \/ TrailsMoves \/ UNCHANGED vars
       PROVE  UNCHANGED <<journal, debit>>
  BY <1>16 DEF Crash, Expire, TrailsMoves, vars, durable, world
<1>17. ASSUME NEW r \in Recoveries,
              PrepareRecovery(r) \/ ConfirmRecovery(r) \/ ReviewEnds(r) \/ CodeAppears(r)
       PROVE  UNCHANGED <<journal, debit>>
  BY <1>17 DEF PrepareRecovery, ConfirmRecovery, ReviewEnds, CodeAppears, durable, world
<1>18. ASSUME \/ \E k \in Debits : QuoteEnds(k)
              \/ \E b \in BOOLEAN : SetDisabled(b)
       PROVE  UNCHANGED <<journal, debit>>
  BY <1>18 DEF QuoteEnds, SetDisabled, durable, world
<1>19. Goal
  <2>1. CASE Job
    BY <1>0, <1>1, <1>2, <1>3, <1>4, <1>5, <1>6, <1>7, <1>8, <1>13, <1>14, <1>15,
       <2>1 DEF Job
  <2>2. CASE Next /\ ~Job
    BY <1>0, <1>9, <1>10, <1>11, <1>12, <1>16, <1>17, <1>18, <2>2 DEF Next
  <2> QED
    BY <1>0, <1>16, <2>1, <2>2
<1> QED
  BY <1>19 DEF Goal

\* The deployments and transactions of recoveries, and the transfers beside
\* them, keep the promise of SubmitOnce: nothing is mined that was not recorded
\* first, nothing twice, and nothing that was given up as failed.
THEOREM RecoveryKeepsPromise == Spec => PromiseKept
<1>1. Init => SendInv
  BY DEF Init, SendInv
<1> QED
  BY <1>1, PromiseInit, PromiseStep, SendInvStep, RecoveryInvariant, PTL
     DEF Spec, PromiseKept, Promise!Spec

-------------------------------------------------------------------------------
(* The recoveries implement the contract with their owner                  *)

Over == {"recovered", "partial", "failed"}

\* The abstract values of the three variables.
Agreed  == {r \in Recoveries : swap.status[r] \notin {"none", "quoted", "failed"}}
Paid    == {r \in Recoveries : debit[Recovery(r)] = "success"}
Outcome == [r \in Recoveries |->
              CASE swap.status[r] = "failed" -> "closed"
                [] swap.status[r] \in {"recovered", "partial"} -> "delivered"
                [] OTHER -> "open"]

\* No transaction of a recovery becomes, or stops being, mined.
SamePaid == \A r \in Recoveries :
              debit'[Recovery(r)] = "success" <=> debit[Recovery(r)] = "success"

\* The initial states correspond.
LEMMA ContractInit == Init => Contract!Init
<1> SUFFICES ASSUME Init PROVE Contract!Init
  OBVIOUS
<1>1. \A r \in Recoveries : swap.status[r] = "none" /\ debit[Recovery(r)] = "none"
  BY Names DEF Init, Funded, Start
<1>2. Agreed = {} /\ Paid = {}
  BY <1>1 DEF Agreed, Paid
<1>3. Outcome = [r \in Recoveries |-> "open"]
  BY <1>1 DEF Outcome
<1> QED
  BY <1>2, <1>3 DEF Contract!Init, Agreed, Paid, Outcome

\* How the stage of a recovery changes: one that is not active is reviewed or
\* confirmed, the active one goes on or is over.
Moves(r, stage) ==
  /\ swap'.status = [swap.status EXCEPT ![r] = stage]
  /\ \/ swap.status[r] \in {"none", "quoted"} /\ stage \in {"quoted", "confirmed"}
     \/ swap.status[r] \in Underway /\ stage \in Underway \cup Over

\* Such a change agrees to the recovery, ends it, or does not show.
LEMMA MoveKeepsContract ==
  ASSUME IInv, IInv', SamePaid, NEW r \in Recoveries, NEW stage, Moves(r, stage)
  PROVE  Contract!Next \/ UNCHANGED <<Agreed, Paid, Outcome>>
<1>1. /\ swap'.status[r] = stage
      /\ \A q \in Recoveries \ {r} : swap'.status[q] = swap.status[q]
  BY DEF IInv, TypeOK, Records, Moves
<1>2. Paid' = Paid
  BY DEF Paid, SamePaid
<1>3. Outcome[r] = "open"
  BY DEF Outcome, Moves, Underway
<1>4. StatusOK(swap, r, journal, debit)'
  BY DEF IInv, RecordOK
<1>5. CASE stage \in {"none", "quoted"}
  <2>1. Agreed' = Agreed /\ Outcome' = Outcome
    BY <1>1, <1>5 DEF Agreed, Outcome, Moves, Underway, Over
  <2> QED
    BY <1>2, <2>1
<1>6. CASE stage \in Underway /\ swap.status[r] \in {"none", "quoted"}
  <2>1. /\ r \notin Agreed /\ Agreed' = Agreed \cup {r}
        /\ Outcome' = Outcome
    BY <1>1, <1>6 DEF Agreed, Outcome, Underway
  <2>2. Contract!Agree(r)
    BY <1>2, <1>3, <2>1 DEF Contract!Agree, Agreed, Paid, Outcome
  <2> QED
    BY <2>2 DEF Contract!Next
<1>7. CASE stage \in Underway /\ swap.status[r] \in Underway
  <2>1. Agreed' = Agreed /\ Outcome' = Outcome
    BY <1>1, <1>7 DEF Agreed, Outcome, Underway
  <2> QED
    BY <1>2, <2>1
<1>8. CASE stage = "failed"
  <2>1. Agreed' = Agreed \ {r} /\ Outcome' = [Outcome EXCEPT ![r] = "closed"]
    BY <1>1, <1>8 DEF Agreed, Outcome
  <2>2. r \notin Paid
    BY <1>1, <1>2, <1>4, <1>8 DEF StatusOK, Paid
  <2>3. Contract!Close(r)
    BY <1>2, <1>3, <2>1, <2>2 DEF Contract!Close, Agreed, Paid, Outcome
  <2> QED
    BY <2>3 DEF Contract!Next
<1>9. CASE stage \in {"recovered", "partial"}
  <2>1. Agreed' = Agreed /\ Outcome' = [Outcome EXCEPT ![r] = "delivered"]
    BY <1>1, <1>9 DEF Agreed, Outcome, Moves, Underway
  <2>2. r \in Paid
    BY <1>1, <1>2, <1>4, <1>9 DEF StatusOK, Paid
  <2>3. Contract!Deliver(r)
    BY <1>2, <1>3, <2>1, <2>2 DEF Contract!Deliver, Agreed, Paid, Outcome
  <2> QED
    BY <2>3 DEF Contract!Next
<1> QED
  BY <1>5, <1>6, <1>7, <1>8, <1>9 DEF Moves, Underway, Over

\* A transaction that is mined is that of the active recovery, for the first time.
LEMMA MinedKeepsContract ==
  ASSUME IInv, NEW k \in Debits, debit[k] = "pending",
         debit' = [debit EXCEPT ![k] = "success"], UNCHANGED swap
  PROVE  Contract!Next \/ UNCHANGED <<Agreed, Paid, Outcome>>
<1>1. Agreed' = Agreed /\ Outcome' = Outcome
  BY DEF Agreed, Outcome
<1>2. debit'[k] = "success" /\ \A l \in Debits \ {k} : debit'[l] = debit[l]
  BY DEF IInv, TypeOK
<1>3. CASE \A r \in Recoveries : k # Recovery(r)
  BY <1>1, <1>2, <1>3, Names DEF Paid
<1>4. ASSUME NEW r \in Recoveries, k = Recovery(r)
      PROVE  Contract!Pay(r)
  <2>1. journal[k] \in Uncertain
    BY DEF IInv, TypeOK, DebitInv, DebitOK, Statuses, Uncertain
  <2>2. swap.status[r] \in Underway
    BY <1>4, <2>1 DEF IInv, RecordOK, StatusOK
  <2>3. r \in Agreed \ Paid /\ Outcome[r] = "open"
    BY <1>4, <2>2 DEF Agreed, Paid, Outcome, Underway
  <2>4. Paid' = Paid \cup {r}
    BY <1>2, <1>4, Names DEF Paid
  <2> QED
    BY <1>1, <2>3, <2>4 DEF Contract!Pay, Agreed, Paid, Outcome
<1> QED
  BY <1>3, <1>4 DEF Contract!Next

\* What a step of the running job may save: its copy, or the copy with another
\* stage of the active recovery.
Savable(r) ==
  \/ r.status = swap.status
  \/ \E stage \in Underway \cup Over :
       swap.active # None /\ r.status = [swap.status EXCEPT ![swap.active] = stage]

LEMMA WorkSavable ==
  ASSUME IInv
  PROVE  /\ Savable(work)
         /\ \A j : Savable(Ended(work, j))
         /\ \A p \in Phases, a \in Actions :
              /\ Savable([work EXCEPT !.phase = p])
              /\ Savable([work EXCEPT !.action = a])
              /\ Savable([work EXCEPT !.phase = p, !.action = a])
         /\ work.active # None =>
              /\ \A stage \in Underway : Savable(WithStatus(work, work.active, stage))
              /\ Savable(Pending(work))
              /\ \A stage \in Over, p \in Phases, a \in Actions :
                   Savable(EndWith(work, stage, p, a))
<1>1. /\ work \in Records /\ work.status = swap.status /\ work.active = swap.active
      /\ work.active \in Recoveries \cup {None}
  BY DEF IInv, TypeOK, CopyInv, Records
<1>2. Savable(work)
  BY <1>1 DEF Savable
<1>3. \A p \in Phases, a \in Actions :
        /\ [work EXCEPT !.phase = p].status = work.status
        /\ [work EXCEPT !.action = a].status = work.status
        /\ [work EXCEPT !.phase = p, !.action = a].status = work.status
  BY <1>1 DEF Records
<1>4. ASSUME NEW stage \in Underway \cup Over, work.active # None
      PROVE  /\ Savable(WithStatus(work, work.active, stage))
             /\ \A p, a : Savable(EndWith(work, stage, p, a))
             /\ \A a : Savable([WithStatus(work, work.active, stage) EXCEPT !.action = a])
  <2> DEFINE w == WithStatus(work, work.active, stage)
  <2>1. w \in Records /\ w.status = [work.status EXCEPT ![work.active] = stage]
    BY <1>1, <1>4 DEF WithStatus, Records, Underway, Over, Stages
  <2>2. \A p, a : [w EXCEPT !.active = None, !.phase = p, !.action = a].status = w.status
    BY <2>1 DEF Records
  <2>3. \A a : [w EXCEPT !.action = a].status = w.status
    BY <2>1 DEF Records
  <2> HIDE DEF w
  <2>4. \A r : r.status = w.status => Savable(r)
    BY <1>1, <1>4, <2>1 DEF Savable
  <2>5. /\ Savable(w)
        /\ \A p, a : Savable([w EXCEPT !.active = None, !.phase = p, !.action = a])
        /\ \A a : Savable([w EXCEPT !.action = a])
    BY <2>2, <2>3, <2>4
  <2> QED
    BY <2>5 DEF w, EndWith
<1>5. ASSUME NEW j PROVE Savable(Ended(work, j))
  <2>1. CASE Ended(work, j) = work
    BY <1>2, <2>1
  <2>2. CASE Ended(work, j) # work
    <3>1. work.active # None /\ Ended(work, j) = EndWith(work, "failed", "attention", "observe")
      BY <2>2 DEF Ended, EndWith
    <3> QED
      BY <1>4, <3>1 DEF Over
  <2> QED
    BY <2>1, <2>2
<1>6. work.active # None => Savable(Pending(work))
  BY <1>4 DEF Pending, Underway
<1>7. \A p \in Phases, a \in Actions :
        /\ Savable([work EXCEPT !.phase = p])
        /\ Savable([work EXCEPT !.action = a])
        /\ Savable([work EXCEPT !.phase = p, !.action = a])
  BY <1>1, <1>3 DEF Savable
<1> QED
  BY <1>2, <1>4, <1>5, <1>6, <1>7

\* What a step of the running job leaves as the record.
LEMMA JobSaves == ASSUME IInv, Job PROVE Savable(swap')
<1>w. /\ Savable(work)
      /\ \A j : Savable(Ended(work, j))
      /\ \A p \in Phases, a \in Actions :
           /\ Savable([work EXCEPT !.phase = p])
           /\ Savable([work EXCEPT !.action = a])
           /\ Savable([work EXCEPT !.phase = p, !.action = a])
      /\ work.active # None =>
           /\ \A stage \in Underway : Savable(WithStatus(work, work.active, stage))
           /\ Savable(Pending(work))
           /\ \A stage \in Over, p \in Phases, a \in Actions :
                Savable(EndWith(work, stage, p, a))
  BY WorkSavable
<1>p. /\ {"settling", "attention", "failed", "succeeded", "refunded"} \subseteq Phases
      /\ {"none", "observe", "sign-recovery", "build-recovery",
          "submit-recovery"} \subseteq Actions
      /\ {"deploying", "signing", "submitting"} \subseteq Underway
      /\ {"recovered", "partial", "failed"} = Over
  BY DEF Phases, Actions, Recovering, Underway, Over
<1>a. at \in Early \cup {"observe-recovery"} => work.active # None
  BY ActiveJob DEF IInv, JobInv, Early, Recovering, DeploySteps
<1>0. ASSUME UNCHANGED swap PROVE Savable(swap')
  BY <1>0 DEF Savable
<1>1. ASSUME Fail \/ Changed \/ NotSponsored \/ DeployAgain \/ DeployFailed \/ Deployed
      PROVE  Savable(swap')
  BY <1>w, <1>1 DEF Fail, Changed, NotSponsored, DeployAgain, DeployFailed, Deployed,
     SaveAndRest, Save
<1>2. ASSUME PrepareAnswered \/ Send \/ SignAnswered \/ BuildRecovery \/ ObserveRecoveryPoll
      PROVE  Savable(swap')
  BY <1>w, <1>p, <1>0, <1>2 DEF PrepareAnswered, Send, SignAnswered, BuildRecovery,
     ObserveRecoveryPoll, SaveAndRest, Save
<1>3. ASSUME DeployedAlready \/ Built \/ FundRefused PROVE Savable(swap')
  <2>1. CASE DeployedAlready
    BY <1>w, <1>p, <2>1 DEF DeployedAlready, SaveAndRest, Save
  <2>2. CASE Built
    BY <1>w, <1>p, <2>2 DEF Built, SaveAndRest, Save
  <2>3. CASE FundRefused
    <3>1. swap' = [work EXCEPT !.phase = "failed", !.action = "none"]
      BY <2>3 DEF FundRefused, SaveAndRest, Save
    <3> QED
      BY <1>w, <1>p, <3>1
  <2> QED
    BY <1>3, <2>1, <2>2, <2>3
<1>4. ASSUME DeployOwner \/ SignRecovery \/ SubmitRecovery \/ SubmittedAlready
      PROVE  Savable(swap')
  <2>1. work.active # None
    BY <1>a, <1>4 DEF DeployOwner, SignRecovery, SubmitRecovery, SubmittedAlready, Early
  <2> QED
    BY <1>w, <1>p, <1>4, <2>1 DEF DeployOwner, SignRecovery, SubmitRecovery,
       SubmittedAlready, SaveAndRest, Save
<1>5. ASSUME ObserveRecovery PROVE Savable(swap')
  BY <1>w, <1>p, <1>a, <1>5 DEF ObserveRecovery, SaveAndRest, Save
<1>6. ASSUME FundRead PROVE Savable(swap')
  <2> DEFINE r == [work EXCEPT !.funding = journal'[Funding]]
  <2>1. /\ r.status = swap.status
        /\ [r EXCEPT !.fundingConfirmed = TRUE, !.phase = "settling",
                     !.action = "observe"].status = swap.status
        /\ [r EXCEPT !.phase = "attention", !.action = "observe"].status = swap.status
    BY DEF IInv, TypeOK, CopyInv, Records
  <2>2. /\ Savable(r)
        /\ Savable([r EXCEPT !.fundingConfirmed = TRUE, !.phase = "settling",
                             !.action = "observe"])
        /\ Savable([r EXCEPT !.phase = "attention", !.action = "observe"])
    BY <2>1 DEF Savable
  <2>3. swap' \in {r, [r EXCEPT !.fundingConfirmed = TRUE, !.phase = "settling",
                               !.action = "observe"],
                   [r EXCEPT !.phase = "attention", !.action = "observe"]}
    BY <1>6 DEF FundRead, SaveAndRest, Save
  <2> QED
    BY <2>2, <2>3
<1>7. ASSUME Observe PROVE Savable(swap')
  BY <1>w, <1>p, <1>7 DEF Observe, SaveAndRest, Save
<1>8. ASSUME Executed PROVE Savable(swap')
  <2>1. CASE current = Funding
    <3> PICK f : CASE current = Funding -> SaveAndRest([work EXCEPT !.funding = f])
                   [] work.active # None /\ current = Deployment(work.active) ->
                        Continue(work, "deployed") /\ UNCHANGED swap
                   [] work.active # None /\ current = Recovery(work.active) ->
                        SaveAndRest(Pending(work))
                   [] OTHER -> Rest(swap) /\ UNCHANGED swap
      BY <1>8 DEF Executed
    <3>0. work.active # None => /\ current # Deployment(work.active)
                                /\ current # Recovery(work.active)
      BY <2>1, Names DEF IInv, TypeOK, Records, RecordOK
    <3>1. swap' = [work EXCEPT !.funding = f]
      BY <2>1, <3>0 DEF SaveAndRest, Save
    <3>2. swap'.status = swap.status
      BY <3>1 DEF IInv, TypeOK, CopyInv, Records
    <3> QED
      BY <3>2 DEF Savable
  <2>2. CASE current # Funding
    BY <1>w, <1>0, <1>8, <2>2 DEF Executed, SaveAndRest, Save
  <2> QED
    BY <2>1, <2>2
<1>9. ASSUME PrepareRecord \/ DeployQuoted \/ SignRecord \/ Fund PROVE Savable(swap')
  BY <1>0, <1>9 DEF PrepareRecord, DeployQuoted, SignRecord, Fund, durable
<1> QED
  BY <1>1, <1>2, <1>3, <1>4, <1>5, <1>6, <1>7, <1>8, <1>9 DEF Job

\* Only the chain mines.
LEMMA OnlyMining ==
  ASSUME IInv, SendInv, [Next]_vars, \A k \in Debits : ~WaasHandles(k)
  PROVE  SamePaid
<1>t. /\ debit \in [Debits -> {"none", "quoted", "flying", "pending", "success",
                              "reverted", "failed"}]
      /\ at = "quoting" => journal[current] = "preparing"
      /\ \A k \in Debits : DebitOK(journal[k], debit[k])
  BY DEF IInv, TypeOK, StepInv, DebitInv
<1>0. ASSUME UNCHANGED debit PROVE SamePaid
  BY <1>0 DEF SamePaid
<1>1. ASSUME NEW k \in Debits, NEW d, debit' = [debit EXCEPT ![k] = d],
             d # "success", debit[k] # "success"
      PROVE  SamePaid
  BY <1>t, <1>1, Names DEF SamePaid
<1>2. ASSUME NEW k \in Debits, Submit(k), journal[k] \in {"absent", "quoted"}
      PROVE  SamePaid
  BY <1>t, <1>1, <1>2 DEF Submit, DebitOK
<1>3. ASSUME Send PROVE SamePaid
  <2>1. CASE UNCHANGED debit
    BY <1>0, <2>1
  <2>2. CASE Submit(current)
    BY <1>2, <1>3, <2>2 DEF Send, SendInv
  <2> QED
    BY <1>3, <2>1, <2>2 DEF Send
<1>4. ASSUME Fund PROVE SamePaid
  BY <1>2, <1>4, Names DEF Fund
<1>5. ASSUME NEW t \in Transfers, Execute(t) PROVE SamePaid
  BY <1>2, <1>5, Names DEF Execute
<1>6. ASSUME PrepareAnswered PROVE SamePaid
  <2>1. CASE debit' = [debit EXCEPT ![current] = "quoted"]
    <3>1. current \in Debits
      BY <1>6, ActiveJob DEF PrepareAnswered, IInv, JobInv, Recovering
    <3> QED
      BY <1>t, <1>1, <1>6, <2>1, <3>1 DEF PrepareAnswered, DebitOK
  <2>2. CASE UNCHANGED debit
    BY <1>0, <2>2
  <2> QED
    BY <1>6, <2>1, <2>2 DEF PrepareAnswered
<1>7. ASSUME Fail \/ Changed \/ NotSponsored \/ DeployedAlready \/ DeployOwner
      PROVE  UNCHANGED debit
  BY <1>7 DEF Fail, Changed, NotSponsored, DeployedAlready, DeployOwner, world
<1>8. ASSUME \/ DeployQuoted \/ Deployed \/ SignRecovery \/ SignRecord \/ SignAnswered
             \/ BuildRecovery \/ Built
      PROVE  UNCHANGED debit
  BY <1>8 DEF DeployQuoted, Deployed, SignRecovery, SignRecord, SignAnswered,
     BuildRecovery, Built, world
<1>9. ASSUME \/ SubmitRecovery \/ SubmittedAlready \/ ObserveRecovery \/ FundRefused
             \/ Observe \/ PrepareRecord
      PROVE  UNCHANGED debit
  BY <1>9 DEF SubmitRecovery, SubmittedAlready, ObserveRecovery, FundRefused, Observe,
     PrepareRecord, world
<1>10. ASSUME \/ DeployAgain \/ DeployFailed \/ ObserveRecoveryPoll \/ FundRead
              \/ Executed
       PROVE  UNCHANGED debit
  BY <1>10 DEF DeployAgain, DeployFailed, ObserveRecoveryPoll, FundRead, Executed, world
<1>11. ASSUME Crash \/ Expire \/ Advance \/ TrailsMoves \/ UNCHANGED vars
       PROVE  UNCHANGED debit
  BY <1>11 DEF Crash, Expire, Advance, TrailsMoves, vars, world
<1>12. ASSUME NEW r \in Recoveries,
              PrepareRecovery(r) \/ ConfirmRecovery(r) \/ ReviewEnds(r) \/ CodeAppears(r)
       PROVE  UNCHANGED debit
  BY <1>12 DEF PrepareRecovery, ConfirmRecovery, ReviewEnds, CodeAppears, world
<1>13. ASSUME \/ \E k \in Debits : PollDebit(k) \/ QuoteEnds(k)
              \/ \E b \in BOOLEAN : SetDisabled(b)
       PROVE  UNCHANGED debit
  BY <1>13 DEF PollDebit, QuoteEnds, SetDisabled, world
<1>14. CASE Job
  BY <1>0, <1>3, <1>4, <1>6, <1>7, <1>8, <1>9, <1>10, <1>14 DEF Job
<1>15. CASE Next /\ ~Job
  BY <1>0, <1>5, <1>11, <1>12, <1>13, <1>15 DEF Next
<1> QED
  BY <1>0, <1>11, <1>14, <1>15

\* Every step is a step of the contract, or a stutter.
LEMMA ContractStep ==
  ASSUME IInv, IInv', SendInv, [Next]_vars
  PROVE  [Contract!Next]_(Contract!vars)
<1> SUFFICES Contract!Next \/ UNCHANGED <<Agreed, Paid, Outcome>>
  BY DEF Contract!vars, Agreed, Paid, Outcome
<1> DEFINE Goal == Contract!Next \/ UNCHANGED <<Agreed, Paid, Outcome>>
<1>t. /\ swap \in Records /\ swap.active \in Recoveries \cup {None}
      /\ swap.active # None => swap.status[swap.active] \in Underway
  BY DEF IInv, TypeOK, Records, RecordOK, StatusOK
<1>0. ASSUME swap'.status = swap.status, SamePaid PROVE Goal
  BY <1>0 DEF Agreed, Paid, Outcome, SamePaid
<1>1. ASSUME NEW k \in Debits, WaasHandles(k) PROVE Goal
  <2>1. PICK d : /\ debit' = [debit EXCEPT ![k] = d]
                 /\ d = "success" => debit[k] = "pending"
                 /\ debit[k] # "success"
    BY <1>1 DEF WaasHandles
  <2>2. UNCHANGED swap
    BY <1>1 DEF WaasHandles, durable
  <2>3. CASE d = "success"
    BY <2>1, <2>2, <2>3, MinedKeepsContract
  <2>4. CASE d # "success"
    <3>1. SamePaid
      BY <2>1, <2>4, Names DEF SamePaid, IInv, TypeOK
    <3> QED
      BY <1>0, <2>2, <3>1
  <2> QED
    BY <2>3, <2>4
<1>2. ASSUME SamePaid, Savable(swap') PROVE Goal
  <2>1. CASE swap'.status = swap.status
    BY <1>0, <1>2, <2>1
  <2>2. ASSUME NEW stage \in Underway \cup Over, swap.active # None,
               swap'.status = [swap.status EXCEPT ![swap.active] = stage]
        PROVE  Goal
    <3>1. Moves(swap.active, stage) /\ swap.active \in Recoveries
      BY <1>t, <2>2 DEF Moves
    <3> QED
      BY <1>2, <3>1, MoveKeepsContract
  <2> QED
    BY <1>2, <2>1, <2>2 DEF Savable
<1>3. ASSUME SamePaid, NEW r \in Recoveries, PrepareRecovery(r) PROVE Goal
  <2> DEFINE f == WithStatus(Refunding(swap), r, "quoted")
  <2>1. /\ Refunding(swap) \in Records /\ Refunding(swap).status = swap.status
    BY RefundingTyped DEF IInv, TypeOK
  <2>2. f \in Records /\ f.status = [swap.status EXCEPT ![r] = "quoted"]
    BY <2>1 DEF WithStatus, Records, Stages
  <2>3. \A x : [f EXCEPT !.deploys = x].status = f.status
    BY <2>2 DEF Records
  <2>4. swap'.status = f.status
    BY <1>3, <2>3 DEF PrepareRecovery, SaveAndRest, Save
  <2>5. Moves(r, "quoted")
    BY <1>3, <2>2, <2>4 DEF Moves, PrepareRecovery
  <2> QED
    BY <1>3, <2>5, MoveKeepsContract
<1>4. ASSUME SamePaid, NEW r \in Recoveries, ConfirmRecovery(r) PROVE Goal
  <2> DEFINE f == WithStatus(Refunding(swap), r, "confirmed")
  <2>1. /\ Refunding(swap) \in Records /\ Refunding(swap).status = swap.status
    BY RefundingTyped DEF IInv, TypeOK
  <2>2. f \in Records /\ f.status = [swap.status EXCEPT ![r] = "confirmed"]
    BY <2>1 DEF WithStatus, Records, Stages
  <2>3. \A x, y, z : [f EXCEPT !.active = x, !.phase = y, !.action = z].status = f.status
    BY <2>2 DEF Records
  <2>4. swap' = Confirmed(r)
    BY <1>4 DEF ConfirmRecovery, SaveAndRest, Save
  <2>5. swap'.status = f.status
    BY <2>3, <2>4 DEF Confirmed
  <2>6. Moves(r, "confirmed")
    BY <1>4, <2>2, <2>5 DEF Moves, ConfirmRecovery
  <2> QED
    BY <1>4, <2>6, MoveKeepsContract
<1>5. ASSUME Expire PROVE swap'.status = swap.status
  <2>1. Refunding(swap) \in Records /\ Refunding(swap).status = swap.status
    BY RefundingTyped DEF IInv, TypeOK
  <2>2. [Refunding(swap) EXCEPT !.phase = "expired", !.action = "none"].status = swap.status
    BY <2>1 DEF Records
  <2> QED
    BY <1>5, <2>2 DEF Expire, SaveAndRest, Save
<1>6. ASSUME \/ Crash \/ Advance \/ TrailsMoves \/ UNCHANGED vars
             \/ \E r \in Recoveries : ReviewEnds(r) \/ CodeAppears(r)
             \/ \E t \in Transfers : Execute(t)
             \/ \E k \in Debits : PollDebit(k) \/ QuoteEnds(k)
             \/ \E b \in BOOLEAN : SetDisabled(b)
      PROVE  swap'.status = swap.status
  BY <1>6 DEF Crash, Advance, TrailsMoves, ReviewEnds, CodeAppears, Execute, PollDebit,
     QuoteEnds, SetDisabled, vars, durable
<1>7. (\A k \in Debits : ~WaasHandles(k)) => SamePaid
  BY OnlyMining
<1>8. ASSUME Job PROVE Savable(swap')
  BY <1>8, JobSaves
<1> HIDE DEF Goal
<1>9. ASSUME SamePaid PROVE Goal
  <2>1. ASSUME Job PROVE Goal
    BY <1>2, <1>8, <1>9, <2>1
  <2>2. ASSUME NEW r \in Recoveries,
               PrepareRecovery(r) \/ ConfirmRecovery(r) \/ ReviewEnds(r) \/ CodeAppears(r)
        PROVE  Goal
    BY <1>0, <1>3, <1>4, <1>6, <1>9, <2>2
  <2>3. ASSUME Expire \/ Crash \/ Advance \/ TrailsMoves \/ UNCHANGED vars PROVE Goal
    BY <1>0, <1>5, <1>6, <1>9, <2>3
  <2>4. ASSUME NEW t \in Transfers, Execute(t) PROVE Goal
    BY <1>0, <1>6, <1>9, <2>4
  <2>5. ASSUME NEW k \in Debits, PollDebit(k) \/ WaasHandles(k) \/ QuoteEnds(k)
        PROVE  Goal
    BY <1>0, <1>1, <1>6, <1>9, <2>5
  <2>6. ASSUME NEW b \in BOOLEAN, SetDisabled(b) PROVE Goal
    BY <1>0, <1>6, <1>9, <2>6
  <2> QED
    BY <2>1, <2>2, <2>3, <2>4, <2>5, <2>6 DEF Next
<1>10. Goal
  BY <1>1, <1>7, <1>9
<1> QED
  BY <1>10 DEF Goal

\* The recoveries keep the contract with their owner (SwapContract): funds come
\* back only by a confirmed recovery and once, and what is reported of one that
\* is over is true and stays.
THEOREM RecoveriesKeepContract == Spec => ContractKept
<1>1. Init => SendInv
  BY DEF Init, SendInv
<1> QED
  BY <1>1, ContractInit, ContractStep, SendInvStep, RecoveryInvariant, PTL
     DEF Spec, ContractKept, Contract!Spec
===============================================================================
