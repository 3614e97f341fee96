------------------------ MODULE OperationJournalProofs ------------------------
(***************************************************************************)
(* Theorems about the operation journal, for every set of operations.      *)
(*                                                                         *)
(* The safety invariants are not inductive: that a request leaves only     *)
(* after the durable record allows it depends on where the active handler  *)
(* stands, and that an answer may be recorded depends on what WaaS knows   *)
(* when it arrives.  HandlerInv and AnswerInv say so.                      *)
(***************************************************************************)
EXTENDS OperationJournal, TLAPS

\* Where the handler stands, against the durable record and the wire.
HandlerInv ==
  \A i \in Ids :
    /\ i \in SigningIds => journal[i] \in {"absent", "unknown", "signed"}
    /\ step[i] \in {"index", "create"} => journal[i] = "absent"
    /\ step[i] = "create" => i \in index
    /\ step[i] = "prepare" => journal[i] = "preparing" /\ i \notin SigningIds
    /\ step[i] \in {"send", "await"} =>
         journal[i] = IF i \in SigningIds THEN "unknown" ELSE "submitting"
    /\ step[i] = "send" => wire[i] = 0 /\ accepted[i] = 0
    /\ step[i] = "poll" => journal[i] \in Refreshable /\ i \notin SigningIds

\* What an answer on its way says is still true when it is recorded.
AnswerInv ==
  \A i \in Ids :
    /\ reply[i] # "none" => step[i] \in {"await", "poll"}
    /\ step[i] = "await" /\ reply[i] # "none" => wire[i] = 0
    /\ step[i] = "await" /\ reply[i] = "refused" => accepted[i] = 0
    /\ step[i] = "await" /\ reply[i] \in TxnStates \ {"none"} =>
         accepted[i] = 1
    /\ step[i] = "poll" => reply[i] \in TxnStates
    /\ reply[i] \in TxnStates \ {"none"} => i \notin SigningIds
    /\ reply[i] = "signed" => i \in SigningIds /\ accepted[i] = 1
    /\ reply[i] = "executed" => txn[i] = "executed"
    /\ reply[i] = "failed" => txn[i] = "failed"
    /\ txn[i] \in {"pending", "executed"} => accepted[i] = 1
    /\ journal[i] = "preparing" => txn[i] = "none"
    /\ journal[i] = "absent" => txn[i] = "none"

IInv == /\ TypeOK
        /\ OneHandler
        /\ AtMostOnce
        /\ RecordedBeforeSent
        /\ VerdictsAgree
        /\ Listed
        /\ HandlerInv
        /\ AnswerInv

-------------------------------------------------------------------------------
(* The strengthened invariant                                              *)

\* The empty journal satisfies the invariant.
LEMMA InitIInv == Init => IInv
<1> SUFFICES ASSUME Init PROVE IInv
  OBVIOUS
<1> USE DEF Init
<1>1. TypeOK
  BY DEF TypeOK, Steps, Statuses, Answers, TxnStates
<1>2. OneHandler
  BY DEF OneHandler
<1>3. AtMostOnce
  BY DEF AtMostOnce
<1>4. RecordedBeforeSent
  BY DEF RecordedBeforeSent
<1>5. VerdictsAgree
  BY DEF VerdictsAgree
<1>6. Listed
  BY DEF Listed
<1>7. HandlerInv
  BY DEF HandlerInv, Refreshable
<1>8. AnswerInv
  BY DEF AnswerInv, TxnStates
<1> QED
  BY <1>1, <1>2, <1>3, <1>4, <1>5, <1>6, <1>7, <1>8 DEF IInv

\* Every step of a handler, of a caller, of WaaS and every crash keeps it.
LEMMA NextIInv == IInv /\ [Next]_vars => IInv'
<1> SUFFICES ASSUME IInv, [Next]_vars PROVE IInv'
  OBVIOUS
<1> USE DEF IInv, TypeOK, OneHandler, AtMostOnce, RecordedBeforeSent,
            VerdictsAgree, Listed, HandlerInv, AnswerInv,
            Steps, Statuses, Answers, TxnStates, Refreshable,
            Free, Goto, Record, Finish, Ensured, Mapped, Answer,
            durable, volatile, waas
<1>1. ASSUME NEW k \in Ids, Begin(k) PROVE IInv'
  BY <1>1 DEF Begin
<1>2. ASSUME NEW k \in Ids, WriteIndex(k) PROVE IInv'
  BY <1>2 DEF WriteIndex
<1>3. ASSUME NEW k \in Ids, WriteRecord(k) PROVE IInv'
  <2>1. \A i \in Ids \ {k} : step[i] = "idle"
    BY <1>3 DEF WriteRecord
  <2> QED
    BY <1>3, <2>1 DEF WriteRecord
<1>25. ASSUME NEW k \in Ids, WriteSigning(k) PROVE IInv'
  <2>1. \A i \in Ids \ {k} : step[i] = "idle"
    BY <1>25 DEF WriteSigning
  <2> QED
    BY <1>25, <2>1 DEF WriteSigning
<1>4. ASSUME NEW k \in Ids, PrepareQuoted(k) PROVE IInv'
  BY <1>4 DEF PrepareQuoted
<1>5. ASSUME NEW k \in Ids, PrepareFailed(k) PROVE IInv'
  BY <1>5 DEF PrepareFailed
<1>6. ASSUME NEW k \in Ids, Execute(k) PROVE IInv'
  BY <1>6 DEF Execute
<1>7. ASSUME NEW k \in Ids, Send(k) PROVE IInv'
  BY <1>7 DEF Send
<1>8. ASSUME NEW k \in Ids, Receive(k) PROVE IInv'
  <2>1. /\ accepted[k] = 1 /\ wire[k] = 0
        /\ \/ reply[k] = "quoted"
           \/ reply[k] = "pending"
           \/ reply[k] = "executed" /\ txn[k] = "executed"
           \/ reply[k] = "failed" /\ txn[k] = "failed"
    BY <1>8 DEF Receive
  <2>2. \A i \in Ids \ {k} : step[i] = "idle"
    BY <1>8 DEF Receive
  <2>3. /\ Mapped(reply[k]) \in {"unknown", "pending", "executed", "failed"}
        /\ Mapped(reply[k]) # "unknown" => Mapped(reply[k]) = reply[k]
    BY <2>1
  <2> HIDE DEF Mapped
  <2>11. TypeOK'
    BY <1>8, <2>1, <2>2, <2>3 DEF Receive
  <2>12. OneHandler' /\ AtMostOnce' /\ Listed'
    BY <1>8, <2>1, <2>2, <2>3 DEF Receive
  <2>13. RecordedBeforeSent' /\ VerdictsAgree'
    BY <1>8, <2>1, <2>2, <2>3 DEF Receive
  <2>14. HandlerInv'
    BY <1>8, <2>1, <2>2, <2>3 DEF Receive
  <2>15. AnswerInv'
    BY <1>8, <2>1, <2>2, <2>3 DEF Receive
  <2> QED
    BY <2>11, <2>12, <2>13, <2>14, <2>15
<1>26. ASSUME NEW k \in Ids, ReceiveSignature(k) PROVE IInv'
  BY <1>26 DEF ReceiveSignature
<1>9. ASSUME NEW k \in Ids, Reauthenticate(k) PROVE IInv'
  BY <1>9 DEF Reauthenticate
<1>10. ASSUME NEW k \in Ids, GiveUp(k) PROVE IInv'
  BY <1>10 DEF GiveUp
<1>27. ASSUME NEW k \in Ids, GiveUpSigning(k) PROVE IInv'
  BY <1>27 DEF GiveUpSigning
<1>11. ASSUME NEW k \in Ids, Poll(k) PROVE IInv'
  BY <1>11 DEF Poll
<1>12. ASSUME NEW k \in Ids, PollRead(k) PROVE IInv'
  BY <1>12 DEF PollRead
<1>13. ASSUME NEW k \in Ids, PollAnswered(k) PROVE IInv'
  BY <1>13 DEF PollAnswered
<1>14. ASSUME NEW k \in Ids, PollFailed(k) PROVE IInv'
  BY <1>14 DEF PollFailed
<1>15. ASSUME NEW k \in Ids, WaasAccept(k) PROVE IInv'
  <2>1. CASE k \in SigningIds
    <3>1. CASE step[k] = "await"
      <4>1. /\ wire[k] = 1 /\ accepted[k] = 0
            /\ \A i \in Ids \ {k} : step[i] = "idle" /\ reply[i] = "none"
        BY <1>15, <3>1 DEF WaasAccept
      <4> QED
        BY <1>15, <2>1, <3>1, <4>1 DEF WaasAccept
    <3>2. CASE step[k] # "await"
      BY <1>15, <2>1, <3>2 DEF WaasAccept
    <3> QED
      BY <3>1, <3>2
  <2>2. CASE k \notin SigningIds
    <3>1. PICK t \in TxnStates \ {"none"} :
             /\ txn' = [txn EXCEPT ![k] = IF @ = "quoted" THEN t ELSE @]
             /\ Answer(k, txn'[k])
      BY <1>15, <2>2 DEF WaasAccept
    <3>2. CASE step[k] = "await"
      <4>1. CASE txn[k] = "quoted"
        <5>11. TypeOK'
          BY <1>15, <2>2, <3>1, <3>2, <4>1 DEF WaasAccept
        <5>12. OneHandler' /\ AtMostOnce' /\ Listed'
          BY <1>15, <2>2, <3>1, <3>2, <4>1 DEF WaasAccept
        <5>13. RecordedBeforeSent' /\ VerdictsAgree'
          BY <1>15, <2>2, <3>1, <3>2, <4>1 DEF WaasAccept
        <5>14. HandlerInv'
          BY <1>15, <2>2, <3>1, <3>2, <4>1 DEF WaasAccept
        <5>15. AnswerInv'
          BY <1>15, <2>2, <3>1, <3>2, <4>1 DEF WaasAccept
        <5> QED
          BY <5>11, <5>12, <5>13, <5>14, <5>15
      <4>2. CASE txn[k] # "quoted"
        BY <1>15, <2>2, <3>1, <3>2, <4>2 DEF WaasAccept
      <4> QED
        BY <4>1, <4>2
    <3>3. CASE step[k] # "await"
      <4>11. TypeOK'
        BY <1>15, <2>2, <3>1, <3>3 DEF WaasAccept
      <4>12. OneHandler' /\ AtMostOnce' /\ Listed'
        BY <1>15, <2>2, <3>1, <3>3 DEF WaasAccept
      <4>13. RecordedBeforeSent' /\ VerdictsAgree'
        BY <1>15, <2>2, <3>1, <3>3 DEF WaasAccept
      <4>14. HandlerInv'
        BY <1>15, <2>2, <3>1, <3>3 DEF WaasAccept
      <4>15. AnswerInv'
        BY <1>15, <2>2, <3>1, <3>3 DEF WaasAccept
      <4> QED
        BY <4>11, <4>12, <4>13, <4>14, <4>15
    <3> QED
      BY <3>2, <3>3
  <2> QED
    BY <2>1, <2>2
<1>16. ASSUME NEW k \in Ids, WaasRefuse(k) PROVE IInv'
  <2>1. CASE step[k] = "await"
    <3>1. /\ wire[k] = 1 /\ accepted[k] = 0
          /\ \A i \in Ids \ {k} : step[i] = "idle" /\ reply[i] = "none"
      BY <1>16, <2>1 DEF WaasRefuse
    <3> QED
      BY <1>16, <2>1, <3>1 DEF WaasRefuse
  <2>2. CASE step[k] # "await"
    <3>11. TypeOK'
      BY <1>16, <2>2 DEF WaasRefuse
    <3>12. OneHandler' /\ AtMostOnce' /\ Listed'
      BY <1>16, <2>2 DEF WaasRefuse
    <3>13. RecordedBeforeSent' /\ VerdictsAgree'
      BY <1>16, <2>2 DEF WaasRefuse
    <3>14. HandlerInv'
      BY <1>16, <2>2 DEF WaasRefuse
    <3>15. AnswerInv'
      BY <1>16, <2>2 DEF WaasRefuse
    <3> QED
      BY <3>11, <3>12, <3>13, <3>14, <3>15
  <2> QED
    BY <2>1, <2>2
<1>17. ASSUME NEW k \in Ids, WaasLose(k) PROVE IInv'
  BY <1>17 DEF WaasLose
<1>18. ASSUME NEW k \in Ids, WaasProgress(k) PROVE IInv'
  <2>1. CASE txn[k] = "quoted"
    <3>1. /\ txn' = [txn EXCEPT ![k] = "pending"]
          /\ accepted[k] = 1
          /\ reply[k] \notin {"executed", "failed"}
      BY <1>18, <2>1 DEF WaasProgress
    <3> QED
      BY <1>18, <2>1, <3>1 DEF WaasProgress
  <2>2. CASE txn[k] = "pending" /\ txn' = [txn EXCEPT ![k] = "executed"]
    BY <1>18, <2>2 DEF WaasProgress
  <2>3. CASE txn[k] = "pending" /\ txn' = [txn EXCEPT ![k] = "failed"]
    BY <1>18, <2>3 DEF WaasProgress
  <2> QED
    BY <1>18, <2>1, <2>2, <2>3 DEF WaasProgress
<1>19. ASSUME NEW k \in Ids, WaasExpire(k) PROVE IInv'
  BY <1>19 DEF WaasExpire
<1>20. ASSUME NEW k \in Ids, QuoteExpires(k) PROVE IInv'
  BY <1>20 DEF QuoteExpires
<1>21. ASSUME NEW b \in BOOLEAN, SetDisabled(b) PROVE IInv'
  BY <1>21 DEF SetDisabled
<1>22. CASE Crash
  BY <1>22 DEF Crash
<1>23. CASE KeyRefused
  BY <1>23 DEF KeyRefused
<1>24. CASE UNCHANGED vars
  BY <1>24 DEF vars
<1> QED
  BY <1>1, <1>2, <1>3, <1>4, <1>5, <1>6, <1>7, <1>8, <1>9, <1>10, <1>11, <1>12, <1>13, <1>14, <1>15, <1>16, <1>17, <1>18, <1>19, <1>20, <1>21, <1>22, <1>23, <1>24, <1>25, <1>26, <1>27 DEF Next, Call, Handler, Waas

\* The strengthened invariant of the journal holds throughout.
THEOREM Invariance == Spec => []IInv
<1> QED
  BY InitIInv, NextIInv, PTL DEF Spec

-------------------------------------------------------------------------------
(* What follows from it                                                    *)

\* The variables of the journal keep their types.
THEOREM TypeCorrect == Spec => []TypeOK
<1>1. IInv => TypeOK
  BY DEF IInv
<1> QED
  BY <1>1, Invariance, PTL

\* WaaS acts on an operation at most once: executePrepared, activeCall and
\* the signing methods never send a second request that can be acted on.
THEOREM SubmittedAtMostOnce == Spec => []AtMostOnce
<1>1. IInv => AtMostOnce
  BY DEF IInv
<1> QED
  BY <1>1, Invariance, PTL

\* No request is on its way before the durable record says so.
THEOREM WriteAheadOfSend == Spec => []RecordedBeforeSent
<1>1. IInv => RecordedBeforeSent
  BY DEF IInv
<1> QED
  BY <1>1, Invariance, PTL

\* A final status in the journal is what happened at WaaS.
THEOREM FinalStatusIsTrue == Spec => []VerdictsAgree
<1>1. IInv => VerdictsAgree
  BY DEF IInv
<1> QED
  BY <1>1, Invariance, PTL

\* Every recorded operation is in the index (writeOperation's two writes).
THEOREM EveryOperationListed == Spec => []Listed
<1>1. IInv => Listed
  BY DEF IInv
<1> QED
  BY <1>1, Invariance, PTL

\* Only the handler that waits for the answer, or polls, changes a record;
\* none of them starts from a final status.
LEMMA FinalStep == IInv /\ [Next]_vars =>
  \A i \in Ids : journal[i] \in Terminal => journal'[i] = journal[i]
<1> SUFFICES ASSUME IInv, [Next]_vars, NEW i \in Ids, journal[i] \in Terminal
             PROVE  journal'[i] = journal[i]
  OBVIOUS
<1>1. /\ step[i] = "idle"
      /\ journal \in [Ids -> Statuses]
  BY DEF IInv, TypeOK, HandlerInv, Steps, Terminal, Refreshable
<1> USE DEF Terminal, Record
<1>2. ASSUME NEW k \in Ids, Call(k) PROVE journal'[i] = journal[i]
  BY <1>1, <1>2 DEF Call, Begin, Execute, Poll, durable
<1>3. ASSUME NEW k \in Ids, Handler(k) PROVE journal'[i] = journal[i]
  BY <1>1, <1>3 DEF Handler, WriteIndex, WriteRecord, WriteSigning, PrepareQuoted,
     PrepareFailed, Send, Receive, ReceiveSignature, Reauthenticate,
     GiveUp, GiveUpSigning, PollRead,
     PollAnswered, PollFailed, durable
<1>4. ASSUME NEW k \in Ids, Waas(k) PROVE journal'[i] = journal[i]
  BY <1>4 DEF Waas, WaasAccept, WaasRefuse, WaasLose, WaasProgress,
     WaasExpire, QuoteExpires, durable
<1>5. CASE \/ \E b \in BOOLEAN : SetDisabled(b)
           \/ Crash
           \/ KeyRefused
           \/ UNCHANGED vars
  BY <1>5 DEF SetDisabled, Crash, KeyRefused, vars, durable
<1> QED
  BY <1>2, <1>3, <1>4, <1>5 DEF Next

\* A final status is never overwritten.
THEOREM FinalNeverOverwritten == Spec => FinalStaysFinal
<1> QED
  BY Invariance, FinalStep, PTL DEF Spec, FinalStaysFinal

\* While a handler is past its first await the wallet is enabled: it was
\* when the handler started, and setDisabled waits for the executor.
EnabledInv == ~Free => ~disabled

\* No step disables the wallet under a running handler.
LEMMA EnabledStep == IInv /\ EnabledInv /\ [Next]_vars => EnabledInv'
<1> SUFFICES ASSUME IInv, EnabledInv, [Next]_vars PROVE EnabledInv'
  OBVIOUS
<1>1. step \in [Ids -> Steps]
  BY DEF IInv, TypeOK
<1> USE <1>1 DEF EnabledInv, Free, durable, Goto, Finish
<1>2. ASSUME NEW k \in Ids, Call(k) PROVE EnabledInv'
  BY <1>2 DEF Call, Begin, Execute, Poll
<1>3. ASSUME NEW k \in Ids, Handler(k) PROVE EnabledInv'
  <2>1. step[k] # "idle" /\ disabled' = disabled
    BY <1>3 DEF Handler, WriteIndex, WriteRecord, WriteSigning, PrepareQuoted,
       PrepareFailed, Send, Receive, ReceiveSignature, Reauthenticate,
     GiveUp, GiveUpSigning, PollRead,
       PollAnswered, PollFailed
  <2> QED
    BY <2>1
<1>4. ASSUME NEW k \in Ids, Waas(k) PROVE EnabledInv'
  BY <1>4 DEF Waas, WaasAccept, WaasRefuse, WaasLose, WaasProgress,
     WaasExpire, QuoteExpires, volatile
<1>5. CASE \/ \E b \in BOOLEAN : SetDisabled(b)
           \/ Crash
           \/ KeyRefused
           \/ UNCHANGED vars
  BY <1>5 DEF SetDisabled, Crash, KeyRefused, vars, volatile
<1> QED
  BY <1>2, <1>3, <1>4, <1>5 DEF Next

\* Only Send puts a request on the wire, and it is a handler's step.
LEMMA SendStep == IInv /\ EnabledInv /\ [Next]_vars =>
  \A i \in Ids : wire'[i] > wire[i] => ~disabled
<1> SUFFICES ASSUME IInv, EnabledInv, [Next]_vars,
                    NEW i \in Ids, wire'[i] > wire[i]
             PROVE  ~disabled
  OBVIOUS
<1>1. wire \in [Ids -> Nat]
  BY DEF IInv, TypeOK
<1> USE <1>1 DEF waas
<1>2. ASSUME NEW k \in Ids, Call(k) PROVE FALSE
  BY <1>2 DEF Call, Begin, Execute, Poll
<1>3. ASSUME NEW k \in Ids, Handler(k) PROVE step[k] = "send"
  BY <1>3 DEF Handler, WriteIndex, WriteRecord, WriteSigning, PrepareQuoted,
     PrepareFailed, Send, Receive, ReceiveSignature, Reauthenticate,
     GiveUp, GiveUpSigning, PollRead,
     PollAnswered, PollFailed
<1>4. ASSUME NEW k \in Ids, Waas(k) PROVE FALSE
  BY <1>4 DEF Waas, WaasAccept, WaasRefuse, WaasLose, WaasProgress,
     WaasExpire, QuoteExpires
<1>5. CASE \/ \E b \in BOOLEAN : SetDisabled(b)
           \/ Crash
           \/ KeyRefused
           \/ UNCHANGED vars
  BY <1>5 DEF SetDisabled, Crash, KeyRefused, vars
<1> QED
  BY <1>2, <1>3, <1>4, <1>5 DEF Next, EnabledInv, Free

\* A disabled wallet sends no request of an operation.
THEOREM DisabledIsSilent == Spec => DisabledSendsNothing
<1>1. Init => EnabledInv
  BY DEF Init, EnabledInv, Free
<1>2. Spec => []EnabledInv
  BY <1>1, Invariance, EnabledStep, PTL DEF Spec
<1> QED
  BY <1>2, Invariance, SendStep, PTL DEF Spec, DisabledSendsNothing

-------------------------------------------------------------------------------
(* The journal implements the abstract promise                             *)

\* The initial states correspond.
LEMMA RefinesInit == Init => Submission!Init
BY DEF Init, Submission!Init, Refreshable, Terminal

\* The abstract values of the three variables.
Armed == {i \in Ids : \/ journal[i] \in Refreshable \cup {"executed", "signed"}
                     \/ accepted[i] > 0}
Told == [i \in Ids |-> IF journal[i] \in Terminal THEN journal[i] ELSE "open"]

\* The arithmetic of AtMostOnce.
LEMMA CountedOnce ==
  ASSUME IInv, NEW k \in Ids
  PROVE  accepted[k] \in {0, 1} /\ (wire[k] > 0 => accepted[k] = 0)
<1>1. wire[k] \in Nat /\ accepted[k] \in Nat /\ wire[k] + accepted[k] <= 1
  BY DEF IInv, TypeOK, AtMostOnce
<1> QED
  BY <1>1

\* A step that records the status s of operation k and nothing else of the
\* journal arms, closes or reports the operation, or is invisible.
LEMMA RecordRefines ==
  ASSUME IInv, NEW k \in Ids, NEW s \in Statuses, Record(k, s),
         UNCHANGED accepted,
         journal[k] \notin Terminal,
         \/ /\ journal[k] \in Refreshable
            /\ s \in Refreshable
         \/ /\ journal[k] \in {"absent", "preparing"}
            /\ s \in {"preparing", "quoted"}
         \/ /\ journal[k] \in {"absent", "quoted"}
            /\ s \in {"unknown", "submitting"}
         \/ s = "failed"
         \/ s \in {"executed", "signed"} /\ accepted[k] = 1
  PROVE  Submission!Next \/ UNCHANGED <<Armed, accepted, Told>>
<1>1. /\ journal \in [Ids -> Statuses] /\ accepted \in [Ids -> Nat]
      /\ accepted[k] \in {0, 1}
      /\ journal[k] \in {"absent", "preparing", "quoted"} => accepted[k] = 0
  BY CountedOnce DEF IInv, TypeOK, RecordedBeforeSent
<1>2. /\ journal' = [journal EXCEPT ![k] = s]
      /\ accepted' = accepted
      /\ Told[k] = "open"
      /\ Told' = [Told EXCEPT ![k] = IF s \in Terminal THEN s ELSE "open"]
  BY <1>1 DEF Record, Told
<1> USE <1>1, <1>2
<1>3. CASE /\ journal[k] \in Refreshable
           /\ s \in Refreshable
  <2>1. Armed' = Armed /\ Told' = Told
    BY <1>3 DEF Armed, Told, Refreshable, Terminal
  <2> QED
    BY <2>1
<1>4. CASE /\ journal[k] \in {"absent", "preparing"}
           /\ s \in {"preparing", "quoted"}
  <2>1. Armed' = Armed /\ Told' = Told
    BY <1>4 DEF Armed, Told, Refreshable, Terminal
  <2> QED
    BY <2>1
<1>5. CASE /\ journal[k] \in {"absent", "quoted"}
           /\ s \in {"unknown", "submitting"}
  <2>1. k \notin Armed /\ Armed' = Armed \cup {k} /\ Told' = Told
    BY <1>5 DEF Armed, Told, Refreshable, Terminal
  <2>2. Submission!Arm(k)
    BY <2>1 DEF Submission!Arm, Armed, Told
  <2> QED
    BY <2>2 DEF Submission!Next
<1>6. CASE s = "failed" /\ accepted[k] = 0
  <2>1. Armed' = Armed \ {k}
    BY <1>6 DEF Armed, Refreshable
  <2>2. Submission!Close(k)
    BY <1>6, <2>1 DEF Submission!Close, Armed, Told, Terminal
  <2> QED
    BY <2>2 DEF Submission!Next
<1>7. CASE s \in {"executed", "signed", "failed"} /\ accepted[k] = 1
  <2>1. Armed' = Armed
    BY <1>7 DEF Armed, Refreshable
  <2>2. Submission!Report(k)
    BY <1>7, <2>1 DEF Submission!Report, Submission!Verdicts, Armed, Told, Terminal
  <2> QED
    BY <2>2 DEF Submission!Next
<1> QED
  BY <1>3, <1>4, <1>5, <1>6, <1>7

\* Every step of the journal is a step of the promise, or a stutter.
LEMMA RefinesNext == IInv /\ [Next]_vars
                       => [Submission!Next]_(Submission!vars)
<1> SUFFICES ASSUME IInv, [Next]_vars
             PROVE  Submission!Next \/ UNCHANGED <<Armed, accepted, Told>>
  BY DEF Submission!vars, Armed, Told
<1>1. UNCHANGED <<journal, accepted>> => UNCHANGED <<Armed, accepted, Told>>
  BY DEF Armed, Told
<1>2. ASSUME NEW k \in Ids, Execute(k)
      PROVE  Submission!Next \/ UNCHANGED <<Armed, accepted, Told>>
  BY <1>2, RecordRefines DEF Execute, Statuses, Terminal
<1>3. ASSUME NEW k \in Ids, WriteRecord(k) \/ WriteSigning(k)
      PROVE  Submission!Next \/ UNCHANGED <<Armed, accepted, Told>>
  <2>1. journal[k] = "absent"
    BY <1>3 DEF WriteRecord, WriteSigning, IInv, HandlerInv
  <2>2. UNCHANGED accepted /\ (Record(k, "preparing") \/ Record(k, "unknown"))
    BY <1>3 DEF WriteRecord, WriteSigning, waas
  <2> QED
    BY <2>1, <2>2, RecordRefines DEF Statuses, Terminal
<1>4. ASSUME NEW k \in Ids, PrepareQuoted(k) \/ PrepareFailed(k)
      PROVE  Submission!Next \/ UNCHANGED <<Armed, accepted, Told>>
  <2>1. journal[k] = "preparing"
    BY <1>4 DEF PrepareQuoted, PrepareFailed, IInv, HandlerInv
  <2> QED
    BY <1>4, <2>1, RecordRefines DEF PrepareQuoted, PrepareFailed, Statuses, Terminal
<1>5. ASSUME NEW k \in Ids, Receive(k) \/ PollAnswered(k)
                             \/ ReceiveSignature(k)
      PROVE  Submission!Next \/ UNCHANGED <<Armed, accepted, Told>>
  <2>1. /\ journal[k] \in Refreshable
        /\ Mapped(reply[k]) \in {"unknown", "pending", "executed", "failed", "signed"}
        /\ Mapped(reply[k]) \in {"executed", "signed"} => accepted[k] = 1
    BY <1>5 DEF Receive, PollAnswered, ReceiveSignature, Mapped, IInv, TypeOK,
       HandlerInv, AnswerInv, Refreshable, Answers, TxnStates
  <2>2. Record(k, Mapped(reply[k])) /\ UNCHANGED accepted
    BY <1>5 DEF Receive, PollAnswered, ReceiveSignature, Mapped, waas
  <2> HIDE DEF Mapped
  <2> QED
    BY <2>1, <2>2, RecordRefines DEF Statuses, Terminal, Refreshable
<1>6. ASSUME NEW k \in Ids, GiveUp(k)
      PROVE  Submission!Next \/ UNCHANGED <<Armed, accepted, Told>>
  <2>1. journal[k] \in Refreshable /\ UNCHANGED accepted
    BY <1>6 DEF GiveUp, IInv, HandlerInv, Refreshable, waas
  <2> QED
    BY <1>1, <1>6, <2>1, RecordRefines DEF GiveUp, Statuses, Terminal, Refreshable
<1>7. ASSUME NEW k \in Ids, WaasAccept(k)
      PROVE  Submission!Next \/ UNCHANGED <<Armed, accepted, Told>>
  <2>1. /\ accepted \in [Ids -> Nat] /\ journal \in [Ids -> Statuses]
        /\ accepted[k] = 0
        /\ accepted' = [accepted EXCEPT ![k] = 1]
        /\ journal' = journal
    <3>1. wire[k] > 0 /\ accepted' = [accepted EXCEPT ![k] = @ + 1]
      BY <1>7 DEF WaasAccept
    <3>2. accepted[k] = 0
      BY <3>1, CountedOnce
    <3> QED
      BY <1>7, <3>1, <3>2 DEF WaasAccept, IInv, TypeOK, durable
  <2>2. journal[k] \in Refreshable
    BY <1>7, <2>1 DEF WaasAccept, IInv, TypeOK, AtMostOnce, RecordedBeforeSent,
       VerdictsAgree, Statuses, Refreshable
  <2>3. Told' = Told /\ Told[k] = "open" /\ k \in Armed /\ Armed' = Armed
    BY <2>1, <2>2 DEF Told, Armed, Refreshable, Terminal
  <2>4. Submission!Take(k)
    BY <2>1, <2>3 DEF Submission!Take, Armed, Told
  <2> QED
    BY <2>4 DEF Submission!Next
<1>8. ASSUME NEW k \in Ids,
             \/ Begin(k) \/ WriteIndex(k) \/ Send(k) \/ Reauthenticate(k)
             \/ Poll(k) \/ PollRead(k) \/ PollFailed(k) \/ WaasRefuse(k)
             \/ GiveUpSigning(k)
             \/ WaasLose(k) \/ WaasProgress(k) \/ WaasExpire(k)
             \/ QuoteExpires(k)
      PROVE  UNCHANGED <<journal, accepted>>
  BY <1>8 DEF Begin, WriteIndex, Send, Reauthenticate, Poll, PollRead,
     PollFailed, GiveUpSigning, WaasRefuse, WaasLose, WaasProgress, WaasExpire, QuoteExpires,
     durable, waas
<1>9. CASE \/ \E b \in BOOLEAN : SetDisabled(b)
           \/ Crash
           \/ KeyRefused
           \/ UNCHANGED vars
  BY <1>1, <1>9 DEF SetDisabled, Crash, KeyRefused, vars, durable, waas
<1> QED
  BY <1>1, <1>2, <1>3, <1>4, <1>5, <1>6, <1>7, <1>8, <1>9
  DEF Next, Call, Handler, Waas

\* The journal keeps the abstract promise of SubmitOnce: nothing is acted on
\* before it is armed, nothing twice, nothing after it was closed, and the
\* caller is told one verdict.
THEOREM Refinement == Spec => PromiseKept
<1> QED
  BY RefinesInit, RefinesNext, Invariance, PTL
  DEF Spec, PromiseKept, Submission!Spec
===============================================================================
