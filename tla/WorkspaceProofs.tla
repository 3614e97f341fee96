---------------------------- MODULE WorkspaceProofs ----------------------------
(***************************************************************************)
(* Theorems about the page, the routes and the catalogue of one wallet,    *)
(* for every set of operations and any number of requests under way.       *)
(*                                                                         *)
(* The composition takes only steps of the journal, so that everything     *)
(* proved of the journal holds in it (ImplementsJournal).  What is shown   *)
(* is a copy of a copy of what the journal once said.  That it is true     *)
(* needs no word about the order in which copies are made and arrive: a    *)
(* final status stays in the journal, so each copy of one agrees with the  *)
(* journal for ever (StillSo), and the journal agrees with WaaS.           *)
(***************************************************************************)
EXTENDS Workspace, OperationJournalProofs

\* A status a journal had: if it is a final one, the journal still has it.
Agrees(s, i, jrn) == s \in Terminal => jrn[i] = s
StillSo(s, i) == Agrees(s, i, journal)

Calls == [op : {"none", "prepare", "execute", "poll", "list"},
          id : Ids \cup {NoOne}, stage : Stages, result : {"none"} \cup Statuses,
          list : [Ids -> Shown], mine : BOOLEAN]

\* A request about an operation names one; one that ended has a result; one
\* that may begin an operation has its row; and what it carries is still so.
Good(r, cat, jrn) ==
  /\ r \in Calls
  /\ r.op \in {"prepare", "execute", "poll"} => r.id \in Ids
  /\ r.stage = "done" => r.result \in Statuses
  /\ r.op = "list" => r.stage \notin {"run", "done"}
  /\ r.op = "prepare" /\ r.stage = "enter" => cat[r.id] # "none"
  /\ r.id \in Ids => Agrees(r.result, r.id, jrn)
  /\ \A i \in Ids : Agrees(r.list[i], i, jrn)
CallOK(r) == Good(r, catalogue, journal)

\* The handler that works on an operation was begun for one with a row.
RowsInv == \A i \in Ids : step[i] # "idle" => catalogue[i] # "none"

\* What is reviewed is an operation.
ReviewInv == dialog.at = "review" => dialog.id \in Ids

CopiesInv == \A i \in Ids : StillSo(catalogue[i], i) /\ StillSo(rows[i], i)

WInv == /\ IInv
        /\ WorkspaceTypeOK
        /\ \A c \in Slots : CallOK(call[c])
        /\ RowsInv /\ ReviewInv /\ CopiesInv
        /\ NothingUnlisted

-------------------------------------------------------------------------------
(* The composition takes the steps of the journal                          *)

\* Whatever the page and the routes do, the journal does one of its own steps
\* or none.
LEMMA JournalStep == WInv /\ [WorkspaceNext]_workspaceVars => [Next]_vars
<1> SUFFICES ASSUME WInv, WorkspaceNext PROVE [Next]_vars
  BY DEF workspaceVars
<1>1. CASE Page
  BY <1>1 DEF Page, OpenPage, LeavePage, Refresh, OpenDialog, CloseDialog, Back,
              Confirm, Submit, TimerPolls, ElsewherePolls
<1>2. CASE HostStops
  BY <1>2 DEF HostStops, Next
<1>3. CASE World
  BY <1>3 DEF World, Next
<1>4. ASSUME NEW c \in Slots, Route(c) PROVE [Next]_vars
  <2>1. CASE Enter(c)
    <3>1. call[c].op \in {"prepare", "execute", "poll"}
      BY <2>1 DEF Enter
    <3>2. call[c].id \in Ids
      BY <3>1 DEF WInv, CallOK, Good
    <3> QED BY <2>1, <3>2 DEF Enter, Next, Call
  <2>2. CASE ~Enter(c)
    BY <1>4, <2>2 DEF Route, Reserve, AnswerSaved, Store, ReadList, Drop
  <2> QED BY <2>1, <2>2
<1>5. ASSUME NEW c \in Slots, Get(c) PROVE [Next]_vars
  BY <1>5 DEF Get, GetError, GetPrepared, GetExecuted, GetPolled, GetList
<1>6. ASSUME NEW i \in Ids, Works(i) \/ Returns(i) \/ Throws(i) PROVE [Next]_vars
  <2>1. Handler(i)
    BY <1>6 DEF Works, Returns, Throws, Handler
  <2> QED BY <2>1 DEF Next
<1> QED BY <1>1, <1>2, <1>3, <1>4, <1>5, <1>6 DEF WorkspaceNext

\* An operation that appears in the journal is one a handler works on.
LEMMA AppearsFromStep == IInv /\ [Next]_vars =>
  \A i \in Ids : journal'[i] # "absent" => journal[i] # "absent" \/ step[i] # "idle"
<1> SUFFICES ASSUME IInv, [Next]_vars, NEW i \in Ids,
                    journal[i] = "absent", step[i] = "idle"
             PROVE  journal'[i] = "absent"
  OBVIOUS
<1>1. journal \in [Ids -> Statuses]
  BY DEF IInv, TypeOK
<1> USE <1>1 DEF Record
<1>2. ASSUME NEW k \in Ids, Call(k) PROVE journal'[i] = journal[i]
  BY <1>2 DEF Call, Begin, Execute, Poll, durable
<1>3. ASSUME NEW k \in Ids, Handler(k) PROVE journal'[i] = journal[i]
  BY <1>3 DEF Handler, WriteIndex, WriteRecord, WriteSigning, PrepareQuoted,
     PrepareFailed, Send, Receive, ReceiveSignature, Reauthenticate, GiveUp,
     GiveUpSigning, PollRead, PollAnswered, PollFailed, durable
<1>4. ASSUME NEW k \in Ids, Waas(k) PROVE journal'[i] = journal[i]
  BY <1>4 DEF Waas, WaasAccept, WaasRefuse, WaasLose, WaasProgress,
     WaasExpire, QuoteExpires, durable
<1>5. CASE \/ \E b \in BOOLEAN : SetDisabled(b)
           \/ Crash
           \/ KeyRefused
           \/ UNCHANGED vars
  BY <1>5 DEF SetDisabled, Crash, KeyRefused, vars, durable
<1> QED BY <1>2, <1>3, <1>4, <1>5 DEF Next

\* A handler starts to work on an operation the journal has, or on one a
\* request to prepare has entered for.
LEMMA StartsFromRow == WInv /\ [WorkspaceNext]_workspaceVars =>
  \A i \in Ids : step'[i] # "idle" => catalogue[i] # "none"
<1> SUFFICES ASSUME WInv, [WorkspaceNext]_workspaceVars, NEW i \in Ids,
                    step'[i] # "idle", step[i] = "idle"
             PROVE  catalogue[i] # "none"
  BY DEF WInv, RowsInv
<1>1. step \in [Ids -> Steps] /\ (journal[i] # "absent" => catalogue[i] # "none")
  BY DEF WInv, IInv, TypeOK, NothingUnlisted
<1> USE <1>1 DEF Goto, Finish, volatile
<1>2. CASE Page \/ UNCHANGED workspaceVars
  BY <1>2 DEF Page, OpenPage, LeavePage, Refresh, OpenDialog, CloseDialog, Back,
              Confirm, Submit, TimerPolls, ElsewherePolls, vars, workspaceVars
<1>3. CASE HostStops \/ World
  BY <1>3 DEF HostStops, World, Crash, Waas, WaasAccept, WaasRefuse, WaasLose,
              WaasProgress, WaasExpire, QuoteExpires, SetDisabled, KeyRefused
<1>4. ASSUME NEW c \in Slots, Route(c) PROVE catalogue[i] # "none"
  <2>1. Enter(c)
    BY <1>4 DEF Route, Reserve, AnswerSaved, Store, ReadList, Drop, vars
  <2>2. call[c].id \in Ids
    BY <2>1 DEF Enter, WInv, CallOK, Good
  <2>3. call[c].id = i
    BY <2>1, <2>2 DEF Enter, Begin, Execute, Poll
  <2>4. CASE call[c].op = "prepare"
    BY <2>1, <2>3, <2>4 DEF WInv, CallOK, Good, Enter
  <2>5. CASE Execute(i) \/ Poll(i)
    <3>1. journal[i] # "absent"
      BY <2>5 DEF Execute, Poll, Refreshable
    <3> QED BY <3>1
  <2> QED BY <2>1, <2>3, <2>4, <2>5 DEF Enter
<1>5. ASSUME NEW c \in Slots, Get(c) PROVE FALSE
  BY <1>5 DEF Get, GetError, GetPrepared, GetExecuted, GetPolled, GetList, vars
<1>6. ASSUME NEW k \in Ids, Works(k) \/ Returns(k) \/ Throws(k) PROVE FALSE
  <2>1. step[k] # "idle"
    BY <1>6 DEF Works, Returns, Throws, WriteIndex, WriteRecord, Send, Reauthenticate,
                PollRead, PrepareQuoted, Receive, GiveUp, PollAnswered,
                PrepareFailed, PollFailed
  <2>2. step'[i] = step[i]
    BY <1>6, <2>1 DEF Works, Returns, Throws, WriteIndex, WriteRecord, Send,
                Reauthenticate, PollRead, PrepareQuoted, Receive, GiveUp, PollAnswered,
                PrepareFailed, PollFailed
  <2> QED BY <2>2
<1> QED BY <1>2, <1>3, <1>4, <1>5, <1>6 DEF WorkspaceNext

-------------------------------------------------------------------------------
(* What a step leaves as it was                                            *)

\* Final statuses and rows stay.
Lasting == /\ \A i \in Ids : journal[i] \in Terminal => journal'[i] = journal[i]
           /\ \A i \in Ids : catalogue[i] # "none" => catalogue'[i] # "none"

\* Only Reserve and Store write the catalogue, and neither takes a row away.
LEMMA RowsStay == WInv /\ [WorkspaceNext]_workspaceVars => Lasting
<1> SUFFICES ASSUME WInv, [WorkspaceNext]_workspaceVars PROVE Lasting
  OBVIOUS
<1>1. \A i \in Ids : journal[i] \in Terminal => journal'[i] = journal[i]
  BY JournalStep, FinalStep DEF WInv
<1>2. ASSUME NEW i \in Ids, catalogue[i] # "none" PROVE catalogue'[i] # "none"
  <2> USE <1>2 DEF WInv, WorkspaceTypeOK
  <2>1. ASSUME NEW c \in Slots, Reserve(c) PROVE catalogue'[i] # "none"
    BY <2>1 DEF Reserve
  <2>2. ASSUME NEW c \in Slots, Store(c) PROVE catalogue'[i] # "none"
    <3>1. call[c].result # "none"
      BY <2>2 DEF Store, CallOK, Good, Statuses
    <3> QED BY <2>2, <3>1 DEF Store
  <2>3. CASE ~\E c \in Slots : Reserve(c) \/ Store(c)
    BY <2>3 DEF WorkspaceNext, Page, OpenPage, LeavePage, Refresh, OpenDialog,
       CloseDialog, Back, Confirm, Submit, TimerPolls, ElsewherePolls, HostStops, World,
       Route, Enter, AnswerSaved, ReadList, Drop, Get, GetError, GetPrepared,
       GetExecuted, GetPolled, GetList, Works, Returns, Throws, workspaceVars
  <2> QED BY <2>1, <2>2, <2>3
<1> QED BY <1>1, <1>2 DEF Lasting

\* CallOK in the state a step leads to, of a request as it is now.
CallOKAfter(r) == Good(r, catalogue', journal')

\* What a request carries stays so.
LEMMA CallStaysOK ==
  ASSUME Lasting, NEW r, CallOK(r)
  PROVE  CallOKAfter(r)
BY DEF CallOK, CallOKAfter, Good, Lasting, Agrees

LEMMA IdleIsOK == CallOKAfter(Idle)
<1>1. Idle \in Calls
  BY DEF Idle, Calls, Stages, NoRows, Shown
<1> QED BY <1>1, NoOneAssumption DEF CallOK, CallOKAfter, Good, Idle, NoRows, Agrees, Terminal

\* A request just made is in order.
LEMMA RequestIsOK ==
  ASSUME NEW op \in {"prepare", "execute", "poll", "list"}, NEW i \in Ids \cup {NoOne},
         op # "list" => i \in Ids, NEW b \in BOOLEAN
  PROVE  CallOKAfter(Request(op, i)) /\ CallOKAfter([Request(op, i) EXCEPT !.mine = b])
<1>1. [Request(op, i) EXCEPT !.mine = b] =
        [op |-> op, id |-> i, stage |-> Start(op), result |-> "none",
         list |-> NoRows, mine |-> b]
  BY DEF Request
<1>2. Start(op) \in {"reserve", "enter"} /\ (op = "prepare" => Start(op) = "reserve")
  BY DEF Start
<1> QED BY <1>1, <1>2 DEF Request, CallOKAfter, Good, Calls, Stages, NoRows, Shown,
                         Agrees, Terminal

\* So is one that goes to another stage, if it is not one with a result or one
\* that may begin an operation.
LEMMA RestagedIsOK ==
  ASSUME Lasting, NEW r, CallOK(r), NEW s \in Stages \ {"done"},
         r.op = "list" => s # "run",
         r.op = "prepare" /\ s = "enter" => catalogue'[r.id] # "none"
  PROVE  CallOKAfter([r EXCEPT !.stage = s])
<1> DEFINE q == [r EXCEPT !.stage = s]
<1>1. CallOKAfter(r)
  BY CallStaysOK
<1>2. r \in Calls
  BY DEF CallOK, CallOKAfter, Good
<1>3. /\ q \in Calls /\ q.stage = s /\ q.op = r.op /\ q.id = r.id
      /\ q.result = r.result /\ q.list = r.list
  BY <1>2 DEF Calls
<1> HIDE DEF q
<1>4. CallOKAfter(q)
  BY <1>1, <1>3 DEF CallOK, CallOKAfter, Good
<1> QED BY <1>4 DEF q

\* And one that ended with what the journal says of its operation.
LEMMA EndedIsOK ==
  ASSUME Lasting, NEW r, CallOK(r), r.op # "list", r.id \in Ids,
         journal'[r.id] \in Statuses
  PROVE  CallOKAfter([r EXCEPT !.stage = "done", !.result = journal'[r.id]])
<1> DEFINE q == [r EXCEPT !.stage = "done", !.result = journal'[r.id]]
<1>1. CallOKAfter(r)
  BY CallStaysOK
<1>2. r \in Calls
  BY DEF CallOK, CallOKAfter, Good
<1>3. /\ q \in Calls /\ q.stage = "done" /\ q.op = r.op /\ q.id = r.id
      /\ q.result = journal'[r.id] /\ q.list = r.list
  BY <1>2 DEF Calls, Stages
<1> HIDE DEF q
<1>4. CallOKAfter(q)
  BY <1>1, <1>3 DEF CallOK, CallOKAfter, Good, Agrees
<1> QED BY <1>4 DEF q

\* And one whose page is gone.
LEMMA AbandonedIsOK ==
  ASSUME Lasting, NEW r, CallOK(r)
  PROVE  CallOKAfter([r EXCEPT !.mine = FALSE])
<1> DEFINE q == [r EXCEPT !.mine = FALSE]
<1>1. CallOKAfter(r)
  BY CallStaysOK
<1>2. r \in Calls
  BY DEF CallOK, CallOKAfter, Good
<1>3. /\ q \in Calls /\ q.stage = r.stage /\ q.op = r.op /\ q.id = r.id
      /\ q.result = r.result /\ q.list = r.list
  BY <1>2 DEF Calls
<1> HIDE DEF q
<1>4. CallOKAfter(q)
  BY <1>1, <1>3 DEF CallOK, CallOKAfter, Good
<1> QED BY <1>4 DEF q

LEMMA KeptIsOK ==
  ASSUME NEW r, CallOKAfter(r)
  PROVE  CallOKAfter(Kept(r))
BY IdleIsOK DEF Kept

-------------------------------------------------------------------------------
(* The requests under way                                                  *)

CallsAfter == call' \in [Slots -> Calls] /\ \A c \in Slots : CallOKAfter(call'[c])

\* One request changes, and is in order.
LEMMA OneCall ==
  ASSUME WInv, Lasting, NEW c \in Slots, NEW r, CallOKAfter(r),
         call' = [call EXCEPT ![c] = r]
  PROVE  CallsAfter
<1>1. call \in [Slots -> Calls]
  BY DEF WInv, WorkspaceTypeOK, Calls
<1>2. r \in Calls
  BY DEF CallOKAfter, Good
<1>3. \A d \in Slots : CallOKAfter(call[d])
  BY CallStaysOK DEF WInv
<1> QED BY <1>1, <1>2, <1>3 DEF CallsAfter

\* Every request stays as it is, or is in order.
LEMMA EveryCall ==
  ASSUME WInv, Lasting, DOMAIN call' = Slots, call' = [c \in Slots |-> call'[c]],
         \A c \in Slots : call'[c] = call[c] \/ CallOKAfter(call'[c])
  PROVE  CallsAfter
<1>1. \A d \in Slots : CallOKAfter(call[d])
  BY CallStaysOK DEF WInv
<1>2. \A d \in Slots : CallOKAfter(call'[d])
  BY <1>1
<1>3. \A d \in Slots : call'[d] \in Calls
  BY <1>2 DEF CallOKAfter, Good
<1> QED BY <1>2, <1>3 DEF CallsAfter

\* Page: what the page sends is a request just made, and what it leaves behind
\* is abandoned.
LEMMA PageCalls == WInv /\ Lasting /\ Page => CallsAfter
<1> SUFFICES ASSUME WInv, Lasting, Page PROVE CallsAfter
  OBVIOUS
<1>1. ASSUME NEW c \in Slots, NEW op \in {"prepare", "execute", "poll", "list"},
             NEW i \in Ids \cup {NoOne}, op # "list" => i \in Ids, Ask(c, op, i)
      PROVE  CallsAfter
  BY <1>1, RequestIsOK, OneCall DEF Ask
<1>2. CASE OpenPage \/ Refresh
  BY <1>1, <1>2 DEF OpenPage, Refresh
<1>3. ASSUME NEW i \in Ids, Submit(i) \/ TimerPolls(i) PROVE CallsAfter
  BY <1>1, <1>3 DEF Submit, TimerPolls
<1>4. CASE Confirm
  BY <1>1, <1>4 DEF Confirm, WInv, ReviewInv
<1>5. ASSUME NEW i \in Ids, ElsewherePolls(i) PROVE CallsAfter
  <2>1. PICK c \in Slots :
          call' = [call EXCEPT ![c] = [Request("poll", i) EXCEPT !.mine = FALSE]]
    BY <1>5 DEF ElsewherePolls
  <2>2. CallOKAfter([Request("poll", i) EXCEPT !.mine = FALSE])
    BY RequestIsOK
  <2> QED BY <2>1, <2>2, OneCall
<1>6. CASE LeavePage
  <2>1. call' = [c \in Slots |-> Kept([call[c] EXCEPT !.mine = FALSE])]
    BY <1>6 DEF LeavePage
  <2>2. ASSUME NEW c \in Slots PROVE CallOKAfter(call'[c])
    <3>1. CallOK(call[c])
      BY DEF WInv
    <3>2. CallOKAfter(Kept([call[c] EXCEPT !.mine = FALSE]))
      BY <3>1, AbandonedIsOK, KeptIsOK
    <3> QED BY <2>1, <3>2
  <2> QED BY <2>1, <2>2, EveryCall
<1>7. CASE OpenDialog \/ CloseDialog \/ Back
  <2>1. call' = call
    BY <1>7 DEF OpenDialog, CloseDialog, Back
  <2>2. call \in [Slots -> Calls]
    BY DEF WInv, WorkspaceTypeOK, Calls
  <2> QED BY <2>1, <2>2, EveryCall
<1> QED BY <1>2, <1>3, <1>4, <1>5, <1>6, <1>7 DEF Page

\* Route: a request that may begin an operation has just had its row reserved.
LEMMA RouteCalls ==
  ASSUME WInv, Lasting, NEW c \in Slots, Route(c)
  PROVE  CallsAfter
<1>1. CallOK(call[c])
  BY DEF WInv
<1>2. ASSUME NEW s \in Stages \ {"done"}, Stage(c, s),
             call[c].op = "list" => s # "run",
             call[c].op = "prepare" /\ s = "enter" => catalogue'[call[c].id] # "none"
      PROVE  CallsAfter
  <2>1. CallOKAfter(Kept([call[c] EXCEPT !.stage = s]))
    BY <1>1, <1>2, RestagedIsOK, KeptIsOK
  <2>2. call' = [call EXCEPT ![c] = Kept([call[c] EXCEPT !.stage = s])]
    BY <1>2 DEF Stage
  <2> QED BY <2>1, <2>2, OneCall
<1>3. CASE Reserve(c)
  <2>1. call[c].op = "prepare" => catalogue'[call[c].id] # "none"
    BY <1>1, <1>3 DEF Reserve, CallOK, Good, WInv, WorkspaceTypeOK
  <2> QED BY <1>2, <1>3, <2>1 DEF Reserve, Stages
<1>4. CASE Enter(c)
  BY <1>2, <1>4 DEF Enter, Stages
<1>5. CASE Store(c) \/ Drop(c)
  BY <1>2, <1>5 DEF Store, Drop, Stages
<1>6. CASE AnswerSaved(c)
  <2>1. call[c].op # "list" /\ call[c].id \in Ids
    BY <1>1, <1>6 DEF AnswerSaved, Saved, CallOK, Good
  <2>2. journal' = journal /\ journal[call[c].id] \in Statuses
    BY <1>6, <2>1 DEF AnswerSaved, vars, durable, WInv, IInv, TypeOK
  <2>3. call' = [call EXCEPT ![c] = [call[c] EXCEPT !.stage = "done",
                                                    !.result = journal'[call[c].id]]]
    BY <1>6, <2>2 DEF AnswerSaved
  <2> QED BY <1>1, <2>1, <2>2, <2>3, EndedIsOK, OneCall
<1>7. CASE ReadList(c)
  <2> DEFINE r == [call[c] EXCEPT !.stage = "answered",
                                  !.list = [i \in Ids |-> ListedAs(catalogue[i])]]
  <2>1. call' = [call EXCEPT ![c] = Kept(r)]
    BY <1>7 DEF ReadList
  <2>2. \A i \in Ids : ListedAs(catalogue[i]) \in Shown
                        /\ Agrees(ListedAs(catalogue[i]), i, journal)
    BY DEF ListedAs, Shown, Statuses, Agrees, Terminal, WInv, WorkspaceTypeOK, CopiesInv,
           StillSo
  <2>3. CallOK(r)
    <3>1. call[c] \in Calls
      BY <1>1 DEF CallOK, Good
    <3>2. [i \in Ids |-> ListedAs(catalogue[i])] \in [Ids -> Shown]
      BY <2>2
    <3>3. /\ r \in Calls /\ r.stage = "answered" /\ r.op = call[c].op
          /\ r.id = call[c].id /\ r.result = call[c].result
          /\ r.list = [i \in Ids |-> ListedAs(catalogue[i])]
      BY <3>1, <3>2 DEF Calls, Stages
    <3> HIDE DEF r
    <3> QED BY <1>1, <2>2, <3>3 DEF CallOK, Good
  <2> HIDE DEF r
  <2> QED BY <2>1, <2>3, CallStaysOK, KeptIsOK, OneCall
<1> QED BY <1>3, <1>4, <1>5, <1>6, <1>7 DEF Route

\* Get: what was answered is taken away, or followed by a refresh.
LEMMA GetCalls ==
  ASSUME WInv, Lasting, NEW c \in Slots, Get(c)
  PROVE  CallsAfter
<1>1. call' = [call EXCEPT ![c] = Idle] => CallsAfter
  BY IdleIsOK, OneCall
<1>2. call' = [call EXCEPT ![c] = Request("list", NoOne)] => CallsAfter
  BY RequestIsOK, OneCall
<1> QED BY <1>1, <1>2 DEF Get, GetError, GetPrepared, GetExecuted, GetPolled, GetList, End

\* What waits for a method ends with it; otherwise nothing changes.
LEMMA WalletCalls ==
  ASSUME WInv, Lasting,
         \/ HostStops \/ World
         \/ \E i \in Ids : Works(i) \/ Returns(i) \/ Throws(i)
  PROVE  CallsAfter
<1>1. ASSUME NEW c \in Slots PROVE CallOKAfter(Kept([call[c] EXCEPT !.stage = "error"]))
  <2>1. CallOK(call[c]) /\ "error" \in Stages \ {"done"}
    BY DEF WInv, Stages
  <2> QED BY <2>1, RestagedIsOK, KeptIsOK
<1>2. call \in [Slots -> Calls]
  BY DEF WInv, WorkspaceTypeOK, Calls
<1>3. call' = call => CallsAfter
  BY <1>2, EveryCall
<1>4. CASE HostStops
  <2>1. call' = [c \in Slots |-> IF call[c].stage = "run"
                                 THEN Kept([call[c] EXCEPT !.stage = "error"]) ELSE call[c]]
    BY <1>4 DEF HostStops
  <2>2. \A c \in Slots : call'[c] = call[c] \/ CallOKAfter(call'[c])
    BY <1>1, <2>1
  <2> QED BY <2>1, <2>2, EveryCall
<1>5. ASSUME NEW i \in Ids, Throws(i) PROVE CallsAfter
  <2>1. call' = [c \in Slots |-> IF c \in Waiting(i)
                                 THEN Kept([call[c] EXCEPT !.stage = "error"]) ELSE call[c]]
    BY <1>5 DEF Throws
  <2>2. \A c \in Slots : call'[c] = call[c] \/ CallOKAfter(call'[c])
    BY <1>1, <2>1
  <2> QED BY <2>1, <2>2, EveryCall
<1>6. ASSUME NEW i \in Ids, Returns(i) PROVE CallsAfter
  <2>1. call' = [c \in Slots |-> IF c \in Waiting(i)
                                 THEN [call[c] EXCEPT !.stage = "done", !.result = journal'[i]]
                                 ELSE call[c]]
    BY <1>6 DEF Returns
  <2>2. journal'[i] \in Statuses
    BY <1>6 DEF Returns, PrepareQuoted, Receive, GiveUp, PollAnswered, Record, Mapped,
                WInv, IInv, TypeOK, AnswerInv, Statuses, Answers, TxnStates
  <2>3. ASSUME NEW c \in Waiting(i)
        PROVE  CallOKAfter([call[c] EXCEPT !.stage = "done", !.result = journal'[i]])
    <3>1. c \in Slots /\ CallOK(call[c]) /\ call[c].id = i /\ call[c].op # "list"
      BY DEF Waiting, WInv, CallOK, Good
    <3> QED BY <2>2, <3>1, EndedIsOK
  <2>4. \A c \in Slots : call'[c] = call[c] \/ CallOKAfter(call'[c])
    BY <2>1, <2>3
  <2> QED BY <2>1, <2>4, EveryCall
<1>7. (World \/ \E i \in Ids : Works(i)) => call' = call
  BY DEF World, Works
<1> QED BY <1>3, <1>4, <1>5, <1>6, <1>7

LEMMA CallsStayOK == WInv /\ Lasting /\ [WorkspaceNext]_workspaceVars => CallsAfter
<1> SUFFICES ASSUME WInv, Lasting, [WorkspaceNext]_workspaceVars PROVE CallsAfter
  OBVIOUS
<1>1. CASE UNCHANGED workspaceVars
  <2>1. call' = call /\ call \in [Slots -> Calls]
    BY <1>1 DEF workspaceVars, WInv, WorkspaceTypeOK, Calls
  <2> QED BY <2>1, EveryCall
<1> QED BY <1>1, PageCalls, RouteCalls, GetCalls, WalletCalls DEF WorkspaceNext

-------------------------------------------------------------------------------
(* The catalogue, the rows and the dialog                                  *)

\* The catalogue takes a result that is still so.
LEMMA CatalogueStaysTrue == WInv /\ Lasting /\ [WorkspaceNext]_workspaceVars =>
  /\ catalogue' \in [Ids -> Shown \cup {"reserved"}]
  /\ \A i \in Ids : Agrees(catalogue'[i], i, journal')
<1> SUFFICES ASSUME WInv, Lasting, [WorkspaceNext]_workspaceVars
             PROVE  /\ catalogue' \in [Ids -> Shown \cup {"reserved"}]
                    /\ \A i \in Ids : Agrees(catalogue'[i], i, journal')
  OBVIOUS
<1>1. /\ catalogue \in [Ids -> Shown \cup {"reserved"}]
      /\ \A i \in Ids : Agrees(catalogue[i], i, journal')
  BY DEF WInv, WorkspaceTypeOK, CopiesInv, StillSo, Agrees, Lasting
<1> USE <1>1
<1>2. ASSUME NEW c \in Slots, Reserve(c)
      PROVE  /\ catalogue' \in [Ids -> Shown \cup {"reserved"}]
             /\ \A i \in Ids : Agrees(catalogue'[i], i, journal')
  BY <1>2 DEF Reserve, Agrees, Terminal
<1>3. ASSUME NEW c \in Slots, Store(c)
      PROVE  /\ catalogue' \in [Ids -> Shown \cup {"reserved"}]
             /\ \A i \in Ids : Agrees(catalogue'[i], i, journal')
  <2>1. /\ call[c].result \in Statuses
        /\ call[c].id \in Ids => Agrees(call[c].result, call[c].id, journal')
    BY <1>3, CallStaysOK DEF Store, WInv, CallOK, CallOKAfter, Good
  <2>2. catalogue' = [i \in Ids |-> IF /\ i = call[c].id /\ call[c].result # "absent"
                                       /\ catalogue[i] # "none"
                                    THEN call[c].result ELSE catalogue[i]]
    BY <1>3 DEF Store
  <2> QED BY <2>1, <2>2 DEF Shown
<1>4. CASE ~\E c \in Slots : Reserve(c) \/ Store(c)
  <2>1. catalogue' = catalogue
    BY <1>4 DEF WorkspaceNext, Page, OpenPage, LeavePage, Refresh, OpenDialog,
       CloseDialog, Back, Confirm, Submit, TimerPolls, ElsewherePolls, HostStops, World,
       Route, Enter, AnswerSaved, ReadList, Drop, Get, GetError, GetPrepared,
       GetExecuted, GetPolled, GetList, Works, Returns, Throws, workspaceVars
  <2> QED BY <2>1
<1> QED BY <1>2, <1>3, <1>4

\* So do the rows of the page, with whatever they are replaced.
LEMMA RowsStayTrue == WInv /\ Lasting /\ [WorkspaceNext]_workspaceVars =>
  rows' \in [Ids -> Shown] /\ \A i \in Ids : Agrees(rows'[i], i, journal')
<1> SUFFICES ASSUME WInv, Lasting, [WorkspaceNext]_workspaceVars
             PROVE  rows' \in [Ids -> Shown] /\ \A i \in Ids : Agrees(rows'[i], i, journal')
  OBVIOUS
<1>1. /\ rows \in [Ids -> Shown]
      /\ \A i \in Ids : Agrees(rows[i], i, journal')
  BY DEF WInv, WorkspaceTypeOK, CopiesInv, StillSo, Agrees, Lasting
<1> USE <1>1
<1>2. CASE LeavePage
  BY <1>2 DEF LeavePage, NoRows, Shown, Agrees, Terminal
<1>3. ASSUME NEW c \in Slots, GetPolled(c)
      PROVE  rows' \in [Ids -> Shown] /\ \A i \in Ids : Agrees(rows'[i], i, journal')
  <2>1. /\ call[c].result \in {"none"} \cup Statuses
        /\ call[c].id \in Ids => Agrees(call[c].result, call[c].id, journal')
    BY CallStaysOK DEF WInv, CallOK, CallOKAfter, Good, Calls
  <2>2. rows' = [i \in Ids |-> IF /\ i = call[c].id /\ rows[i] # "none"
                                  /\ call[c].result # "absent"
                               THEN call[c].result ELSE rows[i]]
    BY <1>3 DEF GetPolled
  <2> QED BY <2>1, <2>2 DEF Shown
<1>4. ASSUME NEW c \in Slots, GetList(c)
      PROVE  rows' \in [Ids -> Shown] /\ \A i \in Ids : Agrees(rows'[i], i, journal')
  <2>1. /\ call[c].list \in [Ids -> Shown]
        /\ \A i \in Ids : Agrees(call[c].list[i], i, journal')
    BY CallStaysOK DEF WInv, CallOK, CallOKAfter, Good, Calls
  <2>2. rows' = call[c].list
    BY <1>4 DEF GetList
  <2> QED BY <2>1, <2>2
<1>5. CASE ~LeavePage /\ ~\E c \in Slots : GetPolled(c) \/ GetList(c)
  <2>1. rows' = rows
    BY <1>5 DEF WorkspaceNext, Page, OpenPage, Refresh, OpenDialog,
       CloseDialog, Back, Confirm, Submit, TimerPolls, ElsewherePolls, HostStops, World,
       Route, Reserve, Enter, AnswerSaved, Store, ReadList, Drop, Get, GetError,
       GetPrepared, GetExecuted, Works, Returns, Throws, workspaceVars
  <2> QED BY <2>1
<1> QED BY <1>2, <1>3, <1>4, <1>5

\* The dialog keeps its type, and reviews an operation.
Dialogs == [at : {"closed", "form", "review"}, id : Ids \cup {NoOne},
            wait : Slots \cup {NoOne}]

LEMMA DialogStaysTyped == WInv /\ [WorkspaceNext]_workspaceVars =>
  open' \in BOOLEAN /\ dialog' \in Dialogs /\ ReviewInv'
<1> SUFFICES ASSUME WInv, [WorkspaceNext]_workspaceVars
             PROVE  open' \in BOOLEAN /\ dialog' \in Dialogs /\ ReviewInv'
  OBVIOUS
<1>1. open \in BOOLEAN /\ dialog \in Dialogs /\ ReviewInv
  BY DEF WInv, WorkspaceTypeOK, Dialogs
<1> USE <1>1 DEF Dialogs, ReviewInv, Closed
<1>2. CASE Page
  <2>1. ASSUME NEW c \in Slots, dialog' = [dialog EXCEPT !.wait = c]
        PROVE  dialog' \in Dialogs /\ ReviewInv'
    BY <2>1
  <2>2. CASE Confirm \/ \E i \in Ids : Submit(i)
    BY <2>1, <2>2 DEF Confirm, Submit
  <2>3. Closed \in Dialogs /\ [Closed EXCEPT !.at = "form"] \in Dialogs
    OBVIOUS
  <2>4. [Closed EXCEPT !.at = "form"].at = "form" /\ Closed.at = "closed"
    OBVIOUS
  <2>5. CASE ~(Confirm \/ \E i \in Ids : Submit(i))
    <3> HIDE DEF Dialogs, Closed
    <3>1. open' \in BOOLEAN
      BY <1>2, <2>5 DEF Page, OpenPage, LeavePage, Refresh, OpenDialog, CloseDialog,
                  Back, TimerPolls, ElsewherePolls
    <3>2. dialog' \in {dialog, Closed, [Closed EXCEPT !.at = "form"]}
      BY <1>2, <2>5 DEF Page, OpenPage, LeavePage, Refresh, OpenDialog, CloseDialog,
                  Back, TimerPolls, ElsewherePolls
    <3> QED BY <2>3, <2>4, <3>1, <3>2
  <2> QED BY <2>2, <2>5
<1>3. ASSUME NEW c \in Slots, Get(c)
      PROVE  open' \in BOOLEAN /\ dialog' \in Dialogs /\ ReviewInv'
  <2>1. CASE GetPrepared(c)
    <3>1. call[c].id \in Ids
      BY <2>1 DEF GetPrepared, WInv, CallOK, Good
    <3> QED BY <2>1, <3>1 DEF GetPrepared
  <2> QED BY <1>3, <2>1 DEF Get, GetError, GetExecuted, GetPolled, GetList
<1>4. CASE ~Page /\ ~\E c \in Slots : Get(c)
  <2>1. open' = open /\ dialog' = dialog
    BY <1>4 DEF WorkspaceNext, HostStops, World, Route, Reserve, Enter, AnswerSaved,
       Store, ReadList, Drop, Works, Returns, Throws, workspaceVars
  <2> QED BY <2>1
<1> QED BY <1>2, <1>3, <1>4

-------------------------------------------------------------------------------
(* The invariant                                                           *)

LEMMA WInitWInv == WorkspaceInit => WInv
<1> SUFFICES ASSUME WorkspaceInit PROVE WInv
  OBVIOUS
<1>1. IInv
  BY InitIInv DEF WorkspaceInit
<1>2. Idle \in Calls
  BY DEF Idle, Calls, Stages, NoRows, Shown
<1>3. \A c \in Slots : CallOK(call[c])
  BY <1>2, NoOneAssumption DEF WorkspaceInit, CallOK, Good, Idle, NoRows, Agrees, Terminal
<1>4. WorkspaceTypeOK
  BY <1>1, <1>2 DEF WorkspaceInit, WorkspaceTypeOK, IInv, Calls, NoRows, Shown, Closed
<1>5. RowsInv /\ ReviewInv /\ CopiesInv /\ NothingUnlisted
  BY DEF WorkspaceInit, Init, RowsInv, ReviewInv, CopiesInv, NothingUnlisted, StillSo,
         Agrees, NoRows, Closed, Terminal
<1> QED BY <1>1, <1>3, <1>4, <1>5 DEF WInv

LEMMA WNextWInv == WInv /\ [WorkspaceNext]_workspaceVars => WInv'
<1> SUFFICES ASSUME WInv, [WorkspaceNext]_workspaceVars PROVE WInv'
  OBVIOUS
<1>1. Lasting
  BY RowsStay
<1>2. IInv'
  BY JournalStep, NextIInv DEF WInv
<1>3. CallsAfter
  BY <1>1, CallsStayOK
<1>4. WorkspaceTypeOK'
  <2>1. catalogue' \in [Ids -> Shown \cup {"reserved"}] /\ rows' \in [Ids -> Shown]
    BY <1>1, CatalogueStaysTrue, RowsStayTrue
  <2>2. open' \in BOOLEAN /\ dialog' \in Dialogs
    BY DialogStaysTyped
  <2> QED BY <1>2, <1>3, <2>1, <2>2 DEF WorkspaceTypeOK, IInv, CallsAfter, Calls, Dialogs
<1>5. (\A c \in Slots : CallOK(call[c]))'
  BY <1>3 DEF CallsAfter, CallOKAfter, CallOK
<1>6. RowsInv'
  BY <1>1, StartsFromRow DEF Lasting, RowsInv
<1>7. CopiesInv'
  BY <1>1, CatalogueStaysTrue, RowsStayTrue DEF CopiesInv, StillSo
<1>8. NothingUnlisted'
  <2>1. \A i \in Ids : journal'[i] # "absent" => journal[i] # "absent" \/ step[i] # "idle"
    BY JournalStep, AppearsFromStep DEF WInv
  <2> QED BY <1>1, <2>1 DEF Lasting, WInv, RowsInv, NothingUnlisted
<1>9. ReviewInv'
  BY DialogStaysTyped
<1> QED BY <1>2, <1>4, <1>5, <1>6, <1>7, <1>8, <1>9 DEF WInv

\* The strengthened invariant of the composition holds throughout.
LEMMA WInvariance == WorkspaceSpec => []WInv
<1> QED BY WInitWInv, WNextWInv, PTL DEF WorkspaceSpec

-------------------------------------------------------------------------------
(* What follows from it                                                    *)

\* Seen from the wallet, the page and the routes are callers like any other: the
\* composition implements the journal's specification, and with it the promise of
\* SubmitOnce (service.ts calls nothing but the wallet's public methods).
THEOREM ImplementsJournal == WorkspaceSpec => Spec
<1>1. WorkspaceInit => Init
  BY DEF WorkspaceInit
<1> QED BY <1>1, WInvariance, JournalStep, PTL DEF WorkspaceSpec, Spec

\* However often a button is pressed, an answer is lost and a page is opened again,
\* WaaS acts on a transfer at most once (executePrepared behind the routes).
THEOREM PageSubmitsAtMostOnce == WorkspaceSpec => []AtMostOnce
<1> QED BY ImplementsJournal, SubmittedAtMostOnce, PTL

\* The variables of the page, the routes and the catalogue keep their types.
THEOREM WorkspaceTypeCorrect == WorkspaceSpec => []WorkspaceTypeOK
<1>1. WInv => WorkspaceTypeOK
  BY DEF WInv
<1> QED BY <1>1, WInvariance, PTL

\* An operation in the journal has its row in the catalogue: a row is reserved
\* before its command is dispatched, and none is taken away (app.ts).
THEOREM NothingUnlistedCorrect == WorkspaceSpec => []NothingUnlisted
<1>1. WInv => NothingUnlisted
  BY DEF WInv
<1> QED BY <1>1, WInvariance, PTL

\* What the catalogue and the page show as final is what became of the transfer
\* at WaaS, in whatever order answers are stored and arrive (dispatch,
\* WalletDetail).
THEOREM ShownIsTrueCorrect == WorkspaceSpec => []ShownIsTrue
<1>1. WInv => ShownIsTrue
  BY DEF WInv, IInv, CopiesInv, StillSo, Agrees, VerdictsAgree, ShownIsTrue, True, Terminal
<1> QED BY <1>1, WInvariance, PTL
===============================================================================
