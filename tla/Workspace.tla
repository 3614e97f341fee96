------------------------------- MODULE Workspace -------------------------------
(***************************************************************************)
(* The administrator's page of one wallet, from the button to the journal: *)
(* WalletDetail and SendTransfer (apps/dashboard/src/main.tsx), the routes *)
(* (apps/server/app.ts), the catalogue of operations                       *)
(* (apps/server/database.ts), processCommand (apps/server/service.ts) and, *)
(* extended from OperationJournal, the wallet the command runs on.         *)
(*                                                                         *)
(* What the page lists comes from the catalogue and from polls, never from *)
(* the journal itself: a command that has ended is written to the          *)
(* catalogue by its route, outside the wallet's queue, and then answered,  *)
(* and it may be lost before either.                                       *)
(*                                                                         *)
(* Abstractions.  One tab has a page; other tabs only add polls.  Amounts, *)
(* balances, snapshots, audit events and messages are left out; signing    *)
(* takes the same way as preparing, and is.  An expired session, logging   *)
(* out, navigating and reloading all take the page away.                   *)
(***************************************************************************)
EXTENDS OperationJournal

CONSTANTS Slots,        \* requests of browsers that may be under way at once
          NoOne         \* no slot, no operation

ASSUME NoOneAssumption == NoOne \notin Slots \cup Ids

VARIABLES
  catalogue,            \* operations.result; "reserved": null; "none": no row
  call,                 \* the requests under way
  open,                 \* WalletDetail is mounted
  rows,                 \* its ops: status shown, or "none"
  dialog                \* SendTransfer: where it stands, and what it awaits

workspaceVars == <<vars, catalogue, call, open, rows, dialog>>

Shown == {"none"} \cup (Statuses \ {"absent"})
NoRows == [i \in Ids |-> "none"]

Stages == {"idle", "reserve", "enter", "run", "done", "answered", "error"}

\* mine: the page that sent the request still waits for it.
Idle == [op |-> "none", id |-> NoOne, stage |-> "idle", result |-> "none",
         list |-> NoRows, mine |-> FALSE]

Closed == [at |-> "closed", id |-> NoOne, wait |-> NoOne]

WorkspaceTypeOK ==
  /\ TypeOK
  /\ catalogue \in [Ids -> Shown \cup {"reserved"}]
  /\ call \in [Slots -> [op : {"none", "prepare", "execute", "poll", "list"},
                         id : Ids \cup {NoOne}, stage : Stages,
                         result : {"none"} \cup Statuses,
                         list : [Ids -> Shown], mine : BOOLEAN]]
  /\ open \in BOOLEAN
  /\ rows \in [Ids -> Shown]
  /\ dialog \in [at : {"closed", "form", "review"}, id : Ids \cup {NoOne},
                 wait : Slots \cup {NoOne}]

WorkspaceInit ==
  /\ Init
  /\ catalogue = [i \in Ids |-> "none"]
  /\ call = [c \in Slots |-> Idle]
  /\ open = FALSE
  /\ rows = NoRows
  /\ dialog = Closed

-------------------------------------------------------------------------------
(* The page                                                                *)

\* Mutant: the route does not reserve a row before it dispatches.
StartUnreserved(op) == "enter"

\* Only preparing reserves a row before the command is dispatched.
Start(op) == IF op = "prepare" THEN "reserve" ELSE "enter"

Request(op, i) == [op |-> op, id |-> i, stage |-> Start(op), result |-> "none",
                   list |-> NoRows, mine |-> TRUE]

Ask(c, op, i) == /\ call[c] = Idle
                 /\ call' = [call EXCEPT ![c] = Request(op, i)]

\* refresh() is running: the buttons of the page are off.
Refreshing == \E c \in Slots : call[c].op = "list" /\ call[c].mine

\* WalletDetail mounts, with the state a mount begins with, and refreshes.
OpenPage ==
  /\ ~open
  /\ open' = TRUE
  /\ \E c \in Slots : Ask(c, "list", NoOne)
  /\ UNCHANGED <<vars, catalogue, rows, dialog>>

\* An answer that finds nobody is not kept.
Kept(r) == IF ~r.mine /\ r.stage \in {"answered", "error"} THEN Idle ELSE r

\* It unmounts; answers still under way find nobody.
LeavePage ==
  /\ open
  /\ open' = FALSE
  /\ rows' = NoRows
  /\ dialog' = Closed
  /\ call' = [c \in Slots |-> Kept([call[c] EXCEPT !.mine = FALSE])]
  /\ UNCHANGED <<vars, catalogue>>

Refresh ==
  /\ open /\ ~Refreshing /\ dialog = Closed
  /\ \E c \in Slots : Ask(c, "list", NoOne)
  /\ UNCHANGED <<vars, catalogue, open, rows, dialog>>

OpenDialog ==
  /\ open /\ ~Refreshing /\ dialog = Closed
  /\ dialog' = [Closed EXCEPT !.at = "form"]
  /\ UNCHANGED <<vars, catalogue, call, open, rows>>

\* Cancel is offered while a request is under way, too.
CloseDialog ==
  /\ dialog # Closed
  /\ dialog' = Closed
  /\ UNCHANGED <<vars, catalogue, call, open, rows>>

Back ==
  /\ dialog.at = "review" /\ dialog.wait = NoOne
  /\ dialog' = [Closed EXCEPT !.at = "form"]
  /\ UNCHANGED <<vars, catalogue, call, open, rows>>

\* Every attempt to prepare has an identifier of its own.
Fresh(i) == /\ catalogue[i] = "none"
            /\ journal[i] = "absent"
            /\ \A c \in Slots : call[c].id # i

Submit(i) ==
  /\ dialog.at = "form" /\ dialog.wait = NoOne
  /\ Fresh(i)
  /\ \E c \in Slots : Ask(c, "prepare", i) /\ dialog' = [dialog EXCEPT !.wait = c]
  /\ UNCHANGED <<vars, catalogue, open, rows>>

\* Confirm & send, again if the answer to the first click was an error.
Confirm ==
  /\ dialog.at = "review" /\ dialog.wait = NoOne
  /\ \E c \in Slots : /\ Ask(c, "execute", dialog.id)
                      /\ dialog' = [dialog EXCEPT !.wait = c]
  /\ UNCHANGED <<vars, catalogue, open, rows>>

\* Mutant: a transfer of unknown outcome is left alone.
PolledWhenPending == {"pending", "submitting"}

Polled == {"pending", "unknown", "submitting"}

\* The timer of WalletDetail; it does not wait for the poll before.
TimerPolls(i) ==
  /\ open /\ rows[i] \in Polled
  /\ \E c \in Slots : Ask(c, "poll", i)
  /\ UNCHANGED <<vars, catalogue, open, rows, dialog>>

\* A page in another tab polls: it lists what the catalogue says.
ListedAs(s) == IF s = "reserved" THEN "unknown" ELSE s

ElsewherePolls(i) ==
  /\ ListedAs(catalogue[i]) \in Polled
  /\ \E c \in Slots : /\ call[c] = Idle
                      /\ call' = [call EXCEPT ![c] = [Request("poll", i) EXCEPT !.mine = FALSE]]
  /\ UNCHANGED <<vars, catalogue, open, rows, dialog>>

-------------------------------------------------------------------------------
(* The routes and the command                                              *)

Stage(c, s) == call' = [call EXCEPT ![c] = Kept([@ EXCEPT !.stage = s])]

Reserve(c) ==
  /\ call[c].stage = "reserve"
  /\ catalogue' = [catalogue EXCEPT ![call[c].id] = IF @ = "none" THEN "reserved" ELSE @]
  /\ Stage(c, "enter")
  /\ UNCHANGED <<vars, open, rows, dialog>>

\* The command's turn in the wallet's queue: the wallet method it calls
\* starts, and awaits.
Enter(c) ==
  /\ call[c].stage = "enter"
  /\ \/ call[c].op = "prepare" /\ Begin(call[c].id)
     \/ call[c].op = "execute" /\ Execute(call[c].id)
     \/ call[c].op \in {"execute", "poll"} /\ Poll(call[c].id)
  /\ Stage(c, "run")
  /\ UNCHANGED <<catalogue, open, rows, dialog>>

\* The method has nothing to await: the saved operation is the result, or
\* null.
Saved(c) == CASE call[c].op = "prepare" -> journal[call[c].id] # "absent"
              [] call[c].op = "execute" -> journal[call[c].id] \in Terminal \cup {"preparing"}
              [] call[c].op = "poll" -> journal[call[c].id] \notin Refreshable
              [] OTHER -> FALSE

AnswerSaved(c) ==
  /\ call[c].stage = "enter" /\ Free
  /\ Saved(c)
  /\ call' = [call EXCEPT ![c].stage = "done", ![c].result = journal[call[c].id]]
  /\ UNCHANGED <<vars, catalogue, open, rows, dialog>>

\* The calls that wait for the method that works on i: one at most.
Waiting(i) == {c \in Slots : call[c].id = i /\ call[c].stage = "run"}

Works(i) ==
  /\ \/ WriteIndex(i) \/ WriteRecord(i) \/ Send(i) \/ Reauthenticate(i) \/ PollRead(i)
  /\ UNCHANGED <<catalogue, call, open, rows, dialog>>

Returns(i) ==
  /\ PrepareQuoted(i) \/ Receive(i) \/ GiveUp(i) \/ PollAnswered(i)
  /\ call' = [c \in Slots |-> IF c \in Waiting(i)
                              THEN [call[c] EXCEPT !.stage = "done", !.result = journal'[i]]
                              ELSE call[c]]
  /\ UNCHANGED <<catalogue, open, rows, dialog>>

\* Mutant: a command that throws is reported as a failed operation.
ThrowsAsFailed(i) ==
  /\ PrepareFailed(i) \/ PollFailed(i)
  /\ call' = [c \in Slots |-> IF c \in Waiting(i)
                              THEN [call[c] EXCEPT !.stage = "done", !.result = "failed"]
                              ELSE call[c]]
  /\ UNCHANGED <<catalogue, open, rows, dialog>>

Throws(i) ==
  /\ PrepareFailed(i) \/ PollFailed(i)
  /\ call' = [c \in Slots |-> IF c \in Waiting(i)
                              THEN Kept([call[c] EXCEPT !.stage = "error"]) ELSE call[c]]
  /\ UNCHANGED <<catalogue, open, rows, dialog>>

\* The route writes the operation's row, when there is an operation, and
\* answers.
Store(c) ==
  /\ call[c].stage = "done"
  /\ catalogue' = [i \in Ids |-> IF /\ i = call[c].id /\ call[c].result # "absent"
                                    /\ catalogue[i] # "none"
                                 THEN call[c].result ELSE catalogue[i]]
  /\ Stage(c, "answered")
  /\ UNCHANGED <<vars, open, rows, dialog>>

\* The list of operations is read from the catalogue alone.
ReadList(c) ==
  /\ call[c].op = "list" /\ call[c].stage = "enter"
  /\ call' = [call EXCEPT ![c] =
                Kept([@ EXCEPT !.stage = "answered",
                               !.list = [i \in Ids |-> ListedAs(catalogue[i])]])]
  /\ UNCHANGED <<vars, catalogue, open, rows, dialog>>

\* The request is refused, the catalogue cannot be written, or the
\* connection breaks.  A wallet method that runs goes on by itself.
Drop(c) ==
  /\ call[c].stage \notin {"idle", "error"}
  /\ Stage(c, "error")
  /\ UNCHANGED <<vars, catalogue, open, rows, dialog>>

\* The process or the Durable Object stops in the middle of a method.
HostStops ==
  /\ Crash
  /\ call' = [c \in Slots |-> IF call[c].stage = "run"
                              THEN Kept([call[c] EXCEPT !.stage = "error"]) ELSE call[c]]
  /\ UNCHANGED <<catalogue, open, rows, dialog>>

-------------------------------------------------------------------------------
(* The answers at the page                                                 *)

Awaited(c) == dialog.wait = c
End(c) == call' = [call EXCEPT ![c] = Idle]

\* An error is shown; the dialog stays where it is.
GetError(c) ==
  /\ call[c].stage = "error"
  /\ End(c)
  /\ dialog' = IF Awaited(c) THEN [dialog EXCEPT !.wait = NoOne] ELSE dialog
  /\ UNCHANGED <<vars, catalogue, open, rows>>

GetPrepared(c) ==
  /\ call[c].op = "prepare" /\ call[c].stage = "answered"
  /\ End(c)
  /\ dialog' = IF Awaited(c) THEN [at |-> "review", id |-> call[c].id, wait |-> NoOne]
               ELSE dialog
  /\ UNCHANGED <<vars, catalogue, open, rows>>

\* completed(): the dialog closes, whichever it is by now, and the page
\* refreshes.
GetExecuted(c) ==
  /\ call[c].op = "execute" /\ call[c].stage = "answered"
  /\ call' = [call EXCEPT ![c] = Request("list", NoOne)]
  /\ dialog' = Closed
  /\ UNCHANGED <<vars, catalogue, open, rows>>

GetPolled(c) ==
  /\ call[c].op = "poll" /\ call[c].stage = "answered"
  /\ End(c)
  /\ rows' = [i \in Ids |-> IF /\ i = call[c].id /\ rows[i] # "none"
                               /\ call[c].result # "absent"
                            THEN call[c].result ELSE rows[i]]
  /\ UNCHANGED <<vars, catalogue, open, dialog>>

GetList(c) ==
  /\ call[c].op = "list" /\ call[c].stage = "answered"
  /\ End(c)
  /\ rows' = call[c].list
  /\ UNCHANGED <<vars, catalogue, open, dialog>>

-------------------------------------------------------------------------------
Page == \/ OpenPage \/ LeavePage \/ Refresh \/ OpenDialog \/ CloseDialog \/ Back
        \/ Confirm
        \/ \E i \in Ids : Submit(i) \/ TimerPolls(i) \/ ElsewherePolls(i)

Route(c) == \/ Reserve(c) \/ Enter(c) \/ AnswerSaved(c) \/ Store(c) \/ ReadList(c)
            \/ Drop(c)

Get(c) == \/ GetError(c) \/ GetPrepared(c) \/ GetExecuted(c) \/ GetPolled(c) \/ GetList(c)

World == /\ \/ \E i \in Ids : Waas(i)
            \/ \E b \in BOOLEAN : SetDisabled(b)
            \/ KeyRefused
         /\ UNCHANGED <<catalogue, call, open, rows, dialog>>

WorkspaceNext == \/ Page \/ HostStops \/ World
                 \/ \E c \in Slots : Route(c) \/ Get(c)
                 \/ \E i \in Ids : Works(i) \/ Returns(i) \/ Throws(i)

WorkspaceSpec == WorkspaceInit /\ [][WorkspaceNext]_workspaceVars

\* A step about one operation, as seen by the page.
About(c, op, i, A) == call[c].op = op /\ call[c].id = i /\ call[c].mine /\ A

\* Methods and requests time out, the timer ticks; of the polls
\* that are tried for ever some get through, and WaaS finishes what it
\* accepted.
WorkspaceFairness ==
  /\ \A i \in Ids :
       /\ WF_workspaceVars(Works(i) \/ Returns(i) \/ Throws(i))
       /\ SF_workspaceVars(TimerPolls(i))
       /\ SF_workspaceVars(\E c \in Slots : About(c, "poll", i, Enter(c) \/ AnswerSaved(c)))
       /\ SF_workspaceVars(PollRead(i) /\ Works(i))
       /\ SF_workspaceVars(PollAnswered(i) /\ Returns(i))
       /\ SF_workspaceVars(\E c \in Slots : About(c, "poll", i, Store(c)))
       /\ SF_workspaceVars(\E c \in Slots : About(c, "poll", i, GetPolled(c)))
       /\ WF_workspaceVars(WaasProgress(i) /\ World)
  /\ \A c \in Slots : WF_workspaceVars(Route(c) \/ Get(c))

LiveWorkspace == WorkspaceSpec /\ WorkspaceFairness

-------------------------------------------------------------------------------
(* Properties                                                              *)

\* The list of operations is read from the catalogue alone, so whatever is
\* lost and wherever a process stops, an operation in the journal has its
\* row there (reserveOperation before dispatch, app.ts:219 and 225).
NothingUnlisted == \A i \in Ids : journal[i] # "absent" => catalogue[i] # "none"

\* What the catalogue and the page report as final is what became of the
\* transfer at WaaS, however old the answers are they were taken from: an
\* executed one was acted on once, a failed one never is.
True(s, i) ==
  /\ s = "executed" => txn[i] = "executed" /\ accepted[i] = 1
  /\ s = "failed" => txn[i] = "failed" \/ (wire[i] = 0 /\ accepted[i] = 0)
ShownIsTrue == \A i \in Ids : True(catalogue[i], i) /\ True(rows[i], i)

\* A listed transfer that WaaS acted on is shown with its outcome in the end,
\* unless the page is left or the row says "quoted": a row the page does not
\* poll, left by an answer to execute that was lost before it was stored, or
\* overtaken by an older poll (WalletDetail, dispatch).
OutcomeShown ==
  []<>(~disabled) =>
    \A i \in Ids : accepted[i] > 0 /\ rows[i] # "none"
                   ~> rows[i] \in Terminal \cup {"quoted"} \/ ~open
===============================================================================
