------------------------------ MODULE SwapOutbox ------------------------------
(***************************************************************************)
(* How a host keeps the swaps of one wallet moving and their summaries up  *)
(* to date: the swap store with its outbox (swaps-store.ts), the Durable   *)
(* Object that owns the wallet on Workers (worker.ts), the timer that      *)
(* looks for due work on Node (node.ts, node-runner.ts), and the versioned *)
(* projection into the catalogue (database.ts).                            *)
(*                                                                         *)
(* Entries of a wallet (commands, alarms, ticks) run one at a time.  What  *)
(* a command does to a record is the subject of SwapFunding; here it is a  *)
(* sequence of saves.                                                      *)
(*                                                                         *)
(* Abstractions.  Times are an order: a record is due now, later or never, *)
(* the due ones stand in line by their time, and an alarm is set or not;   *)
(* how late an alarm may be is left out.  The versions of a record are     *)
(* counted up to MaxVersion; it is saved as often as before after that,    *)
(* without a new number.                                                   *)
(***************************************************************************)
EXTENDS Naturals, Sequences, FiniteSets, SequencesExt

CONSTANTS Swaps,
          Hosts,        \* the kinds of host: "worker", "node"
          Limit,        \* records advanced by one tick
          MaxVersion,   \* bound: versions told apart of each record
          MaxLate       \* bound: projections of each swap that may arrive late

ASSUME BoundsAssumption == /\ Limit \in Nat \ {0} /\ MaxVersion \in [Swaps -> Nat \ {0}]
                           /\ Hosts \subseteq {"worker", "node"}
                           /\ MaxLate \in [Swaps -> Nat]

VARIABLES
  host,                 \* "worker" or "node"; never changes
  row,                  \* durable: the store's row of each swap
  line,                 \* durable: the due rows in the order of their times
  alarm,                \* durable: the Durable Object's alarm is set
  fired,                \* an alarm or a runner's tick waits for its turn
  known,                \* the configuration still has the wallet's scope
  summary,              \* catalogue: the version that was projected last
  wire,                 \* projections that timed out and may still arrive
  at,                   \* volatile: where the running entry stands
  entry,                \* volatile: "call", "tick" or none
  todo,                 \* volatile: records this entry still works on
  saving                \* volatile: the record to commit or mark

durable  == <<row, line, alarm>>
volatile == <<at, entry, todo, saving>>
vars     == <<host, durable, fired, known, summary, wire, volatile>>

-------------------------------------------------------------------------------
(* Types                                                                   *)

Versions == Nat
Nexts    == {"none", "later", "due"}
Rows     == [version : Versions, next : Nexts, dirty : BOOLEAN]
NoRow    == [version |-> 0, next |-> "none", dirty |-> FALSE]
Nothing  == [swaps |-> {}, version |-> 0, next |-> "none"]

TypeOK ==
  /\ host \in Hosts
  /\ row \in [Swaps -> Rows]
  /\ line \in Seq(Swaps) /\ IsInjective(line)
  /\ \A s \in Swaps : row[s].next = "due" <=> s \in Range(line)
  /\ alarm \in BOOLEAN /\ fired \in BOOLEAN /\ known \in BOOLEAN
  /\ summary \in [Swaps -> Versions]
  /\ wire \in SUBSET (Swaps \X Versions)
  /\ at \in {"idle", "armed", "work", "commit", "flush", "mark", "schedule"}
  /\ entry \in {"none", "call", "tick"}
  /\ todo \in SUBSET Swaps
  /\ saving \in [swaps : SUBSET Swaps, version : Versions, next : Nexts]

Init ==
  /\ host \in Hosts
  /\ row = [s \in Swaps |-> NoRow]
  /\ line = <<>>
  /\ alarm = FALSE /\ fired = FALSE /\ known = TRUE
  /\ summary = [s \in Swaps |-> 0]
  /\ wire = {}
  /\ at = "idle" /\ entry = "none" /\ todo = {} /\ saving = Nothing

-------------------------------------------------------------------------------
(* Helpers                                                                 *)

Dirty   == {s \in Swaps : row[s].dirty}
Pending == Dirty \cup {s \in Swaps : row[s].next # "none"}

\* The entry ends; the next one may start.
Rest == at' = "idle" /\ entry' = "none" /\ todo' = {} /\ saving' = Nothing

\* The tick that waited is over when the entry was that tick.
Served == fired' = (fired /\ entry # "tick")

-------------------------------------------------------------------------------
(* Wake-ups                                                                *)

\* A set alarm goes off; the platform has cleared it and calls alarm().
AlarmFires == /\ host = "worker" /\ alarm /\ ~fired
              /\ alarm' = FALSE /\ fired' = TRUE
              /\ UNCHANGED <<host, row, line, known, summary, wire, volatile>>

\* Mutant: the alarm is set again only when the tick is over.
AlarmUnarmed == /\ host = "worker" /\ fired /\ at = "idle"
                /\ at' = "armed" /\ entry' = "tick"
                /\ UNCHANGED <<host, durable, fired, known, summary, wire, todo,
                               saving>>

\* alarm() sets it again before anything can fail.
AlarmRearms == /\ host = "worker" /\ fired /\ at = "idle"
               /\ alarm' = TRUE
               /\ at' = "armed" /\ entry' = "tick"
               /\ UNCHANGED <<host, row, line, fired, known, summary, wire, todo,
                              saving>>

\* A coordinator of another scope touches nothing.
AlarmForeign == /\ at = "armed" /\ ~known
                /\ Served /\ Rest
                /\ UNCHANGED <<host, durable, known, summary, wire>>

\* NodeSwapRunner: the timer finds due or dirty rows, one tick at a time.
RunnerTick == /\ host = "node" /\ known /\ ~fired
              /\ line # <<>> \/ Dirty # {}
              /\ fired' = TRUE
              /\ UNCHANGED <<host, durable, known, summary, wire, volatile>>

RunnerDispatches == /\ host = "node" /\ fired /\ at = "idle"
                    /\ at' = "armed" /\ entry' = "tick"
                    /\ UNCHANGED <<host, durable, fired, known, summary, wire,
                                   todo, saving>>

\* Mutant: the latest come first.
TickLatest == /\ at = "armed" /\ known
              /\ at' = "work"
              /\ todo' = {line[i] : i \in {j \in DOMAIN line : j + Limit > Len(line)}}
              /\ UNCHANGED <<host, durable, fired, known, summary, wire, entry,
                             saving>>

\* swap-tick takes the records that have been due longest.
Tick == /\ at = "armed" /\ known
        /\ at' = "work"
        /\ todo' = {line[i] : i \in DOMAIN line \cap 1 .. Limit}
        /\ UNCHANGED <<host, durable, fired, known, summary, wire, entry, saving>>

\* A command of the API, about one swap or none.
Call(work) == /\ at = "idle" /\ known
              /\ at' = "work" /\ entry' = "call" /\ todo' = work
              /\ UNCHANGED <<host, durable, fired, known, summary, wire, saving>>

-------------------------------------------------------------------------------
(* SqlSwapStore.save                                                       *)

\* What a save may leave: only a confirmation makes a record due at once, which
\* is a call and happens a bounded number of times.
SavedNext(s) == IF entry = "call" /\ row[s].version < MaxVersion[s] THEN Nexts
                ELSE {"none", "later"}

NextVersion(s) == IF row[s].version < MaxVersion[s] THEN row[s].version + 1
                  ELSE row[s].version

\* The line without s.
Without(s) == IF s \in Range(line)
              THEN RemoveAt(line, CHOOSE i \in DOMAIN line : line[i] = s)
              ELSE line

\* The wake-up comes first; on Node the store has nothing to set.
SaveWakes(s) ==
  /\ at = "work" /\ s \in todo
  /\ alarm' = (alarm \/ host = "worker")
  /\ \E next \in SavedNext(s) : saving' = [Nothing EXCEPT !.swaps = {s}, !.next = next]
  /\ at' = "commit"
  /\ UNCHANGED <<host, row, line, fired, known, summary, wire, entry, todo>>

\* The row is replaced at once with its version, next time and dirty mark;
\* the step of this record is over, or it makes a remote call and saves again.
SaveCommits ==
  /\ at = "commit"
  /\ \E s \in saving.swaps :
       /\ row' = [row EXCEPT ![s] = [version |-> NextVersion(s),
                                     next |-> saving.next, dirty |-> TRUE]]
       /\ line' = IF saving.next = "due" THEN Append(Without(s), s) ELSE Without(s)
       /\ todo' \in {todo, todo \ {s}}
  /\ at' = "work" /\ saving' = Nothing
  /\ UNCHANGED <<host, alarm, fired, known, summary, wire, entry>>

\* An error outside a record's own step ends the command; the outbox is
\* flushed all the same.
WorkEnds == /\ \/ at = "work"
               \/ at = "commit"
            /\ at' = "flush" /\ todo' = Dirty /\ saving' = Nothing
            /\ UNCHANGED <<host, durable, fired, known, summary, wire, entry>>

-------------------------------------------------------------------------------
(* SqlSwapStore.flush, Repository.projectSwap                              *)

\* Mutant: whatever arrives last is shown.
ProjectedLast(s, v) == [summary EXCEPT ![s] = v]

\* The upsert replaces an older version only.
Projected(s, v) == [summary EXCEPT ![s] = IF v > @ THEN v ELSE @]

Project(s) == /\ at = "flush" /\ s \in todo
              /\ summary' = Projected(s, row[s].version)
              /\ saving' = [Nothing EXCEPT !.swaps = {s},
                                           !.version = row[s].version]
              /\ at' = "mark"
              /\ UNCHANGED <<host, durable, fired, known, wire, entry, todo>>

MarkClean == /\ at = "mark"
             /\ row' = [s \in Swaps |-> IF /\ s \in saving.swaps
                                           /\ row[s].version = saving.version
                                        THEN [row[s] EXCEPT !.dirty = FALSE]
                                        ELSE row[s]]
             /\ todo' = todo \ saving.swaps
             /\ at' = "flush" /\ saving' = Nothing
             /\ UNCHANGED <<host, line, alarm, fired, known, summary, wire, entry>>

\* The write of a projection that timed out is still under way, or lost.
Outstanding(s) == IF Cardinality({w \in wire : w[1] = s}) < MaxLate[s]
                  THEN wire \cup {<<s, row[s].version>>} ELSE wire

\* Mutant: a projection that failed is marked as done.
ProjectForgets(s) == /\ at = "flush" /\ s \in todo
                     /\ wire' = Outstanding(s)
                     /\ saving' = [Nothing EXCEPT !.swaps = {s},
                                                  !.version = row[s].version]
                     /\ at' = "mark"
                     /\ UNCHANGED <<host, durable, fired, known, summary, entry,
                                    todo>>

\* The catalogue does not answer; its write may still happen.
ProjectFails(s) == /\ at = "flush" /\ s \in todo
                   /\ wire' = Outstanding(s)
                   /\ at' = "schedule" /\ todo' = {}
                   /\ UNCHANGED <<host, durable, fired, known, summary, entry,
                                  saving>>

FlushEnds == /\ at = "flush" /\ todo = {}
             /\ at' = "schedule"
             /\ UNCHANGED <<host, durable, fired, known, summary, wire, entry, todo,
                            saving>>

ArrivesLate == \E w \in wire :
                 /\ summary' = Projected(w[1], w[2])
                 /\ wire' = wire \ {w}
                 /\ UNCHANGED <<host, durable, fired, known, volatile>>

Vanishes == \E w \in wire :
              /\ wire' = wire \ {w}
              /\ UNCHANGED <<host, durable, fired, known, summary, volatile>>

-------------------------------------------------------------------------------
(* The end of run, errors, restarts, time                                  *)

\* Mutant: what only waits for the outbox does not set the alarm again.
ScheduleActive == /\ at = "schedule"
                  /\ alarm' = (host = "worker" /\ Pending \ Dirty # {})
                  /\ Served /\ Rest
                  /\ UNCHANGED <<host, row, line, known, summary, wire>>

\* nextDue() decides whether the alarm is set or deleted.
Schedule == /\ at = "schedule"
            /\ alarm' = (host = "worker" /\ Pending # {})
            /\ Served /\ Rest
            /\ UNCHANGED <<host, row, line, known, summary, wire>>

\* An exception that processCommand and flush do not catch: of the storage, the
\* configuration or the host itself.
Throw == /\ at \in {"armed", "work", "schedule"}
         /\ Served /\ Rest
         /\ UNCHANGED <<host, durable, known, summary, wire>>

\* A Durable Object's alarm is delivered again a few times after a crash, not
\* for ever; a runner starts from nothing.
Crash == /\ at # "idle"
         /\ Rest
         /\ fired' \in (IF host = "worker" /\ entry = "call" THEN {fired}
                        ELSE {FALSE} \cup {fired /\ host = "worker"})
         /\ UNCHANGED <<host, durable, known, summary, wire>>

SetScope(b) == /\ at = "idle"
               /\ known' = b
               /\ UNCHANGED <<host, durable, fired, summary, wire, volatile>>

BecomesDue(s) == /\ row[s].next = "later"
                 /\ row' = [row EXCEPT ![s].next = "due"]
                 /\ line' = Append(line, s)
                 /\ UNCHANGED <<host, alarm, fired, known, summary, wire, volatile>>

-------------------------------------------------------------------------------
Entry == \/ AlarmRearms \/ AlarmForeign \/ RunnerDispatches \/ Tick
         \/ SaveCommits \/ WorkEnds \/ MarkClean \/ FlushEnds \/ Schedule
         \/ \E s \in Swaps : SaveWakes(s) \/ Project(s) \/ ProjectFails(s)

Next == \/ Entry \/ Throw \/ Crash
        \/ AlarmFires \/ RunnerTick \/ ArrivesLate \/ Vanishes
        \/ \E s \in Swaps : BecomesDue(s)
        \/ \E work \in {{}} \cup {{s} : s \in Swaps} : Call(work)
        \/ \E b \in BOOLEAN : SetScope(b)

Spec == Init /\ [][Next]_vars

\* Alarms and the timer keep coming, an entry does not stand still, and restarts
\* become rare: at last each entry ends of itself.  What is wanted again and again
\* is done at last: a tick comes to its outbox, a step of a record to its last
\* save, a projection to the catalogue.
TickEnds    == entry = "tick" /\ WorkEnds
StepEnds(s) == saving.swaps = {s} /\ SaveCommits /\ s \notin todo'

Fairness ==
  /\ <>[][Crash => Entry \/ Throw]_vars
  /\ WF_vars(Entry)
  /\ WF_vars(AlarmFires) /\ WF_vars(RunnerTick)
  /\ []<>(fired /\ known) => []<><<TickEnds>>_vars
  /\ \A s \in Swaps :
       /\ []<>(at = "work" /\ s \in todo) => []<><<StepEnds(s)>>_vars
       /\ []<>(at = "flush" /\ s \in todo) => []<><<Project(s)>>_vars

LiveSpec == Spec /\ Fairness

-------------------------------------------------------------------------------
(* Properties                                                              *)

\* Work that is stored always has something that will take it up, wherever a
\* restart comes: on Workers an alarm that is set or being delivered.
WorkIsScheduled ==
  host = "worker" /\ Pending # {} => alarm \/ fired

\* A row is marked clean only when the catalogue shows its version, and the
\* catalogue never shows a version that is not stored.
CleanIsProjected ==
  \A s \in Swaps : /\ summary[s] <= row[s].version
                   /\ ~row[s].dirty => summary[s] = row[s].version
                   /\ \A w \in wire : w[1] = s => w[2] <= row[s].version

\* A projection that arrives late does not undo a newer one.
SummaryNeverGoesBack == [][\A s \in Swaps : summary'[s] >= summary[s]]_vars

\* What is due keeps its place in line or moves up until it is saved again, so
\* that a tick, which takes the first ones, overtakes nothing (tick).
NeverOvertaken ==
  [][\A i \in DOMAIN line :
       line[i] \notin saving.swaps =>
         \E j \in DOMAIN line' : j <= i /\ line'[j] = line[i]]_vars

\* Every record that is due is advanced at last, though a tick takes Limit of them
\* and others come due again and again (tick); and every stored version is shown
\* (flush); unless the deployment has another scope than the wallet.
DueIsAdvanced == \A s \in Swaps : row[s].next = "due" ~> row[s].next # "due" \/ ~known
IsProjected   == \A s \in Swaps : row[s].dirty ~> ~row[s].dirty \/ ~known
===============================================================================
