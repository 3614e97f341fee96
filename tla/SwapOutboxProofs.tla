--------------------------- MODULE SwapOutboxProofs ---------------------------
(***************************************************************************)
(* Theorems about the swap store and its hosts, for every set of swaps and *)
(* every bound.                                                            *)
(*                                                                         *)
(* WorkIsScheduled is not inductive: an exception or a restart ends an     *)
(* entry without looking at the alarm, so one must know that a tick runs   *)
(* with its alarm set again, and that a save commits only after its        *)
(* wake-up (EntryArmed).  CleanIsProjected needs to know what the entry    *)
(* has just projected when it marks a row clean (MarkedIsShown).  That a   *)
(* due record is never overtaken needs to know that the line holds the due *)
(* records and each of them once (LineInv).                                *)
(***************************************************************************)
EXTENDS SwapOutbox, SequenceTheorems, TLAPS

\* The part of the type invariant the proofs use.
Typed == /\ host \in {"worker", "node"}
         /\ row \in [Swaps -> Rows]
         /\ alarm \in BOOLEAN /\ fired \in BOOLEAN
         /\ summary \in [Swaps -> Versions]
         /\ wire \in SUBSET (Swaps \X Versions)
         /\ saving \in [swaps : SUBSET Swaps, version : Versions, next : Nexts]
         /\ entry \in {"none", "call", "tick"}
         /\ (at = "idle") <=> (entry = "none")

EntryArmed ==
  /\ host = "worker" /\ entry = "tick" => alarm /\ fired
  /\ host = "worker" /\ at = "commit" => alarm \/ fired

MarkedIsShown ==
  at = "mark" => \A s \in saving.swaps : summary[s] = row[s].version

ScheduleInv == Typed /\ EntryArmed /\ WorkIsScheduled
CatalogueInv == Typed /\ MarkedIsShown /\ CleanIsProjected

-------------------------------------------------------------------------------
(* Types                                                                   *)

\* The initial rows, alarm and catalogue have their types.
LEMMA InitTyped == Init => Typed
<1> SUFFICES ASSUME Init PROVE Typed
  OBVIOUS
<1>1. host \in {"worker", "node"}
  BY BoundsAssumption DEF Init
<1>2. 0 \in Versions
  BY BoundsAssumption DEF Versions
<1>3. NoRow \in Rows
  BY <1>2 DEF Rows, NoRow, Nexts
<1>4. Nothing \in [swaps : SUBSET Swaps, version : Versions, next : Nexts]
  BY <1>2 DEF Nothing, Nexts
<1> QED
  BY <1>1, <1>2, <1>3, <1>4 DEF Init, Typed

\* A save never lowers the version of its record.
LEMMA NextVersionIs ==
  ASSUME Typed, NEW s \in Swaps
  PROVE  NextVersion(s) \in Versions /\ NextVersion(s) >= row[s].version
<1>1. row[s].version \in Nat
  BY DEF Typed, Rows, Versions
<1> QED
  BY <1>1 DEF NextVersion, Versions

\* Every step keeps the types.
LEMMA NextTyped == Typed /\ [Next]_vars => Typed'
<1> SUFFICES ASSUME Typed, [Next]_vars PROVE Typed'
  OBVIOUS
<1> USE BoundsAssumption
    DEF Typed, Rows, Nexts, Versions, Nothing, Rest, Served, durable, volatile
<1>1. CASE AlarmFires
  BY <1>1 DEF AlarmFires
<1>2. CASE AlarmRearms
  BY <1>2 DEF AlarmRearms
<1>3. CASE AlarmForeign
  BY <1>3 DEF AlarmForeign
<1>4. CASE RunnerTick
  BY <1>4 DEF RunnerTick
<1>5. CASE RunnerDispatches
  BY <1>5 DEF RunnerDispatches
<1>6. CASE Tick
  BY <1>6 DEF Tick
<1>7. ASSUME NEW s \in Swaps, SaveWakes(s) PROVE Typed'
  <2>1. PICK next \in SavedNext(s) :
          saving' = [Nothing EXCEPT !.swaps = {s}, !.next = next]
    BY <1>7 DEF SaveWakes
  <2>2. next \in Nexts
    BY <2>1 DEF SavedNext
  <2>3. saving' = [swaps |-> {s}, version |-> 0, next |-> next]
    BY <2>1
  <2>4. saving' \in [swaps : SUBSET Swaps, version : Versions, next : Nexts]
    BY <2>2, <2>3
  <2> QED
    BY <1>7, <2>3, <2>4 DEF SaveWakes
<1>8. CASE SaveCommits
  <2>1. PICK s \in saving.swaps :
          row' = [row EXCEPT ![s] = [version |-> NextVersion(s),
                                     next |-> saving.next, dirty |-> TRUE]]
    BY <1>8 DEF SaveCommits
  <2>2. s \in Swaps /\ saving.next \in Nexts /\ NextVersion(s) \in Versions
    BY <2>1, NextVersionIs
  <2>3. [version |-> NextVersion(s), next |-> saving.next, dirty |-> TRUE] \in Rows
    BY <2>2
  <2>4. row' \in [Swaps -> Rows]
    BY <2>1, <2>2, <2>3
  <2> QED
    BY <1>8, <2>4 DEF SaveCommits
<1>9. CASE WorkEnds
  BY <1>9 DEF WorkEnds, Dirty
<1>10. ASSUME NEW s \in Swaps, Project(s) PROVE Typed'
  BY <1>10 DEF Project, Projected
<1>11. CASE MarkClean
  <2>1. row' \in [Swaps -> Rows]
    BY <1>11 DEF MarkClean
  <2> QED
    BY <1>11, <2>1 DEF MarkClean
<1>12. ASSUME NEW s \in Swaps, ProjectFails(s) PROVE Typed'
  BY <1>12 DEF ProjectFails, Outstanding
<1>13. CASE FlushEnds
  BY <1>13 DEF FlushEnds
<1>14. CASE ArrivesLate
  BY <1>14 DEF ArrivesLate, Projected
<1>15. CASE Vanishes
  BY <1>15 DEF Vanishes
<1>16. CASE Schedule
  BY <1>16 DEF Schedule
<1>17. CASE Throw
  BY <1>17 DEF Throw
<1>18. CASE Crash
  <2>1. fired' \in BOOLEAN
    BY <1>18, Zenon DEF Crash
  <2> QED
    BY <1>18, <2>1 DEF Crash
<1>19. ASSUME NEW s \in Swaps, BecomesDue(s) PROVE Typed'
  BY <1>19 DEF BecomesDue
<1>20. ASSUME NEW work \in {{}} \cup {{s} : s \in Swaps}, Call(work) PROVE Typed'
  BY <1>20 DEF Call
<1>21. ASSUME NEW b \in BOOLEAN, SetScope(b) PROVE Typed'
  BY <1>21 DEF SetScope
<1>22. CASE UNCHANGED vars
  BY <1>22 DEF vars
<1> QED
  BY <1>1, <1>2, <1>3, <1>4, <1>5, <1>6, <1>7, <1>8, <1>9, <1>10, <1>11, <1>12,
     <1>13, <1>14, <1>15, <1>16, <1>17, <1>18, <1>19, <1>20, <1>21, <1>22
     DEF Next, Entry

\* The typing conditions hold in every state.
THEOREM TypedCorrect == Spec => []Typed
  BY InitTyped, NextTyped, PTL DEF Spec

-------------------------------------------------------------------------------
(* Work is scheduled                                                       *)

\* Nothing is stored at the start.
LEMMA InitSchedule == Init => ScheduleInv
  BY InitTyped
     DEF Init, NoRow, ScheduleInv, EntryArmed, WorkIsScheduled, Pending, Dirty

\* Every step keeps a wake-up for the work that is stored.
LEMMA NextSchedule == ScheduleInv /\ [Next]_vars => ScheduleInv'
<1> SUFFICES ASSUME ScheduleInv, [Next]_vars PROVE EntryArmed' /\ WorkIsScheduled'
  BY NextTyped DEF ScheduleInv
<1> USE DEF ScheduleInv, EntryArmed, WorkIsScheduled, durable, volatile
<1>0. Typed
  OBVIOUS
<1>1. CASE AlarmFires
  BY <1>1 DEF AlarmFires, Pending, Dirty
<1>2. CASE AlarmRearms
  BY <1>2 DEF AlarmRearms, Pending, Dirty
<1>3. CASE AlarmForeign
  BY <1>0, <1>3 DEF AlarmForeign, Rest, Served, Typed, Pending, Dirty
<1>4. CASE RunnerTick
  BY <1>4 DEF RunnerTick
<1>5. CASE RunnerDispatches
  BY <1>5 DEF RunnerDispatches
<1>6. CASE Tick
  BY <1>6 DEF Tick, Pending, Dirty
<1>7. ASSUME NEW s \in Swaps, SaveWakes(s)
      PROVE  EntryArmed' /\ WorkIsScheduled'
  BY <1>7 DEF SaveWakes
<1>8. CASE SaveCommits
  BY <1>8 DEF SaveCommits
<1>9. CASE WorkEnds
  BY <1>9 DEF WorkEnds, Pending, Dirty
<1>10. ASSUME NEW s \in Swaps, Project(s)
       PROVE  EntryArmed' /\ WorkIsScheduled'
  BY <1>10 DEF Project, Pending, Dirty
<1>11. CASE MarkClean
  <2>1. \A s \in Swaps : /\ row'[s].next = row[s].next
                         /\ row'[s].dirty => row[s].dirty
    BY <1>0, <1>11 DEF MarkClean, Typed, Rows
  <2>2. Pending' \subseteq Pending
    BY <2>1 DEF Pending, Dirty
  <2> QED
    BY <1>11, <2>2 DEF MarkClean
<1>12. ASSUME NEW s \in Swaps, ProjectFails(s)
       PROVE  EntryArmed' /\ WorkIsScheduled'
  BY <1>12 DEF ProjectFails, Pending, Dirty
<1>13. CASE FlushEnds
  BY <1>13 DEF FlushEnds, Pending, Dirty
<1>14. CASE ArrivesLate
  BY <1>14 DEF ArrivesLate, Pending, Dirty
<1>15. CASE Vanishes
  BY <1>15 DEF Vanishes, Pending, Dirty
<1>16. CASE Schedule
  BY <1>16 DEF Schedule, Rest, Pending, Dirty
<1>17. CASE Throw
  BY <1>0, <1>17 DEF Throw, Rest, Served, Typed, Pending, Dirty
<1>18. CASE Crash
  <2>1. Pending' = Pending /\ alarm' = alarm /\ host' = host
        /\ entry' = "none" /\ at' = "idle"
    BY <1>18 DEF Crash, Rest, Pending, Dirty
  <2>2. host = "worker" /\ ~alarm => entry = "call"
    BY <1>0, <1>18 DEF Crash, Typed
  <2>3. host = "worker" /\ entry = "call" => fired' = fired
    BY <1>18 DEF Crash
  <2> QED
    BY <2>1, <2>2, <2>3
<1>19. ASSUME NEW s \in Swaps, BecomesDue(s)
       PROVE  EntryArmed' /\ WorkIsScheduled'
  <2>1. s \in Pending
    BY <1>19 DEF BecomesDue, Pending
  <2> QED
    BY <1>19, <2>1 DEF BecomesDue
<1>20. ASSUME NEW work \in {{}} \cup {{s} : s \in Swaps}, Call(work)
       PROVE  EntryArmed' /\ WorkIsScheduled'
  BY <1>20 DEF Call, Pending, Dirty
<1>21. ASSUME NEW b \in BOOLEAN, SetScope(b)
       PROVE  EntryArmed' /\ WorkIsScheduled'
  BY <1>21 DEF SetScope, Pending, Dirty
<1>22. CASE UNCHANGED vars
  BY <1>22 DEF vars, Pending, Dirty
<1> QED
  BY <1>1, <1>2, <1>3, <1>4, <1>5, <1>6, <1>7, <1>8, <1>9, <1>10, <1>11, <1>12,
     <1>13, <1>14, <1>15, <1>16, <1>17, <1>18, <1>19, <1>20, <1>21, <1>22
     DEF Next, Entry

\* Wherever an exception or a restart ends an entry, a Durable Object that has
\* stored work is woken again.
THEOREM WorkIsScheduledCorrect == Spec => []WorkIsScheduled
<1>1. ScheduleInv => WorkIsScheduled
  BY DEF ScheduleInv
<1> QED
  BY <1>1, InitSchedule, NextSchedule, PTL DEF Spec

-------------------------------------------------------------------------------
(* The catalogue                                                           *)

\* Version 0 is shown and stored at the start.
LEMMA InitCatalogue == Init => CatalogueInv
  BY InitTyped
     DEF Init, NoRow, CatalogueInv, MarkedIsShown, CleanIsProjected

\* The versions the catalogue may be given are versions that were stored.
LEMMA ProjectedBetween ==
  ASSUME Typed, NEW s \in Swaps, NEW v \in Versions
  PROVE  \A r \in Swaps : /\ Projected(s, v)[r] >= summary[r]
                          /\ Projected(s, v)[r] \in {summary[r], v}
                          /\ r # s => Projected(s, v)[r] = summary[r]
                          /\ r = s => Projected(s, v)[r] >= v
  BY BoundsAssumption DEF Typed, Versions, Projected

\* Every step keeps the catalogue at or below the store, and level with clean rows.
LEMMA NextCatalogue == CatalogueInv /\ [Next]_vars => CatalogueInv'
<1> SUFFICES ASSUME CatalogueInv, [Next]_vars
             PROVE  MarkedIsShown' /\ CleanIsProjected'
  BY NextTyped DEF CatalogueInv
<1> USE DEF CatalogueInv, MarkedIsShown, CleanIsProjected, durable, volatile
<1>0. Typed
  OBVIOUS
<1>v. \A s \in Swaps : /\ row[s] \in Rows
                       /\ row[s].version \in Nat /\ row[s].version \in Versions
                       /\ summary[s] \in Nat
  BY <1>0, BoundsAssumption DEF Typed, Rows, Versions
<1>1. ASSUME UNCHANGED <<row, summary, wire>>, at' # "mark"
      PROVE  MarkedIsShown' /\ CleanIsProjected'
  BY <1>1
<1>2. CASE \/ AlarmFires \/ AlarmRearms \/ AlarmForeign \/ RunnerTick
           \/ RunnerDispatches \/ Tick \/ WorkEnds \/ FlushEnds \/ Schedule
           \/ Throw \/ Crash \/ (\E b \in BOOLEAN : SetScope(b))
           \/ (\E work \in {{}} \cup {{s} : s \in Swaps} : Call(work))
           \/ UNCHANGED vars
  <2>1. UNCHANGED <<row, summary, wire>>
    BY <1>2 DEF AlarmFires, AlarmRearms, AlarmForeign, RunnerTick,
                RunnerDispatches, Tick, WorkEnds, FlushEnds, Schedule, Throw,
                Crash, SetScope, Call, vars
  <2>2. at' # "mark" \/ UNCHANGED <<at, saving>>
    BY <1>2 DEF AlarmFires, AlarmRearms, AlarmForeign, RunnerTick,
                RunnerDispatches, Tick, WorkEnds, FlushEnds, Schedule, Throw,
                Crash, SetScope, Call, Rest, vars
  <2> QED
    BY <2>1, <2>2
<1>3. ASSUME NEW s \in Swaps, SaveWakes(s)
      PROVE  MarkedIsShown' /\ CleanIsProjected'
  BY <1>1, <1>3 DEF SaveWakes
<1>4. CASE SaveCommits
  <2>1. \A s \in Swaps :
          \/ row'[s] = row[s]
          \/ row'[s].version >= row[s].version /\ row'[s].dirty
             /\ row'[s].version \in Nat
    BY <1>0, <1>4, NextVersionIs DEF SaveCommits, Typed, Versions
  <2>2. UNCHANGED <<summary, wire>> /\ at' # "mark"
    BY <1>4 DEF SaveCommits
  <2>3. \A w \in wire : w[1] \in Swaps /\ w[2] \in Nat
    BY <1>0, BoundsAssumption DEF Typed, Versions
  <2> QED
    BY <1>v, <2>1, <2>2, <2>3
<1>5. ASSUME NEW s \in Swaps, Project(s)
      PROVE  MarkedIsShown' /\ CleanIsProjected'
  <2>1. \A r \in Swaps : /\ r # s => summary'[r] = summary[r]
                         /\ r = s => summary'[r] = row[s].version
    BY <1>0, <1>v, <1>5, ProjectedBetween DEF Project
  <2>2. UNCHANGED <<row, wire>> /\ saving'.swaps = {s}
    BY <1>5 DEF Project, Nothing
  <2> QED
    BY <1>v, <2>1, <2>2
<1>6. CASE MarkClean
  <2>1. \A s \in Swaps : /\ row'[s].version = row[s].version
                         /\ ~row'[s].dirty => ~row[s].dirty \/ s \in saving.swaps
    BY <1>v, <1>6 DEF MarkClean, Rows
  <2>2. UNCHANGED <<summary, wire>> /\ at = "mark" /\ at' # "mark"
    BY <1>6 DEF MarkClean
  <2> QED
    BY <1>v, <2>1, <2>2
<1>7. ASSUME NEW s \in Swaps, ProjectFails(s)
      PROVE  MarkedIsShown' /\ CleanIsProjected'
  <2>1. wire' \subseteq wire \cup {<<s, row[s].version>>}
    BY <1>7 DEF ProjectFails, Outstanding
  <2>2. UNCHANGED <<row, summary>> /\ at' # "mark"
    BY <1>7 DEF ProjectFails
  <2> QED
    BY <1>v, <2>1, <2>2
<1>8. CASE ArrivesLate
  <2>1. PICK w \in wire : /\ summary' = Projected(w[1], w[2])
                          /\ wire' = wire \ {w}
                          /\ UNCHANGED <<row, at, saving>>
    BY <1>8 DEF ArrivesLate
  <2>2. w[1] \in Swaps /\ w[2] \in Versions /\ w[2] \in Nat
    BY <1>0, BoundsAssumption DEF Typed, Versions
  <2>3. w[2] <= row[w[1]].version
    BY <2>2
  <2>4. \A r \in Swaps : /\ summary'[r] >= summary[r]
                         /\ r # w[1] => summary'[r] = summary[r]
                         /\ r = w[1] => summary'[r] \in {summary[r], w[2]}
    BY <1>0, <2>1, <2>2, ProjectedBetween
  <2>5. \A r \in Swaps : summary'[r] <= row[r].version
    BY <1>v, <2>3, <2>4
  <2>6. \A r \in Swaps : summary[r] = row[r].version => summary'[r] = row[r].version
    BY <1>v, <2>2, <2>4, <2>5
  <2>7. saving.swaps \subseteq Swaps
    BY <1>0 DEF Typed
  <2> QED
    BY <2>1, <2>5, <2>6, <2>7
<1>9. CASE Vanishes
  BY <1>9 DEF Vanishes
<1>10. ASSUME NEW s \in Swaps, BecomesDue(s)
       PROVE  MarkedIsShown' /\ CleanIsProjected'
  <2>1. \A r \in Swaps : /\ row'[r].version = row[r].version
                         /\ row'[r].dirty = row[r].dirty
    BY <1>0, <1>v, <1>10 DEF BecomesDue, Typed, Rows
  <2>2. saving.swaps \subseteq Swaps
    BY <1>0 DEF Typed
  <2> QED
    BY <1>10, <2>1, <2>2 DEF BecomesDue
<1> QED
  BY <1>2, <1>3, <1>4, <1>5, <1>6, <1>7, <1>8, <1>9, <1>10 DEF Next, Entry

\* A row is marked clean only when the catalogue shows its version.
THEOREM CleanIsProjectedCorrect == Spec => []CleanIsProjected
<1>1. CatalogueInv => CleanIsProjected
  BY DEF CatalogueInv
<1> QED
  BY <1>1, InitCatalogue, NextCatalogue, PTL DEF Spec

\* No step lowers the version the catalogue shows.
LEMMA StepKeepsSummary ==
  Typed /\ [Next]_vars => [\A s \in Swaps : summary'[s] >= summary[s]]_vars
<1> SUFFICES ASSUME Typed, Next PROVE \A s \in Swaps : summary'[s] >= summary[s]
  OBVIOUS
<1>v. \A s \in Swaps : row[s].version \in Versions /\ summary[s] \in Nat
  BY BoundsAssumption DEF Typed, Rows, Versions
<1>1. ASSUME NEW s \in Swaps, Project(s)
      PROVE  \A r \in Swaps : summary'[r] >= summary[r]
  BY <1>v, <1>1, ProjectedBetween DEF Project
<1>2. CASE ArrivesLate
  <2>1. PICK w \in wire : summary' = Projected(w[1], w[2])
    BY <1>2 DEF ArrivesLate
  <2>2. w[1] \in Swaps /\ w[2] \in Versions
    BY DEF Typed
  <2> QED
    BY <2>1, <2>2, ProjectedBetween
<1>3. CASE ~ArrivesLate /\ ~(\E s \in Swaps : Project(s))
  <2>1. summary' = summary
    BY <1>3 DEF Next, Entry, durable, volatile, AlarmFires, AlarmRearms,
                AlarmForeign, RunnerTick, RunnerDispatches, Tick, SaveWakes,
                SaveCommits, WorkEnds, ProjectFails, MarkClean, FlushEnds,
                Vanishes, Schedule, Throw, Crash, SetScope, Call, BecomesDue
  <2> QED
    BY <1>v, <2>1
<1> QED
  BY <1>1, <1>2, <1>3

\* A projection that arrives late never undoes a newer one.
THEOREM SummaryNeverGoesBackCorrect == Spec => SummaryNeverGoesBack
<1>1. Spec => [][\A s \in Swaps : summary'[s] >= summary[s]]_vars
  BY TypedCorrect, StepKeepsSummary, PTL DEF Spec
<1> QED
  BY <1>1 DEF SummaryNeverGoesBack

-------------------------------------------------------------------------------
(* The line of due records                                                 *)

\* What is in the line is due, and it stands there once.
LineInv == /\ line \in Seq(Swaps) /\ IsInjective(line)
           /\ \A s \in Swaps : row[s].next = "due" <=> s \in Range(line)

\* Removing the k-th element closes the gap.
LEMMA RemoveAtIs ==
  ASSUME NEW S, NEW q \in Seq(S), NEW k \in 1 .. Len(q)
  PROVE  /\ RemoveAt(q, k) \in Seq(S)
         /\ Len(RemoveAt(q, k)) = Len(q) - 1
         /\ \A i \in 1 .. Len(q) - 1 :
              RemoveAt(q, k)[i] = IF i < k THEN q[i] ELSE q[i + 1]
<1> DEFINE front == SubSeq(q, 1, k - 1)
           back  == SubSeq(q, k + 1, Len(q))
<1>1. Len(q) \in Nat /\ \A i \in 1 .. Len(q) : q[i] \in S
  BY LenProperties, ElementOfSeq
<1>2. /\ front \in Seq(S) /\ Len(front) = k - 1
      /\ \A i \in 1 .. k - 1 : front[i] = q[i]
  <2>1. \A i \in 1 .. k - 1 : q[i] \in S
    BY <1>1
  <2>2. 1 \in Int /\ k - 1 \in Int
    OBVIOUS
  <2>3. /\ front \in Seq(S) /\ Len(front) = IF 1 <= k - 1 THEN k - 1 - 1 + 1 ELSE 0
        /\ \A i \in 1 .. k - 1 - 1 + 1 : front[i] = q[1 + i - 1]
    BY <2>1, <2>2, SubSeqProperties
  <2> QED
    BY <2>3
<1>3. /\ back \in Seq(S) /\ Len(back) = Len(q) - k
      /\ \A i \in 1 .. Len(q) - k : back[i] = q[k + i]
  <2>1. \A i \in k + 1 .. Len(q) : q[i] \in S
    BY <1>1
  <2>2. k + 1 \in Int /\ Len(q) \in Int
    BY <1>1
  <2>3. /\ back \in Seq(S)
        /\ Len(back) = IF k + 1 <= Len(q) THEN Len(q) - (k + 1) + 1 ELSE 0
        /\ \A i \in 1 .. Len(q) - (k + 1) + 1 : back[i] = q[k + 1 + i - 1]
    BY <2>1, <2>2, SubSeqProperties
  <2> QED
    BY <1>1, <2>3
<1>4. RemoveAt(q, k) = front \o back
  BY DEF RemoveAt
<1> HIDE DEF front, back
<1>5. /\ front \o back \in Seq(S)
      /\ Len(front \o back) = Len(front) + Len(back)
      /\ \A i \in 1 .. Len(front) + Len(back) :
           (front \o back)[i] = IF i <= Len(front) THEN front[i] ELSE back[i - Len(front)]
  BY <1>2, <1>3, ConcatProperties
<1>6. ASSUME NEW i \in 1 .. Len(q) - 1
      PROVE  (front \o back)[i] = IF i < k THEN q[i] ELSE q[i + 1]
  <2>1. i \in 1 .. Len(front) + Len(back)
    BY <1>1, <1>2, <1>3
  <2>2. CASE i < k
    BY <1>1, <1>2, <1>5, <2>1, <2>2
  <2>3. CASE ~(i < k)
    <3>1. i - Len(front) \in 1 .. Len(q) - k /\ k + (i - Len(front)) = i + 1
      BY <1>1, <1>2, <2>3
    <3> QED
      BY <1>1, <1>2, <1>3, <1>5, <2>1, <2>3, <3>1
  <2> QED
    BY <2>2, <2>3
<1> QED
  BY <1>1, <1>2, <1>3, <1>4, <1>5, <1>6

\* What saving s leaves of the line: the others, none further back than before.
LEMMA WithoutIs ==
  ASSUME line \in Seq(Swaps), IsInjective(line), NEW s \in Swaps
  PROVE  /\ Without(s) \in Seq(Swaps) /\ IsInjective(Without(s))
         /\ \A r \in Swaps : r \in Range(Without(s)) <=> r \in Range(line) /\ r # s
         /\ \A i \in DOMAIN line : line[i] # s =>
              \E j \in DOMAIN Without(s) : j <= i /\ Without(s)[j] = line[i]
<1>1. /\ Len(line) \in Nat /\ DOMAIN line = 1 .. Len(line)
      /\ \A i \in 1 .. Len(line) : line[i] \in Swaps
  BY LenProperties, ElementOfSeq
<1>2. CASE s \notin Range(line)
  <2>1. Without(s) = line
    BY <1>2 DEF Without
  <2>2. \A i \in DOMAIN line : i <= i
    BY <1>1
  <2> QED
    BY <1>2, <2>1, <2>2
<1>3. CASE s \in Range(line)
  <2> DEFINE k == CHOOSE i \in DOMAIN line : line[i] = s
             w == Without(s)
  <2>1. k \in 1 .. Len(line) /\ line[k] = s
    BY <1>1, <1>3 DEF Range
  <2>2. w = RemoveAt(line, k)
    BY <1>3 DEF Without
  <2> HIDE DEF k, w
  <2>3. /\ w \in Seq(Swaps) /\ Len(w) = Len(line) - 1
        /\ \A i \in 1 .. Len(line) - 1 : w[i] = IF i < k THEN line[i] ELSE line[i + 1]
    BY <2>1, <2>2, RemoveAtIs
  <2>4. DOMAIN w = 1 .. Len(line) - 1
    BY <2>3, LenProperties
  <2>5. \A i, j \in DOMAIN line : line[i] = line[j] => i = j
    BY DEF IsInjective
  <2>6. ASSUME NEW i \in DOMAIN w, NEW j \in DOMAIN w, w[i] = w[j]
        PROVE  i = j
    <3>1. /\ i \in 1 .. Len(line) - 1 /\ j \in 1 .. Len(line) - 1
          /\ {i, i + 1, j, j + 1} \subseteq DOMAIN line
      BY <1>1, <2>4
    <3> QED
      BY <1>1, <2>1, <2>3, <2>5, <2>6, <3>1
  <2>7. ASSUME NEW i \in DOMAIN line, line[i] # s
        PROVE  \E j \in DOMAIN w : j <= i /\ w[j] = line[i]
    <3>1. i \in 1 .. Len(line) /\ i # k
      BY <1>1, <2>1, <2>7
    <3>2. CASE i < k
      <4>1. i \in DOMAIN w /\ w[i] = line[i] /\ i <= i
        BY <1>1, <2>1, <2>3, <2>4, <3>1, <3>2
      <4> QED
        BY <4>1
    <3>3. CASE i > k
      <4>1. i - 1 \in 1 .. Len(line) - 1 /\ i - 1 <= i /\ ~(i - 1 < k) /\ (i - 1) + 1 = i
        BY <1>1, <2>1, <3>1, <3>3
      <4> QED
        BY <2>3, <2>4, <4>1
    <3> QED
      BY <1>1, <2>1, <3>1, <3>2, <3>3
  <2>8. ASSUME NEW r \in Range(w) PROVE r \in Range(line) /\ r # s
    <3>1. PICK i \in DOMAIN w : w[i] = r
      BY DEF Range
    <3>2. i \in 1 .. Len(line) - 1 /\ {i, i + 1} \subseteq DOMAIN line
      BY <1>1, <2>4
    <3>3. PICK j \in DOMAIN line : line[j] = r /\ j # k
      BY <1>1, <2>1, <2>3, <3>1, <3>2
    <3>4. r # s
      BY <1>1, <2>1, <2>5, <3>3
    <3> QED
      BY <3>3, <3>4 DEF Range
  <2>9. ASSUME NEW r \in Range(line), r # s PROVE r \in Range(w)
    <3>1. PICK i \in DOMAIN line : line[i] = r
      BY DEF Range
    <3> QED
      BY <2>7, <2>9, <3>1 DEF Range
  <2>10. IsInjective(w)
    BY <2>6 DEF IsInjective
  <2> QED
    BY <2>3, <2>7, <2>8, <2>9, <2>10 DEF w
<1> QED
  BY <1>2, <1>3

\* A record that becomes due goes to the end.
LEMMA AppendIs ==
  ASSUME NEW q \in Seq(Swaps), IsInjective(q), NEW s \in Swaps, s \notin Range(q)
  PROVE  /\ Append(q, s) \in Seq(Swaps) /\ IsInjective(Append(q, s))
         /\ \A r \in Swaps : r \in Range(Append(q, s)) <=> r \in Range(q) \/ r = s
         /\ \A i \in DOMAIN q : i \in DOMAIN Append(q, s) /\ Append(q, s)[i] = q[i]
<1> DEFINE a == Append(q, s)
<1>1. /\ Len(q) \in Nat /\ DOMAIN q = 1 .. Len(q)
      /\ a \in Seq(Swaps) /\ Len(a) = Len(q) + 1
      /\ \A i \in 1 .. Len(q) : a[i] = q[i]
      /\ a[Len(q) + 1] = s
  BY LenProperties, AppendProperties
<1>2. DOMAIN a = 1 .. Len(q) + 1
  BY <1>1, LenProperties
<1> HIDE DEF a
<1>3. \A i \in DOMAIN a : i \in DOMAIN q \/ i = Len(q) + 1
  BY <1>1, <1>2
<1>4. DOMAIN q \subseteq DOMAIN a /\ Len(q) + 1 \in DOMAIN a
  BY <1>1, <1>2
<1>5. \A i \in DOMAIN q : q[i] # s
  BY DEF Range
<1>6. ASSUME NEW i \in DOMAIN a, NEW j \in DOMAIN a, a[i] = a[j]
      PROVE  i = j
  BY <1>1, <1>3, <1>5, <1>6 DEF IsInjective
<1>7. \A r \in Swaps : r \in Range(a) <=> r \in Range(q) \/ r = s
  BY <1>1, <1>3, <1>4 DEF Range
<1>8. IsInjective(a)
  BY <1>6 DEF IsInjective
<1> QED
  BY <1>1, <1>4, <1>7, <1>8 DEF a

\* What a save does to the line (SqlSwapStore.save).
LEMMA SaveLine ==
  ASSUME Typed, LineInv, SaveCommits
  PROVE  /\ LineInv'
         /\ \A i \in DOMAIN line : line[i] \notin saving.swaps =>
              \E j \in DOMAIN line' : j <= i /\ line'[j] = line[i]
<1>1. PICK s \in saving.swaps :
        /\ row' = [row EXCEPT ![s] = [version |-> NextVersion(s),
                                      next |-> saving.next, dirty |-> TRUE]]
        /\ line' = IF saving.next = "due" THEN Append(Without(s), s) ELSE Without(s)
  BY DEF SaveCommits
<1>2. /\ s \in Swaps
      /\ row'[s].next = saving.next
      /\ \A r \in Swaps \ {s} : row'[r] = row[r]
  BY <1>1 DEF Typed
<1>3. /\ Without(s) \in Seq(Swaps) /\ IsInjective(Without(s))
      /\ \A r \in Swaps : r \in Range(Without(s)) <=> r \in Range(line) /\ r # s
      /\ \A i \in DOMAIN line : line[i] # s =>
           \E j \in DOMAIN Without(s) : j <= i /\ Without(s)[j] = line[i]
  BY <1>2, WithoutIs DEF LineInv
<1>4. CASE saving.next = "due"
  <2>1. line' = Append(Without(s), s)
    BY <1>1, <1>4
  <2>2. /\ line' \in Seq(Swaps) /\ IsInjective(line')
        /\ \A r \in Swaps : r \in Range(line') <=> r \in Range(Without(s)) \/ r = s
        /\ \A i \in DOMAIN Without(s) :
             i \in DOMAIN line' /\ line'[i] = Without(s)[i]
    BY <1>2, <1>3, <2>1, AppendIs
  <2>3. LineInv'
    BY <1>2, <1>3, <1>4, <2>2 DEF LineInv
  <2>4. \A i \in DOMAIN line : line[i] # s =>
          \E j \in DOMAIN line' : j <= i /\ line'[j] = line[i]
    BY <1>3, <2>2
  <2> QED
    BY <1>2, <2>3, <2>4
<1>5. CASE saving.next # "due"
  <2>1. line' = Without(s)
    BY <1>1, <1>5
  <2>2. LineInv'
    BY <1>2, <1>3, <1>5, <2>1 DEF LineInv
  <2> QED
    BY <1>2, <1>3, <2>1, <2>2
<1> QED
  BY <1>4, <1>5

\* What time does to it.
LEMMA DueLine ==
  ASSUME Typed, LineInv, NEW s \in Swaps, BecomesDue(s)
  PROVE  /\ LineInv'
         /\ \A i \in DOMAIN line : i \in DOMAIN line' /\ line'[i] = line[i]
<1>1. /\ row[s].next = "later" /\ row'[s].next = "due"
      /\ \A r \in Swaps \ {s} : row'[r] = row[r]
      /\ line' = Append(line, s)
  BY DEF BecomesDue, Typed, Rows
<1>2. s \notin Range(line)
  BY <1>1 DEF LineInv
<1>3. /\ line' \in Seq(Swaps) /\ IsInjective(line')
      /\ \A r \in Swaps : r \in Range(line') <=> r \in Range(line) \/ r = s
      /\ \A i \in DOMAIN line : i \in DOMAIN line' /\ line'[i] = line[i]
  BY <1>1, <1>2, AppendIs DEF LineInv
<1> QED
  BY <1>1, <1>3 DEF LineInv

\* No other step touches the line, or what is due.
LEMMA OtherLine ==
  ASSUME Typed, [Next]_vars, ~SaveCommits, \A s \in Swaps : ~BecomesDue(s)
  PROVE  /\ line' = line
         /\ \A s \in Swaps : row'[s].next = row[s].next
<1>1. CASE MarkClean
  BY <1>1 DEF MarkClean, Typed, Rows
<1>2. CASE ~MarkClean
  <2>1. UNCHANGED <<row, line>>
    BY <1>2 DEF Next, Entry, vars, durable, volatile, AlarmFires, AlarmRearms,
       AlarmForeign, RunnerTick, RunnerDispatches, Tick, SaveWakes, WorkEnds, Project,
       ProjectFails, FlushEnds, ArrivesLate, Vanishes, Schedule, Throw, Crash,
       SetScope, Call
  <2> QED
    BY <2>1
<1> QED
  BY <1>1, <1>2

LEMMA InitLine == Init => LineInv
<1> SUFFICES ASSUME Init PROVE LineInv
  OBVIOUS
<1>1. line = <<>> /\ row = [s \in Swaps |-> NoRow]
  BY DEF Init
<1>2. <<>> \in Seq(Swaps) /\ DOMAIN <<>> = {}
  BY EmptySeq
<1>3. IsInjective(line) /\ Range(line) = {}
  BY <1>1, <1>2 DEF IsInjective, Range
<1> QED
  BY <1>1, <1>2, <1>3 DEF LineInv, NoRow

LEMMA NextLine == Typed /\ LineInv /\ [Next]_vars => LineInv'
<1> SUFFICES ASSUME Typed, LineInv, [Next]_vars PROVE LineInv'
  OBVIOUS
<1>1. CASE SaveCommits
  BY <1>1, SaveLine
<1>2. ASSUME NEW s \in Swaps, BecomesDue(s) PROVE LineInv'
  BY <1>2, DueLine
<1>3. CASE ~SaveCommits /\ \A s \in Swaps : ~BecomesDue(s)
  BY <1>3, OtherLine DEF LineInv
<1> QED
  BY <1>1, <1>2, <1>3

\* What is due stands in line, once, and nothing else does.
THEOREM LineIsDue == Spec => []LineInv
BY InitTyped, NextTyped, InitLine, NextLine, PTL DEF Spec

\* Until it is saved again, what is due is overtaken by nothing, however often
\* others are saved and come due: its place in line, from which a tick takes the
\* first, only moves up.
THEOREM NeverOvertakenCorrect == Spec => NeverOvertaken
<1> DEFINE Kept == \A i \in DOMAIN line :
                     line[i] \notin saving.swaps =>
                       \E j \in DOMAIN line' : j <= i /\ line'[j] = line[i]
<1>1. ASSUME Typed, LineInv, [Next]_vars PROVE Kept
  <2>1. /\ Len(line) \in Nat /\ DOMAIN line = 1 .. Len(line)
        /\ \A i \in DOMAIN line : line[i] \in Swaps /\ i <= i
    BY <1>1, LenProperties, ElementOfSeq DEF LineInv
  <2>2. CASE SaveCommits
    BY <1>1, <2>1, <2>2, SaveLine
  <2>3. ASSUME NEW s \in Swaps, BecomesDue(s) PROVE Kept
    BY <1>1, <2>1, <2>3, DueLine
  <2>4. CASE ~SaveCommits /\ \A s \in Swaps : ~BecomesDue(s)
    BY <1>1, <2>1, <2>4, OtherLine
  <2> QED
    BY <2>2, <2>3, <2>4
<1>2. Spec => [][Kept]_vars
  BY <1>1, TypedCorrect, LineIsDue, PTL DEF Spec
<1> QED
  BY <1>2 DEF NeverOvertaken

\* The remaining types: the host never changes, and an entry works on swaps.
RestTyped == /\ host \in Hosts /\ known \in BOOLEAN /\ todo \in SUBSET Swaps
             /\ at \in {"idle", "armed", "work", "commit", "flush", "mark", "schedule"}

LEMMA NextRestTyped == Typed /\ LineInv /\ RestTyped /\ [Next]_vars => RestTyped'
<1> SUFFICES ASSUME Typed, LineInv, RestTyped, [Next]_vars PROVE RestTyped'
  OBVIOUS
<1> USE DEF RestTyped, durable, volatile, Rest
<1>1. CASE Tick
  <2>1. DOMAIN line = 1 .. Len(line) /\ \A i \in 1 .. Len(line) : line[i] \in Swaps
    BY LenProperties, ElementOfSeq DEF LineInv
  <2>2. todo' \subseteq Swaps
    BY <1>1, <2>1 DEF Tick
  <2> QED
    BY <1>1, <2>2 DEF Tick
<1>2. CASE \/ AlarmFires \/ AlarmRearms \/ AlarmForeign \/ RunnerTick
           \/ RunnerDispatches \/ SaveCommits \/ WorkEnds \/ MarkClean
  BY <1>2 DEF AlarmFires, AlarmRearms, AlarmForeign, RunnerTick, RunnerDispatches,
     SaveCommits, WorkEnds, MarkClean, Dirty
<1>3. CASE \/ FlushEnds \/ Schedule \/ Throw \/ Crash \/ ArrivesLate \/ Vanishes
           \/ UNCHANGED vars
  BY <1>3 DEF FlushEnds, Schedule, Throw, Crash, ArrivesLate, Vanishes, vars
<1>4. ASSUME NEW s \in Swaps, SaveWakes(s) \/ Project(s) \/ ProjectFails(s) \/ BecomesDue(s)
      PROVE  RestTyped'
  BY <1>4 DEF SaveWakes, Project, ProjectFails, BecomesDue
<1>5. ASSUME NEW work \in {{}} \cup {{s} : s \in Swaps}, Call(work) PROVE RestTyped'
  BY <1>5 DEF Call
<1>6. ASSUME NEW b \in BOOLEAN, SetScope(b) PROVE RestTyped'
  BY <1>6 DEF SetScope
<1> QED
  BY <1>1, <1>2, <1>3, <1>4, <1>5, <1>6 DEF Next, Entry

\* The variables of the store and its hosts keep their types.
THEOREM TypeCorrect == Spec => []TypeOK
<1>1. Init => RestTyped
  BY DEF Init, RestTyped
<1>2. Typed /\ LineInv /\ RestTyped => TypeOK
  BY DEF Typed, LineInv, RestTyped, TypeOK
<1>3. Spec => []RestTyped
  BY <1>1, TypedCorrect, LineIsDue, NextRestTyped, PTL DEF Spec
<1> QED
  BY <1>2, <1>3, TypedCorrect, LineIsDue, PTL
===============================================================================
