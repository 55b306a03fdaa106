-------------------------- MODULE AlertQueueProofs --------------------------
(***************************************************************************)
(* What holds of AlertQueue for any number of incidents, any order of the  *)
(* answers, and any pattern of SQL failures, stops, deaths and silence.    *)
(***************************************************************************)
EXTENDS AlertQueue, FiniteSetTheorems, TLAPS

\* The jobs a poll can leave.
LEMMA JobTypes ==
  /\ NoJob.event \notin Events /\ NoJob.kind \notin Kinds
  /\ \A e \in Events, k \in Kinds :
       /\ [kind |-> k, event |-> e] \in Jobs
       /\ [kind |-> k, event |-> e] # NoJob
  /\ \A j \in Jobs : j # NoJob => j.event \in Events /\ j.kind \in Kinds
BY EventsAssumption DEF NoJob, Jobs, Kinds

\* The history and the CAD's numbers stay in range.
LEMMA Counted ==
  ASSUME NEW S \in SUBSET Events
  PROVE  Cardinality(S) \in Nat
BY EventsAssumption, FS_Subset, FS_CardinalityType

\* TypeOK: Spec keeps every variable in its type.
THEOREM TypeCorrect == Spec => []TypeOK
<1>1. Init => TypeOK
  BY DEF Init, TypeOK, Statuses, Jobs
<1>2. ASSUME TypeOK, [Next]_vars PROVE TypeOK'
  <2> USE <1>2 DEF TypeOK, poll, out, cad
  <2>1. ASSUME NEW e \in Events, OpenIncident(e) PROVE TypeOK'
    <3>1. Cardinality({d \in Events : status[d] # "none"}) + 1 \in Nat
      BY Counted
    <3>2. QED
      BY <2>1, <3>1 DEF OpenIncident, Statuses
  <2>2. ASSUME NEW e \in Events, ChangeIncident(e) PROVE TypeOK'
    BY <2>2 DEF ChangeIncident
  <2>3. ASSUME NEW e \in Events, CloseIncident(e) PROVE TypeOK'
    BY <2>3 DEF CloseIncident, Statuses
  <2>4. ASSUME NEW e \in Events, ExpireIncident(e) PROVE TypeOK'
    BY <2>4 DEF ExpireIncident
  <2>5. ASSUME Scan PROVE TypeOK'
    <3>1. ASSUME NEW e \in Events, PollNew(e) PROVE TypeOK'
      <4>1. CASE NoAlert
        BY <2>5, <4>1 DEF Scan, NoAlert
      <4>2. CASE /\ row' = [row EXCEPT ![e] = info[e]] /\ current' = e
                 /\ shown' = info[e] /\ job' = [kind |-> "new", event |-> e]
        <5>1. job' \in Jobs
          BY <4>2, JobTypes DEF Kinds
        <5>2. QED
          BY <2>5, <4>2, <5>1 DEF Scan
      <4>3. QED
        BY <3>1, <4>1, <4>2 DEF PollNew
    <3>2. ASSUME NEW e \in Events, PollUpdate(e) PROVE TypeOK'
      BY <2>5, <3>2, JobTypes DEF Scan, PollUpdate, Outcomes, Kinds
    <3>3. ASSUME NEW e \in Events, PollCancel(e) PROVE TypeOK'
      BY <2>5, <3>3, JobTypes DEF Scan, PollCancel, Kinds
    <3>4. CASE PollNothing
      BY <2>5, <3>4 DEF Scan, PollNothing, NoAlert
    <3>5. QED
      BY <2>5, <3>1, <3>2, <3>3, <3>4 DEF Scan
  <2>6. CASE Alert
    <3>1. job.event \in Events /\ job.kind \in Kinds
      BY <2>6, JobTypes DEF Alert
    <3>2. QED
      BY <2>6, <3>1 DEF Alert, Jobs
  <2>7. CASE PollDies \/ Stop \/ Start
    BY <2>7 DEF PollDies, Stop, Start, End, Jobs
  <2>8. CASE UNCHANGED vars
    BY <2>8 DEF vars
  <2>9. QED
    BY <1>2, <2>1, <2>2, <2>3, <2>4, <2>5, <2>6, <2>7, <2>8 DEF Next, Cad, Poll
<1>3. QED
  BY <1>1, <1>2, PTL DEF Spec
-----------------------------------------------------------------------------
(***************************************************************************)
(* The inductive invariant.  The properties speak of what was alerted; why *)
(* they hold is in table ActiveIncident and in what the poller and the     *)
(* main loop hold between two steps.                                       *)
(***************************************************************************)

Alerting(e, kinds) == job.event = e /\ job.kind \in kinds

\* Nothing was done for an incident that is not in the table.
Untouched(e) ==
  row[e] = NoRow =>
    news[e] = 0 /\ announced[e] = "none" /\ current # e /\ job.event # e

\* It is counted as new once at most, and not while it is being alerted as
\* new; it was, or is about to be, when it is held or changes.
Counts(e) ==
  /\ news[e] <= 1
  /\ Alerting(e, {"new"}) => news[e] = 0
  /\ current = e => news[e] = 1 \/ Alerting(e, {"new"})
  /\ Alerting(e, {"update", "cancel"}) => news[e] = 1
  /\ announced[e] \in {"update", "cancel"} => news[e] = 1

\* A cancelled incident is let go of, and the CAD does not reopen it.
LetGo(e) ==
  announced[e] = "cancel" \/ Alerting(e, {"cancel"}) =>
    status[e] = "cancelled" /\ current # e

\* A cancelled incident that was announced as such is not alerted again.
Final(e) == announced[e] = "cancel" => job.event # e

EventInv(e) == Untouched(e) /\ Counts(e) /\ LetGo(e) /\ Final(e)

IInv == TypeOK /\ (\A e \in Events : EventInv(e)) /\ CurrentMatchesRow

\* The CAD's own steps touch nothing of the poller.
LEMMA CadStep ==
  ASSUME IInv, Cad, NEW e \in Events
  PROVE  EventInv(e)' /\ CurrentMatchesRow'
<1>1. UNCHANGED <<poll, out>> /\ (status[e] = "cancelled" => status'[e] = "cancelled")
  BY DEF IInv, TypeOK, Cad, OpenIncident, ChangeIncident, CloseIncident,
         ExpireIncident, Pending
<1>2. QED
  BY <1>1 DEF IInv, EventInv, Untouched, Counts, LetGo, Final, Alerting,
              CurrentMatchesRow, poll, out

LEMMA ScanStep ==
  ASSUME IInv, Scan, NEW e \in Events
  PROVE  EventInv(e)' /\ CurrentMatchesRow'
<1>1. job = NoJob /\ UNCHANGED <<cad, out>>
  BY DEF Scan
<1>2. \A d \in Events : job.event # d
  BY <1>1, JobTypes
<1> USE <1>1, <1>2, EventsAssumption
    DEF IInv, TypeOK, EventInv, Untouched, Counts, LetGo, Final, Alerting,
        CurrentMatchesRow, cad, out
<1>3. CASE NoAlert
  BY <1>3 DEF NoAlert
<1>4. ASSUME NEW d \in Events, PollNew(d)
      PROVE  EventInv(e)' /\ CurrentMatchesRow'
  <2>1. CASE row[d] = NoRow /\ job' = [kind |-> "new", event |-> d] /\ current' = d
             /\ row' = [row EXCEPT ![d] = info[d]] /\ shown' = info[d]
    <3>1. Alerting(d, {"new"})'
      BY <2>1
    <3>2. QED
      BY <2>1, <3>1
  <2>2. QED
    BY <1>3, <1>4, <2>1 DEF PollNew
<1>5. ASSUME NEW d \in Events, PollUpdate(d)
      PROVE  EventInv(e)' /\ CurrentMatchesRow'
  <2>1. d = current /\ Pending(d)
    BY <1>5 DEF PollUpdate, IsUpdate
  <2>2. news[d] = 1 /\ row[d] # NoRow /\ announced[d] # "cancel"
    BY <2>1 DEF Pending
  <2>3. /\ current' = d /\ shown' = info[d]
        /\ job' = [kind |-> "update", event |-> d]
    BY <1>5, <2>1 DEF PollUpdate
  <2>4. /\ row'[e] = NoRow => row[e] = NoRow
        /\ ~DbMayFail => row'[d] = info[d]
    <3>1. PICK ok \in Outcomes :
            row' = IF ok THEN [row EXCEPT ![d] = info[d]] ELSE row
      BY <1>5 DEF PollUpdate
    <3>2. info[d] # NoRow
      OBVIOUS
    <3>3. ~DbMayFail => ok
      BY ONLY ok \in Outcomes, Zenon DEF Outcomes
    <3>4. row'[e] \in {row[e], info[d]} /\ (ok => row'[d] = info[d])
      BY <3>1
    <3>5. QED
      BY <3>2, <3>3, <3>4
  <2>5. EventInv(e)'
    BY <2>1, <2>2, <2>3, <2>4 DEF Pending
  <2>6. CurrentMatchesRow'
    BY <2>3, <2>4
  <2>7. QED
    BY <2>5, <2>6
<1>6. ASSUME NEW d \in Events, PollCancel(d)
      PROVE  EventInv(e)' /\ CurrentMatchesRow'
  <2>1. d = current /\ status[d] = "cancelled"
    BY <1>6 DEF PollCancel, IsCancel
  <2>2. news[d] = 1 /\ row[d] # NoRow /\ announced[d] # "cancel"
    BY <2>1
  <2>3. QED
    BY <1>6, <2>1, <2>2 DEF PollCancel
<1>7. QED
  BY <1>3, <1>4, <1>5, <1>6 DEF Scan, PollNothing

LEMMA AlertStep ==
  ASSUME IInv, Alert, NEW e \in Events
  PROVE  EventInv(e)' /\ CurrentMatchesRow'
<1>1. job.event \in Events /\ job.kind \in Kinds /\ job' = NoJob
  BY JobTypes DEF Alert, IInv, TypeOK
<1>2. job'.event # e /\ UNCHANGED <<status, row, current, shown>>
  BY <1>1, JobTypes DEF Alert, cad
<1>3. CASE job.event # e
  <2>1. announced'[e] = announced[e] /\ news'[e] = news[e]
    BY <1>1, <1>3 DEF Alert, IInv, TypeOK
  <2>2. QED
    BY <1>2, <1>3, <2>1 DEF IInv, EventInv, Untouched, Counts, LetGo, Final, Alerting,
                     CurrentMatchesRow
<1>4. CASE job.event = e
  <2>1. announced'[e] \in {announced[e], job.kind}
    BY <1>1, <1>4 DEF Alert, IInv, TypeOK
  <2>2. news'[e] = IF job.kind = "new" THEN news[e] + 1 ELSE news[e]
    BY <1>1, <1>4 DEF Alert, IInv, TypeOK, EventInv, Counts
  <2>3. QED
    BY <1>1, <1>2, <1>4, <2>1, <2>2
    DEF IInv, TypeOK, EventInv, Untouched, Counts, LetGo, Final, Alerting,
        CurrentMatchesRow, Kinds
<1>5. QED
  BY <1>3, <1>4

\* A poller that ends holds nothing, and a new one starts with nothing.
LEMMA RestartStep ==
  ASSUME IInv, PollDies \/ Stop \/ Start, NEW e \in Events
  PROVE  EventInv(e)' /\ CurrentMatchesRow'
<1>1. CASE Start
  BY <1>1 DEF Start, IInv, EventInv, Untouched, Counts, LetGo, Final, Alerting,
              CurrentMatchesRow, cad, out
<1>2. CASE PollDies \/ Stop
  <2>1. job'.event # e
    BY <1>2, JobTypes DEF PollDies, Stop, End
  <2>2. QED
    BY <1>2, <2>1, EventsAssumption
    DEF PollDies, Stop, End, IInv, EventInv, Untouched, Counts, LetGo, Final,
        Alerting, CurrentMatchesRow, cad, out
<1>3. QED
  BY <1>1, <1>2

LEMMA Inductive == Spec => []IInv
<1>1. Init => IInv
  <2> SUFFICES ASSUME Init PROVE IInv
    OBVIOUS
  <2>1. TypeOK
    BY DEF Init, TypeOK, Statuses, Jobs
  <2>2. ASSUME NEW e \in Events PROVE EventInv(e)
    BY EventsAssumption, JobTypes
    DEF Init, EventInv, Untouched, Counts, LetGo, Final, Alerting
  <2>3. CurrentMatchesRow
    BY DEF Init, CurrentMatchesRow
  <2>4. QED
    BY <2>1, <2>2, <2>3 DEF IInv
<1>2. ASSUME TypeOK', IInv, [Next]_vars PROVE IInv'
  <2>1. ASSUME NEW e \in Events PROVE EventInv(e)'
    <3>1. CASE UNCHANGED vars
      BY <1>2, <3>1 DEF vars, IInv, EventInv, Untouched, Counts, LetGo, Final,
                        Alerting
    <3>2. QED
      BY <1>2, <3>1, CadStep, ScanStep, AlertStep, RestartStep DEF Next, Poll
  <2>2. CurrentMatchesRow'
    <3>1. CASE current' \notin Events
      BY <1>2, <3>1 DEF CurrentMatchesRow, TypeOK
    <3>2. CASE current' \in Events /\ Next
      BY <1>2, <3>2, CadStep, ScanStep, AlertStep, RestartStep DEF Next, Poll
    <3>3. CASE UNCHANGED vars
      BY <1>2, <3>3 DEF vars, IInv, CurrentMatchesRow
    <3>4. QED
      BY <1>2, <3>1, <3>2, <3>3
  <2>3. QED
    BY <1>2, <2>1, <2>2 DEF IInv
<1>3. QED
  BY <1>1, <1>2, TypeCorrect, PTL DEF Spec

\* NewOnce: whatever displaces, fails or restarts, an incident is alerted as
\* new once at most.
THEOREM IncidentsAreNewOnce == Spec => []NewOnce
<1>1. ASSUME IInv PROVE NewOnce
  <2> SUFFICES ASSUME NEW e \in Events
               PROVE  news[e] + (IF job = [kind |-> "new", event |-> e] THEN 1 ELSE 0) <= 1
    BY DEF NewOnce
  <2>1. Counts(e) /\ news[e] \in Nat
    BY <1>1 DEF IInv, TypeOK, EventInv
  <2>2. CASE job = [kind |-> "new", event |-> e]
    <3>1. Alerting(e, {"new"})
      BY <2>2 DEF Alerting
    <3>2. QED
      BY <2>1, <2>2, <3>1 DEF Counts
  <2>3. CASE job # [kind |-> "new", event |-> e]
    BY <2>1, <2>3 DEF Counts
  <2>4. QED
    BY <2>2, <2>3
<1>2. QED
  BY <1>1, Inductive, PTL

\* ChangeFollowsNew: updates and cancellations are alerted only of incidents
\* that are in ActiveIncident and were alerted as new.
THEOREM ChangesFollowNew == Spec => []ChangeFollowsNew
<1>1. ASSUME IInv PROVE ChangeFollowsNew
  <2> SUFFICES ASSUME NEW e \in Events
               PROVE  /\ job.event = e => row[e] # NoRow
                      /\ job.event = e /\ job.kind # "new" => news[e] = 1
                      /\ announced[e] \in {"update", "cancel"} => news[e] = 1
    BY DEF ChangeFollowsNew
  <2>1. Untouched(e) /\ Counts(e) /\ job \in Jobs
    BY <1>1 DEF IInv, TypeOK, EventInv
  <2>2. job.event = e => job.kind \in Kinds
    BY <2>1, JobTypes
  <2>3. QED
    BY <2>1, <2>2 DEF Untouched, Counts, Alerting, Kinds
<1>2. QED
  BY <1>1, Inductive, PTL

\* CancelIsLast: no alert of an incident follows its cancellation.
THEOREM CancellationsAreLast == Spec => []CancelIsLast
<1>1. IInv => CancelIsLast
  BY DEF IInv, EventInv, Final, CancelIsLast
<1>2. QED
  BY <1>1, Inductive, PTL

\* CurrentMatchesRow: with a working database, call_alert and ActiveIncident
\* agree on the incident that the poller holds.
THEOREM CurrentIsOnRecord == Spec => []CurrentMatchesRow
BY Inductive, PTL DEF IInv
=============================================================================
