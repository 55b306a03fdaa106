----------------------------- MODULE AlertQueue -----------------------------
(***************************************************************************)
(* The poller of pending incidents: one process (watchman-alerting.pl,     *)
(* AlertQueue block) asks the CAD web server for the incidents of the last *)
(* minutes, and Watchman::AlertQueue::poll compares them with the one      *)
(* incident it holds in call_alert and with table ActiveIncident.  A poll  *)
(* ends at the first incident it acts on; the main loop then alerts for    *)
(* it.  The CAD goes on opening, changing and closing incidents meanwhile. *)
(***************************************************************************)
EXTENDS Naturals, FiniteSets

CONSTANTS
  Events,       \* event numbers
  NoEvent,      \* an undefined event number
  Details,      \* what box area, call type and location of an incident can be
  Relevant,     \* those that AlertQueueRules or the first due areas select
  NoRow,        \* an event that is not in table ActiveIncident
  OldestFirst,  \* TRUE: the scan (reverse @inc) meets older incidents first
  MaxOpen,      \* bound: incidents pending at a time
  MayChange,    \* TRUE: the CAD may change a pending incident
  MayExpire,    \* TRUE: incidents leave the answer (PollingLookbackTime)
  MaySleep,     \* TRUE: the sleep cycle may be active, in silent mode
  DbMayFail,    \* TRUE: an SQL statement may raise an exception
  RulesMayFail, \* TRUE: the SELECT on AlertQueueRules may throw
  MayRestart    \* TRUE: the daemon may be stopped and started at any step

ASSUME EventsAssumption ==
  IsFiniteSet(Events) /\ NoEvent \notin Events /\ NoRow \notin Details
ASSUME RelevantAssumption == Relevant \subseteq Details
ASSUME OptionsAssumption ==
  {OldestFirst, MayChange, MayExpire, MaySleep, DbMayFail, RulesMayFail,
   MayRestart}
    \subseteq BOOLEAN

VARIABLES
  up,         \* the poller's process is running
  status,     \* status[e]: the incident in the CAD
  info,       \* info[e]: its details in the CAD
  opened,     \* opened[e]: its place in the order of the CAD's incidents
  listed,     \* the incidents in the CAD's answer
  row,        \* row[e]: its details in table ActiveIncident
  current,    \* call_alert->{EventNo}
  shown,      \* the details in call_alert
  job,        \* what the poll has left for the main loop to alert
  announced,  \* announced[e]: the last alert with lights and audio for e
  news        \* news[e]: alerts of e as a new incident, silent or not

cad   == <<status, info, opened, listed>>
poll  == <<up, row, current, shown, job>>
out   == <<announced, news>>
vars  == <<up, status, info, opened, listed, row, current, shown, job,
           announced, news>>

Statuses == {"none", "pending", "dispatched", "cancelled"}
Kinds    == {"new", "update", "cancel"}
NoJob    == [kind |-> "none", event |-> NoEvent]
Jobs     == [kind : Kinds, event : Events] \cup {NoJob}

Outcomes == IF DbMayFail THEN BOOLEAN ELSE {TRUE}

TypeOK ==
  /\ up \in BOOLEAN
  /\ status \in [Events -> Statuses]
  /\ info \in [Events -> Details]
  /\ opened \in [Events -> Nat]
  /\ listed \subseteq Events
  /\ row \in [Events -> Details \cup {NoRow}]
  /\ current \in Events \cup {NoEvent}
  /\ shown \in Details
  /\ job \in Jobs
  /\ announced \in [Events -> Kinds \cup {"none"}]
  /\ news \in [Events -> 0 .. 2]

Init ==
  /\ up = TRUE
  /\ status = [e \in Events |-> "none"]
  /\ info \in [Events -> Details]
  /\ opened = [e \in Events |-> 0]
  /\ listed = {}
  /\ row = [e \in Events |-> NoRow]
  /\ current = NoEvent
  /\ shown \in Details
  /\ job = NoJob
  /\ announced = [e \in Events |-> "none"]
  /\ news = [e \in Events |-> 0]
-----------------------------------------------------------------------------
(***************************************************************************)
(* The CAD, as far as its answers show it.                                 *)
(***************************************************************************)
Pending(e) == status[e] = "pending"

OpenIncident(e) ==
  /\ status[e] = "none"
  /\ Cardinality({d \in Events : Pending(d)}) < MaxOpen
  /\ status' = [status EXCEPT ![e] = "pending"]
  /\ opened' = [opened EXCEPT ![e] =
                  Cardinality({d \in Events : status[d] # "none"}) + 1]
  /\ listed' = listed \cup {e}
  /\ UNCHANGED <<info, poll, out>>

ChangeIncident(e) ==
  /\ MayChange /\ Pending(e)
  /\ \E d \in Details \ {info[e]} : info' = [info EXCEPT ![e] = d]
  /\ listed' = listed \cup {e}
  /\ UNCHANGED <<status, opened, poll, out>>

\* Dispatched (Status 1), or cancelled without a dispatch time (Status 0).
CloseIncident(e) ==
  /\ Pending(e)
  /\ \E s \in {"dispatched", "cancelled"} : status' = [status EXCEPT ![e] = s]
  /\ listed' = listed \cup {e}
  /\ UNCHANGED <<info, opened, poll, out>>

ExpireIncident(e) ==
  /\ MayExpire
  /\ listed' = listed \ {e}
  /\ UNCHANGED <<status, info, opened, poll, out>>

Cad ==
  \E e \in Events :
    OpenIncident(e) \/ ChangeIncident(e) \/ CloseIncident(e) \/ ExpireIncident(e)
-----------------------------------------------------------------------------
(***************************************************************************)
(* Watchman::AlertQueue::poll, on one answer of the CAD.  A failed request *)
(* or an answer that cannot be parsed changes nothing.                     *)
(***************************************************************************)

\* Mutant: the incident that is held has to be selected, too.
ConsideredByRules(e) == e \in listed /\ info[e] \in Relevant

\* The incidents a poll considers.
Considered(e) == e \in listed /\ (info[e] \in Relevant \/ e = current)

\* The order in which it meets them.
Before(d, e) ==
  IF OldestFirst THEN opened[d] < opened[e] ELSE opened[d] > opened[e]

IsCancel(e) == e = current /\ status[e] = "cancelled"
IsUpdate(e) == e = current /\ Pending(e) /\ info[e] # shown
IsNew(e)    == e # current /\ Pending(e)

\* The scan returns at the first incident that takes one of these branches.
Acts(e)  == Considered(e) /\ (IsCancel(e) \/ IsUpdate(e) \/ IsNew(e))
First(e) == Acts(e) /\ \A d \in Events \ {e} : Acts(d) => Before(e, d)

\* It forgets the current incident when it meets it as dispatched.
MeetsDispatched ==
  /\ current # NoEvent
  /\ Considered(current) /\ status[current] = "dispatched"
  /\ \A e \in Events : Acts(e) => Before(current, e)

NoAlert ==
  /\ current' = IF MeetsDispatched THEN NoEvent ELSE current
  /\ UNCHANGED <<row, shown, job>>

\* Mutant: a table without a unique key on EventNo.
PollNewNoKey(e) ==
  /\ First(e) /\ IsNew(e)
  /\ row' = [row EXCEPT ![e] = info[e]]
  /\ current' = e
  /\ shown' = info[e]
  /\ job' = [kind |-> "new", event |-> e]

\* Mutant: call_alert is filled in whether the INSERT succeeded or not.
PollNewUnchecked(e) ==
  /\ First(e) /\ IsNew(e)
  /\ current' = e
  /\ shown' = info[e]
  /\ \E ok \in Outcomes :
       IF ok /\ row[e] = NoRow
       THEN /\ row' = [row EXCEPT ![e] = info[e]]
            /\ job' = [kind |-> "new", event |-> e]
       ELSE UNCHANGED <<row, job>>

\* INSERT INTO ActiveIncident.  Any exception, a duplicate key included, ends
\* the scan without an alert.
PollNew(e) ==
  /\ First(e) /\ IsNew(e)
  /\ \E ok \in Outcomes :
       IF ok /\ row[e] = NoRow
       THEN /\ row' = [row EXCEPT ![e] = info[e]]
            /\ current' = e
            /\ shown' = info[e]
            /\ job' = [kind |-> "new", event |-> e]
       ELSE NoAlert

\* Mutant: the details in call_alert are not brought up to date.
PollUpdateStale(e) ==
  /\ First(e) /\ IsUpdate(e)
  /\ row' = [row EXCEPT ![e] = info[e]]
  /\ job' = [kind |-> "update", event |-> e]
  /\ UNCHANGED <<current, shown>>

PollUpdate(e) ==
  /\ First(e) /\ IsUpdate(e)
  /\ shown' = info[e]
  /\ \E ok \in Outcomes :
       row' = IF ok THEN [row EXCEPT ![e] = info[e]] ELSE row
  /\ job' = [kind |-> "update", event |-> e]
  /\ UNCHANGED current

\* Mutant: the alert is made up from call_alert after it was emptied.
PollCancelLate(e) ==
  /\ First(e) /\ IsCancel(e)
  /\ current' = NoEvent
  /\ job' = [kind |-> "cancel", event |-> current']
  /\ UNCHANGED <<row, shown>>

\* Mutant: call_alert keeps the cancelled incident.
PollCancelKeep(e) ==
  /\ First(e) /\ IsCancel(e)
  /\ job' = [kind |-> "cancel", event |-> e]
  /\ UNCHANGED <<row, current, shown>>

\* call_alert is emptied.
PollCancel(e) ==
  /\ First(e) /\ IsCancel(e)
  /\ current' = NoEvent
  /\ job' = [kind |-> "cancel", event |-> e]
  /\ UNCHANGED <<row, shown>>

PollNothing ==
  /\ \A e \in Events : ~Acts(e)
  /\ NoAlert

\* The process ends, and forgets what it held.
End ==
  /\ up' = FALSE
  /\ current' = NoEvent
  /\ job' = NoJob
  /\ UNCHANGED <<row, shown>>

\* The rules are selected for an answer that is not empty, outside any eval: the
\* call through $DBH, which nothing sets in this package, and a statement that
\* fails end the process.
PollDies ==
  /\ up /\ job = NoJob
  /\ RulesMayFail /\ listed # {}
  /\ End
  /\ UNCHANGED <<cad, out>>

\* The incidents of one answer, in turn.
Scan ==
  /\ up /\ job = NoJob
  /\ \/ \E e \in Events : PollNew(e) \/ PollUpdate(e) \/ PollCancel(e)
     \/ PollNothing
  /\ UNCHANGED <<cad, up, out>>

Poll == Scan \/ PollDies

\* The main loop: audio, signs and IO devices unless the sleep cycle is active;
\* then only the text message is sent.
Alert ==
  /\ job # NoJob
  /\ \E silent \in IF MaySleep THEN BOOLEAN ELSE {FALSE} :
       announced' = IF silent THEN announced
                    ELSE [announced EXCEPT ![job.event] = job.kind]
  /\ news' = IF job.kind = "new" /\ news[job.event] < 2
             THEN [news EXCEPT ![job.event] = @ + 1] ELSE news
  /\ job' = NoJob
  /\ UNCHANGED <<cad, up, row, current, shown>>

\* The daemon is stopped, at any step of the poller.
Stop ==
  /\ MayRestart /\ up
  /\ End
  /\ UNCHANGED <<cad, out>>

\* The daemon is started, which alone starts a poller that has ended.
Start ==
  /\ MayRestart /\ ~up
  /\ up' = TRUE
  /\ UNCHANGED <<cad, row, current, shown, job, out>>

Next == Cad \/ Poll \/ Alert \/ Stop \/ Start

Spec == Init /\ [][Next]_vars

\* A poller that does not die scans and alerts; the CAD need not do anything, and nobody
\* has to restart the daemon.
FairSpec == Spec /\ WF_vars(Scan) /\ WF_vars(Alert)
-----------------------------------------------------------------------------
\* An incident is alerted as new once at most, whatever displaces it from
\* call_alert, fails or restarts: ActiveIncident remembers it.
NewOnce ==
  \A e \in Events :
    news[e] + (IF job = [kind |-> "new", event |-> e] THEN 1 ELSE 0) <= 1

\* An update or a cancellation is alerted only for an incident that was
\* recorded, and alerted or about to be, as new.
ChangeFollowsNew ==
  \A e \in Events :
    /\ job.event = e => row[e] # NoRow
    /\ job.event = e /\ job.kind # "new" => news[e] = 1
    /\ announced[e] \in {"update", "cancel"} => news[e] = 1

\* A cancellation is the last alert of an incident: once announced, nothing is
\* left to be alerted for it, a second cancellation included.
CancelIsLast ==
  \A e \in Events : announced[e] = "cancel" => job.event # e

\* What the poller holds of the current incident is what the table says of it.
CurrentMatchesRow ==
  ~DbMayFail /\ current # NoEvent => row[current] = shown

\* The poller meets a pending incident on record before e: a displaced one, whose
\* INSERT fails and ends the scan at every poll, or the current one, changed.
Hidden(e) ==
  \E d \in Events :
    Acts(d) /\ Pending(d) /\ row[d] # NoRow /\ Before(d, e)

Selected(e) == Pending(e) /\ e \in listed /\ info[e] \in Relevant

\* The poller holds another incident, or ended and forgot what it held.
Displaced(e) == ~up \/ current \in Events \ {e}

\* An incident that is pending, selected and in the CAD's answer is announced,
\* unless the poller ends or other pending incidents go on hiding it.
EveryPendingAnnounced ==
  \A e \in Events :
    <>[]~Hidden(e) =>
      (Selected(e) /\ row[e] = NoRow ~> news[e] > 0 \/ ~Selected(e) \/ ~up)

\* The cancellation of the incident that the poller holds is announced, unless
\* it leaves the answer, is displaced, or goes on being hidden.
EveryCancelAnnounced ==
  \A e \in Events :
    <>[]~Hidden(e) =>
      (current = e /\ status[e] = "cancelled"
       ~> announced[e] = "cancel" \/ e \notin listed \/ Displaced(e))

\* While the incident that the poller holds is pending, the poller catches up
\* with its changes, with the same exceptions.
EveryUpdateShown ==
  \A e \in Events :
    <>[]~Hidden(e) =>
      (current = e /\ Pending(e)
       ~> \/ current = e /\ shown = info[e]
          \/ ~Pending(e) \/ e \notin listed \/ Displaced(e))
=============================================================================
