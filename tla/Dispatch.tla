------------------------------ MODULE Dispatch ------------------------------
(***************************************************************************)
(* The iCAD dispatch path: the network daemon forks one child per          *)
(* connection (watchman-alerting.pl, INET); the child reads a dispatch     *)
(* stream, stores and confirms it, compares the incident with the history  *)
(* in the tables Incident and IncidentUnit (Watchman::NewIncident), and    *)
(* starts the alerting (sub alert).  Children run concurrently and share   *)
(* only the database; every SQL statement is one step, in its own eval,    *)
(* and no transaction spans two of them.                                   *)
(***************************************************************************)

CONSTANTS
  Children,       \* the connections, each served by a forked child of its own
  Incidents,      \* incident numbers
  NoIncident,     \* the undefined number of a stream that did not parse
  AllUnits,       \* apparatus a CAD message can name
  StationUnits,   \* the rows of table Units with Inactive = 0
  Messages,       \* the streams senders can deliver
  DbMayFail,      \* TRUE: any SQL statement may raise an exception
  MayCrash,       \* TRUE: a child may die between two steps
  NetAudio        \* the setting NetAudioEnabled

Bodies == {"empty", "no output", "unparsed", "incident"}

\* reply: the stream is complete, parses, and has a MessageSequenceNumber;
\* body: what XSLT makes of it; closed: status 0, CLOSED or CANCELLED.
MessageType ==
  {m \in [reply : BOOLEAN, body : Bodies, inc : Incidents,
          units : SUBSET AllUnits, closed : BOOLEAN] :
     m.reply => m.body # "empty"}

ASSUME MessagesAssumption == Messages \subseteq MessageType
ASSUME UnitsAssumption == StationUnits \subseteq AllUnits
ASSUME NoIncidentAssumption == NoIncident \notin Incidents
ASSUME FaultsAssumption == DbMayFail \in BOOLEAN /\ MayCrash \in BOOLEAN
ASSUME NetAudioAssumption == NetAudio \in BOOLEAN

VARIABLES
  msg,           \* msg[c]: the stream waiting on connection c
  pc,            \* pc[c]: what the child of c does next
  before,        \* history: the children that had ended when c's was forked
  units,         \* units[c]: $self->{units}, the station units it has read
  prior,         \* prior[c]: $prior_incident_flag
  alert,         \* alert[c]: $self->{alert}
  todo,          \* todo[c]: units of the foreach loop not yet visited
  assigned,      \* assigned[c]: UnitAssign, what the announcement names
  trans,         \* connections with a row in iCADAlertTrans
  confirmed,     \* connections that were sent "TransID:LocalID"
  incident,      \* primary keys present in table Incident
  incidentUnit,  \* rows of table IncidentUnit
  alerted        \* alerted[c]: what sub alert started for c

db      == <<incident, incidentUnit>>
locals  == <<units, prior, alert, todo, assigned>>
intake  == <<trans, confirmed>>
vars    == <<msg, pc, before, units, prior, alert, todo, assigned, trans,
             confirmed, incident, incidentUnit, alerted>>

Steps == {"queued", "read", "store", "reply", "register", "parse", "history",
          "units", "add", "commit", "save", "alert", "exit", "dead"}

\* "announced": signs, IO devices and, with NetAudio, the audio, which name the
\* units or serve them; "devices": the IO devices of the units only.
Alerting == {"none", "devices", "announced"}

Active   == Steps \ {"queued", "exit", "dead"}

Inc(c)     == IF msg[c].body = "incident" THEN msg[c].inc ELSE NoIncident
Named(c)   == IF msg[c].body = "incident" THEN msg[c].units ELSE {}
Closed(c)  == msg[c].body = "incident" /\ msg[c].closed
\* Mutant: filterUnits lets every unit pass.
MyUnitsUnfiltered(c) == Named(c)

MyUnits(c) == Named(c) \cap units[c]

Recorded(i) == {u \in StationUnits : <<i, u>> \in incidentUnit}

Outcomes == IF DbMayFail THEN BOOLEAN ELSE {TRUE}

Goto(c, step) == pc' = [pc EXCEPT ![c] = step]

TypeOK ==
  /\ msg \in [Children -> Messages]
  /\ pc \in [Children -> Steps]
  /\ before \in [Children -> SUBSET Children]
  /\ units \in [Children -> SUBSET StationUnits]
  /\ prior \in [Children -> BOOLEAN]
  /\ alert \in [Children -> BOOLEAN]
  /\ todo \in [Children -> SUBSET StationUnits]
  /\ assigned \in [Children -> SUBSET AllUnits]
  /\ trans \subseteq Children
  /\ confirmed \subseteq Children
  /\ incident \subseteq Incidents
  /\ incidentUnit \subseteq Incidents \X StationUnits
  /\ alerted \in [Children -> Alerting]

Init ==
  /\ msg \in [Children -> Messages]
  /\ pc = [c \in Children |-> "queued"]
  /\ before = [c \in Children |-> {}]
  /\ units = [c \in Children |-> {}]
  /\ prior = [c \in Children |-> FALSE]
  /\ alert = [c \in Children |-> FALSE]
  /\ todo = [c \in Children |-> {}]
  /\ assigned = [c \in Children |-> {}]
  /\ trans = {}
  /\ confirmed = {}
  /\ incident = {}
  /\ incidentUnit = {}
  /\ alerted = [c \in Children |-> "none"]
-----------------------------------------------------------------------------
(***************************************************************************)
(* The network daemon and the intake half of its child.                    *)
(***************************************************************************)

\* The listener accepts connection c and forks its child.
Accept(c) ==
  /\ pc[c] = "queued"
  /\ before' = [before EXCEPT ![c] = {d \in Children : pc[d] = "exit"}]
  /\ Goto(c, "read")
  /\ UNCHANGED <<msg, locals, intake, db, alerted>>

\* Mutant: the reply is sent without storing the stream.
ReadNoStore(c) ==
  /\ pc[c] = "read"
  /\ Goto(c, IF msg[c].reply THEN "reply"
             ELSE IF msg[c].body = "empty" THEN "exit" ELSE "register")
  /\ UNCHANGED <<msg, before, locals, intake, db, alerted>>

\* The child reads up to the blank line.  A stream without one, or without a
\* sequence number, is not confirmed; it is processed all the same.
Read(c) ==
  /\ pc[c] = "read"
  /\ Goto(c, IF msg[c].reply THEN "store"
             ELSE IF msg[c].body = "empty" THEN "exit" ELSE "register")
  /\ UNCHANGED <<msg, before, locals, intake, db, alerted>>

\* INSERT INTO iCADAlertTrans; an exception is only logged.
StoreTransaction(c) ==
  /\ pc[c] = "store"
  /\ \E ok \in Outcomes : trans' = IF ok THEN trans \cup {c} ELSE trans
  /\ Goto(c, "reply")
  /\ UNCHANGED <<msg, before, locals, confirmed, db, alerted>>

\* print $client "TransID:LocalID", before any processing of the incident.
Reply(c) ==
  /\ pc[c] = "reply"
  /\ confirmed' = confirmed \cup {c}
  /\ Goto(c, "register")
  /\ UNCHANGED <<msg, before, locals, trans, db, alerted>>

\* Watchman->new reads table Units; after an exception it goes on without any
\* registered unit.
RegisterUnits(c) ==
  /\ pc[c] = "register"
  /\ \E ok \in Outcomes :
       units' = [units EXCEPT ![c] = IF ok THEN StationUnits ELSE {}]
  /\ Goto(c, "parse")
  /\ UNCHANGED <<msg, before, prior, alert, todo, assigned, intake, db, alerted>>

\* parseDispatch: without XSLT output there is no object and nothing but the
\* raw printout; output that is not XML leaves a dispatch without any field.
ParseDispatch(c) ==
  /\ pc[c] = "parse"
  /\ Goto(c, IF msg[c].body = "no output" THEN "exit" ELSE "history")
  /\ assigned' = [assigned EXCEPT ![c] = Named(c)]
  /\ UNCHANGED <<msg, before, units, prior, alert, todo, intake, db, alerted>>
-----------------------------------------------------------------------------
(***************************************************************************)
(* Watchman::NewIncident.  UnitReplace and UnitPreempt are always empty    *)
(* (parseDispatch), so the silent and pre-emption branches never run.      *)
(***************************************************************************)

\* Where the history comparison leads, given the alert flag it computed: a
\* closed incident returns at once, one that does not alert returns too.
AfterHistory(c, flag) ==
  IF Closed(c) \/ ~flag THEN "alert" ELSE "commit"

\* SELECT ... FROM Incident: no row, or an exception, means a new incident.
LookupIncident(c) ==
  /\ pc[c] = "history"
  /\ \E ok \in Outcomes :
       LET found == ok /\ Inc(c) \in incident IN
       /\ prior' = [prior EXCEPT ![c] = found]
       /\ alert' = [alert EXCEPT ![c] = ~found]
       /\ Goto(c, IF found THEN "units" ELSE AfterHistory(c, TRUE))
  /\ UNCHANGED <<msg, before, units, todo, assigned, intake, db, alerted>>

\* Mutant: an exception is taken for an answer that names every unit.
LookupUnitsGivesUp(c) ==
  /\ pc[c] = "units"
  /\ \E ok \in Outcomes :
       LET known == IF ok THEN MyUnits(c) \cap Recorded(Inc(c)) ELSE MyUnits(c)
           new   == MyUnits(c) \ known IN
       /\ assigned' = [assigned EXCEPT ![c] = @ \ known]
       /\ alert' = [alert EXCEPT ![c] = new # {}]
       /\ todo' = [todo EXCEPT ![c] = new]
       /\ Goto(c, IF new # {} THEN "add" ELSE AfterHistory(c, FALSE))
  /\ UNCHANGED <<msg, before, units, prior, intake, db, alerted>>

\* Mutant: a new unit of a known incident does not set the alert flag.
LookupUnitsSilent(c) ==
  /\ pc[c] = "units"
  /\ \E ok \in Outcomes :
       LET known == IF ok THEN MyUnits(c) \cap Recorded(Inc(c)) ELSE {}
           new   == MyUnits(c) \ known IN
       /\ assigned' = [assigned EXCEPT ![c] = @ \ known]
       /\ todo' = [todo EXCEPT ![c] = new]
       /\ Goto(c, IF new # {} THEN "add" ELSE AfterHistory(c, FALSE))
  /\ UNCHANGED <<msg, before, units, prior, alert, intake, db, alerted>>

\* Mutant: a unit on record stays in UnitAssign (no splice).
LookupUnitsNoSplice(c) ==
  /\ pc[c] = "units"
  /\ \E ok \in Outcomes :
       LET known == IF ok THEN MyUnits(c) \cap Recorded(Inc(c)) ELSE {}
           new   == MyUnits(c) \ known IN
       /\ alert' = [alert EXCEPT ![c] = new # {}]
       /\ todo' = [todo EXCEPT ![c] = new]
       /\ Goto(c, IF new # {} THEN "add" ELSE AfterHistory(c, FALSE))
  /\ UNCHANGED <<msg, before, units, prior, assigned, intake, db, alerted>>

\* SELECT ... FROM IncidentUnit, then the loop over this station's units: the
\* ones on record leave UnitAssign, each of the others sets the alert flag.
\* An exception leaves the history empty.
LookupUnits(c) ==
  /\ pc[c] = "units"
  /\ \E ok \in Outcomes :
       LET known == IF ok THEN MyUnits(c) \cap Recorded(Inc(c)) ELSE {}
           new   == MyUnits(c) \ known IN
       /\ assigned' = [assigned EXCEPT ![c] = @ \ known]
       /\ alert' = [alert EXCEPT ![c] = new # {}]
       /\ todo' = [todo EXCEPT ![c] = new]
       /\ Goto(c, IF new # {} THEN "add" ELSE AfterHistory(c, FALSE))
  /\ UNCHANGED <<msg, before, units, prior, intake, db, alerted>>

\* One INSERT INTO IncidentUnit of the loop; a failed one is only logged.
InsertUnit(c, u) ==
  /\ u \in todo[c]
  /\ todo' = [todo EXCEPT ![c] = @ \ {u}]
  /\ \E ok \in Outcomes :
       incidentUnit' = IF ok /\ Inc(c) \in Incidents
                       THEN incidentUnit \cup {<<Inc(c), u>>}
                       ELSE incidentUnit

\* A unit of a known incident that is not on record: record it.
AddUnit(c, u) ==
  /\ pc[c] = "add"
  /\ InsertUnit(c, u)
  /\ Goto(c, IF todo'[c] = {} THEN AfterHistory(c, TRUE) ELSE "add")
  /\ UNCHANGED <<msg, before, units, prior, alert, assigned, intake,
                 incident, alerted>>

\* UPDATE Incident, for a known incident with a new unit.
UpdateIncident(c) ==
  /\ pc[c] = "commit" /\ prior[c]
  /\ Goto(c, "alert")
  /\ UNCHANGED <<msg, before, locals, intake, db, alerted>>

\* Mutant: the units of a new incident are not saved.
InsertIncidentOnly(c) ==
  /\ pc[c] = "commit" /\ ~prior[c]
  /\ incident' = incident \cup ({Inc(c)} \cap Incidents)
  /\ Goto(c, "alert")
  /\ UNCHANGED <<msg, before, locals, intake, incidentUnit, alerted>>

\* INSERT INTO Incident, for a new one; a duplicate key is an exception like
\* any other.
InsertIncident(c) ==
  /\ pc[c] = "commit" /\ ~prior[c]
  /\ \E ok \in Outcomes :
       incident' = IF ok THEN incident \cup ({Inc(c)} \cap Incidents) ELSE incident
  /\ todo' = [todo EXCEPT ![c] = MyUnits(c)]
  /\ Goto(c, IF MyUnits(c) = {} THEN "alert" ELSE "save")
  /\ UNCHANGED <<msg, before, units, prior, alert, assigned, intake,
                 incidentUnit, alerted>>

\* The units of a new incident, recorded one by one.
SaveUnit(c, u) ==
  /\ pc[c] = "save"
  /\ InsertUnit(c, u)
  /\ Goto(c, IF todo'[c] = {} THEN "alert" ELSE "save")
  /\ UNCHANGED <<msg, before, units, prior, alert, assigned, intake,
                 incident, alerted>>

\* What sub alert starts.  Audio sources and sign texts are prepared by activate,
\* which a closed incident skips: the signs refuse to show an undefined message,
\* the IO devices need none.
Started(c) ==
  IF ~alert[c] \/ (Closed(c) /\ NetAudio) THEN "none"
  ELSE IF Closed(c) THEN "devices" ELSE "announced"

\* With NetAudio, the missing list of audio sources of a closed incident is
\* dereferenced under "use strict", before signs and devices: the child dies.
StartAlerting(c) ==
  /\ pc[c] = "alert"
  /\ alerted' = [alerted EXCEPT ![c] = Started(c)]
  /\ Goto(c, IF alert[c] /\ Closed(c) /\ NetAudio THEN "dead" ELSE "exit")
  /\ UNCHANGED <<msg, before, locals, intake, db>>

\* The child dies between two statements (power loss, kill, Perl exception).
Crash(c) ==
  /\ MayCrash
  /\ pc[c] \in Active
  /\ Goto(c, "dead")
  /\ UNCHANGED <<msg, before, locals, intake, db, alerted>>

ChildStep(c) ==
  \/ Read(c) \/ StoreTransaction(c) \/ Reply(c)
  \/ RegisterUnits(c) \/ ParseDispatch(c)
  \/ LookupIncident(c) \/ LookupUnits(c)
  \/ UpdateIncident(c) \/ InsertIncident(c)
  \/ \E u \in StationUnits : AddUnit(c, u) \/ SaveUnit(c, u)
  \/ StartAlerting(c)

Next == \E c \in Children : Accept(c) \/ ChildStep(c) \/ Crash(c)

Spec == Init /\ [][Next]_vars

\* The listener accepts whenever it can, and a child that does not die runs on.
FairSpec ==
  Spec /\ \A c \in Children : WF_vars(Accept(c)) /\ WF_vars(ChildStep(c))
-----------------------------------------------------------------------------
\* The units that the alerting started by c announces.
Announced(c) == IF alerted[c] = "announced" THEN assigned[c] ELSE {}

\* c can still announce unit u of incident i, or failed to because it died.
MayAnnounce(c, i, u) ==
  /\ Inc(c) = i
  /\ u \in assigned[c]
  /\ ~Closed(c)
  /\ \/ pc[c] = "dead"
     \/ pc[c] \in {"add", "commit", "save", "alert"} /\ alert[c]

\* A closed message names u: it records the unit and announces nothing.
ClosedNames(c, i, u) == Inc(c) = i /\ u \in MyUnits(c) /\ Closed(c)

Explains(c, i, u) ==
  \/ Inc(c) = i /\ u \in Announced(c)
  \/ MayAnnounce(c, i, u)
  \/ ClosedNames(c, i, u)

Explained(i, u) == \E c \in Children : Explains(c, i, u)

\* A unit on record for an incident (which silences every later message that
\* names it) has been announced, or the child that recorded it is still going
\* to announce it, died on the way, or handled a closing message.  Covers the
\* record-then-alert order of NewIncident across concurrent children.
RecordedIsAnnounced ==
  \A i \in Incidents, u \in StationUnits :
    <<i, u>> \in incidentUnit => Explained(i, u)

\* When a child has finished an open message, no unit of this station that the
\* message names has been dropped: it was announced by this child or is
\* accounted for by another one, whatever SQL statement failed (but for the
\* SELECT on Units, after which the child knows no unit of the station).
NoUnitDropped ==
  \A c \in Children :
    pc[c] = "exit" /\ msg[c].body = "incident" /\ ~Closed(c) =>
      \A u \in MyUnits(c) : Explained(Inc(c), u)

\* A child forked after another one has ended never announces a unit again that
\* the other one announced for the same incident: what NewIncident's history
\* comparison is for.  (Children that overlap may; the database must work.)
AnnouncedOnce ==
  ~DbMayFail =>
    \A d \in Children : \A c \in before[d] :
      Inc(c) = Inc(d) /\ Inc(c) \in Incidents =>
        Announced(c) \cap Announced(d) \cap StationUnits = {}

\* The reply to the sender follows the INSERT into iCADAlertTrans: a confirmed
\* stream is on file even if its child dies before processing it.
ConfirmedIsStored == ~DbMayFail => confirmed \subseteq trans

\* Nothing is announced for a unit of this station before the unit is on
\* record: the row that keeps the next message from announcing it again is
\* written first (as long as the database works).
AnnouncedIsRecorded ==
  ~DbMayFail =>
    \A c \in Children : Inc(c) \in Incidents =>
      \A u \in Announced(c) \cap MyUnits(c) : <<Inc(c), u>> \in incidentUnit

\* A registered unit that an open message names is announced by some child, if
\* none dies and no message closes the incident.
EveryUnitAnnounced ==
  \A c \in Children, u \in StationUnits :
    ( /\ u \in MyUnits(c)
      /\ \A d \in Children : Inc(d) = Inc(c) => ~Closed(d) )
    ~> \E d \in Children :
         Inc(d) = Inc(c) /\ (u \in Announced(d) \/ pc[d] = "dead")

\* What NewIncident logs of a closed incident: "Alerting is not required at
\* this time".
ClosedStartsNoAlerting ==
  \A c \in Children : Closed(c) => alerted[c] = "none"
=============================================================================
