--------------------------- MODULE DispatchProofs ---------------------------
(***************************************************************************)
(* What holds of Dispatch for every number of children, incidents and      *)
(* units, every stream, and every pattern of SQL failures and deaths.      *)
(***************************************************************************)
EXTENDS Dispatch, TLAPS

\* What a child reads from its stream is well formed.
LEMMA StreamType ==
  ASSUME TypeOK, NEW c \in Children
  PROVE  /\ Named(c) \subseteq AllUnits
         /\ MyUnits(c) \subseteq StationUnits
         /\ msg[c].body = "incident" => Inc(c) \in Incidents
         /\ msg[c].reply => msg[c].body # "empty"
<1>1. msg[c] \in MessageType
  BY MessagesAssumption DEF TypeOK
<1>2. msg[c].units \subseteq AllUnits /\ msg[c].inc \in Incidents
  BY <1>1 DEF MessageType
<1>3. msg[c].reply => msg[c].body # "empty"
  BY <1>1 DEF MessageType
<1>4. QED
  BY <1>2, <1>3 DEF Named, MyUnits, Inc, TypeOK

\* TypeOK: Spec keeps every variable in its type; in particular table
\* IncidentUnit only ever holds units of this station (filterUnits).
THEOREM TypeCorrect == Spec => []TypeOK
<1>1. Init => TypeOK
  BY FaultsAssumption DEF Init, TypeOK, Steps, Alerting
<1>2. ASSUME TypeOK, [Next]_vars
      PROVE  TypeOK'
  <2> USE <1>2, MessagesAssumption, UnitsAssumption, NoIncidentAssumption
      DEF TypeOK, Goto, Outcomes, locals, intake, db
  <2>1. ASSUME NEW c \in Children, Accept(c) PROVE TypeOK'
    BY <2>1 DEF Accept, Steps
  <2>2. ASSUME NEW c \in Children, Read(c) PROVE TypeOK'
    BY <2>2 DEF Read, Steps
  <2>3. ASSUME NEW c \in Children, StoreTransaction(c) PROVE TypeOK'
    BY <2>3 DEF StoreTransaction, Steps
  <2>4. ASSUME NEW c \in Children, Reply(c) PROVE TypeOK'
    BY <2>4 DEF Reply, Steps
  <2>5. ASSUME NEW c \in Children, RegisterUnits(c) PROVE TypeOK'
    BY <2>5 DEF RegisterUnits, Steps
  <2>6. ASSUME NEW c \in Children, ParseDispatch(c) PROVE TypeOK'
    BY <2>6, StreamType DEF ParseDispatch, Steps
  <2>7. ASSUME NEW c \in Children, LookupIncident(c) PROVE TypeOK'
    BY <2>7 DEF LookupIncident, AfterHistory, Steps
  <2>8. ASSUME NEW c \in Children, LookupUnits(c) PROVE TypeOK'
    BY <2>8, StreamType DEF LookupUnits, AfterHistory, Steps
  <2>9. ASSUME NEW c \in Children, NEW u \in StationUnits, AddUnit(c, u)
        PROVE  TypeOK'
    BY <2>9 DEF AddUnit, InsertUnit, AfterHistory, Steps
  <2>10. ASSUME NEW c \in Children, UpdateIncident(c) PROVE TypeOK'
    BY <2>10 DEF UpdateIncident, Steps
  <2>10a. ASSUME NEW c \in Children, InsertIncident(c) PROVE TypeOK'
    BY <2>10a, StreamType DEF InsertIncident, Steps
  <2>11. ASSUME NEW c \in Children, NEW u \in StationUnits, SaveUnit(c, u)
         PROVE  TypeOK'
    BY <2>11 DEF SaveUnit, InsertUnit, Steps
  <2>12. ASSUME NEW c \in Children, StartAlerting(c) PROVE TypeOK'
    BY <2>12 DEF StartAlerting, Started, Steps, Alerting
  <2>13. ASSUME NEW c \in Children, Crash(c) PROVE TypeOK'
    BY <2>13 DEF Crash, Steps
  <2>14. CASE UNCHANGED vars
    BY <2>14 DEF vars
  <2>15. QED
    BY <1>2, <2>1, <2>2, <2>3, <2>4, <2>5, <2>6, <2>7, <2>8, <2>9, <2>10, <2>10a,
       <2>11, <2>12, <2>13, <2>14 DEF Next, ChildStep
<1>3. QED
  BY <1>1, <1>2, PTL DEF Spec
-----------------------------------------------------------------------------
(***************************************************************************)
(* The inductive invariant.  RecordedIsAnnounced and NoUnitDropped are not *)
(* inductive: whether a recorded unit will be announced depends on what    *)
(* the child that recorded it holds in its own variables at each step.     *)
(***************************************************************************)

\* A child's own variables, step by step.
Local(c) ==
  /\ pc[c] \in {"queued", "read", "store", "reply", "register"} => units[c] = {}
  /\ pc[c] \in {"history", "units"} => assigned[c] = Named(c)
  /\ pc[c] \in {"units", "add"} => prior[c]
  /\ pc[c] \in {"add", "save"} => todo[c] \subseteq MyUnits(c) \cap assigned[c]
  /\ pc[c] \in {"add", "commit", "save"} => alert[c]
  /\ pc[c] = "commit" /\ ~prior[c] => MyUnits(c) \subseteq assigned[c]
  /\ pc[c] \in {"commit", "save"} => ~Closed(c)
  /\ alerted[c] = "announced" => pc[c] = "exit" /\ alert[c] /\ ~Closed(c)

\* Past the history comparison, a unit of an open message is on record or the
\* child itself is alerting for it.
Covered(c) ==
  pc[c] \in {"add", "commit", "save", "alert", "exit"}
    /\ msg[c].body = "incident" /\ ~Closed(c) =>
  \A u \in MyUnits(c) :
    \/ <<Inc(c), u>> \in incidentUnit
    \/ /\ u \in assigned[c] /\ alert[c]
       /\ pc[c] = "exit" => alerted[c] = "announced"

\* With a working database, the units still to be inserted are the only ones
\* of the announcement that are not on record.
Inserted(c) ==
  ~DbMayFail /\ Inc(c) \in Incidents =>
  \A u \in MyUnits(c) \cap assigned[c] :
    /\ pc[c] \in {"add", "save"} => u \in todo[c] \/ <<Inc(c), u>> \in incidentUnit
    /\ \/ pc[c] = "commit" /\ prior[c]
       \/ pc[c] \in {"alert", "exit"} /\ alert[c] /\ ~Closed(c)
       => <<Inc(c), u>> \in incidentUnit

\* With a working database, the incident of a child that got past the history
\* comparison with an alert is in table Incident.
Known(c) ==
  /\ ~DbMayFail /\ Inc(c) \in Incidents
  /\ \/ pc[c] \in {"units", "add", "save"}
     \/ pc[c] = "commit" /\ prior[c]
     \/ pc[c] \in {"alert", "exit"} /\ alert[c] /\ ~Closed(c)
  => Inc(c) \in incident

\* With a working database a child knows every unit of the station, and it
\* announces units of its stream only.
Complete(c) ==
  /\ ~DbMayFail /\ msg[c].body = "incident"
       /\ pc[c] \in {"parse", "history", "units", "add", "commit", "save",
                    "alert", "exit"}
     => units[c] = StationUnits
  /\ assigned[c] \subseteq Named(c)

\* A child about to reply has stored its transaction.
Stored(c) == ~DbMayFail /\ pc[c] = "reply" => c \in trans

ChildInv(c) ==
  Local(c) /\ Covered(c) /\ Inserted(c) /\ Known(c) /\ Complete(c) /\ Stored(c)

IInv ==
  /\ TypeOK
  /\ \A c \in Children : ChildInv(c)
  /\ RecordedIsAnnounced
  /\ ConfirmedIsStored
-----------------------------------------------------------------------------
StepOf(c) == Accept(c) \/ ChildStep(c) \/ Crash(c)

\* What a step of one child leaves alone: every other child.
Same(d) ==
  /\ pc'[d] = pc[d] /\ units'[d] = units[d] /\ prior'[d] = prior[d]
  /\ alert'[d] = alert[d] /\ todo'[d] = todo[d]
  /\ assigned'[d] = assigned[d] /\ alerted'[d] = alerted[d]

\* Streams do not change and rows are never deleted.
LEMMA Growth ==
  ASSUME TypeOK, NEW c \in Children, StepOf(c)
  PROVE  /\ msg' = msg /\ trans \subseteq trans'
         /\ incident \subseteq incident' /\ incidentUnit \subseteq incidentUnit'
<1> USE DEF locals, intake, db
<1>1. CASE Accept(c)
  BY <1>1 DEF Accept
<1>2. CASE Read(c)
  BY <1>2 DEF Read
<1>3. CASE StoreTransaction(c)
  BY <1>3 DEF StoreTransaction, Outcomes
<1>4. CASE Reply(c)
  BY <1>4 DEF Reply
<1>5. CASE RegisterUnits(c)
  BY <1>5 DEF RegisterUnits, Outcomes
<1>6. CASE ParseDispatch(c)
  BY <1>6 DEF ParseDispatch
<1>7. CASE LookupIncident(c)
  BY <1>7 DEF LookupIncident, Outcomes, AfterHistory
<1>8. CASE LookupUnits(c)
  BY <1>8 DEF LookupUnits, Outcomes, AfterHistory
<1>9. CASE UpdateIncident(c)
  BY <1>9 DEF UpdateIncident
<1>9a. CASE InsertIncident(c)
  BY <1>9a DEF InsertIncident, Outcomes
<1>10. ASSUME NEW v \in StationUnits, AddUnit(c, v)
     PROVE  /\ msg' = msg /\ trans \subseteq trans'
            /\ incident \subseteq incident' /\ incidentUnit \subseteq incidentUnit'
  BY <1>10 DEF AddUnit, InsertUnit, Outcomes, AfterHistory
<1>11. ASSUME NEW v \in StationUnits, SaveUnit(c, v)
     PROVE  /\ msg' = msg /\ trans \subseteq trans'
            /\ incident \subseteq incident' /\ incidentUnit \subseteq incidentUnit'
  BY <1>11 DEF SaveUnit, InsertUnit, Outcomes
<1>12. CASE StartAlerting(c)
  BY <1>12 DEF StartAlerting, Started
<1>13. CASE Crash(c)
  BY <1>13 DEF Crash
<1>14. QED
  BY <1>1, <1>2, <1>3, <1>4, <1>5, <1>6, <1>7, <1>8, <1>9, <1>9a, <1>10, <1>11, <1>12, <1>13
  DEF StepOf, ChildStep

LEMMA Frame ==
  ASSUME TypeOK, NEW c \in Children, StepOf(c), NEW d \in Children, d # c
  PROVE  Same(d)
<1> USE DEF TypeOK, Same, Goto, locals
<1>1. CASE Accept(c)
  BY <1>1 DEF Accept
<1>2. CASE Read(c)
  BY <1>2 DEF Read
<1>3. CASE StoreTransaction(c)
  BY <1>3 DEF StoreTransaction, Outcomes
<1>4. CASE Reply(c)
  BY <1>4 DEF Reply
<1>5. CASE RegisterUnits(c)
  BY <1>5 DEF RegisterUnits, Outcomes
<1>6. CASE ParseDispatch(c)
  BY <1>6 DEF ParseDispatch
<1>7. CASE LookupIncident(c)
  BY <1>7 DEF LookupIncident, Outcomes, AfterHistory
<1>8. CASE LookupUnits(c)
  BY <1>8 DEF LookupUnits, Outcomes, AfterHistory
<1>9. CASE UpdateIncident(c)
  BY <1>9 DEF UpdateIncident
<1>9a. CASE InsertIncident(c)
  BY <1>9a DEF InsertIncident, Outcomes
<1>10. ASSUME NEW v \in StationUnits, AddUnit(c, v)
     PROVE  Same(d)
  BY <1>10 DEF AddUnit, InsertUnit, Outcomes, AfterHistory
<1>11. ASSUME NEW v \in StationUnits, SaveUnit(c, v)
     PROVE  Same(d)
  BY <1>11 DEF SaveUnit, InsertUnit, Outcomes
<1>12. CASE StartAlerting(c)
  BY <1>12 DEF StartAlerting, Started
<1>13. CASE Crash(c)
  BY <1>13 DEF Crash
<1>14. QED
  BY <1>1, <1>2, <1>3, <1>4, <1>5, <1>6, <1>7, <1>8, <1>9, <1>9a, <1>10, <1>11, <1>12, <1>13
  DEF StepOf, ChildStep

LEMMA LocalStep ==
  ASSUME TypeOK, NEW c \in Children, Local(c), StepOf(c)
  PROVE  Local(c)'
<1>0. Named(c) = Named(c)' /\ Closed(c) = Closed(c)' /\ msg' = msg
  BY Growth DEF Named, Closed
<1> USE <1>0 DEF TypeOK, Local, MyUnits, Goto, locals
<1>1. CASE Accept(c)
  BY <1>1 DEF Accept
<1>2. CASE Read(c)
  BY <1>2 DEF Read
<1>3. CASE StoreTransaction(c)
  BY <1>3 DEF StoreTransaction, Outcomes
<1>4. CASE Reply(c)
  BY <1>4 DEF Reply
<1>5. CASE RegisterUnits(c)
  BY <1>5 DEF RegisterUnits, Outcomes
<1>6. CASE ParseDispatch(c)
  BY <1>6 DEF ParseDispatch
<1>7. CASE LookupIncident(c)
  BY <1>7 DEF LookupIncident, Outcomes, AfterHistory
<1>8. CASE LookupUnits(c)
  BY <1>8 DEF LookupUnits, Outcomes, AfterHistory
<1>9. CASE UpdateIncident(c)
  BY <1>9 DEF UpdateIncident
<1>9a. CASE InsertIncident(c)
  BY <1>9a DEF InsertIncident, Outcomes
<1>10. ASSUME NEW v \in StationUnits, AddUnit(c, v)
     PROVE  Local(c)'
  BY <1>10 DEF AddUnit, InsertUnit, Outcomes, AfterHistory
<1>11. ASSUME NEW v \in StationUnits, SaveUnit(c, v)
     PROVE  Local(c)'
  BY <1>11 DEF SaveUnit, InsertUnit, Outcomes
<1>12. CASE StartAlerting(c)
  BY <1>12 DEF StartAlerting, Started
<1>13. CASE Crash(c)
  BY <1>13 DEF Crash, Active
<1>14. QED
  BY <1>1, <1>2, <1>3, <1>4, <1>5, <1>6, <1>7, <1>8, <1>9, <1>9a, <1>10, <1>11, <1>12, <1>13
  DEF StepOf, ChildStep

LEMMA CoveredStep ==
  ASSUME TypeOK, NEW c \in Children, Local(c), Covered(c), StepOf(c)
  PROVE  Covered(c)'
<1>0. /\ Named(c) = Named(c)' /\ Closed(c) = Closed(c)' /\ Inc(c) = Inc(c)'
      /\ msg' = msg /\ incidentUnit \subseteq incidentUnit'
  BY Growth DEF Named, Closed, Inc
<1> USE <1>0 DEF TypeOK, Local, Covered, MyUnits, Goto, locals
<1>1. CASE Accept(c)
  BY <1>1 DEF Accept
<1>2. CASE Read(c)
  BY <1>2 DEF Read
<1>3. CASE StoreTransaction(c)
  BY <1>3 DEF StoreTransaction, Outcomes
<1>4. CASE Reply(c)
  BY <1>4 DEF Reply
<1>5. CASE RegisterUnits(c)
  BY <1>5 DEF RegisterUnits, Outcomes
<1>6. CASE ParseDispatch(c)
  BY <1>6 DEF ParseDispatch
<1>7. CASE LookupIncident(c)
  BY <1>7 DEF LookupIncident, Outcomes, AfterHistory
<1>8. CASE LookupUnits(c)
  BY <1>8 DEF LookupUnits, Outcomes, AfterHistory, Recorded
<1>9. CASE UpdateIncident(c)
  BY <1>9 DEF UpdateIncident
<1>9a. CASE InsertIncident(c)
  BY <1>9a DEF InsertIncident, Outcomes
<1>10. ASSUME NEW v \in StationUnits, AddUnit(c, v)
     PROVE  Covered(c)'
  BY <1>10 DEF AddUnit, InsertUnit, Outcomes, AfterHistory
<1>11. ASSUME NEW v \in StationUnits, SaveUnit(c, v)
     PROVE  Covered(c)'
  BY <1>11 DEF SaveUnit, InsertUnit, Outcomes
<1>12. CASE StartAlerting(c)
  BY <1>12 DEF StartAlerting, Started
<1>13. CASE Crash(c)
  BY <1>13 DEF Crash
<1>14. QED
  BY <1>1, <1>2, <1>3, <1>4, <1>5, <1>6, <1>7, <1>8, <1>9, <1>9a, <1>10, <1>11, <1>12, <1>13
  DEF StepOf, ChildStep

LEMMA InsertedStep ==
  ASSUME TypeOK, NEW c \in Children, Local(c), Inserted(c), StepOf(c)
  PROVE  Inserted(c)'
<1>0. /\ Named(c) = Named(c)' /\ Closed(c) = Closed(c)' /\ Inc(c) = Inc(c)'
      /\ msg' = msg /\ incidentUnit \subseteq incidentUnit'
  BY Growth DEF Named, Closed, Inc
<1> USE <1>0 DEF TypeOK, Local, Inserted, MyUnits, Goto, locals
<1>1. CASE Accept(c)
  BY <1>1 DEF Accept
<1>2. CASE Read(c)
  BY <1>2 DEF Read
<1>3. CASE StoreTransaction(c)
  BY <1>3 DEF StoreTransaction, Outcomes
<1>4. CASE Reply(c)
  BY <1>4 DEF Reply
<1>5. CASE RegisterUnits(c)
  BY <1>5 DEF RegisterUnits, Outcomes
<1>6. CASE ParseDispatch(c)
  BY <1>6, NoIncidentAssumption DEF ParseDispatch, Inc
<1>7. CASE LookupIncident(c)
  BY <1>7 DEF LookupIncident, Outcomes, AfterHistory
<1>8. CASE LookupUnits(c)
  BY <1>8 DEF LookupUnits, Outcomes, AfterHistory, Recorded
<1>9. CASE UpdateIncident(c)
  BY <1>9 DEF UpdateIncident
<1>9a. CASE InsertIncident(c)
  BY <1>9a DEF InsertIncident, Outcomes
<1>10. ASSUME NEW v \in StationUnits, AddUnit(c, v)
     PROVE  Inserted(c)'
  BY <1>10 DEF AddUnit, InsertUnit, Outcomes, AfterHistory
<1>11. ASSUME NEW v \in StationUnits, SaveUnit(c, v)
     PROVE  Inserted(c)'
  BY <1>11 DEF SaveUnit, InsertUnit, Outcomes
<1>12. CASE StartAlerting(c)
  BY <1>12 DEF StartAlerting, Started
<1>13. CASE Crash(c)
  BY <1>13 DEF Crash
<1>14. QED
  BY <1>1, <1>2, <1>3, <1>4, <1>5, <1>6, <1>7, <1>8, <1>9, <1>9a, <1>10, <1>11, <1>12, <1>13
  DEF StepOf, ChildStep

LEMMA KnownStep ==
  ASSUME TypeOK, NEW c \in Children, Local(c), Known(c), StepOf(c)
  PROVE  Known(c)'
<1>0. Closed(c) = Closed(c)' /\ Inc(c) = Inc(c)' /\ msg' = msg
  BY Growth DEF Named, Closed, Inc
<1> USE <1>0 DEF TypeOK, Local, Known, Goto, locals, db
<1>1. CASE Accept(c)
  BY <1>1 DEF Accept
<1>2. CASE Read(c)
  BY <1>2, NoIncidentAssumption DEF Read, Inc
<1>3. CASE StoreTransaction(c)
  BY <1>3 DEF StoreTransaction, Outcomes
<1>4. CASE Reply(c)
  BY <1>4 DEF Reply
<1>5. CASE RegisterUnits(c)
  BY <1>5 DEF RegisterUnits, Outcomes
<1>6. CASE ParseDispatch(c)
  BY <1>6, NoIncidentAssumption DEF ParseDispatch, Inc
<1>7. CASE LookupIncident(c)
  BY <1>7 DEF LookupIncident, Outcomes, AfterHistory
<1>8. CASE LookupUnits(c)
  BY <1>8 DEF LookupUnits, Outcomes, AfterHistory, Recorded
<1>9. CASE UpdateIncident(c)
  BY <1>9 DEF UpdateIncident
<1>9a. CASE InsertIncident(c)
  BY <1>9a DEF InsertIncident, Outcomes
<1>10. ASSUME NEW v \in StationUnits, AddUnit(c, v)
     PROVE  Known(c)'
  BY <1>10 DEF AddUnit, InsertUnit, Outcomes, AfterHistory
<1>11. ASSUME NEW v \in StationUnits, SaveUnit(c, v)
     PROVE  Known(c)'
  BY <1>11 DEF SaveUnit, InsertUnit, Outcomes
<1>12. CASE StartAlerting(c)
  BY <1>12 DEF StartAlerting, Started
<1>13. CASE Crash(c)
  BY <1>13 DEF Crash
<1>14. QED
  BY <1>1, <1>2, <1>3, <1>4, <1>5, <1>6, <1>7, <1>8, <1>9, <1>9a, <1>10, <1>11, <1>12, <1>13
  DEF StepOf, ChildStep

LEMMA CompleteStep ==
  ASSUME TypeOK, NEW c \in Children, Local(c), Complete(c), StepOf(c)
  PROVE  Complete(c)'
<1>0. Named(c) = Named(c)' /\ msg' = msg
  BY Growth DEF Named
<1> USE <1>0 DEF TypeOK, Local, Complete, Goto, locals
<1>1. CASE Accept(c)
  BY <1>1 DEF Accept
<1>2. CASE Read(c)
  BY <1>2 DEF Read
<1>3. CASE StoreTransaction(c)
  BY <1>3 DEF StoreTransaction, Outcomes
<1>4. CASE Reply(c)
  BY <1>4 DEF Reply
<1>5. CASE RegisterUnits(c)
  BY <1>5 DEF RegisterUnits, Outcomes
<1>6. CASE ParseDispatch(c)
  BY <1>6, NoIncidentAssumption DEF ParseDispatch, Inc
<1>7. CASE LookupIncident(c)
  BY <1>7 DEF LookupIncident, Outcomes, AfterHistory
<1>8. CASE LookupUnits(c)
  BY <1>8 DEF LookupUnits, Outcomes, AfterHistory, Recorded
<1>9. CASE UpdateIncident(c)
  BY <1>9 DEF UpdateIncident
<1>9a. CASE InsertIncident(c)
  BY <1>9a DEF InsertIncident, Outcomes
<1>10. ASSUME NEW v \in StationUnits, AddUnit(c, v)
     PROVE  Complete(c)'
  BY <1>10 DEF AddUnit, InsertUnit, Outcomes, AfterHistory
<1>11. ASSUME NEW v \in StationUnits, SaveUnit(c, v)
     PROVE  Complete(c)'
  BY <1>11 DEF SaveUnit, InsertUnit, Outcomes
<1>12. CASE StartAlerting(c)
  BY <1>12 DEF StartAlerting, Started
<1>13. CASE Crash(c)
  BY <1>13 DEF Crash
<1>14. QED
  BY <1>1, <1>2, <1>3, <1>4, <1>5, <1>6, <1>7, <1>8, <1>9, <1>9a, <1>10, <1>11, <1>12, <1>13
  DEF StepOf, ChildStep

LEMMA StoredStep ==
  ASSUME TypeOK, NEW c \in Children, Stored(c), ConfirmedIsStored, StepOf(c)
  PROVE  Stored(c)' /\ ConfirmedIsStored'
<1> USE DEF TypeOK, Stored, ConfirmedIsStored, Goto, intake
<1>1. CASE Accept(c)
  BY <1>1 DEF Accept
<1>2. CASE Read(c)
  BY <1>2 DEF Read
<1>3. CASE StoreTransaction(c)
  BY <1>3 DEF StoreTransaction, Outcomes
<1>4. CASE Reply(c)
  BY <1>4 DEF Reply
<1>5. CASE RegisterUnits(c)
  BY <1>5 DEF RegisterUnits, Outcomes
<1>6. CASE ParseDispatch(c)
  BY <1>6 DEF ParseDispatch
<1>7. CASE LookupIncident(c)
  BY <1>7 DEF LookupIncident, Outcomes, AfterHistory
<1>8. CASE LookupUnits(c)
  BY <1>8 DEF LookupUnits, Outcomes, AfterHistory
<1>9. CASE UpdateIncident(c)
  BY <1>9 DEF UpdateIncident
<1>9a. CASE InsertIncident(c)
  BY <1>9a DEF InsertIncident, Outcomes
<1>10. ASSUME NEW v \in StationUnits, AddUnit(c, v)
     PROVE  Stored(c)' /\ ConfirmedIsStored'
  BY <1>10 DEF AddUnit, InsertUnit, Outcomes, AfterHistory
<1>11. ASSUME NEW v \in StationUnits, SaveUnit(c, v)
     PROVE  Stored(c)' /\ ConfirmedIsStored'
  BY <1>11 DEF SaveUnit, InsertUnit, Outcomes
<1>12. CASE StartAlerting(c)
  BY <1>12 DEF StartAlerting, Started
<1>13. CASE Crash(c)
  BY <1>13 DEF Crash
<1>14. QED
  BY <1>1, <1>2, <1>3, <1>4, <1>5, <1>6, <1>7, <1>8, <1>9, <1>9a, <1>10, <1>11, <1>12, <1>13
  DEF StepOf, ChildStep

\* A child that accounts for a recorded unit keeps doing so.
LEMMA ExplainsStep ==
  ASSUME TypeOK, NEW c \in Children, Local(c), StepOf(c),
         NEW i \in Incidents, NEW u \in StationUnits, Explains(c, i, u)
  PROVE  Explains(c, i, u)'
<1>0. Named(c) = Named(c)' /\ Closed(c) = Closed(c)' /\ Inc(c) = Inc(c)'
  BY Growth DEF Named, Closed, Inc
<1> USE <1>0 DEF TypeOK, Local, Explains, Announced, MayAnnounce, ClosedNames,
                 MyUnits, Goto, locals
<1>1. CASE Accept(c)
  BY <1>1 DEF Accept
<1>2. CASE Read(c)
  BY <1>2 DEF Read
<1>3. CASE StoreTransaction(c)
  BY <1>3 DEF StoreTransaction, Outcomes
<1>4. CASE Reply(c)
  BY <1>4 DEF Reply
<1>5. CASE RegisterUnits(c)
  BY <1>5 DEF RegisterUnits, Outcomes
<1>6. CASE ParseDispatch(c)
  BY <1>6 DEF ParseDispatch
<1>7. CASE LookupIncident(c)
  BY <1>7 DEF LookupIncident, Outcomes, AfterHistory
<1>8. CASE LookupUnits(c)
  BY <1>8 DEF LookupUnits, Outcomes, AfterHistory
<1>9. CASE UpdateIncident(c)
  BY <1>9 DEF UpdateIncident
<1>9a. CASE InsertIncident(c)
  BY <1>9a DEF InsertIncident, Outcomes
<1>10. ASSUME NEW v \in StationUnits, AddUnit(c, v)
     PROVE  Explains(c, i, u)'
  BY <1>10 DEF AddUnit, InsertUnit, Outcomes, AfterHistory
<1>11. ASSUME NEW v \in StationUnits, SaveUnit(c, v)
     PROVE  Explains(c, i, u)'
  BY <1>11 DEF SaveUnit, InsertUnit, Outcomes
<1>12. CASE StartAlerting(c)
  BY <1>12 DEF StartAlerting, Started
<1>13. CASE Crash(c)
  BY <1>13 DEF Crash, Active
<1>14. QED
  BY <1>1, <1>2, <1>3, <1>4, <1>5, <1>6, <1>7, <1>8, <1>9, <1>9a, <1>10, <1>11, <1>12, <1>13
  DEF StepOf, ChildStep

\* A row comes from a child that accounts for it.
LEMMA NewRow ==
  ASSUME TypeOK, NEW c \in Children, Local(c), StepOf(c),
         NEW i \in Incidents, NEW u \in StationUnits,
         <<i, u>> \notin incidentUnit, <<i, u>> \in incidentUnit'
  PROVE  Explains(c, i, u)'
<1>0. Named(c) = Named(c)' /\ Closed(c) = Closed(c)' /\ Inc(c) = Inc(c)'
  BY Growth DEF Named, Closed, Inc
<1>1. PICK v \in StationUnits : AddUnit(c, v) \/ SaveUnit(c, v)
  BY DEF StepOf, ChildStep, Accept, Read, StoreTransaction, Reply,
         RegisterUnits, ParseDispatch, LookupIncident, LookupUnits,
         UpdateIncident, InsertIncident, StartAlerting, Crash, db
<1>2. i = Inc(c) /\ u = v /\ u \in todo[c]
  <2>1. InsertUnit(c, v)
    BY <1>1 DEF AddUnit, SaveUnit
  <2>2. v \in todo[c] /\ incidentUnit' \subseteq incidentUnit \cup {<<Inc(c), v>>}
    BY <2>1 DEF InsertUnit, Outcomes
  <2>3. <<i, u>> = <<Inc(c), v>>
    BY <2>2
  <2>4. QED
    BY <2>2, <2>3
<1>3. u \in MyUnits(c) /\ u \in assigned[c] /\ alert[c]
  BY <1>1, <1>2 DEF Local, AddUnit, SaveUnit
<1>4. /\ assigned' = assigned /\ alert' = alert /\ units' = units
      /\ pc'[c] \in {"add", "commit", "save", "alert"}
  BY <1>1 DEF AddUnit, SaveUnit, Goto, AfterHistory, TypeOK
<1>5. QED
  BY <1>0, <1>2, <1>3, <1>4 DEF Explains, MayAnnounce, ClosedNames, MyUnits

LEMMA RecordedStep ==
  ASSUME IInv, NEW c \in Children, StepOf(c)
  PROVE  RecordedIsAnnounced'
<1>1. SUFFICES ASSUME NEW i \in Incidents, NEW u \in StationUnits,
                      <<i, u>> \in incidentUnit'
               PROVE  \E d \in Children : Explains(d, i, u)'
  BY DEF RecordedIsAnnounced, Explained
<1>2. CASE <<i, u>> \notin incidentUnit
  BY <1>1, <1>2, NewRow DEF IInv, ChildInv
<1>3. CASE <<i, u>> \in incidentUnit
  <2>1. PICK d \in Children : Explains(d, i, u)
    BY <1>3 DEF IInv, RecordedIsAnnounced, Explained
  <2>2. CASE d = c
    BY <2>1, <2>2, ExplainsStep DEF IInv, ChildInv
  <2>3. CASE d # c
    <3>1. Same(d) /\ msg' = msg
      BY <2>3, Frame, Growth DEF IInv
    <3>2. QED
      BY <2>1, <3>1 DEF Same, Explains, Announced, MayAnnounce, ClosedNames,
                        MyUnits, Named, Closed, Inc
  <2>4. QED
    BY <2>2, <2>3
<1>4. QED
  BY <1>2, <1>3

\* A step of one child keeps every child's part of the invariant.
LEMMA ChildInvStep ==
  ASSUME IInv, NEW c \in Children, StepOf(c), NEW d \in Children
  PROVE  ChildInv(d)'
<1>1. CASE d = c
  BY <1>1, LocalStep, CoveredStep, InsertedStep, KnownStep, CompleteStep,
     StoredStep DEF IInv, ChildInv
<1>2. CASE d # c
  <2>1. /\ Same(d) /\ msg' = msg /\ trans \subseteq trans'
        /\ incident \subseteq incident' /\ incidentUnit \subseteq incidentUnit'
    BY <1>2, Frame, Growth DEF IInv
  <2>2. /\ Inc(d)' = Inc(d) /\ Named(d)' = Named(d) /\ Closed(d)' = Closed(d)
        /\ MyUnits(d)' = MyUnits(d)
    BY <2>1 DEF Same, Inc, Named, Closed, MyUnits
  <2>3. Local(d)' /\ Stored(d)'
    BY <2>1, <2>2 DEF IInv, ChildInv, Local, Stored, Same
  <2>4. Covered(d)'
    BY <2>1, <2>2 DEF IInv, ChildInv, Covered, Same
  <2>5. Inserted(d)'
    BY <2>1, <2>2 DEF IInv, ChildInv, Inserted, Same
  <2>6. Known(d)' /\ Complete(d)'
    BY <2>1, <2>2 DEF IInv, ChildInv, Known, Complete, Same
  <2>7. QED
    BY <2>3, <2>4, <2>5, <2>6 DEF ChildInv
<1>3. QED
  BY <1>1, <1>2

LEMMA Inductive == Spec => []IInv
<1>1. Init => IInv
  <2> SUFFICES ASSUME Init PROVE IInv
    OBVIOUS
  <2>1. TypeOK
    BY FaultsAssumption DEF Init, TypeOK, Steps, Alerting
  <2>2. ASSUME NEW c \in Children PROVE ChildInv(c)
    BY DEF Init, ChildInv, Local, Covered, Inserted, Known, Complete, Stored
  <2>3. RecordedIsAnnounced /\ ConfirmedIsStored
    BY DEF Init, RecordedIsAnnounced, ConfirmedIsStored
  <2>4. QED
    BY <2>1, <2>2, <2>3 DEF IInv
<1>2. ASSUME TypeOK', IInv, [Next]_vars
      PROVE  IInv'
  <2>1. ASSUME NEW c \in Children, StepOf(c) PROVE IInv'
    <3>1. \A d \in Children : ChildInv(d)'
      BY <1>2, <2>1, ChildInvStep
    <3>2. RecordedIsAnnounced'
      BY <1>2, <2>1, RecordedStep
    <3>3. ConfirmedIsStored'
      BY <1>2, <2>1, StoredStep DEF IInv, ChildInv
    <3>4. QED
      BY <1>2, <3>1, <3>2, <3>3 DEF IInv
  <2>2. CASE UNCHANGED vars
    <3>1. TypeOK' /\ RecordedIsAnnounced' /\ ConfirmedIsStored'
      BY <1>2, <2>2 DEF vars, IInv, RecordedIsAnnounced, ConfirmedIsStored,
           Explained, Explains, Announced, MayAnnounce, ClosedNames, MyUnits,
           Named, Closed, Inc
    <3>2. ASSUME NEW d \in Children PROVE ChildInv(d)'
      BY <1>2, <2>2 DEF vars, IInv, ChildInv, Local, Covered, Inserted, Known,
           Complete, Stored, MyUnits, Named, Closed, Inc
    <3>3. QED
      BY <3>1, <3>2 DEF IInv
  <2>3. QED
    BY <1>2, <2>1, <2>2 DEF Next, StepOf
<1>3. QED
  BY <1>1, <1>2, TypeCorrect, PTL DEF Spec

\* RecordedIsAnnounced: a unit on record for an incident was announced, or the
\* reason why not is known, with any number of concurrent children.
THEOREM RecordedUnitsAreAnnounced == Spec => []RecordedIsAnnounced
BY Inductive, PTL DEF IInv

\* NoUnitDropped: a finished child drops no registered unit of an open message,
\* whatever the interleaving, the SQL failures and the deaths of others.
THEOREM UnitsAreNotDropped == Spec => []NoUnitDropped
<1>1. ASSUME IInv PROVE NoUnitDropped
  <2> SUFFICES ASSUME NEW c \in Children, pc[c] = "exit",
                      msg[c].body = "incident", ~Closed(c),
                      NEW u \in MyUnits(c)
               PROVE  Explained(Inc(c), u)
    BY DEF NoUnitDropped
  <2>1. u \in StationUnits /\ Inc(c) \in Incidents
    BY <1>1, StreamType DEF IInv
  <2>2. \/ <<Inc(c), u>> \in incidentUnit
        \/ u \in assigned[c] /\ alerted[c] = "announced"
    BY <1>1 DEF IInv, ChildInv, Covered
  <2>3. QED
    BY <1>1, <2>1, <2>2 DEF IInv, RecordedIsAnnounced, Explained, Explains,
                            Announced
<1>2. QED
  BY <1>1, Inductive, PTL

\* AnnouncedIsRecorded: with a working database no unit is announced before its
\* row is written.
THEOREM AnnouncedUnitsAreRecorded == Spec => []AnnouncedIsRecorded
<1>1. ASSUME IInv PROVE AnnouncedIsRecorded
  <2> SUFFICES ASSUME ~DbMayFail, NEW c \in Children, Inc(c) \in Incidents,
                      NEW u \in Announced(c) \cap MyUnits(c)
               PROVE  <<Inc(c), u>> \in incidentUnit
    BY DEF AnnouncedIsRecorded
  <2>1. u \in assigned[c] /\ alerted[c] = "announced" /\ pc[c] = "exit"
    BY <1>1 DEF Announced, IInv, ChildInv, Local
  <2>2. alert[c] /\ ~Closed(c)
    BY <1>1, <2>1 DEF IInv, ChildInv, Local
  <2>3. QED
    BY <1>1, <2>1, <2>2 DEF IInv, ChildInv, Inserted
<1>2. QED
  BY <1>1, Inductive, PTL

\* ConfirmedIsStored: the reply follows the INSERT, so that a confirmed stream
\* survives the death of its child.
THEOREM ConfirmedStreamsAreStored == Spec => []ConfirmedIsStored
BY Inductive, PTL DEF IInv
-----------------------------------------------------------------------------
(***************************************************************************)
(* AnnouncedOnce.  IInv says that what an ended child announced is on      *)
(* record, incident and units; what is left is that a child forked later   *)
(* reads those rows before it announces anything.                          *)
(***************************************************************************)

\* A child counted as ended has ended.
Ended(d) == \A c \in before[d] : pc[c] = "exit"

\* Past the history comparison, nothing that an earlier child announced is
\* left in UnitAssign.
Fresh(d) ==
  ~DbMayFail /\ Inc(d) \in Incidents
    /\ pc[d] \in {"add", "commit", "save", "alert", "exit"} =>
  \A c \in before[d] :
    Inc(c) = Inc(d) => Announced(c) \cap assigned[d] \cap StationUnits = {}

OnceInv == \A d \in Children : Ended(d) /\ Fresh(d)

\* Whatever a child announced is on record, with its incident.
LEMMA AnnouncedRows ==
  ASSUME IInv, ~DbMayFail, NEW c \in Children, Inc(c) \in Incidents,
         NEW u \in Announced(c) \cap StationUnits
  PROVE  Inc(c) \in incident /\ u \in Recorded(Inc(c))
<1>1. u \in assigned[c] /\ pc[c] = "exit" /\ alert[c] /\ ~Closed(c)
  BY DEF Announced, IInv, ChildInv, Local
<1>2. msg[c].body = "incident"
  BY NoIncidentAssumption DEF Inc
<1>3. u \in MyUnits(c)
  BY <1>1, <1>2 DEF IInv, ChildInv, Complete, MyUnits
<1>4. QED
  BY <1>1, <1>3 DEF IInv, ChildInv, Known, Inserted, Recorded

\* Only a child that has not ended moves, and only Accept sets its history.
LEMMA BeforeStep ==
  ASSUME TypeOK, NEW c \in Children, StepOf(c)
  PROVE  /\ pc[c] # "exit"
         /\ \A d \in Children \ {c} : before'[d] = before[d]
         /\ \/ before'[c] = before[c]
            \/ /\ before'[c] = {d \in Children : pc[d] = "exit"}
               /\ pc'[c] = "read"
<1> DEFINE Goal == /\ pc[c] # "exit"
                   /\ \A d \in Children \ {c} : before'[d] = before[d]
                   /\ \/ before'[c] = before[c]
                      \/ /\ before'[c] = {d \in Children : pc[d] = "exit"}
                         /\ pc'[c] = "read"
<1> USE DEF TypeOK, Goto
<1>1. CASE Accept(c)
  BY <1>1 DEF Accept
<1>2. CASE Read(c)
  BY <1>2 DEF Read
<1>3. CASE StoreTransaction(c)
  BY <1>3 DEF StoreTransaction, Outcomes
<1>4. CASE Reply(c)
  BY <1>4 DEF Reply
<1>5. CASE RegisterUnits(c)
  BY <1>5 DEF RegisterUnits, Outcomes
<1>6. CASE ParseDispatch(c)
  BY <1>6 DEF ParseDispatch
<1>7. CASE LookupIncident(c)
  BY <1>7 DEF LookupIncident, Outcomes, AfterHistory
<1>8. CASE LookupUnits(c)
  BY <1>8 DEF LookupUnits, Outcomes, AfterHistory
<1>9. CASE UpdateIncident(c)
  BY <1>9 DEF UpdateIncident
<1>10. CASE InsertIncident(c)
  BY <1>10 DEF InsertIncident, Outcomes
<1>11. ASSUME NEW v \in StationUnits, AddUnit(c, v)
     PROVE  Goal
  BY <1>11 DEF AddUnit, InsertUnit, Outcomes, AfterHistory
<1>12. ASSUME NEW v \in StationUnits, SaveUnit(c, v)
     PROVE  Goal
  BY <1>12 DEF SaveUnit, InsertUnit, Outcomes
<1>13. CASE StartAlerting(c)
  BY <1>13 DEF StartAlerting, Started
<1>14. CASE Crash(c)
  BY <1>14 DEF Crash, Active
<1>15. QED
  BY <1>1, <1>2, <1>3, <1>4, <1>5, <1>6, <1>7, <1>8, <1>9, <1>10, <1>11, <1>12, <1>13, <1>14
  DEF StepOf, ChildStep

\* The step that a child itself takes keeps UnitAssign free of what earlier
\* children announced.
LEMMA FreshStep ==
  ASSUME IInv, ~DbMayFail, NEW c \in Children, Local(c), Fresh(c), StepOf(c),
         before'[c] = before[c], Inc(c) \in Incidents,
         pc'[c] \in {"add", "commit", "save", "alert", "exit"},
         NEW d \in before[c], d \in Children, Inc(d) = Inc(c),
         NEW u \in Announced(d) \cap StationUnits
  PROVE  u \notin assigned'[c]
<1>0. Inc(c) \in incident /\ u \in Recorded(Inc(c))
  BY AnnouncedRows
<1>a. msg[c].body = "incident"
  BY NoIncidentAssumption DEF Inc
<1>b. pc[c] \in {"add", "commit", "save", "alert"} => u \notin assigned[c]
  BY DEF Fresh
<1> USE <1>a, <1>b DEF IInv, TypeOK, Goto, locals
<1>1. CASE Accept(c)
  BY <1>1 DEF Accept
<1>2. CASE Read(c)
  BY <1>2 DEF Read
<1>3. CASE StoreTransaction(c)
  BY <1>3 DEF StoreTransaction, Outcomes
<1>4. CASE Reply(c)
  BY <1>4 DEF Reply
<1>5. CASE RegisterUnits(c)
  BY <1>5 DEF RegisterUnits, Outcomes
<1>6. CASE ParseDispatch(c)
  BY <1>6 DEF ParseDispatch
<1>7. CASE LookupIncident(c)
  BY <1>7, <1>0 DEF LookupIncident, Outcomes, AfterHistory
<1>8. CASE LookupUnits(c)
  BY <1>8, <1>0 DEF LookupUnits, Outcomes, AfterHistory, ChildInv, Complete, MyUnits
<1>9. CASE UpdateIncident(c)
  BY <1>9 DEF UpdateIncident
<1>10. CASE InsertIncident(c)
  BY <1>10 DEF InsertIncident, Outcomes
<1>11. ASSUME NEW v \in StationUnits, AddUnit(c, v)
     PROVE  u \notin assigned'[c]
  BY <1>11 DEF AddUnit, InsertUnit, Outcomes, AfterHistory
<1>12. ASSUME NEW v \in StationUnits, SaveUnit(c, v)
     PROVE  u \notin assigned'[c]
  BY <1>12 DEF SaveUnit, InsertUnit, Outcomes
<1>13. CASE StartAlerting(c)
  BY <1>13 DEF StartAlerting, Started
<1>14. CASE Crash(c)
  BY <1>14 DEF Crash, Active
<1>15. QED
  BY <1>1, <1>2, <1>3, <1>4, <1>5, <1>6, <1>7, <1>8, <1>9, <1>10, <1>11, <1>12, <1>13, <1>14
  DEF StepOf, ChildStep

LEMMA OnceStep ==
  ASSUME IInv, OnceInv, NEW c \in Children, StepOf(c)
  PROVE  OnceInv'
<1>0. TypeOK
  BY DEF IInv
<1>1. msg' = msg
  BY <1>0, Growth
<1>2. ASSUME NEW d \in Children, d # c PROVE Ended(d)' /\ Fresh(d)'
  <2>1. Same(d) /\ before'[d] = before[d] /\ before[d] \subseteq Children \ {c}
    BY <1>0, <1>2, Frame, BeforeStep DEF OnceInv, Ended, TypeOK
  <2>2. \A e \in before[d] : Same(e)
    BY <1>0, <2>1, Frame
  <2>3. QED
    BY <1>1, <1>2, <2>1, <2>2 DEF OnceInv, Ended, Fresh, Same, Announced, Inc
<1>3. ASSUME before'[c] = before[c] PROVE Ended(c)' /\ Fresh(c)'
  <2>1. before[c] \subseteq Children \ {c}
    BY <1>0, BeforeStep DEF OnceInv, Ended, TypeOK
  <2>2. \A e \in before[c] : Same(e)
    BY <1>0, <2>1, Frame
  <2>3. Ended(c)'
    BY <1>3, <2>2 DEF OnceInv, Ended, Same
  <2>4. Fresh(c)'
    <3>1. Inc(c)' = Inc(c) /\ \A e \in before[c] : Inc(e)' = Inc(e)
      BY <1>1 DEF Inc
    <3>2. \A e \in before[c] : Announced(e)' = Announced(e)
      BY <2>2 DEF Announced, Same
    <3>3. Local(c) /\ Fresh(c)
      BY DEF IInv, ChildInv, OnceInv
    <3>4. ASSUME ~DbMayFail, Inc(c) \in Incidents,
                 pc'[c] \in {"add", "commit", "save", "alert", "exit"},
                 NEW e \in before[c], Inc(e) = Inc(c),
                 NEW u \in Announced(e) \cap StationUnits
          PROVE  u \notin assigned'[c]
      BY <1>3, <2>1, <3>3, <3>4, FreshStep
    <3>5. QED
      BY <1>3, <3>1, <3>2, <3>4 DEF Fresh
  <2>5. QED
    BY <2>3, <2>4
<1>4. ASSUME before'[c] = {d \in Children : pc[d] = "exit"}, pc'[c] = "read"
      PROVE  Ended(c)' /\ Fresh(c)'
  <2>1. \A e \in before'[c] : e \in Children \ {c} /\ pc[e] = "exit"
    BY <1>0, <1>4, BeforeStep
  <2>2. \A e \in before'[c] : Same(e)
    BY <1>0, <2>1, Frame
  <2>3. QED
    BY <1>4, <2>1, <2>2 DEF Ended, Fresh, Same
<1>5. QED
  BY <1>0, <1>2, <1>3, <1>4, BeforeStep DEF OnceInv

\* AnnouncedOnce: with a working database, no child announces again what an
\* ended child announced for the incident, whatever streams and deaths come
\* between them.
THEOREM UnitsAreAnnouncedOnce == Spec => []AnnouncedOnce
<1>1. Init => OnceInv
  BY DEF Init, OnceInv, Ended, Fresh
<1>2. ASSUME IInv, OnceInv, [Next]_vars PROVE OnceInv'
  <2>1. ASSUME NEW c \in Children, StepOf(c) PROVE OnceInv'
    BY <1>2, <2>1, OnceStep
  <2>2. CASE UNCHANGED vars
    BY <1>2, <2>2 DEF vars, OnceInv, Ended, Fresh, Announced, Inc
  <2>3. QED
    BY <1>2, <2>1, <2>2 DEF Next, StepOf
<1>3. ASSUME IInv, OnceInv PROVE AnnouncedOnce
  <2> SUFFICES ASSUME ~DbMayFail, NEW d \in Children, NEW c \in before[d],
                      Inc(c) = Inc(d), Inc(c) \in Incidents
               PROVE  Announced(c) \cap Announced(d) \cap StationUnits = {}
    BY DEF AnnouncedOnce
  <2>1. CASE alerted[d] # "announced"
    BY <2>1 DEF Announced
  <2>2. CASE alerted[d] = "announced"
    <3>1. pc[d] = "exit"
      BY <1>3, <2>2 DEF IInv, ChildInv, Local
    <3>2. Announced(c) \cap assigned[d] \cap StationUnits = {}
      BY <1>3, <3>1 DEF OnceInv, Fresh
    <3>3. QED
      BY <3>2 DEF Announced
  <2>3. QED
    BY <2>1, <2>2
<1>4. QED
  BY <1>1, <1>2, <1>3, Inductive, PTL DEF Spec
=============================================================================
