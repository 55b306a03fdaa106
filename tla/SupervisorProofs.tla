--------------------------- MODULE SupervisorProofs ---------------------------
(***************************************************************************)
(* Theorems about Supervisor, for any number of process identifiers, any   *)
(* limit of ForkManager and any number of deaths and signals.              *)
(***************************************************************************)
EXTENDS Supervisor, FiniteSetTheorems, TLAPS

(***************************************************************************)
(* The inductive invariant.  Where is the statement the main program is at *)
(* or will be at when its handler returns.                                 *)
(***************************************************************************)
Where == IF at = "stop" THEN back ELSE at

Readers   == {s \in Slot : proc[s].kind = "RF"}
Listeners == {s \in Slot : proc[s].kind = "INET"}

\* ForkManager knows every child of its own and no other; entries without one
\* are those it was robbed of.
Known == \A s \in Slot :
  /\ proc[s].kind \in Service => s \in table
  /\ s \in table => proc[s].kind \in Service \/ proc[s] = NoProcess
  /\ proc[s].state = "none" => proc[s] = NoProcess

\* One reader at most, in whatever state; none where it is to be forked; one
\* behind that, unless it was abandoned or is not wanted any more.
ReaderInv ==
  /\ \A s, t \in Readers : s = t
  /\ Where \in {"RF_on", "RF"} => Readers = {}
  /\ at \in {"INET_on", "INET", "wait"} /\ flag["RF"] => abandoned \/ Readers # {}

\* Where a listener is to be forked there is room for one more.
ListenerInv ==
  /\ Cardinality(Listeners) <= readers
  /\ Where \in {"INET_on", "INET"} => Cardinality(Listeners) + 1 <= readers

\* The handler finds the flags down; a signal at the end leaves them down.
SignalInv ==
  /\ at = "stop" => \A k \in Service : ~flag[k]
  /\ stopped = "wait" =>
       late = {} /\ Where \in {"wait", "gone"} /\ \A k \in Service : ~flag[k]

IInv == TypeOK /\ Known /\ ReaderInv /\ ListenerInv /\ SignalInv
-----------------------------------------------------------------------------
\* The actions of a child, and a signal to one, change its state and its flag only.
ChildStep(s) == Child(s) \/ InterruptChild(s)

LEMMA ChildKeeps ==
  ASSUME TypeOK, NEW s \in Slot, ChildStep(s)
  PROVE  /\ proc' \in [Slot -> Process]
         /\ \A t \in Slot : proc'[t].kind = proc[t].kind
         /\ \A t \in Slot : t # s => proc'[t] = proc[t]
         /\ proc[s].state # "none" /\ proc'[s].state # "none"
         /\ UNCHANGED <<at, back, flag, table, history>>
         /\ deaths' \in Nat /\ signals' \in Nat
<1>1. CASE Serve(s)
  BY <1>1 DEF Serve, Has, TypeOK, Process, budget, history
<1>2. CASE BindFails(s)
  BY <1>2 DEF BindFails, Exit, Has, TypeOK, Process, history
<1>3. CASE LoopEnds(s)
  BY <1>3 DEF LoopEnds, Exit, TypeOK, Process, history
<1>4. CASE Die(s)
  BY <1>4 DEF Die, Exit, Alive, TypeOK, Process, history
<1>5. CASE Throw(s)
  BY <1>5 DEF Throw, Exit, Has, TypeOK, Process, history
<1>6. CASE InterruptChild(s)
  <2>1. proc' = [proc EXCEPT ![s] = [proc[s] EXCEPT !.goes = FALSE]]
    BY <1>6 DEF InterruptChild
  <2>2. [proc[s] EXCEPT !.goes = FALSE] \in Process
    BY DEF TypeOK, Process
  <2>3. /\ [proc[s] EXCEPT !.goes = FALSE].kind = proc[s].kind
        /\ [proc[s] EXCEPT !.goes = FALSE].state = proc[s].state
    BY DEF TypeOK, Process
  <2>4. /\ proc' \in [Slot -> Process]
        /\ \A t \in Slot : t # s => proc'[t] = proc[t]
        /\ proc'[s] = [proc[s] EXCEPT !.goes = FALSE]
    BY <2>1, <2>2 DEF TypeOK
  <2>5. proc[s].state # "none"
    BY <1>6 DEF InterruptChild, Alive
  <2>6. UNCHANGED <<at, back, flag, table, history>> /\ deaths' \in Nat /\ signals' \in Nat
    BY <1>6 DEF InterruptChild, TypeOK, history
  <2>7. \A t \in Slot : proc'[t].kind = proc[t].kind
    BY <2>3, <2>4
  <2> QED BY <2>3, <2>4, <2>5, <2>6, <2>7
<1> QED BY <1>1, <1>2, <1>3, <1>4, <1>5, <1>6 DEF ChildStep, Child

LEMMA ChildKeepsKinds ==
  ASSUME TypeOK, NEW s \in Slot, ChildStep(s)
  PROVE  Readers' = Readers /\ Listeners' = Listeners /\ Where' = Where
BY ChildKeeps DEF Readers, Listeners, Where

\* Every step is one of these.
LEMMA Steps ==
  ASSUME [Next]_vars
  PROVE  \/ \E k \in Service : RaiseFlag(k) \/ Fork(k)
         \/ \E s \in Slot : Reap(s) \/ HandlerReaps(s) \/ ChildStep(s)
         \/ End \/ HandlerReturns \/ ForkFails \/ Interrupt \/ Terminate
         \/ UNCHANGED vars
BY DEF Next, Main, Signal, ChildStep
\* Where run_on_finish jumps to.
LEMMA ReapJumps ==
  ASSUME TypeOK, Known, NEW s \in Slot, Reap(s)
  PROVE  /\ at \in {"RF", "INET", "wait"}
         /\ at' = at \/ (/\ at' = proc[s].kind /\ proc[s].kind \in Service
                        /\ flag[proc[s].kind])
<1> NoProcess.state # "zombie"
  BY DEF NoProcess
<1>1. s \in table => proc[s].kind \in Service
  BY DEF Reap, Zombie, Known
<1> QED BY <1>1 DEF Reap, Service
-----------------------------------------------------------------------------
LEMMA TypeStep == TypeOK /\ Known /\ [Next]_vars => TypeOK'
<1> SUFFICES ASSUME TypeOK, Known, [Next]_vars PROVE TypeOK'
  OBVIOUS
<1> NoProcess \in Process
  BY DEF NoProcess, Process, Kind
<1>1. ASSUME NEW k \in Service, RaiseFlag(k) PROVE TypeOK'
  BY <1>1 DEF RaiseFlag, TypeOK, Statement, Service, budget, history
<1>2. ASSUME NEW k \in Service, Fork(k) PROVE TypeOK'
  <2>1. PICK s \in Free : /\ proc' = [proc EXCEPT ![s] = [kind |-> k, state |-> "new", goes |-> flag[k]]]
                          /\ table' = table \cup {s}
    BY <1>2 DEF Fork
  <2>2. s \in Slot /\ [kind |-> k, state |-> "new", goes |-> flag[k]] \in Process
    BY DEF Free, Process, Kind, TypeOK
  <2>3. proc' \in [Slot -> Process] /\ table' \subseteq Slot
    BY <2>1, <2>2 DEF TypeOK
  <2> QED BY <1>2, <2>3 DEF Fork, TypeOK, Statement, Service, budget
<1>3. ASSUME NEW s \in Slot, Reap(s) PROVE TypeOK'
  <2>1. at' \in Statement
    BY <1>3, ReapJumps DEF Service, Statement
  <2>2. proc' \in [Slot -> Process] /\ table' \subseteq Slot /\ abandoned' \in BOOLEAN
    BY <1>3 DEF Reap, TypeOK
  <2> QED BY <1>3, <2>1, <2>2 DEF Reap, TypeOK, budget
<1>4. ASSUME NEW s \in Slot, HandlerReaps(s) PROVE TypeOK'
  BY <1>4 DEF HandlerReaps, TypeOK, budget, history
<1>5. ASSUME NEW s \in Slot, ChildStep(s) PROVE TypeOK'
  BY <1>5, ChildKeeps DEF TypeOK, history
<1>6. CASE End
  BY <1>6 DEF End, TypeOK, Statement, budget, history
<1>7. CASE HandlerReturns
  BY <1>7 DEF HandlerReturns, TypeOK, budget, history
<1>8. CASE ForkFails
  BY <1>8 DEF ForkFails, TypeOK, Statement, history
<1>9. CASE Interrupt
  BY <1>9 DEF Interrupt, TypeOK, Statement
<1>10. CASE Terminate
  BY <1>10 DEF Terminate, TypeOK, Statement, history
<1>11. CASE UNCHANGED vars
  BY <1>11 DEF vars, TypeOK
<1> QED BY <1>1, <1>2, <1>3, <1>4, <1>5, <1>6, <1>7, <1>8, <1>9, <1>10, <1>11, Steps

LEMMA KnownStep == TypeOK /\ Known /\ [Next]_vars => Known'
<1> SUFFICES ASSUME TypeOK, Known, [Next]_vars PROVE Known'
  OBVIOUS
<1> NoProcess.kind \notin Service /\ NoProcess.state = "none"
  BY DEF NoProcess, Service
<1>1. ASSUME NEW k \in Service, RaiseFlag(k) PROVE Known'
  BY <1>1 DEF RaiseFlag, Known
<1>2. ASSUME NEW k \in Service, Fork(k) PROVE Known'
  <2>1. PICK s \in Free : /\ proc' = [proc EXCEPT ![s] = [kind |-> k, state |-> "new", goes |-> flag[k]]]
                          /\ table' = table \cup {s}
    BY <1>2 DEF Fork
  <2> QED BY <2>1 DEF Known, Free, TypeOK
<1>3. ASSUME NEW s \in Slot, Reap(s) PROVE Known'
  BY <1>3 DEF Reap, Known, TypeOK
<1>4. ASSUME NEW s \in Slot, HandlerReaps(s) PROVE Known'
  BY <1>4 DEF HandlerReaps, Known, TypeOK
<1>5. ASSUME NEW s \in Slot, ChildStep(s) PROVE Known'
  BY <1>5, ChildKeeps DEF Known
<1>6. CASE End \/ HandlerReturns \/ ForkFails \/ Interrupt
  BY <1>6 DEF End, HandlerReturns, ForkFails, Interrupt, Known
<1>7. CASE Terminate
  BY <1>7 DEF Terminate, Known
<1>8. CASE UNCHANGED vars
  BY <1>8 DEF vars, Known
<1> QED BY <1>1, <1>2, <1>3, <1>4, <1>5, <1>6, <1>7, <1>8, Steps

LEMMA SignalStep == TypeOK /\ Known /\ SignalInv /\ [Next]_vars => SignalInv'
<1> SUFFICES ASSUME TypeOK, Known, SignalInv, [Next]_vars PROVE SignalInv'
  OBVIOUS
<1>1. ASSUME NEW k \in Service, RaiseFlag(k) PROVE SignalInv'
  BY <1>1 DEF RaiseFlag, SignalInv, Where, Service, TypeOK, Statement, history
<1>2. ASSUME NEW k \in Service, Fork(k) PROVE SignalInv'
  BY <1>2 DEF Fork, SignalInv, Where, Service, TypeOK, Statement, budget
<1>3. ASSUME NEW s \in Slot, Reap(s) PROVE SignalInv'
  <2>1. UNCHANGED <<flag, stopped, late>>
    BY <1>3 DEF Reap
  <2>2. at # "stop" /\ at' # "stop" /\ (stopped = "wait" => at' = at)
    BY <1>3, ReapJumps DEF SignalInv, Service
  <2> QED BY <2>1, <2>2 DEF SignalInv, Where
<1>4. ASSUME NEW s \in Slot, HandlerReaps(s) PROVE SignalInv'
  BY <1>4 DEF HandlerReaps, SignalInv, Where, budget, history
<1>5. ASSUME NEW s \in Slot, ChildStep(s) PROVE SignalInv'
  BY <1>5, ChildKeeps DEF SignalInv, Where, history
<1>6. CASE End \/ HandlerReturns \/ ForkFails
  BY <1>6 DEF End, HandlerReturns, ForkFails, SignalInv, Where, Service, TypeOK, history
<1>7. CASE Interrupt
  BY <1>7 DEF Interrupt, SignalInv, Where, TypeOK
<1>8. CASE Terminate
  BY <1>8 DEF Terminate, SignalInv, Where, history
<1>9. CASE UNCHANGED vars
  BY <1>9 DEF vars, SignalInv, Where
<1> QED BY <1>1, <1>2, <1>3, <1>4, <1>5, <1>6, <1>7, <1>8, <1>9, Steps

LEMMA ReaderStep ==
  TypeOK /\ Known /\ SignalInv /\ ReaderInv /\ [Next]_vars => ReaderInv'
<1> SUFFICES ASSUME TypeOK, Known, SignalInv, ReaderInv, [Next]_vars PROVE ReaderInv'
  OBVIOUS
<1> NoProcess.kind \notin Service
  BY DEF NoProcess, Service
<1>1. ASSUME NEW k \in Service, RaiseFlag(k) PROVE ReaderInv'
  <2>1. Readers' = Readers
    BY <1>1 DEF RaiseFlag, Readers
  <2> QED BY <1>1, <2>1 DEF RaiseFlag, ReaderInv, Where, Service, TypeOK, history
<1>2. ASSUME NEW k \in Service, Fork(k) PROVE ReaderInv'
  <2>1. PICK s \in Free : proc' = [proc EXCEPT ![s] = [kind |-> k, state |-> "new", goes |-> flag[k]]]
    BY <1>2 DEF Fork
  <2>2. s \in Slot /\ proc[s] = NoProcess
    BY DEF Free
  <2>3. CASE k = "RF"
    <3>1. Readers = {} /\ at' = "INET_on" /\ at = "RF"
      BY <1>2, <2>3 DEF Fork, ReaderInv, Where
    <3>2. Readers' = {s}
      BY <2>1, <2>2, <2>3, <3>1 DEF Readers, TypeOK
    <3> QED BY <3>1, <3>2 DEF ReaderInv, Where
  <2>4. CASE k = "INET"
    <3>1. Readers' = Readers
      BY <2>1, <2>2, <2>4 DEF Readers, TypeOK, Service
    <3> QED BY <1>2, <2>4, <3>1 DEF Fork, ReaderInv, Where
  <2> QED BY <2>3, <2>4 DEF Service
<1>3. ASSUME NEW s \in Slot, Reap(s) PROVE ReaderInv'
  <2>1. Readers' = Readers \ {s}
    BY <1>3 DEF Reap, Readers, TypeOK, Service
  <2>2. proc[s].kind \in Service => s \in table
    BY DEF Known
  <2>3. CASE proc[s].kind = "RF"
    <3>1. Readers' = {}
      BY <2>1, <2>3 DEF ReaderInv, Readers
    <3>2. flag["RF"] => at' = "RF"
      BY <1>3, <2>2, <2>3 DEF Reap, Service
    <3> QED BY <1>3, <3>1, <3>2 DEF Reap, ReaderInv
  <2>4. CASE proc[s].kind # "RF"
    <3>1. Readers' = Readers
      BY <2>1, <2>4 DEF Readers
    <3>2. at' \in {at, "INET"} /\ (at' # at => flag[proc[s].kind] /\ s \in table)
      BY <1>3, <2>4, ReapJumps DEF Reap, Service
    <3>3. at' = at \/ (at = "wait" /\ abandoned' = abandoned) \/ abandoned'
      <4>1. at \in {"RF", "INET", "wait"}
        BY <1>3 DEF Reap, Service
      <4>2. at = "RF" /\ at' # at => abandoned'
        BY <1>3, <3>2 DEF Reap
      <4>3. at = "wait" => abandoned' = abandoned
        BY <1>3 DEF Reap, TypeOK
      <4>4. at = "INET" => at' = at
        BY <3>2
      <4> QED BY <4>1, <4>2, <4>3, <4>4
    <3>4. at' # "stop" /\ at # "stop" /\ flag' = flag /\ (abandoned => abandoned')
      BY <1>3, <3>2 DEF Reap, Service
    <3> QED BY <3>1, <3>2, <3>3, <3>4 DEF ReaderInv, Where
  <2> QED BY <2>3, <2>4
<1>4. ASSUME NEW s \in Slot, HandlerReaps(s) PROVE ReaderInv'
  <2>1. Readers' = Readers \ {s}
    BY <1>4 DEF HandlerReaps, Readers, TypeOK, Service
  <2> QED BY <1>4, <2>1 DEF HandlerReaps, ReaderInv, Where
<1>5. ASSUME NEW s \in Slot, ChildStep(s) PROVE ReaderInv'
  BY <1>5, ChildKeeps, ChildKeepsKinds DEF ReaderInv, history
<1>6. CASE End \/ ForkFails
  <2>1. Readers' = Readers
    BY <1>6 DEF End, ForkFails, Readers
  <2> QED BY <1>6, <2>1 DEF End, ForkFails, ReaderInv, Where
<1>7. CASE HandlerReturns
  <2>1. Readers' = Readers /\ ~flag'["RF"] /\ Where' = Where
    BY <1>7 DEF HandlerReturns, Readers, SignalInv, Service, Where, TypeOK
  <2> QED BY <1>7, <2>1 DEF HandlerReturns, ReaderInv
<1>8. CASE Interrupt
  <2>1. Readers' = Readers /\ at' = "stop" /\ back' \in {Where, "gone"}
    BY <1>8 DEF Interrupt, Readers, Where
  <2> QED BY <2>1 DEF ReaderInv, Where
<1>9. CASE Terminate
  <2>1. Readers' = {}
    BY <1>9 DEF Terminate, Readers, Service
  <2> QED BY <1>9, <2>1 DEF Terminate, ReaderInv, Where
<1>10. CASE UNCHANGED vars
  BY <1>10 DEF vars, ReaderInv, Where, Readers
<1> QED BY <1>1, <1>2, <1>3, <1>4, <1>5, <1>6, <1>7, <1>8, <1>9, <1>10, Steps

LEMMA ListenersFinite ==
  IsFiniteSet(Listeners) /\ Cardinality(Listeners) \in Nat
BY SlotAssumption, FS_Subset, FS_CardinalityType DEF Listeners

LEMMA ListenerStep ==
  TypeOK /\ Known /\ ListenerInv /\ [Next]_vars => ListenerInv'
<1> SUFFICES ASSUME TypeOK, Known, ListenerInv, [Next]_vars PROVE ListenerInv'
  OBVIOUS
<1> NoProcess.kind \notin Service
  BY DEF NoProcess, Service
<1> USE ListenersFinite
<1>1. ASSUME NEW k \in Service, RaiseFlag(k) PROVE ListenerInv'
  <2>1. Listeners' = Listeners
    BY <1>1 DEF RaiseFlag, Listeners
  <2> QED BY <1>1, <2>1 DEF RaiseFlag, ListenerInv, Where, Service, history
<1>2. ASSUME NEW k \in Service, Fork(k) PROVE ListenerInv'
  <2>1. PICK s \in Free : proc' = [proc EXCEPT ![s] = [kind |-> k, state |-> "new", goes |-> flag[k]]]
    BY <1>2 DEF Fork
  <2>2. s \in Slot /\ proc[s] = NoProcess
    BY DEF Free
  <2>3. CASE k = "RF"
    <3>1. Listeners' = Listeners
      BY <2>1, <2>2, <2>3 DEF Listeners, TypeOK, Service
    <3>2. readers' = readers + 1 /\ at' = "INET_on"
      BY <1>2, <2>3 DEF Fork
    <3> QED BY <1>2, <2>3, <3>1, <3>2 DEF Fork, ListenerInv, Where, TypeOK
  <2>4. CASE k = "INET"
    <3>1. Listeners' = Listeners \cup {s} /\ s \notin Listeners
      BY <2>1, <2>2, <2>4 DEF Listeners, TypeOK, Service
    <3>2. Cardinality(Listeners') = Cardinality(Listeners) + 1
      BY <3>1, FS_AddElement
    <3>3. readers' = readers /\ at' = "wait" /\ at = "INET"
      BY <1>2, <2>4 DEF Fork
    <3> QED BY <3>2, <3>3 DEF ListenerInv, Where
  <2> QED BY <2>3, <2>4 DEF Service
<1>3. ASSUME NEW s \in Slot, Reap(s) PROVE ListenerInv'
  <2>1. Listeners' = Listeners \ {s}
    BY <1>3 DEF Reap, Listeners, TypeOK, Service
  <2>2. readers' = readers /\ at \in {"RF", "INET", "wait"}
    BY <1>3 DEF Reap, Service
  <2>3. CASE proc[s].kind = "INET"
    <3>1. Cardinality(Listeners') + 1 <= Cardinality(Listeners)
      <4>1. s \in Listeners
        BY <2>3 DEF Listeners
      <4>2. Cardinality(Listeners \ {s}) = Cardinality(Listeners) - 1
        BY <4>1, FS_RemoveElement
      <4> QED BY <2>1, <4>2
    <3>2. Cardinality(Listeners') \in Nat
      BY <2>1, FS_Subset, FS_CardinalityType
    <3> QED BY <2>2, <3>1, <3>2 DEF ListenerInv, TypeOK
  <2>4. CASE proc[s].kind # "INET"
    <3>1. Listeners' = Listeners
      BY <2>1, <2>4 DEF Listeners
    <3>2. at' \in {at, "RF"}
      BY <1>3, <2>4, ReapJumps DEF Service
    <3> QED BY <2>2, <3>1, <3>2 DEF ListenerInv, Where
  <2> QED BY <2>3, <2>4
<1>4. ASSUME NEW s \in Slot, HandlerReaps(s) PROVE ListenerInv'
  <2>1. Listeners' \subseteq Listeners
    BY <1>4 DEF HandlerReaps, Listeners, TypeOK, Service
  <2>2. Cardinality(Listeners') <= Cardinality(Listeners) /\ Cardinality(Listeners') \in Nat
    BY <2>1, FS_Subset, FS_CardinalityType
  <2>3. readers' = readers /\ Where' = Where
    BY <1>4 DEF HandlerReaps, Where, history
  <2> QED BY <2>2, <2>3 DEF ListenerInv, TypeOK
<1>5. ASSUME NEW s \in Slot, ChildStep(s) PROVE ListenerInv'
  BY <1>5, ChildKeeps, ChildKeepsKinds DEF ListenerInv, history
<1>6. CASE End \/ ForkFails \/ HandlerReturns
  <2>1. Listeners' = Listeners /\ readers' = readers /\ Where' \in {Where, "gone"}
    BY <1>6 DEF End, ForkFails, HandlerReturns, Listeners, Where, TypeOK, history
  <2> QED BY <2>1 DEF ListenerInv
<1>7. CASE Interrupt
  <2>1. Listeners' = Listeners /\ readers' = readers /\ Where' \in {Where, "gone"}
    BY <1>7 DEF Interrupt, Listeners, Where
  <2> QED BY <2>1 DEF ListenerInv
<1>8. CASE Terminate
  <2>1. Listeners' = {} /\ readers' = readers /\ Where' = "gone"
    BY <1>8 DEF Terminate, Listeners, Where, Service, history
  <2>2. Cardinality(Listeners') = 0
    BY <2>1, FS_EmptySet
  <2> QED BY <2>1, <2>2 DEF ListenerInv, TypeOK
<1>9. CASE UNCHANGED vars
  BY <1>9 DEF vars, ListenerInv, Where, Listeners
<1> QED BY <1>1, <1>2, <1>3, <1>4, <1>5, <1>6, <1>7, <1>8, <1>9, Steps
-----------------------------------------------------------------------------
LEMMA InitInv == Init => IInv
<1> SUFFICES ASSUME Init PROVE IInv
  OBVIOUS
<1>1. TypeOK
  BY DEF Init, TypeOK, Statement, Process, NoProcess, Kind, Service
<1>2. \A s \in Slot : proc[s].kind = "POLL" /\ (proc[s].state = "none" => proc[s] = NoProcess)
  BY DEF Init, NoProcess
<1>3. Readers = {} /\ Listeners = {}
  BY <1>2 DEF Readers, Listeners
<1>4. Known /\ SignalInv
  BY <1>2 DEF Known, SignalInv, Init, Service
<1>5. ReaderInv
  BY <1>3 DEF ReaderInv, Init
<1>6. ListenerInv
  BY <1>3, FS_EmptySet DEF ListenerInv, Where, Init
<1> QED BY <1>1, <1>4, <1>5, <1>6 DEF IInv

LEMMA StepInv == IInv /\ [Next]_vars => IInv'
BY TypeStep, KnownStep, ReaderStep, ListenerStep, SignalStep DEF IInv

LEMMA Inductive == Spec => []IInv
BY InitInv, StepInv, PTL DEF Spec

LEMMA InvProperties == IInv => ProcessesAreCounted /\ SignalIsFinal
<1> SUFFICES ASSUME IInv PROVE ProcessesAreCounted /\ SignalIsFinal
  OBVIOUS
<1>1. OneReader
  BY DEF IInv, ReaderInv, Readers, OneReader, Has
<1>2. ReaderIsKept
  <2> SUFFICES ASSUME at = "wait", flag["RF"], ~abandoned
               PROVE  \E s \in table : Has(s, "RF", {"new", "up", "zombie"})
    BY DEF ReaderIsKept
  <2>1. PICK s \in Slot : proc[s].kind = "RF"
    BY DEF IInv, ReaderInv, Readers
  <2>2. s \in table /\ proc[s].state # "none"
    BY <2>1 DEF IInv, Known, Service, NoProcess
  <2>3. proc[s].state \in {"new", "up", "zombie"}
    BY <2>2 DEF IInv, TypeOK, Process
  <2> QED BY <2>1, <2>2, <2>3 DEF Has
<1>3. ListenersAreCounted
  <2> DEFINE S == {s \in Slot : Has(s, "INET", {"new", "up", "zombie"})}
  <2>1. S \subseteq Listeners
    BY DEF Listeners, Has
  <2>2. Cardinality(S) <= Cardinality(Listeners) /\ Cardinality(S) \in Nat
    BY <2>1, ListenersFinite, FS_Subset, FS_CardinalityType
  <2>3. Cardinality(Listeners) <= readers /\ readers \in Nat
    BY DEF IInv, ListenerInv, TypeOK
  <2> QED BY <2>2, <2>3, ListenersFinite DEF ListenersAreCounted
<1>4. SignalIsFinal
  BY DEF IInv, SignalInv, SignalIsFinal
<1> QED BY <1>1, <1>2, <1>3, <1>4 DEF ProcessesAreCounted
-----------------------------------------------------------------------------
\* Every variable keeps its type, whatever ends or fails and whatever signals come.
THEOREM TypeCorrect == Spec => []TypeOK
BY Inductive, PTL DEF IInv

\* Whatever jump of run_on_finish restarts what, there is one reader of tones at
\* most; one that is wanted is there while the main program waits, unless its
\* restart was abandoned; and listeners add up only with restarts of the reader.
THEOREM ProcessesAreKept == Spec => []ProcessesAreCounted
BY Inductive, InvProperties, PTL

\* After a signal that comes while the main program waits no service is forked.
THEOREM SignalsAreFinal == Spec => []SignalIsFinal
BY Inductive, InvProperties, PTL
===============================================================================
